------------------------------ MODULE IdaBatch ------------------------------
(***************************************************************************)
(* Runs of the external command line (tools/pseudoforge_ida_cli.py) into    *)
(* one output directory.  The command line starts IDA, which runs the batch *)
(* script (tools/pseudoforge_ida_batch.py) over the selected functions;     *)
(* the two share files: the cancel file, the JSONL report, the aggregate    *)
(* .forge, one export bundle per function, the corpus metadata.  IDA may    *)
(* hang or die at any step, and leaves what it was writing cut short.  The  *)
(* lines of the .forge file are those of ForgeFile; helper aliases, which   *)
(* change names in the texts of its sections, change no line's kind.        *)
(***************************************************************************)
EXTENDS ForgeFile, FiniteSets

CONSTANTS Options,     \* command lines a run may be given
          MaxRuns,     \* bound on the runs of the command line
          MaxCtrlC     \* bound on the Ctrl+C of one run

ASSUME IdaBatchAssumption ==
    /\ Eas \subseteq Nat      \* addresses
    /\ MaxRuns \in Nat /\ MaxCtrlC \in Nat
    /\ Options \subseteq
         [mode : {"overwrite", "resume", "upsert"},  \* what happens to the .forge file
          wanted : SUBSET Eas,                       \* --ea, --name-regex and the like
          limit : Nat,                               \* --max-functions, 0 for none
          timed : BOOLEAN,                           \* --max-seconds
          stopOnError : BOOLEAN,
          cancelFile : {"default", "custom"}]

VARIABLES
    \* The output directory, which outlives the runs.
    forge,        \* the lines of the .forge file
    bundle,       \* the export bundle of a function
    described,    \* functions in the corpus metadata
    index,        \* the corpus index: the bundles listed, those with metadata
    cancelFiles,  \* the cancel files that exist
    \* The IDA process.
    ida,          \* where the batch script is
    todo,         \* selected functions not begun
    under,        \* the functions under way: one or none
    exitCode,     \* exit_code of the script
    report,       \* function records by status, and the reason of a stop event
    clean,        \* the .forge file was made of whole sections when the script began to write
    \* The command line.
    cli,          \* where main is
    opts,         \* its options
    interrupted,  \* _run_ida_and_monitor was interrupted
    ctrlC,        \* Ctrl+C so far in this run
    outcome,      \* status in the manifest of this run, "" before it is written
    runs,         \* runs started
    \* History.
    asked,        \* somebody asked this run to stop
    refused,      \* the system refused terminate or kill
    unread,       \* the report could not be read while the command line waited
    suspects,     \* functions with an error record, or under way or being rewritten when
                  \* IDA died or the script failed, and not exported since
    exported      \* functions that were once exported

diskVars == <<forge, bundle, described, index>>
idaVars == <<ida, todo, under, exitCode, report, clean>>
cliVars == <<cli, opts, interrupted, ctrlC, outcome, runs>>
pastVars == <<asked, refused, unread, suspects, exported>>
vars == <<diskVars, cancelFiles, idaVars, cliVars, pastVars>>

IdaRunning == {"setup", "boundary", "analyze", "export", "wrapup"}
Waiting == {"wait", "cancelWait", "termWait", "killWait"}
Stopping == {"cancelling", "cancelWait", "terminating", "termWait", "killing", "killWait"}
Finishing == {"summary", "index", "manifest"}
NoReport == [ok |-> {}, skipped |-> {}, error |-> {}, stop |-> ""]

Recorded == report.ok \cup report.skipped \cup report.error
IndexedBundles == {f \in Eas : bundle[f] \in {"whole", "mixed"}}
First(S) == CHOOSE f \in S : \A g \in S : f <= g

TypeOK ==
    /\ forge \in Seq(Lines) /\ described \subseteq Eas
    /\ bundle \in [Eas -> {"none", "partial", "whole", "mixed"}]
    /\ index \in [listed : SUBSET Eas, described : SUBSET Eas]
    /\ cancelFiles \subseteq {"default", "custom"}
    /\ ida \in IdaRunning \cup {"off", "ended", "dead"}
    /\ todo \subseteq Eas /\ under \subseteq Eas /\ exitCode \in {0, 1}
    /\ report \in [ok : SUBSET Eas, skipped : SUBSET Eas, error : SUBSET Eas,
                   stop : {"", "max_seconds", "cancel_file"}]
    /\ Cardinality(under) = (IF ida \in {"analyze", "export"} THEN 1 ELSE 0)
    /\ under \cap (Recorded \cup todo) = {} /\ todo \cap Recorded = {}
    /\ cli \in {"idle", "launched", "done"} \cup Waiting \cup Stopping \cup Finishing
    /\ cli = "idle" \/ opts \in Options
    /\ {clean, interrupted, asked, refused, unread} \subseteq BOOLEAN
    /\ ctrlC \in 0..MaxCtrlC /\ runs \in 0..MaxRuns
    /\ outcome \in {"", "complete", "failed", "interrupted"}
    /\ suspects \subseteq Eas /\ exported \subseteq Eas

Init ==
    /\ forge = <<>> /\ bundle = [f \in Eas |-> "none"] /\ described = {}
    /\ index = [listed |-> {}, described |-> {}]
    /\ cancelFiles = {}
    /\ ida = "off" /\ todo = {} /\ under = {} /\ exitCode = 0 /\ report = NoReport
    /\ clean = FALSE
    /\ cli = "idle" /\ opts \in Options /\ interrupted = FALSE /\ ctrlC = 0 /\ outcome = ""
    /\ runs = 0
    /\ asked = FALSE /\ refused = FALSE /\ unread = FALSE /\ suspects = {} /\ exported = {}

-----------------------------------------------------------------------------
(* The batch script in IDA.                                                 *)

NewForge == IF opts.mode = "overwrite" THEN <<>> ELSE forge

(* Selection in address order, less what --resume finds in the .forge file  *)
(* (nothing when it cannot be read); a new .forge file unless it is kept;   *)
(* the metadata of the selected functions.  An exception on the way ends    *)
(* the script.                                                              *)
Setup ==
    /\ ida = "setup"
    /\ clean' = Intact(NewForge)
    /\ \/ /\ \E skip \in IF opts.mode = "resume" THEN {Listed(forge), {}} ELSE {{}} :
                todo' = opts.wanted \ skip
          /\ forge' = NewForge /\ described' = todo' /\ ida' = "boundary"
          /\ UNCHANGED exitCode
       \/ /\ forge' \in {forge, NewForge} /\ ida' = "ended" /\ exitCode' = 1
          /\ UNCHANGED <<todo, described>>
    /\ UNCHANGED <<bundle, index, cancelFiles, under, report, cliVars, pastVars>>

StopsHere(reason) ==
    /\ report' = [report EXCEPT !.stop = reason] /\ ida' = "wrapup"
    /\ UNCHANGED <<todo, under>>

LimitReached == opts.limit # 0 /\ Cardinality(Recorded) >= opts.limit

(* What could be wrong: the function under way stays selected.              *)
BoundaryKeepsTodo ==
    /\ ida = "boundary"
    /\ \/ todo = {} /\ ida' = "wrapup" /\ UNCHANGED <<todo, under, report>>
       \/ /\ todo # {} /\ ~LimitReached /\ opts.cancelFile \notin cancelFiles
          /\ under' = {First(todo)} /\ ida' = "analyze"
          /\ UNCHANGED <<todo, report>>
    /\ UNCHANGED <<diskVars, cancelFiles, exitCode, clean, cliVars, pastVars>>

(* The head of the loop over the selected functions.                        *)
Boundary ==
    /\ ida = "boundary"
    /\ \/ todo = {} /\ ida' = "wrapup" /\ UNCHANGED <<todo, under, report>>
       \/ todo # {} /\ opts.timed /\ StopsHere("max_seconds")
       \/ todo # {} /\ LimitReached /\ ida' = "wrapup" /\ UNCHANGED <<todo, under, report>>
       \/ /\ todo # {} /\ ~LimitReached /\ opts.cancelFile \in cancelFiles
          /\ StopsHere("cancel_file")
       \/ /\ todo # {} /\ ~LimitReached /\ opts.cancelFile \notin cancelFiles
          /\ under' = {First(todo)} /\ todo' = todo \ under' /\ ida' = "analyze"
          /\ UNCHANGED report
    /\ UNCHANGED <<diskVars, cancelFiles, exitCode, clean, cliVars, pastVars>>

(* The record of the function under way; an error ends the loop when the    *)
(* run stops on errors.                                                     *)
Record(status) ==
    /\ report' = [report EXCEPT ![status] = @ \cup under]
    /\ under' = {}
    /\ exitCode' = IF status = "error" THEN 1 ELSE exitCode
    /\ suspects' = CASE status = "error" -> suspects \cup under
                     [] status = "ok" -> suspects \ under
                     [] OTHER -> suspects
    /\ ida' = IF status = "error" /\ opts.stopOnError THEN "wrapup" ELSE "boundary"
    /\ UNCHANGED todo

(* What could be wrong: the writer opens the file anew for each section.    *)
StoredAlone(e, t) == IF opts.mode = "upsert" THEN Upsert(forge, e, t) ELSE Section(e, t)

(* The section of e goes to the end, or replaces those of e.                *)
Stored(e, t) == IF opts.mode = "upsert" THEN Upsert(forge, e, t) ELSE forge \o Section(e, t)

FirstPart(f, n) == SubSeq(f, 1, n)

(* A write cut short: an append has kept what there was, an upsert has      *)
(* truncated the file first.                                                *)
CutStored(e, t) ==
    {forge} \cup {FirstPart(Stored(e, t), n) :
                     n \in (IF opts.mode = "upsert" THEN 0 ELSE Len(forge))..Len(Stored(e, t))}

(* _analyze_function up to its section in the .forge file.                  *)
Analyze ==
    /\ ida = "analyze"
    /\ \/ Record("skipped") /\ UNCHANGED forge
       \/ Record("error") /\ \E e \in under, t \in Texts : forge' \in CutStored(e, t)
       \/ /\ \E e \in under, t \in Texts : forge' = Stored(e, t)
          /\ ida' = "export"
          /\ UNCHANGED <<todo, under, exitCode, report, suspects>>
    /\ UNCHANGED <<bundle, described, index, cancelFiles, clean, cliVars, asked, refused, unread, exported>>

(* What could be wrong: the summary is written before the files it names.   *)
CutBundleSummaryFirst == [f \in Eas |-> IF f \notin under THEN bundle[f] ELSE "mixed"]

(* The files of a bundle are written one by one, its summary last: a bundle *)
(* cut short has no summary, or the summary of an earlier run.              *)
CutBundle == [f \in Eas |->
    IF f \notin under THEN bundle[f] ELSE IF f \in IndexedBundles THEN "mixed" ELSE "partial"]

(* What could be wrong: an export that fails is not an error.               *)
ExportSwallowsError ==
    /\ ida = "export"
    /\ bundle' \in {bundle, [f \in Eas |-> IF f \in under THEN "whole" ELSE bundle[f]]}
    /\ exported' = IF bundle' = bundle THEN exported ELSE exported \cup under
    /\ Record("ok")
    /\ UNCHANGED <<forge, described, index, cancelFiles, clean, cliVars, asked, refused, unread>>

(* The comparison and the export bundle, and the record.                    *)
Export ==
    /\ ida = "export"
    /\ \/ /\ bundle' = [f \in Eas |-> IF f \in under THEN "whole" ELSE bundle[f]]
          /\ exported' = exported \cup under
          /\ Record("ok")
       \/ bundle' \in {bundle, CutBundle} /\ Record("error") /\ UNCHANGED exported
    /\ UNCHANGED <<forge, described, index, cancelFiles, clean, cliVars, asked, refused, unread>>

(* The rewriting of a bundle that has an index entry is cut short.          *)
CutRewrite(f) == [bundle EXCEPT ![f] = "mixed"]

(* Helper aliases are applied to the .forge file and then to the bundles of *)
(* all runs; where that fails the file being written is cut short.          *)
RewritesInPart ==
    \/ /\ \E n \in 0..Len(forge) : forge' = FirstPart(forge, n)
       /\ UNCHANGED bundle
    \/ /\ \E f \in IndexedBundles : bundle' = CutRewrite(f)
       /\ UNCHANGED forge

Rewriting == {f \in Eas : bundle'[f] # bundle[f]}

(* The aliases, the replay manifest, the summary event: an exception makes  *)
(* the run fail.                                                            *)
Wrapup ==
    /\ ida = "wrapup"
    /\ ida' = "ended"
    /\ \/ UNCHANGED <<forge, bundle, exitCode, suspects>>
       \/ RewritesInPart /\ exitCode' = 1 /\ suspects' = suspects \cup Rewriting
    /\ UNCHANGED <<described, index, cancelFiles, todo, under, report, clean, cliVars,
                   asked, refused, unread, exported>>

IdaStep == Setup \/ Boundary \/ Analyze \/ Export \/ Wrapup

(* IDA is gone wherever it was; what it was writing is cut short.           *)
Dies ==
    /\ ida' = "dead" /\ todo' = {} /\ under' = {}
    /\ \/ UNCHANGED <<forge, bundle>>
       \/ ida = "setup" /\ forge' = NewForge /\ UNCHANGED bundle
       \/ /\ ida = "analyze" /\ UNCHANGED bundle
          /\ \E e \in under, t \in Texts : forge' \in CutStored(e, t)
       \/ ida = "export" /\ bundle' = CutBundle /\ UNCHANGED forge
       \/ ida = "wrapup" /\ RewritesInPart
    /\ suspects' = suspects \cup under \cup Rewriting
    /\ UNCHANGED <<described, index, exitCode, report, clean, exported>>

IdaCrashes ==
    /\ ida \in IdaRunning /\ Dies
    /\ UNCHANGED <<cancelFiles, cliVars, asked, refused, unread>>

-----------------------------------------------------------------------------
(* The command line, and the user at it.                                    *)

(* What could be wrong: the cancel file of an earlier run is left.          *)
StartRunKeepsCancel(o) ==
    /\ cli \in {"idle", "done"} /\ ida \notin IdaRunning /\ runs < MaxRuns
    /\ runs' = runs + 1 /\ opts' = o /\ cli' = "launched"
    /\ interrupted' = FALSE /\ ctrlC' = 0 /\ outcome' = ""
    /\ ida' = "setup" /\ todo' = {} /\ under' = {} /\ exitCode' = 0 /\ report' = NoReport
    /\ clean' = FALSE
    /\ asked' = FALSE /\ refused' = FALSE /\ unread' = FALSE
    /\ UNCHANGED <<diskVars, cancelFiles, suspects, exported>>

(* A run removes the default cancel file, never a custom one, and starts    *)
(* IDA.  IDA keeps its database to itself: no run starts beside another.    *)
StartRun(o) ==
    /\ cli \in {"idle", "done"} /\ ida \notin IdaRunning /\ runs < MaxRuns
    /\ runs' = runs + 1 /\ opts' = o /\ cli' = "launched"
    /\ interrupted' = FALSE /\ ctrlC' = 0 /\ outcome' = ""
    /\ ida' = "setup" /\ todo' = {} /\ under' = {} /\ exitCode' = 0 /\ report' = NoReport
    /\ clean' = FALSE
    /\ cancelFiles' = IF o.cancelFile = "default" THEN cancelFiles \ {"default"} ELSE cancelFiles
    /\ asked' = FALSE /\ refused' = FALSE /\ unread' = FALSE
    /\ UNCHANGED <<diskVars, suspects, exported>>

Goto(pc) == cli' = pc /\ UNCHANGED <<opts, ctrlC, outcome, runs>>

(* IDA was started, and now the command line watches it.                    *)
Watch ==
    /\ cli = "launched"
    /\ Goto("wait")
    /\ UNCHANGED <<diskVars, cancelFiles, idaVars, interrupted, pastVars>>

(* Each wait reads the report; an error of that ends main.                  *)
PollFails ==
    /\ cli \in Waiting
    /\ Goto("done")
    /\ unread' = TRUE
    /\ UNCHANGED <<diskVars, cancelFiles, idaVars, interrupted, asked, refused, suspects, exported>>

(* IDA ended while the command line waits for it.                           *)
SeesExit ==
    /\ cli \in Waiting /\ ida \notin IdaRunning
    /\ Goto("summary")
    /\ UNCHANGED <<diskVars, cancelFiles, idaVars, interrupted, pastVars>>

(* What could be wrong: the last wait has no time limit.                    *)
NextStageWithoutLast == [cancelWait |-> "terminating", termWait |-> "killing"]

(* What follows each wait when it is cut short.                             *)
NextStage == [cancelWait |-> "terminating", termWait |-> "killing", killWait |-> "summary"]

(* The wait for an answer to the cancel file, to terminate, to kill is over.*)
TimesOut ==
    /\ cli \in DOMAIN NextStage /\ ida \in IdaRunning
    /\ Goto(NextStage[cli])
    /\ UNCHANGED <<diskVars, cancelFiles, idaVars, interrupted, pastVars>>

(* Ctrl+C asks IDA to stop; a further one cuts the wait short.  Anywhere    *)
(* else it ends main at once, also before IDA is watched.                   *)
CtrlC ==
    /\ cli \in {"launched"} \cup Waiting \cup Stopping \cup Finishing /\ ctrlC < MaxCtrlC
    /\ ctrlC' = ctrlC + 1
    /\ cli' = IF cli = "wait" THEN "cancelling"
              ELSE IF cli \in DOMAIN NextStage THEN NextStage[cli] ELSE "done"
    /\ interrupted' = (interrupted \/ cli = "wait")
    /\ asked' = TRUE
    /\ UNCHANGED <<diskVars, cancelFiles, idaVars, opts, outcome, runs, refused, unread, suspects, exported>>

(* The cancel file is written, or cannot be.                                *)
WriteCancelFile ==
    /\ cli = "cancelling"
    /\ \/ cancelFiles' = cancelFiles \cup {opts.cancelFile} /\ Goto("cancelWait")
       \/ UNCHANGED cancelFiles /\ Goto("terminating")
    /\ UNCHANGED <<diskVars, idaVars, interrupted, pastVars>>

(* Somebody else creates the cancel file of the run.                        *)
OthersCancel ==
    /\ cli \notin {"idle", "done"} /\ opts.cancelFile \notin cancelFiles
    /\ cancelFiles' = cancelFiles \cup {opts.cancelFile} /\ asked' = TRUE
    /\ UNCHANGED <<diskVars, idaVars, cliVars, refused, unread, suspects, exported>>

(* What could be wrong: a process that does not terminate is left to itself.*)
StopProcessGivesUp ==
    /\ cli \in {"terminating", "killing"}
    /\ \/ cli = "terminating" /\ ida \in IdaRunning /\ Goto("killWait")
          /\ UNCHANGED <<diskVars, idaVars, refused, suspects, exported>>
       \/ Goto("termWait") /\ ida \in IdaRunning /\ Dies /\ UNCHANGED refused
       \/ Goto("termWait") /\ ida \notin IdaRunning
          /\ UNCHANGED <<diskVars, idaVars, refused, suspects, exported>>
    /\ UNCHANGED <<cancelFiles, interrupted, asked, unread>>

(* terminate may be ignored by the process or refused by the system, kill   *)
(* only refused.                                                            *)
StopProcess ==
    /\ cli \in {"terminating", "killing"}
    /\ Goto(IF cli = "terminating" THEN "termWait" ELSE "killWait")
    /\ \/ ida \in IdaRunning /\ Dies /\ UNCHANGED refused
       \/ /\ refused' = (refused \/ (cli = "killing" /\ ida \in IdaRunning))
          /\ UNCHANGED <<diskVars, idaVars, suspects, exported>>
    /\ UNCHANGED <<cancelFiles, interrupted, asked, unread>>

(* The summary of the report, the corpus index, the manifest: a step that   *)
(* fails ends main.                                                         *)
WriteSummary ==
    /\ cli = "summary"
    /\ Goto("index") \/ Goto("done")
    /\ UNCHANGED <<diskVars, cancelFiles, idaVars, interrupted, pastVars>>

(* The index joins every bundle of the directory with the metadata, unless  *)
(* the run was interrupted.                                                 *)
WriteIndex ==
    /\ cli = "index"
    /\ \/ /\ ~interrupted
          /\ index' = [listed |-> IndexedBundles, described |-> IndexedBundles \cap described]
          /\ Goto("manifest")
       \/ interrupted /\ UNCHANGED index /\ Goto("manifest")
       \/ ~interrupted /\ UNCHANGED index /\ Goto("done")
    /\ UNCHANGED <<forge, bundle, described, cancelFiles, idaVars, interrupted, pastVars>>

(* The exit code of IDA: that of the script, or an error when it died.      *)
Status ==
    IF interrupted THEN "interrupted"
    ELSE IF ida = "ended" /\ exitCode = 0 THEN "complete" ELSE "failed"

WriteManifest ==
    /\ cli = "manifest"
    /\ outcome' \in {Status, ""} /\ cli' = "done"
    /\ UNCHANGED <<diskVars, cancelFiles, idaVars, opts, interrupted, ctrlC, runs, asked, refused, unread,
                   suspects, exported>>

CliStep == Watch \/ SeesExit \/ TimesOut \/ WriteCancelFile \/ StopProcess \/ WriteSummary \/ WriteIndex
           \/ WriteManifest

Next ==
    \/ IdaStep \/ IdaCrashes \/ CliStep \/ PollFails \/ CtrlC \/ OthersCancel
    \/ \E o \in Options : StartRun(o)

Spec == Init /\ [][Next]_vars

(* Only the command line is fair: IDA may hang.                             *)
FairSpec == Spec /\ WF_vars(CliStep)

-----------------------------------------------------------------------------
(* Properties.                                                              *)

(* A run whose manifest says complete has a record of every selected        *)
(* function unless it says why not, no error among them, and a whole bundle *)
(* of each function it calls ok; and a reader of the .forge file finds the  *)
(* section of each, unless the run went on with a file that a writer had    *)
(* left torn, where a section can be taken by the torn one before it.       *)
CompleteRunIsWhole ==
    cli = "done" /\ outcome = "complete" =>
        /\ report.error = {}
        /\ todo = {} \/ report.stop # "" \/ LimitReached
        /\ \A f \in report.ok : bundle[f] = "whole"
        /\ clean => \A f \in report.ok : Found(forge, f) \in Texts \cup {Mangled}

(* A function listed in the .forge file has its bundle, or a report has an  *)
(* error of it, or IDA died or failed over its files: --resume passes it    *)
(* over for ever, but no export is missing without a trace.                 *)
SectionGapIsKnown ==
    \A f \in Listed(forge) : bundle[f] = "whole" \/ f \in suspects \cup under

(* The index lists only functions that were exported once.                  *)
IndexedWereExported == index.listed \subseteq exported

(* A cancel file left by an earlier run does not stop a run that uses the   *)
(* default one.                                                             *)
StopIsOwn ==
    report.stop = "cancel_file" /\ opts.cancelFile = "default" => asked

(* When the command line is gone IDA is gone, also if it would not stop by  *)
(* itself, with these exceptions: the report could not be read, the Ctrl+C  *)
(* came before IDA was watched, the system refused to kill it, or a further *)
(* Ctrl+C cut the stop short.                                               *)
StopLeavesNoIda ==
    cli = "done" /\ ida \in IdaRunning =>
        \/ unread
        \/ ctrlC = 1 /\ ~interrupted
        \/ interrupted /\ (refused \/ ctrlC > 1)

(* After Ctrl+C the command line ends, although IDA may hang.               *)
StopEnds == cli = "cancelling" ~> cli = "done"

(* README: the index is a merged index over the bundles and the metadata,   *)
(* the evidence about the whole database.  A resumed run writes metadata of *)
(* the functions it selected only, and indexes the bundles of all.          *)
IndexedAreDescribed ==
    cli = "done" /\ outcome = "complete" => index.listed \subseteq index.described
=============================================================================
