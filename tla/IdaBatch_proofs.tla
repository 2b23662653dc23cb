-------------------------- MODULE IdaBatch_proofs --------------------------
(***************************************************************************)
(* For any number of functions, command lines, runs and Ctrl+C: what a      *)
(* batch leaves in the directory, whose cancel file stops it, and what the  *)
(* index of a complete run describes.                                       *)
(***************************************************************************)
EXTENDS IdaBatch, ForgeFile_proofs, FiniteSetTheorems

(* A selected function is taken once, and only then under way.              *)
Selection ==
    /\ opts \in Options /\ todo \subseteq Eas
    /\ under \subseteq Eas /\ \A e, f \in under : e = f
    /\ report = [ok |-> report.ok, skipped |-> report.skipped, error |-> report.error,
                 stop |-> report.stop]
    /\ ida \notin {"analyze", "export"} => under = {}
    /\ ida = "setup" => report = NoReport
    /\ under \cap (Recorded \cup todo) = {} /\ todo \cap Recorded = {}

(* A cancel file of this run that is the default one was asked for.         *)
Asked ==
    /\ cli = "cancelling" => asked
    /\ "default" \in cancelFiles /\ opts.cancelFile = "default" => asked

(* A bundle the index would list was exported once.                         *)
Bundles ==
    /\ bundle = [f \in Eas |-> bundle[f]]
    /\ IndexedBundles \subseteq exported

(* What begins a section in the .forge file, seen by readers or not, is     *)
(* followed by its bundle unless something went wrong.                      *)
Sections ==
    /\ forge \in Seq(Lines)
    /\ \A f \in Begun(forge) : \/ bundle[f] = "whole" \/ f \in suspects
                               \/ ida = "export" /\ f \in under

(* A script that found whole sections and had no error leaves whole         *)
(* sections, those of the functions it calls ok among them.                 *)
Sound ==
    clean /\ exitCode = 0 /\ ida \in {"boundary", "analyze", "export", "wrapup", "ended"} =>
        /\ Intact(forge)
        /\ report.ok \subseteq Begun(forge)
        /\ ida = "export" => under \subseteq Begun(forge)

(* What the script has done when it ends without an error.                  *)
Ending ==
    /\ report.ok \subseteq Eas
    /\ exitCode = 0 /\ ida # "dead" => \A f \in report.ok : bundle[f] = "whole"
    /\ exitCode = 0 => report.error = {}
    /\ ida \in {"wrapup", "ended"} /\ exitCode = 0 => todo = {} \/ report.stop # "" \/ LimitReached

Concluded == outcome = "complete" => cli = "done" /\ ida = "ended" /\ exitCode = 0

(* A stop follows a Ctrl+C that came while IDA was watched; what comes after*)
(* kill meets a running IDA only if kill was refused or a wait was cut      *)
(* short.                                                                   *)
Stops ==
    /\ ctrlC \in Nat
    /\ cli \in {"launched", "wait"} => ctrlC = 0 /\ ~interrupted
    /\ cli \in Stopping => interrupted /\ ctrlC >= 1
    /\ cli \in Finishing /\ ida \in IdaRunning => interrupted /\ ctrlC >= 1
    /\ cli \in {"killWait"} \cup Finishing /\ ida \in IdaRunning => refused \/ ctrlC > 1
    /\ StopLeavesNoIda

LEMMA NoReportIsEmpty ==
    /\ NoReport = [ok |-> NoReport.ok, skipped |-> NoReport.skipped, error |-> NoReport.error,
                   stop |-> NoReport.stop]
    /\ NoReport.ok = {} /\ NoReport.skipped = {} /\ NoReport.error = {} /\ NoReport.stop = ""
<1>1. NoReport = [ok |-> NoReport.ok, skipped |-> NoReport.skipped, error |-> NoReport.error,
                  stop |-> NoReport.stop]
  BY DEF NoReport
<1>2. NoReport.ok = {}
  BY DEF NoReport
<1>3. NoReport.skipped = {}
  BY DEF NoReport
<1>4. NoReport.error = {}
  BY DEF NoReport
<1>5. NoReport.stop = ""
  BY DEF NoReport
<1> QED
  BY <1>1, <1>2, <1>3, <1>4, <1>5

LEMMA FirstIsMember == ASSUME todo \subseteq Eas, todo # {} PROVE First(todo) \in todo
<1>1. todo \subseteq Nat
  BY IdaBatchAssumption
<1>2. Min(todo) \in todo /\ \A g \in todo : Min(todo) <= g
  BY <1>1, MinOf
<1> QED
  BY <1>2 DEF First

(* The steps of the command line that end nothing and start nothing.        *)
LeavesIda == UNCHANGED <<forge, bundle, described, idaVars, opts, suspects, exported>>

LEMMA StepsAre ==
    [Next]_vars =>
        \/ Setup \/ Boundary \/ Analyze \/ Export \/ Wrapup
        \/ Dies /\ ida \in IdaRunning /\ UNCHANGED opts
        \/ \E o \in Options : StartRun(o)
        \/ LeavesIda
BY Zenon
   DEF Next, IdaStep, CliStep, IdaCrashes, Watch, PollFails, SeesExit, TimesOut, WriteCancelFile, StopProcess,
       WriteSummary, WriteIndex, WriteManifest, CtrlC, OthersCancel, Goto, LeavesIda, diskVars, cliVars, pastVars, vars

LEMMA SelectionStep == Selection /\ [Next]_vars => Selection'
<1> SUFFICES ASSUME Selection, [Next]_vars PROVE Selection'
  OBVIOUS
<1> USE DEF Selection, Recorded
<1>1. CASE Setup
  <2>1. opts.wanted \subseteq Eas
    BY IdaBatchAssumption
  <2>2. todo' \subseteq Eas
    BY <1>1, <2>1 DEF Setup
  <2>3. UNCHANGED <<opts, under, report>> /\ ida = "setup"
    BY <1>1 DEF Setup, cliVars
  <2>4. Recorded = {} /\ Recorded' = {}
    BY <2>3, NoReportIsEmpty
  <2>5. ida' # "setup"
    BY <1>1 DEF Setup
  <2> QED
    BY <2>2, <2>3, <2>4, <2>5
<1>2. CASE Boundary
  BY <1>2, FirstIsMember DEF Boundary, StopsHere, diskVars, cliVars, pastVars
<1>3. CASE Analyze
  BY <1>3 DEF Analyze, Record, cliVars
<1>4. CASE Export
  BY <1>4 DEF Export, Record, cliVars
<1>5. CASE Wrapup
  BY <1>5 DEF Wrapup, diskVars, cliVars
<1>6. CASE Dies /\ UNCHANGED opts
  BY <1>6 DEF Dies
<1>7. ASSUME NEW o \in Options, StartRun(o) PROVE Selection'
  BY <1>7, NoReportIsEmpty DEF StartRun, diskVars
<1>8. CASE LeavesIda
  BY <1>8 DEF LeavesIda, idaVars
<1> QED
  BY <1>1, <1>2, <1>3, <1>4, <1>5, <1>6, <1>7, <1>8, StepsAre

LEMMA AskedStep == Asked /\ [Next]_vars => Asked'
<1> SUFFICES ASSUME Asked, [Next]_vars PROVE Asked'
  OBVIOUS
<1> USE DEF Asked
<1>1. CASE Setup
  BY <1>1 DEF Setup, NewForge, cliVars, pastVars
<1>2. CASE Boundary
  BY <1>2 DEF Boundary, StopsHere, diskVars, cliVars, pastVars
<1>3. CASE Analyze
  BY <1>3 DEF Analyze, Record, cliVars
<1>4. CASE Export
  BY <1>4 DEF Export, Record, cliVars
<1>5. CASE Wrapup
  BY <1>5 DEF Wrapup, diskVars, cliVars
<1>6. CASE IdaCrashes
  BY <1>6 DEF IdaCrashes, Dies, cliVars, IdaRunning
<1>7. CASE SeesExit
  BY <1>7 DEF SeesExit, Goto, diskVars, idaVars, pastVars
<1>8. CASE TimesOut
  BY <1>8 DEF TimesOut, Goto, diskVars, idaVars, NextStage, pastVars
<1>9. CASE WriteCancelFile
  BY <1>9 DEF WriteCancelFile, Goto, diskVars, idaVars, pastVars
<1>10. CASE StopProcess
  BY <1>10 DEF StopProcess, Goto, Dies, diskVars, idaVars
<1>11. CASE WriteSummary
  BY <1>11 DEF WriteSummary, Goto, diskVars, idaVars, pastVars
<1>12. CASE WriteIndex
  BY <1>12 DEF WriteIndex, Goto, idaVars, pastVars
<1>13. CASE WriteManifest
  BY <1>13 DEF WriteManifest, diskVars, idaVars
<1>14. CASE CtrlC
  BY <1>14 DEF CtrlC, diskVars, idaVars, NextStage
<1>15. CASE OthersCancel
  BY <1>15 DEF OthersCancel, diskVars, idaVars, cliVars
<1>16. ASSUME NEW o \in Options, StartRun(o) PROVE Asked'
  BY <1>16, NoReportIsEmpty DEF StartRun, diskVars
<1>17. CASE UNCHANGED vars
  BY <1>17 DEF vars, diskVars, idaVars, cliVars, pastVars
<1>18. CASE Watch
  BY <1>18 DEF Watch, Goto, diskVars, idaVars, pastVars
<1>19. CASE PollFails
  BY <1>19 DEF PollFails, Goto, diskVars, idaVars
<1> QED
  BY <1>1, <1>2, <1>3, <1>4, <1>5, <1>6, <1>7, <1>8, <1>9, <1>10, <1>11, <1>12, <1>13, <1>14,
     <1>15, <1>16, <1>17, <1>18, <1>19
     DEF Next, IdaStep, CliStep

LEMMA StopIsOwnStep == Selection /\ Asked /\ StopIsOwn /\ [Next]_vars => StopIsOwn'
<1> SUFFICES ASSUME Selection /\ Asked /\ StopIsOwn, [Next]_vars PROVE StopIsOwn'
  OBVIOUS
<1> USE DEF Selection, Asked, StopIsOwn
<1>1. CASE Setup
  BY <1>1 DEF Setup, NewForge, cliVars, pastVars
<1>2. CASE Boundary
  BY <1>2 DEF Boundary, StopsHere, diskVars, cliVars, pastVars
<1>3. CASE Analyze
  BY <1>3 DEF Analyze, Record, cliVars
<1>4. CASE Export
  BY <1>4 DEF Export, Record, cliVars
<1>5. CASE Wrapup
  BY <1>5 DEF Wrapup, diskVars, cliVars
<1>6. CASE IdaCrashes
  BY <1>6 DEF IdaCrashes, Dies, cliVars, IdaRunning
<1>7. CASE SeesExit
  BY <1>7 DEF SeesExit, Goto, diskVars, idaVars, pastVars
<1>8. CASE TimesOut
  BY <1>8 DEF TimesOut, Goto, diskVars, idaVars, pastVars
<1>9. CASE WriteCancelFile
  BY <1>9 DEF WriteCancelFile, Goto, diskVars, idaVars, pastVars
<1>10. CASE StopProcess
  BY <1>10 DEF StopProcess, Goto, Dies, diskVars, idaVars
<1>11. CASE WriteSummary
  BY <1>11 DEF WriteSummary, Goto, diskVars, idaVars, pastVars
<1>12. CASE WriteIndex
  BY <1>12 DEF WriteIndex, Goto, idaVars, pastVars
<1>13. CASE WriteManifest
  BY <1>13 DEF WriteManifest, diskVars, idaVars
<1>14. CASE CtrlC
  BY <1>14 DEF CtrlC, diskVars, idaVars
<1>15. CASE OthersCancel
  BY <1>15 DEF OthersCancel, diskVars, idaVars, cliVars
<1>16. ASSUME NEW o \in Options, StartRun(o) PROVE StopIsOwn'
  BY <1>16, NoReportIsEmpty DEF StartRun, diskVars
<1>17. CASE UNCHANGED vars
  BY <1>17 DEF vars, diskVars, idaVars, cliVars, pastVars
<1>18. CASE Watch
  BY <1>18 DEF Watch, Goto, diskVars, idaVars, pastVars
<1>19. CASE PollFails
  BY <1>19 DEF PollFails, Goto, diskVars, idaVars
<1> QED
  BY <1>1, <1>2, <1>3, <1>4, <1>5, <1>6, <1>7, <1>8, <1>9, <1>10, <1>11, <1>12, <1>13, <1>14,
     <1>15, <1>16, <1>17, <1>18, <1>19
     DEF Next, IdaStep, CliStep

LEMMA BundlesStep == Bundles /\ [Next]_vars => Bundles'
<1> SUFFICES ASSUME Bundles, [Next]_vars PROVE Bundles'
  OBVIOUS
<1> USE DEF Bundles, IndexedBundles
<1>1. CASE Setup
  BY <1>1 DEF Setup, pastVars
<1>2. CASE Boundary
  BY <1>2 DEF Boundary, diskVars, pastVars
<1>3. CASE Analyze
  BY <1>3 DEF Analyze
<1>4. CASE Export
  BY <1>4 DEF Export, CutBundle
<1>5. CASE Wrapup
  BY <1>5 DEF Wrapup, RewritesInPart, CutRewrite
<1>6. CASE Dies
  BY <1>6 DEF Dies, RewritesInPart, CutRewrite, CutBundle
<1>7. ASSUME NEW o \in Options, StartRun(o) PROVE Bundles'
  BY <1>7 DEF StartRun, diskVars
<1>8. CASE LeavesIda
  BY <1>8 DEF LeavesIda
<1> QED
  BY <1>1, <1>2, <1>3, <1>4, <1>5, <1>6, <1>7, <1>8, StepsAre

LEMMA IndexStep == Bundles /\ IndexedWereExported /\ [Next]_vars => IndexedWereExported'
<1> SUFFICES ASSUME Bundles /\ IndexedWereExported, [Next]_vars PROVE IndexedWereExported'
  OBVIOUS
<1> USE DEF Bundles, IndexedBundles, IndexedWereExported
<1>1. CASE Setup
  BY <1>1 DEF Setup, NewForge, cliVars, pastVars
<1>2. CASE Boundary
  BY <1>2 DEF Boundary, StopsHere, diskVars, cliVars, pastVars
<1>3. CASE Analyze
  BY <1>3 DEF Analyze, Record, cliVars
<1>4. CASE Export
  BY <1>4 DEF Export, Record, cliVars, CutBundle
<1>5. CASE Wrapup
  BY <1>5 DEF Wrapup, RewritesInPart, CutRewrite
<1>6. CASE IdaCrashes
  BY <1>6 DEF IdaCrashes, Dies, cliVars, IdaRunning, CutBundle, RewritesInPart, CutRewrite
<1>7. CASE SeesExit
  BY <1>7 DEF SeesExit, Goto, diskVars, idaVars, pastVars
<1>8. CASE TimesOut
  BY <1>8 DEF TimesOut, Goto, diskVars, idaVars, pastVars
<1>9. CASE WriteCancelFile
  BY <1>9 DEF WriteCancelFile, Goto, diskVars, idaVars, pastVars
<1>10. CASE StopProcess
  BY <1>10 DEF StopProcess, Goto, Dies, diskVars, idaVars, CutBundle, RewritesInPart, CutRewrite
<1>11. CASE WriteSummary
  BY <1>11 DEF WriteSummary, Goto, diskVars, idaVars, pastVars
<1>12. CASE WriteIndex
  BY <1>12 DEF WriteIndex, Goto, idaVars, pastVars
<1>13. CASE WriteManifest
  BY <1>13 DEF WriteManifest, diskVars, idaVars
<1>14. CASE CtrlC
  BY <1>14 DEF CtrlC, diskVars, idaVars
<1>15. CASE OthersCancel
  BY <1>15 DEF OthersCancel, diskVars, idaVars, cliVars
<1>16. ASSUME NEW o \in Options, StartRun(o) PROVE IndexedWereExported'
  BY <1>16, NoReportIsEmpty DEF StartRun, diskVars
<1>17. CASE UNCHANGED vars
  BY <1>17 DEF vars, diskVars, idaVars, cliVars, pastVars
<1>18. CASE Watch
  BY <1>18 DEF Watch, Goto, diskVars, idaVars, pastVars
<1>19. CASE PollFails
  BY <1>19 DEF PollFails, Goto, diskVars, idaVars
<1> QED
  BY <1>1, <1>2, <1>3, <1>4, <1>5, <1>6, <1>7, <1>8, <1>9, <1>10, <1>11, <1>12, <1>13, <1>14,
     <1>15, <1>16, <1>17, <1>18, <1>19
     DEF Next, IdaStep, CliStep

(* What a step leaves of the .forge file: sections begin for the functions  *)
(* they began for, and for the one under way.                               *)
LEMMA StoredBegins ==
    ASSUME forge \in Seq(Lines), NEW e \in Eas, NEW t \in Texts
    PROVE  /\ Stored(e, t) \in Seq(Lines) /\ Begun(Stored(e, t)) \subseteq Begun(forge) \cup {e}
           /\ Intact(forge) => /\ Intact(Stored(e, t))
                               /\ Begun(forge) \cup {e} \subseteq Begun(Stored(e, t))
<1>1. CASE opts.mode = "upsert"
  <2>1. Stored(e, t) = Upsert(forge, e, t)
    BY <1>1 DEF Stored
  <2> QED
    BY <2>1, UpsertBegins, UpsertKeepsWhole
<1>2. CASE opts.mode # "upsert"
  <2>1. Stored(e, t) = forge \o Section(e, t)
    BY <1>2 DEF Stored
  <2> QED
    BY <2>1, AppendBegins, AppendsWhole
<1> QED
  BY <1>1, <1>2

LEMMA CutBegins ==
    ASSUME forge \in Seq(Lines), NEW e \in Eas, NEW t \in Texts, NEW f \in CutStored(e, t)
    PROVE  f \in Seq(Lines) /\ Begun(f) \subseteq Begun(forge) \cup {e}
<1>1. CASE f = forge
  BY <1>1
<1>2. ASSUME NEW n \in Nat, n <= Len(Stored(e, t)), f = FirstPart(Stored(e, t), n)
      PROVE  f \in Seq(Lines) /\ Begun(f) \subseteq Begun(forge) \cup {e}
  <2> PICK g \in Seq(Lines) : g = Stored(e, t) /\ Begun(g) \subseteq Begun(forge) \cup {e}
    BY StoredBegins
  <2>1. n \in 0..Len(g) /\ f = SubSeq(g, 1, n)
    BY <1>2 DEF FirstPart
  <2> QED
    BY <2>1, PartBegins
<1>3. f = forge \/ \E n \in Nat : n <= Len(Stored(e, t)) /\ f = FirstPart(Stored(e, t), n)
  <2>1. Len(forge) \in Nat /\ Len(Stored(e, t)) \in Nat
    BY StoredBegins
  <2>2. \A n \in (IF opts.mode = "upsert" THEN 0 ELSE Len(forge))..Len(Stored(e, t)) :
           n \in Nat /\ n <= Len(Stored(e, t))
    BY <2>1
  <2> QED
    BY <2>2, Zenon DEF CutStored
<1> QED
  BY <1>1, <1>2, <1>3

LEMMA ForgeStep ==
    ASSUME Selection, forge \in Seq(Lines), [Next]_vars
    PROVE  /\ forge' \in Seq(Lines)
           /\ Begun(forge') \subseteq Begun(forge) \cup (IF ida = "analyze" THEN under ELSE {})
<1> DEFINE Kept == forge' \in Seq(Lines) /\ Begun(forge') \subseteq Begun(forge)
<1>0. UNCHANGED forge => Kept
  OBVIOUS
<1>1. forge' = NewForge => Kept
  <2>1. Begun(<<>>) = {} /\ <<>> \in Seq(Lines)
    BY EmptyFile, IntactListed
  <2> QED
    BY <2>1 DEF NewForge
<1>2. ASSUME NEW e \in under, NEW t \in Texts, ida = "analyze",
             forge' = Stored(e, t) \/ forge' \in CutStored(e, t)
      PROVE  forge' \in Seq(Lines) /\ Begun(forge') \subseteq Begun(forge) \cup under
  <2>1. e \in Eas
    BY DEF Selection
  <2> QED
    BY <1>2, <2>1, StoredBegins, CutBegins
<1>3. RewritesInPart => Kept
  BY PartBegins DEF RewritesInPart, FirstPart
<1> HIDE DEF Kept
<1>4. CASE Setup
  BY <1>0, <1>1, <1>4 DEF Setup, Kept
<1>5. CASE Analyze
  BY <1>0, <1>2, <1>5 DEF Analyze, Kept
<1>6. CASE Wrapup
  BY <1>0, <1>3, <1>6 DEF Wrapup, Kept
<1>7. CASE Dies
  BY <1>0, <1>1, <1>2, <1>3, <1>7 DEF Dies, Kept
<1>8. CASE UNCHANGED forge
  BY <1>0, <1>8 DEF Kept
<1> QED
  BY <1>4, <1>5, <1>6, <1>7, <1>8, StepsAre DEF Boundary, Export, StartRun, LeavesIda, diskVars

LEMMA SectionsStep == Selection /\ Bundles /\ Sections /\ [Next]_vars => Sections'
<1> SUFFICES ASSUME Selection /\ Bundles /\ Sections, [Next]_vars PROVE Sections'
  OBVIOUS
<1>1. /\ forge' \in Seq(Lines)
      /\ Begun(forge') \subseteq Begun(forge) \cup (IF ida = "analyze" THEN under ELSE {})
  BY ForgeStep DEF Sections
<1> SUFFICES ASSUME NEW f \in Begun(forge')
             PROVE  bundle'[f] = "whole" \/ f \in suspects' \/ (ida' = "export" /\ f \in under')
  BY <1>1 DEF Sections
<1>2. f \in Eas /\ bundle = [g \in Eas |-> bundle[g]]
  BY <1>1, ListedAreBegun DEF Bundles
<1>3. \/ bundle[f] = "whole" \/ f \in suspects
      \/ ida \in {"analyze", "export"} /\ f \in under
  BY <1>1 DEF Sections
<1>4. CASE Setup
  BY <1>3, <1>4 DEF Setup, pastVars
<1>5. CASE Boundary
  BY <1>3, <1>5 DEF Boundary, diskVars, pastVars
<1>6. CASE Analyze
  <2>1. ida = "analyze" /\ bundle' = bundle
    BY <1>6 DEF Analyze
  <2>2. CASE f \in under
    <3>1. CASE Record("error") \/ (ida' = "export" /\ UNCHANGED under)
      BY <2>2, <3>1 DEF Record
    <3>2. CASE Record("skipped") /\ UNCHANGED forge
      <4>1. bundle[f] = "whole" \/ f \in suspects
        BY <2>1, <3>2 DEF Sections
      <4> QED
        BY <2>1, <3>2, <4>1 DEF Record
    <3>3. \/ Record("error") \/ (ida' = "export" /\ UNCHANGED under)
          \/ Record("skipped") /\ UNCHANGED forge
      BY <1>6 DEF Analyze
    <3> QED
      BY <3>1, <3>2, <3>3
  <2>3. CASE f \notin under
    BY <1>3, <1>6, <2>1, <2>3 DEF Analyze, Record
  <2> QED
    BY <2>2, <2>3
<1>7. CASE Export
  <2>1. CASE bundle' = [g \in Eas |-> IF g \in under THEN "whole" ELSE bundle[g]] /\ Record("ok")
    BY <1>2, <1>3, <2>1 DEF Record
  <2>2. CASE bundle' \in {bundle, CutBundle} /\ Record("error")
    BY <1>2, <1>3, <2>2 DEF Record, CutBundle
  <2> QED
    BY <1>7, <2>1, <2>2 DEF Export
<1>8. CASE Wrapup
  <2>1. ida = "wrapup"
    BY <1>8 DEF Wrapup
  <2> QED
    BY <1>2, <1>3, <1>8, <2>1 DEF Wrapup, Rewriting
<1>9. CASE Dies
  BY <1>2, <1>3, <1>9 DEF Dies, Rewriting
<1>10. ASSUME NEW o \in Options, StartRun(o) PROVE bundle'[f] = "whole" \/ f \in suspects'
  <2>1. ida \notin IdaRunning /\ UNCHANGED <<bundle, suspects>>
    BY <1>10 DEF StartRun, diskVars
  <2> QED
    BY <1>3, <2>1 DEF IdaRunning
<1>11. CASE LeavesIda
  <2>1. UNCHANGED <<bundle, suspects, ida, under, forge>>
    BY <1>11 DEF LeavesIda, idaVars
  <2> QED
    BY <2>1 DEF Sections
<1> QED
  BY <1>4, <1>5, <1>6, <1>7, <1>8, <1>9, <1>10, <1>11, StepsAre

LEMMA SoundStep == Selection /\ Sections /\ Sound /\ [Next]_vars => Sound'
<1> SUFFICES ASSUME Selection, Sections, Sound, [Next]_vars, clean', exitCode' = 0,
                    ida' \in {"boundary", "analyze", "export", "wrapup", "ended"}
             PROVE  /\ Intact(forge') /\ report'.ok \subseteq Begun(forge')
                    /\ ida' = "export" => under' \subseteq Begun(forge')
  BY DEF Sound
<1> USE DEF Sound
<1>1. CASE Setup
  <2>1. forge' = NewForge /\ Intact(NewForge) /\ ida' = "boundary" /\ report' = report /\ ida = "setup"
    BY <1>1 DEF Setup
  <2>2. report.ok = {}
    BY <2>1, NoReportIsEmpty DEF Selection
  <2> QED
    BY <2>1, <2>2
<1>2. CASE Boundary
  BY <1>2 DEF Boundary, StopsHere, diskVars, Selection
<1>3. CASE Analyze
  <2>1. ida = "analyze" /\ UNCHANGED clean
    BY <1>3 DEF Analyze
  <2>2. CASE Record("skipped") /\ UNCHANGED forge
    BY <2>1, <2>2 DEF Record, Selection
  <2>3. CASE Record("error")
    BY <2>3 DEF Record
  <2>4. ASSUME NEW e \in under, NEW t \in Texts, forge' = Stored(e, t),
               UNCHANGED <<under, exitCode, report>>
        PROVE  /\ Intact(forge') /\ report'.ok \subseteq Begun(forge') /\ under' \subseteq Begun(forge')
    <3>1. e \in Eas /\ \A f \in under : f = e
      BY DEF Selection
    <3>2. Intact(forge') /\ Begun(forge) \cup {e} \subseteq Begun(forge')
      BY <2>1, <2>4, <3>1, StoredBegins DEF Sections
    <3> QED
      BY <2>1, <2>4, <3>1, <3>2
  <2> QED
    BY <1>3, <2>2, <2>3, <2>4 DEF Analyze
<1>4. CASE Export
  <2>1. ida = "export" /\ UNCHANGED <<forge, clean>>
    BY <1>4 DEF Export
  <2>2. Record("ok")
    BY <1>4 DEF Export, Record
  <2> QED
    BY <2>1, <2>2 DEF Record, Selection
<1>5. CASE Wrapup
  BY <1>5 DEF Wrapup
<1>6. CASE Dies
  BY <1>6 DEF Dies
<1>7. ASSUME NEW o \in Options, StartRun(o) PROVE FALSE
  BY <1>7 DEF StartRun
<1>8. CASE LeavesIda
  BY <1>8 DEF LeavesIda, idaVars
<1> QED
  BY <1>1, <1>2, <1>3, <1>4, <1>5, <1>6, <1>7, <1>8, StepsAre

LEMMA EndingStep == Selection /\ Bundles /\ Ending /\ [Next]_vars => Ending'
<1> SUFFICES ASSUME Selection, Bundles, Ending, [Next]_vars PROVE Ending'
  OBVIOUS
<1>1. CASE Setup
  <2>1. ida = "setup" /\ UNCHANGED report
    BY <1>1 DEF Setup
  <2>2. report.ok = {} /\ report'.ok = {} /\ report'.error = {}
    BY <2>1, NoReportIsEmpty DEF Selection, Ending
  <2>3. ~(ida' \in {"wrapup", "ended"} /\ exitCode' = 0)
    BY <1>1 DEF Setup
  <2> QED
    BY <2>2, <2>3 DEF Ending
<1>2. CASE Boundary
  BY <1>2 DEF Boundary, StopsHere, diskVars, cliVars, Selection, Ending, LimitReached, Recorded
<1>3. CASE Analyze
  <2>1. UNCHANGED <<bundle, opts>> /\ report'.ok = report.ok /\ ida # "dead"
    BY <1>3 DEF Analyze, Record, Selection, cliVars
  <2>2. exitCode' = 0 =>
          exitCode = 0 /\ report'.error = report.error /\ ida' \notin {"wrapup", "ended"}
    BY <1>3 DEF Analyze, Record, Selection
  <2> QED
    BY <2>1, <2>2 DEF Ending
<1>4. CASE Export
  <2>1. ida = "export" /\ report.ok \cap under = {} /\ under \subseteq Eas
    BY <1>4 DEF Export, Selection, Recorded
  <2>2. exitCode' = 0 =>
          /\ exitCode = 0 /\ report'.error = report.error /\ ida' \notin {"wrapup", "ended"}
          /\ bundle' = [f \in Eas |-> IF f \in under THEN "whole" ELSE bundle[f]]
    BY <1>4 DEF Export, Record, Selection
  <2>3. report'.ok \in {report.ok, report.ok \cup under}
    BY <1>4 DEF Export, Record, Selection
  <2> QED
    BY <2>1, <2>2, <2>3 DEF Ending
<1>5. CASE Wrapup
  <2>1. ida = "wrapup" /\ UNCHANGED <<report, todo, opts>>
    BY <1>5 DEF Wrapup, cliVars
  <2>2. LimitReached' = LimitReached
    BY <2>1 DEF LimitReached, Recorded
  <2>3. exitCode' = 0 => exitCode = 0 /\ bundle' = bundle
    BY <1>5 DEF Wrapup
  <2> QED
    BY <2>1, <2>2, <2>3 DEF Ending
<1>6. CASE Dies
  BY <1>6 DEF Dies, Ending
<1>7. ASSUME NEW o \in Options, StartRun(o) PROVE Ending'
  BY <1>7, NoReportIsEmpty DEF StartRun, Ending
<1>8. CASE LeavesIda
  BY <1>8 DEF LeavesIda, idaVars, Ending, LimitReached, Recorded
<1> QED
  BY <1>1, <1>2, <1>3, <1>4, <1>5, <1>6, <1>7, <1>8, StepsAre

LEMMA ConcludedStep == Concluded /\ [Next]_vars => Concluded'
<1> SUFFICES ASSUME Concluded, [Next]_vars PROVE Concluded'
  OBVIOUS
<1> USE DEF Concluded
<1>1. CASE (IdaStep \/ IdaCrashes) /\ cli = "done"
  <2>1. ida \in IdaRunning /\ UNCHANGED outcome
    BY <1>1 DEF IdaStep, IdaCrashes, Setup, Boundary, Analyze, Export, Wrapup, IdaRunning, cliVars
  <2> QED
    BY <2>1 DEF IdaRunning
<1>2. CASE (IdaStep \/ IdaCrashes) /\ cli # "done"
  BY <1>2 DEF IdaStep, IdaCrashes, Setup, Boundary, Analyze, Export, Wrapup, cliVars
<1>3. CASE WriteManifest
  BY <1>3 DEF WriteManifest, Status, idaVars
<1>4. CASE OthersCancel \/ UNCHANGED vars
  BY <1>4 DEF OthersCancel, cliVars, idaVars, vars
<1>5. ASSUME NEW o \in Options, StartRun(o) PROVE Concluded'
  BY <1>5 DEF StartRun
<1>6. CASE Watch \/ SeesExit \/ TimesOut \/ WriteCancelFile \/ StopProcess \/ WriteSummary \/ WriteIndex
           \/ PollFails \/ CtrlC
  <2>1. UNCHANGED outcome /\ cli # "done"
    BY <1>6, Zenon
       DEF Watch, SeesExit, TimesOut, WriteCancelFile, StopProcess, WriteSummary, WriteIndex, PollFails, CtrlC, Goto,
           Waiting, Stopping, Finishing, NextStage
  <2> QED
    BY <2>1
<1> QED
  BY <1>1, <1>2, <1>3, <1>4, <1>5, <1>6 DEF Next, CliStep

LEMMA Initially ==
    Init => /\ Selection /\ Asked /\ StopIsOwn /\ Bundles /\ IndexedWereExported /\ Sections
            /\ Sound /\ Ending /\ Concluded
<1> SUFFICES ASSUME Init PROVE Selection /\ Asked /\ StopIsOwn /\ Bundles /\ IndexedWereExported
                               /\ Sections /\ Sound /\ Ending /\ Concluded
  OBVIOUS
<1> USE NoReportIsEmpty DEF Init
<1>1. Recorded = {}
  BY DEF Recorded
<1>2. Selection
  BY <1>1 DEF Selection
<1>3. Asked /\ StopIsOwn
  BY DEF Asked, StopIsOwn
<1>4. Bundles /\ IndexedWereExported
  BY DEF Bundles, IndexedWereExported, IndexedBundles
<1>5. Sections
  <2>1. Begun(<<>>) = {} /\ <<>> \in Seq(Lines)
    BY EmptyFile, IntactListed
  <2> QED
    BY <2>1 DEF Sections
<1>6. Sound /\ Ending /\ Concluded
  BY DEF Sound, Ending, Concluded
<1> QED
  BY <1>2, <1>3, <1>4, <1>5, <1>6

(* A cancel file that an earlier run left never stops a run that uses the   *)
(* default one (the command line removes it before IDA starts).             *)
THEOREM StopsAreOwn == Spec => []StopIsOwn
<1> DEFINE IInv == Selection /\ Asked /\ StopIsOwn
<1>1. Init => IInv
  BY Initially
<1>2. IInv /\ [Next]_vars => IInv'
  BY SelectionStep, AskedStep, StopIsOwnStep
<1>3. IInv => StopIsOwn
  OBVIOUS
<1> QED
  BY <1>1, <1>2, <1>3, PTL DEF Spec

(* The corpus index lists only functions whose bundle was written to the    *)
(* end once, whatever died since (the summary of a bundle is its last file).*)
THEOREM IndexListsExported == Spec => []IndexedWereExported
<1> DEFINE IInv == Bundles /\ IndexedWereExported
<1>1. Init => IInv
  BY Initially
<1>2. IInv /\ [Next]_vars => IInv'
  BY BundlesStep, IndexStep
<1>3. IInv => IndexedWereExported
  OBVIOUS
<1> QED
  BY <1>1, <1>2, <1>3, PTL DEF Spec

(* No function listed in the .forge file is without its bundle unless an    *)
(* error was reported, or IDA died or the script failed over its files;     *)
(* whatever was left torn, and whoever wrote behind it.                     *)
THEOREM NoSilentGap == Spec => []SectionGapIsKnown
<1> DEFINE IInv == Selection /\ Bundles /\ Sections
<1>1. Init => IInv
  BY Initially
<1>2. IInv /\ [Next]_vars => IInv'
  BY SelectionStep, BundlesStep, SectionsStep
<1>3. IInv => SectionGapIsKnown
  BY ListedAreBegun DEF Sections, SectionGapIsKnown
<1> QED
  BY <1>1, <1>2, <1>3, PTL DEF Spec

(* A manifest that says complete is about a run that ended by itself, without*)
(* an error, over every function it selected, or says where it stopped; it  *)
(* left a whole bundle of each function it calls ok, and, when the .forge   *)
(* file it went on with was whole, a section that readers find.             *)
THEOREM CompleteMeansWhole == Spec => []CompleteRunIsWhole
<1> DEFINE IInv == Selection /\ Bundles /\ Sections /\ Sound /\ Ending /\ Concluded
<1>1. Init => IInv
  BY Initially
<1>2. IInv /\ [Next]_vars => IInv'
  BY SelectionStep, BundlesStep, SectionsStep, SoundStep, EndingStep, ConcludedStep
<1>3. IInv => CompleteRunIsWhole
  <2> SUFFICES ASSUME IInv, outcome = "complete" PROVE CompleteRunIsWhole
    BY DEF CompleteRunIsWhole
  <2>1. ida = "ended" /\ exitCode = 0
    BY DEF Concluded
  <2>2. report.error = {} /\ (todo = {} \/ report.stop # "" \/ LimitReached)
        /\ \A f \in report.ok : bundle[f] = "whole"
    BY <2>1 DEF Ending
  <2>3. ASSUME clean, NEW f \in report.ok PROVE Found(forge, f) \in Texts \cup {Mangled}
    <3>1. forge \in Seq(Lines) /\ Intact(forge) /\ f \in Begun(forge)
      BY <2>1, <2>3 DEF Sections, Sound
    <3> QED
      BY <3>1, IntactListed, ListedIsFound
  <2> QED
    BY <2>2, <2>3 DEF CompleteRunIsWhole
<1> QED
  BY <1>1, <1>2, <1>3, PTL DEF Spec

LEMMA StagesAre ==
    /\ DOMAIN NextStage = {"cancelWait", "termWait", "killWait"}
    /\ \A w \in DOMAIN NextStage : NextStage[w] \in {"terminating", "killing", "summary"}
<1>1. DOMAIN NextStage = {"cancelWait", "termWait", "killWait"}
  BY DEF NextStage
<1>2. /\ NextStage["cancelWait"] = "terminating" /\ NextStage["termWait"] = "killing"
      /\ NextStage["killWait"] = "summary"
  BY DEF NextStage
<1> QED
  BY <1>1, <1>2

LEMMA StopsStep == Stops /\ [Next]_vars => Stops'
<1> SUFFICES ASSUME Stops, [Next]_vars PROVE Stops'
  OBVIOUS
<1> USE DEF Stops, Stopping, Finishing, StopLeavesNoIda
<1>1. CASE IdaStep \/ IdaCrashes
  <2>1. ida \in IdaRunning /\ UNCHANGED <<cli, ctrlC, refused, interrupted, unread>>
    BY <1>1 DEF IdaStep, IdaCrashes, Setup, Boundary, Analyze, Export, Wrapup, IdaRunning, cliVars, pastVars
  <2> QED
    BY <2>1
<1>2. CASE SeesExit
  BY <1>2 DEF SeesExit, Goto, idaVars, pastVars
<1>3. CASE TimesOut
  BY <1>3 DEF TimesOut, Goto, idaVars, NextStage, pastVars
<1>4. CASE WriteCancelFile
  BY <1>4 DEF WriteCancelFile, Goto, idaVars, pastVars
<1>5. CASE StopProcess
  <2>1. /\ ctrlC' = ctrlC /\ interrupted' = interrupted /\ cli \in Stopping
        /\ cli' = IF cli = "terminating" THEN "termWait" ELSE "killWait"
    BY <1>5 DEF StopProcess, Goto
  <2>2. cli = "killing" => ida' \notin IdaRunning \/ refused'
    BY <1>5 DEF StopProcess, Dies, idaVars, IdaRunning
  <2>3. cli \in {"terminating", "killing"}
    BY <1>5 DEF StopProcess
  <2> QED
    BY <2>1, <2>2, <2>3
<1>6. CASE WriteSummary
  BY <1>6 DEF WriteSummary, Goto, idaVars, pastVars
<1>7. CASE WriteIndex
  BY <1>7 DEF WriteIndex, Goto, idaVars, pastVars
<1>8. CASE WriteManifest
  BY <1>8 DEF WriteManifest, idaVars
<1>9. CASE CtrlC
  <2>1. /\ ctrlC' = ctrlC + 1 /\ UNCHANGED <<ida, refused>>
        /\ cli \in {"launched"} \cup Waiting \cup Stopping \cup Finishing
        /\ interrupted' = (interrupted \/ cli = "wait")
    BY <1>9 DEF CtrlC, idaVars
  <2>2. \/ cli = "wait" /\ cli' = "cancelling"
        \/ cli \in {"cancelWait", "termWait", "killWait"} /\ cli' \in {"terminating", "killing", "summary"}
        \/ cli \notin {"wait", "cancelWait", "termWait", "killWait"} /\ cli' = "done"
    BY <1>9, StagesAre DEF CtrlC
  <2>3. interrupted' <=> interrupted \/ cli = "wait"
    BY <1>9, Zenon DEF CtrlC
  <2>4. /\ ctrlC \in Nat
        /\ cli = "launched" => ctrlC = 0 /\ ~interrupted
        /\ cli \in Stopping => interrupted /\ ctrlC >= 1
        /\ cli \in Finishing /\ ida \in IdaRunning => interrupted /\ ctrlC >= 1
    BY Zenon
  <2>5. /\ ctrlC' \in Nat /\ ctrlC' >= 1
        /\ cli = "launched" => ctrlC' = 1
        /\ cli \in Stopping => ctrlC' > 1
        /\ cli \in Finishing /\ ida \in IdaRunning => ctrlC' > 1
    BY ONLY <2>1, <2>4
  <2> HIDE DEF Stops
  <2> QED
    BY <2>1, <2>2, <2>3, <2>4, <2>5 DEF Stops, Waiting
<1>10. CASE OthersCancel
  BY <1>10 DEF OthersCancel, idaVars, cliVars
<1>11. ASSUME NEW o \in Options, StartRun(o) PROVE Stops'
  BY <1>11 DEF StartRun
<1>12. CASE Watch
  BY <1>12 DEF Watch, Goto, idaVars, pastVars
<1>13. CASE PollFails
  BY <1>13 DEF PollFails, Goto, idaVars
<1>14. CASE UNCHANGED vars
  BY <1>14 DEF vars, idaVars, cliVars, pastVars
<1> QED
  BY <1>1, <1>2, <1>3, <1>4, <1>5, <1>6, <1>7, <1>8, <1>9, <1>10, <1>11, <1>12, <1>13, <1>14
     DEF Next, CliStep

(* The command line never leaves a running IDA behind (_stop_process), with *)
(* the exceptions the property names: the report could not be read, the     *)
(* Ctrl+C came before IDA was watched, the system refused to kill it, or a  *)
(* further Ctrl+C cut the stop short.                                       *)
THEOREM StopLeavesNone == Spec => []StopLeavesNoIda
<1>1. Init => Stops
  <2>1. Init => ctrlC = 0 /\ cli = "idle"
    BY DEF Init
  <2> QED
    BY <2>1 DEF Stops, Stopping, Finishing, StopLeavesNoIda
<1>2. Stops => StopLeavesNoIda
  BY DEF Stops
<1> QED
  BY <1>1, <1>2, StopsStep, PTL DEF Spec

-----------------------------------------------------------------------------
(* What the metadata of a complete run say.                                 *)

(* A run that selects all functions and does not skip what an earlier one   *)
(* wrote.                                                                   *)
OverAll == opts.mode # "resume" /\ opts.wanted = Eas

(* The metadata are of the functions the run selected.                      *)
Describing ==
    /\ report.ok \cup todo \cup under \subseteq described
    /\ ida \in (IdaRunning \ {"setup"}) \cup {"ended"} /\ exitCode = 0 /\ OverAll
          => described = Eas

(* A run that goes on to its index without an interrupt waited for IDA, and *)
(* its index, once written, has the metadata of what it reports.            *)
Indexing ==
    /\ cli \in Stopping => interrupted
    /\ cli \in Finishing /\ ida \in IdaRunning => interrupted
    /\ (cli = "manifest" /\ Status = "complete") \/ outcome = "complete" =>
          /\ report.ok \subseteq index.described
          /\ OverAll => index.listed \subseteq index.described

(* The manifest of a run that says complete stands beside an index with the *)
(* metadata of every function the run calls ok; and of every bundle it      *)
(* lists, when the run was over all functions.                              *)
IndexDescribesTheRun ==
    cli = "done" /\ outcome = "complete" =>
        /\ report.ok \subseteq index.described
        /\ OverAll => IndexedAreDescribed

LEMMA DescribingStep == Selection /\ Describing /\ [Next]_vars => Describing'
<1> SUFFICES ASSUME Selection /\ Describing, [Next]_vars PROVE Describing'
  OBVIOUS
<1> USE DEF Selection, Describing, OverAll, IdaRunning
<1>1. CASE Setup
  <2>1. ida = "setup" /\ UNCHANGED <<opts, under, report>> /\ under = {} /\ report.ok = {}
    BY <1>1, NoReportIsEmpty DEF Setup, cliVars
  <2>2. CASE described' = todo' /\ ida' = "boundary" /\ UNCHANGED exitCode
    <3>1. opts.mode # "resume" => todo' = opts.wanted
      BY <1>1, <2>2 DEF Setup
    <3> QED
      BY <2>1, <2>2, <3>1
  <2>3. CASE ida' = "ended" /\ exitCode' = 1 /\ UNCHANGED <<todo, described>>
    BY <2>1, <2>3
  <2> QED
    BY <1>1, <2>2, <2>3 DEF Setup
<1>2. CASE Boundary
  <2>1. todo' \cup under' \subseteq todo \cup under /\ report'.ok = report.ok
    BY <1>2, FirstIsMember DEF Boundary, StopsHere
  <2>2. /\ UNCHANGED <<described, exitCode, opts>> /\ ida = "boundary"
    BY <1>2 DEF Boundary, diskVars, cliVars
  <2> QED
    BY <2>1, <2>2
<1>3. CASE Analyze
  BY <1>3 DEF Analyze, Record, cliVars
<1>4. CASE Export
  BY <1>4 DEF Export, Record, cliVars
<1>5. CASE Wrapup
  BY <1>5 DEF Wrapup, cliVars
<1>6. CASE Dies /\ UNCHANGED opts
  BY <1>6 DEF Dies
<1>7. ASSUME NEW o \in Options, StartRun(o) PROVE Describing'
  <2>1. report'.ok = {} /\ todo' = {} /\ under' = {} /\ ida' = "setup"
    BY <1>7, NoReportIsEmpty DEF StartRun
  <2> QED
    BY <2>1
<1>8. CASE LeavesIda
  BY <1>8 DEF LeavesIda, idaVars
<1> QED
  BY <1>1, <1>2, <1>3, <1>4, <1>5, <1>6, <1>7, <1>8, StepsAre

LEMMA IndexingStep ==
    Selection /\ Ending /\ Concluded /\ Describing /\ Indexing /\ [Next]_vars => Indexing'
<1> SUFFICES ASSUME Selection /\ Ending /\ Concluded /\ Describing /\ Indexing,
                    [Next]_vars
             PROVE  Indexing'
  OBVIOUS
<1> USE DEF Selection, Indexing, OverAll, IdaRunning, Stopping, Finishing, Status, Waiting
<1>1. CASE Setup
  BY <1>1 DEF Setup, NewForge, cliVars, Concluded, pastVars
<1>2. CASE Boundary
  BY <1>2 DEF Boundary, StopsHere, diskVars, cliVars, Concluded, pastVars
<1>3. CASE Analyze
  BY <1>3 DEF Analyze, Record, cliVars, Concluded
<1>4. CASE Export
  BY <1>4 DEF Export, Record, cliVars, Concluded
<1>5. CASE Wrapup
  BY <1>5 DEF Wrapup, diskVars, cliVars, Concluded
<1>6. CASE IdaCrashes
  BY <1>6 DEF IdaCrashes, Dies, cliVars, IdaRunning, Concluded
<1>7. CASE SeesExit
  BY <1>7 DEF SeesExit, Goto, diskVars, idaVars, Concluded, pastVars
<1>8. CASE TimesOut
  BY <1>8 DEF TimesOut, Goto, diskVars, idaVars, NextStage, Concluded, pastVars
<1>9. CASE WriteCancelFile
  BY <1>9 DEF WriteCancelFile, Goto, diskVars, idaVars, Concluded, pastVars
<1>10. CASE StopProcess
  BY <1>10 DEF StopProcess, Goto, Dies, diskVars, idaVars, Concluded
<1>11. CASE WriteSummary
  BY <1>11 DEF WriteSummary, Goto, diskVars, idaVars, Concluded, pastVars
<1>12. CASE WriteIndex
  <2>1. cli = "index" /\ UNCHANGED <<bundle, described, ida, exitCode, report, opts, interrupted, outcome>>
    BY <1>12 DEF WriteIndex, Goto, idaVars
  <2>2. outcome # "complete"
    BY <2>1 DEF Concluded
  <2>3. ASSUME cli' = "manifest", Status = "complete"
        PROVE  report.ok \subseteq index'.described /\ (OverAll => index'.listed \subseteq index'.described)
    <3>1. index' = [listed |-> IndexedBundles, described |-> IndexedBundles \cap described]
      BY <1>12, <2>3 DEF WriteIndex, Goto
    <3>2. index'.listed = IndexedBundles /\ index'.described = IndexedBundles \cap described
      BY ONLY <3>1
    <3>3. report.ok \subseteq IndexedBundles /\ report.ok \subseteq described
      BY <2>1, <2>3 DEF Ending, IndexedBundles, Describing
    <3>4. OverAll => described = Eas
      BY <2>3 DEF Describing
    <3>5. IndexedBundles \subseteq Eas
      BY DEF IndexedBundles
    <3> HIDE DEF OverAll
    <3> QED
      BY ONLY <3>2, <3>3, <3>4, <3>5
  <2> QED
    BY <1>12, <2>1, <2>2, <2>3 DEF WriteIndex, Goto
<1>13. CASE WriteManifest
  BY <1>13 DEF WriteManifest, diskVars, idaVars, Concluded
<1>14. CASE CtrlC
  BY <1>14 DEF CtrlC, diskVars, idaVars, NextStage, Concluded
<1>15. CASE OthersCancel
  BY <1>15 DEF OthersCancel, diskVars, idaVars, cliVars, Concluded
<1>16. ASSUME NEW o \in Options, StartRun(o) PROVE Indexing'
  BY <1>16, NoReportIsEmpty DEF StartRun, diskVars
<1>17. CASE UNCHANGED vars
  BY <1>17 DEF vars, diskVars, idaVars, cliVars, pastVars
<1>18. CASE Watch
  BY <1>18 DEF Watch, Goto, diskVars, idaVars, pastVars, Concluded
<1>19. CASE PollFails
  BY <1>19 DEF PollFails, Goto, diskVars, idaVars, Concluded
<1> QED
  BY <1>1, <1>2, <1>3, <1>4, <1>5, <1>6, <1>7, <1>8, <1>9, <1>10, <1>11, <1>12, <1>13, <1>14,
     <1>15, <1>16, <1>17, <1>18, <1>19
     DEF Next, IdaStep, CliStep

(* A complete run leaves the metadata of what it exported in the index; so  *)
(* only runs that resumed or selected leave an index that lists bundles it  *)
(* does not describe.                                                       *)
THEOREM IndexCoversTheRun == Spec => []IndexDescribesTheRun
<1> DEFINE IInv == Selection /\ Bundles /\ Ending /\ Concluded /\ Describing /\ Indexing
<1>1. Init => IInv
  <2>1. Init => Describing /\ Indexing
    BY NoReportIsEmpty DEF Init, Describing, Indexing, IdaRunning, Stopping, Finishing
  <2> QED
    BY <2>1, Initially
<1>2. IInv /\ [Next]_vars => IInv'
  BY SelectionStep, BundlesStep, EndingStep, ConcludedStep, DescribingStep, IndexingStep
<1>3. IInv => IndexDescribesTheRun
  BY DEF Indexing, IndexDescribesTheRun, IndexedAreDescribed
<1> QED
  BY <1>1, <1>2, <1>3, PTL DEF Spec

-----------------------------------------------------------------------------
(* The types, in two halves: what IDA writes and what the command line does.*)

IdaTypes ==
    /\ forge \in Seq(Lines) /\ described \subseteq Eas
    /\ bundle \in [Eas -> {"none", "partial", "whole", "mixed"}]
    /\ ida \in IdaRunning \cup {"off", "ended", "dead"}
    /\ exitCode \in {0, 1}
    /\ report \in [ok : SUBSET Eas, skipped : SUBSET Eas, error : SUBSET Eas,
                   stop : {"", "max_seconds", "cancel_file"}]
    /\ ida \in {"analyze", "export"} => \E f \in Eas : under = {f}
    /\ suspects \subseteq Eas /\ exported \subseteq Eas

CliTypes ==
    /\ index \in [listed : SUBSET Eas, described : SUBSET Eas]
    /\ cancelFiles \subseteq {"default", "custom"}
    /\ cli \in {"idle", "launched", "done"} \cup Waiting \cup Stopping \cup Finishing
    /\ ctrlC \in 0..MaxCtrlC /\ runs \in 0..MaxRuns
    /\ outcome \in {"", "complete", "failed", "interrupted"}

Flags == {clean, interrupted, asked, refused, unread} \subseteq BOOLEAN

LEMMA CutBundleTyped ==
    ASSUME bundle \in [Eas -> {"none", "partial", "whole", "mixed"}]
    PROVE  CutBundle \in [Eas -> {"none", "partial", "whole", "mixed"}]
  BY DEF CutBundle

(* The record of the function under way.                                    *)
LEMMA RecordTyped ==
    ASSUME Selection, IdaTypes, NEW status \in {"ok", "skipped", "error"}, Record(status)
    PROVE  /\ ida' \in {"wrapup", "boundary"} /\ exitCode' \in {0, 1}
           /\ report' \in [ok : SUBSET Eas, skipped : SUBSET Eas,
                           error : SUBSET Eas, stop : {"", "max_seconds", "cancel_file"}]
           /\ suspects' \subseteq Eas
<1>1. under \subseteq Eas
  BY DEF Selection
<1>2. CASE status = "ok"
  BY <1>1, <1>2 DEF Record, IdaTypes
<1>3. CASE status = "skipped"
  BY <1>1, <1>3 DEF Record, IdaTypes
<1>4. CASE status = "error"
  BY <1>1, <1>4 DEF Record, IdaTypes
<1> QED
  BY <1>2, <1>3, <1>4

LEMMA CutRewriteTyped ==
    ASSUME bundle \in [Eas -> {"none", "partial", "whole", "mixed"}], RewritesInPart
    PROVE  bundle' \in [Eas -> {"none", "partial", "whole", "mixed"}] /\ Rewriting \subseteq Eas
  BY DEF RewritesInPart, CutRewrite, Rewriting

LEMMA IdaTypesStep == Selection /\ IdaTypes /\ [Next]_vars => IdaTypes'
<1> SUFFICES ASSUME Selection /\ IdaTypes, [Next]_vars PROVE IdaTypes'
  OBVIOUS
<1>0. forge' \in Seq(Lines)
  BY ForgeStep DEF IdaTypes
<1> USE DEF IdaTypes, IdaRunning
<1>1. CASE Setup
  <2>1. todo' \subseteq Eas
    BY <1>1, SelectionStep DEF Selection
  <2>2. UNCHANGED <<bundle, report, suspects, exported>> /\ exitCode' \in {0, 1}
        /\ ida' \in {"boundary", "ended"}
    BY <1>1 DEF Setup, pastVars
  <2>3. described' \subseteq Eas
    BY <1>1, <2>1 DEF Setup
  <2> QED
    BY <1>0, <2>2, <2>3
<1>2. CASE Boundary
  <2>1. todo # {} => First(todo) \in Eas
    BY FirstIsMember DEF Selection
  <2>2. UNCHANGED <<forge, described, bundle, exitCode, suspects, exported>>
    BY <1>2 DEF Boundary, diskVars, pastVars
  <2>3. \/ ida' = "wrapup" /\ report' \in {report, [report EXCEPT !.stop = "max_seconds"],
                                           [report EXCEPT !.stop = "cancel_file"]}
        \/ ida' = "analyze" /\ report' = report /\ under' = {First(todo)} /\ todo # {}
    BY <1>2 DEF Boundary, StopsHere
  <2> QED
    BY <2>1, <2>2, <2>3
<1>3. CASE Analyze
  <2>1. UNCHANGED <<described, bundle, exported>> /\ under \subseteq Eas
    BY <1>3 DEF Analyze, Selection
  <2>2. CASE Record("skipped") \/ Record("error")
    BY <1>0, <2>1, <2>2, RecordTyped
  <2>3. CASE ida' = "export" /\ UNCHANGED <<todo, under, exitCode, report, suspects>>
    BY <1>0, <1>3, <2>1, <2>3 DEF Analyze
  <2> QED
    BY <1>3, <2>2, <2>3 DEF Analyze
<1>4. CASE Export
  <2>1. UNCHANGED <<forge, described>> /\ under \subseteq Eas
    BY <1>4 DEF Export, Selection
  <2>2. Record("ok") \/ Record("error")
    BY <1>4 DEF Export
  <2>3. bundle' \in [Eas -> {"none", "partial", "whole", "mixed"}]
    BY <1>4, CutBundleTyped DEF Export
  <2>4. exported' \subseteq Eas
    <3>1. exported' = exported \cup under \/ exported' = exported
      BY <1>4, Zenon DEF Export
    <3>2. exported \subseteq Eas
      OBVIOUS
    <3> QED
      BY ONLY <2>1, <3>1, <3>2
  <2> QED
    BY <2>1, <2>2, <2>3, <2>4, RecordTyped
<1>5. CASE Wrapup
  <2>1. bundle' \in [Eas -> {"none", "partial", "whole", "mixed"}] /\ suspects' \subseteq Eas
    BY <1>5, CutRewriteTyped DEF Wrapup
  <2> QED
    BY <1>0, <1>5, <2>1 DEF Wrapup
<1>6. CASE Dies
  <2>1. bundle' \in [Eas -> {"none", "partial", "whole", "mixed"}]
    BY <1>6, CutBundleTyped, CutRewriteTyped DEF Dies
  <2>2. Rewriting \subseteq Eas
    BY DEF Rewriting
  <2> QED
    BY <1>0, <1>6, <2>1, <2>2 DEF Dies, Selection
<1>7. CASE LeavesIda
  BY <1>7 DEF LeavesIda, idaVars
<1>8. ASSUME NEW o \in Options, StartRun(o) PROVE IdaTypes'
  <2>1. NoReport \in [ok : SUBSET Eas, skipped : SUBSET Eas,
                      error : SUBSET Eas, stop : {"", "max_seconds", "cancel_file"}]
    BY DEF NoReport
  <2> QED
    BY <1>8, <2>1 DEF StartRun, diskVars
<1> QED
  BY <1>1, <1>2, <1>3, <1>4, <1>5, <1>6, <1>7, <1>8, StepsAre

LEMMA CliTypesStep == Selection /\ IdaTypes /\ CliTypes /\ [Next]_vars => CliTypes'
<1> SUFFICES ASSUME Selection /\ IdaTypes /\ CliTypes, [Next]_vars PROVE CliTypes'
  OBVIOUS
<1>0. MaxRuns \in Nat /\ MaxCtrlC \in Nat /\ \A o \in Options : o.cancelFile \in {"default", "custom"}
  BY IdaBatchAssumption
<1> USE <1>0 DEF CliTypes, Waiting, Stopping, Finishing
<1>1. CASE IdaStep \/ IdaCrashes
  <2>1. UNCHANGED <<index, cancelFiles, cliVars>>
    BY <1>1 DEF IdaStep, IdaCrashes, Setup, Boundary, Analyze, Export, Wrapup, Dies, diskVars
  <2> QED
    BY <2>1 DEF cliVars
<1>2. CASE SeesExit
  BY <1>2 DEF SeesExit, Goto, diskVars, idaVars
<1>3. CASE TimesOut
  <2>1. cli' \in {"terminating", "killing", "summary"}
    BY <1>3, StagesAre DEF TimesOut, Goto
  <2>2. UNCHANGED <<index, cancelFiles, ctrlC, runs, outcome>>
    BY <1>3 DEF TimesOut, Goto, diskVars
  <2> QED
    BY <2>1, <2>2
<1>4. CASE WriteCancelFile
  BY <1>4 DEF WriteCancelFile, Goto, diskVars, idaVars, Selection
<1>5. CASE StopProcess
  BY <1>5 DEF StopProcess, Goto, Dies, diskVars, idaVars, Dies
<1>6. CASE WriteSummary
  BY <1>6 DEF WriteSummary, Goto, diskVars, idaVars
<1>7. CASE WriteIndex
  <2>1. [listed |-> IndexedBundles, described |-> IndexedBundles \cap described]
           \in [listed : SUBSET Eas, described : SUBSET Eas]
    BY DEF IndexedBundles
  <2>2. index' \in [listed : SUBSET Eas, described : SUBSET Eas]
    BY <1>7, <2>1 DEF WriteIndex
  <2> QED
    BY <1>7, <2>2 DEF WriteIndex, Goto
<1>8. CASE WriteManifest
  BY <1>8 DEF WriteManifest, diskVars, idaVars, Status
<1>9. CASE CtrlC
  <2>1. cli' \in {"cancelling", "terminating", "killing", "summary", "done"}
    BY <1>9, StagesAre DEF CtrlC
  <2>2. UNCHANGED <<index, cancelFiles, outcome, runs>> /\ ctrlC' = ctrlC + 1 /\ ctrlC < MaxCtrlC
    BY <1>9 DEF CtrlC, diskVars
  <2>3. ctrlC' \in 0..MaxCtrlC
    <3>1. ctrlC \in 0..MaxCtrlC
      BY Zenon
    <3> QED
      BY ONLY <1>0, <2>2, <3>1
  <2> QED
    BY <2>1, <2>2, <2>3
<1>10. CASE OthersCancel
  BY <1>10 DEF OthersCancel, diskVars, idaVars, cliVars, Selection
<1>11. ASSUME NEW o \in Options, StartRun(o) PROVE CliTypes'
  <2>1. /\ runs' = runs + 1 /\ runs < MaxRuns /\ cli' = "launched" /\ ctrlC' = 0 /\ outcome' = ""
        /\ cancelFiles' \subseteq cancelFiles /\ UNCHANGED index
    BY <1>11 DEF StartRun, diskVars
  <2>2. ctrlC' \in 0..MaxCtrlC /\ runs' \in 0..MaxRuns
    <3>1. runs \in 0..MaxRuns
      BY Zenon
    <3> QED
      <4>1. runs' = runs + 1 /\ runs < MaxRuns /\ ctrlC' = 0
        BY <2>1
      <4> QED
        BY ONLY <1>0, <3>1, <4>1
  <2> QED
    BY <2>1, <2>2
<1>12. CASE Watch \/ PollFails
  BY <1>12 DEF Watch, PollFails, Goto, diskVars
<1>13. CASE UNCHANGED vars
  BY <1>13 DEF vars, diskVars, cliVars
<1> QED
  BY <1>1, <1>2, <1>3, <1>4, <1>5, <1>6, <1>7, <1>8, <1>9, <1>10, <1>11, <1>12, <1>13 DEF Next, CliStep

LEMMA FlagsStep == Flags /\ [Next]_vars => Flags'
<1> SUFFICES ASSUME Flags, [Next]_vars PROVE Flags'
  OBVIOUS
<1>0. clean \in BOOLEAN /\ interrupted \in BOOLEAN /\ asked \in BOOLEAN /\ refused \in BOOLEAN
      /\ unread \in BOOLEAN
  BY DEF Flags
<1>1. clean' \in {clean, Intact(NewForge), FALSE}
  BY Zenon
     DEF Next, IdaStep, CliStep, IdaCrashes, Setup, Boundary, Analyze, Export, Wrapup, Watch, PollFails, SeesExit,
         TimesOut, WriteCancelFile, StopProcess, Dies, WriteSummary, WriteIndex, WriteManifest, CtrlC,
         OthersCancel, StartRun, idaVars, vars
<1>2. Intact(NewForge) \in BOOLEAN
  BY Zenon DEF Intact
<1>3. interrupted' \in {interrupted, TRUE, FALSE} /\ asked' \in {asked, TRUE, FALSE}
      /\ refused' \in {refused, TRUE, FALSE} /\ unread' \in {unread, TRUE, FALSE}
  BY <1>0, Zenon
     DEF Next, IdaStep, CliStep, IdaCrashes, Setup, Boundary, Analyze, Export, Wrapup, Watch, PollFails, SeesExit,
         TimesOut, WriteCancelFile, StopProcess, WriteSummary, WriteIndex, WriteManifest, CtrlC,
         OthersCancel, StartRun, cliVars, pastVars, vars
<1> QED
  BY <1>0, <1>1, <1>2, <1>3 DEF Flags

LEMMA BatchTypesInitially == Init => Selection /\ IdaTypes /\ CliTypes /\ Flags
<1> SUFFICES ASSUME Init PROVE Selection /\ IdaTypes /\ CliTypes /\ Flags
  OBVIOUS
<1>1. MaxRuns \in Nat /\ MaxCtrlC \in Nat
  BY IdaBatchAssumption
<1>2. IdaTypes
  BY EmptyFile DEF Init, IdaTypes, NoReport
<1>3. CliTypes
  <2>1. [listed |-> {}, described |-> {}] \in [listed : SUBSET Eas, described : SUBSET Eas]
    OBVIOUS
  <2>2. ctrlC \in 0..MaxCtrlC /\ runs \in 0..MaxRuns
    <3>1. ctrlC = 0 /\ runs = 0
      BY DEF Init
    <3> QED
      BY ONLY <1>1, <3>1
  <2> QED
    BY <2>1, <2>2 DEF Init, CliTypes
<1>4. Flags
  BY DEF Init, Flags
<1> QED
  BY <1>2, <1>3, <1>4, Initially

LEMMA BatchKeepsTypes == Selection /\ IdaTypes /\ CliTypes /\ Flags => TypeOK
<1> SUFFICES ASSUME Selection, IdaTypes, CliTypes, Flags PROVE TypeOK
  OBVIOUS
<1>1. Cardinality(under) = (IF ida \in {"analyze", "export"} THEN 1 ELSE 0)
  <2>1. CASE ida \in {"analyze", "export"}
    BY <2>1, FS_Singleton DEF IdaTypes
  <2>2. CASE ida \notin {"analyze", "export"}
    BY <2>2, FS_EmptySet DEF Selection
  <2> QED
    BY <2>1, <2>2
<1> QED
  BY <1>1 DEF TypeOK, Selection, IdaTypes, CliTypes, Flags

(* The functions under way, selected and recorded are disjoint, one function*)
(* at most is under way, and every file keeps to its type.                  *)
THEOREM BatchTypeCorrect == Spec => []TypeOK
<1>1. Selection /\ IdaTypes /\ CliTypes /\ Flags /\ [Next]_vars
         => Selection' /\ IdaTypes' /\ CliTypes' /\ Flags'
  BY SelectionStep, IdaTypesStep, CliTypesStep, FlagsStep
<1> QED
  BY <1>1, BatchTypesInitially, BatchKeepsTypes, PTL DEF Spec
=============================================================================
