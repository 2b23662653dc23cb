--------------------------- MODULE MCAsyncRunner ---------------------------
(* The plug-in's background tasks: the registry with four tasks, three of   *)
(* the plug-in's one group, one of them with a callback that may raise      *)
(* (apply), and one without a group, whose work polls under another name    *)
(* than its own, with as many runs as it takes to reuse a name twice; and   *)
(* the work of the task that changes the database while it runs, on a       *)
(* function with a stable type, with none, and with one that cannot be      *)
(* restored, of which the user may set two, for a proposal that asks for an *)
(* arity, for parameters or for both, which another type has in part; and   *)
(* the file that their analyses and a batch write, of two functions         *)
(* (MCForgeStore).  The registry sees of a task's work only that it polls   *)
(* and ends, so a behaviour explores one of these.                          *)
EXTENDS AsyncRunnerSlot, TypeAssist, MCForgeStore, TLC

CONSTANTS analyze, export, apply, lone, plugin, r1, r2, r3, stable, other, unknown,
          p1, p2

MCNames == {analyze, export, apply, lone}
MCGroups == {plugin}
MCRuns == {r1, r2, r3}
MCTwoRuns == {r1, r2}
MCGroupOf == [n \in MCNames |-> IF n = lone THEN NoGroup ELSE plugin]
MCPolling == MCNames \ {lone}
MCRaising == {apply}
MCTypes == {stable, other, unknown, NoType}
MCUnstable == {unknown}
MCParams == {p1, p2}
MCArity == [t \in MCTypes \cup {Temp} |-> IF t \in {Temp, stable, other} THEN 2 ELSE 1]
MCShows == [t \in MCTypes \cup {Temp} |->
               IF t = Temp THEN MCParams ELSE IF t = other THEN {p1} ELSE {}]
MCProposals == {[arity |-> 2, params |-> {}], [arity |-> NoArity, params |-> MCParams],
                [arity |-> 2, params |-> MCParams]}
MCProposal == [arity |-> 2, params |-> MCParams]

Symmetry == Permutations(MCRuns)

VARIABLE part     \* what the behaviour explores

MCInit ==
    /\ Init /\ AssistInit /\ ForgeInit
    /\ part \in {"registry", "assist", "forge"}
    /\ part # "assist" => type = NoType /\ proposal = MCProposal

MCNext ==
    /\ UNCHANGED part
    /\ \/ part = "registry" /\ Next /\ UNCHANGED <<assist, forgeVars>>
       \/ part = "assist" /\ AssistNext /\ UNCHANGED <<vars, forgeVars>>
       \/ part = "forge" /\ ForgeNext /\ UNCHANGED <<vars, assist>>

RegistryOnly == part = "registry" /\ MCInit

MCSpec == MCInit /\ [][MCNext]_<<part, vars, assist, forgeVars>>
MCFairSpec == MCSpec /\ Fairness
MCRegistrySpec == RegistryOnly /\ [][MCNext]_<<part, vars, assist, forgeVars>>

\* The tables of the registry, the state of the previewing task and the lines of the
\* file keep to their types; what was read of the database is always a type, and a file
\* that no writer died over is made of whole sections.
TasksTypeOK == TypeOK /\ AssistTypeOK /\ ForgeTypeOK
=============================================================================
