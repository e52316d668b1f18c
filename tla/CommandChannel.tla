--------------------------- MODULE CommandChannel ---------------------------
(***************************************************************************)
(* What the block layer relies on when it hands commands to an NVMe drive: *)
(* every command issued is executed once, its own callback runs once,      *)
(* after the execution, and a callback may issue the next command.         *)
(***************************************************************************)
EXTENDS Naturals

CONSTANT MaxCommands     \* bound of the model

VARIABLES
    issued,          \* number of commands so far, which are 1 .. issued
    executed,        \* commands the drive has executed
    completed        \* commands whose callback ran

vars == <<issued, executed, completed>>

Init == issued \in 0 .. 1 /\ executed = {} /\ completed = {}

MayIssue == issued' \in {issued, issued + 1} /\ issued' <= MaxCommands

Issue == MayIssue /\ UNCHANGED <<executed, completed>>

Execute(c) ==
    /\ c \in (1 .. issued) \ executed
    /\ executed' = executed \cup {c}
    /\ UNCHANGED <<issued, completed>>

Complete(S) ==
    /\ S # {} /\ S \subseteq executed \ completed
    /\ completed' = completed \cup S
    /\ MayIssue /\ UNCHANGED executed

Next ==
    \/ Issue
    \/ \E c \in 1 .. issued : Execute(c)
    \/ \E S \in SUBSET (executed \ completed) : Complete(S)

Fairness ==
    \A c \in 1 .. MaxCommands :
        /\ WF_vars(Execute(c))
        /\ WF_vars(\E S \in SUBSET (executed \ completed) : c \in S /\ Complete(S))

Spec == Init /\ [][Next]_vars /\ Fairness
=============================================================================
