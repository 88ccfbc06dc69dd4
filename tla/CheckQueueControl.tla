-------------------------- MODULE CheckQueueControl --------------------------
(***************************************************************************)
(* What ConnectBlock relies on when it uses a CCheckQueueControl           *)
(* (src/src/checkqueue.h): the comment of the class promises that "the     *)
(* passed queue is finished before continuing", and Wait() "return[s]      *)
(* whether all evaluations where successful".  There is no pool here, only *)
(* the caller's view: checks are added, and leaving the control yields the *)
(* conjunction of all of them.                                             *)
(***************************************************************************)
CONSTANTS Checks,   \* the checks of one session
          Passes    \* the checks that succeed

VARIABLES phase,    \* "off", "adding" or "waiting"
          added,    \* the checks added through this control
          ret       \* what the last Wait() returned

vars == <<phase, added, ret>>

Init == phase = "off" /\ added = {} /\ ret = TRUE

\* The constructor.
Construct ==
    /\ phase = "off"
    /\ phase' = "adding"
    /\ UNCHANGED <<added, ret>>

Add(S) ==
    /\ phase = "adding"
    /\ added' = added \cup S
    /\ UNCHANGED <<phase, ret>>

\* Wait(), called by the owner or by the destructor, is entered ...
StartWait ==
    /\ phase = "adding"
    /\ phase' = "waiting"
    /\ UNCHANGED <<added, ret>>

\* ... and returns the verdict over everything that was added.
Return ==
    /\ phase \in {"adding", "waiting"}
    /\ phase' = "off"
    /\ added' = {}
    /\ ret' = (added \subseteq Passes)

Next == Construct \/ StartWait \/ Return \/ \E S \in SUBSET Checks : Add(S)

Spec     == Init /\ [][Next]_vars
FairSpec == Spec /\ WF_vars(phase = "waiting" /\ Return)
=============================================================================
