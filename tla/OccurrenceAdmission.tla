------------------------- MODULE OccurrenceAdmission -------------------------
(***************************************************************************)
(* What the trigger plane promises about one trigger occurrence (the enum  *)
(* OccurrenceState of scheduler_service.rs and the comments on it): it is  *)
(* admitted once, it is settled once, by a cancellation or by a receipt    *)
(* for a Run that exists, and a settled occurrence never reopens.  An      *)
(* uncertain one waits for a receipt or a cancellation.                    *)
(***************************************************************************)
CONSTANT Occurrences

VARIABLES
    state,    \* what the scheduler knows of each occurrence
    ran       \* the occurrences that have a Work and a Run bound to it

OccurrenceStates == {"none", "pending", "uncertain", "cancelled", "terminal"}

Init ==
    /\ state = [o \in Occurrences |-> "none"]
    /\ ran = {}

\* Any number of new occurrences at once: one pass admits all that is due.
Admit ==
    /\ state' \in [Occurrences -> OccurrenceStates]
    /\ \A o \in Occurrences : state'[o] # state[o] => state[o] = "none" /\ state'[o] = "pending"
    /\ UNCHANGED ran

Begin(o) ==
    /\ state[o] # "none"
    /\ ran' = ran \cup {o}
    /\ UNCHANGED state

Doubt(o) ==
    /\ state[o] \in {"pending", "uncertain"}
    /\ state' = [state EXCEPT ![o] = "uncertain"]
    /\ UNCHANGED ran

Cancel(o) ==
    /\ state[o] \in {"pending", "uncertain"}
    /\ state' = [state EXCEPT ![o] = "cancelled"]
    /\ UNCHANGED ran

Advance(o) ==
    /\ state[o] \in {"pending", "uncertain"}
    /\ o \in ran
    /\ state' = [state EXCEPT ![o] = "terminal"]
    /\ UNCHANGED ran

Next ==
    \/ Admit
    \/ \E o \in Occurrences : Begin(o) \/ Doubt(o) \/ Cancel(o) \/ Advance(o)

Spec == Init /\ [][Next]_<<state, ran>>
=============================================================================
