--------------------------- MODULE WorkLifecycle ---------------------------
(***************************************************************************)
(* The two lifecycle vocabularies of a Run and how they meet.              *)
(*                                                                         *)
(* WorkState (everyaios-types) is the canonical state the Work Gateway     *)
(* journals; ExecutionPhase (everyaios-core/execution.rs) is the state of  *)
(* the in-memory execution kernel.  Both have the same fourteen members    *)
(* and different transition tables.  The journal has fewer row kinds than  *)
(* there are states, so writing a state to the journal and reading it back *)
(* is a conversion, EventState, and not the identity.                      *)
(***************************************************************************)

WaitingStates  == {"waiting_tool", "waiting_approval", "waiting_user"}
TerminalStates == {"completed", "failed", "cancelled"}

WorkStates ==
    {"created", "planning", "ready", "running", "checkpointed", "verifying",
     "paused", "recoverable"} \cup WaitingStates \cup TerminalStates

\* "Running" and its sub-states (WorkState::is_running).
RunningStates == {"running", "checkpointed"} \cup WaitingStates

\* A state, or "none" where the program's map has no entry for the Run.
OptStates == WorkStates \cup {"none"}

\* Mutant: a failed Run may be started again.
CanRestartFailed(s, t) ==
    \/ s = t
    \/ s \notin TerminalStates
    \/ s = "failed" /\ t = "running"

(***************************************************************************)
(* WorkState::can_transition: reflexive, terminal outcomes are one-way.    *)
(***************************************************************************)
CanTransition(s, t) ==
    \/ s = t
    \/ s = "created"       /\ t \in {"planning", "ready", "cancelled"}
    \/ s = "planning"      /\ t \in {"ready", "failed", "cancelled"}
    \/ s = "ready"         /\ t \in {"running", "cancelled"} \cup WaitingStates
    \/ s = "running"       /\ t \in {"checkpointed", "verifying", "paused", "recoverable"}
                                    \cup WaitingStates \cup TerminalStates
    \/ s \in WaitingStates /\ t \in {"running", "failed", "cancelled", "paused", "recoverable"}
                                    \cup WaitingStates
    \/ s = "checkpointed"  /\ t \in {"running", "failed", "cancelled", "paused", "recoverable"}
    \/ s = "verifying"     /\ t \in {"completed", "failed", "cancelled", "recoverable"}
    \/ s = "paused"        /\ t \in {"running", "failed", "cancelled", "recoverable"}
    \/ s = "recoverable"   /\ t \in {"running", "failed", "cancelled"}

(***************************************************************************)
(* ExecutionPhase::can_transition: not reflexive and narrower.             *)
(***************************************************************************)
PhaseCanTransition(s, t) ==
    \/ s = "created"       /\ t \in {"planning", "ready", "cancelled"}
    \/ s = "planning"      /\ t \in {"ready", "failed", "cancelled"}
    \/ s = "ready"         /\ t \in {"running", "cancelled"}
    \/ s = "running"       /\ t \in {"checkpointed", "verifying", "paused", "recoverable"}
                                    \cup WaitingStates \cup TerminalStates
    \/ s \in WaitingStates /\ t \in {"running", "failed", "cancelled", "paused"}
    \/ s = "checkpointed"  /\ t \in {"running", "failed", "cancelled"}
    \/ s = "verifying"     /\ t \in {"completed", "failed", "recoverable"}
    \/ s = "paused"        /\ t \in {"running", "cancelled"}
    \/ s = "recoverable"   /\ t \in {"running", "failed", "cancelled"}

(***************************************************************************)
(* phase_transition_legal: what recovery accepts between two consecutive   *)
(* journalled states of one Run.                                           *)
(***************************************************************************)
PhaseTransitionLegal(s, t) ==
    \/ s = t
    \/ /\ s \notin TerminalStates
       /\ \/ s = "ready" /\ t \in WaitingStates \cup {"checkpointed"}
          \/ PhaseCanTransition(s, t)

\* Mutant: a pause is written as RunStarted.
EventStatePausedAsStarted(s) ==
    CASE s \in {"created", "planning", "ready"}     -> "ready"
      [] s \in {"running", "verifying", "paused"} -> "running"
      [] OTHER                                  -> s

(***************************************************************************)
(* run_event_state(transition_event(s)): the state a reader of the journal *)
(* finds after a transition to s was written.                              *)
(***************************************************************************)
EventState(s) ==
    CASE s \in {"created", "planning", "ready"} -> "ready"
      [] s \in {"running", "verifying"}         -> "running"
      [] OTHER                                  -> s

(***************************************************************************)
(* The reasons of a durable wait and the state each parks the Run in       *)
(* (WaitReason::work_state).  "timer" stands for the five reasons with no  *)
(* state of their own.                                                     *)
(***************************************************************************)
WaitReasons == {"approval", "user_input", "timer"}
OptWaits    == WaitReasons \cup {"none"}

\* Mutant: a wait with no state of its own becomes a state nobody knows.
WaitStateUnknown(reason) ==
    CASE reason = "approval"   -> "waiting_approval"
      [] reason = "user_input" -> "waiting_user"
      [] OTHER                 -> "waiting_timer"

WaitState(reason) ==
    CASE reason = "approval"   -> "waiting_approval"
      [] reason = "user_input" -> "waiting_user"
      [] OTHER                 -> "paused"

\* The wait condition a row carries: only a RunWaiting row has a field for it.
EventWait(s, wait) == IF s \in WaitingStates THEN wait ELSE "none"
=============================================================================
