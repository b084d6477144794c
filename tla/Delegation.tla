----------------------------- MODULE Delegation -----------------------------
(***************************************************************************)
(* Delegated tasks: the child Works of a Work, each with one Run and one   *)
(* agent session (subagent_rpc and DelegationBridge in                     *)
(* everyaios-core/src/chat.rs, delegate_child_work and finish_child_work   *)
(* in work_gateway.rs), on top of the gateway's journal.                   *)
(*                                                                         *)
(* The coordinator's requests are served by the relay's thread, those of   *)
(* an external agent by the thread of the tool plane.  A spawn reads the   *)
(* Work graph under the gateway's lock, releases it, judges what it read,  *)
(* and takes the lock again to write five rows; a close writes two.  A     *)
(* crash or a failing disk can come between any two rows.                  *)
(*                                                                         *)
(* Abstractions: the ids of a child's Work, Run and session are derived    *)
(* from the task, so a task is its child Work.  A parent's policy counts   *)
(* its own children only, so there is one parent; the depth of a task is a *)
(* function of its id, and readiness is an input, so a task or a member    *)
(* they refuse makes no step.  Prompts, tools, roles, worktrees and the    *)
(* spawn that names no parent, which changes nothing, are left out.  The   *)
(* heartbeat row carries no state that is read by anything modelled here.  *)
(*                                                                         *)
(* Also left out are the operations other clients may call on these Works  *)
(* while a task is delegated.  work/agent_spawn, work/agent_attach and     *)
(* work/agent_terminate change agent_sessions by a session id of the       *)
(* caller's choice; what is said here of sessions is said of those that    *)
(* delegation opens and closes, whose ids no other caller uses.  Archiving *)
(* and steering, which WorkGateway has, are operations of the user.        *)
(***************************************************************************)
EXTENDS WorkGateway, Integers, FiniteSets

CONSTANTS
    Root,           \* the delegating Work
    RunOf,          \* child_run_id
    Callers,        \* threads that serve delegation requests
    Nobody,         \* "no caller"
    MaxConcurrent,  \* SubAgentLimits.max_concurrent
    MaxTotal        \* SubAgentLimits.max_total

Children == Works \ {Root}

ASSUME DelegationConstants ==
    /\ Root \in Works
    /\ RunOf \in [Children -> Runs]
    /\ \A v, w \in Children : RunOf[v] = RunOf[w] => v = w
    /\ Nobody \notin Callers
    /\ IsFiniteSet(Callers) /\ Callers # {} /\ IsFiniteSet(Works)
    /\ MaxConcurrent \in Nat /\ MaxTotal \in Nat

VARIABLES
    call,       \* where each caller is
    holder,     \* who holds the gateway's lock
    session     \* agent_sessions

delegationVars == <<gatewayVars, call, holder, session>>

SessionStates == {"none", "spawned", "terminated"}

\* The row a caller writes next.
Rows == {"heartbeat", "bind", "start", "session", "terminate"}

Idle == [pc |-> "idle", child |-> Root]

-----------------------------------------------------------------------------
(* The policy.                                                             *)

\* presence_is_terminal: the client's view of the current Run
PresenceIsTerminal(p, w) == p.shown[w] \in TerminalStates

\* delegation_gauge
ChildrenOf(p) == {w \in Children \cap p.works : p.parent[w] = Root}
Active(p) == {w \in ChildrenOf(p) : ~PresenceIsTerminal(p, w)}

\* Mutant: the limit is compared with the wrong operator.
AdmitOneMore ==
    /\ Cardinality(Active(live)) <= MaxConcurrent
    /\ Cardinality(ChildrenOf(live)) <= MaxTotal

\* DelegationPolicy::admit
Admit ==
    /\ Cardinality(Active(live)) < MaxConcurrent
    /\ Cardinality(ChildrenOf(live)) < MaxTotal

-----------------------------------------------------------------------------
(* Rows under the lock.                                                    *)

Free == up /\ holder = Nobody

At(c, pc) == call[c].pc = pc

\* Mutant: the lock is dropped after each row.
ProceedUnlocked(c, w, pc) ==
    /\ call' = [call EXCEPT ![c] = IF unacked' THEN Idle ELSE [pc |-> pc, child |-> w]]
    /\ holder' = Nobody

\* The row was acknowledged and the caller goes on to write pc; or its append
\* returned an error, which the caller passes on.
Proceed(c, w, pc) ==
    IF unacked'
    THEN /\ call' = [call EXCEPT ![c] = Idle]
         /\ holder' = Nobody
    ELSE /\ call' = [call EXCEPT ![c] = [pc |-> pc, child |-> w]]
         /\ holder' = c

Return(c) ==
    /\ call' = [call EXCEPT ![c] = Idle]
    /\ holder' = Nobody

-----------------------------------------------------------------------------
(* subagent/spawn and delegate.spawn.                                      *)

\* The lock is held for the duplicate check and the gauge, and released.
Ask(c, w) ==
    /\ Free /\ At(c, "idle")
    /\ Root \in live.works
    /\ w \notin live.works
    /\ Admit
    /\ call' = [call EXCEPT ![c] = [pc |-> "admitted", child |-> w]]
    /\ UNCHANGED <<gatewayVars, holder, session>>

\* create_child_work: the child's Work, unless another caller has made it.
Create(c) ==
    LET w == call[c].child
    IN /\ Free /\ At(c, "admitted")
       /\ IF w \in live.works
          THEN /\ call' = [call EXCEPT ![c].pc = "bind"]
               /\ holder' = c
               /\ UNCHANGED gatewayVars
          ELSE /\ CreateChildWork(w, Root)
               /\ Proceed(c, w, "heartbeat")
       /\ UNCHANGED session

\* ... and its first heartbeat: a row that changes no state.
Heartbeat(c) ==
    LET w == call[c].child
    IN /\ At(c, "heartbeat")
       /\ AppendEvent(w, live, replay, "none")
       /\ Proceed(c, w, "bind")
       /\ UNCHANGED session

\* Mutant: the session is opened, and the Run left to start later.
BindAndSkipStart(c) ==
    LET w == call[c].child
        r == RunOf[w]
    IN /\ At(c, "bind")
       /\ AppendEvent(w, [NoteRun(live, w, r) EXCEPT !.run[r] = IF @ = "none" THEN "ready" ELSE @],
                 NoteRun(replay, w, r), "none")
       /\ Proceed(c, w, "session")
       /\ UNCHANGED session

\* bind_execution: of the child's own Run, fresh or not.
Bind(c) ==
    LET w == call[c].child
        r == RunOf[w]
    IN /\ At(c, "bind")
       /\ AppendEvent(w, [NoteRun(live, w, r) EXCEPT !.run[r] = IF @ = "none" THEN "ready" ELSE @],
                 NoteRun(replay, w, r), "none")
       /\ Proceed(c, w, "start")
       /\ UNCHANGED session

\* record_execution_transition to Running
Start(c) ==
    LET w == call[c].child
    IN /\ At(c, "start")
       /\ RecordExecutionTransition(w, RunOf[w], "running")
       /\ Proceed(c, w, "session")
       /\ UNCHANGED session

\* Mutant: a Run that has ended is taken up again by a late spawn.
StartRefusedIgnored(c) ==
    /\ At(c, "start")
    /\ ~MayRecord(call[c].child, RunOf[call[c].child], "running")
    /\ call' = [call EXCEPT ![c].pc = "session"]
    /\ UNCHANGED <<gatewayVars, holder, session>>

\* ... which a child that was closed in the meantime refuses.
StartRefused(c) ==
    LET w == call[c].child
    IN /\ At(c, "start")
       /\ ~MayRecord(w, RunOf[w], "running")
       /\ Return(c)
       /\ UNCHANGED <<gatewayVars, session>>

\* spawn_subagent: the session exists once its row does.
SpawnSubagent(c) ==
    LET w == call[c].child
    IN /\ At(c, "session")
       /\ AppendEvent(w, live, replay, "none")
       /\ session' = IF unacked' THEN session ELSE [session EXCEPT ![w] = "spawned"]
       /\ Return(c)

-----------------------------------------------------------------------------
(* subagent/complete, subagent/fail and delegate.cancel.                   *)

\* finish_child_work returns early, or refuses, when the Run has ended.
Ended(w) == live.run[RunOf[w]] \in TerminalStates

\* ... its first row.  Memory is changed by set_work_state, which refuses a
\* Run that has no state: after the row is durable.
Finish(c, w, s) ==
    LET r == RunOf[w]
        e == RunError(live, w, r, s)
    IN /\ Free /\ At(c, "idle")
       /\ w \in live.works
       /\ ~Ended(w)
       /\ ValidRunTransition(live, w, r, s)
       /\ AppendEvent(w, IF e = "none" THEN SetRun(live, w, r, s, "none") ELSE NoteRun(live, w, r),
                 SetRun(replay, w, r, s, "none"), RunError(replay, w, r, s))
       /\ IF e = "none" THEN Proceed(c, w, "terminate") ELSE Return(c)
       /\ UNCHANGED session

\* terminate_agent_session: refused for a session that only an earlier process
\* knew.
Terminate(c) ==
    LET w == call[c].child
    IN /\ At(c, "terminate")
       /\ IF session[w] = "none"
          THEN UNCHANGED <<gatewayVars, session>>
          ELSE /\ AppendEvent(w, live, replay, "none")
               /\ session' = IF unacked' THEN session
                             ELSE [session EXCEPT ![w] = "terminated"]
       /\ Return(c)

-----------------------------------------------------------------------------
(* Faults.                                                                 *)

\* append fails before it writes, or with part of the row written: the caller
\* gets the error.
WriteFails(c) ==
    /\ DiskMayFail /\ up
    /\ call[c].pc \in Rows \/ (Free /\ At(c, "admitted"))
    /\ UNCHANGED gatewayVars \/ (TornWrite /\ up')
    /\ Return(c)
    /\ UNCHANGED session

\* Calls, the lock and agent_sessions are memory; no row brings a session back.
Stop ==
    /\ Crash
    /\ call' = [c \in Callers |-> Idle]
    /\ holder' = Nobody
    /\ session' = [w \in Children |-> "none"]

\* The kernel's recovery, of the Runs of delegated children: it refuses one
\* that was bound and has no state (recover_one_run).
Recovers ==
    \A w \in Children : replay.owner[RunOf[w]] # NoWork => replay.run[RunOf[w]] # "none"

\* The host starts, or stays down.
Restart ==
    /\ Open /\ Recovers
    /\ UNCHANGED <<call, holder, session>>

RestartRefused ==
    /\ ~up /\ ~(OpenSucceeds /\ Recovers)
    /\ UNCHANGED delegationVars

\* The delegating Work begins with the turn.
BeginWork == Free /\ CreateWork(Root) /\ UNCHANGED <<call, holder, session>>

-----------------------------------------------------------------------------

DelegationInit ==
    /\ Init
    /\ call = [c \in Callers |-> Idle]
    /\ holder = Nobody
    /\ session = [w \in Children |-> "none"]

Spawn(c) ==
    \/ \E w \in Children : Ask(c, w)
    \/ Create(c) \/ Heartbeat(c) \/ Bind(c) \/ Start(c) \/ StartRefused(c)
    \/ SpawnSubagent(c)

Close(c) ==
    \/ \E w \in Children, s \in TerminalStates : Finish(c, w, s)
    \/ Terminate(c)

DelegationNext ==
    \/ \E c \in Callers : Spawn(c) \/ Close(c) \/ WriteFails(c)
    \/ BeginWork \/ Stop \/ Restart \/ RestartRefused

DelegationSpec == DelegationInit /\ [][DelegationNext]_delegationVars

-----------------------------------------------------------------------------
(* Properties.                                                             *)

\* Type correctness, and the lock: a caller that has rows to write holds it.
DelegationTypeOK ==
    /\ TypeOK
    /\ call \in [Callers -> [pc : {"idle", "admitted"} \cup Rows, child : Works]]
    /\ holder \in Callers \cup {Nobody}
    /\ session \in [Children -> SessionStates]
    /\ \A c \in Callers : (call[c].pc \in Rows) <=> (holder = c)

\* Callers that were told yes and have not written the Work yet.
Promised == {c \in Callers : At(c, "admitted")}

\* Projection p with n more children is within the limits, but for the callers
\* that asked at the same time.
Within(p, n) ==
    /\ Cardinality(Active(p)) + n <= MaxConcurrent + Cardinality(Callers) - 1
    /\ Cardinality(ChildrenOf(p)) + n <= MaxTotal + Cardinality(Callers) - 1

\* The gauge is read before the lock is released and acted on after, so the
\* limits can be passed; but never by more than the callers there are, less
\* one, however spawns, closes, crashes and half-made children interleave, and
\* the promises made are counted in (subagent_rpc, delegation_gauge).
CapOvershoot == up => Within(live, Cardinality(Promised))

\* An agent session belongs to a child whose Run has started, in memory and,
\* if the journal opens at all, on disk; so no agent works for a child that a
\* restart would not know (delegate_child_work: the order of its rows).
SessionBacked ==
    \A w \in Children : session[w] # "none" =>
        /\ w \in live.works
        /\ live.run[RunOf[w]] \notin {"none", "ready"}
        /\ err = "none" => w \in replay.works /\ replay.run[RunOf[w]] # "none"

\* A session that outlives its child's Run, with nobody about to end it.
Leaked(w) ==
    /\ Ended(w) /\ session[w] = "spawned"
    /\ \A c \in Callers : call[c] # [pc |-> "terminate", child |-> w]

\* finish_child_work, "Idempotent on an already-terminal child (the session
\* terminate step is the one that already ran)": a session outlives its child
\* only when the append of its own termination fails; no other order of
\* spawns, closes and crashes leaves one behind.
LeakNeedsFault ==
    [][\A w \in Children : (~Leaked(w) /\ Leaked(w)') =>
         \E c \in Callers : call[c] = [pc |-> "terminate", child |-> w]]_delegationVars

-----------------------------------------------------------------------------
(* What the repository says of delegation and the code does not do.        *)

\* "runs resume after crash/restart": on a disk that works, closing a child
\* leaves a journal that opens.
CloseKeepsJournalOpenable == ~DiskMayFail => err = "none"
=============================================================================
