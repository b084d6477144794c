---------------------------- MODULE WorkGateway ----------------------------
(***************************************************************************)
(* The Work Gateway (everyaios-core/src/work_gateway.rs): the one owner of *)
(* Works, Runs, approvals and effects.  Every operation validates against  *)
(* the in-memory projection, appends a row to events.jsonl, waits for      *)
(* write + flush + sync, and only then changes the projection.  After a    *)
(* restart the projection is rebuilt by replaying the rows, and a row that *)
(* does not replay, or a graph that does not validate, makes open() fail.  *)
(*                                                                         *)
(* Abstractions.                                                           *)
(*  - Replay is a left fold, so the journal is represented by what that    *)
(*    fold has made of the rows written so far: `replay` is the projection *)
(*    a restart would build and `err` the first reason, if any, for which  *)
(*    replay_event or the sequence check would refuse a row.               *)
(*  - Run ids are handed out fresh by the kernel's counter, so the maps    *)
(*    keyed by (Work, Run) are keyed by Run here, with `owner` naming the  *)
(*    Work.  A steering checkpoint may name any id: one that is not a Run  *)
(*    of the Work, whether unknown or another Work's, has no entry under   *)
(*    the Work, and is an id without an owner here.                        *)
(*  - Of an EffectProjection only the state is kept: its uncertainty flag  *)
(*    is a function of it.  Metadata, provenance, sessions, agent bindings *)
(*    and the client-presence colour are left out, and so are reviews: the *)
(*    row of a resolved review is an ApprovalResolved without a Run, whose *)
(*    id is a review's and not that of a ticket that is pending.           *)
(***************************************************************************)
EXTENDS WorkLifecycle

CONSTANTS
    Works,        \* Work ids
    Runs,         \* Run (execution) ids
    Tickets,      \* approval ticket ids
    Effects,      \* effect ids
    NoWork,       \* "no Work", not in Works
    NoRun,        \* "no Run", not in Runs
    DiskMayFail   \* whether a write or sync of the journal can fail

ASSUME GatewayConstants ==
    /\ NoWork \notin Works
    /\ NoRun \notin Runs
    /\ DiskMayFail \in BOOLEAN

VARIABLES
    up,         \* the gateway is open
    live,       \* the in-memory projection
    replay,     \* the projection the durable rows replay to
    err,        \* why the durable rows do not replay ("none": they do)
    unacked,    \* the last row is durable but its append returned an error
    resolving,  \* the Run whose approval is resolved but not yet moved
    steered     \* history: the Works and Runs of steering checkpoints

gatewayVars == <<up, live, replay, err, unacked, resolving, steered>>

EffectStates ==
    {"absent", "attempted", "uncertain", "observed", "verified", "failed",
     "retry_safe", "reconciled"}

RequiresReconciliation(s) == s \in {"attempted", "uncertain"}

Projection ==
    [works   : SUBSET Works,                       \* known, not archived
     parent  : [Works -> Works \cup {NoWork}],
     address : [Works -> Runs \cup {NoRun}],       \* WorkAddress.current_run_id
     current : [Works -> Runs \cup {NoRun}],       \* execution_ids
     owner   : [Runs -> Works \cup {NoWork}],      \* run_ids
     run     : [Runs -> OptStates],                \* run_states
     pending : SUBSET (Tickets \X Runs),           \* pending_approvals
     effect  : [Works -> [Effects -> EffectStates]],
     shown   : [Works -> OptStates],               \* presence.work_state
     wait    : [Works -> OptWaits]]                \* presence.wait

EmptyProjection ==
    [works   |-> {},
     parent  |-> [w \in Works |-> NoWork],
     address |-> [w \in Works |-> NoRun],
     current |-> [w \in Works |-> NoRun],
     owner   |-> [r \in Runs |-> NoWork],
     run     |-> [r \in Runs |-> "none"],
     pending |-> {},
     effect  |-> [w \in Works |-> [e \in Effects |-> "absent"]],
     shown   |-> [w \in Works |-> "none"],
     wait    |-> [w \in Works |-> "none"]]

NotResolving == [run |-> NoRun, next |-> "none"]

-----------------------------------------------------------------------------
(* Facts about a projection p.                                             *)

PendingOf(p, r) == {a \in p.pending : a[2] = r}
PendingOfWork(p, w) == {a \in p.pending : p.owner[a[2]] = w}

HasUnresolvedUncertainEffect(p, w) ==
    \E e \in Effects : RequiresReconciliation(p.effect[w][e])

\* Mutant: the approval is no gate.
EdgeAllowedIgnoringApprovals(p, w, r, s) ==
    /\ CanTransition(p.run[r], s)
    /\ (p.run[r] = "recoverable" /\ s = "running") => ~HasUnresolvedUncertainEffect(p, w)

\* The checks a known previous state puts on the next one (shared by
\* validate_run_transition and set_run_state).
EdgeAllowed(p, w, r, s) ==
    /\ CanTransition(p.run[r], s)
    /\ (p.run[r] = "waiting_approval" /\ s # "waiting_approval") => PendingOf(p, r) = {}
    /\ (p.run[r] = "recoverable" /\ s = "running") => ~HasUnresolvedUncertainEffect(p, w)

\* Mutant: the writer checks the table and not the effects.
ValidRunTransitionTableOnly(p, w, r, s) ==
    /\ p.run[r] # "none" => CanTransition(p.run[r], s)
    /\ p.run[r] = "waiting_approval" /\ s # "waiting_approval" => PendingOf(p, r) = {}

\* validate_run_transition: a Run without a state may take any.
ValidRunTransition(p, w, r, s) == p.run[r] = "none" \/ EdgeAllowed(p, w, r, s)

\* Why set_run_state refuses s, or "none".
RunError(p, w, r, s) ==
    IF p.run[r] = "none"
    THEN IF s \in TerminalStates THEN "terminal_first" ELSE "none"
    ELSE IF EdgeAllowed(p, w, r, s) THEN "none" ELSE "illegal"

\* validate_replayed_graph: dangling references make open() fail.
GraphValid(p) ==
    /\ \A w \in p.works : p.parent[w] \in p.works \cup {NoWork}
    /\ \A a \in p.pending : p.owner[a[2]] \in p.works /\ p.run[a[2]] = "waiting_approval"
    /\ \A w \in Works : (\E e \in Effects : p.effect[w][e] # "absent") => w \in p.works

-----------------------------------------------------------------------------
(* What a row does to a projection.                                        *)

\* Mutant: creating a Work clears the effects recorded under its id.
AddWorkClearingEffects(p, w, parent) ==
    [p EXCEPT !.works = @ \cup {w}, !.parent[w] = parent, !.address[w] = NoRun,
              !.effect[w] = [e \in Effects |-> "absent"],
              !.shown[w] = "created", !.wait[w] = "none"]

\* WorkCreated: a new address; maps keyed by the id are not cleared.
AddWork(p, w, parent) ==
    [p EXCEPT !.works = @ \cup {w}, !.parent[w] = parent, !.address[w] = NoRun,
              !.shown[w] = "created", !.wait[w] = "none"]

\* WorkUpdated {archived: true}
DropWork(p, w) == [p EXCEPT !.works = @ \ {w}, !.address[w] = NoRun]

\* note_run_reference
NoteRun(p, w, r) ==
    [p EXCEPT !.owner[r] = w, !.current[w] = r, !.address[w] = r]

\* set_run_state, for a state it does not refuse
SetRun(p, w, r, s, wait) ==
    [NoteRun(p, w, r) EXCEPT
        !.run[r]   = s,
        !.shown[w] = s,
        !.wait[w]  = IF s \in RunningStates \cup {"paused"} THEN wait ELSE "none"]

SetEffect(p, w, e, s) == [p EXCEPT !.effect[w][e] = s]
AddPending(p, t, r)   == [p EXCEPT !.pending = @ \cup {<<t, r>>}]
DropPending(p, t, r)  == [p EXCEPT !.pending = @ \ {<<t, r>>}]

-----------------------------------------------------------------------------
(***************************************************************************)
(* append: the row reaches the file; p is the projection the row replays   *)
(* to and e the reason replay refuses it for.  A row that follows an       *)
(* unacknowledged one reuses its sequence number, which open() refuses.    *)
(***************************************************************************)
Durable(p, e) ==
    LET why == IF err # "none" THEN err ELSE IF unacked THEN "sequence" ELSE e
    IN /\ err' = why
       /\ replay' = IF why = "none" THEN p ELSE replay

\* The append is acknowledged and the live projection becomes l; or the sync
\* fails after the write, and the caller gets an error for a durable row.
Acknowledge(l) ==
    \/ live' = l /\ unacked' = FALSE
    \/ DiskMayFail /\ live' = live /\ unacked' = TRUE

\* replay_event refuses a row of a Work it does not know.
KnownWork(w, e) == IF w \in replay.works THEN e ELSE "unknown_work"

AppendRow(w, l, p, e) ==
    /\ up /\ resolving = NotResolving
    /\ w \in live.works
    /\ Durable(p, KnownWork(w, e))
    /\ Acknowledge(l)
    /\ UNCHANGED up

\* The same, for the operations that append one row.
AppendEvent(w, l, p, e) == AppendRow(w, l, p, e) /\ UNCHANGED <<resolving, steered>>

-----------------------------------------------------------------------------
(* The operations.                                                         *)

\* WorkCreated is the one row whose Work is not in replay.works yet.
AppendCreated(w, parent) ==
    /\ up /\ resolving = NotResolving
    /\ Durable(AddWork(replay, w, parent),
               IF w \in replay.works THEN "duplicate_work" ELSE "none")
    /\ Acknowledge(AddWork(live, w, parent))
    /\ UNCHANGED <<up, resolving, steered>>

\* create_work_in_session: idempotent for a known id.
CreateWork(w) == w \notin live.works /\ AppendCreated(w, NoWork)

\* create_child_work
CreateChildWork(w, parent) ==
    /\ parent \in live.works
    /\ w \notin live.works
    /\ AppendCreated(w, parent)

\* bind_execution_with_metadata: a fresh Run becomes the current one.  The
\* live projection also gets the state Ready, which no row records.
MayBind(w, r) ==
    /\ live.owner[r] = NoWork /\ replay.owner[r] = NoWork
    /\ LET current == live.address[w]
       IN current # NoRun => live.run[current] \notin TerminalStates

BindExecution(w, r) ==
    /\ MayBind(w, r)
    /\ AppendEvent(w, [NoteRun(live, w, r) EXCEPT !.run[r] = IF @ = "none" THEN "ready" ELSE @],
                 NoteRun(replay, w, r), "none")

\* A lifecycle row and set_run_state, which refuses a first state that is
\* terminal: after the row is durable.
AppendTransition(w, r, s, wait) ==
    AppendEvent(w, IF RunError(live, w, r, s) = "none" THEN SetRun(live, w, r, s, wait)
                 ELSE NoteRun(live, w, r),
                 SetRun(replay, w, r, EventState(s), EventWait(s, wait)),
                 RunError(replay, w, r, EventState(s)))

\* record_execution_transition (wait = "none") and record_wait
MayRecord(w, r, s) ==
    /\ live.current[w] = r
    /\ ValidRunTransition(live, w, r, s)
    /\ ValidRunTransition(live, w, r, EventState(s))

RecordTransition(w, r, s, wait) == MayRecord(w, r, s) /\ AppendTransition(w, r, s, wait)

\* No caller asks for Created or Planning: a kernel execution begins as Ready
\* and no table leads back to them.
RequestedStates == WorkStates \ {"created", "planning"}

RecordExecutionTransition(w, r, s) == RecordTransition(w, r, s, "none")
RecordWait(w, r, reason)           == RecordTransition(w, r, WaitState(reason), reason)

\* The id is a Run of the Work, or of none.
MayName(w, r) == {live.owner[r], replay.owner[r]} \subseteq {w, NoWork}

\* finish_child_work: the Run of a delegated child ends, current or not.
MayFinish(w, r, s) ==
    /\ MayName(w, r)
    /\ live.run[r] \notin TerminalStates
    /\ ValidRunTransition(live, w, r, s)

FinishChildWork(w, r, s) == MayFinish(w, r, s) /\ AppendTransition(w, r, s, "none")

\* apply_steering_checkpoint: append checks the edge, and nothing looks at the
\* Run or changes memory; a reader of the row makes the Run the Work's current
\* one and puts it into Checkpointed.
MaySteer(w, r) ==
    /\ MayName(w, r)
    /\ ValidRunTransition(live, w, r, "checkpointed")

ApplySteeringCheckpoint(w, r) ==
    /\ MaySteer(w, r)
    /\ AppendRow(w, live, SetRun(replay, w, r, "checkpointed", "none"),
                 RunError(replay, w, r, "checkpointed"))
    /\ steered' = steered \cup {<<w, r>>}
    /\ UNCHANGED resolving

\* record_pending_approval_for_run
MayRequest(w, r) ==
    /\ live.current[w] = r
    /\ live.run[r] = "waiting_approval"
    /\ PendingOfWork(live, w) = {}

RecordPendingApproval(w, r, t) ==
    /\ MayRequest(w, r)
    /\ AppendEvent(w, AddPending(live, t, r), AddPending(replay, t, r),
              IF replay.run[r] = "waiting_approval" /\ PendingOf(replay, r) = {}
              THEN "none" ELSE "approval")

\* resolve_pending_approval_for_run, first row: ApprovalResolved.
MayResolve(w, r, t) ==
    /\ live.current[w] = r
    /\ <<t, r>> \in live.pending
    /\ live.run[r] = "waiting_approval"

ResolvePendingApproval(w, r, t, approved) ==
    /\ MayResolve(w, r, t)
    /\ AppendRow(w, DropPending(live, t, r), DropPending(replay, t, r),
                 IF <<t, r>> \in replay.pending /\ replay.run[r] # "waiting_approval"
                 THEN "approval" ELSE "none")
    /\ resolving' = IF unacked' THEN NotResolving
                    ELSE [run |-> r, next |-> IF approved THEN "running" ELSE "failed"]
    /\ UNCHANGED steered

\* ... second row: the Run moves.  The lock is held since the first row, so
\* only a crash, or a failing disk, can come between the two.
FinishResolution ==
    LET r == resolving.run
        w == live.owner[r]
        s == resolving.next
    IN /\ up /\ resolving # NotResolving
       /\ w \in live.works /\ live.current[w] = r
       /\ ValidRunTransition(live, w, r, s)
       /\ Durable(SetRun(replay, w, r, s, "none"),
                  KnownWork(w, RunError(replay, w, r, s)))
       /\ Acknowledge(SetRun(live, w, r, s, "none"))
       /\ resolving' = NotResolving
       /\ UNCHANGED <<up, steered>>

\* ... or the second append fails before it writes.
AbandonResolution ==
    /\ up /\ DiskMayFail
    /\ resolving # NotResolving
    /\ resolving' = NotResolving
    /\ UNCHANGED <<up, live, replay, err, unacked, steered>>

\* record_effect_with_class, phase "attempted": no condition on the state.
RecordEffectAttempted(w, e) ==
    AppendEvent(w, SetEffect(live, w, e, "attempted"), SetEffect(replay, w, e, "attempted"), "none")

\* The error replay finds for a row about an effect with no attempt.
EffectError(w, e) == IF replay.effect[w][e] = "absent" THEN "effect" ELSE "none"

\* ... phase "observed": outcome "unknown", "uncertain" or "partial" leaves
\* the effect uncertain.
RecordEffectObserved(w, e, certain) ==
    LET s == IF certain THEN "observed" ELSE "uncertain"
    IN /\ live.effect[w][e] \notin {"absent", "uncertain"}
       /\ AppendEvent(w, SetEffect(live, w, e, s), SetEffect(replay, w, e, s), EffectError(w, e))

\* ... phase "verified"
RecordEffectVerified(w, e, verified) ==
    LET s == IF verified THEN "verified" ELSE "failed"
    IN /\ live.effect[w][e] \in {"observed", "verified"}
       /\ AppendEvent(w, SetEffect(live, w, e, s), SetEffect(replay, w, e, s), EffectError(w, e))

\* ... phase "uncertain"
RecordUncertainEffect(w, e) ==
    /\ live.effect[w][e] # "absent"
    /\ AppendEvent(w, SetEffect(live, w, e, "uncertain"), SetEffect(replay, w, e, "uncertain"),
              EffectError(w, e))

\* reconcile_uncertain_effect
ReconcileUncertainEffect(w, e, retrySafe) ==
    LET s == IF retrySafe THEN "retry_safe" ELSE "reconciled"
    IN /\ RequiresReconciliation(live.effect[w][e])
       /\ AppendEvent(w, SetEffect(live, w, e, s), SetEffect(replay, w, e, s),
                 IF RequiresReconciliation(replay.effect[w][e]) THEN "none" ELSE "effect")

\* try_archive_work: no condition on Runs, approvals, effects or children.
ArchiveWork(w) == AppendEvent(w, DropWork(live, w), DropWork(replay, w), "none")

-----------------------------------------------------------------------------
(* Crash and restart.                                                      *)

Crash ==
    /\ up
    /\ up' = FALSE
    /\ live' = EmptyProjection
    /\ unacked' = FALSE
    /\ resolving' = NotResolving
    /\ UNCHANGED <<replay, err, steered>>

\* Part of a row reaches the file: the write fails, or the process or the
\* machine dies in it.  No reader parses that line, nor what is appended to it.
TornWrite ==
    /\ up /\ DiskMayFail
    /\ err' = IF err = "none" THEN "torn" ELSE err
    /\ resolving' = NotResolving
    /\ \/ UNCHANGED <<up, live, unacked>>
       \/ up' = FALSE /\ live' = EmptyProjection /\ unacked' = FALSE
    /\ UNCHANGED <<replay, steered>>

OpenSucceeds == err = "none" /\ GraphValid(replay)

\* open: every row replays and the graph validates.
Open ==
    /\ ~up /\ OpenSucceeds
    /\ up' = TRUE
    /\ live' = replay
    /\ UNCHANGED <<replay, err, unacked, resolving, steered>>

\* open returns an error; the next start finds the same rows.
OpenRefused == ~up /\ ~OpenSucceeds /\ UNCHANGED gatewayVars

-----------------------------------------------------------------------------

Init ==
    /\ up = TRUE
    /\ live = EmptyProjection
    /\ replay = EmptyProjection
    /\ err = "none"
    /\ unacked = FALSE
    /\ resolving = NotResolving
    /\ steered = {}

WorkOps == \E w \in Works :
    \/ CreateWork(w)
    \/ \E p \in Works : CreateChildWork(w, p)
    \/ ArchiveWork(w)

RunOps == \E w \in Works, r \in Runs :
    \/ BindExecution(w, r)
    \/ \E s \in RequestedStates : RecordExecutionTransition(w, r, s)
    \/ \E reason \in WaitReasons : RecordWait(w, r, reason)
    \/ \E s \in TerminalStates : FinishChildWork(w, r, s)
    \/ ApplySteeringCheckpoint(w, r)

ApprovalOps ==
    \/ \E w \in Works, r \in Runs, t \in Tickets :
        \/ RecordPendingApproval(w, r, t)
        \/ \E approved \in BOOLEAN : ResolvePendingApproval(w, r, t, approved)
    \/ FinishResolution
    \/ AbandonResolution

EffectOps == \E w \in Works, e \in Effects :
    \/ RecordEffectAttempted(w, e)
    \/ \E certain \in BOOLEAN : RecordEffectObserved(w, e, certain)
    \/ \E verified \in BOOLEAN : RecordEffectVerified(w, e, verified)
    \/ RecordUncertainEffect(w, e)
    \/ \E retrySafe \in BOOLEAN : ReconcileUncertainEffect(w, e, retrySafe)

Next ==
    \/ WorkOps \/ RunOps \/ ApprovalOps \/ EffectOps
    \/ Crash \/ TornWrite \/ Open \/ OpenRefused

Spec == Init /\ [][Next]_gatewayVars

-----------------------------------------------------------------------------
(* Properties.                                                             *)

\* Type correctness of the gateway's state.
TypeOK ==
    /\ up \in BOOLEAN
    /\ live \in Projection
    /\ replay \in Projection
    /\ err \in {"none", "terminal_first", "illegal", "approval", "effect",
               "unknown_work", "duplicate_work", "sequence", "torn"}
    /\ unacked \in BOOLEAN
    /\ resolving \in [run : Runs \cup {NoRun}, next : {"none", "running", "failed"}]
    /\ steered \subseteq Works \X Runs

\* An approval is a gate: while a request is pending its Run is parked in
\* WaitingApproval, and a Work has at most one request, through transitions
\* of any caller, crashes and reopening (validate_run_transition,
\* record_pending_approval_for_run, replay_event).
PendingGate ==
    /\ \A a \in live.pending : live.run[a[2]] = "waiting_approval"
    /\ \A a, b \in live.pending : live.owner[a[2]] = live.owner[b[2]] => a = b

\* The states a reader may find for a Run whose live state is s: binding
\* writes no lifecycle row, and Verifying is journalled as RunStarted.
ReadsAs(s, d) ==
    \/ d = s
    \/ s = "ready" /\ d = "none"
    \/ s = "verifying" /\ d = "running"

\* ... and for one that was steered: the checkpoint is in the rows alone.  A Run
\* that has no state in memory stays without one when its next row is an end.
SteeredReadsAs(s, d) ==
    \/ s \in {"running", "checkpointed", "none"} /\ d = "checkpointed"
    \/ s = "none" /\ d \in {"failed", "cancelled"}

\* A row that was validated and acknowledged replays, but for four kinds: a
\* terminal event of a Run that was bound and never started, the row after a
\* failed sync, a torn row, and a row of a Run that a steering checkpoint moved
\* for the reader and not for the writer.  In particular no other acknowledged
\* transition is illegal for the reader, although the reader sees fewer states
\* than the writer (append, replay_event).
RefusalCauses ==
    \/ err \in {"none", "terminal_first", "sequence", "torn"}
    \/ err = "illegal" /\ \E a \in steered : SteeredReadsAs("none", replay.run[a[2]])

\* Projection d is what the rows behind projection l read back as, S being the
\* steering checkpoints among them.  A Run reads back with its owner and its
\* state, or as steering has left them.
RunReadsAs(l, d, r, S) ==
    \/ d.owner[r] = l.owner[r] /\ ReadsAs(l.run[r], d.run[r])
    \/ /\ <<d.owner[r], r>> \in S
       /\ l.owner[r] \in {d.owner[r], NoWork}
       /\ SteeredReadsAs(l.run[r], d.run[r])

\* A wait is read back with its reason, except that of a paused Run: its row
\* has no field for one.
WaitReadsAs(l, d, w) ==
    \/ d.wait[w] = l.wait[w]
    \/ d.wait[w] = "none" /\ l.shown[w] = "paused"

\* A Work reads back with its current Run and its wait, unless it was steered.
WorkReadsAs(l, d, w, S) ==
    \/ \E r \in Runs : <<w, r>> \in S
    \/ /\ d.address[w] = l.address[w]
       /\ d.current[w] = l.current[w]
       /\ WaitReadsAs(l, d, w)

Agrees(l, d, S) ==
    /\ d.works = l.works
    /\ d.parent = l.parent
    /\ d.pending = l.pending
    /\ d.effect = l.effect
    /\ \A r \in Runs : RunReadsAs(l, d, r, S)
    /\ \A w \in Works : WorkReadsAs(l, d, w, S)

\* A restart at any moment loses nothing that was acknowledged: the projection
\* replay would build has the live Works, pending approvals and effects, each
\* Run's owner and state, and each Work's current Run and wait, but for what a
\* steering checkpoint wrote about its own Run and Work.
ReplayAgrees == up /\ ~unacked /\ err = "none" => Agrees(live, replay, steered)

\* A terminal outcome is one-way for the running program and for every
\* program that opens the journal later (WorkState::can_transition).
TerminalIsFinal ==
    [][\A r \in Runs :
        /\ replay.run[r] \in TerminalStates => replay'.run[r] = replay.run[r]
        /\ (up /\ up' /\ live.run[r] \in TerminalStates) => live'.run[r] = live.run[r]]_gatewayVars

\* An effect whose outcome is unknown stays so until a row about it, and about
\* nothing else, says otherwise: archiving, creating the Work again, rebinding,
\* crashing and reopening do not settle it (requires_reconciliation).
UncertaintyIsKept ==
    [][\A w \in Works, e \in Effects :
        (/\ RequiresReconciliation(replay.effect[w][e])
         /\ ~RequiresReconciliation(replay'.effect[w][e]))
        => /\ up /\ live.effect[w][e] = replay.effect[w][e]
           /\ replay' = [replay EXCEPT !.effect[w][e] = replay'.effect[w][e]]]_gatewayVars
=============================================================================
