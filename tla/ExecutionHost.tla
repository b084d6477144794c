--------------------------- MODULE ExecutionHost ---------------------------
(***************************************************************************)
(* The host: the Work Gateway together with the execution kernel           *)
(* (everyaios-core/src/execution.rs) and the two callers that keep both in *)
(* step:                                                                   *)
(*  - the relay, the one thread that serves the sidecar's requests         *)
(*    (chat.rs); it locks the kernel, the gateway and the kernel again,    *)
(*    one lock at a time;                                                  *)
(*  - the prompts of external agents (src-tauri/src/acp_cmds.rs), one      *)
(*    thread each; a prompt passes the admission gate, waits for its       *)
(*    agent's handle, prepares the turn under both locks and records the   *)
(*    outcome when the agent answers.                                      *)
(* Three more reach the journal and not the kernel: a delegation, which    *)
(* binds and starts the Run of a child Work by itself; the archive         *)
(* command; and a steering checkpoint.                                     *)
(* The kernel is volatile; a restart replays the journal and rebuilds the  *)
(* kernel from the rows, and fails when either refuses them.               *)
(*                                                                         *)
(* Abstractions: a Run's kernel record is its phase and its pending        *)
(* approval; `trace` is what recover_one_run makes of the rows beyond the  *)
(* state the gateway's own replay finds; the agent binding is the set of   *)
(* Works with an active one; one agent, with one handle and one provider   *)
(* session, serves all prompts.  The checkpoint file is never written in   *)
(* production, so none is read.  The disk works: WorkGateway has one that  *)
(* fails.  A spawn has passed its checks, and the child's agent session is *)
(* left out: Delegation has both, and the callers other than the relay.    *)
(* A Work has a Session and its Runs have the context the Work gives them; *)
(* only prompts move a binding, which gets its provider session with that. *)
(* Recovery also refuses rows whose Session, context or binding is not so. *)
(***************************************************************************)
EXTENDS WorkGateway

CONSTANTS
    Prompts,      \* the prompts users send
    NoTicket      \* "no pending approval", not in Tickets

ASSUME HostConstants ==
    /\ NoTicket \notin Tickets
    /\ DiskMayFail = FALSE

VARIABLES
    phase,      \* kernel: the phase of each execution, "none" if unknown
    asks,       \* kernel: the pending approval of each execution
    relay,      \* the request the relay is serving
    prompt,     \* where each prompt is
    bound,      \* Works with an active agent binding (durable)
    trace,      \* what recovery makes of the rows
    denied      \* history: Runs whose approval was resolved with "no"

kernelVars == <<phase, asks>>
hostVars == <<gatewayVars, kernelVars, relay, prompt, bound, trace, denied>>

\* item: the approval ticket, or the effect, a request is about.
Idle == [step |-> "idle", work |-> NoWork, run |-> NoRun, state |-> "none",
         item |-> NoTicket]

NoPrompt == [step |-> "idle", work |-> NoWork, run |-> NoRun, outcome |-> "none",
             activated |-> FALSE]

\* What an agent's answer asks the Run to become.
Outcomes == {"verifying", "waiting_approval", "failed", "cancelled"}

\* The states the sidecar's client sends (WorkRunState).
RelayStates == {"running", "checkpointed", "paused"} \cup WaitingStates \cup TerminalStates

\* The id of a delegated Run is made of the Work's: the kernel hands out no such id.
Delegated(r) == \E w \in Works : <<w, r>> \in trace.delegated

Fresh(r) ==
    /\ phase[r] = "none"
    /\ live.owner[r] = NoWork /\ replay.owner[r] = NoWork
    /\ ~Delegated(r)

\* prepare_acp_turn holds the gateway and the kernel from its first row to its
\* last; resolve_pending_approval_for_run and delegate_child_work hold the
\* gateway.
LocksFree == \A p \in Prompts : prompt[p].step \notin {"prepare", "start"}
GatewayFree ==
    /\ LocksFree
    /\ resolving = NotResolving
    /\ relay.step \notin {"child_bind", "child_start"}

-----------------------------------------------------------------------------
(* The kernel.                                                             *)

\* Mutant: the kernel's gate opens for a failure.
KernelGateFailing(r, s) ==
    (phase[r] = "waiting_approval" /\ s \notin {"waiting_approval", "failed"})
    => asks[r] = NoTicket

\* A pending approval is a gate for the kernel too.
KernelGate(r, s) ==
    (phase[r] = "waiting_approval" /\ s # "waiting_approval") => asks[r] = NoTicket

\* ExecutionKernel::transition
KernelMoves(r, s) == PhaseCanTransition(phase[r], s) /\ KernelGate(r, s)

\* ... its effect: an illegal transition is an error and changes nothing.
KernelAfter(r, s) == IF KernelMoves(r, s) THEN [phase EXCEPT ![r] = s] ELSE phase

\* ExecutionKernel::validate_transition
KernelValidates(r, s) ==
    /\ phase[r] # "none"
    /\ phase[r] = s \/ KernelMoves(r, s)

-----------------------------------------------------------------------------
(* What recovery makes of the rows.                                        *)

\* started: Runs with a queue or start row; pledge: what the last resolution of a
\* Run promises; illegal: Runs with a row recovery refuses; archived: Works with an
\* archive row; id: the id of a Run, shared with another's once steering has put it
\* under a second Work; delegated: the child Works of delegations with the Runs
\* whose ids are made of theirs.
NoTrace == [started   |-> {},
            pledge    |-> [r \in Runs |-> "none"],
            illegal   |-> {},
            archived  |-> {},
            id        |-> [r \in Runs |-> r],
            delegated |-> {}]

\* Mutant: only the row of a queued Run counts as its start.
TraceStateQueued(r, t) ==
    [trace EXCEPT
        !.started = IF t = "ready" THEN @ \cup {r} ELSE @,
        !.pledge[r] = "none",
        !.illegal = IF \/ trace.pledge[r] \notin {"none", t}
                       \/ replay.run[r] # "none" /\ ~PhaseTransitionLegal(replay.run[r], t)
                    THEN @ \cup {r} ELSE @]

\* A lifecycle row of r that reads as t.
TraceState(r, t) ==
    [trace EXCEPT
        !.started = IF t \in {"ready", "running"} THEN @ \cup {r} ELSE @,
        !.pledge[r] = "none",
        !.illegal = IF \/ trace.pledge[r] \notin {"none", t}
                       \/ replay.run[r] # "none" /\ ~PhaseTransitionLegal(replay.run[r], t)
                    THEN @ \cup {r} ELSE @]

\* An ApprovalResolved row promises the Run's next state.
TraceResolved(r, t) == [trace EXCEPT !.pledge[r] = t]

\* Mutant: a resolution without its transition is tolerated.
RunRecoversUnpledged(r) ==
    /\ r \notin trace.illegal
    /\ replay.run[r] # "none"
    /\ replay.run[r] \in TerminalStates =>
        r \in trace.started /\ ~HasUnresolvedUncertainEffect(replay, replay.owner[r])

\* recover_one_run, for a Run of a Work that is not archived
RunRecovers(r) ==
    /\ r \notin trace.illegal
    /\ trace.pledge[r] = "none"
    /\ replay.run[r] # "none"
    /\ replay.run[r] \in TerminalStates =>
        r \in trace.started /\ ~HasUnresolvedUncertainEffect(replay, replay.owner[r])

RecoveredRuns == {r \in Runs : replay.owner[r] \in replay.works}

\* An id is under two of the Works.
RecoveredTwice == \E r, q \in RecoveredRuns : r # q /\ trace.id[r] = trace.id[q]

\* recover_from_work_gateway_with_report: a Work that was archived and created
\* again has two WorkCreated rows.
KernelRecovers ==
    /\ replay.works \cap trace.archived = {}
    /\ \A r \in RecoveredRuns : RunRecovers(r)
    /\ ~RecoveredTwice
    /\ \A w \in replay.works :
        replay.current[w] # NoRun => replay.shown[w] = replay.run[replay.current[w]]

-----------------------------------------------------------------------------
(* The relay.  A request takes a step per lock.                            *)

RelayIdle == relay.step = "idle" /\ LocksFree /\ up
RelayAt(step) == relay.step = step /\ LocksFree /\ up
RelayRefuses == relay' = Idle /\ UNCHANGED <<gatewayVars, kernelVars, trace, denied>>

\* work/create
RelayCreate(w) ==
    /\ RelayIdle
    /\ CreateWork(w)
    /\ UNCHANGED <<kernelVars, relay, prompt, bound, trace, denied>>

\* execution/begin: the kernel first ...
RelayBegin(w, r) ==
    /\ RelayIdle
    /\ Fresh(r)
    /\ phase' = [phase EXCEPT ![r] = "ready"]
    /\ relay' = [Idle EXCEPT !.step = "bind", !.work = w, !.run = r]
    /\ UNCHANGED <<gatewayVars, asks, prompt, bound, trace, denied>>

\* ... then the gateway, whose refusal leaves the execution in the kernel.
RelayBind ==
    /\ RelayAt("bind")
    /\ \/ /\ BindExecution(relay.work, relay.run)
          /\ relay' = Idle
          /\ UNCHANGED <<kernelVars, trace, denied>>
       \/ /\ GatewayFree
          /\ relay.work \notin live.works \/ ~MayBind(relay.work, relay.run)
          /\ RelayRefuses
    /\ UNCHANGED <<prompt, bound>>

\* execution/transition: the kernel validates the edge ...
RelayTransition(w, r, s) ==
    /\ RelayIdle
    /\ KernelValidates(r, s)
    /\ relay' = [Idle EXCEPT !.step = "journal", !.work = w, !.run = r, !.state = s]
    /\ UNCHANGED <<gatewayVars, kernelVars, prompt, bound, trace, denied>>

\* Mutant: the kernel moves also when the journal refuses.
RelayJournalAnyway ==
    /\ RelayAt("journal")
    /\ \/ /\ RecordExecutionTransition(relay.work, relay.run, relay.state)
          /\ trace' = TraceState(relay.run, EventState(relay.state))
          /\ relay' = [relay EXCEPT !.step = "apply"]
          /\ UNCHANGED <<kernelVars, denied>>
       \/ /\ GatewayFree
          /\ relay.work \notin live.works \/ ~MayRecord(relay.work, relay.run, relay.state)
          /\ relay' = [relay EXCEPT !.step = "apply"]
          /\ UNCHANGED <<gatewayVars, kernelVars, trace, denied>>
    /\ UNCHANGED <<prompt, bound>>

\* Mutant: a refusal of the journal is not answered.
RelayJournalSilent ==
    /\ RelayAt("journal")
    /\ RecordExecutionTransition(relay.work, relay.run, relay.state)
    /\ trace' = TraceState(relay.run, EventState(relay.state))
    /\ relay' = [relay EXCEPT !.step = "apply"]
    /\ UNCHANGED <<kernelVars, denied, prompt, bound>>

\* ... the gateway journals it, or refuses ...
RelayJournal ==
    /\ RelayAt("journal")
    /\ \/ /\ RecordExecutionTransition(relay.work, relay.run, relay.state)
          /\ trace' = TraceState(relay.run, EventState(relay.state))
          /\ relay' = [relay EXCEPT !.step = "apply"]
          /\ UNCHANGED <<kernelVars, denied>>
       \/ /\ GatewayFree
          /\ relay.work \notin live.works \/ ~MayRecord(relay.work, relay.run, relay.state)
          /\ RelayRefuses
    /\ UNCHANGED <<prompt, bound>>

\* ... and the kernel moves, unless it has changed in between.
RelayApply ==
    /\ RelayAt("apply")
    /\ phase' = KernelAfter(relay.run, relay.state)
    /\ relay' = Idle
    /\ UNCHANGED <<gatewayVars, asks, prompt, bound, trace, denied>>

\* execution/record_approval: validate_pending_approval_request ...
RelayAsk(w, r, t) ==
    /\ RelayIdle
    /\ phase[r] = "waiting_approval"
    /\ asks[r] \in {t, NoTicket}
    /\ relay' = [Idle EXCEPT !.step = "ask", !.work = w, !.run = r, !.item = t]
    /\ UNCHANGED <<gatewayVars, kernelVars, prompt, bound, trace, denied>>

\* ... the journal ...
RelayAskJournal ==
    /\ RelayAt("ask")
    /\ \/ /\ RecordPendingApproval(relay.work, relay.run, relay.item)
          /\ relay' = [relay EXCEPT !.step = "asked"]
          /\ UNCHANGED <<kernelVars, trace, denied>>
       \/ /\ GatewayFree
          /\ relay.work \notin live.works \/ ~MayRequest(relay.work, relay.run)
          /\ RelayRefuses
    /\ UNCHANGED <<prompt, bound>>

\* ... and the kernel's record.
RelayAskApply ==
    /\ RelayAt("asked")
    /\ asks' = IF phase[relay.run] = "waiting_approval" /\ asks[relay.run] = NoTicket
               THEN [asks EXCEPT ![relay.run] = relay.item] ELSE asks
    /\ relay' = Idle
    /\ UNCHANGED <<gatewayVars, phase, prompt, bound, trace, denied>>

\* execution/resolve_approval: validate_pending_approval_resolution ...
RelayResolve(w, r, t, approved) ==
    /\ RelayIdle
    /\ phase[r] # "none"
    /\ asks[r] = t
    /\ relay' = [Idle EXCEPT !.step = "resolve", !.work = w, !.run = r, !.item = t,
                             !.state = IF approved THEN "running" ELSE "failed"]
    /\ UNCHANGED <<gatewayVars, kernelVars, prompt, bound, trace, denied>>

\* ... the first row ...
RelayResolveJournal ==
    LET r == relay.run
    IN /\ RelayAt("resolve")
       /\ \/ /\ ResolvePendingApproval(relay.work, r, relay.item, relay.state = "running")
             /\ trace' = TraceResolved(r, relay.state)
             /\ denied' = IF relay.state = "failed" THEN denied \cup {r} ELSE denied
             /\ relay' = [relay EXCEPT !.step = "finish"]
             /\ UNCHANGED kernelVars
          \/ /\ GatewayFree
             /\ relay.work \notin live.works \/ ~MayResolve(relay.work, r, relay.item)
             /\ RelayRefuses
       /\ UNCHANGED <<prompt, bound>>

\* ... the second row, under the same lock ...
RelayFinish ==
    /\ RelayAt("finish")
    /\ FinishResolution
    /\ trace' = TraceState(resolving.run, resolving.next)
    /\ relay' = [relay EXCEPT !.step = "resolved"]
    /\ UNCHANGED <<kernelVars, prompt, bound, denied>>

\* ... and the kernel (resolve_pending_approval_for).
RelayResolveApply ==
    LET r == relay.run
        ok == PhaseCanTransition(phase[r], relay.state) /\ asks[r] = relay.item
    IN /\ RelayAt("resolved")
       /\ phase' = IF ok THEN [phase EXCEPT ![r] = relay.state] ELSE phase
       /\ asks' = IF ok THEN [asks EXCEPT ![r] = NoTicket] ELSE asks
       /\ relay' = Idle
       /\ UNCHANGED <<gatewayVars, prompt, bound, trace, denied>>

\* tool/commit with an effect id: the attempt is journalled before the tool runs.
RelayCommit(w, e) ==
    /\ RelayIdle
    /\ RecordEffectAttempted(w, e)
    /\ relay' = [Idle EXCEPT !.step = "observe", !.work = w, !.item = e]
    /\ UNCHANGED <<kernelVars, prompt, bound, trace, denied>>

\* ... the tool has run: its outcome is observed, then verified.  The state
\* string of a tool may also be one that leaves the outcome uncertain, which
\* the verified row then is refused for.
RelayObserve(certain) ==
    /\ RelayAt("observe")
    /\ \/ /\ RecordEffectObserved(relay.work, relay.item, certain)
          /\ relay' = IF certain THEN [relay EXCEPT !.step = "verify"] ELSE Idle
          /\ UNCHANGED <<kernelVars, trace, denied>>
       \/ /\ GatewayFree
          /\ relay.work \notin live.works \/ live.effect[relay.work][relay.item] \in {"absent", "uncertain"}
          /\ RelayRefuses
    /\ UNCHANGED <<prompt, bound>>

RelayVerify(ok) ==
    /\ RelayAt("verify")
    /\ \/ /\ RecordEffectVerified(relay.work, relay.item, ok)
          /\ relay' = Idle
          /\ UNCHANGED <<kernelVars, trace, denied>>
       \/ /\ GatewayFree
          /\ \/ relay.work \notin live.works
             \/ live.effect[relay.work][relay.item] \notin {"observed", "verified"}
          /\ RelayRefuses
    /\ UNCHANGED <<prompt, bound>>

-----------------------------------------------------------------------------
(* What reaches the journal and not the kernel.                            *)

\* subagent/spawn, delegate_child_work: the child Work is created, its Run bound
\* and started under one lock; a crash can separate the rows.  A task is
\* delegated once.
RelaySpawn(w, c, r) ==
    /\ RelayIdle /\ GatewayFree
    /\ Fresh(r) /\ \A a \in trace.delegated : a[1] # c
    /\ CreateChildWork(c, w)
    /\ trace' = [trace EXCEPT !.delegated = @ \cup {<<c, r>>}]
    /\ relay' = [Idle EXCEPT !.step = "child_bind", !.work = c, !.run = r]
    /\ UNCHANGED <<kernelVars, prompt, bound, denied>>

RelayChildBind ==
    /\ RelayAt("child_bind")
    /\ BindExecution(relay.work, relay.run)
    /\ relay' = [relay EXCEPT !.step = "child_start"]
    /\ UNCHANGED <<kernelVars, prompt, bound, trace, denied>>

RelayChildStart ==
    /\ RelayAt("child_start")
    /\ RecordExecutionTransition(relay.work, relay.run, "running")
    /\ trace' = TraceState(relay.run, "running")
    /\ relay' = Idle
    /\ UNCHANGED <<kernelVars, prompt, bound, denied>>

\* subagent/complete, subagent/fail and the same of an agent's tools: the child's
\* Run ends, also one that a crash kept from being bound.
CloseChild(c, r, s) ==
    /\ GatewayFree
    /\ <<c, r>> \in trace.delegated
    /\ FinishChildWork(c, r, s)
    /\ trace' = TraceState(r, s)
    /\ UNCHANGED <<kernelVars, relay, prompt, bound, denied>>

\* work/archive
HostArchive(w) ==
    /\ GatewayFree
    /\ ArchiveWork(w)
    /\ trace' = [trace EXCEPT !.archived = @ \cup {w}]
    /\ UNCHANGED <<kernelVars, relay, prompt, bound, denied>>

\* work/steer_checkpoint, of an id of the client's: that of a Run of the Work; one
\* that no row and no execution has; or that of a Run of another Work, which r
\* then is under w.
HostSteer(w, r, id) ==
    /\ GatewayFree
    /\ live.owner[r] = NoWork =>
        /\ phase[r] = "none"
        /\ \A a \in trace.delegated : a[2] = r => a[1] = w
    /\ id # trace.id[r] =>
        /\ Fresh(r)
        /\ \A q \in Runs : trace.id[q] = id => replay.owner[q] \notin {w, NoWork}
    /\ ApplySteeringCheckpoint(w, r)
    /\ trace' = [TraceState(r, "checkpointed") EXCEPT !.id[r] = id]
    /\ UNCHANGED <<kernelVars, relay, prompt, bound, denied>>

-----------------------------------------------------------------------------
(* The prompts.                                                            *)

\* reconcile_before_prompt
Admits(w) ==
    w \in live.works =>
        /\ ~HasUnresolvedUncertainEffect(live, w)
        /\ LET r == live.current[w]
           IN r # NoRun =>
                /\ phase[r] # "none"
                /\ ~(phase[r] \in TerminalStates /\ w \in bound)
                /\ phase[r] \notin {"recoverable", "paused", "checkpointed"} \cup WaitingStates

PromptAt(p, step) == prompt[p].step = step /\ up

Becomes(p, step, r) == prompt' = [prompt EXCEPT ![p].step = step, ![p].run = r]
Refused(p) == prompt' = [prompt EXCEPT ![p] = NoPrompt]

\* acp_prompt: the gate's locks are released before the handle is awaited.
PromptAdmit(p, w) ==
    /\ PromptAt(p, "idle")
    /\ GatewayFree
    /\ Admits(w)
    /\ prompt' = [prompt EXCEPT ![p] = [NoPrompt EXCEPT !.step = "queued", !.work = w]]
    /\ UNCHANGED <<gatewayVars, kernelVars, relay, bound, trace, denied>>

Resumable == {"ready", "running", "checkpointed", "paused", "recoverable"} \cup WaitingStates

\* Bound: the model has Run ids left for a turn that needs one.
RunAvailable(w) ==
    \/ \E r \in Runs : Fresh(r)
    \/ live.current[w] # NoRun /\ phase[live.current[w]] \in Resumable \cup {"none"}

\* prepare_acp_turn: with the handle and both locks, the Work is created if it
\* is unknown and the agent's binding activated ...
PromptPrepare(p) ==
    LET w == prompt[p].work
    IN /\ PromptAt(p, "queued")
       /\ \A q \in Prompts : prompt[q].step # "turn"
       /\ GatewayFree
       /\ RunAvailable(w)
       /\ \/ CreateWork(w)
          \/ w \in live.works /\ live.parent[w] = NoWork /\ UNCHANGED gatewayVars
       /\ bound' = bound \cup {w}
       /\ prompt' = [prompt EXCEPT ![p].step = "prepare", ![p].activated = w \notin bound]
       /\ UNCHANGED <<kernelVars, relay, trace, denied>>

\* ... a child Work is refused, which has its parent's session ...
PromptMismatch(p) ==
    LET w == prompt[p].work
    IN /\ PromptAt(p, "queued")
       /\ \A q \in Prompts : prompt[q].step # "turn"
       /\ GatewayFree
       /\ w \in live.works /\ live.parent[w] # NoWork
       /\ Refused(p)
       /\ UNCHANGED <<gatewayVars, kernelVars, relay, bound, trace, denied>>

\* ... and so is a Work whose Run the kernel does not have.
PromptMissing(p) ==
    LET r == live.current[prompt[p].work]
    IN /\ PromptAt(p, "prepare")
       /\ r # NoRun /\ phase[r] = "none"
       /\ Refused(p)
       /\ UNCHANGED <<gatewayVars, kernelVars, relay, bound, trace, denied>>

\* ... a binding this prompt activated is suspended again when it is refused.
Suspend(p) == bound' = IF prompt[p].activated THEN bound \ {prompt[p].work} ELSE bound

\* ... a Run that is running is reused ...
PromptReuse(p) ==
    LET r == live.current[prompt[p].work]
    IN /\ PromptAt(p, "prepare")
       /\ r # NoRun /\ phase[r] = "running"
       /\ Becomes(p, "turn", r)
       /\ UNCHANGED <<gatewayVars, kernelVars, relay, bound, trace, denied>>

\* ... one that can be resumed moves in the kernel, then in the journal; a
\* refusal of the journal fails the kernel's execution ...
PromptResume(p) ==
    LET w == prompt[p].work
        r == live.current[w]
    IN /\ PromptAt(p, "prepare")
       /\ r # NoRun /\ phase[r] \in Resumable \ {"running"}
       /\ \/ /\ KernelMoves(r, "running")
             /\ RecordExecutionTransition(w, r, "running")
             /\ trace' = TraceState(r, "running")
             /\ phase' = [phase EXCEPT ![r] = "running"]
             /\ Becomes(p, "turn", r)
             /\ UNCHANGED bound
          \/ /\ ~(KernelMoves(r, "running") /\ MayRecord(w, r, "running"))
             /\ phase' = IF KernelMoves(r, "running") THEN [phase EXCEPT ![r] = "failed"]
                         ELSE phase
             /\ Refused(p)
             /\ Suspend(p)
             /\ UNCHANGED <<gatewayVars, trace>>
       /\ UNCHANGED <<asks, relay, denied>>

\* ... otherwise a new Run begins and is bound: the first row of two ...
PromptBegin(p, r) ==
    LET w == prompt[p].work
        current == live.current[w]
    IN /\ PromptAt(p, "prepare")
       /\ current # NoRun => phase[current] \in {"verifying"} \cup TerminalStates
       /\ Fresh(r)
       /\ \/ /\ BindExecution(w, r)
             /\ phase' = [phase EXCEPT ![r] = "running"]
             /\ Becomes(p, "start", r)
             /\ UNCHANGED bound
          \/ /\ ~MayBind(w, r)
             /\ phase' = [phase EXCEPT ![r] = "failed"]
             /\ Refused(p)
             /\ Suspend(p)
             /\ UNCHANGED gatewayVars
       /\ UNCHANGED <<asks, relay, trace, denied>>

\* ... and the second, which a Run that was just bound is never refused.
PromptStart(p) ==
    LET r == prompt[p].run
    IN /\ PromptAt(p, "start")
       /\ RecordExecutionTransition(prompt[p].work, r, "running")
       /\ trace' = TraceState(r, "running")
       /\ Becomes(p, "turn", r)
       /\ UNCHANGED <<kernelVars, relay, bound, denied>>

\* The agent answers, fails or is cancelled: the handle is released before the
\* outcome is recorded.
PromptAnswer(p, outcome) ==
    /\ PromptAt(p, "turn")
    /\ prompt' = [prompt EXCEPT ![p].step = "answered", ![p].outcome = outcome]
    /\ UNCHANGED <<gatewayVars, kernelVars, relay, bound, trace, denied>>

\* transition_acp_run: the journal, then the kernel, under the gateway's lock.
\* ok: both accept; the caller drops the error otherwise.
TransitionAcpRun(w, r, s, ok) ==
    /\ GatewayFree
    /\ ok = (MayRecord(w, r, s) /\ KernelMoves(r, s))
    /\ \/ /\ RecordExecutionTransition(w, r, s)
          /\ trace' = TraceState(r, EventState(s))
          /\ phase' = KernelAfter(r, s)
       \/ ~MayRecord(w, r, s) /\ UNCHANGED <<gatewayVars, trace, phase>>
    /\ UNCHANGED asks

\* The outcome is recorded; "verifying" is followed by "completed" under a
\* lock taken again.
PromptRecord(p) ==
    /\ PromptAt(p, "answered")
    /\ \E ok \in BOOLEAN :
        /\ TransitionAcpRun(prompt[p].work, prompt[p].run, prompt[p].outcome, ok)
        /\ IF ok /\ prompt[p].outcome = "verifying"
           THEN Becomes(p, "verified", prompt[p].run) ELSE Refused(p)
    /\ UNCHANGED <<relay, bound, denied>>

PromptComplete(p) ==
    /\ PromptAt(p, "verified")
    /\ \E ok \in BOOLEAN :
        TransitionAcpRun(prompt[p].work, prompt[p].run, "completed", ok)
    /\ Refused(p)
    /\ UNCHANGED <<relay, bound, denied>>

-----------------------------------------------------------------------------
(* Crash and restart of the host.                                          *)

HostCrash ==
    /\ Crash
    /\ phase' = [r \in Runs |-> "none"]
    /\ asks' = [r \in Runs |-> NoTicket]
    /\ relay' = Idle
    /\ prompt' = [p \in Prompts |-> NoPrompt]
    /\ UNCHANGED <<bound, trace, denied>>

RecoveredPhase(r) == IF r \in RecoveredRuns THEN replay.run[r] ELSE "none"

\* Mutant: the whole record of the request is put where its ticket belongs.
RecoveredAskRecord(r) ==
    IF r \in RecoveredRuns /\ PendingOf(replay, r) # {}
    THEN CHOOSE a \in PendingOf(replay, r) : TRUE ELSE NoTicket

RecoveredAsk(r) ==
    IF r \in RecoveredRuns /\ PendingOf(replay, r) # {}
    THEN (CHOOSE a \in PendingOf(replay, r) : TRUE)[1] ELSE NoTicket

\* The relay's constructor: the journal opens and the kernel is rebuilt.
Start ==
    /\ Open
    /\ KernelRecovers
    /\ phase' = [r \in Runs |-> RecoveredPhase(r)]
    /\ asks' = [r \in Runs |-> RecoveredAsk(r)]
    /\ UNCHANGED <<relay, prompt, bound, trace, denied>>

\* ... or one of them refuses, now and at every later start.
StartRefused ==
    /\ ~up
    /\ ~(OpenSucceeds /\ KernelRecovers)
    /\ UNCHANGED hostVars

-----------------------------------------------------------------------------

HostInit ==
    /\ Init
    /\ phase = [r \in Runs |-> "none"]
    /\ asks = [r \in Runs |-> NoTicket]
    /\ relay = Idle
    /\ prompt = [p \in Prompts |-> NoPrompt]
    /\ bound = {}
    /\ trace = NoTrace
    /\ denied = {}

\* What the sidecar asks for.
RelayRequest ==
    \/ \E w \in Works : RelayCreate(w)
    \/ \E w \in Works, e \in Effects : RelayCommit(w, e)
    \/ \E w, c \in Works, r \in Runs : RelaySpawn(w, c, r)
    \/ \E w \in Works, r \in Runs :
        \/ RelayBegin(w, r)
        \/ \E s \in RelayStates : RelayTransition(w, r, s)
        \/ \E t \in Tickets :
            \/ RelayAsk(w, r, t)
            \/ \E approved \in BOOLEAN : RelayResolve(w, r, t, approved)

\* How the relay thread goes on with it.
RelayStep ==
    \/ RelayBind \/ RelayJournal \/ RelayApply
    \/ RelayAskJournal \/ RelayAskApply
    \/ RelayResolveJournal \/ RelayFinish \/ RelayResolveApply
    \/ RelayChildBind \/ RelayChildStart
    \/ \E ok \in BOOLEAN : RelayObserve(ok) \/ RelayVerify(ok)

\* What other threads, and the relay, ask of the journal alone.
JournalRequest == \E w \in Works :
    \/ HostArchive(w)
    \/ \E r \in Runs :
        \/ \E s \in TerminalStates : CloseChild(w, r, s)
        \/ \E id \in {trace.id[q] : q \in Runs} : HostSteer(w, r, id)

\* What a prompt's thread does between taking both locks and releasing them.
PromptLocked(p) ==
    \/ PromptMissing(p) \/ PromptReuse(p) \/ PromptResume(p) \/ PromptStart(p)
    \/ \E r \in Runs : PromptBegin(p, r)

PromptStep(p) ==
    \/ \E w \in Works : PromptAdmit(p, w)
    \/ PromptPrepare(p) \/ PromptMismatch(p)
    \/ PromptLocked(p)
    \/ \E outcome \in Outcomes : PromptAnswer(p, outcome)
    \/ PromptRecord(p)
    \/ PromptComplete(p)

HostNext ==
    \/ RelayRequest \/ RelayStep \/ JournalRequest
    \/ \E p \in Prompts : PromptStep(p)
    \/ HostCrash \/ Start \/ StartRefused

HostSpec == HostInit /\ [][HostNext]_hostVars

\* A thread that holds both locks keeps running.  The relay gets a lock that is
\* free again and again: users do not send prompts fast enough to starve it.
FairHostSpec ==
    /\ HostSpec
    /\ SF_hostVars(RelayStep)
    /\ WF_hostVars(\E p \in Prompts : PromptLocked(p))

-----------------------------------------------------------------------------
(* Properties.                                                             *)

\* Type correctness of the host's state.
HostTypeOK ==
    /\ TypeOK
    /\ phase \in [Runs -> OptStates]
    /\ asks \in [Runs -> Tickets \cup {NoTicket}]
    /\ relay \in [step : {"idle", "bind", "journal", "apply", "ask", "asked", "resolve",
                          "finish", "resolved", "observe", "verify",
                          "child_bind", "child_start"},
                  work : Works \cup {NoWork}, run : Runs \cup {NoRun},
                  state : RelayStates \cup {"none"},
                  item : Tickets \cup Effects \cup {NoTicket}]
    /\ prompt \in [Prompts -> [step : {"idle", "queued", "prepare", "start", "turn",
                                       "answered", "verified"},
                               work : Works \cup {NoWork}, run : Runs \cup {NoRun},
                               outcome : Outcomes \cup {"none"}, activated : BOOLEAN]]
    /\ bound \subseteq Works
    /\ trace \in [started : SUBSET Runs,
                  pledge : [Runs -> {"none", "running", "failed"}], illegal : SUBSET Runs,
                  archived : SUBSET Works, id : [Runs -> Runs],
                  delegated : SUBSET (Works \X Runs)]
    /\ denied \subseteq Runs

\* A "no" is final: after a resolution that refuses an approval is durable, no
\* thread, and no later process, has that Run running, although the refusal is
\* two rows and a kernel update apart and a crash can separate them.
DeniedNeverRuns == \A r \in denied : phase[r] # "running"

\* The kernel follows the journal, whatever the relay and the prompts did between
\* their locks and also after a restart: it knows every bound Run of a Work that
\* was never archived, but for those a delegation bound without it, so that the
\* "points at missing Run" refusals of the gate and of a turn have no other cause;
\* and of no Run, delegated or archived too, does it report a completion or a
\* cancellation that the journal does not have.
KernelFollowsJournal ==
    \A r \in Runs : up =>
        /\ live.owner[r] \in live.works \ trace.archived /\ ~Delegated(r) => phase[r] # "none"
        /\ live.owner[r] # NoWork /\ phase[r] \in {"completed", "cancelled"}
           => live.run[r] = phase[r]

\* A gate of the kernel has a durable reason: an execution that waits for a
\* ticket is in WaitingApproval and the journal holds that request, or the
\* relay is between the rows that resolve it and the kernel's own record.
GateIsBacked ==
    \A r \in Runs : asks[r] # NoTicket =>
        /\ phase[r] = "waiting_approval"
        /\ \/ <<asks[r], r>> \in live.pending
           \/ relay.step \in {"finish", "resolved"} /\ relay.run = r /\ relay.item = asks[r]

\* The archived Works that keep a restart from succeeding: created again, or the
\* parent of a Work, the owner of a pending approval or that of an effect.
ArchivedInUse ==
    {w \in trace.archived :
        \/ w \in replay.works
        \/ \E v \in replay.works : replay.parent[v] = w
        \/ PendingOfWork(replay, w) # {}
        \/ \E e \in Effects : replay.effect[w][e] # "absent"}

\* A start that is refused for what the rows say of Works, Runs, approvals and
\* effects has one of these causes, whatever the relay, the prompts, delegations,
\* archives and steering wrote and wherever a crash fell: a
\* Run that was bound and ended before it started; a row that steering made
\* illegal; an archived Work still in use; an id that steering put under two
\* Works; a bound Run without a row; a resolution cut off from its transition; a
\* row between two states that the gateway's table has and the kernel's recovery
\* has not; a Run that ended with an effect in doubt, or one that steering
\* brought into being and that ended.  So no start fails for a broken sequence, a
\* reference to a Work that was never archived, or a Work that shows another
\* state than its Run's (WorkGateway::open,
\* recover_from_work_gateway_with_report, recover_one_run).
RestartCauses ==
    ~(OpenSucceeds /\ KernelRecovers) =>
        \/ err = "terminal_first"
        \/ err = "illegal" /\ steered # {}
        \/ ArchivedInUse # {}
        \/ RecoveredTwice
        \/ \E r \in RecoveredRuns :
            \/ replay.run[r] = "none"
            \/ trace.pledge[r] # "none"
            \/ r \in trace.illegal
            \/ /\ replay.run[r] \in TerminalStates
               /\ \/ HasUnresolvedUncertainEffect(replay, replay.owner[r])
                  \/ r \notin trace.started /\ <<replay.owner[r], r>> \in steered

\* A request of the sidecar is always answered, whatever the prompts do with the
\* locks and whichever of its steps is refused.
RelayAnswers == (relay.step # "idle") ~> (relay.step = "idle")
=============================================================================
