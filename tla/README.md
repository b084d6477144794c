# EveryAIOS: verification of the execution spine

EveryAIOS is a desktop host for AI agents: a Rust core (`crates/`), a Tauri
shell (`src-tauri/`), and a TypeScript sidecar (`packages/coordinator`). Work is
described by durable *Works*, each attempt is a *Run*, and nothing with an
effect happens without a *ticket*. This project models the part the rest
depends on: the journal of Works and Runs, the kernel that drives them, the two
kinds of callers that drive the kernel, the approval service, the scheduler that
starts Works by itself, the delegation of child Works, the leases on resources,
the sessions of agent processes with their cancellation, and the supervision of
the sidecar.

All paths below are relative to the repository. `work_gateway.rs`,
`execution.rs`, `chat.rs`, `guard_service.rs`, `tools.rs`,
`scheduler_service.rs`, `workbench.rs`, `supervisor.rs`, `sidecar_link.rs` and
`task_ledger.rs` are in `crates/everyaios-core/src`; `ticket.rs`, `batch.rs` and
`injection.rs` in `crates/everyaios-guard/src`; `subagent.rs` in
`crates/everyaios-blueprint/src`; `client.rs` in `crates/everyaios-acp/src`; `acp_cmds.rs`, `lib.rs`, `scheduler_fire.rs`
and `scheduler_cmds.rs` in `src-tauri/src`.

## 1. Inventory

| Component | State | Operations | Interacts with | What is hard | What makes it correct |
|---|---|---|---|---|---|
| Work Gateway (`work_gateway.rs`) | journal file, sequence number, projections of Works, Runs, waits, approvals, effects | create, bind, transition, wait, request and resolve approvals, effects, end of a child, steering checkpoint, archive, open | called by the relay, by prompts and by the scheduler under one mutex | writes that fail or tear; a writer that knows more than the reader; two-row operations | an approval is a gate; a journal replays to what was acknowledged; outcomes are final; uncertain effects stay uncertain |
| Execution kernel (`execution.rs`) | one phase and at most one pending approval per Run, in memory | begin, transition, approvals, recovery from the journal | rebuilt from the gateway at start | memory and journal are changed under different locks | never ahead of the journal about an end, never running what was refused |
| Chat relay (`chat.rs`) | the request being served | one arm per method of the sidecar | kernel, gateway, Guard, tools | lock, check, unlock, write, lock again | each request is answered; each step still means what was checked |
| ACP host (`acp_cmds.rs`) | one thread per prompt, an agent handle with a mutex | gate, prepare the turn, run it, record the outcome | kernel and gateway with both locks, the agent's handle | gate, handle and outcome are three critical sections | a turn runs on the Run it was admitted for |
| Guard-2 (`guard_service.rs`, `ticket.rs`, `batch.rs`) | two ticket stores, outcomes, waiters, emergency stop | evaluate, approve, reject, extend, use, wait | prompts' permission callbacks, executors, installer, human | decisions, expiry and use race; a wait may hold the mutex | one use per ticket, only with a yes; a decision arrives and is not changed |
| Scheduler (`scheduler_service.rs`, `scheduler_fire.rs`, `scheduler_cmds.rs`) | automations, occurrences and receipts in memory and in one file | register, pause, delete, admit, dispatch, advance, doubt, cancel, reconcile | gateway and kernel, relay, shell commands, a timer | the file, the Work journal and memory change at different times and each write may fail; dispatch runs without the lock | one admission and one settlement per occurrence; the file never lags behind the Works; what is pending is settled |
| Delegation (`work_gateway.rs`, `chat.rs`, `subagent.rs`) | child Works, their Run and session | spawn under limits, close | gateway; relay thread and tool-plane thread | the limits are read under one lock and used under another; five rows per spawn, two per close | limits are nearly kept; sessions have a started Run; a close leaves no session behind |
| Lease coordinator (`workbench.rs`) | leases and fences in memory, facts for a rebuild | acquire, renew, release, revoke, take over, reclaim, reconcile, rebuild | gateway (delegation leases) | expiry and takeover against a holder at work; a rebuild with rules of its own | one writer; lost authority stays lost; fences move forward |
| Sidecar: supervisor, link and relay rebuild (`supervisor.rs`, `sidecar_link.rs`, `lib.rs`) | child process, breaker, park and resume flags, pending requests, published relay | spawn, watchdog, rotate, park, resume, request, answer, end of stream, rebuild | relay, shell, journal | restart, park and wake race; a request races the end of the stream; two relays for a while | one child; no caller waits on a dead link; a wake gets a child, a child gets a relay |
| Agent session (`client.rs`, `acp_cmds.rs`) | the agent's pipes, active turn, cancellation flag, parked frames, quarantine | prompt, other requests, stop, shutdown, answers to the agent's own requests | prompts and commands under the session's mutex, stops beside it, Guard, an external program | a stop reads the turn and writes later, and its message names no turn; an agent that may do anything; requests given up half-way | a stop ends its own turn, and does; no answer meets a later request; no request of the agent is lost |
| Run authority (`work_gateway.rs`) | lease and fencing token of a Run, in memory | acquire, renew, validate, release | nodes | a restart forgets the tokens | not modelled, see section 5 |
| Task ledger (`task_ledger.rs`) | tasks with heartbeats | start, heartbeat, complete, reap, retry | background tasks | ids after a restart, ignored write errors | not modelled, see section 5 |
| Turn snapshots, spool, git queue, governor | files, quotas, queues | capture, rollback, admit | tools | partial failure, limits | rollback is all or reported |
| Sync, messaging, vault, memory, catalog, browser, desktop, office, search, code intelligence, audit, UI | various | I/O, ranking, formats | | mostly not control | not modelled; reasons are in `PROJECT.json` |

The hazards this code is exposed to, each at its line, are listed in
`PROJECT.json`; the properties below answer them.

## 2. Modules

```
WorkLifecycle          states and transition tables
  WorkGateway          the journal and its projections
    WorkGatewayProofs  theorems
    MCWorkGateway      instances for TLC
    ExecutionHost      kernel + relay + prompts over the gateway's actions
      ExecutionHostProofs, MCExecutionHost
    Delegation         spawns and closes of child Works, row by row
      DelegationProofs, MCDelegation
GuardService           tickets, deciders, waiting threads, executors
  GuardServiceProofs, MCGuardService
OccurrenceAdmission    what a trigger occurrence is promised (abstract)
Scheduler              registry, file, dispatchers; refines OccurrenceAdmission
  SchedulerProofs, MCScheduler
LeaseCoordinator       leases, fences and the rebuild from facts
  LeaseCoordinatorProofs, MCLeaseCoordinator
Sidecar                supervisor, child, link, relay rebuild, turns
  SidecarProofs, MCSidecar
AcpSession             one agent process: prompts, stops, pipes, quarantine
  AcpSessionProofs, MCAcpSession
```

**WorkLifecycle** holds the tables: `CanTransition` (`WorkState::can_transition`),
`PhaseCanTransition` and `PhaseTransitionLegal` (the kernel's own table),
`EventState` (what replay reads from the row a state is written as) and
`WaitState`.

**WorkGateway**. `live` is the projection in memory. The journal is represented
by what replay makes of it: `replay` is the projection its rows build and `err`
the first reason for which `open` refuses them. Each append applies its row to
`live`, under the writer's check, and to `replay`, under the reader's. So the
two validations of the code are both present and may disagree, and no sequence
of rows has to be stored. `unacked` is set when a sync failed after its write;
`resolving` holds the second row of a resolution that has not been written yet.
One action per operation: `CreateWork`, `CreateChildWork`, `BindExecution`,
`RecordExecutionTransition`, `RecordWait`, `FinishChildWork`,
`ApplySteeringCheckpoint`, `RecordPendingApproval`,
`ResolvePendingApproval` then `FinishResolution` or `AbandonResolution`, the
five effect operations, `ArchiveWork`, `Crash`, `TornWrite`, `Open`,
`OpenRefused`. An append may fail before or after its row is in the file when
`DiskMayFail`. A steering checkpoint is the one row that changes `replay` and not
`live`; `steered` is the history of the Works and Runs it named.

**ExecutionHost** extends the gateway and adds the kernel (`phase`, `asks`), the
relay and the prompts. A step is what a thread does with its locks held. A
request of the relay is therefore a chain (for a transition: validate in the
kernel, write the row, apply to the kernel), and a prompt is: admission by the
gate, wait for the handle, preparation with both locks, the turn, the answer
(which releases the handle), the record of the outcome. A child Work has its
parent's session, for which a prompt refuses it (`PromptMismatch`), and a Work whose
Run the kernel lacks is refused too (`PromptMissing`).
A delegation (`RelaySpawn`, `RelayChildBind`, `RelayChildStart`: three rows under the
gateway's lock), the end of its child (`CloseChild`), an archive (`HostArchive`) and
a steering checkpoint (`HostSteer`) reach the journal and not the kernel.
`trace` is what the kernel's recovery needs to know of the rows beyond `replay`: the
Runs that have started, the promise of a last resolution, rows recovery refuses,
Works that were archived, ids that steering put under a second Work, and the children
of delegations. `HostCrash`
discards memory; `Start` opens the journal and rebuilds the kernel and
`StartRefused` is the start that fails. The disk is sound here
(`DiskMayFail = FALSE`): its failures are the gateway's subject, and they end
in journals that do not open.

**GuardService** has both ticket stores in one function from ids to records,
with `batch` telling them apart where their rules differ (`Spendable`,
`AfterUse`). The policy's verdict is an input. Its clients are modelled where
they matter: a permission request evaluates, registers a channel, waits without
the mutex and spends under a new lock; the installer waits with the mutex held;
executors present any id with any arguments; the human answers with a nonce that
may be stale. `spent` and `allowed` are history.

**Scheduler**. `mem` is the service under its mutex, `disk` its file, `work` how
far an occurrence has got into the Work journal (nothing, a Work, a bound Run),
`disp` where each dispatching thread is. A command or a method of the relay is
one step, in which memory and file both change, neither does, or (`Call`, the
second write of `handle`) the file alone. A dispatcher collects, rechecks,
dispatches without the mutex, and advances, with the time it read at the start.
`Restart` makes memory of the file. Time is counted in ticks of a schedule.

**OccurrenceAdmission** is the abstract specification: an occurrence is admitted
once, may begin a Run when admitted, may be put in doubt, and is settled once, by
a cancellation or by a receipt for a Run that exists. `Scheduler!Implements`
states the refinement with `state <- mem.occ` and `ran` the occurrences with a
bound Run.

**LeaseCoordinator**. `lease`, `fence` and `gen` are memory; `rlease`, `rfence` and
`rgen` are what `apply_fact` would make of the facts stored so far. Each operation
applies its facts under the rules of the rebuild, which are not those of the
operation. `unsaved` marks the resources whose fence moved without a fact that a
rebuild takes.

**Sidecar**. Children are numbered by spawn; each has a link, a relay and a
gateway. The supervisor's loop, the child, the link's reader, a caller (who holds
the relay's lock over its request), the thread that builds relays, and turns of
the shell are separate actors. The journal is the sequence numbers of its rows.

**Delegation** extends the gateway: a spawn is `Ask` (limits read, lock released),
then five rows with the lock held; a close is `Finish` and `Terminate`. Between any
two rows the disk may fail or the host stop. `Restart` needs both `open` and the
kernel's recovery.

**AcpSession**. `lock` is the session's mutex, `caller` where each thread is that
prompts or makes another request (authentication, configuration), `stopper` where
each stop is. A stop is four steps, as in `AcpCancelHandle::request`: find the
handle, read the turn and raise the flag under `gate`, take `write_gate` and look
again, write. `pipe` and `out` are the agent's stdin and stdout, both bounded, so a
writer waits for room; `parked` is what another request read and kept for the next
prompt. The agent is external: it answers, asks, notes, sends bytes that are no
frame, stays silent or exits, but answers each request once. A turn's generation is
the id of its prompt. `asked` and `ended` are history.

### What the models abstract

Identifiers, argument hashes and nonces are model values or small numbers;
metadata, digests, receipts, audit lines, logs and card texts are left out. The
checkpoint file of the kernel is a cache that is only compared with what recovery
rebuilt, and is left out. The header of each module lists what it leaves out and why.
What concerns the journal, all in one place:

- Reviews (`resolve_review_with`, `work_gateway.rs:5806-5836`) and the compatibility
  door `record_approval` (4882) write an ApprovalResolved row without a Run. Its id is
  that of a review; a row with the id of a ticket that is pending is not modelled.
- ExecutionHost has one agent and one provider session, so the early returns of
  `prepare_acp_turn` on a binding of another agent or provider do not occur, and only
  prompts move a binding: the commands `work/binding_create` and
  `work/binding_transition` are left out. A Work has a Session and a Run the context
  of its Work. Recovery has refusals of its own for rows that say otherwise, which
  `RestartCauses` is not about: an active binding without a provider session, which
  `work/binding_transition` can leave (`execution.rs:828-835`), a Run without a Session
  (849), a context that contradicts the Work's provenance (497-523).
- A task is delegated once, a Run id of a delegation is used by nothing else, and a
  client of the steering checkpoint names no kernel id that no row has.
- ExecutionHost has the relay's delegations only. The calls of an agent's tools, the
  limits, the child's agent session and a failing disk are in Delegation, which leaves
  out the requests that open, attach, steer or end an agent session without a
  delegation (`work/agent_spawn` 3747, `work/agent_attach` 3808,
  `work/agent_terminate`): they create no child, and `SessionBacked` is about the
  sessions of children. `reclaim_orphaned_subagents` has no caller.
- AcpSession has one branch for a request that is given up; the refusal of a reply that
  is too large is part of it.

## 3. What is checked

### Runs that pass

| Run | Instance | States | Shows |
|---|---|---|---|
| `gateway_disk` | 1 Work, Run, ticket, effect; failing disk | 232 k | `PendingGate`, `RefusalCauses`, `ReplayAgrees`, `TerminalIsFinal`, with write failures, torn rows and crashes anywhere |
| `gateway_effects` | parent and child Work with 2 effects each | 34 k | `UncertaintyIsKept`: only an operation on an effect settles it, across archive and re-creation |
| `host_prompts` | 2 prompts and the relay on 1 Run, ticket, effect; 1 prompt or the relay with delegations, archives and steering on 2 Works; fair | 204 k | `DeniedNeverRuns`, `KernelFollowsJournal`, `GateIsBacked`, `RestartCauses`; `RelayAnswers`: every request is answered |
| `guard_tickets` | 2 tickets, 2 argument hashes, 1 request, installer, executors; fair | 609 k | `SpentOnce`, `SpendIsBacked`, `DecidedIsFrozen`; `DecisionArrives`: no wake-up is lost |
| `scheduler_occurrences` | 1 job with ticks and deliveries, 1 dispatcher, failing file; fair | 46 k | `OpenHasJob`, `FileKnowsWork`, `Implements` (the refinement), `PendingSettles` |
| `leases_holders` | 2 leases on 1 resource, 2 actors, clock of 2 | 1.46 M | `OneWriter`, `LossIsFinal`, `FenceGrows` |
| `sidecar_supervise` | 2 children, 1 call, 1 turn; fair | 656 k | `OneChild`, `NoOrphanCall`, `WakeIsServed`, `LiveChildServed` |
| `delegation_callers` | 2 callers, 3 tasks, limits 1 and 2, failing disk | 908 k | `CapOvershoot`, `SessionBacked`, `LeakNeedsFault` |
| `acp_turns` | 1 caller, 1 stop, shutdown, 2 requests, an agent that may do anything; fair | 262 k | `StopsOnlyItsTurn`, `NothingLeftBehind`, `AsksAreKept`; `StopEndsTurn`: a stop ends the turn it saw |

`PendingGate`: a pending request parks its Run and is the only one of its Work.
`RefusalCauses`: a journal is refused only for a terminal first row, a row after
a failed sync, a torn row, or a row of a Run that a steering checkpoint moved for the
reader alone; so the writer's check is never more generous than
the reader's in any other way. `ReplayAgrees`: a restart rebuilds what was
acknowledged, except that Ready is no row, Verifying is written as started,
the row of a paused Run has no field for the reason of its wait, and a Run and a Work
that were steered read back as the checkpoint left them.
`DeniedNeverRuns`: a Run that a human refused never runs, in this process or the
next. `KernelFollowsJournal`: the kernel knows every bound Run of a Work that was never
archived, but those a delegation bound, also after a restart; and of no Run, delegated or
archived too, does it report an end the journal lacks. `GateIsBacked`: a gate of the
kernel has a durable request. `RestartCauses`: a start that is refused for what the rows
say of Works, Runs, approvals and effects has one of the listed causes, all of which are
reachable and described below; the other refusals of `open` and of the
kernel's recovery (a reference to a Work that was never archived, a broken sequence, an
end without a start of a Run that steering did not bring into being, a
Work that shows another state than its Run's) are unreachable on a sound disk.
`FileKnowsWork`: whichever write fails and wherever the host stops, the file knows
every occurrence that has a Work, and advances none without its Run.
`OpenHasJob`: an open occurrence has its automation, in memory and in the file.
`LossIsFinal`: a lease that cannot act can never act again. `FenceGrows`: fences
never go back, but where the facts of an eviction were dropped.
`NoOrphanCall`: whoever waits is registered with a reader that runs, unless that
reader gave up on a frame. `CapOvershoot`: the limits on children are passed by at
most the callers there are, less one. `SessionBacked`: a session belongs to a
child whose Run has started and is durable. `LeakNeedsFault`: a session outlives
its child only when the append of its own termination fails.
`StopsOnlyItsTurn`: a turn ends as cancelled, or as of unknown outcome, only if a stop
saw that turn as the active one. `NothingLeftBehind`: in a session that is free and
can be used no earlier request is on its way, being served or answered; this is why
giving up a request must quarantine the session. `AsksAreKept`: a request of the agent
is on its way, parked, being decided or replied to, as long as the session is good.
`StopEndsTurn`: whatever the agent does or fails to do, a turn that a stop saw ends,
unless the agent leaves its stdin full for ever.

Every property has a mutant: a small change to one mapped definition, defined
just before it, under which TLC finds the property violated.

### Bounds

Only identifiers are bounded in the gateway and the host: their state is finite
because rows are not stored, a Run id is used for one Run and an effect id for
one effect of a Work, and every other loop (archive and create again, crash and
open, wait and resume, ask and resolve) is unbounded. In `gateway_disk` memory goes on
behind a row that no reader accepts with Runs and approvals and not with effects
(`EffectsBehindBrokenRow`). `HostBound` has three parts: two prompts and the relay on one
Run, which is enough for every two-actor race on it; one prompt and the relay with one
delegation, archive or steered Run beside; and a second Work and Run with two of those,
for a child and its parent, an archived parent, and an id under two Works.
In GuardService two tickets are one of each store, time is bounded by `MaxTime` and extensions by `MaxNonce`; a lifetime of one step and a
clock of three are enough for a ticket to be minted, expire, be extended past its
first expiry and expire again. In the scheduler one generation, one tick and
one delivery key give an occurrence of each kind that meets every other action;
`SchedulerProofs` covers any number of jobs, keys, dispatchers and ticks. Two leases
are enough for any conflict and any takeover; a clock of two and a fence of four
let each expire, be evicted and be issued again. Two children are enough for every
race between the old and the new one, and the breaker opens at two; `MaxFrames`,
`MaxCall` and `MaxRows` bound the pipe, the requests and the journal. In Delegation
two callers pass a limit of one at a time, and three tasks pass a limit of two in
all. In AcpSession two requests are enough for a stop, or an answer, of the first to
meet the second; a pipe of two lets a cancel queue behind a prompt and fill the
pipe; one parked frame fills that queue. The proofs cover any number of each. Symmetry
is used in safety runs only, over identifiers that are only compared.
`CHECK_DEADLOCK FALSE` stands where a bound on a counter, or a supervisor that has
ended, really stops the system.

### Fairness

`FairHostSpec` has strong fairness of the relay's next step and weak fairness of
a thread inside its critical section. The mutexes are not held across waits for
users or agents, so each is free again and again, and the relay's thread waits
for them in a loop of its own; strong fairness says that prompts, which users
type, do not starve it. `FairSpec` of the Guard has weak fairness of each waiting
thread (its loop wakes every 250 ms and on an answer), of the installer, whose
wait has a timeout, and of the clock. Nobody is assumed to ask, answer or cancel.

`FairSchedSpec`: the timer's thread starts a pass again and again and carries it on
(weak fairness of each step); a write of the file that is tried in pass after pass
succeeds at some point (strong fairness of writing a doubt), since without it
nothing can be recorded at all; and restarts end. Nothing is assumed of commands,
deliveries or the relay.

`FairSidecarSpec`: the threads of the shell run (the supervisor's loop, the link
thread, the reader, a caller whose wait has a timeout, a turn whose wait has one).
The relay's lock is a plain mutex without a queue, so weak fairness of publishing
the new relay is justified by the bound on calls, after which the lock stays free.
The child owes nothing: it may stay silent, exit or send anything.

`FairAcpSpec`: the threads that hold the mutex run on. Writes have strong fairness,
since stops write into the same pipe and each releases it; so has the end of the
grace, since the transport looks at the deadline at every frame and every 25 ms and an
agent that chatters does not move it. The permission callback looks at the flag
every 250 ms (weak fairness of its decision while a stop is on record). The agent and
the human owe nothing.

### Runs that show a disagreement

Each of these checks one statement of the repository's documents or comments,
quoted in `PROJECT.json`, against what the code does.

| Run | Statement | What TLC shows |
|---|---|---|
| `guard_install` | block until the user answers | the wait holds the mutex the answer needs |
| `sidecar_journal` | each durable store has exactly one writer | a turn that took the old relay's gateway writes after the new one was opened: two rows get one number, and the journal does not open |
| `delegation_close` | runs resume after crash and restart | a child whose Run never started is closed: the terminal row is durable before it is refused, and the journal does not open |

### Other behaviour to know of

The models contain these behaviours too; no run is spent on each of them.

- The exceptions of `RefusalCauses` are all reachable. *Terminal first
  row*: `bind_execution` puts a Run into Ready in memory only, so cancelling it
  before it starts writes a row that replay refuses (`work_gateway.rs:1868`;
  `ARCH/11-WORK.md:58`: "`cancelled` stays cancelled"). *Sequence*: when a sync
  fails after the write, the row is in the file and its number is used again
  (`work_gateway.rs:4655`; the comment at 4622 says that callers can go on).
  *Torn*: `open` does not tolerate a partial last line (`work_gateway.rs:1293`).
  *Steered*: see the next point.
- `apply_steering_checkpoint` (`work_gateway.rs:5881`) appends a RunCheckpointed row
  and leaves memory alone. The Run goes on as Running in memory, while a restart puts
  it into Checkpointed (1440). A row that is legal from Running and not from Checkpointed, a completion
  for one, is acknowledged and then refused at the next start.
  The Run it names need not exist: a client's id becomes the current Run of the Work
  at the next start, and the id of another Work's Run is then under two Works, for
  which recovery refuses (`execution.rs:412-425`).
- The exception of `WaitReadsAs`: a wait whose reason has no state of its own
  (a timer, a dependency) is written as a pause and loses its reason at a restart
  (`work_gateway.rs:617`; `everyaios-types/src/lib.rs:409`: "a wait survives a
  restart with the reason intact").
- `try_archive_work` drops a Work while rows of its effects, approvals and children
  stay; `validate_replayed_graph` then refuses the journal (`work_gateway.rs:3403`
  and 2078-2223; `ARCH/05-INVARIANTS.md:86`: "runs resume after crash/restart"). An
  archived Work that is created again has two WorkCreated rows, which recovery refuses
  (`execution.rs:397`). If the host was restarted between the archive and the creation,
  the Work's current Run is one the kernel does not have, and a turn is refused for that
  and leaves the binding it has just activated active (`acp_cmds.rs:2755`).
- A delegation binds and starts its Run in the journal alone: until a restart the kernel
  does not know it, and the gate refuses a prompt for the child's Work
  (`work_gateway.rs:2531`, `chat.rs:2789`).
- A Run that is bound and has no state row stops the kernel's recovery of the whole
  journal (`execution.rs:739`), so a crash between the two rows keeps the host down.
  This, a Run that ended before it started and a resolution cut in two are causes of
  `RestartCauses`, as are the archives and checkpoints above; the next two points are the
  others.
- The gateway's table lets one wait follow another (`everyaios-types/src/lib.rs:385-395`)
  and the kernel's, which recovery applies to the rows, does not (`execution.rs:2068`).
  The relay moves a Run to WaitingTool, a prompt's turn on the same Run ends and asks
  for WaitingApproval: the journal takes the row, the kernel refuses the transition, and
  the next start fails.
- An end is journalled without a look at the Work's effects, and recovery refuses a
  terminal Run whose Work has an effect in doubt (`execution.rs:763`): a prompt that
  ends while the relay's tool is between its attempted and its observed row leaves, if
  the host stops there, a journal that no later start accepts.
- The handle is released before the outcome of its turn is recorded, so a late
  outcome can end the Run in the next prompt's turn (`acp_cmds.rs:3334`; the
  comment at 3092: "Serialize this handle's lifecycle and prompt.").
- The gate before a prompt is checked before the wait for the handle and not
  again, so a prompt can resume a Run that was paused meanwhile
  (`acp_cmds.rs:3084`, `chat.rs:2786`).
- A prompt between the relay's approval row and the kernel's record of it can
  move the kernel to Failed, and leave a durable request the kernel does not
  represent (`chat.rs:1867-2004`, `acp_cmds.rs:2797`, `execution.rs:990`).
- After a completed turn the gate refuses the next prompt, because the Run is
  terminal and its binding still active (`chat.rs:2838`, `acp_cmds.rs:2749`).
- A permission request goes on waiting for a ticket that has expired
  (`acp_cmds.rs:3289`, `ARCH/12-TRUST.md:60`).
- A batch ticket rejected for a wrong change set is spent by a later call with the
  right one (`batch.rs:333`; `ticket.rs:252-259` refuses this).


Scheduler:

- `cancel_occurrence` says that "A later scheduler tick can admit a new scheduled
  occurrence" (`scheduler_service.rs:2009`). A pass with an old clock, or an edit of
  the trigger, can set the next time to one whose occurrence is settled; `due`
  leaves it out and nothing moves the time on (`scheduler_service.rs:1939`).
- The policy Skip drops ticks that are on time too. An occurrence cancelled between
  the recheck and the dispatch still gets a Work (`scheduler_fire.rs:457`). What is
  pending is dispatched although its automation was paused after the admission.
- `handle` writes the file twice, so it can be one operation ahead of memory although
  the caller was told that the operation failed (`scheduler_service.rs:2314`).
- `bound_agent` waits up to ten seconds with the relay's lock held
  (`scheduler_fire.rs:184`), which delays the publication of a new relay.

Leases:

- Fences are "never reused" (`everyaios-types/src/workbench.rs:447`). A takeover that
  is refused at its end drops the facts of its evictions (`workbench.rs:856-894`), and
  the fact of a reclaim can be refused by the rebuild: after a restart a fence may be
  issued again. This is the exception of `FenceGrows`.
- Leases in doubt do not count as holders for `acquire` (`workbench.rs:381`). Revoking
  a lease that is revoked already moves the fence again and cuts off the present
  holder (`workbench.rs:814`). A released lease is rebuilt as uncertain.

Sidecar:

- The reader of the old link is not joined, so it may stamp the clock of the new
  child (`supervisor.rs:166`). A resume flag that was set and not consumed causes one
  respawn that no turn asked for. The first turn after an idle exit may use the old
  relay (`lib.rs:195-197`). A frame over the limit ends the reader while the child
  lives: this is the exception of `NoOrphanCall`.
- `scheduler.json` and `tasks.json` are opened anew at a respawn as the journal is.

Delegation:

- The limits are checked under one lock and used under another (`chat.rs:607`), so
  they can be passed (`ARCH/04-DECISIONS.md:192`: "Core-enforced outer bounds the
  running agent cannot exceed"); `CapOvershoot` says by how much. Two concurrent
  spawns of one task both succeed.
- A spawn that fails half-way leaves its child; a retry is refused as a duplicate and
  the slot stays taken until someone closes the child. `reclaim_orphaned_subagents`
  and `heartbeat_subagent` have no caller outside tests.
- Closing a child after a restart reports "unknown agent session" although the child
  is closed. "Idempotent on an already-terminal child" (`work_gateway.rs:2575`) does
  not hold when the last append of the first close failed: its session stays.

Agent session:

- A stop between `reset_cancellation` and `begin_turn` reports success and is dropped:
  `begin_turn` clears the flag and the prompt runs in full (`acp_cmds.rs:3111`,
  `client.rs:364`; the comment at 2099 says "Record the local request for the next
  fenced turn").
- `acp_shutdown` takes the handle out of the registry and then waits for the session's
  mutex (`acp_cmds.rs:3666-3672`). While a prompt waits for a silent agent the shutdown
  waits too, and `acp_cancel` no longer finds the handle, so nothing ends the turn
  (`client.rs:2125` says that the shutdown "keeps this method bounded even when the
  agent is unresponsive").
- A stop between `begin_turn` and the write of the prompt reaches the agent before the
  prompt and is nothing to it; the agent is killed when the grace ends.
- A prompt that is blocked writing to an agent that does not read cannot be stopped;
  this is the exception of `StopEndsTurn`. A request other than a prompt has no time
  limit and no stop: a silent agent holds the mutex with it.

## 4. What is proved

All theorems hold for every value of the constants under the named assumptions of
the modules (`GatewayConstants`, `HostConstants`, `GuardConstants`, `SchedulerConstants`,
`LeaseConstants`, `SidecarConstants`, `DelegationConstants`, `AcpConstants`: null values are not
ids, bounds are naturals, and in Delegation that Works and callers are finite so that
they can be counted). There is one proof module per component, and in each an
inductive invariant with one step per action.

`WorkGatewayProofs`: `TypeCorrect`, `ApprovalGates`, `AcknowledgedRowsReplay`,
`RestartLosesNothing`, `OutcomesAreFinal`, `UncertainEffectsStay`. None of the
properties is inductive alone. `PendingGate` speaks of `live`, but `Open` replaces `live` by `replay`, so
the same must hold of `replay`; and it needs to know which Work a Run belongs
to. `Sound(p)` says this of a projection: its pending requests park their Runs,
are unique per Work, their Runs have an owner, and the current Run of a Work
belongs to it. The inductive invariant is

    IInv == TypeOK /\ Sound(live) /\ Sound(replay) /\ ResolvingKnown
            /\ RefusalCauses /\ ReplayAgrees

`RefusalCauses` and `ReplayAgrees` carry each other: a row that the writer
allowed is legal for the reader because the reader's projection agrees up to
`ReadsAs` (lemma `ReaderAllows`), and the projections still agree because the row
was legal (lemma `AgreesSetRun`; `EventWaitReads` is its part about waits). For a steered
Run the reader may refuse, and then nothing is claimed of what follows; or it accepts,
and what `SteeredReadsAs` allows is what the two tables leave for a Run that is
Checkpointed for one of them. The proof has one lemma per operator on
projections, one per kind of append, and one step per action.
`OutcomesAreFinal` and `UncertainEffectsStay` are action properties: the first follows
from the same invariant, the second from what each action does to the effects of one
Work, and from `ReplayAgrees`: the writer knew the effect the row settles as unsettled.

`ExecutionHostProofs`: `HostImplementsGateway`, `HostKeepsPromises`, `HostTypeCorrect`,
`RefusalsAreFinal`, `KernelFollows`, `GatesAreBacked`, `RestartsAreExplained`,
`IllegalRowsAreTheTables`, for any number of Works, Runs, tickets, effects and prompts. Every step of the relay, of a
prompt and of a restart is, for the gateway, one of its operations or nothing
(`HostOperates`), so the host implements the gateway's specification and inherits what
is proved of it; the proofs go on from there with `IInv`. The invariant is

    HInv == IInv /\ TInv /\ KInv

`TInv` has the types, what each
step of a request or a prompt has made sure of its fields, and that nothing volatile
survives a crash. `KInv` relates the four places that know about a Run. `Placed` says
that the Work of a Run is known or archived. `KernelBacked`
(a bound Run has a phase, unless a delegation bound it or its Work was archived; an end
in the kernel is one in memory's projection) gives
`KernelFollows`. It needs `RelayBacked`, what is still true between two locks of the
relay: the Run it is binding is Ready and has no owner, the end it is about to apply is
in the journal, the ticket it resolves is the one the kernel waits for, whatever the
prompts did meanwhile. `DeniedNeverRuns` is not inductive because a restart builds the
kernel from the rows: `DenialKnown` says that the rows of a refused Run hold the refusal
as a promise or as a state, and `PledgeKnown` that an open promise is the relay's
resolution under way or one a crash cut in two, which recovery refuses.

`RestartsAreExplained` needs two more invariants. `RowsInv`: no row is refused for what
the disk did, no reference of the rows dangles but to an archived Work, and a Work that
was never archived shows the state of its
current Run. `StartInv`: the first row of a Run is its start or a steering checkpoint. To
keep it one has to know
that a bound Run without a row is Ready, or unknown to the kernel, or Running under both
locks of the prompt that is about to write the row (`Unstarted`), that what the relay checked of such a Run
before its unlock still holds at its row (`RelayKnows`), and that only one prompt has the
locks and one with a turn has a Run that has started (`PromptKnows`). Both were checked
with TLC as invariants of small instances, with two Runs, before they were proved.
`IllegalRowsAreTheTables` says of one of the causes where it comes from: a row that
recovery calls illegal is one the gateway's table has and the kernel's has not, since
`PledgeKnown` leaves no row that could break a resolution's promise; this holds of the
rows of steering checkpoints and of delegated Runs too.

`GuardServiceProofs`: `GuardTypeCorrect`, `TicketsAreSingleUse`,
`SpentTicketsAreBacked`, `DecisionsAreFrozen`. `SpentOnce` is not inductive
because the batch store would accept a ticket in state "expired", and a spent
ticket becomes "expired" when it is presented late. `ClockBars` (an expired
ticket's time has passed) closes that way, and needs that only pending tickets
are extended. `SpentIsClosed` says a spent ticket is "used" or "expired", and
`BackedStates` that a ticket in a spendable state was allowed or answered with a
yes. One lemma (`EvolvesKeeps`) reduces each action to what it does to one ticket.

`SchedulerProofs`: `SchedTypeCorrect`, `OpenOccurrencesHaveJobs`,
`FileAlwaysKnowsWork`, `SchedulerImplements`. The invariant is that the file is what
memory is, or one legal operation ahead of it (`Moves(mem.occ, disk.occ, Ran)`);
that both registries are sound and know the Works; and that a dispatcher works on a
known occurrence and advances it only with a bound Run. The first part is what
makes a restart, where memory becomes the file, a step or a stutter of
OccurrenceAdmission; without it `Restart` could undo an admission.

`LeaseCoordinatorProofs`: `LeaseTypeCorrect`, `WritersAreAlone`,
`LostAuthorityIsLost`, `FencesGrow`. `Proper` says that no lease carries a fence ahead
of its resource's, in memory or rebuilt; that a rebuilt record has no holder and has
ended only if the lease has; and that a rebuilt fence is the fence or behind it at
an `unsaved` resource. The two action properties follow from what each operation
does to one lease and to one fence.

`SidecarProofs`: `SidecarTypeCorrect`, `AtMostOneChild`, `CallsFailClosed`. `OneChild`
needs that every path to a spawn has a dead child; `NoOrphanCall` needs that pipes
are handed over once and in order (`Queued`), that a reader which met the end of its
stream has a dead child (`EndedIsDead`), and that a request is registered with the
reader that will drain it (`CallKept`).

`DelegationProofs`: `DelegationTypeCorrect`, `LimitsArePassedByCallersOnly`,
`SessionsAreBacked`, `OnlyAFaultLeaksASession`. The limits speak of memory, but a restart counts what the
journal has, and a failed write may leave a row memory lacks; so the invariant has
the limits of the journal too (`Within(replay, 0)`), that memory and journal agree
while all rows are acknowledged (`Alike`), that a child which shows an end has one
(`ShownHasEnded`), and the callers that were told yes counted in. That only a failed
append leaves a session behind is an action property: each action is shown to end the
child and its session together or to have the caller that will end it.

`AcpSessionProofs`: `AcpTypeCorrect`, `StopIsAimed`, `SessionIsClean`, `AskIsServed`,
for any number of callers, stops, requests and frames. `CallerInv` ties the active
turn to the prompt of the caller that holds the mutex. `Fence` says that a session
with an active turn is not given up, that a raised flag means a stop saw the turn, and
that while a stop holds `write_gate` the active turn is its target or none, because
no turn can begin. `Owed` says that a session that is not given up owes one answer at
most, to the holder: it is in the pipe, with the agent, or on its way back, in one of
them only. `Aimed` says that what a cancel in the pipe can hit (the prompts
the agent has, and those before the cancel) was stopped by somebody.
`NothingLeftBehind` is `Owed` with nobody holding the mutex. Lemmas say what a caller
does to the state (`GivesUp`, `GoesOn`, `Moves`), and each action is one of them.

### Only model-checked

Liveness (`RelayAnswers`, `DecisionArrives`, `PendingSettles`, `WakeIsServed`,
`LiveChildServed`, `StopEndsTurn`) and `WaitCanBeAnswered`, which is about ENABLED, are outside the
prover's reach. Every invariant and every action property of a passing run is proved;
the three statements of section 3 that fail have counterexamples.

## 5. Plan, and what is not modelled

Done, in the order of importance: the lifecycle and the gateway, the host over it,
the Guard, the scheduler with its abstract specification, the leases, the sidecar,
delegation, the agent session; a proof module for each. What would come next:

1. Stronger statements of what is proved: under which calls the limits of delegation
   are exact, and which of the causes of `RestartCauses` each caller can produce.
2. The reclaim of orphaned children and their heartbeats, once the code calls them; the
   requests about agent sessions and bindings that no delegation or prompt makes.
3. Turn snapshots (capture, settle, rollback) and the merge of sync bundles.

Not modelled, and why:

- *Run authority* (`work_gateway.rs:5292-5350`): one critical section per operation on
  a map in memory; nothing is journalled and no write asks for a token. Tokens start
  at 1 again after a restart, so two holders can have the same one.
- *Task ledger*: one critical section per operation. Its sequence restarts at 1
  (`task_ledger.rs:205`), so ids repeat after a restart; `persist` errors are ignored
  although the header says "a failed save is an error, never a silent drop"; `retry`
  does not ask whether the task has ended; `tasks_sweep` works on a second ledger over
  the same file. These are visible in a sequential reading and need no model.
- *Governor*: its queue is constructed by its tests only.
- Components that are I/O, formats, ranking, matching of text, or presentation (the
  larger part of the repository by lines: tools, clients of external services,
  browser and desktop control, search, memory, catalog, office, user interface);
  the reasons are under "components" in `PROJECT.json`.

## 6. Running

    tlc -workers 2 -config MCWorkGateway_disk.cfg MCWorkGateway
    tlapm WorkGatewayProofs.tla

The largest runs (`host_prompts`, `sidecar_supervise`,
`delegation_callers`, `guard_tickets`) take one to two minutes; the rest take seconds
to a minute. Each proof module takes a few minutes from nothing.
