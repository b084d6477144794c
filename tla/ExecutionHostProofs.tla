------------------------ MODULE ExecutionHostProofs ------------------------
(***************************************************************************)
(* Proofs about the host, for every set of Works, Runs, tickets, effects   *)
(* and prompts.                                                            *)
(*                                                                         *)
(* The argument has two halves.  Every step of the host is, for the        *)
(* gateway, a step of its own specification or none at all, so what is     *)
(* proved of the gateway holds in the host.  On top of that, HInv relates  *)
(* what the four places that know about a Run say of it: the kernel, the   *)
(* live projection, the rows, and the request the relay is serving between *)
(* two locks.                                                              *)
(***************************************************************************)
EXTENDS ExecutionHost, WorkGatewayProofs

\* The shape of the kernel's, the relay's and the prompts' state.
KernelTypes ==
    /\ phase \in [Runs -> OptStates]
    /\ asks \in [Runs -> Tickets \cup {NoTicket}]

RelayRecord ==
    [step : {"idle", "bind", "journal", "apply", "ask", "asked", "resolve",
             "finish", "resolved", "observe", "verify", "child_bind", "child_start"},
     work : Works \cup {NoWork}, run : Runs \cup {NoRun},
     state : RelayStates \cup {"none"}, item : Tickets \cup Effects \cup {NoTicket}]

PromptShape ==
    [step : {"idle", "queued", "prepare", "start", "turn", "answered", "verified"},
     work : Works \cup {NoWork}, run : Runs \cup {NoRun},
     outcome : Outcomes \cup {"none"}, activated : BOOLEAN]

TraceRecord ==
    [started : SUBSET Runs,
     pledge : [Runs -> {"none", "running", "failed"}], illegal : SUBSET Runs,
     archived : SUBSET Works, id : [Runs -> Runs], delegated : SUBSET (Works \X Runs)]

TraceTypes == trace \in TraceRecord /\ denied \subseteq Runs

\* What the steps of a request have made sure of its fields ...
RelayFields ==
    /\ relay.step # "idle" => relay.work \in Works
    /\ relay.step \notin {"idle", "observe", "verify"} => relay.run \in Runs
    /\ relay.step \in {"journal", "apply"} => relay.state \in RelayStates
    /\ relay.step \in {"ask", "asked", "resolve", "finish", "resolved"} => relay.item \in Tickets
    /\ relay.step \in {"resolve", "finish", "resolved"} => relay.state \in {"running", "failed"}
    /\ relay.step \in {"observe", "verify"} => relay.item \in Effects

\* ... and of a prompt's.
PromptFields ==
    \A p \in Prompts :
        /\ prompt[p].step # "idle" => prompt[p].work \in Works
        /\ prompt[p].step \in {"start", "turn", "answered", "verified"} => prompt[p].run \in Runs
        /\ prompt[p].step = "answered" => prompt[p].outcome \in Outcomes

RelayTypes == relay \in RelayRecord /\ RelayFields
PromptTypes == prompt \in [Prompts -> PromptShape] /\ PromptFields /\ bound \subseteq Works

\* Nothing volatile survives a crash.
DownIsEmpty == ~up => relay = Idle /\ phase = [r \in Runs |-> "none"]

\* The rows know the Work of a Run, or have archived it.
Placed == \A r \in Runs : replay.owner[r] \in replay.works \cup trace.archived \cup {NoWork}

\* A bound Run has a phase, unless a delegation bound it or its Work is archived;
\* one with a phase has a state; and an end in the kernel is one in the live
\* projection.
KernelBacked ==
    \A r \in Runs :
        /\ live.owner[r] \notin trace.archived \cup {NoWork} /\ ~Delegated(r) => phase[r] # "none"
        /\ live.owner[r] # NoWork /\ phase[r] # "none" => live.run[r] # "none"
        /\ Delegated(r) /\ phase[r] # "none" => live.owner[r] # NoWork
        /\ phase[r] \in {"completed", "cancelled"} => live.run[r] = phase[r]

\* What is true between the locks of a request.
RelayBacked ==
    /\ relay.step = "bind" => phase[relay.run] = "ready" /\ live.owner[relay.run] = NoWork
    /\ relay.step = "journal" => phase[relay.run] # "none"
    /\ relay.step = "apply" /\ relay.state \in TerminalStates => live.run[relay.run] = relay.state
    /\ relay.step = "asked" => <<relay.item, relay.run>> \in live.pending
    /\ relay.step \in {"resolve", "finish", "resolved"} => asks[relay.run] = relay.item
    /\ relay.step = "child_bind" => Delegated(relay.run)
    /\ relay.step = "child_start" => live.run[relay.run] # "none"

\* A promise in the rows is the resolution under way, or one that a crash cut
\* in two.
PledgeKnown ==
    \A r \in Runs : trace.pledge[r] # "none" =>
        /\ up => resolving.run = r /\ resolving.next = trace.pledge[r]
        /\ err = "none" => replay.owner[r] \in replay.works

\* A refusal is on its way, or done, in the rows and in the kernel.
DenialKnown ==
    \A r \in denied :
        /\ err = "none" => /\ trace.pledge[r] = "failed" \/ replay.run[r] = "failed"
                           /\ replay.owner[r] # NoWork
        /\ up => /\ live.owner[r] # NoWork
                 /\ \/ phase[r] \in {"failed", "none"}
                    \/ /\ relay.step \in {"finish", "resolved"}
                       /\ relay.run = r /\ relay.state = "failed"

\* What relates the kernel, the journal, the relay and the rows.
KInv == Placed /\ KernelBacked /\ RelayBacked /\ GateIsBacked /\ PledgeKnown /\ DenialKnown

TInv == KernelTypes /\ RelayTypes /\ PromptTypes /\ TraceTypes /\ DownIsEmpty

HInv == IInv /\ TInv /\ KInv

\* No row tells the state of r, in a journal that opens.
Rowless(r) == err = "none" /\ replay.run[r] = "none"

\* On a disk that works no row is refused for what the disk did.
DiskWorks == ~unacked /\ err \notin {"sequence", "torn"}

\* No reference of the rows dangles, but to an archived Work.
GraphKept ==
    \A w \in Works :
        /\ w \in replay.works
           => replay.parent[w] \in replay.works \cup trace.archived \cup {NoWork}
        /\ \A e \in Effects :
            replay.effect[w][e] # "absent" => w \in replay.works \cup trace.archived

\* A Work shows the state of its Run.
ShownKept ==
    \A w \in Works \ trace.archived :
        replay.current[w] # NoRun /\ replay.run[replay.current[w]] # "none"
        => replay.shown[w] = replay.run[replay.current[w]]

\* A Run with a state has a Work, and its first row is its start or a steering
\* checkpoint.
StartsFirst ==
    \A r \in Runs : replay.run[r] # "none" =>
        /\ replay.owner[r] # NoWork
        /\ r \in trace.started \/ <<replay.owner[r], r>> \in steered

\* A bound Run without a row is Ready or unknown to the kernel, or about to start
\* under both locks.
Unstarted ==
    \A r \in Runs : up /\ Rowless(r) /\ live.owner[r] # NoWork =>
        \/ phase[r] \in {"ready", "none"}
        \/ /\ phase[r] = "running"
           /\ \E p \in Prompts : prompt[p].step = "start" /\ prompt[p].run = r

\* What the relay has made sure of the Run it moves.
RelayKnows ==
    /\ relay.step = "journal" /\ Rowless(relay.run) /\ live.owner[relay.run] # NoWork
        => relay.state \in {"running", "cancelled"}
    /\ relay.step = "apply" => ~Rowless(relay.run)

\* One prompt has the locks, and one with a turn has a Run that has started.
PromptKnows ==
    /\ \A p \in Prompts :
        prompt[p].step \in {"turn", "answered", "verified"} => ~Rowless(prompt[p].run)
    /\ \A p, q \in Prompts :
        prompt[p].step \in {"prepare", "start"} /\ prompt[q].step \in {"prepare", "start"} => p = q

RowsInv == DiskWorks /\ GraphKept /\ ShownKept
StartInv == StartsFirst /\ Unstarted /\ RelayKnows /\ PromptKnows

-----------------------------------------------------------------------------
(* What the host does to the gateway.                                      *)

\* The operations of the gateway the host calls: an archive, and those that
\* leave every Work in place.
RowOperation ==
    \/ \E w \in Works : CreateWork(w)
    \/ \E w, c \in Works : CreateChildWork(c, w)
    \/ \E w \in Works, r \in Runs : BindExecution(w, r) \/ ApplySteeringCheckpoint(w, r)
    \/ \E w \in Works, r \in Runs, s \in TerminalStates : FinishChildWork(w, r, s)
    \/ \E w \in Works, r \in Runs, s \in RequestedStates : RecordExecutionTransition(w, r, s)
    \/ \E w \in Works, r \in Runs, t \in Tickets :
        \/ RecordPendingApproval(w, r, t)
        \/ \E approved \in BOOLEAN : ResolvePendingApproval(w, r, t, approved)
    \/ FinishResolution
    \/ \E w \in Works, e \in Effects :
        \/ RecordEffectAttempted(w, e)
        \/ \E ok \in BOOLEAN : RecordEffectObserved(w, e, ok) \/ RecordEffectVerified(w, e, ok)
    \/ Crash \/ Open

HostOperation == RowOperation \/ \E w \in Works : ArchiveWork(w)

LEMMA OperationIsNext == HostOperation => Next
BY DEF HostOperation, RowOperation, Next, WorkOps, RunOps, ApprovalOps, EffectOps

\* Every state a caller of the host asks for is one the gateway is asked for.
LEMMA StatesRequested ==
    /\ RelayStates \subseteq RequestedStates
    /\ Outcomes \subseteq RequestedStates
    /\ "running" \in RequestedStates /\ "completed" \in RequestedStates
    /\ RequestedStates \subseteq WorkStates
BY DEF RelayStates, Outcomes, RequestedStates, WorkStates, WaitingStates, TerminalStates

\* A request of the relay, or the next step of one.
LEMMA RelayOperates ==
    ASSUME RelayFields, RelayRequest \/ RelayStep
    PROVE  RowOperation \/ UNCHANGED gatewayVars
<1>1. CASE RelayRequest
  <2>1. ASSUME NEW w \in Works, NEW r \in Runs, NEW s, RelayBegin(w, r) \/ RelayTransition(w, r, s)
        PROVE  UNCHANGED gatewayVars
    BY <2>1 DEF RelayBegin, RelayTransition
  <2>2. ASSUME NEW w \in Works, NEW r \in Runs, NEW t \in Tickets, NEW approved \in BOOLEAN,
               RelayAsk(w, r, t) \/ RelayResolve(w, r, t, approved)
        PROVE  UNCHANGED gatewayVars
    BY <2>2 DEF RelayAsk, RelayResolve
  <2>3. ASSUME NEW w \in Works, RelayCreate(w) \/ \E e \in Effects : RelayCommit(w, e)
        PROVE  RowOperation
    BY <2>3 DEF RelayCreate, RelayCommit, RowOperation
  <2>4. ASSUME NEW w \in Works, NEW c \in Works, NEW r \in Runs, RelaySpawn(w, c, r)
        PROVE  RowOperation
    BY <2>4 DEF RelaySpawn, RowOperation
  <2> QED
    BY <1>1, <2>1, <2>2, <2>3, <2>4 DEF RelayRequest
<1>2. CASE RelayBind
  BY <1>2 DEF RelayBind, RelayRefuses, RelayAt, RelayFields, RowOperation
<1>3. CASE RelayJournal
  BY <1>3, StatesRequested DEF RelayJournal, RelayRefuses, RelayAt, RelayFields, RowOperation
<1>4. CASE RelayApply \/ RelayAskApply \/ RelayResolveApply
  BY <1>4 DEF RelayApply, RelayAskApply, RelayResolveApply
<1>5. CASE RelayAskJournal
  BY <1>5 DEF RelayAskJournal, RelayRefuses, RelayAt, RelayFields, RowOperation
<1>6. CASE RelayResolveJournal
  BY <1>6 DEF RelayResolveJournal, RelayRefuses, RelayAt, RelayFields, RowOperation
<1>7. CASE RelayFinish
  BY <1>7 DEF RelayFinish, RowOperation
<1>8. ASSUME NEW ok \in BOOLEAN, RelayObserve(ok) \/ RelayVerify(ok)
      PROVE  RowOperation \/ UNCHANGED gatewayVars
  BY <1>8 DEF RelayObserve, RelayVerify, RelayRefuses, RelayAt, RelayFields, RowOperation
<1>9. CASE RelayChildBind
  BY <1>9 DEF RelayChildBind, RelayAt, RelayFields, RowOperation
<1>10. CASE RelayChildStart
  BY <1>10, StatesRequested DEF RelayChildStart, RelayAt, RelayFields, RowOperation
<1> QED
  BY <1>1, <1>2, <1>3, <1>4, <1>5, <1>6, <1>7, <1>8, <1>9, <1>10 DEF RelayStep

\* A step of a prompt.
LEMMA PromptOperates ==
    ASSUME PromptFields, live \in Projection, NEW p \in Prompts, PromptStep(p)
    PROVE  RowOperation \/ UNCHANGED gatewayVars
<1>1. ASSUME NEW w, NEW outcome, PromptAdmit(p, w) \/ PromptReuse(p) \/ PromptAnswer(p, outcome)
      PROVE  UNCHANGED gatewayVars
  BY <1>1 DEF PromptAdmit, PromptReuse, PromptAnswer
<1>9. PromptMismatch(p) \/ PromptMissing(p) => UNCHANGED gatewayVars
  BY DEF PromptMismatch, PromptMissing
<1>2. CASE PromptPrepare(p)
  BY <1>2 DEF PromptPrepare, PromptAt, PromptFields, RowOperation
<1>3. CASE PromptResume(p)
  <2> DEFINE w == prompt[p].work
             r == live.current[w]
  <2>1. /\ prompt[p].step = "prepare" /\ r # NoRun
        /\ RecordExecutionTransition(w, r, "running") \/ UNCHANGED gatewayVars
    BY <1>3 DEF PromptResume, PromptAt
  <2>2. w \in Works /\ r \in Runs
    BY <2>1 DEF PromptFields, Projection
  <2> QED
    BY <2>1, <2>2, StatesRequested DEF RowOperation
<1>4. ASSUME NEW r \in Runs, PromptBegin(p, r) PROVE RowOperation \/ UNCHANGED gatewayVars
  BY <1>4 DEF PromptBegin, PromptAt, PromptFields, RowOperation
<1>5. CASE PromptStart(p)
  BY <1>5, StatesRequested DEF PromptStart, PromptAt, PromptFields, RowOperation
<1>6. ASSUME NEW w \in Works, NEW r \in Runs, NEW s \in RequestedStates, NEW ok,
             TransitionAcpRun(w, r, s, ok)
      PROVE  RowOperation \/ UNCHANGED gatewayVars
  BY <1>6 DEF TransitionAcpRun, RowOperation
<1>7. CASE PromptRecord(p)
  <2>1. prompt[p].work \in Works /\ prompt[p].run \in Runs /\ prompt[p].outcome \in RequestedStates
    BY <1>7, StatesRequested DEF PromptRecord, PromptAt, PromptFields
  <2> QED
    BY <1>6, <1>7, <2>1 DEF PromptRecord
<1>8. CASE PromptComplete(p)
  <2>1. prompt[p].work \in Works /\ prompt[p].run \in Runs
    BY <1>8 DEF PromptComplete, PromptAt, PromptFields
  <2> QED
    BY <1>6, <1>8, <2>1, StatesRequested DEF PromptComplete
<1> QED
  BY <1>1, <1>2, <1>3, <1>4, <1>5, <1>7, <1>8, <1>9 DEF PromptStep, PromptLocked

\* A step of the host is an operation of the gateway, or none of its business.
LEMMA HostOperates ==
    ASSUME RelayFields, PromptFields, live \in Projection, [HostNext]_hostVars
    PROVE  \/ RowOperation \/ UNCHANGED gatewayVars
           \/ \E w \in Works : HostArchive(w)
<1>1. CASE HostCrash \/ Start
  BY <1>1 DEF HostCrash, Start, RowOperation
<1>2. CASE StartRefused \/ UNCHANGED hostVars
  BY <1>2 DEF StartRefused, hostVars
<1>3. CASE JournalRequest
  BY <1>3 DEF JournalRequest, CloseChild, HostSteer, RowOperation
<1> QED
  BY <1>1, <1>2, <1>3, RelayOperates, PromptOperates DEF HostNext

-----------------------------------------------------------------------------
(* What an operation of the gateway does to the Runs.                      *)

\* The rows forget no failure, and not whose a Run is.
RowsKeep ==
    /\ err' = "none" => err = "none"
    /\ \A r \in Runs :
        /\ replay.owner[r] # NoWork => replay'.owner[r] = replay.owner[r]
        /\ replay'.owner[r] \in {replay.owner[r]} \cup replay'.works
        /\ replay.run[r] = "failed" => replay'.run[r] = "failed"

\* The live projection takes back no outcome and forgets no state.
LiveKeeps ==
    \A r \in Runs :
        /\ live.run[r] \in TerminalStates => live'.run[r] = live.run[r]
        /\ live.run[r] # "none" => live'.run[r] # "none"

\* An operation that changes no owner and drops no request.
Stays ==
    /\ up' = up /\ resolving' = resolving
    /\ RowsKeep /\ LiveKeeps /\ replay.works \subseteq replay'.works
    /\ live'.owner = live.owner /\ live.pending \subseteq live'.pending

\* append, on a disk that works.
LEMMA RowWritten ==
    ASSUME NEW w, NEW l, NEW p, NEW e, AppendRow(w, l, p, e)
    PROVE  /\ up /\ up' = up /\ resolving = NotResolving /\ w \in live.works /\ live' = l
           /\ unacked' = FALSE
           /\ \/ /\ replay' = p /\ err = "none" /\ err' = "none" /\ ~unacked /\ e = "none"
                 /\ w \in replay.works
              \/ replay' = replay /\ err' # "none"
BY HostConstants DEF AppendRow, Durable, Acknowledge, KnownWork

\* What is proved of the gateway alone.
LEMMA OperationKeeps ==
    ASSUME IInv, HostOperation
    PROVE  /\ IInv'
           /\ KeepsOutcomes(replay, replay')
           /\ up /\ up' => KeepsOutcomes(live, live')
BY OperationIsNext, StepKeepsOutcomes, NextIInv

\* The facts of IInv by name.
LEMMA IFacts ==
    ASSUME IInv
    PROVE  /\ live \in Projection /\ replay \in Projection
           /\ live.owner \in [Runs -> Works \cup {NoWork}]
           /\ live.run \in [Runs -> OptStates] /\ replay.run \in [Runs -> OptStates]
           /\ live.current \in [Works -> Runs \cup {NoRun}]
           /\ replay.owner \in [Runs -> Works \cup {NoWork}]
           /\ live.works \subseteq Works /\ replay.works \subseteq Works
           /\ (up /\ ~unacked /\ err = "none") => Agrees(live, replay, steered)
           /\ Sound(live) /\ Sound(replay)
BY DEF IInv, TypeOK, Projection, ReplayAgrees

\* A row that moves no Run: a Work is created, an effect or a request recorded.
LEMMA StillRow ==
    ASSUME IInv, HostOperation, up, up' = up, resolving' = resolving,
           live'.owner = live.owner, live'.run = live.run, live.pending \subseteq live'.pending,
           replay'.owner = replay.owner, replay'.run = replay.run,
           replay.works \subseteq replay'.works,
           err' = "none" => err = "none"
    PROVE  IInv' /\ Stays
<1>1. IInv'
  BY OperationKeeps
<1>2. RowsKeep /\ LiveKeeps
  BY DEF RowsKeep, LiveKeeps
<1> QED
  BY <1>1, <1>2 DEF Stays

\* A Work is created, with or without a parent.
LEMMA CreateOperation ==
    ASSUME IInv, HostOperation, NEW w \in Works, NEW parent \in Works \cup {NoWork},
           AppendCreated(w, parent)
    PROVE  IInv' /\ Stays /\ up
<1>1. /\ up /\ up' = up /\ resolving' = resolving
      /\ live' = AddWork(live, w, parent)
      /\ replay' = replay \/ replay' = AddWork(replay, w, parent)
      /\ err' = "none" => err = "none"
  BY HostConstants DEF AppendCreated, Durable, Acknowledge
<1>2. live \in Projection /\ replay \in Projection
  BY IFacts
<1>3. /\ live'.owner = live.owner /\ live'.run = live.run /\ live'.pending = live.pending
      /\ live'.works = live.works \cup {w}
  BY <1>1, <1>2 DEF AddWork, Projection
<1>4. /\ replay'.owner = replay.owner /\ replay'.run = replay.run
      /\ replay.works \subseteq replay'.works
  <2>1. /\ AddWork(replay, w, parent).owner = replay.owner
        /\ AddWork(replay, w, parent).run = replay.run
        /\ AddWork(replay, w, parent).works = replay.works \cup {w}
    BY <1>2 DEF AddWork, Projection
  <2> QED
    BY <1>1, <2>1
<1> QED
  BY <1>1, <1>3, <1>4, StillRow

LEMMA CreateWorkOperation ==
    ASSUME IInv, NEW w \in Works, CreateWork(w)
    PROVE  IInv' /\ Stays /\ up
BY CreateOperation DEF CreateWork, HostOperation, RowOperation

LEMMA EffectOperation ==
    ASSUME IInv, NEW w \in Works, NEW e \in Effects, HostOperation,
           NEW s \in EffectStates, NEW why,
           AppendEvent(w, SetEffect(live, w, e, s), SetEffect(replay, w, e, s), why)
    PROVE  IInv' /\ Stays /\ up
<1>1. /\ up /\ up' = up /\ resolving' = resolving
      /\ live' = SetEffect(live, w, e, s)
      /\ replay' = replay \/ replay' = SetEffect(replay, w, e, s)
      /\ err' = "none" => err = "none"
  BY RowWritten DEF AppendEvent
<1>2. live \in Projection /\ replay \in Projection
  BY IFacts
<1>3. /\ live'.owner = live.owner /\ live'.run = live.run /\ live'.pending = live.pending
      /\ live'.works = live.works
  BY <1>1, <1>2 DEF SetEffect, Projection
<1>4. /\ replay'.owner = replay.owner /\ replay'.run = replay.run
      /\ replay.works \subseteq replay'.works
  BY <1>1, <1>2 DEF SetEffect, Projection
<1> QED
  BY <1>1, <1>3, <1>4, StillRow

LEMMA RequestOperation ==
    ASSUME IInv, NEW w \in Works, NEW r \in Runs, NEW t \in Tickets,
           RecordPendingApproval(w, r, t)
    PROVE  IInv' /\ Stays /\ up /\ <<t, r>> \in live'.pending
<1>1. /\ up /\ up' = up /\ resolving' = resolving
      /\ live' = AddPending(live, t, r)
      /\ replay' = replay \/ replay' = AddPending(replay, t, r)
      /\ err' = "none" => err = "none"
  BY RowWritten DEF RecordPendingApproval, AppendEvent
<1>2. live \in Projection /\ replay \in Projection
  BY IFacts
<1>3. /\ live'.owner = live.owner /\ live'.run = live.run
      /\ live'.pending = live.pending \cup {<<t, r>>}
      /\ live'.works = live.works
  BY <1>1, <1>2 DEF AddPending, Projection
<1>4. /\ replay'.owner = replay.owner /\ replay'.run = replay.run
      /\ replay.works \subseteq replay'.works
  BY <1>1, <1>2 DEF AddPending, Projection
<1>5. HostOperation
  BY DEF HostOperation, RowOperation
<1>6. IInv' /\ Stays
  BY <1>1, <1>3, <1>4, <1>5, StillRow
<1> QED
  BY <1>1, <1>3, <1>6

LEMMA StutterOperation ==
    ASSUME IInv, UNCHANGED gatewayVars
    PROVE  IInv' /\ Stays
<1>1. /\ up' = up /\ live' = live /\ replay' = replay /\ err' = err /\ unacked' = unacked
      /\ resolving' = resolving
  BY DEF gatewayVars
<1>2. IInv'
  BY NextIInv
<1> QED
  BY <1>1, <1>2 DEF Stays, RowsKeep, LiveKeeps

\* A Run of memory has the same Work for the rows.
LEMMA OwnerReads ==
    ASSUME NEW r \in Runs, live.owner[r] \in Works, Agrees(live, replay, steered)
    PROVE  replay.owner[r] = live.owner[r]
BY GatewayConstants DEF Agrees, RunReadsAs

\* The first row of a resolution: the request goes, no Run moves.
LEMMA ResolveOperation ==
    ASSUME IInv, NEW w \in Works, NEW r \in Runs, NEW t \in Tickets, NEW approved \in BOOLEAN,
           ResolvePendingApproval(w, r, t, approved)
    PROVE  /\ IInv' /\ RowsKeep /\ up /\ up' = up
           /\ live'.owner = live.owner /\ live'.run = live.run /\ live.owner[r] = w
           /\ live'.pending = live.pending \ {<<t, r>>}
           /\ replay'.run = replay.run /\ replay'.owner = replay.owner
           /\ replay'.works = replay.works
           /\ err' = "none" => replay'.owner[r] \in replay'.works
           /\ resolving = NotResolving
           /\ resolving' = [run |-> r, next |-> IF approved THEN "running" ELSE "failed"]
<1>1. /\ up /\ up' = up /\ resolving = NotResolving
      /\ live' = DropPending(live, t, r) /\ unacked' = FALSE
      /\ \/ replay' = DropPending(replay, t, r) /\ err = "none" /\ ~unacked
         \/ replay' = replay /\ err' # "none"
      /\ <<t, r>> \in live.pending
  BY RowWritten DEF ResolvePendingApproval, MayResolve
<1>2. live \in Projection /\ replay \in Projection
  BY IFacts
<1>3. /\ live'.owner = live.owner /\ live'.run = live.run /\ live'.works = live.works
      /\ live'.pending = live.pending \ {<<t, r>>}
  BY <1>1, <1>2 DEF DropPending, Projection
<1>4. replay'.owner = replay.owner /\ replay'.run = replay.run /\ replay'.works = replay.works
  BY <1>1, <1>2 DEF DropPending, Projection
<1>5. HostOperation
  BY DEF HostOperation, RowOperation
<1>6. IInv'
  BY <1>5, OperationKeeps
<1>7. RowsKeep
  BY <1>1, <1>4 DEF RowsKeep
<1>8. w \in live.works /\ live.owner[r] = w
  <2>1. Sound(live) /\ live.current[w] = r /\ w \in live.works
    BY IFacts DEF ResolvePendingApproval, MayResolve, AppendRow
  <2> QED
    BY <2>1, GatewayConstants DEF Sound
<1>9. err' = "none" => replay'.owner[r] \in replay'.works
  <2> SUFFICES ASSUME err' = "none" PROVE replay'.owner[r] \in replay'.works
    OBVIOUS
  <2>1. Agrees(live, replay, steered)
    BY <1>1, IFacts
  <2>2. replay.owner[r] = w
    BY <1>8, <2>1, OwnerReads
  <2> QED
    BY <1>4, <1>8, <2>1, <2>2 DEF Agrees
<1>10. resolving' = [run |-> r, next |-> IF approved THEN "running" ELSE "failed"]
  BY <1>1 DEF ResolvePendingApproval
<1> QED
  BY <1>1, <1>3, <1>4, <1>6, <1>7, <1>8, <1>9, <1>10

\* A binding: a Run without a Work gets one.
LEMMA BindOperation ==
    ASSUME IInv, NEW w \in Works, NEW r \in Runs, BindExecution(w, r)
    PROVE  /\ IInv' /\ RowsKeep /\ LiveKeeps /\ up /\ up' = up /\ resolving' = resolving
           /\ resolving = NotResolving /\ replay.works \subseteq replay'.works
           /\ live.owner[r] = NoWork
           /\ live'.owner = [live.owner EXCEPT ![r] = w] /\ live'.run[r] # "none"
           /\ live'.pending = live.pending
<1> DEFINE n == NoteRun(live, w, r)
           l == [n EXCEPT !.run[r] = IF @ = "none" THEN "ready" ELSE @]
           p == NoteRun(replay, w, r)
<1>1. /\ up /\ up' = up /\ resolving' = resolving /\ w \in live.works /\ live' = l
      /\ \/ replay' = p /\ err = "none" /\ w \in replay.works
         \/ replay' = replay /\ err' # "none"
      /\ live.owner[r] = NoWork /\ replay.owner[r] = NoWork /\ resolving = NotResolving
  <2>1. /\ AppendRow(w, l, p, "none") /\ UNCHANGED resolving
        /\ live.owner[r] = NoWork /\ replay.owner[r] = NoWork
    BY DEF BindExecution, AppendEvent, MayBind
  <2> HIDE DEF l, p
  <2> QED
    BY <2>1, RowWritten
<1>2. /\ live \in Projection /\ replay \in Projection /\ live.run \in [Runs -> OptStates]
      /\ live.owner \in [Runs -> Works \cup {NoWork}]
      /\ replay.owner \in [Runs -> Works \cup {NoWork}]
  BY IFacts
<1>3. /\ n \in Projection
      /\ n.owner = [live.owner EXCEPT ![r] = w] /\ n.run = live.run /\ n.pending = live.pending
      /\ n.works = live.works
  <2>1. n \in Projection
    BY <1>2, NoteRunFields
  <2> QED
    BY <1>2, <2>1 DEF NoteRun, Projection
<1>4. /\ p.owner = [replay.owner EXCEPT ![r] = w] /\ p.run = replay.run /\ p.works = replay.works
  BY <1>2 DEF NoteRun, Projection
<1> HIDE DEF n, p
<1>5. /\ l.owner = n.owner /\ l.pending = n.pending /\ l.works = n.works
      /\ l.run = [n.run EXCEPT ![r] = IF @ = "none" THEN "ready" ELSE @]
  BY <1>3 DEF Projection
<1> HIDE DEF l
<1>6. /\ live'.owner = [live.owner EXCEPT ![r] = w] /\ live'.pending = live.pending
      /\ live'.works = live.works
      /\ live'.run = [live.run EXCEPT ![r] = IF @ = "none" THEN "ready" ELSE @]
  BY <1>1, <1>3, <1>5
<1>7. /\ replay'.run = replay.run /\ replay'.works = replay.works
      /\ \/ replay'.owner = replay.owner
         \/ replay'.owner = [replay.owner EXCEPT ![r] = w] /\ w \in replay.works
  BY <1>1, <1>4
<1>8. HostOperation
  BY DEF HostOperation, RowOperation
<1>9. IInv' /\ KeepsOutcomes(live, live')
  BY <1>1, <1>8, OperationKeeps
<1>10. RowsKeep
  BY <1>1, <1>2, <1>7 DEF RowsKeep
<1>11. LiveKeeps /\ live'.run[r] # "none"
  BY <1>2, <1>6, <1>9 DEF LiveKeeps, KeepsOutcomes
<1> QED
  BY <1>1, <1>6, <1>7, <1>9, <1>10, <1>11

\* A row that moves the Run of a Work; memory may not follow.
LEMMA MovingRow ==
    ASSUME IInv, HostOperation, NEW r \in Runs, NEW s \in WorkStates,
           up, up' = up,
           live'.run \in {live.run, [live.run EXCEPT ![r] = s]},
           \A q \in Runs :
                /\ replay.owner[q] # NoWork => replay'.owner[q] = replay.owner[q]
                /\ replay'.owner[q] \in {replay.owner[q]} \cup replay'.works,
           err' = "none" => err = "none"
    PROVE  IInv' /\ RowsKeep /\ LiveKeeps
<1>1. /\ IInv' /\ KeepsOutcomes(live, live') /\ KeepsOutcomes(replay, replay')
  BY OperationKeeps
<1>2. live.run \in [Runs -> OptStates]
  BY IFacts
<1>3. s # "none" /\ "failed" \in TerminalStates
  BY DEF WorkStates, WaitingStates, TerminalStates
<1>4. RowsKeep
  BY <1>1, <1>3 DEF RowsKeep, KeepsOutcomes
<1>5. LiveKeeps
  BY <1>1, <1>2, <1>3 DEF LiveKeeps, KeepsOutcomes
<1> QED
  BY <1>1, <1>4, <1>5

\* The fields of a projection that a row of Run r of Work w leaves or sets.
LEMMA RowFields ==
    ASSUME NEW p \in Projection, NEW w \in Works, NEW r \in Runs, NEW s, NEW y
    PROVE  /\ SetRun(p, w, r, s, y).owner = [p.owner EXCEPT ![r] = w]
           /\ SetRun(p, w, r, s, y).run = [p.run EXCEPT ![r] = s]
           /\ SetRun(p, w, r, s, y).pending = p.pending
           /\ SetRun(p, w, r, s, y).works = p.works
           /\ NoteRun(p, w, r).owner = [p.owner EXCEPT ![r] = w]
           /\ NoteRun(p, w, r).run = p.run
           /\ NoteRun(p, w, r).pending = p.pending
           /\ NoteRun(p, w, r).works = p.works
BY DEF SetRun, NoteRun, Projection

\* A lifecycle row of Run r of Work w, or of none that has an owner: memory
\* takes the state of a Run that has one.
LEMMA LifecycleOperation ==
    ASSUME IInv, HostOperation, NEW w \in Works, NEW r \in Runs, NEW s \in RequestedStates,
           live.owner[r] \in {w, NoWork}, ~unacked /\ err = "none" => replay.owner[r] \in {w, NoWork},
           ValidRunTransition(live, w, r, s), AppendTransition(w, r, s, "none")
    PROVE  /\ IInv' /\ RowsKeep /\ LiveKeeps /\ replay.works \subseteq replay'.works
           /\ up /\ up' = up /\ resolving = NotResolving /\ resolving' = resolving
           /\ live'.owner = [live.owner EXCEPT ![r] = w] /\ live'.pending = live.pending
           /\ live.run[r] # "none" => live'.run[r] = s
<1> DEFINE l == SetRun(live, w, r, s, "none")
           n == NoteRun(live, w, r)
           t == EventState(s)
           y == EventWait(s, "none")
           p == SetRun(replay, w, r, t, y)
<1>1. AppendRow(w, IF RunError(live, w, r, s) = "none" THEN l ELSE n, p, RunError(replay, w, r, t))
  BY DEF AppendTransition, AppendEvent
<1>2. /\ live \in Projection /\ replay \in Projection
      /\ live.run \in [Runs -> OptStates]
      /\ live.owner \in [Runs -> Works \cup {NoWork}]
      /\ replay.owner \in [Runs -> Works \cup {NoWork}]
  BY IFacts
<1>3. live.run[r] # "none" => RunError(live, w, r, s) = "none"
  BY DEF RunError, ValidRunTransition
<1> DEFINE m == IF RunError(live, w, r, s) = "none" THEN l ELSE n
<1> HIDE DEF l, n, p, t, y
<1>4. /\ m.owner = [live.owner EXCEPT ![r] = w] /\ m.pending = live.pending
      /\ m.run \in {live.run, [live.run EXCEPT ![r] = s]}
      /\ live.run[r] # "none" => m.run = [live.run EXCEPT ![r] = s]
  BY <1>2, <1>3, RowFields DEF l, n
<1>5. p.owner = [replay.owner EXCEPT ![r] = w] /\ p.works = replay.works
  BY <1>2 DEF p, SetRun, NoteRun, Projection
<1>6. AppendRow(w, m, p, RunError(replay, w, r, t))
  BY <1>1
<1> HIDE DEF m
<1>7. /\ up /\ up' = up /\ resolving = NotResolving /\ live' = m
      /\ \/ replay' = p /\ err = "none" /\ ~unacked /\ w \in replay.works
         \/ replay' = replay /\ err' # "none"
  BY <1>6, RowWritten
<1>8. resolving' = resolving
  BY DEF AppendTransition, AppendEvent
<1>9. s \in WorkStates
  BY DEF RequestedStates
<1>10. /\ replay.works \subseteq replay'.works
       /\ \A q \in Runs :
            /\ replay.owner[q] # NoWork => replay'.owner[q] = replay.owner[q]
            /\ replay'.owner[q] \in {replay.owner[q]} \cup replay'.works
  BY <1>2, <1>5, <1>7
<1>11. /\ live'.run \in {live.run, [live.run EXCEPT ![r] = s]}
       /\ err' = "none" => err = "none"
  BY <1>4, <1>7
<1>12. IInv' /\ RowsKeep /\ LiveKeeps
  BY <1>7, <1>9, <1>10, <1>11, MovingRow
<1>13. live.run[r] # "none" => live'.run[r] = s
  BY <1>2, <1>4, <1>7
<1> QED
  BY <1>4, <1>7, <1>8, <1>10, <1>12, <1>13

\* A transition of the current Run.
LEMMA TransitionOperation ==
    ASSUME IInv, NEW w \in Works, NEW r \in Runs, NEW s \in RequestedStates,
           RecordExecutionTransition(w, r, s)
    PROVE  /\ IInv' /\ Stays /\ up /\ resolving = NotResolving
           /\ live.owner[r] = w
           /\ live.run[r] # "none" => live'.run[r] = s
<1>1. /\ live.current[w] = r /\ ValidRunTransition(live, w, r, s)
      /\ AppendTransition(w, r, s, "none")
  BY DEF RecordExecutionTransition, RecordTransition, MayRecord
<1>2. live \in Projection /\ Sound(live) /\ live.owner \in [Runs -> Works \cup {NoWork}]
  BY IFacts
<1>3. live.owner[r] = w
  BY <1>1, <1>2, GatewayConstants DEF Sound
<1>4. up
  BY <1>1 DEF AppendTransition, AppendEvent, AppendRow
<1>5. ~unacked /\ err = "none" => replay.owner[r] \in {w, NoWork}
  BY <1>3, <1>4, IFacts, OwnerReads
<1>6. HostOperation
  BY DEF HostOperation, RowOperation
<1>7. [live.owner EXCEPT ![r] = w] = live.owner
  BY <1>2, <1>3
<1> QED
  BY <1>1, <1>3, <1>5, <1>6, <1>7, LifecycleOperation DEF Stays

\* The end of a delegated child's Run, which may have no owner yet.
LEMMA ChildEndOperation ==
    ASSUME IInv, NEW w \in Works, NEW r \in Runs, NEW s \in TerminalStates,
           FinishChildWork(w, r, s)
    PROVE  /\ IInv' /\ RowsKeep /\ LiveKeeps /\ replay.works \subseteq replay'.works
           /\ up /\ up' = up /\ resolving = NotResolving /\ resolving' = resolving
           /\ live'.owner = [live.owner EXCEPT ![r] = w] /\ live'.pending = live.pending
           /\ live.owner[r] \in {w, NoWork}
<1>1. /\ live.owner[r] \in {w, NoWork} /\ replay.owner[r] \in {w, NoWork}
      /\ ValidRunTransition(live, w, r, s) /\ AppendTransition(w, r, s, "none")
  BY DEF FinishChildWork, MayFinish, MayName
<1>2. s \in RequestedStates
  BY DEF RequestedStates, WorkStates, TerminalStates
<1>3. HostOperation
  BY DEF HostOperation, RowOperation
<1> QED
  BY <1>1, <1>2, <1>3, LifecycleOperation

\* A steering checkpoint: memory stays as it is.
LEMMA SteerOperation ==
    ASSUME IInv, NEW w \in Works, NEW r \in Runs, ApplySteeringCheckpoint(w, r)
    PROVE  /\ IInv' /\ Stays /\ up /\ resolving = NotResolving /\ live' = live
<1> DEFINE p == SetRun(replay, w, r, "checkpointed", "none")
           e == RunError(replay, w, r, "checkpointed")
<1>1. /\ AppendRow(w, live, p, e) /\ resolving' = resolving
      /\ replay.owner[r] \in {w, NoWork}
  BY DEF ApplySteeringCheckpoint, MaySteer, MayName
<1>2. /\ replay \in Projection /\ live.run \in [Runs -> OptStates]
      /\ replay.owner \in [Runs -> Works \cup {NoWork}]
  BY IFacts
<1>3. p.owner = [replay.owner EXCEPT ![r] = w] /\ p.works = replay.works
  BY <1>2 DEF SetRun, NoteRun, Projection
<1> HIDE DEF p, e
<1>4. /\ up /\ up' = up /\ resolving = NotResolving /\ live' = live
      /\ \/ replay' = p /\ err = "none" /\ w \in replay.works
         \/ replay' = replay /\ err' # "none"
  BY <1>1, RowWritten
<1>5. /\ replay.works \subseteq replay'.works
      /\ \A q \in Runs :
            /\ replay.owner[q] # NoWork => replay'.owner[q] = replay.owner[q]
            /\ replay'.owner[q] \in {replay.owner[q]} \cup replay'.works
  BY <1>1, <1>2, <1>3, <1>4
<1>6. HostOperation
  BY DEF HostOperation, RowOperation
<1>7. "running" \in WorkStates /\ (err' = "none" => err = "none")
  BY <1>4 DEF WorkStates
<1>8. IInv' /\ RowsKeep /\ LiveKeeps
  BY <1>4, <1>5, <1>6, <1>7, MovingRow
<1> QED
  BY <1>1, <1>4, <1>5, <1>8 DEF Stays

\* An archive: every Run keeps its owner, and one Work goes.
LEMMA ArchiveOperation ==
    ASSUME IInv, NEW w \in Works, ArchiveWork(w)
    PROVE  /\ IInv' /\ RowsKeep /\ LiveKeeps
           /\ up /\ up' = up /\ resolving = NotResolving /\ resolving' = resolving
           /\ live'.owner = live.owner /\ live'.run = live.run /\ live'.pending = live.pending
           /\ replay'.owner = replay.owner /\ replay'.run = replay.run
           /\ replay.works \subseteq replay'.works \cup {w}
<1> DEFINE l == DropWork(live, w)
           p == DropWork(replay, w)
<1>1. AppendRow(w, l, p, "none") /\ resolving' = resolving
  BY DEF ArchiveWork, AppendEvent
<1>2. live \in Projection /\ replay \in Projection
  BY IFacts
<1>3. /\ l.owner = live.owner /\ l.run = live.run /\ l.pending = live.pending
      /\ p.owner = replay.owner /\ p.run = replay.run /\ p.works = replay.works \ {w}
  BY <1>2 DEF DropWork, Projection
<1> HIDE DEF l, p
<1>4. /\ up /\ up' = up /\ resolving = NotResolving /\ live' = l
      /\ \/ replay' = p /\ err = "none"
         \/ replay' = replay /\ err' # "none"
  BY <1>1, RowWritten
<1>5. HostOperation
  BY DEF HostOperation, RowOperation
<1>6. IInv'
  BY <1>5, OperationKeeps
<1>7. /\ replay'.owner = replay.owner /\ replay'.run = replay.run
      /\ replay.works \subseteq replay'.works \cup {w}
      /\ live'.owner = live.owner /\ live'.run = live.run /\ live'.pending = live.pending
  BY <1>3, <1>4
<1>8. RowsKeep /\ LiveKeeps
  BY <1>4, <1>7 DEF RowsKeep, LiveKeeps
<1> QED
  BY <1>1, <1>4, <1>6, <1>7, <1>8

\* The second row of a resolution.
LEMMA FinishOperation ==
    ASSUME IInv, FinishResolution
    PROVE  /\ IInv' /\ RowsKeep /\ LiveKeeps /\ up /\ up' = up /\ resolving' = NotResolving
           /\ live'.owner = live.owner /\ live'.pending = live.pending
           /\ replay'.owner = replay.owner /\ replay'.works = replay.works
           /\ err' = "none" => replay'.run[resolving.run] = resolving.next
<1> DEFINE r == resolving.run
           w == live.owner[r]
           s == resolving.next
           l == SetRun(live, w, r, s, "none")
           p == SetRun(replay, w, r, s, "none")
<1>1. /\ up /\ up' = up /\ resolving # NotResolving /\ resolving' = NotResolving
      /\ w \in live.works /\ live' = l
      /\ \/ replay' = p /\ err = "none" /\ ~unacked /\ err' = "none"
         \/ replay' = replay /\ err' # "none"
  BY HostConstants DEF FinishResolution, Durable, Acknowledge
<1>2. live \in Projection /\ replay \in Projection /\ live.works \subseteq Works
  BY IFacts
<1>3. r \in Runs /\ s \in WorkStates /\ w \in Works
  BY <1>1, <1>2 DEF IInv, ResolvingKnown, WorkStates, TerminalStates
<1> HIDE DEF r, s
<1>4. /\ l.owner = live.owner /\ l.run = [live.run EXCEPT ![r] = s]
      /\ l.pending = live.pending /\ l.works = live.works
  <2>1. l.owner = [live.owner EXCEPT ![r] = w]
    BY <1>2, <1>3 DEF SetRun, NoteRun, Projection
  <2>2. [live.owner EXCEPT ![r] = w] = live.owner
    BY <1>2, <1>3 DEF Projection
  <2> QED
    BY <1>2, <1>3, <2>1, <2>2, RowFields
<1>5. /\ replay'.owner = replay.owner /\ replay'.works = replay.works
      /\ err' = "none" => replay'.run = [replay.run EXCEPT ![r] = s]
  <2>1. CASE replay' = replay /\ err' # "none"
    BY <2>1
  <2>2. CASE replay' = p /\ err = "none" /\ ~unacked
    <3>1. replay.owner[r] = w
      <4>1. Agrees(live, replay, steered)
        BY <1>1, <2>2, IFacts
      <4> QED
        BY <1>3, <4>1, OwnerReads
    <3>2. p.owner = replay.owner /\ p.works = replay.works /\ p.run = [replay.run EXCEPT ![r] = s]
      <4>1. p.owner = [replay.owner EXCEPT ![r] = w]
        BY <1>2, <1>3 DEF SetRun, NoteRun, Projection
      <4>2. [replay.owner EXCEPT ![r] = w] = replay.owner
        BY <1>2, <3>1 DEF Projection
      <4> QED
        BY <1>2, <1>3, <4>1, <4>2 DEF SetRun, NoteRun, Projection
    <3> QED
      BY <2>2, <3>2
  <2> QED
    BY <1>1, <2>1, <2>2
<1>6. HostOperation
  BY DEF HostOperation, RowOperation
<1>7. replay.run \in [Runs -> OptStates]
  BY IFacts
<1> HIDE DEF l, p, w
<1>8. /\ live'.owner = live.owner /\ live'.run = [live.run EXCEPT ![r] = s]
      /\ live'.pending = live.pending /\ live'.works = live.works
      /\ err' = "none" => err = "none"
  BY <1>1, <1>4
<1>9. IInv' /\ RowsKeep /\ LiveKeeps
  BY <1>1, <1>3, <1>5, <1>6, <1>8, MovingRow
<1>10. err' = "none" => replay'.run[r] = s
  BY <1>3, <1>5, <1>7
<1> QED
  BY <1>1, <1>5, <1>8, <1>9, <1>10 DEF r, s

-----------------------------------------------------------------------------
(* What a step does to the kernel, the relay and the rows.                 *)

\* At most one execution moves; it is new, or it waits for nobody and has not
\* failed, and its end is in the live projection.
PhaseStep ==
    \/ phase' = phase
    \/ \E r \in Runs, s \in WorkStates :
        /\ phase' = [phase EXCEPT ![r] = s]
        /\ asks[r] = NoTicket /\ phase[r] # "failed"
        /\ phase[r] = "none" => live.owner[r] = NoWork /\ ~Delegated(r)
        /\ s \in {"completed", "cancelled"} => live'.run[r] = s
        /\ relay.step = "bind" => relay.run # r

\* A request that is being resolved goes on being resolved.
RelayGoesOn ==
    relay.step \in {"finish", "resolved"} =>
        /\ relay'.step \in {"finish", "resolved"}
        /\ relay'.run = relay.run /\ relay'.item = relay.item /\ relay'.state = relay.state

\* No promise is made; one is dropped only by a row no resolution stands before.
TraceKeeps ==
    /\ denied' = denied /\ trace.archived \subseteq trace'.archived
    /\ \/ trace'.pledge = trace.pledge
       \/ /\ resolving = NotResolving
          /\ \A r \in Runs : trace'.pledge[r] \in {"none", trace.pledge[r]}

\* ... and nothing is delegated.
TraceStep == TraceKeeps /\ trace'.delegated = trace.delegated

\* The types, by name.
LEMMA TFacts ==
    ASSUME TInv
    PROVE  /\ phase \in [Runs -> OptStates]
           /\ asks \in [Runs -> Tickets \cup {NoTicket}]
           /\ denied \subseteq Runs
           /\ trace.pledge \in [Runs -> {"none", "running", "failed"}]
           /\ RelayFields /\ PromptFields /\ relay \in RelayRecord
BY DEF TInv, KernelTypes, TraceTypes, TraceRecord, RelayTypes, PromptTypes

\* The kernel's gate: an execution that waits for a ticket does not move.
LEMMA GateHolds ==
    ASSUME GateIsBacked, NEW r \in Runs, NEW s, KernelMoves(r, s)
    PROVE  asks[r] = NoTicket /\ phase[r] \notin {"failed", "none"}
<1>1. PhaseCanTransition(phase[r], s) /\ KernelGate(r, s)
  BY DEF KernelMoves
<1>2. phase[r] \notin {"failed", "none"} /\ (phase[r] = "waiting_approval" => s # "waiting_approval")
  BY <1>1 DEF PhaseCanTransition, WaitingStates, TerminalStates
<1> QED
  BY <1>1, <1>2 DEF GateIsBacked, KernelGate

LEMMA KernelStays ==
    ASSUME KernelBacked, TInv, LiveKeeps, PhaseStep, live'.owner = live.owner,
           trace'.delegated = trace.delegated, trace.archived \subseteq trace'.archived
    PROVE  KernelBacked'
<1>1. phase \in [Runs -> OptStates]
  BY TFacts
<1> SUFFICES ASSUME NEW q \in Runs
             PROVE  /\ live'.owner[q] \notin trace'.archived \cup {NoWork} /\ ~Delegated(q)'
                       => phase'[q] # "none"
                    /\ live'.owner[q] # NoWork /\ phase'[q] # "none" => live'.run[q] # "none"
                    /\ Delegated(q)' /\ phase'[q] # "none" => live'.owner[q] # NoWork
                    /\ phase'[q] \in {"completed", "cancelled"} => live'.run[q] = phase'[q]
  BY DEF KernelBacked
<1>2. \/ phase'[q] = phase[q]
      \/ /\ phase'[q] \in WorkStates
         /\ phase[q] = "none" => live.owner[q] = NoWork /\ ~Delegated(q)
         /\ phase'[q] \in {"completed", "cancelled"} => live'.run[q] = phase'[q]
  BY <1>1 DEF PhaseStep
<1>3. /\ live.owner[q] \notin trace.archived \cup {NoWork} /\ ~Delegated(q) => phase[q] # "none"
      /\ live.owner[q] # NoWork /\ phase[q] # "none" => live.run[q] # "none"
      /\ Delegated(q) /\ phase[q] # "none" => live.owner[q] # NoWork
      /\ phase[q] \in {"completed", "cancelled"} => live.run[q] = phase[q]
  BY DEF KernelBacked
<1>4. "none" \notin WorkStates /\ {"completed", "cancelled"} \subseteq TerminalStates
  BY DEF WorkStates, WaitingStates, TerminalStates
<1>5. Delegated(q)' = Delegated(q)
  BY DEF Delegated
<1>6. /\ live.run[q] \in TerminalStates => live'.run[q] = live.run[q]
      /\ live.run[q] # "none" => live'.run[q] # "none"
  BY DEF LiveKeeps
<1> HIDE DEF Delegated
<1> QED
  BY <1>2, <1>3, <1>4, <1>5, <1>6

LEMMA PlacedStays ==
    ASSUME Placed, RowsKeep, replay.works \subseteq replay'.works,
           trace.archived \subseteq trace'.archived
    PROVE  Placed'
BY DEF Placed, RowsKeep

LEMMA GateStays ==
    ASSUME GateIsBacked, TInv, PhaseStep, RelayGoesOn, asks' = asks,
           live.pending \subseteq live'.pending
    PROVE  GateIsBacked'
<1>1. phase \in [Runs -> OptStates]
  BY TFacts
<1> SUFFICES ASSUME NEW q \in Runs, asks[q] # NoTicket
             PROVE  /\ phase'[q] = "waiting_approval"
                    /\ \/ <<asks[q], q>> \in live'.pending
                       \/ /\ relay'.step \in {"finish", "resolved"}
                          /\ relay'.run = q /\ relay'.item = asks[q]
  BY DEF GateIsBacked
<1>2. phase'[q] = phase[q]
  BY <1>1 DEF PhaseStep
<1> QED
  BY <1>2 DEF GateIsBacked, RelayGoesOn

LEMMA PledgeStays ==
    ASSUME PledgeKnown, RowsKeep, TraceKeeps, TInv, up' = up, resolving' = resolving,
           replay.works \subseteq replay'.works
    PROVE  PledgeKnown'
<1> SUFFICES ASSUME NEW q \in Runs, trace'.pledge[q] # "none"
             PROVE  /\ up' => resolving'.run = q /\ resolving'.next = trace'.pledge[q]
                    /\ err' = "none" => replay'.owner[q] \in replay'.works
  BY DEF PledgeKnown
<1>1. trace'.pledge[q] = trace.pledge[q]
  BY DEF TraceKeeps
<1> QED
  BY <1>1 DEF PledgeKnown, RowsKeep

\* While no resolution stands between its rows, nothing is promised.
LEMMA NothingPledged ==
    ASSUME PledgeKnown, up, resolving = NotResolving, NEW r \in Runs
    PROVE  trace.pledge[r] = "none"
<1>1. resolving.run = NoRun
  BY DEF NotResolving
<1> QED
  BY <1>1, GatewayConstants DEF PledgeKnown

LEMMA DenialStays ==
    ASSUME DenialKnown, PledgeKnown, TInv, RowsKeep, TraceKeeps, PhaseStep, RelayGoesOn,
           up, up' = up, \A r \in Runs : live.owner[r] # NoWork => live'.owner[r] # NoWork
    PROVE  DenialKnown'
<1>1. phase \in [Runs -> OptStates] /\ denied \subseteq Runs
  BY TFacts
<1> SUFFICES ASSUME NEW q \in denied
             PROVE  /\ err' = "none" => /\ trace'.pledge[q] = "failed" \/ replay'.run[q] = "failed"
                                        /\ replay'.owner[q] # NoWork
                    /\ up' => /\ live'.owner[q] # NoWork
                              /\ \/ phase'[q] \in {"failed", "none"}
                                 \/ /\ relay'.step \in {"finish", "resolved"}
                                    /\ relay'.run = q /\ relay'.state = "failed"
  BY DEF DenialKnown, TraceKeeps
<1>2. q \in Runs
  BY <1>1
<1>3. live.owner[q] # NoWork /\ live'.owner[q] # NoWork
  BY <1>2 DEF DenialKnown
<1>4. phase[q] \in {"failed", "none"} => phase'[q] \in {"failed", "none"}
  BY <1>1, <1>2, <1>3 DEF PhaseStep
<1>5. trace.pledge[q] = "failed" => trace'.pledge[q] = "failed"
  <2>1. CASE trace'.pledge = trace.pledge
    BY <2>1
  <2>2. CASE resolving = NotResolving
    BY <1>2, <2>2, NothingPledged
  <2> QED
    BY <2>1, <2>2 DEF TraceKeeps
<1>6. err' = "none" => /\ trace'.pledge[q] = "failed" \/ replay'.run[q] = "failed"
                       /\ replay'.owner[q] # NoWork
  BY <1>2, <1>5 DEF DenialKnown, RowsKeep
<1> QED
  BY <1>3, <1>4, <1>6 DEF DenialKnown, RelayGoesOn

\* A step that moves at most an execution and changes no owner.
LEMMA StayingStep ==
    ASSUME HInv, up, IInv', Stays, PhaseStep, RelayGoesOn, TraceStep, asks' = asks, RelayBacked'
    PROVE  IInv' /\ KInv'
<1>1. KInv /\ TInv
  BY DEF HInv
<1>2. /\ RowsKeep /\ LiveKeeps /\ live'.owner = live.owner /\ live.pending \subseteq live'.pending
      /\ up' = up /\ resolving' = resolving /\ replay.works \subseteq replay'.works
  BY DEF Stays
<1>7. Placed'
  BY <1>1, <1>2, PlacedStays DEF KInv, TraceStep, TraceKeeps
<1>3. KernelBacked'
  BY <1>1, <1>2, KernelStays DEF KInv, TraceStep, TraceKeeps
<1>4. GateIsBacked'
  BY <1>1, <1>2, GateStays DEF KInv
<1>5. PledgeKnown'
  BY <1>1, <1>2, PledgeStays DEF KInv, TraceStep
<1>6. DenialKnown'
  BY <1>1, <1>2, DenialStays DEF KInv, TraceStep
<1> QED
  BY <1>3, <1>4, <1>5, <1>6, <1>7 DEF KInv

\* What the relay has found between its locks survives the others' steps.
LEMMA RelayUntouched ==
    ASSUME HInv, LiveKeeps, PhaseStep, TraceStep, asks' = asks, relay' = relay,
           live.pending \subseteq live'.pending,
           relay.step = "bind" => live'.owner[relay.run] = live.owner[relay.run]
    PROVE  RelayBacked'
<1>1. RelayBacked /\ TInv /\ RelayFields /\ phase \in [Runs -> OptStates]
  BY TFacts DEF HInv, KInv
<1>2. relay.step = "bind" => phase'[relay.run] = phase[relay.run]
  BY <1>1 DEF PhaseStep, RelayFields
<1>3. (relay.step = "apply" /\ relay.state \in TerminalStates /\ live.run[relay.run] = relay.state)
        => live'.run[relay.run] = relay.state
  BY <1>1 DEF LiveKeeps, RelayFields
<1>4. relay.step = "journal" /\ phase[relay.run] # "none" => phase'[relay.run] # "none"
  BY <1>1 DEF PhaseStep, RelayFields, WorkStates, WaitingStates, TerminalStates
<1>5. Delegated(relay.run)' = Delegated(relay.run)
  BY DEF Delegated, TraceStep, TraceKeeps
<1>6. relay.step = "child_start" /\ live.run[relay.run] # "none" => live'.run[relay.run] # "none"
  BY <1>1 DEF LiveKeeps, RelayFields
<1> HIDE DEF Delegated
<1> QED
  BY <1>1, <1>2, <1>3, <1>4, <1>5, <1>6 DEF RelayBacked

\* A step of anybody but the relay that leaves the owners alone.
LEMMA OthersStep ==
    ASSUME HInv, up, IInv', Stays, PhaseStep, TraceStep, asks' = asks, relay' = relay
    PROVE  IInv' /\ KInv'
<1>1. RelayGoesOn
  BY DEF RelayGoesOn
<1>2. RelayBacked'
  BY RelayUntouched DEF Stays
<1> QED
  BY <1>1, <1>2, StayingStep

\* The rows of a transition, as recovery reads them.
LEMMA TraceStateReads ==
    ASSUME TraceTypes, NEW r \in Runs, NEW t
    PROVE  /\ TraceState(r, t) \in TraceRecord
           /\ TraceState(r, t).pledge = [trace.pledge EXCEPT ![r] = "none"]
           /\ TraceState(r, t).started =
                IF t \in {"ready", "running"} THEN trace.started \cup {r} ELSE trace.started
           /\ TraceState(r, t).archived = trace.archived
           /\ TraceState(r, t).delegated = trace.delegated
<1> DEFINE a == IF t \in {"ready", "running"} THEN trace.started \cup {r} ELSE trace.started
           b == IF \/ trace.pledge[r] \notin {"none", t}
                   \/ replay.run[r] # "none" /\ ~PhaseTransitionLegal(replay.run[r], t)
                THEN trace.illegal \cup {r} ELSE trace.illegal
<1>1. a \in SUBSET Runs /\ b \in SUBSET Runs
  BY DEF TraceTypes, TraceRecord
<1> DEFINE c == [trace.pledge EXCEPT ![r] = "none"]
<1>2. TraceState(r, t) = [trace EXCEPT !.started = a, !.pledge = c, !.illegal = b]
  BY DEF TraceState
<1>3. c \in [Runs -> {"none", "running", "failed"}]
  BY DEF TraceTypes, TraceRecord
<1> HIDE DEF a, b, c
<1>4. /\ TraceState(r, t) \in TraceRecord
      /\ TraceState(r, t).pledge = c /\ TraceState(r, t).started = a
      /\ TraceState(r, t).archived = trace.archived
      /\ TraceState(r, t).delegated = trace.delegated
  BY <1>1, <1>2, <1>3 DEF TraceTypes, TraceRecord
<1> QED
  BY <1>4 DEF a, c

LEMMA TransitionTrace ==
    ASSUME TInv, NEW r \in Runs, NEW t, trace' = TraceState(r, t), denied' = denied,
           resolving = NotResolving
    PROVE  TraceTypes' /\ TraceStep
<1>1. TraceTypes /\ trace.pledge \in [Runs -> {"none", "running", "failed"}] /\ denied \subseteq Runs
  BY TFacts DEF TInv
<1>2. /\ trace' \in TraceRecord
      /\ trace'.pledge = [trace.pledge EXCEPT ![r] = "none"]
      /\ trace'.archived = trace.archived /\ trace'.delegated = trace.delegated
  BY <1>1, TraceStateReads
<1> QED
  BY <1>1, <1>2 DEF TraceTypes, TraceStep, TraceKeeps

\* The types survive a step that types what it changes.
LEMMA TypesKeep ==
    ASSUME TInv, up', PhaseStep, asks' = asks, RelayTypes', PromptTypes', TraceTypes'
    PROVE  TInv'
<1>1. phase' \in [Runs -> OptStates] /\ asks' \in [Runs -> Tickets \cup {NoTicket}]
  BY TFacts DEF PhaseStep, OptStates
<1> QED
  BY <1>1 DEF TInv, KernelTypes, DownIsEmpty

\* What is left alone keeps its type.
LEMMA SameTypes ==
    ASSUME TInv
    PROVE  /\ relay' = relay => RelayTypes'
           /\ prompt' = prompt /\ bound' = bound => PromptTypes'
           /\ trace' = trace /\ denied' = denied => TraceTypes' /\ TraceStep
BY DEF TInv, RelayTypes, RelayFields, PromptTypes, PromptFields, TraceTypes,
       TraceStep, TraceKeeps

-----------------------------------------------------------------------------
(* The prompts.                                                            *)

LEMMA NoPromptShape == NoPrompt \in PromptShape /\ NoPrompt.step = "idle"
BY DEF NoPrompt, PromptShape

\* A prompt that moves to x.
LEMMA PromptMoves ==
    ASSUME TInv, NEW p \in Prompts, NEW x \in PromptShape,
           x.step # "idle" => x.work \in Works,
           x.step \in {"start", "turn", "answered", "verified"} => x.run \in Runs,
           x.step = "answered" => x.outcome \in Outcomes,
           prompt' = [prompt EXCEPT ![p] = x], bound' \subseteq Works
    PROVE  PromptTypes'
<1>1. prompt \in [Prompts -> PromptShape] /\ PromptFields
  BY DEF TInv, PromptTypes
<1>2. prompt' \in [Prompts -> PromptShape]
  BY <1>1
<1>3. PromptFields'
  BY <1>1 DEF PromptFields
<1> QED
  BY <1>2, <1>3 DEF PromptTypes

LEMMA RefusedMoves ==
    ASSUME TInv, NEW p \in Prompts, Refused(p), bound' \subseteq Works
    PROVE  PromptTypes'
BY NoPromptShape, PromptMoves DEF Refused

LEMMA BecomesMoves ==
    ASSUME TInv, NEW p \in Prompts, NEW r \in Runs,
           NEW step \in {"start", "turn", "verified"},
           Becomes(p, step, r), prompt[p].work \in Works, bound' = bound
    PROVE  PromptTypes'
<1> DEFINE x == [prompt[p] EXCEPT !.step = step, !.run = r]
<1>1. prompt \in [Prompts -> PromptShape] /\ bound \subseteq Works
  BY DEF TInv, PromptTypes
<1>2. prompt' = [prompt EXCEPT ![p] = x]
  BY <1>1 DEF Becomes
<1>3. x \in PromptShape /\ x.step = step /\ x.run = r /\ x.work = prompt[p].work
  BY <1>1 DEF PromptShape
<1> HIDE DEF x
<1> QED
  BY <1>1, <1>2, <1>3, PromptMoves

\* A prompt that waits, is admitted or is answered changes only itself.
LEMMA QuietPrompt ==
    ASSUME HInv, up, UNCHANGED <<gatewayVars, kernelVars, relay, trace, denied>>, PromptTypes'
    PROVE  HInv'
<1>1. /\ UNCHANGED gatewayVars /\ phase' = phase /\ asks' = asks /\ relay' = relay
      /\ trace' = trace /\ denied' = denied
  BY DEF kernelVars
<1>2. IInv' /\ Stays
  BY <1>1, StutterOperation DEF HInv
<1>3. PhaseStep /\ up'
  BY <1>1 DEF PhaseStep, gatewayVars
<1>4. RelayTypes' /\ TraceTypes' /\ TraceStep
  BY <1>1, SameTypes DEF HInv
<1>5. TInv'
  BY <1>1, <1>3, <1>4, TypesKeep DEF HInv
<1>6. KInv'
  BY <1>1, <1>2, <1>3, <1>4, OthersStep
<1> QED
  BY <1>2, <1>5, <1>6 DEF HInv

LEMMA AdmitStep ==
    ASSUME HInv, NEW p \in Prompts, NEW w \in Works, PromptAdmit(p, w)
    PROVE  HInv'
<1> DEFINE x == [NoPrompt EXCEPT !.step = "queued", !.work = w]
<1>1. x \in PromptShape /\ x.step = "queued" /\ x.work = w
  BY DEF NoPrompt, PromptShape
<1>2. /\ prompt' = [prompt EXCEPT ![p] = x] /\ up /\ bound' = bound
      /\ UNCHANGED <<gatewayVars, kernelVars, relay, trace, denied>>
  BY DEF PromptAdmit, PromptAt
<1>3. TInv /\ bound \subseteq Works
  BY DEF HInv, TInv, PromptTypes
<1> HIDE DEF x
<1>4. PromptTypes'
  BY <1>1, <1>2, <1>3, PromptMoves
<1> QED
  BY <1>2, <1>4, QuietPrompt

LEMMA ReuseStep ==
    ASSUME HInv, NEW p \in Prompts, PromptReuse(p)
    PROVE  HInv'
<1> DEFINE r == live.current[prompt[p].work]
<1>1. /\ prompt[p].step = "prepare" /\ up /\ r # NoRun /\ Becomes(p, "turn", r) /\ bound' = bound
      /\ UNCHANGED <<gatewayVars, kernelVars, relay, trace, denied>>
  BY DEF PromptReuse, PromptAt
<1>2. TInv /\ prompt[p].work \in Works
  BY <1>1 DEF HInv, TInv, PromptTypes, PromptFields
<1>3. r \in Runs
  BY <1>1, <1>2, IFacts DEF HInv
<1>4. PromptTypes'
  BY <1>1, <1>2, <1>3, BecomesMoves
<1> QED
  BY <1>1, <1>4, QuietPrompt

LEMMA AnswerStep ==
    ASSUME HInv, NEW p \in Prompts, NEW outcome \in Outcomes, PromptAnswer(p, outcome)
    PROVE  HInv'
<1> DEFINE x == [prompt[p] EXCEPT !.step = "answered", !.outcome = outcome]
<1>1. /\ prompt[p].step = "turn" /\ up /\ bound' = bound
      /\ prompt' = [prompt EXCEPT ![p].step = "answered", ![p].outcome = outcome]
      /\ UNCHANGED <<gatewayVars, kernelVars, relay, trace, denied>>
  BY DEF PromptAnswer, PromptAt
<1>2. /\ TInv /\ prompt[p].work \in Works /\ prompt[p].run \in Runs /\ bound \subseteq Works
      /\ prompt \in [Prompts -> PromptShape]
  BY <1>1 DEF HInv, TInv, PromptTypes, PromptFields
<1>3. prompt' = [prompt EXCEPT ![p] = x]
  BY <1>1, <1>2
<1>4. /\ x \in PromptShape /\ x.step = "answered" /\ x.outcome = outcome
      /\ x.work = prompt[p].work /\ x.run = prompt[p].run
  BY <1>2 DEF PromptShape
<1> HIDE DEF x
<1>5. PromptTypes'
  BY <1>1, <1>2, <1>3, <1>4, PromptMoves
<1> QED
  BY <1>1, <1>5, QuietPrompt

LEMMA PrepareStep ==
    ASSUME HInv, NEW p \in Prompts, PromptPrepare(p)
    PROVE  HInv'
<1> DEFINE w == prompt[p].work
           x == [prompt[p] EXCEPT !.step = "prepare", !.activated = w \notin bound]
<1>1. /\ prompt[p].step = "queued" /\ up /\ bound' = bound \cup {w}
      /\ prompt' = [prompt EXCEPT ![p].step = "prepare", ![p].activated = w \notin bound]
      /\ CreateWork(w) \/ UNCHANGED gatewayVars
      /\ phase' = phase /\ asks' = asks /\ relay' = relay /\ trace' = trace /\ denied' = denied
  BY DEF PromptPrepare, PromptAt, kernelVars
<1>2. /\ IInv /\ TInv /\ w \in Works /\ bound \subseteq Works
      /\ prompt \in [Prompts -> PromptShape]
  BY <1>1 DEF HInv, TInv, PromptTypes, PromptFields
<1>3. prompt' = [prompt EXCEPT ![p] = x]
  BY <1>1, <1>2
<1>4. x \in PromptShape /\ x.step = "prepare" /\ x.work = w
  BY <1>2 DEF PromptShape
<1> HIDE DEF x, w
<1>5. PromptTypes'
  <2>1. bound' \subseteq Works /\ "prepare" \notin {"start", "turn", "answered", "verified"}
    BY <1>1, <1>2
  <2> QED
    BY <1>2, <1>3, <1>4, <2>1, PromptMoves
<1>6. IInv' /\ Stays
  BY <1>1, <1>2, CreateWorkOperation, StutterOperation
<1>7. PhaseStep /\ up'
  BY <1>1, <1>6 DEF PhaseStep, Stays
<1>8. RelayTypes' /\ TraceTypes' /\ TraceStep
  BY <1>1, <1>2, SameTypes
<1>9. TInv'
  BY <1>1, <1>2, <1>5, <1>7, <1>8, TypesKeep
<1>10. KInv'
  BY <1>1, <1>6, <1>7, <1>8, OthersStep
<1> QED
  BY <1>6, <1>9, <1>10 DEF HInv

\* A prompt for a child Work, or for one whose Run the kernel does not have.
LEMMA TurnRefusedStep ==
    ASSUME HInv, NEW p \in Prompts, PromptMismatch(p) \/ PromptMissing(p)
    PROVE  HInv'
<1>1. /\ Refused(p) /\ up /\ bound' = bound
      /\ UNCHANGED <<gatewayVars, kernelVars, relay, trace, denied>>
  BY DEF PromptMismatch, PromptMissing, PromptAt
<1>2. TInv /\ bound \subseteq Works
  BY DEF HInv, TInv, PromptTypes
<1>3. PromptTypes'
  BY <1>1, <1>2, RefusedMoves
<1> QED
  BY <1>1, <1>3, QuietPrompt

\* An execution of a bound Run moves: the relay is not binding it.
LEMMA OwnedMoves ==
    ASSUME HInv, NEW r \in Runs, NEW s \in WorkStates, live.owner[r] # NoWork,
           asks[r] = NoTicket, phase[r] \notin {"failed", "none"},
           s \in {"completed", "cancelled"} => live'.run[r] = s,
           phase' = [phase EXCEPT ![r] = s]
    PROVE  PhaseStep
BY DEF PhaseStep, HInv, KInv, RelayBacked

\* The current Run of a Work is bound.
LEMMA CurrentIsOwned ==
    ASSUME IInv, NEW w \in Works, live.current[w] # NoRun
    PROVE  live.current[w] \in Runs /\ live.owner[live.current[w]] # NoWork
<1>1. live.current[w] \in Runs /\ Sound(live)
  BY IFacts
<1> QED
  BY <1>1, GatewayConstants DEF Sound

LEMMA ResumeStep ==
    ASSUME HInv, NEW p \in Prompts, PromptResume(p)
    PROVE  HInv'
<1> DEFINE w == prompt[p].work
           r == live.current[w]
<1>1. /\ prompt[p].step = "prepare" /\ up /\ r # NoRun
      /\ asks' = asks /\ relay' = relay /\ denied' = denied
  BY DEF PromptResume, PromptAt
<1>2. /\ IInv /\ TInv /\ KernelBacked /\ GateIsBacked /\ w \in Works /\ bound \subseteq Works
  BY <1>1 DEF HInv, KInv, TInv, PromptTypes, PromptFields
<1>3. r \in Runs /\ live.owner[r] # NoWork
  BY <1>1, <1>2, CurrentIsOwned
<1>4. {"running", "failed"} \subseteq WorkStates \ {"completed", "cancelled"}
  BY DEF WorkStates, TerminalStates
<1>5. CASE /\ KernelMoves(r, "running") /\ RecordExecutionTransition(w, r, "running")
           /\ trace' = TraceState(r, "running") /\ phase' = [phase EXCEPT ![r] = "running"]
           /\ Becomes(p, "turn", r) /\ bound' = bound
  <2>1. IInv' /\ Stays /\ resolving = NotResolving
    BY <1>2, <1>3, <1>5, StatesRequested, TransitionOperation
  <2>2. PhaseStep
    BY <1>2, <1>3, <1>4, <1>5, GateHolds, OwnedMoves
  <2>3. TraceTypes' /\ TraceStep
    BY <1>1, <1>2, <1>3, <1>5, <2>1, TransitionTrace
  <2>4. PromptTypes'
    BY <1>2, <1>3, <1>5, BecomesMoves
  <2>5. RelayTypes' /\ up'
    BY <1>1, <1>2, <2>1, SameTypes DEF Stays
  <2>6. TInv'
    BY <1>1, <1>2, <2>2, <2>3, <2>4, <2>5, TypesKeep
  <2>7. KInv'
    BY <1>1, <2>1, <2>2, <2>3, OthersStep
  <2> QED
    BY <2>1, <2>6, <2>7 DEF HInv
<1>6. CASE /\ phase' = IF KernelMoves(r, "running") THEN [phase EXCEPT ![r] = "failed"] ELSE phase
           /\ Refused(p) /\ Suspend(p) /\ UNCHANGED <<gatewayVars, trace>>
  <2>1. IInv' /\ Stays
    BY <1>2, <1>6, StutterOperation
  <2>2. PhaseStep
    <3>1. CASE KernelMoves(r, "running")
      <4>1. asks[r] = NoTicket /\ phase[r] \notin {"failed", "none"}
        BY <1>2, <1>3, <3>1, GateHolds
      <4> QED
        BY <1>3, <1>4, <1>6, <3>1, <4>1, OwnedMoves
    <3>2. CASE ~KernelMoves(r, "running")
      BY <1>6, <3>2 DEF PhaseStep
    <3> QED
      BY <3>1, <3>2
  <2>3. RelayTypes' /\ TraceTypes' /\ TraceStep /\ up'
    BY <1>1, <1>2, <1>6, <2>1, SameTypes DEF Stays
  <2>4. bound' \subseteq Works
    BY <1>2, <1>6 DEF Suspend
  <2>5. PromptTypes'
    BY <1>2, <1>6, <2>4, RefusedMoves
  <2>6. TInv'
    BY <1>1, <1>2, <2>2, <2>3, <2>5, TypesKeep
  <2>7. KInv'
    BY <1>1, <2>1, <2>2, <2>3, OthersStep
  <2> QED
    BY <2>1, <2>6, <2>7 DEF HInv
<1> QED
  BY <1>5, <1>6 DEF PromptResume

\* A Run gets a Work: the kernel has it with a state, or it is delegated.
LEMMA OwningStep ==
    ASSUME HInv, NEW w \in Works, NEW r \in Runs, up, up' = up, resolving' = resolving,
           IInv', RowsKeep, LiveKeeps, replay.works \subseteq replay'.works,
           live'.owner = [live.owner EXCEPT ![r] = w], live.pending \subseteq live'.pending,
           phase'[r] # "none" \/ Delegated(r),
           phase'[r] # "none" => live'.run[r] # "none",
           PhaseStep, TraceStep, asks' = asks, RelayGoesOn, RelayBacked'
    PROVE  KInv'
<1>1. KInv /\ TInv /\ IInv
  BY DEF HInv
<1>2. phase \in [Runs -> OptStates] /\ live.owner \in [Runs -> Works \cup {NoWork}]
  BY <1>1, TFacts, IFacts
<1>3. live'.owner[r] = w /\ w # NoWork
  BY <1>2, GatewayConstants
<1>4. ASSUME NEW q \in Runs
      PROVE  /\ live'.owner[q] \notin trace'.archived \cup {NoWork} /\ ~Delegated(q)'
                => phase'[q] # "none"
             /\ live'.owner[q] # NoWork /\ phase'[q] # "none" => live'.run[q] # "none"
             /\ Delegated(q)' /\ phase'[q] # "none" => live'.owner[q] # NoWork
             /\ phase'[q] \in {"completed", "cancelled"} => live'.run[q] = phase'[q]
  <2>1. \/ phase'[q] = phase[q]
        \/ /\ phase'[q] \in WorkStates
           /\ phase[q] = "none" => live.owner[q] = NoWork /\ ~Delegated(q)
           /\ phase'[q] \in {"completed", "cancelled"} => live'.run[q] = phase'[q]
    BY <1>2 DEF PhaseStep
  <2>2. /\ live.owner[q] \notin trace.archived \cup {NoWork} /\ ~Delegated(q) => phase[q] # "none"
        /\ live.owner[q] # NoWork /\ phase[q] # "none" => live.run[q] # "none"
        /\ Delegated(q) /\ phase[q] # "none" => live.owner[q] # NoWork
        /\ phase[q] \in {"completed", "cancelled"} => live.run[q] = phase[q]
    BY <1>1 DEF KInv, KernelBacked
  <2>3. "none" \notin WorkStates /\ {"completed", "cancelled"} \subseteq TerminalStates
    BY DEF WorkStates, WaitingStates, TerminalStates
  <2>4. Delegated(q)' = Delegated(q) /\ trace.archived \subseteq trace'.archived
    BY DEF Delegated, TraceStep, TraceKeeps
  <2>5. /\ live.run[q] \in TerminalStates => live'.run[q] = live.run[q]
        /\ live.run[q] # "none" => live'.run[q] # "none"
    BY DEF LiveKeeps
  <2>6. q = r \/ live'.owner[q] = live.owner[q]
    BY <1>2
  <2> HIDE DEF Delegated
  <2> QED
    BY <1>3, <2>1, <2>2, <2>3, <2>4, <2>5, <2>6
<1>5. KernelBacked'
  BY <1>4 DEF KernelBacked
<1>6. GateIsBacked'
  BY <1>1, GateStays DEF KInv
<1>7. Placed' /\ PledgeKnown'
  BY <1>1, PlacedStays, PledgeStays DEF KInv, TraceStep, TraceKeeps
<1>8. \A q \in Runs : live.owner[q] # NoWork => live'.owner[q] # NoWork
  BY <1>2, <1>3
<1>9. DenialKnown'
  BY <1>1, <1>8, DenialStays DEF KInv, TraceStep
<1> QED
  BY <1>5, <1>6, <1>7, <1>9 DEF KInv

\* A Run is bound: its execution is ready, begins to run, or is a child's.
LEMMA BindingStep ==
    ASSUME HInv, NEW w \in Works, NEW r \in Runs, BindExecution(w, r),
           \/ phase' = phase /\ (phase[r] = "ready" \/ Delegated(r))
           \/ phase' = [phase EXCEPT ![r] = "running"] /\ Fresh(r),
           asks' = asks, trace' = trace, denied' = denied, RelayGoesOn, RelayBacked'
    PROVE  IInv' /\ KInv' /\ PhaseStep
<1>1. IInv /\ KInv /\ TInv
  BY DEF HInv
<1>2. phase \in [Runs -> OptStates]
  BY <1>1, TFacts
<1>3. /\ IInv' /\ RowsKeep /\ LiveKeeps /\ up /\ up' = up /\ resolving' = resolving
      /\ live'.owner = [live.owner EXCEPT ![r] = w] /\ live'.run[r] # "none"
      /\ live'.pending = live.pending /\ replay.works \subseteq replay'.works
  BY <1>1, BindOperation
<1>4. PhaseStep
  <2>1. CASE phase' = phase
    BY <2>1 DEF PhaseStep
  <2>2. CASE phase' = [phase EXCEPT ![r] = "running"] /\ Fresh(r)
    <3>1. "running" \in WorkStates
      BY DEF WorkStates
    <3>2. phase[r] = "none" /\ live.owner[r] = NoWork /\ ~Delegated(r)
      BY <2>2 DEF Fresh
    <3>3. asks[r] = NoTicket
      BY <1>1, <3>2 DEF KInv, GateIsBacked
    <3>4. relay.step = "bind" => relay.run # r
      BY <1>1, <3>2 DEF KInv, RelayBacked
    <3> QED
      BY <2>2, <3>1, <3>2, <3>3, <3>4 DEF PhaseStep
  <2> QED
    BY <2>1, <2>2
<1>5. phase'[r] # "none" \/ Delegated(r)
  BY <1>2
<1>6. TraceStep
  BY DEF TraceStep, TraceKeeps
<1>7. KInv'
  BY <1>3, <1>4, <1>5, <1>6, OwningStep
<1> QED
  BY <1>3, <1>4, <1>7

LEMMA BeginStep ==
    ASSUME HInv, NEW p \in Prompts, NEW r \in Runs, PromptBegin(p, r)
    PROVE  HInv'
<1> DEFINE w == prompt[p].work
<1>1. /\ prompt[p].step = "prepare" /\ up /\ Fresh(r) /\ phase[r] = "none"
      /\ live.owner[r] = NoWork /\ ~Delegated(r)
      /\ asks' = asks /\ relay' = relay /\ trace' = trace /\ denied' = denied
  BY DEF PromptBegin, PromptAt, Fresh
<1>2. /\ IInv /\ TInv /\ KInv /\ w \in Works /\ bound \subseteq Works
  BY <1>1 DEF HInv, TInv, PromptTypes, PromptFields
<1>3. RelayTypes' /\ TraceTypes' /\ TraceStep
  BY <1>1, <1>2, SameTypes
<1>4. CASE /\ BindExecution(w, r) /\ phase' = [phase EXCEPT ![r] = "running"]
           /\ Becomes(p, "start", r) /\ bound' = bound
  <2>1. /\ IInv' /\ LiveKeeps /\ up' = up /\ live'.pending = live.pending
        /\ live'.owner = [live.owner EXCEPT ![r] = w]
    BY <1>2, <1>4, BindOperation
  <2>2. RelayBacked'
    <3>1. /\ RelayBacked /\ RelayFields /\ phase \in [Runs -> OptStates]
          /\ live.owner \in [Runs -> Works \cup {NoWork}]
      BY <1>2, TFacts, IFacts DEF KInv
    <3>2. relay.step = "bind" => relay.run # r /\ live'.owner[relay.run] = live.owner[relay.run]
      BY <1>1, <2>1, <3>1 DEF RelayBacked, RelayFields
    <3>3. asks[r] = NoTicket /\ "running" \in WorkStates
      BY <1>1, <1>2 DEF KInv, GateIsBacked, WorkStates
    <3>4. PhaseStep
      BY <1>1, <1>4, <3>2, <3>3 DEF PhaseStep
    <3> QED
      BY <1>1, <1>3, <2>1, <3>2, <3>4, RelayUntouched
  <2>3. RelayGoesOn
    BY <1>1 DEF RelayGoesOn
  <2>4. KInv' /\ PhaseStep
    BY <1>1, <1>2, <1>4, <2>2, <2>3, BindingStep
  <2>5. PromptTypes'
    BY <1>2, <1>4, BecomesMoves
  <2>6. TInv'
    BY <1>1, <1>2, <1>3, <2>1, <2>4, <2>5, TypesKeep
  <2> QED
    BY <2>1, <2>4, <2>6 DEF HInv
<1>5. CASE /\ phase' = [phase EXCEPT ![r] = "failed"] /\ Refused(p) /\ Suspend(p)
           /\ UNCHANGED gatewayVars
  <2>1. IInv' /\ Stays
    BY <1>2, <1>5, StutterOperation
  <2>2. PhaseStep
    <3>1. asks[r] = NoTicket /\ (relay.step = "bind" => relay.run # r)
      BY <1>1, <1>2 DEF KInv, GateIsBacked, RelayBacked
    <3>2. "failed" \in WorkStates
      BY DEF WorkStates, TerminalStates
    <3> QED
      BY <1>1, <1>5, <3>1, <3>2 DEF PhaseStep
  <2>3. bound' \subseteq Works
    BY <1>2, <1>5 DEF Suspend
  <2>4. PromptTypes'
    BY <1>2, <1>5, <2>3, RefusedMoves
  <2>5. TInv'
    BY <1>1, <1>2, <1>3, <2>1, <2>2, <2>4, TypesKeep DEF Stays
  <2>6. KInv'
    BY <1>1, <1>3, <2>1, <2>2, OthersStep
  <2> QED
    BY <2>1, <2>5, <2>6 DEF HInv
<1> QED
  BY <1>4, <1>5 DEF PromptBegin

LEMMA StartPromptStep ==
    ASSUME HInv, NEW p \in Prompts, PromptStart(p)
    PROVE  HInv'
<1> DEFINE w == prompt[p].work
           r == prompt[p].run
<1>1. /\ prompt[p].step = "start" /\ up /\ RecordExecutionTransition(w, r, "running")
      /\ trace' = TraceState(r, "running") /\ Becomes(p, "turn", r)
      /\ phase' = phase /\ asks' = asks /\ relay' = relay /\ bound' = bound /\ denied' = denied
  BY DEF PromptStart, PromptAt, kernelVars
<1>2. IInv /\ TInv /\ KernelBacked /\ w \in Works /\ r \in Runs
  BY <1>1 DEF HInv, KInv, TInv, PromptTypes, PromptFields
<1>3. IInv' /\ Stays /\ resolving = NotResolving
  BY <1>1, <1>2, StatesRequested, TransitionOperation
<1>4. PhaseStep /\ up'
  BY <1>1, <1>3 DEF PhaseStep, Stays
<1>5. TraceTypes' /\ TraceStep
  BY <1>1, <1>2, <1>3, TransitionTrace
<1>6. PromptTypes'
  BY <1>1, <1>2, BecomesMoves
<1>7. TInv'
  BY <1>1, <1>2, <1>4, <1>5, <1>6, SameTypes, TypesKeep
<1>8. KInv'
  BY <1>1, <1>3, <1>4, <1>5, OthersStep
<1> QED
  BY <1>3, <1>7, <1>8 DEF HInv

\* transition_acp_run: the journal, then the kernel.
LEMMA AcpTransition ==
    ASSUME HInv, up, NEW w \in Works, NEW r \in Runs, NEW s \in RequestedStates, NEW ok,
           TransitionAcpRun(w, r, s, ok), relay' = relay, denied' = denied, PromptTypes'
    PROVE  HInv'
<1>1. IInv /\ TInv /\ KernelBacked /\ GateIsBacked
  BY DEF HInv, KInv
<1>2. asks' = asks
  BY DEF TransitionAcpRun
<1>3. CASE /\ RecordExecutionTransition(w, r, s) /\ trace' = TraceState(r, EventState(s))
           /\ phase' = KernelAfter(r, s)
  <2>1. /\ IInv' /\ Stays /\ resolving = NotResolving
        /\ live.owner[r] = w /\ (live.run[r] # "none" => live'.run[r] = s)
    BY <1>1, <1>3, TransitionOperation
  <2>2. PhaseStep
    <3>1. CASE KernelMoves(r, s)
      <4>1. asks[r] = NoTicket /\ phase[r] \notin {"failed", "none"}
        BY <1>1, <3>1, GateHolds
      <4>2. live.owner[r] # NoWork /\ s \in WorkStates
        BY <2>1, GatewayConstants, StatesRequested
      <4>4. live'.run[r] = s
        BY <1>1, <2>1, <4>1, <4>2 DEF KernelBacked
      <4>3. phase' = [phase EXCEPT ![r] = s]
        BY <1>3, <3>1 DEF KernelAfter
      <4> QED
        BY <4>1, <4>2, <4>3, <4>4, OwnedMoves
    <3>2. CASE ~KernelMoves(r, s)
      BY <1>3, <3>2 DEF PhaseStep, KernelAfter
    <3> QED
      BY <3>1, <3>2
  <2>3. TraceTypes' /\ TraceStep
    BY <1>1, <1>3, <2>1, TransitionTrace
  <2>4. TInv'
    BY <1>1, <1>2, <2>1, <2>2, <2>3, SameTypes, TypesKeep DEF Stays
  <2>5. KInv'
    BY <1>2, <2>1, <2>2, <2>3, OthersStep
  <2> QED
    BY <2>1, <2>4, <2>5 DEF HInv
<1>4. CASE UNCHANGED <<gatewayVars, trace, phase>>
  BY <1>2, <1>4, QuietPrompt DEF kernelVars
<1> QED
  BY <1>3, <1>4 DEF TransitionAcpRun

LEMMA RecordStep ==
    ASSUME HInv, NEW p \in Prompts, PromptRecord(p) \/ PromptComplete(p)
    PROVE  HInv'
<1>1. TInv /\ bound \subseteq Works
  BY DEF HInv, TInv, PromptTypes
<1>2. CASE PromptRecord(p)
  <2>1. /\ prompt[p].step = "answered" /\ up /\ relay' = relay /\ bound' = bound /\ denied' = denied
        /\ Becomes(p, "verified", prompt[p].run) \/ Refused(p)
        /\ \E ok \in BOOLEAN :
             TransitionAcpRun(prompt[p].work, prompt[p].run, prompt[p].outcome, ok)
    BY <1>2 DEF PromptRecord, PromptAt
  <2>2. /\ prompt[p].work \in Works /\ prompt[p].run \in Runs
        /\ prompt[p].outcome \in RequestedStates
    BY <1>1, <2>1, StatesRequested DEF TInv, PromptTypes, PromptFields
  <2>3. PromptTypes'
    BY <1>1, <2>1, <2>2, BecomesMoves, RefusedMoves
  <2> QED
    BY <2>1, <2>2, <2>3, AcpTransition
<1>3. CASE PromptComplete(p)
  <2>1. /\ prompt[p].step = "verified" /\ up /\ relay' = relay /\ bound' = bound /\ denied' = denied
        /\ Refused(p)
        /\ \E ok \in BOOLEAN : TransitionAcpRun(prompt[p].work, prompt[p].run, "completed", ok)
    BY <1>3 DEF PromptComplete, PromptAt
  <2>2. prompt[p].work \in Works /\ prompt[p].run \in Runs
    BY <1>1, <2>1 DEF TInv, PromptTypes, PromptFields
  <2>3. PromptTypes'
    BY <1>1, <2>1, RefusedMoves
  <2> QED
    BY <2>1, <2>2, <2>3, StatesRequested, AcpTransition
<1> QED
  BY <1>2, <1>3

\* Every step of a prompt keeps the invariant.
LEMMA PromptKeeps ==
    ASSUME HInv, NEW p \in Prompts, PromptStep(p)
    PROVE  HInv'
BY AdmitStep, PrepareStep, TurnRefusedStep, ReuseStep, ResumeStep, StartPromptStep, BeginStep, AnswerStep, RecordStep
   DEF PromptStep, PromptLocked

-----------------------------------------------------------------------------
(* The relay.                                                              *)

LEMMA IdleIsTyped == Idle \in RelayRecord /\ Idle.step = "idle"
BY DEF Idle, RelayRecord

\* The relay moves to x.
LEMMA RelayMoves ==
    ASSUME NEW x \in RelayRecord, relay' = x,
           x.step # "idle" => x.work \in Works,
           x.step \notin {"idle", "observe", "verify"} => x.run \in Runs,
           x.step \in {"journal", "apply"} => x.state \in RelayStates,
           x.step \in {"ask", "asked", "resolve", "finish", "resolved"} => x.item \in Tickets,
           x.step \in {"resolve", "finish", "resolved"} => x.state \in {"running", "failed"},
           x.step \in {"observe", "verify"} => x.item \in Effects
    PROVE  RelayTypes'
BY DEF RelayTypes, RelayFields

\* The relay is done with its request.
LEMMA RelayIdles ==
    ASSUME relay' = Idle
    PROVE  RelayTypes' /\ RelayBacked'
<1>1. Idle \in RelayRecord /\ Idle.step = "idle"
  BY IdleIsTyped
<1>2. RelayTypes'
  BY <1>1 DEF RelayTypes, RelayFields
<1> QED
  BY <1>1, <1>2 DEF RelayBacked

\* The relay goes on with its request to step y.
LEMMA RelayNext ==
    ASSUME TInv, NEW y \in {"apply", "asked", "finish", "resolved", "verify", "child_start"},
           relay' = [relay EXCEPT !.step = y]
    PROVE  /\ relay' \in RelayRecord
           /\ relay'.step = y /\ relay'.work = relay.work /\ relay'.run = relay.run
           /\ relay'.state = relay.state /\ relay'.item = relay.item
<1>1. relay \in RelayRecord
  BY TFacts
<1> QED
  BY <1>1 DEF RelayRecord

\* A step of the relay, outside a resolution, that changes no owner.
LEMMA RelayStays ==
    ASSUME HInv, up, IInv', Stays, PhaseStep, TraceStep, TraceTypes', asks' = asks,
           relay.step \notin {"finish", "resolved"}, RelayTypes', RelayBacked',
           prompt' = prompt, bound' = bound
    PROVE  HInv'
<1>1. TInv /\ up'
  BY DEF HInv, Stays
<1>2. RelayGoesOn
  BY DEF RelayGoesOn
<1>3. KInv'
  BY <1>2, StayingStep
<1>4. TInv'
  BY <1>1, SameTypes, TypesKeep
<1> QED
  BY <1>3, <1>4 DEF HInv

\* ... and changes no more than the relay itself.
LEMMA RelayOnly ==
    ASSUME HInv, up, UNCHANGED <<gatewayVars, kernelVars, prompt, bound, trace, denied>>,
           relay.step \notin {"finish", "resolved"}, RelayTypes', RelayBacked'
    PROVE  HInv'
<1>1. IInv' /\ Stays /\ TraceTypes' /\ TraceStep
  BY StutterOperation, SameTypes DEF HInv
<1>2. PhaseStep /\ asks' = asks
  BY DEF PhaseStep, kernelVars
<1> QED
  BY <1>1, <1>2, RelayStays

LEMMA RefusesStep ==
    ASSUME HInv, up, RelayRefuses, UNCHANGED <<prompt, bound>>,
           relay.step \notin {"finish", "resolved"}
    PROVE  HInv'
BY RelayIdles, RelayOnly DEF RelayRefuses

LEMMA RelayCreateStep ==
    ASSUME HInv, NEW w \in Works, RelayCreate(w)
    PROVE  HInv'
<1>1. /\ CreateWork(w) /\ up /\ phase' = phase /\ asks' = asks /\ relay' = relay
      /\ prompt' = prompt /\ bound' = bound /\ trace' = trace /\ denied' = denied
  BY DEF RelayCreate, RelayIdle, kernelVars
<1>2. IInv /\ TInv
  BY DEF HInv
<1>3. IInv' /\ Stays
  BY <1>1, <1>2, CreateWorkOperation
<1>4. PhaseStep /\ up'
  BY <1>1, <1>3 DEF PhaseStep, Stays
<1>5. RelayTypes' /\ PromptTypes' /\ TraceTypes' /\ TraceStep
  BY <1>1, <1>2, SameTypes
<1>6. TInv' /\ KInv'
  BY <1>1, <1>2, <1>3, <1>4, <1>5, TypesKeep, OthersStep
<1> QED
  BY <1>3, <1>6 DEF HInv

LEMMA RelayBeginStep ==
    ASSUME HInv, NEW w \in Works, NEW r \in Runs, RelayBegin(w, r)
    PROVE  HInv'
<1> DEFINE x == [Idle EXCEPT !.step = "bind", !.work = w, !.run = r]
<1>1. /\ relay.step = "idle" /\ up /\ phase[r] = "none" /\ live.owner[r] = NoWork /\ ~Delegated(r)
      /\ phase' = [phase EXCEPT ![r] = "ready"] /\ relay' = x
      /\ UNCHANGED gatewayVars /\ asks' = asks
      /\ prompt' = prompt /\ bound' = bound /\ trace' = trace /\ denied' = denied
  BY DEF RelayBegin, RelayIdle, Fresh
<1>2. x \in RelayRecord /\ x.step = "bind" /\ x.work = w /\ x.run = r
  BY DEF Idle, RelayRecord
<1> HIDE DEF x
<1>3. IInv' /\ Stays /\ TraceTypes' /\ TraceStep
  BY <1>1, StutterOperation, SameTypes DEF HInv
<1>4. PhaseStep
  <2>1. asks[r] = NoTicket
    BY <1>1 DEF HInv, KInv, GateIsBacked
  <2>2. "ready" \in WorkStates
    BY DEF WorkStates
  <2> QED
    BY <1>1, <2>1, <2>2 DEF PhaseStep
<1>5. RelayTypes'
  BY <1>1, <1>2, RelayMoves
<1>6. RelayBacked'
  <2>1. phase \in [Runs -> OptStates]
    BY TFacts DEF HInv
  <2>2. phase'[r] = "ready" /\ live'.owner[r] = NoWork
    BY <1>1, <2>1 DEF gatewayVars
  <2> QED
    BY <1>1, <1>2, <2>2 DEF RelayBacked
<1> QED
  BY <1>1, <1>3, <1>4, <1>5, <1>6, RelayStays

LEMMA RelayBindStep ==
    ASSUME HInv, RelayBind
    PROVE  HInv'
<1>1. relay.step = "bind" /\ up /\ prompt' = prompt /\ bound' = bound
  BY DEF RelayBind, RelayAt
<1>2. CASE /\ BindExecution(relay.work, relay.run) /\ relay' = Idle
           /\ UNCHANGED <<kernelVars, trace, denied>>
  <2>1. /\ relay.work \in Works /\ relay.run \in Runs /\ phase[relay.run] = "ready" /\ TInv
    BY <1>1, TFacts DEF HInv, KInv, RelayFields, RelayBacked
  <2>2. RelayGoesOn
    BY <1>1 DEF RelayGoesOn
  <2>3. phase' = phase /\ asks' = asks /\ trace' = trace /\ denied' = denied
    BY <1>2 DEF kernelVars
  <2>4. RelayTypes' /\ RelayBacked'
    BY <1>2, RelayIdles
  <2>5. IInv' /\ KInv' /\ PhaseStep
    BY <1>2, <2>1, <2>2, <2>3, <2>4, BindingStep
  <2>6. up'
    BY <1>2 DEF BindExecution, AppendEvent, AppendRow
  <2>7. TInv'
    BY <1>1, <2>1, <2>3, <2>4, <2>5, <2>6, SameTypes, TypesKeep
  <2> QED
    BY <2>5, <2>7 DEF HInv
<1>3. CASE RelayRefuses
  BY <1>1, <1>3, RefusesStep
<1> QED
  BY <1>2, <1>3 DEF RelayBind

LEMMA RelayTransitionStep ==
    ASSUME HInv, NEW w \in Works, NEW r \in Runs, NEW s \in RelayStates, RelayTransition(w, r, s)
    PROVE  HInv'
<1> DEFINE x == [Idle EXCEPT !.step = "journal", !.work = w, !.run = r, !.state = s]
<1>1. /\ relay.step = "idle" /\ up /\ relay' = x /\ phase[r] # "none" /\ phase' = phase
      /\ UNCHANGED <<gatewayVars, kernelVars, prompt, bound, trace, denied>>
  BY DEF RelayTransition, RelayIdle, KernelValidates, kernelVars
<1>2. x \in RelayRecord /\ x.step = "journal" /\ x.work = w /\ x.run = r /\ x.state = s
  BY DEF Idle, RelayRecord
<1> HIDE DEF x
<1>3. RelayTypes'
  BY <1>1, <1>2, RelayMoves
<1>4. RelayBacked'
  BY <1>1, <1>2 DEF RelayBacked
<1> QED
  BY <1>1, <1>3, <1>4, RelayOnly

LEMMA RelayJournalStep ==
    ASSUME HInv, RelayJournal
    PROVE  HInv'
<1>1. relay.step = "journal" /\ up /\ prompt' = prompt /\ bound' = bound
  BY DEF RelayJournal, RelayAt
<1>2. CASE /\ RecordExecutionTransition(relay.work, relay.run, relay.state)
           /\ trace' = TraceState(relay.run, EventState(relay.state))
           /\ relay' = [relay EXCEPT !.step = "apply"]
           /\ UNCHANGED <<kernelVars, denied>>
  <2>1. /\ relay.work \in Works /\ relay.run \in Runs /\ relay.state \in RelayStates
        /\ relay.state \in RequestedStates /\ IInv /\ TInv /\ KernelBacked
        /\ phase[relay.run] # "none"
    BY <1>1, TFacts, StatesRequested DEF HInv, KInv, RelayFields, RelayBacked
  <2>9. /\ IInv' /\ Stays /\ resolving = NotResolving /\ live.owner[relay.run] = relay.work
        /\ live.run[relay.run] # "none" => live'.run[relay.run] = relay.state
    BY <1>2, <2>1, TransitionOperation
  <2>2. IInv' /\ Stays /\ resolving = NotResolving /\ live'.run[relay.run] = relay.state
    BY <2>1, <2>9, GatewayConstants DEF KernelBacked
  <2>3. phase' = phase /\ asks' = asks /\ denied' = denied
    BY <1>2 DEF kernelVars
  <2>4. PhaseStep
    BY <2>3 DEF PhaseStep
  <2>5. TraceTypes' /\ TraceStep
    BY <1>2, <2>1, <2>2, <2>3, TransitionTrace
  <2>6. /\ relay' \in RelayRecord
        /\ relay'.step = "apply" /\ relay'.work = relay.work /\ relay'.run = relay.run
        /\ relay'.state = relay.state /\ relay'.item = relay.item
    BY <1>2, <2>1, RelayNext
  <2>7. RelayTypes'
    BY <2>1, <2>6, RelayMoves
  <2>8. RelayBacked'
    BY <2>2, <2>6 DEF RelayBacked
  <2> QED
    BY <1>1, <2>2, <2>3, <2>4, <2>5, <2>7, <2>8, RelayStays
<1>3. CASE RelayRefuses
  BY <1>1, <1>3, RefusesStep
<1> QED
  BY <1>2, <1>3 DEF RelayJournal

LEMMA RelayApplyStep ==
    ASSUME HInv, RelayApply
    PROVE  HInv'
<1>1. /\ relay.step = "apply" /\ up /\ relay' = Idle
      /\ phase' = KernelAfter(relay.run, relay.state)
      /\ UNCHANGED gatewayVars /\ asks' = asks
      /\ prompt' = prompt /\ bound' = bound /\ trace' = trace /\ denied' = denied
  BY DEF RelayApply, RelayAt
<1>2. /\ relay.run \in Runs /\ relay.state \in WorkStates /\ GateIsBacked
      /\ relay.state \in TerminalStates => live.run[relay.run] = relay.state
  BY <1>1, TFacts, StatesRequested DEF HInv, KInv, RelayFields, RelayBacked
<1>3. IInv' /\ Stays /\ TraceTypes' /\ TraceStep
  BY <1>1, StutterOperation, SameTypes DEF HInv
<1>4. PhaseStep
  <2>1. CASE KernelMoves(relay.run, relay.state)
    <3>1. asks[relay.run] = NoTicket /\ phase[relay.run] \notin {"failed", "none"}
      BY <1>2, <2>1, GateHolds
    <3>2. relay.state \in {"completed", "cancelled"} => live'.run[relay.run] = relay.state
      BY <1>1, <1>2 DEF gatewayVars, TerminalStates
    <3> QED
      BY <1>1, <1>2, <2>1, <3>1, <3>2 DEF PhaseStep, KernelAfter
  <2>2. CASE ~KernelMoves(relay.run, relay.state)
    BY <1>1, <2>2 DEF PhaseStep, KernelAfter
  <2> QED
    BY <2>1, <2>2
<1>5. RelayTypes' /\ RelayBacked'
  BY <1>1, RelayIdles
<1> QED
  BY <1>1, <1>3, <1>4, <1>5, RelayStays

LEMMA RelayAskStep ==
    ASSUME HInv, NEW w \in Works, NEW r \in Runs, NEW t \in Tickets, RelayAsk(w, r, t)
    PROVE  HInv'
<1> DEFINE x == [Idle EXCEPT !.step = "ask", !.work = w, !.run = r, !.item = t]
<1>1. /\ relay.step = "idle" /\ up /\ relay' = x
      /\ UNCHANGED <<gatewayVars, kernelVars, prompt, bound, trace, denied>>
  BY DEF RelayAsk, RelayIdle
<1>2. x \in RelayRecord /\ x.step = "ask" /\ x.work = w /\ x.run = r /\ x.item = t
  BY DEF Idle, RelayRecord
<1> HIDE DEF x
<1>3. RelayTypes'
  BY <1>1, <1>2, RelayMoves
<1>4. RelayBacked'
  BY <1>1, <1>2 DEF RelayBacked
<1> QED
  BY <1>1, <1>3, <1>4, RelayOnly

LEMMA RelayAskJournalStep ==
    ASSUME HInv, RelayAskJournal
    PROVE  HInv'
<1>1. relay.step = "ask" /\ up /\ prompt' = prompt /\ bound' = bound
  BY DEF RelayAskJournal, RelayAt
<1>2. CASE /\ RecordPendingApproval(relay.work, relay.run, relay.item)
           /\ relay' = [relay EXCEPT !.step = "asked"]
           /\ UNCHANGED <<kernelVars, trace, denied>>
  <2>1. /\ relay.work \in Works /\ relay.run \in Runs /\ relay.item \in Tickets
        /\ IInv /\ TInv
    BY <1>1, TFacts DEF HInv, RelayFields
  <2>2. IInv' /\ Stays /\ <<relay.item, relay.run>> \in live'.pending
    BY <1>2, <2>1, RequestOperation
  <2>3. phase' = phase /\ asks' = asks /\ trace' = trace /\ denied' = denied
    BY <1>2 DEF kernelVars
  <2>4. PhaseStep /\ TraceTypes' /\ TraceStep
    BY <2>1, <2>3, SameTypes DEF PhaseStep
  <2>5. /\ relay' \in RelayRecord
        /\ relay'.step = "asked" /\ relay'.work = relay.work /\ relay'.run = relay.run
        /\ relay'.state = relay.state /\ relay'.item = relay.item
    BY <1>2, <2>1, RelayNext
  <2>6. RelayTypes'
    BY <2>1, <2>5, RelayMoves
  <2>7. RelayBacked'
    BY <2>2, <2>5 DEF RelayBacked
  <2> QED
    BY <1>1, <2>2, <2>3, <2>4, <2>6, <2>7, RelayStays
<1>3. CASE RelayRefuses
  BY <1>1, <1>3, RefusesStep
<1> QED
  BY <1>2, <1>3 DEF RelayAskJournal

LEMMA RelayAskApplyStep ==
    ASSUME HInv, RelayAskApply
    PROVE  HInv'
<1> DEFINE r == relay.run
<1>1. /\ relay.step = "asked" /\ up /\ relay' = Idle
      /\ asks' = IF phase[r] = "waiting_approval" /\ asks[r] = NoTicket
                 THEN [asks EXCEPT ![r] = relay.item] ELSE asks
      /\ UNCHANGED gatewayVars /\ phase' = phase
      /\ prompt' = prompt /\ bound' = bound /\ trace' = trace /\ denied' = denied
  BY DEF RelayAskApply, RelayAt
<1>2. /\ IInv /\ TInv /\ KInv /\ r \in Runs /\ relay.item \in Tickets
      /\ <<relay.item, r>> \in live.pending
      /\ asks \in [Runs -> Tickets \cup {NoTicket}]
  BY <1>1, TFacts DEF HInv, KInv, RelayFields, RelayBacked
<1>3. IInv' /\ Stays /\ TraceTypes' /\ TraceStep /\ PromptTypes'
  BY <1>1, <1>2, StutterOperation, SameTypes
<1>4. PhaseStep /\ RelayGoesOn
  BY <1>1 DEF PhaseStep, RelayGoesOn
<1>5. RelayTypes' /\ RelayBacked'
  BY <1>1, RelayIdles
<1>6. asks' \in [Runs -> Tickets \cup {NoTicket}]
  BY <1>1, <1>2
<1>7. TInv'
  BY <1>1, <1>2, <1>3, <1>5, <1>6 DEF TInv, KernelTypes, DownIsEmpty, Stays
<1>8. GateIsBacked'
  <2> SUFFICES ASSUME NEW q \in Runs, asks'[q] # NoTicket
               PROVE  phase'[q] = "waiting_approval" /\ <<asks'[q], q>> \in live'.pending
    BY DEF GateIsBacked
  <2>1. live' = live
    BY <1>1 DEF gatewayVars
  <2>2. CASE asks'[q] = asks[q]
    BY <1>1, <1>2, <2>1, <2>2 DEF KInv, GateIsBacked
  <2>3. CASE asks'[q] # asks[q]
    <3>1. q = r /\ phase[r] = "waiting_approval" /\ asks'[q] = relay.item
      BY <1>1, <1>2, <2>3
    <3> QED
      BY <1>1, <1>2, <2>1, <3>1
  <2> QED
    BY <2>2, <2>3
<1>9. Placed' /\ KernelBacked'
  BY <1>1, <1>2, <1>3, <1>4, PlacedStays, KernelStays DEF KInv, Stays, TraceStep, TraceKeeps
<1>10. PledgeKnown' /\ DenialKnown'
  BY <1>1, <1>2, <1>3, <1>4, PledgeStays, DenialStays DEF KInv, Stays, TraceStep
<1> QED
  BY <1>3, <1>5, <1>7, <1>8, <1>9, <1>10 DEF HInv, KInv

LEMMA RelayResolveStep ==
    ASSUME HInv, NEW w \in Works, NEW r \in Runs, NEW t \in Tickets, NEW approved \in BOOLEAN,
           RelayResolve(w, r, t, approved)
    PROVE  HInv'
<1> DEFINE s == IF approved THEN "running" ELSE "failed"
           x == [Idle EXCEPT !.step = "resolve", !.work = w, !.run = r, !.item = t, !.state = s]
<1>1. /\ relay.step = "idle" /\ up /\ relay' = x /\ asks[r] = t
      /\ UNCHANGED <<gatewayVars, kernelVars, prompt, bound, trace, denied>>
  BY DEF RelayResolve, RelayIdle
<1>2. s \in {"running", "failed"} /\ s \in RelayStates
  BY DEF RelayStates, TerminalStates
<1> HIDE DEF s
<1>3. x \in RelayRecord /\ x.step = "resolve" /\ x.work = w /\ x.run = r /\ x.item = t /\ x.state = s
  BY <1>2 DEF Idle, RelayRecord
<1> HIDE DEF x
<1>4. RelayTypes'
  BY <1>1, <1>2, <1>3, RelayMoves
<1>5. RelayBacked'
  BY <1>1, <1>3 DEF RelayBacked, kernelVars
<1> QED
  BY <1>1, <1>4, <1>5, RelayOnly

\* The first row of a resolution: the kernel still waits for the ticket, and
\* the rows promise the Run's next state.
LEMMA RelayResolveJournalStep ==
    ASSUME HInv, RelayResolveJournal
    PROVE  HInv'
<1> DEFINE r == relay.run
           t == relay.item
           s == relay.state
<1>1. relay.step = "resolve" /\ up /\ prompt' = prompt /\ bound' = bound
  BY DEF RelayResolveJournal, RelayAt
<1>2. CASE /\ ResolvePendingApproval(relay.work, r, t, s = "running")
           /\ trace' = TraceResolved(r, s)
           /\ denied' = IF s = "failed" THEN denied \cup {r} ELSE denied
           /\ relay' = [relay EXCEPT !.step = "finish"]
           /\ UNCHANGED kernelVars
  <2>1. /\ relay.work \in Works /\ r \in Runs /\ t \in Tickets /\ s \in {"running", "failed"}
        /\ IInv /\ TInv /\ KInv /\ asks[r] = t
    BY <1>1, TFacts DEF HInv, KInv, RelayFields, RelayBacked
  <2>2. /\ IInv' /\ RowsKeep /\ up' = up
        /\ live'.owner = live.owner /\ live'.run = live.run
        /\ live'.pending = live.pending \ {<<t, r>>}
        /\ replay'.run = replay.run
        /\ err' = "none" => replay'.owner[r] \in replay'.works
        /\ resolving = NotResolving
        /\ resolving' = [run |-> r, next |-> IF s = "running" THEN "running" ELSE "failed"]
    <3>1. IInv' /\ RowsKeep /\ up' = up /\ resolving = NotResolving
      BY <1>2, <2>1, ResolveOperation
    <3>2. /\ live'.owner = live.owner /\ live'.run = live.run
          /\ live'.pending = live.pending \ {<<t, r>>}
          /\ replay'.run = replay.run
      BY <1>2, <2>1, ResolveOperation
    <3>3. err' = "none" => replay'.owner[r] \in replay'.works
      BY <1>2, <2>1, ResolveOperation
    <3>4. resolving' = [run |-> r, next |-> IF s = "running" THEN "running" ELSE "failed"]
      BY <1>2, HostConstants DEF ResolvePendingApproval, AppendRow, Acknowledge
    <3> QED
      BY <3>1, <3>2, <3>3, <3>4
  <2>16. /\ live.owner[r] = relay.work /\ replay'.owner = replay.owner
         /\ replay'.works = replay.works
    BY <1>2, <2>1, ResolveOperation
  <2>3. phase' = phase /\ asks' = asks
    BY <1>2 DEF kernelVars
  <2>4. /\ relay' \in RelayRecord
        /\ relay'.step = "finish" /\ relay'.work = relay.work /\ relay'.run = r
        /\ relay'.state = s /\ relay'.item = t
    BY <1>2, <2>1, RelayNext
  <2>5. RelayTypes'
    BY <2>1, <2>4, RelayMoves
  <2>6. /\ TraceTypes' /\ denied \subseteq Runs
        /\ trace'.pledge = [trace.pledge EXCEPT ![r] = s]
        /\ trace.pledge \in [Runs -> {"none", "running", "failed"}]
        /\ trace'.delegated = trace.delegated /\ trace'.archived = trace.archived
    BY <1>2, <2>1 DEF TInv, TraceTypes, TraceRecord, TraceResolved
  <2>7. PhaseStep
    BY <2>3 DEF PhaseStep
  <2>8. TInv'
    BY <1>1, <2>1, <2>2, <2>3, <2>5, <2>6, <2>7, SameTypes, TypesKeep
  <2>9. RelayBacked'
    BY <2>1, <2>3, <2>4 DEF RelayBacked
  <2>15. LiveKeeps
    BY <2>2 DEF LiveKeeps
  <2>10. Placed' /\ KernelBacked'
    BY <2>1, <2>2, <2>6, <2>7, <2>15, <2>16, PlacedStays, KernelStays DEF KInv
  <2>11. GateIsBacked'
    <3> SUFFICES ASSUME NEW q \in Runs, asks[q] # NoTicket
                 PROVE  /\ phase[q] = "waiting_approval"
                        /\ \/ <<asks[q], q>> \in live'.pending
                           \/ /\ relay'.step \in {"finish", "resolved"}
                              /\ relay'.run = q /\ relay'.item = asks[q]
      BY <2>3 DEF GateIsBacked
    <3>1. phase[q] = "waiting_approval" /\ <<asks[q], q>> \in live.pending
      BY <1>1, <2>1 DEF KInv, GateIsBacked
    <3>2. CASE q = r
      BY <2>1, <2>4, <3>1, <3>2
    <3>3. CASE q # r
      <4>1. <<asks[q], q>> # <<t, r>>
        BY <3>3
      <4> QED
        BY <2>2, <3>1, <4>1
    <3> QED
      BY <3>2, <3>3
  <2>12. \A q \in Runs : trace.pledge[q] = "none"
    BY <1>1, <2>1, <2>2, NothingPledged DEF KInv
  <2>13. PledgeKnown'
    <3> SUFFICES ASSUME NEW q \in Runs, trace'.pledge[q] # "none"
                 PROVE  /\ up' => resolving'.run = q /\ resolving'.next = trace'.pledge[q]
                        /\ err' = "none" => replay'.owner[q] \in replay'.works
      BY DEF PledgeKnown
    <3>1. q = r /\ trace'.pledge[q] = s
      BY <2>1, <2>6, <2>12
    <3>2. resolving'.run = r /\ resolving'.next = s
      BY <2>1, <2>2
    <3> QED
      BY <2>2, <3>1, <3>2
  <2>14. DenialKnown'
    <3> SUFFICES ASSUME NEW q \in denied'
                 PROVE  /\ err' = "none" => /\ trace'.pledge[q] = "failed" \/ replay'.run[q] = "failed"
                                            /\ replay'.owner[q] # NoWork
                        /\ up' => /\ live'.owner[q] # NoWork
                                  /\ \/ phase'[q] \in {"failed", "none"}
                                     \/ /\ relay'.step \in {"finish", "resolved"}
                                        /\ relay'.run = q /\ relay'.state = "failed"
      BY DEF DenialKnown
    <3>4. NoWork \notin Works /\ replay'.works \subseteq Works
      <4>1. replay.works \subseteq Works
        BY <2>1, IFacts
      <4> QED
        BY <2>16, <4>1, GatewayConstants
    <3>1. r \notin denied
      <4>1. phase[r] = "waiting_approval"
        BY <2>1, HostConstants DEF KInv, GateIsBacked
      <4> QED
        BY <1>1, <2>1, <4>1 DEF KInv, DenialKnown
    <3>2. CASE q = r
      <4>1. s = "failed"
        BY <1>2, <3>1, <3>2
      <4> QED
        BY <2>1, <2>2, <2>4, <2>6, <2>16, <3>2, <3>4, <4>1
    <3>3. CASE q # r
      <4>1. q \in denied /\ q \in Runs
        BY <1>2, <2>6, <3>3
      <4>2. phase[q] \in {"failed", "none"} /\ live'.owner[q] # NoWork
        BY <1>1, <2>1, <2>2, <4>1 DEF KInv, DenialKnown
      <4>3. err' = "none" => replay'.run[q] = "failed" /\ replay'.owner[q] # NoWork
        BY <2>1, <2>2, <2>12, <4>1 DEF KInv, DenialKnown, RowsKeep
      <4> QED
        BY <2>3, <4>2, <4>3
    <3> QED
      BY <3>2, <3>3
  <2> QED
    BY <2>2, <2>8, <2>9, <2>10, <2>11, <2>13, <2>14 DEF HInv, KInv
<1>3. CASE RelayRefuses
  BY <1>1, <1>3, RefusesStep
<1> QED
  BY <1>2, <1>3 DEF RelayResolveJournal

\* The second row redeems the promise.
LEMMA RelayFinishStep ==
    ASSUME HInv, RelayFinish
    PROVE  HInv'
<1>1. /\ relay.step = "finish" /\ up /\ FinishResolution
      /\ trace' = TraceState(resolving.run, resolving.next)
      /\ relay' = [relay EXCEPT !.step = "resolved"]
      /\ phase' = phase /\ asks' = asks /\ prompt' = prompt /\ bound' = bound /\ denied' = denied
  BY DEF RelayFinish, RelayAt, kernelVars
<1>2. /\ IInv /\ TInv /\ KInv /\ TraceTypes /\ RelayFields
      /\ trace.pledge \in [Runs -> {"none", "running", "failed"}] /\ denied \subseteq Runs
  BY TFacts DEF HInv, TInv
<1>3. /\ IInv' /\ RowsKeep /\ LiveKeeps /\ up' = up /\ resolving' = NotResolving
      /\ live'.owner = live.owner /\ live'.pending = live.pending
      /\ err' = "none" => replay'.run[resolving.run] = resolving.next
      /\ replay'.owner = replay.owner /\ replay'.works = replay.works
  BY <1>1, <1>2, FinishOperation
<1>4. resolving.run \in Runs
  <2>1. resolving # NotResolving /\ ResolvingKnown
    BY <1>1, <1>2 DEF FinishResolution, IInv
  <2> QED
    BY <2>1 DEF ResolvingKnown
<1>5. /\ relay' \in RelayRecord
      /\ relay'.step = "resolved" /\ relay'.work = relay.work /\ relay'.run = relay.run
      /\ relay'.state = relay.state /\ relay'.item = relay.item
  BY <1>1, <1>2, RelayNext
<1>6. RelayTypes' /\ RelayGoesOn
  <2>1. RelayTypes'
    BY <1>1, <1>2, <1>5, RelayMoves DEF RelayFields
  <2> QED
    BY <1>5, <2>1 DEF RelayGoesOn
<1>7. /\ TraceTypes' /\ trace'.pledge = [trace.pledge EXCEPT ![resolving.run] = "none"]
      /\ trace'.delegated = trace.delegated /\ trace'.archived = trace.archived
  <2>1. /\ trace' \in TraceRecord
        /\ trace'.pledge = [trace.pledge EXCEPT ![resolving.run] = "none"]
        /\ trace'.delegated = trace.delegated /\ trace'.archived = trace.archived
    BY <1>1, <1>2, <1>4, TraceStateReads
  <2> QED
    BY <1>1, <1>2, <2>1 DEF TraceTypes
<1>8. PhaseStep
  BY <1>1 DEF PhaseStep
<1>9. TInv'
  BY <1>1, <1>2, <1>3, <1>6, <1>7, <1>8, SameTypes, TypesKeep
<1>10. RelayBacked'
  BY <1>1, <1>2, <1>5 DEF KInv, RelayBacked
<1>15. Placed'
  BY <1>2, <1>3, <1>7, PlacedStays DEF KInv
<1>11. KernelBacked' /\ GateIsBacked'
  BY <1>1, <1>2, <1>3, <1>6, <1>7, <1>8, KernelStays, GateStays DEF KInv
<1>12. \A q \in Runs : trace'.pledge[q] = "none"
  <2> SUFFICES ASSUME NEW q \in Runs PROVE trace'.pledge[q] = "none"
    OBVIOUS
  <2>1. trace.pledge[q] # "none" => resolving.run = q
    BY <1>1, <1>2 DEF KInv, PledgeKnown
  <2> QED
    BY <1>2, <1>7, <2>1
<1>13. PledgeKnown'
  BY <1>12 DEF PledgeKnown
<1>14. DenialKnown'
  <2> SUFFICES ASSUME NEW q \in denied
               PROVE  /\ err' = "none" => replay'.run[q] = "failed" /\ replay'.owner[q] # NoWork
                      /\ up' => /\ live'.owner[q] # NoWork
                                /\ \/ phase'[q] \in {"failed", "none"}
                                   \/ /\ relay'.step \in {"finish", "resolved"}
                                      /\ relay'.run = q /\ relay'.state = "failed"
    BY <1>1 DEF DenialKnown
  <2>1. q \in Runs
    BY <1>2
  <2>2. trace.pledge[q] = "failed" => resolving.run = q /\ resolving.next = "failed"
    BY <1>1, <1>2, <2>1 DEF KInv, PledgeKnown
  <2>3. err' = "none" => replay'.run[q] = "failed" /\ replay'.owner[q] # NoWork
    BY <1>2, <1>3, <2>1, <2>2 DEF KInv, DenialKnown, RowsKeep
  <2> QED
    BY <1>1, <1>2, <1>3, <1>6, <2>3 DEF KInv, DenialKnown, RelayGoesOn
<1> QED
  BY <1>3, <1>9, <1>10, <1>11, <1>13, <1>14, <1>15 DEF HInv, KInv

\* The kernel lets the execution go: the gate it passes is the one it waits at.
LEMMA RelayResolveApplyStep ==
    ASSUME HInv, RelayResolveApply
    PROVE  HInv'
<1> DEFINE r == relay.run
           ok == PhaseCanTransition(phase[r], relay.state) /\ asks[r] = relay.item
<1>1. /\ relay.step = "resolved" /\ up /\ relay' = Idle
      /\ phase' = IF ok THEN [phase EXCEPT ![r] = relay.state] ELSE phase
      /\ asks' = IF ok THEN [asks EXCEPT ![r] = NoTicket] ELSE asks
      /\ UNCHANGED gatewayVars
      /\ prompt' = prompt /\ bound' = bound /\ trace' = trace /\ denied' = denied
  BY DEF RelayResolveApply, RelayAt
<1>2. /\ IInv /\ TInv /\ KInv /\ r \in Runs /\ relay.item \in Tickets
      /\ relay.state \in {"running", "failed"} /\ asks[r] = relay.item
      /\ phase \in [Runs -> OptStates]
      /\ asks \in [Runs -> Tickets \cup {NoTicket}] /\ denied \subseteq Runs
  BY <1>1, TFacts DEF HInv, KInv, RelayFields, RelayBacked
<1>3. phase[r] = "waiting_approval"
  BY <1>2, HostConstants DEF KInv, GateIsBacked
<1>4. ok
  BY <1>2, <1>3 DEF PhaseCanTransition, WaitingStates
<1> HIDE DEF ok
<1>5. phase' = [phase EXCEPT ![r] = relay.state] /\ asks' = [asks EXCEPT ![r] = NoTicket]
  BY <1>1, <1>4
<1>6. IInv' /\ Stays /\ TraceTypes' /\ TraceStep /\ PromptTypes'
  BY <1>1, <1>2, StutterOperation, SameTypes
<1>7. RelayTypes' /\ RelayBacked'
  BY <1>1, RelayIdles
<1>8. relay.state \in OptStates
  BY <1>2 DEF OptStates, WorkStates, TerminalStates
<1>9. TInv'
  BY <1>1, <1>2, <1>5, <1>6, <1>7, <1>8 DEF TInv, KernelTypes, DownIsEmpty, Stays
<1>10. live' = live
  BY <1>1 DEF gatewayVars
<1>11. Placed' /\ KernelBacked'
  <2>1. Placed'
    BY <1>2, <1>6, PlacedStays DEF KInv, Stays, TraceStep, TraceKeeps
  <2>2. \A q \in Runs : phase'[q] = phase[q] \/ (phase[q] # "none" /\ phase'[q] \in {"running", "failed"})
    BY <1>2, <1>3, <1>5
  <2>3. \A q \in Runs : Delegated(q)' = Delegated(q)
    BY <1>1 DEF Delegated
  <2> HIDE DEF Delegated
  <2>4. KernelBacked'
    BY <1>1, <1>2, <1>10, <2>2, <2>3 DEF KInv, KernelBacked
  <2> QED
    BY <2>1, <2>4
<1>12. GateIsBacked'
  BY <1>1, <1>2, <1>5, <1>10 DEF KInv, GateIsBacked
<1>13. PledgeKnown'
  BY <1>2, <1>6, PledgeStays DEF KInv, Stays, TraceStep
<1>14. DenialKnown'
  <2> SUFFICES ASSUME NEW q \in denied
               PROVE  /\ err' = "none" => /\ trace'.pledge[q] = "failed" \/ replay'.run[q] = "failed"
                                          /\ replay'.owner[q] # NoWork
                      /\ live'.owner[q] # NoWork /\ phase'[q] \in {"failed", "none"}
    BY <1>1 DEF DenialKnown
  <2>1. /\ live'.owner[q] # NoWork
        /\ \/ phase[q] \in {"failed", "none"}
           \/ r = q /\ relay.state = "failed"
    BY <1>1, <1>2, <1>10 DEF KInv, DenialKnown
  <2>2. live'.owner[q] # NoWork /\ phase'[q] \in {"failed", "none"}
    BY <1>2, <1>3, <1>5, <2>1
  <2> QED
    BY <1>1, <1>2, <1>6, <2>2 DEF KInv, DenialKnown, gatewayVars
<1> QED
  BY <1>6, <1>7, <1>9, <1>11, <1>12, <1>13, <1>14 DEF HInv, KInv

\* A row about an effect, and what the relay does next.
LEMMA RelayEffectStep ==
    ASSUME HInv, up, NEW w \in Works, NEW e \in Effects, HostOperation,
           NEW s \in EffectStates, NEW why,
           AppendEvent(w, SetEffect(live, w, e, s), SetEffect(replay, w, e, s), why),
           relay.step \notin {"finish", "resolved"},
           RelayTypes', relay'.step \in {"idle", "observe", "verify"},
           UNCHANGED <<kernelVars, prompt, bound, trace, denied>>
    PROVE  HInv'
<1>1. IInv' /\ Stays
  BY EffectOperation DEF HInv
<1>2. /\ phase' = phase /\ asks' = asks /\ prompt' = prompt /\ bound' = bound
      /\ trace' = trace /\ denied' = denied
  BY DEF kernelVars
<1>3. PhaseStep /\ TraceTypes' /\ TraceStep
  BY <1>2, SameTypes DEF PhaseStep, HInv
<1>4. RelayBacked'
  BY DEF RelayBacked
<1> QED
  BY <1>1, <1>2, <1>3, <1>4, RelayStays

LEMMA RelayCommitStep ==
    ASSUME HInv, NEW w \in Works, NEW e \in Effects, RelayCommit(w, e)
    PROVE  HInv'
<1> DEFINE x == [Idle EXCEPT !.step = "observe", !.work = w, !.item = e]
<1>1. /\ relay.step = "idle" /\ up /\ relay' = x /\ RecordEffectAttempted(w, e)
      /\ UNCHANGED <<kernelVars, prompt, bound, trace, denied>>
  BY DEF RelayCommit, RelayIdle
<1>2. x \in RelayRecord /\ x.step = "observe" /\ x.work = w /\ x.item = e
  BY DEF Idle, RelayRecord
<1> HIDE DEF x
<1>3. RelayTypes'
  BY <1>1, <1>2, RelayMoves
<1>4. HostOperation
  BY <1>1 DEF HostOperation, RowOperation
<1>5. "attempted" \in EffectStates
  BY DEF EffectStates
<1> QED
  BY <1>1, <1>2, <1>3, <1>4, <1>5, RelayEffectStep DEF RecordEffectAttempted

LEMMA RelayObserveStep ==
    ASSUME HInv, NEW certain \in BOOLEAN, RelayObserve(certain)
    PROVE  HInv'
<1>1. relay.step = "observe" /\ up /\ prompt' = prompt /\ bound' = bound
  BY DEF RelayObserve, RelayAt
<1>2. CASE /\ RecordEffectObserved(relay.work, relay.item, certain)
           /\ relay' = IF certain THEN [relay EXCEPT !.step = "verify"] ELSE Idle
           /\ UNCHANGED <<kernelVars, trace, denied>>
  <2>1. relay.work \in Works /\ relay.item \in Effects /\ TInv
    BY <1>1, TFacts DEF HInv, RelayFields
  <2>2. HostOperation
    BY <1>2, <2>1 DEF HostOperation, RowOperation
  <2>3. RelayTypes' /\ relay'.step \in {"idle", "observe", "verify"}
    <3>1. CASE certain
      <4>1. /\ relay' \in RelayRecord
            /\ relay'.step = "verify" /\ relay'.work = relay.work /\ relay'.run = relay.run
            /\ relay'.state = relay.state /\ relay'.item = relay.item
        BY <1>2, <2>1, <3>1, RelayNext
      <4> QED
        BY <2>1, <4>1, RelayMoves
    <3>2. CASE ~certain
      BY <1>2, <3>2, RelayIdles, IdleIsTyped
    <3> QED
      BY <3>1, <3>2
  <2>4. \E s \in EffectStates : \E why :
          AppendEvent(relay.work, SetEffect(live, relay.work, relay.item, s),
                      SetEffect(replay, relay.work, relay.item, s), why)
    BY <1>2 DEF RecordEffectObserved, EffectStates
  <2> QED
    BY <1>1, <1>2, <2>1, <2>2, <2>3, <2>4, RelayEffectStep
<1>3. CASE RelayRefuses
  BY <1>1, <1>3, RefusesStep
<1> QED
  BY <1>2, <1>3 DEF RelayObserve

LEMMA RelayVerifyStep ==
    ASSUME HInv, NEW verified \in BOOLEAN, RelayVerify(verified)
    PROVE  HInv'
<1>1. relay.step = "verify" /\ up /\ prompt' = prompt /\ bound' = bound
  BY DEF RelayVerify, RelayAt
<1>2. CASE /\ RecordEffectVerified(relay.work, relay.item, verified)
           /\ relay' = Idle /\ UNCHANGED <<kernelVars, trace, denied>>
  <2>1. relay.work \in Works /\ relay.item \in Effects
    BY <1>1, TFacts DEF HInv, RelayFields
  <2>2. HostOperation
    BY <1>2, <2>1 DEF HostOperation, RowOperation
  <2>3. RelayTypes' /\ relay'.step \in {"idle", "observe", "verify"}
    BY <1>2, RelayIdles, IdleIsTyped
  <2>4. \E s \in EffectStates : \E why :
          AppendEvent(relay.work, SetEffect(live, relay.work, relay.item, s),
                      SetEffect(replay, relay.work, relay.item, s), why)
    BY <1>2 DEF RecordEffectVerified, EffectStates
  <2> QED
    BY <1>1, <1>2, <2>1, <2>2, <2>3, <2>4, RelayEffectStep
<1>3. CASE RelayRefuses
  BY <1>1, <1>3, RefusesStep
<1> QED
  BY <1>2, <1>3 DEF RelayVerify

\* A delegation: a child Work, and a Run the kernel does not have.
LEMMA RelaySpawnStep ==
    ASSUME HInv, NEW w \in Works, NEW c \in Works, NEW r \in Runs, RelaySpawn(w, c, r)
    PROVE  HInv'
<1> DEFINE x == [Idle EXCEPT !.step = "child_bind", !.work = c, !.run = r]
<1>1. /\ relay.step = "idle" /\ up /\ phase[r] = "none" /\ relay' = x
      /\ CreateChildWork(c, w) /\ AppendCreated(c, w)
      /\ trace' = [trace EXCEPT !.delegated = @ \cup {<<c, r>>}]
      /\ phase' = phase /\ asks' = asks /\ prompt' = prompt /\ bound' = bound
      /\ denied' = denied
  BY DEF RelaySpawn, RelayIdle, Fresh, CreateChildWork, kernelVars
<1>2. x \in RelayRecord /\ x.step = "child_bind" /\ x.work = c /\ x.run = r
  BY DEF Idle, RelayRecord
<1> HIDE DEF x
<1>3. IInv /\ TInv /\ KInv /\ TraceTypes
  BY DEF HInv, TInv
<1>4. HostOperation
  BY <1>1 DEF HostOperation, RowOperation
<1>5. IInv' /\ Stays
  BY <1>1, <1>3, <1>4, CreateOperation
<1>6. /\ TraceTypes' /\ trace'.delegated = trace.delegated \cup {<<c, r>>}
      /\ trace'.archived = trace.archived /\ trace'.pledge = trace.pledge
  BY <1>1, <1>3 DEF TraceTypes, TraceRecord
<1>7. \A q \in Runs : Delegated(q)' <=> Delegated(q) \/ q = r
  BY <1>6 DEF Delegated
<1>8. TraceKeeps /\ PhaseStep /\ RelayGoesOn
  BY <1>1, <1>6 DEF TraceKeeps, PhaseStep, RelayGoesOn
<1>9. RelayTypes' /\ RelayBacked'
  <2>1. RelayTypes'
    BY <1>1, <1>2, RelayMoves
  <2> HIDE DEF Delegated
  <2>2. RelayBacked'
    BY <1>1, <1>2, <1>7 DEF RelayBacked
  <2> QED
    BY <2>1, <2>2
<1>10. TInv'
  BY <1>1, <1>3, <1>5, <1>6, <1>8, <1>9, SameTypes, TypesKeep DEF Stays
<1>11. /\ RowsKeep /\ LiveKeeps /\ live'.owner = live.owner /\ live.pending \subseteq live'.pending
       /\ up' = up /\ resolving' = resolving /\ replay.works \subseteq replay'.works
  BY <1>5 DEF Stays
<1>12. KernelBacked'
  <2> HIDE DEF Delegated
  <2>1. {"completed", "cancelled"} \subseteq TerminalStates
    BY DEF TerminalStates
  <2> QED
    BY <1>1, <1>3, <1>6, <1>7, <1>11, <2>1 DEF KInv, KernelBacked, LiveKeeps
<1>13. Placed' /\ GateIsBacked'
  BY <1>1, <1>3, <1>6, <1>8, <1>11, PlacedStays, GateStays DEF KInv
<1>14. PledgeKnown' /\ DenialKnown'
  BY <1>1, <1>3, <1>8, <1>11, PledgeStays, DenialStays DEF KInv
<1> QED
  BY <1>5, <1>9, <1>10, <1>12, <1>13, <1>14 DEF HInv, KInv

\* ... the Run is bound ...
LEMMA RelayChildBindStep ==
    ASSUME HInv, RelayChildBind
    PROVE  HInv'
<1>1. /\ relay.step = "child_bind" /\ up /\ BindExecution(relay.work, relay.run)
      /\ relay' = [relay EXCEPT !.step = "child_start"]
      /\ phase' = phase /\ asks' = asks /\ prompt' = prompt /\ bound' = bound
      /\ trace' = trace /\ denied' = denied
  BY DEF RelayChildBind, RelayAt, kernelVars
<1>2. relay.work \in Works /\ relay.run \in Runs /\ IInv /\ TInv /\ Delegated(relay.run)
  BY <1>1, TFacts DEF HInv, KInv, RelayFields, RelayBacked
<1> HIDE DEF Delegated
<1>3. up' /\ live'.run[relay.run] # "none"
  BY <1>1, <1>2, BindOperation
<1>4. /\ relay' \in RelayRecord
      /\ relay'.step = "child_start" /\ relay'.work = relay.work /\ relay'.run = relay.run
  BY <1>1, <1>2, RelayNext
<1>5. RelayTypes' /\ RelayBacked' /\ RelayGoesOn
  <2>1. RelayTypes'
    BY <1>2, <1>4, RelayMoves
  <2>2. RelayBacked'
    BY <1>3, <1>4 DEF RelayBacked
  <2> QED
    BY <1>1, <2>1, <2>2 DEF RelayGoesOn
<1>6. IInv' /\ KInv' /\ PhaseStep
  BY <1>1, <1>2, <1>5, BindingStep
<1>7. TInv'
  BY <1>1, <1>2, <1>3, <1>5, <1>6, SameTypes, TypesKeep
<1> QED
  BY <1>6, <1>7 DEF HInv

\* ... and started.
LEMMA RelayChildStartStep ==
    ASSUME HInv, RelayChildStart
    PROVE  HInv'
<1>1. /\ relay.step = "child_start" /\ up
      /\ RecordExecutionTransition(relay.work, relay.run, "running")
      /\ trace' = TraceState(relay.run, "running") /\ relay' = Idle
      /\ phase' = phase /\ asks' = asks /\ prompt' = prompt /\ bound' = bound
      /\ denied' = denied
  BY DEF RelayChildStart, RelayAt, kernelVars
<1>2. relay.work \in Works /\ relay.run \in Runs /\ IInv /\ TInv
  BY <1>1, TFacts DEF HInv, RelayFields
<1>3. IInv' /\ Stays /\ resolving = NotResolving
  BY <1>1, <1>2, StatesRequested, TransitionOperation
<1>4. PhaseStep
  BY <1>1 DEF PhaseStep
<1>5. TraceTypes' /\ TraceStep
  BY <1>1, <1>2, <1>3, TransitionTrace
<1>6. RelayTypes' /\ RelayBacked'
  BY <1>1, RelayIdles
<1> QED
  BY <1>1, <1>3, <1>4, <1>5, <1>6, RelayStays

\* Every step of the relay keeps the invariant.
LEMMA RelayKeeps ==
    ASSUME HInv, RelayRequest \/ RelayStep
    PROVE  HInv'
<1>1. CASE RelayRequest
  BY <1>1, RelayCreateStep, RelayCommitStep, RelayBeginStep, RelayTransitionStep, RelayAskStep,
     RelayResolveStep, RelaySpawnStep DEF RelayRequest
<1>2. CASE RelayStep
  BY <1>2, RelayBindStep, RelayJournalStep, RelayApplyStep, RelayAskJournalStep,
     RelayAskApplyStep, RelayResolveJournalStep, RelayFinishStep, RelayResolveApplyStep,
     RelayObserveStep, RelayVerifyStep, RelayChildBindStep, RelayChildStartStep DEF RelayStep
<1> QED
  BY <1>1, <1>2

-----------------------------------------------------------------------------
(* What reaches the journal alone.                                         *)

LEMMA CloseChildStep ==
    ASSUME HInv, NEW c \in Works, NEW r \in Runs, NEW s \in TerminalStates, CloseChild(c, r, s)
    PROVE  HInv'
<1>1. /\ <<c, r>> \in trace.delegated /\ FinishChildWork(c, r, s)
      /\ trace' = TraceState(r, s)
      /\ phase' = phase /\ asks' = asks /\ relay' = relay /\ prompt' = prompt
      /\ bound' = bound /\ denied' = denied
  BY DEF CloseChild, kernelVars
<1>2. IInv /\ TInv /\ KInv
  BY DEF HInv
<1>3. /\ IInv' /\ RowsKeep /\ LiveKeeps /\ replay.works \subseteq replay'.works
      /\ up /\ up' = up /\ resolving = NotResolving /\ resolving' = resolving
      /\ live'.owner = [live.owner EXCEPT ![r] = c] /\ live'.pending = live.pending
  BY <1>1, <1>2, ChildEndOperation
<1>4. PhaseStep /\ RelayGoesOn
  BY <1>1 DEF PhaseStep, RelayGoesOn
<1>5. TraceTypes' /\ TraceStep
  BY <1>1, <1>2, <1>3, TransitionTrace
<1>6. Delegated(r)
  BY <1>1 DEF Delegated
<1> HIDE DEF Delegated
<1>7. phase[r] # "none" => live.owner[r] # NoWork /\ live.run[r] # "none"
  BY <1>2, <1>6 DEF KInv, KernelBacked
<1>8. relay.step = "bind" => live'.owner[relay.run] = live.owner[relay.run]
  <2>1. relay.step = "bind" =>
          relay.run \in Runs /\ phase[relay.run] = "ready" /\ live.owner[relay.run] = NoWork
    BY <1>2, TFacts DEF KInv, RelayBacked, RelayFields
  <2>2. live.owner \in [Runs -> Works \cup {NoWork}]
    BY <1>2, IFacts
  <2> QED
    BY <1>3, <1>7, <2>1, <2>2
<1>9. RelayBacked'
  BY <1>1, <1>3, <1>4, <1>5, <1>8, RelayUntouched
<1>10. phase'[r] # "none" => live'.run[r] # "none"
  BY <1>1, <1>3, <1>7 DEF LiveKeeps
<1>11. KInv'
  BY <1>1, <1>3, <1>4, <1>5, <1>6, <1>9, <1>10, OwningStep
<1>12. TInv'
  BY <1>1, <1>2, <1>3, <1>4, <1>5, SameTypes, TypesKeep
<1> QED
  BY <1>3, <1>11, <1>12 DEF HInv

LEMMA HostArchiveStep ==
    ASSUME HInv, NEW w \in Works, HostArchive(w)
    PROVE  HInv'
<1>1. /\ ArchiveWork(w) /\ trace' = [trace EXCEPT !.archived = @ \cup {w}]
      /\ phase' = phase /\ asks' = asks /\ relay' = relay /\ prompt' = prompt
      /\ bound' = bound /\ denied' = denied
  BY DEF HostArchive, kernelVars
<1>2. IInv /\ TInv /\ KInv /\ TraceTypes
  BY DEF HInv, TInv
<1>3. /\ IInv' /\ RowsKeep /\ LiveKeeps
      /\ up /\ up' = up /\ resolving = NotResolving /\ resolving' = resolving
      /\ live'.owner = live.owner /\ live'.pending = live.pending
      /\ replay'.owner = replay.owner /\ replay.works \subseteq replay'.works \cup {w}
  BY <1>1, <1>2, ArchiveOperation
<1>4. /\ TraceTypes' /\ trace'.archived = trace.archived \cup {w}
      /\ trace'.delegated = trace.delegated /\ trace'.pledge = trace.pledge
  BY <1>1, <1>2 DEF TraceTypes, TraceRecord
<1>5. PhaseStep /\ RelayGoesOn /\ TraceStep
  BY <1>1, <1>4 DEF PhaseStep, RelayGoesOn, TraceStep, TraceKeeps
<1>6. RelayBacked'
  BY <1>1, <1>3, <1>5, RelayUntouched
<1>7. Placed'
  BY <1>2, <1>3, <1>4 DEF KInv, Placed
<1>8. KernelBacked' /\ GateIsBacked'
  BY <1>1, <1>2, <1>3, <1>4, <1>5, KernelStays, GateStays DEF KInv
<1>9. \A r \in Runs : trace.pledge[r] = "none"
  BY <1>2, <1>3, NothingPledged DEF KInv
<1>10. PledgeKnown'
  BY <1>4, <1>9 DEF PledgeKnown
<1>11. DenialKnown'
  BY <1>2, <1>3, <1>5, DenialStays DEF KInv, TraceStep
<1>12. TInv'
  BY <1>1, <1>2, <1>3, <1>4, <1>5, SameTypes, TypesKeep
<1> QED
  BY <1>3, <1>6, <1>7, <1>8, <1>10, <1>11, <1>12 DEF HInv, KInv

\* The row of a steering checkpoint, as recovery reads it.
LEMMA SteerTrace ==
    ASSUME TraceTypes, NEW r \in Runs, NEW id \in Runs,
           trace' = [TraceState(r, "checkpointed") EXCEPT !.id[r] = id], denied' = denied
    PROVE  /\ TraceTypes'
           /\ trace'.pledge = [trace.pledge EXCEPT ![r] = "none"]
           /\ trace'.started = trace.started /\ trace'.illegal = TraceState(r, "checkpointed").illegal
           /\ trace'.archived = trace.archived /\ trace'.delegated = trace.delegated
<1> DEFINE x == TraceState(r, "checkpointed")
<1>1. /\ x \in TraceRecord /\ x.pledge = [trace.pledge EXCEPT ![r] = "none"]
      /\ x.archived = trace.archived /\ x.delegated = trace.delegated
  BY TraceStateReads
<1>2. x.started = trace.started
  BY TraceStateReads
<1> HIDE DEF x
<1>3. trace' = [x EXCEPT !.id[r] = id]
  BY DEF x
<1>4. /\ trace' \in TraceRecord /\ trace'.pledge = x.pledge /\ trace'.started = x.started
      /\ trace'.archived = x.archived /\ trace'.delegated = x.delegated
      /\ trace'.illegal = x.illegal
  BY <1>1, <1>3 DEF TraceRecord
<1> QED
  BY <1>1, <1>2, <1>4 DEF TraceTypes, x

LEMMA HostSteerStep ==
    ASSUME HInv, NEW w \in Works, NEW r \in Runs, NEW id \in Runs, HostSteer(w, r, id)
    PROVE  HInv'
<1>1. /\ ApplySteeringCheckpoint(w, r)
      /\ trace' = [TraceState(r, "checkpointed") EXCEPT !.id[r] = id]
      /\ phase' = phase /\ asks' = asks /\ relay' = relay /\ prompt' = prompt
      /\ bound' = bound /\ denied' = denied
  BY DEF HostSteer, kernelVars
<1>2. /\ IInv /\ TInv /\ TraceTypes /\ trace.pledge \in [Runs -> {"none", "running", "failed"}]
  BY TFacts DEF HInv, TInv
<1>3. IInv' /\ Stays /\ up /\ resolving = NotResolving
  BY <1>1, <1>2, SteerOperation
<1>4. PhaseStep /\ up'
  BY <1>1, <1>3 DEF PhaseStep, Stays
<1>5. /\ TraceTypes' /\ trace'.pledge = [trace.pledge EXCEPT ![r] = "none"]
      /\ trace'.archived = trace.archived /\ trace'.delegated = trace.delegated
  BY <1>1, <1>2, SteerTrace
<1>6. TraceStep
  BY <1>1, <1>2, <1>3, <1>5 DEF TraceStep, TraceKeeps
<1>7. TInv' /\ KInv'
  BY <1>1, <1>2, <1>3, <1>4, <1>5, <1>6, SameTypes, TypesKeep, OthersStep
<1> QED
  BY <1>3, <1>7 DEF HInv

\* Every request of the journal alone keeps the invariant.
LEMMA JournalKeeps ==
    ASSUME HInv, JournalRequest
    PROVE  HInv'
<1>1. trace.id \in [Runs -> Runs]
  BY DEF HInv, TInv, TraceTypes, TraceRecord
<1>2. ASSUME NEW w \in Works, NEW r \in Runs, NEW q \in Runs, HostSteer(w, r, trace.id[q])
      PROVE  HInv'
  BY <1>1, <1>2, HostSteerStep
<1> QED
  BY <1>2, HostArchiveStep, CloseChildStep DEF JournalRequest

-----------------------------------------------------------------------------
(* Crash and restart.                                                      *)

\* A crash leaves the rows, and what recovery makes of them, as they are.
LEMMA CrashKeeps ==
    ASSUME HInv, HostCrash
    PROVE  HInv'
<1>1. /\ Crash /\ phase' = [r \in Runs |-> "none"] /\ asks' = [r \in Runs |-> NoTicket]
      /\ relay' = Idle /\ prompt' = [p \in Prompts |-> NoPrompt]
      /\ bound' = bound /\ trace' = trace /\ denied' = denied
  BY DEF HostCrash
<1>2. /\ ~up' /\ live' = EmptyProjection /\ replay' = replay /\ err' = err
  BY <1>1 DEF Crash
<1>3. IInv /\ TInv
  BY DEF HInv
<1>4. IInv'
  BY <1>1, <1>3, OperationKeeps DEF HostOperation, RowOperation
<1>5. /\ live'.owner = [r \in Runs |-> NoWork] /\ live'.run = [r \in Runs |-> "none"]
      /\ live'.pending = {}
  BY <1>2 DEF EmptyProjection
<1>7. RelayTypes' /\ RelayBacked'
  BY <1>1, RelayIdles
<1>8. KernelTypes' /\ TraceTypes'
  <2>1. "none" \in OptStates
    BY DEF OptStates
  <2> QED
    BY <1>1, <1>3, <2>1, SameTypes DEF KernelTypes
<1>9. PromptTypes'
  BY <1>1, <1>3, NoPromptShape DEF TInv, PromptTypes, PromptFields
<1>10. TInv'
  BY <1>1, <1>7, <1>8, <1>9 DEF TInv, DownIsEmpty
<1>11. KernelBacked' /\ GateIsBacked'
  BY <1>1, <1>5 DEF KernelBacked, GateIsBacked
<1>12. Placed' /\ PledgeKnown' /\ DenialKnown'
  BY <1>1, <1>2 DEF HInv, KInv, Placed, PledgeKnown, DenialKnown
<1> QED
  BY <1>4, <1>7, <1>10, <1>11, <1>12 DEF HInv, KInv

\* The request recovery finds pending for a Run is one the rows hold.
LEMMA RecoveredAskIsPending ==
    ASSUME replay \in Projection, NEW r \in Runs
    PROVE  /\ RecoveredAsk(r) \in Tickets \cup {NoTicket}
           /\ RecoveredAsk(r) # NoTicket =>
                r \in RecoveredRuns /\ <<RecoveredAsk(r), r>> \in replay.pending
<1>1. CASE r \in RecoveredRuns /\ PendingOf(replay, r) # {}
  <2> DEFINE a == CHOOSE x \in PendingOf(replay, r) : TRUE
  <2>1. a \in PendingOf(replay, r)
    BY <1>1
  <2>2. RecoveredAsk(r) = a[1]
    BY <1>1 DEF RecoveredAsk
  <2> HIDE DEF a
  <2>3. a \in replay.pending /\ a[2] = r /\ a \in Tickets \X Runs
    BY <2>1 DEF PendingOf, Projection
  <2>4. a = <<a[1], r>> /\ a[1] \in Tickets
    BY <2>3
  <2> QED
    BY <1>1, <2>2, <2>3, <2>4
<1>2. CASE ~(r \in RecoveredRuns /\ PendingOf(replay, r) # {})
  BY <1>2 DEF RecoveredAsk
<1> QED
  BY <1>1, <1>2

\* A restart that succeeds rebuilds the kernel from rows that hold no promise
\* and no Run without a state.
LEMMA StartKeeps ==
    ASSUME HInv, Start
    PROVE  HInv'
<1>1. /\ Open /\ KernelRecovers
      /\ phase' = [r \in Runs |-> RecoveredPhase(r)] /\ asks' = [r \in Runs |-> RecoveredAsk(r)]
      /\ relay' = relay /\ prompt' = prompt /\ bound' = bound /\ trace' = trace
      /\ denied' = denied
  BY DEF Start
<1>2. ~up /\ err = "none" /\ up' /\ live' = replay /\ replay' = replay /\ err' = err
  BY <1>1 DEF Open, OpenSucceeds
<1>3. IInv /\ TInv
  BY DEF HInv
<1>4. IInv'
  BY <1>1, <1>3, OperationKeeps DEF HostOperation, RowOperation
<1>5. Placed /\ Placed'
  BY <1>1, <1>2 DEF HInv, KInv, Placed
<1>6. /\ replay \in Projection /\ Sound(replay) /\ replay.run \in [Runs -> OptStates]
      /\ replay.owner \in [Runs -> Works \cup {NoWork}]
  BY <1>3, IFacts
<1>7. relay' = Idle
  BY <1>1, <1>2, <1>3 DEF TInv, DownIsEmpty
<1>8. RelayTypes' /\ RelayBacked'
  BY <1>7, RelayIdles
<1>9. \A r \in Runs : replay.owner[r] \in replay.works =>
        /\ phase'[r] = replay.run[r] /\ replay.run[r] # "none" /\ trace.pledge[r] = "none"
  BY <1>1 DEF KernelRecovers, RecoveredRuns, RunRecovers, RecoveredPhase
<1>10. \A r \in Runs : phase'[r] # "none" =>
        phase'[r] = replay.run[r] /\ replay.owner[r] \in replay.works
  BY <1>1 DEF RecoveredPhase, RecoveredRuns
<1>18. NoWork \notin replay.works
  BY <1>3, IFacts, GatewayConstants
<1>11. KernelTypes'
  <2>1. \A r \in Runs : RecoveredPhase(r) \in OptStates
    BY <1>6 DEF RecoveredPhase, OptStates
  <2>2. \A r \in Runs : RecoveredAsk(r) \in Tickets \cup {NoTicket}
    BY <1>6, RecoveredAskIsPending
  <2> QED
    BY <1>1, <2>1, <2>2 DEF KernelTypes
<1>12. TInv'
  BY <1>1, <1>2, <1>3, <1>8, <1>11, SameTypes DEF TInv, DownIsEmpty
<1>13. KernelBacked'
  <2> SUFFICES ASSUME NEW r \in Runs
               PROVE  /\ replay.owner[r] \notin trace.archived \cup {NoWork} => phase'[r] # "none"
                      /\ phase'[r] # "none" => replay.run[r] # "none" /\ replay.owner[r] # NoWork
                      /\ phase'[r] \in {"completed", "cancelled"} => replay.run[r] = phase'[r]
    BY <1>1, <1>2 DEF KernelBacked
  <2>1. replay.owner[r] \in replay.works \cup trace.archived \cup {NoWork}
    BY <1>5 DEF Placed
  <2> QED
    BY <1>9, <1>10, <1>18, <2>1
<1>14. GateIsBacked'
  <2> SUFFICES ASSUME NEW r \in Runs, asks'[r] # NoTicket
               PROVE  phase'[r] = "waiting_approval" /\ <<asks'[r], r>> \in replay.pending
    BY <1>2 DEF GateIsBacked
  <2>1. asks'[r] = RecoveredAsk(r)
    BY <1>1
  <2>2. r \in RecoveredRuns /\ <<asks'[r], r>> \in replay.pending
    BY <1>6, <2>1, RecoveredAskIsPending
  <2>3. replay.run[r] = "waiting_approval"
    <3>1. <<asks'[r], r>>[2] = r
      OBVIOUS
    <3> QED
      BY <1>6, <2>2, <3>1 DEF Sound
  <2> QED
    BY <1>9, <2>2, <2>3 DEF RecoveredRuns
<1>15. \A r \in Runs : trace.pledge[r] = "none"
  BY <1>2, <1>9 DEF HInv, KInv, PledgeKnown
<1>16. PledgeKnown'
  BY <1>1, <1>15 DEF PledgeKnown
<1>17. DenialKnown'
  <2> SUFFICES ASSUME NEW r \in denied
               PROVE  /\ replay.run[r] = "failed" /\ replay.owner[r] # NoWork
                      /\ phase'[r] \in {"failed", "none"}
    BY <1>1, <1>2 DEF DenialKnown
  <2>1. r \in Runs
    BY <1>3 DEF TInv, TraceTypes
  <2>2. /\ trace.pledge[r] = "failed" \/ replay.run[r] = "failed"
        /\ replay.owner[r] # NoWork
    BY <1>2 DEF HInv, KInv, DenialKnown
  <2> QED
    BY <1>10, <1>15, <2>1, <2>2
<1> QED
  BY <1>4, <1>5, <1>8, <1>12, <1>13, <1>14, <1>16, <1>17 DEF HInv, KInv

\* A refused start, and a step of someone else, change nothing.
LEMMA StutterKeeps ==
    ASSUME HInv, UNCHANGED hostVars
    PROVE  HInv'
<1>1. /\ UNCHANGED gatewayVars /\ phase' = phase /\ asks' = asks /\ relay' = relay
      /\ prompt' = prompt /\ bound' = bound /\ trace' = trace /\ denied' = denied
  BY DEF hostVars, kernelVars
<1>2. /\ up' = up /\ live' = live /\ replay' = replay /\ err' = err /\ resolving' = resolving
  BY <1>1 DEF gatewayVars
<1>3. IInv'
  BY <1>1, StutterOperation DEF HInv
<1>4. TInv'
  BY <1>1, <1>2, SameTypes DEF HInv, TInv, KernelTypes, DownIsEmpty
<1>5. KInv'
  BY <1>1, <1>2
     DEF HInv, KInv, Placed, KernelBacked, Delegated, RelayBacked, GateIsBacked, PledgeKnown,
         DenialKnown
<1> QED
  BY <1>3, <1>4, <1>5 DEF HInv

-----------------------------------------------------------------------------
(* The theorems.                                                           *)

\* The invariant holds of a fresh host.
LEMMA InitHInv == HostInit => HInv
<1> SUFFICES ASSUME HostInit PROVE HInv
  OBVIOUS
<1>1. /\ Init /\ phase = [r \in Runs |-> "none"] /\ asks = [r \in Runs |-> NoTicket]
      /\ relay = Idle /\ prompt = [p \in Prompts |-> NoPrompt] /\ bound = {}
      /\ trace = NoTrace /\ denied = {}
  BY DEF HostInit
<1>2. up /\ live = EmptyProjection /\ replay = EmptyProjection
  BY <1>1 DEF Init
<1>3. IInv
  BY <1>1, InitIInv
<1>4. Idle \in RelayRecord /\ Idle.step = "idle"
  BY IdleIsTyped
<1>5. TInv
  <2>1. "none" \in OptStates
    BY DEF OptStates
  <2>2. KernelTypes /\ RelayTypes
    BY <1>1, <1>4, <2>1 DEF KernelTypes, RelayTypes, RelayFields
  <2>3. PromptTypes
    BY <1>1, NoPromptShape DEF PromptTypes, PromptFields
  <2>4. TraceTypes
    BY <1>1 DEF TraceTypes, TraceRecord, NoTrace
  <2> QED
    BY <1>2, <2>2, <2>3, <2>4 DEF TInv, DownIsEmpty
<1>6. Placed /\ KernelBacked /\ GateIsBacked
  BY <1>1, <1>2 DEF Placed, KernelBacked, Delegated, GateIsBacked, EmptyProjection, NoTrace
<1>7. RelayBacked
  BY <1>1, <1>4 DEF RelayBacked
<1>8. PledgeKnown /\ DenialKnown
  BY <1>1 DEF PledgeKnown, DenialKnown, NoTrace
<1> QED
  BY <1>3, <1>5, <1>6, <1>7, <1>8 DEF HInv, KInv

LEMMA NextHInv == HInv /\ [HostNext]_hostVars => HInv'
<1> SUFFICES ASSUME HInv, [HostNext]_hostVars PROVE HInv'
  OBVIOUS
<1>1. CASE StartRefused \/ UNCHANGED hostVars
  BY <1>1, StutterKeeps DEF StartRefused
<1> QED
  BY <1>1, RelayKeeps, JournalKeeps, PromptKeeps, CrashKeeps, StartKeeps DEF HostNext

\* The inductive invariant holds in every state of the host, whatever the
\* relay and the prompts do between their locks and wherever a crash falls.
THEOREM HostInvariant == HostSpec => []HInv
BY InitHInv, NextHInv, PTL DEF HostSpec

\* The host implements the gateway's own specification: the relay, the prompts
\* and the restart of the host use the gateway only through its operations, so
\* every safety property proved of WorkGateway holds in the running host.
THEOREM HostImplementsGateway == HostSpec => Spec
<1>1. HostInit => Init
  BY DEF HostInit
<1>2. HInv /\ [HostNext]_hostVars => [Next]_gatewayVars
  <2> SUFFICES ASSUME HInv, [HostNext]_hostVars PROVE [Next]_gatewayVars
    OBVIOUS
  <2>1. RelayFields /\ PromptFields /\ live \in Projection
    BY IFacts DEF HInv, TInv, RelayTypes, PromptTypes
  <2> QED
    BY <2>1, HostOperates, OperationIsNext DEF HostOperation, HostArchive
<1> QED
  BY <1>1, <1>2, HostInvariant, PTL DEF HostSpec, Spec

\* The host's state keeps its type (HostTypeOK).
THEOREM HostTypeCorrect == HostSpec => []HostTypeOK
<1>1. HInv => HostTypeOK
  BY DEF HInv, IInv, TInv, KernelTypes, RelayTypes, RelayRecord, PromptTypes, PromptShape,
         TraceTypes, TraceRecord, HostTypeOK
<1> QED
  BY <1>1, HostInvariant, PTL

\* A refused approval is final (resolve_pending_approval_for_run and
\* recover_one_run): between the two rows of the refusal, between the rows and
\* the kernel, and after any number of crashes, the Run never runs.
THEOREM RefusalsAreFinal == HostSpec => []DeniedNeverRuns
<1>1. HInv => DeniedNeverRuns
  <2> SUFFICES ASSUME HInv, NEW r \in denied PROVE phase[r] # "running"
    BY DEF DeniedNeverRuns
  <2>1. TInv /\ KInv
    BY DEF HInv
  <2>2. r \in Runs
    BY <2>1 DEF TInv, TraceTypes
  <2>3. CASE ~up
    BY <2>1, <2>2, <2>3 DEF TInv, DownIsEmpty
  <2>4. CASE phase[r] \in {"failed", "none"}
    BY <2>4
  <2>5. CASE relay.step \in {"finish", "resolved"} /\ relay.run = r
    <3>1. asks[r] = relay.item /\ relay.item \in Tickets
      BY <2>1, <2>5 DEF KInv, RelayBacked, TInv, RelayTypes, RelayFields
    <3>2. asks[r] # NoTicket
      BY <3>1, HostConstants
    <3> QED
      BY <2>1, <2>2, <3>2 DEF KInv, GateIsBacked
  <2> QED
    BY <2>1, <2>3, <2>4, <2>5 DEF KInv, DenialKnown
<1> QED
  BY <1>1, HostInvariant, PTL

\* The kernel knows every bound Run of a Work that was never archived, but for
\* the delegated ones, also after a restart, and reports no end of a Run that the
\* journal does not have (transition_acp_run, execution/transition,
\* delegate_child_work, recover_from_work_gateway_with_report).
THEOREM KernelFollows == HostSpec => []KernelFollowsJournal
<1>1. HInv => KernelFollowsJournal
  <2> SUFFICES ASSUME HInv, NEW r \in Runs
               PROVE  /\ live.owner[r] \in live.works \ trace.archived /\ ~Delegated(r)
                         => phase[r] # "none"
                      /\ phase[r] \in {"completed", "cancelled"} => live.run[r] = phase[r]
    BY DEF KernelFollowsJournal
  <2>1. NoWork \notin live.works
    BY IFacts, GatewayConstants DEF HInv
  <2> QED
    BY <2>1 DEF HInv, KInv, KernelBacked
<1> QED
  BY <1>1, HostInvariant, PTL

\* Whatever the kernel waits for, the journal holds the request, or the relay
\* is resolving it (record_pending_approval, resolve_pending_approval_for).
THEOREM GatesAreBacked == HostSpec => []GateIsBacked
<1>1. HInv => GateIsBacked
  BY DEF HInv, KInv
<1> QED
  BY <1>1, HostInvariant, PTL

\* What the gateway promises on its own it promises in the host, delegations,
\* archives and steering included: an approval is a gate, a restart loses nothing
\* that was acknowledged but what steering wrote about its own Run, an outcome is
\* final and an effect in doubt stays so until it is reconciled.
THEOREM HostKeepsPromises ==
    HostSpec => []PendingGate /\ []ReplayAgrees /\ TerminalIsFinal /\ UncertaintyIsKept
BY HostImplementsGateway, ApprovalGates, RestartLosesNothing, OutcomesAreFinal,
   UncertainEffectsStay, PTL

-----------------------------------------------------------------------------
(* Why a start can be refused: what a row does to the rows.                *)

LEMMA DiskStays ==
    ASSUME DiskWorks, NEW p, NEW e, NEW l, Durable(p, e), Acknowledge(l),
           e \notin {"sequence", "torn"}
    PROVE  DiskWorks'
BY HostConstants DEF DiskWorks, Durable, Acknowledge

\* The row of an operation, if replay takes it.
RowShape ==
    \/ replay' = replay
    \/ \E w \in Works, parent \in replay.works \cup {NoWork} :
        w \notin replay.works /\ replay' = AddWork(replay, w, parent)
    \/ \E w \in replay.works, r \in Runs :
        replay.owner[r] = NoWork /\ replay' = NoteRun(replay, w, r)
    \/ \E w \in replay.works, r \in Runs, s \in WorkStates : \E y :
        replay.owner[r] \in {w, NoWork} /\ replay' = SetRun(replay, w, r, s, y)
    \/ \E r \in Runs, t \in Tickets :
        replay' = AddPending(replay, t, r) \/ replay' = DropPending(replay, t, r)
    \/ \E w \in replay.works, e \in Effects, s \in EffectStates :
        replay' = SetEffect(replay, w, e, s)

LEMMA ErrorsOfReplay ==
    ASSUME NEW w, NEW r, NEW s, NEW e
    PROVE  /\ RunError(replay, w, r, s) \notin {"sequence", "torn"}
           /\ EffectError(w, e) \notin {"sequence", "torn"}
           /\ \A why : why \notin {"sequence", "torn"} => KnownWork(w, why) \notin {"sequence", "torn"}
BY DEF RunError, EffectError, KnownWork

\* A row of one operation.
LEMMA EventShape ==
    ASSUME DiskWorks, NEW w, NEW l, NEW p, NEW e,
           AppendRow(w, l, p, e), e \notin {"sequence", "torn"}
    PROVE  /\ DiskWorks' /\ up
           /\ replay' = replay \/ (replay' = p /\ err = "none" /\ ~unacked /\ w \in replay.works)
<1>1. KnownWork(w, e) \notin {"sequence", "torn"}
  BY ErrorsOfReplay
<1>2. DiskWorks'
  BY <1>1, DiskStays DEF AppendRow
<1> QED
  BY <1>2, RowWritten

LEMMA CreateShape ==
    ASSUME IInv, DiskWorks, NEW w \in Works, NEW parent \in Works \cup {NoWork},
           AppendCreated(w, parent), parent \in live.works \cup {NoWork}
    PROVE  DiskWorks' /\ RowShape
<1> DEFINE e == IF w \in replay.works THEN "duplicate_work" ELSE "none"
<1>1. /\ Durable(AddWork(replay, w, parent), e) /\ Acknowledge(AddWork(live, w, parent)) /\ up
  BY DEF AppendCreated
<1>2. DiskWorks'
  BY <1>1, DiskStays
<1>3. \/ replay' = replay
      \/ replay' = AddWork(replay, w, parent) /\ err = "none" /\ ~unacked /\ w \notin replay.works
  BY <1>1 DEF Durable
<1>4. err = "none" /\ ~unacked => replay.works = live.works
  BY <1>1, IFacts DEF Agrees
<1> QED
  BY <1>2, <1>3, <1>4 DEF RowShape

LEMMA BindShape ==
    ASSUME IInv, DiskWorks, NEW w \in Works, NEW r \in Runs, BindExecution(w, r)
    PROVE  DiskWorks' /\ RowShape /\ replay'.run = replay.run
<1> DEFINE l == [NoteRun(live, w, r) EXCEPT !.run[r] = IF @ = "none" THEN "ready" ELSE @]
           p == NoteRun(replay, w, r)
<1>1. AppendRow(w, l, p, "none") /\ replay.owner[r] = NoWork
  BY DEF BindExecution, AppendEvent, MayBind
<1>2. p.run = replay.run
  BY IFacts DEF NoteRun, Projection
<1> HIDE DEF l
<1>3. DiskWorks' /\ (replay' = replay \/ (replay' = p /\ w \in replay.works))
  BY <1>1, EventShape
<1> QED
  BY <1>1, <1>2, <1>3 DEF RowShape

\* A lifecycle row of a Run of the Work, or of none.
LEMMA LifecycleShape ==
    ASSUME DiskWorks, NEW w \in Works, NEW r \in Runs, NEW l, NEW t \in WorkStates, NEW y,
           AppendRow(w, l, SetRun(replay, w, r, t, y), RunError(replay, w, r, t)),
           up /\ err = "none" /\ ~unacked => replay.owner[r] \in {w, NoWork}
    PROVE  DiskWorks' /\ RowShape
<1> DEFINE p == SetRun(replay, w, r, t, y)
           e == RunError(replay, w, r, t)
<1>1. AppendRow(w, l, p, e) /\ e \notin {"sequence", "torn"}
  BY ErrorsOfReplay
<1> HIDE DEF e
<1>2. /\ DiskWorks' /\ up
      /\ replay' = replay \/ (replay' = p /\ err = "none" /\ ~unacked /\ w \in replay.works)
  BY <1>1, EventShape
<1> QED
  BY <1>2 DEF RowShape

LEMMA TransitionShape ==
    ASSUME IInv, DiskWorks, NEW w \in Works, NEW r \in Runs, NEW s \in RequestedStates,
           \/ RecordExecutionTransition(w, r, s)
           \/ s \in TerminalStates /\ FinishChildWork(w, r, s)
    PROVE  DiskWorks' /\ RowShape
<1>1. AppendTransition(w, r, s, "none")
  BY DEF RecordExecutionTransition, RecordTransition, FinishChildWork
<1>2. up /\ err = "none" /\ ~unacked => replay.owner[r] \in {w, NoWork}
  <2>1. CASE RecordExecutionTransition(w, r, s)
    <3>1. live.owner[r] = w
      BY <2>1, IFacts, GatewayConstants
         DEF Sound, RecordExecutionTransition, RecordTransition, MayRecord
    <3> QED
      BY <3>1, IFacts, OwnerReads
  <2>2. CASE FinishChildWork(w, r, s)
    BY <2>2 DEF FinishChildWork, MayFinish, MayName
  <2> QED
    BY <2>1, <2>2
<1>3. EventState(s) \in WorkStates
  BY EventStateReads
<1> DEFINE l == IF RunError(live, w, r, s) = "none" THEN SetRun(live, w, r, s, "none")
                ELSE NoteRun(live, w, r)
           t == EventState(s)
           y == EventWait(s, "none")
<1>4. AppendRow(w, l, SetRun(replay, w, r, t, y), RunError(replay, w, r, t))
  BY <1>1 DEF AppendTransition, AppendEvent
<1> HIDE DEF l, t, y
<1>5. t \in WorkStates
  BY <1>3 DEF t
<1> QED
  BY <1>2, <1>4, <1>5, LifecycleShape

LEMMA SteerShape ==
    ASSUME DiskWorks, NEW w \in Works, NEW r \in Runs, ApplySteeringCheckpoint(w, r)
    PROVE  DiskWorks' /\ RowShape
<1>1. /\ AppendRow(w, live, SetRun(replay, w, r, "checkpointed", "none"),
                   RunError(replay, w, r, "checkpointed"))
      /\ replay.owner[r] \in {w, NoWork} /\ "checkpointed" \in WorkStates
  BY DEF ApplySteeringCheckpoint, MaySteer, MayName, WorkStates
<1> QED
  BY <1>1, LifecycleShape

LEMMA FinishShape ==
    ASSUME IInv, DiskWorks, FinishResolution
    PROVE  DiskWorks' /\ RowShape
<1> DEFINE r == resolving.run
           w == live.owner[r]
           s == resolving.next
           p == SetRun(replay, w, r, s, "none")
           e == KnownWork(w, RunError(replay, w, r, s))
<1>1. /\ up /\ resolving # NotResolving /\ w \in live.works
      /\ Durable(p, e) /\ Acknowledge(SetRun(live, w, r, s, "none"))
  BY DEF FinishResolution
<1>2. r \in Runs /\ s \in WorkStates /\ w \in Works
  BY <1>1, IFacts DEF IInv, ResolvingKnown, WorkStates, TerminalStates
<1>3. e \notin {"sequence", "torn"}
  BY ErrorsOfReplay
<1>4. replay' = replay \/ (replay' = p /\ err = "none" /\ ~unacked /\ w \in replay.works)
  BY <1>1 DEF Durable, KnownWork
<1> HIDE DEF e, p, s, w, r
<1>5. DiskWorks'
  BY <1>1, <1>3, DiskStays
<1>6. err = "none" /\ ~unacked => replay.owner[r] = w
  BY <1>1, <1>2, IFacts, OwnerReads DEF w
<1> QED
  BY <1>2, <1>4, <1>5, <1>6 DEF RowShape, p

LEMMA ApprovalShape ==
    ASSUME IInv, DiskWorks, NEW w \in Works, NEW r \in Runs, NEW t \in Tickets,
           \/ RecordPendingApproval(w, r, t)
           \/ \E approved \in BOOLEAN : ResolvePendingApproval(w, r, t, approved)
    PROVE  DiskWorks' /\ RowShape
<1>2. CASE RecordPendingApproval(w, r, t)
  <2>1. \E e : /\ AppendRow(w, AddPending(live, t, r), AddPending(replay, t, r), e)
               /\ e \notin {"sequence", "torn"}
    BY <1>2 DEF RecordPendingApproval, AppendEvent
  <2>2. DiskWorks' /\ (replay' = replay \/ replay' = AddPending(replay, t, r))
    BY <2>1, EventShape
  <2> QED
    BY <2>2 DEF RowShape
<1>3. CASE \E approved \in BOOLEAN : ResolvePendingApproval(w, r, t, approved)
  <2>1. \E e : /\ AppendRow(w, DropPending(live, t, r), DropPending(replay, t, r), e)
               /\ e \notin {"sequence", "torn"}
    BY <1>3 DEF ResolvePendingApproval
  <2>2. DiskWorks' /\ (replay' = replay \/ replay' = DropPending(replay, t, r))
    BY <2>1, EventShape
  <2> QED
    BY <2>2 DEF RowShape
<1> QED
  BY <1>2, <1>3

LEMMA EffectShape ==
    ASSUME IInv, DiskWorks, NEW w \in Works, NEW e \in Effects,
           \/ RecordEffectAttempted(w, e)
           \/ \E ok \in BOOLEAN : RecordEffectObserved(w, e, ok) \/ RecordEffectVerified(w, e, ok)
    PROVE  DiskWorks' /\ RowShape
<1>2. EffectError(w, e) \notin {"sequence", "torn"}
  BY ErrorsOfReplay
<1>3. \E s \in EffectStates : \E why :
        /\ AppendRow(w, SetEffect(live, w, e, s), SetEffect(replay, w, e, s), why)
        /\ why \notin {"sequence", "torn"}
  BY <1>2 DEF RecordEffectAttempted, RecordEffectObserved, RecordEffectVerified, AppendEvent,
              EffectStates
<1>4. \E s \in EffectStates :
        /\ DiskWorks'
        /\ replay' = replay \/ (replay' = SetEffect(replay, w, e, s) /\ w \in replay.works)
  BY <1>3, EventShape
<1> QED
  BY <1>4 DEF RowShape

LEMMA OperationShape ==
    ASSUME IInv, DiskWorks, RowOperation \/ UNCHANGED gatewayVars
    PROVE  DiskWorks' /\ RowShape
<1>1. CASE Crash \/ Open \/ UNCHANGED gatewayVars
  BY <1>1 DEF Crash, Open, gatewayVars, DiskWorks, RowShape
<1>2. ASSUME NEW w \in Works, NEW c \in Works, CreateWork(w) \/ CreateChildWork(w, c)
      PROVE  DiskWorks' /\ RowShape
  <2>1. CASE CreateWork(w)
    BY <2>1, CreateShape DEF CreateWork
  <2>2. CASE CreateChildWork(w, c)
    BY <2>2, CreateShape DEF CreateChildWork
  <2> QED
    BY <1>2, <2>1, <2>2
<1>3. TerminalStates \subseteq RequestedStates
  BY DEF TerminalStates, RequestedStates, WorkStates
<1> QED
  BY <1>1, <1>2, <1>3, BindShape, TransitionShape, SteerShape, FinishShape, ApprovalShape,
     EffectShape DEF RowOperation

\* The fields the graph is made of.
LEMMA ShapeKeepsGraph ==
    ASSUME IInv, Placed, GraphKept, ShownKept, StartsFirst, RowShape,
           trace.archived \subseteq trace'.archived
    PROVE  GraphKept' /\ ShownKept'
<1>1. /\ replay \in Projection /\ Sound(replay)
      /\ replay.owner \in [Runs -> Works \cup {NoWork}] /\ replay.works \subseteq Works
  BY IFacts
<1>2. /\ replay.parent \in [Works -> Works \cup {NoWork}]
      /\ replay.current \in [Works -> Runs \cup {NoRun}] /\ replay.run \in [Runs -> OptStates]
      /\ replay.shown \in [Works -> OptStates]
      /\ replay.effect \in [Works -> [Effects -> EffectStates]]
  BY <1>1 DEF Projection
<1>3. CASE replay' = replay
  BY <1>3 DEF GraphKept, ShownKept
<1>4. ASSUME NEW w \in Works, NEW parent \in replay.works \cup {NoWork}, w \notin replay.works,
             replay' = AddWork(replay, w, parent)
      PROVE  GraphKept' /\ ShownKept'
  <2>1. /\ replay'.works = replay.works \cup {w}
        /\ replay'.parent = [replay.parent EXCEPT ![w] = parent]
        /\ replay'.effect = replay.effect /\ replay'.owner = replay.owner
        /\ replay'.run = replay.run /\ replay'.current = replay.current
        /\ replay'.shown = [replay.shown EXCEPT ![w] = "created"]
    BY <1>1, <1>4 DEF AddWork, Projection
  <2>2. w \in trace.archived \/ replay.current[w] = NoRun
    BY <1>1, <1>2, <1>4, GatewayConstants DEF Sound, Placed
  <2>3. GraphKept'
    BY <1>2, <2>1 DEF GraphKept
  <2>4. ShownKept'
    BY <1>2, <2>1, <2>2 DEF ShownKept
  <2> QED
    BY <2>3, <2>4
<1>5. ASSUME NEW w \in Works, NEW r \in Runs, replay.owner[r] = NoWork,
             replay' = NoteRun(replay, w, r)
      PROVE  GraphKept' /\ ShownKept'
  <2>1. /\ replay'.works = replay.works /\ replay'.parent = replay.parent
        /\ replay'.effect = replay.effect /\ replay'.run = replay.run
        /\ replay'.owner = [replay.owner EXCEPT ![r] = w]
        /\ replay'.current = [replay.current EXCEPT ![w] = r] /\ replay'.shown = replay.shown
    BY <1>1, <1>5 DEF NoteRun, Projection
  <2>2. GraphKept'
    BY <2>1 DEF GraphKept
  <2>3. ShownKept'
    <3> SUFFICES ASSUME NEW v \in Works \ trace'.archived, replay'.current[v] # NoRun,
                        replay'.run[replay'.current[v]] # "none"
                 PROVE  replay'.shown[v] = replay'.run[replay'.current[v]]
      BY DEF ShownKept
    <3>1. replay.run[r] = "none"
      BY <1>5 DEF StartsFirst
    <3>2. v # w
      BY <1>2, <2>1, <3>1
    <3> QED
      BY <1>2, <2>1, <3>2 DEF ShownKept
  <2> QED
    BY <2>2, <2>3
<1>6. ASSUME NEW w \in Works, NEW r \in Runs, NEW s \in WorkStates, NEW y,
             replay.owner[r] \in {w, NoWork}, replay' = SetRun(replay, w, r, s, y)
      PROVE  GraphKept' /\ ShownKept'
  <2>1. /\ replay'.works = replay.works /\ replay'.parent = replay.parent
        /\ replay'.effect = replay.effect
        /\ replay'.run = [replay.run EXCEPT ![r] = s]
        /\ replay'.owner = [replay.owner EXCEPT ![r] = w]
        /\ replay'.current = [replay.current EXCEPT ![w] = r]
        /\ replay'.shown = [replay.shown EXCEPT ![w] = s]
    BY <1>1, <1>6 DEF SetRun, NoteRun, Projection
  <2>2. GraphKept'
    BY <2>1 DEF GraphKept
  <2>4. ASSUME NEW v \in Works \ trace'.archived, replay'.current[v] # NoRun,
               replay'.run[replay'.current[v]] # "none"
        PROVE  replay'.shown[v] = replay'.run[replay'.current[v]]
    <3>1. CASE v = w
      BY <1>2, <2>1, <3>1
    <3>2. CASE v # w
      <4>1. replay'.current[v] = replay.current[v] /\ replay'.shown[v] = replay.shown[v]
        BY <1>2, <2>1, <3>2
      <4>2. replay.current[v] \in Runs /\ replay.owner[replay.current[v]] = v
        BY <1>1, <1>2, <2>4, <4>1 DEF Sound
      <4>3. replay'.run[replay.current[v]] = replay.run[replay.current[v]]
        BY <1>2, <1>6, <2>1, <3>2, <4>2, GatewayConstants
      <4> QED
        BY <2>4, <4>1, <4>3 DEF ShownKept
    <3> QED
      BY <3>1, <3>2
  <2> QED
    BY <2>2, <2>4 DEF ShownKept
<1>7. ASSUME NEW r \in Runs, NEW t \in Tickets,
             replay' = AddPending(replay, t, r) \/ replay' = DropPending(replay, t, r)
      PROVE  GraphKept' /\ ShownKept'
  <2>1. /\ replay'.works = replay.works /\ replay'.parent = replay.parent
        /\ replay'.effect = replay.effect /\ replay'.owner = replay.owner
        /\ replay'.run = replay.run /\ replay'.current = replay.current
        /\ replay'.shown = replay.shown
    BY <1>1, <1>7 DEF AddPending, DropPending, Projection
  <2> QED
    BY <2>1 DEF GraphKept, ShownKept
<1>8. ASSUME NEW w \in replay.works, NEW e \in Effects, NEW s \in EffectStates,
             replay' = SetEffect(replay, w, e, s)
      PROVE  GraphKept' /\ ShownKept'
  <2>1. /\ replay'.works = replay.works /\ replay'.parent = replay.parent
        /\ replay'.effect = [replay.effect EXCEPT ![w][e] = s]
        /\ replay'.owner = replay.owner
        /\ replay'.run = replay.run /\ replay'.current = replay.current
        /\ replay'.shown = replay.shown
    BY <1>1, <1>8 DEF SetEffect, Projection
  <2>2. \A v \in Works \ {w} : replay'.effect[v] = replay.effect[v]
    BY <1>2, <2>1
  <2>3. GraphKept'
    BY <2>1, <2>2 DEF GraphKept
  <2> QED
    BY <2>1, <2>3 DEF ShownKept
<1> QED
  BY <1>1, <1>3, <1>4, <1>5, <1>6, <1>7, <1>8 DEF RowShape

\* An archive: the references to the Work are references to an archived one.
LEMMA ArchiveKeepsGraph ==
    ASSUME IInv, RowsInv, NEW w \in Works, HostArchive(w), TraceTypes
    PROVE  RowsInv'
<1> DEFINE p == DropWork(replay, w)
<1>1. /\ AppendRow(w, DropWork(live, w), p, "none")
      /\ trace' = [trace EXCEPT !.archived = @ \cup {w}]
  BY DEF HostArchive, ArchiveWork, AppendEvent
<1>2. trace'.archived = trace.archived \cup {w}
  BY <1>1 DEF TraceTypes, TraceRecord
<1>3. /\ p.works = replay.works \ {w} /\ p.parent = replay.parent /\ p.effect = replay.effect
      /\ p.current = replay.current /\ p.run = replay.run /\ p.shown = replay.shown
  BY IFacts DEF DropWork, Projection
<1> HIDE DEF p
<1>4. DiskWorks' /\ (replay' = replay \/ replay' = p)
  BY <1>1, EventShape DEF RowsInv
<1>5. /\ replay.works \subseteq replay'.works \cup {w} /\ replay'.works \subseteq replay.works
      /\ replay'.parent = replay.parent /\ replay'.effect = replay.effect
      /\ replay'.current = replay.current /\ replay'.run = replay.run
      /\ replay'.shown = replay.shown
  BY <1>3, <1>4
<1>6. GraphKept' /\ ShownKept'
  BY <1>2, <1>5 DEF RowsInv, GraphKept, ShownKept
<1> QED
  BY <1>4, <1>6 DEF RowsInv

\* No step forgets an archive.
LEMMA ArchivedStays ==
    ASSUME TInv, [HostNext]_hostVars
    PROVE  trace.archived \subseteq trace'.archived
<1>1. trace \in TraceRecord
  BY DEF TInv, TraceTypes
<1>2. \A r, t : TraceState(r, t).archived = trace.archived
  BY <1>1 DEF TraceState, TraceRecord
<1>3. \A r, t, id : [TraceState(r, t) EXCEPT !.id[r] = id].archived = trace.archived
  BY <1>1 DEF TraceState, TraceRecord
<1>4. \A r, t : TraceResolved(r, t).archived = trace.archived
  BY <1>1 DEF TraceResolved, TraceRecord
<1>5. /\ \A x : [trace EXCEPT !.delegated = @ \cup x].archived = trace.archived
      /\ \A w : [trace EXCEPT !.archived = @ \cup {w}].archived = trace.archived \cup {w}
  BY <1>1 DEF TraceRecord
<1>6. CASE RelayRequest
  BY <1>5, <1>6 DEF RelayRequest, RelayCreate, RelayCommit, RelaySpawn, RelayBegin, RelayTransition,
     RelayAsk, RelayResolve
<1>7. CASE RelayStep
  BY <1>2, <1>4, <1>7 DEF RelayStep, RelayBind, RelayJournal, RelayApply, RelayAskJournal,
     RelayAskApply, RelayResolveJournal, RelayFinish, RelayResolveApply, RelayChildBind,
     RelayChildStart, RelayObserve, RelayVerify, RelayRefuses
<1>8. CASE JournalRequest
  <2>1. ASSUME NEW w \in Works, HostArchive(w) PROVE trace.archived \subseteq trace'.archived
    BY <1>5, <2>1 DEF HostArchive
  <2>2. ASSUME NEW w \in Works, NEW r \in Runs, NEW s, CloseChild(w, r, s)
        PROVE  trace.archived \subseteq trace'.archived
    BY <1>2, <2>2 DEF CloseChild
  <2>3. ASSUME NEW w \in Works, NEW r \in Runs, NEW id, HostSteer(w, r, id)
        PROVE  trace.archived \subseteq trace'.archived
    BY <1>3, <2>3 DEF HostSteer
  <2> QED
    BY <1>8, <2>1, <2>2, <2>3 DEF JournalRequest
<1>9. ASSUME NEW p \in Prompts, PromptStep(p) PROVE trace.archived \subseteq trace'.archived
  <2>1. CASE PromptResume(p) \/ PromptStart(p)
    BY <1>2, <2>1 DEF PromptResume, PromptStart
  <2>2. CASE PromptRecord(p) \/ PromptComplete(p)
    BY <1>2, <2>2 DEF PromptRecord, PromptComplete, TransitionAcpRun
  <2>3. CASE \/ PromptPrepare(p) \/ PromptMismatch(p) \/ PromptMissing(p) \/ PromptReuse(p)
             \/ \E w \in Works : PromptAdmit(p, w)
             \/ \E r \in Runs : PromptBegin(p, r)
             \/ \E outcome \in Outcomes : PromptAnswer(p, outcome)
    BY <2>3 DEF PromptAdmit, PromptPrepare, PromptMismatch, PromptMissing, PromptReuse, PromptBegin,
                PromptAnswer
  <2> QED
    BY <1>9, <2>1, <2>2, <2>3 DEF PromptStep, PromptLocked
<1>10. CASE HostCrash \/ Start \/ StartRefused \/ UNCHANGED hostVars
  BY <1>10 DEF HostCrash, Start, StartRefused, hostVars
<1> QED
  BY <1>6, <1>7, <1>8, <1>9, <1>10 DEF HostNext

LEMMA RowsInvStep ==
    ASSUME HInv, RowsInv, StartInv, [HostNext]_hostVars
    PROVE  RowsInv'
<1>1. /\ IInv /\ RelayFields /\ PromptFields /\ live \in Projection
      /\ TInv /\ TraceTypes /\ Placed /\ StartsFirst
  BY IFacts DEF HInv, KInv, TInv, RelayTypes, PromptTypes, StartInv
<1>2. CASE RowOperation \/ UNCHANGED gatewayVars
  BY <1>1, <1>2, OperationShape, ShapeKeepsGraph, ArchivedStays DEF RowsInv
<1>3. ASSUME NEW w \in Works, HostArchive(w) PROVE RowsInv'
  BY <1>1, <1>3, ArchiveKeepsGraph
<1> QED
  BY <1>1, <1>2, <1>3, HostOperates

-----------------------------------------------------------------------------
(* Why a start can be refused: the first row of a Run is its start.        *)

\* No row will tell the state of r.
NoRow(r) == err' = "none" /\ replay'.run[r] = "none"

\* What a step does to the rows of Runs.
RowsMove ==
    /\ \A q \in Runs : NoRow(q) => Rowless(q)
    /\ StartsFirst'
    /\ up' = up

\* What it does to the executions: that of a Run without a row does not move.
PhaseGoesOn == \A q \in Runs : NoRow(q) /\ live.owner[q] # NoWork => phase'[q] = phase[q]

\* ... and to the owners: no Run without a row gets one.
OwnersGoOn == \A q \in Runs : NoRow(q) => live'.owner[q] = live.owner[q]

LEMMA SteeredGrows ==
    ASSUME HostOperation \/ UNCHANGED gatewayVars
    PROVE  steered \subseteq steered'
<1>1. CASE RowOperation
  <2>1. ASSUME NEW w \in Works, NEW r \in Runs, ApplySteeringCheckpoint(w, r)
        PROVE  steered \subseteq steered'
    BY <2>1 DEF ApplySteeringCheckpoint
  <2>4. FinishResolution \/ Crash \/ Open => steered' = steered
    BY DEF FinishResolution, Crash, Open
  <2>2. ASSUME NEW w \in Works, NEW c \in Works, CreateWork(w) \/ CreateChildWork(c, w)
        PROVE  steered' = steered
    BY <2>2 DEF CreateWork, CreateChildWork, AppendCreated
  <2>3. ASSUME NEW w \in Works, NEW e \in Effects, RecordEffectAttempted(w, e)
        PROVE  steered' = steered
    BY <2>3 DEF RecordEffectAttempted, AppendEvent
  <2>5. ASSUME NEW w \in Works, NEW e \in Effects, NEW ok \in BOOLEAN,
               RecordEffectObserved(w, e, ok) \/ RecordEffectVerified(w, e, ok)
        PROVE  steered' = steered
    BY <2>5 DEF RecordEffectObserved, RecordEffectVerified, AppendEvent
  <2>6. ASSUME NEW w \in Works, NEW r \in Runs, NEW s,
               RecordExecutionTransition(w, r, s) \/ FinishChildWork(w, r, s) \/ BindExecution(w, r)
        PROVE  steered' = steered
    BY <2>6 DEF RecordExecutionTransition, RecordTransition, FinishChildWork, AppendTransition,
       BindExecution, AppendEvent
  <2>7. CASE \E w \in Works, r \in Runs, t \in Tickets :
                \/ RecordPendingApproval(w, r, t)
                \/ \E approved \in BOOLEAN : ResolvePendingApproval(w, r, t, approved)
    BY <2>7 DEF RecordPendingApproval, ResolvePendingApproval, AppendEvent
  <2> QED
    BY <1>1, <2>1, <2>2, <2>3, <2>4, <2>5, <2>6, <2>7 DEF RowOperation
<1>2. ASSUME NEW w \in Works, ArchiveWork(w) PROVE steered' = steered
  BY <1>2 DEF ArchiveWork, AppendEvent
<1>3. CASE UNCHANGED gatewayVars
  BY <1>3 DEF gatewayVars
<1> QED
  BY <1>1, <1>2, <1>3 DEF HostOperation

\* A row that is about no state.
LEMMA StillRows ==
    ASSUME StartsFirst, HostOperation \/ UNCHANGED gatewayVars, RowsKeep, replay'.run = replay.run,
           up' = up, trace'.started = trace.started
    PROVE  RowsMove
<1>1. steered \subseteq steered'
  BY SteeredGrows
<1> QED
  BY <1>1 DEF StartsFirst, RowsKeep, RowsMove, Rowless, NoRow

LEMMA StutterRows ==
    ASSUME StartsFirst, UNCHANGED gatewayVars, trace'.started = trace.started
    PROVE  RowsMove /\ live'.owner = live.owner
<1>1. live' = live /\ replay' = replay /\ err' = err /\ up' = up
  BY DEF gatewayVars
<1>2. RowsKeep
  BY <1>1 DEF RowsKeep
<1> QED
  BY <1>1, <1>2, StillRows

LEMMA CreateRows ==
    ASSUME IInv, StartsFirst, HostOperation, NEW w \in Works, NEW parent \in Works \cup {NoWork},
           AppendCreated(w, parent), trace'.started = trace.started
    PROVE  RowsMove /\ live'.owner = live.owner
<1>1. Stays
  BY CreateOperation
<1>2. replay' = replay \/ replay' = AddWork(replay, w, parent)
  BY DEF AppendCreated, Durable
<1>3. AddWork(replay, w, parent).run = replay.run
  BY IFacts DEF AddWork, Projection
<1> QED
  BY <1>1, <1>2, <1>3, StillRows DEF Stays

LEMMA CreateWorkRows ==
    ASSUME IInv, StartsFirst, NEW w \in Works, CreateWork(w), trace' = trace
    PROVE  RowsMove /\ live'.owner = live.owner
BY CreateRows DEF CreateWork, HostOperation, RowOperation

LEMMA RequestRows ==
    ASSUME IInv, StartsFirst, NEW w \in Works, NEW r \in Runs, NEW t \in Tickets,
           RecordPendingApproval(w, r, t), trace' = trace
    PROVE  RowsMove /\ live'.owner = live.owner
<1>1. Stays
  BY RequestOperation
<1>2. replay' = replay \/ replay' = AddPending(replay, t, r)
  BY RowWritten DEF RecordPendingApproval, AppendEvent
<1>3. AddPending(replay, t, r).run = replay.run
  BY IFacts DEF AddPending, Projection
<1>4. HostOperation
  BY DEF HostOperation, RowOperation
<1> QED
  BY <1>1, <1>2, <1>3, <1>4, StillRows DEF Stays

LEMMA EffectRows ==
    ASSUME IInv, StartsFirst, NEW w \in Works, NEW e \in Effects,
           \/ RecordEffectAttempted(w, e)
           \/ \E ok \in BOOLEAN : RecordEffectObserved(w, e, ok) \/ RecordEffectVerified(w, e, ok),
           trace' = trace
    PROVE  RowsMove /\ live'.owner = live.owner
<1>1. HostOperation
  BY DEF HostOperation, RowOperation
<1>2. PICK s \in EffectStates : \E why :
        AppendEvent(w, SetEffect(live, w, e, s), SetEffect(replay, w, e, s), why)
  BY DEF RecordEffectAttempted, RecordEffectObserved, RecordEffectVerified, EffectStates
<1>3. Stays
  BY <1>1, <1>2, EffectOperation
<1>4. replay' = replay \/ replay' = SetEffect(replay, w, e, s)
  BY <1>2, RowWritten DEF AppendEvent
<1>5. SetEffect(replay, w, e, s).run = replay.run
  BY IFacts DEF SetEffect, Projection
<1> QED
  BY <1>1, <1>3, <1>4, <1>5, StillRows DEF Stays

\* The row that moves r to t: the first one starts it, or ends it and makes the
\* rows unreadable, or is a steering checkpoint.
LEMMA LifecycleRows ==
    ASSUME IInv, StartsFirst, HostOperation, NEW w \in Works, NEW r \in Runs, NEW t \in WorkStates,
           NEW p, RowsKeep, up' = up,
           \/ replay' = p /\ err = "none" /\ RunError(replay, w, r, t) = "none"
           \/ replay' = replay /\ err' # "none",
           p.run = [replay.run EXCEPT ![r] = t], p.owner = [replay.owner EXCEPT ![r] = w],
           trace'.started = IF t \in {"ready", "running"} THEN trace.started \cup {r} ELSE trace.started,
           \/ Rowless(r) => t \in {"running"} \cup TerminalStates
           \/ <<w, r>> \in steered'
    PROVE  RowsMove /\ ~NoRow(r)
<1>1. steered \subseteq steered'
  BY SteeredGrows
<1>2. CASE replay' = replay /\ err' # "none"
  BY <1>1, <1>2 DEF RowsMove, StartsFirst, NoRow
<1>3. CASE replay' = p /\ err = "none" /\ RunError(replay, w, r, t) = "none"
  <2>1. /\ replay'.run = [replay.run EXCEPT ![r] = t] /\ replay'.owner = [replay.owner EXCEPT ![r] = w]
        /\ replay.run \in [Runs -> OptStates] /\ replay.owner \in [Runs -> Works \cup {NoWork}]
    BY <1>3, IFacts
  <2>2. replay'.run[r] = t /\ replay'.owner[r] = w /\ w # NoWork
    BY <2>1, GatewayConstants
  <2>3. "none" \notin WorkStates
    BY DEF WorkStates, WaitingStates, TerminalStates
  <2>4. r \in trace'.started \/ <<w, r>> \in steered'
    <3>1. CASE replay.run[r] # "none"
      <4>1. replay.owner[r] = w
        BY <2>2, <3>1 DEF StartsFirst, RowsKeep
      <4> QED
        BY <1>1, <3>1, <4>1 DEF StartsFirst
    <3>2. CASE replay.run[r] = "none"
      <4>1. t \notin TerminalStates
        BY <1>3, <3>2 DEF RunError
      <4> QED
        BY <1>3, <3>2, <4>1 DEF Rowless
    <3> QED
      BY <3>1, <3>2
  <2>5. StartsFirst'
    <3> SUFFICES ASSUME NEW q \in Runs, replay'.run[q] # "none"
                 PROVE  /\ replay'.owner[q] # NoWork
                        /\ q \in trace'.started \/ <<replay'.owner[q], q>> \in steered'
      BY DEF StartsFirst
    <3>1. CASE q = r
      BY <2>2, <2>4, <3>1
    <3>2. CASE q # r
      <4>1. replay'.run[q] = replay.run[q] /\ replay'.owner[q] = replay.owner[q]
        BY <2>1, <3>2
      <4> QED
        BY <1>1, <4>1 DEF StartsFirst
    <3> QED
      BY <3>1, <3>2
  <2>6. \A q \in Runs : NoRow(q) => Rowless(q)
    BY <1>3, <2>1, <2>3 DEF Rowless, NoRow
  <2>7. ~NoRow(r)
    BY <2>2, <2>3 DEF NoRow
  <2> QED
    BY <2>5, <2>6, <2>7 DEF RowsMove
<1> QED
  BY <1>2, <1>3

\* A row of a transition, of the current Run or of a child's.
LEMMA AppendedRows ==
    ASSUME IInv, TraceTypes, StartsFirst, HostOperation, NEW w \in Works, NEW r \in Runs,
           NEW s \in RequestedStates, AppendTransition(w, r, s, "none"), RowsKeep, up' = up,
           trace' = TraceState(r, EventState(s)),
           Rowless(r) => s \in {"running"} \cup TerminalStates
    PROVE  RowsMove /\ ~NoRow(r)
<1> DEFINE l == IF RunError(live, w, r, s) = "none" THEN SetRun(live, w, r, s, "none")
                ELSE NoteRun(live, w, r)
           t == EventState(s)
           y == EventWait(s, "none")
           p == SetRun(replay, w, r, t, y)
           e == RunError(replay, w, r, t)
<1>1. AppendRow(w, l, p, e)
  BY DEF AppendTransition, AppendEvent
<1>2. trace'.started = IF t \in {"ready", "running"} THEN trace.started \cup {r} ELSE trace.started
  BY TraceStateReads
<1>3. p.run = [replay.run EXCEPT ![r] = t] /\ p.owner = [replay.owner EXCEPT ![r] = w]
  BY IFacts DEF SetRun, NoteRun, Projection
<1>4. t \in WorkStates
  BY EventStateReads
<1>5. s \in {"running"} \cup TerminalStates => t = s
  BY DEF EventState, TerminalStates
<1> HIDE DEF p, t, l
<1>6. \/ replay' = p /\ err = "none" /\ e = "none"
      \/ replay' = replay /\ err' # "none"
  BY <1>1, HostConstants DEF AppendRow, Durable, KnownWork
<1>7. Rowless(r) => t \in {"running"} \cup TerminalStates
  BY <1>5
<1> QED
  BY <1>2, <1>3, <1>4, <1>6, <1>7, LifecycleRows

LEMMA TransitionRows ==
    ASSUME HInv, StartsFirst, NEW w \in Works, NEW r \in Runs, NEW s \in RequestedStates,
           RecordExecutionTransition(w, r, s), trace' = TraceState(r, EventState(s)),
           Rowless(r) /\ live.owner[r] # NoWork => s \in {"running", "cancelled"}
    PROVE  RowsMove /\ live'.owner = live.owner /\ ~NoRow(r)
<1>1. IInv /\ TraceTypes
  BY DEF HInv, TInv
<1>2. Stays /\ live.owner[r] = w
  BY <1>1, TransitionOperation
<1>3. HostOperation /\ AppendTransition(w, r, s, "none")
  BY DEF HostOperation, RowOperation, RecordExecutionTransition, RecordTransition
<1>4. Rowless(r) => s \in {"running"} \cup TerminalStates
  BY <1>2, GatewayConstants DEF TerminalStates
<1>5. RowsMove /\ ~NoRow(r)
  BY <1>1, <1>2, <1>3, <1>4, AppendedRows DEF Stays
<1> QED
  BY <1>2, <1>5 DEF Stays

LEMMA FinishRows ==
    ASSUME HInv, StartsFirst, FinishResolution,
           trace' = TraceState(resolving.run, resolving.next)
    PROVE  RowsMove /\ live'.owner = live.owner
<1> DEFINE r == resolving.run
           w == live.owner[r]
           s == resolving.next
           p == SetRun(replay, w, r, s, "none")
           e == RunError(replay, w, r, s)
<1>1. IInv /\ TraceTypes /\ HostOperation
  BY DEF HInv, TInv, HostOperation, RowOperation
<1>2. RowsKeep /\ up' = up /\ live'.owner = live.owner
  BY <1>1, FinishOperation
<1>3. /\ resolving # NotResolving /\ w \in live.works
      /\ \/ replay' = p /\ err = "none" /\ e = "none"
         \/ replay' = replay /\ err' # "none"
  BY DEF FinishResolution, Durable, KnownWork
<1>4. r \in Runs /\ s \in {"running", "failed"} /\ w \in Works
  BY <1>1, <1>3, IFacts DEF IInv, ResolvingKnown
<1>5. trace'.started = IF s \in {"ready", "running"} THEN trace.started \cup {r}
                       ELSE trace.started
  BY <1>1, <1>4, TraceStateReads
<1>6. p.run = [replay.run EXCEPT ![r] = s] /\ p.owner = [replay.owner EXCEPT ![r] = w]
  BY <1>1, <1>4, IFacts DEF SetRun, NoteRun, Projection
<1>7. s \in WorkStates /\ s \in {"running"} \cup TerminalStates
  BY <1>4 DEF WorkStates, TerminalStates
<1> HIDE DEF p, s, w, r
<1>8. /\ \/ replay' = p /\ err = "none" /\ RunError(replay, w, r, s) = "none"
         \/ replay' = replay /\ err' # "none"
      /\ Rowless(r) => s \in {"running"} \cup TerminalStates
  BY <1>3, <1>7
<1>9. ASSUME NEW v \in Works, NEW q \in Runs, NEW t \in WorkStates, NEW d,
             v = w, q = r, t = s, d = p
      PROVE  RowsMove
  <2>1. /\ \/ replay' = d /\ err = "none" /\ RunError(replay, v, q, t) = "none"
           \/ replay' = replay /\ err' # "none"
        /\ Rowless(q) => t \in {"running"} \cup TerminalStates
    BY <1>7, <1>8, <1>9
  <2>2. /\ d.run = [replay.run EXCEPT ![q] = t] /\ d.owner = [replay.owner EXCEPT ![q] = v]
        /\ trace'.started = IF t \in {"ready", "running"} THEN trace.started \cup {q}
                            ELSE trace.started
    BY <1>5, <1>6, <1>9
  <2>3. v \in Works /\ q \in Runs /\ t \in WorkStates
    BY <1>9
  <2>4. RowsKeep /\ up' = up /\ IInv /\ HostOperation
    BY <1>1, <1>2
  <2>5. \/ Rowless(q) => t \in {"running"} \cup TerminalStates
        \/ <<v, q>> \in steered'
    BY <2>1
  <2> QED
    BY ONLY <2>1, <2>2, <2>3, <2>4, <2>5, StartsFirst, LifecycleRows
<1> QED
  BY <1>2, <1>4, <1>7, <1>9

\* The end of a child's Run.
LEMMA ChildEndRows ==
    ASSUME HInv, StartsFirst, NEW w \in Works, NEW r \in Runs, NEW s \in TerminalStates,
           FinishChildWork(w, r, s), trace' = TraceState(r, s)
    PROVE  RowsMove /\ OwnersGoOn
<1>1. IInv /\ TraceTypes /\ live.owner \in [Runs -> Works \cup {NoWork}]
  BY IFacts DEF HInv, TInv
<1>2. RowsKeep /\ up' = up /\ live'.owner = [live.owner EXCEPT ![r] = w]
  BY <1>1, ChildEndOperation
<1>3. HostOperation /\ AppendTransition(w, r, s, "none")
  BY DEF HostOperation, RowOperation, FinishChildWork
<1>4. s \in RequestedStates /\ EventState(s) = s
  BY DEF RequestedStates, WorkStates, TerminalStates, EventState
<1>5. RowsMove /\ ~NoRow(r)
  BY <1>1, <1>2, <1>3, <1>4, AppendedRows
<1> QED
  BY <1>1, <1>2, <1>5 DEF OwnersGoOn

LEMMA SteerRows ==
    ASSUME HInv, StartsFirst, NEW w \in Works, NEW r \in Runs, ApplySteeringCheckpoint(w, r),
           trace'.started = trace.started
    PROVE  RowsMove /\ live'.owner = live.owner
<1> DEFINE p == SetRun(replay, w, r, "checkpointed", "none")
           e == RunError(replay, w, r, "checkpointed")
<1>1. IInv /\ HostOperation
  BY DEF HInv, HostOperation, RowOperation
<1>2. Stays /\ live' = live
  BY <1>1, SteerOperation
<1>3. AppendRow(w, live, p, e) /\ <<w, r>> \in steered'
  BY DEF ApplySteeringCheckpoint
<1>4. p.run = [replay.run EXCEPT ![r] = "checkpointed"] /\ p.owner = [replay.owner EXCEPT ![r] = w]
  BY <1>1, IFacts DEF SetRun, NoteRun, Projection
<1> HIDE DEF p
<1>5. \/ replay' = p /\ err = "none" /\ e = "none"
      \/ replay' = replay /\ err' # "none"
  BY <1>3, HostConstants DEF AppendRow, Durable, KnownWork
<1>6. "checkpointed" \in WorkStates
  BY DEF WorkStates
<1>7. RowsMove
  BY <1>1, <1>2, <1>3, <1>4, <1>5, <1>6, LifecycleRows DEF Stays
<1> QED
  BY <1>2, <1>7

LEMMA ArchiveRows ==
    ASSUME IInv, StartsFirst, NEW w \in Works, ArchiveWork(w), trace'.started = trace.started
    PROVE  RowsMove /\ live'.owner = live.owner
<1>1. HostOperation
  BY DEF HostOperation
<1>2. RowsKeep /\ up' = up /\ live'.owner = live.owner /\ replay'.run = replay.run
  BY ArchiveOperation
<1> QED
  BY <1>1, <1>2, StillRows

LEMMA UnstartedStays ==
    ASSUME Unstarted, RowsMove, PhaseGoesOn, OwnersGoOn,
           \A p \in Prompts : prompt[p].step = "start" /\ NoRow(prompt[p].run) =>
                prompt'[p].step = "start" /\ prompt'[p].run = prompt[p].run
    PROVE  Unstarted'
<1> SUFFICES ASSUME NEW q \in Runs, up', NoRow(q), live'.owner[q] # NoWork
             PROVE  \/ phase'[q] \in {"ready", "none"}
                    \/ /\ phase'[q] = "running"
                       /\ \E p \in Prompts : prompt'[p].step = "start" /\ prompt'[p].run = q
  BY DEF Unstarted, Rowless, NoRow
<1>1. up /\ Rowless(q) /\ live.owner[q] # NoWork /\ phase'[q] = phase[q]
  BY DEF RowsMove, PhaseGoesOn, OwnersGoOn
<1>2. \/ phase[q] \in {"ready", "none"}
      \/ /\ phase[q] = "running"
         /\ \E p \in Prompts : prompt[p].step = "start" /\ prompt[p].run = q
  BY <1>1 DEF Unstarted
<1>3. ASSUME NEW p \in Prompts, prompt[p].step = "start", prompt[p].run = q
      PROVE  prompt'[p].step = "start" /\ prompt'[p].run = q
  BY <1>3
<1> QED
  BY <1>1, <1>2, <1>3

LEMMA RelayKnowsStays ==
    ASSUME RelayKnows, RelayFields, RowsMove, OwnersGoOn, relay' = relay
    PROVE  RelayKnows'
BY DEF RelayKnows, RelayFields, RowsMove, OwnersGoOn, Rowless, NoRow

\* A step that leaves the prompts alone.
LEMMA RelayStarts ==
    ASSUME HInv, StartInv, RowsMove, PhaseGoesOn, OwnersGoOn, prompt' = prompt,
           relay' = relay \/ RelayKnows'
    PROVE  StartInv'
<1>1. RelayKnows'
  BY RelayKnowsStays, TFacts DEF StartInv, HInv
<1>2. PromptFields
  BY TFacts DEF HInv
<1>3. PromptKnows'
  BY <1>2 DEF StartInv, PromptKnows, PromptFields, RowsMove, Rowless, NoRow
<1>4. Unstarted'
  BY UnstartedStays DEF StartInv
<1> QED
  BY <1>1, <1>3, <1>4 DEF StartInv, RowsMove

\* A prompt moves to x, and has the locks, or finds them free, if x has them.
LEMMA PromptKnowsMoves ==
    ASSUME TInv, PromptKnows, RowsMove, NEW p \in Prompts, NEW x,
           prompt' = [prompt EXCEPT ![p] = x],
           x.step \in {"turn", "answered", "verified"} => ~NoRow(x.run),
           x.step \in {"prepare", "start"} => prompt[p].step = "prepare" \/ LocksFree
    PROVE  PromptKnows'
<1>1. PromptFields /\ prompt \in [Prompts -> PromptShape]
  BY DEF TInv, PromptTypes
<1>2. prompt'[p] = x /\ \A q \in Prompts \ {p} : prompt'[q] = prompt[q]
  BY <1>1
<1>3. \A q \in Prompts :
        prompt'[q].step \in {"turn", "answered", "verified"} => ~NoRow(prompt'[q].run)
  BY <1>1, <1>2 DEF PromptKnows, PromptFields, RowsMove
<1>4. \A q, v \in Prompts :
        prompt'[q].step \in {"prepare", "start"} /\ prompt'[v].step \in {"prepare", "start"} => q = v
  BY <1>2 DEF PromptKnows, LocksFree
<1> QED
  BY <1>3, <1>4 DEF PromptKnows, Rowless, NoRow

LEMMA PromptStarts ==
    ASSUME HInv, StartInv, RowsMove, PhaseGoesOn, live'.owner = live.owner, relay' = relay,
           NEW p \in Prompts, NEW x, prompt' = [prompt EXCEPT ![p] = x],
           prompt[p].step = "start" => ~NoRow(prompt[p].run),
           x.step \in {"turn", "answered", "verified"} => ~NoRow(x.run),
           x.step \in {"prepare", "start"} => prompt[p].step = "prepare" \/ LocksFree
    PROVE  StartInv'
<1>1. TInv /\ PromptKnows /\ RelayFields /\ RelayKnows /\ Unstarted
  BY TFacts DEF HInv, StartInv
<1>2. PromptKnows'
  BY <1>1, PromptKnowsMoves
<1>6. OwnersGoOn
  BY DEF OwnersGoOn
<1>3. RelayKnows'
  BY <1>1, <1>6, RelayKnowsStays
<1>4. \A q \in Prompts : prompt[q].step = "start" /\ NoRow(prompt[q].run) =>
        prompt'[q].step = "start" /\ prompt'[q].run = prompt[q].run
  BY <1>1 DEF TInv, PromptTypes
<1>5. Unstarted'
  BY <1>1, <1>4, <1>6, UnstartedStays
<1> QED
  BY <1>2, <1>3, <1>5 DEF StartInv, RowsMove

\* A step of the relay that leaves the kernel alone and goes on to something
\* else than the row, or the record, of a transition.
LEMMA RelayQuietStarts ==
    ASSUME HInv, StartInv, RowsMove, live'.owner = live.owner, prompt' = prompt, phase' = phase,
           relay' = relay \/ relay'.step \notin {"journal", "apply"}
    PROVE  StartInv'
<1>1. PhaseGoesOn /\ OwnersGoOn
  BY DEF PhaseGoesOn, OwnersGoOn
<1>2. relay' = relay \/ RelayKnows'
  BY DEF RelayKnows
<1> QED
  BY <1>1, <1>2, RelayStarts

LEMMA RefusesStarts ==
    ASSUME HInv, StartInv, RelayRefuses, prompt' = prompt
    PROVE  StartInv'
<1>1. relay' = Idle /\ UNCHANGED gatewayVars /\ phase' = phase /\ trace' = trace
  BY DEF RelayRefuses, kernelVars
<1>2. RowsMove /\ live'.owner = live.owner
  BY <1>1, StutterRows DEF StartInv
<1> QED
  BY <1>1, <1>2, IdleIsTyped, RelayQuietStarts

\* The requests that only take note.
LEMMA RequestStarts ==
    ASSUME HInv, StartInv, NEW w \in Works, NEW r \in Runs, NEW t \in Tickets,
           NEW approved \in BOOLEAN,
           RelayAsk(w, r, t) \/ RelayResolve(w, r, t, approved)
    PROVE  StartInv'
<1>1. /\ UNCHANGED gatewayVars /\ phase' = phase /\ trace' = trace /\ prompt' = prompt
      /\ relay'.step \in {"ask", "resolve"}
  BY DEF RelayAsk, RelayResolve, kernelVars, Idle
<1>2. RowsMove /\ live'.owner = live.owner
  BY <1>1, StutterRows DEF StartInv
<1> QED
  BY <1>1, <1>2, RelayQuietStarts

LEMMA RelayCreateStarts ==
    ASSUME HInv, StartInv, NEW w \in Works, RelayCreate(w)
    PROVE  StartInv'
<1>1. CreateWork(w) /\ phase' = phase /\ trace' = trace /\ prompt' = prompt /\ relay' = relay
  BY DEF RelayCreate, kernelVars
<1>2. RowsMove /\ live'.owner = live.owner
  BY <1>1, CreateWorkRows DEF StartInv, HInv
<1> QED
  BY <1>1, <1>2, RelayQuietStarts

LEMMA RelayCommitStarts ==
    ASSUME HInv, StartInv, NEW w \in Works, NEW e \in Effects, RelayCommit(w, e)
    PROVE  StartInv'
<1>1. /\ RecordEffectAttempted(w, e) /\ phase' = phase /\ trace' = trace /\ prompt' = prompt
      /\ relay'.step = "observe"
  BY DEF RelayCommit, kernelVars, Idle
<1>2. RowsMove /\ live'.owner = live.owner
  BY <1>1, EffectRows DEF StartInv, HInv
<1> QED
  BY <1>1, <1>2, RelayQuietStarts

LEMMA RelayEffectStarts ==
    ASSUME HInv, StartInv, NEW ok \in BOOLEAN, RelayObserve(ok) \/ RelayVerify(ok)
    PROVE  StartInv'
<1>1. prompt' = prompt /\ relay.step \in {"observe", "verify"}
  BY DEF RelayObserve, RelayVerify, RelayAt
<1>2. relay.work \in Works /\ relay.item \in Effects /\ TInv
  BY <1>1, TFacts DEF HInv, RelayFields
<1>3. CASE /\ RecordEffectObserved(relay.work, relay.item, ok) \/ RecordEffectVerified(relay.work, relay.item, ok)
           /\ relay' = [relay EXCEPT !.step = "verify"] \/ relay' = Idle
           /\ UNCHANGED <<kernelVars, trace, denied>>
  <2>1. phase' = phase /\ trace' = trace
    BY <1>3 DEF kernelVars
  <2>2. RowsMove /\ live'.owner = live.owner
    BY <1>2, <1>3, <2>1, EffectRows DEF StartInv, HInv
  <2>3. relay'.step \in {"verify", "idle"}
    BY <1>2, <1>3, RelayNext, IdleIsTyped
  <2> QED
    BY <1>1, <2>1, <2>2, <2>3, RelayQuietStarts
<1>4. CASE RelayRefuses
  BY <1>1, <1>4, RefusesStarts
<1> QED
  BY <1>3, <1>4 DEF RelayObserve, RelayVerify

\* execution/begin: a new execution, of a Run no Work has.
LEMMA RelayBeginStarts ==
    ASSUME HInv, StartInv, NEW w \in Works, NEW r \in Runs, RelayBegin(w, r)
    PROVE  StartInv'
<1>1. /\ UNCHANGED gatewayVars /\ phase' = [phase EXCEPT ![r] = "ready"] /\ trace' = trace
      /\ prompt' = prompt /\ relay'.step = "bind" /\ live.owner[r] = NoWork
  BY DEF RelayBegin, Fresh, Idle
<1>2. RowsMove /\ live'.owner = live.owner
  BY <1>1, StutterRows DEF StartInv
<1>3. PhaseGoesOn /\ OwnersGoOn
  BY <1>1, <1>2, TFacts DEF PhaseGoesOn, OwnersGoOn, HInv
<1>4. RelayKnows'
  BY <1>1 DEF RelayKnows
<1> QED
  BY <1>1, <1>2, <1>3, <1>4, RelayStarts

\* A Run is bound: Unstarted speaks of it from now on.
LEMMA BindingRows ==
    ASSUME HInv, RowsInv, StartInv, NEW w \in Works, NEW r \in Runs, BindExecution(w, r),
           trace' = trace
    PROVE  /\ RowsMove
           /\ live'.owner = [live.owner EXCEPT ![r] = w] /\ live.owner[r] = NoWork
           /\ live.owner \in [Runs -> Works \cup {NoWork}]
<1>1. IInv /\ DiskWorks /\ StartsFirst
  BY DEF HInv, RowsInv, StartInv
<1>2. /\ RowsKeep /\ up' = up /\ live'.owner = [live.owner EXCEPT ![r] = w]
      /\ live.owner[r] = NoWork
  BY <1>1, BindOperation
<1>3. replay'.run = replay.run
  BY <1>1, BindShape
<1>4. HostOperation
  BY DEF HostOperation, RowOperation
<1> QED
  BY <1>1, <1>2, <1>3, <1>4, StillRows, IFacts

LEMMA BoundStarts ==
    ASSUME HInv, RowsInv, StartInv, NEW w \in Works, NEW r \in Runs, BindExecution(w, r),
           trace' = trace, phase' = phase, prompt' = prompt, phase[r] \in {"ready", "none"},
           relay'.step \notin {"journal", "apply"}
    PROVE  StartInv'
<1>1. PromptFields
  BY TFacts DEF HInv
<1>2. /\ RowsMove
      /\ live'.owner = [live.owner EXCEPT ![r] = w] /\ live.owner[r] = NoWork
      /\ live.owner \in [Runs -> Works \cup {NoWork}]
  BY BindingRows
<1>3. Unstarted'
  <2> SUFFICES ASSUME NEW q \in Runs, up', NoRow(q), live'.owner[q] # NoWork
               PROVE  \/ phase[q] \in {"ready", "none"}
                      \/ /\ phase[q] = "running"
                         /\ \E p \in Prompts : prompt[p].step = "start" /\ prompt[p].run = q
    BY DEF Unstarted, Rowless, NoRow
  <2>1. CASE q = r
    BY <2>1
  <2>2. CASE q # r
    BY <1>2, <2>2 DEF StartInv, Unstarted, RowsMove
  <2> QED
    BY <2>1, <2>2
<1>4. RelayKnows'
  BY DEF RelayKnows
<1>5. PromptKnows'
  BY <1>1, <1>2 DEF StartInv, PromptKnows, PromptFields, RowsMove, Rowless, NoRow
<1> QED
  BY <1>2, <1>3, <1>4, <1>5 DEF StartInv, RowsMove

LEMMA RelayBindStarts ==
    ASSUME HInv, RowsInv, StartInv, RelayBind
    PROVE  StartInv'
<1>1. prompt' = prompt /\ relay.step = "bind"
  BY DEF RelayBind, RelayAt
<1>2. CASE /\ BindExecution(relay.work, relay.run) /\ relay' = Idle
           /\ UNCHANGED <<kernelVars, trace, denied>>
  <2>1. /\ relay.work \in Works /\ relay.run \in Runs /\ phase[relay.run] = "ready"
        /\ phase' = phase /\ trace' = trace /\ relay'.step = "idle"
    BY <1>1, <1>2, TFacts, IdleIsTyped DEF HInv, RelayFields, KInv, RelayBacked, kernelVars
  <2> QED
    BY <1>1, <1>2, <2>1, BoundStarts
<1>3. CASE RelayRefuses
  BY <1>1, <1>3, RefusesStarts
<1> QED
  BY <1>2, <1>3 DEF RelayBind

\* A delegation: the child Work, its Run, which the kernel does not know, and
\* the start of that.
LEMMA RelaySpawnStarts ==
    ASSUME HInv, StartInv, NEW w \in Works, NEW c \in Works, NEW r \in Runs, RelaySpawn(w, c, r)
    PROVE  StartInv'
<1>1. /\ CreateChildWork(c, w) /\ phase' = phase /\ prompt' = prompt
      /\ trace' = [trace EXCEPT !.delegated = @ \cup {<<c, r>>}]
      /\ relay'.step = "child_bind"
  BY DEF RelaySpawn, kernelVars, Idle
<1>2. trace'.started = trace.started
  BY <1>1 DEF HInv, TInv, TraceTypes, TraceRecord
<1>3. HostOperation /\ AppendCreated(c, w)
  BY <1>1 DEF HostOperation, RowOperation, CreateChildWork
<1>4. RowsMove /\ live'.owner = live.owner
  BY <1>2, <1>3, CreateRows DEF StartInv, HInv
<1> QED
  BY <1>1, <1>4, RelayQuietStarts

LEMMA RelayChildBindStarts ==
    ASSUME HInv, RowsInv, StartInv, RelayChildBind
    PROVE  StartInv'
<1>1. /\ relay.step = "child_bind" /\ BindExecution(relay.work, relay.run)
      /\ relay' = [relay EXCEPT !.step = "child_start"]
      /\ phase' = phase /\ prompt' = prompt /\ trace' = trace
  BY DEF RelayChildBind, RelayAt, kernelVars
<1>2. relay.work \in Works /\ relay.run \in Runs /\ TInv
  BY <1>1, TFacts DEF HInv, RelayFields
<1>3. live.owner[relay.run] = NoWork /\ Delegated(relay.run)
  BY <1>1 DEF BindExecution, MayBind, HInv, KInv, RelayBacked
<1>4. phase[relay.run] = "none"
  BY <1>2, <1>3 DEF HInv, KInv, KernelBacked
<1>5. relay'.step = "child_start"
  BY <1>1, <1>2, RelayNext
<1> QED
  BY <1>1, <1>2, <1>4, <1>5, BoundStarts

LEMMA RelayChildStartStarts ==
    ASSUME HInv, StartInv, RelayChildStart
    PROVE  StartInv'
<1>1. /\ relay.step = "child_start" /\ RecordExecutionTransition(relay.work, relay.run, "running")
      /\ trace' = TraceState(relay.run, "running") /\ relay' = Idle
      /\ phase' = phase /\ prompt' = prompt
  BY DEF RelayChildStart, RelayAt, kernelVars
<1>2. relay.work \in Works /\ relay.run \in Runs
  BY <1>1, TFacts DEF HInv, RelayFields
<1>3. EventState("running") = "running" /\ "running" \in RequestedStates
  BY StatesRequested DEF EventState
<1>4. RowsMove /\ live'.owner = live.owner
  BY <1>1, <1>2, <1>3, TransitionRows DEF StartInv
<1> QED
  BY <1>1, <1>4, IdleIsTyped, RelayQuietStarts

\* execution/transition: from Ready the kernel goes on or is cancelled.
LEMMA RelayTransitionStarts ==
    ASSUME HInv, StartInv, NEW w \in Works, NEW r \in Runs, NEW s \in RelayStates,
           RelayTransition(w, r, s)
    PROVE  StartInv'
<1>1. /\ relay.step = "idle" /\ LocksFree /\ up /\ KernelValidates(r, s)
      /\ UNCHANGED gatewayVars /\ phase' = phase /\ trace' = trace /\ prompt' = prompt
      /\ relay'.step = "journal" /\ relay'.run = r /\ relay'.state = s
  BY DEF RelayTransition, RelayIdle, kernelVars, Idle
<1>2. RowsMove /\ live'.owner = live.owner
  BY <1>1, StutterRows DEF StartInv
<1>3. PhaseGoesOn /\ OwnersGoOn
  BY <1>1, <1>2 DEF PhaseGoesOn, OwnersGoOn
<1>4. phase[r] # "none"
  BY <1>1 DEF KernelValidates
<1>5. ASSUME Rowless(r), live.owner[r] # NoWork PROVE s \in {"running", "cancelled"}
  <2>1. phase[r] = "ready"
    BY <1>1, <1>4, <1>5 DEF StartInv, Unstarted, LocksFree
  <2>2. s # "ready"
    BY DEF RelayStates, WaitingStates, TerminalStates
  <2> QED
    BY <1>1, <2>1, <2>2 DEF KernelValidates, KernelMoves, PhaseCanTransition, WaitingStates
<1>6. RelayKnows'
  BY <1>1, <1>2, <1>5 DEF RelayKnows, RowsMove, Rowless, NoRow
<1> QED
  BY <1>1, <1>2, <1>3, <1>6, RelayStarts

LEMMA RelayJournalStarts ==
    ASSUME HInv, StartInv, RelayJournal
    PROVE  StartInv'
<1>1. prompt' = prompt /\ relay.step = "journal"
  BY DEF RelayJournal, RelayAt
<1>2. CASE /\ RecordExecutionTransition(relay.work, relay.run, relay.state)
           /\ trace' = TraceState(relay.run, EventState(relay.state))
           /\ relay' = [relay EXCEPT !.step = "apply"]
           /\ UNCHANGED <<kernelVars, denied>>
  <2>1. /\ relay.work \in Works /\ relay.run \in Runs /\ relay.state \in RequestedStates /\ TInv
    BY <1>1, TFacts, StatesRequested DEF HInv, RelayFields
  <2>2. Rowless(relay.run) /\ live.owner[relay.run] # NoWork => relay.state \in {"running", "cancelled"}
    BY <1>1 DEF StartInv, RelayKnows
  <2>3. RowsMove /\ live'.owner = live.owner /\ ~NoRow(relay.run)
    BY <1>2, <2>1, <2>2, TransitionRows DEF StartInv
  <2>4. phase' = phase
    BY <1>2 DEF kernelVars
  <2>5. relay'.step = "apply" /\ relay'.run = relay.run
    BY <1>2, <2>1, RelayNext
  <2>6. RelayKnows'
    BY <2>3, <2>5 DEF RelayKnows, Rowless, NoRow
  <2>7. PhaseGoesOn /\ OwnersGoOn
    BY <2>3, <2>4 DEF PhaseGoesOn, OwnersGoOn
  <2> QED
    BY <1>1, <2>3, <2>6, <2>7, RelayStarts
<1>3. CASE RelayRefuses
  BY <1>1, <1>3, RefusesStarts
<1> QED
  BY <1>2, <1>3 DEF RelayJournal

LEMMA RelayApplyStarts ==
    ASSUME HInv, StartInv, RelayApply
    PROVE  StartInv'
<1> DEFINE r == relay.run
           s == relay.state
<1>1. /\ relay.step = "apply" /\ relay' = Idle /\ UNCHANGED gatewayVars /\ trace' = trace
      /\ prompt' = prompt /\ phase' = KernelAfter(r, s)
  BY DEF RelayApply, RelayAt
<1>2. r \in Runs /\ s \in RelayStates /\ ~Rowless(r) /\ phase \in [Runs -> OptStates]
  BY <1>1, TFacts DEF HInv, RelayFields, StartInv, RelayKnows
<1>3. s # "none"
  BY <1>2, StatesRequested DEF WorkStates, WaitingStates, TerminalStates
<1> HIDE DEF r, s
<1>4. RowsMove /\ live'.owner = live.owner
  BY <1>1, StutterRows DEF StartInv
<1>5. \A q \in Runs : phase'[q] = phase[q] \/ (q = r /\ phase'[q] = s)
  BY <1>1, <1>2 DEF KernelAfter
<1>6. PhaseGoesOn /\ OwnersGoOn
  BY <1>2, <1>3, <1>4, <1>5 DEF PhaseGoesOn, OwnersGoOn, RowsMove
<1>7. RelayKnows'
  BY <1>1, IdleIsTyped DEF RelayKnows
<1> QED
  BY <1>1, <1>4, <1>6, <1>7, RelayStarts

LEMMA RelayAskJournalStarts ==
    ASSUME HInv, StartInv, RelayAskJournal
    PROVE  StartInv'
<1>1. prompt' = prompt /\ relay.step = "ask"
  BY DEF RelayAskJournal, RelayAt
<1>2. CASE /\ RecordPendingApproval(relay.work, relay.run, relay.item)
           /\ relay' = [relay EXCEPT !.step = "asked"]
           /\ UNCHANGED <<kernelVars, trace, denied>>
  <2>1. relay.work \in Works /\ relay.run \in Runs /\ relay.item \in Tickets /\ TInv
    BY <1>1, TFacts DEF HInv, RelayFields
  <2>2. phase' = phase /\ trace' = trace
    BY <1>2 DEF kernelVars
  <2>3. RowsMove /\ live'.owner = live.owner
    BY <1>2, <2>1, <2>2, RequestRows DEF StartInv, HInv
  <2>4. relay'.step = "asked"
    BY <1>2, <2>1, RelayNext
  <2> QED
    BY <1>1, <2>2, <2>3, <2>4, RelayQuietStarts
<1>3. CASE RelayRefuses
  BY <1>1, <1>3, RefusesStarts
<1> QED
  BY <1>2, <1>3 DEF RelayAskJournal

LEMMA RelayAskApplyStarts ==
    ASSUME HInv, StartInv, RelayAskApply
    PROVE  StartInv'
<1>1. /\ relay' = Idle /\ UNCHANGED gatewayVars /\ trace' = trace /\ prompt' = prompt
      /\ phase' = phase
  BY DEF RelayAskApply
<1>2. RowsMove /\ live'.owner = live.owner
  BY <1>1, StutterRows DEF StartInv
<1> QED
  BY <1>1, <1>2, IdleIsTyped, RelayQuietStarts

LEMMA RelayResolveJournalStarts ==
    ASSUME HInv, StartInv, RelayResolveJournal
    PROVE  StartInv'
<1>1. prompt' = prompt /\ relay.step = "resolve"
  BY DEF RelayResolveJournal, RelayAt
<1>2. CASE /\ ResolvePendingApproval(relay.work, relay.run, relay.item, relay.state = "running")
           /\ trace' = TraceResolved(relay.run, relay.state)
           /\ relay' = [relay EXCEPT !.step = "finish"]
           /\ UNCHANGED kernelVars
  <2>1. /\ relay.work \in Works /\ relay.run \in Runs /\ relay.item \in Tickets /\ TInv
        /\ (relay.state = "running") \in BOOLEAN
    BY <1>1, TFacts DEF HInv, RelayFields
  <2>2. phase' = phase
    BY <1>2 DEF kernelVars
  <2>3. trace'.started = trace.started
    BY <1>2, <2>1 DEF TraceResolved, TInv, TraceTypes, TraceRecord
  <2>8. HostOperation
    BY <1>2, <2>1 DEF HostOperation, RowOperation
  <2>4. /\ RowsKeep /\ up' = up /\ live'.owner = live.owner /\ replay'.run = replay.run
    BY <1>2, <2>1, ResolveOperation DEF HInv
  <2>5. RowsMove
    BY <2>3, <2>4, <2>8, StillRows DEF StartInv
  <2>6. relay'.step = "finish"
    BY <1>2, <2>1, RelayNext
  <2> QED
    BY <1>1, <2>2, <2>4, <2>5, <2>6, RelayQuietStarts
<1>3. CASE RelayRefuses
  BY <1>1, <1>3, RefusesStarts
<1> QED
  BY <1>2, <1>3 DEF RelayResolveJournal

LEMMA RelayFinishStarts ==
    ASSUME HInv, StartInv, RelayFinish
    PROVE  StartInv'
<1>1. /\ FinishResolution /\ trace' = TraceState(resolving.run, resolving.next)
      /\ relay' = [relay EXCEPT !.step = "resolved"] /\ phase' = phase /\ prompt' = prompt
  BY DEF RelayFinish, kernelVars
<1>2. RowsMove /\ live'.owner = live.owner
  BY <1>1, FinishRows DEF StartInv
<1>3. relay'.step = "resolved"
  BY <1>1, RelayNext DEF HInv
<1> QED
  BY <1>1, <1>2, <1>3, RelayQuietStarts

\* The kernel follows a resolution: its Run waited, so it has a row.
LEMMA RelayResolveApplyStarts ==
    ASSUME HInv, StartInv, RelayResolveApply
    PROVE  StartInv'
<1> DEFINE r == relay.run
           s == relay.state
<1>1. /\ relay.step = "resolved" /\ up /\ relay' = Idle /\ UNCHANGED gatewayVars
      /\ trace' = trace /\ prompt' = prompt
      /\ phase' = phase \/ phase' = [phase EXCEPT ![r] = s]
  BY DEF RelayResolveApply, RelayAt
<1>2. /\ r \in Runs /\ s \in {"running", "failed"} /\ phase \in [Runs -> OptStates]
      /\ asks[r] = relay.item /\ relay.item \in Tickets
  BY <1>1, TFacts DEF HInv, RelayFields, KInv, RelayBacked
<1>3. phase[r] = "waiting_approval"
  BY <1>2, HostConstants DEF HInv, KInv, GateIsBacked
<1> HIDE DEF r, s
<1>4. ~(Rowless(r) /\ live.owner[r] # NoWork)
  BY <1>1, <1>2, <1>3 DEF StartInv, Unstarted
<1>5. RowsMove /\ live'.owner = live.owner
  BY <1>1, StutterRows DEF StartInv
<1>6. PhaseGoesOn /\ OwnersGoOn
  BY <1>1, <1>2, <1>4, <1>5 DEF PhaseGoesOn, OwnersGoOn, RowsMove
<1>7. RelayKnows'
  BY <1>1, IdleIsTyped DEF RelayKnows
<1> QED
  BY <1>1, <1>5, <1>6, <1>7, RelayStarts

LEMMA RelayKeepsStarts ==
    ASSUME HInv, RowsInv, StartInv, RelayRequest \/ RelayStep
    PROVE  StartInv'
<1>1. CASE RelayRequest
  BY <1>1, RelayCreateStarts, RelayCommitStarts, RelayBeginStarts, RelayTransitionStarts,
     RelaySpawnStarts, RequestStarts DEF RelayRequest
<1>2. CASE RelayStep
  BY <1>2, RelayBindStarts, RelayJournalStarts, RelayApplyStarts, RelayAskJournalStarts,
     RelayAskApplyStarts, RelayResolveJournalStarts, RelayFinishStarts, RelayResolveApplyStarts,
     RelayChildBindStarts, RelayChildStartStarts, RelayEffectStarts DEF RelayStep
<1> QED
  BY <1>1, <1>2

\* What reaches the journal and not the kernel.
LEMMA JournalKeepsStarts ==
    ASSUME HInv, StartInv, JournalRequest
    PROVE  StartInv'
<1>1. ASSUME NEW w \in Works, HostArchive(w) PROVE StartInv'
  <2>1. /\ ArchiveWork(w) /\ phase' = phase /\ relay' = relay /\ prompt' = prompt
        /\ trace' = [trace EXCEPT !.archived = @ \cup {w}]
    BY <1>1 DEF HostArchive, kernelVars
  <2>2. trace'.started = trace.started
    BY <2>1 DEF HInv, TInv, TraceTypes, TraceRecord
  <2>3. RowsMove /\ live'.owner = live.owner
    BY <2>1, <2>2, ArchiveRows DEF StartInv, HInv
  <2> QED
    BY <2>1, <2>3, RelayQuietStarts
<1>2. ASSUME NEW w \in Works, NEW r \in Runs, NEW s \in TerminalStates, CloseChild(w, r, s)
      PROVE  StartInv'
  <2>1. /\ FinishChildWork(w, r, s) /\ phase' = phase /\ relay' = relay /\ prompt' = prompt
        /\ trace' = TraceState(r, s)
    BY <1>2 DEF CloseChild, kernelVars
  <2>2. RowsMove /\ OwnersGoOn
    BY <2>1, ChildEndRows DEF StartInv
  <2>3. PhaseGoesOn
    BY <2>1 DEF PhaseGoesOn
  <2> QED
    BY <2>1, <2>2, <2>3, RelayStarts
<1>3. ASSUME NEW w \in Works, NEW r \in Runs, NEW id \in {trace.id[q] : q \in Runs},
             HostSteer(w, r, id)
      PROVE  StartInv'
  <2>1. /\ ApplySteeringCheckpoint(w, r) /\ phase' = phase /\ relay' = relay /\ prompt' = prompt
        /\ trace' = [TraceState(r, "checkpointed") EXCEPT !.id[r] = id] /\ denied' = denied
    BY <1>3 DEF HostSteer, kernelVars
  <2>4. TraceTypes /\ id \in Runs
    BY DEF HInv, TInv, TraceTypes, TraceRecord
  <2>2. trace'.started = trace.started
    BY <2>1, <2>4, SteerTrace
  <2>3. RowsMove /\ live'.owner = live.owner
    BY <2>1, <2>2, SteerRows DEF StartInv
  <2> QED
    BY <2>1, <2>3, RelayQuietStarts
<1> QED
  BY <1>1, <1>2, <1>3 DEF JournalRequest

\* A prompt that is admitted, prepared or answered.
LEMMA AdmitStarts ==
    ASSUME HInv, StartInv, NEW p \in Prompts, NEW w \in Works, PromptAdmit(p, w)
    PROVE  StartInv'
<1> DEFINE x == [NoPrompt EXCEPT !.step = "queued", !.work = w]
<1>1. x.step = "queued"
  BY DEF NoPrompt
<1>2. /\ prompt' = [prompt EXCEPT ![p] = x] /\ prompt[p].step = "idle"
      /\ UNCHANGED gatewayVars /\ phase' = phase /\ trace' = trace /\ relay' = relay
  BY DEF PromptAdmit, PromptAt, kernelVars
<1> HIDE DEF x
<1>3. RowsMove /\ live'.owner = live.owner
  BY <1>2, StutterRows DEF StartInv
<1>4. PhaseGoesOn
  BY <1>2 DEF PhaseGoesOn
<1> QED
  BY <1>1, <1>2, <1>3, <1>4, PromptStarts

LEMMA PrepareStarts ==
    ASSUME HInv, StartInv, NEW p \in Prompts, PromptPrepare(p)
    PROVE  StartInv'
<1> DEFINE w == prompt[p].work
           x == [prompt[p] EXCEPT !.step = "prepare", !.activated = w \notin bound]
<1>1. /\ prompt[p].step = "queued" /\ LocksFree
      /\ prompt' = [prompt EXCEPT ![p].step = "prepare", ![p].activated = w \notin bound]
      /\ CreateWork(w) \/ UNCHANGED gatewayVars
      /\ phase' = phase /\ relay' = relay /\ trace' = trace
  BY DEF PromptPrepare, PromptAt, GatewayFree, kernelVars
<1>2. w \in Works /\ prompt \in [Prompts -> PromptShape]
  BY <1>1 DEF HInv, TInv, PromptTypes, PromptFields
<1>3. prompt' = [prompt EXCEPT ![p] = x] /\ x.step = "prepare"
  BY <1>1, <1>2 DEF PromptShape
<1> HIDE DEF x, w
<1>4. RowsMove /\ live'.owner = live.owner
  BY <1>1, <1>2, CreateWorkRows, StutterRows DEF StartInv, HInv
<1>5. PhaseGoesOn
  BY <1>1 DEF PhaseGoesOn
<1> QED
  BY <1>1, <1>3, <1>4, <1>5, PromptStarts

LEMMA AnswerStarts ==
    ASSUME HInv, StartInv, NEW p \in Prompts, NEW outcome \in Outcomes, PromptAnswer(p, outcome)
    PROVE  StartInv'
<1> DEFINE x == [prompt[p] EXCEPT !.step = "answered", !.outcome = outcome]
<1>1. /\ prompt[p].step = "turn"
      /\ prompt' = [prompt EXCEPT ![p].step = "answered", ![p].outcome = outcome]
      /\ UNCHANGED gatewayVars /\ phase' = phase /\ trace' = trace /\ relay' = relay
  BY DEF PromptAnswer, PromptAt, kernelVars
<1>2. prompt[p].run \in Runs /\ prompt \in [Prompts -> PromptShape]
  BY <1>1 DEF HInv, TInv, PromptTypes, PromptFields
<1>3. prompt' = [prompt EXCEPT ![p] = x] /\ x.step = "answered" /\ x.run = prompt[p].run
  BY <1>1, <1>2 DEF PromptShape
<1> HIDE DEF x
<1>4. RowsMove /\ live'.owner = live.owner
  BY <1>1, StutterRows DEF StartInv
<1>5. ~NoRow(x.run)
  BY <1>1, <1>2, <1>3, <1>4 DEF StartInv, PromptKnows, RowsMove
<1>6. PhaseGoesOn
  BY <1>1 DEF PhaseGoesOn
<1> QED
  BY <1>1, <1>3, <1>4, <1>5, <1>6, PromptStarts

\* A prompt that goes on with the Run r, or is refused.
LEMMA BecomesStarts ==
    ASSUME HInv, StartInv, RowsMove, PhaseGoesOn, live'.owner = live.owner, relay' = relay,
           NEW p \in Prompts, NEW r \in Runs, NEW step \in {"turn", "verified"},
           Becomes(p, step, r), ~NoRow(r),
           prompt[p].step = "start" => prompt[p].run = r
    PROVE  StartInv'
<1> DEFINE x == [prompt[p] EXCEPT !.step = step, !.run = r]
<1>1. prompt \in [Prompts -> PromptShape]
  BY DEF HInv, TInv, PromptTypes
<1>2. prompt' = [prompt EXCEPT ![p] = x] /\ x.step = step /\ x.run = r
  BY <1>1 DEF Becomes, PromptShape
<1> HIDE DEF x
<1> QED
  BY <1>2, PromptStarts

LEMMA RefusedStarts ==
    ASSUME HInv, StartInv, RowsMove, PhaseGoesOn, live'.owner = live.owner, relay' = relay,
           NEW p \in Prompts, Refused(p), prompt[p].step # "start"
    PROVE  StartInv'
<1>1. prompt' = [prompt EXCEPT ![p] = NoPrompt] /\ NoPrompt.step = "idle"
  BY NoPromptShape DEF Refused
<1> QED
  BY <1>1, PromptStarts

\* While a prompt has the locks, no other one is about to start a Run: a bound
\* Run without a row is Ready, or unknown to the kernel.
LEMMA ReadyUnderLocks ==
    ASSUME StartInv, up, NEW p \in Prompts, prompt[p].step = "prepare",
           NEW r \in Runs, Rowless(r), live.owner[r] # NoWork
    PROVE  phase[r] \in {"ready", "none"}
<1>1. ASSUME NEW q \in Prompts, prompt[q].step = "start" PROVE FALSE
  <2>1. p = q
    BY <1>1 DEF StartInv, PromptKnows
  <2> QED
    BY <1>1, <2>1
<1> QED
  BY <1>1 DEF StartInv, Unstarted

LEMMA ReuseStarts ==
    ASSUME HInv, StartInv, NEW p \in Prompts, PromptReuse(p)
    PROVE  StartInv'
<1> DEFINE r == live.current[prompt[p].work]
<1>1. /\ prompt[p].step = "prepare" /\ up /\ r # NoRun /\ phase[r] = "running"
      /\ Becomes(p, "turn", r)
      /\ UNCHANGED gatewayVars /\ phase' = phase /\ trace' = trace /\ relay' = relay
  BY DEF PromptReuse, PromptAt, kernelVars
<1>2. IInv /\ prompt[p].work \in Works
  BY <1>1 DEF HInv, TInv, PromptTypes, PromptFields
<1>3. r \in Runs /\ live.owner[r] # NoWork
  BY <1>1, <1>2, CurrentIsOwned
<1> HIDE DEF r
<1>4. ~Rowless(r)
  BY <1>1, <1>3, ReadyUnderLocks
<1>5. RowsMove /\ live'.owner = live.owner
  BY <1>1, StutterRows DEF StartInv
<1>6. PhaseGoesOn
  BY <1>1 DEF PhaseGoesOn
<1>7. ~NoRow(r)
  BY <1>3, <1>4, <1>5 DEF RowsMove
<1> QED
  BY <1>1, <1>3, <1>5, <1>6, <1>7, BecomesStarts

\* The journal takes the start of a Run that was bound and has no row, if the
\* kernel knows it.
LEMMA FirstRunIsTaken ==
    ASSUME HInv, RowsInv, up, NEW w \in Works, live.current[w] # NoRun,
           Rowless(live.current[w]), phase[live.current[w]] # "none"
    PROVE  MayRecord(w, live.current[w], "running")
<1> DEFINE r == live.current[w]
<1>1. r \in Runs /\ live.owner[r] # NoWork
  BY CurrentIsOwned DEF HInv
<1>2. live.run[r] # "none"
  BY <1>1 DEF HInv, KInv, KernelBacked
<1>3. RunReadsAs(live, replay, r, steered) /\ replay.run[r] = "none"
  BY <1>1, IFacts DEF HInv, RowsInv, DiskWorks, Rowless, Agrees
<1> HIDE DEF r
<1>4. live.run[r] = "ready"
  BY <1>2, <1>3 DEF RunReadsAs, ReadsAs, SteeredReadsAs
<1>5. CanTransition("ready", "running") /\ EventState("running") = "running"
  BY DEF CanTransition, EventState
<1>6. EdgeAllowed(live, w, r, "running")
  BY <1>4, <1>5 DEF EdgeAllowed
<1> QED
  BY <1>5, <1>6 DEF MayRecord, ValidRunTransition, r

LEMMA ResumeStarts ==
    ASSUME HInv, RowsInv, StartInv, NEW p \in Prompts, PromptResume(p)
    PROVE  StartInv'
<1> DEFINE w == prompt[p].work
           r == live.current[w]
<1>1. /\ prompt[p].step = "prepare" /\ up /\ r # NoRun /\ relay' = relay
      /\ phase[r] # "none"
  BY DEF PromptResume, PromptAt, Resumable, WaitingStates
<1>2. IInv /\ w \in Works /\ phase \in [Runs -> OptStates]
  BY <1>1, TFacts DEF HInv, TInv, PromptTypes, PromptFields
<1>3. r \in Runs /\ live.owner[r] # NoWork
  BY <1>1, <1>2, CurrentIsOwned
<1>4. CASE /\ RecordExecutionTransition(w, r, "running")
           /\ trace' = TraceState(r, "running") /\ phase' = [phase EXCEPT ![r] = "running"]
           /\ Becomes(p, "turn", r)
  <2>1. EventState("running") = "running" /\ "running" \in RequestedStates
    BY StatesRequested DEF EventState
  <2>2. RowsMove /\ live'.owner = live.owner /\ ~NoRow(r)
    BY <1>2, <1>3, <1>4, <2>1, TransitionRows DEF StartInv
  <2>3. PhaseGoesOn
    BY <1>2, <1>3, <1>4, <2>2 DEF PhaseGoesOn
  <2> QED
    BY <1>1, <1>3, <1>4, <2>2, <2>3, BecomesStarts
<1>5. CASE /\ ~(KernelMoves(r, "running") /\ MayRecord(w, r, "running"))
           /\ phase' = IF KernelMoves(r, "running") THEN [phase EXCEPT ![r] = "failed"] ELSE phase
           /\ Refused(p) /\ UNCHANGED <<gatewayVars, trace>>
  <2>1. RowsMove /\ live'.owner = live.owner
    BY <1>5, StutterRows DEF StartInv
  <2>2. phase' = phase \/ (phase' = [phase EXCEPT ![r] = "failed"] /\ ~Rowless(r))
    BY <1>1, <1>2, <1>5, FirstRunIsTaken
  <2>3. PhaseGoesOn
    BY <1>2, <1>3, <2>1, <2>2 DEF PhaseGoesOn, RowsMove
  <2> QED
    BY <1>1, <1>5, <2>1, <2>3, RefusedStarts
<1> QED
  BY <1>4, <1>5 DEF PromptResume

\* A prompt binds a new Run and is about to write its first row.
LEMMA BeginStarts ==
    ASSUME HInv, RowsInv, StartInv, NEW p \in Prompts, NEW r \in Runs, PromptBegin(p, r)
    PROVE  StartInv'
<1> DEFINE w == prompt[p].work
<1>1. /\ prompt[p].step = "prepare" /\ up /\ phase[r] = "none" /\ live.owner[r] = NoWork
      /\ relay' = relay /\ trace' = trace
  BY DEF PromptBegin, PromptAt, Fresh
<1>2. /\ TInv /\ RelayFields /\ w \in Works /\ phase \in [Runs -> OptStates]
      /\ prompt \in [Prompts -> PromptShape]
  BY <1>1, TFacts DEF HInv, TInv, PromptTypes, PromptFields
<1> HIDE DEF w
<1>3. CASE BindExecution(w, r) /\ phase' = [phase EXCEPT ![r] = "running"] /\ Becomes(p, "start", r)
  <2> DEFINE x == [prompt[p] EXCEPT !.step = "start", !.run = r]
  <2>1. prompt' = [prompt EXCEPT ![p] = x] /\ x.step = "start" /\ x.run = r
    BY <1>2, <1>3 DEF Becomes, PromptShape
  <2> HIDE DEF x
  <2>2. /\ RowsMove /\ live'.owner = [live.owner EXCEPT ![r] = w]
        /\ live.owner \in [Runs -> Works \cup {NoWork}]
    BY <1>1, <1>2, <1>3, BindingRows
  <2>3. PromptKnows'
    BY <1>1, <1>2, <2>1, <2>2, PromptKnowsMoves DEF StartInv
  <2>4. Unstarted'
    <3> SUFFICES ASSUME NEW q \in Runs, up', NoRow(q), live'.owner[q] # NoWork
                 PROVE  \/ phase'[q] \in {"ready", "none"}
                        \/ /\ phase'[q] = "running"
                           /\ \E v \in Prompts : prompt'[v].step = "start" /\ prompt'[v].run = q
      BY DEF Unstarted, Rowless, NoRow
    <3>1. CASE q = r
      <4>1. phase'[q] = "running" /\ prompt'[p].step = "start" /\ prompt'[p].run = q
        BY <1>2, <1>3, <2>1, <3>1
      <4> QED
        BY <4>1
    <3>2. CASE q # r
      <4>1. Rowless(q) /\ live.owner[q] # NoWork /\ phase'[q] = phase[q]
        BY <1>2, <1>3, <2>2, <3>2 DEF RowsMove
      <4> QED
        BY <1>1, <4>1, ReadyUnderLocks
    <3> QED
      BY <3>1, <3>2
  <2>5. RelayKnows'
    <3>1. relay.step = "journal" => relay.run \in Runs /\ relay.run # r
      BY <1>1, <1>2 DEF HInv, KInv, RelayBacked, RelayFields
    <3>2. ASSUME relay.step = "journal", NoRow(relay.run), live'.owner[relay.run] # NoWork
          PROVE  relay.state \in {"running", "cancelled"}
      <4>1. live'.owner[relay.run] = live.owner[relay.run]
        BY <1>2, <1>3, <2>2, <3>1, <3>2
      <4> QED
        BY <2>2, <3>1, <3>2, <4>1 DEF StartInv, RelayKnows, RowsMove
    <3>3. relay.step = "apply" => ~NoRow(relay.run)
      BY <1>2, <2>2 DEF StartInv, RelayKnows, RelayFields, RowsMove
    <3> QED
      BY <1>1, <3>2, <3>3 DEF RelayKnows, Rowless, NoRow
  <2> QED
    BY <2>2, <2>3, <2>4, <2>5 DEF StartInv, RowsMove
<1>4. CASE phase' = [phase EXCEPT ![r] = "failed"] /\ Refused(p) /\ UNCHANGED gatewayVars
  <2>1. RowsMove /\ live'.owner = live.owner
    BY <1>1, <1>4, StutterRows DEF StartInv
  <2>2. PhaseGoesOn
    BY <1>1, <1>2, <1>4 DEF PhaseGoesOn
  <2> QED
    BY <1>1, <1>4, <2>1, <2>2, RefusedStarts
<1> QED
  BY <1>3, <1>4 DEF PromptBegin, w

LEMMA StartPromptStarts ==
    ASSUME HInv, StartInv, NEW p \in Prompts, PromptStart(p)
    PROVE  StartInv'
<1> DEFINE w == prompt[p].work
           r == prompt[p].run
<1>1. /\ prompt[p].step = "start" /\ RecordExecutionTransition(w, r, "running")
      /\ trace' = TraceState(r, "running") /\ Becomes(p, "turn", r)
      /\ phase' = phase /\ relay' = relay
  BY DEF PromptStart, PromptAt, kernelVars
<1>2. w \in Works /\ r \in Runs
  BY <1>1 DEF HInv, TInv, PromptTypes, PromptFields
<1>3. EventState("running") = "running" /\ "running" \in RequestedStates
  BY StatesRequested DEF EventState
<1>4. RowsMove /\ live'.owner = live.owner /\ ~NoRow(r)
  BY <1>1, <1>2, <1>3, TransitionRows DEF StartInv
<1>5. PhaseGoesOn
  BY <1>1 DEF PhaseGoesOn
<1> QED
  BY <1>1, <1>2, <1>4, <1>5, BecomesStarts

\* The outcome of a turn moves a Run that has started.
LEMMA AcpRows ==
    ASSUME HInv, StartInv, NEW w \in Works, NEW r \in Runs, NEW s \in RequestedStates, NEW ok,
           TransitionAcpRun(w, r, s, ok), ~Rowless(r)
    PROVE  RowsMove /\ PhaseGoesOn /\ live'.owner = live.owner /\ ~NoRow(r)
<1>1. phase \in [Runs -> OptStates] /\ s # "none"
  BY TFacts, StatesRequested DEF HInv, WorkStates, WaitingStates, TerminalStates
<1>2. CASE /\ RecordExecutionTransition(w, r, s) /\ trace' = TraceState(r, EventState(s))
           /\ phase' = KernelAfter(r, s)
  <2>1. RowsMove /\ live'.owner = live.owner /\ ~NoRow(r)
    BY <1>2, TransitionRows DEF StartInv
  <2>2. \A q \in Runs : phase'[q] = phase[q] \/ (q = r /\ phase'[q] = s)
    BY <1>1, <1>2 DEF KernelAfter
  <2> QED
    BY <1>1, <2>1, <2>2 DEF PhaseGoesOn
<1>3. CASE UNCHANGED <<gatewayVars, trace, phase>>
  BY <1>3, StutterRows DEF StartInv, PhaseGoesOn, RowsMove
<1> QED
  BY <1>2, <1>3 DEF TransitionAcpRun

LEMMA RecordStarts ==
    ASSUME HInv, StartInv, NEW p \in Prompts, PromptRecord(p) \/ PromptComplete(p)
    PROVE  StartInv'
<1>1. /\ prompt[p].step \in {"answered", "verified"} /\ relay' = relay
      /\ Becomes(p, "verified", prompt[p].run) \/ Refused(p)
      /\ \E s \in {prompt[p].outcome, "completed"}, ok \in BOOLEAN :
            /\ s = prompt[p].outcome => prompt[p].step = "answered" \/ s = "completed"
            /\ TransitionAcpRun(prompt[p].work, prompt[p].run, s, ok)
  <2>1. CASE PromptRecord(p)
    BY <2>1 DEF PromptRecord, PromptAt
  <2>2. CASE PromptComplete(p)
    BY <2>2 DEF PromptComplete, PromptAt
  <2> QED
    BY <2>1, <2>2
<1>2. /\ prompt[p].work \in Works /\ prompt[p].run \in Runs
      /\ prompt[p].step = "answered" => prompt[p].outcome \in RequestedStates
      /\ "completed" \in RequestedStates
  BY <1>1, StatesRequested DEF HInv, TInv, PromptTypes, PromptFields
<1>3. ~Rowless(prompt[p].run)
  BY <1>1 DEF StartInv, PromptKnows
<1>4. RowsMove /\ PhaseGoesOn /\ live'.owner = live.owner /\ ~NoRow(prompt[p].run)
  BY <1>1, <1>2, <1>3, AcpRows
<1> QED
  BY <1>1, <1>2, <1>4, BecomesStarts, RefusedStarts

\* A turn that is refused before it changes anything.
LEMMA TurnRefusedStarts ==
    ASSUME HInv, StartInv, NEW p \in Prompts, PromptMismatch(p) \/ PromptMissing(p)
    PROVE  StartInv'
<1>1. /\ prompt[p].step \in {"queued", "prepare"} /\ Refused(p)
      /\ UNCHANGED gatewayVars /\ phase' = phase /\ trace' = trace /\ relay' = relay
  BY DEF PromptMismatch, PromptMissing, PromptAt, kernelVars
<1>2. RowsMove /\ live'.owner = live.owner
  BY <1>1, StutterRows DEF StartInv
<1>3. PhaseGoesOn
  BY <1>1 DEF PhaseGoesOn
<1> QED
  BY <1>1, <1>2, <1>3, RefusedStarts

LEMMA PromptKeepsStarts ==
    ASSUME HInv, RowsInv, StartInv, NEW p \in Prompts, PromptStep(p)
    PROVE  StartInv'
BY AdmitStarts, PrepareStarts, AnswerStarts, ReuseStarts, ResumeStarts, BeginStarts,
   StartPromptStarts, RecordStarts, TurnRefusedStarts DEF PromptStep, PromptLocked

\* A crash keeps the rows; a start that succeeds found a row of every Run it
\* gives to the kernel.
LEMMA CrashStarts ==
    ASSUME HInv, StartInv, HostCrash
    PROVE  StartInv'
<1>1. /\ Crash /\ relay' = Idle /\ prompt' = [p \in Prompts |-> NoPrompt] /\ trace' = trace
  BY DEF HostCrash
<1>2. ~up' /\ replay' = replay /\ err' = err /\ steered' = steered
  BY <1>1 DEF Crash
<1>3. StartsFirst' /\ Unstarted'
  BY <1>1, <1>2 DEF StartInv, StartsFirst, Unstarted
<1>4. RelayKnows' /\ PromptKnows'
  BY <1>1, IdleIsTyped, NoPromptShape DEF RelayKnows, PromptKnows
<1> QED
  BY <1>3, <1>4 DEF StartInv

LEMMA StartStarts ==
    ASSUME HInv, StartInv, Start
    PROVE  StartInv'
<1>1. /\ Open /\ KernelRecovers /\ relay' = relay /\ prompt' = prompt /\ trace' = trace
      /\ phase' = [r \in Runs |-> RecoveredPhase(r)]
  BY DEF Start
<1>2. ~up /\ live' = replay /\ replay' = replay /\ err' = err /\ steered' = steered
  BY <1>1 DEF Open
<1>3. relay' = Idle
  BY <1>1, <1>2 DEF HInv, TInv, DownIsEmpty
<1>4. Unstarted'
  <2> SUFFICES ASSUME NEW r \in Runs, replay.run[r] = "none" PROVE phase'[r] = "none"
    BY <1>2 DEF Unstarted, Rowless
  <2>1. r \notin RecoveredRuns
    BY <1>1 DEF KernelRecovers, RunRecovers
  <2> QED
    BY <1>1, <2>1 DEF RecoveredPhase
<1>5. RelayKnows'
  BY <1>3, IdleIsTyped DEF RelayKnows
<1>6. StartsFirst' /\ PromptKnows'
  BY <1>1, <1>2 DEF StartInv, StartsFirst, PromptKnows, Rowless
<1> QED
  BY <1>4, <1>5, <1>6 DEF StartInv

LEMMA StutterStarts ==
    ASSUME StartInv, UNCHANGED hostVars
    PROVE  StartInv'
<1>1. /\ UNCHANGED gatewayVars /\ phase' = phase /\ relay' = relay /\ prompt' = prompt
      /\ trace' = trace
  BY DEF hostVars, kernelVars
<1>2. up' = up /\ live' = live /\ replay' = replay /\ err' = err /\ steered' = steered
  BY <1>1 DEF gatewayVars
<1> QED
  BY <1>1, <1>2 DEF StartInv, StartsFirst, Unstarted, RelayKnows, PromptKnows, Rowless

LEMMA StartInvStep ==
    ASSUME HInv, RowsInv, StartInv, [HostNext]_hostVars
    PROVE  StartInv'
<1>1. CASE StartRefused \/ UNCHANGED hostVars
  BY <1>1, StutterStarts DEF StartRefused
<1> QED
  BY <1>1, RelayKeepsStarts, JournalKeepsStarts, PromptKeepsStarts, CrashStarts, StartStarts
     DEF HostNext

LEMMA InitStarts == HostInit => RowsInv /\ StartInv
<1> SUFFICES ASSUME HostInit PROVE RowsInv /\ StartInv
  OBVIOUS
<1>1. Init /\ relay = Idle /\ prompt = [p \in Prompts |-> NoPrompt]
  BY DEF HostInit
<1>2. live = EmptyProjection /\ replay = EmptyProjection /\ err = "none" /\ ~unacked
  BY <1>1 DEF Init
<1>3. /\ EmptyProjection.owner = [r \in Runs |-> NoWork]
      /\ EmptyProjection.run = [r \in Runs |-> "none"]
      /\ EmptyProjection.parent = [w \in Works |-> NoWork]
      /\ EmptyProjection.current = [w \in Works |-> NoRun]
      /\ EmptyProjection.effect = [w \in Works |-> [e \in Effects |-> "absent"]]
  BY DEF EmptyProjection
<1>4. RowsInv
  BY <1>2, <1>3 DEF RowsInv, DiskWorks, GraphKept, ShownKept
<1>5. StartsFirst /\ Unstarted
  BY <1>2, <1>3 DEF StartsFirst, Unstarted
<1>6. RelayKnows /\ PromptKnows
  BY <1>1, IdleIsTyped, NoPromptShape DEF RelayKnows, PromptKnows
<1> QED
  BY <1>4, <1>5, <1>6 DEF StartInv

\* What the invariants say of a start when none of the causes is there: every row
\* replays, no reference dangles, a Run that ended has started, and a Work shows
\* its Run's state.
LEMMA CausesAreKnown ==
    ASSUME HInv, RowsInv, StartInv
    PROVE  RestartCauses
<1>1. /\ replay \in Projection /\ Sound(replay) /\ RefusalCauses /\ trace.archived \subseteq Works
  BY IFacts DEF HInv, IInv, TInv, TraceTypes, TraceRecord
<1> SUFFICES ASSUME ~(err = "terminal_first"), ~(err = "illegal" /\ steered # {}),
                    ArchivedInUse = {}, ~RecoveredTwice,
                    \A r \in RecoveredRuns :
                        /\ replay.run[r] # "none" /\ trace.pledge[r] = "none"
                        /\ r \notin trace.illegal
                        /\ replay.run[r] \in TerminalStates
                           => /\ ~HasUnresolvedUncertainEffect(replay, replay.owner[r])
                              /\ r \in trace.started \/ <<replay.owner[r], r>> \notin steered
             PROVE  OpenSucceeds /\ KernelRecovers
  BY DEF RestartCauses
<1>2. err = "none"
  BY <1>1 DEF RefusalCauses, RowsInv, DiskWorks
<1>3. \A v \in trace.archived :
        /\ v \notin replay.works
        /\ \A w \in replay.works : replay.parent[w] # v
        /\ PendingOfWork(replay, v) = {}
        /\ \A e \in Effects : replay.effect[v][e] = "absent"
  BY DEF ArchivedInUse
<1>4. GraphValid(replay)
  <2>1. \A w \in replay.works : replay.parent[w] \in replay.works \cup {NoWork}
    BY <1>1, <1>3 DEF Projection, RowsInv, GraphKept
  <2>2. ASSUME NEW a \in replay.pending
        PROVE  replay.owner[a[2]] \in replay.works /\ replay.run[a[2]] = "waiting_approval"
    <3>1. a[2] \in Runs
      BY <1>1 DEF Projection
    <3>2. replay.run[a[2]] = "waiting_approval" /\ replay.owner[a[2]] # NoWork
      BY <1>1 DEF Sound
    <3>3. replay.owner[a[2]] \in replay.works \cup trace.archived
      BY <3>1, <3>2 DEF HInv, KInv, Placed
    <3>4. a \in PendingOfWork(replay, replay.owner[a[2]])
      BY DEF PendingOfWork
    <3> QED
      BY <1>3, <3>2, <3>3, <3>4
  <2>3. \A w \in Works : (\E e \in Effects : replay.effect[w][e] # "absent") => w \in replay.works
    BY <1>3 DEF RowsInv, GraphKept
  <2> QED
    BY <2>1, <2>2, <2>3 DEF GraphValid
<1>5. \A r \in RecoveredRuns : RunRecovers(r)
  BY DEF RunRecovers, RecoveredRuns, StartInv, StartsFirst
<1>6. ASSUME NEW w \in replay.works, replay.current[w] # NoRun
      PROVE  replay.shown[w] = replay.run[replay.current[w]]
  <2>1. w \in Works /\ w \notin trace.archived /\ replay.current[w] \in Runs
    BY <1>1, <1>3, <1>6 DEF Projection
  <2>2. replay.current[w] \in RecoveredRuns
    BY <1>1, <1>6, <2>1 DEF Sound, RecoveredRuns
  <2> QED
    BY <1>6, <2>1, <2>2 DEF RowsInv, ShownKept
<1>7. replay.works \cap trace.archived = {}
  BY <1>3
<1> QED
  BY <1>2, <1>4, <1>5, <1>6, <1>7 DEF OpenSucceeds, KernelRecovers

\* A start of the host that is refused has one of the causes RestartCauses lists,
\* whatever the relay, the prompts, delegations, archives and steering wrote and
\* wherever a crash fell.
THEOREM RestartsAreExplained == HostSpec => []RestartCauses
<1>1. HostInit => HInv /\ RowsInv /\ StartInv
  BY InitHInv, InitStarts
<1>2. HInv /\ RowsInv /\ StartInv /\ [HostNext]_hostVars => (HInv /\ RowsInv /\ StartInv)'
  BY NextHInv, RowsInvStep, StartInvStep
<1>3. HInv /\ RowsInv /\ StartInv => RestartCauses
  BY CausesAreKnown
<1> QED
  BY <1>1, <1>2, <1>3, PTL DEF HostSpec

-----------------------------------------------------------------------------
(* Why a start can be refused: the rows recovery calls illegal.            *)

\* A row that recovery calls illegal, in a journal that opens, is one the
\* gateway's own table allows.
IllegalRow(r) == err' = "none" /\ r \in trace'.illegal /\ r \notin trace.illegal
TablesDiffer(r) ==
    /\ CanTransition(replay.run[r], replay'.run[r])
    /\ ~PhaseTransitionLegal(replay.run[r], replay'.run[r])

\* The row that moves r to t, taken by replay.
LEMMA RowsDiffer ==
    ASSUME TraceTypes, NEW w \in Works, NEW r \in Runs, NEW t, NEW p, NEW e,
           trace'.illegal = TraceState(r, t).illegal, trace.pledge[r] \in {"none", t},
           err' = "none" => replay' = p /\ e = "none",
           p.run = [replay.run EXCEPT ![r] = t], replay.run \in [Runs -> OptStates],
           e = RunError(replay, w, r, t)
    PROVE  \A q \in Runs : IllegalRow(q) => TablesDiffer(q)
<1> SUFFICES ASSUME NEW q \in Runs, IllegalRow(q) PROVE TablesDiffer(q)
  OBVIOUS
<1> DEFINE b == IF \/ trace.pledge[r] \notin {"none", t}
                   \/ replay.run[r] # "none" /\ ~PhaseTransitionLegal(replay.run[r], t)
                THEN trace.illegal \cup {r} ELSE trace.illegal
<1>1. trace'.illegal = b
  BY DEF TraceState, TraceTypes, TraceRecord
<1>2. q = r /\ replay.run[r] # "none" /\ ~PhaseTransitionLegal(replay.run[r], t)
  BY <1>1 DEF IllegalRow
<1>3. replay'.run[r] = t /\ e = "none"
  BY DEF IllegalRow
<1>4. EdgeAllowed(replay, w, r, t)
  BY <1>2, <1>3 DEF RunError
<1> QED
  BY <1>2, <1>3, <1>4 DEF TablesDiffer, EdgeAllowed

\* A transition, of the current Run or of a child's.
LEMMA TransitionDiffers ==
    ASSUME HInv, NEW w \in Works, NEW r \in Runs, NEW s \in RequestedStates,
           AppendTransition(w, r, s, "none"), trace' = TraceState(r, EventState(s))
    PROVE  \A q \in Runs : IllegalRow(q) => TablesDiffer(q)
<1> DEFINE l == IF RunError(live, w, r, s) = "none" THEN SetRun(live, w, r, s, "none")
                ELSE NoteRun(live, w, r)
           t == EventState(s)
           y == EventWait(s, "none")
           p == SetRun(replay, w, r, t, y)
           e == RunError(replay, w, r, t)
<1>1. IInv /\ TraceTypes /\ PledgeKnown
  BY DEF HInv, KInv, TInv
<1>2. AppendRow(w, l, p, e)
  BY DEF AppendTransition, AppendEvent
<1>3. p.run = [replay.run EXCEPT ![r] = t] /\ replay.run \in [Runs -> OptStates]
  BY <1>1, IFacts DEF SetRun, NoteRun, Projection
<1> HIDE DEF p, l
<1>4. resolving = NotResolving /\ up
  BY <1>2 DEF AppendRow
<1>5. trace.pledge[r] = "none"
  BY <1>1, <1>4, NothingPledged
<1>6. err' = "none" => replay' = p /\ e = "none"
  BY <1>2, HostConstants DEF AppendRow, Durable, KnownWork
<1> HIDE DEF t
<1>7. trace'.illegal = TraceState(r, t).illegal
  BY DEF t
<1> QED
  BY <1>1, <1>3, <1>5, <1>6, <1>7, RowsDiffer

LEMMA RecordDiffers ==
    ASSUME HInv, NEW w \in Works, NEW r \in Runs, NEW s \in RequestedStates,
           RecordExecutionTransition(w, r, s), trace' = TraceState(r, EventState(s))
    PROVE  \A q \in Runs : IllegalRow(q) => TablesDiffer(q)
BY TransitionDiffers DEF RecordExecutionTransition, RecordTransition

LEMMA SteerDiffers ==
    ASSUME HInv, NEW w \in Works, NEW r \in Runs, ApplySteeringCheckpoint(w, r),
           trace'.illegal = TraceState(r, "checkpointed").illegal
    PROVE  \A q \in Runs : IllegalRow(q) => TablesDiffer(q)
<1> DEFINE p == SetRun(replay, w, r, "checkpointed", "none")
           e == RunError(replay, w, r, "checkpointed")
<1>1. IInv /\ TraceTypes /\ PledgeKnown
  BY DEF HInv, KInv, TInv
<1>2. AppendRow(w, live, p, e)
  BY DEF ApplySteeringCheckpoint
<1>3. p.run = [replay.run EXCEPT ![r] = "checkpointed"] /\ replay.run \in [Runs -> OptStates]
  BY <1>1, IFacts DEF SetRun, NoteRun, Projection
<1> HIDE DEF p
<1>4. resolving = NotResolving /\ up
  BY <1>2 DEF AppendRow
<1>5. trace.pledge[r] = "none"
  BY <1>1, <1>4, NothingPledged
<1>6. err' = "none" => replay' = p /\ e = "none"
  BY <1>2, HostConstants DEF AppendRow, Durable, KnownWork
<1> QED
  BY <1>1, <1>3, <1>5, <1>6, RowsDiffer

LEMMA FinishDiffers ==
    ASSUME HInv, up, FinishResolution, trace' = TraceState(resolving.run, resolving.next)
    PROVE  \A q \in Runs : IllegalRow(q) => TablesDiffer(q)
<1> DEFINE r == resolving.run
           w == live.owner[r]
           t == resolving.next
           p == SetRun(replay, w, r, t, "none")
           e == RunError(replay, w, r, t)
<1>1. IInv /\ TraceTypes /\ PledgeKnown
  BY DEF HInv, KInv, TInv
<1>2. resolving # NotResolving /\ (err' = "none" => replay' = p /\ e = "none")
  BY DEF FinishResolution, Durable, KnownWork
<1>3. r \in Runs /\ w \in Works
  <2>1. r \in Runs
    BY <1>1, <1>2 DEF IInv, ResolvingKnown
  <2>2. w \in live.works /\ live.works \subseteq Works
    BY <1>1, IFacts DEF FinishResolution
  <2> QED
    BY <2>1, <2>2
<1>4. trace.pledge[r] \in {"none", t}
  BY <1>1, <1>3 DEF PledgeKnown
<1>5. p.run = [replay.run EXCEPT ![r] = t] /\ replay.run \in [Runs -> OptStates]
  BY <1>1, <1>3, IFacts DEF SetRun, NoteRun, Projection
<1>6. e = RunError(replay, w, r, t)
  OBVIOUS
<1> HIDE DEF p, e, t, w, r
<1>7. trace'.illegal = TraceState(r, t).illegal
  BY DEF r, t
<1> QED
  BY <1>1, <1>2, <1>3, <1>4, <1>5, <1>6, <1>7, RowsDiffer

\* The steps that write the row of a transition; every other one leaves what
\* recovery calls illegal as it is.
LEMMA StepDiffers ==
    ASSUME HInv, [HostNext]_hostVars
    PROVE  \A q \in Runs : IllegalRow(q) => TablesDiffer(q)
<1>1. TInv /\ RelayFields /\ PromptFields
  BY TFacts DEF HInv
<1>2. ASSUME trace' = trace PROVE \A q \in Runs : IllegalRow(q) => TablesDiffer(q)
  BY <1>2 DEF IllegalRow
<1>3. EventState("running") = "running" /\ {"running", "completed"} \subseteq RequestedStates
  BY StatesRequested DEF EventState
<1>16. ASSUME NEW w \in Works, NEW c \in Works, NEW r \in Runs, RelaySpawn(w, c, r)
       PROVE  \A q \in Runs : IllegalRow(q) => TablesDiffer(q)
  <2>1. trace'.illegal = trace.illegal
    BY <1>1, <1>16 DEF RelaySpawn, TInv, TraceTypes, TraceRecord
  <2> QED
    BY <2>1 DEF IllegalRow
<1>4. CASE RelayRequest
  BY <1>2, <1>4, <1>16 DEF RelayRequest, RelayCreate, RelayCommit, RelayBegin, RelayTransition,
     RelayAsk, RelayResolve
<1>5. CASE RelayJournal
  <2>1. relay.step = "journal" /\ up
    BY <1>5 DEF RelayJournal, RelayAt
  <2>2. relay.work \in Works /\ relay.run \in Runs /\ relay.state \in RequestedStates
    BY <1>1, <2>1, StatesRequested DEF RelayFields
  <2> QED
    BY <1>2, <1>5, <2>1, <2>2, RecordDiffers DEF RelayJournal, RelayRefuses
<1>6. CASE RelayFinish
  BY <1>6, FinishDiffers DEF RelayFinish, RelayAt
<1>7. CASE RelayResolveJournal
  <2>1. CASE trace' = TraceResolved(relay.run, relay.state)
    <3>1. trace'.illegal = trace.illegal
      BY <1>1, <2>1 DEF TraceResolved, TInv, TraceTypes, TraceRecord
    <3> QED
      BY <3>1 DEF IllegalRow
  <2> QED
    BY <1>2, <1>7, <2>1 DEF RelayResolveJournal, RelayRefuses
<1>17. CASE RelayChildStart
  <2>1. /\ relay.step = "child_start"
        /\ RecordExecutionTransition(relay.work, relay.run, "running")
        /\ trace' = TraceState(relay.run, "running")
    BY <1>17 DEF RelayChildStart, RelayAt
  <2>2. relay.work \in Works /\ relay.run \in Runs
    BY <1>1, <2>1 DEF RelayFields
  <2> QED
    BY <1>3, <2>1, <2>2, RecordDiffers
<1>8. CASE RelayStep
  BY <1>2, <1>5, <1>6, <1>7, <1>8, <1>17 DEF RelayStep, RelayBind, RelayApply, RelayAskJournal,
     RelayAskApply, RelayResolveApply, RelayObserve, RelayVerify, RelayRefuses, RelayChildBind
<1>18. CASE JournalRequest
  <2>1. ASSUME NEW w \in Works, HostArchive(w)
        PROVE  \A q \in Runs : IllegalRow(q) => TablesDiffer(q)
    <3>1. trace'.illegal = trace.illegal
      BY <1>1, <2>1 DEF HostArchive, TInv, TraceTypes, TraceRecord
    <3> QED
      BY <3>1 DEF IllegalRow
  <2>2. ASSUME NEW w \in Works, NEW r \in Runs, NEW s \in TerminalStates, CloseChild(w, r, s)
        PROVE  \A q \in Runs : IllegalRow(q) => TablesDiffer(q)
    <3>1. AppendTransition(w, r, s, "none") /\ trace' = TraceState(r, s)
      BY <2>2 DEF CloseChild, FinishChildWork
    <3>2. s \in RequestedStates /\ EventState(s) = s
      BY DEF RequestedStates, WorkStates, TerminalStates, EventState
    <3> QED
      BY <3>1, <3>2, TransitionDiffers
  <2>3. ASSUME NEW w \in Works, NEW r \in Runs, NEW id \in {trace.id[q] : q \in Runs},
               HostSteer(w, r, id)
        PROVE  \A q \in Runs : IllegalRow(q) => TablesDiffer(q)
    <3>1. /\ ApplySteeringCheckpoint(w, r) /\ denied' = denied
          /\ trace' = [TraceState(r, "checkpointed") EXCEPT !.id[r] = id]
      BY <2>3 DEF HostSteer
    <3>2. TraceTypes /\ id \in Runs
      BY <1>1 DEF TInv, TraceTypes, TraceRecord
    <3>3. trace'.illegal = TraceState(r, "checkpointed").illegal
      BY <3>1, <3>2, SteerTrace
    <3> QED
      BY <3>1, <3>3, SteerDiffers
  <2> QED
    BY <1>18, <2>1, <2>2, <2>3 DEF JournalRequest
<1>9. ASSUME NEW p \in Prompts, PromptResume(p)
      PROVE  \A q \in Runs : IllegalRow(q) => TablesDiffer(q)
  <2> DEFINE w == prompt[p].work
             r == live.current[w]
  <2>1. prompt[p].step = "prepare" /\ up /\ r # NoRun
    BY <1>9 DEF PromptResume, PromptAt
  <2>2. w \in Works /\ r \in Runs
    BY <1>1, <2>1, IFacts DEF PromptFields, HInv
  <2>3. trace' = trace \/ (RecordExecutionTransition(w, r, "running") /\ trace' = TraceState(r, "running"))
    BY <1>9 DEF PromptResume
  <2> HIDE DEF w, r
  <2> QED
    BY <1>2, <1>3, <2>1, <2>2, <2>3, RecordDiffers
<1>10. ASSUME NEW p \in Prompts, PromptStart(p)
       PROVE  \A q \in Runs : IllegalRow(q) => TablesDiffer(q)
  <2>1. /\ prompt[p].step = "start" /\ up
        /\ RecordExecutionTransition(prompt[p].work, prompt[p].run, "running")
        /\ trace' = TraceState(prompt[p].run, "running")
    BY <1>10 DEF PromptStart, PromptAt
  <2>2. prompt[p].work \in Works /\ prompt[p].run \in Runs
    BY <1>1, <2>1 DEF PromptFields
  <2> QED
    BY <1>3, <2>1, <2>2, RecordDiffers
<1>11. ASSUME NEW w \in Works, NEW r \in Runs, NEW s \in RequestedStates, NEW ok,
              TransitionAcpRun(w, r, s, ok)
       PROVE  \A q \in Runs : IllegalRow(q) => TablesDiffer(q)
  BY <1>2, <1>11, RecordDiffers DEF TransitionAcpRun
<1>12. ASSUME NEW p \in Prompts, PromptRecord(p)
       PROVE  \A q \in Runs : IllegalRow(q) => TablesDiffer(q)
  <2>1. /\ prompt[p].step = "answered" /\ up
        /\ \E ok \in BOOLEAN :
             TransitionAcpRun(prompt[p].work, prompt[p].run, prompt[p].outcome, ok)
    BY <1>12 DEF PromptRecord, PromptAt
  <2>2. /\ prompt[p].work \in Works /\ prompt[p].run \in Runs
        /\ prompt[p].outcome \in RequestedStates
    BY <1>1, <2>1, StatesRequested DEF PromptFields
  <2> QED
    BY <1>11, <2>1, <2>2
<1>13. ASSUME NEW p \in Prompts, PromptComplete(p)
       PROVE  \A q \in Runs : IllegalRow(q) => TablesDiffer(q)
  <2>1. /\ prompt[p].step = "verified" /\ up
        /\ \E ok \in BOOLEAN : TransitionAcpRun(prompt[p].work, prompt[p].run, "completed", ok)
    BY <1>13 DEF PromptComplete, PromptAt
  <2>2. prompt[p].work \in Works /\ prompt[p].run \in Runs
    BY <1>1, <2>1 DEF PromptFields
  <2> QED
    BY <1>3, <1>11, <2>1, <2>2
<1>14. ASSUME NEW p \in Prompts, PromptStep(p)
       PROVE  \A q \in Runs : IllegalRow(q) => TablesDiffer(q)
  BY <1>2, <1>9, <1>10, <1>12, <1>13, <1>14 DEF PromptStep, PromptLocked, PromptAdmit,
     PromptPrepare, PromptReuse, PromptBegin, PromptAnswer, PromptMismatch, PromptMissing
<1>15. CASE HostCrash \/ Start \/ StartRefused \/ UNCHANGED hostVars
  BY <1>2, <1>15 DEF HostCrash, Start, StartRefused, hostVars
<1> QED
  BY <1>4, <1>8, <1>14, <1>15, <1>18 DEF HostNext

\* The cause of RestartCauses that lies in the rows of one Run is the difference
\* between the two tables and nothing else (WorkState::can_transition,
\* phase_transition_legal): in a journal that replays, no row breaks the promise
\* of a resolution, and none is one that the gateway's own table refuses, steering
\* checkpoints and the ends of delegated Runs included.
THEOREM IllegalRowsAreTheTables ==
    HostSpec => [][\A r \in Runs : IllegalRow(r) => TablesDiffer(r)]_hostVars
<1>1. HInv /\ [HostNext]_hostVars => [\A r \in Runs : IllegalRow(r) => TablesDiffer(r)]_hostVars
  BY StepDiffers
<1> QED
  BY <1>1, HostInvariant, PTL DEF HostSpec
=============================================================================
