------------------------- MODULE WorkGatewayProofs -------------------------
(***************************************************************************)
(* Proofs about the Work Gateway, for every set of Works, Runs, tickets    *)
(* and effects and for a disk that may fail.                               *)
(*                                                                         *)
(* The argument: ReplayAgrees makes the checks the writer performs on the  *)
(* live projection the checks the reader will perform on its own.  It is   *)
(* inductive together with Sound, which ties a Work's current Run to its   *)
(* owner and a pending approval to a parked Run, for both projections.     *)
(* A steering checkpoint makes the two differ about its own Run and Work,  *)
(* and SteeredReadsAs bounds by how much.                                  *)
(***************************************************************************)
EXTENDS WorkGateway, TLAPS

\* What an operation relies on about a projection.
Sound(p) ==
    /\ \A w \in Works : p.current[w] # NoRun => p.owner[p.current[w]] = w
    /\ \A a \in p.pending : p.run[a[2]] = "waiting_approval" /\ p.owner[a[2]] # NoWork
    /\ \A a, b \in p.pending : p.owner[a[2]] = p.owner[b[2]] => a = b

\* Between the rows of a resolution the Run and its next state are known.
ResolvingKnown ==
    resolving # NotResolving =>
        resolving.run \in Runs /\ resolving.next \in {"running", "failed"}

\* A reason replay may have to refuse a row, p being what it made of the others
\* and S the steering checkpoints among them.
Explains(e, p, S) ==
    \/ e \in {"none", "terminal_first", "sequence", "torn"}
    \/ e = "illegal" /\ \E a \in S : SteeredReadsAs("none", p.run[a[2]])

IInv ==
    /\ TypeOK
    /\ Sound(live)
    /\ Sound(replay)
    /\ ResolvingKnown
    /\ RefusalCauses
    /\ ReplayAgrees

-----------------------------------------------------------------------------
(* The row operators, field by field.                                      *)

\* note_run_reference: the result is a projection and only three maps change.
LEMMA NoteRunFields ==
    ASSUME NEW p \in Projection, NEW w \in Works, NEW r \in Runs
    PROVE  LET q == NoteRun(p, w, r) IN
           /\ q \in Projection
           /\ q.works = p.works /\ q.parent = p.parent
           /\ q.address = [p.address EXCEPT ![w] = r]
           /\ q.current = [p.current EXCEPT ![w] = r]
           /\ q.owner = [p.owner EXCEPT ![r] = w]
           /\ q.run = p.run /\ q.pending = p.pending /\ q.effect = p.effect
           /\ q.shown = p.shown /\ q.wait = p.wait
BY DEF NoteRun, Projection

\* The wait that set_run_state keeps with state s.
KeptWait(s, wait) == IF s \in RunningStates \cup {"paused"} THEN wait ELSE "none"

\* set_run_state: the Run becomes current and takes the state.
LEMMA SetRunFields ==
    ASSUME NEW p \in Projection, NEW w \in Works, NEW r \in Runs,
           NEW s \in WorkStates, NEW wait \in OptWaits
    PROVE  LET q == SetRun(p, w, r, s, wait) IN
           /\ q \in Projection
           /\ q.works = p.works /\ q.parent = p.parent
           /\ q.address = [p.address EXCEPT ![w] = r]
           /\ q.current = [p.current EXCEPT ![w] = r]
           /\ q.owner = [p.owner EXCEPT ![r] = w]
           /\ q.run = [p.run EXCEPT ![r] = s]
           /\ q.pending = p.pending /\ q.effect = p.effect
<1> DEFINE n == NoteRun(p, w, r)
<1>1. /\ n \in Projection
      /\ n.works = p.works /\ n.parent = p.parent
      /\ n.address = [p.address EXCEPT ![w] = r]
      /\ n.current = [p.current EXCEPT ![w] = r]
      /\ n.owner = [p.owner EXCEPT ![r] = w]
      /\ n.run = p.run /\ n.pending = p.pending /\ n.effect = p.effect
      /\ n.shown = p.shown /\ n.wait = p.wait
  BY NoteRunFields
<1> DEFINE x == KeptWait(s, wait)
<1>2. SetRun(p, w, r, s, wait) = [n EXCEPT !.run[r] = s, !.shown[w] = s, !.wait[w] = x]
  BY DEF SetRun, KeptWait
<1>3. x \in OptWaits /\ s \in OptStates
  BY DEF KeptWait, OptWaits, OptStates
<1> HIDE DEF n, x
<1> DEFINE q == [n EXCEPT !.run[r] = s, !.shown[w] = s, !.wait[w] = x]
<1>4. /\ q.works = n.works /\ q.parent = n.parent /\ q.address = n.address
      /\ q.current = n.current /\ q.owner = n.owner /\ q.pending = n.pending
      /\ q.effect = n.effect /\ q.run = [n.run EXCEPT ![r] = s]
      /\ q.shown = [n.shown EXCEPT ![w] = s] /\ q.wait = [n.wait EXCEPT ![w] = x]
  BY <1>1 DEF Projection
<1>5. q \in Projection
  BY <1>1, <1>3 DEF Projection
<1> QED
  BY <1>1, <1>2, <1>4, <1>5

\* ... and the presence of its Work shows both.
LEMMA SetRunShows ==
    ASSUME NEW p \in Projection, NEW w \in Works, NEW r \in Runs,
           NEW s \in WorkStates, NEW wait \in OptWaits
    PROVE  /\ SetRun(p, w, r, s, wait).shown = [p.shown EXCEPT ![w] = s]
           /\ SetRun(p, w, r, s, wait).wait = [p.wait EXCEPT ![w] = KeptWait(s, wait)]
BY DEF SetRun, NoteRun, KeptWait, Projection

\* WorkCreated: a Work is added, its Runs, approvals and effects stay.
LEMMA AddWorkFields ==
    ASSUME NEW p \in Projection, NEW w \in Works, NEW parent \in Works \cup {NoWork}
    PROVE  LET q == AddWork(p, w, parent) IN
           /\ q \in Projection
           /\ q.works = p.works \cup {w}
           /\ q.parent = [p.parent EXCEPT ![w] = parent]
           /\ q.address = [p.address EXCEPT ![w] = NoRun]
           /\ q.current = p.current /\ q.owner = p.owner /\ q.run = p.run
           /\ q.pending = p.pending /\ q.effect = p.effect
<1>1. "created" \in OptStates /\ "none" \in OptWaits
  BY DEF OptStates, OptWaits, WorkStates
<1> QED
  BY <1>1 DEF AddWork, Projection

\* ... and its presence starts afresh.
LEMMA AddWorkShows ==
    ASSUME NEW p \in Projection, NEW w \in Works, NEW parent \in Works \cup {NoWork}
    PROVE  /\ AddWork(p, w, parent).shown = [p.shown EXCEPT ![w] = "created"]
           /\ AddWork(p, w, parent).wait = [p.wait EXCEPT ![w] = "none"]
BY DEF AddWork, Projection

\* WorkUpdated {archived: true}: only the address goes.
LEMMA DropWorkFields ==
    ASSUME NEW p \in Projection, NEW w \in Works
    PROVE  LET q == DropWork(p, w) IN
           /\ q \in Projection
           /\ q.works = p.works \ {w} /\ q.parent = p.parent
           /\ q.address = [p.address EXCEPT ![w] = NoRun]
           /\ q.current = p.current /\ q.owner = p.owner /\ q.run = p.run
           /\ q.pending = p.pending /\ q.effect = p.effect
           /\ q.shown = p.shown /\ q.wait = p.wait
BY DEF DropWork, Projection

\* An effect row changes one effect of one Work.
LEMMA SetEffectFields ==
    ASSUME NEW p \in Projection, NEW w \in Works, NEW e \in Effects, NEW s \in EffectStates
    PROVE  LET q == SetEffect(p, w, e, s) IN
           /\ q \in Projection
           /\ q.works = p.works /\ q.parent = p.parent /\ q.address = p.address
           /\ q.current = p.current /\ q.owner = p.owner /\ q.run = p.run
           /\ q.pending = p.pending /\ q.shown = p.shown /\ q.wait = p.wait
           /\ q.effect = [p.effect EXCEPT ![w][e] = s]
BY DEF SetEffect, Projection

\* ApprovalRequested changes the pending set only.
LEMMA AddPendingFields ==
    ASSUME NEW p \in Projection, NEW t \in Tickets, NEW r \in Runs
    PROVE  LET q == AddPending(p, t, r) IN
           /\ q \in Projection
           /\ q.works = p.works /\ q.parent = p.parent /\ q.address = p.address
           /\ q.current = p.current /\ q.owner = p.owner /\ q.run = p.run
           /\ q.effect = p.effect /\ q.shown = p.shown /\ q.wait = p.wait
           /\ q.pending = p.pending \cup {<<t, r>>}
<1>1. p.pending \cup {<<t, r>>} \in SUBSET (Tickets \X Runs)
  BY DEF Projection
<1> DEFINE new == p.pending \cup {<<t, r>>}
<1>2. AddPending(p, t, r) = [p EXCEPT !.pending = new]
  BY DEF AddPending
<1> HIDE DEF new
<1>3. LET q == [p EXCEPT !.pending = new] IN
      /\ q \in Projection
      /\ q.works = p.works /\ q.parent = p.parent /\ q.address = p.address
      /\ q.current = p.current /\ q.owner = p.owner /\ q.run = p.run
      /\ q.effect = p.effect /\ q.shown = p.shown /\ q.wait = p.wait
      /\ q.pending = new
  <2>1. new \in SUBSET (Tickets \X Runs)
    BY <1>1 DEF new
  <2> QED
    BY <2>1 DEF Projection
<1> QED
  BY <1>2, <1>3 DEF new

\* ApprovalResolved changes the pending set only.
LEMMA DropPendingFields ==
    ASSUME NEW p \in Projection, NEW t \in Tickets, NEW r \in Runs
    PROVE  LET q == DropPending(p, t, r) IN
           /\ q \in Projection
           /\ q.works = p.works /\ q.parent = p.parent /\ q.address = p.address
           /\ q.current = p.current /\ q.owner = p.owner /\ q.run = p.run
           /\ q.effect = p.effect /\ q.shown = p.shown /\ q.wait = p.wait
           /\ q.pending = p.pending \ {<<t, r>>}
BY DEF DropPending, Projection

-----------------------------------------------------------------------------
(* Sound, row by row.                                                      *)

\* A Run that is new, or already the Work's, can become its current Run.
LEMMA SoundNoteRun ==
    ASSUME NEW p \in Projection, NEW w \in Works, NEW r \in Runs,
           Sound(p), p.owner[r] \in {NoWork, w}
    PROVE  Sound(NoteRun(p, w, r))
<1> DEFINE q == NoteRun(p, w, r)
<1>1. /\ q \in Projection
      /\ q.works = p.works /\ q.parent = p.parent
      /\ q.address = [p.address EXCEPT ![w] = r]
      /\ q.current = [p.current EXCEPT ![w] = r]
      /\ q.owner = [p.owner EXCEPT ![r] = w]
      /\ q.run = p.run /\ q.pending = p.pending /\ q.effect = p.effect
      /\ q.shown = p.shown /\ q.wait = p.wait
  BY NoteRunFields
<1> HIDE DEF q
<1>2. p.current \in [Works -> Runs \cup {NoRun}] /\ p.owner \in [Runs -> Works \cup {NoWork}]
  BY DEF Projection
<1>3. \A a \in p.pending : a[2] \in Runs
  BY DEF Projection
<1>4. \A v \in Works : q.current[v] # NoRun => q.owner[q.current[v]] = v
  <2> SUFFICES ASSUME NEW v \in Works, q.current[v] # NoRun
               PROVE  q.owner[q.current[v]] = v
    OBVIOUS
  <2>1. CASE v = w
    BY <1>1, <1>2, <2>1
  <2>2. CASE v # w
    BY <1>1, <1>2, <2>2, GatewayConstants DEF Sound
  <2> QED
    BY <2>1, <2>2
<1>5. \A a \in q.pending : q.run[a[2]] = "waiting_approval" /\ q.owner[a[2]] # NoWork
  BY <1>1, <1>2, <1>3, GatewayConstants DEF Sound
<1>6. \A a, b \in q.pending : q.owner[a[2]] = q.owner[b[2]] => a = b
  BY <1>1, <1>2, <1>3, GatewayConstants DEF Sound
<1> QED
  BY <1>4, <1>5, <1>6 DEF Sound, q

\* A Run of the Work takes a state that no pending approval of it forbids.
LEMMA SoundSetRun ==
    ASSUME NEW p \in Projection, NEW w \in Works, NEW r \in Runs,
           NEW s \in WorkStates, NEW wait \in OptWaits,
           Sound(p), p.owner[r] \in {NoWork, w},
           s = "waiting_approval" \/ PendingOf(p, r) = {}
    PROVE  Sound(SetRun(p, w, r, s, wait))
<1> DEFINE q == SetRun(p, w, r, s, wait)
<1>1. /\ q \in Projection
      /\ q.works = p.works /\ q.parent = p.parent
      /\ q.address = [p.address EXCEPT ![w] = r]
      /\ q.current = [p.current EXCEPT ![w] = r]
      /\ q.owner = [p.owner EXCEPT ![r] = w]
      /\ q.run = [p.run EXCEPT ![r] = s]
      /\ q.pending = p.pending /\ q.effect = p.effect
  BY SetRunFields
<1> HIDE DEF q
<1>2. /\ p.current \in [Works -> Runs \cup {NoRun}] /\ p.owner \in [Runs -> Works \cup {NoWork}]
      /\ p.run \in [Runs -> OptStates] /\ \A a \in p.pending : a[2] \in Runs
  BY DEF Projection
<1> DEFINE n == NoteRun(p, w, r)
<1>3. /\ Sound(n)
      /\ n.current = q.current /\ n.owner = q.owner /\ n.run = p.run /\ n.pending = q.pending
  <2>1. Sound(n)
    BY SoundNoteRun
  <2>2. /\ n.current = [p.current EXCEPT ![w] = r] /\ n.owner = [p.owner EXCEPT ![r] = w]
        /\ n.run = p.run /\ n.pending = p.pending
    BY DEF NoteRun, Projection
  <2> QED
    BY <1>1, <2>1, <2>2
<1> HIDE DEF n
<1>4. \A a \in q.pending : q.run[a[2]] = "waiting_approval"
  <2> SUFFICES ASSUME NEW a \in p.pending
               PROVE  q.run[a[2]] = "waiting_approval"
    BY <1>1
  <2>1. CASE a[2] = r
    <3>1. PendingOf(p, r) # {}
      BY <2>1 DEF PendingOf
    <3> QED
      BY <1>1, <1>2, <2>1, <3>1
  <2>2. CASE a[2] # r
    BY <1>1, <1>2, <2>2 DEF Sound
  <2> QED
    BY <2>1, <2>2
<1> QED
  BY <1>3, <1>4 DEF Sound, q

\* What has the same current Runs, owners, states and requests is as sound.
LEMMA SoundSame ==
    ASSUME NEW p, NEW q, Sound(p), q.current = p.current, q.owner = p.owner,
           q.run = p.run, q.pending \subseteq p.pending
    PROVE  Sound(q)
BY DEF Sound

\* A request for a parked Run of a Work that has none.
LEMMA SoundAddPending ==
    ASSUME NEW p \in Projection, NEW w \in Works, NEW r \in Runs, NEW t \in Tickets,
           Sound(p), p.owner[r] = w, p.run[r] = "waiting_approval", PendingOfWork(p, w) = {}
    PROVE  Sound(AddPending(p, t, r))
<1> DEFINE q == AddPending(p, t, r)
<1>1. /\ q.current = p.current /\ q.owner = p.owner /\ q.run = p.run
      /\ q.pending = p.pending \cup {<<t, r>>}
  BY AddPendingFields, Zenon
<1> HIDE DEF q
<1>2. \A a \in p.pending : p.owner[a[2]] # w
  BY DEF PendingOfWork
<1>3. <<t, r>>[2] = r /\ w # NoWork
  BY GatewayConstants
<1>4. \A a \in q.pending : q.run[a[2]] = "waiting_approval" /\ q.owner[a[2]] # NoWork
  BY <1>1, <1>3 DEF Sound
<1>5. \A a, b \in q.pending : q.owner[a[2]] = q.owner[b[2]] => a = b
  BY <1>1, <1>2, <1>3 DEF Sound
<1> QED
  BY <1>1, <1>4, <1>5 DEF Sound, q

-----------------------------------------------------------------------------
(* The writer's checks are the reader's.                                   *)

\* A transition the writer accepts, in the spelling the journal has for it,
\* is legal for the reader, who may only miss the start of the Run or hold it
\* for steered.
LEMMA ReaderAllows ==
    ASSUME NEW l \in Projection, NEW d \in Projection, NEW S, NEW w \in Works, NEW r \in Runs,
           NEW s \in WorkStates, Agrees(l, d, S), ValidRunTransition(l, w, r, s)
    PROVE  Explains(RunError(d, w, r, s), d, S)
<1>1. d.pending = l.pending /\ d.effect = l.effect /\ RunReadsAs(l, d, r, S)
  BY DEF Agrees
<1>2. PendingOf(d, r) = PendingOf(l, r)
  BY <1>1 DEF PendingOf
<1>3. HasUnresolvedUncertainEffect(d, w) = HasUnresolvedUncertainEffect(l, w)
  BY <1>1 DEF HasUnresolvedUncertainEffect
<1>4. CASE d.run[r] = l.run[r]
  BY <1>2, <1>3, <1>4 DEF ValidRunTransition, RunError, EdgeAllowed, Explains
<1>5. CASE d.run[r] = "none"
  BY <1>5 DEF RunError, Explains
<1>6. CASE l.run[r] = "verifying" /\ d.run[r] = "running"
  <2>1. CanTransition("verifying", s)
    BY <1>6 DEF ValidRunTransition, EdgeAllowed
  <2>2. CanTransition("running", s)
    BY <2>1 DEF CanTransition, WaitingStates, TerminalStates
  <2> QED
    BY <1>6, <2>2 DEF RunError, EdgeAllowed, Explains
<1>7. CASE <<d.owner[r], r>> \in S /\ SteeredReadsAs(l.run[r], d.run[r])
  <2>1. SteeredReadsAs("none", d.run[<<d.owner[r], r>>[2]])
    BY <1>7 DEF SteeredReadsAs
  <2>2. \E a \in S : SteeredReadsAs("none", d.run[a[2]])
    BY <1>7, <2>1
  <2>3. RunError(d, w, r, s) \in {"none", "terminal_first", "illegal"}
    BY DEF RunError
  <2> QED
    BY <2>2, <2>3 DEF Explains
<1> QED
  BY <1>1, <1>4, <1>5, <1>6, <1>7 DEF RunReadsAs, ReadsAs

\* Agreement survives a transition row.
LEMMA AgreesSetRun ==
    ASSUME NEW l \in Projection, NEW d \in Projection, NEW S, NEW w \in Works, NEW r \in Runs,
           NEW s \in WorkStates, NEW t \in WorkStates, NEW x \in OptWaits, NEW y \in OptWaits,
           Agrees(l, d, S), ReadsAs(s, t),
           \/ KeptWait(t, y) = KeptWait(s, x)
           \/ KeptWait(t, y) = "none" /\ s = "paused"
    PROVE  Agrees(SetRun(l, w, r, s, x), SetRun(d, w, r, t, y), S)
<1> DEFINE m == SetRun(l, w, r, s, x)
           n == SetRun(d, w, r, t, y)
<1>1. /\ m \in Projection
      /\ m.works = l.works /\ m.parent = l.parent
      /\ m.address = [l.address EXCEPT ![w] = r]
      /\ m.current = [l.current EXCEPT ![w] = r]
      /\ m.owner = [l.owner EXCEPT ![r] = w]
      /\ m.run = [l.run EXCEPT ![r] = s]
      /\ m.pending = l.pending /\ m.effect = l.effect
  BY SetRunFields
<1>2. /\ n \in Projection
      /\ n.works = d.works /\ n.parent = d.parent
      /\ n.address = [d.address EXCEPT ![w] = r]
      /\ n.current = [d.current EXCEPT ![w] = r]
      /\ n.owner = [d.owner EXCEPT ![r] = w]
      /\ n.run = [d.run EXCEPT ![r] = t]
      /\ n.pending = d.pending /\ n.effect = d.effect
  BY SetRunFields
<1>3. /\ m.shown = [l.shown EXCEPT ![w] = s]
      /\ m.wait = [l.wait EXCEPT ![w] = KeptWait(s, x)]
      /\ n.wait = [d.wait EXCEPT ![w] = KeptWait(t, y)]
  <2>1. /\ m.shown = [l.shown EXCEPT ![w] = s]
        /\ m.wait = [l.wait EXCEPT ![w] = KeptWait(s, x)]
    BY SetRunShows
  <2>2. /\ n.shown = [d.shown EXCEPT ![w] = t]
        /\ n.wait = [d.wait EXCEPT ![w] = KeptWait(t, y)]
    BY SetRunShows
  <2> QED
    BY <2>1, <2>2
<1> HIDE DEF m, n
<1>4. /\ l.run \in [Runs -> OptStates] /\ d.run \in [Runs -> OptStates]
      /\ l.owner \in [Runs -> Works \cup {NoWork}] /\ d.owner \in [Runs -> Works \cup {NoWork}]
  BY DEF Projection
<1>5. ASSUME NEW q \in Runs PROVE RunReadsAs(m, n, q, S)
  <2>1. CASE q = r
    BY <1>1, <1>2, <1>4, <2>1 DEF RunReadsAs
  <2>2. CASE q # r
    <3>1. /\ m.run[q] = l.run[q] /\ m.owner[q] = l.owner[q]
          /\ n.run[q] = d.run[q] /\ n.owner[q] = d.owner[q]
      BY <1>1, <1>2, <1>4, <2>2
    <3>2. RunReadsAs(l, d, q, S)
      BY DEF Agrees
    <3> QED
      BY <3>1, <3>2 DEF RunReadsAs
  <2> QED
    BY <2>1, <2>2
<1>6. /\ l.wait \in [Works -> OptWaits] /\ d.wait \in [Works -> OptWaits]
      /\ l.shown \in [Works -> OptStates]
      /\ l.address \in [Works -> Runs \cup {NoRun}] /\ d.address \in [Works -> Runs \cup {NoRun}]
      /\ l.current \in [Works -> Runs \cup {NoRun}] /\ d.current \in [Works -> Runs \cup {NoRun}]
  BY DEF Projection
<1>7. ASSUME NEW v \in Works PROVE WorkReadsAs(m, n, v, S)
  <2>1. WorkReadsAs(l, d, v, S)
    BY DEF Agrees
  <2>2. CASE v = w
    BY <1>1, <1>2, <1>3, <1>6, <2>2 DEF WorkReadsAs, WaitReadsAs
  <2>3. CASE v # w
    <3>1. /\ m.address[v] = l.address[v] /\ n.address[v] = d.address[v]
          /\ m.current[v] = l.current[v] /\ n.current[v] = d.current[v]
          /\ m.wait[v] = l.wait[v] /\ n.wait[v] = d.wait[v] /\ m.shown[v] = l.shown[v]
      BY <1>1, <1>2, <1>3, <1>6, <2>3
    <3> QED
      BY <2>1, <3>1 DEF WorkReadsAs, WaitReadsAs
  <2> QED
    BY <2>2, <2>3
<1>8. n.works = m.works /\ n.parent = m.parent /\ n.pending = m.pending /\ n.effect = m.effect
  BY <1>1, <1>2 DEF Agrees
<1> QED
  BY <1>5, <1>7, <1>8 DEF Agrees, m, n

\* A row about a steered Run leaves the two agreeing, when the writer's maps
\* of Runs change at most in what names the Run, and its state is within reach
\* of the reader's.
LEMMA AgreesSteered ==
    ASSUME NEW l \in Projection, NEW m \in Projection, NEW d \in Projection, NEW S, NEW T,
           NEW w \in Works, NEW r \in Runs, NEW t \in WorkStates, NEW y \in OptWaits,
           Agrees(l, d, S), S \subseteq T, <<w, r>> \in T,
           m.works = l.works, m.parent = l.parent, m.pending = l.pending,
           m.effect = l.effect, m.run = l.run, m.shown = l.shown, m.wait = l.wait,
           \A q \in Runs \ {r} : m.owner[q] = l.owner[q],
           \A v \in Works \ {w} : m.address[v] = l.address[v] /\ m.current[v] = l.current[v],
           m.owner[r] \in {w, NoWork}, SteeredReadsAs(m.run[r], t)
    PROVE  Agrees(m, SetRun(d, w, r, t, y), T)
<1> DEFINE n == SetRun(d, w, r, t, y)
<1>1. /\ n \in Projection
      /\ n.works = d.works /\ n.parent = d.parent
      /\ n.address = [d.address EXCEPT ![w] = r]
      /\ n.current = [d.current EXCEPT ![w] = r]
      /\ n.owner = [d.owner EXCEPT ![r] = w]
      /\ n.run = [d.run EXCEPT ![r] = t]
      /\ n.pending = d.pending /\ n.effect = d.effect
  BY ONLY d \in Projection, w \in Works, r \in Runs, t \in WorkStates, y \in OptWaits,
          SetRunFields
<1>2. /\ n.shown = [d.shown EXCEPT ![w] = t]
      /\ n.wait = [d.wait EXCEPT ![w] = KeptWait(t, y)]
  BY ONLY d \in Projection, w \in Works, r \in Runs, t \in WorkStates, y \in OptWaits,
          SetRunShows
<1> HIDE DEF n
<1>3. /\ d.run \in [Runs -> OptStates] /\ d.owner \in [Runs -> Works \cup {NoWork}]
      /\ d.wait \in [Works -> OptWaits]
      /\ d.address \in [Works -> Runs \cup {NoRun}] /\ d.current \in [Works -> Runs \cup {NoRun}]
  BY DEF Projection
<1>4. ASSUME NEW q \in Runs PROVE RunReadsAs(m, n, q, T)
  <2>1. CASE q = r
    BY <1>1, <1>3, <2>1 DEF RunReadsAs
  <2>2. CASE q # r
    <3>1. /\ m.run[q] = l.run[q] /\ m.owner[q] = l.owner[q]
          /\ n.run[q] = d.run[q] /\ n.owner[q] = d.owner[q]
      BY <1>1, <1>3, <2>2
    <3>2. RunReadsAs(l, d, q, S)
      BY DEF Agrees
    <3> QED
      BY <3>1, <3>2 DEF RunReadsAs
  <2> QED
    BY <2>1, <2>2
<1>5. ASSUME NEW v \in Works PROVE WorkReadsAs(m, n, v, T)
  <2>1. WorkReadsAs(l, d, v, S)
    BY DEF Agrees
  <2>2. CASE v = w
    BY <2>2 DEF WorkReadsAs
  <2>3. CASE v # w
    <3>1. /\ m.address[v] = l.address[v] /\ n.address[v] = d.address[v]
          /\ m.current[v] = l.current[v] /\ n.current[v] = d.current[v]
          /\ m.wait[v] = l.wait[v] /\ n.wait[v] = d.wait[v] /\ m.shown[v] = l.shown[v]
      BY <1>1, <1>2, <1>3, <2>3
    <3> QED
      BY <2>1, <3>1 DEF WorkReadsAs, WaitReadsAs
  <2> QED
    BY <2>2, <2>3
<1>6. n.works = m.works /\ n.parent = m.parent /\ n.pending = m.pending /\ n.effect = m.effect
  BY <1>1 DEF Agrees
<1> QED
  BY <1>4, <1>5, <1>6 DEF Agrees, n

\* In particular for the end of a steered Run that memory has no state of.
LEMMA AgreesUnstarted ==
    ASSUME NEW l \in Projection, NEW d \in Projection, NEW S, NEW w \in Works, NEW r \in Runs,
           NEW t \in WorkStates, NEW y \in OptWaits,
           Agrees(l, d, S), <<w, r>> \in S, l.run[r] = "none", SteeredReadsAs("none", t)
    PROVE  Agrees(NoteRun(l, w, r), SetRun(d, w, r, t, y), S)
<1> DEFINE m == NoteRun(l, w, r)
<1>1. /\ m \in Projection
      /\ m.works = l.works /\ m.parent = l.parent
      /\ m.address = [l.address EXCEPT ![w] = r]
      /\ m.current = [l.current EXCEPT ![w] = r]
      /\ m.owner = [l.owner EXCEPT ![r] = w]
      /\ m.run = l.run /\ m.pending = l.pending /\ m.effect = l.effect
      /\ m.shown = l.shown /\ m.wait = l.wait
  BY NoteRunFields
<1> HIDE DEF m
<1>2. /\ l.owner \in [Runs -> Works \cup {NoWork}] /\ l.address \in [Works -> Runs \cup {NoRun}]
      /\ l.current \in [Works -> Runs \cup {NoRun}]
  BY DEF Projection
<1>3. /\ \A q \in Runs \ {r} : m.owner[q] = l.owner[q]
      /\ \A v \in Works \ {w} : m.address[v] = l.address[v] /\ m.current[v] = l.current[v]
      /\ m.owner[r] = w
  BY <1>1, <1>2
<1>4. S \subseteq S /\ m.owner[r] \in {w, NoWork} /\ SteeredReadsAs(m.run[r], t)
  BY <1>1, <1>3
<1>5. Agrees(m, SetRun(d, w, r, t, y), S)
  BY <1>1, <1>3, <1>4, AgreesSteered
<1> QED
  BY <1>5 DEF m

-----------------------------------------------------------------------------
(* Appending.                                                              *)

\* What Durable makes of a row that replays if the two projections agree.
LEMMA DurableOutcome ==
    ASSUME IInv, up, NEW p, NEW e, Durable(p, e),
           Agrees(live, replay, steered) => Explains(e, replay, steered)
    PROVE  /\ Explains(err', replay, steered)
           /\ err' = "none" => /\ err = "none" /\ ~unacked /\ Agrees(live, replay, steered)
                              /\ e = "none" /\ replay' = p
           /\ err' # "none" => replay' = replay
<1>1. CASE err # "none"
  BY <1>1 DEF Durable, IInv, RefusalCauses, Explains
<1>2. CASE err = "none" /\ unacked
  BY <1>2 DEF Durable, Explains
<1>3. CASE err = "none" /\ ~unacked
  <2>1. Agrees(live, replay, steered)
    BY <1>3 DEF IInv, ReplayAgrees
  <2> QED
    BY <1>3, <2>1 DEF Durable
<1> QED
  BY <1>1, <1>2, <1>3

\* A step that appends one row keeps the invariant.
LEMMA RowStep ==
    ASSUME IInv, up, UNCHANGED up, NEW l \in Projection, Sound(l),
           (live' = l /\ unacked' = FALSE) \/ (live' = live /\ unacked' = TRUE),
           Explains(err', replay, steered),
           steered \subseteq steered', steered' \subseteq Works \X Runs,
           err' = "none" => /\ replay' \in Projection /\ Sound(replay')
                           /\ Agrees(l, replay', steered'),
           err' # "none" => replay' = replay,
           resolving' \in [run : Runs \cup {NoRun}, next : {"none", "running", "failed"}],
           ResolvingKnown'
    PROVE  IInv'
<1>1. TypeOK'
  BY DEF IInv, TypeOK, Explains
<1>2. Sound(live')
  BY DEF IInv
<1>3. Sound(replay')
  BY DEF IInv
<1>4. Sound(live)' /\ Sound(replay)'
  BY <1>2, <1>3 DEF Sound
<1>5. RefusalCauses'
  BY DEF RefusalCauses, Explains
<1>6. ReplayAgrees'
  BY DEF ReplayAgrees, Agrees, RunReadsAs, WorkReadsAs, WaitReadsAs
<1> QED
  BY <1>1, <1>4, <1>5, <1>6 DEF IInv

\* The same for append, of a row whose Work is known.
LEMMA AppendStep ==
    ASSUME IInv, NEW w \in Works, NEW l \in Projection, NEW p, NEW e, Sound(l),
           AppendRow(w, l, p, e),
           steered \subseteq steered', steered' \subseteq Works \X Runs,
           Agrees(live, replay, steered) => Explains(e, replay, steered),
           Agrees(live, replay, steered) /\ e = "none" =>
                p \in Projection /\ Sound(p) /\ Agrees(l, p, steered'),
           resolving' \in [run : Runs \cup {NoRun}, next : {"none", "running", "failed"}],
           ResolvingKnown'
    PROVE  IInv'
<1>1. /\ up /\ w \in live.works /\ Durable(p, KnownWork(w, e)) /\ Acknowledge(l)
      /\ UNCHANGED up
  BY DEF AppendRow
<1>2. Agrees(live, replay, steered) => KnownWork(w, e) = e
  BY <1>1 DEF Agrees, KnownWork
<1>3. /\ Explains(err', replay, steered)
      /\ err' = "none" => /\ err = "none" /\ ~unacked /\ Agrees(live, replay, steered)
                         /\ KnownWork(w, e) = "none" /\ replay' = p
      /\ err' # "none" => replay' = replay
  BY <1>1, <1>2, DurableOutcome
<1>4. (live' = l /\ unacked' = FALSE) \/ (live' = live /\ unacked' = TRUE)
  BY <1>1 DEF Acknowledge
<1> QED
  BY <1>1, <1>2, <1>3, <1>4, RowStep

\* For the operations that leave `resolving` and `steered` alone.
LEMMA PlainAppendStep ==
    ASSUME IInv, NEW w \in Works, NEW l \in Projection, NEW p, NEW e, Sound(l),
           AppendEvent(w, l, p, e),
           Agrees(live, replay, steered) => Explains(e, replay, steered),
           Agrees(live, replay, steered) /\ e = "none" =>
                p \in Projection /\ Sound(p) /\ Agrees(l, p, steered)
    PROVE  IInv'
<1>1. AppendRow(w, l, p, e) /\ UNCHANGED <<resolving, steered>>
  BY DEF AppendEvent
<1>2. /\ resolving' \in [run : Runs \cup {NoRun}, next : {"none", "running", "failed"}]
      /\ ResolvingKnown' /\ steered' \subseteq Works \X Runs
  BY <1>1 DEF IInv, TypeOK, ResolvingKnown
<1> QED
  BY <1>1, <1>2, AppendStep

-----------------------------------------------------------------------------
(* One lemma per family of operations.                                     *)

\* create_work_in_session and create_child_work keep the invariant.
LEMMA CreatedStep ==
    ASSUME IInv, NEW w \in Works, NEW parent \in Works \cup {NoWork},
           w \notin live.works, AppendCreated(w, parent)
    PROVE  IInv'
<1> DEFINE l == AddWork(live, w, parent)
           p == AddWork(replay, w, parent)
           e == IF w \in replay.works THEN "duplicate_work" ELSE "none"
<1>1. live \in Projection /\ replay \in Projection /\ Sound(live) /\ Sound(replay)
  BY DEF IInv, TypeOK
<1>2. /\ l \in Projection
      /\ l.works = live.works \cup {w}
      /\ l.parent = [live.parent EXCEPT ![w] = parent]
      /\ l.address = [live.address EXCEPT ![w] = NoRun]
      /\ l.current = live.current /\ l.owner = live.owner /\ l.run = live.run
      /\ l.pending = live.pending /\ l.effect = live.effect
  BY <1>1, AddWorkFields
<1>3. /\ p \in Projection
      /\ p.works = replay.works \cup {w}
      /\ p.parent = [replay.parent EXCEPT ![w] = parent]
      /\ p.address = [replay.address EXCEPT ![w] = NoRun]
      /\ p.current = replay.current /\ p.owner = replay.owner /\ p.run = replay.run
      /\ p.pending = replay.pending /\ p.effect = replay.effect
  BY <1>1, AddWorkFields
<1>4. /\ up /\ UNCHANGED up /\ Durable(p, e) /\ UNCHANGED <<resolving, steered>>
      /\ (live' = l /\ unacked' = FALSE) \/ (live' = live /\ unacked' = TRUE)
  BY DEF AppendCreated, Acknowledge
<1>5. Agrees(live, replay, steered) => e = "none"
  BY DEF Agrees
<1>6. /\ l.shown = [live.shown EXCEPT ![w] = "created"]
      /\ l.wait = [live.wait EXCEPT ![w] = "none"] /\ p.wait = [replay.wait EXCEPT ![w] = "none"]
  BY <1>1, AddWorkShows
<1> HIDE DEF l, p, e
<1>7. Sound(l) /\ Sound(p)
  BY <1>1, <1>2, <1>3, SoundSame
<1>8. Agrees(live, replay, steered) => Agrees(l, p, steered)
  <2>1. /\ live.wait \in [Works -> OptWaits] /\ replay.wait \in [Works -> OptWaits]
        /\ live.shown \in [Works -> OptStates]
        /\ live.address \in [Works -> Runs \cup {NoRun}]
        /\ replay.address \in [Works -> Runs \cup {NoRun}]
    BY <1>1 DEF Projection
  <2>2. Agrees(live, replay, steered) => \A v \in Works : WorkReadsAs(l, p, v, steered)
    BY <1>2, <1>3, <1>6, <2>1 DEF Agrees, WorkReadsAs, WaitReadsAs
  <2>3. Agrees(live, replay, steered) => \A r \in Runs : RunReadsAs(l, p, r, steered)
    BY <1>2, <1>3 DEF Agrees, RunReadsAs
  <2> QED
    BY <1>2, <1>3, <2>2, <2>3 DEF Agrees
<1>9. /\ Explains(err', replay, steered)
      /\ err' = "none" => /\ err = "none" /\ ~unacked /\ Agrees(live, replay, steered)
                         /\ e = "none" /\ replay' = p
      /\ err' # "none" => replay' = replay
  BY <1>4, <1>5, DurableOutcome DEF Explains
<1>10. /\ resolving' \in [run : Runs \cup {NoRun}, next : {"none", "running", "failed"}]
       /\ ResolvingKnown' /\ steered' \subseteq Works \X Runs
  BY <1>4 DEF IInv, TypeOK, ResolvingKnown
<1> QED
  BY <1>2, <1>3, <1>4, <1>7, <1>8, <1>9, <1>10, RowStep

\* try_archive_work keeps it.
LEMMA ArchiveStep ==
    ASSUME IInv, NEW w \in Works, ArchiveWork(w)
    PROVE  IInv'
<1> DEFINE l == DropWork(live, w)
           p == DropWork(replay, w)
<1>1. live \in Projection /\ replay \in Projection /\ Sound(live) /\ Sound(replay)
  BY DEF IInv, TypeOK
<1>2. /\ l \in Projection
      /\ l.works = live.works \ {w} /\ l.parent = live.parent
      /\ l.address = [live.address EXCEPT ![w] = NoRun]
      /\ l.current = live.current /\ l.owner = live.owner /\ l.run = live.run
      /\ l.pending = live.pending /\ l.effect = live.effect
      /\ l.shown = live.shown /\ l.wait = live.wait
  BY <1>1, DropWorkFields
<1>3. /\ p \in Projection
      /\ p.works = replay.works \ {w} /\ p.parent = replay.parent
      /\ p.address = [replay.address EXCEPT ![w] = NoRun]
      /\ p.current = replay.current /\ p.owner = replay.owner /\ p.run = replay.run
      /\ p.pending = replay.pending /\ p.effect = replay.effect
      /\ p.shown = replay.shown /\ p.wait = replay.wait
  BY <1>1, DropWorkFields
<1>4. AppendEvent(w, l, p, "none")
  BY DEF ArchiveWork
<1> HIDE DEF l, p
<1>5. Sound(l) /\ Sound(p)
  BY <1>1, <1>2, <1>3, SoundSame
<1>6. Agrees(live, replay, steered) => Agrees(l, p, steered)
  <2>1. /\ live.address \in [Works -> Runs \cup {NoRun}]
        /\ replay.address \in [Works -> Runs \cup {NoRun}]
    BY <1>1 DEF Projection
  <2>2. ASSUME Agrees(live, replay, steered), NEW v \in Works
        PROVE  WorkReadsAs(l, p, v, steered)
    <3>1. WorkReadsAs(live, replay, v, steered)
      BY <2>2 DEF Agrees
    <3>2. \/ l.address[v] = live.address[v] /\ p.address[v] = replay.address[v]
          \/ l.address[v] = p.address[v]
      BY <1>2, <1>3, <2>1
    <3> QED
      BY <1>2, <1>3, <3>1, <3>2 DEF WorkReadsAs, WaitReadsAs
  <2> QED
    BY <1>2, <1>3, <2>2 DEF Agrees, RunReadsAs
<1> QED
  BY <1>2, <1>3, <1>4, <1>5, <1>6, PlainAppendStep DEF Explains

\* bind_execution keeps it: the reader misses the Ready the writer holds.
LEMMA BindStep ==
    ASSUME IInv, NEW w \in Works, NEW r \in Runs, BindExecution(w, r)
    PROVE  IInv'
<1> DEFINE n == NoteRun(live, w, r)
           l == [n EXCEPT !.run[r] = IF @ = "none" THEN "ready" ELSE @]
           p == NoteRun(replay, w, r)
<1>1. live \in Projection /\ replay \in Projection /\ Sound(live) /\ Sound(replay)
  BY DEF IInv, TypeOK
<1>2. /\ n \in Projection
      /\ n.works = live.works /\ n.parent = live.parent
      /\ n.address = [live.address EXCEPT ![w] = r]
      /\ n.current = [live.current EXCEPT ![w] = r]
      /\ n.owner = [live.owner EXCEPT ![r] = w]
      /\ n.run = live.run /\ n.pending = live.pending /\ n.effect = live.effect
      /\ n.shown = live.shown /\ n.wait = live.wait
  BY <1>1, NoteRunFields
<1>3. /\ p \in Projection
      /\ p.works = replay.works /\ p.parent = replay.parent
      /\ p.address = [replay.address EXCEPT ![w] = r]
      /\ p.current = [replay.current EXCEPT ![w] = r]
      /\ p.owner = [replay.owner EXCEPT ![r] = w]
      /\ p.run = replay.run /\ p.pending = replay.pending /\ p.effect = replay.effect
      /\ p.shown = replay.shown /\ p.wait = replay.wait
  BY <1>1, NoteRunFields
<1>4. /\ live.owner[r] = NoWork /\ replay.owner[r] = NoWork
      /\ AppendEvent(w, l, p, "none")
  BY DEF BindExecution, MayBind
<1>5. Sound(n) /\ Sound(p)
  BY <1>1, <1>4, SoundNoteRun
<1> HIDE DEF n, p
<1> DEFINE x == IF n.run[r] = "none" THEN "ready" ELSE n.run[r]
<1>6. x \in OptStates
  BY <1>2 DEF Projection, OptStates, WorkStates
<1>7. l = [n EXCEPT !.run[r] = x]
  BY <1>2 DEF Projection
<1> HIDE DEF l
<1>8. /\ l.works = n.works /\ l.parent = n.parent /\ l.address = n.address
      /\ l.current = n.current /\ l.owner = n.owner /\ l.pending = n.pending
      /\ l.effect = n.effect /\ l.run = [n.run EXCEPT ![r] = x]
      /\ l.shown = n.shown /\ l.wait = n.wait
  BY <1>2, <1>7 DEF Projection
<1>9. l \in Projection
  <2> HIDE DEF x
  <2> QED
    BY <1>2, <1>6, <1>7 DEF Projection
<1>10. n.run \in [Runs -> OptStates] /\ \A a \in n.pending : a[2] \in Runs
  BY <1>2 DEF Projection
<1>11. Sound(l)
  BY <1>5, <1>8, <1>10 DEF Sound
<1>12. ASSUME Agrees(live, replay, steered) PROVE Agrees(l, p, steered)
  <2>1. /\ live.owner \in [Runs -> Works \cup {NoWork}]
        /\ replay.owner \in [Runs -> Works \cup {NoWork}]
        /\ live.address \in [Works -> Runs \cup {NoRun}]
        /\ replay.address \in [Works -> Runs \cup {NoRun}]
        /\ live.current \in [Works -> Runs \cup {NoRun}]
        /\ replay.current \in [Works -> Runs \cup {NoRun}]
    BY <1>1 DEF Projection
  <2>2. ReadsAs(live.run[r], replay.run[r])
    <3>1. <<replay.owner[r], r>> \notin steered
      BY <1>4, GatewayConstants DEF IInv, TypeOK
    <3> QED
      BY <1>12, <3>1 DEF Agrees, RunReadsAs
  <2>3. ASSUME NEW q \in Runs PROVE RunReadsAs(l, p, q, steered)
    <3>1. CASE q = r
      BY <1>2, <1>3, <1>8, <1>10, <2>1, <2>2, <3>1 DEF RunReadsAs, ReadsAs
    <3>2. CASE q # r
      <4>1. /\ l.run[q] = live.run[q] /\ l.owner[q] = live.owner[q]
            /\ p.run[q] = replay.run[q] /\ p.owner[q] = replay.owner[q]
        BY <1>2, <1>3, <1>8, <1>10, <2>1, <3>2
      <4>2. RunReadsAs(live, replay, q, steered)
        BY <1>12 DEF Agrees
      <4> QED
        BY <4>1, <4>2 DEF RunReadsAs
    <3> QED
      BY <3>1, <3>2
  <2>4. ASSUME NEW v \in Works PROVE WorkReadsAs(l, p, v, steered)
    <3>1. WorkReadsAs(live, replay, v, steered)
      BY <1>12 DEF Agrees
    <3>2. l.wait[v] = live.wait[v] /\ p.wait[v] = replay.wait[v] /\ l.shown[v] = live.shown[v]
      BY <1>2, <1>3, <1>8
    <3>3. \/ /\ l.address[v] = live.address[v] /\ p.address[v] = replay.address[v]
             /\ l.current[v] = live.current[v] /\ p.current[v] = replay.current[v]
          \/ l.address[v] = p.address[v] /\ l.current[v] = p.current[v]
      BY <1>2, <1>3, <1>8, <2>1
    <3> QED
      BY <3>1, <3>2, <3>3 DEF WorkReadsAs, WaitReadsAs
  <2> QED
    BY <1>2, <1>3, <1>8, <1>12, <2>3, <2>4 DEF Agrees
<1> QED
  BY <1>3, <1>4, <1>5, <1>9, <1>11, <1>12, PlainAppendStep DEF Explains

\* How the journal spells the states callers ask for.
LEMMA EventStateReads ==
    ASSUME NEW s \in RequestedStates
    PROVE  /\ s \in WorkStates /\ EventState(s) \in WorkStates
           /\ ReadsAs(s, EventState(s))
           /\ s \in TerminalStates => EventState(s) = s
BY DEF RequestedStates, WorkStates, WaitingStates, TerminalStates, EventState, ReadsAs

\* A state the checks let a Run take leaves no request of it behind.
LEMMA AllowedLeavesNoRequest ==
    ASSUME NEW p \in Projection, NEW w \in Works, NEW r \in Runs, NEW s \in WorkStates,
           Sound(p), ValidRunTransition(p, w, r, s)
    PROVE  s = "waiting_approval" \/ PendingOf(p, r) = {}
<1>1. p.run[r] # "waiting_approval" => PendingOf(p, r) = {}
  BY DEF Sound, PendingOf
<1> QED
  BY <1>1 DEF ValidRunTransition, EdgeAllowed

\* The wait a row carries is the one the writer keeps, but for a paused Run.
LEMMA EventWaitReads ==
    ASSUME NEW s \in RequestedStates, NEW wait \in OptWaits,
           wait = "none" \/ s = WaitState(wait)
    PROVE  \/ KeptWait(EventState(s), EventWait(s, wait)) = KeptWait(s, wait)
           \/ KeptWait(EventState(s), EventWait(s, wait)) = "none" /\ s = "paused"
<1>1. CASE wait = "none"
  BY <1>1 DEF KeptWait, EventWait
<1>2. CASE s = WaitState(wait)
  BY <1>2 DEF KeptWait, EventWait, EventState, WaitState, WaitingStates
<1> QED
  BY <1>1, <1>2

\* A lifecycle row, of record_execution_transition, record_wait or
\* finish_child_work, keeps the invariant.
LEMMA LifecycleStep ==
    ASSUME IInv, NEW w \in Works, NEW r \in Runs, NEW s \in RequestedStates,
           NEW wait \in OptWaits, wait = "none" \/ s = WaitState(wait),
           live.owner[r] \in {w, NoWork}, live.owner[r] = w \/ replay.owner[r] \in {w, NoWork},
           ValidRunTransition(live, w, r, s), ValidRunTransition(live, w, r, EventState(s)),
           AppendTransition(w, r, s, wait)
    PROVE  IInv'
<1> DEFINE t == EventState(s)
           y == EventWait(s, wait)
           m == SetRun(live, w, r, s, wait)
           l == IF RunError(live, w, r, s) = "none" THEN m ELSE NoteRun(live, w, r)
           p == SetRun(replay, w, r, t, y)
           e == RunError(replay, w, r, t)
<1>1. live \in Projection /\ replay \in Projection /\ Sound(live) /\ Sound(replay)
  BY DEF IInv, TypeOK
<1>2. /\ ValidRunTransition(live, w, r, s)
      /\ ValidRunTransition(live, w, r, t) /\ AppendEvent(w, l, p, e)
  BY DEF AppendTransition
<1>3. live.owner[r] \in {w, NoWork}
  OBVIOUS
<1>4. /\ s \in WorkStates /\ t \in WorkStates /\ ReadsAs(s, t)
      /\ s \in TerminalStates => t = s
  BY EventStateReads
<1>5. /\ y \in OptWaits
      /\ KeptWait(t, y) = KeptWait(s, wait) \/ (KeptWait(t, y) = "none" /\ s = "paused")
  BY EventWaitReads DEF EventWait, OptWaits
<1> HIDE DEF t, y, e
<1>6. m \in Projection /\ Sound(m)
  <2>1. m \in Projection
    BY <1>1, <1>4, SetRunFields
  <2>2. s = "waiting_approval" \/ PendingOf(live, r) = {}
    BY <1>1, <1>2, <1>4, AllowedLeavesNoRequest
  <2> QED
    BY <1>1, <1>3, <1>4, <2>1, <2>2, SoundSetRun
<1>7. NoteRun(live, w, r) \in Projection /\ Sound(NoteRun(live, w, r))
  BY <1>1, <1>3, NoteRunFields, SoundNoteRun
<1>8. l \in Projection /\ Sound(l)
  BY <1>6, <1>7
<1>9. Agrees(live, replay, steered) => Explains(e, replay, steered)
  BY <1>1, <1>2, <1>4, ReaderAllows DEF e
<1>10. ASSUME Agrees(live, replay, steered), e = "none"
       PROVE  p \in Projection /\ Sound(p) /\ Agrees(l, p, steered)
  <2>1. RunReadsAs(live, replay, r, steered)
    BY <1>10 DEF Agrees
  <2>2. replay.owner[r] \in {w, NoWork}
    BY <2>1, GatewayConstants DEF RunReadsAs
  <2>3. ValidRunTransition(replay, w, r, t)
    BY <1>10 DEF e, RunError, ValidRunTransition
  <2>4. t = "waiting_approval" \/ PendingOf(replay, r) = {}
    BY <1>1, <1>4, <2>3, AllowedLeavesNoRequest
  <2>5. p \in Projection
    BY <1>1, <1>4, <1>5, SetRunFields
  <2>6. Sound(p)
    BY <1>1, <1>4, <1>5, <2>2, <2>4, SoundSetRun
  <2>7. CASE RunError(live, w, r, s) = "none"
    <3>1. Agrees(m, p, steered)
      BY <1>1, <1>4, <1>5, <1>10, AgreesSetRun
    <3> QED
      BY <2>5, <2>6, <2>7, <3>1
  <2>8. CASE RunError(live, w, r, s) # "none"
    <3>1. live.run[r] = "none" /\ s \in TerminalStates /\ t = s
      BY <1>2, <1>4, <2>8 DEF RunError, ValidRunTransition
    <3>2. replay.run[r] # "none"
      BY <1>10, <3>1 DEF e, RunError
    <3>3. <<w, r>> \in steered /\ SteeredReadsAs("none", replay.run[r])
      <4>1. <<replay.owner[r], r>> \in steered /\ SteeredReadsAs("none", replay.run[r])
        BY <2>1, <3>1, <3>2 DEF RunReadsAs, ReadsAs
      <4> QED
        BY <2>2, <4>1, GatewayConstants DEF IInv, TypeOK
    <3>4. SteeredReadsAs("none", t)
      <4>1. CanTransition(replay.run[r], t)
        BY <1>10, <3>2 DEF e, RunError, EdgeAllowed
      <4> QED
        BY <3>1, <3>3, <4>1 DEF SteeredReadsAs, CanTransition, TerminalStates, WaitingStates
    <3>5. Agrees(NoteRun(live, w, r), p, steered)
      BY <1>1, <1>3, <1>4, <1>5, <1>10, <3>1, <3>3, <3>4, AgreesUnstarted
    <3> QED
      BY <2>5, <2>6, <2>8, <3>5
  <2> QED
    BY <2>7, <2>8
<1> HIDE DEF l, p
<1> QED
  BY <1>2, <1>8, <1>9, <1>10, PlainAppendStep

\* record_execution_transition and record_wait keep it: the Work's current Run
\* is its own.
LEMMA TransitionStep ==
    ASSUME IInv, NEW w \in Works, NEW r \in Runs, NEW s \in RequestedStates,
           NEW wait \in OptWaits, wait = "none" \/ s = WaitState(wait),
           RecordTransition(w, r, s, wait)
    PROVE  IInv'
<1>1. live.owner[r] = w
  BY GatewayConstants DEF RecordTransition, MayRecord, IInv, Sound
<1> QED
  BY <1>1, LifecycleStep DEF RecordTransition, MayRecord

\* An end is asked for, and journalled, as such.
LEMMA TerminalRequested ==
    ASSUME NEW s \in TerminalStates
    PROVE  s \in RequestedStates /\ EventState(s) = s /\ "none" \in OptWaits
BY DEF TerminalStates, RequestedStates, WorkStates, EventState, OptWaits

\* finish_child_work keeps it.
LEMMA FinishChildStep ==
    ASSUME IInv, NEW w \in Works, NEW r \in Runs, NEW s \in TerminalStates,
           FinishChildWork(w, r, s)
    PROVE  IInv'
<1>1. /\ live.owner[r] \in {w, NoWork} /\ replay.owner[r] \in {w, NoWork}
      /\ ValidRunTransition(live, w, r, s) /\ AppendTransition(w, r, s, "none")
  BY DEF FinishChildWork, MayFinish, MayName
<1> QED
  BY <1>1, TerminalRequested, LifecycleStep

\* record_pending_approval_for_run keeps it.
LEMMA RequestStep ==
    ASSUME IInv, NEW w \in Works, NEW r \in Runs, NEW t \in Tickets,
           RecordPendingApproval(w, r, t)
    PROVE  IInv'
<1> DEFINE l == AddPending(live, t, r)
           p == AddPending(replay, t, r)
           e == IF replay.run[r] = "waiting_approval" /\ PendingOf(replay, r) = {}
                THEN "none" ELSE "approval"
<1>1. live \in Projection /\ replay \in Projection /\ Sound(live) /\ Sound(replay)
  BY DEF IInv, TypeOK
<1>2. /\ live.current[w] = r /\ live.run[r] = "waiting_approval"
      /\ PendingOfWork(live, w) = {} /\ AppendEvent(w, l, p, e)
  BY DEF RecordPendingApproval, MayRequest
<1>3. live.owner[r] = w
  BY <1>1, <1>2, GatewayConstants DEF Sound
<1>4. /\ l \in Projection
      /\ l.works = live.works /\ l.parent = live.parent /\ l.address = live.address
      /\ l.current = live.current /\ l.owner = live.owner /\ l.run = live.run
      /\ l.effect = live.effect /\ l.shown = live.shown /\ l.wait = live.wait
      /\ l.pending = live.pending \cup {<<t, r>>}
  BY <1>1, AddPendingFields
<1>5. /\ p \in Projection
      /\ p.works = replay.works /\ p.parent = replay.parent /\ p.address = replay.address
      /\ p.current = replay.current /\ p.owner = replay.owner /\ p.run = replay.run
      /\ p.effect = replay.effect /\ p.shown = replay.shown /\ p.wait = replay.wait
      /\ p.pending = replay.pending \cup {<<t, r>>}
  BY <1>1, AddPendingFields
<1>6. Sound(l)
  BY <1>1, <1>2, <1>3, SoundAddPending
<1>7. ASSUME Agrees(live, replay, steered)
      PROVE  e = "none" /\ Sound(p) /\ Agrees(l, p, steered)
  <2>1. ASSUME NEW q \in Runs, live.run[q] = "waiting_approval"
        PROVE  replay.run[q] = "waiting_approval" /\ replay.owner[q] = live.owner[q]
    BY <1>7, <2>1 DEF Agrees, RunReadsAs, ReadsAs, SteeredReadsAs
  <2>2. replay.pending = live.pending /\ \A a \in live.pending : a[2] \in Runs
    BY <1>1, <1>7 DEF Agrees, Projection
  <2>3. PendingOfWork(replay, w) = {} /\ PendingOf(replay, r) = {}
    <3>1. \A a \in live.pending : replay.owner[a[2]] = live.owner[a[2]]
      BY <1>1, <2>1, <2>2 DEF Sound
    <3> QED
      BY <1>2, <1>3, <2>2, <3>1 DEF PendingOfWork, PendingOf
  <2>4. Sound(p)
    BY <1>1, <1>2, <1>3, <2>1, <2>3, SoundAddPending
  <2>5. Agrees(l, p, steered)
    BY <1>4, <1>5, <1>7 DEF Agrees, RunReadsAs, WorkReadsAs, WaitReadsAs
  <2> QED
    BY <1>2, <2>1, <2>3, <2>4, <2>5
<1> HIDE DEF l, p, e
<1> QED
  BY <1>2, <1>4, <1>5, <1>6, <1>7, PlainAppendStep DEF Explains

\* The first row of resolve_pending_approval_for_run keeps it.
LEMMA ResolveStep ==
    ASSUME IInv, NEW w \in Works, NEW r \in Runs, NEW t \in Tickets, NEW approved \in BOOLEAN,
           ResolvePendingApproval(w, r, t, approved)
    PROVE  IInv'
<1> DEFINE l == DropPending(live, t, r)
           p == DropPending(replay, t, r)
           e == IF <<t, r>> \in replay.pending /\ replay.run[r] # "waiting_approval"
                THEN "approval" ELSE "none"
           next == IF approved THEN "running" ELSE "failed"
<1>1. live \in Projection /\ replay \in Projection /\ Sound(live) /\ Sound(replay)
  BY DEF IInv, TypeOK
<1>2. /\ live.run[r] = "waiting_approval" /\ AppendRow(w, l, p, e)
      /\ resolving' = IF unacked' THEN NotResolving ELSE [run |-> r, next |-> next]
      /\ UNCHANGED steered
  BY DEF ResolvePendingApproval, MayResolve
<1>3. /\ l \in Projection
      /\ l.works = live.works /\ l.parent = live.parent /\ l.address = live.address
      /\ l.current = live.current /\ l.owner = live.owner /\ l.run = live.run
      /\ l.effect = live.effect /\ l.shown = live.shown /\ l.wait = live.wait
      /\ l.pending = live.pending \ {<<t, r>>}
  BY <1>1, DropPendingFields
<1>4. /\ p \in Projection
      /\ p.works = replay.works /\ p.parent = replay.parent /\ p.address = replay.address
      /\ p.current = replay.current /\ p.owner = replay.owner /\ p.run = replay.run
      /\ p.effect = replay.effect /\ p.shown = replay.shown /\ p.wait = replay.wait
      /\ p.pending = replay.pending \ {<<t, r>>}
  BY <1>1, DropPendingFields
<1>5. next \in {"running", "failed"}
  OBVIOUS
<1>6. Agrees(live, replay, steered) => e = "none"
  BY <1>2 DEF Agrees, RunReadsAs, ReadsAs, SteeredReadsAs
<1> HIDE DEF l, p, e, next
<1>7. Sound(l) /\ Sound(p)
  BY <1>1, <1>3, <1>4, SoundSame
<1>8. Agrees(live, replay, steered) => Agrees(l, p, steered')
  BY <1>2, <1>3, <1>4 DEF Agrees, RunReadsAs, WorkReadsAs, WaitReadsAs
<1>9. /\ resolving' \in [run : Runs \cup {NoRun}, next : {"none", "running", "failed"}]
      /\ ResolvingKnown'
  BY <1>2, <1>5 DEF ResolvingKnown, NotResolving
<1>10. steered \subseteq steered' /\ steered' \subseteq Works \X Runs
  BY <1>2 DEF IInv, TypeOK
<1>11. Agrees(live, replay, steered) => Explains(e, replay, steered)
  BY <1>6 DEF Explains
<1> QED
  BY <1>2, <1>3, <1>4, <1>7, <1>8, <1>9, <1>10, <1>11, AppendStep

\* The second row of a resolution keeps it.
LEMMA FinishStep ==
    ASSUME IInv, FinishResolution
    PROVE  IInv'
<1> DEFINE r == resolving.run
           w == live.owner[r]
           s == resolving.next
           l == SetRun(live, w, r, s, "none")
           p == SetRun(replay, w, r, s, "none")
           e == RunError(replay, w, r, s)
<1>1. live \in Projection /\ replay \in Projection /\ Sound(live) /\ Sound(replay)
  BY DEF IInv, TypeOK
<1>2. /\ up /\ resolving # NotResolving /\ w \in live.works /\ live.current[w] = r
      /\ ValidRunTransition(live, w, r, s) /\ Durable(p, KnownWork(w, e))
      /\ Acknowledge(l) /\ resolving' = NotResolving /\ UNCHANGED <<up, steered>>
  BY DEF FinishResolution
<1>3. r \in Runs /\ s \in WorkStates /\ ReadsAs(s, s) /\ "none" \in OptWaits
  BY <1>2 DEF IInv, ResolvingKnown, WorkStates, TerminalStates, ReadsAs, OptWaits
<1>4. w \in Works /\ live.owner[r] = w
  BY <1>1, <1>2 DEF Projection
<1> HIDE DEF r, s, w, e
<1>5. l \in Projection
  BY <1>1, <1>3, <1>4, SetRunFields
<1>6. Sound(l)
  <2>1. s = "waiting_approval" \/ PendingOf(live, r) = {}
    BY <1>1, <1>2, <1>3, <1>4, AllowedLeavesNoRequest
  <2> QED
    BY <1>1, <1>3, <1>4, <2>1, SoundSetRun
<1>7. Agrees(live, replay, steered) => KnownWork(w, e) = e /\ Explains(e, replay, steered)
  <2>1. Agrees(live, replay, steered) => KnownWork(w, e) = e
    BY <1>2 DEF KnownWork, Agrees
  <2>2. Agrees(live, replay, steered) => Explains(e, replay, steered)
    BY <1>1, <1>2, <1>3, <1>4, ReaderAllows DEF e
  <2> QED
    BY <2>1, <2>2
<1>8. ASSUME Agrees(live, replay, steered), e = "none"
      PROVE  p \in Projection /\ Sound(p) /\ Agrees(l, p, steered)
  <2>1. replay.owner[r] = w
    BY <1>3, <1>4, <1>8, GatewayConstants DEF Agrees, RunReadsAs
  <2>2. ValidRunTransition(replay, w, r, s)
    BY <1>8 DEF e, RunError, ValidRunTransition
  <2>3. s = "waiting_approval" \/ PendingOf(replay, r) = {}
    BY <1>1, <1>3, <1>4, <2>2, AllowedLeavesNoRequest
  <2>4. p \in Projection
    BY <1>1, <1>3, <1>4, SetRunFields
  <2>5. Sound(p)
    BY <1>1, <1>3, <1>4, <2>1, <2>3, SoundSetRun
  <2>6. Agrees(l, p, steered)
    BY <1>1, <1>3, <1>4, <1>8, AgreesSetRun
  <2> QED
    BY <2>4, <2>5, <2>6
<1> HIDE DEF l, p
<1>9. /\ Explains(err', replay, steered)
      /\ err' = "none" => /\ err = "none" /\ ~unacked /\ Agrees(live, replay, steered)
                         /\ KnownWork(w, e) = "none" /\ replay' = p
      /\ err' # "none" => replay' = replay
  BY <1>2, <1>7, DurableOutcome
<1>10. (live' = l /\ unacked' = FALSE) \/ (live' = live /\ unacked' = TRUE)
  BY <1>2 DEF Acknowledge
<1>11. /\ resolving' \in [run : Runs \cup {NoRun}, next : {"none", "running", "failed"}]
       /\ ResolvingKnown' /\ steered' = steered /\ steered \subseteq Works \X Runs
  BY <1>2 DEF ResolvingKnown, NotResolving, IInv, TypeOK
<1> QED
  BY <1>2, <1>5, <1>6, <1>7, <1>8, <1>9, <1>10, <1>11, RowStep

\* Every effect row keeps it.
LEMMA EffectStep ==
    ASSUME IInv, NEW w \in Works, NEW e \in Effects, NEW s \in EffectStates, NEW why,
           AppendEvent(w, SetEffect(live, w, e, s), SetEffect(replay, w, e, s), why),
           replay.effect = live.effect => why = "none"
    PROVE  IInv'
<1> DEFINE l == SetEffect(live, w, e, s)
           p == SetEffect(replay, w, e, s)
<1>1. live \in Projection /\ replay \in Projection /\ Sound(live) /\ Sound(replay)
  BY DEF IInv, TypeOK
<1>2. /\ l \in Projection
      /\ l.works = live.works /\ l.parent = live.parent /\ l.address = live.address
      /\ l.current = live.current /\ l.owner = live.owner /\ l.run = live.run
      /\ l.pending = live.pending /\ l.shown = live.shown /\ l.wait = live.wait
      /\ l.effect = [live.effect EXCEPT ![w][e] = s]
  BY <1>1, SetEffectFields
<1>3. /\ p \in Projection
      /\ p.works = replay.works /\ p.parent = replay.parent /\ p.address = replay.address
      /\ p.current = replay.current /\ p.owner = replay.owner /\ p.run = replay.run
      /\ p.pending = replay.pending /\ p.shown = replay.shown /\ p.wait = replay.wait
      /\ p.effect = [replay.effect EXCEPT ![w][e] = s]
  BY <1>1, SetEffectFields
<1>4. AppendEvent(w, l, p, why)
  OBVIOUS
<1> HIDE DEF l, p
<1>5. Sound(l) /\ Sound(p)
  BY <1>1, <1>2, <1>3, SoundSame
<1>6. Agrees(live, replay, steered) => why = "none" /\ Agrees(l, p, steered)
  BY <1>2, <1>3 DEF Agrees, RunReadsAs, WorkReadsAs, WaitReadsAs
<1> QED
  BY <1>2, <1>3, <1>4, <1>5, <1>6, PlainAppendStep DEF Explains

\* apply_steering_checkpoint keeps it: only the reader has moved.
LEMMA SteerStep ==
    ASSUME IInv, NEW w \in Works, NEW r \in Runs, ApplySteeringCheckpoint(w, r)
    PROVE  IInv'
<1> DEFINE p == SetRun(replay, w, r, "checkpointed", "none")
           e == RunError(replay, w, r, "checkpointed")
<1>1. live \in Projection /\ replay \in Projection /\ Sound(live) /\ Sound(replay)
  BY DEF IInv, TypeOK
<1>2. /\ live.owner[r] \in {w, NoWork} /\ replay.owner[r] \in {w, NoWork}
      /\ ValidRunTransition(live, w, r, "checkpointed")
      /\ AppendRow(w, live, p, e)
      /\ steered' = steered \cup {<<w, r>>} /\ UNCHANGED resolving
  BY DEF ApplySteeringCheckpoint, MaySteer, MayName
<1>3. "checkpointed" \in WorkStates /\ "none" \in OptWaits
  BY DEF WorkStates, OptWaits
<1>4. Agrees(live, replay, steered) => Explains(e, replay, steered)
  BY <1>1, <1>2, <1>3, ReaderAllows
<1>5. ASSUME Agrees(live, replay, steered), e = "none"
      PROVE  p \in Projection /\ Sound(p) /\ Agrees(live, p, steered')
  <2>1. ValidRunTransition(replay, w, r, "checkpointed")
    BY <1>5 DEF RunError, ValidRunTransition
  <2>2. PendingOf(replay, r) = {}
    BY <1>1, <1>3, <2>1, AllowedLeavesNoRequest
  <2>3. p \in Projection
    BY <1>1, <1>3, SetRunFields
  <2>4. Sound(p)
    BY <1>1, <1>2, <1>3, <2>2, SoundSetRun
  <2>5. SteeredReadsAs(live.run[r], "checkpointed")
    BY <1>2 DEF ValidRunTransition, EdgeAllowed, CanTransition, SteeredReadsAs, TerminalStates,
                WaitingStates
  <2>6. Agrees(live, p, steered')
    BY <1>1, <1>2, <1>3, <1>5, <2>5, AgreesSteered
  <2> QED
    BY <2>3, <2>4, <2>6
<1> HIDE DEF p, e
<1>6. /\ resolving' \in [run : Runs \cup {NoRun}, next : {"none", "running", "failed"}]
      /\ ResolvingKnown' /\ steered \subseteq steered' /\ steered' \subseteq Works \X Runs
  BY <1>2 DEF IInv, TypeOK, ResolvingKnown
<1> QED
  BY <1>1, <1>2, <1>4, <1>5, <1>6, AppendStep

-----------------------------------------------------------------------------
(* The inductive invariant.                                                *)

\* The projection of an empty journal.
LEMMA EmptyIsSound == EmptyProjection \in Projection /\ Sound(EmptyProjection)
<1>1. "none" \in OptStates /\ "none" \in OptWaits /\ "absent" \in EffectStates
  BY DEF OptStates, OptWaits, EffectStates
<1>2. EmptyProjection \in Projection
  BY <1>1 DEF EmptyProjection, Projection
<1>3. Sound(EmptyProjection)
  BY DEF EmptyProjection, Sound
<1> QED
  BY <1>2, <1>3

\* The invariant holds of a fresh gateway.
LEMMA InitIInv == Init => IInv
<1> SUFFICES ASSUME Init PROVE IInv
  OBVIOUS
<1>1. TypeOK
  BY EmptyIsSound DEF Init, TypeOK, NotResolving
<1>2. Sound(live) /\ Sound(replay)
  BY EmptyIsSound DEF Init
<1>3. ReplayAgrees
  BY DEF Init, ReplayAgrees, Agrees, RunReadsAs, ReadsAs, WorkReadsAs, WaitReadsAs
<1> QED
  BY <1>1, <1>2, <1>3 DEF Init, IInv, ResolvingKnown, RefusalCauses

\* Crash, torn write and reopening keep the invariant.
LEMMA CrashOpenStep ==
    ASSUME IInv, Crash \/ TornWrite \/ AbandonResolution \/ Open \/ OpenRefused
    PROVE  IInv'
<1>1. CASE Crash
  <2>1. TypeOK'
    BY <1>1, EmptyIsSound DEF Crash, IInv, TypeOK, NotResolving
  <2>2. Sound(live)' /\ Sound(replay)'
    BY <1>1, EmptyIsSound DEF Crash, IInv, Sound
  <2> QED
    BY <1>1, <2>1, <2>2 DEF Crash, IInv, ResolvingKnown, RefusalCauses, ReplayAgrees
<1>2. CASE TornWrite
  <2>1. TypeOK'
    BY <1>2, EmptyIsSound DEF TornWrite, IInv, TypeOK, NotResolving
  <2>2. Sound(live)' /\ Sound(replay)'
    BY <1>2, EmptyIsSound DEF TornWrite, IInv, Sound
  <2> QED
    BY <1>2, <2>1, <2>2 DEF TornWrite, IInv, ResolvingKnown, RefusalCauses, ReplayAgrees
<1>3. CASE AbandonResolution
  BY <1>3 DEF AbandonResolution, IInv, TypeOK, Sound, NotResolving, ResolvingKnown,
              RefusalCauses, ReplayAgrees, Agrees, RunReadsAs, WorkReadsAs, WaitReadsAs
<1>4. CASE Open
  <2>1. TypeOK' /\ Sound(live)' /\ Sound(replay)'
    BY <1>4 DEF Open, IInv, TypeOK, Sound
  <2>2. ReplayAgrees'
    BY <1>4 DEF Open, ReplayAgrees, Agrees, RunReadsAs, ReadsAs, WorkReadsAs, WaitReadsAs
  <2> QED
    BY <1>4, <2>1, <2>2 DEF Open, IInv, ResolvingKnown, RefusalCauses
<1>5. CASE OpenRefused
  BY <1>5 DEF OpenRefused, gatewayVars, IInv, TypeOK, Sound, ResolvingKnown,
              RefusalCauses, ReplayAgrees, Agrees, RunReadsAs, WorkReadsAs, WaitReadsAs
<1> QED
  BY <1>1, <1>2, <1>3, <1>4, <1>5

\* The states a wait parks a Run in are among those callers ask for.
LEMMA WaitStateRequested ==
    ASSUME NEW reason \in WaitReasons
    PROVE  WaitState(reason) \in RequestedStates /\ reason \in OptWaits
BY DEF WaitState, WaitReasons, OptWaits, RequestedStates, WorkStates, WaitingStates

\* Every step keeps the invariant.
LEMMA NextIInv == IInv /\ [Next]_gatewayVars => IInv'
<1> SUFFICES ASSUME IInv, [Next]_gatewayVars PROVE IInv'
  OBVIOUS
<1>1. CASE WorkOps
  <2>1. PICK w \in Works : \/ CreateWork(w)
                          \/ \E p \in Works : CreateChildWork(w, p)
                          \/ ArchiveWork(w)
    BY <1>1 DEF WorkOps
  <2>2. CASE CreateWork(w)
    BY <2>2, CreatedStep DEF CreateWork
  <2>3. CASE \E p \in Works : CreateChildWork(w, p)
    BY <2>3, CreatedStep DEF CreateChildWork
  <2>4. CASE ArchiveWork(w)
    BY <2>4, ArchiveStep
  <2> QED
    BY <2>1, <2>2, <2>3, <2>4
<1>2. CASE RunOps
  <2>1. PICK w \in Works, r \in Runs :
           \/ BindExecution(w, r)
           \/ \E s \in RequestedStates : RecordExecutionTransition(w, r, s)
           \/ \E reason \in WaitReasons : RecordWait(w, r, reason)
           \/ \E s \in TerminalStates : FinishChildWork(w, r, s)
           \/ ApplySteeringCheckpoint(w, r)
    BY <1>2 DEF RunOps
  <2>2. CASE BindExecution(w, r)
    BY <2>2, BindStep
  <2>3. CASE \E s \in RequestedStates : RecordExecutionTransition(w, r, s)
    <3>1. "none" \in OptWaits
      BY DEF OptWaits
    <3> QED
      BY <2>3, <3>1, TransitionStep DEF RecordExecutionTransition
  <2>4. CASE \E reason \in WaitReasons : RecordWait(w, r, reason)
    BY <2>4, TransitionStep, WaitStateRequested DEF RecordWait
  <2>5. CASE ApplySteeringCheckpoint(w, r)
    BY <2>5, SteerStep
  <2>6. CASE \E s \in TerminalStates : FinishChildWork(w, r, s)
    BY <2>6, FinishChildStep
  <2> QED
    BY <2>1, <2>2, <2>3, <2>4, <2>5, <2>6
<1>3. CASE ApprovalOps
  <2>1. CASE \E w \in Works, r \in Runs, t \in Tickets : RecordPendingApproval(w, r, t)
    BY <2>1, RequestStep
  <2>2. CASE \E w \in Works, r \in Runs, t \in Tickets : \E approved \in BOOLEAN :
               ResolvePendingApproval(w, r, t, approved)
    BY <2>2, ResolveStep
  <2>3. CASE FinishResolution
    BY <2>3, FinishStep
  <2>4. CASE AbandonResolution
    BY <2>4, CrashOpenStep
  <2> QED
    BY <1>3, <2>1, <2>2, <2>3, <2>4 DEF ApprovalOps
<1>4. CASE EffectOps
  <2>1. PICK w \in Works, e \in Effects :
           \/ RecordEffectAttempted(w, e)
           \/ \E certain \in BOOLEAN : RecordEffectObserved(w, e, certain)
           \/ \E verified \in BOOLEAN : RecordEffectVerified(w, e, verified)
           \/ RecordUncertainEffect(w, e)
           \/ \E retrySafe \in BOOLEAN : ReconcileUncertainEffect(w, e, retrySafe)
    BY <1>4 DEF EffectOps
  <2>2. CASE RecordEffectAttempted(w, e)
    BY <2>2, EffectStep DEF RecordEffectAttempted, EffectStates
  <2>3. CASE \E certain \in BOOLEAN : RecordEffectObserved(w, e, certain)
    BY <2>3, EffectStep DEF RecordEffectObserved, EffectError, EffectStates
  <2>4. CASE \E verified \in BOOLEAN : RecordEffectVerified(w, e, verified)
    BY <2>4, EffectStep DEF RecordEffectVerified, EffectError, EffectStates
  <2>5. CASE RecordUncertainEffect(w, e)
    BY <2>5, EffectStep DEF RecordUncertainEffect, EffectError, EffectStates
  <2>6. CASE \E retrySafe \in BOOLEAN : ReconcileUncertainEffect(w, e, retrySafe)
    BY <2>6, EffectStep DEF ReconcileUncertainEffect, EffectStates
  <2> QED
    BY <2>1, <2>2, <2>3, <2>4, <2>5, <2>6
<1>5. CASE Crash \/ TornWrite \/ Open \/ OpenRefused
  BY <1>5, CrashOpenStep
<1>6. CASE UNCHANGED gatewayVars
  BY <1>6 DEF gatewayVars, IInv, TypeOK, Sound, ResolvingKnown, RefusalCauses,
              ReplayAgrees, Agrees, RunReadsAs, WorkReadsAs, WaitReadsAs
<1> QED
  BY <1>1, <1>2, <1>3, <1>4, <1>5, <1>6 DEF Next

\* Every reachable state of the gateway satisfies the inductive invariant.
THEOREM Invariant == Spec => []IInv
BY InitIInv, NextIInv, PTL DEF Spec

\* The state of the gateway is well typed, whatever the ids and the disk.
THEOREM TypeCorrect == Spec => []TypeOK
<1>1. IInv => TypeOK
  BY DEF IInv
<1> QED
  BY <1>1, Invariant, PTL

\* A pending approval always gates its Run and is the only one of its Work.
THEOREM ApprovalGates == Spec => []PendingGate
<1>1. IInv => PendingGate
  BY DEF IInv, Sound, PendingGate
<1> QED
  BY <1>1, Invariant, PTL

\* No acknowledged row is refused by replay but for the four causes: an end without
\* a start, a reused sequence number, a torn row, and a steered Run.
THEOREM AcknowledgedRowsReplay == Spec => []RefusalCauses
<1>1. IInv => RefusalCauses
  BY DEF IInv
<1> QED
  BY <1>1, Invariant, PTL

\* What a restart rebuilds agrees with what was acknowledged, but for a steered
\* Run and its Work, whose difference is bounded.
THEOREM RestartLosesNothing == Spec => []ReplayAgrees
<1>1. IInv => ReplayAgrees
  BY DEF IInv
<1> QED
  BY <1>1, Invariant, PTL

-----------------------------------------------------------------------------
(* Terminal outcomes.                                                      *)

\* The projections an appending step can leave.
LEMMA AppendOutcome ==
    ASSUME NEW w, NEW l, NEW p, NEW e, AppendRow(w, l, p, e)
    PROVE  /\ up
           /\ live' = live \/ live' = l
           /\ replay' = replay \/ (replay' = p /\ e = "none" /\ err = "none" /\ ~unacked)
<1>1. replay' = replay \/ (replay' = p /\ KnownWork(w, e) = "none" /\ err = "none" /\ ~unacked)
  BY DEF AppendRow, Durable
<1>2. KnownWork(w, e) = "none" => e = "none"
  BY DEF KnownWork
<1> QED
  BY <1>1, <1>2 DEF AppendRow, Acknowledge

\* q keeps the terminal outcomes of p.
KeepsOutcomes(p, q) ==
    \A r \in Runs : p.run[r] \in TerminalStates => q.run[r] = p.run[r]

\* A transition the checks allow does not leave a terminal state.
LEMMA AllowedKeepsOutcomes ==
    ASSUME NEW p \in Projection, NEW w \in Works, NEW r \in Runs, NEW s \in WorkStates,
           NEW wait \in OptWaits, ValidRunTransition(p, w, r, s)
    PROVE  KeepsOutcomes(p, SetRun(p, w, r, s, wait))
<1> DEFINE q == SetRun(p, w, r, s, wait)
<1>1. /\ q \in Projection
      /\ q.works = p.works /\ q.parent = p.parent
      /\ q.address = [p.address EXCEPT ![w] = r]
      /\ q.current = [p.current EXCEPT ![w] = r]
      /\ q.owner = [p.owner EXCEPT ![r] = w]
      /\ q.run = [p.run EXCEPT ![r] = s]
      /\ q.pending = p.pending /\ q.effect = p.effect
  BY SetRunFields
<1>2. p.run[r] \in TerminalStates => s = p.run[r]
  BY DEF ValidRunTransition, EdgeAllowed, CanTransition, TerminalStates, WaitingStates
<1>3. p.run \in [Runs -> OptStates]
  BY DEF Projection
<1> HIDE DEF q
<1> QED
  BY <1>1, <1>2, <1>3 DEF KeepsOutcomes, q

\* What replay accepts is a transition the checks allow.
LEMMA NoErrorIsValid ==
    ASSUME NEW p, NEW w, NEW r, NEW s, RunError(p, w, r, s) = "none"
    PROVE  ValidRunTransition(p, w, r, s)
BY DEF RunError, ValidRunTransition

\* A step keeps the outcomes in the journal and, while it runs, in memory.
LEMMA StepKeepsOutcomes ==
    ASSUME IInv, Next
    PROVE  KeepsOutcomes(replay, replay') /\ (up /\ up' => KeepsOutcomes(live, live'))
<1>1. live \in Projection /\ replay \in Projection
  BY DEF IInv, TypeOK
<1>2. KeepsOutcomes(live, live) /\ KeepsOutcomes(replay, replay)
  BY DEF KeepsOutcomes
<1>3. CASE WorkOps
  <2>1. PICK w \in Works : \/ CreateWork(w)
                          \/ \E p \in Works : CreateChildWork(w, p)
                          \/ ArchiveWork(w)
    BY <1>3 DEF WorkOps
  <2>2. ASSUME NEW parent \in Works \cup {NoWork}, AppendCreated(w, parent)
        PROVE  KeepsOutcomes(replay, replay') /\ KeepsOutcomes(live, live')
    <3>1. /\ live' = live \/ live' = AddWork(live, w, parent)
          /\ replay' = replay \/ replay' = AddWork(replay, w, parent)
      BY <2>2 DEF AppendCreated, Durable, Acknowledge
    <3>2. live'.run = live.run /\ replay'.run = replay.run
      BY <1>1, <3>1 DEF AddWork, Projection
    <3> QED
      BY <3>2 DEF KeepsOutcomes
  <2>3. CASE ArchiveWork(w)
    <3>1. /\ live' = live \/ live' = DropWork(live, w)
          /\ replay' = replay \/ replay' = DropWork(replay, w)
      BY <2>3, AppendOutcome DEF ArchiveWork, AppendEvent
    <3>2. live'.run = live.run /\ replay'.run = replay.run
      BY <1>1, <3>1 DEF DropWork, Projection
    <3> QED
      BY <3>2 DEF KeepsOutcomes
  <2> QED
    BY <2>1, <2>2, <2>3 DEF CreateWork, CreateChildWork
<1>4. ASSUME NEW w \in Works, NEW r \in Runs, BindExecution(w, r)
      PROVE  KeepsOutcomes(replay, replay') /\ KeepsOutcomes(live, live')
  <2> DEFINE n == NoteRun(live, w, r)
             l == [n EXCEPT !.run[r] = IF @ = "none" THEN "ready" ELSE @]
  <2>1. /\ live' = live \/ live' = l
        /\ replay' = replay \/ replay' = NoteRun(replay, w, r)
    BY <1>4, AppendOutcome DEF BindExecution, AppendEvent
  <2>2. n \in Projection /\ n.run = live.run /\ NoteRun(replay, w, r).run = replay.run
    <3>1. n \in Projection
      BY <1>1, NoteRunFields
    <3>2. n.run = live.run /\ NoteRun(replay, w, r).run = replay.run
      BY <1>1 DEF NoteRun, Projection
    <3> QED
      BY <3>1, <3>2
  <2> HIDE DEF n
  <2>3. l.run = [n.run EXCEPT ![r] = IF @ = "none" THEN "ready" ELSE @]
    BY <2>2 DEF Projection
  <2>4. n.run \in [Runs -> OptStates]
    BY <2>2 DEF Projection
  <2> HIDE DEF l
  <2> QED
    BY <2>1, <2>2, <2>3, <2>4 DEF KeepsOutcomes, TerminalStates
<1>5. ASSUME NEW w \in Works, NEW r \in Runs, NEW s \in RequestedStates,
             NEW wait \in OptWaits, ValidRunTransition(live, w, r, s),
             AppendTransition(w, r, s, wait)
      PROVE  KeepsOutcomes(replay, replay') /\ KeepsOutcomes(live, live')
  <2> DEFINE t == EventState(s)
             y == EventWait(s, wait)
             m == SetRun(live, w, r, s, wait)
             p == SetRun(replay, w, r, t, y)
  <2>1. /\ ValidRunTransition(live, w, r, s)
        /\ live' = live \/ live' = m \/ live' = NoteRun(live, w, r)
        /\ replay' = replay \/ (replay' = p /\ RunError(replay, w, r, t) = "none")
    BY <1>5, AppendOutcome DEF AppendTransition, AppendEvent
  <2>2. s \in WorkStates /\ t \in WorkStates /\ y \in OptWaits
    BY EventStateReads DEF EventWait, OptWaits
  <2> HIDE DEF t, y
  <2>3. KeepsOutcomes(live, m)
    BY <1>1, <2>1, <2>2, AllowedKeepsOutcomes
  <2>4. RunError(replay, w, r, t) = "none" => KeepsOutcomes(replay, p)
    BY <1>1, <2>2, NoErrorIsValid, AllowedKeepsOutcomes
  <2>5. NoteRun(live, w, r).run = live.run
    BY <1>1, NoteRunFields
  <2>6. KeepsOutcomes(live, NoteRun(live, w, r))
    BY <2>5 DEF KeepsOutcomes
  <2> HIDE DEF m, p
  <2> QED
    BY <1>2, <2>1, <2>3, <2>4, <2>6
<1>6. CASE RunOps
  <2>1. "none" \in OptWaits
    BY DEF OptWaits
  <2>2. ASSUME NEW w \in Works, NEW r \in Runs, ApplySteeringCheckpoint(w, r)
        PROVE  KeepsOutcomes(replay, replay') /\ KeepsOutcomes(live, live')
    <3> DEFINE p == SetRun(replay, w, r, "checkpointed", "none")
    <3>1. /\ live' = live
          /\ replay' = replay \/ (replay' = p /\ RunError(replay, w, r, "checkpointed") = "none")
      BY <2>2, AppendOutcome DEF ApplySteeringCheckpoint
    <3>2. "checkpointed" \in WorkStates
      BY DEF WorkStates
    <3>3. RunError(replay, w, r, "checkpointed") = "none" => KeepsOutcomes(replay, p)
      BY <1>1, <2>1, <3>2, NoErrorIsValid, AllowedKeepsOutcomes
    <3> HIDE DEF p
    <3> QED
      BY <1>2, <3>1, <3>3
  <2> QED
    BY <1>4, <1>5, <1>6, <2>1, <2>2, WaitStateRequested, TerminalRequested
       DEF RunOps, RecordExecutionTransition, RecordWait, RecordTransition, MayRecord,
           FinishChildWork, MayFinish
<1>7. ASSUME FinishResolution
      PROVE  KeepsOutcomes(replay, replay') /\ KeepsOutcomes(live, live')
  <2> DEFINE r == resolving.run
             w == live.owner[r]
             s == resolving.next
             l == SetRun(live, w, r, s, "none")
             p == SetRun(replay, w, r, s, "none")
  <2>1. /\ resolving # NotResolving /\ w \in live.works /\ ValidRunTransition(live, w, r, s)
        /\ live' = live \/ live' = l
        /\ replay' = replay \/ (replay' = p /\ RunError(replay, w, r, s) = "none")
    BY <1>7 DEF FinishResolution, Durable, Acknowledge, KnownWork
  <2>2. /\ r \in Runs /\ w \in Works /\ s \in WorkStates /\ "none" \in OptWaits
    BY <1>1, <2>1 DEF IInv, ResolvingKnown, Projection, WorkStates, TerminalStates, OptWaits
  <2> HIDE DEF r, w, s
  <2>3. KeepsOutcomes(live, l)
    BY <1>1, <2>1, <2>2, AllowedKeepsOutcomes
  <2>4. RunError(replay, w, r, s) = "none" => KeepsOutcomes(replay, p)
    BY <1>1, <2>2, NoErrorIsValid, AllowedKeepsOutcomes
  <2> HIDE DEF l, p
  <2> QED
    BY <1>2, <2>1, <2>3, <2>4
<1>8. ASSUME NEW w \in Works, NEW r \in Runs, NEW t \in Tickets, NEW e,
             NEW l, NEW p, AppendRow(w, l, p, e),
             l \in {AddPending(live, t, r), DropPending(live, t, r)},
             p \in {AddPending(replay, t, r), DropPending(replay, t, r)}
      PROVE  KeepsOutcomes(replay, replay') /\ KeepsOutcomes(live, live')
  <2>1. (live' = live \/ live' = l) /\ (replay' = replay \/ replay' = p)
    BY <1>8, AppendOutcome
  <2>2. l.run = live.run /\ p.run = replay.run
    BY <1>1, <1>8, AddPendingFields, DropPendingFields
  <2> QED
    BY <2>1, <2>2 DEF KeepsOutcomes
<1>9. CASE ApprovalOps
  <2>1. ASSUME NEW w \in Works, NEW r \in Runs, NEW t \in Tickets, RecordPendingApproval(w, r, t)
        PROVE  KeepsOutcomes(replay, replay') /\ KeepsOutcomes(live, live')
    BY <1>8, <2>1 DEF RecordPendingApproval, AppendEvent
  <2>2. ASSUME NEW w \in Works, NEW r \in Runs, NEW t \in Tickets, NEW approved \in BOOLEAN,
               ResolvePendingApproval(w, r, t, approved)
        PROVE  KeepsOutcomes(replay, replay') /\ KeepsOutcomes(live, live')
    BY <1>8, <2>2 DEF ResolvePendingApproval
  <2>3. CASE AbandonResolution
    BY <1>2, <2>3 DEF AbandonResolution
  <2> QED
    BY <1>7, <1>9, <2>1, <2>2, <2>3 DEF ApprovalOps
<1>10. ASSUME NEW w \in Works, NEW e \in Effects, NEW s \in EffectStates, NEW why,
              AppendEvent(w, SetEffect(live, w, e, s), SetEffect(replay, w, e, s), why)
       PROVE  KeepsOutcomes(replay, replay') /\ KeepsOutcomes(live, live')
  <2>1. /\ live' = live \/ live' = SetEffect(live, w, e, s)
        /\ replay' = replay \/ replay' = SetEffect(replay, w, e, s)
    BY <1>10, AppendOutcome DEF AppendEvent
  <2>2. SetEffect(live, w, e, s).run = live.run /\ SetEffect(replay, w, e, s).run = replay.run
    BY <1>1 DEF SetEffect, Projection
  <2> QED
    BY <2>1, <2>2 DEF KeepsOutcomes
<1>11. CASE EffectOps
  BY <1>10, <1>11 DEF EffectOps, RecordEffectAttempted, RecordEffectObserved,
     RecordEffectVerified, RecordUncertainEffect, ReconcileUncertainEffect, EffectStates
<1>12. CASE Crash \/ TornWrite \/ Open \/ OpenRefused
  BY <1>2, <1>12 DEF Crash, TornWrite, Open, OpenRefused, gatewayVars
<1> QED
  BY <1>3, <1>6, <1>9, <1>11, <1>12 DEF Next

\* A terminal outcome of a Run is never taken back, in memory or on disk.
THEOREM OutcomesAreFinal == Spec => TerminalIsFinal
<1>1. IInv /\ [Next]_gatewayVars =>
        [\A r \in Runs :
            /\ replay.run[r] \in TerminalStates => replay'.run[r] = replay.run[r]
            /\ (up /\ up' /\ live.run[r] \in TerminalStates) => live'.run[r] = live.run[r]]_gatewayVars
  BY StepKeepsOutcomes DEF KeepsOutcomes
<1> QED
  BY <1>1, Invariant, PTL DEF Spec, TerminalIsFinal

-----------------------------------------------------------------------------
(* Uncertain effects.                                                      *)

\* Only a row about an effect changes an effect of the journal, and then no
\* other part of it; the row is written by an open gateway whose projection
\* shows the same effects.
LEMMA StepChangesOneEffect ==
    ASSUME IInv, Next
    PROVE  \/ replay'.effect = replay.effect
           \/ /\ up /\ live.effect = replay.effect
              /\ \E w \in Works, e \in Effects, s \in EffectStates :
                    replay' = SetEffect(replay, w, e, s)
<1>1. replay \in Projection
  BY DEF IInv, TypeOK
<1>2. CASE WorkOps
  <2>1. PICK w \in Works : \/ CreateWork(w)
                          \/ \E p \in Works : CreateChildWork(w, p)
                          \/ ArchiveWork(w)
    BY <1>2 DEF WorkOps
  <2>2. ASSUME NEW parent \in Works \cup {NoWork}, AppendCreated(w, parent)
        PROVE  replay'.effect = replay.effect
    <3>1. replay' = replay \/ replay' = AddWork(replay, w, parent)
      BY <2>2 DEF AppendCreated, Durable
    <3> QED
      BY <1>1, <3>1 DEF AddWork, Projection
  <2>3. CASE ArchiveWork(w)
    <3>1. replay' = replay \/ replay' = DropWork(replay, w)
      BY <2>3, AppendOutcome DEF ArchiveWork, AppendEvent
    <3> QED
      BY <1>1, <3>1 DEF DropWork, Projection
  <2> QED
    BY <2>1, <2>2, <2>3 DEF CreateWork, CreateChildWork
<1>3. ASSUME NEW w \in Works, NEW r \in Runs, BindExecution(w, r)
      PROVE  replay'.effect = replay.effect
  <2>1. replay' = replay \/ replay' = NoteRun(replay, w, r)
    BY <1>3, AppendOutcome DEF BindExecution, AppendEvent
  <2> QED
    BY <1>1, <2>1 DEF NoteRun, Projection
<1>4. ASSUME NEW w \in Works, NEW r \in Runs, NEW s \in RequestedStates,
             NEW wait \in OptWaits, AppendTransition(w, r, s, wait)
      PROVE  replay'.effect = replay.effect
  <2> DEFINE t == EventState(s)
             y == EventWait(s, wait)
  <2>1. replay' = replay \/ replay' = SetRun(replay, w, r, t, y)
    BY <1>4, AppendOutcome DEF AppendTransition, AppendEvent
  <2>2. t \in WorkStates /\ y \in OptWaits
    BY EventStateReads DEF EventWait, OptWaits
  <2> HIDE DEF t, y
  <2>3. SetRun(replay, w, r, t, y).effect = replay.effect
    BY <1>1 DEF SetRun, NoteRun, Projection
  <2> QED
    BY <2>1, <2>3
<1>5. CASE RunOps
  <2>1. "none" \in OptWaits
    BY DEF OptWaits
  <2>2. ASSUME NEW w \in Works, NEW r \in Runs, ApplySteeringCheckpoint(w, r)
        PROVE  replay'.effect = replay.effect
    <3>1. replay' = replay \/ replay' = SetRun(replay, w, r, "checkpointed", "none")
      BY <2>2, AppendOutcome DEF ApplySteeringCheckpoint
    <3> QED
      BY <1>1, <3>1 DEF SetRun, NoteRun, Projection
  <2> QED
    BY <1>3, <1>4, <1>5, <2>1, <2>2, WaitStateRequested, TerminalRequested
       DEF RunOps, RecordExecutionTransition, RecordWait, RecordTransition, FinishChildWork
<1>6. ASSUME NEW w \in Works, NEW r \in Runs, NEW t \in Tickets, NEW e,
             NEW l, NEW p, AppendRow(w, l, p, e),
             p \in {AddPending(replay, t, r), DropPending(replay, t, r)}
      PROVE  replay'.effect = replay.effect
  <2>1. replay' = replay \/ replay' = p
    BY <1>6, AppendOutcome
  <2> QED
    BY <1>1, <1>6, <2>1, AddPendingFields, DropPendingFields
<1>7. CASE FinishResolution
  <2> DEFINE r == resolving.run
             w == live.owner[r]
             s == resolving.next
  <2>1. /\ resolving # NotResolving /\ w \in live.works
        /\ replay' = replay \/ replay' = SetRun(replay, w, r, s, "none")
    BY <1>7 DEF FinishResolution, Durable
  <2>2. /\ r \in Runs /\ w \in Works /\ s \in WorkStates /\ "none" \in OptWaits
    BY <2>1 DEF IInv, TypeOK, ResolvingKnown, Projection, WorkStates, TerminalStates, OptWaits
  <2> HIDE DEF r, w, s
  <2>3. SetRun(replay, w, r, s, "none").effect = replay.effect
    BY <1>1 DEF SetRun, NoteRun, Projection
  <2> QED
    BY <2>1, <2>3
<1>8. CASE ApprovalOps
  <2>1. ASSUME NEW w \in Works, NEW r \in Runs, NEW t \in Tickets, RecordPendingApproval(w, r, t)
        PROVE  replay'.effect = replay.effect
    BY <1>6, <2>1 DEF RecordPendingApproval, AppendEvent
  <2>2. ASSUME NEW w \in Works, NEW r \in Runs, NEW t \in Tickets, NEW approved \in BOOLEAN,
               ResolvePendingApproval(w, r, t, approved)
        PROVE  replay'.effect = replay.effect
    BY <1>6, <2>2 DEF ResolvePendingApproval
  <2>3. CASE AbandonResolution
    BY <2>3 DEF AbandonResolution
  <2> QED
    BY <1>7, <1>8, <2>1, <2>2, <2>3 DEF ApprovalOps
<1>9. ASSUME NEW w \in Works, NEW e \in Effects, NEW s \in EffectStates, NEW why,
             AppendEvent(w, SetEffect(live, w, e, s), SetEffect(replay, w, e, s), why)
      PROVE  \/ replay' = replay
             \/ up /\ live.effect = replay.effect /\ replay' = SetEffect(replay, w, e, s)
  <2>1. /\ up
        /\ replay' = replay \/ (replay' = SetEffect(replay, w, e, s) /\ err = "none" /\ ~unacked)
    BY <1>9, AppendOutcome DEF AppendEvent
  <2> QED
    BY <2>1 DEF IInv, ReplayAgrees, Agrees
<1>10. CASE EffectOps
  BY <1>9, <1>10 DEF EffectOps, RecordEffectAttempted, RecordEffectObserved,
     RecordEffectVerified, RecordUncertainEffect, ReconcileUncertainEffect, EffectStates
<1>11. CASE Crash \/ TornWrite \/ Open \/ OpenRefused
  BY <1>11 DEF Crash, TornWrite, Open, OpenRefused, gatewayVars
<1> QED
  BY <1>2, <1>5, <1>8, <1>10, <1>11 DEF Next

\* An effect whose outcome is unknown is settled by a row about that effect,
\* which the open gateway knew to be unsettled, and by nothing else.
THEOREM UncertainEffectsStay == Spec => UncertaintyIsKept
<1>1. ASSUME IInv, Next, NEW w \in Works, NEW e \in Effects,
             RequiresReconciliation(replay.effect[w][e]),
             ~RequiresReconciliation(replay'.effect[w][e])
      PROVE  /\ up /\ live.effect[w][e] = replay.effect[w][e]
             /\ replay' = [replay EXCEPT !.effect[w][e] = replay'.effect[w][e]]
  <2>1. PICK v \in Works, d \in Effects, s \in EffectStates :
          up /\ live.effect = replay.effect /\ replay' = SetEffect(replay, v, d, s)
    BY <1>1, StepChangesOneEffect
  <2>2. replay \in Projection /\ replay.effect \in [Works -> [Effects -> EffectStates]]
    BY <1>1 DEF IInv, TypeOK, Projection
  <2>3. replay'.effect = [replay.effect EXCEPT ![v][d] = s]
    BY <2>1, <2>2, SetEffectFields
  <2>4. v = w /\ d = e /\ replay'.effect[w][e] = s
    BY <1>1, <2>2, <2>3
  <2> QED
    BY <2>1, <2>4 DEF SetEffect
<1>2. IInv /\ [Next]_gatewayVars =>
        [\A w \in Works, e \in Effects :
            (/\ RequiresReconciliation(replay.effect[w][e])
             /\ ~RequiresReconciliation(replay'.effect[w][e]))
            => /\ up /\ live.effect[w][e] = replay.effect[w][e]
               /\ replay' = [replay EXCEPT !.effect[w][e] = replay'.effect[w][e]]]_gatewayVars
  BY <1>1
<1> QED
  BY <1>2, Invariant, PTL DEF Spec, UncertaintyIsKept
=============================================================================
