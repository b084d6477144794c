-------------------------- MODULE DelegationProofs --------------------------
(***************************************************************************)
(* Proofs about delegation, for every finite set of Works and callers, all *)
(* limits, and for a disk that may fail.                                   *)
(*                                                                         *)
(* The argument: the promises of admission are counted with the children   *)
(* that exist, and a restart can only bring back children that were        *)
(* counted.  So the bound on memory needs a bound on the journal, and that *)
(* one needs Alike: while the journal can be opened and its last row was   *)
(* acknowledged, it holds the children of memory, with the same states.    *)
(***************************************************************************)
EXTENDS Delegation, WorkGatewayProofs, FiniteSetTheorems

\* Memory l and journal p hold the same children, up to what a binding does
\* not write.
Alike(l, p) ==
    /\ p.works = l.works /\ p.parent = l.parent /\ p.shown = l.shown
    /\ \A w \in Children : ReadsAs(l.run[RunOf[w]], p.run[RunOf[w]])

\* A child that shows an outcome has a Run with one.
ShownHasEnded(p) ==
    \A w \in Children : PresenceIsTerminal(p, w) => p.run[RunOf[w]] \in TerminalStates

\* What holds of memory and journal between any two rows.
JournalInv ==
    /\ TypeOK
    /\ ShownHasEnded(live) /\ ShownHasEnded(replay)
    /\ (up /\ ~unacked /\ err = "none") => Alike(live, replay)
    /\ err = "none" => Within(replay, 0)

\* A child whose Run has started, and whose journal knows it.
Started(w) ==
    /\ w \in live.works
    /\ live.run[RunOf[w]] \notin {"none", "ready"}
    /\ err = "none" => w \in replay.works /\ replay.run[RunOf[w]] # "none"

\* What holds of the callers.
CallInv ==
    /\ call \in [Callers -> [pc : {"idle", "admitted"} \cup Rows, child : Works]]
    /\ holder \in Callers \cup {Nobody}
    /\ session \in [Children -> SessionStates]
    /\ \A c \in Callers : (call[c].pc \in Rows) <=> (holder = c)
    /\ \A c \in Callers : call[c].pc # "idle" => call[c].child \in Children
    /\ holder # Nobody => up
    /\ ~up => \A c \in Callers : At(c, "idle")

SessionInv ==
    /\ \A w \in Children : session[w] # "none" => up /\ Started(w)
    /\ \A c \in Callers : At(c, "session") =>
          Started(call[c].child) /\ ~Ended(call[c].child)

DInv ==
    /\ JournalInv
    /\ CallInv
    /\ SessionInv
    /\ CapOvershoot

-----------------------------------------------------------------------------
(* Counting.                                                               *)

\* Callers and children are finitely many.
LEMMA Finite ==
    ASSUME NEW p
    PROVE  /\ IsFiniteSet(Callers) /\ Cardinality(Callers) \in Nat /\ Cardinality(Callers) >= 1
           /\ IsFiniteSet(ChildrenOf(p)) /\ Cardinality(ChildrenOf(p)) \in Nat
           /\ IsFiniteSet(Active(p)) /\ Cardinality(Active(p)) \in Nat
<1>1. IsFiniteSet(Callers) /\ IsFiniteSet(Works) /\ Callers # {}
  BY DelegationConstants
<1>2. Cardinality(Callers) \in Nat /\ Cardinality(Callers) # 0
  BY <1>1, FS_CardinalityType, FS_EmptySet
<1>3. ChildrenOf(p) \in SUBSET Works
  BY DEF ChildrenOf, Children
<1>4. Active(p) \in SUBSET Works
  BY DEF Active, ChildrenOf, Children
<1>5. IsFiniteSet(ChildrenOf(p)) /\ IsFiniteSet(Active(p))
  BY <1>1, <1>3, <1>4, FS_Subset
<1> QED
  BY <1>1, <1>2, <1>5, FS_CardinalityType

\* So are the promises.
LEMMA FinitePromises ==
    IsFiniteSet(Promised) /\ Cardinality(Promised) \in Nat
<1>1. Promised \in SUBSET Callers
  BY DEF Promised
<1> QED
  BY <1>1, Finite, FS_Subset, FS_CardinalityType

\* Fewer children and fewer promises stay within the limits.
LEMMA WithinShrinks ==
    ASSUME NEW p, NEW q, NEW m \in Nat, NEW n \in Nat, m <= n, Within(p, n),
           Active(q) \subseteq Active(p), ChildrenOf(q) \subseteq ChildrenOf(p)
    PROVE  Within(q, m)
<1>1. /\ Cardinality(Active(q)) <= Cardinality(Active(p))
      /\ Cardinality(ChildrenOf(q)) <= Cardinality(ChildrenOf(p))
  BY Finite, FS_Subset
<1>2. /\ Cardinality(Active(p)) \in Nat /\ Cardinality(Active(q)) \in Nat
      /\ Cardinality(ChildrenOf(p)) \in Nat /\ Cardinality(ChildrenOf(q)) \in Nat
      /\ Cardinality(Callers) \in Nat
  BY Finite
<1>3. MaxConcurrent \in Nat /\ MaxTotal \in Nat
  BY DelegationConstants
<1> QED
  BY <1>1, <1>2, <1>3 DEF Within

\* One more child takes the place of one promise.
LEMMA WithinGrows ==
    ASSUME NEW p, NEW q, NEW w, NEW n \in Nat, Within(p, n + 1),
           Active(q) \subseteq Active(p) \cup {w},
           ChildrenOf(q) \subseteq ChildrenOf(p) \cup {w}
    PROVE  Within(q, n)
<1>1. /\ IsFiniteSet(Active(p) \cup {w}) /\ IsFiniteSet(ChildrenOf(p) \cup {w})
      /\ Cardinality(Active(p) \cup {w}) <= Cardinality(Active(p)) + 1
      /\ Cardinality(ChildrenOf(p) \cup {w}) <= Cardinality(ChildrenOf(p)) + 1
      /\ Cardinality(Active(p) \cup {w}) \in Nat /\ Cardinality(ChildrenOf(p) \cup {w}) \in Nat
  <2>1. ASSUME NEW S, IsFiniteSet(S), Cardinality(S) \in Nat
        PROVE  /\ IsFiniteSet(S \cup {w}) /\ Cardinality(S \cup {w}) <= Cardinality(S) + 1
               /\ Cardinality(S \cup {w}) \in Nat
    <3>1. /\ IsFiniteSet(S \cup {w})
          /\ Cardinality(S \cup {w}) = IF w \in S THEN Cardinality(S) ELSE Cardinality(S) + 1
      BY <2>1, FS_AddElement
    <3> QED
      BY <2>1, <3>1
  <2>2. /\ IsFiniteSet(Active(p)) /\ Cardinality(Active(p)) \in Nat
        /\ IsFiniteSet(ChildrenOf(p)) /\ Cardinality(ChildrenOf(p)) \in Nat
    BY Finite
  <2> QED
    BY <2>1, <2>2
<1>2. /\ Cardinality(Active(q)) <= Cardinality(Active(p) \cup {w})
      /\ Cardinality(ChildrenOf(q)) <= Cardinality(ChildrenOf(p) \cup {w})
  BY <1>1, FS_Subset
<1>3. /\ Cardinality(Active(p)) \in Nat /\ Cardinality(Active(q)) \in Nat
      /\ Cardinality(ChildrenOf(p)) \in Nat /\ Cardinality(ChildrenOf(q)) \in Nat
      /\ Cardinality(Callers) \in Nat
  BY Finite
<1>4. MaxConcurrent \in Nat /\ MaxTotal \in Nat
  BY DelegationConstants
<1> QED
  BY <1>1, <1>2, <1>3, <1>4 DEF Within

-----------------------------------------------------------------------------
(* Rows.                                                                   *)

\* A row that makes q of p adds no child, revives none, and takes no state
\* back.
Quiet(p, q) ==
    /\ q \in Projection
    /\ q.works = p.works /\ q.parent = p.parent
    /\ ShownHasEnded(q)
    /\ \A w \in Children :
          /\ PresenceIsTerminal(p, w) => PresenceIsTerminal(q, w)
          /\ p.run[RunOf[w]] # "none" => q.run[RunOf[w]] # "none"
          /\ p.run[RunOf[w]] \notin {"none", "ready"} => q.run[RunOf[w]] \notin {"none", "ready"}

LEMMA QuietCounts ==
    ASSUME NEW p, NEW q, Quiet(p, q)
    PROVE  Active(q) \subseteq Active(p) /\ ChildrenOf(q) = ChildrenOf(p)
BY DEF Quiet, Active, ChildrenOf

Errors == {"none", "terminal_first", "illegal", "approval", "effect",
           "unknown_work", "duplicate_work", "sequence", "torn"}

\* append, for a row that replays to p unless e says why not.
LEMMA AppendEffects ==
    ASSUME NEW w, NEW l, NEW p, NEW e \in Errors, AppendEvent(w, l, p, e), err \in Errors
    PROVE  /\ up /\ up' = up /\ resolving' = resolving /\ w \in live.works
           /\ (live' = l /\ unacked' = FALSE) \/ (live' = live /\ unacked' = TRUE)
           /\ err' \in Errors
           /\ err' = "none" => /\ err = "none" /\ ~unacked /\ e = "none"
                              /\ w \in replay.works /\ replay' = p
           /\ err' # "none" => replay' = replay
BY DEF AppendEvent, AppendRow, Acknowledge, Durable, KnownWork, Errors

\* A quiet row keeps what holds between rows.
LEMMA QuietRow ==
    ASSUME JournalInv, NEW w, NEW l, NEW p, NEW e \in Errors, AppendEvent(w, l, p, e),
           Quiet(live, l),
           e = "none" => Quiet(replay, p),
           e = "none" /\ Alike(live, replay) => Alike(l, p)
    PROVE  /\ JournalInv'
           /\ up /\ up' /\ w \in live.works
           /\ (live' = l /\ unacked' = FALSE) \/ (live' = live /\ unacked' = TRUE)
           /\ live.works = live'.works
           /\ Active(live') \subseteq Active(live) /\ ChildrenOf(live') = ChildrenOf(live)
           /\ err' = "none" => err = "none" /\ replay' = p /\ Quiet(replay, p)
           /\ \A v \in Children : Started(v) => Started(v)'
           /\ err' = "none" => w \in replay.works
<1>1. TypeOK /\ err \in Errors
  BY DEF JournalInv, TypeOK, Errors
<1>2. /\ up /\ up' = up /\ resolving' = resolving /\ w \in live.works
      /\ (live' = l /\ unacked' = FALSE) \/ (live' = live /\ unacked' = TRUE)
      /\ err' \in Errors
      /\ err' = "none" => /\ err = "none" /\ ~unacked /\ e = "none"
                         /\ w \in replay.works /\ replay' = p
      /\ err' # "none" => replay' = replay
  BY <1>1, AppendEffects
<1>3. live \in Projection /\ replay \in Projection
  BY <1>1 DEF TypeOK
<1>4. Quiet(live, live) /\ Quiet(replay, replay)
  BY <1>3 DEF Quiet, JournalInv
<1>5. Quiet(live, live')
  BY <1>2, <1>4
<1>6. Quiet(replay, replay')
  BY <1>2, <1>4
<1>7. TypeOK'
  BY <1>1, <1>2, <1>5, <1>6 DEF TypeOK, Quiet, Errors, AppendEvent
<1>8. ShownHasEnded(live)' /\ ShownHasEnded(replay)'
  <2>1. ShownHasEnded(live') /\ ShownHasEnded(replay')
    BY <1>5, <1>6 DEF Quiet
  <2> QED
    BY <2>1 DEF ShownHasEnded, PresenceIsTerminal
<1>9. (up' /\ ~unacked' /\ err' = "none") => Alike(live', replay')
  BY <1>2 DEF JournalInv
<1>10. /\ Active(live') \subseteq Active(live) /\ ChildrenOf(live') = ChildrenOf(live)
       /\ Active(replay') \subseteq Active(replay) /\ ChildrenOf(replay') = ChildrenOf(replay)
  BY <1>5, <1>6, QuietCounts
<1>11. err' = "none" => Within(replay', 0)
  BY <1>2, <1>10, WithinShrinks DEF JournalInv
<1>12. JournalInv'
  BY <1>7, <1>8, <1>9, <1>11
     DEF JournalInv, Alike, ReadsAs, Within, Active, ChildrenOf, PresenceIsTerminal
<1>13. ASSUME NEW v \in Children, Started(v) PROVE Started(v)'
  BY <1>2, <1>5, <1>6, <1>13 DEF Started, Quiet
<1> QED
  BY <1>2, <1>5, <1>10, <1>12, <1>13 DEF Quiet

-----------------------------------------------------------------------------
(* Callers.                                                                *)

CallRecord == [pc : {"idle", "admitted"} \cup Rows, child : Works]

\* A caller that moves to x keeps what holds of the callers: the others have
\* no rows to write while it may hold the lock.
LEMMA CallerKeeps ==
    ASSUME CallInv, SessionInv, NEW c \in Callers, NEW x \in CallRecord,
           call' = [call EXCEPT ![c] = x],
           holder \in {c, Nobody}, holder' = IF x.pc \in Rows THEN c ELSE Nobody,
           x.pc # "idle" => x.child \in Children,
           up, up',
           session' \in [Children -> SessionStates],
           \A v \in Children : Started(v) => Started(v)',
           \A v \in Children : session'[v] # "none" => session[v] # "none" \/ Started(v)',
           x.pc = "session" => Started(x.child)' /\ ~Ended(x.child)'
    PROVE  CallInv' /\ SessionInv'
<1>1. call \in [Callers -> CallRecord] /\ Nobody \notin Callers
  BY DelegationConstants DEF CallInv, CallRecord
<1>2. call' \in [Callers -> CallRecord] /\ call'[c] = x
  BY <1>1
<1>3. \A d \in Callers : d # c => call'[d] = call[d] /\ call[d].pc \notin Rows
  BY <1>1 DEF CallInv
<1>4. \A d \in Callers : (call'[d].pc \in Rows) <=> (holder' = d)
  BY <1>1, <1>2, <1>3
<1>5. \A d \in Callers : call'[d].pc # "idle" => call'[d].child \in Children
  BY <1>2, <1>3 DEF CallInv
<1>6. CallInv'
  BY <1>1, <1>2, <1>4, <1>5 DEF CallInv, CallRecord
<1>7. \A v \in Children : session'[v] # "none" => up' /\ Started(v)'
  BY DEF SessionInv
<1>8. ASSUME NEW d \in Callers, At(d, "session")'
      PROVE  Started(call[d].child)' /\ ~Ended(call[d].child)'
  <2>1. d = c
    BY <1>3, <1>8 DEF At, Rows
  <2> QED
    BY <1>2, <1>8, <2>1 DEF At, Started, Ended
<1> QED
  BY <1>6, <1>7, <1>8 DEF SessionInv

\* A promise that is kept or dropped, and no new child.
LEMMA CapKeeps ==
    ASSUME CallInv, CapOvershoot, NEW c \in Callers, NEW x \in CallRecord,
           call' = [call EXCEPT ![c] = x], x.pc # "admitted", up,
           Active(live') \subseteq Active(live), ChildrenOf(live') \subseteq ChildrenOf(live)
    PROVE  CapOvershoot'
<1>1. Promised' \subseteq Promised
  BY DEF Promised, At, CallInv
<1>2. IsFiniteSet(Promised) /\ Cardinality(Promised) \in Nat
  BY FinitePromises
<1>3. Cardinality(Promised') <= Cardinality(Promised) /\ Cardinality(Promised') \in Nat
  BY <1>1, <1>2, FS_Subset, FS_CardinalityType
<1>4. Within(live', Cardinality(Promised'))
  BY <1>2, <1>3, WithinShrinks DEF CapOvershoot
<1> QED
  BY <1>4 DEF CapOvershoot, Within, Active, ChildrenOf, PresenceIsTerminal

\* A caller that writes a quiet row, or none, keeps the invariant.
LEMMA QuietCaller ==
    ASSUME DInv, NEW c \in Callers, NEW x \in CallRecord,
           call' = [call EXCEPT ![c] = x], x.pc # "admitted",
           holder \in {c, Nobody}, holder' = IF x.pc \in Rows THEN c ELSE Nobody,
           x.pc # "idle" => x.child \in Children,
           JournalInv', up, up',
           Active(live') \subseteq Active(live), ChildrenOf(live') \subseteq ChildrenOf(live),
           session' \in [Children -> SessionStates],
           \A v \in Children : Started(v) => Started(v)',
           \A v \in Children : session'[v] # "none" => session[v] # "none" \/ Started(v)',
           x.pc = "session" => Started(x.child)' /\ ~Ended(x.child)'
    PROVE  DInv'
<1>1. CallInv /\ SessionInv /\ CapOvershoot
  BY DEF DInv
<1>2. CallInv' /\ SessionInv'
  BY <1>1, CallerKeeps
<1>3. CapOvershoot'
  BY <1>1, CapKeeps
<1> QED
  BY <1>2, <1>3 DEF DInv

-----------------------------------------------------------------------------
(* The rows of a spawn and of a close are quiet.                           *)

\* The children's Runs are theirs.
LEMMA RunOfFacts ==
    ASSUME NEW w \in Children
    PROVE  /\ w \in Works /\ RunOf[w] \in Runs
           /\ \A v \in Children : v # w => RunOf[v] # RunOf[w]
           /\ \A v \in Children : RunOf[v] \in Runs /\ v \in Works
BY DelegationConstants DEF Children

\* A row that says nothing of the child's state.
LEMMA SameIsQuiet ==
    ASSUME JournalInv
    PROVE  Quiet(live, live) /\ Quiet(replay, replay)
BY DEF JournalInv, TypeOK, Quiet

\* note_run_reference
LEMMA NoteIsQuiet ==
    ASSUME NEW p \in Projection, ShownHasEnded(p), NEW w \in Children
    PROVE  Quiet(p, NoteRun(p, w, RunOf[w]))
<1> DEFINE q == NoteRun(p, w, RunOf[w])
<1>1. w \in Works /\ RunOf[w] \in Runs
  BY RunOfFacts
<1>2. /\ q \in Projection
      /\ q.works = p.works /\ q.parent = p.parent
      /\ q.run = p.run /\ q.shown = p.shown
  BY <1>1, NoteRunFields
<1> HIDE DEF q
<1>3. Quiet(p, q)
  BY <1>2 DEF Quiet, ShownHasEnded, PresenceIsTerminal
<1> QED
  BY <1>3 DEF q

\* A binding: a Run without a state becomes Ready, in memory only.
BoundRun(p, w, r) ==
    [NoteRun(p, w, r) EXCEPT !.run[r] = IF @ = "none" THEN "ready" ELSE @]

LEMMA BindIsQuiet ==
    ASSUME NEW p \in Projection, ShownHasEnded(p), NEW w \in Children
    PROVE  LET q == BoundRun(p, w, RunOf[w]) IN
           /\ Quiet(p, q)
           /\ q.works = p.works /\ q.parent = p.parent /\ q.shown = p.shown
           /\ \A v \in Children : \/ q.run[RunOf[v]] = p.run[RunOf[v]]
                                  \/ p.run[RunOf[v]] = "none" /\ q.run[RunOf[v]] = "ready"
<1> DEFINE r == RunOf[w]
           n == NoteRun(p, w, r)
           x == IF n.run[r] = "none" THEN "ready" ELSE n.run[r]
           q == BoundRun(p, w, r)
<1>1. /\ w \in Works /\ r \in Runs
      /\ \A v \in Children : v # w => RunOf[v] # r
      /\ \A v \in Children : RunOf[v] \in Runs
  BY RunOfFacts
<1>2. /\ n \in Projection
      /\ n.works = p.works /\ n.parent = p.parent
      /\ n.run = p.run /\ n.shown = p.shown
  <2>1. w \in Works /\ r \in Runs
    BY <1>1
  <2> HIDE DEF r
  <2> QED
    BY <2>1, NoteRunFields
<1> HIDE DEF n, r
<1>3. x \in OptStates /\ n.run \in [Runs -> OptStates]
  BY <1>1, <1>2 DEF Projection, OptStates, WorkStates
<1>4. q = [n EXCEPT !.run[r] = x]
  BY <1>1, <1>2 DEF Projection, BoundRun, n, r
<1>5. /\ q.works = n.works /\ q.parent = n.parent /\ q.shown = n.shown
      /\ q.run = [n.run EXCEPT ![r] = x]
  <2> HIDE DEF q, x
  <2> QED
    BY <1>2, <1>4 DEF Projection
<1>6. q \in Projection
  <2> HIDE DEF q, x
  <2> QED
    BY <1>1, <1>2, <1>3, <1>4 DEF Projection
<1> HIDE DEF q
<1>7. \A v \in Children : \/ q.run[RunOf[v]] = p.run[RunOf[v]]
                          \/ p.run[RunOf[v]] = "none" /\ q.run[RunOf[v]] = "ready"
  BY <1>1, <1>2, <1>3, <1>5 DEF r
<1>8. ShownHasEnded(q)
  BY <1>2, <1>5, <1>7 DEF ShownHasEnded, PresenceIsTerminal, TerminalStates
<1>9. Quiet(p, q)
  BY <1>2, <1>5, <1>6, <1>7, <1>8 DEF Quiet, PresenceIsTerminal
<1> QED
  BY <1>2, <1>5, <1>7, <1>9 DEF q, r

\* set_run_state, as far as a count of children reads it.
LEMMA SetRunReads ==
    ASSUME NEW p \in Projection, NEW w \in Works, NEW r \in Runs,
           NEW s \in WorkStates, NEW y \in OptWaits
    PROVE  LET q == SetRun(p, w, r, s, y) IN
           /\ q \in Projection
           /\ q.works = p.works /\ q.parent = p.parent
           /\ q.run = [p.run EXCEPT ![r] = s]
           /\ q.shown = [p.shown EXCEPT ![w] = s]
<1>1. SetRun(p, w, r, s, y) \in Projection
  BY SetRunFields
<1>2. /\ SetRun(p, w, r, s, y).works = p.works
      /\ SetRun(p, w, r, s, y).parent = p.parent
      /\ SetRun(p, w, r, s, y).run = [p.run EXCEPT ![r] = s]
      /\ SetRun(p, w, r, s, y).shown = [p.shown EXCEPT ![w] = s]
  BY DEF SetRun, NoteRun, Projection
<1> QED
  BY <1>1, <1>2

\* A Run that starts, if it has not ended, or ends.
LEMMA SetIsQuiet ==
    ASSUME NEW p \in Projection, ShownHasEnded(p), NEW w \in Children,
           NEW s \in {"running"} \cup TerminalStates,
           s = "running" => p.run[RunOf[w]] \notin TerminalStates
    PROVE  LET q == SetRun(p, w, RunOf[w], s, "none") IN
           /\ Quiet(p, q)
           /\ q.works = p.works /\ q.parent = p.parent
           /\ q.shown = [p.shown EXCEPT ![w] = s]
           /\ q.run = [p.run EXCEPT ![RunOf[w]] = s]
           /\ q.run[RunOf[w]] = s
<1> DEFINE r == RunOf[w]
           q == SetRun(p, w, r, s, "none")
<1>1. /\ w \in Works /\ r \in Runs
      /\ \A v \in Children : v # w => RunOf[v] # r
      /\ \A v \in Children : RunOf[v] \in Runs /\ v \in Works
  BY RunOfFacts
<1>2. s \in WorkStates /\ "none" \in OptWaits
  BY DEF WorkStates, TerminalStates, OptWaits
<1>3. /\ q \in Projection
      /\ q.works = p.works /\ q.parent = p.parent
      /\ q.run = [p.run EXCEPT ![r] = s]
      /\ q.shown = [p.shown EXCEPT ![w] = s]
  BY <1>1, <1>2, SetRunReads
<1>4. q.shown = [p.shown EXCEPT ![w] = s]
  BY <1>3
<1> HIDE DEF q, r
<1>5. p.run \in [Runs -> OptStates] /\ p.shown \in [Works -> OptStates]
  BY DEF Projection
<1>6. \A v \in Children : v # w => q.run[RunOf[v]] = p.run[RunOf[v]] /\ q.shown[v] = p.shown[v]
  BY <1>1, <1>3, <1>4, <1>5
<1>7. q.run[r] = s /\ q.shown[w] = s
  BY <1>1, <1>3, <1>4, <1>5
<1>8. ShownHasEnded(q)
  BY <1>6, <1>7 DEF ShownHasEnded, PresenceIsTerminal, r
<1>9. s \notin {"none", "ready"}
  BY DEF TerminalStates
<1>10. ~PresenceIsTerminal(p, w) \/ PresenceIsTerminal(q, w)
  BY <1>7 DEF ShownHasEnded, PresenceIsTerminal, r
<1>11. Quiet(p, q)
  BY <1>3, <1>6, <1>7, <1>8, <1>9, <1>10 DEF Quiet, PresenceIsTerminal, r
<1> QED
  BY <1>3, <1>4, <1>7, <1>11 DEF q, r

-----------------------------------------------------------------------------
(* The row that makes a Work.                                              *)

\* WorkCreated, as far as a count of children reads it.
LEMMA AddWorkReads ==
    ASSUME NEW p \in Projection, NEW w \in Works, NEW x \in Works \cup {NoWork}
    PROVE  LET q == AddWork(p, w, x) IN
           /\ q \in Projection
           /\ q.works = p.works \cup {w} /\ q.run = p.run
           /\ q.parent = [p.parent EXCEPT ![w] = x]
           /\ q.shown = [p.shown EXCEPT ![w] = "created"]
<1>1. AddWork(p, w, x) \in Projection
  BY AddWorkFields
<1>2. /\ AddWork(p, w, x).works = p.works \cup {w}
      /\ AddWork(p, w, x).run = p.run
      /\ AddWork(p, w, x).parent = [p.parent EXCEPT ![w] = x]
      /\ AddWork(p, w, x).shown = [p.shown EXCEPT ![w] = "created"]
  BY DEF AddWork, Projection
<1> QED
  BY <1>1, <1>2

LEMMA AddWorkCounts ==
    ASSUME NEW p \in Projection, ShownHasEnded(p),
           NEW w \in Works, NEW x \in Works \cup {NoWork}
    PROVE  LET q == AddWork(p, w, x) IN
           /\ ShownHasEnded(q)
           /\ Active(q) \subseteq Active(p) \cup ({w} \cap Children)
           /\ ChildrenOf(q) \subseteq ChildrenOf(p) \cup ({w} \cap Children)
<1> DEFINE q == AddWork(p, w, x)
<1>1. /\ q.works = p.works \cup {w} /\ q.run = p.run
      /\ q.parent = [p.parent EXCEPT ![w] = x]
      /\ q.shown = [p.shown EXCEPT ![w] = "created"]
  BY AddWorkReads
<1>2. p.parent \in [Works -> Works \cup {NoWork}] /\ p.shown \in [Works -> OptStates]
  BY DEF Projection
<1>3. Children \subseteq Works
  BY DEF Children
<1> HIDE DEF q
<1>4. \A v \in Children : v # w => q.parent[v] = p.parent[v] /\ q.shown[v] = p.shown[v]
  BY <1>1, <1>2, <1>3
<1>5. w \in Children => ~PresenceIsTerminal(q, w)
  BY <1>1, <1>2 DEF PresenceIsTerminal, TerminalStates
<1>6. ShownHasEnded(q)
  BY <1>1, <1>4, <1>5 DEF ShownHasEnded, PresenceIsTerminal
<1>7. ChildrenOf(q) \subseteq ChildrenOf(p) \cup ({w} \cap Children)
  BY <1>1, <1>4 DEF ChildrenOf
<1>8. Active(q) \subseteq Active(p) \cup ({w} \cap Children)
  BY <1>4, <1>7 DEF Active, PresenceIsTerminal, ChildrenOf
<1> QED
  BY <1>6, <1>7, <1>8 DEF q

\* What the row keeps and what it adds; the journal is read together with
\* memory, so what memory allows bounds the journal too.
LEMMA CreatedRow ==
    ASSUME JournalInv, NEW w \in Works, NEW x \in Works \cup {NoWork}, AppendCreated(w, x)
    PROVE  /\ up /\ up'
           /\ TypeOK' /\ ShownHasEnded(live)' /\ ShownHasEnded(replay)'
           /\ (~unacked' /\ err' = "none") => Alike(live', replay')
           /\ \/ Active(live') \subseteq Active(live) /\ ChildrenOf(live') \subseteq ChildrenOf(live)
              \/ /\ ~unacked'
                 /\ Active(live') \subseteq Active(live) \cup ({w} \cap Children)
                 /\ ChildrenOf(live') \subseteq ChildrenOf(live) \cup ({w} \cap Children)
           /\ err' = "none" =>
                 /\ err = "none" /\ Alike(live, replay)
                 /\ Active(replay') \subseteq Active(replay) \cup ({w} \cap Children)
                 /\ ChildrenOf(replay') \subseteq ChildrenOf(replay) \cup ({w} \cap Children)
           /\ \A v \in Children : Started(v) => Started(v)'
           /\ (~unacked') => w \in live'.works
<1> DEFINE l == AddWork(live, w, x)
           p == AddWork(replay, w, x)
<1>1. /\ TypeOK /\ err \in Errors /\ live \in Projection /\ replay \in Projection
      /\ ShownHasEnded(live) /\ ShownHasEnded(replay)
      /\ (up /\ ~unacked /\ err = "none") => Alike(live, replay)
  BY DEF JournalInv, TypeOK, Errors
<1>2. /\ up /\ up' = up /\ resolving' = resolving
      /\ (live' = l /\ unacked' = FALSE) \/ (live' = live /\ unacked' = TRUE)
      /\ err' \in Errors
      /\ err' = "none" => err = "none" /\ ~unacked /\ replay' = p
      /\ err' # "none" => replay' = replay
  BY <1>1 DEF AppendCreated, Acknowledge, Durable, Errors
<1>3. /\ l \in Projection /\ l.works = live.works \cup {w} /\ l.run = live.run
      /\ l.parent = [live.parent EXCEPT ![w] = x]
      /\ l.shown = [live.shown EXCEPT ![w] = "created"]
  BY <1>1, AddWorkReads
<1>4. /\ p \in Projection /\ p.works = replay.works \cup {w} /\ p.run = replay.run
      /\ p.parent = [replay.parent EXCEPT ![w] = x]
      /\ p.shown = [replay.shown EXCEPT ![w] = "created"]
  BY <1>1, AddWorkReads
<1>5. /\ ShownHasEnded(l)
      /\ Active(l) \subseteq Active(live) \cup ({w} \cap Children)
      /\ ChildrenOf(l) \subseteq ChildrenOf(live) \cup ({w} \cap Children)
  BY <1>1, AddWorkCounts
<1>6. /\ ShownHasEnded(p)
      /\ Active(p) \subseteq Active(replay) \cup ({w} \cap Children)
      /\ ChildrenOf(p) \subseteq ChildrenOf(replay) \cup ({w} \cap Children)
  BY <1>1, AddWorkCounts
<1> HIDE DEF l, p
<1>7. TypeOK'
  BY <1>1, <1>2, <1>3, <1>4 DEF TypeOK, Errors, AppendCreated
<1>8. ShownHasEnded(live)' /\ ShownHasEnded(replay)'
  <2>1. ShownHasEnded(live') /\ ShownHasEnded(replay')
    BY <1>1, <1>2, <1>5, <1>6
  <2> QED
    BY <2>1 DEF ShownHasEnded, PresenceIsTerminal
<1>9. (~unacked' /\ err' = "none") => Alike(live', replay')
  BY <1>1, <1>2, <1>3, <1>4 DEF Alike
<1>10. ASSUME NEW v \in Children, Started(v) PROVE Started(v)'
  BY <1>2, <1>3, <1>4, <1>10 DEF Started
<1>11. \/ Active(live') \subseteq Active(live) /\ ChildrenOf(live') \subseteq ChildrenOf(live)
       \/ /\ ~unacked'
          /\ Active(live') \subseteq Active(live) \cup ({w} \cap Children)
          /\ ChildrenOf(live') \subseteq ChildrenOf(live) \cup ({w} \cap Children)
  BY <1>2, <1>5
<1>12. err' = "none" =>
         /\ err = "none" /\ Alike(live, replay)
         /\ Active(replay') \subseteq Active(replay) \cup ({w} \cap Children)
         /\ ChildrenOf(replay') \subseteq ChildrenOf(replay) \cup ({w} \cap Children)
  BY <1>1, <1>2, <1>6
<1> QED
  BY <1>2, <1>3, <1>7, <1>8, <1>9, <1>10, <1>11, <1>12

-----------------------------------------------------------------------------
(* The steps of a spawn.                                                   *)

LEMMA IdleIsRecord == Idle \in CallRecord /\ Idle.pc = "idle"
BY DelegationConstants DEF Idle, CallRecord

\* A step that leaves the gateway alone.
LEMMA SameJournal ==
    ASSUME JournalInv, UNCHANGED gatewayVars
    PROVE  /\ JournalInv' /\ live' = live /\ up' = up
           /\ \A v \in Children : Started(v) => Started(v)'
BY DEF gatewayVars, JournalInv, TypeOK, ShownHasEnded, PresenceIsTerminal, Alike, ReadsAs,
       Within, Active, ChildrenOf, Started

\* Memory and a journal that is alike count the same children.
LEMMA AlikeCounts ==
    ASSUME NEW l, NEW p, Alike(l, p)
    PROVE  Active(p) = Active(l) /\ ChildrenOf(p) = ChildrenOf(l)
BY DEF Alike, Active, ChildrenOf, PresenceIsTerminal

LEMMA AskStep ==
    ASSUME DInv, NEW c \in Callers, NEW w \in Children, Ask(c, w)
    PROVE  DInv'
<1> DEFINE x == [pc |-> "admitted", child |-> w]
<1>1. /\ up /\ holder = Nobody /\ holder' = Nobody /\ session' = session
      /\ call' = [call EXCEPT ![c] = x]
      /\ UNCHANGED gatewayVars /\ Admit
  BY DEF Ask, Free
<1>2. JournalInv /\ CallInv /\ SessionInv /\ CapOvershoot
  BY DEF DInv
<1>3. /\ JournalInv' /\ live' = live /\ up' = up
      /\ \A v \in Children : Started(v) => Started(v)'
  BY <1>1, <1>2, SameJournal
<1>4. x \in CallRecord /\ x.pc = "admitted" /\ x.child = w /\ "admitted" \notin Rows
  BY DEF CallRecord, Children, Rows
<1> HIDE DEF x
<1>5. session' \in [Children -> SessionStates]
  BY <1>1, <1>2 DEF CallInv
<1>6. CallInv' /\ SessionInv'
  BY <1>1, <1>2, <1>3, <1>4, <1>5, CallerKeeps
<1>7. Promised' \in SUBSET Callers
  BY DEF Promised
<1>8. Cardinality(Promised') <= Cardinality(Callers) /\ Cardinality(Promised') \in Nat
  BY <1>7, Finite, FS_Subset, FS_CardinalityType
<1>9. Cardinality(Active(live)) < MaxConcurrent /\ Cardinality(ChildrenOf(live)) < MaxTotal
  BY <1>1 DEF Admit
<1>10. /\ Cardinality(Active(live)) \in Nat /\ Cardinality(ChildrenOf(live)) \in Nat
       /\ Cardinality(Callers) \in Nat /\ MaxConcurrent \in Nat /\ MaxTotal \in Nat
  BY Finite, DelegationConstants
<1>11. Within(live, Cardinality(Promised'))
  BY <1>8, <1>9, <1>10 DEF Within
<1>12. CapOvershoot'
  BY <1>3, <1>11 DEF CapOvershoot, Within, Active, ChildrenOf, PresenceIsTerminal
<1> QED
  BY <1>3, <1>6, <1>12 DEF DInv

\* Writing the Work keeps a promise.
LEMMA PromiseKept ==
    ASSUME CallInv, NEW c \in Callers, At(c, "admitted"), NEW x \in CallRecord,
           call' = [call EXCEPT ![c] = x], x.pc # "admitted"
    PROVE  /\ Cardinality(Promised') \in Nat
           /\ Cardinality(Promised) = Cardinality(Promised') + 1
<1>1. Promised' = Promised \ {c} /\ c \in Promised
  BY DEF Promised, At, CallInv
<1>2. IsFiniteSet(Promised) /\ Cardinality(Promised) \in Nat
  BY FinitePromises
<1>3. /\ IsFiniteSet(Promised \ {c})
      /\ Cardinality(Promised \ {c}) = IF c \in Promised THEN Cardinality(Promised) - 1
                                      ELSE Cardinality(Promised)
  BY <1>2, FS_RemoveElement
<1>4. Cardinality(Promised \ {c}) \in Nat
  BY <1>3, FS_CardinalityType
<1> QED
  BY <1>1, <1>2, <1>3, <1>4

LEMMA CreateStep ==
    ASSUME DInv, NEW c \in Callers, Create(c)
    PROVE  DInv'
<1> DEFINE w == call[c].child
<1>1. JournalInv /\ CallInv /\ SessionInv /\ CapOvershoot
  BY DEF DInv
<1>2. /\ up /\ holder = Nobody /\ At(c, "admitted") /\ session' = session
      /\ session' \in [Children -> SessionStates]
      /\ w \in Children /\ w \in Works
  BY <1>1 DEF Create, Free, CallInv, At, Children
<1>3. CASE w \in live.works
  <2> DEFINE x == [pc |-> "bind", child |-> w]
  <2>1. call' = [call EXCEPT ![c] = x] /\ holder' = c /\ UNCHANGED gatewayVars
    BY <1>1, <1>3 DEF Create, CallInv
  <2>2. x \in CallRecord /\ x.pc = "bind" /\ x.child = w /\ "bind" \in Rows
    BY <1>2 DEF CallRecord, Rows
  <2>3. /\ JournalInv' /\ live' = live /\ up' = up
        /\ \A v \in Children : Started(v) => Started(v)'
    BY <1>1, <2>1, SameJournal
  <2> HIDE DEF x, w
  <2> QED
    BY <1>2, <2>1, <2>2, <2>3, QuietCaller
<1>4. CASE w \notin live.works
  <2> DEFINE x == IF unacked' THEN Idle ELSE [pc |-> "heartbeat", child |-> w]
  <2>1. /\ AppendCreated(w, Root)
        /\ call' = [call EXCEPT ![c] = x]
        /\ holder' = IF unacked' THEN Nobody ELSE c
    BY <1>4 DEF Create, Proceed, CreateChildWork
  <2>2. /\ x \in CallRecord /\ x.pc \notin {"admitted", "session"}
        /\ holder' = IF x.pc \in Rows THEN c ELSE Nobody
        /\ x.pc # "idle" => x.child \in Children
    BY <1>2, <2>1, IdleIsRecord DEF CallRecord, Rows
  <2> HIDE DEF x, w
  <2>3. Root \in Works \cup {NoWork}
    BY DelegationConstants
  <2>4. /\ up /\ up'
        /\ TypeOK' /\ ShownHasEnded(live)' /\ ShownHasEnded(replay)'
        /\ (~unacked' /\ err' = "none") => Alike(live', replay')
        /\ \/ Active(live') \subseteq Active(live) /\ ChildrenOf(live') \subseteq ChildrenOf(live)
           \/ /\ Active(live') \subseteq Active(live) \cup {w}
              /\ ChildrenOf(live') \subseteq ChildrenOf(live) \cup {w}
        /\ err' = "none" =>
              /\ Alike(live, replay)
              /\ Active(replay') \subseteq Active(replay) \cup {w}
              /\ ChildrenOf(replay') \subseteq ChildrenOf(replay) \cup {w}
        /\ \A v \in Children : Started(v) => Started(v)'
    BY <1>1, <1>2, <2>1, <2>3, CreatedRow
  <2>5. CallInv' /\ SessionInv'
    BY <1>1, <1>2, <2>1, <2>2, <2>4, CallerKeeps
  <2>6. /\ Cardinality(Promised') \in Nat
        /\ Cardinality(Promised) = Cardinality(Promised') + 1
    BY <1>1, <1>2, <2>1, <2>2, PromiseKept
  <2>7. Within(live, Cardinality(Promised') + 1)
    BY <1>1, <1>2, <2>6 DEF CapOvershoot
  <2>8. Within(live', Cardinality(Promised'))
    <3>1. Active(live') \subseteq Active(live) \cup {w}
      BY <2>4
    <3>2. ChildrenOf(live') \subseteq ChildrenOf(live) \cup {w}
      BY <2>4
    <3> QED
      BY <2>6, <2>7, <3>1, <3>2, WithinGrows
  <2>9. CapOvershoot'
    BY <2>8 DEF CapOvershoot, Within, Active, ChildrenOf, PresenceIsTerminal
  <2>10. ASSUME err' = "none" PROVE Within(replay', 0)
    <3>1. Active(replay) = Active(live) /\ ChildrenOf(replay) = ChildrenOf(live)
      BY <2>4, <2>10, AlikeCounts
    <3>2. Within(replay, 0 + 1)
      BY <2>6, <2>7, <3>1, WithinShrinks
    <3> QED
      BY <2>4, <2>10, <3>2, WithinGrows
  <2>11. JournalInv'
    BY <2>4, <2>10 DEF JournalInv, Alike, ReadsAs, Within, Active, ChildrenOf, PresenceIsTerminal
  <2> QED
    BY <2>5, <2>9, <2>11 DEF DInv
<1> QED
  BY <1>3, <1>4

\* A step of caller c, which holds the lock, that writes a quiet row and goes
\* on to pc or gives up.
LEMMA RowStepOfCaller ==
    ASSUME DInv, NEW c \in Callers, NEW w \in Children,
           holder \in {c, Nobody},
           NEW l, NEW p, NEW e \in Errors, AppendEvent(w, l, p, e),
           Quiet(live, l),
           e = "none" => Quiet(replay, p),
           e = "none" /\ Alike(live, replay) => Alike(l, p),
           NEW x \in CallRecord, call' = [call EXCEPT ![c] = x],
           holder' = IF x.pc \in Rows THEN c ELSE Nobody,
           x.pc # "admitted", x.pc # "session",
           x.pc # "idle" => x.child \in Children,
           session' \in [Children -> SessionStates],
           \A v \in Children : session'[v] # "none" => session[v] # "none" \/ Started(v)
    PROVE  DInv'
<1>1. JournalInv
  BY DEF DInv
<1>2. /\ JournalInv' /\ up /\ up'
      /\ Active(live') \subseteq Active(live) /\ ChildrenOf(live') = ChildrenOf(live)
      /\ \A v \in Children : Started(v) => Started(v)'
  BY <1>1, QuietRow
<1>3. \A v \in Children : session'[v] # "none" => session[v] # "none" \/ Started(v)'
  BY <1>2
<1> QED
  BY <1>2, <1>3, QuietCaller

\* Where a caller is after Proceed and after Return.
LEMMA ProceedMoves ==
    ASSUME NEW c \in Callers, NEW w \in Children, NEW pc \in Rows, Proceed(c, w, pc)
    PROVE  \E x \in CallRecord :
             /\ call' = [call EXCEPT ![c] = x]
             /\ holder' = IF x.pc \in Rows THEN c ELSE Nobody
             /\ x.pc # "admitted"
             /\ x.pc # "idle" => x.child \in Children
             /\ x.pc = "session" => pc = "session" /\ x.child = w /\ ~unacked'
<1> DEFINE x == IF unacked' THEN Idle ELSE [pc |-> pc, child |-> w]
<1>1. call' = [call EXCEPT ![c] = x] /\ holder' = IF unacked' THEN Nobody ELSE c
  BY DEF Proceed
<1>2. /\ x \in CallRecord /\ x.pc # "admitted"
      /\ holder' = IF x.pc \in Rows THEN c ELSE Nobody
      /\ x.pc # "idle" => x.child \in Children
      /\ x.pc = "session" => pc = "session" /\ x.child = w /\ ~unacked'
  BY <1>1, IdleIsRecord DEF CallRecord, Rows, Children
<1> QED
  BY <1>1, <1>2

LEMMA ReturnMoves ==
    ASSUME NEW c \in Callers, Return(c)
    PROVE  /\ call' = [call EXCEPT ![c] = Idle] /\ Idle \in CallRecord /\ Idle.pc = "idle"
           /\ holder' = IF Idle.pc \in Rows THEN c ELSE Nobody
           /\ Idle.pc \notin {"admitted", "session"}
BY IdleIsRecord DEF Return, Rows

\* A caller that has a row to write has a child and the lock.
LEMMA HoldsLock ==
    ASSUME DInv, NEW c \in Callers, call[c].pc \in Rows
    PROVE  /\ holder = c /\ up /\ call[c].child \in Children
           /\ session \in [Children -> SessionStates]
BY DelegationConstants DEF DInv, CallInv, Rows

LEMMA HeartbeatStep ==
    ASSUME DInv, NEW c \in Callers, Heartbeat(c)
    PROVE  DInv'
<1> DEFINE w == call[c].child
<1>1. /\ AppendEvent(w, live, replay, "none") /\ Proceed(c, w, "bind") /\ session' = session
      /\ call[c].pc \in Rows
  BY DEF Heartbeat, At, Rows
<1>2. holder = c /\ w \in Children /\ session \in [Children -> SessionStates]
  BY <1>1, HoldsLock
<1> HIDE DEF w
<1>3. "bind" \in Rows /\ "none" \in Errors
  BY DEF Rows, Errors
<1>4. PICK x \in CallRecord :
        /\ call' = [call EXCEPT ![c] = x]
        /\ holder' = IF x.pc \in Rows THEN c ELSE Nobody
        /\ x.pc # "admitted"
        /\ x.pc # "idle" => x.child \in Children
        /\ x.pc # "session"
  <2>1. "bind" # "session"
    OBVIOUS
  <2> QED
    BY <1>1, <1>2, <1>3, <2>1, ProceedMoves
<1>5. Quiet(live, live) /\ Quiet(replay, replay)
  BY SameIsQuiet DEF DInv
<1> QED
  BY <1>1, <1>2, <1>3, <1>4, <1>5, RowStepOfCaller

LEMMA BindStepOfCaller ==
    ASSUME DInv, NEW c \in Callers, Bind(c)
    PROVE  DInv'
<1> DEFINE w == call[c].child
           l == BoundRun(live, w, RunOf[w])
           p == NoteRun(replay, w, RunOf[w])
<1>1. /\ AppendEvent(w, l, p, "none") /\ Proceed(c, w, "start") /\ session' = session
      /\ call[c].pc \in Rows
  BY DEF Bind, At, Rows, BoundRun
<1>2. holder = c /\ w \in Children /\ session \in [Children -> SessionStates]
  BY <1>1, HoldsLock
<1>3. "start" \in Rows /\ "none" \in Errors
  BY DEF Rows, Errors
<1>4. /\ live \in Projection /\ replay \in Projection
      /\ ShownHasEnded(live) /\ ShownHasEnded(replay)
  BY DEF DInv, JournalInv, TypeOK
<1> HIDE DEF w
<1>5. /\ Quiet(live, l)
      /\ l.works = live.works /\ l.parent = live.parent /\ l.shown = live.shown
      /\ \A v \in Children : \/ l.run[RunOf[v]] = live.run[RunOf[v]]
                             \/ live.run[RunOf[v]] = "none" /\ l.run[RunOf[v]] = "ready"
  BY <1>2, <1>4, BindIsQuiet
<1>6. Quiet(replay, p)
  BY <1>2, <1>4, NoteIsQuiet
<1>7. /\ p.works = replay.works /\ p.parent = replay.parent /\ p.shown = replay.shown
      /\ p.run = replay.run
  BY <1>4 DEF NoteRun, Projection
<1> HIDE DEF l, p
<1>8. Alike(live, replay) => Alike(l, p)
  BY <1>5, <1>7 DEF Alike, ReadsAs
<1>9. PICK x \in CallRecord :
        /\ call' = [call EXCEPT ![c] = x]
        /\ holder' = IF x.pc \in Rows THEN c ELSE Nobody
        /\ x.pc # "admitted"
        /\ x.pc # "idle" => x.child \in Children
        /\ x.pc # "session"
  <2>1. "start" # "session"
    OBVIOUS
  <2> QED
    BY <1>1, <1>2, <1>3, <2>1, ProceedMoves
<1> QED
  BY <1>1, <1>2, <1>3, <1>5, <1>6, <1>8, <1>9, RowStepOfCaller

\* A Run that may start has not ended, and its row is read as Running.
LEMMA MayStart ==
    ASSUME NEW p, NEW w, NEW r, ValidRunTransition(p, w, r, "running")
    PROVE  p.run[r] \notin TerminalStates /\ RunError(p, w, r, "running") = "none"
<1>1. p.run[r] = "none" \/ CanTransition(p.run[r], "running")
  BY DEF ValidRunTransition, EdgeAllowed
<1>2. p.run[r] \notin TerminalStates
  BY <1>1 DEF CanTransition, TerminalStates, WaitingStates
<1>3. "running" \notin TerminalStates
  BY DEF TerminalStates
<1> QED
  BY <1>2, <1>3 DEF ValidRunTransition, RunError

LEMMA RunErrorKnown ==
    ASSUME NEW p, NEW w, NEW r, NEW s
    PROVE  /\ RunError(p, w, r, s) \in Errors
           /\ RunError(p, w, r, s) = "none" => ValidRunTransition(p, w, r, s)
BY DEF RunError, Errors, ValidRunTransition

LEMMA StartStep ==
    ASSUME DInv, NEW c \in Callers, Start(c)
    PROVE  DInv'
<1>0. PICK w : w = call[c].child
  OBVIOUS
<1> DEFINE r == RunOf[w]
           l == SetRun(live, w, r, "running", "none")
           p == SetRun(replay, w, r, "running", "none")
           e == RunError(replay, w, r, "running")
<1>1. /\ MayRecord(w, r, "running")
      /\ AppendEvent(w, IF RunError(live, w, r, "running") = "none" THEN l ELSE NoteRun(live, w, r),
                     p, e)
      /\ Proceed(c, w, "session") /\ session' = session
      /\ call[c].pc \in Rows
  <2>1. EventState("running") = "running" /\ EventWait("running", "none") = "none"
    BY DEF EventState, EventWait
  <2> QED
    BY <1>0, <2>1 DEF Start, At, Rows, RecordExecutionTransition, RecordTransition, AppendTransition
<1>2. holder = c /\ w \in Children /\ session \in [Children -> SessionStates]
  BY <1>0, <1>1, HoldsLock
<1>3. "session" \in Rows /\ "running" \in {"running"} \cup TerminalStates
  BY DEF Rows
<1>4. /\ JournalInv /\ live \in Projection /\ replay \in Projection
      /\ ShownHasEnded(live) /\ ShownHasEnded(replay)
  BY DEF DInv, JournalInv, TypeOK
<1>5. live.run[r] \notin TerminalStates /\ RunError(live, w, r, "running") = "none"
  BY <1>1, MayStart DEF MayRecord
<1>6. e \in Errors /\ (e = "none" => replay.run[r] \notin TerminalStates)
  BY RunErrorKnown, MayStart
<1>7. AppendEvent(w, l, p, e)
  BY <1>1, <1>5
<1>8. /\ Quiet(live, l) /\ l.works = live.works /\ l.parent = live.parent
      /\ l.shown = [live.shown EXCEPT ![w] = "running"]
      /\ l.run = [live.run EXCEPT ![r] = "running"] /\ l.run[r] = "running"
  BY <1>2, <1>3, <1>4, <1>5, SetIsQuiet
<1>9. e = "none" =>
        /\ Quiet(replay, p) /\ p.works = replay.works /\ p.parent = replay.parent
        /\ p.shown = [replay.shown EXCEPT ![w] = "running"]
        /\ p.run = [replay.run EXCEPT ![r] = "running"] /\ p.run[r] = "running"
  BY <1>2, <1>3, <1>4, <1>6, SetIsQuiet
<1>10. \A v \in Children : v # w => RunOf[v] # r /\ RunOf[v] \in Runs
  BY <1>2, RunOfFacts
<1> HIDE DEF l, p, e, r
<1>11. e = "none" /\ Alike(live, replay) => Alike(l, p)
  BY <1>4, <1>8, <1>9, <1>10 DEF Alike, ReadsAs, Projection, r
<1>12. /\ JournalInv' /\ up /\ up'
       /\ (live' = l /\ unacked' = FALSE) \/ (live' = live /\ unacked' = TRUE)
       /\ w \in live.works
       /\ Active(live') \subseteq Active(live) /\ ChildrenOf(live') = ChildrenOf(live)
       /\ \A v \in Children : Started(v) => Started(v)'
       /\ err' = "none" => replay' = p /\ Quiet(replay, p) /\ w \in replay.works
  <2>1. JournalInv /\ e \in Errors /\ Quiet(live, l) /\ (e = "none" => Quiet(replay, p))
    BY <1>4, <1>6, <1>8, <1>9
  <2> QED
    BY <1>7, <1>11, <2>1, QuietRow
<1>13. err' = "none" => e = "none"
  BY <1>7 DEF AppendEvent, AppendRow, Durable, KnownWork
<1>14. PICK x \in CallRecord :
         /\ call' = [call EXCEPT ![c] = x]
         /\ holder' = IF x.pc \in Rows THEN c ELSE Nobody
         /\ x.pc # "admitted"
         /\ x.pc # "idle" => x.child \in Children
         /\ x.pc = "session" => x.child = w /\ ~unacked'
  BY <1>1, <1>2, <1>3, ProceedMoves
<1>15. ASSUME ~unacked' PROVE Started(w)' /\ ~Ended(w)'
  <2>1. live' = l
    BY <1>12, <1>15
  <2>2. "running" \notin TerminalStates \cup {"none", "ready"}
    BY DEF TerminalStates
  <2>3. /\ w \in live'.works /\ live'.run[RunOf[w]] = "running"
        /\ err' = "none" => w \in replay'.works /\ replay'.run[RunOf[w]] = "running"
    BY <1>8, <1>9, <1>12, <1>13, <2>1 DEF r
  <2> QED
    BY <2>2, <2>3 DEF Started, Ended
<1>16. x.pc = "session" => Started(x.child)' /\ ~Ended(x.child)'
  BY <1>14, <1>15
<1> QED
  BY <1>1, <1>2, <1>12, <1>14, <1>16, QuietCaller

LEMMA StartRefusedStep ==
    ASSUME DInv, NEW c \in Callers, StartRefused(c)
    PROVE  DInv'
<1>1. call[c].pc \in Rows /\ Return(c) /\ UNCHANGED gatewayVars /\ session' = session
  BY DEF StartRefused, At, Rows
<1>2. holder = c /\ up /\ session \in [Children -> SessionStates]
  BY <1>1, HoldsLock
<1>3. /\ JournalInv' /\ live' = live /\ up' = up
      /\ \A v \in Children : Started(v) => Started(v)'
  BY <1>1, SameJournal DEF DInv
<1>4. /\ call' = [call EXCEPT ![c] = Idle] /\ Idle \in CallRecord /\ Idle.pc = "idle"
      /\ holder' = IF Idle.pc \in Rows THEN c ELSE Nobody
      /\ Idle.pc \notin {"admitted", "session"}
  BY <1>1, ReturnMoves
<1> QED
  BY <1>1, <1>2, <1>3, <1>4, QuietCaller

LEMMA SpawnSubagentStep ==
    ASSUME DInv, NEW c \in Callers, SpawnSubagent(c)
    PROVE  DInv'
<1> DEFINE w == call[c].child
<1>1. /\ AppendEvent(w, live, replay, "none") /\ Return(c)
      /\ session' = IF unacked' THEN session ELSE [session EXCEPT ![w] = "spawned"]
      /\ call[c].pc \in Rows /\ At(c, "session")
  BY DEF SpawnSubagent, At, Rows
<1>2. holder = c /\ w \in Children /\ session \in [Children -> SessionStates]
  BY <1>1, HoldsLock
<1>3. Started(w)
  BY <1>1 DEF DInv, SessionInv
<1> HIDE DEF w
<1>4. session' \in [Children -> SessionStates]
  BY <1>1, <1>2 DEF SessionStates
<1>5. \A v \in Children : session'[v] # "none" => session[v] # "none" \/ Started(v)
  BY <1>1, <1>2, <1>3
<1>6. /\ call' = [call EXCEPT ![c] = Idle] /\ Idle \in CallRecord /\ Idle.pc = "idle"
      /\ holder' = IF Idle.pc \in Rows THEN c ELSE Nobody
      /\ Idle.pc \notin {"admitted", "session"}
  BY <1>1, ReturnMoves
<1>7. Quiet(live, live) /\ Quiet(replay, replay) /\ "none" \in Errors
  BY SameIsQuiet DEF DInv, Errors
<1> QED
  BY <1>1, <1>2, <1>4, <1>5, <1>6, <1>7, RowStepOfCaller

-----------------------------------------------------------------------------
(* The steps of a close.                                                   *)

LEMMA FinishStepOfCaller ==
    ASSUME DInv, NEW c \in Callers, NEW w \in Children, NEW s \in TerminalStates, Finish(c, w, s)
    PROVE  DInv'
<1> DEFINE r == RunOf[w]
           e == RunError(live, w, r, s)
           l == IF e = "none" THEN SetRun(live, w, r, s, "none") ELSE NoteRun(live, w, r)
           p == SetRun(replay, w, r, s, "none")
           d == RunError(replay, w, r, s)
<1>1. /\ ValidRunTransition(live, w, r, s)
      /\ AppendEvent(w, l, p, d)
      /\ IF e = "none" THEN Proceed(c, w, "terminate") ELSE Return(c)
      /\ session' = session /\ holder = Nobody
  BY DEF Finish, Free
<1>2. /\ live \in Projection /\ replay \in Projection
      /\ ShownHasEnded(live) /\ ShownHasEnded(replay)
      /\ session \in [Children -> SessionStates]
  BY DEF DInv, JournalInv, TypeOK, CallInv
<1>3. d \in Errors /\ s # "running" /\ s \in {"running"} \cup TerminalStates
  BY RunErrorKnown DEF TerminalStates
<1>4. /\ Quiet(replay, p) /\ p.works = replay.works /\ p.parent = replay.parent
      /\ p.shown = [replay.shown EXCEPT ![w] = s]
      /\ p.run = [replay.run EXCEPT ![r] = s]
  BY <1>2, <1>3, SetIsQuiet
<1>5. e = "none" =>
        /\ Quiet(live, l) /\ l.works = live.works /\ l.parent = live.parent
        /\ l.shown = [live.shown EXCEPT ![w] = s]
        /\ l.run = [live.run EXCEPT ![r] = s]
  BY <1>2, <1>3, SetIsQuiet
<1>6. e # "none" => Quiet(live, l)
  BY <1>2, NoteIsQuiet
<1>7. e # "none" /\ d = "none" => ~ Alike(live, replay)
  <2>1. SUFFICES ASSUME e # "none", Alike(live, replay) PROVE d # "none"
    OBVIOUS
  <2>2. live.run[r] = "none"
    BY <1>1, <2>1 DEF ValidRunTransition, RunError
  <2>3. replay.run[r] = "none"
    BY <2>1, <2>2 DEF Alike, ReadsAs
  <2> QED
    BY <2>3 DEF RunError
<1>8. \A v \in Children : v # w => RunOf[v] # r /\ RunOf[v] \in Runs
  BY RunOfFacts
<1>9. r \in Runs /\ w \in Works
  BY RunOfFacts
<1> HIDE DEF l, p, d, e, r
<1>10. d = "none" /\ Alike(live, replay) => Alike(l, p)
  BY <1>2, <1>4, <1>5, <1>7, <1>8, <1>9 DEF Alike, ReadsAs, Projection, r
<1>11. PICK x \in CallRecord :
         /\ call' = [call EXCEPT ![c] = x]
         /\ holder' = IF x.pc \in Rows THEN c ELSE Nobody
         /\ x.pc # "admitted"
         /\ x.pc # "idle" => x.child \in Children
         /\ x.pc # "session"
  <2>1. CASE e = "none"
    <3>1. "terminate" \in Rows /\ "terminate" # "session"
      BY DEF Rows
    <3> QED
      BY <1>1, <2>1, <3>1, ProceedMoves
  <2>2. CASE e # "none"
    BY <1>1, <2>2, ReturnMoves
  <2> QED
    BY <2>1, <2>2
<1>12. Quiet(live, l)
  BY <1>5, <1>6
<1> QED
  BY <1>1, <1>2, <1>3, <1>4, <1>10, <1>11, <1>12, RowStepOfCaller

LEMMA TerminateStep ==
    ASSUME DInv, NEW c \in Callers, Terminate(c)
    PROVE  DInv'
<1> DEFINE w == call[c].child
<1>1. call[c].pc \in Rows /\ Return(c)
  BY DEF Terminate, At, Rows
<1>2. holder = c /\ up /\ w \in Children /\ session \in [Children -> SessionStates]
  BY <1>1, HoldsLock
<1>3. /\ call' = [call EXCEPT ![c] = Idle] /\ Idle \in CallRecord /\ Idle.pc = "idle"
      /\ holder' = IF Idle.pc \in Rows THEN c ELSE Nobody
      /\ Idle.pc \notin {"admitted", "session"}
  BY <1>1, ReturnMoves
<1>4. CASE session[w] = "none"
  <2>1. UNCHANGED gatewayVars /\ session' = session
    BY <1>4 DEF Terminate
  <2>2. /\ JournalInv' /\ live' = live /\ up' = up
        /\ \A v \in Children : Started(v) => Started(v)'
    BY <2>1, SameJournal DEF DInv
  <2> QED
    BY <1>2, <1>3, <2>1, <2>2, QuietCaller
<1>5. CASE session[w] # "none"
  <2>1. /\ AppendEvent(w, live, replay, "none")
        /\ session' = IF unacked' THEN session ELSE [session EXCEPT ![w] = "terminated"]
    BY <1>5 DEF Terminate
  <2> HIDE DEF w
  <2>2. session' \in [Children -> SessionStates]
    BY <1>2, <2>1 DEF SessionStates
  <2>3. \A v \in Children : session'[v] # "none" => session[v] # "none"
    BY <1>2, <1>5, <2>1
  <2>4. Quiet(live, live) /\ Quiet(replay, replay) /\ "none" \in Errors
    BY SameIsQuiet DEF DInv, Errors
  <2> QED
    BY <1>2, <1>3, <2>1, <2>2, <2>3, <2>4, RowStepOfCaller
<1> QED
  BY <1>4, <1>5

-----------------------------------------------------------------------------
(* Faults, restart and the delegating Work.                                *)

LEMMA WriteFailsStep ==
    ASSUME DInv, NEW c \in Callers, WriteFails(c)
    PROVE  DInv'
<1>1. /\ up /\ Return(c) /\ session' = session
      /\ call[c].pc \in Rows \/ holder = Nobody
      /\ UNCHANGED gatewayVars \/ (TornWrite /\ up')
  BY DEF WriteFails, Free
<1>2. /\ holder \in {c, Nobody} /\ session \in [Children -> SessionStates]
      /\ JournalInv
  BY <1>1, HoldsLock DEF DInv, CallInv
<1>3. /\ call' = [call EXCEPT ![c] = Idle] /\ Idle \in CallRecord /\ Idle.pc = "idle"
      /\ holder' = IF Idle.pc \in Rows THEN c ELSE Nobody
      /\ Idle.pc \notin {"admitted", "session"}
  BY <1>1, ReturnMoves
<1>4. /\ JournalInv' /\ live' = live /\ up'
      /\ \A v \in Children : Started(v) => Started(v)'
  <2>1. CASE UNCHANGED gatewayVars
    BY <1>1, <1>2, <2>1, SameJournal
  <2>2. CASE TornWrite /\ up'
    <3>1. /\ up' /\ live' = live /\ unacked' = unacked /\ replay' = replay
          /\ err' # "none" /\ err' \in Errors /\ resolving' = NotResolving /\ steered' = steered
      BY <1>2, <2>2 DEF TornWrite, JournalInv, TypeOK, Errors
    <3>2. TypeOK'
      BY <1>2, <3>1 DEF JournalInv, TypeOK, Errors, NotResolving
    <3>3. JournalInv'
      BY <1>2, <3>1, <3>2 DEF JournalInv, ShownHasEnded, PresenceIsTerminal
    <3> QED
      BY <3>1, <3>3 DEF Started
  <2> QED
    BY <1>1, <2>1, <2>2
<1> QED
  BY <1>1, <1>2, <1>3, <1>4, QuietCaller

LEMMA BeginStep ==
    ASSUME DInv, BeginWork
    PROVE  DInv'
<1>1. /\ holder = Nobody /\ up /\ AppendCreated(Root, NoWork)
      /\ call' = call /\ holder' = holder /\ session' = session
  BY DEF BeginWork, Free, CreateWork
<1>2. JournalInv /\ CallInv /\ SessionInv /\ CapOvershoot
  BY DEF DInv
<1>3. Root \in Works /\ NoWork \in Works \cup {NoWork} /\ {Root} \cap Children = {}
  BY DelegationConstants DEF Children
<1>4. /\ up'
      /\ TypeOK' /\ ShownHasEnded(live)' /\ ShownHasEnded(replay)'
      /\ (~unacked' /\ err' = "none") => Alike(live', replay')
      /\ Active(live') \subseteq Active(live) /\ ChildrenOf(live') \subseteq ChildrenOf(live)
      /\ err' = "none" =>
            /\ err = "none"
            /\ Active(replay') \subseteq Active(replay)
            /\ ChildrenOf(replay') \subseteq ChildrenOf(replay)
      /\ \A v \in Children : Started(v) => Started(v)'
  BY <1>1, <1>2, <1>3, CreatedRow
<1>5. err' = "none" => Within(replay', 0)
  BY <1>2, <1>4, WithinShrinks DEF JournalInv
<1>6. JournalInv'
  BY <1>4, <1>5 DEF JournalInv, Alike, ReadsAs, Within, Active, ChildrenOf, PresenceIsTerminal
<1>7. CallInv'
  BY <1>1, <1>2, <1>4 DEF CallInv, At
<1>8. \A c \in Callers : ~ At(c, "session")
  BY <1>1, <1>2, DelegationConstants DEF At, CallInv, Rows
<1>9. SessionInv'
  BY <1>1, <1>2, <1>4, <1>8 DEF SessionInv, At
<1>10. Promised' = Promised
  BY <1>1 DEF Promised, At
<1>11. Cardinality(Promised) \in Nat
  BY FinitePromises
<1>12. Within(live', Cardinality(Promised'))
  BY <1>1, <1>2, <1>4, <1>10, <1>11, WithinShrinks DEF CapOvershoot
<1>13. CapOvershoot'
  BY <1>12 DEF CapOvershoot, Within, Active, ChildrenOf, PresenceIsTerminal
<1> QED
  BY <1>6, <1>7, <1>9, <1>13 DEF DInv

\* A program that has just begun, or has stopped, counts no child.
LEMMA EmptyCounts ==
    /\ EmptyProjection \in Projection
    /\ ShownHasEnded(EmptyProjection)
    /\ Within(EmptyProjection, 0)
<1>1. EmptyProjection \in Projection
  BY EmptyIsSound
<1>2. EmptyProjection.works = {} /\ EmptyProjection.shown = [w \in Works |-> "none"]
  BY DEF EmptyProjection
<1>3. ShownHasEnded(EmptyProjection)
  BY <1>2 DEF ShownHasEnded, PresenceIsTerminal, TerminalStates, Children
<1>4. ChildrenOf(EmptyProjection) = {} /\ Active(EmptyProjection) = {}
  BY <1>2 DEF ChildrenOf, Active
<1>5. Cardinality({}) = 0
  BY FS_EmptySet
<1>6. /\ Cardinality(Callers) \in Nat /\ Cardinality(Callers) >= 1
      /\ MaxConcurrent \in Nat /\ MaxTotal \in Nat
  BY Finite, DelegationConstants
<1>7. Within(EmptyProjection, 0)
  BY <1>4, <1>5, <1>6 DEF Within
<1> QED
  BY <1>1, <1>3, <1>7

LEMMA StopStep ==
    ASSUME DInv, Stop
    PROVE  DInv'
<1>1. /\ up' = FALSE /\ live' = EmptyProjection /\ unacked' = FALSE
      /\ resolving' = NotResolving /\ replay' = replay /\ err' = err /\ steered' = steered
      /\ call' = [c \in Callers |-> Idle] /\ holder' = Nobody
      /\ session' = [w \in Children |-> "none"]
  BY DEF Stop, Crash
<1>2. JournalInv
  BY DEF DInv
<1>3. EmptyProjection \in Projection /\ ShownHasEnded(EmptyProjection)
  BY EmptyCounts
<1>4. TypeOK'
  BY <1>1, <1>2, <1>3 DEF JournalInv, TypeOK, NotResolving
<1>5. ShownHasEnded(live)'
  <2>1. ShownHasEnded(live')
    BY <1>1, <1>3
  <2> QED
    BY <2>1 DEF ShownHasEnded, PresenceIsTerminal
<1>6. ShownHasEnded(replay)' /\ (err' = "none" => Within(replay, 0)')
  BY <1>1, <1>2 DEF JournalInv, ShownHasEnded, PresenceIsTerminal, Within, Active, ChildrenOf
<1>7. JournalInv'
  BY <1>1, <1>4, <1>5, <1>6 DEF JournalInv
<1>8. CallInv'
  <2>1. call' \in [Callers -> CallRecord] /\ \A c \in Callers : call'[c].pc = "idle"
    BY <1>1, IdleIsRecord
  <2>2. session' \in [Children -> SessionStates]
    BY <1>1 DEF SessionStates
  <2>3. "idle" \notin Rows /\ Nobody \notin Callers
    BY DelegationConstants DEF Rows
  <2> QED
    BY <1>1, <2>1, <2>2, <2>3 DEF CallInv, CallRecord, At
<1>9. SessionInv'
  BY <1>1, IdleIsRecord DEF SessionInv, At
<1> QED
  BY <1>1, <1>7, <1>8, <1>9 DEF DInv, CapOvershoot

LEMMA RestartStep ==
    ASSUME DInv, Restart
    PROVE  DInv'
<1>1. /\ ~up /\ up' = TRUE /\ live' = replay /\ replay' = replay /\ err' = err /\ err = "none"
      /\ unacked' = unacked /\ resolving' = resolving /\ steered' = steered
      /\ call' = call /\ holder' = holder /\ session' = session
  BY DEF Restart, Open, OpenSucceeds
<1>2. JournalInv /\ CallInv /\ SessionInv
  BY DEF DInv
<1>3. TypeOK'
  BY <1>1, <1>2 DEF JournalInv, TypeOK
<1>4. ShownHasEnded(live)' /\ ShownHasEnded(replay)'
  BY <1>1, <1>2 DEF JournalInv, ShownHasEnded, PresenceIsTerminal
<1>5. Alike(live, replay)'
  BY <1>1 DEF Alike, ReadsAs
<1>6. Within(replay, 0)
  BY <1>1, <1>2 DEF JournalInv
<1>7. Within(replay, 0)'
  BY <1>1, <1>6 DEF Within, Active, ChildrenOf, PresenceIsTerminal
<1>8. JournalInv'
  BY <1>3, <1>4, <1>5, <1>7 DEF JournalInv
<1>9. CallInv' /\ (\A c \in Callers : At(c, "idle") /\ At(c, "idle")')
  BY <1>1, <1>2 DEF CallInv, At
<1>10. SessionInv'
  BY <1>1, <1>2, <1>9 DEF SessionInv, At
<1>11. Promised' = {}
  BY <1>9 DEF Promised, At
<1>12. Within(live', Cardinality(Promised'))
  BY <1>1, <1>6, <1>11, FS_EmptySet
<1>13. CapOvershoot'
  BY <1>12 DEF CapOvershoot, Within, Active, ChildrenOf, PresenceIsTerminal
<1> QED
  BY <1>8, <1>9, <1>10, <1>13 DEF DInv

LEMMA StutterKeeps ==
    ASSUME DInv, UNCHANGED delegationVars
    PROVE  DInv'
<1>1. UNCHANGED gatewayVars /\ call' = call /\ holder' = holder /\ session' = session
  BY DEF delegationVars
<1>2. /\ JournalInv' /\ live' = live /\ up' = up
      /\ \A v \in Children : Started(v) => Started(v)'
  BY <1>1, SameJournal DEF DInv
<1>3. CallInv'
  BY <1>1, <1>2 DEF DInv, CallInv, At
<1>4. SessionInv'
  BY <1>1, <1>2 DEF DInv, CallInv, SessionInv, At, Ended, Rows
<1>5. CapOvershoot'
  BY <1>1, <1>2 DEF DInv, CapOvershoot, Promised, At, Within, Active, ChildrenOf, PresenceIsTerminal
<1> QED
  BY <1>2, <1>3, <1>4, <1>5 DEF DInv

-----------------------------------------------------------------------------
(* The theorems.                                                           *)

LEMMA InitDInv == DelegationInit => DInv
<1> SUFFICES ASSUME DelegationInit PROVE DInv
  OBVIOUS
<1>1. /\ up = TRUE /\ live = EmptyProjection /\ replay = EmptyProjection
      /\ err = "none" /\ unacked = FALSE /\ resolving = NotResolving /\ steered = {}
      /\ call = [c \in Callers |-> Idle] /\ holder = Nobody
      /\ session = [w \in Children |-> "none"]
  BY DEF DelegationInit, Init
<1>2. /\ EmptyProjection \in Projection /\ ShownHasEnded(EmptyProjection)
      /\ Within(EmptyProjection, 0)
  BY EmptyCounts
<1>3. TypeOK
  BY <1>1, <1>2 DEF TypeOK, NotResolving
<1>4. JournalInv
  BY <1>1, <1>2, <1>3 DEF JournalInv, Alike, ReadsAs
<1>5. call \in [Callers -> CallRecord] /\ \A c \in Callers : call[c].pc = "idle"
  BY <1>1, IdleIsRecord
<1>6. session \in [Children -> SessionStates]
  BY <1>1 DEF SessionStates
<1>7. "idle" \notin Rows /\ Nobody \notin Callers
  BY DelegationConstants DEF Rows
<1>8. CallInv
  BY <1>1, <1>5, <1>6, <1>7 DEF CallInv, CallRecord, At
<1>9. SessionInv
  BY <1>1, <1>5 DEF SessionInv, At
<1>10. Promised = {}
  BY <1>5 DEF Promised, At
<1>11. CapOvershoot
  BY <1>1, <1>2, <1>10, FS_EmptySet DEF CapOvershoot
<1> QED
  BY <1>4, <1>8, <1>9, <1>11 DEF DInv

LEMMA NextDInv == DInv /\ [DelegationNext]_delegationVars => DInv'
<1> SUFFICES ASSUME DInv, [DelegationNext]_delegationVars PROVE DInv'
  OBVIOUS
<1>1. ASSUME NEW c \in Callers, Spawn(c) PROVE DInv'
  BY <1>1, AskStep, CreateStep, HeartbeatStep, BindStepOfCaller, StartStep, StartRefusedStep,
     SpawnSubagentStep DEF Spawn
<1>2. ASSUME NEW c \in Callers, Close(c) PROVE DInv'
  BY <1>2, FinishStepOfCaller, TerminateStep DEF Close
<1>3. ASSUME NEW c \in Callers, WriteFails(c) PROVE DInv'
  BY <1>3, WriteFailsStep
<1>4. CASE BeginWork \/ Stop \/ Restart
  BY <1>4, BeginStep, StopStep, RestartStep
<1>5. CASE RestartRefused \/ UNCHANGED delegationVars
  BY <1>5, StutterKeeps DEF RestartRefused
<1> QED
  BY <1>1, <1>2, <1>3, <1>4, <1>5 DEF DelegationNext

\* The inductive invariant holds in every reachable state.
THEOREM DelegationInvariant == DelegationSpec => []DInv
BY InitDInv, NextDInv, PTL DEF DelegationSpec

\* Types, and that a caller with rows to write holds the gateway's lock.
THEOREM DelegationTypeCorrect == DelegationSpec => []DelegationTypeOK
<1>1. DInv => DelegationTypeOK
  BY DEF DInv, JournalInv, CallInv, DelegationTypeOK
<1> QED
  BY <1>1, DelegationInvariant, PTL

\* The check before the lock is given back lets the limits be passed, by as
\* many children as there are other callers and never more (delegation_gauge,
\* DelegationPolicy::admit), through crashes and restarts.
THEOREM LimitsArePassedByCallersOnly == DelegationSpec => []CapOvershoot
<1>1. DInv => CapOvershoot
  BY DEF DInv
<1> QED
  BY <1>1, DelegationInvariant, PTL

\* No agent session exists for a child whose start a restart would not find
\* (delegate_child_work).
THEOREM SessionsAreBacked == DelegationSpec => []SessionBacked
<1>1. DInv => SessionBacked
  BY DEF DInv, SessionInv, Started, SessionBacked
<1> QED
  BY <1>1, DelegationInvariant, PTL

-----------------------------------------------------------------------------
(* Sessions that outlive their child.                                      *)

\* No step of a spawn, and no failing append, ends the Run of a child.
LEMMA SpawnEndsNoRun ==
    ASSUME DInv, NEW c \in Callers, Spawn(c) \/ WriteFails(c), NEW v \in Children
    PROVE  Ended(v)' => Ended(v)
<1>1. live \in Projection /\ live.run \in [Runs -> OptStates] /\ RunOf[v] \in Runs
  BY RunOfFacts DEF DInv, JournalInv, TypeOK, Projection
<1>2. ASSUME UNCHANGED gatewayVars PROVE Ended(v)' => Ended(v)
  BY <1>2 DEF gatewayVars, Ended
<1>3. ASSUME NEW w, NEW p, NEW e, AppendEvent(w, live, p, e) PROVE Ended(v)' => Ended(v)
  BY <1>3 DEF AppendEvent, AppendRow, Acknowledge, Ended
<1>4. ASSUME Create(c), call[c].child \notin live.works PROVE Ended(v)' => Ended(v)
  <2>1. live' = live \/ live' = AddWork(live, call[c].child, Root)
    BY <1>4 DEF Create, CreateChildWork, AppendCreated, Acknowledge
  <2>2. live'.run = live.run
    BY <1>1, <2>1 DEF AddWork, Projection
  <2> QED
    BY <2>2 DEF Ended
<1>5. ASSUME Bind(c) PROVE Ended(v)' => Ended(v)
  <2> DEFINE w == call[c].child
  <2>1. /\ call[c].pc \in Rows
        /\ live' = live \/ live' = BoundRun(live, w, RunOf[w])
    BY <1>5 DEF Bind, At, Rows, BoundRun, AppendEvent, AppendRow, Acknowledge
  <2>2. w \in Children /\ ShownHasEnded(live)
    BY <2>1, HoldsLock DEF DInv, JournalInv
  <2> HIDE DEF w
  <2>3. \/ live'.run[RunOf[v]] = live.run[RunOf[v]]
        \/ live'.run[RunOf[v]] = "ready"
    BY <1>1, <2>1, <2>2, BindIsQuiet
  <2> QED
    BY <2>3 DEF Ended, TerminalStates
<1>6. ASSUME Start(c) PROVE Ended(v)' => Ended(v)
  <2> DEFINE w == call[c].child
  <2>1. /\ call[c].pc \in Rows
        /\ \/ live' = live \/ live' = NoteRun(live, w, RunOf[w])
           \/ live' = SetRun(live, w, RunOf[w], "running", "none")
    BY <1>6 DEF Start, At, Rows, RecordExecutionTransition, RecordTransition, AppendTransition,
                AppendEvent, AppendRow, Acknowledge
  <2>2. w \in Children /\ w \in Works /\ RunOf[w] \in Runs
    BY <2>1, HoldsLock, RunOfFacts
  <2> HIDE DEF w
  <2>3. /\ NoteRun(live, w, RunOf[w]).run = live.run
        /\ SetRun(live, w, RunOf[w], "running", "none").run = [live.run EXCEPT ![RunOf[w]] = "running"]
    BY <1>1, <2>2 DEF SetRun, NoteRun, Projection
  <2>4. live'.run[RunOf[v]] = live.run[RunOf[v]] \/ live'.run[RunOf[v]] = "running"
    BY <1>1, <2>1, <2>3
  <2> QED
    BY <2>4 DEF Ended, TerminalStates
<1>7. ASSUME WriteFails(c) PROVE Ended(v)' => Ended(v)
  <2>1. live' = live
    <3>1. CASE TornWrite /\ up'
      BY <3>1 DEF TornWrite
    <3> QED
      BY <1>7, <3>1 DEF WriteFails, gatewayVars
  <2> QED
    BY <2>1 DEF Ended
<1> QED
  BY <1>2, <1>3, <1>4, <1>5, <1>6, <1>7
     DEF Spawn, Ask, Create, Heartbeat, StartRefused, SpawnSubagent

\* A close that ends a Run goes on to terminate the session of that child.
LEMMA FinishTerminatesNext ==
    ASSUME DInv, NEW c \in Callers, NEW w \in Children, NEW s \in TerminalStates,
           Finish(c, w, s), NEW v \in Children, Ended(v)', ~Ended(v)
    PROVE  call'[c] = [pc |-> "terminate", child |-> v]
<1> DEFINE r == RunOf[w]
           e == RunError(live, w, r, s)
<1>1. /\ live' = live \/ (unacked' = FALSE /\ live' = IF e = "none" THEN SetRun(live, w, r, s, "none")
                                                     ELSE NoteRun(live, w, r))
      /\ IF e = "none" THEN Proceed(c, w, "terminate") ELSE Return(c)
  BY DEF Finish, AppendEvent, AppendRow, Acknowledge
<1>2. /\ live \in Projection /\ live.run \in [Runs -> OptStates]
      /\ r \in Runs /\ RunOf[v] \in Runs /\ (v # w => RunOf[v] # r)
      /\ call \in [Callers -> CallRecord]
  BY RunOfFacts DEF DInv, JournalInv, TypeOK, Projection, CallInv, CallRecord
<1> HIDE DEF r, e
<1>3. /\ NoteRun(live, w, r).run = live.run
      /\ SetRun(live, w, r, s, "none").run = [live.run EXCEPT ![r] = s]
  BY <1>2 DEF SetRun, NoteRun, Projection
<1>4. live'.run[RunOf[v]] # live.run[RunOf[v]]
  BY DEF Ended
<1>5. e = "none" /\ unacked' = FALSE /\ v = w
  BY <1>1, <1>2, <1>3, <1>4
<1> QED
  BY <1>1, <1>2, <1>5 DEF Proceed

\* An agent session outlives its child's Run only when its own termination
\* fails to be written (finish_child_work, terminate_agent_session).
THEOREM OnlyAFaultLeaksASession == DelegationSpec => LeakNeedsFault
<1>1. ASSUME DInv, DelegationNext, NEW w \in Children, ~Leaked(w), Leaked(w)'
      PROVE  \E c \in Callers : call[c] = [pc |-> "terminate", child |-> w]
  <2> SUFFICES ASSUME \A c \in Callers : call[c] # [pc |-> "terminate", child |-> w]
               PROVE  FALSE
    OBVIOUS
  <2>1. /\ ~(Ended(w) /\ session[w] = "spawned")
        /\ Ended(w)' /\ session'[w] = "spawned"
        /\ \A c \in Callers : call'[c] # [pc |-> "terminate", child |-> w]
    BY <1>1 DEF Leaked
  <2>2. session \in [Children -> SessionStates]
    BY <1>1 DEF DInv, CallInv
  <2>3. ASSUME NEW c \in Callers, SpawnSubagent(c) PROVE FALSE
    <3> DEFINE x == call[c].child
    <3>1. /\ At(c, "session") /\ live' = live
          /\ session' = session \/ session' = [session EXCEPT ![x] = "spawned"]
      BY <2>3 DEF SpawnSubagent, AppendEvent, AppendRow, Acknowledge
    <3>2. ~Ended(x)
      BY <1>1, <3>1 DEF DInv, SessionInv
    <3>3. Ended(w)
      BY <2>1, <3>1 DEF Ended
    <3> HIDE DEF x
    <3> QED
      BY <2>1, <2>2, <3>1, <3>2, <3>3
  <2>4. ASSUME NEW c \in Callers, Spawn(c) \/ WriteFails(c), session' = session PROVE FALSE
    BY <1>1, <2>1, <2>4, SpawnEndsNoRun
  <2>5. ASSUME NEW c \in Callers, Spawn(c) PROVE FALSE
    BY <2>3, <2>4, <2>5 DEF Spawn, Ask, Create, Heartbeat, Bind, Start, StartRefused
  <2>6. ASSUME NEW c \in Callers, NEW x \in Children, NEW s \in TerminalStates, Finish(c, x, s)
        PROVE  FALSE
    <3>1. session' = session
      BY <2>6 DEF Finish
    <3> QED
      BY <1>1, <2>1, <2>6, <3>1, FinishTerminatesNext
  <2>7. ASSUME NEW c \in Callers, Terminate(c) PROVE FALSE
    <3>1. /\ live' = live
          /\ session' = session \/ session' = [session EXCEPT ![call[c].child] = "terminated"]
      BY <2>7 DEF Terminate, gatewayVars, AppendEvent, AppendRow, Acknowledge
    <3>2. Ended(w) /\ session[w] = "spawned"
      BY <2>1, <2>2, <3>1 DEF Ended
    <3> QED
      BY <2>1, <3>2
  <2>8. ASSUME NEW c \in Callers, WriteFails(c) PROVE FALSE
    BY <2>4, <2>8 DEF WriteFails
  <2>9. CASE BeginWork
    <3>1. session' = session /\ (live' = live \/ live' = AddWork(live, Root, NoWork))
      BY <2>9 DEF BeginWork, CreateWork, AppendCreated, Acknowledge
    <3>2. live'.run = live.run
      BY <1>1, <3>1 DEF AddWork, Projection, DInv, JournalInv, TypeOK
    <3> QED
      BY <2>1, <3>1, <3>2 DEF Ended
  <2>10. CASE Stop
    BY <2>1, <2>10 DEF Stop
  <2>11. CASE Restart
    <3>1. session[w] = "spawned" /\ ~up
      BY <2>1, <2>11 DEF Restart, Open
    <3> QED
      BY <1>1, <3>1 DEF DInv, SessionInv
  <2>12. CASE RestartRefused
    BY <2>1, <2>12 DEF RestartRefused, delegationVars, gatewayVars, Ended
  <2> QED
    BY <1>1, <2>5, <2>6, <2>7, <2>8, <2>9, <2>10, <2>11, <2>12 DEF DelegationNext, Close
<1>2. DInv /\ [DelegationNext]_delegationVars =>
        [\A w \in Children : (~Leaked(w) /\ Leaked(w)') =>
            \E c \in Callers : call[c] = [pc |-> "terminate", child |-> w]]_delegationVars
  BY <1>1
<1> QED
  BY <1>2, DelegationInvariant, PTL DEF DelegationSpec, LeakNeedsFault
=============================================================================
