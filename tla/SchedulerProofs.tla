--------------------------- MODULE SchedulerProofs ---------------------------
(***************************************************************************)
(* Proofs about the trigger plane, for every set of jobs, delivery keys    *)
(* and dispatchers.                                                        *)
(*                                                                         *)
(* The safety properties and the refinement rest on one relation: the file *)
(* is the registry in memory or one operation ahead of it (Moves).  That   *)
(* is what handle's second write leaves behind when it fails, and it is    *)
(* enough: a restart then completes the operation the caller was told had  *)
(* failed, which is a step of OccurrenceAdmission.                         *)
(***************************************************************************)
EXTENDS Scheduler, TLAPS

-----------------------------------------------------------------------------
(* One operation on the states of the occurrences, ran being those with a  *)
(* bound Run.                                                              *)

OccStates == [Occs -> OccurrenceState]

AdmitsSome(a, b) == \A o \in Occs : b[o] # a[o] => a[o] = "none" /\ b[o] = "pending"

SettlesOne(a, b, ran) ==
    \E o \in Occs :
        /\ a[o] \in Unsettled
        /\ \/ b = [a EXCEPT ![o] = "uncertain"]
           \/ b = [a EXCEPT ![o] = "cancelled"]
           \/ o \in ran /\ b = [a EXCEPT ![o] = "terminal"]

Moves(a, b, ran) == AdmitsSome(a, b) \/ SettlesOne(a, b, ran)

Ran == {o \in Occs : work[o] = Bound}

\* A registry that is well formed and whose open occurrences have their job.
Sound(s) ==
    /\ s \in Registry
    /\ \A o \in Occs : s.occ[o] \in Unsettled => s.job[o.job].gen = o.gen

\* The occurrences with a Work are known, the advanced ones have a Run.
Knows(a) ==
    \A o \in Occs :
        /\ work[o] > 0 => a[o] # "none"
        /\ a[o] = "terminal" => work[o] = Bound

DispatcherType ==
    [pc   : {"idle", "loop", "dispatch", "advance", "failed"},
     t    : 0..MaxTime,
     todo : SUBSET Occs,
     occ  : Occs \cup {NoOcc}]

\* A dispatcher works on an occurrence that is known, and advances it when
\* its Run is bound.
DispatcherSound(p) ==
    /\ p.pc \in {"dispatch", "advance", "failed"} =>
          p.occ \in Occs /\ mem.occ[p.occ] # "none"
    /\ p.pc = "advance" => work[p.occ] = Bound

StoreInv ==
    /\ now \in 0..MaxTime
    /\ work \in [Occs -> Stages]
    /\ Sound(mem) /\ Sound(disk)
    /\ Knows(mem.occ) /\ Knows(disk.occ)
    /\ Moves(mem.occ, disk.occ, Ran)

DispInv ==
    /\ disp \in [Dispatchers -> DispatcherType]
    /\ \A d \in Dispatchers : DispatcherSound(disp[d])

\* The inductive invariant.
SchedInv == StoreInv /\ DispInv

-----------------------------------------------------------------------------
(* Facts about Moves.                                                      *)

\* An operation that changes nothing.
LEMMA MovesStay == ASSUME NEW a \in OccStates, NEW ran PROVE Moves(a, a, ran)
BY DEF Moves, AdmitsSome

\* What is known stays known, and what is known of Works and Runs stays true.
LEMMA MovesKeeps ==
    ASSUME NEW a \in OccStates, NEW b \in OccStates, Moves(a, b, Ran), Knows(a)
    PROVE  /\ Knows(b)
           /\ \A o \in Occs : a[o] # "none" => b[o] # "none"
<1>1. CASE AdmitsSome(a, b)
  BY <1>1 DEF AdmitsSome, Knows
<1>2. CASE SettlesOne(a, b, Ran)
  <2>1. PICK o \in Occs :
            /\ a[o] \in Unsettled
            /\ \/ b = [a EXCEPT ![o] = "uncertain"]
               \/ b = [a EXCEPT ![o] = "cancelled"]
               \/ o \in Ran /\ b = [a EXCEPT ![o] = "terminal"]
    BY <1>2 DEF SettlesOne
  <2>2. o \in Ran => work[o] = Bound
    BY DEF Ran
  <2>3. \A q \in Occs : q # o => b[q] = a[q]
    BY <2>1 DEF OccStates
  <2>4. b[o] \in {"uncertain", "cancelled", "terminal"} /\ (b[o] = "terminal" => o \in Ran)
    BY <2>1 DEF OccStates
  <2>5. QED
    BY <2>1, <2>2, <2>3, <2>4 DEF Knows, Unsettled
<1>3. QED
  BY <1>1, <1>2 DEF Moves

\* More Runs allow more.
LEMMA MovesGrows ==
    ASSUME NEW a, NEW b, NEW ran, NEW ran2, ran \subseteq ran2, Moves(a, b, ran)
    PROVE  Moves(a, b, ran2)
BY DEF Moves, SettlesOne

-----------------------------------------------------------------------------
(* The operations of the registry: each keeps it sound and moves the       *)
(* occurrences by one operation.                                           *)

\* compute_next_run of a time in range.
LEMMA NextRunInRange ==
    ASSUME NEW kind \in Kinds, NEW t \in 0..MaxTime
    PROVE  ComputeNextRun(kind, t) \in 0..(MaxTime + 1)
BY SchedulerConstants DEF ComputeNextRun

\* Parts of a sound registry.
LEMMA SoundParts ==
    ASSUME NEW s, Sound(s)
    PROVE  /\ s = [job |-> s.job, gens |-> s.gens, occ |-> s.occ]
           /\ s.job \in [Jobs -> JobRecord]
           /\ s.gens \in [Jobs -> 0..MaxGen]
           /\ s.occ \in OccStates
           /\ \A o \in Occs : s.occ[o] \in Unsettled => s.job[o.job].gen = o.gen
BY DEF Sound, Registry, OccStates

\* How a registry is shown to be sound.
LEMMA SoundFrom ==
    ASSUME NEW job \in [Jobs -> JobRecord], NEW gens \in [Jobs -> 0..MaxGen],
           NEW occ \in OccStates,
           \A o \in Occs : occ[o] \in Unsettled => job[o.job].gen = o.gen
    PROVE  Sound([job |-> job, gens |-> gens, occ |-> occ])
BY DEF Sound, Registry, OccStates

\* Parts of an occurrence's id.
LEMMA OccParts ==
    ASSUME NEW o \in Occs
    PROVE  o.job \in Jobs /\ o.gen \in 1..MaxGen /\ o.trig \in Times \cup Keys
BY DEF Occs

\* The next run of a job may be set to any time in range.
LEMMA JobsWithNext ==
    ASSUME NEW job \in [Jobs -> JobRecord], NEW j \in Jobs, NEW n \in 0..(MaxTime + 1)
    PROVE  /\ [job EXCEPT ![j].next = n] \in [Jobs -> JobRecord]
           /\ \A i \in Jobs : [job EXCEPT ![j].next = n][i].gen = job[i].gen
BY DEF JobRecord

\* Rescheduled only changes when a job runs next.
LEMMA RescheduledJobs ==
    ASSUME NEW s, Sound(s), NEW o \in Occs, NEW t,
           IsTick(o) => t \in 0..MaxTime
    PROVE  /\ Rescheduled(s, o, t) \in [Jobs -> JobRecord]
           /\ \A j \in Jobs : Rescheduled(s, o, t)[j].gen = s.job[j].gen
<1>1. s.job \in [Jobs -> JobRecord] /\ o.job \in Jobs
  BY SoundParts, OccParts
<1>2. s.job[o.job].kind \in Kinds
  BY <1>1 DEF JobRecord
<1>3. CASE IsTick(o) /\ s.job[o.job].gen > 0
  <2>1. ComputeNextRun(s.job[o.job].kind, t) \in 0..(MaxTime + 1)
    BY <1>2, <1>3, NextRunInRange
  <2>2. Rescheduled(s, o, t) =
            [s.job EXCEPT ![o.job].next = ComputeNextRun(s.job[o.job].kind, t)]
    BY <1>3 DEF Rescheduled
  <2>3. QED
    BY <1>1, <2>1, <2>2, JobsWithNext
<1>4. CASE ~(IsTick(o) /\ s.job[o.job].gen > 0)
  BY <1>1, <1>4 DEF Rescheduled
<1>5. QED
  BY <1>3, <1>4

\* admit_due
LEMMA AdmitDueSound ==
    ASSUME NEW s, Sound(s), NEW t \in 0..MaxTime
    PROVE  /\ Sound(AdmitDue(s, t))
           /\ AdmitsSome(s.occ, AdmitDue(s, t).occ)
<1> DEFINE Job == [j \in Jobs |->
                     IF Dropped(s, j, t)
                     THEN [s.job[j] EXCEPT !.next = ComputeNextRun(s.job[j].kind, t)]
                     ELSE s.job[j]]
           New(o) == /\ o.gen = s.job[o.job].gen /\ o.trig = s.job[o.job].next
                     /\ s.occ[o] = "none"
                     /\ Due(s, o.job, t) /\ ~Dropped(s, o.job, t)
           Occ == [o \in Occs |-> IF New(o) THEN "pending" ELSE s.occ[o]]
<1>1. /\ s = [job |-> s.job, gens |-> s.gens, occ |-> s.occ]
      /\ s.job \in [Jobs -> JobRecord]
      /\ s.gens \in [Jobs -> 0..MaxGen]
      /\ s.occ \in OccStates
      /\ \A o \in Occs : s.occ[o] \in Unsettled => s.job[o.job].gen = o.gen
  BY SoundParts
<1>2. AdmitDue(s, t) = [job |-> Job, gens |-> s.gens, occ |-> Occ]
  BY DEF AdmitDue
<1>3. \A j \in Jobs : Job[j] \in JobRecord /\ Job[j].gen = s.job[j].gen
  <2> SUFFICES ASSUME NEW j \in Jobs PROVE Job[j] \in JobRecord /\ Job[j].gen = s.job[j].gen
    OBVIOUS
  <2>1. s.job[j] \in JobRecord
    BY <1>1
  <2>2. ComputeNextRun(s.job[j].kind, t) \in 0..(MaxTime + 1)
    BY <2>1, NextRunInRange DEF JobRecord
  <2>3. /\ [s.job[j] EXCEPT !.next = ComputeNextRun(s.job[j].kind, t)] \in JobRecord
        /\ [s.job[j] EXCEPT !.next = ComputeNextRun(s.job[j].kind, t)].gen = s.job[j].gen
    BY <2>1, <2>2 DEF JobRecord
  <2>4. QED
    BY <2>1, <2>3
<1>4. Job \in [Jobs -> JobRecord]
  BY <1>3
<1>5. Occ \in OccStates
  BY <1>1 DEF OccStates, OccurrenceState
<1>6. ASSUME NEW o \in Occs, Occ[o] \in Unsettled PROVE Job[o.job].gen = o.gen
  <2>1. o.job \in Jobs
    BY OccParts
  <2>2. CASE New(o)
    BY <1>3, <2>1, <2>2
  <2>3. CASE ~New(o)
    BY <1>1, <1>3, <1>6, <2>1, <2>3
  <2>4. QED
    BY <2>2, <2>3
<1>7. AdmitsSome(s.occ, Occ)
  BY DEF AdmitsSome
<1> HIDE DEF Job, Occ
<1>8. Sound([job |-> Job, gens |-> s.gens, occ |-> Occ])
  BY <1>1, <1>4, <1>5, <1>6, SoundFrom
<1>9. QED
  BY <1>2, <1>7, <1>8

\* The state of one occurrence changes, and jobs only in when they run next.
LEMMA OneSound ==
    ASSUME NEW s, Sound(s), NEW o \in Occs, NEW x \in OccurrenceState,
           NEW job \in [Jobs -> JobRecord],
           \A j \in Jobs : job[j].gen = s.job[j].gen,
           x \in Unsettled => s.job[o.job].gen = o.gen
    PROVE  Sound([job |-> job, gens |-> s.gens, occ |-> [s.occ EXCEPT ![o] = x]])
<1>1. /\ s.gens \in [Jobs -> 0..MaxGen]
      /\ s.occ \in OccStates
      /\ \A q \in Occs : s.occ[q] \in Unsettled => s.job[q.job].gen = q.gen
  BY SoundParts
<1>2. [s.occ EXCEPT ![o] = x] \in OccStates
  BY <1>1 DEF OccStates
<1>3. \A q \in Occs : q.job \in Jobs
  BY OccParts
<1>4. \A q \in Occs : [s.occ EXCEPT ![o] = x][q] \in Unsettled => job[q.job].gen = q.gen
  BY <1>1, <1>3 DEF OccStates
<1>5. QED
  BY <1>1, <1>2, <1>4, SoundFrom

\* admit_selected_in_memory
LEMMA AdmitKeySound ==
    ASSUME NEW s, Sound(s), NEW j \in Jobs, NEW k \in Keys, s.job[j].gen > 0
    PROVE  /\ Sound(AdmitKey(s, j, k))
           /\ AdmitsSome(s.occ, AdmitKey(s, j, k).occ)
<1> DEFINE o == [job |-> j, gen |-> s.job[j].gen, trig |-> k]
<1>1. /\ s = [job |-> s.job, gens |-> s.gens, occ |-> s.occ]
      /\ s.job \in [Jobs -> JobRecord] /\ s.occ \in OccStates
  BY SoundParts
<1>2. s.job[j].gen \in 1..MaxGen
  BY <1>1, SchedulerConstants DEF JobRecord
<1>3. o \in Occs
  BY <1>2 DEF Occs
<1>4. CASE s.occ[o] = "none"
  <2>1. AdmitKey(s, j, k) = [job |-> s.job, gens |-> s.gens, occ |-> [s.occ EXCEPT ![o] = "pending"]]
    BY <1>1, <1>4 DEF AdmitKey
  <2>2. Sound(AdmitKey(s, j, k))
    BY <1>1, <1>3, <2>1, OneSound DEF OccurrenceState
  <2>3. AdmitsSome(s.occ, [s.occ EXCEPT ![o] = "pending"])
    BY <1>1, <1>3, <1>4 DEF AdmitsSome, OccStates
  <2>4. QED
    BY <2>1, <2>2, <2>3
<1>5. CASE s.occ[o] # "none"
  BY <1>5 DEF AdmitKey, AdmitsSome
<1>6. QED
  BY <1>4, <1>5

\* mark_occurrence_fired_with_receipt
LEMMA AdvancedSound ==
    ASSUME NEW s, Sound(s), NEW o \in Occs, s.occ[o] \in Unsettled, NEW t \in 0..MaxTime,
           NEW ran, o \in ran
    PROVE  /\ Sound(Advanced(s, o, t))
           /\ Moves(s.occ, Advanced(s, o, t).occ, ran)
<1> DEFINE u == IF IsTick(o) THEN Later(t, o.trig) ELSE t
<1>1. s = [job |-> s.job, gens |-> s.gens, occ |-> s.occ]
  BY SoundParts
<1>2. IsTick(o) => u \in 0..MaxTime
  BY SchedulerConstants DEF IsTick, Later, Times
<1> HIDE DEF u
<1>3. /\ Rescheduled(s, o, u) \in [Jobs -> JobRecord]
      /\ \A j \in Jobs : Rescheduled(s, o, u)[j].gen = s.job[j].gen
  BY <1>2, RescheduledJobs
<1>4. Advanced(s, o, t) = [job |-> Rescheduled(s, o, u), gens |-> s.gens,
                           occ |-> [s.occ EXCEPT ![o] = "terminal"]]
  BY DEF Advanced, u
<1>5. Sound(Advanced(s, o, t))
  BY <1>3, <1>4, OneSound DEF OccurrenceState, Unsettled
<1>6. SettlesOne(s.occ, [s.occ EXCEPT ![o] = "terminal"], ran)
  BY DEF SettlesOne
<1>7. QED
  BY <1>4, <1>5, <1>6 DEF Moves

\* cancel_occurrence
LEMMA CancelledSound ==
    ASSUME NEW s, Sound(s), NEW o \in Occs, s.occ[o] \in Unsettled, NEW ran
    PROVE  /\ Sound(Cancelled(s, o))
           /\ Moves(s.occ, Cancelled(s, o).occ, ran)
<1>1. s = [job |-> s.job, gens |-> s.gens, occ |-> s.occ]
  BY SoundParts
<1>2. IsTick(o) => o.trig \in 0..MaxTime
  BY DEF IsTick, Times
<1>3. /\ Rescheduled(s, o, o.trig) \in [Jobs -> JobRecord]
      /\ \A j \in Jobs : Rescheduled(s, o, o.trig)[j].gen = s.job[j].gen
  BY <1>2, RescheduledJobs
<1>4. Cancelled(s, o) = [job |-> Rescheduled(s, o, o.trig), gens |-> s.gens,
                         occ |-> [s.occ EXCEPT ![o] = "cancelled"]]
  BY DEF Cancelled
<1>5. Sound(Cancelled(s, o))
  BY <1>3, <1>4, OneSound DEF OccurrenceState, Unsettled
<1>6. SettlesOne(s.occ, [s.occ EXCEPT ![o] = "cancelled"], ran)
  BY DEF SettlesOne
<1>7. QED
  BY <1>4, <1>5, <1>6 DEF Moves

\* mark_occurrence_uncertain
LEMMA DoubtedSound ==
    ASSUME NEW s, Sound(s), NEW o \in Occs, s.occ[o] \in Unsettled, NEW ran
    PROVE  /\ Sound(Doubted(s, o))
           /\ Moves(s.occ, Doubted(s, o).occ, ran)
<1>1. /\ s = [job |-> s.job, gens |-> s.gens, occ |-> s.occ]
      /\ s.job \in [Jobs -> JobRecord]
      /\ s.job[o.job].gen = o.gen
  BY SoundParts
<1>2. Doubted(s, o) = [job |-> s.job, gens |-> s.gens, occ |-> [s.occ EXCEPT ![o] = "uncertain"]]
  BY <1>1 DEF Doubted
<1>3. Sound(Doubted(s, o))
  BY <1>1, <1>2, OneSound DEF OccurrenceState
<1>4. SettlesOne(s.occ, [s.occ EXCEPT ![o] = "uncertain"], ran)
  BY DEF SettlesOne
<1>5. QED
  BY <1>2, <1>3, <1>4 DEF Moves

\* A job's record changes and keeps the generation of its open occurrences.
LEMMA JobSound ==
    ASSUME NEW s, Sound(s), NEW j \in Jobs, NEW r \in JobRecord,
           NEW gens \in [Jobs -> 0..MaxGen],
           \/ r.gen = s.job[j].gen
           \/ \A o \in Occs : o.job = j => s.occ[o] \notin Unsettled
    PROVE  Sound([job |-> [s.job EXCEPT ![j] = r], gens |-> gens, occ |-> s.occ])
<1>1. /\ s.job \in [Jobs -> JobRecord]
      /\ s.occ \in OccStates
      /\ \A o \in Occs : s.occ[o] \in Unsettled => s.job[o.job].gen = o.gen
  BY SoundParts
<1>2. [s.job EXCEPT ![j] = r] \in [Jobs -> JobRecord]
  BY <1>1
<1>3. ASSUME NEW o \in Occs, s.occ[o] \in Unsettled
      PROVE  [s.job EXCEPT ![j] = r][o.job].gen = o.gen
  <2>1. o.job \in Jobs /\ s.job[o.job].gen = o.gen
    BY <1>1, <1>3, OccParts
  <2>2. CASE o.job = j
    <3>1. r.gen = s.job[j].gen
      BY <1>3, <2>2
    <3>2. QED
      BY <1>1, <2>1, <2>2, <3>1
  <2>3. CASE o.job # j
    BY <1>1, <2>1, <2>3
  <2>4. QED
    BY <2>2, <2>3
<1>4. QED
  BY <1>1, <1>2, <1>3, SoundFrom

\* upsert_checked_with_enabled
LEMMA UpsertedSound ==
    ASSUME NEW s, Sound(s), NEW j \in Jobs, NEW kind \in Kinds, NEW retime \in BOOLEAN,
           now \in 0..MaxTime, s.job[j].gen > 0 \/ s.gens[j] < MaxGen
    PROVE  /\ Sound(Upserted(s, j, kind, retime))
           /\ Upserted(s, j, kind, retime).occ = s.occ
<1> DEFINE old == s.job[j]
           gen == IF old.gen > 0 THEN old.gen ELSE s.gens[j] + 1
           next == IF old.gen = 0 \/ retime \/ old.next = 0
                   THEN ComputeNextRun(kind, now) ELSE old.next
           r == [gen |-> gen, kind |-> kind, on |-> old.gen = 0 \/ old.on, next |-> next]
<1>1. /\ s = [job |-> s.job, gens |-> s.gens, occ |-> s.occ]
      /\ s.job \in [Jobs -> JobRecord]
      /\ s.gens \in [Jobs -> 0..MaxGen]
      /\ s.occ \in OccStates
      /\ \A o \in Occs : s.occ[o] \in Unsettled => s.job[o.job].gen = o.gen
  BY SoundParts
<1>2. old \in JobRecord
  BY <1>1
<1>3. old.gen \in 0..MaxGen /\ old.on \in BOOLEAN /\ old.next \in 0..(MaxTime + 1)
  BY <1>2 DEF JobRecord
<1>4. gen \in 0..MaxGen
  BY <1>1, <1>3, SchedulerConstants
<1>5. next \in 0..(MaxTime + 1)
  BY <1>3, NextRunInRange
<1>6. (old.gen = 0 \/ old.on) \in BOOLEAN
  OBVIOUS
<1>7. r \in JobRecord
  BY <1>4, <1>5, <1>6 DEF JobRecord
<1>8. [s.gens EXCEPT ![j] = gen] \in [Jobs -> 0..MaxGen]
  BY <1>1, <1>4
<1>9. old.gen = 0 => \A o \in Occs : o.job = j => s.occ[o] \notin Unsettled
  BY <1>1, OccParts
<1>10. old.gen # 0 => r.gen = old.gen
  BY <1>3
<1>11. Upserted(s, j, kind, retime) =
           [job |-> [s.job EXCEPT ![j] = r], gens |-> [s.gens EXCEPT ![j] = gen], occ |-> s.occ]
  BY DEF Upserted
<1> HIDE DEF r, gen, next
<1>12. QED
  BY <1>7, <1>8, <1>9, <1>10, <1>11, JobSound

\* delete_checked
LEMMA DeletedSound ==
    ASSUME NEW s, Sound(s), NEW j \in Jobs, Deletable(s, j)
    PROVE  Sound(Deleted(s, j)) /\ Deleted(s, j).occ = s.occ
<1>1. s = [job |-> s.job, gens |-> s.gens, occ |-> s.occ] /\ s.gens \in [Jobs -> 0..MaxGen]
  BY SoundParts
<1>2. NoJob \in JobRecord
  BY SchedulerConstants DEF NoJob, JobRecord, Kinds
<1>3. \A o \in Occs : o.job = j => s.occ[o] \notin Unsettled
  BY DEF Deletable
<1>4. Deleted(s, j) = [job |-> [s.job EXCEPT ![j] = NoJob], gens |-> s.gens, occ |-> s.occ]
  BY <1>1 DEF Deleted
<1>5. QED
  BY <1>1, <1>2, <1>3, <1>4, JobSound

\* set_enabled, pause, resume
LEMMA SwitchedSound ==
    ASSUME NEW s, Sound(s), NEW j \in Jobs, NEW on \in BOOLEAN
    PROVE  Sound(Switched(s, j, on)) /\ Switched(s, j, on).occ = s.occ
<1> DEFINE r == [s.job[j] EXCEPT !.on = on]
<1>1. /\ s = [job |-> s.job, gens |-> s.gens, occ |-> s.occ]
      /\ s.job \in [Jobs -> JobRecord]
      /\ s.gens \in [Jobs -> 0..MaxGen]
  BY SoundParts
<1>2. s.job[j] \in JobRecord
  BY <1>1
<1>3. r \in JobRecord /\ r.gen = s.job[j].gen
  BY <1>2 DEF JobRecord
<1>4. Switched(s, j, on) = [job |-> [s.job EXCEPT ![j] = r], gens |-> s.gens, occ |-> s.occ]
  BY <1>1 DEF Switched
<1> HIDE DEF r
<1>5. QED
  BY <1>1, <1>3, <1>4, JobSound

-----------------------------------------------------------------------------
(* The inductive invariant.                                                *)

\* What every step has to show about the occurrences in memory.
MemMoves == Moves(mem.occ, mem'.occ, Ran)

\* A call that moves the registry by one operation.
LEMMA StoreStep ==
    ASSUME StoreInv, now' = now, work' = work,
           NEW new, Sound(new), Moves(mem.occ, new.occ, Ran),
           \/ mem' = new /\ disk' = new
           \/ mem' = mem /\ disk' \in {new, mem}
    PROVE  /\ StoreInv'
           /\ MemMoves
           /\ \A o \in Occs : mem.occ[o] # "none" => mem'.occ[o] # "none"
<1>1. /\ Sound(mem) /\ Sound(disk) /\ Knows(mem.occ) /\ Knows(disk.occ)
      /\ now \in 0..MaxTime /\ work \in [Occs -> Stages]
  BY DEF StoreInv
<1>2. mem.occ \in OccStates /\ new.occ \in OccStates
  BY <1>1, SoundParts
<1>3. Knows(new.occ) /\ \A o \in Occs : mem.occ[o] # "none" => new.occ[o] # "none"
  BY <1>1, <1>2, MovesKeeps
<1>4. Moves(mem.occ, mem.occ, Ran) /\ Moves(new.occ, new.occ, Ran)
  BY <1>2, MovesStay
<1>5. Ran' = Ran
  BY DEF Ran
<1>6. /\ Sound(mem)' /\ Sound(disk)'
      /\ Moves(mem.occ, mem'.occ, Ran)
      /\ Moves(mem'.occ, disk'.occ, Ran)
      /\ Knows(mem'.occ) /\ Knows(disk'.occ)
      /\ \A o \in Occs : mem.occ[o] # "none" => mem'.occ[o] # "none"
  <2>1. CASE mem' = new /\ disk' = new
    BY <1>3, <1>4, <2>1 DEF Sound
  <2>2. CASE mem' = mem /\ disk' \in {new, mem}
    BY <1>1, <1>3, <1>4, <2>2 DEF Sound
  <2>3. QED
    BY <2>1, <2>2
<1>7. Knows(mem.occ)' /\ Knows(disk.occ)'
  BY <1>6 DEF Knows
<1>8. Moves(mem.occ, disk.occ, Ran)'
  BY <1>5, <1>6 DEF Moves, AdmitsSome, SettlesOne
<1>9. QED
  BY <1>1, <1>6, <1>7, <1>8 DEF StoreInv, MemMoves

\* An operation that leaves the occurrences alone.
LEMMA SameOccMoves ==
    ASSUME NEW new, Sound(mem), new.occ = mem.occ
    PROVE  Moves(mem.occ, new.occ, Ran)
BY MovesStay, SoundParts

\* Dispatchers are left alone.
LEMMA DispKept ==
    ASSUME DispInv, disp' = disp, work' = work,
           \A o \in Occs : mem.occ[o] # "none" => mem'.occ[o] # "none"
    PROVE  DispInv'
BY DEF DispInv, DispatcherSound

\* One dispatcher moves.
LEMMA DispMoved ==
    ASSUME DispInv, NEW d \in Dispatchers, NEW r \in DispatcherType,
           disp' = [disp EXCEPT ![d] = r],
           \A o \in Occs : work[o] = Bound => work'[o] = Bound,
           \A o \in Occs : mem.occ[o] # "none" => mem'.occ[o] # "none",
           r.pc \in {"dispatch", "advance", "failed"} => r.occ \in Occs /\ mem'.occ[r.occ] # "none",
           r.pc = "advance" => work'[r.occ] = Bound
    PROVE  DispInv'
<1>1. disp' \in [Dispatchers -> DispatcherType]
  BY DEF DispInv
<1>2. ASSUME NEW e \in Dispatchers PROVE DispatcherSound(disp[e])'
  <2>1. CASE e = d
    BY <2>1 DEF DispInv, DispatcherSound
  <2>2. CASE e # d
    <3>1. disp'[e] = disp[e] /\ DispatcherSound(disp[e])
      BY <2>2 DEF DispInv
    <3>2. QED
      BY <3>1 DEF DispatcherSound
  <2>3. QED
    BY <2>1, <2>2
<1>3. QED
  BY <1>1, <1>2 DEF DispInv

\* The end of a round of the loop.
LEMMA ContinueOK ==
    ASSUME DispInv, NEW d \in Dispatchers, Continue(d), work' = work,
           \A o \in Occs : mem.occ[o] # "none" => mem'.occ[o] # "none"
    PROVE  DispInv'
<1> DEFINE rest == disp[d].todo \ {disp[d].occ}
           r == IF rest = {} THEN IdleDisp
                ELSE [disp[d] EXCEPT !.pc = "loop", !.todo = rest, !.occ = NoOcc]
<1>1. disp[d] \in DispatcherType
  BY DEF DispInv
<1>2. IdleDisp \in DispatcherType
  BY SchedulerConstants DEF IdleDisp, DispatcherType
<1>3. r \in DispatcherType /\ r.pc \in {"idle", "loop"}
  BY <1>1, <1>2 DEF DispatcherType, IdleDisp
<1>4. disp' = [disp EXCEPT ![d] = r]
  BY DEF Continue
<1> HIDE DEF r
<1>5. QED
  BY <1>3, <1>4, DispMoved

\* The initial state.
LEMMA SchedInvInit == SchedInit => SchedInv
<1> SUFFICES ASSUME SchedInit PROVE SchedInv
  OBVIOUS
<1>1. NoJob \in JobRecord
  BY SchedulerConstants DEF NoJob, JobRecord, Kinds
<1>2. Sound(EmptyRegistry)
  BY <1>1, SchedulerConstants DEF Sound, EmptyRegistry, Registry, Unsettled, OccurrenceState
<1>3. EmptyRegistry.occ = [o \in Occs |-> "none"]
  BY DEF EmptyRegistry
<1>4. Knows(EmptyRegistry.occ)
  BY <1>3 DEF Knows, SchedInit
<1>5. Moves(EmptyRegistry.occ, EmptyRegistry.occ, Ran)
  BY <1>2, MovesStay, SoundParts
<1>6. IdleDisp \in DispatcherType
  BY SchedulerConstants DEF IdleDisp, DispatcherType
<1>7. work \in [Occs -> Stages] /\ now \in 0..MaxTime
  BY SchedulerConstants DEF SchedInit, Stages
<1>8. StoreInv
  BY <1>2, <1>4, <1>5, <1>7 DEF StoreInv, SchedInit
<1>9. DispInv
  BY <1>6 DEF DispInv, SchedInit, DispatcherSound, IdleDisp
<1>10. QED
  BY <1>8, <1>9 DEF SchedInv

\* Calls from commands and from the relay.
LEMMA CallsOK ==
    ASSUME SchedInv, NEW new, Sound(new), Moves(mem.occ, new.occ, Ran),
           Command(new) \/ Call(new), UNCHANGED <<now, work, disp>>
    PROVE  SchedInv' /\ MemMoves
<1>1. /\ StoreInv' /\ MemMoves
      /\ \A o \in Occs : mem.occ[o] # "none" => mem'.occ[o] # "none"
  BY StoreStep DEF SchedInv, Command, Call
<1>2. QED
  BY <1>1, DispKept DEF SchedInv

\* Every call keeps the invariant.
LEMMA CallersOK ==
    ASSUME SchedInv,
           \/ \E j \in Jobs : Upsert(j) \/ Delete(j) \/ Switch(j) \/ \E k \in Keys : Deliver(j, k)
           \/ AskDue
           \/ \E o \in Occs : Cancel(o) \/ ReportError(o) \/ Reconcile(o)
    PROVE  SchedInv' /\ MemMoves
<1>1. Sound(mem) /\ now \in 0..MaxTime
  BY DEF SchedInv, StoreInv
<1>2. ASSUME NEW j \in Jobs, Upsert(j) PROVE SchedInv' /\ MemMoves
  <2>1. PICK kind \in Kinds, retime \in BOOLEAN : Command(Upserted(mem, j, kind, retime))
    BY <1>2 DEF Upsert
  <2>2. /\ Sound(Upserted(mem, j, kind, retime))
        /\ Upserted(mem, j, kind, retime).occ = mem.occ
    BY <1>1, <1>2, UpsertedSound DEF Upsert
  <2>3. UNCHANGED <<now, work, disp>>
    BY <1>2 DEF Upsert
  <2>4. QED
    BY <1>1, <2>1, <2>2, <2>3, SameOccMoves, CallsOK
<1>3. ASSUME NEW j \in Jobs, Delete(j) PROVE SchedInv' /\ MemMoves
  <2>1. Sound(Deleted(mem, j)) /\ Deleted(mem, j).occ = mem.occ
    BY <1>1, <1>3, DeletedSound DEF Delete
  <2>2. Command(Deleted(mem, j)) /\ UNCHANGED <<now, work, disp>>
    BY <1>3 DEF Delete
  <2>3. QED
    BY <1>1, <2>1, <2>2, SameOccMoves, CallsOK
<1>4. ASSUME NEW j \in Jobs, Switch(j) PROVE SchedInv' /\ MemMoves
  <2>1. /\ Sound(Switched(mem, j, ~mem.job[j].on))
        /\ Switched(mem, j, ~mem.job[j].on).occ = mem.occ
    BY <1>1, SwitchedSound
  <2>2. Command(Switched(mem, j, ~mem.job[j].on)) /\ UNCHANGED <<now, work, disp>>
    BY <1>4 DEF Switch
  <2>3. QED
    BY <1>1, <2>1, <2>2, SameOccMoves, CallsOK
<1>5. ASSUME NEW j \in Jobs, NEW k \in Keys, Deliver(j, k) PROVE SchedInv' /\ MemMoves
  <2>1. Sound(AdmitKey(mem, j, k)) /\ AdmitsSome(mem.occ, AdmitKey(mem, j, k).occ)
    BY <1>1, <1>5, AdmitKeySound DEF Deliver
  <2>2. Call(AdmitKey(mem, j, k)) /\ UNCHANGED <<now, work, disp>>
    BY <1>5 DEF Deliver
  <2>3. QED
    BY <2>1, <2>2, CallsOK DEF Moves
<1>6. ASSUME AskDue PROVE SchedInv' /\ MemMoves
  <2>1. Sound(AdmitDue(mem, now)) /\ AdmitsSome(mem.occ, AdmitDue(mem, now).occ)
    BY <1>1, AdmitDueSound
  <2>2. Call(AdmitDue(mem, now)) /\ UNCHANGED <<now, work, disp>>
    BY <1>6 DEF AskDue
  <2>3. QED
    BY <2>1, <2>2, CallsOK DEF Moves
<1>7. ASSUME NEW o \in Occs, Cancel(o) PROVE SchedInv' /\ MemMoves
  <2>1. Sound(Cancelled(mem, o)) /\ Moves(mem.occ, Cancelled(mem, o).occ, Ran)
    BY <1>1, <1>7, CancelledSound DEF Cancel
  <2>2. Call(Cancelled(mem, o)) /\ UNCHANGED <<now, work, disp>>
    BY <1>7 DEF Cancel
  <2>3. QED
    BY <2>1, <2>2, CallsOK
<1>8. ASSUME NEW o \in Occs, ReportError(o) PROVE SchedInv' /\ MemMoves
  <2>1. Sound(Doubted(mem, o)) /\ Moves(mem.occ, Doubted(mem, o).occ, Ran)
    BY <1>1, <1>8, DoubtedSound DEF ReportError
  <2>2. Call(Doubted(mem, o)) /\ UNCHANGED <<now, work, disp>>
    BY <1>8 DEF ReportError
  <2>3. QED
    BY <2>1, <2>2, CallsOK
<1>9. ASSUME NEW o \in Occs, Reconcile(o) PROVE SchedInv' /\ MemMoves
  <2>1. o \in Ran /\ mem.occ[o] \in Unsettled
    BY <1>9 DEF Reconcile, Ran, Advanceable
  <2>2. Sound(Advanced(mem, o, now)) /\ Moves(mem.occ, Advanced(mem, o, now).occ, Ran)
    BY <1>1, <2>1, AdvancedSound
  <2>3. Call(Advanced(mem, o, now)) /\ UNCHANGED <<now, work, disp>>
    BY <1>9 DEF Reconcile
  <2>4. QED
    BY <2>2, <2>3, CallsOK
<1>10. QED
  BY <1>2, <1>3, <1>4, <1>5, <1>6, <1>7, <1>8, <1>9

\* Steps of a dispatcher that change the registry or nothing but the
\* dispatcher.
LEMMA PassOK ==
    ASSUME SchedInv, NEW d \in Dispatchers,
           \/ Collect(d)
           \/ \E o \in Occs : Recheck(d, o)
           \/ AdvanceWritten(d) \/ AdvanceAgain(d) \/ AdvanceRefused(d)
           \/ DoubtWritten(d) \/ DoubtLost(d)
    PROVE  SchedInv' /\ MemMoves
<1>1. Sound(mem) /\ now \in 0..MaxTime /\ StoreInv /\ DispInv /\ DispatcherSound(disp[d])
  BY DEF SchedInv, StoreInv, DispInv
<1>2. disp[d] \in DispatcherType
  BY <1>1 DEF DispInv
<1>3. IdleDisp \in DispatcherType /\ IdleDisp.pc = "idle"
  BY SchedulerConstants DEF IdleDisp, DispatcherType
<1>5. ASSUME Collect(d) PROVE SchedInv' /\ MemMoves
  <2> DEFINE new == AdmitDue(mem, now)
             r == IF Pending(new) = {} THEN IdleDisp
                  ELSE [pc |-> "loop", t |-> now, todo |-> Pending(new), occ |-> NoOcc]
  <2>1. Sound(new) /\ AdmitsSome(mem.occ, new.occ)
    BY <1>1, AdmitDueSound
  <2>2. disp' = [disp EXCEPT ![d] = r] /\ now' = now /\ work' = work
    BY <1>5 DEF Collect
  <2>3. r \in DispatcherType /\ r.pc \in {"idle", "loop"}
    BY <1>1, <1>3 DEF DispatcherType, Pending
  <2>4. (mem' = new /\ disk' = new) \/ (mem' = mem /\ disk' = disk)
    BY <1>5 DEF Collect
  <2> HIDE DEF new, r
  <2>5. /\ StoreInv' /\ MemMoves
        /\ \A o \in Occs : mem.occ[o] # "none" => mem'.occ[o] # "none"
    <3>1. CASE mem' = new /\ disk' = new
      BY <1>1, <2>1, <2>2, <3>1, StoreStep DEF Moves
    <3>2. CASE mem' = mem /\ disk' = disk
      <4>1. Sound(disk) /\ Moves(mem.occ, disk.occ, Ran)
        BY <1>1 DEF StoreInv
      <4>2. QED
        BY <1>1, <2>2, <3>2, <4>1, StoreStep
    <3>3. QED
      BY <2>4, <3>1, <3>2
  <2>6. DispInv'
    BY <1>1, <2>2, <2>3, <2>5, DispMoved
  <2>7. QED
    BY <2>5, <2>6 DEF SchedInv
<1>6. ASSUME UNCHANGED <<now, mem, disk, work>> PROVE StoreInv' /\ MemMoves
  <2>1. Sound(disk) /\ Moves(mem.occ, disk.occ, Ran)
    BY <1>1 DEF StoreInv
  <2>2. QED
    BY <1>1, <1>6, <2>1, StoreStep
<1>7. ASSUME NEW o \in Occs, Recheck(d, o) PROVE SchedInv' /\ MemMoves
  <2> DEFINE r == IF mem.occ[o] = "pending" THEN [disp[d] EXCEPT !.pc = "dispatch", !.occ = o]
                  ELSE IF disp[d].todo = {o} THEN IdleDisp
                  ELSE [disp[d] EXCEPT !.todo = disp[d].todo \ {o}]
  <2>1. UNCHANGED <<now, mem, disk, work>> /\ disp[d].pc = "loop"
    BY <1>7 DEF Recheck
  <2>2. disp' = [disp EXCEPT ![d] = r]
    BY <1>7 DEF Recheck
  <2>3. r \in DispatcherType
    BY <1>2, <1>3 DEF DispatcherType
  <2>4. r.pc \in {"dispatch", "advance", "failed"} => r.occ = o /\ mem.occ[o] = "pending"
    BY <1>2, <1>3, <2>1 DEF DispatcherType
  <2>5. r.pc # "advance"
    BY <1>2, <1>3, <2>1 DEF DispatcherType
  <2> HIDE DEF r
  <2>6. DispInv'
    BY <1>1, <2>1, <2>2, <2>3, <2>4, <2>5, DispMoved
  <2>7. QED
    BY <1>6, <2>1, <2>6 DEF SchedInv
<1>8. ASSUME AdvanceWritten(d) PROVE SchedInv' /\ MemMoves
  <2> DEFINE o == disp[d].occ
  <2>1. o \in Occs /\ o \in Ran /\ mem.occ[o] \in Unsettled /\ disp[d].t \in 0..MaxTime
    BY <1>1, <1>2, <1>8 DEF AdvanceWritten, DispatcherSound, Ran, Advanceable, DispatcherType
  <2>2. Sound(Advanced(mem, o, disp[d].t)) /\ Moves(mem.occ, Advanced(mem, o, disp[d].t).occ, Ran)
    BY <1>1, <2>1, AdvancedSound
  <2>3. /\ mem' = Advanced(mem, o, disp[d].t) /\ disk' = mem'
        /\ now' = now /\ work' = work /\ Continue(d)
    BY <1>8 DEF AdvanceWritten
  <2>4. /\ StoreInv' /\ MemMoves
        /\ \A q \in Occs : mem.occ[q] # "none" => mem'.occ[q] # "none"
    BY <1>1, <2>2, <2>3, StoreStep
  <2>5. QED
    BY <1>1, <2>3, <2>4, ContinueOK DEF SchedInv
<1>9. ASSUME AdvanceAgain(d) \/ DoubtLost(d) PROVE SchedInv' /\ MemMoves
  <2>1. UNCHANGED <<now, mem, disk, work>> /\ Continue(d)
    BY <1>9 DEF AdvanceAgain, DoubtLost
  <2>2. QED
    BY <1>1, <1>6, <2>1, ContinueOK DEF SchedInv
<1>10. ASSUME AdvanceRefused(d) PROVE SchedInv' /\ MemMoves
  <2> DEFINE r == [disp[d] EXCEPT !.pc = "failed"]
  <2>1. /\ UNCHANGED <<now, mem, disk, work>> /\ disp[d].pc = "advance"
        /\ disp' = [disp EXCEPT ![d] = r]
    BY <1>10 DEF AdvanceRefused
  <2>2. r \in DispatcherType /\ r.pc = "failed" /\ r.occ = disp[d].occ
    BY <1>2 DEF DispatcherType
  <2>3. r.occ \in Occs /\ mem.occ[r.occ] # "none"
    BY <1>1, <2>1, <2>2 DEF DispatcherSound
  <2> HIDE DEF r
  <2>4. DispInv'
    BY <1>1, <2>1, <2>2, <2>3, DispMoved
  <2>5. QED
    BY <1>6, <2>1, <2>4 DEF SchedInv
<1>11. ASSUME DoubtWritten(d) PROVE SchedInv' /\ MemMoves
  <2> DEFINE o == disp[d].occ
  <2>1. o \in Occs /\ mem.occ[o] \in Unsettled
    BY <1>1, <1>11 DEF DoubtWritten, DispatcherSound
  <2>2. Sound(Doubted(mem, o)) /\ Moves(mem.occ, Doubted(mem, o).occ, Ran)
    BY <1>1, <2>1, DoubtedSound
  <2>3. mem' = Doubted(mem, o) /\ disk' = mem' /\ now' = now /\ work' = work /\ Continue(d)
    BY <1>11 DEF DoubtWritten
  <2>4. /\ StoreInv' /\ MemMoves
        /\ \A q \in Occs : mem.occ[q] # "none" => mem'.occ[q] # "none"
    BY <1>1, <2>2, <2>3, StoreStep
  <2>5. QED
    BY <1>1, <2>3, <2>4, ContinueOK DEF SchedInv
<1>12. QED
  BY <1>5, <1>7, <1>8, <1>9, <1>10, <1>11

\* dispatch_occurrence only adds to the Work journal, for an occurrence that
\* memory and the file know.
LEMMA DispatchOK ==
    ASSUME SchedInv, NEW d \in Dispatchers, Dispatch(d)
    PROVE  /\ SchedInv'
           /\ mem' = mem
           /\ \/ Ran' = Ran
              \/ \E o \in Occs : mem.occ[o] # "none" /\ Ran' = Ran \cup {o}
<1> DEFINE o == disp[d].occ
<1>1. /\ Sound(mem) /\ Sound(disk) /\ Knows(mem.occ) /\ Knows(disk.occ)
      /\ Moves(mem.occ, disk.occ, Ran)
      /\ work \in [Occs -> Stages] /\ now \in 0..MaxTime
      /\ DispInv /\ DispatcherSound(disp[d]) /\ disp[d] \in DispatcherType
  BY DEF SchedInv, StoreInv, DispInv
<1>2. o \in Occs /\ mem.occ[o] # "none"
  BY <1>1 DEF Dispatch, DispatcherSound
<1>3. mem.occ \in OccStates /\ disk.occ \in OccStates
  BY <1>1, SoundParts
<1>4. disk.occ[o] # "none"
  BY <1>1, <1>2, <1>3, MovesKeeps
<1>5. PICK stage \in work[o]..Bound, ok \in BOOLEAN :
          /\ ok => Admitted(stage)
          /\ work' = [work EXCEPT ![o] = stage]
          /\ disp' = [disp EXCEPT ![d].pc = IF ok THEN "advance" ELSE "failed"]
  BY DEF Dispatch
<1>6. UNCHANGED <<now, mem, disk>>
  BY DEF Dispatch
<1>7. work[o] \in Stages /\ stage \in Stages /\ (work[o] = Bound => stage = Bound)
  BY <1>1, <1>2, <1>5 DEF Stages, Bound
<1>8. work' \in [Occs -> Stages] /\ work'[o] = stage /\ \A q \in Occs : q # o => work'[q] = work[q]
  BY <1>1, <1>2, <1>5, <1>7
<1>9. \A q \in Occs : work[q] = Bound => work'[q] = Bound
  BY <1>7, <1>8
<1>10. Ran' = Ran \/ Ran' = Ran \cup {o}
  <2>1. CASE stage = Bound
    BY <1>2, <1>8, <2>1 DEF Ran
  <2>2. CASE stage # Bound
    <3>1. work[o] # Bound
      BY <1>7, <2>2
    <3>2. QED
      BY <1>2, <1>8, <2>2, <3>1 DEF Ran
  <2>3. QED
    BY <2>1, <2>2
<1>11. Ran \subseteq Ran'
  BY <1>10
<1>12. Knows(mem.occ)' /\ Knows(disk.occ)'
  BY <1>1, <1>2, <1>4, <1>6, <1>8, <1>9 DEF Knows
<1>13. Moves(mem.occ, disk.occ, Ran)'
  <2>1. Moves(mem.occ, disk.occ, Ran')
    BY <1>1, <1>11, MovesGrows
  <2>2. QED
    BY <1>6, <2>1 DEF Moves, AdmitsSome, SettlesOne
<1>14. StoreInv'
  BY <1>1, <1>6, <1>8, <1>12, <1>13 DEF StoreInv, Sound
<1> DEFINE r == [disp[d] EXCEPT !.pc = IF ok THEN "advance" ELSE "failed"]
<1>15. disp' = [disp EXCEPT ![d] = r]
  BY <1>5
<1>16. r \in DispatcherType /\ r.occ = o /\ (r.pc = "advance" => ok)
  BY <1>1, <1>5 DEF DispatcherType
<1>17. r.pc = "advance" => work'[r.occ] = Bound
  BY <1>5, <1>8, <1>16 DEF Admitted
<1> HIDE DEF r
<1>18. DispInv'
  BY <1>1, <1>2, <1>6, <1>9, <1>15, <1>16, <1>17, DispMoved
<1>19. QED
  BY <1>2, <1>6, <1>10, <1>14, <1>18 DEF SchedInv

\* The clock and restarts.
LEMMA HostOK ==
    ASSUME SchedInv, Tick \/ Restart
    PROVE  SchedInv' /\ MemMoves
<1>1. /\ Sound(mem) /\ Sound(disk) /\ Knows(mem.occ) /\ Knows(disk.occ)
      /\ Moves(mem.occ, disk.occ, Ran)
      /\ work \in [Occs -> Stages] /\ now \in 0..MaxTime /\ StoreInv /\ DispInv
  BY DEF SchedInv, StoreInv
<1>2. CASE Tick
  <2>1. now' \in 0..MaxTime /\ UNCHANGED <<mem, disk, work, disp>>
    BY <1>1, <1>2, SchedulerConstants DEF Tick
  <2>2. Ran' = Ran
    BY <2>1 DEF Ran
  <2>3. StoreInv'
    BY <1>1, <2>1, <2>2 DEF StoreInv, Sound, Knows, Moves, AdmitsSome, SettlesOne
  <2>4. DispInv'
    BY <1>1, <2>1, DispKept
  <2>5. MemMoves
    BY <1>1, <2>1, MovesStay, SoundParts DEF MemMoves
  <2>6. QED
    BY <2>3, <2>4, <2>5 DEF SchedInv
<1>3. CASE Restart
  <2>1. mem' = disk /\ disk' = disk /\ now' = now /\ work' = work
    BY <1>3 DEF Restart
  <2>2. StoreInv' /\ MemMoves
    BY <1>1, <2>1, StoreStep
  <2>3. IdleDisp \in DispatcherType /\ IdleDisp.pc = "idle"
    BY SchedulerConstants DEF IdleDisp, DispatcherType
  <2>4. DispInv'
    BY <1>3, <2>3 DEF Restart, DispInv, DispatcherSound
  <2>5. QED
    BY <2>2, <2>4 DEF SchedInv
<1>4. QED
  BY <1>2, <1>3

\* Every step keeps the inductive invariant and is a step of one occurrence.
LEMMA SchedStep ==
    ASSUME SchedInv, [SchedNext]_schedVars
    PROVE  /\ SchedInv'
           /\ \/ MemMoves /\ Ran' = Ran
              \/ /\ mem' = mem
                 /\ \E o \in Occs : mem.occ[o] # "none" /\ Ran' = Ran \cup {o}
<1>1. Sound(mem)
  BY DEF SchedInv, StoreInv
<1>2. work' = work => Ran' = Ran
  BY DEF Ran
<1>3. CASE \/ \E j \in Jobs : Upsert(j) \/ Delete(j) \/ Switch(j) \/ \E k \in Keys : Deliver(j, k)
           \/ AskDue
           \/ \E o \in Occs : Cancel(o) \/ ReportError(o) \/ Reconcile(o)
  <2>1. work' = work
    BY <1>3 DEF Upsert, Delete, Switch, Deliver, AskDue, Cancel, ReportError, Reconcile
  <2>2. QED
    BY <1>2, <1>3, <2>1, CallersOK
<1>4. CASE Tick \/ Restart
  <2>1. work' = work
    BY <1>4 DEF Tick, Restart
  <2>2. QED
    BY <1>2, <1>4, <2>1, HostOK
<1>5. ASSUME NEW d \in Dispatchers, DispatcherStep(d), ~Dispatch(d)
      PROVE  SchedInv' /\ MemMoves /\ Ran' = Ran
  <2>1. \/ Collect(d)
        \/ \E o \in Occs : Recheck(d, o)
        \/ AdvanceWritten(d) \/ AdvanceAgain(d) \/ AdvanceRefused(d)
        \/ DoubtWritten(d) \/ DoubtLost(d)
    BY <1>5 DEF DispatcherStep
  <2>2. work' = work
    BY <2>1 DEF Collect, Recheck, AdvanceWritten, AdvanceAgain, AdvanceRefused, DoubtWritten,
                DoubtLost
  <2>3. QED
    BY <1>2, <2>1, <2>2, PassOK
<1>6. ASSUME NEW d \in Dispatchers, Dispatch(d)
      PROVE  /\ SchedInv'
             /\ \/ MemMoves /\ Ran' = Ran
                \/ /\ mem' = mem
                   /\ \E o \in Occs : mem.occ[o] # "none" /\ Ran' = Ran \cup {o}
  <2>1. mem' = mem => MemMoves
    BY <1>1, MovesStay, SoundParts DEF MemMoves
  <2>2. QED
    BY <1>6, <2>1, DispatchOK
<1>7. CASE UNCHANGED schedVars
  <2>1. UNCHANGED <<now, mem, disk, work, disp>>
    BY <1>7 DEF schedVars
  <2>2. SchedInv'
    BY <2>1 DEF SchedInv, StoreInv, DispInv, Sound, Knows, Moves, AdmitsSome, SettlesOne,
                DispatcherSound, Ran
  <2>3. MemMoves
    BY <1>1, <2>1, MovesStay, SoundParts DEF MemMoves
  <2>4. QED
    BY <1>2, <2>1, <2>2, <2>3
<1>8. QED
  BY <1>3, <1>4, <1>5, <1>6, <1>7 DEF SchedNext

\* The inductive invariant is one of the scheduler.
THEOREM SchedInvariant == SchedSpec => []SchedInv
<1>1. SchedInv /\ [SchedNext]_schedVars => SchedInv'
  BY SchedStep
<1>2. QED
  BY <1>1, SchedInvInit, PTL DEF SchedSpec

\* The state of the scheduler is always well formed.
THEOREM SchedTypeCorrect == SchedSpec => []SchedTypeOK
<1>1. SchedInv => SchedTypeOK
  BY DEF SchedInv, StoreInv, DispInv, Sound, SchedTypeOK, DispatcherType
<1>2. QED
  BY <1>1, SchedInvariant, PTL

\* An open occurrence always finds its job (delete_checked refuses it to go).
THEOREM OpenOccurrencesHaveJobs == SchedSpec => []OpenHasJob
<1>1. SchedInv => OpenHasJob
  BY DEF SchedInv, StoreInv, Sound, OpenHasJob
<1>2. QED
  BY <1>1, SchedInvariant, PTL

\* The file knows every occurrence that has a Work, and an advanced one has
\* its Run, whatever writes fail and wherever the host stops.
THEOREM FileAlwaysKnowsWork == SchedSpec => []FileKnowsWork
<1>1. SchedInv => FileKnowsWork
  BY DEF SchedInv, StoreInv, Knows, FileKnowsWork
<1>2. QED
  BY <1>1, SchedInvariant, PTL

-----------------------------------------------------------------------------
(* The refinement.                                                         *)

\* A move of the occurrences is a step of OccurrenceAdmission.
LEMMA MovesAreSteps ==
    ASSUME SchedInv, SchedInv', MemMoves, Ran' = Ran
    PROVE  [Abstract!Next]_<<mem.occ, Ran>>
<1>1. mem.occ \in OccStates /\ mem'.occ \in OccStates
  <2>1. Sound(mem) /\ Sound(mem')
    BY DEF SchedInv, StoreInv, Sound
  <2>2. QED
    BY <2>1, SoundParts
<1>2. CASE AdmitsSome(mem.occ, mem'.occ)
  BY <1>1, <1>2 DEF AdmitsSome, Abstract!Next, Abstract!Admit, Abstract!OccurrenceStates,
                    OccStates, OccurrenceState, Ran
<1>3. CASE SettlesOne(mem.occ, mem'.occ, Ran)
  <2>1. PICK o \in Occs :
            /\ mem.occ[o] \in Unsettled
            /\ \/ mem'.occ = [mem.occ EXCEPT ![o] = "uncertain"]
               \/ mem'.occ = [mem.occ EXCEPT ![o] = "cancelled"]
               \/ o \in Ran /\ mem'.occ = [mem.occ EXCEPT ![o] = "terminal"]
    BY <1>3 DEF SettlesOne
  <2>2. Abstract!Doubt(o) \/ Abstract!Cancel(o) \/ Abstract!Advance(o)
    BY <2>1 DEF Abstract!Doubt, Abstract!Cancel, Abstract!Advance, Unsettled, Ran
  <2>3. QED
    BY <2>2 DEF Abstract!Next
<1>4. QED
  BY <1>2, <1>3 DEF MemMoves, Moves

\* The trigger plane, with its failing writes, passes and restarts, implements
\* the life of an occurrence.
THEOREM SchedulerImplements == SchedSpec => Implements
<1>1. SchedInit => Abstract!Init
  <2> SUFFICES ASSUME SchedInit PROVE Abstract!Init
    OBVIOUS
  <2>1. mem.occ = [o \in Occs |-> "none"]
    BY DEF SchedInit, EmptyRegistry
  <2>2. {o \in Occs : work[o] = Bound} = {}
    BY DEF SchedInit, Bound
  <2>3. QED
    BY <2>1, <2>2 DEF Abstract!Init
<1>2. ASSUME SchedInv, SchedInv', [SchedNext]_schedVars
      PROVE  [Abstract!Next]_<<mem.occ, {o \in Occs : work[o] = Bound}>>
  <2>1. CASE MemMoves /\ Ran' = Ran
    BY <1>2, <2>1, MovesAreSteps DEF Ran
  <2>2. CASE /\ mem' = mem
             /\ \E o \in Occs : mem.occ[o] # "none" /\ Ran' = Ran \cup {o}
    <3>1. PICK o \in Occs : mem.occ[o] # "none" /\ Ran' = Ran \cup {o}
      BY <2>2
    <3>2. Abstract!Begin(o)
      BY <2>2, <3>1 DEF Abstract!Begin, Ran
    <3>3. QED
      BY <3>2 DEF Abstract!Next
  <2>3. QED
    BY <1>2, <2>1, <2>2, SchedStep
<1>3. QED
  BY <1>1, <1>2, SchedInvariant, PTL DEF SchedSpec, Implements, Abstract!Spec
=============================================================================
