------------------------------ MODULE Scheduler ------------------------------
(***************************************************************************)
(* The trigger plane: automations, their occurrences and the dispatcher    *)
(* that turns a pending occurrence into a Work and a Run                   *)
(* (everyaios-core/src/scheduler_service.rs, driven by                     *)
(* src-tauri/src/scheduler_fire.rs and scheduler_cmds.rs).                 *)
(*                                                                         *)
(* The service is one mutex around a registry that is written through to a *)
(* file.  The dispatcher is called by a timer and by user commands, each   *)
(* on a thread of its own; it releases the mutex between collecting        *)
(* occurrences, creating their Work, and advancing them, and goes on with  *)
(* the time it read at the start.                                          *)
(*                                                                         *)
(* Abstractions: an occurrence is identified by what its digest is made    *)
(* of: the automation, its generation, and the due time or the delivery    *)
(* key.  Time is counted in ticks of a schedule, so the next tick after t  *)
(* is t + 1.  job.on stands for "enabled, not paused, and not held back by *)
(* battery, scope or the hourly limit".  Payloads, names, steps,           *)
(* revisions, monitors and nudges are left out, and so is a registry that  *)
(* cannot be read, which refuses every operation.                          *)
(***************************************************************************)
EXTENDS Integers, FiniteSets

CONSTANTS
    Jobs,           \* ids of automations
    Keys,           \* delivery keys of events, webhooks and manual requests
    Dispatchers,    \* threads that run fire_due_checked
    Loop,           \* ... of which this one is the timer's
    NoOcc,          \* "no occurrence"
    MaxTime,        \* bound on the clock
    MaxGen          \* bound on the generations of a job

Times == 1..MaxTime

Occs == [job : Jobs, gen : 1..MaxGen, trig : Times \cup Keys]

ASSUME SchedulerConstants ==
    /\ Loop \in Dispatchers
    /\ NoOcc \notin Occs
    /\ MaxTime \in Nat /\ MaxGen \in Nat
    /\ Keys \cap Times = {}

VARIABLES
    now,         \* the clock
    mem,         \* SchedulerService
    disk,        \* scheduler.json
    work,        \* how far each occurrence has got into the Work journal
    disp         \* where each dispatcher is

schedVars == <<now, mem, disk, work, disp>>

OccurrenceState == {"none", "pending", "uncertain", "cancelled", "terminal"}

\* "skip": a cron trigger with the misfire policy Skip; "tick": any other
\* cron, interval or window trigger; "event": an event, webhook or manual one
Kinds == {"tick", "skip", "event"}

\* gen 0: no such job; next 0: next_run_at is None
JobRecord == [gen : 0..MaxGen, kind : Kinds, on : BOOLEAN, next : 0..(MaxTime + 1)]

NoJob == [gen |-> 0, kind |-> "event", on |-> FALSE, next |-> 0]

\* gens: generation_counters
Registry == [job : [Jobs -> JobRecord], gens : [Jobs -> 0..MaxGen],
             occ : [Occs -> OccurrenceState]]

EmptyRegistry == [job  |-> [j \in Jobs |-> NoJob],
                  gens |-> [j \in Jobs |-> 0],
                  occ  |-> [o \in Occs |-> "none"]]

\* no Work; a Work, with or without a Run in the kernel; the Run bound to it
Stages == 0..2
Bound == 2

\* t: the time read when the pass began; todo: occurrences still to look at
IdleDisp == [pc |-> "idle", t |-> 0, todo |-> {}, occ |-> NoOcc]

IsTick(o) == o.trig \in Times

Unsettled == {"pending", "uncertain"}

-----------------------------------------------------------------------------
(* SchedulerService.                                                       *)

\* Mutant: the next run is counted backwards.
ComputeNextRunBack(kind, t) == IF kind = "event" THEN 0 ELSE t - 1

\* compute_next_run
ComputeNextRun(kind, t) == IF kind = "event" THEN 0 ELSE t + 1

Later(a, b) == IF a < b THEN b ELSE a

Pending(s) == {o \in Occs : s.occ[o] = "pending"}

\* due: the schedule's time has come, and no occurrence for that time is
\* past "pending".
Due(s, j, t) ==
    /\ s.job[j].gen > 0 /\ s.job[j].on
    /\ s.job[j].next \in 1..t
    /\ \A g \in 1..MaxGen :
          s.occ[[job |-> j, gen |-> g, trig |-> s.job[j].next]] \in {"none", "pending"}

Dropped(s, j, t) == Due(s, j, t) /\ s.job[j].kind = "skip"

\* admit_due: a cron job with the policy Skip only moves on; the tick of any
\* other due job is admitted, unless it was before.
AdmitDue(s, t) ==
    [job  |-> [j \in Jobs |->
                 IF Dropped(s, j, t)
                 THEN [s.job[j] EXCEPT !.next = ComputeNextRun(s.job[j].kind, t)]
                 ELSE s.job[j]],
     gens |-> s.gens,
     occ  |-> [o \in Occs |->
                 IF /\ o.gen = s.job[o.job].gen /\ o.trig = s.job[o.job].next
                    /\ s.occ[o] = "none"
                    /\ Due(s, o.job, t) /\ ~Dropped(s, o.job, t)
                 THEN "pending" ELSE s.occ[o]]]

\* admit_selected_in_memory for the key k of a delivery: the digest finds an
\* earlier delivery.
AdmitKey(s, j, k) ==
    LET o == [job |-> j, gen |-> s.job[j].gen, trig |-> k]
    IN  IF s.occ[o] = "none" THEN [s EXCEPT !.occ[o] = "pending"] ELSE s

\* The job of an occurrence has its next run set after time t; an occurrence
\* that no schedule made leaves it alone.
Rescheduled(s, o, t) ==
    IF IsTick(o) /\ s.job[o.job].gen > 0
    THEN [s.job EXCEPT ![o.job].next = ComputeNextRun(s.job[o.job].kind, t)]
    ELSE s.job

\* Mutant: a cancelled occurrence can still be advanced.
AdvanceableAnyway(s, o) == s.occ[o] # "none"

\* mark_occurrence_fired_with_receipt changes the registry: the occurrence is
\* open and its automation is registered.
Advanceable(s, o) == s.occ[o] \in Unsettled /\ s.job[o.job].gen > 0

Advanced(s, o, t) ==
    [job  |-> Rescheduled(s, o, IF IsTick(o) THEN Later(t, o.trig) ELSE t),
     gens |-> s.gens,
     occ  |-> [s.occ EXCEPT ![o] = "terminal"]]

\* Mutant: the state is left as it was.
DoubtedSilently(s, o) == s

\* mark_occurrence_uncertain
Doubted(s, o) == [s EXCEPT !.occ[o] = "uncertain"]

\* cancel_occurrence
Cancelled(s, o) == [job  |-> Rescheduled(s, o, o.trig),
                    gens |-> s.gens,
                    occ  |-> [s.occ EXCEPT ![o] = "cancelled"]]

\* upsert_checked_with_enabled: a job that was deleted comes back as a new
\* generation; retime: the trigger is another one.  (The call may switch the
\* job on or off as well: Switch.)
Upserted(s, j, kind, retime) ==
    LET old == s.job[j]
        gen == IF old.gen > 0 THEN old.gen ELSE s.gens[j] + 1
        new == [gen  |-> gen,
                kind |-> kind,
                on   |-> old.gen = 0 \/ old.on,
                next |-> IF old.gen = 0 \/ retime \/ old.next = 0
                         THEN ComputeNextRun(kind, now) ELSE old.next]
    IN  [job  |-> [s.job EXCEPT ![j] = new],
         gens |-> [s.gens EXCEPT ![j] = gen],
         occ  |-> s.occ]

\* Mutant: only what is pending keeps a job from being deleted.
DeletableIfIdle(s, j) ==
    s.job[j].gen > 0 /\ \A o \in Occs : o.job = j => s.occ[o] # "pending"

\* delete_checked: refused while an occurrence is neither advanced nor
\* cancelled.
Deletable(s, j) ==
    s.job[j].gen > 0 /\ \A o \in Occs : o.job = j => s.occ[o] \notin Unsettled

Deleted(s, j) == [s EXCEPT !.job[j] = NoJob]

\* set_enabled, pause, resume, pause_session_checked and what else holds a
\* job back
Switched(s, j, on) == [s EXCEPT !.job[j].on = on]

-----------------------------------------------------------------------------
(* Calls.                                                                  *)

\* The commands of scheduler_cmds.rs that call the service directly: a write
\* that fails leaves everything as it was.
Command(new) == mem' = new /\ disk' = new

\* handle, for the methods of the relay and of the commands that deliver: the
\* operation writes the file, then handle writes it again.  If only the
\* second write fails the operation is undone in memory and told to have
\* failed; whether the file is put back depends on a third write.
Call(new) ==
    \/ mem' = new /\ disk' = new
    \/ mem' = mem /\ disk' \in {new, mem}

Upsert(j) ==
    /\ mem.job[j].gen > 0 \/ mem.gens[j] < MaxGen
    /\ \E kind \in Kinds, retime \in BOOLEAN :
          /\ (kind = "event") # (mem.job[j].kind = "event") => retime
          /\ Command(Upserted(mem, j, kind, retime))
    /\ UNCHANGED <<now, work, disp>>

Delete(j) ==
    /\ Deletable(mem, j)
    /\ Command(Deleted(mem, j))
    /\ UNCHANGED <<now, work, disp>>

Switch(j) ==
    /\ mem.job[j].gen > 0
    /\ Command(Switched(mem, j, ~mem.job[j].on))
    /\ UNCHANGED <<now, work, disp>>

\* admit_event_with_key, admit_webhook_with_key, admit_manual_with_key
Deliver(j, k) ==
    /\ mem.job[j].gen > 0 /\ mem.job[j].on
    /\ Call(AdmitKey(mem, j, k))
    /\ UNCHANGED <<now, work, disp>>

\* scheduler/due, scheduler/admit_due
AskDue ==
    /\ Call(AdmitDue(mem, now))
    /\ UNCHANGED <<now, work, disp>>

\* scheduler/cancel_occurrence
Cancel(o) ==
    /\ mem.occ[o] \in Unsettled
    /\ Call(Cancelled(mem, o))
    /\ UNCHANGED <<now, work, disp>>

\* scheduler/occurrence_error
ReportError(o) ==
    /\ mem.occ[o] \in Unsettled
    /\ Call(Doubted(mem, o))
    /\ UNCHANGED <<now, work, disp>>

\* scheduler/mark_occurrence_fired, by a host that has the receipt it sends
Reconcile(o) ==
    /\ work[o] = Bound
    /\ Advanceable(mem, o)
    /\ Call(Advanced(mem, o, now))
    /\ UNCHANGED <<now, work, disp>>

-----------------------------------------------------------------------------
(* fire_due_checked.                                                       *)

\* The loop goes on to the next occurrence, or the pass is over.
Continue(d) ==
    LET rest == disp[d].todo \ {disp[d].occ}
    IN  disp' = [disp EXCEPT ![d] = IF rest = {} THEN IdleDisp
                                    ELSE [@ EXCEPT !.pc = "loop", !.todo = rest, !.occ = NoOcc]]

\* What is pending and what is due, under one lock.  A write that fails ends
\* the pass.
Collect(d) ==
    LET s == AdmitDue(mem, now)
    IN  /\ disp[d].pc = "idle"
        /\ Pending(s) # {}  \/ s # mem
        /\ mem' = s
        /\ disk' = IF s = mem THEN disk ELSE s
        /\ disp' = [disp EXCEPT ![d] = IF Pending(s) = {} THEN IdleDisp
                                       ELSE [pc |-> "loop", t |-> now, todo |-> Pending(s),
                                             occ |-> NoOcc]]
        /\ UNCHANGED <<now, work>>

\* The state is read again before anything is created for the occurrence.
Recheck(d, o) ==
    /\ disp[d].pc = "loop" /\ o \in disp[d].todo
    /\ disp' = [disp EXCEPT ![d] =
                   IF mem.occ[o] = "pending" THEN [disp[d] EXCEPT !.pc = "dispatch", !.occ = o]
                   ELSE IF disp[d].todo = {o} THEN IdleDisp
                   ELSE [disp[d] EXCEPT !.todo = disp[d].todo \ {o}]]
    /\ UNCHANGED <<now, mem, disk, work>>

\* Mutant: a Work that could not be completed counts as admitted.
AdmittedAnyway(stage) == TRUE

\* The receipt is made when the Run is bound to the Work.
Admitted(stage) == stage = Bound

\* dispatch_occurrence, under the gateway's lock: each part that is not there
\* yet is created, until one of them fails.  The ids are derived from the
\* occurrence's, so what an earlier pass created is found again.
Dispatch(d) ==
    LET o == disp[d].occ
    IN  /\ disp[d].pc = "dispatch"
        /\ \E stage \in work[o]..Bound, ok \in BOOLEAN :
              /\ ok => Admitted(stage)
              /\ work' = [work EXCEPT ![o] = stage]
              /\ disp' = [disp EXCEPT ![d].pc = IF ok THEN "advance" ELSE "failed"]
        /\ UNCHANGED <<now, mem, disk>>

\* mark_occurrence_fired_with_receipt of the pass, with the pass's time
AdvanceWritten(d) ==
    LET o == disp[d].occ
    IN  /\ disp[d].pc = "advance"
        /\ Advanceable(mem, o)
        /\ mem' = Advanced(mem, o, disp[d].t) /\ disk' = mem'
        /\ Continue(d)
        /\ UNCHANGED <<now, work>>

\* ... of an occurrence that another pass has advanced: the receipt is the same
AdvanceAgain(d) ==
    /\ disp[d].pc = "advance"
    /\ mem.occ[disp[d].occ] = "terminal"
    /\ Continue(d)
    /\ UNCHANGED <<now, mem, disk, work>>

\* ... of one that was cancelled, or whose job is gone, or the write fails
AdvanceRefused(d) ==
    /\ disp[d].pc = "advance"
    /\ mem.occ[disp[d].occ] # "terminal"
    /\ disp' = [disp EXCEPT ![d].pc = "failed"]
    /\ UNCHANGED <<now, mem, disk, work>>

\* mark_occurrence_uncertain of scheduler_fire.rs: its own failure is ignored.
DoubtWritten(d) ==
    /\ disp[d].pc = "failed"
    /\ mem.occ[disp[d].occ] \in Unsettled
    /\ mem' = Doubted(mem, disp[d].occ) /\ disk' = mem'
    /\ Continue(d)
    /\ UNCHANGED <<now, work>>

DoubtLost(d) ==
    /\ disp[d].pc = "failed"
    /\ Continue(d)
    /\ UNCHANGED <<now, mem, disk, work>>

-----------------------------------------------------------------------------
Tick ==
    /\ now < MaxTime
    /\ now' = now + 1
    /\ UNCHANGED <<mem, disk, work, disp>>

\* The host stops; load_or_new_checked reads the file.
Restart ==
    /\ mem' = disk
    /\ disp' = [d \in Dispatchers |-> IdleDisp]
    /\ UNCHANGED <<now, disk, work>>

SchedInit ==
    /\ now = 0
    /\ mem = EmptyRegistry /\ disk = EmptyRegistry
    /\ work = [o \in Occs |-> 0]
    /\ disp = [d \in Dispatchers |-> IdleDisp]

DispatcherStep(d) ==
    \/ Collect(d)
    \/ \E o \in Occs : Recheck(d, o)
    \/ Dispatch(d)
    \/ AdvanceWritten(d) \/ AdvanceAgain(d) \/ AdvanceRefused(d)
    \/ DoubtWritten(d) \/ DoubtLost(d)

SchedNext ==
    \/ \E j \in Jobs : Upsert(j) \/ Delete(j) \/ Switch(j) \/ \E k \in Keys : Deliver(j, k)
    \/ AskDue
    \/ \E o \in Occs : Cancel(o) \/ ReportError(o) \/ Reconcile(o)
    \/ \E d \in Dispatchers : DispatcherStep(d)
    \/ Tick \/ Restart

SchedSpec == SchedInit /\ [][SchedNext]_schedVars

\* The timer starts a pass again and again and every pass is carried on; a
\* write that is tried again and again succeeds at some point; the host is
\* not restarted for ever.
SchedFairness ==
    /\ WF_schedVars(Collect(Loop))
    /\ \A o \in Occs : WF_schedVars(Recheck(Loop, o))
    /\ WF_schedVars(Dispatch(Loop))
    /\ WF_schedVars(AdvanceAgain(Loop))
    /\ WF_schedVars(AdvanceWritten(Loop) \/ AdvanceRefused(Loop))
    /\ WF_schedVars(DoubtLost(Loop))
    /\ SF_schedVars(DoubtWritten(Loop))
    /\ <>[][~Restart]_schedVars

FairSchedSpec == SchedSpec /\ SchedFairness

-----------------------------------------------------------------------------
(* Properties.                                                             *)

\* Type invariant of the scheduler's state.
SchedTypeOK ==
    /\ now \in 0..MaxTime
    /\ mem \in Registry /\ disk \in Registry
    /\ work \in [Occs -> Stages]
    /\ disp \in [Dispatchers -> [pc   : {"idle", "loop", "dispatch", "advance", "failed"},
                                 t    : 0..MaxTime,
                                 todo : SUBSET Occs,
                                 occ  : Occs \cup {NoOcc}]]

\* An occurrence that is neither advanced nor cancelled belongs to the
\* registered generation of its job, in memory and in the file: a receipt
\* for it finds the job to move on (delete_checked, lookup by automation id
\* in mark_occurrence_fired_with_receipt).
OpenHasJob ==
    \A s \in {mem, disk}, o \in Occs :
        s.occ[o] \in Unsettled => s.job[o.job].gen = o.gen

\* Whatever happens to the writes and wherever the host stops, the file knows
\* every occurrence for which a Work was created, so that a restart does not
\* admit its tick or delivery again; and an advanced occurrence has its Run
\* (fire_due_checked: durable before dispatch, receipt after admission).
FileKnowsWork ==
    \A o \in Occs :
        /\ work[o] > 0 => disk.occ[o] # "none"
        /\ disk.occ[o] = "terminal" => work[o] = Bound

\* The scheduler implements the life of an occurrence of OccurrenceAdmission:
\* one admission, one settlement, no way back, whoever calls, whatever write
\* fails, and across restarts.
Abstract == INSTANCE OccurrenceAdmission
                WITH Occurrences <- Occs,
                     state <- mem.occ,
                     ran <- {o \in Occs : work[o] = Bound}

Implements == Abstract!Spec

\* A pending occurrence does not stay pending: the dispatcher advances it, or
\* says that it cannot (fire_due_checked, spawn_loop).
PendingSettles == \A o \in Occs : mem.occ[o] = "pending" ~> mem.occ[o] # "pending"
=============================================================================
