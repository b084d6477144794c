------------------------------ MODULE Sidecar ------------------------------
(***************************************************************************)
(* The coordinator sidecar as the shell keeps it: the supervisor of its    *)
(* process (everyaios-core/src/supervisor.rs), the framed link to it       *)
(* (sidecar_link.rs), and the thread that builds a chat relay, with a Work *)
(* Gateway of its own, at every spawn (src-tauri/src/lib.rs, chat.rs).     *)
(*                                                                         *)
(* Children are numbered by spawn, and each has one link, one relay and    *)
(* one gateway; child is the last one spawned.  Durations are left out: a  *)
(* timeout may strike whenever what it waits for has not happened.  Frames *)
(* are the ids of the answers they carry, or Beat for anything else.  The  *)
(* journal is the sequence numbers of its rows.                            *)
(***************************************************************************)
EXTENDS Integers, Sequences

CONSTANTS
    Turns,             \* command threads of the shell that need the sidecar
    CircuitThreshold,  \* CIRCUIT_THRESHOLD
    MaxChild,          \* bound on spawns
    MaxCall,           \* bound on requests to the sidecar
    MaxFrames,         \* bound on frames in a pipe
    MaxRows            \* bound on rows of the journal

ASSUME SidecarConstants ==
    /\ CircuitThreshold \in Nat \ {0}
    /\ MaxChild \in Nat
    /\ MaxCall \in Nat
    /\ MaxFrames \in Nat
    /\ MaxRows \in Nat

VARIABLES
    sup,      \* the supervisor's thread: where it is, and its state
    crashes,  \* crashes inside the window
    child,    \* the last child spawned, 0 before the first
    proc,     \* each child's process
    out,      \* frames in each child's stdout
    inbox,    \* requests each child has and has not answered
    heard,    \* last_activity_ms is not 0
    parked,   \* the flags shared with the shell
    resume,
    handoff,  \* link_tx: children whose pipes wait for the link thread
    linker,   \* the link thread: where it is, and the child it builds for
    reader,   \* the reader thread of each link
    pending,  \* the requests registered in each link
    relay,    \* the child of the published relay, or 0
    gateway,  \* next_seq of each relay's gateway, 0 if not opened
    journal,  \* work/events.jsonl
    call,     \* the caller of request, which holds the relay's lock
    calls,    \* requests made
    turn      \* the command threads: where each is, and its gateway

supVars == <<sup, crashes, child, parked, resume>>
procVars == <<proc, inbox>>
linkVars == <<reader, pending, call, calls>>
relayVars == <<handoff, linker, relay, gateway, journal>>
sidecarVars == <<supVars, procVars, out, heard, linkVars, relayVars, turn>>

Children == 1..MaxChild

Calls == 1..MaxCall

Beat == 0

Idle == [pc |-> "idle", on |-> 0, id |-> 0, ans |-> "none"]

---------------------------------------------------------------------------
(* The child process, as the supervisor and the link see it *)

Alive(c) == c \in Children /\ proc[c] = "alive"

(* A notification: session/ready, a heartbeat, a chat event. *)
Emit(c) ==
    /\ Alive(c)
    /\ Len(out[c]) < MaxFrames
    /\ out' = [out EXCEPT ![c] = Append(@, Beat)]
    /\ UNCHANGED <<supVars, procVars, heard, linkVars, relayVars, turn>>

Answer(c, q) ==
    /\ Alive(c)
    /\ q \in inbox[c]
    /\ Len(out[c]) < MaxFrames
    /\ out' = [out EXCEPT ![c] = Append(@, q)]
    /\ inbox' = [inbox EXCEPT ![c] = @ \ {q}]
    /\ UNCHANGED <<supVars, proc, heard, linkVars, relayVars, turn>>

(* Exit codes 0 (rotation), 75 (idle) and any other. *)
Exit(c, how) ==
    /\ Alive(c)
    /\ proc' = [proc EXCEPT ![c] = how]
    /\ inbox' = [inbox EXCEPT ![c] = {}]
    /\ UNCHANGED <<supVars, out, heard, linkVars, relayVars, turn>>

---------------------------------------------------------------------------
(* Supervisor *)

At(pc, st) == sup' = [pc |-> pc, state |-> st]

(* record_crash: some of the older crashes have left the window. *)
RecordCrash ==
    \E k \in 0..crashes :
        /\ crashes' = k + 1
        /\ IF k + 1 >= CircuitThreshold THEN At("ended", "CircuitOpen")
                                        ELSE At("spawning", "Restarting")

(* spawn: parked is cleared, the child started, the clock reset, the pipes
   handed over.  Nobody receives them once the link thread has ended. *)
Spawn ==
    /\ sup.pc = "spawning"
    /\ child < MaxChild
    /\ At("poll", "Starting")
    /\ child' = child + 1
    /\ proc' = [proc EXCEPT ![child + 1] = "alive"]
    /\ parked' = FALSE
    /\ heard' = FALSE
    /\ handoff' = IF linker.pc = "ended" THEN handoff
                                         ELSE Append(handoff, child + 1)
    /\ UNCHANGED <<crashes, resume, inbox, out, linkVars, linker, relay,
                   gateway, journal, turn>>

(* An error of spawn ends the supervisor. *)
SpawnFails ==
    /\ sup.pc = "spawning"
    /\ At("ended", "Starting")
    /\ parked' = FALSE
    /\ UNCHANGED <<crashes, child, resume, procVars, out, heard, linkVars,
                   relayVars, turn>>

(* A byte on stderr; its reader is joined before the next child starts. *)
Stderr ==
    /\ sup.pc = "poll"
    /\ Alive(child)
    /\ heard' = TRUE
    /\ UNCHANGED <<supVars, procVars, out, linkVars, relayVars, turn>>

(* check_watchdog: the first byte promotes the child. *)
Promote ==
    /\ sup = [pc |-> "poll", state |-> "Starting"]
    /\ heard
    /\ At("poll", "Running")
    /\ UNCHANGED <<crashes, child, parked, resume, procVars, out, heard,
                   linkVars, relayVars, turn>>

Late == \/ sup.state = "Starting" /\ ~heard
        \/ sup.state = "Running" /\ heard

(* Mutant: the watchdog restarts the child without killing it. *)
WatchdogSpares ==
    /\ sup.pc = "poll"
    /\ Late
    /\ RecordCrash
    /\ UNCHANGED <<child, parked, resume, procVars, out, heard, linkVars,
                   relayVars, turn>>

(* check_watchdog: nothing heard in time, so kill, count a crash, restart.
   An exit that try_wait has not yet seen is lost. *)
Watchdog ==
    /\ sup.pc = "poll"
    /\ Late
    /\ RecordCrash
    /\ proc' = [proc EXCEPT ![child] = "crashed"]
    /\ inbox' = [inbox EXCEPT ![child] = {}]
    /\ UNCHANGED <<child, parked, resume, out, heard, linkVars,
                   relayVars, turn>>

(* wait_or_restart: the three ways a child's exit is taken. *)
Rotate ==
    /\ sup.pc = "poll"
    /\ proc[child] = "rotated"
    /\ At("spawning", "Starting")
    /\ UNCHANGED <<crashes, child, parked, resume, procVars, out, heard,
                   linkVars, relayVars, turn>>

Park ==
    /\ sup.pc = "poll"
    /\ proc[child] = "idle"
    /\ At("parked", "Stopped")
    /\ parked' = TRUE
    /\ UNCHANGED <<crashes, child, resume, procVars, out, heard, linkVars,
                   relayVars, turn>>

Crashed ==
    /\ sup.pc = "poll"
    /\ proc[child] = "crashed"
    /\ RecordCrash
    /\ UNCHANGED <<child, parked, resume, procVars, out, heard, linkVars,
                   relayVars, turn>>

(* Mutant: the flag is left for the spawn to clear. *)
ResumeParked ==
    /\ sup.pc = "parked"
    /\ resume
    /\ resume' = FALSE
    /\ At("spawning", "Starting")
    /\ UNCHANGED <<crashes, child, parked, procVars, out, heard, linkVars,
                   relayVars, turn>>

Resume ==
    /\ sup.pc = "parked"
    /\ resume
    /\ resume' = FALSE
    /\ parked' = FALSE
    /\ At("spawning", "Starting")
    /\ UNCHANGED <<crashes, child, procVars, out, heard, linkVars, relayVars,
                   turn>>

Supervise == \/ Spawn \/ SpawnFails \/ Promote \/ Watchdog \/ Rotate \/ Park
             \/ Crashed \/ Resume

---------------------------------------------------------------------------
(* Link *)

(* The reader thread takes a frame: stamps the heard, and routes an answer
   to the caller that registered it, if one still waits. *)
Decode(c) ==
    LET q == Head(out[c])
        hit == q \in pending[c]
    IN  /\ reader[c] = "reading"
        /\ out[c] # <<>>
        /\ out' = [out EXCEPT ![c] = Tail(@)]
        /\ heard' = TRUE
        /\ pending' = [pending EXCEPT ![c] = @ \ {q}]
        /\ call' = IF hit /\ call.pc # "idle" /\ call.id = q
                   THEN [call EXCEPT !.ans = "ok"] ELSE call
        /\ UNCHANGED <<supVars, procVars, reader, calls, relayVars, turn>>

(* Every registered request is failed. *)
Drained(c) ==
    /\ pending' = [pending EXCEPT ![c] = {}]
    /\ call' = IF call.pc # "idle" /\ call.on = c /\ call.id \in pending[c]
               THEN [call EXCEPT !.ans = "closed"] ELSE call
    /\ UNCHANGED <<supVars, procVars, out, heard, calls, relayVars, turn>>

(* Mutant: the requests of a dead sidecar are left to their timeout. *)
EofSilent(c) ==
    /\ reader[c] = "reading"
    /\ out[c] = <<>>
    /\ ~Alive(c)
    /\ reader' = [reader EXCEPT ![c] = "ended"]
    /\ UNCHANGED <<supVars, procVars, out, heard, pending, call, calls,
                   relayVars, turn>>

(* End of the child's stdout. *)
Eof(c) ==
    /\ reader[c] = "reading"
    /\ out[c] = <<>>
    /\ ~Alive(c)
    /\ reader' = [reader EXCEPT ![c] = "ended"]
    /\ Drained(c)

(* A frame over the limit ends the reader too, with the child alive. *)
BadFrame(c) ==
    /\ reader[c] = "reading"
    /\ Alive(c)
    /\ reader' = [reader EXCEPT ![c] = "failed"]
    /\ Drained(c)

RelayFree == call.pc = "idle"

(* request, called with the relay's lock held (bound_agent): registered,
   then written, then awaited. *)
Register ==
    /\ RelayFree
    /\ relay # 0
    /\ calls < MaxCall
    /\ calls' = calls + 1
    /\ call' = [pc |-> "registered", on |-> relay, id |-> calls + 1,
                ans |-> "none"]
    /\ pending' = [pending EXCEPT ![relay] = @ \cup {calls + 1}]
    /\ UNCHANGED <<supVars, procVars, out, heard, reader, relayVars, turn>>

Write ==
    /\ call.pc = "registered"
    /\ IF Alive(call.on)
       THEN /\ inbox' = [inbox EXCEPT ![call.on] = @ \cup {call.id}]
            /\ call' = [call EXCEPT !.pc = "sent"]
       ELSE /\ call' = Idle
            /\ UNCHANGED inbox
    /\ UNCHANGED <<supVars, proc, out, heard, reader, pending, calls,
                   relayVars, turn>>

(* An answer, the error of the drain, or REQUEST_TIMEOUT.  What timed out
   stays registered. *)
Return ==
    /\ call.pc = "sent"
    /\ call' = Idle
    /\ UNCHANGED <<supVars, procVars, out, heard, reader, pending, calls,
                   relayVars, turn>>

---------------------------------------------------------------------------
(* Relay and journal *)

Increasing(s) == \A i \in 1..(Len(s) - 1) : s[i] < s[i + 1]

Last(s) == IF s = <<>> THEN 0 ELSE s[Len(s)]

(* connect_chat_relay up to the relay: the reader starts, and WorkGateway::
   open reads the journal.  A journal it refuses is a panic of this thread. *)
Connect ==
    /\ linker.pc = "recv"
    /\ handoff # <<>>
    /\ LET c == Head(handoff)
       IN  /\ reader' = [reader EXCEPT ![c] = "reading"]
           /\ IF Increasing(journal)
              THEN /\ gateway' = [gateway EXCEPT ![c] = Last(journal) + 1]
                   /\ linker' = [pc |-> "building", for |-> c]
              ELSE /\ linker' = [pc |-> "ended", for |-> 0]
                   /\ UNCHANGED gateway
    /\ handoff' = Tail(handoff)
    /\ UNCHANGED <<supVars, procVars, out, heard, pending, call, calls,
                   relay, journal, turn>>

(* Mutant: a relay that is there is not replaced. *)
PublishOnce ==
    /\ linker.pc = "building"
    /\ RelayFree
    /\ relay' = IF relay = 0 THEN linker.for ELSE relay
    /\ linker' = [pc |-> "recv", for |-> 0]
    /\ UNCHANGED <<supVars, procVars, out, heard, linkVars, handoff, gateway,
                   journal, turn>>

(* The new relay replaces the old one, whose gateway lives on where a
   thread holds it. *)
Publish ==
    /\ linker.pc = "building"
    /\ RelayFree
    /\ relay' = linker.for
    /\ linker' = [pc |-> "recv", for |-> 0]
    /\ UNCHANGED <<supVars, procVars, out, heard, linkVars, handoff, gateway,
                   journal, turn>>

---------------------------------------------------------------------------
(* A command thread: ensure_sidecar, then the relay's gateway *)

Goto(t, pc, g) == turn' = [turn EXCEPT ![t] = [pc |-> pc, gw |-> g]]

Check(t) ==
    /\ turn[t].pc = "idle"
    /\ Goto(t, IF parked THEN "waking" ELSE "ready", 0)
    /\ UNCHANGED <<supVars, procVars, out, heard, linkVars, relayVars>>

(* Mutant: the thread waits for the spawn it does not ask for. *)
WakeMute(t) ==
    /\ turn[t].pc = "waking"
    /\ Goto(t, "ready", 0)
    /\ UNCHANGED <<supVars, procVars, out, heard, linkVars, relayVars>>

Wake(t) ==
    /\ turn[t].pc = "waking"
    /\ resume' = TRUE
    /\ Goto(t, "ready", 0)
    /\ UNCHANGED <<sup, crashes, child, parked, procVars, out, heard,
                   linkVars, relayVars>>

(* The wait of ensure_sidecar, until parked is cleared or two seconds are
   over, then relay_planes: the gateway of the relay published now. *)
TakeGateway(t) ==
    /\ turn[t].pc = "ready"
    /\ RelayFree
    /\ IF relay = 0 THEN Goto(t, "idle", 0) ELSE Goto(t, "holding", relay)
    /\ UNCHANGED <<supVars, procVars, out, heard, linkVars, relayVars>>

(* WorkGateway::append, with the number this gateway counts. *)
AppendRow(t) ==
    LET g == turn[t].gw
    IN  /\ turn[t].pc = "holding"
        /\ Len(journal) < MaxRows
        /\ journal' = Append(journal, gateway[g])
        /\ gateway' = [gateway EXCEPT ![g] = @ + 1]
        /\ UNCHANGED <<supVars, procVars, out, heard, linkVars, handoff,
                       linker, relay, turn>>

Finish(t) ==
    /\ turn[t].pc = "holding"
    /\ Goto(t, "idle", 0)
    /\ UNCHANGED <<supVars, procVars, out, heard, linkVars, relayVars>>

TurnStep(t) == \/ Check(t) \/ Wake(t) \/ TakeGateway(t)
               \/ AppendRow(t) \/ Finish(t)

---------------------------------------------------------------------------
SidecarInit ==
    /\ sup = [pc |-> "spawning", state |-> "Stopped"]
    /\ crashes = 0
    /\ child = 0
    /\ proc = [c \in Children |-> "none"]
    /\ out = [c \in Children |-> <<>>]
    /\ inbox = [c \in Children |-> {}]
    /\ heard = FALSE
    /\ parked = FALSE
    /\ resume = FALSE
    /\ handoff = <<>>
    /\ linker = [pc |-> "recv", for |-> 0]
    /\ reader = [c \in Children |-> "none"]
    /\ pending = [c \in Children |-> {}]
    /\ relay = 0
    /\ gateway = [c \in Children |-> 0]
    /\ journal = <<>>
    /\ call = Idle
    /\ calls = 0
    /\ turn = [t \in Turns |-> [pc |-> "idle", gw |-> 0]]

ChildStep(c) ==
    \/ Emit(c)
    \/ \E q \in Calls : Answer(c, q)
    \/ \E how \in {"rotated", "idle", "crashed"} : Exit(c, how)

ReaderStep(c) == Decode(c) \/ Eof(c) \/ BadFrame(c)

SidecarNext ==
    \/ Supervise
    \/ Stderr
    \/ Connect
    \/ Publish
    \/ Register
    \/ Write
    \/ Return
    \/ \E c \in Children : ChildStep(c) \/ ReaderStep(c)
    \/ \E t \in Turns : TurnStep(t)

SidecarSpec == SidecarInit /\ [][SidecarNext]_sidecarVars

(* Every thread of the shell runs; a caller's wait and a turn's end in a
   timeout.  The child owes nothing. *)
FairSidecarSpec ==
    /\ SidecarSpec
    /\ WF_sidecarVars(Spawn \/ SpawnFails \/ Rotate \/ Park \/ Crashed \/ Resume)
    /\ WF_sidecarVars(Connect)
    /\ WF_sidecarVars(Publish)
    /\ WF_sidecarVars(Write \/ Return)
    /\ \A c \in Children : WF_sidecarVars(Decode(c) \/ Eof(c))
    /\ \A t \in Turns : WF_sidecarVars(Wake(t))

---------------------------------------------------------------------------
(* Properties *)

SupType ==
    /\ sup \in [pc : {"spawning", "poll", "parked", "ended"},
                state : {"Stopped", "Starting", "Running", "Restarting",
                         "CircuitOpen"}]
    /\ crashes \in 0..CircuitThreshold
    /\ child \in 0..MaxChild
    /\ heard \in BOOLEAN
    /\ resume \in BOOLEAN
    /\ parked \in BOOLEAN
    /\ parked <=> sup.pc = "parked"

ProcType ==
    /\ proc \in [Children -> {"none", "alive", "rotated", "idle", "crashed"}]
    /\ out \in [Children -> Seq(Calls \cup {Beat})]
    /\ inbox \in [Children -> SUBSET Calls]

LinkType ==
    /\ reader \in [Children -> {"none", "reading", "ended", "failed"}]
    /\ pending \in [Children -> SUBSET Calls]
    /\ call \in [pc : {"idle", "registered", "sent"}, on : 0..MaxChild,
                 id : 0..MaxCall, ans : {"none", "ok", "closed"}]
    /\ calls \in 0..MaxCall

RelayType ==
    /\ handoff \in Seq(Children)
    /\ linker \in [pc : {"recv", "building", "ended"}, for : 0..MaxChild]
    /\ relay \in 0..MaxChild
    /\ gateway \in [Children -> Nat]
    /\ journal \in Seq(Nat)

TurnType ==
    turn \in [Turns -> [pc : {"idle", "waking", "ready", "holding"},
                        gw : 0..MaxChild]]

(* Types; and parked is set exactly while the supervisor waits in its park
   ("True while the child is down after an idle exit"). *)
SidecarTypeOK == SupType /\ ProcType /\ LinkType /\ RelayType /\ TurnType

(* A new child is started only when no child runs, which is what makes the
   join of the old one's readers return ("every path into spawn() has a dead
   or absent previous child", supervisor.rs), and the supervisor always
   polls the child that runs. *)
OneChild ==
    \A c \in Children : proc[c] = "alive" => c = child /\ sup.pc = "poll"

(* "Fail-closed: when the sidecar's stdout hits EOF (process died), every
   pending request errors instead of hanging" (sidecar_link.rs): whoever
   waits without an answer is registered in a link whose reader runs, unless
   that reader gave up on a frame while its child lives on. *)
NoOrphanCall ==
    (call.pc = "sent" /\ call.ans = "none" /\ reader[call.on] # "failed")
        => call.id \in pending[call.on] /\ reader[call.on] = "reading"

(* A turn that finds the sidecar parked gets a running child, unless the
   supervisor ends (ensure_sidecar, wait_or_restart). *)
WakeIsServed ==
    \A t \in Turns :
        (turn[t].pc = "waking")
            ~> (sup.pc = "ended" \/ child = MaxChild \/ Alive(child))

(* A child that stays up gets its relay published, whatever the callers of
   the old relay do (connect_chat_relay), unless the journal is refused. *)
LiveChildServed ==
    Alive(child) ~> (~Alive(child) \/ relay = child \/ linker.pc = "ended")

(* "Each durable store has exactly one writer" (ARCH/05-INVARIANTS.md), so
   the rows of the journal are in strictly increasing order, as
   WorkGateway::open demands of them. *)
JournalInOrder == Increasing(journal)
=============================================================================
