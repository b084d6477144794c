----------------------------- MODULE AcpSession -----------------------------
(***************************************************************************)
(* One agent process behind an ACP handle: the session and its transport   *)
(* (everyaios-acp/src/client.rs) and the commands that share them, prompt, *)
(* other requests, stop and shutdown (src-tauri/src/acp_cmds.rs).          *)
(*                                                                         *)
(* A prompt holds the session's mutex until it returns.  A stop does not   *)
(* take that mutex: it reads the active turn under one lock (gate), takes  *)
(* another (write_gate), looks again, and writes session/cancel, which     *)
(* names no turn, into the pipe the prompt writes to.                      *)
(*                                                                         *)
(* Abstractions: a turn's generation is the id of its prompt, both being   *)
(* drawn under the mutex.  A frame of the agent is an answer, a request of *)
(* its own ("ask": permission, file or terminal, whatever the reply), a    *)
(* notification, or anything the client cannot accept ("bad").  The grace  *)
(* of a cancellation is a duration, so it may run out whenever a stop is   *)
(* on record.  What the session negotiates or stores, and session/load,    *)
(* which nothing calls, are left out; so is the Work's side of a prompt.   *)
(***************************************************************************)
EXTENDS Integers, Sequences

CONSTANTS
    Callers,    \* threads that prompt or make another request
    Stoppers,   \* threads that run acp_cancel
    Nobody,     \* "no thread"
    MaxId,      \* bound on requests
    MaxPipe,    \* bound on frames in the agent's stdin
    MaxOut,     \* bound on frames in its stdout
    MaxParked   \* MAX_PENDING_FRAMES

Ids == 1..MaxId

ASSUME AcpConstants ==
    /\ Nobody \notin Callers \cup Stoppers
    /\ Callers \cap Stoppers = {}
    /\ MaxId \in Nat /\ MaxPipe \in Nat \ {0} /\ MaxOut \in Nat \ {0} /\ MaxParked \in Nat

VARIABLES
    registered, \* the handle is in acp_sessions
    shut,       \* acp_shutdown: where it is
    lock,       \* who holds the session's mutex
    caller,     \* each caller: where it is, what it asks for, under which id
    nextId,     \* next_id
    active,     \* active_generation, 0 for none
    requested,  \* the cancellation flag
    stopper,    \* each stopper: where it is, and the turn it saw
    writeGate,  \* who holds write_gate
    faulted,    \* the cancellation writer failed
    quarantined,\* the session or its transport is given up
    parked,     \* pending: frames kept for the next prompt
    alive,      \* the agent process
    pipe,       \* its stdin; the id of a cancel is history
    out,        \* its stdout
    todo,       \* requests it has read and not answered
    stopping,   \* of those, the prompts it was told to cancel
    asking,     \* it waits for a reply
    asked,      \* history: turns that a stop saw as active
    ended       \* history: how each request ended

hostVars == <<registered, shut, lock, caller, nextId, quarantined, parked, ended>>
cancelVars == <<active, requested, stopper, writeGate, faulted, asked>>
agentVars == <<todo, stopping, asking>>
wireVars == <<alive, pipe, out>>
acpVars == <<hostVars, cancelVars, agentVars, wireVars>>

Kinds == {"prompt", "call"}
Free == {"idle", "waiting"}
Held == {"locked", "prepared", "opening", "send", "top", "recv", "asked", "reply"}

Idle == [pc |-> "idle", kind |-> "call", id |-> 0]
Resting == [pc |-> "idle", target |-> 0]

PipeFrame == [kind : {"prompt", "call", "reply", "cancel"}, id : Ids]
OutFrame == [kind : {"answer", "ask", "note", "bad"}, id : 0..MaxId, how : {"done", "cancelled"}]

At(p, pc) == caller[p].pc = pc
Go(p, pc) == caller' = [caller EXCEPT ![p].pc = pc]

-----------------------------------------------------------------------------
(* The fence of a turn, and the end of a request.                          *)

\* ensure_usable
Usable == ~quarantined /\ ~faulted

\* requested_for
RequestedFor(i) == active = i /\ requested

\* finish_turn
FinishTurn(i) ==
    IF active = i
    THEN active' = 0 /\ requested' = FALSE
    ELSE UNCHANGED <<active, requested>>

\* Mutant: the mutex is kept when a request returns.
ReturnHolding(p, how) ==
    /\ FinishTurn(caller[p].id)
    /\ ended' = [ended EXCEPT ![caller[p].id] = how]
    /\ caller' = [caller EXCEPT ![p] = Idle]
    /\ UNCHANGED lock

\* The request returns: its TurnFence is completed or dropped, and the mutex
\* released.
Return(p, how) ==
    /\ FinishTurn(caller[p].id)
    /\ ended' = [ended EXCEPT ![caller[p].id] = how]
    /\ caller' = [caller EXCEPT ![p] = Idle]
    /\ lock' = Nobody

\* Mutant: an error is returned, and the session used again.
QuarantineNot(p, how) ==
    /\ Return(p, how)
    /\ UNCHANGED quarantined

\* mark_quarantined, and the error
Quarantine(p, how) ==
    /\ quarantined' = TRUE
    /\ Return(p, how)

\* terminate_process
Dies == alive' = FALSE /\ pipe' = <<>>

-----------------------------------------------------------------------------
(* A caller, up to its request.                                            *)

\* The command finds the handle and waits for the session's mutex.
Enter(p, kind) ==
    /\ At(p, "idle") /\ registered
    /\ caller' = [caller EXCEPT ![p] = [pc |-> "waiting", kind |-> kind, id |-> 0]]
    /\ UNCHANGED <<registered, shut, lock, nextId, quarantined, parked, ended,
                   cancelVars, agentVars, wireVars>>

\* acp_prompt looks the handle up again; any other request is made at once.
LockSession(p) ==
    /\ At(p, "waiting") /\ lock = Nobody
    /\ \/ /\ caller[p].kind = "prompt" /\ registered
          /\ lock' = p
          /\ Go(p, "locked")
          /\ UNCHANGED nextId
       \/ /\ caller[p].kind = "prompt" /\ ~registered
          /\ caller' = [caller EXCEPT ![p] = Idle]
          /\ UNCHANGED <<lock, nextId>>
       \/ /\ caller[p].kind = "call" /\ nextId <= MaxId
          /\ lock' = p
          /\ caller' = [caller EXCEPT ![p].pc = "send", ![p].id = nextId]
          /\ nextId' = nextId + 1
    /\ UNCHANGED <<registered, shut, quarantined, parked, ended,
                   cancelVars, agentVars, wireVars>>

\* reset_cancellation
Reset(p) ==
    /\ At(p, "locked") /\ writeGate = Nobody
    /\ active' = 0 /\ requested' = FALSE
    /\ Go(p, "prepared")
    /\ UNCHANGED <<registered, shut, lock, nextId, quarantined, parked, ended,
                   stopper, writeGate, faulted, asked, agentVars, wireVars>>

\* prepare_acp_turn, which may fail, and the checks of prompt_with_content
Prepare(p) ==
    /\ At(p, "prepared")
    /\ \/ /\ Usable /\ nextId <= MaxId
          /\ Go(p, "opening")
          /\ UNCHANGED lock
       \/ /\ caller' = [caller EXCEPT ![p] = Idle]
          /\ lock' = Nobody
    /\ UNCHANGED <<registered, shut, nextId, quarantined, parked, ended,
                   cancelVars, agentVars, wireVars>>

\* begin_turn
BeginTurn(p) ==
    /\ At(p, "opening") /\ writeGate = Nobody /\ nextId <= MaxId
    /\ active' = nextId /\ requested' = FALSE
    /\ nextId' = nextId + 1
    /\ caller' = [caller EXCEPT ![p].pc = "send", ![p].id = nextId]
    /\ UNCHANGED <<registered, shut, lock, quarantined, parked, ended,
                   stopper, writeGate, faulted, asked, agentVars, wireVars>>

\* send_frame: refused for a session that is given up, for a frame that cannot
\* be encoded, and by the pipe of a process that is gone; else it waits for room.
SendRefused(p) ==
    /\ At(p, "send") \/ At(p, "reply")
    /\ \/ ~Usable /\ Return(p, "failed") /\ UNCHANGED quarantined
       \/ Usable /\ (At(p, "send") \/ ~alive) /\ Quarantine(p, "failed")
    /\ UNCHANGED <<registered, shut, nextId, parked, stopper, writeGate, faulted, asked,
                   agentVars, wireVars>>

Send(p) ==
    /\ At(p, "send") /\ Usable /\ alive /\ Len(pipe) < MaxPipe
    /\ pipe' = Append(pipe, [kind |-> caller[p].kind, id |-> caller[p].id])
    /\ Go(p, "top")
    /\ UNCHANGED <<registered, shut, lock, nextId, quarantined, parked, ended,
                   cancelVars, agentVars, alive, out>>

-----------------------------------------------------------------------------
(* Reading until the answer: prompt_with_content and read_response_capture. *)

\* A prompt meets a request or a notification of the agent.
Serve(p, kind) ==
    \/ /\ Go(p, IF kind = "ask" THEN "asked" ELSE "top")
       /\ UNCHANGED <<lock, quarantined, ended, active, requested>>
    \/ Quarantine(p, "failed")

\* The head of the loop: a prompt takes what was parked before it reads, and
\* refuses what is malformed or of another session.  Any other request looks
\* once, and keeps what is parked.
Top(p) ==
    /\ At(p, "top")
    /\ \/ /\ ~Usable
          /\ Return(p, "failed")
          /\ UNCHANGED <<parked, quarantined>>
       \/ /\ Usable /\ caller[p].kind = "prompt" /\ parked # <<>>
          /\ parked' = Tail(parked)
          /\ Serve(p, Head(parked))
       \/ /\ Usable /\ (caller[p].kind = "call" \/ parked = <<>>)
          /\ Go(p, "recv")
          /\ UNCHANGED <<parked, lock, quarantined, ended, active, requested>>
    /\ UNCHANGED <<registered, shut, nextId, stopper, writeGate, faulted, asked,
                   agentVars, wireVars>>

Reads(p, kind) ==
    /\ At(p, "recv") /\ out # <<>> /\ Head(out).kind = kind
    /\ out' = Tail(out)

\* The answer, of which a prompt must understand the payload; one for another
\* request is kept for its owner.
ReadAnswer(p) ==
    /\ Reads(p, "answer")
    /\ IF Head(out).id = caller[p].id
       THEN \/ Return(p, Head(out).how) /\ UNCHANGED quarantined
            \/ caller[p].kind = "prompt" /\ Quarantine(p, "failed")
       ELSE UNCHANGED <<lock, caller, quarantined, ended, active, requested>>
    /\ UNCHANGED <<registered, shut, nextId, parked, stopper, writeGate, faulted,
                   asked, agentVars, alive, pipe>>

\* Mutant: a request other than a prompt drops the frames it did not wait for.
ReadOtherDropping(p, kind) ==
    /\ Reads(p, kind)
    /\ IF caller[p].kind = "prompt"
       THEN Go(p, IF kind = "ask" THEN "asked" ELSE "top")
       ELSE UNCHANGED caller
    /\ UNCHANGED <<registered, shut, lock, nextId, quarantined, parked, ended, cancelVars,
                   agentVars, alive, pipe>>

\* A request or notification of the agent: a prompt serves it, any other
\* request parks it (capture_value, preserve_values) while there is room.
ReadOther(p, kind) ==
    /\ Reads(p, kind)
    /\ \/ /\ caller[p].kind = "prompt"
          /\ Serve(p, kind)
          /\ UNCHANGED parked
       \/ /\ caller[p].kind = "call" /\ Len(parked) < MaxParked
          /\ parked' = Append(parked, kind)
          /\ UNCHANGED <<caller, lock, quarantined, ended, active, requested>>
       \/ /\ caller[p].kind = "call" /\ Len(parked) >= MaxParked
          /\ Quarantine(p, "failed")
          /\ UNCHANGED parked
    /\ UNCHANGED <<registered, shut, nextId, stopper, writeGate, faulted, asked,
                   agentVars, alive, pipe>>

\* The transport failed: whether a turn that somebody wanted stopped was
\* stopped is not known.
Broken(p) == IF RequestedFor(caller[p].id) THEN "unknown" ELSE "failed"

\* A line that is not JSON-RPC; or bytes that are no line, for which the
\* transport kills the agent.
ReadBad(p) ==
    /\ Reads(p, "bad")
    /\ \/ Quarantine(p, "failed") /\ UNCHANGED <<alive, pipe>>
       \/ Quarantine(p, Broken(p)) /\ Dies
    /\ UNCHANGED <<registered, shut, nextId, parked, stopper, writeGate, faulted, asked, agentVars>>

\* The end of the stream.
ReadEnd(p) ==
    /\ At(p, "recv") /\ out = <<>> /\ ~alive
    /\ Quarantine(p, Broken(p))
    /\ UNCHANGED <<registered, shut, nextId, parked, stopper, writeGate, faulted, asked,
                   agentVars, wireVars>>

\* The agent did not answer within the grace of a cancellation
\* (CancellationDeadline): it is killed.
Expire(p) ==
    /\ At(p, "recv") /\ active # 0 /\ requested
    /\ Dies
    /\ Quarantine(p, Broken(p))
    /\ UNCHANGED <<registered, shut, nextId, parked, stopper, writeGate, faulted, asked,
                   agentVars, out>>

\* The permission callback returns: with an answer, or because a stop is on
\* record.
Decide(p) ==
    /\ At(p, "asked")
    /\ Go(p, "reply")
    /\ UNCHANGED <<registered, shut, lock, nextId, quarantined, parked, ended,
                   cancelVars, agentVars, wireVars>>

\* The reply; one that no option of the agent can express is an error, and
\* ends the turn and the session.
Reply(p) ==
    /\ At(p, "reply") /\ Usable /\ alive /\ Len(pipe) < MaxPipe
    /\ pipe' = Append(pipe, [kind |-> "reply", id |-> caller[p].id])
    /\ \/ Go(p, "top") /\ UNCHANGED <<lock, quarantined, ended, active, requested>>
       \/ Quarantine(p, "failed")
    /\ UNCHANGED <<registered, shut, nextId, parked, stopper, writeGate, faulted, asked,
                   agentVars, alive, out>>

-----------------------------------------------------------------------------
(* A stop: acp_cancel and AcpCancelHandle::request.                        *)

Find(s) ==
    /\ stopper[s].pc = "idle" /\ registered
    /\ stopper' = [stopper EXCEPT ![s].pc = "found"]
    /\ UNCHANGED <<hostVars, active, requested, writeGate, faulted, asked, agentVars, wireVars>>

\* Mutant: the agent is told and the flag is left alone.
CaptureMute(s) ==
    /\ stopper[s].pc = "found"
    /\ IF active = 0
       THEN stopper' = [stopper EXCEPT ![s] = Resting] /\ UNCHANGED asked
       ELSE /\ stopper' = [stopper EXCEPT ![s] = [pc |-> "captured", target |-> active]]
            /\ asked' = asked \cup {active}
    /\ UNCHANGED <<hostVars, active, requested, writeGate, faulted, agentVars, wireVars>>

\* Under gate: the flag, and the turn it is meant for.
Capture(s) ==
    /\ stopper[s].pc = "found"
    /\ requested' = TRUE
    /\ IF active = 0
       THEN stopper' = [stopper EXCEPT ![s] = Resting] /\ UNCHANGED asked
       ELSE /\ stopper' = [stopper EXCEPT ![s] = [pc |-> "captured", target |-> active]]
            /\ asked' = asked \cup {active}
    /\ UNCHANGED <<hostVars, active, writeGate, faulted, agentVars, wireVars>>

\* Mutant: the turn is not looked at again once the gate is taken.
TakeWriteGateBlind(s) ==
    /\ stopper[s].pc = "captured" /\ writeGate = Nobody
    /\ stopper' = [stopper EXCEPT ![s].pc = "writing"]
    /\ writeGate' = s
    /\ UNCHANGED <<hostVars, active, requested, faulted, asked, agentVars, wireVars>>

\* Under write_gate: a turn that is over is not cancelled.
TakeWriteGate(s) ==
    /\ stopper[s].pc = "captured" /\ writeGate = Nobody
    /\ IF active = stopper[s].target
       THEN /\ stopper' = [stopper EXCEPT ![s].pc = "writing"]
            /\ writeGate' = s
       ELSE /\ stopper' = [stopper EXCEPT ![s] = Resting]
            /\ UNCHANGED writeGate
    /\ UNCHANGED <<hostVars, active, requested, faulted, asked, agentVars, wireVars>>

\* session/cancel, into the pipe; a failed write condemns the session.
WriteCancel(s) ==
    /\ stopper[s].pc = "writing"
    /\ \/ /\ alive /\ Len(pipe) < MaxPipe
          /\ pipe' = Append(pipe, [kind |-> "cancel", id |-> stopper[s].target])
          /\ UNCHANGED faulted
       \/ /\ ~alive
          /\ faulted' = TRUE
          /\ UNCHANGED pipe
    /\ stopper' = [stopper EXCEPT ![s] = Resting]
    /\ writeGate' = Nobody
    /\ UNCHANGED <<hostVars, active, requested, asked, agentVars, alive, out>>

-----------------------------------------------------------------------------
(* acp_shutdown: the handle is dropped, then the session locked.           *)

ShutdownFind ==
    /\ registered /\ shut = "no"
    /\ registered' = FALSE /\ shut' = "waiting"
    /\ UNCHANGED <<lock, caller, nextId, quarantined, parked, ended,
                   cancelVars, agentVars, wireVars>>

Shutdown ==
    /\ shut = "waiting" /\ lock = Nobody
    /\ shut' = "done"
    /\ Dies
    /\ UNCHANGED <<registered, lock, caller, nextId, quarantined, parked, ended,
                   cancelVars, agentVars, out>>

-----------------------------------------------------------------------------
(* The agent, an external program.  It answers a request once, says that a *)
(* prompt was cancelled only if a cancellation reached it while it worked  *)
(* on that prompt, and has one request of its own open at a time.          *)

AgentReads ==
    LET f == Head(pipe)
    IN /\ alive /\ pipe # <<>>
       /\ pipe' = Tail(pipe)
       /\ todo' = IF f.kind \in Kinds THEN todo \cup {f} ELSE todo
       /\ stopping' = IF f.kind = "cancel"
                      THEN stopping \cup {g.id : g \in {h \in todo : h.kind = "prompt"}}
                      ELSE stopping
       /\ asking' = (asking /\ f.kind # "reply")
       /\ UNCHANGED <<hostVars, cancelVars, alive, out>>

AgentSays(frame) ==
    /\ alive /\ Len(out) < MaxOut
    /\ out' = Append(out, frame)
    /\ UNCHANGED <<hostVars, cancelVars, alive, pipe>>

AgentAnswers(f, how) ==
    /\ f \in todo
    /\ how = "cancelled" => f.id \in stopping
    /\ todo' = todo \ {f}
    /\ AgentSays([kind |-> "answer", id |-> f.id, how |-> how])
    /\ UNCHANGED <<stopping, asking>>

AgentAsks ==
    /\ ~asking /\ asking' = TRUE
    /\ AgentSays([kind |-> "ask", id |-> 0, how |-> "done"])
    /\ UNCHANGED <<todo, stopping>>

AgentNotes(kind) ==
    /\ AgentSays([kind |-> kind, id |-> 0, how |-> "done"])
    /\ UNCHANGED agentVars

AgentExits ==
    /\ alive /\ Dies
    /\ UNCHANGED <<hostVars, cancelVars, agentVars, out>>

-----------------------------------------------------------------------------

AcpInit ==
    /\ registered = TRUE /\ shut = "no" /\ lock = Nobody
    /\ caller = [p \in Callers |-> Idle]
    /\ nextId = 1
    /\ active = 0 /\ requested = FALSE
    /\ stopper = [s \in Stoppers |-> Resting]
    /\ writeGate = Nobody
    /\ faulted = FALSE /\ quarantined = FALSE
    /\ parked = <<>>
    /\ alive = TRUE /\ pipe = <<>> /\ out = <<>>
    /\ todo = {} /\ stopping = {} /\ asking = FALSE
    /\ asked = {}
    /\ ended = [i \in Ids |-> "open"]

\* What a thread that holds the mutex does by itself.
Works(p) ==
    \/ Reset(p) \/ Prepare(p) \/ BeginTurn(p) \/ SendRefused(p) \/ Top(p)
    \/ ReadAnswer(p) \/ ReadBad(p) \/ ReadEnd(p)
    \/ \E kind \in {"ask", "note"} : ReadOther(p, kind)

Writes(p) == Send(p) \/ Reply(p)

CallerStep(p) ==
    \/ \E kind \in Kinds : Enter(p, kind)
    \/ LockSession(p) \/ Works(p) \/ Writes(p) \/ Expire(p) \/ Decide(p)

StopperStep(s) == Find(s) \/ Capture(s) \/ TakeWriteGate(s) \/ WriteCancel(s)

Agent ==
    \/ AgentReads \/ AgentAsks \/ AgentExits
    \/ \E f \in todo, how \in {"done", "cancelled"} : AgentAnswers(f, how)
    \/ \E kind \in {"note", "bad"} : AgentNotes(kind)

AcpNext ==
    \/ \E p \in Callers : CallerStep(p)
    \/ \E s \in Stoppers : StopperStep(s)
    \/ ShutdownFind \/ Shutdown
    \/ Agent

AcpSpec == AcpInit /\ [][AcpNext]_acpVars

(* Threads run.  A thread that can write again and again does, though stops
   write into the same pipe; once the grace of a cancellation has run out the
   next look at the transport ends the turn, whatever the agent sends; and a
   permission callback looks at the flag four times a second.  The agent and
   the human owe nothing. *)
FairAcpSpec ==
    /\ AcpSpec
    /\ \A p \in Callers :
          /\ WF_acpVars(Works(p))
          /\ SF_acpVars(Writes(p))
          /\ SF_acpVars(Expire(p))
          /\ WF_acpVars(requested /\ Decide(p))

-----------------------------------------------------------------------------
(* Properties.                                                             *)

HostType ==
    /\ registered \in BOOLEAN /\ shut \in {"no", "waiting", "done"}
    /\ lock \in Callers \cup {Nobody}
    /\ caller \in [Callers -> [pc : Free \cup Held, kind : Kinds, id : 0..MaxId]]
    /\ \A p \in Callers : caller[p].pc \in Held <=> lock = p
    /\ nextId \in 1..(MaxId + 1)
    /\ quarantined \in BOOLEAN
    /\ parked \in Seq({"ask", "note"})
    /\ ended \in [Ids -> {"open", "done", "cancelled", "unknown", "failed"}]

CancelType ==
    /\ active \in 0..MaxId /\ requested \in BOOLEAN
    /\ stopper \in [Stoppers -> [pc : {"idle", "found", "captured", "writing"}, target : 0..MaxId]]
    /\ writeGate \in Stoppers \cup {Nobody}
    /\ \A s \in Stoppers : stopper[s].pc = "writing" <=> writeGate = s
    /\ faulted \in BOOLEAN
    /\ asked \subseteq Ids

WireType ==
    /\ alive \in BOOLEAN /\ pipe \in Seq(PipeFrame) /\ out \in Seq(OutFrame)
    /\ todo \subseteq [kind : Kinds, id : Ids] /\ stopping \subseteq Ids /\ asking \in BOOLEAN

\* Types, and the two locks: a caller is past its wait exactly when it holds
\* the session's mutex, a stopper writes exactly when it holds write_gate.
AcpTypeOK == HostType /\ CancelType /\ WireType

\* "a request from an older turn cannot silently become the cancellation state
\* of a later turn" (AcpCancelHandle): a turn is reported cancelled, or torn
\* down for want of an answer to a cancellation, only if somebody stopped that
\* very turn, however late the stop's write came.
StopsOnlyItsTurn ==
    \A i \in Ids : ended[i] \in {"cancelled", "unknown"} => i \in asked

\* A session that nobody holds and that can still be used owes and is owed
\* nothing: no request of an earlier caller is on its way, being served or
\* answered.  So whoever gives up on a request gives up the session, and an
\* answer is never met by a later request (prompt_with_content, "a quarantined
\* handle must be replaced, not retried").
NothingLeftBehind ==
    (lock = Nobody /\ Usable /\ alive) =>
        /\ todo = {}
        /\ \A i \in 1..Len(pipe) : pipe[i].kind \notin Kinds
        /\ \A i \in 1..Len(out) : out[i].kind # "answer"

\* A request of the agent is on its way, parked, being decided, or replied to.
AskAfoot ==
    \/ \E i \in 1..Len(out) : out[i].kind = "ask"
    \/ \E i \in 1..Len(parked) : parked[i] = "ask"
    \/ \E p \in Callers : caller[p].pc \in {"asked", "reply"}
    \/ \E i \in 1..Len(pipe) : pipe[i].kind = "reply"

\* A request of the agent is not lost while the session is good, whoever holds
\* it and whatever the agent sends between ("they must be queued, not dropped",
\* ProcessTransport; "interleave freely", AcpSession.pending).
AsksAreKept == (asking /\ alive /\ Usable) => AskAfoot

\* A caller waits for an agent that does not read.
Blocked ==
    /\ alive /\ Len(pipe) >= MaxPipe
    /\ \E p \in Callers : caller[p].pc \in {"send", "reply"}

\* A stop that saw a turn ends it, by the agent's answer or by killing it,
\* whatever the agent sends or fails to send and whoever is asked for a
\* permission, if only the agent does not leave its pipe full for ever
\* (CANCELLATION_ACK_GRACE, TRANSPORT_READ_POLL).
StopEndsTurn ==
    \A i \in Ids : ([]<>~Blocked) => ((i \in asked /\ active = i) ~> active # i)
=============================================================================
