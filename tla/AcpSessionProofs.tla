-------------------------- MODULE AcpSessionProofs --------------------------
(***************************************************************************)
(* Proofs about the session of an agent, for any number of callers and     *)
(* stops, and an agent that may do anything.                               *)
(*                                                                         *)
(* session/cancel names no turn: the agent stops the prompts it is working *)
(* on when it reads one.  So the argument is about what can be in front of *)
(* a cancellation in the pipe.  While a stop holds write_gate no turn but  *)
(* its own is active (Fence); what a session that is not given up owes is  *)
(* the request of the caller that holds it, once (Owed); so whatever the   *)
(* agent has read, or will read before the cancellation, was stopped       *)
(* (Aimed).                                                                *)
(***************************************************************************)
EXTENDS AcpSession, TLAPS

Reading == {"top", "recv", "asked", "reply"}
Busy == Reading \cup {"send"}

\* The callers: who has an id, and whose turn is active.
CallerInv ==
    /\ \A p \in Callers : caller[p].pc \in Busy => caller[p].id \in Ids
    /\ \A p \in Callers : caller[p].pc \notin Busy => caller[p].id = 0
    /\ \A p \in Callers : caller[p].pc \in {"locked", "prepared", "opening"} => caller[p].kind = "prompt"
    /\ \A p \in Callers : (caller[p].pc \in Busy /\ caller[p].kind = "prompt") => caller[p].id = active
    /\ active # 0 => \E p \in Callers : caller[p].pc \in Busy /\ caller[p].id = active

\* The fence of a turn.
Fence ==
    /\ \A p \in Callers : caller[p].pc = "opening" => ~quarantined
    /\ active # 0 => ~quarantined
    /\ faulted => ~alive
    /\ (active # 0 /\ requested) => active \in asked
    /\ \A s \in Stoppers : stopper[s].pc \in {"captured", "writing"} => stopper[s].target \in asked
    /\ \A s \in Stoppers : stopper[s].pc = "writing" => active \in {0, stopper[s].target}

\* A caller waits for the answer to request i.
Awaited(i) == \E p \in Callers : caller[p].pc \in Reading /\ caller[p].id = i

\* A session that is not given up owes one answer at most, to its holder.
Owed ==
    (alive /\ ~quarantined) =>
        /\ \A f \in todo : Awaited(f.id)
        /\ \A i \in 1..Len(pipe) : pipe[i].kind \in Kinds => Awaited(pipe[i].id)
        /\ \A i \in 1..Len(out) : out[i].kind = "answer" => Awaited(out[i].id)
        /\ \A f, g \in todo : f = g
        /\ \A i, j \in 1..Len(pipe) : (pipe[i].kind \in Kinds /\ pipe[j].kind \in Kinds) => i = j
        /\ \A i, j \in 1..Len(out) : (out[i].kind = "answer" /\ out[j].kind = "answer") => i = j
        /\ \A f \in todo, i \in 1..Len(pipe) : pipe[i].kind \notin Kinds
        /\ \A f \in todo, i \in 1..Len(out) : out[i].kind # "answer"
        /\ \A i \in 1..Len(pipe), j \in 1..Len(out) : pipe[i].kind \in Kinds => out[j].kind # "answer"

\* What the agent was or will be told to stop was stopped by somebody.
Aimed ==
    /\ stopping \subseteq asked
    /\ \A i \in 1..Len(out) : (out[i].kind = "answer" /\ out[i].how = "cancelled") => out[i].id \in asked
    /\ \A k \in 1..Len(pipe) : pipe[k].kind = "cancel" =>
          /\ \A f \in todo : f.kind = "prompt" => f.id \in asked
          /\ \A j \in 1..Len(pipe) : (j < k /\ pipe[j].kind = "prompt") => pipe[j].id \in asked
    /\ alive => \A s \in Stoppers : stopper[s].pc = "writing" =>
          /\ \A f \in todo : f.kind = "prompt" => f.id = stopper[s].target
          /\ \A j \in 1..Len(pipe) : pipe[j].kind = "prompt" => pipe[j].id = stopper[s].target

AcpInv == AcpTypeOK /\ CallerInv /\ Fence /\ Owed /\ Aimed /\ StopsOnlyItsTurn /\ AsksAreKept
-----------------------------------------------------------------------------
(* Sequences.                                                              *)

\* What Tail returns.
LEMMA TailFacts ==
    ASSUME NEW T, NEW q \in Seq(T), q # <<>>
    PROVE  /\ Tail(q) \in Seq(T) /\ Len(q) \in Nat /\ Len(q) >= 1
           /\ Len(Tail(q)) = Len(q) - 1 /\ Head(q) = q[1] /\ q[1] \in T
           /\ \A i \in 1..Len(Tail(q)) : i + 1 \in 1..Len(q) /\ Tail(q)[i] = q[i + 1]
OBVIOUS

\* What Append returns.
LEMMA AppendFacts ==
    ASSUME NEW T, NEW q \in Seq(T), NEW e \in T
    PROVE  /\ Append(q, e) \in Seq(T) /\ Len(q) \in Nat
           /\ Len(Append(q, e)) = Len(q) + 1
           /\ \A i \in 1..Len(q) : Append(q, e)[i] = q[i]
           /\ Append(q, e)[Len(q) + 1] = e
OBVIOUS

\* An empty pipe.
LEMMA EmptyFacts ==
    ASSUME NEW T
    PROVE  <<>> \in Seq(T) /\ Len(<<>>) = 0 /\ 1..Len(<<>>) = {}
OBVIOUS

\* A part of the agent's output that is still to be read.
Rest(new, old) ==
    \E d \in {0, 1} : \A i \in 1..Len(new) : i + d \in 1..Len(old) /\ new[i] = old[i + d]

\* What is left of it is a part of it.
LEMMA RestFacts ==
    ASSUME NEW T, NEW q \in Seq(T)
    PROVE  /\ Rest(q, q)
           /\ q # <<>> => Rest(Tail(q), q)
<1>1. Rest(q, q)
  BY DEF Rest
<1>2. ASSUME q # <<>> PROVE Rest(Tail(q), q)
  BY <1>2, TailFacts DEF Rest
<1> QED
  BY <1>1, <1>2

\* A pipe to which at most replies are added.
Grown(new, old) ==
    /\ Len(new) >= Len(old)
    /\ \A i \in 1..Len(new) : \/ i \in 1..Len(old) /\ new[i] = old[i]
                              \/ new[i].kind = "reply"

\* Such is a pipe with one reply more.
LEMMA GrownFacts ==
    ASSUME NEW q \in Seq(PipeFrame), NEW i \in Ids
    PROVE  /\ Grown(q, q)
           /\ Append(q, [kind |-> "reply", id |-> i]) \in Seq(PipeFrame)
           /\ Grown(Append(q, [kind |-> "reply", id |-> i]), q)
<1> DEFINE e == [kind |-> "reply", id |-> i]
<1>1. e \in PipeFrame /\ e.kind = "reply"
  BY DEF PipeFrame
<1>2. Grown(q, q)
  BY DEF Grown
<1> HIDE DEF e
<1>3. Append(q, e) \in Seq(PipeFrame) /\ Grown(Append(q, e), q)
  BY <1>1, AppendFacts DEF Grown
<1> QED
  BY <1>2, <1>3 DEF e

-----------------------------------------------------------------------------
(* The steps of a caller that reads.                                       *)

Outcomes == {"open", "done", "cancelled", "unknown", "failed"}

\* A request returns.
LEMMA Ends ==
    ASSUME HostType, CancelType, CallerInv, NEW p \in Callers, caller[p].pc \in Busy,
           NEW how \in Outcomes, Return(p, how)
    PROVE  /\ lock' = Nobody /\ active' = 0 /\ requested' \in BOOLEAN
           /\ caller' = [caller EXCEPT ![p] = Idle]
           /\ caller' \in [Callers -> [pc : Free \cup Held, kind : Kinds, id : 0..MaxId]]
           /\ \A q \in Callers : caller'[q].pc \notin Held
           /\ \A q \in Callers : caller'[q].pc \notin Busy /\ caller'[q].id = 0
           /\ caller[p].id \in Ids
           /\ ended' = [ended EXCEPT ![caller[p].id] = how]
           /\ ended' \in [Ids -> Outcomes]
<1>1. /\ caller[p].id \in Ids /\ lock = p
      /\ caller \in [Callers -> [pc : Free \cup Held, kind : Kinds, id : 0..MaxId]]
      /\ \A q \in Callers : q # p => caller[q].pc \notin Held
  BY DEF HostType, CallerInv, Busy, Reading, Held
<1>2. active = 0 \/ active = caller[p].id
  BY <1>1 DEF CallerInv, Busy, Reading, Held
<1>3. active' = 0 /\ (requested' = FALSE \/ requested' = requested)
  BY <1>2 DEF Return, FinishTurn
<1>4. requested' \in BOOLEAN
  BY <1>3 DEF CancelType
<1>5. /\ lock' = Nobody /\ caller' = [caller EXCEPT ![p] = Idle]
      /\ ended' = [ended EXCEPT ![caller[p].id] = how]
  BY DEF Return
<1>6. Idle \in [pc : Free \cup Held, kind : Kinds, id : 0..MaxId] /\ Idle.pc \notin Held /\ Idle.id = 0
  BY AcpConstants DEF Idle, Free, Held, Kinds
<1>7. \A q \in Callers : caller'[q] = IF q = p THEN Idle ELSE caller[q]
  BY <1>1, <1>5
<1>8. \A q \in Callers : caller'[q].pc \notin Held
  BY <1>1, <1>6, <1>7
<1>9. \A q \in Callers : caller'[q].pc \notin Busy /\ caller'[q].id = 0
  BY <1>1, <1>6, <1>7, <1>8 DEF CallerInv, Busy, Reading, Held
<1>10. caller' \in [Callers -> [pc : Free \cup Held, kind : Kinds, id : 0..MaxId]]
  BY <1>1, <1>5, <1>6
<1>11. ended' \in [Ids -> Outcomes]
  BY <1>1, <1>5 DEF HostType, Outcomes
<1> QED
  BY <1>1, <1>3, <1>4, <1>5, <1>8, <1>9, <1>10, <1>11

\* A caller gives up its request, and with it the session.
LEMMA GivesUp ==
    ASSUME AcpInv, NEW p \in Callers, caller[p].pc \in Busy,
           NEW how \in Outcomes, Return(p, how),
           how \in {"cancelled", "unknown"} => caller[p].id \in asked,
           quarantined' = TRUE \/ (faulted /\ quarantined' = quarantined),
           UNCHANGED <<registered, shut, nextId, stopper, writeGate, faulted, asked,
                       todo, stopping, asking>>,
           parked' \in Seq({"ask", "note"}),
           out' \in Seq(OutFrame), Rest(out', out),
           \/ alive' = FALSE /\ pipe' = <<>>
           \/ alive' = alive /\ pipe' \in Seq(PipeFrame) /\ Grown(pipe', pipe)
    PROVE  AcpInv'
<1>1. /\ HostType /\ CancelType /\ WireType /\ CallerInv /\ Fence
      /\ Owed /\ Aimed /\ StopsOnlyItsTurn /\ AsksAreKept
  BY DEF AcpInv, AcpTypeOK
<1>2. /\ lock' = Nobody /\ active' = 0 /\ requested' \in BOOLEAN
      /\ caller' = [caller EXCEPT ![p] = Idle]
      /\ caller' \in [Callers -> [pc : Free \cup Held, kind : Kinds, id : 0..MaxId]]
      /\ \A q \in Callers : caller'[q].pc \notin Held
      /\ \A q \in Callers : caller'[q].pc \notin Busy /\ caller'[q].id = 0
      /\ caller[p].id \in Ids
      /\ ended' = [ended EXCEPT ![caller[p].id] = how]
      /\ ended' \in [Ids -> Outcomes]
  BY <1>1, Ends
<1>3. quarantined' \in BOOLEAN /\ (quarantined' \/ faulted)
  BY <1>1 DEF HostType
<1>4. alive' \in BOOLEAN /\ (alive' => alive) /\ pipe' \in Seq(PipeFrame)
  <2>1. pipe' \in Seq(PipeFrame)
    BY EmptyFacts
  <2>2. alive' \in BOOLEAN /\ (alive' => alive)
    <3>1. alive \in BOOLEAN
      BY <1>1 DEF WireType
    <3>2. CASE alive' = FALSE
      BY <3>2
    <3>3. CASE alive' = alive
      BY <3>1, <3>3
    <3> QED
      BY <3>2, <3>3
  <2> QED
    BY <2>1, <2>2
<1>5. faulted' => ~alive'
  BY <1>1, <1>4 DEF Fence
<1>6. HostType'
  <2>1. /\ registered' \in BOOLEAN /\ shut' \in {"no", "waiting", "done"}
        /\ nextId' \in 1..(MaxId + 1)
    BY <1>1 DEF HostType
  <2>2. \A q \in Callers : caller'[q].pc \in Held <=> lock' = q
    BY <1>2, AcpConstants
  <2> QED
    BY <1>2, <1>3, <2>1, <2>2 DEF HostType, Outcomes
<1>7. CancelType'
  <2>1. active' \in 0..MaxId
    BY <1>2, AcpConstants
  <2> QED
    BY <1>1, <1>2, <2>1 DEF CancelType
<1>8. WireType'
  BY <1>1, <1>4 DEF WireType
<1>9. CallerInv'
  BY <1>2 DEF CallerInv, Busy, Reading, Held
<1>10. Fence'
  <2>1. \A q \in Callers : caller'[q].pc # "opening"
    BY <1>2 DEF Held
  <2>2. \A s \in Stoppers : stopper'[s].pc \in {"captured", "writing"} => stopper'[s].target \in asked'
    BY <1>1 DEF Fence
  <2> QED
    BY <1>2, <1>5, <2>1, <2>2 DEF Fence
<1>11. ~(alive' /\ ~quarantined') /\ ~Usable'
  BY <1>3, <1>5 DEF Usable
<1>12. Owed' /\ AsksAreKept'
  BY <1>11 DEF Owed, AsksAreKept
<1>13. Aimed'
  <2>1. \A i \in 1..Len(out') : (out'[i].kind = "answer" /\ out'[i].how = "cancelled") => out'[i].id \in asked
    BY <1>1 DEF Aimed, Rest
  <2>2. CASE alive' = FALSE /\ pipe' = <<>>
    BY <1>1, <2>1, <2>2, EmptyFacts DEF Aimed
  <2>3. CASE alive' = alive /\ pipe' \in Seq(PipeFrame) /\ Grown(pipe', pipe)
    <3>1. \A k \in 1..Len(pipe') : pipe'[k].kind \in {"cancel", "prompt"} =>
             k \in 1..Len(pipe) /\ pipe'[k] = pipe[k]
      BY <2>3 DEF Grown
    <3> QED
      BY <1>1, <2>1, <2>3, <3>1 DEF Aimed
  <2> QED
    BY <2>2, <2>3
<1>14. StopsOnlyItsTurn'
  BY <1>1, <1>2 DEF StopsOnlyItsTurn, HostType
<1> QED
  BY <1>6, <1>7, <1>8, <1>9, <1>10, <1>12, <1>13, <1>14 DEF AcpInv, AcpTypeOK

\* A caller goes on reading.
LEMMA GoesOn ==
    ASSUME AcpInv, NEW p \in Callers, caller[p].pc \in Reading,
           NEW to \in Reading, caller' = caller \/ Go(p, to),
           UNCHANGED <<registered, shut, lock, nextId, quarantined, ended, active, requested,
                       stopper, writeGate, faulted, asked, todo, stopping, asking, alive>>,
           parked' \in Seq({"ask", "note"}),
           out' \in Seq(OutFrame), Rest(out', out),
           pipe' \in Seq(PipeFrame), Grown(pipe', pipe),
           AsksAreKept'
    PROVE  AcpInv'
<1>1. /\ HostType /\ CancelType /\ WireType /\ CallerInv /\ Fence
      /\ Owed /\ Aimed /\ StopsOnlyItsTurn
  BY DEF AcpInv, AcpTypeOK
<1>2. /\ caller' \in [Callers -> [pc : Free \cup Held, kind : Kinds, id : 0..MaxId]]
      /\ \A q \in Callers : /\ caller'[q].id = caller[q].id /\ caller'[q].kind = caller[q].kind
                            /\ \/ caller'[q].pc = caller[q].pc
                               \/ caller[q].pc \in Reading /\ caller'[q].pc \in Reading
  <2>1. CASE caller' = caller
    BY <1>1, <2>1 DEF HostType
  <2>2. CASE Go(p, to)
    <3>1. /\ caller \in [Callers -> [pc : Free \cup Held, kind : Kinds, id : 0..MaxId]]
          /\ caller' = [caller EXCEPT ![p].pc = to]
      BY <1>1, <2>2 DEF HostType, Go
    <3>2. to \in Held
      BY DEF Reading, Held
    <3>3. caller' \in [Callers -> [pc : Free \cup Held, kind : Kinds, id : 0..MaxId]]
      BY <3>1, <3>2
    <3>4. \A q \in Callers : /\ caller'[q].id = caller[q].id /\ caller'[q].kind = caller[q].kind
                             /\ caller'[q].pc = IF q = p THEN to ELSE caller[q].pc
      BY <3>1
    <3> QED
      BY <3>3, <3>4
  <2> QED
    BY <2>1, <2>2
<1>3. HostType'
  BY <1>1, <1>2 DEF HostType, Reading, Held
<1>4. (CancelType /\ StopsOnlyItsTurn)'
  BY <1>1 DEF CancelType, StopsOnlyItsTurn
<1>5. WireType'
  BY <1>1 DEF WireType
<1>6. CallerInv'
  BY <1>1, <1>2 DEF CallerInv, Busy, Reading
<1>7. Fence'
  BY <1>1, <1>2 DEF Fence, Reading
<1>8. \A i : Awaited(i) => Awaited(i)'
  BY <1>2 DEF Awaited, Reading
<1>9. \A k \in 1..Len(pipe') : pipe'[k].kind # "reply" => k \in 1..Len(pipe) /\ pipe'[k] = pipe[k]
  BY DEF Grown
<1>10. PICK d \in {0, 1} : \A i \in 1..Len(out') : i + d \in 1..Len(out) /\ out'[i] = out[i + d]
  BY DEF Rest
<1>11. Owed'
  <2>1. SUFFICES ASSUME alive, ~quarantined PROVE Owed'
    BY DEF Owed
  <2>2. (\A f \in todo : Awaited(f.id))'
    BY <1>1, <1>8, <2>1 DEF Owed
  <2>3. (\A i \in 1..Len(pipe) : pipe[i].kind \in Kinds => Awaited(pipe[i].id))'
    BY <1>1, <1>8, <1>9, <2>1 DEF Owed, Kinds
  <2>4. (\A i \in 1..Len(out) : out[i].kind = "answer" => Awaited(out[i].id))'
    BY <1>1, <1>8, <1>10, <2>1 DEF Owed
  <2>5. /\ \A f, g \in todo' : f = g
        /\ \A i, j \in 1..Len(pipe') : (pipe'[i].kind \in Kinds /\ pipe'[j].kind \in Kinds) => i = j
        /\ \A f \in todo', i \in 1..Len(pipe') : pipe'[i].kind \notin Kinds
    BY <1>1, <1>9, <2>1 DEF Owed, Kinds
  <2>6. /\ \A i, j \in 1..Len(out') : (out'[i].kind = "answer" /\ out'[j].kind = "answer") => i = j
        /\ \A f \in todo', i \in 1..Len(out') : out'[i].kind # "answer"
    <3>1. ASSUME NEW i \in 1..Len(out'), NEW j \in 1..Len(out'),
                 out'[i].kind = "answer", out'[j].kind = "answer"
          PROVE  i = j
      <4>1. i + d = j + d
        BY <1>1, <1>10, <2>1, <3>1 DEF Owed
      <4>2. i \in Int /\ j \in Int /\ d \in Int
        BY DEF WireType
      <4> QED
        BY <4>1, <4>2
    <3> QED
      BY <1>1, <1>10, <2>1, <3>1 DEF Owed
  <2>7. \A i \in 1..Len(pipe'), j \in 1..Len(out') : pipe'[i].kind \in Kinds => out'[j].kind # "answer"
    <3>1. ASSUME NEW i \in 1..Len(pipe'), NEW j \in 1..Len(out'), pipe'[i].kind \in Kinds
          PROVE  out'[j].kind # "answer"
      <4>1. i \in 1..Len(pipe) /\ pipe[i].kind \in Kinds /\ pipe'[i] = pipe[i]
        BY <1>9, <3>1 DEF Kinds
      <4>2. j + d \in 1..Len(out) /\ out'[j] = out[j + d]
        BY <1>10
      <4> QED
        BY <1>1, <2>1, <4>1, <4>2 DEF Owed
    <3> QED
      BY <3>1
  <2> QED
    BY <2>2, <2>3, <2>4, <2>5, <2>6, <2>7 DEF Owed
<1>12. Aimed'
  BY <1>1, <1>9, <1>10 DEF Aimed
<1> QED
  BY <1>3, <1>4, <1>5, <1>6, <1>7, <1>11, <1>12 DEF AcpInv, AcpTypeOK

\* The parts of the invariant, and what they say of single variables.
LEMMA Parts ==
    ASSUME AcpInv
    PROVE  /\ HostType /\ CancelType /\ WireType /\ CallerInv /\ Fence
           /\ Owed /\ Aimed /\ StopsOnlyItsTurn /\ AsksAreKept
           /\ quarantined \in BOOLEAN /\ faulted \in BOOLEAN /\ alive \in BOOLEAN
           /\ parked \in Seq({"ask", "note"}) /\ out \in Seq(OutFrame) /\ pipe \in Seq(PipeFrame)
           /\ Rest(out, out) /\ Grown(pipe, pipe)
<1>1. /\ HostType /\ CancelType /\ WireType /\ CallerInv /\ Fence
      /\ Owed /\ Aimed /\ StopsOnlyItsTurn /\ AsksAreKept
  BY DEF AcpInv, AcpTypeOK
<1>2. quarantined \in BOOLEAN /\ faulted \in BOOLEAN /\ alive \in BOOLEAN
  BY <1>1 DEF HostType, CancelType, WireType
<1>3. parked \in Seq({"ask", "note"}) /\ out \in Seq(OutFrame) /\ pipe \in Seq(PipeFrame)
  BY <1>1 DEF HostType, WireType
<1>4. Rest(out, out) /\ Grown(pipe, pipe)
  BY <1>3, RestFacts DEF Grown
<1> QED
  BY <1>1, <1>2, <1>3, <1>4

\* A frame is read.
LEMMA ReadFacts ==
    ASSUME AcpInv, NEW p \in Callers, NEW kind, Reads(p, kind)
    PROVE  /\ caller[p].pc = "recv" /\ caller[p].pc \in Reading /\ caller[p].pc \in Busy
           /\ out' \in Seq(OutFrame) /\ Rest(out', out)
           /\ Len(out) \in Nat /\ Len(out) >= 1 /\ Head(out) = out[1] /\ out[1] \in OutFrame
           /\ out[1].kind = kind
           /\ Len(out') = Len(out) - 1
           /\ \A i \in 1..Len(out') : i + 1 \in 1..Len(out) /\ out'[i] = out[i + 1]
<1>1. out \in Seq(OutFrame)
  BY Parts
<1>2. caller[p].pc = "recv" /\ out # <<>> /\ out' = Tail(out) /\ Head(out).kind = kind
  BY DEF Reads, At
<1>3. Rest(out', out)
  BY <1>1, <1>2, RestFacts
<1> QED
  BY <1>1, <1>2, <1>3, TailFacts DEF Reading, Busy

-----------------------------------------------------------------------------
(* One lemma for each action of a caller that may return.                  *)

\* A write is refused.
LEMMA SendRefusedStep ==
    ASSUME AcpInv, NEW p \in Callers, SendRefused(p)
    PROVE  AcpInv'
<1>1. caller[p].pc \in Busy
  BY DEF SendRefused, At, Busy, Reading
<1>2. /\ UNCHANGED <<registered, shut, nextId, stopper, writeGate, faulted, asked,
                     todo, stopping, asking, parked, alive, pipe, out>>
      /\ Return(p, "failed")
      /\ quarantined' = TRUE \/ (~Usable /\ quarantined' = quarantined)
  BY DEF SendRefused, Quarantine, agentVars, wireVars
<1>3. quarantined' = TRUE \/ (faulted /\ quarantined' = quarantined)
  BY <1>2, Parts DEF Usable
<1>4. "failed" \in Outcomes
  BY DEF Outcomes
<1>5. /\ parked' \in Seq({"ask", "note"}) /\ out' \in Seq(OutFrame) /\ pipe' \in Seq(PipeFrame)
      /\ Rest(out', out) /\ Grown(pipe', pipe) /\ alive' = alive
  BY <1>2, Parts
<1> QED
  BY <1>1, <1>2, <1>3, <1>4, <1>5, GivesUp

\* The head of the loop.
LEMMA TopStep ==
    ASSUME AcpInv, NEW p \in Callers, Top(p)
    PROVE  AcpInv'
<1>1. caller[p].pc = "top" /\ caller[p].pc \in Busy /\ caller[p].pc \in Reading
  BY DEF Top, At, Busy, Reading
<1>2. UNCHANGED <<registered, shut, nextId, stopper, writeGate, faulted, asked,
                  todo, stopping, asking, alive, pipe, out>>
  BY DEF Top, agentVars, wireVars
<1>3. "failed" \in Outcomes
  BY DEF Outcomes
<1>4. /\ out' \in Seq(OutFrame) /\ pipe' \in Seq(PipeFrame)
      /\ Rest(out', out) /\ Grown(pipe', pipe) /\ alive' = alive
  BY <1>2, Parts
<1>5. CASE ~Usable /\ Return(p, "failed") /\ UNCHANGED <<parked, quarantined>>
  <2>1. quarantined' = TRUE \/ (faulted /\ quarantined' = quarantined)
    BY <1>5, Parts DEF Usable
  <2>2. parked' \in Seq({"ask", "note"})
    BY <1>5, Parts
  <2> QED
    BY <1>1, <1>2, <1>3, <1>4, <1>5, <2>1, <2>2, GivesUp
<1>6. CASE Usable /\ parked # <<>> /\ parked' = Tail(parked) /\ Serve(p, Head(parked))
  <2>1. /\ parked' \in Seq({"ask", "note"}) /\ Head(parked) = parked[1]
        /\ \A i \in 1..Len(parked) : i = 1 \/ (i - 1 \in 1..Len(parked') /\ parked'[i - 1] = parked[i])
    <3>1. parked \in Seq({"ask", "note"}) /\ parked # <<>> /\ parked' = Tail(parked)
      BY <1>6, Parts
    <3> QED
      BY <3>1, TailFacts
  <2>2. CASE Quarantine(p, "failed")
    BY <1>1, <1>2, <1>3, <1>4, <2>1, <2>2, GivesUp DEF Quarantine
  <2>3. CASE /\ Go(p, IF Head(parked) = "ask" THEN "asked" ELSE "top")
             /\ UNCHANGED <<lock, quarantined, ended, active, requested>>
    <3> DEFINE to == IF Head(parked) = "ask" THEN "asked" ELSE "top"
    <3>1. to \in Reading
      BY DEF Reading
    <3>2. caller' = [caller EXCEPT ![p].pc = to] /\ caller \in [Callers -> [pc : Free \cup Held, kind : Kinds, id : 0..MaxId]]
      BY <2>3, Parts DEF Go, HostType
    <3>3. \A q \in Callers : caller'[q].pc = IF q = p THEN to ELSE caller[q].pc
      BY <3>2
    <3>4. AskAfoot => AskAfoot'
      BY <1>1, <1>2, <2>1, <3>3 DEF AskAfoot
    <3>5. AsksAreKept'
      BY <1>2, <2>3, <3>4, Parts DEF AsksAreKept, Usable
    <3> QED
      BY <1>1, <1>2, <1>4, <2>1, <2>3, <3>1, <3>5, GoesOn
  <2> QED
    BY <1>6, <2>2, <2>3 DEF Serve
<1>7. CASE /\ Go(p, "recv")
           /\ UNCHANGED <<parked, lock, quarantined, ended, active, requested>>
  <2>1. "recv" \in Reading
    BY DEF Reading
  <2>2. caller' = [caller EXCEPT ![p].pc = "recv"] /\ caller \in [Callers -> [pc : Free \cup Held, kind : Kinds, id : 0..MaxId]]
    BY <1>7, Parts DEF Go, HostType
  <2>3. AskAfoot => AskAfoot'
    BY <1>1, <1>2, <1>7, <2>2 DEF AskAfoot
  <2>4. AsksAreKept'
    BY <1>2, <1>7, <2>3, Parts DEF AsksAreKept, Usable
  <2>5. parked' \in Seq({"ask", "note"})
    BY <1>7, Parts
  <2> QED
    BY <1>1, <1>2, <1>4, <1>7, <2>1, <2>4, <2>5, GoesOn
<1> QED
  BY <1>5, <1>6, <1>7 DEF Top

\* A request or a notification of the agent is read.
LEMMA ReadOtherStep ==
    ASSUME AcpInv, NEW p \in Callers, NEW kind \in {"ask", "note"}, ReadOther(p, kind)
    PROVE  AcpInv'
<1>1. Reads(p, kind)
  BY DEF ReadOther
<1>2. /\ caller[p].pc = "recv" /\ caller[p].pc \in Reading /\ caller[p].pc \in Busy
      /\ out' \in Seq(OutFrame) /\ Rest(out', out)
  BY <1>1, ReadFacts
<1>3. UNCHANGED <<registered, shut, nextId, stopper, writeGate, faulted, asked,
                  todo, stopping, asking, alive, pipe>>
  BY DEF ReadOther, agentVars
<1>4. pipe' \in Seq(PipeFrame) /\ Grown(pipe', pipe) /\ alive' = alive
  BY <1>3, Parts
<1>5. "failed" \in Outcomes
  BY DEF Outcomes
<1>6. CASE Quarantine(p, "failed") /\ UNCHANGED parked
  <2>1. parked' \in Seq({"ask", "note"})
    BY <1>6, Parts
  <2> QED
    BY <1>2, <1>3, <1>4, <1>5, <1>6, <2>1, GivesUp DEF Quarantine
<1>7. \A i \in 1..Len(out) : out[i].kind = "ask" => kind = "ask" \/ \E j \in 1..Len(out') : out'[j].kind = "ask"
  <2>1. ASSUME NEW i \in 1..Len(out), i # 1
        PROVE  i - 1 \in 1..Len(out') /\ out'[i - 1] = out[i]
    BY <1>1, <2>1, ReadFacts
  <2>2. out[1].kind = kind
    BY <1>1, ReadFacts
  <2> QED
    BY <2>1, <2>2
<1>8. CASE /\ Go(p, IF kind = "ask" THEN "asked" ELSE "top")
           /\ UNCHANGED <<parked, lock, quarantined, ended, active, requested>>
  <2> DEFINE to == IF kind = "ask" THEN "asked" ELSE "top"
  <2>1. to \in Reading
    BY DEF Reading
  <2>2. caller' = [caller EXCEPT ![p].pc = to] /\ caller \in [Callers -> [pc : Free \cup Held, kind : Kinds, id : 0..MaxId]]
    BY <1>8, Parts DEF Go, HostType
  <2>3. \A q \in Callers : caller'[q].pc = IF q = p THEN to ELSE caller[q].pc
    BY <2>2
  <2>4. AskAfoot => AskAfoot'
    BY <1>2, <1>3, <1>7, <1>8, <2>3 DEF AskAfoot
  <2>5. AsksAreKept'
    BY <1>3, <1>8, <2>4, Parts DEF AsksAreKept, Usable
  <2>6. parked' \in Seq({"ask", "note"})
    BY <1>8, Parts
  <2> QED
    BY <1>2, <1>3, <1>4, <1>8, <2>1, <2>5, <2>6, GoesOn
<1>9. CASE /\ parked' = Append(parked, kind)
           /\ UNCHANGED <<caller, lock, quarantined, ended, active, requested>>
  <2>1. /\ parked' \in Seq({"ask", "note"}) /\ Len(parked) \in Nat /\ Len(parked') = Len(parked) + 1
        /\ \A i \in 1..Len(parked) : parked'[i] = parked[i]
        /\ parked'[Len(parked) + 1] = kind
    <3>1. parked \in Seq({"ask", "note"})
      BY Parts
    <3> QED
      BY <1>9, <3>1, AppendFacts
  <2>2. \A i \in 1..Len(parked) : i \in 1..Len(parked')
    BY <2>1
  <2>3. Len(parked) + 1 \in 1..Len(parked')
    BY <2>1
  <2>4. AskAfoot => AskAfoot'
    BY <1>3, <1>7, <1>9, <2>1, <2>2, <2>3 DEF AskAfoot
  <2>5. AsksAreKept'
    BY <1>3, <1>9, <2>4, Parts DEF AsksAreKept, Usable
  <2> QED
    BY <1>2, <1>3, <1>4, <1>9, <2>1, <2>5, GoesOn
<1> QED
  BY <1>6, <1>8, <1>9 DEF ReadOther, Serve

\* A bad frame is read.
LEMMA ReadBadStep ==
    ASSUME AcpInv, NEW p \in Callers, ReadBad(p)
    PROVE  AcpInv'
<1>1. Reads(p, "bad")
  BY DEF ReadBad
<1>2. /\ caller[p].pc \in Busy /\ out' \in Seq(OutFrame) /\ Rest(out', out)
  BY <1>1, ReadFacts
<1>3. UNCHANGED <<registered, shut, nextId, parked, stopper, writeGate, faulted, asked,
                  todo, stopping, asking>>
  BY DEF ReadBad, agentVars
<1>4. parked' \in Seq({"ask", "note"}) /\ pipe \in Seq(PipeFrame) /\ Grown(pipe, pipe)
  BY <1>3, Parts
<1>5. "failed" \in Outcomes /\ Broken(p) \in Outcomes
  BY DEF Outcomes, Broken
<1>6. Broken(p) \in {"cancelled", "unknown"} => caller[p].id \in asked
  BY <1>2, Parts DEF Broken, RequestedFor, Fence, CallerInv, Ids
<1>7. CASE Quarantine(p, "failed") /\ UNCHANGED <<alive, pipe>>
  BY <1>2, <1>3, <1>4, <1>5, <1>7, GivesUp DEF Quarantine
<1>8. CASE Quarantine(p, Broken(p)) /\ Dies
  BY <1>2, <1>3, <1>4, <1>5, <1>6, <1>8, GivesUp DEF Quarantine, Dies
<1> QED
  BY <1>7, <1>8 DEF ReadBad

\* The stream ends.
LEMMA ReadEndStep ==
    ASSUME AcpInv, NEW p \in Callers, ReadEnd(p)
    PROVE  AcpInv'
<1>1. caller[p].pc \in Busy
  BY DEF ReadEnd, At, Busy, Reading
<1>2. /\ UNCHANGED <<registered, shut, nextId, parked, stopper, writeGate, faulted, asked,
                     todo, stopping, asking, alive, pipe, out>>
      /\ Quarantine(p, Broken(p))
  BY DEF ReadEnd, agentVars, wireVars
<1>3. /\ parked' \in Seq({"ask", "note"}) /\ out' \in Seq(OutFrame) /\ pipe' \in Seq(PipeFrame)
      /\ Rest(out', out) /\ Grown(pipe', pipe) /\ alive' = alive
  BY <1>2, Parts
<1>4. Broken(p) \in Outcomes
  BY DEF Outcomes, Broken
<1>5. Broken(p) \in {"cancelled", "unknown"} => caller[p].id \in asked
  BY <1>1, Parts DEF Broken, RequestedFor, Fence, CallerInv, Ids
<1> QED
  BY <1>1, <1>2, <1>3, <1>4, <1>5, GivesUp DEF Quarantine

\* The grace of a cancellation runs out.
LEMMA ExpireStep ==
    ASSUME AcpInv, NEW p \in Callers, Expire(p)
    PROVE  AcpInv'
<1>1. caller[p].pc \in Busy
  BY DEF Expire, At, Busy, Reading
<1>2. /\ UNCHANGED <<registered, shut, nextId, parked, stopper, writeGate, faulted, asked,
                     todo, stopping, asking, out>>
      /\ Quarantine(p, Broken(p)) /\ alive' = FALSE /\ pipe' = <<>>
  BY DEF Expire, agentVars, Dies
<1>3. /\ parked' \in Seq({"ask", "note"}) /\ out' \in Seq(OutFrame) /\ Rest(out', out)
  BY <1>2, Parts
<1>4. Broken(p) \in Outcomes
  BY DEF Outcomes, Broken
<1>5. Broken(p) \in {"cancelled", "unknown"} => caller[p].id \in asked
  BY <1>1, Parts DEF Broken, RequestedFor, Fence, CallerInv, Ids
<1> QED
  BY <1>1, <1>2, <1>3, <1>4, <1>5, GivesUp DEF Quarantine

\* A reply is written.
LEMMA ReplyStep ==
    ASSUME AcpInv, NEW p \in Callers, Reply(p)
    PROVE  AcpInv'
<1>1. caller[p].pc \in Busy /\ caller[p].pc \in Reading
  BY DEF Reply, At, Busy, Reading
<1>2. /\ UNCHANGED <<registered, shut, nextId, parked, stopper, writeGate, faulted, asked,
                     todo, stopping, asking, alive, out>>
      /\ pipe' = Append(pipe, [kind |-> "reply", id |-> caller[p].id])
  BY DEF Reply, agentVars
<1>3. caller[p].id \in Ids
  BY <1>1, Parts DEF CallerInv
<1>4. pipe \in Seq(PipeFrame)
  BY Parts
<1>5. /\ pipe' \in Seq(PipeFrame) /\ Grown(pipe', pipe)
  BY <1>2, <1>3, <1>4, GrownFacts
<1>6. /\ parked' \in Seq({"ask", "note"}) /\ out' \in Seq(OutFrame) /\ Rest(out', out)
  BY <1>2, Parts
<1>7. CASE Quarantine(p, "failed")
  BY <1>1, <1>2, <1>5, <1>6, <1>7, GivesUp DEF Quarantine, Outcomes
<1>8. CASE Go(p, "top") /\ UNCHANGED <<lock, quarantined, ended, active, requested>>
  <2>1. Len(pipe') \in 1..Len(pipe') /\ pipe'[Len(pipe')].kind = "reply"
    BY <1>2, <1>4
  <2>2. AsksAreKept'
    BY <2>1 DEF AsksAreKept, AskAfoot
  <2> QED
    BY <1>1, <1>2, <1>5, <1>6, <1>8, <2>2, GoesOn DEF Reading
<1> QED
  BY <1>7, <1>8 DEF Reply

-----------------------------------------------------------------------------
(* A caller up to its request.                                             *)

\* What is owed does not change when those who wait for it still do.
LEMMA OwedKept ==
    ASSUME Owed, \A i : Awaited(i) => Awaited(i)',
           UNCHANGED <<alive, quarantined, todo, pipe, out>>
    PROVE  Owed'
BY DEF Owed

\* A caller that has no request under way moves to r.
LEMMA Moves ==
    ASSUME AcpInv, NEW p \in Callers, caller[p].pc \notin Busy,
           NEW r \in [pc : Free \cup Held, kind : Kinds, id : 0..MaxId],
           caller' = [caller EXCEPT ![p] = r],
           r.pc \notin Reading,
           r.pc = "send" => r.id \in Ids /\ r.kind = "call",
           r.pc # "send" => r.id = 0,
           r.pc \in {"locked", "prepared", "opening"} => r.kind = "prompt",
           r.pc = "opening" => ~quarantined,
           \/ r.pc \in Held /\ lock \in {Nobody, p} /\ lock' = p
           \/ r.pc \notin Held /\ lock' = IF lock = p THEN Nobody ELSE lock,
           nextId' \in 1..(MaxId + 1),
           UNCHANGED <<registered, shut, quarantined, parked, ended, active, requested, stopper,
                       writeGate, faulted, asked, todo, stopping, asking, alive, pipe, out>>
    PROVE  AcpInv'
<1>1. /\ HostType /\ CancelType /\ WireType /\ CallerInv /\ Fence
      /\ Owed /\ Aimed /\ StopsOnlyItsTurn /\ AsksAreKept
  BY Parts
<1>2. /\ caller \in [Callers -> [pc : Free \cup Held, kind : Kinds, id : 0..MaxId]]
      /\ lock \in Callers \cup {Nobody}
      /\ \A q \in Callers : caller[q].pc \in Held <=> lock = q
  BY <1>1 DEF HostType
<1>3. \A q \in Callers : caller'[q] = IF q = p THEN r ELSE caller[q]
  BY <1>2
<1>4. HostType'
  <2>1. caller' \in [Callers -> [pc : Free \cup Held, kind : Kinds, id : 0..MaxId]]
    BY <1>2
  <2>2. lock' \in Callers \cup {Nobody} /\ \A q \in Callers : caller'[q].pc \in Held <=> lock' = q
    BY <1>2, <1>3, AcpConstants
  <2>3. /\ registered' \in BOOLEAN /\ shut' \in {"no", "waiting", "done"} /\ quarantined' \in BOOLEAN
        /\ parked' \in Seq({"ask", "note"})
        /\ ended' \in [Ids -> {"open", "done", "cancelled", "unknown", "failed"}]
    BY <1>1 DEF HostType
  <2> QED
    BY <2>1, <2>2, <2>3 DEF HostType
<1>5. CancelType' /\ StopsOnlyItsTurn'
  BY <1>1 DEF CancelType, StopsOnlyItsTurn
<1>6. WireType'
  BY <1>1 DEF WireType
<1>7. CallerInv'
  BY <1>1, <1>3 DEF CallerInv, Busy
<1>8. Fence'
  BY <1>1, <1>3 DEF Fence
<1>9. Owed'
  <2>1. \A i : Awaited(i) => Awaited(i)'
    BY <1>3 DEF Awaited, Busy
  <2> QED
    BY <1>1, <2>1, OwedKept
<1>10. Aimed'
  BY <1>1 DEF Aimed
<1>11. AsksAreKept'
  <2>1. AskAfoot => AskAfoot'
    BY <1>3 DEF AskAfoot, Busy, Reading
  <2> QED
    BY <1>1, <2>1 DEF AsksAreKept, Usable
<1> QED
  BY <1>4, <1>5, <1>6, <1>7, <1>8, <1>9, <1>10, <1>11 DEF AcpInv, AcpTypeOK

\* A command finds the handle.
LEMMA EnterStep ==
    ASSUME AcpInv, NEW p \in Callers, NEW kind \in Kinds, Enter(p, kind)
    PROVE  AcpInv'
<1> DEFINE r == [pc |-> "waiting", kind |-> kind, id |-> 0]
<1>1. r \in [pc : Free \cup Held, kind : Kinds, id : 0..MaxId] /\ r.pc = "waiting" /\ r.id = 0
  BY AcpConstants DEF Free
<1>2. /\ caller[p].pc = "idle" /\ caller' = [caller EXCEPT ![p] = r]
      /\ UNCHANGED <<registered, shut, lock, nextId, quarantined, parked, ended, active, requested,
                     stopper, writeGate, faulted, asked, todo, stopping, asking, alive, pipe, out>>
  BY DEF Enter, At, cancelVars, agentVars, wireVars
<1> HIDE DEF r
<1>3. lock' = IF lock = p THEN Nobody ELSE lock
  BY <1>2, Parts DEF HostType, Held
<1>4. nextId' \in 1..(MaxId + 1)
  BY <1>2, Parts DEF HostType
<1>5. caller[p].pc \notin Busy /\ "waiting" \notin Reading /\ "waiting" \notin Held
  BY <1>2 DEF Busy, Reading, Held
<1> QED
  BY <1>1, <1>2, <1>3, <1>4, <1>5, Moves

\* A caller takes the mutex.
LEMMA LockSessionStep ==
    ASSUME AcpInv, NEW p \in Callers, LockSession(p)
    PROVE  AcpInv'
<1>1. /\ caller[p].pc = "waiting" /\ lock = Nobody
      /\ UNCHANGED <<registered, shut, quarantined, parked, ended, active, requested, stopper,
                     writeGate, faulted, asked, todo, stopping, asking, alive, pipe, out>>
  BY DEF LockSession, At, cancelVars, agentVars, wireVars
<1>2. caller[p].pc \notin Busy /\ lock # p
  BY <1>1, AcpConstants DEF Busy, Reading
<1>3. /\ caller \in [Callers -> [pc : Free \cup Held, kind : Kinds, id : 0..MaxId]]
      /\ caller[p].id = 0 /\ nextId \in 1..(MaxId + 1)
  BY <1>2, Parts DEF HostType, CallerInv
<1>4. CASE caller[p].kind = "prompt" /\ lock' = p /\ Go(p, "locked") /\ UNCHANGED nextId
  <2> DEFINE r == [caller[p] EXCEPT !.pc = "locked"]
  <2>1. r \in [pc : Free \cup Held, kind : Kinds, id : 0..MaxId] /\ r.pc = "locked" /\ r.id = 0 /\ r.kind = "prompt"
    BY <1>3, <1>4 DEF Held
  <2>2. caller' = [caller EXCEPT ![p] = r]
    BY <1>3, <1>4 DEF Go
  <2> HIDE DEF r
  <2>3. "locked" \notin Reading /\ "locked" \in Held
    BY DEF Reading, Held
  <2>4. lock' = p /\ lock \in {Nobody, p} /\ nextId' \in 1..(MaxId + 1)
    BY <1>1, <1>3, <1>4
  <2> QED
    BY <1>1, <1>2, <2>1, <2>2, <2>3, <2>4, Moves
<1>5. CASE caller' = [caller EXCEPT ![p] = Idle] /\ UNCHANGED <<lock, nextId>>
  <2>1. /\ Idle \in [pc : Free \cup Held, kind : Kinds, id : 0..MaxId]
        /\ Idle.pc = "idle" /\ Idle.id = 0
        /\ "idle" \notin Reading /\ "idle" \notin Held
    BY AcpConstants DEF Idle, Free, Held, Kinds, Reading
  <2> QED
    BY <1>1, <1>2, <1>3, <1>5, <2>1, Moves
<1>6. CASE /\ caller[p].kind = "call" /\ nextId <= MaxId /\ lock' = p
           /\ caller' = [caller EXCEPT ![p].pc = "send", ![p].id = nextId]
           /\ nextId' = nextId + 1
  <2> DEFINE r == [pc |-> "send", kind |-> "call", id |-> nextId]
  <2>1. nextId \in Ids /\ nextId' \in 1..(MaxId + 1) /\ nextId \in 0..MaxId
    BY <1>3, <1>6, AcpConstants DEF Ids
  <2>2. r \in [pc : Free \cup Held, kind : Kinds, id : 0..MaxId] /\ r.pc = "send" /\ r.id = nextId /\ r.kind = "call"
    BY <2>1 DEF Held, Kinds
  <2>3. caller' = [caller EXCEPT ![p] = r]
    BY <1>3, <1>6
  <2> HIDE DEF r
  <2>4. "send" \notin Reading /\ "send" \in Held
    BY DEF Reading, Held
  <2>5. lock' = p /\ lock \in {Nobody, p}
    BY <1>1, <1>6
  <2> QED
    BY <1>1, <1>2, <2>1, <2>2, <2>3, <2>4, <2>5, Moves
<1> QED
  BY <1>4, <1>5, <1>6 DEF LockSession

\* A prompt is prepared, or refused.
LEMMA PrepareStep ==
    ASSUME AcpInv, NEW p \in Callers, Prepare(p)
    PROVE  AcpInv'
<1>1. /\ caller[p].pc = "prepared"
      /\ UNCHANGED <<registered, shut, nextId, quarantined, parked, ended, active, requested, stopper,
                     writeGate, faulted, asked, todo, stopping, asking, alive, pipe, out>>
  BY DEF Prepare, At, cancelVars, agentVars, wireVars
<1>2. caller[p].pc \notin Busy /\ caller[p].pc \in Held
  BY <1>1 DEF Busy, Reading, Held
<1>3. /\ caller \in [Callers -> [pc : Free \cup Held, kind : Kinds, id : 0..MaxId]]
      /\ caller[p].id = 0 /\ nextId \in 1..(MaxId + 1) /\ lock = p /\ caller[p].kind = "prompt"
  BY <1>1, <1>2, Parts DEF HostType, CallerInv
<1>4. CASE Usable /\ Go(p, "opening") /\ UNCHANGED lock
  <2> DEFINE r == [caller[p] EXCEPT !.pc = "opening"]
  <2>1. r \in [pc : Free \cup Held, kind : Kinds, id : 0..MaxId] /\ r.pc = "opening" /\ r.id = 0 /\ r.kind = "prompt"
    BY <1>3 DEF Held
  <2>2. caller' = [caller EXCEPT ![p] = r]
    BY <1>3, <1>4 DEF Go
  <2> HIDE DEF r
  <2>3. "opening" \notin Reading /\ "opening" \in Held /\ ~quarantined /\ lock' = p
    BY <1>3, <1>4 DEF Reading, Held, Usable
  <2> QED
    BY <1>1, <1>2, <1>3, <2>1, <2>2, <2>3, Moves
<1>5. CASE caller' = [caller EXCEPT ![p] = Idle] /\ lock' = Nobody
  <2>1. /\ Idle \in [pc : Free \cup Held, kind : Kinds, id : 0..MaxId]
        /\ Idle.pc = "idle" /\ Idle.id = 0
        /\ "idle" \notin Reading /\ "idle" \notin Held
    BY AcpConstants DEF Idle, Free, Held, Kinds, Reading
  <2> QED
    BY <1>1, <1>2, <1>3, <1>5, <2>1, Moves
<1> QED
  BY <1>4, <1>5 DEF Prepare

\* The flag is cleared.
LEMMA ResetStep ==
    ASSUME AcpInv, NEW p \in Callers, Reset(p)
    PROVE  AcpInv'
<1>1. /\ HostType /\ CancelType /\ WireType /\ CallerInv /\ Fence
      /\ Owed /\ Aimed /\ StopsOnlyItsTurn /\ AsksAreKept
  BY Parts
<1>2. /\ caller[p].pc = "locked" /\ writeGate = Nobody /\ active' = 0 /\ requested' = FALSE
      /\ caller' = [caller EXCEPT ![p].pc = "prepared"]
      /\ UNCHANGED <<registered, shut, lock, nextId, quarantined, parked, ended, stopper,
                     writeGate, faulted, asked, todo, stopping, asking, alive, pipe, out>>
  BY DEF Reset, At, Go, agentVars, wireVars
<1>3. /\ caller \in [Callers -> [pc : Free \cup Held, kind : Kinds, id : 0..MaxId]]
      /\ \A q \in Callers : caller[q].pc \in Held <=> lock = q
  BY <1>1 DEF HostType
<1>4. /\ caller' \in [Callers -> [pc : Free \cup Held, kind : Kinds, id : 0..MaxId]]
      /\ \A q \in Callers : /\ caller'[q].id = caller[q].id /\ caller'[q].kind = caller[q].kind
                            /\ caller'[q].pc = IF q = p THEN "prepared" ELSE caller[q].pc
  BY <1>2, <1>3 DEF Held
<1>5. \A q \in Callers : caller[q].pc \notin Busy
  BY <1>2, <1>3 DEF Held, Busy, Reading
<1>6. HostType'
  BY <1>1, <1>2, <1>4 DEF HostType, Held
<1>7. CancelType'
  <2>1. active' \in 0..MaxId
    BY <1>2, AcpConstants
  <2>2. requested' \in BOOLEAN
    BY <1>2
  <2> QED
    BY <1>1, <1>2, <2>1, <2>2 DEF CancelType
<1>8. (WireType /\ Aimed /\ StopsOnlyItsTurn)'
  BY <1>1, <1>2 DEF WireType, Aimed, StopsOnlyItsTurn
<1>9. CallerInv'
  BY <1>1, <1>2, <1>4, <1>5 DEF CallerInv, Busy, Reading
<1>10. Fence'
  BY <1>1, <1>2, <1>4 DEF Fence
<1>11. Owed'
  <2>1. \A i : Awaited(i) => Awaited(i)'
    BY <1>5 DEF Awaited, Busy
  <2> QED
    BY <1>1, <1>2, <2>1, OwedKept
<1>12. AsksAreKept'
  <2>1. AskAfoot => AskAfoot'
    BY <1>2, <1>4 DEF AskAfoot
  <2> QED
    BY <1>1, <1>2, <2>1 DEF AsksAreKept, Usable
<1> QED
  BY <1>6, <1>7, <1>8, <1>9, <1>10, <1>11, <1>12 DEF AcpInv, AcpTypeOK

\* A turn is opened.  No stop holds write_gate, so none can write for a turn
\* that is over.
LEMMA BeginTurnStep ==
    ASSUME AcpInv, NEW p \in Callers, BeginTurn(p)
    PROVE  AcpInv'
<1>1. /\ HostType /\ CancelType /\ WireType /\ CallerInv /\ Fence
      /\ Owed /\ Aimed /\ StopsOnlyItsTurn /\ AsksAreKept
  BY Parts
<1>2. /\ caller[p].pc = "opening" /\ writeGate = Nobody /\ nextId <= MaxId
      /\ active' = nextId /\ requested' = FALSE
      /\ nextId' = nextId + 1
      /\ caller' = [caller EXCEPT ![p].pc = "send", ![p].id = nextId]
      /\ UNCHANGED <<registered, shut, lock, quarantined, parked, ended, stopper,
                     writeGate, faulted, asked, todo, stopping, asking, alive, pipe, out>>
  BY DEF BeginTurn, At, agentVars, wireVars
<1>3. /\ caller \in [Callers -> [pc : Free \cup Held, kind : Kinds, id : 0..MaxId]]
      /\ \A q \in Callers : caller[q].pc \in Held <=> lock = q
      /\ nextId \in Ids /\ nextId \in 0..MaxId /\ nextId' \in 1..(MaxId + 1)
  BY <1>1, <1>2, AcpConstants DEF HostType, Ids
<1>4. /\ caller' \in [Callers -> [pc : Free \cup Held, kind : Kinds, id : 0..MaxId]]
      /\ \A q \in Callers : /\ caller'[q].kind = caller[q].kind
                            /\ caller'[q].id = IF q = p THEN nextId ELSE caller[q].id
                            /\ caller'[q].pc = IF q = p THEN "send" ELSE caller[q].pc
  BY <1>2, <1>3 DEF Held
<1>5. \A q \in Callers : caller[q].pc \notin Busy
  BY <1>2, <1>3 DEF Held, Busy, Reading
<1>6. HostType'
  BY <1>1, <1>2, <1>3, <1>4 DEF HostType, Held
<1>7. CancelType'
  <2>1. active' \in 0..MaxId
    BY <1>2, <1>3
  <2>2. requested' \in BOOLEAN
    BY <1>2
  <2> QED
    BY <1>1, <1>2, <2>1, <2>2 DEF CancelType
<1>8. (WireType /\ Aimed /\ StopsOnlyItsTurn)'
  BY <1>1, <1>2 DEF WireType, Aimed, StopsOnlyItsTurn
<1>9. CallerInv'
  BY <1>1, <1>2, <1>3, <1>4, <1>5 DEF CallerInv, Busy, Reading
<1>10. Fence'
  <2>1. \A s \in Stoppers : stopper[s].pc # "writing"
    BY <1>1, <1>2, AcpConstants DEF CancelType
  <2>2. ~quarantined
    BY <1>1, <1>2 DEF Fence
  <2> QED
    BY <1>1, <1>2, <1>4, <2>1, <2>2 DEF Fence
<1>11. Owed'
  <2>1. \A i : Awaited(i) => Awaited(i)'
    BY <1>5 DEF Awaited, Busy
  <2> QED
    BY <1>1, <1>2, <2>1, OwedKept
<1>12. AsksAreKept'
  <2>1. AskAfoot => AskAfoot'
    BY <1>2, <1>4 DEF AskAfoot
  <2> QED
    BY <1>1, <1>2, <2>1 DEF AsksAreKept, Usable
<1> QED
  BY <1>6, <1>7, <1>8, <1>9, <1>10, <1>11, <1>12 DEF AcpInv, AcpTypeOK

\* A request is written: nothing else is owed.
LEMMA SendStep ==
    ASSUME AcpInv, NEW p \in Callers, Send(p)
    PROVE  AcpInv'
<1>1. /\ HostType /\ CancelType /\ WireType /\ CallerInv /\ Fence
      /\ Owed /\ Aimed /\ StopsOnlyItsTurn /\ AsksAreKept
  BY Parts
<1> DEFINE e == [kind |-> caller[p].kind, id |-> caller[p].id]
<1>2. /\ caller[p].pc = "send" /\ Usable /\ alive /\ pipe' = Append(pipe, e)
      /\ caller' = [caller EXCEPT ![p].pc = "top"]
      /\ UNCHANGED <<registered, shut, lock, nextId, quarantined, parked, ended, active, requested,
                     stopper, writeGate, faulted, asked, todo, stopping, asking, alive, out>>
  BY DEF Send, At, Go, cancelVars, agentVars
<1>3. /\ caller \in [Callers -> [pc : Free \cup Held, kind : Kinds, id : 0..MaxId]]
      /\ \A q \in Callers : caller[q].pc \in Held <=> lock = q
      /\ caller[p].id \in Ids
  BY <1>1, <1>2 DEF HostType, CallerInv, Busy
<1>4. /\ caller' \in [Callers -> [pc : Free \cup Held, kind : Kinds, id : 0..MaxId]]
      /\ \A q \in Callers : /\ caller'[q].id = caller[q].id /\ caller'[q].kind = caller[q].kind
                            /\ caller'[q].pc = IF q = p THEN "top" ELSE caller[q].pc
  BY <1>2, <1>3 DEF Held
<1>5. e \in PipeFrame /\ e.kind = caller[p].kind /\ e.kind \in Kinds /\ e.id = caller[p].id
  BY <1>3 DEF PipeFrame, Kinds
<1> HIDE DEF e
<1>6. /\ pipe' \in Seq(PipeFrame) /\ Len(pipe) \in Nat /\ Len(pipe') = Len(pipe) + 1
      /\ \A i \in 1..Len(pipe) : pipe'[i] = pipe[i]
      /\ pipe'[Len(pipe) + 1] = e
  BY <1>1, <1>2, <1>5, AppendFacts DEF WireType
<1>7. \A i \in 1..Len(pipe') : i \in 1..Len(pipe) \/ i = Len(pipe) + 1
  BY <1>6
<1>8. HostType'
  BY <1>1, <1>2, <1>4 DEF HostType, Held
<1>9. (CancelType /\ StopsOnlyItsTurn)'
  BY <1>1, <1>2 DEF CancelType, StopsOnlyItsTurn
<1>10. WireType'
  BY <1>1, <1>2, <1>6 DEF WireType
<1>11. CallerInv'
  BY <1>1, <1>2, <1>4 DEF CallerInv, Busy, Reading
<1>12. Fence'
  BY <1>1, <1>2, <1>4 DEF Fence
<1>13. \A i : ~Awaited(i)
  BY <1>2, <1>3 DEF Awaited, Reading, Held
<1>14. /\ todo = {}
       /\ \A i \in 1..Len(pipe) : pipe[i].kind \notin Kinds
       /\ \A i \in 1..Len(out) : out[i].kind # "answer"
  BY <1>1, <1>2, <1>13 DEF Owed, Usable
<1>15. Owed'
  <2>1. Awaited(caller[p].id)'
    BY <1>3, <1>4 DEF Awaited, Reading
  <2>2. \A i \in 1..Len(pipe') : pipe'[i].kind \in Kinds => i = Len(pipe) + 1 /\ pipe'[i].id = caller[p].id
    BY <1>5, <1>6, <1>7, <1>14
  <2>3. todo' = {} /\ \A i \in 1..Len(out') : out'[i].kind # "answer"
    BY <1>2, <1>14
  <2>4. (\A i \in 1..Len(pipe) : pipe[i].kind \in Kinds => Awaited(pipe[i].id))'
    BY <1>3, <1>4, <2>2 DEF Awaited, Reading
  <2> QED
    BY <2>2, <2>3, <2>4 DEF Owed
<1>16. Aimed'
  <2>1. \A s \in Stoppers : stopper[s].pc = "writing" => (e.kind = "prompt" => e.id = stopper[s].target)
    <3>1. caller[p].kind = "prompt" => active = caller[p].id
      BY <1>1, <1>2 DEF CallerInv, Busy
    <3>2. \A s \in Stoppers : stopper[s].pc = "writing" => active \in {0, stopper[s].target}
      BY <1>1 DEF Fence
    <3>3. caller[p].id # 0
      BY <1>3 DEF Ids
    <3> QED
      BY <1>5, <3>1, <3>2, <3>3
  <2>2. \A k \in 1..Len(pipe') : pipe'[k].kind = "cancel" => k \in 1..Len(pipe)
    BY <1>5, <1>6, <1>7 DEF Kinds
  <2>3. \A k \in 1..Len(pipe), j \in 1..Len(pipe') : j < k => j \in 1..Len(pipe)
    BY <1>6
  <2>4. \A j \in 1..Len(pipe') : pipe'[j].kind = "prompt" => pipe'[j] = e
    BY <1>6, <1>7, <1>14 DEF Kinds
  <2>5. /\ (stopping \subseteq asked)'
        /\ (\A i \in 1..Len(out) : (out[i].kind = "answer" /\ out[i].how = "cancelled") => out[i].id \in asked)'
    BY <1>1, <1>2 DEF Aimed
  <2>6. (\A k \in 1..Len(pipe) : pipe[k].kind = "cancel" =>
            /\ \A f \in todo : f.kind = "prompt" => f.id \in asked
            /\ \A j \in 1..Len(pipe) : (j < k /\ pipe[j].kind = "prompt") => pipe[j].id \in asked)'
    BY <1>1, <1>2, <1>6, <1>14, <2>2, <2>3 DEF Kinds, Aimed
  <2>7. (alive => \A s \in Stoppers : stopper[s].pc = "writing" =>
            /\ \A f \in todo : f.kind = "prompt" => f.id = stopper[s].target
            /\ \A j \in 1..Len(pipe) : pipe[j].kind = "prompt" => pipe[j].id = stopper[s].target)'
    BY <1>2, <1>14, <2>1, <2>4
  <2> QED
    BY <2>5, <2>6, <2>7 DEF Aimed
<1>17. AsksAreKept'
  <2>1. AskAfoot => AskAfoot'
    BY <1>2, <1>4, <1>6 DEF AskAfoot
  <2> QED
    BY <1>1, <1>2, <2>1 DEF AsksAreKept, Usable
<1> QED
  BY <1>8, <1>9, <1>10, <1>11, <1>12, <1>15, <1>16, <1>17 DEF AcpInv, AcpTypeOK

\* A permission is decided.
LEMMA DecideStep ==
    ASSUME AcpInv, NEW p \in Callers, Decide(p)
    PROVE  AcpInv'
<1>1. /\ caller[p].pc = "asked" /\ Go(p, "reply")
      /\ UNCHANGED <<registered, shut, lock, nextId, quarantined, parked, ended, active, requested,
                     stopper, writeGate, faulted, asked, todo, stopping, asking, alive, pipe, out>>
  BY DEF Decide, At, cancelVars, agentVars, wireVars
<1>2. caller[p].pc \in Reading /\ "reply" \in Reading
  BY <1>1 DEF Reading
<1>3. AsksAreKept'
  <2>1. caller \in [Callers -> [pc : Free \cup Held, kind : Kinds, id : 0..MaxId]]
    BY Parts DEF HostType
  <2>2. caller'[p].pc = "reply"
    BY <1>1, <2>1 DEF Go
  <2> QED
    BY <2>2 DEF AsksAreKept, AskAfoot
<1>4. /\ parked' \in Seq({"ask", "note"}) /\ out' \in Seq(OutFrame) /\ pipe' \in Seq(PipeFrame)
      /\ Rest(out', out) /\ Grown(pipe', pipe)
  BY <1>1, Parts
<1> QED
  BY <1>1, <1>2, <1>3, <1>4, GoesOn

\* An answer is read: its owner is owed nothing any more.
LEMMA ReadAnswerStep ==
    ASSUME AcpInv, NEW p \in Callers, ReadAnswer(p)
    PROVE  AcpInv'
<1>1. Reads(p, "answer")
  BY DEF ReadAnswer
<1>2. /\ caller[p].pc = "recv" /\ caller[p].pc \in Reading /\ caller[p].pc \in Busy
      /\ out' \in Seq(OutFrame) /\ Rest(out', out)
      /\ Len(out) \in Nat /\ Len(out) >= 1 /\ Head(out) = out[1] /\ out[1] \in OutFrame
      /\ out[1].kind = "answer"
      /\ Len(out') = Len(out) - 1
      /\ \A i \in 1..Len(out') : i + 1 \in 1..Len(out) /\ out'[i] = out[i + 1]
  BY <1>1, ReadFacts
<1>3. UNCHANGED <<registered, shut, nextId, parked, stopper, writeGate, faulted, asked,
                  todo, stopping, asking, alive, pipe>>
  BY DEF ReadAnswer, agentVars
<1>4. /\ parked' \in Seq({"ask", "note"}) /\ pipe' \in Seq(PipeFrame) /\ Grown(pipe', pipe) /\ alive' = alive
  BY <1>3, Parts
<1>5. /\ HostType /\ CancelType /\ WireType /\ CallerInv /\ Fence
      /\ Owed /\ Aimed /\ StopsOnlyItsTurn /\ AsksAreKept
  BY Parts
<1>6. \A i \in 1..Len(out) : i = 1 \/ (i - 1 \in 1..Len(out') /\ out'[i - 1] = out[i])
  BY <1>2
<1>7. CASE Quarantine(p, "failed")
  BY <1>2, <1>3, <1>4, <1>7, GivesUp DEF Quarantine, Outcomes
<1>8. CASE UNCHANGED <<lock, caller, quarantined, ended, active, requested>>
  <2>1. AskAfoot => AskAfoot'
    BY <1>2, <1>3, <1>6, <1>8 DEF AskAfoot
  <2>2. AsksAreKept'
    BY <1>3, <1>5, <1>8, <2>1 DEF AsksAreKept, Usable
  <2> QED
    BY <1>2, <1>3, <1>4, <1>8, <2>2, GoesOn
<1>9. CASE Head(out).id = caller[p].id /\ Return(p, Head(out).how) /\ UNCHANGED quarantined
  <2> DEFINE how == Head(out).how
  <2>1. how \in {"done", "cancelled"} /\ how \in Outcomes
    BY <1>2 DEF OutFrame, Outcomes
  <2>2. how = "cancelled" => caller[p].id \in asked
    BY <1>2, <1>5, <1>9 DEF Aimed
  <2> HIDE DEF how
  <2>3. Return(p, how)
    BY <1>9 DEF how
  <2>4. /\ lock' = Nobody /\ active' = 0 /\ requested' \in BOOLEAN
        /\ caller' = [caller EXCEPT ![p] = Idle]
        /\ caller' \in [Callers -> [pc : Free \cup Held, kind : Kinds, id : 0..MaxId]]
        /\ \A q \in Callers : caller'[q].pc \notin Held
        /\ \A q \in Callers : caller'[q].pc \notin Busy /\ caller'[q].id = 0
        /\ caller[p].id \in Ids
        /\ ended' = [ended EXCEPT ![caller[p].id] = how]
        /\ ended' \in [Ids -> Outcomes]
    BY <1>2, <1>5, <2>1, <2>3, Ends
  <2>5. HostType'
    <3>1. /\ registered' \in BOOLEAN /\ shut' \in {"no", "waiting", "done"}
          /\ nextId' \in 1..(MaxId + 1) /\ quarantined' \in BOOLEAN
      BY <1>3, <1>5, <1>9 DEF HostType
    <3>2. \A q \in Callers : caller'[q].pc \in Held <=> lock' = q
      BY <2>4, AcpConstants
    <3> QED
      BY <1>4, <2>4, <3>1, <3>2 DEF HostType, Outcomes
  <2>6. CancelType'
    <3>1. active' \in 0..MaxId
      BY <2>4, AcpConstants
    <3> QED
      BY <1>3, <1>5, <2>4, <3>1 DEF CancelType
  <2>7. WireType'
    BY <1>2, <1>3, <1>5 DEF WireType
  <2>8. CallerInv'
    BY <2>4 DEF CallerInv, Busy, Reading, Held
  <2>9. Fence'
    <3>1. \A q \in Callers : caller'[q].pc # "opening"
      BY <2>4 DEF Held
    <3> QED
      BY <1>3, <1>5, <1>9, <2>4, <3>1 DEF Fence
  <2>10. Owed'
    <3>1. SUFFICES ASSUME alive, ~quarantined PROVE Owed'
      BY <1>3, <1>9 DEF Owed
    <3>2. 1 \in 1..Len(out) /\ out[1].kind = "answer"
      BY <1>2
    <3>3. todo = {} /\ \A i \in 1..Len(pipe) : pipe[i].kind \notin Kinds
      BY <1>5, <3>1, <3>2 DEF Owed
    <3>4. \A i \in 1..Len(out') : out'[i].kind # "answer"
      <4>1. ASSUME NEW i \in 1..Len(out'), out'[i].kind = "answer" PROVE FALSE
        <5>1. i + 1 \in 1..Len(out) /\ out[i + 1].kind = "answer" /\ i \in Nat /\ i >= 1
          BY <1>2, <4>1
        <5>2. i + 1 = 1
          BY <1>5, <3>1, <3>2, <5>1 DEF Owed
        <5> QED
          BY <5>1, <5>2
      <4> QED
        BY <4>1
    <3> QED
      BY <1>3, <3>3, <3>4 DEF Owed
  <2>11. Aimed'
    BY <1>2, <1>3, <1>5 DEF Aimed
  <2>12. StopsOnlyItsTurn'
    BY <1>3, <1>5, <2>1, <2>2, <2>4 DEF StopsOnlyItsTurn, HostType
  <2>13. AsksAreKept'
    <3>1. \A q \in Callers : caller[q].pc \in {"asked", "reply"} => FALSE
      BY <1>2, <1>5 DEF HostType, Held
    <3>2. AskAfoot => AskAfoot'
      BY <1>2, <1>3, <1>6, <3>1 DEF AskAfoot
    <3> QED
      BY <1>3, <1>5, <1>9, <3>2 DEF AsksAreKept, Usable
  <2> QED
    BY <2>5, <2>6, <2>7, <2>8, <2>9, <2>10, <2>11, <2>12, <2>13 DEF AcpInv, AcpTypeOK
<1> QED
  BY <1>7, <1>8, <1>9 DEF ReadAnswer

-----------------------------------------------------------------------------
(* A stop.                                                                 *)

\* A stop finds the handle.
LEMMA FindStep ==
    ASSUME AcpInv, NEW s \in Stoppers, Find(s)
    PROVE  AcpInv'
<1>1. /\ HostType /\ CancelType /\ WireType /\ CallerInv /\ Fence
      /\ Owed /\ Aimed /\ StopsOnlyItsTurn /\ AsksAreKept
  BY Parts
<1>2. /\ stopper[s].pc = "idle" /\ stopper' = [stopper EXCEPT ![s].pc = "found"]
      /\ UNCHANGED <<registered, shut, lock, caller, nextId, quarantined, parked, ended, active, requested,
                     writeGate, faulted, asked, todo, stopping, asking, alive, pipe, out>>
  BY DEF Find, hostVars, agentVars, wireVars
<1>3. stopper \in [Stoppers -> [pc : {"idle", "found", "captured", "writing"}, target : 0..MaxId]]
  BY <1>1 DEF CancelType
<1>4. /\ stopper' \in [Stoppers -> [pc : {"idle", "found", "captured", "writing"}, target : 0..MaxId]]
      /\ \A t \in Stoppers : /\ stopper'[t].target = stopper[t].target
                             /\ stopper'[t].pc = IF t = s THEN "found" ELSE stopper[t].pc
  BY <1>2, <1>3
<1>5. HostType'
  BY <1>1, <1>2 DEF HostType
<1>6. CancelType'
  BY <1>1, <1>2, <1>4 DEF CancelType
<1>7. (WireType /\ CallerInv /\ StopsOnlyItsTurn)'
  BY <1>1, <1>2 DEF WireType, CallerInv, StopsOnlyItsTurn
<1>8. Fence'
  BY <1>1, <1>2, <1>4 DEF Fence
<1>9. Owed'
  BY <1>1, <1>2, OwedKept DEF Awaited
<1>10. Aimed'
  BY <1>1, <1>2, <1>4 DEF Aimed
<1>11. AsksAreKept'
  BY <1>1, <1>2 DEF AsksAreKept, AskAfoot, Usable
<1> QED
  BY <1>5, <1>6, <1>7, <1>8, <1>9, <1>10, <1>11 DEF AcpInv, AcpTypeOK

\* A stop sets the flag, and sees the turn it is for.
LEMMA CaptureStep ==
    ASSUME AcpInv, NEW s \in Stoppers, Capture(s)
    PROVE  AcpInv'
<1>1. /\ HostType /\ CancelType /\ WireType /\ CallerInv /\ Fence
      /\ Owed /\ Aimed /\ StopsOnlyItsTurn /\ AsksAreKept
  BY Parts
<1>2. /\ stopper[s].pc = "found" /\ requested' = TRUE
      /\ UNCHANGED <<registered, shut, lock, caller, nextId, quarantined, parked, ended, active,
                     writeGate, faulted, todo, stopping, asking, alive, pipe, out>>
  BY DEF Capture, hostVars, agentVars, wireVars
<1>3. /\ stopper \in [Stoppers -> [pc : {"idle", "found", "captured", "writing"}, target : 0..MaxId]]
      /\ active \in 0..MaxId /\ asked \subseteq Ids
  BY <1>1 DEF CancelType
<1>4. /\ asked \subseteq asked' /\ asked' \subseteq Ids /\ (active # 0 => active \in asked')
      /\ stopper' \in [Stoppers -> [pc : {"idle", "found", "captured", "writing"}, target : 0..MaxId]]
      /\ \A t \in Stoppers : t # s => stopper'[t] = stopper[t]
      /\ stopper'[s].pc # "writing"
      /\ stopper'[s].pc = "captured" => stopper'[s].target \in asked'
  <2>1. CASE active = 0 /\ stopper' = [stopper EXCEPT ![s] = Resting] /\ UNCHANGED asked
    <3>1. Resting \in [pc : {"idle", "found", "captured", "writing"}, target : 0..MaxId] /\ Resting.pc = "idle"
      BY AcpConstants DEF Resting
    <3> QED
      BY <1>3, <2>1, <3>1
  <2>2. CASE /\ active # 0 /\ asked' = asked \cup {active}
             /\ stopper' = [stopper EXCEPT ![s] = [pc |-> "captured", target |-> active]]
    <3>1. active \in Ids
      BY <1>3, <2>2, AcpConstants DEF Ids
    <3> QED
      BY <1>3, <2>2, <3>1
  <2> QED
    BY <2>1, <2>2 DEF Capture
<1>5. HostType'
  BY <1>1, <1>2 DEF HostType
<1>6. CancelType'
  <2>1. requested' \in BOOLEAN
    BY <1>2
  <2>2. \A t \in Stoppers : stopper'[t].pc = "writing" <=> writeGate' = t
    BY <1>1, <1>2, <1>4 DEF CancelType
  <2> QED
    BY <1>1, <1>2, <1>4, <2>1, <2>2 DEF CancelType
<1>7. (WireType /\ CallerInv)'
  BY <1>1, <1>2 DEF WireType, CallerInv
<1>8. Fence'
  <2>1. \A t \in Stoppers : stopper'[t].pc \in {"captured", "writing"} => stopper'[t].target \in asked'
    BY <1>1, <1>4 DEF Fence
  <2>2. \A t \in Stoppers : stopper'[t].pc = "writing" => active \in {0, stopper'[t].target}
    BY <1>1, <1>4 DEF Fence
  <2> QED
    BY <1>1, <1>2, <1>4, <2>1, <2>2 DEF Fence
<1>9. Owed'
  BY <1>1, <1>2, OwedKept DEF Awaited
<1>10. Aimed'
  BY <1>1, <1>2, <1>4 DEF Aimed
<1>11. StopsOnlyItsTurn'
  BY <1>1, <1>2, <1>4 DEF StopsOnlyItsTurn
<1>12. AsksAreKept'
  BY <1>1, <1>2 DEF AsksAreKept, AskAfoot, Usable
<1> QED
  BY <1>5, <1>6, <1>7, <1>8, <1>9, <1>10, <1>11, <1>12 DEF AcpInv, AcpTypeOK

\* A stop takes write_gate: the only prompt that the agent can have is the one
\* it saw.
LEMMA TakeWriteGateStep ==
    ASSUME AcpInv, NEW s \in Stoppers, TakeWriteGate(s)
    PROVE  AcpInv'
<1>1. /\ HostType /\ CancelType /\ WireType /\ CallerInv /\ Fence
      /\ Owed /\ Aimed /\ StopsOnlyItsTurn /\ AsksAreKept
  BY Parts
<1>2. /\ stopper[s].pc = "captured" /\ writeGate = Nobody
      /\ UNCHANGED <<registered, shut, lock, caller, nextId, quarantined, parked, ended, active, requested,
                     faulted, asked, todo, stopping, asking, alive, pipe, out>>
  BY DEF TakeWriteGate, hostVars, agentVars, wireVars
<1>3. /\ stopper \in [Stoppers -> [pc : {"idle", "found", "captured", "writing"}, target : 0..MaxId]]
      /\ \A t \in Stoppers : stopper[t].pc # "writing"
      /\ stopper[s].target \in asked /\ stopper[s].target # 0
  BY <1>1, <1>2, AcpConstants DEF CancelType, Fence, Ids
<1>4. HostType'
  BY <1>1, <1>2 DEF HostType
<1>5. (WireType /\ CallerInv /\ StopsOnlyItsTurn)'
  BY <1>1, <1>2 DEF WireType, CallerInv, StopsOnlyItsTurn
<1>6. Owed'
  BY <1>1, <1>2, OwedKept DEF Awaited
<1>7. AsksAreKept'
  BY <1>1, <1>2 DEF AsksAreKept, AskAfoot, Usable
<1>8. CASE /\ active = stopper[s].target
           /\ stopper' = [stopper EXCEPT ![s].pc = "writing"] /\ writeGate' = s
  <2>1. /\ stopper' \in [Stoppers -> [pc : {"idle", "found", "captured", "writing"}, target : 0..MaxId]]
        /\ \A t \in Stoppers : /\ stopper'[t].target = stopper[t].target
                               /\ stopper'[t].pc = IF t = s THEN "writing" ELSE stopper[t].pc
    BY <1>3, <1>8
  <2>2. CancelType'
    BY <1>1, <1>2, <1>3, <1>8, <2>1 DEF CancelType
  <2>3. Fence'
    BY <1>1, <1>2, <1>3, <1>8, <2>1 DEF Fence
  <2>4. \A i : Awaited(i) => i = stopper[s].target
    <3>1. PICK p \in Callers : caller[p].pc \in Busy /\ caller[p].id = active
      BY <1>1, <1>3, <1>8 DEF CallerInv
    <3>2. \A q \in Callers : caller[q].pc \in Busy => q = p
      BY <1>1, <3>1 DEF HostType, Busy, Reading, Held
    <3> QED
      BY <1>8, <3>1, <3>2 DEF Awaited, Busy
  <2>5. alive => /\ \A f \in todo : f.kind = "prompt" => f.id = stopper[s].target
                 /\ \A j \in 1..Len(pipe) : pipe[j].kind = "prompt" => pipe[j].id = stopper[s].target
    BY <1>1, <1>3, <1>8, <2>4 DEF Owed, Fence, Kinds
  <2>6. Aimed'
    BY <1>1, <1>2, <1>3, <2>1, <2>5 DEF Aimed
  <2> QED
    BY <1>4, <1>5, <1>6, <1>7, <2>2, <2>3, <2>6 DEF AcpInv, AcpTypeOK
<1>9. CASE stopper' = [stopper EXCEPT ![s] = Resting] /\ UNCHANGED writeGate
  <2>1. Resting \in [pc : {"idle", "found", "captured", "writing"}, target : 0..MaxId] /\ Resting.pc = "idle"
    BY AcpConstants DEF Resting
  <2>2. /\ stopper' \in [Stoppers -> [pc : {"idle", "found", "captured", "writing"}, target : 0..MaxId]]
        /\ \A t \in Stoppers : stopper'[t] = IF t = s THEN Resting ELSE stopper[t]
    BY <1>3, <1>9, <2>1
  <2>3. CancelType'
    BY <1>1, <1>2, <1>3, <1>9, <2>1, <2>2 DEF CancelType
  <2>4. Fence'
    BY <1>1, <1>2, <2>1, <2>2 DEF Fence
  <2>5. Aimed'
    BY <1>1, <1>2, <2>1, <2>2 DEF Aimed
  <2> QED
    BY <1>4, <1>5, <1>6, <1>7, <2>3, <2>4, <2>5 DEF AcpInv, AcpTypeOK
<1> QED
  BY <1>8, <1>9 DEF TakeWriteGate

\* A stop writes, or finds that it cannot.
LEMMA WriteCancelStep ==
    ASSUME AcpInv, NEW s \in Stoppers, WriteCancel(s)
    PROVE  AcpInv'
<1>1. /\ HostType /\ CancelType /\ WireType /\ CallerInv /\ Fence
      /\ Owed /\ Aimed /\ StopsOnlyItsTurn /\ AsksAreKept
  BY Parts
<1>2. /\ stopper[s].pc = "writing" /\ stopper' = [stopper EXCEPT ![s] = Resting] /\ writeGate' = Nobody
      /\ UNCHANGED <<registered, shut, lock, caller, nextId, quarantined, parked, ended, active, requested,
                     asked, todo, stopping, asking, alive, out>>
  BY DEF WriteCancel, hostVars, agentVars
<1>3. /\ stopper \in [Stoppers -> [pc : {"idle", "found", "captured", "writing"}, target : 0..MaxId]]
      /\ \A t \in Stoppers : t # s => stopper[t].pc # "writing"
      /\ stopper[s].target \in asked /\ stopper[s].target \in Ids
  BY <1>1, <1>2 DEF CancelType, Fence
<1>4. Resting \in [pc : {"idle", "found", "captured", "writing"}, target : 0..MaxId] /\ Resting.pc = "idle"
  BY AcpConstants DEF Resting
<1>5. /\ stopper' \in [Stoppers -> [pc : {"idle", "found", "captured", "writing"}, target : 0..MaxId]]
      /\ \A t \in Stoppers : stopper'[t] = IF t = s THEN Resting ELSE stopper[t]
      /\ \A t \in Stoppers : stopper'[t].pc # "writing" /\ (t # s => stopper'[t] = stopper[t])
  BY <1>2, <1>3, <1>4
<1>6. HostType'
  BY <1>1, <1>2 DEF HostType
<1>7. (CallerInv /\ StopsOnlyItsTurn)'
  BY <1>1, <1>2 DEF CallerInv, StopsOnlyItsTurn
<1>8. faulted' \in BOOLEAN /\ (faulted' => ~alive) /\ (faulted => faulted')
  <2>1. CASE UNCHANGED faulted
    BY <1>1, <2>1 DEF CancelType, Fence
  <2>2. CASE ~alive /\ faulted' = TRUE
    BY <2>2
  <2> QED
    BY <2>1, <2>2 DEF WriteCancel
<1>9. CancelType'
  <2>1. \A t \in Stoppers : stopper'[t].pc = "writing" <=> writeGate' = t
    BY <1>2, <1>5, AcpConstants
  <2> QED
    BY <1>1, <1>2, <1>5, <1>8, <2>1 DEF CancelType
<1>10. Fence'
  BY <1>1, <1>2, <1>4, <1>5, <1>8 DEF Fence
<1>11. CASE ~alive /\ UNCHANGED pipe
  <2>1. WireType'
    BY <1>1, <1>2, <1>11 DEF WireType
  <2>2. Owed'
    BY <1>1, <1>2, <1>11, OwedKept DEF Awaited
  <2>3. Aimed'
    BY <1>1, <1>2, <1>5, <1>11 DEF Aimed
  <2>4. AsksAreKept'
    BY <1>2, <1>11 DEF AsksAreKept
  <2> QED
    BY <1>6, <1>7, <1>9, <1>10, <2>1, <2>2, <2>3, <2>4 DEF AcpInv, AcpTypeOK
<1>12. CASE alive /\ pipe' = Append(pipe, [kind |-> "cancel", id |-> stopper[s].target])
  <2> DEFINE e == [kind |-> "cancel", id |-> stopper[s].target]
  <2>1. e \in PipeFrame /\ e.kind = "cancel"
    BY <1>3 DEF PipeFrame
  <2>2. pipe' = Append(pipe, e)
    BY <1>12
  <2> HIDE DEF e
  <2>3. /\ pipe' \in Seq(PipeFrame) /\ Len(pipe) \in Nat /\ Len(pipe') = Len(pipe) + 1
        /\ \A i \in 1..Len(pipe) : pipe'[i] = pipe[i]
        /\ pipe'[Len(pipe) + 1] = e
    BY <1>1, <2>1, <2>2, AppendFacts DEF WireType
  <2>4. /\ \A i \in 1..Len(pipe') : i \in 1..Len(pipe) \/ i = Len(pipe) + 1
        /\ \A i \in 1..Len(pipe) : i \in 1..Len(pipe')
        /\ \A k \in 1..Len(pipe), j \in 1..Len(pipe') : j < k => j \in 1..Len(pipe)
    BY <2>3
  <2>5. WireType'
    BY <1>1, <1>2, <2>3 DEF WireType
  <2>6. \A i \in 1..Len(pipe') : pipe'[i].kind \in Kinds => i \in 1..Len(pipe) /\ pipe'[i] = pipe[i]
    BY <2>1, <2>3, <2>4 DEF Kinds
  <2>7. Owed'
    <3>1. \A i : Awaited(i)' <=> Awaited(i)
      BY <1>2 DEF Awaited
    <3>2. SUFFICES ASSUME alive, ~quarantined PROVE Owed'
      BY <1>2 DEF Owed
    <3>3. (\A i \in 1..Len(pipe) : pipe[i].kind \in Kinds => Awaited(pipe[i].id))'
      BY <1>1, <2>6, <3>1, <3>2 DEF Owed
    <3>4. /\ (\A f \in todo : Awaited(f.id))'
          /\ (\A i \in 1..Len(out) : out[i].kind = "answer" => Awaited(out[i].id))'
      BY <1>1, <1>2, <3>1, <3>2 DEF Owed
    <3>5. /\ \A i, j \in 1..Len(pipe') : (pipe'[i].kind \in Kinds /\ pipe'[j].kind \in Kinds) => i = j
          /\ \A f \in todo', i \in 1..Len(pipe') : pipe'[i].kind \notin Kinds
          /\ \A i \in 1..Len(pipe'), j \in 1..Len(out') : pipe'[i].kind \in Kinds => out'[j].kind # "answer"
      BY <1>1, <1>2, <2>6, <3>2 DEF Owed
    <3> QED
      BY <1>1, <1>2, <3>2, <3>3, <3>4, <3>5 DEF Owed
  <2>8. Aimed'
    <3>1. /\ \A f \in todo : f.kind = "prompt" => f.id \in asked
          /\ \A j \in 1..Len(pipe) : pipe[j].kind = "prompt" => pipe[j].id \in asked
      BY <1>1, <1>2, <1>3, <1>12 DEF Aimed
    <3>2. \A j \in 1..Len(pipe') : pipe'[j].kind = "prompt" => pipe'[j].id \in asked
      BY <2>6, <3>1 DEF Kinds
    <3> QED
      BY <1>1, <1>2, <1>5, <3>1, <3>2 DEF Aimed
  <2>9. AsksAreKept'
    <3>1. AskAfoot => AskAfoot'
      BY <1>2, <2>3, <2>4 DEF AskAfoot
    <3> QED
      BY <1>1, <1>2, <1>8, <3>1 DEF AsksAreKept, Usable
  <2> QED
    BY <1>6, <1>7, <1>9, <1>10, <2>5, <2>7, <2>8, <2>9 DEF AcpInv, AcpTypeOK
<1> QED
  BY <1>11, <1>12 DEF WriteCancel

-----------------------------------------------------------------------------
(* The agent, and its end.                                                 *)

\* The agent is gone: what was in its pipe is lost.
LEMMA Gone ==
    ASSUME AcpInv, alive' = FALSE, pipe' = <<>>, shut' \in {"no", "waiting", "done"},
           UNCHANGED <<registered, lock, caller, nextId, quarantined, parked, ended, active, requested,
                       stopper, writeGate, faulted, asked, todo, stopping, asking, out>>
    PROVE  AcpInv'
<1>1. /\ HostType /\ CancelType /\ WireType /\ CallerInv /\ Fence
      /\ Owed /\ Aimed /\ StopsOnlyItsTurn /\ AsksAreKept
  BY Parts
<1>2. HostType'
  BY <1>1 DEF HostType
<1>3. (CancelType /\ CallerInv /\ StopsOnlyItsTurn)'
  BY <1>1 DEF CancelType, CallerInv, StopsOnlyItsTurn
<1>4. WireType'
  <2>1. alive' \in BOOLEAN /\ pipe' \in Seq(PipeFrame)
    BY EmptyFacts
  <2> QED
    BY <1>1, <2>1 DEF WireType
<1>5. Fence'
  BY <1>1 DEF Fence
<1>6. Owed' /\ AsksAreKept'
  BY DEF Owed, AsksAreKept
<1>7. Aimed'
  <2>1. 1..Len(pipe') = {}
    BY EmptyFacts
  <2> QED
    BY <1>1, <2>1 DEF Aimed
<1> QED
  BY <1>2, <1>3, <1>4, <1>5, <1>6, <1>7 DEF AcpInv, AcpTypeOK

\* The agent is shut down, or exits.
LEMMA EndStep ==
    ASSUME AcpInv, Shutdown \/ AgentExits
    PROVE  AcpInv'
<1>1. CASE Shutdown
  BY <1>1, Gone DEF Shutdown, Dies, cancelVars, agentVars
<1>2. CASE AgentExits
  <2>1. shut' \in {"no", "waiting", "done"}
    BY <1>2, Parts DEF AgentExits, hostVars, HostType
  <2> QED
    BY <1>2, <2>1, Gone DEF AgentExits, Dies, hostVars, cancelVars, agentVars
<1> QED
  BY <1>1, <1>2

\* The handle is dropped.
LEMMA ShutdownFindStep ==
    ASSUME AcpInv, ShutdownFind
    PROVE  AcpInv'
<1>1. /\ HostType /\ CancelType /\ WireType /\ CallerInv /\ Fence
      /\ Owed /\ Aimed /\ StopsOnlyItsTurn /\ AsksAreKept
  BY Parts
<1>2. /\ registered' = FALSE /\ shut' = "waiting"
      /\ UNCHANGED <<lock, caller, nextId, quarantined, parked, ended, active, requested,
                     stopper, writeGate, faulted, asked, todo, stopping, asking, alive, pipe, out>>
  BY DEF ShutdownFind, cancelVars, agentVars, wireVars
<1>3. HostType'
  <2>1. registered' \in BOOLEAN /\ shut' \in {"no", "waiting", "done"}
    BY <1>2
  <2> QED
    BY <1>1, <1>2, <2>1 DEF HostType
<1>4. (CancelType /\ WireType /\ CallerInv /\ StopsOnlyItsTurn)'
  BY <1>1, <1>2 DEF CancelType, WireType, CallerInv, StopsOnlyItsTurn
<1>5. (Fence /\ Aimed)'
  BY <1>1, <1>2 DEF Fence, Aimed
<1>6. Owed'
  BY <1>1, <1>2, OwedKept DEF Awaited
<1>7. AsksAreKept'
  BY <1>1, <1>2 DEF AsksAreKept, AskAfoot, Usable
<1> QED
  BY <1>3, <1>4, <1>5, <1>6, <1>7 DEF AcpInv, AcpTypeOK

\* The agent reads: a cancellation stops the prompts it has read.
LEMMA AgentReadsStep ==
    ASSUME AcpInv, AgentReads
    PROVE  AcpInv'
<1>1. /\ HostType /\ CancelType /\ WireType /\ CallerInv /\ Fence
      /\ Owed /\ Aimed /\ StopsOnlyItsTurn /\ AsksAreKept
  BY Parts
<1> DEFINE e == Head(pipe)
<1>2. /\ alive /\ pipe # <<>> /\ pipe' = Tail(pipe)
      /\ todo' = IF e.kind \in Kinds THEN todo \cup {e} ELSE todo
      /\ stopping' = IF e.kind = "cancel"
                     THEN stopping \cup {g.id : g \in {h \in todo : h.kind = "prompt"}}
                     ELSE stopping
      /\ asking' = (asking /\ e.kind # "reply")
      /\ UNCHANGED <<registered, shut, lock, caller, nextId, quarantined, parked, ended, active, requested,
                     stopper, writeGate, faulted, asked, alive, out>>
  BY DEF AgentReads, hostVars, cancelVars
<1>3. /\ pipe' \in Seq(PipeFrame) /\ Len(pipe) \in Nat /\ Len(pipe) >= 1 /\ e = pipe[1] /\ e \in PipeFrame
      /\ Len(pipe') = Len(pipe) - 1
      /\ \A i \in 1..Len(pipe') : i + 1 \in 1..Len(pipe) /\ pipe'[i] = pipe[i + 1]
  BY <1>1, <1>2, TailFacts DEF WireType
<1> HIDE DEF e
<1>4. /\ 1 \in 1..Len(pipe) /\ pipe[1] = e
      /\ \A i \in 1..Len(pipe) : i = 1 \/ (i - 1 \in 1..Len(pipe') /\ pipe'[i - 1] = pipe[i])
      /\ \A i \in 1..Len(pipe') : i + 1 # 1 /\ i + 1 > 1
  BY <1>3
<1>5. (HostType /\ CancelType)'
  BY <1>1, <1>2 DEF HostType, CancelType
<1>6. (CallerInv /\ StopsOnlyItsTurn)'
  BY <1>1, <1>2 DEF CallerInv, StopsOnlyItsTurn
<1>7. Fence'
  BY <1>1, <1>2 DEF Fence
<1>8. WireType'
  <2>1. todo' \subseteq [kind : Kinds, id : Ids]
    BY <1>1, <1>2, <1>3 DEF WireType, PipeFrame
  <2>2. stopping' \subseteq Ids
    BY <1>1, <1>2 DEF WireType
  <2>3. asking' \in BOOLEAN
    BY <1>2
  <2> QED
    BY <1>1, <1>2, <1>3, <2>1, <2>2, <2>3 DEF WireType
<1>9. Owed'
  <2>1. \A i : Awaited(i)' <=> Awaited(i)
    BY <1>2 DEF Awaited
  <2>2. SUFFICES ASSUME alive, ~quarantined PROVE Owed'
    BY <1>2 DEF Owed
  <2>3. (\A f \in todo : Awaited(f.id))'
    BY <1>1, <1>2, <1>4, <2>1, <2>2 DEF Owed
  <2>4. (\A i \in 1..Len(pipe) : pipe[i].kind \in Kinds => Awaited(pipe[i].id))'
    BY <1>1, <1>3, <2>1, <2>2 DEF Owed
  <2>5. (\A i \in 1..Len(out) : out[i].kind = "answer" => Awaited(out[i].id))'
    BY <1>1, <1>2, <2>1, <2>2 DEF Owed
  <2>6. \A f, g \in todo' : f = g
    BY <1>1, <1>2, <1>4, <2>2 DEF Owed
  <2>7. \A i, j \in 1..Len(pipe') : (pipe'[i].kind \in Kinds /\ pipe'[j].kind \in Kinds) => i = j
    <3>1. ASSUME NEW i \in 1..Len(pipe'), NEW j \in 1..Len(pipe'),
                 pipe'[i].kind \in Kinds, pipe'[j].kind \in Kinds
          PROVE  i = j
      <4>1. i + 1 = j + 1
        BY <1>1, <1>3, <2>2, <3>1 DEF Owed
      <4> QED
        BY <4>1
    <3> QED
      BY <3>1
  <2>8. \A i, j \in 1..Len(out') : (out'[i].kind = "answer" /\ out'[j].kind = "answer") => i = j
    BY <1>1, <1>2, <2>2 DEF Owed
  <2>9. \A f \in todo', i \in 1..Len(pipe') : pipe'[i].kind \notin Kinds
    <3>1. ASSUME NEW f \in todo', NEW i \in 1..Len(pipe'), pipe'[i].kind \in Kinds PROVE FALSE
      <4>1. i + 1 \in 1..Len(pipe) /\ pipe[i + 1].kind \in Kinds /\ i + 1 # 1
        BY <1>3, <1>4, <3>1
      <4>2. CASE f \in todo
        BY <1>1, <2>2, <4>1, <4>2 DEF Owed
      <4>3. CASE e.kind \in Kinds
        BY <1>1, <1>4, <2>2, <4>1, <4>3 DEF Owed
      <4> QED
        BY <1>2, <3>1, <4>2, <4>3
    <3> QED
      BY <3>1
  <2>10. \A f \in todo', i \in 1..Len(out') : out'[i].kind # "answer"
    <3>1. ASSUME NEW f \in todo', NEW i \in 1..Len(out'), out'[i].kind = "answer" PROVE FALSE
      <4>1. i \in 1..Len(out) /\ out[i].kind = "answer"
        BY <1>2, <3>1
      <4>2. CASE f \in todo
        BY <1>1, <2>2, <4>1, <4>2 DEF Owed
      <4>3. CASE e.kind \in Kinds
        BY <1>1, <1>4, <2>2, <4>1, <4>3 DEF Owed
      <4> QED
        BY <1>2, <3>1, <4>2, <4>3
    <3> QED
      BY <3>1
  <2>11. \A i \in 1..Len(pipe'), j \in 1..Len(out') : pipe'[i].kind \in Kinds => out'[j].kind # "answer"
    BY <1>1, <1>2, <1>3, <2>2 DEF Owed
  <2> QED
    BY <2>3, <2>4, <2>5, <2>6, <2>7, <2>8, <2>9, <2>10, <2>11 DEF Owed
<1>10. Aimed'
  <2>1. stopping' \subseteq asked'
    <3>1. CASE e.kind = "cancel"
      BY <1>1, <1>2, <1>4, <3>1 DEF Aimed
    <3>2. CASE e.kind # "cancel"
      BY <1>1, <1>2, <3>2 DEF Aimed
    <3> QED
      BY <3>1, <3>2
  <2>2. \A i \in 1..Len(out') : (out'[i].kind = "answer" /\ out'[i].how = "cancelled") => out'[i].id \in asked'
    BY <1>1, <1>2 DEF Aimed
  <2>3. ASSUME NEW k \in 1..Len(pipe'), pipe'[k].kind = "cancel"
        PROVE  /\ \A f \in todo' : f.kind = "prompt" => f.id \in asked'
               /\ \A j \in 1..Len(pipe') : (j < k /\ pipe'[j].kind = "prompt") => pipe'[j].id \in asked'
    <3>1. k + 1 \in 1..Len(pipe) /\ pipe[k + 1].kind = "cancel" /\ 1 < k + 1
      BY <1>3, <1>4, <2>3
    <3>2. /\ \A f \in todo : f.kind = "prompt" => f.id \in asked
          /\ \A j \in 1..Len(pipe) : (j < k + 1 /\ pipe[j].kind = "prompt") => pipe[j].id \in asked
      BY <1>1, <3>1 DEF Aimed
    <3>3. e.kind = "prompt" => e.id \in asked
      BY <1>4, <3>1, <3>2
    <3>4. \A j \in 1..Len(pipe') : j < k => j + 1 < k + 1
      BY <1>3
    <3> QED
      BY <1>2, <1>3, <3>2, <3>3, <3>4
  <2>4. ASSUME NEW s \in Stoppers, stopper'[s].pc = "writing"
        PROVE  /\ \A f \in todo' : f.kind = "prompt" => f.id = stopper'[s].target
               /\ \A j \in 1..Len(pipe') : pipe'[j].kind = "prompt" => pipe'[j].id = stopper'[s].target
    <3>1. /\ \A f \in todo : f.kind = "prompt" => f.id = stopper[s].target
          /\ \A j \in 1..Len(pipe) : pipe[j].kind = "prompt" => pipe[j].id = stopper[s].target
      BY <1>1, <1>2, <2>4 DEF Aimed
    <3> QED
      BY <1>2, <1>3, <1>4, <3>1
  <2> QED
    BY <2>1, <2>2, <2>3, <2>4 DEF Aimed
<1>11. AsksAreKept'
  <2>1. ASSUME AskAfoot, e.kind # "reply" PROVE AskAfoot'
    BY <1>2, <1>4, <2>1 DEF AskAfoot
  <2>2. asking' => asking /\ e.kind # "reply"
    BY <1>2
  <2> QED
    BY <1>1, <1>2, <2>1, <2>2 DEF AsksAreKept, Usable
<1> QED
  BY <1>5, <1>6, <1>7, <1>8, <1>9, <1>10, <1>11 DEF AcpInv, AcpTypeOK

\* The agent sends a frame that answers nothing.
LEMMA Says ==
    ASSUME AcpInv, NEW e \in OutFrame, AgentSays(e), e.kind # "answer",
           UNCHANGED <<todo, stopping>>, asking' \in BOOLEAN,
           asking' => asking \/ e.kind = "ask"
    PROVE  AcpInv'
<1>1. /\ HostType /\ CancelType /\ WireType /\ CallerInv /\ Fence
      /\ Owed /\ Aimed /\ StopsOnlyItsTurn /\ AsksAreKept
  BY Parts
<1>2. /\ out' = Append(out, e)
      /\ UNCHANGED <<registered, shut, lock, caller, nextId, quarantined, parked, ended, active, requested,
                     stopper, writeGate, faulted, asked, alive, pipe>>
  BY DEF AgentSays, hostVars, cancelVars
<1>3. /\ out' \in Seq(OutFrame) /\ Len(out) \in Nat /\ Len(out') = Len(out) + 1
      /\ \A i \in 1..Len(out) : out'[i] = out[i]
      /\ out'[Len(out) + 1] = e
  BY <1>1, <1>2, AppendFacts DEF WireType
<1>4. /\ \A i \in 1..Len(out') : i \in 1..Len(out) \/ i = Len(out) + 1
      /\ \A i \in 1..Len(out) : i \in 1..Len(out')
      /\ Len(out) + 1 \in 1..Len(out')
  BY <1>3
<1>5. \A i \in 1..Len(out') : out'[i].kind = "answer" => i \in 1..Len(out) /\ out'[i] = out[i]
  BY <1>3, <1>4
<1>6. (HostType /\ CancelType)'
  BY <1>1, <1>2 DEF HostType, CancelType
<1>7. (CallerInv /\ StopsOnlyItsTurn /\ Fence)'
  BY <1>1, <1>2 DEF CallerInv, StopsOnlyItsTurn, Fence
<1>8. WireType'
  BY <1>1, <1>2, <1>3 DEF WireType
<1>9. Owed'
  <2>1. \A i : Awaited(i)' <=> Awaited(i)
    BY <1>2 DEF Awaited
  <2>2. SUFFICES ASSUME alive, ~quarantined PROVE Owed'
    BY <1>2 DEF Owed
  <2>3. /\ (\A f \in todo : Awaited(f.id))'
        /\ (\A i \in 1..Len(pipe) : pipe[i].kind \in Kinds => Awaited(pipe[i].id))'
    BY <1>1, <1>2, <2>1, <2>2 DEF Owed
  <2>4. (\A i \in 1..Len(out) : out[i].kind = "answer" => Awaited(out[i].id))'
    BY <1>1, <1>5, <2>1, <2>2 DEF Owed
  <2>5. /\ \A i, j \in 1..Len(out') : (out'[i].kind = "answer" /\ out'[j].kind = "answer") => i = j
        /\ \A f \in todo', i \in 1..Len(out') : out'[i].kind # "answer"
        /\ \A i \in 1..Len(pipe'), j \in 1..Len(out') : pipe'[i].kind \in Kinds => out'[j].kind # "answer"
    BY <1>1, <1>2, <1>5, <2>2 DEF Owed
  <2> QED
    BY <1>1, <1>2, <2>2, <2>3, <2>4, <2>5 DEF Owed
<1>10. Aimed'
  BY <1>1, <1>2, <1>5 DEF Aimed
<1>11. AsksAreKept'
  <2>1. AskAfoot \/ e.kind = "ask" => AskAfoot'
    BY <1>2, <1>3, <1>4 DEF AskAfoot
  <2> QED
    BY <1>1, <1>2, <2>1 DEF AsksAreKept, Usable
<1> QED
  BY <1>6, <1>7, <1>8, <1>9, <1>10, <1>11 DEF AcpInv, AcpTypeOK

\* The agent asks, or says something else.
LEMMA AgentSpeaksStep ==
    ASSUME AcpInv, AgentAsks \/ \E kind \in {"note", "bad"} : AgentNotes(kind)
    PROVE  AcpInv'
<1>1. CASE AgentAsks
  <2> DEFINE e == [kind |-> "ask", id |-> 0, how |-> "done"]
  <2>1. e \in OutFrame /\ e.kind = "ask"
    BY AcpConstants DEF OutFrame
  <2>2. AgentSays(e) /\ UNCHANGED <<todo, stopping>> /\ asking' = TRUE
    BY <1>1 DEF AgentAsks
  <2> HIDE DEF e
  <2>3. asking' \in BOOLEAN
    BY <2>2
  <2> QED
    BY <2>1, <2>2, <2>3, Says
<1>2. ASSUME NEW kind \in {"note", "bad"}, AgentNotes(kind) PROVE AcpInv'
  <2> DEFINE e == [kind |-> kind, id |-> 0, how |-> "done"]
  <2>1. e \in OutFrame /\ e.kind # "answer"
    BY AcpConstants DEF OutFrame
  <2>2. AgentSays(e) /\ UNCHANGED <<todo, stopping, asking>>
    BY <1>2 DEF AgentNotes, agentVars
  <2> HIDE DEF e
  <2>3. asking' \in BOOLEAN
    BY <2>2, Parts DEF WireType
  <2> QED
    BY <2>1, <2>2, <2>3, Says
<1> QED
  BY <1>1, <1>2

\* The agent answers: what was to be done is on its way back.
LEMMA AgentAnswersStep ==
    ASSUME AcpInv, NEW f \in todo, NEW how \in {"done", "cancelled"}, AgentAnswers(f, how)
    PROVE  AcpInv'
<1>1. /\ HostType /\ CancelType /\ WireType /\ CallerInv /\ Fence
      /\ Owed /\ Aimed /\ StopsOnlyItsTurn /\ AsksAreKept
  BY Parts
<1> DEFINE e == [kind |-> "answer", id |-> f.id, how |-> how]
<1>2. /\ how = "cancelled" => f.id \in stopping
      /\ todo' = todo \ {f} /\ out' = Append(out, e)
      /\ UNCHANGED <<registered, shut, lock, caller, nextId, quarantined, parked, ended, active, requested,
                     stopper, writeGate, faulted, asked, stopping, asking, alive, pipe>>
  BY DEF AgentAnswers, AgentSays, hostVars, cancelVars
<1>3. f.id \in Ids /\ f.id \in 0..MaxId
  BY <1>1, AcpConstants DEF WireType, Ids
<1>4. e \in OutFrame /\ e.kind = "answer" /\ e.id = f.id /\ e.how = how
  BY <1>3 DEF OutFrame
<1> HIDE DEF e
<1>5. /\ out' \in Seq(OutFrame) /\ Len(out) \in Nat /\ Len(out') = Len(out) + 1
      /\ \A i \in 1..Len(out) : out'[i] = out[i]
      /\ out'[Len(out) + 1] = e
  BY <1>1, <1>2, <1>4, AppendFacts DEF WireType
<1>6. /\ \A i \in 1..Len(out') : i \in 1..Len(out) \/ i = Len(out) + 1
      /\ \A i \in 1..Len(out) : i \in 1..Len(out')
  BY <1>5
<1>7. (HostType /\ CancelType)'
  BY <1>1, <1>2 DEF HostType, CancelType
<1>8. (CallerInv /\ StopsOnlyItsTurn /\ Fence)'
  BY <1>1, <1>2 DEF CallerInv, StopsOnlyItsTurn, Fence
<1>9. WireType'
  BY <1>1, <1>2, <1>5 DEF WireType
<1>10. Owed'
  <2>1. \A i : Awaited(i)' <=> Awaited(i)
    BY <1>2 DEF Awaited
  <2>2. SUFFICES ASSUME alive, ~quarantined PROVE Owed'
    BY <1>2 DEF Owed
  <2>3. /\ todo' = {} /\ Awaited(f.id)
        /\ \A i \in 1..Len(pipe') : pipe'[i].kind \notin Kinds
        /\ \A i \in 1..Len(out) : out[i].kind # "answer"
    BY <1>1, <1>2, <2>2 DEF Owed
  <2>4. \A i \in 1..Len(out') : out'[i].kind = "answer" => i = Len(out) + 1 /\ out'[i].id = f.id
    BY <1>4, <1>5, <1>6, <2>3
  <2>5. (\A i \in 1..Len(out) : out[i].kind = "answer" => Awaited(out[i].id))'
    BY <2>1, <2>3, <2>4
  <2> QED
    BY <2>3, <2>4, <2>5 DEF Owed
<1>11. Aimed'
  <2>1. how = "cancelled" => f.id \in asked
    BY <1>1, <1>2 DEF Aimed
  <2>2. \A i \in 1..Len(out') : (out'[i].kind = "answer" /\ out'[i].how = "cancelled") => out'[i].id \in asked
    BY <1>1, <1>4, <1>5, <1>6, <2>1 DEF Aimed
  <2> QED
    BY <1>1, <1>2, <2>2 DEF Aimed
<1>12. AsksAreKept'
  <2>1. AskAfoot => AskAfoot'
    BY <1>2, <1>5, <1>6 DEF AskAfoot
  <2> QED
    BY <1>1, <1>2, <2>1 DEF AsksAreKept, Usable
<1> QED
  BY <1>7, <1>8, <1>9, <1>10, <1>11, <1>12 DEF AcpInv, AcpTypeOK

-----------------------------------------------------------------------------
(* The theorems.                                                           *)

\* A fresh session.
LEMMA AcpInitInv == AcpInit => AcpInv
<1> SUFFICES ASSUME AcpInit PROVE AcpInv
  OBVIOUS
<1>1. /\ registered = TRUE /\ shut = "no" /\ lock = Nobody /\ nextId = 1 /\ active = 0
      /\ caller = [p \in Callers |-> Idle] /\ stopper = [s \in Stoppers |-> Resting]
      /\ writeGate = Nobody /\ parked = <<>> /\ pipe = <<>> /\ out = <<>>
      /\ todo = {} /\ stopping = {} /\ asked = {} /\ ended = [i \in Ids |-> "open"]
      /\ requested = FALSE /\ faulted = FALSE /\ quarantined = FALSE /\ alive = TRUE /\ asking = FALSE
  BY DEF AcpInit
<1>2. /\ registered \in BOOLEAN /\ requested \in BOOLEAN /\ faulted \in BOOLEAN
      /\ quarantined \in BOOLEAN /\ alive \in BOOLEAN /\ asking \in BOOLEAN
  BY <1>1
<1>3. \A p \in Callers : caller[p].pc = "idle" /\ caller[p].id = 0
  BY <1>1 DEF Idle
<1>4. \A s \in Stoppers : stopper[s].pc = "idle"
  BY <1>1 DEF Resting
<1>5. HostType
  <2>1. caller \in [Callers -> [pc : Free \cup Held, kind : Kinds, id : 0..MaxId]]
    BY <1>1, AcpConstants DEF Idle, Free, Held, Kinds
  <2>2. \A p \in Callers : caller[p].pc \in Held <=> lock = p
    BY <1>1, <1>3, AcpConstants DEF Held
  <2>3. nextId \in 1..(MaxId + 1)
    BY <1>1, AcpConstants
  <2>4. parked \in Seq({"ask", "note"})
    BY <1>1, EmptyFacts
  <2>5. ended \in [Ids -> {"open", "done", "cancelled", "unknown", "failed"}]
    BY <1>1
  <2> QED
    BY <1>1, <1>2, <2>1, <2>2, <2>3, <2>4, <2>5 DEF HostType
<1>6. CancelType
  <2>1. stopper \in [Stoppers -> [pc : {"idle", "found", "captured", "writing"}, target : 0..MaxId]]
    BY <1>1, AcpConstants DEF Resting
  <2>2. \A s \in Stoppers : stopper[s].pc = "writing" <=> writeGate = s
    BY <1>1, <1>4, AcpConstants
  <2>3. active \in 0..MaxId
    BY <1>1, AcpConstants
  <2> QED
    BY <1>1, <1>2, <2>1, <2>2, <2>3 DEF CancelType
<1>7. WireType
  BY <1>1, <1>2, EmptyFacts DEF WireType
<1>8. CallerInv
  BY <1>1, <1>3 DEF CallerInv, Busy, Reading
<1>9. Fence
  BY <1>1, <1>3, <1>4 DEF Fence
<1>10. 1..Len(pipe) = {} /\ 1..Len(out) = {}
  BY <1>1, EmptyFacts
<1>11. Owed
  BY <1>1, <1>10 DEF Owed
<1>12. Aimed
  BY <1>1, <1>4, <1>10 DEF Aimed
<1>13. StopsOnlyItsTurn
  BY <1>1 DEF StopsOnlyItsTurn
<1>14. AsksAreKept
  BY <1>1 DEF AsksAreKept
<1> QED
  BY <1>5, <1>6, <1>7, <1>8, <1>9, <1>11, <1>12, <1>13, <1>14 DEF AcpInv, AcpTypeOK

\* Every step keeps the invariant.
LEMMA AcpNextInv ==
    ASSUME AcpInv, [AcpNext]_acpVars
    PROVE  AcpInv'
<1>1. CASE UNCHANGED acpVars
  <2>1. UNCHANGED <<registered, shut, lock, caller, nextId, quarantined, parked, ended, active, requested,
                    stopper, writeGate, faulted, asked, todo, stopping, asking, alive, pipe, out>>
    BY <1>1 DEF acpVars, hostVars, cancelVars, agentVars, wireVars
  <2>2. /\ HostType /\ CancelType /\ WireType /\ CallerInv /\ Fence
        /\ Owed /\ Aimed /\ StopsOnlyItsTurn /\ AsksAreKept
    BY Parts
  <2>3. (HostType /\ CancelType /\ WireType)'
    BY <2>1, <2>2 DEF HostType, CancelType, WireType
  <2>4. (CallerInv /\ Fence /\ Aimed /\ StopsOnlyItsTurn)'
    BY <2>1, <2>2 DEF CallerInv, Fence, Aimed, StopsOnlyItsTurn
  <2>5. Owed'
    BY <2>1, <2>2, OwedKept DEF Awaited
  <2>6. AsksAreKept'
    BY <2>1, <2>2 DEF AsksAreKept, AskAfoot, Usable
  <2> QED
    BY <2>3, <2>4, <2>5, <2>6 DEF AcpInv, AcpTypeOK
<1>2. ASSUME NEW p \in Callers, CallerStep(p) PROVE AcpInv'
  <2>1. CASE Works(p)
    BY <2>1, ResetStep, PrepareStep, BeginTurnStep, SendRefusedStep, TopStep,
       ReadAnswerStep, ReadBadStep, ReadEndStep, ReadOtherStep DEF Works
  <2>2. CASE Writes(p)
    BY <2>2, SendStep, ReplyStep DEF Writes
  <2> QED
    BY <1>2, <2>1, <2>2, EnterStep, LockSessionStep, ExpireStep, DecideStep DEF CallerStep
<1>3. ASSUME NEW s \in Stoppers, StopperStep(s) PROVE AcpInv'
  BY <1>3, FindStep, CaptureStep, TakeWriteGateStep, WriteCancelStep DEF StopperStep
<1>4. CASE ShutdownFind \/ Shutdown \/ Agent
  BY <1>4, ShutdownFindStep, EndStep, AgentReadsStep, AgentSpeaksStep, AgentAnswersStep DEF Agent
<1> QED
  BY <1>1, <1>2, <1>3, <1>4 DEF AcpNext

\* The invariant holds in every reachable state.
LEMMA AcpInvariant == AcpSpec => []AcpInv
<1>1. AcpInit => AcpInv
  BY AcpInitInv
<1>2. AcpInv /\ [AcpNext]_acpVars => AcpInv'
  BY AcpNextInv
<1> QED
  BY <1>1, <1>2, PTL DEF AcpSpec

\* The types, and the mutual exclusion of the session's mutex and of write_gate
\* (acp_prompt, AcpCancelHandle::request).
THEOREM AcpTypeCorrect == AcpSpec => []AcpTypeOK
<1>1. AcpInv => AcpTypeOK
  BY DEF AcpInv
<1> QED
  BY <1>1, AcpInvariant, PTL

\* A turn is reported cancelled, or torn down for want of an answer to a
\* cancellation, only if a stop saw that very turn (AcpCancelHandle::request,
\* begin_turn): for any number of callers, stops and requests.
THEOREM StopIsAimed == AcpSpec => []StopsOnlyItsTurn
<1>1. AcpInv => StopsOnlyItsTurn
  BY DEF AcpInv
<1> QED
  BY <1>1, AcpInvariant, PTL

\* A usable session that nobody holds owes nothing and is owed nothing
\* (prompt_with_content, mark_quarantined).
THEOREM SessionIsClean == AcpSpec => []NothingLeftBehind
<1>1. AcpInv => NothingLeftBehind
  <2>1. SUFFICES ASSUME AcpInv, lock = Nobody, Usable, alive
                 PROVE  /\ todo = {}
                        /\ \A i \in 1..Len(pipe) : pipe[i].kind \notin Kinds
                        /\ \A i \in 1..Len(out) : out[i].kind # "answer"
    BY DEF NothingLeftBehind
  <2>2. HostType /\ Owed
    BY <2>1, Parts
  <2>3. \A i : ~Awaited(i)
    BY <2>1, <2>2, AcpConstants DEF Awaited, HostType, Reading, Held
  <2> QED
    BY <2>1, <2>2, <2>3 DEF Owed, Usable
<1> QED
  BY <1>1, AcpInvariant, PTL

\* A request of the agent is never lost while its session is good
\* (read_response_capture, preserve_values).
THEOREM AskIsServed == AcpSpec => []AsksAreKept
<1>1. AcpInv => AsksAreKept
  BY DEF AcpInv
<1> QED
  BY <1>1, AcpInvariant, PTL
=============================================================================
