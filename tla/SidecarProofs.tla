--------------------------- MODULE SidecarProofs ---------------------------
(***************************************************************************)
(* Theorems about Sidecar, for every value of its constants.               *)
(***************************************************************************)
EXTENDS Sidecar, TLAPS

(* Where things point: an open breaker has ended the supervisor, which polls a
   child there is, a relay that is built or published has a link, a turn that holds a gateway has one,
   and children to come have no reader. *)
Placed ==
    /\ sup.pc # "ended" => crashes < CircuitThreshold
    /\ sup.pc = "poll" => child \in Children
    /\ linker.pc = "building" => /\ linker.for \in Children
                                 /\ reader[linker.for] # "none"
    /\ relay # 0 => reader[relay] # "none"
    /\ \A t \in Turns : turn[t].pc = "holding" => turn[t].gw \in Children
    /\ \A c \in Children : c > child => reader[c] = "none"

(* Pipes are handed over in the order of the spawns, each once. *)
Queued ==
    /\ \A i \in 1..Len(handoff) : /\ handoff[i] <= child
                                  /\ reader[handoff[i]] = "none"
    /\ \A i, j \in 1..Len(handoff) : i < j => handoff[i] < handoff[j]

(* A reader that met the end of its stdout has a dead child. *)
EndedIsDead == \A c \in Children : reader[c] = "ended" => proc[c] # "alive"

(* Whoever calls is registered with the reader that will answer. *)
CallKept ==
    call.pc # "idle" =>
        /\ call.on \in Children
        /\ call.id \in Calls
        /\ reader[call.on] # "none"
        /\ (call.ans = "none" /\ reader[call.on] = "reading")
               => call.id \in pending[call.on]
        /\ (call.pc = "sent" /\ call.ans = "none") => reader[call.on] # "ended"

(* The inductive invariant. *)
SInv ==
    /\ SidecarTypeOK
    /\ OneChild
    /\ Placed
    /\ Queued
    /\ EndedIsDead
    /\ CallKept

---------------------------------------------------------------------------
(* The child. *)

LEMMA EmitStep ==
    ASSUME SInv, NEW c \in Children, Emit(c)
    PROVE  SInv'
<1>1. /\ SupType /\ ProcType /\ LinkType /\ RelayType /\ TurnType
      /\ OneChild /\ Placed /\ Queued /\ EndedIsDead /\ CallKept
    BY DEF SInv, SidecarTypeOK
<1>2. ProcType'
    BY <1>1, SidecarConstants
    DEF ProcType, Placed, SupType, Emit, supVars, procVars, linkVars,
        relayVars, Children, Calls, Alive, Beat, Idle
<1>3. (SupType /\ LinkType /\ RelayType /\ TurnType /\ OneChild /\ Placed /\ Queued /\ EndedIsDead /\ CallKept)'
    BY <1>1
    DEF SupType, LinkType, RelayType, TurnType, OneChild, Placed, Queued,
        EndedIsDead, CallKept, Emit, supVars, procVars, linkVars, relayVars
<1> QED
    BY <1>2, <1>3 DEF SInv, SidecarTypeOK

LEMMA AnswerStep ==
    ASSUME SInv, NEW c \in Children, NEW q \in Calls, Answer(c, q)
    PROVE  SInv'
<1>1. /\ SupType /\ ProcType /\ LinkType /\ RelayType /\ TurnType
      /\ OneChild /\ Placed /\ Queued /\ EndedIsDead /\ CallKept
    BY DEF SInv, SidecarTypeOK
<1>2. ProcType'
    <2>1. /\ out' = [out EXCEPT ![c] = Append(out[c], q)]
          /\ inbox' = [inbox EXCEPT ![c] = inbox[c] \ {q}]
          /\ UNCHANGED proc
        BY DEF Answer
    <2>2. Append(out[c], q) \in Seq(Calls \cup {Beat})
        BY <1>1 DEF ProcType
    <2>3. inbox[c] \ {q} \in SUBSET Calls
        BY <1>1 DEF ProcType
    <2> QED
        BY <2>1, <2>2, <2>3, <1>1 DEF ProcType
<1>3. (SupType /\ LinkType /\ RelayType /\ TurnType /\ OneChild /\ Placed /\ Queued /\ EndedIsDead /\ CallKept)'
    BY <1>1
    DEF SupType, LinkType, RelayType, TurnType, OneChild, Placed, Queued,
        EndedIsDead, CallKept, Answer, supVars, procVars, linkVars, relayVars
<1> QED
    BY <1>2, <1>3 DEF SInv, SidecarTypeOK

LEMMA ExitStep ==
    ASSUME SInv, NEW c \in Children, NEW how \in {"rotated", "idle", "crashed"},
           Exit(c, how)
    PROVE  SInv'
<1>1. /\ SupType /\ ProcType /\ LinkType /\ RelayType /\ TurnType
      /\ OneChild /\ Placed /\ Queued /\ EndedIsDead /\ CallKept
    BY DEF SInv, SidecarTypeOK
<1>2. ProcType'
    BY <1>1, SidecarConstants
    DEF ProcType, Placed, SupType, Exit, supVars, procVars, linkVars,
        relayVars, Children, Calls, Alive, Beat, Idle
<1>3. OneChild'
    BY <1>1, SidecarConstants
    DEF OneChild, SupType, ProcType, Placed, Exit, supVars, procVars,
        linkVars, relayVars, Children, Calls, Alive, Beat, Idle
<1>4. EndedIsDead'
    BY <1>1, SidecarConstants
    DEF EndedIsDead, SupType, ProcType, LinkType, Placed, Exit, supVars,
        procVars, linkVars, relayVars, Children, Calls, Alive, Beat, Idle
<1>5. (SupType /\ LinkType /\ RelayType /\ TurnType /\ Placed /\ Queued /\ CallKept)'
    BY <1>1
    DEF SupType, LinkType, RelayType, TurnType, Placed, Queued, CallKept,
        Exit, supVars, linkVars, relayVars
<1> QED
    BY <1>2, <1>3, <1>4, <1>5 DEF SInv, SidecarTypeOK

(* The supervisor. *)

LEMMA SpawnStep ==
    ASSUME SInv, Spawn
    PROVE  SInv'
<1>1. /\ SupType /\ ProcType /\ LinkType /\ RelayType /\ TurnType
      /\ OneChild /\ Placed /\ Queued /\ EndedIsDead /\ CallKept
    BY DEF SInv, SidecarTypeOK
<1>2. /\ sup.pc = "spawning" /\ child < MaxChild
      /\ sup' = [pc |-> "poll", state |-> "Starting"]
      /\ child' = child + 1
      /\ proc' = [proc EXCEPT ![child + 1] = "alive"]
      /\ parked' = FALSE /\ heard' = FALSE
      /\ UNCHANGED <<crashes, resume, inbox, out, linkVars, linker, relay,
                     gateway, journal, turn>>
    BY DEF Spawn, At
<1>3. child \in 0..MaxChild /\ MaxChild \in Nat /\ child + 1 \in Children
    BY <1>1, <1>2, SidecarConstants DEF SupType, Children
<1>4. \/ handoff' = handoff
      \/ handoff' = Append(handoff, child + 1)
    BY DEF Spawn
<1>5. /\ handoff' \in Seq(Children)
      /\ \A i \in 1..Len(handoff') : \/ i \in 1..Len(handoff)
                                        /\ handoff'[i] = handoff[i]
                                     \/ i = Len(handoff) + 1
                                        /\ handoff'[i] = child + 1
    <2>1. handoff \in Seq(Children)
        BY <1>1 DEF RelayType
    <2>2. CASE handoff' = handoff
        BY <2>1, <2>2
    <2>3. CASE handoff' = Append(handoff, child + 1)
        BY <2>1, <2>3, <1>3
    <2> QED
        BY <2>2, <2>3, <1>4
<1>6. SupType'
    <2>1. child + 1 \in 0..MaxChild
        BY <1>3 DEF Children
    <2> QED
        BY <2>1, <1>1, <1>2 DEF SupType
<1>7. ProcType'
    BY <1>1, SidecarConstants
    DEF ProcType, Placed, SupType, Spawn, At, supVars, procVars, linkVars,
        relayVars, Children, Calls, Alive, Beat, Idle
<1>8. RelayType'
    BY <1>1, <1>2, <1>5 DEF RelayType
<1>9. OneChild'
    BY <1>1, SidecarConstants
    DEF OneChild, SupType, ProcType, Placed, Spawn, At, supVars, procVars,
        linkVars, relayVars, Children, Calls, Alive, Beat, Idle
<1>10. Placed'
    BY <1>1, <1>2, <1>3 DEF Placed, LinkType, linkVars, Children
<1>11. Queued'
    <2>1. \A i \in 1..Len(handoff') : /\ handoff'[i] <= child'
                                      /\ reader'[handoff'[i]] = "none"
        <3> SUFFICES ASSUME NEW i \in 1..Len(handoff')
                     PROVE  /\ handoff'[i] <= child'
                            /\ reader'[handoff'[i]] = "none"
            OBVIOUS
        <3>1. CASE i \in 1..Len(handoff) /\ handoff'[i] = handoff[i]
            <4>1. handoff[i] \in Children
                BY <3>1, <1>1 DEF RelayType
            <4> QED
                BY <3>1, <4>1, <1>1, <1>2, <1>3 DEF Queued, linkVars, Children
        <3>2. CASE handoff'[i] = child + 1
            BY <3>2, <1>1, <1>2, <1>3 DEF Placed, linkVars
        <3> QED
            BY <3>1, <3>2, <1>5
    <2>2. ASSUME NEW i \in 1..Len(handoff'), NEW j \in 1..Len(handoff'), i < j
          PROVE  handoff'[i] < handoff'[j]
        <3>1. Len(handoff) \in Nat /\ Len(handoff') \in Nat
            BY <1>1, <1>5 DEF RelayType
        <3>2. i \in 1..Len(handoff) /\ handoff'[i] = handoff[i]
            <4>1. j <= Len(handoff) + 1
                BY <3>1, <1>5
            <4> QED
                BY <4>1, <3>1, <2>2, <1>5
        <3>3. handoff[i] \in Children /\ handoff[i] <= child
            BY <3>2, <1>1 DEF RelayType, Queued
        <3>4. CASE j \in 1..Len(handoff) /\ handoff'[j] = handoff[j]
            BY <3>2, <3>4, <2>2, <1>1 DEF Queued
        <3>5. CASE handoff'[j] = child + 1
            BY <3>2, <3>3, <3>5, <1>3 DEF Children
        <3> QED
            BY <3>4, <3>5, <1>5
    <2> QED
        BY <2>1, <2>2 DEF Queued
<1>12. EndedIsDead'
    BY <1>1, SidecarConstants
    DEF EndedIsDead, SupType, ProcType, LinkType, Placed, Spawn, At,
        supVars, procVars, linkVars, relayVars, Children, Calls, Alive,
        Beat, Idle
<1>13. (LinkType /\ TurnType /\ CallKept)'
    BY <1>1
    DEF LinkType, TurnType, CallKept, Spawn, linkVars
<1> QED
    BY <1>6, <1>7, <1>8, <1>9, <1>10, <1>11, <1>12, <1>13 DEF SInv, SidecarTypeOK

LEMMA SpawnFailsStep ==
    ASSUME SInv, SpawnFails
    PROVE  SInv'
<1>1. /\ SupType /\ ProcType /\ LinkType /\ RelayType /\ TurnType
      /\ OneChild /\ Placed /\ Queued /\ EndedIsDead /\ CallKept
    BY DEF SInv, SidecarTypeOK
<1>2. SupType'
    BY <1>1, SidecarConstants
    DEF SupType, Placed, SpawnFails, At, supVars, procVars, linkVars,
        relayVars, Children, Calls, Alive, Beat, Idle
<1>3. OneChild'
    BY <1>1, SidecarConstants
    DEF OneChild, SupType, ProcType, Placed, SpawnFails, At, supVars,
        procVars, linkVars, relayVars, Children, Calls, Alive, Beat, Idle
<1>4. Placed'
    BY <1>1, SidecarConstants
    DEF Placed, SupType, LinkType, RelayType, TurnType, SpawnFails, At,
        supVars, procVars, linkVars, relayVars, Children, Calls, Alive,
        Beat, Idle
<1>5. (ProcType /\ LinkType /\ RelayType /\ TurnType /\ Queued /\ EndedIsDead /\ CallKept)'
    BY <1>1
    DEF ProcType, LinkType, RelayType, TurnType, Queued, EndedIsDead,
        CallKept, SpawnFails, supVars, procVars, linkVars, relayVars
<1> QED
    BY <1>2, <1>3, <1>4, <1>5 DEF SInv, SidecarTypeOK

LEMMA StderrStep ==
    ASSUME SInv, Stderr
    PROVE  SInv'
<1>1. /\ SupType /\ ProcType /\ LinkType /\ RelayType /\ TurnType
      /\ OneChild /\ Placed /\ Queued /\ EndedIsDead /\ CallKept
    BY DEF SInv, SidecarTypeOK
<1>2. SupType'
    BY <1>1, SidecarConstants
    DEF SupType, Placed, Stderr, supVars, procVars, linkVars, relayVars,
        Children, Calls, Alive, Beat, Idle
<1>3. (ProcType /\ LinkType /\ RelayType /\ TurnType /\ OneChild /\ Placed /\ Queued /\ EndedIsDead /\ CallKept)'
    BY <1>1
    DEF ProcType, LinkType, RelayType, TurnType, OneChild, Placed, Queued,
        EndedIsDead, CallKept, Stderr, supVars, procVars, linkVars, relayVars
<1> QED
    BY <1>2, <1>3 DEF SInv, SidecarTypeOK

LEMMA PromoteStep ==
    ASSUME SInv, Promote
    PROVE  SInv'
<1>1. /\ SupType /\ ProcType /\ LinkType /\ RelayType /\ TurnType
      /\ OneChild /\ Placed /\ Queued /\ EndedIsDead /\ CallKept
    BY DEF SInv, SidecarTypeOK
<1>2. SupType'
    BY <1>1, SidecarConstants
    DEF SupType, Placed, Promote, At, supVars, procVars, linkVars,
        relayVars, Children, Calls, Alive, Beat, Idle
<1>3. OneChild'
    BY <1>1, SidecarConstants
    DEF OneChild, SupType, ProcType, Placed, Promote, At, supVars, procVars,
        linkVars, relayVars, Children, Calls, Alive, Beat, Idle
<1>4. Placed'
    BY <1>1, SidecarConstants
    DEF Placed, SupType, LinkType, RelayType, TurnType, Promote, At,
        supVars, procVars, linkVars, relayVars, Children, Calls, Alive,
        Beat, Idle
<1>5. (ProcType /\ LinkType /\ RelayType /\ TurnType /\ Queued /\ EndedIsDead /\ CallKept)'
    BY <1>1
    DEF ProcType, LinkType, RelayType, TurnType, Queued, EndedIsDead,
        CallKept, Promote, supVars, procVars, linkVars, relayVars
<1> QED
    BY <1>2, <1>3, <1>4, <1>5 DEF SInv, SidecarTypeOK

LEMMA WatchdogStep ==
    ASSUME SInv, Watchdog
    PROVE  SInv'
<1>1. /\ SupType /\ ProcType /\ LinkType /\ RelayType /\ TurnType
      /\ OneChild /\ Placed /\ Queued /\ EndedIsDead /\ CallKept
    BY DEF SInv, SidecarTypeOK
<1>2. /\ crashes' \in 0..CircuitThreshold
      /\ \/ sup' = [pc |-> "ended", state |-> "CircuitOpen"]
         \/ /\ sup' = [pc |-> "spawning", state |-> "Restarting"]
            /\ crashes' < CircuitThreshold
      /\ sup.pc = "poll"
      /\ UNCHANGED <<child, parked, resume, heard, linker, reader, relay, turn>>
    <2>3. /\ sup.pc = "poll"
          /\ UNCHANGED <<child, parked, resume, heard, linker, reader, relay, turn>>
        BY DEF Watchdog, linkVars, relayVars
    <2>1. PICK k \in 0..crashes :
              /\ crashes' = k + 1
              /\ IF k + 1 >= CircuitThreshold
                 THEN sup' = [pc |-> "ended", state |-> "CircuitOpen"]
                 ELSE sup' = [pc |-> "spawning", state |-> "Restarting"]
        BY DEF Watchdog, RecordCrash, At
    <2>2. crashes < CircuitThreshold
        BY <1>1 DEF Placed, Watchdog
    <2> QED
        BY <2>1, <2>2, <2>3, <1>1, SidecarConstants DEF SupType
<1>3. SupType'
    BY <1>1, <1>2 DEF SupType
<1>4. ProcType'
    BY <1>1, SidecarConstants
    DEF ProcType, Placed, SupType, Watchdog, supVars, procVars, linkVars,
        relayVars, Children, Calls, Alive, Beat, Idle
<1>5. OneChild'
    BY <1>1, SidecarConstants
    DEF OneChild, SupType, ProcType, Placed, Watchdog, supVars, procVars,
        linkVars, relayVars, Children, Calls, Alive, Beat, Idle
<1>6. Placed'
    BY <1>1, <1>2 DEF Placed
<1>7. EndedIsDead'
    BY <1>1, SidecarConstants
    DEF EndedIsDead, SupType, ProcType, LinkType, Placed, Watchdog, supVars,
        procVars, linkVars, relayVars, Children, Calls, Alive, Beat, Idle
<1>8. (LinkType /\ RelayType /\ TurnType /\ Queued /\ CallKept)'
    BY <1>1
    DEF LinkType, RelayType, TurnType, Queued, CallKept, Watchdog, supVars,
        linkVars, relayVars
<1> QED
    BY <1>3, <1>4, <1>5, <1>6, <1>7, <1>8 DEF SInv, SidecarTypeOK

LEMMA CrashedStep ==
    ASSUME SInv, Crashed
    PROVE  SInv'
<1>1. /\ SupType /\ ProcType /\ LinkType /\ RelayType /\ TurnType
      /\ OneChild /\ Placed /\ Queued /\ EndedIsDead /\ CallKept
    BY DEF SInv, SidecarTypeOK
<1>2. /\ crashes' \in 0..CircuitThreshold
      /\ \/ sup' = [pc |-> "ended", state |-> "CircuitOpen"]
         \/ /\ sup' = [pc |-> "spawning", state |-> "Restarting"]
            /\ crashes' < CircuitThreshold
      /\ sup.pc = "poll"
      /\ UNCHANGED <<child, parked, resume, heard, linker, reader, relay, turn>>
    <2>3. /\ sup.pc = "poll"
          /\ UNCHANGED <<child, parked, resume, heard, linker, reader, relay, turn>>
        BY DEF Crashed, linkVars, relayVars
    <2>1. PICK k \in 0..crashes :
              /\ crashes' = k + 1
              /\ IF k + 1 >= CircuitThreshold
                 THEN sup' = [pc |-> "ended", state |-> "CircuitOpen"]
                 ELSE sup' = [pc |-> "spawning", state |-> "Restarting"]
        BY DEF Crashed, RecordCrash, At
    <2>2. crashes < CircuitThreshold
        BY <1>1 DEF Placed, Crashed
    <2> QED
        BY <2>1, <2>2, <2>3, <1>1, SidecarConstants DEF SupType
<1>3. SupType'
    BY <1>1, <1>2 DEF SupType
<1>4. OneChild'
    BY <1>1, SidecarConstants
    DEF OneChild, SupType, ProcType, Placed, Crashed, supVars, procVars,
        linkVars, relayVars, Children, Calls, Alive, Beat, Idle
<1>5. Placed'
    BY <1>1, <1>2 DEF Placed
<1>6. (ProcType /\ LinkType /\ RelayType /\ TurnType /\ Queued /\ EndedIsDead /\ CallKept)'
    BY <1>1
    DEF ProcType, LinkType, RelayType, TurnType, Queued, EndedIsDead,
        CallKept, Crashed, supVars, procVars, linkVars, relayVars
<1> QED
    BY <1>3, <1>4, <1>5, <1>6 DEF SInv, SidecarTypeOK

LEMMA RotateStep ==
    ASSUME SInv, Rotate
    PROVE  SInv'
<1>1. /\ SupType /\ ProcType /\ LinkType /\ RelayType /\ TurnType
      /\ OneChild /\ Placed /\ Queued /\ EndedIsDead /\ CallKept
    BY DEF SInv, SidecarTypeOK
<1>2. SupType'
    BY <1>1, SidecarConstants
    DEF SupType, Placed, Rotate, At, supVars, procVars, linkVars, relayVars,
        Children, Calls, Alive, Beat, Idle
<1>3. OneChild'
    BY <1>1, SidecarConstants
    DEF OneChild, SupType, ProcType, Placed, Rotate, At, supVars, procVars,
        linkVars, relayVars, Children, Calls, Alive, Beat, Idle
<1>4. Placed'
    BY <1>1, SidecarConstants
    DEF Placed, SupType, LinkType, RelayType, TurnType, Rotate, At, supVars,
        procVars, linkVars, relayVars, Children, Calls, Alive, Beat, Idle
<1>5. (ProcType /\ LinkType /\ RelayType /\ TurnType /\ Queued /\ EndedIsDead /\ CallKept)'
    BY <1>1
    DEF ProcType, LinkType, RelayType, TurnType, Queued, EndedIsDead,
        CallKept, Rotate, supVars, procVars, linkVars, relayVars
<1> QED
    BY <1>2, <1>3, <1>4, <1>5 DEF SInv, SidecarTypeOK

LEMMA ParkStep ==
    ASSUME SInv, Park
    PROVE  SInv'
<1>1. /\ SupType /\ ProcType /\ LinkType /\ RelayType /\ TurnType
      /\ OneChild /\ Placed /\ Queued /\ EndedIsDead /\ CallKept
    BY DEF SInv, SidecarTypeOK
<1>2. SupType'
    BY <1>1, SidecarConstants
    DEF SupType, Placed, Park, At, supVars, procVars, linkVars, relayVars,
        Children, Calls, Alive, Beat, Idle
<1>3. OneChild'
    BY <1>1, SidecarConstants
    DEF OneChild, SupType, ProcType, Placed, Park, At, supVars, procVars,
        linkVars, relayVars, Children, Calls, Alive, Beat, Idle
<1>4. Placed'
    BY <1>1, SidecarConstants
    DEF Placed, SupType, LinkType, RelayType, TurnType, Park, At, supVars,
        procVars, linkVars, relayVars, Children, Calls, Alive, Beat, Idle
<1>5. (ProcType /\ LinkType /\ RelayType /\ TurnType /\ Queued /\ EndedIsDead /\ CallKept)'
    BY <1>1
    DEF ProcType, LinkType, RelayType, TurnType, Queued, EndedIsDead,
        CallKept, Park, supVars, procVars, linkVars, relayVars
<1> QED
    BY <1>2, <1>3, <1>4, <1>5 DEF SInv, SidecarTypeOK

LEMMA ResumeStep ==
    ASSUME SInv, Resume
    PROVE  SInv'
<1>1. /\ SupType /\ ProcType /\ LinkType /\ RelayType /\ TurnType
      /\ OneChild /\ Placed /\ Queued /\ EndedIsDead /\ CallKept
    BY DEF SInv, SidecarTypeOK
<1>2. SupType'
    BY <1>1, SidecarConstants
    DEF SupType, Placed, Resume, At, supVars, procVars, linkVars, relayVars,
        Children, Calls, Alive, Beat, Idle
<1>3. OneChild'
    BY <1>1, SidecarConstants
    DEF OneChild, SupType, ProcType, Placed, Resume, At, supVars, procVars,
        linkVars, relayVars, Children, Calls, Alive, Beat, Idle
<1>4. Placed'
    BY <1>1, SidecarConstants
    DEF Placed, SupType, LinkType, RelayType, TurnType, Resume, At, supVars,
        procVars, linkVars, relayVars, Children, Calls, Alive, Beat, Idle
<1>5. (ProcType /\ LinkType /\ RelayType /\ TurnType /\ Queued /\ EndedIsDead /\ CallKept)'
    BY <1>1
    DEF ProcType, LinkType, RelayType, TurnType, Queued, EndedIsDead,
        CallKept, Resume, supVars, procVars, linkVars, relayVars
<1> QED
    BY <1>2, <1>3, <1>4, <1>5 DEF SInv, SidecarTypeOK

(* The link. *)

LEMMA DecodeStep ==
    ASSUME SInv, NEW c \in Children, Decode(c)
    PROVE  SInv'
<1>1. /\ SupType /\ ProcType /\ LinkType /\ RelayType /\ TurnType
      /\ OneChild /\ Placed /\ Queued /\ EndedIsDead /\ CallKept
    BY DEF SInv, SidecarTypeOK
<1>2. SupType'
    BY <1>1, SidecarConstants
    DEF SupType, Placed, Decode, supVars, procVars, linkVars, relayVars,
        Children, Calls, Alive, Beat, Idle
<1>3. ProcType'
    BY <1>1, SidecarConstants
    DEF ProcType, Placed, SupType, Decode, supVars, procVars, linkVars,
        relayVars, Children, Calls, Alive, Beat, Idle
<1>4. LinkType'
    BY <1>1, SidecarConstants
    DEF LinkType, Placed, RelayType, Decode, supVars, procVars, linkVars,
        relayVars, Children, Calls, Alive, Beat, Idle
<1>5. CallKept'
    BY <1>1, SidecarConstants
    DEF CallKept, SupType, ProcType, LinkType, RelayType, Placed, Queued,
        EndedIsDead, Decode, supVars, procVars, linkVars, relayVars,
        Children, Calls, Alive, Beat, Idle
<1>6. (RelayType /\ TurnType /\ OneChild /\ Placed /\ Queued /\ EndedIsDead)'
    BY <1>1
    DEF RelayType, TurnType, OneChild, Placed, Queued, EndedIsDead, Decode,
        supVars, procVars, linkVars, relayVars
<1> QED
    BY <1>2, <1>3, <1>4, <1>5, <1>6 DEF SInv, SidecarTypeOK

LEMMA EofStep ==
    ASSUME SInv, NEW c \in Children, Eof(c)
    PROVE  SInv'
<1>1. /\ SupType /\ ProcType /\ LinkType /\ RelayType /\ TurnType
      /\ OneChild /\ Placed /\ Queued /\ EndedIsDead /\ CallKept
    BY DEF SInv, SidecarTypeOK
<1>2. LinkType'
    BY <1>1, SidecarConstants
    DEF LinkType, Placed, RelayType, Eof, Drained, supVars, procVars,
        linkVars, relayVars, Children, Calls, Alive, Beat, Idle
<1>3. Placed'
    BY <1>1, SidecarConstants
    DEF Placed, SupType, LinkType, RelayType, TurnType, Eof, Drained,
        supVars, procVars, linkVars, relayVars, Children, Calls, Alive,
        Beat, Idle
<1>4. Queued'
    <2> SUFFICES ASSUME NEW i \in 1..Len(handoff)
                 PROVE  reader'[handoff[i]] = "none"
        BY <1>1 DEF Queued, Eof, Drained, supVars, relayVars
    <2>1. handoff[i] \in Children /\ reader[handoff[i]] = "none"
        BY <1>1 DEF Queued, RelayType
    <2> QED
        BY <2>1, <1>1 DEF LinkType, Eof
<1>5. EndedIsDead'
    BY <1>1, SidecarConstants
    DEF EndedIsDead, SupType, ProcType, LinkType, Placed, Eof, Drained,
        supVars, procVars, linkVars, relayVars, Children, Calls, Alive,
        Beat, Idle
<1>6. CallKept'
    BY <1>1, SidecarConstants
    DEF CallKept, SupType, ProcType, LinkType, RelayType, Placed, Queued,
        EndedIsDead, Eof, Drained, supVars, procVars, linkVars, relayVars,
        Children, Calls, Alive, Beat, Idle
<1>7. (SupType /\ ProcType /\ RelayType /\ TurnType /\ OneChild)'
    BY <1>1
    DEF SupType, ProcType, RelayType, TurnType, OneChild, Eof, Drained,
        supVars, procVars, relayVars
<1> QED
    BY <1>2, <1>3, <1>4, <1>5, <1>6, <1>7 DEF SInv, SidecarTypeOK

LEMMA BadFrameStep ==
    ASSUME SInv, NEW c \in Children, BadFrame(c)
    PROVE  SInv'
<1>1. /\ SupType /\ ProcType /\ LinkType /\ RelayType /\ TurnType
      /\ OneChild /\ Placed /\ Queued /\ EndedIsDead /\ CallKept
    BY DEF SInv, SidecarTypeOK
<1>2. LinkType'
    BY <1>1, SidecarConstants
    DEF LinkType, Placed, RelayType, BadFrame, Drained, supVars, procVars,
        linkVars, relayVars, Children, Calls, Alive, Beat, Idle
<1>3. Placed'
    BY <1>1, SidecarConstants
    DEF Placed, SupType, LinkType, RelayType, TurnType, BadFrame, Drained,
        supVars, procVars, linkVars, relayVars, Children, Calls, Alive,
        Beat, Idle
<1>4. Queued'
    <2> SUFFICES ASSUME NEW i \in 1..Len(handoff)
                 PROVE  reader'[handoff[i]] = "none"
        BY <1>1 DEF Queued, BadFrame, Drained, supVars, relayVars
    <2>1. handoff[i] \in Children /\ reader[handoff[i]] = "none"
        BY <1>1 DEF Queued, RelayType
    <2> QED
        BY <2>1, <1>1 DEF LinkType, BadFrame
<1>5. EndedIsDead'
    BY <1>1, SidecarConstants
    DEF EndedIsDead, SupType, ProcType, LinkType, Placed, BadFrame, Drained,
        supVars, procVars, linkVars, relayVars, Children, Calls, Alive,
        Beat, Idle
<1>6. CallKept'
    BY <1>1, SidecarConstants
    DEF CallKept, SupType, ProcType, LinkType, RelayType, Placed, Queued,
        EndedIsDead, BadFrame, Drained, supVars, procVars, linkVars,
        relayVars, Children, Calls, Alive, Beat, Idle
<1>7. (SupType /\ ProcType /\ RelayType /\ TurnType /\ OneChild)'
    BY <1>1
    DEF SupType, ProcType, RelayType, TurnType, OneChild, BadFrame, Drained,
        supVars, procVars, relayVars
<1> QED
    BY <1>2, <1>3, <1>4, <1>5, <1>6, <1>7 DEF SInv, SidecarTypeOK

LEMMA RegisterStep ==
    ASSUME SInv, Register
    PROVE  SInv'
<1>1. /\ SupType /\ ProcType /\ LinkType /\ RelayType /\ TurnType
      /\ OneChild /\ Placed /\ Queued /\ EndedIsDead /\ CallKept
    BY DEF SInv, SidecarTypeOK
<1>2. LinkType'
    BY <1>1, SidecarConstants
    DEF LinkType, Placed, RelayType, Register, RelayFree, supVars, procVars,
        linkVars, relayVars, Children, Calls, Alive, Beat, Idle
<1>3. CallKept'
    BY <1>1, SidecarConstants
    DEF CallKept, SupType, ProcType, LinkType, RelayType, Placed, Queued,
        EndedIsDead, Register, RelayFree, supVars, procVars, linkVars,
        relayVars, Children, Calls, Alive, Beat, Idle
<1>4. (SupType /\ ProcType /\ RelayType /\ TurnType /\ OneChild /\ Placed /\ Queued /\ EndedIsDead)'
    BY <1>1
    DEF SupType, ProcType, RelayType, TurnType, OneChild, Placed, Queued,
        EndedIsDead, Register, supVars, procVars, linkVars, relayVars
<1> QED
    BY <1>2, <1>3, <1>4 DEF SInv, SidecarTypeOK

LEMMA WriteStep ==
    ASSUME SInv, Write
    PROVE  SInv'
<1>1. /\ SupType /\ ProcType /\ LinkType /\ RelayType /\ TurnType
      /\ OneChild /\ Placed /\ Queued /\ EndedIsDead /\ CallKept
    BY DEF SInv, SidecarTypeOK
<1>2. ProcType'
    <2>1. call.on \in Children /\ call.id \in Calls
        BY <1>1 DEF CallKept, Write
    <2>2. inbox[call.on] \cup {call.id} \in SUBSET Calls
        BY <2>1, <1>1 DEF ProcType
    <2>3. /\ \/ inbox' = [inbox EXCEPT ![call.on] = inbox[call.on] \cup {call.id}]
             \/ inbox' = inbox
          /\ UNCHANGED <<proc, out>>
        BY DEF Write
    <2> QED
        BY <2>2, <2>3, <1>1 DEF ProcType
<1>3. LinkType'
    <2>1. /\ call' = [call EXCEPT !.pc = "sent"] \/ call' = Idle
          /\ UNCHANGED <<reader, pending, calls>>
        BY DEF Write
    <2> QED
        BY <2>1, <1>1, SidecarConstants DEF LinkType, Idle
<1>4. CallKept'
    <2>1. UNCHANGED <<reader, pending>>
        BY DEF Write
    <2>2. CASE call' = Idle
        BY <2>2 DEF CallKept, Idle
    <2>3. CASE Alive(call.on) /\ call' = [call EXCEPT !.pc = "sent"]
        <3>1. /\ call'.pc = "sent" /\ call'.on = call.on
              /\ call'.id = call.id /\ call'.ans = call.ans
            BY <2>3, <1>1 DEF LinkType
        <3>2. reader[call.on] # "ended"
            BY <2>3, <1>1 DEF EndedIsDead, Alive
        <3>3. call.pc # "idle"
            BY DEF Write
        <3> QED
            BY <2>1, <3>1, <3>2, <3>3, <1>1 DEF CallKept
    <2> QED
        BY <2>2, <2>3 DEF Write
<1>5. (SupType /\ RelayType /\ TurnType /\ OneChild /\ Placed /\ Queued /\ EndedIsDead)'
    BY <1>1
    DEF SupType, RelayType, TurnType, OneChild, Placed, Queued, EndedIsDead,
        Write, supVars, procVars, linkVars, relayVars
<1> QED
    BY <1>2, <1>3, <1>4, <1>5 DEF SInv, SidecarTypeOK

LEMMA ReturnStep ==
    ASSUME SInv, Return
    PROVE  SInv'
<1>1. /\ SupType /\ ProcType /\ LinkType /\ RelayType /\ TurnType
      /\ OneChild /\ Placed /\ Queued /\ EndedIsDead /\ CallKept
    BY DEF SInv, SidecarTypeOK
<1>2. LinkType'
    BY <1>1, SidecarConstants
    DEF LinkType, Placed, RelayType, Return, supVars, procVars, linkVars,
        relayVars, Children, Calls, Alive, Beat, Idle
<1>3. CallKept'
    BY <1>1, SidecarConstants
    DEF CallKept, SupType, ProcType, LinkType, RelayType, Placed, Queued,
        EndedIsDead, Return, supVars, procVars, linkVars, relayVars,
        Children, Calls, Alive, Beat, Idle
<1>4. (SupType /\ ProcType /\ RelayType /\ TurnType /\ OneChild /\ Placed /\ Queued /\ EndedIsDead)'
    BY <1>1
    DEF SupType, ProcType, RelayType, TurnType, OneChild, Placed, Queued,
        EndedIsDead, Return, supVars, procVars, linkVars, relayVars
<1> QED
    BY <1>2, <1>3, <1>4 DEF SInv, SidecarTypeOK

(* The relay. *)

LEMMA ConnectStep ==
    ASSUME SInv, Connect
    PROVE  SInv'
<1>1. /\ SupType /\ ProcType /\ LinkType /\ RelayType /\ TurnType
      /\ OneChild /\ Placed /\ Queued /\ EndedIsDead /\ CallKept
    BY DEF SInv, SidecarTypeOK
<1>2. /\ handoff # <<>>
      /\ reader' = [reader EXCEPT ![Head(handoff)] = "reading"]
      /\ \/ /\ gateway' = [gateway EXCEPT ![Head(handoff)] = Last(journal) + 1]
            /\ linker' = [pc |-> "building", for |-> Head(handoff)]
         \/ /\ linker' = [pc |-> "ended", for |-> 0]
            /\ UNCHANGED gateway
      /\ handoff' = Tail(handoff)
      /\ UNCHANGED <<sup, crashes, child, parked, resume, proc, inbox, out,
                     heard, pending, call, calls, relay, journal, turn>>
    BY DEF Connect, supVars, procVars
<1>3. /\ Head(handoff) \in Children /\ Head(handoff) = handoff[1]
      /\ 1 \in 1..Len(handoff)
      /\ reader[Head(handoff)] = "none"
    <2>1. /\ Head(handoff) \in Children /\ Head(handoff) = handoff[1]
          /\ 1 \in 1..Len(handoff)
        BY <1>1, <1>2 DEF RelayType
    <2> QED
        BY <2>1, <1>1 DEF Queued
<1>4. Tail(handoff) \in Seq(Children)
    BY <1>1, <1>2 DEF RelayType
<1>5. LinkType'
    BY <1>1, <1>2, <1>3 DEF LinkType
<1>6. RelayType'
    <2>1. Last(journal) \in Nat
        <3>1. CASE journal = <<>>
            BY <3>1 DEF Last
        <3>2. CASE journal # <<>>
            <4>1. journal \in Seq(Nat) /\ Len(journal) \in 1..Len(journal)
                BY <3>2, <1>1 DEF RelayType
            <4> QED
                BY <3>2, <4>1 DEF Last
        <3> QED
            BY <3>1, <3>2
    <2>2. Head(handoff) \in 0..MaxChild
        BY <1>3, SidecarConstants DEF Children
    <2>3. linker' \in [pc : {"recv", "building", "ended"}, for : 0..MaxChild]
        BY <2>2, <1>2, SidecarConstants
    <2>5. gateway \in [Children -> Nat] /\ Last(journal) + 1 \in Nat
        BY <2>1, <1>1 DEF RelayType
    <2>4. gateway' \in [Children -> Nat]
        BY <2>5, <1>2
    <2> QED
        BY <2>3, <2>4, <1>1, <1>2, <1>4 DEF RelayType
<1>7. Placed'
    <2>1. \A d \in Children : d > child => reader'[d] = "none"
        <3>1. Head(handoff) <= child
            BY <1>1, <1>3 DEF Queued
        <3> QED
            BY <3>1, <1>1, <1>2, <1>3, SidecarConstants
            DEF Placed, LinkType, SupType, Children
    <2>2. \A d \in Children : reader[d] # "none" => reader'[d] # "none"
        BY <1>1, <1>2 DEF LinkType
    <2>3. relay' # 0 => reader'[relay'] # "none"
        BY <2>2, <1>1, <1>2, SidecarConstants DEF Placed, RelayType, Children
    <2>4. linker'.pc = "building" => /\ linker'.for \in Children
                                     /\ reader'[linker'.for] # "none"
        BY <1>1, <1>2, <1>3 DEF LinkType
    <2> QED
        BY <2>1, <2>3, <2>4, <1>1, <1>2 DEF Placed
<1>8. Queued'
    <2>1. Len(handoff') = Len(handoff) - 1 /\ Len(handoff) \in Nat
        BY <1>1, <1>2 DEF RelayType
    <2>2. ASSUME NEW i \in 1..Len(handoff')
          PROVE  /\ i + 1 \in 1..Len(handoff)
                 /\ handoff'[i] = handoff[i + 1]
                 /\ handoff[i + 1] \in Children
                 /\ handoff[i + 1] <= child
                 /\ reader[handoff[i + 1]] = "none"
                 /\ handoff[1] < handoff[i + 1]
        <3>1. i + 1 \in 1..Len(handoff) /\ 1 \in 1..Len(handoff) /\ 1 < i + 1
            BY <2>1
        <3>2. handoff'[i] = handoff[i + 1]
            BY <3>1, <1>1, <1>2 DEF RelayType
        <3> QED
            BY <3>1, <3>2, <1>1 DEF RelayType, Queued
    <2>3. \A i \in 1..Len(handoff') : /\ handoff'[i] <= child'
                                      /\ reader'[handoff'[i]] = "none"
        <3> SUFFICES ASSUME NEW i \in 1..Len(handoff')
                     PROVE  /\ handoff'[i] <= child'
                            /\ reader'[handoff'[i]] = "none"
            OBVIOUS
        <3>1. handoff[i + 1] # Head(handoff)
            BY <2>2, <1>3, SidecarConstants DEF Children
        <3> QED
            BY <3>1, <2>2, <1>1, <1>2 DEF LinkType
    <2>4. ASSUME NEW i \in 1..Len(handoff'), NEW j \in 1..Len(handoff'), i < j
          PROVE  handoff'[i] < handoff'[j]
        <3>1. i + 1 < j + 1
            BY <2>1, <2>4
        <3>2. /\ i + 1 \in 1..Len(handoff) /\ handoff'[i] = handoff[i + 1]
              /\ j + 1 \in 1..Len(handoff) /\ handoff'[j] = handoff[j + 1]
            BY <2>2
        <3> QED
            BY <3>1, <3>2, <1>1 DEF Queued
    <2> QED
        BY <2>3, <2>4 DEF Queued
<1>9. EndedIsDead'
    BY <1>1, <1>2 DEF EndedIsDead, LinkType
<1>10. CallKept'
    <2> SUFFICES ASSUME call.pc # "idle"
                 PROVE  reader'[call.on] = reader[call.on]
        BY <1>1, <1>2 DEF CallKept
    <2>1. call.on # Head(handoff) /\ call.on \in Children
        BY <1>1, <1>3 DEF CallKept
    <2> QED
        BY <2>1, <1>1, <1>2 DEF LinkType
<1>11. (SupType /\ ProcType /\ TurnType /\ OneChild)'
    BY <1>1
    DEF SupType, ProcType, TurnType, OneChild, Connect, supVars, procVars
<1> QED
    BY <1>5, <1>6, <1>7, <1>8, <1>9, <1>10, <1>11 DEF SInv, SidecarTypeOK

LEMMA PublishStep ==
    ASSUME SInv, Publish
    PROVE  SInv'
<1>1. /\ SupType /\ ProcType /\ LinkType /\ RelayType /\ TurnType
      /\ OneChild /\ Placed /\ Queued /\ EndedIsDead /\ CallKept
    BY DEF SInv, SidecarTypeOK
<1>2. RelayType'
    BY <1>1, SidecarConstants
    DEF RelayType, Placed, SupType, TurnType, Publish, RelayFree, supVars,
        procVars, linkVars, relayVars, Children, Calls, Alive, Beat, Idle
<1>3. Placed'
    BY <1>1, SidecarConstants
    DEF Placed, SupType, LinkType, RelayType, TurnType, Publish, RelayFree,
        supVars, procVars, linkVars, relayVars, Children, Calls, Alive,
        Beat, Idle
<1>4. (SupType /\ ProcType /\ LinkType /\ TurnType /\ OneChild /\ Queued /\ EndedIsDead /\ CallKept)'
    BY <1>1
    DEF SupType, ProcType, LinkType, TurnType, OneChild, Queued,
        EndedIsDead, CallKept, Publish, supVars, procVars, linkVars,
        relayVars
<1> QED
    BY <1>2, <1>3, <1>4 DEF SInv, SidecarTypeOK

(* The command threads. *)

LEMMA CheckStep ==
    ASSUME SInv, NEW t \in Turns, Check(t)
    PROVE  SInv'
<1>1. /\ SupType /\ ProcType /\ LinkType /\ RelayType /\ TurnType
      /\ OneChild /\ Placed /\ Queued /\ EndedIsDead /\ CallKept
    BY DEF SInv, SidecarTypeOK
<1>2. TurnType'
    BY <1>1, SidecarConstants
    DEF TurnType, RelayType, Check, Goto, supVars, procVars, linkVars,
        relayVars, Children, Calls, Alive, Beat, Idle
<1>3. Placed'
    BY <1>1, SidecarConstants
    DEF Placed, SupType, LinkType, RelayType, TurnType, Check, Goto,
        supVars, procVars, linkVars, relayVars, Children, Calls, Alive,
        Beat, Idle
<1>4. (SupType /\ ProcType /\ LinkType /\ RelayType /\ OneChild /\ Queued /\ EndedIsDead /\ CallKept)'
    BY <1>1
    DEF SupType, ProcType, LinkType, RelayType, OneChild, Queued,
        EndedIsDead, CallKept, Check, supVars, procVars, linkVars, relayVars
<1> QED
    BY <1>2, <1>3, <1>4 DEF SInv, SidecarTypeOK

LEMMA WakeStep ==
    ASSUME SInv, NEW t \in Turns, Wake(t)
    PROVE  SInv'
<1>1. /\ SupType /\ ProcType /\ LinkType /\ RelayType /\ TurnType
      /\ OneChild /\ Placed /\ Queued /\ EndedIsDead /\ CallKept
    BY DEF SInv, SidecarTypeOK
<1>2. SupType'
    BY <1>1, SidecarConstants
    DEF SupType, Placed, Wake, Goto, supVars, procVars, linkVars, relayVars,
        Children, Calls, Alive, Beat, Idle
<1>3. TurnType'
    BY <1>1, SidecarConstants
    DEF TurnType, RelayType, Wake, Goto, supVars, procVars, linkVars,
        relayVars, Children, Calls, Alive, Beat, Idle
<1>4. Placed'
    BY <1>1, SidecarConstants
    DEF Placed, SupType, LinkType, RelayType, TurnType, Wake, Goto, supVars,
        procVars, linkVars, relayVars, Children, Calls, Alive, Beat, Idle
<1>5. (ProcType /\ LinkType /\ RelayType /\ OneChild /\ Queued /\ EndedIsDead /\ CallKept)'
    BY <1>1
    DEF ProcType, LinkType, RelayType, OneChild, Queued, EndedIsDead,
        CallKept, Wake, supVars, procVars, linkVars, relayVars
<1> QED
    BY <1>2, <1>3, <1>4, <1>5 DEF SInv, SidecarTypeOK

LEMMA FinishStep ==
    ASSUME SInv, NEW t \in Turns, Finish(t)
    PROVE  SInv'
<1>1. /\ SupType /\ ProcType /\ LinkType /\ RelayType /\ TurnType
      /\ OneChild /\ Placed /\ Queued /\ EndedIsDead /\ CallKept
    BY DEF SInv, SidecarTypeOK
<1>2. TurnType'
    BY <1>1, SidecarConstants
    DEF TurnType, RelayType, Finish, Goto, supVars, procVars, linkVars,
        relayVars, Children, Calls, Alive, Beat, Idle
<1>3. Placed'
    BY <1>1, SidecarConstants
    DEF Placed, SupType, LinkType, RelayType, TurnType, Finish, Goto,
        supVars, procVars, linkVars, relayVars, Children, Calls, Alive,
        Beat, Idle
<1>4. (SupType /\ ProcType /\ LinkType /\ RelayType /\ OneChild /\ Queued /\ EndedIsDead /\ CallKept)'
    BY <1>1
    DEF SupType, ProcType, LinkType, RelayType, OneChild, Queued,
        EndedIsDead, CallKept, Finish, supVars, procVars, linkVars, relayVars
<1> QED
    BY <1>2, <1>3, <1>4 DEF SInv, SidecarTypeOK

LEMMA TakeGatewayStep ==
    ASSUME SInv, NEW t \in Turns, TakeGateway(t)
    PROVE  SInv'
<1>1. /\ SupType /\ ProcType /\ LinkType /\ RelayType /\ TurnType
      /\ OneChild /\ Placed /\ Queued /\ EndedIsDead /\ CallKept
    BY DEF SInv, SidecarTypeOK
<1>2. /\ \/ turn' = [turn EXCEPT ![t] = [pc |-> "idle", gw |-> 0]]
         \/ /\ relay # 0
            /\ turn' = [turn EXCEPT ![t] = [pc |-> "holding", gw |-> relay]]
      /\ UNCHANGED <<sup, crashes, child, linker, reader, relay>>
    BY DEF TakeGateway, Goto, supVars, linkVars, relayVars
<1>3. TurnType'
    BY <1>1, <1>2, SidecarConstants DEF TurnType, RelayType
<1>4. Placed'
    <2>1. relay \in 0..MaxChild /\ MaxChild \in Nat
        BY <1>1, SidecarConstants DEF RelayType
    <2>2. ASSUME NEW u \in Turns, turn'[u].pc = "holding"
          PROVE  turn'[u].gw \in Children
        BY <2>1, <2>2, <1>1, <1>2 DEF Placed, TurnType, Children
    <2> QED
        BY <2>2, <1>1, <1>2 DEF Placed
<1>5. (SupType /\ ProcType /\ LinkType /\ RelayType /\ OneChild /\ Queued /\ EndedIsDead /\ CallKept)'
    BY <1>1
    DEF SupType, ProcType, LinkType, RelayType, OneChild, Queued,
        EndedIsDead, CallKept, TakeGateway, supVars, procVars, linkVars,
        relayVars
<1> QED
    BY <1>3, <1>4, <1>5 DEF SInv, SidecarTypeOK

LEMMA AppendRowStep ==
    ASSUME SInv, NEW t \in Turns, AppendRow(t)
    PROVE  SInv'
<1>1. /\ SupType /\ ProcType /\ LinkType /\ RelayType /\ TurnType
      /\ OneChild /\ Placed /\ Queued /\ EndedIsDead /\ CallKept
    BY DEF SInv, SidecarTypeOK
<1>2. RelayType'
    BY <1>1, SidecarConstants
    DEF RelayType, Placed, SupType, TurnType, AppendRow, supVars, procVars,
        linkVars, relayVars, Children, Calls, Alive, Beat, Idle
<1>3. (SupType /\ ProcType /\ LinkType /\ TurnType /\ OneChild /\ Placed /\ Queued /\ EndedIsDead /\ CallKept)'
    BY <1>1
    DEF SupType, ProcType, LinkType, TurnType, OneChild, Placed, Queued,
        EndedIsDead, CallKept, AppendRow, supVars, procVars, linkVars,
        relayVars
<1> QED
    BY <1>2, <1>3 DEF SInv, SidecarTypeOK

---------------------------------------------------------------------------
LEMMA SidecarStep ==
    ASSUME SInv, SidecarNext
    PROVE  SInv'
<1>1. CASE Supervise
    BY <1>1, SpawnStep, SpawnFailsStep, PromoteStep, WatchdogStep, RotateStep,
       ParkStep, CrashedStep, ResumeStep DEF Supervise
<1>2. CASE Stderr \/ Connect \/ Publish \/ Register \/ Write \/ Return
    BY <1>2, StderrStep, ConnectStep, PublishStep, RegisterStep, WriteStep,
       ReturnStep
<1>3. CASE \E c \in Children : ChildStep(c) \/ ReaderStep(c)
    BY <1>3, EmitStep, AnswerStep, ExitStep, DecodeStep, EofStep, BadFrameStep
    DEF ChildStep, ReaderStep
<1>4. CASE \E t \in Turns : TurnStep(t)
    BY <1>4, CheckStep, WakeStep, TakeGatewayStep, AppendRowStep, FinishStep
    DEF TurnStep
<1> QED
    BY <1>1, <1>2, <1>3, <1>4 DEF SidecarNext

LEMMA SidecarStart ==
    ASSUME SidecarInit
    PROVE  SInv
<1>1. SupType
    <2>1. /\ sup = [pc |-> "spawning", state |-> "Stopped"]
          /\ crashes = 0 /\ child = 0
          /\ heard = FALSE /\ resume = FALSE /\ parked = FALSE
        BY DEF SidecarInit
    <2>2. 0 \in 0..CircuitThreshold /\ 0 \in 0..MaxChild
        BY SidecarConstants
    <2>3. sup.pc # "parked"
        BY <2>1
    <2> QED
        BY <2>1, <2>2, <2>3 DEF SupType
<1>5. ProcType
    BY DEF SidecarInit, ProcType
<1>2. LinkType /\ RelayType /\ TurnType
    BY SidecarConstants DEF SidecarInit, LinkType, RelayType, TurnType, Idle
<1>3. OneChild /\ EndedIsDead /\ CallKept
    BY DEF SidecarInit, OneChild, EndedIsDead, CallKept, Idle
<1>4. Placed /\ Queued
    BY SidecarConstants DEF SidecarInit, Placed, Queued
<1> QED
    BY <1>1, <1>2, <1>3, <1>4, <1>5 DEF SInv, SidecarTypeOK

LEMMA SidecarStutter ==
    ASSUME SInv, UNCHANGED sidecarVars
    PROVE  SInv'
BY DEF SInv, SidecarTypeOK, SupType, ProcType, LinkType, RelayType, TurnType,
       OneChild, Placed, Queued, EndedIsDead, CallKept, sidecarVars, supVars,
       procVars, linkVars, relayVars, Alive

---------------------------------------------------------------------------
(* The invariant holds in every state of the sidecar's threads. *)
THEOREM SidecarInvariant == SidecarSpec => []SInv
<1>1. SidecarInit => SInv
    BY SidecarStart
<1>2. SInv /\ [SidecarNext]_sidecarVars => SInv'
    BY SidecarStep, SidecarStutter
<1> QED
    BY <1>1, <1>2, PTL DEF SidecarSpec

(* Types, and parked tells exactly when the supervisor is in its park. *)
THEOREM SidecarTypeCorrect == SidecarSpec => []SidecarTypeOK
<1>1. SInv => SidecarTypeOK
    BY DEF SInv
<1> QED
    BY <1>1, SidecarInvariant, PTL

(* At most one child runs, and it is the one the supervisor polls
   (wait_or_restart, check_watchdog, spawn). *)
THEOREM AtMostOneChild == SidecarSpec => []OneChild
<1>1. SInv => OneChild
    BY DEF SInv
<1> QED
    BY <1>1, SidecarInvariant, PTL

(* No caller of request waits on a link whose reader has met the end of the
   child's stdout (the drain of sidecar_link.rs). *)
THEOREM CallsFailClosed == SidecarSpec => []NoOrphanCall
<1>1. SInv => NoOrphanCall
    <2> SUFFICES ASSUME SInv, call.pc = "sent", call.ans = "none",
                        reader[call.on] # "failed"
                 PROVE  call.id \in pending[call.on]
                          /\ reader[call.on] = "reading"
        BY DEF NoOrphanCall
    <2>1. /\ call.on \in Children
          /\ reader[call.on] # "none" /\ reader[call.on] # "ended"
          /\ reader[call.on] = "reading" => call.id \in pending[call.on]
        BY DEF SInv, CallKept
    <2>2. reader[call.on] \in {"none", "reading", "ended", "failed"}
        BY <2>1 DEF SInv, SidecarTypeOK, LinkType
    <2> QED
        BY <2>1, <2>2
<1> QED
    BY <1>1, SidecarInvariant, PTL

=============================================================================
