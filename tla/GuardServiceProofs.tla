------------------------- MODULE GuardServiceProofs -------------------------
(***************************************************************************)
(* Proofs about the approval service, for any number of tickets, requests  *)
(* and argument hashes and for every lifetime and cap.                     *)
(*                                                                         *)
(* SpentOnce is not inductive: the batch store turns away an expired       *)
(* ticket by the clock and not by its state, so a spent ticket that is     *)
(* presented again after its expiry, and is then "expired", must be known  *)
(* to stay past its expiry.  ClockBars says so; SpentIsClosed says which   *)
(* states a spent ticket can be in; BackedStates ties the states from      *)
(* which a ticket is spent to the policy or to a "yes".                    *)
(***************************************************************************)
EXTENDS GuardService, TLAPS

\* An expired ticket is past its expiry, and stays so.
ClockBars == \A t \in Tickets : ticket[t].state = "expired" => now > ticket[t].expires

\* A spent ticket is used, or was presented again too late.
SpentIsClosed == \A t \in Tickets : spent[t] > 0 => ticket[t].state \in {"used", "expired"}

\* A ticket that can be spent was approved by the policy or by a "yes".
BackedStates ==
    \A t \in Tickets : ticket[t].state \in {"approved", "used", "rejected"} =>
                        t \in allowed \/ outcome[t] = "yes"

\* The installer's request names its ticket.
InstallKnown == install.step # "idle" => install.ticket \in Tickets

GuardInv ==
    /\ TypeOK
    /\ InstallKnown
    /\ ClockBars
    /\ SpentIsClosed
    /\ SpentOnce
    /\ BackedStates
    /\ SpendIsBacked

\* The records of the store.
Record == [state : TicketStates, batch : BOOLEAN, hash : Args \cup {"none"},
           nonce : Nat, expires : Nat]

-----------------------------------------------------------------------------
(* The stores.                                                             *)

\* use_ticket, use_batch_ticket: what a presented ticket can become.
LEMMA AfterUseStates ==
    ASSUME NEW k \in Record, NEW h
    PROVE  /\ AfterUse(k, h) \in TicketStates
           /\ AfterUse(k, h) \in {"expired", "used", "rejected", k.state}
           /\ AfterUse(k, h) = "expired" => (now > k.expires \/ k.state = "expired")
           /\ AfterUse(k, h) = "rejected" => k.state \in {"approved", "rejected", "expired"}
           /\ AfterUse(k, h) = "used" => Spendable(k, h) \/ k.state = "used"
           /\ Spendable(k, h) => AfterUse(k, h) \in {"used", "expired"}
           /\ Spendable(k, h) => k.state \in {"approved", "rejected", "expired"}
BY DEF AfterUse, Spendable, Record, TicketStates

\* evaluate and evaluate_batch: a minted ticket is a record of the store.
LEMMA MintedRecord ==
    ASSUME TypeOK, NEW h \in Args, NEW batch \in BOOLEAN, NEW verdict
    PROVE  /\ Minted(h, batch, verdict) \in Record
           /\ Minted(h, batch, verdict).state = IF verdict = "allow" THEN "approved" ELSE "pending"
<1>1. now + Ttl \in Nat
  BY GuardConstants DEF TypeOK
<1> QED
  BY <1>1 DEF Minted, Record, TicketStates

\* A step of the stores, for one ticket: what the invariant needs to know.
Evolves(t) ==
    /\ ticket'[t] \in Record
    /\ spent'[t] \in 0..2
    /\ ticket'[t].state = "expired" => now > ticket'[t].expires
    /\ spent'[t] > 0 => ticket'[t].state \in {"used", "expired"}
    /\ spent'[t] <= 1
    /\ ticket'[t].state \in {"approved", "used", "rejected"} => t \in allowed' \/ outcome'[t] = "yes"
    /\ spent'[t] > 0 => t \in allowed' \/ outcome'[t] = "yes"

\* A step whose clock does not run and that evolves every ticket keeps the
\* ticket part of the invariant.
LEMMA EvolvesKeeps ==
    ASSUME now' = now, \A t \in Tickets : Evolves(t)
    PROVE  ClockBars' /\ SpentIsClosed' /\ SpentOnce' /\ BackedStates' /\ SpendIsBacked'
BY DEF Evolves, ClockBars, SpentIsClosed, SpentOnce, BackedStates, SpendIsBacked

\* A ticket that a step leaves alone evolves.
LEMMA SameEvolves ==
    ASSUME GuardInv, NEW t \in Tickets, ticket'[t] = ticket[t], spent'[t] = spent[t],
           allowed \subseteq allowed',
           outcome'[t] = outcome[t] \/ (outcome'[t] = "yes")
    PROVE  Evolves(t)
BY DEF GuardInv, TypeOK, Record, Evolves, ClockBars, SpentIsClosed, SpentOnce, BackedStates,
       SpendIsBacked

\* GuardService::use_ticket keeps the invariant, whatever ticket and arguments
\* are presented.
LEMMA UseEvolves ==
    ASSUME GuardInv, NEW u, NEW h, Use(u, h), UNCHANGED <<allowed, outcome>>
    PROVE  \A t \in Tickets : Evolves(t)
<1> SUFFICES ASSUME NEW t \in Tickets PROVE Evolves(t)
  OBVIOUS
<1>1. /\ ticket \in [Tickets -> Record] /\ spent \in [Tickets -> 0..2] /\ now \in Nat
  BY DEF GuardInv, TypeOK, Record
<1>2. CASE t # u \/ estop
  <2>1. ticket'[t] = ticket[t] /\ spent'[t] = spent[t]
    BY <1>1, <1>2 DEF Use
  <2> QED
    BY <2>1, SameEvolves
<1>3. CASE t = u /\ ~estop
  <2> DEFINE k == ticket[t]
             s == AfterUse(k, h)
  <2>1. k \in Record
    BY <1>1
  <2>2. ticket'[t] = [k EXCEPT !.state = s]
    BY <1>1, <1>3 DEF Use
  <2>3. spent'[t] = IF Spendable(k, h) THEN Min2(spent[t] + 1, 2) ELSE spent[t]
    BY <1>1, <1>3 DEF Use
  <2>4. /\ s \in TicketStates
        /\ s \in {"expired", "used", "rejected", k.state}
        /\ s = "expired" => (now > k.expires \/ k.state = "expired")
        /\ s = "rejected" => k.state \in {"approved", "rejected", "expired"}
        /\ s = "used" => Spendable(k, h) \/ k.state = "used"
        /\ Spendable(k, h) => s \in {"used", "expired"}
        /\ Spendable(k, h) => k.state \in {"approved", "rejected", "expired"}
    BY <2>1, AfterUseStates
  <2>5. /\ k.state = "expired" => now > k.expires
        /\ spent[t] > 0 => k.state \in {"used", "expired"}
        /\ spent[t] <= 1 /\ spent[t] \in 0..2
        /\ k.state \in {"approved", "used", "rejected"} => t \in allowed \/ outcome[t] = "yes"
        /\ spent[t] > 0 => t \in allowed \/ outcome[t] = "yes"
    BY <1>1 DEF GuardInv, ClockBars, SpentIsClosed, SpentOnce, BackedStates, SpendIsBacked
  <2>6. Spendable(k, h) => ~(now > k.expires)
    BY <2>1, <1>1 DEF Spendable, Record
  <2>7. s = "rejected" => k.state # "expired"
    BY <2>1, <2>5, <1>1 DEF AfterUse, Spendable, Record
  <2>8. ~Spendable(k, h) /\ k.state = "used" => s \in {"used", "expired"}
    BY DEF AfterUse
  <2>9. /\ ticket'[t].state = s /\ ticket'[t].expires = k.expires /\ ticket'[t] \in Record
    BY <2>1, <2>2, <2>4 DEF Record
  <2> HIDE DEF k, s
  <2>10. Spendable(k, h) => spent[t] = 0 /\ spent'[t] = 1
    BY <2>3, <2>4, <2>5, <2>6 DEF Min2
  <2>11. spent'[t] \in 0..2 /\ spent'[t] <= 1
    BY <2>3, <2>5, <2>10
  <2>12. spent'[t] > 0 => s \in {"used", "expired"}
    <3>1. CASE Spendable(k, h)
      BY <2>4, <3>1
    <3>2. CASE ~Spendable(k, h)
      <4>1. spent'[t] > 0 => k.state \in {"used", "expired"}
        BY <2>3, <2>5, <3>2
      <4> QED
        BY <2>4, <2>7, <2>8, <3>2, <4>1
    <3> QED
      BY <3>1, <3>2
  <2>13. s \in {"approved", "used", "rejected"} => t \in allowed \/ outcome[t] = "yes"
    BY <2>4, <2>5, <2>6, <2>7
  <2>14. spent'[t] > 0 => t \in allowed \/ outcome[t] = "yes"
    BY <2>3, <2>4, <2>5, <2>6
  <2> QED
    BY <2>4, <2>5, <2>9, <2>11, <2>12, <2>13, <2>14 DEF Evolves
<1> QED
  BY <1>2, <1>3

-----------------------------------------------------------------------------
(* The steps.  TypeOK has two halves: the tickets, which Evolves covers,   *)
(* and what the threads hold.                                              *)

ThreadsOK ==
    /\ now \in Nat
    /\ estop \in BOOLEAN
    /\ outcome \in [Tickets -> {"none", "yes", "no"}]
    /\ waiter \subseteq Tickets
    /\ asker \in [Askers -> [step : {"idle", "waiting", "approved"},
                             ticket : Tickets \cup {NoTicket}, hash : Args \cup {"none"},
                             told : {"none", "yes", "no"}, cancel : BOOLEAN]]
    /\ install \in [step : {"idle", "asked", "waiting", "ready"},
                    ticket : Tickets \cup {NoTicket}, hash : Args \cup {"none"}]
    /\ InstallKnown
    /\ allowed \subseteq Tickets

StoresOK == ticket \in [Tickets -> Record] /\ spent \in [Tickets -> 0..2]

\* The two halves, before a step ...
LEMMA TypeSplits == TypeOK /\ InstallKnown <=> ThreadsOK /\ StoresOK
BY DEF TypeOK, ThreadsOK, StoresOK, Record

\* ... and after it.
LEMMA TypeJoins == ThreadsOK' /\ StoresOK' => TypeOK' /\ InstallKnown'
BY DEF TypeOK, ThreadsOK, StoresOK, Record

\* A store that stays a function and evolves every ticket stays typed.
LEMMA EvolvesTyped ==
    ASSUME ticket' = [t \in Tickets |-> ticket'[t]], spent' = [t \in Tickets |-> spent'[t]],
           \A t \in Tickets : Evolves(t)
    PROVE  StoresOK'
BY DEF Evolves, StoresOK

\* A new service has no tickets and nobody waits.
LEMMA InitGuardInv == Init => GuardInv
<1> SUFFICES ASSUME Init PROVE GuardInv
  OBVIOUS
<1>1. NoTicketRecord \in Record
  BY DEF NoTicketRecord, Record, TicketStates
<1>2. StoresOK
  BY <1>1 DEF Init, StoresOK
<1>3. ThreadsOK
  BY DEF Init, ThreadsOK, InstallKnown, IdleAsker, IdleInstall
<1>4. ClockBars /\ SpentIsClosed /\ SpentOnce /\ BackedStates /\ SpendIsBacked
  BY DEF Init, ClockBars, SpentIsClosed, SpentOnce, BackedStates, SpendIsBacked, NoTicketRecord
<1> QED
  BY <1>2, <1>3, <1>4, TypeSplits DEF GuardInv

\* A step that leaves the stores, the decisions and the clock alone.
LEMMA ThreadStep ==
    ASSUME GuardInv, UNCHANGED <<now, ticket, spent, allowed, outcome>>, ThreadsOK'
    PROVE  GuardInv'
<1>1. \A t \in Tickets : Evolves(t)
  BY SameEvolves
<1>2. StoresOK'
  BY TypeSplits DEF GuardInv, StoresOK
<1> QED
  BY <1>1, <1>2, EvolvesKeeps, TypeJoins DEF GuardInv

\* A step that touches one ticket u, under the mutex.
LEMMA TicketStep ==
    ASSUME GuardInv, ThreadsOK', now' = now, allowed \subseteq allowed',
           NEW u \in Tickets, NEW k, NEW n,
           ticket' = [ticket EXCEPT ![u] = k],
           spent' = [spent EXCEPT ![u] = n],
           \A t \in Tickets \ {u} : outcome'[t] = outcome[t],
           Evolves(u)
    PROVE  GuardInv'
<1>1. ticket \in [Tickets -> Record] /\ spent \in [Tickets -> 0..2]
  BY TypeSplits DEF GuardInv, StoresOK
<1>2. \A t \in Tickets : Evolves(t)
  <2>1. ASSUME NEW t \in Tickets \ {u} PROVE Evolves(t)
    <3>1. ticket'[t] = ticket[t] /\ spent'[t] = spent[t]
      BY <1>1
    <3> QED
      BY <3>1, SameEvolves
  <2> QED
    BY <2>1
<1>3. StoresOK'
  BY <1>1, <1>2, EvolvesTyped
<1> QED
  BY <1>2, <1>3, EvolvesKeeps, TypeJoins DEF GuardInv

\* evaluate: a ticket that nobody has seen.
LEMMA MintStep ==
    ASSUME GuardInv, ThreadsOK', UNCHANGED <<now, outcome, spent>>,
           NEW u \in Tickets, NEW h \in Args, NEW batch \in BOOLEAN, NEW verdict,
           Mint(u, h, batch, verdict)
    PROVE  GuardInv'
<1> DEFINE k == Minted(h, batch, verdict)
<1>1. /\ ticket \in [Tickets -> Record] /\ spent \in [Tickets -> 0..2]
      /\ spent[u] > 0 => ticket[u].state \in {"used", "expired"}
  BY TypeSplits DEF GuardInv, StoresOK, SpentIsClosed
<1>2. k \in Record /\ k.state = IF verdict = "allow" THEN "approved" ELSE "pending"
  BY MintedRecord DEF GuardInv
<1>3. ticket' = [ticket EXCEPT ![u] = k] /\ ticket[u].state = "absent"
  BY DEF Mint
<1>4. allowed \subseteq allowed' /\ (verdict = "allow" => u \in allowed')
  BY DEF Mint
<1>5. spent[u] = 0 /\ spent' = [spent EXCEPT ![u] = 0]
  BY <1>1, <1>3
<1> HIDE DEF k
<1>6. ticket'[u] = k /\ spent'[u] = 0
  BY <1>1, <1>3, <1>5
<1>7. Evolves(u)
  BY <1>2, <1>4, <1>6 DEF Evolves
<1> QED
  BY <1>3, <1>4, <1>5, <1>7, TicketStep

\* A decision, or an extension, of a pending ticket.
LEMMA PendingStep ==
    ASSUME GuardInv, ThreadsOK', UNCHANGED <<now, spent, allowed>>,
           NEW u \in Tickets, NEW k \in Record,
           ticket[u].state = "pending",
           ticket' = [ticket EXCEPT ![u] = k],
           \A t \in Tickets \ {u} : outcome'[t] = outcome[t],
           \/ k.state \in {"pending", "revoked"}
           \/ k.state = "approved" /\ outcome'[u] = "yes"
    PROVE  GuardInv'
<1>1. /\ ticket \in [Tickets -> Record] /\ spent \in [Tickets -> 0..2]
      /\ spent[u] > 0 => ticket[u].state \in {"used", "expired"}
  BY TypeSplits DEF GuardInv, StoresOK, SpentIsClosed
<1>2. spent[u] = 0 /\ spent' = [spent EXCEPT ![u] = 0]
  BY <1>1
<1>3. ticket'[u] = k /\ spent'[u] = 0
  BY <1>1, <1>2
<1>4. Evolves(u)
  BY <1>3 DEF Evolves
<1> QED
  BY <1>2, <1>4, TicketStep

\* A presented ticket.
LEMMA UseStep ==
    ASSUME GuardInv, ThreadsOK', UNCHANGED <<now, allowed, outcome>>, NEW u, NEW h, Use(u, h)
    PROVE  GuardInv'
<1>1. ticket \in [Tickets -> Record] /\ spent \in [Tickets -> 0..2]
  BY TypeSplits DEF GuardInv, StoresOK
<1>2. \A t \in Tickets : Evolves(t)
  BY UseEvolves
<1>3. ticket' = [t \in Tickets |-> ticket'[t]] /\ spent' = [t \in Tickets |-> spent'[t]]
  BY <1>1 DEF Use
<1>4. StoresOK'
  BY <1>2, <1>3, EvolvesTyped
<1> QED
  BY <1>2, <1>4, EvolvesKeeps, TypeJoins DEF GuardInv

\* signal_ticket keeps the types of the threads and one ticket's decision.
LEMMA SignalTyped ==
    ASSUME ThreadsOK, NEW u \in Tickets, NEW answer \in {"yes", "no"}, Signal(u, answer)
    PROVE  /\ outcome' \in [Tickets -> {"none", "yes", "no"}]
           /\ outcome'[u] = answer
           /\ \A t \in Tickets \ {u} : outcome'[t] = outcome[t]
           /\ waiter' \subseteq Tickets
           /\ asker' \in [Askers -> [step : {"idle", "waiting", "approved"},
                             ticket : Tickets \cup {NoTicket}, hash : Args \cup {"none"},
                             told : {"none", "yes", "no"}, cancel : BOOLEAN]]
BY DEF ThreadsOK, InstallKnown, Signal

-----------------------------------------------------------------------------

\* A click on a card, an extension and the emergency stop keep the invariant.
LEMMA HumanKeeps == GuardInv /\ HumanStep => GuardInv'
<1> SUFFICES ASSUME GuardInv, HumanStep PROVE GuardInv'
  OBVIOUS
<1>1. ThreadsOK /\ ticket \in [Tickets -> Record]
  BY TypeSplits DEF GuardInv, StoresOK
<1>2. ASSUME NEW t \in Tickets, NEW n \in 0..MaxNonce, Approve(t, n)
      PROVE  GuardInv'
  <2> DEFINE k == [ticket[t] EXCEPT !.state = "approved"]
  <2>1. k \in Record /\ k.state = "approved"
    BY <1>1 DEF Record, TicketStates
  <2>2. ticket' = [ticket EXCEPT ![t] = k]
    BY <1>1, <1>2 DEF Approve
  <2>3. Signal(t, "yes")
    BY <1>2 DEF Approve
  <2>4. /\ outcome'[t] = "yes" /\ \A u \in Tickets \ {t} : outcome'[u] = outcome[u]
        /\ ThreadsOK'
    BY <1>1, <1>2, <2>3, SignalTyped DEF ThreadsOK, InstallKnown, Approve
  <2>5. ticket[t].state = "pending" /\ UNCHANGED <<now, spent, allowed>>
    BY <1>2 DEF Approve
  <2> HIDE DEF k
  <2> QED
    BY <2>1, <2>2, <2>4, <2>5, PendingStep
<1>3. ASSUME NEW t \in Tickets, NEW n \in 0..MaxNonce, Reject(t, n)
      PROVE  GuardInv'
  <2> DEFINE k == [ticket[t] EXCEPT !.state = "revoked"]
  <2>1. k \in Record /\ k.state = "revoked"
    BY <1>1 DEF Record, TicketStates
  <2>2. ticket' = [ticket EXCEPT ![t] = k]
    BY <1>1, <1>3 DEF Reject
  <2>3. Signal(t, "no")
    BY <1>3 DEF Reject
  <2>4. (\A u \in Tickets \ {t} : outcome'[u] = outcome[u]) /\ ThreadsOK'
    BY <1>1, <1>3, <2>3, SignalTyped DEF ThreadsOK, InstallKnown, Reject
  <2>5. ticket[t].state = "pending" /\ UNCHANGED <<now, spent, allowed>>
    BY <1>3 DEF Reject
  <2> HIDE DEF k
  <2> QED
    BY <2>1, <2>2, <2>4, <2>5, PendingStep
<1>4. ASSUME NEW t \in Tickets, NEW extra \in 1..StepCap, ExtendTtl(t, extra)
      PROVE  GuardInv'
  <2> DEFINE x == Min2(Max2(ticket[t].expires, now) + extra, now + TotalCap)
             y == ticket[t].nonce + 1
             k == [ticket[t] EXCEPT !.expires = x, !.nonce = y]
  <2>1. x \in Nat /\ y \in Nat
    BY <1>1, GuardConstants DEF Min2, Max2, Record, ThreadsOK
  <2>2. ticket[t].state = "pending" /\ ticket' = [ticket EXCEPT ![t] = k]
    BY <1>1, <1>4 DEF ExtendTtl
  <2> HIDE DEF x, y
  <2>3. k \in Record /\ k.state = ticket[t].state
    BY <1>1, <2>1 DEF Record
  <2>4. ThreadsOK' /\ UNCHANGED <<now, spent, allowed, outcome>>
    BY <1>1, <1>4 DEF ThreadsOK, InstallKnown, ExtendTtl
  <2> HIDE DEF k
  <2> QED
    BY <2>2, <2>3, <2>4, PendingStep
<1>5. ASSUME NEW pulled \in BOOLEAN, SetEstop(pulled)
      PROVE  GuardInv'
  <2>1. ThreadsOK' /\ UNCHANGED <<now, ticket, spent, allowed, outcome>>
    BY <1>1, <1>5 DEF ThreadsOK, InstallKnown, SetEstop
  <2> QED
    BY <2>1, ThreadStep
<1> QED
  BY <1>2, <1>3, <1>4, <1>5 DEF HumanStep

\* A verdict "allow" that is spent before the mutex is released.
LEMMA AllowedSpentStep ==
    ASSUME GuardInv, ThreadsOK', UNCHANGED <<now, outcome>>,
           NEW u \in Tickets, NEW h \in Args, allowed' = allowed \cup {u}, ticket[u].state = "absent",
           ticket' = [ticket EXCEPT ![u] = [Minted(h, FALSE, "allow") EXCEPT !.state = "used"]],
           spent' = [spent EXCEPT ![u] = 1]
    PROVE  GuardInv'
<1> DEFINE k == [Minted(h, FALSE, "allow") EXCEPT !.state = "used"]
<1>1. Minted(h, FALSE, "allow") \in Record
  BY MintedRecord DEF GuardInv
<1>2. k \in Record /\ k.state = "used"
  BY <1>1 DEF Record, TicketStates
<1>3. ticket \in [Tickets -> Record] /\ spent \in [Tickets -> 0..2]
  BY TypeSplits DEF GuardInv, StoresOK
<1>4. ticket' = [ticket EXCEPT ![u] = k]
  OBVIOUS
<1> HIDE DEF k
<1>5. ticket'[u] = k /\ spent'[u] = 1
  BY <1>3, <1>4
<1>6. u \in allowed' /\ spent'[u] \in 0..2 /\ spent'[u] <= 1
  BY <1>5
<1>7. Evolves(u)
  BY <1>2, <1>5, <1>6, Zenon DEF Evolves
<1> QED
  BY <1>4, <1>7, TicketStep

\* A permission request keeps the invariant at each of its steps.
LEMMA AskerKeeps ==
    ASSUME GuardInv, NEW a \in Askers, AskerStep(a)
    PROVE  GuardInv'
<1>1. ThreadsOK /\ IdleAsker \in [step : {"idle", "waiting", "approved"},
                             ticket : Tickets \cup {NoTicket}, hash : Args \cup {"none"},
                             told : {"none", "yes", "no"}, cancel : BOOLEAN]
  BY TypeSplits DEF GuardInv, IdleAsker
<1>2. ASSUME NEW t \in Tickets, NEW h \in Args, NEW verdict \in {"allow", "ask"},
             AskerEvaluate(a, t, h, verdict)
      PROVE  GuardInv'
  <2>1. CASE verdict = "ask"
    <3>1. Mint(t, h, FALSE, verdict) /\ UNCHANGED <<now, outcome, spent>>
      BY <1>2, <2>1 DEF AskerEvaluate
    <3> DEFINE x == [IdleAsker EXCEPT !.step = "waiting", !.ticket = t, !.hash = h]
    <3>2. x \in [step : {"idle", "waiting", "approved"},
                 ticket : Tickets \cup {NoTicket}, hash : Args \cup {"none"},
                 told : {"none", "yes", "no"}, cancel : BOOLEAN]
      BY <1>1
    <3>3. /\ waiter' = waiter \cup {t} /\ asker' = [asker EXCEPT ![a] = x]
          /\ allowed' = allowed /\ UNCHANGED <<estop, install>>
      BY <1>2, <2>1 DEF AskerEvaluate, Mint
    <3> HIDE DEF x
    <3>4. ThreadsOK'
      BY <1>1, <3>1, <3>2, <3>3 DEF ThreadsOK, InstallKnown
    <3> QED
      BY <3>1, <3>4, MintStep
  <2>2. CASE verdict = "allow"
    <3>1. ThreadsOK'
      BY <1>1, <1>2, <2>2 DEF ThreadsOK, InstallKnown, AskerEvaluate
    <3> QED
      BY <1>2, <2>2, <3>1, AllowedSpentStep DEF AskerEvaluate
  <2> QED
    BY <2>1, <2>2
<1>3. CASE AskerCancel(a)
  <2>1. ThreadsOK'
    BY <1>1, <1>3 DEF ThreadsOK, InstallKnown, AskerCancel
  <2> QED
    BY <1>3, <2>1, ThreadStep DEF AskerCancel
<1>4. CASE AskerWake(a)
  <2>1. ThreadsOK'
    BY <1>1, <1>4 DEF ThreadsOK, InstallKnown, AskerWake
  <2> QED
    BY <1>4, <2>1, ThreadStep DEF AskerWake
<1>5. CASE AskerSpend(a)
  <2>1. ThreadsOK'
    BY <1>1, <1>5 DEF ThreadsOK, InstallKnown, AskerSpend
  <2> QED
    BY <1>5, <2>1, UseStep DEF AskerSpend
<1> QED
  BY <1>2, <1>3, <1>4, <1>5 DEF AskerStep, AskerProceed

\* An executor keeps the invariant, whatever ticket it names.
LEMMA ExecutorKeeps == GuardInv /\ ExecutorStep => GuardInv'
<1> SUFFICES ASSUME GuardInv, NEW t \in Tickets, NEW h \in Args,
                    \/ \E batch \in BOOLEAN, verdict \in {"allow", "ask"} :
                            ExecutorEvaluate(t, h, batch, verdict)
                    \/ ExecutorPrepareRead(t, h)
                    \/ ExecutorUse(t, h)
             PROVE  GuardInv'
  BY DEF ExecutorStep
<1>1. /\ ThreadsOK /\ ticket \in [Tickets -> Record] /\ spent \in [Tickets -> 0..2]
      /\ spent[t] > 0 => ticket[t].state \in {"used", "expired"}
  BY TypeSplits DEF GuardInv, StoresOK, SpentIsClosed
<1>2. ASSUME NEW batch \in BOOLEAN, NEW verdict \in {"allow", "ask"},
             ExecutorEvaluate(t, h, batch, verdict)
      PROVE  GuardInv'
  <2>1. ThreadsOK'
    BY <1>1, <1>2 DEF ThreadsOK, InstallKnown, ExecutorEvaluate, Mint
  <2> QED
    BY <1>2, <2>1, MintStep DEF ExecutorEvaluate
<1>3. CASE ExecutorPrepareRead(t, h)
  <2> DEFINE k == [Minted(h, FALSE, "ask") EXCEPT !.state = "approved"]
  <2>1. Minted(h, FALSE, "ask") \in Record
    BY MintedRecord DEF GuardInv
  <2>2. k \in Record /\ k.state = "approved"
    BY <2>1 DEF Record, TicketStates
  <2>3. /\ ticket[t].state = "absent" /\ ticket' = [ticket EXCEPT ![t] = k]
        /\ Signal(t, "yes")
        /\ UNCHANGED <<now, estop, install, spent, allowed>>
    BY <1>3 DEF ExecutorPrepareRead
  <2> HIDE DEF k
  <2>4. /\ outcome'[t] = "yes" /\ \A u \in Tickets \ {t} : outcome'[u] = outcome[u]
        /\ ThreadsOK'
    BY <1>1, <2>3, SignalTyped DEF ThreadsOK, InstallKnown
  <2>5. ticket'[t] = k /\ spent'[t] = 0 /\ spent' = [spent EXCEPT ![t] = 0]
    BY <1>1, <2>3
  <2>6. Evolves(t)
    BY <2>2, <2>4, <2>5 DEF Evolves
  <2> QED
    BY <2>3, <2>4, <2>5, <2>6, TicketStep
<1>4. CASE ExecutorUse(t, h)
  <2>1. ThreadsOK'
    BY <1>1, <1>4 DEF ThreadsOK, InstallKnown, ExecutorUse
  <2> QED
    BY <1>4, <2>1, UseStep DEF ExecutorUse
<1> QED
  BY <1>2, <1>3, <1>4

\* The installer keeps the invariant.
LEMMA InstallKeeps == GuardInv /\ InstallStep => GuardInv'
<1> SUFFICES ASSUME GuardInv, InstallStep PROVE GuardInv'
  OBVIOUS
<1>1. ThreadsOK
  BY TypeSplits DEF GuardInv
<1>2. ASSUME NEW t \in Tickets, NEW h \in Args, NEW verdict \in {"allow", "ask"},
             InstallRequest(t, h, verdict)
      PROVE  GuardInv'
  <2>1. ThreadsOK'
    BY <1>1, <1>2 DEF ThreadsOK, InstallKnown, InstallRequest, Mint
  <2> QED
    BY <1>2, <2>1, MintStep DEF InstallRequest
<1>3. CASE InstallAwait
  <2>1. ThreadsOK'
    BY <1>1, <1>3 DEF ThreadsOK, InstallKnown, InstallAwait, IdleInstall
  <2> QED
    BY <1>3, <2>1, ThreadStep DEF InstallAwait
<1>4. CASE InstallTimeout
  <2>1. ThreadsOK'
    BY <1>1, <1>4 DEF ThreadsOK, InstallKnown, InstallTimeout, IdleInstall
  <2> QED
    BY <1>4, <2>1, ThreadStep DEF InstallTimeout
<1>5. CASE InstallCommit
  <2>1. ThreadsOK'
    BY <1>1, <1>5 DEF ThreadsOK, InstallKnown, InstallCommit, IdleInstall
  <2> QED
    BY <1>5, <2>1, UseStep DEF InstallCommit
<1> QED
  BY <1>2, <1>3, <1>4, <1>5 DEF InstallStep, InstallProceed

\* Time only moves tickets past their expiry.
LEMMA TickKeeps == GuardInv /\ Tick => GuardInv'
<1> SUFFICES ASSUME GuardInv, Tick PROVE GuardInv'
  OBVIOUS
<1>1. TypeOK /\ StoresOK
  BY TypeSplits DEF GuardInv
<1>2. TypeOK' /\ InstallKnown'
  BY <1>1 DEF GuardInv, InstallKnown, TypeOK, Tick
<1>3. ClockBars'
  BY <1>1 DEF GuardInv, TypeOK, StoresOK, Record, ClockBars, Tick
<1> QED
  BY <1>2, <1>3 DEF GuardInv, Tick, SpentIsClosed, SpentOnce, BackedStates, SpendIsBacked

\* Every step keeps the invariant.
LEMMA NextGuardInv == GuardInv /\ [Next]_guardVars => GuardInv'
<1>1. GuardInv /\ UNCHANGED guardVars => GuardInv'
  BY DEF GuardInv, guardVars, TypeOK, InstallKnown, ClockBars, SpentIsClosed, SpentOnce, BackedStates,
         SpendIsBacked
<1> QED
  BY <1>1, HumanKeeps, AskerKeeps, ExecutorKeeps, InstallKeeps, TickKeeps DEF Next

\* The inductive invariant holds throughout.
THEOREM GuardInvariant == Spec => []GuardInv
BY InitGuardInv, NextGuardInv, PTL DEF Spec

\* The service's state is typed in every behaviour.
THEOREM GuardTypeCorrect == Spec => []TypeOK
<1>1. GuardInv => TypeOK
  BY DEF GuardInv
<1> QED
  BY <1>1, GuardInvariant, PTL

\* A ticket authorises at most one action (TicketStore::use_ticket and
\* BatchTicketStore::use_batch_ticket), whoever presents it.
THEOREM TicketsAreSingleUse == Spec => []SpentOnce
<1>1. GuardInv => SpentOnce
  BY DEF GuardInv
<1> QED
  BY <1>1, GuardInvariant, PTL

\* Whatever runs was allowed by the policy or answered with a "yes".
THEOREM SpentTicketsAreBacked == Spec => []SpendIsBacked
<1>1. GuardInv => SpendIsBacked
  BY DEF GuardInv
<1> QED
  BY <1>1, GuardInvariant, PTL

-----------------------------------------------------------------------------
(* A decision is about what was shown.                                     *)

Frozen(t) ==
    ticket[t].state \notin {"absent", "pending"} =>
        /\ ticket'[t] = [ticket[t] EXCEPT !.state = ticket'[t].state]
        /\ ticket'[t].state # "pending"
        /\ outcome'[t] = outcome[t]

\* A ticket that a step leaves alone is frozen.
LEMMA SameFrozen ==
    ASSUME TypeOK, NEW t \in Tickets, ticket'[t] = ticket[t], outcome'[t] = outcome[t]
    PROVE  Frozen(t)
<1>1. ticket[t] \in Record
  BY DEF TypeOK, Record
<1> QED
  BY <1>1 DEF Frozen, Record

\* A step that touches one ticket, which is not decided, freezes the others.
LEMMA UndecidedFrozen ==
    ASSUME TypeOK, NEW u \in Tickets, ticket[u].state \in {"absent", "pending"},
           \A x \in Tickets \ {u} : ticket'[x] = ticket[x] /\ outcome'[x] = outcome[x],
           NEW t \in Tickets
    PROVE  Frozen(t)
<1>1. CASE t = u
  BY <1>1 DEF Frozen
<1>2. CASE t # u
  BY <1>2, SameFrozen
<1> QED
  BY <1>1, <1>2

\* Presenting a ticket changes nothing but its state.
LEMMA UseFrozen ==
    ASSUME TypeOK, NEW u, NEW h, Use(u, h), outcome' = outcome, NEW t \in Tickets
    PROVE  Frozen(t)
<1>1. ticket \in [Tickets -> Record]
  BY DEF TypeOK, Record
<1>2. CASE ticket'[t] = ticket[t]
  BY <1>2, SameFrozen
<1>3. CASE ticket'[t] # ticket[t]
  <2> DEFINE s == AfterUse(ticket[t], h)
  <2>1. t = u /\ ticket'[t] = [ticket[t] EXCEPT !.state = s]
    BY <1>1, <1>3 DEF Use
  <2>2. ticket[t].state # "pending" => s # "pending"
    BY DEF AfterUse
  <2> HIDE DEF s
  <2>3. ticket'[t].state = s
    BY <1>1, <2>1 DEF Record
  <2> QED
    BY <2>1, <2>2, <2>3 DEF Frozen
<1> QED
  BY <1>2, <1>3

\* Every step freezes every decided ticket.
LEMMA StepFreezes ==
    ASSUME TypeOK, Next, NEW t \in Tickets
    PROVE  Frozen(t)
<1>1. ticket \in [Tickets -> Record] /\ outcome \in [Tickets -> {"none", "yes", "no"}]
  BY DEF TypeOK, Record
<1>2. CASE HumanStep
  <2>1. ASSUME NEW u \in Tickets, NEW n, Approve(u, n) PROVE Frozen(t)
    BY <1>1, <2>1, UndecidedFrozen DEF Approve, Signal
  <2>2. ASSUME NEW u \in Tickets, NEW n, Reject(u, n) PROVE Frozen(t)
    BY <1>1, <2>2, UndecidedFrozen DEF Reject, Signal
  <2>3. ASSUME NEW u \in Tickets, NEW extra, ExtendTtl(u, extra) PROVE Frozen(t)
    BY <1>1, <2>3, UndecidedFrozen DEF ExtendTtl
  <2>4. ASSUME NEW pulled, SetEstop(pulled) PROVE Frozen(t)
    BY <2>4, SameFrozen DEF SetEstop
  <2> QED
    BY <1>2, <2>1, <2>2, <2>3, <2>4 DEF HumanStep
<1>3. ASSUME NEW u \in Tickets, NEW h, NEW batch, NEW verdict, Mint(u, h, batch, verdict),
             outcome' = outcome
      PROVE  Frozen(t)
  BY <1>1, <1>3, UndecidedFrozen DEF Mint
<1>4. ASSUME NEW a \in Askers, AskerStep(a) PROVE Frozen(t)
  <2>1. ASSUME NEW u \in Tickets, NEW h, NEW verdict, AskerEvaluate(a, u, h, verdict)
        PROVE  Frozen(t)
    BY <1>1, <2>1, UndecidedFrozen DEF AskerEvaluate, Mint
  <2>2. CASE AskerCancel(a) \/ AskerWake(a)
    BY <2>2, SameFrozen DEF AskerCancel, AskerWake
  <2>3. CASE AskerSpend(a)
    BY <2>3, UseFrozen DEF AskerSpend
  <2> QED
    BY <1>4, <2>1, <2>2, <2>3 DEF AskerStep, AskerProceed
<1>5. CASE ExecutorStep
  <2>1. ASSUME NEW u \in Tickets, NEW h, NEW batch, NEW verdict,
               ExecutorEvaluate(u, h, batch, verdict)
        PROVE  Frozen(t)
    BY <1>3, <2>1 DEF ExecutorEvaluate
  <2>2. ASSUME NEW u \in Tickets, NEW h, ExecutorPrepareRead(u, h) PROVE Frozen(t)
    BY <1>1, <2>2, UndecidedFrozen DEF ExecutorPrepareRead, Signal
  <2>3. ASSUME NEW u \in Tickets, NEW h, ExecutorUse(u, h) PROVE Frozen(t)
    BY <2>3, UseFrozen DEF ExecutorUse
  <2> QED
    BY <1>5, <2>1, <2>2, <2>3 DEF ExecutorStep
<1>6. CASE InstallStep
  <2>1. ASSUME NEW u \in Tickets, NEW h, NEW verdict, InstallRequest(u, h, verdict)
        PROVE  Frozen(t)
    BY <1>3, <2>1 DEF InstallRequest
  <2>2. CASE InstallAwait \/ InstallTimeout
    BY <2>2, SameFrozen DEF InstallAwait, InstallTimeout
  <2>3. CASE InstallCommit
    BY <2>3, UseFrozen DEF InstallCommit
  <2> QED
    BY <1>6, <2>1, <2>2, <2>3 DEF InstallStep, InstallProceed
<1>7. CASE Tick
  BY <1>7, SameFrozen DEF Tick
<1> QED
  BY <1>2, <1>4, <1>5, <1>6, <1>7 DEF Next

\* What was decided is never changed: neither the decision nor the arguments,
\* the expiry or the nonce it was about.
THEOREM DecisionsAreFrozen == Spec => DecidedIsFrozen
<1>1. TypeOK /\ [Next]_guardVars =>
        [\A t \in Tickets :
            ticket[t].state \notin {"absent", "pending"} =>
                /\ ticket'[t] = [ticket[t] EXCEPT !.state = ticket'[t].state]
                /\ ticket'[t].state # "pending"
                /\ outcome'[t] = outcome[t]]_guardVars
  BY StepFreezes DEF Frozen
<1> QED
  BY <1>1, GuardTypeCorrect, PTL DEF Spec, DecidedIsFrozen
=============================================================================
