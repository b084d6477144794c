---------------------------- MODULE GuardService ----------------------------
(***************************************************************************)
(* Guard-2, the approval service (everyaios-core/src/guard_service.rs over *)
(* everyaios-guard's ticket and batch stores).  No privileged action runs  *)
(* without a ticket: evaluate mints one, the policy or a human approves    *)
(* it, an executor spends it once.                                         *)
(*                                                                         *)
(* All operations run under one mutex.  What makes them hard is who calls  *)
(* them, and when:                                                         *)
(*  - permission requests of external agents (acp_cmds.rs), a thread each, *)
(*    which release the mutex while a human decides and spend the ticket   *)
(*    after they are woken;                                                *)
(*  - executors (tool/prepare and tool/commit, file, terminal and          *)
(*    spreadsheet commands), which mint and spend in separate calls and    *)
(*    may name any ticket id;                                              *)
(*  - the agent installer, whose wait does not release the mutex;          *)
(*  - the human, whose cards may be stale, and the emergency stop.         *)
(*                                                                         *)
(* Abstractions: the verdict of the policy, profile, tier, floors and      *)
(* confidence is an input ("allow", "ask" or a refusal, which changes      *)
(* nothing); argument and change-set hashes are members of Args; a nonce   *)
(* is its generation; time is counted in steps.  Receipts, lifecycle       *)
(* events, the recorded source of a decision and card contents are left    *)
(* out.                                                                    *)
(***************************************************************************)
EXTENDS Integers

CONSTANTS
    Tickets,      \* ticket ids
    Args,         \* hashes of arguments or change sets
    Askers,       \* threads of permission requests
    NoTicket,     \* "no ticket", not in Tickets
    Ttl,          \* lifetime of a new ticket
    StepCap,      \* longest single extension
    TotalCap,     \* longest remaining lifetime after an extension
    MaxTime,      \* bound on the clock
    MaxNonce      \* bound on the extensions of a ticket

ASSUME GuardConstants ==
    /\ NoTicket \notin Tickets
    /\ Ttl \in Nat /\ StepCap \in Nat \ {0} /\ TotalCap \in Nat
    /\ MaxTime \in Nat /\ MaxNonce \in Nat

VARIABLES
    now,        \* the clock
    estop,      \* the emergency stop is pulled
    ticket,     \* the ticket stores
    outcome,    \* outcomes: the decision signalled for a ticket
    waiter,     \* waiters: whether a channel is registered for a ticket
    asker,      \* where each permission request is
    install,    \* the installer's request
    spent,      \* history: successful uses of each ticket (2: more than one)
    allowed     \* history: tickets the policy minted as approved

guardVars == <<now, estop, ticket, outcome, waiter, asker, install, spent, allowed>>

TicketStates == {"absent", "pending", "approved", "used", "rejected", "expired", "revoked"}

NoTicketRecord == [state |-> "absent", batch |-> FALSE, hash |-> "none", nonce |-> 0,
                   expires |-> 0]

\* told: what the channel has delivered
IdleAsker == [step |-> "idle", ticket |-> NoTicket, hash |-> "none", told |-> "none",
              cancel |-> FALSE]

IdleInstall == [step |-> "idle", ticket |-> NoTicket, hash |-> "none"]

Min2(a, b) == IF a < b THEN a ELSE b
Max2(a, b) == IF a < b THEN b ELSE a

\* The installer's wait keeps the service's mutex.
GuardFree == install.step # "waiting"

-----------------------------------------------------------------------------
(* The stores.                                                             *)

\* Mutant: the lifetime is counted backwards.
MintedBackdated(h, batch, verdict) ==
    [state   |-> IF verdict = "allow" THEN "approved" ELSE "pending",
     batch   |-> batch,
     hash    |-> h,
     nonce   |-> 0,
     expires |-> now - Ttl]

\* TicketStore::mint, BatchTicketStore::mint_batch
Minted(h, batch, verdict) ==
    [state   |-> IF verdict = "allow" THEN "approved" ELSE "pending",
     batch   |-> batch,
     hash    |-> h,
     nonce   |-> 0,
     expires |-> now + Ttl]

\* evaluate and evaluate_batch, when they do not block: a fresh ticket.
Mint(t, h, batch, verdict) ==
    /\ GuardFree /\ ~estop
    /\ ticket[t].state = "absent"
    /\ ticket' = [ticket EXCEPT ![t] = Minted(h, batch, verdict)]
    /\ allowed' = IF verdict = "allow" THEN allowed \cup {t} ELSE allowed

\* Mutant: whatever was not decided against can be spent.
SpendableUndecided(k, h) ==
    /\ now <= k.expires
    /\ k.state \in {"pending", "approved"} \cup (IF k.batch THEN {"rejected", "expired"} ELSE {})
    /\ k.hash = h

\* use_ticket and use_batch_ticket succeed for k: the batch store turns away
\* tickets that are pending, used or revoked, and no others.
Spendable(k, h) ==
    /\ now <= k.expires
    /\ k.state \in {"approved"} \cup (IF k.batch THEN {"rejected", "expired"} ELSE {})
    /\ k.hash = h

\* Mutant: a spent ticket stays approved.
AfterUseReusable(k, h) ==
    IF now > k.expires THEN "expired"
    ELSE IF Spendable(k, h) THEN k.state
    ELSE IF k.state = "approved" THEN "rejected"
    ELSE k.state

\* ... and the state they leave it in.
AfterUse(k, h) ==
    IF now > k.expires THEN "expired"
    ELSE IF Spendable(k, h) THEN "used"
    ELSE IF k.state \in {"approved"} \cup (IF k.batch THEN {"rejected", "expired"} ELSE {})
         THEN "rejected"
    ELSE k.state

\* GuardService::use_ticket, use_batch_ticket: refused, and without effect,
\* while the emergency stop is pulled.
Use(t, h) ==
    /\ ticket' = IF estop THEN ticket ELSE [ticket EXCEPT ![t].state = AfterUse(ticket[t], h)]
    /\ spent' = IF ~estop /\ Spendable(ticket[t], h)
                THEN [spent EXCEPT ![t] = Min2(@ + 1, 2)] ELSE spent

\* Mutant: the outcome is kept and the waiting thread is not told.
SignalStored(t, answer) ==
    /\ outcome' = [outcome EXCEPT ![t] = answer]
    /\ UNCHANGED <<waiter, asker>>

\* signal_ticket: the outcome is kept and the channel, if any, gets it.
Signal(t, answer) ==
    /\ outcome' = [outcome EXCEPT ![t] = answer]
    /\ waiter' = waiter \ {t}
    /\ asker' = [a \in Askers |->
                    IF t \in waiter /\ asker[a].step = "waiting" /\ asker[a].ticket = t
                    THEN [asker[a] EXCEPT !.told = answer] ELSE asker[a]]

-----------------------------------------------------------------------------
(* The human.                                                              *)

\* approve_with_nonce, approve_batch_with_nonce: no look at the clock.
Approve(t, n) ==
    /\ GuardFree
    /\ ticket[t].state = "pending" /\ ticket[t].nonce = n
    /\ ticket' = [ticket EXCEPT ![t].state = "approved"]
    /\ Signal(t, "yes")
    /\ UNCHANGED <<now, estop, install, spent, allowed>>

\* reject_with_nonce, reject_batch_with_nonce
Reject(t, n) ==
    /\ GuardFree
    /\ ticket[t].state = "pending" /\ ticket[t].nonce = n
    /\ ticket' = [ticket EXCEPT ![t].state = "revoked"]
    /\ Signal(t, "no")
    /\ UNCHANGED <<now, estop, install, spent, allowed>>

\* Mutant: any ticket can be extended.
ExtendAny(t, extra) ==
    /\ GuardFree
    /\ ticket[t].state # "absent" /\ ticket[t].nonce < MaxNonce
    /\ ticket' = [ticket EXCEPT
                    ![t].expires = Min2(Max2(@, now) + extra, now + TotalCap),
                    ![t].nonce = @ + 1]
    /\ UNCHANGED <<now, estop, outcome, waiter, asker, install, spent, allowed>>

\* extend_ticket_ttl: the nonce changes and the old card dies.
ExtendTtl(t, extra) ==
    /\ GuardFree
    /\ ticket[t].state = "pending" /\ ticket[t].nonce < MaxNonce
    /\ ticket' = [ticket EXCEPT
                    ![t].expires = Min2(Max2(@, now) + extra, now + TotalCap),
                    ![t].nonce = @ + 1]
    /\ UNCHANGED <<now, estop, outcome, waiter, asker, install, spent, allowed>>

\* guard/estop and guard/reset
SetEstop(pulled) ==
    /\ GuardFree
    /\ estop' = pulled /\ estop # pulled
    /\ UNCHANGED <<now, ticket, outcome, waiter, asker, install, spent, allowed>>

-----------------------------------------------------------------------------
(* Permission requests.                                                    *)

\* The callback evaluates.  An allowed ticket is spent before the mutex is
\* released; for an ask the thread registers its channel and waits.
AskerEvaluate(a, t, h, verdict) ==
    /\ asker[a].step = "idle"
    /\ \/ /\ verdict = "ask"
          /\ Mint(t, h, FALSE, verdict)
          /\ waiter' = waiter \cup {t}
          /\ asker' = [asker EXCEPT ![a] = [IdleAsker EXCEPT !.step = "waiting", !.ticket = t,
                                                             !.hash = h]]
          /\ UNCHANGED spent
       \/ /\ verdict = "allow"
          /\ GuardFree /\ ~estop /\ ticket[t].state = "absent"
          /\ ticket' = [ticket EXCEPT ![t] = [Minted(h, FALSE, verdict) EXCEPT !.state = "used"]]
          /\ allowed' = allowed \cup {t}
          /\ spent' = [spent EXCEPT ![t] = 1]
          /\ UNCHANGED <<waiter, asker>>
    /\ UNCHANGED <<now, estop, outcome, install>>

\* The user cancels the turn; the loop looks at the flag every 250 ms.
AskerCancel(a) ==
    /\ asker[a].step = "waiting" /\ ~asker[a].cancel
    /\ asker' = [asker EXCEPT ![a].cancel = TRUE]
    /\ UNCHANGED <<now, estop, ticket, outcome, waiter, install, spent, allowed>>

\* The wait ends: cancelled, told "no", or told "yes".  A denial leaves the
\* ticket and its channel as they are.
AskerWake(a) ==
    /\ asker[a].step = "waiting"
    /\ asker[a].cancel \/ asker[a].told # "none"
    /\ asker' = IF ~asker[a].cancel /\ asker[a].told = "yes"
                THEN [asker EXCEPT ![a].step = "approved"]
                ELSE [asker EXCEPT ![a] = IdleAsker]
    /\ UNCHANGED <<now, estop, ticket, outcome, waiter, install, spent, allowed>>

\* ... and the approved ticket is spent under the mutex taken again.
AskerSpend(a) ==
    /\ asker[a].step = "approved" /\ GuardFree
    /\ Use(asker[a].ticket, asker[a].hash)
    /\ asker' = [asker EXCEPT ![a] = IdleAsker]
    /\ UNCHANGED <<now, estop, outcome, waiter, install, allowed>>

-----------------------------------------------------------------------------
(* Executors.                                                              *)

\* guard/evaluate, tool/prepare and evaluate_batch
ExecutorEvaluate(t, h, batch, verdict) ==
    /\ Mint(t, h, batch, verdict)
    /\ UNCHANGED <<now, estop, outcome, waiter, asker, install, spent>>

\* tool/prepare of a native read-only tool: what the policy asks for is
\* approved on the spot, by the approval of the human's path without a nonce.
ExecutorPrepareRead(t, h) ==
    /\ GuardFree /\ ~estop
    /\ ticket[t].state = "absent"
    /\ ticket' = [ticket EXCEPT ![t] = [Minted(h, FALSE, "ask") EXCEPT !.state = "approved"]]
    /\ Signal(t, "yes")
    /\ UNCHANGED <<now, estop, install, spent, allowed>>

\* guard/use, tool/commit and the shell's commands: any ticket, any arguments.
ExecutorUse(t, h) ==
    /\ GuardFree /\ ticket[t].state # "absent"
    /\ Use(t, h)
    /\ UNCHANGED <<now, estop, outcome, waiter, asker, install, allowed>>

-----------------------------------------------------------------------------
(* The installer.                                                          *)

\* acp_install_request
InstallRequest(t, h, verdict) ==
    /\ install.step = "idle"
    /\ Mint(t, h, FALSE, verdict)
    /\ install' = [step |-> IF verdict = "allow" THEN "ready" ELSE "asked", ticket |-> t, hash |-> h]
    /\ UNCHANGED <<now, estop, outcome, waiter, asker, spent>>

\* acp_install_await: wait_ticket looks for an outcome and then waits with the
\* mutex held ...
InstallAwait ==
    /\ install.step = "asked"
    /\ LET known == outcome[install.ticket]
       IN /\ install' = IF known = "yes" THEN [install EXCEPT !.step = "ready"]
                        ELSE IF known = "no" THEN IdleInstall
                        ELSE [install EXCEPT !.step = "waiting"]
          /\ waiter' = IF known = "none" THEN waiter \cup {install.ticket} ELSE waiter
    /\ UNCHANGED <<now, estop, ticket, outcome, asker, spent, allowed>>

\* ... until the time is up.
InstallTimeout ==
    /\ install.step = "waiting"
    /\ install' = IdleInstall
    /\ UNCHANGED <<now, estop, ticket, outcome, waiter, asker, spent, allowed>>

\* acp_install_commit
InstallCommit ==
    /\ install.step = "ready"
    /\ Use(install.ticket, install.hash)
    /\ install' = IdleInstall
    /\ UNCHANGED <<now, estop, outcome, waiter, asker, allowed>>

Tick ==
    /\ now < MaxTime
    /\ now' = now + 1
    /\ UNCHANGED <<estop, ticket, outcome, waiter, asker, install, spent, allowed>>

-----------------------------------------------------------------------------

Init ==
    /\ now = 0
    /\ estop = FALSE
    /\ ticket = [t \in Tickets |-> NoTicketRecord]
    /\ outcome = [t \in Tickets |-> "none"]
    /\ waiter = {}
    /\ asker = [a \in Askers |-> IdleAsker]
    /\ install = IdleInstall
    /\ spent = [t \in Tickets |-> 0]
    /\ allowed = {}

HumanStep ==
    \/ \E t \in Tickets, n \in 0..MaxNonce : Approve(t, n) \/ Reject(t, n)
    \/ \E t \in Tickets, extra \in 1..StepCap : ExtendTtl(t, extra)
    \/ \E pulled \in BOOLEAN : SetEstop(pulled)

AskerProceed(a) == AskerWake(a) \/ AskerSpend(a)

AskerStep(a) ==
    \/ \E t \in Tickets, h \in Args, verdict \in {"allow", "ask"} : AskerEvaluate(a, t, h, verdict)
    \/ AskerCancel(a)
    \/ AskerProceed(a)

ExecutorStep == \E t \in Tickets, h \in Args :
    \/ \E batch \in BOOLEAN, verdict \in {"allow", "ask"} : ExecutorEvaluate(t, h, batch, verdict)
    \/ ExecutorPrepareRead(t, h)
    \/ ExecutorUse(t, h)

InstallProceed == InstallAwait \/ InstallTimeout \/ InstallCommit

InstallStep ==
    \/ \E t \in Tickets, h \in Args, verdict \in {"allow", "ask"} : InstallRequest(t, h, verdict)
    \/ InstallProceed

Next ==
    \/ HumanStep \/ ExecutorStep \/ InstallStep \/ Tick
    \/ \E a \in Askers : AskerStep(a)

Spec == Init /\ [][Next]_guardVars

\* The threads of the program go on when they can, and time passes.  Nobody
\* has to ask, decide or cancel.
FairSpec ==
    /\ Spec
    /\ WF_guardVars(Tick)
    /\ WF_guardVars(InstallProceed)
    /\ \A a \in Askers : WF_guardVars(AskerProceed(a))

-----------------------------------------------------------------------------
(* Properties.                                                             *)

\* Type correctness of the service's state.
TypeOK ==
    /\ now \in Nat
    /\ estop \in BOOLEAN
    /\ ticket \in [Tickets -> [state : TicketStates, batch : BOOLEAN, hash : Args \cup {"none"},
                               nonce : Nat, expires : Nat]]
    /\ outcome \in [Tickets -> {"none", "yes", "no"}]
    /\ waiter \subseteq Tickets
    /\ asker \in [Askers -> [step : {"idle", "waiting", "approved"},
                             ticket : Tickets \cup {NoTicket}, hash : Args \cup {"none"},
                             told : {"none", "yes", "no"}, cancel : BOOLEAN]]
    /\ install \in [step : {"idle", "asked", "waiting", "ready"},
                    ticket : Tickets \cup {NoTicket}, hash : Args \cup {"none"}]
    /\ spent \in [Tickets -> 0..2]
    /\ allowed \subseteq Tickets

\* A ticket authorises one action, whoever presents it and however often: the
\* thread that asked, the installer and executors that name the same id race
\* for it, with retries after an error and across its expiry.
SpentOnce == \A t \in Tickets : spent[t] <= 1

\* Nothing runs on a ticket that nobody approved: a spent ticket was minted as
\* approved by the policy or its decision was "yes", and no ticket that was
\* refused is ever spent.
SpendIsBacked == \A t \in Tickets : spent[t] > 0 => t \in allowed \/ outcome[t] = "yes"

\* A decision is about what was shown: once a ticket is decided its arguments,
\* its expiry and its nonce never change, and its decision is not changed.
DecidedIsFrozen ==
    [][\A t \in Tickets :
        ticket[t].state \notin {"absent", "pending"} =>
            /\ ticket'[t] = [ticket[t] EXCEPT !.state = ticket'[t].state]
            /\ ticket'[t].state # "pending"
            /\ outcome'[t] = outcome[t]]_guardVars

\* A decision reaches the thread that waits for it, although the mutex is
\* released between asking and waiting.
DecisionArrives ==
    \A a \in Askers, t \in Tickets :
        (asker[a].step = "waiting" /\ asker[a].ticket = t /\ outcome[t] # "none")
        ~> (asker[a].step # "waiting")

-----------------------------------------------------------------------------
(* What the repository says of the service and the code does not do.       *)

\* "block until the user answers the Guard-2 card": the user can answer while
\* the installer waits.
WaitCanBeAnswered ==
    (install.step = "waiting" /\ ticket[install.ticket].state = "pending")
    => ENABLED Approve(install.ticket, ticket[install.ticket].nonce)
=============================================================================
