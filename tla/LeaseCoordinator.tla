-------------------------- MODULE LeaseCoordinator --------------------------
(***************************************************************************)
(* The coordinator of resource leases (everyaios-core/src/workbench.rs,    *)
(* the types in everyaios-types/src/workbench.rs): which Work/Run may use  *)
(* a resource right now.  Observers share a resource, a writer excludes    *)
(* everyone else; a fence per resource moves whenever authority moves; and *)
(* every mutation emits a fact that its owner stores, from which a         *)
(* restarted coordinator is rebuilt.                                       *)
(*                                                                         *)
(* The stored facts are represented by what apply_fact makes of them with  *)
(* recovery set: rlease, rfence and rgen.  Each operation changes the      *)
(* coordinator in memory and applies its facts to these, under the rules   *)
(* of the rebuild, which are not those of the operation.                   *)
(*                                                                         *)
(* Possession (handle and bearer) is folded into the flag live: a lease    *)
(* that is active has a holder with its bearer exactly when it is live,    *)
(* because a rebuilt record gets a bearer nobody has.  Heartbeats, ids of  *)
(* Sessions and Works, and the texts of facts are left out: nothing here   *)
(* reads them.                                                             *)
(***************************************************************************)
EXTENDS Integers, FiniteSets

CONSTANTS
    Leases,          \* lease ids; an id is minted once
    Resources,       \* canonical resource keys
    ProviderHandles, \* the resources of kind ProviderHandle
    Bindings,        \* actors
    Scopes,          \* scope fingerprints
    Ttl,             \* lifetime of a lease, in ticks
    MaxTime,         \* bound on the clock
    MaxGen,          \* bound on the physical versions of a resource
    MaxFence         \* bound on the fence of a resource

ASSUME LeaseConstants ==
    /\ ProviderHandles \subseteq Resources
    /\ Resources # {} /\ Bindings # {} /\ Scopes # {}
    /\ IsFiniteSet(Leases)
    /\ Ttl \in Nat \ {0}
    /\ MaxTime \in Nat
    /\ MaxGen \in Nat
    /\ MaxFence \in Nat

VARIABLES
    now,      \* the caller's clock
    lease,    \* the records in memory
    fence,    \* the current fence of each resource, 0 before the first
    gen,      \* the physical version known for each resource, or Unseen
    rlease,   \* the records a rebuild makes of the stored facts
    rfence,   \* and the fences
    rgen,     \* and the versions
    unsaved   \* resources whose fence moved without a rebuild knowing

leaseVars == <<now, lease, fence, gen, rlease, rfence, rgen, unsaved>>

---------------------------------------------------------------------------
(* Records *)

Accesses == {"observe", "edit"}

States == {"active", "released", "expired", "revoked", "reclaim_pending",
           "reclaimed", "uncertain"}

Terminal == {"released", "expired", "revoked", "reclaimed"}

Unseen == -1

Gens == 0..MaxGen

LeaseRecord == [state : States \cup {"none"}, res : Resources,
                access : Accesses, binding : Bindings, scope : Scopes,
                gen : Gens, fence : Nat, live : BOOLEAN, until : Nat]

(* LeaseState::can_transition.  A state may always be repeated. *)
CanTransition(s, t) ==
    \/ s = t
    \/ s = "active" /\ t \in {"released", "expired", "revoked",
                              "reclaim_pending", "uncertain"}
    \/ s = "reclaim_pending" /\ t \in {"reclaimed", "uncertain", "revoked"}
    \/ s = "uncertain" /\ t \in {"reclaimed", "active", "revoked", "expired"}

Ended(r, s) == [[r EXCEPT !.state = s] EXCEPT !.live = FALSE]

Known(l) == lease[l].state # "none"

(* Leases of a resource that block an incompatible request. *)
LiveHolders(r) ==
    {l \in Leases : /\ lease[l].state = "active"
                    /\ lease[l].res = r
                    /\ lease[l].live
                    /\ now <= lease[l].until}

(* Mutant: an observer is admitted beside a writer. *)
IncompatibleWriters(r, a) ==
    {l \in LiveHolders(r) : a = "edit" /\ lease[l].access = "edit"}

(* LeaseAccess::compatible_with: only two observations are. *)
Incompatible(r, a) ==
    {l \in LiveHolders(r) : a = "edit" \/ lease[l].access = "edit"}

(* Mutant: observers take the fence as they find it, even the initial 0. *)
NextFenceAsFound(f, a) == IF a = "edit" THEN f + 1 ELSE f

(* A writer advances the fence; observers share the current one. *)
NextFence(f, a) ==
    IF a = "edit" THEN f + 1 ELSE IF f = 0 THEN 1 ELSE f

GenCurrent(r, g) == gen[r] \in {g, Unseen}

(***************************************************************************)
(* check_exercisable without the comparison of the actor and of the        *)
(* generation, which are the caller's arguments: the lease still carries   *)
(* authority.                                                              *)
(***************************************************************************)
Usable(l) ==
    /\ lease[l].fence = fence[lease[l].res]
    /\ lease[l].state = "active"
    /\ now <= lease[l].until
    /\ lease[l].live

---------------------------------------------------------------------------
(* Facts: what apply_fact makes of them in a rebuild *)

(* A fact about a known lease is skipped when it is behind the fence or is
   an illegal transition of the rebuilt record. *)
Accepts(l, s, f) ==
    /\ rlease[l].state # "none"
    /\ f >= rfence[rlease[l].res]
    /\ CanTransition(rlease[l].state, s)

Replayed(r, s, f) ==
    [[[r EXCEPT !.state = s] EXCEPT !.fence = f] EXCEPT !.live = FALSE]

(* One fact: lease l is in state s, at fence f. *)
Record(l, s, f) ==
    /\ rlease' = IF Accepts(l, s, f)
                 THEN [rlease EXCEPT ![l] = Replayed(rlease[l], s, f)]
                 ELSE rlease
    /\ rfence' = IF Accepts(l, s, f)
                 THEN [rfence EXCEPT ![rlease[l].res] = f]
                 ELSE rfence
    /\ UNCHANGED rgen

(* An acquired fact rebuilds the record as uncertain and unheld, and the
   version of the resource only if none is known. *)
Rebuilt(r) == [Ended(r, "uncertain") EXCEPT !.until = now + 1]

---------------------------------------------------------------------------
(* Fencing out a set of leases: revoke, takeover, retire_resource,
   invalidate_scope_fingerprint and note_provider_restart.  Each lease of
   the set moves the fence of its resource by one.  Which of the new fences
   a rebuilt record keeps depends on the order of the facts; it is never
   read, and the last one is taken. *)

On(S, r) == {l \in S : lease[l].res = r}

Bumped(S) == [r \in Resources |-> fence[r] + Cardinality(On(S, r))]

Evicted(S, s) ==
    [l \in Leases |-> IF l \in S THEN Ended(lease[l], s) ELSE lease[l]]

Took(S, s) == {l \in S : Accepts(l, s, Bumped(S)[lease[l].res])}

EvictedLater(S, s) ==
    [l \in Leases |-> IF l \in Took(S, s)
                      THEN Replayed(rlease[l], s, Bumped(S)[lease[l].res])
                      ELSE rlease[l]]

BumpedLater(S, s) ==
    [r \in Resources |-> IF On(Took(S, s), r) # {} THEN Bumped(S)[r]
                                                   ELSE rfence[r]]

FenceRoom(S) == \A r \in Resources : Bumped(S)[r] < MaxFence

Evict(S, s) ==
    /\ FenceRoom(S)
    /\ lease' = Evicted(S, s)
    /\ fence' = Bumped(S)
    /\ rlease' = EvictedLater(S, s)
    /\ rfence' = BumpedLater(S, s)
    /\ UNCHANGED <<now, gen, rgen>>

---------------------------------------------------------------------------
(* Operations *)

(* note_resource_generation: the engine publishes the version it sees. *)
NoteGeneration(r, g) ==
    /\ gen' = [gen EXCEPT ![r] = g]
    /\ UNCHANGED <<now, lease, fence, rlease, rfence, rgen, unsaved>>

Issued(r, a, b, c, g, f) ==
    [state |-> "active", res |-> r, access |-> a, binding |-> b,
     scope |-> c, gen |-> g, fence |-> f, live |-> TRUE, until |-> now + Ttl]

(* The end of acquire, from fences F and records L (rebuilt: RF, RL). *)
Issue(l, r, a, b, c, g, L, F, RL, RF) ==
    LET f == NextFence(F[r], a)
        new == Issued(r, a, b, c, g, f)
    IN  /\ lease' = [L EXCEPT ![l] = new]
        /\ fence' = [F EXCEPT ![r] = f]
        /\ gen' = [gen EXCEPT ![r] = g]
        /\ rlease' = [RL EXCEPT ![l] = Rebuilt(new)]
        /\ rfence' = [RF EXCEPT ![r] = IF f > RF[r] THEN f ELSE RF[r]]
        /\ rgen' = IF rgen[r] = Unseen THEN [rgen EXCEPT ![r] = g] ELSE rgen
        /\ UNCHANGED <<now, unsaved>>

Acquire(l, r, a, b, c, g) ==
    /\ ~Known(l)
    /\ rlease[l].state = "none"
    /\ GenCurrent(r, g)
    /\ Incompatible(r, a) = {}
    /\ NextFence(fence[r], a) < MaxFence
    /\ Issue(l, r, a, b, c, g, lease, fence, rlease, rfence)

(* Mutant: renewal repairs a lease whose time is over. *)
RenewLate(l) ==
    /\ lease[l].state = "active"
    /\ lease[l].live
    /\ GenCurrent(lease[l].res, lease[l].gen)
    /\ lease[l].fence = fence[lease[l].res]
    /\ lease' = [lease EXCEPT ![l].until = now + Ttl]
    /\ Record(l, "active", lease[l].fence)
    /\ UNCHANGED <<now, fence, gen, unsaved>>

Renew(l) ==
    /\ Usable(l)
    /\ GenCurrent(lease[l].res, lease[l].gen)
    /\ lease' = [lease EXCEPT ![l].until = now + Ttl]
    /\ Record(l, "active", lease[l].fence)
    /\ UNCHANGED <<now, fence, gen, unsaved>>

(* By the holder, who has the bearer.  The fence does not move. *)
Release(l) ==
    /\ lease[l].state = "active"
    /\ lease[l].live
    /\ lease' = [lease EXCEPT ![l] = Ended(lease[l], "released")]
    /\ Record(l, "released", lease[l].fence)
    /\ UNCHANGED <<now, fence, gen, unsaved>>

(* A revoked lease may be revoked again, and moves the fence again. *)
Revoke(l) ==
    /\ Known(l)
    /\ CanTransition(lease[l].state, "revoked")
    /\ Evict({l}, "revoked")
    /\ UNCHANGED unsaved

(* takeover: evict the incompatible holders, then acquire. *)
Takeover(l, r, a, b, c, g) ==
    LET S == Incompatible(r, a)
    IN  /\ ~Known(l)
        /\ rlease[l].state = "none"
        /\ GenCurrent(r, g)
        /\ NextFence(Bumped(S)[r], a) < MaxFence
        /\ Issue(l, r, a, b, c, g, Evicted(S, "revoked"), Bumped(S),
                 EvictedLater(S, "revoked"), BumpedLater(S, "revoked"))

(* When acquire refuses (here: a stale version), the holders are already
   evicted and the error drops the facts of their eviction. *)
TakeoverRefused(r, a, g) ==
    LET S == Incompatible(r, a)
    IN  /\ ~GenCurrent(r, g)
        /\ S # {}
        /\ FenceRoom(S)
        /\ lease' = Evicted(S, "revoked")
        /\ fence' = Bumped(S)
        /\ unsaved' = unsaved \cup {r}
        /\ UNCHANGED <<now, gen, rlease, rfence, rgen>>

(* sweep_expired.  Its facts carry the fence each lease was issued at, so
   they move no fence, and one that is behind is skipped by a rebuild. *)
Due == {l \in Leases : lease[l].state = "active" /\ now > lease[l].until}

SweepExpired ==
    /\ Due # {}
    /\ lease' = Evicted(Due, "expired")
    /\ rlease' = [l \in Leases |->
                    IF l \in Due /\ Accepts(l, "expired", lease[l].fence)
                    THEN Replayed(rlease[l], "expired", lease[l].fence)
                    ELSE rlease[l]]
    /\ UNCHANGED <<now, fence, gen, rfence, rgen, unsaved>>

(* The fact of a change of actor records only that the lease is active. *)
RevalidateActorBinding(l, b) ==
    /\ lease[l].state = "active"
    /\ lease[l].binding # b
    /\ GenCurrent(lease[l].res, lease[l].gen)
    /\ lease' = [lease EXCEPT ![l].binding = b]
    /\ Record(l, "active", lease[l].fence)
    /\ UNCHANGED <<now, fence, gen, unsaved>>

NoteProviderRestart(b) ==
    LET S == {l \in Leases : /\ lease[l].state = "active"
                             /\ lease[l].binding = b
                             /\ lease[l].res \in ProviderHandles}
    IN  S # {} /\ Evict(S, "uncertain") /\ UNCHANGED unsaved

Open(l) == lease[l].state \notin Terminal \cup {"none"}

RetireResource(r) ==
    LET S == {l \in Leases : Open(l) /\ lease[l].res = r}
    IN  S # {} /\ Evict(S, "revoked") /\ UNCHANGED unsaved

InvalidateScope(c) ==
    LET S == {l \in Leases : Open(l) /\ lease[l].scope = c}
    IN  S # {} /\ Evict(S, "revoked") /\ UNCHANGED unsaved

(* mark_holder_lost: uncertain; the fence does not move. *)
MarkHolderLost(l) ==
    /\ lease[l].state = "active"
    /\ lease' = [lease EXCEPT ![l] = Ended(lease[l], "uncertain")]
    /\ Record(l, "uncertain", lease[l].fence)
    /\ UNCHANGED <<now, fence, gen, unsaved>>

(* reconcile with a settled outcome; an unknown one changes nothing. *)
Reconcile(l) ==
    /\ lease[l].state = "uncertain"
    /\ lease' = [lease EXCEPT ![l].state = "reclaim_pending"]
    /\ Record(l, "reclaim_pending", lease[l].fence)
    /\ UNCHANGED <<now, fence, gen, unsaved>>

(* Mutant: the fact of a reclaim carries the fence the lease was issued
   at, as the facts of a release and of an expiry do. *)
ReclaimAtIssue(l) ==
    /\ lease[l].state = "reclaim_pending"
    /\ FenceRoom({l})
    /\ lease' = [lease EXCEPT ![l].state = "reclaimed"]
    /\ fence' = Bumped({l})
    /\ Record(l, "reclaimed", lease[l].fence)
    /\ UNCHANGED <<now, gen, unsaved>>

(* reclaim, with the proofs that the holder is dead and no effect is live.
   A rebuild refuses its fact, and the fence with it, for a record that it
   still has as active: active to reclaimed is no legal transition. *)
Reclaim(l) ==
    /\ lease[l].state = "reclaim_pending"
    /\ Evict({l}, "reclaimed")
    /\ unsaved' = unsaved \cup {r \in {lease[l].res} : rlease[l].state = "active"}

Tick ==
    /\ now < MaxTime
    /\ now' = now + 1
    /\ UNCHANGED <<lease, fence, gen, rlease, rfence, rgen, unsaved>>

(* The process ends; a new coordinator is rebuilt from all stored facts. *)
Restart ==
    /\ lease' = rlease
    /\ fence' = rfence
    /\ gen' = rgen
    /\ unsaved' = {}
    /\ UNCHANGED <<now, rlease, rfence, rgen>>

---------------------------------------------------------------------------
Blank(l) == [state |-> "none", res |-> CHOOSE r \in Resources : TRUE,
             access |-> "observe", binding |-> CHOOSE b \in Bindings : TRUE,
             scope |-> CHOOSE c \in Scopes : TRUE, gen |-> 0, fence |-> 0,
             live |-> FALSE, until |-> 0]

LeaseInit ==
    /\ now = 0
    /\ lease = [l \in Leases |-> Blank(l)]
    /\ fence = [r \in Resources |-> 0]
    /\ gen = [r \in Resources |-> Unseen]
    /\ rlease = lease
    /\ rfence = fence
    /\ rgen = gen
    /\ unsaved = {}

HolderStep(l) ==
    \/ Renew(l)
    \/ Release(l)
    \/ Revoke(l)
    \/ MarkHolderLost(l)
    \/ Reconcile(l)
    \/ Reclaim(l)
    \/ \E b \in Bindings : RevalidateActorBinding(l, b)

Request(l, r) ==
    \E a \in Accesses, b \in Bindings, c \in Scopes, g \in Gens :
        Acquire(l, r, a, b, c, g) \/ Takeover(l, r, a, b, c, g)

LeaseNext ==
    \/ \E l \in Leases : HolderStep(l)
    \/ \E l \in Leases, r \in Resources : Request(l, r)
    \/ \E r \in Resources, a \in Accesses, g \in Gens : TakeoverRefused(r, a, g)
    \/ \E r \in Resources, g \in Gens : NoteGeneration(r, g)
    \/ \E b \in Bindings : NoteProviderRestart(b)
    \/ \E r \in Resources : RetireResource(r)
    \/ \E c \in Scopes : InvalidateScope(c)
    \/ SweepExpired
    \/ Tick
    \/ Restart

LeaseSpec == LeaseInit /\ [][LeaseNext]_leaseVars

---------------------------------------------------------------------------
(* Properties *)

(* Every record is typed, in memory and rebuilt, and a lease that exists has
   a positive fence, as ResourceLease::validate demands. *)
LeaseTypeOK ==
    /\ now \in Nat
    /\ lease \in [Leases -> LeaseRecord]
    /\ rlease \in [Leases -> LeaseRecord]
    /\ fence \in [Resources -> Nat]
    /\ rfence \in [Resources -> Nat]
    /\ gen \in [Resources -> Gens \cup {Unseen}]
    /\ rgen \in [Resources -> Gens \cup {Unseen}]
    /\ unsaved \subseteq Resources
    /\ \A l \in Leases : Known(l) => lease[l].fence > 0

(* Two leases of one resource that both still carry authority are both
   observations: a writer is alone, through expiry, renewal, takeover,
   reclaim and rebuilds (acquire, workbench.rs). *)
OneWriter ==
    \A k, l \in Leases :
        (k # l /\ Usable(k) /\ Usable(l) /\ lease[k].res = lease[l].res)
            => lease[k].access = "observe" /\ lease[l].access = "observe"

(* Authority that is lost is lost: whatever ended it (release, expiry, a
   fence that moved, a restart), no later operation on this or another
   lease, and no rebuild, lets the same lease act again
   (check_exercisable: "renewal never repairs staleness"). *)
LossIsFinal ==
    [][\A l \in Leases : (Known(l) /\ ~Usable(l)) => ~Usable(l)']_leaseVars

(* The fence of a resource never goes back, in a process or over a restart,
   except where a refused takeover dropped the facts of its evictions, or a
   rebuild refuses the fact of a reclaim. *)
FenceGrows ==
    [][\A r \in Resources : r \in unsaved \/ fence'[r] >= fence[r]]_leaseVars
=============================================================================
