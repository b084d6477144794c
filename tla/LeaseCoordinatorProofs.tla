----------------------- MODULE LeaseCoordinatorProofs -----------------------
(***************************************************************************)
(* Theorems about LeaseCoordinator, for every value of its constants.      *)
(***************************************************************************)
EXTENDS LeaseCoordinator, FiniteSetTheorems, TLAPS

(***************************************************************************)
(* What holds between records L and fences F in memory and their rebuilt   *)
(* counterparts RL and RF, where U is the set of resources whose rebuilt   *)
(* fence may be behind.                                                    *)
(***************************************************************************)
Typed(L, F, RL, RF) ==
    /\ L \in [Leases -> LeaseRecord]
    /\ RL \in [Leases -> LeaseRecord]
    /\ F \in [Resources -> Nat]
    /\ RF \in [Resources -> Nat]

(* No lease carries a fence ahead of its resource's; issued ones have one. *)
Fenced(L, F) ==
    \A l \in Leases : /\ L[l].fence <= F[L[l].res]
                      /\ L[l].state # "none" => L[l].fence > 0

(* A rebuilt record is about the same lease, has no holder, and has ended
   only if the lease has, in the same way. *)
Mirrors(L, RL) ==
    \A l \in Leases :
        /\ ~RL[l].live
        /\ RL[l].res = L[l].res
        /\ RL[l].state = "none" <=> L[l].state = "none"
        /\ RL[l].state \in Terminal => L[l].state = RL[l].state

(* The rebuilt fence is the fence, or behind it where a move was missed. *)
Behind(F, RF, U) ==
    \A r \in Resources : /\ RF[r] <= F[r]
                         /\ r \notin U => RF[r] = F[r]

Proper(L, F, RL, RF, U) ==
    /\ Typed(L, F, RL, RF)
    /\ Fenced(L, F)
    /\ Fenced(L, RF)
    /\ Fenced(RL, RF)
    /\ Mirrors(L, RL)
    /\ Behind(F, RF, U)

(* The inductive invariant. *)
LInv ==
    /\ Proper(lease, fence, rlease, rfence, unsaved)
    /\ now \in Nat
    /\ gen \in [Resources -> Gens \cup {Unseen}]
    /\ rgen \in [Resources -> Gens \cup {Unseen}]
    /\ unsaved \subseteq Resources
    /\ OneWriter

(* What a step does to the authority of leases and to fences. *)
LossStep == \A l \in Leases : (Known(l) /\ ~Usable(l)) => ~Usable(l)'

FenceStep == \A r \in Resources : r \in unsaved \/ fence'[r] >= fence[r]

(* No lease gains authority; those that keep it keep resource and access. *)
Shrinks ==
    \A l \in Leases : Usable(l)' => /\ Usable(l)
                                    /\ lease'[l].res = lease[l].res
                                    /\ lease'[l].access = lease[l].access

---------------------------------------------------------------------------
(* A step under which no lease gains authority keeps writers alone. *)
LEMMA ShrinkingKeepsOneWriter ==
    ASSUME OneWriter, Shrinks
    PROVE  OneWriter' /\ LossStep
BY DEF OneWriter, Shrinks, LossStep

(* Records that keep resource and fence stay fenced when fences rise. *)
LEMMA FencedAbove ==
    ASSUME NEW L \in [Leases -> LeaseRecord],
           NEW M \in [Leases -> LeaseRecord],
           NEW F \in [Resources -> Nat], NEW G \in [Resources -> Nat],
           Fenced(L, F),
           \A l \in Leases : /\ M[l].res = L[l].res
                             /\ M[l].fence = L[l].fence
                             /\ M[l].state # "none" => L[l].state # "none",
           \A r \in Resources : G[r] >= F[r]
    PROVE  Fenced(M, G)
<1> SUFFICES ASSUME NEW l \in Leases
             PROVE  /\ M[l].fence <= G[M[l].res]
                    /\ M[l].state # "none" => M[l].fence > 0
    BY DEF Fenced
<1>1. L[l].res \in Resources /\ L[l].fence \in Nat
    BY DEF LeaseRecord
<1>2. F[L[l].res] \in Nat /\ G[L[l].res] \in Nat
    BY <1>1
<1>3. /\ L[l].fence <= F[L[l].res]
      /\ L[l].state # "none" => L[l].fence > 0
    BY DEF Fenced
<1> QED
    BY <1>1, <1>2, <1>3

(* Bumped is a fence per resource, and moves exactly where leases are. *)
LEMMA BumpedMoves ==
    ASSUME Typed(lease, fence, rlease, rfence), NEW S \in SUBSET Leases
    PROVE  /\ Bumped(S) \in [Resources -> Nat]
           /\ \A r \in Resources : /\ Bumped(S)[r] >= fence[r]
                                   /\ On(S, r) # {} => Bumped(S)[r] > fence[r]
                                   /\ On(S, r) = {} => Bumped(S)[r] = fence[r]
<1> SUFFICES ASSUME NEW r \in Resources
             PROVE  /\ Cardinality(On(S, r)) \in Nat
                    /\ On(S, r) # {} => Cardinality(On(S, r)) > 0
                    /\ On(S, r) = {} => Cardinality(On(S, r)) = 0
    BY DEF Bumped, Typed
<1>1. IsFiniteSet(On(S, r))
    <2>1. On(S, r) \subseteq Leases
        BY DEF On
    <2> QED
        BY <2>1, FS_Subset, LeaseConstants
<1>2. Cardinality(On(S, r)) \in Nat
    BY <1>1, FS_CardinalityType
<1>3. Cardinality(On(S, r)) = 0 <=> On(S, r) = {}
    BY <1>1, FS_EmptySet
<1> QED
    BY <1>2, <1>3

(* What an eviction leaves of one record. *)
LEMMA EvictedRecord ==
    ASSUME Typed(lease, fence, rlease, rfence), NEW S \in SUBSET Leases, NEW s \in States,
           NEW l \in Leases
    PROVE  /\ Evicted(S, s)[l] \in LeaseRecord
           /\ Evicted(S, s)[l].res = lease[l].res
           /\ Evicted(S, s)[l].access = lease[l].access
           /\ Evicted(S, s)[l].fence = lease[l].fence
           /\ Evicted(S, s)[l].until = lease[l].until
           /\ l \in S => /\ Evicted(S, s)[l].state = s
                         /\ ~Evicted(S, s)[l].live
           /\ l \notin S => Evicted(S, s)[l] = lease[l]
BY DEF Evicted, Ended, Typed, LeaseRecord

LEMMA ReplayedRecord ==
    ASSUME NEW x \in LeaseRecord, NEW s \in States, NEW f \in Nat
    PROVE  /\ Replayed(x, s, f) \in LeaseRecord
           /\ Replayed(x, s, f).res = x.res
           /\ Replayed(x, s, f).state = s
           /\ Replayed(x, s, f).fence = f
           /\ ~Replayed(x, s, f).live
BY DEF Replayed, LeaseRecord

(* An eviction keeps memory and rebuild in step.  Its fact is refused by a
   rebuild only where U says so. *)
LEMMA EvictionIsProper ==
    ASSUME Proper(lease, fence, rlease, rfence, unsaved),
           NEW S \in SUBSET Leases,
           NEW s \in {"revoked", "uncertain", "reclaimed"},
           NEW U \in SUBSET Resources, unsaved \subseteq U,
           \A l \in S : /\ lease[l].state # "none"
                        /\ lease[l].state \in Terminal => lease[l].state = s
                        /\ \/ CanTransition(rlease[l].state, s)
                           \/ lease[l].res \in U
    PROVE  Proper(Evicted(S, s), Bumped(S), EvictedLater(S, s),
                  BumpedLater(S, s), U)
<1> DEFINE L == Evicted(S, s)
           F == Bumped(S)
           RL == EvictedLater(S, s)
           RF == BumpedLater(S, s)
           T == Took(S, s)
<1>1. Typed(lease, fence, rlease, rfence) /\ s \in States
    BY DEF Proper, States
<1>2. /\ F \in [Resources -> Nat]
      /\ \A r \in Resources : /\ F[r] >= fence[r]
                              /\ On(S, r) # {} => F[r] > fence[r]
                              /\ On(S, r) = {} => F[r] = fence[r]
    BY <1>1, BumpedMoves
<1>3. ASSUME NEW l \in Leases
      PROVE  /\ L[l] \in LeaseRecord
             /\ L[l].res = lease[l].res
             /\ L[l].fence = lease[l].fence
             /\ l \in S => L[l].state = s
             /\ l \notin S => L[l] = lease[l]
    BY <1>1, EvictedRecord
<1>4. ASSUME NEW l \in Leases
      PROVE  lease[l].res \in Resources /\ rlease[l].res = lease[l].res
    BY DEF Proper, Typed, Mirrors, LeaseRecord
<1>5. T \subseteq S
    BY DEF Took
<1>6. ASSUME NEW l \in Leases
      PROVE  /\ RL[l] \in LeaseRecord
             /\ RL[l].res = rlease[l].res
             /\ l \in T => /\ RL[l].state = s
                           /\ RL[l].fence = F[lease[l].res]
                           /\ ~RL[l].live
             /\ l \notin T => RL[l] = rlease[l]
    <2>1. rlease[l] \in LeaseRecord /\ F[lease[l].res] \in Nat
        BY <1>1, <1>2, <1>4 DEF Typed
    <2>2. RL[l] = IF l \in T THEN Replayed(rlease[l], s, F[lease[l].res])
                             ELSE rlease[l]
        BY DEF EvictedLater
    <2> HIDE DEF L, F, RL, RF, T
    <2> QED
        BY <2>1, <2>2, <1>1, ReplayedRecord
<1>7. ASSUME NEW r \in Resources
      PROVE  /\ RF[r] \in Nat
             /\ On(T, r) # {} => RF[r] = F[r]
             /\ On(T, r) = {} => RF[r] = rfence[r]
    BY <1>1, <1>2 DEF BumpedLater, Typed
<1>8. RF \in [Resources -> Nat]
    BY <1>7 DEF BumpedLater
<1>9. L \in [Leases -> LeaseRecord] /\ RL \in [Leases -> LeaseRecord]
    BY <1>3, <1>6 DEF Evicted, EvictedLater
<1>10. \A l \in T : l \in On(T, lease[l].res)
    BY <1>5 DEF On
<1>11. \A l \in S : CanTransition(rlease[l].state, s) => l \in T
    <2> SUFFICES ASSUME NEW l \in S, CanTransition(rlease[l].state, s)
                 PROVE  Accepts(l, s, F[lease[l].res])
        BY DEF Took
    <2>1. rlease[l].state # "none"
        BY DEF Proper, Mirrors
    <2>2. F[lease[l].res] >= rfence[rlease[l].res]
        BY <1>1, <1>2, <1>4 DEF Proper, Behind, Typed
    <2> QED
        BY <2>1, <2>2 DEF Accepts
<1> HIDE DEF L, F, RL, RF, T
<1>12. Fenced(L, F)
    BY <1>1, <1>2, <1>3, <1>4 DEF Fenced, Proper, Typed, LeaseRecord
<1>13. \A r \in Resources : RF[r] >= rfence[r]
    BY <1>1, <1>2, <1>7 DEF Proper, Behind, Typed
<1>17. Fenced(L, RF)
    <2>1. /\ Fenced(lease, rfence)
          /\ lease \in [Leases -> LeaseRecord]
          /\ rfence \in [Resources -> Nat]
        BY DEF Proper, Typed
    <2>2. \A l \in Leases : L[l].state # "none" => lease[l].state # "none"
        BY <1>3
    <2> QED
        BY <2>1, <2>2, <1>3, <1>8, <1>9, <1>13, FencedAbove
<1>14. Fenced(RL, RF)
    <2> SUFFICES ASSUME NEW l \in Leases
                 PROVE  /\ RL[l].fence <= RF[RL[l].res]
                        /\ RL[l].state # "none" => RL[l].fence > 0
        BY DEF Fenced
    <2>1. CASE l \in T
        <3>1. RL[l].fence = RF[RL[l].res]
            BY <2>1, <1>4, <1>6, <1>7, <1>10
        <3>2. On(S, lease[l].res) # {}
            BY <2>1, <1>5 DEF On
        <3>3. F[lease[l].res] > fence[lease[l].res]
            BY <3>2, <1>2, <1>4
        <3>4. fence[lease[l].res] \in Nat /\ F[lease[l].res] \in Nat
            BY <1>1, <1>2, <1>4 DEF Typed
        <3> QED
            BY <2>1, <3>1, <3>3, <3>4, <1>6
    <2>2. CASE l \notin T
        <3>1. rlease[l].fence \in Nat
            BY <1>1 DEF Typed, LeaseRecord
        <3>2. /\ rlease[l].fence <= rfence[rlease[l].res]
              /\ rlease[l].state # "none" => rlease[l].fence > 0
            BY DEF Proper, Fenced
        <3>3. rfence[rlease[l].res] \in Nat /\ RF[rlease[l].res] \in Nat
            BY <1>1, <1>4, <1>7 DEF Typed
        <3> QED
            BY <2>2, <3>1, <3>2, <3>3, <1>4, <1>6, <1>13
    <2> QED
        BY <2>1, <2>2
<1>15. Mirrors(L, RL)
    <2> SUFFICES ASSUME NEW l \in Leases
                 PROVE  /\ ~RL[l].live
                        /\ RL[l].res = L[l].res
                        /\ RL[l].state = "none" <=> L[l].state = "none"
                        /\ RL[l].state \in Terminal => L[l].state = RL[l].state
        BY DEF Mirrors
    <2>1. /\ ~rlease[l].live
          /\ rlease[l].state = "none" <=> lease[l].state = "none"
          /\ rlease[l].state \in Terminal => lease[l].state = rlease[l].state
        BY DEF Proper, Mirrors
    <2>2. CASE l \in T
        BY <2>2, <1>3, <1>4, <1>5, <1>6
    <2>3. CASE l \notin T /\ l \in S
        BY <2>1, <2>3, <1>3, <1>4, <1>6
    <2>4. CASE l \notin T /\ l \notin S
        BY <2>1, <2>4, <1>3, <1>4, <1>6
    <2> QED
        BY <2>2, <2>3, <2>4
<1>16. Behind(F, RF, U)
    <2> SUFFICES ASSUME NEW r \in Resources
                 PROVE  RF[r] <= F[r] /\ (r \notin U => RF[r] = F[r])
        BY DEF Behind
    <2>1. /\ rfence[r] \in Nat /\ fence[r] \in Nat /\ F[r] \in Nat
          /\ rfence[r] <= fence[r]
          /\ r \notin U => rfence[r] = fence[r]
        BY <1>1, <1>2 DEF Proper, Behind, Typed
    <2>2. CASE On(T, r) # {}
        BY <2>1, <2>2, <1>7
    <2>3. CASE On(T, r) = {}
        <3>1. RF[r] <= F[r]
            BY <2>1, <2>3, <1>2, <1>7
        <3>2. ASSUME r \notin U PROVE On(S, r) = {}
            BY <2>3, <3>2, <1>11 DEF On
        <3> QED
            BY <2>1, <2>3, <3>1, <3>2, <1>2, <1>7
    <2> QED
        BY <2>2, <2>3
<1> QED
    BY <1>2, <1>8, <1>9, <1>12, <1>14, <1>15, <1>16, <1>17
    DEF Proper, Typed, L, F, RL, RF

(* After an eviction a lease has authority only if it had it before, and
   it was not evicted. *)
LEMMA EvictionShrinks ==
    ASSUME Proper(lease, fence, rlease, rfence, unsaved),
           NEW S \in SUBSET Leases, NEW s \in States, NEW l \in Leases,
           Evicted(S, s)[l].fence = Bumped(S)[Evicted(S, s)[l].res],
           Evicted(S, s)[l].live
    PROVE  /\ l \notin S
           /\ Evicted(S, s)[l] = lease[l]
           /\ lease[l].fence = fence[lease[l].res]
<1>1. Typed(lease, fence, rlease, rfence)
    BY DEF Proper
<1>2. l \notin S /\ Evicted(S, s)[l] = lease[l]
    BY <1>1, EvictedRecord
<1>3. /\ Bumped(S) \in [Resources -> Nat]
      /\ \A r \in Resources : Bumped(S)[r] >= fence[r]
    BY <1>1, BumpedMoves
<1>4. /\ lease[l].res \in Resources
      /\ lease[l].fence \in Nat
      /\ fence[lease[l].res] \in Nat
    BY <1>1 DEF Typed, LeaseRecord
<1>5. lease[l].fence <= fence[lease[l].res]
    BY DEF Proper, Fenced
<1> QED
    BY <1>2, <1>3, <1>4, <1>5

(* An action that is only an eviction. *)
LEMMA EvictStep ==
    ASSUME LInv, NEW S \in SUBSET Leases,
           NEW s \in {"revoked", "uncertain", "reclaimed"},
           Evict(S, s),
           unsaved \subseteq unsaved', unsaved' \subseteq Resources,
           \A l \in S : /\ lease[l].state # "none"
                        /\ lease[l].state \in Terminal => lease[l].state = s
                        /\ \/ CanTransition(rlease[l].state, s)
                           \/ lease[l].res \in unsaved'
    PROVE  LInv' /\ LossStep /\ FenceStep
<1>1. Proper(lease, fence, rlease, rfence, unsaved)
    BY DEF LInv
<1>2. Proper(Evicted(S, s), Bumped(S), EvictedLater(S, s),
             BumpedLater(S, s), unsaved')
    BY <1>1, EvictionIsProper
<1>3. /\ lease' = Evicted(S, s)
      /\ fence' = Bumped(S)
      /\ rlease' = EvictedLater(S, s)
      /\ rfence' = BumpedLater(S, s)
      /\ UNCHANGED <<now, gen, rgen>>
    BY DEF Evict
<1>4. Proper(lease, fence, rlease, rfence, unsaved)'
    BY <1>2, <1>3
<1>5. Shrinks
    <2> SUFFICES ASSUME NEW l \in Leases, Usable(l)'
                 PROVE  Usable(l) /\ lease'[l] = lease[l]
        BY DEF Shrinks
    <2>1. /\ lease'[l].fence = fence'[lease'[l].res]
          /\ lease'[l].live
          /\ lease'[l].state = "active"
          /\ now' <= lease'[l].until
        BY DEF Usable
    <2>2. s \in States
        BY DEF States
    <2>3. lease'[l] = lease[l] /\ lease[l].fence = fence[lease[l].res]
        BY <2>1, <2>2, <1>1, <1>3, EvictionShrinks
    <2> QED
        BY <2>1, <2>3, <1>3 DEF Usable
<1>6. OneWriter' /\ LossStep
    BY <1>5, ShrinkingKeepsOneWriter DEF LInv
<1>7. FenceStep
    BY <1>1, <1>3, BumpedMoves DEF FenceStep, Proper
<1> QED
    BY <1>3, <1>4, <1>6, <1>7 DEF LInv

(* An action on one record that moves no fence, with a fact at the fence the
   lease was issued at. *)
LEMMA OneLeaseStep ==
    ASSUME LInv, NEW l \in Leases, NEW x \in LeaseRecord, NEW s \in States,
           lease[l].state \notin Terminal, lease[l].state # "none",
           x.state # "none", s \in Terminal => x.state = s,
           x.res = lease[l].res, x.fence = lease[l].fence,
           x.access = lease[l].access,
           (x.live /\ x.state = "active" /\ now <= x.until
                /\ lease[l].fence = fence[lease[l].res])
               => Usable(l),
           lease' = [lease EXCEPT ![l] = x],
           Record(l, s, lease[l].fence),
           UNCHANGED <<now, fence, gen, unsaved>>
    PROVE  LInv' /\ LossStep /\ FenceStep
<1> DEFINE f == lease[l].fence
           y == Replayed(rlease[l], s, f)
<1>1. /\ Typed(lease, fence, rlease, rfence)
      /\ Fenced(lease, fence)
      /\ Fenced(lease, rfence)
      /\ Fenced(rlease, rfence)
      /\ Mirrors(lease, rlease)
      /\ Behind(fence, rfence, unsaved)
    BY DEF LInv, Proper
<1>2. /\ f \in Nat /\ f > 0
      /\ lease[l].res \in Resources /\ rlease[l].res = lease[l].res
      /\ f <= fence[lease[l].res]
      /\ rlease[l] \in LeaseRecord
    BY <1>1 DEF Typed, Fenced, Mirrors, LeaseRecord
<1>3. /\ y \in LeaseRecord
      /\ y.res = lease[l].res
      /\ y.state = s
      /\ y.fence = f
      /\ ~y.live
    BY <1>2, ReplayedRecord
<1> HIDE DEF y
<1>4. ASSUME Accepts(l, s, f)
      PROVE  Proper(lease, fence, rlease, rfence, unsaved)'
    <2>1. /\ rlease' = [rlease EXCEPT ![l] = y]
          /\ rfence' = [rfence EXCEPT ![rlease[l].res] = f]
          /\ UNCHANGED rgen
        BY <1>4 DEF Record, y
    <2>2. f >= rfence[rlease[l].res]
        BY <1>4 DEF Accepts
    <2>3. Typed(lease, fence, rlease, rfence)'
        BY <1>1, <1>2, <1>3, <2>1 DEF Typed
    <2>4. Fenced(lease, fence)'
        BY <1>1, <1>2 DEF Fenced, Typed
    <2>5. \A r \in Resources : rfence'[r] >= rfence[r]
        BY <1>1, <1>2, <2>1, <2>2 DEF Typed
    <2>9. Fenced(lease, rfence)'
        <3>1. /\ lease' \in [Leases -> LeaseRecord]
              /\ rfence' \in [Resources -> Nat]
            BY <2>3 DEF Typed
        <3>2. \A k \in Leases : /\ lease'[k].res = lease[k].res
                                /\ lease'[k].fence = lease[k].fence
                                /\ lease'[k].state # "none"
                                       => lease[k].state # "none"
            BY <1>1 DEF Typed
        <3>3. /\ lease \in [Leases -> LeaseRecord]
              /\ rfence \in [Resources -> Nat]
              /\ Fenced(lease, rfence)
            BY <1>1 DEF Typed
        <3> SUFFICES ASSUME NEW k \in Leases
                     PROVE  /\ lease'[k].fence <= rfence'[lease'[k].res]
                            /\ lease'[k].state # "none" => lease'[k].fence > 0
            BY DEF Fenced
        <3>4. lease[k].res \in Resources /\ lease[k].fence \in Nat
            BY <3>3 DEF LeaseRecord
        <3>5. rfence[lease[k].res] \in Nat /\ rfence'[lease[k].res] \in Nat
            BY <3>1, <3>3, <3>4
        <3>6. /\ lease[k].fence <= rfence[lease[k].res]
              /\ lease[k].state # "none" => lease[k].fence > 0
            BY <3>3 DEF Fenced
        <3> QED
            BY <3>2, <3>4, <3>5, <3>6, <2>5
    <2>6. Fenced(rlease, rfence)'
        <3> SUFFICES ASSUME NEW k \in Leases
                     PROVE  /\ rlease'[k].fence <= rfence'[rlease'[k].res]
                            /\ rlease'[k].state # "none" => rlease'[k].fence > 0
            BY DEF Fenced
        <3>1. CASE k = l
            BY <3>1, <1>1, <1>2, <1>3, <2>1 DEF Typed
        <3>2. CASE k # l
            <4>1. rlease'[k] = rlease[k]
                BY <3>2, <1>1, <2>1 DEF Typed
            <4>2. /\ rlease[k].res \in Resources
                  /\ rlease[k].fence \in Nat
                  /\ rfence[rlease[k].res] \in Nat
                  /\ rfence'[rlease[k].res] \in Nat
                BY <1>1, <2>3 DEF Typed, LeaseRecord
            <4>3. /\ rlease[k].fence <= rfence[rlease[k].res]
                  /\ rlease[k].state # "none" => rlease[k].fence > 0
                BY <1>1 DEF Fenced
            <4> QED
                BY <4>1, <4>2, <4>3, <2>5
        <3> QED
            BY <3>1, <3>2
    <2>7. Mirrors(lease, rlease)'
        BY <1>1, <1>2, <1>3, <2>1 DEF Mirrors, Typed, States
    <2>8. Behind(fence, rfence, unsaved)'
        BY <1>1, <1>2, <2>1, <2>2 DEF Behind, Typed
    <2> QED
        BY <2>1, <2>3, <2>4, <2>6, <2>7, <2>8, <2>9 DEF Proper
<1>5. ASSUME ~Accepts(l, s, f)
      PROVE  Proper(lease, fence, rlease, rfence, unsaved)'
    <2>1. UNCHANGED <<rlease, rfence, rgen>>
        BY <1>5 DEF Record
    <2>2. Typed(lease, fence, rlease, rfence)'
        BY <1>1, <2>1 DEF Typed
    <2>3. Fenced(lease, fence)'
        BY <1>1, <1>2 DEF Fenced, Typed
    <2>7. Fenced(lease, rfence)'
        BY <1>1, <1>2, <2>1 DEF Fenced, Typed
    <2>4. Fenced(rlease, rfence)'
        BY <1>1, <2>1 DEF Fenced
    <2>5. Mirrors(lease, rlease)'
        BY <1>1, <1>2, <2>1 DEF Mirrors, Typed
    <2>6. Behind(fence, rfence, unsaved)'
        BY <1>1, <2>1 DEF Behind
    <2> QED
        BY <2>1, <2>2, <2>3, <2>4, <2>5, <2>6, <2>7 DEF Proper
<1>6. Proper(lease, fence, rlease, rfence, unsaved)' /\ UNCHANGED rgen
    <2>1. UNCHANGED rgen
        BY DEF Record
    <2> QED
        BY <2>1, <1>4, <1>5
<1>7. Shrinks
    <2> SUFFICES ASSUME NEW k \in Leases, Usable(k)'
                 PROVE  /\ Usable(k)
                        /\ lease'[k].res = lease[k].res
                        /\ lease'[k].access = lease[k].access
        BY DEF Shrinks
    <2>1. CASE k = l
        <3>1. lease'[k] = x
            BY <2>1, <1>1 DEF Typed
        <3> QED
            BY <2>1, <3>1 DEF Usable
    <2>2. CASE k # l
        <3>1. lease'[k] = lease[k]
            BY <2>2, <1>1 DEF Typed
        <3> QED
            BY <3>1 DEF Usable
    <2> QED
        BY <2>1, <2>2
<1>8. OneWriter' /\ LossStep
    BY <1>7, ShrinkingKeepsOneWriter DEF LInv
<1>9. FenceStep
    BY <1>1 DEF FenceStep, Typed
<1> QED
    BY <1>6, <1>8, <1>9 DEF LInv

(* Issuing a lease on top of records and fences that are proper. *)
LEMMA IssueIsProper ==
    ASSUME NEW L, NEW F, NEW RL, NEW RF,
           Proper(L, F, RL, RF, unsaved),
           NEW l \in Leases, L[l].state = "none",
           NEW r \in Resources, NEW f \in Nat, f > 0, f >= F[r],
           NEW x \in LeaseRecord, x.res = r, x.fence = f, x.state = "active",
           NEW y \in LeaseRecord, y.res = r, y.fence = f,
           y.state = "uncertain", ~y.live
    PROVE  Proper([L EXCEPT ![l] = x], [F EXCEPT ![r] = f],
                  [RL EXCEPT ![l] = y],
                  [RF EXCEPT ![r] = IF f > RF[r] THEN f ELSE RF[r]], unsaved)
<1> DEFINE L2 == [L EXCEPT ![l] = x]
           F2 == [F EXCEPT ![r] = f]
           RL2 == [RL EXCEPT ![l] = y]
           RF2 == [RF EXCEPT ![r] = IF f > RF[r] THEN f ELSE RF[r]]
<1>1. /\ Typed(L, F, RL, RF)
      /\ Fenced(L, F)
      /\ Fenced(L, RF)
      /\ Fenced(RL, RF)
      /\ Mirrors(L, RL)
      /\ Behind(F, RF, unsaved)
    BY DEF Proper
<1>2. Typed(L2, F2, RL2, RF2)
    BY <1>1 DEF Typed
<1>3. /\ L2[l] = x /\ RL2[l] = y
      /\ \A k \in Leases : k # l => L2[k] = L[k] /\ RL2[k] = RL[k]
    BY <1>1 DEF Typed
<1>4. /\ F2[r] = f /\ RF2[r] = f
      /\ \A q \in Resources : q # r => F2[q] = F[q] /\ RF2[q] = RF[q]
      /\ \A q \in Resources : F2[q] >= F[q] /\ RF2[q] >= RF[q]
    <2>1. RF[r] <= F[r] /\ F[r] \in Nat /\ RF[r] \in Nat
        BY <1>1 DEF Behind, Typed
    <2> QED
        BY <2>1, <1>1 DEF Typed
<1> HIDE DEF L2, F2, RL2, RF2
<1>5. Fenced(L2, F2)
    <2> SUFFICES ASSUME NEW k \in Leases
                 PROVE  /\ L2[k].fence <= F2[L2[k].res]
                        /\ L2[k].state # "none" => L2[k].fence > 0
        BY DEF Fenced
    <2>1. CASE k = l
        BY <2>1, <1>3, <1>4
    <2>2. CASE k # l
        <3>1. /\ L[k].res \in Resources /\ L[k].fence \in Nat
              /\ F[L[k].res] \in Nat /\ F2[L[k].res] \in Nat
            BY <1>1, <1>2 DEF Typed, LeaseRecord
        <3>2. /\ L[k].fence <= F[L[k].res]
              /\ L[k].state # "none" => L[k].fence > 0
            BY <1>1 DEF Fenced
        <3> QED
            BY <2>2, <3>1, <3>2, <1>3, <1>4
    <2> QED
        BY <2>1, <2>2
<1>9. Fenced(L2, RF2)
    <2> SUFFICES ASSUME NEW k \in Leases
                 PROVE  /\ L2[k].fence <= RF2[L2[k].res]
                        /\ L2[k].state # "none" => L2[k].fence > 0
        BY DEF Fenced
    <2>1. CASE k = l
        BY <2>1, <1>3, <1>4
    <2>2. CASE k # l
        <3>1. /\ L[k].res \in Resources /\ L[k].fence \in Nat
              /\ RF[L[k].res] \in Nat /\ RF2[L[k].res] \in Nat
            BY <1>1, <1>2 DEF Typed, LeaseRecord
        <3>2. /\ L[k].fence <= RF[L[k].res]
              /\ L[k].state # "none" => L[k].fence > 0
            BY <1>1 DEF Fenced
        <3> QED
            BY <2>2, <3>1, <3>2, <1>3, <1>4
    <2> QED
        BY <2>1, <2>2
<1>6. Fenced(RL2, RF2)
    <2> SUFFICES ASSUME NEW k \in Leases
                 PROVE  /\ RL2[k].fence <= RF2[RL2[k].res]
                        /\ RL2[k].state # "none" => RL2[k].fence > 0
        BY DEF Fenced
    <2>1. CASE k = l
        BY <2>1, <1>3, <1>4
    <2>2. CASE k # l
        <3>1. /\ RL[k].res \in Resources /\ RL[k].fence \in Nat
              /\ RF[RL[k].res] \in Nat /\ RF2[RL[k].res] \in Nat
            BY <1>1, <1>2 DEF Typed, LeaseRecord
        <3>2. /\ RL[k].fence <= RF[RL[k].res]
              /\ RL[k].state # "none" => RL[k].fence > 0
            BY <1>1 DEF Fenced
        <3> QED
            BY <2>2, <3>1, <3>2, <1>3, <1>4
    <2> QED
        BY <2>1, <2>2
<1>7. Mirrors(L2, RL2)
    <2> SUFFICES ASSUME NEW k \in Leases
                 PROVE  /\ ~RL2[k].live
                        /\ RL2[k].res = L2[k].res
                        /\ RL2[k].state = "none" <=> L2[k].state = "none"
                        /\ RL2[k].state \in Terminal
                              => L2[k].state = RL2[k].state
        BY DEF Mirrors
    <2>1. CASE k = l
        BY <2>1, <1>3 DEF Terminal
    <2>2. CASE k # l
        BY <2>2, <1>1, <1>3 DEF Mirrors
    <2> QED
        BY <2>1, <2>2
<1>8. Behind(F2, RF2, unsaved)
    <2> SUFFICES ASSUME NEW q \in Resources
                 PROVE  /\ RF2[q] <= F2[q]
                        /\ q \notin unsaved => RF2[q] = F2[q]
        BY DEF Behind
    <2>1. CASE q = r
        BY <2>1, <1>4
    <2>2. CASE q # r
        BY <2>2, <1>1, <1>4 DEF Behind
    <2> QED
        BY <2>1, <2>2
<1> QED
    BY <1>2, <1>5, <1>6, <1>7, <1>8, <1>9 DEF Proper, L2, F2, RL2, RF2

(* The record that is issued and the one a rebuild makes of its fact. *)
LEMMA IssuedRecord ==
    ASSUME now \in Nat, NEW r \in Resources, NEW a \in Accesses,
           NEW b \in Bindings, NEW c \in Scopes, NEW g \in Gens,
           NEW f \in Nat
    PROVE  LET x == Issued(r, a, b, c, g, f)
           IN  /\ x \in LeaseRecord
               /\ x.res = r /\ x.fence = f /\ x.state = "active"
               /\ x.access = a
               /\ Rebuilt(x) \in LeaseRecord
               /\ Rebuilt(x).res = r /\ Rebuilt(x).fence = f
               /\ Rebuilt(x).state = "uncertain" /\ ~Rebuilt(x).live
<1> DEFINE x == Issued(r, a, b, c, g, f)
<1>1. /\ x \in LeaseRecord
      /\ x.res = r /\ x.fence = f /\ x.state = "active" /\ x.access = a
    BY LeaseConstants DEF Issued, LeaseRecord, States
<1> HIDE DEF x
<1>2. /\ Rebuilt(x) \in LeaseRecord
      /\ Rebuilt(x).res = x.res /\ Rebuilt(x).fence = x.fence
      /\ Rebuilt(x).state = "uncertain" /\ ~Rebuilt(x).live
    <2> DEFINE z == Ended(x, "uncertain")
    <2>1. /\ z \in LeaseRecord
          /\ z.res = x.res /\ z.fence = x.fence
          /\ z.state = "uncertain" /\ z.live = FALSE
        BY <1>1 DEF Ended, LeaseRecord, States
    <2>2. Rebuilt(x) = [z EXCEPT !.until = now + 1]
        BY DEF Rebuilt
    <2>3. now + 1 \in Nat
        OBVIOUS
    <2> HIDE DEF z
    <2> QED
        BY <2>1, <2>2, <2>3 DEF LeaseRecord
<1> QED
    BY <1>1, <1>2 DEF x

(* The end of acquire, from records among which no lease has more authority
   than in memory and none conflicts with the request. *)
LEMMA IssueStep ==
    ASSUME LInv, NEW L, NEW F, NEW RL, NEW RF,
           Proper(L, F, RL, RF, unsaved),
           NEW l \in Leases, lease[l].state = "none", L[l].state = "none",
           NEW r \in Resources, NEW a \in Accesses, NEW b \in Bindings,
           NEW c \in Scopes, NEW g \in Gens,
           \A k \in Leases : (L[k].live /\ L[k].fence = F[L[k].res])
               => L[k] = lease[k] /\ lease[k].fence = fence[lease[k].res],
           \A q \in Resources : F[q] >= fence[q],
           \A k \in Leases : (/\ L[k].state = "active" /\ L[k].live
                             /\ L[k].res = r /\ now <= L[k].until)
               => a = "observe" /\ L[k].access = "observe",
           Issue(l, r, a, b, c, g, L, F, RL, RF)
    PROVE  LInv' /\ LossStep /\ FenceStep
<1> DEFINE f == NextFence(F[r], a)
           x == Issued(r, a, b, c, g, f)
           y == Rebuilt(x)
<1>1. /\ lease' = [L EXCEPT ![l] = x]
      /\ fence' = [F EXCEPT ![r] = f]
      /\ rlease' = [RL EXCEPT ![l] = y]
      /\ rfence' = [RF EXCEPT ![r] = IF f > RF[r] THEN f ELSE RF[r]]
      /\ gen' = [gen EXCEPT ![r] = g]
      /\ rgen' = IF rgen[r] = Unseen THEN [rgen EXCEPT ![r] = g] ELSE rgen
      /\ UNCHANGED <<now, unsaved>>
    BY DEF Issue
<1>2. /\ L \in [Leases -> LeaseRecord]
      /\ F \in [Resources -> Nat]
      /\ Fenced(L, F)
    BY DEF Proper, Typed
<1>3. f \in Nat /\ f > 0 /\ f >= F[r]
    BY <1>2 DEF NextFence
<1>4. a = "observe" => f = IF F[r] = 0 THEN 1 ELSE F[r]
    BY DEF NextFence
<1> HIDE DEF f
<1>5. /\ x \in LeaseRecord
      /\ x.res = r /\ x.fence = f /\ x.state = "active" /\ x.access = a
      /\ y \in LeaseRecord
      /\ y.res = r /\ y.fence = f /\ y.state = "uncertain" /\ ~y.live
    <2>1. now \in Nat
        BY DEF LInv
    <2> QED
        BY <2>1, <1>3, IssuedRecord
<1> HIDE DEF x, y
<1>6. Proper(lease, fence, rlease, rfence, unsaved)'
    <2>1. Proper([L EXCEPT ![l] = x], [F EXCEPT ![r] = f],
                 [RL EXCEPT ![l] = y],
                 [RF EXCEPT ![r] = IF f > RF[r] THEN f ELSE RF[r]], unsaved)
        BY <1>3, <1>5, IssueIsProper
    <2> QED
        BY <2>1, <1>1
<1>7. ASSUME NEW k \in Leases, k # l, Usable(k)'
      PROVE  Usable(k) /\ lease'[k] = lease[k]
    <2>1. lease'[k] = L[k]
        BY <1>1, <1>2, <1>7
    <2>2. /\ L[k].fence = fence'[L[k].res] /\ L[k].state = "active"
          /\ now <= L[k].until /\ L[k].live
        BY <2>1, <1>1, <1>7 DEF Usable
    <2>3. L[k].res \in Resources /\ L[k].fence \in Nat
        BY <1>2 DEF LeaseRecord
    <2>4. L[k].fence = F[L[k].res]
        <3>1. CASE L[k].res # r
            BY <3>1, <2>2, <2>3, <1>1, <1>2
        <3>2. CASE L[k].res = r
            <4>1. f = IF F[r] = 0 THEN 1 ELSE F[r]
                BY <3>2, <2>2, <1>4
            <4>2. L[k].fence = f
                BY <3>2, <2>2, <1>1, <1>2
            <4>3. L[k].fence <= F[r] /\ F[r] \in Nat
                BY <3>2, <1>2 DEF Fenced
            <4> QED
                BY <3>2, <4>1, <4>2, <4>3
        <3> QED
            BY <3>1, <3>2
    <2>5. L[k] = lease[k] /\ lease[k].fence = fence[lease[k].res]
        BY <2>2, <2>4
    <2> QED
        BY <2>1, <2>2, <2>5 DEF Usable
<1>8. ASSUME NEW k \in Leases, k # l, Usable(k)', lease'[k].res = r
      PROVE  a = "observe" /\ lease'[k].access = "observe"
    <2>1. lease'[k] = L[k]
        BY <1>1, <1>2, <1>8
    <2> QED
        BY <2>1, <1>1, <1>8 DEF Usable
<1>9. lease'[l] = x
    BY <1>1, <1>2
<1>10. OneWriter'
    <2> SUFFICES ASSUME NEW k \in Leases, NEW m \in Leases, k # m,
                        Usable(k)', Usable(m)', lease'[k].res = lease'[m].res
                 PROVE  lease'[k].access = "observe"
                          /\ lease'[m].access = "observe"
        BY DEF OneWriter
    <2>1. CASE k # l /\ m # l
        BY <2>1, <1>7 DEF LInv, OneWriter
    <2>2. CASE k = l
        BY <2>2, <1>5, <1>8, <1>9
    <2>3. CASE m = l
        BY <2>3, <1>5, <1>8, <1>9
    <2> QED
        BY <2>1, <2>2, <2>3
<1>11. LossStep
    BY <1>7 DEF LossStep, Known
<1>12. FenceStep
    <2> SUFFICES ASSUME NEW q \in Resources PROVE fence'[q] >= fence[q]
        BY DEF FenceStep
    <2>1. fence[q] \in Nat /\ fence[r] \in Nat
        BY DEF LInv, Proper, Typed
    <2>2. CASE q = r
        BY <2>1, <2>2, <1>1, <1>2, <1>3
    <2>3. CASE q # r
        BY <2>3, <1>1, <1>2
    <2> QED
        BY <2>2, <2>3
<1>13. /\ gen' \in [Resources -> Gens \cup {Unseen}]
       /\ rgen' \in [Resources -> Gens \cup {Unseen}]
       /\ now' \in Nat
       /\ unsaved' \subseteq Resources
    BY <1>1 DEF LInv
<1> QED
    BY <1>6, <1>10, <1>11, <1>12, <1>13 DEF LInv

(* acquire: nothing incompatible is live. *)
LEMMA AcquireStep ==
    ASSUME LInv, NEW l \in Leases, NEW r \in Resources, NEW a \in Accesses,
           NEW b \in Bindings, NEW c \in Scopes, NEW g \in Gens,
           Acquire(l, r, a, b, c, g)
    PROVE  LInv' /\ LossStep /\ FenceStep
<1>1. Proper(lease, fence, rlease, rfence, unsaved)
    BY DEF LInv
<1>2. lease[l].state = "none" /\ Incompatible(r, a) = {}
    BY DEF Acquire, Known
<1>3. \A q \in Resources : fence[q] >= fence[q]
    BY <1>1 DEF Proper, Typed
<1>4. \A k \in Leases : (/\ lease[k].state = "active" /\ lease[k].live
                         /\ lease[k].res = r /\ now <= lease[k].until)
           => a = "observe" /\ lease[k].access = "observe"
    BY <1>1, <1>2
    DEF Incompatible, LiveHolders, Proper, Typed, LeaseRecord, Accesses
<1>5. Issue(l, r, a, b, c, g, lease, fence, rlease, rfence)
    BY DEF Acquire
<1>6. \A k \in Leases : (lease[k].live /\ lease[k].fence = fence[lease[k].res])
           => lease[k] = lease[k] /\ lease[k].fence = fence[lease[k].res]
    OBVIOUS
<1> QED
    BY <1>1, <1>2, <1>3, <1>4, <1>5, <1>6, IssueStep

(* takeover: what is incompatible is evicted first. *)
LEMMA TakeoverStep ==
    ASSUME LInv, NEW l \in Leases, NEW r \in Resources, NEW a \in Accesses,
           NEW b \in Bindings, NEW c \in Scopes, NEW g \in Gens,
           Takeover(l, r, a, b, c, g)
    PROVE  LInv' /\ LossStep /\ FenceStep
<1> DEFINE S == Incompatible(r, a)
           L == Evicted(S, "revoked")
           F == Bumped(S)
           RL == EvictedLater(S, "revoked")
           RF == BumpedLater(S, "revoked")
<1>1. Proper(lease, fence, rlease, rfence, unsaved) /\ unsaved \subseteq Resources
    BY DEF LInv
<1>2. S \in SUBSET Leases /\ "revoked" \in States
    BY DEF Incompatible, LiveHolders, States
<1>3. \A k \in S : lease[k].state = "active"
    BY DEF Incompatible, LiveHolders
<1>4. \A k \in S : CanTransition(rlease[k].state, "revoked")
    <2> SUFFICES ASSUME NEW k \in S PROVE CanTransition(rlease[k].state, "revoked")
        OBVIOUS
    <2>1. rlease[k].state \notin Terminal /\ rlease[k].state # "none"
        BY <1>1, <1>2, <1>3 DEF Proper, Mirrors, Terminal
    <2>2. rlease[k].state \in States \cup {"none"}
        BY <1>1, <1>2 DEF Proper, Typed, LeaseRecord
    <2> QED
        BY <2>1, <2>2 DEF CanTransition, States, Terminal
<1>5. Proper(L, F, RL, RF, unsaved)
    BY <1>1, <1>2, <1>3, <1>4, EvictionIsProper DEF Terminal
<1>6. lease[l].state = "none"
    BY DEF Takeover, Known
<1>7. \A k \in Leases : /\ L[k].res = lease[k].res
                        /\ k \in S => L[k].state = "revoked"
                        /\ k \notin S => L[k] = lease[k]
    BY <1>1, <1>2, EvictedRecord DEF Proper
<1>8. L[l].state = "none"
    BY <1>3, <1>6, <1>7
<1>9. \A k \in Leases : (L[k].live /\ L[k].fence = F[L[k].res])
          => L[k] = lease[k] /\ lease[k].fence = fence[lease[k].res]
    BY <1>1, <1>2, EvictionShrinks
<1>10. \A q \in Resources : F[q] >= fence[q]
    BY <1>1, <1>2, BumpedMoves DEF Proper
<1>11. \A k \in Leases : (/\ L[k].state = "active" /\ L[k].live
                          /\ L[k].res = r /\ now <= L[k].until)
           => a = "observe" /\ L[k].access = "observe"
    <2> SUFFICES ASSUME NEW k \in Leases, L[k].state = "active", L[k].live,
                        L[k].res = r, now <= L[k].until
                 PROVE  a = "observe" /\ L[k].access = "observe"
        OBVIOUS
    <2>1. k \notin S /\ L[k] = lease[k]
        BY <1>7
    <2>2. lease[k].access \in Accesses
        BY <1>1 DEF Proper, Typed, LeaseRecord
    <2>3. k \in LiveHolders(r)
        BY <2>1 DEF LiveHolders
    <2> QED
        BY <2>1, <2>2, <2>3 DEF Incompatible, Accesses
<1>12. Issue(l, r, a, b, c, g, L, F, RL, RF)
    BY DEF Takeover
<1> HIDE DEF S, L, F, RL, RF
<1> QED
    BY <1>5, <1>6, <1>8, <1>9, <1>10, <1>11, <1>12, IssueStep

(* takeover that is refused after its evictions: the rebuild misses them. *)
LEMMA TakeoverRefusedStep ==
    ASSUME LInv, NEW r \in Resources, NEW a \in Accesses, NEW g \in Gens,
           TakeoverRefused(r, a, g)
    PROVE  LInv' /\ LossStep /\ FenceStep
<1> DEFINE S == Incompatible(r, a)
<1>1. /\ Typed(lease, fence, rlease, rfence)
      /\ Fenced(lease, fence)
      /\ Fenced(lease, rfence)
      /\ Fenced(rlease, rfence)
      /\ Mirrors(lease, rlease)
      /\ Behind(fence, rfence, unsaved)
      /\ Proper(lease, fence, rlease, rfence, unsaved)
    BY DEF LInv, Proper
<1>2. S \in SUBSET Leases /\ "revoked" \in States
    BY DEF Incompatible, LiveHolders, States
<1>3. \A k \in S : lease[k].state = "active" /\ lease[k].res = r
    BY DEF Incompatible, LiveHolders
<1>4. /\ lease' = Evicted(S, "revoked")
      /\ fence' = Bumped(S)
      /\ unsaved' = unsaved \cup {r}
      /\ UNCHANGED <<now, gen, rlease, rfence, rgen>>
    BY DEF TakeoverRefused
<1>5. \A q \in Resources : q # r => On(S, q) = {}
    BY <1>3 DEF On
<1> HIDE DEF S
<1>6. \A k \in Leases : /\ lease'[k] \in LeaseRecord
                        /\ lease'[k].res = lease[k].res
                        /\ lease'[k].fence = lease[k].fence
                        /\ k \in S => lease'[k].state = "revoked"
                        /\ k \notin S => lease'[k] = lease[k]
    BY <1>1, <1>2, <1>4, EvictedRecord
<1>7. /\ fence' \in [Resources -> Nat]
      /\ \A q \in Resources : /\ fence'[q] >= fence[q]
                              /\ On(S, q) = {} => fence'[q] = fence[q]
    BY <1>1, <1>2, <1>4, BumpedMoves
<1>8. Typed(lease, fence, rlease, rfence)'
    BY <1>1, <1>4, <1>6, <1>7 DEF Typed, Evicted
<1>9. Fenced(lease, fence)'
    BY <1>1, <1>3, <1>6, <1>7 DEF Fenced, Typed, LeaseRecord
<1>16. Fenced(lease, rfence)'
    BY <1>1, <1>3, <1>4, <1>6 DEF Fenced
<1>10. Fenced(rlease, rfence)'
    BY <1>1, <1>4 DEF Fenced
<1>11. Mirrors(lease, rlease)'
    BY <1>1, <1>3, <1>4, <1>6 DEF Mirrors, Terminal
<1>12. Behind(fence, rfence, unsaved)'
    BY <1>1, <1>4, <1>5, <1>7 DEF Behind, Typed
<1>13. Shrinks
    <2> SUFFICES ASSUME NEW l \in Leases, Usable(l)'
                 PROVE  Usable(l) /\ lease'[l] = lease[l]
        BY DEF Shrinks
    <2>1. /\ lease'[l].fence = fence'[lease'[l].res]
          /\ lease'[l].live
          /\ lease'[l].state = "active"
          /\ now' <= lease'[l].until
        BY DEF Usable
    <2>2. lease'[l] = lease[l] /\ lease[l].fence = fence[lease[l].res]
        BY <2>1, <1>1, <1>2, <1>4, EvictionShrinks
    <2> QED
        BY <2>1, <2>2, <1>4 DEF Usable
<1>14. OneWriter' /\ LossStep
    BY <1>13, ShrinkingKeepsOneWriter DEF LInv
<1>15. FenceStep
    BY <1>7 DEF FenceStep
<1> QED
    BY <1>4, <1>8, <1>9, <1>10, <1>11, <1>12, <1>14, <1>15, <1>16 DEF LInv, Proper

(* sweep_expired. *)
LEMMA SweepStep ==
    ASSUME LInv, SweepExpired
    PROVE  LInv' /\ LossStep /\ FenceStep
<1> DEFINE Hit(l) == l \in Due /\ Accepts(l, "expired", lease[l].fence)
<1>1. /\ Typed(lease, fence, rlease, rfence)
      /\ Fenced(lease, fence)
      /\ Fenced(lease, rfence)
      /\ Fenced(rlease, rfence)
      /\ Mirrors(lease, rlease)
      /\ Behind(fence, rfence, unsaved)
    BY DEF LInv, Proper
<1>2. /\ lease' = Evicted(Due, "expired")
      /\ rlease' = [l \in Leases |->
                      IF Hit(l) THEN Replayed(rlease[l], "expired", lease[l].fence)
                                ELSE rlease[l]]
      /\ UNCHANGED <<now, fence, gen, rfence, rgen, unsaved>>
    BY DEF SweepExpired
<1>3. Due \in SUBSET Leases /\ "expired" \in States
    BY DEF Due, States
<1>4. \A k \in Leases : /\ lease'[k] \in LeaseRecord
                        /\ lease'[k].res = lease[k].res
                        /\ lease'[k].fence = lease[k].fence
                        /\ k \in Due => /\ lease'[k].state = "expired"
                                        /\ lease[k].state = "active"
                                        /\ ~lease'[k].live
                        /\ k \notin Due => lease'[k] = lease[k]
    BY <1>1, <1>2, <1>3, EvictedRecord DEF Due
<1>5. ASSUME NEW k \in Leases
      PROVE  /\ rlease'[k] \in LeaseRecord
             /\ rlease'[k].res = rlease[k].res
             /\ Hit(k) => /\ rlease'[k].state = "expired"
                          /\ rlease'[k].fence = lease[k].fence
                          /\ ~rlease'[k].live
             /\ ~Hit(k) => rlease'[k] = rlease[k]
    <2>1. rlease[k] \in LeaseRecord /\ lease[k].fence \in Nat
        BY <1>1 DEF Typed, LeaseRecord
    <2>2. rlease'[k] = IF Hit(k)
                       THEN Replayed(rlease[k], "expired", lease[k].fence)
                       ELSE rlease[k]
        BY <1>2
    <2> HIDE DEF Hit
    <2> QED
        BY <2>1, <2>2, <1>3, ReplayedRecord
<1>6. \A k \in Leases : Hit(k) => /\ k \in Due
                                  /\ lease[k].fence = rfence[rlease[k].res]
    <2> SUFFICES ASSUME NEW k \in Leases, Hit(k)
                 PROVE  lease[k].fence = rfence[rlease[k].res]
        OBVIOUS
    <2>1. lease[k].fence >= rfence[rlease[k].res]
        BY DEF Accepts
    <2>2. lease[k].fence <= rfence[rlease[k].res]
        <3>1. lease[k].state # "none" /\ rlease[k].state # "none"
            BY DEF Due, Accepts
        <3> QED
            BY <3>1, <1>1 DEF Fenced, Mirrors
    <2>3. lease[k].fence \in Nat /\ rlease[k].res \in Resources
        BY <1>1 DEF Typed, LeaseRecord
    <2>4. rfence[rlease[k].res] \in Nat
        BY <2>3, <1>1 DEF Typed
    <2> HIDE DEF Hit
    <2> QED
        BY <2>1, <2>2, <2>3, <2>4
<1> HIDE DEF Hit
<1>7. Typed(lease, fence, rlease, rfence)'
    BY <1>1, <1>2, <1>4, <1>5 DEF Typed, Evicted
<1>8. Fenced(lease, fence)'
    BY <1>1, <1>2, <1>4 DEF Fenced
<1>15. Fenced(lease, rfence)'
    BY <1>1, <1>2, <1>4 DEF Fenced
<1>9. Fenced(rlease, rfence)'
    <2> SUFFICES ASSUME NEW k \in Leases
                 PROVE  /\ rlease'[k].fence <= rfence'[rlease'[k].res]
                        /\ rlease'[k].state # "none" => rlease'[k].fence > 0
        BY DEF Fenced
    <2>1. CASE Hit(k)
        <3>1. lease[k].state # "none"
            BY <2>1, <1>4, <1>6
        <3> QED
            BY <2>1, <3>1, <1>1, <1>2, <1>5, <1>6 DEF Fenced, Mirrors
    <2>2. CASE ~Hit(k)
        BY <2>2, <1>1, <1>2, <1>5 DEF Fenced
    <2> QED
        BY <2>1, <2>2
<1>10. Mirrors(lease, rlease)'
    BY <1>1, <1>4, <1>5, <1>6 DEF Mirrors, Terminal
<1>11. Behind(fence, rfence, unsaved)'
    BY <1>1, <1>2 DEF Behind
<1>12. Shrinks
    BY <1>2, <1>4 DEF Shrinks, Usable
<1>13. OneWriter' /\ LossStep
    BY <1>12, ShrinkingKeepsOneWriter DEF LInv
<1>14. FenceStep
    BY <1>1, <1>2 DEF FenceStep, Typed
<1> QED
    BY <1>2, <1>7, <1>8, <1>9, <1>10, <1>11, <1>13, <1>14, <1>15 DEF LInv, Proper

---------------------------------------------------------------------------
(* What a rebuild has of a lease that has not ended. *)
LEMMA RebuiltIsOpen ==
    ASSUME LInv, NEW l \in Leases, lease[l].state \notin Terminal \cup {"none"}
    PROVE  /\ lease[l].state \in {"active", "reclaim_pending", "uncertain"}
           /\ rlease[l].state \in {"active", "reclaim_pending", "uncertain"}
<1>1. rlease[l].state \in States \cup {"none"}
    BY DEF LInv, Proper, Typed, LeaseRecord
<1>2. lease[l].state \in States \cup {"none"}
    BY DEF LInv, Proper, Typed, LeaseRecord
<1>3. rlease[l].state \notin Terminal /\ rlease[l].state # "none"
    BY DEF LInv, Proper, Mirrors
<1> QED
    BY <1>1, <1>2, <1>3 DEF States, Terminal

LEMMA RenewStep ==
    ASSUME LInv, NEW l \in Leases, Renew(l)
    PROVE  LInv' /\ LossStep /\ FenceStep
<1> DEFINE x == [lease[l] EXCEPT !.until = now + Ttl]
<1>1. lease[l] \in LeaseRecord /\ now + Ttl \in Nat
    BY LeaseConstants DEF LInv, Proper, Typed
<1>2. /\ x \in LeaseRecord
      /\ x.res = lease[l].res /\ x.fence = lease[l].fence
      /\ x.access = lease[l].access /\ x.state = lease[l].state
    BY <1>1 DEF LeaseRecord
<1>3. /\ Usable(l) /\ lease[l].state = "active"
      /\ lease' = [lease EXCEPT ![l] = x]
      /\ Record(l, "active", lease[l].fence)
      /\ UNCHANGED <<now, fence, gen, unsaved>>
    BY DEF Renew, Usable
<1>4. "active" \in States /\ "active" \notin Terminal
    BY DEF States, Terminal
<1> HIDE DEF x
<1> QED
    BY <1>2, <1>3, <1>4, OneLeaseStep

LEMMA ReleaseStep ==
    ASSUME LInv, NEW l \in Leases, Release(l)
    PROVE  LInv' /\ LossStep /\ FenceStep
<1> DEFINE x == Ended(lease[l], "released")
<1>1. "active" \notin Terminal /\ "released" \in States
    BY DEF States, Terminal
<1>2. lease[l] \in LeaseRecord
    BY DEF LInv, Proper, Typed
<1>3. /\ x \in LeaseRecord
      /\ x.res = lease[l].res /\ x.fence = lease[l].fence
      /\ x.access = lease[l].access /\ x.state = "released" /\ ~x.live
    BY <1>1, <1>2 DEF LeaseRecord, Ended
<1>4. /\ lease[l].state = "active"
      /\ lease' = [lease EXCEPT ![l] = x]
      /\ Record(l, "released", lease[l].fence)
      /\ UNCHANGED <<now, fence, gen, unsaved>>
    BY DEF Release
<1> HIDE DEF x
<1> QED
    BY <1>1, <1>3, <1>4, OneLeaseStep

LEMMA MarkHolderLostStep ==
    ASSUME LInv, NEW l \in Leases, MarkHolderLost(l)
    PROVE  LInv' /\ LossStep /\ FenceStep
<1> DEFINE x == Ended(lease[l], "uncertain")
<1>1. {"active", "uncertain"} \cap Terminal = {} /\ "uncertain" \in States
    BY DEF States, Terminal
<1>2. lease[l] \in LeaseRecord
    BY DEF LInv, Proper, Typed
<1>3. /\ x \in LeaseRecord
      /\ x.res = lease[l].res /\ x.fence = lease[l].fence
      /\ x.access = lease[l].access /\ x.state = "uncertain" /\ ~x.live
    BY <1>1, <1>2 DEF LeaseRecord, Ended
<1>4. /\ lease[l].state = "active"
      /\ lease' = [lease EXCEPT ![l] = x]
      /\ Record(l, "uncertain", lease[l].fence)
      /\ UNCHANGED <<now, fence, gen, unsaved>>
    BY DEF MarkHolderLost
<1> HIDE DEF x
<1> QED
    BY <1>1, <1>3, <1>4, OneLeaseStep

LEMMA ReconcileStep ==
    ASSUME LInv, NEW l \in Leases, Reconcile(l)
    PROVE  LInv' /\ LossStep /\ FenceStep
<1> DEFINE x == [lease[l] EXCEPT !.state = "reclaim_pending"]
<1>1. /\ {"reclaim_pending", "uncertain"} \cap Terminal = {}
      /\ "reclaim_pending" \in States
    BY DEF States, Terminal
<1>2. lease[l] \in LeaseRecord
    BY DEF LInv, Proper, Typed
<1>3. /\ x \in LeaseRecord
      /\ x.res = lease[l].res /\ x.fence = lease[l].fence
      /\ x.access = lease[l].access /\ x.state = "reclaim_pending"
    BY <1>1, <1>2 DEF LeaseRecord
<1>4. /\ lease[l].state = "uncertain"
      /\ lease' = [lease EXCEPT ![l] = x]
      /\ Record(l, "reclaim_pending", lease[l].fence)
      /\ UNCHANGED <<now, fence, gen, unsaved>>
    BY DEF Reconcile
<1> HIDE DEF x
<1> QED
    BY <1>1, <1>3, <1>4, OneLeaseStep

LEMMA RevalidateStep ==
    ASSUME LInv, NEW l \in Leases, NEW b \in Bindings,
           RevalidateActorBinding(l, b)
    PROVE  LInv' /\ LossStep /\ FenceStep
<1> DEFINE x == [lease[l] EXCEPT !.binding = b]
<1>1. "active" \notin Terminal /\ "active" \in States
    BY DEF States, Terminal
<1>2. lease[l] \in LeaseRecord
    BY DEF LInv, Proper, Typed
<1>3. /\ x \in LeaseRecord
      /\ x.res = lease[l].res /\ x.fence = lease[l].fence
      /\ x.access = lease[l].access /\ x.state = lease[l].state
      /\ x.live = lease[l].live /\ x.until = lease[l].until
    BY <1>2 DEF LeaseRecord
<1>4. /\ lease[l].state = "active"
      /\ lease' = [lease EXCEPT ![l] = x]
      /\ Record(l, "active", lease[l].fence)
      /\ UNCHANGED <<now, fence, gen, unsaved>>
    BY DEF RevalidateActorBinding
<1> HIDE DEF x
<1>5. (x.live /\ x.state = "active" /\ now <= x.until
          /\ lease[l].fence = fence[lease[l].res]) => Usable(l)
    BY <1>3 DEF Usable
<1> QED
    BY <1>1, <1>3, <1>4, <1>5, OneLeaseStep

LEMMA RevokeStep ==
    ASSUME LInv, NEW l \in Leases, Revoke(l)
    PROVE  LInv' /\ LossStep /\ FenceStep
<1>1. /\ lease[l].state # "none"
      /\ CanTransition(lease[l].state, "revoked")
      /\ Evict({l}, "revoked")
      /\ UNCHANGED unsaved
    BY DEF Revoke, Known
<1>2. lease[l].state \in Terminal => lease[l].state = "revoked"
    BY <1>1 DEF CanTransition, Terminal
<1>3. CanTransition(rlease[l].state, "revoked")
    <2>1. CASE lease[l].state = "revoked"
        <3>1. rlease[l].state \in States
            BY <1>1 DEF LInv, Proper, Typed, Mirrors, LeaseRecord
        <3>2. rlease[l].state \in Terminal => rlease[l].state = "revoked"
            BY <2>1 DEF LInv, Proper, Mirrors
        <3> QED
            BY <3>1, <3>2 DEF CanTransition, States, Terminal
    <2>2. CASE lease[l].state # "revoked"
        <3>1. lease[l].state \notin Terminal \cup {"none"}
            BY <1>1, <1>2, <2>2
        <3> QED
            BY <3>1, RebuiltIsOpen DEF CanTransition
    <2> QED
        BY <2>1, <2>2
<1>4. unsaved' \subseteq Resources /\ unsaved \subseteq unsaved'
    BY <1>1 DEF LInv
<1> QED
    BY <1>1, <1>2, <1>3, <1>4, EvictStep

(* Evicting leases that have not ended, in a state a rebuild accepts. *)
LEMMA EvictOpenStep ==
    ASSUME LInv, NEW S \in SUBSET Leases, NEW s \in {"revoked", "uncertain"},
           \A l \in S : lease[l].state \notin Terminal \cup {"none"},
           Evict(S, s), UNCHANGED unsaved
    PROVE  LInv' /\ LossStep /\ FenceStep
<1>1. \A l \in S : CanTransition(rlease[l].state, s)
    BY RebuiltIsOpen DEF CanTransition
<1>2. unsaved' \subseteq Resources /\ unsaved \subseteq unsaved'
    BY DEF LInv
<1> QED
    BY <1>1, <1>2, EvictStep

LEMMA ProviderRestartStep ==
    ASSUME LInv, NEW b \in Bindings, NoteProviderRestart(b)
    PROVE  LInv' /\ LossStep /\ FenceStep
<1> DEFINE S == {l \in Leases : /\ lease[l].state = "active"
                                /\ lease[l].binding = b
                                /\ lease[l].res \in ProviderHandles}
<1>1. S \in SUBSET Leases /\ \A l \in S : lease[l].state \notin Terminal \cup {"none"}
    BY DEF Terminal
<1>2. Evict(S, "uncertain") /\ UNCHANGED unsaved
    BY DEF NoteProviderRestart
<1> HIDE DEF S
<1> QED
    BY <1>1, <1>2, EvictOpenStep

LEMMA RetireStep ==
    ASSUME LInv, NEW r \in Resources, RetireResource(r)
    PROVE  LInv' /\ LossStep /\ FenceStep
<1> DEFINE S == {l \in Leases : Open(l) /\ lease[l].res = r}
<1>1. S \in SUBSET Leases /\ \A l \in S : lease[l].state \notin Terminal \cup {"none"}
    BY DEF Open
<1>2. Evict(S, "revoked") /\ UNCHANGED unsaved
    BY DEF RetireResource
<1> HIDE DEF S
<1> QED
    BY <1>1, <1>2, EvictOpenStep

LEMMA InvalidateStep ==
    ASSUME LInv, NEW c \in Scopes, InvalidateScope(c)
    PROVE  LInv' /\ LossStep /\ FenceStep
<1> DEFINE S == {l \in Leases : Open(l) /\ lease[l].scope = c}
<1>1. S \in SUBSET Leases /\ \A l \in S : lease[l].state \notin Terminal \cup {"none"}
    BY DEF Open
<1>2. Evict(S, "revoked") /\ UNCHANGED unsaved
    BY DEF InvalidateScope
<1> HIDE DEF S
<1> QED
    BY <1>1, <1>2, EvictOpenStep

(* reclaim: its fact is refused exactly where unsaved says so. *)
LEMMA ReclaimStep ==
    ASSUME LInv, NEW l \in Leases, Reclaim(l)
    PROVE  LInv' /\ LossStep /\ FenceStep
<1>1. /\ lease[l].state = "reclaim_pending"
      /\ Evict({l}, "reclaimed")
      /\ unsaved' = unsaved \cup {r \in {lease[l].res} : rlease[l].state = "active"}
    BY DEF Reclaim
<1>2. lease[l].state \notin Terminal \cup {"none"}
    BY <1>1 DEF Terminal
<1>3. \/ CanTransition(rlease[l].state, "reclaimed")
      \/ lease[l].res \in unsaved'
    BY <1>1, <1>2, RebuiltIsOpen DEF CanTransition
<1>4. unsaved' \subseteq Resources /\ unsaved \subseteq unsaved'
    BY <1>1 DEF LInv, Proper, Typed, LeaseRecord
<1> QED
    BY <1>1, <1>2, <1>3, <1>4, EvictStep

(* A rebuilt coordinator has no lease with a holder, and every fence that
   was not lost. *)
LEMMA RestartStep ==
    ASSUME LInv, Restart
    PROVE  LInv' /\ LossStep /\ FenceStep
<1>1. /\ Typed(lease, fence, rlease, rfence)
      /\ Fenced(rlease, rfence)
      /\ Mirrors(lease, rlease)
      /\ Behind(fence, rfence, unsaved)
    BY DEF LInv, Proper
<1>2. /\ lease' = rlease /\ fence' = rfence /\ gen' = rgen /\ unsaved' = {}
      /\ UNCHANGED <<now, rlease, rfence, rgen>>
    BY DEF Restart
<1>3. Proper(rlease, rfence, rlease, rfence, {})
    BY <1>1 DEF Proper, Typed, Mirrors, Behind
<1>4. Proper(lease, fence, rlease, rfence, unsaved)'
    BY <1>2, <1>3
<1>5. \A l \in Leases : ~Usable(l)'
    BY <1>1, <1>2 DEF Usable, Mirrors
<1>6. OneWriter' /\ LossStep
    BY <1>5 DEF OneWriter, LossStep
<1>7. FenceStep
    BY <1>1, <1>2 DEF FenceStep, Behind, Typed
<1> QED
    BY <1>2, <1>4, <1>6, <1>7 DEF LInv

(* Time passing and a published version change no record and no fence. *)
LEMMA QuietStep ==
    ASSUME LInv, UNCHANGED <<lease, fence, rlease, rfence, rgen, unsaved>>,
           now' \in Nat, now' >= now, gen' \in [Resources -> Gens \cup {Unseen}]
    PROVE  LInv' /\ LossStep /\ FenceStep
<1>1. Proper(lease, fence, rlease, rfence, unsaved)'
    BY DEF LInv
<1>2. Shrinks
    <2> SUFFICES ASSUME NEW l \in Leases, Usable(l)' PROVE Usable(l)
        BY DEF Shrinks
    <2>1. now \in Nat /\ lease[l].until \in Nat
        BY DEF LInv, Proper, Typed, LeaseRecord
    <2> QED
        BY <2>1 DEF Usable
<1>3. OneWriter' /\ LossStep
    BY <1>2, ShrinkingKeepsOneWriter DEF LInv
<1>4. FenceStep
    BY DEF FenceStep, LInv, Proper, Typed
<1> QED
    BY <1>1, <1>3, <1>4 DEF LInv

LEMMA HolderStepLemma ==
    ASSUME LInv, NEW l \in Leases, HolderStep(l)
    PROVE  LInv' /\ LossStep /\ FenceStep
<1>1. CASE Renew(l)
    BY <1>1, RenewStep
<1>2. CASE Release(l)
    BY <1>2, ReleaseStep
<1>3. CASE Revoke(l)
    BY <1>3, RevokeStep
<1>4. CASE MarkHolderLost(l)
    BY <1>4, MarkHolderLostStep
<1>5. CASE Reconcile(l)
    BY <1>5, ReconcileStep
<1>6. CASE Reclaim(l)
    BY <1>6, ReclaimStep
<1>7. CASE \E b \in Bindings : RevalidateActorBinding(l, b)
    BY <1>7, RevalidateStep
<1> QED
    BY <1>1, <1>2, <1>3, <1>4, <1>5, <1>6, <1>7 DEF HolderStep

(* Every step keeps the invariant, gives no lost authority back, and moves
   no fence back that was not lost. *)
LEMMA LeaseStep ==
    ASSUME LInv, LeaseNext
    PROVE  LInv' /\ LossStep /\ FenceStep
<1>1. CASE \E l \in Leases : HolderStep(l)
    BY <1>1, HolderStepLemma
<1>2. CASE \E l \in Leases, r \in Resources : Request(l, r)
    BY <1>2, AcquireStep, TakeoverStep DEF Request
<1>3. CASE \E r \in Resources, a \in Accesses, g \in Gens :
               TakeoverRefused(r, a, g)
    BY <1>3, TakeoverRefusedStep
<1>4. CASE \E r \in Resources, g \in Gens : NoteGeneration(r, g)
    <2>1. PICK r \in Resources, g \in Gens : NoteGeneration(r, g)
        BY <1>4
    <2>2. /\ now' \in Nat /\ now' >= now
          /\ gen' \in [Resources -> Gens \cup {Unseen}]
          /\ UNCHANGED <<lease, fence, rlease, rfence, rgen, unsaved>>
        BY <2>1 DEF NoteGeneration, LInv
    <2> QED
        BY <2>2, QuietStep
<1>5. CASE \E b \in Bindings : NoteProviderRestart(b)
    BY <1>5, ProviderRestartStep
<1>6. CASE \E r \in Resources : RetireResource(r)
    BY <1>6, RetireStep
<1>7. CASE \E c \in Scopes : InvalidateScope(c)
    BY <1>7, InvalidateStep
<1>8. CASE SweepExpired
    BY <1>8, SweepStep
<1>9. CASE Tick
    <2>1. /\ now' \in Nat /\ now' >= now
          /\ gen' \in [Resources -> Gens \cup {Unseen}]
          /\ UNCHANGED <<lease, fence, rlease, rfence, rgen, unsaved>>
        BY <1>9 DEF Tick, LInv
    <2> QED
        BY <2>1, QuietStep
<1>10. CASE Restart
    BY <1>10, RestartStep
<1> QED
    BY <1>1, <1>2, <1>3, <1>4, <1>5, <1>6, <1>7, <1>8, <1>9, <1>10
    DEF LeaseNext

LEMMA LeaseStart ==
    ASSUME LeaseInit
    PROVE  LInv
<1> DEFINE B == [l \in Leases |-> Blank(l)]
           Z == [r \in Resources |-> 0]
<1>1. /\ now = 0 /\ lease = B /\ rlease = B /\ fence = Z /\ rfence = Z
      /\ gen = [r \in Resources |-> Unseen] /\ rgen = gen /\ unsaved = {}
    BY DEF LeaseInit
<1>2. ASSUME NEW l \in Leases
      PROVE  /\ B[l] \in LeaseRecord
             /\ B[l].state = "none" /\ ~B[l].live /\ B[l].fence = 0
    <2>1. /\ (CHOOSE r \in Resources : TRUE) \in Resources
          /\ (CHOOSE b \in Bindings : TRUE) \in Bindings
          /\ (CHOOSE c \in Scopes : TRUE) \in Scopes
        BY LeaseConstants
    <2>2. 0 \in Gens
        BY LeaseConstants DEF Gens
    <2> QED
        BY <2>1, <2>2 DEF Blank, LeaseRecord, Accesses
<1>3. B \in [Leases -> LeaseRecord]
    BY <1>2
<1> HIDE DEF B
<1>4. Typed(lease, fence, rlease, rfence)
    BY <1>1, <1>3 DEF Typed
<1>5. Fenced(lease, fence) /\ Fenced(lease, rfence) /\ Fenced(rlease, rfence)
    BY <1>1, <1>2, <1>3 DEF Fenced, LeaseRecord
<1>6. Mirrors(lease, rlease)
    BY <1>1, <1>2 DEF Mirrors
<1>7. Behind(fence, rfence, unsaved)
    BY <1>1 DEF Behind
<1>8. OneWriter
    BY <1>1, <1>2 DEF OneWriter, Usable
<1> QED
    BY <1>1, <1>4, <1>5, <1>6, <1>7, <1>8 DEF LInv, Proper

LEMMA LeaseStutter ==
    ASSUME LInv, UNCHANGED leaseVars
    PROVE  LInv' /\ LossStep /\ FenceStep
<1>1. /\ now' \in Nat /\ now' >= now
      /\ gen' \in [Resources -> Gens \cup {Unseen}]
      /\ UNCHANGED <<lease, fence, rlease, rfence, rgen, unsaved>>
    BY DEF LInv, leaseVars
<1> QED
    BY <1>1, QuietStep

---------------------------------------------------------------------------
(* The invariant holds in every state the coordinator reaches. *)
THEOREM LeaseInvariant == LeaseSpec => []LInv
<1>1. LeaseInit => LInv
    BY LeaseStart
<1>2. LInv /\ [LeaseNext]_leaseVars => LInv'
    BY LeaseStep, LeaseStutter
<1> QED
    BY <1>1, <1>2, PTL DEF LeaseSpec

(* Every record, in memory and rebuilt, is typed, and every lease that was
   issued has a positive fence (ResourceLease::validate). *)
THEOREM LeaseTypeCorrect == LeaseSpec => []LeaseTypeOK
<1>1. LInv => LeaseTypeOK
    BY DEF LInv, Proper, Typed, Fenced, LeaseTypeOK, Known
<1> QED
    BY <1>1, LeaseInvariant, PTL

(* A lease to edit that still carries authority is the only lease of its
   resource that does (acquire, check_exercisable). *)
THEOREM WritersAreAlone == LeaseSpec => []OneWriter
<1>1. LInv => OneWriter
    BY DEF LInv
<1> QED
    BY <1>1, LeaseInvariant, PTL

(* No operation and no rebuild gives a lease back an authority it lost. *)
THEOREM LostAuthorityIsLost == LeaseSpec => LossIsFinal
<1>1. LInv /\ [LeaseNext]_leaseVars => [LossStep]_leaseVars
    BY LeaseStep, LeaseStutter
<1>2. LeaseSpec => [][LossStep]_leaseVars
    BY <1>1, LeaseInvariant, PTL DEF LeaseSpec
<1> QED
    BY <1>2 DEF LossIsFinal, LossStep

(* A fence goes back only where its move was kept from the stored facts. *)
THEOREM FencesGrow == LeaseSpec => FenceGrows
<1>1. LInv /\ [LeaseNext]_leaseVars => [FenceStep]_leaseVars
    BY LeaseStep, LeaseStutter
<1>2. LeaseSpec => [][FenceStep]_leaseVars
    BY <1>1, LeaseInvariant, PTL DEF LeaseSpec
<1> QED
    BY <1>2 DEF FenceGrows, FenceStep

=============================================================================
