------------------------- MODULE LaneRegistryProofs -------------------------
(***************************************************************************)
(* Theorems about the lane registry, for any number of lanes, any claims,  *)
(* any lease lengths and any staleness of the clock readings.              *)
(***************************************************************************)
EXTENDS LaneRegistry, FiniteSetTheorems, TLAPS

\* Two directories that both contain a resource lie one under the other.  This
\* is what lets open_lane compare only the claims' own keys while authorize
\* accepts every resource below a claim.
LEMMA EnclosingKeysAreComparable ==
    ASSUME NEW a \in Resource, NEW b \in Resource, NEW key \in Resource,
           Under(key, a), Under(key, b)
    PROVE  _resources_overlap(a, b)
<1> DEFINE A == Norm[a]
           B == Norm[b]
           K == Norm[key]
<1>1. A \in Seq(STRING) /\ B \in Seq(STRING) /\ K \in Seq(STRING)
  BY NormAssumption
<1>2. Len(A) <= Len(K) /\ Len(B) <= Len(K)
  BY DEF Under, IsPrefix
<1>3. SubSeq(A, 1, Len(A)) = SubSeq(K, 1, Len(A))
  BY DEF Under, IsPrefix
<1>4. SubSeq(B, 1, Len(B)) = SubSeq(K, 1, Len(B))
  BY DEF Under, IsPrefix
<1>5. \A i \in 1..Len(A) : A[i] = K[i]
  BY <1>1, <1>2, <1>3
<1>6. \A i \in 1..Len(B) : B[i] = K[i]
  BY <1>1, <1>2, <1>4
<1>7. CASE Len(A) <= Len(B)
  <2>1. SubSeq(A, 1, Len(A)) = SubSeq(B, 1, Len(A))
    BY <1>1, <1>5, <1>6, <1>7
  <2> QED
    BY <2>1, <1>7 DEF _resources_overlap, Under, IsPrefix
<1>8. CASE Len(B) <= Len(A)
  <2>1. SubSeq(B, 1, Len(B)) = SubSeq(A, 1, Len(B))
    BY <1>1, <1>5, <1>6, <1>8
  <2> QED
    BY <2>1, <1>8 DEF _resources_overlap, Under, IsPrefix
<1> QED
  BY <1>1, <1>7, <1>8

\* A conflict does not depend on which lane asks.
LEMMA ConflictIsSymmetric ==
    ASSUME NEW C, NEW D, _first_conflict(C, D)
    PROVE  _first_conflict(D, C)
BY DEF _first_conflict, _resources_overlap

----------------------------------------------------------------------------
(* The inductive invariant.  Fences are compared through the counter: every *)
(* fence ever granted, in the registry or retired, is at most the durable   *)
(* counter, so the next one is new.                                         *)

\* Conflicting claims cannot coexist (core.py, class docstring), lanes past
\* their lease but not yet reaped included.
NoConflict ==
    \A l, m \in Active :
        l # m => ~_first_conflict(lanes[l].claims, lanes[m].claims)

\* A fence belongs to one lane, once.
FencesUnique ==
    \A l \in Active :
        /\ \A t \in retired : t[2] # lanes[l].fence
        /\ \A m \in Active : m # l => lanes[m].fence # lanes[l].fence

\* No fence is ahead of the durable counter.
FencesCounted ==
    /\ \A l \in Active : lanes[l].fence <= fenceCounter
    /\ \A t \in retired : t[2] <= fenceCounter

Inv == TypeOK /\ NoConflict /\ FencesUnique /\ FencesCounted /\ AllocatorAdvances

LEMMA InitEstablishesInv == Init => Inv
BY DEF Init, Inv, TypeOK, NoConflict, FencesUnique, FencesCounted,
       AllocatorAdvances, Active

\* Deleting lanes, whatever the reason, keeps the invariant: their tokens are
\* retired and nothing else moves.
LEMMA DeletingKeepsInv ==
    ASSUME Inv, NEW gone \in SUBSET LaneId,
           lanes' = Without(gone),
           retired' = Bury(gone \cap Active),
           lastFence' \in Nat, fenceCounter' \in Nat, clock' \in Nat,
           lastFence' <= fenceCounter', fenceCounter <= fenceCounter'
    PROVE  Inv'
<1> USE DEF Inv, Without, Active
<1>1. \A l \in Active' : l \in Active /\ lanes'[l] = lanes[l] /\ l \notin gone
  BY DEF TypeOK
<1>2. \A t \in retired' : t \in retired \/ \E l \in gone \cap Active : t = Token(l)
  BY DEF Bury
<1>3. TypeOK'
  <2>1. lanes' \in [LaneId -> Lane \cup {None}]
    BY DEF TypeOK
  <2>2. \A l \in gone \cap Active : Token(l) \in LaneId \X Nat
    BY NoneAssumption DEF TypeOK, Token, Lane
  <2>3. retired' \subseteq LaneId \X Nat
    BY <2>2 DEF TypeOK, Bury
  <2> QED
    BY <1>1, <2>1, <2>3 DEF TypeOK
<1>4. NoConflict'
  BY <1>1 DEF NoConflict
<1>5. FencesUnique'
  <2> SUFFICES ASSUME NEW l \in Active'
               PROVE  /\ \A t \in retired' : t[2] # lanes'[l].fence
                      /\ \A m \in Active' : m # l => lanes'[m].fence # lanes'[l].fence
    BY DEF FencesUnique
  <2>1. \A m \in Active' : m # l => lanes'[m].fence # lanes'[l].fence
    BY <1>1 DEF FencesUnique
  <2>2. \A m \in gone \cap Active : lanes[m].fence # lanes[l].fence
    BY <1>1 DEF FencesUnique
  <2>3. \A m \in gone \cap Active : Token(m)[2] = lanes[m].fence
    BY DEF Token
  <2>4. \A t \in retired' : t[2] # lanes'[l].fence
    BY <1>1, <1>2, <2>2, <2>3 DEF FencesUnique
  <2> QED
    BY <2>1, <2>4
<1>6. FencesCounted'
  <2>1. \A l \in Active : lanes[l].fence \in Nat /\ Token(l)[2] = lanes[l].fence
    BY NoneAssumption DEF TypeOK, Lane, Token
  <2>2. \A t \in retired : t[2] \in Nat
    BY DEF TypeOK
  <2>3. fenceCounter \in Nat
    BY DEF TypeOK
  <2>4. \A l \in Active' : lanes'[l].fence <= fenceCounter'
    BY <1>1, <2>1, <2>3 DEF FencesCounted
  <2>5. \A t \in retired' : t[2] <= fenceCounter'
    BY <1>2, <2>1, <2>2, <2>3 DEF FencesCounted
  <2> QED
    BY <2>4, <2>5 DEF FencesCounted
<1>7. AllocatorAdvances'
  BY DEF AllocatorAdvances
<1> QED
  BY <1>3, <1>4, <1>5, <1>6, <1>7

\* Storing a lane whose claims met no conflict, under a fence that is new.
LEMMA OpenKeepsInv ==
    ASSUME Inv,
           NEW l \in LaneId, NEW caps \in SUBSET Capability,
           NEW claims \in ClaimChoice, NEW ttl \in 1..MaxTtl, NEW n \in Reading,
           open_lane(l, caps, claims, ttl, n)
    PROVE  Inv'
<1> DEFINE gone == Expired(n)
           lane == [capabilities |-> caps, claims |-> claims,
                    fence |-> next_fence, expires |-> n + ttl]
<1> USE DEF Inv
<1>0. fenceCounter \in Nat /\ lastFence \in Nat /\ clock \in Nat /\ n \in Nat
  BY DEF TypeOK, Reading
<1>1. next_fence > lastFence /\ next_fence = fenceCounter + 1 /\ next_fence \in Nat
  BY <1>0 DEF AllocatorAdvances, next_fence
<1>2. /\ lanes' = [Without(gone) EXCEPT ![l] = lane]
      /\ fenceCounter' = next_fence
      /\ lastFence' = next_fence
      /\ retired' = Bury(gone)
      /\ clock' = clock
  BY <1>1 DEF open_lane
<1>3. lane \in Lane /\ lane # None
  <2>1. claims \in SUBSET Claim
    BY ClaimAssumption
  <2>2. n + ttl \in Nat
    BY <1>0, BoundAssumption
  <2> QED
    BY <1>1, <2>1, <2>2, NoneAssumption DEF Lane
<1>4. lanes'[l] = lane
  BY <1>2 DEF Without
<1>5. \A m \in Active' \ {l} : m \in Active \ gone /\ lanes'[m] = lanes[m]
  BY <1>2 DEF Active, Without
<1>6. \A m \in Active : lanes[m] \in Lane /\ lanes[m].fence \in Nat
  BY NoneAssumption DEF TypeOK, Active, Lane
<1>7. gone \subseteq Active
  BY DEF Expired
<1>8. \A t \in retired' : \/ t \in retired
                          \/ \E m \in Active : m \in gone /\ t = Token(m)
  BY <1>2, <1>7 DEF Bury
<1>9. \A m \in Active : Token(m)[2] = lanes[m].fence /\ Token(m) \in LaneId \X Nat
  BY <1>6 DEF Token, Active
<1>10. \A t \in retired : t[2] \in Nat
  BY DEF TypeOK
<1>11. TypeOK'
  <2>1. lanes' \in [LaneId -> Lane \cup {None}]
    BY <1>2, <1>3 DEF TypeOK, Without
  <2>2. retired' \subseteq LaneId \X Nat
    BY <1>8, <1>9 DEF TypeOK
  <2>3. caps \subseteq Ceiling
    BY DEF open_lane
  <2>4. \A m \in Active' : lanes'[m].capabilities \subseteq Ceiling
    BY <1>4, <1>5, <2>3 DEF TypeOK
  <2> QED
    BY <1>0, <1>1, <1>2, <2>1, <2>2, <2>4 DEF TypeOK
<1>12. NoConflict'
  <2>1. \A m \in Active \ gone : ~_first_conflict(claims, lanes[m].claims)
    BY DEF open_lane, Collides
  <2>2. \A m \in Active \ gone : ~_first_conflict(lanes[m].claims, claims)
    BY <2>1, ConflictIsSymmetric
  <2> QED
    BY <1>4, <1>5, <2>1, <2>2 DEF NoConflict
<1>13. FencesUnique'
  <2>1. \A m \in Active : lanes[m].fence < next_fence
    BY <1>0, <1>1, <1>6 DEF FencesCounted
  <2>2. \A t \in retired' : t[2] < next_fence
    BY <1>0, <1>1, <1>8, <1>9, <1>10, <2>1 DEF FencesCounted
  <2>3. \A m \in Active' \ {l} : \A t \in retired' : t[2] # lanes'[m].fence
    BY <1>5, <1>8, <1>9, <1>7 DEF FencesUnique
  <2>4. \A t \in retired' : t[2] # lanes'[l].fence
    BY <1>1, <1>4, <1>8, <1>9, <1>10, <2>2
  <2>5. \A m \in Active' \ {l} : lanes'[m].fence # lanes'[l].fence
    BY <1>1, <1>4, <1>5, <1>6, <2>1
  <2>6. \A m, k \in Active' \ {l} : m # k => lanes'[m].fence # lanes'[k].fence
    BY <1>5 DEF FencesUnique
  <2> QED
    BY <2>3, <2>4, <2>5, <2>6 DEF FencesUnique
<1>14. FencesCounted'
  <2>1. \A m \in Active' : lanes'[m].fence <= fenceCounter'
    BY <1>0, <1>1, <1>2, <1>4, <1>5, <1>6 DEF FencesCounted
  <2>2. \A t \in retired' : t[2] <= fenceCounter'
    BY <1>0, <1>1, <1>2, <1>6, <1>8, <1>9, <1>10 DEF FencesCounted
  <2> QED
    BY <2>1, <2>2 DEF FencesCounted
<1>15. AllocatorAdvances'
  BY <1>1, <1>2 DEF AllocatorAdvances
<1> QED
  BY <1>11, <1>12, <1>13, <1>14, <1>15

\* A renewal moves only the end of the lease.
LEMMA RenewKeepsInv ==
    ASSUME Inv,
           NEW l \in LaneId, NEW f \in Nat, NEW ttl \in 1..MaxTtl, NEW n \in Reading,
           renew(l, f, ttl, n)
    PROVE  Inv'
<1> USE DEF Inv
<1>0. l \in Active /\ n + ttl \in Nat
  BY BoundAssumption DEF renew, _require_lane_locked, Owned, Reading, TypeOK
<1>1. /\ lanes' = [lanes EXCEPT ![l].expires = n + ttl]
      /\ UNCHANGED <<lastFence, fenceCounter, clock, retired>>
  BY DEF renew
<1>2. lanes[l] \in Lane
  BY <1>0, NoneAssumption DEF TypeOK, Active
<1>3. lanes'[l] = [lanes[l] EXCEPT !.expires = n + ttl]
  BY <1>1 DEF TypeOK
<1>4. /\ lanes'[l] \in Lane
      /\ lanes'[l].fence = lanes[l].fence
      /\ lanes'[l].claims = lanes[l].claims
      /\ lanes'[l].capabilities = lanes[l].capabilities
  BY <1>0, <1>2, <1>3 DEF Lane
<1>5. \A m \in LaneId : m # l => lanes'[m] = lanes[m]
  BY <1>1 DEF TypeOK
<1>6. Active' = Active
  BY <1>0, <1>4, <1>5, NoneAssumption DEF Active
<1>7. TypeOK'
  <2>1. lanes' \in [LaneId -> Lane \cup {None}]
    BY <1>1, <1>4, <1>5 DEF TypeOK
  <2> QED
    BY <1>1, <1>4, <1>5, <1>6, <2>1 DEF TypeOK, Active
<1>8. \A m \in Active : /\ lanes'[m].fence = lanes[m].fence
                        /\ lanes'[m].claims = lanes[m].claims
  BY <1>4, <1>5 DEF Active
<1>9. NoConflict' /\ FencesUnique' /\ FencesCounted' /\ AllocatorAdvances'
  BY <1>1, <1>6, <1>8 DEF NoConflict, FencesUnique, FencesCounted, AllocatorAdvances
<1> QED
  BY <1>7, <1>9

LEMMA NextKeepsInv == Inv /\ [Next]_vars => Inv'
<1> SUFFICES ASSUME Inv, [Next]_vars PROVE Inv'
  OBVIOUS
<1> USE DEF Inv
<1>0. /\ lastFence \in Nat /\ fenceCounter \in Nat /\ clock \in Nat
      /\ lastFence <= fenceCounter
  BY DEF TypeOK, AllocatorAdvances
<1>1. ASSUME NEW n \in Reading, Reap(n) PROVE Inv'
  <2>1. Expired(n) \in SUBSET LaneId /\ Expired(n) = Expired(n) \cap Active
    BY DEF Expired, Active
  <2> QED
    BY <1>0, <1>1, <2>1, DeletingKeepsInv DEF Reap
<1>2. ASSUME NEW l \in LaneId, NEW caps \in SUBSET Capability,
             NEW claims \in ClaimChoice, NEW n \in Reading,
             OpenBlocked(l, caps, claims, n)
      PROVE  Inv'
  BY <1>1, <1>2 DEF OpenBlocked
<1>3. ASSUME NEW l \in LaneId, NEW f \in 1..fenceCounter, NEW n \in Reading,
             close(l, f, n) \/ RequireExpired(l, f, n)
      PROVE  Inv'
  <2>1. {l} \in SUBSET LaneId /\ {l} = {l} \cap Active
    BY <1>3 DEF close, RequireExpired, _require_lane_locked, Owned, Active
  <2>2. /\ lanes' = Without({l})
        /\ retired' = Bury({l} \cap Active)
        /\ UNCHANGED <<lastFence, fenceCounter, clock>>
    BY <1>3, <2>1 DEF close, RequireExpired
  <2> QED
    BY <1>0, <2>1, <2>2, DeletingKeepsInv
<1>4. ASSUME Tick PROVE Inv'
  BY <1>0, <1>4 DEF Tick, TypeOK, NoConflict, FencesUnique, FencesCounted,
                    AllocatorAdvances, Active
<1>5. ASSUME Restart PROVE Inv'
  <2>1. LaneId \in SUBSET LaneId /\ LaneId \cap Active = Active
    BY DEF Active
  <2>2. /\ fenceCounter' \in Nat /\ fenceCounter <= fenceCounter'
        /\ lastFence' = 0 /\ clock' = clock
    BY <1>0, <1>5 DEF Restart, next_fence
  <2> QED
    BY <1>0, <1>5, <2>1, <2>2, DeletingKeepsInv DEF Restart
<1>6. ASSUME UNCHANGED vars PROVE Inv'
  BY <1>6 DEF vars, TypeOK, NoConflict, FencesUnique, FencesCounted,
              AllocatorAdvances, Active
<1>7. 1..fenceCounter \subseteq Nat
  BY <1>0
<1> QED
  BY <1>1, <1>2, <1>3, <1>4, <1>5, <1>6, <1>7, OpenKeepsInv, RenewKeepsInv DEF Next

THEOREM RegistryInvariant == Spec => []Inv
BY InitEstablishesInv, NextKeepsInv, PTL DEF Spec

----------------------------------------------------------------------------
(* What the registry promises                                              *)

\* The registry's state is well typed in every reachable state.
THEOREM TypeCorrect == Spec => []TypeOK
BY RegistryInvariant, PTL DEF Inv

\* A closed, expired or lost token is refused ever after: no fence is granted
\* twice, whatever the number of reopenings and restarts, and
\* _require_lane_locked compares fences.
THEOREM StaleTokensStayFencedOut == Spec => []FencedOut
<1>1. Inv => FencedOut
  BY DEF Inv, FencesUnique, FencedOut, _require_lane_locked, Owned
<1> QED
  BY <1>1, RegistryInvariant, PTL

\* The monotonicity check on the fence allocator never raises.
THEOREM FenceAllocatorNeverTrips == Spec => []AllocatorAdvances
BY RegistryInvariant, PTL DEF Inv

\* authorize never lets one lane write what another may read or write.
LEMMA NoConflictIsExclusive == TypeOK /\ NoConflict => ExclusiveWrite
<1> SUFFICES ASSUME TypeOK, NoConflict,
                    NEW l \in Active, NEW m \in Active, l # m,
                    NEW key \in Resource, NEW mode \in Mode,
                    NEW c \in Capability, NEW d \in Capability,
                    NEW i \in Reading, NEW j \in Reading,
                    authorize(l, lanes[l].fence, c, key, WRITE, i),
                    authorize(m, lanes[m].fence, d, key, mode, j)
             PROVE  FALSE
  BY DEF ExclusiveWrite
<1>1. PICK a \in lanes[l].claims : _claim_covers(a, key, WRITE)
  BY DEF authorize
<1>2. PICK b \in lanes[m].claims : _claim_covers(b, key, mode)
  BY DEF authorize
<1>3. lanes[l] \in Lane /\ lanes[m] \in Lane
  BY DEF TypeOK, Active
<1>4. a.key \in Resource /\ b.key \in Resource
  BY <1>3 DEF Lane, Claim
<1>5. a.mode = WRITE /\ Under(key, a.key) /\ Under(key, b.key)
  BY <1>1, <1>2 DEF _claim_covers
<1>6. _resources_overlap(a.key, b.key)
  BY <1>4, <1>5, EnclosingKeysAreComparable
<1>7. _first_conflict(lanes[l].claims, lanes[m].claims)
  BY <1>5, <1>6 DEF _first_conflict
<1> QED
  BY <1>7 DEF NoConflict

THEOREM WritersAreExclusive == Spec => []ExclusiveWrite
BY RegistryInvariant, NoConflictIsExclusive, PTL DEF Inv

----------------------------------------------------------------------------
(* max_lanes.  The count is of the lanes left after reaping, so the bound   *)
(* needs that reaping and the new lane together replace the old table.      *)

FiniteCapacity == IsFiniteSet(Active) /\ LaneCapacity

LEMMA NextKeepsCapacity == Inv /\ FiniteCapacity /\ [Next]_vars => FiniteCapacity'
<1> SUFFICES ASSUME Inv, FiniteCapacity, [Next]_vars PROVE FiniteCapacity'
  OBVIOUS
<1> USE DEF FiniteCapacity, LaneCapacity
<1>0. MaxLanes \in Nat \ {0} /\ Cardinality(Active) \in Nat
  BY BoundAssumption, FS_CardinalityType
<1>1. ASSUME Active' \subseteq Active PROVE FiniteCapacity'
  <2>1. IsFiniteSet(Active') /\ Cardinality(Active') <= Cardinality(Active)
    BY <1>1, FS_Subset
  <2>2. Cardinality(Active') \in Nat
    BY <2>1, FS_CardinalityType
  <2> QED
    BY <1>0, <2>1, <2>2
<1>2. ASSUME NEW gone, lanes' = Without(gone) PROVE Active' \subseteq Active
  BY <1>2 DEF Active, Without
<1>3. ASSUME NEW l \in LaneId, NEW f \in 1..fenceCounter, NEW n \in Reading,
             NEW ttl \in 1..MaxTtl, renew(l, f, ttl, n)
      PROVE  Active' \subseteq Active
  BY <1>3 DEF renew, Active, _require_lane_locked, Owned, Inv, TypeOK
<1>4. ASSUME NEW l \in LaneId, NEW caps \in SUBSET Capability,
             NEW claims \in ClaimChoice, NEW ttl \in 1..MaxTtl, NEW n \in Reading,
             open_lane(l, caps, claims, ttl, n)
      PROVE  FiniteCapacity'
  <2> DEFINE live == Active \ Expired(n)
  <2>1. Active' \subseteq live \cup {l}
    BY <1>4 DEF open_lane, Active, Without
  <2>2. IsFiniteSet(live) /\ live \in SUBSET Active
    BY FS_Subset
  <2>3. Cardinality(live) \in Nat /\ ~(Cardinality(live) >= MaxLanes)
    BY <1>4, <2>2, FS_CardinalityType DEF open_lane, Collides, Full
  <2>4. /\ IsFiniteSet(live \cup {l})
        /\ Cardinality(live \cup {l}) \in {Cardinality(live), Cardinality(live) + 1}
    BY <2>2, FS_AddElement
  <2>5. IsFiniteSet(Active') /\ Cardinality(Active') <= Cardinality(live \cup {l})
    BY <2>1, <2>4, FS_Subset
  <2>6. Cardinality(Active') \in Nat
    BY <2>5, FS_CardinalityType
  <2> QED
    BY <1>0, <2>3, <2>4, <2>5, <2>6
<1>5. ASSUME UNCHANGED lanes PROVE Active' \subseteq Active
  BY <1>5 DEF Active
<1>6. CASE Next
  <2>1. CASE \E l \in LaneId, caps \in SUBSET Capability, claims \in ClaimChoice,
                n \in Reading : OpenBlocked(l, caps, claims, n)
    BY <1>1, <1>2, <2>1 DEF OpenBlocked, Reap
  <2>2. CASE \E l \in LaneId, f \in 1..fenceCounter, n \in Reading :
                close(l, f, n) \/ RequireExpired(l, f, n)
    BY <1>1, <1>2, <2>2 DEF close, RequireExpired
  <2>3. CASE \E n \in Reading : Reap(n)
    BY <1>1, <1>2, <2>3 DEF Reap
  <2>4. CASE Tick
    BY <1>1, <1>5, <2>4 DEF Tick
  <2>5. CASE Restart
    BY <1>1, <1>2, <2>5 DEF Restart
  <2> QED
    BY <1>1, <1>3, <1>4, <1>6, <2>1, <2>2, <2>3, <2>4, <2>5 DEF Next
<1>7. CASE UNCHANGED vars
  BY <1>1, <1>5, <1>7 DEF vars
<1> QED
  BY <1>6, <1>7

\* max_lanes is never exceeded, expired lanes that nothing has reaped included.
THEOREM LanesAreBounded == Spec => []LaneCapacity
<1>1. Init => FiniteCapacity
  <2> SUFFICES ASSUME Init PROVE FiniteCapacity
    OBVIOUS
  <2>1. Active = {}
    BY DEF Init, Active
  <2> QED
    BY <2>1, FS_EmptySet, BoundAssumption DEF FiniteCapacity, LaneCapacity
<1> QED
  BY <1>1, NextKeepsCapacity, RegistryInvariant, PTL DEF Spec, FiniteCapacity

----------------------------------------------------------------------------
\* Nothing but its own holder, or the end of the process, takes a lane away or
\* changes it before its lease ends.
THEOREM LeasesAreHonoured == Spec => LeaseHonoured
<1> DEFINE Honoured ==
        \A l \in Active :
          clock < lanes[l].expires /\ lanes'[l] # lanes[l] =>
              \/ Restart
              \/ \E f \in {lanes[l].fence}, n \in Reading :
                    close(l, f, n) \/ \E ttl \in 1..MaxTtl : renew(l, f, ttl, n)
<1>1. Inv /\ [Next]_vars => Honoured
  <2> SUFFICES ASSUME Inv, [Next]_vars,
                      NEW l \in Active, clock < lanes[l].expires, lanes'[l] # lanes[l]
               PROVE  \/ Restart
                      \/ \E f \in {lanes[l].fence}, n \in Reading :
                            \/ close(l, f, n)
                            \/ \E ttl \in 1..MaxTtl : renew(l, f, ttl, n)
    OBVIOUS
  <2>0. l \in LaneId /\ lanes[l] \in Lane /\ clock \in Nat /\ lanes[l].expires \in Nat
    BY DEF Inv, TypeOK, Active, Lane
  <2>1. \A n \in Reading : l \notin Expired(n)
    BY <2>0 DEF Reading, Expired
  <2>2. ASSUME NEW n \in Reading, Reap(n) PROVE FALSE
    BY <2>0, <2>1, <2>2 DEF Reap, Without
  <2>3. ASSUME NEW m \in LaneId, NEW f \in 1..fenceCounter, NEW n \in Reading,
               RequireExpired(m, f, n)
        PROVE  FALSE
    BY <2>0, <2>1, <2>3 DEF RequireExpired, Without, Expired, Owned
  <2>4. ASSUME NEW m \in LaneId, NEW caps \in SUBSET Capability,
               NEW claims \in ClaimChoice, NEW ttl \in 1..MaxTtl, NEW n \in Reading,
               open_lane(m, caps, claims, ttl, n)
        PROVE  FALSE
    <3>1. m \notin Active \ Expired(n)
      BY <2>4 DEF open_lane, Collides
    <3>2. m # l
      BY <2>1, <3>1
    <3> QED
      BY <2>0, <2>1, <2>4, <3>2 DEF open_lane, Without
  <2>5. ASSUME NEW m \in LaneId, NEW f \in 1..fenceCounter, NEW n \in Reading,
               close(m, f, n)
        PROVE  m = l /\ f = lanes[l].fence
    BY <2>0, <2>5 DEF close, Without, _require_lane_locked, Owned
  <2>6. ASSUME NEW m \in LaneId, NEW f \in 1..fenceCounter, NEW n \in Reading,
               NEW ttl \in 1..MaxTtl, renew(m, f, ttl, n)
        PROVE  m = l /\ f = lanes[l].fence
    BY <2>0, <2>6 DEF renew, _require_lane_locked, Owned, Inv, TypeOK
  <2>7. ~Tick /\ ~UNCHANGED vars
    BY DEF Tick, vars
  <2> QED
    BY <2>2, <2>3, <2>4, <2>5, <2>6, <2>7 DEF Next, OpenBlocked
<1> QED
  BY <1>1, RegistryInvariant, PTL DEF Spec, LeaseHonoured

=============================================================================
