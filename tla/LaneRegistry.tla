---------------------------- MODULE LaneRegistry ----------------------------
(***************************************************************************)
(* The lane registry of the workstation agent: leased execution lanes that *)
(* hold resource claims and are fenced by a durable counter                *)
(* (veraport_agent/core.py, LaneRegistry, with the fence allocator of      *)
(* veraport_agent/state.py, AgentStateStore.next_fence).                   *)
(*                                                                         *)
(* Every public method of the registry runs under one lock, so each is one *)
(* action.  What it does NOT do under that lock is read the clock:         *)
(* time.monotonic() is called first, so a method may act on a reading that *)
(* is old by the time it owns the lock.  A refusal that leaves the         *)
(* registry as it was (unknown lane, wrong fence, capability outside the   *)
(* ceiling) is a stuttering step.                                          *)
(***************************************************************************)
EXTENDS Integers, FiniteSets, SequencesExt

CONSTANTS
    LaneId,       \* lane identifiers, already prefixed by the session
    Capability,   \* capability names
    Ceiling,      \* the session ceiling given to the registry
    Resource,     \* resource keys as a caller spells them
    Norm,         \* key |-> <<namespace, segment, ...>>: split at the first
                  \* ":", trailing "/" dropped, case folded where the host does
    ClaimChoice,  \* the claim sets a caller asks for (bounds the model)
    MaxLanes,     \* max_lanes
    MaxTtl,       \* longest ttl_s asked for (bounds the model)
    MaxLag,       \* oldest clock reading a method can act on
    MaxTime,      \* bounds the clock
    MaxFence,     \* bounds the number of grants
    None          \* no lane under this id

READ  == "read"
WRITE == "write"

Mode  == {READ, WRITE}
Claim == [key : Resource, mode : Mode]

ASSUME CeilingAssumption == Ceiling \subseteq Capability
ASSUME NormAssumption    == Norm \in [Resource -> Seq(STRING)]
ASSUME ClaimAssumption   == ClaimChoice \subseteq SUBSET Claim
ASSUME BoundAssumption   == /\ MaxLanes \in Nat \ {0}
                            /\ MaxTtl \in Nat
                            /\ MaxLag \in Nat
                            /\ MaxTime \in Nat
                            /\ MaxFence \in Nat

VARIABLES
    lanes,         \* LaneRegistry._lanes
    lastFence,     \* LaneRegistry._last_fence, lost when the agent stops
    fenceCounter,  \* metadata.fence_counter in the state store, durable
    clock,         \* time.monotonic()
    retired        \* history: <<lane_id, fence>> of lanes that left the registry

vars == <<lanes, lastFence, fenceCounter, clock, retired>>

Lane == [capabilities : SUBSET Capability,
         claims       : SUBSET Claim,
         fence        : Nat,
         expires      : Nat]

ASSUME NoneAssumption == None \notin Lane

----------------------------------------------------------------------------
(* Claims                                                                  *)

\* The strings compared by startswith(value + "/") are paths, so one key lies
\* under another when its segments begin with the other's.
Under(key, root) == IsPrefix(Norm[root], Norm[key])

OverlapSameKeyOnly(left, right) == Norm[left] = Norm[right]

_resources_overlap(left, right) == Under(left, right) \/ Under(right, left)

_first_conflict(left, right) ==
    \E a \in left, b \in right :
        _resources_overlap(a.key, b.key) /\ WRITE \in {a.mode, b.mode}

_claim_covers(claim, key, mode) ==
    /\ mode = WRITE => claim.mode = WRITE
    /\ Under(key, claim.key)

----------------------------------------------------------------------------
(* Leases                                                                  *)

Active == {l \in LaneId : lanes[l] # None}

\* What time.monotonic() may have returned to a method that now owns the lock.
Reading == {n \in 0..clock : clock - n <= MaxLag}

Expired(n) == {l \in Active : n >= lanes[l].expires}

Token(l) == <<l, lanes[l].fence>>

\* The registry and the history once the lanes in gone are deleted.
Without(gone) == [l \in LaneId |-> IF l \in gone THEN None ELSE lanes[l]]
Bury(gone)    == retired \cup {Token(l) : l \in gone}

Owned(l, f) == l \in Active /\ lanes[l].fence = f

_require_lane_locked(l, f, n) == Owned(l, f) /\ n < lanes[l].expires

\* renew, close or authorize met its own lane past the lease: the lane is
\* deleted and LaneExpired raised.
RequireExpired(l, f, n) ==
    /\ Owned(l, f)
    /\ n >= lanes[l].expires
    /\ lanes' = Without({l})
    /\ retired' = Bury({l})
    /\ UNCHANGED <<lastFence, fenceCounter, clock>>

ReapEarly(n) ==
    LET gone == {l \in Active : n + 1 >= lanes[l].expires}
    IN  /\ gone # {}
        /\ lanes' = Without(gone)
        /\ retired' = Bury(gone)
        /\ UNCHANGED <<lastFence, fenceCounter, clock>>

\* reap_expired and snapshot.
Reap(n) ==
    /\ Expired(n) # {}
    /\ lanes' = Without(Expired(n))
    /\ retired' = Bury(Expired(n))
    /\ UNCHANGED <<lastFence, fenceCounter, clock>>

----------------------------------------------------------------------------
(* lane.open                                                               *)

Full(n) == Cardinality(Active \ Expired(n)) >= MaxLanes

Collides(l, claims, n) ==
    LET live == Active \ Expired(n)
    IN  \/ l \in live
        \/ Full(n)
        \/ \E x \in live : _first_conflict(claims, lanes[x].claims)

NextFenceInMemory == lastFence + 1

\* AgentStateStore.next_fence: committed before the lane is stored.
next_fence == fenceCounter + 1

\* open_lane raised CollisionBlocked: only the reaping before the checks shows.
OpenBlocked(l, caps, claims, n) ==
    /\ caps \subseteq Ceiling
    /\ Collides(l, claims, n)
    /\ Reap(n)

\* A fence that does not advance raises RuntimeError after the allocator has
\* committed: the reaping shows and no lane is stored.
open_lane(l, caps, claims, ttl, n) ==
    LET gone  == Expired(n)
        lane  == [capabilities |-> caps, claims |-> claims,
                  fence |-> next_fence, expires |-> n + ttl]
        moves == next_fence > lastFence
    IN  /\ caps \subseteq Ceiling
        /\ ~Collides(l, claims, n)
        /\ fenceCounter < MaxFence
        /\ fenceCounter' = next_fence
        /\ lastFence' = IF moves THEN next_fence ELSE lastFence
        /\ lanes' = IF moves THEN [Without(gone) EXCEPT ![l] = lane]
                             ELSE Without(gone)
        /\ retired' = Bury(gone)
        /\ UNCHANGED clock

----------------------------------------------------------------------------
(* lane.renew, lane.close and authorize                                    *)

renew(l, f, ttl, n) ==
    /\ _require_lane_locked(l, f, n)
    /\ lanes' = [lanes EXCEPT ![l].expires = n + ttl]
    /\ UNCHANGED <<lastFence, fenceCounter, clock, retired>>

close(l, f, n) ==
    /\ _require_lane_locked(l, f, n)
    /\ lanes' = Without({l})
    /\ retired' = Bury({l})
    /\ UNCHANGED <<lastFence, fenceCounter, clock>>

\* authorize returns the lane: it changes nothing, so it is a predicate.
authorize(l, f, cap, key, mode, n) ==
    /\ _require_lane_locked(l, f, n)
    /\ cap \in lanes[l].capabilities
    /\ \E c \in lanes[l].claims : _claim_covers(c, key, mode)

----------------------------------------------------------------------------
(* The agent process and time                                              *)

Tick ==
    /\ clock < MaxTime
    /\ clock' = clock + 1
    /\ UNCHANGED <<lanes, lastFence, fenceCounter, retired>>

\* The agent stops, or dies, and a new process builds a new registry over the
\* same state store.  It may die after the fence is committed and before the
\* lane is stored: that fence is spent.
Restart ==
    /\ lanes' = Without(LaneId)
    /\ lastFence' = 0
    /\ fenceCounter' \in {fenceCounter, next_fence} \cap 0..MaxFence
    /\ retired' = Bury(Active)
    /\ UNCHANGED clock

Init ==
    /\ lanes = [l \in LaneId |-> None]
    /\ lastFence = 0
    /\ fenceCounter = 0
    /\ clock = 0
    /\ retired = {}

Next ==
    \/ \E l \in LaneId, caps \in SUBSET Capability, claims \in ClaimChoice,
          n \in Reading :
          \/ OpenBlocked(l, caps, claims, n)
          \/ \E ttl \in 1..MaxTtl : open_lane(l, caps, claims, ttl, n)
    \/ \E l \in LaneId, f \in 1..fenceCounter, n \in Reading :
          \/ \E ttl \in 1..MaxTtl : renew(l, f, ttl, n)
          \/ close(l, f, n)
          \/ RequireExpired(l, f, n)
    \/ \E n \in Reading : Reap(n)
    \/ Tick
    \/ Restart

Spec == Init /\ [][Next]_vars

----------------------------------------------------------------------------
(* Properties                                                              *)

\* The registry's fields keep their types, every lane within the ceiling.
TypeOK ==
    /\ lanes \in [LaneId -> Lane \cup {None}]
    /\ lastFence \in Nat
    /\ fenceCounter \in Nat
    /\ clock \in Nat
    /\ retired \subseteq LaneId \X Nat
    /\ \A l \in Active : lanes[l].capabilities \subseteq Ceiling

\* While authorize lets one lane write a resource, it lets no other lane read
\* or write it, whatever old clock readings the two calls act on and however
\* the two lanes' claims spell the directories above it.
ExclusiveWrite ==
    \A l, m \in Active : \A key \in Resource, mode \in Mode :
        \A c, d \in Capability, i, j \in Reading :
            l # m => ~ /\ authorize(l, lanes[l].fence, c, key, WRITE, i)
                       /\ authorize(m, lanes[m].fence, d, key, mode, j)

\* A token whose lane was closed, reaped or lost with the process is refused
\* by renew, close and authorize from then on, on any clock reading: a stale
\* holder stays fenced out when the lane id is opened again, in the same
\* process or after a restart.
FencedOut == \A t \in retired, n \in Reading : ~_require_lane_locked(t[1], t[2], n)

\* The durable counter is never behind the registry's own high mark, so the
\* RuntimeError in open_lane is unreachable.
AllocatorAdvances == lastFence <= fenceCounter

\* max_lanes bounds the registry, expired lanes not yet reaped included.
LaneCapacity == Cardinality(Active) <= MaxLanes

\* A lane inside its lease leaves the registry or changes only by its own
\* holder's renew or close, or with the process.
LeaseHonoured ==
    [][\A l \in Active :
          clock < lanes[l].expires /\ lanes'[l] # lanes[l] =>
              \/ Restart
              \/ \E f \in {lanes[l].fence}, n \in Reading :
                    close(l, f, n) \/ \E ttl \in 1..MaxTtl : renew(l, f, ttl, n)]_vars

=============================================================================
