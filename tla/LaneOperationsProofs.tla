------------------------ MODULE LaneOperationsProofs ------------------------
(***************************************************************************)
(* Theorems about operations on lanes, for any number of callers, lanes,   *)
(* sessions and processes: the lane locks, what lane.close and             *)
(* close_session leave behind, and what a worker thread may rely on.       *)
(***************************************************************************)
EXTENDS LaneOperations, FiniteSetTheorems, SequenceTheorems, TLAPS

----------------------------------------------------------------------------
(* The inductive invariant, in parts.                                      *)

\* Conflicting claims do not coexist.
NoConflict ==
    \A l, m \in R!Active :
        l # m => ~R!_first_conflict(lanes[l].claims, lanes[m].claims)

\* Fences are numbered by the counter, and no active lane's token is retired.
Fences ==
    /\ \A l \in R!Active : lanes[l].fence \in 1..fenceCounter
    /\ \A t \in retired : t[2] <= fenceCounter
    /\ \A l \in R!Active : R!Token(l) \notin retired

RegistryInv == R!TypeOK /\ R!AllocatorAdvances /\ NoConflict /\ Fences

\* What the phases of a call say about its other fields.
Shape ==
    /\ \A a \in Actor : Busy(a) => op[a].lane \in LaneId
    /\ \A a \in Actor : ~Busy(a) => op[a].lock = None
    /\ \A a \in Actor : op[a].pc = "resume" => op[a].kind # "lane.close"
    /\ \A a \in Actor : op[a].key # None =>
          a \in Task /\ op[a].kind \notin HandleKind \cup {"lane.close"}
    /\ \A t \in Task : op[t].fence <= fenceCounter
    /\ \A t \in Task : op[t].pc # "sweep"
    /\ \A s \in Session : Busy(s) => op[s].kind = "lane.close"
    /\ \A s \in Session : op[s].pc # "idle" <=> session[s] = "closing"
    /\ \A s \in Session : session[s] \in {"closing", "closed"} => Calls(s) = {}

\* A call under way waits in the queue of its lane's one lock, at the head
\* when it is past acquire.
Queued ==
    /\ \A a \in Actor : Busy(a) =>
          /\ op[a].lock \in Lock
          /\ op[a].lock = locks[op[a].lane]
          /\ \E i \in 1..Len(queue[op[a].lock]) : queue[op[a].lock][i] = a
    /\ \A a \in Actor : Inside(a) => Head(queue[op[a].lock]) = a
    /\ \A l, m \in LaneId : locks[l] = locks[m] /\ locks[l] # None => l = m

\* The dictionaries count the calls.
Counted ==
    \A l \in LaneId :
        /\ users[l] = Cardinality(OnLane(l))
        /\ locks[l] = None <=> OnLane(l) = {}

\* A lane.close past its listing of processes has all that still run in todo.
ClosingSees ==
    \A a \in Actor : op[a].pc = "thread" /\ op[a].kind = "lane.close" =>
        \A p \in Process :
            Running(p) /\ TokenOf(proc[p]) = TokenOf(op[a]) => p \in op[a].todo

\* While a worker's lane is there, it has a claim on what the worker touches.
Covered ==
    \A a \in Actor : Working(a) /\ R!Owned(op[a].lane, op[a].fence) =>
        \E c \in lanes[op[a].lane].claims :
            R!_claim_covers(c, op[a].key, ModeOf(op[a].kind))

\* What close_session has not yet closed is in its snapshot.
SweepSees ==
    \A s \in Session : session[s] = "closing" =>
        \A l \in R!Active : SessionOf[l] = s =>
            \/ R!Token(l) \in op[s].left
            \/ Busy(s) /\ TokenOf(op[s]) = R!Token(l)

Inv ==
    /\ TypeOK /\ RegistryInv /\ Shape /\ Queued /\ Counted
    /\ closed \subseteq retired /\ ClosedIsQuiet /\ ClosingSees
    /\ Covered
    /\ SweepSees /\ SessionLeavesNoLane

----------------------------------------------------------------------------
(* The registry                                                            *)

\* What a step leaves of the registry: the lanes in S are new, the others are
\* the same lanes, with the same claims.
Keeps(S) ==
    /\ retired \subseteq retired'
    /\ fenceCounter' \in Nat /\ fenceCounter <= fenceCounter'
    /\ \A l \in R!Active' \ S :
          /\ l \in R!Active
          /\ lanes'[l].fence = lanes[l].fence
          /\ lanes'[l].claims = lanes[l].claims
    /\ \A l \in R!Active' \cap S : lanes'[l].fence > fenceCounter

\* An active lane is a lane, with a fence of its own.
LEMMA ActiveLanes ==
    ASSUME R!TypeOK
    PROVE  \A l \in R!Active : /\ l \in LaneId
                               /\ lanes[l] \in R!Lane
                               /\ lanes[l].fence \in Nat
                               /\ lanes[l].expires \in Nat
                               /\ lanes[l].claims \in SUBSET R!Claim
                               /\ R!Token(l) \in LaneId \X Nat
                               /\ R!Token(l)[1] = l
                               /\ R!Token(l)[2] = lanes[l].fence
<1> SUFFICES ASSUME NEW l \in R!Active
             PROVE  /\ l \in LaneId
                    /\ lanes[l] \in R!Lane
                    /\ R!Token(l) = <<l, lanes[l].fence>>
  BY DEF R!Lane
<1> QED
  BY DEF R!Active, R!TypeOK, R!Token

\* Lanes leave the registry and their tokens are retired.
LEMMA Deleting ==
    ASSUME RegistryInv, NEW gone \in SUBSET R!Active,
           lanes' = R!Without(gone), retired' = R!Bury(gone),
           UNCHANGED <<lastFence, fenceCounter, clock>>
    PROVE  /\ RegistryInv' /\ Keeps({})
           /\ \A l \in gone : l \notin R!Active' /\ R!Token(l) \in retired'
<1> USE DEF RegistryInv
<1>0. fenceCounter \in Nat
  BY DEF R!TypeOK
<1>1. \A l \in R!Active' : l \in R!Active /\ l \notin gone /\ lanes'[l] = lanes[l]
  BY DEF R!Active, R!Without
<1>2. \A t \in retired' : t \in retired \/ \E l \in gone : t = R!Token(l)
  BY DEF R!Bury
<1>3. Keeps({})
  BY <1>0, <1>1 DEF Keeps, R!Bury
<1>4. R!TypeOK'
  <2>1. lanes' \in [LaneId -> R!Lane \cup {None}]
    BY DEF R!TypeOK, R!Without
  <2>2. retired' \subseteq LaneId \X Nat
    BY <1>2, ActiveLanes DEF R!TypeOK
  <2> QED
    BY <1>1, <2>1, <2>2 DEF R!TypeOK
<1>5. NoConflict' /\ R!AllocatorAdvances'
  BY <1>1 DEF NoConflict, R!AllocatorAdvances
<1>6. \A l \in R!Active' : R!Token(l)' = R!Token(l)
  BY <1>1 DEF R!Token
<1>7. Fences'
  <2>1. \A l \in R!Active' : lanes'[l].fence \in 1..fenceCounter'
    BY <1>1 DEF Fences
  <2>2. \A t \in retired' : t[2] <= fenceCounter'
    BY <1>0, <1>2, ActiveLanes DEF Fences
  <2>3. \A l \in R!Active' : R!Token(l)' \notin retired'
    BY <1>1, <1>2, <1>6, ActiveLanes DEF Fences
  <2> QED
    BY <2>1, <2>2, <2>3 DEF Fences
<1> QED
  BY <1>1, <1>3, <1>4, <1>5, <1>7 DEF R!Bury

\* lane.open adds one lane, under a fence above every earlier one.
LEMMA Opening ==
    ASSUME RegistryInv, NEW l \in LaneId, NEW claims \in ClaimChoice,
           NEW ttl \in 1..MaxTtl, R!open_lane(l, Ceiling, claims, ttl, clock)
    PROVE  RegistryInv' /\ Keeps({l})
<1> DEFINE gone == R!Expired(clock)
           lane == [capabilities |-> Ceiling, claims |-> claims,
                    fence |-> fenceCounter + 1, expires |-> clock + ttl]
<1> USE DEF RegistryInv
<1>0. fenceCounter \in Nat /\ lastFence \in Nat /\ clock \in Nat
  BY DEF R!TypeOK
<1>1. fenceCounter + 1 > lastFence /\ R!next_fence = fenceCounter + 1
  BY <1>0 DEF R!AllocatorAdvances, R!next_fence
<1>2. /\ lanes' = [R!Without(gone) EXCEPT ![l] = lane]
      /\ fenceCounter' = fenceCounter + 1
      /\ lastFence' = fenceCounter + 1
      /\ retired' = R!Bury(gone)
      /\ clock' = clock
  BY <1>1 DEF R!open_lane
<1>3. lane \in R!Lane
  <2>1. clock + ttl \in Nat
    BY <1>0, RegistryAssumption
  <2> QED
    BY <1>0, <2>1, RegistryAssumption DEF R!Lane
<1>4. lanes'[l] = lane /\ l \in R!Active'
  BY <1>2, <1>3, NoneAssumption DEF R!Without, R!Active
<1>5. \A m \in R!Active' \ {l} : m \in R!Active \ gone /\ lanes'[m] = lanes[m]
  BY <1>2 DEF R!Active, R!Without
<1>6. gone \subseteq R!Active
  BY DEF R!Expired
<1>7. \A t \in retired' : t \in retired \/ \E m \in gone : t = R!Token(m)
  BY <1>2 DEF R!Bury
<1>8. Keeps({l})
  BY <1>0, <1>2, <1>4, <1>5 DEF Keeps, R!Bury
<1>9. R!TypeOK'
  <2>1. lanes' \in [LaneId -> R!Lane \cup {None}]
    BY <1>2, <1>3 DEF R!TypeOK, R!Without
  <2>2. retired' \subseteq LaneId \X Nat
    BY <1>6, <1>7, ActiveLanes DEF R!TypeOK
  <2>3. \A m \in R!Active' : lanes'[m].capabilities \subseteq Ceiling
    BY <1>4, <1>5 DEF R!TypeOK
  <2> QED
    BY <1>0, <1>2, <2>1, <2>2, <2>3 DEF R!TypeOK
<1>10. R!AllocatorAdvances'
  BY <1>0, <1>2 DEF R!AllocatorAdvances
<1>11. NoConflict'
  <2>1. \A m \in R!Active \ gone : ~R!_first_conflict(claims, lanes[m].claims)
    BY DEF R!open_lane, R!Collides
  <2>2. \A m \in R!Active \ gone : ~R!_first_conflict(lanes[m].claims, claims)
    BY <2>1 DEF R!_first_conflict, R!_resources_overlap
  <2> QED
    BY <1>4, <1>5, <2>1, <2>2 DEF NoConflict
<1>12. Fences'
  <2>1. \A m \in R!Active' : lanes'[m].fence \in 1..fenceCounter'
    BY <1>0, <1>2, <1>4, <1>5 DEF Fences
  <2>2. \A t \in retired' : t[2] <= fenceCounter
    BY <1>0, <1>6, <1>7, ActiveLanes DEF Fences
  <2>3. \A t \in retired' : t[2] \in Nat
    BY <1>9 DEF R!TypeOK
  <2>4. R!Token(l)' \notin retired'
    <3>1. R!Token(l)'[2] = fenceCounter + 1
      BY <1>4 DEF R!Token
    <3> QED
      BY <1>0, <2>2, <2>3, <3>1
  <2>5. \A m \in R!Active' \ {l} : R!Token(m)' = R!Token(m)
    BY <1>5 DEF R!Token
  <2>6. \A m \in R!Active' \ {l} : R!Token(m)' \notin retired'
    BY <1>5, <1>6, <1>7, <2>5, ActiveLanes DEF Fences
  <2>7. \A t \in retired' : t[2] <= fenceCounter'
    BY <1>0, <1>2, <2>2, <2>3
  <2> QED
    BY <2>1, <2>4, <2>6, <2>7 DEF Fences
<1> QED
  BY <1>8, <1>9, <1>10, <1>11, <1>12

\* lane.renew keeps the token and the claims.
LEMMA Renewing ==
    ASSUME RegistryInv, NEW l \in LaneId, NEW f, NEW ttl \in 1..MaxTtl,
           R!renew(l, f, ttl, clock)
    PROVE  RegistryInv' /\ Keeps({})
<1> USE DEF RegistryInv
<1>0. /\ l \in R!Active /\ clock + ttl \in Nat
      /\ lanes' = [lanes EXCEPT ![l].expires = clock + ttl]
      /\ UNCHANGED <<lastFence, fenceCounter, clock, retired>>
      /\ fenceCounter \in Nat
  BY RegistryAssumption DEF R!renew, R!_require_lane_locked, R!Owned, R!TypeOK
<1>1. lanes[l] \in R!Lane
  BY <1>0, ActiveLanes
<1>2. lanes'[l] = [lanes[l] EXCEPT !.expires = clock + ttl]
  BY <1>0 DEF R!TypeOK
<1>3. /\ lanes'[l] \in R!Lane
      /\ lanes'[l].fence = lanes[l].fence
      /\ lanes'[l].claims = lanes[l].claims
      /\ lanes'[l].capabilities = lanes[l].capabilities
  BY <1>0, <1>1, <1>2 DEF R!Lane
<1>4. \A m \in LaneId : m # l => lanes'[m] = lanes[m]
  BY <1>0 DEF R!TypeOK
<1>5. R!Active' = R!Active
  BY <1>0, <1>3, <1>4, NoneAssumption DEF R!Active
<1>6. \A m \in R!Active : /\ lanes'[m].fence = lanes[m].fence
                          /\ lanes'[m].claims = lanes[m].claims
                          /\ lanes'[m].capabilities = lanes[m].capabilities
                          /\ R!Token(m)' = R!Token(m)
  BY <1>3, <1>4 DEF R!Active, R!Token
<1>7. R!TypeOK'
  <2>1. lanes' \in [LaneId -> R!Lane \cup {None}]
    BY <1>0, <1>3, <1>4 DEF R!TypeOK
  <2> QED
    BY <1>0, <1>5, <1>6, <2>1 DEF R!TypeOK
<1> QED
  BY <1>0, <1>5, <1>6, <1>7 DEF Keeps, NoConflict, Fences, R!AllocatorAdvances

\* Time passes, or the registry is left alone.
LEMMA Waiting ==
    ASSUME RegistryInv, R!Tick \/ UNCHANGED registry
    PROVE  RegistryInv' /\ Keeps({})
<1>1. /\ UNCHANGED <<lanes, lastFence, fenceCounter, retired>>
      /\ clock' \in Nat /\ fenceCounter \in Nat
  BY DEF R!Tick, registry, RegistryInv, R!TypeOK
<1>2. R!Active' = R!Active /\ \A l \in R!Active : R!Token(l)' = R!Token(l)
  BY <1>1 DEF R!Active, R!Token
<1> QED
  BY <1>1, <1>2 DEF RegistryInv, R!TypeOK, R!AllocatorAdvances, NoConflict, Fences, Keeps

\* Every step is a step of the registry, or leaves it alone; only lane.open
\* adds a lane, under a fence that is new.
LEMMA RegistrySteps ==
    ASSUME RegistryInv, Shape, [Next]_vars
    PROVE  /\ RegistryInv'
           /\ Keeps({}) \/ \E a \in Actor : RunOpen(a) /\ Keeps({op[a].lane})
<1> DEFINE Goal == RegistryInv' /\ Keeps({})
<1>1. ASSUME UNCHANGED registry PROVE Goal
  BY <1>1, Waiting
<1>2. ASSUME R!Reap(clock) PROVE Goal
  BY <1>2, Deleting DEF R!Reap, R!Expired
<1>3. ASSUME NEW l, NEW f, R!close(l, f, clock) \/ R!RequireExpired(l, f, clock) PROVE Goal
  <2>1. {l} \in SUBSET R!Active
    BY <1>3 DEF R!close, R!RequireExpired, R!_require_lane_locked, R!Owned
  <2> QED
    BY <1>3, <2>1, Deleting DEF R!close, R!RequireExpired
<1>4. ASSUME Snapshot PROVE Goal
  BY <1>1, <1>2, <1>4 DEF Snapshot
<1>5. ASSUME NEW l, NEW f, Rejected(l, f) PROVE Goal
  BY <1>1, <1>3, <1>5 DEF Rejected
<1>6. ASSUME NEW l, NEW f, NEW cap, NEW key, NEW mode, Denied(l, f, cap, key, mode)
      PROVE  Goal
  BY <1>1, <1>5, <1>6 DEF Denied
<1>7. ASSUME NEW a \in Actor, Holds(a) PROVE op[a].lane \in LaneId
  BY <1>7 DEF Holds, Busy, Shape
<1>8. ASSUME NEW a \in Actor, RunOpen(a)
      PROVE  RegistryInv' /\ (Keeps({}) \/ Keeps({op[a].lane}))
  <2>1. op[a].lane \in LaneId
    BY <1>7, <1>8 DEF RunOpen
  <2>2. CASE \E claims \in ClaimChoice : OpenRefused(op[a].lane, claims)
    BY <1>4, <2>2 DEF OpenRefused
  <2>3. CASE \E claims \in ClaimChoice, ttl \in 1..MaxTtl :
                R!open_lane(op[a].lane, Ceiling, claims, ttl, clock)
    BY <2>1, <2>3, Opening
  <2> QED
    BY <1>8, <2>2, <2>3 DEF RunOpen
<1>9. ASSUME NEW a \in Actor, RunRenew(a) PROVE Goal
  <2>1. op[a].lane \in LaneId
    BY <1>7, <1>9 DEF RunRenew
  <2> QED
    BY <1>5, <1>9, <2>1, Renewing DEF RunRenew
<1>10. ASSUME NEW a \in Actor, RunClose(a) PROVE Goal
  BY <1>3, <1>5, <1>10 DEF RunClose
<1>11. ASSUME NEW a \in Actor, AuthorizeFails(a) PROVE Goal
  BY <1>1, <1>6, <1>11 DEF AuthorizeFails
<1>12. ASSUME NEW a \in Actor,
              Authorize(a) \/ Effect(a) \/ _start_process_sync(a) \/ _write_process_input(a)
              \/ process_terminate(a) \/ Resume(a) \/ CloseSnapshot(a)
              \/ close_lane_processes(a) \/ ChildReads(a)
       PROVE  Goal
  BY <1>1, <1>12 DEF Authorize, Effect, _start_process_sync, _write_process_input,
         process_terminate, Resume, CloseSnapshot, close_lane_processes, ChildReads
<1>13. ASSUME NEW t \in Task, NEW l \in LaneId,
              \/ FenceLeft /\ Submit(t, "lane.open", l, 0, None, None)
              \/ \E f \in 1..fenceCounter : Request(t, l, f)
       PROVE  Goal
  BY <1>1, <1>13 DEF Request, Submit
<1>14. ASSUME NEW s \in Session, Hangup(s) \/ SweepNext(s) \/ SweepDone(s) PROVE Goal
  BY <1>1, <1>14 DEF Hangup, SweepNext, SweepDone
<1>15. ASSUME NEW s \in Session, close_session(s) PROVE Goal
  BY <1>4, <1>15 DEF close_session
<1>16. ASSUME NEW p \in Process, _watchdog(p) \/ Overdue(p) \/ ChildExits(p) PROVE Goal
  BY <1>1, <1>6, <1>16 DEF _watchdog, Overdue, ChildExits
<1>17. ASSUME ListLanes \/ Tick PROVE Goal
  BY <1>2, <1>17, Waiting DEF ListLanes, Tick
<1>18. ASSUME UNCHANGED vars PROVE Goal
  BY <1>1, <1>18 DEF vars
<1>19. ASSUME NEW a \in Actor, Proceed(a)
       PROVE  Goal \/ (RegistryInv' /\ RunOpen(a) /\ Keeps({op[a].lane}))
  BY <1>8, <1>9, <1>10, <1>11, <1>12, <1>19 DEF Proceed
<1>20. ASSUME NEW t \in Task, ChildReads(t) PROVE Goal
  BY <1>12, <1>20 DEF Actor
<1> HIDE DEF Goal
<1>21. CASE Next
  <2>1. Goal \/ \E a \in Actor : RegistryInv' /\ RunOpen(a) /\ Keeps({op[a].lane})
    BY <1>13, <1>14, <1>15, <1>16, <1>17, <1>19, <1>20, <1>21 DEF Next, Drain
  <2> QED
    BY <2>1 DEF Goal
<1> QED
  BY <1>18, <1>21 DEF Goal

----------------------------------------------------------------------------
(* The lane locks                                                          *)

\* The calls on a lane can be counted.
LEMMA ActorsAreFinite == /\ IsFiniteSet(Actor) /\ Cardinality(Actor) \in Nat
                         /\ \A l : IsFiniteSet(OnLane(l)) /\ Cardinality(OnLane(l)) \in Nat
<1>1. IsFiniteSet(Actor) /\ \A l : OnLane(l) \in SUBSET Actor
  BY FiniteAssumption DEF Actor, OnLane
<1> QED
  BY <1>1, FS_CardinalityType, FS_Subset

\* A caller that comes in always finds a lock that nobody uses.
LEMMA FreshLockIsFresh ==
    ASSUME TypeOK, Shape, Queued, Counted, NEW a \in Actor, ~Busy(a)
    PROVE  /\ FreshLock \in Lock
           /\ \A l \in LaneId : locks[l] # FreshLock
           /\ \A b \in Actor : op[b].lock # FreshLock
<1> DEFINE P(k) == /\ \A l \in LaneId : locks[l] # k
                   /\ \A b \in Actor : op[b].lock # k
<1>1. ASSUME \A k \in Lock : ~P(k) PROVE FALSE
  <2>1. op[a].lock \notin Lock
    BY NoneAssumption DEF Shape
  <2>2. ASSUME NEW k \in Lock PROVE \E b \in Actor \ {a} : op[b].lock = k
    <3>1. ASSUME NEW l \in LaneId, locks[l] = k PROVE \E b \in Actor \ {a} : op[b].lock = k
      <4>1. k # None
        BY NoneAssumption
      <4>2. OnLane(l) # {}
        BY <3>1, <4>1 DEF Counted
      <4>3. PICK b \in Actor : Busy(b) /\ op[b].lane = l
        BY <4>2 DEF OnLane
      <4> QED
        BY <3>1, <4>3 DEF Queued
    <3>2. CASE \E b \in Actor : op[b].lock = k
      BY <2>1, <3>2
    <3> QED
      BY <1>1, <3>1, <3>2
  <2> DEFINE user == [k \in Lock |-> CHOOSE b \in Actor \ {a} : op[b].lock = k]
  <2>3. \A k \in Lock : user[k] \in Actor \ {a} /\ op[user[k]].lock = k
    BY <2>2
  <2>4. user \in [Lock -> Actor \ {a}]
    BY <2>3
  <2>5. /\ IsFiniteSet(Actor \ {a})
        /\ Cardinality(Actor \ {a}) = Cardinality(Actor) - 1
        /\ Cardinality(Actor) \in Nat
    BY ActorsAreFinite, FS_RemoveElement
  <2>6. IsFiniteSet(Lock) /\ Cardinality(Lock) = Cardinality(Actor)
    <3>1. Cardinality(Actor \ {a}) \in Nat
      BY <2>5, FS_CardinalityType
    <3>2. Cardinality(Actor) >= 1
      BY <2>5, <3>1
    <3>3. IsFiniteSet(1..Cardinality(Actor))
          /\ Cardinality(1..Cardinality(Actor)) = Cardinality(Actor)
      BY <2>5, <3>2, FS_Interval
    <3> QED
      BY <3>3 DEF Lock
  <2>7. \E x, y \in Lock : x # y /\ user[x] = user[y]
    <3> HIDE DEF user
    <3>1. Cardinality(Actor \ {a}) < Cardinality(Lock)
      BY <2>5, <2>6
    <3> QED
      BY <2>4, <2>5, <2>6, <3>1, FS_PigeonHole
  <2> QED
    BY <2>3, <2>7
<1>2. \E k \in Lock : P(k)
  BY <1>1
<1> QED
  BY <1>2 DEF FreshLock

LockTypes ==
    /\ locks \in [LaneId -> Lock \cup {None}]
    /\ users \in [LaneId -> Nat]
    /\ queue \in [Lock -> Seq(Actor)]
    /\ op \in [Actor -> Op]

\* A call comes in and waits.
LEMMA Entering ==
    ASSUME TypeOK, Shape, Queued, Counted, NEW a \in Actor, ~Busy(a),
           NEW call \in Op, call.lane \in LaneId, Enter(a, call)
    PROVE  /\ LockTypes' /\ Queued' /\ Counted'
           /\ \E k \in Lock : op' = [op EXCEPT ![a] = [call EXCEPT !.pc = "queued", !.lock = k]]
<1> DEFINE l == call.lane
           k == IF locks[l] = None THEN FreshLock ELSE locks[l]
           new == [call EXCEPT !.pc = "queued", !.lock = k]
<1>1. /\ locks' = [locks EXCEPT ![l] = k]
      /\ users' = [users EXCEPT ![l] = @ + 1]
      /\ queue' = [queue EXCEPT ![k] = Append(@, a)]
      /\ op' = [op EXCEPT ![a] = new]
  BY DEF Enter
<1>2. k \in Lock /\ k # None
  BY FreshLockIsFresh, NoneAssumption DEF TypeOK
<1>3. /\ new \in Op /\ new.pc = "queued" /\ new.lane = l /\ new.lock = k
  BY <1>2 DEF Op
<1>4. \A m \in LaneId : locks[m] = k => m = l
  BY <1>2, FreshLockIsFresh DEF Queued
<1>5. \A b \in Actor : op[b].lock = k /\ Busy(b) => op[b].lane = l
  BY <1>4 DEF Queued, Shape
<1> HIDE DEF k, new
<1>6. op'[a] = new /\ \A b \in Actor \ {a} : op'[b] = op[b]
  BY <1>1 DEF TypeOK
<1>7. /\ locks'[l] = k /\ \A m \in LaneId \ {l} : locks'[m] = locks[m]
      /\ queue'[k] = Append(queue[k], a) /\ \A j \in Lock \ {k} : queue'[j] = queue[j]
      /\ users'[l] = users[l] + 1 /\ \A m \in LaneId \ {l} : users'[m] = users[m]
  BY <1>1, <1>2 DEF TypeOK
<1>8. LockTypes'
  BY <1>1, <1>2, <1>3 DEF TypeOK, LockTypes
<1>9. \A b \in Actor : /\ Busy(b)' <=> (Busy(b) \/ b = a)
                       /\ Inside(b)' <=> Inside(b)
  BY <1>3, <1>6 DEF Busy, Inside
<1>10. queue[k] \in Seq(Actor)
  BY <1>2 DEF TypeOK
<1>11. /\ Len(queue'[k]) = Len(queue[k]) + 1
       /\ \A i \in 1..Len(queue[k]) : queue'[k][i] = queue[k][i]
       /\ queue'[k][Len(queue[k]) + 1] = a
       /\ queue[k] # <<>> => Head(queue'[k]) = Head(queue[k])
  BY <1>7, <1>10, AppendProperties, HeadTailAppend
<1>12. Queued'
  <2>1. ASSUME NEW b \in Actor, Busy(b)'
        PROVE  /\ op'[b].lock \in Lock
               /\ op'[b].lock = locks'[op'[b].lane]
               /\ \E i \in 1..Len(queue'[op'[b].lock]) : queue'[op'[b].lock][i] = b
    <3>1. CASE b = a
      <4>1. Len(queue[k]) + 1 \in 1..Len(queue'[k])
        BY <1>10, <1>11
      <4> QED
        BY <1>2, <1>3, <1>6, <1>7, <1>11, <3>1, <4>1
    <3>2. CASE b # a
      <4>1. Busy(b) /\ op'[b] = op[b] /\ op[b].lane \in LaneId
        BY <1>6, <1>9, <2>1, <3>2 DEF Shape
      <4>2. op[b].lock \in Lock /\ op[b].lock = locks[op[b].lane]
        BY <4>1 DEF Queued
      <4>3. op[b].lock = locks'[op[b].lane]
        <5>1. CASE op[b].lane = l
          <6>1. locks[l] # None
            BY <4>2, <5>1, NoneAssumption
          <6> QED
            BY <1>7, <4>2, <5>1, <6>1 DEF k
        <5> QED
          BY <1>7, <4>1, <4>2, <5>1
      <4>4. PICK i \in 1..Len(queue[op[b].lock]) : queue[op[b].lock][i] = b
        BY <4>1 DEF Queued
      <4>5. i \in 1..Len(queue'[op[b].lock]) /\ queue'[op[b].lock][i] = b
        BY <1>7, <1>10, <1>11, <4>2, <4>4
      <4> QED
        BY <4>1, <4>2, <4>3, <4>5
    <3> QED
      BY <3>1, <3>2
  <2>2. ASSUME NEW b \in Actor, Inside(b)' PROVE Head(queue'[op'[b].lock]) = b
    <3>1. Inside(b) /\ Busy(b) /\ b # a /\ op'[b] = op[b]
      BY <1>6, <1>9, <2>2 DEF Inside, Busy
    <3>2. /\ op[b].lock \in Lock /\ Head(queue[op[b].lock]) = b
          /\ queue[op[b].lock] # <<>>
      BY <3>1 DEF Queued
    <3> QED
      BY <1>7, <1>11, <3>1, <3>2
  <2>3. ASSUME NEW m \in LaneId, NEW n \in LaneId, locks'[m] = locks'[n], locks'[m] # None
        PROVE  m = n
    BY <1>4, <1>7, <2>3 DEF Queued
  <2> QED
    BY <2>1, <2>2, <2>3 DEF Queued
<1>13. Counted'
  <2>1. OnLane(l)' = OnLane(l) \cup {a} /\ a \notin OnLane(l)
    BY <1>3, <1>6, <1>9 DEF OnLane
  <2>2. \A m \in LaneId \ {l} : OnLane(m)' = OnLane(m)
    BY <1>3, <1>6, <1>9 DEF OnLane
  <2>3. Cardinality(OnLane(l)') = Cardinality(OnLane(l)) + 1
    BY <2>1, ActorsAreFinite, FS_AddElement
  <2>4. ASSUME NEW m \in LaneId
        PROVE  users'[m] = Cardinality(OnLane(m)') /\ (locks'[m] = None <=> OnLane(m)' = {})
    <3>1. CASE m = l
      BY <1>2, <1>7, <2>1, <2>3, <3>1 DEF Counted
    <3>2. CASE m # l
      BY <1>7, <2>2, <3>2 DEF Counted
    <3> QED
      BY <3>1, <3>2
  <2> QED
    BY <2>4 DEF Counted
<1> QED
  BY <1>1, <1>2, <1>8, <1>12, <1>13 DEF new

\* The head of a lock's queue leaves.
LEMMA Leaves ==
    ASSUME TypeOK, Shape, Queued, Counted, NEW a \in Actor, Busy(a),
           Head(queue[op[a].lock]) = a, Leave(a)
    PROVE  /\ LockTypes' /\ Queued' /\ Counted'
           /\ op' = [op EXCEPT ![a] = AfterLane(a)]
<1>0. PICK l \in LaneId, k \in Lock : l = op[a].lane /\ k = op[a].lock
  BY DEF Shape, Queued
<1> DEFINE last == users[l] = 1
<1>1. /\ queue' = [queue EXCEPT ![k] = Tail(@)]
      /\ users' = [users EXCEPT ![l] = @ - 1]
      /\ locks' = [locks EXCEPT ![l] = IF last /\ @ = k THEN None ELSE @]
      /\ op' = [op EXCEPT ![a] = AfterLane(a)]
  BY <1>0 DEF Leave
<1>2. l \in LaneId /\ k \in Lock /\ k # None /\ k = locks[l]
  BY <1>0, NoneAssumption DEF Queued
<1>3. queue[k] \in Seq(Actor) /\ queue[k] # <<>> /\ Head(queue[k]) = a
  BY <1>0, <1>2 DEF Queued, TypeOK
<1>4. op'[a] = AfterLane(a) /\ \A b \in Actor \ {a} : op'[b] = op[b]
  BY <1>1 DEF TypeOK
<1>5. AfterLane(a) \in Op /\ AfterLane(a).pc \in {"idle", "sweep"} /\ AfterLane(a).lane = None
  <2>1. op[a].left \in SUBSET (LaneId \X Nat)
    BY DEF TypeOK, Op
  <2> QED
    BY <2>1 DEF AfterLane, Idle, Op
<1>6. \A b \in Actor : /\ Busy(b)' <=> (Busy(b) /\ b # a)
                       /\ Inside(b)' <=> (Inside(b) /\ b # a)
  BY <1>4, <1>5 DEF Busy, Inside
<1>7. OnLane(l)' = OnLane(l) \ {a} /\ a \in OnLane(l)
  BY <1>0, <1>4, <1>6 DEF OnLane
<1>8. \A m \in LaneId \ {l} : OnLane(m)' = OnLane(m)
  BY <1>0, <1>4, <1>6 DEF OnLane
<1>9. /\ Cardinality(OnLane(l)') = users[l] - 1 /\ users[l] \in Nat \ {0}
      /\ users[l] = 1 <=> OnLane(l)' = {}
  <2>1. Cardinality(OnLane(l)') = Cardinality(OnLane(l)) - 1
    BY <1>7, ActorsAreFinite, FS_RemoveElement
  <2>2. users[l] = Cardinality(OnLane(l)) /\ users[l] \in Nat
    BY <1>2, ActorsAreFinite DEF Counted
  <2>3. IsFiniteSet(OnLane(l)') /\ Cardinality(OnLane(l)') \in Nat
    BY <1>7, ActorsAreFinite, FS_RemoveElement, FS_CardinalityType
  <2>4. Cardinality(OnLane(l)') = 0 <=> OnLane(l)' = {}
    BY <2>3, FS_EmptySet
  <2> QED
    BY <2>1, <2>2, <2>3, <2>4
<1>10. /\ locks'[l] = (IF last THEN None ELSE k)
       /\ \A m \in LaneId \ {l} : locks'[m] = locks[m]
       /\ users'[l] = users[l] - 1 /\ \A m \in LaneId \ {l} : users'[m] = users[m]
       /\ queue'[k] = Tail(queue[k]) /\ \A j \in Lock \ {k} : queue'[j] = queue[j]
  BY <1>1, <1>2 DEF TypeOK
<1>11. /\ Tail(queue[k]) \in Seq(Actor)
       /\ Len(Tail(queue[k])) = Len(queue[k]) - 1
       /\ \A i \in 1..Len(Tail(queue[k])) : Tail(queue[k])[i] = queue[k][i + 1]
       /\ queue[k][1] = a
  BY <1>3, HeadTailProperties
<1>12. LockTypes'
  <2>1. users' \in [LaneId -> Nat]
    BY <1>1, <1>2, <1>9 DEF TypeOK
  <2> QED
    BY <1>1, <1>2, <1>5, <1>11, <2>1 DEF TypeOK, LockTypes
<1>13. \A b \in Actor : Busy(b) /\ op[b].lock = k => op[b].lane = l
  BY <1>2 DEF Queued, Shape
<1>14. Queued'
  <2>1. ASSUME NEW b \in Actor, Busy(b)'
        PROVE  /\ op'[b].lock \in Lock
               /\ op'[b].lock = locks'[op'[b].lane]
               /\ \E i \in 1..Len(queue'[op'[b].lock]) : queue'[op'[b].lock][i] = b
    <3>1. Busy(b) /\ b # a /\ op'[b] = op[b] /\ op[b].lane \in LaneId
      BY <1>4, <1>6, <2>1 DEF Shape
    <3>2. op[b].lock \in Lock /\ op[b].lock = locks[op[b].lane]
      BY <3>1 DEF Queued
    <3>3. op[b].lock = locks'[op[b].lane]
      <4>1. CASE op[b].lane = l
        <5>1. b \in OnLane(l)'
          BY <1>7, <3>1, <4>1 DEF OnLane
        <5> QED
          BY <1>2, <1>9, <1>10, <3>2, <4>1, <5>1
      <4> QED
        BY <1>10, <3>1, <3>2, <4>1
    <3>4. PICK i \in 1..Len(queue[op[b].lock]) : queue[op[b].lock][i] = b
      BY <3>1 DEF Queued
    <3>5. \E j \in 1..Len(queue'[op[b].lock]) : queue'[op[b].lock][j] = b
      <4>1. CASE op[b].lock = k
        <5>1. i # 1
          BY <1>11, <3>1, <3>4, <4>1
        <5>2. i - 1 \in 1..Len(Tail(queue[k])) /\ (i - 1) + 1 = i
          BY <1>3, <1>11, <3>4, <4>1, <5>1
        <5>3. Tail(queue[k])[i - 1] = b
          BY <1>11, <3>4, <4>1, <5>2
        <5> QED
          BY <1>10, <4>1, <5>2, <5>3
      <4> QED
        BY <1>10, <3>2, <3>4, <4>1
    <3> QED
      BY <3>1, <3>2, <3>3, <3>5
  <2>2. ASSUME NEW b \in Actor, Inside(b)' PROVE Head(queue'[op'[b].lock]) = b
    <3>1. Inside(b) /\ Busy(b) /\ b # a /\ op'[b] = op[b]
      BY <1>4, <1>6, <2>2 DEF Inside, Busy
    <3>2. op[b].lock \in Lock /\ Head(queue[op[b].lock]) = b
      BY <3>1 DEF Queued
    <3> QED
      BY <1>3, <1>10, <3>1, <3>2
  <2>3. ASSUME NEW m \in LaneId, NEW n \in LaneId, locks'[m] = locks'[n], locks'[m] # None
        PROVE  m = n
    BY <1>2, <1>10, <2>3 DEF Queued
  <2> QED
    BY <2>1, <2>2, <2>3 DEF Queued
<1>15. Counted'
  <2>1. ASSUME NEW m \in LaneId
        PROVE  users'[m] = Cardinality(OnLane(m)') /\ (locks'[m] = None <=> OnLane(m)' = {})
    <3>1. CASE m = l
      BY <1>2, <1>9, <1>10, <3>1
    <3>2. CASE m # l
      BY <1>8, <1>10, <3>2 DEF Counted
    <3> QED
      BY <3>1, <3>2
  <2> QED
    BY <2>1 DEF Counted
<1> QED
  BY <1>1, <1>12, <1>14, <1>15

\* A call changes without leaving or entering a lane.
LEMMA Moving ==
    ASSUME TypeOK, Shape, Queued, Counted, NEW a \in Actor, NEW new \in Op,
           op' = [op EXCEPT ![a] = new], UNCHANGED locking,
           Busy(a) => new.lane = op[a].lane /\ new.lock = op[a].lock,
           new.pc \in {"queued", "thread", "resume"} <=> Busy(a),
           new.pc \in {"thread", "resume"} => Head(queue[op[a].lock]) = a
    PROVE  LockTypes' /\ Queued' /\ Counted'
<1>1. op'[a] = new /\ \A b \in Actor \ {a} : op'[b] = op[b]
  BY DEF TypeOK
<1>2. UNCHANGED <<locks, users, queue>>
  BY DEF locking
<1>3. \A b \in Actor : /\ Busy(b)' <=> Busy(b)
                       /\ Busy(b) => op'[b].lane = op[b].lane /\ op'[b].lock = op[b].lock
  BY <1>1 DEF Busy
<1>4. \A b \in Actor : Inside(b)' => Busy(b) /\ Head(queue[op[b].lock]) = b
  BY <1>1 DEF Inside, Busy, Queued
<1>5. \A l : OnLane(l)' = OnLane(l)
  BY <1>3 DEF OnLane
<1>6. Queued'
  BY <1>2, <1>3, <1>4 DEF Queued
<1>7. LockTypes'
  BY <1>2 DEF LockTypes, TypeOK
<1> QED
  BY <1>2, <1>5, <1>6, <1>7 DEF Counted

\* A call past acquire is at the head of its queue.
LEMMA InsideIsHead ==
    ASSUME Queued, NEW a \in Actor, Holds(a) \/ Inside(a)
    PROVE  Busy(a) /\ Head(queue[op[a].lock]) = a
BY DEF Queued, Holds, Inside, Busy

\* Every step keeps the queues and the counts.
LEMMA LockSteps ==
    ASSUME TypeOK, RegistryInv, Shape, Queued, Counted, Next
    PROVE  LockTypes' /\ Queued' /\ Counted'
<1> DEFINE Goal == LockTypes' /\ Queued' /\ Counted'
<1>1. ASSUME NEW a \in Actor, Holds(a) \/ Inside(a), Leave(a) PROVE Goal
  BY <1>1, InsideIsHead, Leaves
<1>2. ASSUME NEW a \in Actor, Holds(a) \/ Inside(a), NEW pc \in {"thread", "resume"},
             UNCHANGED locking, Goto(a, pc)
      PROVE  Goal
  <2> DEFINE new == [op[a] EXCEPT !.pc = pc]
  <2>1. /\ new \in Op /\ new.pc = pc /\ new.lane = op[a].lane /\ new.lock = op[a].lock
        /\ op' = [op EXCEPT ![a] = new]
    BY <1>2 DEF TypeOK, Op, Goto
  <2> HIDE DEF new
  <2> QED
    BY <1>2, <2>1, InsideIsHead, Moving
<1>3. ASSUME NEW a \in Actor, Holds(a) \/ Inside(a), UNCHANGED locking,
             NEW todo \in SUBSET Process,
             op' = [op EXCEPT ![a].pc = "thread", ![a].todo = todo]
      PROVE  Goal
  <2> DEFINE new == [op[a] EXCEPT !.pc = "thread", !.todo = todo]
  <2>1. /\ new \in Op /\ new.pc = "thread" /\ new.lane = op[a].lane /\ new.lock = op[a].lock
        /\ op' = [op EXCEPT ![a] = new]
    BY <1>3 DEF TypeOK, Op
  <2> HIDE DEF new
  <2> QED
    BY <1>3, <2>1, InsideIsHead, Moving
<1>4. ASSUME NEW a \in Actor, ~Busy(a), NEW new \in Op, new.pc \in {"idle", "sweep"},
             op' = [op EXCEPT ![a] = new], UNCHANGED locking
      PROVE  Goal
  BY <1>4, Moving
<1>5. ASSUME UNCHANGED <<locking, op>> PROVE Goal
  <2>1. \A l : OnLane(l)' = OnLane(l)
    BY <1>5 DEF OnLane, Busy
  <2> QED
    BY <1>5, <2>1 DEF locking, TypeOK, LockTypes, Queued, Counted, Busy, Inside
<1>6. ASSUME NEW t \in Task, NEW kind \in Kind, NEW l \in LaneId, NEW f \in Nat,
             NEW key \in Resource \cup {None}, NEW p \in Process \cup {None},
             Submit(t, kind, l, f, key, p)
      PROVE  Goal
  <2> DEFINE call == [Idle EXCEPT !.kind = kind, !.lane = l, !.fence = f, !.key = key,
                                  !.proc = p]
  <2>1. call \in Op /\ call.lane = l
    BY DEF Idle, Op
  <2>2. ~Busy(t) /\ t \in Actor /\ Enter(t, call)
    BY <1>6 DEF Submit, Busy, Actor
  <2> HIDE DEF call
  <2> QED
    BY <2>1, <2>2, Entering
<1>7. ASSUME NEW t \in Task, NEW l \in LaneId,
             \/ FenceLeft /\ Submit(t, "lane.open", l, 0, None, None)
             \/ \E f \in 1..fenceCounter : Request(t, l, f)
      PROVE  Goal
  <2>1. FsKey \subseteq Resource /\ CwdKey \subseteq Resource /\ 1..fenceCounter \subseteq Nat
    BY KeyAssumption DEF RegistryInv, R!TypeOK
  <2> QED
    BY <1>6, <1>7, <2>1 DEF Request, Kind, FsKind, ProcessKind, HandleKind
<1>8. ASSUME NEW a \in Actor, RunOpen(a) \/ RunRenew(a) \/ AuthorizeFails(a) \/ Resume(a)
                               \/ RunClose(a)
      PROVE  Goal
  BY <1>1, <1>8 DEF RunOpen, RunRenew, AuthorizeFails, Resume, RunClose, Inside
<1>9. ASSUME NEW a \in Actor,
             Authorize(a) \/ Effect(a) \/ _start_process_sync(a) \/ _write_process_input(a)
             \/ process_terminate(a) \/ ChildReads(a)
      PROVE  Goal
  BY <1>2, <1>9 DEF Authorize, Effect, _start_process_sync, _write_process_input,
         process_terminate, ChildReads, Inside
<1>10. ASSUME NEW a \in Actor, CloseSnapshot(a) PROVE Goal
  BY <1>3, <1>10 DEF CloseSnapshot
<1>11. ASSUME NEW a \in Actor, close_lane_processes(a) PROVE Goal
  <2>1. PICK p \in op[a].todo : op' = [op EXCEPT ![a].todo = @ \ {p}]
    BY <1>11 DEF close_lane_processes
  <2>2. op[a].pc = "thread" /\ op[a] \in Op /\ op[a].todo \ {p} \in SUBSET Process
    BY <1>11 DEF close_lane_processes, TypeOK, Op
  <2>3. op' = [op EXCEPT ![a].pc = "thread", ![a].todo = op[a].todo \ {p}]
    BY <2>1, <2>2 DEF TypeOK, Op
  <2> QED
    BY <1>3, <1>11, <2>2, <2>3 DEF close_lane_processes, Inside
<1>12. ASSUME NEW s \in Session, close_session(s) PROVE Goal
  <2> DEFINE new == [op[s] EXCEPT !.pc = "sweep", !.left = SnapshotOf(s)]
  <2>1. s \in Actor /\ op[s].pc = "idle"
    BY <1>12 DEF close_session, Actor, Shape
  <2>2. SnapshotOf(s) \in SUBSET (LaneId \X Nat)
    BY ActiveLanes DEF SnapshotOf, RegistryInv
  <2>3. new \in Op /\ new.pc = "sweep"
    BY <2>1, <2>2 DEF TypeOK, Op
  <2>4. op' = [op EXCEPT ![s] = new] /\ UNCHANGED locking /\ ~Busy(s)
    BY <1>12, <2>1 DEF close_session, locking, Busy
  <2> HIDE DEF new
  <2> QED
    BY <1>4, <2>1, <2>3, <2>4
<1>13. ASSUME NEW s \in Session, SweepNext(s) PROVE Goal
  <2>1. PICK token \in op[s].left :
            Enter(s, [Idle EXCEPT !.kind = "lane.close", !.lane = token[1],
                                  !.fence = token[2], !.left = op[s].left \ {token}])
    BY <1>13 DEF SweepNext
  <2> DEFINE call == [Idle EXCEPT !.kind = "lane.close", !.lane = token[1],
                                  !.fence = token[2], !.left = op[s].left \ {token}]
  <2>2. s \in Actor /\ ~Busy(s) /\ op[s].left \in SUBSET (LaneId \X Nat)
    BY <1>13 DEF SweepNext, Actor, Busy, TypeOK, Op
  <2>3. token[1] \in LaneId /\ token[2] \in Nat
    BY <2>2
  <2>4. call \in Op /\ call.lane \in LaneId
    BY <2>2, <2>3 DEF Idle, Op, Kind
  <2> HIDE DEF call
  <2> QED
    BY <2>1, <2>2, <2>4, Entering DEF call
<1>14. ASSUME NEW s \in Session, SweepDone(s) PROVE Goal
  <2>1. s \in Actor /\ ~Busy(s) /\ Idle \in Op /\ Idle.pc = "idle"
    BY <1>14 DEF SweepDone, Busy, Actor, Idle, Op
  <2>2. op' = [op EXCEPT ![s] = Idle] /\ UNCHANGED locking
    BY <1>14 DEF SweepDone, locking
  <2> QED
    BY <1>4, <2>1, <2>2
<1>15. ASSUME NEW s \in Session, Hangup(s) PROVE Goal
  BY <1>5, <1>15 DEF Hangup
<1>16. ASSUME NEW p \in Process, _watchdog(p) \/ Overdue(p) \/ ChildExits(p) PROVE Goal
  BY <1>5, <1>16 DEF _watchdog, Overdue, ChildExits
<1>17. ASSUME ListLanes \/ Tick PROVE Goal
  BY <1>5, <1>17 DEF ListLanes, Tick
<1>18. Task \subseteq Actor
  BY DEF Actor
<1> HIDE DEF Goal
<1>19. ASSUME NEW a \in Actor, Proceed(a) PROVE Goal
  BY <1>8, <1>9, <1>10, <1>11, <1>19 DEF Proceed
<1> QED
  BY <1>7, <1>9, <1>12, <1>13, <1>14, <1>15, <1>16, <1>17, <1>18, <1>19 DEF Next, Drain, Goal

----------------------------------------------------------------------------
(* Types and phases                                                        *)

\* Every step keeps the types.
LEMMA TypeSteps ==
    ASSUME TypeOK, RegistryInv, Shape, Queued, Counted, [Next]_vars
    PROVE  TypeOK'
<1> USE DEF TypeOK
<1>1. CASE UNCHANGED vars
  BY <1>1 DEF vars, locking
<1>2. CASE Next
  <2>1. LockTypes'
    BY <1>2, LockSteps
  <2> DEFINE Rest == /\ session' \in [Session -> {"open", "draining", "closing", "closed"}]
                     /\ proc' \in [Process -> Managed]
                     /\ closed' \subseteq LaneId \X Nat
  <2>2. ASSUME UNCHANGED <<session, proc, closed>> PROVE Rest
    BY <2>2
  <2>3. \A p : _terminate_sync(p) \in [Process -> Managed]
    BY DEF _terminate_sync, Managed
  <2>4. ASSUME NEW a \in Actor, RunClose(a) PROVE Rest
    <3>1. op[a].lane \in LaneId /\ op[a].fence \in Nat
      BY <2>4 DEF RunClose, Shape, Busy, Op
    <3> QED
      BY <2>4, <3>1 DEF RunClose
  <2>5. ASSUME NEW a \in Actor, _start_process_sync(a) PROVE Rest
    <3>1. op[a] \in Op
      OBVIOUS
    <3>2. [state |-> "running", lane |-> op[a].lane, fence |-> op[a].fence,
           key |-> op[a].key, overdue |-> FALSE] \in Managed
      BY <3>1 DEF Op, Managed
    <3> QED
      BY <2>5, <3>2 DEF _start_process_sync
  <2>6. ASSUME NEW a \in Actor, Proceed(a) PROVE Rest
    <3>1. CASE process_terminate(a) \/ close_lane_processes(a)
      BY <2>3, <3>1 DEF process_terminate, close_lane_processes
    <3>2. CASE RunOpen(a) \/ RunRenew(a) \/ Authorize(a) \/ AuthorizeFails(a) \/ Effect(a)
               \/ _write_process_input(a) \/ Resume(a) \/ CloseSnapshot(a)
      BY <2>2, <3>2 DEF RunOpen, RunRenew, Authorize, AuthorizeFails, Effect,
                        _write_process_input, Resume, CloseSnapshot
    <3> HIDE DEF Rest
    <3> QED
      BY <2>4, <2>5, <2>6, <3>1, <3>2 DEF Proceed
  <2>7. ASSUME NEW s \in Session, Hangup(s) \/ Drain(s) PROVE Rest
    <3>1. CASE \E state \in {"draining", "closing", "closed"} :
                  session' = [session EXCEPT ![s] = state] /\ UNCHANGED <<proc, closed>>
      BY <3>1
    <3>2. CASE SweepNext(s)
      BY <2>2, <3>2 DEF SweepNext
    <3> QED
      BY <2>7, <3>1, <3>2 DEF Hangup, Drain, close_session, SweepDone
  <2>8. ASSUME NEW p \in Process, _watchdog(p) \/ Overdue(p) \/ ChildExits(p) PROVE Rest
    <3>1. CASE Overdue(p)
      <4>1. [proc[p] EXCEPT !.overdue = TRUE] \in Managed
        BY DEF Managed
      <4> QED
        BY <3>1, <4>1 DEF Overdue
    <3>2. CASE _watchdog(p) \/ ChildExits(p)
      BY <2>3, <3>2 DEF _watchdog, ChildExits, _terminate_sync
    <3> QED
      BY <2>8, <3>1, <3>2
  <2>9. ASSUME ListLanes \/ Tick PROVE Rest
    BY <2>2, <2>9 DEF ListLanes, Tick
  <2>10. ASSUME NEW t \in Task, ChildReads(t) PROVE Rest
    BY <2>2, <2>10 DEF ChildReads
  <2>11. ASSUME NEW t \in Task, NEW l \in LaneId,
                \/ FenceLeft /\ Submit(t, "lane.open", l, 0, None, None)
                \/ \E f \in 1..fenceCounter : Request(t, l, f)
         PROVE  Rest
    BY <2>2, <2>11 DEF Submit, Request
  <2> HIDE DEF Rest
  <2>12. Rest
    BY <1>2, <2>6, <2>7, <2>8, <2>9, <2>10, <2>11 DEF Next
  <2> QED
    BY <2>1, <2>12 DEF LockTypes, Rest
<1> QED
  BY <1>1, <1>2

\* One caller changes, and no other session than its own.
LEMMA Shaping ==
    ASSUME TypeOK, RegistryInv, Shape,
           fenceCounter' \in Nat, fenceCounter <= fenceCounter',
           NEW a \in Actor, NEW new,
           op' = [op EXCEPT ![a] = new],
           \A s \in Session \ {a} : session'[s] = session[s],
           new.pc \in {"queued", "thread", "resume"} => new.lane \in LaneId,
           new.pc \notin {"queued", "thread", "resume"} => new.lock = None,
           new.pc = "resume" => new.kind # "lane.close",
           new.key # None => a \in Task /\ new.kind \notin HandleKind \cup {"lane.close"},
           new.fence \in Nat,
           a \in Task => /\ new.fence <= fenceCounter
                         /\ new.pc # "sweep"
                         /\ new.pc # "idle" => session[SessionOf[new.lane]] \notin {"closing", "closed"},
           a \in Session => /\ new.pc \in {"queued", "thread", "resume"} => new.kind = "lane.close"
                            /\ new.pc # "idle" <=> session'[a] = "closing"
                            /\ session'[a] \in {"closing", "closed"} => Calls(a) = {}
    PROVE  Shape'
<1>0. fenceCounter \in Nat /\ \A b \in Actor : op[b].fence \in Nat
  BY DEF RegistryInv, R!TypeOK, TypeOK, Op
<1>1. op'[a] = new /\ \A b \in Actor \ {a} : op'[b] = op[b]
  BY DEF TypeOK
<1>2. \A b \in Actor : /\ Busy(b)' => op'[b].lane \in LaneId
                       /\ ~Busy(b)' => op'[b].lock = None
  BY <1>1 DEF Shape, Busy
<1>3. \A b \in Actor :
          /\ op'[b].pc = "resume" => op'[b].kind # "lane.close"
          /\ op'[b].key # None =>
                b \in Task /\ op'[b].kind \notin HandleKind \cup {"lane.close"}
  BY <1>1 DEF Shape
<1>4. \A t \in Task : op'[t].fence <= fenceCounter'
  BY <1>0, <1>1 DEF Shape, Actor
<1>5. \A t \in Task : op'[t].pc # "sweep"
  BY <1>1 DEF Shape, Actor
<1>6. \A s \in Session : /\ Busy(s)' => op'[s].kind = "lane.close"
                         /\ op'[s].pc # "idle" <=> session'[s] = "closing"
  BY <1>1 DEF Shape, Actor, Busy
<1>7. ASSUME NEW s \in Session, session'[s] \in {"closing", "closed"}, NEW t \in Task,
             op'[t].pc # "idle", SessionOf[op'[t].lane] = s
      PROVE  FALSE
  <2>1. s # t /\ t \in Actor
    BY ActorAssumption DEF Actor
  <2>2. CASE t = a
    BY <1>1, <1>7, <2>1, <2>2
  <2>3. CASE t # a
    <3>1. t \in Calls(s)
      BY <1>1, <1>7, <2>1, <2>3 DEF Calls
    <3> QED
      BY <1>7, <3>1 DEF Shape
  <2> QED
    BY <2>2, <2>3
<1>8. \A s \in Session : session'[s] \in {"closing", "closed"} => Calls(s)' = {}
  BY <1>7 DEF Calls
<1> QED
  BY <1>2, <1>3, <1>4, <1>5, <1>6, <1>8 DEF Shape

\* The phases stay in order.
LEMMA ShapeSteps ==
    ASSUME TypeOK, RegistryInv, Shape, Queued, Counted, [Next]_vars
    PROVE  Shape'
<1>0. /\ fenceCounter \in Nat /\ fenceCounter' \in Nat /\ fenceCounter <= fenceCounter'
      /\ \A a \in Actor : op[a] \in Op /\ op[a].fence \in Nat
  BY RegistrySteps DEF RegistryInv, R!TypeOK, Keeps, TypeOK, Op
<1>1. ASSUME NEW a \in Actor, Busy(a), Leave(a), UNCHANGED session PROVE Shape'
  <2> DEFINE new == AfterLane(a)
  <2>1. op' = [op EXCEPT ![a] = new]
    BY <1>1 DEF Leave
  <2>2. /\ new.lock = None /\ new.key = None /\ new.fence \in Nat /\ new.fence <= fenceCounter
        /\ new.kind = None
        /\ a \in Session => new.pc = "sweep"
        /\ a \notin Session => new.pc = "idle"
    BY <1>0 DEF AfterLane, Idle
  <2>3. a \in Session => session[a] = "closing" /\ Calls(a) = {}
    BY <1>1 DEF Shape, Busy
  <2>4. a \in Task => a \notin Session
    BY ActorAssumption
  <2>5. new.pc \notin {"queued", "thread", "resume"}
    BY <2>2
  <2> HIDE DEF new
  <2> QED
    BY <1>0, <1>1, <2>1, <2>2, <2>3, <2>4, <2>5, Shaping
<1>2. ASSUME NEW a \in Actor, Busy(a), NEW new, op' = [op EXCEPT ![a] = new],
             UNCHANGED session,
             new.pc \in {"queued", "thread", "resume"},
             new.pc = "resume" => new.kind # "lane.close",
             new.lane = op[a].lane, new.key = op[a].key, new.kind = op[a].kind,
             new.fence = op[a].fence
      PROVE  Shape'
  <2>1. /\ op[a].lane \in LaneId
        /\ op[a].key # None => a \in Task /\ op[a].kind \notin HandleKind \cup {"lane.close"}
        /\ a \in Task => op[a].fence <= fenceCounter
        /\ op[a].pc # "idle"
    BY <1>2 DEF Shape, Busy
  <2>2. ASSUME a \in Task PROVE session[SessionOf[op[a].lane]] \notin {"closing", "closed"}
    <3>1. a \in Calls(SessionOf[op[a].lane]) /\ SessionOf[op[a].lane] \in Session
      BY <2>1, <2>2, SessionAssumption DEF Calls
    <3> QED
      BY <3>1 DEF Shape
  <2>3. a \in Session => /\ op[a].kind = "lane.close"
                         /\ session[a] = "closing" /\ Calls(a) = {}
    BY <1>2, <2>1 DEF Shape
  <2> QED
    BY <1>0, <1>2, <2>1, <2>2, <2>3, Shaping
<1>3. ASSUME NEW a \in Actor, Holds(a) \/ Inside(a), NEW pc \in {"thread", "resume"},
             UNCHANGED session, Goto(a, pc), pc = "resume" => op[a].kind # "lane.close"
      PROVE  Shape'
  <2> DEFINE new == [op[a] EXCEPT !.pc = pc]
  <2>1. /\ new.pc = pc /\ new.lane = op[a].lane /\ new.key = op[a].key
        /\ new.kind = op[a].kind /\ new.fence = op[a].fence
        /\ op' = [op EXCEPT ![a] = new] /\ Busy(a)
    BY <1>0, <1>3, InsideIsHead DEF Op, Goto
  <2> HIDE DEF new
  <2> QED
    BY <1>2, <1>3, <2>1
<1>4. ASSUME NEW a \in Actor, CloseSnapshot(a) \/ close_lane_processes(a) PROVE Shape'
  <2>1. PICK todo : op' = [op EXCEPT ![a].pc = "thread", ![a].todo = todo]
    <3>1. CASE close_lane_processes(a)
      <4>1. PICK p \in op[a].todo : op' = [op EXCEPT ![a].todo = @ \ {p}]
        BY <3>1 DEF close_lane_processes
      <4>2. op[a].pc = "thread"
        BY <3>1 DEF close_lane_processes
      <4>3. op' = [op EXCEPT ![a].pc = "thread", ![a].todo = op[a].todo \ {p}]
        BY <1>0, <4>1, <4>2 DEF TypeOK, Op
      <4> QED
        BY <4>3
    <3> QED
      BY <1>4, <3>1 DEF CloseSnapshot
  <2> DEFINE new == [op[a] EXCEPT !.pc = "thread", !.todo = todo]
  <2>2. /\ new.pc = "thread" /\ new.lane = op[a].lane /\ new.key = op[a].key
        /\ new.kind = op[a].kind /\ new.fence = op[a].fence
        /\ op' = [op EXCEPT ![a] = new]
    BY <1>0, <2>1 DEF Op
  <2>3. Busy(a) /\ UNCHANGED session
    BY <1>4, InsideIsHead DEF CloseSnapshot, close_lane_processes, Inside
  <2> HIDE DEF new
  <2> QED
    BY <1>2, <2>2, <2>3
<1>5. ASSUME UNCHANGED <<op, session>> PROVE Shape'
  <2>1. \A s : Calls(s)' = Calls(s)
    BY <1>5 DEF Calls
  <2>2. \A t \in Task : op'[t].fence <= fenceCounter'
    BY <1>0, <1>5 DEF Shape, Actor
  <2> QED
    BY <1>5, <2>1, <2>2 DEF Shape, Busy
<1>6. ASSUME NEW t \in Task, NEW kind \in Kind, NEW l \in LaneId,
             NEW f \in Nat, f <= fenceCounter,
             NEW key \in Resource \cup {None}, NEW p \in Process \cup {None},
             key # None => kind \notin HandleKind \cup {"lane.close"},
             Submit(t, kind, l, f, key, p)
      PROVE  Shape'
  <2> DEFINE call == [Idle EXCEPT !.kind = kind, !.lane = l, !.fence = f, !.key = key,
                                  !.proc = p]
  <2>1. call \in Op /\ call.lane = l /\ call.fence = f /\ call.key = key /\ call.kind = kind
    BY DEF Idle, Op
  <2>2. ~Busy(t) /\ t \in Actor /\ Enter(t, call) /\ UNCHANGED session
    BY <1>6 DEF Submit, Busy, Actor
  <2> HIDE DEF call
  <2>3. PICK k \in Lock : op' = [op EXCEPT ![t] = [call EXCEPT !.pc = "queued", !.lock = k]]
    BY <2>1, <2>2, Entering
  <2> DEFINE new == [call EXCEPT !.pc = "queued", !.lock = k]
  <2>4. /\ new.pc = "queued" /\ new.lane = l /\ new.fence = f /\ new.key = key
        /\ new.kind = kind /\ op' = [op EXCEPT ![t] = new]
    BY <2>1, <2>3 DEF Op
  <2>5. session[SessionOf[l]] = "open" /\ t \notin Session
    BY <1>6, ActorAssumption DEF Submit
  <2> HIDE DEF new
  <2> QED
    BY <1>0, <1>6, <2>2, <2>4, <2>5, Shaping
<1>7. ASSUME NEW t \in Task, NEW l \in LaneId,
             \/ FenceLeft /\ Submit(t, "lane.open", l, 0, None, None)
             \/ \E f \in 1..fenceCounter : Request(t, l, f)
      PROVE  Shape'
  <2>1. /\ FsKey \subseteq Resource /\ CwdKey \subseteq Resource
        /\ \A f \in 1..fenceCounter : f \in Nat /\ f <= fenceCounter
        /\ 0 <= fenceCounter
    BY <1>0, KeyAssumption
  <2> QED
    BY <1>6, <1>7, <2>1 DEF Request, Kind, FsKind, ProcessKind, HandleKind
<1>8. ASSUME NEW a \in Actor, RunOpen(a) \/ RunRenew(a) \/ AuthorizeFails(a) \/ Resume(a)
                               \/ RunClose(a)
      PROVE  Shape'
  BY <1>1, <1>8, InsideIsHead DEF RunOpen, RunRenew, AuthorizeFails, Resume, RunClose, Inside
<1>9. ASSUME NEW a \in Actor,
             Authorize(a) \/ Effect(a) \/ _start_process_sync(a) \/ _write_process_input(a)
             \/ process_terminate(a) \/ ChildReads(a)
      PROVE  Shape'
  BY <1>3, <1>9 DEF Authorize, Effect, _start_process_sync, _write_process_input,
         process_terminate, ChildReads, Inside, FsKind
<1>10. ASSUME NEW s \in Session, close_session(s) PROVE Shape'
  <2> DEFINE new == [op[s] EXCEPT !.pc = "sweep", !.left = SnapshotOf(s)]
  <2>1. /\ s \in Actor /\ op[s].pc = "idle" /\ Calls(s) = {} /\ ~Busy(s) /\ s \notin Task
        /\ session' = [session EXCEPT ![s] = "closing"]
    BY <1>10, ActorAssumption DEF close_session, Actor, Shape, Busy
  <2>2. /\ new.pc = "sweep" /\ new.lock = None /\ new.key = op[s].key
        /\ new.kind = op[s].kind /\ new.fence = op[s].fence
    BY <1>0, <2>1 DEF Op, Shape
  <2>3. op' = [op EXCEPT ![s] = new]
    BY <1>10 DEF close_session
  <2>4. op[s].key # None => s \in Task /\ op[s].kind \notin HandleKind \cup {"lane.close"}
    BY <2>1 DEF Shape
  <2>5. session'[s] = "closing" /\ \A x \in Session \ {s} : session'[x] = session[x]
    BY <2>1 DEF TypeOK
  <2> HIDE DEF new
  <2> QED
    BY <1>0, <2>1, <2>2, <2>3, <2>4, <2>5, Shaping
<1>11. ASSUME NEW s \in Session, SweepNext(s) PROVE Shape'
  <2>1. PICK token \in op[s].left :
            Enter(s, [Idle EXCEPT !.kind = "lane.close", !.lane = token[1],
                                  !.fence = token[2], !.left = op[s].left \ {token}])
    BY <1>11 DEF SweepNext
  <2> DEFINE call == [Idle EXCEPT !.kind = "lane.close", !.lane = token[1],
                                  !.fence = token[2], !.left = op[s].left \ {token}]
  <2>2. /\ s \in Actor /\ ~Busy(s) /\ op[s].left \in SUBSET (LaneId \X Nat)
        /\ op[s].pc = "sweep" /\ UNCHANGED session /\ s \notin Task
    BY <1>11, ActorAssumption DEF SweepNext, Actor, Busy, TypeOK, Op
  <2>3. token[1] \in LaneId /\ token[2] \in Nat
    BY <2>2
  <2>4. /\ call \in Op /\ call.lane \in LaneId /\ call.key = None
        /\ call.kind = "lane.close" /\ call.fence = token[2]
    BY <2>2, <2>3 DEF Idle, Op, Kind
  <2> HIDE DEF call
  <2>5. PICK k \in Lock : op' = [op EXCEPT ![s] = [call EXCEPT !.pc = "queued", !.lock = k]]
    BY <2>1, <2>2, <2>4, Entering DEF call
  <2> DEFINE new == [call EXCEPT !.pc = "queued", !.lock = k]
  <2>6. /\ new.pc = "queued" /\ new.lane \in LaneId /\ new.fence = token[2] /\ new.key = None
        /\ new.kind = "lane.close" /\ op' = [op EXCEPT ![s] = new]
    BY <2>4, <2>5 DEF Op
  <2>7. session[s] = "closing" /\ Calls(s) = {}
    BY <2>1, <2>2 DEF Shape
  <2> HIDE DEF new
  <2> QED
    BY <1>0, <2>2, <2>3, <2>6, <2>7, Shaping
<1>12. ASSUME NEW s \in Session, SweepDone(s) PROVE Shape'
  <2> DEFINE new == Idle
  <2>1. /\ s \in Actor /\ op[s].pc = "sweep" /\ s \notin Task
        /\ session' = [session EXCEPT ![s] = "closed"] /\ op' = [op EXCEPT ![s] = new]
    BY <1>12, ActorAssumption DEF SweepDone, Actor
  <2>2. Calls(s) = {}
    BY <2>1 DEF Shape
  <2>3. session'[s] = "closed" /\ \A x \in Session \ {s} : session'[x] = session[x]
    BY <2>1 DEF TypeOK
  <2>4. /\ new.pc = "idle" /\ new.lock = None /\ new.key = None /\ new.kind = None
        /\ new.fence \in Nat
    BY DEF Idle
  <2> HIDE DEF new
  <2> QED
    BY <1>0, <2>1, <2>2, <2>3, <2>4, Shaping
<1>13. ASSUME NEW s \in Session, Hangup(s) PROVE Shape'
  <2>1. /\ session[s] = "open" /\ session'[s] = "draining" /\ UNCHANGED <<op, fenceCounter>>
        /\ \A x \in Session \ {s} : session'[x] = session[x]
    BY <1>13 DEF Hangup, TypeOK, registry
  <2>2. \A x : Calls(x)' = Calls(x)
    BY <2>1 DEF Calls
  <2> QED
    BY <2>1, <2>2 DEF Shape, Busy
<1>14. ASSUME NEW p \in Process, _watchdog(p) \/ Overdue(p) \/ ChildExits(p) PROVE Shape'
  BY <1>5, <1>14 DEF _watchdog, Overdue, ChildExits
<1>15. ASSUME ListLanes \/ Tick \/ UNCHANGED vars PROVE Shape'
  BY <1>5, <1>15 DEF ListLanes, Tick, vars
<1>16. Task \subseteq Actor
  BY DEF Actor
<1>17. ASSUME NEW a \in Actor, Proceed(a) PROVE Shape'
  BY <1>4, <1>8, <1>9, <1>17 DEF Proceed
<1> QED
  BY <1>7, <1>9, <1>10, <1>11, <1>12, <1>13, <1>14, <1>15, <1>16, <1>17 DEF Next, Drain

----------------------------------------------------------------------------
(* What a step does to one caller, and to one process                      *)

\* Two calls past acquire are on two lanes.
LEMMA QueuedIsSerial == ASSUME TypeOK, Queued PROVE LaneSerial
<1> SUFFICES ASSUME NEW a \in Actor, NEW b \in Actor, Inside(a), Inside(b),
                    op[a].lane = op[b].lane
             PROVE  a = b
  BY DEF LaneSerial
<1>1. Busy(a) /\ Busy(b)
  BY DEF Inside, Busy
<1>2. op[a].lock = op[b].lock
  BY <1>1 DEF Queued
<1> QED
  BY <1>2 DEF Queued

\* A caller stays as it is, is not inside a lane afterwards, or takes one of
\* the four steps of a call that is.
LEMMA CallerSteps ==
    ASSUME TypeOK, Shape, [Next]_vars, NEW b \in Actor
    PROVE  \/ op'[b] = op[b]
           \/ ~Inside(b)'
           \/ Authorize(b) /\ op'[b] = [op[b] EXCEPT !.pc = "thread"]
           \/ Inside(b) /\ op'[b] = [op[b] EXCEPT !.pc = "resume"]
           \/ CloseSnapshot(b)
           \/ close_lane_processes(b)
<1> DEFINE Goal == \/ op'[b] = op[b]
                   \/ ~Inside(b)'
                   \/ Authorize(b) /\ op'[b] = [op[b] EXCEPT !.pc = "thread"]
                   \/ Inside(b) /\ op'[b] = [op[b] EXCEPT !.pc = "resume"]
                   \/ CloseSnapshot(b)
                   \/ close_lane_processes(b)
<1>1. ASSUME NEW a \in Actor, NEW call, Enter(a, call), call \in Op PROVE Goal
  <2>1. PICK k : op' = [op EXCEPT ![a] = [call EXCEPT !.pc = "queued", !.lock = k]]
    BY <1>1 DEF Enter
  <2>2. [call EXCEPT !.pc = "queued", !.lock = k].pc = "queued"
    BY <1>1 DEF Op
  <2> QED
    BY <2>1, <2>2 DEF TypeOK, Inside
<1>2. ASSUME NEW a \in Actor, Leave(a) PROVE Goal
  <2>1. op' = [op EXCEPT ![a] = AfterLane(a)]
    BY <1>2 DEF Leave
  <2>2. AfterLane(a).pc \in {"sweep", "idle"}
    BY DEF AfterLane, Idle
  <2> QED
    BY <2>1, <2>2 DEF TypeOK, Inside
<1>3. ASSUME NEW a \in Actor, op[a].pc = "thread", Goto(a, "resume") PROVE Goal
  BY <1>3 DEF Goto, TypeOK, Inside
<1>4. ASSUME NEW a \in Actor, Authorize(a) PROVE Goal
  BY <1>4 DEF Authorize, Goto, TypeOK
<1>5. ASSUME NEW a \in Actor, CloseSnapshot(a) \/ close_lane_processes(a) PROVE Goal
  <2>1. CASE a = b
    BY <1>5, <2>1
  <2>2. CASE a # b
    <3>1. \E new : op' = [op EXCEPT ![a] = new]
      BY <1>5 DEF CloseSnapshot, close_lane_processes
    <3> QED
      BY <2>2, <3>1 DEF TypeOK
  <2> QED
    BY <2>1, <2>2
<1>6. ASSUME UNCHANGED op PROVE Goal
  BY <1>6
<1>7. ASSUME NEW s \in Session, close_session(s) \/ SweepDone(s) PROVE Goal
  <2>1. PICK new : op' = [op EXCEPT ![s] = new] /\ new.pc \in {"sweep", "idle"}
    <3>1. CASE close_session(s)
      <4>1. [op[s] EXCEPT !.pc = "sweep", !.left = SnapshotOf(s)].pc = "sweep"
        BY DEF TypeOK, Op, Actor
      <4> QED
        BY <3>1, <4>1 DEF close_session
    <3>2. CASE SweepDone(s)
      BY <3>2 DEF SweepDone, Idle
    <3> QED
      BY <1>7, <3>1, <3>2
  <2> QED
    BY <2>1 DEF TypeOK, Inside, Actor
<1>8. ASSUME NEW s \in Session, SweepNext(s) PROVE Goal
  <2>1. PICK token \in op[s].left :
            Enter(s, [Idle EXCEPT !.kind = "lane.close", !.lane = token[1],
                                  !.fence = token[2], !.left = op[s].left \ {token}])
    BY <1>8 DEF SweepNext
  <2>2. s \in Actor /\ op[s].left \in SUBSET (LaneId \X Nat)
    BY DEF Actor, TypeOK, Op
  <2>3. token[1] \in LaneId /\ token[2] \in Nat
    BY <2>2
  <2>4. [Idle EXCEPT !.kind = "lane.close", !.lane = token[1],
                     !.fence = token[2], !.left = op[s].left \ {token}] \in Op
    BY <2>2, <2>3 DEF Idle, Op, Kind
  <2> QED
    BY <1>1, <2>1, <2>2, <2>4
<1>9. ASSUME NEW t \in Task, NEW kind, NEW l, NEW f, NEW key, NEW p,
             Submit(t, kind, l, f, key, p)
      PROVE  Goal
  <2>1. PICK k : op' = [op EXCEPT ![t] = [[Idle EXCEPT !.kind = kind, !.lane = l, !.fence = f,
                                                     !.key = key, !.proc = p]
                                            EXCEPT !.pc = "queued", !.lock = k]]
    BY <1>9 DEF Submit, Enter
  <2>2. [[Idle EXCEPT !.kind = kind, !.lane = l, !.fence = f, !.key = key, !.proc = p]
            EXCEPT !.pc = "queued", !.lock = k].pc = "queued"
    BY DEF Idle
  <2> QED
    BY <2>1, <2>2 DEF TypeOK, Inside
<1>10. ASSUME NEW a \in Actor, Proceed(a) PROVE Goal
  <2>1. CASE RunOpen(a) \/ RunRenew(a) \/ AuthorizeFails(a) \/ Resume(a) \/ RunClose(a)
    BY <1>2, <2>1 DEF RunOpen, RunRenew, AuthorizeFails, Resume, RunClose
  <2>2. CASE Effect(a) \/ _start_process_sync(a) \/ _write_process_input(a) \/ process_terminate(a)
    BY <1>3, <2>2 DEF Effect, _start_process_sync, _write_process_input, process_terminate
  <2> HIDE DEF Goal
  <2> QED
    BY <1>4, <1>5, <1>10, <2>1, <2>2 DEF Proceed
<1>11. ASSUME NEW t \in Task, ChildReads(t) PROVE Goal
  BY <1>3, <1>11 DEF ChildReads, Actor
<1>12. ASSUME NEW p \in Process, _watchdog(p) \/ Overdue(p) \/ ChildExits(p) PROVE Goal
  BY <1>6, <1>12 DEF _watchdog, Overdue, ChildExits
<1>13. ASSUME NEW s \in Session, Hangup(s) PROVE Goal
  BY <1>6, <1>13 DEF Hangup
<1>14. ASSUME ListLanes \/ Tick \/ UNCHANGED vars PROVE Goal
  BY <1>6, <1>14 DEF ListLanes, Tick, vars
<1>15. ASSUME NEW t \in Task, NEW l \in LaneId,
              \/ FenceLeft /\ Submit(t, "lane.open", l, 0, None, None)
              \/ \E f \in 1..fenceCounter : Request(t, l, f)
       PROVE  Goal
  BY <1>9, <1>15 DEF Request
<1> HIDE DEF Goal
<1>16. Goal
  BY <1>7, <1>8, <1>10, <1>11, <1>12, <1>13, <1>14, <1>15 DEF Next, Drain
<1> QED
  BY <1>16 DEF Goal

\* A process that runs ran before, for the same token, or is being started.
LEMMA ProcessSteps ==
    ASSUME TypeOK, [Next]_vars, NEW p \in Process, Running(p)'
    PROVE  \/ Running(p) /\ TokenOf(proc'[p]) = TokenOf(proc[p])
           \/ \E a \in Actor : /\ _start_process_sync(a)
                               /\ TokenOf(proc'[p]) = TokenOf(op[a])
<1> DEFINE Same == Running(p) /\ TokenOf(proc'[p]) = TokenOf(proc[p])
<1>0. proc[p] \in Managed
  BY DEF TypeOK
<1>1. ASSUME UNCHANGED proc PROVE Same
  BY <1>1 DEF Running
<1>2. ASSUME NEW q, proc' = _terminate_sync(q) PROVE Same
  BY <1>0, <1>2 DEF _terminate_sync, Running, TypeOK, Managed, TokenOf
<1>3. ASSUME NEW q \in Process, Overdue(q) PROVE Same
  BY <1>0, <1>3 DEF Overdue, Running, TypeOK, Managed, TokenOf
<1>4. ASSUME NEW a \in Actor, _start_process_sync(a)
      PROVE  Same \/ TokenOf(proc'[p]) = TokenOf(op[a])
  <2>1. CASE UNCHANGED proc
    BY <1>1, <2>1
  <2>2. ASSUME NEW q \in Process,
               proc' = [proc EXCEPT ![q] = [state |-> "running", lane |-> op[a].lane,
                                            fence |-> op[a].fence, key |-> op[a].key,
                                            overdue |-> FALSE]]
        PROVE  Same \/ TokenOf(proc'[p]) = TokenOf(op[a])
    <3>1. CASE p = q
      BY <2>2, <3>1 DEF TypeOK, TokenOf
    <3>2. CASE p # q
      BY <2>2, <3>2 DEF TypeOK, Running
    <3> QED
      BY <3>1, <3>2
  <2> QED
    BY <1>4, <2>1, <2>2 DEF _start_process_sync
<1>5. ASSUME NEW a \in Actor, Proceed(a)
      PROVE  Same \/ (_start_process_sync(a) /\ TokenOf(proc'[p]) = TokenOf(op[a]))
  <2>1. CASE process_terminate(a) \/ close_lane_processes(a)
    BY <1>2, <2>1 DEF process_terminate, close_lane_processes
  <2>2. CASE RunOpen(a) \/ RunRenew(a) \/ Authorize(a) \/ AuthorizeFails(a) \/ Effect(a)
             \/ _write_process_input(a) \/ Resume(a) \/ CloseSnapshot(a) \/ RunClose(a)
    BY <1>1, <2>2 DEF RunOpen, RunRenew, Authorize, AuthorizeFails, Effect,
                      _write_process_input, Resume, CloseSnapshot, RunClose
  <2> HIDE DEF Same
  <2> QED
    BY <1>4, <1>5, <2>1, <2>2 DEF Proceed
<1>6. ASSUME NEW s \in Session, Hangup(s) \/ Drain(s) PROVE Same
  BY <1>1, <1>6 DEF Hangup, Drain, close_session, SweepNext, SweepDone
<1>7. ASSUME NEW q \in Process, _watchdog(q) \/ ChildExits(q) PROVE Same
  BY <1>2, <1>7 DEF _watchdog, ChildExits, _terminate_sync
<1>8. ASSUME ListLanes \/ Tick \/ UNCHANGED vars PROVE Same
  BY <1>1, <1>8 DEF ListLanes, Tick, vars
<1>9. ASSUME NEW t \in Task, ChildReads(t) PROVE Same
  BY <1>1, <1>9 DEF ChildReads
<1>10. ASSUME NEW t \in Task, NEW l \in LaneId,
              \/ FenceLeft /\ Submit(t, "lane.open", l, 0, None, None)
              \/ \E f \in 1..fenceCounter : Request(t, l, f)
       PROVE  Same
  BY <1>1, <1>10 DEF Request, Submit
<1> HIDE DEF Same
<1>11. Same \/ \E a \in Actor : _start_process_sync(a) /\ TokenOf(proc'[p]) = TokenOf(op[a])
  BY <1>3, <1>5, <1>6, <1>7, <1>8, <1>9, <1>10 DEF Next
<1> QED
  BY <1>11 DEF Same

----------------------------------------------------------------------------
(* What a close leaves behind                                              *)

\* Only a lane.close that passes the fence check adds to the closed tokens.
LEMMA ClosedGrows ==
    ASSUME [Next]_vars
    PROVE  \/ closed' = closed
           \/ \E a \in Actor : /\ RunClose(a)
                               /\ R!close(op[a].lane, op[a].fence, clock)
                               /\ closed' = closed \cup {TokenOf(op[a])}
<1> DEFINE Grows == \E a \in Actor : /\ RunClose(a)
                                    /\ R!close(op[a].lane, op[a].fence, clock)
                                    /\ closed' = closed \cup {TokenOf(op[a])}
<1>1. ASSUME NEW a \in Actor, Proceed(a) PROVE closed' = closed \/ Grows
  <2>1. CASE RunClose(a)
    BY <2>1 DEF RunClose, TokenOf
  <2> HIDE DEF Grows
  <2> QED
    BY <1>1, <2>1 DEF Proceed, RunOpen, RunRenew, Authorize, AuthorizeFails, Effect,
       _start_process_sync, _write_process_input, process_terminate, Resume, CloseSnapshot,
       close_lane_processes
<1>2. ASSUME NEW s \in Session, Hangup(s) \/ Drain(s) PROVE closed' = closed
  BY <1>2 DEF Hangup, Drain, close_session, SweepNext, SweepDone
<1>3. ASSUME NEW p \in Process, _watchdog(p) \/ Overdue(p) \/ ChildExits(p)
      PROVE  closed' = closed
  BY <1>3 DEF _watchdog, Overdue, ChildExits
<1>4. ASSUME ListLanes \/ Tick \/ UNCHANGED vars PROVE closed' = closed
  BY <1>4 DEF ListLanes, Tick, vars
<1>5. ASSUME NEW t \in Task, ChildReads(t) PROVE closed' = closed
  BY <1>5 DEF ChildReads
<1>6. ASSUME NEW t \in Task, NEW l \in LaneId,
             \/ FenceLeft /\ Submit(t, "lane.open", l, 0, None, None)
             \/ \E f \in 1..fenceCounter : Request(t, l, f)
      PROVE  closed' = closed
  BY <1>6 DEF Request, Submit
<1> HIDE DEF Grows
<1>7. closed' = closed \/ Grows
  BY <1>1, <1>2, <1>3, <1>4, <1>5, <1>6 DEF Next
<1> QED
  BY <1>7 DEF Grows

\* A closed lane stays quiet: its token is retired, so nothing is authorized on
\* it, and what ran under it was in the list of the close.
LEMMA ClosingSteps ==
    ASSUME Inv, [Next]_vars
    PROVE  (closed \subseteq retired)' /\ ClosedIsQuiet' /\ ClosingSees'
<1> USE DEF Inv
<1>0. retired \subseteq retired' /\ LaneSerial
  BY RegistrySteps, QueuedIsSerial DEF Keeps
<1>1. ASSUME NEW a \in Actor, RunClose(a), R!close(op[a].lane, op[a].fence, clock)
      PROVE  TokenOf(op[a]) \in retired'
  <2>1. R!Token(op[a].lane) = TokenOf(op[a])
    BY <1>1 DEF R!close, R!_require_lane_locked, R!Owned, R!Token, TokenOf
  <2> QED
    BY <1>1, <2>1 DEF R!close, R!Bury
<1>2. (closed \subseteq retired)'
  BY <1>0, <1>1, ClosedGrows
<1>3. ASSUME NEW b \in Actor, Authorize(b) PROVE TokenOf(op[b]) \notin closed
  <2>1. op[b].lane \in R!Active /\ R!Token(op[b].lane) = TokenOf(op[b])
    BY <1>3 DEF Authorize, R!authorize, R!_require_lane_locked, R!Owned, R!Token, TokenOf
  <2> QED
    BY <2>1 DEF RegistryInv, Fences
<1>4. ASSUME NEW b \in Actor, op'[b].kind # "lane.close", Inside(b)'
      PROVE  /\ TokenOf(op'[b]) \notin closed
             /\ op'[b] = op[b] \/ closed' = closed
  <2>0. op[b] \in Op
    BY DEF TypeOK
  <2>1. CASE op'[b] = op[b]
    BY <1>4, <2>1 DEF Inside, ClosedIsQuiet
  <2>2. CASE Authorize(b) /\ op'[b] = [op[b] EXCEPT !.pc = "thread"]
    BY <1>3, <2>0, <2>2 DEF Op, TokenOf, Authorize
  <2>3. CASE Inside(b) /\ op'[b] = [op[b] EXCEPT !.pc = "resume"]
    <3>1. TokenOf(op'[b]) = TokenOf(op[b]) /\ op'[b].kind = op[b].kind
      BY <2>0, <2>3 DEF Op, TokenOf
    <3>2. TokenOf(op[b]) \notin closed
      BY <1>4, <2>3, <3>1 DEF ClosedIsQuiet
    <3>3. ASSUME NEW a \in Actor, RunClose(a) PROVE op'[b] = op[b]
      <4>1. op' = [op EXCEPT ![a] = AfterLane(a)]
        BY <3>3 DEF RunClose, Leave
      <4>2. AfterLane(a).pc \in {"sweep", "idle"}
        BY DEF AfterLane, Idle
      <4> QED
        BY <1>4, <4>1, <4>2 DEF TypeOK, Inside
    <3> QED
      BY <3>1, <3>2, <3>3, ClosedGrows
  <2>4. CASE CloseSnapshot(b)
    BY <1>4, <2>0, <2>4 DEF CloseSnapshot, TypeOK, Op
  <2>5. CASE close_lane_processes(b)
    BY <1>4, <2>0, <2>5 DEF close_lane_processes, TypeOK, Op
  <2> QED
    BY <1>4, <2>1, <2>2, <2>3, <2>4, <2>5, CallerSteps
<1>5. ASSUME NEW p \in Process, Running(p)'
      PROVE  TokenOf(proc'[p]) \notin closed
  <2>1. CASE Running(p) /\ TokenOf(proc'[p]) = TokenOf(proc[p])
    BY <2>1 DEF ClosedIsQuiet
  <2>2. ASSUME NEW a \in Actor, _start_process_sync(a), TokenOf(proc'[p]) = TokenOf(op[a])
        PROVE  TokenOf(proc'[p]) \notin closed
    BY <2>2 DEF _start_process_sync, Inside, ClosedIsQuiet
  <2> QED
    BY <1>5, <2>1, <2>2, ProcessSteps
<1>6. ClosedIsQuiet'
  <2>1. CASE closed' = closed
    BY <1>4, <1>5, <2>1 DEF ClosedIsQuiet
  <2>2. ASSUME NEW a \in Actor, RunClose(a), closed' = closed \cup {TokenOf(op[a])}
        PROVE  ClosedIsQuiet'
    <3>1. /\ Inside(a) /\ op[a].kind = "lane.close" /\ op[a].todo = {} /\ op[a].pc = "thread"
          /\ proc' = proc
      BY <2>2 DEF RunClose, Inside
    <3>2. ASSUME NEW p \in Process, Running(p)' PROVE TokenOf(proc'[p]) # TokenOf(op[a])
      BY <3>1, <3>2 DEF ClosingSees, Running
    <3>3. ASSUME NEW b \in Actor, op'[b].kind # "lane.close", Inside(b)',
                 TokenOf(op'[b]) = TokenOf(op[a])
          PROVE  FALSE
      <4>1. op' = [op EXCEPT ![a] = AfterLane(a)]
        BY <2>2 DEF RunClose, Leave
      <4>2. AfterLane(a).pc \in {"sweep", "idle"}
        BY DEF AfterLane, Idle
      <4>3. b # a /\ op'[b] = op[b]
        BY <3>3, <4>1, <4>2 DEF TypeOK, Inside
      <4>4. op[b].lane = op[a].lane /\ Inside(b)
        BY <3>3, <4>3 DEF TokenOf, Inside
      <4> QED
        BY <1>0, <3>1, <4>3, <4>4 DEF LaneSerial
    <3> QED
      BY <1>4, <1>5, <2>2, <3>2, <3>3 DEF ClosedIsQuiet
  <2> QED
    BY <2>1, <2>2, ClosedGrows
<1>7. ASSUME NEW b \in Actor, op'[b].pc = "thread", op'[b].kind = "lane.close",
             NEW p \in Process, Running(p)', TokenOf(proc'[p]) = TokenOf(op'[b])
      PROVE  p \in op'[b].todo
  <2>0. op[b] \in Op /\ proc[p] \in Managed
    BY DEF TypeOK
  <2>1. CASE op'[b] = op[b]
    <3>1. Inside(b)
      BY <1>7, <2>1 DEF Inside
    <3>2. ASSUME NEW a \in Actor, _start_process_sync(a), TokenOf(proc'[p]) = TokenOf(op[a])
          PROVE  FALSE
      <4>1. Inside(a) /\ op[a].kind = "process.start" /\ op[a].lane = op[b].lane
        BY <1>7, <2>1, <3>2 DEF _start_process_sync, Inside, TokenOf
      <4> QED
        BY <1>0, <1>7, <2>1, <3>1, <4>1 DEF LaneSerial
    <3> QED
      BY <1>7, <2>1, <3>2, ProcessSteps DEF ClosingSees
  <2>2. CASE Authorize(b) /\ op'[b] = [op[b] EXCEPT !.pc = "thread"]
    <3>1. op'[b].kind = op[b].kind
      BY <2>0, <2>2 DEF Op
    <3> QED
      BY <1>7, <2>2, <3>1 DEF Authorize, FsKind, ProcessKind, HandleKind
  <2>3. CASE op'[b] = [op[b] EXCEPT !.pc = "resume"]
    BY <1>7, <2>0, <2>3 DEF Op
  <2>4. CASE CloseSnapshot(b)
    <3>1. op'[b].todo = {q \in Process : /\ proc[q].state # "none"
                                         /\ TokenOf(proc[q]) = TokenOf(op[b])}
      BY <2>0, <2>4 DEF CloseSnapshot, TypeOK, Op
    <3>2. proc' = proc /\ TokenOf(op'[b]) = TokenOf(op[b])
      BY <2>0, <2>4 DEF CloseSnapshot, TypeOK, Op, TokenOf
    <3> QED
      BY <1>7, <3>1, <3>2 DEF Running
  <2>5. CASE close_lane_processes(b)
    <3>1. PICK q \in op[b].todo : /\ proc' = _terminate_sync(q)
                                  /\ op' = [op EXCEPT ![b].todo = @ \ {q}]
      BY <2>5 DEF close_lane_processes
    <3>2. op'[b].todo = op[b].todo \ {q} /\ TokenOf(op'[b]) = TokenOf(op[b])
      BY <2>0, <3>1 DEF TypeOK, Op, TokenOf
    <3>3. p # q /\ proc'[p] = proc[p]
      BY <1>7, <2>0, <3>1 DEF _terminate_sync, Running, TypeOK, Managed
    <3>4. Running(p) /\ TokenOf(proc[p]) = TokenOf(op[b])
      BY <1>7, <3>2, <3>3 DEF Running
    <3>5. p \in op[b].todo
      BY <2>5, <3>4 DEF close_lane_processes, ClosingSees
    <3> QED
      BY <3>2, <3>3, <3>5
  <2> QED
    BY <1>7, <2>1, <2>2, <2>3, <2>4, <2>5, CallerSteps DEF Inside
<1>8. ClosingSees'
  BY <1>7 DEF ClosingSees
<1> QED
  BY <1>2, <1>6, <1>8

----------------------------------------------------------------------------
(* What a worker relies on                                                 *)

\* The lane of a token that is not new was there before, with its claims.
LEMMA OwnedBefore ==
    ASSUME RegistryInv, Shape, [Next]_vars, NEW l, NEW f \in Nat, f <= fenceCounter,
           R!Owned(l, f)'
    PROVE  R!Owned(l, f) /\ lanes'[l].claims = lanes[l].claims
<1>1. PICK S : Keeps(S)
  BY RegistrySteps
<1>2. l \in R!Active' /\ lanes'[l].fence = f
  BY DEF R!Owned
<1>3. l \notin S
  <2>1. fenceCounter \in Nat
    BY DEF RegistryInv, R!TypeOK
  <2> QED
    BY <1>1, <1>2, <2>1 DEF Keeps
<1> QED
  BY <1>1, <1>2, <1>3 DEF Keeps, R!Owned

\* A worker keeps its claim for as long as its lane is there.
LEMMA CoveredSteps ==
    ASSUME Inv, [Next]_vars
    PROVE  Covered'
<1> USE DEF Inv
<1> SUFFICES ASSUME NEW b \in Actor, Working(b)', R!Owned(op[b].lane, op[b].fence)'
             PROVE  (\E c \in lanes[op[b].lane].claims :
                        R!_claim_covers(c, op[b].key, ModeOf(op[b].kind)))'
  BY DEF Covered
<1>0. op[b] \in Op /\ op'[b] \in Op /\ op'[b].pc = "thread" /\ op'[b].key # None
  BY TypeSteps DEF TypeOK, Working
<1>1. b \in Task /\ op'[b].kind \notin HandleKind \cup {"lane.close"}
  BY <1>0, ShapeSteps DEF Shape
<1>2. CASE op'[b] = op[b]
  <2>1. Working(b) /\ op[b].fence \in Nat /\ op[b].fence <= fenceCounter
    BY <1>0, <1>1, <1>2 DEF Working, Op, Shape
  <2>2. PICK l, f : l = op[b].lane /\ f = op[b].fence
    OBVIOUS
  <2>3. R!Owned(l, f)'
    BY <1>2, <2>2 DEF R!Owned
  <2>4. R!Owned(l, f) /\ lanes'[l].claims = lanes[l].claims
    BY <2>1, <2>2, <2>3, OwnedBefore
  <2>5. PICK c \in lanes[l].claims : R!_claim_covers(c, op[b].key, ModeOf(op[b].kind))
    BY <2>1, <2>2, <2>4 DEF Covered
  <2> QED
    BY <1>2, <2>2, <2>4, <2>5
<1>3. CASE Authorize(b) /\ op'[b] = [op[b] EXCEPT !.pc = "thread"]
  <2>1. /\ op'[b].key = op[b].key /\ op'[b].kind = op[b].kind /\ op'[b].lane = op[b].lane
        /\ lanes' = lanes
    BY <1>0, <1>3 DEF Op, Authorize, registry
  <2>2. KeyOf(b) = op[b].key
    BY <1>1, <2>1 DEF KeyOf
  <2> QED
    BY <1>3, <2>1, <2>2 DEF Authorize, R!authorize
<1>4. CASE op'[b] = [op[b] EXCEPT !.pc = "resume"]
  BY <1>0, <1>4 DEF Op
<1>5. CASE CloseSnapshot(b) \/ close_lane_processes(b)
  BY <1>0, <1>1, <1>5 DEF CloseSnapshot, close_lane_processes, TypeOK, Op
<1> QED
  BY <1>0, <1>2, <1>3, <1>4, <1>5, CallerSteps DEF Inside

\* Directories above two overlapping resources lie one under the other.
LEMMA ClaimsAboveOverlap ==
    ASSUME NEW a \in Resource, NEW b \in Resource, NEW x \in Resource, NEW y \in Resource,
           R!Under(x, a), R!Under(y, b), R!_resources_overlap(x, y)
    PROVE  R!_resources_overlap(a, b)
<1> DEFINE A == Norm[a]
           B == Norm[b]
           X == Norm[x]
           Y == Norm[y]
<1>1. A \in Seq(STRING) /\ B \in Seq(STRING) /\ X \in Seq(STRING) /\ Y \in Seq(STRING)
  BY RegistryAssumption
<1>2. ASSUME NEW s \in Seq(STRING), NEW t \in Seq(STRING)
      PROVE  R!IsPrefix(s, t) <=> Len(s) <= Len(t) /\ \A i \in 1..Len(s) : s[i] = t[i]
  <2>1. ASSUME R!IsPrefix(s, t) PROVE Len(s) <= Len(t) /\ \A i \in 1..Len(s) : s[i] = t[i]
    <3>1. Len(s) <= Len(t) /\ SubSeq(s, 1, Len(s)) = SubSeq(t, 1, Len(s))
      BY <2>1 DEF R!IsPrefix
    <3> QED
      BY <3>1
  <2>2. ASSUME Len(s) <= Len(t), \A i \in 1..Len(s) : s[i] = t[i] PROVE R!IsPrefix(s, t)
    <3>1. SubSeq(s, 1, Len(s)) = SubSeq(t, 1, Len(s))
      BY <2>2
    <3> QED
      BY <2>2, <3>1 DEF R!IsPrefix
  <2> QED
    BY <2>1, <2>2
<1>3. R!IsPrefix(A, X) /\ R!IsPrefix(B, Y) /\ (R!IsPrefix(X, Y) \/ R!IsPrefix(Y, X))
  BY DEF R!Under, R!_resources_overlap
<1> HIDE DEF A, B, X, Y
<1>4. /\ Len(A) <= Len(X) /\ \A i \in 1..Len(A) : A[i] = X[i]
      /\ Len(B) <= Len(Y) /\ \A i \in 1..Len(B) : B[i] = Y[i]
      /\ \/ Len(X) <= Len(Y) /\ \A i \in 1..Len(X) : X[i] = Y[i]
         \/ Len(Y) <= Len(X) /\ \A i \in 1..Len(Y) : Y[i] = X[i]
  BY <1>1, <1>2, <1>3
<1>5. /\ Len(A) \in Nat /\ Len(B) \in Nat /\ Len(X) \in Nat /\ Len(Y) \in Nat
  BY <1>1
<1>6. \/ Len(A) <= Len(B) /\ \A i \in 1..Len(A) : A[i] = B[i]
      \/ Len(B) <= Len(A) /\ \A i \in 1..Len(B) : B[i] = A[i]
  <2>1. CASE Len(A) <= Len(B)
    BY <1>4, <1>5, <2>1
  <2>2. CASE Len(B) <= Len(A)
    BY <1>4, <1>5, <2>2
  <2> QED
    BY <1>5, <2>1, <2>2
<1>7. R!IsPrefix(A, B) \/ R!IsPrefix(B, A)
  BY <1>1, <1>2, <1>6
<1> QED
  BY <1>7 DEF R!_resources_overlap, R!Under, A, B

\* Two workers whose claims both stand do not meet.
LEMMA CoveredIsExclusive == ASSUME TypeOK, RegistryInv, Covered PROVE OverlapOnlyByExpiry
<1> SUFFICES ASSUME NEW a \in Actor, NEW b \in Actor, Working(a), Working(b),
                    op[a].lane # op[b].lane,
                    R!_resources_overlap(op[a].key, op[b].key),
                    R!WRITE \in {ModeOf(op[a].kind), ModeOf(op[b].kind)},
                    Current(TokenOf(op[a])), Current(TokenOf(op[b]))
             PROVE  FALSE
  BY DEF OverlapOnlyByExpiry
<1>1. R!Owned(op[a].lane, op[a].fence) /\ R!Owned(op[b].lane, op[b].fence)
  BY DEF Current, TokenOf, R!_require_lane_locked
<1>2. PICK c \in lanes[op[a].lane].claims : R!_claim_covers(c, op[a].key, ModeOf(op[a].kind))
  BY <1>1 DEF Covered
<1>3. PICK d \in lanes[op[b].lane].claims : R!_claim_covers(d, op[b].key, ModeOf(op[b].kind))
  BY <1>1 DEF Covered
<1>4. op[a].lane \in R!Active /\ op[b].lane \in R!Active
  BY <1>1 DEF R!Owned
<1>5. c.key \in Resource /\ d.key \in Resource
  BY <1>2, <1>3, <1>4, ActiveLanes DEF RegistryInv, R!Claim
<1>6. op[a].key \in Resource /\ op[b].key \in Resource
  BY DEF Working, TypeOK, Op
<1>7. R!_resources_overlap(c.key, d.key)
  BY <1>2, <1>3, <1>5, <1>6, ClaimsAboveOverlap DEF R!_claim_covers
<1>8. R!WRITE \in {c.mode, d.mode}
  BY <1>2, <1>3 DEF R!_claim_covers
<1>9. R!_first_conflict(lanes[op[a].lane].claims, lanes[op[b].lane].claims)
  BY <1>7, <1>8 DEF R!_first_conflict
<1> QED
  BY <1>4, <1>9 DEF RegistryInv, NoConflict

----------------------------------------------------------------------------
(* What close_session leaves behind                                        *)

\* A lane of the registry was there before under the same token, or is being
\* opened by a call of its session.
LEMMA LanesBefore ==
    ASSUME RegistryInv, Shape, [Next]_vars, NEW l \in R!Active'
    PROVE  \/ l \in R!Active /\ R!Token(l)' = R!Token(l)
           \/ \E a \in Actor : RunOpen(a) /\ op[a].lane = l
<1>1. PICK S : Keeps(S) /\ (l \in S => \E a \in Actor : RunOpen(a) /\ op[a].lane = l)
  <2>1. CASE Keeps({})
    BY <2>1
  <2>2. CASE \E a \in Actor : RunOpen(a) /\ Keeps({op[a].lane})
    BY <2>2
  <2> QED
    BY <2>1, <2>2, RegistrySteps
<1>2. CASE l \in S
  BY <1>1, <1>2
<1>3. CASE l \notin S
  BY <1>1, <1>3 DEF Keeps, R!Token
<1> QED
  BY <1>2, <1>3

\* The life of a session: hang up, take the snapshot, finish the sweep.
LEMMA SessionSteps ==
    ASSUME TypeOK, [Next]_vars, NEW s \in Session
    PROVE  session'[s] = session[s] \/ Hangup(s) \/ close_session(s) \/ SweepDone(s)
<1> DEFINE Goal == session'[s] = session[s] \/ Hangup(s) \/ close_session(s) \/ SweepDone(s)
<1>1. ASSUME UNCHANGED session PROVE Goal
  BY <1>1
<1>2. ASSUME NEW r \in Session, Hangup(r) \/ close_session(r) \/ SweepDone(r) PROVE Goal
  <2>1. CASE r = s
    BY <1>2, <2>1
  <2>2. CASE r # s
    BY <1>2, <2>2 DEF Hangup, close_session, SweepDone, TypeOK
  <2> QED
    BY <2>1, <2>2
<1>3. ASSUME NEW r \in Session, SweepNext(r) PROVE Goal
  BY <1>1, <1>3 DEF SweepNext
<1>4. ASSUME NEW a \in Actor, Proceed(a) PROVE Goal
  BY <1>1, <1>4 DEF Proceed, RunOpen, RunRenew, Authorize, AuthorizeFails, Effect,
     _start_process_sync, _write_process_input, process_terminate, Resume, CloseSnapshot,
     close_lane_processes, RunClose
<1>5. ASSUME NEW p \in Process, _watchdog(p) \/ Overdue(p) \/ ChildExits(p) PROVE Goal
  BY <1>1, <1>5 DEF _watchdog, Overdue, ChildExits
<1>6. ASSUME ListLanes \/ Tick \/ UNCHANGED vars PROVE Goal
  BY <1>1, <1>6 DEF ListLanes, Tick, vars
<1>7. ASSUME NEW t \in Task, ChildReads(t) PROVE Goal
  BY <1>1, <1>7 DEF ChildReads
<1>8. ASSUME NEW t \in Task, NEW l \in LaneId,
             \/ FenceLeft /\ Submit(t, "lane.open", l, 0, None, None)
             \/ \E f \in 1..fenceCounter : Request(t, l, f)
      PROVE  Goal
  BY <1>1, <1>8 DEF Request, Submit
<1> HIDE DEF Goal
<1>9. Goal
  BY <1>2, <1>3, <1>4, <1>5, <1>6, <1>7, <1>8 DEF Next, Drain
<1> QED
  BY <1>9 DEF Goal

\* The sweep of a session keeps its list and the lane it is at, apart from its
\* own steps from lane to lane.
Steady(s) == /\ op'[s].left = op[s].left
             /\ Busy(s) => Busy(s)' /\ TokenOf(op'[s]) = TokenOf(op[s])

\* What a step does to the sweep of one session.
LEMMA SweeperSteps ==
    ASSUME TypeOK, Shape, [Next]_vars, NEW s \in Session
    PROVE  Steady(s) \/ close_session(s) \/ SweepNext(s) \/ SweepDone(s) \/ RunClose(s)
<1> DEFINE Goal == Steady(s) \/ close_session(s) \/ SweepNext(s) \/ SweepDone(s) \/ RunClose(s)
<1>0. s \in Actor /\ op[s] \in Op /\ (Busy(s) => op[s].kind = "lane.close")
  BY DEF Actor, TypeOK, Shape
<1>1. ASSUME op'[s] = op[s] PROVE Goal
  BY <1>1 DEF Steady, Busy
<1>2. ASSUME NEW a \in Actor, a # s, NEW new, op' = [op EXCEPT ![a] = new] PROVE Goal
  BY <1>0, <1>1, <1>2 DEF TypeOK
<1>3. ASSUME NEW r \in Session, Drain(r) PROVE Goal
  <2>1. CASE r = s
    BY <1>3, <2>1 DEF Drain
  <2>2. CASE r # s
    <3>1. \E new : op' = [op EXCEPT ![r] = new]
      BY <1>3 DEF Drain, close_session, SweepNext, SweepDone, Enter
    <3> QED
      BY <1>2, <2>2, <3>1 DEF Actor
  <2> QED
    BY <2>1, <2>2
<1>4. ASSUME NEW a \in Actor, Proceed(a) PROVE Goal
  <2>1. CASE a # s
    <3>1. \E new : op' = [op EXCEPT ![a] = new]
      BY <1>4 DEF Proceed, RunOpen, RunRenew, Authorize, AuthorizeFails, Effect,
         _start_process_sync, _write_process_input, process_terminate, Resume, CloseSnapshot,
         close_lane_processes, RunClose, Goto, Leave
    <3> QED
      BY <1>2, <2>1, <3>1
  <2>2. CASE a = s
    <3>1. RunClose(s) \/ CloseSnapshot(s) \/ close_lane_processes(s)
      <4>1. ~ (RunOpen(s) \/ RunRenew(s) \/ Authorize(s) \/ AuthorizeFails(s))
        BY <1>0 DEF RunOpen, RunRenew, Authorize, AuthorizeFails, Holds, Busy,
                    FsKind, ProcessKind, HandleKind
      <4>2. ~ (Effect(s) \/ _start_process_sync(s) \/ _write_process_input(s)
               \/ process_terminate(s))
        BY <1>0 DEF Effect, _start_process_sync, _write_process_input, process_terminate,
                    Busy, FsKind
      <4>3. ~Resume(s)
        BY <1>0 DEF Resume, Busy, Shape
      <4> QED
        BY <1>4, <2>2, <4>1, <4>2, <4>3 DEF Proceed
    <3>2. CASE CloseSnapshot(s)
      <4>1. op'[s].left = op[s].left /\ op'[s].pc = "thread" /\ TokenOf(op'[s]) = TokenOf(op[s])
        BY <1>0, <3>2 DEF CloseSnapshot, TypeOK, Op, TokenOf
      <4> QED
        BY <4>1 DEF Steady, Busy
    <3>3. CASE close_lane_processes(s)
      <4>1. op'[s].left = op[s].left /\ op'[s].pc = "thread" /\ TokenOf(op'[s]) = TokenOf(op[s])
        BY <1>0, <3>3 DEF close_lane_processes, TypeOK, Op, TokenOf
      <4> QED
        BY <4>1 DEF Steady, Busy
    <3> QED
      BY <3>1, <3>2, <3>3
  <2> QED
    BY <2>1, <2>2
<1>5. ASSUME UNCHANGED op PROVE Goal
  BY <1>1, <1>5
<1>6. ASSUME NEW p \in Process, _watchdog(p) \/ Overdue(p) \/ ChildExits(p) PROVE Goal
  BY <1>5, <1>6 DEF _watchdog, Overdue, ChildExits
<1>7. ASSUME ListLanes \/ Tick \/ UNCHANGED vars PROVE Goal
  BY <1>5, <1>7 DEF ListLanes, Tick, vars
<1>8. ASSUME NEW r \in Session, Hangup(r) PROVE Goal
  BY <1>5, <1>8 DEF Hangup
<1>9. ASSUME NEW t \in Task, NEW new, op' = [op EXCEPT ![t] = new] PROVE Goal
  BY <1>2, <1>9, ActorAssumption DEF Actor
<1>10. ASSUME NEW t \in Task, ChildReads(t) PROVE Goal
  <2>1. \E new : op' = [op EXCEPT ![t] = new]
    BY <1>10 DEF ChildReads, Goto
  <2> QED
    BY <1>9, <2>1
<1>11. ASSUME NEW t \in Task, NEW l \in LaneId,
              \/ FenceLeft /\ Submit(t, "lane.open", l, 0, None, None)
              \/ \E f \in 1..fenceCounter : Request(t, l, f)
       PROVE  Goal
  <2>1. ASSUME NEW call, Enter(t, call) PROVE Goal
    BY <1>9, <2>1 DEF Enter
  <2> HIDE DEF Goal
  <2> QED
    BY <1>11, <2>1 DEF Request, Submit
<1> HIDE DEF Goal
<1>12. Goal
  BY <1>3, <1>4, <1>6, <1>7, <1>8, <1>10, <1>11 DEF Next
<1> QED
  BY <1>12 DEF Goal

\* The sweep misses no lane, and when it is done none is left.
LEMMA SweepSteps ==
    ASSUME Inv, [Next]_vars
    PROVE  SweepSees' /\ SessionLeavesNoLane'
<1> USE DEF Inv
<1>1. ASSUME NEW l \in R!Active', session'[SessionOf[l]] \in {"closing", "closed"}
      PROVE  l \in R!Active /\ R!Token(l)' = R!Token(l)
  <2>1. ASSUME NEW a \in Actor, RunOpen(a), op[a].lane = l PROVE FALSE
    <3>1. Busy(a) /\ op[a].kind = "lane.open" /\ session' = session
      BY <2>1 DEF RunOpen, Holds, Busy
    <3>2. a \in Task
      BY <3>1 DEF Shape, Actor
    <3>3. l \in LaneId /\ SessionOf[l] \in Session
      BY SessionAssumption DEF R!Active
    <3>4. a \in Calls(SessionOf[l])
      BY <2>1, <3>1, <3>2 DEF Calls, Busy
    <3> QED
      BY <1>1, <3>1, <3>3, <3>4 DEF Shape
  <2> QED
    BY <2>1, LanesBefore
<1>2. ASSUME NEW s \in Session, session'[s] = "closing", NEW l \in R!Active', SessionOf[l] = s
      PROVE  R!Token(l)' \in op'[s].left \/ (Busy(s)' /\ TokenOf(op'[s]) = R!Token(l)')
  <2>0. l \in R!Active /\ R!Token(l)' = R!Token(l) /\ s \in Actor /\ op[s] \in Op
    BY <1>1, <1>2 DEF Actor, TypeOK
  <2>1. CASE close_session(s)
    <3>1. op'[s].left = SnapshotOf(s)
      BY <2>0, <2>1 DEF close_session, TypeOK, Op
    <3>2. l \notin R!Expired(clock)
      BY <1>2, <2>0, <2>1 DEF close_session, Snapshot, R!Reap, R!Without, R!Active
    <3>3. R!Token(l) \in SnapshotOf(s)
      BY <1>2, <2>0, <3>2 DEF SnapshotOf
    <3> QED
      BY <2>0, <3>1, <3>3
  <2>2. CASE ~close_session(s)
    <3>1. session[s] = "closing"
      BY <1>2, <2>2, SessionSteps DEF Hangup, SweepDone, TypeOK
    <3>2. R!Token(l) \in op[s].left \/ (Busy(s) /\ TokenOf(op[s]) = R!Token(l))
      BY <1>2, <2>0, <3>1 DEF SweepSees
    <3>3. CASE Steady(s)
      BY <2>0, <3>2, <3>3 DEF Steady
    <3>4. CASE SweepNext(s)
      <4>1. PICK token \in op[s].left : \E k :
              op' = [op EXCEPT ![s] =
                       [[Idle EXCEPT !.kind = "lane.close", !.lane = token[1],
                                     !.fence = token[2], !.left = op[s].left \ {token}]
                          EXCEPT !.pc = "queued", !.lock = k]]
        BY <3>4 DEF SweepNext, Enter
      <4>2. token \in LaneId \X Nat
        BY <2>0 DEF Op
      <4>3. /\ op'[s].left = op[s].left \ {token} /\ op'[s].pc = "queued"
            /\ op'[s].lane = token[1] /\ op'[s].fence = token[2]
        BY <2>0, <4>1 DEF TypeOK, Idle
      <4>4. TokenOf(op'[s]) = token
        BY <4>2, <4>3 DEF TokenOf
      <4>5. ~Busy(s)
        BY <3>4 DEF SweepNext, Busy
      <4> QED
        BY <2>0, <3>2, <4>3, <4>4, <4>5 DEF Busy
    <3>5. CASE RunClose(s)
      <4>1. op'[s].left = op[s].left
        BY <2>0, <3>5 DEF RunClose, Leave, AfterLane, Idle, TypeOK
      <4>2. ASSUME TokenOf(op[s]) = R!Token(l) PROVE FALSE
        <5>1. op[s].lane = l /\ R!Owned(l, op[s].fence)
          BY <2>0, <4>2 DEF TokenOf, R!Token, R!Owned
        <5>2. R!close(l, op[s].fence, clock) \/ R!RequireExpired(l, op[s].fence, clock)
          BY <3>5, <5>1 DEF RunClose, Rejected
        <5> QED
          BY <1>2, <5>2 DEF R!close, R!RequireExpired, R!Without, R!Active
      <4> QED
        BY <2>0, <3>2, <4>1, <4>2
    <3>6. ~SweepDone(s)
      BY <1>2 DEF SweepDone, TypeOK
    <3> QED
      BY <2>2, <3>3, <3>4, <3>5, <3>6, SweeperSteps
  <2> QED
    BY <2>1, <2>2
<1>3. ASSUME NEW s \in Session, session'[s] = "closed", NEW l \in R!Active', SessionOf[l] = s
      PROVE  FALSE
  <2>0. l \in R!Active
    BY <1>1, <1>3
  <2>1. session[s] = "closed" \/ SweepDone(s)
    BY <1>3, SessionSteps DEF Hangup, close_session, TypeOK
  <2>2. CASE session[s] = "closed"
    BY <1>3, <2>0, <2>2 DEF SessionLeavesNoLane
  <2>3. CASE SweepDone(s)
    <3>1. op[s].pc = "sweep" /\ op[s].left = {}
      BY <2>3 DEF SweepDone
    <3>2. session[s] = "closing" /\ ~Busy(s)
      BY <3>1 DEF Shape, Busy
    <3> QED
      BY <1>3, <2>0, <3>1, <3>2 DEF SweepSees
  <2> QED
    BY <2>1, <2>2, <2>3
<1>4. SweepSees'
  BY <1>2 DEF SweepSees
<1>5. SessionLeavesNoLane'
  BY <1>3 DEF SessionLeavesNoLane
<1> QED
  BY <1>4, <1>5

----------------------------------------------------------------------------
(* The theorems                                                            *)

\* What the queues and the counters say of the two dictionaries.
LEMMA CountedIsLocksCounted ==
    ASSUME TypeOK, Queued, Counted
    PROVE  LocksCounted
<1> SUFFICES ASSUME NEW l \in LaneId
             PROVE  /\ users[l] = Cardinality(OnLane(l))
                    /\ locks[l] = None <=> users[l] = 0
                    /\ \A a \in OnLane(l) : op[a].lock = locks[l]
  BY DEF LocksCounted
<1>1. users[l] = 0 <=> OnLane(l) = {}
  BY ActorsAreFinite, FS_EmptySet DEF Counted
<1> QED
  BY <1>1 DEF Counted, Queued, OnLane

\* The agent starts in the invariant.
LEMMA InitEstablishesInv == ASSUME Init PROVE Inv
<1> USE DEF Init
<1>0. /\ R!Active = {} /\ retired = {} /\ lastFence = 0 /\ fenceCounter = 0 /\ clock = 0
  BY DEF R!Init, R!Active
<1>1. Idle \in Op /\ NoProcess \in Managed
  BY DEF Idle, Op, NoProcess, Managed
<1>2. TypeOK
  BY <1>1 DEF TypeOK
<1>3. RegistryInv
  BY <1>0 DEF RegistryInv, R!Init, R!TypeOK, R!AllocatorAdvances, NoConflict, Fences
<1>4. \A a \in Actor : /\ op[a].pc = "idle" /\ op[a].lock = None /\ op[a].key = None
                       /\ op[a].fence = 0 /\ ~Busy(a) /\ ~Inside(a)
  BY DEF Idle, Busy, Inside
<1>5. \A l : OnLane(l) = {}
  BY <1>4 DEF OnLane
<1>6. Shape
  <2>1. \A s \in Session : session[s] = "open"
    OBVIOUS
  <2> QED
    BY <1>0, <1>4, <2>1 DEF Shape, Actor
<1>7. Queued
  BY <1>4 DEF Queued
<1>8. Counted
  BY <1>5, FS_EmptySet DEF Counted
<1>9. \A p \in Process : ~Running(p)
  BY DEF Running, NoProcess
<1>10. closed \subseteq retired /\ ClosedIsQuiet /\ ClosingSees /\ Covered
  BY <1>4 DEF ClosedIsQuiet, ClosingSees, Covered, Working
<1>11. SweepSees /\ SessionLeavesNoLane
  BY DEF SweepSees, SessionLeavesNoLane
<1> QED
  BY <1>2, <1>3, <1>6, <1>7, <1>8, <1>10, <1>11 DEF Inv

\* Every step keeps the invariant.
LEMMA NextKeepsInv == ASSUME Inv, [Next]_vars PROVE Inv'
<1>1. TypeOK' /\ RegistryInv' /\ Shape'
  BY TypeSteps, RegistrySteps, ShapeSteps DEF Inv
<1>2. Queued' /\ Counted'
  <2>1. CASE Next
    BY <2>1, LockSteps DEF Inv
  <2>2. CASE UNCHANGED vars
    <3>1. UNCHANGED <<op, locks, users, queue>>
      BY <2>2 DEF vars, locking
    <3>2. \A l : OnLane(l)' = OnLane(l)
      BY <3>1 DEF OnLane, Busy
    <3> QED
      BY <3>1, <3>2 DEF Inv, Queued, Counted, Busy, Inside
  <2> QED
    BY <2>1, <2>2
<1>3. (closed \subseteq retired)' /\ ClosedIsQuiet' /\ ClosingSees'
  BY ClosingSteps
<1>4. Covered' /\ SweepSees' /\ SessionLeavesNoLane'
  BY CoveredSteps, SweepSteps
<1> QED
  BY <1>1, <1>2, <1>3, <1>4 DEF Inv

\* The inductive invariant: locks, phases, closes and sweeps stay in step with
\* the registry whatever the interleaving of calls, threads and watchdogs.
THEOREM OperationsInvariant == Spec => []Inv
<1>1. Init => Inv
  BY InitEstablishesInv
<1>2. Inv /\ [Next]_vars => Inv'
  BY NextKeepsInv
<1> QED
  BY <1>1, <1>2, PTL DEF Spec

\* The agent's own state keeps its types.
THEOREM OperationsTypeCorrect == Spec => []TypeOK
<1>1. Inv => TypeOK
  BY DEF Inv
<1> QED
  BY <1>1, OperationsInvariant, PTL

\* _lane_operation never lets two operations of one lane past its lock, for
\* any number of calls that create, wait for and drop that lock.
THEOREM LaneOperationsSerial == Spec => []LaneSerial
<1>1. Inv => LaneSerial
  BY QueuedIsSerial DEF Inv
<1> QED
  BY <1>1, OperationsInvariant, PTL

\* _lane_locks and _lane_lock_users hold an entry exactly for the lanes in use,
\* with the right count, and every call waits on the lock that is listed.
THEOREM LaneLocksCounted == Spec => []LocksCounted
<1>1. Inv => LocksCounted
  BY CountedIsLocksCounted DEF Inv
<1> QED
  BY <1>1, OperationsInvariant, PTL

\* After lane.close or close_session has closed a lane, no operation of that
\* token is on a worker thread and none of its processes runs.
THEOREM ClosedLanesAreQuiet == Spec => []ClosedIsQuiet
<1>1. Inv => ClosedIsQuiet
  BY DEF Inv
<1> QED
  BY <1>1, OperationsInvariant, PTL

\* Two worker threads on overlapping resources, one of them writing, are never
\* both within their leases, although each was authorized only once.
THEOREM OverlapNeedsExpiry == Spec => []OverlapOnlyByExpiry
<1>1. Inv => OverlapOnlyByExpiry
  BY CoveredIsExclusive DEF Inv
<1> QED
  BY <1>1, OperationsInvariant, PTL

\* When close_session is done the registry has no lane of the session, although
\* it works from a snapshot and other sessions open lanes meanwhile.
THEOREM SessionsLeaveNoLane == Spec => []SessionLeavesNoLane
<1>1. Inv => SessionLeavesNoLane
  BY DEF Inv
<1> QED
  BY <1>1, OperationsInvariant, PTL

\* The registry's methods are all that touches the lanes: each step is one of
\* theirs, on a fresh clock reading, or leaves the registry alone.
LEMMA StepsAreRegistrySteps ==
    ASSUME Inv, [Next]_vars
    PROVE  [R!Next]_(R!vars)
<1> DEFINE Goal == R!Next \/ UNCHANGED R!vars
<1>0. clock \in R!Reading /\ fenceCounter \in Nat
  BY RegistryAssumption DEF R!Reading, Inv, RegistryInv, R!TypeOK
<1>1. ASSUME UNCHANGED registry PROVE Goal
  BY <1>1 DEF registry, R!vars
<1>2. ASSUME R!Reap(clock) PROVE Goal
  BY <1>0, <1>2 DEF R!Next
<1>3. ASSUME NEW l, NEW f, R!Owned(l, f) PROVE l \in LaneId /\ f \in 1..fenceCounter
  BY <1>3 DEF R!Owned, R!Active, Inv, RegistryInv, Fences
<1>4. ASSUME NEW l, NEW f, R!close(l, f, clock) \/ R!RequireExpired(l, f, clock) PROVE Goal
  <2>1. l \in LaneId /\ f \in 1..fenceCounter
    BY <1>3, <1>4 DEF R!close, R!RequireExpired, R!_require_lane_locked
  <2> QED
    BY <1>0, <1>4, <2>1 DEF R!Next
<1>5. ASSUME NEW l, NEW f, \E ttl \in 1..MaxTtl : R!renew(l, f, ttl, clock) PROVE Goal
  <2>1. l \in LaneId /\ f \in 1..fenceCounter
    BY <1>3, <1>5 DEF R!renew, R!_require_lane_locked
  <2> QED
    BY <1>0, <1>5, <2>1 DEF R!Next
<1>6. ASSUME NEW l \in LaneId, NEW claims \in ClaimChoice, NEW ttl \in 1..MaxTtl,
             R!open_lane(l, Ceiling, claims, ttl, clock)
      PROVE  Goal
  <2>1. Ceiling \in SUBSET Capability
    BY RegistryAssumption
  <2> QED
    BY <1>0, <1>6, <2>1 DEF R!Next
<1>7. ASSUME R!Tick PROVE Goal
  BY <1>7 DEF R!Next
<1> HIDE DEF Goal
<1>8. ASSUME Snapshot PROVE Goal
  BY <1>1, <1>2, <1>8 DEF Snapshot
<1>9. ASSUME NEW l, NEW f, Rejected(l, f) PROVE Goal
  BY <1>1, <1>4, <1>9 DEF Rejected
<1>10. ASSUME NEW l, NEW f, NEW cap, NEW key, NEW mode, Denied(l, f, cap, key, mode)
       PROVE  Goal
  BY <1>1, <1>9, <1>10 DEF Denied
<1>11. ASSUME NEW a \in Actor, RunOpen(a) PROVE Goal
  <2>1. op[a].lane \in LaneId
    BY <1>11 DEF RunOpen, Holds, Busy, Inv, Shape
  <2> QED
    BY <1>6, <1>8, <1>11, <2>1 DEF RunOpen, OpenRefused
<1>12. ASSUME NEW a \in Actor, RunRenew(a) \/ RunClose(a) PROVE Goal
  BY <1>4, <1>5, <1>9, <1>12 DEF RunRenew, RunClose
<1>13. ASSUME NEW a \in Actor, AuthorizeFails(a) PROVE Goal
  BY <1>1, <1>10, <1>13 DEF AuthorizeFails
<1>14. ASSUME NEW a \in Actor,
              Authorize(a) \/ Effect(a) \/ _start_process_sync(a) \/ _write_process_input(a)
              \/ process_terminate(a) \/ Resume(a) \/ CloseSnapshot(a)
              \/ close_lane_processes(a) \/ ChildReads(a)
       PROVE  Goal
  BY <1>1, <1>14 DEF Authorize, Effect, _start_process_sync, _write_process_input,
         process_terminate, Resume, CloseSnapshot, close_lane_processes, ChildReads
<1>15. ASSUME NEW t \in Task, NEW l \in LaneId,
              \/ FenceLeft /\ Submit(t, "lane.open", l, 0, None, None)
              \/ \E f \in 1..fenceCounter : Request(t, l, f)
       PROVE  Goal
  BY <1>1, <1>15 DEF Request, Submit
<1>16. ASSUME NEW s \in Session, Hangup(s) \/ SweepNext(s) \/ SweepDone(s) PROVE Goal
  BY <1>1, <1>16 DEF Hangup, SweepNext, SweepDone
<1>17. ASSUME NEW s \in Session, close_session(s) PROVE Goal
  BY <1>8, <1>17 DEF close_session
<1>18. ASSUME NEW p \in Process, _watchdog(p) \/ Overdue(p) \/ ChildExits(p) PROVE Goal
  BY <1>1, <1>10, <1>18 DEF _watchdog, Overdue, ChildExits
<1>19. ASSUME ListLanes \/ Tick \/ UNCHANGED vars PROVE Goal
  BY <1>1, <1>2, <1>7, <1>19 DEF ListLanes, Tick, vars
<1>20. ASSUME NEW a \in Actor, Proceed(a) PROVE Goal
  BY <1>11, <1>12, <1>13, <1>14, <1>20 DEF Proceed
<1>21. ASSUME NEW t \in Task, ChildReads(t) PROVE Goal
  BY <1>14, <1>21 DEF Actor
<1>22. Goal
  BY <1>15, <1>16, <1>17, <1>18, <1>19, <1>20, <1>21 DEF Next, Drain
<1> QED
  BY <1>22 DEF Goal

\* Operations on lanes implement the lane registry's specification, so what is
\* proved of the registry (exclusive writes, fencing, leases honoured) holds
\* under the agent's interleavings.
THEOREM OperationsImplementRegistry == Spec => R!Spec
<1>1. Init => R!Init
  BY DEF Init
<1>2. Inv /\ [Next]_vars => [R!Next]_(R!vars)
  BY StepsAreRegistrySteps
<1> QED
  BY <1>1, <1>2, OperationsInvariant, PTL DEF Spec, R!Spec

=============================================================================
