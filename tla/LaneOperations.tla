--------------------------- MODULE LaneOperations ---------------------------
(***************************************************************************)
(* Workstation operations on lanes, as the agent runs them side by side:   *)
(*   - VeraPortAgent (protocol.py): one asyncio lock per lane, counted and *)
(*     dropped when nobody needs it; _dispatch; close_session;             *)
(*   - LocalExecutor (executor.py) and RdcSurface (rdc_surface.py): an     *)
(*     operation is authorized once, on the event loop, and then takes     *)
(*     effect on a worker thread; a started process has a watchdog thread  *)
(*     that authorizes it again and again.                                 *)
(* Over LaneRegistry, whose methods are the steps that touch the lanes.    *)
(* One life of the agent process.  A child process dies when it is         *)
(* terminated or killed (external).                                        *)
(***************************************************************************)
EXTENDS Naturals, FiniteSets, Sequences

CONSTANTS
    LaneId, Capability, Ceiling, Resource, Norm, ClaimChoice, MaxLanes,
    MaxTtl, MaxLag, MaxTime, MaxFence, None,    \* see LaneRegistry
    Session,    \* application sessions
    SessionOf,  \* the session whose prefix a lane id carries
    Task,       \* handler calls that run side by side
    Process,    \* process handles (bounds the number of processes started)
    Offered,    \* the operations callers ask for (bounds the model)
    FsKey,      \* resources "fs:..." named by file operations
    CwdKey      \* resources "cwd:..." named by process operations

VARIABLES
    lanes, lastFence, fenceCounter, clock, retired,   \* see LaneRegistry
    session,  \* "open", "draining" (stream ended), "closing", "closed"
    locks,    \* _lane_locks: lane |-> lock
    users,    \* _lane_lock_users: lane |-> count, 0 where there is no entry
    queue,    \* lock |-> its holder, then its waiters in order
    op,       \* what each handler call, and each session's close, is doing
    proc,     \* _processes
    closed    \* history: <<lane, fence>> closed by lane.close or close_session

registry == <<lanes, lastFence, fenceCounter, clock, retired>>
locking  == <<locks, users, queue>>
vars     == <<registry, session, locking, op, proc, closed>>

R == INSTANCE LaneRegistry

Actor == Task \cup Session
Lock  == 1..Cardinality(Actor)   \* at most one lock per actor is in use

FsKind      == {"fs.read", "fs.write"}
HandleKind  == {"process.input", "process.terminate"}
ProcessKind == {"process.exec", "process.start"} \cup HandleKind
Kind        == {"lane.open", "lane.renew", "lane.close"} \cup FsKind \cup ProcessKind

ASSUME KeyAssumption     == FsKey \cup CwdKey \subseteq Resource
ASSUME SessionAssumption == SessionOf \in [LaneId -> Session]
ASSUME ActorAssumption   == Task \cap Session = {}
ASSUME OfferedAssumption == Offered \subseteq Kind
ASSUME FiniteAssumption  == IsFiniteSet(Task \cup Session) /\ IsFiniteSet(Process)
ASSUME NoneAssumption    == None \notin R!Lane \cup Lock

\* What LaneRegistry assumes of the constants it shares.
ASSUME RegistryAssumption ==
    /\ Ceiling \subseteq Capability
    /\ Norm \in [Resource -> Seq(STRING)]
    /\ ClaimChoice \subseteq SUBSET R!Claim
    /\ {MaxTtl, MaxLag, MaxTime, MaxFence} \subseteq Nat

\* The capability an operation is authorized for, and the claim mode it needs.
CapabilityOf(kind) ==
    CASE kind \in FsKind                               -> kind
      [] kind \in {"process.exec", "process.start"}    -> "process.exec"
      [] kind = "process.input"                        -> "process.interact"
      [] kind = "process.terminate"                    -> "process.control"
ModeOf(kind) == IF kind = "fs.read" THEN R!READ ELSE R!WRITE

Op == [pc    : {"idle", "queued", "thread", "resume", "sweep"},
       kind  : Kind \cup {None},
       lane  : LaneId \cup {None},
       fence : Nat,
       key   : Resource \cup {None},
       proc  : Process \cup {None},     \* the handle it names
       lock  : Lock \cup {None},
       todo  : SUBSET Process,          \* processes left to terminate
       left  : SUBSET (LaneId \X Nat)]  \* lanes left to close

Idle == [pc |-> "idle", kind |-> None, lane |-> None, fence |-> 0, key |-> None,
         proc |-> None, lock |-> None, todo |-> {}, left |-> {}]

Managed == [state : {"none", "running", "exited"}, lane : LaneId \cup {None},
            fence : Nat, key : Resource \cup {None}, overdue : BOOLEAN]

NoProcess == [state |-> "none", lane |-> None, fence |-> 0, key |-> None,
              overdue |-> FALSE]

TokenOf(x) == <<x.lane, x.fence>>

Running(p) == proc[p].state = "running"

----------------------------------------------------------------------------
(* _lane_operation                                                         *)

Busy(a)   == op[a].pc \in {"queued", "thread", "resume"}
OnLane(l) == {a \in Actor : Busy(a) /\ op[a].lane = l}

FreshLock == CHOOSE k \in Lock :
                 /\ \A l \in LaneId : locks[l] # k
                 /\ \A a \in Actor : op[a].lock # k

EnterUncounted(a, call) ==
    LET l == call.lane
        k == IF locks[l] = None THEN FreshLock ELSE locks[l]
    IN  /\ locks' = [locks EXCEPT ![l] = k]
        /\ users' = [users EXCEPT ![l] = IF locks[l] = None THEN 1 ELSE @]
        /\ queue' = [queue EXCEPT ![k] = Append(@, a)]
        /\ op' = [op EXCEPT ![a] = [call EXCEPT !.pc = "queued", !.lock = k]]

\* The guarded lookup, then acquire.  Nothing awaits inside the guard, so the
\* lookup is one step; the lock is its queue's head's, for asyncio locks are
\* handed over in order.
Enter(a, call) ==
    LET l == call.lane
        k == IF locks[l] = None THEN FreshLock ELSE locks[l]
    IN  /\ locks' = [locks EXCEPT ![l] = k]
        /\ users' = [users EXCEPT ![l] = @ + 1]
        /\ queue' = [queue EXCEPT ![k] = Append(@, a)]
        /\ op' = [op EXCEPT ![a] = [call EXCEPT !.pc = "queued", !.lock = k]]

\* The call returns; close_session goes on to its next lane.
AfterLane(a) ==
    IF a \in Session THEN [Idle EXCEPT !.pc = "sweep", !.left = op[a].left] ELSE Idle

LeaveForgetting(a) ==
    LET l == op[a].lane
    IN  /\ queue' = [queue EXCEPT ![op[a].lock] = Tail(@)]
        /\ users' = [users EXCEPT ![l] = @ - 1]
        /\ locks' = [locks EXCEPT ![l] = None]
        /\ op' = [op EXCEPT ![a] = AfterLane(a)]

LeaveKeeping(a) ==
    LET l == op[a].lane
    IN  /\ queue' = [queue EXCEPT ![op[a].lock] = Tail(@)]
        /\ users' = [users EXCEPT ![l] = @ - 1]
        /\ op' = [op EXCEPT ![a] = AfterLane(a)]
        /\ UNCHANGED locks

\* The finally clause: release, then drop the lock if this was its last user.
Leave(a) ==
    LET l    == op[a].lane
        k    == op[a].lock
        last == users[l] = 1
    IN  /\ queue' = [queue EXCEPT ![k] = Tail(@)]
        /\ users' = [users EXCEPT ![l] = @ - 1]
        /\ locks' = [locks EXCEPT ![l] = IF last /\ @ = k THEN None ELSE @]
        /\ op' = [op EXCEPT ![a] = AfterLane(a)]

Holds(a) == op[a].pc = "queued" /\ Head(queue[op[a].lock]) = a

\* Control goes to a worker thread, or comes back from one.
Goto(a, pc) == op' = [op EXCEPT ![a].pc = pc]

\* A request reaches _dispatch.  Callers may hold stale fences and handles.
Submit(t, kind, l, f, key, p) ==
    /\ kind \in Offered
    /\ op[t].pc = "idle"
    /\ session[SessionOf[l]] = "open"
    /\ Enter(t, [Idle EXCEPT !.kind = kind, !.lane = l, !.fence = f, !.key = key,
                             !.proc = p])
    /\ UNCHANGED <<registry, session, proc, closed>>

\* Keeps the grants within MaxFence (bounds the model).
FenceLeft == fenceCounter + Cardinality({t \in Task : op[t].kind = "lane.open"}) < MaxFence

Request(t, l, f) ==
    \/ \E kind \in {"lane.renew", "lane.close"} : Submit(t, kind, l, f, None, None)
    \/ \E kind \in FsKind, key \in FsKey : Submit(t, kind, l, f, key, None)
    \/ \E kind \in {"process.exec", "process.start"}, key \in CwdKey :
          Submit(t, kind, l, f, key, None)
    \/ \E kind \in HandleKind, p \in Process : Submit(t, kind, l, f, None, p)

----------------------------------------------------------------------------
(* On the event loop                                                       *)

\* registry.snapshot: expired lanes are reaped.
Snapshot == R!Reap(clock) \/ (R!Expired(clock) = {} /\ UNCHANGED registry)

\* registry.open_lane raised: only the reaping before its checks shows.
OpenRefused(l, claims) ==
    /\ R!Collides(l, claims, clock)
    /\ Snapshot

RunOpen(t) ==
    /\ Holds(t)
    /\ op[t].kind = "lane.open"
    /\ \E claims \in ClaimChoice :
          \/ \E ttl \in 1..MaxTtl : R!open_lane(op[t].lane, Ceiling, claims, ttl, clock)
          \/ OpenRefused(op[t].lane, claims)
    /\ Leave(t)
    /\ UNCHANGED <<session, proc, closed>>

\* _require_lane_locked raised: an expired lane is deleted on the way.
Rejected(l, f) ==
    \/ R!RequireExpired(l, f, clock)
    \/ ~R!Owned(l, f) /\ UNCHANGED registry

RunRenew(t) ==
    LET l == op[t].lane
        f == op[t].fence
    IN  /\ Holds(t)
        /\ op[t].kind = "lane.renew"
        /\ (\E ttl \in 1..MaxTtl : R!renew(l, f, ttl, clock)) \/ Rejected(l, f)
        /\ Leave(t)
        /\ UNCHANGED <<session, proc, closed>>

\* authorize raised.
Denied(l, f, cap, key, mode) ==
    \/ Rejected(l, f)
    \/ /\ R!_require_lane_locked(l, f, clock)
       /\ ~R!authorize(l, f, cap, key, mode, clock)
       /\ UNCHANGED registry

\* What the operation is authorized on: a handle stands for its process's cwd.
KeyOf(t) == IF op[t].kind \in HandleKind THEN proc[op[t].proc].key ELSE op[t].key

\* _owned_process finds the handle and the token is its owner's.
OwnsHandle(t) ==
    op[t].kind \in HandleKind =>
        /\ proc[op[t].proc].state # "none"
        /\ TokenOf(proc[op[t].proc]) = TokenOf(op[t])

AuthorizeAnyResource(t) ==
    /\ Holds(t)
    /\ op[t].kind \in FsKind \cup ProcessKind
    /\ OwnsHandle(t)
    /\ R!_require_lane_locked(op[t].lane, op[t].fence, clock)
    /\ Goto(t, "thread")
    /\ UNCHANGED <<registry, session, locking, proc, closed>>

\* Authorized: the rest is for a worker thread.
Authorize(t) ==
    /\ Holds(t)
    /\ op[t].kind \in FsKind \cup ProcessKind
    /\ OwnsHandle(t)
    /\ R!authorize(op[t].lane, op[t].fence, CapabilityOf(op[t].kind), KeyOf(t),
                   ModeOf(op[t].kind), clock)
    /\ Goto(t, "thread")
    /\ UNCHANGED <<registry, session, locking, proc, closed>>

AuthorizeFails(t) ==
    /\ Holds(t)
    /\ op[t].kind \in FsKind \cup ProcessKind
    /\ \/ ~OwnsHandle(t) /\ UNCHANGED registry
       \/ /\ OwnsHandle(t)
          /\ Denied(op[t].lane, op[t].fence, CapabilityOf(op[t].kind), KeyOf(t),
                    ModeOf(op[t].kind))
    /\ Leave(t)
    /\ UNCHANGED <<session, proc, closed>>

\* The worker is done, and the call returns.
Resume(t) ==
    /\ op[t].pc = "resume"
    /\ Leave(t)
    /\ UNCHANGED <<registry, session, proc, closed>>

----------------------------------------------------------------------------
(* On worker threads                                                       *)

\* A file is read or replaced, or a child runs to its end or its timeout.
Effect(t) ==
    /\ op[t].pc = "thread"
    /\ op[t].kind \in FsKind \cup {"process.exec"}
    /\ Goto(t, "resume")
    /\ UNCHANGED <<registry, session, locking, proc, closed>>

\* _start_process_sync: the process is registered to the token, its watchdog
\* started; or Popen failed.
_start_process_sync(t) ==
    /\ op[t].pc = "thread"
    /\ op[t].kind = "process.start"
    /\ \/ \E p \in Process :
            /\ proc[p].state = "none"
            /\ proc' = [proc EXCEPT ![p] = [state |-> "running", lane |-> op[t].lane,
                                            fence |-> op[t].fence, key |-> op[t].key,
                                            overdue |-> FALSE]]
       \/ UNCHANGED proc
    /\ Goto(t, "resume")
    /\ UNCHANGED <<registry, session, locking, closed>>

\* The write blocks while the pipe is full: it returns when the child reads,
\* or fails when the child is gone.
_write_process_input(t) ==
    /\ op[t].pc = "thread"
    /\ op[t].kind = "process.input"
    /\ ~Running(op[t].proc)
    /\ Goto(t, "resume")
    /\ UNCHANGED <<registry, session, locking, proc, closed>>

ChildReads(t) ==
    /\ op[t].pc = "thread"
    /\ op[t].kind = "process.input"
    /\ Running(op[t].proc)
    /\ Goto(t, "resume")
    /\ UNCHANGED <<registry, session, locking, proc, closed>>

_terminate_sync(p) == [proc EXCEPT ![p].state = "exited"]

process_terminate(t) ==
    /\ op[t].pc = "thread"
    /\ op[t].kind = "process.terminate"
    /\ proc' = _terminate_sync(op[t].proc)
    /\ Goto(t, "resume")
    /\ UNCHANGED <<registry, session, locking, closed>>

----------------------------------------------------------------------------
(* lane.close and close_session                                            *)

CloseSnapshotNone(a) ==
    /\ Holds(a)
    /\ op[a].kind = "lane.close"
    /\ op' = [op EXCEPT ![a].pc = "thread", ![a].todo = {}]
    /\ UNCHANGED <<registry, session, locking, proc, closed>>

\* close_lane_processes lists the token's processes, whoever presents it.
CloseSnapshot(a) ==
    /\ Holds(a)
    /\ op[a].kind = "lane.close"
    /\ op' = [op EXCEPT ![a].pc = "thread",
                        ![a].todo = {p \in Process : /\ proc[p].state # "none"
                                                     /\ TokenOf(proc[p]) = TokenOf(op[a])}]
    /\ UNCHANGED <<registry, session, locking, proc, closed>>

\* ... and terminates them one at a time.
close_lane_processes(a) ==
    /\ op[a].pc = "thread"
    /\ op[a].kind = "lane.close"
    /\ \E p \in op[a].todo :
          /\ proc' = _terminate_sync(p)
          /\ op' = [op EXCEPT ![a].todo = @ \ {p}]
    /\ UNCHANGED <<registry, session, locking, closed>>

\* Only then is the fence checked and the lane closed.
RunClose(a) ==
    LET l == op[a].lane
        f == op[a].fence
    IN  /\ op[a].pc = "thread"
        /\ op[a].kind = "lane.close"
        /\ op[a].todo = {}
        /\ \/ R!close(l, f, clock) /\ closed' = closed \cup {<<l, f>>}
           \/ Rejected(l, f) /\ UNCHANGED closed
        /\ Leave(a)
        /\ UNCHANGED <<session, proc>>

\* The stream ends: no more requests of this session.
Hangup(s) ==
    /\ session[s] = "open"
    /\ session' = [session EXCEPT ![s] = "draining"]
    /\ UNCHANGED <<registry, locking, op, proc, closed>>

Calls(s) == {t \in Task : op[t].pc # "idle" /\ SessionOf[op[t].lane] = s}

\* The lanes of the session in a snapshot of the registry.
SnapshotOf(s) == {R!Token(l) : l \in {x \in R!Active \ R!Expired(clock) : SessionOf[x] = s}}

CloseSessionEarly(s) ==
    /\ session[s] = "draining"
    /\ session' = [session EXCEPT ![s] = "closing"]
    /\ Snapshot
    /\ op' = [op EXCEPT ![s].pc = "sweep", ![s].left = SnapshotOf(s)]
    /\ UNCHANGED <<locking, proc, closed>>

\* serve_multiplexed has gathered the session's calls; close_session takes a
\* snapshot of its lanes.
close_session(s) ==
    /\ session[s] = "draining"
    /\ Calls(s) = {}
    /\ session' = [session EXCEPT ![s] = "closing"]
    /\ Snapshot
    /\ op' = [op EXCEPT ![s].pc = "sweep", ![s].left = SnapshotOf(s)]
    /\ UNCHANGED <<locking, proc, closed>>

SweepNext(s) ==
    /\ op[s].pc = "sweep"
    /\ \E token \in op[s].left :
          Enter(s, [Idle EXCEPT !.kind = "lane.close", !.lane = token[1],
                                !.fence = token[2], !.left = op[s].left \ {token}])
    /\ UNCHANGED <<registry, session, proc, closed>>

SweepDone(s) ==
    /\ op[s].pc = "sweep"
    /\ op[s].left = {}
    /\ session' = [session EXCEPT ![s] = "closed"]
    /\ op' = [op EXCEPT ![s] = Idle]
    /\ UNCHANGED <<registry, locking, proc, closed>>

----------------------------------------------------------------------------
(* Watchdogs, children, time                                               *)

Entitled(p) == R!authorize(proc[p].lane, proc[p].fence, "process.exec", proc[p].key,
                           R!WRITE, clock)

WatchdogOnlyDeadline(p) ==
    /\ Running(p)
    /\ proc[p].overdue
    /\ proc' = _terminate_sync(p)
    /\ UNCHANGED <<registry, session, locking, op, closed>>

WatchdogUnderLaneLock(p) ==
    /\ Running(p)
    /\ OnLane(proc[p].lane) = {}
    /\ ~Entitled(p) \/ proc[p].overdue
    /\ proc' = _terminate_sync(p)
    /\ UNCHANGED <<registry, session, locking, op, closed>>

\* One round of the watchdog that ends the process: its lane no longer
\* authorizes it, or its runtime is over.
_watchdog(p) ==
    /\ Running(p)
    /\ \/ ~Entitled(p) /\ Denied(proc[p].lane, proc[p].fence, "process.exec",
                                 proc[p].key, R!WRITE)
       \/ Entitled(p) /\ proc[p].overdue /\ UNCHANGED registry
    /\ proc' = _terminate_sync(p)
    /\ UNCHANGED <<session, locking, op, closed>>

\* deadline_ns passes.
Overdue(p) ==
    /\ Running(p)
    /\ ~proc[p].overdue
    /\ proc' = [proc EXCEPT ![p].overdue = TRUE]
    /\ UNCHANGED <<registry, session, locking, op, closed>>

ChildExits(p) ==
    /\ Running(p)
    /\ proc' = [proc EXCEPT ![p].state = "exited"]
    /\ UNCHANGED <<registry, session, locking, op, closed>>

\* lane.list takes a snapshot and no lane lock.
ListLanes ==
    /\ R!Reap(clock)
    /\ UNCHANGED <<session, locking, op, proc, closed>>

Tick ==
    /\ R!Tick
    /\ UNCHANGED <<session, locking, op, proc, closed>>

Init ==
    /\ R!Init
    /\ session = [s \in Session |-> "open"]
    /\ locks = [l \in LaneId |-> None]
    /\ users = [l \in LaneId |-> 0]
    /\ queue = [k \in Lock |-> <<>>]
    /\ op = [a \in Actor |-> Idle]
    /\ proc = [p \in Process |-> NoProcess]
    /\ closed = {}

\* What a call does once it is in, apart from waiting for its child to read.
Proceed(a) ==
    \/ RunOpen(a) \/ RunRenew(a) \/ Authorize(a) \/ AuthorizeFails(a)
    \/ Effect(a) \/ _start_process_sync(a) \/ _write_process_input(a)
    \/ process_terminate(a) \/ Resume(a)
    \/ CloseSnapshot(a) \/ close_lane_processes(a) \/ RunClose(a)

Drain(s) == close_session(s) \/ SweepNext(s) \/ SweepDone(s)

Next ==
    \/ \E t \in Task, l \in LaneId :
          \/ FenceLeft /\ Submit(t, "lane.open", l, 0, None, None)
          \/ \E f \in 1..fenceCounter : Request(t, l, f)
    \/ \E a \in Actor : Proceed(a)
    \/ \E t \in Task : ChildReads(t)
    \/ \E s \in Session : Hangup(s) \/ Drain(s)
    \/ \E p \in Process : _watchdog(p) \/ Overdue(p) \/ ChildExits(p)
    \/ ListLanes
    \/ Tick

\* The event loop and the thread pool run what is ready; watchdogs wake up.
Fairness ==
    /\ \A a \in Actor : WF_vars(Proceed(a))
    /\ \A s \in Session : WF_vars(Drain(s))
    /\ \A p \in Process : WF_vars(_watchdog(p))

Spec == Init /\ [][Next]_vars /\ Fairness

----------------------------------------------------------------------------
(* Properties                                                              *)

\* The agent's own state keeps its types.
TypeOK ==
    /\ session \in [Session -> {"open", "draining", "closing", "closed"}]
    /\ locks \in [LaneId -> Lock \cup {None}]
    /\ users \in [LaneId -> Nat]
    /\ queue \in [Lock -> Seq(Actor)]
    /\ op \in [Actor -> Op]
    /\ proc \in [Process -> Managed]
    /\ closed \subseteq LaneId \X Nat

Inside(a) == op[a].pc \in {"thread", "resume"}

\* _lane_operation serializes the operations of one lane, although the lock it
\* uses is created and dropped on the way.
LaneSerial ==
    \A a, b \in Actor :
        Inside(a) /\ Inside(b) /\ op[a].lane = op[b].lane => a = b

\* The two dictionaries agree with who is using the lane: nothing leaks, and a
\* waiter's lock is never dropped from under it.
LocksCounted ==
    \A l \in LaneId :
        /\ users[l] = Cardinality(OnLane(l))
        /\ locks[l] = None <=> users[l] = 0
        /\ \A a \in OnLane(l) : op[a].lock = locks[l]

\* Once lane.close or close_session has closed a lane, none of its operations
\* is on a worker thread and none of its processes runs.
ClosedIsQuiet ==
    \A token \in closed :
        /\ \A a \in Actor : Inside(a) /\ op[a].kind # "lane.close" => TokenOf(op[a]) # token
        /\ \A p \in Process : Running(p) => TokenOf(proc[p]) # token

\* The token's lane is there and its lease is not over.
Current(token) == R!_require_lane_locked(token[1], token[2], clock)

Working(a) == op[a].pc = "thread" /\ op[a].key # None

\* Two worker threads touch overlapping resources, one of them writing, only
\* after a lease ran out under one of them.
OverlapOnlyByExpiry ==
    \A a, b \in Actor :
        /\ a # b
        /\ Working(a) /\ Working(b)
        /\ op[a].lane # op[b].lane
        /\ R!_resources_overlap(op[a].key, op[b].key)
        /\ R!WRITE \in {ModeOf(op[a].kind), ModeOf(op[b].kind)}
        => ~Current(TokenOf(op[a])) \/ ~Current(TokenOf(op[b]))

\* close_session leaves no lane of the session in the registry.
SessionLeavesNoLane ==
    \A s \in Session : session[s] = "closed" => \A l \in R!Active : SessionOf[l] # s

\* A process whose lane is closed, expired or reopened is ended by its watchdog.
StrayProcessesEnd ==
    \A p \in Process : (Running(p) /\ ~Current(TokenOf(proc[p]))) ~> ~Running(p)

DeadlinesPass == \A p \in Process : WF_vars(Overdue(p))

\* Every request is answered and every session is closed, even with a child
\* that never reads its input: the watchdog takes no lane lock.
CallsReturn ==
    DeadlinesPass =>
        /\ \A a \in Actor : Busy(a) ~> ~Busy(a)
        /\ \A s \in Session : session[s] = "draining" ~> session[s] = "closed"

\* core.py: "Fencing tokens prevent a stale lane holder from resuming after
\* expiry/reopen": no worker thread is about to write what another lane, now
\* current, has claimed.
StaleHolderNeverWrites ==
    \A t \in Task : Working(t) /\ ModeOf(op[t].kind) = R!WRITE =>
        \A l \in R!Active \ {op[t].lane} :
            clock < lanes[l].expires =>
                ~ \E c \in lanes[l].claims : R!_resources_overlap(c.key, op[t].key)

=============================================================================
