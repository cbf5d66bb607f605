------------------------- MODULE ControllerRuntime -------------------------
(***************************************************************************)
(* What the callers of a controller share: ControllerRuntime's authentica- *)
(* ted endpoints (controller_runtime.py), the gateway that sends a request *)
(* over the best of them (gateway.py), and, as a request meets it, the     *)
(* agent at the other end.  A session has two ends: the controller drops   *)
(* it in one step, and the agent, which holds its lanes, follows in        *)
(* another one.                                                            *)
(*                                                                         *)
(* A caller works through a script of phases, one request to the runtime   *)
(* each.  A lane belongs to the session it was opened in: under any other  *)
(* one the agent does not know it.  An answer may be lost, and a request   *)
(* the caller has given up may still be served.                            *)
(***************************************************************************)
EXTENDS Naturals, Sequences, FiniteSets

CONSTANTS
    Task,        \* callers
    Endpoint,    \* config.endpoints
    Shared,      \* a lane id that operators choose and may both use
    Private,     \* lane ids made by the facade, each used once
    MaxSession,  \* bound: sessions established
    MaxGrant,    \* bound: fencing tokens the agent issues
    None

ASSUME EndpointAssumption == IsFiniteSet(Endpoint)
ASSUME LaneAssumption     == Shared \notin Private
ASSUME BoundAssumption    == {MaxSession, MaxGrant} \subseteq Nat
ASSUME NoneAssumption     == None \notin Task

VARIABLES
    live,      \* _live: the session of each endpoint, 0 if it has none
    pool,      \* HotSessionPool: likewise
    made,      \* sessions established so far
    held,      \* the agent's lanes
    granted,   \* fencing tokens the agent has issued
    wire,      \* requests the agent may still serve
    excused,   \* history: lanes held that the controller has reason not to track
    task       \* the callers

edge  == <<live, pool, made>>
agent == <<held, granted>>
runtimeVars == <<edge, agent, wire, excused, task>>

Lane    == Private \cup {Shared}
Session == 1..MaxSession
Grant   == 1..MaxGrant
Link    == Endpoint \X Session

\* One request to the runtime: of the router ("r") or through the gateway.
Router  == {"r.open", "r.renew", "r.read", "r.close"}
Gateway == {"open", "call", "start", "status", "input", "close", "release"}
Phase   == [do : Router \cup Gateway \cup {"shutdown"}, lane : Lane]

Pc == {"idle", "begin", "enter", "lock", "turn", "wait"}

State(Token) ==
    [script : Seq(Phase),
     pc     : Pc,
     fence  : Token,                \* the token of the lane it works on
     todo   : SUBSET Link,          \* endpoints not yet tried
     at     : Link \cup {None},     \* the endpoint asked
     op     : {"none", "open", "renew", "read", "close", "call"},
     ans    : {"none", "ok", "refused"},
     got    : 0..MaxGrant,          \* the fencing token in an answer to lane.open
     failed : BOOLEAN,              \* something of the phase is unresolved
     did    : BOOLEAN,              \* the operation itself has succeeded
     raised : BOOLEAN]              \* the last call ended in an exception

Idle == [script |-> <<>>, pc |-> "idle", fence |-> 0, todo |-> {}, at |-> None,
         op |-> "none", ans |-> "none", got |-> 0, failed |-> FALSE, did |-> FALSE,
         raised |-> FALSE]

Doing(t) == Head(task[t].script).do
LaneOf(t) == Head(task[t].script).lane
At(t, pc) == task[t].pc = pc

ReportedByCleanup(did, closed) == IF did /\ closed THEN "ok" ELSE "error"

\* What an ephemeral call tells its caller once its lane was to be closed: a
\* failed cleanup is evidence beside the result, never an error in its place.
Reported(did, closed) == IF ~did THEN "error" ELSE IF closed THEN "ok" ELSE "evidence"

\* How a call that ends with this phase ends.
Outcome(t, ok) ==
    CASE Doing(t) \in {"close", "r.close"} /\ LaneOf(t) # Shared -> Reported(task[t].did, ok)
      [] Doing(t) = "release" -> Reported(TRUE, ok)
      [] OTHER -> IF ok THEN "ok" ELSE "error"

\* What is left of the script.  After a lane's opening comes a try block whose
\* finally, for start_process whose except clause, closes the lane.
Rest(t, ok) ==
    CASE Doing(t) \in {"open", "r.open"} /\ ~ok -> <<>>
      [] Doing(t) = "start" -> IF ok THEN <<>> ELSE <<[do |-> "close", lane |-> LaneOf(t)]>>
      [] OTHER -> Tail(task[t].script)

\* The caller when its phase has ended.
After(t, ok, fence) ==
    IF Rest(t, ok) = <<>>
    THEN [Idle EXCEPT !.raised = Outcome(t, ok) = "error"]
    ELSE [Idle EXCEPT !.script = Rest(t, ok), !.pc = "begin", !.fence = fence,
                      !.did = ok /\ Doing(t) \in {"call", "r.read"}]

\* Lanes the controller may lose track of, as long as they are there.
Excuses(grants) == excused' = (excused \cup grants) \cap {h.grant : h \in held'}

\* The phase of t ends; a routed lane that is left open is so by the caller's
\* knowledge: it is told of the failure, or its handle stays.
Ends(t, ok, fence) ==
    /\ task' = [task EXCEPT ![t] = After(t, ok, fence)]
    /\ Excuses(IF Doing(t) = "close" /\ ~ok /\ Outcome(t, ok) # "ok" THEN {fence} ELSE {})

----------------------------------------------------------------------------
(* The agent                                                               *)

\* Sessions the controller has open.
Open == {live[e] : e \in Endpoint} \ {0}

\* The agent finds the connection of a dropped session gone: what had arrived
\* is served by now, and close_session closes the session's lanes, those
\* excepted that it fails to close.
SessionEnds(s) ==
    /\ s \notin Open
    /\ \E unresolved \in SUBSET {h \in held : h.s = s} :
          held' = {h \in held : h.s # s} \cup unresolved
    /\ wire' = {m \in wire : m.s # s}
    /\ Excuses({})
    /\ UNCHANGED <<edge, granted, task>>

\* A lane's time is up; or the agent is the first to find the connection gone,
\* and close_session has come to this lane.  The model lets a request over such
\* a session be served or not, as over any that the controller has open.
LaneEnds(h) ==
    /\ held' = held \ {h}
    /\ Excuses({})
    /\ UNCHANGED <<edge, granted, wire, task>>

\* The answer goes to whoever still waits, over a session the controller has
\* not dropped, unless it is lost.
Answer(m, ans, got, arrives) ==
    IF arrives
    THEN task' = [task EXCEPT ![m.t].ans = ans, ![m.t].got = got]
    ELSE UNCHANGED task

Refuse(m, arrives) ==
    /\ Answer(m, "refused", 0, arrives)
    /\ UNCHANGED <<held, granted, excused>>

\* lane.open: an active lane of that name, or a conflicting claim, refuses it.
ServeOpen(m, arrives) ==
    /\ m.op = "open"
    /\ \/ Refuse(m, arrives)
       \/ /\ ~ \E h \in held : h.lane = m.lane /\ h.s = m.s
          /\ granted < MaxGrant
          /\ granted' = granted + 1
          /\ held' = held \cup {[lane |-> m.lane, s |-> m.s, grant |-> granted']}
          /\ Answer(m, "ok", granted', arrives)
          /\ Excuses(IF arrives THEN {} ELSE {granted'})

\* Everything else needs the lane, in this session, with this token.
ServeOn(m, arrives) ==
    /\ m.op # "open"
    /\ \/ Refuse(m, arrives)
       \/ /\ [lane |-> m.lane, s |-> m.s, grant |-> m.grant] \in held
          /\ held' = IF m.op = "close" THEN {h \in held : h.grant # m.grant} ELSE held
          /\ Answer(m, "ok", 0, arrives)
          /\ Excuses({})
          /\ UNCHANGED granted

Serve(m) ==
    /\ m \in wire
    /\ wire' = wire \ {m}
    /\ \E arrives \in BOOLEAN :
          /\ arrives => m.t # None /\ m.s \in Open
          /\ ServeOpen(m, arrives) \/ ServeOn(m, arrives)
    /\ UNCHANGED edge

----------------------------------------------------------------------------
(* A request: sent over a session, and awaited with a timeout.             *)

Message(t, op, s, grant) ==
    [t |-> t, op |-> op, s |-> s, lane |-> LaneOf(t), grant |-> grant]

\* A closed channel takes nothing: the caller will see StreamClosed.
Sent(t, op, link, grant) ==
    IF link[2] \in Open THEN wire \cup {Message(t, op, link[2], grant)} ELSE wire

Asks(t, op, link) ==
    [task[t] EXCEPT !.pc = "wait", !.op = op, !.at = link, !.ans = "none", !.got = 0]

Send(t, op, link, grant) ==
    /\ wire' = Sent(t, op, link, grant)
    /\ task' = [task EXCEPT ![t] = Asks(t, op, link)]

\* What a caller that stops waiting leaves on the wire, if serving it matters.
Leaves(t) ==
    {IF m.t = t THEN [m EXCEPT !.t = None] ELSE m :
        m \in {m \in wire : m.t = t => m.op \in {"open", "close"}}}

Answered(t) == At(t, "wait") /\ task[t].ans # "none"

\* StreamClosed: the timeout, or a transport that is gone.
Unanswered(t) == At(t, "wait") /\ task[t].ans = "none" /\ wire' = Leaves(t)

----------------------------------------------------------------------------
(* ensure_started and refresh_paths: every endpoint in turn, under _lock    *)
(* and so one caller at a time: one step.                                  *)

\* now: what each endpoint has afterwards.

\* _probe: the session is unexpired and has answered.
Answers(e, now) == now[e] = live[e] /\ live[e] # 0

\* _connect: a new session, which counts once it is probed too.
Connected(now) == {e \in Endpoint : now[e] > made}

\* An endpoint that answers keeps its session.  Of the others, expired or not
\* answering, pool, channel and entry go, and they are connected anew.  The
\* agent hears of a closed channel when it does.
Refresh(now) ==
    LET New == Connected(now)
    IN /\ \A e \in Endpoint :
             Answers(e, now) \/ now[e] \in {0} \cup (made + 1)..(made + Cardinality(New))
       /\ \A d, e \in New : d # e => now[d] # now[e]
       /\ made' = made + Cardinality(New)
       /\ live' = now
       /\ pool' = [e \in Endpoint |-> IF now[e] = 0 /\ live[e] = 0 THEN pool[e] ELSE now[e]]
       /\ UNCHANGED <<held, granted, wire>>

\* Some endpoint is live: the phase itself begins.
ensure_started(t) ==
    /\ At(t, "begin")
    /\ Doing(t) # "shutdown"
    /\ \E now \in [Endpoint -> 0..MaxSession] :
          /\ \E e \in Endpoint : now[e] # 0
          /\ Refresh(now)
    /\ task' = [task EXCEPT ![t].pc = "enter"]
    /\ Excuses({})

\* No authenticated endpoint: the phase fails.
NotStarted(t) ==
    /\ At(t, "begin")
    /\ Doing(t) # "shutdown"
    /\ Refresh([e \in Endpoint |-> 0])
    /\ Ends(t, FALSE, task[t].fence)

\* close, at the end of the service: the entries go, the pool keeps them.
Shutdown(t) ==
    /\ At(t, "begin")
    /\ Doing(t) = "shutdown"
    /\ live' = [e \in Endpoint |-> 0]
    /\ UNCHANGED <<pool, made, held, granted, wire>>
    /\ task' = [task EXCEPT ![t] = Idle]
    /\ Excuses({})

\* _ordered_current_endpoints: sessions unexpired and observed of late.
Current == {S \in SUBSET {<<e, live[e]>> : e \in Endpoint} : \A link \in S : link[2] # 0}

=============================================================================
