----------------------------- MODULE ReadLanes -----------------------------
(***************************************************************************)
(* MirroredReadLaneRouter (read_lane.py): a logical read lane is opened on *)
(* the agent once per session it is used over, so that a read can move to  *)
(* another path.  A lane object is known by its logical fencing token.     *)
(***************************************************************************)
EXTENDS ControllerRuntime

CONSTANTS
    MaxFence   \* bound: logical lanes opened

ASSUME FenceAssumption == MaxFence \in Nat

VARIABLES
    lanes,   \* _lanes: the token of each lane id's object, 0 if there is none
    fences,  \* _last_fence
    object   \* the lane objects, by token

routerVars == <<lanes, fences, object>>

Fence == 1..MaxFence

NoMirror == [s |-> 0, grant |-> 0]

Object == [lane    : Lane,
           mirrors : [Endpoint -> [s : 0..MaxSession, grant : 0..MaxGrant]],
           expired : BOOLEAN,
           given   : BOOLEAN,   \* open has returned its token
           holder  : Task \cup {None}]

\* A lane's time is up; a renewal may yet come first to a waiting reader.
Expire(n) ==
    /\ n \in {lanes[l] : l \in Lane} \cup {task[t].fence : t \in Task}
    /\ ~object[n].expired
    /\ object' = [object EXCEPT ![n].expired = TRUE]
    /\ UNCHANGED <<runtimeVars, lanes, fences>>

Mirrors(n) == {object[n].mirrors[e] : e \in Endpoint} \ {NoMirror}
Tokens(n)  == IF n = 0 THEN {} ELSE {m.grant : m \in Mirrors(n)}

\* owns: the token is that of the current object.
Owns(t) == task[t].fence # 0 /\ lanes[LaneOf(t)] = task[t].fence

----------------------------------------------------------------------------
(* open                                                                    *)

\* The entry is made before the first request; an expired one is replaced.
Opens(t) ==
    /\ At(t, "enter")
    /\ Doing(t) = "r.open"
    /\ UNCHANGED agent
    /\ LET current == lanes[LaneOf(t)]
       IN /\ current # 0 => object[current].expired
          /\ Excuses(Tokens(current))
    /\ fences < MaxFence
    /\ fences' = fences + 1
    /\ lanes' = [lanes EXCEPT ![LaneOf(t)] = fences']
    /\ object' = [object EXCEPT ![fences'].lane = LaneOf(t)]
    /\ \E S \in Current :
          task' = [task EXCEPT ![t].pc = "turn", ![t].fence = fences', ![t].todo = S]
    /\ UNCHANGED <<edge, wire>>

AlreadyActive(t) ==
    /\ At(t, "enter")
    /\ Doing(t) = "r.open"
    /\ lanes[LaneOf(t)] # 0
    /\ ~object[lanes[LaneOf(t)]].expired
    /\ UNCHANGED <<edge, agent, wire, routerVars>>
    /\ Ends(t, FALSE, 0)

ForgetBlindly(t) == lanes' = [lanes EXCEPT ![LaneOf(t)] = 0]

\* A failed open takes its own entry back, and no other.
Forget(t) == lanes' = IF Owns(t) THEN [lanes EXCEPT ![LaneOf(t)] = 0] ELSE lanes

----------------------------------------------------------------------------
(* The operations on an open lane: required, locked, and required again.   *)

AtRequire(t) ==
    /\ At(t, "enter") \/ (At(t, "lock") /\ object[task[t].fence].holder = None)
    /\ Doing(t) \in Router \ {"r.open"}

\* A token that is not the current one goes to the gateway, where no lane has
\* it, or fails in _require.
Unowned(t) ==
    /\ AtRequire(t)
    /\ ~Owns(t)
    /\ UNCHANGED <<edge, agent, wire, routerVars>>
    /\ Ends(t, FALSE, task[t].fence)

\* _require: an expired lane is forgotten, with whatever mirrors it has.
TooLate(t) ==
    /\ AtRequire(t)
    /\ Owns(t)
    /\ object[task[t].fence].expired
    /\ lanes' = [lanes EXCEPT ![LaneOf(t)] = 0]
    /\ task' = [task EXCEPT ![t] = After(t, FALSE, task[t].fence)]
    /\ UNCHANGED <<edge, agent, wire, fences, object>>
    /\ Excuses(Tokens(task[t].fence))

Require(t) ==
    /\ At(t, "enter")
    /\ Doing(t) \in Router \ {"r.open"}
    /\ Owns(t)
    /\ ~object[task[t].fence].expired
    /\ task' = [task EXCEPT ![t].pc = "lock"]
    /\ UNCHANGED <<edge, agent, wire, excused, routerVars>>

\* The mirrors over a session that is still that of its endpoint.
Reachable(n, S) == {link \in S : object[n].mirrors[link[1]].s = link[2]}
Unreachable(n, S) ==
    {e \in Endpoint : object[n].mirrors[e] # NoMirror
                      /\ <<e, object[n].mirrors[e].s>> \notin S}

\* With the lock: a read goes through the endpoints, renew and close through
\* the mirrors.  renew drops a mirror whose session is gone, and for close it
\* is unresolved.
Acquire(t) ==
    /\ At(t, "lock")
    /\ Owns(t)
    /\ UNCHANGED <<edge, agent, wire, lanes, fences>>
    /\ LET n == task[t].fence
       IN /\ object[n].holder = None
          /\ ~object[n].expired
          /\ \E S \in Current :
                CASE Doing(t) = "r.read" ->
                        /\ task' = [task EXCEPT ![t].pc = "turn", ![t].todo = S]
                        /\ object' = [object EXCEPT ![n].holder = t]
                        /\ UNCHANGED excused
                  [] Doing(t) = "r.renew" ->
                        /\ task' = [task EXCEPT ![t].pc = "turn",
                                                ![t].todo = Reachable(n, S)]
                        /\ object' = [object EXCEPT ![n].holder = t, ![n].expired = FALSE,
                              ![n].mirrors = [e \in Endpoint |->
                                  IF e \in Unreachable(n, S) THEN NoMirror ELSE @[e]]]
                        /\ Excuses({object[n].mirrors[e].grant : e \in Unreachable(n, S)})
                  [] Doing(t) = "r.close" ->
                        /\ task' = [task EXCEPT ![t].pc = "turn",
                                                ![t].todo = Reachable(n, S),
                                                ![t].failed = Unreachable(n, S) # {}]
                        /\ object' = [object EXCEPT ![n].holder = t]
                        /\ UNCHANGED excused

----------------------------------------------------------------------------
(* One endpoint or mirror after the other.                                 *)

\* The lane object t works on, without t's lock.
Released(t) ==
    IF object[task[t].fence].holder = t
    THEN [object EXCEPT ![task[t].fence].holder = None] ELSE object

Mirror(t, link) == object[task[t].fence].mirrors[link[1]]

\* _ensure_mirror and the request itself.
Turn(t) ==
    /\ At(t, "turn")
    /\ Doing(t) \in Router
    /\ \E link \in task[t].todo :
          \/ /\ Mirror(t, link).s = link[2]
             /\ Send(t, CASE Doing(t) = "r.read"  -> "read"
                          [] Doing(t) = "r.renew" -> "renew"
                          [] Doing(t) = "r.close" -> "close", link, Mirror(t, link).grant)
          \/ /\ Mirror(t, link).s # link[2]
             /\ ~object[task[t].fence].expired
             /\ Send(t, "open", link, 0)
    /\ UNCHANGED <<edge, agent, excused, routerVars>>

\* The end of an operation: lock and, for open and close, the entry.
Concludes(t, ok) ==
    /\ Ends(t, ok, task[t].fence)
    /\ object' = Released(t)
    /\ CASE Doing(t) = "r.open" /\ ~ok -> Forget(t)
         [] Doing(t) = "r.close" /\ ok -> Forget(t)
         [] OTHER -> UNCHANGED lanes
    /\ UNCHANGED fences

\* A mirror is still to be opened, and the lane has expired meanwhile.
NoTimeLeft(t) ==
    /\ At(t, "turn")
    /\ Doing(t) \in {"r.open", "r.read"}
    /\ \E link \in task[t].todo : Mirror(t, link).s # link[2]
    /\ object[task[t].fence].expired
    /\ UNCHANGED <<edge, agent, wire>>
    /\ Concludes(t, FALSE)

CloseRegardless(t) ==
    /\ At(t, "turn")
    /\ Doing(t) \in Router
    /\ task[t].todo = {}
    /\ UNCHANGED <<edge, agent, wire>>
    /\ Concludes(t, Doing(t) \in {"r.renew", "r.close"})

\* No endpoint is left: a read or an open has failed, renew has always done
\* its work, and close has unless a mirror is unresolved.
Exhausted(t) ==
    /\ At(t, "turn")
    /\ Doing(t) \in Router
    /\ task[t].todo = {}
    /\ UNCHANGED <<edge, agent, wire>>
    /\ Concludes(t, Doing(t) = "r.renew" \/ (Doing(t) = "r.close" /\ ~task[t].failed))

\* The mirror that a new one takes the place of: over a session that the
\* controller has dropped, and the agent perhaps not yet.
Replaced(t) ==
    IF Mirror(t, task[t].at).s \in Open THEN {} ELSE {Mirror(t, task[t].at).grant}

\* lane.open was answered.  A refusal ends the loop; a mirror is noted, in an
\* object that another call may have found expired and dropped meanwhile.
Mirrored(t) ==
    /\ Answered(t)
    /\ Doing(t) \in {"r.open", "r.read"}
    /\ task[t].op = "open"
    /\ task[t].ans = "ok"
    /\ object' = [object EXCEPT ![task[t].fence].given = TRUE,
                                ![task[t].fence].mirrors[task[t].at[1]] =
                                    [s |-> task[t].at[2], grant |-> task[t].got]]
    /\ UNCHANGED <<edge, agent, lanes, fences>>
    /\ Excuses(Replaced(t) \cup IF Owns(t) THEN {} ELSE {task[t].got})
    /\ \/ /\ Doing(t) = "r.open"
          /\ task' = [task EXCEPT ![t] = After(t, TRUE, task[t].fence)]
          /\ UNCHANGED wire
       \/ /\ Doing(t) = "r.read"
          /\ Send(t, "read", task[t].at, task[t].got)

NotMirrored(t) ==
    /\ Answered(t)
    /\ Doing(t) \in {"r.open", "r.read"}
    /\ task[t].op = "open"
    /\ task[t].ans = "refused"
    /\ UNCHANGED <<edge, agent, wire>>
    /\ Concludes(t, FALSE)

\* The agent's answer to a read is the caller's, an error included.
Read(t) ==
    /\ Answered(t)
    /\ task[t].op = "read"
    /\ Doing(t) = "r.read"
    /\ UNCHANGED <<edge, agent, wire>>
    /\ Concludes(t, task[t].ans = "ok")

\* On to the next endpoint or mirror; this one is dropped, or unresolved.
Onward(t, drop, failed) ==
    /\ task' = [task EXCEPT ![t].pc = "turn", ![t].todo = @ \ {task[t].at}, ![t].at = None,
                            ![t].op = "none", ![t].ans = "none", ![t].failed = @ \/ failed]
    /\ object' = IF drop THEN [object EXCEPT ![task[t].fence].mirrors[task[t].at[1]] = NoMirror]
                         ELSE object
    /\ UNCHANGED <<edge, agent, lanes, fences>>

\* renew: a mirror that is refused is dropped.
Renewed(t) ==
    /\ Answered(t)
    /\ Doing(t) = "r.renew"
    /\ Onward(t, task[t].ans = "refused", FALSE)
    /\ Excuses(IF task[t].ans = "refused" THEN {Mirror(t, task[t].at).grant} ELSE {})
    /\ UNCHANGED wire

\* close: a mirror is dropped once the agent has closed it.
Closed(t) ==
    /\ Answered(t)
    /\ Doing(t) = "r.close"
    /\ Onward(t, task[t].ans = "ok", task[t].ans = "refused")
    /\ UNCHANGED <<wire, excused>>

\* StreamClosed, or the timeout that is turned into it.
Lost(t) ==
    /\ Unanswered(t)
    /\ Doing(t) \in Router
    /\ Onward(t, Doing(t) = "r.renew", Doing(t) = "r.close")
    /\ Excuses(IF Doing(t) = "r.renew" THEN {Mirror(t, task[t].at).grant} ELSE {})

\* Any other error of the transport ends the operation at once.
Broken(t) ==
    /\ Unanswered(t)
    /\ Doing(t) \in Router
    /\ UNCHANGED <<edge, agent>>
    /\ Concludes(t, FALSE)

RouterStep(t) ==
    \/ Opens(t) \/ AlreadyActive(t) \/ Unowned(t) \/ TooLate(t) \/ Require(t) \/ Acquire(t)
    \/ Turn(t) \/ NoTimeLeft(t) \/ Exhausted(t)
    \/ Mirrored(t) \/ NotMirrored(t) \/ Read(t) \/ Renewed(t) \/ Closed(t) \/ Lost(t)
    \/ Broken(t)

=============================================================================
