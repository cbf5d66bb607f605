---------------------------- MODULE PublicFacade ----------------------------
(***************************************************************************)
(* The callers.  An operator's MCP tools (mcp_server.py) pass the lane id  *)
(* and the fencing token they are given.  PublicWorkstationFacade          *)
(* (public_gateway.py) hides both: a call opens a lane of its own, does    *)
(* one operation, and closes it; a started process keeps its lane behind   *)
(* a handle until it is released.                                          *)
(***************************************************************************)
EXTENDS ReadLanes, SequencesExt

CONSTANTS
    MaxCalls  \* bound: calls made

ASSUME CallsAssumption == MaxCalls \in Nat

VARIABLES
    calls,    \* calls made so far
    handles,  \* _processes: handles, named by their lanes
    lease,    \* ProcessLease: the fencing token of each handle's lane
    used      \* lane ids the facade has made

leases     == <<handles, lease, used>>
facadeVars == <<calls, leases>>

Do(do, lane) == [do |-> do, lane |-> lane]

Begins(t, script, fence) ==
    /\ At(t, "idle")
    /\ calls < MaxCalls
    /\ calls' = calls + 1
    /\ task' = [task EXCEPT ![t] = [Idle EXCEPT !.script = script, !.pc = "begin",
                                                !.fence = fence]]
    /\ UNCHANGED <<edge, agent, wire, excused, routerVars>>

----------------------------------------------------------------------------
(* Operators: any token that open ever returned may come back.             *)

lane_open(t) == Begins(t, <<Do("r.open", Shared)>>, 0) /\ UNCHANGED leases

lane_operation(t) ==
    /\ \E do \in Router \ {"r.open"}, n \in Fence :
          /\ object[n].given
          /\ object[n].lane = Shared
          /\ Begins(t, <<Do(do, Shared)>>, n)
    /\ UNCHANGED leases

\* The service ends.
shutdown(t) == Begins(t, <<Do("shutdown", Shared)>>, 0) /\ UNCHANGED leases

----------------------------------------------------------------------------
(* The facade                                                              *)

FreshUnnoted(l) == l \in Private \ used /\ UNCHANGED used

Fresh(l) == l \in Private \ used /\ used' = used \cup {l}

\* _ephemeral: the operation between the lane's opening and its closing.
ephemeral(t, opens, does, closes) ==
    /\ \E l \in Private :
          /\ Fresh(l)
          /\ Begins(t, <<Do(opens, l), Do(does, l), Do(closes, l)>>, 0)
    /\ UNCHANGED <<handles, lease>>

\* list_directory, read_file, search and the others: a lane of the router.
read_call(t) == ephemeral(t, "r.open", "r.read", "r.close")

\* write_file, move_file and the others: a lane of the gateway.
write_call(t) == ephemeral(t, "open", "call", "close")

start_process(t) ==
    /\ \E l \in Private :
          /\ Fresh(l)
          /\ Begins(t, <<Do("open", l), Do("start", l)>>, 0)
    /\ UNCHANGED <<handles, lease>>

\* process_status, process_input, terminate_process and the others.
process_operation(t) ==
    /\ \E l \in handles, do \in {"status", "input"} : Begins(t, <<Do(do, l)>>, 0)
    /\ UNCHANGED leases

release_process(t) ==
    /\ \E l \in handles : Begins(t, <<Do("release", l)>>, 0)
    /\ UNCHANGED leases

\* close: the handles of now, one after the other.
drain(t) ==
    /\ handles # {}
    /\ Begins(t, [i \in 1..Cardinality(handles) |-> Do("release", SetToSeq(handles)[i])], 0)
    /\ UNCHANGED leases

\* _lease comes first: a handle that somebody else has released raises, and
\* in close the handles after it stay.
Leased(t) == Doing(t) \in {"status", "input", "release"} => LaneOf(t) \in handles

HandleGone(t) ==
    /\ At(t, "begin")
    /\ ~Leased(t)
    /\ task' = [task EXCEPT ![t] = [Idle EXCEPT !.raised = TRUE]]
    /\ UNCHANGED <<edge, agent, wire, excused, routerVars, facadeVars>>

----------------------------------------------------------------------------
(* The gateway's request.  HotSessionPool.request sends it over the best   *)
(* path; sessions differ, so a mutation that is lost is not sent again,    *)
(* and a read is, over every path in turn.                                 *)

Operation == [open |-> "open", call |-> "call", start |-> "call", status |-> "read",
              input |-> "call", close |-> "close", release |-> "close"]

Token(t) ==
    IF Doing(t) \in {"status", "input", "release"} THEN lease[LaneOf(t)] ELSE task[t].fence

\* The paths of now, those that are usable: one of them is asked.
Call(t) ==
    /\ At(t, "enter")
    /\ Doing(t) \in Gateway
    /\ \E S \in SUBSET {<<e, pool[e]>> : e \in Endpoint} : \E link \in S :
          /\ \A l \in S : l[2] # 0
          /\ wire' = Sent(t, Operation[Doing(t)], link, Token(t))
          /\ task' = [task EXCEPT ![t] = [Asks(t, Operation[Doing(t)], link) EXCEPT !.todo = S]]
          /\ Doing(t) # "status" => S = {link}
    /\ UNCHANGED <<edge, agent, excused, routerVars, facadeVars>>

\* An operation that is not allowed, or no usable path: nothing is sent.
NotSent(t) ==
    /\ At(t, "enter")
    /\ Doing(t) \in Gateway
    /\ UNCHANGED <<edge, agent, wire, routerVars, facadeVars>>
    /\ Ends(t, FALSE, task[t].fence)

\* A read that was lost goes out again, until no path is left.
Again(t) ==
    /\ At(t, "turn")
    /\ Doing(t) = "status"
    /\ \E link \in task[t].todo : Send(t, "read", link, Token(t))
    /\ UNCHANGED <<edge, agent, excused, routerVars, facadeVars>>

NothingLeft(t) ==
    /\ At(t, "turn")
    /\ Doing(t) = "status"
    /\ task[t].todo = {}
    /\ UNCHANGED <<edge, agent, wire, routerVars, facadeVars>>
    /\ Ends(t, FALSE, task[t].fence)

\* The answer: a lane's token, a process behind a new handle, a lane closed.
Return(t) ==
    /\ Answered(t)
    /\ Doing(t) \in Gateway
    /\ UNCHANGED <<edge, agent, wire, routerVars, calls, used>>
    /\ LET ok == task[t].ans = "ok"
       IN /\ Ends(t, ok, IF Doing(t) = "open" THEN task[t].got ELSE task[t].fence)
          /\ handles' = CASE Doing(t) = "start" /\ ok   -> handles \cup {LaneOf(t)}
                          [] Doing(t) = "release" /\ ok -> handles \ {LaneOf(t)}
                          [] OTHER -> handles
          /\ lease' = IF Doing(t) = "start" /\ ok THEN [lease EXCEPT ![LaneOf(t)] = task[t].fence]
                                               ELSE lease

\* StreamClosed takes a read to the next path; whatever else is unanswered
\* ends the call.
GaveUp(t) ==
    /\ Unanswered(t)
    /\ Doing(t) \in Gateway
    /\ UNCHANGED <<edge, agent, routerVars, facadeVars>>
    /\ \/ /\ Doing(t) = "status"
          /\ task' = [task EXCEPT ![t].pc = "turn", ![t].op = "none",
                                  ![t].todo = @ \ {task[t].at}, ![t].at = None]
          /\ UNCHANGED excused
       \/ Ends(t, FALSE, task[t].fence)

\* The caller is cancelled at an await: locks are let go, a finally clause
\* closes the lane, start_process has none, and nobody learns what was opened.
Cancel(t) ==
    /\ ~At(t, "idle")
    /\ UNCHANGED <<edge, agent, lanes, fences, facadeVars>>
    /\ LET s == task[t]
           rest == Tail(s.script)
           closes == Doing(t) \in {"call", "r.read"} /\ rest # <<>>
       IN /\ task' = [task EXCEPT ![t] =
                          IF closes THEN [Idle EXCEPT !.script = rest, !.pc = "begin",
                                                      !.fence = s.fence]
                                    ELSE Idle]
          /\ Excuses({s.got} \cup IF Doing(t) \in {"start", "close"} THEN {s.fence} ELSE {})
    /\ object' = IF task[t].fence # 0 /\ Doing(t) \in Router THEN Released(t) ELSE object
    /\ wire' = Leaves(t)

CallStep(t) == HandleGone(t) \/ Call(t) \/ NotSent(t) \/ Again(t) \/ NothingLeft(t) \/ Return(t) \/ GaveUp(t)

=============================================================================
