-------------------------- MODULE ControllerLanes --------------------------
(***************************************************************************)
(* Operators and the public facade over one controller runtime: the        *)
(* composition of ControllerRuntime, ReadLanes and PublicFacade.           *)
(***************************************************************************)
EXTENDS PublicFacade

CONSTANTS
    Crews      \* which callers may be the operators; the others use the facade

VARIABLES
    operator   \* which are

vars == <<runtimeVars, routerVars, facadeVars, operator>>

Init ==
    /\ operator \in Crews
    /\ live = [e \in Endpoint |-> 0] /\ pool = live /\ made = 0
    /\ held = {} /\ granted = 0 /\ wire = {} /\ excused = {}
    /\ task = [t \in Task |-> Idle]
    /\ lanes = [l \in Lane |-> 0] /\ fences = 0
    /\ object = [n \in Fence |-> [lane |-> Shared, mirrors |-> [e \in Endpoint |-> NoMirror],
                                  expired |-> FALSE, given |-> FALSE, holder |-> None]]
    /\ calls = 0 /\ handles = {} /\ lease = [l \in Private |-> 0] /\ used = {}

Calls(t) ==
    \/ shutdown(t)
    \/ t \in operator /\ (lane_open(t) \/ lane_operation(t))
    \/ t \notin operator /\ (read_call(t) \/ write_call(t) \/ start_process(t) \/ process_operation(t)
                             \/ release_process(t) \/ drain(t))

RuntimeStep(t) ==
    /\ At(t, "begin") /\ Leased(t)
    /\ ensure_started(t) \/ NotStarted(t) \/ Shutdown(t)
    /\ UNCHANGED <<routerVars, facadeVars>>

Steps(t) ==
    \/ RuntimeStep(t)
    \/ RouterStep(t) /\ UNCHANGED facadeVars
    \/ CallStep(t)

World ==
    /\ \/ \E h \in held : LaneEnds(h)
       \/ \E m \in wire : Serve(m)
       \/ \E s \in 1..made : SessionEnds(s)
    /\ UNCHANGED <<routerVars, facadeVars>>

Next ==
    /\ \/ \E t \in Task : Calls(t) \/ Steps(t) \/ Cancel(t)
       \/ \E n \in Fence : Expire(n) /\ UNCHANGED facadeVars
       \/ World
    /\ UNCHANGED operator

Spec == Init /\ [][Next]_vars

----------------------------------------------------------------------------
(* What is checked.                                                        *)

TypeOK ==
    /\ live \in [Endpoint -> 0..MaxSession] /\ pool \in [Endpoint -> 0..MaxSession]
    /\ made \in 0..MaxSession
    /\ held \subseteq [lane : Lane, s : Session, grant : Grant]
    /\ granted \in 0..MaxGrant /\ excused \subseteq Grant
    /\ task \in [Task -> State(0..MaxFence \cup 0..MaxGrant)]
    /\ lanes \in [Lane -> 0..MaxFence] /\ fences \in 0..MaxFence
    /\ object \in [Fence -> Object]
    /\ calls \in 0..MaxCalls /\ used \subseteq Private /\ handles \subseteq used
    /\ lease \in [Private -> 0..MaxGrant]

\* Who answers for a lane the agent holds: a mirror of the current object, a
\* handle, a call that works on it, or one the answer has just reached.
Accounted(h) ==
    \/ lanes[h.lane] # 0 /\ h.grant \in Tokens(lanes[h.lane])
    \/ h.lane \in handles /\ lease[h.lane] = h.grant
    \/ \E t \in Task : /\ ~At(t, "idle")
                       /\ LaneOf(t) = h.lane
                       /\ \/ Doing(t) \in {"call", "start", "close"} /\ task[t].fence = h.grant
                          \/ At(t, "wait") /\ task[t].got = h.grant

\* The controller loses track of a lane on the agent only where it cannot help
\* it or says so: the answer to lane.open was lost, the lane had expired, a
\* renewal dropped the mirror, the caller was cancelled, or it was told that
\* the lane is not closed; and where it has dropped the lane's session, and a
\* read then put a mirror over a new one in the place of the old.  Except for
\* such a lane, which the agent has until it ends the session or the lease is
\* over, a close that reports success leaves nothing.
NoSilentLeftover == \A h \in held : h.grant \in excused \/ Accounted(h)

\* A call whose operation succeeded is reported as such, whatever became of
\* its lane afterwards: no caller is invited to repeat a mutation.
SuccessStands == [][\A t \in Task : task[t].did => ~task'[t].raised]_vars

\* A logical lane is taken off the table by its own expiry, its own close or
\* its own failed open; a call that outlived its lane leaves the successor be.
SuccessorKept ==
    [][\A l \in Lane : lanes[l] # 0 /\ lanes'[l] # lanes[l] =>
          \/ object[lanes[l]].expired
          \/ \E t \in Task : ~At(t, "idle") /\ task[t].fence = lanes[l] /\ task'[t] # task[t]]_vars

=============================================================================
