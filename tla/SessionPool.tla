----------------------------- MODULE SessionPool -----------------------------
(***************************************************************************)
(* The controller's side of a request: HotSessionPool.request              *)
(* (controller.py) picks the best current path (synchrony.py), and after a *)
(* transport loss decides whether the request may go out again.            *)
(*                                                                         *)
(* All endpoints of a route lead to one workstation agent.  A request that *)
(* was sent may be lost, or be served at any later time, even when the     *)
(* controller has given up on it and sent it again elsewhere.  The agent   *)
(* is reduced to what a request meets there: the ledger of MutationLedger  *)
(* if it keeps one, and an effect.                                         *)
(***************************************************************************)
EXTENDS Naturals, FiniteSets

CONSTANTS
    Call,      \* requests, each with its own request_id
    Endpoint,  \* session endpoints: a reconnect makes a new one
    Mode,      \* PathMode of each: 0 direct, 1 edge, 2 relay
    Session,   \* application sessions
    None       \* no session, no endpoint

VARIABLES
    mutating,  \* the operation of each call is in _MUTATING_OPERATIONS
    ledger,    \* the agent keeps a durable ledger
    durable,   \* durable_idempotency, as configured for each endpoint
    binding,   \* binding.session_id of each endpoint
    pool,      \* "new", "live" (registered, channel open) or "gone"
    call,      \* the requests under way
    wire,      \* <<call, endpoint>>: sent, not yet served or lost
    replies,   \* <<call, endpoint, code>> on their way back
    rows,      \* the ledger: call |-> the session that first presented it
    runs       \* history: how often each call took effect

config == <<mutating, ledger, durable, binding>>
vars   == <<config, pool, call, wire, replies, rows, runs>>

ASSUME ModeAssumption == Mode \in [Endpoint -> 0..2]

Reply   == {"RESULT", "REQUEST_OUTCOME_UNKNOWN", "IDEMPOTENCY_CONFLICT", "SESSION_EXPIRED"}
Failure == {"NO_CURRENT_PATH", "AMBIGUOUS_DELIVERY", "STREAM_CLOSED", "OTHER_ERROR"}

ASSUME NoneAssumption == None \notin Session \cup Endpoint \cup Reply \cup Failure

State == [pc        : {"idle", "select", "sent", "done"},
          current   : SUBSET Endpoint,   \* candidates
          usable    : SUBSET Endpoint,   \* those select_path does not reject
          attempted : SUBSET Endpoint,
          at        : Endpoint \cup {None},
          retry     : Session \cup {None},   \* mutation_retry_session_id
          lost      : BOOLEAN,               \* last_error is set
          outcome   : Reply \cup Failure \cup {None}]

Idle == [pc |-> "idle", current |-> {}, usable |-> {}, attempted |-> {},
         at |-> None, retry |-> None, lost |-> FALSE, outcome |-> None]

Live == {e \in Endpoint : pool[e] = "live"}

----------------------------------------------------------------------------
(* HotSessionPool                                                          *)

register(e) ==
    /\ pool[e] = "new"
    /\ pool' = [pool EXCEPT ![e] = "live"]
    /\ UNCHANGED <<config, call, wire, replies, rows, runs>>

\* remove, and the channel is closed: what it carried may still arrive.
remove(e) ==
    /\ pool[e] = "live"
    /\ pool' = [pool EXCEPT ![e] = "gone"]
    /\ UNCHANGED <<config, call, wire, replies, rows, runs>>

\* request reads the pool and the clock once: which endpoints are unexpired,
\* and which paths are healthy and recently observed, is settled here.
Begin(c) ==
    /\ call[c].pc = "idle"
    /\ \E current \in SUBSET Live : \E usable \in SUBSET current :
          call' = [call EXCEPT ![c].pc = "select", ![c].current = current,
                               ![c].usable = usable]
    /\ UNCHANGED <<config, pool, wire, replies, rows, runs>>

Finish(c, outcome) ==
    call' = [call EXCEPT ![c].pc = "done", ![c].outcome = outcome]

\* A path for a mutation that was already sent under session s.
Equivalent(e, s) == binding[e] = s /\ durable[e]

\* remaining, as select_path filters it.
Choices(c) ==
    {e \in call[c].usable \ call[c].attempted :
        call[c].retry = None \/ Equivalent(e, call[c].retry)}

AttemptForgetting(c) ==
    /\ call[c].pc = "select"
    /\ \E e \in Choices(c) :
          /\ call' = [call EXCEPT ![c].pc = "sent", ![c].at = e]
          /\ wire' = IF pool[e] = "live" THEN wire \cup {<<c, e>>} ELSE wire
    /\ UNCHANGED <<config, pool, replies, rows, runs>>

\* select_path: the most direct mode, ties broken by round-trip time.
Attempt(c) ==
    /\ call[c].pc = "select"
    /\ \E e \in Choices(c) :
          /\ \A x \in Choices(c) : Mode[e] <= Mode[x]
          /\ call' = [call EXCEPT ![c].pc = "sent", ![c].at = e,
                                  ![c].attempted = @ \cup {e}]
          /\ wire' = IF pool[e] = "live" THEN wire \cup {<<c, e>>} ELSE wire
    /\ UNCHANGED <<config, pool, replies, rows, runs>>

NothingLeftForgetting(c) ==
    /\ call[c].pc = "select"
    /\ Choices(c) = {}
    /\ Finish(c, "NO_CURRENT_PATH")
    /\ UNCHANGED <<config, pool, wire, replies, rows, runs>>

\* decision.selected is None: last_error if there is one.
NothingLeft(c) ==
    /\ call[c].pc = "select"
    /\ Choices(c) = {}
    /\ Finish(c, IF call[c].lost THEN "STREAM_CLOSED" ELSE "NO_CURRENT_PATH")
    /\ UNCHANGED <<config, pool, wire, replies, rows, runs>>

\* compatible: another endpoint the mutation could be sent to again.
Compatible(c) ==
    /\ durable[call[c].at]
    /\ \E e \in call[c].current \ call[c].attempted : Equivalent(e, binding[call[c].at])

LoseRetryingAnything(c) ==
    /\ call[c].pc = "sent"
    /\ call' = [call EXCEPT ![c].pc = "select", ![c].lost = TRUE]
    /\ UNCHANGED <<config, pool, wire, replies, rows, runs>>

LoseRetryingAnySession(c) ==
    /\ call[c].pc = "sent"
    /\ \/ /\ mutating[c] /\ ~durable[call[c].at]
          /\ Finish(c, "AMBIGUOUS_DELIVERY")
       \/ /\ ~mutating[c] \/ durable[call[c].at]
          /\ call' = [call EXCEPT ![c].pc = "select", ![c].lost = TRUE]
    /\ UNCHANGED <<config, pool, wire, replies, rows, runs>>

LoseGivingUp(c) ==
    /\ call[c].pc = "sent"
    /\ Finish(c, IF mutating[c] THEN "AMBIGUOUS_DELIVERY" ELSE "STREAM_CLOSED")
    /\ UNCHANGED <<config, pool, wire, replies, rows, runs>>

\* StreamClosed or a timeout.
Lose(c) ==
    /\ call[c].pc = "sent"
    /\ \/ /\ mutating[c] /\ ~Compatible(c)
          /\ Finish(c, "AMBIGUOUS_DELIVERY")
       \/ /\ mutating[c] /\ Compatible(c)
          /\ call' = [call EXCEPT ![c].pc = "select", ![c].lost = TRUE,
                                  ![c].retry = binding[call[c].at]]
       \/ /\ ~mutating[c]
          /\ call' = [call EXCEPT ![c].pc = "select", ![c].lost = TRUE]
    /\ UNCHANGED <<config, pool, wire, replies, rows, runs>>

\* Any other exception of the channel passes through: a reset connection, a
\* malformed frame, a duplicate request_id.
Break(c) ==
    /\ call[c].pc = "sent"
    /\ Finish(c, "OTHER_ERROR")
    /\ UNCHANGED <<config, pool, wire, replies, rows, runs>>

Return(c) ==
    /\ call[c].pc = "sent"
    /\ \E code \in Reply : <<c, call[c].at, code>> \in replies /\ Finish(c, code)
    /\ UNCHANGED <<config, pool, wire, replies, rows, runs>>

----------------------------------------------------------------------------
(* The network and the agent                                               *)

Drop(c, e) ==
    /\ <<c, e>> \in wire
    /\ wire' = wire \ {<<c, e>>}
    /\ UNCHANGED <<config, pool, call, replies, rows, runs>>

\* The reply matters only to a call that still waits on this endpoint.
Answer(c, e, code) ==
    /\ wire' = wire \ {<<c, e>>}
    /\ replies' = IF call[c].pc = "sent" /\ call[c].at = e
                  THEN replies \cup {<<c, e, code>>} ELSE replies

\* SessionBoundHandler: the session ran out on the way.
Expire(c, e) ==
    /\ <<c, e>> \in wire
    /\ Answer(c, e, "SESSION_EXPIRED")
    /\ UNCHANGED <<config, pool, call, rows, runs>>

\* A read, or an agent without a ledger, or a request the ledger has not seen.
Execute(c, e) ==
    /\ <<c, e>> \in wire
    /\ mutating[c] /\ ledger => rows[c] = None
    /\ rows' = IF mutating[c] /\ ledger THEN [rows EXCEPT ![c] = binding[e]] ELSE rows
    /\ runs' = [runs EXCEPT ![c] = @ + 1]
    /\ Answer(c, e, "RESULT")
    /\ UNCHANGED <<config, pool, call>>

\* The ledger has it: replayed, or still pending, or, from another session, of
\* another content.
Recognise(c, e) ==
    /\ <<c, e>> \in wire
    /\ mutating[c] /\ ledger
    /\ rows[c] # None
    /\ \E code \in (IF rows[c] = binding[e] THEN {"RESULT", "REQUEST_OUTCOME_UNKNOWN"}
                                            ELSE {"IDEMPOTENCY_CONFLICT"}) :
          Answer(c, e, code)
    /\ UNCHANGED <<config, pool, call, rows, runs>>

----------------------------------------------------------------------------
Init ==
    /\ mutating \in [Call -> BOOLEAN]
    /\ ledger \in BOOLEAN
    /\ durable \in [Endpoint -> BOOLEAN]
    /\ \A e \in Endpoint : durable[e] => ledger   \* the configuration is true
    /\ binding \in [Endpoint -> Session]
    /\ pool = [e \in Endpoint |-> "new"]
    /\ call = [c \in Call |-> Idle]
    /\ wire = {}
    /\ replies = {}
    /\ rows = [c \in Call |-> None]
    /\ runs = [c \in Call |-> 0]

Progress(c) ==
    Attempt(c) \/ NothingLeft(c) \/ Lose(c) \/ Break(c) \/ Return(c)

Next ==
    \/ \E e \in Endpoint : register(e) \/ remove(e)
    \/ \E c \in Call : Begin(c) \/ Progress(c)
    \/ \E c \in Call, e \in Endpoint :
          Drop(c, e) \/ Expire(c, e) \/ Execute(c, e) \/ Recognise(c, e)

\* request_timeout_s ends every wait.
Spec == Init /\ [][Next]_vars /\ \A c \in Call : WF_vars(Progress(c))

----------------------------------------------------------------------------
(* Properties                                                              *)

\* The calls, the wire and the agent keep their types.
TypeOK ==
    /\ mutating \in [Call -> BOOLEAN]
    /\ ledger \in BOOLEAN
    /\ durable \in [Endpoint -> BOOLEAN]
    /\ binding \in [Endpoint -> Session]
    /\ pool \in [Endpoint -> {"new", "live", "gone"}]
    /\ call \in [Call -> State]
    /\ wire \subseteq Call \X Endpoint
    /\ replies \subseteq Call \X Endpoint \X Reply
    /\ rows \in [Call -> Session \cup {None}]
    /\ runs \in [Call -> Nat]

\* No mutation takes effect twice, however late the first copy is served.
MutationAtMostOnce == \A c \in Call : mutating[c] => runs[c] <= 1

\* The controller's own retry is never mistaken for another request: a call is
\* not told of a conflict with itself.
NoConflictWithItself ==
    \A c \in Call : call[c].outcome # "IDEMPOTENCY_CONFLICT"

\* NO_CURRENT_PATH is a promise that nothing happened and nothing will.
NoPathMeansNotSent ==
    \A c \in Call : call[c].outcome = "NO_CURRENT_PATH" =>
        runs[c] = 0 /\ \A e \in Endpoint : <<c, e>> \notin wire

\* A read gives up on transport loss only when every usable path was tried.
ReadsTryEveryPath ==
    \A c \in Call :
        ~mutating[c] /\ call[c].outcome = "STREAM_CLOSED" => call[c].usable \subseteq call[c].attempted

\* A request ends, with at most one attempt per endpoint.
RequestsEnd == \A c \in Call : (call[c].pc # "idle") ~> (call[c].pc = "done")

\* controller-routing-profile.md: without the protection for a retry "the result
\* is AMBIGUOUS_DELIVERY": a mutation that lost its stream never ends in a plain
\* transport error, which tells the caller nothing of a possible effect.
LostMutationIsAmbiguous ==
    \A c \in Call : mutating[c] => call[c].outcome # "STREAM_CLOSED"

=============================================================================
