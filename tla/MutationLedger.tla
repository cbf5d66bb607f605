--------------------------- MODULE MutationLedger ---------------------------
(***************************************************************************)
(* One durable mutation from the session handler to its reply:             *)
(*   - SessionBoundHandler (runtime.py) names the request for the agent,   *)
(*   - VeraPortAgent.handle (protocol.py) admits it in the ledger, runs it *)
(*     and records the response,                                           *)
(*   - AgentStateStore (state.py) is the ledger, one SQLite transaction    *)
(*     per call.                                                           *)
(* A task is one call of the handler.  It awaits between admission and     *)
(* running, and the process may die between any two of its steps, so each  *)
(* step is an action; the ledger survives, tasks and sessions do not.      *)
(***************************************************************************)
EXTENDS Naturals, FiniteSets, Sequences

CONSTANTS
    Principal,    \* controllers
    Session,      \* application sessions, a new one per handshake
    PrincipalOf,  \* the controller each session is bound to
    RequestId,    \* request ids as the controller spells them
    Body,         \* the rest of the request, its own lane_id included
    Task,         \* handler calls (bounds the model: each runs once)
    MaxRequests,  \* max_mutation_requests
    None          \* no row, no response

VARIABLES
    session,   \* "fresh", "open" or "gone"
    requests,  \* the ledger: key |-> row
    task,      \* the handler calls
    ran,       \* history: key |-> the contents executed under it, in order
    answers    \* history: what each call returned

vars == <<session, requests, task, ran, answers>>

ASSUME SessionAssumption == PrincipalOf \in [Session -> Principal]
ASSUME MaxAssumption     == MaxRequests \in Nat \ {0}

Request  == [session : Session, id : RequestId, body : Body]
Key      == Principal \X RequestId
Content  == Session \X Body
Response == [by : Task, ok : BOOLEAN]

PENDING   == "PENDING"
COMPLETED == "COMPLETED"

Row == [sha : Content, status : {PENDING, COMPLETED}, response : Response \cup {None}]

\* Where a handler call stands.
Step == {"idle", "dispatch", "complete", "reply", "lost", "done"}

ErrorCode == {"SESSION_EXPIRED", "REQUEST_LEDGER_CAPACITY_EXCEEDED",
              "IDEMPOTENCY_CONFLICT", "REQUEST_OUTCOME_UNKNOWN",
              "STATE_STORE_ERROR"}
Code      == ErrorCode \cup {"RESULT", "REPLAY"}

Call == [pc : Step, req : Request \cup {None}, code : Code \cup {None},
         response : Response \cup {None}]

Idle == [pc |-> "idle", req |-> None, code |-> None, response |-> None]

ASSUME NoneAssumption == None \notin Row \cup Request \cup Response \cup Code

----------------------------------------------------------------------------
(* Names                                                                   *)

\* internal["request_id"]: prefixed by the controller, not by the session.
RequestKey(req) == <<PrincipalOf[req.session], req.id>>

\* _request_sha256 of the internal request.  Its lane_id is prefixed by the
\* session, and every durable mutation names a lane.
_request_sha256(req) == <<req.session, req.body>>

----------------------------------------------------------------------------
(* The call's steps                                                        *)

Recorded == {k \in Key : requests[k] # None}

\* A task's next step, with the answer it will give if it is already known.
Goto(t, req, pc, code, response) ==
    task' = [task EXCEPT ![t] = [pc |-> pc, req |-> req, code |-> code,
                                 response |-> response]]

\* The handler refuses, or begin_request raises and rolls back.
Refuse(t, req, code) ==
    /\ Goto(t, req, "reply", code, None)
    /\ UNCHANGED <<session, requests, ran, answers>>

Arrives(t, req) == task[t].pc = "idle" /\ session[req.session] # "fresh"

\* A session that is over, its socket still open: rejected before the agent.
RejectExpired(t, req) ==
    /\ Arrives(t, req)
    /\ session[req.session] = "gone"
    /\ Refuse(t, req, "SESSION_EXPIRED")

\* begin_request: NEW.
Admit(t, req) ==
    /\ Arrives(t, req)
    /\ session[req.session] = "open"
    /\ requests[RequestKey(req)] = None
    /\ Cardinality(Recorded) < MaxRequests
    /\ requests' = [requests EXCEPT ![RequestKey(req)] =
                       [sha |-> _request_sha256(req), status |-> PENDING, response |-> None]]
    /\ Goto(t, req, "dispatch", None, None)
    /\ UNCHANGED <<session, ran, answers>>

\* begin_request: the ledger is full, or SQLite failed.
AdmitFails(t, req) ==
    /\ Arrives(t, req)
    /\ session[req.session] = "open"
    /\ \/ /\ requests[RequestKey(req)] = None
          /\ Cardinality(Recorded) >= MaxRequests
          /\ Refuse(t, req, "REQUEST_LEDGER_CAPACITY_EXCEEDED")
       \/ Refuse(t, req, "STATE_STORE_ERROR")

MeetIgnoringSha(t, req) ==
    LET row == requests[RequestKey(req)]
    IN  /\ Arrives(t, req)
        /\ session[req.session] = "open"
        /\ row # None
        /\ \/ /\ row.status = COMPLETED
              /\ Goto(t, req, "reply", "REPLAY", row.response)
              /\ UNCHANGED <<session, requests, ran, answers>>
           \/ /\ row.status = PENDING
              /\ Refuse(t, req, "REQUEST_OUTCOME_UNKNOWN")

MeetRetryingPending(t, req) ==
    LET row == requests[RequestKey(req)]
    IN  /\ Arrives(t, req)
        /\ session[req.session] = "open"
        /\ row # None
        /\ row.sha = _request_sha256(req)
        /\ \/ /\ row.status = COMPLETED
              /\ Goto(t, req, "reply", "REPLAY", row.response)
           \/ /\ row.status = PENDING
              /\ Goto(t, req, "dispatch", None, None)
        /\ UNCHANGED <<session, requests, ran, answers>>

\* begin_request: the key is recorded.  Another content conflicts, a completed
\* request is replayed, a pending one has an unknown outcome.
MeetRecorded(t, req) ==
    LET row == requests[RequestKey(req)]
    IN  /\ Arrives(t, req)
        /\ session[req.session] = "open"
        /\ row # None
        /\ \/ /\ row.sha # _request_sha256(req)
              /\ Refuse(t, req, "IDEMPOTENCY_CONFLICT")
           \/ /\ row.sha = _request_sha256(req)
              /\ row.status = COMPLETED
              /\ Goto(t, req, "reply", "REPLAY", row.response)
              /\ UNCHANGED <<session, requests, ran, answers>>
           \/ /\ row.sha = _request_sha256(req)
              /\ row.status = PENDING
              /\ Refuse(t, req, "REQUEST_OUTCOME_UNKNOWN")

\* _dispatch ran, and returned or raised: either way there is a response.
_dispatch(t) ==
    LET req == task[t].req
    IN  /\ task[t].pc = "dispatch"
        /\ ran' = [ran EXCEPT ![RequestKey(req)] = Append(@, _request_sha256(req))]
        /\ \E ok \in BOOLEAN :
              Goto(t, req, "complete", "RESULT", [by |-> t, ok |-> ok])
        /\ UNCHANGED <<session, requests, answers>>

\* complete_request finds no row, another content, or another response there.
Unrecordable(t) ==
    LET row == requests[RequestKey(task[t].req)]
    IN  \/ row = None
        \/ row.sha # _request_sha256(task[t].req)
        \/ row.status = COMPLETED /\ row.response # task[t].response

\* complete_request: the response is durable before it is returned.
complete_request(t) ==
    LET req == task[t].req
    IN  /\ task[t].pc = "complete"
        /\ ~Unrecordable(t)
        /\ requests' = [requests EXCEPT ![RequestKey(req)].status = COMPLETED,
                                        ![RequestKey(req)].response = task[t].response]
        /\ Goto(t, req, "reply", "RESULT", task[t].response)
        /\ UNCHANGED <<session, ran, answers>>

\* complete_request raises: the mutation ran, its row stays as it is, and the
\* caller is given an error in place of the response.
CompleteFails(t) ==
    /\ task[t].pc = "complete"
    /\ Refuse(t, task[t].req, "STATE_STORE_ERROR")

Reply(t) ==
    /\ task[t].pc = "reply"
    /\ answers' = answers \cup {[req |-> task[t].req, code |-> task[t].code,
                                 response |-> task[t].response]}
    /\ task' = [task EXCEPT ![t].pc = "done"]
    /\ UNCHANGED <<session, requests, ran>>

----------------------------------------------------------------------------
(* Sessions and the agent process                                          *)

Connect(s) ==
    /\ session[s] = "fresh"
    /\ session' = [session EXCEPT ![s] = "open"]
    /\ UNCHANGED <<requests, task, ran, answers>>

\* The session expires or its stream closes: the calls it admitted go on.
Disconnect(s) ==
    /\ session[s] = "open"
    /\ session' = [session EXCEPT ![s] = "gone"]
    /\ UNCHANGED <<requests, task, ran, answers>>

\* The agent dies: calls under way are lost, and so is every session.
Crash ==
    /\ session' = [s \in Session |-> IF session[s] = "open" THEN "gone" ELSE session[s]]
    /\ task' = [t \in Task |-> IF task[t].pc \in {"dispatch", "complete", "reply"}
                               THEN [task[t] EXCEPT !.pc = "lost"] ELSE task[t]]
    /\ UNCHANGED <<requests, ran, answers>>

Init ==
    /\ session = [s \in Session |-> "fresh"]
    /\ requests = [k \in Key |-> None]
    /\ task = [t \in Task |-> Idle]
    /\ ran = [k \in Key |-> <<>>]
    /\ answers = {}

Next ==
    \/ \E t \in Task, req \in Request :
          \/ RejectExpired(t, req)
          \/ Admit(t, req)
          \/ AdmitFails(t, req)
          \/ MeetRecorded(t, req)
    \/ \E t \in Task :
          \/ _dispatch(t)
          \/ complete_request(t)
          \/ CompleteFails(t)
          \/ Reply(t)
    \/ \E s \in Session : Connect(s) \/ Disconnect(s)
    \/ Crash

Spec == Init /\ [][Next]_vars

----------------------------------------------------------------------------
(* Properties                                                              *)

\* The ledger, the calls and the histories keep their types.
TypeOK ==
    /\ session \in [Session -> {"fresh", "open", "gone"}]
    /\ requests \in [Key -> Row \cup {None}]
    /\ task \in [Task -> Call]
    /\ ran \in [Key -> Seq(Content)]
    /\ answers \subseteq [req : Request, code : Code, response : Response \cup {None}]
    /\ \A t \in Task : task[t].pc # "idle" => task[t].req \in Request
    /\ \A t \in Task : task[t].pc = "reply" => task[t].code \in Code

\* No mutation runs twice under one request key: not by a resend, not by two
\* calls at once, not after a crash.
AtMostOnce == \A k \in Key : Len(ran[k]) <= 1

\* A mutation that ran has its row: the ledger is written ahead, so a crash
\* cannot leave an effect without evidence of it.
RecordedBeforeRun == \A k \in Key : ran[k] # <<>> => requests[k] # None

\* A caller that is given a response is given the recorded response of the one
\* execution of exactly its own request: its principal, session and body.
AnswersAreTheExecution ==
    \A a \in answers : a.response # None =>
        LET k == RequestKey(a.req)
        IN  /\ ran[k] = <<_request_sha256(a.req)>>
            /\ requests[k] # None
            /\ requests[k].status = COMPLETED
            /\ requests[k].response = a.response

\* The error branches of complete_request are unreachable: the call that comes
\* to complete still finds its own pending row.
CompletionNeverConflicts ==
    \A t \in Task : task[t].pc = "complete" =>
        ~Unrecordable(t) /\ requests[RequestKey(task[t].req)].status = PENDING

\* max_mutation_requests bounds the ledger.
LedgerBounded == Cardinality(Recorded) <= MaxRequests

\* A row is never forgotten, never given to another content, and once completed
\* never changes.
RowsAreForever ==
    [][\A k \in Recorded :
          /\ requests'[k] # None
          /\ requests'[k].sha = requests[k].sha
          /\ requests[k].status = COMPLETED => requests'[k] = requests[k]]_vars

\* runtime.py: "exact request IDs retain durable idempotency across direct/edge
\* path changes": a resend of the same id and body by the same controller is
\* not taken for another request.
ResendIsRecognised ==
    \A a \in answers : a.code = "IDEMPOTENCY_CONFLICT" =>
        requests[RequestKey(a.req)].sha[2] # a.req.body

----------------------------------------------------------------------------
(* The ledger implements the abstract promise                              *)

Phase == [k \in Key |-> IF requests[k] = None THEN "new"
                        ELSE IF requests[k].status = COMPLETED THEN "settled"
                        ELSE IF ran[k] = <<>> THEN "claimed" ELSE "ran"]
Owner == [k \in Key |-> IF requests[k] = None THEN None ELSE requests[k].sha]
Settled == [k \in Key |-> IF requests[k] = None THEN None ELSE requests[k].response]
Told == {<<RequestKey(a.req), _request_sha256(a.req), a.response>> :
            a \in {b \in answers : b.response # None}}

Once == INSTANCE OnceExecution WITH
            Key <- Key, Content <- Content, Result <- Response, Nothing <- None,
            phase <- Phase, owner <- Owner, log <- ran, result <- Settled, told <- Told

\* Every behaviour of the ledger is one of OnceExecution.
ImplementsOnce == Once!Spec

=============================================================================
