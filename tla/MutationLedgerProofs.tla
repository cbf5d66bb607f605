------------------------ MODULE MutationLedgerProofs ------------------------
(***************************************************************************)
(* Theorems about the mutation ledger, for any number of controllers,      *)
(* sessions, requests and concurrent handler calls, and any sequence of    *)
(* crashes.                                                                *)
(***************************************************************************)
EXTENDS MutationLedger, FiniteSetTheorems, TLAPS

LEMMA KeyType ==
    ASSUME NEW req \in Request
    PROVE  RequestKey(req) \in Key /\ _request_sha256(req) \in Content
BY SessionAssumption DEF Request, Key, Content, RequestKey, _request_sha256

----------------------------------------------------------------------------
(* The inductive invariant.  A call between admission and completion owns   *)
(* its key's row: no other call is there with the same key, and the row and *)
(* the history say exactly how far that call has come.                      *)

Busy(t) == task[t].pc \in {"dispatch", "complete"}

BusyOwnsRow ==
    \A t \in Task : Busy(t) =>
        LET k   == RequestKey(task[t].req)
            sha == _request_sha256(task[t].req)
        IN  /\ requests[k] # None
            /\ requests[k].sha = sha
            /\ requests[k].status = PENDING
            /\ task[t].pc = "dispatch" => ran[k] = <<>>
            /\ task[t].pc = "complete" => /\ ran[k] = <<sha>>
                                          /\ task[t].response \in Response

OneBusyPerKey ==
    \A t, u \in Task :
        Busy(t) /\ Busy(u) /\ RequestKey(task[t].req) = RequestKey(task[u].req) => t = u

\* What a row says of the history of its key.
RowsTellHistory ==
    \A k \in Key :
        /\ requests[k] = None => ran[k] = <<>>
        /\ requests[k] # None =>
              /\ ran[k] = <<>> \/ ran[k] = <<requests[k].sha>>
              /\ requests[k].status = PENDING => requests[k].response = None
              /\ requests[k].status = COMPLETED =>
                    ran[k] = <<requests[k].sha>> /\ requests[k].response \in Response

\* The ledger durably records this response for this request.
Vouched(req, response) ==
    LET row == requests[RequestKey(req)]
    IN  /\ row # None
        /\ row.status = COMPLETED
        /\ row.sha = _request_sha256(req)
        /\ row.response = response

RepliesVouched ==
    \A t \in Task : task[t].pc = "reply" /\ task[t].response # None =>
        Vouched(task[t].req, task[t].response)

AnswersVouched ==
    \A a \in answers : a.response # None => Vouched(a.req, a.response)

LedgerInv == /\ BusyOwnsRow
             /\ OneBusyPerKey
             /\ RowsTellHistory
             /\ RepliesVouched
             /\ AnswersVouched

Inv == TypeOK /\ LedgerInv

LEMMA InitEstablishesInv == Init => Inv
<1> SUFFICES ASSUME Init PROVE Inv
  OBVIOUS
<1>1. TypeOK
  <2>1. Idle \in Call
    BY DEF Idle, Call, Step
  <2> QED
    BY <2>1 DEF Init, TypeOK, Idle
<1>2. LedgerInv
  BY DEF Init, LedgerInv, BusyOwnsRow, OneBusyPerKey, RowsTellHistory,
         RepliesVouched, AnswersVouched, Busy, Idle
<1> QED
  BY <1>1, <1>2 DEF Inv

----------------------------------------------------------------------------
(* Types                                                                   *)

LEMMA GotoType ==
    ASSUME TypeOK, NEW t \in Task, NEW req \in Request,
           NEW pc \in Step, NEW code \in Code \cup {None},
           NEW response \in Response \cup {None},
           pc = "reply" => code \in Code,
           Goto(t, req, pc, code, response),
           session' = session, answers' = answers,
           requests' \in [Key -> Row \cup {None}],
           ran' \in [Key -> Seq(Content)]
    PROVE  TypeOK'
<1> DEFINE call == [pc |-> pc, req |-> req, code |-> code, response |-> response]
<1>1. call \in Call /\ call.pc = pc /\ call.req = req /\ call.code = code
  BY DEF Call
<1>2. task' \in [Task -> Call] /\ \A u \in Task : task'[u] = IF u = t THEN call ELSE task[u]
  BY <1>1 DEF Goto, TypeOK
<1> HIDE DEF call
<1> QED
  BY <1>1, <1>2 DEF TypeOK

LEMMA NextKeepsTypes == TypeOK /\ [Next]_vars => TypeOK'
<1> SUFFICES ASSUME TypeOK, [Next]_vars PROVE TypeOK'
  OBVIOUS
<1>1. {"reply", "dispatch", "complete", "lost", "done"} \subseteq Step
  BY DEF Step
<1>2. ErrorCode \cup {"RESULT", "REPLAY"} = Code
  BY DEF Code
<1>3. ASSUME NEW t \in Task, NEW req \in Request, NEW code \in ErrorCode,
             Refuse(t, req, code)
      PROVE  TypeOK'
  BY <1>1, <1>2, <1>3, GotoType DEF Refuse, TypeOK
<1>4. ASSUME NEW t \in Task, NEW req \in Request,
             RejectExpired(t, req) \/ AdmitFails(t, req)
      PROVE  TypeOK'
  BY <1>3, <1>4 DEF RejectExpired, AdmitFails, ErrorCode
<1>5. ASSUME NEW t \in Task, NEW req \in Request, Admit(t, req)
      PROVE  TypeOK'
  <2>1. [sha |-> _request_sha256(req), status |-> PENDING, response |-> None] \in Row
    BY KeyType DEF Row
  <2>2. requests' \in [Key -> Row \cup {None}]
    BY <1>5, <2>1, KeyType DEF Admit, TypeOK
  <2>3. Goto(t, req, "dispatch", None, None) /\ UNCHANGED <<session, ran, answers>>
    BY <1>5 DEF Admit
  <2> QED
    BY <1>1, <2>2, <2>3, GotoType DEF TypeOK
<1>6. ASSUME NEW t \in Task, NEW req \in Request, MeetRecorded(t, req)
      PROVE  TypeOK'
  <2>1. CASE \E code \in ErrorCode : Refuse(t, req, code)
    BY <1>3, <2>1
  <2>2. CASE /\ requests[RequestKey(req)] # None
             /\ Goto(t, req, "reply", "REPLAY", requests[RequestKey(req)].response)
             /\ UNCHANGED <<session, requests, ran, answers>>
    <3>1. requests[RequestKey(req)].response \in Response \cup {None}
      BY <2>2, KeyType DEF TypeOK, Row
    <3> QED
      BY <1>1, <1>2, <2>2, <3>1, GotoType DEF TypeOK
  <2> QED
    BY <1>6, <2>1, <2>2 DEF MeetRecorded, ErrorCode
<1>7. ASSUME NEW t \in Task, _dispatch(t) PROVE TypeOK'
  <2>1. task[t].req \in Request
    BY <1>7 DEF _dispatch, TypeOK
  <2>2. ran' \in [Key -> Seq(Content)]
    BY <1>7, <2>1, KeyType DEF _dispatch, TypeOK
  <2>3. PICK ok \in BOOLEAN :
          Goto(t, task[t].req, "complete", "RESULT", [by |-> t, ok |-> ok])
    BY <1>7 DEF _dispatch
  <2>4. [by |-> t, ok |-> ok] \in Response
    BY DEF Response
  <2>5. UNCHANGED <<session, requests, answers>>
    BY <1>7 DEF _dispatch
  <2> QED
    BY <1>1, <1>2, <2>1, <2>2, <2>3, <2>4, <2>5, GotoType DEF TypeOK
<1>8. ASSUME NEW t \in Task, complete_request(t) PROVE TypeOK'
  <2>1. task[t].req \in Request /\ task[t].response \in Response \cup {None}
    BY <1>8 DEF complete_request, TypeOK, Call
  <2>2. requests[RequestKey(task[t].req)] \in Row
    BY <1>8, <2>1, KeyType DEF complete_request, Unrecordable, TypeOK
  <2>3. requests' \in [Key -> Row \cup {None}]
    BY <1>8, <2>1, <2>2, KeyType DEF complete_request, TypeOK, Row
  <2>4. /\ Goto(t, task[t].req, "reply", "RESULT", task[t].response)
        /\ UNCHANGED <<session, ran, answers>>
    BY <1>8 DEF complete_request
  <2> QED
    BY <1>1, <1>2, <2>1, <2>3, <2>4, GotoType DEF TypeOK
<1>9. ASSUME NEW t \in Task, CompleteFails(t) PROVE TypeOK'
  <2>1. task[t].req \in Request
    BY <1>9 DEF CompleteFails, TypeOK
  <2> QED
    BY <1>3, <1>9, <2>1 DEF CompleteFails, ErrorCode
<1>10. ASSUME NEW t \in Task, Reply(t) PROVE TypeOK'
  <2>1. task[t] \in Call /\ task[t].req \in Request /\ task[t].code \in Code
    BY <1>10 DEF Reply, TypeOK
  <2>2. [req |-> task[t].req, code |-> task[t].code, response |-> task[t].response]
          \in [req : Request, code : Code, response : Response \cup {None}]
    BY <1>10, <2>1 DEF Call
  <2>3. task' \in [Task -> Call]
    BY <1>1, <1>10, <2>1 DEF Reply, TypeOK, Call
  <2>4. \A u \in Task : /\ task'[u].req = task[u].req
                        /\ task'[u].code = task[u].code
                        /\ u # t => task'[u].pc = task[u].pc
    BY <1>10 DEF Reply, TypeOK, Call
  <2> QED
    BY <1>10, <2>1, <2>2, <2>3, <2>4 DEF Reply, TypeOK
<1>11. ASSUME NEW s \in Session, Connect(s) \/ Disconnect(s) PROVE TypeOK'
  BY <1>11 DEF Connect, Disconnect, TypeOK
<1>12. ASSUME Crash PROVE TypeOK'
  <2>1. \A t \in Task : task'[t] = IF task[t].pc \in {"dispatch", "complete", "reply"}
                                  THEN [task[t] EXCEPT !.pc = "lost"] ELSE task[t]
    BY <1>12 DEF Crash
  <2>2. \A t \in Task : task[t] \in Call
    BY DEF TypeOK
  <2>3. \A t \in Task : /\ task'[t] \in Call
                        /\ task'[t].req = task[t].req
                        /\ task'[t].pc \in {task[t].pc, "lost"}
                        /\ task[t].pc = "idle" => task'[t].pc = "idle"
                        /\ task'[t].code = task[t].code
    BY <1>1, <2>1, <2>2 DEF Call
  <2>4. task' \in [Task -> Call]
    BY <1>12, <2>3 DEF Crash
  <2>5. session' \in [Session -> {"fresh", "open", "gone"}]
    BY <1>12 DEF Crash, TypeOK
  <2> QED
    BY <1>12, <2>3, <2>4, <2>5 DEF Crash, TypeOK
<1>13. ASSUME UNCHANGED vars PROVE TypeOK'
  BY <1>13 DEF vars, TypeOK
<1> QED
  BY <1>4, <1>5, <1>6, <1>7, <1>8, <1>9, <1>10, <1>11, <1>12, <1>13 DEF Next

----------------------------------------------------------------------------
(* The ledger                                                              *)

LEMMA GotoMoves ==
    ASSUME TypeOK, NEW t \in Task, NEW req, NEW pc, NEW code, NEW response,
           Goto(t, req, pc, code, response)
    PROVE  /\ task'[t] = [pc |-> pc, req |-> req, code |-> code, response |-> response]
           /\ \A u \in Task : u # t => task'[u] = task[u]
BY DEF Goto, TypeOK

\* Most steps leave the ledger and the history alone: they take calls out of
\* the ledger's way, and repeat only what the ledger records.
LEMMA NeutralKeepsLedgerInv ==
    ASSUME LedgerInv, requests' = requests, ran' = ran,
           \A u \in Task : Busy(u)' => task'[u] = task[u],
           \A u \in Task : task'[u].pc = "reply" =>
               \/ task'[u] = task[u]
               \/ task'[u].response = None
               \/ Vouched(task'[u].req, task'[u].response),
           \A a \in answers' :
               \/ a \in answers
               \/ a.response = None
               \/ Vouched(a.req, a.response)
    PROVE  LedgerInv'
<1> USE DEF LedgerInv
<1>1. BusyOwnsRow'
  BY DEF BusyOwnsRow, Busy
<1>2. OneBusyPerKey'
  BY DEF OneBusyPerKey, Busy
<1>3. RowsTellHistory'
  BY DEF RowsTellHistory
<1>5. RepliesVouched'
  BY DEF RepliesVouched, Vouched
<1>6. AnswersVouched'
  BY DEF AnswersVouched, Vouched
<1> QED
  BY <1>1, <1>2, <1>3, <1>5, <1>6

LEMMA RefuseKeepsLedgerInv ==
    ASSUME Inv, NEW t \in Task, NEW req, NEW code, Refuse(t, req, code)
    PROVE  LedgerInv'
<1>1. /\ task'[t] = [pc |-> "reply", req |-> req, code |-> code, response |-> None]
      /\ \A u \in Task : u # t => task'[u] = task[u]
  BY GotoMoves DEF Refuse, Inv
<1> QED
  BY <1>1, NeutralKeepsLedgerInv DEF Refuse, Inv, Busy

LEMMA AdmitKeepsLedgerInv ==
    ASSUME Inv, NEW t \in Task, NEW req \in Request, Admit(t, req)
    PROVE  LedgerInv'
<1> DEFINE k == RequestKey(req)
           row == [sha |-> _request_sha256(req), status |-> PENDING, response |-> None]
           call == [pc |-> "dispatch", req |-> req, code |-> None, response |-> None]
<1>1. task'[t] = call /\ \A u \in Task : u # t => task'[u] = task[u]
  BY GotoMoves DEF Admit, Inv
<1>2. /\ k \in Key
      /\ requests[k] = None
      /\ requests'[k] = row
      /\ \A j \in Key : j # k => requests'[j] = requests[j]
      /\ ran' = ran
      /\ answers' = answers
  BY KeyType DEF Admit, Inv, TypeOK
<1>3. row # None
  <2>1. row \in Row
    BY KeyType DEF Row
  <2> QED
    BY <2>1, NoneAssumption
<1>4. ran[k] = <<>>
  BY <1>2 DEF Inv, LedgerInv, RowsTellHistory
<1>5. \A u \in Task : u # t /\ Busy(u) => RequestKey(task[u].req) \in Key \ {k}
  <2>1. \A u \in Task : Busy(u) => task[u].req \in Request
    BY DEF Busy, Inv, TypeOK
  <2> QED
    BY <2>1, <1>2, KeyType DEF Inv, LedgerInv, BusyOwnsRow
<1>6. \A r \in Request : \A response : Vouched(r, response) => Vouched(r, response)'
  <2>1. \A r \in Request : \A response :
           Vouched(r, response) => RequestKey(r) \in Key /\ RequestKey(r) # k
    BY <1>2, KeyType DEF Vouched
  <2> QED
    BY <1>2, <2>1 DEF Vouched
<1>7. BusyOwnsRow'
  <2> SUFFICES ASSUME NEW u \in Task, Busy(u)'
               PROVE  LET j   == RequestKey(task'[u].req)
                          sha == _request_sha256(task'[u].req)
                      IN  /\ requests'[j] # None
                          /\ requests'[j].sha = sha
                          /\ requests'[j].status = PENDING
                          /\ task'[u].pc = "dispatch" => ran'[j] = <<>>
                          /\ task'[u].pc = "complete" => /\ ran'[j] = <<sha>>
                                                         /\ task'[u].response \in Response
    BY DEF BusyOwnsRow
  <2>1. CASE u = t
    BY <1>1, <1>2, <1>3, <1>4, <2>1
  <2>2. CASE u # t
    BY <1>1, <1>2, <1>5, <2>2 DEF Busy, Inv, LedgerInv, BusyOwnsRow
  <2> QED
    BY <2>1, <2>2
<1>8. OneBusyPerKey'
  BY <1>1, <1>5 DEF OneBusyPerKey, Inv, LedgerInv, Busy
<1>9. RowsTellHistory'
  BY <1>2, <1>3, <1>4 DEF Inv, LedgerInv, RowsTellHistory, PENDING, COMPLETED
<1>10. RepliesVouched'
  <2>1. \A u \in Task : task'[u].pc = "reply" =>
           task'[u] = task[u] /\ task[u].req \in Request
    BY <1>1 DEF Inv, TypeOK
  <2> QED
    BY <1>6, <2>1 DEF Inv, LedgerInv, RepliesVouched
<1>11. AnswersVouched'
  <2>1. \A a \in answers : a.req \in Request
    BY DEF Inv, TypeOK
  <2> QED
    BY <1>2, <1>6, <2>1 DEF Inv, LedgerInv, AnswersVouched
<1> QED
  BY <1>7, <1>8, <1>9, <1>10, <1>11 DEF LedgerInv

\* The only step that runs a mutation finds its key's history empty.
LEMMA DispatchKeepsLedgerInv ==
    ASSUME Inv, NEW t \in Task, _dispatch(t)
    PROVE  LedgerInv'
<1> DEFINE req == task[t].req
           k == RequestKey(req)
           sha == _request_sha256(req)
<1>1. req \in Request /\ k \in Key /\ Busy(t)
  BY KeyType DEF _dispatch, Inv, TypeOK, Busy
<1>2. /\ requests[k] # None
      /\ requests[k].sha = sha
      /\ requests[k].status = PENDING
      /\ ran[k] = <<>>
  BY <1>1 DEF _dispatch, Inv, LedgerInv, BusyOwnsRow
<1>3. PICK ok \in BOOLEAN : Goto(t, req, "complete", "RESULT", [by |-> t, ok |-> ok])
  BY DEF _dispatch
<1>4. /\ task'[t] = [pc |-> "complete", req |-> req, code |-> "RESULT",
                     response |-> [by |-> t, ok |-> ok]]
      /\ \A u \in Task : u # t => task'[u] = task[u]
  BY <1>3, GotoMoves DEF Inv
<1>5. [by |-> t, ok |-> ok] \in Response
  BY DEF Response
<1>6. /\ ran'[k] = <<sha>>
      /\ \A j \in Key : j # k => ran'[j] = ran[j]
      /\ requests' = requests
      /\ answers' = answers
  BY <1>1, <1>2 DEF _dispatch, Inv, TypeOK
<1>7. \A u \in Task : u # t /\ Busy(u) => RequestKey(task[u].req) \in Key \ {k}
  <2>1. \A u \in Task : Busy(u) => task[u].req \in Request
    BY DEF Busy, Inv, TypeOK
  <2> QED
    BY <1>1, <2>1, KeyType DEF Inv, LedgerInv, OneBusyPerKey
<1> HIDE DEF req, k, sha
<1>8. BusyOwnsRow'
  <2> SUFFICES ASSUME NEW u \in Task, Busy(u)'
               PROVE  LET j == RequestKey(task'[u].req)
                          c == _request_sha256(task'[u].req)
                      IN  /\ requests'[j] # None
                          /\ requests'[j].sha = c
                          /\ requests'[j].status = PENDING
                          /\ task'[u].pc = "dispatch" => ran'[j] = <<>>
                          /\ task'[u].pc = "complete" => /\ ran'[j] = <<c>>
                                                         /\ task'[u].response \in Response
    BY DEF BusyOwnsRow
  <2>1. CASE u = t
    BY <1>2, <1>4, <1>5, <1>6, <2>1 DEF k, sha
  <2>2. CASE u # t
    BY <1>4, <1>6, <1>7, <2>2 DEF Busy, Inv, LedgerInv, BusyOwnsRow
  <2> QED
    BY <2>1, <2>2
<1>9. OneBusyPerKey'
  BY <1>4, <1>7 DEF OneBusyPerKey, Inv, LedgerInv, Busy, k
<1>10. RowsTellHistory'
  BY <1>2, <1>6 DEF Inv, LedgerInv, RowsTellHistory, PENDING, COMPLETED
<1>11. RepliesVouched'
  BY <1>4, <1>6 DEF Inv, LedgerInv, RepliesVouched, Vouched
<1>12. AnswersVouched'
  BY <1>6 DEF Inv, LedgerInv, AnswersVouched, Vouched
<1> QED
  BY <1>8, <1>9, <1>10, <1>11, <1>12 DEF LedgerInv

LEMMA CompleteKeepsLedgerInv ==
    ASSUME Inv, NEW t \in Task, complete_request(t)
    PROVE  LedgerInv'
<1> DEFINE req == task[t].req
           k == RequestKey(req)
           sha == _request_sha256(req)
           response == task[t].response
<1>1. req \in Request /\ k \in Key /\ Busy(t)
  BY KeyType DEF complete_request, Inv, TypeOK, Busy
<1>2. /\ requests[k] # None
      /\ requests[k].sha = sha
      /\ requests[k].status = PENDING
      /\ ran[k] = <<sha>>
      /\ response \in Response
  BY <1>1 DEF complete_request, Inv, LedgerInv, BusyOwnsRow
<1>3. /\ task'[t] = [pc |-> "reply", req |-> req, code |-> "RESULT", response |-> response]
      /\ \A u \in Task : u # t => task'[u] = task[u]
  BY GotoMoves DEF complete_request, Inv
<1>4. requests[k] \in Row
  BY <1>1, <1>2 DEF Inv, TypeOK
<1>5. /\ requests'[k] # None
      /\ requests'[k].sha = sha
      /\ requests'[k].status = COMPLETED
      /\ requests'[k].response = response
  <2>1. requests'[k] = [requests[k] EXCEPT !.status = COMPLETED, !.response = response]
    BY <1>1 DEF complete_request, Inv, TypeOK
  <2>2. requests'[k] \in Row
    BY <1>2, <1>4, <2>1 DEF Row
  <2> QED
    BY <1>2, <1>4, <2>1, <2>2, NoneAssumption DEF Row
<1>6. /\ \A j \in Key : j # k => requests'[j] = requests[j]
      /\ ran' = ran
      /\ answers' = answers
  BY <1>1 DEF complete_request, Inv, TypeOK
<1>7. \A u \in Task : u # t /\ Busy(u) => RequestKey(task[u].req) \in Key \ {k}
  <2>1. \A u \in Task : Busy(u) => task[u].req \in Request
    BY DEF Busy, Inv, TypeOK
  <2> QED
    BY <1>1, <2>1, KeyType DEF Inv, LedgerInv, OneBusyPerKey
<1>8. \A r \in Request : \A x : Vouched(r, x) => Vouched(r, x)'
  <2>1. \A r \in Request : \A x : Vouched(r, x) => RequestKey(r) \in Key \ {k}
    BY <1>2, KeyType DEF Vouched, PENDING, COMPLETED
  <2> QED
    BY <1>6, <2>1 DEF Vouched
<1> HIDE DEF req, k, sha, response
<1>9. BusyOwnsRow'
  <2> SUFFICES ASSUME NEW u \in Task, Busy(u)'
               PROVE  LET j == RequestKey(task'[u].req)
                          c == _request_sha256(task'[u].req)
                      IN  /\ requests'[j] # None
                          /\ requests'[j].sha = c
                          /\ requests'[j].status = PENDING
                          /\ task'[u].pc = "dispatch" => ran'[j] = <<>>
                          /\ task'[u].pc = "complete" => /\ ran'[j] = <<c>>
                                                         /\ task'[u].response \in Response
    BY DEF BusyOwnsRow
  <2>1. u # t
    BY <1>3 DEF Busy
  <2> QED
    BY <1>3, <1>6, <1>7, <2>1 DEF Busy, Inv, LedgerInv, BusyOwnsRow
<1>10. OneBusyPerKey'
  BY <1>3 DEF OneBusyPerKey, Inv, LedgerInv, Busy
<1>11. RowsTellHistory'
  BY <1>2, <1>5, <1>6 DEF Inv, LedgerInv, RowsTellHistory, PENDING, COMPLETED
<1>12. RepliesVouched'
  <2>1. \A u \in Task : task'[u].pc = "reply" /\ u # t =>
           task'[u] = task[u] /\ task[u].req \in Request
    BY <1>3 DEF Inv, TypeOK
  <2>2. task'[t].req = req /\ task'[t].response = response
    BY <1>3
  <2>3. Vouched(task[t].req, task[t].response)'
    BY <1>5, <2>2 DEF Vouched, k, sha
  <2>4. ASSUME NEW u \in Task, task'[u].pc = "reply", task'[u].response # None
        PROVE  Vouched(task[u].req, task[u].response)'
    <3>1. CASE u = t
      BY <2>3, <3>1
    <3>2. CASE u # t
      <4>1. task'[u] = task[u] /\ task[u].req \in Request
        BY <2>1, <2>4, <3>2
      <4>2. Vouched(task[u].req, task[u].response)
        BY <2>4, <4>1 DEF Inv, LedgerInv, RepliesVouched
      <4> QED
        BY <1>8, <4>1, <4>2 DEF Vouched
    <3> QED
      BY <3>1, <3>2
  <2> QED
    BY <2>4 DEF RepliesVouched
<1>13. AnswersVouched'
  <2>1. \A a \in answers : a.req \in Request
    BY DEF Inv, TypeOK
  <2> QED
    BY <1>6, <1>8, <2>1 DEF Inv, LedgerInv, AnswersVouched
<1> QED
  BY <1>9, <1>10, <1>11, <1>12, <1>13 DEF LedgerInv

LEMMA NextKeepsInv == Inv /\ [Next]_vars => Inv'
<1> SUFFICES ASSUME Inv, [Next]_vars PROVE LedgerInv'
  BY NextKeepsTypes DEF Inv
<1>1. ASSUME NEW t \in Task, NEW req \in Request,
             RejectExpired(t, req) \/ AdmitFails(t, req)
      PROVE  LedgerInv'
  BY <1>1, RefuseKeepsLedgerInv DEF RejectExpired, AdmitFails
<1>2. ASSUME NEW t \in Task, NEW req \in Request, MeetRecorded(t, req)
      PROVE  LedgerInv'
  <2>1. CASE \E code \in ErrorCode : Refuse(t, req, code)
    BY <2>1, RefuseKeepsLedgerInv
  <2>2. CASE /\ requests[RequestKey(req)] # None
             /\ requests[RequestKey(req)].sha = _request_sha256(req)
             /\ requests[RequestKey(req)].status = COMPLETED
             /\ Goto(t, req, "reply", "REPLAY", requests[RequestKey(req)].response)
             /\ UNCHANGED <<session, requests, ran, answers>>
    <3>1. Vouched(req, requests[RequestKey(req)].response)
      BY <2>2 DEF Vouched
    <3>2. /\ task'[t] = [pc |-> "reply", req |-> req, code |-> "REPLAY",
                         response |-> requests[RequestKey(req)].response]
          /\ \A u \in Task : u # t => task'[u] = task[u]
      BY <2>2, GotoMoves DEF Inv
    <3> QED
      BY <2>2, <3>1, <3>2, NeutralKeepsLedgerInv DEF Inv, Busy
  <2> QED
    BY <1>2, <2>1, <2>2 DEF MeetRecorded, ErrorCode
<1>3. ASSUME NEW t \in Task, CompleteFails(t) PROVE LedgerInv'
  BY <1>3, RefuseKeepsLedgerInv DEF CompleteFails
<1>4. ASSUME NEW t \in Task, Reply(t) PROVE LedgerInv'
  <2>1. task[t] \in Call
    BY DEF Inv, TypeOK
  <2>2. /\ task'[t].pc = "done"
        /\ \A u \in Task : u # t => task'[u] = task[u]
    BY <1>4, <2>1 DEF Reply, Inv, TypeOK, Call
  <2>3. task[t].response = None \/ Vouched(task[t].req, task[t].response)
    BY <1>4 DEF Reply, Inv, LedgerInv, RepliesVouched
  <2>4. \A a \in answers' : \/ a \in answers
                            \/ a.response = None
                            \/ Vouched(a.req, a.response)
    BY <1>4, <2>3 DEF Reply
  <2>5. requests' = requests /\ ran' = ran
    BY <1>4 DEF Reply
  <2>6. \A u \in Task : Busy(u)' => task'[u] = task[u]
    BY <2>2 DEF Busy
  <2>7. \A u \in Task : task'[u].pc = "reply" => task'[u] = task[u]
    BY <2>2
  <2> QED
    BY <2>4, <2>5, <2>6, <2>7, NeutralKeepsLedgerInv DEF Inv
<1>5. ASSUME NEW s \in Session, Connect(s) \/ Disconnect(s) PROVE LedgerInv'
  <2>1. UNCHANGED <<requests, task, ran, answers>>
    BY <1>5 DEF Connect, Disconnect
  <2> QED
    BY <2>1, NeutralKeepsLedgerInv DEF Inv, Busy
<1>6. ASSUME Crash PROVE LedgerInv'
  <2>1. \A u \in Task : task[u] \in Call
    BY DEF Inv, TypeOK
  <2>2. \A u \in Task : task'[u] = task[u] \/ task'[u].pc = "lost"
    BY <1>6, <2>1 DEF Crash, Call
  <2>3. requests' = requests /\ ran' = ran /\ answers' = answers
    BY <1>6 DEF Crash
  <2> QED
    BY <2>2, <2>3, NeutralKeepsLedgerInv DEF Inv, Busy
<1>7. ASSUME UNCHANGED vars PROVE LedgerInv'
  BY <1>7, NeutralKeepsLedgerInv DEF vars, Inv, Busy
<1> QED
  BY <1>1, <1>2, <1>3, <1>4, <1>5, <1>6, <1>7, AdmitKeepsLedgerInv,
     DispatchKeepsLedgerInv, CompleteKeepsLedgerInv DEF Next

\* The inductive invariant holds of every behaviour.
THEOREM LedgerInvariant == Spec => []Inv
<1>1. Inv /\ UNCHANGED vars => Inv'
  BY NextKeepsInv
<1> QED
  BY InitEstablishesInv, NextKeepsInv, PTL DEF Spec

\* Type correctness of the mutation ledger.
THEOREM TypeCorrect == Spec => []TypeOK
<1>1. Inv => TypeOK
  BY DEF Inv
<1> QED
  BY <1>1, LedgerInvariant, PTL

\* protocol.py and state.py never run one durable request key twice, whatever
\* calls overlap and wherever the agent crashes.
THEOREM NoMutationRunsTwice == Spec => []AtMostOnce
<1>1. Inv => AtMostOnce
  <2> SUFFICES ASSUME Inv, NEW k \in Key PROVE Len(ran[k]) <= 1
    BY DEF AtMostOnce
  <2>1. ran[k] = <<>> \/ ran[k] = <<requests[k].sha>>
    BY DEF Inv, LedgerInv, RowsTellHistory
  <2>2. Len(<<>>) = 0 /\ Len(<<requests[k].sha>>) = 1
    OBVIOUS
  <2>3. Len(ran[k]) = 0 \/ Len(ran[k]) = 1
    BY <2>1, <2>2, Zenon
  <2>4. \A n : n = 0 \/ n = 1 => n <= 1
    OBVIOUS
  <2> QED
    BY <2>3, <2>4, Zenon
<1> QED
  BY <1>1, LedgerInvariant, PTL

\* handle begins the request durably before it dispatches it.
THEOREM EffectsLeaveEvidence == Spec => []RecordedBeforeRun
<1>1. Inv => RecordedBeforeRun
  BY DEF Inv, LedgerInv, RowsTellHistory, RecordedBeforeRun
<1> QED
  BY <1>1, LedgerInvariant, PTL

\* A response given to a caller, fresh or replayed, is the durable response of
\* the one execution of exactly that request.
THEOREM CallersLearnTheExecution == Spec => []AnswersAreTheExecution
<1>1. Inv => AnswersAreTheExecution
  <2> SUFFICES ASSUME Inv, NEW a \in answers, a.response # None
               PROVE  LET k == RequestKey(a.req)
                      IN  /\ ran[k] = <<_request_sha256(a.req)>>
                          /\ requests[k] # None
                          /\ requests[k].status = COMPLETED
                          /\ requests[k].response = a.response
    BY DEF AnswersAreTheExecution
  <2>1. RequestKey(a.req) \in Key
    BY KeyType DEF Inv, TypeOK
  <2>2. Vouched(a.req, a.response)
    BY DEF Inv, LedgerInv, AnswersVouched
  <2> QED
    BY <2>1, <2>2 DEF Inv, LedgerInv, RowsTellHistory, Vouched
<1> QED
  BY <1>1, LedgerInvariant, PTL

\* The error branches of complete_request are dead code under this protocol.
THEOREM CompletionFindsItsRow == Spec => []CompletionNeverConflicts
<1>1. Inv => CompletionNeverConflicts
  BY DEF Inv, LedgerInv, BusyOwnsRow, Busy, CompletionNeverConflicts,
         Unrecordable, PENDING, COMPLETED
<1> QED
  BY <1>1, LedgerInvariant, PTL

----------------------------------------------------------------------------
(* What a step does to a row, and the bound on the ledger                  *)

LEMMA RowSteps ==
    ASSUME Inv, [Next]_vars
    PROVE  \/ requests' = requests
           \/ \E t \in Task, req \in Request : Admit(t, req)
           \/ \E t \in Task : complete_request(t)
BY DEF Next, vars, RejectExpired, AdmitFails, MeetRecorded, Refuse, _dispatch,
       CompleteFails, Reply, Connect, Disconnect, Crash

LEMMA NextKeepsRows ==
    ASSUME Inv, [Next]_vars, NEW k \in Recorded
    PROVE  /\ requests'[k] # None
           /\ requests'[k].sha = requests[k].sha
           /\ requests[k].status = COMPLETED => requests'[k] = requests[k]
<1>1. k \in Key /\ requests[k] # None
  BY DEF Recorded
<1>2. CASE requests' = requests
  BY <1>1, <1>2
<1>3. ASSUME NEW t \in Task, NEW req \in Request, Admit(t, req)
      PROVE  requests'[k] = requests[k]
  BY <1>1, <1>3 DEF Admit, Inv, TypeOK
<1>4. ASSUME NEW t \in Task, complete_request(t)
      PROVE  /\ requests'[k] # None
             /\ requests'[k].sha = requests[k].sha
             /\ requests[k].status = COMPLETED => requests'[k] = requests[k]
  <2>1. CASE k # RequestKey(task[t].req)
    BY <1>1, <1>4, <2>1 DEF complete_request, Inv, TypeOK
  <2>2. CASE k = RequestKey(task[t].req)
    <3>1. requests[k].status = PENDING
      BY <1>4, <2>2 DEF complete_request, Inv, LedgerInv, BusyOwnsRow, Busy
    <3>2. requests'[k] = [requests[k] EXCEPT !.status = COMPLETED,
                                             !.response = task[t].response]
      BY <1>1, <1>4, <2>2 DEF complete_request, Inv, TypeOK
    <3>3. requests[k] \in Row /\ task[t].response \in Response \cup {None}
      BY <1>1 DEF Inv, TypeOK, Call
    <3>4. requests'[k] \in Row /\ requests'[k].sha = requests[k].sha
      BY <3>2, <3>3 DEF Row
    <3> QED
      BY <3>1, <3>4, NoneAssumption DEF PENDING, COMPLETED
  <2> QED
    BY <2>1, <2>2
<1> QED
  BY <1>1, <1>2, <1>3, <1>4, RowSteps

\* state.py never deletes or reassigns a row, nor changes a completed one.
THEOREM RowsStay == Spec => RowsAreForever
<1>1. Inv /\ [Next]_vars =>
        [\A k \in Recorded :
            /\ requests'[k] # None
            /\ requests'[k].sha = requests[k].sha
            /\ requests[k].status = COMPLETED => requests'[k] = requests[k]]_vars
  BY NextKeepsRows
<1> QED
  BY <1>1, LedgerInvariant, PTL DEF Spec, RowsAreForever

\* max_mutation_requests bounds the ledger for good: begin_request checks it in
\* the transaction that inserts.
THEOREM LedgerNeverOverflows == Spec => []LedgerBounded
<1> DEFINE Fits == IsFiniteSet(Recorded) /\ LedgerBounded
<1>1. Init => Fits
  <2>1. Init => Recorded = {}
    BY DEF Init, Recorded
  <2> QED
    BY <2>1, FS_EmptySet, MaxAssumption DEF LedgerBounded
<1>2. Inv /\ Fits /\ [Next]_vars => Fits'
  <2> SUFFICES ASSUME Inv, Fits, [Next]_vars PROVE Fits'
    OBVIOUS
  <2>1. CASE requests' = requests
    BY <2>1 DEF Recorded, LedgerBounded
  <2>2. ASSUME NEW t \in Task, NEW req \in Request, Admit(t, req)
        PROVE  Fits'
    <3>1. Recorded' \subseteq Recorded \cup {RequestKey(req)}
      BY <2>2 DEF Admit, Recorded, Inv, TypeOK
    <3>2. /\ IsFiniteSet(Recorded \cup {RequestKey(req)})
          /\ Cardinality(Recorded \cup {RequestKey(req)})
                \in {Cardinality(Recorded), Cardinality(Recorded) + 1}
      BY FS_AddElement, Zenon
    <3>3. /\ IsFiniteSet(Recorded')
          /\ Cardinality(Recorded') <= Cardinality(Recorded \cup {RequestKey(req)})
      BY <3>1, <3>2, FS_Subset
    <3>4. /\ Cardinality(Recorded) \in Nat
          /\ Cardinality(Recorded') \in Nat
          /\ Cardinality(Recorded \cup {RequestKey(req)}) \in Nat
      BY <3>2, <3>3, FS_CardinalityType
    <3>5. Cardinality(Recorded) < MaxRequests
      BY <2>2 DEF Admit
    <3> QED
      BY <3>2, <3>3, <3>4, <3>5, MaxAssumption DEF LedgerBounded
  <2>3. ASSUME NEW t \in Task, complete_request(t)
        PROVE  Fits'
    <3>1. Recorded' \subseteq Recorded
      <4>1. requests[RequestKey(task[t].req)] # None
        BY <2>3 DEF complete_request, Unrecordable
      <4> QED
        BY <2>3, <4>1 DEF complete_request, Recorded, Inv, TypeOK
    <3>2. /\ IsFiniteSet(Recorded')
          /\ Cardinality(Recorded') <= Cardinality(Recorded)
      BY <3>1, FS_Subset
    <3>3. Cardinality(Recorded) \in Nat /\ Cardinality(Recorded') \in Nat
      BY <3>2, FS_CardinalityType
    <3> QED
      BY <3>2, <3>3, MaxAssumption DEF LedgerBounded
  <2> QED
    BY <2>1, <2>2, <2>3, RowSteps
<1>3. Fits => LedgerBounded
  OBVIOUS
<1> HIDE DEF Fits
<1> QED
  BY <1>1, <1>2, <1>3, LedgerInvariant, PTL DEF Spec

----------------------------------------------------------------------------
(* Refinement                                                              *)

LEMMA MappedStep ==
    ASSUME NEW k \in Key, NEW p, NEW o, NEW r,
           \A j \in Key : j # k => requests'[j] = requests[j] /\ ran'[j] = ran[j],
           Phase'[k] = p, Owner'[k] = o, Settled'[k] = r
    PROVE  /\ Phase' = [Phase EXCEPT ![k] = p]
           /\ Owner' = [Owner EXCEPT ![k] = o]
           /\ Settled' = [Settled EXCEPT ![k] = r]
BY DEF Phase, Owner, Settled

LEMMA MappedStutter ==
    ASSUME requests' = requests, ran' = ran
    PROVE  Phase' = Phase /\ Owner' = Owner /\ Settled' = Settled
BY DEF Phase, Owner, Settled

LEMMA AdmitClaims ==
    ASSUME Inv, NEW t \in Task, NEW req \in Request, Admit(t, req)
    PROVE  Once!Claim(RequestKey(req), _request_sha256(req))
<1> DEFINE k == RequestKey(req)
           row == [sha |-> _request_sha256(req), status |-> PENDING, response |-> None]
<1>1. k \in Key /\ row \in Row /\ row # None
  BY KeyType, NoneAssumption DEF Row
<1>2. /\ requests[k] = None
      /\ requests'[k] = row
      /\ \A j \in Key : j # k => requests'[j] = requests[j]
      /\ ran' = ran
      /\ answers' = answers
  BY <1>1 DEF Admit, Inv, TypeOK
<1>3. ran[k] = <<>>
  BY <1>1, <1>2 DEF Inv, LedgerInv, RowsTellHistory
<1>4. Phase[k] = "new" /\ Settled[k] = None
  BY <1>1, <1>2 DEF Phase, Settled
<1>5. Phase'[k] = "claimed" /\ Owner'[k] = _request_sha256(req) /\ Settled'[k] = None
  BY <1>1, <1>2, <1>3 DEF Phase, Owner, Settled, PENDING, COMPLETED
<1>6. /\ Phase' = [Phase EXCEPT ![k] = "claimed"]
      /\ Owner' = [Owner EXCEPT ![k] = _request_sha256(req)]
      /\ Settled' = [Settled EXCEPT ![k] = None]
  BY <1>1, <1>2, <1>5, MappedStep
<1>7. Settled' = Settled
  BY <1>1, <1>4, <1>6 DEF Settled
<1>8. Told' = Told
  BY <1>2 DEF Told
<1> QED
  BY <1>2, <1>4, <1>6, <1>7, <1>8 DEF Once!Claim

LEMMA DispatchRuns ==
    ASSUME Inv, NEW t \in Task, _dispatch(t)
    PROVE  Once!Run(RequestKey(task[t].req)) /\ RequestKey(task[t].req) \in Key
<1> DEFINE k == RequestKey(task[t].req)
<1>1. k \in Key
  BY KeyType DEF _dispatch, Inv, TypeOK
<1>2. /\ requests[k] # None
      /\ requests[k].status = PENDING
      /\ requests[k].sha = _request_sha256(task[t].req)
      /\ ran[k] = <<>>
  BY DEF _dispatch, Inv, LedgerInv, BusyOwnsRow, Busy
<1>3. /\ ran'[k] # <<>>
      /\ \A j \in Key : j # k => ran'[j] = ran[j]
      /\ requests' = requests
      /\ answers' = answers
  BY <1>1, <1>2 DEF _dispatch, Inv, TypeOK
<1>4. Phase[k] = "claimed" /\ Phase'[k] = "ran"
  BY <1>1, <1>2, <1>3 DEF Phase, PENDING, COMPLETED
<1>5. Owner' = Owner /\ Settled' = Settled
  BY <1>3 DEF Owner, Settled
<1>6. Phase' = [Phase EXCEPT ![k] = "ran"]
  BY <1>1, <1>3, <1>4, MappedStep
<1>7. Told' = Told
  BY <1>3 DEF Told
<1>8. ran' = [ran EXCEPT ![k] = <<Owner[k]>>]
  <2>1. Owner[k] = _request_sha256(task[t].req)
    BY <1>1, <1>2 DEF Owner
  <2>2. Append(<<>>, Owner[k]) = <<Owner[k]>>
    OBVIOUS
  <2> QED
    BY <1>1, <1>2, <2>1, <2>2 DEF _dispatch, Inv, TypeOK
<1> QED
  BY <1>1, <1>4, <1>5, <1>6, <1>7, <1>8 DEF Once!Run

LEMMA CompleteSettles ==
    ASSUME Inv, NEW t \in Task, complete_request(t)
    PROVE  /\ RequestKey(task[t].req) \in Key
           /\ task[t].response \in Response
           /\ Once!Settle(RequestKey(task[t].req), task[t].response)
<1> DEFINE k == RequestKey(task[t].req)
           r == task[t].response
<1>1. k \in Key
  BY KeyType DEF complete_request, Inv, TypeOK
<1>2. /\ requests[k] # None
      /\ requests[k].status = PENDING
      /\ ran[k] = <<_request_sha256(task[t].req)>>
      /\ r \in Response
  BY DEF complete_request, Inv, LedgerInv, BusyOwnsRow, Busy
<1>3. requests[k] \in Row
  BY <1>1, <1>2 DEF Inv, TypeOK
<1>4. requests'[k] = [requests[k] EXCEPT !.status = COMPLETED, !.response = r]
  BY <1>1 DEF complete_request, Inv, TypeOK
<1>5. /\ requests'[k] \in Row
      /\ requests'[k] # None
      /\ requests'[k].sha = requests[k].sha
      /\ requests'[k].status = COMPLETED
      /\ requests'[k].response = r
  <2>1. requests'[k] \in Row
    BY <1>2, <1>3, <1>4 DEF Row
  <2> QED
    BY <1>2, <1>3, <1>4, <2>1, NoneAssumption DEF Row
<1>6. /\ \A j \in Key : j # k => requests'[j] = requests[j]
      /\ ran' = ran
      /\ answers' = answers
  BY <1>1 DEF complete_request, Inv, TypeOK
<1>7. ran[k] # <<>>
  BY <1>2
<1>8. Phase[k] = "ran" /\ Phase'[k] = "settled"
  BY <1>1, <1>2, <1>5, <1>7 DEF Phase, PENDING, COMPLETED
<1>9. Owner'[k] = Owner[k] /\ Settled'[k] = r
  BY <1>1, <1>2, <1>5 DEF Owner, Settled
<1>10. /\ Phase' = [Phase EXCEPT ![k] = "settled"]
       /\ Owner' = [Owner EXCEPT ![k] = Owner[k]]
       /\ Settled' = [Settled EXCEPT ![k] = r]
  BY <1>1, <1>6, <1>8, <1>9, MappedStep
<1>11. Owner' = Owner
  BY <1>1, <1>10 DEF Owner
<1>12. Told' = Told
  BY <1>6 DEF Told
<1> QED
  BY <1>1, <1>2, <1>6, <1>8, <1>10, <1>11, <1>12 DEF Once!Settle

LEMMA ReplyTells ==
    ASSUME Inv, NEW t \in Task, Reply(t), task[t].response # None
    PROVE  /\ RequestKey(task[t].req) \in Key
           /\ _request_sha256(task[t].req) \in Content
           /\ Once!Tell(RequestKey(task[t].req), _request_sha256(task[t].req))
<1> DEFINE req == task[t].req
           k == RequestKey(req)
           c == _request_sha256(req)
           a == [req |-> req, code |-> task[t].code, response |-> task[t].response]
<1>1. k \in Key /\ c \in Content
  BY KeyType DEF Reply, Inv, TypeOK
<1>2. Vouched(req, task[t].response)
  BY DEF Reply, Inv, LedgerInv, RepliesVouched
<1>3. Phase[k] = "settled" /\ Owner[k] = c /\ Settled[k] = task[t].response
  BY <1>1, <1>2 DEF Vouched, Phase, Owner, Settled
<1>4. answers' = answers \cup {a} /\ requests' = requests /\ ran' = ran
  BY DEF Reply
<1>5. Told' = Told \cup {<<k, c, task[t].response>>}
  <2> DEFINE Given(S) == {b \in S : b.response # None}
             Triple(b) == <<RequestKey(b.req), _request_sha256(b.req), b.response>>
  <2>1. a.req = req /\ a.response = task[t].response
    OBVIOUS
  <2>2. Triple(a) = <<k, c, task[t].response>>
    BY <2>1
  <2>3. Given(answers \cup {a}) = Given(answers) \cup {a}
    BY <2>1
  <2>4. Told = {Triple(b) : b \in Given(answers)}
    BY DEF Told
  <2>5. Told' = {Triple(b) : b \in Given(answers \cup {a})}
    BY <1>4 DEF Told
  <2> HIDE DEF Given, Triple, a
  <2> QED
    BY <2>2, <2>3, <2>4, <2>5
<1> QED
  BY <1>1, <1>3, <1>4, <1>5, MappedStutter DEF Once!Tell

\* runtime.py, protocol.py and state.py together implement at-most-once
\* execution with a faithful answer.
THEOREM LedgerImplementsOnce == Spec => ImplementsOnce
<1>1. Init => Once!Init
  BY DEF Init, Once!Init, Phase, Owner, Settled, Told
<1>2. ASSUME Inv, [Next]_vars PROVE [Once!Next]_(Once!vars)
  <2>1. ASSUME requests' = requests, ran' = ran, Told' = Told
        PROVE  UNCHANGED Once!vars
    BY <2>1, MappedStutter DEF Once!vars
  <2>2. ASSUME NEW t \in Task, NEW req \in Request, Admit(t, req)
        PROVE  Once!Next
    BY <1>2, <2>2, AdmitClaims, KeyType DEF Once!Next
  <2>3. ASSUME NEW t \in Task, _dispatch(t) PROVE Once!Next
    BY <1>2, <2>3, DispatchRuns DEF Once!Next
  <2>4. ASSUME NEW t \in Task, complete_request(t) PROVE Once!Next
    BY <1>2, <2>4, CompleteSettles DEF Once!Next
  <2>5. ASSUME NEW t \in Task, Reply(t) PROVE [Once!Next]_(Once!vars)
    <3>1. CASE task[t].response # None
      BY <1>2, <2>5, <3>1, ReplyTells DEF Once!Next
    <3>2. CASE task[t].response = None
      <4>1. /\ answers' = answers \cup {[req |-> task[t].req, code |-> task[t].code,
                                         response |-> task[t].response]}
            /\ requests' = requests
            /\ ran' = ran
        BY <2>5 DEF Reply
      <4>2. Told' = Told
        BY <3>2, <4>1 DEF Told
      <4> QED
        BY <2>1, <4>1, <4>2
    <3> QED
      BY <3>1, <3>2
  <2>6. CASE requests' = requests /\ ran' = ran /\ answers' = answers
    BY <2>1, <2>6 DEF Told
  <2> QED
    BY <1>2, <2>2, <2>3, <2>4, <2>5, <2>6
       DEF Next, vars, RejectExpired, AdmitFails, MeetRecorded, Refuse,
           CompleteFails, Connect, Disconnect, Crash
<1> QED
  BY <1>1, <1>2, LedgerInvariant, PTL DEF Spec, ImplementsOnce, Once!Spec

=============================================================================
