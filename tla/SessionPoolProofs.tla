-------------------------- MODULE SessionPoolProofs --------------------------
(***************************************************************************)
(* Safety of the controller's failover, for any calls, endpoints, sessions *)
(* and path modes.  Calls share nothing but the endpoints, so the argument *)
(* is about one call: a step of one call, or of its requests on the wire,  *)
(* leaves the others as they are.                                          *)
(***************************************************************************)
EXTENDS SessionPool, TLAPS

----------------------------------------------------------------------------
(* The inductive invariant                                                 *)

\* No copy of c has left the controller.
Unsent(c) ==
    /\ runs[c] = 0
    /\ rows[c] = None
    /\ \A e \in Endpoint : <<c, e>> \notin wire
    /\ \A e \in Endpoint, code \in Reply : <<c, e, code>> \notin replies

\* Every copy of c went out under session s, so none conflicts with another.
SentUnder(c, s) ==
    /\ rows[c] \in {None, s}
    /\ \A e \in Endpoint : <<c, e>> \in wire => binding[e] = s
    /\ \A e \in Endpoint : <<c, e, "IDEMPOTENCY_CONFLICT">> \notin replies

\* The fields of the call agree with its place in request.
Placed(c) ==
    /\ call[c].pc = "idle" => ~call[c].lost
    /\ call[c].pc = "sent" => call[c].at \in Endpoint
    /\ call[c].pc # "done" => call[c].outcome = None
    /\ call[c].pc \in {"idle", "select"} /\ ~call[c].lost => Unsent(c)
    /\ call[c].outcome = "NO_CURRENT_PATH" => Unsent(c)

\* A mutation that lost its stream goes on under one session only.
Bound(c) ==
    mutating[c] =>
        /\ call[c].pc = "select" /\ call[c].lost =>
              call[c].retry \in Session /\ SentUnder(c, call[c].retry)
        /\ call[c].pc = "sent" => SentUnder(c, binding[call[c].at])
        /\ call[c].outcome # "IDEMPOTENCY_CONFLICT"

\* With a ledger the row counts the effects; without one there is one copy.
Counted(c) ==
    mutating[c] =>
        /\ ledger => runs[c] = IF rows[c] = None THEN 0 ELSE 1
        /\ ~ledger => /\ ~call[c].lost
                      /\ runs[c] \in {0, 1}
                      /\ \A e \in Endpoint : <<c, e>> \in wire =>
                            runs[c] = 0 /\ e = call[c].at

\* A read is never told of a conflict.
ReadsNeverConflict(c) ==
    ~mutating[c] =>
        /\ call[c].outcome # "IDEMPOTENCY_CONFLICT"
        /\ \A e \in Endpoint : <<c, e, "IDEMPOTENCY_CONFLICT">> \notin replies

CallInv(c) == Placed(c) /\ Bound(c) /\ Counted(c) /\ ReadsNeverConflict(c)

\* durable_idempotency is configured only where the agent keeps a ledger.
ConfigTrue == \A e \in Endpoint : durable[e] => ledger

Inv == TypeOK /\ ConfigTrue /\ \A c \in Call : CallInv(c)

----------------------------------------------------------------------------
(* A step of one call leaves the others alone                              *)

\* What the network and the agent hold for c.
Same(c) ==
    /\ call'[c] = call[c]
    /\ runs'[c] = runs[c]
    /\ rows'[c] = rows[c]
    /\ \A e \in Endpoint : <<c, e>> \in wire' <=> <<c, e>> \in wire
    /\ \A e \in Endpoint, code \in Reply :
          <<c, e, code>> \in replies' <=> <<c, e, code>> \in replies

LEMMA OthersKeep ==
    ASSUME NEW c \in Call, Same(c), UNCHANGED config, CallInv(c)
    PROVE  CallInv(c)'
<1>1. "IDEMPOTENCY_CONFLICT" \in Reply
  BY DEF Reply
<1>2. Unsent(c) => Unsent(c)'
  BY DEF Same, Unsent
<1>3. \A s : SentUnder(c, s) => SentUnder(c, s)'
  BY <1>1 DEF Same, SentUnder, config
<1>4. Placed(c)'
  BY <1>2 DEF CallInv, Placed, Same
<1>5. Bound(c)'
  BY <1>3 DEF CallInv, Bound, Same, config
<1>6. Counted(c)'
  BY DEF CallInv, Counted, Same, config
<1>7. ReadsNeverConflict(c)'
  BY <1>1 DEF CallInv, ReadsNeverConflict, Same, config
<1> QED
  BY <1>4, <1>5, <1>6, <1>7 DEF CallInv

LEMMA InitEstablishesInv == Init => Inv
<1> SUFFICES ASSUME Init PROVE Inv
  OBVIOUS
<1>1. TypeOK
  BY DEF Init, TypeOK, State, Idle
<1>2. ConfigTrue
  BY DEF Init, ConfigTrue
<1>3. ASSUME NEW c \in Call PROVE CallInv(c)
  BY NoneAssumption DEF Failure, Reply, Init, CallInv, Placed, Bound, Counted, ReadsNeverConflict, Unsent, Idle
<1> QED
  BY <1>1, <1>2, <1>3 DEF Inv

----------------------------------------------------------------------------
(* The steps of request                                                    *)

\* What is left to prove of a step of c.
Alone(c) ==
    /\ UNCHANGED config
    /\ \A d \in Call \ {c} : Same(d)

LEMMA AloneSuffices ==
    ASSUME Inv, NEW c \in Call, Alone(c), TypeOK', CallInv(c)'
    PROVE  Inv'
<1>1. ASSUME NEW d \in Call PROVE CallInv(d)'
  BY OthersKeep DEF Inv, Alone
<1>2. ConfigTrue'
  BY DEF Inv, ConfigTrue, Alone, config
<1> QED
  BY <1>1, <1>2 DEF Inv

\* A step of the controller that sends nothing.
LEMMA Quiet ==
    ASSUME Inv, NEW c \in Call, UNCHANGED <<config, pool, wire, replies, rows, runs>>,
           NEW s \in State, call' = [call EXCEPT ![c] = s]
    PROVE  TypeOK' /\ Alone(c) /\ call'[c] = s
BY DEF Inv, TypeOK, Alone, Same, config

LEMMA QuietKeeps ==
    ASSUME NEW c \in Call, UNCHANGED <<config, pool, wire, replies, rows, runs>>
    PROVE  /\ Unsent(c) => Unsent(c)'
           /\ \A s : SentUnder(c, s) => SentUnder(c, s)'
BY DEF Unsent, SentUnder, config

LEMMA BeginKeeps ==
    ASSUME Inv, NEW c \in Call, Begin(c)
    PROVE  Inv'
<1>0. PICK current \in SUBSET Live : \E usable \in SUBSET current :
          call' = [call EXCEPT ![c].pc = "select", ![c].current = current,
                               ![c].usable = usable]
  BY DEF Begin
<1>1. PICK usable \in SUBSET current :
          call' = [call EXCEPT ![c].pc = "select", ![c].current = current,
                               ![c].usable = usable]
  BY <1>0
<1> DEFINE s == [call[c] EXCEPT !.pc = "select", !.current = current, !.usable = usable]
<1>2. call[c] \in State /\ s \in State
  <2>1. call[c] \in State /\ current \in SUBSET Endpoint /\ usable \in SUBSET Endpoint
    BY DEF Inv, TypeOK, Live
  <2> QED
    BY <2>1 DEF State
<1>3. /\ s.pc = "select" /\ s.lost = call[c].lost /\ s.outcome = call[c].outcome
      /\ call' = [call EXCEPT ![c] = s]
  BY <1>1, <1>2 DEF Inv, TypeOK, State
<1>4. TypeOK' /\ Alone(c) /\ call'[c] = s
  <2> HIDE DEF s
  <2> QED
    BY <1>2, <1>3, Quiet DEF Begin
<1>5. ~call[c].lost /\ call[c].outcome = None /\ Unsent(c)
  BY DEF Begin, Inv, CallInv, Placed
<1>6. Unsent(c)'
  BY <1>5, QuietKeeps DEF Begin
<1>7. Placed(c)' /\ Bound(c)'
  BY <1>3, <1>4, <1>5, <1>6, NoneAssumption DEF Placed, Bound, Reply
<1>8. Counted(c)' /\ ReadsNeverConflict(c)'
  BY <1>3, <1>4, <1>5, <1>6, NoneAssumption
     DEF Begin, Inv, CallInv, Counted, ReadsNeverConflict, Reply, config, Unsent
<1> QED
  BY <1>4, <1>7, <1>8, AloneSuffices DEF CallInv

\* The call ends with the outcome o, and nothing is sent.
LEMMA FinishKeeps ==
    ASSUME Inv, NEW c \in Call, NEW o \in Reply \cup Failure, Finish(c, o),
           UNCHANGED <<config, pool, wire, replies, rows, runs>>,
           o = "NO_CURRENT_PATH" => Unsent(c),
           o # "IDEMPOTENCY_CONFLICT"
    PROVE  Inv'
<1> DEFINE s == [call[c] EXCEPT !.pc = "done", !.outcome = o]
<1>0. call[c] \in State
  BY DEF Inv, TypeOK
<1>1. s \in State
  BY <1>0 DEF State
<1>2. /\ s.pc = "done" /\ s.outcome = o /\ s.lost = call[c].lost /\ s.at = call[c].at
      /\ call' = [call EXCEPT ![c] = s]
  BY <1>0 DEF Finish, Inv, TypeOK, State
<1>3. TypeOK' /\ Alone(c) /\ call'[c] = s
  <2> HIDE DEF s
  <2> QED
    BY <1>1, <1>2, Quiet
<1>4. Placed(c)'
  BY <1>2, <1>3, QuietKeeps DEF Placed
<1>5. Bound(c)'
  BY <1>2, <1>3 DEF Bound
<1>6. Counted(c)'
  BY <1>2, <1>3 DEF Inv, CallInv, Counted, config
<1>7. ReadsNeverConflict(c)'
  BY <1>2, <1>3 DEF Inv, CallInv, ReadsNeverConflict, config
<1> QED
  BY <1>3, <1>4, <1>5, <1>6, <1>7, AloneSuffices DEF CallInv

LEMMA NothingLeftKeeps ==
    ASSUME Inv, NEW c \in Call, NothingLeft(c)
    PROVE  Inv'
<1>1. CASE call[c].lost
  BY <1>1, FinishKeeps DEF NothingLeft, Failure
<1>2. CASE ~call[c].lost
  <2>1. Unsent(c)
    BY <1>2 DEF NothingLeft, Inv, CallInv, Placed
  <2> QED
    BY <1>2, <2>1, FinishKeeps DEF NothingLeft, Failure
<1> QED
  BY <1>1, <1>2

LEMMA BreakKeeps ==
    ASSUME Inv, NEW c \in Call, Break(c)
    PROVE  Inv'
BY FinishKeeps DEF Break, Failure

LEMMA ReturnKeeps ==
    ASSUME Inv, NEW c \in Call, Return(c)
    PROVE  Inv'
<1>1. PICK code \in Reply : <<c, call[c].at, code>> \in replies /\ Finish(c, code)
  BY DEF Return
<1>2. call[c].at \in Endpoint
  BY DEF Return, Inv, CallInv, Placed
<1>3. code # "IDEMPOTENCY_CONFLICT"
  BY <1>1, <1>2 DEF Return, Inv, CallInv, Bound, SentUnder, ReadsNeverConflict
<1>4. code # "NO_CURRENT_PATH"
  BY <1>1 DEF Reply
<1> QED
  BY <1>1, <1>3, <1>4, FinishKeeps DEF Return

\* The call goes back to select, a mutation bound to the session it was sent
\* under: that takes a durable endpoint, hence a ledger.
LEMMA LoseKeeps ==
    ASSUME Inv, NEW c \in Call, Lose(c)
    PROVE  Inv'
<1>1. CASE mutating[c] /\ ~Compatible(c)
  BY <1>1, FinishKeeps DEF Lose, Failure
<1>2. ASSUME NEW s \in State, call' = [call EXCEPT ![c] = s],
             s.pc = "select", s.lost, s.outcome = call[c].outcome, s.at = call[c].at,
             mutating[c] => ledger /\ s.retry \in Session /\ SentUnder(c, s.retry)
      PROVE  Inv'
  <2>3. TypeOK' /\ Alone(c) /\ call'[c] = s
    BY <1>2, Quiet DEF Lose
  <2>4. call[c].outcome = None
    BY DEF Lose, Inv, CallInv, Placed
  <2>5. Placed(c)'
    BY <1>2, <2>3, <2>4, NoneAssumption DEF Placed, Failure
  <2>6. Bound(c)'
    <3>1. call'[c].outcome # "IDEMPOTENCY_CONFLICT"
      BY <1>2, <2>3, <2>4, NoneAssumption DEF Reply
    <3> QED
      BY <1>2, <2>3, <3>1 DEF Lose, Bound, SentUnder, config
  <2>7. Counted(c)'
    BY <1>2, <2>3 DEF Lose, Inv, CallInv, Counted, config
  <2>8. ReadsNeverConflict(c)'
    BY <1>2, <2>3 DEF Lose, Inv, CallInv, ReadsNeverConflict, config
  <2> QED
    BY <2>3, <2>5, <2>6, <2>7, <2>8, AloneSuffices DEF CallInv
<1>3. call[c] \in State
  BY DEF Inv, TypeOK
<1>4. CASE mutating[c] /\ Compatible(c)
  <2>1. call[c].at \in Endpoint /\ SentUnder(c, binding[call[c].at])
    BY <1>4 DEF Lose, Inv, CallInv, Placed, Bound
  <2>2. binding[call[c].at] \in Session /\ ledger
    BY <1>4, <2>1 DEF Compatible, Inv, TypeOK, ConfigTrue
  <2> DEFINE s == [call[c] EXCEPT !.pc = "select", !.lost = TRUE,
                                  !.retry = binding[call[c].at]]
  <2>3. s \in State
    BY <1>3, <2>2 DEF State
  <2>4. /\ s.pc = "select" /\ s.lost /\ s.outcome = call[c].outcome /\ s.at = call[c].at
        /\ s.retry = binding[call[c].at]
        /\ call' = [call EXCEPT ![c] = s]
    BY <1>3, <1>4 DEF Lose, Inv, TypeOK, State
  <2> HIDE DEF s
  <2> QED
    BY <1>2, <2>1, <2>2, <2>3, <2>4
<1>5. CASE ~mutating[c]
  <2> DEFINE s == [call[c] EXCEPT !.pc = "select", !.lost = TRUE]
  <2>1. s \in State
    BY <1>3 DEF State
  <2>2. /\ s.pc = "select" /\ s.lost /\ s.outcome = call[c].outcome /\ s.at = call[c].at
        /\ call' = [call EXCEPT ![c] = s]
    BY <1>3, <1>5 DEF Lose, Inv, TypeOK, State
  <2> HIDE DEF s
  <2> QED
    BY <1>2, <1>5, <2>1, <2>2
<1> QED
  BY <1>1, <1>4, <1>5

LEMMA AttemptKeeps ==
    ASSUME Inv, NEW c \in Call, Attempt(c)
    PROVE  Inv'
<1>1. PICK e \in Choices(c) :
          /\ call' = [call EXCEPT ![c].pc = "sent", ![c].at = e,
                                  ![c].attempted = @ \cup {e}]
          /\ wire' = IF pool[e] = "live" THEN wire \cup {<<c, e>>} ELSE wire
  BY DEF Attempt
<1> DEFINE s == [call[c] EXCEPT !.pc = "sent", !.at = e,
                                !.attempted = call[c].attempted \cup {e}]
<1>2. call[c] \in State /\ e \in Endpoint
  BY DEF Inv, TypeOK, State, Choices
<1>3. s \in State
  BY <1>2 DEF State
<1>4. /\ s.pc = "sent" /\ s.at = e /\ s.lost = call[c].lost /\ s.outcome = call[c].outcome
      /\ call' = [call EXCEPT ![c] = s]
  BY <1>1, <1>2 DEF Inv, TypeOK, State
<1> HIDE DEF s
<1>5. call'[c] = s
  BY <1>4 DEF Inv, TypeOK
<1>6. \A d \in Call, x \in Endpoint :
          <<d, x>> \in wire' => <<d, x>> \in wire \/ (d = c /\ x = e)
  BY <1>1
<1>7. TypeOK'
  <2>1. wire' \subseteq Call \X Endpoint
    BY <1>1, <1>2 DEF Inv, TypeOK
  <2>2. call' \in [Call -> State]
    BY <1>3, <1>4 DEF Inv, TypeOK
  <2> QED
    BY <2>1, <2>2 DEF Attempt, Inv, TypeOK, config
<1>8. Alone(c)
  BY <1>1, <1>4, <1>6 DEF Attempt, Alone, Same, config, Inv, TypeOK
<1>9. call[c].outcome = None /\ call[c].pc = "select"
  BY DEF Attempt, Inv, CallInv, Placed
<1>10. Placed(c)'
  BY <1>2, <1>4, <1>5, <1>9, NoneAssumption DEF Placed, Failure
<1>11. Bound(c)'
  <2> SUFFICES ASSUME mutating[c]'
               PROVE  SentUnder(c, binding[call[c].at])' /\ call'[c].outcome # "IDEMPOTENCY_CONFLICT"
    BY <1>4, <1>5 DEF Bound
  <2>0. mutating[c]
    BY DEF Attempt, config
  <2>1. SentUnder(c, binding[e])
    <3>1. CASE call[c].lost
      <4>1. call[c].retry \in Session /\ SentUnder(c, call[c].retry)
        BY <1>9, <2>0, <3>1 DEF Inv, CallInv, Bound
      <4>2. binding[e] = call[c].retry
        BY <2>0, <4>1, NoneAssumption DEF Choices, Equivalent
      <4> QED
        BY <4>1, <4>2
    <3>2. CASE ~call[c].lost
      <4>1. Unsent(c)
        BY <1>9, <2>0, <3>2 DEF Inv, CallInv, Placed
      <4> QED
        BY <4>1 DEF Unsent, SentUnder, Reply
    <3> QED
      BY <3>1, <3>2
  <2>2. SentUnder(c, binding[call[c].at])'
    <3>1. call'[c].at = e
      BY <1>4, <1>5
    <3>2. binding' = binding /\ rows' = rows /\ replies' = replies
      BY DEF Attempt, config
    <3> QED
      BY <1>6, <2>1, <3>1, <3>2 DEF SentUnder
  <2> QED
    BY <1>4, <1>5, <1>9, <2>2, NoneAssumption DEF Reply
<1>12. Counted(c)'
  <2> SUFFICES ASSUME mutating[c] PROVE Counted(c)'
    BY DEF Attempt, Counted, config
  <2>1. CASE ledger
    BY <2>1 DEF Attempt, Inv, CallInv, Counted, config
  <2>2. CASE ~ledger
    <3>1. ~call[c].lost /\ Unsent(c)
      BY <1>9, <2>2 DEF Inv, CallInv, Counted, Placed
    <3> QED
      BY <1>4, <1>5, <1>6, <2>2, <3>1 DEF Attempt, Counted, Unsent, config
  <2> QED
    BY <2>1, <2>2
<1>13. ReadsNeverConflict(c)'
  BY <1>4, <1>5 DEF Attempt, Inv, CallInv, ReadsNeverConflict, config
<1> QED
  BY <1>7, <1>8, <1>10, <1>11, <1>12, <1>13, AloneSuffices DEF CallInv

----------------------------------------------------------------------------
(* The network and the agent                                               *)

LEMMA DropKeeps ==
    ASSUME Inv, NEW c \in Call, NEW e \in Endpoint, Drop(c, e)
    PROVE  Inv'
<1>1. TypeOK' /\ Alone(c)
  BY DEF Drop, Inv, TypeOK, Alone, Same, config
<1>2. Unsent(c) => Unsent(c)'
  BY DEF Drop, Unsent
<1>3. Placed(c)'
  BY <1>2 DEF Drop, Inv, CallInv, Placed
<1>4. Bound(c)'
  BY DEF Drop, Inv, CallInv, Bound, SentUnder, config
<1>5. Counted(c)' /\ ReadsNeverConflict(c)'
  BY DEF Drop, Inv, CallInv, Counted, ReadsNeverConflict, config
<1> QED
  BY <1>1, <1>3, <1>4, <1>5, AloneSuffices DEF CallInv

\* The row of c becomes x and its effects n.
Served(c, x, n) ==
    /\ rows' = [rows EXCEPT ![c] = x]
    /\ runs' = [runs EXCEPT ![c] = n]

\* The agent serves one copy.
LEMMA AnswerKeeps ==
    ASSUME Inv, NEW c \in Call, NEW e \in Endpoint, <<c, e>> \in wire,
           NEW code \in Reply, Answer(c, e, code), UNCHANGED <<config, pool, call>>,
           NEW x \in {rows[c], binding[e]}, NEW n \in Nat, Served(c, x, n),
           code = "IDEMPOTENCY_CONFLICT" => mutating[c] /\ rows[c] \notin {None, binding[e]},
           mutating[c] /\ ledger => n = IF x = None THEN 0 ELSE 1,
           mutating[c] /\ ~ledger => n \in {0, 1}
    PROVE  Inv'
<1>1. TypeOK'
  BY DEF Inv, TypeOK, Answer, Served, config
<1>2. rows'[c] = x /\ runs'[c] = n
  BY DEF Served, Inv, TypeOK
<1>3. /\ wire' = wire \ {<<c, e>>}
      /\ \A d \in Call, y \in Endpoint, z \in Reply :
            <<d, y, z>> \in replies' =>
               \/ <<d, y, z>> \in replies
               \/ d = c /\ y = e /\ z = code /\ call[c].pc = "sent" /\ call[c].at = e
      /\ replies \subseteq replies'
  BY DEF Answer
<1>4. Alone(c)
  BY <1>3 DEF Alone, Same, Served, config, Inv, TypeOK
<1>5. ~Unsent(c)
  BY DEF Unsent
<1>6. Placed(c)'
  BY <1>5 DEF Inv, CallInv, Placed
<1>7. "IDEMPOTENCY_CONFLICT" \in Reply
  BY DEF Reply
<1>8. Bound(c)'
  <2> SUFFICES ASSUME mutating[c] PROVE Bound(c)'
    BY DEF Bound, config
  <2>1. call[c].outcome # "IDEMPOTENCY_CONFLICT"
    BY DEF Inv, CallInv, Bound
  <2>2. ASSUME call[c].pc = "select", call[c].lost
        PROVE  call[c].retry \in Session /\ SentUnder(c, call[c].retry)'
    <3>1. call[c].retry \in Session /\ SentUnder(c, call[c].retry)
      BY <2>2 DEF Inv, CallInv, Bound
    <3> QED
      BY <1>2, <1>3, <1>7, <2>2, <3>1 DEF SentUnder, config
  <2>3. ASSUME call[c].pc = "sent"
        PROVE  SentUnder(c, binding[call[c].at])'
    <3>1. SentUnder(c, binding[call[c].at])
      BY <2>3 DEF Inv, CallInv, Bound
    <3> QED
      BY <1>2, <1>3, <1>7, <3>1 DEF SentUnder, config
  <2> QED
    BY <2>1, <2>2, <2>3 DEF Bound, SentUnder, config
<1>9. Counted(c)'
  BY <1>2, <1>3 DEF Inv, CallInv, Counted, config
<1>10. ReadsNeverConflict(c)'
  BY <1>3, <1>7 DEF Inv, CallInv, ReadsNeverConflict, config
<1> QED
  BY <1>1, <1>4, <1>6, <1>8, <1>9, <1>10, AloneSuffices DEF CallInv

LEMMA ServeKeeps ==
    ASSUME Inv, NEW c \in Call, NEW e \in Endpoint,
           Expire(c, e) \/ Execute(c, e) \/ Recognise(c, e)
    PROVE  Inv'
<1>1. /\ rows[c] \in Session \cup {None}
      /\ binding[e] \in Session
      /\ runs[c] \in Nat
      /\ rows = [rows EXCEPT ![c] = rows[c]]
      /\ runs = [runs EXCEPT ![c] = runs[c]]
  BY DEF Inv, TypeOK
<1>2. /\ mutating[c] /\ ledger => runs[c] = IF rows[c] = None THEN 0 ELSE 1
      /\ mutating[c] /\ ~ledger => runs[c] \in {0, 1}
      /\ mutating[c] /\ ~ledger /\ <<c, e>> \in wire => runs[c] = 0
  BY DEF Inv, CallInv, Counted
<1>3. CASE Expire(c, e)
  <2>1. "SESSION_EXPIRED" \in Reply /\ "SESSION_EXPIRED" # "IDEMPOTENCY_CONFLICT"
    BY DEF Reply
  <2>2. Served(c, rows[c], runs[c])
    BY <1>1, <1>3 DEF Expire, Served
  <2> QED
    BY <1>1, <1>2, <1>3, <2>1, <2>2, AnswerKeeps DEF Expire
<1>4. CASE Execute(c, e)
  <2> DEFINE x == IF mutating[c] /\ ledger THEN binding[e] ELSE rows[c]
  <2>1. "RESULT" \in Reply /\ "RESULT" # "IDEMPOTENCY_CONFLICT"
    BY DEF Reply
  <2>2. rows' = [rows EXCEPT ![c] = x] /\ runs' = [runs EXCEPT ![c] = runs[c] + 1]
    BY <1>1, <1>4 DEF Execute, Inv, TypeOK
  <2>3. /\ mutating[c] /\ ledger => runs[c] + 1 = IF x = None THEN 0 ELSE 1
        /\ mutating[c] /\ ~ledger => runs[c] + 1 \in {0, 1}
        /\ runs[c] + 1 \in Nat
    BY <1>1, <1>2, <1>4, NoneAssumption DEF Execute
  <2>4. x \in {rows[c], binding[e]}
    OBVIOUS
  <2>5. <<c, e>> \in wire /\ Answer(c, e, "RESULT") /\ UNCHANGED <<config, pool, call>>
    BY <1>4 DEF Execute
  <2> DEFINE n == runs[c] + 1
  <2>6. Served(c, x, n) /\ n \in Nat
    BY <2>2, <2>3 DEF Served
  <2>7. /\ mutating[c] /\ ledger => n = IF x = None THEN 0 ELSE 1
        /\ mutating[c] /\ ~ledger => n \in {0, 1}
    BY <2>3
  <2> HIDE DEF x, n
  <2> QED
    BY <2>1, <2>4, <2>5, <2>6, <2>7, AnswerKeeps
<1>5. CASE Recognise(c, e)
  <2>1. PICK code \in (IF rows[c] = binding[e] THEN {"RESULT", "REQUEST_OUTCOME_UNKNOWN"}
                                               ELSE {"IDEMPOTENCY_CONFLICT"}) :
            Answer(c, e, code)
    BY <1>5 DEF Recognise
  <2>2. /\ code \in Reply
        /\ code = "IDEMPOTENCY_CONFLICT" => mutating[c] /\ rows[c] \notin {None, binding[e]}
    BY <1>5, <2>1 DEF Recognise, Reply
  <2>3. /\ <<c, e>> \in wire
        /\ UNCHANGED <<config, pool, call>>
        /\ Served(c, rows[c], runs[c])
    BY <1>1, <1>5 DEF Recognise, Served
  <2> QED
    BY <1>1, <1>2, <2>1, <2>2, <2>3, AnswerKeeps
<1> QED
  BY <1>3, <1>4, <1>5

LEMMA NextKeepsInv == Inv /\ [Next]_vars => Inv'
<1> SUFFICES ASSUME Inv, [Next]_vars PROVE Inv'
  OBVIOUS
<1>1. ASSUME UNCHANGED <<config, call, wire, replies, rows, runs>>,
             pool' \in [Endpoint -> {"new", "live", "gone"}]
      PROVE  Inv'
  <2>1. TypeOK' /\ ConfigTrue'
    BY <1>1 DEF Inv, TypeOK, ConfigTrue, config
  <2>2. ASSUME NEW c \in Call PROVE CallInv(c)'
    BY <1>1, OthersKeep DEF Inv, Same
  <2> QED
    BY <2>1, <2>2 DEF Inv
<1>2. ASSUME NEW e \in Endpoint, register(e) \/ remove(e) PROVE Inv'
  BY <1>1, <1>2 DEF register, remove, Inv, TypeOK
<1>3. ASSUME NEW c \in Call, Begin(c) \/ Progress(c) PROVE Inv'
  BY <1>3, BeginKeeps, AttemptKeeps, NothingLeftKeeps, LoseKeeps, BreakKeeps, ReturnKeeps
     DEF Progress
<1>4. ASSUME NEW c \in Call, NEW e \in Endpoint,
             Drop(c, e) \/ Expire(c, e) \/ Execute(c, e) \/ Recognise(c, e)
      PROVE  Inv'
  BY <1>4, DropKeeps, ServeKeeps
<1>5. CASE UNCHANGED vars
  BY <1>1, <1>5 DEF vars, Inv, TypeOK
<1> QED
  BY <1>2, <1>3, <1>4, <1>5 DEF Next

\* The invariant holds in every reachable state.
THEOREM PoolInvariant == Spec => []Inv
BY InitEstablishesInv, NextKeepsInv, PTL DEF Spec

----------------------------------------------------------------------------
(* What the pool promises                                                  *)

\* The controller's calls, the wire and the agent keep their types.
THEOREM TypeCorrect == Spec => []TypeOK
BY PoolInvariant, PTL DEF Inv

\* HotSessionPool.request never makes a mutation take effect twice: a retry
\* goes only where a ledger stands.
THEOREM FailoverNeverRepeats == Spec => []MutationAtMostOnce
<1>1. Inv => MutationAtMostOnce
  BY DEF Inv, CallInv, Counted, MutationAtMostOnce
<1> QED
  BY <1>1, PoolInvariant, PTL

\* A retry is never answered as a conflict with its own first copy: it stays
\* with the session whose lane prefix the ledger has hashed.
THEOREM RetriesAreRecognised == Spec => []NoConflictWithItself
<1>1. Inv => NoConflictWithItself
  BY DEF Inv, CallInv, Bound, ReadsNeverConflict, NoConflictWithItself, TypeOK
<1> QED
  BY <1>1, PoolInvariant, PTL

\* NoCurrentPath is raised only for a request no copy of which left.
THEOREM NoPathIsHonest == Spec => []NoPathMeansNotSent
<1>1. Inv => NoPathMeansNotSent
  BY DEF Inv, CallInv, Placed, Unsent, NoPathMeansNotSent
<1> QED
  BY <1>1, PoolInvariant, PTL

----------------------------------------------------------------------------
(* Reads                                                                   *)

\* A read is bound to no session, and fails for want of a stream only with
\* every usable path behind it.
ReadInv(c) ==
    ~mutating[c] =>
        /\ call[c].retry = None
        /\ call[c].outcome = "STREAM_CLOSED" => call[c].usable \subseteq call[c].attempted

Reads == \A c \in Call : ReadInv(c)

\* A step of another call, or of the network or the agent.
LEMMA OtherReadsKeep ==
    ASSUME TypeOK, NEW c \in Call, NEW d \in Call, c # d, NEW s,
           call' = [call EXCEPT ![c] = s], UNCHANGED config, ReadInv(d)
    PROVE  ReadInv(d)'
BY DEF ReadInv, TypeOK, config

\* The request loop ends a read with StreamClosed only in NothingLeft, where a
\* read, bound to no session, has no choice but what it has not attempted.
LEMMA ReadsProgress ==
    ASSUME Inv, NEW c \in Call, ReadInv(c), Begin(c) \/ Progress(c)
    PROVE  /\ ReadInv(c)'
           /\ \E s : call' = [call EXCEPT ![c] = s]
           /\ UNCHANGED config
<1>0. call[c] \in State /\ call \in [Call -> State]
  BY DEF Inv, TypeOK
<1>1. "STREAM_CLOSED" \in Failure /\ "STREAM_CLOSED" \notin Reply
  BY DEF Failure, Reply
<1>2. call[c].pc # "done" => call[c].outcome = None
  BY DEF Inv, CallInv, Placed
<1>3. UNCHANGED config
  BY DEF Begin, Progress, Attempt, NothingLeft, Lose, Break, Return
<1>4. ASSUME NEW outcome, Finish(c, outcome),
             ~mutating[c] /\ outcome = "STREAM_CLOSED" => call[c].usable \subseteq call[c].attempted
      PROVE  ReadInv(c)' /\ \E s : call' = [call EXCEPT ![c] = s]
  BY <1>0, <1>3, <1>4 DEF Finish, ReadInv, State, config
<1>5. CASE Begin(c)
  <2>1. PICK current \in SUBSET Live : \E usable \in SUBSET current :
          call' = [call EXCEPT ![c].pc = "select", ![c].current = current,
                               ![c].usable = usable]
    BY <1>5 DEF Begin
  <2>2. call'[c].retry = call[c].retry /\ call'[c].outcome = call[c].outcome
    BY <1>0, <2>1 DEF State
  <2>3. call'[c].outcome # "STREAM_CLOSED"
    BY <1>1, <1>2, <1>5, <2>2, NoneAssumption DEF Begin
  <2>4. ReadInv(c)'
    BY <1>3, <2>2, <2>3 DEF ReadInv, config
  <2> QED
    BY <1>3, <2>1, <2>4
<1>6. CASE Attempt(c)
  <2>1. PICK e \in Choices(c) :
          call' = [call EXCEPT ![c].pc = "sent", ![c].at = e,
                               ![c].attempted = @ \cup {e}]
    BY <1>6 DEF Attempt
  <2>2. call'[c].retry = call[c].retry /\ call'[c].outcome = call[c].outcome
    BY <1>0, <2>1 DEF State
  <2>3. call'[c].outcome # "STREAM_CLOSED"
    BY <1>1, <1>2, <1>6, <2>2, NoneAssumption DEF Attempt
  <2>4. ReadInv(c)'
    BY <1>3, <2>2, <2>3 DEF ReadInv, config
  <2> QED
    BY <1>3, <2>1, <2>4
<1>7. CASE NothingLeft(c)
  <2>1. ASSUME ~mutating[c] PROVE call[c].usable \subseteq call[c].attempted
    BY <1>7, <2>1 DEF NothingLeft, Choices, ReadInv
  <2> QED
    BY <1>3, <1>4, <1>7, <2>1 DEF NothingLeft
<1>8. CASE Lose(c)
  <2>1. CASE mutating[c] /\ ~Compatible(c)
    BY <1>3, <1>4, <1>8, <2>1 DEF Lose
  <2>2. CASE mutating[c] /\ Compatible(c)
    BY <1>3, <1>8, <2>2 DEF Lose, ReadInv, config
  <2>3. CASE ~mutating[c]
    <3>1. call' = [call EXCEPT ![c].pc = "select", ![c].lost = TRUE]
      BY <1>8, <2>3 DEF Lose
    <3>2. call'[c].retry = call[c].retry /\ call'[c].outcome = call[c].outcome
      BY <1>0, <3>1 DEF State
    <3>3. call'[c].outcome # "STREAM_CLOSED"
      BY <1>1, <1>2, <1>8, <3>2, NoneAssumption DEF Lose
    <3>4. ReadInv(c)'
      BY <1>3, <3>2, <3>3 DEF ReadInv, config
    <3> QED
      BY <1>3, <3>1, <3>4
  <2> QED
    BY <2>1, <2>2, <2>3
<1>9. CASE Break(c) \/ Return(c)
  BY <1>1, <1>3, <1>4, <1>9 DEF Break, Return
<1> QED
  BY <1>5, <1>6, <1>7, <1>8, <1>9 DEF Progress

\* Every step keeps it, given the invariant of the calls.
LEMMA ReadsKeep == Inv /\ Reads /\ [Next]_vars => Reads'
<1> SUFFICES ASSUME Inv, Reads, [Next]_vars PROVE Reads'
  OBVIOUS
<1>1. ASSUME NEW c \in Call, Begin(c) \/ Progress(c) PROVE Reads'
  <2>1. ReadInv(c)' /\ UNCHANGED config /\ \E s : call' = [call EXCEPT ![c] = s]
    BY <1>1, ReadsProgress DEF Reads
  <2>2. ASSUME NEW d \in Call, c # d PROVE ReadInv(d)'
    BY <2>1, <2>2, OtherReadsKeep DEF Inv, Reads
  <2> QED
    BY <2>1, <2>2 DEF Reads
<1>2. ASSUME UNCHANGED <<config, call>> PROVE Reads'
  BY <1>2 DEF Reads, ReadInv, config
<1>3. ASSUME NEW e \in Endpoint, register(e) \/ remove(e) PROVE Reads'
  BY <1>2, <1>3 DEF register, remove
<1>4. ASSUME NEW c \in Call, NEW e \in Endpoint,
             Drop(c, e) \/ Expire(c, e) \/ Execute(c, e) \/ Recognise(c, e)
      PROVE  Reads'
  BY <1>2, <1>4 DEF Drop, Expire, Execute, Recognise
<1>5. CASE UNCHANGED vars
  BY <1>2, <1>5 DEF vars
<1> QED
  BY <1>1, <1>3, <1>4, <1>5 DEF Next

\* HotSessionPool.request gives up on a read with StreamClosed only after it has
\* sent it over every path that select_path would take.
THEOREM ReadsExhaustPaths == Spec => []ReadsTryEveryPath
<1>1. Init => Reads
  BY DEF Init, Reads, ReadInv, Idle
<1>2. Reads => ReadsTryEveryPath
  BY DEF Reads, ReadInv, ReadsTryEveryPath
<1> QED
  BY <1>1, <1>2, ReadsKeep, PoolInvariant, PTL DEF Spec

=============================================================================
