----------------------- MODULE MultiplexedStreamProofs -----------------------
(***************************************************************************)
(* Theorems about one multiplexed connection, for any number of calls, any *)
(* reuse of request ids, any number of slots and any buffering.            *)
(***************************************************************************)
EXTENDS MultiplexedStream, FiniteSetTheorems, TLAPS

\* The calls a direction has frames of.
Frames(s) == {s[k] : k \in DOMAIN s}

\* No call has two.
Once(s) == \A j, k \in DOMAIN s : s[j] = s[k] => j = k

\* write() adds a frame behind the others.
LEMMA AppendFrames ==
    ASSUME NEW s \in Seq(Call), NEW c \in Call
    PROVE  /\ Append(s, c) \in Seq(Call)
           /\ Frames(Append(s, c)) = Frames(s) \cup {c}
           /\ Once(s) /\ c \notin Frames(s) => Once(Append(s, c))
<1>1. /\ Append(s, c) \in Seq(Call)
      /\ Len(Append(s, c)) = Len(s) + 1
      /\ \A k \in 1..Len(s) : Append(s, c)[k] = s[k]
      /\ Append(s, c)[Len(s) + 1] = c
  OBVIOUS
<1>2. /\ DOMAIN s = 1..Len(s)
      /\ DOMAIN Append(s, c) = 1..(Len(s) + 1)
      /\ Len(s) \in Nat
  BY <1>1
<1>3. Frames(Append(s, c)) = Frames(s) \cup {c}
  BY <1>1, <1>2 DEF Frames
<1>4. Once(s) /\ c \notin Frames(s) => Once(Append(s, c))
  BY <1>1, <1>2 DEF Frames, Once
<1> QED
  BY <1>1, <1>3, <1>4

\* read_frame takes the first.
LEMMA TailFrames ==
    ASSUME NEW s \in Seq(Call), s # <<>>
    PROVE  /\ Tail(s) \in Seq(Call)
           /\ Head(s) \in Call
           /\ Frames(s) = Frames(Tail(s)) \cup {Head(s)}
           /\ Once(s) => Once(Tail(s)) /\ Head(s) \notin Frames(Tail(s))
<1>1. /\ Tail(s) \in Seq(Call)
      /\ Len(s) \in Nat \ {0}
      /\ Len(Tail(s)) = Len(s) - 1
      /\ \A k \in 1..(Len(s) - 1) : Tail(s)[k] = s[k + 1]
      /\ Head(s) = s[1]
      /\ Head(s) \in Call
  OBVIOUS
<1>2. /\ DOMAIN s = 1..Len(s)
      /\ DOMAIN Tail(s) = 1..(Len(s) - 1)
  BY <1>1
<1>3. Frames(s) \subseteq Frames(Tail(s)) \cup {Head(s)}
  <2> SUFFICES ASSUME NEW k \in 1..Len(s), k # 1
               PROVE  s[k] \in Frames(Tail(s))
    BY <1>1, <1>2 DEF Frames
  <2>1. k - 1 \in 1..(Len(s) - 1) /\ Tail(s)[k - 1] = s[k]
    BY <1>1
  <2> QED
    BY <2>1, <1>2 DEF Frames
<1>4. Frames(Tail(s)) \cup {Head(s)} \subseteq Frames(s)
  BY <1>1, <1>2 DEF Frames
<1>5. Once(s) => Once(Tail(s)) /\ Head(s) \notin Frames(Tail(s))
  BY <1>1, <1>2 DEF Frames, Once
<1> QED
  BY <1>1, <1>3, <1>4, <1>5

\* A broken connection keeps a prefix.
LEMMA PrefixFrames ==
    ASSUME NEW s \in Seq(Call), NEW m \in 0..Len(s)
    PROVE  /\ SubSeq(s, 1, m) \in Seq(Call)
           /\ Frames(SubSeq(s, 1, m)) \subseteq Frames(s)
           /\ Once(s) => Once(SubSeq(s, 1, m))
<1>1. /\ SubSeq(s, 1, m) \in Seq(Call)
      /\ Len(SubSeq(s, 1, m)) = m
      /\ \A k \in 1..m : SubSeq(s, 1, m)[k] = s[k]
  OBVIOUS
<1>2. /\ DOMAIN s = 1..Len(s)
      /\ DOMAIN SubSeq(s, 1, m) = 1..m
      /\ 1..m \subseteq 1..Len(s)
  BY <1>1
<1> QED
  BY <1>1, <1>2 DEF Frames, Once

LEMMA NoFrames == /\ <<>> \in Seq(Call)
                  /\ Frames(<<>>) = {}
                  /\ Once(<<>>)
BY DEF Frames, Once

----------------------------------------------------------------------------
(* The invariant of the frames.                                            *)

Types ==
    /\ pc \in [Call -> {"idle", "lock", "drain", "wait", "closing", "done"}]
    /\ fut \in [Call -> {"pending", "result", "failed", "protocol", "dropped"}]
    /\ pending \in [RequestId -> Call \cup {None}]
    /\ closed \in BOOLEAN
    /\ closer \in Call \cup {"owner", "nobody"}
    /\ reader \in BOOLEAN
    /\ toServer \in Seq(Call)
    /\ toClient \in Seq(Call)
    /\ shut \subseteq {"client", "server"}
    /\ broken \in {"no", "eof", "reset"}
    /\ srv \in {"acquire", "read", "gather", "session", "ended"}
    /\ free \in Nat
    /\ task \in [Call -> {"none", "running", "write", "drain", "done"}]

\* A request is in one place at a time, once.
Placed ==
    /\ Once(toServer) /\ Once(toClient)
    /\ \A c \in Call :
         /\ pc[c] \in {"idle", "lock"} => task[c] = "none" /\ c \notin Frames(toServer)
         /\ c \in Frames(toServer) => task[c] = "none"
         /\ c \in Frames(toClient) => task[c] \in {"drain", "done"}

\* The signs that the connection is over.
Ends ==
    /\ "client" \in shut \/ closer # "nobody" => closed
    /\ broken = "reset" => toClient = <<>>
    /\ \A c \in Call :
         pc[c] \notin {"closing", "done"} /\ fut[c] \notin {"pending", "result"} => closed

\* Its response is still to come.
Awaited(c) ==
    \/ c \in Frames(toServer)
    \/ task[c] \in {"running", "write"}
    \/ c \in Frames(toClient)

\* What is sent, or about to be, has its own entry in the table as long as the
\* client is open; afterwards at least nobody else has it.
Entries ==
    broken # "reset" =>
        \A c \in Call : Awaited(c) \/ pc[c] = "lock" =>
            pending[Id[c]] = c \/ (closed /\ pending[Id[c]] = None)

StreamInv == Types /\ Placed /\ Ends /\ Entries

\* One step of either side, or of the network, keeps the invariant.
LEMMA StreamStep ==
    ASSUME StreamInv, [Next]_vars
    PROVE  StreamInv'
<1> USE IdAssumption, BoundAssumption, NoneAssumption DEF StreamInv
<1> SUFFICES ASSUME Types, Placed, Ends, Entries
             PROVE  Types' /\ Placed' /\ Ends' /\ Entries'
  OBVIOUS
<1>1. ASSUME NEW c \in Call, Refuse(c)
      PROVE  Types' /\ Placed' /\ Ends' /\ Entries'
  BY <1>1 DEF Refuse, Leave, Types, Placed, Ends, Entries, Awaited, client, server, channel
<1>2. ASSUME NEW c \in Call, Enter(c)
      PROVE  Types' /\ Placed' /\ Ends' /\ Entries'
  BY <1>2 DEF Enter, Goto, Types, Placed, Ends, Entries, Awaited, client, server, channel
<1>3. ASSUME NEW c \in Call, Write(c)
      PROVE  Types' /\ Placed' /\ Ends' /\ Entries'
  BY <1>3, AppendFrames DEF Write, Goto, Over, Types, Placed, Ends, Entries, Awaited, client, server, channel
<1>4. ASSUME NEW c \in Call, WriteLate(c)
      PROVE  Types' /\ Placed' /\ Ends' /\ Entries'
  <2>1. CASE Goto(c, "wait") /\ UNCHANGED pending
    BY <1>4, <2>1 DEF WriteLate, Goto, Types, Placed, Ends, Entries, Awaited, client, server, channel
  <2>2. CASE Leave(c, "done") /\ Pop(Id[c])
    BY <1>4, <2>2 DEF WriteLate, Leave, Pop, Types, Placed, Ends, Entries, Awaited, client, server, channel
  <2> QED
    BY <1>4, <2>1, <2>2 DEF WriteLate
<1>5. ASSUME NEW c \in Call, WriteTooLarge(c)
      PROVE  Types' /\ Placed' /\ Ends' /\ Entries'
  BY <1>5 DEF WriteTooLarge, Leave, Pop, Types, Placed, Ends, Entries, Awaited, client, server, channel
<1>6. ASSUME NEW c \in Call, Drained(c)
      PROVE  Types' /\ Placed' /\ Ends' /\ Entries'
  BY <1>6 DEF Drained, Goto, Types, Placed, Ends, Entries, Awaited, client, server, channel
<1>7. ASSUME NEW c \in Call, DrainFails(c)
      PROVE  Types' /\ Placed' /\ Ends' /\ Entries'
  BY <1>7 DEF DrainFails, Leave, Pop, Types, Placed, Ends, Entries, Awaited, client, server, channel
<1>8. ASSUME NEW c \in Call, Resume(c)
      PROVE  Types' /\ Placed' /\ Ends' /\ Entries'
  BY <1>8 DEF Resume, Leave, Pop, Types, Placed, Ends, Entries, Awaited, client, server, channel
<1>9. ASSUME NEW c \in Call, Timeout(c)
      PROVE  Types' /\ Placed' /\ Ends' /\ Entries'
  <2>1. Types'
    BY <1>9 DEF Timeout, Leave, Pop, BeginClose, Types, client, server, channel
  <2>2. Placed'
    BY <1>9 DEF Timeout, Leave, Pop, BeginClose, Types, Placed, client, server, channel
  <2>3. Ends'
    BY <1>9 DEF Timeout, Leave, Pop, BeginClose, Types, Ends, client, server, channel
  <2>4. Entries'
    BY <1>9 DEF Timeout, Leave, Pop, BeginClose, Types, Placed, Ends, Entries, Awaited, client, server, channel
  <2> QED
    BY <2>1, <2>2, <2>3, <2>4
<1>10. ASSUME NEW c \in Call, Cancel(c)
      PROVE  Types' /\ Placed' /\ Ends' /\ Entries'
  BY <1>10 DEF Cancel, Leave, Types, Placed, Ends, Entries, Awaited, client, server, channel
<1>11. ASSUME NEW c \in Call, HandlerEnds(c)
      PROVE  Types' /\ Placed' /\ Ends' /\ Entries'
  BY <1>11 DEF HandlerEnds, Types, Placed, Ends, Entries, Awaited, client, server, channel
<1>12. ASSUME NEW c \in Call, WriteResponse(c)
      PROVE  Types' /\ Placed' /\ Ends' /\ Entries'
  BY <1>12, AppendFrames DEF WriteResponse, Over, Types, Placed, Ends, Entries, Awaited, client, server, channel
<1>13. ASSUME NEW c \in Call, ResponseDrained(c)
      PROVE  Types' /\ Placed' /\ Ends' /\ Entries'
  BY <1>13 DEF ResponseDrained, Types, Placed, Ends, Entries, Awaited, client, server, channel
<1>14. ASSUME NEW c \in Call, WriteFails(c)
      PROVE  Types' /\ Placed' /\ Ends' /\ Entries'
  BY <1>14 DEF WriteFails, Types, Placed, Ends, Entries, Awaited, client, server, channel
<1>15. CASE close
  BY <1>15 DEF close, BeginClose, Types, Placed, Ends, Entries, Awaited, client, server, channel
<1>16. CASE FinishClose
  <2>1. Types'
    BY <1>16, NoFrames DEF FinishClose, FailPending, Types, client, server, channel
  <2>2. Placed'
    BY <1>16, NoFrames DEF FinishClose, FailPending, Types, Placed, client, server, channel
  <2>3. Ends'
    BY <1>16, NoFrames DEF FinishClose, FailPending, Types, Ends, client, server, channel
  <2>4. Entries'
    BY <1>16, NoFrames DEF FinishClose, FailPending, Types, Placed, Ends, Entries, Awaited, client, server, channel
  <2> QED
    BY <2>1, <2>2, <2>3, <2>4
<1>17. CASE ReadResponse
  <2> DEFINE r == Head(toClient)
  <2>1. /\ toClient # <<>> /\ toClient' = Tail(toClient)
        /\ pending' = [pending EXCEPT ![Id[r]] = None]
        /\ fut' = [fut EXCEPT ![pending[Id[r]]] = IF @ = "pending" THEN "result" ELSE @]
        /\ reader' = ~closed
        /\ pending[Id[r]] # None
        /\ UNCHANGED <<pc, closed, closer, srv, free, task, toServer, shut, broken>>
    BY <1>17 DEF ReadResponse, Pop, server
  <2>2. /\ Tail(toClient) \in Seq(Call) /\ r \in Call
        /\ Frames(toClient) = Frames(toClient') \cup {r}
        /\ Once(toClient') /\ r \notin Frames(toClient')
    BY <2>1, TailFrames DEF Types, Placed
  <2>3. broken # "reset" /\ pending[Id[r]] = r /\ Id[r] \in RequestId
    BY <2>1, <2>2 DEF Ends, Entries, Awaited, Types
  <2>4. Types'
    BY <2>1, <2>2, <2>3 DEF Types
  <2>5. Placed'
    BY <2>1, <2>2 DEF Placed
  <2>6. Ends'
    BY <2>1, <2>2, <2>3 DEF Types, Ends
  <2>7. Entries'
    BY <2>1, <2>2, <2>3 DEF Types, Placed, Entries, Awaited
  <2> QED
    BY <2>4, <2>5, <2>6, <2>7
<1>18. CASE ReadUnsolicited
  <2>1. Types'
    BY <1>18, TailFrames DEF ReadUnsolicited, LoopFails, FailPending, Types, client, server, channel
  <2>2. Placed'
    BY <1>18, TailFrames DEF ReadUnsolicited, LoopFails, FailPending, Types, Placed, client, server, channel
  <2>3. Ends'
    BY <1>18, TailFrames DEF ReadUnsolicited, LoopFails, FailPending, Types, Ends, client, server, channel
  <2>4. Entries'
    BY <1>18, TailFrames DEF ReadUnsolicited, LoopFails, FailPending, Types, Placed, Ends, Entries, Awaited, client, server, channel
  <2> QED
    BY <2>1, <2>2, <2>3, <2>4
<1>19. CASE ReadEnd
  BY <1>19 DEF ReadEnd, LoopFails, FailPending, Over, Types, Placed, Ends, Entries, Awaited, client, server, channel
<1>20. CASE Acquire
  BY <1>20 DEF Acquire, Types, Placed, Ends, Entries, Awaited, client, server, channel
<1>21. CASE ReadRequest
  BY <1>21, TailFrames DEF ReadRequest, Types, Placed, Ends, Entries, Awaited, client, server, channel
<1>22. CASE ReadClosed
  BY <1>22 DEF ReadClosed, Types, Placed, Ends, Entries, Awaited, client, server, channel
<1>23. CASE Gather
  BY <1>23 DEF Gather, Types, Placed, Ends, Entries, Awaited, client, server, channel
<1>24. CASE CloseSession
  BY <1>24 DEF CloseSession, Types, Placed, Ends, Entries, Awaited, client, server, channel
<1>25. ASSUME NEW how \in {"eof", "reset"}, Break(how)
      PROVE  Types' /\ Placed' /\ Ends' /\ Entries'
  BY <1>25, PrefixFrames, NoFrames DEF Break, Types, Placed, Ends, Entries, Awaited, client, server, channel
<1>26. CASE UNCHANGED vars
  BY <1>26 DEF Types, Placed, Ends, Entries, Awaited, vars, client, server, channel
<1> QED
  BY <1>1, <1>2, <1>3, <1>4, <1>5, <1>6, <1>7, <1>8, <1>9, <1>10, <1>11, <1>12, <1>13, <1>14, <1>15, <1>16, <1>17, <1>18, <1>19, <1>20, <1>21, <1>22, <1>23, <1>24, <1>25, <1>26
     DEF Next, ClientLoop, ServerLoop, Request, RunOne

LEMMA StreamStart == ASSUME Init PROVE StreamInv
BY IdAssumption, BoundAssumption, NoneAssumption, NoFrames
   DEF Init, StreamInv, Types, Placed, Ends, Entries, Awaited

\* The table holds the right entry for every request that is still to be
\* answered, whatever was cancelled, timed out or lost (MultiplexClient).
THEOREM StreamInvariant == Spec => []StreamInv
<1>1. Init => StreamInv
  BY StreamStart
<1>2. StreamInv /\ [Next]_vars => StreamInv'
  BY StreamStep
<1> QED
  BY <1>1, <1>2, PTL DEF Spec

----------------------------------------------------------------------------
(* Correlation                                                             *)

\* MultiplexClient._read_loop gives a response to the call that sent the
\* request, never to another call with the same request_id.
THEOREM ResponsesFindTheirCall == Spec => OwnAnswer
<1>1. ASSUME StreamInv, [Next]_vars, NEW c \in Call, fut[c] = "pending", fut'[c] = "result"
      PROVE  Head(toClient) = c
  <2>1. ReadResponse
    BY <1>1
       DEF Next, ClientLoop, ServerLoop, Request, RunOne, Refuse, Enter, Write, WriteLate,
           WriteTooLarge, Drained, DrainFails, Resume, Timeout, Cancel, Goto, Leave, close,
           FinishClose, FailPending, LoopFails, ReadUnsolicited, ReadEnd, Acquire, ReadRequest,
           ReadClosed, HandlerEnds, WriteResponse, ResponseDrained, WriteFails, Gather,
           CloseSession, Break, StreamInv, Types, vars, client
  <2> DEFINE r == Head(toClient)
  <2>2. /\ toClient # <<>> /\ pending[Id[r]] # None
        /\ fut' = [fut EXCEPT ![pending[Id[r]]] = IF @ = "pending" THEN "result" ELSE @]
    BY <2>1 DEF ReadResponse
  <2>3. r \in Call /\ r \in Frames(toClient)
    BY <1>1, <2>2, TailFrames DEF StreamInv, Types
  <2>4. pending[Id[r]] = r
    BY <1>1, <2>2, <2>3 DEF StreamInv, Ends, Entries, Awaited
  <2> QED
    BY <1>1, <2>2, <2>3, <2>4 DEF StreamInv, Types
<1>2. StreamInv /\ [Next]_vars =>
        [\A c \in Call : fut[c] = "pending" /\ fut'[c] = "result" => Head(toClient) = c]_vars
  BY <1>1
<1> QED
  BY <1>2, StreamInvariant, PTL DEF Spec, OwnAnswer

----------------------------------------------------------------------------
(* Admission                                                               *)

Running == {c \in Call : Active(c)}

LEMMA RunningIsFinite == IsFiniteSet(Running) /\ Cardinality(Running) \in Nat
<1>1. Running \subseteq Call
  BY DEF Running
<1>2. IsFiniteSet(Running)
  BY <1>1, CallAssumption, FS_Subset
<1> QED
  BY <1>2, FS_CardinalityType

\* A slot is taken when the loop has it in hand or a task runs on it.
LEMMA SlotsStep ==
    ASSUME StreamInv, SlotsBalance, [Next]_vars
    PROVE  SlotsBalance'
<1> USE BoundAssumption
<1>0. /\ free \in Nat /\ Cardinality(Running) \in Nat /\ IsFiniteSet(Running)
      /\ free + Cardinality(Running) + (IF srv = "read" THEN 1 ELSE 0) = MaxInflight
  BY RunningIsFinite DEF StreamInv, Types, SlotsBalance, Running
<1> DEFINE Goal == free' + Cardinality(Running') + (IF srv' = "read" THEN 1 ELSE 0) = MaxInflight
<1> SUFFICES Goal
  BY DEF SlotsBalance, Running
<1>1. ASSUME Running' = Running, UNCHANGED <<srv, free>>
      PROVE  Goal
  BY <1>0, <1>1
<1>2. ASSUME NEW c \in Call, Active(c), Running' = Running \ {c}, free' = free + 1, srv' = srv
      PROVE  Goal
  <2>1. Cardinality(Running \ {c}) = Cardinality(Running) - 1
    BY <1>0, <1>2, FS_RemoveElement DEF Running
  <2> QED
    BY <1>0, <1>2, <2>1
<1>3. ASSUME NEW c \in Call, ResponseDrained(c) \/ WriteFails(c)
      PROVE  Goal
  <2>1. /\ Active(c) /\ free' = free + 1 /\ srv' = srv
        /\ task' = [task EXCEPT ![c] = "done"]
    BY <1>3 DEF ResponseDrained, WriteFails, Active
  <2>2. Running' = Running \ {c}
    BY <2>1 DEF Running, Active, StreamInv, Types
  <2> QED
    BY <1>2, <2>1, <2>2
<1>4. CASE Acquire
  <2>1. Running' = Running /\ srv = "acquire" /\ srv' = "read" /\ free > 0 /\ free' = free - 1
    BY <1>4 DEF Acquire, Running, Active
  <2> QED
    BY <1>0, <2>1
<1>5. CASE ReadClosed
  <2>1. Running' = Running /\ srv = "read" /\ srv' = "gather" /\ free' = free + 1
    BY <1>5 DEF ReadClosed, Running, Active
  <2> QED
    BY <1>0, <2>1
<1>6. CASE ReadRequest
  <2> DEFINE r == Head(toServer)
  <2>1. /\ toServer # <<>> /\ srv = "read" /\ srv' = "acquire" /\ free' = free
        /\ task' = [task EXCEPT ![r] = "running"]
    BY <1>6 DEF ReadRequest
  <2>2. r \in Call /\ task[r] = "none"
    BY <2>1, TailFrames DEF StreamInv, Types, Placed
  <2>3. r \notin Running /\ Running' = Running \cup {r}
    BY <2>1, <2>2 DEF Running, Active, StreamInv, Types
  <2>4. Cardinality(Running \cup {r}) = Cardinality(Running) + 1
    BY <1>0, <2>3, FS_AddElement
  <2> QED
    BY <1>0, <2>1, <2>3, <2>4
<1>7. ASSUME NEW c \in Call, HandlerEnds(c) \/ WriteResponse(c)
      PROVE  Goal
  <2>1. /\ Active(c) /\ UNCHANGED <<srv, free>>
        /\ \/ task' = [task EXCEPT ![c] = "write"]
           \/ task' = [task EXCEPT ![c] = "drain"]
    BY <1>7 DEF HandlerEnds, WriteResponse, Active
  <2>2. Running' = Running
    BY <2>1 DEF Running, Active, StreamInv, Types
  <2> QED
    BY <1>1, <2>1, <2>2
<1>8. CASE Gather \/ CloseSession
  <2>1. /\ UNCHANGED <<free, task>>
        /\ srv # "read" /\ srv' # "read"
    BY <1>8 DEF Gather, CloseSession
  <2>2. Running' = Running
    BY <2>1 DEF Running, Active
  <2> QED
    BY <1>0, <2>1, <2>2
<1>9. CASE UNCHANGED server
  <2>1. Running' = Running /\ UNCHANGED <<srv, free>>
    BY <1>9 DEF Running, Active, server
  <2> QED
    BY <1>1, <2>1
<1>10. \/ UNCHANGED server \/ Gather \/ CloseSession \/ ReadRequest \/ ReadClosed \/ Acquire
       \/ \E c \in Call : RunOne(c)
  BY DEF Next, ClientLoop, ServerLoop, Request, Refuse, Enter, Write, WriteLate, WriteTooLarge,
         Drained, DrainFails, Resume, Timeout, Cancel, close, FinishClose, ReadResponse,
         ReadUnsolicited, ReadEnd, Break, vars
<1> QED
  BY <1>3, <1>4, <1>5, <1>6, <1>7, <1>8, <1>9, <1>10 DEF RunOne

\* serve_multiplexed neither loses slots nor makes them: max_inflight bounds the
\* requests that are read and not answered, as its docstring says.
THEOREM AdmissionIsBounded == Spec => []SlotsBalance
<1>1. Init => SlotsBalance
  <2> SUFFICES ASSUME Init PROVE SlotsBalance
    OBVIOUS
  <2>1. Running = {}
    BY DEF Init, Running, Active
  <2>2. Cardinality(Running) = 0
    BY <2>1, FS_EmptySet
  <2>3. free = MaxInflight /\ srv = "acquire"
    BY DEF Init
  <2> QED
    BY <2>2, <2>3, BoundAssumption DEF SlotsBalance, Running
<1>2. StreamInv /\ SlotsBalance /\ [Next]_vars => SlotsBalance'
  BY SlotsStep
<1> QED
  BY <1>1, <1>2, StreamInvariant, PTL DEF Spec

\* Type correctness; that free slots never exceed max_inflight is the balance.
THEOREM TypeCorrect == Spec => []TypeOK
<1>1. StreamInv /\ SlotsBalance => TypeOK
  <2> SUFFICES ASSUME StreamInv, SlotsBalance PROVE TypeOK
    OBVIOUS
  <2>1. free \in Nat /\ Cardinality(Running) \in Nat
    BY RunningIsFinite DEF StreamInv, Types
  <2>2. free \in 0..MaxInflight
    BY <2>1, BoundAssumption DEF SlotsBalance, Running
  <2> QED
    BY <2>2 DEF StreamInv, Types, TypeOK
<1> QED
  BY <1>1, StreamInvariant, AdmissionIsBounded, PTL

----------------------------------------------------------------------------
(* The end of the session                                                  *)

\* serve_tls_connection closes the session when none of its handlers runs, and
\* none is started afterwards.
THEOREM SessionIsClosedLast == Spec => []SessionClosesLast
<1>1. Init => SessionClosesLast
  BY DEF Init, SessionClosesLast
<1>2. StreamInv /\ SessionClosesLast /\ [Next]_vars => SessionClosesLast'
  <2> SUFFICES ASSUME StreamInv, SessionClosesLast, [Next]_vars
               PROVE  SessionClosesLast'
    OBVIOUS
  <2>1. CASE UNCHANGED server
    BY <2>1 DEF SessionClosesLast, Active, server
  <2>2. CASE Gather
    BY <2>2 DEF Gather, SessionClosesLast, Active
  <2>3. CASE CloseSession \/ Acquire \/ ReadRequest \/ ReadClosed
    BY <2>3 DEF CloseSession, Acquire, ReadRequest, ReadClosed, SessionClosesLast, Active
  <2>4. ASSUME NEW c \in Call, RunOne(c)
        PROVE  SessionClosesLast'
    BY <2>4 DEF RunOne, HandlerEnds, WriteResponse, ResponseDrained, WriteFails,
                SessionClosesLast, Active, StreamInv, Types
  <2> QED
    BY <2>1, <2>2, <2>3, <2>4
       DEF Next, ClientLoop, ServerLoop, Request, Refuse, Enter, Write, WriteLate, WriteTooLarge,
           Drained, DrainFails, Resume, Timeout, Cancel, close, FinishClose, ReadResponse,
           ReadUnsolicited, ReadEnd, Break, vars
<1> QED
  BY <1>1, <1>2, StreamInvariant, PTL DEF Spec

=============================================================================
