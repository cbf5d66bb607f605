-------------------------- MODULE MultiplexedStream --------------------------
(***************************************************************************)
(* One authenticated connection (stream.py): MultiplexClient correlates    *)
(* many requests by request_id; serve_multiplexed runs a bounded number of *)
(* handlers, each answering when it is done; serve_tls_connection closes   *)
(* the session when the connection is over.                                *)
(*                                                                         *)
(* The callers are HotSessionPool.request, which may cancel a call at any  *)
(* await.  The network may break; a frame that was written is then lost or *)
(* is read before the break is noticed.                                    *)
(***************************************************************************)
EXTENDS Naturals, Sequences, FiniteSets

CONSTANTS
    Call,         \* calls of MultiplexClient.request
    RequestId,    \* request_id values
    Id,           \* the request_id of each call: a resend uses it again
    MaxInflight,  \* max_inflight
    Window,       \* frames a direction buffers before drain() waits
    None          \* no call

ASSUME IdAssumption      == Id \in [Call -> RequestId]
ASSUME BoundAssumption   == MaxInflight \in Nat \ {0} /\ Window \in Nat
ASSUME CallAssumption    == IsFiniteSet(Call)
ASSUME NoneAssumption    == None \notin Call /\ {"owner", "nobody"} \cap Call = {}

VARIABLES
    pc,        \* where each call is
    fut,       \* its future, "dropped" when nobody waits for it any more
    pending,   \* _pending: request_id |-> the call that waits, or None
    closed,    \* _closed
    closer,    \* who awaits wait_closed in close(): a call, "owner" or "nobody"
    reader,    \* _read_loop is running
    toServer,  \* request frames on their way
    toClient,  \* response frames on their way
    shut,      \* the ends whose writer was closed
    broken,    \* how the connection broke, as the client sees it, or "no"
    srv,       \* where serve_multiplexed, and serve_tls_connection, are
    free,      \* capacity: free slots
    task       \* run_one of each request

client  == <<pc, fut, pending, closed, closer, reader>>
server  == <<srv, free, task>>
channel == <<toServer, toClient, shut, broken>>
vars    == <<client, server, channel>>

\* The transport is closing or gone: writes are discarded.
Over == broken # "no" \/ shut # {}

\* Both write locks: held from write() to the end of drain().
ClientLock == \A c \in Call : pc[c] # "drain"
ServerLock == \A c \in Call : task[c] # "drain"

Active(c) == task[c] \in {"running", "write", "drain"}

----------------------------------------------------------------------------
(* MultiplexClient                                                         *)

Goto(c, label) == pc' = [pc EXCEPT ![c] = label] /\ UNCHANGED fut

\* The call leaves; if its entry is still in the table, a response to it is
\* taken and ignored.
Leave(c, label) == pc' = [pc EXCEPT ![c] = label] /\ fut' = [fut EXCEPT ![c] = "dropped"]

Pop(i) == pending' = [pending EXCEPT ![i] = None]

\* set_exception on every future of the table that is not done, then clear().
FailPending(error) ==
    /\ fut' = [c \in Call |-> IF pending[Id[c]] = c /\ fut[c] = "pending"
                              THEN error ELSE fut[c]]
    /\ pending' = [i \in RequestId |-> None]

\* request(): refused at once, or entered into the table.
Refuse(c) ==
    /\ pc[c] = "idle"
    /\ closed \/ pending[Id[c]] # None
    /\ Leave(c, "done")
    /\ UNCHANGED <<pending, closed, closer, reader, server, channel>>

Enter(c) ==
    /\ pc[c] = "idle"
    /\ ~closed
    /\ pending[Id[c]] = None
    /\ pending' = [pending EXCEPT ![Id[c]] = c]
    /\ Goto(c, "lock")
    /\ UNCHANGED <<closed, closer, reader, server, channel>>

\* write_frame under _write_lock, up to drain().
Write(c) ==
    /\ pc[c] = "lock"
    /\ ClientLock
    /\ ~Over
    /\ Goto(c, "drain")
    /\ toServer' = Append(toServer, c)
    /\ UNCHANGED <<pending, closed, closer, reader, server, toClient, shut, broken>>

\* The frame goes nowhere; drain() returns, or raises ConnectionResetError.
WriteLate(c) ==
    /\ pc[c] = "lock"
    /\ ClientLock
    /\ Over
    /\ \/ Goto(c, "wait") /\ UNCHANGED pending
       \/ Leave(c, "done") /\ Pop(Id[c])
    /\ UNCHANGED <<closed, closer, reader, server, channel>>

\* encode_frame_payload refuses the request, before anything is written.
WriteTooLarge(c) ==
    /\ pc[c] = "lock"
    /\ ClientLock
    /\ Pop(Id[c])
    /\ Leave(c, "done")
    /\ UNCHANGED <<closed, closer, reader, server, channel>>

Drained(c) ==
    /\ pc[c] = "drain"
    /\ Over \/ Len(toServer) <= Window
    /\ Goto(c, "wait")
    /\ UNCHANGED <<pending, closed, closer, reader, server, channel>>

\* A waiting drain() raises when the connection is lost by an error; after an
\* end of stream it returns.
DrainFails(c) ==
    /\ pc[c] = "drain"
    /\ broken = "reset" \/ "client" \in shut
    /\ Pop(Id[c])
    /\ Leave(c, "done")
    /\ UNCHANGED <<closed, closer, reader, server, channel>>

\* wait_for returns the response or raises what the future holds.
Resume(c) ==
    /\ pc[c] = "wait"
    /\ fut[c] # "pending"
    /\ Leave(c, "done")
    /\ IF fut[c] = "result" THEN UNCHANGED pending ELSE Pop(Id[c])
    /\ UNCHANGED <<closed, closer, reader, server, channel>>

\* close(), up to wait_closed(); nothing when _closed.
BeginClose(who) ==
    /\ closed' = TRUE
    /\ closer' = who
    /\ shut' = shut \cup {"client"}

\* Only the call is given up; the connection is kept.
TimeoutKeepingOpen(c) ==
    /\ pc[c] = "wait"
    /\ Pop(Id[c])
    /\ Leave(c, "done")
    /\ UNCHANGED <<closed, closer, reader, server, channel>>

\* request_timeout_s passed, perhaps just after the response came: the entry is
\* dropped, and the connection with it.
Timeout(c) ==
    /\ pc[c] = "wait"
    /\ Pop(Id[c])
    /\ IF closed THEN Leave(c, "done") /\ UNCHANGED <<closed, closer, shut>>
                 ELSE Leave(c, "closing") /\ BeginClose(c)
    /\ UNCHANGED <<reader, server, toServer, toClient, broken>>

\* A cancelled call takes its entry along.
CancelPopping(c) ==
    /\ pc[c] \in {"lock", "drain", "wait"}
    /\ Pop(Id[c])
    /\ Leave(c, "done")
    /\ UNCHANGED <<closed, closer, reader, server, channel>>

\* The caller's own wait_for cancels the call.  CancelledError is no Exception:
\* the entry stays in the table, whether or not the frame was written.
Cancel(c) ==
    /\ pc[c] \in {"lock", "drain", "wait"}
    /\ Leave(c, "done")
    /\ UNCHANGED <<pending, closed, closer, reader, server, channel>>

\* close() by the owner of the channel.
close ==
    /\ ~closed
    /\ BeginClose("owner")
    /\ UNCHANGED <<pc, fut, pending, reader, server, toServer, toClient, broken>>

\* wait_closed() returned, raised or was cancelled: the finally clause, and the
\* end of the call that ran into its timeout.
FinishClose ==
    /\ closer # "nobody"
    /\ closer' = "nobody"
    /\ reader' = FALSE
    /\ FailPending("failed")
    /\ pc' = [c \in Call |-> IF c = closer THEN "done" ELSE pc[c]]
    /\ toClient' = <<>>
    /\ UNCHANGED <<closed, server, toServer, shut, broken>>

----------------------------------------------------------------------------
(* MultiplexClient._read_loop                                              *)

\* Any exception ends the loop: every waiter gets it.  The writer stays open.
LoopFails(error) ==
    /\ closed' = TRUE
    /\ reader' = FALSE
    /\ FailPending(error)

\* A response to an entry of the table; the loop goes on unless _closed.
ReadResponse ==
    /\ reader
    /\ toClient # <<>>
    /\ LET r == Head(toClient)
           c == pending[Id[r]] IN
         /\ c # None
         /\ fut' = [fut EXCEPT ![c] = IF @ = "pending" THEN "result" ELSE @]
         /\ Pop(Id[r])
    /\ toClient' = Tail(toClient)
    /\ reader' = ~closed
    /\ UNCHANGED <<pc, closed, closer, server, toServer, shut, broken>>

\* "unsolicited response": StreamProtocolError, for everyone.
ReadUnsolicited ==
    /\ reader
    /\ toClient # <<>>
    /\ pending[Id[Head(toClient)]] = None
    /\ LoopFails("protocol")
    /\ toClient' = Tail(toClient)
    /\ UNCHANGED <<pc, closer, server, toServer, shut, broken>>

\* The end of the stream behind the last frame (StreamClosed), or the error
\* that the transport was lost by.
ReadEnd ==
    /\ reader
    /\ Over
    /\ toClient = <<>>
    /\ LoopFails("failed")
    /\ UNCHANGED <<pc, closer, server, channel>>

----------------------------------------------------------------------------
(* serve_multiplexed and serve_tls_connection                              *)

\* A slot first, then a frame.
Acquire ==
    /\ srv = "acquire"
    /\ free > 0
    /\ free' = free - 1
    /\ srv' = "read"
    /\ UNCHANGED <<task, client, channel>>

ReadRequest ==
    /\ srv = "read"
    /\ toServer # <<>>
    /\ task' = [task EXCEPT ![Head(toServer)] = "running"]
    /\ toServer' = Tail(toServer)
    /\ srv' = "acquire"
    /\ UNCHANGED <<free, client, toClient, shut, broken>>

\* End of stream or reset: the slot is given back and the tasks are gathered.
ReadClosed ==
    /\ srv = "read"
    /\ Over
    /\ toServer = <<>>
    /\ free' = free + 1
    /\ srv' = "gather"
    /\ UNCHANGED <<task, client, channel>>

\* The handler returned or raised.  A response that is too large, or no JSON, is
\* replaced by an error with the same request_id: there is a frame to write.
HandlerEnds(c) ==
    /\ task[c] = "running"
    /\ task' = [task EXCEPT ![c] = "write"]
    /\ UNCHANGED <<srv, free, client, channel>>

\* write_frame under write_lock, up to drain().
WriteResponse(c) ==
    /\ task[c] = "write"
    /\ ServerLock
    /\ task' = [task EXCEPT ![c] = "drain"]
    /\ toClient' = IF Over THEN toClient ELSE Append(toClient, c)
    /\ UNCHANGED <<srv, free, client, toServer, shut, broken>>

\* The slot is lost with the response.
ResponseDrainedKeeping(c) ==
    /\ task[c] = "drain"
    /\ Over \/ Len(toClient) <= Window
    /\ task' = [task EXCEPT ![c] = "done"]
    /\ UNCHANGED <<srv, free, client, channel>>

ResponseDrained(c) ==
    /\ task[c] = "drain"
    /\ Over \/ Len(toClient) <= Window
    /\ task' = [task EXCEPT ![c] = "done"]
    /\ free' = free + 1
    /\ UNCHANGED <<srv, client, channel>>

\* write_frame raises: the writer is closed, the slot is given back.
WriteFails(c) ==
    /\ task[c] = "drain"
    /\ Over
    /\ shut' = shut \cup {"server"}
    /\ task' = [task EXCEPT ![c] = "done"]
    /\ free' = free + 1
    /\ UNCHANGED <<srv, client, toServer, toClient, broken>>

\* Without the gather.
GatherNobody ==
    /\ srv = "gather"
    /\ shut' = shut \cup {"server"}
    /\ srv' = "session"
    /\ UNCHANGED <<free, task, client, toServer, toClient, broken>>

\* gather(*tasks), then writer.close().
Gather ==
    /\ srv = "gather"
    /\ \A c \in Call : ~Active(c)
    /\ shut' = shut \cup {"server"}
    /\ srv' = "session"
    /\ UNCHANGED <<free, task, client, toServer, toClient, broken>>

\* handler.close_session() in the finally clause; the reject frame that may
\* follow goes to a closed writer.
CloseSession ==
    /\ srv = "session"
    /\ srv' = "ended"
    /\ UNCHANGED <<free, task, client, channel>>

----------------------------------------------------------------------------
(* The network                                                             *)

\* What either side has not received is lost from some frame on; an error, unlike
\* an end of stream, also hides the frames the reader has buffered.
Break(how) ==
    /\ broken = "no"
    /\ broken' = how
    /\ \E m \in 0..Len(toServer) : toServer' = SubSeq(toServer, 1, m)
    /\ \E n \in 0..Len(toClient) :
          toClient' = IF how = "reset" THEN <<>> ELSE SubSeq(toClient, 1, n)
    /\ UNCHANGED <<shut, client, server>>

----------------------------------------------------------------------------
Init ==
    /\ pc = [c \in Call |-> "idle"]
    /\ fut = [c \in Call |-> "pending"]
    /\ pending = [i \in RequestId |-> None]
    /\ closed = FALSE
    /\ closer = "nobody"
    /\ reader = TRUE
    /\ toServer = <<>>
    /\ toClient = <<>>
    /\ shut = {}
    /\ broken = "no"
    /\ srv = "acquire"
    /\ free = MaxInflight
    /\ task = [c \in Call |-> "none"]

Request(c) == Write(c) \/ WriteLate(c) \/ Drained(c) \/ DrainFails(c) \/ Resume(c) \/ Timeout(c)

RunOne(c) ==
    HandlerEnds(c) \/ WriteResponse(c) \/ ResponseDrained(c) \/ WriteFails(c)

ClientLoop ==
    \/ FinishClose \/ ReadResponse \/ ReadUnsolicited \/ ReadEnd
    \/ \E c \in Call : Request(c)

ServerLoop ==
    \/ Acquire \/ ReadRequest \/ ReadClosed \/ Gather \/ CloseSession
    \/ \E c \in Call : RunOne(c)

Next ==
    \/ ClientLoop \/ ServerLoop
    \/ \E c \in Call : Refuse(c) \/ Enter(c) \/ WriteTooLarge(c) \/ Cancel(c)
    \/ close \/ Break("eof") \/ Break("reset")

\* Each event loop runs what is ready: wait_for expires, a handler returns
\* (CallsReturn of LaneOperations), a closed TLS transport ends within its
\* shutdown timeout.  Nobody need call close() or cancel, the network need not
\* break, and drain() waits for as long as the other end does not read.
Spec == Init /\ [][Next]_vars /\ WF_vars(ClientLoop) /\ WF_vars(ServerLoop)

----------------------------------------------------------------------------
(* Properties                                                              *)

\* The tables, the frames and the tasks keep their types.
TypeOK ==
    /\ pc \in [Call -> {"idle", "lock", "drain", "wait", "closing", "done"}]
    /\ fut \in [Call -> {"pending", "result", "failed", "protocol", "dropped"}]
    /\ pending \in [RequestId -> Call \cup {None}]
    /\ closed \in BOOLEAN
    /\ closer \in Call \cup {"owner", "nobody"}
    /\ reader \in BOOLEAN
    /\ toServer \in Seq(Call)
    /\ toClient \in Seq(Call)
    /\ shut \subseteq {"client", "server"}
    /\ broken \in {"no", "eof", "reset"}
    /\ srv \in {"acquire", "read", "gather", "session", "ended"}
    /\ free \in 0..MaxInflight
    /\ task \in [Call -> {"none", "running", "write", "drain", "done"}]

\* A response resolves the call that sent the request, never a later call with
\* the same request_id: the entry of an abandoned request is what keeps the id
\* taken until its response has come.
OwnAnswer ==
    [][\A c \in Call : fut[c] = "pending" /\ fut'[c] = "result" => Head(toClient) = c]_vars

\* max_inflight is an admission bound: slots are neither lost nor made, so at
\* most that many requests are read and not yet answered.
SlotsBalance ==
    free + Cardinality({c \in Call : Active(c)}) + (IF srv = "read" THEN 1 ELSE 0) = MaxInflight

\* close_session runs when no handler of the session is running any more, and
\* none starts after it: what it closes stays closed.
SessionClosesLast == srv \in {"session", "ended"} => \A c \in Call : ~Active(c)

\* Every request ends, also one that waits to write while the server reads
\* nothing because its slots are taken: again and again no call is under way.
CallsEnd == []<>(\A c \in Call : pc[c] \in {"idle", "done"})

\* A stream the client has given up is noticed by the server, and its session is
\* closed.  _read_loop ends without closing the writer, so this needs that an
\* open stream never meets an unsolicited response.
ServerFollows == closed ~> (srv = "ended")

=============================================================================
