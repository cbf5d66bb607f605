--------------------------- MODULE ServicesProofs ---------------------------
(***************************************************************************)
(* Proofs about Services, for every set of processes.                      *)
(***************************************************************************)
EXTENDS Services, TLAPS

\* The type invariant in two parts, the truth values and the rest.
Flags ==
    /\ waits \in BOOLEAN /\ store \in BOOLEAN /\ broke \in BOOLEAN /\ unstopped \in BOOLEAN
    /\ left \in BOOLEAN /\ busy \in BOOLEAN
Places ==
    /\ agent \in {"down", "prepared", "serve", "closing", "drain"}
    /\ tunnel \in {"down", "probe", "wait", "check", "mend", "connect", "confirm", "final"}
    /\ mcp \in {"down", "serve", "ending", "close"}
    /\ asked \subseteq Service
    /\ todo \subseteq Proc
    /\ proc \in [Proc -> {"free", "starting", "managed", "late", "unheard", "stray"}]
    /\ clients \subseteq Client
    /\ by \in [Proc -> Client \cup {"gone"}]
    /\ status \in {"none", "down", "sick", "up"}
    /\ runtime \in {"down", "sick", "up"}

\* close_all_processes has every process it could know of on its list, until
\* one of them raises.
DrainCovers ==
    agent = "drain" /\ ~broke => \A p \in Proc : proc[p] = "managed" => p \in todo

\* Where wait_closed waits, the drain begins without connections, and nobody
\* connects later: the server does not listen.  So no start is for a client
\* that is still there.
DrainAlone ==
    agent = "drain" /\ waits => clients = {} /\ \A p \in Proc : proc[p] # "late"

\* A start under way is for a client that is connected, or is left over from a
\* connection that went, and then so is a handler task.
StartsHandled ==
    \A p \in Proc : proc[p] = "starting" => by[p] \in clients \/ (by[p] = "gone" /\ left)

\* A process that is late is so for a drain that goes on.
LateInDrain == \A p \in Proc : proc[p] = "late" => agent = "drain"

DrainClauses == DrainCovers /\ DrainAlone /\ StartsHandled /\ LateInDrain

DrainInv == Flags /\ Places /\ DrainClauses

----------------------------------------------------------------------------
\* Nothing runs when the machine comes up.
LEMMA InitDrain == Init => DrainInv
  BY DEF Init, DrainInv, Flags, Places, DrainCovers, DrainAlone, StartsHandled, LateInDrain, DrainClauses

\* The truth values stay truth values.
LEMMA FlagsStay ==
    ASSUME Flags, [Next]_vars
    PROVE  Flags'
<1> USE DEF Flags
<1>1. ASSUME NEW s \in Service, SvcStop(s) PROVE Flags'
  BY <1>1, Zenon DEF SvcStop, agentVars, links, tunnelVars, mcpVars, Service
<1>2. CASE prepare_host
  BY <1>2, Zenon DEF prepare_host, links, tunnelVars, mcpVars
<1>3. CASE StartFails
  BY <1>3, Zenon DEF StartFails, links, tunnelVars, mcpVars
<1>4. CASE start_host
  BY <1>4, Zenon DEF start_host, links, tunnelVars, mcpVars
<1>5. CASE CloseServer
  BY <1>5, Zenon DEF CloseServer, links, tunnelVars, mcpVars
<1>6. CASE WaitClosed
  BY <1>6, Zenon DEF WaitClosed, links, tunnelVars, mcpVars
<1>7. CASE TerminateNext
  BY <1>7, Zenon DEF TerminateNext, links, tunnelVars, mcpVars
<1>8. CASE ExitAgent
  BY <1>8, Zenon DEF ExitAgent, Gone, tunnelVars, mcpVars
<1>9. ASSUME NEW c \in Client, Connect(c) PROVE Flags'
  BY <1>9, Zenon DEF Connect, agentVars, tunnelVars, mcpVars
<1>10. ASSUME NEW c \in Client, Disconnect(c) PROVE Flags'
  BY <1>10, Zenon DEF Disconnect, Lose, Gone, agentVars, tunnelVars, mcpVars
<1>11. CASE HandlersEnd
  BY <1>11, Zenon DEF HandlersEnd, agentVars, tunnelVars, mcpVars
<1>12. ASSUME NEW p \in Proc, AdmitStart(p) PROVE Flags'
  BY <1>12, Zenon DEF AdmitStart, tunnelVars, mcpVars
<1>13. ASSUME NEW p \in Proc, Spawn(p) PROVE Flags'
  BY <1>13, Zenon DEF Spawn, tunnelVars, mcpVars
<1>14. ASSUME NEW p \in Proc, ProcessEnds(p) PROVE Flags'
  BY <1>14, Zenon DEF ProcessEnds, links, tunnelVars, mcpVars
<1>15. CASE StartTunnel
  BY <1>15, Zenon DEF StartTunnel, agentVars, links, mcpVars
<1>16. CASE ReadStatus
  BY <1>16, Zenon DEF ReadStatus, agentVars, links, mcpVars
<1>17. CASE Mend
  BY <1>17, Zenon DEF Mend, SetRuntime, Lose, Gone, agentVars, links, mcpVars
<1>18. CASE ConnectRuntime
  BY <1>18, Zenon DEF ConnectRuntime, SetRuntime, Lose, Gone, agentVars, links, mcpVars
<1>19. CASE Confirm
  BY <1>19, Zenon DEF Confirm, agentVars, links, mcpVars
<1>20. CASE Wait
  BY <1>20, Zenon DEF Wait, agentVars, links, mcpVars
<1>21. CASE StopRuntime
  BY <1>21, Zenon DEF StopRuntime, SetRuntime, Lose, Gone, agentVars, links, mcpVars
<1>22. CASE RuntimeChanges
  BY <1>22, Zenon DEF RuntimeChanges, SetRuntime, Lose, Gone, agentVars, links, tunnelVars, mcpVars
<1>23. CASE StartMcp
  BY <1>23, Zenon DEF StartMcp, agentVars, links, tunnelVars
<1>24. CASE OpenRequests
  BY <1>24, Zenon DEF OpenRequests, agentVars, links, tunnelVars
<1>25. CASE RequestsDone
  BY <1>25, Zenon DEF RequestsDone, agentVars, links, tunnelVars
<1>26. CASE EndServer
  BY <1>26, Zenon DEF EndServer, agentVars, links, tunnelVars
<1>27. CASE ServerEnded
  BY <1>27, Zenon DEF ServerEnded, agentVars, links, tunnelVars
<1>28. CASE CloseRuntime
  BY <1>28, Zenon DEF CloseRuntime, Lose, Gone, agentVars, links, tunnelVars
<1>29. CASE UNCHANGED vars
  BY <1>29, Zenon DEF vars, agentVars, links, tunnelVars, mcpVars
<1> QED BY <1>1, <1>2, <1>3, <1>4, <1>5, <1>6, <1>7, <1>8, <1>9, <1>10, <1>11, <1>12,
           <1>13, <1>14, <1>15, <1>16, <1>17, <1>18, <1>19, <1>20, <1>21, <1>22,
           <1>23, <1>24, <1>25, <1>26, <1>27, <1>28, <1>29
        DEF Next, AgentStep, TunnelStep, McpStep

\* Every variable keeps its place.
LEMMA PlacesStay ==
    ASSUME Places, [Next]_vars
    PROVE  Places'
<1> USE DEF Places
<1>1. ASSUME NEW s \in Service, SvcStop(s) PROVE Places'
  BY <1>1 DEF SvcStop, agentVars, links, tunnelVars, mcpVars, Service
<1>2. CASE prepare_host
  BY <1>2 DEF prepare_host, links, tunnelVars, mcpVars
<1>3. CASE StartFails
  BY <1>3 DEF StartFails, links, tunnelVars, mcpVars
<1>4. CASE start_host
  BY <1>4 DEF start_host, links, tunnelVars, mcpVars
<1>5. CASE CloseServer
  BY <1>5 DEF CloseServer, links, tunnelVars, mcpVars
<1>6. CASE WaitClosed
  BY <1>6 DEF WaitClosed, links, tunnelVars, mcpVars
<1>7. CASE TerminateNext
  BY <1>7 DEF TerminateNext, links, tunnelVars, mcpVars
<1>8. CASE ExitAgent
  BY <1>8 DEF ExitAgent, Gone, tunnelVars, mcpVars
<1>9. ASSUME NEW c \in Client, Connect(c) PROVE Places'
  BY <1>9 DEF Connect, agentVars, tunnelVars, mcpVars
<1>10. ASSUME NEW c \in Client, Disconnect(c) PROVE Places'
  BY <1>10 DEF Disconnect, Lose, Gone, agentVars, tunnelVars, mcpVars
<1>11. CASE HandlersEnd
  BY <1>11 DEF HandlersEnd, agentVars, tunnelVars, mcpVars
<1>12. ASSUME NEW p \in Proc, AdmitStart(p) PROVE Places'
  BY <1>12 DEF AdmitStart, tunnelVars, mcpVars
<1>13. ASSUME NEW p \in Proc, Spawn(p) PROVE Places'
  BY <1>13 DEF Spawn, tunnelVars, mcpVars
<1>14. ASSUME NEW p \in Proc, ProcessEnds(p) PROVE Places'
  BY <1>14 DEF ProcessEnds, links, tunnelVars, mcpVars
<1>15. CASE StartTunnel
  BY <1>15 DEF StartTunnel, agentVars, links, mcpVars
<1>16. CASE ReadStatus
  BY <1>16 DEF ReadStatus, agentVars, links, mcpVars
<1>17. CASE Mend
  BY <1>17 DEF Mend, SetRuntime, Lose, Gone, agentVars, links, mcpVars
<1>18. CASE ConnectRuntime
  BY <1>18 DEF ConnectRuntime, SetRuntime, Lose, Gone, agentVars, links, mcpVars
<1>19. CASE Confirm
  BY <1>19 DEF Confirm, agentVars, links, mcpVars
<1>20. CASE Wait
  BY <1>20 DEF Wait, agentVars, links, mcpVars
<1>21. CASE StopRuntime
  BY <1>21 DEF StopRuntime, SetRuntime, Lose, Gone, agentVars, links, mcpVars
<1>22. CASE RuntimeChanges
  BY <1>22 DEF RuntimeChanges, SetRuntime, Lose, Gone, agentVars, links, tunnelVars, mcpVars
<1>23. CASE StartMcp
  BY <1>23 DEF StartMcp, agentVars, links, tunnelVars
<1>24. CASE OpenRequests
  BY <1>24 DEF OpenRequests, agentVars, links, tunnelVars
<1>25. CASE RequestsDone
  BY <1>25 DEF RequestsDone, agentVars, links, tunnelVars
<1>26. CASE EndServer
  BY <1>26 DEF EndServer, agentVars, links, tunnelVars
<1>27. CASE ServerEnded
  BY <1>27 DEF ServerEnded, agentVars, links, tunnelVars
<1>28. CASE CloseRuntime
  BY <1>28 DEF CloseRuntime, Lose, Gone, agentVars, links, tunnelVars
<1>29. CASE UNCHANGED vars
  BY <1>29 DEF vars, agentVars, links, tunnelVars, mcpVars
<1> QED BY <1>1, <1>2, <1>3, <1>4, <1>5, <1>6, <1>7, <1>8, <1>9, <1>10, <1>11, <1>12,
           <1>13, <1>14, <1>15, <1>16, <1>17, <1>18, <1>19, <1>20, <1>21, <1>22,
           <1>23, <1>24, <1>25, <1>26, <1>27, <1>28, <1>29
        DEF Next, AgentStep, TunnelStep, McpStep

\* Each action on the clauses about the drain.
LEMMA DrainStays ==
    ASSUME DrainInv, [Next]_vars
    PROVE  DrainClauses'
<1> USE DEF DrainInv, Places, DrainClauses, DrainCovers, DrainAlone, StartsHandled, LateInDrain
<1>1. ASSUME NEW s \in Service, SvcStop(s) PROVE DrainClauses'
  BY <1>1 DEF SvcStop, agentVars, links, tunnelVars, mcpVars, Service
<1>2. CASE prepare_host
  BY <1>2 DEF prepare_host, links, tunnelVars, mcpVars
<1>3. CASE StartFails
  BY <1>3 DEF StartFails, links, tunnelVars, mcpVars
<1>4. CASE start_host
  BY <1>4 DEF start_host, links, tunnelVars, mcpVars
<1>5. CASE CloseServer
  BY <1>5 DEF CloseServer, links, tunnelVars, mcpVars
<1>6. CASE WaitClosed
  BY <1>6 DEF WaitClosed, links, tunnelVars, mcpVars
<1>7. CASE TerminateNext
  <2>1. PICK p \in todo :
           \/ todo' = todo \ {p} /\ proc' = [proc EXCEPT ![p] = "free"] /\ UNCHANGED broke
           \/ todo' = {} /\ broke' = TRUE /\ UNCHANGED proc
    BY <1>7 DEF TerminateNext
  <2> QED BY <1>7, <2>1 DEF TerminateNext, links, tunnelVars, mcpVars
<1>8. CASE ExitAgent
  BY <1>8 DEF ExitAgent, Gone, tunnelVars, mcpVars
<1>9. ASSUME NEW c \in Client, Connect(c) PROVE DrainClauses'
  BY <1>9 DEF Connect, agentVars, tunnelVars, mcpVars
<1>10. ASSUME NEW c \in Client, Disconnect(c) PROVE DrainClauses'
  BY <1>10 DEF Disconnect, Lose, Gone, agentVars, tunnelVars, mcpVars
<1>11. CASE HandlersEnd
  BY <1>11 DEF HandlersEnd, agentVars, tunnelVars, mcpVars
<1>12. ASSUME NEW p \in Proc, AdmitStart(p) PROVE DrainClauses'
  BY <1>12 DEF AdmitStart, tunnelVars, mcpVars
<1>13. ASSUME NEW p \in Proc, Spawn(p) PROVE DrainClauses'
  BY <1>13 DEF Spawn, tunnelVars, mcpVars
<1>14. ASSUME NEW p \in Proc, ProcessEnds(p) PROVE DrainClauses'
  BY <1>14 DEF ProcessEnds, links, tunnelVars, mcpVars
<1>15. CASE StartTunnel
  BY <1>15 DEF StartTunnel, agentVars, links, mcpVars
<1>16. CASE ReadStatus
  BY <1>16 DEF ReadStatus, agentVars, links, mcpVars
<1>17. CASE Mend
  BY <1>17 DEF Mend, SetRuntime, Lose, Gone, agentVars, links, mcpVars
<1>18. CASE ConnectRuntime
  BY <1>18 DEF ConnectRuntime, SetRuntime, Lose, Gone, agentVars, links, mcpVars
<1>19. CASE Confirm
  BY <1>19 DEF Confirm, agentVars, links, mcpVars
<1>20. CASE Wait
  BY <1>20 DEF Wait, agentVars, links, mcpVars
<1>21. CASE StopRuntime
  <2>1. UNCHANGED <<waits, agentVars>>
    BY <1>21 DEF StopRuntime
  <2>2. CASE SetRuntime("down")
    BY <2>1, <2>2 DEF SetRuntime, Lose, Gone, agentVars
  <2>3. CASE UNCHANGED links
    BY <2>1, <2>3 DEF agentVars, links
  <2> QED BY <1>21, <2>2, <2>3 DEF StopRuntime
<1>22. CASE RuntimeChanges
  BY <1>22 DEF RuntimeChanges, SetRuntime, Lose, Gone, agentVars, links, tunnelVars, mcpVars
<1>23. CASE StartMcp
  BY <1>23 DEF StartMcp, agentVars, links, tunnelVars
<1>24. CASE OpenRequests
  BY <1>24 DEF OpenRequests, agentVars, links, tunnelVars
<1>25. CASE RequestsDone
  BY <1>25 DEF RequestsDone, agentVars, links, tunnelVars
<1>26. CASE EndServer
  BY <1>26 DEF EndServer, agentVars, links, tunnelVars
<1>27. CASE ServerEnded
  BY <1>27 DEF ServerEnded, agentVars, links, tunnelVars
<1>28. CASE CloseRuntime
  BY <1>28 DEF CloseRuntime, Lose, Gone, agentVars, links, tunnelVars
<1>29. CASE UNCHANGED vars
  BY <1>29 DEF vars, agentVars, links, tunnelVars, mcpVars
<1> QED BY <1>1, <1>2, <1>3, <1>4, <1>5, <1>6, <1>7, <1>8, <1>9, <1>10, <1>11, <1>12,
           <1>13, <1>14, <1>15, <1>16, <1>17, <1>18, <1>19, <1>20, <1>21, <1>22,
           <1>23, <1>24, <1>25, <1>26, <1>27, <1>28, <1>29
        DEF Next, AgentStep, TunnelStep, McpStep

\* The invariant behind the stop of the agent's service.
THEOREM DrainInvariant == Spec => []DrainInv
<1>1. Init => DrainInv
  BY InitDrain
<1>2. DrainInv /\ [Next]_vars => DrainInv'
  BY FlagsStay, PlacesStay, DrainStays DEF DrainInv
<1> QED BY <1>1, <1>2, PTL DEF Spec

\* The places of the three run loops, the processes and the clients keep their
\* types.
THEOREM TypeCorrect == Spec => []TypeOK
<1>1. DrainInv => TypeOK
  BY DEF DrainInv, Flags, Places, TypeOK
<1> QED BY <1>1, DrainInvariant, PTL

\* run_until_stop of the agent: what close_all_processes has been through
\* leaves no process that was entered before it, and where wait_closed waits
\* none was promised to a client since, whatever the handler tasks that are
\* left still start.
THEOREM NothingSurvivesTheDrain == Spec => []DrainIsComplete
<1>1. DrainInv => DrainIsComplete
  BY DEF DrainInv, DrainCovers, DrainAlone, StartsHandled, DrainClauses, DrainIsComplete
<1> QED BY <1>1, DrainInvariant, PTL

----------------------------------------------------------------------------
\* run_until_stop of the tunnel service: every way out of its loop, errors and
\* timeouts too, goes through the stop command.
THEOREM RuntimeIsNotOrphaned == Spec => []OrphanOnlyByFailedStop
<1> USE DEF OrphanOnlyByFailedStop
<1>1. Init => OrphanOnlyByFailedStop
  BY DEF Init
<1>2. OrphanOnlyByFailedStop /\ [Next]_vars => OrphanOnlyByFailedStop'
  <2> SUFFICES ASSUME OrphanOnlyByFailedStop, [Next]_vars
               PROVE  OrphanOnlyByFailedStop'
    OBVIOUS
  <2>1. CASE UNCHANGED <<tunnelVars, runtime>>
    BY <2>1 DEF tunnelVars
  <2>2. CASE StartTunnel
    BY <2>2 DEF StartTunnel
  <2>3. CASE TunnelStep
    <3>1. CASE ReadStatus
      BY <3>1 DEF ReadStatus, Usable
    <3>2. CASE Mend
      BY <3>2 DEF Mend
    <3>3. CASE ConnectRuntime
      BY <3>3 DEF ConnectRuntime
    <3>4. CASE Confirm
      BY <3>4 DEF Confirm
    <3>5. CASE Wait
      BY <3>5 DEF Wait
    <3>6. CASE StopRuntime
      BY <3>6 DEF StopRuntime, SetRuntime
    <3> QED BY <2>3, <3>1, <3>2, <3>3, <3>4, <3>5, <3>6 DEF TunnelStep
  <2>4. CASE RuntimeChanges
    BY <2>4 DEF RuntimeChanges, SetRuntime, tunnelVars
  <2>5. CASE \/ \E s \in Service : SvcStop(s)
             \/ AgentStep
             \/ \E c \in Client : Connect(c) \/ Disconnect(c)
             \/ HandlersEnd
             \/ \E p \in Proc : AdmitStart(p) \/ Spawn(p) \/ ProcessEnds(p)
             \/ StartMcp \/ EndServer \/ McpStep \/ OpenRequests \/ RequestsDone
    BY <2>1, <2>5 DEF SvcStop, AgentStep, prepare_host, StartFails, start_host, CloseServer,
          WaitClosed, TerminateNext, ExitAgent, Connect, Disconnect, HandlersEnd, AdmitStart,
          Spawn, ProcessEnds, OpenRequests, RequestsDone, StartMcp, EndServer, McpStep, ServerEnded, CloseRuntime
  <2> QED BY <2>1, <2>2, <2>3, <2>4, <2>5 DEF Next, vars
<1> QED BY <1>1, <1>2, PTL DEF Spec

=============================================================================
