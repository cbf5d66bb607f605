------------------------------ MODULE Services ------------------------------
(***************************************************************************)
(* The Windows services of one workstation: VeraPortAgent (the agent's     *)
(* host, windows_service.py and lappy_host.py), VeraMeshTunnelRuntime      *)
(* (tunnel_runtime_service.py), which keeps an external tunnel runtime     *)
(* alive whose MCP child is a client of the agent, and VeraPortMCP         *)
(* (windows_mcp_service.py), another client.                               *)
(*                                                                         *)
(* The service control manager starts and stops them.  The tunnel service  *)
(* depends on the agent's (_svc_deps_): it starts after and stops before.  *)
(* VeraPortMCP declares no dependency.                                     *)
(***************************************************************************)
EXTENDS Naturals, FiniteSets

CONSTANTS
    Proc      \* processes a client may start on the agent

VARIABLES
    waits,     \* Server.wait_closed waits for connections (Python 3.12 on)
    agent,     \* where run_until_stop of the agent is
    asked,     \* services whose stop event is set
    store,     \* the state store is open
    todo,      \* processes close_all_processes has still to terminate
    proc,      \* "free", "starting" (admitted), "managed", "late" or "unheard"
               \* (entered during the drain), "stray" (its service is gone)
    broke,     \* history: terminating a process raised
    clients,   \* clients whose connection to the agent stands
    left,      \* a handler task of the agent is left whose connection is gone
    by,        \* per process: the connected client its start is for, or "gone"
    tunnel,    \* where run_until_stop of the tunnel service is
    status,    \* what read_status last returned
    runtime,   \* the external runtime: "down", "sick" or "up"
    unstopped, \* history: the last stop command of the tunnel service failed
    mcp,       \* where run_mcp_until_stop is
    busy       \* a request or stream of the MCP server's own clients is open

agentVars  == <<agent, store, todo, proc, broke>>
links      == <<clients, left, by>>
tunnelVars == <<tunnel, status, unstopped>>
mcpVars    == <<mcp, busy>>
vars == <<waits, agentVars, asked, links, tunnelVars, runtime, mcpVars>>

Service == {"agent", "tunnel", "mcp"}
Client  == {"runtime", "mcp"}

Running(s) == CASE s = "agent"  -> agent # "down"
                [] s = "tunnel" -> tunnel # "down"
                [] s = "mcp"    -> mcp # "down"

----------------------------------------------------------------------------
(* The service control manager.                                            *)

SvcStop(s) ==
    /\ Running(s)
    /\ s \notin asked
    /\ s = "agent" => tunnel = "down"
    /\ asked' = asked \cup {s}
    /\ UNCHANGED <<waits, agentVars, links, tunnelVars, runtime, mcpVars>>

----------------------------------------------------------------------------
(* VeraPortAgent                                                           *)

\* The connections of C are gone.
Gone(C) ==
    /\ clients' = clients \ C
    /\ by' = [p \in Proc |-> IF by[p] \in C THEN "gone" ELSE by[p]]

\* prepare_host: configuration and identity are loaded, the store is opened.
prepare_host ==
    /\ agent = "down"
    /\ agent' = "prepared"
    /\ store' = TRUE
    /\ broke' = FALSE
    /\ UNCHANGED <<waits, todo, proc, asked, links, tunnelVars, runtime, mcpVars>>

\* Whatever else fails before the server listens closes the store.
StartFails ==
    /\ agent = "prepared"
    /\ agent' = "down"
    /\ store' = FALSE
    /\ asked' = asked \ {"agent"}
    /\ UNCHANGED <<waits, todo, proc, broke, links, tunnelVars, runtime, mcpVars>>

start_host ==
    /\ agent = "prepared"
    /\ agent' = "serve"
    /\ UNCHANGED <<waits, store, todo, proc, broke, asked, links, tunnelVars, runtime, mcpVars>>

CloseServerForgetsDrain ==
    /\ agent = "serve"
    /\ "agent" \in asked
    /\ agent' = "closed"
    /\ UNCHANGED <<waits, store, todo, proc, broke, asked, links, tunnelVars, runtime, mcpVars>>

\* The loop sees stop_event; the server stops listening.
CloseServer ==
    /\ agent = "serve"
    /\ "agent" \in asked
    /\ agent' = "closing"
    /\ UNCHANGED <<waits, store, todo, proc, broke, asked, links, tunnelVars, runtime, mcpVars>>

DrainAtOnce ==
    /\ agent = "closing"
    /\ agent' = "drain"
    /\ todo' = {p \in Proc : proc[p] = "managed"}
    /\ UNCHANGED <<waits, store, proc, broke, asked, links, tunnelVars, runtime, mcpVars>>

\* wait_closed returns; close_all_processes takes its list.  wait_closed
\* counts transports: a handler task may be left, and a start under way.
WaitClosed ==
    /\ agent = "closing"
    /\ waits => clients = {}
    /\ agent' = "drain"
    /\ todo' = {p \in Proc : proc[p] = "managed"}
    /\ UNCHANGED <<waits, store, proc, broke, asked, links, tunnelVars, runtime, mcpVars>>

\* One process after the other; one that survives kill raises.
TerminateNext ==
    /\ agent = "drain"
    /\ \E p \in todo :
          \/ todo' = todo \ {p} /\ proc' = [proc EXCEPT ![p] = "free"] /\ UNCHANGED broke
          \/ todo' = {} /\ broke' = TRUE /\ UNCHANGED proc
    /\ UNCHANGED <<waits, agent, store, asked, links, tunnelVars, runtime, mcpVars>>

\* The finally clause, and the end of the loop: connections and handler tasks
\* are dropped, the table of processes is gone, the processes are not, and
\* nobody will know of one whose start is still under way on its thread.
ExitAgent ==
    /\ agent = "drain"
    /\ todo = {}
    /\ agent' = "down"
    /\ store' = FALSE
    /\ asked' = asked \ {"agent"}
    /\ Gone(clients)
    /\ left' = FALSE
    /\ proc' = [p \in Proc |-> IF proc[p] = "free" THEN "free" ELSE "stray"]
    /\ UNCHANGED <<waits, todo, broke, tunnelVars, runtime, mcpVars>>

AgentStep == prepare_host \/ StartFails \/ start_host \/ CloseServer \/ WaitClosed
             \/ TerminateNext \/ ExitAgent

----------------------------------------------------------------------------
(* Clients of the agent.                                                   *)

\* The runtime's MCP child, and the MCP service's ControllerRuntime.
MayConnect(c) == CASE c = "runtime" -> runtime # "down"
                   [] c = "mcp"     -> mcp \in {"serve", "ending"}

Connect(c) ==
    /\ agent = "serve"
    /\ c \notin clients
    /\ MayConnect(c)
    /\ clients' = clients \cup {c}
    /\ UNCHANGED <<waits, agentVars, asked, left, by, tunnelVars, runtime, mcpVars>>

\* A connection goes, from either end; its handler task goes on: it reads what
\* has arrived, and waits for its own requests.
Lose(C) ==
    /\ Gone(C)
    /\ left' = (left \/ C \cap clients # {})

Disconnect(c) ==
    /\ c \in clients
    /\ Lose({c})
    /\ UNCHANGED <<waits, agentVars, asked, tunnelVars, runtime, mcpVars>>

\* The gather of serve_multiplexed returns and close_session has been through.
HandlersEnd ==
    /\ left
    /\ \A p \in Proc : proc[p] = "starting" => by[p] # "gone"
    /\ left' = FALSE
    /\ UNCHANGED <<waits, agentVars, asked, clients, by, tunnelVars, runtime, mcpVars>>

\* process.start is admitted while the store is open, for a client that is
\* connected or one whose request arrived before its connection went ...
AdmitStart(p) ==
    /\ store
    /\ agent \in {"serve", "closing", "drain"}
    /\ proc[p] = "free"
    /\ \E c \in clients \cup (IF left THEN {"gone"} ELSE {}) : by' = [by EXCEPT ![p] = c]
    /\ proc' = [proc EXCEPT ![p] = "starting"]
    /\ UNCHANGED <<waits, agent, store, todo, broke, asked, clients, left, tunnelVars, runtime, mcpVars>>

\* ... and done on a worker thread, which nothing stops.  What is entered during
\* the drain is late; its client waits for the answer, or nobody does.
Spawn(p) ==
    /\ proc[p] = "starting"
    /\ proc' = [proc EXCEPT ![p] = CASE agent # "drain"  -> "managed"
                                     [] by[p] = "gone"   -> "unheard"
                                     [] OTHER            -> "late"]
    /\ by' = [by EXCEPT ![p] = "gone"]
    /\ UNCHANGED <<waits, agent, store, todo, broke, asked, clients, left, tunnelVars, runtime, mcpVars>>

\* A process ends of itself, by its lane's watchdog, or with its session.
ProcessEnds(p) ==
    /\ proc[p] \in {"managed", "late", "unheard", "stray"}
    /\ proc' = [proc EXCEPT ![p] = "free"]
    /\ todo' = todo \ {p}
    /\ UNCHANGED <<waits, agent, store, broke, asked, links, tunnelVars, runtime, mcpVars>>

----------------------------------------------------------------------------
(* VeraMeshTunnelRuntime.  Every command is a child process with a time-   *)
(* out.  A failure is a TunnelRuntimeServiceError, a timeout is not one.   *)

StartTunnel ==
    /\ tunnel = "down"
    /\ agent = "serve"
    /\ "agent" \notin asked
    /\ tunnel' = "probe"
    /\ status' = "none"
    /\ UNCHANGED <<waits, agentVars, asked, links, unstopped, runtime, mcpVars>>

\* RuntimeStatus.usable: the process runs and is healthy.
Usable(s) == s = "up"

\* The first status, and the one of every interval: an error counts as none,
\* a timeout ends the service.
ReadStatus ==
    /\ tunnel \in {"probe", "check"}
    /\ \/ status' = runtime /\ tunnel' = IF Usable(runtime) THEN "wait" ELSE "mend"
       \/ status' = "none" /\ tunnel' = "mend"
       \/ UNCHANGED status /\ tunnel' = "final"
    /\ UNCHANGED <<waits, agentVars, asked, links, unstopped, runtime, mcpVars>>

\* A runtime goes down with its child, which was a client.
SetRuntime(s) ==
    /\ runtime' = s
    /\ IF s = "down" THEN Lose({"runtime"}) ELSE UNCHANGED links

\* A runtime that runs and is not healthy is stopped; a failed stop is ignored.
Mend ==
    /\ tunnel = "mend"
    /\ IF status = "sick"
       THEN \/ SetRuntime("down") /\ tunnel' = "connect"
            \/ UNCHANGED <<runtime, links>> /\ tunnel' \in {"connect", "final"}
       ELSE UNCHANGED <<runtime, links>> /\ tunnel' = "connect"
    /\ UNCHANGED <<waits, agentVars, asked, status, unstopped, mcpVars>>

\* connect_runtime: an error of either kind ends the service.
ConnectRuntime ==
    /\ tunnel = "connect"
    /\ \E s \in {"down", "sick", "up"} : SetRuntime(s)
    /\ tunnel' \in {"confirm", "final"}
    /\ UNCHANGED <<waits, agentVars, asked, status, unstopped, mcpVars>>

ConfirmAnything ==
    /\ tunnel = "confirm"
    /\ tunnel' = "wait"
    /\ status' = runtime
    /\ UNCHANGED <<waits, agentVars, asked, links, unstopped, runtime, mcpVars>>

\* The status after a connect must be usable.
Confirm ==
    /\ tunnel = "confirm"
    /\ \/ Usable(runtime) /\ tunnel' = "wait" /\ status' = runtime
       \/ tunnel' = "final" /\ UNCHANGED status
    /\ UNCHANGED <<waits, agentVars, asked, links, unstopped, runtime, mcpVars>>

WaitOn ==
    /\ tunnel = "wait"
    /\ tunnel' = "check"
    /\ UNCHANGED <<waits, agentVars, asked, links, status, unstopped, runtime, mcpVars>>

\* stop_event.wait(interval)
Wait ==
    /\ tunnel = "wait"
    /\ tunnel' = IF "tunnel" \in asked THEN "final" ELSE "check"
    /\ UNCHANGED <<waits, agentVars, asked, links, status, unstopped, runtime, mcpVars>>

EndTunnelAtOnce ==
    /\ tunnel = "final"
    /\ tunnel' = "down"
    /\ unstopped' = FALSE
    /\ asked' = asked \ {"tunnel"}
    /\ UNCHANGED <<waits, agentVars, links, status, runtime, mcpVars>>

\* The finally clause: the runtime is told to stop, and every error is dropped.
StopRuntime ==
    /\ tunnel = "final"
    /\ tunnel' = "down"
    /\ asked' = asked \ {"tunnel"}
    /\ \/ SetRuntime("down") /\ unstopped' = FALSE
       \/ UNCHANGED <<runtime, links>> /\ unstopped' = TRUE
    /\ UNCHANGED <<waits, agentVars, status, mcpVars>>

TunnelStep == ReadStatus \/ Mend \/ ConnectRuntime \/ Confirm \/ Wait \/ StopRuntime

\* The runtime has a life of its own, but does not start of itself.
RuntimeChanges ==
    /\ runtime # "down"
    /\ \E s \in {"down", "sick", "up"} : s # runtime /\ SetRuntime(s)
    /\ UNCHANGED <<waits, agentVars, asked, tunnelVars, mcpVars>>

----------------------------------------------------------------------------
(* VeraPortMCP                                                             *)

StartMcp ==
    /\ mcp = "down"
    /\ mcp' = "serve"
    /\ UNCHANGED <<waits, agentVars, asked, links, tunnelVars, runtime, busy>>

\* The first of the requests and streams of the server's clients opens ...
OpenRequests ==
    /\ mcp = "serve"
    /\ ~busy
    /\ busy' = TRUE
    /\ UNCHANGED <<waits, agentVars, asked, links, tunnelVars, runtime, mcp>>

\* ... and the last of them ends.
RequestsDone ==
    /\ busy
    /\ busy' = FALSE
    /\ UNCHANGED <<waits, agentVars, asked, links, tunnelVars, runtime, mcp>>

\* The server ends of itself, or is told to, and accepts nothing more.
EndServer ==
    /\ mcp = "serve"
    /\ mcp' = "ending"
    /\ UNCHANGED <<waits, agentVars, asked, links, tunnelVars, runtime, busy>>

\* Its graceful shutdown has no time limit: it waits for what is still open.
ServerEnded ==
    /\ mcp = "ending"
    /\ ~busy
    /\ mcp' = "close"
    /\ UNCHANGED <<waits, agentVars, asked, links, tunnelVars, runtime, busy>>

\* runtime.close comes last, when no request can use it any more.
CloseRuntime ==
    /\ mcp = "close"
    /\ mcp' = "down"
    /\ Lose({"mcp"})
    /\ asked' = asked \ {"mcp"}
    /\ UNCHANGED <<waits, agentVars, tunnelVars, runtime, busy>>

McpStep == ("mcp" \in asked /\ EndServer) \/ ServerEnded \/ CloseRuntime

----------------------------------------------------------------------------
Init ==
    /\ waits \in BOOLEAN
    /\ agent = "down" /\ store = FALSE /\ todo = {} /\ broke = FALSE
    /\ proc = [p \in Proc |-> "free"]
    /\ asked = {}
    /\ clients = {} /\ left = FALSE /\ by = [p \in Proc |-> "gone"]
    /\ tunnel = "down" /\ status = "none" /\ unstopped = FALSE
    /\ runtime = "down"
    /\ mcp = "down" /\ busy = FALSE

Next ==
    \/ \E s \in Service : SvcStop(s)
    \/ AgentStep
    \/ \E c \in Client : Connect(c) \/ Disconnect(c)
    \/ HandlersEnd
    \/ \E p \in Proc : AdmitStart(p) \/ Spawn(p) \/ ProcessEnds(p)
    \/ StartTunnel \/ TunnelStep \/ RuntimeChanges
    \/ StartMcp \/ EndServer \/ McpStep \/ OpenRequests \/ RequestsDone

\* The services' own threads and loops run.  Nothing is assumed of clients,
\* the agent's or the MCP server's, of the runtime, or of the operator.
Fairness ==
    /\ WF_vars(AgentStep)
    /\ WF_vars(TunnelStep)
    /\ WF_vars(McpStep)

Spec == Init /\ [][Next]_vars /\ Fairness

----------------------------------------------------------------------------
(* What is checked.                                                        *)

TypeOK ==
    /\ waits \in BOOLEAN /\ store \in BOOLEAN /\ broke \in BOOLEAN /\ unstopped \in BOOLEAN
    /\ left \in BOOLEAN /\ busy \in BOOLEAN
    /\ agent \in {"down", "prepared", "serve", "closing", "drain"}
    /\ tunnel \in {"down", "probe", "wait", "check", "mend", "connect", "confirm", "final"}
    /\ mcp \in {"down", "serve", "ending", "close"}
    /\ asked \subseteq Service
    /\ todo \subseteq Proc
    /\ proc \in [Proc -> {"free", "starting", "managed", "late", "unheard", "stray"}]
    /\ clients \subseteq Client
    /\ by \in [Proc -> Client \cup {"gone"}]
    /\ status \in {"none", "down", "sick", "up"}
    /\ runtime \in {"down", "sick", "up"}

\* When close_all_processes has been through and raised nothing, no process
\* that was entered before it took its list runs; and where wait_closed waits,
\* no client has been promised one since, or is still to be: what can come up
\* behind the drain was asked for over a connection that went before it was
\* answered, and a handler task of that connection is left.
DrainIsComplete ==
    agent = "drain" /\ todo = {} /\ ~broke =>
        \A p \in Proc : /\ proc[p] # "managed"
                        /\ waits => /\ proc[p] # "late"
                                    /\ proc[p] = "starting" => by[p] = "gone" /\ left

\* However the tunnel service ends, the external runtime is left running only
\* when the stop command itself failed.
OrphanOnlyByFailedStop == tunnel = "down" /\ runtime # "down" => unstopped

\* A runtime that is down or unhealthy is brought back, or the service ends
\* and says so; it does not sit beside a dead runtime.
Mended == tunnel # "down" /\ runtime # "up" ~> tunnel = "down" \/ runtime = "up"

\* A service that is told to stop stops, unless those it serves keep it: a
\* client that stays connected for ever where wait_closed waits for the agent's
\* connections, a request or stream of the MCP server that never ends.
StopsEnd ==
    /\ "tunnel" \in asked ~> tunnel = "down"
    /\ "mcp" \in asked ~> mcp = "down" \/ [](mcp = "ending" /\ busy)
    /\ "agent" \in asked ~> agent = "down" \/ [](waits /\ clients # {})

=============================================================================
