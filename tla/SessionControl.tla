--------------------------- MODULE SessionControl ---------------------------
(***************************************************************************)
(* The control plane of the collaboration server: how a GET /join or       *)
(* GET /create_session travels from an HTTP worker (NetIO) over the        *)
(* inbound queue (NetBus) to the bus thread (Server::circulate_messages),  *)
(* how the bus thread leases one of the WebSocket ports to a session       *)
(* (SessionManager), starts the session's WebSocket server                 *)
(* (PerfectServer::start) and answers the worker that waits on a promise.  *)
(*                                                                         *)
(* Three kinds of threads interleave: the HTTP workers, the one bus        *)
(* thread, and one WebSocket thread per session (two while a restarted     *)
(* server joins its predecessor).  An action is the code a thread runs     *)
(* between two accesses to something another thread can touch: a map under *)
(* its mutex, the queue, Session::active under session_mutex, and the      *)
(* atomics PerfectServer::running and PerfectServer::ready.                *)
(***************************************************************************)
EXTENDS Naturals, Sequences, FiniteSets

CONSTANTS
  Workers,         \* threads of the HTTP server (setThreadNum)
  JoinRequests,    \* ids drawn by xg::newGuid() for GET /join
  CreateRequests,  \* ids drawn by xg::newGuid() for GET /create_session
  Sessions,        \* ids drawn by xg::newGuid() for sessions
  FirstPort, LastPort,  \* the range find_free_port() scans
  None             \* absent: nullptr, end(), a promise without a value

ASSUME PortAssumption ==
  /\ FirstPort \in Nat \ {0}
  /\ LastPort \in Nat
  /\ FirstPort <= LastPort

ASSUME IdAssumption ==
  /\ JoinRequests \cap CreateRequests = {}
  /\ None \notin JoinRequests \cup CreateRequests \cup Sessions

Requests == JoinRequests \cup CreateRequests

NoPort == 0        \* what find_free_port() returns when every port is taken
Ports == {NoPort} \cup FirstPort .. LastPort

VARIABLES
  handler,         \* progress of each request's HTTP handler
  serving,         \* the request each HTTP worker is busy with
  waiting_join, waiting_create,   \* NetIO's tables of unanswered promises
  reply,           \* the value set in each request's promise
  in_q,            \* NetBus::in_q, one FIFO per producing thread
  bus_pc,          \* where the bus thread is
  bus_req, bus_port, bus_sid, bus_ok,   \* its locals msg, port, sid, ready
  session_map,     \* sessions created so far (never erased)
  port_to_sessionID,
  port, active,    \* PerfectServer::port and Session::active
  running, ready,  \* PerfectServer's atomics
  ws_thread,       \* the thread held by PerfectServer::ws_thread
  old_thread       \* its predecessor, while start() still has to join it

httpVars == <<handler, serving, waiting_join, waiting_create, reply, in_q>>
busVars == <<bus_pc, bus_req, bus_port, bus_sid, bus_ok>>
sessionVars == <<session_map, port_to_sessionID, port, active>>
wsVars == <<running, ready, ws_thread, old_thread>>
vars == <<httpVars, busVars, sessionVars, wsVars>>

Payload == [sid : Sessions \cup {None}, ws_port : Ports, ok : BOOLEAN]

ASSUME NoneAssumption == None \notin Ports \cup Payload

BusPC == {"poll", "scan", "lookup", "start", "clear", "spawn", "join",
          "wait", "reply"}

(***************************************************************************)
(* A WebSocket thread in async_ws_run(): about to publish ready, about to  *)
(* bind in ws_server.run(), in its event loop, in the loop after stop()    *)
(* asked it to end, back from run(), past running = false, finished.       *)
(***************************************************************************)
InRun == {"entering", "serving", "closing"}
Alive == {"starting", "returned"} \cup InRun
ThreadPC == {"none", "unmarked", "done"} \cup Alive

TypeOK ==
  /\ handler \in [Requests -> {"new", "emplaced", "waiting", "ok", "error"}]
  /\ serving \in [Workers -> Requests \cup {None}]
  /\ waiting_join \in SUBSET JoinRequests
  /\ waiting_create \in SUBSET CreateRequests
  /\ reply \in [Requests -> Payload \cup {None}]
  /\ in_q \in [Workers -> Seq(Requests)]
  /\ bus_pc \in BusPC
  /\ bus_req \in Requests \cup {None}
  /\ bus_port \in Ports
  /\ bus_sid \in Sessions \cup {None}
  /\ bus_ok \in BOOLEAN
  /\ session_map \in SUBSET Sessions
  /\ port_to_sessionID \in [Ports -> Sessions \cup {None}]
  /\ port \in [Sessions -> Ports]
  /\ active \in [Sessions -> BOOLEAN]
  /\ running \in [Sessions -> BOOLEAN]
  /\ ready \in [Sessions -> BOOLEAN]
  /\ ws_thread \in [Sessions -> ThreadPC]
  /\ old_thread \in [Sessions -> ThreadPC]

Init ==
  /\ handler = [r \in Requests |-> "new"]
  /\ serving = [w \in Workers |-> None]
  /\ waiting_join = {}
  /\ waiting_create = {}
  /\ reply = [r \in Requests |-> None]
  /\ in_q = [w \in Workers |-> <<>>]
  /\ bus_pc = "poll"
  /\ bus_req = None
  /\ bus_port = NoPort
  /\ bus_sid = None
  /\ bus_ok = FALSE
  /\ session_map = {}
  /\ port_to_sessionID = [p \in Ports |-> None]
  /\ port = [s \in Sessions |-> NoPort]
  /\ active = [s \in Sessions |-> FALSE]
  /\ running = [s \in Sessions |-> FALSE]
  /\ ready = [s \in Sessions |-> FALSE]
  /\ ws_thread = [s \in Sessions |-> "none"]
  /\ old_thread = [s \in Sessions |-> "none"]

-----------------------------------------------------------------------------
(* The HTTP handlers of /join and /create_session, on worker w.            *)

Register(w, r) ==
  /\ serving[w] = None
  /\ handler[r] = "new"
  /\ handler' = [handler EXCEPT ![r] = "emplaced"]
  /\ serving' = [serving EXCEPT ![w] = r]
  /\ \/ /\ r \in JoinRequests
        /\ waiting_join' = waiting_join \cup {r}
        /\ UNCHANGED waiting_create
     \/ /\ r \in CreateRequests
        /\ waiting_create' = waiting_create \cup {r}
        /\ UNCHANGED waiting_join
  /\ UNCHANGED <<reply, in_q, busVars, sessionVars, wsVars>>

SendIn(w) ==
  LET r == serving[w] IN
  /\ r # None
  /\ handler[r] = "emplaced"
  /\ handler' = [handler EXCEPT ![r] = "waiting"]
  /\ in_q' = [in_q EXCEPT ![w] = Append(@, r)]
  /\ UNCHANGED <<serving, waiting_join, waiting_create, reply,
                 busVars, sessionVars, wsVars>>

\* The worker returns its response and is free for the next request.
Respond(w, outcome) ==
  /\ handler' = [handler EXCEPT ![serving[w]] = outcome]
  /\ serving' = [serving EXCEPT ![w] = None]
  /\ UNCHANGED <<waiting_join, waiting_create, reply, in_q,
                 busVars, sessionVars, wsVars>>

\* fut.wait_for() found the promise satisfied.
FutureReady(w) ==
  LET r == serving[w] IN
  /\ r # None
  /\ handler[r] = "waiting"
  /\ reply[r] # None
  /\ Respond(w, IF reply[r].ok THEN "ok" ELSE "error")

\* Fault: a handler that times out sends its request again.
ResendOnTimeout(w) ==
  LET r == serving[w] IN
  /\ r # None
  /\ handler[r] = "waiting"
  /\ reply[r] = None
  /\ handler' = [handler EXCEPT ![r] = "emplaced"]
  /\ UNCHANGED <<serving, waiting_join, waiting_create, reply, in_q,
                 busVars, sessionVars, wsVars>>

\* 3000 ms passed first.  The entry in the table stays behind.
FutureTimeout(w) ==
  LET r == serving[w] IN
  /\ r # None
  /\ handler[r] = "waiting"
  /\ reply[r] = None
  /\ Respond(w, "error")

-----------------------------------------------------------------------------
(* The bus thread.                                                         *)

\* concurrentqueue keeps the order of each producing thread and none across.
Dequeue(w) ==
  /\ bus_pc = "poll"
  /\ in_q[w] # <<>>
  /\ bus_req' = Head(in_q[w])
  /\ in_q' = [in_q EXCEPT ![w] = Tail(@)]
  /\ \/ /\ Head(in_q[w]) \in JoinRequests
        /\ bus_pc' = "reply"
        /\ UNCHANGED bus_port
     \/ /\ Head(in_q[w]) \in CreateRequests
        /\ bus_pc' = "scan"
        /\ bus_port' = FirstPort
  /\ UNCHANGED <<bus_sid, bus_ok, handler, serving, waiting_join,
                 waiting_create, reply, sessionVars, wsVars>>

\* Fault: the flag used is never set.
PortNeverUsed(p) == FALSE

\* The inner loop of find_free_port().
PortUsed(p) == \E s \in session_map : active[s] /\ port[s] = p

\* One iteration of find_free_port(): active is read under each session's own
\* mutex, so a session can close behind the scan.
ScanPort ==
  /\ bus_pc = "scan"
  /\ \/ /\ PortUsed(bus_port)
        /\ bus_port < LastPort
        /\ bus_port' = bus_port + 1
        /\ UNCHANGED bus_pc
     \/ /\ PortUsed(bus_port)
        /\ bus_port = LastPort
        /\ bus_port' = NoPort
        /\ bus_pc' = "lookup"
     \/ /\ ~PortUsed(bus_port)
        /\ bus_pc' = "lookup"
        /\ UNCHANGED bus_port
  /\ UNCHANGED <<bus_req, bus_sid, bus_ok, httpVars, sessionVars, wsVars>>

\* Faults: existing sessions are never looked for; any existing one will do.
NeverReusable(p) == FALSE
AlwaysReusable(p) == port_to_sessionID[p] # None

\* existing && !existing->isActive()
Reusable(p) ==
  /\ port_to_sessionID[p] # None
  /\ ~active[port_to_sessionID[p]]

ReuseSession ==
  /\ bus_pc = "lookup"
  /\ Reusable(bus_port)
  /\ bus_sid' = port_to_sessionID[bus_port]
  /\ active' = [active EXCEPT ![bus_sid'] = TRUE]
  /\ bus_pc' = "start"
  /\ UNCHANGED <<bus_req, bus_port, bus_ok, session_map, port_to_sessionID,
                 port, httpVars, wsVars>>

CreateSession ==
  /\ bus_pc = "lookup"
  /\ ~Reusable(bus_port)
  /\ \E s \in Sessions \ session_map :
       /\ session_map' = session_map \cup {s}
       /\ port_to_sessionID' = [port_to_sessionID EXCEPT ![bus_port] = s]
       /\ port' = [port EXCEPT ![s] = bus_port]
       /\ active' = [active EXCEPT ![s] = TRUE]
       /\ bus_sid' = s
  /\ bus_pc' = "start"
  /\ UNCHANGED <<bus_req, bus_port, bus_ok, httpVars, wsVars>>

\* Fault: start() without the check of running.
StartServerAnyway ==
  /\ bus_pc = "start"
  /\ running' = [running EXCEPT ![bus_sid] = TRUE]
  /\ bus_pc' = "clear"
  /\ UNCHANGED <<bus_req, bus_port, bus_sid, bus_ok, httpVars, sessionVars,
                 ready, ws_thread, old_thread>>

\* PerfectServer::start() up to its first assignment.
StartServer ==
  /\ bus_pc = "start"
  /\ \/ /\ running[bus_sid]
        /\ bus_pc' = "wait"
        /\ UNCHANGED running
     \/ /\ ~running[bus_sid]
        /\ running' = [running EXCEPT ![bus_sid] = TRUE]
        /\ bus_pc' = "clear"
  /\ UNCHANGED <<bus_req, bus_port, bus_sid, bus_ok, httpVars, sessionVars,
                 ready, ws_thread, old_thread>>

\* ready = false, in start().
ClearReady ==
  /\ bus_pc = "clear"
  /\ ready' = [ready EXCEPT ![bus_sid] = FALSE]
  /\ bus_pc' = "spawn"
  /\ UNCHANGED <<bus_req, bus_port, bus_sid, bus_ok, httpVars, sessionVars,
                 running, ws_thread, old_thread>>

\* ws_server is replaced and the new jthread starts; the move assignment
\* joins the thread it displaces only afterwards.
SpawnServer ==
  /\ bus_pc = "spawn"
  /\ old_thread' = [old_thread EXCEPT ![bus_sid] = ws_thread[bus_sid]]
  /\ ws_thread' = [ws_thread EXCEPT ![bus_sid] = "starting"]
  /\ bus_pc' = "join"
  /\ UNCHANGED <<bus_req, bus_port, bus_sid, bus_ok, httpVars, sessionVars,
                 running, ready>>

\* Fault: the bus thread joins the thread it has just started.
JoinNewServer ==
  /\ bus_pc = "join"
  /\ ws_thread[bus_sid] = "done"
  /\ bus_pc' = "wait"
  /\ UNCHANGED <<bus_req, bus_port, bus_sid, bus_ok, httpVars, sessionVars,
                 wsVars>>

\* The move assignment of ws_thread joins the displaced thread.
JoinOldServer ==
  /\ bus_pc = "join"
  /\ old_thread[bus_sid] \in {"none", "done"}
  /\ old_thread' = [old_thread EXCEPT ![bus_sid] = "none"]
  /\ bus_pc' = "wait"
  /\ UNCHANGED <<bus_req, bus_port, bus_sid, bus_ok, httpVars, sessionVars,
                 running, ready, ws_thread>>

\* Fault: the time-out is taken for an answer.
WaitIgnoresTimeout ==
  /\ bus_pc = "wait"
  /\ bus_ok' = TRUE
  /\ bus_pc' = "reply"
  /\ UNCHANGED <<bus_req, bus_port, bus_sid, httpVars, sessionVars, wsVars>>

\* wait_until_ready(): the predicate held, or 3000 ms passed without it.
WaitUntilReady ==
  /\ bus_pc = "wait"
  /\ bus_ok' = ready[bus_sid]
  /\ bus_pc' = "reply"
  /\ UNCHANGED <<bus_req, bus_port, bus_sid, httpVars, sessionVars, wsVars>>

\* Fault: the port is left out of the reply.
CreateReplyWithoutPort == [sid |-> bus_sid, ws_port |-> NoPort, ok |-> bus_ok]

\* CreateSessionReplyPayload
CreateReply == [sid |-> bus_sid, ws_port |-> bus_port, ok |-> bus_ok]

\* NetIO::handle_reply(): a join keeps its table entry, a create loses it.
HandleReply ==
  /\ bus_pc = "reply"
  /\ \/ /\ bus_req \in waiting_join
        /\ reply' = [reply EXCEPT ![bus_req] =
                       [sid |-> None, ws_port |-> NoPort, ok |-> TRUE]]
        /\ UNCHANGED waiting_create
     \/ /\ bus_req \in waiting_create
        /\ reply' = [reply EXCEPT ![bus_req] = CreateReply]
        /\ waiting_create' = waiting_create \ {bus_req}
     \/ /\ bus_req \notin waiting_join \cup waiting_create
        /\ UNCHANGED <<reply, waiting_create>>
  /\ bus_pc' = "poll"
  /\ bus_req' = None
  /\ bus_sid' = None
  /\ bus_port' = NoPort
  /\ bus_ok' = FALSE
  /\ UNCHANGED <<handler, serving, waiting_join, in_q, sessionVars, wsVars>>

-----------------------------------------------------------------------------
(* The WebSocket thread of session s.                                      *)

WsStep(s, from, to) ==
  /\ ws_thread[s] = from
  /\ ws_thread' = [ws_thread EXCEPT ![s] = to]

PublishReady(s) ==
  /\ WsStep(s, "starting", "entering")
  /\ ready' = [ready EXCEPT ![s] = TRUE]
  /\ UNCHANGED <<running, old_thread, httpVars, busVars, sessionVars>>

\* ws_server.run() binds the port, or fails to and returns at once.
Listen(s) ==
  /\ WsStep(s, "entering", "serving") \/ WsStep(s, "entering", "returned")
  /\ UNCHANGED <<running, ready, old_thread, httpVars, busVars, sessionVars>>

\* Fault: stop() clears running itself.
SessionCloseClearsRunning(s) ==
  /\ port[s] # NoPort
  /\ WsStep(s, "serving", "closing") \/ WsStep(s, "closing", "closing")
  /\ active' = [active EXCEPT ![s] = FALSE]
  /\ running' = [running EXCEPT ![s] = FALSE]
  /\ UNCHANGED <<ready, old_thread, httpVars, busVars,
                 session_map, port_to_sessionID, port>>

\* The control part of handle_session_close(), on the loop's own thread:
\* stop() asks the loop to end and the session becomes inactive.  What the
\* loop has already polled is still handled, a second session_close included.
\* No client reaches a session whose port is NoPort.
SessionClose(s) ==
  /\ port[s] # NoPort
  /\ WsStep(s, "serving", "closing") \/ WsStep(s, "closing", "closing")
  /\ active' = [active EXCEPT ![s] = FALSE]
  /\ UNCHANGED <<running, ready, old_thread, httpVars, busVars,
                 session_map, port_to_sessionID, port>>

RunReturns(s) ==
  /\ WsStep(s, "closing", "returned")
  /\ UNCHANGED <<running, ready, old_thread, httpVars, busVars, sessionVars>>

ClearRunning(s) ==
  /\ WsStep(s, "returned", "unmarked")
  /\ running' = [running EXCEPT ![s] = FALSE]
  /\ UNCHANGED <<ready, old_thread, httpVars, busVars, sessionVars>>

\* The last statement of async_ws_run(), in the current thread of the server
\* or in the one a restart has displaced.
ClearReadyAtExit(s) ==
  /\ \/ /\ WsStep(s, "unmarked", "done")
        /\ UNCHANGED old_thread
     \/ /\ old_thread[s] = "unmarked"
        /\ old_thread' = [old_thread EXCEPT ![s] = "done"]
        /\ UNCHANGED ws_thread
  /\ ready' = [ready EXCEPT ![s] = FALSE]
  /\ UNCHANGED <<running, httpVars, busVars, sessionVars>>

-----------------------------------------------------------------------------

WorkerStep(w) == SendIn(w) \/ FutureReady(w) \/ FutureTimeout(w)

BusStep ==
  \/ \E w \in Workers : Dequeue(w)
  \/ ScanPort \/ ReuseSession \/ CreateSession
  \/ StartServer \/ ClearReady \/ SpawnServer \/ JoinOldServer
  \/ WaitUntilReady \/ HandleReply

ThreadStep(s) ==
  \/ PublishReady(s) \/ Listen(s) \/ RunReturns(s)
  \/ ClearRunning(s) \/ ClearReadyAtExit(s)

Next ==
  \/ \E w \in Workers, r \in Requests : Register(w, r)
  \/ \E w \in Workers : WorkerStep(w)
  \/ BusStep
  \/ \E s \in Sessions : ThreadStep(s) \/ SessionClose(s)

Spec == Init /\ [][Next]_vars

(***************************************************************************)
(* Every thread keeps being scheduled.  Users owe the server nothing: no   *)
(* fairness on Register (a request arrives) or SessionClose (a host leaves).*)
(***************************************************************************)
Fairness ==
  /\ \A w \in Workers : WF_vars(WorkerStep(w))
  /\ WF_vars(BusStep)
  /\ \A s \in Sessions : WF_vars(ThreadStep(s))

FairSpec == Spec /\ Fairness

-----------------------------------------------------------------------------
(* Safety.                                                                 *)

\* A session created on a real port is the one its port leads back to, so no
\* two sessions ever share a port however creations, closes and reuses
\* interleave (SessionManager::find_free_port, getSessionByPort, setportID).
SessionFoundByPort ==
  \A s \in session_map :
    port[s] # NoPort => port_to_sessionID[port[s]] = s

\* handle_reply() never sets a promise twice (std::promise would throw on the
\* bus thread) and never misses its waiter, also when the waiter timed out.
AnswerOnce ==
  bus_pc = "reply" =>
    /\ reply[bus_req] = None
    /\ bus_req \in waiting_join \cup waiting_create

\* Whatever session a creator was told about exists and is bound to the very
\* port it was told, also after the session has been closed and reused.
ReplyNamesSession ==
  \A r \in CreateRequests :
    reply[r] # None =>
      /\ reply[r].sid \in session_map
      /\ port[reply[r].sid] = reply[r].ws_port

\* start() replaces ws_server and displaces ws_thread only when the displaced
\* thread is past run(): no loop runs on a server object being overwritten.
DisplacedServerStopped ==
  \A s \in Sessions : old_thread[s] \in {"none", "unmarked", "done"}

\* A positive answer of wait_until_ready() comes from the new thread: start()
\* has wiped the ready flag its predecessor left behind.
ReadyIsFresh ==
  bus_pc = "reply" /\ bus_ok => ws_thread[bus_sid] # "starting"

\* The bus thread hands a session to a creator only while nobody holds it: a
\* session in use is never taken over by a second create_session.
NoTakeover ==
  [][bus_pc = "lookup" /\ bus_pc' = "start" => ~active[bus_sid']]_vars

(* Liveness.                                                               *)

\* Every request put on the bus is answered, whether or not its HTTP handler
\* is still waiting: the bus thread never blocks for good, neither joining a
\* displaced thread nor waiting for readiness.
EveryRequestReplied ==
  \A r \in Requests : handler[r] = "waiting" ~> reply[r] # None

(* What the comment above handle_session_close() says, PerfectServer.cpp:113:  *)
(* "closes server and sets session to inactive".  The code only asks the   *)
(* loop to stop before it marks the session inactive.                      *)

\* A session that is not active has no server in its event loop.
InactiveServerClosed ==
  \A s \in Sessions : ~active[s] => ws_thread[s] \notin InRun
=============================================================================
