---------------------- MODULE SessionControlRefinement ----------------------
(***************************************************************************)
(* SessionControl implements SessionService and, for each session, its     *)
(* side of SessionLife.                                                    *)
(***************************************************************************)
EXTENDS SessionControl

ASSUME GivenAssumption ==
  None \notin [sid : Sessions \cup {None}, ws_port : Ports]

\* An active session holds its port.
leaseOf == [s \in Sessions |-> IF active[s] THEN port[s] ELSE None]

\* A creator is given its session when the bus thread activates it, long
\* before the reply reaches the promise.
givenTo ==
  [r \in CreateRequests |->
     IF reply[r] # None
     THEN [sid |-> reply[r].sid, ws_port |-> reply[r].ws_port]
     ELSE IF bus_req = r /\ bus_sid # None
     THEN [sid |-> bus_sid, ws_port |-> bus_port]
     ELSE None]

toldTo ==
  [r \in CreateRequests |->
     IF handler[r] \in {"ok", "error"} THEN handler[r] ELSE "nothing"]

Service == INSTANCE SessionService
             WITH lease <- leaseOf, given <- givenTo, told <- toldTo

\* Every step of the server's threads is a step the service allows, or none:
\* in particular a port is leased once at a time, a creator is given one
\* session, and is told ok only after that (Server.cpp, NetIO.cpp).
ImplementsService == Service!ServiceSpec

-----------------------------------------------------------------------------

\* running covers the loop and what async_ws_run() does around it.
loopOf ==
  [s \in Sessions |->
     IF ~running[s] THEN "ended"
     ELSE IF ws_thread[s] \in {"closing", "returned"} THEN "stopping"
     ELSE "running"]

busOf ==
  [s \in Sessions |-> IF bus_sid = s /\ bus_pc = "start" THEN "taken" ELSE "idle"]

Life(s) == INSTANCE SessionLife
             WITH active <- active[s], loop <- loopOf[s], bus <- busOf[s]

\* Each session keeps to the contract with the messages of its loop: it is
\* handed out only while nobody holds it, started only where no loop is left,
\* and its loop ends only after it was asked to or could not bind its port
\* (SessionManager::create, PerfectServer::start, async_ws_run).
ImplementsLives ==
  /\ \A s \in Sessions : Life(s)!LifeInit
  /\ [][\A s \in Sessions : [Life(s)!LifeNext]_<<active[s], loopOf[s], busOf[s]>>]_vars
=============================================================================
