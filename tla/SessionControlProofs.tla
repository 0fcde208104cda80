------------------------ MODULE SessionControlProofs ------------------------
(***************************************************************************)
(* What holds of SessionControl for any number of workers, requests,       *)
(* sessions and ports.  The inductive invariant is the conjunction of the  *)
(* named parts below; each part says how two pieces of state that          *)
(* different threads write belong together.  With it, the control plane    *)
(* implements SessionService, and SessionLife for each session.            *)
(***************************************************************************)
EXTENDS SessionControlRefinement, TLAPS

-----------------------------------------------------------------------------
(* The inductive invariant.                                                *)

InStart == {"start", "clear", "spawn", "join", "wait"}

\* The locals of the bus thread agree with where it is.
BusInv ==
  /\ bus_pc # "poll" => bus_req \in Requests
  /\ bus_pc \in {"scan", "lookup"} \cup InStart => bus_req \in CreateRequests
  /\ bus_pc = "scan" => bus_port # NoPort
  /\ bus_pc \in InStart => bus_sid \in session_map /\ port[bus_sid] = bus_port
  /\ bus_pc = "reply" /\ bus_req \in CreateRequests =>
       bus_sid \in session_map /\ port[bus_sid] = bus_port
  /\ bus_pc \in {"poll", "scan", "lookup"} => bus_sid = None
  /\ bus_ok => bus_pc = "reply" /\ bus_req \in CreateRequests

\* The maps of the session manager mirror each other, only created sessions
\* are active, and the port the bus thread is about to lease is free.
PortInv ==
  /\ SessionFoundByPort
  /\ \A p \in Ports : port_to_sessionID[p] # None =>
       /\ port_to_sessionID[p] \in session_map
       /\ port[port_to_sessionID[p]] = p
  /\ \A s \in Sessions : active[s] => s \in session_map
  /\ bus_pc = "lookup" /\ bus_port # NoPort => ~PortUsed(bus_port)

\* running covers the whole life of a thread up to the return of run(), and
\* ready is never left over when a thread starts.
ThreadInv ==
  /\ DisplacedServerStopped
  /\ \A s \in Sessions : ws_thread[s] \in Alive => running[s]
  /\ \A s \in Sessions : ws_thread[s] = "starting" => ~ready[s]
  /\ bus_pc \in {"clear", "spawn"} =>
       running[bus_sid] /\ ws_thread[bus_sid] \notin Alive
  /\ bus_pc = "spawn" => ~ready[bus_sid]
  /\ ReadyIsFresh

ControlInv == TypeOK /\ BusInv /\ PortInv /\ ThreadInv

\* The server starts with no session, no thread and no request.
LEMMA InitControlInv == Init => ControlInv
  <1> SUFFICES ASSUME Init
               PROVE  ControlInv
    OBVIOUS
  <1> USE DEF Init
  <1>1. TypeOK
    <2>1. <<>> \in Seq(Requests)
      OBVIOUS
    <2>2. in_q \in [Workers -> Seq(Requests)]
      BY <2>1
    <2>3. NoPort \in Ports
      BY DEF Ports
    <2> QED
      BY <2>2, <2>3 DEF TypeOK, BusPC, ThreadPC
  <1>2. BusInv
    BY DEF BusInv, InStart
  <1>3. PortInv
    BY DEF PortInv, SessionFoundByPort
  <1>4. ThreadInv
    BY DEF ThreadInv, DisplacedServerStopped, ReadyIsFresh, Alive, InRun
  <1> QED
    BY <1>1, <1>2, <1>3, <1>4 DEF ControlInv

-----------------------------------------------------------------------------
(* Type correctness.                                                       *)

\* Every action of every thread keeps the types.
LEMMA TypeStep ==
  ASSUME TypeOK, BusInv, [Next]_vars
  PROVE  TypeOK'
  <1> USE DEF TypeOK, httpVars, busVars, sessionVars, wsVars
  <1>1. ASSUME NEW w \in Workers, NEW r \in Requests, Register(w, r)
        PROVE  TypeOK'
    BY <1>1 DEF Register, Requests
  <1>2. ASSUME NEW w \in Workers, SendIn(w)
        PROVE  TypeOK'
    <2>1. serving[w] \in Requests
      BY <1>2 DEF SendIn
    <2>2. in_q' \in [Workers -> Seq(Requests)]
      BY <1>2, <2>1 DEF SendIn
    <2> QED
      BY <1>2, <2>1, <2>2 DEF SendIn
  <1>3. ASSUME NEW w \in Workers, FutureReady(w) \/ FutureTimeout(w)
        PROVE  TypeOK'
    BY <1>3 DEF FutureReady, FutureTimeout, Respond
  <1>4. ASSUME NEW w \in Workers, Dequeue(w)
        PROVE  TypeOK'
    <2>1. Head(in_q[w]) \in Requests /\ Tail(in_q[w]) \in Seq(Requests)
      BY <1>4 DEF Dequeue
    <2>2. in_q' \in [Workers -> Seq(Requests)]
      BY <1>4, <2>1 DEF Dequeue
    <2> QED
      BY <1>4, <2>1, <2>2, PortAssumption DEF Dequeue, Ports, BusPC
  <1>5. CASE ScanPort
    BY <1>5, PortAssumption DEF ScanPort, BusInv, Ports, NoPort, BusPC
  <1>6. CASE ReuseSession
    BY <1>6 DEF ReuseSession, Reusable, BusPC
  <1>7. CASE CreateSession
    BY <1>7 DEF CreateSession, BusPC
  <1>8. CASE StartServer \/ ClearReady \/ SpawnServer \/ JoinOldServer
    BY <1>8 DEF StartServer, ClearReady, SpawnServer, JoinOldServer, BusPC,
                ThreadPC, Alive
  <1>9. CASE WaitUntilReady
    BY <1>9 DEF WaitUntilReady, BusInv, InStart, BusPC
  <1>10. CASE HandleReply
    <2>1. [sid |-> None, ws_port |-> NoPort, ok |-> TRUE] \in Payload
      BY DEF Payload, Ports
    <2>2. CreateReply \in Payload
      BY DEF Payload, CreateReply
    <2> QED
      BY <1>10, <2>1, <2>2 DEF HandleReply, BusPC, Ports
  <1>11. ASSUME NEW s \in Sessions, ThreadStep(s) \/ SessionClose(s)
         PROVE  TypeOK'
    BY <1>11 DEF ThreadStep, PublishReady, Listen, RunReturns, ClearRunning,
                 ClearReadyAtExit, SessionClose, WsStep, ThreadPC, Alive, InRun
  <1>12. CASE UNCHANGED vars
    BY <1>12 DEF vars
  <1> QED
    BY <1>1, <1>2, <1>3, <1>4, <1>5, <1>6, <1>7, <1>8, <1>9, <1>10, <1>11,
       <1>12 DEF Next, WorkerStep, BusStep

-----------------------------------------------------------------------------
(* Ports and sessions.                                                     *)

\* The bus thread is the only one that writes its locals and the maps; the
\* threads of the sessions leave BusInv alone.
LEMMA BusInvStep ==
  ASSUME TypeOK, BusInv, PortInv, [Next]_vars
  PROVE  BusInv'
  <1> USE DEF BusInv, InStart
  <1>1. ASSUME NEW w \in Workers, NEW r \in Requests, Register(w, r)
        PROVE  BusInv'
    BY <1>1 DEF Register, busVars, sessionVars
  <1>2. ASSUME NEW w \in Workers, WorkerStep(w)
        PROVE  BusInv'
    BY <1>2 DEF WorkerStep, SendIn, FutureReady, FutureTimeout, Respond,
                busVars, sessionVars
  <1>3. ASSUME NEW w \in Workers, Dequeue(w)
        PROVE  BusInv'
    <2>1. Head(in_q[w]) \in Requests
      BY <1>3 DEF Dequeue, TypeOK
    <2> QED
      BY <1>3, <2>1, PortAssumption, IdAssumption
         DEF Dequeue, sessionVars, NoPort
  <1>4. CASE ScanPort
    BY <1>4, PortAssumption
       DEF ScanPort, TypeOK, Ports, NoPort, httpVars, sessionVars
  <1>5. CASE ReuseSession
    BY <1>5 DEF ReuseSession, Reusable, PortInv, TypeOK
  <1>6. CASE CreateSession
    BY <1>6 DEF CreateSession, TypeOK
  <1>7. CASE StartServer \/ ClearReady \/ SpawnServer \/ JoinOldServer
    BY <1>7 DEF StartServer, ClearReady, SpawnServer, JoinOldServer, sessionVars
  <1>8. CASE WaitUntilReady
    BY <1>8 DEF WaitUntilReady, sessionVars
  <1>9. CASE HandleReply
    BY <1>9 DEF HandleReply, sessionVars
  <1>10. ASSUME NEW s \in Sessions, ThreadStep(s) \/ SessionClose(s)
         PROVE  BusInv'
    BY <1>10 DEF ThreadStep, PublishReady, Listen, RunReturns, ClearRunning,
                 ClearReadyAtExit, SessionClose, busVars, sessionVars
  <1>11. CASE UNCHANGED vars
    BY <1>11 DEF vars, busVars, sessionVars
  <1> QED
    BY <1>1, <1>2, <1>3, <1>4, <1>5, <1>6, <1>7, <1>8, <1>9, <1>10, <1>11
       DEF Next, BusStep

\* A new session displaces another from the port map only when that one is
\* inactive, and then it is reused instead; so the maps stay inverse.
LEMMA PortInvStep ==
  ASSUME TypeOK, BusInv, PortInv, [Next]_vars
  PROVE  PortInv'
  <1> USE DEF PortInv, SessionFoundByPort, PortUsed
  <1>1. ASSUME NEW w \in Workers, NEW r \in Requests, Register(w, r)
        PROVE  PortInv'
    BY <1>1 DEF Register, busVars, sessionVars
  <1>2. ASSUME NEW w \in Workers, WorkerStep(w)
        PROVE  PortInv'
    BY <1>2 DEF WorkerStep, SendIn, FutureReady, FutureTimeout, Respond,
                busVars, sessionVars
  <1>3. ASSUME NEW w \in Workers, Dequeue(w)
        PROVE  PortInv'
    BY <1>3 DEF Dequeue, sessionVars
  <1>4. CASE ScanPort
    BY <1>4 DEF ScanPort, sessionVars
  <1>5. CASE ReuseSession
    BY <1>5 DEF ReuseSession, Reusable, TypeOK
  <1>6. CASE CreateSession
    <2>1. PICK s \in Sessions \ session_map :
            /\ session_map' = session_map \cup {s}
            /\ port_to_sessionID' = [port_to_sessionID EXCEPT ![bus_port] = s]
            /\ port' = [port EXCEPT ![s] = bus_port]
            /\ active' = [active EXCEPT ![s] = TRUE]
            /\ bus_sid' = s
      BY <1>6 DEF CreateSession
    <2> USE <2>1 DEF TypeOK
    <2>2. bus_port # NoPort => \A t \in session_map : port[t] # bus_port
      BY <1>6, IdAssumption DEF CreateSession, Reusable
    <2>3. SessionFoundByPort'
      BY <2>2
    <2>4. ASSUME NEW p \in Ports, port_to_sessionID'[p] # None
          PROVE  /\ port_to_sessionID'[p] \in session_map'
                 /\ port'[port_to_sessionID'[p]] = p
      BY <2>4
    <2>5. \A t \in Sessions : active'[t] => t \in session_map'
      OBVIOUS
    <2>6. bus_pc' # "lookup"
      BY <1>6 DEF CreateSession
    <2> QED
      BY <2>3, <2>4, <2>5, <2>6
  <1>7. CASE StartServer \/ ClearReady \/ SpawnServer \/ JoinOldServer
    BY <1>7 DEF StartServer, ClearReady, SpawnServer, JoinOldServer, sessionVars
  <1>8. CASE WaitUntilReady
    BY <1>8 DEF WaitUntilReady, sessionVars
  <1>9. CASE HandleReply
    BY <1>9 DEF HandleReply, sessionVars
  <1>10. ASSUME NEW s \in Sessions, ThreadStep(s)
         PROVE  PortInv'
    BY <1>10 DEF ThreadStep, PublishReady, Listen, RunReturns, ClearRunning,
                 ClearReadyAtExit, busVars, sessionVars
  <1>11. ASSUME NEW s \in Sessions, SessionClose(s)
         PROVE  PortInv'
    BY <1>11 DEF SessionClose, TypeOK, busVars
  <1>12. CASE UNCHANGED vars
    BY <1>12 DEF vars, busVars, sessionVars
  <1> QED
    BY <1>1, <1>2, <1>3, <1>4, <1>5, <1>6, <1>7, <1>8, <1>9, <1>10, <1>11,
       <1>12 DEF Next, BusStep

-----------------------------------------------------------------------------
(* Threads of a session.                                                   *)

\* The bus thread starts a server only when running is off, and running goes
\* off only after run() has returned.
LEMMA ThreadInvStep ==
  ASSUME TypeOK, BusInv, ThreadInv, [Next]_vars
  PROVE  ThreadInv'
  <1> USE DEF ThreadInv, DisplacedServerStopped, ReadyIsFresh, Alive, InRun
  <1>0. bus_pc \in {"clear", "spawn"} \/ (bus_pc = "reply" /\ bus_ok)
          => bus_sid \in Sessions
    BY DEF TypeOK, BusInv, InStart
  <1>1. ASSUME NEW w \in Workers, NEW r \in Requests, Register(w, r)
        PROVE  ThreadInv'
    BY <1>1 DEF Register, busVars, wsVars
  <1>2. ASSUME NEW w \in Workers, WorkerStep(w)
        PROVE  ThreadInv'
    BY <1>2 DEF WorkerStep, SendIn, FutureReady, FutureTimeout, Respond,
                busVars, wsVars
  <1>3. ASSUME NEW w \in Workers, Dequeue(w)
        PROVE  ThreadInv'
    BY <1>3 DEF Dequeue, wsVars, BusInv
  <1>4. CASE ScanPort \/ ReuseSession \/ CreateSession
    BY <1>4 DEF ScanPort, ReuseSession, CreateSession, wsVars, BusInv
  <1>5. CASE StartServer
    BY <1>5 DEF StartServer, BusInv, InStart, TypeOK
  <1>6. CASE ClearReady
    BY <1>6 DEF ClearReady, BusInv, InStart, TypeOK
  <1>7. CASE SpawnServer
    BY <1>7 DEF SpawnServer, BusInv, InStart, TypeOK, ThreadPC
  <1>8. CASE JoinOldServer
    BY <1>8 DEF JoinOldServer, TypeOK
  <1>9. CASE WaitUntilReady
    BY <1>9 DEF WaitUntilReady, BusInv, InStart, TypeOK, wsVars
  <1>10. CASE HandleReply
    BY <1>10 DEF HandleReply, wsVars
  <1>11. ASSUME NEW s \in Sessions, PublishReady(s)
         PROVE  ThreadInv'
    BY <1>0, <1>11 DEF PublishReady, WsStep, TypeOK, busVars
  <1>12. ASSUME NEW s \in Sessions, Listen(s) \/ RunReturns(s)
         PROVE  ThreadInv'
    BY <1>0, <1>12 DEF Listen, RunReturns, WsStep, TypeOK, busVars
  <1>13. ASSUME NEW s \in Sessions, SessionClose(s)
         PROVE  ThreadInv'
    BY <1>0, <1>13 DEF SessionClose, WsStep, TypeOK, busVars
  <1>14. ASSUME NEW s \in Sessions, ClearRunning(s)
         PROVE  ThreadInv'
    BY <1>0, <1>14 DEF ClearRunning, WsStep, TypeOK, busVars
  <1>15. ASSUME NEW s \in Sessions, ClearReadyAtExit(s)
         PROVE  ThreadInv'
    <2> USE <1>0, <1>15 DEF ClearReadyAtExit, WsStep, TypeOK, busVars
    <2>1. DisplacedServerStopped'
      OBVIOUS
    <2>2. /\ \A t \in Sessions : ws_thread'[t] \in Alive => running'[t]
          /\ \A t \in Sessions : ws_thread'[t] = "starting" => ~ready'[t]
      OBVIOUS
    <2>3. bus_pc' \in {"clear", "spawn"} =>
            running'[bus_sid'] /\ ws_thread'[bus_sid'] \notin Alive
      OBVIOUS
    <2>4. bus_pc' = "spawn" => ~ready'[bus_sid']
      OBVIOUS
    <2>5. ReadyIsFresh'
      OBVIOUS
    <2> QED
      BY <2>1, <2>2, <2>3, <2>4, <2>5
  <1>16. CASE UNCHANGED vars
    BY <1>16 DEF vars, busVars, wsVars
  <1> QED
    BY <1>1, <1>2, <1>3, <1>4, <1>5, <1>6, <1>7, <1>8, <1>9, <1>10, <1>11,
       <1>12, <1>13, <1>14, <1>15, <1>16 DEF Next, BusStep, ThreadStep

-----------------------------------------------------------------------------
(* The theorems.                                                           *)

\* The parts together are inductive.
LEMMA ControlInvariant == Spec => []ControlInv
  <1>1. ControlInv /\ [Next]_vars => ControlInv'
    BY TypeStep, BusInvStep, PortInvStep, ThreadInvStep DEF ControlInv
  <1> QED
    BY <1>1, InitControlInv, PTL DEF Spec

\* TypeOK holds of every reachable state: in particular the scan of
\* find_free_port() stays in its range and every payload is well-formed.
THEOREM TypeCorrect == Spec => []TypeOK
  <1>1. ControlInv => TypeOK
    BY DEF ControlInv
  <1> QED
    BY <1>1, ControlInvariant, PTL

\* However many users create and close sessions, no two sessions share a real
\* port: each is the one its port leads back to.
THEOREM PortsExclusive == Spec => []SessionFoundByPort
  <1>1. ControlInv => SessionFoundByPort
    BY DEF ControlInv, PortInv
  <1> QED
    BY <1>1, ControlInvariant, PTL

\* PerfectServer::start() never overwrites a server whose loop still runs.
THEOREM NoLiveServerDisplaced == Spec => []DisplacedServerStopped
  <1>1. ControlInv => DisplacedServerStopped
    BY DEF ControlInv, ThreadInv
  <1> QED
    BY <1>1, ControlInvariant, PTL

\* wait_until_ready() is never satisfied by the flag of an earlier thread.
THEOREM ReadyNeverStale == Spec => []ReadyIsFresh
  <1>1. ControlInv => ReadyIsFresh
    BY DEF ControlInv, ThreadInv
  <1> QED
    BY <1>1, ControlInvariant, PTL

\* The bus thread never hands out a session somebody still holds.
THEOREM NeverTakenOver == Spec => NoTakeover
  <1>1. ControlInv /\ [Next]_vars
          => [bus_pc = "lookup" /\ bus_pc' = "start" => ~active[bus_sid']]_vars
    <2> SUFFICES ASSUME ControlInv, Next,
                        bus_pc = "lookup", bus_pc' = "start"
                 PROVE  ~active[bus_sid']
      OBVIOUS
    <2>1. ReuseSession \/ CreateSession
      BY DEF Next, WorkerStep, BusStep, ThreadStep, Register, SendIn,
             FutureReady, FutureTimeout, Respond, Dequeue, ScanPort,
             StartServer, ClearReady, SpawnServer, JoinOldServer,
             WaitUntilReady, HandleReply, PublishReady, Listen, RunReturns,
             ClearRunning, ClearReadyAtExit, SessionClose, busVars
    <2>2. CASE ReuseSession
      BY <2>2 DEF ReuseSession, Reusable
    <2>3. CASE CreateSession
      BY <2>3 DEF CreateSession, ControlInv, PortInv
    <2> QED
      BY <2>1, <2>2, <2>3
  <1> QED
    BY <1>1, ControlInvariant, PTL DEF Spec, NoTakeover

-----------------------------------------------------------------------------
(* Answers.  A request is in one place at a time: with its handler, in one *)
(* slot of the queue, with the bus thread, or answered; and until it is    *)
(* answered it has an entry in a table of waiters.                         *)

InQueue(r) == \E w \in Workers : \E i \in DOMAIN in_q[w] : in_q[w][i] = r

NotSentYet ==
  \A r \in Requests : handler[r] \in {"new", "emplaced"} =>
    ~InQueue(r) /\ bus_req # r /\ reply[r] = None

Awaited ==
  \A r \in Requests : handler[r] # "new" /\ reply[r] = None =>
    r \in waiting_join \cup waiting_create

InOnePlace ==
  /\ \A w \in Workers : \A i \in DOMAIN in_q[w] :
       in_q[w][i] # bus_req /\ reply[in_q[w][i]] = None
  /\ bus_req # None => reply[bus_req] = None
  /\ \A v, w \in Workers :
       \A i \in DOMAIN in_q[v] : \A j \in DOMAIN in_q[w] :
         in_q[v][i] = in_q[w][j] => v = w /\ i = j

WaiterInv == NotSentYet /\ Awaited /\ InOnePlace

\* At the start nothing has been sent.
LEMMA InitWaiterInv == Init => WaiterInv /\ ReplyNamesSession
  <1> SUFFICES ASSUME Init
               PROVE  WaiterInv /\ ReplyNamesSession
    OBVIOUS
  <1> USE DEF Init
  <1>1. \A w \in Workers : DOMAIN in_q[w] = {}
    OBVIOUS
  <1>2. NotSentYet
    BY <1>1, IdAssumption DEF NotSentYet, InQueue, Requests
  <1>3. Awaited
    BY DEF Awaited
  <1>4. InOnePlace
    BY <1>1 DEF InOnePlace
  <1>5. ReplyNamesSession
    BY DEF ReplyNamesSession, Requests
  <1> QED
    BY <1>2, <1>3, <1>4, <1>5 DEF WaiterInv

\* Appending to one queue a request that is in none keeps them apart.
LEMMA SendInStep ==
  ASSUME TypeOK, WaiterInv, NEW w \in Workers, SendIn(w)
  PROVE  WaiterInv'
  <1> DEFINE r == serving[w]
  <1>1. r \in Requests /\ handler[r] = "emplaced"
    BY DEF SendIn, TypeOK
  <1>2. /\ handler' = [handler EXCEPT ![r] = "waiting"]
        /\ in_q' = [in_q EXCEPT ![w] = Append(in_q[w], r)]
        /\ UNCHANGED <<waiting_join, waiting_create, reply, bus_req>>
    BY DEF SendIn, busVars
  <1>3. ~InQueue(r) /\ bus_req # r /\ reply[r] = None
    BY <1>1 DEF WaiterInv, NotSentYet
  <1>4. \A v \in Workers :
          /\ v # w => in_q'[v] = in_q[v]
          /\ in_q[v] \in Seq(Requests)
    BY <1>2 DEF TypeOK
  <1>5. /\ in_q'[w] = Append(in_q[w], r)
        /\ DOMAIN in_q'[w] = DOMAIN in_q[w] \cup {Len(in_q[w]) + 1}
        /\ in_q'[w][Len(in_q[w]) + 1] = r
        /\ \A i \in DOMAIN in_q[w] : in_q'[w][i] = in_q[w][i]
    BY <1>1, <1>2, <1>4 DEF TypeOK
  <1> HIDE DEF r
  <1>6. \A v \in Workers : \A i \in DOMAIN in_q'[v] :
          \/ i \in DOMAIN in_q[v] /\ in_q'[v][i] = in_q[v][i]
          \/ v = w /\ i = Len(in_q[w]) + 1 /\ in_q'[v][i] = r
    BY <1>4, <1>5
  <1>7. NotSentYet'
    BY <1>1, <1>2, <1>6 DEF WaiterInv, NotSentYet, InQueue, TypeOK
  <1>8. Awaited'
    BY <1>1, <1>2, <1>3 DEF WaiterInv, Awaited, TypeOK
  <1>9. InOnePlace'
    <2>1. \A v \in Workers : \A i \in DOMAIN in_q'[v] :
            in_q'[v][i] # bus_req' /\ reply'[in_q'[v][i]] = None
      BY <1>2, <1>3, <1>6 DEF WaiterInv, InOnePlace
    <2>2. ASSUME NEW u \in Workers, NEW v \in Workers,
                 NEW i \in DOMAIN in_q'[u], NEW j \in DOMAIN in_q'[v],
                 in_q'[u][i] = in_q'[v][j]
          PROVE  u = v /\ i = j
      BY <1>3, <1>6, <2>2 DEF WaiterInv, InOnePlace, InQueue
    <2> QED
      BY <1>2, <2>1, <2>2 DEF WaiterInv, InOnePlace
  <1> QED
    BY <1>7, <1>8, <1>9 DEF WaiterInv

\* The bus thread takes the head of one queue: it is nowhere else.
LEMMA DequeueStep ==
  ASSUME TypeOK, WaiterInv, NEW w \in Workers, Dequeue(w)
  PROVE  WaiterInv'
  <1>1. /\ in_q[w] # <<>>
        /\ bus_req' = Head(in_q[w])
        /\ in_q' = [in_q EXCEPT ![w] = Tail(in_q[w])]
        /\ UNCHANGED <<handler, waiting_join, waiting_create, reply>>
    BY DEF Dequeue
  <1>2. \A v \in Workers :
          /\ v # w => in_q'[v] = in_q[v]
          /\ in_q[v] \in Seq(Requests)
    BY <1>1 DEF TypeOK
  <1>3. /\ 1 \in DOMAIN in_q[w]
        /\ bus_req' = in_q[w][1]
        /\ \A i \in DOMAIN in_q'[w] :
             /\ i \in Nat /\ i + 1 \in DOMAIN in_q[w] /\ i + 1 # 1
             /\ in_q'[w][i] = in_q[w][i + 1]
    <2> DEFINE s == in_q[w]
    <2>1. in_q'[w] = Tail(s)
      BY <1>1 DEF TypeOK
    <2>2. s \in Seq(Requests) /\ s # <<>> /\ bus_req' = Head(s)
      BY <1>1, <1>2
    <2> HIDE DEF s
    <2>3. /\ 1 \in DOMAIN s
          /\ Head(s) = s[1]
          /\ \A i \in DOMAIN Tail(s) :
               /\ i \in Nat /\ i + 1 \in DOMAIN s /\ i + 1 # 1
               /\ Tail(s)[i] = s[i + 1]
      BY <2>2
    <2> QED
      BY <2>1, <2>2, <2>3 DEF s
  <1>4. \A v \in Workers : \A i \in DOMAIN in_q'[v] :
          \E k \in DOMAIN in_q[v] :
            /\ in_q'[v][i] = in_q[v][k]
            /\ v = w => k = i + 1 /\ k # 1 /\ i \in Nat
            /\ v # w => k = i
    BY <1>2, <1>3
  <1>5. NotSentYet'
    BY <1>1, <1>3, <1>4 DEF WaiterInv, NotSentYet, InQueue
  <1>6. Awaited'
    BY <1>1 DEF WaiterInv, Awaited
  <1>7. InOnePlace'
    <2>1. \A v \in Workers : \A i \in DOMAIN in_q'[v] :
            in_q'[v][i] # bus_req' /\ reply'[in_q'[v][i]] = None
      BY <1>1, <1>3, <1>4 DEF WaiterInv, InOnePlace
    <2>2. reply'[bus_req'] = None
      BY <1>1, <1>3 DEF WaiterInv, InOnePlace
    <2>3. ASSUME NEW u \in Workers, NEW v \in Workers,
                 NEW i \in DOMAIN in_q'[u], NEW j \in DOMAIN in_q'[v],
                 in_q'[u][i] = in_q'[v][j]
          PROVE  u = v /\ i = j
      <3>1. PICK k \in DOMAIN in_q[u] :
              /\ in_q'[u][i] = in_q[u][k]
              /\ u = w => k = i + 1 /\ i \in Nat
              /\ u # w => k = i
        BY <1>4
      <3>2. PICK l \in DOMAIN in_q[v] :
              /\ in_q'[v][j] = in_q[v][l]
              /\ v = w => l = j + 1 /\ j \in Nat
              /\ v # w => l = j
        BY <1>4
      <3>3. in_q[u][k] = in_q[v][l]
        BY <2>3, <3>1, <3>2
      <3>4. u = v /\ k = l
        BY <3>3 DEF WaiterInv, InOnePlace
      <3> QED
        BY <3>1, <3>2, <3>4
    <2> QED
      BY <2>1, <2>2, <2>3 DEF InOnePlace
  <1> QED
    BY <1>5, <1>6, <1>7 DEF WaiterInv

\* The request that is answered is in no queue, so what is still queued stays
\* unanswered.
LEMMA HandleReplyStep ==
  ASSUME TypeOK, WaiterInv, HandleReply
  PROVE  WaiterInv'
  <1>1. /\ bus_req' = None
        /\ UNCHANGED <<handler, in_q, waiting_join>>
    BY DEF HandleReply
  <1>2. \A r \in Requests : r # bus_req => reply'[r] = reply[r]
    BY DEF HandleReply, TypeOK
  <1>3. NotSentYet'
    BY <1>1, <1>2, IdAssumption DEF WaiterInv, NotSentYet, InQueue, Requests
  <1>4. Awaited'
    <2> SUFFICES ASSUME NEW r \in Requests, handler[r] # "new",
                        reply'[r] = None
                 PROVE  r \in waiting_join' \cup waiting_create'
      BY <1>1 DEF Awaited
    <2>1. CASE r = bus_req
      <3>1. reply[r] = None
        BY <2>1, IdAssumption DEF WaiterInv, InOnePlace, Requests
      <3>2. r \in waiting_join \cup waiting_create
        BY <3>1 DEF WaiterInv, Awaited
      <3>3. CreateReply \in Payload
        BY DEF CreateReply, Payload, TypeOK
      <3>4. [sid |-> None, ws_port |-> NoPort, ok |-> TRUE] \in Payload
        BY DEF Payload, Ports
      <3> QED
        BY <2>1, <3>2, <3>3, <3>4, NoneAssumption DEF HandleReply, TypeOK
    <2>2. CASE r # bus_req
      BY <1>1, <1>2, <2>2 DEF HandleReply, WaiterInv, Awaited
    <2> QED
      BY <2>1, <2>2
  <1>5. InOnePlace'
    <2>1. \A w \in Workers : \A i \in DOMAIN in_q[w] :
            in_q[w][i] \in Requests
      BY DEF TypeOK
    <2> QED
      BY <1>1, <1>2, <2>1, IdAssumption DEF WaiterInv, InOnePlace, Requests
  <1> QED
    BY <1>3, <1>4, <1>5 DEF WaiterInv

\* Everything else leaves the queues, the promises and the tables alone,
\* except that a handler can enter its table or give up.
LEMMA WaiterInvStep ==
  ASSUME TypeOK, WaiterInv, [Next]_vars
  PROVE  WaiterInv'
  <1>1. ASSUME NEW w \in Workers, NEW r \in Requests, Register(w, r)
        PROVE  WaiterInv'
    BY <1>1 DEF Register, WaiterInv, NotSentYet, Awaited, InOnePlace, InQueue,
                TypeOK, busVars
  <1>2. ASSUME NEW w \in Workers, FutureReady(w) \/ FutureTimeout(w)
        PROVE  WaiterInv'
    BY <1>2 DEF FutureReady, FutureTimeout, Respond, WaiterInv, NotSentYet,
                Awaited, InOnePlace, InQueue, TypeOK, busVars
  <1>3. CASE UNCHANGED <<handler, waiting_join, waiting_create, reply, in_q,
                         bus_req>>
    BY <1>3 DEF WaiterInv, NotSentYet, Awaited, InOnePlace, InQueue
  <1>4. CASE \/ ScanPort \/ ReuseSession \/ CreateSession \/ StartServer
             \/ ClearReady \/ SpawnServer \/ JoinOldServer \/ WaitUntilReady
    BY <1>3, <1>4 DEF ScanPort, ReuseSession, CreateSession, StartServer,
      ClearReady, SpawnServer, JoinOldServer, WaitUntilReady, httpVars
  <1>5. ASSUME NEW s \in Sessions, ThreadStep(s) \/ SessionClose(s)
        PROVE  WaiterInv'
    BY <1>3, <1>5 DEF ThreadStep, PublishReady, Listen, RunReturns,
      ClearRunning, ClearReadyAtExit, SessionClose, httpVars, busVars
  <1>6. CASE UNCHANGED vars
    BY <1>3, <1>6 DEF vars, httpVars, busVars
  <1> QED
    BY <1>1, <1>2, <1>4, <1>5, <1>6, SendInStep, DequeueStep, HandleReplyStep
       DEF Next, WorkerStep, BusStep

\* A port once given to a session stays with it, and the bus thread answers
\* with the session it holds.
LEMMA ReplyNamesSessionStep ==
  ASSUME TypeOK, BusInv, ReplyNamesSession, [Next]_vars
  PROVE  ReplyNamesSession'
  <1> USE DEF ReplyNamesSession
  <1>1. CASE UNCHANGED <<reply, session_map, port>>
    BY <1>1
  <1>2. CASE CreateSession
    BY <1>2 DEF CreateSession, TypeOK, httpVars
  <1>3. CASE HandleReply
    <2>1. bus_req \in waiting_join => bus_req \notin CreateRequests
      BY IdAssumption DEF TypeOK
    <2>2. bus_req \in CreateRequests =>
            bus_sid \in session_map /\ port[bus_sid] = bus_port
      BY <1>3 DEF HandleReply, BusInv
    <2> QED
      BY <1>3, <2>1, <2>2
         DEF HandleReply, CreateReply, TypeOK, sessionVars, Requests
  <1>4. ASSUME NEW w \in Workers, NEW r \in Requests, Register(w, r)
        PROVE  ReplyNamesSession'
    BY <1>1, <1>4 DEF Register, sessionVars
  <1>5. ASSUME NEW w \in Workers, WorkerStep(w) \/ Dequeue(w)
        PROVE  ReplyNamesSession'
    BY <1>1, <1>5 DEF WorkerStep, SendIn, FutureReady, FutureTimeout,
                      Respond, Dequeue, sessionVars
  <1>6. CASE \/ ScanPort \/ ReuseSession \/ StartServer \/ ClearReady
             \/ SpawnServer \/ JoinOldServer \/ WaitUntilReady
    BY <1>1, <1>6 DEF ScanPort, ReuseSession, StartServer, ClearReady,
      SpawnServer, JoinOldServer, WaitUntilReady, httpVars, sessionVars
  <1>7. ASSUME NEW s \in Sessions, ThreadStep(s) \/ SessionClose(s)
        PROVE  ReplyNamesSession'
    BY <1>1, <1>7 DEF ThreadStep, PublishReady, Listen, RunReturns,
      ClearRunning, ClearReadyAtExit, SessionClose, httpVars, sessionVars
  <1>8. CASE UNCHANGED vars
    BY <1>1, <1>8 DEF vars, httpVars, sessionVars
  <1> QED
    BY <1>2, <1>3, <1>4, <1>5, <1>6, <1>7, <1>8 DEF Next, BusStep

\* What is awaited, where it is and what replies say hold in every behaviour.
LEMMA AnswerInvariant == Spec => [](ControlInv /\ WaiterInv /\ ReplyNamesSession)
  <1>1. ControlInv /\ WaiterInv /\ ReplyNamesSession /\ [Next]_vars
          => WaiterInv' /\ ReplyNamesSession'
    BY WaiterInvStep, ReplyNamesSessionStep DEF ControlInv
  <1> QED
    BY <1>1, InitWaiterInv, ControlInvariant, PTL DEF Spec

\* handle_reply() finds the waiter of every request it answers and never sets
\* a promise twice, whatever timed out in the meantime.
THEOREM EachAnsweredOnce == Spec => []AnswerOnce
  <1>1. ControlInv /\ WaiterInv => AnswerOnce
    <2> SUFFICES ASSUME ControlInv, WaiterInv, bus_pc = "reply"
                 PROVE  /\ reply[bus_req] = None
                        /\ bus_req \in waiting_join \cup waiting_create
      BY DEF AnswerOnce
    <2>1. bus_req \in Requests /\ bus_req # None
      BY IdAssumption DEF ControlInv, BusInv, Requests
    <2>2. reply[bus_req] = None
      BY <2>1 DEF WaiterInv, InOnePlace
    <2>3. handler[bus_req] # "new"
      BY <2>1 DEF WaiterInv, NotSentYet
    <2> QED
      BY <2>1, <2>2, <2>3 DEF WaiterInv, Awaited
  <1> QED
    BY <1>1, AnswerInvariant, PTL

\* What a creator was told stays true for good: the session exists and is the
\* one bound to the port of the reply.
THEOREM RepliesStayTrue == Spec => []ReplyNamesSession
  BY AnswerInvariant, PTL

-----------------------------------------------------------------------------
(* SessionControl implements SessionService.  Only four actions are        *)
(* visible to users: ReuseSession and CreateSession give a session,        *)
(* Respond tells, and SessionClose ends a lease; all the others map to a   *)
(* stutter.                                                                *)


StepInv == ControlInv /\ WaiterInv

\* No lease, nothing given, nobody told.
LEMMA InitRefines == Init => Service!ServiceInit
  BY IdAssumption DEF Init, Service!ServiceInit, leaseOf, givenTo, toldTo,
    Requests

\* The bus thread's locals are reset with each reply, so a session in them is
\* the one of the request at hand.
LEMMA GiveRefines ==
  ASSUME StepInv, ReuseSession \/ CreateSession,
         NEW s \in Sessions, s = bus_sid',
         ~active[s], active' = [active EXCEPT ![s] = TRUE],
         port' = [port EXCEPT ![s] = bus_port],
         bus_sid = None
  PROVE  Service!Give(bus_req, s, bus_port)
  <1>1. /\ bus_req \in CreateRequests
        /\ bus_port \in Ports
        /\ bus_pc = "lookup"
    BY DEF StepInv, ControlInv, BusInv, TypeOK, ReuseSession, CreateSession
  <1>2. reply[bus_req] = None
    BY <1>1, IdAssumption DEF StepInv, WaiterInv, InOnePlace
  <1>3. UNCHANGED <<reply, handler, bus_req, bus_port>>
    BY DEF ReuseSession, CreateSession, httpVars
  <1>4. leaseOf[s] = None
    BY DEF leaseOf
  <1>5. givenTo[bus_req] = None
    BY <1>1, <1>2 DEF givenTo
  <1>6. bus_port = NoPort \/ \A t \in Sessions : leaseOf[t] # bus_port
    BY <1>1, NoneAssumption
       DEF StepInv, ControlInv, PortInv, PortUsed, leaseOf
  <1>7. leaseOf' = [leaseOf EXCEPT ![s] = bus_port]
    BY DEF leaseOf, StepInv, ControlInv, TypeOK
  <1>8. givenTo' = [givenTo EXCEPT ![bus_req] =
                      [sid |-> s, ws_port |-> bus_port]]
    BY <1>1, <1>2, <1>3, IdAssumption DEF givenTo
  <1>9. toldTo' = toldTo
    BY <1>3 DEF toldTo
  <1> QED
    BY <1>4, <1>5, <1>6, <1>7, <1>8, <1>9 DEF Service!Give

\* circulate_messages() gives a session, or does what users cannot see.
LEMMA BusRefines ==
  ASSUME StepInv, BusStep
  PROVE  [Service!ServiceNext]_Service!serviceVars
  <1> USE DEF Service!serviceVars
  <1>1. ASSUME UNCHANGED <<reply, bus_req, bus_sid, bus_port, handler, active, port>>
        PROVE  UNCHANGED Service!serviceVars
    BY <1>1 DEF leaseOf, givenTo, toldTo
  <1>2. ASSUME NEW w \in Workers, Dequeue(w)
        PROVE  UNCHANGED Service!serviceVars
    <2>1. bus_sid = None /\ bus_sid' = None
      BY <1>2 DEF Dequeue, StepInv, ControlInv, BusInv
    <2> QED
      BY <1>2, <2>1 DEF Dequeue, leaseOf, givenTo, toldTo, sessionVars
  <1>3. CASE ScanPort
    <2>1. bus_sid = None /\ bus_sid' = None
      BY <1>3 DEF ScanPort, StepInv, ControlInv, BusInv
    <2> QED
      BY <1>3, <2>1 DEF ScanPort, leaseOf, givenTo, toldTo, sessionVars, httpVars
  <1>4. CASE ReuseSession \/ CreateSession
    <2>1. bus_req \in CreateRequests /\ bus_port \in Ports /\ bus_sid = None
      BY <1>4 DEF StepInv, ControlInv, BusInv, TypeOK, ReuseSession, CreateSession
    <2>2. CASE ReuseSession
      <3>1. /\ bus_sid' \in Sessions
            /\ ~active[bus_sid']
            /\ active' = [active EXCEPT ![bus_sid'] = TRUE]
            /\ port' = [port EXCEPT ![bus_sid'] = bus_port]
        BY <2>1, <2>2 DEF ReuseSession, Reusable, StepInv, ControlInv, TypeOK,
                          PortInv
      <3> QED
        BY <2>1, <2>2, <3>1, GiveRefines DEF Service!ServiceNext
    <2>3. CASE CreateSession
      <3>1. /\ bus_sid' \in Sessions
            /\ ~active[bus_sid']
            /\ active' = [active EXCEPT ![bus_sid'] = TRUE]
            /\ port' = [port EXCEPT ![bus_sid'] = bus_port]
        BY <2>3 DEF CreateSession, StepInv, ControlInv, PortInv
      <3> QED
        BY <2>1, <2>3, <3>1, GiveRefines DEF Service!ServiceNext
    <2> QED
      BY <1>4, <2>2, <2>3
  <1>5. CASE StartServer \/ ClearReady \/ SpawnServer \/ JoinOldServer
             \/ WaitUntilReady
    BY <1>1, <1>5 DEF StartServer, ClearReady, SpawnServer, JoinOldServer,
      WaitUntilReady, httpVars, sessionVars
  <1>6. CASE HandleReply
    <2>1. UNCHANGED <<leaseOf, toldTo>>
      BY <1>6 DEF HandleReply, leaseOf, toldTo, sessionVars
    <2>2. givenTo' = givenTo
      <3>1. bus_req \in Requests /\ reply[bus_req] = None
        BY <1>6, IdAssumption DEF HandleReply, StepInv, ControlInv, BusInv,
          WaiterInv, InOnePlace, Requests
      <3>2. bus_req \in waiting_join \cup waiting_create
        BY <1>6, <3>1 DEF HandleReply, StepInv, WaiterInv, NotSentYet, Awaited
      <3>3. CASE bus_req \in waiting_join
        <4>1. bus_req \notin CreateRequests /\ bus_req' \notin CreateRequests
          BY <1>6, <3>3, IdAssumption
             DEF HandleReply, StepInv, ControlInv, TypeOK
        <4>2. \A r \in CreateRequests : reply'[r] = reply[r]
          BY <1>6, <4>1 DEF HandleReply, StepInv, ControlInv, TypeOK, Requests
        <4> QED
          BY <4>1, <4>2 DEF givenTo
      <3>4. CASE bus_req \in waiting_create
        <4>1. bus_req \in CreateRequests /\ bus_req \notin waiting_join
          BY <3>4, IdAssumption DEF StepInv, ControlInv, TypeOK
        <4>2. bus_sid # None
          BY <1>6, <4>1, IdAssumption
             DEF HandleReply, StepInv, ControlInv, BusInv, TypeOK
        <4>3. CreateReply # None
          BY NoneAssumption
             DEF CreateReply, Payload, StepInv, ControlInv, TypeOK
        <4>4. reply' = [reply EXCEPT ![bus_req] = CreateReply] /\ bus_sid' = None
          BY <1>6, <3>4, <4>1 DEF HandleReply
        <4>5. /\ reply'[bus_req] = CreateReply
              /\ \A r \in Requests : r # bus_req => reply'[r] = reply[r]
          BY <3>1, <4>4 DEF StepInv, ControlInv, TypeOK
        <4> QED
          BY <3>1, <4>1, <4>2, <4>3, <4>4, <4>5
             DEF givenTo, CreateReply, Requests
      <3> QED
        BY <3>2, <3>3, <3>4
    <2> QED
      BY <2>1, <2>2
  <1> QED
    BY <1>2, <1>3, <1>4, <1>5, <1>6 DEF BusStep

\* HTTP handlers tell what they were given, or an error.
LEMMA WorkerRefines ==
  ASSUME StepInv, NEW w \in Workers, WorkerStep(w)
  PROVE  [Service!ServiceNext]_Service!serviceVars
  <1> USE DEF Service!serviceVars, StepInv, ControlInv, TypeOK
  <1>1. CASE SendIn(w)
    BY <1>1 DEF SendIn, leaseOf, givenTo, toldTo, sessionVars, busVars
  <1>2. ASSUME NEW r \in Requests, NEW outcome \in {"ok", "error"},
               r = serving[w], handler[r] = "waiting", Respond(w, outcome),
               outcome = "ok" => reply[r] # None
        PROVE  [Service!ServiceNext]_Service!serviceVars
    <2>1. UNCHANGED <<leaseOf, givenTo>>
      BY <1>2 DEF Respond, leaseOf, givenTo, busVars, sessionVars
    <2>2. r \notin CreateRequests => toldTo' = toldTo
      BY <1>2 DEF Respond, toldTo, Requests
    <2>3. r \in CreateRequests =>
            /\ toldTo[r] = "nothing"
            /\ toldTo' = [toldTo EXCEPT ![r] = outcome]
      BY <1>2 DEF Respond, toldTo, Requests
    <2>4. r \in CreateRequests /\ outcome = "ok" => givenTo[r] # None
      <3> SUFFICES ASSUME r \in CreateRequests, reply[r] # None
                   PROVE  givenTo[r] # None
        BY <1>2
      <3>1. reply[r] \in Payload
        OBVIOUS
      <3>2. [sid |-> reply[r].sid, ws_port |-> reply[r].ws_port]
              \in [sid : Sessions \cup {None}, ws_port : Ports]
        BY <3>1 DEF Payload
      <3> QED
        BY <3>2, GivenAssumption DEF givenTo
    <2>5. CASE r \in CreateRequests /\ outcome = "ok"
      BY <2>1, <2>3, <2>4, <2>5 DEF Service!ServiceNext, Service!TellOk
    <2>6. CASE r \in CreateRequests /\ outcome = "error"
      BY <2>1, <2>3, <2>6 DEF Service!ServiceNext, Service!TellError
    <2> QED
      BY <1>2, <2>1, <2>2, <2>5, <2>6
  <1>3. CASE FutureReady(w)
    BY <1>2, <1>3 DEF FutureReady
  <1>4. CASE FutureTimeout(w)
    BY <1>2, <1>4 DEF FutureTimeout
  <1> QED
    BY <1>1, <1>3, <1>4 DEF WorkerStep

\* A session's close ends its lease; its threads come and go unseen.
LEMMA SessionRefines ==
  ASSUME StepInv, NEW s \in Sessions, ThreadStep(s) \/ SessionClose(s)
  PROVE  [Service!ServiceNext]_Service!serviceVars
  <1> USE DEF Service!serviceVars
  <1>1. CASE ThreadStep(s)
    BY <1>1 DEF ThreadStep, PublishReady, Listen, RunReturns, ClearRunning,
      ClearReadyAtExit, leaseOf, givenTo, toldTo, httpVars, busVars, sessionVars
  <1>2. CASE SessionClose(s)
    <2>1. UNCHANGED <<givenTo, toldTo>>
      BY <1>2 DEF SessionClose, givenTo, toldTo, httpVars, busVars
    <2>2. leaseOf' = [leaseOf EXCEPT ![s] = None]
      BY <1>2 DEF SessionClose, leaseOf, StepInv, ControlInv, TypeOK
    <2>3. CASE active[s]
      <3>1. leaseOf[s] # None
        BY <2>3, NoneAssumption DEF leaseOf, StepInv, ControlInv, TypeOK
      <3> QED
        BY <2>1, <2>2, <3>1 DEF Service!ServiceNext, Service!Close
    <2>4. CASE ~active[s]
      BY <2>1, <2>2, <2>4 DEF leaseOf
    <2> QED
      BY <2>3, <2>4
  <1> QED
    BY <1>1, <1>2

\* The server gives every creator at most one session, on a port nobody else
\* holds, and says ok only about a session it has given: each step of its
\* threads is a step of the service or changes nothing users can see.
THEOREM ServiceImplemented == Spec => ImplementsService
  <1>1. StepInv /\ [Next]_vars => [Service!ServiceNext]_Service!serviceVars
    <2> SUFFICES ASSUME StepInv, [Next]_vars
                 PROVE  [Service!ServiceNext]_Service!serviceVars
      OBVIOUS
    <2>1. ASSUME NEW w \in Workers, NEW r \in Requests, Register(w, r)
          PROVE  UNCHANGED Service!serviceVars
      BY <2>1 DEF Register, Service!serviceVars, leaseOf, givenTo, toldTo,
        busVars, sessionVars, StepInv, ControlInv, TypeOK
    <2>2. CASE UNCHANGED vars
      BY <2>2 DEF vars, httpVars, busVars, sessionVars, Service!serviceVars,
        leaseOf, givenTo, toldTo
    <2> QED
      BY <2>1, <2>2, BusRefines, WorkerRefines, SessionRefines DEF Next
  <1>2. Spec => []StepInv
    BY AnswerInvariant, PTL DEF StepInv
  <1> QED
    BY <1>1, <1>2, InitRefines, PTL
       DEF Spec, ImplementsService, Service!ServiceSpec

-----------------------------------------------------------------------------
(* What users may conclude from the service holds of the server.           *)

PromiseInv == Service!ServiceTypeOK /\ Service!LeasesExclusive /\ Service!OkWasGiven

\* Whatever the service does, no port is leased twice and ok is said only of a
\* session given.
LEMMA ServiceKeepsPromise ==
  ASSUME PromiseInv, [Service!ServiceNext]_Service!serviceVars
  PROVE  PromiseInv'
  <1> USE DEF PromiseInv, Service!ServiceTypeOK, Service!LeasesExclusive, Service!OkWasGiven
  <1>1. ASSUME NEW r \in CreateRequests, NEW s \in Sessions, NEW p \in Ports,
               Service!Give(r, s, p)
        PROVE  PromiseInv'
    <2>1. /\ leaseOf' = [leaseOf EXCEPT ![s] = p]
          /\ givenTo' = [givenTo EXCEPT ![r] = [sid |-> s, ws_port |-> p]]
          /\ toldTo' = toldTo
          /\ p = NoPort \/ \A t \in Sessions : leaseOf[t] # p
      BY <1>1 DEF Service!Give
    <2>2. [sid |-> s, ws_port |-> p] # None
      BY GivenAssumption
    <2> QED
      BY <2>1, <2>2
  <1>2. ASSUME NEW r \in CreateRequests, Service!TellOk(r) \/ Service!TellError(r)
        PROVE  PromiseInv'
    BY <1>2 DEF Service!TellOk, Service!TellError
  <1>3. ASSUME NEW s \in Sessions, Service!Close(s)
        PROVE  PromiseInv'
    BY <1>3 DEF Service!Close
  <1>4. CASE UNCHANGED Service!serviceVars
    BY <1>4 DEF Service!serviceVars
  <1> QED
    BY <1>1, <1>2, <1>3, <1>4 DEF Service!ServiceNext

\* The service keeps its promise, and with it all that implements it.
LEMMA PromiseInvariant == Spec => []PromiseInv
  <1>1. Service!ServiceInit => PromiseInv
    BY GivenAssumption DEF Service!ServiceInit, PromiseInv, Service!ServiceTypeOK,
      Service!LeasesExclusive, Service!OkWasGiven
  <1> QED
    BY <1>1, ServiceKeepsPromise, ServiceImplemented, PTL
       DEF ImplementsService, Service!ServiceSpec

\* Two active sessions are never on one port, unless no port was left for them.
THEOREM LeasesStayExclusive == Spec => []Service!LeasesExclusive
  BY PromiseInvariant, PTL DEF PromiseInv

\* A creator that is told ok has a session.
THEOREM OkIsMeant == Spec => []Service!OkWasGiven
  BY PromiseInvariant, PTL DEF PromiseInv

\* Nothing the server does later changes what a creator was given or told.
THEOREM AnswersStay == Spec => Service!AnswersLast
  <1>1. PromiseInv /\ [Service!ServiceNext]_Service!serviceVars
          => [\A r \in CreateRequests :
                /\ givenTo[r] # None => givenTo'[r] = givenTo[r]
                /\ toldTo[r] # "nothing" => toldTo'[r] = toldTo[r]]_Service!serviceVars
    BY DEF PromiseInv, Service!ServiceTypeOK, Service!ServiceNext, Service!Give,
      Service!TellOk, Service!TellError, Service!Close
  <1> QED
    BY <1>1, PromiseInvariant, ServiceImplemented, PTL
       DEF ImplementsService, Service!ServiceSpec, Service!AnswersLast

-----------------------------------------------------------------------------
(* Each session of SessionControl keeps its side of SessionLife: visible   *)
(* are the steps of the bus thread that take the session and start it, and *)
(* those of its own thread that close the session, fail to bind, and clear *)
(* running.                                                                *)

\* What the other side of the contract sees of session s.
LifeOf(s) == <<active[s], loopOf[s], busOf[s]>>

\* No session has been handed out and no loop runs.
LEMMA InitLives == Init => \A s \in Sessions : Life(s)!LifeInit
  BY DEF Init, Life!LifeInit, loopOf, busOf

\* A step shows in the life of a session only by one of these four.
LEMMA UnseenLife ==
  ASSUME NEW s \in Sessions,
         active'[s] = active[s], running'[s] = running[s],
         ws_thread'[s] \in {"closing", "returned"} <=> ws_thread[s] \in {"closing", "returned"},
         (bus_sid' = s /\ bus_pc' = "start") <=> (bus_sid = s /\ bus_pc = "start")
  PROVE  UNCHANGED LifeOf(s)
  <1>1. loopOf'[s] = loopOf[s] /\ busOf'[s] = busOf[s]
    BY DEF loopOf, busOf
  <1> QED
    BY <1>1 DEF LifeOf

\* circulate_messages() takes the session it reuses or creates, and start()
\* turns the taken session into a running one unless its loop is still there.
LEMMA BusKeepsLives ==
  ASSUME ControlInv, NEW s \in Sessions, BusStep
  PROVE  [Life(s)!LifeNext]_(LifeOf(s))
  <1> USE DEF ControlInv, TypeOK
  <1>1. ASSUME NEW w \in Workers, Dequeue(w)
        PROVE  UNCHANGED LifeOf(s)
    BY <1>1, UnseenLife DEF Dequeue, sessionVars, wsVars
  <1>2. CASE ScanPort
    BY <1>2, UnseenLife DEF ScanPort, sessionVars, wsVars
  <1>3. CASE ReuseSession \/ CreateSession
    <2>1. /\ bus_pc = "lookup" /\ bus_pc' = "start"
          /\ UNCHANGED <<running, ws_thread>>
          /\ bus_sid' \in Sessions /\ ~active[bus_sid']
          /\ active' = [active EXCEPT ![bus_sid'] = TRUE]
      BY <1>3 DEF ReuseSession, CreateSession, Reusable, PortInv, wsVars
    <2>2. CASE bus_sid' = s
      <3>1. loopOf'[s] = loopOf[s] /\ busOf[s] = "idle" /\ busOf'[s] = "taken"
        BY <2>1, <2>2 DEF loopOf, busOf
      <3>2. ~active[s] /\ active'[s] = TRUE
        BY <2>1, <2>2
      <3> QED
        BY <3>1, <3>2 DEF Life!LifeNext, Life!Take
    <2>3. CASE bus_sid' # s
      BY <2>1, <2>3, UnseenLife
    <2> QED
      BY <2>2, <2>3
  <1>4. CASE StartServer
    <2>1. /\ bus_pc = "start" /\ bus_pc' # "start"
          /\ UNCHANGED <<active, ws_thread, bus_sid>>
          /\ bus_sid \in Sessions
          /\ running' = [running EXCEPT ![bus_sid] = TRUE]
      BY <1>4 DEF StartServer, sessionVars, BusInv, InStart
    <2>2. CASE bus_sid = s
      <3>1. ~running[s] => ws_thread[s] \notin {"closing", "returned"}
        BY DEF ThreadInv, Alive, InRun
      <3>2. loopOf'[s] = IF loopOf[s] = "ended" THEN "running" ELSE loopOf[s]
        BY <2>1, <2>2, <3>1 DEF loopOf
      <3>3. busOf[s] = "taken" /\ busOf'[s] = "idle" /\ active'[s] = active[s]
        BY <2>1, <2>2 DEF busOf
      <3> QED
        BY <3>2, <3>3 DEF Life!LifeNext, Life!Start
    <2>3. CASE bus_sid # s
      BY <2>1, <2>3, UnseenLife
    <2> QED
      BY <2>2, <2>3
  <1>5. CASE ClearReady \/ JoinOldServer
    BY <1>5, UnseenLife DEF ClearReady, JoinOldServer, sessionVars
  <1>6. CASE SpawnServer
    <2>1. ws_thread[bus_sid] \notin {"closing", "returned"} /\ bus_pc = "spawn"
      BY <1>6 DEF SpawnServer, ThreadInv, Alive, InRun
    <2>2. ws_thread'[s] \in {"closing", "returned"} <=> ws_thread[s] \in {"closing", "returned"}
      BY <1>6, <2>1 DEF SpawnServer
    <2> QED
      BY <1>6, <2>1, <2>2, UnseenLife DEF SpawnServer, sessionVars
  <1>7. CASE WaitUntilReady \/ HandleReply
    BY <1>7, UnseenLife DEF WaitUntilReady, HandleReply, sessionVars, wsVars
  <1> QED
    BY <1>1, <1>2, <1>3, <1>4, <1>5, <1>6, <1>7 DEF BusStep, LifeOf

\* async_ws_run() and the close handler: running covers the loop, so it ends,
\* for the other side, when running is cleared.
LEMMA ThreadKeepsLives ==
  ASSUME ControlInv, NEW s \in Sessions, NEW t \in Sessions,
         ThreadStep(t) \/ SessionClose(t)
  PROVE  [Life(s)!LifeNext]_(LifeOf(s))
  <1> USE DEF ControlInv, TypeOK
  <1>1. UNCHANGED <<bus_pc, bus_sid>> /\ busOf'[s] = busOf[s]
    BY DEF ThreadStep, PublishReady, Listen, RunReturns, ClearRunning, ClearReadyAtExit,
      SessionClose, busVars, busOf
  <1>2. CASE t # s
    BY <1>1, <1>2, UnseenLife DEF ThreadStep, PublishReady, Listen, RunReturns,
      ClearRunning, ClearReadyAtExit, SessionClose, WsStep, sessionVars
  <1>3. ws_thread[s] \in Alive => running[s]
    BY DEF ThreadInv
  <1>4. CASE PublishReady(s) \/ RunReturns(s) \/ ClearReadyAtExit(s)
    BY <1>1, <1>4, UnseenLife DEF PublishReady, RunReturns, ClearReadyAtExit, WsStep,
      sessionVars
  <1>5. CASE Listen(s)
    <2>1. /\ ws_thread[s] = "entering" /\ ws_thread'[s] \in {"serving", "returned"}
          /\ running'[s] = running[s] /\ active'[s] = active[s] /\ running[s]
      BY <1>3, <1>5 DEF Listen, WsStep, sessionVars, Alive, InRun
    <2>2. CASE ws_thread'[s] = "serving"
      BY <1>1, <2>1, <2>2, UnseenLife
    <2>3. CASE ws_thread'[s] = "returned"
      <3>1. loopOf[s] = "running" /\ loopOf'[s] = "stopping"
        BY <2>1, <2>3 DEF loopOf
      <3> QED
        BY <1>1, <2>1, <3>1 DEF Life!LifeNext, Life!FailToBind
    <2> QED
      BY <2>1, <2>2, <2>3
  <1>6. CASE SessionClose(s)
    <2>1. /\ ws_thread[s] \in {"serving", "closing"} /\ ws_thread'[s] = "closing"
          /\ running'[s] = running[s] /\ running[s] /\ active'[s] = FALSE
      BY <1>3, <1>6 DEF SessionClose, WsStep, Alive, InRun
    <2>2. loopOf[s] \in {"running", "stopping"} /\ loopOf'[s] = "stopping"
      BY <2>1 DEF loopOf
    <2> QED
      BY <1>1, <2>1, <2>2 DEF Life!LifeNext, Life!Close
  <1>7. CASE ClearRunning(s)
    <2>1. /\ ws_thread[s] = "returned" /\ running[s] /\ running'[s] = FALSE
          /\ active'[s] = active[s]
      BY <1>3, <1>7 DEF ClearRunning, WsStep, sessionVars, Alive
    <2>2. loopOf[s] = "stopping" /\ loopOf'[s] = "ended"
      BY <2>1 DEF loopOf
    <2> QED
      BY <1>1, <2>1, <2>2 DEF Life!LifeNext, Life!End
  <1> QED
    BY <1>2, <1>4, <1>5, <1>6, <1>7 DEF ThreadStep, LifeOf

\* A step of any thread is a step of every session's life, or changes nothing
\* of it.
LEMMA StepKeepsLives ==
  ASSUME ControlInv, NEW s \in Sessions, [Next]_vars
  PROVE  [Life(s)!LifeNext]_(LifeOf(s))
  <1>1. ASSUME NEW w \in Workers, NEW r \in Requests, Register(w, r)
        PROVE  UNCHANGED LifeOf(s)
    BY <1>1, UnseenLife DEF Register, busVars, sessionVars, wsVars
  <1>2. ASSUME NEW w \in Workers, WorkerStep(w)
        PROVE  UNCHANGED LifeOf(s)
    BY <1>2, UnseenLife DEF WorkerStep, SendIn, FutureReady, FutureTimeout, Respond,
      busVars, sessionVars, wsVars
  <1>3. CASE UNCHANGED vars
    BY <1>3, UnseenLife DEF vars, busVars, sessionVars, wsVars
  <1> QED
    BY <1>1, <1>2, <1>3, BusKeepsLives, ThreadKeepsLives DEF Next

\* However many sessions the server has, each keeps to the contract.
THEOREM LivesImplemented == Spec => ImplementsLives
  <1>1. ControlInv /\ [Next]_vars
          => [\A s \in Sessions : [Life(s)!LifeNext]_<<active[s], loopOf[s], busOf[s]>>]_vars
    BY StepKeepsLives DEF LifeOf
  <1> QED
    BY <1>1, InitLives, ControlInvariant, PTL DEF Spec, ImplementsLives

\* The same, said of one session as a specification of its own.
THEOREM EachLifeImplemented ==
  ASSUME NEW CONSTANT s \in Sessions
  PROVE  Spec => Life(s)!LifeSpec
  <1>1. ControlInv /\ [Next]_vars => [Life(s)!LifeNext]_(Life(s)!lifeVars)
    BY StepKeepsLives DEF LifeOf, Life!lifeVars
  <1>2. Init => Life(s)!LifeInit
    BY InitLives
  <1> QED
    BY <1>1, <1>2, ControlInvariant, PTL DEF Spec, Life!LifeSpec
=============================================================================
