---------------------------- MODULE CollabSession ----------------------------
(***************************************************************************)
(* The data plane of one session: the WebSocket connections of its host    *)
(* and guests, the authoritative snapshot and the client table that        *)
(* Session keeps, and the handlers of PerfectServer that run on the        *)
(* server's single event loop.  A handler takes session_mutex once per     *)
(* Session call, but no other handler runs in between, so one handler is   *)
(* one action.  The bus thread touches the session only when it reuses it, *)
(* one Session call after the other, and the old loop may still be busy    *)
(* with what it had polled when it was asked to stop.                      *)
(*                                                                         *)
(* The other ends of the connections are modelled by what the protocol     *)
(* asks of them: a client says hello when it connects, the host uploads    *)
(* its scene when it is acknowledged, every client applies an edit to its  *)
(* own copy when it makes it and every update it receives when it arrives. *)
(***************************************************************************)
EXTENDS Naturals, Sequences, FiniteSets

CONSTANTS
  Channels,         \* WebSocket connections over the session's lifetime
  Hosts,            \* those of them whose client has the role "host"
  Objects, Values,  \* object ids and the payloads an update carries
  MaxEdits,         \* bound: edits made by all clients together
  UploadFirst,      \* TRUE: one host, which uploads before guests connect
  None              \* an object that is not in the scene

ASSUME CollabAssumption ==
  /\ Hosts \subseteq Channels
  /\ None \notin Values
  /\ MaxEdits \in Nat
  /\ UploadFirst \in BOOLEAN

Scene == [Objects -> Values \cup {None}]
EmptyScene == [o \in Objects |-> None]

Handshake == [type |-> "handshake"]
HandshakeAck == [type |-> "handshake_ack"]
SessionClosed == [type |-> "session_close"]
Snapshot(scene) == [type |-> "snapshot", scene |-> scene]

\* update_add and update_edit carry the object, update_delete only its id: a
\* deletion is an update to None.
Update(o, v) == [type |-> "update", obj |-> o, val |-> v]

Updates == [type : {"update"}, obj : Objects, val : Values \cup {None}]
Messages ==
  {Handshake, HandshakeAck, SessionClosed}
    \cup [type : {"snapshot"}, scene : Scene] \cup Updates

VARIABLES
  conn,      \* "idle", "open", "lost" (peer gone, not noticed), "closed"
  up, down,  \* messages in transit to the server, to the client
  clients,   \* Session::connected_clients, the keys
  snapshot,  \* Session::session_snapshot
  joinable,  \* Session::guest_joinable
  active,    \* Session::active
  loop,      \* the event loop: "running", "stopping" (stop() called), "ended"
  bus,       \* the bus thread: "idle", or having "reset" or "activated" it
  view,      \* each client's own copy of the scene
  phase,     \* each client: "hello" sent, "joined", "left"
  edited,    \* the objects each client has edited itself
  edits      \* counter under MaxEdits

serverVars == <<clients, snapshot, joinable, active, loop, bus>>
clientVars == <<view, phase, edited, edits>>
vars == <<conn, up, down, serverVars, clientVars>>

TypeOK ==
  /\ conn \in [Channels -> {"idle", "open", "lost", "closed"}]
  /\ up \in [Channels -> Seq(Messages)]
  /\ down \in [Channels -> Seq(Messages)]
  /\ clients \in SUBSET Channels
  /\ snapshot \in Scene
  /\ joinable \in BOOLEAN
  /\ active \in BOOLEAN
  /\ loop \in {"running", "stopping", "ended"}
  /\ bus \in {"idle", "reset", "activated"}
  /\ view \in [Channels -> Scene]
  /\ phase \in [Channels -> {"idle", "hello", "joined", "left"}]
  /\ edited \in [Channels -> SUBSET Objects]
  /\ edits \in 0 .. MaxEdits

\* The session as the bus thread starts it: active, its loop running.
Init ==
  /\ conn = [c \in Channels |-> "idle"]
  /\ up = [c \in Channels |-> <<>>]
  /\ down = [c \in Channels |-> <<>>]
  /\ clients = {}
  /\ snapshot = EmptyScene
  /\ joinable = FALSE
  /\ active = TRUE
  /\ loop = "running"
  /\ bus = "idle"
  /\ view = [c \in Channels |-> EmptyScene]
  /\ phase = [c \in Channels |-> "idle"]
  /\ edited = [c \in Channels |-> {}]
  /\ edits = 0

-----------------------------------------------------------------------------
(* The clients.                                                            *)

\* What an update leaves in a scene: add and edit insert, delete removes.
Effect(scene, m) ==
  [scene EXCEPT ![m.obj] = m.val]

\* The client sends.  A loop that has been asked to stop polls no more, and
\* nothing arrives over a closed connection.
Send(c, m) ==
  up' = [up EXCEPT ![c] =
           IF loop = "running" /\ conn[c] = "open" THEN Append(@, m) ELSE @]

HostPresent == \E h \in Hosts : conn[h] \in {"open", "lost"}

\* A host brings any scene along.
Connect(c) ==
  /\ conn[c] = "idle"
  /\ loop = "running"
  /\ conn' = [conn EXCEPT ![c] = "open"]
  /\ up' = [up EXCEPT ![c] = <<Handshake>>]
  /\ phase' = [phase EXCEPT ![c] = "hello"]
  /\ \/ /\ c \in Hosts
        /\ UploadFirst => ~joinable /\ ~HostPresent
        /\ \E scene \in Scene : view' = [view EXCEPT ![c] = scene]
     \/ /\ c \notin Hosts
        /\ UploadFirst => joinable
        /\ UNCHANGED view
  /\ UNCHANGED <<down, serverVars, edited, edits>>

\* The user edits: applied locally and sent at once.
Edit(c) ==
  /\ conn[c] = "open"
  /\ phase[c] = "joined"
  /\ edits < MaxEdits
  /\ \E o \in Objects, v \in Values \cup {None} :
       /\ view' = [view EXCEPT ![c] = Effect(@, Update(o, v))]
       /\ Send(c, Update(o, v))
       /\ edited' = [edited EXCEPT ![c] = @ \cup {o}]
  /\ edits' = edits + 1
  /\ UNCHANGED <<conn, down, serverVars, phase>>

\* The host ends the session for everybody and leaves.
EndSession(c) ==
  /\ c \in Hosts
  /\ conn[c] = "open"
  /\ phase[c] = "joined"
  /\ Send(c, SessionClosed)
  /\ phase' = [phase EXCEPT ![c] = "left"]
  /\ UNCHANGED <<conn, down, serverVars, view, edited, edits>>

\* The client takes the next message off its connection.
Receive(c) ==
  /\ down[c] # <<>>
  /\ conn[c] # "lost"
  /\ down' = [down EXCEPT ![c] = Tail(@)]
  /\ LET m == Head(down[c]) IN
       \/ /\ m.type = "handshake_ack"
          /\ phase' = [phase EXCEPT ![c] = "joined"]
          /\ Send(c, Snapshot(view[c]))
          /\ UNCHANGED view
       \/ /\ m.type = "snapshot"
          /\ phase' = [phase EXCEPT ![c] = "joined"]
          /\ view' = [view EXCEPT ![c] = m.scene]
          /\ UNCHANGED up
       \/ /\ m.type = "update"
          /\ view' = [view EXCEPT ![c] = Effect(@, m)]
          /\ UNCHANGED <<up, phase>>
       \/ /\ m.type = "session_close"
          /\ phase' = [phase EXCEPT ![c] = "left"]
          /\ UNCHANGED <<up, view>>
  /\ UNCHANGED <<conn, serverVars, edited, edits>>

\* The connection breaks; the server has not noticed yet.
Lose(c) ==
  /\ conn[c] = "open"
  /\ conn' = [conn EXCEPT ![c] = "lost"]
  /\ down' = [down EXCEPT ![c] = <<>>]
  /\ UNCHANGED <<up, serverVars, clientVars>>

-----------------------------------------------------------------------------
(* The server's event loop.                                                *)

LoopTurns == loop \in {"running", "stopping"}

\* The loop has read message m from connection c.
HasRead(c, m) ==
  /\ LoopTurns
  /\ conn[c] \in {"open", "lost"}
  /\ up[c] # <<>>
  /\ m = Head(up[c])

TakeIn(c, m) ==
  /\ HasRead(c, m)
  /\ up' = [up EXCEPT ![c] = Tail(@)]

\* channel->send() to each recipient; what a dead connection is sent is lost.
SendTo(recipients, m) ==
  down' = [d \in Channels |->
             IF d \in recipients /\ conn[d] = "open"
             THEN Append(down[d], m) ELSE down[d]]

HandleHandshake(c) ==
  /\ TakeIn(c, Handshake)
  /\ clients' = clients \cup {c}
  /\ SendTo({c}, IF c \in Hosts THEN HandshakeAck ELSE Snapshot(snapshot))
  /\ UNCHANGED <<conn, snapshot, joinable, active, loop, bus, clientVars>>

\* Fault: deletes are not applied.
ApplyNoDelete(scene, m) ==
  IF m.val # None THEN Effect(scene, m) ELSE scene

\* addSnapshot() and editSnapshot() insert, deleteFromSnapshot() erases.
Apply(scene, m) == Effect(scene, m)

\* The upload replaces the snapshot; nobody is told.
HandleSnapshot(c) ==
  /\ up[c] # <<>> /\ Head(up[c]).type = "snapshot"
  /\ TakeIn(c, Head(up[c]))
  /\ snapshot' = Head(up[c]).scene
  /\ joinable' = TRUE
  /\ UNCHANGED <<conn, down, clients, active, loop, bus, clientVars>>

\* Faults: the sender is sent its own update; only hosts are sent it.
EveryClient(c) == clients
OtherHosts(c) == (clients \ {c}) \cap Hosts

\* getClientsExcept(channel)
ClientsExcept(c) == clients \ {c}

HandleUpdate(c) ==
  /\ up[c] # <<>> /\ Head(up[c]).type = "update"
  /\ LET m == Head(up[c]) IN
       /\ TakeIn(c, m)
       /\ snapshot' = Apply(snapshot, m)
       /\ SendTo(ClientsExcept(c), m)
  /\ UNCHANGED <<conn, clients, joinable, active, loop, bus, clientVars>>

\* Fault: the clients are told but neither closed nor forgotten.
CloseForgetsNobody(c) ==
  /\ TakeIn(c, SessionClosed)
  /\ SendTo(ClientsExcept(c), SessionClosed)
  /\ loop' = "stopping"
  /\ active' = FALSE
  /\ UNCHANGED <<conn, clients, snapshot, joinable, bus, clientVars>>

\* Everybody else is told, every client's connection is closed (what it has
\* sent is not read any more), the table is cleared, the loop is asked to stop
\* and the session becomes inactive.
HandleSessionClose(c) ==
  /\ HasRead(c, SessionClosed)
  /\ up' = [d \in Channels |->
              IF d \in clients THEN <<>>
              ELSE IF d = c THEN Tail(up[d]) ELSE up[d]]
  /\ SendTo(ClientsExcept(c), SessionClosed)
  /\ conn' = [d \in Channels |-> IF d \in clients THEN "closed" ELSE conn[d]]
  /\ clients' = {}
  /\ loop' = "stopping"
  /\ active' = FALSE
  /\ UNCHANGED <<snapshot, joinable, bus, clientVars>>

\* ws.onclose: the loop notices that the peer is gone.
OnClose(c) ==
  /\ LoopTurns
  /\ conn[c] = "lost"
  /\ conn' = [conn EXCEPT ![c] = "closed"]
  /\ up' = [up EXCEPT ![c] = <<>>]
  /\ clients' = clients \ {c}
  /\ UNCHANGED <<down, snapshot, joinable, active, loop, bus, clientVars>>

\* Fault: the connections that go down with the loop stay in the table.
LoopEndsSilently ==
  /\ loop = "stopping"
  /\ loop' = "ended"
  /\ conn' = [c \in Channels |->
                IF conn[c] \in {"open", "lost"} THEN "closed" ELSE conn[c]]
  /\ up' = [c \in Channels |-> IF conn[c] = "idle" THEN up[c] ELSE <<>>]
  /\ UNCHANGED <<down, clients, snapshot, joinable, active, bus, clientVars>>

\* ws_server.run() closes what was still open, each with its ws.onclose, and
\* returns; running = false.
LoopEnds ==
  /\ loop = "stopping"
  /\ loop' = "ended"
  /\ conn' = [c \in Channels |->
                IF conn[c] \in {"open", "lost"} THEN "closed" ELSE conn[c]]
  /\ clients' = {c \in clients : conn[c] \notin {"open", "lost"}}
  /\ up' = [c \in Channels |-> IF conn[c] = "idle" THEN up[c] ELSE <<>>]
  /\ UNCHANGED <<down, snapshot, joinable, active, bus, clientVars>>

-----------------------------------------------------------------------------
(* The bus thread reuses the session.                                      *)

\* Fault: reset() keeps the snapshot.
ResetKeepsScene ==
  /\ bus = "idle"
  /\ ~active
  /\ bus' = "reset"
  /\ clients' = {}
  /\ joinable' = FALSE
  /\ UNCHANGED <<conn, up, down, snapshot, active, loop, clientVars>>

\* existing->reset(): the session is inactive, whether or not its loop ended.
Reset ==
  /\ bus = "idle"
  /\ ~active
  /\ bus' = "reset"
  /\ clients' = {}
  /\ snapshot' = EmptyScene
  /\ joinable' = FALSE
  /\ UNCHANGED <<conn, up, down, active, loop, clientVars>>

\* existing->setActive(true)
Activate ==
  /\ bus = "reset"
  /\ bus' = "activated"
  /\ active' = TRUE
  /\ UNCHANGED <<conn, up, down, clients, snapshot, joinable, loop, clientVars>>

\* Fault: the loop is taken to have ended.
StartServerAnyway ==
  /\ bus = "activated"
  /\ bus' = "idle"
  /\ loop' = "running"
  /\ UNCHANGED <<conn, up, down, clients, snapshot, joinable, active, clientVars>>

\* existing->startServer(): nothing happens while the old loop runs.
StartServer ==
  /\ bus = "activated"
  /\ bus' = "idle"
  /\ loop' = IF loop = "ended" THEN "running" ELSE loop
  /\ UNCHANGED <<conn, up, down, clients, snapshot, joinable, active, clientVars>>

-----------------------------------------------------------------------------

Handle(c) ==
  \/ HandleHandshake(c) \/ HandleSnapshot(c) \/ HandleUpdate(c)
  \/ HandleSessionClose(c) \/ OnClose(c)

Next ==
  \/ \E c \in Channels :
       \/ Connect(c) \/ Edit(c) \/ EndSession(c) \/ Receive(c) \/ Lose(c)
       \/ Handle(c)
  \/ LoopEnds
  \/ Reset \/ Activate \/ StartServer

Spec == Init /\ [][Next]_vars

(***************************************************************************)
(* The loop serves every connection and the network delivers; users and    *)
(* failing connections owe nothing.                                        *)
(***************************************************************************)
Fairness ==
  /\ \A c \in Channels : WF_vars(Handle(c)) /\ WF_vars(Receive(c))
  /\ WF_vars(LoopEnds)

FairSpec == Spec /\ Fairness

-----------------------------------------------------------------------------
(* Safety.                                                                 *)

\* Message m decides the value of object o.
Decides(m, o) ==
  m.type = "snapshot" \/ (m.type = "update" /\ m.obj = o)

\* The value message m, which decides o, gives it.
Given(m, o) ==
  IF m.type = "snapshot" THEN m.scene[o] ELSE m.val

\* Applied to a scene in which o has value v, the messages of queue leave w.
Leaves(queue, o, v, w) ==
  \/ /\ \A i \in DOMAIN queue : ~Decides(queue[i], o)
     /\ v = w
  \/ \E i \in DOMAIN queue :
       /\ Decides(queue[i], o)
       /\ \A j \in DOMAIN queue : j > i => ~Decides(queue[j], o)
       /\ Given(queue[i], o) = w

Registered(c) == c \in clients /\ conn[c] = "open"

\* Every connected client that has left an object alone ends up with the
\* server's value of it once it has read what is in transit to it: no update
\* is missed, none is delivered twice or out of order, also around a join.
ReadersInSync ==
  joinable =>
    \A c \in Channels, o \in Objects :
      Registered(c) /\ o \notin edited[c] =>
        Leaves(down[c], o, view[c][o], snapshot[o])

\* While the server runs, the only client that edits an object agrees with it
\* about the object once it has read what is in transit from the client:
\* nobody else's message overwrites the value on either side.
SoleWriterInSync ==
  joinable /\ loop = "running" =>
    \A c \in Channels, o \in Objects :
      /\ Registered(c)
      /\ o \in edited[c]
      /\ \A d \in Channels \ {c} : o \notin edited[d]
      => Leaves(up[c], o, snapshot[o], view[c][o])

\* A client that is told the session is closed is told nothing afterwards.
ClosedIsLast ==
  \A c \in Channels : \A i \in DOMAIN down[c] :
    down[c][i] = SessionClosed => i = Len(down[c])

\* Whoever is in the client table of a running server has a connection to it:
\* relays never go to connections of an earlier life of the session, even if
\* the old loop still greeted a client after reset().
ClientsConnected ==
  loop = "running" => \A c \in clients : conn[c] \in {"open", "lost"}

\* From reset() to the first upload of its next life a session holds the empty
\* scene and no guest may join: nothing of the earlier life is left over, and
\* nothing the old loop still handles after reset() gets into it.
NothingLeftOver ==
  UploadFirst =>
    /\ bus # "idle" => ~joinable /\ snapshot = EmptyScene
    /\ loop = "running" /\ ~joinable => snapshot = EmptyScene

\* reset() comes before setActive(true), and is nobody else's concern.
Life == INSTANCE SessionLife
          WITH bus <- IF bus = "activated" THEN "taken" ELSE "idle"

\* The handlers and the bus thread's three calls keep to the contract with the
\* control plane, and the assumptions made here about the bus thread are those
\* SessionControl keeps (Session, PerfectServer::handle_session_close).
ImplementsLife == Life!LifeSpec

(* Liveness.                                                               *)

\* The edits being finitely many, every client that stays and has not edited
\* ends with the server's scene.
ReadersCatchUp ==
  \A c \in Channels :
    <>[](Registered(c) /\ joinable /\ edited[c] = {} => view[c] = snapshot)

(* What the project proposal says of the server: "Single source of truth,  *)
(* synchronises scene state between users in real time",                   *)
(* docs/proposal/proposal.md:33.                                           *)

\* When nothing is in transit, all joined clients show the server's scene.
Quiet == \A c \in Channels : up[c] = <<>> /\ down[c] = <<>>

SynchronisedWhenQuiet ==
  Quiet /\ joinable =>
    \A c \in Channels : Registered(c) /\ phase[c] = "joined" => view[c] = snapshot
=============================================================================
