--------------------------- MODULE CollabSessionProofs ---------------------------
(***************************************************************************)
(* CollabSession for any number of clients, objects, values and edits, any *)
(* scenes and queues of any length: types, the client table and the order  *)
(* around a close in every case; and, where guests connect once the host   *)
(* has uploaded its scene, that readers and sole writers agree with the    *)
(* server, that nothing survives a reuse of the session, and that all      *)
(* clients go through one history of scenes.                               *)
(***************************************************************************)
EXTENDS CollabHistory, SequenceTheorems, TLAPS

\* The connection has not been closed by the server.
Here(c) == conn[c] \in {"open", "lost"}

\* The client has connected and the server has not read its handshake.
Fresh(c) ==
  /\ c \notin clients
  /\ up[c] = <<Handshake>>
  /\ down[c] = <<>>
  /\ phase[c] = "hello"
  /\ edited[c] = {}

TableInv == \A c \in clients : Here(c)

CloseInv ==
  \A c \in Channels : \A i \in DOMAIN down[c] :
    down[c][i] = SessionClosed => i = Len(down[c]) /\ conn[c] = "closed"

IdleInv ==
  \A c \in Channels :
    conn[c] = "idle" => /\ up[c] = <<>> /\ down[c] = <<>>
                        /\ phase[c] = "idle" /\ edited[c] = {}

\* An update in transit is about an object its author has edited.
MarkedInv ==
  /\ \A c \in Channels : \A i \in DOMAIN up[c] :
       up[c][i].type = "update" => up[c][i].obj \in edited[c]
  /\ \A c \in Channels : \A i \in DOMAIN down[c] :
       down[c][i].type = "update" =>
         \E d \in Channels \ {c} : down[c][i].obj \in edited[d]

\* Which lives of the loop and points of a reuse exclude each other.
LifeInv ==
  /\ loop = "running" => bus = "idle" /\ active
  /\ bus = "activated" => active
  /\ loop = "ended" => \A c \in Channels : ~Here(c)

\* There is one host at a time, it leaves with its loop, and guests follow its
\* upload.
PresenceInv ==
  /\ \A h, k \in Hosts : Here(h) /\ Here(k) => h = k
  /\ loop # "running" => \A h \in Hosts : ~Here(h)
  /\ loop = "running" /\ ~joinable => \A c \in Channels \ Hosts : ~Here(c)

\* What a connection carries to the server.
UpInv ==
  \A c \in Channels : Here(c) =>
    /\ loop = "stopping" => Fresh(c) \/ up[c] = <<>>
    /\ loop = "running" /\ c \notin clients =>
         Fresh(c) /\ (c \in Hosts => ~joinable)
    /\ loop = "running" /\ c \in clients =>
         \A i \in DOMAIN up[c] :
           \/ up[c][i].type = "update"
           \/ c \in Hosts /\ up[c][i] = SessionClosed
           \/ c \in Hosts /\ up[c][i].type = "snapshot" /\ i = 1 /\ ~joinable

\* Greetings on the way to the client.
DownInv ==
  \A c \in Channels : \A i \in DOMAIN down[c] :
    /\ down[c][i].type = "handshake_ack" => c \in Hosts
    /\ down[c][i].type = "snapshot" =>
         c \notin Hosts /\ i = 1 /\ phase[c] = "hello" /\ edited[c] = {}

\* A host that the server has greeted, before and after its upload arrives.
UploadInv ==
  \A h \in Hosts \cap clients :
    /\ loop = "running" /\ ~joinable =>
         \/ /\ up[h] = <<>>
            /\ down[h] \in {<<>>, <<HandshakeAck>>}
            /\ phase[h] = "hello"
            /\ edited[h] = {}
         \/ /\ up[h] # <<>>
            /\ up[h][1].type = "snapshot"
            /\ down[h] = <<>>
            /\ \A o \in Objects : Leaves(up[h], o, snapshot[o], view[h][o])
    /\ loop = "running" /\ joinable =>
         \A i \in DOMAIN down[h] : down[h][i].type # "handshake_ack"

BaseInv == TypeOK /\ TableInv /\ CloseInv /\ IdleInv /\ MarkedInv

SyncInv ==
  /\ LifeInv /\ PresenceInv /\ UpInv /\ DownInv /\ UploadInv
  /\ NothingLeftOver /\ ReadersInSync /\ SoleWriterInSync

CollabInv == BaseInv /\ (UploadFirst => SyncInv)

-----------------------------------------------------------------------------
(* Messages and queues.                                                    *)

Kinds == {"handshake", "handshake_ack", "session_close", "snapshot", "update"}

\* The messages of the protocol, told apart by their type.
LEMMA MessageKinds ==
  /\ {Handshake, HandshakeAck, SessionClosed} \subseteq Messages
  /\ \A scene \in Scene : Snapshot(scene) \in Messages
  /\ \A o \in Objects, v \in Values \cup {None} : Update(o, v) \in Messages
  /\ \A m \in Messages :
       /\ m.type \in Kinds
       /\ m.type = "handshake" <=> m = Handshake
       /\ m.type = "handshake_ack" <=> m = HandshakeAck
       /\ m.type = "session_close" <=> m = SessionClosed
       /\ m.type = "snapshot" => m.scene \in Scene
       /\ m.type = "update" => m.obj \in Objects /\ m.val \in Values \cup {None}
<1>1. ASSUME NEW m \in Messages
      PROVE  \/ m \in {Handshake, HandshakeAck, SessionClosed}
             \/ m \in [type : {"snapshot"}, scene : Scene]
             \/ m \in Updates
  BY DEF Messages
<1> QED
  BY <1>1
  DEF Messages, Updates, Handshake, HandshakeAck, SessionClosed, Snapshot, Update, Kinds

\* The fields of a message that has just been built.
LEMMA Built ==
  /\ Handshake.type = "handshake"
  /\ HandshakeAck.type = "handshake_ack"
  /\ SessionClosed.type = "session_close"
  /\ \A scene : Snapshot(scene).type = "snapshot" /\ Snapshot(scene).scene = scene
  /\ \A o, v : /\ Update(o, v).type = "update"
               /\ Update(o, v).obj = o
               /\ Update(o, v).val = v
BY DEF Handshake, HandshakeAck, SessionClosed, Snapshot, Update

\* A queue with one message more.
LEMMA Appended ==
  ASSUME NEW q \in Seq(Messages), NEW m \in Messages
  PROVE  /\ Append(q, m) \in Seq(Messages)
         /\ Len(q) \in Nat /\ DOMAIN q = 1 .. Len(q)
         /\ Len(Append(q, m)) = Len(q) + 1
         /\ DOMAIN Append(q, m) = 1 .. Len(q) + 1
         /\ \A i \in DOMAIN q : Append(q, m)[i] = q[i]
         /\ Append(q, m)[Len(q) + 1] = m
OBVIOUS

\* A queue without its first message.
LEMMA Taken ==
  ASSUME NEW q \in Seq(Messages), q # <<>>
  PROVE  /\ Tail(q) \in Seq(Messages)
         /\ Head(q) = q[1] /\ Head(q) \in Messages
         /\ Len(q) \in Nat \ {0} /\ DOMAIN q = 1 .. Len(q)
         /\ Len(Tail(q)) = Len(q) - 1
         /\ DOMAIN Tail(q) = 1 .. Len(q) - 1
         /\ \A i \in DOMAIN Tail(q) : i + 1 \in DOMAIN q /\ Tail(q)[i] = q[i + 1]
OBVIOUS

\* The queue that carries nothing.
LEMMA EmptyQueue == <<>> \in Seq(Messages) /\ DOMAIN <<>> = {} /\ Len(<<>>) = 0
OBVIOUS

\* An update gives its object the new value and leaves the rest alone.
LEMMA SceneType ==
  /\ EmptyScene \in Scene
  /\ \A scene \in Scene, m \in Messages : m.type = "update" => Effect(scene, m) \in Scene
  /\ \A scene \in Scene, m \in Messages, o \in Objects :
       m.type = "update" =>
         Effect(scene, m)[o] = IF o = m.obj THEN m.val ELSE scene[o]
<1>1. EmptyScene \in Scene
  BY DEF EmptyScene, Scene
<1>2. ASSUME NEW scene \in Scene, NEW m \in Messages, m.type = "update"
      PROVE  /\ Effect(scene, m) \in Scene
             /\ \A o \in Objects : Effect(scene, m)[o] = IF o = m.obj THEN m.val ELSE scene[o]
  BY <1>2, MessageKinds DEF Effect, Scene
<1> QED
  BY <1>1, <1>2

-----------------------------------------------------------------------------
(* What a queue leaves.                                                    *)

\* A message sent last decides the value it gives.
LEMMA LeavesDecided ==
  ASSUME NEW q \in Seq(Messages), NEW m \in Messages, NEW o \in Objects, NEW v,
         Decides(m, o)
  PROVE  Leaves(Append(q, m), o, v, Given(m, o))
BY Appended DEF Leaves

\* A message about another object changes nothing.
LEMMA LeavesOther ==
  ASSUME NEW q \in Seq(Messages), NEW m \in Messages, NEW o \in Objects, NEW v, NEW w,
         ~Decides(m, o), Leaves(q, o, v, w)
  PROVE  Leaves(Append(q, m), o, v, w)
BY Appended DEF Leaves

\* Applying the first message of a queue leaves what the queue leaves.
LEMMA LeavesTaken ==
  ASSUME NEW q \in Seq(Messages), q # <<>>, NEW o \in Objects, NEW v, NEW w,
         Leaves(q, o, v, w)
  PROVE  Leaves(Tail(q), o, IF Decides(Head(q), o) THEN Given(Head(q), o) ELSE v, w)
<1>1. CASE \A i \in DOMAIN q : ~Decides(q[i], o)
  BY <1>1, Taken DEF Leaves
<1>2. CASE \E i \in DOMAIN q : Decides(q[i], o)
  <2>1. PICK i \in DOMAIN q :
          /\ Decides(q[i], o)
          /\ \A j \in DOMAIN q : j > i => ~Decides(q[j], o)
          /\ Given(q[i], o) = w
    BY <1>2 DEF Leaves
  <2>2. CASE i = 1
    <3>1. \A j \in DOMAIN Tail(q) : ~Decides(Tail(q)[j], o)
      BY <2>1, <2>2, Taken
    <3> QED
      BY <2>1, <2>2, <3>1, Taken DEF Leaves
  <2>3. CASE i # 1
    <3>1. i - 1 \in DOMAIN Tail(q) /\ Tail(q)[i - 1] = q[i]
      BY <2>3, Taken
    <3>2. \A j \in DOMAIN Tail(q) : j > i - 1 => ~Decides(Tail(q)[j], o)
      BY <2>1, Taken
    <3> QED
      BY <2>1, <3>1, <3>2 DEF Leaves
  <2> QED
    BY <2>2, <2>3
<1> QED
  BY <1>1, <1>2

\* An empty queue leaves what is there.
LEMMA LeavesEmpty == \A o, v, w : Leaves(<<>>, o, v, w) <=> v = w
BY EmptyQueue DEF Leaves

-----------------------------------------------------------------------------
(* What a step does to the queues.                                         *)

\* The server takes in the first message of one connection.
LEMMA TakenIn ==
  ASSUME TypeOK, NEW c \in Channels, NEW m, TakeIn(c, m)
  PROVE  /\ up[c] \in Seq(Messages) /\ up[c] # <<>>
         /\ m = Head(up[c]) /\ m = up[c][1] /\ m \in Messages
         /\ loop \in {"running", "stopping"} /\ Here(c)
         /\ up' \in [Channels -> Seq(Messages)]
         /\ up'[c] = Tail(up[c])
         /\ \A d \in Channels \ {c} : up'[d] = up[d]
BY Taken DEF TypeOK, TakeIn, HasRead, LoopTurns, Here

\* The server sends a message over the open ones of some connections.
LEMMA SentTo ==
  ASSUME TypeOK, NEW R, NEW m \in Messages, SendTo(R, m)
  PROVE  /\ down' \in [Channels -> Seq(Messages)]
         /\ \A d \in Channels :
              down'[d] = IF d \in R /\ conn[d] = "open"
                         THEN Append(down[d], m) ELSE down[d]
BY Appended DEF TypeOK, SendTo

\* A client sends, unless its loop or its connection is down.
LEMMA SentUp ==
  ASSUME TypeOK, NEW c \in Channels, NEW m \in Messages, Send(c, m)
  PROVE  /\ up' \in [Channels -> Seq(Messages)]
         /\ up'[c] = IF loop = "running" /\ conn[c] = "open"
                     THEN Append(up[c], m) ELSE up[c]
         /\ \A d \in Channels \ {c} : up'[d] = up[d]
BY Appended DEF TypeOK, Send

\* A client takes a message off its connection and may answer.
LEMMA Received ==
  ASSUME TypeOK, NEW c \in Channels, Receive(c)
  PROVE  /\ down[c] \in Seq(Messages) /\ down[c] # <<>>
         /\ Head(down[c]) = down[c][1] /\ down[c][1] \in Messages
         /\ 1 \in DOMAIN down[c]
         /\ down' \in [Channels -> Seq(Messages)]
         /\ down'[c] = Tail(down[c])
         /\ \A d \in Channels \ {c} : down'[d] = down[d]
         /\ \A d \in Channels \ {c} : up'[d] = up[d]
         /\ up' \in [Channels -> Seq(Messages)]
         /\ conn[c] # "lost"
<1>1. /\ down[c] \in Seq(Messages) /\ down[c] # <<>>
      /\ Head(down[c]) = down[c][1] /\ down[c][1] \in Messages
      /\ 1 \in DOMAIN down[c]
      /\ Tail(down[c]) \in Seq(Messages)
      /\ conn[c] # "lost"
  BY Taken DEF TypeOK, Receive
<1>2. /\ down' \in [Channels -> Seq(Messages)]
      /\ down'[c] = Tail(down[c])
      /\ \A d \in Channels \ {c} : down'[d] = down[d]
  BY <1>1 DEF TypeOK, Receive
<1>3. /\ up' \in [Channels -> Seq(Messages)]
      /\ \A d \in Channels \ {c} : up'[d] = up[d]
  <2>1. CASE Send(c, Snapshot(view[c]))
    BY <2>1, SentUp, MessageKinds DEF TypeOK
  <2>2. CASE UNCHANGED up
    BY <2>2 DEF TypeOK
  <2> QED
    BY <2>1, <2>2 DEF Receive
<1> QED
  BY <1>1, <1>2, <1>3

-----------------------------------------------------------------------------
(* Types.                                                                  *)

\* The bus thread starts a session whose connections are all idle.
LEMMA Initial == Init => CollabInv
<1> SUFFICES ASSUME Init
             PROVE  CollabInv
  OBVIOUS
<1> USE CollabAssumption DEF Init
<1>1. TypeOK
  <2>1. edits \in 0 .. MaxEdits
    OBVIOUS
  <2> QED
    BY <2>1, SceneType, EmptyQueue DEF TypeOK
<1>2. TableInv /\ CloseInv /\ IdleInv /\ MarkedInv
  BY EmptyQueue DEF TableInv, CloseInv, IdleInv, MarkedInv
<1>3. LifeInv /\ PresenceInv /\ UpInv /\ DownInv /\ UploadInv
  BY EmptyQueue DEF LifeInv, PresenceInv, UpInv, DownInv, UploadInv, Here
<1>4. NothingLeftOver /\ ReadersInSync /\ SoleWriterInSync
  BY DEF NothingLeftOver, ReadersInSync, SoleWriterInSync
<1> QED
  BY <1>1, <1>2, <1>3, <1>4 DEF CollabInv, BaseInv, SyncInv

\* Every step keeps the types.
LEMMA TypeStep ==
  ASSUME TypeOK, [Next]_vars
  PROVE  TypeOK'
<1> USE CollabAssumption DEF serverVars, clientVars
<1>1. CASE UNCHANGED vars
  BY <1>1 DEF TypeOK, vars
<1>2. ASSUME NEW c \in Channels, Connect(c)
      PROVE  TypeOK'
  <2>1. <<Handshake>> \in Seq(Messages)
    BY MessageKinds
  <2> QED
    BY <1>2, <2>1 DEF TypeOK, Connect
<1>3. ASSUME NEW c \in Channels, Edit(c)
      PROVE  TypeOK'
  <2>1. PICK o \in Objects, v \in Values \cup {None} :
          /\ view' = [view EXCEPT ![c] = Effect(@, Update(o, v))]
          /\ Send(c, Update(o, v))
          /\ edited' = [edited EXCEPT ![c] = @ \cup {o}]
    BY <1>3 DEF Edit
  <2>2. up' \in [Channels -> Seq(Messages)]
    BY <2>1, MessageKinds, SentUp
  <2>3. view' \in [Channels -> Scene]
    BY <2>1, MessageKinds, SceneType DEF TypeOK, Update
  <2>4. edits' \in 0 .. MaxEdits
    BY <1>3 DEF TypeOK, Edit
  <2> QED
    BY <1>3, <2>1, <2>2, <2>3, <2>4 DEF TypeOK, Edit
<1>4. ASSUME NEW c \in Channels, EndSession(c)
      PROVE  TypeOK'
  <2>1. up' \in [Channels -> Seq(Messages)]
    BY <1>4, MessageKinds, SentUp DEF EndSession
  <2> QED
    BY <1>4, <2>1 DEF TypeOK, EndSession
<1>5. ASSUME NEW c \in Channels, Receive(c)
      PROVE  TypeOK'
  <2>1. view' \in [Channels -> Scene] /\ phase' \in [Channels -> {"idle", "hello", "joined", "left"}]
    <3> DEFINE m == down[c][1]
    <3>1. m \in Messages /\ m = Head(down[c])
      BY <1>5, Received
    <3>2. m.type = "snapshot" => m.scene \in Scene
      BY <3>1, MessageKinds
    <3>3. m.type = "update" => Effect(view[c], m) \in Scene
      BY <3>1, SceneType DEF TypeOK
    <3> HIDE DEF m
    <3> QED
      BY <1>5, <3>1, <3>2, <3>3 DEF TypeOK, Receive
  <2> QED
    BY <1>5, <2>1, Received DEF TypeOK, Receive
<1>6. ASSUME NEW c \in Channels, Lose(c)
      PROVE  TypeOK'
  BY <1>6, EmptyQueue DEF TypeOK, Lose
<1>7. ASSUME NEW c \in Channels, HandleHandshake(c)
      PROVE  TypeOK'
  BY <1>7, TakenIn, SentTo, MessageKinds DEF TypeOK, HandleHandshake
<1>8. ASSUME NEW c \in Channels, HandleSnapshot(c)
      PROVE  TypeOK'
  BY <1>8, TakenIn, MessageKinds DEF TypeOK, HandleSnapshot
<1>9. ASSUME NEW c \in Channels, HandleUpdate(c)
      PROVE  TypeOK'
  <2>1. /\ Head(up[c]) \in Messages
        /\ up' \in [Channels -> Seq(Messages)]
    BY <1>9, TakenIn DEF HandleUpdate
  <2>2. down' \in [Channels -> Seq(Messages)]
    BY <1>9, <2>1, SentTo DEF HandleUpdate
  <2>3. snapshot' \in Scene
    BY <1>9, <2>1, SceneType DEF TypeOK, HandleUpdate, Apply
  <2> QED
    BY <1>9, <2>1, <2>2, <2>3 DEF TypeOK, HandleUpdate
<1>10. ASSUME NEW c \in Channels, HandleSessionClose(c)
       PROVE  TypeOK'
  <2>1. down' \in [Channels -> Seq(Messages)]
    BY <1>10, SentTo, MessageKinds DEF HandleSessionClose
  <2>2. up' \in [Channels -> Seq(Messages)]
    BY <1>10, Taken, EmptyQueue DEF TypeOK, HandleSessionClose, HasRead
  <2> QED
    BY <1>10, <2>1, <2>2 DEF TypeOK, HandleSessionClose
<1>11. ASSUME NEW c \in Channels, OnClose(c)
       PROVE  TypeOK'
  BY <1>11, EmptyQueue DEF TypeOK, OnClose
<1>12. CASE LoopEnds
  BY <1>12, EmptyQueue DEF TypeOK, LoopEnds
<1>13. CASE Reset \/ Activate \/ StartServer
  BY <1>13, SceneType DEF TypeOK, Reset, Activate, StartServer
<1> QED
  BY <1>1, <1>2, <1>3, <1>4, <1>5, <1>6, <1>7, <1>8, <1>9, <1>10, <1>11, <1>12, <1>13
  DEF Next, Handle

-----------------------------------------------------------------------------
(* The client table, closes and updates, however guests connect.           *)

\* A client enters the table by its handshake and leaves it with its connection.
LEMMA TableStep ==
  ASSUME TypeOK, TableInv, [Next]_vars
  PROVE  TableInv'
<1> USE DEF TypeOK, TableInv, Here, serverVars
<1>1. CASE UNCHANGED vars
  BY <1>1 DEF vars
<1>2. ASSUME NEW c \in Channels, Connect(c) \/ Edit(c) \/ EndSession(c) \/ Receive(c) \/ Lose(c)
      PROVE  TableInv'
  BY <1>2 DEF Connect, Edit, EndSession, Receive, Lose
<1>3. ASSUME NEW c \in Channels, Handle(c)
      PROVE  TableInv'
  BY <1>3
  DEF Handle, HandleHandshake, HandleSnapshot, HandleUpdate, HandleSessionClose,
      OnClose, TakeIn, HasRead
<1>4. CASE LoopEnds
  BY <1>4 DEF LoopEnds
<1>5. CASE Reset \/ Activate \/ StartServer
  BY <1>5 DEF Reset, Activate, StartServer
<1> QED
  BY <1>1, <1>2, <1>3, <1>4, <1>5 DEF Next

\* A connection that was never opened carries nothing.
LEMMA IdleStep ==
  ASSUME TypeOK, TableInv, IdleInv, [Next]_vars
  PROVE  IdleInv'
<1> USE DEF IdleInv
<1>1. CASE UNCHANGED vars
  BY <1>1 DEF vars, clientVars
<1>2. ASSUME NEW c \in Channels, Connect(c) \/ Edit(c) \/ EndSession(c) \/ Lose(c)
      PROVE  IdleInv'
  <2>1. CASE Connect(c) \/ Lose(c)
    BY <2>1 DEF TypeOK, Connect, Lose, clientVars
  <2>2. CASE Edit(c) \/ EndSession(c)
    <3>1. PICK m \in Messages : Send(c, m)
      BY <2>2, MessageKinds DEF Edit, EndSession
    <3> QED
      BY <2>2, <3>1, SentUp DEF TypeOK, Edit, EndSession, serverVars
  <2> QED
    BY <1>2, <2>1, <2>2
<1>3. ASSUME NEW c \in Channels, Receive(c)
      PROVE  IdleInv'
  <2>1. conn[c] # "idle" /\ UNCHANGED <<conn, edited>>
    BY <1>3 DEF Receive
  <2>2. \A d \in Channels \ {c} : phase'[d] = phase[d]
    <3> DEFINE kind == Head(down[c]).type
    <3>1. CASE kind = "update"
      BY <1>3, <3>1 DEF Receive
    <3>2. CASE kind = "session_close"
      BY <1>3, <3>2 DEF TypeOK, Receive
    <3>3. CASE kind \in {"handshake_ack", "snapshot"}
      <4>1. phase' = [phase EXCEPT ![c] = "joined"]
        BY <1>3, <3>3 DEF Receive
      <4> QED
        BY <4>1 DEF TypeOK
    <3>4. kind \in {"update", "session_close", "handshake_ack", "snapshot"}
      BY <1>3 DEF Receive
    <3> QED
      BY <3>1, <3>2, <3>3, <3>4
  <2> QED
    BY <1>3, <2>1, <2>2, Received
<1>4. ASSUME NEW c \in Channels, HandleHandshake(c) \/ HandleSnapshot(c) \/ HandleUpdate(c)
      PROVE  IdleInv'
  <2>1. PICK m : TakeIn(c, m)
    BY <1>4 DEF HandleHandshake, HandleSnapshot, HandleUpdate
  <2>2. \A d \in Channels : conn[d] = "idle" => down'[d] = down[d]
    BY <1>4, <2>1, TakenIn
    DEF TypeOK, HandleHandshake, HandleSnapshot, HandleUpdate, SendTo
  <2> QED
    BY <1>4, <2>1, <2>2, TakenIn
    DEF TypeOK, Here, HandleHandshake, HandleSnapshot, HandleUpdate, clientVars
<1>5. ASSUME NEW c \in Channels, HandleSessionClose(c) \/ OnClose(c)
      PROVE  IdleInv'
  BY <1>5
  DEF TypeOK, TableInv, Here, HandleSessionClose, HasRead, OnClose, SendTo, clientVars
<1>6. CASE LoopEnds \/ Reset \/ Activate \/ StartServer
  BY <1>6 DEF TypeOK, LoopEnds, Reset, Activate, StartServer, clientVars
<1> QED
  BY <1>1, <1>2, <1>3, <1>4, <1>5, <1>6 DEF Next, Handle

\* The close notice goes only to connections the same handler closes.
LEMMA CloseStep ==
  ASSUME TypeOK, TableInv, IdleInv, CloseInv, [Next]_vars
  PROVE  CloseInv'
<1>1. CASE UNCHANGED <<conn, down>>
  BY <1>1 DEF CloseInv
<1>2. ASSUME NEW c \in Channels, Connect(c)
      PROVE  CloseInv'
  BY <1>2 DEF TypeOK, CloseInv, Connect
<1>3. ASSUME NEW c \in Channels, Edit(c) \/ EndSession(c)
      PROVE  CloseInv'
  BY <1>1, <1>3 DEF Edit, EndSession
<1>4. ASSUME NEW c \in Channels, Receive(c)
      PROVE  CloseInv'
  <2>1. UNCHANGED conn
    BY <1>4 DEF Receive
  <2>2. ASSUME NEW d \in Channels, NEW i \in DOMAIN down'[d], down'[d][i] = SessionClosed
        PROVE  i = Len(down'[d]) /\ conn[d] = "closed"
    <3>1. CASE d = c
      <4>1. /\ down[c] \in Seq(Messages) /\ down[c] # <<>>
            /\ down'[c] = Tail(down[c])
        BY <1>4, Received
      <4>2. i + 1 \in DOMAIN down[c] /\ down[c][i + 1] = SessionClosed
        BY <2>2, <3>1, <4>1, Taken
      <4>3. i + 1 = Len(down[c]) /\ conn[c] = "closed"
        BY <4>2 DEF CloseInv
      <4> QED
        BY <3>1, <4>1, <4>3, <2>2, Taken
    <3>2. CASE d # c
      BY <1>4, <2>2, <3>2, Received DEF CloseInv
    <3> QED
      BY <3>1, <3>2
  <2> QED
    BY <2>1, <2>2 DEF CloseInv
<1>5. ASSUME NEW c \in Channels, Lose(c)
      PROVE  CloseInv'
  BY <1>5, EmptyQueue DEF TypeOK, CloseInv, Lose
<1>6. ASSUME NEW c \in Channels, HandleSnapshot(c)
      PROVE  CloseInv'
  BY <1>1, <1>6 DEF HandleSnapshot
<1>7. ASSUME NEW c \in Channels, HandleHandshake(c) \/ HandleUpdate(c)
      PROVE  CloseInv'
  <2>1. PICK m \in Messages : m # SessionClosed /\ \E recipients : SendTo(recipients, m)
    <3>1. CASE HandleHandshake(c)
      <4>1. /\ HandshakeAck \in Messages /\ HandshakeAck # SessionClosed
            /\ Snapshot(snapshot) \in Messages /\ Snapshot(snapshot) # SessionClosed
        BY MessageKinds, Built DEF TypeOK
      <4> QED
        BY <3>1, <4>1 DEF HandleHandshake
    <3>2. CASE HandleUpdate(c)
      <4>1. /\ Head(up[c]).type = "update"
            /\ TakeIn(c, Head(up[c]))
            /\ SendTo(ClientsExcept(c), Head(up[c]))
        BY <3>2 DEF HandleUpdate
      <4>2. Head(up[c]) \in Messages
        BY <4>1, TakenIn
      <4>3. Head(up[c]) # SessionClosed
        BY <4>1, Built
      <4> QED
        BY <4>1, <4>2, <4>3
    <3> QED
      BY <1>7, <3>1, <3>2
  <2> PICK R : SendTo(R, m)
    BY <2>1
  <2>2. UNCHANGED conn
    BY <1>7 DEF HandleHandshake, HandleUpdate
  <2>3. ASSUME NEW d \in Channels, NEW i \in DOMAIN down'[d], down'[d][i] = SessionClosed
        PROVE  i = Len(down'[d]) /\ conn[d] = "closed"
    <3>1. down[d] \in Seq(Messages)
      BY DEF TypeOK
    <3>2. CASE d \in R /\ conn[d] = "open"
      <4>1. down'[d] = Append(down[d], m)
        BY <2>1, <3>2, SentTo
      <4>2. i \in DOMAIN down[d] /\ down[d][i] = SessionClosed
        BY <2>1, <2>3, <3>1, <4>1, Appended
      <4> QED
        BY <3>2, <4>2 DEF CloseInv
    <3>3. CASE ~(d \in R /\ conn[d] = "open")
      BY <2>1, <2>3, <3>3, SentTo DEF CloseInv
    <3> QED
      BY <3>2, <3>3
  <2> QED
    BY <2>2, <2>3 DEF CloseInv
<1>8. ASSUME NEW c \in Channels, HandleSessionClose(c)
      PROVE  CloseInv'
  <2>1. SendTo(ClientsExcept(c), SessionClosed) /\ ClientsExcept(c) \subseteq clients
    BY <1>8 DEF HandleSessionClose, ClientsExcept
  <2>2. \A d \in Channels : conn'[d] = IF d \in clients THEN "closed" ELSE conn[d]
    BY <1>8 DEF HandleSessionClose
  <2>4. SessionClosed \in Messages
    BY MessageKinds
  <2>5. \A d \in Channels :
          down'[d] = IF d \in ClientsExcept(c) /\ conn[d] = "open"
                     THEN Append(down[d], SessionClosed) ELSE down[d]
    BY <2>1, <2>4, SentTo
  <2>3. ASSUME NEW d \in Channels, NEW i \in DOMAIN down'[d], down'[d][i] = SessionClosed
        PROVE  i = Len(down'[d]) /\ conn'[d] = "closed"
    <3>1. down[d] \in Seq(Messages)
      BY DEF TypeOK
    <3>2. CASE d \in ClientsExcept(c) /\ conn[d] = "open"
      <4>1. down'[d] = Append(down[d], SessionClosed)
        BY <2>5, <3>2
      <4>2. i \notin DOMAIN down[d]
        <5>1. \A j \in DOMAIN down[d] : down'[d][j] = down[d][j]
          BY <3>1, <4>1, MessageKinds, Appended
        <5> QED
          BY <2>3, <3>2, <5>1 DEF CloseInv
      <4>3. Len(down[d]) \in Nat /\ Len(down'[d]) = Len(down[d]) + 1
            /\ DOMAIN down[d] = 1 .. Len(down[d])
            /\ DOMAIN down'[d] = 1 .. Len(down[d]) + 1
        BY <3>1, <4>1, MessageKinds, Appended
      <4>4. i = Len(down'[d])
        BY <2>3, <4>2, <4>3
      <4> QED
        BY <2>1, <2>2, <3>2, <4>4
    <3>3. CASE ~(d \in ClientsExcept(c) /\ conn[d] = "open")
      BY <2>1, <2>2, <2>3, <2>5, <3>3 DEF CloseInv
    <3> QED
      BY <3>2, <3>3
  <2> QED
    BY <2>3 DEF CloseInv
<1>9. ASSUME NEW c \in Channels, OnClose(c)
      PROVE  CloseInv'
  BY <1>9 DEF TypeOK, CloseInv, OnClose
<1>10. CASE LoopEnds
  BY <1>10 DEF TypeOK, CloseInv, LoopEnds
<1>11. CASE Reset \/ Activate \/ StartServer
  BY <1>1, <1>11 DEF Reset, Activate, StartServer
<1>12. CASE UNCHANGED vars
  BY <1>1, <1>12 DEF vars
<1> QED
  BY <1>2, <1>3, <1>4, <1>5, <1>6, <1>7, <1>8, <1>9, <1>10, <1>11, <1>12
  DEF Next, Handle

\* An update in transit names an object its author, not its reader, has edited.
LEMMA MarkedStep ==
  ASSUME TypeOK, IdleInv, MarkedInv, [Next]_vars
  PROVE  MarkedInv'
<1> DEFINE Sent(q, c) == \A i \in DOMAIN q : q[i].type = "update" => q[i].obj \in edited[c]
           Heard(q, c) == \A i \in DOMAIN q :
             q[i].type = "update" => \E d \in Channels \ {c} : q[i].obj \in edited[d]
           Holds(u, w) == \A c \in Channels : Sent(u[c], c) /\ Heard(w[c], c)
<1>0. Holds(up, down)
  BY DEF MarkedInv
<1>1. ASSUME Holds(up', down'), UNCHANGED edited
      PROVE  MarkedInv'
  BY <1>1 DEF MarkedInv
<1> HIDE DEF Sent, Heard
<1>2. /\ \A c \in Channels : Sent(<<>>, c) /\ Heard(<<>>, c)
      /\ \A c \in Channels : up[c] # <<>> => Sent(Tail(up[c]), c)
      /\ \A c \in Channels : down[c] # <<>> => Heard(Tail(down[c]), c)
  <2>1. ASSUME NEW c \in Channels, up[c] # <<>>
        PROVE  Sent(Tail(up[c]), c)
    <3>1. up[c] \in Seq(Messages) /\ Sent(up[c], c)
      BY <1>0 DEF TypeOK
    <3> QED
      BY <2>1, <3>1, Taken DEF Sent
  <2>2. ASSUME NEW c \in Channels, down[c] # <<>>
        PROVE  Heard(Tail(down[c]), c)
    <3>1. down[c] \in Seq(Messages) /\ Heard(down[c], c)
      BY <1>0 DEF TypeOK
    <3> QED
      BY <2>2, <3>1, Taken DEF Heard
  <2> QED
    BY <2>1, <2>2, EmptyQueue DEF Sent, Heard
<1>3. ASSUME NEW c \in Channels, NEW m \in Messages, m.type # "update"
      PROVE  Sent(Append(up[c], m), c) /\ Heard(Append(down[c], m), c)
  <2>1. up[c] \in Seq(Messages) /\ Sent(up[c], c)
    BY <1>0 DEF TypeOK
  <2>2. down[c] \in Seq(Messages) /\ Heard(down[c], c)
    BY <1>0 DEF TypeOK
  <2>3. Sent(Append(up[c], m), c)
    BY <1>3, <2>1, Appended DEF Sent
  <2>4. Heard(Append(down[c], m), c)
    BY <1>3, <2>2, Appended DEF Heard
  <2> QED
    BY <2>3, <2>4
<1>4. ASSUME NEW c \in Channels, NEW m \in Messages, m.type # "update", Send(c, m)
      PROVE  \A d \in Channels : Sent(up'[d], d)
  BY <1>0, <1>3, <1>4, SentUp
<1>5. ASSUME NEW R, NEW m \in Messages, m.type # "update", SendTo(R, m)
      PROVE  \A d \in Channels : Heard(down'[d], d)
  BY <1>0, <1>3, <1>5, SentTo
<1>6. ASSUME NEW c \in Channels, NEW m, TakeIn(c, m)
      PROVE  \A d \in Channels : Sent(up'[d], d)
  BY <1>0, <1>2, <1>6, TakenIn
<1>7. CASE UNCHANGED <<up, down, edited>>
  BY <1>0, <1>1, <1>7
<1>8. ASSUME NEW c \in Channels, Connect(c)
      PROVE  MarkedInv'
  <2>1. /\ UNCHANGED <<down, edited>>
        /\ \A d \in Channels : up'[d] = IF d = c THEN <<Handshake>> ELSE up[d]
    BY <1>8 DEF TypeOK, Connect
  <2>2. Sent(<<Handshake>>, c)
    BY Built DEF Sent
  <2> QED
    BY <1>0, <1>1, <2>1, <2>2
<1>9. ASSUME NEW c \in Channels, Edit(c)
      PROVE  MarkedInv'
  <2>1. PICK o \in Objects, v \in Values \cup {None} :
          /\ Send(c, Update(o, v))
          /\ edited' = [edited EXCEPT ![c] = @ \cup {o}]
    BY <1>9 DEF Edit
  <2>2. /\ Update(o, v) \in Messages /\ Update(o, v).obj = o
        /\ UNCHANGED down
    BY <1>9, MessageKinds, Built DEF Edit
  <2>3. \A d \in Channels : edited[d] \subseteq edited'[d] /\ o \in edited'[c]
    BY <2>1 DEF TypeOK
  <2>4. ASSUME NEW d \in Channels, NEW i \in DOMAIN up'[d], up'[d][i].type = "update"
        PROVE  up'[d][i].obj \in edited'[d]
    <3>1. CASE up'[d] = up[d]
      BY <2>3, <2>4, <3>1 DEF MarkedInv
    <3>2. CASE d = c /\ up'[c] = Append(up[c], Update(o, v))
      <4>1. up[c] \in Seq(Messages)
        BY DEF TypeOK
      <4>2. up'[d][i] = Update(o, v) \/ (i \in DOMAIN up[c] /\ up'[d][i] = up[c][i])
        BY <2>2, <2>4, <3>2, <4>1, Appended
      <4> QED
        BY <2>2, <2>3, <2>4, <3>2, <4>2 DEF MarkedInv
    <3> QED
      BY <2>1, <2>2, <3>1, <3>2, SentUp
  <2> QED
    BY <2>2, <2>3, <2>4 DEF MarkedInv
<1>10. ASSUME NEW c \in Channels, EndSession(c)
       PROVE  MarkedInv'
  <2>1. SessionClosed \in Messages /\ SessionClosed.type # "update"
    BY MessageKinds, Built
  <2> QED
    BY <1>0, <1>1, <1>4, <1>10, <2>1 DEF EndSession
<1>11. ASSUME NEW c \in Channels, Receive(c)
       PROVE  MarkedInv'
  <2>1. Snapshot(view[c]) \in Messages /\ Snapshot(view[c]).type # "update"
    BY MessageKinds, Built DEF TypeOK
  <2>2. \A d \in Channels : Sent(up'[d], d)
    BY <1>0, <1>4, <1>11, <2>1 DEF Receive
  <2>3. \A d \in Channels : Heard(down'[d], d)
    BY <1>0, <1>2, <1>11, Received
  <2> QED
    BY <1>1, <1>11, <2>2, <2>3 DEF Receive
<1>12. ASSUME NEW c \in Channels, Lose(c)
       PROVE  MarkedInv'
  <2>1. /\ UNCHANGED <<up, edited>>
        /\ \A d \in Channels : down'[d] = IF d = c THEN <<>> ELSE down[d]
    BY <1>12 DEF TypeOK, Lose, clientVars
  <2> QED
    BY <1>0, <1>1, <1>2, <2>1
<1>13. ASSUME NEW c \in Channels, HandleHandshake(c)
       PROVE  MarkedInv'
  <2>1. /\ HandshakeAck \in Messages /\ HandshakeAck.type # "update"
        /\ Snapshot(snapshot) \in Messages /\ Snapshot(snapshot).type # "update"
    BY MessageKinds, Built DEF TypeOK
  <2>2. /\ TakeIn(c, Handshake)
        /\ UNCHANGED edited
        /\ SendTo({c}, HandshakeAck) \/ SendTo({c}, Snapshot(snapshot))
    BY <1>13 DEF HandleHandshake, clientVars
  <2> QED
    BY <1>1, <1>5, <1>6, <2>1, <2>2
<1>14. ASSUME NEW c \in Channels, HandleSnapshot(c)
       PROVE  MarkedInv'
  BY <1>0, <1>1, <1>6, <1>14 DEF HandleSnapshot, clientVars
<1>15. ASSUME NEW c \in Channels, HandleUpdate(c)
       PROVE  MarkedInv'
  <2> DEFINE m == Head(up[c])
  <2>1. /\ TakeIn(c, m) /\ m.type = "update"
        /\ SendTo(ClientsExcept(c), m) /\ c \notin ClientsExcept(c)
        /\ UNCHANGED edited
    BY <1>15 DEF HandleUpdate, ClientsExcept, clientVars
  <2>2. m \in Messages /\ m.obj \in edited[c]
    BY <2>1, TakenIn, Taken DEF MarkedInv
  <2> HIDE DEF m
  <2>3. ASSUME NEW d \in Channels, d # c
        PROVE  Heard(Append(down[d], m), d)
    <3>1. down[d] \in Seq(Messages) /\ Heard(down[d], d)
      BY <1>0 DEF TypeOK
    <3> QED
      BY <2>2, <2>3, <3>1, Appended DEF Heard
  <2>4. \A d \in Channels : Heard(down'[d], d)
    BY <1>0, <2>1, <2>2, <2>3, SentTo
  <2> QED
    BY <1>1, <1>6, <2>1, <2>4
<1>16. ASSUME NEW c \in Channels, HandleSessionClose(c)
       PROVE  MarkedInv'
  <2>1. \A d \in Channels : Heard(down'[d], d)
    BY <1>5, <1>16, MessageKinds, Built DEF HandleSessionClose
  <2>2. \A d \in Channels : Sent(up'[d], d)
    BY <1>0, <1>2, <1>16 DEF HandleSessionClose, HasRead
  <2> QED
    BY <1>1, <1>16, <2>1, <2>2 DEF HandleSessionClose, clientVars
<1>17. CASE \E c \in Channels : OnClose(c)
  <2>1. UNCHANGED <<down, edited>>
    BY <1>17 DEF OnClose, clientVars
  <2>2. \A d \in Channels : up'[d] \in {<<>>, up[d]}
    BY <1>17 DEF TypeOK, OnClose
  <2> QED
    BY <1>0, <1>1, <1>2, <2>1, <2>2
<1>18. CASE LoopEnds
  <2>1. UNCHANGED <<down, edited>>
    BY <1>18 DEF LoopEnds, clientVars
  <2>2. \A d \in Channels : up'[d] \in {<<>>, up[d]}
    BY <1>18 DEF TypeOK, LoopEnds
  <2> QED
    BY <1>0, <1>1, <1>2, <2>1, <2>2
<1>19. CASE Reset \/ Activate \/ StartServer
  BY <1>7, <1>19 DEF Reset, Activate, StartServer, clientVars
<1>20. CASE UNCHANGED vars
  BY <1>7, <1>20 DEF vars, clientVars
<1> QED
  BY <1>8, <1>9, <1>10, <1>11, <1>12, <1>13, <1>14, <1>15, <1>16, <1>17, <1>18,
     <1>19, <1>20
  DEF Next, Handle

-----------------------------------------------------------------------------
(* What the handlers find, where guests connect after the upload.          *)

SyncHolds == UploadFirst /\ BaseInv /\ SyncInv

\* The host's upload decides an object the host has not edited since.
LEMMA Uploaded ==
  ASSUME SyncHolds, NEW c \in Hosts \cap clients, loop = "running", ~joinable,
         up[c] # <<>>, NEW o \in Objects, o \notin edited[c]
  PROVE  view[c][o] = up[c][1].scene[o]
<1>1. /\ c \in Channels /\ Here(c)
      /\ up[c] \in Seq(Messages) /\ 1 \in DOMAIN up[c] /\ DOMAIN up[c] \subseteq Nat
  BY Taken, CollabAssumption DEF SyncHolds, BaseInv, TypeOK, TableInv
<1>2. /\ up[c][1].type = "snapshot"
      /\ Leaves(up[c], o, snapshot[o], view[c][o])
  BY DEF SyncHolds, SyncInv, UploadInv
<1>3. ASSUME NEW i \in DOMAIN up[c], i # 1
      PROVE  ~Decides(up[c][i], o)
  BY <1>1, <1>3, Built DEF SyncHolds, BaseInv, MarkedInv, SyncInv, UpInv, Decides
<1>4. Decides(up[c][1], o) /\ Given(up[c][1], o) = up[c][1].scene[o]
  BY <1>2 DEF Decides, Given
<1> QED
  BY <1>1, <1>2, <1>3, <1>4 DEF Leaves

\* Whose message it is and in which life of the loop, for each handler.
LEMMA Served ==
  ASSUME SyncHolds, NEW c \in Channels
  PROVE  /\ HandleHandshake(c) =>
              /\ Fresh(c) /\ Here(c)
              /\ c \in Hosts => loop = "running" /\ ~joinable
         /\ HandleSnapshot(c) =>
              /\ loop = "running" /\ ~joinable
              /\ c \in Hosts /\ clients = {c}
              /\ \A d \in Channels : Here(d) => d = c
         /\ HandleUpdate(c) =>
              loop = "running" /\ joinable /\ c \in clients
         /\ HandleSessionClose(c) =>
              loop = "running" /\ c \in Hosts /\ c \in clients
<1> USE DEF SyncHolds, BaseInv, SyncInv
<1>1. ASSUME NEW m, TakeIn(c, m) \/ HasRead(c, m)
      PROVE  /\ loop \in {"running", "stopping"} /\ Here(c) /\ 1 \in DOMAIN up[c]
             /\ m = up[c][1] /\ m \in Messages
             /\ (loop = "running" /\ c \in clients) \/ Fresh(c)
  BY <1>1, Taken DEF TypeOK, TakeIn, HasRead, LoopTurns, Here, UpInv
<1>2. ASSUME loop = "running", c \in clients, Here(c), 1 \in DOMAIN up[c]
      PROVE  \/ up[c][1].type = "update"
             \/ c \in Hosts /\ up[c][1] = SessionClosed
             \/ c \in Hosts /\ up[c][1].type = "snapshot" /\ ~joinable
  BY <1>2 DEF UpInv
<1>3. Fresh(c) => up[c][1] = Handshake
  BY DEF Fresh
<1>4. ASSUME HandleHandshake(c)
      PROVE  /\ Fresh(c) /\ Here(c)
             /\ c \in Hosts => loop = "running" /\ ~joinable
  <2>1. Fresh(c) /\ Here(c) /\ loop \in {"running", "stopping"}
    BY <1>1, <1>2, <1>4, Built DEF HandleHandshake
  <2> QED
    BY <2>1 DEF UpInv, PresenceInv, Fresh
<1>5. ASSUME HandleSnapshot(c)
      PROVE  /\ loop = "running" /\ ~joinable
             /\ c \in Hosts /\ clients = {c}
             /\ \A d \in Channels : Here(d) => d = c
  <2>1. loop = "running" /\ c \in clients /\ ~joinable /\ c \in Hosts /\ Here(c)
    BY <1>1, <1>2, <1>3, <1>5, Built DEF HandleSnapshot
  <2>2. \A d \in Channels : Here(d) => d = c
    BY <2>1 DEF PresenceInv
  <2> QED
    BY <2>1, <2>2 DEF TypeOK, TableInv
<1>6. ASSUME HandleUpdate(c)
      PROVE  loop = "running" /\ joinable /\ c \in clients
  <2>1. /\ loop = "running" /\ c \in clients /\ Here(c)
        /\ up[c] # <<>> /\ up[c][1].type = "update"
    BY <1>1, <1>2, <1>3, <1>6, Built DEF HandleUpdate
  <2> QED
    BY <2>1 DEF PresenceInv, UploadInv
<1>7. ASSUME HandleSessionClose(c)
      PROVE  loop = "running" /\ c \in Hosts /\ c \in clients
  BY <1>1, <1>2, <1>3, <1>7, Built DEF HandleSessionClose
<1> QED
  BY <1>4, <1>5, <1>6, <1>7

\* The bus thread reuses a session whose loop takes no more messages.
LEMMA LifeStep ==
  ASSUME SyncHolds, [Next]_vars
  PROVE  LifeInv'
<1> USE DEF SyncHolds, BaseInv, SyncInv, LifeInv, serverVars, clientVars
<1>1. CASE UNCHANGED vars
  BY <1>1 DEF vars, Here
<1>2. ASSUME NEW c \in Channels, Connect(c) \/ Edit(c) \/ EndSession(c) \/ Receive(c) \/ Lose(c)
      PROVE  LifeInv'
  BY <1>2 DEF TypeOK, Connect, Edit, EndSession, Receive, Lose, Here
<1>3. ASSUME NEW c \in Channels, HandleHandshake(c) \/ HandleSnapshot(c) \/ HandleUpdate(c)
      PROVE  LifeInv'
  BY <1>3 DEF HandleHandshake, HandleSnapshot, HandleUpdate, Here
<1>4. ASSUME NEW c \in Channels, HandleSessionClose(c)
      PROVE  LifeInv'
  BY <1>4, Served DEF HandleSessionClose
<1>5. ASSUME NEW c \in Channels, OnClose(c)
      PROVE  LifeInv'
  BY <1>5 DEF TypeOK, OnClose, Here
<1>6. CASE LoopEnds
  BY <1>6 DEF TypeOK, LoopEnds, Here
<1>7. CASE Reset \/ Activate \/ StartServer
  BY <1>7 DEF TypeOK, Reset, Activate, StartServer, Here
<1> QED
  BY <1>1, <1>2, <1>3, <1>4, <1>5, <1>6, <1>7 DEF Next, Handle

\* Hosts leave with their loop; guests are there only after an upload.
LEMMA PresenceStep ==
  ASSUME SyncHolds, [Next]_vars
  PROVE  PresenceInv'
<1> USE CollabAssumption DEF SyncHolds, BaseInv, SyncInv, PresenceInv, serverVars, clientVars
<1>1. CASE UNCHANGED <<conn, loop, joinable>>
  BY <1>1 DEF Here
<1>2. ASSUME NEW c \in Channels, Connect(c)
      PROVE  PresenceInv'
  BY <1>2 DEF TypeOK, Connect, Here, HostPresent
<1>3. ASSUME NEW c \in Channels, Lose(c) \/ OnClose(c)
      PROVE  PresenceInv'
  BY <1>3 DEF TypeOK, Lose, OnClose, Here
<1>4. ASSUME NEW c \in Channels, HandleSnapshot(c)
      PROVE  PresenceInv'
  BY <1>4 DEF HandleSnapshot, Here
<1>5. ASSUME NEW c \in Channels, HandleSessionClose(c)
      PROVE  PresenceInv'
  <2>1. \A d \in Channels : (Here(d))' => Here(d) /\ d \notin clients
    BY <1>5 DEF TypeOK, HandleSessionClose, Here
  <2>2. loop' = "stopping" /\ c \in Hosts /\ c \in clients /\ Here(c)
    BY <1>5, Served DEF HandleSessionClose, TableInv
  <2> QED
    BY <2>1, <2>2
<1>6. CASE LoopEnds
  BY <1>6 DEF TypeOK, LoopEnds, Here
<1>7. CASE Reset \/ StartServer
  BY <1>7 DEF TypeOK, Reset, StartServer, Here, LifeInv
<1> QED
  BY <1>1, <1>2, <1>3, <1>4, <1>5, <1>6, <1>7
  DEF Next, Handle, Edit, EndSession, Receive, HandleHandshake, HandleUpdate,
      Activate, vars

\* A loop that was asked to stop finds at most handshakes.
LEMMA UpStep ==
  ASSUME SyncHolds, TypeOK', [Next]_vars
  PROVE  UpInv'
<1> USE CollabAssumption DEF SyncHolds, BaseInv, SyncInv, UpInv
<1> DEFINE Fine(c) == Here(c) =>
             /\ loop = "stopping" => Fresh(c) \/ up[c] = <<>>
             /\ loop = "running" /\ c \notin clients =>
                  Fresh(c) /\ (c \in Hosts => ~joinable)
             /\ loop = "running" /\ c \in clients =>
                  \A i \in DOMAIN up[c] :
                    \/ up[c][i].type = "update"
                    \/ c \in Hosts /\ up[c][i] = SessionClosed
                    \/ c \in Hosts /\ up[c][i].type = "snapshot" /\ i = 1 /\ ~joinable
<1>0. \A c \in Channels : Fine(c)
  OBVIOUS
<1>1. ASSUME \A c \in Channels : Fine(c)'
      PROVE  UpInv'
  BY <1>1
<1>2. ASSUME NEW d \in Channels, UNCHANGED <<loop, joinable>>,
             conn'[d] = conn[d], up'[d] = up[d], phase'[d] = phase[d], edited'[d] = edited[d],
             d \in clients' <=> d \in clients, down'[d] = down[d] \/ d \in clients
      PROVE  Fine(d)'
  BY <1>0, <1>2 DEF Here, Fresh
<1>3. ASSUME NEW c \in Channels, NEW m \in Messages, Send(c, m), ~Fresh(c), UNCHANGED conn,
             loop = "running" /\ conn[c] = "open" =>
               \/ m.type = "update"
               \/ c \in Hosts /\ m = SessionClosed
               \/ c \in Hosts /\ m.type = "snapshot" /\ up[c] = <<>> /\ ~joinable,
             UNCHANGED <<loop, joinable, clients>>
      PROVE  Fine(c)'
  <2>1. CASE loop = "running" /\ conn[c] = "open"
    <3>1. up[c] \in Seq(Messages) /\ up'[c] = Append(up[c], m)
      BY <1>3, <2>1, SentUp DEF TypeOK
    <3>2. c \in clients /\ Here(c)
      BY <1>0, <1>3, <2>1 DEF Here
    <3>3. up[c] = <<>> => Len(up[c]) = 0
      OBVIOUS
    <3> QED
      BY <1>0, <1>3, <2>1, <3>1, <3>2, <3>3, Appended DEF Here
  <2>2. CASE ~(loop = "running" /\ conn[c] = "open")
    <3>1. up'[c] = up[c]
      BY <1>3, <2>2, SentUp
    <3> QED
      BY <1>0, <1>3, <2>2, <3>1 DEF Here
  <2> QED
    BY <2>1, <2>2
<1> HIDE DEF Fine, UpInv
<1>4. CASE UNCHANGED vars
  BY <1>0, <1>1, <1>2, <1>4 DEF vars, serverVars, clientVars
<1>5. ASSUME NEW c \in Channels, Connect(c)
      PROVE  UpInv'
  <2>1. Fine(c)'
    BY <1>5 DEF TypeOK, TableInv, IdleInv, Connect, Fine, Fresh, Here, serverVars
  <2>2. ASSUME NEW d \in Channels, d # c
        PROVE  Fine(d)'
    BY <1>2, <1>5, <2>2 DEF TypeOK, Connect, serverVars
  <2> QED
    BY <1>1, <2>1, <2>2
<1>6. ASSUME NEW c \in Channels, Edit(c)
      PROVE  UpInv'
  <2>1. PICK o \in Objects, v \in Values \cup {None} : Send(c, Update(o, v))
    BY <1>6 DEF Edit
  <2>2. Fine(c)'
    BY <1>3, <1>6, <2>1, MessageKinds, Built DEF Edit, Fresh, serverVars
  <2>3. ASSUME NEW d \in Channels, d # c
        PROVE  Fine(d)'
    BY <1>2, <1>6, <2>1, <2>3, SentUp, MessageKinds DEF TypeOK, Edit, serverVars
  <2> QED
    BY <1>1, <2>2, <2>3
<1>7. ASSUME NEW c \in Channels, EndSession(c)
      PROVE  UpInv'
  <2>1. Fine(c)'
    BY <1>3, <1>7, MessageKinds DEF EndSession, Fresh, serverVars
  <2>2. ASSUME NEW d \in Channels, d # c
        PROVE  Fine(d)'
    BY <1>2, <1>7, <2>2, SentUp, MessageKinds DEF TypeOK, EndSession, serverVars
  <2> QED
    BY <1>1, <2>1, <2>2
<1>8. ASSUME NEW c \in Channels, Receive(c)
      PROVE  UpInv'
  <2>1. ~Fresh(c)
    BY <1>8 DEF Receive, Fresh
  <2> UNCHANGED <<conn, loop, joinable, clients, edited>>
    BY <1>8 DEF Receive, serverVars
  <2>2. ASSUME up'[c] = up[c]
        PROVE  Fine(c)'
    BY <1>0, <2>1, <2>2 DEF Fine, Here
  <2>3. ASSUME Send(c, Snapshot(view[c])), down[c][1].type = "handshake_ack"
        PROVE  Fine(c)'
    <3>1. Snapshot(view[c]) \in Messages /\ Snapshot(view[c]).type = "snapshot"
      BY MessageKinds, Built DEF TypeOK
    <3>2. ASSUME loop = "running", conn[c] = "open"
          PROVE  c \in Hosts /\ up[c] = <<>> /\ ~joinable
      <4>1. c \in Hosts /\ 1 \in DOMAIN down[c]
        BY <1>8, <2>3, Received DEF DownInv
      <4>2. c \in clients
        BY <1>0, <2>1, <3>2 DEF Fine, Here
      <4>3. down[c] # <<>> /\ ~(down[c] = <<>>)
        BY <1>8, Received
      <4> QED
        BY <2>3, <3>2, <4>1, <4>2, <4>3 DEF UploadInv
    <3> QED
      BY <1>3, <2>1, <2>3, <3>1, <3>2
  <2>4. Fine(c)'
    <3>1. \/ up' = up
          \/ Send(c, Snapshot(view[c])) /\ Head(down[c]).type = "handshake_ack"
      BY <1>8 DEF Receive
    <3> QED
      BY <1>8, <2>2, <2>3, <3>1, Received
  <2>5. ASSUME NEW d \in Channels, d # c
        PROVE  Fine(d)'
    <3>1. up'[d] = up[d] /\ down'[d] = down[d]
      BY <1>8, <2>5, Received
    <3>2. phase'[d] = phase[d]
      BY <1>8, <2>5 DEF TypeOK, Receive
    <3> QED
      BY <1>2, <3>1, <3>2
  <2> QED
    BY <1>1, <2>4, <2>5
<1>9. ASSUME NEW c \in Channels, Lose(c)
      PROVE  UpInv'
  <2>1. Fine(c)'
    BY <1>0, <1>9 DEF TypeOK, Lose, Fine, Fresh, Here, serverVars, clientVars
  <2>2. ASSUME NEW d \in Channels, d # c
        PROVE  Fine(d)'
    BY <1>2, <1>9, <2>2 DEF TypeOK, Lose, serverVars, clientVars
  <2> QED
    BY <1>1, <2>1, <2>2
<1>10. ASSUME NEW c \in Channels, HandleHandshake(c)
       PROVE  UpInv'
  <2>1. /\ up'[c] = <<>> /\ c \in clients'
        /\ UNCHANGED <<conn, loop, joinable, phase, edited>>
    <3>1. up[c] = <<Handshake>> /\ up'[c] = Tail(up[c])
      BY <1>10, TakenIn, Served DEF Fresh, HandleHandshake
    <3>2. Tail(<<Handshake>>) = <<>>
      OBVIOUS
    <3> QED
      BY <1>10, <3>1, <3>2 DEF HandleHandshake, clientVars
  <2>2. Fine(c)'
    BY <2>1, EmptyQueue DEF Fine
  <2>3. ASSUME NEW d \in Channels, d # c
        PROVE  Fine(d)'
    <3>1. up'[d] = up[d] /\ down'[d] = down[d]
      BY <1>10, <2>3, TakenIn DEF TypeOK, HandleHandshake, SendTo
    <3> QED
      BY <1>2, <1>10, <2>1, <2>3, <3>1 DEF HandleHandshake
  <2> QED
    BY <1>1, <2>2, <2>3
<1>11. ASSUME NEW c \in Channels, HandleSnapshot(c)
       PROVE  UpInv'
  <2>1. /\ up[c] \in Seq(Messages) /\ up[c] # <<>> /\ up'[c] = Tail(up[c])
        /\ clients = {c} /\ loop = "running" /\ \A d \in Channels : Here(d) => d = c
        /\ Here(c) /\ c \in clients
        /\ UNCHANGED <<conn, clients, loop>>
    BY <1>11, TakenIn, Served DEF HandleSnapshot
  <2>2. \A i \in DOMAIN up'[c] : up'[c][i].type = "update" \/ (c \in Hosts /\ up'[c][i] = SessionClosed)
    <3> TAKE i \in DOMAIN up'[c]
    <3>1. i + 1 \in DOMAIN up[c] /\ up'[c][i] = up[c][i + 1] /\ i + 1 # 1
      BY <2>1, Taken
    <3>2. \/ up[c][i + 1].type = "update"
          \/ c \in Hosts /\ up[c][i + 1] = SessionClosed
          \/ i + 1 = 1
      BY <1>0, <2>1, <3>1 DEF Fine
    <3> QED
      BY <3>1, <3>2
  <2>3. \A d \in Channels : Fine(d)'
    BY <2>1, <2>2 DEF Fine, Here
  <2> QED
    BY <1>1, <2>3
<1>12. ASSUME NEW c \in Channels, HandleUpdate(c)
       PROVE  UpInv'
  <2>1. /\ up[c] \in Seq(Messages) /\ up[c] # <<>> /\ up'[c] = Tail(up[c])
        /\ c \in clients /\ loop = "running" /\ joinable /\ Here(c)
        /\ UNCHANGED <<conn, clients, loop, joinable, phase, edited>>
    BY <1>12, TakenIn, Served DEF HandleUpdate, clientVars
  <2>2. \A i \in DOMAIN up'[c] : up'[c][i].type = "update" \/ (c \in Hosts /\ up'[c][i] = SessionClosed)
    <3> TAKE i \in DOMAIN up'[c]
    <3>1. i + 1 \in DOMAIN up[c] /\ up'[c][i] = up[c][i + 1]
      BY <2>1, Taken
    <3>2. \/ up[c][i + 1].type = "update"
          \/ c \in Hosts /\ up[c][i + 1] = SessionClosed
      BY <1>0, <2>1, <3>1 DEF Fine
    <3> QED
      BY <3>1, <3>2
  <2>3. Fine(c)'
    BY <2>1, <2>2 DEF Fine
  <2>4. ASSUME NEW d \in Channels, d # c
        PROVE  Fine(d)'
    <3>1. up'[d] = up[d] /\ (down'[d] = down[d] \/ d \in clients)
      BY <1>12, <2>4, TakenIn DEF TypeOK, HandleUpdate, SendTo, ClientsExcept
    <3> QED
      BY <1>2, <2>1, <2>4, <3>1
  <2> QED
    BY <1>1, <2>3, <2>4
<1>13. ASSUME NEW c \in Channels, HandleSessionClose(c)
       PROVE  UpInv'
  <2> SUFFICES ASSUME NEW d \in Channels
               PROVE  Fine(d)'
    BY <1>1
  <2>1. /\ loop' = "stopping" /\ c \in clients /\ loop = "running"
        /\ conn'[d] = IF d \in clients THEN "closed" ELSE conn[d]
        /\ clients' = {} /\ UNCHANGED <<phase, edited>>
    BY <1>13, Served DEF TypeOK, HandleSessionClose, clientVars
  <2>2. d \notin clients => up'[d] = up[d] /\ down'[d] = down[d]
    BY <1>13, <2>1 DEF TypeOK, HandleSessionClose, SendTo, ClientsExcept
  <2> QED
    BY <1>0, <2>1, <2>2 DEF Fine, Here, Fresh
<1>14. ASSUME NEW c \in Channels, OnClose(c)
       PROVE  UpInv'
  <2>1. Fine(c)'
    BY <1>14 DEF TypeOK, OnClose, Fine, Here
  <2>2. ASSUME NEW d \in Channels, d # c
        PROVE  Fine(d)'
    BY <1>2, <1>14, <2>2 DEF TypeOK, OnClose, clientVars
  <2> QED
    BY <1>1, <2>1, <2>2
<1>15. CASE LoopEnds
  BY <1>15 DEF TypeOK, LoopEnds, UpInv, Here
<1>16. CASE Reset \/ Activate \/ StartServer
  <2> SUFFICES ASSUME NEW d \in Channels
               PROVE  Fine(d)'
    BY <1>1
  <2>1. UNCHANGED <<conn, up, down, phase, edited>> /\ clients' \in {clients, {}}
    BY <1>16 DEF Reset, Activate, StartServer, clientVars
  <2>2. loop # "running" /\ (loop' = loop \/ loop = "ended")
    BY <1>16 DEF LifeInv, Reset, Activate, StartServer
  <2> QED
    BY <1>0, <2>1, <2>2 DEF TypeOK, LifeInv, Fine, Fresh, Here
<1> QED
  BY <1>4, <1>5, <1>6, <1>7, <1>8, <1>9, <1>10, <1>11, <1>12, <1>13, <1>14, <1>15, <1>16
  DEF Next, Handle

\* A client is greeted once, before anything else.
LEMMA DownStep ==
  ASSUME SyncHolds, TypeOK', [Next]_vars
  PROVE  DownInv'
<1> USE CollabAssumption DEF SyncHolds, BaseInv, SyncInv
<1> DEFINE Greets(c) == \A i \in DOMAIN down[c] :
             /\ down[c][i].type = "handshake_ack" => c \in Hosts
             /\ down[c][i].type = "snapshot" =>
                  c \notin Hosts /\ i = 1 /\ phase[c] = "hello" /\ edited[c] = {}
<1>0. \A c \in Channels : Greets(c)
  BY DEF DownInv
<1>1. ASSUME \A c \in Channels : Greets(c)'
      PROVE  DownInv'
  BY <1>1 DEF DownInv
<1>2. ASSUME NEW d \in Channels,
             down'[d] = down[d], phase'[d] = phase[d], edited'[d] = edited[d]
      PROVE  Greets(d)'
  BY <1>0, <1>2
<1>3. ASSUME NEW R, NEW m \in Messages, SendTo(R, m), UNCHANGED <<phase, edited>>,
             m.type \notin {"handshake_ack", "snapshot"}, NEW d \in Channels
      PROVE  Greets(d)'
  <2>1. CASE down'[d] = down[d]
    BY <1>2, <1>3, <2>1
  <2>2. CASE down'[d] = Append(down[d], m)
    BY <1>0, <1>3, <2>2, Appended DEF TypeOK
  <2> QED
    BY <1>3, <2>1, <2>2, SentTo
<1> HIDE DEF Greets
<1>4. CASE UNCHANGED <<down, phase, edited>>
  BY <1>1, <1>2, <1>4
<1>5. ASSUME NEW c \in Channels, Connect(c)
      PROVE  DownInv'
  <2>1. Greets(c)'
    BY <1>5, EmptyQueue DEF IdleInv, Connect, Greets
  <2>2. ASSUME NEW d \in Channels, d # c
        PROVE  Greets(d)'
    BY <1>2, <1>5, <2>2 DEF TypeOK, Connect
  <2> QED
    BY <1>1, <2>1, <2>2
<1>6. ASSUME NEW c \in Channels, Edit(c) \/ EndSession(c)
      PROVE  DownInv'
  <2>1. UNCHANGED down /\ phase[c] = "joined"
    BY <1>6 DEF Edit, EndSession
  <2>2. Greets(c)'
    BY <1>0, <2>1 DEF Greets
  <2>3. ASSUME NEW d \in Channels, d # c
        PROVE  phase'[d] = phase[d] /\ edited'[d] = edited[d]
    BY <1>6, <2>3 DEF TypeOK, Edit, EndSession
  <2> QED
    BY <1>1, <1>2, <2>1, <2>2, <2>3
<1>7. ASSUME NEW c \in Channels, Receive(c)
      PROVE  DownInv'
  <2>1. /\ down[c] \in Seq(Messages) /\ down[c] # <<>> /\ down'[c] = Tail(down[c])
        /\ \A d \in Channels \ {c} : down'[d] = down[d]
    BY <1>7, Received
  <2>2. Greets(c)'
    <3> SUFFICES ASSUME NEW i \in DOMAIN down'[c]
                 PROVE  /\ down'[c][i].type = "handshake_ack" => c \in Hosts
                        /\ down'[c][i].type # "snapshot"
      BY DEF Greets
    <3>1. i + 1 \in DOMAIN down[c] /\ down'[c][i] = down[c][i + 1] /\ i + 1 # 1
      BY <2>1, Taken
    <3> QED
      BY <1>0, <3>1 DEF Greets
  <2>3. ASSUME NEW d \in Channels, d # c
        PROVE  phase'[d] = phase[d] /\ edited'[d] = edited[d]
    BY <1>7, <2>3 DEF TypeOK, Receive
  <2> QED
    BY <1>1, <1>2, <2>1, <2>2, <2>3
<1>8. ASSUME NEW c \in Channels, Lose(c)
      PROVE  DownInv'
  <2>1. UNCHANGED <<phase, edited>> /\ down'[c] = <<>>
    BY <1>8 DEF TypeOK, Lose, clientVars
  <2>2. Greets(c)'
    BY <2>1, EmptyQueue DEF Greets
  <2>3. ASSUME NEW d \in Channels, d # c
        PROVE  down'[d] = down[d]
    BY <1>8, <2>3 DEF TypeOK, Lose
  <2> QED
    BY <1>1, <1>2, <2>1, <2>2, <2>3
<1>9. ASSUME NEW c \in Channels, HandleHandshake(c)
      PROVE  DownInv'
  <2>1. /\ UNCHANGED <<phase, edited>>
        /\ down[c] = <<>> /\ phase[c] = "hello" /\ edited[c] = {}
    BY <1>9, Served DEF HandleHandshake, Fresh, clientVars
  <2> DEFINE m == IF c \in Hosts THEN HandshakeAck ELSE Snapshot(snapshot)
  <2>2. /\ m \in Messages
        /\ m.type = IF c \in Hosts THEN "handshake_ack" ELSE "snapshot"
    BY MessageKinds, Built DEF TypeOK
  <2>3. SendTo({c}, m)
    BY <1>9 DEF HandleHandshake
  <2> HIDE DEF m
  <2>4. \A d \in Channels : down'[d] = down[d] \/ (d = c /\ down'[d] = Append(down[d], m))
    BY <2>3 DEF TypeOK, SendTo
  <2>5. ASSUME down'[c] = Append(<<>>, m)
        PROVE  Greets(c)'
    BY <2>1, <2>2, <2>5, EmptyQueue, Appended DEF Greets
  <2> QED
    BY <1>1, <1>2, <2>1, <2>4, <2>5
<1>10. ASSUME NEW c \in Channels, HandleUpdate(c)
       PROVE  DownInv'
  <2>1. /\ SendTo(ClientsExcept(c), Head(up[c])) /\ Head(up[c]).type = "update"
        /\ TakeIn(c, Head(up[c]))
        /\ UNCHANGED <<phase, edited>>
    BY <1>10 DEF HandleUpdate, clientVars
  <2>2. Head(up[c]) \in Messages
    BY <2>1, TakenIn
  <2> QED
    BY <1>1, <1>3, <2>1, <2>2
<1>11. ASSUME NEW c \in Channels, HandleSessionClose(c)
       PROVE  DownInv'
  <2>1. SendTo(ClientsExcept(c), SessionClosed) /\ UNCHANGED <<phase, edited>>
    BY <1>11 DEF HandleSessionClose, clientVars
  <2> QED
    BY <1>1, <1>3, <2>1, MessageKinds, Built
<1> QED
  BY <1>4, <1>5, <1>6, <1>7, <1>8, <1>9, <1>10, <1>11
  DEF Next, Handle, HandleSnapshot, OnClose, LoopEnds, Reset, Activate, StartServer,
      vars, clientVars

\* The upload is the first message of a greeted host.
LEMMA UploadStep ==
  ASSUME SyncHolds, TypeOK', [Next]_vars
  PROVE  UploadInv'
<1> USE CollabAssumption DEF SyncHolds, BaseInv, SyncInv
<1> DEFINE Greeted(h) == /\ up[h] = <<>>
                         /\ down[h] \in {<<>>, <<HandshakeAck>>}
                         /\ phase[h] = "hello"
                         /\ edited[h] = {}
           Uploading(h) == /\ up[h] # <<>>
                           /\ up[h][1].type = "snapshot"
                           /\ down[h] = <<>>
                           /\ \A o \in Objects :
                                Leaves(up[h], o, snapshot[o], view[h][o])
           Known(h) == /\ loop = "running" /\ ~joinable => Greeted(h) \/ Uploading(h)
                       /\ loop = "running" /\ joinable =>
                            \A i \in DOMAIN down[h] : down[h][i].type # "handshake_ack"
<1>0. \A h \in Hosts \cap clients : Known(h)
  BY DEF UploadInv
<1>1. ASSUME \A h \in Hosts \cap clients' : Known(h)'
      PROVE  UploadInv'
  BY <1>1 DEF UploadInv
<1>2. ASSUME NEW h \in Hosts \cap clients, UNCHANGED <<loop, joinable, snapshot>>,
             up'[h] = up[h], down'[h] = down[h], phase'[h] = phase[h],
             edited'[h] = edited[h], view'[h] = view[h]
      PROVE  Known(h)'
  <2>1. Greeted(h) => Greeted(h)'
    BY <1>2
  <2>2. Uploading(h) => Uploading(h)'
    <3> SUFFICES ASSUME Uploading(h), NEW o \in Objects
                 PROVE  Leaves(up[h], o, snapshot[o], view[h][o])'
      BY <1>2
    <3>1. Leaves(up[h], o, snapshot[o], view[h][o])
      OBVIOUS
    <3> QED
      BY <1>2, <3>1 DEF Leaves
  <2> HIDE DEF Greeted, Uploading
  <2> QED
    BY <1>0, <1>2, <2>1, <2>2
<1>3. ASSUME NEW h \in Hosts \cap clients, Uploading(h), NEW m \in Messages,
             up'[h] = Append(up[h], m), down'[h] = down[h], UNCHANGED snapshot,
             \A o \in Objects : IF Decides(m, o) THEN view'[h][o] = Given(m, o)
                                ELSE view'[h][o] = view[h][o]
      PROVE  Uploading(h)'
  <2>1. up[h] \in Seq(Messages) /\ up[h] # <<>>
    BY <1>3 DEF TypeOK
  <2>2. up'[h] # <<>> /\ up'[h][1] = up[h][1]
    BY <1>3, <2>1, Appended, Taken
  <2>3. ASSUME NEW o \in Objects
        PROVE  Leaves(up'[h], o, snapshot'[o], view'[h][o])
    BY <1>3, <2>1, LeavesDecided, LeavesOther
  <2> QED
    BY <1>3, <2>2, <2>3
<1> HIDE DEF Known
<1>4. CASE UNCHANGED vars
  BY <1>1, <1>2, <1>4 DEF vars, serverVars, clientVars
<1>5. ASSUME NEW c \in Channels, Connect(c)
      PROVE  UploadInv'
  <2>1. c \notin clients
    BY <1>5 DEF TableInv, Here, Connect
  <2>2. ASSUME NEW d \in Channels, d # c
        PROVE  up'[d] = up[d] /\ phase'[d] = phase[d] /\ view'[d] = view[d]
    BY <1>5, <2>2 DEF TypeOK, Connect
  <2> QED
    BY <1>1, <1>2, <1>5, <2>1, <2>2 DEF Connect, serverVars
<1>6. ASSUME NEW c \in Channels, Edit(c)
      PROVE  UploadInv'
  <2>1. PICK o \in Objects, v \in Values \cup {None} :
          /\ view' = [view EXCEPT ![c] = Effect(@, Update(o, v))]
          /\ Send(c, Update(o, v))
    BY <1>6 DEF Edit
  <2> DEFINE m == Update(o, v)
  <2>2. /\ m \in Messages /\ m.type = "update" /\ m.obj = o /\ m.val = v
    BY MessageKinds, Built
  <2>3. /\ UNCHANGED <<conn, down, loop, joinable, snapshot, clients>>
        /\ phase[c] = "joined" /\ conn[c] = "open"
    BY <1>6 DEF Edit, serverVars
  <2>4. \A p \in Objects : view'[c][p] = IF p = o THEN v ELSE view[c][p]
    BY <2>1, <2>2, SceneType DEF TypeOK
  <2>5. /\ up'[c] = IF loop = "running" /\ conn[c] = "open"
                    THEN Append(up[c], m) ELSE up[c]
        /\ \A d \in Channels \ {c} : up'[d] = up[d]
    BY <2>1, <2>2, SentUp
  <2> HIDE DEF m
  <2>6. ASSUME c \in Hosts, c \in clients
        PROVE  Known(c)'
    <3>1. CASE loop = "running" /\ ~joinable
      <4>1. Uploading(c)
        BY <1>0, <2>3, <2>6, <3>1 DEF Known
      <4>2. Uploading(c)'
        BY <1>3, <2>2, <2>3, <2>4, <2>5, <2>6, <3>1, <4>1 DEF Decides, Given
      <4> QED
        BY <2>3, <3>1, <4>2 DEF Known
    <3>2. CASE ~(loop = "running" /\ ~joinable)
      BY <1>0, <2>3, <2>6, <3>2 DEF Known
    <3> QED
      BY <3>1, <3>2
  <2>7. ASSUME NEW d \in Channels, d # c
        PROVE  /\ up'[d] = up[d] /\ phase'[d] = phase[d] /\ view'[d] = view[d]
               /\ edited'[d] = edited[d]
    <3>1. up'[d] = up[d]
      BY <2>5, <2>7
    <3>2. phase'[d] = phase[d] /\ edited'[d] = edited[d]
      BY <1>6, <2>7 DEF TypeOK, Edit
    <3>3. view'[d] = view[d]
      BY <2>1, <2>7 DEF TypeOK
    <3> QED
      BY <3>1, <3>2, <3>3
  <2> QED
    BY <1>1, <1>2, <2>3, <2>6, <2>7
<1>7. ASSUME NEW c \in Channels, EndSession(c)
      PROVE  UploadInv'
  <2>1. /\ UNCHANGED <<conn, down, loop, joinable, snapshot, clients, view, edited>>
        /\ phase[c] = "joined" /\ conn[c] = "open"
        /\ Send(c, SessionClosed)
    BY <1>7 DEF EndSession, serverVars
  <2>2. SessionClosed \in Messages /\ \A o \in Objects : ~Decides(SessionClosed, o)
    BY MessageKinds, Built DEF Decides
  <2>3. up'[c] = IF loop = "running" /\ conn[c] = "open"
                 THEN Append(up[c], SessionClosed) ELSE up[c]
    BY <2>1, <2>2, SentUp
  <2>4. ASSUME c \in Hosts, c \in clients
        PROVE  Known(c)'
    <3>1. CASE loop = "running" /\ ~joinable
      <4>1. Uploading(c)
        BY <1>0, <2>1, <2>4, <3>1 DEF Known
      <4>2. Uploading(c)'
        BY <1>3, <2>1, <2>2, <2>3, <2>4, <3>1, <4>1
      <4> QED
        BY <2>1, <3>1, <4>2 DEF Known
    <3>2. CASE ~(loop = "running" /\ ~joinable)
      BY <1>0, <2>1, <2>4, <3>2 DEF Known
    <3> QED
      BY <3>1, <3>2
  <2>5. ASSUME NEW d \in Channels, d # c
        PROVE  up'[d] = up[d] /\ phase'[d] = phase[d]
    BY <1>7, <2>1, <2>2, <2>5, SentUp DEF TypeOK, EndSession
  <2> QED
    BY <1>1, <1>2, <2>1, <2>4, <2>5
<1>8. ASSUME NEW c \in Channels, Receive(c)
      PROVE  UploadInv'
  <2>1. /\ down[c] \in Seq(Messages) /\ down[c] # <<>> /\ down'[c] = Tail(down[c])
        /\ Head(down[c]) = down[c][1]
        /\ \A d \in Channels \ {c} : down'[d] = down[d] /\ up'[d] = up[d]
        /\ conn[c] # "lost"
    BY <1>8, Received
  <2>2. UNCHANGED <<conn, loop, joinable, snapshot, clients, edited>>
    BY <1>8 DEF Receive, serverVars
  <2>3. ASSUME c \in Hosts, c \in clients
        PROVE  Known(c)'
    <3>1. CASE loop = "running" /\ ~joinable
      <4>1. Greeted(c) /\ down[c] = <<HandshakeAck>> /\ conn[c] = "open"
        BY <1>0, <2>1, <2>3, <3>1 DEF Known, TableInv, Here
      <4>2. down[c][1].type = "handshake_ack" /\ Tail(down[c]) = <<>>
        BY <4>1, Built
      <4>3. UNCHANGED view /\ Send(c, Snapshot(view[c]))
        BY <1>8, <2>1, <4>2 DEF Receive
      <4> DEFINE m == Snapshot(view[c])
      <4>4. m \in Messages /\ m.type = "snapshot" /\ m.scene = view[c]
        BY MessageKinds, Built DEF TypeOK
      <4>5. up'[c] = Append(<<>>, m)
        BY <3>1, <4>1, <4>3, <4>4, SentUp
      <4> HIDE DEF m
      <4>6. up'[c] # <<>> /\ up'[c][1].type = "snapshot"
        BY <4>4, <4>5
      <4>7. ASSUME NEW o \in Objects
            PROVE  Leaves(up'[c], o, snapshot'[o], view'[c][o])
        BY <4>3, <4>4, <4>5, EmptyQueue, LeavesDecided DEF Decides, Given
      <4> QED
        BY <2>1, <2>2, <3>1, <4>2, <4>6, <4>7 DEF Known
    <3>2. CASE loop = "running" /\ joinable
      BY <1>0, <2>1, <2>2, <2>3, <3>2, Taken DEF Known
    <3>3. CASE loop # "running"
      BY <2>2, <3>3 DEF Known
    <3> QED
      BY <3>1, <3>2, <3>3 DEF TypeOK
  <2>4. ASSUME NEW d \in Channels, d # c
        PROVE  phase'[d] = phase[d] /\ view'[d] = view[d]
    BY <1>8, <2>4 DEF TypeOK, Receive
  <2> QED
    BY <1>1, <1>2, <2>1, <2>2, <2>3, <2>4
<1>9. ASSUME NEW c \in Channels, Lose(c)
      PROVE  UploadInv'
  <2>1. /\ UNCHANGED <<up, loop, joinable, snapshot, clients, view, phase, edited>>
        /\ \A d \in Channels : down'[d] = IF d = c THEN <<>> ELSE down[d]
    BY <1>9 DEF TypeOK, Lose, serverVars, clientVars
  <2>2. ASSUME c \in Hosts, c \in clients
        PROVE  Known(c)'
    <3>1. Greeted(c) => Greeted(c)'
      BY <2>1
    <3>2. Uploading(c) => Uploading(c)'
      BY <2>1 DEF Leaves
    <3> HIDE DEF Greeted, Uploading
    <3> QED
      BY <1>0, <2>1, <2>2, <3>1, <3>2, EmptyQueue DEF Known
  <2> QED
    BY <1>1, <1>2, <2>1, <2>2
<1>10. ASSUME NEW c \in Channels, HandleHandshake(c)
       PROVE  UploadInv'
  <2>1. /\ UNCHANGED <<loop, joinable, snapshot, view, phase, edited>>
        /\ clients' = clients \cup {c}
        /\ Fresh(c) /\ (c \in Hosts => loop = "running" /\ ~joinable)
        /\ up'[c] = Tail(up[c]) /\ \A d \in Channels \ {c} : up'[d] = up[d]
    BY <1>10, TakenIn, Served DEF HandleHandshake, clientVars
  <2>2. \A d \in Channels \ {c} : down'[d] = down[d]
    BY <1>10 DEF TypeOK, HandleHandshake, SendTo
  <2>3. ASSUME c \in Hosts
        PROVE  down'[c] \in {<<>>, <<HandshakeAck>>}
    <3>1. down[c] = <<>> /\ Append(<<>>, HandshakeAck) = <<HandshakeAck>>
      BY <2>1 DEF Fresh
    <3> QED
      BY <1>10, <2>3, <3>1 DEF TypeOK, HandleHandshake, SendTo
  <2>4. up'[c] = <<>>
    BY <2>1 DEF Fresh
  <2>5. c \in Hosts => Known(c)'
    BY <2>1, <2>3, <2>4 DEF Known, Fresh
  <2> QED
    BY <1>1, <1>2, <2>1, <2>2, <2>5
<1>11. ASSUME NEW c \in Channels, HandleSnapshot(c)
       PROVE  UploadInv'
  <2>1. /\ loop = "running" /\ ~joinable /\ clients = {c} /\ c \in Hosts
        /\ up[c] # <<>>
        /\ UNCHANGED <<down, clients, loop>> /\ joinable'
    BY <1>11, Served DEF HandleSnapshot
  <2>2. down[c] = <<>>
    BY <1>0, <2>1 DEF Known
  <2>3. Known(c)'
    BY <2>1, <2>2, EmptyQueue DEF Known
  <2> QED
    BY <1>1, <2>1, <2>3
<1>12. ASSUME NEW c \in Channels, HandleUpdate(c)
       PROVE  UploadInv'
  <2>1. /\ loop = "running" /\ joinable /\ UNCHANGED <<loop, joinable, clients>>
        /\ SendTo(ClientsExcept(c), Head(up[c])) /\ Head(up[c]).type = "update"
        /\ TakeIn(c, Head(up[c]))
    BY <1>12, Served DEF HandleUpdate
  <2>2. Head(up[c]) \in Messages
    BY <2>1, TakenIn
  <2>3. ASSUME NEW h \in Hosts \cap clients
        PROVE  Known(h)'
    <3>1. down[h] \in Seq(Messages) /\ \A i \in DOMAIN down[h] : down[h][i].type # "handshake_ack"
      BY <1>0, <2>1, <2>3 DEF TypeOK, Known
    <3>2. down'[h] = down[h] \/ down'[h] = Append(down[h], Head(up[c]))
      BY <2>1, <2>2, SentTo
    <3>3. \A i \in DOMAIN down'[h] : down'[h][i].type # "handshake_ack"
      <4> DEFINE q == down[h]
                 m == Head(up[c])
      <4>1. /\ q \in Seq(Messages) /\ m \in Messages /\ m.type # "handshake_ack"
            /\ \A i \in DOMAIN q : q[i].type # "handshake_ack"
        BY <2>1, <2>2, <3>1
      <4> HIDE DEF q, m
      <4>2. \A i \in DOMAIN Append(q, m) : Append(q, m)[i].type # "handshake_ack"
        BY <4>1, Appended
      <4>3. down'[h] = q \/ down'[h] = Append(q, m)
        BY <3>2 DEF q, m
      <4> QED
        BY <4>1, <4>2, <4>3
    <3> QED
      BY <2>1, <3>3 DEF Known
  <2> QED
    BY <1>1, <2>1, <2>3
<1>13. ASSUME NEW c \in Channels, HandleSessionClose(c)
       PROVE  UploadInv'
  BY <1>1, <1>13 DEF HandleSessionClose
<1>14. ASSUME NEW c \in Channels, OnClose(c)
       PROVE  UploadInv'
  <2>1. /\ UNCHANGED <<down, loop, joinable, snapshot, view, phase, edited>>
        /\ clients' = clients \ {c}
        /\ \A d \in Channels \ {c} : up'[d] = up[d]
    BY <1>14 DEF TypeOK, OnClose, clientVars
  <2> QED
    BY <1>1, <1>2, <2>1
<1>15. CASE LoopEnds
  BY <1>1, <1>15 DEF LoopEnds, Known
<1>16. CASE Reset \/ Activate \/ StartServer
  <2>1. \/ clients' = {}
        \/ loop # "running" /\ loop' = loop
        \/ loop = "ended" /\ clients' = clients
    BY <1>16 DEF LifeInv, Reset, Activate, StartServer
  <2>2. loop = "ended" => clients = {}
    BY DEF TypeOK, TableInv, LifeInv
  <2> QED
    BY <1>1, <2>1, <2>2 DEF Known
<1> QED
  BY <1>4, <1>5, <1>6, <1>7, <1>8, <1>9, <1>10, <1>11, <1>12, <1>13, <1>14, <1>15, <1>16
  DEF Next, Handle

\* Nothing gets into the scene between a reset and the next upload.
LEMMA LeftOverStep ==
  ASSUME SyncHolds, [Next]_vars
  PROVE  NothingLeftOver'
<1> USE DEF SyncHolds, BaseInv, SyncInv, NothingLeftOver
<1>1. CASE UNCHANGED <<bus, loop, joinable, snapshot>>
  BY <1>1
<1>2. ASSUME NEW c \in Channels, HandleSnapshot(c) \/ HandleUpdate(c) \/ HandleSessionClose(c)
      PROVE  NothingLeftOver'
  <2>1. loop = "running" /\ bus = "idle"
    BY <1>2, Served DEF LifeInv
  <2>2. CASE HandleSnapshot(c)
    BY <2>1, <2>2 DEF HandleSnapshot
  <2>3. CASE HandleUpdate(c)
    BY <2>1, <2>3, Served DEF HandleUpdate
  <2>4. CASE HandleSessionClose(c)
    BY <2>1, <2>4 DEF HandleSessionClose
  <2> QED
    BY <1>2, <2>2, <2>3, <2>4
<1>3. CASE LoopEnds
  BY <1>3 DEF LoopEnds
<1>4. CASE Reset \/ Activate \/ StartServer
  BY <1>4 DEF LifeInv, Reset, Activate, StartServer
<1> QED
  BY <1>1, <1>2, <1>3, <1>4
  DEF Next, Handle, Connect, Edit, EndSession, Receive, Lose, HandleHandshake, OnClose,
      vars, serverVars

\* Each step keeps readers in agreement with the server.
LEMMA ReadersStep ==
  ASSUME SyncHolds, TypeOK', [Next]_vars
  PROVE  ReadersInSync'
<1> USE CollabAssumption DEF SyncHolds, BaseInv, SyncInv
<1> DEFINE Agrees(c) == \A o \in Objects : o \notin edited[c] =>
                           Leaves(down[c], o, view[c][o], snapshot[o])
           Known(c) == joinable /\ Registered(c) => Agrees(c)
<1>0. \A c \in Channels : Known(c)
  BY DEF ReadersInSync
<1>1. ASSUME \A c \in Channels : Known(c)'
      PROVE  ReadersInSync'
  BY <1>1 DEF ReadersInSync
<1>2. ASSUME NEW d \in Channels, UNCHANGED snapshot,
             joinable' => joinable, (Registered(d))' => Registered(d),
             down'[d] = down[d], view'[d] = view[d], edited'[d] = edited[d]
      PROVE  Known(d)'
  <2> SUFFICES ASSUME joinable', (Registered(d))', NEW o \in Objects, o \notin edited'[d]
               PROVE  Leaves(down'[d], o, view'[d][o], snapshot'[o])
    OBVIOUS
  <2> QED
    BY <1>0, <1>2
<1> HIDE DEF Known
<1>3. CASE UNCHANGED vars
  BY <1>1, <1>2, <1>3 DEF vars, serverVars, clientVars, Registered
<1>4. ASSUME NEW c \in Channels, Connect(c)
      PROVE  ReadersInSync'
  <2>1. /\ UNCHANGED <<down, clients, joinable, snapshot, edited>>
        /\ c \notin clients
        /\ \A d \in Channels \ {c} : conn'[d] = conn[d] /\ view'[d] = view[d]
    <3>1. UNCHANGED <<down, clients, joinable, snapshot, edited>>
      BY <1>4 DEF Connect, serverVars
    <3>2. c \notin clients
      BY <1>4 DEF TableInv, Here, Connect
    <3>3. ASSUME NEW d \in Channels \ {c}
          PROVE  conn'[d] = conn[d] /\ view'[d] = view[d]
      BY <1>4 DEF TypeOK, Connect
    <3> QED
      BY <3>1, <3>2, <3>3
  <2>2. Known(c)'
    BY <2>1 DEF Known, Registered
  <2> QED
    BY <1>1, <1>2, <2>1, <2>2 DEF Registered
<1>5. ASSUME NEW c \in Channels, Edit(c)
      PROVE  ReadersInSync'
  <2>1. PICK o \in Objects, v \in Values \cup {None} :
          /\ view' = [view EXCEPT ![c] = Effect(@, Update(o, v))]
          /\ edited' = [edited EXCEPT ![c] = @ \cup {o}]
    BY <1>5 DEF Edit
  <2>2. UNCHANGED <<conn, down, clients, joinable, snapshot>>
    BY <1>5 DEF Edit, serverVars
  <2>3. \A p \in Objects : p # o => view'[c][p] = view[c][p]
    <3>1. view'[c] = Effect(view[c], Update(o, v)) /\ view[c] \in Scene
      BY <2>1 DEF TypeOK
    <3>2. Update(o, v) \in Messages /\ Update(o, v).type = "update" /\ Update(o, v).obj = o
      BY MessageKinds, Built
    <3> QED
      BY <3>1, <3>2, SceneType
  <2>4. Known(c)'
    <3> SUFFICES ASSUME joinable', (Registered(c))', NEW p \in Objects, p \notin edited'[c]
                 PROVE  Leaves(down'[c], p, view'[c][p], snapshot'[p])
      BY DEF Known
    <3>1. p # o /\ p \notin edited[c]
      BY <2>1 DEF TypeOK
    <3> QED
      BY <1>0, <2>2, <2>3, <3>1 DEF Known, Registered
  <2>5. \A d \in Channels \ {c} : view'[d] = view[d] /\ edited'[d] = edited[d]
    BY <2>1 DEF TypeOK
  <2> QED
    BY <1>1, <1>2, <2>2, <2>4, <2>5 DEF Registered
<1>6. ASSUME NEW c \in Channels, EndSession(c)
      PROVE  ReadersInSync'
  BY <1>1, <1>2, <1>6 DEF EndSession, serverVars, Registered
<1>7. ASSUME NEW c \in Channels, Receive(c)
      PROVE  ReadersInSync'
  <2> DEFINE m == Head(down[c])
  <2>1. /\ down[c] \in Seq(Messages) /\ down[c] # <<>> /\ down'[c] = Tail(down[c])
        /\ m \in Messages
        /\ \A d \in Channels \ {c} : down'[d] = down[d]
    BY <1>7, Received
  <2>2. UNCHANGED <<conn, clients, joinable, snapshot, edited>>
    BY <1>7 DEF Receive, serverVars
  <2>3. ASSUME NEW o \in Objects
        PROVE  view'[c][o] = IF Decides(m, o) THEN Given(m, o) ELSE view[c][o]
    <3>1. CASE m.type = "handshake_ack" \/ m.type = "session_close"
      BY <1>7, <3>1 DEF Receive, Decides
    <3>2. CASE m.type = "snapshot"
      BY <1>7, <3>2 DEF TypeOK, Receive, Decides, Given
    <3>3. CASE m.type = "update"
      <4>1. view' = [view EXCEPT ![c] = Effect(@, m)]
        BY <1>7, <3>3 DEF Receive
      <4>2. view'[c][o] = IF o = m.obj THEN m.val ELSE view[c][o]
        BY <2>1, <3>3, <4>1, SceneType DEF TypeOK
      <4> QED
        BY <3>3, <4>2 DEF Decides, Given
    <3> QED
      BY <1>7, <3>1, <3>2, <3>3 DEF Receive
  <2> HIDE DEF m
  <2>4. Known(c)'
    <3> SUFFICES ASSUME joinable', (Registered(c))', NEW o \in Objects, o \notin edited'[c]
                 PROVE  Leaves(down'[c], o, view'[c][o], snapshot'[o])
      BY DEF Known
    <3>1. Leaves(down[c], o, view[c][o], snapshot[o])
      BY <1>0, <2>2 DEF Known, Registered
    <3>2. Leaves(Tail(down[c]), o, IF Decides(m, o) THEN Given(m, o) ELSE view[c][o], snapshot[o])
      BY <2>1, <3>1, LeavesTaken DEF m
    <3> QED
      BY <2>1, <2>2, <2>3, <3>2
  <2>5. \A d \in Channels \ {c} : view'[d] = view[d]
    BY <1>7 DEF TypeOK, Receive
  <2> QED
    BY <1>1, <1>2, <2>1, <2>2, <2>4, <2>5 DEF Registered
<1>8. ASSUME NEW c \in Channels, Lose(c)
      PROVE  ReadersInSync'
  <2>1. /\ UNCHANGED <<clients, joinable, snapshot, edited, view>>
        /\ conn'[c] = "lost"
        /\ \A d \in Channels \ {c} : conn'[d] = conn[d] /\ down'[d] = down[d]
    BY <1>8 DEF TypeOK, Lose, serverVars, clientVars
  <2>2. Known(c)'
    BY <2>1 DEF Known, Registered
  <2> QED
    BY <1>1, <1>2, <2>1, <2>2 DEF Registered
<1>9. ASSUME NEW c \in Channels, HandleHandshake(c)
      PROVE  ReadersInSync'
  <2>1. /\ UNCHANGED <<conn, joinable, snapshot, view, edited>>
        /\ clients' = clients \cup {c}
        /\ c \in Hosts => ~joinable
    BY <1>9, Served DEF HandleHandshake, clientVars
  <2>2. \A d \in Channels \ {c} : down'[d] = down[d]
    BY <1>9 DEF TypeOK, HandleHandshake, SendTo
  <2>3. Known(c)'
    <3> SUFFICES ASSUME joinable', (Registered(c))', NEW o \in Objects
                 PROVE  Leaves(down'[c], o, view'[c][o], snapshot'[o])
      BY DEF Known
    <3> DEFINE m == Snapshot(snapshot)
    <3>1. m \in Messages /\ Decides(m, o) /\ Given(m, o) = snapshot[o]
      BY MessageKinds, Built DEF TypeOK, Decides, Given
    <3>2. down'[c] = Append(down[c], m) /\ down[c] \in Seq(Messages)
      BY <1>9, <2>1 DEF TypeOK, HandleHandshake, SendTo, Registered
    <3> HIDE DEF m
    <3>3. Leaves(Append(down[c], m), o, view[c][o], Given(m, o))
      BY <3>1, <3>2, LeavesDecided
    <3> QED
      BY <2>1, <3>1, <3>2, <3>3
  <2> QED
    BY <1>1, <1>2, <2>1, <2>2, <2>3 DEF Registered
<1>10. ASSUME NEW c \in Channels, HandleSnapshot(c)
       PROVE  ReadersInSync'
  <2>1. /\ loop = "running" /\ ~joinable /\ clients = {c} /\ c \in Hosts
        /\ up[c] # <<>> /\ up[c] \in Seq(Messages)
        /\ snapshot' = up[c][1].scene
        /\ UNCHANGED <<conn, down, clients, view, edited>>
    BY <1>10, Served, TakenIn DEF HandleSnapshot, clientVars
  <2>2. down[c] = <<>>
    BY <2>1 DEF UploadInv
  <2>3. \A o \in Objects : o \notin edited[c] => view[c][o] = snapshot'[o]
    BY <2>1, Uploaded
  <2> QED
    BY <1>1, <2>1, <2>2, <2>3, LeavesEmpty DEF Known, Registered
<1>11. ASSUME NEW c \in Channels, HandleUpdate(c)
       PROVE  ReadersInSync'
  <2> DEFINE m == Head(up[c])
  <2>1. /\ TakeIn(c, m) /\ m.type = "update" /\ joinable
        /\ SendTo(ClientsExcept(c), m)
        /\ snapshot' = Effect(snapshot, m)
        /\ UNCHANGED <<conn, clients, joinable, view, edited>>
    BY <1>11, Served DEF HandleUpdate, Apply, clientVars
  <2>2. m \in Messages /\ m.obj \in edited[c]
    BY <2>1, TakenIn, Taken DEF MarkedInv
  <2> HIDE DEF m
  <2>3. \A o \in Objects : snapshot'[o] = IF o = m.obj THEN m.val ELSE snapshot[o]
    BY <2>1, <2>2, SceneType DEF TypeOK
  <2> SUFFICES ASSUME NEW d \in Channels, Registered(d), NEW o \in Objects, o \notin edited[d]
               PROVE  Leaves(down'[d], o, view[d][o], snapshot'[o])
    BY <1>1, <2>1 DEF Known, Registered
  <2>4. Leaves(down[d], o, view[d][o], snapshot[o]) /\ down[d] \in Seq(Messages)
    BY <1>0, <2>1 DEF Known, TypeOK
  <2>5. CASE d = c
    <3>1. down'[d] = down[d]
      BY <2>1, <2>5 DEF TypeOK, SendTo, ClientsExcept
    <3>2. o # m.obj
      BY <2>2, <2>5
    <3> QED
      BY <2>3, <2>4, <3>1, <3>2
  <2>6. CASE d # c
    <3>1. down'[d] = Append(down[d], m)
      BY <2>1, <2>6 DEF TypeOK, SendTo, ClientsExcept, Registered
    <3>2. CASE o = m.obj
      BY <2>1, <2>2, <2>3, <2>4, <3>1, <3>2, LeavesDecided DEF Decides, Given
    <3>3. CASE o # m.obj
      BY <2>1, <2>2, <2>3, <2>4, <3>1, <3>3, LeavesOther DEF Decides
    <3> QED
      BY <3>2, <3>3
  <2> QED
    BY <2>5, <2>6
<1>12. ASSUME NEW c \in Channels, HandleSessionClose(c)
       PROVE  ReadersInSync'
  BY <1>1, <1>12 DEF HandleSessionClose, Known, Registered
<1>13. ASSUME NEW c \in Channels, OnClose(c)
       PROVE  ReadersInSync'
  <2>1. \A d \in Channels : (Registered(d))' => Registered(d)
    BY <1>13 DEF TypeOK, OnClose, Registered
  <2> QED
    BY <1>1, <1>2, <1>13, <2>1 DEF OnClose, clientVars
<1>14. CASE LoopEnds
  BY <1>1, <1>14 DEF TypeOK, LoopEnds, Known, Registered
<1>15. CASE Reset
  BY <1>1, <1>15 DEF Reset, Known
<1>16. CASE Activate \/ StartServer
  BY <1>1, <1>2, <1>16 DEF Activate, StartServer, clientVars, Registered
<1> QED
  BY <1>3, <1>4, <1>5, <1>6, <1>7, <1>8, <1>9, <1>10, <1>11, <1>12, <1>13, <1>14,
     <1>15, <1>16
  DEF Next, Handle

\* Each step keeps sole writers in agreement with the server.
LEMMA SoleWriterStep ==
  ASSUME SyncHolds, TypeOK', [Next]_vars
  PROVE  SoleWriterInSync'
<1> USE CollabAssumption DEF SyncHolds, BaseInv, SyncInv
<1> DEFINE Sole(c, o) == o \in edited[c] /\ \A d \in Channels \ {c} : o \notin edited[d]
           Agrees(c) == \A o \in Objects :
                          Sole(c, o) => Leaves(up[c], o, snapshot[o], view[c][o])
           Known(c) == joinable /\ loop = "running" /\ Registered(c) => Agrees(c)
<1>0. \A c \in Channels : Known(c)
  BY DEF SoleWriterInSync
<1>1. ASSUME \A c \in Channels : Known(c)'
      PROVE  SoleWriterInSync'
  BY <1>1 DEF SoleWriterInSync
<1>2. ASSUME NEW d \in Channels, UNCHANGED snapshot,
             joinable' => joinable, loop' = "running" => loop = "running",
             (Registered(d))' => Registered(d),
             up'[d] = up[d], view'[d] = view[d], \A o \in Objects : (Sole(d, o))' => Sole(d, o)
      PROVE  Known(d)'
  <2> HIDE DEF Sole
  <2> SUFFICES ASSUME joinable', loop' = "running", (Registered(d))',
                      NEW o \in Objects, (Sole(d, o))'
               PROVE  Leaves(up'[d], o, snapshot'[o], view'[d][o])
    OBVIOUS
  <2> QED
    BY <1>0, <1>2
<1> HIDE DEF Known, Sole
<1>3. CASE UNCHANGED vars
  BY <1>1, <1>2, <1>3 DEF vars, serverVars, clientVars, Registered, Sole
<1>4. ASSUME NEW c \in Channels, Connect(c)
      PROVE  SoleWriterInSync'
  <2>1. /\ UNCHANGED <<clients, joinable, loop, snapshot, edited>>
        /\ c \notin clients
        /\ \A d \in Channels \ {c} : conn'[d] = conn[d] /\ view'[d] = view[d] /\ up'[d] = up[d]
    <3>1. UNCHANGED <<clients, joinable, loop, snapshot, edited>>
      BY <1>4 DEF Connect, serverVars
    <3>2. c \notin clients
      BY <1>4 DEF TableInv, Here, Connect
    <3>3. ASSUME NEW d \in Channels \ {c}
          PROVE  conn'[d] = conn[d] /\ view'[d] = view[d] /\ up'[d] = up[d]
      BY <1>4 DEF TypeOK, Connect
    <3> QED
      BY <3>1, <3>2, <3>3
  <2>2. Known(c)'
    BY <2>1 DEF Known, Registered
  <2> QED
    BY <1>1, <1>2, <2>1, <2>2 DEF Registered, Sole
<1>5. ASSUME NEW c \in Channels, Edit(c)
      PROVE  SoleWriterInSync'
  <2>1. PICK o \in Objects, v \in Values \cup {None} :
          /\ view' = [view EXCEPT ![c] = Effect(@, Update(o, v))]
          /\ Send(c, Update(o, v))
          /\ edited' = [edited EXCEPT ![c] = @ \cup {o}]
    BY <1>5 DEF Edit
  <2>2. UNCHANGED <<conn, clients, joinable, loop, snapshot>>
    BY <1>5 DEF Edit, serverVars
  <2>3. PICK m \in Messages : m = Update(o, v)
    BY MessageKinds
  <2>4. m.type = "update" /\ m.obj = o /\ m.val = v /\ Send(c, m)
    BY <2>1, <2>3, Built
  <2>5. \A p \in Objects : view'[c][p] = IF p = o THEN v ELSE view[c][p]
    <3>1. view'[c] = Effect(view[c], m) /\ view[c] \in Scene
      BY <2>1, <2>3 DEF TypeOK
    <3> QED
      BY <2>4, <3>1, SceneType
  <2>6. \A d \in Channels \ {c} :
          up'[d] = up[d] /\ view'[d] = view[d] /\ edited'[d] = edited[d]
    BY <2>1, <2>4, SentUp DEF TypeOK
  <2>7. edited'[c] = edited[c] \cup {o}
    BY <2>1 DEF TypeOK
  <2>8. Known(c)'
    <3> SUFFICES ASSUME joinable', loop' = "running", (Registered(c))',
                        NEW p \in Objects, (Sole(c, p))'
                 PROVE  Leaves(up'[c], p, snapshot'[p], view'[c][p])
      BY DEF Known
    <3>1. up'[c] = Append(up[c], m) /\ up[c] \in Seq(Messages)
      BY <2>2, <2>4, SentUp DEF TypeOK, Registered
    <3>2. CASE p = o
      BY <2>2, <2>4, <2>5, <3>1, <3>2, LeavesDecided DEF Decides, Given
    <3>3. CASE p # o
      <4>1. Sole(c, p)
        BY <2>6, <2>7, <3>3 DEF Sole
      <4>2. Leaves(up[c], p, snapshot[p], view[c][p])
        BY <1>0, <2>2, <4>1 DEF Known, Registered
      <4> QED
        BY <2>2, <2>4, <2>5, <3>1, <3>3, <4>2, LeavesOther DEF Decides
    <3> QED
      BY <3>2, <3>3
  <2>9. ASSUME NEW d \in Channels, d # c
        PROVE  Known(d)'
    <3>1. \A p \in Objects : (Sole(d, p))' => Sole(d, p)
      BY <2>6, <2>7, <2>9 DEF Sole
    <3> QED
      BY <1>2, <2>2, <2>6, <2>9, <3>1 DEF Registered
  <2> QED
    BY <1>1, <2>8, <2>9
<1>6. ASSUME NEW c \in Channels, EndSession(c)
      PROVE  SoleWriterInSync'
  <2>1. /\ UNCHANGED <<conn, clients, joinable, loop, snapshot, view, edited>>
        /\ Send(c, SessionClosed)
    BY <1>6 DEF EndSession, serverVars
  <2>2. PICK m \in Messages : m = SessionClosed
    BY MessageKinds
  <2>3. \A o \in Objects : ~Decides(m, o)
    BY <2>2, Built DEF Decides
  <2>4. \A d \in Channels \ {c} : up'[d] = up[d]
    BY <2>1, <2>2, SentUp
  <2>5. Known(c)'
    <3> SUFFICES ASSUME joinable', loop' = "running", (Registered(c))',
                        NEW p \in Objects, (Sole(c, p))'
                 PROVE  Leaves(up'[c], p, snapshot'[p], view'[c][p])
      BY DEF Known
    <3>1. up'[c] = Append(up[c], m) /\ up[c] \in Seq(Messages)
      BY <2>1, <2>2, SentUp DEF TypeOK, Registered
    <3>2. Sole(c, p)
      BY <2>1 DEF Sole
    <3>3. Leaves(up[c], p, snapshot[p], view[c][p])
      BY <1>0, <2>1, <3>2 DEF Known, Registered
    <3> QED
      BY <2>1, <2>3, <3>1, <3>3, LeavesOther
  <2> QED
    BY <1>1, <1>2, <2>1, <2>4, <2>5 DEF Registered, Sole
<1>7. ASSUME NEW c \in Channels, Receive(c)
      PROVE  SoleWriterInSync'
  <2> DEFINE m == Head(down[c])
  <2>1. /\ m = down[c][1] /\ m \in Messages /\ 1 \in DOMAIN down[c]
        /\ \A d \in Channels \ {c} : up'[d] = up[d]
    BY <1>7, Received
  <2>2. UNCHANGED <<conn, clients, joinable, loop, snapshot, edited>>
    BY <1>7 DEF Receive, serverVars
  <2>3. \A d \in Channels \ {c} : view'[d] = view[d]
    BY <1>7 DEF TypeOK, Receive
  <2>4. \/ m.type = "handshake_ack"
        \/ m.type = "snapshot"
        \/ m.type = "update" /\ view' = [view EXCEPT ![c] = Effect(@, m)] /\ UNCHANGED up
        \/ m.type = "session_close" /\ UNCHANGED <<up, view>>
    BY <1>7 DEF Receive
  <2> HIDE DEF m
  <2>5. Known(c)'
    <3> SUFFICES ASSUME joinable', loop' = "running", (Registered(c))',
                        NEW o \in Objects, (Sole(c, o))'
                 PROVE  Leaves(up'[c], o, snapshot'[o], view'[c][o])
      BY DEF Known
    <3>1. joinable /\ loop = "running" /\ c \in clients /\ Sole(c, o)
      BY <2>2 DEF Registered, Sole
    <3>2. Leaves(up[c], o, snapshot[o], view[c][o])
      BY <1>0, <2>2, <3>1 DEF Known, Registered
    <3>3. m.type # "handshake_ack"
      BY <2>1, <3>1 DEF DownInv, UploadInv
    <3>4. m.type # "snapshot"
      BY <2>1, <3>1 DEF DownInv, Sole
    <3>5. CASE m.type = "update"
      <4>1. m.obj # o
        BY <2>1, <3>1, <3>5 DEF MarkedInv, Sole
      <4>2. view'[c] = Effect(view[c], m) /\ view[c] \in Scene /\ UNCHANGED up
        BY <2>4, <3>5 DEF TypeOK
      <4>3. view'[c][o] = view[c][o]
        BY <2>1, <3>5, <4>1, <4>2, SceneType
      <4> QED
        BY <2>2, <3>2, <4>2, <4>3
    <3>6. CASE m.type = "session_close"
      BY <2>2, <2>4, <3>2, <3>6
    <3> QED
      BY <2>4, <3>3, <3>4, <3>5, <3>6
  <2> QED
    BY <1>1, <1>2, <2>1, <2>2, <2>3, <2>5 DEF Registered, Sole
<1>8. ASSUME NEW c \in Channels, Lose(c)
      PROVE  SoleWriterInSync'
  <2>1. /\ UNCHANGED <<up, clients, joinable, loop, snapshot, edited, view>>
        /\ conn'[c] = "lost"
        /\ \A d \in Channels \ {c} : conn'[d] = conn[d]
    BY <1>8 DEF TypeOK, Lose, serverVars, clientVars
  <2>2. Known(c)'
    BY <2>1 DEF Known, Registered
  <2> QED
    BY <1>1, <1>2, <2>1, <2>2 DEF Registered, Sole
<1>9. ASSUME NEW c \in Channels, HandleHandshake(c)
      PROVE  SoleWriterInSync'
  <2>1. /\ UNCHANGED <<conn, joinable, loop, snapshot, view, edited>>
        /\ clients' = clients \cup {c} /\ edited[c] = {}
        /\ \A d \in Channels \ {c} : up'[d] = up[d]
    BY <1>9, TakenIn, Served DEF HandleHandshake, Fresh, clientVars
  <2>2. Known(c)'
    BY <2>1 DEF Known, Sole
  <2> QED
    BY <1>1, <1>2, <2>1, <2>2 DEF Registered, Sole
<1>10. ASSUME NEW c \in Channels, HandleSnapshot(c)
       PROVE  SoleWriterInSync'
  <2>1. /\ loop = "running" /\ ~joinable /\ clients = {c} /\ c \in Hosts
        /\ up[c] # <<>> /\ up[c] \in Seq(Messages) /\ up'[c] = Tail(up[c])
        /\ snapshot' = Head(up[c]).scene /\ Head(up[c]).type = "snapshot"
        /\ UNCHANGED <<conn, clients, view>>
    BY <1>10, Served, TakenIn DEF HandleSnapshot, clientVars
  <2>2. ASSUME NEW o \in Objects
        PROVE  Leaves(up'[c], o, snapshot'[o], view'[c][o])
    <3>1. Leaves(up[c], o, snapshot[o], view[c][o])
      BY <2>1 DEF UploadInv
    <3>2. Decides(Head(up[c]), o) /\ Given(Head(up[c]), o) = snapshot'[o]
      BY <2>1 DEF Decides, Given
    <3> QED
      BY <2>1, <3>1, <3>2, LeavesTaken
  <2>3. \A d \in Channels : (Registered(d))' => d = c
    BY <2>1 DEF Registered
  <2> QED
    BY <1>1, <2>2, <2>3 DEF Known
<1>11. ASSUME NEW c \in Channels, HandleUpdate(c)
       PROVE  SoleWriterInSync'
  <2> DEFINE m == Head(up[c])
  <2>1. /\ TakeIn(c, m) /\ m.type = "update" /\ joinable
        /\ snapshot' = Effect(snapshot, m)
        /\ UNCHANGED <<conn, clients, joinable, loop, view, edited>>
    BY <1>11, Served DEF HandleUpdate, Apply, clientVars
  <2>2. /\ m \in Messages /\ m.obj \in edited[c]
        /\ up[c] \in Seq(Messages) /\ up[c] # <<>> /\ up'[c] = Tail(up[c])
        /\ \A d \in Channels \ {c} : up'[d] = up[d]
    BY <2>1, TakenIn, Taken DEF MarkedInv
  <2>3. \A o \in Objects : snapshot'[o] = IF Decides(m, o) THEN Given(m, o) ELSE snapshot[o]
    BY <2>1, <2>2, SceneType DEF TypeOK, Decides, Given
  <2> SUFFICES ASSUME loop = "running", NEW d \in Channels, Registered(d),
                      NEW o \in Objects, Sole(d, o)
               PROVE  Leaves(up'[d], o, snapshot'[o], view[d][o])
    BY <1>1, <2>1 DEF Known, Registered, Sole
  <2>4. Leaves(up[d], o, snapshot[o], view[d][o])
    BY <1>0, <2>1 DEF Known
  <2>5. CASE d = c
    BY <2>2, <2>3, <2>4, <2>5, LeavesTaken
  <2>6. CASE d # c
    <3>1. ~Decides(m, o)
      BY <2>1, <2>2, <2>6 DEF Decides, Sole
    <3> QED
      BY <2>2, <2>3, <2>4, <2>6, <3>1
  <2> QED
    BY <2>5, <2>6
<1>12. ASSUME NEW c \in Channels, HandleSessionClose(c)
       PROVE  SoleWriterInSync'
  BY <1>1, <1>12 DEF HandleSessionClose, Known
<1>13. ASSUME NEW c \in Channels, OnClose(c)
       PROVE  SoleWriterInSync'
  <2>1. /\ \A d \in Channels \ {c} : (Registered(d))' => Registered(d)
        /\ ~(Registered(c))'
        /\ \A d \in Channels \ {c} : up'[d] = up[d]
        /\ UNCHANGED <<joinable, loop, snapshot, view, edited>>
    BY <1>13 DEF TypeOK, OnClose, Registered, clientVars
  <2>2. Known(c)'
    BY <2>1 DEF Known
  <2> QED
    BY <1>1, <1>2, <2>1, <2>2 DEF Sole
<1>14. CASE LoopEnds
  BY <1>1, <1>14 DEF LoopEnds, Known
<1>15. CASE Reset \/ Activate \/ StartServer
  BY <1>1, <1>15 DEF LifeInv, NothingLeftOver, Reset, Activate, StartServer, Known
<1> QED
  BY <1>3, <1>4, <1>5, <1>6, <1>7, <1>8, <1>9, <1>10, <1>11, <1>12, <1>13, <1>14, <1>15
  DEF Next, Handle

-----------------------------------------------------------------------------
(* The theorems.                                                           *)

\* The inductive invariant of the session, of which the theorems below are
\* parts.
THEOREM Invariance == Spec => []CollabInv
<1>1. CollabInv /\ [Next]_vars => CollabInv'
  <2> SUFFICES ASSUME CollabInv, [Next]_vars
               PROVE  CollabInv'
    OBVIOUS
  <2>1. BaseInv'
    BY TypeStep, TableStep, CloseStep, IdleStep, MarkedStep DEF CollabInv, BaseInv
  <2>2. ASSUME UploadFirst
        PROVE  SyncInv'
    <3>1. SyncHolds
      BY <2>2 DEF CollabInv, SyncHolds
    <3>2. TypeOK'
      BY <2>1 DEF BaseInv
    <3> QED
      BY <3>1, <3>2, LifeStep, PresenceStep, UpStep, DownStep, UploadStep, LeftOverStep,
         ReadersStep, SoleWriterStep DEF SyncInv
  <2> QED
    BY <2>1, <2>2 DEF CollabInv
<1> QED
  BY Initial, <1>1, PTL DEF Spec

\* The session's state and the messages in transit keep their types.
THEOREM SessionTypeCorrect == Spec => []TypeOK
<1>1. CollabInv => TypeOK
  BY DEF CollabInv, BaseInv
<1> QED
  BY Invariance, <1>1, PTL

\* Whoever is in the client table of a running server has a connection to it.
THEOREM TableIsConnected == Spec => []ClientsConnected
<1>1. CollabInv => ClientsConnected
  BY DEF CollabInv, BaseInv, TypeOK, TableInv, Here, ClientsConnected
<1> QED
  BY Invariance, <1>1, PTL

\* Nothing follows the notice that the session is closed.
THEOREM CloseIsLast == Spec => []ClosedIsLast
<1>1. CollabInv => ClosedIsLast
  BY DEF CollabInv, BaseInv, CloseInv, ClosedIsLast
<1> QED
  BY Invariance, <1>1, PTL

\* A reused session starts from the empty scene and keeps it until its next
\* upload, whatever the old loop still handles.
THEOREM ReuseIsClean == Spec => []NothingLeftOver
<1>1. CollabInv => NothingLeftOver
  BY DEF CollabInv, SyncInv, NothingLeftOver
<1> QED
  BY Invariance, <1>1, PTL

\* Where guests connect after the host's upload, a client ends up with the
\* server's value of every object it has left alone.
THEOREM ReadersAgree ==
  ASSUME UploadFirst
  PROVE  Spec => []ReadersInSync
<1>1. CollabInv => ReadersInSync
  BY DEF CollabInv, SyncInv
<1> QED
  BY Invariance, <1>1, PTL

\* Where guests connect after the host's upload, the server ends up with the
\* value of every object that only one client edits.
THEOREM SoleWritersAgree ==
  ASSUME UploadFirst
  PROVE  Spec => []SoleWriterInSync
<1>1. CollabInv => SoleWriterInSync
  BY DEF CollabInv, SyncInv
<1> QED
  BY Invariance, <1>1, PTL
-----------------------------------------------------------------------------
(* CollabSession keeps its side of SessionLife, whoever connects when: the *)
(* bus thread's calls and the end of the loop are its steps, a             *)
(* session_close is Close, and no other message shows.                     *)

\* Nothing makes a session active between reset() and setActive(true).
ResetInv == bus = "reset" => ~active

\* The session as the bus thread starts it is in the middle of its life.
LEMMA InitLife == Init => ResetInv /\ Life!LifeInit
BY DEF Init, ResetInv, Life!LifeInit

\* Each handler, each client and the bus thread do what the contract allows.
LEMMA StepKeepsLife ==
  ASSUME ResetInv, [Next]_vars
  PROVE  ResetInv' /\ [Life!LifeNext]_(Life!lifeVars)
<1> USE DEF ResetInv, Life!lifeVars
<1>1. ASSUME UNCHANGED <<active, loop, bus>>
      PROVE  ResetInv' /\ [Life!LifeNext]_(Life!lifeVars)
  BY <1>1
<1>2. ASSUME NEW c \in Channels,
             Connect(c) \/ Edit(c) \/ EndSession(c) \/ Receive(c) \/ Lose(c)
      PROVE  UNCHANGED <<active, loop, bus>>
  BY <1>2 DEF Connect, Edit, EndSession, Receive, Lose, serverVars
<1>3. ASSUME NEW c \in Channels,
             HandleHandshake(c) \/ HandleSnapshot(c) \/ HandleUpdate(c) \/ OnClose(c)
      PROVE  UNCHANGED <<active, loop, bus>>
  BY <1>3 DEF HandleHandshake, HandleSnapshot, HandleUpdate, OnClose
<1>4. ASSUME NEW c \in Channels, HandleSessionClose(c)
      PROVE  ResetInv' /\ Life!LifeNext
  BY <1>4 DEF HandleSessionClose, HasRead, LoopTurns, Life!LifeNext, Life!Close
<1>5. CASE LoopEnds
  BY <1>5 DEF LoopEnds, Life!LifeNext, Life!End
<1>6. CASE Reset
  BY <1>6 DEF Reset
<1>7. CASE Activate
  BY <1>7 DEF Activate, Life!LifeNext, Life!Take
<1>8. CASE StartServer
  BY <1>8 DEF StartServer, Life!LifeNext, Life!Start
<1>9. CASE UNCHANGED vars
  BY <1>1, <1>9 DEF vars, serverVars
<1> QED
  BY <1>1, <1>2, <1>3, <1>4, <1>5, <1>6, <1>7, <1>8, <1>9 DEF Next, Handle

\* With any clients, at any time, the session is what SessionControl takes it
\* for.
THEOREM LifeImplemented == Spec => ImplementsLife
BY InitLife, StepKeepsLife, PTL DEF Spec, ImplementsLife, Life!LifeSpec

-----------------------------------------------------------------------------
(* What clients see (CollabHistory).                                       *)

\* The number of the scene after the first i messages of a queue, where org has
\* the numbers of its messages and s is the scene before them.
SceneAt(org, s, i) == IF i = 0 THEN s ELSE org[i]

\* A client that shows w, and has edited the objects of E, is at scene s of sc,
\* and its queue takes it from there, by updates, to the last one.
Trail(q, org, s, w, E, sc) ==
  /\ Len(org) = Len(q)
  /\ \A i \in 0 .. Len(q) : SceneAt(org, s, i) \in 2 .. Len(sc)
  /\ \A i \in 1 .. Len(q) :
       /\ q[i].type = "update"
       /\ SceneAt(org, s, i - 1) <= SceneAt(org, s, i)
       /\ \A o \in Objects \ E :
            sc[SceneAt(org, s, i)][o] =
              IF o = q[i].obj THEN q[i].val ELSE sc[SceneAt(org, s, i - 1)][o]
  /\ \A o \in Objects \ E :
       /\ w[o] = sc[s][o]
       /\ sc[SceneAt(org, s, Len(q))][o] = sc[Len(sc)][o]

\* A client at the last scene has nothing to be sent.
LEMMA TrailStarts ==
  ASSUME NEW E, NEW sc \in Seq(Scene), NEW w, Len(sc) >= 2,
         \A o \in Objects \ E : w[o] = sc[Len(sc)][o]
  PROVE  Trail(<<>>, <<>>, Len(sc), w, E, sc)
BY EmptyQueue DEF Trail, SceneAt

\* Whoever takes the first update goes to its scene.
LEMMA TrailTaken ==
  ASSUME NEW q \in Seq(Messages), NEW org \in Seq(Nat), NEW s \in Nat,
         NEW w \in Scene, NEW E, NEW sc \in Seq(Scene),
         Trail(q, org, s, w, E, sc), q # <<>>
  PROVE  /\ Head(q).type = "update"
         /\ s <= Head(org)
         /\ Trail(Tail(q), Tail(org), Head(org), Effect(w, Head(q)), E, sc)
<1>1. /\ Len(q) \in Nat \ {0} /\ Len(org) = Len(q)
      /\ Tail(q) \in Seq(Messages) /\ Tail(org) \in Seq(Nat)
      /\ Len(Tail(q)) = Len(q) - 1 /\ Len(Tail(org)) = Len(q) - 1
      /\ Head(q) = q[1] /\ Head(org) = org[1] /\ q[1] \in Messages
      /\ \A i \in 1 .. Len(q) - 1 : Tail(q)[i] = q[i + 1] /\ Tail(org)[i] = org[i + 1]
  BY DEF Trail
<1>2. \A i \in 0 .. Len(q) - 1 : SceneAt(Tail(org), Head(org), i) = SceneAt(org, s, i + 1)
  BY <1>1 DEF SceneAt
<1>3. /\ q[1].type = "update"
      /\ s <= org[1]
      /\ \A o \in Objects \ E : sc[org[1]][o] = IF o = q[1].obj THEN q[1].val ELSE w[o]
  <2>1. SceneAt(org, s, 0) = s /\ SceneAt(org, s, 1) = org[1] /\ 1 \in 1 .. Len(q)
    BY <1>1 DEF SceneAt
  <2> QED
    BY <2>1 DEF Trail
<1>4. \A o \in Objects : Effect(w, q[1])[o] = IF o = q[1].obj THEN q[1].val ELSE w[o]
  BY <1>1, <1>3, SceneType
<1> DEFINE at(i) == SceneAt(org, s, i)
           then(i) == SceneAt(Tail(org), Head(org), i)
<1>5. \A i \in 0 .. Len(q) - 1 : then(i) = at(i + 1)
  BY <1>2
<1>6. \A i \in 0 .. Len(q) : at(i) \in 2 .. Len(sc)
  BY DEF Trail
<1>7. \A i \in 1 .. Len(q) :
         /\ q[i].type = "update"
         /\ at(i - 1) <= at(i)
         /\ \A o \in Objects \ E :
              sc[at(i)][o] = IF o = q[i].obj THEN q[i].val ELSE sc[at(i - 1)][o]
  BY DEF Trail
<1>8. \A o \in Objects \ E : sc[at(Len(q))][o] = sc[Len(sc)][o]
  BY DEF Trail
<1> HIDE DEF at, then
<1>9. \A i \in 0 .. Len(q) - 1 : then(i) \in 2 .. Len(sc)
  BY <1>1, <1>5, <1>6
<1>10. ASSUME NEW i \in 1 .. Len(q) - 1
      PROVE  /\ Tail(q)[i].type = "update"
             /\ then(i - 1) <= then(i)
             /\ \A o \in Objects \ E :
                  sc[then(i)][o] =
                    IF o = Tail(q)[i].obj THEN Tail(q)[i].val ELSE sc[then(i - 1)][o]
  <2>1. /\ i + 1 \in 1 .. Len(q) /\ i - 1 \in 0 .. Len(q) - 1 /\ i \in 0 .. Len(q) - 1
        /\ (i + 1) - 1 = i /\ (i - 1) + 1 = i
        /\ Tail(q)[i] = q[i + 1]
    BY <1>1
  <2>2. then(i) = at(i + 1) /\ then(i - 1) = at(i)
    BY <1>5, <2>1
  <2>3. /\ q[i + 1].type = "update"
        /\ at(i) <= at(i + 1)
        /\ \A o \in Objects \ E :
             sc[at(i + 1)][o] = IF o = q[i + 1].obj THEN q[i + 1].val ELSE sc[at(i)][o]
    BY <1>7, <2>1
  <2> QED
    BY <2>1, <2>2, <2>3
<1>11. then(Len(q) - 1) = at(Len(q))
  <2>1. Len(q) - 1 \in 0 .. Len(q) - 1 /\ (Len(q) - 1) + 1 = Len(q)
    BY <1>1
  <2> QED
    BY <1>5, <2>1
<1>12. \A o \in Objects \ E :
        /\ Effect(w, q[1])[o] = sc[org[1]][o]
        /\ sc[then(Len(q) - 1)][o] = sc[Len(sc)][o]
  BY <1>3, <1>4, <1>8, <1>11
<1> QED
  BY <1>1, <1>3, <1>9, <1>10, <1>12 DEF Trail, then

\* A client that is sent the change to the server's scene has one step more to go.
LEMMA TrailSent ==
  ASSUME NEW q \in Seq(Messages), NEW org \in Seq(Nat), NEW s \in Nat, NEW w, NEW E,
         NEW sc \in Seq(Scene), Trail(q, org, s, w, E, sc),
         NEW m \in Messages, m.type = "update"
  PROVE  Trail(Append(q, m), Append(org, Len(sc) + 1), s, w, E,
               Append(sc, Effect(sc[Len(sc)], m)))
<1> DEFINE n == Len(q)
           k == Len(sc)
           at(i) == SceneAt(org, s, i)
           then(i) == SceneAt(Append(org, Len(sc) + 1), s, i)
           new == Effect(sc[Len(sc)], m)
           scn == Append(sc, new)
           qn == Append(q, m)
<1>1. /\ n \in Nat /\ Len(org) = n /\ k \in Nat
      /\ Len(qn) = n + 1 /\ Len(Append(org, k + 1)) = n + 1
      /\ \A i \in 1 .. n : qn[i] = q[i]
      /\ qn[n + 1] = m
  BY DEF Trail
<1>2. \A i \in 0 .. n : at(i) \in 2 .. k
  BY DEF Trail
<1>3. \A i \in 1 .. n :
         /\ q[i].type = "update"
         /\ at(i - 1) <= at(i)
         /\ \A o \in Objects \ E :
              sc[at(i)][o] = IF o = q[i].obj THEN q[i].val ELSE sc[at(i - 1)][o]
  BY DEF Trail
<1>4. \A o \in Objects \ E : w[o] = sc[s][o] /\ sc[at(n)][o] = sc[k][o]
  BY DEF Trail
<1>5. \A i \in 0 .. n : then(i) = at(i)
  BY <1>1 DEF SceneAt
<1>6. then(n + 1) = k + 1
  BY <1>1 DEF SceneAt
<1>7. s \in 2 .. k
  BY <1>1, <1>2 DEF SceneAt
<1>8. \A i \in 0 .. n + 1 : i \in 0 .. n \/ i = n + 1
  BY <1>1
<1>9. /\ Len(scn) = k + 1 /\ scn[k + 1] = new
      /\ \A i \in 1 .. k : scn[i] = sc[i]
  <2>1. new \in Scene
    BY <1>1, <1>7, SceneType
  <2> HIDE DEF new
  <2> QED
    BY <2>1
<1>10. \A o \in Objects : new[o] = IF o = m.obj THEN m.val ELSE sc[k][o]
  BY <1>1, <1>7, SceneType
<1> HIDE DEF n, k, at, then, new, scn, qn
<1>11. \A i \in 0 .. n + 1 : then(i) \in 2 .. k + 1
  <2>1. ASSUME NEW i \in 0 .. n
        PROVE  then(i) \in 2 .. k + 1
    <3>1. then(i) = at(i) /\ at(i) \in 2 .. k
      BY <1>2, <1>5
    <3> QED
      BY <1>1, <3>1
  <2>2. then(n + 1) \in 2 .. k + 1
    BY <1>1, <1>6, <1>7
  <2> QED
    BY <1>8, <2>1, <2>2
<1>12. ASSUME NEW i \in 1 .. n + 1
      PROVE  /\ qn[i].type = "update"
             /\ then(i - 1) <= then(i)
             /\ \A o \in Objects \ E :
                  scn[then(i)][o] =
                    IF o = qn[i].obj THEN qn[i].val ELSE scn[then(i - 1)][o]
  <2>1. CASE i \in 1 .. n
    <3>1. i - 1 \in 0 .. n /\ i \in 0 .. n
      BY <1>1, <2>1
    <3>2. then(i) = at(i) /\ then(i - 1) = at(i - 1) /\ at(i) \in 1 .. k /\ at(i - 1) \in 1 .. k
      BY <1>1, <1>2, <1>5, <3>1
    <3> QED
      <4>1. scn[then(i)] = sc[at(i)] /\ scn[then(i - 1)] = sc[at(i - 1)] /\ qn[i] = q[i]
        BY <1>1, <1>9, <2>1, <3>2
      <4> QED
        BY <1>3, <2>1, <3>2, <4>1
  <2>2. CASE i = n + 1
    <3>1. then(i - 1) = at(n) /\ at(n) \in 2 .. k /\ then(i) = k + 1
      BY <1>1, <1>2, <1>5, <1>6, <2>2
    <3>2. scn[then(i - 1)] = sc[at(n)]
      <4>1. at(n) \in 1 .. k
        BY <1>1, <3>1
      <4> QED
        BY <1>9, <3>1, <4>1
    <3>3. \A o \in Objects \ E : scn[then(i - 1)][o] = sc[k][o]
      BY <1>4, <3>2
    <3> QED
      BY <1>1, <1>9, <1>10, <2>2, <3>1, <3>3
  <2> QED
    BY <1>1, <2>1, <2>2
<1>13. \A o \in Objects \ E : w[o] = scn[s][o] /\ scn[then(n + 1)][o] = scn[k + 1][o]
  <2>1. scn[then(n + 1)] = scn[k + 1] /\ scn[s] = sc[s]
    BY <1>1, <1>6, <1>7, <1>9
  <2> QED
    BY <1>4, <2>1
<1> QED
  BY <1>1, <1>9, <1>11, <1>12, <1>13 DEF Trail, n, k, then, new, scn, qn

\* A client's own update is none of the objects it has left alone.
LEMMA TrailOwn ==
  ASSUME NEW q \in Seq(Messages), NEW org \in Seq(Nat), NEW s \in Nat, NEW w, NEW E,
         NEW sc \in Seq(Scene), Trail(q, org, s, w, E, sc),
         NEW m \in Messages, m.type = "update", m.obj \in E
  PROVE  Trail(q, org, s, w, E, Append(sc, Effect(sc[Len(sc)], m)))
<1> DEFINE n == Len(q)
           k == Len(sc)
           at(i) == SceneAt(org, s, i)
           new == Effect(sc[Len(sc)], m)
           scn == Append(sc, new)
<1>1. n \in Nat /\ Len(org) = n /\ k \in Nat
  BY DEF Trail
<1>2. \A i \in 0 .. n : at(i) \in 2 .. k
  BY DEF Trail
<1>3. \A i \in 1 .. n :
         /\ q[i].type = "update"
         /\ at(i - 1) <= at(i)
         /\ \A o \in Objects \ E :
              sc[at(i)][o] = IF o = q[i].obj THEN q[i].val ELSE sc[at(i - 1)][o]
  BY DEF Trail
<1>4. \A o \in Objects \ E : w[o] = sc[s][o] /\ sc[at(n)][o] = sc[k][o]
  BY DEF Trail
<1>5. s \in 2 .. k
  BY <1>1, <1>2 DEF SceneAt
<1>6. /\ Len(scn) = k + 1 /\ scn[k + 1] = new
      /\ \A i \in 1 .. k : scn[i] = sc[i]
  <2>1. new \in Scene
    BY <1>1, <1>5, SceneType
  <2> HIDE DEF new
  <2> QED
    BY <2>1
<1>7. \A o \in Objects \ E : new[o] = sc[k][o]
  BY <1>1, <1>5, SceneType
<1> HIDE DEF n, k, at, new, scn
<1>8. \A i \in 0 .. n : at(i) \in 2 .. k + 1 /\ scn[at(i)] = sc[at(i)]
  BY <1>1, <1>6, <1>2
<1>9. \A i \in 1 .. n : i \in 0 .. n /\ i - 1 \in 0 .. n
  BY <1>1
<1>10. \A o \in Objects \ E : w[o] = scn[s][o] /\ scn[at(n)][o] = scn[k + 1][o]
  <2>1. scn[s] = sc[s] /\ scn[at(n)] = sc[at(n)] /\ scn[k + 1] = new
    BY <1>1, <1>5, <1>6, <1>8
  <2> QED
    BY <1>7, <1>4, <2>1
<1>11. \A i \in 1 .. n :
        /\ q[i].type = "update"
        /\ at(i - 1) <= at(i)
        /\ \A o \in Objects \ E :
             scn[at(i)][o] = IF o = q[i].obj THEN q[i].val ELSE scn[at(i - 1)][o]
  <2> SUFFICES ASSUME NEW i \in 1 .. n
               PROVE  /\ q[i].type = "update"
                      /\ at(i - 1) <= at(i)
                      /\ \A o \in Objects \ E :
                           scn[at(i)][o] =
                             IF o = q[i].obj THEN q[i].val ELSE scn[at(i - 1)][o]
    OBVIOUS
  <2>1. scn[at(i)] = sc[at(i)] /\ scn[at(i - 1)] = sc[at(i - 1)]
    BY <1>8, <1>9
  <2> QED
    BY <1>3, <2>1
<1> QED
  BY <1>1, <1>6, <1>8, <1>10, <1>11 DEF Trail, n, k, at, new, scn

\* An edit takes an object out of what is compared.
LEMMA TrailEdited ==
  ASSUME NEW q, NEW org, NEW s, NEW w, NEW E, NEW sc, Trail(q, org, s, w, E, sc),
         NEW v, NEW F, E \subseteq F, \A o \in Objects \ F : v[o] = w[o]
  PROVE  Trail(q, org, s, v, F, sc)
BY DEF Trail

\* The memory agrees with the session it is about.
MemoryInv ==
  /\ scenes \in Seq(Scene) /\ scenes # <<>>
  /\ scenes[Len(scenes)] = snapshot
  /\ joinable => Len(scenes) >= 2
  /\ origin \in [Channels -> Seq(Nat)]
  /\ \A c \in Channels : Len(origin[c]) = Len(down[c])
  /\ seen \in [Channels -> Nat]

\* The client shows a scene and is on its way to the last one.
OnTrail(c) == Trail(down[c], origin[c], seen[c], view[c], edited[c], scenes)

\* The client has yet to read the snapshot it was greeted with.
Awaiting(c) ==
  /\ phase[c] = "hello"
  /\ down[c] # <<>>
  /\ Head(down[c]).type = "snapshot"
  /\ Trail(Tail(down[c]), Tail(origin[c]), Head(origin[c]), Head(down[c]).scene,
           edited[c], scenes)

ClientInv(c) == Registered(c) => OnTrail(c) \/ Awaiting(c)

TrailInv == joinable => \A c \in Channels : ClientInv(c)

\* What is assumed of the session before and after a step.
Remembered == SyncHolds /\ SyncHolds' /\ MemoryInv

\* The memory of a session that starts.
LEMMA InitRemembers == HistoryInit => MemoryInv /\ TrailInv
<1> SUFFICES ASSUME HistoryInit PROVE MemoryInv /\ TrailInv
  OBVIOUS
<1>1. <<EmptyScene>> \in Seq(Scene) /\ <<EmptyScene>> # <<>> /\ Len(<<EmptyScene>>) = 1
      /\ <<EmptyScene>>[1] = EmptyScene
  BY SceneType
<1>2. <<>> \in Seq(Nat) /\ Len(<<>>) = 0
  OBVIOUS
<1> QED
  BY <1>1, <1>2 DEF HistoryInit, Init, MemoryInv, TrailInv

\* Each message that is sent is stamped, and nothing else.
LEMMA StampedOne ==
  ASSUME MemoryInv, TypeOK, NEW R, NEW m \in Messages, SendTo(R, m), Stamped,
         Len(scenes') \in Nat
  PROVE  /\ origin' \in [Channels -> Seq(Nat)]
         /\ \A d \in Channels :
              /\ Len(origin'[d]) = Len(down'[d])
              /\ IF d \in R /\ conn[d] = "open"
                 THEN /\ down'[d] = Append(down[d], m)
                      /\ origin'[d] = Append(origin[d], Len(scenes'))
                 ELSE down'[d] = down[d] /\ origin'[d] = origin[d]
<1> SUFFICES ASSUME NEW d \in Channels
             PROVE  /\ origin'[d] \in Seq(Nat)
                    /\ Len(origin'[d]) = Len(down'[d])
                    /\ IF d \in R /\ conn[d] = "open"
                       THEN /\ down'[d] = Append(down[d], m)
                            /\ origin'[d] = Append(origin[d], Len(scenes'))
                       ELSE down'[d] = down[d] /\ origin'[d] = origin[d]
  BY DEF Stamped
<1>1. /\ down[d] \in Seq(Messages) /\ origin[d] \in Seq(Nat) /\ Len(origin[d]) = Len(down[d])
      /\ down'[d] = IF d \in R /\ conn[d] = "open" THEN Append(down[d], m) ELSE down[d]
  BY SentTo DEF MemoryInv, TypeOK
<1>2. Len(Append(down[d], m)) = Len(down[d]) + 1 /\ Len(down[d]) \in Nat
  BY <1>1, Appended
<1>3. /\ Append(origin[d], Len(scenes')) \in Seq(Nat)
      /\ Len(Append(origin[d], Len(scenes'))) = Len(origin[d]) + 1
  BY <1>1
<1>4. Append(down[d], m) # down[d]
  BY <1>2
<1> QED
  BY <1>1, <1>2, <1>3, <1>4 DEF Stamped

\* A step of the session and its memory.
LEMMA HistorySteps ==
  HistoryNext => /\ [Next]_vars
                 /\ \/ UNCHANGED scenes
                    \/ scenes' = Append(scenes, snapshot')
                    \/ Reset /\ scenes' = <<EmptyScene>>
<1> SUFFICES ASSUME HistoryNext
             PROVE  /\ Next
                    /\ \/ UNCHANGED scenes
                       \/ scenes' = Append(scenes, snapshot')
                       \/ Reset /\ scenes' = <<EmptyScene>>
  OBVIOUS
<1>1. ASSUME NEW c \in Channels,
             \/ RecordSnapshot(c) \/ RecordUpdate(c) \/ RecordSent(c)
             \/ RecordReceived(c) \/ RecordLost(c)
      PROVE  Next /\ (UNCHANGED scenes \/ scenes' = Append(scenes, snapshot'))
  BY <1>1 DEF RecordSnapshot, RecordUpdate, RecordSent, RecordReceived, RecordLost,
    Next, Handle
<1>2. RecordReset => Next /\ Reset /\ scenes' = <<EmptyScene>>
  BY DEF RecordReset, Next
<1>3. Unrecorded => Next /\ UNCHANGED scenes
  BY DEF Unrecorded, history, Next, Handle
<1> QED
  BY <1>1, <1>2, <1>3 DEF HistoryNext

\* Whatever happens, the memory stays that of the session.
LEMMA MemoryStep ==
  ASSUME MemoryInv, TypeOK, TypeOK', [HistoryNext]_<<vars, history>>
  PROVE  MemoryInv'
<1>1. CASE UNCHANGED <<vars, history>>
  BY <1>1 DEF MemoryInv, vars, history, serverVars
<1>2. ASSUME scenes' = Append(scenes, snapshot')
      PROVE  /\ scenes' \in Seq(Scene) /\ scenes' # <<>> /\ Len(scenes') \in Nat
             /\ scenes'[Len(scenes')] = snapshot' /\ Len(scenes') >= 2
  <2>1. /\ scenes \in Seq(Scene) /\ scenes # <<>> /\ snapshot' \in Scene
    BY DEF MemoryInv, TypeOK
  <2> QED
    BY <1>2, <2>1
<1>3. ASSUME NEW c \in Channels, RecordSnapshot(c)
      PROVE  MemoryInv'
  <2>1. /\ UNCHANGED down /\ origin' = origin
        /\ seen' \in [Channels -> Nat]
    BY <1>2, <1>3 DEF RecordSnapshot, HandleSnapshot, Stamped, MemoryInv
  <2> QED
    BY <1>2, <1>3, <2>1 DEF RecordSnapshot, MemoryInv
<1>4. ASSUME NEW c \in Channels, RecordUpdate(c)
      PROVE  MemoryInv'
  <2>1. SendTo(ClientsExcept(c), Head(up[c])) /\ Head(up[c]) \in Messages
    BY <1>4, Taken DEF RecordUpdate, HandleUpdate, TypeOK
  <2>2. /\ origin' \in [Channels -> Seq(Nat)]
        /\ \A d \in Channels : Len(origin'[d]) = Len(down'[d])
    BY <1>2, <1>4, <2>1, StampedOne DEF RecordUpdate
  <2> QED
    BY <1>2, <1>4, <2>2 DEF RecordUpdate, MemoryInv
<1>5. ASSUME NEW c \in Channels, RecordSent(c)
      PROVE  MemoryInv'
  <2>1. /\ UNCHANGED <<snapshot, joinable>>
        /\ \E R, m : m \in Messages /\ SendTo(R, m)
    <3>1. CASE HandleHandshake(c)
      <4>1. (IF c \in Hosts THEN HandshakeAck ELSE Snapshot(snapshot)) \in Messages
        BY MessageKinds DEF TypeOK
      <4> QED
        BY <3>1, <4>1 DEF HandleHandshake
    <3>2. CASE HandleSessionClose(c)
      BY <3>2, MessageKinds DEF HandleSessionClose
    <3> QED
      BY <1>5, <3>1, <3>2 DEF RecordSent
  <2>2. Len(scenes') \in Nat /\ UNCHANGED <<scenes, seen>> /\ Stamped
    BY <1>5 DEF RecordSent, MemoryInv
  <2>3. /\ origin' \in [Channels -> Seq(Nat)]
        /\ \A d \in Channels : Len(origin'[d]) = Len(down'[d])
    BY <2>1, <2>2, StampedOne
  <2> QED
    BY <2>1, <2>2, <2>3 DEF MemoryInv
<1>6. ASSUME NEW c \in Channels, RecordReceived(c)
      PROVE  MemoryInv'
  <2>1. /\ down[c] \in Seq(Messages) /\ down[c] # <<>>
        /\ down'[c] = Tail(down[c])
        /\ \A d \in Channels \ {c} : down'[d] = down[d]
    BY <1>6, Received DEF RecordReceived
  <2>2. /\ origin[c] \in Seq(Nat) /\ Len(origin[c]) = Len(down[c])
        /\ Len(down[c]) \in Nat \ {0}
    BY <2>1 DEF MemoryInv
  <2>3. /\ Tail(origin[c]) \in Seq(Nat) /\ Head(origin[c]) \in Nat
        /\ Len(Tail(origin[c])) = Len(Tail(down[c]))
    BY <2>1, <2>2
  <2>4. /\ origin' \in [Channels -> Seq(Nat)] /\ seen' \in [Channels -> Nat]
        /\ origin'[c] = Tail(origin[c])
        /\ \A d \in Channels \ {c} : origin'[d] = origin[d]
    BY <1>6, <2>3 DEF RecordReceived, MemoryInv
  <2>5. UNCHANGED <<scenes, snapshot, joinable>>
    BY <1>6 DEF RecordReceived, Receive, serverVars
  <2> QED
    BY <2>1, <2>3, <2>4, <2>5 DEF MemoryInv
<1>7. ASSUME NEW c \in Channels, RecordLost(c)
      PROVE  MemoryInv'
  <2>1. /\ down' = [down EXCEPT ![c] = <<>>] /\ origin' = [origin EXCEPT ![c] = <<>>]
        /\ UNCHANGED <<scenes, seen, snapshot, joinable>>
    BY <1>7 DEF RecordLost, Lose, serverVars
  <2>2. <<>> \in Seq(Nat)
    OBVIOUS
  <2> QED
    BY <2>1, <2>2 DEF MemoryInv, TypeOK
<1>8. CASE RecordReset
  <2>1. /\ <<EmptyScene>> \in Seq(Scene) /\ <<EmptyScene>> # <<>>
        /\ Len(<<EmptyScene>>) = 1 /\ <<EmptyScene>>[1] = EmptyScene
    BY SceneType
  <2> QED
    BY <1>8, <2>1 DEF RecordReset, Reset, MemoryInv
<1>9. CASE Unrecorded
  <2>1. UNCHANGED <<down, snapshot, joinable>>
    BY <1>9 DEF Unrecorded, Connect, Edit, EndSession, OnClose, LoopEnds, Activate,
      StartServer, serverVars
  <2> QED
    BY <1>9, <2>1 DEF Unrecorded, history, MemoryInv
<1> QED
  BY <1>1, <1>3, <1>4, <1>5, <1>6, <1>7, <1>8, <1>9 DEF HistoryNext

\* A client whose connection, queue and scenes stay as they are keeps its trail.
LEMMA TrailKept ==
  ASSUME NEW c \in Channels, ClientInv(c), Registered(c)' => Registered(c),
         UNCHANGED scenes, down'[c] = down[c], origin'[c] = origin[c],
         seen'[c] = seen[c], view'[c] = view[c], phase'[c] = phase[c],
         edited'[c] = edited[c]
  PROVE  ClientInv(c)'
BY DEF ClientInv, OnTrail, Awaiting

\* What a client does, and what is done to its connection.
LEMMA ClientTrails ==
  ASSUME Remembered, TrailInv, Unrecorded, joinable'
  PROVE  \A d \in Channels : ClientInv(d)'
<1> SUFFICES ASSUME NEW d \in Channels
             PROVE  ClientInv(d)'
  OBVIOUS
<1> USE DEF Remembered, SyncHolds, BaseInv
<1>1. joinable /\ UNCHANGED <<scenes, origin, seen>> /\ UNCHANGED down
  BY DEF Unrecorded, history, Connect, Edit, EndSession, OnClose, LoopEnds, Activate,
    StartServer, serverVars
<1>2. ClientInv(d)
  BY <1>1 DEF TrailInv
<1>3. ASSUME NEW c \in Channels, Connect(c)
      PROVE  ClientInv(d)'
  <2>1. d # c => /\ conn'[d] = conn[d] /\ view'[d] = view[d] /\ phase'[d] = phase[d]
    BY <1>3 DEF Connect, TypeOK
  <2>2. UNCHANGED <<clients, edited>>
    BY <1>3 DEF Connect, serverVars
  <2>3. c \notin clients
    BY <1>3 DEF Connect, TableInv, Here
  <2> QED
    BY <1>1, <1>2, <2>1, <2>2, <2>3, TrailKept DEF Registered, ClientInv
<1>4. ASSUME NEW c \in Channels, Edit(c)
      PROVE  ClientInv(d)'
  <2>1. /\ UNCHANGED <<conn, clients, phase>> /\ phase[c] = "joined"
        /\ d # c => edited'[d] = edited[d] /\ view'[d] = view[d]
    BY <1>4 DEF Edit, serverVars, TypeOK
  <2>2. CASE d # c
    BY <1>1, <1>2, <2>1, <2>2, TrailKept DEF Registered
  <2>3. CASE d = c
    <3>1. PICK o \in Objects, v \in Values \cup {None} :
            /\ view' = [view EXCEPT ![c] = Effect(@, Update(o, v))]
            /\ edited' = [edited EXCEPT ![c] = @ \cup {o}]
      BY <1>4 DEF Edit
    <3>2. Update(o, v) \in Messages /\ Update(o, v).type = "update" /\ Update(o, v).obj = o
      BY MessageKinds, Built
    <3>3. /\ edited'[c] = edited[c] \cup {o}
          /\ \A x \in Objects \ (edited[c] \cup {o}) : view'[c][x] = view[c][x]
      BY <3>1, <3>2, SceneType DEF TypeOK
    <3>4. ASSUME OnTrail(c)
          PROVE  OnTrail(c)'
      <4>1. Trail(down[c], origin[c], seen[c], view'[c], edited'[c], scenes)
        BY <3>3, <3>4, TrailEdited DEF OnTrail
      <4> QED
        BY <1>1, <4>1 DEF OnTrail
    <3> QED
      BY <1>2, <2>1, <2>3, <3>4 DEF ClientInv, Awaiting, Registered
  <2> QED
    BY <2>2, <2>3
<1>5. ASSUME NEW c \in Channels, EndSession(c)
      PROVE  ClientInv(d)'
  <2>1. /\ UNCHANGED <<conn, clients, view, edited>> /\ phase[c] = "joined"
        /\ d # c => phase'[d] = phase[d]
    BY <1>5 DEF EndSession, serverVars, TypeOK
  <2>2. CASE d # c
    BY <1>1, <1>2, <2>1, <2>2, TrailKept DEF Registered
  <2>3. CASE d = c
    BY <1>1, <1>2, <2>1, <2>3 DEF ClientInv, OnTrail, Awaiting, Registered
  <2> QED
    BY <2>2, <2>3
<1>6. ASSUME NEW c \in Channels, OnClose(c)
      PROVE  ClientInv(d)'
  <2>1. /\ UNCHANGED <<view, phase, edited>>
        /\ d # c => conn'[d] = conn[d]
        /\ conn'[c] = "closed" /\ clients' \subseteq clients
    BY <1>6 DEF OnClose, clientVars, TypeOK
  <2> QED
    BY <1>1, <1>2, <2>1, TrailKept DEF Registered
<1>7. CASE LoopEnds
  <2>1. UNCHANGED <<view, phase, edited>> /\ conn'[d] # "open"
    BY <1>7 DEF LoopEnds, clientVars, TypeOK
  <2> QED
    BY <2>1 DEF ClientInv, Registered
<1>8. CASE Activate \/ StartServer
  <2>1. UNCHANGED <<view, phase, edited, conn, clients>>
    BY <1>8 DEF Activate, StartServer, clientVars
  <2> QED
    BY <1>1, <1>2, <2>1, TrailKept DEF Registered
<1> QED
  BY <1>3, <1>4, <1>5, <1>6, <1>7, <1>8 DEF Unrecorded

\* A client reads the snapshot it was greeted with, or the next update.
LEMMA ReceivedTrails ==
  ASSUME Remembered, TrailInv, NEW c \in Channels, RecordReceived(c), joinable'
  PROVE  /\ \A d \in Channels : ClientInv(d)'
         /\ Registered(c) /\ phase[c] = "joined" => seen[c] <= seen'[c]
<1> USE DEF Remembered, SyncHolds, BaseInv
<1>1. /\ joinable /\ UNCHANGED <<scenes, conn, clients, edited>>
      /\ Receive(c)
  BY DEF RecordReceived, Receive, serverVars
<1>2. /\ down[c] \in Seq(Messages) /\ down[c] # <<>>
      /\ Head(down[c]) = down[c][1] /\ down[c][1] \in Messages
      /\ down'[c] = Tail(down[c])
      /\ \A d \in Channels \ {c} : down'[d] = down[d]
  BY <1>1, Received
<1>3. /\ origin[c] \in Seq(Nat) /\ Len(origin[c]) = Len(down[c]) /\ seen[c] \in Nat
      /\ origin'[c] = Tail(origin[c]) /\ seen'[c] = Head(origin[c])
      /\ \A d \in Channels \ {c} : origin'[d] = origin[d] /\ seen'[d] = seen[d]
  BY DEF RecordReceived, MemoryInv
<1>4. view[c] \in Scene /\ scenes \in Seq(Scene)
  BY DEF TypeOK, MemoryInv
<1>5. /\ Head(down[c]).type = "update" => view'[c] = Effect(view[c], Head(down[c]))
      /\ Head(down[c]).type = "snapshot" => view'[c] = Head(down[c]).scene
      /\ \A d \in Channels \ {c} : view'[d] = view[d] /\ phase'[d] = phase[d]
  BY <1>1, <1>2 DEF Receive, TypeOK
<1>6. ASSUME NEW d \in Channels \ {c}
      PROVE  ClientInv(d)'
  <2>1. ClientInv(d)
    BY <1>1 DEF TrailInv
  <2> QED
    BY <1>1, <1>2, <1>3, <1>5, <2>1, TrailKept DEF Registered
<1>7. Registered(c)' => Registered(c)
  BY <1>1 DEF Registered
<1>8. ASSUME OnTrail(c)
      PROVE  OnTrail(c)' /\ seen[c] <= seen'[c]
  <2>1. Trail(down[c], origin[c], seen[c], view[c], edited[c], scenes)
    BY <1>8 DEF OnTrail
  <2>2. /\ Head(down[c]).type = "update"
        /\ seen[c] <= Head(origin[c])
        /\ Trail(Tail(down[c]), Tail(origin[c]), Head(origin[c]),
                 Effect(view[c], Head(down[c])), edited[c], scenes)
    BY <1>2, <1>3, <1>4, <2>1, TrailTaken
  <2> QED
    BY <1>1, <1>2, <1>3, <1>5, <2>2 DEF OnTrail
<1>9. ASSUME Awaiting(c)
      PROVE  OnTrail(c)'
  BY <1>1, <1>2, <1>3, <1>5, <1>9 DEF OnTrail, Awaiting
<1>10. ClientInv(c)
  BY <1>1 DEF TrailInv
<1> QED
  BY <1>6, <1>7, <1>8, <1>9, <1>10 DEF ClientInv, Awaiting

\* The server greets a guest with its scene, or closes the session.
LEMMA SentTrails ==
  ASSUME Remembered, TrailInv, NEW c \in Channels, RecordSent(c), joinable'
  PROVE  \A d \in Channels : ClientInv(d)'
<1> SUFFICES ASSUME NEW d \in Channels
             PROVE  ClientInv(d)'
  OBVIOUS
<1> USE DEF Remembered, SyncHolds, BaseInv
<1>1. CASE HandleSessionClose(c)
  <2>1. clients' = {}
    BY <1>1 DEF HandleSessionClose
  <2> QED
    BY <2>1 DEF ClientInv, Registered
<1>2. CASE HandleHandshake(c)
  <2>1. /\ joinable /\ UNCHANGED <<scenes, seen, conn, snapshot, view, phase, edited>>
        /\ clients' = clients \cup {c} /\ Stamped
        /\ SendTo({c}, IF c \in Hosts THEN HandshakeAck ELSE Snapshot(snapshot))
    BY <1>2, Served DEF RecordSent, HandleHandshake, clientVars
  <2>2. Fresh(c) /\ c \notin Hosts
    BY <1>2, <2>1, Served
  <2>3. SendTo({c}, Snapshot(snapshot)) /\ Snapshot(snapshot) \in Messages
    BY <2>1, <2>2, MessageKinds DEF TypeOK
  <2>4. /\ origin[c] \in Seq(Nat) /\ Len(origin[c]) = 0 /\ Len(scenes') \in Nat
        /\ Len(scenes) \in Nat /\ Len(scenes) >= 2 /\ scenes[Len(scenes)] = snapshot
        /\ scenes \in Seq(Scene)
    BY <2>1, <2>2, EmptyQueue DEF Fresh, MemoryInv
  <2>5. origin[c] = <<>>
    BY <2>4
  <2>6. IF d = c /\ conn[d] = "open"
        THEN /\ down'[d] = Append(down[d], Snapshot(snapshot))
             /\ origin'[d] = Append(origin[d], Len(scenes'))
        ELSE down'[d] = down[d] /\ origin'[d] = origin[d]
    BY <2>1, <2>3, <2>4, StampedOne
  <2>7. CASE d # c
    <3>1. ClientInv(d)
      BY <2>1 DEF TrailInv
    <3> QED
      BY <2>1, <2>6, <2>7, <3>1, TrailKept DEF Registered
  <2>8. CASE d = c /\ conn[c] # "open"
    BY <2>1, <2>8 DEF ClientInv, Registered
  <2>9. CASE d = c /\ conn[c] = "open"
    <3>1. down'[c] = <<Snapshot(snapshot)>> /\ origin'[c] = <<Len(scenes)>>
      BY <2>1, <2>2, <2>5, <2>6, <2>9 DEF Fresh
    <3>2. /\ Head(down'[c]) = Snapshot(snapshot) /\ Tail(down'[c]) = <<>>
          /\ down'[c] # <<>>
          /\ Head(origin'[c]) = Len(scenes) /\ Tail(origin'[c]) = <<>>
      BY <3>1
    <3>3. Trail(<<>>, <<>>, Len(scenes), snapshot, edited[c], scenes)
      BY <2>4, TrailStarts
    <3>4. /\ Head(down'[c]).type = "snapshot" /\ Head(down'[c]).scene = snapshot
          /\ phase'[c] = "hello" /\ UNCHANGED <<edited, scenes>>
      BY <2>1, <2>2, <3>2, Built DEF Fresh
    <3>5. Awaiting(c)'
      BY <3>2, <3>3, <3>4 DEF Awaiting
    <3> QED
      BY <2>9, <3>5 DEF ClientInv
  <2> QED
    BY <2>7, <2>8, <2>9
<1> QED
  BY <1>1, <1>2 DEF RecordSent

\* The upload finds nobody but the host, which shows it already.
LEMMA UploadTrails ==
  ASSUME Remembered, MemoryInv', NEW c \in Channels, RecordSnapshot(c)
  PROVE  \A d \in Channels : ClientInv(d)'
<1> SUFFICES ASSUME NEW d \in Channels
             PROVE  ClientInv(d)'
  OBVIOUS
<1> USE DEF Remembered, SyncHolds, BaseInv
<1>1. /\ HandleSnapshot(c) /\ joinable' /\ UNCHANGED <<conn, down, clients>>
      /\ scenes' = Append(scenes, snapshot') /\ Stamped
      /\ seen' = [seen EXCEPT ![c] = Len(scenes')]
      /\ snapshot' = Head(up[c]).scene /\ up[c] # <<>>
  BY DEF RecordSnapshot, HandleSnapshot
<1>2. loop = "running" /\ ~joinable /\ c \in Hosts /\ clients = {c}
  BY <1>1, Served
<1>3. down[c] = <<>>
  BY <1>1, <1>2 DEF SyncInv, UploadInv
<1>4. CASE d # c
  BY <1>1, <1>2, <1>4 DEF ClientInv, Registered
<1>5. CASE d = c /\ Registered(c)'
  <2>1. origin'[c] = <<>> /\ seen'[c] = Len(scenes')
    <3>1. origin[c] \in Seq(Nat) /\ Len(origin[c]) = 0 /\ seen \in [Channels -> Nat]
      BY <1>3, EmptyQueue DEF MemoryInv
    <3> QED
      BY <1>1, <3>1 DEF Stamped
  <2>2. \A o \in Objects \ edited'[c] : view'[c][o] = snapshot'[o]
    <3> SUFFICES ASSUME NEW o \in Objects \ edited'[c]
                 PROVE  view'[c][o] = snapshot'[o]
      OBVIOUS
    <3>1. Leaves(down'[c], o, view'[c][o], snapshot'[o])
      BY <1>1, <1>5 DEF SyncInv, ReadersInSync
    <3> QED
      BY <1>1, <1>3, <3>1, LeavesEmpty
  <2>3. /\ scenes' \in Seq(Scene) /\ Len(scenes') >= 2 /\ scenes'[Len(scenes')] = snapshot'
    BY <1>1 DEF MemoryInv
  <2>4. Trail(<<>>, <<>>, Len(scenes'), view'[c], edited'[c], scenes')
    BY <2>2, <2>3, TrailStarts
  <2>5. OnTrail(c)'
    BY <1>1, <1>3, <2>1, <2>4 DEF OnTrail
  <2> QED
    BY <1>5, <2>5 DEF ClientInv
<1> QED
  BY <1>4, <1>5 DEF ClientInv

\* An update takes the server to its next scene and every other client, by
\* what it is sent, after it.
LEMMA UpdateTrails ==
  ASSUME Remembered, TrailInv, NEW c \in Channels, RecordUpdate(c)
  PROVE  \A d \in Channels : ClientInv(d)'
<1> SUFFICES ASSUME NEW d \in Channels
             PROVE  ClientInv(d)'
  OBVIOUS
<1> USE DEF Remembered, SyncHolds, BaseInv
<1> DEFINE m == Head(up[c])
<1>1. /\ HandleUpdate(c) /\ UNCHANGED <<conn, clients, joinable, view, phase, edited, seen>>
      /\ scenes' = Append(scenes, snapshot') /\ Stamped
      /\ snapshot' = Effect(snapshot, m) /\ up[c] # <<>> /\ m.type = "update"
      /\ SendTo(clients \ {c}, m)
  BY DEF RecordUpdate, HandleUpdate, clientVars, Apply, ClientsExcept
<1>2. joinable /\ ClientInv(d)
  BY <1>1, Served DEF TrailInv
<1>3. m \in Messages /\ m = up[c][1] /\ 1 \in DOMAIN up[c]
  BY <1>1, Taken DEF TypeOK
<1>4. m.obj \in edited[c]
  BY <1>1, <1>3 DEF MarkedInv
<1> HIDE DEF m
<1>5. /\ scenes \in Seq(Scene) /\ scenes[Len(scenes)] = snapshot /\ Len(scenes) \in Nat
      /\ snapshot' \in Scene /\ Len(scenes') = Len(scenes) + 1
      /\ scenes' = Append(scenes, Effect(scenes[Len(scenes)], m))
  BY <1>1 DEF MemoryInv, TypeOK
<1>6. /\ down[d] \in Seq(Messages) /\ origin[d] \in Seq(Nat)
      /\ Len(origin[d]) = Len(down[d]) /\ seen[d] \in Nat
  BY DEF TypeOK, MemoryInv
<1>7. Len(scenes') \in Nat
  BY <1>5
<1>8. IF d \in clients \ {c} /\ conn[d] = "open"
      THEN /\ down'[d] = Append(down[d], m)
           /\ origin'[d] = Append(origin[d], Len(scenes) + 1)
      ELSE down'[d] = down[d] /\ origin'[d] = origin[d]
  BY <1>1, <1>3, <1>5, <1>7, StampedOne
<1> SUFFICES ASSUME Registered(d)
             PROVE  OnTrail(d)' \/ Awaiting(d)'
  BY <1>1 DEF ClientInv, Registered
<1>9. CASE d = c
  <2>1. down'[d] = down[d] /\ origin'[d] = origin[d]
    BY <1>8, <1>9
  <2>2. ASSUME OnTrail(d) PROVE OnTrail(d)'
    <3>1. Trail(down[d], origin[d], seen[d], view[d], edited[d], scenes')
      BY <1>1, <1>3, <1>4, <1>5, <1>6, <1>9, <2>2, TrailOwn DEF OnTrail
    <3> QED
      BY <1>1, <2>1, <3>1 DEF OnTrail
  <2>3. ASSUME Awaiting(d) PROVE Awaiting(d)'
    <3>1. /\ down[d] # <<>> /\ origin[d] # <<>>
          /\ Trail(Tail(down[d]), Tail(origin[d]), Head(origin[d]), Head(down[d]).scene,
                   edited[d], scenes)
      BY <1>6, <2>3, EmptyQueue DEF Awaiting
    <3>2. /\ Tail(down[d]) \in Seq(Messages) /\ Tail(origin[d]) \in Seq(Nat)
          /\ Head(origin[d]) \in Nat
      BY <1>6, <3>1
    <3>3. Trail(Tail(down[d]), Tail(origin[d]), Head(origin[d]), Head(down[d]).scene,
                edited[d], scenes')
      BY <1>1, <1>3, <1>4, <1>5, <1>9, <3>1, <3>2, TrailOwn
    <3> QED
      BY <1>1, <2>1, <2>3, <3>3 DEF Awaiting
  <2> QED
    BY <1>2, <2>2, <2>3 DEF ClientInv
<1>10. CASE d # c
  <2>1. /\ down'[d] = Append(down[d], m)
        /\ origin'[d] = Append(origin[d], Len(scenes) + 1)
    BY <1>8, <1>10 DEF Registered
  <2>2. ASSUME OnTrail(d) PROVE OnTrail(d)'
    <3>1. Trail(Append(down[d], m), Append(origin[d], Len(scenes) + 1), seen[d], view[d],
                edited[d], scenes')
      BY <1>1, <1>3, <1>5, <1>6, <2>2, TrailSent DEF OnTrail
    <3> QED
      BY <1>1, <2>1, <3>1 DEF OnTrail
  <2>3. ASSUME Awaiting(d) PROVE Awaiting(d)'
    <3>1. /\ down[d] # <<>> /\ origin[d] # <<>>
          /\ Trail(Tail(down[d]), Tail(origin[d]), Head(origin[d]), Head(down[d]).scene,
                   edited[d], scenes)
      BY <1>6, <2>3, EmptyQueue DEF Awaiting
    <3>2. /\ Tail(down[d]) \in Seq(Messages) /\ Tail(origin[d]) \in Seq(Nat)
          /\ Head(origin[d]) \in Nat
      BY <1>6, <3>1
    <3>3. Trail(Append(Tail(down[d]), m), Append(Tail(origin[d]), Len(scenes) + 1),
                Head(origin[d]), Head(down[d]).scene, edited[d], scenes')
      BY <1>1, <1>3, <1>5, <3>1, <3>2, TrailSent
    <3>6. Append(down[d], m) # <<>>
      BY <1>3, <1>6, Appended, EmptyQueue
    <3>4. /\ Head(Append(down[d], m)) = Head(down[d])
          /\ Tail(Append(down[d], m)) = Append(Tail(down[d]), m)
      BY <1>6, <3>1, HeadTailAppend
    <3>5. /\ Head(Append(origin[d], Len(scenes) + 1)) = Head(origin[d])
          /\ Tail(Append(origin[d], Len(scenes) + 1)) = Append(Tail(origin[d]), Len(scenes) + 1)
      BY <1>6, <3>1, HeadTailAppend
    <3> QED
      BY <1>1, <2>1, <2>3, <3>3, <3>4, <3>5, <3>6 DEF Awaiting
  <2> QED
    BY <1>2, <2>2, <2>3 DEF ClientInv
<1> QED
  BY <1>9, <1>10

\* After the upload every client is on its trail, whatever the others do.
LEMMA TrailStep ==
  ASSUME Remembered, MemoryInv', TrailInv, [HistoryNext]_<<vars, history>>
  PROVE  TrailInv'
<1> SUFFICES ASSUME joinable'
             PROVE  \A d \in Channels : ClientInv(d)'
  BY DEF TrailInv
<1>1. CASE UNCHANGED <<vars, history>>
  <2> SUFFICES ASSUME NEW d \in Channels
               PROVE  ClientInv(d)'
    OBVIOUS
  <2>1. joinable /\ UNCHANGED <<vars, scenes, origin, seen>>
    BY <1>1 DEF vars, history, serverVars
  <2>2. ClientInv(d)
    BY <2>1 DEF TrailInv
  <2> QED
    BY <2>1, <2>2, TrailKept DEF vars, serverVars, clientVars, Registered
<1>2. ASSUME NEW c \in Channels, RecordLost(c)
      PROVE  \A d \in Channels : ClientInv(d)'
  <2> SUFFICES ASSUME NEW d \in Channels
               PROVE  ClientInv(d)'
    OBVIOUS
  <2>1. /\ joinable /\ UNCHANGED <<scenes, seen, clients, view, phase, edited>>
        /\ conn' = [conn EXCEPT ![c] = "lost"]
        /\ down' = [down EXCEPT ![c] = <<>>] /\ origin' = [origin EXCEPT ![c] = <<>>]
    BY <1>2 DEF RecordLost, Lose, serverVars, clientVars
  <2>2. ClientInv(d)
    BY <2>1 DEF TrailInv
  <2>3. CASE d = c
    BY <2>1, <2>3 DEF Remembered, SyncHolds, BaseInv, TypeOK, ClientInv, Registered
  <2>4. CASE d # c
    <3>1. conn'[d] = conn[d] /\ down'[d] = down[d] /\ origin'[d] = origin[d]
      BY <2>1, <2>4 DEF Remembered, SyncHolds, BaseInv, TypeOK, MemoryInv
    <3> QED
      BY <2>1, <2>2, <3>1, TrailKept DEF Registered
  <2> QED
    BY <2>3, <2>4
<1>3. ~RecordReset
  BY DEF RecordReset, Reset
<1> QED
  BY <1>1, <1>2, <1>3, ClientTrails, ReceivedTrails, SentTrails, UploadTrails, UpdateTrails
  DEF HistoryNext

\* The memory adds nothing to what the session does.
THEOREM HistoryIsSession == HistorySpec => Spec
<1>1. HistoryInit => Init
  BY DEF HistoryInit
<1>2. [HistoryNext]_<<vars, history>> => [Next]_vars
  BY HistorySteps
<1> QED
  BY <1>1, <1>2, PTL DEF HistorySpec, Spec

\* The inductive invariant of the memory, on top of that of the session.
THEOREM HistoryInvariance ==
  HistorySpec => [](CollabInv /\ MemoryInv /\ (UploadFirst => TrailInv))
<1> DEFINE HistoryInv == MemoryInv /\ (UploadFirst => TrailInv)
<1>1. HistoryInit => HistoryInv
  BY InitRemembers
<1>2. HistoryInv /\ CollabInv /\ CollabInv' /\ [HistoryNext]_<<vars, history>> => HistoryInv'
  <2> SUFFICES ASSUME HistoryInv, CollabInv, CollabInv', [HistoryNext]_<<vars, history>>
               PROVE  HistoryInv'
    OBVIOUS
  <2>1. MemoryInv'
    BY MemoryStep DEF CollabInv, BaseInv
  <2>2. ASSUME UploadFirst
        PROVE  TrailInv'
    <3>1. Remembered
      BY <2>2 DEF Remembered, CollabInv, SyncHolds
    <3> QED
      BY <2>1, <2>2, <3>1, TrailStep
  <2> QED
    BY <2>1, <2>2
<1> HIDE DEF HistoryInv
<1>3. HistorySpec => [](CollabInv /\ HistoryInv)
  BY <1>1, <1>2, HistoryIsSession, Invariance, PTL DEF HistorySpec
<1>4. CollabInv /\ HistoryInv => CollabInv /\ MemoryInv /\ (UploadFirst => TrailInv)
  BY DEF HistoryInv
<1> QED
  BY <1>3, <1>4, PTL

\* Where guests connect after the host's upload, whoever has joined shows one
\* scene of the server, apart from its own edits, however many clients edit.
THEOREM OneSceneIsSeen ==
  ASSUME UploadFirst
  PROVE  HistorySpec => []SeesOneScene
<1>1. MemoryInv /\ TrailInv => SeesOneScene
  <2> SUFFICES ASSUME MemoryInv, TrailInv, joinable, NEW c \in Channels,
                      Registered(c), phase[c] = "joined"
               PROVE  /\ seen[c] \in 2 .. Len(scenes)
                      /\ \A o \in Objects \ edited[c] : view[c][o] = scenes[seen[c]][o]
    BY DEF SeesOneScene
  <2>1. Trail(down[c], origin[c], seen[c], view[c], edited[c], scenes)
    BY DEF TrailInv, ClientInv, Awaiting, OnTrail
  <2>2. SceneAt(origin[c], seen[c], 0) = seen[c] /\ 0 \in 0 .. Len(down[c])
    BY DEF SceneAt, MemoryInv
  <2> QED
    BY <2>1, <2>2 DEF Trail
<1> QED
  BY <1>1, HistoryInvariance, PTL

\* Under the same assumption nobody is taken back to an earlier scene.
THEOREM SeenOnlyAdvances ==
  ASSUME UploadFirst
  PROVE  HistorySpec => NeverBack
<1> DEFINE Inv == CollabInv /\ MemoryInv /\ (UploadFirst => TrailInv)
           Advance == joinable =>
             \A c \in Channels :
               Registered(c) /\ phase[c] = "joined" /\ Registered(c)' => seen[c] <= seen'[c]
<1>1. Inv /\ Inv' /\ [HistoryNext]_<<vars, history>> => [Advance]_<<vars, history>>
  <2> SUFFICES ASSUME Inv, Inv', HistoryNext, joinable, NEW c \in Channels,
                      Registered(c), phase[c] = "joined"
               PROVE  seen[c] <= seen'[c]
    OBVIOUS
  <2>1. Remembered /\ TrailInv /\ seen \in [Channels -> Nat]
    BY DEF Remembered, SyncHolds, CollabInv, MemoryInv
  <2>2. ASSUME NEW d \in Channels, RecordSnapshot(d)
        PROVE  FALSE
    BY <2>1, <2>2, Served DEF RecordSnapshot, Remembered
  <2>3. ASSUME NEW d \in Channels, RecordReceived(d)
        PROVE  seen[c] <= seen'[c]
    <3>1. joinable'
      BY <2>3 DEF RecordReceived, Receive, serverVars
    <3>2. CASE d = c
      BY <2>1, <2>3, <3>1, <3>2, ReceivedTrails
    <3>3. CASE d # c
      BY <2>1, <2>3, <3>3 DEF RecordReceived
    <3> QED
      BY <3>2, <3>3
  <2>4. UNCHANGED seen => seen[c] <= seen'[c]
    BY <2>1
  <2> QED
    BY <2>2, <2>3, <2>4 DEF HistoryNext, RecordUpdate, RecordSent, RecordLost, RecordReset,
      Unrecorded, history
<1> QED
  BY <1>1, HistoryInvariance, PTL DEF HistorySpec, NeverBack

=============================================================================
