---------------------------- MODULE CollabHistory ----------------------------
(***************************************************************************)
(* CollabSession with a memory, to say what it is that clients see:        *)
(* PerfectServer::handle_snapshot and handle_update take the server from   *)
(* one scene to the next and handle_update relays each change, but no      *)
(* message says which scene it belongs to.  The three variables keep what  *)
(* is forgotten, follow every step of the session and hinder none.         *)
(***************************************************************************)
EXTENDS CollabSession

VARIABLES
  scenes,  \* the server's scenes since the session was last reset
  origin,  \* for each message in down, the number of the scene it left behind
  seen     \* the number of the scene each client has got to

history == <<scenes, origin, seen>>

HistoryInit ==
  /\ Init
  /\ scenes = <<EmptyScene>>
  /\ origin = [c \in Channels |-> <<>>]
  /\ seen = [c \in Channels |-> 0]

\* What is sent in a step comes from the scene the step leaves behind.
Stamped ==
  origin' = [c \in Channels |->
               IF down'[c] = down[c] THEN origin[c] ELSE Append(origin[c], Len(scenes'))]

\* A host has got to the scene it uploads.
RecordSnapshot(c) ==
  /\ HandleSnapshot(c)
  /\ scenes' = Append(scenes, snapshot')
  /\ seen' = [seen EXCEPT ![c] = Len(scenes')]
  /\ Stamped

RecordUpdate(c) ==
  /\ HandleUpdate(c)
  /\ scenes' = Append(scenes, snapshot')
  /\ UNCHANGED seen
  /\ Stamped

RecordSent(c) ==
  /\ HandleHandshake(c) \/ HandleSessionClose(c)
  /\ UNCHANGED <<scenes, seen>>
  /\ Stamped

RecordReceived(c) ==
  /\ Receive(c)
  /\ seen' = [seen EXCEPT ![c] = Head(origin[c])]
  /\ origin' = [origin EXCEPT ![c] = Tail(@)]
  /\ UNCHANGED scenes

RecordLost(c) ==
  /\ Lose(c)
  /\ origin' = [origin EXCEPT ![c] = <<>>]
  /\ UNCHANGED <<scenes, seen>>

RecordReset ==
  /\ Reset
  /\ scenes' = <<EmptyScene>>
  /\ UNCHANGED <<origin, seen>>

Unrecorded ==
  /\ \/ \E c \in Channels : Connect(c) \/ Edit(c) \/ EndSession(c) \/ OnClose(c)
     \/ LoopEnds \/ Activate \/ StartServer
  /\ UNCHANGED history

HistoryNext ==
  \/ \E c \in Channels :
       \/ RecordSnapshot(c) \/ RecordUpdate(c) \/ RecordSent(c)
       \/ RecordReceived(c) \/ RecordLost(c)
  \/ RecordReset
  \/ Unrecorded

HistorySpec == HistoryInit /\ [][HistoryNext]_<<vars, history>>

\* A client that has joined shows, but for the objects it has edited itself,
\* one scene the server has had since the upload: never a mixture of two, and
\* never part of an update (PerfectServer::handle_handshake, handle_update).
SeesOneScene ==
  joinable =>
    \A c \in Channels :
      Registered(c) /\ phase[c] = "joined" =>
        /\ seen[c] \in 2 .. Len(scenes)
        /\ \A o \in Objects \ edited[c] : view[c][o] = scenes[seen[c]][o]

\* ... and goes from it only to later ones, however updates cross.
NeverBack ==
  [][joinable =>
       \A c \in Channels :
         Registered(c) /\ phase[c] = "joined" /\ Registered(c)' => seen[c] <= seen'[c]]_<<vars, history>>
=============================================================================
