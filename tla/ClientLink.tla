----------------------------- MODULE ClientLink -----------------------------
(***************************************************************************)
(* A client's WebSocket connection: NetClient, whose flags connected and   *)
(* connecting are set by the client's thread and by the callbacks on       *)
(* libhv's loop thread, and Client::connect_client(), which tries until a  *)
(* connection is there or its patience ends.  Every load and store of a    *)
(* flag is a step of its own.                                              *)
(*                                                                         *)
(* Links are numbered as open() creates them.  What becomes of a link is   *)
(* up to the server and the network.  NetClient gives all its links the    *)
(* same callbacks and cannot tell whose callback it is that runs.          *)
(***************************************************************************)
EXTENDS Naturals, Sequences

CONSTANTS
  Tries,        \* rounds of connect_client(), 20 in the code
  MaxLinks,     \* bound: links opened in all
  MaxQueue      \* bound: messages in the queue

ASSUME LinkAssumption ==
  /\ Tries \in Nat \ {0}
  /\ MaxLinks \in Nat \ {0}
  /\ MaxQueue \in Nat

Links == 1 .. MaxLinks

VARIABLES
  connected, connecting,  \* the atomics of NetClient
  messages,  \* NetClient::messages, each by the link it came over
  pc,        \* the client's thread
  round,     \* i of connect_client()
  done,      \* Client::timeToShutdown
  loop,      \* libhv's loop thread: "idle" or half-way through a callback
  link,      \* each link: "unused", "opening", "up", "broken", "closed"
  latest,    \* the link ws.send() and ws.close() work on; 0: none yet
  closing,   \* ws.close() has been called for it and not carried out
  refused,   \* history: an open() failed at once, without a callback
  overlap    \* history: a connect() has met a callback half-way

flagVars == <<connected, connecting>>
netVars == <<link, latest, closing, refused>>
vars == <<flagVars, messages, pc, round, done, loop, netVars, overlap>>

\* The points of connect(), in the order of its statements.
ConnectPoints == {"load_connected", "load_connecting", "mark", "open"}

TypeOK ==
  /\ connected \in BOOLEAN
  /\ connecting \in BOOLEAN
  /\ messages \in Seq(Links)
  /\ pc \in {"idle", "is_connected", "is_connecting", "sleep", "last",
             "send", "close", "clear_connected", "clear_connecting"}
            \cup ConnectPoints
  /\ round \in 0 .. Tries
  /\ done \in BOOLEAN
  /\ loop \in {"idle", "onopen", "onclose"}
  /\ link \in [Links -> {"unused", "opening", "up", "broken", "closed"}]
  /\ latest \in 0 .. MaxLinks
  /\ closing \in BOOLEAN
  /\ refused \in BOOLEAN
  /\ overlap \in BOOLEAN

Init ==
  /\ connected = FALSE
  /\ connecting = FALSE
  /\ messages = <<>>
  /\ pc = "idle"
  /\ round = 0
  /\ done = FALSE
  /\ loop = "idle"
  /\ link = [l \in Links |-> "unused"]
  /\ latest = 0
  /\ closing = FALSE
  /\ refused = FALSE
  /\ overlap = FALSE

-----------------------------------------------------------------------------
(* connect_client(): a step of the client's thread that only moves on.     *)

Goto(from, to) ==
  /\ pc = from
  /\ pc' = to

OnlyGoto == UNCHANGED <<flagVars, messages, round, done, loop, netVars>>

\* Only while the bound leaves a link for every round.
ConnectClient ==
  /\ ~done
  /\ latest + Tries <= MaxLinks
  /\ Goto("idle", "is_connected")
  /\ round' = 0
  /\ UNCHANGED <<flagVars, messages, done, loop, netVars>>

\* return true, or on to the next question.
IsConnected ==
  /\ Goto("is_connected", IF connected THEN "idle" ELSE "is_connecting")
  /\ OnlyGoto

IsConnecting ==
  /\ Goto("is_connecting", IF connecting THEN "sleep" ELSE "load_connected")
  /\ OnlyGoto

\* 250 ms later the next round begins; whatever is to happen has time to.
Sleep ==
  /\ Goto("sleep", IF round + 1 = Tries THEN "last" ELSE "is_connected")
  /\ round' = round + 1
  /\ UNCHANGED <<flagVars, messages, done, loop, netVars>>

\* return net_client.is_connected()
LastLook ==
  /\ Goto("last", "idle")
  /\ OnlyGoto

-----------------------------------------------------------------------------
(* NetClient::connect()                                                    *)

LoadConnected ==
  /\ Goto("load_connected", IF connected THEN "sleep" ELSE "load_connecting")
  /\ OnlyGoto

LoadConnecting ==
  /\ Goto("load_connecting", IF connecting THEN "sleep" ELSE "mark")
  /\ OnlyGoto

\* Faults: the mark is forgotten; the wrong flag is set.
MarkNothing ==
  /\ Goto("mark", "open")
  /\ OnlyGoto
MarkConnected ==
  /\ Goto("mark", "open")
  /\ connected' = TRUE
  /\ UNCHANGED <<connecting, messages, round, done, loop, netVars>>

\* connecting = true
Mark ==
  /\ Goto("mark", "open")
  /\ connecting' = TRUE
  /\ UNCHANGED <<connected, messages, round, done, loop, netVars>>

\* ws.open(), whose result is not looked at: a link that begins to open, or
\* nothing at all where the host does not resolve.
Open ==
  /\ Goto("open", "sleep")
  /\ \/ /\ latest < MaxLinks
        /\ latest' = latest + 1
        /\ link' = [link EXCEPT ![latest'] = "opening"]
        /\ UNCHANGED refused
     \/ /\ refused' = TRUE
        /\ UNCHANGED <<latest, link>>
  /\ UNCHANGED <<flagVars, messages, round, done, loop, closing>>

-----------------------------------------------------------------------------
(* The other operations of the client's thread.                            *)

\* NetClient::send(): the test of connected ...
SendTest ==
  /\ connected
  /\ ~done
  /\ Goto("idle", "send")
  /\ OnlyGoto

\* ... and ws.send() on the latest link.
WsSend ==
  /\ Goto("send", "idle")
  /\ OnlyGoto

PollMessage ==
  /\ pc = "idle"
  /\ messages # <<>>
  /\ messages' = Tail(messages)
  /\ UNCHANGED <<flagVars, pc, round, done, loop, netVars>>

\* disconnect_and_quit(), after which the program ends.
Disconnect ==
  /\ ~done
  /\ Goto("idle", "close")
  /\ OnlyGoto

\* Fault: the flags are cleared and the link is left open.
WsCloseNothing ==
  /\ Goto("close", "clear_connected")
  /\ OnlyGoto

\* ws.close() asks the loop to close the latest link.
WsClose ==
  /\ Goto("close", "clear_connected")
  /\ closing' = (latest # 0)
  /\ UNCHANGED <<flagVars, messages, round, done, loop, link, latest, refused>>

ClearConnected ==
  /\ Goto("clear_connected", "clear_connecting")
  /\ connected' = FALSE
  /\ UNCHANGED <<connecting, messages, round, done, loop, netVars>>

ClearConnecting ==
  /\ Goto("clear_connecting", "idle")
  /\ connecting' = FALSE
  /\ done' = TRUE
  /\ UNCHANGED <<connected, messages, round, loop, netVars>>

-----------------------------------------------------------------------------
(* The loop thread and, behind it, the network.                            *)

\* Fault: the callback does not set connected.
OnOpenForgets(l) ==
  /\ loop = "idle"
  /\ link[l] = "opening"
  /\ link' = [link EXCEPT ![l] = "up"]
  /\ loop' = "onopen"
  /\ UNCHANGED <<flagVars, messages, pc, round, done, latest, closing, refused>>

\* The server has answered the handshake; connected = true.
OnOpen(l) ==
  /\ loop = "idle"
  /\ link[l] = "opening"
  /\ link' = [link EXCEPT ![l] = "up"]
  /\ connected' = TRUE
  /\ loop' = "onopen"
  /\ UNCHANGED <<connecting, messages, pc, round, done, latest, closing, refused>>

\* The attempt fails, or the connection breaks.
Break(l) ==
  /\ link[l] \in {"opening", "up"}
  /\ link' = [link EXCEPT ![l] = "broken"]
  /\ UNCHANGED <<flagVars, messages, pc, round, done, loop, latest, closing, refused>>

\* The link is gone, or is to be closed.
Gone(l) ==
  \/ link[l] = "broken"
  \/ closing /\ l = latest /\ link[l] \in {"opening", "up"}

\* Fault: connected stays as it is.
OnCloseForgets(l) ==
  /\ loop = "idle"
  /\ Gone(l)
  /\ link' = [link EXCEPT ![l] = "closed"]
  /\ closing' = (closing /\ l # latest)
  /\ loop' = "onclose"
  /\ UNCHANGED <<flagVars, messages, pc, round, done, latest, refused>>

\* connected = false
OnClose(l) ==
  /\ loop = "idle"
  /\ Gone(l)
  /\ link' = [link EXCEPT ![l] = "closed"]
  /\ connected' = FALSE
  /\ closing' = (closing /\ l # latest)
  /\ loop' = "onclose"
  /\ UNCHANGED <<connecting, messages, pc, round, done, latest, refused>>

\* Fault: only onopen clears connecting.
CallbackEndsOpenOnly ==
  /\ loop # "idle"
  /\ connecting' = (connecting /\ loop # "onopen")
  /\ loop' = "idle"
  /\ UNCHANGED <<connected, messages, pc, round, done, netVars>>

\* connecting = false, the last statement of onopen and of onclose.
CallbackEnds ==
  /\ loop # "idle"
  /\ connecting' = FALSE
  /\ loop' = "idle"
  /\ UNCHANGED <<connected, messages, pc, round, done, netVars>>

OnMessage(l) ==
  /\ loop = "idle"
  /\ link[l] = "up"
  /\ Len(messages) < MaxQueue
  /\ messages' = Append(messages, l)
  /\ UNCHANGED <<flagVars, pc, round, done, loop, netVars>>

-----------------------------------------------------------------------------

\* What the client's thread goes on with once an operation has begun.
ClientStep ==
  \/ IsConnected \/ IsConnecting \/ Sleep \/ LastLook
  \/ LoadConnected \/ LoadConnecting \/ Mark \/ Open
  \/ WsSend \/ WsClose \/ ClearConnected \/ ClearConnecting

Step ==
  \/ ConnectClient \/ SendTest \/ PollMessage \/ Disconnect
  \/ ClientStep
  \/ CallbackEnds
  \/ \E l \in Links : OnOpen(l) \/ Break(l) \/ OnClose(l) \/ OnMessage(l)

Meet == pc \in ConnectPoints /\ loop # "idle"

Next == Step /\ overlap' = (overlap \/ Meet \/ Meet')

Spec == Init /\ [][Next]_vars

(***************************************************************************)
(* Both threads run, and every attempt ends: the server answers, or libhv  *)
(* gives up after its connect timeout.  Users and links owe nothing.       *)
(***************************************************************************)
Fairness ==
  /\ WF_vars(ClientStep /\ Next)
  /\ WF_vars(CallbackEnds /\ Next)
  /\ \A l \in Links :
       /\ WF_vars((OnOpen(l) \/ (link[l] = "opening" /\ Break(l))) /\ Next)
       /\ WF_vars(OnClose(l) /\ Next)

FairSpec == Spec /\ Fairness

-----------------------------------------------------------------------------
(* Safety.                                                                 *)

\* Links whose last callback has not run.
Live == {l \in Links : link[l] \in {"opening", "up", "broken"}}

\* connected says so only while a link is up, or its onclose is still to come,
\* whichever stores of the two threads fall between each other.
ConnectedIsBacked ==
  connected => \E l \in Links : link[l] \in {"up", "broken"}

\* As long as no connect() has met a callback half-way, the two flags keep
\* retries, also of a second connect_client() after the first gave up, from
\* opening a link while the callbacks of another are still to come.
OneLinkAtATime ==
  ~overlap => \A k, l \in Live : k = l

\* Under the same condition the queue, which is never cleared, holds the
\* messages of each link together, older links first.
MessagesByLink ==
  ~overlap =>
    \A i, j \in DOMAIN messages : i <= j => messages[i] <= messages[j]

\* Under the same condition ws.send() is never called on a link whose
\* handshake is still to be answered.
SendAfterHandshake ==
  pc = "send" /\ ~overlap => link[latest] # "opening"

(* Liveness.                                                               *)

\* connecting does not stay set, so that a retry is not put off for ever,
\* unless an open() fails without a callback.
ConnectingSettles == connecting /\ ~refused ~> ~connecting \/ refused

\* After disconnect_and_quit() the client ends up disconnected, also when the
\* handshake is answered between close() and the stores of disconnect().
QuitIsFinal == <>[](done /\ ~overlap => ~connected)
=============================================================================
