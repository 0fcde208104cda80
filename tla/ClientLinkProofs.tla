--------------------------- MODULE ClientLinkProofs ---------------------------
(***************************************************************************)
(* ClientLink for every number of rounds, links and queued messages: types *)
(* and what the two flags keep apart as long as no connect() has met a     *)
(* callback half-way.                                                      *)
(***************************************************************************)
EXTENDS ClientLink, TLAPS

\* Inside a round of connect_client().
InRound == {"is_connected", "is_connecting", "sleep"} \cup ConnectPoints

Quitting == done \/ pc \in {"close", "clear_connected", "clear_connecting"}

RoundInv ==
  /\ pc \in InRound => round < Tries
  /\ done => pc = "idle"

\* Links are used in their order, and messages come over used ones.
UsedInv ==
  /\ \A l \in Links : link[l] = "unused" <=> l > latest
  /\ \A i \in DOMAIN messages : messages[i] <= latest
  /\ pc = "send" => latest # 0

\* A link whose callbacks are still to come is the latest one and is marked by
\* a flag, also between the two stores of a callback.
MarkInv ==
  /\ pc \in ConnectPoints => loop = "idle"
  /\ Live \subseteq {latest}
  /\ loop = "onclose" => Live = {}
  /\ ~Quitting => /\ loop = "onopen" => connected
                  /\ Live # {} => connected \/ connecting

\* What connect() has read stays true until it opens the link.
ReadInv ==
  /\ pc = "load_connecting" => ~connected
  /\ pc = "mark" => ~connected /\ ~connecting
  /\ pc = "open" => Live = {} /\ connecting

UseInv ==
  /\ \A i, j \in DOMAIN messages : i <= j => messages[i] <= messages[j]
  /\ pc = "send" => link[latest] # "opening"

LinkInv ==
  /\ TypeOK
  /\ RoundInv
  /\ UsedInv
  /\ ConnectedIsBacked
  /\ ~overlap => MarkInv /\ ReadInv /\ UseInv

-----------------------------------------------------------------------------
(* The steps, with the definitions they share expanded.                    *)

\* The client starts without a connection.
LEMMA Initial == Init => LinkInv
<1> SUFFICES ASSUME Init
             PROVE  LinkInv
  OBVIOUS
<1> USE LinkAssumption DEF Init, Links, ConnectPoints
<1>1. TypeOK
  <2>1. messages \in Seq(Links) /\ round \in 0 .. Tries /\ latest \in 0 .. MaxLinks
    OBVIOUS
  <2>2. link \in [Links -> {"unused", "opening", "up", "broken", "closed"}]
    OBVIOUS
  <2> QED
    BY <2>1, <2>2 DEF TypeOK
<1>2. RoundInv /\ ConnectedIsBacked
  BY DEF RoundInv, ConnectedIsBacked, InRound
<1>3. UsedInv /\ UseInv
  BY DEF UsedInv, UseInv
<1>4. MarkInv /\ ReadInv
  BY DEF MarkInv, ReadInv, Live
<1> QED
  BY <1>1, <1>2, <1>3, <1>4 DEF LinkInv

\* Every step keeps the types and the rounds.
LEMMA TypeStep ==
  ASSUME TypeOK, RoundInv, [Next]_vars
  PROVE  TypeOK' /\ RoundInv'
<1> USE LinkAssumption DEF TypeOK, RoundInv, InRound, ConnectPoints, Links
<1>1. CASE UNCHANGED vars
  BY <1>1 DEF vars, flagVars, netVars
<1>2. CASE Next
  <2>1. overlap' \in BOOLEAN
    BY <1>2 DEF Next, Meet
  <2> USE <2>1 DEF flagVars, netVars, Goto, OnlyGoto
  <2>2. CASE ConnectClient
    BY <2>2 DEF ConnectClient
  <2>3. CASE IsConnected
    BY <2>3 DEF IsConnected
  <2>4. CASE IsConnecting
    BY <2>4 DEF IsConnecting
  <2>5. CASE Sleep
    BY <2>5 DEF Sleep
  <2>6. CASE LastLook
    BY <2>6 DEF LastLook
  <2>7. CASE LoadConnected
    BY <2>7 DEF LoadConnected
  <2>8. CASE LoadConnecting
    BY <2>8 DEF LoadConnecting
  <2>9. CASE Mark
    BY <2>9 DEF Mark
  <2>10. CASE Open
    <3>1. latest' \in 0 .. MaxLinks /\ link' \in [Links -> {"unused", "opening", "up", "broken", "closed"}]
      BY <2>10 DEF Open
    <3> QED
      BY <2>10, <3>1 DEF Open
  <2>11. CASE SendTest
    BY <2>11 DEF SendTest
  <2>12. CASE WsSend
    BY <2>12 DEF WsSend
  <2>13. CASE PollMessage
    BY <2>13 DEF PollMessage
  <2>14. CASE Disconnect
    BY <2>14 DEF Disconnect
  <2>15. CASE WsClose
    BY <2>15 DEF WsClose
  <2>16. CASE ClearConnected
    BY <2>16 DEF ClearConnected
  <2>17. CASE ClearConnecting
    BY <2>17 DEF ClearConnecting
  <2>18. CASE CallbackEnds
    BY <2>18 DEF CallbackEnds
  <2>19. CASE \E l \in Links : OnOpen(l)
    BY <2>19 DEF OnOpen
  <2>20. CASE \E l \in Links : Break(l)
    BY <2>20 DEF Break
  <2>21. CASE \E l \in Links : OnClose(l)
    <3>1. PICK l \in Links : OnClose(l)
      BY <2>21
    <3>2. closing' \in BOOLEAN
      BY <3>1, Zenon DEF OnClose
    <3> QED
      BY <3>1, <3>2 DEF OnClose
  <2>22. CASE \E l \in Links : OnMessage(l)
    BY <2>22 DEF OnMessage
  <2> QED
    BY <1>2, <2>2, <2>3, <2>4, <2>5, <2>6, <2>7, <2>8, <2>9, <2>10, <2>11, <2>12,
       <2>13, <2>14, <2>15, <2>16, <2>17, <2>18, <2>19, <2>20, <2>21, <2>22
    DEF Next, Step, ClientStep
<1> QED
  BY <1>1, <1>2

\* A link is used once, and connected is set for a link that is up.
LEMMA UsedStep ==
  ASSUME TypeOK, TypeOK', UsedInv, ConnectedIsBacked, [Next]_vars
  PROVE  UsedInv' /\ ConnectedIsBacked'
<1> USE LinkAssumption DEF TypeOK, UsedInv, ConnectedIsBacked, Links, flagVars, netVars
<1>1. CASE UNCHANGED vars
  BY <1>1 DEF vars
<1>2. CASE Next
  <2> USE DEF Goto, OnlyGoto, ConnectPoints
  <2>1. CASE ConnectClient
    BY <2>1 DEF ConnectClient
  <2>2. CASE IsConnected
    BY <2>2 DEF IsConnected
  <2>3. CASE IsConnecting
    BY <2>3 DEF IsConnecting
  <2>4. CASE Sleep
    BY <2>4 DEF Sleep
  <2>5. CASE LastLook
    BY <2>5 DEF LastLook
  <2>6. CASE LoadConnected
    BY <2>6 DEF LoadConnected
  <2>7. CASE LoadConnecting
    BY <2>7 DEF LoadConnecting
  <2>8. CASE Mark
    BY <2>8 DEF Mark
  <2>9. CASE Open
    BY <2>9 DEF Open
  <2>10. CASE SendTest
    BY <2>10 DEF SendTest
  <2>11. CASE WsSend
    BY <2>11 DEF WsSend
  <2>12. CASE PollMessage
    BY <2>12 DEF PollMessage
  <2>13. CASE Disconnect
    BY <2>13 DEF Disconnect
  <2>14. CASE WsClose
    BY <2>14 DEF WsClose
  <2>15. CASE ClearConnected
    BY <2>15 DEF ClearConnected
  <2>16. CASE ClearConnecting
    BY <2>16 DEF ClearConnecting
  <2>17. CASE CallbackEnds
    BY <2>17 DEF CallbackEnds
  <2>18. CASE \E l \in Links : OnOpen(l)
    BY <2>18 DEF OnOpen
  <2>19. CASE \E l \in Links : Break(l)
    BY <2>19 DEF Break
  <2>20. CASE \E l \in Links : OnClose(l)
    BY <2>20 DEF OnClose, Gone
  <2>21. CASE \E l \in Links : OnMessage(l)
    BY <2>21 DEF OnMessage
  <2> QED
    BY <1>2, <2>1, <2>2, <2>3, <2>4, <2>5, <2>6, <2>7, <2>8, <2>9, <2>10, <2>11,
       <2>12, <2>13, <2>14, <2>15, <2>16, <2>17, <2>18, <2>19, <2>20, <2>21
    DEF Next, Step, ClientStep
<1> QED
  BY <1>1, <1>2

\* Where calls do not overlap, connecting marks the one that is open.
LEMMA MarkStep ==
  ASSUME LinkInv, Next, ~overlap'
  PROVE  MarkInv' /\ ReadInv'
<1> USE DEF TypeOK, Links, flagVars, netVars
<1>1. /\ ~overlap /\ TypeOK /\ UsedInv /\ ConnectedIsBacked
      /\ MarkInv /\ ReadInv /\ RoundInv
  BY DEF Next, LinkInv
<1>2. Step /\ ~Meet'
  BY DEF Next
<1>3. pc' \in ConnectPoints => loop' = "idle"
  BY <1>2 DEF Meet
<1> USE <1>1, <1>3, LinkAssumption DEF UsedInv, MarkInv, ReadInv, RoundInv, ConnectedIsBacked, Live, Quitting, Goto, OnlyGoto, ConnectPoints
<1>11. CASE ConnectClient
  BY <1>11 DEF ConnectClient
<1>12. CASE IsConnected
  BY <1>12 DEF IsConnected
<1>13. CASE IsConnecting
  BY <1>13 DEF IsConnecting
<1>14. CASE Sleep
  BY <1>14 DEF Sleep
<1>15. CASE LastLook
  BY <1>15 DEF LastLook
<1>16. CASE LoadConnected
  BY <1>16 DEF LoadConnected
<1>17. CASE LoadConnecting
  BY <1>17 DEF LoadConnecting
<1>18. CASE Mark
  BY <1>18 DEF Mark
<1>19. CASE Open
  BY <1>19 DEF Open
<1>110. CASE SendTest
  BY <1>110 DEF SendTest
<1>111. CASE WsSend
  BY <1>111 DEF WsSend
<1>112. CASE PollMessage
  BY <1>112 DEF PollMessage
<1>113. CASE Disconnect
  BY <1>113 DEF Disconnect
<1>114. CASE WsClose
  BY <1>114 DEF WsClose
<1>115. CASE ClearConnected
  BY <1>115 DEF ClearConnected
<1>116. CASE ClearConnecting
  BY <1>116 DEF ClearConnecting
<1>117. CASE CallbackEnds
  BY <1>117 DEF CallbackEnds
<1>118. CASE \E l \in Links : OnOpen(l)
  BY <1>118 DEF OnOpen
<1>119. CASE \E l \in Links : Break(l)
  BY <1>119 DEF Break
<1>120. CASE \E l \in Links : OnClose(l)
  BY <1>120 DEF OnClose, Gone
<1>121. CASE \E l \in Links : OnMessage(l)
  BY <1>121 DEF OnMessage
<1> QED
  BY <1>2, <1>11, <1>12, <1>13, <1>14, <1>15, <1>16, <1>17, <1>18, <1>19, <1>110,
     <1>111, <1>112, <1>113, <1>114, <1>115, <1>116, <1>117, <1>118, <1>119, <1>120,
     <1>121
  DEF Next, Step, ClientStep

\* Where calls do not overlap, messages are of the latest link.
LEMMA UseStep ==
  ASSUME LinkInv, UsedInv', Next, ~overlap'
  PROVE  UseInv'
<1>1. ~overlap /\ TypeOK /\ UsedInv /\ ConnectedIsBacked /\ MarkInv /\ UseInv
  BY DEF Next, LinkInv
<1>2. Step
  BY DEF Next
<1> USE <1>1, LinkAssumption
        DEF UseInv, UsedInv, TypeOK, Links, flagVars, netVars, Goto, OnlyGoto
<1>3. CASE PollMessage
  <2>1. /\ pc' = "idle"
        /\ messages' = Tail(messages)
        /\ messages # <<>>
    BY <1>3 DEF PollMessage
  <2>2. \A i \in DOMAIN messages' :
          i + 1 \in DOMAIN messages /\ messages'[i] = messages[i + 1]
    BY <2>1
  <2>3. DOMAIN messages' \subseteq Nat
    BY <2>1
  <2> QED
    BY <1>1, <2>1, <2>2, <2>3
<1>4. CASE SendTest
  BY <1>4 DEF SendTest, ConnectedIsBacked, MarkInv, Live
<1>5. CASE \E l \in Links : OnMessage(l)
  <2>1. PICK l \in Links : link[l] = "up" /\ messages' = Append(messages, l)
    BY <1>5 DEF OnMessage
  <2>2. l = latest
    BY <2>1 DEF MarkInv, Live
  <2>3. \A i \in DOMAIN messages' :
          IF i \in DOMAIN messages THEN messages'[i] = messages[i]
          ELSE i = Len(messages) + 1 /\ messages'[i] = l
    BY <2>1
  <2>4. DOMAIN messages = 1 .. Len(messages) /\ Len(messages) \in Nat
    OBVIOUS
  <2>5. ASSUME NEW i \in DOMAIN messages', NEW j \in DOMAIN messages', i <= j
        PROVE  messages'[i] <= messages'[j]
    BY <2>1, <2>2, <2>3, <2>4, <2>5
  <2> QED
    BY <2>5, <1>5 DEF OnMessage
<1>6. CASE \E l \in Links : OnOpen(l) \/ Break(l) \/ OnClose(l)
  BY <1>6 DEF OnOpen, Break, OnClose
<1>7. CASE ConnectClient \/ Disconnect \/ ClientStep \/ CallbackEnds
  <2>1. CASE ConnectClient \/ Disconnect \/ CallbackEnds
    BY <2>1 DEF ConnectClient, Disconnect, CallbackEnds
  <2>2. CASE IsConnected \/ IsConnecting \/ Sleep \/ LastLook
    BY <2>2 DEF IsConnected, IsConnecting, Sleep, LastLook
  <2>3. CASE LoadConnected \/ LoadConnecting \/ Mark \/ Open
    BY <2>3 DEF LoadConnected, LoadConnecting, Mark, Open
  <2>4. CASE WsSend \/ WsClose \/ ClearConnected \/ ClearConnecting
    BY <2>4 DEF WsSend, WsClose, ClearConnected, ClearConnecting
  <2> QED
    BY <1>7, <2>1, <2>2, <2>3, <2>4 DEF ClientStep
<1> QED
  BY <1>2, <1>3, <1>4, <1>5, <1>6, <1>7 DEF Step

\* The inductive invariant of the client's connection, of which the theorems
\* below are parts.
THEOREM Invariance == Spec => []LinkInv
<1>1. LinkInv /\ [Next]_vars => LinkInv'
  <2> SUFFICES ASSUME LinkInv, [Next]_vars
               PROVE  LinkInv'
    OBVIOUS
  <2>1. TypeOK' /\ RoundInv'
    BY TypeStep DEF LinkInv
  <2>2. UsedInv' /\ ConnectedIsBacked'
    BY <2>1, UsedStep DEF LinkInv
  <2>3. ASSUME ~overlap'
        PROVE  MarkInv' /\ ReadInv' /\ UseInv'
    <3>1. CASE Next
      BY <2>2, <2>3, <3>1, MarkStep, UseStep
    <3>2. CASE UNCHANGED vars
      BY <2>3, <3>2
      DEF LinkInv, vars, flagVars, netVars, MarkInv, ReadInv, UseInv, Live, Quitting
    <3> QED
      BY <3>1, <3>2
  <2> QED
    BY <2>1, <2>2, <2>3 DEF LinkInv
<1> QED
  BY <1>1, Initial, PTL DEF Spec

-----------------------------------------------------------------------------

\* The flags, rounds and links of connect(), connect_client() and the
\* callbacks keep their types.
THEOREM LinkTypeCorrect == Spec => []TypeOK
<1>1. LinkInv => TypeOK
  BY DEF LinkInv
<1> QED
  BY <1>1, Invariance, PTL

\* However the stores of disconnect() and of the callbacks fall, connected is
\* set only while there is a link whose onclose is still to come.
THEOREM ConnectedBacked == Spec => []ConnectedIsBacked
<1>1. LinkInv => ConnectedIsBacked
  BY DEF LinkInv
<1> QED
  BY <1>1, Invariance, PTL

\* For any number of rounds and calls, connect_client() has one attempt or
\* connection at a time, if no connect() meets a callback half-way.
THEOREM OneLink == Spec => []OneLinkAtATime
<1>1. LinkInv => OneLinkAtATime
  BY DEF LinkInv, MarkInv, OneLinkAtATime
<1> QED
  BY <1>1, Invariance, PTL

\* Then the queue of pollMessage() never mixes the messages of two links,
\* however long it grows.
THEOREM MessagesInOrder == Spec => []MessagesByLink
<1>1. LinkInv => MessagesByLink
  BY DEF LinkInv, UseInv, MessagesByLink
<1> QED
  BY <1>1, Invariance, PTL

\* Then NetClient::send() never writes to a link that is still opening.
THEOREM SendsAfterHandshake == Spec => []SendAfterHandshake
<1>1. LinkInv => SendAfterHandshake
  BY DEF LinkInv, UseInv, SendAfterHandshake
<1> QED
  BY <1>1, Invariance, PTL
=============================================================================
