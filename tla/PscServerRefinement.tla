------------------------- MODULE PscServerRefinement -------------------------
(***************************************************************************)
(* PscServer implements PscSession: every step of the server, its clients  *)
(* and the network is a step of the session or leaves it alone.  And the   *)
(* heartbeat check never disconnects a client that select() reported.      *)
(***************************************************************************)
EXTENDS PscServerProofs

(* Commands run in the order sent: the connection's reading position is    *)
(* the message after the last one that ran, or inside it.                  *)
RanInv ==
  /\ \A c \in Conns : ioc[c] = "idle" \/ Queued(c) => ran[c] = 0
  /\ client_sock # NoSock /\ pc \notin {"recvbody", "client_msg"} => rd[Conn][1] = ran[Conn] + 1
  /\ pc \in {"recvbody", "client_msg"} => head = ran[Conn] + 1

(* How an iteration that select() started with a readable client reaches   *)
(* the heartbeat check: through the handler, which stamped last_rx_tick.   *)
TalkInv ==
  /\ pc = "accept" /\ client_sock = NoSock => selConn = NoConn
  /\ pc = "recv" \/ (pc = "send" /\ after = "recv") =>
       (client_sock # NoSock /\ selConn = Conn => client_sock = selected_client)
  /\ pc = "client_msg" => rxAge <= waitAge /\ waitAge <= HandlerTicks
  /\ pc = "heartbeat" /\ client_sock # NoSock /\ "client" \in rfds /\ selConn = Conn
       => rxAge < BeatTicks

-----------------------------------------------------------------------------
(* The refinement mapping of Session: the client, and the connections the  *)
(* server is done with.                                                    *)
Client == IF client_sock = NoSock THEN NoConn ELSE Conn
Done   == {c \in Conns : ioc[c] # "idle" /\ ~Live(c)}

(* A step that neither opens nor closes a connection.                      *)
SameSession == Client' = Client /\ Done' = Done /\ ran' = ran

(* The connections, when descriptors and backlog stay.                     *)
LEMMA SocketsStay ==
  ASSUME UNCHANGED <<client_sock, sock, backlog, ran>>,
         \A c \in Conns : ioc'[c] # "idle" <=> ioc[c] # "idle"
  PROVE  SameSession
<1>1. Client' = Client
  BY DEF Client, Conn
<1>2. \A c \in Conns : Live(c)' <=> Live(c)
  BY DEF Live, Queued, Opened
<1>3. QED BY <1>1, <1>2 DEF SameSession, Done

(* disconnect_client() ends the session.                                   *)
LEMMA DisconnectCloses ==
  ASSUME IInv, client_sock # NoSock, disconnect_client, UNCHANGED <<backlog, ioc, ran>>
  PROVE  Session!Close
<1>1. /\ client_sock \in Fds /\ Conn \in Conns /\ Opened(Conn) /\ ioc[Conn] # "idle" /\ ~Queued(Conn)
      /\ \A c \in Conns : Opened(c) => Conn = c
  BY ClientFacts
<1>2. client_sock' = NoSock /\ \A c \in Conns : ~Opened(c)'
  BY DisconnectFacts
<1>3. \A c \in Conns : Queued(c)' <=> Queued(c)
  BY DEF Queued
<1>4. Client = Conn /\ Client # NoConn /\ Client' = NoConn
  BY <1>1, <1>2, ServerAssumption DEF Client
<1>5. \A c \in Conns : c \in Done' <=> c \in Done \cup {Conn}
  BY <1>1, <1>2, <1>3 DEF Done, Live
<1>6. Done' = Done \cup {Client}
  BY <1>1, <1>4, <1>5 DEF Done
<1>7. QED BY <1>4, <1>6 DEF Session!Close, Client, Done

(* A connection in the backlog is neither the client nor done with.        *)
LEMMA QueuedIsNew ==
  ASSUME IInv, NEW c \in Conns, Queued(c)
  PROVE  c \notin Done \cup {Client}
<1>1. client_sock # NoSock => Opened(Conn)
  BY ClientFacts
<1>2. ~Opened(c)
  BY DEF IInv, ConnInv
<1>3. c # Client
  BY <1>1, <1>2, ServerAssumption DEF Client
<1>4. QED BY <1>3 DEF Done, Live

(* accept_client() opens a session, ending the one there was.              *)
LEMMA AcceptOpens ==
  ASSUME IInv, accept_client
  PROVE  \E c \in Conns : Session!Open(c)
<1>1. backlog # <<>> /\ backlog' = Tail(backlog) /\ UNCHANGED <<ioc, ran>>
  BY DEF accept_client, IInv, ConnInv
<1>0. PICK h \in Conns : h = Head(backlog)
  BY <1>1, BacklogTail
<1>2. /\ h \in Conns /\ Queued(h)
      /\ \A d \in Conns : Queued(d)' <=> Queued(d) /\ d # h
  BY <1>0, <1>1, BacklogTail
<1>3. PICK f \in Fds :
        /\ sock[f] = NoConn
        /\ sock' = [g \in Fds |-> IF g = f THEN h ELSE IF g = client_sock THEN NoConn ELSE sock[g]]
        /\ client_sock' = f
  BY <1>0 DEF accept_client
<1>4. \A d \in Conns : Opened(d)' <=> d = h
  <2>1. \A g \in Fds : g # f => sock'[g] = NoConn
    BY <1>3 DEF IInv, OneOpenSocket
  <2>2. sock'[f] = h
    BY <1>3
  <2>3. QED BY <2>1, <2>2, ServerAssumption DEF Opened
<1>5. Client' = h
  <2>1. f # NoSock
    BY ServerAssumption DEF NoSock
  <2>2. QED BY <1>3, <2>1 DEF Client, Conn
<1>6. h \notin Done \cup {Client}
  BY <1>2, QueuedIsNew
<1>7. /\ client_sock # NoSock => Conn \in Conns /\ Opened(Conn) /\ ioc[Conn] # "idle" /\ ~Queued(Conn)
      /\ \A c \in Conns : Opened(c) => client_sock # NoSock /\ Conn = c
  BY ClientFacts
<1>8. Done' = Done \cup ({Client} \ {NoConn})
  <2>1. h \notin Done' /\ h \notin Done \cup {Client}
    BY <1>4, <1>6 DEF Done, Live
  <2>2. \A d \in Conns : d # h => (d \in Done' <=> d \in Done \/ (client_sock # NoSock /\ d = Conn))
    BY <1>1, <1>2, <1>4, <1>7 DEF Done, Live
  <2>3. {Client} \ {NoConn} = IF client_sock = NoSock THEN {} ELSE {Conn}
    BY <1>7, ServerAssumption DEF Client
  <2>4. Done \subseteq Conns /\ Done' \subseteq Conns
    BY DEF Done
  <2>5. QED BY <1>2, <1>7, <2>1, <2>2, <2>3, <2>4
<1>9. Session!Open(h)
  BY <1>1, <1>5, <1>6, <1>8 DEF Session!Open, Client, Done
<1>10. QED BY <1>2, <1>9

(* A failing accept() turns the connection away.                           *)
LEMMA AcceptErrorRefuses ==
  ASSUME IInv, AcceptError
  PROVE  \E c \in Conns : Session!Refuse(c)
<1>0. PICK h \in Conns : h = Head(backlog)
  BY BacklogTail DEF AcceptError, IInv, ConnInv
<1>1. /\ backlog # <<>> /\ backlog' = Tail(backlog) /\ ioc' = [ioc EXCEPT ![h] = "gone"]
      /\ UNCHANGED <<sock, client_sock, ran>>
  BY <1>0 DEF AcceptError, IInv, ConnInv, history
<1>2. /\ h \in Conns /\ Queued(h)
      /\ \A d \in Conns : Queued(d)' <=> Queued(d) /\ d # h
  BY <1>0, <1>1, BacklogTail
<1>3. \A d \in Conns : Opened(d)' <=> Opened(d)
  BY <1>1 DEF Opened
<1>4. ioc \in [Conns -> {"idle", "up", "gone"}] /\ ~Opened(h)
  BY <1>2 DEF IInv, TypeOK, NetworkOK, ConnInv
<1>5. Done' = Done \cup {h}
  <2>1. h \in Done'
    BY <1>1, <1>2, <1>3, <1>4 DEF Done, Live
  <2>2. \A d \in Conns : d # h => (d \in Done' <=> d \in Done)
    BY <1>1, <1>2, <1>3, <1>4 DEF Done, Live
  <2>3. Done \subseteq Conns /\ Done' \subseteq Conns
    BY DEF Done
  <2>4. QED BY <1>2, <2>1, <2>2, <2>3
<1>6. h \notin Done \cup {Client} /\ Client' = Client
  BY <1>1, <1>2, QueuedIsNew DEF Client, Conn
<1>7. Session!Refuse(h)
  BY <1>1, <1>5, <1>6 DEF Session!Refuse, Client, Done
<1>8. QED BY <1>2, <1>7

(* client_msg() runs the session's next command.                           *)
LEMMA HandlerExecutes ==
  ASSUME IInv, RanInv, client_msg
  PROVE  Session!Execute
<1>1. client_sock # NoSock /\ Conn \in Conns /\ ran \in [Conns -> 0..MaxMsgs]
  BY ClientFacts DEF IInv, RecvInv, client_msg, TypeOK, HistoryOK
<1>2. ran' = [ran EXCEPT ![Conn] = ran[Conn] + 1]
  BY DEF client_msg, RanInv
<1>3. UNCHANGED <<client_sock, sock, backlog, ioc>>
  BY DEF client_msg, network
<1>4. Client' = Client /\ Client = Conn /\ Client # NoConn
  BY <1>1, <1>3, ServerAssumption DEF Client, Conn
<1>5. Done' = Done
  BY <1>3 DEF Done, Live, Queued, Opened
<1>6. QED BY <1>2, <1>4, <1>5 DEF Session!Execute, Client, Done

(* Every step is a step of the session or leaves it alone.                 *)
LEMMA StepRefines ==
  ASSUME IInv, RanInv, [Next]_vars
  PROVE  [Session!Next]_(Session!vars)
<1> USE DEF control, sending, ages, network, history
<1>1. SameSession => UNCHANGED Session!vars
  BY DEF SameSession, Session!vars, Client, Done
<1>2. CASE Tick \/ UNCHANGED vars
  BY <1>1, <1>2, SocketsStay DEF Tick, vars
<1>3. ASSUME NEW c \in Conns, IocConnect(c) PROVE UNCHANGED Session!vars
  <2>1. /\ backlog \in Seq(Conns) /\ backlog' = Append(backlog, c)
        /\ UNCHANGED <<client_sock, sock, ran>> /\ ioc' = [ioc EXCEPT ![c] = "up"]
        /\ ioc \in [Conns -> {"idle", "up", "gone"}] /\ ioc[c] = "idle"
    BY <1>3 DEF IocConnect, IInv, TypeOK, NetworkOK
  <2>2. \A d \in Conns : Queued(d)' <=> Queued(d) \/ d = c
    <3>1. /\ Len(backlog) \in Nat /\ Len(backlog') = Len(backlog) + 1
          /\ \A i \in 1..Len(backlog) : backlog'[i] = backlog[i]
          /\ backlog'[Len(backlog) + 1] = c
      BY <2>1, AppendProperties, LenProperties
    <3>2. QED BY <3>1 DEF Queued
  <2>3. \A d \in Conns : Opened(d)' <=> Opened(d)
    BY <2>1 DEF Opened
  <2>4. Client' = Client
    BY <2>1 DEF Client, Conn
  <2>5. \A d \in Conns : d \in Done' <=> d \in Done
    BY <1>3, <2>1, <2>2, <2>3 DEF Done, Live
  <2>6. Done' = Done
    BY <2>5 DEF Done
  <2>7. QED BY <1>1, <2>1, <2>4, <2>6 DEF SameSession
<1>4. ASSUME NEW c \in Conns, IocGone(c) PROVE UNCHANGED Session!vars
  <2>1. \A d \in Conns : ioc'[d] # "idle" <=> ioc[d] # "idle"
    BY <1>4 DEF IocGone, IInv, TypeOK, NetworkOK
  <2>2. QED BY <1>1, <1>4, <2>1, SocketsStay DEF IocGone
<1>5. ASSUME NEW c \in Conns, NEW m \in Message, IocWrite(c, m) PROVE UNCHANGED Session!vars
  BY <1>1, <1>5, SocketsStay DEF IocWrite
<1>6. CASE Select \/ SelectError \/ RecvCheck \/ pscdata_poll \/ SendSkip \/ SendUnit \/ RecvBody
  <2>1. UNCHANGED <<client_sock, sock, backlog, ioc, ran>>
    BY <1>6 DEF Select, SelectError, RecvCheck, pscdata_poll, SendSkip, SendUnit, RecvBody
  <2>2. QED BY <1>1, <2>1, SocketsStay
<1>7. CASE accept_client
  BY <1>7, AcceptOpens DEF Session!Next
<1>8. CASE AcceptError
  BY <1>8, AcceptErrorRefuses DEF Session!Next
<1>9. CASE client_msg
  BY <1>9, HandlerExecutes DEF Session!Next
<1>10. CASE RecvHead
  <2>1. client_sock # NoSock /\ UNCHANGED <<backlog, ioc, ran>>
    BY <1>10 DEF RecvHead, IInv, RecvInv
  <2>2. disconnect_client \/ UNCHANGED <<client_sock, sock>>
    BY <1>10 DEF RecvHead
  <2>3. QED BY <1>1, <2>1, <2>2, DisconnectCloses, SocketsStay DEF Session!Next
<1>11. CASE RecvError
  <2>1. client_sock # NoSock /\ disconnect_client /\ UNCHANGED <<backlog, ioc, ran>>
    BY <1>11 DEF RecvError, IInv, RecvInv
  <2>2. QED BY <2>1, DisconnectCloses DEF Session!Next
<1>12. CASE Heartbeat
  <2>1. UNCHANGED <<backlog, ioc, ran>>
    BY <1>12 DEF Heartbeat
  <2>2. (client_sock # NoSock /\ disconnect_client) \/ UNCHANGED <<client_sock, sock>>
    BY <1>12 DEF Heartbeat
  <2>3. QED BY <1>1, <2>1, <2>2, DisconnectCloses, SocketsStay DEF Session!Next
<1>13. CASE SendError
  <2>1. client_sock # NoSock /\ disconnect_client /\ UNCHANGED <<backlog, ioc, ran>>
    BY <1>13 DEF SendError
  <2>2. QED BY <2>1, DisconnectCloses DEF Session!Next
<1>14. QED
  BY <1>2, <1>3, <1>4, <1>5, <1>6, <1>7, <1>8, <1>9, <1>10, <1>11, <1>12, <1>13
     DEF Next, Environment, Server

-----------------------------------------------------------------------------
(* Steps that run no command and read nothing.                             *)
LEMMA RanFrame ==
  ASSUME RanInv, UNCHANGED <<ran, rd, head>>,
         UNCHANGED <<client_sock, sock>> \/ client_sock' = NoSock,
         pc' = pc \/ (pc \notin {"recvbody", "client_msg"} /\ pc' \notin {"recvbody", "client_msg"}),
         pc' \in {"recvbody", "client_msg"} => client_sock' # NoSock,
         \A c \in Conns : (ioc[c] = "idle" \/ Queued(c))' => ioc[c] = "idle" \/ Queued(c)
  PROVE  RanInv'
<1>1. \A c \in Conns : (ioc[c] = "idle" \/ Queued(c))' => ran'[c] = 0
  BY DEF RanInv
<1>2. CASE client_sock' = NoSock
  BY <1>1, <1>2 DEF RanInv
<1>3. CASE UNCHANGED <<client_sock, sock>>
  <2>1. Conn' = Conn
    BY <1>3 DEF Conn
  <2>2. QED BY <1>1, <1>3, <2>1 DEF RanInv
<1>4. QED BY <1>2, <1>3

(* Every step keeps RanInv.                                                *)
LEMMA NextRanInv ==
  ASSUME IInv, IInv', RanInv, [Next]_vars
  PROVE  RanInv'
<1> USE DEF control, sending, ages, network, history
<1>1. pc' \in {"recvbody", "client_msg"} => client_sock' # NoSock
  BY DEF IInv, RecvInv
<1>2. UNCHANGED <<backlog, ioc>> =>
        \A c \in Conns : (ioc[c] = "idle" \/ Queued(c))' => ioc[c] = "idle" \/ Queued(c)
  BY DEF Queued
<1>3. CASE Tick \/ UNCHANGED vars
  BY <1>1, <1>2, <1>3, RanFrame DEF Tick, vars
<1>4. ASSUME NEW c \in Conns, IocConnect(c) PROVE RanInv'
  <2>1. /\ backlog \in Seq(Conns) /\ backlog' = Append(backlog, c)
        /\ UNCHANGED <<client_sock, sock, ran, rd, pc, head>> /\ ioc' = [ioc EXCEPT ![c] = "up"]
        /\ ioc \in [Conns -> {"idle", "up", "gone"}] /\ ioc[c] = "idle"
    BY <1>4 DEF IocConnect, IInv, TypeOK, NetworkOK
  <2>2. \A d \in Conns : Queued(d)' => Queued(d) \/ d = c
    <3>1. /\ Len(backlog) \in Nat /\ Len(backlog') = Len(backlog) + 1
          /\ \A i \in 1..Len(backlog) : backlog'[i] = backlog[i]
          /\ backlog'[Len(backlog) + 1] = c
      BY <2>1, AppendProperties, LenProperties
    <3>2. QED BY <3>1 DEF Queued
  <2>3. \A d \in Conns : (ioc[d] = "idle" \/ Queued(d))' => ioc[d] = "idle" \/ Queued(d)
    BY <1>4, <2>1, <2>2
  <2>4. QED BY <1>1, <2>1, <2>3, RanFrame
<1>5. ASSUME NEW c \in Conns, IocGone(c) PROVE RanInv'
  <2>1. \A d \in Conns : (ioc[d] = "idle" \/ Queued(d))' => ioc[d] = "idle" \/ Queued(d)
    BY <1>5 DEF IocGone, IInv, TypeOK, NetworkOK, Queued
  <2>2. QED BY <1>1, <1>5, <2>1, RanFrame DEF IocGone
<1>6. ASSUME NEW c \in Conns, NEW m \in Message, IocWrite(c, m) PROVE RanInv'
  BY <1>1, <1>2, <1>6, RanFrame DEF IocWrite
<1>7. CASE Select \/ SelectError \/ RecvCheck \/ pscdata_poll \/ SendSkip \/ SendUnit
  <2>1. UNCHANGED <<client_sock, sock, backlog, ioc, ran, rd, head>>
    BY <1>7 DEF Select, SelectError, RecvCheck, pscdata_poll, SendSkip, SendUnit
  <2>2. pc' = pc \/ (pc \notin {"recvbody", "client_msg"} /\ pc' \notin {"recvbody", "client_msg"})
    BY <1>7 DEF Select, SelectError, RecvCheck, pscdata_poll, SendSkip, SendUnit, Goto, IInv, TypeOK, SendingOK
  <2>3. QED BY <1>1, <1>2, <2>1, <2>2, RanFrame
<1>8. CASE Heartbeat \/ SendError
  <2>1. UNCHANGED <<backlog, ioc, ran, rd, head>>
    BY <1>8 DEF Heartbeat, SendError
  <2>2. pc \notin {"recvbody", "client_msg"} /\ pc' \notin {"recvbody", "client_msg"}
    BY <1>8 DEF Heartbeat, SendError, Goto
  <2>3. UNCHANGED <<client_sock, sock>> \/ client_sock' = NoSock
    BY <1>8 DEF Heartbeat, SendError, disconnect_client
  <2>4. QED BY <1>1, <1>2, <2>1, <2>2, <2>3, RanFrame
<1>9. CASE accept_client
  <2>1. backlog # <<>> /\ backlog' = Tail(backlog) /\ UNCHANGED <<ioc, ran, rd>> /\ pc' = "send"
    BY <1>9 DEF accept_client, Goto, IInv, ConnInv
  <2>2. /\ Head(backlog) \in Conns /\ Queued(Head(backlog))
        /\ \A d \in Conns : Queued(d)' <=> Queued(d) /\ d # Head(backlog)
    BY <2>1, BacklogTail
  <2>3. Conn' = Head(backlog)
    BY <1>9 DEF accept_client, Conn
  <2>4. rd[Head(backlog)] = <<1, 0>> /\ ran[Head(backlog)] = 0
    BY <2>2 DEF IInv, ConnInv, RanInv
  <2>5. \A c \in Conns : (ioc[c] = "idle" \/ Queued(c))' => ran'[c] = 0
    BY <2>1, <2>2 DEF RanInv
  <2>6. QED BY <2>1, <2>3, <2>4, <2>5 DEF RanInv
<1>10. CASE AcceptError
  <2>1. /\ backlog # <<>> /\ backlog' = Tail(backlog) /\ pc' = "recv" /\ pc = "accept"
        /\ ioc' = [ioc EXCEPT ![Head(backlog)] = "gone"]
        /\ UNCHANGED <<client_sock, sock, ran, rd, head>>
    BY <1>10 DEF AcceptError, Goto, IInv, ConnInv
  <2>2. \A d \in Conns : Queued(d)' <=> Queued(d) /\ d # Head(backlog)
    BY <2>1, BacklogTail
  <2>3. \A c \in Conns : (ioc[c] = "idle" \/ Queued(c))' => ioc[c] = "idle" \/ Queued(c)
    BY <2>1, <2>2 DEF IInv, TypeOK, NetworkOK
  <2>4. QED BY <1>1, <2>1, <2>3, RanFrame
<1>11. CASE RecvHead \/ RecvBody \/ RecvError \/ client_msg
  <2>1. /\ client_sock # NoSock /\ Conn \in Conns /\ ioc[Conn] # "idle" /\ ~Queued(Conn)
        /\ rd \in [Conns -> (1..MaxMsgs + 1) \X Nat] /\ ran \in [Conns -> 0..MaxMsgs]
    BY <1>11, ClientFacts
       DEF RecvHead, RecvBody, RecvError, client_msg, IInv, RecvInv, TypeOK, NetworkOK, HistoryOK
  <2>2. UNCHANGED <<backlog, ioc>>
    BY <1>11 DEF RecvHead, RecvBody, RecvError, client_msg
  <2>3. (\A c \in Conns : c # Conn => ran'[c] = ran[c]) =>
          \A c \in Conns : (ioc[c] = "idle" \/ Queued(c))' => ran'[c] = 0
    BY <1>2, <2>1, <2>2 DEF RanInv
  <2>4. CASE RecvHead
    <3>1. ran' = ran /\ pc = "recvhead"
      BY <2>4 DEF RecvHead
    <3>2. rd[Conn][1] = ran[Conn] + 1
      BY <2>1, <3>1 DEF RanInv
    <3>3. \/ pc' = "heartbeat" /\ client_sock' = NoSock
          \/ /\ pc' \in {"recvbody", "client_msg"} /\ head' = rd[Conn][1]
             /\ UNCHANGED <<client_sock, sock>>
      BY <2>4 DEF RecvHead, disconnect_client, Goto, Complete
    <3>4. UNCHANGED <<client_sock, sock>> => Conn' = Conn
      BY DEF Conn
    <3>5. QED BY <2>3, <3>1, <3>2, <3>3, <3>4 DEF RanInv
  <2>5. CASE RecvBody
    <3>1. /\ UNCHANGED <<ran, head, client_sock, sock>> /\ pc = "recvbody"
          /\ pc' \in {"recvbody", "client_msg"}
      BY <2>5 DEF RecvBody, Goto, Complete
    <3>2. Conn' = Conn
      BY <3>1 DEF Conn
    <3>3. QED BY <2>3, <3>1, <3>2 DEF RanInv
  <2>6. CASE RecvError
    BY <2>3, <2>6 DEF RecvError, disconnect_client, Goto, RanInv
  <2>7. CASE client_msg
    <3>1. /\ ran' = [ran EXCEPT ![Conn] = head] /\ pc = "client_msg" /\ pc' = "heartbeat"
          /\ UNCHANGED <<client_sock, sock, rd>>
      BY <2>7 DEF client_msg, Goto
    <3>2. Conn' = Conn
      BY <3>1 DEF Conn
    <3>3. rd[Conn] = <<head + 1, 0>>
      BY <3>1 DEF IInv, RecvInv
    <3>4. QED BY <2>1, <2>3, <3>1, <3>2, <3>3 DEF RanInv
  <2>8. QED BY <1>11, <2>4, <2>5, <2>6, <2>7
<1>12. QED
  BY <1>3, <1>4, <1>5, <1>6, <1>7, <1>8, <1>9, <1>10, <1>11 DEF Next, Environment, Server

(* The handler runs the commands in order.                                 *)
LEMMA RanInvariant == Spec => []RanInv
<1>1. Init => RanInv
  BY DEF Init, RanInv
<1>2. IInv /\ IInv' /\ RanInv /\ [Next]_vars => RanInv'
  BY NextRanInv
<1>3. QED BY <1>1, <1>2, InductiveInvariant, PTL DEF Spec

(* For any number of IOCs, descriptors and messages, and whatever fails:   *)
(* psc_run() with its callbacks implements PscSession.  There is one       *)
(* session at a time, a session that ended never returns, and commands run *)
(* one at a time, in the order sent, for the session only.                 *)
THEOREM ServerImplementsSession == Spec => ImplementsSession
<1>1. Init => Session!Init
  <2>1. SUFFICES ASSUME Init PROVE Session!Init
    OBVIOUS
  <2>2. Client = NoConn /\ Done = {} /\ ran = [c \in Conns |-> 0]
    BY <2>1 DEF Init, Client, Done
  <2>3. QED BY <2>2 DEF Session!Init, Client, Done
<1>2. IInv /\ RanInv /\ [Next]_vars => [Session!Next]_(Session!vars)
  BY StepRefines
<1>3. QED BY <1>1, <1>2, InductiveInvariant, RanInvariant, PTL
          DEF Spec, ImplementsSession, Session!Spec

-----------------------------------------------------------------------------
(* Steps outside the part of the iteration TalkInv is about.               *)
LEMMA TalkFrame ==
  ASSUME TalkInv, UNCHANGED <<pc, client_sock, selected_client, sock, selConn, rfds, after>>,
         UNCHANGED <<rxAge, waitAge>> \/ pc \notin {"client_msg", "heartbeat"}
  PROVE  TalkInv'
<1>1. Conn' = Conn
  BY DEF Conn
<1>2. QED BY <1>1 DEF TalkInv

(* Every step keeps TalkInv.                                               *)
LEMMA NextTalkInv ==
  ASSUME IInv, IInv', TalkInv, [Next]_vars
  PROVE  TalkInv'
<1> USE DEF control, sending, ages, network, history
<1>1. rxAge \in Nat /\ waitAge \in Nat /\ HandlerTicks \in Nat /\ BeatTicks \in Nat
      /\ HandlerTicks < BeatTicks
  BY ServerAssumption DEF IInv, TypeOK, AgesOK
<1>2. CASE Environment \/ UNCHANGED vars
  BY <1>2, TalkFrame DEF Environment, IocConnect, IocGone, IocWrite, vars
<1>3. CASE Tick
  <2>1. UNCHANGED <<pc, client_sock, selected_client, sock, selConn, rfds, after>> /\ pc # "heartbeat"
    BY <1>3 DEF Tick
  <2>2. CASE pc = "client_msg"
    <3>1. waitAge' = waitAge + 1 /\ rxAge' <= rxAge + 1 /\ waitAge < HandlerTicks /\ rxAge' \in Nat
      BY <1>1, <1>3, <2>2, ServerAssumption DEF Tick, Older, IInv, TypeOK, AgesOK
    <3>2. QED BY <1>1, <2>1, <2>2, <3>1 DEF TalkInv
  <2>3. CASE pc # "client_msg"
    BY <2>1, <2>3, TalkFrame
  <2>4. QED BY <2>2, <2>3
<1>4. CASE Select
  <2>1. /\ selected_client' = client_sock /\ UNCHANGED <<client_sock, sock>>
        /\ selConn' = IF client_sock = NoSock THEN NoConn ELSE Conn
        /\ pc' \in {"accept", "recv"}
    BY <1>4 DEF Select, Goto
  <2>2. QED BY <2>1 DEF TalkInv
<1>5. CASE SelectError
  BY <1>5 DEF SelectError, Goto, TalkInv
<1>6. CASE accept_client
  <2>1. pc = "accept" /\ pc' = "send" /\ backlog # <<>> /\ backlog' = Tail(backlog) /\ selConn' = selConn
    BY <1>6 DEF accept_client, Goto, IInv, ConnInv
  <2>2. Head(backlog) \in Conns /\ Queued(Head(backlog))
    BY <2>1, BacklogTail
  <2>3. Conn' = Head(backlog)
    BY <1>6 DEF accept_client, Conn
  <2>4. client_sock = NoSock => selConn = NoConn
    BY <2>1 DEF TalkInv
  <2>5. client_sock # NoSock => selConn = Conn /\ Opened(selConn)
    BY <2>1, ClientFacts DEF IInv, SelectInv
  <2>6. selConn # Head(backlog)
    BY <2>2, <2>4, <2>5, ServerAssumption DEF IInv, ConnInv
  <2>7. QED BY <2>1, <2>3, <2>6 DEF TalkInv
<1>7. CASE AcceptError
  <2>1. pc = "accept" /\ pc' = "recv" /\ UNCHANGED <<client_sock, selected_client>>
    BY <1>7 DEF AcceptError, Goto
  <2>2. client_sock = selected_client
    BY <2>1 DEF IInv, SelectInv
  <2>3. QED BY <2>1, <2>2 DEF TalkInv
<1>8. CASE RecvCheck
  <2>1. /\ pc = "recv" /\ pc' \in {"recvhead", "heartbeat"}
        /\ UNCHANGED <<client_sock, selected_client, sock, rfds, selConn>>
        /\ pc' = "heartbeat" =>
             ~(selected_client # NoSock /\ client_sock = selected_client /\ "client" \in rfds)
    BY <1>8 DEF RecvCheck, Goto
  <2>2. Conn' = Conn
    BY <2>1 DEF Conn
  <2>3. QED BY <2>1, <2>2 DEF TalkInv
<1>9. CASE RecvHead \/ RecvBody
  <2>1. \/ pc' = "heartbeat" /\ client_sock' = NoSock
        \/ pc' = "recvbody"
        \/ pc' = "client_msg" /\ rxAge' = 0 /\ waitAge' = 0
    BY <1>9 DEF RecvHead, RecvBody, disconnect_client, Complete, Goto
  <2>2. QED BY <1>1, <2>1 DEF TalkInv
<1>10. CASE RecvError
  BY <1>10 DEF RecvError, disconnect_client, Goto, TalkInv
<1>11. CASE client_msg
  <2>1. pc = "client_msg" /\ pc' = "heartbeat" /\ rxAge' = rxAge
    BY <1>11 DEF client_msg, Goto
  <2>2. rxAge' < BeatTicks
    BY <1>1, <2>1 DEF TalkInv
  <2>3. QED BY <2>1, <2>2 DEF TalkInv
<1>12. CASE Heartbeat \/ pscdata_poll
  BY <1>12 DEF Heartbeat, pscdata_poll, Goto, TalkInv
<1>13. CASE SendSkip
  <2>1. /\ pc = "send" /\ pc' = after /\ after \in {"recv", "select"}
        /\ UNCHANGED <<client_sock, selected_client, sock, selConn>>
    BY <1>13 DEF SendSkip, Goto, IInv, TypeOK, SendingOK
  <2>2. Conn' = Conn
    BY <2>1 DEF Conn
  <2>3. QED BY <2>1, <2>2 DEF TalkInv
<1>14. CASE SendUnit
  BY <1>14, TalkFrame DEF SendUnit
<1>15. CASE SendError
  BY <1>15 DEF SendError, disconnect_client, TalkInv
<1>16. QED
  BY <1>2, <1>3, <1>4, <1>5, <1>6, <1>7, <1>8, <1>9, <1>10, <1>11, <1>12, <1>13, <1>14, <1>15
     DEF Next, Server

(* A client that select() reported is heard before it is judged.           *)
LEMMA TalkInvariant == Spec => []TalkInv
<1>1. Init => TalkInv
  BY DEF Init, TalkInv
<1>2. IInv /\ IInv' /\ TalkInv /\ [Next]_vars => TalkInv'
  BY NextTalkInv
<1>3. QED BY <1>1, <1>2, InductiveInvariant, PTL DEF Spec

(* The heartbeat check of psc_run() never disconnects a client whose       *)
(* message this iteration's select() reported, however old last_rx_tick    *)
(* was when the iteration began.                                           *)
THEOREM LateHeartbeatCounts == Spec => HeartbeatSparesTalker
<1>1. IInv /\ TalkInv /\ [Next]_vars =>
        [pc = "heartbeat" /\ client_sock # NoSock /\ client_sock' = NoSock
           => "client" \notin rfds \/ selConn # Conn]_vars
  <2>1. SUFFICES ASSUME IInv, TalkInv, Next, pc = "heartbeat", client_sock # NoSock,
                        client_sock' = NoSock, "client" \in rfds, selConn = Conn
                 PROVE  FALSE
    OBVIOUS
  <2>2. rxAge < BeatTicks /\ rxAge \in Nat /\ BeatTicks \in Nat
    BY <2>1, ServerAssumption DEF TalkInv, IInv, TypeOK, AgesOK
  <2>3. CASE Heartbeat
    BY <2>1, <2>2, <2>3 DEF Heartbeat
  <2>4. CASE Tick \/ Environment
    BY <2>1, <2>4 DEF Tick, Environment, IocConnect, IocGone, IocWrite, control
  <2>5. CASE Server /\ ~Heartbeat
    BY <2>1, <2>5 DEF Server, Select, SelectError, accept_client, AcceptError, RecvCheck, RecvHead,
                      RecvBody, RecvError, client_msg, pscdata_poll, SendSkip, SendUnit, SendError
  <2>6. QED BY <2>1, <2>3, <2>4, <2>5 DEF Next
<1>2. QED BY <1>1, InductiveInvariant, TalkInvariant, PTL DEF Spec, HeartbeatSparesTalker

=============================================================================
