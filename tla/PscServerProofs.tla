-------------------------- MODULE PscServerProofs --------------------------
(***************************************************************************)
(* IInv of PscServer is inductive, so the server's safety properties hold  *)
(* for every number of IOCs, descriptors and messages and all periods.     *)
(***************************************************************************)
EXTENDS PscServer, TLAPS, SequenceTheorems

(* A header's length is a number of units.                                 *)
LEMMA MessageLen == \A m \in Message \cup {NoMessage} : m.len \in Nat
  <1>1. Lens \subseteq Nat
    BY ServerAssumption
  <1>2. \A m \in Message : m.len \in Nat
    BY <1>1 DEF Message
  <1>3. NoMessage.len \in Nat
    BY DEF NoMessage
  <1> QED BY <1>2, <1>3

(* The connection behind client_sock is the only one with a descriptor,    *)
(* and is neither idle nor waiting for accept().                           *)
LEMMA ClientFacts ==
  ASSUME IInv
  PROVE  /\ client_sock # NoSock =>
              /\ client_sock \in Fds /\ Conn \in Conns
              /\ Opened(Conn) /\ ioc[Conn] # "idle" /\ ~Queued(Conn)
         /\ \A c \in Conns : Opened(c) => client_sock # NoSock /\ Conn = c
  <1>1. client_sock # NoSock => client_sock \in Fds /\ Conn \in Conns /\ Opened(Conn)
    BY DEF IInv, TypeOK, ControlOK, NetworkOK, OneOpenSocket, Conn, Opened
  <1>2. ASSUME NEW c \in Conns, Opened(c)
        PROVE  client_sock # NoSock /\ Conn = c
    <2>1. PICK f \in Fds : sock[f] = c
      BY <1>2 DEF Opened
    <2>2. f = client_sock
      BY <2>1, ServerAssumption DEF IInv, OneOpenSocket
    <2> QED BY <2>1, <2>2, ServerAssumption DEF NoSock, Conn
  <1> QED BY <1>1, <1>2 DEF IInv, ConnInv

(* disconnect_client() leaves no IOC descriptor open.                      *)
LEMMA DisconnectFacts ==
  ASSUME IInv, client_sock # NoSock, disconnect_client
  PROVE  /\ OneOpenSocket'
         /\ client_sock' = NoSock
         /\ sock' = [f \in Fds |-> NoConn]
         /\ \A c \in Conns : ~Opened(c)'
  <1>1. sock' = [f \in Fds |-> NoConn] /\ client_sock' = NoSock
    BY DEF IInv, TypeOK, NetworkOK, OneOpenSocket, disconnect_client
  <1>2. OneOpenSocket'
    BY <1>1, ServerAssumption DEF OneOpenSocket, NoSock
  <1>3. \A c \in Conns : ~Opened(c)'
    BY <1>1, ServerAssumption DEF Opened
  <1> QED BY <1>1, <1>2, <1>3

(* A step that neither queues nor opens a connection and leaves the ones   *)
(* not accepted yet alone keeps ConnInv.                                   *)
LEMMA ConnFrame ==
  ASSUME ConnInv, UNCHANGED <<backlog, ioc, wr>>, pc' # "accept" \/ pc' = pc,
         \A c \in Conns : Opened(c)' => Opened(c),
         \A c \in Conns : ioc[c] = "idle" \/ Queued(c)
                          => rd'[c] = rd[c] /\ view'[c] = view[c]
  PROVE  ConnInv'
  <1>1. \A c \in Conns : Queued(c)' <=> Queued(c)
    BY DEF Queued
  <1> QED BY <1>1 DEF ConnInv

(* accept() takes the first connection of the backlog.                     *)
LEMMA BacklogTail ==
  ASSUME IInv, backlog # <<>>, backlog' = Tail(backlog)
  PROVE  /\ backlog' \in Seq(Conns) /\ Head(backlog) \in Conns
         /\ Queued(Head(backlog))
         /\ \A i, j \in 1..Len(backlog') : backlog'[i] = backlog'[j] => i = j
         /\ \A d \in Conns : Queued(d)' <=> Queued(d) /\ d # Head(backlog)
  <1>1. /\ backlog \in Seq(Conns) /\ backlog' \in Seq(Conns)
        /\ Head(backlog) \in Conns /\ Head(backlog) = backlog[1]
        /\ Len(backlog) \in Nat \ {0} /\ Len(backlog') = Len(backlog) - 1
        /\ \A i \in 1..Len(backlog') : backlog'[i] = backlog[i + 1]
    BY HeadTailProperties, EmptySeq DEF IInv, TypeOK, NetworkOK
  <1>2. \A i, j \in 1..Len(backlog) : backlog[i] = backlog[j] => i = j
    BY DEF IInv, ConnInv
  <1>3. ASSUME NEW d \in Conns, Queued(d)'
        PROVE  Queued(d) /\ d # Head(backlog)
    <2>1. PICK i \in 1..Len(backlog') : backlog'[i] = d
      BY <1>3 DEF Queued
    <2>2. i + 1 \in 1..Len(backlog) /\ backlog[i + 1] = d /\ 1 \in 1..Len(backlog) /\ i + 1 # 1
      BY <1>1, <2>1
    <2> QED BY <1>1, <1>2, <2>2 DEF Queued
  <1>4. ASSUME NEW d \in Conns, Queued(d), d # Head(backlog)
        PROVE  Queued(d)'
    <2>1. PICK j \in 1..Len(backlog) : backlog[j] = d
      BY <1>4 DEF Queued
    <2>2. j - 1 \in 1..Len(backlog') /\ backlog'[j - 1] = d
      BY <1>1, <1>4, <2>1
    <2> QED BY <2>2 DEF Queued
  <1>5. \A i, j \in 1..Len(backlog') : backlog'[i] = backlog'[j] => i = j
    BY <1>1, <1>2
  <1>6. Queued(Head(backlog))
    BY <1>1 DEF Queued
  <1> QED BY <1>1, <1>3, <1>4, <1>5, <1>6

(* The unit the server reads next has been written by the IOC.             *)
LEMMA ReadFacts ==
  ASSUME IInv, NEW c \in Conns, Unread(c)
  PROVE  /\ rd[c][1] \in 1..MaxMsgs /\ rd[c][2] \in Nat
         /\ msg[c][rd[c][1]].len \in Nat
         /\ rd[c][2] <= msg[c][rd[c][1]].len
         /\ Succ(c, rd[c]) \in (1..MaxMsgs + 1) \X Nat
         /\ \/ Succ(c, rd[c]) = wr[c]
            \/ Succ(c, rd[c])[1] < wr[c][1] /\ Succ(c, rd[c])[2] = 0
            \/ Succ(c, rd[c])[1] < wr[c][1]
                 /\ Succ(c, rd[c])[2] <= msg[c][Succ(c, rd[c])[1]].len
            \/ Succ(c, rd[c])[1] = wr[c][1] /\ Succ(c, rd[c])[2] < wr[c][2]
  <1>1. /\ rd[c] = <<rd[c][1], rd[c][2]>> /\ wr[c] = <<wr[c][1], wr[c][2]>>
        /\ rd[c][1] \in 1..MaxMsgs + 1 /\ rd[c][2] \in Nat
        /\ wr[c][1] \in 1..MaxMsgs + 1 /\ wr[c][2] \in Nat
    BY DEF IInv, TypeOK, NetworkOK
  <1>2. \A n \in 1..MaxMsgs : msg[c][n].len \in Nat
    BY MessageLen DEF IInv, TypeOK, NetworkOK
  <1>3. \/ rd[c][1] < wr[c][1] /\ rd[c][2] <= msg[c][rd[c][1]].len
        \/ rd[c][1] = wr[c][1] /\ rd[c][2] < wr[c][2] /\ wr[c][1] <= MaxMsgs
             /\ wr[c][2] <= msg[c][wr[c][1]].len
    BY <1>1 DEF IInv, StreamInv, Unread
  <1>4. rd[c][1] \in 1..MaxMsgs
    BY <1>1, <1>3, ServerAssumption
  <1>5. rd[c][2] <= msg[c][rd[c][1]].len
    BY <1>1, <1>2, <1>3, <1>4
  <1> QED BY <1>1, <1>2, <1>3, <1>4, <1>5, ServerAssumption DEF Succ


(* An IOC joining the backlog preserves the inductive invariant.            *)
LEMMA IocConnectKeeps ==
  ASSUME NEW c \in Conns, IInv, IocConnect(c)
  PROVE  IInv'
  <1> USE DEF control, sending, ages, network, history
  <1>0. /\ backlog \in Seq(Conns) /\ backlog' \in Seq(Conns)
        /\ Len(backlog) \in Nat /\ Len(backlog') = Len(backlog) + 1
        /\ \A i \in 1..Len(backlog) : backlog'[i] = backlog[i]
        /\ backlog'[Len(backlog) + 1] = c
    BY AppendProperties, LenProperties DEF IInv, TypeOK, NetworkOK, IocConnect
  <1>1. TypeOK'
    <2>1. ControlOK'
      BY ServerAssumption DEF IInv, TypeOK, ControlOK, PCs, IocConnect
    <2>2. SendingOK'
      BY ServerAssumption DEF IInv, TypeOK, SendingOK, IocConnect
    <2>3. AgesOK'
      BY ServerAssumption DEF IInv, TypeOK, AgesOK, IocConnect
    <2>4. NetworkOK'
      BY <1>0 DEF IInv, TypeOK, NetworkOK, IocConnect
    <2>5. HistoryOK'
      BY ServerAssumption DEF IInv, TypeOK, HistoryOK, IocConnect
    <2> QED BY <2>1, <2>2, <2>3, <2>4, <2>5 DEF TypeOK
  <1>2. OneOpenSocket'
    BY DEF IInv, OneOpenSocket, Conn, IocConnect
  <1>3. ConnInv'
    <2>1. ioc[c] = "idle" /\ ~Queued(c) /\ ~Opened(c)
      BY DEF IInv, ConnInv, IocConnect
    <2>2. \A d \in Conns : Queued(d)' <=> Queued(d) \/ d = c
      BY <1>0 DEF Queued
    <2>3. \A d \in Conns : Opened(d)' <=> Opened(d)
      BY DEF Opened, IocConnect
    <2>4. \A d \in Conns : ioc'[d] = IF d = c THEN "up" ELSE ioc[d]
      BY DEF IInv, TypeOK, NetworkOK, IocConnect
    <2>5. \A i, j \in 1..Len(backlog') : backlog'[i] = backlog'[j] => i = j
      BY <1>0, <2>1 DEF IInv, ConnInv, Queued
    <2>6. pc' = "accept" => backlog' # <<>>
      BY <1>0 DEF IInv, ConnInv, IocConnect
    <2> QED BY <2>1, <2>2, <2>3, <2>4, <2>5, <2>6 DEF IInv, ConnInv, IocConnect
  <1>4. StreamInv'
    BY DEF IInv, StreamInv, IocConnect
  <1>5. RecvInv'
    BY DEF IInv, RecvInv, Conn, IocConnect
  <1>6. SelectInv'
    BY DEF IInv, SelectInv, Conn, IocConnect
  <1>7. SendInv'
    BY DEF IInv, SendInv, Conn, IocConnect
  <1> QED BY <1>1, <1>2, <1>3, <1>4, <1>5, <1>6, <1>7 DEF IInv

(* An IOC writing a unit preserves the inductive invariant.                 *)
LEMMA IocWriteKeeps ==
  ASSUME NEW c \in Conns, NEW m \in Message, IInv, IocWrite(c, m)
  PROVE  IInv'
  <1> USE DEF control, sending, ages, network, history
  <1> DEFINE n == wr[c][1]
  <1> DEFINE k == wr[c][2]
  <1>0. /\ n \in 1..MaxMsgs /\ k \in Nat /\ wr[c] = <<n, k>> /\ m.len \in Nat
        /\ wr' = [wr EXCEPT ![c] = IF k < m.len THEN <<n, k + 1>> ELSE <<n + 1, 0>>]
        /\ msg' = IF k = 0 THEN [msg EXCEPT ![c][n] = m] ELSE msg
        /\ k # 0 => m = msg[c][n]
    <2>1. wr[c] \in (1..MaxMsgs + 1) \X Nat
      BY DEF IInv, TypeOK, NetworkOK
    <2> QED BY <2>1, MessageLen, ServerAssumption DEF IocWrite
  <1>a. \A d \in Conns, i \in 1..MaxMsgs :
          msg'[d][i] = IF k = 0 /\ d = c /\ i = n THEN m ELSE msg[d][i]
    BY <1>0 DEF IInv, TypeOK, NetworkOK
  <1>b. \A d \in Conns : wr'[d] = IF d # c THEN wr[d]
                                  ELSE IF k < m.len THEN <<n, k + 1>> ELSE <<n + 1, 0>>
    BY <1>0 DEF IInv, TypeOK, NetworkOK
  <1>1. TypeOK'
    <2>1. ControlOK'
      BY ServerAssumption DEF IInv, TypeOK, ControlOK, PCs, IocWrite
    <2>2. SendingOK'
      BY ServerAssumption DEF IInv, TypeOK, SendingOK, IocWrite
    <2>3. AgesOK'
      BY ServerAssumption DEF IInv, TypeOK, AgesOK, IocWrite
    <2>4. NetworkOK'
      <3>1. msg' \in [Conns -> [1..MaxMsgs -> Message \cup {NoMessage}]]
        BY <1>0 DEF IInv, TypeOK, NetworkOK
      <3>2. wr' \in [Conns -> (1..MaxMsgs + 1) \X Nat]
        <4>1. <<n, k + 1>> \in (1..MaxMsgs + 1) \X Nat /\ <<n + 1, 0>> \in (1..MaxMsgs + 1) \X Nat
          BY <1>0, ServerAssumption
        <4> QED BY <1>0, <4>1 DEF IInv, TypeOK, NetworkOK
      <3> QED BY <3>1, <3>2 DEF IInv, TypeOK, NetworkOK, IocWrite
    <2>5. HistoryOK'
      BY ServerAssumption DEF IInv, TypeOK, HistoryOK, IocWrite
    <2> QED BY <2>1, <2>2, <2>3, <2>4, <2>5 DEF TypeOK
  <1>2. OneOpenSocket'
    BY DEF IInv, OneOpenSocket, Conn, IocWrite
  <1>3. ConnInv'
    BY DEF IInv, ConnInv, Queued, Opened, IocWrite
  <1>4. StreamInv'
    <2> SUFFICES ASSUME NEW d \in Conns PROVE StreamInv!(d)'
      BY DEF StreamInv
    <2>0. /\ rd' = rd /\ rd[d] = <<rd[d][1], rd[d][2]>> /\ rd[d][1] \in 1..MaxMsgs + 1
          /\ rd[d][2] \in Nat /\ wr[d][1] \in 1..MaxMsgs + 1
      BY DEF IInv, TypeOK, NetworkOK, IocWrite
    <2>1. CASE d # c
      BY <1>a, <1>b, <2>0, <2>1, ServerAssumption DEF IInv, StreamInv
    <2>2. CASE d = c
      BY <1>0, <1>a, <1>b, <2>0, <2>2, ServerAssumption DEF IInv, StreamInv
    <2> QED BY <2>1, <2>2
  <1>5. RecvInv'
    <2>1. UNCHANGED <<pc, client_sock, rxbuf, head, rd, sock>>
      BY DEF IocWrite
    <2>2. ASSUME pc \in {"recvbody", "client_msg"}, head # 0, client_sock # NoSock,
                 (rd[Conn][1] = head /\ rd[Conn][2] > 0) \/ rd[Conn][1] > head
          PROVE  msg'[Conn][head] = msg[Conn][head]
      <3>1. Conn \in Conns /\ head \in 1..MaxMsgs
        BY <2>2, ClientFacts, ServerAssumption DEF IInv, TypeOK, ControlOK
      <3>2. rd[Conn] \in (1..MaxMsgs + 1) \X Nat /\ wr[Conn] \in (1..MaxMsgs + 1) \X Nat
        BY <3>1 DEF IInv, TypeOK, NetworkOK
      <3>3. ~(Conn = c /\ head = n /\ k = 0)
        BY <2>2, <3>1, <3>2, <1>0, ServerAssumption DEF IInv, StreamInv
      <3> QED BY <3>1, <3>3, <1>a
    <2>3. pc = "recvbody" => msg'[Conn][head] = msg[Conn][head]
      BY <2>2, LenProperties DEF IInv, RecvInv, TypeOK, ControlOK
    <2>4. pc = "client_msg" => msg'[Conn][head] = msg[Conn][head]
      BY <2>2, ServerAssumption DEF IInv, RecvInv, TypeOK, ControlOK
    <2> QED BY <2>1, <2>3, <2>4 DEF IInv, RecvInv, Conn
  <1>6. SelectInv'
    BY DEF IInv, SelectInv, Conn, IocWrite
  <1>7. SendInv'
    BY DEF IInv, SendInv, Conn, IocWrite
  <1> QED BY <1>1, <1>2, <1>3, <1>4, <1>5, <1>6, <1>7 DEF IInv

(* An IOC going away preserves the inductive invariant.                     *)
LEMMA IocGoneKeeps ==
  ASSUME NEW c \in Conns, IInv, IocGone(c)
  PROVE  IInv'
  <1> USE DEF control, sending, ages, network, history
  <1>1. TypeOK'
    <2>1. ControlOK'
      BY ServerAssumption DEF IInv, TypeOK, ControlOK, PCs, IocGone
    <2>2. SendingOK'
      BY ServerAssumption DEF IInv, TypeOK, SendingOK, IocGone
    <2>3. AgesOK'
      BY ServerAssumption DEF IInv, TypeOK, AgesOK, IocGone
    <2>4. NetworkOK'
      BY ServerAssumption DEF IInv, TypeOK, NetworkOK, IocGone
    <2>5. HistoryOK'
      BY ServerAssumption DEF IInv, TypeOK, HistoryOK, IocGone
    <2> QED BY <2>1, <2>2, <2>3, <2>4, <2>5 DEF TypeOK
  <1>2. OneOpenSocket'
    BY DEF IInv, OneOpenSocket, Conn, IocGone
  <1>3. ConnInv'
    BY DEF IInv, ConnInv, Queued, Opened, IocGone
  <1>4. StreamInv'
    BY DEF IInv, StreamInv, IocGone
  <1>5. RecvInv'
    BY DEF IInv, RecvInv, Conn, IocGone
  <1>6. SelectInv'
    BY DEF IInv, SelectInv, Conn, IocGone
  <1>7. SendInv'
    BY DEF IInv, SendInv, Conn, IocGone
  <1> QED BY <1>1, <1>2, <1>3, <1>4, <1>5, <1>6, <1>7 DEF IInv

(* Time passing preserves the inductive invariant.                          *)
LEMMA TickKeeps ==
  ASSUME IInv, Tick
  PROVE  IInv'
  <1> USE DEF control, sending, ages, network, history
  <1>1. TypeOK'
    <2>1. ControlOK'
      BY ServerAssumption DEF IInv, TypeOK, ControlOK, PCs, Older, Tick
    <2>2. SendingOK'
      BY ServerAssumption DEF IInv, TypeOK, SendingOK, Older, Tick
    <2>3. AgesOK'
      BY ServerAssumption DEF IInv, TypeOK, AgesOK, Older, Tick
    <2>4. NetworkOK'
      BY ServerAssumption DEF IInv, TypeOK, NetworkOK, Older, Tick
    <2>5. HistoryOK'
      BY ServerAssumption DEF IInv, TypeOK, HistoryOK, Older, Tick
    <2> QED BY <2>1, <2>2, <2>3, <2>4, <2>5 DEF TypeOK
  <1>2. OneOpenSocket'
    BY DEF IInv, OneOpenSocket, Conn, Older, Tick
  <1>3. ConnInv'
    BY DEF IInv, ConnInv, Queued, Opened, Older, Tick
  <1>4. StreamInv'
    BY DEF IInv, StreamInv, Older, Tick
  <1>5. RecvInv'
    BY DEF IInv, RecvInv, Conn, Older, Tick
  <1>6. SelectInv'
    BY DEF IInv, SelectInv, Conn, Older, Tick
  <1>7. SendInv'
    BY DEF IInv, SendInv, Conn, Older, Tick
  <1> QED BY <1>1, <1>2, <1>3, <1>4, <1>5, <1>6, <1>7 DEF IInv

(* select() returning preserves the inductive invariant.                    *)
LEMMA SelectKeeps ==
  ASSUME IInv, Select
  PROVE  IInv'
  <1> USE DEF control, sending, ages, network, history
  <1>1. TypeOK'
    <2>1. ControlOK'
      BY ServerAssumption DEF IInv, TypeOK, ControlOK, PCs, Goto, Select, Ready
    <2>2. SendingOK'
      BY ServerAssumption DEF IInv, TypeOK, SendingOK, Goto, Select
    <2>3. AgesOK'
      BY ServerAssumption DEF IInv, TypeOK, AgesOK, Goto, Select
    <2>4. NetworkOK'
      BY ServerAssumption DEF IInv, TypeOK, NetworkOK, Goto, Select
    <2>5. HistoryOK'
      BY ClientFacts DEF IInv, TypeOK, HistoryOK, Select
    <2> QED BY <2>1, <2>2, <2>3, <2>4, <2>5 DEF TypeOK
  <1>2. OneOpenSocket'
    BY DEF IInv, OneOpenSocket, Conn, Goto, Select
  <1>3. ConnInv'
    <2>1. pc' = "accept" => backlog # <<>>
      BY DEF Select, Goto, Ready
    <2> QED BY <2>1 DEF IInv, ConnInv, Queued, Opened, Select
  <1>4. StreamInv'
    BY DEF IInv, StreamInv, Goto, Select
  <1>5. RecvInv'
    BY DEF IInv, RecvInv, Conn, Goto, Select
  <1>6. SelectInv'
    BY DEF IInv, SelectInv, Conn, Goto, Select
  <1>7. SendInv'
    BY DEF IInv, SendInv, Conn, Goto, Select
  <1> QED BY <1>1, <1>2, <1>3, <1>4, <1>5, <1>6, <1>7 DEF IInv

(* A failed select() preserves the inductive invariant.                     *)
LEMMA SelectErrorKeeps ==
  ASSUME IInv, SelectError
  PROVE  IInv'
  <1> USE DEF control, sending, ages, network, history
  <1>1. TypeOK'
    <2>1. ControlOK'
      BY ServerAssumption DEF IInv, TypeOK, ControlOK, PCs, Goto, SelectError
    <2>2. SendingOK'
      BY ServerAssumption DEF IInv, TypeOK, SendingOK, Goto, SelectError
    <2>3. AgesOK'
      BY ServerAssumption DEF IInv, TypeOK, AgesOK, Goto, SelectError
    <2>4. NetworkOK'
      BY ServerAssumption DEF IInv, TypeOK, NetworkOK, Goto, SelectError
    <2>5. HistoryOK'
      BY ClientFacts DEF IInv, TypeOK, HistoryOK, SelectError
    <2> QED BY <2>1, <2>2, <2>3, <2>4, <2>5 DEF TypeOK
  <1>2. OneOpenSocket'
    BY DEF IInv, OneOpenSocket, Conn, Goto, SelectError
  <1>3. ConnInv'
    BY DEF IInv, ConnInv, Queued, Opened, Goto, SelectError
  <1>4. StreamInv'
    BY DEF IInv, StreamInv, Goto, SelectError
  <1>5. RecvInv'
    BY DEF IInv, RecvInv, Conn, Goto, SelectError
  <1>6. SelectInv'
    BY DEF IInv, SelectInv, Conn, Goto, SelectError
  <1>7. SendInv'
    BY DEF IInv, SendInv, Conn, Goto, SelectError
  <1> QED BY <1>1, <1>2, <1>3, <1>4, <1>5, <1>6, <1>7 DEF IInv

(* accept_client(), the old client superseded or not, preserves the inductive invariant.*)
LEMMA accept_clientKeeps ==
  ASSUME IInv, accept_client
  PROVE  IInv'
  <1> USE DEF control, sending, ages, network, history
  <1>0. PICK f \in Fds :
          /\ sock[f] = NoConn
          /\ sock' = [g \in Fds |-> IF g = f THEN Head(backlog)
                                    ELSE IF g = client_sock THEN NoConn ELSE sock[g]]
          /\ client_sock' = f
    BY DEF accept_client
  <1>a. /\ pc' = "send" /\ txq' = <<"hello">> /\ after' = "recv" /\ rxbuf' = rxbuf
        /\ UNCHANGED <<selected_client, txleft, ioc, msg, wr, rd, view, selConn>>
        /\ backlog' = Tail(backlog) /\ newest' = Head(backlog)
    BY DEF accept_client, Goto
  <1>b. /\ backlog' \in Seq(Conns) /\ Head(backlog) \in Conns
        /\ Queued(Head(backlog))
        /\ \A i, j \in 1..Len(backlog') : backlog'[i] = backlog'[j] => i = j
        /\ \A d \in Conns : Queued(d)' <=> Queued(d) /\ d # Head(backlog)
    BY <1>a, BacklogTail DEF IInv, ConnInv, accept_client
  <1>c. /\ Queued(Head(backlog)) /\ ~Opened(Head(backlog))
        /\ rd[Head(backlog)] = <<1, 0>> /\ view[Head(backlog)] = "fresh"
    BY <1>b DEF IInv, ConnInv
  <1>d. Conn' = Head(backlog) /\ client_sock' # NoSock
    BY <1>0, ServerAssumption DEF Conn, NoSock
  <1>e. txleft = 0
    BY DEF IInv, TypeOK, SendingOK, SendInv, accept_client
  <1>1. TypeOK'
    <2>1. ControlOK'
      BY ServerAssumption DEF IInv, TypeOK, ControlOK, PCs, Goto, accept_client
    <2>2. SendingOK'
      <3>1. <<"hello">> \in Seq(TxMsg)
        BY DEF TxMsg
      <3> QED BY <3>1, <1>a DEF IInv, TypeOK, SendingOK
    <2>3. AgesOK'
      BY ServerAssumption DEF IInv, TypeOK, AgesOK, Goto, accept_client
    <2>4. NetworkOK'
      <3>1. sock' \in [Fds -> Conns \cup {NoConn}]
        BY <1>0, <1>b DEF IInv, TypeOK, NetworkOK
      <3> QED BY <3>1, <1>a, <1>b DEF IInv, TypeOK, NetworkOK
    <2>5. HistoryOK'
      BY <1>b DEF IInv, TypeOK, HistoryOK, accept_client
    <2> QED BY <2>1, <2>2, <2>3, <2>4, <2>5 DEF TypeOK
  <1>2. OneOpenSocket'
    <2>1. \A g \in Fds : sock'[g] # NoConn <=> g = client_sock'
      BY <1>0, <1>b, ServerAssumption DEF IInv, OneOpenSocket
    <2> QED BY <2>1, <1>a, <1>d DEF OneOpenSocket
  <1>3. ConnInv'
    <2>2. \A d \in Conns : Opened(d)' => d = Head(backlog)
      BY <1>0, ServerAssumption DEF Opened, IInv, OneOpenSocket
    <2> QED BY <1>a, <1>b, <1>c, <2>2 DEF IInv, ConnInv
  <1>4. StreamInv'
    BY DEF IInv, StreamInv, Goto, accept_client
  <1>5. RecvInv'
    <2>1. rxbuf' = <<>>
      BY <1>a DEF IInv, RecvInv, accept_client
    <2>2. rd'[Conn'][2] = 0
      BY <1>a, <1>c, <1>d
    <2> QED BY <2>1, <2>2, <1>a DEF RecvInv, Conn
  <1>6. SelectInv'
    <2>1. selected_client = client_sock
      BY DEF IInv, SelectInv, accept_client
    <2>2. selected_client # NoSock => client_sock' # selected_client
      BY <1>0, <2>1 DEF IInv, TypeOK, ControlOK, OneOpenSocket
    <2> QED BY <1>a, <2>2 DEF SelectInv
  <1>7. SendInv'
    <2>1. view'[Conn'] = "fresh"
      BY <1>a, <1>c, <1>d
    <2>2. txq' # <<>>
      BY <1>a
    <2> QED BY <1>a, <1>e, <2>1, <2>2, <1>d DEF IInv, SendInv, Conn
  <1> QED BY <1>1, <1>2, <1>3, <1>4, <1>5, <1>6, <1>7 DEF IInv

(* A failed accept() preserves the inductive invariant.                     *)
LEMMA AcceptErrorKeeps ==
  ASSUME IInv, AcceptError
  PROVE  IInv'
  <1> USE DEF control, sending, ages, network, history
  <1>b. /\ backlog' \in Seq(Conns) /\ Head(backlog) \in Conns
        /\ Queued(Head(backlog))
        /\ \A i, j \in 1..Len(backlog') : backlog'[i] = backlog'[j] => i = j
        /\ \A d \in Conns : Queued(d)' <=> Queued(d) /\ d # Head(backlog)
    BY BacklogTail DEF IInv, ConnInv, AcceptError
  <1>1. TypeOK'
    <2>1. ControlOK'
      BY ServerAssumption DEF IInv, TypeOK, ControlOK, PCs, Goto, AcceptError
    <2>2. SendingOK'
      BY ServerAssumption DEF IInv, TypeOK, SendingOK, Goto, AcceptError
    <2>3. AgesOK'
      BY ServerAssumption DEF IInv, TypeOK, AgesOK, Goto, AcceptError
    <2>4. NetworkOK'
      BY <1>b DEF IInv, TypeOK, NetworkOK, AcceptError
    <2>5. HistoryOK'
      BY ServerAssumption DEF IInv, TypeOK, HistoryOK, Goto, AcceptError
    <2> QED BY <2>1, <2>2, <2>3, <2>4, <2>5 DEF TypeOK
  <1>2. OneOpenSocket'
    BY DEF IInv, OneOpenSocket, Conn, Goto, AcceptError
  <1>3. ConnInv'
    <2>2. \A d \in Conns : Opened(d)' <=> Opened(d)
      BY DEF Opened, AcceptError
    <2>4. \A d \in Conns : ioc'[d] = IF d = Head(backlog) THEN "gone" ELSE ioc[d]
      BY DEF IInv, TypeOK, NetworkOK, AcceptError
    <2> QED BY <1>b, <2>2, <2>4 DEF IInv, ConnInv, AcceptError, Goto
  <1>4. StreamInv'
    BY DEF IInv, StreamInv, Goto, AcceptError
  <1>5. RecvInv'
    BY DEF IInv, RecvInv, Conn, Goto, AcceptError
  <1>6. SelectInv'
    BY DEF IInv, SelectInv, Conn, Goto, AcceptError
  <1>7. SendInv'
    BY DEF IInv, SendInv, Conn, Goto, AcceptError
  <1> QED BY <1>1, <1>2, <1>3, <1>4, <1>5, <1>6, <1>7 DEF IInv

(* The test before psc_recvmsg() preserves the inductive invariant.         *)
LEMMA RecvCheckKeeps ==
  ASSUME IInv, RecvCheck
  PROVE  IInv'
  <1> USE DEF control, sending, ages, network, history
  <1>1. TypeOK'
    <2>1. ControlOK'
      BY ServerAssumption DEF IInv, TypeOK, ControlOK, PCs, Goto, RecvCheck
    <2>2. SendingOK'
      BY ServerAssumption DEF IInv, TypeOK, SendingOK, Goto, RecvCheck
    <2>3. AgesOK'
      BY ServerAssumption DEF IInv, TypeOK, AgesOK, Goto, RecvCheck
    <2>4. NetworkOK'
      BY ServerAssumption DEF IInv, TypeOK, NetworkOK, Goto, RecvCheck
    <2>5. HistoryOK'
      BY ServerAssumption DEF IInv, TypeOK, HistoryOK, Goto, RecvCheck
    <2> QED BY <2>1, <2>2, <2>3, <2>4, <2>5 DEF TypeOK
  <1>2. OneOpenSocket'
    BY DEF IInv, OneOpenSocket, Conn, Goto, RecvCheck
  <1>3. ConnInv'
    BY DEF IInv, ConnInv, Queued, Opened, Goto, RecvCheck
  <1>4. StreamInv'
    BY DEF IInv, StreamInv, Goto, RecvCheck
  <1>5. RecvInv'
    BY DEF IInv, RecvInv, Conn, Goto, RecvCheck
  <1>6. SelectInv'
    BY DEF IInv, SelectInv, Conn, Goto, RecvCheck
  <1>7. SendInv'
    BY DEF IInv, SendInv, Conn, Goto, RecvCheck
  <1> QED BY <1>1, <1>2, <1>3, <1>4, <1>5, <1>6, <1>7 DEF IInv

(* psc_recvhead(), accepting or refusing the header, preserves the inductive invariant.*)
LEMMA RecvHeadKeeps ==
  ASSUME IInv, RecvHead
  PROVE  IInv'
  <1> USE DEF control, sending, ages, network, history
  <1> DEFINE c == Conn
  <1> DEFINE n == rd[c][1]
  <1>0. pc = "recvhead" /\ client_sock # NoSock /\ c \in Conns /\ Unread(c) /\ rxbuf = <<>>
    BY ClientFacts DEF IInv, RecvInv, RecvHead
  <1>a. /\ n \in 1..MaxMsgs /\ rd[c][2] = 0 /\ msg[c][n].len \in Nat /\ rd[c] = <<n, 0>>
        /\ Succ(c, rd[c]) = IF 0 < msg[c][n].len THEN <<n, 1>> ELSE <<n + 1, 0>>
    <2>1. rd[c][2] = 0 /\ rd[c] = <<rd[c][1], rd[c][2]>>
      BY <1>0 DEF IInv, RecvInv, TypeOK, NetworkOK
    <2>2. n \in 1..MaxMsgs /\ msg[c][n].len \in Nat
      BY <1>0, ReadFacts
    <2>3. rd[c] = <<n, 0>>
      BY <2>1
    <2>4. Succ(c, <<n, 0>>) = IF 0 < msg[c][n].len THEN <<n, 1>> ELSE <<n + 1, 0>>
      BY DEF Succ
    <2> QED BY <2>1, <2>2, <2>3, <2>4
  <1>b. /\ rd' = [rd EXCEPT ![c] = Succ(c, rd[c])]
        /\ UNCHANGED <<selected_client, selConn, newest, rxbuf, txq, txleft, after, backlog, ioc, msg, wr, view>>
        /\ \/ disconnect_client /\ pc' = "heartbeat"
           \/ /\ client_sock' = client_sock /\ sock' = sock /\ head' = n
              /\ IF msg[c][n].len = 0 THEN pc' = "client_msg" ELSE pc' = "recvbody"
    BY DEF RecvHead, Goto, Complete
  <1>c. \A d \in Conns : rd'[d] = IF d = c THEN Succ(c, rd[c]) ELSE rd[d]
    BY <1>b DEF IInv, TypeOK, NetworkOK
  <1>1. TypeOK'
    <2>1. ControlOK'
      <3>1. n \in 0..MaxMsgs /\ NoSock \in Fds \cup {NoSock}
        BY <1>a, ServerAssumption
      <3> QED BY <3>1 DEF IInv, TypeOK, ControlOK, PCs, RecvHead, Goto, Complete, disconnect_client
    <2>2. SendingOK'
      BY ServerAssumption DEF IInv, TypeOK, SendingOK, Goto, Complete, disconnect_client, RecvHead
    <2>3. AgesOK'
      BY ServerAssumption DEF IInv, TypeOK, AgesOK, Goto, Complete, disconnect_client, RecvHead
    <2>4. NetworkOK'
      <3>1. rd' \in [Conns -> (1..MaxMsgs + 1) \X Nat]
        BY <1>0, <1>b, ReadFacts DEF IInv, TypeOK, NetworkOK
      <3> QED BY <3>1, <1>b DEF IInv, TypeOK, NetworkOK, disconnect_client
    <2>5. HistoryOK'
      BY ServerAssumption DEF IInv, TypeOK, HistoryOK, Goto, Complete, disconnect_client, RecvHead
    <2> QED BY <2>1, <2>2, <2>3, <2>4, <2>5 DEF TypeOK
  <1>2. OneOpenSocket'
    BY <1>0, <1>b, DisconnectFacts DEF IInv, OneOpenSocket, Conn
  <1>3. ConnInv'
    <2>1. \A d \in Conns : Opened(d)' => Opened(d)
      BY <1>0, <1>b, DisconnectFacts DEF Opened
    <2>2. \A d \in Conns : ioc[d] = "idle" \/ Queued(d) => rd'[d] = rd[d]
      BY <1>0, <1>c, ClientFacts
    <2> QED BY <1>b, <2>1, <2>2, ConnFrame DEF IInv
  <1>4. StreamInv'
    <2> SUFFICES ASSUME NEW d \in Conns PROVE StreamInv!(d)'
      BY DEF StreamInv
    <2>0. UNCHANGED <<wr, msg>>
      BY <1>b
    <2>1. CASE d # c
      BY <1>c, <2>0, <2>1 DEF IInv, StreamInv
    <2>2. CASE d = c
      <3>1. wr[c] \in (1..MaxMsgs + 1) \X Nat
        BY <1>0 DEF IInv, TypeOK, NetworkOK
      <3>2. Succ(c, rd[c])[1] < wr[c][1] => Succ(c, rd[c])[1] \in 1..MaxMsgs
        BY <1>0, <3>1, ReadFacts, ServerAssumption
      <3>3. \A i \in 1..MaxMsgs : msg[c][i].len \in Nat
        BY <1>0, MessageLen DEF IInv, TypeOK, NetworkOK
      <3>4. \/ Succ(c, rd[c]) = wr[c]
            \/ Succ(c, rd[c])[1] < wr[c][1]
                 /\ Succ(c, rd[c])[2] <= msg[c][Succ(c, rd[c])[1]].len
            \/ Succ(c, rd[c])[1] = wr[c][1] /\ Succ(c, rd[c])[2] < wr[c][2]
        BY <1>0, <3>2, <3>3, ReadFacts
      <3> QED BY <1>0, <1>c, <2>0, <2>2, <3>4 DEF IInv, StreamInv
    <2> QED BY <2>1, <2>2
  <1>5. RecvInv'
    <2>1. CASE disconnect_client /\ pc' = "heartbeat"
      BY <2>1, <1>0, <1>b DEF RecvInv, disconnect_client
    <2>2. CASE /\ client_sock' = client_sock /\ sock' = sock /\ head' = n
               /\ IF msg[c][n].len = 0 THEN pc' = "client_msg" ELSE pc' = "recvbody"
      <3>1. Conn' = c /\ rxbuf' = <<>> /\ Len(rxbuf') = 0 /\ msg' = msg
        BY <2>2, <1>0, <1>b DEF Conn
      <3>2. rd'[c] = IF 0 < msg[c][n].len THEN <<n, 1>> ELSE <<n + 1, 0>>
        BY <1>0, <1>a, <1>c
      <3> QED BY <2>2, <3>1, <3>2, <1>0, <1>a DEF RecvInv
    <2> QED BY <1>b, <2>1, <2>2
  <1>6. SelectInv'
    BY DEF IInv, SelectInv, Conn, Goto, Complete, disconnect_client, RecvHead
  <1>7. SendInv'
    BY DEF IInv, SendInv, Conn, Goto, Complete, disconnect_client, RecvHead
  <1> QED BY <1>1, <1>2, <1>3, <1>4, <1>5, <1>6, <1>7 DEF IInv

(* psc_recvall() reading a part of the body preserves the inductive invariant.*)
LEMMA RecvBodyKeeps ==
  ASSUME IInv, RecvBody
  PROVE  IInv'
  <1> USE DEF control, sending, ages, network, history
  <1> DEFINE c == Conn
  <1>0. pc = "recvbody" /\ client_sock # NoSock /\ c \in Conns /\ Unread(c)
    BY ClientFacts DEF IInv, RecvInv, RecvBody
  <1>a. /\ head \in 1..MaxMsgs /\ rd[c] = <<head, Len(rxbuf) + 1>>
        /\ rxbuf \in Seq(1..MaxMsgs) /\ Len(rxbuf) \in Nat /\ msg[c][head].len \in Nat
        /\ Len(rxbuf) < msg[c][head].len
        /\ \A i \in 1..Len(rxbuf) : rxbuf[i] = head
    BY <1>0, ReadFacts, LenProperties DEF IInv, RecvInv, TypeOK, ControlOK
  <1>b. /\ rd' = [rd EXCEPT ![c] = Succ(c, rd[c])] /\ rxbuf' = Append(rxbuf, head)
        /\ UNCHANGED <<head, client_sock, sock, selected_client, selConn, newest, txq, txleft, after,
                       backlog, ioc, msg, wr, view>>
        /\ IF Len(rxbuf) + 1 = msg[c][head].len THEN pc' = "client_msg" ELSE pc' = "recvbody"
    BY <1>a DEF RecvBody, Goto, Complete
  <1>c. \A d \in Conns : rd'[d] = IF d = c THEN Succ(c, rd[c]) ELSE rd[d]
    BY <1>b DEF IInv, TypeOK, NetworkOK
  <1>d. /\ rxbuf' \in Seq(1..MaxMsgs) /\ Len(rxbuf') = Len(rxbuf) + 1
        /\ \A i \in 1..Len(rxbuf') : rxbuf'[i] = head
    BY <1>a, <1>b, AppendProperties
  <1>1. TypeOK'
    <2>1. ControlOK'
      BY <1>b, <1>d DEF IInv, TypeOK, ControlOK, PCs, RecvBody
    <2>2. SendingOK'
      BY ServerAssumption DEF IInv, TypeOK, SendingOK, Goto, Complete, RecvBody
    <2>3. AgesOK'
      BY ServerAssumption DEF IInv, TypeOK, AgesOK, Goto, Complete, RecvBody
    <2>4. NetworkOK'
      <3>1. rd' \in [Conns -> (1..MaxMsgs + 1) \X Nat]
        BY <1>0, <1>b, ReadFacts DEF IInv, TypeOK, NetworkOK
      <3> QED BY <3>1, <1>b DEF IInv, TypeOK, NetworkOK
    <2>5. HistoryOK'
      BY ServerAssumption DEF IInv, TypeOK, HistoryOK, Goto, Complete, RecvBody
    <2> QED BY <2>1, <2>2, <2>3, <2>4, <2>5 DEF TypeOK
  <1>2. OneOpenSocket'
    BY DEF IInv, OneOpenSocket, Conn, Goto, Complete, RecvBody
  <1>3. ConnInv'
    <2>1. \A d \in Conns : Opened(d)' => Opened(d)
      BY <1>b DEF Opened
    <2>2. \A d \in Conns : ioc[d] = "idle" \/ Queued(d) => rd'[d] = rd[d]
      BY <1>0, <1>c, ClientFacts
    <2> QED BY <1>b, <2>1, <2>2, ConnFrame DEF IInv
  <1>4. StreamInv'
    <2> SUFFICES ASSUME NEW d \in Conns PROVE StreamInv!(d)'
      BY DEF StreamInv
    <2>0. UNCHANGED <<wr, msg>>
      BY <1>b
    <2>1. CASE d # c
      BY <1>c, <2>0, <2>1 DEF IInv, StreamInv
    <2>2. CASE d = c
      <3>1. wr[c] \in (1..MaxMsgs + 1) \X Nat
        BY <1>0 DEF IInv, TypeOK, NetworkOK
      <3>2. Succ(c, rd[c])[1] < wr[c][1] => Succ(c, rd[c])[1] \in 1..MaxMsgs
        BY <1>0, <3>1, ReadFacts, ServerAssumption
      <3>3. \A i \in 1..MaxMsgs : msg[c][i].len \in Nat
        BY <1>0, MessageLen DEF IInv, TypeOK, NetworkOK
      <3>4. \/ Succ(c, rd[c]) = wr[c]
            \/ Succ(c, rd[c])[1] < wr[c][1]
                 /\ Succ(c, rd[c])[2] <= msg[c][Succ(c, rd[c])[1]].len
            \/ Succ(c, rd[c])[1] = wr[c][1] /\ Succ(c, rd[c])[2] < wr[c][2]
        BY <1>0, <3>2, <3>3, ReadFacts
      <3> QED BY <1>0, <1>c, <2>0, <2>2, <3>4 DEF IInv, StreamInv
    <2> QED BY <2>1, <2>2
  <1>5. RecvInv'
    <2>1. Conn' = c /\ msg' = msg /\ head' = head
      BY <1>b DEF Conn
    <2>2. rd'[c] = IF Len(rxbuf) + 1 < msg[c][head].len THEN <<head, Len(rxbuf) + 2>>
                                                      ELSE <<head + 1, 0>>
      BY <1>0, <1>a, <1>c DEF Succ
    <2> QED BY <1>0, <1>a, <1>b, <1>d, <2>1, <2>2 DEF RecvInv
  <1>6. SelectInv'
    BY DEF IInv, SelectInv, Conn, Goto, Complete, RecvBody
  <1>7. SendInv'
    BY DEF IInv, SendInv, Conn, Goto, Complete, RecvBody
  <1> QED BY <1>1, <1>2, <1>3, <1>4, <1>5, <1>6, <1>7 DEF IInv

(* A failed recv() and its disconnect preserves the inductive invariant.    *)
LEMMA RecvErrorKeeps ==
  ASSUME IInv, RecvError
  PROVE  IInv'
  <1> USE DEF control, sending, ages, network, history
  <1>0. client_sock # NoSock /\ disconnect_client
    BY DEF IInv, RecvInv, RecvError
  <1>1. TypeOK'
    <2>1. ControlOK'
      BY ServerAssumption DEF IInv, TypeOK, ControlOK, PCs, Goto, disconnect_client, RecvError
    <2>2. SendingOK'
      BY ServerAssumption DEF IInv, TypeOK, SendingOK, Goto, disconnect_client, RecvError
    <2>3. AgesOK'
      BY ServerAssumption DEF IInv, TypeOK, AgesOK, Goto, disconnect_client, RecvError
    <2>4. NetworkOK'
      BY ServerAssumption DEF IInv, TypeOK, NetworkOK, Goto, disconnect_client, RecvError
    <2>5. HistoryOK'
      BY ServerAssumption DEF IInv, TypeOK, HistoryOK, Goto, disconnect_client, RecvError
    <2> QED BY <2>1, <2>2, <2>3, <2>4, <2>5 DEF TypeOK
  <1>2. OneOpenSocket'
    BY <1>0, DisconnectFacts
  <1>3. ConnInv'
    BY <1>0, DisconnectFacts, ConnFrame DEF IInv, RecvError, Goto
  <1>4. StreamInv'
    BY DEF IInv, StreamInv, Goto, disconnect_client, RecvError
  <1>5. RecvInv'
    BY DEF IInv, RecvInv, Conn, Goto, disconnect_client, RecvError
  <1>6. SelectInv'
    BY DEF IInv, SelectInv, Conn, Goto, disconnect_client, RecvError
  <1>7. SendInv'
    BY DEF IInv, SendInv, Conn, Goto, disconnect_client, RecvError
  <1> QED BY <1>1, <1>2, <1>3, <1>4, <1>5, <1>6, <1>7 DEF IInv

(* The command handler preserves the inductive invariant.                   *)
LEMMA client_msgKeeps ==
  ASSUME IInv, client_msg
  PROVE  IInv'
  <1> USE DEF control, sending, ages, network, history
  <1>1. TypeOK'
    <2>1. ControlOK'
      BY ServerAssumption DEF IInv, TypeOK, ControlOK, PCs, Goto, client_msg
    <2>2. SendingOK'
      BY ServerAssumption DEF IInv, TypeOK, SendingOK, Goto, client_msg
    <2>3. AgesOK'
      BY ServerAssumption DEF IInv, TypeOK, AgesOK, Goto, client_msg
    <2>4. NetworkOK'
      BY ServerAssumption DEF IInv, TypeOK, NetworkOK, Goto, client_msg
    <2>5. HistoryOK'
      BY ClientFacts DEF IInv, TypeOK, HistoryOK, ControlOK, RecvInv, client_msg
    <2> QED BY <2>1, <2>2, <2>3, <2>4, <2>5 DEF TypeOK
  <1>2. OneOpenSocket'
    BY DEF IInv, OneOpenSocket, Conn, Goto, client_msg
  <1>3. ConnInv'
    BY DEF IInv, ConnInv, Queued, Opened, Goto, client_msg
  <1>4. StreamInv'
    BY DEF IInv, StreamInv, Goto, client_msg
  <1>5. RecvInv'
    BY DEF IInv, RecvInv, Conn, Goto, client_msg
  <1>6. SelectInv'
    BY DEF IInv, SelectInv, Conn, Goto, client_msg
  <1>7. SendInv'
    BY DEF IInv, SendInv, Conn, Goto, client_msg
  <1> QED BY <1>1, <1>2, <1>3, <1>4, <1>5, <1>6, <1>7 DEF IInv

(* The heartbeat check preserves the inductive invariant.                   *)
LEMMA HeartbeatKeeps ==
  ASSUME IInv, Heartbeat
  PROVE  IInv'
  <1> USE DEF control, sending, ages, network, history
  <1>0. (client_sock # NoSock /\ disconnect_client) \/ UNCHANGED <<client_sock, sock>>
    BY DEF Heartbeat
  <1>1. TypeOK'
    <2>1. ControlOK'
      BY ServerAssumption DEF IInv, TypeOK, ControlOK, PCs, Goto, disconnect_client, Heartbeat
    <2>2. SendingOK'
      BY ServerAssumption DEF IInv, TypeOK, SendingOK, Goto, disconnect_client, Heartbeat
    <2>3. AgesOK'
      BY ServerAssumption DEF IInv, TypeOK, AgesOK, Goto, disconnect_client, Heartbeat
    <2>4. NetworkOK'
      BY ServerAssumption DEF IInv, TypeOK, NetworkOK, Goto, disconnect_client, Heartbeat
    <2>5. HistoryOK'
      BY ServerAssumption DEF IInv, TypeOK, HistoryOK, Goto, disconnect_client, Heartbeat
    <2> QED BY <2>1, <2>2, <2>3, <2>4, <2>5 DEF TypeOK
  <1>2. OneOpenSocket'
    BY <1>0, DisconnectFacts DEF IInv, OneOpenSocket, Conn, Heartbeat
  <1>3. ConnInv'
    <2>1. \A d \in Conns : Opened(d)' => Opened(d)
      BY <1>0, DisconnectFacts DEF Opened
    <2> QED BY <2>1, ConnFrame DEF IInv, Heartbeat, Goto
  <1>4. StreamInv'
    BY DEF IInv, StreamInv, Goto, disconnect_client, Heartbeat
  <1>5. RecvInv'
    BY DEF IInv, RecvInv, Conn, Goto, disconnect_client, Heartbeat
  <1>6. SelectInv'
    BY DEF IInv, SelectInv, Conn, Goto, disconnect_client, Heartbeat
  <1>7. SendInv'
    BY DEF IInv, SendInv, Conn, Goto, disconnect_client, Heartbeat
  <1> QED BY <1>1, <1>2, <1>3, <1>4, <1>5, <1>6, <1>7 DEF IInv

(* pscdata_poll() queueing its messages preserves the inductive invariant.  *)
LEMMA pscdata_pollKeeps ==
  ASSUME IInv, pscdata_poll
  PROVE  IInv'
  <1> USE DEF control, sending, ages, network, history
  <1>0. ASSUME fastAge >= FastTicks
        PROVE  txq' \in Seq(TxMsg \ {"hello"}) /\ after' = "select" /\ pc' = "send"
    <2>1. PICK w \in 0..MaxWfms :
            /\ txq' = <<"sa">>
                      \o (IF slowAge >= SlowTicks THEN <<"ip", "lstats">> ELSE <<>>)
                      \o (IF slowAge >= SlowTicks /\ BpcEnabled THEN <<"bpc">> ELSE <<>>)
                      \o [i \in 1..w |-> "wfm"] \o <<"wfmstats">>
            /\ after' = "select" /\ pc' = "send"
      <3>1. ~(fastAge < FastTicks)
        BY <1>0, ServerAssumption DEF IInv, TypeOK, AgesOK
      <3> QED BY <3>1, Zenon DEF pscdata_poll, Goto
    <2> DEFINE S == TxMsg \ {"hello"}
    <2>2. /\ <<"sa">> \in Seq(S) /\ <<"ip", "lstats">> \in Seq(S) /\ <<>> \in Seq(S)
          /\ <<"bpc">> \in Seq(S) /\ <<"wfmstats">> \in Seq(S)
      BY DEF TxMsg
    <2>3. [i \in 1..w |-> "wfm"] \in Seq(S)
      BY ServerAssumption DEF TxMsg
    <2> HIDE DEF S
    <2> QED BY <2>1, <2>2, <2>3, ConcatProperties DEF S
  <1>a. ASSUME fastAge < FastTicks
        PROVE  UNCHANGED <<txq, after>> /\ pc' = "select"
    BY <1>a DEF pscdata_poll, Goto
  <1>b. fastAge < FastTicks \/ fastAge >= FastTicks
    BY ServerAssumption DEF IInv, TypeOK, AgesOK
  <1>c. txleft = 0 /\ txleft' = 0 /\ UNCHANGED <<client_sock, sock, view>>
    BY DEF IInv, TypeOK, SendingOK, SendInv, pscdata_poll
  <1>1. TypeOK'
    <2>1. ControlOK'
      BY ServerAssumption DEF IInv, TypeOK, ControlOK, PCs, Goto, pscdata_poll
    <2>2. SendingOK'
      <3>1. txq' \in Seq(TxMsg)
        BY <1>0, <1>a, <1>b, SeqMonotonic DEF IInv, TypeOK, SendingOK
      <3>2. after' \in {"recv", "select"}
        BY <1>0, <1>a, <1>b DEF IInv, TypeOK, SendingOK
      <3> QED BY <3>1, <3>2, <1>c DEF SendingOK
    <2>3. AgesOK'
      <3>1. FastTicks \in Nat /\ SlowTicks \in Nat
        BY ServerAssumption
      <3>2. fastAge' \in {fastAge, 0} /\ slowAge' \in {slowAge, 0} /\ rxAge' = rxAge
            /\ waitAge' = 0
        BY Zenon DEF Goto, pscdata_poll
      <3> QED BY <3>1, <3>2 DEF IInv, TypeOK, AgesOK
    <2>4. NetworkOK'
      BY ServerAssumption DEF IInv, TypeOK, NetworkOK, Goto, pscdata_poll
    <2>5. HistoryOK'
      BY ServerAssumption DEF IInv, TypeOK, HistoryOK, Goto, pscdata_poll
    <2> QED BY <2>1, <2>2, <2>3, <2>4, <2>5 DEF TypeOK
  <1>2. OneOpenSocket'
    BY DEF IInv, OneOpenSocket, Conn, Goto, pscdata_poll
  <1>3. ConnInv'
    BY DEF IInv, ConnInv, Queued, Opened, Goto, pscdata_poll
  <1>4. StreamInv'
    BY DEF IInv, StreamInv, Goto, pscdata_poll
  <1>5. RecvInv'
    BY DEF IInv, RecvInv, Conn, Goto, pscdata_poll
  <1>6. SelectInv'
    BY DEF IInv, SelectInv, Conn, Goto, pscdata_poll
  <1>7. SendInv'
    <2>1. fastAge >= FastTicks => \A i \in 1..Len(txq') : txq'[i] # "hello"
      BY <1>0, ElementOfSeq
    <2>2. client_sock # NoSock => view[Conn] = "boundary"
      BY <1>c DEF IInv, SendInv, pscdata_poll
    <2> QED BY <1>0, <1>a, <1>b, <1>c, <2>1, <2>2 DEF IInv, SendInv, Conn
  <1> QED BY <1>1, <1>2, <1>3, <1>4, <1>5, <1>6, <1>7 DEF IInv

(* psc_send() without a client, or done, preserves the inductive invariant. *)
LEMMA SendSkipKeeps ==
  ASSUME IInv, SendSkip
  PROVE  IInv'
  <1> USE DEF control, sending, ages, network, history
  <1>0. /\ pc' \in {"recv", "select"} /\ txq' = <<>>
        /\ UNCHANGED <<client_sock, selected_client, rfds, head, rxbuf, txleft, after, network, history>>
    BY DEF IInv, TypeOK, SendingOK, SendSkip, Goto
  <1>1. TypeOK'
    <2>1. ControlOK'
      BY <1>0 DEF IInv, TypeOK, ControlOK, PCs
    <2>2. SendingOK'
      BY ServerAssumption DEF IInv, TypeOK, SendingOK, Goto, SendSkip
    <2>3. AgesOK'
      BY ServerAssumption DEF IInv, TypeOK, AgesOK, Goto, SendSkip
    <2>4. NetworkOK'
      BY ServerAssumption DEF IInv, TypeOK, NetworkOK, Goto, SendSkip
    <2>5. HistoryOK'
      BY ServerAssumption DEF IInv, TypeOK, HistoryOK, Goto, SendSkip
    <2> QED BY <2>1, <2>2, <2>3, <2>4, <2>5 DEF TypeOK
  <1>2. OneOpenSocket'
    BY DEF IInv, OneOpenSocket, Conn, Goto, SendSkip
  <1>3. ConnInv'
    BY <1>0, ConnFrame DEF IInv, Opened
  <1>4. StreamInv'
    BY DEF IInv, StreamInv, Goto, SendSkip
  <1>5. RecvInv'
    BY <1>0 DEF IInv, RecvInv, Conn, SendSkip
  <1>6. SelectInv'
    BY <1>0 DEF IInv, SelectInv, Conn
  <1>7. SendInv'
    BY DEF IInv, SendInv, Conn, Goto, SendSkip
  <1> QED BY <1>1, <1>2, <1>3, <1>4, <1>5, <1>6, <1>7 DEF IInv

(* send() writing a part of a message preserves the inductive invariant.    *)
LEMMA SendUnitKeeps ==
  ASSUME IInv, SendUnit
  PROVE  IInv'
  <1> USE DEF control, sending, ages, network, history
  <1>0. /\ pc = "send" /\ txq # <<>> /\ client_sock # NoSock /\ Conn \in Conns
        /\ UNCHANGED <<pc, client_sock, sock, after, backlog, ioc, wr, rd>> /\ Conn' = Conn
    BY ClientFacts DEF SendUnit, Conn
  <1>a. /\ Head(txq) \in TxMsg /\ Tail(txq) \in Seq(TxMsg) /\ Head(txq) = txq[1]
        /\ Len(txq) \in Nat \ {0} /\ Len(Tail(txq)) = Len(txq) - 1
        /\ \A i \in 1..Len(Tail(txq)) : Tail(txq)[i] = txq[i + 1]
    BY <1>0, HeadTailProperties, EmptySeq DEF IInv, TypeOK, SendingOK
  <1>b. /\ Units(Head(txq)) \in {2, 3} /\ Left \in 1..Units(Head(txq))
        /\ Left = Units(Head(txq)) <=> txleft = 0
    BY <1>0 DEF IInv, TypeOK, SendingOK, SendInv, Left, Units
  <1>c. /\ txleft' = Left - 1 /\ txq' = IF Left = 1 THEN Tail(txq) ELSE txq
        /\ view' = [view EXCEPT ![Conn] = Parse(view[Conn], Head(txq), Left)]
    BY DEF SendUnit
  <1>d. after = "recv" => txq = <<"hello">> /\ Head(txq) = "hello" /\ Tail(txq) = <<>>
    <2>1. after = "recv" => txq = <<"hello">>
      BY <1>0 DEF IInv, SendInv
    <2>2. txq = <<"hello">> => Len(txq) = 1 /\ txq[1] = "hello"
      OBVIOUS
    <2>3. Len(Tail(txq)) = 0 => Tail(txq) = <<>>
      BY <1>a, EmptySeq
    <2> QED BY <1>a, <2>1, <2>2, <2>3
  <1>e. after = "select" => Head(txq) # "hello"
    BY <1>0, <1>a DEF IInv, SendInv
  <1>f. after \in {"recv", "select"} /\ txleft \in 0..3
    BY DEF IInv, TypeOK, SendingOK
  <1>g. Parse(view[Conn], Head(txq), Left) = IF Left = 1 THEN "boundary" ELSE "inside"
    <2>1. CASE txleft = 0
      <3>1. view[Conn] = IF after = "recv" THEN "fresh" ELSE "boundary"
        BY <2>1, <1>0, <1>f DEF IInv, SendInv
      <3> QED BY <2>1, <3>1, <1>b, <1>d, <1>e, <1>f DEF Parse
    <2>2. CASE txleft > 0
      <3>1. view[Conn] = "inside"
        BY <2>2, <1>0 DEF IInv, SendInv
      <3> QED BY <2>2, <3>1, <1>b DEF Parse
    <2> QED BY <2>1, <2>2, <1>f
  <1>1. TypeOK'
    <2>1. ControlOK'
      BY ServerAssumption DEF IInv, TypeOK, ControlOK, PCs, SendUnit
    <2>2. SendingOK'
      BY <1>a, <1>b, <1>c, <1>0, <1>f DEF IInv, TypeOK, SendingOK
    <2>3. AgesOK'
      BY ServerAssumption DEF IInv, TypeOK, AgesOK, SendUnit
    <2>4. NetworkOK'
      BY <1>c, <1>g DEF IInv, TypeOK, NetworkOK, SendUnit
    <2>5. HistoryOK'
      BY ServerAssumption DEF IInv, TypeOK, HistoryOK, SendUnit
    <2> QED BY <2>1, <2>2, <2>3, <2>4, <2>5 DEF TypeOK
  <1>2. OneOpenSocket'
    BY DEF IInv, OneOpenSocket, Conn, SendUnit
  <1>3. ConnInv'
    <2>1. \A d \in Conns : ioc[d] = "idle" \/ Queued(d) => view'[d] = view[d]
      BY <1>0, <1>c, ClientFacts DEF IInv, TypeOK, NetworkOK
    <2> QED BY <1>0, <2>1, ConnFrame DEF IInv, Opened
  <1>4. StreamInv'
    BY DEF IInv, StreamInv, SendUnit
  <1>5. RecvInv'
    BY DEF IInv, RecvInv, Conn, SendUnit
  <1>6. SelectInv'
    BY DEF IInv, SelectInv, Conn, SendUnit
  <1>7. SendInv'
    <2>1. \A d \in Conns : view'[d] = IF d = Conn THEN IF Left = 1 THEN "boundary" ELSE "inside"
                                                  ELSE view[d]
      BY <1>c, <1>g DEF IInv, TypeOK, NetworkOK
    <2>2. \A d \in Conns : view'[d] # "bad"
      BY <2>1 DEF IInv, SendInv
    <2>3. txleft' > 0 => txq' # <<>> /\ txleft' < Units(Head(txq'))
      BY <1>0, <1>b, <1>c
    <2>4. after = "select" => \A i \in 1..Len(txq') : txq'[i] # "hello"
      <3>1. after = "select" => \A i \in 1..Len(txq) : txq[i] # "hello"
        BY <1>0 DEF IInv, SendInv
      <3> QED BY <1>a, <1>c, <3>1
    <2>5. after = "recv" /\ txq' # <<>> => txq' = <<"hello">> /\ Left # 1
      BY <1>c, <1>d
    <2>6. view'[Conn'] = IF txleft' > 0 THEN "inside"
                         ELSE IF pc' = "send" /\ after' = "recv" /\ txq' # <<>> THEN "fresh"
                         ELSE "boundary"
      BY <1>0, <1>b, <1>c, <2>1, <2>5
    <2> QED BY <1>0, <2>2, <2>3, <2>4, <2>5, <2>6 DEF SendInv
  <1> QED BY <1>1, <1>2, <1>3, <1>4, <1>5, <1>6, <1>7 DEF IInv

(* A failed send() and its disconnect preserves the inductive invariant.    *)
LEMMA SendErrorKeeps ==
  ASSUME IInv, SendError
  PROVE  IInv'
  <1> USE DEF control, sending, ages, network, history
  <1>0. /\ pc = "send" /\ txq # <<>> /\ client_sock # NoSock /\ Conn \in Conns
        /\ disconnect_client /\ txleft' = 0 /\ txq' = Tail(txq)
        /\ UNCHANGED <<pc, after, backlog, ioc, msg, wr, rd>>
    BY ClientFacts DEF SendError
  <1>1a. /\ Head(txq) \in TxMsg /\ Tail(txq) \in Seq(TxMsg) /\ Head(txq) = txq[1]
         /\ Len(txq) \in Nat \ {0} /\ Len(Tail(txq)) = Len(txq) - 1
         /\ \A i \in 1..Len(Tail(txq)) : Tail(txq)[i] = txq[i + 1]
    BY <1>0, HeadTailProperties, EmptySeq DEF IInv, TypeOK, SendingOK
  <1>b. /\ Units(Head(txq)) \in {2, 3} /\ Left \in 1..Units(Head(txq))
        /\ Left = Units(Head(txq)) <=> txleft = 0
    BY <1>0 DEF IInv, TypeOK, SendingOK, SendInv, Left, Units
  <1>d. /\ after = "recv" => Head(txq) = "hello" /\ Tail(txq) = <<>>
        /\ after = "select" => Head(txq) # "hello"
        /\ after \in {"recv", "select"} /\ txleft \in 0..3
    BY <1>0, <1>1a DEF IInv, SendInv, TypeOK, SendingOK
  <1>e. Parse(view[Conn], Head(txq), Left) \in {"boundary", "inside"}
    <2>1. CASE txleft = 0
      <3>1. view[Conn] = IF after = "recv" THEN "fresh" ELSE "boundary"
        BY <2>1, <1>0, <1>d DEF IInv, SendInv
      <3> QED BY <2>1, <3>1, <1>b, <1>d DEF Parse
    <2>2. CASE txleft > 0
      <3>1. view[Conn] = "inside"
        BY <2>2, <1>0 DEF IInv, SendInv
      <3> QED BY <2>2, <3>1, <1>b DEF Parse
    <2> QED BY <2>1, <2>2, <1>d
  <1>f. /\ view' \in [Conns -> {"fresh", "inside", "boundary", "bad"}]
        /\ \A d \in Conns : view'[d] = view[d] \/ (d = Conn /\ view'[d] \in {"boundary", "inside"})
    <2>1. \/ view' = [view EXCEPT ![Conn] = Parse(view[Conn], Head(txq), Left)]
          \/ view' = view
      BY Zenon DEF SendError
    <2>2. view \in [Conns -> {"fresh", "inside", "boundary", "bad"}]
      BY DEF IInv, TypeOK, NetworkOK
    <2>3. CASE view' = [view EXCEPT ![Conn] = Parse(view[Conn], Head(txq), Left)]
      BY <2>2, <2>3, <1>0, <1>e
    <2>4. CASE view' = view
      BY <2>2, <2>4
    <2> QED BY <2>1, <2>3, <2>4
  <1>1. TypeOK'
    <2>1. ControlOK'
      BY ServerAssumption DEF IInv, TypeOK, ControlOK, PCs, disconnect_client, SendError
    <2>2. SendingOK'
      BY ServerAssumption DEF IInv, TypeOK, SendingOK, disconnect_client, SendError
    <2>3. AgesOK'
      BY ServerAssumption DEF IInv, TypeOK, AgesOK, disconnect_client, SendError
    <2>4. NetworkOK'
      BY <1>0, <1>f, DisconnectFacts DEF IInv, TypeOK, NetworkOK
    <2>5. HistoryOK'
      BY ServerAssumption DEF IInv, TypeOK, HistoryOK, disconnect_client, SendError
    <2> QED BY <2>1, <2>2, <2>3, <2>4, <2>5 DEF TypeOK
  <1>2. OneOpenSocket'
    BY <1>0, DisconnectFacts
  <1>3. ConnInv'
    <2>1. \A d \in Conns : ioc[d] = "idle" \/ Queued(d) => view'[d] = view[d]
      BY <1>0, <1>f, ClientFacts
    <2> QED BY <1>0, <2>1, ConnFrame, DisconnectFacts DEF IInv
  <1>4. StreamInv'
    BY DEF IInv, StreamInv, disconnect_client, SendError
  <1>5. RecvInv'
    BY DEF IInv, RecvInv, Conn, disconnect_client, SendError
  <1>6. SelectInv'
    BY DEF IInv, SelectInv, Conn, disconnect_client, SendError
  <1>7. SendInv'
    <2>1. \A d \in Conns : view'[d] # "bad"
      BY <1>f DEF IInv, SendInv
    <2>2. after = "select" => \A i \in 1..Len(txq') : txq'[i] # "hello"
      <3>1. after = "select" => \A i \in 1..Len(txq) : txq[i] # "hello"
        BY <1>0 DEF IInv, SendInv
      <3> QED BY <1>0, <1>1a, <3>1
    <2> QED BY <1>0, <1>d, <2>1, <2>2, DisconnectFacts DEF SendInv
  <1> QED BY <1>1, <1>2, <1>3, <1>4, <1>5, <1>6, <1>7 DEF IInv

-----------------------------------------------------------------------------
(* IInv holds initially.                                                   *)
LEMMA InitIInv == Init => IInv
  <1> SUFFICES ASSUME Init PROVE IInv
    OBVIOUS
  <1>1. TypeOK
    <2>1. ControlOK /\ SendingOK /\ AgesOK /\ HistoryOK
      BY ServerAssumption DEF Init, ControlOK, SendingOK, AgesOK, HistoryOK, PCs, NoSock
    <2>2. NetworkOK
      BY ServerAssumption DEF Init, NetworkOK
    <2> QED BY <2>1, <2>2 DEF TypeOK
  <1>2. OneOpenSocket
    BY ServerAssumption DEF Init, OneOpenSocket, NoSock
  <1>3. ConnInv
    BY ServerAssumption DEF Init, ConnInv, Queued, Opened
  <1>4. StreamInv /\ RecvInv /\ SelectInv /\ SendInv
    BY DEF Init, StreamInv, RecvInv, SelectInv, SendInv
  <1> QED BY <1>1, <1>2, <1>3, <1>4 DEF IInv

(* IInv is kept by every step, one lemma for each.                         *)
LEMMA NextIInv == IInv /\ [Next]_vars => IInv'
  <1> SUFFICES ASSUME IInv, [Next]_vars PROVE IInv'
    OBVIOUS
  <1>1. CASE Environment
    BY <1>1, IocConnectKeeps, IocWriteKeeps, IocGoneKeeps DEF Environment
  <1>2. CASE Tick
    BY <1>2, TickKeeps
  <1>3. CASE Server
    BY <1>3, SelectKeeps, SelectErrorKeeps, accept_clientKeeps, AcceptErrorKeeps,
       RecvCheckKeeps, RecvHeadKeeps, RecvBodyKeeps, RecvErrorKeeps, client_msgKeeps,
       HeartbeatKeeps, pscdata_pollKeeps, SendSkipKeeps, SendUnitKeeps, SendErrorKeeps
       DEF Server
  <1>4. CASE UNCHANGED vars
    <2> USE DEF vars, control, sending, ages, network, history
    <2>1. TypeOK'
      BY <1>4 DEF IInv, TypeOK, ControlOK, SendingOK, AgesOK, NetworkOK, HistoryOK
    <2>2. OneOpenSocket' /\ ConnInv'
      BY <1>4 DEF IInv, OneOpenSocket, ConnInv, Conn, Queued, Opened
    <2>3. StreamInv' /\ RecvInv' /\ SelectInv'
      BY <1>4 DEF IInv, StreamInv, RecvInv, SelectInv, Conn
    <2>4. SendInv'
      BY <1>4 DEF IInv, SendInv, Conn
    <2> QED BY <2>1, <2>2, <2>3, <2>4 DEF IInv
  <1> QED BY <1>1, <1>2, <1>3, <1>4 DEF Next

(* IInv is an invariant of the server.                                     *)
THEOREM InductiveInvariant == Spec => []IInv
  BY InitIInv, NextIInv, PTL DEF Spec

(* psc_run()'s variables keep their types whatever the IOCs do.            *)
THEOREM TypeCorrect == Spec => []TypeOK
  <1>1. IInv => TypeOK
    BY DEF IInv
  <1> QED BY <1>1, InductiveInvariant, PTL

(* For any number of IOCs and descriptors: one open socket, client_sock,   *)
(* and it is the connection accepted last (accept_client(),                *)
(* disconnect_client() and all their callers).                             *)
THEOREM OneSocket == Spec => []OneOpenSocket
  <1>1. IInv => OneOpenSocket
    BY DEF IInv
  <1> QED BY <1>1, InductiveInvariant, PTL

(* The test client_sock == selected_client in psc_run() is enough: a       *)
(* descriptor number reused by accept() is never read in its place.        *)
THEOREM SelectedOnly == Spec => []ReadsSelected
  <1>1. IInv => ReadsSelected
    BY DEF IInv, ReadsSelected, RecvInv, SelectInv
  <1> QED BY <1>1, InductiveInvariant, PTL

(* Messages of any length, arriving in any pieces, are handed to the       *)
(* handler whole, and the next header is read where it starts.             *)
THEOREM ReceiveFraming == Spec => []InFraming
  <1>1. ASSUME IInv PROVE InFraming
    <2>1. pc = "recvhead" => rd[Conn][2] = 0
      BY <1>1 DEF IInv, RecvInv
    <2>2. ASSUME pc = "client_msg"
          PROVE  rxbuf = [i \in 1..msg[Conn][head].len |-> head]
      <3>1. /\ Len(rxbuf) = msg[Conn][head].len /\ rxbuf \in Seq(1..MaxMsgs)
            /\ \A i \in 1..Len(rxbuf) : rxbuf[i] = head
        BY <1>1, <2>2 DEF IInv, RecvInv, TypeOK, ControlOK
      <3> QED BY <3>1
    <2> QED BY <2>1, <2>2 DEF InFraming
  <1> QED BY <1>1, InductiveInvariant, PTL

(* Whatever send() does, an IOC is sent the greeting and then whole        *)
(* messages; after a message that broke off nothing more is sent.          *)
THEOREM SendFraming == Spec => []OutFraming
  <1>1. ASSUME IInv PROVE OutFraming
    <2>1. ASSUME NEW c \in Conns, view[c] = "inside", Opened(c)
          PROVE  pc = "send" /\ txleft > 0 /\ Conn = c
      <3>1. client_sock # NoSock /\ Conn = c
        BY <1>1, <2>1, ClientFacts
      <3>2. txleft > 0
        BY <1>1, <2>1, <3>1 DEF IInv, SendInv
      <3> QED BY <1>1, <3>1, <3>2 DEF IInv, SendInv
    <2> QED BY <1>1, <2>1 DEF OutFraming, IInv, SendInv
  <1> QED BY <1>1, InductiveInvariant, PTL

=============================================================================
