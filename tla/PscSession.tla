----------------------------- MODULE PscSession -----------------------------
(***************************************************************************)
(* What the PSC server promises its IOCs, without sockets, descriptors,    *)
(* timeouts or partial messages: at most one session at a time, a new IOC  *)
(* takes over from the old one, a session that ended never comes back, and *)
(* commands run one at a time, in the order sent and only for the session. *)
(***************************************************************************)
EXTENDS Naturals

CONSTANTS Conns, NoConn

VARIABLES session, ended, ran

vars == <<session, ended, ran>>

Init == session = NoConn /\ ended = {} /\ ran = [c \in Conns |-> 0]

(* Connection c becomes the session, ending the one there was.             *)
Open(c) ==
  /\ c \notin ended \cup {session}
  /\ session' = c
  /\ ended' = ended \cup ({session} \ {NoConn})
  /\ UNCHANGED ran

(* Connection c is turned away.                                            *)
Refuse(c) ==
  /\ c \notin ended \cup {session}
  /\ ended' = ended \cup {c}
  /\ UNCHANGED <<session, ran>>

(* The session ends: peer gone, receive or send error, heartbeat timeout.  *)
Close ==
  /\ session # NoConn
  /\ session' = NoConn /\ ended' = ended \cup {session}
  /\ UNCHANGED ran

(* The next command of the session runs.                                   *)
Execute ==
  /\ session # NoConn
  /\ ran' = [ran EXCEPT ![session] = @ + 1]
  /\ UNCHANGED <<session, ended>>

Next == (\E c \in Conns : Open(c) \/ Refuse(c)) \/ Close \/ Execute

Spec == Init /\ [][Next]_vars

=============================================================================
