--------------------------- MODULE MCEventChannel ---------------------------
(***************************************************************************)
(* EventChannel for TLC.  The fields of a connection object that is not in *)
(* use are reset before anybody reads them again, so that states that      *)
(* differ only there are one state (VIEW).                                 *)
(***************************************************************************)
EXTENDS EventChannel

\* The k-buffer of a connection that is about to close still owns its events.
ConnView(c) ==
  IF ~Live(c) THEN <<pc[c]>>
  ELSE IF pc[c] = "recv" /\ ~running[c]
  THEN <<pc[c], {kbuf[c][i].id : i \in DOMAIN kbuf[c]}, active[c]>>
  ELSE <<pc[c], running[c], active[c], sendCount[c], kbuf[c], ack[c], wire[c], vr[c]>>

ChannelView ==
  <<queue, nextId, lost, prio, delivered, [c \in Conn |-> ConnView(c)]>>

=============================================================================
