------------------------- MODULE WebSocketAdapterMC -------------------------
(***************************************************************************)
(* Instances of WebSocketAdapter for TLC.  Sockets suffice for every stop, *)
(* every fault and every late close event to open one more: at most eleven *)
(* are ever used.                                                          *)
(***************************************************************************)
EXTENDS WebSocketAdapter

MCSockets == 1 .. 12
=============================================================================
