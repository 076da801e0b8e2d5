----------------------------- MODULE MCWebSocket -----------------------------
(***************************************************************************)
(* One request that may become a session, and one that its middlewares     *)
(* answer, so that a drain has a handshake to wait for besides a session;  *)
(* one send that waits behind another.                                     *)
(***************************************************************************)
EXTENDS WebSocket

MCMaxQueued == 1

=============================================================================
