-------------------------------- MODULE MCHttp --------------------------------
(***************************************************************************)
(* One request whose response may stream, and one whose response may not:  *)
(* the drain has a request to wait for and a stream to abort.              *)
(***************************************************************************)
EXTENDS Http

=============================================================================
