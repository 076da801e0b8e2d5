---------------------------- MODULE MCMessagePort ----------------------------
(***************************************************************************)
(* One stream whose consumer has two calls under way at a time, and one    *)
(* invocation that the drain has to wait for besides.                      *)
(***************************************************************************)
EXTENDS MessagePort

=============================================================================
