---------------------------- MODULE MCRuntimeHost ----------------------------
(***************************************************************************)
(* Both adapters; two callers of close(), which join, repeat and retry each*)
(* other's attempts; two requests.                                         *)
(***************************************************************************)
EXTENDS RuntimeHost

MCAdapters == {"node", "bun"}

=============================================================================
