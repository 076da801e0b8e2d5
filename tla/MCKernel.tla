------------------------------ MODULE MCKernel ------------------------------
(***************************************************************************)
(* Two modules, the second importing the first and declaring the logger;   *)
(* providers that inject each other across the modules; two extensions.    *)
(***************************************************************************)
EXTENDS Kernel

MCOwner     == <<1, 1, 2, 2>>
MCDeps      == <<{2}, {4}, {1, 2}, {}>>
MCHookNeeds == <<{1, 2}, {1, 3}>>

=============================================================================
