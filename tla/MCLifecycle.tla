----------------------------- MODULE MCLifecycle -----------------------------
(***************************************************************************)
(* Lifecycle with two device threads and a SockServer between them.        *)
(***************************************************************************)
EXTENDS Lifecycle

MCThreaded == {1, 3}
==============================================================================
