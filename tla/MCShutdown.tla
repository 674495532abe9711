----------------------------- MODULE MCShutdown -----------------------------
(***************************************************************************)
(* The threads of a backend.                                               *)
(***************************************************************************)
EXTENDS Shutdown

MCThreads == RegistryThreads

=============================================================================
