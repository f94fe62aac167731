---------------------------- MODULE MCFetchServer ----------------------------
(***************************************************************************)
(* Small instances of FetchServer.                                         *)
(***************************************************************************)
EXTENDS FetchServer

\* Every response has the same time to be written.
OneTick == [c \in Conns |-> 1]
=============================================================================
