---------------------------- MODULE MCClientConns ----------------------------
(***************************************************************************)
(* Two clients that connect, call and leave again and again, with one      *)
(* number more than clients.                                               *)
(***************************************************************************)
EXTENDS ClientConns
=============================================================================
