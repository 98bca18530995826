--------------------------- MODULE MCClientLogin ---------------------------
(* Instances of ClientLogin for TLC. *)
EXTENDS ClientLogin
===========================================================================
