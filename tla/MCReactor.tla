----------------------------- MODULE MCReactor -----------------------------
(* Three clients for two descriptors: one is handed out again, or none is    *)
(* left.                                                                     *)
EXTENDS Reactor

MCFds == {5, 6}
=============================================================================
