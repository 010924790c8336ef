---------------------------- MODULE MCFlagOutbox ----------------------------
(* FlagOutbox on small instances: handlers are interchangeable. *)
EXTENDS FlagOutbox, TLC

HandlerSymmetry == Permutations(Req)
=============================================================================
