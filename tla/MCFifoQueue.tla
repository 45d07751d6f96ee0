---------------------------- MODULE MCFifoQueue ----------------------------
(* Instances of FifoQueue for TLC. *)
EXTENDS FifoQueue
============================================================================
