---------------------------- MODULE MCSeqMatcher ----------------------------
(* An instance of SeqMatcher for TLC. *)
EXTENDS SeqMatcher

\* Two stages, listed against their order, so that a thread completes several
\* groups.
MCStages == <<1, 0>>
=============================================================================
