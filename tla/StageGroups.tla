----------------------------- MODULE StageGroups -----------------------------
(***************************************************************************)
(* What a matcher promises: events are collected by an identity (the       *)
(* thread for a seq matcher, the request for a key matcher), no identity   *)
(* ever sees another's events, and as soon as one event of every stage has *)
(* been collected for an identity they are handed on as one group and the  *)
(* collection starts again empty.  If Restart, an event of the first stage *)
(* discards what its identity had collected.                               *)
(***************************************************************************)
EXTENDS Sequences

CONSTANTS
  Id,        \* the identities
  Stage,     \* the stages of the groups
  First,     \* the stage that starts a group
  Time,      \* the timestamps
  Restart    \* does First discard an unfinished group?

VARIABLES
  open,      \* open[i]: stage -> timestamp, for the stages collected of i
  groups     \* the groups handed on

vars == <<open, groups>>

Nothing == [s \in {} |-> {}]

Init ==
  /\ open = [i \in Id |-> Nothing]
  /\ groups = <<>>

\* What i has collected once the event is in.
Collected(i, stage, ts) ==
  LET kept == IF Restart /\ stage = First THEN {} ELSE DOMAIN open[i]
  IN  [s \in kept \cup {stage} |-> IF s = stage THEN ts ELSE open[i][s]]

Collect(i, stage, ts) ==
  /\ Stage \ DOMAIN Collected(i, stage, ts) # {}
  /\ open' = [open EXCEPT ![i] = Collected(i, stage, ts)]
  /\ UNCHANGED groups

HandOn(i, stage, ts) ==
  /\ Stage \ DOMAIN Collected(i, stage, ts) = {}
  /\ open' = [open EXCEPT ![i] = Nothing]
  /\ groups' = Append(groups, [id |-> i, ts |-> Collected(i, stage, ts)])

Next ==
  \E i \in Id, stage \in Stage, ts \in Time :
    Collect(i, stage, ts) \/ HandOn(i, stage, ts)

Spec == Init /\ [][Next]_vars
=============================================================================
