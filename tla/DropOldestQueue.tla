-------------------------- MODULE DropOldestQueue --------------------------
(***************************************************************************)
(* What FifoQueue promises its users, main()'s push and pop callbacks: a   *)
(* bounded first-in first-out queue that never refuses a push.  When it is *)
(* full the oldest entry makes room for the new one.                       *)
(***************************************************************************)
EXTENDS Naturals, Sequences

CONSTANTS
  Timestamp,   \* what is queued: the timestamp of a group's push stage
  Capacity,    \* the number of entries kept (queue_size in the YAML file)
  NoResult     \* "the last call returned no timestamp"

VARIABLES
  q,           \* the entries, oldest first
  result       \* what the last call gave its caller

vars == <<q, result>>

Init ==
  /\ q = <<>>
  /\ result = NoResult

\* Append ts, dropping the oldest entry if the queue is full.
Push(ts) ==
  /\ q' = Append(IF Len(q) = Capacity THEN Tail(q) ELSE q, ts)
  /\ result' = NoResult

\* Remove and return the oldest entry.
PopEntry ==
  /\ q # <<>>
  /\ q' = Tail(q)
  /\ result' = Head(q)

\* Nothing to return; the queue stays as it is.
PopEmpty ==
  /\ q = <<>>
  /\ q' = q
  /\ result' = NoResult

Next ==
  \/ \E ts \in Timestamp : Push(ts)
  \/ PopEntry
  \/ PopEmpty

Spec == Init /\ [][Next]_vars
============================================================================
