---------------------------- MODULE BoundedRing ----------------------------
(***************************************************************************)
(* What bpf_ringbuf_output and ring_buffer__poll promise main(): a bounded *)
(* queue of records.  A record takes its place when it is reserved, may be *)
(* filled in later than the ones behind it, is delivered to the callback   *)
(* only when it is complete and at the head, and gives its room back only  *)
(* after the callback.  EventLoop implements it with positions, places and *)
(* busy marks.                                                             *)
(***************************************************************************)
EXTENDS Integers, Sequences

CONSTANTS
  Size,      \* the number of records there is room for
  M          \* records are numbered modulo M

VARIABLES
  ring,      \* the records, each with its number and whether it is complete
  next,      \* the number of the next record
  got,       \* the number the callback was given last
  reading    \* the callback has the record at the head

vars == <<ring, next, got, reading>>

Init ==
  /\ ring = <<>>
  /\ next = 0
  /\ got = M - 1
  /\ reading = FALSE

Reserve ==
  /\ Len(ring) < Size
  /\ ring' = Append(ring, [num |-> next, ready |-> FALSE])
  /\ next' = (next + 1) % M
  /\ UNCHANGED <<got, reading>>

Commit(k) ==
  /\ ~ ring[k].ready
  /\ ring' = [ring EXCEPT ![k].ready = TRUE]
  /\ UNCHANGED <<next, got, reading>>

Deliver ==
  /\ ~ reading
  /\ ring # <<>>
  /\ Head(ring).ready
  /\ got' = Head(ring).num
  /\ reading' = TRUE
  /\ UNCHANGED <<ring, next>>

Release ==
  /\ reading
  /\ ring' = Tail(ring)
  /\ reading' = FALSE
  /\ UNCHANGED <<next, got>>

Next ==
  \/ Reserve
  \/ \E k \in DOMAIN ring : Commit(k)
  \/ Deliver
  \/ Release

Spec == Init /\ [][Next]_vars
=============================================================================
