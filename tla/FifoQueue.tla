----------------------------- MODULE FifoQueue -----------------------------
(***************************************************************************)
(* class FifoQueue (src/matcher.h, src/matcher.cpp): the queue through     *)
(* which the group completed on one thread hands a timestamp to the group  *)
(* completed on another.  Two ints, head_ and tail_, count the pops and    *)
(* the pushes since construction and never come back; their remainder      *)
(* modulo capacity_ selects the cell of the array.                         *)
(*                                                                         *)
(* int is modelled at its width: IntMax stands for INT_MAX and arithmetic  *)
(* wraps, which is what the build (no optimisation flag) does with signed  *)
(* overflow.  A cell index outside the array is undefined behaviour: such  *)
(* a write is lost and such a read returns any timestamp.                  *)
(***************************************************************************)
EXTENDS Integers, Sequences

CONSTANTS
  Timestamp,   \* the uint64_t values pushed
  Capacity,    \* capacity_
  IntMax,      \* INT_MAX
  MaxPush,     \* bound: the number of pushes in a behaviour
  NoResult     \* pop returned false (or the last call was a push)

ASSUME CapacityAssumption == Capacity \in Nat \ {0}
ASSUME IntMaxAssumption   == IntMax \in Nat /\ Capacity < IntMax
ASSUME MaxPushAssumption  == MaxPush \in Nat
ASSUME NoResultAssumption == NoResult \notin Timestamp

VARIABLES
  head_,       \* next cell to pop
  tail_,       \* next cell to push
  queue_,      \* the array
  result,      \* what the last pop handed to its caller
  pushed       \* history: number of pushes so far

vars == <<head_, tail_, queue_, result, pushed>>

Cells == 0 .. Capacity - 1

\* Two's complement addition result of an int expression.
Wrap(x) ==
  IF x > IntMax THEN x - 2 * (IntMax + 1)
  ELSE IF x < -(IntMax + 1) THEN x + 2 * (IntMax + 1)
  ELSE x

\* C's remainder has the sign of the dividend; converted to uint32_t a
\* negative one is far outside the array, which any value outside Cells
\* stands for.
Cell(x) == IF x >= 0 THEN x % Capacity ELSE -((-x) % Capacity)

\* new uint64_t[capacity_] leaves the array uninitialised.
Init ==
  /\ head_ = 0
  /\ tail_ = 0
  /\ queue_ \in [Cells -> Timestamp]
  /\ result = NoResult
  /\ pushed = 0

\* Mutant: the queue refuses to wrap one entry too late.
HeadAfterPushLate ==
  IF Wrap(tail_' - head_) > Capacity + 1 THEN Wrap(tail_' - Capacity) ELSE head_

\* Mutant: the head follows the tail whether or not the queue is full.
HeadAfterPushAlways == Wrap(tail_' - Capacity)

\* The entries between head_ and tail_ exceed the capacity: skip the oldest.
HeadAfterPush ==
  IF Wrap(tail_' - head_) > Capacity THEN Wrap(tail_' - Capacity) ELSE head_

Push(ts) ==
  /\ pushed < MaxPush
  /\ pushed' = pushed + 1
  /\ tail_' = Wrap(tail_ + 1)
  /\ head_' = HeadAfterPush
  /\ queue_' = [c \in Cells |-> IF c = Cell(tail_) THEN ts ELSE queue_[c]]
  /\ result' = NoResult

\* Mutant: pop copies the cell and forgets to move on.
PopEntryStays ==
  /\ head_ < tail_
  /\ result' \in IF Cell(head_) \in Cells THEN {queue_[Cell(head_)]} ELSE Timestamp
  /\ UNCHANGED <<head_, tail_, queue_, pushed>>

PopEntry ==
  /\ head_ < tail_
  /\ head_' = Wrap(head_ + 1)
  /\ result' \in IF Cell(head_) \in Cells THEN {queue_[Cell(head_)]} ELSE Timestamp
  /\ UNCHANGED <<tail_, queue_, pushed>>

PopEmpty ==
  /\ head_ >= tail_
  /\ result' = NoResult
  /\ UNCHANGED <<head_, tail_, queue_, pushed>>

Next ==
  \/ \E ts \in Timestamp : Push(ts)
  \/ PopEntry
  \/ PopEmpty

Spec == Init /\ [][Next]_vars
----------------------------------------------------------------------------
(***************************************************************************)
(* Invariants.                                                             *)
(***************************************************************************)

\* Every variable has its type: the two counters are ints that are never
\* negative, so that their remainder is a cell; the array holds one timestamp
\* per cell (matcher.h:106-107).
TypeOK ==
  /\ head_ \in 0 .. IntMax
  /\ tail_ \in 0 .. IntMax
  /\ queue_ \in [Cells -> Timestamp]
  /\ result \in Timestamp \cup {NoResult}
  /\ pushed \in 0 .. MaxPush

\* The window from head_ to tail_ never runs backwards and never spans more
\* cells than the array has, so that no entry still to be popped shares its
\* cell with another (matcher.cpp:120-138).
WindowFits ==
  /\ head_ <= tail_
  /\ tail_ - head_ <= Capacity
----------------------------------------------------------------------------
(***************************************************************************)
(* Refinement: the cells from head_ to tail_ are the abstract queue.       *)
(***************************************************************************)
Entries == [i \in 1 .. (tail_ - head_) |-> queue_[(head_ + i - 1) % Capacity]]

Abs == INSTANCE DropOldestQueue WITH q <- Entries

\* Pops return the pushed timestamps in order, each at most once and none from a
\* cell that was never written; only the oldest entries of a full queue are
\* lost (matcher.cpp:120-138).
AbsSpec == Abs!Spec
============================================================================
