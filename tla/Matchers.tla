------------------------------ MODULE Matchers ------------------------------
(***************************************************************************)
(* The data of src/matcher.h and the computation the two matchers share:   *)
(* what an event does to the record of its group, when the group is        *)
(* complete, and the latencies a complete group gives.                     *)
(*                                                                         *)
(* A stage mask is a set of stages; a Record keeps a timestamp for the     *)
(* stages of its matcher only, the others being never written.             *)
(***************************************************************************)
EXTENDS Integers, Sequences

CONSTANT Word    \* 2^64: uint64_t arithmetic is modulo Word

ASSUME WordAssumption == Word \in Nat \ {0}

\* struct RawEvent
RawEvent(ts, tid, stage, key) ==
  [ts |-> ts, tid |-> tid, stage |-> stage, key |-> key]

\* stages_mask_, of the list of stages in the YAML file
Mask(stages) == {stages[i] : i \in DOMAIN stages}

\* first_stage_: the smallest number, wherever it is in the list
FirstStage(stages) ==
  IF stages = <<>> THEN 64
  ELSE CHOOSE s \in Mask(stages) : \A t \in Mask(stages) : s <= t

\* A zeroed record: memset of the slots, or records_[key] of a new key
ZeroRecord(mask) == [ts |-> [s \in mask |-> 0], filled |-> {}, tid |-> 0]

\* slot.ts[stage] = e.ts; slot.filled |= 1 << stage
Fill(rec, e) ==
  [rec EXCEPT !.ts[e.stage] = e.ts, !.filled = @ \cup {e.stage}]

\* Mutant: the first stage no longer discards what was collected before it.
SeqRecordNoReset(rec, e, first) ==
  Fill(IF e.stage = first THEN [rec EXCEPT !.tid = e.tid] ELSE rec, e)

\* Mutant: the slot keeps the thread it first saw.
SeqRecordStaleTid(rec, e, first) ==
  Fill(IF e.stage = first THEN [rec EXCEPT !.filled = {}] ELSE rec, e)

\* SeqMatcher::feed: the first stage starts the group afresh.
SeqRecord(rec, e, first) ==
  Fill(IF e.stage = first THEN [rec EXCEPT !.filled = {}, !.tid = e.tid] ELSE rec,
       e)

\* Mutant: every stage names the thread.
KeyRecordLastTid(rec, e, first) == Fill([rec EXCEPT !.tid = e.tid], e)

\* Mutant: the stage is marked before the thread is known.
KeyRecordNoTid(rec, e, first) == Fill(rec, e)

\* KeyMatcher::feed: the first stage only names the thread.
KeyRecord(rec, e, first) ==
  Fill(IF e.stage = first THEN [rec EXCEPT !.tid = e.tid] ELSE rec, e)

\* (filled & stages_mask_) == stages_mask_
Complete(rec, mask) == mask \subseteq rec.filled

\* struct StageSnapshot of a complete record; the key field is never set
Snapshot(rec, mask) == [stages |-> mask, ts |-> rec.ts, tid |-> rec.tid]

\* uint64_t subtraction
Elapsed(from, to) == (to - from) % Word

\* struct Delta
Delta(from, to, ts_from, ts_to, tid) ==
  [val_ns |-> Elapsed(ts_from, ts_to), from_stage |-> from, to_stage |-> to,
   ts_from |-> ts_from, ts_to |-> ts_to, tid |-> tid]

\* The deltas pushed to pending_ for a complete group: every pair of stages,
\* in the order in which the matcher's list has them.
Deltas(stages, snap) ==
  {Delta(stages[p[1]], stages[p[2]], snap.ts[stages[p[1]]], snap.ts[stages[p[2]]],
         snap.tid)
     : p \in {q \in (DOMAIN stages) \X (DOMAIN stages) : q[1] < q[2]}}
=============================================================================
