------------------------------- MODULE Wiring -------------------------------
(***************************************************************************)
(* The part of main() (src/lensx.cpp) that builds matchers and queues from *)
(* the YAML file and connects them, and what an event read from the ring   *)
(* buffer then does to all of them.                                        *)
(*                                                                         *)
(* The configuration is three lists, as parse_config() leaves them.  The   *)
(* state the events change is one record:                                  *)
(*   recs     per matcher: thread or key -> record of the open group       *)
(*   pending  per matcher: pending_, as the sequence of complete groups    *)
(*   fifos    name -> the timestamps queued, oldest first                  *)
(*   samples  bag of rows: what Hist::record() counted and wrote to CSV    *)
(*   dropped  history: some queue has overflowed                           *)
(* A thread has a record of its own (SeqRefines: as long as tids do not    *)
(* collide) and a queue is a DropOldestQueue (FifoRefines).  A key without *)
(* a record has a zeroed one, which is what its next event would create.   *)
(***************************************************************************)
EXTENDS Matchers, FiniteSets, Bags

CONSTANTS
  matchers,      \* cfg.matchers: sequence of [id, mode, stages, queue_size]
  reports,       \* cfg.reports: sequence of [name, from, to]
  SeqOrder,      \* seq_map's iteration order: the indices of its matchers
  DefaultQueue,  \* 4096: the capacity of a queue no matcher declares
  Tids,
  Keys

ASSUME MatchersAssumption ==
  matchers \in Seq([id : STRING, mode : STRING, stages : Seq(Nat), queue_size : Nat])
ASSUME ReportsAssumption == reports \in Seq([name : STRING, from : Nat, to : Nat])

Seqs  == {i \in DOMAIN matchers : matchers[i].mode = "seq"}
KeyMs == {i \in DOMAIN matchers : matchers[i].mode = "key"}
Fifos == {i \in DOMAIN matchers : matchers[i].mode = "fifo"}

\* seq_map[mc.id] = m: of several matchers with an id the last is connected.
seq_map == {i \in Seqs : \A j \in Seqs : matchers[j].id = matchers[i].id => j <= i}

ASSUME QueuesAssumption ==
  /\ DefaultQueue \in Nat \ {0}
  /\ \A i \in Fifos : matchers[i].queue_size # 0

ASSUME SeqOrderAssumption ==
  /\ SeqOrder \in Seq(seq_map)
  /\ \A i \in seq_map : \E k \in DOMAIN SeqOrder : SeqOrder[k] = i

HasStage(i, stage) == stage \in Mask(matchers[i].stages)

\* report_keys: of several reports on a pair of stages the last gives the name.
report_keys ==
  [p \in {<<reports[k].from, reports[k].to>> : k \in DOMAIN reports} |->
     LET on == {k \in DOMAIN reports : <<reports[k].from, reports[k].to>> = p}
     IN  reports[CHOOSE k \in on : \A j \in on : j <= k].name]

\* The seq matcher main() takes a stage to belong to, the last one iterated;
\* 0 stands for nullptr.
OwnerSeq(stage) ==
  LET having == {k \in DOMAIN SeqOrder : HasStage(SeqOrder[k], stage)}
  IN  IF having = {} THEN 0
      ELSE SeqOrder[CHOOSE k \in having : \A j \in having : j <= k]

\* The reports from a stage of one seq matcher to a stage of another, each with
\* the matchers whose completion pushes and pops: push_seq and pop_seq.
Connections ==
  {c \in {[name |-> reports[k].name, from |-> reports[k].from, to |-> reports[k].to,
           push_seq |-> OwnerSeq(reports[k].from), pop_seq |-> OwnerSeq(reports[k].to)]
            : k \in DOMAIN reports} :
     c.push_seq # 0 /\ c.pop_seq # 0 /\ c.push_seq # c.pop_seq}

\* No two of them share a name, and with it a queue.
ASSUME NamesAssumption ==
  \A c, d \in Connections : c.name = d.name => c = d

FifoNames == {c.name : c \in Connections}

\* The queue of a report is the one declared under the report's name, if any.
Capacity ==
  [n \in FifoNames |->
     LET declared == {i \in Fifos : matchers[i].id = n /\ Len(matchers[i].stages) >= 2}
     IN  IF declared = {} THEN DefaultQueue
         ELSE matchers[CHOOSE i \in declared : \A j \in declared : j <= i].queue_size]
-----------------------------------------------------------------------------
(***************************************************************************)
(* Callbacks.                                                              *)
(***************************************************************************)
Row(name, delta) == [name |-> name, delta |-> delta]

\* The first callback of every seq matcher: the pairs of stages of the group,
\* in the order of their numbers, for which there is a report.
IntraRows(snap) ==
  {Row(report_keys[p], Delta(p[1], p[2], snap.ts[p[1]], snap.ts[p[2]], snap.tid))
     : p \in {q \in DOMAIN report_keys : {q[1], q[2]} \subseteq snap.stages /\ q[1] < q[2]}}

\* Mutant: the capacity is checked one entry too late.
PushedLate(q, ts, capacity) == Append(IF Len(q) > capacity THEN Tail(q) ELSE q, ts)

\* FifoQueue::push
Pushed(q, ts, capacity) == Append(IF Len(q) = capacity THEN Tail(q) ELSE q, ts)

\* Mutant: the entry read stays in the queue.
PoppedStays(q) == q

\* Mutant: the entry read is the oldest, the one removed the newest.
PoppedNewest(q) == IF q = <<>> THEN q ELSE SubSeq(q, 1, Len(q) - 1)

\* FifoQueue::pop
Popped(q) == IF q = <<>> THEN q ELSE Tail(q)

\* The rows of the pop callbacks of matcher i: one for every queue that had an
\* entry.
PopRows(fifos, i, snap) ==
  {Row(c.name, Delta(c.from, c.to, Head(fifos[c.name]), snap.ts[c.to], snap.tid))
     : c \in {d \in Connections : d.pop_seq = i /\ fifos[d.name] # <<>>}}

\* The queues after the callbacks of matcher i.
FifosAfter(fifos, i, snap) ==
  LET pushes == {c \in Connections : c.push_seq = i}
      pops   == {c.name : c \in {d \in Connections : d.pop_seq = i}}
  IN  [n \in FifoNames |->
         IF n \in pops THEN Popped(fifos[n])
         ELSE IF \E c \in pushes : c.name = n
         THEN Pushed(fifos[n], snap.ts[(CHOOSE c \in pushes : c.name = n).from], Capacity[n])
         ELSE fifos[n]]

\* Mutant: the pop callback records its sample twice.
OnCompleteTwice(st, i, snap) ==
  IF i \notin seq_map THEN st
  ELSE [st EXCEPT
          !.samples = @ (+) SetToBag(IntraRows(snap)) (+) SetToBag(PopRows(st.fifos, i, snap))
                        (+) SetToBag(PopRows(st.fifos, i, snap)),
          !.fifos   = FifosAfter(@, i, snap),
          !.dropped = @ \/ \E c \in Connections :
                             c.push_seq = i /\ Len(st.fifos[c.name]) = Capacity[c.name]]

\* for (auto &cb : on_complete_) cb(snap).  The callbacks of different reports
\* touch different queues, so their order does not matter.
OnComplete(st, i, snap) ==
  IF i \notin seq_map THEN st
  ELSE [st EXCEPT
          !.samples = @ (+) SetToBag(IntraRows(snap)) (+) SetToBag(PopRows(st.fifos, i, snap)),
          !.fifos   = FifosAfter(@, i, snap),
          !.dropped = @ \/ \E c \in Connections :
                             c.push_seq = i /\ Len(st.fifos[c.name]) = Capacity[c.name]]
-----------------------------------------------------------------------------
(***************************************************************************)
(* Events.                                                                 *)
(***************************************************************************)
MatcherInit ==
  [recs    |-> [i \in Seqs \cup KeyMs |->
                  [id \in (IF i \in Seqs THEN Tids ELSE Keys) |->
                     ZeroRecord(Mask(matchers[i].stages))]],
   pending |-> [i \in Seqs \cup KeyMs |-> <<>>],
   fifos   |-> [n \in FifoNames |-> <<>>],
   samples |-> EmptyBag,
   dropped |-> FALSE]

\* SeqMatcher::feed
SeqFeed(st, i, e) ==
  LET mask == Mask(matchers[i].stages)
      rec  == SeqRecord(st.recs[i][e.tid], e, FirstStage(matchers[i].stages))
      snap == Snapshot(rec, mask)
  IN  IF e.stage \notin mask THEN st
      ELSE IF ~ Complete(rec, mask) THEN [st EXCEPT !.recs[i][e.tid] = rec]
      ELSE OnComplete([st EXCEPT !.recs[i][e.tid] = [rec EXCEPT !.filled = {}],
                                 !.pending[i] = Append(@, snap)],
                      i, snap)

\* Mutant: a complete record is not erased.
KeyFeedKeeps(st, i, e) ==
  LET mask == Mask(matchers[i].stages)
      rec  == KeyRecord(st.recs[i][e.key], e, FirstStage(matchers[i].stages))
  IN  IF e.stage \notin mask THEN st
      ELSE IF ~ Complete(rec, mask) THEN [st EXCEPT !.recs[i][e.key] = rec]
      ELSE [st EXCEPT !.recs[i][e.key] = rec,
                      !.pending[i] = Append(@, Snapshot(rec, mask))]

\* KeyMatcher::feed
KeyFeed(st, i, e) ==
  LET mask == Mask(matchers[i].stages)
      rec  == KeyRecord(st.recs[i][e.key], e, FirstStage(matchers[i].stages))
  IN  IF e.stage \notin mask THEN st
      ELSE IF ~ Complete(rec, mask) THEN [st EXCEPT !.recs[i][e.key] = rec]
      ELSE [st EXCEPT !.recs[i][e.key] = ZeroRecord(mask),
                      !.pending[i] = Append(@, Snapshot(rec, mask))]

\* Mutant: only the first matcher is fed.
HandleRingEventFirst(st, e) ==
  IF 1 \in Seqs THEN SeqFeed(st, 1, e) ELSE KeyFeed(st, 1, e)

\* Mutant: the key is not copied from the ring buffer.
HandleRingEventNoKey(st, e) == KeyFeed(st, 1, [e EXCEPT !.key = 0])

\* matcher->feed(e): a fifo matcher takes no events.
Feed(st, i, e) ==
  IF i \in Seqs THEN SeqFeed(st, i, e)
  ELSE IF i \in KeyMs THEN KeyFeed(st, i, e)
  ELSE st

\* handle_ring_event: every matcher, in the order of the YAML file.
HandleRingEvent(st, e) ==
  LET fed[i \in 0 .. Len(matchers)] == IF i = 0 THEN st ELSE Feed(fed[i - 1], i, e)
  IN  fed[Len(matchers)]

\* The rows of a drained group.
DrainRows(i, snap) ==
  {Row(report_keys[<<d.from_stage, d.to_stage>>], d)
     : d \in {c \in Deltas(matchers[i].stages, snap) :
                <<c.from_stage, c.to_stage>> \in DOMAIN report_keys}}

\* Mutant: pending_ is gone through once for every report.
DrainAllPerReport(st) ==
  LET groups == UNION {{<<i, g>> : g \in DOMAIN st.pending[i]} : i \in Seqs \cup KeyMs}
      From(g) == DrainRows(g[1], st.pending[g[1]][g[2]])
  IN  [st EXCEPT !.samples = @ (+) [r \in UNION {From(g) : g \in groups} |-> Len(reports)]]

\* "drain 残留": the deltas of every matcher, seq matchers included, each as
\* often as the pending groups give it.
DrainAll(st) ==
  LET groups == UNION {{<<i, g>> : g \in DOMAIN st.pending[i]} : i \in Seqs \cup KeyMs}
      From(g) == DrainRows(g[1], st.pending[g[1]][g[2]])
      all == UNION {From(g) : g \in groups}
  IN  [st EXCEPT
         !.samples = @ (+) [r \in all |-> Cardinality({g \in groups : r \in From(g)})],
         !.pending = [i \in Seqs \cup KeyMs |-> <<>>]]
=============================================================================
