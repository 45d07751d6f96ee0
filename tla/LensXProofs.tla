---------------------------- MODULE LensXProofs ----------------------------
(***************************************************************************)
(* Theorems about LensX, for every configuration, every target and any     *)
(* number of items.                                                        *)
(***************************************************************************)
EXTENDS LensX, MatchersProofs, FiniteSetTheorems

(***************************************************************************)
(* handle_ring_event is a recursion over the matchers; that it is defined  *)
(* is shown along the smallest counterexample.                             *)
(***************************************************************************)
\* f[n] is the state after the first n matchers.
IsFed(f, s, e) ==
  f = [n \in 0 .. Len(matchers) |-> IF n = 0 THEN s ELSE Feed(f[n - 1], n, e)]

LEMMA FedExists ==
  ASSUME NEW s, NEW e
  PROVE  \E f : IsFed(f, s, e)
<1> DEFINE Upto(n, f) == f = [k \in 0 .. n |-> IF k = 0 THEN s ELSE Feed(f[k - 1], k, e)]
           Bad == {n \in Nat : ~ \E f : Upto(n, f)}
<1>1. Len(matchers) \in Nat
  BY MatchersAssumption
<1>2. 0 \notin Bad
  <2>1. Upto(0, [k \in 0 .. 0 |-> s])
    OBVIOUS
  <2> QED
    BY <2>1
<1>3. ASSUME NEW n \in Nat, n + 1 \in Bad PROVE n \in Bad
  <2> SUFFICES ASSUME NEW f, Upto(n, f) PROVE FALSE
    OBVIOUS
  <2> DEFINE g == [k \in 0 .. n + 1 |-> IF k = 0 THEN s ELSE Feed(f[k - 1], k, e)]
  <2>1. \A k \in 0 .. n : g[k] = f[k]
    OBVIOUS
  <2>2. Upto(n + 1, g)
    BY <2>1
  <2> QED
    BY <1>3, <2>2
<1>4. Bad = {}
  <2> SUFFICES ASSUME Bad # {} PROVE FALSE
    OBVIOUS
  <2>1. PICK n \in Bad : \A m \in Bad : n <= m
    BY SmallestExists
  <2>2. n \in Nat /\ n # 0
    BY <1>2
  <2>3. n - 1 \in Bad
    BY <1>3, <2>2
  <2> QED
    BY <2>1, <2>2, <2>3
<1> QED
  BY <1>1, <1>4 DEF IsFed

LEMMA HandleRingEventIs ==
  ASSUME NEW s, NEW e
  PROVE  \E f : IsFed(f, s, e) /\ HandleRingEvent(s, e) = f[Len(matchers)]
<1> DEFINE fed == CHOOSE f : IsFed(f, s, e)
<1>1. \E f : IsFed(f, s, e)
  BY FedExists
<1>2. IsFed(fed, s, e)
  BY <1>1
<1>3. HandleRingEvent(s, e) = fed[Len(matchers)]
  BY DEF HandleRingEvent, IsFed
<1> QED
  BY <1>2, <1>3
-----------------------------------------------------------------------------
(***************************************************************************)
(* The configuration: what CHOOSE picks in module Wiring.                  *)
(***************************************************************************)
\* A set of indices that is not empty has a largest element.
LEMMA LargestExists ==
  ASSUME NEW N \in Nat, NEW S, S \subseteq 1 .. N, S # {}
  PROVE  \E s \in S : \A t \in S : t <= s
<1> DEFINE M == {N - s : s \in S}
<1>1. M \subseteq Nat /\ M # {}
  <2>1. \A s \in S : s \in Int /\ s <= N
    OBVIOUS
  <2>2. \A s \in S : N - s \in Nat
    BY <2>1
  <2> QED
    BY <2>2
<1>2. PICK m \in M : \A n \in M : m <= n
  BY <1>1, SmallestExists
<1>3. PICK s \in S : m = N - s
  BY <1>2
<1>4. ASSUME NEW t \in S PROVE t <= s
  <2>1. N - s <= N - t
    BY <1>2, <1>3
  <2>2. s \in Int /\ t \in Int
    OBVIOUS
  <2> QED
    BY <2>1, <2>2
<1> QED
  BY <1>4

\* The matchers that take events, and what their records are kept by.
Takers == Seqs \cup KeyMs
Ids(i) == IF i \in Seqs THEN Tids ELSE Keys
MaskOf(i) == Mask(matchers[i].stages)

LEMMA MatcherTypes ==
  /\ Len(matchers) \in Nat
  /\ DOMAIN matchers = 1 .. Len(matchers)
  /\ Seqs \subseteq DOMAIN matchers /\ KeyMs \subseteq DOMAIN matchers
  /\ Fifos \subseteq DOMAIN matchers
  /\ Seqs \cap KeyMs = {}
  /\ \A i \in DOMAIN matchers : matchers[i].stages \in Seq(Nat) /\ MaskOf(i) \subseteq Nat
  /\ \A i \in DOMAIN matchers : matchers[i].queue_size \in Nat
  /\ \A i \in KeyMs : Ids(i) = Keys
  /\ \A i \in Seqs : Ids(i) = Tids
<1>1. Seqs \cap KeyMs = {}
  BY DEF Seqs, KeyMs
<1>2. /\ Len(matchers) \in Nat
      /\ DOMAIN matchers = 1 .. Len(matchers)
      /\ \A i \in DOMAIN matchers : matchers[i].stages \in Seq(Nat) /\ matchers[i].queue_size \in Nat
  <2> DEFINE R == [id : STRING, mode : STRING, stages : Seq(Nat), queue_size : Nat]
  <2>1. \A r \in R : r.stages \in Seq(Nat) /\ r.queue_size \in Nat
    OBVIOUS
  <2>2. matchers \in Seq(R)
    BY MatchersAssumption
  <2> HIDE DEF R
  <2> QED
    BY <2>1, <2>2
<1>3. \A i \in DOMAIN matchers : MaskOf(i) \subseteq Nat
  BY <1>2 DEF MaskOf, Mask
<1> QED
  BY <1>1, <1>2, <1>3 DEF Seqs, KeyMs, Fifos, Ids

\* The name of a pair of stages is that of a report on them (lensx.cpp:257-260).
LEMMA ReportKeys ==
  ASSUME NEW p \in DOMAIN report_keys
  PROVE  \E k \in DOMAIN reports :
           p = <<reports[k].from, reports[k].to>> /\ report_keys[p] = reports[k].name
<1> DEFINE on == {k \in DOMAIN reports : <<reports[k].from, reports[k].to>> = p}
           last == CHOOSE k \in on : \A j \in on : j <= k
<1>1. p \in {<<reports[k].from, reports[k].to>> : k \in DOMAIN reports}
  BY DEF report_keys
<1>2. on # {}
  BY <1>1
<1>3. Len(reports) \in Nat /\ on \subseteq 1 .. Len(reports)
  BY ReportsAssumption
<1>4. \E k \in on : \A j \in on : j <= k
  BY <1>2, <1>3, LargestExists
<1>5. last \in on
  BY <1>4
<1>6. report_keys[p] = reports[last].name
  BY <1>1 DEF report_keys
<1> QED
  BY <1>5, <1>6

\* The matcher a stage is taken to belong to has the stage (lensx.cpp:286-292).
LEMMA OwnerHasStage ==
  ASSUME NEW stage, OwnerSeq(stage) # 0
  PROVE  OwnerSeq(stage) \in Seqs /\ stage \in MaskOf(OwnerSeq(stage))
<1> DEFINE having == {k \in DOMAIN SeqOrder : HasStage(SeqOrder[k], stage)}
           last == CHOOSE k \in having : \A j \in having : j <= k
<1>1. having # {} /\ OwnerSeq(stage) = SeqOrder[last]
  BY DEF OwnerSeq
<1>2. Len(SeqOrder) \in Nat /\ having \subseteq 1 .. Len(SeqOrder)
  BY SeqOrderAssumption
<1>3. \E k \in having : \A j \in having : j <= k
  BY <1>1, <1>2, LargestExists
<1>4. last \in having
  BY <1>3
<1>5. SeqOrder[last] \in seq_map
  BY <1>4, SeqOrderAssumption
<1> QED
  BY <1>1, <1>4, <1>5 DEF seq_map, HasStage, MaskOf

LEMMA ConnectionTypes ==
  ASSUME NEW c \in Connections
  PROVE  /\ c.name \in FifoNames
         /\ c.push_seq \in Seqs /\ c.from \in MaskOf(c.push_seq)
         /\ c.pop_seq \in Seqs /\ c.to \in MaskOf(c.pop_seq)
<1>1. /\ c.push_seq # 0 /\ c.push_seq = OwnerSeq(c.from)
      /\ c.pop_seq # 0 /\ c.pop_seq = OwnerSeq(c.to)
  BY DEF Connections
<1> QED
  BY <1>1, OwnerHasStage DEF FifoNames

\* A queue has room for an entry, one that no matcher declares too
\* (lensx.cpp:245-252, 297-302).
LEMMA CapacityType ==
  ASSUME NEW n \in FifoNames
  PROVE  Capacity[n] \in Nat \ {0}
<1> DEFINE declared == {i \in Fifos : matchers[i].id = n /\ Len(matchers[i].stages) >= 2}
           last == CHOOSE i \in declared : \A j \in declared : j <= i
<1>1. CASE declared = {}
  BY <1>1, QueuesAssumption DEF Capacity
<1>2. CASE declared # {}
  <2>1. \E i \in declared : \A j \in declared : j <= i
    <3>1. declared \subseteq 1 .. Len(matchers)
      BY MatcherTypes
    <3> QED
      BY <1>2, <3>1, MatcherTypes, LargestExists
  <2>2. last \in declared
    BY <2>1
  <2>3. Capacity[n] = matchers[last].queue_size
    BY <1>2 DEF Capacity
  <2> QED
    BY <2>2, <2>3, QueuesAssumption, MatcherTypes
<1> QED
  BY <1>1, <1>2
-----------------------------------------------------------------------------
(***************************************************************************)
(* What matchers, queues and histograms hold.  T is the set of timestamps  *)
(* of the events that came through the ring buffer and k[t] the key of the *)
(* event with timestamp t.                                                 *)
(***************************************************************************)
Records(i) == [ts : [MaskOf(i) -> Nat], filled : SUBSET MaskOf(i), tid : Tids \cup {0}]

\* A record holds events that happened, a key matcher's only those of its key.
RecordOK(rec, i, id, T, k) ==
  /\ rec \in Records(i)
  /\ \A g \in rec.filled : rec.ts[g] \in T /\ (i \in KeyMs => k[rec.ts[g]] = id)

\* So does a complete group.
Groups(i, T, k) ==
  {x \in [stages : {MaskOf(i)}, ts : [MaskOf(i) -> T], tid : Tids \cup {0}] :
     i \in KeyMs => \E id \in Keys : \A g \in MaskOf(i) : k[x.ts[g]] = id}

RowOK(r, T, k) ==
  /\ r.delta.ts_from \in T /\ r.delta.ts_to \in T
  /\ KeyReportsApart /\ r.name \in KeyNames => k[r.delta.ts_from] = k[r.delta.ts_to]

RecsOK(recs, T, k) ==
  /\ recs = [i \in Takers |-> recs[i]]
  /\ \A i \in Takers : recs[i] = [id \in Ids(i) |-> recs[i][id]]
  /\ \A i \in Takers : \A id \in Ids(i) : RecordOK(recs[i][id], i, id, T, k)

PendingOK(pending, T, k) ==
  /\ pending = [i \in Takers |-> pending[i]]
  /\ \A i \in Takers : pending[i] \in Seq(Groups(i, T, k))

FifosOK(fifos, T) ==
  /\ fifos \in [FifoNames -> Seq(T)]
  /\ \A n \in FifoNames : Len(fifos[n]) <= Capacity[n]

RowsOK(samples, T, k) == \A r \in DOMAIN samples : RowOK(r, T, k)

HasFields(s) ==
  s = [recs |-> s.recs, pending |-> s.pending, fifos |-> s.fifos,
       samples |-> s.samples, dropped |-> s.dropped]

Sound(s, T, k) ==
  /\ HasFields(s)
  /\ RecsOK(s.recs, T, k)
  /\ PendingOK(s.pending, T, k)
  /\ FifosOK(s.fifos, T)
  /\ RowsOK(s.samples, T, k)

\* The events of T; an event carries the key of its item.
Events(T, k) ==
  {e \in [ts : T, tid : Tids, stage : Nat, key : Keys] : k[e.ts] = e.key}

\* What is written into a record is the event.
LEMMA FillFields ==
  ASSUME NEW i, NEW rec \in Records(i), NEW e, e.stage \in MaskOf(i), e.ts \in Nat
  PROVE  /\ Fill(rec, e) \in Records(i)
         /\ Fill(rec, e).ts = [rec.ts EXCEPT ![e.stage] = e.ts]
         /\ Fill(rec, e).filled = rec.filled \cup {e.stage}
<1>1. Fill(rec, e) = [rec EXCEPT !.ts = [rec.ts EXCEPT ![e.stage] = e.ts],
                                 !.filled = rec.filled \cup {e.stage}]
  BY DEF Fill
<1>2. /\ rec.ts \in [MaskOf(i) -> Nat] /\ rec.filled \in SUBSET MaskOf(i)
      /\ rec.tid \in Tids \cup {0}
  BY DEF Records
<1>3. /\ [rec.ts EXCEPT ![e.stage] = e.ts] \in [MaskOf(i) -> Nat]
      /\ rec.filled \cup {e.stage} \in SUBSET MaskOf(i)
  BY <1>2
<1> QED
  BY <1>1, <1>2, <1>3 DEF Records

\* A record that holds events that happened still does when the first stage
\* has been dealt with and the event is in (matcher.cpp:30-38, 85-91).
LEMMA RecordStep ==
  ASSUME NEW i, NEW id, NEW T, T \subseteq Nat, NEW k, NEW rec, NEW e,
         RecordOK(rec, i, id, T, k),
         e.ts \in T, e.tid \in Tids, e.stage \in MaskOf(i), i \in KeyMs => k[e.ts] = id,
         NEW first
  PROVE  /\ RecordOK(SeqRecord(rec, e, first), i, id, T, k)
         /\ RecordOK(KeyRecord(rec, e, first), i, id, T, k)
<1>1. ASSUME NEW base \in Records(i), base.ts = rec.ts, base.filled \subseteq rec.filled
      PROVE  RecordOK(Fill(base, e), i, id, T, k)
  <2>1. /\ Fill(base, e) \in Records(i)
        /\ Fill(base, e).ts = [base.ts EXCEPT ![e.stage] = e.ts]
        /\ Fill(base, e).filled = base.filled \cup {e.stage}
    <3>1. e.ts \in Nat
      OBVIOUS
    <3> QED
      BY <3>1, FillFields
  <2>2. base.ts \in [MaskOf(i) -> Nat] /\ base.filled \subseteq MaskOf(i)
    BY DEF Records
  <2>3. PICK new : new = Fill(base, e)
    OBVIOUS
  <2>4. new.ts[e.stage] = e.ts /\ \A g \in MaskOf(i) \ {e.stage} : new.ts[g] = rec.ts[g]
    BY <1>1, <2>1, <2>2, <2>3
  <2>5. \A g \in new.filled : g = e.stage \/ (g \in rec.filled /\ g \in MaskOf(i) \ {e.stage})
    BY <1>1, <2>1, <2>2, <2>3
  <2>6. \A g \in new.filled : new.ts[g] \in T /\ (i \in KeyMs => k[new.ts[g]] = id)
    BY <2>4, <2>5 DEF RecordOK
  <2> QED
    BY <2>1, <2>3, <2>6 DEF RecordOK
<1> DEFINE seq == [rec EXCEPT !.filled = {}, !.tid = e.tid]
           key == [rec EXCEPT !.tid = e.tid]
<1>2. rec \in Records(i)
  BY DEF RecordOK
<1>3. seq \in Records(i) /\ seq.ts = rec.ts /\ seq.filled \subseteq rec.filled
  BY <1>2 DEF Records
<1>4. key \in Records(i) /\ key.ts = rec.ts /\ key.filled \subseteq rec.filled
  BY <1>2 DEF Records
<1>5. RecordOK(Fill(rec, e), i, id, T, k) /\ RecordOK(Fill(seq, e), i, id, T, k)
      /\ RecordOK(Fill(key, e), i, id, T, k)
  BY <1>1, <1>2, <1>3, <1>4
<1> QED
  BY <1>5 DEF SeqRecord, KeyRecord

\* A complete record gives a group.
LEMMA GroupStep ==
  ASSUME NEW i, NEW id, NEW T, NEW k, NEW rec, RecordOK(rec, i, id, T, k),
         i \in KeyMs => id \in Keys, Complete(rec, MaskOf(i))
  PROVE  Snapshot(rec, MaskOf(i)) \in Groups(i, T, k)
<1>1. /\ rec.ts \in [MaskOf(i) -> Nat] /\ rec.filled = MaskOf(i) /\ rec.tid \in Tids \cup {0}
  BY DEF RecordOK, Records, Complete
<1>2. \A g \in MaskOf(i) : rec.ts[g] \in T /\ (i \in KeyMs => k[rec.ts[g]] = id)
  BY <1>1 DEF RecordOK
<1>3. rec.ts \in [MaskOf(i) -> T]
  BY <1>1, <1>2
<1> QED
  BY <1>1, <1>2, <1>3 DEF Snapshot, Groups

\* The record of one identity changes, the others stay.
LEMMA RecsStep ==
  ASSUME NEW T, NEW k, NEW recs, RecsOK(recs, T, k),
         NEW i \in Takers, NEW id \in Ids(i), NEW rec, RecordOK(rec, i, id, T, k)
  PROVE  RecsOK([recs EXCEPT ![i] = [recs[i] EXCEPT ![id] = rec]], T, k)
<1> DEFINE new == [recs EXCEPT ![i] = [recs[i] EXCEPT ![id] = rec]]
<1>1. DOMAIN recs = Takers /\ \A j \in Takers : DOMAIN recs[j] = Ids(j)
  BY DEF RecsOK
<1>2. /\ new = [j \in Takers |-> new[j]]
      /\ new[i] = [recs[i] EXCEPT ![id] = rec]
      /\ \A j \in Takers \ {i} : new[j] = recs[j]
  BY <1>1
<1>3. /\ new[i] = [d \in Ids(i) |-> new[i][d]]
      /\ \A d \in Ids(i) : new[i][d] = IF d = id THEN rec ELSE recs[i][d]
  BY <1>1, <1>2
<1> HIDE DEF new
<1>4. \A j \in Takers : new[j] = [d \in Ids(j) |-> new[j][d]]
  BY <1>2, <1>3 DEF RecsOK
<1>5. \A j \in Takers : \A d \in Ids(j) : RecordOK(new[j][d], j, d, T, k)
  BY <1>2, <1>3 DEF RecsOK
<1>6. RecsOK(new, T, k)
  BY <1>2, <1>4, <1>5 DEF RecsOK
<1> QED
  BY <1>6 DEF new

LEMMA PendingStep ==
  ASSUME NEW T, NEW k, NEW pending, PendingOK(pending, T, k),
         NEW i \in Takers, NEW snap \in Groups(i, T, k)
  PROVE  PendingOK([pending EXCEPT ![i] = Append(pending[i], snap)], T, k)
<1> DEFINE new == [pending EXCEPT ![i] = Append(pending[i], snap)]
<1>1. DOMAIN pending = Takers /\ \A j \in Takers : pending[j] \in Seq(Groups(j, T, k))
  BY DEF PendingOK
<1>2. Append(pending[i], snap) \in Seq(Groups(i, T, k))
  BY <1>1
<1>3. new = [j \in Takers |-> new[j]]
  BY <1>1
<1>4. \A j \in Takers : new[j] \in Seq(Groups(j, T, k))
  BY <1>1, <1>2
<1> QED
  BY <1>3, <1>4 DEF PendingOK

\* FifoQueue::push and pop keep to the capacity and to what was pushed
\* (matcher.cpp:120-138).
LEMMA QueueStep ==
  ASSUME NEW T, NEW q \in Seq(T), NEW capacity \in Nat \ {0}, Len(q) <= capacity
  PROVE  /\ Popped(q) \in Seq(T) /\ Len(Popped(q)) <= capacity
         /\ \A t \in T : Pushed(q, t, capacity) \in Seq(T) /\ Len(Pushed(q, t, capacity)) <= capacity
<1>1. ASSUME q # <<>> PROVE Tail(q) \in Seq(T) /\ Len(Tail(q)) = Len(q) - 1
  BY <1>1
<1>2. Popped(q) \in Seq(T) /\ Len(Popped(q)) <= capacity
  BY <1>1 DEF Popped
<1>3. ASSUME NEW t \in T
      PROVE  Pushed(q, t, capacity) \in Seq(T) /\ Len(Pushed(q, t, capacity)) <= capacity
  <2>1. CASE Len(q) = capacity
    <3>1. q # <<>>
      BY <2>1
    <3> QED
      BY <1>1, <2>1, <3>1 DEF Pushed
  <2>2. CASE Len(q) # capacity
    BY <2>2 DEF Pushed
  <2> QED
    BY <2>1, <2>2
<1> QED
  BY <1>2, <1>3

LEMMA FifosStep ==
  ASSUME NEW T, NEW k, NEW fifos, FifosOK(fifos, T), NEW i \in Seqs, NEW snap \in Groups(i, T, k)
  PROVE  FifosOK(FifosAfter(fifos, i, snap), T)
<1> DEFINE pushes == {c \in Connections : c.push_seq = i}
           pops   == {c.name : c \in {d \in Connections : d.pop_seq = i}}
           after  == FifosAfter(fifos, i, snap)
<1>1. snap.ts \in [MaskOf(i) -> T]
  BY DEF Groups
<1>2. ASSUME NEW n \in FifoNames
      PROVE  after[n] \in Seq(T) /\ Len(after[n]) <= Capacity[n]
  <2>1. fifos[n] \in Seq(T) /\ Len(fifos[n]) <= Capacity[n] /\ Capacity[n] \in Nat \ {0}
    BY CapacityType DEF FifosOK
  <2>2. CASE n \in pops
    <3>1. after[n] = Popped(fifos[n])
      BY <2>2 DEF FifosAfter
    <3> QED
      BY <2>1, <3>1, QueueStep
  <2>3. CASE n \notin pops /\ \E c \in pushes : c.name = n
    <3> DEFINE c == CHOOSE d \in pushes : d.name = n
    <3>1. after[n] = Pushed(fifos[n], snap.ts[c.from], Capacity[n])
      BY <2>3 DEF FifosAfter
    <3>2. c \in Connections /\ c.push_seq = i
      BY <2>3
    <3>3. c.from \in MaskOf(i)
      BY <3>2, ConnectionTypes
    <3>4. snap.ts[c.from] \in T
      BY <1>1, <3>3
    <3> HIDE DEF c
    <3> QED
      BY <2>1, <3>1, <3>4, QueueStep
  <2>4. CASE n \notin pops /\ ~ \E c \in pushes : c.name = n
    <3>1. after[n] = fifos[n]
      BY <2>4 DEF FifosAfter
    <3> QED
      BY <2>1, <3>1
  <2> QED
    BY <2>2, <2>3, <2>4
<1>3. after = [n \in FifoNames |-> after[n]]
  BY DEF FifosAfter
<1> HIDE DEF after
<1>4. FifosOK(after, T)
  BY <1>2, <1>3 DEF FifosOK
<1> QED
  BY <1>4 DEF after

\* A row and the timestamps it was measured between.
LEMMA RowFields ==
  ASSUME NEW name, NEW from, NEW to, NEW a, NEW b, NEW tid
  PROVE  /\ Row(name, Delta(from, to, a, b, tid)).name = name
         /\ Row(name, Delta(from, to, a, b, tid)).delta.ts_from = a
         /\ Row(name, Delta(from, to, a, b, tid)).delta.ts_to = b
BY DEF Row, Delta

\* The name of a pair of stages of one seq matcher is that of no report by
\* request.
LEMMA SeqNamesApart ==
  ASSUME KeyReportsApart, NEW i \in Seqs, NEW a \in MaskOf(i), NEW b \in MaskOf(i),
         <<a, b>> \in DOMAIN report_keys
  PROVE  report_keys[<<a, b>>] \notin KeyNames
<1>1. PICK j \in DOMAIN reports :
        <<a, b>> = <<reports[j].from, reports[j].to>> /\ report_keys[<<a, b>>] = reports[j].name
  BY ReportKeys
<1>2. HasStage(i, reports[j].from) /\ HasStage(i, reports[j].to)
  BY <1>1 DEF HasStage, MaskOf
<1> QED
  BY <1>1, <1>2 DEF KeyReportsApart

\* The callbacks of a seq matcher measure between events that happened, and
\* count nothing under the name of a report by request (lensx.cpp:264-277).
LEMMA IntraRowsOK ==
  ASSUME NEW T, NEW k, NEW i \in Seqs, NEW snap \in Groups(i, T, k), NEW r \in IntraRows(snap)
  PROVE  RowOK(r, T, k) /\ (KeyReportsApart => r.name \notin KeyNames)
<1>1. snap.ts \in [MaskOf(i) -> T] /\ snap.stages = MaskOf(i)
  BY DEF Groups
<1>2. PICK p \in DOMAIN report_keys :
        /\ {p[1], p[2]} \subseteq snap.stages
        /\ r = Row(report_keys[p], Delta(p[1], p[2], snap.ts[p[1]], snap.ts[p[2]], snap.tid))
  BY DEF IntraRows
<1>3. PICK a, b : p = <<a, b>>
  BY <1>2, ReportKeys
<1>4. a \in MaskOf(i) /\ b \in MaskOf(i)
  BY <1>1, <1>2, <1>3
<1>5. r.name = report_keys[p] /\ r.delta.ts_from = snap.ts[a] /\ r.delta.ts_to = snap.ts[b]
  BY <1>2, <1>3, RowFields
<1>6. KeyReportsApart => report_keys[p] \notin KeyNames
  BY <1>3, <1>4, SeqNamesApart
<1> QED
  BY <1>1, <1>4, <1>5, <1>6 DEF RowOK

\* So does a queue (lensx.cpp:309-317).
LEMMA PopRowsOK ==
  ASSUME NEW T, NEW k, NEW fifos, FifosOK(fifos, T), NEW i \in Seqs,
         NEW snap \in Groups(i, T, k), NEW r \in PopRows(fifos, i, snap)
  PROVE  RowOK(r, T, k) /\ (KeyReportsApart => r.name \notin KeyNames)
<1>1. snap.ts \in [MaskOf(i) -> T]
  BY DEF Groups
<1>2. PICK c \in Connections :
        /\ c.pop_seq = i /\ fifos[c.name] # <<>>
        /\ r = Row(c.name, Delta(c.from, c.to, Head(fifos[c.name]), snap.ts[c.to], snap.tid))
  BY DEF PopRows
<1>3. c.name \in FifoNames /\ c.to \in MaskOf(i)
  BY <1>2, ConnectionTypes
<1>4. Head(fifos[c.name]) \in T
  <2>1. fifos[c.name] \in Seq(T)
    BY <1>3 DEF FifosOK
  <2> QED
    BY <1>2, <2>1
<1>5. /\ r.name = c.name
      /\ r.delta.ts_from = Head(fifos[c.name]) /\ r.delta.ts_to = snap.ts[c.to]
  BY <1>2, RowFields
<1>6. KeyReportsApart => c.name \notin KeyNames
  BY <1>3 DEF KeyReportsApart
<1> QED
  BY <1>1, <1>3, <1>4, <1>5, <1>6 DEF RowOK

\* Adding rows that are sound.
LEMMA RowsStep ==
  ASSUME NEW T, NEW k, NEW samples, NEW more,
         RowsOK(samples, T, k), \A r \in DOMAIN more : RowOK(r, T, k)
  PROVE  RowsOK(samples (+) more, T, k)
<1>1. DOMAIN (samples (+) more) = DOMAIN samples \cup DOMAIN more
  BY DEF (+)
<1> QED
  BY <1>1 DEF RowsOK

LEMMA OnCompleteSound ==
  ASSUME NEW T, NEW k, NEW s, Sound(s, T, k), NEW i \in Seqs, NEW snap \in Groups(i, T, k)
  PROVE  Sound(OnComplete(s, i, snap), T, k)
<1>1. CASE i \notin seq_map
  BY <1>1 DEF OnComplete
<1>2. CASE i \in seq_map
  <2> DEFINE intra == SetToBag(IntraRows(snap))
             popped == SetToBag(PopRows(s.fifos, i, snap))
             drops == s.dropped \/ \E c \in Connections :
                        c.push_seq = i /\ Len(s.fifos[c.name]) = Capacity[c.name]
  <2>1. DOMAIN intra = IntraRows(snap) /\ DOMAIN popped = PopRows(s.fifos, i, snap)
    BY DEF SetToBag
  <2>2. RowsOK(s.samples (+) intra, T, k)
    <3>1. \A r \in DOMAIN intra : RowOK(r, T, k)
      BY <2>1, IntraRowsOK
    <3> HIDE DEF intra
    <3> QED
      BY <3>1, RowsStep DEF Sound
  <2>3. RowsOK(s.samples (+) intra (+) popped, T, k)
    <3>1. \A r \in DOMAIN popped : RowOK(r, T, k)
      BY <2>1, PopRowsOK DEF Sound
    <3> HIDE DEF intra, popped
    <3> QED
      BY <2>2, <3>1, RowsStep
  <2>4. FifosOK(FifosAfter(s.fifos, i, snap), T)
    BY FifosStep DEF Sound
  <2>5. OnComplete(s, i, snap) =
          [s EXCEPT !.samples = s.samples (+) intra (+) popped,
                    !.fifos = FifosAfter(s.fifos, i, snap), !.dropped = drops]
    BY <1>2 DEF OnComplete
  <2> HIDE DEF intra, popped, drops
  <2>6. PICK t : t = OnComplete(s, i, snap)
    OBVIOUS
  <2>7. /\ HasFields(t) /\ t.recs = s.recs /\ t.pending = s.pending
        /\ t.fifos = FifosAfter(s.fifos, i, snap) /\ t.samples = s.samples (+) intra (+) popped
    BY <2>5, <2>6 DEF HasFields, Sound
  <2>8. Sound(t, T, k)
    BY <2>3, <2>4, <2>7 DEF Sound
  <2> QED
    BY <2>6, <2>8
<1> QED
  BY <1>1, <1>2

\* One record changes, that of id at matcher i.
LEMMA WithRecord ==
  ASSUME NEW T, NEW k, NEW s, Sound(s, T, k), NEW i \in Takers, NEW id \in Ids(i),
         NEW rec, RecordOK(rec, i, id, T, k)
  PROVE  Sound([s EXCEPT !.recs[i][id] = rec], T, k)
<1> DEFINE recs == [s.recs EXCEPT ![i] = [s.recs[i] EXCEPT ![id] = rec]]
<1>1. RecsOK(recs, T, k)
  BY RecsStep DEF Sound
<1>2. [s EXCEPT !.recs[i][id] = rec] = [s EXCEPT !.recs = recs]
  BY DEF HasFields, Sound
<1> HIDE DEF recs
<1>3. PICK t : t = [s EXCEPT !.recs = recs]
  OBVIOUS
<1>4. /\ HasFields(t) /\ t.recs = recs /\ t.pending = s.pending
      /\ t.fifos = s.fifos /\ t.samples = s.samples
  BY <1>3 DEF HasFields, Sound
<1>5. Sound(t, T, k)
  BY <1>1, <1>4 DEF Sound
<1> QED
  BY <1>2, <1>3, <1>5

\* The same, and a group is handed on.
LEMMA WithGroup ==
  ASSUME NEW T, NEW k, NEW s, Sound(s, T, k), NEW i \in Takers, NEW id \in Ids(i),
         NEW rec, RecordOK(rec, i, id, T, k), NEW snap \in Groups(i, T, k)
  PROVE  Sound([s EXCEPT !.recs[i][id] = rec, !.pending[i] = Append(@, snap)], T, k)
<1> DEFINE recs == [s.recs EXCEPT ![i] = [s.recs[i] EXCEPT ![id] = rec]]
           pending == [s.pending EXCEPT ![i] = Append(s.pending[i], snap)]
<1>1. RecsOK(recs, T, k)
  BY RecsStep DEF Sound
<1>2. PendingOK(pending, T, k)
  BY PendingStep DEF Sound
<1>3. [s EXCEPT !.recs[i][id] = rec, !.pending[i] = Append(@, snap)]
        = [s EXCEPT !.recs = recs, !.pending = pending]
  BY DEF HasFields, Sound
<1> HIDE DEF recs, pending
<1>4. PICK t : t = [s EXCEPT !.recs = recs, !.pending = pending]
  OBVIOUS
<1>5. /\ HasFields(t) /\ t.recs = recs /\ t.pending = pending
      /\ t.fifos = s.fifos /\ t.samples = s.samples
  BY <1>4 DEF HasFields, Sound
<1>6. Sound(t, T, k)
  BY <1>1, <1>2, <1>5 DEF Sound
<1> QED
  BY <1>3, <1>4, <1>6

\* A record of i when nothing has been collected.
LEMMA ZeroRecordOK ==
  ASSUME NEW i, NEW id, NEW T, NEW k
  PROVE  RecordOK(ZeroRecord(MaskOf(i)), i, id, T, k)
BY DEF ZeroRecord, RecordOK, Records

LEMMA SeqFeedSound ==
  ASSUME NEW T, T \subseteq Nat, NEW k, NEW s, Sound(s, T, k), NEW e \in Events(T, k),
         NEW i \in Seqs
  PROVE  Sound(SeqFeed(s, i, e), T, k)
<1> DEFINE mask == Mask(matchers[i].stages)
           rec  == SeqRecord(s.recs[i][e.tid], e, FirstStage(matchers[i].stages))
           snap == Snapshot(rec, mask)
           none == [rec EXCEPT !.filled = {}]
<1>1. mask = MaskOf(i) /\ i \in Takers /\ Ids(i) = Tids /\ i \notin KeyMs
  BY MatcherTypes DEF MaskOf, Takers
<1>2. e.ts \in T /\ e.tid \in Tids
  BY DEF Events
<1>3. CASE e.stage \notin mask
  BY <1>3 DEF SeqFeed
<1>4. CASE e.stage \in mask
  <2>1. RecordOK(rec, i, e.tid, T, k)
    <3>1. RecordOK(s.recs[i][e.tid], i, e.tid, T, k)
      BY <1>1, <1>2 DEF Sound, RecsOK
    <3> QED
      BY <1>1, <1>2, <1>4, <3>1, RecordStep
  <2>2. CASE ~ Complete(rec, mask)
    <3>1. SeqFeed(s, i, e) = [s EXCEPT !.recs[i][e.tid] = rec]
      BY <1>4, <2>2 DEF SeqFeed
    <3> HIDE DEF rec
    <3> QED
      BY <1>1, <1>2, <2>1, <3>1, WithRecord
  <2>3. CASE Complete(rec, mask)
    <3>1. snap \in Groups(i, T, k)
      BY <1>1, <2>1, <2>3, GroupStep
    <3>2. RecordOK(none, i, e.tid, T, k)
      <4> HIDE DEF rec
      <4> QED
        BY <2>1 DEF RecordOK, Records
    <3>3. SeqFeed(s, i, e) =
            OnComplete([s EXCEPT !.recs[i][e.tid] = none, !.pending[i] = Append(@, snap)], i, snap)
      BY <1>4, <2>3 DEF SeqFeed
    <3> HIDE DEF rec, snap, none
    <3>4. Sound([s EXCEPT !.recs[i][e.tid] = none, !.pending[i] = Append(@, snap)], T, k)
      BY <1>1, <1>2, <3>1, <3>2, WithGroup
    <3> QED
      BY <3>1, <3>3, <3>4, OnCompleteSound
  <2> QED
    BY <2>2, <2>3
<1> QED
  BY <1>3, <1>4

LEMMA KeyFeedSound ==
  ASSUME NEW T, T \subseteq Nat, NEW k, NEW s, Sound(s, T, k), NEW e \in Events(T, k),
         NEW i \in KeyMs
  PROVE  Sound(KeyFeed(s, i, e), T, k)
<1> DEFINE mask == Mask(matchers[i].stages)
           rec  == KeyRecord(s.recs[i][e.key], e, FirstStage(matchers[i].stages))
           snap == Snapshot(rec, mask)
           none == ZeroRecord(mask)
<1>1. mask = MaskOf(i) /\ i \in Takers /\ Ids(i) = Keys
  BY MatcherTypes DEF MaskOf, Takers
<1>2. e.ts \in T /\ e.tid \in Tids /\ e.key \in Keys /\ k[e.ts] = e.key
  BY DEF Events
<1>3. CASE e.stage \notin mask
  BY <1>3 DEF KeyFeed
<1>4. CASE e.stage \in mask
  <2>1. RecordOK(rec, i, e.key, T, k)
    <3>1. RecordOK(s.recs[i][e.key], i, e.key, T, k)
      BY <1>1, <1>2 DEF Sound, RecsOK
    <3> QED
      BY <1>1, <1>2, <1>4, <3>1, RecordStep
  <2>2. CASE ~ Complete(rec, mask)
    <3>1. KeyFeed(s, i, e) = [s EXCEPT !.recs[i][e.key] = rec]
      BY <1>4, <2>2 DEF KeyFeed
    <3> HIDE DEF rec
    <3> QED
      BY <1>1, <1>2, <2>1, <3>1, WithRecord
  <2>3. CASE Complete(rec, mask)
    <3>1. snap \in Groups(i, T, k)
      BY <1>1, <1>2, <2>1, <2>3, GroupStep
    <3>2. RecordOK(none, i, e.key, T, k)
      BY <1>1, ZeroRecordOK
    <3>3. KeyFeed(s, i, e) =
            [s EXCEPT !.recs[i][e.key] = none, !.pending[i] = Append(@, snap)]
      BY <1>4, <2>3 DEF KeyFeed
    <3> HIDE DEF rec, snap, none
    <3>4. Sound([s EXCEPT !.recs[i][e.key] = none, !.pending[i] = Append(@, snap)], T, k)
      BY <1>1, <1>2, <3>1, <3>2, WithGroup
    <3> QED
      BY <3>3, <3>4
  <2> QED
    BY <2>2, <2>3
<1> QED
  BY <1>3, <1>4

\* An event goes through all matchers, and everything stays sound
\* (lensx.cpp:335-342).
LEMMA FedSound ==
  ASSUME NEW T, T \subseteq Nat, NEW k, NEW s, Sound(s, T, k), NEW e \in Events(T, k),
         NEW f, IsFed(f, s, e)
  PROVE  /\ f[0] = s /\ \A n \in 1 .. Len(matchers) : f[n] = Feed(f[n - 1], n, e)
         /\ \A n \in 0 .. Len(matchers) : Sound(f[n], T, k)
<1> DEFINE N == Len(matchers)
           Bad == {n \in 0 .. N : ~ Sound(f[n], T, k)}
<1>1. N \in Nat
  BY MatcherTypes
<1>2. f[0] = s /\ \A n \in 1 .. N : f[n] = Feed(f[n - 1], n, e)
  <2> HIDE DEF N
  <2> QED
    BY <1>1 DEF IsFed, N
<1>3. ASSUME NEW n \in 1 .. N, Sound(f[n - 1], T, k) PROVE Sound(f[n], T, k)
  <2>1. \/ n \in Seqs /\ f[n] = SeqFeed(f[n - 1], n, e)
        \/ n \in KeyMs /\ f[n] = KeyFeed(f[n - 1], n, e)
        \/ f[n] = f[n - 1]
    BY <1>2 DEF Feed
  <2> QED
    BY <1>3, <2>1, SeqFeedSound, KeyFeedSound
<1>4. Bad = {}
  <2> SUFFICES ASSUME Bad # {} PROVE FALSE
    OBVIOUS
  <2>1. PICK n \in Bad : \A m \in Bad : n <= m
    <3>1. Bad \subseteq Nat
      BY <1>1
    <3> HIDE DEF Bad
    <3> QED
      BY <3>1, SmallestExists
  <2>2. n \in 1 .. N /\ n - 1 \in 0 .. N
    BY <1>1, <1>2
  <2>3. n - 1 \notin Bad
    <3>1. ~ (n <= n - 1)
      BY <2>2
    <3> HIDE DEF Bad
    <3> QED
      BY <2>1, <3>1
  <2> QED
    BY <1>3, <2>2, <2>3
<1> QED
  BY <1>2, <1>4

LEMMA EventSound ==
  ASSUME NEW T, T \subseteq Nat, NEW k, NEW s, Sound(s, T, k), NEW e \in Events(T, k)
  PROVE  Sound(HandleRingEvent(s, e), T, k)
<1>1. PICK f : IsFed(f, s, e) /\ HandleRingEvent(s, e) = f[Len(matchers)]
  BY HandleRingEventIs
<1>2. Len(matchers) \in 0 .. Len(matchers)
  BY MatcherTypes
<1>3. \A n \in 0 .. Len(matchers) : Sound(f[n], T, k)
  BY <1>1, FedSound
<1> QED
  BY <1>1, <1>2, <1>3

\* A row of a drained group is measured between two stages of its matcher
\* (matcher.cpp:42-60, 94-99, lensx.cpp:355-364).
LEMMA DrainRowIs ==
  ASSUME NEW i \in Takers, NEW snap, NEW r \in DrainRows(i, snap)
  PROVE  /\ \E a, b \in MaskOf(i) : r.delta.ts_from = snap.ts[a] /\ r.delta.ts_to = snap.ts[b]
         /\ KeyReportsApart /\ i \in Seqs => r.name \notin KeyNames
<1>1. PICK d \in Deltas(matchers[i].stages, snap) :
        /\ <<d.from_stage, d.to_stage>> \in DOMAIN report_keys
        /\ r = Row(report_keys[<<d.from_stage, d.to_stage>>], d)
  BY DEF DrainRows
<1>2. PICK x \in DOMAIN matchers[i].stages, y \in DOMAIN matchers[i].stages :
        d = Delta(matchers[i].stages[x], matchers[i].stages[y],
                  snap.ts[matchers[i].stages[x]], snap.ts[matchers[i].stages[y]], snap.tid)
  BY <1>1 DEF Deltas
<1>3. PICK a, b : a = matchers[i].stages[x] /\ b = matchers[i].stages[y]
  OBVIOUS
<1>4. a \in MaskOf(i) /\ b \in MaskOf(i)
  BY <1>3 DEF MaskOf, Mask
<1>5. /\ d.from_stage = a /\ d.to_stage = b
      /\ d.ts_from = snap.ts[a] /\ d.ts_to = snap.ts[b]
  BY <1>2, <1>3 DEF Delta
<1>6. r.name = report_keys[<<a, b>>] /\ r.delta = d
  BY <1>1, <1>5 DEF Row
<1>7. r.delta.ts_from = snap.ts[a] /\ r.delta.ts_to = snap.ts[b]
  BY <1>5, <1>6
<1>8. KeyReportsApart /\ i \in Seqs => r.name \notin KeyNames
  BY <1>1, <1>4, <1>5, <1>6, SeqNamesApart
<1> QED
  BY <1>4, <1>7, <1>8

\* A key matcher's is measured between events of one key.
LEMMA DrainRowsOK ==
  ASSUME NEW T, NEW k, NEW i \in Takers, NEW snap \in Groups(i, T, k), NEW r \in DrainRows(i, snap)
  PROVE  RowOK(r, T, k)
<1>1. snap.ts \in [MaskOf(i) -> T]
  BY DEF Groups
<1>2. PICK a \in MaskOf(i), b \in MaskOf(i) :
        r.delta.ts_from = snap.ts[a] /\ r.delta.ts_to = snap.ts[b]
  BY DrainRowIs
<1>3. CASE i \in Seqs
  <2>1. KeyReportsApart => r.name \notin KeyNames
    BY <1>3, DrainRowIs
  <2> QED
    BY <1>1, <1>2, <2>1 DEF RowOK
<1>4. CASE i \in KeyMs
  <2>1. k[snap.ts[a]] = k[snap.ts[b]]
    BY <1>2, <1>4 DEF Groups
  <2> QED
    BY <1>1, <1>2, <2>1 DEF RowOK
<1> QED
  BY <1>3, <1>4 DEF Takers

LEMMA DrainSound ==
  ASSUME NEW T, NEW k, NEW s, Sound(s, T, k)
  PROVE  Sound(DrainAll(s), T, k)
<1> DEFINE groups == UNION {{<<i, g>> : g \in DOMAIN s.pending[i]} : i \in Seqs \cup KeyMs}
           From(g) == DrainRows(g[1], s.pending[g[1]][g[2]])
           all == UNION {From(g) : g \in groups}
           more == [r \in all |-> Cardinality({g \in groups : r \in From(g)})]
           none == [i \in Seqs \cup KeyMs |-> <<>>]
<1>1. ASSUME NEW r \in all PROVE RowOK(r, T, k)
  <2>1. PICK i \in Takers : \E g \in DOMAIN s.pending[i] : r \in DrainRows(i, s.pending[i][g])
    BY <1>1 DEF Takers
  <2>2. PICK g \in DOMAIN s.pending[i] : r \in DrainRows(i, s.pending[i][g])
    BY <2>1
  <2>3. s.pending[i][g] \in Groups(i, T, k)
    BY <2>2 DEF Sound, PendingOK
  <2> QED
    BY <2>2, <2>3, DrainRowsOK
<1>2. DrainAll(s) = [s EXCEPT !.samples = s.samples (+) more, !.pending = none]
  BY DEF DrainAll
<1>3. DOMAIN more = all
  OBVIOUS
<1>4. PendingOK(none, T, k)
  BY DEF PendingOK, Takers
<1> HIDE DEF groups, From, all, more, none
<1>5. RowsOK(s.samples (+) more, T, k)
  BY <1>1, <1>3, RowsStep DEF Sound
<1>6. PICK t : t = DrainAll(s)
  OBVIOUS
<1>7. /\ HasFields(t) /\ t.recs = s.recs /\ t.pending = none
      /\ t.fifos = s.fifos /\ t.samples = s.samples (+) more
  BY <1>2, <1>6 DEF HasFields, Sound
<1> QED
  BY <1>4, <1>5, <1>6, <1>7 DEF Sound

\* Later events take nothing back: what is sound for the events so far is sound
\* for more of them.
LEMMA SoundGrows ==
  ASSUME NEW T, NEW k, NEW U, NEW j, T \subseteq U, \A t \in T : j[t] = k[t],
         NEW s, Sound(s, T, k)
  PROVE  Sound(s, U, j)
<1>1. RecsOK(s.recs, U, j)
  BY DEF Sound, RecsOK, RecordOK
<1>2. PendingOK(s.pending, U, j)
  <2>1. ASSUME NEW i \in Takers PROVE s.pending[i] \in Seq(Groups(i, U, j))
    <3>1. Groups(i, T, k) \subseteq Groups(i, U, j)
      <4> SUFFICES ASSUME NEW x \in Groups(i, T, k) PROVE x \in Groups(i, U, j)
        OBVIOUS
      <4>1. /\ x \in [stages : {MaskOf(i)}, ts : [MaskOf(i) -> T], tid : Tids \cup {0}]
            /\ i \in KeyMs => \E id \in Keys : \A g \in MaskOf(i) : k[x.ts[g]] = id
        BY DEF Groups
      <4>2. x \in [stages : {MaskOf(i)}, ts : [MaskOf(i) -> U], tid : Tids \cup {0}]
        BY <4>1
      <4>3. \A g \in MaskOf(i) : j[x.ts[g]] = k[x.ts[g]]
        BY <4>1
      <4> QED
        BY <4>1, <4>2, <4>3 DEF Groups
    <3>2. s.pending[i] \in Seq(Groups(i, T, k))
      BY DEF Sound, PendingOK
    <3> QED
      BY <3>1, <3>2
  <2> QED
    BY <2>1 DEF Sound, PendingOK
<1>3. FifosOK(s.fifos, U)
  <2>1. ASSUME NEW n \in FifoNames PROVE s.fifos[n] \in Seq(U)
    <3>1. s.fifos[n] \in Seq(T)
      BY DEF Sound, FifosOK
    <3> QED
      BY <3>1
  <2> QED
    BY <2>1 DEF Sound, FifosOK
<1>4. RowsOK(s.samples, U, j)
  BY DEF Sound, RowsOK, RowOK
<1> QED
  BY <1>1, <1>2, <1>3, <1>4 DEF Sound

LEMMA EventsGrow ==
  ASSUME NEW T, NEW k, NEW U, NEW j, T \subseteq U, \A t \in T : j[t] = k[t]
  PROVE  Events(T, k) \subseteq Events(U, j)
BY DEF Events

LEMMA SoundInit ==
  ASSUME NEW T, NEW k
  PROVE  Sound(MatcherInit, T, k)
<1> DEFINE recs == [i \in Seqs \cup KeyMs |->
                      [id \in (IF i \in Seqs THEN Tids ELSE Keys) |->
                         ZeroRecord(Mask(matchers[i].stages))]]
<1>1. RecsOK(recs, T, k)
  BY ZeroRecordOK DEF RecsOK, Takers, Ids, MaskOf
<1>2. PendingOK([i \in Seqs \cup KeyMs |-> <<>>], T, k)
  BY DEF PendingOK, Takers
<1>3. FifosOK([n \in FifoNames |-> <<>>], T)
  BY CapacityType DEF FifosOK
<1>4. RowsOK(EmptyBag, T, k)
  BY DEF RowsOK, EmptyBag, SetToBag
<1> HIDE DEF recs
<1>5. MatcherInit = [recs |-> recs, pending |-> [i \in Seqs \cup KeyMs |-> <<>>],
                     fifos |-> [n \in FifoNames |-> <<>>], samples |-> EmptyBag, dropped |-> FALSE]
  BY DEF MatcherInit, recs
<1> QED
  BY <1>1, <1>2, <1>3, <1>4, <1>5 DEF Sound, HasFields
-----------------------------------------------------------------------------
(***************************************************************************)
(* The inductive invariant.                                                *)
(***************************************************************************)
\* The timestamps whose event has been in the ring buffer, and their keys.
InFlight == {lane[l].ts : l \in DOMAIN Lanes}
Seen     == DOMAIN owner \ (lost \cup InFlight)
KeyAt    == [t \in DOMAIN owner |-> KeyOf[owner[t]]]

\* A thread is at one of its stages, and knows its item unless at the first.
LaneOK(x, l) ==
  /\ x \in [item : Nat, step : Nat \ {0}, ts : Nat, done : SUBSET (1 .. Items)]
  /\ x.step <= Len(Lanes[l].stages)
  /\ x.step > 1 => x.item \in 1 .. Items

\* A timestamp that has been taken is of the thread's item, of no other thread
\* and not lost.
StampsOK ==
  \A l \in DOMAIN Lanes : lane[l].ts # 0 =>
    /\ lane[l].ts \in DOMAIN owner \ lost
    /\ owner[lane[l].ts] = lane[l].item
    /\ \A m \in DOMAIN Lanes : lane[m].ts = lane[l].ts => m = l

TargetOK ==
  /\ owner \in Seq(1 .. Items)
  /\ lost \subseteq DOMAIN owner
  /\ lane = [l \in DOMAIN Lanes |-> lane[l]]
  /\ \A l \in DOMAIN Lanes : LaneOK(lane[l], l)
  /\ StampsOK

MainOK ==
  /\ phase \in {"attach", "loop", "poll", "done", "aborted"}
  /\ attached \in 0 .. Len(probes)
  /\ links \subseteq 1 .. attached
  /\ exiting \in BOOLEAN

\* What is in the ring buffer and in the matchers came from the target.
DataOK ==
  /\ ring \in Seq(Events(Seen, KeyAt))
  /\ Len(ring) <= RingCap
  /\ Sound(st, Seen, KeyAt)

LensXInv == MainOK /\ TargetOK /\ DataOK

LEMMA LaneTypes ==
  /\ Len(Lanes) \in Nat /\ DOMAIN Lanes = 1 .. Len(Lanes)
  /\ \A l \in DOMAIN Lanes :
       /\ Lanes[l].tid \in Tids /\ Lanes[l].stages \in Seq(Nat)
       /\ Len(Lanes[l].stages) \in Nat \ {0}
<1> DEFINE R == [tid : Tids, stages : Seq(Nat)]
<1>1. \A r \in R : r.tid \in Tids /\ r.stages \in Seq(Nat)
  OBVIOUS
<1>2. Lanes \in Seq(R) /\ \A l \in DOMAIN Lanes : Lanes[l].stages # <<>>
  BY LanesAssumption
<1> HIDE DEF R
<1>3. /\ Len(Lanes) \in Nat /\ DOMAIN Lanes = 1 .. Len(Lanes)
      /\ \A l \in DOMAIN Lanes : Lanes[l].tid \in Tids /\ Lanes[l].stages \in Seq(Nat)
  BY <1>1, <1>2
<1>4. ASSUME NEW l \in DOMAIN Lanes PROVE Len(Lanes[l].stages) \in Nat \ {0}
  <2>1. PICK stages \in Seq(Nat) : stages = Lanes[l].stages
    BY <1>3
  <2>2. stages # <<>>
    BY <1>2, <2>1
  <2>3. Len(stages) \in Nat \ {0}
    BY <2>2
  <2> QED
    BY <2>1, <2>3
<1> QED
  BY <1>3, <1>4

LEMMA LensXInit == Init => LensXInv
<1> SUFFICES ASSUME Init PROVE LensXInv
  OBVIOUS
<1>1. MainOK
  <2>1. Len(probes) \in Nat
    BY ProbesAssumption
  <2>2. attached \in 0 .. Len(probes) /\ links = {} /\ exiting = FALSE /\ phase = "attach"
    BY <2>1 DEF Init
  <2> QED
    BY <2>2 DEF MainOK
<1>2. TargetOK
  <2>1. ASSUME NEW l \in DOMAIN Lanes PROVE LaneOK(lane[l], l) /\ lane[l].ts = 0
    <3>1. lane[l] = [item |-> 0, step |-> 1, ts |-> 0, done |-> {}]
      BY DEF Init
    <3> QED
      BY <3>1, LaneTypes DEF LaneOK
  <2>2. lane = [l \in DOMAIN Lanes |-> lane[l]]
    BY DEF Init
  <2> QED
    BY <2>1, <2>2 DEF Init, TargetOK, StampsOK
<1>3. DataOK
  <2>1. PICK T, k : T = Seen /\ k = KeyAt
    OBVIOUS
  <2>2. Sound(st, T, k)
    BY SoundInit DEF Init
  <2> QED
    BY <2>1, <2>2, RingAssumption DEF Init, DataOK
<1> QED
  BY <1>1, <1>2, <1>3 DEF LensXInv

\* An item a thread may go on with is one of the items.
LEMMA NextItemType ==
  ASSUME TargetOK, NEW l \in DOMAIN Lanes, NEW i \in NextItem(l)
  PROVE  i \in 1 .. Items
<1>1. CASE lane[l].step > 1
  BY <1>1 DEF NextItem, TargetOK, LaneOK
<1>2. CASE ~ (lane[l].step > 1)
  <2>1. i \in Ready(l)
    BY <1>2 DEF NextItem
  <2>2. CASE l = 1
    BY <2>1, <2>2 DEF Ready
  <2>3. CASE l # 1
    <3>1. l - 1 \in DOMAIN Lanes
      BY <2>3, LaneTypes
    <3>2. lane[l - 1].done \subseteq 1 .. Items
      BY <3>1 DEF TargetOK, LaneOK
    <3> QED
      BY <2>1, <2>3, <3>2 DEF Ready
  <2> QED
    BY <2>2, <2>3
<1> QED
  BY <1>1, <1>2

LEMMA PassedOK ==
  ASSUME TargetOK, NEW l \in DOMAIN Lanes, NEW i \in 1 .. Items
  PROVE  LaneOK(Passed(l, i), l) /\ Passed(l, i).ts = 0
<1>1. LaneOK(lane[l], l) /\ Len(Lanes[l].stages) \in Nat \ {0}
  BY LaneTypes DEF TargetOK
<1>2. CASE lane[l].step = Len(Lanes[l].stages)
  <2>1. Passed(l, i) = [item |-> 0, step |-> 1, ts |-> 0, done |-> lane[l].done \cup {i}]
    BY <1>2 DEF Passed
  <2> QED
    BY <1>1, <2>1 DEF LaneOK
<1>3. CASE lane[l].step # Len(Lanes[l].stages)
  <2>1. PICK x : x = Passed(l, i)
    OBVIOUS
  <2>2. x = [lane[l] EXCEPT !.item = i, !.step = lane[l].step + 1, !.ts = 0]
    BY <1>3, <2>1 DEF Passed
  <2>3. i \in Nat /\ lane[l].step \in Nat \ {0}
    BY <1>1, ItemsAssumption DEF LaneOK
  <2>4. /\ x \in [item : Nat, step : Nat \ {0}, ts : Nat, done : SUBSET (1 .. Items)]
        /\ x.item = i /\ x.step = lane[l].step + 1 /\ x.ts = 0
    <3>1. PICK n : n = lane[l].step + 1
      OBVIOUS
    <3>2. n \in Nat \ {0}
      BY <2>3, <3>1
    <3> QED
      BY <1>1, <2>2, <2>3, <3>1, <3>2 DEF LaneOK
  <2>5. lane[l].step + 1 <= Len(Lanes[l].stages)
    BY <1>1, <1>3 DEF LaneOK
  <2> QED
    BY <2>1, <2>4, <2>5 DEF LaneOK
<1> QED
  BY <1>2, <1>3

\* An event happens: what is known of the earlier ones stays.
LEMMA OwnerGrows ==
  ASSUME TargetOK, NEW i \in 1 .. Items, owner' = Append(owner, i)
  PROVE  /\ owner' \in Seq(1 .. Items)
         /\ DOMAIN owner' = DOMAIN owner \cup {Len(owner) + 1}
         /\ \A t \in DOMAIN owner : owner'[t] = owner[t] /\ KeyAt'[t] = KeyAt[t]
         /\ owner'[Len(owner) + 1] = i
         /\ Len(owner) + 1 \in Nat \ {0} /\ Len(owner) + 1 \notin DOMAIN owner
         /\ 0 \notin DOMAIN owner
<1>1. owner \in Seq(1 .. Items) /\ Len(owner) \in Nat /\ DOMAIN owner = 1 .. Len(owner)
  BY DEF TargetOK
<1>2. /\ owner' \in Seq(1 .. Items)
      /\ DOMAIN owner' = DOMAIN owner \cup {Len(owner) + 1}
      /\ \A t \in DOMAIN owner : owner'[t] = owner[t]
      /\ owner'[Len(owner) + 1] = i
  BY <1>1
<1>3. \A t \in DOMAIN owner : KeyAt'[t] = KeyAt[t]
  BY <1>2 DEF KeyAt
<1> QED
  BY <1>1, <1>2, <1>3

\* Thread l moves, the others stay where they are.
LEMMA LaneMoves ==
  ASSUME TargetOK, NEW l \in DOMAIN Lanes, NEW x, LaneOK(x, l), lane' = [lane EXCEPT ![l] = x]
  PROVE  /\ lane' = [m \in DOMAIN Lanes |-> lane'[m]]
         /\ \A m \in DOMAIN Lanes : LaneOK(lane'[m], m)
         /\ lane'[l] = x
         /\ \A m \in DOMAIN Lanes \ {l} : lane'[m] = lane[m]
<1>1. DOMAIN lane = DOMAIN Lanes
  BY DEF TargetOK
<1>2. /\ lane' = [m \in DOMAIN Lanes |-> lane'[m]]
      /\ lane'[l] = x
      /\ \A m \in DOMAIN Lanes \ {l} : lane'[m] = lane[m]
  BY <1>1
<1>3. \A m \in DOMAIN Lanes : LaneOK(lane'[m], m)
  BY <1>2 DEF TargetOK
<1> QED
  BY <1>2, <1>3

\* The state of the target stays consistent and no event that came through is
\* taken back; the event that has now come through is new to the ring buffer.
Grows == Seen \subseteq Seen' /\ \A t \in Seen : KeyAt'[t] = KeyAt[t]

LEMMA StampsStep ==
  ASSUME TargetOK, NEW l \in DOMAIN Lanes, NEW i \in NextItem(l), ProbeStamps(l, i)
  PROVE  TargetOK' /\ Grows
<1> DEFINE now == Len(owner) + 1
           x == [lane[l] EXCEPT !.item = i, !.ts = now]
<1>1. i \in 1 .. Items /\ i \in Nat
  BY NextItemType, ItemsAssumption
<1>2. /\ owner' \in Seq(1 .. Items)
      /\ DOMAIN owner' = DOMAIN owner \cup {now}
      /\ \A t \in DOMAIN owner : owner'[t] = owner[t] /\ KeyAt'[t] = KeyAt[t]
      /\ owner'[now] = i
      /\ now \in Nat \ {0} /\ now \notin DOMAIN owner
  BY <1>1, OwnerGrows DEF ProbeStamps, Reach
<1>3. lost' = lost /\ lost \subseteq DOMAIN owner /\ StampsOK
  BY DEF ProbeStamps, TargetOK
<1>4. LaneOK(lane[l], l)
  BY DEF TargetOK
<1> HIDE DEF now
<1>5. LaneOK(x, l) /\ x.ts = now /\ x.item = i
  BY <1>1, <1>2, <1>4 DEF LaneOK
<1>6. lane' = [lane EXCEPT ![l] = x]
  BY DEF ProbeStamps, now
<1> HIDE DEF x
<1>7. /\ lane' = [m \in DOMAIN Lanes |-> lane'[m]]
      /\ \A m \in DOMAIN Lanes : LaneOK(lane'[m], m)
      /\ lane'[l] = x
      /\ \A m \in DOMAIN Lanes \ {l} : lane'[m] = lane[m]
  BY <1>5, <1>6, LaneMoves
<1>8. StampsOK'
  <2> SUFFICES ASSUME NEW m \in DOMAIN Lanes, lane'[m].ts # 0
               PROVE  /\ lane'[m].ts \in DOMAIN owner' \ lost'
                      /\ owner'[lane'[m].ts] = lane'[m].item
                      /\ \A n \in DOMAIN Lanes : lane'[n].ts = lane'[m].ts => n = m
    BY DEF StampsOK
  <2>1. CASE m = l
    BY <1>2, <1>3, <1>5, <1>7, <2>1 DEF StampsOK
  <2>2. CASE m # l
    BY <1>2, <1>3, <1>5, <1>7, <2>2 DEF StampsOK
  <2> QED
    BY <2>1, <2>2
<1>9. Grows
  BY <1>2, <1>3, <1>5, <1>7 DEF Grows, Seen, InFlight
<1> QED
  BY <1>2, <1>3, <1>7, <1>8, <1>9 DEF TargetOK

LEMMA UnseenStep ==
  ASSUME TargetOK, NEW l \in DOMAIN Lanes, NEW i \in NextItem(l), PassUnseen(l, i)
  PROVE  TargetOK' /\ Grows
<1> DEFINE now == Len(owner) + 1
           x == Passed(l, i)
<1>1. i \in 1 .. Items
  BY NextItemType
<1>2. /\ owner' \in Seq(1 .. Items)
      /\ DOMAIN owner' = DOMAIN owner \cup {now}
      /\ \A t \in DOMAIN owner : owner'[t] = owner[t] /\ KeyAt'[t] = KeyAt[t]
      /\ now \notin DOMAIN owner /\ 0 \notin DOMAIN owner
  BY <1>1, OwnerGrows DEF PassUnseen, Reach
<1>3. lost' = lost \cup {now} /\ lost \subseteq DOMAIN owner /\ StampsOK
  BY DEF PassUnseen, TargetOK
<1> HIDE DEF now
<1>4. LaneOK(x, l) /\ x.ts = 0
  BY <1>1, PassedOK
<1>5. lane' = [lane EXCEPT ![l] = x]
  BY DEF PassUnseen
<1> HIDE DEF x
<1>6. /\ lane' = [m \in DOMAIN Lanes |-> lane'[m]]
      /\ \A m \in DOMAIN Lanes : LaneOK(lane'[m], m)
      /\ lane'[l] = x
      /\ \A m \in DOMAIN Lanes \ {l} : lane'[m] = lane[m]
  BY <1>4, <1>5, LaneMoves
<1>7. StampsOK'
  <2> SUFFICES ASSUME NEW m \in DOMAIN Lanes, lane'[m].ts # 0
               PROVE  /\ lane'[m].ts \in DOMAIN owner' \ lost'
                      /\ owner'[lane'[m].ts] = lane'[m].item
                      /\ \A n \in DOMAIN Lanes : lane'[n].ts = lane'[m].ts => n = m
    BY DEF StampsOK
  <2>1. m # l /\ lane'[m] = lane[m]
    BY <1>4, <1>6
  <2> QED
    BY <1>2, <1>3, <1>4, <1>6, <2>1 DEF StampsOK
<1>8. Grows
  BY <1>2, <1>3, <1>4, <1>6 DEF Grows, Seen, InFlight
<1> QED
  BY <1>2, <1>3, <1>6, <1>7, <1>8 DEF TargetOK

\* The BPF program is done with its event: it is in the ring buffer, or lost.
LEMMA EmitStep ==
  ASSUME TargetOK, NEW l \in DOMAIN Lanes, lane[l].ts # 0,
         lane' = [lane EXCEPT ![l] = Passed(l, lane[l].item)], owner' = owner,
         lost' = lost \/ lost' = lost \cup {lane[l].ts}
  PROVE  /\ TargetOK' /\ Grows
         /\ lost' = lost => lane[l].ts \in Seen'
         /\ KeyAt' = KeyAt /\ KeyAt[lane[l].ts] = KeyOf[lane[l].item]
         /\ lane[l].item \in 1 .. Items
<1> DEFINE x == Passed(l, lane[l].item)
<1>1. /\ StampsOK /\ owner \in Seq(1 .. Items) /\ lost \subseteq DOMAIN owner
      /\ lane[l].ts \in DOMAIN owner \ lost /\ owner[lane[l].ts] = lane[l].item
      /\ 0 \notin DOMAIN owner
  BY DEF TargetOK, StampsOK
<1>2. lane[l].item \in 1 .. Items
  <2>1. PICK S : S = 1 .. Items
    OBVIOUS
  <2>2. owner \in Seq(S)
    BY <1>1, <2>1
  <2>3. \A t \in DOMAIN owner : owner[t] \in S
    BY <2>2
  <2> QED
    BY <1>1, <2>1, <2>3
<1>3. LaneOK(x, l) /\ x.ts = 0
  BY <1>2, PassedOK
<1> HIDE DEF x
<1>4. /\ lane' = [m \in DOMAIN Lanes |-> lane'[m]]
      /\ \A m \in DOMAIN Lanes : LaneOK(lane'[m], m)
      /\ lane'[l] = x
      /\ \A m \in DOMAIN Lanes \ {l} : lane'[m] = lane[m]
  BY <1>3, LaneMoves DEF x
<1>5. StampsOK'
  <2> SUFFICES ASSUME NEW m \in DOMAIN Lanes, lane'[m].ts # 0
               PROVE  /\ lane'[m].ts \in DOMAIN owner' \ lost'
                      /\ owner'[lane'[m].ts] = lane'[m].item
                      /\ \A n \in DOMAIN Lanes : lane'[n].ts = lane'[m].ts => n = m
    BY DEF StampsOK
  <2>1. m # l /\ lane'[m] = lane[m]
    BY <1>3, <1>4
  <2> QED
    BY <1>1, <1>3, <1>4, <2>1 DEF StampsOK
<1>6. KeyAt' = KeyAt /\ KeyAt[lane[l].ts] = KeyOf[lane[l].item]
  BY <1>1 DEF KeyAt
<1>7. Seen \subseteq Seen' /\ (lost' = lost => lane[l].ts \in Seen')
  BY <1>1, <1>3, <1>4 DEF Seen, InFlight, StampsOK
<1> QED
  <2>1. lost' \subseteq DOMAIN owner'
    BY <1>1
  <2> QED
    BY <1>1, <1>2, <1>4, <1>5, <1>6, <1>7, <2>1 DEF TargetOK, Grows

\* What has been collected stays sound as the target goes on.
LEMMA DataKept ==
  ASSUME DataOK, Grows, ring' = ring, st' = st
  PROVE  DataOK'
<1>1. PICK T, k : T = Seen /\ k = KeyAt
  OBVIOUS
<1>2. PICK U, j : U = Seen' /\ j = KeyAt'
  OBVIOUS
<1>3. T \subseteq U /\ \A t \in T : j[t] = k[t]
  BY <1>1, <1>2 DEF Grows
<1>4. ring \in Seq(Events(T, k)) /\ Sound(st, T, k)
  BY <1>1 DEF DataOK
<1>5. Sound(st, U, j)
  BY <1>3, <1>4, SoundGrows
<1>6. ring \in Seq(Events(U, j))
  <2>1. Events(T, k) \subseteq Events(U, j)
    BY <1>3, EventsGrow
  <2> QED
    BY <1>4, <2>1
<1> QED
  BY <1>2, <1>5, <1>6 DEF DataOK

LEMMA RecordsStep ==
  ASSUME TargetOK, DataOK, NEW l \in DOMAIN Lanes, ProbeRecords(l)
  PROVE  TargetOK' /\ DataOK'
<1> DEFINE e == RawEvent(lane[l].ts, Lanes[l].tid, Stage(l), KeyOf[lane[l].item])
<1>1. /\ TargetOK' /\ Grows /\ lane[l].ts \in Seen'
      /\ KeyAt' = KeyAt /\ KeyAt[lane[l].ts] = KeyOf[lane[l].item]
      /\ lane[l].item \in 1 .. Items
  <2>1. /\ lane[l].ts # 0 /\ owner' = owner /\ lost' = lost
        /\ lane' = [lane EXCEPT ![l] = Passed(l, lane[l].item)]
    BY DEF ProbeRecords
  <2> QED
    BY <2>1, EmitStep
<1>2. e.ts = lane[l].ts /\ e \in Events(Seen', KeyAt')
  <2>1. KeyOf[lane[l].item] \in Keys
    BY <1>1, KeyOfAssumption
  <2>2. Stage(l) \in Nat
    <3>1. LaneOK(lane[l], l)
      BY DEF TargetOK
    <3>2. Lanes[l].stages \in Seq(Nat) /\ lane[l].step \in DOMAIN Lanes[l].stages
      BY <3>1, LaneTypes DEF LaneOK
    <3> QED
      BY <3>2 DEF Stage
  <2>3. Lanes[l].tid \in Tids
    BY LaneTypes
  <2> QED
    BY <1>1, <2>1, <2>2, <2>3 DEF Events, RawEvent
<1>3. ring' = Append(ring, e) /\ Len(ring) < RingCap /\ st' = st
  BY DEF ProbeRecords
<1> HIDE DEF e
<1>4. PICK T, k : T = Seen /\ k = KeyAt
  OBVIOUS
<1>5. PICK U, j : U = Seen' /\ j = KeyAt'
  OBVIOUS
<1>6. T \subseteq U /\ \A t \in T : j[t] = k[t]
  BY <1>1, <1>4, <1>5 DEF Grows
<1>7. ring \in Seq(Events(T, k)) /\ Sound(st, T, k)
  BY <1>4 DEF DataOK
<1>8. Sound(st, U, j)
  BY <1>6, <1>7, SoundGrows
<1>9. ring' \in Seq(Events(U, j)) /\ Len(ring') <= RingCap
  <2>1. Events(T, k) \subseteq Events(U, j)
    BY <1>6, EventsGrow
  <2>2. ring \in Seq(Events(U, j)) /\ e \in Events(U, j)
    BY <1>2, <1>5, <1>7, <2>1
  <2> QED
    BY <1>3, <2>2, RingAssumption
<1>10. DataOK'
  BY <1>3, <1>5, <1>8, <1>9 DEF DataOK
<1> QED
  BY <1>1, <1>10

LEMMA DropsStep ==
  ASSUME TargetOK, DataOK, NEW l \in DOMAIN Lanes, ProbeDrops(l)
  PROVE  TargetOK' /\ DataOK'
<1>1. /\ lane[l].ts # 0 /\ owner' = owner /\ lost' = lost \cup {lane[l].ts}
      /\ lane' = [lane EXCEPT ![l] = Passed(l, lane[l].item)]
      /\ ring' = ring /\ st' = st
  BY DEF ProbeDrops, tool
<1>2. TargetOK' /\ Grows
  BY <1>1, EmitStep
<1> QED
  BY <1>1, <1>2, DataKept

\* The tool reads an event or drains; the target stands still.
LEMMA TargetStill ==
  ASSUME TargetOK, UNCHANGED <<target, lost>>
  PROVE  TargetOK' /\ Seen' = Seen /\ KeyAt' = KeyAt
<1>1. lane' = lane /\ owner' = owner /\ lost' = lost
  BY DEF target
<1> QED
  BY <1>1 DEF TargetOK, StampsOK, Seen, InFlight, KeyAt

LEMMA ConsumeStep ==
  ASSUME TargetOK, DataOK, Consume
  PROVE  DataOK'
<1>1. Seen' = Seen /\ KeyAt' = KeyAt
  BY TargetStill DEF Consume
<1>2. PICK T, k : T = Seen /\ k = KeyAt
  OBVIOUS
<1>3. /\ ring \in Seq(Events(T, k)) /\ Len(ring) <= RingCap /\ Sound(st, T, k)
      /\ T \subseteq Nat
  BY <1>2 DEF DataOK, TargetOK, Seen
<1>4. /\ ring # <<>> /\ ring' = Tail(ring) /\ st' = HandleRingEvent(st, Head(ring))
  BY DEF Consume
<1>5. /\ Head(ring) \in Events(T, k)
      /\ ring' \in Seq(Events(T, k)) /\ Len(ring') <= RingCap
  BY <1>3, <1>4, RingAssumption
<1>6. Sound(st', T, k)
  BY <1>3, <1>4, <1>5, EventSound
<1> QED
  BY <1>1, <1>2, <1>5, <1>6 DEF DataOK

LEMMA ResultsStep ==
  ASSUME TargetOK, DataOK, Results
  PROVE  DataOK'
<1>1. Seen' = Seen /\ KeyAt' = KeyAt
  BY TargetStill DEF Results
<1>2. PICK T, k : T = Seen /\ k = KeyAt
  OBVIOUS
<1>3. Sound(st, T, k)
  BY <1>2 DEF DataOK
<1>4. Sound(st', T, k) /\ ring' = ring
  BY <1>3, DrainSound DEF Results
<1> QED
  BY <1>1, <1>2, <1>4 DEF DataOK

\* main()'s own variables.
LEMMA MainStepOK ==
  ASSUME MainOK, Next
  PROVE  MainOK'
<1>1. Len(probes) \in Nat
  BY ProbesAssumption
<1>2. CASE \E l \in DOMAIN Lanes :
             \/ \E i \in NextItem(l) : ProbeStamps(l, i) \/ PassUnseen(l, i)
             \/ ProbeRecords(l) \/ ProbeDrops(l)
  <2>1. UNCHANGED <<phase, attached, links, exiting>>
    BY <1>2 DEF ProbeStamps, PassUnseen, ProbeRecords, ProbeDrops, tool
  <2> QED
    BY <2>1 DEF MainOK
<1>3. CASE Attach
  BY <1>1, <1>3 DEF Attach, MainOK
<1>4. CASE AttachFails
  BY <1>1, <1>4 DEF AttachFails, MainOK
<1>5. CASE AttachAborts \/ Results
  BY <1>5 DEF AttachAborts, Results, MainOK
<1>6. CASE Start \/ PollWakes \/ Consume \/ PollReturns \/ SigHandler
  BY <1>6 DEF Start, PollWakes, Consume, PollReturns, SigHandler, MainOK
<1> QED
  BY <1>2, <1>3, <1>4, <1>5, <1>6 DEF Next, MainStep

LEMMA LensXNext == LensXInv /\ [Next]_vars => LensXInv'
<1> SUFFICES ASSUME LensXInv, [Next]_vars PROVE LensXInv'
  OBVIOUS
<1>1. MainOK /\ TargetOK /\ DataOK
  BY DEF LensXInv
<1>2. CASE UNCHANGED vars
  <2>1. /\ UNCHANGED <<phase, attached, links, exiting>> /\ ring' = ring /\ st' = st
        /\ UNCHANGED <<target, lost>>
    BY <1>2 DEF vars, tool
  <2>2. TargetOK' /\ Seen' = Seen /\ KeyAt' = KeyAt
    BY <1>1, <2>1, TargetStill
  <2>3. MainOK'
    BY <1>1, <2>1 DEF MainOK
  <2>4. DataOK'
    BY <1>1, <2>1, <2>2 DEF DataOK
  <2> QED
    BY <2>2, <2>3, <2>4 DEF LensXInv
<1>3. CASE Next
  <2>1. MainOK'
    BY <1>1, <1>3, MainStepOK
  <2>2. ASSUME NEW l \in DOMAIN Lanes, NEW i \in NextItem(l), ProbeStamps(l, i) \/ PassUnseen(l, i)
        PROVE  TargetOK' /\ DataOK'
    <3>1. TargetOK' /\ Grows
      BY <1>1, <2>2, StampsStep, UnseenStep
    <3>2. ring' = ring /\ st' = st
      BY <2>2 DEF ProbeStamps, PassUnseen, tool
    <3> QED
      BY <1>1, <3>1, <3>2, DataKept
  <2>3. ASSUME NEW l \in DOMAIN Lanes, ProbeRecords(l) \/ ProbeDrops(l)
        PROVE  TargetOK' /\ DataOK'
    BY <1>1, <2>3, RecordsStep, DropsStep
  <2>4. ASSUME MainStep \/ SigHandler PROVE TargetOK' /\ DataOK'
    <3>1. UNCHANGED <<target, lost>>
      BY <2>4 DEF MainStep, SigHandler, Attach, AttachFails, AttachAborts, Start, PollWakes,
                  Consume, PollReturns, Results
    <3>2. TargetOK' /\ Seen' = Seen /\ KeyAt' = KeyAt
      BY <1>1, <3>1, TargetStill
    <3>3. CASE Consume \/ Results
      BY <1>1, <3>2, <3>3, ConsumeStep, ResultsStep
    <3>4. CASE ~ (Consume \/ Results)
      <4>1. ring' = ring /\ st' = st
        BY <2>4, <3>4 DEF MainStep, SigHandler, Attach, AttachFails, AttachAborts, Start,
                          PollWakes, PollReturns
      <4> QED
        BY <1>1, <3>2, <4>1 DEF DataOK
    <3> QED
      BY <3>3, <3>4
  <2>5. TargetOK' /\ DataOK'
    BY <1>3, <2>2, <2>3, <2>4 DEF Next
  <2> QED
    BY <2>1, <2>5 DEF LensXInv
<1> QED
  BY <1>2, <1>3
-----------------------------------------------------------------------------
(***************************************************************************)
(* A lost event does no harm beyond its key.  First, what one event does   *)
(* to the key matchers: each is fed once, with the state it was in.        *)
(***************************************************************************)
\* What matcher m holds is the same in t as in s.
SameAt(t, s, m) == t.recs[m] = s.recs[m] /\ t.pending[m] = s.pending[m]

\* What matcher m holds in t is what it held in s, with event e.
KeyFed(t, s, m, e) ==
  LET rec == KeyRecord(s.recs[m][e.key], e, FirstStage(matchers[m].stages))
  IN  \/ e.stage \notin MaskOf(m) /\ SameAt(t, s, m)
      \/ /\ e.stage \in MaskOf(m) /\ ~ Complete(rec, MaskOf(m))
         /\ t.recs[m] = [s.recs[m] EXCEPT ![e.key] = rec]
         /\ t.pending[m] = s.pending[m]
      \/ /\ e.stage \in MaskOf(m) /\ Complete(rec, MaskOf(m))
         /\ t.recs[m] = [s.recs[m] EXCEPT ![e.key] = ZeroRecord(MaskOf(m))]
         /\ t.pending[m] = Append(s.pending[m], Snapshot(rec, MaskOf(m)))

LEMMA ExceptFields ==
  ASSUME NEW T, NEW k, NEW s, Sound(s, T, k), NEW i \in Takers, NEW id, NEW rec, NEW snap
  PROVE  /\ LET t == [s EXCEPT !.recs[i][id] = rec]
            IN  /\ t.recs = [s.recs EXCEPT ![i] = [s.recs[i] EXCEPT ![id] = rec]]
                /\ t.pending = s.pending /\ t.fifos = s.fifos /\ t.samples = s.samples
         /\ LET t == [s EXCEPT !.recs[i][id] = rec, !.pending[i] = Append(@, snap)]
            IN  /\ t.recs = [s.recs EXCEPT ![i] = [s.recs[i] EXCEPT ![id] = rec]]
                /\ t.pending = [s.pending EXCEPT ![i] = Append(s.pending[i], snap)]
                /\ t.fifos = s.fifos /\ t.samples = s.samples
BY DEF Sound, HasFields

\* A key matcher changes its own records and groups only, and no histogram.
LEMMA KeyFeedOn ==
  ASSUME NEW T, NEW k, NEW s, Sound(s, T, k), NEW i \in KeyMs, NEW e
  PROVE  /\ KeyFed(KeyFeed(s, i, e), s, i, e)
         /\ \A m \in Takers \ {i} : SameAt(KeyFeed(s, i, e), s, m)
         /\ KeyFeed(s, i, e).samples = s.samples
<1> DEFINE mask == Mask(matchers[i].stages)
           rec  == KeyRecord(s.recs[i][e.key], e, FirstStage(matchers[i].stages))
           snap == Snapshot(rec, mask)
           none == ZeroRecord(mask)
<1>1. mask = MaskOf(i) /\ i \in Takers
  BY DEF MaskOf, Takers
<1>2. DOMAIN s.recs = Takers /\ DOMAIN s.pending = Takers
  BY DEF Sound, RecsOK, PendingOK
<1>3. CASE e.stage \notin mask
  BY <1>1, <1>3 DEF KeyFeed, KeyFed, SameAt
<1>4. CASE e.stage \in mask /\ ~ Complete(rec, mask)
  <2>1. KeyFeed(s, i, e) = [s EXCEPT !.recs[i][e.key] = rec]
    BY <1>4 DEF KeyFeed
  <2>2. PICK t : t = KeyFeed(s, i, e)
    OBVIOUS
  <2>3. PICK r : r = rec
    OBVIOUS
  <2>4. /\ t.recs = [s.recs EXCEPT ![i] = [s.recs[i] EXCEPT ![e.key] = r]]
        /\ t.pending = s.pending /\ t.samples = s.samples
    BY <1>1, <2>1, <2>2, <2>3, ExceptFields
  <2>5. /\ t.recs[i] = [s.recs[i] EXCEPT ![e.key] = r]
        /\ \A m \in Takers \ {i} : t.recs[m] = s.recs[m]
    BY <1>1, <1>2, <2>4
  <2>6. KeyFed(t, s, i, e)
    BY <1>1, <1>4, <2>3, <2>4, <2>5 DEF KeyFed
  <2> QED
    BY <2>2, <2>4, <2>5, <2>6 DEF SameAt
<1>5. CASE e.stage \in mask /\ Complete(rec, mask)
  <2>1. KeyFeed(s, i, e) = [s EXCEPT !.recs[i][e.key] = none, !.pending[i] = Append(@, snap)]
    BY <1>5 DEF KeyFeed
  <2>2. PICK t : t = KeyFeed(s, i, e)
    OBVIOUS
  <2>3. PICK z, g : z = none /\ g = snap
    OBVIOUS
  <2>4. /\ t.recs = [s.recs EXCEPT ![i] = [s.recs[i] EXCEPT ![e.key] = z]]
        /\ t.pending = [s.pending EXCEPT ![i] = Append(s.pending[i], g)]
        /\ t.samples = s.samples
    BY <1>1, <2>1, <2>2, <2>3, ExceptFields
  <2>5. /\ t.recs[i] = [s.recs[i] EXCEPT ![e.key] = z]
        /\ t.pending[i] = Append(s.pending[i], g)
        /\ \A m \in Takers \ {i} : t.recs[m] = s.recs[m] /\ t.pending[m] = s.pending[m]
    BY <1>1, <1>2, <2>4
  <2>6. KeyFed(t, s, i, e)
    BY <1>1, <1>5, <2>3, <2>5 DEF KeyFed
  <2> QED
    BY <2>2, <2>4, <2>5, <2>6 DEF SameAt
<1> QED
  BY <1>3, <1>4, <1>5

\* A seq matcher leaves the key matchers alone and counts nothing under the name
\* of a report by request.
LEMMA SeqFeedOn ==
  ASSUME KeyReportsApart, NEW T, T \subseteq Nat, NEW k, NEW s, Sound(s, T, k),
         NEW e \in Events(T, k), NEW i \in Seqs
  PROVE  /\ \A m \in KeyMs : SameAt(SeqFeed(s, i, e), s, m)
         /\ \A r \in DOMAIN SeqFeed(s, i, e).samples :
              r \in DOMAIN s.samples \/ r.name \notin KeyNames
<1> DEFINE mask == Mask(matchers[i].stages)
           rec  == SeqRecord(s.recs[i][e.tid], e, FirstStage(matchers[i].stages))
           snap == Snapshot(rec, mask)
           none == [rec EXCEPT !.filled = {}]
<1>1. mask = MaskOf(i) /\ i \in Takers /\ Ids(i) = Tids /\ i \notin KeyMs /\ KeyMs \subseteq Takers
  BY MatcherTypes DEF MaskOf, Takers
<1>2. DOMAIN s.recs = Takers /\ DOMAIN s.pending = Takers
  BY DEF Sound, RecsOK, PendingOK
<1>3. e.ts \in T /\ e.tid \in Tids
  BY DEF Events
<1>4. CASE e.stage \notin mask
  BY <1>4 DEF SeqFeed, SameAt
<1>5. CASE e.stage \in mask /\ ~ Complete(rec, mask)
  <2>1. SeqFeed(s, i, e) = [s EXCEPT !.recs[i][e.tid] = rec]
    BY <1>5 DEF SeqFeed
  <2>2. PICK t, x : t = SeqFeed(s, i, e) /\ x = rec
    OBVIOUS
  <2>3. /\ t.recs = [s.recs EXCEPT ![i] = [s.recs[i] EXCEPT ![e.tid] = x]]
        /\ t.pending = s.pending /\ t.samples = s.samples
    BY <1>1, <2>1, <2>2, ExceptFields
  <2>4. \A m \in KeyMs : t.recs[m] = s.recs[m]
    BY <1>1, <1>2, <2>3
  <2> QED
    BY <2>2, <2>3, <2>4 DEF SameAt
<1>6. CASE e.stage \in mask /\ Complete(rec, mask)
  <2>1. RecordOK(rec, i, e.tid, T, k)
    <3>1. RecordOK(s.recs[i][e.tid], i, e.tid, T, k)
      BY <1>1, <1>3 DEF Sound, RecsOK
    <3> QED
      BY <1>1, <1>3, <1>6, <3>1, RecordStep
  <2>2. snap \in Groups(i, T, k)
    BY <1>1, <1>6, <2>1, GroupStep
  <2>3. PICK x, g : x = none /\ g = snap
    OBVIOUS
  <2>4. PICK u : u = [s EXCEPT !.recs[i][e.tid] = x, !.pending[i] = Append(@, g)]
    OBVIOUS
  <2>5. SeqFeed(s, i, e) = OnComplete(u, i, g)
    BY <1>6, <2>3, <2>4 DEF SeqFeed
  <2>6. /\ u.recs = [s.recs EXCEPT ![i] = [s.recs[i] EXCEPT ![e.tid] = x]]
        /\ u.pending = [s.pending EXCEPT ![i] = Append(s.pending[i], g)]
        /\ u.fifos = s.fifos /\ u.samples = s.samples
    BY <1>1, <2>4, ExceptFields
  <2>7. HasFields(u)
    BY <2>4 DEF Sound, HasFields
  <2>8. \A m \in KeyMs : u.recs[m] = s.recs[m] /\ u.pending[m] = s.pending[m]
    BY <1>1, <1>2, <2>6
  <2>9. CASE i \notin seq_map
    BY <2>5, <2>6, <2>8, <2>9 DEF OnComplete, SameAt
  <2>10. CASE i \in seq_map
    <3> DEFINE intra == SetToBag(IntraRows(g))
               popped == SetToBag(PopRows(s.fifos, i, g))
    <3>1. PICK t : t = OnComplete(u, i, g)
      OBVIOUS
    <3>2. /\ t.recs = u.recs /\ t.pending = u.pending
          /\ t.samples = u.samples (+) SetToBag(IntraRows(g)) (+) SetToBag(PopRows(u.fifos, i, g))
      BY <2>7, <2>10, <3>1 DEF OnComplete, HasFields
    <3>3. t.samples = s.samples (+) intra (+) popped
      BY <2>6, <3>2
    <3>4. DOMAIN t.samples = DOMAIN s.samples \cup IntraRows(g) \cup PopRows(s.fifos, i, g)
      <4>1. DOMAIN intra = IntraRows(g) /\ DOMAIN popped = PopRows(s.fifos, i, g)
        BY DEF SetToBag
      <4> HIDE DEF intra, popped
      <4>2. DOMAIN (s.samples (+) intra) = DOMAIN s.samples \cup DOMAIN intra
        BY DEF (+)
      <4>3. DOMAIN (s.samples (+) intra (+) popped) = DOMAIN (s.samples (+) intra) \cup DOMAIN popped
        BY DEF (+)
      <4> QED
        BY <3>3, <4>1, <4>2, <4>3
    <3>5. \A r \in IntraRows(g) \cup PopRows(s.fifos, i, g) : r.name \notin KeyNames
      BY <2>2, <2>3, IntraRowsOK, PopRowsOK DEF Sound
    <3>6. \A r \in DOMAIN t.samples : r \in DOMAIN s.samples \/ r.name \notin KeyNames
      BY <3>4, <3>5
    <3> QED
      BY <2>5, <2>8, <3>1, <3>2, <3>6 DEF SameAt
  <2> QED
    BY <2>9, <2>10
<1> QED
  BY <1>4, <1>5, <1>6

\* Every key matcher is fed the event, once, and no report by request changes.
LEMMA EventOn ==
  ASSUME KeyReportsApart, NEW T, T \subseteq Nat, NEW k, NEW s, Sound(s, T, k),
         NEW e \in Events(T, k)
  PROVE  /\ \A m \in KeyMs : KeyFed(HandleRingEvent(s, e), s, m, e)
         /\ \A r \in DOMAIN HandleRingEvent(s, e).samples :
              r \in DOMAIN s.samples \/ r.name \notin KeyNames
<1>1. PICK f : IsFed(f, s, e) /\ HandleRingEvent(s, e) = f[Len(matchers)]
  BY HandleRingEventIs
<1>2. /\ f[0] = s /\ \A n \in 1 .. Len(matchers) : f[n] = Feed(f[n - 1], n, e)
      /\ \A n \in 0 .. Len(matchers) : Sound(f[n], T, k)
  BY <1>1, FedSound
<1>3. Len(matchers) \in Nat /\ KeyMs \subseteq 1 .. Len(matchers) /\ KeyMs \subseteq Takers
      /\ Seqs \cap KeyMs = {}
  BY MatcherTypes DEF Takers
<1> DEFINE N == Len(matchers)
           Upto(n) == /\ \A m \in KeyMs : n < m => SameAt(f[n], s, m)
                      /\ \A m \in KeyMs : m <= n => KeyFed(f[n], s, m, e)
                      /\ \A r \in DOMAIN f[n].samples :
                           r \in DOMAIN s.samples \/ r.name \notin KeyNames
           Bad == {n \in 0 .. N : ~ Upto(n)}
<1>4. Upto(0)
  BY <1>2, <1>3 DEF SameAt
<1>5. ASSUME NEW n \in 1 .. N, Upto(n - 1) PROVE Upto(n)
  <2>1. f[n] = Feed(f[n - 1], n, e) /\ Sound(f[n - 1], T, k)
    BY <1>2, <1>3
  <2>2. PICK t, u : t = f[n - 1] /\ u = f[n]
    OBVIOUS
  <2>3. u = Feed(t, n, e) /\ Sound(t, T, k)
    BY <2>1, <2>2
  <2>4. /\ \A m \in KeyMs : m # n => SameAt(u, t, m)
        /\ n \in KeyMs => KeyFed(u, t, n, e)
        /\ \A r \in DOMAIN u.samples : r \in DOMAIN t.samples \/ r.name \notin KeyNames
    <3>1. CASE n \in Seqs
      <4>1. u = SeqFeed(t, n, e) /\ n \notin KeyMs
        BY <1>3, <2>3, <3>1 DEF Feed
      <4> QED
        BY <2>3, <3>1, <4>1, SeqFeedOn
    <3>2. CASE n \in KeyMs
      <4>1. u = KeyFeed(t, n, e)
        BY <1>3, <2>3, <3>2 DEF Feed
      <4>2. /\ KeyFed(u, t, n, e) /\ u.samples = t.samples
            /\ \A m \in Takers \ {n} : SameAt(u, t, m)
        BY <2>3, <3>2, <4>1, KeyFeedOn
      <4> QED
        BY <1>3, <4>2
    <3>3. CASE n \notin Seqs /\ n \notin KeyMs
      <4>1. u = t
        BY <2>3, <3>3 DEF Feed
      <4> QED
        BY <3>3, <4>1 DEF SameAt
    <3> QED
      BY <3>1, <3>2, <3>3
  <2>5. ASSUME NEW m \in KeyMs, n < m PROVE SameAt(u, s, m)
    <3>1. SameAt(t, s, m) /\ m # n
      BY <1>3, <1>5, <2>2, <2>5
    <3> QED
      BY <2>4, <3>1 DEF SameAt
  <2>6. ASSUME NEW m \in KeyMs, m <= n PROVE KeyFed(u, s, m, e)
    <3>1. CASE m = n
      <4>1. SameAt(t, s, n)
        BY <1>3, <1>5, <2>2, <3>1
      <4> QED
        BY <2>4, <3>1, <4>1 DEF KeyFed, SameAt
    <3>2. CASE m # n
      <4>1. KeyFed(t, s, m, e)
        BY <1>3, <1>5, <2>2, <2>6, <3>2
      <4>2. SameAt(u, t, m)
        BY <2>4, <3>2
      <4> QED
        BY <4>1, <4>2 DEF KeyFed, SameAt
    <3> QED
      BY <3>1, <3>2
  <2>7. \A r \in DOMAIN u.samples : r \in DOMAIN s.samples \/ r.name \notin KeyNames
    BY <1>5, <2>2, <2>4
  <2> QED
    BY <2>2, <2>5, <2>6, <2>7
<1>6. Bad = {}
  <2> HIDE DEF Upto
  <2> SUFFICES ASSUME Bad # {} PROVE FALSE
    OBVIOUS
  <2>1. PICK n \in Bad : \A m \in Bad : n <= m
    <3>1. Bad \subseteq Nat
      BY <1>3
    <3> HIDE DEF Bad
    <3> QED
      BY <3>1, SmallestExists
  <2>2. n \in 1 .. N /\ n - 1 \in 0 .. N
    BY <1>3, <1>4
  <2>3. n - 1 \notin Bad
    <3>1. ~ (n <= n - 1)
      BY <2>2
    <3> HIDE DEF Bad
    <3> QED
      BY <2>1, <3>1
  <2> QED
    BY <1>5, <2>2, <2>3
<1>7. Upto(N)
  <2> HIDE DEF Upto
  <2> QED
    BY <1>3, <1>6
<1>8. PICK t : t = HandleRingEvent(s, e)
  OBVIOUS
<1>9. t = f[N] /\ \A m \in KeyMs : m <= N
  BY <1>1, <1>3, <1>8
<1>10. \A m \in KeyMs : KeyFed(t, s, m, e)
  BY <1>7, <1>9
<1>11. \A r \in DOMAIN t.samples : r \in DOMAIN s.samples \/ r.name \notin KeyNames
  BY <1>7, <1>9
<1> QED
  BY <1>8, <1>10, <1>11
-----------------------------------------------------------------------------
(***************************************************************************)
(* Second, how requests go through the target: one after the other, if     *)
(* they have the same key.                                                 *)
(***************************************************************************)
\* Thread l is at work on an item.
Busy(l) == lane[l].step > 1 \/ lane[l].ts # 0

\* Item i has got past the place x of thread l.
Past(i, l, x) == i \in lane[l].done \/ (lane[l].item = i /\ x < lane[l].step)

\* The stages of S each item has got past, and those of key matchers.
PassedOf(S) ==
  [i \in 1 .. Items |->
     {s \in S : \E l \in DOMAIN Lanes : \E x \in DOMAIN Lanes[l].stages :
        Lanes[l].stages[x] = s /\ Past(i, l, x)}]

Passes == PassedOf(KeyStages)

Begun(i) == \E l \in DOMAIN Lanes : i \in lane[l].done \/ (Busy(l) /\ lane[l].item = i)

\* A thread has only items all threads before it are done with, and of two
\* items with one key the second begins when the first has left.
ChainOK ==
  /\ \A l, m \in DOMAIN Lanes : l < m => lane[m].done \subseteq lane[l].done
  /\ \A l \in DOMAIN Lanes : Busy(l) =>
       /\ lane[l].item \notin lane[l].done
       /\ \A m \in DOMAIN Lanes : m < l => lane[l].item \in lane[m].done
  /\ \A i, j \in 1 .. Items : i < j /\ KeyOf[i] = KeyOf[j] /\ Begun(j) =>
       i \in lane[Len(Lanes)].done

\* Thread l may work on item i.
MayWork(l, i) ==
  /\ i \in 1 .. Items
  /\ i \notin lane[l].done
  /\ \A m \in DOMAIN Lanes : m < l => i \in lane[m].done
  /\ lane[l].step > 1 => lane[l].item = i
  /\ \A j \in 1 .. Items : j < i /\ KeyOf[j] = KeyOf[i] => j \in lane[Len(Lanes)].done

LEMMA BusyWorks ==
  ASSUME TargetOK, ChainOK, NEW l \in DOMAIN Lanes, Busy(l), lane[l].item \in 1 .. Items
  PROVE  MayWork(l, lane[l].item)
<1>1. Begun(lane[l].item)
  BY DEF Begun
<1> QED
  BY <1>1 DEF ChainOK, MayWork

LEMMA NextWorks ==
  ASSUME RequestsPassOnce, TargetOK, ChainOK, NEW l \in DOMAIN Lanes, NEW i \in NextItem(l)
  PROVE  MayWork(l, i)
<1>1. i \in 1 .. Items
  BY NextItemType
<1>2. CASE lane[l].step > 1
  <2>1. Busy(l) /\ i = lane[l].item
    BY <1>2 DEF Busy, NextItem
  <2> QED
    BY <1>1, <2>1, BusyWorks
<1>3. CASE ~ (lane[l].step > 1)
  <2>1. i \in Ready(l)
    BY <1>3 DEF NextItem
  <2>2. i \notin lane[l].done
    BY <2>1 DEF Ready
  <2>3. CASE l = 1
    <3>1. ~ KeyInUse(i)
      BY <2>1, <2>3 DEF Ready
    <3>2. \A j \in 1 .. Items : j < i /\ KeyOf[j] = KeyOf[i] => j \in lane[Len(Lanes)].done
      BY <1>1, <3>1, ItemsAssumption DEF KeyInUse, RequestsPassOnce
    <3>3. ~ \E m \in DOMAIN Lanes : m < l
      BY <2>3, LaneTypes
    <3> QED
      BY <1>1, <1>3, <2>2, <3>2, <3>3 DEF MayWork
  <2>4. CASE l # 1
    <3>1. l - 1 \in DOMAIN Lanes /\ \A m \in DOMAIN Lanes : m < l => m = l - 1 \/ m < l - 1
      BY <2>4, LaneTypes
    <3>2. i \in lane[l - 1].done
      BY <2>1, <2>4 DEF Ready
    <3>3. \A m \in DOMAIN Lanes : m < l => i \in lane[m].done
      BY <3>1, <3>2 DEF ChainOK
    <3>4. Begun(i)
      BY <3>1, <3>2 DEF Begun
    <3>5. \A j \in 1 .. Items : j < i /\ KeyOf[j] = KeyOf[i] => j \in lane[Len(Lanes)].done
      BY <1>1, <3>4 DEF ChainOK
    <3> QED
      BY <1>1, <1>3, <2>2, <3>3, <3>5 DEF MayWork
  <2> QED
    BY <2>3, <2>4
<1> QED
  BY <1>2, <1>3

\* An item that has got past anything has begun, and one with the same key
\* before it has got past everything.
LEMMA PassesInTurn ==
  ASSUME RequestsPassOnce, TargetOK, ChainOK, NEW j \in 1 .. Items,
         Begun(j) \/ Passes[j] # {}
  PROVE  /\ Begun(j)
         /\ \A i \in 1 .. Items : i < j /\ KeyOf[i] = KeyOf[j] => Passes[i] = KeyStages
<1>1. Begun(j)
  <2>1. CASE Begun(j)
    BY <2>1
  <2>2. CASE Passes[j] # {}
    <3>1. PICK l \in DOMAIN Lanes : \E x \in DOMAIN Lanes[l].stages : Past(j, l, x)
      BY <2>2 DEF Passes, PassedOf
    <3>2. PICK x \in DOMAIN Lanes[l].stages : Past(j, l, x)
      BY <3>1
    <3>3. x \in Nat /\ x >= 1 /\ lane[l].step \in Nat
      BY LaneTypes DEF TargetOK, LaneOK
    <3> QED
      BY <3>2, <3>3 DEF Past, Begun, Busy
  <2> QED
    BY <2>1, <2>2
<1>2. ASSUME NEW i \in 1 .. Items, i < j, KeyOf[i] = KeyOf[j] PROVE Passes[i] = KeyStages
  <2>1. i \in lane[Len(Lanes)].done
    BY <1>1, <1>2 DEF ChainOK
  <2>2. \A l \in DOMAIN Lanes : i \in lane[l].done
    <3> SUFFICES ASSUME NEW l \in DOMAIN Lanes PROVE i \in lane[l].done
      OBVIOUS
    <3>1. Len(Lanes) \in DOMAIN Lanes /\ (l = Len(Lanes) \/ l < Len(Lanes))
      BY LaneTypes
    <3> QED
      BY <2>1, <3>1 DEF ChainOK
  <2>3. ASSUME NEW s \in KeyStages PROVE s \in Passes[i]
    <3>1. PICK l \in DOMAIN Lanes : s \in Mask(Lanes[l].stages)
      BY DEF RequestsPassOnce
    <3>2. PICK x \in DOMAIN Lanes[l].stages : Lanes[l].stages[x] = s
      BY <3>1 DEF Mask
    <3> QED
      BY <2>2, <3>2 DEF Passes, PassedOf, Past
  <2> QED
    BY <2>3 DEF Passes, PassedOf
<1> QED
  BY <1>1, <1>2

\* Thread l goes on with item i, which is then in its hands or behind it.
LEMMA ChainStep ==
  ASSUME TargetOK, ChainOK, NEW l \in DOMAIN Lanes, NEW i, MayWork(l, i),
         Busy(l) => lane[l].item = i,
         NEW x, lane'[l] = x, \A m \in DOMAIN Lanes \ {l} : lane'[m] = lane[m],
         x.done = lane[l].done \/ x.done = lane[l].done \cup {i},
         x.step > 1 \/ x.ts # 0 => x.item = i /\ x.done = lane[l].done,
         i \in x.done \/ ((x.step > 1 \/ x.ts # 0) /\ x.item = i)
  PROVE  ChainOK' /\ Begun(i)' /\ \A j : Begun(j) => Begun(j)'
<1>1. /\ \A m \in DOMAIN Lanes : lane[m].done \subseteq lane'[m].done
      /\ \A m \in DOMAIN Lanes : lane'[m].done \subseteq lane[m].done \cup {i}
      /\ \A m \in DOMAIN Lanes \ {l} : lane'[m].done = lane[m].done
  OBVIOUS
<1>2. \A m \in DOMAIN Lanes : Busy(m)' => IF m = l THEN lane'[m].item = i ELSE Busy(m)
  BY DEF Busy
<1>3. \A j : Begun(j)' => Begun(j) \/ j = i
  BY <1>1, <1>2 DEF Begun, Busy
<1>4. Begun(i)'
  BY DEF Begun, Busy
<1>5. ASSUME NEW j, Begun(j) PROVE Begun(j)'
  <2>1. PICK m \in DOMAIN Lanes : j \in lane[m].done \/ (Busy(m) /\ lane[m].item = j)
    BY <1>5 DEF Begun
  <2>2. CASE j \in lane[m].done
    BY <1>1, <2>2 DEF Begun
  <2>3. CASE Busy(m) /\ lane[m].item = j /\ m = l
    BY <1>4, <2>3
  <2>4. CASE Busy(m) /\ lane[m].item = j /\ m # l
    BY <2>4 DEF Begun, Busy
  <2> QED
    BY <2>1, <2>2, <2>3, <2>4
<1>6. ASSUME NEW m \in DOMAIN Lanes, NEW n \in DOMAIN Lanes, m < n
      PROVE  lane'[n].done \subseteq lane'[m].done
  <2>1. lane[n].done \subseteq lane[m].done
    BY <1>6 DEF ChainOK
  <2>2. CASE n = l
    <3>1. i \in lane[m].done
      BY <1>6, <2>2 DEF MayWork
    <3> QED
      BY <1>1, <2>1, <3>1
  <2>3. CASE n # l
    BY <1>1, <2>1, <2>3
  <2> QED
    BY <2>2, <2>3
<1>7. ASSUME NEW m \in DOMAIN Lanes, Busy(m)'
      PROVE  /\ lane'[m].item \notin lane'[m].done
             /\ \A n \in DOMAIN Lanes : n < m => lane'[m].item \in lane'[n].done
  <2>1. CASE m = l
    <3>1. lane'[m].item = i /\ lane'[m].done = lane[m].done
      BY <1>7, <2>1 DEF Busy
    <3> QED
      BY <1>1, <2>1, <3>1 DEF MayWork
  <2>2. CASE m # l
    <3>1. Busy(m) /\ lane'[m] = lane[m]
      BY <1>2, <1>7, <2>2
    <3>2. /\ lane[m].item \notin lane[m].done
          /\ \A n \in DOMAIN Lanes : n < m => lane[m].item \in lane[n].done
      BY <3>1 DEF ChainOK
    <3> QED
      BY <1>1, <3>1, <3>2
  <2> QED
    BY <2>1, <2>2
<1>8. ASSUME NEW a \in 1 .. Items, NEW b \in 1 .. Items, a < b, KeyOf[a] = KeyOf[b], Begun(b)'
      PROVE  a \in lane'[Len(Lanes)].done
  <2>1. a \in lane[Len(Lanes)].done
    BY <1>3, <1>8 DEF ChainOK, MayWork
  <2>2. Len(Lanes) \in DOMAIN Lanes
    BY LaneTypes
  <2> QED
    BY <1>1, <2>1, <2>2
<1>9. ChainOK'
  BY <1>6, <1>7, <1>8 DEF ChainOK
<1> QED
  BY <1>4, <1>5, <1>9

\* Thread l works on item i, which is not behind it yet.
AtWork(l, i) ==
  i \in 1 .. Items /\ i \notin lane[l].done /\ (lane[l].step > 1 => lane[l].item = i)

\* A BPF program that has taken the time has not got past anything yet.
LEMMA PassedStill ==
  ASSUME NEW S, TargetOK, NEW l \in DOMAIN Lanes, NEW i, AtWork(l, i),
         lane'[l].done = lane[l].done, lane'[l].step = lane[l].step, lane'[l].item = i,
         \A m \in DOMAIN Lanes \ {l} : lane'[m] = lane[m]
  PROVE  PassedOf(S)' = PassedOf(S)
<1>1. ASSUME NEW j, NEW m \in DOMAIN Lanes, NEW x \in DOMAIN Lanes[m].stages
      PROVE  Past(j, m, x)' <=> Past(j, m, x)
  <2>1. CASE m # l
    BY <2>1 DEF Past
  <2>2. CASE m = l
    <3>1. x \in Nat /\ x >= 1 /\ lane[l].step \in Nat
      <4>1. Lanes[m].stages \in Seq(Nat) /\ LaneOK(lane[l], l)
        BY LaneTypes DEF TargetOK
      <4> QED
        BY <4>1 DEF LaneOK
    <3>2. x < lane[l].step => lane[l].item = i
      BY <3>1 DEF AtWork
    <3> QED
      BY <2>2, <3>2 DEF Past
  <2> QED
    BY <2>1, <2>2
<1> QED
  BY <1>1 DEF PassedOf

\* An item that passes a place has got past one stage more, and no other has.
LEMMA PassedOne ==
  ASSUME NEW S, PlacedOnce(S), TargetOK, NEW l \in DOMAIN Lanes, NEW i, AtWork(l, i),
         lane'[l] = Passed(l, i), \A m \in DOMAIN Lanes \ {l} : lane'[m] = lane[m]
  PROVE  /\ Stage(l) \notin PassedOf(S)[i]
         /\ PassedOf(S)' = [PassedOf(S) EXCEPT ![i] = PassedOf(S)[i] \cup ({Stage(l)} \cap S)]
<1> DEFINE z == lane[l].step
<1>1. LaneOK(lane[l], l) /\ Len(Lanes[l].stages) \in Nat \ {0} /\ Lanes[l].stages \in Seq(Nat)
  BY LaneTypes DEF TargetOK
<1>2. /\ z \in DOMAIN Lanes[l].stages /\ z \in Nat \ {0} /\ Stage(l) = Lanes[l].stages[z]
      /\ \A x \in DOMAIN Lanes[l].stages : x \in Nat \ {0} /\ x <= Len(Lanes[l].stages)
  BY <1>1 DEF LaneOK, Stage
<1>3. i \in 1 .. Items /\ i \in Nat \ {0} /\ i \notin lane[l].done /\ (z > 1 => lane[l].item = i)
  BY ItemsAssumption DEF AtWork
<1>4. ASSUME NEW j \in 1 .. Items, NEW x \in DOMAIN Lanes[l].stages
      PROVE  Past(j, l, x)' <=> Past(j, l, x) \/ (j = i /\ x = z)
  <2>1. j # 0 /\ x \in Nat \ {0} /\ x <= Len(Lanes[l].stages)
    BY <1>2, ItemsAssumption
  <2>2. Past(j, l, x) <=> j \in lane[l].done \/ (j = i /\ x < z)
    BY <1>2, <1>3, <2>1 DEF Past
  <2>3. CASE z = Len(Lanes[l].stages)
    <3>1. lane'[l] = [item |-> 0, step |-> 1, ts |-> 0, done |-> lane[l].done \cup {i}]
      BY <2>3 DEF Passed
    <3>2. Past(j, l, x)' <=> j \in lane[l].done \/ j = i
      BY <2>1, <3>1 DEF Past
    <3> QED
      BY <1>2, <2>1, <2>2, <2>3, <3>2
  <2>4. CASE z # Len(Lanes[l].stages)
    <3>1. lane'[l] = [lane[l] EXCEPT !.item = i, !.step = z + 1, !.ts = 0]
      BY <2>4 DEF Passed
    <3>2. lane'[l].item = i /\ lane'[l].step = z + 1 /\ lane'[l].done = lane[l].done
      BY <1>1, <3>1 DEF LaneOK
    <3>3. Past(j, l, x)' <=> j \in lane[l].done \/ (j = i /\ x < z + 1)
      BY <3>2 DEF Past
    <3> QED
      BY <1>2, <2>1, <2>2, <3>3
  <2> QED
    BY <2>3, <2>4
<1>5. \A j, m, x : m \in DOMAIN Lanes \ {l} => (Past(j, m, x)' <=> Past(j, m, x))
  BY DEF Past
<1>6. ASSUME NEW j \in 1 .. Items, NEW s \in S
      PROVE  s \in PassedOf(S)'[j] <=> s \in PassedOf(S)[j] \/ (j = i /\ s = Stage(l))
  <2>1. s \in PassedOf(S)[j] <=>
          \E m \in DOMAIN Lanes : \E x \in DOMAIN Lanes[m].stages :
            Lanes[m].stages[x] = s /\ Past(j, m, x)
    BY DEF PassedOf
  <2>2. s \in PassedOf(S)'[j] <=>
          \E m \in DOMAIN Lanes : \E x \in DOMAIN Lanes[m].stages :
            Lanes[m].stages[x] = s /\ Past(j, m, x)'
    BY DEF PassedOf
  <2> QED
    BY <1>2, <1>4, <1>5, <2>1, <2>2
<1>7. Stage(l) \notin PassedOf(S)[i]
  <2> SUFFICES ASSUME Stage(l) \in PassedOf(S)[i] PROVE FALSE
    OBVIOUS
  <2>1. Stage(l) \in S
    BY <1>3 DEF PassedOf
  <2>2. PICK m \in DOMAIN Lanes : \E x \in DOMAIN Lanes[m].stages :
          Lanes[m].stages[x] = Stage(l) /\ Past(i, m, x)
    BY <1>3 DEF PassedOf
  <2>3. PICK x \in DOMAIN Lanes[m].stages : Lanes[m].stages[x] = Stage(l) /\ Past(i, m, x)
    BY <2>2
  <2>4. m = l /\ x = z
    BY <1>2, <2>1, <2>3 DEF PlacedOnce
  <2> QED
    BY <1>2, <1>3, <2>3, <2>4 DEF Past
<1>8. /\ DOMAIN PassedOf(S) = 1 .. Items /\ PassedOf(S)' = [j \in 1 .. Items |-> PassedOf(S)'[j]]
      /\ \A j \in 1 .. Items : PassedOf(S)[j] \subseteq S /\ PassedOf(S)'[j] \subseteq S
  BY DEF PassedOf
<1>9. \A j \in 1 .. Items :
        PassedOf(S)'[j] = IF j = i THEN PassedOf(S)[i] \cup ({Stage(l)} \cap S) ELSE PassedOf(S)[j]
  BY <1>6, <1>8
<1>10. PICK p, q, w : p = PassedOf(S) /\ q = PassedOf(S)' /\ w = PassedOf(S)[i] \cup ({Stage(l)} \cap S)
  OBVIOUS
<1>11. q = [p EXCEPT ![i] = w]
  BY <1>3, <1>8, <1>9, <1>10
<1> QED
  BY <1>7, <1>10, <1>11

LEMMA PassesStill ==
  ASSUME TargetOK, NEW l \in DOMAIN Lanes, NEW i, MayWork(l, i),
         lane'[l].done = lane[l].done, lane'[l].step = lane[l].step, lane'[l].item = i,
         \A m \in DOMAIN Lanes \ {l} : lane'[m] = lane[m]
  PROVE  Passes' = Passes
<1>1. AtWork(l, i)
  BY DEF MayWork, AtWork
<1>2. PICK S : S = KeyStages
  OBVIOUS
<1>3. PassedOf(S)' = PassedOf(S)
  BY <1>1, PassedStill
<1> QED
  BY <1>2, <1>3 DEF Passes

LEMMA PassesOne ==
  ASSUME RequestsPassOnce, TargetOK, NEW l \in DOMAIN Lanes, NEW i, MayWork(l, i),
         lane'[l] = Passed(l, i), \A m \in DOMAIN Lanes \ {l} : lane'[m] = lane[m]
  PROVE  /\ Stage(l) \notin Passes[i]
         /\ Passes' = [Passes EXCEPT ![i] = Passes[i] \cup ({Stage(l)} \cap KeyStages)]
<1>1. AtWork(l, i)
  BY DEF MayWork, AtWork
<1>2. PICK S : S = KeyStages
  OBVIOUS
<1>3. PlacedOnce(S)
  BY <1>2 DEF RequestsPassOnce
<1>4. /\ Stage(l) \notin PassedOf(S)[i]
      /\ PassedOf(S)' = [PassedOf(S) EXCEPT ![i] = PassedOf(S)[i] \cup ({Stage(l)} \cap S)]
  BY <1>1, <1>3, PassedOne
<1> QED
  BY <1>2, <1>4 DEF Passes
-----------------------------------------------------------------------------
(***************************************************************************)
(* Third, the way of the events through the ring buffer r.  o[t] is the    *)
(* item of the event with timestamp t and E[i] the stages item i has got   *)
(* past.                                                                   *)
(***************************************************************************)
QueuedOf(r, o, i) == {r[n].stage : n \in {p \in DOMAIN r : o[r[p].ts] = i}}

\* The events of item i that matcher m has been fed, if none was lost.
FedTo(r, o, E, m, i) == (E[i] \cap MaskOf(m)) \ QueuedOf(r, o, i)

ItemsOf(key) == {i \in 1 .. Items : KeyOf[i] = key}

Owned(T, k, o) == \A t \in T : o[t] \in 1 .. Items /\ k[t] = KeyOf[o[t]]

\* No stage of an item is in the ring buffer twice, and of two items with one
\* key the first is read first.
QueueOK(r, o, E) ==
  /\ \A n \in DOMAIN r : r[n].stage \in KeyStages => r[n].stage \in E[o[r[n].ts]]
  /\ \A n, p \in DOMAIN r : n < p =>
       /\ r[n].key = r[p].key => o[r[n].ts] <= o[r[p].ts]
       /\ o[r[n].ts] = o[r[p].ts] /\ r[n].stage = r[p].stage => r[n].stage \notin KeyStages

OfItem(rec, o, i) == \A g \in rec.filled : o[rec.ts[g]] = i
HasFed(rec, r, o, E, m, i) == FedTo(r, o, E, m, i) = rec.filled

\* What matcher m holds for a key no event of which was lost: nothing, or what
\* it has been fed of one item.  An item is fed after those with the same key
\* before it.
CleanOK(rec, m, key, r, o, E) ==
  /\ rec.filled = MaskOf(m) => MaskOf(m) = {}
  /\ \A i \in ItemsOf(key) :
       \/ FedTo(r, o, E, m, i) = {} \/ FedTo(r, o, E, m, i) = MaskOf(m)
       \/ FedTo(r, o, E, m, i) = rec.filled /\ OfItem(rec, o, i)
  /\ rec.filled # {} =>
       \E i \in ItemsOf(key) : FedTo(r, o, E, m, i) = rec.filled /\ OfItem(rec, o, i)
  /\ \A i, c \in ItemsOf(key) : i < c /\ FedTo(r, o, E, m, c) # {} =>
       QueuedOf(r, o, i) \cap MaskOf(m) = {}

LEMMA KeyStagesOf == \A m \in KeyMs : MaskOf(m) \subseteq KeyStages
BY DEF KeyStages, MaskOf

\* Queue r is e followed by queue q.
Front(r, e, q) ==
  /\ Len(r) \in Nat \ {0} /\ DOMAIN r = 1 .. Len(r) /\ DOMAIN q = 1 .. Len(r) - 1
  /\ e = r[1] /\ \A n \in DOMAIN q : q[n] = r[n + 1]

\* One event of item i more is in queue q than in r.
OneQueued(q, r, o, i, stage) ==
  /\ \A j : j # i => QueuedOf(q, o, j) = QueuedOf(r, o, j)
  /\ QueuedOf(q, o, i) = QueuedOf(r, o, i) \cup {stage}

\* What is queued, apart from the event at the front.
LEMMA QueuedTail ==
  ASSUME NEW o, NEW r, NEW e, NEW q, Front(r, e, q), NEW i, i = o[e.ts]
  PROVE  OneQueued(r, q, o, i, e.stage)
<1>1. /\ Len(r) \in Nat \ {0} /\ DOMAIN r = 1 .. Len(r) /\ DOMAIN q = 1 .. Len(r) - 1
      /\ e = r[1] /\ \A n \in DOMAIN q : q[n] = r[n + 1]
  BY DEF Front
<1>2. \A n \in DOMAIN q : n + 1 \in DOMAIN r /\ 1 < n + 1 /\ 1 \in DOMAIN r
  BY <1>1
<1>3. \A n \in DOMAIN r : n = 1 \/ (n - 1 \in DOMAIN q /\ q[n - 1] = r[n])
  BY <1>1
<1>4. ASSUME NEW j, NEW s
      PROVE  s \in QueuedOf(r, o, j) <=> s \in QueuedOf(q, o, j) \/ (j = i /\ s = e.stage)
  <2>1. s \in QueuedOf(r, o, j) <=> \E n \in DOMAIN r : o[r[n].ts] = j /\ r[n].stage = s
    BY DEF QueuedOf
  <2>2. s \in QueuedOf(q, o, j) <=> \E n \in DOMAIN q : o[q[n].ts] = j /\ q[n].stage = s
    BY DEF QueuedOf
  <2>3. ASSUME s \in QueuedOf(r, o, j)
        PROVE  s \in QueuedOf(q, o, j) \/ (j = i /\ s = e.stage)
    <3>1. PICK n \in DOMAIN r : o[r[n].ts] = j /\ r[n].stage = s
      BY <2>1, <2>3
    <3> QED
      BY <1>1, <1>3, <2>2, <3>1
  <2>4. ASSUME s \in QueuedOf(q, o, j) PROVE s \in QueuedOf(r, o, j)
    <3>1. PICK n \in DOMAIN q : o[q[n].ts] = j /\ q[n].stage = s
      BY <2>2, <2>4
    <3> QED
      BY <1>1, <1>2, <2>1, <3>1
  <2>5. ASSUME j = i, s = e.stage PROVE s \in QueuedOf(r, o, j)
    BY <1>1, <2>1, <2>5
  <2> QED
    BY <2>3, <2>4, <2>5
<1>5. ASSUME NEW j, j # i PROVE QueuedOf(q, o, j) = QueuedOf(r, o, j)
  <2>1. \A s : s \in QueuedOf(r, o, j) <=> s \in QueuedOf(q, o, j)
    BY <1>4, <1>5
  <2> QED
    BY <2>1
<1>6. QueuedOf(r, o, i) = QueuedOf(q, o, i) \cup {e.stage}
  BY <1>4
<1> QED
  BY <1>5, <1>6 DEF OneQueued

\* The event at the front is taken out.
LEMMA QueueTail ==
  ASSUME NEW o, NEW r, NEW E, QueueOK(r, o, E), NEW e, NEW q, Front(r, e, q)
  PROVE  /\ QueueOK(q, o, E)
         /\ \A j : j # o[e.ts] => QueuedOf(q, o, j) = QueuedOf(r, o, j)
         /\ QueuedOf(r, o, o[e.ts]) = QueuedOf(q, o, o[e.ts]) \cup {e.stage}
         /\ e.stage \in KeyStages =>
              e.stage \notin QueuedOf(q, o, o[e.ts]) /\ e.stage \in E[o[e.ts]]
<1>2. /\ Len(r) \in Nat \ {0} /\ DOMAIN r = 1 .. Len(r) /\ DOMAIN q = 1 .. Len(r) - 1
      /\ e = r[1] /\ \A n \in DOMAIN q : q[n] = r[n + 1]
  BY DEF Front
<1>3. \A n \in DOMAIN q : n + 1 \in DOMAIN r /\ 1 < n + 1 /\ 1 \in DOMAIN r
  BY <1>2
<1>4. \A n \in DOMAIN r : n = 1 \/ (n - 1 \in DOMAIN q /\ q[n - 1] = r[n])
  BY <1>2
<1>5. QueueOK(q, o, E)
  <2>1. ASSUME NEW n \in DOMAIN q
        PROVE  q[n].stage \in KeyStages => q[n].stage \in E[o[q[n].ts]]
    BY <1>2, <1>3 DEF QueueOK
  <2>2. ASSUME NEW n \in DOMAIN q, NEW p \in DOMAIN q, n < p
        PROVE  /\ q[n].key = q[p].key => o[q[n].ts] <= o[q[p].ts]
               /\ o[q[n].ts] = o[q[p].ts] /\ q[n].stage = q[p].stage =>
                    q[n].stage \notin KeyStages
    <3>1. PICK a \in DOMAIN r, b \in DOMAIN r : a = n + 1 /\ b = p + 1
      BY <1>3
    <3>2. a < b /\ q[n] = r[a] /\ q[p] = r[b]
      BY <1>2, <2>2, <3>1
    <3> QED
      BY <3>2 DEF QueueOK
  <2> QED
    BY <2>1, <2>2 DEF QueueOK
<1>7. ASSUME e.stage \in KeyStages, e.stage \in QueuedOf(q, o, o[e.ts]) PROVE FALSE
  <2>1. PICK n \in DOMAIN q : o[q[n].ts] = o[e.ts] /\ q[n].stage = e.stage
    BY <1>7 DEF QueuedOf
  <2>2. PICK a \in DOMAIN r, b \in DOMAIN r : a = 1 /\ b = n + 1
    BY <1>3
  <2>3. a < b /\ e = r[a] /\ q[n] = r[b]
    BY <1>2, <1>3, <2>2
  <2> QED
    BY <1>7, <2>1, <2>3 DEF QueueOK
<1>8. e.stage \in KeyStages => e.stage \in E[o[e.ts]]
  BY <1>2 DEF QueueOK
<1>9. PICK i : i = o[e.ts]
  OBVIOUS
<1>10. OneQueued(r, q, o, i, e.stage)
  BY <1>9, QueuedTail
<1> QED
  BY <1>5, <1>7, <1>8, <1>9, <1>10 DEF OneQueued

\* It is for another key, or no stage of matcher m: nothing changes for m and
\* the key.
LEMMA CleanOther ==
  ASSUME NEW T, NEW k, NEW o, Owned(T, k, o), NEW r \in Seq(Events(T, k)), r # <<>>,
         NEW E \in [1 .. Items -> SUBSET KeyStages], QueueOK(r, o, E),
         NEW m \in KeyMs, NEW key, Head(r).key # key \/ Head(r).stage \notin MaskOf(m),
         NEW rec, CleanOK(rec, m, key, r, o, E)
  PROVE  CleanOK(rec, m, key, Tail(r), o, E)
<1>1. PICK q, e : q = Tail(r) /\ e = Head(r)
  OBVIOUS
<1>2. Front(r, e, q)
  BY <1>1 DEF Front
<1>3. /\ \A j : j # o[e.ts] => QueuedOf(q, o, j) = QueuedOf(r, o, j)
      /\ QueuedOf(r, o, o[e.ts]) = QueuedOf(q, o, o[e.ts]) \cup {e.stage}
  BY <1>2, QueueTail
<1>4. e \in Events(T, k)
  BY <1>1
<1>5. KeyOf[o[e.ts]] = e.key
  BY <1>4 DEF Owned, Events
<1>6. \A j \in ItemsOf(key) : QueuedOf(q, o, j) \cap MaskOf(m) = QueuedOf(r, o, j) \cap MaskOf(m)
  BY <1>1, <1>3, <1>5 DEF ItemsOf
<1>7. \A j \in ItemsOf(key) : FedTo(q, o, E, m, j) = FedTo(r, o, E, m, j)
  BY <1>6 DEF FedTo
<1>8. CleanOK(rec, m, key, q, o, E)
  BY <1>6, <1>7 DEF CleanOK
<1> QED
  BY <1>1, <1>8

\* An item is not behind one with the same key whose event is at the front.
LEMMA FrontIsFirst ==
  ASSUME NEW T, NEW k, NEW o, Owned(T, k, o), NEW r \in Seq(Events(T, k)), r # <<>>,
         NEW E, QueueOK(r, o, E), NEW a \in ItemsOf(Head(r).key), QueuedOf(Tail(r), o, a) # {}
  PROVE  o[Head(r).ts] <= a
<1>1. PICK q, e : q = Tail(r) /\ e = Head(r)
  OBVIOUS
<1>2. /\ Len(r) \in Nat \ {0} /\ DOMAIN r = 1 .. Len(r) /\ DOMAIN q = 1 .. Len(r) - 1
      /\ e = r[1] /\ \A n \in DOMAIN q : q[n] = r[n + 1]
  BY <1>1
<1>3. PICK n \in DOMAIN q : o[q[n].ts] = a
  BY <1>1 DEF QueuedOf
<1>4. PICK x \in DOMAIN r, y \in DOMAIN r : x = 1 /\ y = n + 1
  BY <1>2
<1>5. x < y /\ e = r[x] /\ q[n] = r[y]
  BY <1>2, <1>4
<1>6. r[y] \in Events(T, k)
  OBVIOUS
<1>7. r[y].key = KeyOf[a]
  BY <1>3, <1>5, <1>6 DEF Events, Owned
<1>8. r[x].key = r[y].key
  BY <1>1, <1>5, <1>7 DEF ItemsOf
<1> QED
  BY <1>1, <1>3, <1>5, <1>8 DEF QueueOK

LEMMA KeyRecordFields ==
  ASSUME NEW i, NEW rec \in Records(i), NEW e, e.stage \in MaskOf(i), e.ts \in Nat, e.tid \in Tids,
         NEW first
  PROVE  /\ KeyRecord(rec, e, first).ts[e.stage] = e.ts
         /\ \A g \in MaskOf(i) \ {e.stage} : KeyRecord(rec, e, first).ts[g] = rec.ts[g]
         /\ KeyRecord(rec, e, first).filled = rec.filled \cup {e.stage}
<1> DEFINE key == [rec EXCEPT !.tid = e.tid]
<1>1. key \in Records(i) /\ key.ts = rec.ts /\ key.filled = rec.filled
  BY DEF Records
<1> HIDE DEF key
<1>2. /\ Fill(key, e).ts = [rec.ts EXCEPT ![e.stage] = e.ts]
      /\ Fill(key, e).filled = rec.filled \cup {e.stage}
  BY <1>1, FillFields
<1>3. /\ Fill(rec, e).ts = [rec.ts EXCEPT ![e.stage] = e.ts]
      /\ Fill(rec, e).filled = rec.filled \cup {e.stage}
  BY FillFields
<1>4. rec.ts \in [MaskOf(i) -> Nat]
  BY DEF Records
<1>5. KeyRecord(rec, e, first) = Fill(key, e) \/ KeyRecord(rec, e, first) = Fill(rec, e)
  BY DEF KeyRecord, key
<1>6. PICK new : new = KeyRecord(rec, e, first)
  OBVIOUS
<1>7. new.ts = [rec.ts EXCEPT ![e.stage] = e.ts] /\ new.filled = rec.filled \cup {e.stage}
  BY <1>2, <1>3, <1>5, <1>6
<1> QED
  BY <1>4, <1>6, <1>7

\* It is an event of the key and of a stage of m: what m holds is of the same
\* item, and so is the group if it is now complete.
LEMMA CleanOwn ==
  ASSUME NEW T, T \subseteq Nat, NEW k, NEW o, Owned(T, k, o),
         NEW r \in Seq(Events(T, k)), r # <<>>,
         NEW E \in [1 .. Items -> SUBSET KeyStages], QueueOK(r, o, E),
         NEW m \in KeyMs, Head(r).stage \in MaskOf(m),
         NEW rec, RecordOK(rec, m, Head(r).key, T, k), CleanOK(rec, m, Head(r).key, r, o, E),
         \A c \in ItemsOf(Head(r).key) : c < o[Head(r).ts] => MaskOf(m) \subseteq E[c],
         NEW first, NEW new, new = KeyRecord(rec, Head(r), first)
  PROVE  /\ ~ Complete(new, MaskOf(m)) => CleanOK(new, m, Head(r).key, Tail(r), o, E)
         /\ Complete(new, MaskOf(m)) =>
              CleanOK(ZeroRecord(MaskOf(m)), m, Head(r).key, Tail(r), o, E)
         /\ OfItem(new, o, o[Head(r).ts]) /\ HasFed(new, Tail(r), o, E, m, o[Head(r).ts])
<1>1. PICK q, e : q = Tail(r) /\ e = Head(r)
  OBVIOUS
<1>2. PICK i, key, mask : i = o[e.ts] /\ key = e.key /\ mask = MaskOf(m)
  OBVIOUS
<1> DEFINE F(j) == FedTo(r, o, E, m, j)
           G(j) == FedTo(q, o, E, m, j)
<1>3. /\ \A j : j # i => QueuedOf(q, o, j) = QueuedOf(r, o, j)
      /\ QueuedOf(r, o, i) = QueuedOf(q, o, i) \cup {e.stage}
      /\ e.stage \notin QueuedOf(q, o, i) /\ e.stage \in E[i] /\ e.stage \in mask
  <2>1. e.stage \in KeyStages
    BY <1>1, KeyStagesOf
  <2>2. Front(r, e, q)
    BY <1>1 DEF Front
  <2>3. \A j : j # o[e.ts] => QueuedOf(q, o, j) = QueuedOf(r, o, j)
    BY <2>2, QueueTail
  <2>4. QueuedOf(r, o, o[e.ts]) = QueuedOf(q, o, o[e.ts]) \cup {e.stage}
    BY <2>2, QueueTail
  <2>5. e.stage \notin QueuedOf(q, o, o[e.ts]) /\ e.stage \in E[o[e.ts]]
    BY <2>1, <2>2, QueueTail
  <2> QED
    BY <1>1, <1>2, <2>3, <2>4, <2>5
<1>4. e \in Events(T, k) /\ e.ts \in Nat /\ e.tid \in Tids
  <2>1. e \in Events(T, k)
    BY <1>1
  <2> QED
    BY <2>1 DEF Events
<1>5. i \in ItemsOf(key)
  BY <1>2, <1>4 DEF Events, Owned, ItemsOf
<1>6. /\ e.stage \notin F(i) /\ G(i) = F(i) \cup {e.stage}
      /\ \A j : j # i => G(j) = F(j)
  BY <1>2, <1>3 DEF FedTo
<1>7. rec \in Records(m) /\ rec.ts \in [mask -> Nat] /\ rec.filled \subseteq mask
  BY <1>2 DEF RecordOK, Records
<1>8. CleanOK(rec, m, key, r, o, E)
  BY <1>1, <1>2
<1>9. F(i) = rec.filled /\ OfItem(rec, o, i)
  <2>1. CASE rec.filled = {}
    BY <1>2, <1>3, <1>5, <1>6, <1>8, <2>1 DEF CleanOK, OfItem
  <2>2. CASE rec.filled # {}
    <3>1. PICK c \in ItemsOf(key) : F(c) = rec.filled /\ OfItem(rec, o, c)
      BY <1>8, <2>2 DEF CleanOK
    <3>2. i \in Int /\ c \in Int
      BY <1>5, ItemsAssumption DEF ItemsOf
    <3>3. CASE c < i
      <4>1. mask \subseteq E[c]
        BY <1>1, <1>2, <3>1, <3>3
      <4>2. F(c) # mask
        BY <1>2, <1>3, <1>8, <3>1 DEF CleanOK
      <4>3. QueuedOf(r, o, c) # {}
        BY <1>2, <4>1, <4>2 DEF FedTo
      <4>4. QueuedOf(q, o, c) # {}
        BY <1>3, <3>2, <3>3, <4>3
      <4>5. i <= c
        BY <1>1, <1>2, <3>1, <4>4, FrontIsFirst
      <4> QED
        BY <3>2, <3>3, <4>5
    <3>4. CASE i < c
      <4>1. QueuedOf(r, o, i) \cap mask = {}
        BY <1>2, <1>5, <1>8, <2>2, <3>1, <3>4 DEF CleanOK
      <4> QED
        BY <1>3, <4>1
    <3>5. CASE i = c
      BY <3>1, <3>5
    <3> QED
      BY <3>2, <3>3, <3>4, <3>5
  <2> QED
    BY <2>1, <2>2
<1>10. /\ new.ts[e.stage] = e.ts /\ \A g \in mask \ {e.stage} : new.ts[g] = rec.ts[g]
       /\ new.filled = rec.filled \cup {e.stage}
  <2>1. new = KeyRecord(rec, e, first) /\ e.stage \in MaskOf(m)
    BY <1>1
  <2> QED
    BY <1>2, <1>4, <1>7, <2>1, KeyRecordFields
<1>11. G(i) = new.filled /\ OfItem(new, o, i)
  BY <1>2, <1>3, <1>6, <1>7, <1>9, <1>10 DEF OfItem
<1>12. ASSUME NEW j \in ItemsOf(key), j # i PROVE G(j) = {} \/ G(j) = mask
  <2>1. G(j) = F(j)
    BY <1>6, <1>12
  <2>2. F(j) = {} \/ F(j) = mask \/ (F(j) = rec.filled /\ OfItem(rec, o, j))
    BY <1>2, <1>8 DEF CleanOK
  <2>3. rec.filled = {} \/ ~ OfItem(rec, o, j)
    BY <1>9, <1>12 DEF OfItem
  <2> QED
    BY <2>1, <2>2, <2>3
<1>13. ASSUME NEW a \in ItemsOf(key), NEW c \in ItemsOf(key), a < c, G(c) # {}
       PROVE  QueuedOf(q, o, a) \cap mask = {}
  <2>1. CASE c # i
    <3>1. QueuedOf(r, o, a) \cap mask = {}
      BY <1>2, <1>6, <1>8, <1>13, <2>1 DEF CleanOK
    <3> QED
      BY <1>3, <3>1
  <2>2. CASE c = i
    <3>1. i \in Int /\ a \in Int
      BY <1>5, ItemsAssumption DEF ItemsOf
    <3>2. ~ (i <= a)
      BY <1>13, <2>2, <3>1
    <3>3. QueuedOf(q, o, a) = {}
      BY <1>1, <1>2, <3>2, FrontIsFirst
    <3> QED
      BY <3>3
  <2> QED
    BY <2>1, <2>2
<1>14. ASSUME ~ Complete(new, mask) PROVE CleanOK(new, m, key, q, o, E)
  <2>1. new.filled # mask
    BY <1>14 DEF Complete
  <2>2. \A j \in ItemsOf(key) : \/ G(j) = {} \/ G(j) = mask
                                \/ G(j) = new.filled /\ OfItem(new, o, j)
    BY <1>11, <1>12
  <2> QED
    BY <1>2, <1>5, <1>11, <1>13, <2>1, <2>2 DEF CleanOK
<1>15. ASSUME Complete(new, mask) PROVE CleanOK(ZeroRecord(mask), m, key, q, o, E)
  <2>1. new.filled = mask
    <3>1. new.filled \subseteq mask
      BY <1>3, <1>7, <1>10
    <3> QED
      BY <1>15, <3>1 DEF Complete
  <2>2. G(i) = mask /\ ZeroRecord(mask).filled = {}
    BY <1>11, <2>1 DEF ZeroRecord
  <2>3. \A j \in ItemsOf(key) : G(j) = {} \/ G(j) = mask
    BY <1>12, <2>2
  <2> QED
    BY <1>2, <1>13, <2>2, <2>3 DEF CleanOK
<1> QED
  BY <1>1, <1>2, <1>11, <1>14, <1>15 DEF HasFed

\* Queue q is queue r followed by e.
Back(r, e, q) ==
  /\ Len(r) \in Nat /\ DOMAIN r = 1 .. Len(r) /\ DOMAIN q = 1 .. Len(r) + 1
  /\ q[Len(r) + 1] = e /\ \A n \in DOMAIN r : q[n] = r[n]

\* Item i has got past one stage more.
OneMore(E2, E, i, stage) ==
  /\ E2[i] = E[i] \cup ({stage} \cap KeyStages)
  /\ \A j \in 1 .. Items : j # i => E2[j] = E[j]

\* No item with its key after item i has got past anything.
NoneAfter(E, i) == \A c \in ItemsOf(KeyOf[i]) : i < c => E[c] = {}

\* What is queued once e is behind it.
LEMMA QueuedAppend ==
  ASSUME NEW o, NEW r, NEW e, NEW q, Back(r, e, q), NEW i, i = o[e.ts]
  PROVE  OneQueued(q, r, o, i, e.stage)
<1>1. PICK z : z = Len(r) + 1
  OBVIOUS
<1>2. /\ z \in DOMAIN q /\ q[z] = e /\ \A n \in DOMAIN r : q[n] = r[n] /\ n \in DOMAIN q
      /\ \A n \in DOMAIN q : n = z \/ n \in DOMAIN r
  BY <1>1 DEF Back
<1>3. ASSUME NEW j, NEW s
      PROVE  s \in QueuedOf(q, o, j) <=> s \in QueuedOf(r, o, j) \/ (j = i /\ s = e.stage)
  <2>1. s \in QueuedOf(r, o, j) <=> \E n \in DOMAIN r : o[r[n].ts] = j /\ r[n].stage = s
    BY DEF QueuedOf
  <2>2. s \in QueuedOf(q, o, j) <=> \E n \in DOMAIN q : o[q[n].ts] = j /\ q[n].stage = s
    BY DEF QueuedOf
  <2> QED
    BY <1>2, <2>1, <2>2
<1>4. ASSUME NEW j, j # i PROVE QueuedOf(q, o, j) = QueuedOf(r, o, j)
  <2>1. \A s : s \in QueuedOf(q, o, j) <=> s \in QueuedOf(r, o, j)
    BY <1>3, <1>4
  <2> QED
    BY <2>1
<1>5. QueuedOf(q, o, i) = QueuedOf(r, o, i) \cup {e.stage}
  BY <1>3
<1> QED
  BY <1>4, <1>5 DEF OneQueued

\* An event comes in behind those of the items before its own.
LEMMA QueueAppend ==
  ASSUME NEW o, NEW r, NEW E, QueueOK(r, o, E), NEW e, NEW q, Back(r, e, q),
         NEW i \in 1 .. Items, o[e.ts] = i, e.stage \notin E[i],
         NEW E2, OneMore(E2, E, i, e.stage),
         \A n \in DOMAIN r : o[r[n].ts] \in 1 .. Items /\ (r[n].key = e.key => o[r[n].ts] <= i)
  PROVE  QueueOK(q, o, E2) /\ OneQueued(q, r, o, i, e.stage)
<1>1. PICK z : z = Len(r) + 1
  OBVIOUS
<1>2. /\ z \in Nat /\ DOMAIN r = 1 .. z - 1 /\ DOMAIN q = 1 .. z
      /\ q[z] = e /\ \A n \in DOMAIN r : q[n] = r[n]
  BY <1>1 DEF Back
<1>3. \A n \in DOMAIN q : n = z \/ (n \in DOMAIN r /\ n < z)
  BY <1>2
<1>4. \A n \in DOMAIN r : n \in DOMAIN q
  BY <1>2
<1>5. \A j \in 1 .. Items : E[j] \subseteq E2[j]
  BY DEF OneMore
<1>6. ASSUME NEW n \in DOMAIN q
      PROVE  q[n].stage \in KeyStages => q[n].stage \in E2[o[q[n].ts]]
  <2>1. CASE n = z
    BY <1>2, <2>1 DEF OneMore
  <2>2. CASE n \in DOMAIN r
    <3>1. r[n].stage \in KeyStages => r[n].stage \in E[o[r[n].ts]]
      BY <2>2 DEF QueueOK
    <3> QED
      BY <1>2, <1>5, <2>2, <3>1
  <2> QED
    BY <1>3, <2>1, <2>2
<1>7. ASSUME NEW n \in DOMAIN q, NEW p \in DOMAIN q, n < p
      PROVE  /\ q[n].key = q[p].key => o[q[n].ts] <= o[q[p].ts]
             /\ o[q[n].ts] = o[q[p].ts] /\ q[n].stage = q[p].stage => q[n].stage \notin KeyStages
  <2>1. n \in DOMAIN r
    BY <1>2, <1>3, <1>7
  <2>2. CASE p = z
    <3>1. r[n].stage \in KeyStages => r[n].stage \in E[o[r[n].ts]]
      BY <2>1 DEF QueueOK
    <3> QED
      BY <1>2, <2>1, <2>2, <3>1
  <2>3. CASE p \in DOMAIN r
    BY <1>2, <1>7, <2>1, <2>3 DEF QueueOK
  <2> QED
    BY <1>3, <2>2, <2>3
<1>8. QueueOK(q, o, E2)
  BY <1>6, <1>7 DEF QueueOK
<1>9. OneQueued(q, r, o, i, e.stage)
  BY QueuedAppend
<1> QED
  BY <1>8, <1>9

\* The matchers have not been fed it yet, and no item after its own.
LEMMA CleanAppend ==
  ASSUME NEW o, NEW r, NEW E \in [1 .. Items -> SUBSET KeyStages], NEW e, NEW q,
         NEW i \in 1 .. Items, e.stage \notin E[i],
         NEW E2, OneMore(E2, E, i, e.stage),
         OneQueued(q, r, o, i, e.stage), NoneAfter(E, i),
         NEW m \in KeyMs, NEW key, NEW rec, CleanOK(rec, m, key, r, o, E)
  PROVE  CleanOK(rec, m, key, q, o, E2)
<1>1. ASSUME NEW j \in 1 .. Items PROVE FedTo(q, o, E2, m, j) = FedTo(r, o, E, m, j)
  <2>1. CASE j # i
    BY <2>1 DEF FedTo, OneMore, OneQueued
  <2>2. CASE j = i
    BY <2>2, KeyStagesOf DEF FedTo, OneMore, OneQueued
  <2> QED
    BY <2>1, <2>2
<1>2. ASSUME NEW j \in ItemsOf(key), NEW c \in ItemsOf(key), j < c, FedTo(q, o, E2, m, c) # {}
      PROVE  QueuedOf(q, o, j) \cap MaskOf(m) = {}
  <2>1. FedTo(r, o, E, m, c) # {}
    BY <1>1, <1>2 DEF ItemsOf
  <2>2. E[c] # {}
    BY <2>1 DEF FedTo
  <2>3. j # i
    BY <1>2, <2>2 DEF ItemsOf, NoneAfter
  <2>4. QueuedOf(r, o, j) \cap MaskOf(m) = {}
    BY <1>2, <2>1 DEF CleanOK
  <2> QED
    BY <2>3, <2>4 DEF OneQueued
<1>3. \A j \in ItemsOf(key) : FedTo(q, o, E2, m, j) = FedTo(r, o, E, m, j)
  BY <1>1 DEF ItemsOf
<1> QED
  BY <1>2, <1>3 DEF CleanOK

\* The target goes on with items of other keys.
LEMMA QueuedStill ==
  ASSUME NEW T, NEW k, NEW o, NEW r \in Seq(Events(T, k)), NEW o2, \A t \in T : o2[t] = o[t]
  PROVE  /\ \A n \in DOMAIN r : o2[r[n].ts] = o[r[n].ts]
         /\ \A j : QueuedOf(r, o2, j) = QueuedOf(r, o, j)
<1>1. ASSUME NEW n \in DOMAIN r PROVE o2[r[n].ts] = o[r[n].ts]
  <2>1. r[n] \in Events(T, k)
    OBVIOUS
  <2> QED
    BY <2>1 DEF Events
<1> QED
  BY <1>1 DEF QueuedOf

LEMMA QueueStill ==
  ASSUME NEW T, NEW k, NEW o, Owned(T, k, o), NEW r \in Seq(Events(T, k)),
         NEW o2, \A t \in T : o2[t] = o[t], NEW E, QueueOK(r, o, E),
         NEW E2, \A j \in 1 .. Items : E[j] \subseteq E2[j]
  PROVE  QueueOK(r, o2, E2)
<1>1. \A n \in DOMAIN r : o2[r[n].ts] = o[r[n].ts]
  BY QueuedStill
<1>2. ASSUME NEW n \in DOMAIN r PROVE o[r[n].ts] \in 1 .. Items
  <2>1. r[n] \in Events(T, k)
    OBVIOUS
  <2> QED
    BY <2>1 DEF Events, Owned
<1> QED
  BY <1>1, <1>2 DEF QueueOK

LEMMA CleanStill ==
  ASSUME NEW T, NEW k, NEW o, NEW r \in Seq(Events(T, k)), NEW o2, \A t \in T : o2[t] = o[t],
         NEW m, NEW key, NEW E, NEW E2, \A j \in ItemsOf(key) : E2[j] = E[j],
         NEW rec, RecordOK(rec, m, key, T, k), CleanOK(rec, m, key, r, o, E)
  PROVE  CleanOK(rec, m, key, r, o2, E2)
<1>1. \A j : QueuedOf(r, o2, j) = QueuedOf(r, o, j)
  BY QueuedStill
<1>2. \A j \in ItemsOf(key) : FedTo(r, o2, E2, m, j) = FedTo(r, o, E, m, j)
  BY <1>1 DEF FedTo
<1>3. \A j : OfItem(rec, o2, j) <=> OfItem(rec, o, j)
  BY DEF OfItem, RecordOK
<1> QED
  BY <1>1, <1>2, <1>3 DEF CleanOK
-----------------------------------------------------------------------------
(***************************************************************************)
(* Fourth, what the matchers hold and have counted for the keys no event   *)
(* of which is among the lost ones, L.                                     *)
(***************************************************************************)
Clean(key, o, L) == \A t \in L : KeyOf[o[t]] # key

RecordsClean(recs, r, o, E, L) ==
  \A m \in KeyMs : \A key \in Keys :
    Clean(key, o, L) => CleanOK(recs[m][key], m, key, r, o, E)

\* A complete group of such a key is of one item.
GroupClean(snap, m, o, L) ==
  \A a, b \in MaskOf(m) : Clean(KeyOf[o[snap.ts[b]]], o, L) => o[snap.ts[a]] = o[snap.ts[b]]

GroupsClean(pending, o, L) ==
  \A m \in KeyMs : \A n \in DOMAIN pending[m] : GroupClean(pending[m][n], m, o, L)

RowClean(x, o, L) ==
  x.name \in KeyNames /\ Clean(KeyOf[o[x.delta.ts_to]], o, L) =>
    o[x.delta.ts_from] = o[x.delta.ts_to]

RowsClean(samples, o, L) == \A x \in DOMAIN samples : RowClean(x, o, L)

KeysOK(s, r, o, E, L) ==
  RecordsClean(s.recs, r, o, E, L) /\ GroupsClean(s.pending, o, L) /\ RowsClean(s.samples, o, L)

\* The target goes on: groups and rows stay as they are, and if the open
\* groups are still right for the keys that are still clean, so is everything.
LEMMA KeysKept ==
  ASSUME NEW T, NEW k, NEW s, Sound(s, T, k), NEW o, NEW r, NEW E, NEW L, KeysOK(s, r, o, E, L),
         NEW o2, \A t \in T : o2[t] = o[t], \A t \in L : o2[t] = o[t], NEW L2, L \subseteq L2,
         NEW q, NEW E2,
         \A m \in KeyMs : \A key \in Keys :
           Clean(key, o2, L2) /\ CleanOK(s.recs[m][key], m, key, r, o, E) =>
             CleanOK(s.recs[m][key], m, key, q, o2, E2)
  PROVE  KeysOK(s, q, o2, E2, L2)
<1>1. \A key : Clean(key, o2, L2) => Clean(key, o, L)
  BY DEF Clean
<1>2. RecordsClean(s.recs, q, o2, E2, L2)
  BY <1>1 DEF KeysOK, RecordsClean
<1>3. ASSUME NEW m \in KeyMs, NEW n \in DOMAIN s.pending[m]
      PROVE  GroupClean(s.pending[m][n], m, o2, L2)
  <2>1. PICK snap : snap = s.pending[m][n]
    OBVIOUS
  <2>2. snap \in Groups(m, T, k)
    <3>1. s.pending[m] \in Seq(Groups(m, T, k))
      BY DEF Sound, PendingOK, Takers
    <3> QED
      BY <2>1, <3>1
  <2>3. \A a \in MaskOf(m) : o2[snap.ts[a]] = o[snap.ts[a]]
    BY <2>2 DEF Groups
  <2>4. GroupClean(snap, m, o, L)
    BY <2>1 DEF KeysOK, GroupsClean
  <2>5. ASSUME NEW a \in MaskOf(m), NEW b \in MaskOf(m), Clean(KeyOf[o2[snap.ts[b]]], o2, L2)
        PROVE  o2[snap.ts[a]] = o2[snap.ts[b]]
    <3>1. PICK key : key = KeyOf[o[snap.ts[b]]]
      OBVIOUS
    <3>2. Clean(key, o2, L2)
      BY <2>3, <2>5, <3>1
    <3>3. o[snap.ts[a]] = o[snap.ts[b]]
      BY <1>1, <2>4, <3>1, <3>2 DEF GroupClean
    <3> QED
      BY <2>3, <3>3
  <2> QED
    BY <2>1, <2>5 DEF GroupClean
<1>4. ASSUME NEW x \in DOMAIN s.samples PROVE RowClean(x, o2, L2)
  <2>1. x.delta.ts_from \in T /\ x.delta.ts_to \in T
    BY DEF Sound, RowsOK, RowOK
  <2>2. RowClean(x, o, L)
    BY DEF KeysOK, RowsClean
  <2> QED
    BY <1>1, <2>1, <2>2 DEF RowClean
<1> QED
  BY <1>2, <1>3, <1>4 DEF KeysOK, GroupsClean, RowsClean

\* The event at the front is handed to the matchers.
LEMMA KeysConsume ==
  ASSUME KeyReportsApart, NEW T, T \subseteq Nat, NEW k, NEW s, Sound(s, T, k),
         NEW o, Owned(T, k, o), NEW r \in Seq(Events(T, k)), r # <<>>,
         NEW E \in [1 .. Items -> SUBSET KeyStages], QueueOK(r, o, E),
         NEW L, KeysOK(s, r, o, E, L),
         \A c \in ItemsOf(Head(r).key) : c < o[Head(r).ts] => KeyStages \subseteq E[c],
         NEW t, t = HandleRingEvent(s, Head(r))
  PROVE  KeysOK(t, Tail(r), o, E, L)
<1>1. PICK q, e : q = Tail(r) /\ e = Head(r)
  OBVIOUS
<1>2. /\ e \in Events(T, k) /\ e.ts \in T /\ e.key \in Keys /\ k[e.ts] = e.key
      /\ e.tid \in Tids
  <2>1. e \in Events(T, k)
    BY <1>1
  <2> QED
    BY <2>1 DEF Events
<1>3. /\ \A m \in KeyMs : KeyFed(t, s, m, e)
      /\ \A x \in DOMAIN t.samples : x \in DOMAIN s.samples \/ x.name \notin KeyNames
  BY <1>1, <1>2, EventOn
<1>4. ASSUME NEW m \in KeyMs
      PROVE  /\ \A key \in Keys :
                  Clean(key, o, L) => CleanOK(t.recs[m][key], m, key, q, o, E)
             /\ \A n \in DOMAIN t.pending[m] : GroupClean(t.pending[m][n], m, o, L)
  <2>1. /\ s.recs[m] = [id \in Keys |-> s.recs[m][id]]
        /\ \A id \in Keys : RecordOK(s.recs[m][id], m, id, T, k)
        /\ s.pending[m] \in Seq(Groups(m, T, k))
    <3>1. m \in Takers /\ Ids(m) = Keys
      BY MatcherTypes DEF Takers, Ids
    <3> QED
      BY <3>1 DEF Sound, RecsOK, PendingOK
  <2>2. /\ \A key \in Keys : Clean(key, o, L) => CleanOK(s.recs[m][key], m, key, r, o, E)
        /\ \A n \in DOMAIN s.pending[m] : GroupClean(s.pending[m][n], m, o, L)
    BY DEF KeysOK, RecordsClean, GroupsClean
  <2>3. ASSUME NEW key \in Keys, Clean(key, o, L), key # e.key \/ e.stage \notin MaskOf(m)
        PROVE  CleanOK(s.recs[m][key], m, key, q, o, E)
    <3>1. PICK rec : rec = s.recs[m][key]
      OBVIOUS
    <3>2. CleanOK(rec, m, key, r, o, E) /\ (Head(r).key # key \/ Head(r).stage \notin MaskOf(m))
      BY <1>1, <2>2, <2>3, <3>1
    <3>3. CleanOK(rec, m, key, Tail(r), o, E)
      BY <3>2, CleanOther
    <3> QED
      BY <1>1, <3>1, <3>3
  <2>4. CASE e.stage \notin MaskOf(m)
    <3>1. SameAt(t, s, m)
      BY <1>3, <2>4 DEF KeyFed
    <3> QED
      BY <2>2, <2>3, <2>4, <3>1 DEF SameAt
  <2>5. CASE e.stage \in MaskOf(m)
    <3>1. PICK rec, new, first :
            /\ rec = s.recs[m][e.key] /\ first = FirstStage(matchers[m].stages)
            /\ new = KeyRecord(rec, e, first)
      OBVIOUS
    <3>2. RecordOK(rec, m, Head(r).key, T, k) /\ new = KeyRecord(rec, Head(r), first)
      BY <1>1, <1>2, <2>1, <3>1
    <3>3. ASSUME Clean(e.key, o, L)
          PROVE  /\ ~ Complete(new, MaskOf(m)) => CleanOK(new, m, e.key, q, o, E)
                 /\ Complete(new, MaskOf(m)) =>
                      CleanOK(ZeroRecord(MaskOf(m)), m, e.key, q, o, E)
                 /\ OfItem(new, o, o[e.ts])
      <4>1. CleanOK(rec, m, Head(r).key, r, o, E) /\ Head(r).stage \in MaskOf(m)
        BY <1>1, <1>2, <2>2, <2>5, <3>1, <3>3
      <4>2. \A c \in ItemsOf(Head(r).key) : c < o[Head(r).ts] => MaskOf(m) \subseteq E[c]
        BY KeyStagesOf
      <4>3. ~ Complete(new, MaskOf(m)) => CleanOK(new, m, Head(r).key, Tail(r), o, E)
        BY <3>2, <4>1, <4>2, CleanOwn
      <4>4. ASSUME Complete(new, MaskOf(m))
            PROVE  CleanOK(ZeroRecord(MaskOf(m)), m, Head(r).key, Tail(r), o, E)
        BY <3>2, <4>1, <4>2, <4>4, CleanOwn
      <4>5. OfItem(new, o, o[Head(r).ts])
        BY <3>2, <4>1, <4>2, CleanOwn
      <4> QED
        BY <1>1, <4>3, <4>4, <4>5
    <3>4. CASE ~ Complete(new, MaskOf(m))
      <4>1. t.recs[m] = [s.recs[m] EXCEPT ![e.key] = new] /\ t.pending[m] = s.pending[m]
        BY <1>3, <2>5, <3>1, <3>4 DEF KeyFed
      <4>2. t.recs[m][e.key] = new /\ \A key \in Keys \ {e.key} : t.recs[m][key] = s.recs[m][key]
        BY <1>2, <2>1, <4>1
      <4> QED
        BY <2>2, <2>3, <3>3, <3>4, <4>1, <4>2
    <3>5. CASE Complete(new, MaskOf(m))
      <4>1. PICK zero, snap : zero = ZeroRecord(MaskOf(m)) /\ snap = Snapshot(new, MaskOf(m))
        OBVIOUS
      <4>2. /\ t.recs[m] = [s.recs[m] EXCEPT ![e.key] = zero]
            /\ t.pending[m] = Append(s.pending[m], snap)
        BY <1>3, <2>5, <3>1, <3>5, <4>1 DEF KeyFed
      <4>3. t.recs[m][e.key] = zero /\ \A key \in Keys \ {e.key} : t.recs[m][key] = s.recs[m][key]
        BY <1>2, <2>1, <4>2
      <4>4. GroupClean(snap, m, o, L)
        <5>1. snap.ts = new.ts
          BY <4>1 DEF Snapshot
        <5>2. ASSUME NEW a \in MaskOf(m), NEW b \in MaskOf(m), Clean(KeyOf[o[new.ts[b]]], o, L)
              PROVE  o[new.ts[a]] = o[new.ts[b]]
          <6>1. RecordOK(new, m, e.key, T, k)
            <7>1. RecordOK(rec, m, e.key, T, k) /\ new = KeyRecord(rec, e, first)
              BY <1>1, <3>1, <3>2
            <7> QED
              BY <1>2, <2>5, <7>1, RecordStep
          <6>2. new.ts[b] \in T /\ k[new.ts[b]] = e.key
            BY <3>5, <6>1 DEF RecordOK, Complete
          <6>3. KeyOf[o[new.ts[b]]] = e.key
            BY <6>2 DEF Owned
          <6> QED
            BY <3>3, <3>5, <5>2, <6>3 DEF OfItem, Complete
        <5> QED
          BY <5>1, <5>2 DEF GroupClean
      <4>5. \A n \in DOMAIN t.pending[m] : GroupClean(t.pending[m][n], m, o, L)
        <5>1. PICK p, u : p = s.pending[m] /\ u = t.pending[m]
          OBVIOUS
        <5>2. p \in Seq(Groups(m, T, k)) /\ u = Append(p, snap)
          BY <2>1, <4>2, <5>1
        <5>3. \A n \in DOMAIN u : u[n] = snap \/ (n \in DOMAIN p /\ u[n] = p[n])
          BY <5>2
        <5> QED
          BY <2>2, <4>4, <5>1, <5>3
      <4> QED
        BY <2>3, <3>3, <3>5, <4>1, <4>3, <4>5
    <3> QED
      BY <3>4, <3>5
  <2> QED
    BY <2>4, <2>5
<1>5. RowsClean(t.samples, o, L)
  BY <1>3 DEF KeysOK, RowsClean, RowClean
<1>6. KeysOK(t, q, o, E, L)
  BY <1>4, <1>5 DEF KeysOK, RecordsClean, GroupsClean
<1> QED
  BY <1>1, <1>6

\* The results are drained.
LEMMA KeysDrain ==
  ASSUME KeyReportsApart, NEW T, NEW k, NEW s, Sound(s, T, k),
         NEW o, NEW r, NEW E, NEW L, KeysOK(s, r, o, E, L)
  PROVE  KeysOK(DrainAll(s), r, o, E, L)
<1> DEFINE groups == UNION {{<<i, g>> : g \in DOMAIN s.pending[i]} : i \in Seqs \cup KeyMs}
           From(g) == DrainRows(g[1], s.pending[g[1]][g[2]])
           all == UNION {From(g) : g \in groups}
           more == [x \in all |-> Cardinality({g \in groups : x \in From(g)})]
           none == [i \in Seqs \cup KeyMs |-> <<>>]
<1>1. ASSUME NEW x \in all PROVE RowClean(x, o, L)
  <2>1. PICK i \in Takers : \E g \in DOMAIN s.pending[i] : x \in DrainRows(i, s.pending[i][g])
    BY <1>1 DEF Takers
  <2>2. PICK g \in DOMAIN s.pending[i] : x \in DrainRows(i, s.pending[i][g])
    BY <2>1
  <2>3. PICK snap : snap = s.pending[i][g]
    OBVIOUS
  <2>4. x \in DrainRows(i, snap)
    BY <2>2, <2>3
  <2>5. CASE i \in Seqs
    BY <2>4, <2>5, DrainRowIs DEF RowClean
  <2>6. CASE i \in KeyMs
    <3>1. GroupClean(snap, i, o, L)
      BY <2>2, <2>3, <2>6 DEF KeysOK, GroupsClean
    <3>2. PICK a \in MaskOf(i), b \in MaskOf(i) :
            x.delta.ts_from = snap.ts[a] /\ x.delta.ts_to = snap.ts[b]
      BY <2>4, DrainRowIs
    <3> QED
      BY <3>1, <3>2 DEF GroupClean, RowClean
  <2> QED
    BY <2>5, <2>6 DEF Takers
<1>2. DrainAll(s) = [s EXCEPT !.samples = s.samples (+) more, !.pending = none]
  BY DEF DrainAll
<1>3. DOMAIN more = all
  OBVIOUS
<1>4. GroupsClean(none, o, L)
  BY DEF GroupsClean
<1> HIDE DEF groups, From, all, more, none
<1>5. DOMAIN (s.samples (+) more) = DOMAIN s.samples \cup DOMAIN more
  BY DEF (+)
<1>6. RowsClean(s.samples (+) more, o, L)
  BY <1>1, <1>3, <1>5 DEF KeysOK, RowsClean
<1>7. PICK t : t = DrainAll(s)
  OBVIOUS
<1>8. t.recs = s.recs /\ t.pending = none /\ t.samples = s.samples (+) more
  BY <1>2, <1>7 DEF HasFields, Sound
<1> QED
  BY <1>4, <1>6, <1>7, <1>8 DEF KeysOK
-----------------------------------------------------------------------------
(***************************************************************************)
(* The inductive invariant for keys, and its steps.                        *)
(***************************************************************************)
LossInv ==
  /\ ChainOK
  /\ \A n \in DOMAIN ring : Begun(owner[ring[n].ts])
  /\ QueueOK(ring, owner, Passes)
  /\ KeysOK(st, ring, owner, Passes, lost)

LEMMA PassesType == Passes \in [1 .. Items -> SUBSET KeyStages]
BY DEF Passes, PassedOf

LEMMA SeenOwned ==
  ASSUME TargetOK
  PROVE  /\ Owned(Seen, KeyAt, owner) /\ Seen \subseteq Nat /\ Seen \subseteq DOMAIN owner
         /\ lost \subseteq DOMAIN owner
<1>1. PICK S : S = 1 .. Items
  OBVIOUS
<1>2. owner \in Seq(S) /\ lost \subseteq DOMAIN owner
  BY <1>1 DEF TargetOK
<1>3. (\A t \in DOMAIN owner : owner[t] \in S) /\ DOMAIN owner \subseteq Nat
  BY <1>2
<1> QED
  BY <1>1, <1>2, <1>3 DEF Owned, Seen, KeyAt

LEMMA LossInit == Init => LossInv
<1> SUFFICES ASSUME Init PROVE LossInv
  OBVIOUS
<1>1. \A l \in DOMAIN Lanes : lane[l] = [item |-> 0, step |-> 1, ts |-> 0, done |-> {}]
  BY DEF Init
<1>2. \A l \in DOMAIN Lanes :
        lane[l].item = 0 /\ lane[l].step = 1 /\ lane[l].ts = 0 /\ lane[l].done = {}
  BY <1>1
<1>3. \A i : ~ Begun(i)
  BY <1>2 DEF Begun, Busy
<1>4. ChainOK
  BY <1>2, <1>3 DEF ChainOK, Busy
<1>5. \A i \in 1 .. Items : Passes[i] = {}
  <2>1. \A i \in 1 .. Items : i # 0
    BY ItemsAssumption
  <2> QED
    BY <1>2, <2>1 DEF Passes, PassedOf, Past
<1>6. PICK r, o, E, L, s : r = ring /\ o = owner /\ E = Passes /\ L = lost /\ s = st
  OBVIOUS
<1>7. r = <<>> /\ s = MatcherInit /\ DOMAIN r = {}
  BY <1>6 DEF Init
<1>8. QueueOK(r, o, E)
  BY <1>7 DEF QueueOK
<1>9. ASSUME NEW m \in KeyMs, NEW key \in Keys PROVE CleanOK(s.recs[m][key], m, key, r, o, E)
  <2>1. s.recs[m][key] = ZeroRecord(Mask(matchers[m].stages))
    <3>1. m \notin Seqs
      BY MatcherTypes
    <3> QED
      BY <1>7, <3>1 DEF MatcherInit
  <2>2. PICK rec : rec = s.recs[m][key]
    OBVIOUS
  <2>3. rec.filled = {}
    BY <2>1, <2>2 DEF ZeroRecord
  <2>4. \A i \in ItemsOf(key) : FedTo(r, o, E, m, i) = {}
    BY <1>5, <1>6 DEF ItemsOf, FedTo
  <2> QED
    BY <2>2, <2>3, <2>4 DEF CleanOK
<1>10. GroupsClean(s.pending, o, L)
  BY <1>7 DEF GroupsClean, MatcherInit
<1>11. RowsClean(s.samples, o, L)
  BY <1>7 DEF RowsClean, MatcherInit, EmptyBag, SetToBag
<1>12. KeysOK(s, r, o, E, L)
  BY <1>9, <1>10, <1>11 DEF KeysOK, RecordsClean
<1> QED
  BY <1>4, <1>6, <1>7, <1>8, <1>12 DEF LossInv

\* The target goes on and no event gets into the ring buffer.
LEMMA LossMove ==
  ASSUME TargetOK, DataOK, LossInv, ring' = ring, st' = st,
         ChainOK', \A j : Begun(j) => Begun(j)',
         \A t \in DOMAIN owner : owner'[t] = owner[t], lost \subseteq lost',
         \A j \in 1 .. Items : Passes[j] \subseteq Passes'[j],
         \A key : Clean(key, owner', lost') => \A j \in ItemsOf(key) : Passes'[j] = Passes[j]
  PROVE  LossInv'
<1>1. PICK T, k : T = Seen /\ k = KeyAt
  OBVIOUS
<1>2. PICK r, o, E, L, s : r = ring /\ o = owner /\ E = Passes /\ L = lost /\ s = st
  OBVIOUS
<1>3. PICK o2, E2, L2 : o2 = owner' /\ E2 = Passes' /\ L2 = lost'
  OBVIOUS
<1>4. Owned(T, k, o) /\ (\A t \in T : o2[t] = o[t]) /\ (\A t \in L : o2[t] = o[t])
  BY <1>1, <1>2, <1>3, SeenOwned
<1>5. r \in Seq(Events(T, k)) /\ Sound(s, T, k)
  BY <1>1, <1>2 DEF DataOK
<1>6. QueueOK(r, o, E) /\ KeysOK(s, r, o, E, L) /\ \A n \in DOMAIN r : Begun(o[r[n].ts])
  BY <1>2 DEF LossInv
<1>7. QueueOK(r, o2, E2)
  <2>1. \A j \in 1 .. Items : E[j] \subseteq E2[j]
    BY <1>2, <1>3
  <2> QED
    BY <1>4, <1>5, <1>6, <2>1, QueueStill
<1>8. \A n \in DOMAIN r : Begun(o2[r[n].ts])'
  <2>1. \A n \in DOMAIN r : o2[r[n].ts] = o[r[n].ts]
    BY <1>4, <1>5, QueuedStill
  <2> QED
    BY <1>6, <2>1
<1>9. ASSUME NEW m \in KeyMs, NEW key \in Keys, Clean(key, o2, L2),
             CleanOK(s.recs[m][key], m, key, r, o, E)
      PROVE  CleanOK(s.recs[m][key], m, key, r, o2, E2)
  <2>1. RecordOK(s.recs[m][key], m, key, T, k)
    <3>1. m \in Takers /\ Ids(m) = Keys
      BY MatcherTypes DEF Takers, Ids
    <3> QED
      BY <1>5, <3>1 DEF Sound, RecsOK
  <2>2. \A j \in ItemsOf(key) : E2[j] = E[j]
    BY <1>2, <1>3, <1>9
  <2>3. PICK rec : rec = s.recs[m][key]
    OBVIOUS
  <2>4. RecordOK(rec, m, key, T, k) /\ CleanOK(rec, m, key, r, o, E)
    BY <1>9, <2>1, <2>3
  <2>5. CleanOK(rec, m, key, r, o2, E2)
    BY <1>4, <1>5, <2>2, <2>4, CleanStill
  <2> QED
    BY <2>3, <2>5
<1>10. KeysOK(s, r, o2, E2, L2)
  <2>1. L \subseteq L2
    BY <1>2, <1>3
  <2> QED
    BY <1>4, <1>5, <1>6, <1>9, <2>1, KeysKept
<1> QED
  BY <1>2, <1>3, <1>7, <1>8, <1>10 DEF LossInv

LEMMA StampsLoss ==
  ASSUME RequestsPassOnce, TargetOK, DataOK, LossInv,
         NEW l \in DOMAIN Lanes, NEW i \in NextItem(l), ProbeStamps(l, i)
  PROVE  LossInv'
<1> DEFINE now == Len(owner) + 1
<1>1. ChainOK /\ MayWork(l, i) /\ i \in 1 .. Items
  BY NextWorks, NextItemType DEF LossInv
<1>2. /\ \A t \in DOMAIN owner : owner'[t] = owner[t]
      /\ now \in Nat \ {0}
  BY <1>1, OwnerGrows DEF ProbeStamps, Reach
<1>3. /\ lane' = [lane EXCEPT ![l].item = i, ![l].ts = now] /\ lane[l].ts = 0
      /\ ring' = ring /\ st' = st /\ lost' = lost
  BY DEF ProbeStamps, Reach, tool
<1> HIDE DEF now
<1>4. LaneOK(lane[l], l) /\ DOMAIN lane = DOMAIN Lanes
  BY DEF TargetOK
<1>5. PICK x : x = lane'[l]
  OBVIOUS
<1>6. /\ x.item = i /\ x.ts = now /\ x.step = lane[l].step /\ x.done = lane[l].done
      /\ \A m \in DOMAIN Lanes \ {l} : lane'[m] = lane[m]
  BY <1>3, <1>4, <1>5 DEF LaneOK
<1>7. Busy(l) => lane[l].item = i
  BY <1>1, <1>3 DEF Busy, MayWork
<1>8. ChainOK' /\ \A j : Begun(j) => Begun(j)'
  BY <1>1, <1>2, <1>5, <1>6, <1>7, ChainStep
<1>9. Passes' = Passes
  BY <1>1, <1>5, <1>6, PassesStill
<1> QED
  BY <1>2, <1>3, <1>8, <1>9, LossMove

\* The item in the hands of thread l gets past the function.
LEMMA PassedStep ==
  ASSUME RequestsPassOnce, TargetOK, ChainOK, NEW l \in DOMAIN Lanes, NEW i, MayWork(l, i),
         Busy(l) => lane[l].item = i, lane' = [lane EXCEPT ![l] = Passed(l, i)]
  PROVE  /\ ChainOK' /\ Begun(i)' /\ \A j : Begun(j) => Begun(j)'
         /\ Stage(l) \notin Passes[i]
         /\ OneMore(Passes', Passes, i, Stage(l))
<1>1. LaneOK(lane[l], l) /\ DOMAIN lane = DOMAIN Lanes /\ i \in 1 .. Items
  BY DEF TargetOK, MayWork
<1>2. PICK x : x = Passed(l, i)
  OBVIOUS
<1>3. lane'[l] = x /\ \A m \in DOMAIN Lanes \ {l} : lane'[m] = lane[m]
  BY <1>1, <1>2
<1>4. /\ x.done = lane[l].done \/ x.done = lane[l].done \cup {i}
      /\ x.step > 1 \/ x.ts # 0 => x.item = i /\ x.done = lane[l].done
      /\ i \in x.done \/ ((x.step > 1 \/ x.ts # 0) /\ x.item = i)
  <2>1. CASE lane[l].step = Len(Lanes[l].stages)
    <3>1. x = [item |-> 0, step |-> 1, ts |-> 0, done |-> lane[l].done \cup {i}]
      BY <1>2, <2>1 DEF Passed
    <3> QED
      BY <3>1
  <2>2. CASE lane[l].step # Len(Lanes[l].stages)
    <3>1. x = [lane[l] EXCEPT !.item = i, !.step = lane[l].step + 1, !.ts = 0]
      BY <1>2, <2>2 DEF Passed
    <3>2. x.item = i /\ x.step = lane[l].step + 1 /\ x.done = lane[l].done
      BY <1>1, <3>1 DEF LaneOK
    <3>3. lane[l].step \in Nat \ {0}
      BY <1>1 DEF LaneOK
    <3> QED
      BY <3>2, <3>3
  <2> QED
    BY <2>1, <2>2
<1>5. ChainOK' /\ Begun(i)' /\ \A j : Begun(j) => Begun(j)'
  BY <1>3, <1>4, ChainStep
<1>6. /\ Stage(l) \notin Passes[i]
      /\ Passes' = [Passes EXCEPT ![i] = Passes[i] \cup ({Stage(l)} \cap KeyStages)]
  BY <1>2, <1>3, PassesOne
<1>7. PICK p, q, w : p = Passes /\ q = Passes' /\ w = Passes[i] \cup ({Stage(l)} \cap KeyStages)
  OBVIOUS
<1>8. q = [p EXCEPT ![i] = w] /\ DOMAIN p = 1 .. Items
  BY <1>6, <1>7 DEF Passes, PassedOf
<1>9. q[i] = w /\ \A j \in 1 .. Items : j # i => q[j] = p[j]
  BY <1>1, <1>8
<1> QED
  BY <1>5, <1>6, <1>7, <1>9 DEF OneMore

\* An event of item i is lost: its key is no longer clean.
LEMMA LossLoses ==
  ASSUME TargetOK, DataOK, LossInv, NEW i \in 1 .. Items, NEW stage,
         ring' = ring, st' = st, ChainOK', \A j : Begun(j) => Begun(j)',
         OneMore(Passes', Passes, i, stage),
         \A t \in DOMAIN owner : owner'[t] = owner[t],
         NEW now, lost' = lost \cup {now}, owner'[now] = i
  PROVE  LossInv'
<1>1. \A j \in 1 .. Items : Passes[j] \subseteq Passes'[j]
  BY DEF OneMore
<1>2. ASSUME NEW key, Clean(key, owner', lost'), NEW j \in ItemsOf(key)
      PROVE  Passes'[j] = Passes[j]
  <2>1. KeyOf[i] # key
    BY <1>2 DEF Clean
  <2> QED
    BY <1>2, <2>1 DEF ItemsOf, OneMore
<1> QED
  BY <1>1, <1>2, LossMove

LEMMA UnseenLoss ==
  ASSUME RequestsPassOnce, TargetOK, DataOK, LossInv,
         NEW l \in DOMAIN Lanes, NEW i \in NextItem(l), PassUnseen(l, i)
  PROVE  LossInv'
<1> DEFINE now == Len(owner) + 1
<1>1. ChainOK /\ MayWork(l, i) /\ i \in 1 .. Items
  BY NextWorks, NextItemType DEF LossInv
<1>2. (\A t \in DOMAIN owner : owner'[t] = owner[t]) /\ owner'[now] = i
  BY <1>1, OwnerGrows DEF PassUnseen, Reach
<1>3. /\ lane' = [lane EXCEPT ![l] = Passed(l, i)] /\ lane[l].ts = 0
      /\ ring' = ring /\ st' = st /\ lost' = lost \cup {now}
  BY DEF PassUnseen, Reach, tool
<1>4. Busy(l) => lane[l].item = i
  BY <1>1, <1>3 DEF Busy, MayWork
<1>5. /\ ChainOK' /\ \A j : Begun(j) => Begun(j)'
      /\ OneMore(Passes', Passes, i, Stage(l))
  BY <1>1, <1>3, <1>4, PassedStep
<1> HIDE DEF now
<1> QED
  BY <1>1, <1>2, <1>3, <1>5, LossLoses

LEMMA DropsLoss ==
  ASSUME RequestsPassOnce, TargetOK, DataOK, LossInv, NEW l \in DOMAIN Lanes, ProbeDrops(l)
  PROVE  LossInv'
<1>1. /\ lane[l].ts # 0 /\ owner' = owner /\ lost' = lost \cup {lane[l].ts}
      /\ lane' = [lane EXCEPT ![l] = Passed(l, lane[l].item)]
      /\ ring' = ring /\ st' = st
  BY DEF ProbeDrops, tool
<1>2. PICK i : i = lane[l].item
  OBVIOUS
<1>3. ChainOK /\ Busy(l) /\ i \in 1 .. Items /\ owner'[lane[l].ts] = i
  BY <1>1, <1>2, EmitStep DEF LossInv, Busy, TargetOK, StampsOK
<1>4. MayWork(l, i)
  BY <1>2, <1>3, BusyWorks
<1>5. /\ ChainOK' /\ \A j : Begun(j) => Begun(j)'
      /\ OneMore(Passes', Passes, i, Stage(l))
  BY <1>1, <1>2, <1>3, <1>4, PassedStep
<1>6. \A t \in DOMAIN owner : owner'[t] = owner[t]
  BY <1>1
<1> QED
  BY <1>1, <1>3, <1>5, <1>6, LossLoses

\* The event of item i is in the ring buffer, behind those of the items with
\* its key before it.
LEMMA RecordsLoss ==
  ASSUME RequestsPassOnce, TargetOK, DataOK, LossInv, NEW l \in DOMAIN Lanes, ProbeRecords(l)
  PROVE  LossInv'
<1>1. /\ lane[l].ts # 0 /\ owner' = owner /\ lost' = lost
      /\ lane' = [lane EXCEPT ![l] = Passed(l, lane[l].item)] /\ st' = st
      /\ ring' = Append(ring, RawEvent(lane[l].ts, Lanes[l].tid, Stage(l), KeyOf[lane[l].item]))
  BY DEF ProbeRecords
<1>2. PICK i, e : /\ i = lane[l].item
                  /\ e = RawEvent(lane[l].ts, Lanes[l].tid, Stage(l), KeyOf[lane[l].item])
  OBVIOUS
<1>3. e.ts = lane[l].ts /\ e.stage = Stage(l) /\ e.key = KeyOf[i]
  BY <1>2 DEF RawEvent
<1>4. ChainOK /\ Busy(l) /\ i \in 1 .. Items /\ owner[e.ts] = i
  BY <1>1, <1>2, <1>3, EmitStep DEF LossInv, Busy, TargetOK, StampsOK
<1>5. MayWork(l, i)
  BY <1>2, <1>4, BusyWorks
<1>6. /\ ChainOK' /\ Begun(i)' /\ \A j : Begun(j) => Begun(j)'
      /\ Stage(l) \notin Passes[i]
      /\ OneMore(Passes', Passes, i, Stage(l))
  BY <1>1, <1>2, <1>4, <1>5, PassedStep
<1>7. ASSUME NEW c \in 1 .. Items, KeyOf[c] = KeyOf[i], Begun(c) PROVE c <= i
  <2> SUFFICES ASSUME i < c PROVE FALSE
    BY <1>4, ItemsAssumption
  <2>1. i \in lane[Len(Lanes)].done
    BY <1>4, <1>7 DEF ChainOK
  <2>2. Len(Lanes) \in DOMAIN Lanes /\ (l = Len(Lanes) \/ l < Len(Lanes))
    BY LaneTypes
  <2>3. i \in lane[l].done
    BY <1>4, <2>1, <2>2 DEF ChainOK
  <2> QED
    BY <1>5, <2>3 DEF MayWork
<1>8. PICK T, k : T = Seen /\ k = KeyAt
  OBVIOUS
<1>9. PICK r, o, E, L, s : r = ring /\ o = owner /\ E = Passes /\ L = lost /\ s = st
  OBVIOUS
<1>10. PICK q, E2 : q = ring' /\ E2 = Passes'
  OBVIOUS
<1>11. Owned(T, k, o) /\ r \in Seq(Events(T, k)) /\ Sound(s, T, k)
  BY <1>8, <1>9, SeenOwned DEF DataOK
<1>12. QueueOK(r, o, E) /\ KeysOK(s, r, o, E, L) /\ \A n \in DOMAIN r : Begun(o[r[n].ts])
  BY <1>9 DEF LossInv
<1>13. /\ OneMore(E2, E, i, e.stage) /\ e.stage \notin E[i] /\ o[e.ts] = i
       /\ E \in [1 .. Items -> SUBSET KeyStages]
  BY <1>3, <1>4, <1>6, <1>9, <1>10, PassesType
<1>14. Back(r, e, q)
  <2>1. q = Append(r, e)
    BY <1>1, <1>2, <1>9, <1>10
  <2> QED
    BY <1>11, <2>1 DEF Back
<1>15. ASSUME NEW n \in DOMAIN r
       PROVE  o[r[n].ts] \in 1 .. Items /\ (r[n].key = e.key => o[r[n].ts] <= i)
  <2>1. r[n] \in Events(T, k)
    BY <1>11
  <2>2. o[r[n].ts] \in 1 .. Items /\ r[n].key = KeyOf[o[r[n].ts]]
    BY <1>11, <2>1 DEF Events, Owned
  <2> QED
    BY <1>3, <1>7, <1>12, <2>2
<1>16. QueueOK(q, o, E2)
  BY <1>4, <1>12, <1>13, <1>14, <1>15, QueueAppend
<1>17. OneQueued(q, r, o, i, e.stage)
  BY <1>4, <1>12, <1>13, <1>14, <1>15, QueueAppend
<1>18. NoneAfter(E, i)
  <2> SUFFICES ASSUME NEW c \in ItemsOf(KeyOf[i]), i < c PROVE E[c] = {}
    BY DEF NoneAfter
  <2>1. c \in 1 .. Items /\ KeyOf[c] = KeyOf[i] /\ ~ (c <= i)
    BY <1>4, ItemsAssumption DEF ItemsOf
  <2> QED
    BY <1>4, <1>7, <1>9, <2>1, PassesInTurn
<1>19. KeysOK(s, q, o, E2, L)
  <2>1. ASSUME NEW m \in KeyMs, NEW key \in Keys, CleanOK(s.recs[m][key], m, key, r, o, E)
        PROVE  CleanOK(s.recs[m][key], m, key, q, o, E2)
    <3>1. PICK rec : rec = s.recs[m][key]
      OBVIOUS
    <3>2. CleanOK(rec, m, key, r, o, E)
      BY <2>1, <3>1
    <3>3. CleanOK(rec, m, key, q, o, E2)
      BY <1>4, <1>13, <1>17, <1>18, <3>2, CleanAppend
    <3> QED
      BY <3>1, <3>3
  <2> QED
    BY <1>11, <1>12, <2>1, KeysKept
<1>20. \A n \in DOMAIN q : Begun(o[q[n].ts])'
  <2>1. \A n \in DOMAIN q : (n \in DOMAIN r /\ q[n] = r[n]) \/ q[n] = e
    BY <1>14 DEF Back
  <2> QED
    BY <1>6, <1>12, <1>13, <2>1
<1> QED
  BY <1>1, <1>6, <1>9, <1>10, <1>16, <1>19, <1>20 DEF LossInv

LEMMA ConsumeLoss ==
  ASSUME KeyReportsApart, RequestsPassOnce, TargetOK, DataOK, LossInv, Consume
  PROVE  LossInv'
<1>1. /\ ring # <<>> /\ ring' = Tail(ring) /\ st' = HandleRingEvent(st, Head(ring))
      /\ lane' = lane /\ owner' = owner /\ lost' = lost
  BY DEF Consume, target
<1>2. Passes' = Passes /\ ChainOK' /\ \A j : Begun(j)' <=> Begun(j)
  BY <1>1 DEF Passes, PassedOf, Past, LossInv, ChainOK, Begun, Busy
<1>3. PICK T, k : T = Seen /\ k = KeyAt
  OBVIOUS
<1>4. PICK r, o, E, L, s : r = ring /\ o = owner /\ E = Passes /\ L = lost /\ s = st
  OBVIOUS
<1>5. PICK q, e, t : q = Tail(r) /\ e = Head(r) /\ t = HandleRingEvent(s, Head(r))
  OBVIOUS
<1>6. /\ Owned(T, k, o) /\ T \subseteq Nat /\ r \in Seq(Events(T, k)) /\ r # <<>>
      /\ Sound(s, T, k) /\ E \in [1 .. Items -> SUBSET KeyStages]
  BY <1>1, <1>3, <1>4, SeenOwned, PassesType DEF DataOK
<1>7. QueueOK(r, o, E) /\ KeysOK(s, r, o, E, L) /\ \A n \in DOMAIN r : Begun(o[r[n].ts])
  BY <1>4 DEF LossInv
<1>8. Front(r, e, q) /\ e \in Events(T, k)
  BY <1>5, <1>6 DEF Front
<1>9. QueueOK(q, o, E)
  BY <1>7, <1>8, QueueTail
<1>10. \A n \in DOMAIN q : Begun(o[q[n].ts])
  <2>1. \A n \in DOMAIN q : n + 1 \in DOMAIN r /\ q[n] = r[n + 1]
    BY <1>8 DEF Front
  <2> QED
    BY <1>7, <2>1
<1>11. ASSUME NEW c \in ItemsOf(Head(r).key), c < o[Head(r).ts] PROVE KeyStages \subseteq E[c]
  <2>1. o[e.ts] \in 1 .. Items /\ KeyOf[o[e.ts]] = e.key
    BY <1>6, <1>8 DEF Events, Owned
  <2>2. Begun(o[e.ts])
    <3>1. 1 \in DOMAIN r /\ e = r[1]
      BY <1>8 DEF Front
    <3> QED
      BY <1>7, <3>1
  <2>3. c \in 1 .. Items /\ c < o[e.ts] /\ KeyOf[c] = KeyOf[o[e.ts]]
    BY <1>5, <1>11, <2>1 DEF ItemsOf
  <2>4. ChainOK
    BY DEF LossInv
  <2>5. Passes[c] = KeyStages
    BY <2>1, <2>2, <2>3, <2>4, PassesInTurn
  <2> QED
    BY <1>4, <2>5
<1>12. KeysOK(t, q, o, E, L)
  <2>1. KeysOK(t, Tail(r), o, E, L)
    BY <1>5, <1>6, <1>7, <1>11, KeysConsume
  <2> QED
    BY <1>5, <2>1
<1>13. ring' = q /\ st' = t /\ owner' = o /\ Passes' = E /\ lost' = L
  BY <1>1, <1>2, <1>4, <1>5
<1> QED
  BY <1>2, <1>9, <1>10, <1>12, <1>13 DEF LossInv

LEMMA ResultsLoss ==
  ASSUME KeyReportsApart, DataOK, LossInv, Results
  PROVE  LossInv'
<1>1. /\ ring' = ring /\ st' = DrainAll(st) /\ lane' = lane /\ owner' = owner /\ lost' = lost
  BY DEF Results, target
<1>2. Passes' = Passes /\ ChainOK' /\ \A j : Begun(j)' <=> Begun(j)
  BY <1>1 DEF Passes, PassedOf, Past, LossInv, ChainOK, Begun, Busy
<1>3. PICK T, k : T = Seen /\ k = KeyAt
  OBVIOUS
<1>4. PICK r, o, E, L, s : r = ring /\ o = owner /\ E = Passes /\ L = lost /\ s = st
  OBVIOUS
<1>5. KeysOK(s, r, o, E, L) /\ Sound(s, T, k)
  BY <1>3, <1>4 DEF LossInv, DataOK
<1>6. KeysOK(DrainAll(s), r, o, E, L)
  BY <1>5, KeysDrain
<1> QED
  BY <1>1, <1>2, <1>4, <1>6 DEF LossInv

LEMMA LossNext ==
  ASSUME KeyReportsApart, RequestsPassOnce
  PROVE  LensXInv /\ LossInv /\ [Next]_vars => LossInv'
<1> SUFFICES ASSUME LensXInv, LossInv, [Next]_vars PROVE LossInv'
  OBVIOUS
<1>1. TargetOK /\ DataOK
  BY DEF LensXInv
<1>2. ASSUME UNCHANGED <<ring, st, lane, owner, lost>> PROVE LossInv'
  <2>1. Passes' = Passes /\ ChainOK' /\ \A j : Begun(j)' <=> Begun(j)
    BY <1>2 DEF Passes, PassedOf, Past, LossInv, ChainOK, Begun, Busy
  <2> QED
    BY <1>2, <2>1 DEF LossInv
<1>3. CASE UNCHANGED vars
  BY <1>2, <1>3 DEF vars, tool, target
<1>4. CASE Next
  <2>1. ASSUME NEW l \in DOMAIN Lanes, NEW i \in NextItem(l), ProbeStamps(l, i) \/ PassUnseen(l, i)
        PROVE  LossInv'
    BY <1>1, <2>1, StampsLoss, UnseenLoss
  <2>2. ASSUME NEW l \in DOMAIN Lanes, ProbeRecords(l) \/ ProbeDrops(l) PROVE LossInv'
    BY <1>1, <2>2, RecordsLoss, DropsLoss
  <2>3. CASE Consume
    BY <1>1, <2>3, ConsumeLoss
  <2>4. CASE Results
    BY <1>1, <2>4, ResultsLoss
  <2>5. ASSUME MainStep \/ SigHandler, ~ (Consume \/ Results) PROVE LossInv'
    <3>1. UNCHANGED <<ring, st, lane, owner, lost>>
      BY <2>5 DEF MainStep, SigHandler, Attach, AttachFails, AttachAborts, Start, PollWakes,
                  PollReturns, target
    <3> QED
      BY <1>2, <3>1
  <2> QED
    BY <1>4, <2>1, <2>2, <2>3, <2>4, <2>5 DEF Next
<1> QED
  BY <1>3, <1>4
-----------------------------------------------------------------------------
(***************************************************************************)
(* What one event does to the seq matchers, the queues and the histograms. *)
(***************************************************************************)
\* The record of matcher i that event e goes into, and the group it completes.
SeqRec(s, i, e) == SeqRecord(s.recs[i][e.tid], e, FirstStage(matchers[i].stages))
SeqSnap(s, i, e) == Snapshot(SeqRec(s, i, e), MaskOf(i))
Completes(s, i, e) == e.stage \in MaskOf(i) /\ Complete(SeqRec(s, i, e), MaskOf(i))

\* What seq matcher m holds in t is what it held in s, with event e.
SeqFed(t, s, m, e) ==
  \/ e.stage \notin MaskOf(m) /\ SameAt(t, s, m)
  \/ /\ e.stage \in MaskOf(m) /\ ~ Completes(s, m, e)
     /\ t.recs[m] = [s.recs[m] EXCEPT ![e.tid] = SeqRec(s, m, e)]
     /\ t.pending[m] = s.pending[m]
  \/ /\ Completes(s, m, e)
     /\ t.recs[m] = [s.recs[m] EXCEPT ![e.tid] = [SeqRec(s, m, e) EXCEPT !.filled = {}]]
     /\ t.pending[m] = Append(s.pending[m], SeqSnap(s, m, e))

\* Queues, histograms and the overflow flag are the same in t as in s.
SameRest(t, s) == t.fifos = s.fifos /\ t.samples = s.samples /\ t.dropped = s.dropped

\* They are as the callbacks of matcher i leave them.
CalledBack(t, s, i, snap) ==
  /\ t.fifos = FifosAfter(s.fifos, i, snap)
  /\ t.samples = s.samples (+) SetToBag(IntraRows(snap)) (+) SetToBag(PopRows(s.fifos, i, snap))
  /\ (\E c \in Connections : c.push_seq = i /\ Len(s.fifos[c.name]) = Capacity[c.name])
       => t.dropped
  /\ s.dropped => t.dropped

LEMMA ExceptRest ==
  ASSUME NEW T, NEW k, NEW s, Sound(s, T, k), NEW i \in Takers, NEW id, NEW rec, NEW snap, NEW t,
         \/ t = [s EXCEPT !.recs[i][id] = rec]
         \/ t = [s EXCEPT !.recs[i][id] = rec, !.pending[i] = Append(@, snap)]
  PROVE  SameRest(t, s) /\ HasFields(t)
<1>1. HasFields(s)
  BY DEF Sound
<1>2. CASE t = [s EXCEPT !.recs[i][id] = rec]
  BY <1>1, <1>2 DEF HasFields, SameRest
<1>3. CASE t = [s EXCEPT !.recs[i][id] = rec, !.pending[i] = Append(@, snap)]
  BY <1>1, <1>3 DEF HasFields, SameRest
<1> QED
  BY <1>2, <1>3

\* A key matcher leaves queues and histograms alone.
LEMMA KeyFeedRest ==
  ASSUME NEW T, NEW k, NEW s, Sound(s, T, k), NEW i \in KeyMs, NEW e
  PROVE  SameRest(KeyFeed(s, i, e), s)
<1> DEFINE mask == Mask(matchers[i].stages)
           rec  == KeyRecord(s.recs[i][e.key], e, FirstStage(matchers[i].stages))
           snap == Snapshot(rec, mask)
           none == ZeroRecord(mask)
<1>1. i \in Takers
  BY DEF Takers
<1>2. CASE e.stage \notin mask
  BY <1>2 DEF KeyFeed, SameRest
<1>3. CASE e.stage \in mask /\ ~ Complete(rec, mask)
  <2>1. KeyFeed(s, i, e) = [s EXCEPT !.recs[i][e.key] = rec]
    BY <1>3 DEF KeyFeed
  <2>2. PICK t, x : t = KeyFeed(s, i, e) /\ x = rec
    OBVIOUS
  <2>3. t = [s EXCEPT !.recs[i][e.key] = x]
    BY <2>1, <2>2
  <2>4. SameRest(t, s)
    BY <1>1, <2>3, ExceptRest
  <2> QED
    BY <2>2, <2>4
<1>4. CASE e.stage \in mask /\ Complete(rec, mask)
  <2>1. KeyFeed(s, i, e) = [s EXCEPT !.recs[i][e.key] = none, !.pending[i] = Append(@, snap)]
    BY <1>4 DEF KeyFeed
  <2>2. PICK t, x, g : t = KeyFeed(s, i, e) /\ x = none /\ g = snap
    OBVIOUS
  <2>3. t = [s EXCEPT !.recs[i][e.key] = x, !.pending[i] = Append(@, g)]
    BY <2>1, <2>2
  <2>4. SameRest(t, s)
    BY <1>1, <2>3, ExceptRest
  <2> QED
    BY <2>2, <2>4
<1> QED
  BY <1>2, <1>3, <1>4

\* A seq matcher changes its own records and groups, and with a complete group
\* the queues and histograms its callbacks know of.
LEMMA SeqFeedIs ==
  ASSUME NEW T, NEW k, NEW s, Sound(s, T, k), NEW e, NEW i \in Seqs,
         NEW t, t = SeqFeed(s, i, e)
  PROVE  /\ SeqFed(t, s, i, e)
         /\ \A m \in Takers \ {i} : SameAt(t, s, m)
         /\ Completes(s, i, e) /\ i \in seq_map => CalledBack(t, s, i, SeqSnap(s, i, e))
         /\ ~ (Completes(s, i, e) /\ i \in seq_map) => SameRest(t, s)
<1> DEFINE mask == Mask(matchers[i].stages)
           rec  == SeqRecord(s.recs[i][e.tid], e, FirstStage(matchers[i].stages))
           snap == Snapshot(rec, mask)
           none == [rec EXCEPT !.filled = {}]
<1>1. mask = MaskOf(i) /\ i \in Takers
  BY DEF MaskOf, Takers
<1>2. DOMAIN s.recs = Takers /\ DOMAIN s.pending = Takers
  BY DEF Sound, RecsOK, PendingOK
<1>3. rec = SeqRec(s, i, e) /\ snap = SeqSnap(s, i, e)
      /\ (Completes(s, i, e) <=> e.stage \in mask /\ Complete(rec, mask))
  BY <1>1 DEF SeqRec, SeqSnap, Completes
<1>4. CASE e.stage \notin mask
  <2>1. t = s
    BY <1>4 DEF SeqFeed
  <2>2. ~ Completes(s, i, e) /\ e.stage \notin MaskOf(i)
    BY <1>1, <1>3, <1>4
  <2> QED
    BY <2>1, <2>2 DEF SameAt, SameRest, SeqFed
<1>5. CASE e.stage \in mask /\ ~ Complete(rec, mask)
  <2>1. t = [s EXCEPT !.recs[i][e.tid] = rec]
    BY <1>5 DEF SeqFeed
  <2>2. PICK x : x = rec
    OBVIOUS
  <2>3. /\ t.recs = [s.recs EXCEPT ![i] = [s.recs[i] EXCEPT ![e.tid] = x]]
        /\ t.pending = s.pending
    BY <1>1, <2>1, <2>2, ExceptFields
  <2>4. SameRest(t, s)
    <3>1. t = [s EXCEPT !.recs[i][e.tid] = x]
      BY <2>1, <2>2
    <3> QED
      BY <1>1, <3>1, ExceptRest
  <2>5. /\ \A m \in Takers \ {i} : SameAt(t, s, m)
        /\ t.recs[i] = [s.recs[i] EXCEPT ![e.tid] = x] /\ t.pending[i] = s.pending[i]
    BY <1>1, <1>2, <2>3 DEF SameAt
  <2>6. ~ Completes(s, i, e) /\ e.stage \in MaskOf(i) /\ x = SeqRec(s, i, e)
    BY <1>1, <1>3, <1>5, <2>2
  <2>7. SeqFed(t, s, i, e)
    BY <2>5, <2>6 DEF SeqFed
  <2> QED
    BY <2>4, <2>5, <2>6, <2>7
<1>6. CASE e.stage \in mask /\ Complete(rec, mask)
  <2>1. PICK x, g : x = none /\ g = snap
    OBVIOUS
  <2>2. PICK u : u = [s EXCEPT !.recs[i][e.tid] = x, !.pending[i] = Append(@, g)]
    OBVIOUS
  <2>3. t = OnComplete(u, i, g)
    BY <1>6, <2>1, <2>2 DEF SeqFeed
  <2>4. /\ u.recs = [s.recs EXCEPT ![i] = [s.recs[i] EXCEPT ![e.tid] = x]]
        /\ u.pending = [s.pending EXCEPT ![i] = Append(s.pending[i], g)]
    BY <1>1, <2>2, ExceptFields
  <2>5. HasFields(u) /\ SameRest(u, s)
    BY <1>1, <2>2, ExceptRest
  <2>6. /\ \A m \in Takers \ {i} : SameAt(u, s, m)
        /\ u.recs[i] = [s.recs[i] EXCEPT ![e.tid] = x] /\ u.pending[i] = Append(s.pending[i], g)
    BY <1>1, <1>2, <2>4 DEF SameAt
  <2>7. t.recs = u.recs /\ t.pending = u.pending
    BY <2>3, <2>5 DEF OnComplete, HasFields
  <2>8. /\ \A m \in Takers \ {i} : SameAt(t, s, m)
        /\ t.recs[i] = [s.recs[i] EXCEPT ![e.tid] = x] /\ t.pending[i] = Append(s.pending[i], g)
    BY <2>6, <2>7 DEF SameAt
  <2>9. Completes(s, i, e) /\ g = SeqSnap(s, i, e) /\ x = [SeqRec(s, i, e) EXCEPT !.filled = {}]
    BY <1>3, <1>6, <2>1
  <2>10. SeqFed(t, s, i, e)
    BY <2>8, <2>9 DEF SeqFed
  <2>11. CASE i \in seq_map
    <3>1. CalledBack(t, u, i, g)
      BY <2>3, <2>5, <2>11 DEF OnComplete, HasFields, CalledBack
    <3>2. CalledBack(t, s, i, g)
      BY <2>5, <3>1 DEF CalledBack, SameRest
    <3> QED
      BY <2>8, <2>9, <2>10, <2>11, <3>2
  <2>12. CASE i \notin seq_map
    <3>1. SameRest(t, s)
      BY <2>3, <2>5, <2>12 DEF OnComplete
    <3> QED
      BY <2>8, <2>10, <2>12, <3>1
  <2> QED
    BY <2>11, <2>12
<1> QED
  BY <1>4, <1>5, <1>6
-----------------------------------------------------------------------------
\* The matchers main() connects are in seq_map, and a queue has one connection.
LEMMA ConnectionOwners ==
  ASSUME NEW c \in Connections
  PROVE  /\ c.push_seq \in seq_map /\ c.pop_seq \in seq_map /\ c.push_seq # c.pop_seq
         /\ \A d \in Connections : d.name = c.name => d = c
<1>1. /\ c.push_seq = OwnerSeq(c.from) /\ c.pop_seq = OwnerSeq(c.to)
      /\ c.push_seq # 0 /\ c.pop_seq # 0 /\ c.push_seq # c.pop_seq
  BY DEF Connections
<1>2. ASSUME NEW stage, OwnerSeq(stage) # 0 PROVE OwnerSeq(stage) \in seq_map
  <2> DEFINE having == {k \in DOMAIN SeqOrder : HasStage(SeqOrder[k], stage)}
  <2>1. having # {}
    BY <1>2 DEF OwnerSeq
  <2>2. SeqOrder \in Seq(seq_map)
    BY SeqOrderAssumption
  <2>3. having \subseteq 1 .. Len(SeqOrder) /\ Len(SeqOrder) \in Nat
    BY <2>2
  <2>4. \E m \in having : \A j \in having : j <= m
    <3> HIDE DEF having
    <3> QED
      BY <2>1, <2>3, LargestExists
  <2>5. OwnerSeq(stage) = SeqOrder[CHOOSE m \in having : \A j \in having : j <= m]
    BY <1>2 DEF OwnerSeq
  <2>6. (CHOOSE m \in having : \A j \in having : j <= m) \in having
    <3> HIDE DEF having
    <3> QED
      BY <2>4
  <2> QED
    BY <2>2, <2>3, <2>5, <2>6
<1> QED
  BY <1>1, <1>2, NamesAssumption

\* The row a complete group g gives for connection c, ts being the oldest entry
\* of its queue.
TheRow(c, ts, g) == Row(c.name, Delta(c.from, c.to, ts, g.ts[c.to], g.tid))

\* What the callbacks of matcher i do to the queue of connection c.
LEMMA CallbackFifo ==
  ASSUME NEW c \in Connections, NEW fifos, NEW i, NEW snap
  PROVE  FifosAfter(fifos, i, snap)[c.name] =
           IF i = c.pop_seq THEN Popped(fifos[c.name])
           ELSE IF i = c.push_seq THEN Pushed(fifos[c.name], snap.ts[c.from], Capacity[c.name])
           ELSE fifos[c.name]
<1> DEFINE pushes == {d \in Connections : d.push_seq = i}
           pops   == {d.name : d \in {b \in Connections : b.pop_seq = i}}
<1>1. c.name \in FifoNames
  BY DEF FifoNames
<1>2. FifosAfter(fifos, i, snap)[c.name] =
        IF c.name \in pops THEN Popped(fifos[c.name])
        ELSE IF \E d \in pushes : d.name = c.name
        THEN Pushed(fifos[c.name], snap.ts[(CHOOSE d \in pushes : d.name = c.name).from], Capacity[c.name])
        ELSE fifos[c.name]
  BY <1>1 DEF FifosAfter
<1>3. c.name \in pops <=> i = c.pop_seq
  BY ConnectionOwners
<1>4. (\E d \in pushes : d.name = c.name) <=> i = c.push_seq
  BY ConnectionOwners
<1>5. ASSUME i = c.push_seq PROVE (CHOOSE d \in pushes : d.name = c.name) = c
  <2>1. c \in pushes /\ \A d \in pushes : d.name = c.name => d = c
    BY <1>5, ConnectionOwners
  <2> QED
    BY <2>1
<1> QED
  BY <1>2, <1>3, <1>4, <1>5

\* The rows they count under the connection's name.
LEMMA CallbackRow ==
  ASSUME NEW c \in Connections, NEW fifos, NEW i, NEW snap, NEW x, x.name = c.name
  PROVE  x \in PopRows(fifos, i, snap) <=>
           i = c.pop_seq /\ fifos[c.name] # <<>> /\ x = TheRow(c, Head(fifos[c.name]), snap)
<1>1. ASSUME x \in PopRows(fifos, i, snap)
      PROVE  i = c.pop_seq /\ fifos[c.name] # <<>> /\ x = TheRow(c, Head(fifos[c.name]), snap)
  <2>1. PICK d \in Connections :
          /\ d.pop_seq = i /\ fifos[d.name] # <<>>
          /\ x = Row(d.name, Delta(d.from, d.to, Head(fifos[d.name]), snap.ts[d.to], snap.tid))
    BY <1>1 DEF PopRows
  <2>2. x.name = d.name
    BY <2>1, RowFields
  <2>3. d = c
    BY <2>2, ConnectionOwners
  <2> QED
    BY <2>1, <2>3 DEF TheRow
<1>2. ASSUME i = c.pop_seq, fifos[c.name] # <<>>, x = TheRow(c, Head(fifos[c.name]), snap)
      PROVE  x \in PopRows(fifos, i, snap)
  BY <1>2 DEF PopRows, TheRow
<1> QED
  BY <1>1, <1>2

\* How often bag b has x.
Times(x, b) == IF x \in DOMAIN b THEN b[x] ELSE 0

\* What counting the rows of two sets does to the number of a row.
IsCounted(n, b, A, B) == n = b (+) SetToBag(A) (+) SetToBag(B)

HasCopies(x, n, b, A, B) ==
  /\ DOMAIN n = DOMAIN b \cup A \cup B
  /\ x \in DOMAIN n =>
       n[x] = (IF x \in DOMAIN b \cup A THEN Times(x, b) + (IF x \in A THEN 1 ELSE 0) ELSE 0)
                + (IF x \in B THEN 1 ELSE 0)

LEMMA CopiesOf ==
  ASSUME NEW b, NEW A, NEW B, NEW x, NEW n, IsCounted(n, b, A, B)
  PROVE  HasCopies(x, n, b, A, B)
<1> DEFINE p == SetToBag(A)
           q == SetToBag(B)
<1>1. DOMAIN p = A /\ DOMAIN q = B /\ (x \in A => p[x] = 1) /\ (x \in B => q[x] = 1)
  BY DEF SetToBag
<1> HIDE DEF p, q
<1>2. PICK m : m = b (+) p
  OBVIOUS
<1>3. /\ DOMAIN m = DOMAIN b \cup A
      /\ x \in DOMAIN m => m[x] = Times(x, b) + Times(x, p)
  BY <1>1, <1>2 DEF (+), Times
<1>4. n = m (+) q
  BY <1>2 DEF p, q, IsCounted
<1>5. /\ DOMAIN n = DOMAIN m \cup B
      /\ x \in DOMAIN n => n[x] = Times(x, m) + Times(x, q)
  BY <1>1, <1>4 DEF (+), Times
<1>6. /\ Times(x, m) = IF x \in DOMAIN m THEN m[x] ELSE 0
      /\ Times(x, p) = IF x \in A THEN 1 ELSE 0
      /\ Times(x, q) = IF x \in B THEN 1 ELSE 0
  BY <1>1 DEF Times
<1> QED
  BY <1>3, <1>5, <1>6 DEF HasCopies

-----------------------------------------------------------------------------
(***************************************************************************)
(* The same for a whole event.  s is the state before it, t the state once *)
(* the first n matchers have been fed.                                     *)
(***************************************************************************)
\* Matcher i has been fed and has completed a group.
Fed(s, i, e, n) == Completes(s, i, e) /\ i <= n

\* Every matcher up to n is fed, none beyond.
TakersUpto(t, s, e, n) ==
  \A m \in Seqs : IF m <= n THEN SeqFed(t, s, m, e) ELSE SameAt(t, s, m)

\* The queue of connection c.
FifoUpto(t, s, c, e, n) ==
  LET q    == s.fifos[c.name]
      push == Fed(s, c.push_seq, e, n)
      pop  == Fed(s, c.pop_seq, e, n)
  IN  /\ ~ push /\ ~ pop => t.fifos[c.name] = q
      /\ push /\ ~ pop =>
           /\ t.fifos[c.name] = Pushed(q, SeqSnap(s, c.push_seq, e).ts[c.from], Capacity[c.name])
           /\ Len(q) = Capacity[c.name] => t.dropped
      /\ ~ push /\ pop => t.fifos[c.name] = Popped(q)
      /\ s.dropped => t.dropped

\* Row x is a row of connection c: it ends with the group its pop_seq completed
\* and, unless the push came with the same event, begins with the oldest entry.
RowOfEvent(x, s, c, e) ==
  /\ x.name = c.name
  /\ x.delta.ts_to = SeqSnap(s, c.pop_seq, e).ts[c.to]
  /\ ~ Completes(s, c.push_seq, e) =>
       /\ s.fifos[c.name] # <<>>
       /\ x = TheRow(c, Head(s.fifos[c.name]), SeqSnap(s, c.pop_seq, e))

\* The histograms: where new rows come from, and which rows there must be.
RowsUpto(t, s, e, n) ==
  /\ \A x \in DOMAIN t.samples :
       \/ x \in DOMAIN s.samples
       \/ \E i \in Seqs : Fed(s, i, e, n) /\ x \in IntraRows(SeqSnap(s, i, e))
       \/ \E c \in Connections : Fed(s, c.pop_seq, e, n) /\ RowOfEvent(x, s, c, e)
  /\ DOMAIN s.samples \subseteq DOMAIN t.samples
  /\ \A i \in seq_map : Fed(s, i, e, n) => IntraRows(SeqSnap(s, i, e)) \subseteq DOMAIN t.samples
  /\ \A c \in Connections :
       Fed(s, c.pop_seq, e, n) /\ ~ Completes(s, c.push_seq, e) /\ s.fifos[c.name] # <<>> =>
         TheRow(c, Head(s.fifos[c.name]), SeqSnap(s, c.pop_seq, e)) \in DOMAIN t.samples

\* Under the name of a connection at most one row is counted.
CountUpto(t, s, c, e, n) ==
  \A x : x.name = c.name =>
    \/ /\ x \in DOMAIN t.samples <=> x \in DOMAIN s.samples
       /\ x \in DOMAIN s.samples /\ s.samples[x] \in Nat => t.samples[x] = s.samples[x]
    \/ /\ Fed(s, c.pop_seq, e, n)
       /\ x.delta.ts_to = SeqSnap(s, c.pop_seq, e).ts[c.to]
       /\ x \in DOMAIN t.samples
       /\ x \notin DOMAIN s.samples => t.samples[x] = 1

LEMMA FedGrows ==
  ASSUME NEW s, NEW e, NEW n \in Nat \ {0}, NEW i \in Nat
  PROVE  /\ i # n => (Fed(s, i, e, n) <=> Fed(s, i, e, n - 1))
         /\ i = n => ~ Fed(s, i, e, n - 1) /\ (Fed(s, i, e, n) <=> Completes(s, i, e))
BY DEF Fed

\* What a matcher makes of an event depends on what it held alone.
LEMMA CompletesSame ==
  ASSUME NEW s, NEW t, NEW m, NEW e, SameAt(t, s, m)
  PROVE  /\ Completes(t, m, e) <=> Completes(s, m, e)
         /\ SeqSnap(t, m, e) = SeqSnap(s, m, e)
         /\ SeqRec(t, m, e) = SeqRec(s, m, e)
BY DEF SameAt, Completes, SeqSnap, SeqRec

\* One more matcher is fed: the queues.
LEMMA FifoFedNext ==
  ASSUME NEW s, NEW t, NEW u, NEW e, NEW n \in Nat \ {0}, NEW c \in Connections,
         FifoUpto(t, s, c, e, n - 1),
         \/ /\ n \in seq_map /\ Completes(s, n, e) /\ CalledBack(u, t, n, SeqSnap(s, n, e))
         \/ ~ (n \in seq_map /\ Completes(s, n, e)) /\ SameRest(u, t)
  PROVE  FifoUpto(u, s, c, e, n)
<1>1. /\ c.push_seq \in Nat /\ c.pop_seq \in Nat /\ c.push_seq \in seq_map /\ c.pop_seq \in seq_map
      /\ c.push_seq # c.pop_seq
  BY ConnectionOwners, ConnectionTypes, MatcherTypes
<1>2. CASE n = c.push_seq /\ Completes(s, n, e)
  <2>1. /\ ~ Fed(s, c.push_seq, e, n - 1) /\ Fed(s, c.push_seq, e, n)
        /\ Fed(s, c.pop_seq, e, n) <=> Fed(s, c.pop_seq, e, n - 1)
    BY <1>1, <1>2, FedGrows
  <2>2. CalledBack(u, t, n, SeqSnap(s, n, e))
    BY <1>1, <1>2
  <2>3. /\ u.fifos[c.name] = Pushed(t.fifos[c.name], SeqSnap(s, n, e).ts[c.from], Capacity[c.name])
        /\ Len(t.fifos[c.name]) = Capacity[c.name] => u.dropped
        /\ t.dropped => u.dropped
    BY <1>1, <1>2, <2>2, CallbackFifo DEF CalledBack
  <2> QED
    BY <1>2, <2>1, <2>3 DEF FifoUpto
<1>3. CASE n = c.pop_seq /\ Completes(s, n, e)
  <2>1. /\ ~ Fed(s, c.pop_seq, e, n - 1) /\ Fed(s, c.pop_seq, e, n)
        /\ Fed(s, c.push_seq, e, n) <=> Fed(s, c.push_seq, e, n - 1)
    BY <1>1, <1>3, FedGrows
  <2>2. CalledBack(u, t, n, SeqSnap(s, n, e))
    BY <1>1, <1>3
  <2>3. /\ u.fifos[c.name] = Popped(t.fifos[c.name])
        /\ t.dropped => u.dropped
    BY <1>1, <1>3, <2>2, CallbackFifo DEF CalledBack
  <2> QED
    BY <1>3, <2>1, <2>3 DEF FifoUpto
<1>4. CASE ~ (n \in {c.push_seq, c.pop_seq} /\ Completes(s, n, e))
  <2>1. /\ Fed(s, c.push_seq, e, n) <=> Fed(s, c.push_seq, e, n - 1)
        /\ Fed(s, c.pop_seq, e, n) <=> Fed(s, c.pop_seq, e, n - 1)
    BY <1>1, <1>4, FedGrows
  <2>2. u.fifos[c.name] = t.fifos[c.name] /\ (t.dropped => u.dropped)
    <3>1. CASE n \in seq_map /\ Completes(s, n, e) /\ CalledBack(u, t, n, SeqSnap(s, n, e))
      BY <1>4, <3>1, CallbackFifo DEF CalledBack
    <3>2. CASE SameRest(u, t)
      BY <3>2 DEF SameRest
    <3> QED
      BY <3>1, <3>2
  <2> QED
    BY <2>1, <2>2 DEF FifoUpto
<1> QED
  BY <1>2, <1>3, <1>4

\* The histograms.
LEMMA RowsFedNext ==
  ASSUME NEW s, NEW t, NEW u, NEW e, NEW n \in Nat \ {0},
         \A c \in Connections : FifoUpto(t, s, c, e, n - 1), RowsUpto(t, s, e, n - 1),
         \/ /\ n \in seq_map /\ Completes(s, n, e) /\ CalledBack(u, t, n, SeqSnap(s, n, e))
         \/ ~ (n \in seq_map /\ Completes(s, n, e)) /\ SameRest(u, t)
  PROVE  RowsUpto(u, s, e, n)
<1>1. \A c \in Connections : c.push_seq \in Nat /\ c.pop_seq \in Nat /\ c.pop_seq \in seq_map
  BY ConnectionOwners, ConnectionTypes, MatcherTypes
<1>2. Seqs \subseteq Nat /\ seq_map \subseteq Seqs
  BY MatcherTypes DEF seq_map
<1>3. \A i \in Nat : Fed(s, i, e, n - 1) => Fed(s, i, e, n)
  BY FedGrows
<1>4. CASE ~ (n \in seq_map /\ Completes(s, n, e)) /\ SameRest(u, t)
  <2>1. u.samples = t.samples
    BY <1>4 DEF SameRest
  <2>2. \A i \in seq_map : Fed(s, i, e, n) <=> Fed(s, i, e, n - 1)
    BY <1>2, <1>4, FedGrows
  <2>3. \A x \in DOMAIN u.samples :
          \/ x \in DOMAIN s.samples
          \/ \E i \in Seqs : Fed(s, i, e, n) /\ x \in IntraRows(SeqSnap(s, i, e))
          \/ \E c \in Connections : Fed(s, c.pop_seq, e, n) /\ RowOfEvent(x, s, c, e)
    BY <1>1, <1>2, <1>3, <2>1 DEF RowsUpto
  <2> QED
    BY <1>1, <2>1, <2>2, <2>3 DEF RowsUpto
<1>5. CASE n \in seq_map /\ Completes(s, n, e) /\ CalledBack(u, t, n, SeqSnap(s, n, e))
  <2>1. PICK g : g = SeqSnap(s, n, e)
    OBVIOUS
  <2>2. PICK A, B : A = IntraRows(g) /\ B = PopRows(t.fifos, n, g)
    OBVIOUS
  <2>3. DOMAIN u.samples = DOMAIN t.samples \cup A \cup B
    <3>1. PICK p, q : p = u.samples /\ q = t.samples
      OBVIOUS
    <3>2. IsCounted(p, q, A, B)
      BY <1>5, <2>1, <2>2, <3>1 DEF CalledBack, IsCounted
    <3>3. HasCopies(p, p, q, A, B)
      BY <3>2, CopiesOf
    <3> QED
      BY <3>1, <3>3 DEF HasCopies
  <2>4. Fed(s, n, e, n) /\ \A i \in seq_map : i # n => (Fed(s, i, e, n) <=> Fed(s, i, e, n - 1))
    BY <1>2, <1>5, FedGrows
  <2>5. ASSUME NEW x \in DOMAIN u.samples
        PROVE  \/ x \in DOMAIN s.samples
               \/ \E i \in Seqs : Fed(s, i, e, n) /\ x \in IntraRows(SeqSnap(s, i, e))
               \/ \E c \in Connections : Fed(s, c.pop_seq, e, n) /\ RowOfEvent(x, s, c, e)
    <3>1. CASE x \in DOMAIN t.samples
      BY <1>1, <1>2, <1>3, <3>1 DEF RowsUpto
    <3>2. CASE x \in A
      BY <1>2, <1>5, <2>1, <2>2, <2>4, <3>2
    <3>3. CASE x \in B
      <4>1. PICK c \in Connections :
              /\ c.pop_seq = n /\ t.fifos[c.name] # <<>> /\ x = TheRow(c, Head(t.fifos[c.name]), g)
        BY <2>2, <3>3 DEF PopRows, TheRow
      <4>2. x.name = c.name /\ x.delta.ts_to = g.ts[c.to]
        BY <4>1, RowFields DEF TheRow
      <4>3. ASSUME ~ Completes(s, c.push_seq, e) PROVE t.fifos[c.name] = s.fifos[c.name]
        <5>1. ~ Fed(s, c.push_seq, e, n - 1) /\ ~ Fed(s, c.pop_seq, e, n - 1)
          BY <1>1, <4>1, <4>3, FedGrows DEF Fed
        <5> QED
          BY <5>1 DEF FifoUpto
      <4>4. RowOfEvent(x, s, c, e)
        BY <2>1, <4>1, <4>2, <4>3 DEF RowOfEvent
      <4> QED
        BY <2>4, <4>1, <4>4
    <3> QED
      BY <2>3, <3>1, <3>2, <3>3
  <2>6. DOMAIN s.samples \subseteq DOMAIN u.samples
    BY <2>3 DEF RowsUpto
  <2>7. ASSUME NEW i \in seq_map, Fed(s, i, e, n)
        PROVE  IntraRows(SeqSnap(s, i, e)) \subseteq DOMAIN u.samples
    <3>1. CASE i = n
      BY <2>1, <2>2, <2>3, <3>1
    <3>2. CASE i # n
      BY <2>3, <2>4, <2>7, <3>2 DEF RowsUpto
    <3> QED
      BY <3>1, <3>2
  <2>8. ASSUME NEW c \in Connections, Fed(s, c.pop_seq, e, n), ~ Completes(s, c.push_seq, e),
               s.fifos[c.name] # <<>>
        PROVE  TheRow(c, Head(s.fifos[c.name]), SeqSnap(s, c.pop_seq, e)) \in DOMAIN u.samples
    <3>1. CASE c.pop_seq = n
      <4>1. ~ Fed(s, c.push_seq, e, n - 1) /\ ~ Fed(s, c.pop_seq, e, n - 1)
        BY <1>1, <2>8, <3>1, FedGrows DEF Fed
      <4>2. t.fifos[c.name] = s.fifos[c.name]
        BY <4>1 DEF FifoUpto
      <4>3. TheRow(c, Head(t.fifos[c.name]), g) \in B
        BY <2>2, <2>8, <3>1, <4>2 DEF PopRows, TheRow
      <4> QED
        BY <2>1, <2>3, <3>1, <4>2, <4>3
    <3>2. CASE c.pop_seq # n
      BY <1>1, <2>3, <2>4, <2>8, <3>2 DEF RowsUpto
    <3> QED
      BY <3>1, <3>2
  <2> QED
    BY <2>5, <2>6, <2>7, <2>8 DEF RowsUpto
<1> QED
  BY <1>4, <1>5

\* A seq matcher's rows do not have the name of a connection.
LEMMA IntraNamesApart ==
  ASSUME ReportsApart, NEW c \in Connections, NEW s, NEW e, NEW i \in Seqs,
         NEW x \in IntraRows(SeqSnap(s, i, e))
  PROVE  x.name # c.name
<1>1. SeqSnap(s, i, e).stages = MaskOf(i)
  BY DEF SeqSnap, Snapshot
<1>2. PICK g : g = SeqSnap(s, i, e)
  OBVIOUS
<1>3. PICK p \in DOMAIN report_keys :
        /\ {p[1], p[2]} \subseteq g.stages
        /\ x = Row(report_keys[p], Delta(p[1], p[2], g.ts[p[1]], g.ts[p[2]], g.tid))
  BY <1>2 DEF IntraRows
<1>4. x.name = report_keys[p]
  BY <1>3, RowFields
<1>5. PICK j \in DOMAIN reports : p = <<reports[j].from, reports[j].to>> /\ report_keys[p] = reports[j].name
  BY ReportKeys
<1>6. HasStage(i, reports[j].from) /\ HasStage(i, reports[j].to)
  BY <1>1, <1>2, <1>3, <1>5 DEF HasStage, MaskOf
<1>7. reports[j].name \notin FifoNames
  BY <1>6 DEF ReportsApart
<1> QED
  BY <1>4, <1>5, <1>7 DEF FifoNames

LEMMA CountFedNext ==
  ASSUME ReportsApart, NEW s, NEW t, NEW u, NEW e, NEW n \in Nat \ {0}, NEW c \in Connections,
         CountUpto(t, s, c, e, n - 1),
         \/ /\ n \in seq_map /\ Completes(s, n, e) /\ CalledBack(u, t, n, SeqSnap(s, n, e))
         \/ ~ (n \in seq_map /\ Completes(s, n, e)) /\ SameRest(u, t)
  PROVE  CountUpto(u, s, c, e, n)
<1> SUFFICES ASSUME NEW x, x.name = c.name
             PROVE  \/ /\ x \in DOMAIN u.samples <=> x \in DOMAIN s.samples
                       /\ x \in DOMAIN s.samples /\ s.samples[x] \in Nat => u.samples[x] = s.samples[x]
                    \/ /\ Fed(s, c.pop_seq, e, n)
                       /\ x.delta.ts_to = SeqSnap(s, c.pop_seq, e).ts[c.to]
                       /\ x \in DOMAIN u.samples
                       /\ x \notin DOMAIN s.samples => u.samples[x] = 1
  BY DEF CountUpto
<1>1. c.pop_seq \in Nat /\ c.pop_seq \in seq_map
  BY ConnectionOwners, ConnectionTypes, MatcherTypes
<1>2. seq_map \subseteq Seqs
  BY DEF seq_map
<1>3. \/ /\ x \in DOMAIN t.samples <=> x \in DOMAIN s.samples
         /\ x \in DOMAIN s.samples /\ s.samples[x] \in Nat => t.samples[x] = s.samples[x]
      \/ /\ Fed(s, c.pop_seq, e, n - 1)
         /\ x.delta.ts_to = SeqSnap(s, c.pop_seq, e).ts[c.to]
         /\ x \in DOMAIN t.samples
         /\ x \notin DOMAIN s.samples => t.samples[x] = 1
  BY DEF CountUpto
<1>4. Fed(s, c.pop_seq, e, n - 1) => Fed(s, c.pop_seq, e, n)
  BY <1>1, FedGrows
<1>5. CASE ~ (n \in seq_map /\ Completes(s, n, e)) /\ SameRest(u, t)
  BY <1>3, <1>4, <1>5 DEF SameRest
<1>6. CASE n \in seq_map /\ Completes(s, n, e) /\ CalledBack(u, t, n, SeqSnap(s, n, e))
  <2>1. PICK g : g = SeqSnap(s, n, e)
    OBVIOUS
  <2>2. PICK A, B : A = IntraRows(g) /\ B = PopRows(t.fifos, n, g)
    OBVIOUS
  <2>3. HasCopies(x, u.samples, t.samples, A, B)
    <3>1. PICK p, q : p = u.samples /\ q = t.samples
      OBVIOUS
    <3>2. IsCounted(p, q, A, B)
      BY <1>6, <2>1, <2>2, <3>1 DEF CalledBack, IsCounted
    <3>3. HasCopies(x, p, q, A, B)
      BY <3>2, CopiesOf
    <3> QED
      BY <3>1, <3>3
  <2>4. x \notin A
    BY <1>2, <1>6, <2>1, <2>2, IntraNamesApart
  <2>5. CASE x \notin B
    <3>1. /\ x \in DOMAIN u.samples <=> x \in DOMAIN t.samples
          /\ x \in DOMAIN t.samples /\ t.samples[x] \in Nat => u.samples[x] = t.samples[x]
      BY <2>3, <2>4, <2>5 DEF HasCopies, Times
    <3> QED
      BY <1>3, <1>4, <3>1
  <2>6. CASE x \in B
    <3>1. n = c.pop_seq /\ x = TheRow(c, Head(t.fifos[c.name]), g)
      BY <2>2, <2>6, CallbackRow
    <3>2. x.delta.ts_to = g.ts[c.to]
      BY <3>1, RowFields DEF TheRow
    <3>3. ~ Fed(s, c.pop_seq, e, n - 1) /\ Fed(s, c.pop_seq, e, n)
      BY <1>1, <1>6, <3>1, FedGrows
    <3>4. /\ x \in DOMAIN u.samples
          /\ x \notin DOMAIN t.samples => u.samples[x] = 1
      BY <2>3, <2>4, <2>6 DEF HasCopies, Times
    <3> QED
      BY <1>3, <2>1, <3>1, <3>2, <3>3, <3>4
  <2> QED
    BY <2>5, <2>6
<1> QED
  BY <1>5, <1>6
\* Everything said above about the state once the first n matchers are fed.
EventUpto(t, s, e, n) ==
  /\ TakersUpto(t, s, e, n)
  /\ \A c \in Connections : FifoUpto(t, s, c, e, n)
  /\ RowsUpto(t, s, e, n)
  /\ ReportsApart => \A c \in Connections : CountUpto(t, s, c, e, n)
  /\ s.dropped => t.dropped

LEMMA EventUptoFirst ==
  ASSUME NEW s, NEW e
  PROVE  EventUpto(s, s, e, 0)
<1>1. Seqs \subseteq Nat \ {0} /\ \A c \in Connections : c.push_seq \in Seqs /\ c.pop_seq \in Seqs
  BY ConnectionTypes, MatcherTypes
<1>2. \A i \in Seqs : ~ Fed(s, i, e, 0)
  BY <1>1 DEF Fed
<1>3. TakersUpto(s, s, e, 0)
  BY <1>1 DEF TakersUpto, SameAt
<1>4. \A c \in Connections : FifoUpto(s, s, c, e, 0)
  BY <1>1, <1>2 DEF FifoUpto
<1>5. RowsUpto(s, s, e, 0)
  BY <1>1, <1>2 DEF RowsUpto, seq_map
<1>6. \A c \in Connections : CountUpto(s, s, c, e, 0)
  BY DEF CountUpto
<1> QED
  BY <1>3, <1>4, <1>5, <1>6 DEF EventUpto

LEMMA SeqFedSame ==
  ASSUME NEW s, NEW t, NEW u, NEW m, NEW e
  PROVE  /\ SeqFed(t, s, m, e) /\ SameAt(u, t, m) => SeqFed(u, s, m, e)
         /\ SeqFed(u, t, m, e) /\ SameAt(t, s, m) => SeqFed(u, s, m, e)
<1>1. ASSUME SeqFed(t, s, m, e), SameAt(u, t, m) PROVE SeqFed(u, s, m, e)
  BY <1>1 DEF SeqFed, SameAt
<1>2. ASSUME SeqFed(u, t, m, e), SameAt(t, s, m) PROVE SeqFed(u, s, m, e)
  <2>1. /\ Completes(t, m, e) <=> Completes(s, m, e)
        /\ SeqSnap(t, m, e) = SeqSnap(s, m, e)
        /\ SeqRec(t, m, e) = SeqRec(s, m, e)
    BY <1>2, CompletesSame
  <2> QED
    BY <1>2, <2>1 DEF SeqFed, SameAt
<1> QED
  BY <1>1, <1>2

LEMMA EventUptoNext ==
  ASSUME NEW T, NEW k, NEW s, NEW t, Sound(t, T, k), NEW e, NEW n \in Nat \ {0},
         EventUpto(t, s, e, n - 1), NEW u, u = Feed(t, n, e)
  PROVE  EventUpto(u, s, e, n)
<1>1. Seqs \subseteq Nat \ {0} /\ seq_map \subseteq Seqs /\ Seqs \subseteq Takers /\ Seqs \cap KeyMs = {}
  BY MatcherTypes DEF seq_map, Takers
<1>2. \A m \in Seqs : IF m <= n - 1 THEN SeqFed(t, s, m, e) ELSE SameAt(t, s, m)
  BY DEF EventUpto, TakersUpto
<1>3. /\ n \in Seqs => SeqFed(u, t, n, e)
      /\ \A m \in Seqs \ {n} : SameAt(u, t, m)
      /\ \/ /\ n \in seq_map /\ Completes(t, n, e) /\ CalledBack(u, t, n, SeqSnap(t, n, e))
         \/ ~ (n \in seq_map /\ Completes(t, n, e)) /\ SameRest(u, t)
  <2>1. CASE n \in Seqs
    <3>1. u = SeqFeed(t, n, e)
      BY <2>1 DEF Feed
    <3>2. /\ SeqFed(u, t, n, e)
          /\ \A m \in Takers \ {n} : SameAt(u, t, m)
          /\ Completes(t, n, e) /\ n \in seq_map => CalledBack(u, t, n, SeqSnap(t, n, e))
          /\ ~ (Completes(t, n, e) /\ n \in seq_map) => SameRest(u, t)
      BY <2>1, <3>1, SeqFeedIs
    <3> QED
      BY <1>1, <3>2
  <2>2. CASE n \in KeyMs
    <3>1. u = KeyFeed(t, n, e)
      BY <1>1, <2>2 DEF Feed
    <3>2. SameRest(u, t) /\ \A m \in Takers \ {n} : SameAt(u, t, m)
      BY <2>2, <3>1, KeyFeedRest, KeyFeedOn
    <3> QED
      BY <1>1, <2>2, <3>2
  <2>3. CASE n \notin Seqs /\ n \notin KeyMs
    <3>1. u = t
      BY <2>3 DEF Feed
    <3> QED
      BY <1>1, <2>3, <3>1 DEF SameRest, SameAt
  <2> QED
    BY <2>1, <2>2, <2>3
<1>4. n \in Seqs => SameAt(t, s, n)
  BY <1>2
<1>5. TakersUpto(u, s, e, n)
  <2> SUFFICES ASSUME NEW m \in Seqs
               PROVE  IF m <= n THEN SeqFed(u, s, m, e) ELSE SameAt(u, s, m)
    BY DEF TakersUpto
  <2>1. CASE m = n
    BY <1>3, <1>4, <2>1, SeqFedSame
  <2>2. CASE m # n /\ m <= n
    <3>1. m <= n - 1
      BY <1>1, <2>2
    <3> QED
      BY <1>2, <1>3, <2>2, <3>1, SeqFedSame
  <2>3. CASE ~ (m <= n)
    <3>1. ~ (m <= n - 1) /\ m # n
      BY <1>1, <2>3
    <3> QED
      BY <1>2, <1>3, <2>3, <3>1 DEF SameAt
  <2> QED
    BY <2>1, <2>2, <2>3
<1>6. \/ /\ n \in seq_map /\ Completes(s, n, e) /\ CalledBack(u, t, n, SeqSnap(s, n, e))
      \/ ~ (n \in seq_map /\ Completes(s, n, e)) /\ SameRest(u, t)
  BY <1>1, <1>3, <1>4, CompletesSame
<1>7. ASSUME NEW c \in Connections PROVE FifoUpto(u, s, c, e, n)
  BY <1>6, FifoFedNext DEF EventUpto
<1>8. RowsUpto(u, s, e, n)
  BY <1>6, RowsFedNext DEF EventUpto
<1>9. ASSUME ReportsApart, NEW c \in Connections PROVE CountUpto(u, s, c, e, n)
  BY <1>6, <1>9, CountFedNext DEF EventUpto
<1>10. s.dropped => u.dropped
  <2>1. s.dropped => t.dropped
    BY DEF EventUpto
  <2>2. t.dropped => u.dropped
    BY <1>6 DEF CalledBack, SameRest
  <2> QED
    BY <2>1, <2>2
<1> QED
  BY <1>5, <1>7, <1>8, <1>9, <1>10 DEF EventUpto

\* What an event does (lensx.cpp:335-342).
LEMMA EventDoes ==
  ASSUME NEW T, T \subseteq Nat, NEW k, NEW s, Sound(s, T, k), NEW e \in Events(T, k)
  PROVE  EventUpto(HandleRingEvent(s, e), s, e, Len(matchers))
<1>1. PICK f : IsFed(f, s, e) /\ HandleRingEvent(s, e) = f[Len(matchers)]
  BY HandleRingEventIs
<1>2. /\ f[0] = s /\ \A n \in 1 .. Len(matchers) : f[n] = Feed(f[n - 1], n, e)
      /\ \A n \in 0 .. Len(matchers) : Sound(f[n], T, k)
  BY <1>1, FedSound
<1> DEFINE N == Len(matchers)
           Bad == {n \in 0 .. N : ~ EventUpto(f[n], s, e, n)}
<1>3. N \in Nat
  BY MatcherTypes
<1>4. EventUpto(f[0], s, e, 0)
  BY <1>2, EventUptoFirst
<1>5. ASSUME NEW n \in 1 .. N, EventUpto(f[n - 1], s, e, n - 1) PROVE EventUpto(f[n], s, e, n)
  <2>1. f[n] = Feed(f[n - 1], n, e) /\ Sound(f[n - 1], T, k) /\ n \in Nat \ {0}
    BY <1>2, <1>3
  <2> QED
    BY <1>5, <2>1, EventUptoNext
<1>6. Bad = {}
  <2> SUFFICES ASSUME Bad # {} PROVE FALSE
    OBVIOUS
  <2>1. PICK n \in Bad : \A m \in Bad : n <= m
    <3>1. Bad \subseteq Nat
      BY <1>3
    <3> HIDE DEF Bad
    <3> QED
      BY <3>1, SmallestExists
  <2>2. n \in 1 .. N /\ n - 1 \in 0 .. N
    BY <1>3, <1>4
  <2>3. n - 1 \notin Bad
    <3>1. ~ (n <= n - 1)
      BY <2>2
    <3> HIDE DEF Bad
    <3> QED
      BY <2>1, <3>1
  <2> QED
    BY <1>5, <2>2, <2>3
<1> QED
  BY <1>1, <1>3, <1>6

\* The same, with all matchers fed.
LEMMA EventResult ==
  ASSUME NEW T, T \subseteq Nat, NEW k, NEW s, Sound(s, T, k), NEW e \in Events(T, k),
         NEW t, t = HandleRingEvent(s, e), NEW N, N = Len(matchers)
  PROVE  /\ \A m \in Seqs : SeqFed(t, s, m, e)
         /\ \A m \in Seqs : Fed(s, m, e, N) <=> Completes(s, m, e)
         /\ \A c \in Connections : FifoUpto(t, s, c, e, N)
         /\ RowsUpto(t, s, e, N)
         /\ ReportsApart => \A c \in Connections : CountUpto(t, s, c, e, N)
         /\ s.dropped => t.dropped
<1>1. N \in Nat /\ Seqs \subseteq Nat /\ \A m \in Seqs : m <= N
  BY MatcherTypes
<1>2. EventUpto(t, s, e, N)
  BY EventDoes
<1> QED
  BY <1>1, <1>2 DEF EventUpto, TakersUpto, Fed
-----------------------------------------------------------------------------
(***************************************************************************)
(* No event is measured twice.  R is the set of timestamps still in the    *)
(* ring buffer.                                                            *)
(***************************************************************************)
Stamps(r) == {r[n].ts : n \in DOMAIN r}

RingApart(r) == \A m, n \in DOMAIN r : r[m].ts = r[n].ts => m = n

\* Of what matcher m holds no two timestamps of stage g are the same, and none is
\* still to come.
StageApart(recs, groups, m, g, R) ==
  /\ \A a \in Ids(m) : g \in recs[a].filled => recs[a].ts[g] \notin R
  /\ \A a, b \in Ids(m) :
       g \in recs[a].filled /\ g \in recs[b].filled /\ recs[a].ts[g] = recs[b].ts[g] => a = b
  /\ \A n \in DOMAIN groups : groups[n].ts[g] \notin R
  /\ \A n \in DOMAIN groups : \A a \in Ids(m) :
       g \in recs[a].filled => recs[a].ts[g] # groups[n].ts[g]
  /\ \A n, p \in DOMAIN groups : groups[n].ts[g] = groups[p].ts[g] => n = p

MatcherApart(recs, groups, m, R) ==
  \A g \in MaskOf(m) : StageApart(recs, groups, m, g, R)

\* A sample of a queue is counted once, with a group that is pending.
RowOnce(x, s, c) ==
  /\ s.samples[x] = 1
  /\ \E n \in DOMAIN s.pending[c.pop_seq] : x.delta.ts_to = s.pending[c.pop_seq][n].ts[c.to]

RowsOnce(s) ==
  \A c \in Connections : \A x \in DOMAIN s.samples : x.name = c.name => RowOnce(x, s, c)

OnceOK(s, R) ==
  /\ \A m \in Takers : MatcherApart(s.recs[m], s.pending[m], m, R)
  /\ RowsOnce(s)
  /\ \A x \in DOMAIN s.samples : x.name \notin KeyNames

CountOK(samples) ==
  \A x \in DOMAIN samples : x.name \in FifoNames \cup KeyNames => samples[x] = 1

OnceInv ==
  /\ RingApart(ring)
  /\ phase # "done" => OnceOK(st, Stamps(ring))
  /\ CountOK(st.samples)

\* Record rec is record old with event e.
Extends1(rec, old, e) ==
  \A g \in rec.filled :
    \/ g = e.stage /\ rec.ts[g] = e.ts
    \/ g # e.stage /\ g \in old.filled /\ rec.ts[g] = old.ts[g]

\* A matcher that has been fed holds e in the record of id, or in a new group.
Taken(q, h, recs, groups, m, id, e) ==
  \E rec, none, snap :
    /\ Extends1(rec, recs[id], e)
    /\ \/ q = [recs EXCEPT ![id] = rec] /\ h = groups
       \/ /\ q = [recs EXCEPT ![id] = none] /\ none.filled = {}
          /\ h = Append(groups, snap) /\ snap.ts = rec.ts /\ MaskOf(m) \subseteq rec.filled

LEMMA StageStep ==
  ASSUME NEW m, NEW recs, recs = [a \in Ids(m) |-> recs[a]], NEW G, NEW groups \in Seq(G), NEW R,
         NEW g \in MaskOf(m), StageApart(recs, groups, m, g, R),
         NEW id \in Ids(m), NEW e, e.ts \in R,
         NEW q, NEW h, Taken(q, h, recs, groups, m, id, e), NEW Q, Q \subseteq R \ {e.ts}
  PROVE  StageApart(q, h, m, g, Q)
<1>1. PICK rec, none, snap :
        /\ Extends1(rec, recs[id], e)
        /\ \/ q = [recs EXCEPT ![id] = rec] /\ h = groups
           \/ /\ q = [recs EXCEPT ![id] = none] /\ none.filled = {}
              /\ h = Append(groups, snap) /\ snap.ts = rec.ts /\ MaskOf(m) \subseteq rec.filled
  BY DEF Taken
<1>2. /\ DOMAIN recs = Ids(m) /\ Len(groups) \in Nat /\ DOMAIN groups = 1 .. Len(groups)
  OBVIOUS
<1>3. g \in rec.filled => \/ rec.ts[g] = e.ts
                          \/ g \in recs[id].filled /\ rec.ts[g] = recs[id].ts[g]
  BY <1>1 DEF Extends1
<1>4. /\ g \in rec.filled => rec.ts[g] \notin Q
      /\ \A a \in Ids(m) : a # id /\ g \in rec.filled /\ g \in recs[a].filled => rec.ts[g] # recs[a].ts[g]
      /\ \A n \in DOMAIN groups : g \in rec.filled => rec.ts[g] # groups[n].ts[g]
  BY <1>3 DEF StageApart
<1>5. CASE q = [recs EXCEPT ![id] = rec] /\ h = groups
  <2>1. q[id] = rec /\ \A a \in Ids(m) : a # id => q[a] = recs[a]
    BY <1>2, <1>5
  <2> QED
    BY <1>4, <1>5, <2>1 DEF StageApart
<1>6. CASE /\ q = [recs EXCEPT ![id] = none] /\ none.filled = {}
           /\ h = Append(groups, snap) /\ snap.ts = rec.ts /\ MaskOf(m) \subseteq rec.filled
  <2>1. q[id] = none /\ \A a \in Ids(m) : a # id => q[a] = recs[a]
    BY <1>2, <1>6
  <2>2. /\ g \in rec.filled /\ snap.ts[g] = rec.ts[g]
    BY <1>6
  <2>3. \A a \in Ids(m) : g \in q[a].filled => a # id /\ g \in recs[a].filled /\ q[a].ts[g] = recs[a].ts[g]
    BY <1>6, <2>1
  <2>4. /\ DOMAIN h = DOMAIN groups \cup {Len(groups) + 1} /\ Len(groups) + 1 \notin DOMAIN groups
        /\ h[Len(groups) + 1] = snap /\ \A n \in DOMAIN groups : h[n] = groups[n]
    BY <1>2, <1>6
  <2>5. \A n \in DOMAIN h : \/ n \in DOMAIN groups /\ h[n] = groups[n]
                            \/ n = Len(groups) + 1 /\ h[n].ts[g] = rec.ts[g]
    BY <2>2, <2>4
  <2>6. \A a \in Ids(m) : g \in q[a].filled => q[a].ts[g] \notin Q
    BY <2>3 DEF StageApart
  <2>7. \A a, b \in Ids(m) :
          g \in q[a].filled /\ g \in q[b].filled /\ q[a].ts[g] = q[b].ts[g] => a = b
    BY <2>3 DEF StageApart
  <2>8. \A n \in DOMAIN h : h[n].ts[g] \notin Q
    BY <1>4, <2>2, <2>5 DEF StageApart
  <2>9. \A n \in DOMAIN h : \A a \in Ids(m) : g \in q[a].filled => q[a].ts[g] # h[n].ts[g]
    BY <1>4, <2>2, <2>3, <2>5 DEF StageApart
  <2>10. \A n, p \in DOMAIN h : h[n].ts[g] = h[p].ts[g] => n = p
    BY <1>4, <2>2, <2>5 DEF StageApart
  <2> QED
    BY <2>6, <2>7, <2>8, <2>9, <2>10 DEF StageApart
<1> QED
  BY <1>1, <1>5, <1>6

\* What is apart stays apart when fewer or other events are to come.
LEMMA StageFewer ==
  ASSUME NEW m, NEW g, NEW recs, NEW groups, NEW R, NEW Q, Q \subseteq R,
         StageApart(recs, groups, m, g, R)
  PROVE  StageApart(recs, groups, m, g, Q)
BY DEF StageApart

LEMMA SeqRecExtends ==
  ASSUME NEW m, NEW old \in Records(m), NEW e, e.stage \in MaskOf(m), e.ts \in Nat, e.tid \in Tids, NEW first
  PROVE  Extends1(SeqRecord(old, e, first), old, e)
<1> DEFINE base == IF e.stage = first THEN [old EXCEPT !.filled = {}, !.tid = e.tid] ELSE old
<1>1. base \in Records(m) /\ base.filled \subseteq old.filled /\ base.ts = old.ts
  BY DEF Records
<1>2. SeqRecord(old, e, first) = Fill(base, e)
  BY DEF SeqRecord
<1> HIDE DEF base
<1>3. PICK rec : rec = SeqRecord(old, e, first)
  OBVIOUS
<1>4. rec.ts = [base.ts EXCEPT ![e.stage] = e.ts] /\ rec.filled = base.filled \cup {e.stage}
  BY <1>1, <1>2, <1>3, FillFields
<1>5. base.ts \in [MaskOf(m) -> Nat] /\ base.filled \subseteq MaskOf(m)
  BY <1>1 DEF Records
<1>6. Extends1(rec, old, e)
  BY <1>1, <1>4, <1>5 DEF Extends1
<1> QED
  BY <1>3, <1>6

LEMMA KeyRecExtends ==
  ASSUME NEW m, NEW old \in Records(m), NEW e, e.stage \in MaskOf(m), e.ts \in Nat, e.tid \in Tids, NEW first
  PROVE  Extends1(KeyRecord(old, e, first), old, e)
<1> DEFINE base == IF e.stage = first THEN [old EXCEPT !.tid = e.tid] ELSE old
<1>1. base \in Records(m) /\ base.filled \subseteq old.filled /\ base.ts = old.ts
  BY DEF Records
<1>2. KeyRecord(old, e, first) = Fill(base, e)
  BY DEF KeyRecord
<1> HIDE DEF base
<1>3. PICK rec : rec = KeyRecord(old, e, first)
  OBVIOUS
<1>4. rec.ts = [base.ts EXCEPT ![e.stage] = e.ts] /\ rec.filled = base.filled \cup {e.stage}
  BY <1>1, <1>2, <1>3, FillFields
<1>5. base.ts \in [MaskOf(m) -> Nat] /\ base.filled \subseteq MaskOf(m)
  BY <1>1 DEF Records
<1>6. Extends1(rec, old, e)
  BY <1>1, <1>4, <1>5 DEF Extends1
<1> QED
  BY <1>3, <1>6

LEMMA SeqTaken ==
  ASSUME NEW T, T \subseteq Nat, NEW k, NEW s, Sound(s, T, k), NEW e \in Events(T, k), NEW t,
         NEW m \in Seqs, SeqFed(t, s, m, e), e.stage \in MaskOf(m)
  PROVE  Taken(t.recs[m], t.pending[m], s.recs[m], s.pending[m], m, e.tid, e)
<1>1. e.ts \in T /\ e.ts \in Nat /\ e.tid \in Tids /\ m \in Takers /\ Ids(m) = Tids
  BY MatcherTypes DEF Events, Takers
<1>2. RecordOK(s.recs[m][e.tid], m, e.tid, T, k) /\ m \notin KeyMs
  BY <1>1, MatcherTypes DEF Sound, RecsOK
<1>3. PICK old, rec : old = s.recs[m][e.tid] /\ rec = SeqRec(s, m, e)
  OBVIOUS
<1>4. PICK first : first = FirstStage(matchers[m].stages)
  OBVIOUS
<1>5. rec = SeqRecord(old, e, first) /\ RecordOK(old, m, e.tid, T, k)
  BY <1>2, <1>3, <1>4 DEF SeqRec
<1>6. rec \in Records(m)
  <2>1. RecordOK(rec, m, e.tid, T, k)
    BY <1>1, <1>2, <1>5, RecordStep
  <2> QED
    BY <2>1 DEF RecordOK
<1>7. Extends1(rec, old, e)
  <2>1. old \in Records(m)
    BY <1>5 DEF RecordOK
  <2> QED
    BY <1>1, <1>5, <2>1, SeqRecExtends
<1>8. PICK none, snap : none = [rec EXCEPT !.filled = {}] /\ snap = SeqSnap(s, m, e)
  OBVIOUS
<1>9. none.filled = {} /\ snap.ts = rec.ts
  BY <1>3, <1>6, <1>8 DEF Records, SeqSnap, Snapshot
<1>10. \/ t.recs[m] = [s.recs[m] EXCEPT ![e.tid] = rec] /\ t.pending[m] = s.pending[m]
       \/ /\ t.recs[m] = [s.recs[m] EXCEPT ![e.tid] = none]
          /\ t.pending[m] = Append(s.pending[m], snap) /\ MaskOf(m) \subseteq rec.filled
  BY <1>3, <1>8 DEF SeqFed, Completes, Complete
<1> QED
  BY <1>3, <1>7, <1>9, <1>10 DEF Taken

LEMMA KeyTaken ==
  ASSUME NEW T, T \subseteq Nat, NEW k, NEW s, Sound(s, T, k), NEW e \in Events(T, k), NEW t,
         NEW m \in KeyMs, KeyFed(t, s, m, e), e.stage \in MaskOf(m)
  PROVE  Taken(t.recs[m], t.pending[m], s.recs[m], s.pending[m], m, e.key, e)
<1>1. /\ e.ts \in T /\ e.ts \in Nat /\ e.tid \in Tids /\ e.key \in Keys
      /\ m \in Takers /\ Ids(m) = Keys
  BY MatcherTypes DEF Events, Takers
<1>2. RecordOK(s.recs[m][e.key], m, e.key, T, k)
  BY <1>1 DEF Sound, RecsOK
<1>3. PICK old : old = s.recs[m][e.key]
  OBVIOUS
<1>4. PICK first : first = FirstStage(matchers[m].stages)
  OBVIOUS
<1>5. PICK rec : rec = KeyRecord(old, e, first)
  OBVIOUS
<1>6. Extends1(rec, old, e)
  <2>1. old \in Records(m)
    BY <1>2, <1>3 DEF RecordOK
  <2> QED
    BY <1>1, <1>5, <2>1, KeyRecExtends
<1>7. PICK none, snap : none = ZeroRecord(MaskOf(m)) /\ snap = Snapshot(rec, MaskOf(m))
  OBVIOUS
<1>8. none.filled = {} /\ snap.ts = rec.ts
  BY <1>7 DEF ZeroRecord, Snapshot
<1>9. \/ t.recs[m] = [s.recs[m] EXCEPT ![e.key] = rec] /\ t.pending[m] = s.pending[m]
      \/ /\ t.recs[m] = [s.recs[m] EXCEPT ![e.key] = none]
         /\ t.pending[m] = Append(s.pending[m], snap) /\ MaskOf(m) \subseteq rec.filled
  BY <1>3, <1>4, <1>5, <1>7 DEF KeyFed, Complete
<1> QED
  BY <1>3, <1>6, <1>8, <1>9 DEF Taken

\* An event leaves what the matchers hold apart.
LEMMA ApartEvent ==
  ASSUME ReportsApart, NEW T, T \subseteq Nat, NEW k, NEW s, Sound(s, T, k), NEW e \in Events(T, k),
         NEW t, t = HandleRingEvent(s, e), NEW R, e.ts \in R, NEW Q, Q \subseteq R \ {e.ts},
         NEW m \in Takers, MatcherApart(s.recs[m], s.pending[m], m, R)
  PROVE  MatcherApart(t.recs[m], t.pending[m], m, Q)
<1> SUFFICES ASSUME NEW g \in MaskOf(m) PROVE StageApart(t.recs[m], t.pending[m], m, g, Q)
  BY DEF MatcherApart
<1>1. KeyReportsApart
  BY DEF ReportsApart, KeyReportsApart
<1>2. m \in Seqs => SeqFed(t, s, m, e)
  BY EventResult
<1>3. m \in KeyMs => KeyFed(t, s, m, e)
  BY <1>1, EventOn
<1>4. StageApart(s.recs[m], s.pending[m], m, g, R)
  BY DEF MatcherApart
<1>5. CASE e.stage \notin MaskOf(m)
  <2>1. SameAt(t, s, m)
    BY <1>2, <1>3, <1>5 DEF SeqFed, KeyFed, Completes, Takers
  <2>2. StageApart(s.recs[m], s.pending[m], m, g, Q)
    BY <1>4, StageFewer
  <2> QED
    BY <2>1, <2>2 DEF SameAt
<1>6. CASE e.stage \in MaskOf(m)
  <2>1. PICK recs, groups, q, h : /\ recs = s.recs[m] /\ groups = s.pending[m]
                                  /\ q = t.recs[m] /\ h = t.pending[m]
    OBVIOUS
  <2>2. recs = [a \in Ids(m) |-> recs[a]]
    BY <2>1 DEF Sound, RecsOK
  <2>3. PICK G : G = Groups(m, T, k)
    OBVIOUS
  <2>4. groups \in Seq(G)
    BY <2>1, <2>3 DEF Sound, PendingOK
  <2>5. \E id \in Ids(m) : Taken(q, h, recs, groups, m, id, e)
    <3>1. CASE m \in Seqs
      <4>1. e.tid \in Ids(m)
        BY <3>1, MatcherTypes DEF Events
      <4> QED
        BY <1>2, <1>6, <2>1, <3>1, <4>1, SeqTaken
    <3>2. CASE m \in KeyMs
      <4>1. e.key \in Ids(m)
        BY <3>2, MatcherTypes DEF Events
      <4> QED
        BY <1>3, <1>6, <2>1, <3>2, <4>1, KeyTaken
    <3> QED
      BY <3>1, <3>2 DEF Takers
  <2>6. PICK id \in Ids(m) : Taken(q, h, recs, groups, m, id, e)
    BY <2>5
  <2>7. StageApart(recs, groups, m, g, R)
    BY <1>4, <2>1
  <2>8. StageApart(q, h, m, g, Q)
    BY <2>2, <2>4, <2>6, <2>7, StageStep
  <2> QED
    BY <2>1, <2>8
<1> QED
  BY <1>5, <1>6

\* What connection c's samples say about pending groups.
LEMMA OnceEvent ==
  ASSUME ReportsApart, NEW T, T \subseteq Nat, NEW k, NEW s, Sound(s, T, k), NEW e \in Events(T, k),
         NEW t, t = HandleRingEvent(s, e), NEW R, e.ts \in R, NEW Q, Q \subseteq R \ {e.ts},
         OnceOK(s, R)
  PROVE  OnceOK(t, Q)
<1>1. KeyReportsApart
  BY DEF ReportsApart, KeyReportsApart
<1>2. ASSUME NEW m \in Takers PROVE MatcherApart(t.recs[m], t.pending[m], m, Q)
  BY ApartEvent DEF OnceOK
<1>3. \A x \in DOMAIN t.samples : x.name \notin KeyNames
  BY <1>1, EventOn DEF OnceOK
<1>4. ASSUME NEW c \in Connections, NEW x \in DOMAIN t.samples, x.name = c.name
      PROVE  RowOnce(x, t, c)
  <2>1. PICK i, N : i = c.pop_seq /\ N = Len(matchers)
    OBVIOUS
  <2>2. i \in Seqs /\ i \in Takers /\ c.to \in MaskOf(i)
    BY <2>1, ConnectionTypes DEF Takers
  <2>3. /\ SeqFed(t, s, i, e)
        /\ Fed(s, i, e, N) <=> Completes(s, i, e)
        /\ CountUpto(t, s, c, e, N)
    BY <2>1, <2>2, EventResult
  <2>4. PICK G : G = Groups(i, T, k)
    OBVIOUS
  <2>5. PICK groups, h : groups = s.pending[i] /\ h = t.pending[i]
    OBVIOUS
  <2>6. groups \in Seq(G)
    BY <2>2, <2>4, <2>5 DEF Sound, PendingOK
  <2>7. /\ h = groups \/ h = Append(groups, SeqSnap(s, i, e))
        /\ Completes(s, i, e) => h = Append(groups, SeqSnap(s, i, e))
    BY <2>3, <2>5 DEF SeqFed, SameAt, Completes
  <2>8. /\ DOMAIN groups \subseteq DOMAIN h /\ \A n \in DOMAIN groups : h[n] = groups[n]
        /\ h = Append(groups, SeqSnap(s, i, e)) =>
             Len(groups) + 1 \in DOMAIN h \ DOMAIN groups /\ h[Len(groups) + 1] = SeqSnap(s, i, e)
    BY <2>6, <2>7
  <2>9. ASSUME x \in DOMAIN s.samples
        PROVE  s.samples[x] = 1 /\ \E n \in DOMAIN groups : x.delta.ts_to = groups[n].ts[c.to]
    BY <1>4, <2>1, <2>5, <2>9 DEF OnceOK, RowsOnce, RowOnce
  <2>10. CASE /\ x \in DOMAIN t.samples <=> x \in DOMAIN s.samples
              /\ x \in DOMAIN s.samples /\ s.samples[x] \in Nat => t.samples[x] = s.samples[x]
    BY <2>1, <2>5, <2>8, <2>9, <2>10 DEF RowOnce
  <2>11. CASE /\ Fed(s, c.pop_seq, e, N)
              /\ x.delta.ts_to = SeqSnap(s, c.pop_seq, e).ts[c.to]
              /\ x \notin DOMAIN s.samples => t.samples[x] = 1
    <3>1. h[Len(groups) + 1] = SeqSnap(s, i, e) /\ Len(groups) + 1 \in DOMAIN h \ DOMAIN groups
      BY <2>1, <2>3, <2>7, <2>8, <2>11
    <3>2. x.delta.ts_to = h[Len(groups) + 1].ts[c.to]
      BY <2>1, <2>11, <3>1
    <3>3. x \notin DOMAIN s.samples
      <4> SUFFICES ASSUME x \in DOMAIN s.samples PROVE FALSE
        OBVIOUS
      <4>1. PICK n \in DOMAIN groups : x.delta.ts_to = groups[n].ts[c.to]
        BY <2>9
      <4>2. StageApart(t.recs[i], t.pending[i], i, c.to, Q)
        BY <1>2, <2>2 DEF MatcherApart
      <4>3. \A p, q \in DOMAIN h : h[p].ts[c.to] = h[q].ts[c.to] => p = q
        BY <2>5, <4>2 DEF StageApart
      <4> QED
        BY <2>8, <3>1, <3>2, <4>1, <4>3
    <3> QED
      BY <2>1, <2>5, <2>11, <3>1, <3>2, <3>3 DEF RowOnce
  <2> QED
    BY <1>4, <2>3, <2>10, <2>11 DEF CountUpto
<1> QED
  BY <1>2, <1>3, <1>4 DEF OnceOK, RowsOnce

\* The stages and the name of a drained row (lensx.cpp:355-364).
LEMMA DrainRowFields ==
  ASSUME NEW i \in Takers, NEW snap, NEW r \in DrainRows(i, snap)
  PROVE  \E j \in DOMAIN reports :
           /\ reports[j].from \in MaskOf(i) /\ reports[j].to \in MaskOf(i)
           /\ r.name = reports[j].name
           /\ r.delta.from_stage = reports[j].from /\ r.delta.to_stage = reports[j].to
           /\ r.delta.ts_to = snap.ts[reports[j].to]
<1>1. PICK d \in Deltas(matchers[i].stages, snap) :
        /\ <<d.from_stage, d.to_stage>> \in DOMAIN report_keys
        /\ r = Row(report_keys[<<d.from_stage, d.to_stage>>], d)
  BY DEF DrainRows
<1>2. PICK x \in DOMAIN matchers[i].stages, y \in DOMAIN matchers[i].stages :
        d = Delta(matchers[i].stages[x], matchers[i].stages[y],
                  snap.ts[matchers[i].stages[x]], snap.ts[matchers[i].stages[y]], snap.tid)
  BY <1>1 DEF Deltas
<1>3. PICK a, b : a = matchers[i].stages[x] /\ b = matchers[i].stages[y]
  OBVIOUS
<1>4. a \in MaskOf(i) /\ b \in MaskOf(i)
  BY <1>3 DEF MaskOf, Mask
<1>5. d.from_stage = a /\ d.to_stage = b /\ d.ts_to = snap.ts[b]
  BY <1>2, <1>3 DEF Delta
<1>6. PICK p : p = <<a, b>>
  OBVIOUS
<1>7. p \in DOMAIN report_keys /\ r.name = report_keys[p] /\ r.delta = d
  BY <1>1, <1>5, <1>6 DEF Row
<1>8. PICK j \in DOMAIN reports : p = <<reports[j].from, reports[j].to>> /\ report_keys[p] = reports[j].name
  BY <1>7, ReportKeys
<1>9. reports[j].from = a /\ reports[j].to = b
  BY <1>6, <1>8
<1> QED
  BY <1>4, <1>5, <1>7, <1>8, <1>9

LEMMA DrainNames ==
  ASSUME ReportsApart, NEW i \in Takers, NEW snap, NEW r \in DrainRows(i, snap)
  PROVE  r.name \notin FifoNames /\ (r.name \in KeyNames => i \in KeyMs)
<1>1. PICK j \in DOMAIN reports :
        /\ reports[j].from \in MaskOf(i) /\ reports[j].to \in MaskOf(i)
        /\ r.name = reports[j].name
  BY DrainRowFields
<1>2. HasStage(i, reports[j].from) /\ HasStage(i, reports[j].to)
  BY <1>1 DEF HasStage, MaskOf
<1>3. CASE i \in Seqs
  BY <1>1, <1>2, <1>3 DEF ReportsApart
<1>4. CASE i \in KeyMs
  <2>1. reports[j].name \in KeyNames
    BY <1>2, <1>4 DEF KeyNames
  <2> QED
    BY <1>1, <1>4, <2>1 DEF ReportsApart
<1> QED
  BY <1>3, <1>4 DEF Takers

\* A row by request is in one pending group.
LEMMA DrainUnique ==
  ASSUME ReportsApart, NEW s, NEW R, OnceOK(s, R), NEW r, r.name \in KeyNames,
         NEW i \in Takers, NEW m \in DOMAIN s.pending[i], r \in DrainRows(i, s.pending[i][m]),
         NEW j \in Takers, NEW n \in DOMAIN s.pending[j], r \in DrainRows(j, s.pending[j][n])
  PROVE  i = j /\ m = n
<1>1. i \in KeyMs /\ j \in KeyMs
  BY DrainNames
<1>2. PICK a \in DOMAIN reports :
        /\ reports[a].from \in MaskOf(i) /\ reports[a].to \in MaskOf(i)
        /\ r.delta.from_stage = reports[a].from /\ r.delta.to_stage = reports[a].to
        /\ r.delta.ts_to = s.pending[i][m].ts[reports[a].to]
  BY DrainRowFields
<1>3. PICK b \in DOMAIN reports :
        /\ reports[b].from \in MaskOf(j) /\ reports[b].to \in MaskOf(j)
        /\ r.delta.from_stage = reports[b].from /\ r.delta.to_stage = reports[b].to
        /\ r.delta.ts_to = s.pending[j][n].ts[reports[b].to]
  BY DrainRowFields
<1>4. i = j
  <2>1. {reports[a].from, reports[a].to} \subseteq
          Mask(matchers[i].stages) \cap Mask(matchers[j].stages)
    BY <1>2, <1>3 DEF MaskOf
  <2> QED
    BY <1>1, <2>1 DEF ReportsApart
<1>5. PICK g : g = reports[a].to
  OBVIOUS
<1>6. StageApart(s.recs[i], s.pending[i], i, g, R)
  BY <1>2, <1>5 DEF OnceOK, MatcherApart
<1>7. s.pending[i][m].ts[g] = s.pending[i][n].ts[g]
  BY <1>2, <1>3, <1>4, <1>5
<1> QED
  BY <1>4, <1>6, <1>7 DEF StageApart

\* The drain counts the rows by request once and no others with such a name.
LEMMA OnceDrain ==
  ASSUME ReportsApart, NEW T, NEW k, NEW s, Sound(s, T, k), NEW R, OnceOK(s, R)
  PROVE  CountOK(DrainAll(s).samples)
<1> DEFINE groups == UNION {{<<i, g>> : g \in DOMAIN s.pending[i]} : i \in Seqs \cup KeyMs}
           From(g) == DrainRows(g[1], s.pending[g[1]][g[2]])
           all == UNION {From(g) : g \in groups}
           more == [r \in all |-> Cardinality({g \in groups : r \in From(g)})]
           none == [i \in Seqs \cup KeyMs |-> <<>>]
<1>1. DrainAll(s) = [s EXCEPT !.samples = s.samples (+) more, !.pending = none]
  BY DEF DrainAll
<1>2. \A g \in groups : g[1] \in Takers /\ g[2] \in DOMAIN s.pending[g[1]] /\ g = <<g[1], g[2]>>
  BY DEF Takers
<1>3. ASSUME NEW r \in all PROVE r.name \notin FifoNames
  <2>1. PICK g \in groups : r \in From(g)
    OBVIOUS
  <2> QED
    BY <1>2, <2>1, DrainNames
<1>4. ASSUME NEW r \in all, r.name \in KeyNames PROVE more[r] = 1
  <2>1. PICK g \in groups : r \in From(g)
    OBVIOUS
  <2>2. ASSUME NEW h \in groups, r \in From(h) PROVE h = g
    <3>1. h[1] = g[1] /\ h[2] = g[2]
      BY <1>2, <1>4, <2>1, <2>2, DrainUnique
    <3> QED
      BY <1>2, <3>1
  <2>3. {h \in groups : r \in From(h)} = {g}
    BY <2>1, <2>2
  <2>4. Cardinality({g}) = 1
    BY FS_Singleton
  <2> QED
    BY <2>3, <2>4
<1>5. DOMAIN more = all
  OBVIOUS
<1> HIDE DEF groups, From, all, more, none
<1>6. PICK b, n : b = s.samples /\ n = b (+) more
  OBVIOUS
<1>7. DrainAll(s).samples = n
  BY <1>1, <1>6 DEF Sound, HasFields
<1>8. /\ DOMAIN n = DOMAIN b \cup all
      /\ \A x \in DOMAIN n : n[x] = (IF x \in DOMAIN b THEN b[x] ELSE 0)
                                     + (IF x \in DOMAIN more THEN more[x] ELSE 0)
  BY <1>5, <1>6 DEF (+)
<1>9. ASSUME NEW x \in DOMAIN n, x.name \in FifoNames PROVE n[x] = 1
  <2>1. x \notin all
    BY <1>3, <1>9
  <2>2. x \in DOMAIN b /\ n[x] = b[x] + 0
    BY <1>5, <1>8, <2>1
  <2>3. b[x] = 1
    <3>1. PICK c \in Connections : x.name = c.name
      BY <1>9 DEF FifoNames
    <3> QED
      BY <1>6, <2>2, <3>1 DEF OnceOK, RowsOnce, RowOnce
  <2> QED
    BY <2>2, <2>3
<1>10. ASSUME NEW x \in DOMAIN n, x.name \in KeyNames PROVE n[x] = 1
  <2>1. x \notin DOMAIN b
    BY <1>6, <1>10 DEF OnceOK
  <2>2. x \in all /\ n[x] = 0 + more[x]
    BY <1>5, <1>8, <2>1
  <2>3. more[x] = 1
    BY <1>4, <1>10, <2>2
  <2> QED
    BY <2>2, <2>3
<1> QED
  BY <1>7, <1>9, <1>10 DEF CountOK

LEMMA OnceCounts ==
  ASSUME NEW s, NEW R, OnceOK(s, R)
  PROVE  CountOK(s.samples)
BY DEF OnceOK, RowsOnce, RowOnce, CountOK, FifoNames

\* A timestamp the matchers have not seen is in nothing they hold.
LEMMA OnceMore ==
  ASSUME NEW T, NEW k, NEW s, Sound(s, T, k), NEW R, OnceOK(s, R), NEW x, x \notin T,
         NEW Q, Q \subseteq R \cup {x}
  PROVE  OnceOK(s, Q)
<1>1. ASSUME NEW m \in Takers, NEW g \in MaskOf(m)
      PROVE  StageApart(s.recs[m], s.pending[m], m, g, Q)
  <2>1. StageApart(s.recs[m], s.pending[m], m, g, R)
    BY DEF OnceOK, MatcherApart
  <2>2. \A a \in Ids(m) : g \in s.recs[m][a].filled => s.recs[m][a].ts[g] \in T
    BY DEF Sound, RecsOK, RecordOK
  <2>3. \A n \in DOMAIN s.pending[m] : s.pending[m][n].ts[g] \in T
    <3>1. PICK G, groups : G = Groups(m, T, k) /\ groups = s.pending[m]
      OBVIOUS
    <3>2. groups \in Seq(G)
      BY <3>1 DEF Sound, PendingOK
    <3>3. \A y \in G : y.ts[g] \in T
      BY <3>1 DEF Groups
    <3> QED
      BY <3>1, <3>2, <3>3
  <2> QED
    BY <2>1, <2>2, <2>3 DEF StageApart
<1> QED
  BY <1>1 DEF OnceOK, MatcherApart

LEMMA RecordsOnce ==
  ASSUME TargetOK, DataOK, OnceInv, NEW l \in DOMAIN Lanes, ProbeRecords(l)
  PROVE  OnceInv'
<1>1. PICK e : e = RawEvent(lane[l].ts, Lanes[l].tid, Stage(l), KeyOf[lane[l].item])
  OBVIOUS
<1>2. ring' = Append(ring, e) /\ st' = st /\ phase' = phase /\ e.ts = lane[l].ts
  BY <1>1 DEF ProbeRecords, RawEvent
<1>3. PICK r, q, T, k, x : r = ring /\ q = ring' /\ T = Seen /\ k = KeyAt /\ x = lane[l].ts
  OBVIOUS
<1>4. x \notin T
  BY <1>3 DEF Seen, InFlight
<1>5. r \in Seq(Events(T, k)) /\ Sound(st, T, k)
  BY <1>3 DEF DataOK
<1>6. \A n \in DOMAIN r : r[n].ts \in T
  <2>1. PICK E : E = Events(T, k)
    OBVIOUS
  <2>2. r \in Seq(E) /\ \A y \in E : y.ts \in T
    BY <1>5, <2>1 DEF Events
  <2> QED
    BY <2>2
<1>7. /\ DOMAIN q = DOMAIN r \cup {Len(r) + 1} /\ Len(r) + 1 \notin DOMAIN r
      /\ q[Len(r) + 1].ts = x /\ \A n \in DOMAIN r : q[n] = r[n]
  <2>1. q = Append(r, e)
    BY <1>2, <1>3
  <2>2. PICK E : E = Events(T, k)
    OBVIOUS
  <2>3. r \in Seq(E)
    BY <1>5, <2>2
  <2> QED
    BY <1>2, <1>3, <2>1, <2>3
<1>8. RingApart(q)
  BY <1>3, <1>4, <1>6, <1>7 DEF RingApart, OnceInv
<1>9. Stamps(q) \subseteq Stamps(r) \cup {x}
  BY <1>7 DEF Stamps
<1>10. ASSUME phase # "done" PROVE OnceOK(st, Stamps(q))
  <2>1. OnceOK(st, Stamps(r))
    BY <1>3, <1>10 DEF OnceInv
  <2>2. PICK R, Q, s : R = Stamps(r) /\ Q = Stamps(q) /\ s = st
    OBVIOUS
  <2>3. OnceOK(s, Q)
    BY <1>4, <1>5, <1>9, <2>1, <2>2, OnceMore
  <2> QED
    BY <2>2, <2>3
<1> QED
  BY <1>2, <1>3, <1>8, <1>10 DEF OnceInv

LEMMA ConsumeOnce ==
  ASSUME ReportsApart, TargetOK, DataOK, OnceInv, Consume
  PROVE  OnceInv'
<1>1. /\ ring # <<>> /\ ring' = Tail(ring) /\ st' = HandleRingEvent(st, Head(ring))
      /\ phase = "poll" /\ phase' = phase
  BY DEF Consume
<1>2. PICK r, T, k, s : r = ring /\ T = Seen /\ k = KeyAt /\ s = st
  OBVIOUS
<1>3. PICK q, e, t : q = Tail(r) /\ e = Head(r) /\ t = HandleRingEvent(s, e)
  OBVIOUS
<1>4. T \subseteq Nat /\ r \in Seq(Events(T, k)) /\ Sound(s, T, k) /\ r # <<>>
  BY <1>1, <1>2 DEF DataOK, TargetOK, Seen
<1>5. Front(r, e, q) /\ e \in Events(T, k)
  BY <1>3, <1>4 DEF Front
<1>6. RingApart(r) /\ OnceOK(s, Stamps(r))
  BY <1>1, <1>2 DEF OnceInv
<1>7. /\ 1 \in DOMAIN r /\ r[1] = e
      /\ \A n \in DOMAIN q : n + 1 \in DOMAIN r /\ q[n] = r[n + 1] /\ n \in Nat \ {0}
  BY <1>3, <1>4
<1>8. RingApart(q)
  BY <1>6, <1>7 DEF RingApart
<1>9. e.ts \in Stamps(r) /\ Stamps(q) \subseteq Stamps(r) \ {e.ts}
  <2>1. \A n \in DOMAIN q : q[n].ts \in Stamps(r) /\ q[n].ts # e.ts
    BY <1>6, <1>7 DEF RingApart, Stamps
  <2> QED
    BY <1>7, <2>1 DEF Stamps
<1>10. PICK R, Q : R = Stamps(r) /\ Q = Stamps(q)
  OBVIOUS
<1>11. OnceOK(t, Q)
  BY <1>3, <1>4, <1>5, <1>6, <1>9, <1>10, OnceEvent
<1>12. CountOK(t.samples)
  BY <1>11, OnceCounts
<1>13. ring' = q /\ st' = t
  BY <1>1, <1>2, <1>3
<1> QED
  BY <1>8, <1>10, <1>11, <1>12, <1>13 DEF OnceInv

LEMMA OnceInit == Init => OnceInv
<1> SUFFICES ASSUME Init PROVE OnceInv
  OBVIOUS
<1>1. ring = <<>> /\ st = MatcherInit
  BY DEF Init
<1>2. RingApart(ring)
  BY <1>1 DEF RingApart
<1>3. PICK s : s = MatcherInit
  OBVIOUS
<1>4. DOMAIN s.samples = {}
  BY <1>3 DEF MatcherInit, EmptyBag, SetToBag
<1>5. ASSUME NEW m \in Takers PROVE MatcherApart(s.recs[m], s.pending[m], m, Stamps(ring))
  <2>1. s.pending[m] = <<>> /\ \A a \in Ids(m) : s.recs[m][a].filled = {}
    BY <1>3 DEF MatcherInit, Takers, Ids, ZeroRecord
  <2> QED
    BY <2>1 DEF MatcherApart, StageApart
<1> QED
  BY <1>1, <1>2, <1>3, <1>4, <1>5 DEF OnceInv, OnceOK, RowsOnce, CountOK

LEMMA OnceNext ==
  ASSUME ReportsApart
  PROVE  LensXInv /\ OnceInv /\ [Next]_vars => OnceInv'
<1> SUFFICES ASSUME LensXInv, OnceInv, [Next]_vars PROVE OnceInv'
  OBVIOUS
<1>1. TargetOK /\ DataOK
  BY DEF LensXInv
<1>2. ASSUME UNCHANGED <<ring, st>>, phase' # "done" => phase # "done" PROVE OnceInv'
  BY <1>2 DEF OnceInv
<1>3. CASE UNCHANGED vars
  BY <1>2, <1>3 DEF vars, tool
<1>4. CASE Next
  <2>1. ASSUME NEW l \in DOMAIN Lanes, NEW i \in NextItem(l), ProbeStamps(l, i) \/ PassUnseen(l, i)
        PROVE  OnceInv'
    BY <1>2, <2>1 DEF ProbeStamps, PassUnseen, tool
  <2>2. ASSUME NEW l \in DOMAIN Lanes, ProbeRecords(l) \/ ProbeDrops(l) PROVE OnceInv'
    <3>1. CASE ProbeRecords(l)
      BY <1>1, <3>1, RecordsOnce
    <3>2. CASE ProbeDrops(l)
      BY <1>2, <3>2 DEF ProbeDrops, tool
    <3> QED
      BY <2>2, <3>1, <3>2
  <2>3. CASE Consume
    BY <1>1, <2>3, ConsumeOnce
  <2>4. CASE Results
    <3>1. phase = "loop" /\ phase' = "done" /\ ring' = ring /\ st' = DrainAll(st)
      BY <2>4 DEF Results
    <3>2. PICK T, k, s, R : T = Seen /\ k = KeyAt /\ s = st /\ R = Stamps(ring)
      OBVIOUS
    <3>3. Sound(s, T, k) /\ OnceOK(s, R)
      BY <1>1, <3>1, <3>2 DEF DataOK, OnceInv
    <3>4. CountOK(DrainAll(s).samples)
      BY <3>3, OnceDrain
    <3> QED
      BY <3>1, <3>2, <3>4 DEF OnceInv
  <2>5. ASSUME MainStep \/ SigHandler, ~ (Consume \/ Results) PROVE OnceInv'
    <3>1. UNCHANGED <<ring, st>> /\ phase # "done"
      BY <2>5 DEF MainStep, SigHandler, Attach, AttachFails, AttachAborts, Start, PollWakes,
                  PollReturns
    <3> QED
      BY <1>2, <3>1
  <2> QED
    BY <1>4, <2>1, <2>2, <2>3, <2>4, <2>5 DEF Next
<1> QED
  BY <1>3, <1>4
-----------------------------------------------------------------------------
(***************************************************************************)
(* Samples between events of one item.  First, the way of the items        *)
(* through a pipeline: in their order through every thread.                *)
(***************************************************************************)
\* The threads have been through all earlier items when they come to item i.
CanWork(l, i) ==
  /\ AtWork(l, i)
  /\ \A m \in DOMAIN Lanes : m < l => i \in lane[m].done
  /\ \A j \in 1 .. Items : j < i => j \in lane[l].done

StrictOK ==
  /\ \A l, m \in DOMAIN Lanes : l < m => lane[m].done \subseteq lane[l].done
  /\ \A l \in DOMAIN Lanes : \A i \in lane[l].done, j \in 1 .. Items : j < i => j \in lane[l].done
  /\ \A l \in DOMAIN Lanes : Busy(l) => CanWork(l, lane[l].item)

\* Stages of one thread.
Together(g, h) == \E l \in DOMAIN Lanes : {g, h} \subseteq Mask(Lanes[l].stages)

\* Item i passes stage g before item j passes stage h.
Precedes(i, g, j, h) == (i <= j /\ Ahead(g, h)) \/ (i < j /\ Together(g, h))

\* The stages of seq matchers each item has got past.
Passings == PassedOf(SeqStages)

InTurn(E) ==
  \A i, j \in 1 .. Items : \A g, h \in SeqStages :
    h \in E[j] /\ Precedes(i, g, j, h) => g \in E[i]

\* The ring buffer r holds the last events, in the order in which they happened
\* as far as that is determined.
OrderOK(r, o, E) ==
  /\ \A n \in DOMAIN r : r[n].stage \in SeqStages =>
       /\ r[n].stage \in E[o[r[n].ts]]
       /\ \A l \in DOMAIN Lanes : r[n].stage \in Mask(Lanes[l].stages) => r[n].tid = Lanes[l].tid
  /\ \A n, p \in DOMAIN r : n < p /\ r[n].stage \in SeqStages /\ r[p].stage \in SeqStages =>
       /\ ~ Precedes(o[r[p].ts], r[p].stage, o[r[n].ts], r[n].stage)
       /\ ~ (o[r[n].ts] = o[r[p].ts] /\ r[n].stage = r[p].stage)
  /\ \A n \in DOMAIN r : \A j \in 1 .. Items : \A h \in E[j] :
       r[n].stage \in SeqStages /\ Precedes(o[r[n].ts], r[n].stage, j, h) =>
         h \in QueuedOf(r, o, j)

\* The n-th complete group of matcher m is of the n-th item.
GroupsOK(groups, m, o) == \A n \in DOMAIN groups : \A g \in MaskOf(m) : o[groups[n].ts[g]] = n

\* What has been fed to matcher m of item i, if k groups are complete.
FedOf(rec, k, m, i) ==
  IF i <= k THEN MaskOf(m) ELSE IF i = k + 1 THEN rec.filled ELSE {}

SeqOK(rec, groups, m, r, o, E) ==
  /\ Len(groups) <= Items
  /\ GroupsOK(groups, m, o)
  /\ OfItem(rec, o, Len(groups) + 1)
  /\ MaskOf(m) \subseteq rec.filled => MaskOf(m) = {}
  /\ \A i \in 1 .. Items : FedTo(r, o, E, m, i) = FedOf(rec, Len(groups), m, i)

\* The queue between a matcher with a groups and one with b.
LineOK(q, a, b, o, dropped) ==
  /\ Len(q) <= a - b
  /\ ~ dropped => Len(q) = a - b /\ \A n \in DOMAIN q : o[q[n]] = b + n

RowSame(x, o) == x.name \notin KeyNames => o[x.delta.ts_from] = o[x.delta.ts_to]

\* Every complete group of the popping matcher has given a sample.
RowsThere(s, o) ==
  \A c \in Connections : \A n \in DOMAIN s.pending[c.pop_seq] :
    \E x \in DOMAIN s.samples : x.name = c.name /\ o[x.delta.ts_to] = n

LaneOf(m, l) == l \in DOMAIN Lanes /\ MaskOf(m) \subseteq Mask(Lanes[l].stages)

SeqsOK(s, r, o, E) ==
  \A m \in Seqs : \A l \in DOMAIN Lanes : LaneOf(m, l) =>
    SeqOK(s.recs[m][Lanes[l].tid], s.pending[m], m, r, o, E)

LinesOK(s, o) ==
  \A c \in Connections :
    LineOK(s.fifos[c.name], Len(s.pending[c.push_seq]), Len(s.pending[c.pop_seq]), o, s.dropped)

PairsOK(s, r, o, E) ==
  /\ SeqsOK(s, r, o, E)
  /\ LinesOK(s, o)
  /\ ~ s.dropped => (\A x \in DOMAIN s.samples : RowSame(x, o)) /\ RowsThere(s, o)

\* Item i is in report k.
Reported(k, i, samples, o) ==
  \E x \in DOMAIN samples : x.name = reports[k].name /\ o[x.delta.ts_to] = i

AllReported(S, samples, o) ==
  \A k \in S : \A i \in lane[Len(Lanes)].done : Reported(k, i, samples, o)

SeqReports == {k \in DOMAIN reports : BySeq(k)}

PairInv ==
  /\ StrictOK
  /\ lost = {} /\ phase # "done" =>
       OrderOK(ring, owner, Passings) /\ PairsOK(st, ring, owner, Passings)
  /\ lost = {} /\ phase = "done" =>
       /\ ~ st.dropped => \A x \in DOMAIN st.samples : RowSame(x, owner)
       /\ QuietFifosEmpty
       /\ ring = <<>> /\ ~ st.dropped => AllReported(SeqReports, st.samples, owner)
-----------------------------------------------------------------------------
LEMMA NextCanWork ==
  ASSUME Pipeline, TargetOK, StrictOK, NEW l \in DOMAIN Lanes, NEW i \in NextItem(l)
  PROVE  CanWork(l, i) /\ (Busy(l) /\ lane[l].ts = 0 => lane[l].item = i)
<1>1. i \in 1 .. Items
  BY NextItemType
<1>2. Len(Lanes) \in Nat /\ DOMAIN Lanes = 1 .. Len(Lanes)
  BY LaneTypes
<1>3. lane[l].step \in Nat \ {0} /\ LaneOK(lane[l], l)
  BY DEF TargetOK, LaneOK
<1>4. CASE lane[l].step > 1
  <2>1. i = lane[l].item /\ Busy(l)
    BY <1>4 DEF NextItem, Busy
  <2>2. QED
    BY <2>1 DEF StrictOK
<1>5. CASE ~ (lane[l].step > 1)
  <2>1. i \in Ready(l) /\ \A j \in Ready(l) : i <= j
    BY <1>5 DEF NextItem, Pipeline
  <2>2. ~ (Busy(l) /\ lane[l].ts = 0)
    BY <1>5 DEF Busy
  <2>3. AtWork(l, i)
    BY <1>1, <1>5, <2>1 DEF AtWork, Ready
  <2>4. CASE l = 1
    <3>1. ASSUME NEW j \in 1 .. Items
          PROVE  ~ KeyInUse(j)
      <4>1. SUFFICES ASSUME KeyOf[j] # 0, NEW n \in 1 .. j - 1, KeyOf[n] = KeyOf[j]
                     PROVE  FALSE
        BY DEF KeyInUse
      <4>2. Items \in Nat /\ n \in 1 .. Items /\ n # j
        BY ItemsAssumption
      <4>3. QED
        BY <4>1, <4>2 DEF Pipeline
    <3>2. \A j \in 1 .. Items : j < i => j \in lane[l].done
      <4>1. SUFFICES ASSUME NEW j \in 1 .. Items, j < i, j \notin lane[l].done
                     PROVE  FALSE
        OBVIOUS
      <4>2. j \in Ready(l)
        BY <2>4, <3>1, <4>1 DEF Ready
      <4>3. QED
        BY <1>1, <2>1, <4>1, <4>2, ItemsAssumption
    <3>3. \A m \in DOMAIN Lanes : m < l => i \in lane[m].done
      BY <1>2, <2>4
    <3>4. QED
      BY <2>2, <2>3, <3>2, <3>3 DEF CanWork
  <2>5. CASE l # 1
    <3>1. l - 1 \in DOMAIN Lanes /\ i \in lane[l - 1].done
      BY <1>2, <2>1, <2>5 DEF Ready
    <3>2. \A m \in DOMAIN Lanes : m < l => i \in lane[m].done
      <4>1. SUFFICES ASSUME NEW m \in DOMAIN Lanes, m < l
                     PROVE  i \in lane[m].done
        OBVIOUS
      <4>2. m = l - 1 \/ m < l - 1
        BY <1>2, <4>1
      <4>3. QED
        BY <3>1, <4>2 DEF StrictOK
    <3>3. \A j \in 1 .. Items : j < i => j \in lane[l].done
      <4>1. SUFFICES ASSUME NEW j \in 1 .. Items, j < i, j \notin lane[l].done
                     PROVE  FALSE
        OBVIOUS
      <4>2. j \in lane[l - 1].done
        BY <3>1, <4>1 DEF StrictOK
      <4>3. j \in Ready(l)
        BY <2>5, <4>1, <4>2 DEF Ready
      <4>4. QED
        BY <1>1, <2>1, <4>1, <4>3, ItemsAssumption
    <3>4. QED
      BY <2>2, <2>3, <3>2, <3>3 DEF CanWork
  <2>6. QED
    BY <2>4, <2>5
<1>6. QED
  BY <1>4, <1>5

\* Thread l goes on with item i, which is then in its hands or behind it.
LEMMA StrictStep ==
  ASSUME StrictOK, NEW l \in DOMAIN Lanes, NEW i, CanWork(l, i),
         NEW x, lane'[l] = x, \A m \in DOMAIN Lanes \ {l} : lane'[m] = lane[m],
         x.done = lane[l].done \/ x.done = lane[l].done \cup {i},
         x.step > 1 \/ x.ts # 0 => x.item = i /\ x.done = lane[l].done
  PROVE  StrictOK'
<1>1. \A m \in DOMAIN Lanes : lane[m].done \subseteq lane'[m].done
  OBVIOUS
<1>2. i \in 1 .. Items /\ i \notin lane[l].done
  BY DEF CanWork, AtWork
<1>3. \A m \in DOMAIN Lanes : m < l => i \in lane[m].done
  BY DEF CanWork
<1>4. \A j \in 1 .. Items : j < i => j \in lane[l].done
  BY DEF CanWork
<1>5. ASSUME NEW a \in DOMAIN Lanes, NEW b \in DOMAIN Lanes, a < b
      PROVE  lane'[b].done \subseteq lane'[a].done
  <2>1. lane[b].done \subseteq lane[a].done
    BY <1>5 DEF StrictOK
  <2>2. CASE b = l
    BY <1>1, <1>3, <1>5, <2>1, <2>2
  <2>3. CASE b # l
    BY <1>1, <2>1, <2>3
  <2>4. QED
    BY <2>2, <2>3
<1>6. ASSUME NEW a \in DOMAIN Lanes, NEW c \in lane'[a].done, NEW j \in 1 .. Items, j < c
      PROVE  j \in lane'[a].done
  <2>1. CASE c \in lane[a].done
    BY <1>1, <1>6, <2>1 DEF StrictOK
  <2>2. CASE c \notin lane[a].done
    <3>1. a = l /\ c = i
      BY <2>2
    <3>2. QED
      BY <1>1, <1>4, <1>6, <3>1
  <2>3. QED
    BY <2>1, <2>2
<1>7. ASSUME NEW a \in DOMAIN Lanes, Busy(a)'
      PROVE  CanWork(a, lane[a].item)'
  <2>1. CASE a = l
    <3>1. x.item = i /\ x.done = lane[l].done
      BY <1>7, <2>1 DEF Busy
    <3>2. QED
      BY <1>1, <1>2, <1>3, <1>4, <2>1, <3>1 DEF CanWork, AtWork
  <2>2. CASE a # l
    <3>1. lane'[a] = lane[a] /\ Busy(a)
      BY <1>7, <2>2 DEF Busy
    <3>2. CanWork(a, lane[a].item)
      BY <3>1 DEF StrictOK
    <3>3. QED
      BY <1>1, <3>1, <3>2 DEF CanWork, AtWork
  <2>3. QED
    BY <2>1, <2>2
<1>8. QED
  BY <1>5, <1>6, <1>7 DEF StrictOK

LEMMA PlaceTypes ==
  ASSUME NEW l \in DOMAIN Lanes, NEW x \in DOMAIN Lanes[l].stages
  PROVE  l \in Nat /\ x \in Nat \ {0}
<1>1. PICK s : s = Lanes[l].stages
  OBVIOUS
<1>2. s \in Seq(Nat) /\ x \in DOMAIN s
  BY <1>1, LaneTypes
<1>3. x \in Nat \ {0}
  BY <1>2
<1>4. QED
  BY <1>3, LaneTypes

\* A stage is at one place only, which is not before itself.
LEMMA NotAhead ==
  ASSUME Pipeline, NEW g \in SeqStages
  PROVE  ~ Ahead(g, g)
<1>1. SUFFICES ASSUME Ahead(g, g)
               PROVE  FALSE
  OBVIOUS
<1>2. PICK l \in DOMAIN Lanes, m \in DOMAIN Lanes :
        \E x \in DOMAIN Lanes[l].stages, y \in DOMAIN Lanes[m].stages :
          Lanes[l].stages[x] = g /\ Lanes[m].stages[y] = g /\ (l < m \/ (l = m /\ x < y))
  BY <1>1 DEF Ahead
<1>3. PICK x \in DOMAIN Lanes[l].stages, y \in DOMAIN Lanes[m].stages :
        Lanes[l].stages[x] = g /\ Lanes[m].stages[y] = g /\ (l < m \/ (l = m /\ x < y))
  BY <1>2
<1>4. l = m /\ x = y
  BY <1>3 DEF Pipeline, PlacedOnce
<1>5. l \in Nat /\ x \in Nat
  BY PlaceTypes
<1>6. QED
  BY <1>3, <1>4, <1>5

\* Who is past a stage, is done with all before it.
LEMMA PassingsInTurn ==
  ASSUME Pipeline, TargetOK, StrictOK
  PROVE  InTurn(Passings)
<1>1. SUFFICES ASSUME NEW i \in 1 .. Items, NEW j \in 1 .. Items, NEW g \in SeqStages,
                      NEW h \in SeqStages, h \in Passings[j], Precedes(i, g, j, h)
               PROVE  g \in Passings[i]
  BY DEF InTurn
<1>2. PICK m \in DOMAIN Lanes : \E y \in DOMAIN Lanes[m].stages :
        Lanes[m].stages[y] = h /\ Past(j, m, y)
  BY <1>1 DEF Passings, PassedOf
<1>3. PICK y \in DOMAIN Lanes[m].stages : Lanes[m].stages[y] = h /\ Past(j, m, y)
  BY <1>2
<1>4. /\ m \in Nat /\ y \in Nat \ {0} /\ i \in Nat /\ j \in Nat
      /\ lane[m].step \in Nat \ {0}
  <2>1. m \in Nat /\ y \in Nat \ {0}
    BY PlaceTypes
  <2>2. lane[m].step \in Nat \ {0}
    BY DEF TargetOK, LaneOK
  <2>3. i \in Nat /\ j \in Nat
    BY ItemsAssumption
  <2>4. QED
    BY <2>1, <2>2, <2>3
<1>5. j \in lane[m].done \/ (lane[m].item = j /\ y < lane[m].step /\ CanWork(m, j))
  BY <1>3, <1>4 DEF Past, StrictOK, Busy
<1>6. ASSUME NEW l \in DOMAIN Lanes, NEW x \in DOMAIN Lanes[l].stages,
             Lanes[l].stages[x] = g, Past(i, l, x)
      PROVE  g \in Passings[i]
  BY <1>6 DEF Passings, PassedOf
<1>7. i < j => i \in lane[m].done
  BY <1>5 DEF StrictOK, CanWork
<1>8. CASE i <= j /\ Ahead(g, h)
  <2>1. PICK l \in DOMAIN Lanes, n \in DOMAIN Lanes :
          \E x \in DOMAIN Lanes[l].stages, z \in DOMAIN Lanes[n].stages :
            Lanes[l].stages[x] = g /\ Lanes[n].stages[z] = h /\ (l < n \/ (l = n /\ x < z))
    BY <1>8 DEF Ahead
  <2>2. PICK x \in DOMAIN Lanes[l].stages, z \in DOMAIN Lanes[n].stages :
          Lanes[l].stages[x] = g /\ Lanes[n].stages[z] = h /\ (l < n \/ (l = n /\ x < z))
    BY <2>1
  <2>3. n = m /\ z = y
    BY <1>3, <2>2 DEF Pipeline, PlacedOnce
  <2>4. Past(i, l, x)
    <3>1. CASE l < m
      <4>1. j \in lane[l].done
        BY <1>5, <3>1 DEF StrictOK, CanWork
      <4>2. i \in lane[l].done
        BY <1>4, <1>8, <4>1 DEF StrictOK
      <4>3. QED
        BY <4>2 DEF Past
    <3>2. CASE l = m /\ x < y
      <4>1. CASE i < j
        BY <1>7, <3>2, <4>1 DEF Past
      <4>2. CASE i = j
        <5>1. x \in Nat
          BY PlaceTypes
        <5>2. QED
          BY <1>4, <1>5, <3>2, <4>2, <5>1 DEF Past
      <4>3. QED
        BY <1>4, <1>8, <4>1, <4>2
    <3>3. QED
      BY <2>2, <2>3, <3>1, <3>2
  <2>5. QED
    BY <1>6, <2>2, <2>4
<1>9. CASE i < j /\ Together(g, h)
  <2>1. PICK l \in DOMAIN Lanes : {g, h} \subseteq Mask(Lanes[l].stages)
    BY <1>9 DEF Together
  <2>2. PICK x \in DOMAIN Lanes[l].stages, z \in DOMAIN Lanes[l].stages :
          Lanes[l].stages[x] = g /\ Lanes[l].stages[z] = h
    BY <2>1 DEF Mask
  <2>3. l = m
    BY <1>3, <2>2 DEF Pipeline, PlacedOnce
  <2>4. QED
    BY <1>6, <1>7, <1>9, <2>2, <2>3 DEF Past
<1>10. QED
  BY <1>1, <1>8, <1>9 DEF Precedes

LEMMA PassingsType == Passings \in [1 .. Items -> SUBSET SeqStages]
  BY DEF Passings, PassedOf

LEMMA PassingsStill ==
  ASSUME TargetOK, NEW l \in DOMAIN Lanes, NEW i, CanWork(l, i),
         lane'[l].done = lane[l].done, lane'[l].step = lane[l].step, lane'[l].item = i,
         \A m \in DOMAIN Lanes \ {l} : lane'[m] = lane[m]
  PROVE  Passings' = Passings
<1>1. PICK S : S = SeqStages
  OBVIOUS
<1>2. AtWork(l, i)
  BY DEF CanWork
<1>3. PassedOf(S)' = PassedOf(S)
  BY <1>2, PassedStill
<1>4. QED
  BY <1>1, <1>3 DEF Passings

LEMMA PassingsOne ==
  ASSUME Pipeline, TargetOK, NEW l \in DOMAIN Lanes, NEW i, CanWork(l, i),
         lane'[l] = Passed(l, i), \A m \in DOMAIN Lanes \ {l} : lane'[m] = lane[m]
  PROVE  /\ Stage(l) \notin Passings[i]
         /\ Passings' = [Passings EXCEPT ![i] = Passings[i] \cup ({Stage(l)} \cap SeqStages)]
<1>1. PICK S : S = SeqStages
  OBVIOUS
<1>2. AtWork(l, i) /\ PlacedOnce(S)
  BY <1>1 DEF CanWork, Pipeline
<1>3. /\ Stage(l) \notin PassedOf(S)[i]
      /\ PassedOf(S)' = [PassedOf(S) EXCEPT ![i] = PassedOf(S)[i] \cup ({Stage(l)} \cap S)]
  BY <1>2, PassedOne
<1>4. QED
  BY <1>1, <1>3 DEF Passings

-----------------------------------------------------------------------------
(***************************************************************************)
(* The ring buffer of a pipeline.                                          *)
(***************************************************************************)
\* What is queued is passed, and what it precedes is queued too.
LEMMA QueuedLater ==
  ASSUME NEW r, NEW o, NEW E, OrderOK(r, o, E), NEW i, NEW g \in SeqStages, g \in QueuedOf(r, o, i)
  PROVE  /\ g \in E[i]
         /\ \A j \in 1 .. Items : \A h \in E[j] : Precedes(i, g, j, h) => h \in QueuedOf(r, o, j)
<1>1. PICK n \in DOMAIN r : o[r[n].ts] = i /\ r[n].stage = g
  BY DEF QueuedOf
<1>2. QED
  BY <1>1 DEF OrderOK

\* The event at the front: its item has got past its stage, nothing that
\* precedes it is queued, and no second event like it.
HeadOK(e, q, r, o, E, i) ==
  /\ e.stage \in E[i] /\ e.stage \notin QueuedOf(q, o, i)
  /\ e.stage \in QueuedOf(r, o, i)
  /\ \A l \in DOMAIN Lanes : e.stage \in Mask(Lanes[l].stages) => e.tid = Lanes[l].tid
  /\ \A j : \A h \in SeqStages : h \in QueuedOf(q, o, j) => ~ Precedes(j, h, i, e.stage)

LEMMA OrderHead ==
  ASSUME NEW r, NEW o, NEW E, OrderOK(r, o, E), NEW e, NEW q, Front(r, e, q), e.stage \in SeqStages,
         NEW i, i = o[e.ts]
  PROVE  HeadOK(e, q, r, o, E, i)
<1>1. /\ Len(r) \in Nat \ {0} /\ DOMAIN r = 1 .. Len(r) /\ DOMAIN q = 1 .. Len(r) - 1
      /\ e = r[1] /\ \A n \in DOMAIN q : q[n] = r[n + 1]
  BY DEF Front
<1>2. 1 \in DOMAIN r
  BY <1>1
<1>3. /\ e.stage \in E[i]
      /\ \A l \in DOMAIN Lanes : e.stage \in Mask(Lanes[l].stages) => e.tid = Lanes[l].tid
  BY <1>1, <1>2 DEF OrderOK
<1>4. ASSUME NEW n \in DOMAIN q, q[n].stage \in SeqStages
      PROVE  /\ ~ Precedes(o[q[n].ts], q[n].stage, i, e.stage)
             /\ ~ (i = o[q[n].ts] /\ e.stage = q[n].stage)
  <2>1. PICK p \in DOMAIN r : p = n + 1 /\ 1 < p
    BY <1>1
  <2>2. q[n] = r[p]
    BY <1>1, <2>1
  <2>3. PICK a \in DOMAIN r : a = 1
    BY <1>2
  <2>4. a < p /\ r[a] = e
    BY <1>1, <2>1, <2>3
  <2>5. QED
    BY <1>4, <2>2, <2>4 DEF OrderOK
<1>5. e.stage \notin QueuedOf(q, o, i)
  BY <1>4 DEF QueuedOf
<1>6. e.stage \in QueuedOf(r, o, i)
  BY <1>1, <1>2 DEF QueuedOf
<1>7. ASSUME NEW j, NEW h \in SeqStages, h \in QueuedOf(q, o, j)
      PROVE  ~ Precedes(j, h, i, e.stage)
  BY <1>4, <1>7 DEF QueuedOf
<1>8. QED
  BY <1>3, <1>5, <1>6, <1>7 DEF HeadOK

LEMMA OrderTail ==
  ASSUME NEW r, NEW o, NEW E \in [1 .. Items -> SUBSET SeqStages], OrderOK(r, o, E),
         NEW e, NEW q, Front(r, e, q)
  PROVE  OrderOK(q, o, E)
<1>1. /\ Len(r) \in Nat \ {0} /\ DOMAIN r = 1 .. Len(r) /\ DOMAIN q = 1 .. Len(r) - 1
      /\ e = r[1] /\ \A n \in DOMAIN q : q[n] = r[n + 1]
  BY DEF Front
<1>2. PICK i : i = o[e.ts]
  OBVIOUS
<1>3. OneQueued(r, q, o, i, e.stage)
  BY <1>2, QueuedTail
<1>4. ASSUME NEW n \in DOMAIN q
      PROVE  \E a \in DOMAIN r : a = n + 1 /\ q[n] = r[a]
  BY <1>1
<1>5. ASSUME NEW n \in DOMAIN q, q[n].stage \in SeqStages
      PROVE  /\ q[n].stage \in E[o[q[n].ts]]
             /\ \A l \in DOMAIN Lanes :
                  q[n].stage \in Mask(Lanes[l].stages) => q[n].tid = Lanes[l].tid
  <2>1. PICK a \in DOMAIN r : q[n] = r[a]
    BY <1>4
  <2>2. QED
    BY <1>5, <2>1 DEF OrderOK
<1>6. ASSUME NEW n \in DOMAIN q, NEW p \in DOMAIN q, n < p, q[n].stage \in SeqStages,
             q[p].stage \in SeqStages
      PROVE  /\ ~ Precedes(o[q[p].ts], q[p].stage, o[q[n].ts], q[n].stage)
             /\ ~ (o[q[n].ts] = o[q[p].ts] /\ q[n].stage = q[p].stage)
  <2>1. PICK a \in DOMAIN r, b \in DOMAIN r : a = n + 1 /\ b = p + 1 /\ q[n] = r[a] /\ q[p] = r[b]
    BY <1>4
  <2>2. a < b
    BY <1>1, <1>6, <2>1
  <2>3. QED
    BY <1>6, <2>1, <2>2 DEF OrderOK
<1>7. ASSUME NEW n \in DOMAIN q, NEW j \in 1 .. Items, NEW h \in E[j],
             q[n].stage \in SeqStages, Precedes(o[q[n].ts], q[n].stage, j, h),
             h \notin QueuedOf(q, o, j)
      PROVE  FALSE
  <2>1. PICK a \in DOMAIN r : a = n + 1 /\ q[n] = r[a]
    BY <1>4
  <2>2. h \in QueuedOf(r, o, j)
    BY <1>7, <2>1 DEF OrderOK
  <2>3. j = i /\ h = e.stage
    BY <1>3, <1>7, <2>2 DEF OneQueued
  <2>4. e.stage \in SeqStages
    BY <2>3
  <2>5. q[n].stage \in QueuedOf(q, o, o[q[n].ts])
    BY DEF QueuedOf
  <2>6. HeadOK(e, q, r, o, E, i)
    BY <1>2, <2>4, OrderHead
  <2>7. QED
    BY <1>7, <2>3, <2>5, <2>6 DEF HeadOK
<1>8. QED
  BY <1>5, <1>6, <1>7 DEF OrderOK

\* An event comes in behind those it could be ordered with.
LEMMA OrderAppend ==
  ASSUME Pipeline, NEW r, NEW o, NEW E \in [1 .. Items -> SUBSET SeqStages], OrderOK(r, o, E), InTurn(E),
         \A n \in DOMAIN r : o[r[n].ts] \in 1 .. Items,
         NEW e, NEW q, Back(r, e, q), NEW i \in 1 .. Items, i = o[e.ts], e.stage \notin E[i],
         NEW E2, E2 = [E EXCEPT ![i] = E[i] \cup ({e.stage} \cap SeqStages)],
         NEW l \in DOMAIN Lanes, e.stage \in Mask(Lanes[l].stages), e.tid = Lanes[l].tid
  PROVE  OrderOK(q, o, E2) /\ OneQueued(q, r, o, i, e.stage)
<1>1. PICK z : z = Len(r) + 1
  OBVIOUS
<1>2. /\ z \in Nat /\ DOMAIN r = 1 .. z - 1 /\ DOMAIN q = 1 .. z
      /\ q[z] = e /\ \A n \in DOMAIN r : q[n] = r[n]
  BY <1>1 DEF Back
<1>3. \A n \in DOMAIN q : n = z \/ (n \in DOMAIN r /\ n < z /\ q[n] = r[n])
  BY <1>2
<1>4. OneQueued(q, r, o, i, e.stage)
  BY QueuedAppend
<1>5. /\ \A j \in 1 .. Items : E[j] \subseteq E2[j] /\ E2[j] \subseteq SeqStages
      /\ \A j \in 1 .. Items : \A h \in E2[j] : h \in E[j] \/ (j = i /\ h = e.stage)
      /\ e.stage \in SeqStages => e.stage \in E2[i]
  OBVIOUS
<1>6. ASSUME NEW n \in DOMAIN r, r[n].stage \in SeqStages
      PROVE  r[n].stage \in E[o[r[n].ts]] /\ o[r[n].ts] \in 1 .. Items
  BY <1>6 DEF OrderOK
<1>7. ASSUME NEW j \in 1 .. Items, NEW h \in E[j], e.stage \in SeqStages, Precedes(i, e.stage, j, h)
      PROVE  FALSE
  <2>1. h \in SeqStages
    BY <1>5
  <2>2. QED
    BY <1>7, <2>1 DEF InTurn
<1>8. ASSUME NEW n \in DOMAIN q, q[n].stage \in SeqStages
      PROVE  /\ q[n].stage \in E2[o[q[n].ts]]
             /\ \A k \in DOMAIN Lanes :
                  q[n].stage \in Mask(Lanes[k].stages) => q[n].tid = Lanes[k].tid
  <2>1. CASE n = z
    <3>1. ASSUME NEW k \in DOMAIN Lanes, e.stage \in Mask(Lanes[k].stages)
          PROVE  k = l
      <4>1. PICK x \in DOMAIN Lanes[k].stages, y \in DOMAIN Lanes[l].stages :
              Lanes[k].stages[x] = e.stage /\ Lanes[l].stages[y] = e.stage
        BY <3>1 DEF Mask
      <4>2. e.stage \in SeqStages
        BY <1>2, <1>8, <2>1
      <4>3. QED
        BY <4>1, <4>2 DEF Pipeline, PlacedOnce
    <3>2. QED
      BY <1>2, <1>5, <1>8, <2>1, <3>1
  <2>2. CASE n # z
    <3>1. n \in DOMAIN r /\ q[n] = r[n]
      BY <1>3, <2>2
    <3>2. r[n].stage \in E2[o[r[n].ts]]
      BY <1>5, <1>6, <1>8, <3>1
    <3>3. QED
      BY <1>8, <3>1, <3>2 DEF OrderOK
  <2>3. QED
    BY <2>1, <2>2
<1>9. ASSUME NEW n \in DOMAIN q, NEW p \in DOMAIN q, n < p, q[n].stage \in SeqStages,
             q[p].stage \in SeqStages
      PROVE  /\ ~ Precedes(o[q[p].ts], q[p].stage, o[q[n].ts], q[n].stage)
             /\ ~ (o[q[n].ts] = o[q[p].ts] /\ q[n].stage = q[p].stage)
  <2>1. n \in DOMAIN r /\ q[n] = r[n]
    BY <1>2, <1>3, <1>9
  <2>2. CASE p = z
    <3>1. q[p] = e
      BY <1>2, <2>2
    <3>2. r[n].stage \in E[o[r[n].ts]] /\ o[r[n].ts] \in 1 .. Items
      BY <1>6, <1>9, <2>1
    <3>3. QED
      BY <1>7, <1>9, <2>1, <3>1, <3>2
  <2>3. CASE p # z
    <3>1. p \in DOMAIN r /\ q[p] = r[p]
      BY <1>3, <2>3
    <3>2. QED
      BY <1>9, <2>1, <3>1 DEF OrderOK
  <2>4. QED
    BY <2>2, <2>3
<1>10. ASSUME NEW n \in DOMAIN q, NEW j \in 1 .. Items, NEW h \in E2[j],
              q[n].stage \in SeqStages, Precedes(o[q[n].ts], q[n].stage, j, h)
       PROVE  h \in QueuedOf(q, o, j)
  <2>1. CASE j = i /\ h = e.stage
    BY <1>4, <2>1 DEF OneQueued
  <2>2. CASE h \in E[j]
    <3>1. n # z
      BY <1>2, <1>7, <1>10, <2>2
    <3>2. n \in DOMAIN r /\ q[n] = r[n]
      BY <1>3, <3>1
    <3>3. h \in QueuedOf(r, o, j)
      BY <1>10, <2>2, <3>2 DEF OrderOK
    <3>4. QED
      BY <1>4, <3>3 DEF OneQueued
  <2>3. QED
    BY <1>5, <2>1, <2>2
<1>11. OrderOK(q, o, E2)
  BY <1>8, <1>9, <1>10 DEF OrderOK
<1>12. QED
  BY <1>4, <1>11

\* More events happen, none gets into the ring buffer.
LEMMA OrderStill ==
  ASSUME NEW T, NEW k, NEW o, NEW r \in Seq(Events(T, k)), NEW o2, \A t \in T : o2[t] = o[t],
         NEW E, OrderOK(r, o, E)
  PROVE  OrderOK(r, o2, E)
<1>1. /\ \A n \in DOMAIN r : o2[r[n].ts] = o[r[n].ts]
      /\ \A j : QueuedOf(r, o2, j) = QueuedOf(r, o, j)
  BY QueuedStill
<1>2. QED
  BY <1>1 DEF OrderOK

-----------------------------------------------------------------------------
(***************************************************************************)
(* The seq matchers: one item after the other.                             *)
(***************************************************************************)
LEMMA SeqStagesOf == \A m \in Seqs : MaskOf(m) \subseteq SeqStages
  BY DEF SeqStages, MaskOf

\* Fed event e of item i, matcher m has of this item what it had, and e.
FeedOK(e, q, r, o, E, m, i, rec) ==
  /\ e.stage = FirstStage(matchers[m].stages) => rec.filled = {}
  /\ FedTo(q, o, E, m, i) = rec.filled \cup {e.stage}
  /\ \A j \in 1 .. Items : j > i => FedTo(q, o, E, m, j) = {}
  /\ \A j \in 1 .. Items : j # i => FedTo(q, o, E, m, j) = FedTo(r, o, E, m, j)

\* A matcher is fed a stage of the item after its last complete group, one it
\* does not have yet, and its first stage first.
LEMMA SeqHead ==
  ASSUME Pipeline, NEW r, NEW o, NEW E \in [1 .. Items -> SUBSET SeqStages],
         OrderOK(r, o, E), InTurn(E), NEW e, NEW q, Front(r, e, q),
         NEW m \in Seqs, NEW l, LaneOf(m, l), e.stage \in MaskOf(m),
         NEW i \in 1 .. Items, i = o[e.ts],
         NEW rec, NEW groups, Len(groups) \in Nat, SeqOK(rec, groups, m, r, o, E)
  PROVE  /\ i = Len(groups) + 1
         /\ e.tid = Lanes[l].tid
         /\ FeedOK(e, q, r, o, E, m, i, rec)
<1>1. PICK g : g = e.stage
  OBVIOUS
<1>2. MaskOf(m) \subseteq SeqStages /\ g \in MaskOf(m) /\ g \in SeqStages
  BY <1>1, SeqStagesOf
<1>3. /\ g \in E[i] /\ g \notin QueuedOf(q, o, i) /\ g \in QueuedOf(r, o, i)
      /\ \A h \in DOMAIN Lanes : g \in Mask(Lanes[h].stages) => e.tid = Lanes[h].tid
      /\ \A j : \A h \in SeqStages : h \in QueuedOf(q, o, j) => ~ Precedes(j, h, i, g)
  <2>1. HeadOK(e, q, r, o, E, i)
    BY <1>1, <1>2, OrderHead
  <2>2. QED
    BY <1>1, <2>1 DEF HeadOK
<1>4. OneQueued(r, q, o, i, g)
  BY <1>1, QueuedTail
<1>5. l \in DOMAIN Lanes /\ MaskOf(m) \subseteq Mask(Lanes[l].stages)
  BY DEF LaneOf
<1>6. \A h \in MaskOf(m) : Together(g, h) /\ Together(h, g)
  BY <1>2, <1>5 DEF Together
<1>7. ASSUME NEW j \in 1 .. Items, j < i
      PROVE  FedTo(r, o, E, m, j) = MaskOf(m)
  <2>1. ASSUME NEW h \in MaskOf(m)
        PROVE  h \in E[j] /\ h \notin QueuedOf(r, o, j)
    <3>1. Precedes(j, h, i, g)
      BY <1>6, <1>7 DEF Precedes
    <3>2. h \in E[j]
      BY <1>2, <1>3, <3>1 DEF InTurn
    <3>3. j # i
      BY <1>7, ItemsAssumption
    <3>4. QED
      BY <1>2, <1>3, <1>4, <3>1, <3>2, <3>3 DEF OneQueued
  <2>2. QED
    BY <2>1 DEF FedTo
<1>8. ASSUME NEW j \in 1 .. Items, NEW h \in MaskOf(m), Precedes(i, g, j, h)
      PROVE  h \notin FedTo(r, o, E, m, j)
  BY <1>2, <1>3, <1>8, QueuedLater DEF FedTo
<1>9. ASSUME NEW j \in 1 .. Items, j > i
      PROVE  FedTo(r, o, E, m, j) = {}
  <2>1. \A h \in MaskOf(m) : Precedes(i, g, j, h)
    BY <1>6, <1>9, ItemsAssumption DEF Precedes
  <2>2. FedTo(r, o, E, m, j) \subseteq MaskOf(m)
    BY DEF FedTo
  <2>3. QED
    BY <1>8, <2>1, <2>2
<1>10. g \notin FedTo(r, o, E, m, i)
  BY <1>3 DEF FedTo
<1>11. PICK k : k = Len(groups)
  OBVIOUS
<1>12. /\ k \in Nat /\ i \in Nat /\ Items \in Nat
       /\ \A j \in 1 .. Items : FedTo(r, o, E, m, j) = FedOf(rec, k, m, j)
       /\ MaskOf(m) \subseteq rec.filled => MaskOf(m) = {}
  BY <1>11, ItemsAssumption DEF SeqOK
<1>13. i = k + 1
  <2>1. ASSUME i <= k PROVE FALSE
    BY <1>2, <1>10, <1>12, <2>1 DEF FedOf
  <2>2. ASSUME i > k + 1 PROVE FALSE
    <3>1. k + 1 \in 1 .. Items /\ k + 1 < i
      BY <1>12, <2>2
    <3>2. FedTo(r, o, E, m, k + 1) = MaskOf(m)
      BY <1>7, <3>1
    <3>3. FedOf(rec, k, m, k + 1) = rec.filled
      BY <1>12 DEF FedOf
    <3>4. QED
      BY <1>2, <1>12, <3>1, <3>2, <3>3
  <2>3. QED
    BY <1>12, <2>1, <2>2
<1>14. FedTo(r, o, E, m, i) = rec.filled
  <2>1. FedOf(rec, k, m, i) = rec.filled
    BY <1>12, <1>13 DEF FedOf
  <2>2. QED
    BY <1>12, <2>1
<1>15. ASSUME g = FirstStage(matchers[m].stages) PROVE rec.filled = {}
  <2>1. ASSUME NEW h \in rec.filled PROVE FALSE
    <3>1. h \in MaskOf(m) /\ h # g
      BY <1>10, <1>14, <2>1 DEF FedTo
    <3>2. Ahead(g, h)
      BY <1>15, <3>1 DEF Pipeline, MaskOf
    <3>3. Precedes(i, g, i, h)
      BY <1>12, <3>2 DEF Precedes
    <3>4. QED
      BY <1>8, <1>14, <2>1, <3>1, <3>3
  <2>2. QED
    BY <2>1
<1>16. FedTo(q, o, E, m, i) = rec.filled \cup {g}
  <2>1. QueuedOf(r, o, i) = QueuedOf(q, o, i) \cup {g}
    BY <1>4 DEF OneQueued
  <2>2. QED
    BY <1>2, <1>3, <1>14, <2>1 DEF FedTo
<1>17. ASSUME NEW j \in 1 .. Items, j # i
       PROVE  FedTo(q, o, E, m, j) = FedTo(r, o, E, m, j)
  BY <1>4, <1>17 DEF OneQueued, FedTo
<1>18. ASSUME NEW j \in 1 .. Items, j > i
       PROVE  FedTo(q, o, E, m, j) = {}
  <2>1. j # i
    BY <1>12, <1>18
  <2>2. QED
    BY <1>9, <1>17, <1>18, <2>1
<1>19. e.tid = Lanes[l].tid
  BY <1>2, <1>3, <1>5
<1>20. QED
  BY <1>1, <1>11, <1>13, <1>15, <1>16, <1>17, <1>18, <1>19 DEF FeedOK

LEMMA SeqRecordFields ==
  ASSUME NEW m, NEW rec \in Records(m), NEW e, e.stage \in MaskOf(m), e.ts \in Nat, e.tid \in Tids,
         NEW first, e.stage = first => rec.filled = {}
  PROVE  /\ SeqRecord(rec, e, first).ts[e.stage] = e.ts
         /\ \A g \in MaskOf(m) \ {e.stage} : SeqRecord(rec, e, first).ts[g] = rec.ts[g]
         /\ SeqRecord(rec, e, first).filled = rec.filled \cup {e.stage}
<1>1. CASE e.stage = first
  <2>1. PICK z : z = [rec EXCEPT !.filled = {}, !.tid = e.tid]
    OBVIOUS
  <2>2. z \in Records(m) /\ z.ts = rec.ts /\ z.filled = {}
    BY <2>1 DEF Records
  <2>3. SeqRecord(rec, e, first) = Fill(z, e)
    BY <1>1, <2>1 DEF SeqRecord
  <2>4. /\ Fill(z, e).ts = [z.ts EXCEPT ![e.stage] = e.ts]
        /\ Fill(z, e).filled = z.filled \cup {e.stage}
    BY <2>2, FillFields
  <2>5. rec.ts \in [MaskOf(m) -> Nat]
    BY DEF Records
  <2>6. QED
    BY <1>1, <2>2, <2>3, <2>4, <2>5
<1>2. CASE e.stage # first
  <2>1. SeqRecord(rec, e, first) = Fill(rec, e)
    BY <1>2 DEF SeqRecord
  <2>2. /\ Fill(rec, e).ts = [rec.ts EXCEPT ![e.stage] = e.ts]
        /\ Fill(rec, e).filled = rec.filled \cup {e.stage}
    BY FillFields
  <2>3. rec.ts \in [MaskOf(m) -> Nat]
    BY DEF Records
  <2>4. QED
    BY <2>1, <2>2, <2>3
<1>3. QED
  BY <1>1, <1>2

\* The new record is of item i, and so is the group if it is complete.
NowOK(new, groups, G, m, q, o, E, i) ==
  /\ OfItem(new, o, i)
  /\ ~ Complete(new, MaskOf(m)) => SeqOK(new, groups, m, q, o, E)
  /\ Complete(new, MaskOf(m)) =>
       \A none, h : \A snap \in G :
         none.filled = {} /\ snap.ts = new.ts /\ h = Append(groups, snap) =>
           SeqOK(none, h, m, q, o, E)

\* The event goes into the open group, which is of the same item, or completes it.
LEMMA SeqConsume ==
  ASSUME NEW r, NEW o, NEW E, NEW e, e.ts \in Nat, e.tid \in Tids, NEW q,
         NEW m \in Seqs, e.stage \in MaskOf(m), NEW i \in 1 .. Items, i = o[e.ts],
         NEW rec \in Records(m), NEW G, NEW groups \in Seq(G), SeqOK(rec, groups, m, r, o, E),
         i = Len(groups) + 1, FeedOK(e, q, r, o, E, m, i, rec),
         NEW new, new = SeqRecord(rec, e, FirstStage(matchers[m].stages))
  PROVE  NowOK(new, groups, G, m, q, o, E, i)
<1>1. PICK k : k = Len(groups)
  OBVIOUS
<1>2. /\ k \in Nat /\ i = k + 1 /\ i \in Nat /\ i <= Items /\ Items \in Nat /\ DOMAIN groups = 1 .. k
      /\ GroupsOK(groups, m, o)
      /\ OfItem(rec, o, i)
      /\ \A j \in 1 .. Items : FedTo(r, o, E, m, j) = FedOf(rec, k, m, j)
  BY <1>1, ItemsAssumption DEF SeqOK
<1>3. /\ e.stage = FirstStage(matchers[m].stages) => rec.filled = {}
      /\ FedTo(q, o, E, m, i) = rec.filled \cup {e.stage}
      /\ \A j \in 1 .. Items : j > i => FedTo(q, o, E, m, j) = {}
      /\ \A j \in 1 .. Items : j # i => FedTo(q, o, E, m, j) = FedTo(r, o, E, m, j)
  BY DEF FeedOK
<1>4. /\ new.ts[e.stage] = e.ts
      /\ \A g \in MaskOf(m) \ {e.stage} : new.ts[g] = rec.ts[g]
      /\ new.filled = rec.filled \cup {e.stage}
  BY <1>3, SeqRecordFields
<1>5. rec.filled \subseteq MaskOf(m)
  BY DEF Records
<1>6. OfItem(new, o, i)
  <2>1. ASSUME NEW g \in new.filled PROVE o[new.ts[g]] = i
    BY <1>2, <1>4, <1>5 DEF OfItem
  <2>2. QED
    BY <2>1 DEF OfItem
<1>7. ASSUME ~ Complete(new, MaskOf(m)) PROVE SeqOK(new, groups, m, q, o, E)
  <2>1. ASSUME NEW j \in 1 .. Items PROVE FedTo(q, o, E, m, j) = FedOf(new, k, m, j)
    <3>1. CASE j = i
      <4>1. FedOf(new, k, m, j) = new.filled
        BY <1>2, <3>1 DEF FedOf
      <4>2. QED
        BY <1>3, <1>4, <3>1, <4>1
    <3>2. CASE j # i
      <4>1. FedTo(q, o, E, m, j) = FedOf(rec, k, m, j)
        BY <1>2, <1>3, <3>2
      <4>2. FedOf(rec, k, m, j) = FedOf(new, k, m, j)
        BY <1>2, <3>2 DEF FedOf
      <4>3. QED
        BY <4>1, <4>2
    <3>3. QED
      BY <3>1, <3>2
  <2>2. ~ (MaskOf(m) \subseteq new.filled)
    BY <1>7 DEF Complete
  <2>3. k <= Items
    BY <1>2
  <2>4. QED
    BY <1>1, <1>2, <1>6, <2>1, <2>2, <2>3 DEF SeqOK
<1>8. ASSUME Complete(new, MaskOf(m)), NEW none, NEW h, NEW snap \in G,
             none.filled = {}, snap.ts = new.ts, h = Append(groups, snap)
      PROVE  SeqOK(none, h, m, q, o, E)
  <2>1. /\ Len(h) = k + 1 /\ DOMAIN h = 1 .. k + 1 /\ h[k + 1] = snap
        /\ \A n \in 1 .. k : h[n] = groups[n]
    BY <1>1, <1>8
  <2>2. new.filled = MaskOf(m)
    BY <1>4, <1>5, <1>8 DEF Complete
  <2>3. GroupsOK(h, m, o)
    <3>1. SUFFICES ASSUME NEW n \in DOMAIN h, NEW g \in MaskOf(m)
                   PROVE  o[h[n].ts[g]] = n
      BY DEF GroupsOK
    <3>2. CASE n = k + 1
      BY <1>2, <1>6, <1>8, <2>1, <2>2, <3>2 DEF OfItem
    <3>3. CASE n # k + 1
      <4>1. n \in 1 .. k
        BY <1>2, <2>1, <3>3
      <4>2. QED
        BY <1>2, <2>1, <4>1 DEF GroupsOK
    <3>4. QED
      BY <3>2, <3>3
  <2>4. ASSUME NEW j \in 1 .. Items PROVE FedTo(q, o, E, m, j) = FedOf(none, k + 1, m, j)
    <3>1. CASE j = i
      BY <1>2, <1>3, <1>4, <2>2, <3>1 DEF FedOf
    <3>2. CASE j > i
      <4>1. FedOf(none, k + 1, m, j) = {}
        BY <1>2, <1>8, <3>2 DEF FedOf
      <4>2. QED
        BY <1>3, <3>2, <4>1
    <3>3. CASE j < i
      <4>1. j # i /\ FedOf(none, k + 1, m, j) = MaskOf(m) /\ FedOf(rec, k, m, j) = MaskOf(m)
        BY <1>2, <3>3 DEF FedOf
      <4>2. QED
        BY <1>2, <1>3, <4>1
    <3>4. QED
      BY <1>2, <3>1, <3>2, <3>3
  <2>5. OfItem(none, o, Len(h) + 1)
    BY <1>8 DEF OfItem
  <2>6. MaskOf(m) \subseteq none.filled => MaskOf(m) = {}
    BY <1>8
  <2>7. Len(h) <= Items
    BY <1>2, <2>1
  <2>8. QED
    BY <2>1, <2>3, <2>4, <2>5, <2>6, <2>7 DEF SeqOK
<1>9. QED
  BY <1>6, <1>7, <1>8 DEF NowOK

\* An event of no stage of m.
LEMMA SeqOther ==
  ASSUME NEW r, NEW o, NEW E, NEW e, NEW q, Front(r, e, q), NEW m, e.stage \notin MaskOf(m),
         NEW rec, NEW groups, SeqOK(rec, groups, m, r, o, E)
  PROVE  SeqOK(rec, groups, m, q, o, E)
<1>1. PICK i : i = o[e.ts]
  OBVIOUS
<1>2. OneQueued(r, q, o, i, e.stage)
  BY <1>1, QueuedTail
<1>3. ASSUME NEW j PROVE FedTo(q, o, E, m, j) = FedTo(r, o, E, m, j)
  BY <1>2 DEF OneQueued, FedTo
<1>4. QED
  BY <1>3 DEF SeqOK

\* Event e is taken from ring buffer r, which leaves q, and is handed to matchers
\* in state s.
Fetches(s, r, e, q, T, k, o, E) ==
  /\ T \subseteq Nat /\ Sound(s, T, k) /\ Owned(T, k, o) /\ e \in Events(T, k)
  /\ E \in [1 .. Items -> SUBSET SeqStages] /\ OrderOK(r, o, E) /\ InTurn(E)
  /\ Front(r, e, q)
  /\ SeqsOK(s, r, o, E)

LEMMA SeqTypes ==
  ASSUME NEW T, NEW k, NEW s, Sound(s, T, k), NEW m \in Seqs
  PROVE  /\ s.pending[m] \in Seq(Groups(m, T, k)) /\ Len(s.pending[m]) \in Nat
         /\ s.recs[m] = [id \in Tids |-> s.recs[m][id]]
         /\ \A id \in Tids : s.recs[m][id] \in Records(m) /\ RecordOK(s.recs[m][id], m, id, T, k)
<1>1. m \in Takers /\ Ids(m) = Tids
  BY MatcherTypes DEF Takers
<1>2. s.pending[m] \in Seq(Groups(m, T, k))
  BY <1>1 DEF Sound, PendingOK
<1>3. Len(s.pending[m]) \in Nat
  <2>1. PICK G, p : p = s.pending[m] /\ G = Groups(m, T, k)
    OBVIOUS
  <2>2. p \in Seq(G)
    BY <1>2, <2>1
  <2>3. Len(p) \in Nat
    BY <2>2
  <2>4. QED
    BY <2>1, <2>3
<1>4. /\ s.recs[m] = [id \in Tids |-> s.recs[m][id]]
      /\ \A id \in Tids : RecordOK(s.recs[m][id], m, id, T, k)
  BY <1>1 DEF Sound, RecsOK
<1>5. \A id \in Tids : s.recs[m][id] \in Records(m)
  BY <1>4 DEF RecordOK
<1>6. QED
  BY <1>2, <1>3, <1>4, <1>5

LEMMA HasLane ==
  ASSUME Pipeline, NEW m \in Seqs
  PROVE  \E l \in DOMAIN Lanes : LaneOf(m, l)
BY DEF Pipeline, LaneOf, MaskOf

\* The event is of the item that comes next at matcher m.
LEMMA FetchedItem ==
  ASSUME Pipeline, NEW s, NEW r, NEW e, NEW q, NEW T, NEW k, NEW o, NEW E,
         Fetches(s, r, e, q, T, k, o, E), NEW m \in Seqs, e.stage \in MaskOf(m),
         NEW i, i = o[e.ts], NEW l \in DOMAIN Lanes, LaneOf(m, l)
  PROVE  /\ i \in 1 .. Items
         /\ i = Len(s.pending[m]) + 1 /\ e.tid = Lanes[l].tid
         /\ FeedOK(e, q, r, o, E, m, i, s.recs[m][e.tid])
         /\ SeqOK(s.recs[m][e.tid], s.pending[m], m, r, o, E)
<1>1. /\ T \subseteq Nat /\ Sound(s, T, k) /\ Owned(T, k, o) /\ e \in Events(T, k)
      /\ E \in [1 .. Items -> SUBSET SeqStages] /\ OrderOK(r, o, E) /\ InTurn(E)
      /\ Front(r, e, q) /\ SeqsOK(s, r, o, E)
  BY DEF Fetches
<1>2. e.ts \in T
  BY <1>1 DEF Events
<1>3. i \in 1 .. Items
  BY <1>1, <1>2 DEF Owned
<1>4. Len(s.pending[m]) \in Nat
  BY <1>1, SeqTypes
<1>5. SeqOK(s.recs[m][Lanes[l].tid], s.pending[m], m, r, o, E)
  BY <1>1 DEF SeqsOK
<1>6. PICK rec, groups : rec = s.recs[m][Lanes[l].tid] /\ groups = s.pending[m]
  OBVIOUS
<1>7. /\ i = Len(groups) + 1 /\ e.tid = Lanes[l].tid /\ FeedOK(e, q, r, o, E, m, i, rec)
  <2>1. Len(groups) \in Nat /\ SeqOK(rec, groups, m, r, o, E)
    BY <1>4, <1>5, <1>6
  <2>2. QED
    BY <1>1, <1>3, <2>1, SeqHead
<1>8. QED
  BY <1>3, <1>5, <1>6, <1>7

\* What matcher m then holds, or hands on, is of this item.
LEMMA FetchedGroup ==
  ASSUME Pipeline, NEW s, NEW r, NEW e, NEW q, NEW T, NEW k, NEW o, NEW E,
         Fetches(s, r, e, q, T, k, o, E), NEW m \in Seqs, e.stage \in MaskOf(m),
         NEW i, i = o[e.ts]
  PROVE  /\ i \in 1 .. Items /\ i = Len(s.pending[m]) + 1 /\ OfItem(SeqRec(s, m, e), o, i)
         /\ Completes(s, m, e) => \A g \in MaskOf(m) : o[SeqSnap(s, m, e).ts[g]] = i
<1>1. PICK l \in DOMAIN Lanes : LaneOf(m, l)
  BY HasLane
<1>2. /\ i \in 1 .. Items
      /\ i = Len(s.pending[m]) + 1 /\ FeedOK(e, q, r, o, E, m, i, s.recs[m][e.tid])
      /\ SeqOK(s.recs[m][e.tid], s.pending[m], m, r, o, E)
  BY <1>1, FetchedItem
<1>3. T \subseteq Nat /\ Sound(s, T, k) /\ e \in Events(T, k)
  BY DEF Fetches
<1>4. e.ts \in Nat /\ e.tid \in Tids
  BY <1>3 DEF Events
<1>5. PICK rec, groups, G :
        rec = s.recs[m][e.tid] /\ groups = s.pending[m] /\ G = Groups(m, T, k)
  OBVIOUS
<1>6. rec \in Records(m) /\ groups \in Seq(G)
  BY <1>3, <1>4, <1>5, SeqTypes
<1>7. PICK new : new = SeqRecord(rec, e, FirstStage(matchers[m].stages))
  OBVIOUS
<1>8. /\ i \in 1 .. Items /\ SeqOK(rec, groups, m, r, o, E)
      /\ i = Len(groups) + 1 /\ FeedOK(e, q, r, o, E, m, i, rec)
  BY <1>2, <1>5
<1>9. NowOK(new, groups, G, m, q, o, E, i)
  BY <1>4, <1>6, <1>7, <1>8, SeqConsume
<1>10. new = SeqRec(s, m, e)
  BY <1>5, <1>7 DEF SeqRec
<1>11. ASSUME Completes(s, m, e), NEW g \in MaskOf(m)
       PROVE  o[SeqSnap(s, m, e).ts[g]] = i
  BY <1>9, <1>10, <1>11 DEF NowOK, OfItem, Completes, Complete, SeqSnap, Snapshot
<1>12. QED
  BY <1>2, <1>9, <1>10, <1>11 DEF NowOK

LEMMA SeqsConsume ==
  ASSUME Pipeline, NEW s, NEW r, NEW e, NEW q, NEW T, NEW k, NEW o, NEW E,
         Fetches(s, r, e, q, T, k, o, E), NEW t, \A m \in Seqs : SeqFed(t, s, m, e)
  PROVE  SeqsOK(t, q, o, E)
<1>1. SUFFICES ASSUME NEW m \in Seqs, NEW l \in DOMAIN Lanes, LaneOf(m, l)
               PROVE  SeqOK(t.recs[m][Lanes[l].tid], t.pending[m], m, q, o, E)
  BY DEF SeqsOK
<1>2. T \subseteq Nat /\ Sound(s, T, k) /\ e \in Events(T, k) /\ Front(r, e, q) /\ SeqsOK(s, r, o, E)
  BY DEF Fetches
<1>3. SeqFed(t, s, m, e)
  OBVIOUS
<1>4. CASE e.stage \notin MaskOf(m)
  <2>1. t.recs[m] = s.recs[m] /\ t.pending[m] = s.pending[m]
    BY <1>3, <1>4 DEF SeqFed, SameAt, Completes
  <2>2. SeqOK(s.recs[m][Lanes[l].tid], s.pending[m], m, r, o, E)
    BY <1>1, <1>2 DEF SeqsOK
  <2>3. PICK rec, groups : rec = s.recs[m][Lanes[l].tid] /\ groups = s.pending[m]
    OBVIOUS
  <2>4. SeqOK(rec, groups, m, r, o, E)
    BY <2>2, <2>3
  <2>5. SeqOK(rec, groups, m, q, o, E)
    BY <1>2, <1>4, <2>4, SeqOther
  <2>6. QED
    BY <2>1, <2>3, <2>5
<1>5. CASE e.stage \in MaskOf(m)
  <2>1. PICK i : i = o[e.ts]
    OBVIOUS
  <2>2. /\ i \in 1 .. Items
        /\ i = Len(s.pending[m]) + 1 /\ e.tid = Lanes[l].tid
        /\ FeedOK(e, q, r, o, E, m, i, s.recs[m][e.tid])
        /\ SeqOK(s.recs[m][e.tid], s.pending[m], m, r, o, E)
    BY <1>1, <1>5, <2>1, FetchedItem
  <2>3. e.ts \in Nat /\ e.tid \in Tids
    BY <1>2 DEF Events
  <2>4. PICK recs, rec, groups, G :
          recs = s.recs[m] /\ rec = recs[e.tid] /\ groups = s.pending[m] /\ G = Groups(m, T, k)
    OBVIOUS
  <2>5. /\ rec \in Records(m) /\ RecordOK(rec, m, e.tid, T, k) /\ groups \in Seq(G)
        /\ recs = [id \in Tids |-> recs[id]]
    BY <1>2, <2>3, <2>4, SeqTypes
  <2>6. PICK new : new = SeqRecord(rec, e, FirstStage(matchers[m].stages))
    OBVIOUS
  <2>7. /\ i \in 1 .. Items /\ SeqOK(rec, groups, m, r, o, E)
        /\ i = Len(groups) + 1 /\ FeedOK(e, q, r, o, E, m, i, rec)
    BY <2>2, <2>4
  <2>8. /\ ~ Complete(new, MaskOf(m)) => SeqOK(new, groups, m, q, o, E)
        /\ Complete(new, MaskOf(m)) =>
             \A none, h : \A snap \in G :
               none.filled = {} /\ snap.ts = new.ts /\ h = Append(groups, snap) =>
                 SeqOK(none, h, m, q, o, E)
    <3>1. NowOK(new, groups, G, m, q, o, E, i)
      BY <1>5, <2>1, <2>3, <2>5, <2>6, <2>7, SeqConsume
    <3>2. QED
      BY <3>1 DEF NowOK
  <2>9. new = SeqRec(s, m, e)
    BY <2>4, <2>6 DEF SeqRec
  <2>10. CASE ~ Completes(s, m, e)
    <3>1. t.recs[m] = [recs EXCEPT ![e.tid] = new] /\ t.pending[m] = groups
      BY <1>3, <1>5, <2>4, <2>9, <2>10 DEF SeqFed
    <3>2. t.recs[m][Lanes[l].tid] = new
      BY <2>2, <2>3, <2>5, <3>1
    <3>3. ~ Complete(new, MaskOf(m))
      BY <1>5, <2>9, <2>10 DEF Completes
    <3>4. QED
      BY <2>8, <3>1, <3>2, <3>3
  <2>11. CASE Completes(s, m, e)
    <3>1. PICK none, snap : none = [new EXCEPT !.filled = {}] /\ snap = Snapshot(new, MaskOf(m))
      OBVIOUS
    <3>2. t.recs[m] = [recs EXCEPT ![e.tid] = none] /\ t.pending[m] = Append(groups, snap)
      BY <1>3, <1>5, <2>4, <2>9, <2>11, <3>1 DEF SeqFed, SeqSnap
    <3>3. t.recs[m][Lanes[l].tid] = none
      BY <2>2, <2>3, <2>5, <3>2
    <3>4. Complete(new, MaskOf(m))
      BY <2>9, <2>11 DEF Completes
    <3>5. RecordOK(new, m, e.tid, T, k)
      <4>1. m \notin KeyMs /\ e.ts \in T
        BY <1>2, MatcherTypes DEF Events
      <4>2. QED
        BY <1>2, <1>5, <2>3, <2>5, <2>6, <4>1, RecordStep
    <3>6. snap \in G
      BY <2>4, <3>1, <3>4, <3>5, MatcherTypes, GroupStep
    <3>7. snap.ts = new.ts /\ none.filled = {}
      BY <3>1, <3>5 DEF Snapshot, RecordOK, Records
    <3>8. QED
      BY <2>8, <3>2, <3>3, <3>4, <3>6, <3>7
  <2>12. QED
    BY <2>10, <2>11
<1>6. QED
  BY <1>4, <1>5

-----------------------------------------------------------------------------
(***************************************************************************)
(* The queues: what pushes is ahead of what pops.                          *)
(***************************************************************************)
\* The popping matcher completes a group of an item the pushing one has
\* completed before.
LEMMA PopWaits ==
  ASSUME Pipeline, NEW s, NEW r, NEW e, NEW q, NEW T, NEW k, NEW o, NEW E,
         Fetches(s, r, e, q, T, k, o, E), NEW c \in Connections, Completes(s, c.pop_seq, e),
         NEW i, i = o[e.ts]
  PROVE  i <= Len(s.pending[c.push_seq]) /\ ~ Completes(s, c.push_seq, e)
<1>1. PICK a \in Seqs, b \in Seqs : a = c.push_seq /\ b = c.pop_seq
  BY ConnectionTypes
<1>2. c.from \in MaskOf(a) /\ e.stage \in MaskOf(b)
  BY <1>1, ConnectionTypes DEF Completes
<1>3. PICK h \in MaskOf(b) : \A g \in MaskOf(a) : Ahead(g, h)
  BY <1>1 DEF Pipeline, MaskOf
<1>4. h \in SeqStages /\ e.stage \in SeqStages /\ MaskOf(a) \subseteq SeqStages
  BY <1>2, SeqStagesOf
<1>5. /\ T \subseteq Nat /\ Sound(s, T, k) /\ e \in Events(T, k)
      /\ E \in [1 .. Items -> SUBSET SeqStages] /\ OrderOK(r, o, E) /\ InTurn(E)
      /\ Front(r, e, q) /\ SeqsOK(s, r, o, E)
  BY DEF Fetches
<1>6. e.ts \in Nat /\ e.tid \in Tids
  BY <1>5 DEF Events
<1>7. h \in E[i] /\ h \notin QueuedOf(q, o, i) /\ i \in 1 .. Items
  <2>1. PICK l \in DOMAIN Lanes : LaneOf(b, l)
    BY HasLane
  <2>2. i \in 1 .. Items /\ FeedOK(e, q, r, o, E, b, i, s.recs[b][e.tid])
    BY <1>2, <2>1, FetchedItem
  <2>3. PICK rec : rec = s.recs[b][e.tid]
    OBVIOUS
  <2>4. rec \in Records(b)
    BY <1>5, <1>6, <2>3, SeqTypes
  <2>5. PICK first : first = FirstStage(matchers[b].stages)
    OBVIOUS
  <2>6. /\ e.stage = first => rec.filled = {}
        /\ FedTo(q, o, E, b, i) = rec.filled \cup {e.stage}
    BY <2>2, <2>3, <2>5 DEF FeedOK
  <2>7. SeqRecord(rec, e, first).filled = rec.filled \cup {e.stage}
    BY <1>2, <1>6, <2>4, <2>6, SeqRecordFields
  <2>8. MaskOf(b) \subseteq rec.filled \cup {e.stage}
    BY <1>1, <2>3, <2>5, <2>7 DEF Completes, Complete, SeqRec
  <2>9. h \in FedTo(q, o, E, b, i)
    BY <2>6, <2>8
  <2>10. QED
    BY <2>2, <2>9 DEF FedTo
<1>8. HeadOK(e, q, r, o, E, i)
  BY <1>4, <1>5, OrderHead
<1>9. OneQueued(r, q, o, i, e.stage)
  BY <1>5, QueuedTail
<1>10. ASSUME NEW g \in MaskOf(a)
       PROVE  g \in E[i] /\ g \notin QueuedOf(r, o, i)
  <2>1. Ahead(g, h) /\ g \in SeqStages
    BY <1>3, <1>4
  <2>2. Precedes(i, g, i, h)
    BY <1>7, <2>1, ItemsAssumption DEF Precedes
  <2>3. g \in E[i]
    BY <1>4, <1>5, <1>7, <2>1, <2>2 DEF InTurn
  <2>4. ASSUME g \in QueuedOf(r, o, i) PROVE FALSE
    <3>1. h \in QueuedOf(r, o, i)
      BY <1>5, <1>7, <2>1, <2>2, <2>4, QueuedLater
    <3>2. h = e.stage
      BY <1>7, <1>9, <3>1 DEF OneQueued
    <3>3. g # h
      BY <2>1, NotAhead
    <3>4. g \in QueuedOf(q, o, i)
      BY <1>9, <2>4, <3>2, <3>3 DEF OneQueued
    <3>5. QED
      BY <1>8, <2>1, <2>2, <3>2, <3>4 DEF HeadOK
  <2>5. QED
    BY <2>3, <2>4
<1>11. FedTo(r, o, E, a, i) = MaskOf(a)
  BY <1>10 DEF FedTo
<1>12. i <= Len(s.pending[a])
  <2>1. PICK l \in DOMAIN Lanes : LaneOf(a, l)
    BY HasLane
  <2>2. PICK rec, n : rec = s.recs[a][Lanes[l].tid] /\ n = Len(s.pending[a])
    OBVIOUS
  <2>3. /\ MaskOf(a) \subseteq rec.filled => MaskOf(a) = {}
        /\ FedTo(r, o, E, a, i) = FedOf(rec, n, a, i)
    BY <1>5, <1>7, <2>1, <2>2 DEF SeqsOK, SeqOK
  <2>4. n \in Nat /\ i \in Nat
    BY <1>5, <1>7, <2>2, SeqTypes
  <2>5. ASSUME ~ (i <= n) PROVE FALSE
    <3>1. FedOf(rec, n, a, i) = rec.filled \/ FedOf(rec, n, a, i) = {}
      BY <2>4, <2>5 DEF FedOf
    <3>2. QED
      BY <1>2, <1>11, <2>3, <3>1
  <2>6. QED
    BY <2>2, <2>5
<1>13. ASSUME Completes(s, a, e) PROVE FALSE
  <2>1. e.stage \in MaskOf(a)
    BY <1>13 DEF Completes
  <2>2. i = Len(s.pending[a]) + 1
    BY <2>1, FetchedGroup
  <2>3. Len(s.pending[a]) \in Nat
    BY <1>5, SeqTypes
  <2>4. QED
    BY <1>12, <2>2, <2>3
<1>14. QED
  BY <1>1, <1>12, <1>13

\* What a push and a pop have to do with the overflow flag, d before and d2 after.
PushNotes(d, d2, q, capacity) == ~ d2 => ~ d /\ Len(q) # capacity
PopNotes(d, d2) == d => d2
HeadIs(q, d, o, i) == ~ d => q # <<>> /\ o[Head(q)] = i

LEMMA LinePush ==
  ASSUME NEW T, NEW q \in Seq(T), NEW a \in Nat, NEW b \in Nat, NEW o, NEW d, LineOK(q, a, b, o, d),
         NEW ts \in T, o[ts] = a + 1, NEW capacity \in Nat \ {0}, NEW d2,
         PushNotes(d, d2, q, capacity),
         NEW p, p = Pushed(q, ts, capacity), NEW a2, a2 = a + 1
  PROVE  LineOK(p, a2, b, o, d2)
<1>1. p = Pushed(q, ts, capacity)
  OBVIOUS
<1>2. PICK z \in Nat : z = Len(q) /\ z <= a - b
  BY DEF LineOK
<1>3. CASE Len(q) = capacity
  <2>1. Tail(q) \in Seq(T) /\ Len(Tail(q)) = Len(q) - 1
    BY <1>3
  <2>2. p = Append(Tail(q), ts)
    BY <1>1, <1>3 DEF Pushed
  <2>3. Len(p) = z
    <3>1. PICK u : u = Tail(q)
      OBVIOUS
    <3>2. u \in Seq(T) /\ Len(u) = z - 1
      BY <1>2, <2>1, <3>1
    <3>3. Len(Append(u, ts)) = Len(u) + 1
      BY <3>2
    <3>4. QED
      BY <1>2, <2>2, <3>1, <3>2, <3>3
  <2>4. d2
    BY <1>3 DEF PushNotes
  <2>5. Len(p) <= (a + 1) - b
    BY <1>2, <2>3
  <2>6. QED
    BY <1>1, <2>4, <2>5 DEF LineOK
<1>4. CASE Len(q) # capacity
  <2>1. p = Append(q, ts)
    BY <1>1, <1>4 DEF Pushed
  <2>2. /\ Len(p) = z + 1 /\ DOMAIN p = 1 .. z + 1 /\ p[z + 1] = ts
        /\ DOMAIN q = 1 .. z /\ \A n \in 1 .. z : p[n] = q[n]
    BY <1>2, <2>1
  <2>3. Len(p) <= (a + 1) - b
    BY <1>2, <2>2
  <2>4. ASSUME ~ d2
        PROVE  Len(p) = (a + 1) - b /\ \A n \in DOMAIN p : o[p[n]] = b + n
    <3>1. z = a - b /\ \A n \in DOMAIN q : o[q[n]] = b + n
      BY <1>2, <2>4 DEF LineOK, PushNotes
    <3>2. Len(p) = (a + 1) - b
      BY <2>2, <3>1
    <3>3. ASSUME NEW n \in DOMAIN p PROVE o[p[n]] = b + n
      <4>1. CASE n = z + 1
        BY <1>2, <2>2, <3>1, <4>1
      <4>2. CASE n # z + 1
        <5>1. n \in 1 .. z
          BY <1>2, <2>2, <4>2
        <5>2. QED
          BY <2>2, <3>1, <5>1
      <4>3. QED
        BY <4>1, <4>2
    <3>4. QED
      BY <3>2, <3>3
  <2>5. QED
    BY <1>1, <2>3, <2>4 DEF LineOK
<1>5. QED
  BY <1>3, <1>4

LEMMA LinePop ==
  ASSUME NEW T, NEW q \in Seq(T), NEW a \in Nat, NEW b \in Nat, NEW o, NEW d, LineOK(q, a, b, o, d),
         b + 1 <= a, NEW d2, PopNotes(d, d2), NEW p, p = Popped(q), NEW b2, b2 = b + 1
  PROVE  LineOK(p, a, b2, o, d2) /\ HeadIs(q, d, o, b2)
<1>1. p = Popped(q)
  OBVIOUS
<1>2. Len(q) \in Nat /\ Len(q) <= a - b
  BY DEF LineOK
<1>3. CASE q = <<>>
  <2>1. Len(q) = 0 /\ p = q
    BY <1>1, <1>3 DEF Popped
  <2>2. d
    <3>1. ASSUME ~ d PROVE FALSE
      <4>1. Len(q) = a - b
        BY <3>1 DEF LineOK
      <4>2. QED
        BY <2>1, <4>1
    <3>2. QED
      BY <3>1
  <2>3. Len(p) <= a - (b + 1)
    BY <2>1
  <2>4. QED
    BY <1>1, <2>2, <2>3 DEF LineOK, HeadIs, PopNotes
<1>4. CASE q # <<>>
  <2>1. p = Tail(q) /\ Len(q) > 0
    BY <1>1, <1>4 DEF Popped
  <2>2. /\ Len(p) = Len(q) - 1 /\ DOMAIN p = 1 .. Len(q) - 1 /\ Head(q) = q[1] /\ 1 \in DOMAIN q
        /\ DOMAIN q = 1 .. Len(q)
        /\ \A n \in 1 .. Len(q) - 1 : p[n] = q[n + 1]
    BY <2>1
  <2>3. Len(p) <= a - (b + 1)
    BY <1>2, <2>2
  <2>4. ASSUME ~ d
        PROVE  /\ o[Head(q)] = b + 1
               /\ Len(p) = a - (b + 1) /\ \A n \in DOMAIN p : o[p[n]] = (b + 1) + n
    <3>1. Len(q) = a - b /\ \A n \in DOMAIN q : o[q[n]] = b + n
      BY <2>4 DEF LineOK
    <3>2. Len(p) = a - (b + 1)
      BY <2>2, <3>1
    <3>3. ASSUME NEW n \in DOMAIN p PROVE o[p[n]] = (b + 1) + n
      <4>1. n + 1 \in DOMAIN q /\ p[n] = q[n + 1] /\ n \in Nat
        BY <1>2, <2>2
      <4>2. o[q[n + 1]] = b + (n + 1)
        BY <3>1, <4>1
      <4>3. QED
        BY <4>1, <4>2
    <3>4. o[Head(q)] = b + 1
      BY <2>2, <3>1
    <3>5. QED
      BY <3>2, <3>3, <3>4
  <2>5. ~ d2 => ~ d
    BY DEF PopNotes
  <2>6. LineOK(p, a, b + 1, o, d2)
    BY <2>3, <2>4, <2>5 DEF LineOK
  <2>7. QED
    BY <1>1, <1>4, <2>4, <2>6 DEF HeadIs
<1>5. QED
  BY <1>3, <1>4

\* A matcher has a group more if the event completes one.
LEMMA GroupsFed ==
  ASSUME NEW s, NEW t, NEW e, NEW m, SeqFed(t, s, m, e), NEW G, s.pending[m] \in Seq(G)
  PROVE  /\ ~ Completes(s, m, e) => t.pending[m] = s.pending[m]
         /\ Completes(s, m, e) =>
              /\ t.pending[m] = Append(s.pending[m], SeqSnap(s, m, e))
              /\ Len(t.pending[m]) = Len(s.pending[m]) + 1
<1>1. ~ Completes(s, m, e) => t.pending[m] = s.pending[m]
  BY DEF SeqFed, SameAt, Completes
<1>2. ASSUME Completes(s, m, e)
      PROVE  t.pending[m] = Append(s.pending[m], SeqSnap(s, m, e))
  BY <1>2 DEF SeqFed, Completes
<1>3. ASSUME Completes(s, m, e)
      PROVE  Len(t.pending[m]) = Len(s.pending[m]) + 1
  <2>1. PICK p, x : p = s.pending[m] /\ x = SeqSnap(s, m, e)
    OBVIOUS
  <2>2. p \in Seq(G) /\ t.pending[m] = Append(p, x)
    BY <1>2, <1>3, <2>1
  <2>3. Len(Append(p, x)) = Len(p) + 1
    BY <2>2
  <2>4. QED
    BY <2>1, <2>2, <2>3
<1>4. QED
  BY <1>1, <1>2, <1>3

\* What the event does to the queue of connection c.
LEMMA LineConsume ==
  ASSUME Pipeline, NEW s, NEW r, NEW e, NEW q, NEW T, NEW k, NEW o, NEW E,
         Fetches(s, r, e, q, T, k, o, E), NEW t, NEW N,
         \A m \in Seqs : SeqFed(t, s, m, e), \A m \in Seqs : Fed(s, m, e, N) <=> Completes(s, m, e),
         NEW c \in Connections, FifoUpto(t, s, c, e, N),
         NEW a, NEW b, a = Len(s.pending[c.push_seq]), b = Len(s.pending[c.pop_seq]),
         LineOK(s.fifos[c.name], a, b, o, s.dropped)
  PROVE  /\ LineOK(t.fifos[c.name], Len(t.pending[c.push_seq]), Len(t.pending[c.pop_seq]), o, t.dropped)
         /\ Completes(s, c.pop_seq, e) /\ ~ t.dropped =>
              s.fifos[c.name] # <<>> /\ o[Head(s.fifos[c.name])] = o[e.ts]
<1>1. PICK x \in Seqs, y \in Seqs : x = c.push_seq /\ y = c.pop_seq /\ c.from \in MaskOf(x)
  BY ConnectionTypes
<1>2. Sound(s, T, k) /\ e \in Events(T, k) /\ T \subseteq Nat
  BY DEF Fetches
<1>3. PICK f : f = s.fifos[c.name]
  OBVIOUS
<1>4. f \in Seq(T)
  BY <1>2, <1>3, ConnectionTypes DEF Sound, FifosOK
<1>5. a \in Nat /\ b \in Nat /\ s.pending[x] \in Seq(Groups(x, T, k)) /\ s.pending[y] \in Seq(Groups(y, T, k))
  BY <1>1, <1>2, SeqTypes
<1>6. PICK i : i = o[e.ts]
  OBVIOUS
<1>7. PICK d, d2 : d = s.dropped /\ d2 = t.dropped
  OBVIOUS
<1>8. LineOK(f, a, b, o, d)
  BY <1>3, <1>7
<1>9. d => d2
  BY <1>7 DEF FifoUpto
<1>10. CASE Completes(s, y, e)
  <2>1. i <= a /\ ~ Completes(s, x, e)
    BY <1>1, <1>6, <1>10, PopWaits
  <2>2. i = b + 1
    <3>1. e.stage \in MaskOf(y)
      BY <1>10 DEF Completes
    <3>2. QED
      BY <1>1, <1>6, <3>1, FetchedGroup
  <2>3. t.fifos[c.name] = Popped(f)
    BY <1>1, <1>3, <1>10, <2>1 DEF FifoUpto
  <2>4. Len(t.pending[x]) = a /\ Len(t.pending[y]) = b + 1
    BY <1>1, <1>5, <1>10, <2>1, GroupsFed
  <2>5. b + 1 <= a
    BY <2>1, <2>2
  <2>6. /\ LineOK(Popped(f), a, b + 1, o, d2)
        /\ ~ d => f # <<>> /\ o[Head(f)] = b + 1
    <3>1. PICK p, b2 : p = Popped(f) /\ b2 = b + 1
      OBVIOUS
    <3>2. PopNotes(d, d2)
      BY <1>9 DEF PopNotes
    <3>3. LineOK(p, a, b2, o, d2) /\ HeadIs(f, d, o, b2)
      BY <1>4, <1>5, <1>8, <2>5, <3>1, <3>2, LinePop
    <3>4. QED
      BY <3>1, <3>3 DEF HeadIs
  <2>7. ~ d2 => ~ d
    BY <1>9
  <2>8. QED
    BY <1>1, <1>3, <1>6, <1>7, <2>2, <2>3, <2>4, <2>6, <2>7
<1>11. CASE ~ Completes(s, y, e) /\ Completes(s, x, e)
  <2>1. PICK ts, capacity : ts = SeqSnap(s, x, e).ts[c.from] /\ capacity = Capacity[c.name]
    OBVIOUS
  <2>2. e.stage \in MaskOf(x)
    BY <1>11 DEF Completes
  <2>3. i = a + 1 /\ o[ts] = i
    BY <1>1, <1>6, <1>11, <2>1, <2>2, FetchedGroup
  <2>4. ts \in T
    <3>1. PICK rec : rec = SeqRec(s, x, e)
      OBVIOUS
    <3>2. e.ts \in T /\ e.tid \in Tids
      BY <1>2 DEF Events
    <3>3. x \notin KeyMs /\ RecordOK(s.recs[x][e.tid], x, e.tid, T, k)
      BY <1>2, <3>2, MatcherTypes, SeqTypes
    <3>4. RecordOK(rec, x, e.tid, T, k)
      BY <1>2, <2>2, <3>1, <3>2, <3>3, RecordStep DEF SeqRec
    <3>5. c.from \in rec.filled
      BY <1>1, <1>11, <3>1 DEF Completes, Complete
    <3>6. rec.ts[c.from] \in T
      BY <3>4, <3>5 DEF RecordOK
    <3>7. QED
      BY <2>1, <3>1, <3>6 DEF SeqSnap, Snapshot
  <2>5. capacity \in Nat \ {0}
    BY <2>1, ConnectionTypes, CapacityType
  <2>6. t.fifos[c.name] = Pushed(f, ts, capacity) /\ (Len(f) = capacity => d2)
    BY <1>1, <1>3, <1>7, <1>11, <2>1 DEF FifoUpto
  <2>7. Len(t.pending[x]) = a + 1 /\ Len(t.pending[y]) = b
    BY <1>1, <1>5, <1>11, GroupsFed
  <2>8. PushNotes(d, d2, f, capacity)
    BY <1>9, <2>6 DEF PushNotes
  <2>9. LineOK(Pushed(f, ts, capacity), a + 1, b, o, d2)
    <3>1. PICK p, a2 : p = Pushed(f, ts, capacity) /\ a2 = a + 1
      OBVIOUS
    <3>2. o[ts] = a + 1
      BY <2>3
    <3>3. LineOK(p, a2, b, o, d2)
      BY <1>4, <1>5, <1>8, <2>4, <2>5, <2>8, <3>1, <3>2, LinePush
    <3>4. QED
      BY <3>1, <3>3
  <2>10. QED
    BY <1>1, <1>7, <1>11, <2>6, <2>7, <2>9
<1>12. CASE ~ Completes(s, y, e) /\ ~ Completes(s, x, e)
  <2>1. t.fifos[c.name] = f
    BY <1>1, <1>3, <1>12 DEF FifoUpto
  <2>2. Len(t.pending[x]) = a /\ Len(t.pending[y]) = b
    BY <1>1, <1>5, <1>12, GroupsFed
  <2>3. LineOK(f, a, b, o, d2)
    BY <1>8, <1>9 DEF LineOK
  <2>4. QED
    BY <1>1, <1>7, <1>12, <2>1, <2>2, <2>3
<1>13. QED
  BY <1>10, <1>11, <1>12

-----------------------------------------------------------------------------
(***************************************************************************)
(* The samples: between events of one item.                                *)
(***************************************************************************)
LEMMA IntraRowIs ==
  ASSUME NEW snap, NEW x \in IntraRows(snap)
  PROVE  \E a, b \in snap.stages : x.delta.ts_from = snap.ts[a] /\ x.delta.ts_to = snap.ts[b]
<1>1. PICK p \in {q \in DOMAIN report_keys : {q[1], q[2]} \subseteq snap.stages /\ q[1] < q[2]} :
        x = Row(report_keys[p], Delta(p[1], p[2], snap.ts[p[1]], snap.ts[p[2]], snap.tid))
  BY DEF IntraRows
<1>2. p[1] \in snap.stages /\ p[2] \in snap.stages
  OBVIOUS
<1>3. x.delta.ts_from = snap.ts[p[1]] /\ x.delta.ts_to = snap.ts[p[2]]
  BY <1>1, RowFields
<1>4. QED
  BY <1>2, <1>3

\* What a pop finds when it has an event of item i.
HeadReady(s, e, o) ==
  \A c \in Connections : Completes(s, c.pop_seq, e) =>
    /\ s.fifos[c.name] # <<>> /\ o[Head(s.fifos[c.name])] = o[e.ts]
    /\ ~ Completes(s, c.push_seq, e)

LEMMA RowsConsume ==
  ASSUME Pipeline, NEW s, NEW r, NEW e, NEW q, NEW T, NEW k, NEW o, NEW E,
         Fetches(s, r, e, q, T, k, o, E), NEW t, NEW N,
         \A m \in Seqs : SeqFed(t, s, m, e), \A m \in Seqs : Fed(s, m, e, N) <=> Completes(s, m, e),
         RowsUpto(t, s, e, N), HeadReady(s, e, o),
         \A x \in DOMAIN s.samples : RowSame(x, o), RowsThere(s, o)
  PROVE  (\A x \in DOMAIN t.samples : RowSame(x, o)) /\ RowsThere(t, o)
<1>1. PICK i : i = o[e.ts]
  OBVIOUS
<1>2. ASSUME NEW m \in Seqs, Completes(s, m, e)
      PROVE  /\ i = Len(s.pending[m]) + 1
             /\ \A g \in MaskOf(m) : o[SeqSnap(s, m, e).ts[g]] = i
  <2>1. e.stage \in MaskOf(m)
    BY <1>2 DEF Completes
  <2>2. QED
    BY <1>1, <1>2, <2>1, FetchedGroup
<1>3. ASSUME NEW x \in DOMAIN t.samples
      PROVE  RowSame(x, o)
  <2>1. CASE x \in DOMAIN s.samples
    BY <2>1
  <2>2. ASSUME NEW m \in Seqs, Completes(s, m, e), x \in IntraRows(SeqSnap(s, m, e))
        PROVE  RowSame(x, o)
    <3>1. PICK snap : snap = SeqSnap(s, m, e)
      OBVIOUS
    <3>2. snap.stages = MaskOf(m)
      BY <3>1 DEF SeqSnap, Snapshot
    <3>3. PICK a \in snap.stages, b \in snap.stages :
            x.delta.ts_from = snap.ts[a] /\ x.delta.ts_to = snap.ts[b]
      BY <2>2, <3>1, IntraRowIs
    <3>4. o[snap.ts[a]] = i /\ o[snap.ts[b]] = i
      BY <1>2, <2>2, <3>1, <3>2
    <3>5. QED
      BY <3>3, <3>4 DEF RowSame
  <2>3. ASSUME NEW c \in Connections, Completes(s, c.pop_seq, e), RowOfEvent(x, s, c, e)
        PROVE  RowSame(x, o)
    <3>1. PICK f, snap : f = s.fifos[c.name] /\ snap = SeqSnap(s, c.pop_seq, e)
      OBVIOUS
    <3>2. o[Head(f)] = i /\ ~ Completes(s, c.push_seq, e)
      BY <1>1, <2>3, <3>1 DEF HeadReady
    <3>3. x = TheRow(c, Head(f), snap)
      BY <2>3, <3>1, <3>2 DEF RowOfEvent
    <3>4. x.delta.ts_from = Head(f) /\ x.delta.ts_to = snap.ts[c.to]
      BY <3>3, RowFields DEF TheRow
    <3>5. o[snap.ts[c.to]] = i
      BY <1>2, <2>3, <3>1, ConnectionTypes
    <3>6. QED
      BY <3>2, <3>4, <3>5 DEF RowSame
  <2>4. QED
    BY <2>1, <2>2, <2>3, ConnectionTypes DEF RowsUpto
<1>4. DOMAIN s.samples \subseteq DOMAIN t.samples
  BY DEF RowsUpto
<1>5. ASSUME NEW c \in Connections, NEW n \in DOMAIN t.pending[c.pop_seq]
      PROVE  \E x \in DOMAIN t.samples : x.name = c.name /\ o[x.delta.ts_to] = n
  <2>1. PICK m \in Seqs : m = c.pop_seq /\ c.to \in MaskOf(m)
    BY ConnectionTypes
  <2>2. PICK G, groups : G = Groups(m, T, k) /\ groups = s.pending[m]
    OBVIOUS
  <2>3. groups \in Seq(G) /\ Len(groups) \in Nat
    BY <2>2, SeqTypes DEF Fetches
  <2>4. CASE n \in DOMAIN groups
    BY <1>4, <2>1, <2>2, <2>4 DEF RowsThere
  <2>5. CASE n \notin DOMAIN groups
    <3>1. SeqFed(t, s, m, e)
      OBVIOUS
    <3>2. Completes(s, m, e)
      BY <2>1, <2>2, <2>3, <2>5, <3>1, GroupsFed
    <3>3. PICK snap : snap = SeqSnap(s, m, e)
      OBVIOUS
    <3>4. t.pending[m] = Append(groups, snap)
      BY <2>2, <2>3, <3>1, <3>2, <3>3, GroupsFed
    <3>5. n \in DOMAIN Append(groups, snap)
      BY <2>1, <3>4
    <3>6. DOMAIN Append(groups, snap) = 1 .. Len(groups) + 1 /\ DOMAIN groups = 1 .. Len(groups)
      BY <2>3
    <3>7. n = Len(groups) + 1
      BY <2>3, <2>5, <3>5, <3>6
    <3>8. n = i /\ o[snap.ts[c.to]] = i
      BY <1>2, <2>1, <2>2, <3>2, <3>3, <3>7
    <3>9. PICK x : x = TheRow(c, Head(s.fifos[c.name]), snap)
      OBVIOUS
    <3>10. x \in DOMAIN t.samples
      BY <2>1, <3>2, <3>3, <3>9 DEF RowsUpto, HeadReady
    <3>11. x.name = c.name /\ x.delta.ts_to = snap.ts[c.to]
      BY <3>9, RowFields DEF TheRow
    <3>12. QED
      BY <3>8, <3>10, <3>11
  <2>6. QED
    BY <2>4, <2>5
<1>6. RowsThere(t, o)
  BY <1>5 DEF RowsThere
<1>7. QED
  BY <1>3, <1>6

-----------------------------------------------------------------------------
(***************************************************************************)
(* What matchers, queues and histograms hold, as events are read, as more  *)
(* events come, and while nothing comes.                                   *)
(***************************************************************************)
LEMMA PairsConsume ==
  ASSUME Pipeline, NEW s, NEW r, NEW e, NEW q, NEW T, NEW k, NEW o, NEW E,
         Fetches(s, r, e, q, T, k, o, E), PairsOK(s, r, o, E), NEW t, t = HandleRingEvent(s, e)
  PROVE  PairsOK(t, q, o, E)
<1>1. T \subseteq Nat /\ Sound(s, T, k) /\ e \in Events(T, k)
  BY DEF Fetches
<1>2. PICK N : N = Len(matchers)
  OBVIOUS
<1>3. /\ \A m \in Seqs : SeqFed(t, s, m, e)
      /\ \A m \in Seqs : Fed(s, m, e, N) <=> Completes(s, m, e)
      /\ \A c \in Connections : FifoUpto(t, s, c, e, N)
      /\ RowsUpto(t, s, e, N) /\ (s.dropped => t.dropped)
  BY <1>1, <1>2, EventResult
<1>4. SeqsOK(t, q, o, E)
  BY <1>3, SeqsConsume
<1>5. ASSUME NEW c \in Connections
      PROVE  /\ LineOK(t.fifos[c.name], Len(t.pending[c.push_seq]), Len(t.pending[c.pop_seq]), o,
                       t.dropped)
             /\ Completes(s, c.pop_seq, e) /\ ~ t.dropped =>
                  s.fifos[c.name] # <<>> /\ o[Head(s.fifos[c.name])] = o[e.ts]
  <2>1. PICK a, b : a = Len(s.pending[c.push_seq]) /\ b = Len(s.pending[c.pop_seq])
    OBVIOUS
  <2>2. LineOK(s.fifos[c.name], a, b, o, s.dropped)
    BY <2>1 DEF PairsOK, LinesOK
  <2>3. FifoUpto(t, s, c, e, N)
    BY <1>3
  <2>4. QED
    BY <1>3, <2>1, <2>2, <2>3, LineConsume
<1>6. LinesOK(t, o)
  BY <1>5 DEF LinesOK
<1>7. ASSUME ~ t.dropped
      PROVE  (\A x \in DOMAIN t.samples : RowSame(x, o)) /\ RowsThere(t, o)
  <2>1. HeadReady(s, e, o)
    <3>1. SUFFICES ASSUME NEW c \in Connections, Completes(s, c.pop_seq, e)
                   PROVE  /\ s.fifos[c.name] # <<>> /\ o[Head(s.fifos[c.name])] = o[e.ts]
                          /\ ~ Completes(s, c.push_seq, e)
      BY DEF HeadReady
    <3>2. PICK i : i = o[e.ts]
      OBVIOUS
    <3>3. ~ Completes(s, c.push_seq, e)
      BY <3>1, <3>2, PopWaits
    <3>4. QED
      BY <1>5, <1>7, <3>1, <3>3
  <2>2. ~ s.dropped
    BY <1>3, <1>7
  <2>3. QED
    BY <1>3, <2>1, <2>2, RowsConsume DEF PairsOK
<1>8. QED
  BY <1>4, <1>6, <1>7 DEF PairsOK

LEMMA RowStamps ==
  ASSUME NEW T, NEW k, NEW s, Sound(s, T, k)
  PROVE  /\ \A x \in DOMAIN s.samples : x.delta.ts_from \in T /\ x.delta.ts_to \in T
         /\ \A c \in Connections : s.fifos[c.name] \in Seq(T)
<1>1. \A x \in DOMAIN s.samples : x.delta.ts_from \in T /\ x.delta.ts_to \in T
  BY DEF Sound, RowsOK, RowOK
<1>2. \A c \in Connections : s.fifos[c.name] \in Seq(T)
  BY ConnectionTypes DEF Sound, FifosOK
<1>3. QED
  BY <1>1, <1>2

\* More events have happened.
LEMMA RecStill ==
  ASSUME NEW T, NEW k, NEW o, NEW o2, \A t \in T : o2[t] = o[t],
         NEW m \in Seqs, NEW id, NEW rec, RecordOK(rec, m, id, T, k),
         NEW groups \in Seq(Groups(m, T, k)), NEW r, NEW q, NEW E, NEW E2,
         \A j \in 1 .. Items : FedTo(q, o2, E2, m, j) = FedTo(r, o, E, m, j),
         SeqOK(rec, groups, m, r, o, E)
  PROVE  SeqOK(rec, groups, m, q, o2, E2)
<1>1. GroupsOK(groups, m, o2)
  <2>1. SUFFICES ASSUME NEW n \in DOMAIN groups, NEW g \in MaskOf(m)
                 PROVE  o2[groups[n].ts[g]] = n
    BY DEF GroupsOK
  <2>2. PICK G : G = Groups(m, T, k)
    OBVIOUS
  <2>3. groups[n] \in G
    <3>1. groups \in Seq(G)
      BY <2>2
    <3>2. QED
      BY <3>1
  <2>4. groups[n].ts[g] \in T
    BY <2>2, <2>3 DEF Groups
  <2>5. o[groups[n].ts[g]] = n
    BY DEF SeqOK, GroupsOK
  <2>6. QED
    BY <2>4, <2>5
<1>2. PICK i : i = Len(groups) + 1
  OBVIOUS
<1>3. OfItem(rec, o2, i)
  <2>1. OfItem(rec, o, i)
    BY <1>2 DEF SeqOK
  <2>2. QED
    BY <2>1 DEF OfItem, RecordOK
<1>4. QED
  BY <1>1, <1>2, <1>3 DEF SeqOK

LEMMA PairsStill ==
  ASSUME NEW T, NEW k, NEW o, NEW o2, \A t \in T : o2[t] = o[t],
         NEW s, Sound(s, T, k), NEW r, NEW q, NEW E, NEW E2,
         \A m \in Seqs : \A j \in 1 .. Items : FedTo(q, o2, E2, m, j) = FedTo(r, o, E, m, j),
         PairsOK(s, r, o, E)
  PROVE  PairsOK(s, q, o2, E2)
<1>1. SeqsOK(s, q, o2, E2)
  <2>1. SUFFICES ASSUME NEW m \in Seqs, NEW l \in DOMAIN Lanes, LaneOf(m, l)
                 PROVE  SeqOK(s.recs[m][Lanes[l].tid], s.pending[m], m, q, o2, E2)
    BY DEF SeqsOK
  <2>2. PICK id, rec, groups : id = Lanes[l].tid /\ rec = s.recs[m][id] /\ groups = s.pending[m]
    OBVIOUS
  <2>3. id \in Tids
    BY <2>2, LaneTypes
  <2>4. RecordOK(rec, m, id, T, k) /\ groups \in Seq(Groups(m, T, k))
    BY <2>2, <2>3, SeqTypes
  <2>5. SeqOK(rec, groups, m, r, o, E)
    BY <2>1, <2>2 DEF PairsOK, SeqsOK
  <2>6. SeqOK(rec, groups, m, q, o2, E2)
    BY <2>4, <2>5, RecStill
  <2>7. QED
    BY <2>2, <2>6
<1>2. ASSUME NEW c \in Connections, NEW f, f = s.fifos[c.name], NEW a, NEW b, NEW d, LineOK(f, a, b, o, d)
      PROVE  LineOK(f, a, b, o2, d)
  <2>1. f \in Seq(T)
    BY <1>2, RowStamps
  <2>2. \A n \in DOMAIN f : f[n] \in T
    BY <2>1
  <2>3. QED
    BY <1>2, <2>2 DEF LineOK
<1>3. LinesOK(s, o2)
  BY <1>2 DEF PairsOK, LinesOK
<1>4. ASSUME ~ s.dropped
      PROVE  (\A x \in DOMAIN s.samples : RowSame(x, o2)) /\ RowsThere(s, o2)
  <2>1. /\ \A x \in DOMAIN s.samples : RowSame(x, o)
        /\ RowsThere(s, o)
    BY <1>4 DEF PairsOK
  <2>2. \A x \in DOMAIN s.samples :
          o2[x.delta.ts_from] = o[x.delta.ts_from] /\ o2[x.delta.ts_to] = o[x.delta.ts_to]
    BY RowStamps
  <2>3. \A x \in DOMAIN s.samples : RowSame(x, o2)
    BY <2>1, <2>2 DEF RowSame
  <2>4. RowsThere(s, o2)
    BY <2>1, <2>2 DEF RowsThere
  <2>5. QED
    BY <2>3, <2>4
<1>5. QED
  BY <1>1, <1>3, <1>4 DEF PairsOK

\* Item i has got past stage g too, as far as matcher m is concerned.
MorePassed(E2, E, i, g, m) ==
  /\ E2[i] \cap MaskOf(m) = (E[i] \cup {g}) \cap MaskOf(m)
  /\ \A j \in 1 .. Items : j # i => E2[j] = E[j]

\* The event that is now queued has not been fed to any matcher.
LEMMA FedAppend ==
  ASSUME NEW r, NEW q, NEW o, NEW i \in 1 .. Items, NEW g, OneQueued(q, r, o, i, g),
         NEW E, g \notin E[i], NEW E2, NEW m, MorePassed(E2, E, i, g, m), NEW j \in 1 .. Items
  PROVE  FedTo(q, o, E2, m, j) = FedTo(r, o, E, m, j)
<1>1. CASE j = i
  <2>1. /\ E2[j] \cap MaskOf(m) = (E[j] \cup {g}) \cap MaskOf(m)
        /\ QueuedOf(q, o, j) = QueuedOf(r, o, j) \cup {g}
    BY <1>1 DEF OneQueued, MorePassed
  <2>2. QED
    BY <1>1, <2>1 DEF FedTo
<1>2. CASE j # i
  <2>1. E2[j] = E[j] /\ QueuedOf(q, o, j) = QueuedOf(r, o, j)
    BY <1>2 DEF OneQueued, MorePassed
  <2>2. QED
    BY <2>1 DEF FedTo
<1>3. QED
  BY <1>1, <1>2

-----------------------------------------------------------------------------
(***************************************************************************)
(* The end: the results are drained, nothing is under way.                 *)
(***************************************************************************)
LEMMA DrainDoes ==
  ASSUME NEW T, NEW k, NEW s, Sound(s, T, k), NEW t, t = DrainAll(s)
  PROVE  /\ t.fifos = s.fifos /\ t.dropped = s.dropped
         /\ DOMAIN s.samples \subseteq DOMAIN t.samples
         /\ \A x \in DOMAIN t.samples : x \in DOMAIN s.samples \/
              \E m \in Takers : \E n \in DOMAIN s.pending[m] : x \in DrainRows(m, s.pending[m][n])
         /\ \A m \in Takers : \A n \in DOMAIN s.pending[m] :
              DrainRows(m, s.pending[m][n]) \subseteq DOMAIN t.samples
<1> DEFINE groups == UNION {{<<i, g>> : g \in DOMAIN s.pending[i]} : i \in Seqs \cup KeyMs}
           From(g) == DrainRows(g[1], s.pending[g[1]][g[2]])
           all == UNION {From(g) : g \in groups}
           more == [x \in all |-> Cardinality({g \in groups : x \in From(g)})]
           none == [i \in Seqs \cup KeyMs |-> <<>>]
<1>1. \A x \in all : \E m \in Takers : \E n \in DOMAIN s.pending[m] : x \in DrainRows(m, s.pending[m][n])
  BY DEF Takers
<1>2. ASSUME NEW m \in Takers, NEW n \in DOMAIN s.pending[m], NEW x \in DrainRows(m, s.pending[m][n])
      PROVE  x \in all
  <2>1. PICK g : g = <<m, n>>
    OBVIOUS
  <2>2. g \in groups
    BY <2>1 DEF Takers
  <2>3. x \in From(g)
    BY <1>2, <2>1
  <2>4. QED
    BY <2>2, <2>3
<1>3. t = [s EXCEPT !.samples = s.samples (+) more, !.pending = none]
  BY DEF DrainAll
<1>4. DOMAIN more = all
  OBVIOUS
<1> HIDE DEF groups, From, all, more, none
<1>5. DOMAIN (s.samples (+) more) = DOMAIN s.samples \cup DOMAIN more
  BY DEF (+)
<1>6. t.samples = s.samples (+) more /\ t.fifos = s.fifos /\ t.dropped = s.dropped
  BY <1>3 DEF HasFields, Sound
<1>7. QED
  BY <1>1, <1>2, <1>4, <1>5, <1>6

\* The row of a report on a pair of stages is among those of a drained group.
LEMMA DrainRowOf ==
  ASSUME NEW m \in Takers, NEW k \in DOMAIN reports, OnPair(k, m), NEW snap
  PROVE  /\ reports[k].to \in MaskOf(m)
         /\ \E r \in DrainRows(m, snap) :
              r.name = reports[k].name /\ r.delta.ts_to = snap.ts[reports[k].to]
<1>1. PICK stages : stages = matchers[m].stages
  OBVIOUS
<1>2. PICK x \in DOMAIN stages, y \in DOMAIN stages :
        /\ x < y
        /\ reports[k].from = stages[x] /\ reports[k].to = stages[y]
        /\ report_keys[<<reports[k].from, reports[k].to>>] = reports[k].name
  BY <1>1 DEF OnPair
<1>3. PICK a, b : a = stages[x] /\ b = stages[y]
  OBVIOUS
<1>4. PICK d : d = Delta(a, b, snap.ts[a], snap.ts[b], snap.tid)
  OBVIOUS
<1>5. d \in Deltas(stages, snap)
  <2>1. <<x, y>> \in {q \in (DOMAIN stages) \X (DOMAIN stages) : q[1] < q[2]}
    BY <1>2
  <2>2. PICK p \in {q \in (DOMAIN stages) \X (DOMAIN stages) : q[1] < q[2]} : p = <<x, y>>
    BY <2>1
  <2>3. p[1] = x /\ p[2] = y
    BY <2>2
  <2>4. d = Delta(stages[p[1]], stages[p[2]], snap.ts[stages[p[1]]], snap.ts[stages[p[2]]], snap.tid)
    BY <1>3, <1>4, <2>3
  <2>5. QED
    BY <2>4 DEF Deltas
<1>6. d.from_stage = a /\ d.to_stage = b /\ d.ts_to = snap.ts[b]
  BY <1>4 DEF Delta
<1>7. <<a, b>> \in DOMAIN report_keys
  BY <1>2, <1>3 DEF report_keys
<1>8. PICK r : r = Row(report_keys[<<d.from_stage, d.to_stage>>], d)
  OBVIOUS
<1>9. r \in DrainRows(m, snap)
  BY <1>1, <1>5, <1>6, <1>7, <1>8 DEF DrainRows
<1>10. r.name = reports[k].name /\ r.delta.ts_to = snap.ts[reports[k].to]
  BY <1>2, <1>3, <1>6, <1>8 DEF Row
<1>11. reports[k].to \in MaskOf(m)
  BY <1>1, <1>2 DEF MaskOf, Mask
<1>12. QED
  BY <1>9, <1>10, <1>11

\* A drained row is one of the item of its group, or a key matcher's.
LEMMA DrainSame ==
  ASSUME Pipeline, NEW T, NEW k, NEW s, Sound(s, T, k), NEW r, NEW o, NEW E, PairsOK(s, r, o, E),
         ~ s.dropped, NEW t, t = DrainAll(s), NEW x \in DOMAIN t.samples
  PROVE  RowSame(x, o)
<1>1. CASE x \in DOMAIN s.samples
  BY <1>1 DEF PairsOK
<1>2. CASE x \notin DOMAIN s.samples
  <2>1. PICK m \in Takers : \E n \in DOMAIN s.pending[m] : x \in DrainRows(m, s.pending[m][n])
    BY <1>2, DrainDoes
  <2>2. PICK n \in DOMAIN s.pending[m] : x \in DrainRows(m, s.pending[m][n])
    BY <2>1
  <2>3. PICK snap : snap = s.pending[m][n]
    OBVIOUS
  <2>4. x \in DrainRows(m, snap)
    BY <2>2, <2>3
  <2>5. CASE m \in Seqs
    <3>1. PICK l \in DOMAIN Lanes : LaneOf(m, l)
      BY <2>5, HasLane
    <3>2. GroupsOK(s.pending[m], m, o)
      BY <2>5, <3>1 DEF PairsOK, SeqsOK, SeqOK
    <3>3. PICK a \in MaskOf(m), b \in MaskOf(m) :
            x.delta.ts_from = snap.ts[a] /\ x.delta.ts_to = snap.ts[b]
      BY <2>4, DrainRowIs
    <3>4. o[snap.ts[a]] = n /\ o[snap.ts[b]] = n
      BY <2>3, <3>2 DEF GroupsOK
    <3>5. QED
      BY <3>3, <3>4 DEF RowSame
  <2>6. CASE m \in KeyMs
    <3>1. PICK j \in DOMAIN reports :
            reports[j].from \in MaskOf(m) /\ reports[j].to \in MaskOf(m) /\ x.name = reports[j].name
      BY <2>4, DrainRowFields
    <3>2. x.name \in KeyNames
      BY <2>6, <3>1 DEF KeyNames, HasStage, MaskOf
    <3>3. QED
      BY <3>2 DEF RowSame
  <2>7. QED
    BY <2>5, <2>6 DEF Takers
<1>3. QED
  BY <1>1, <1>2


\* An item a thread is done with has got past all its stages.
LEMMA DonePassed ==
  ASSUME TargetOK, NEW m \in Seqs, NEW l \in DOMAIN Lanes, LaneOf(m, l), NEW i \in lane[l].done
  PROVE  i \in 1 .. Items /\ MaskOf(m) \subseteq Passings[i]
<1>1. i \in 1 .. Items
  BY DEF TargetOK, LaneOK
<1>2. ASSUME NEW g \in MaskOf(m) PROVE g \in Passings[i]
  <2>1. PICK x \in DOMAIN Lanes[l].stages : Lanes[l].stages[x] = g
    BY DEF LaneOf, Mask
  <2>2. g \in SeqStages /\ Past(i, l, x)
    BY SeqStagesOf DEF Past
  <2> QED
    BY <1>1, <2>1, <2>2 DEF Passings, PassedOf
<1> QED
  BY <1>1, <1>2

\* Nothing is queued: the groups of all items past a matcher are complete.
LEMMA QuietGroups ==
  ASSUME NEW m \in Seqs, MaskOf(m) # {}, NEW r, r = <<>>, NEW o, NEW E,
         NEW rec, NEW groups, NEW n \in Nat, n = Len(groups), SeqOK(rec, groups, m, r, o, E),
         NEW i \in 1 .. Items, MaskOf(m) \subseteq E[i]
  PROVE  i <= n
<1> SUFFICES ASSUME i > n PROVE FALSE
  BY ItemsAssumption
<1>1. FedTo(r, o, E, m, i) = MaskOf(m)
  <2>1. DOMAIN r = {}
    OBVIOUS
  <2>2. QueuedOf(r, o, i) = {}
    BY <2>1 DEF QueuedOf
  <2> QED
    BY <2>2 DEF FedTo
<1>2. FedOf(rec, n, m, i) = MaskOf(m)
  BY <1>1 DEF SeqOK
<1>3. rec.filled = MaskOf(m) \/ MaskOf(m) = {}
  BY <1>2, ItemsAssumption DEF FedOf
<1> QED
  BY <1>3 DEF SeqOK

LEMMA NoneQueued ==
  ASSUME NEW T, NEW q \in Seq(T), Len(q) = 0
  PROVE  q = <<>>
<1> SUFFICES ASSUME q # <<>> PROVE FALSE
  OBVIOUS
<1>1. Len(q) \in Nat \ {0}
  OBVIOUS
<1> QED
  BY <1>1

LEMMA ItemsHere ==
  ASSUME NEW i \in 1 .. Items
  PROVE  i \in Nat /\ i >= 1
BY ItemsAssumption

\* The queues are empty when nothing is under way.
LEMMA QuietEmpty ==
  ASSUME Pipeline, TargetOK, DataOK, PairsOK(st, ring, owner, Passings), Quiet
  PROVE  \A n \in FifoNames : st.fifos[n] = <<>>
<1> SUFFICES ASSUME NEW c \in Connections PROVE st.fifos[c.name] = <<>>
  BY DEF FifoNames
<1>1. PICK T, k : T = Seen /\ k = KeyAt
  OBVIOUS
<1>2. PICK r, o, E, s : r = ring /\ o = owner /\ E = Passings /\ s = st
  OBVIOUS
<1>3. Sound(s, T, k) /\ PairsOK(s, r, o, E) /\ r = <<>>
  BY <1>1, <1>2 DEF DataOK, Quiet
<1>4. /\ c.push_seq \in Seqs /\ c.from \in MaskOf(c.push_seq)
      /\ c.pop_seq \in Seqs /\ c.to \in MaskOf(c.pop_seq)
  BY ConnectionTypes
<1>5. PICK v, w : v = c.push_seq /\ w = c.pop_seq
  OBVIOUS
<1>6. PICK a \in Nat, b \in Nat : a = Len(s.pending[v]) /\ b = Len(s.pending[w])
  BY <1>3, <1>4, <1>5, SeqTypes
<1>7. PICK l \in DOMAIN Lanes : LaneOf(v, l)
  BY <1>4, <1>5, HasLane
<1>8. PICK j \in DOMAIN Lanes : LaneOf(w, j)
  BY <1>4, <1>5, HasLane
<1>9. SeqOK(s.recs[v][Lanes[l].tid], s.pending[v], v, r, o, E)
  BY <1>3, <1>4, <1>5, <1>7 DEF PairsOK, SeqsOK
<1>10. SeqOK(s.recs[w][Lanes[j].tid], s.pending[w], w, r, o, E)
  BY <1>3, <1>4, <1>5, <1>8 DEF PairsOK, SeqsOK
<1>11. a <= b
  <2> SUFFICES ASSUME a > b PROVE FALSE
    BY <1>6
  <2>1. a <= Items
    BY <1>6, <1>9 DEF SeqOK
  <2>2. a \in 1 .. Items
    BY <2>1, ItemsAssumption
  <2>3. FedTo(r, o, E, v, a) = MaskOf(v)
    <3>1. FedTo(r, o, E, v, a) = FedOf(s.recs[v][Lanes[l].tid], a, v, a)
      BY <1>6, <1>9, <2>2 DEF SeqOK
    <3> QED
      BY <3>1 DEF FedOf
  <2>4. c.from \in Passings[a]
    BY <1>2, <1>4, <1>5, <2>3 DEF FedTo
  <2>5. PICK z \in DOMAIN Lanes : \E x \in DOMAIN Lanes[z].stages : Past(a, z, x)
    BY <2>2, <2>4 DEF Passings, PassedOf
  <2>6. PICK x \in DOMAIN Lanes[z].stages : Past(a, z, x)
    BY <2>5
  <2>7. x \in Nat \ {0} /\ lane[z].step = 1
    BY PlaceTypes DEF Quiet
  <2>8. a \in lane[z].done
    BY <2>6, <2>7 DEF Past
  <2>9. a \in lane[j].done
    BY <2>8 DEF Quiet
  <2>10. MaskOf(w) \subseteq E[a]
    BY <1>2, <1>4, <1>5, <1>8, <2>9, DonePassed
  <2>11. MaskOf(w) # {}
    BY <1>4, <1>5
  <2>12. PICK rec, groups : rec = s.recs[w][Lanes[j].tid] /\ groups = s.pending[w]
    OBVIOUS
  <2>13. a <= b
    BY <1>3, <1>4, <1>5, <1>6, <1>10, <2>2, <2>10, <2>11, <2>12, QuietGroups
  <2> QED
    BY <2>13
<1>12. PICK q : q = s.fifos[c.name]
  OBVIOUS
<1>13. q \in Seq(T) /\ Len(q) <= a - b
  <2>1. q \in Seq(T)
    BY <1>3, <1>12, RowStamps
  <2>2. LineOK(q, a, b, o, s.dropped)
    BY <1>3, <1>5, <1>6, <1>12 DEF PairsOK, LinesOK
  <2> QED
    BY <2>1, <2>2 DEF LineOK
<1>14. q = <<>>
  <2>1. PICK n : n = Len(q)
    OBVIOUS
  <2>2. n \in Nat
    BY <1>13, <2>1
  <2>3. n = 0
    BY <1>11, <1>13, <2>1, <2>2
  <2> QED
    BY <1>13, <2>1, <2>3, NoneQueued
<1> QED
  BY <1>2, <1>12, <1>14

\* Once all events are read, every item that went all the way is in every report
\* on a queue or on a seq matcher.
LEMMA SeqsReported ==
  ASSUME Pipeline, TargetOK, StrictOK, NEW T, NEW z, NEW s, Sound(s, T, z),
         NEW r, r = <<>>, NEW o, PairsOK(s, r, o, Passings), ~ s.dropped,
         NEW t, t = DrainAll(s)
  PROVE  AllReported(SeqReports, t.samples, o)
<1> SUFFICES ASSUME NEW k \in SeqReports, NEW i \in lane[Len(Lanes)].done
             PROVE  Reported(k, i, t.samples, o)
  BY DEF AllReported
<1>1. DOMAIN s.samples \subseteq DOMAIN t.samples
  BY DrainDoes
<1>2. ASSUME NEW m \in Seqs, MaskOf(m) # {}
      PROVE  i \in DOMAIN s.pending[m] /\ GroupsOK(s.pending[m], m, o)
  <2>1. PICK l \in DOMAIN Lanes : LaneOf(m, l)
    BY HasLane
  <2>2. Len(Lanes) \in DOMAIN Lanes /\ (l = Len(Lanes) \/ l < Len(Lanes))
    BY LaneTypes
  <2>3. i \in lane[l].done
    BY <2>2 DEF StrictOK
  <2>4. i \in 1 .. Items /\ MaskOf(m) \subseteq Passings[i]
    BY <2>1, <2>3, DonePassed
  <2>5. PICK rec, groups, E : rec = s.recs[m][Lanes[l].tid] /\ groups = s.pending[m] /\ E = Passings
    OBVIOUS
  <2>6. SeqOK(rec, groups, m, r, o, E)
    BY <2>1, <2>5 DEF PairsOK, SeqsOK
  <2>7. PICK G : groups \in Seq(G)
    BY <2>5, SeqTypes
  <2>8. PICK n \in Nat : n = Len(groups)
    BY <2>7
  <2>9. MaskOf(m) \subseteq E[i]
    BY <2>4, <2>5
  <2>10. i <= n
    BY <1>2, <2>4, <2>6, <2>8, <2>9, QuietGroups
  <2>11. i \in Nat /\ i >= 1
    BY <2>4, ItemsHere
  <2>12. i \in DOMAIN groups
    BY <2>7, <2>8, <2>10, <2>11
  <2> QED
    BY <2>5, <2>6, <2>12 DEF SeqOK
<1>3. CASE reports[k].name \in FifoNames
  <2>1. PICK c \in Connections : c.name = reports[k].name
    BY <1>3 DEF FifoNames
  <2>2. c.pop_seq \in Seqs /\ MaskOf(c.pop_seq) # {}
    BY ConnectionTypes
  <2>3. i \in DOMAIN s.pending[c.pop_seq]
    BY <1>2, <2>2
  <2>4. \E x \in DOMAIN s.samples : x.name = c.name /\ o[x.delta.ts_to] = i
    BY <2>3 DEF PairsOK, RowsThere
  <2> QED
    BY <1>1, <2>1, <2>4 DEF Reported
<1>4. ASSUME NEW m \in Seqs, OnPair(k, m) PROVE Reported(k, i, t.samples, o)
  <2>1. k \in DOMAIN reports /\ m \in Takers
    BY DEF SeqReports, Takers
  <2>2. reports[k].to \in MaskOf(m)
    BY <1>4, <2>1, DrainRowOf
  <2>3. i \in DOMAIN s.pending[m] /\ GroupsOK(s.pending[m], m, o)
    BY <1>2, <2>2
  <2>4. PICK snap : snap = s.pending[m][i]
    OBVIOUS
  <2>5. PICK x \in DrainRows(m, snap) :
          x.name = reports[k].name /\ x.delta.ts_to = snap.ts[reports[k].to]
    BY <1>4, <2>1, DrainRowOf
  <2>6. x \in DOMAIN t.samples
    <3>1. DrainRows(m, s.pending[m][i]) \subseteq DOMAIN t.samples
      BY <2>1, <2>3, DrainDoes
    <3> QED
      BY <2>4, <2>5, <3>1
  <2>7. o[snap.ts[reports[k].to]] = i
    BY <2>2, <2>3, <2>4 DEF GroupsOK
  <2> QED
    BY <2>5, <2>6, <2>7 DEF Reported
<1> QED
  BY <1>3, <1>4 DEF SeqReports, BySeq

-----------------------------------------------------------------------------
(***************************************************************************)
(* PairInv and its steps.                                                  *)
(***************************************************************************)
LEMMA PairInit == Pipeline /\ Init => PairInv
<1> SUFFICES ASSUME Pipeline, Init PROVE PairInv
  OBVIOUS
<1>1. \A l \in DOMAIN Lanes : lane[l] = [item |-> 0, step |-> 1, ts |-> 0, done |-> {}]
  BY DEF Init
<1>2. \A l \in DOMAIN Lanes :
        lane[l].item = 0 /\ lane[l].step = 1 /\ lane[l].ts = 0 /\ lane[l].done = {}
  BY <1>1
<1>3. StrictOK
  BY <1>2 DEF StrictOK, Busy
<1>4. \A i \in 1 .. Items : Passings[i] = {}
  <2>1. \A i \in 1 .. Items : i # 0
    BY ItemsAssumption
  <2> QED
    BY <1>2, <2>1 DEF Passings, PassedOf, Past
<1>5. PICK r, o, E, s : r = ring /\ o = owner /\ E = Passings /\ s = st
  OBVIOUS
<1>6. r = <<>> /\ s = MatcherInit /\ DOMAIN r = {} /\ phase # "done"
  BY <1>5 DEF Init
<1>7. OrderOK(r, o, E)
  BY <1>6 DEF OrderOK
<1>8. /\ \A m \in Takers : s.pending[m] = <<>>
      /\ \A n \in FifoNames : s.fifos[n] = <<>>
      /\ DOMAIN s.samples = {}
  BY <1>6 DEF MatcherInit, Takers, EmptyBag, SetToBag
<1>9. ASSUME NEW m \in Seqs, NEW l \in DOMAIN Lanes
      PROVE  SeqOK(s.recs[m][Lanes[l].tid], s.pending[m], m, r, o, E)
  <2>1. Lanes[l].tid \in Tids
    BY LaneTypes
  <2>2. s.recs[m][Lanes[l].tid] = ZeroRecord(MaskOf(m))
    BY <1>6, <2>1 DEF MatcherInit, MaskOf
  <2>3. PICK rec, groups : rec = s.recs[m][Lanes[l].tid] /\ groups = s.pending[m]
    OBVIOUS
  <2>4. rec.filled = {} /\ groups = <<>>
    BY <1>8, <2>2, <2>3 DEF ZeroRecord, Takers
  <2>5. Len(groups) = 0 /\ DOMAIN groups = {}
    BY <2>4
  <2>6. ASSUME NEW i \in 1 .. Items PROVE FedTo(r, o, E, m, i) = FedOf(rec, 0, m, i)
    <3>1. FedTo(r, o, E, m, i) = {}
      BY <1>4, <1>5 DEF FedTo
    <3>2. ~ (i <= 0)
      BY ItemsHere
    <3> QED
      BY <2>4, <3>1, <3>2 DEF FedOf
  <2>7. 0 <= Items
    BY ItemsAssumption
  <2>8. SeqOK(rec, groups, m, r, o, E)
    BY <2>4, <2>5, <2>6, <2>7 DEF SeqOK, GroupsOK, OfItem
  <2> QED
    BY <2>3, <2>8
<1>10. ASSUME NEW c \in Connections
       PROVE  LineOK(s.fifos[c.name], Len(s.pending[c.push_seq]), Len(s.pending[c.pop_seq]), o, s.dropped)
  <2>1. s.fifos[c.name] = <<>> /\ s.pending[c.push_seq] = <<>> /\ s.pending[c.pop_seq] = <<>>
    BY <1>8, ConnectionTypes DEF Takers
  <2> QED
    BY <2>1 DEF LineOK
<1>11. RowsThere(s, o)
  <2>1. \A c \in Connections : DOMAIN s.pending[c.pop_seq] = {}
    BY <1>8, ConnectionTypes DEF Takers
  <2> QED
    BY <2>1 DEF RowsThere
<1>12. PairsOK(s, r, o, E)
  BY <1>8, <1>9, <1>10, <1>11 DEF PairsOK, SeqsOK, LinesOK
<1> QED
  BY <1>3, <1>5, <1>6, <1>7, <1>12 DEF PairInv

\* Thread l gets past a function with item i.
LEMMA StrictPassed ==
  ASSUME Pipeline, TargetOK, StrictOK, NEW l \in DOMAIN Lanes, NEW i, CanWork(l, i),
         lane' = [lane EXCEPT ![l] = Passed(l, i)]
  PROVE  /\ StrictOK' /\ Stage(l) \notin Passings[i]
         /\ Passings' = [Passings EXCEPT ![i] = Passings[i] \cup ({Stage(l)} \cap SeqStages)]
<1>1. LaneOK(lane[l], l) /\ DOMAIN lane = DOMAIN Lanes
  BY DEF TargetOK
<1>2. PICK x : x = Passed(l, i)
  OBVIOUS
<1>3. lane'[l] = x /\ \A m \in DOMAIN Lanes \ {l} : lane'[m] = lane[m]
  BY <1>1, <1>2
<1>4. /\ x.done = lane[l].done \/ x.done = lane[l].done \cup {i}
      /\ x.step > 1 \/ x.ts # 0 => x.item = i /\ x.done = lane[l].done
  <2>1. CASE lane[l].step = Len(Lanes[l].stages)
    <3>1. x = [item |-> 0, step |-> 1, ts |-> 0, done |-> lane[l].done \cup {i}]
      BY <1>2, <2>1 DEF Passed
    <3> QED
      BY <3>1
  <2>2. CASE lane[l].step # Len(Lanes[l].stages)
    <3>1. x = [lane[l] EXCEPT !.item = i, !.step = lane[l].step + 1, !.ts = 0]
      BY <1>2, <2>2 DEF Passed
    <3> QED
      BY <1>1, <3>1 DEF LaneOK
  <2> QED
    BY <2>1, <2>2
<1>5. StrictOK'
  BY <1>3, <1>4, StrictStep
<1> QED
  BY <1>2, <1>3, <1>5, PassingsOne

LEMMA StampsPair ==
  ASSUME Pipeline, TargetOK, DataOK, PairInv,
         NEW l \in DOMAIN Lanes, NEW i \in NextItem(l), ProbeStamps(l, i)
  PROVE  PairInv'
<1> DEFINE now == Len(owner) + 1
<1>1. StrictOK /\ CanWork(l, i) /\ i \in 1 .. Items
  BY NextCanWork, NextItemType DEF PairInv
<1>2. \A t \in DOMAIN owner : owner'[t] = owner[t]
  BY <1>1, OwnerGrows DEF ProbeStamps, Reach
<1>3. /\ lane' = [lane EXCEPT ![l].item = i, ![l].ts = now]
      /\ ring' = ring /\ st' = st /\ lost' = lost /\ phase' = phase /\ phase # "done"
  BY DEF ProbeStamps, Reach, tool, Running
<1> HIDE DEF now
<1>4. LaneOK(lane[l], l) /\ DOMAIN lane = DOMAIN Lanes
  BY DEF TargetOK
<1>5. PICK x : x = lane'[l]
  OBVIOUS
<1>6. /\ x.item = i /\ x.step = lane[l].step /\ x.done = lane[l].done
      /\ \A m \in DOMAIN Lanes \ {l} : lane'[m] = lane[m]
  BY <1>3, <1>4, <1>5 DEF LaneOK
<1>7. StrictOK'
  BY <1>1, <1>5, <1>6, StrictStep
<1>8. Passings' = Passings
  BY <1>1, <1>5, <1>6, PassingsStill
<1>9. PICK T, k : T = Seen /\ k = KeyAt
  OBVIOUS
<1>10. PICK r, o, E, s, o2 : r = ring /\ o = owner /\ E = Passings /\ s = st /\ o2 = owner'
  OBVIOUS
<1>11. r \in Seq(Events(T, k)) /\ Sound(s, T, k) /\ \A t \in T : o2[t] = o[t]
  BY <1>2, <1>9, <1>10, SeenOwned DEF DataOK
<1>12. ASSUME lost = {} PROVE OrderOK(r, o2, E) /\ PairsOK(s, r, o2, E)
  <2>1. OrderOK(r, o, E) /\ PairsOK(s, r, o, E)
    BY <1>3, <1>10, <1>12 DEF PairInv
  <2>2. OrderOK(r, o2, E)
    BY <1>11, <2>1, OrderStill
  <2>3. \A m \in Seqs : \A j \in 1 .. Items : FedTo(r, o2, E, m, j) = FedTo(r, o, E, m, j)
    <3>1. \A j : QueuedOf(r, o2, j) = QueuedOf(r, o, j)
      BY <1>11, QueuedStill
    <3> QED
      BY <3>1 DEF FedTo
  <2>4. PairsOK(s, r, o2, E)
    BY <1>11, <2>1, <2>3, PairsStill
  <2> QED
    BY <2>2, <2>4
<1> QED
  BY <1>3, <1>7, <1>8, <1>10, <1>12 DEF PairInv

LEMMA UnseenPair ==
  ASSUME Pipeline, TargetOK, PairInv,
         NEW l \in DOMAIN Lanes, NEW i \in NextItem(l), PassUnseen(l, i)
  PROVE  PairInv'
<1>1. StrictOK /\ CanWork(l, i)
  BY NextCanWork DEF PairInv
<1>2. lane' = [lane EXCEPT ![l] = Passed(l, i)] /\ lost' # {}
  BY DEF PassUnseen
<1>3. StrictOK'
  BY <1>1, <1>2, StrictPassed
<1> QED
  BY <1>2, <1>3 DEF PairInv

LEMMA DropsPair ==
  ASSUME Pipeline, TargetOK, PairInv, NEW l \in DOMAIN Lanes, ProbeDrops(l)
  PROVE  PairInv'
<1>1. /\ lane[l].ts # 0 /\ lost' # {}
      /\ lane' = [lane EXCEPT ![l] = Passed(l, lane[l].item)]
  BY DEF ProbeDrops
<1>2. StrictOK /\ CanWork(l, lane[l].item)
  BY <1>1 DEF PairInv, StrictOK, Busy
<1>3. PICK i : i = lane[l].item
  OBVIOUS
<1>4. StrictOK'
  BY <1>1, <1>2, <1>3, StrictPassed
<1> QED
  BY <1>1, <1>4 DEF PairInv

LEMMA RecordsPair ==
  ASSUME Pipeline, TargetOK, DataOK, PairInv, NEW l \in DOMAIN Lanes, ProbeRecords(l)
  PROVE  PairInv'
<1>1. /\ lane[l].ts # 0 /\ owner' = owner /\ lost' = lost /\ phase' = phase /\ phase # "done"
      /\ lane' = [lane EXCEPT ![l] = Passed(l, lane[l].item)] /\ st' = st
      /\ ring' = Append(ring, RawEvent(lane[l].ts, Lanes[l].tid, Stage(l), KeyOf[lane[l].item]))
  BY DEF ProbeRecords, Running
<1>2. PICK i, e : /\ i = lane[l].item
                  /\ e = RawEvent(lane[l].ts, Lanes[l].tid, Stage(l), KeyOf[lane[l].item])
  OBVIOUS
<1>3. e.ts = lane[l].ts /\ e.stage = Stage(l) /\ e.tid = Lanes[l].tid
  BY <1>2 DEF RawEvent
<1>4. StrictOK /\ CanWork(l, i) /\ i \in 1 .. Items /\ owner[e.ts] = i
  BY <1>1, <1>2, <1>3 DEF PairInv, StrictOK, Busy, CanWork, AtWork, TargetOK, StampsOK
<1>5. /\ StrictOK' /\ Stage(l) \notin Passings[i]
      /\ Passings' = [Passings EXCEPT ![i] = Passings[i] \cup ({Stage(l)} \cap SeqStages)]
  BY <1>1, <1>2, <1>4, StrictPassed
<1>6. Stage(l) \in Mask(Lanes[l].stages)
  <2>1. lane[l].step \in DOMAIN Lanes[l].stages
    <3>1. LaneOK(lane[l], l) /\ Lanes[l].stages \in Seq(Nat) /\ Len(Lanes[l].stages) \in Nat
      BY LaneTypes DEF TargetOK
    <3> QED
      BY <3>1 DEF LaneOK
  <2> QED
    BY <2>1 DEF Stage, Mask
<1>7. PICK T, k : T = Seen /\ k = KeyAt
  OBVIOUS
<1>8. PICK r, o, E, s : r = ring /\ o = owner /\ E = Passings /\ s = st
  OBVIOUS
<1>9. PICK q, E2 : q = ring' /\ E2 = Passings'
  OBVIOUS
<1>10. Owned(T, k, o) /\ r \in Seq(Events(T, k)) /\ Sound(s, T, k)
  BY <1>7, <1>8, SeenOwned DEF DataOK
<1>11. /\ E2 = [E EXCEPT ![i] = E[i] \cup ({e.stage} \cap SeqStages)]
       /\ e.stage \notin E[i] /\ i = o[e.ts]
       /\ e.stage \in Mask(Lanes[l].stages) /\ InTurn(E)
       /\ E \in [1 .. Items -> SUBSET SeqStages]
  BY <1>3, <1>4, <1>5, <1>6, <1>8, <1>9, PassingsInTurn, PassingsType
<1>12. Back(r, e, q)
  <2>1. q = Append(r, e)
    BY <1>1, <1>2, <1>8, <1>9
  <2> QED
    BY <1>10, <2>1 DEF Back
<1>13. \A n \in DOMAIN r : o[r[n].ts] \in 1 .. Items
  <2>1. \A n \in DOMAIN r : r[n] \in Events(T, k)
    BY <1>10
  <2> QED
    BY <1>10, <2>1 DEF Events, Owned
<1>14. ASSUME lost = {} PROVE OrderOK(q, o, E2) /\ PairsOK(s, q, o, E2)
  <2>1. OrderOK(r, o, E) /\ PairsOK(s, r, o, E)
    BY <1>1, <1>8, <1>14 DEF PairInv
  <2>2. OrderOK(q, o, E2) /\ OneQueued(q, r, o, i, e.stage)
    BY <1>3, <1>4, <1>11, <1>12, <1>13, <2>1, OrderAppend
  <2>3. ASSUME NEW m \in Seqs, NEW j \in 1 .. Items PROVE FedTo(q, o, E2, m, j) = FedTo(r, o, E, m, j)
    <3>1. PICK g : g = e.stage
      OBVIOUS
    <3>2. OneQueued(q, r, o, i, g) /\ g \notin E[i]
      BY <1>11, <2>2, <3>1
    <3>3. MorePassed(E2, E, i, g, m)
      <4>1. E2[i] = E[i] \cup ({g} \cap SeqStages) /\ \A c \in 1 .. Items : c # i => E2[c] = E[c]
        BY <1>4, <1>11, <3>1
      <4> QED
        BY <4>1, SeqStagesOf DEF MorePassed
    <3> QED
      BY <1>4, <3>2, <3>3, FedAppend
  <2>4. \A t \in T : o[t] = o[t]
    OBVIOUS
  <2>5. PairsOK(s, q, o, E2)
    BY <1>10, <2>1, <2>3, <2>4, PairsStill
  <2> QED
    BY <2>2, <2>5
<1> QED
  BY <1>1, <1>5, <1>8, <1>9, <1>14 DEF PairInv

\* Nothing happens in the target.
LEMMA PassingsKept ==
  ASSUME lane' = lane
  PROVE  Passings' = Passings /\ (StrictOK => StrictOK')
BY DEF Passings, PassedOf, Past, StrictOK, Busy, CanWork, AtWork

LEMMA ConsumePair ==
  ASSUME Pipeline, TargetOK, DataOK, PairInv, Consume
  PROVE  PairInv'
<1>1. /\ ring # <<>> /\ ring' = Tail(ring) /\ st' = HandleRingEvent(st, Head(ring))
      /\ lane' = lane /\ owner' = owner /\ lost' = lost /\ phase' = phase /\ phase # "done"
  BY DEF Consume, target
<1>2. StrictOK /\ StrictOK' /\ Passings' = Passings
  BY <1>1, PassingsKept DEF PairInv
<1>3. PICK T, k : T = Seen /\ k = KeyAt
  OBVIOUS
<1>4. PICK r, o, E, s : r = ring /\ o = owner /\ E = Passings /\ s = st
  OBVIOUS
<1>5. PICK q, e, t : q = Tail(r) /\ e = Head(r) /\ t = HandleRingEvent(s, e)
  OBVIOUS
<1>6. /\ Owned(T, k, o) /\ T \subseteq Nat /\ r \in Seq(Events(T, k)) /\ r # <<>>
      /\ Sound(s, T, k) /\ E \in [1 .. Items -> SUBSET SeqStages] /\ InTurn(E)
  BY <1>1, <1>2, <1>3, <1>4, SeenOwned, PassingsType, PassingsInTurn DEF DataOK
<1>7. Front(r, e, q) /\ e \in Events(T, k)
  BY <1>5, <1>6 DEF Front
<1>8. ASSUME lost = {} PROVE OrderOK(q, o, E) /\ PairsOK(t, q, o, E)
  <2>1. OrderOK(r, o, E) /\ PairsOK(s, r, o, E)
    BY <1>1, <1>4, <1>8 DEF PairInv
  <2>2. OrderOK(q, o, E)
    BY <1>6, <1>7, <2>1, OrderTail
  <2>3. Fetches(s, r, e, q, T, k, o, E)
    BY <1>6, <1>7, <2>1 DEF Fetches, PairsOK
  <2>4. PairsOK(t, q, o, E)
    BY <1>5, <2>1, <2>3, PairsConsume
  <2> QED
    BY <2>2, <2>4
<1>9. ring' = q /\ st' = t /\ owner' = o /\ Passings' = E
  BY <1>1, <1>2, <1>4, <1>5
<1> QED
  BY <1>1, <1>2, <1>8, <1>9 DEF PairInv

LEMMA ResultsPair ==
  ASSUME Pipeline, TargetOK, DataOK, PairInv, Results
  PROVE  PairInv'
<1>1. /\ ring' = ring /\ st' = DrainAll(st) /\ lane' = lane /\ owner' = owner /\ lost' = lost
      /\ phase # "done" /\ phase' = "done"
  BY DEF Results, target
<1>2. StrictOK /\ StrictOK'
  BY <1>1, PassingsKept DEF PairInv
<1> SUFFICES ASSUME lost = {}
             PROVE  /\ ~ st'.dropped => \A x \in DOMAIN st'.samples : RowSame(x, owner)
                    /\ QuietFifosEmpty'
                    /\ ring = <<>> /\ ~ st'.dropped => AllReported(SeqReports, st.samples, owner)'
  BY <1>1, <1>2 DEF PairInv
<1>3. PICK T, k : T = Seen /\ k = KeyAt
  OBVIOUS
<1>4. PICK r, o, E, s, t : r = ring /\ o = owner /\ E = Passings /\ s = st /\ t = DrainAll(s)
  OBVIOUS
<1>5. PairsOK(s, r, o, E) /\ Sound(s, T, k)
  BY <1>1, <1>3, <1>4 DEF PairInv, DataOK
<1>6. t.fifos = s.fifos /\ t.dropped = s.dropped
  BY <1>4, <1>5, DrainDoes
<1>7. ~ s.dropped => \A x \in DOMAIN t.samples : RowSame(x, o)
  BY <1>4, <1>5, DrainSame
<1>8. QuietFifosEmpty'
  <2> SUFFICES ASSUME Quiet' PROVE \A n \in FifoNames : st'.fifos[n] = <<>>
    BY DEF QuietFifosEmpty
  <2>1. Quiet
    BY <1>1 DEF Quiet
  <2>2. \A n \in FifoNames : st.fifos[n] = <<>>
    BY <1>4, <1>5, <2>1, QuietEmpty
  <2> QED
    BY <1>1, <1>4, <1>6, <2>2
<1>9. ASSUME ring = <<>>, ~ s.dropped PROVE AllReported(SeqReports, t.samples, o)
  <2>1. r = <<>> /\ PairsOK(s, r, o, Passings)
    BY <1>4, <1>5, <1>9
  <2> QED
    BY <1>2, <1>4, <1>5, <1>9, <2>1, SeqsReported
<1>10. ASSUME AllReported(SeqReports, t.samples, o) PROVE AllReported(SeqReports, st.samples, owner)'
  BY <1>1, <1>4, <1>10 DEF AllReported, Reported, SeqReports
<1>11. st' = t /\ owner = o
  BY <1>1, <1>4
<1> QED
  BY <1>6, <1>7, <1>8, <1>9, <1>10, <1>11

LEMMA PairNext ==
  ASSUME Pipeline
  PROVE  LensXInv /\ PairInv /\ [Next]_vars => PairInv'
<1> SUFFICES ASSUME LensXInv, PairInv, [Next]_vars PROVE PairInv'
  OBVIOUS
<1>1. TargetOK /\ DataOK
  BY DEF LensXInv
<1>2. ASSUME UNCHANGED <<ring, st, lane, owner, lost>>, phase' = "done" <=> phase = "done"
      PROVE  PairInv'
  <2>1. Passings' = Passings /\ StrictOK'
    BY <1>2, PassingsKept DEF PairInv
  <2>2. QuietFifosEmpty => QuietFifosEmpty'
    BY <1>2 DEF QuietFifosEmpty, Quiet
  <2>3. PICK samples, o : samples = st.samples /\ o = owner
    OBVIOUS
  <2>4. AllReported(SeqReports, samples, o) => AllReported(SeqReports, samples, o)'
    BY <1>2 DEF AllReported, Reported, SeqReports
  <2>5. CASE phase = "done"
    BY <1>2, <2>1, <2>2, <2>3, <2>4, <2>5 DEF PairInv
  <2>6. CASE phase # "done"
    BY <1>2, <2>1, <2>6 DEF PairInv
  <2> QED
    BY <2>5, <2>6
<1>3. CASE UNCHANGED vars
  BY <1>2, <1>3 DEF vars, tool, target
<1>4. CASE Next
  <2>1. ASSUME NEW l \in DOMAIN Lanes, NEW i \in NextItem(l), ProbeStamps(l, i) \/ PassUnseen(l, i)
        PROVE  PairInv'
    BY <1>1, <2>1, StampsPair, UnseenPair
  <2>2. ASSUME NEW l \in DOMAIN Lanes, ProbeRecords(l) \/ ProbeDrops(l) PROVE PairInv'
    BY <1>1, <2>2, RecordsPair, DropsPair
  <2>3. CASE Consume
    BY <1>1, <2>3, ConsumePair
  <2>4. CASE Results
    BY <1>1, <2>4, ResultsPair
  <2>5. ASSUME MainStep \/ SigHandler, ~ (Consume \/ Results) PROVE PairInv'
    <3>1. UNCHANGED <<ring, st, lane, owner, lost>> /\ (phase' = "done" <=> phase = "done")
      BY <2>5 DEF MainStep, SigHandler, Attach, AttachFails, AttachAborts, Start, PollWakes,
                  PollReturns, target
    <3> QED
      BY <1>2, <3>1
  <2> QED
    BY <1>4, <2>1, <2>2, <2>3, <2>4, <2>5 DEF Next
<1> QED
  BY <1>3, <1>4

-----------------------------------------------------------------------------
(***************************************************************************)
(* The key matchers: an item all of whose events have been read has a      *)
(* complete group, and is in the reports.                                  *)
(***************************************************************************)
\* One of the groups of matcher m is of item i.
GroupThere(groups, m, o, i) ==
  \E n \in DOMAIN groups : \A g \in MaskOf(m) : o[groups[n].ts[g]] = i

FullOK(s, r, o, E) ==
  \A m \in KeyMs : \A i \in 1 .. Items :
    MaskOf(m) # {} /\ FedTo(r, o, E, m, i) = MaskOf(m) => GroupThere(s.pending[m], m, o, i)

KeyReports == {k \in DOMAIN reports : ByKey(k)}

FullInv ==
  /\ lost = {} /\ phase # "done" => FullOK(st, ring, owner, Passes)
  /\ lost = {} /\ phase = "done" /\ ring = <<>> => AllReported(KeyReports, st.samples, owner)

LEMMA ThereGrows ==
  ASSUME NEW G, NEW groups \in Seq(G), NEW snap, NEW h, h = Append(groups, snap), NEW m, NEW o, NEW i
  PROVE  /\ GroupThere(groups, m, o, i) => GroupThere(h, m, o, i)
         /\ (\A g \in MaskOf(m) : o[snap.ts[g]] = i) => GroupThere(h, m, o, i)
<1>1. \A n \in DOMAIN groups : n \in DOMAIN h /\ h[n] = groups[n]
  OBVIOUS
<1>2. Len(groups) + 1 \in DOMAIN h /\ h[Len(groups) + 1] = snap
  OBVIOUS
<1> QED
  BY <1>1, <1>2 DEF GroupThere

LEMMA GroupsHere ==
  ASSUME NEW T, NEW k, NEW s, Sound(s, T, k), NEW m \in KeyMs
  PROVE  /\ s.pending[m] \in Seq(Groups(m, T, k))
         /\ \A n \in DOMAIN s.pending[m] : \A g \in MaskOf(m) : s.pending[m][n].ts[g] \in T
<1>1. PICK groups : groups = s.pending[m]
  OBVIOUS
<1>2. groups \in Seq(Groups(m, T, k))
  BY <1>1 DEF Sound, PendingOK, Takers
<1>3. \A n \in DOMAIN groups : groups[n] \in Groups(m, T, k)
  BY <1>2
<1> QED
  BY <1>1, <1>2, <1>3 DEF Groups

\* The target goes on and the matchers are fed nothing.
LEMMA FullKept ==
  ASSUME NEW T, NEW k, NEW s, Sound(s, T, k), NEW o, NEW o2, \A t \in T : o2[t] = o[t],
         NEW r, NEW q, NEW E, NEW E2,
         \A m \in KeyMs : \A j \in 1 .. Items : FedTo(q, o2, E2, m, j) = FedTo(r, o, E, m, j),
         FullOK(s, r, o, E)
  PROVE  FullOK(s, q, o2, E2)
<1> SUFFICES ASSUME NEW m \in KeyMs, NEW i \in 1 .. Items, MaskOf(m) # {},
                    FedTo(q, o2, E2, m, i) = MaskOf(m)
             PROVE  GroupThere(s.pending[m], m, o2, i)
  BY DEF FullOK
<1>1. GroupThere(s.pending[m], m, o, i)
  BY DEF FullOK
<1>2. \A n \in DOMAIN s.pending[m] : \A g \in MaskOf(m) : s.pending[m][n].ts[g] \in T
  BY GroupsHere
<1> QED
  BY <1>1, <1>2 DEF GroupThere

\* The event at the front is handed to the matchers.  L is empty: no event was lost.
LEMMA FullConsume ==
  ASSUME KeyReportsApart, NEW T, T \subseteq Nat, NEW k, NEW s, Sound(s, T, k),
         NEW o, Owned(T, k, o), NEW r \in Seq(Events(T, k)), r # <<>>,
         NEW E \in [1 .. Items -> SUBSET KeyStages], QueueOK(r, o, E),
         NEW L, L = {}, KeysOK(s, r, o, E, L),
         \A c \in ItemsOf(Head(r).key) : c < o[Head(r).ts] => KeyStages \subseteq E[c],
         FullOK(s, r, o, E), NEW t, t = HandleRingEvent(s, Head(r))
  PROVE  FullOK(t, Tail(r), o, E)
<1>1. PICK q, e : q = Tail(r) /\ e = Head(r)
  OBVIOUS
<1>2. e \in Events(T, k) /\ e.key \in Keys
  <2>1. e \in Events(T, k)
    BY <1>1
  <2> QED
    BY <2>1 DEF Events
<1>3. \A m \in KeyMs : KeyFed(t, s, m, e)
  BY <1>1, <1>2, EventOn
<1>4. PICK j : j = o[e.ts]
  OBVIOUS
<1>5. OneQueued(r, q, o, j, e.stage)
  <2>1. Front(r, e, q)
    BY <1>1 DEF Front
  <2> QED
    BY <1>4, <2>1, QueuedTail
<1> SUFFICES ASSUME NEW m \in KeyMs, NEW i \in 1 .. Items, MaskOf(m) # {},
                    FedTo(q, o, E, m, i) = MaskOf(m)
             PROVE  GroupThere(t.pending[m], m, o, i)
  BY <1>1 DEF FullOK
<1>6. PICK rec, new, first, snap, groups, h, mask :
        /\ rec = s.recs[m][e.key] /\ first = FirstStage(matchers[m].stages)
        /\ new = KeyRecord(rec, e, first) /\ mask = MaskOf(m) /\ snap = Snapshot(new, mask)
        /\ groups = s.pending[m] /\ h = t.pending[m]
  OBVIOUS
<1>7. \/ h = groups /\ ~ (e.stage \in mask /\ Complete(new, mask))
      \/ h = Append(groups, snap)
  BY <1>3, <1>6 DEF KeyFed, SameAt
<1>8. PICK G : groups \in Seq(G)
  BY <1>6, GroupsHere
<1>9. CASE j # i \/ e.stage \notin mask
  <2>1. FedTo(r, o, E, m, i) = MaskOf(m)
    <3>1. QueuedOf(r, o, i) \cap MaskOf(m) = QueuedOf(q, o, i) \cap MaskOf(m)
      BY <1>5, <1>6, <1>9 DEF OneQueued
    <3> QED
      BY <3>1 DEF FedTo
  <2>2. GroupThere(groups, m, o, i)
    BY <1>6, <2>1 DEF FullOK
  <2>3. GroupThere(h, m, o, i)
    BY <1>7, <1>8, <2>2, ThereGrows
  <2> QED
    BY <1>6, <2>3
<1>10. CASE j = i /\ e.stage \in mask
  <2>1. RecordOK(rec, m, e.key, T, k)
    <3>1. m \in Takers /\ Ids(m) = Keys
      BY MatcherTypes DEF Takers, Ids
    <3> QED
      BY <1>2, <1>6, <3>1 DEF Sound, RecsOK
  <2>2. CleanOK(rec, m, e.key, r, o, E)
    BY <1>2, <1>6 DEF KeysOK, RecordsClean, Clean
  <2>3. /\ RecordOK(rec, m, Head(r).key, T, k) /\ CleanOK(rec, m, Head(r).key, r, o, E)
        /\ Head(r).stage \in MaskOf(m) /\ new = KeyRecord(rec, Head(r), first)
    BY <1>1, <1>6, <1>10, <2>1, <2>2
  <2>4. \A c \in ItemsOf(Head(r).key) : c < o[Head(r).ts] => MaskOf(m) \subseteq E[c]
    BY KeyStagesOf
  <2>5. OfItem(new, o, o[Head(r).ts])
    BY <2>3, <2>4, CleanOwn
  <2>6. HasFed(new, Tail(r), o, E, m, o[Head(r).ts])
    BY <2>3, <2>4, CleanOwn
  <2>7. new.filled = mask /\ OfItem(new, o, i)
    BY <1>1, <1>4, <1>6, <1>10, <2>5, <2>6 DEF HasFed
  <2>8. \A g \in MaskOf(m) : o[snap.ts[g]] = i
    BY <1>6, <2>7 DEF OfItem, Snapshot
  <2>9. h = Append(groups, snap)
    BY <1>7, <1>10, <2>7 DEF Complete
  <2>10. GroupThere(h, m, o, i)
    BY <1>8, <2>8, <2>9, ThereGrows
  <2> QED
    BY <1>6, <2>10
<1> QED
  BY <1>9, <1>10

\* An item that went all the way has got past all stages of key matchers.
LEMMA DonePasses ==
  ASSUME RequestsPassOnce, TargetOK, ChainOK, NEW i \in lane[Len(Lanes)].done, NEW m \in KeyMs, MaskOf(m) # {}
  PROVE  i \in 1 .. Items /\ MaskOf(m) \subseteq Passes[i]
<1>1. ASSUME NEW g \in MaskOf(m)
      PROVE  i \in 1 .. Items /\ g \in Passes[i]
  <2>1. g \in KeyStages
    BY KeyStagesOf
  <2>2. PICK l \in DOMAIN Lanes : g \in Mask(Lanes[l].stages)
    BY <2>1 DEF RequestsPassOnce
  <2>3. PICK x \in DOMAIN Lanes[l].stages : Lanes[l].stages[x] = g
    BY <2>2 DEF Mask
  <2>4. Len(Lanes) \in DOMAIN Lanes /\ (l = Len(Lanes) \/ l < Len(Lanes))
    BY LaneTypes
  <2>5. i \in lane[l].done
    BY <2>4 DEF ChainOK
  <2>6. i \in 1 .. Items
    BY <2>5 DEF TargetOK, LaneOK
  <2> QED
    BY <2>1, <2>3, <2>5, <2>6 DEF Passes, PassedOf, Past
<1> QED
  BY <1>1

LEMMA KeysReported ==
  ASSUME RequestsPassOnce, TargetOK, ChainOK, NEW T, NEW z, NEW s, Sound(s, T, z),
         NEW r, r = <<>>, NEW o, FullOK(s, r, o, Passes), NEW t, t = DrainAll(s)
  PROVE  AllReported(KeyReports, t.samples, o)
<1> SUFFICES ASSUME NEW k \in KeyReports, NEW i \in lane[Len(Lanes)].done
             PROVE  Reported(k, i, t.samples, o)
  BY DEF AllReported
<1>1. PICK m \in KeyMs : OnPair(k, m)
  BY DEF KeyReports, ByKey
<1>2. k \in DOMAIN reports /\ m \in Takers
  BY DEF KeyReports, Takers
<1>3. reports[k].to \in MaskOf(m)
  BY <1>1, <1>2, DrainRowOf
<1>4. i \in 1 .. Items /\ MaskOf(m) \subseteq Passes[i]
  BY <1>3, DonePasses
<1>5. PICK E : E = Passes
  OBVIOUS
<1>6. FedTo(r, o, E, m, i) = MaskOf(m)
  <2>1. DOMAIN r = {}
    OBVIOUS
  <2>2. QueuedOf(r, o, i) = {}
    BY <2>1 DEF QueuedOf
  <2> QED
    BY <1>4, <1>5, <2>2 DEF FedTo
<1>7. PICK n \in DOMAIN s.pending[m] : \A g \in MaskOf(m) : o[s.pending[m][n].ts[g]] = i
  <2>1. FullOK(s, r, o, E)
    BY <1>5
  <2>2. GroupThere(s.pending[m], m, o, i)
    BY <1>3, <1>4, <1>6, <2>1 DEF FullOK
  <2> QED
    BY <2>2 DEF GroupThere
<1>8. PICK snap : snap = s.pending[m][n]
  OBVIOUS
<1>9. PICK x \in DrainRows(m, snap) :
        x.name = reports[k].name /\ x.delta.ts_to = snap.ts[reports[k].to]
  BY <1>1, <1>2, DrainRowOf
<1>10. x \in DOMAIN t.samples
  <2>1. DrainRows(m, s.pending[m][n]) \subseteq DOMAIN t.samples
    BY <1>2, <1>7, DrainDoes
  <2> QED
    BY <1>8, <1>9, <2>1
<1>11. o[snap.ts[reports[k].to]] = i
  BY <1>3, <1>7, <1>8
<1> QED
  BY <1>9, <1>10, <1>11 DEF Reported


LEMMA FullInit == Init => FullInv
<1> SUFFICES ASSUME Init PROVE FullInv
  OBVIOUS
<1>1. \A l \in DOMAIN Lanes : lane[l] = [item |-> 0, step |-> 1, ts |-> 0, done |-> {}]
  BY DEF Init
<1>2. \A l \in DOMAIN Lanes : lane[l].item = 0 /\ lane[l].done = {}
  BY <1>1
<1>3. \A i \in 1 .. Items : Passes[i] = {}
  <2>1. \A i \in 1 .. Items : i # 0
    BY ItemsAssumption
  <2> QED
    BY <1>2, <2>1 DEF Passes, PassedOf, Past
<1>4. PICK r, o, E, s : r = ring /\ o = owner /\ E = Passes /\ s = st
  OBVIOUS
<1>5. \A m \in KeyMs : \A i \in 1 .. Items : FedTo(r, o, E, m, i) = {}
  BY <1>3, <1>4 DEF FedTo
<1>6. FullOK(s, r, o, E)
  BY <1>5 DEF FullOK
<1> QED
  BY <1>4, <1>6 DEF FullInv, Init

LEMMA StampsFull ==
  ASSUME RequestsPassOnce, TargetOK, DataOK, LossInv, FullInv,
         NEW l \in DOMAIN Lanes, NEW i \in NextItem(l), ProbeStamps(l, i)
  PROVE  FullInv'
<1> DEFINE now == Len(owner) + 1
<1>1. MayWork(l, i) /\ i \in 1 .. Items
  BY NextWorks, NextItemType DEF LossInv
<1>2. \A t \in DOMAIN owner : owner'[t] = owner[t]
  BY <1>1, OwnerGrows DEF ProbeStamps, Reach
<1>3. /\ lane' = [lane EXCEPT ![l].item = i, ![l].ts = now]
      /\ ring' = ring /\ st' = st /\ lost' = lost /\ phase' = phase /\ phase # "done"
  BY DEF ProbeStamps, Reach, tool, Running
<1> HIDE DEF now
<1>4. LaneOK(lane[l], l) /\ DOMAIN lane = DOMAIN Lanes
  BY DEF TargetOK
<1>5. PICK x : x = lane'[l]
  OBVIOUS
<1>6. /\ x.item = i /\ x.step = lane[l].step /\ x.done = lane[l].done
      /\ \A m \in DOMAIN Lanes \ {l} : lane'[m] = lane[m]
  BY <1>3, <1>4, <1>5 DEF LaneOK
<1>7. Passes' = Passes
  BY <1>1, <1>5, <1>6, PassesStill
<1>8. PICK T, k : T = Seen /\ k = KeyAt
  OBVIOUS
<1>9. PICK r, o, E, s, o2 : r = ring /\ o = owner /\ E = Passes /\ s = st /\ o2 = owner'
  OBVIOUS
<1>10. r \in Seq(Events(T, k)) /\ Sound(s, T, k) /\ \A t \in T : o2[t] = o[t]
  BY <1>2, <1>8, <1>9, SeenOwned DEF DataOK
<1>11. ASSUME lost = {} PROVE FullOK(s, r, o2, E)
  <2>1. FullOK(s, r, o, E)
    BY <1>3, <1>9, <1>11 DEF FullInv
  <2>2. \A m \in KeyMs : \A j \in 1 .. Items : FedTo(r, o2, E, m, j) = FedTo(r, o, E, m, j)
    <3>1. \A j : QueuedOf(r, o2, j) = QueuedOf(r, o, j)
      BY <1>10, QueuedStill
    <3> QED
      BY <3>1 DEF FedTo
  <2> QED
    BY <1>10, <2>1, <2>2, FullKept
<1> QED
  BY <1>3, <1>7, <1>9, <1>11 DEF FullInv

LEMMA RecordsFull ==
  ASSUME RequestsPassOnce, TargetOK, DataOK, LossInv, FullInv, NEW l \in DOMAIN Lanes, ProbeRecords(l)
  PROVE  FullInv'
<1>1. /\ lane[l].ts # 0 /\ owner' = owner /\ lost' = lost /\ phase' = phase /\ phase # "done"
      /\ lane' = [lane EXCEPT ![l] = Passed(l, lane[l].item)] /\ st' = st
      /\ ring' = Append(ring, RawEvent(lane[l].ts, Lanes[l].tid, Stage(l), KeyOf[lane[l].item]))
  BY DEF ProbeRecords, Running
<1>2. PICK i, e : /\ i = lane[l].item
                  /\ e = RawEvent(lane[l].ts, Lanes[l].tid, Stage(l), KeyOf[lane[l].item])
  OBVIOUS
<1>3. e.ts = lane[l].ts /\ e.stage = Stage(l)
  BY <1>2 DEF RawEvent
<1>4. ChainOK /\ Busy(l) /\ i \in 1 .. Items /\ owner[e.ts] = i
  BY <1>1, <1>2, <1>3, EmitStep DEF LossInv, Busy, TargetOK, StampsOK
<1>5. MayWork(l, i)
  BY <1>2, <1>4, BusyWorks
<1>6. Stage(l) \notin Passes[i] /\ OneMore(Passes', Passes, i, Stage(l))
  BY <1>1, <1>2, <1>4, <1>5, PassedStep
<1>7. PICK T, k : T = Seen /\ k = KeyAt
  OBVIOUS
<1>8. PICK r, o, E, s, g : r = ring /\ o = owner /\ E = Passes /\ s = st /\ g = e.stage
  OBVIOUS
<1>9. PICK q, E2 : q = ring' /\ E2 = Passes'
  OBVIOUS
<1>10. r \in Seq(Events(T, k)) /\ Sound(s, T, k)
  BY <1>7, <1>8 DEF DataOK
<1>11. OneMore(E2, E, i, g) /\ g \notin E[i] /\ i = o[e.ts]
  BY <1>3, <1>4, <1>6, <1>8, <1>9
<1>12. OneQueued(q, r, o, i, g)
  <2>1. q = Append(r, e)
    BY <1>1, <1>2, <1>8, <1>9
  <2>2. Back(r, e, q)
    BY <1>10, <2>1 DEF Back
  <2> QED
    BY <1>8, <1>11, <2>2, QueuedAppend
<1>13. ASSUME lost = {} PROVE FullOK(s, q, o, E2)
  <2>1. FullOK(s, r, o, E)
    BY <1>1, <1>8, <1>13 DEF FullInv
  <2>2. ASSUME NEW m \in KeyMs, NEW j \in 1 .. Items PROVE FedTo(q, o, E2, m, j) = FedTo(r, o, E, m, j)
    <3>1. MorePassed(E2, E, i, g, m)
      BY <1>11, KeyStagesOf DEF OneMore, MorePassed
    <3> QED
      BY <1>4, <1>11, <1>12, <3>1, FedAppend
  <2>3. \A t \in T : o[t] = o[t]
    OBVIOUS
  <2> QED
    BY <1>10, <2>1, <2>2, <2>3, FullKept
<1> QED
  BY <1>1, <1>8, <1>9, <1>13 DEF FullInv

LEMMA ConsumeFull ==
  ASSUME KeyReportsApart, RequestsPassOnce, TargetOK, DataOK, LossInv, FullInv, Consume
  PROVE  FullInv'
<1>1. /\ ring # <<>> /\ ring' = Tail(ring) /\ st' = HandleRingEvent(st, Head(ring))
      /\ lane' = lane /\ owner' = owner /\ lost' = lost /\ phase' = phase /\ phase # "done"
  BY DEF Consume, target
<1>2. Passes' = Passes
  BY <1>1 DEF Passes, PassedOf, Past
<1>3. PICK T, k : T = Seen /\ k = KeyAt
  OBVIOUS
<1>4. PICK r, o, E, L, s : r = ring /\ o = owner /\ E = Passes /\ L = lost /\ s = st
  OBVIOUS
<1>5. PICK t : t = HandleRingEvent(s, Head(r))
  OBVIOUS
<1>6. /\ Owned(T, k, o) /\ T \subseteq Nat /\ r \in Seq(Events(T, k)) /\ r # <<>>
      /\ Sound(s, T, k) /\ E \in [1 .. Items -> SUBSET KeyStages]
  BY <1>1, <1>3, <1>4, SeenOwned, PassesType DEF DataOK
<1>7. QueueOK(r, o, E) /\ KeysOK(s, r, o, E, L) /\ \A n \in DOMAIN r : Begun(o[r[n].ts])
  BY <1>4 DEF LossInv
<1>8. ASSUME NEW c \in ItemsOf(Head(r).key), c < o[Head(r).ts] PROVE KeyStages \subseteq E[c]
  <2>1. PICK e : e = Head(r)
    OBVIOUS
  <2>2. e \in Events(T, k) /\ 1 \in DOMAIN r /\ e = r[1]
    BY <1>6, <2>1
  <2>3. o[e.ts] \in 1 .. Items /\ KeyOf[o[e.ts]] = e.key
    BY <1>6, <2>2 DEF Events, Owned
  <2>4. Begun(o[e.ts])
    BY <1>7, <2>2
  <2>5. c \in 1 .. Items /\ c < o[e.ts] /\ KeyOf[c] = KeyOf[o[e.ts]]
    BY <1>8, <2>1, <2>3 DEF ItemsOf
  <2>6. ChainOK
    BY DEF LossInv
  <2>7. Passes[c] = KeyStages
    BY <2>3, <2>4, <2>5, <2>6, PassesInTurn
  <2> QED
    BY <1>4, <2>7
<1>9. ASSUME L = {} PROVE FullOK(t, Tail(r), o, E)
  <2>1. FullOK(s, r, o, E)
    BY <1>1, <1>4, <1>9 DEF FullInv
  <2> QED
    BY <1>5, <1>6, <1>7, <1>8, <1>9, <2>1, FullConsume
<1>10. ring' = Tail(r) /\ st' = t /\ owner' = o /\ Passes' = E
  BY <1>1, <1>2, <1>4, <1>5
<1> QED
  BY <1>1, <1>4, <1>9, <1>10 DEF FullInv

LEMMA ResultsFull ==
  ASSUME RequestsPassOnce, TargetOK, DataOK, LossInv, FullInv, Results
  PROVE  FullInv'
<1>1. /\ ring' = ring /\ st' = DrainAll(st) /\ lane' = lane /\ owner' = owner /\ lost' = lost
      /\ phase # "done" /\ phase' = "done"
  BY DEF Results, target
<1> SUFFICES ASSUME lost = {}, ring = <<>> PROVE AllReported(KeyReports, st.samples, owner)'
  BY <1>1 DEF FullInv
<1>2. PICK T, k : T = Seen /\ k = KeyAt
  OBVIOUS
<1>3. PICK r, o, s, t : r = ring /\ o = owner /\ s = st /\ t = DrainAll(s)
  OBVIOUS
<1>4. FullOK(s, r, o, Passes) /\ Sound(s, T, k) /\ r = <<>> /\ ChainOK
  BY <1>1, <1>2, <1>3 DEF FullInv, DataOK, LossInv
<1>5. AllReported(KeyReports, t.samples, o)
  BY <1>3, <1>4, KeysReported
<1>6. st' = t /\ owner' = o
  BY <1>1, <1>3
<1> QED
  BY <1>1, <1>5, <1>6 DEF AllReported, Reported, KeyReports

LEMMA FullNext ==
  ASSUME KeyReportsApart, RequestsPassOnce
  PROVE  LensXInv /\ LossInv /\ FullInv /\ [Next]_vars => FullInv'
<1> SUFFICES ASSUME LensXInv, LossInv, FullInv, [Next]_vars PROVE FullInv'
  OBVIOUS
<1>1. TargetOK /\ DataOK
  BY DEF LensXInv
<1>2. ASSUME UNCHANGED <<ring, st, lane, owner, lost>>, phase' = "done" <=> phase = "done"
      PROVE  FullInv'
  <2>1. Passes' = Passes
    BY <1>2 DEF Passes, PassedOf, Past
  <2>2. PICK samples, o : samples = st.samples /\ o = owner
    OBVIOUS
  <2>3. AllReported(KeyReports, samples, o) => AllReported(KeyReports, samples, o)'
    BY <1>2 DEF AllReported, Reported, KeyReports
  <2> QED
    BY <1>2, <2>1, <2>2, <2>3 DEF FullInv
<1>3. CASE UNCHANGED vars
  BY <1>2, <1>3 DEF vars, tool, target
<1>4. CASE Next
  <2>1. ASSUME NEW l \in DOMAIN Lanes, NEW i \in NextItem(l), ProbeStamps(l, i) \/ PassUnseen(l, i)
        PROVE  FullInv'
    <3>1. PassUnseen(l, i) => lost' # {}
      BY DEF PassUnseen
    <3> QED
      BY <1>1, <2>1, <3>1, StampsFull DEF FullInv
  <2>2. ASSUME NEW l \in DOMAIN Lanes, ProbeRecords(l) \/ ProbeDrops(l) PROVE FullInv'
    <3>1. ProbeDrops(l) => lost' # {}
      BY DEF ProbeDrops
    <3> QED
      BY <1>1, <2>2, <3>1, RecordsFull DEF FullInv
  <2>3. CASE Consume
    BY <1>1, <2>3, ConsumeFull
  <2>4. CASE Results
    BY <1>1, <2>4, ResultsFull
  <2>5. ASSUME MainStep \/ SigHandler, ~ (Consume \/ Results) PROVE FullInv'
    <3>1. UNCHANGED <<ring, st, lane, owner, lost>> /\ (phase' = "done" <=> phase = "done")
      BY <2>5 DEF MainStep, SigHandler, Attach, AttachFails, AttachAborts, Start, PollWakes,
                  PollReturns, target
    <3> QED
      BY <1>2, <3>1
  <2> QED
    BY <1>4, <2>1, <2>2, <2>3, <2>4, <2>5 DEF Next
<1> QED
  BY <1>3, <1>4
-----------------------------------------------------------------------------
(***************************************************************************)
(* Theorems.                                                               *)
(***************************************************************************)
\* The inductive invariant holds throughout, whatever events are lost and
\* however the threads, the signal and main() interleave (lensx.cpp:190-380).
THEOREM LensXInvariant == Spec => []LensXInv
BY LensXInit, LensXNext, PTL DEF Spec

\* For every configuration: a queue never holds more than its capacity, the
\* ring buffer not more than it has room for, and a sample is always measured
\* between two events that happened and were not lost (matcher.cpp:124-127,
\* lensx.cpp:309-317).
THEOREM LensXTypeCorrect == Spec => []TypeOK
<1>1. LensXInv => TypeOK
  <2> SUFFICES ASSUME LensXInv PROVE TypeOK
    OBVIOUS
  <2>1. MainOK /\ lost \subseteq DOMAIN owner /\ Len(ring) <= RingCap
    BY DEF LensXInv, TargetOK, DataOK
  <2>2. PICK T, k : T = Seen /\ k = KeyAt
    OBVIOUS
  <2>3. FifosOK(st.fifos, T) /\ RowsOK(st.samples, T, k)
    BY <2>2 DEF LensXInv, DataOK, Sound
  <2>4. \A n \in FifoNames : Len(st.fifos[n]) <= Capacity[n]
    BY <2>3 DEF FifosOK
  <2>5. \A r \in Rows : {r.delta.ts_from, r.delta.ts_to} \subseteq DOMAIN owner \ lost
    BY <2>2, <2>3 DEF Rows, BagToSet, RowsOK, RowOK, Seen
  <2> QED
    BY <2>1, <2>4, <2>5 DEF MainOK, TypeOK
<1> QED
  BY <1>1, LensXInvariant, PTL

\* For every configuration whose reports by request are kept apart from those
\* of seq matchers and queues, and every target: a sample by request is measured
\* between two events with the same key, however the threads overtake each
\* other and whatever events were lost or not yet probed (matcher.cpp:79-101).
THEOREM LensXKeyRowsSameItem ==
  ASSUME KeyReportsApart
  PROVE  Spec => []KeyRowsSameItem
<1>1. LensXInv => KeyRowsSameItem
  <2> SUFFICES ASSUME LensXInv, NEW r \in Rows, r.name \in KeyNames
               PROVE  KeyOf[owner[r.delta.ts_from]] = KeyOf[owner[r.delta.ts_to]]
    BY DEF KeyRowsSameItem
  <2>1. PICK T, k : T = Seen /\ k = KeyAt
    OBVIOUS
  <2>2. RowOK(r, T, k)
    BY <2>1 DEF LensXInv, DataOK, Sound, RowsOK, Rows, BagToSet
  <2>3. k[r.delta.ts_from] = k[r.delta.ts_to] /\ r.delta.ts_from \in T /\ r.delta.ts_to \in T
    BY <2>2, KeyReportsApart DEF RowOK
  <2> QED
    BY <2>1, <2>3 DEF Seen, KeyAt
<1> QED
  BY <1>1, LensXInvariant, PTL

\* For every configuration whose reports by request are kept apart from those
\* of seq matchers and queues, and every target that takes each request through
\* each of its stages once: a lost event does harm to requests with its own key
\* only, also when the key is used again (matcher.cpp:85-99, bpf_gen.cpp:86).
THEOREM LensXLossStaysWithKey ==
  ASSUME KeyReportsApart, RequestsPassOnce
  PROVE  Spec => []LossStaysWithKey
<1>1. LensXInv /\ LossInv => LossStaysWithKey
  <2> SUFFICES ASSUME LossInv, NEW r \in Rows, r.name \in KeyNames,
                      \A t \in lost : KeyOf[owner[t]] # KeyOf[owner[r.delta.ts_to]]
               PROVE  SameItem(r.delta)
    BY DEF LossStaysWithKey
  <2>1. RowClean(r, owner, lost)
    BY DEF LossInv, KeysOK, RowsClean, Rows, BagToSet
  <2> QED
    BY <2>1 DEF RowClean, Clean, SameItem
<1>2. LensXInv /\ LossInv /\ [Next]_vars => LossInv'
  BY LossNext
<1> QED
  BY <1>1, <1>2, LossInit, LensXInvariant, PTL DEF Spec

\* Every sample of a queue or of a key matcher is counted once, by the callback
\* or by the drain, however the threads interleave and whatever is lost
\* (lensx.cpp:309-317, 355-364).
THEOREM LensXCountedOnce ==
  ASSUME ReportsApart
  PROVE  Spec => []CountedOnce
<1>1. OnceInv => CountedOnce
  BY DEF OnceInv, CountOK, CountedOnce, Rows, BagToSet
<1>2. LensXInv /\ OnceInv /\ [Next]_vars => OnceInv'
  BY OnceNext
<1> QED
  BY <1>1, <1>2, OnceInit, LensXInvariant, PTL DEF Spec

LEMMA PairInvariant ==
  ASSUME Pipeline
  PROVE  Spec => []PairInv
<1>1. Init => PairInv
  BY PairInit
<1>2. LensXInv /\ PairInv /\ [Next]_vars => PairInv'
  BY PairNext
<1> QED
  BY <1>1, <1>2, LensXInvariant, PTL DEF Spec

LEMMA FullInvariant ==
  ASSUME KeyReportsApart, RequestsPassOnce
  PROVE  Spec => []FullInv
<1>1. LensXInv /\ LossInv /\ [Next]_vars => LossInv'
  BY LossNext
<1>2. LensXInv /\ LossInv /\ FullInv /\ [Next]_vars => FullInv'
  BY FullNext
<1> QED
  BY <1>1, <1>2, LossInit, FullInit, LensXInvariant, PTL DEF Spec

\* For every pipeline of threads with strictly FIFO channels, however they, the
\* event loop and the signal interleave: as long as no event is lost and no queue
\* overflows, every sample is measured between two events of one item, though no
\* event says which item it is about (lensx.cpp:304-317).
THEOREM LensXPairsSameItem ==
  ASSUME Pipeline, KeyReportsApart, KeyMs # {} => RequestsPassOnce
  PROVE  Spec => []PairsSameItem
<1>1. PairInv => (lost = {} /\ ~ st.dropped => \A x \in Rows : RowSame(x, owner))
  BY DEF PairInv, PairsOK, Rows, BagToSet
<1>2. Spec => []PairInv
  BY PairInvariant
<1>3. CASE KeyMs = {}
  <2>1. PairInv => PairsSameItem
    <3>1. KeyNames = {}
      BY <1>3 DEF KeyNames
    <3> QED
      BY <1>1, <3>1 DEF PairsSameItem, RowSame, SameItem
  <2> QED
    BY <1>2, <2>1, PTL
<1>4. CASE KeyMs # {}
  <2>1. PairInv /\ LossStaysWithKey => PairsSameItem
    BY <1>1 DEF PairsSameItem, RowSame, SameItem, LossStaysWithKey
  <2>2. Spec => []LossStaysWithKey
    BY <1>4, LensXLossStaysWithKey
  <2> QED
    BY <1>2, <2>1, <2>2, PTL
<1> QED
  BY <1>3, <1>4

\* For every such pipeline: once no thread has an item another is still to get
\* and all events are read, the queues are empty, also after an overflow
\* (matcher.cpp:120-138).
THEOREM LensXQuietFifosEmpty ==
  ASSUME Pipeline
  PROVE  Spec => []QuietFifosEmpty
<1>1. LensXInv /\ PairInv => QuietFifosEmpty
  <2> SUFFICES ASSUME LensXInv, PairInv PROVE QuietFifosEmpty
    OBVIOUS
  <2>1. CASE phase = "done"
    BY <2>1 DEF PairInv, QuietFifosEmpty
  <2>2. CASE phase # "done"
    BY <2>2, QuietEmpty DEF LensXInv, PairInv, QuietFifosEmpty
  <2> QED
    BY <2>1, <2>2
<1>2. Spec => []PairInv
  BY PairInvariant
<1> QED
  BY <1>1, <1>2, LensXInvariant, PTL

\* For every configuration all of whose reports are on queues or on pairs of
\* stages of a matcher: at the end of a run no event of which was lost, left
\* unread or displaced, every item that went all the way is in every report
\* (lensx.cpp:263-318, 355-364).
THEOREM LensXEveryItemReported ==
  ASSUME ReportsCovered, Seqs # {} => Pipeline, KeyReportsApart, KeyMs # {} => RequestsPassOnce
  PROVE  Spec => []EveryItemReported
<1> DEFINE Ended == phase = "done" /\ lost = {} /\ ring = <<>> /\ ~ st.dropped
           All(S) == Ended => AllReported(S, st.samples, owner)
<1>1. Spec => []All(SeqReports)
  <2>1. CASE Seqs = {}
    <3>1. SeqReports = {}
      BY <2>1, ConnectionTypes DEF SeqReports, BySeq, FifoNames
    <3>2. LensXInv => All(SeqReports)
      BY <3>1 DEF AllReported
    <3> QED
      BY <3>2, LensXInvariant, PTL
  <2>2. CASE Seqs # {}
    <3>1. PairInv => All(SeqReports)
      BY DEF PairInv
    <3>2. Spec => []PairInv
      BY <2>2, PairInvariant
    <3> QED
      BY <3>1, <3>2, PTL
  <2> QED
    BY <2>1, <2>2
<1>2. Spec => []All(KeyReports)
  <2>1. CASE KeyMs = {}
    <3>1. KeyReports = {}
      BY <2>1 DEF KeyReports, ByKey
    <3>2. LensXInv => All(KeyReports)
      BY <3>1 DEF AllReported
    <3> QED
      BY <3>2, LensXInvariant, PTL
  <2>2. CASE KeyMs # {}
    <3>1. FullInv => All(KeyReports)
      BY DEF FullInv
    <3>2. Spec => []FullInv
      BY <2>2, FullInvariant
    <3> QED
      BY <3>1, <3>2, PTL
  <2> QED
    BY <2>1, <2>2
<1>3. All(SeqReports) /\ All(KeyReports) => EveryItemReported
  <2> SUFFICES ASSUME All(SeqReports), All(KeyReports), Ended,
                      NEW k \in DOMAIN reports, NEW i \in lane[Len(Lanes)].done
               PROVE  \E r \in Rows : r.name = reports[k].name /\ owner[r.delta.ts_to] = i
    BY DEF EveryItemReported
  <2>1. k \in SeqReports \/ k \in KeyReports
    BY DEF ReportsCovered, SeqReports, KeyReports
  <2>2. Reported(k, i, st.samples, owner)
    BY <2>1 DEF AllReported
  <2> QED
    BY <2>2 DEF Reported, Rows, BagToSet
<1> QED
  BY <1>1, <1>2, <1>3, PTL
=============================================================================
