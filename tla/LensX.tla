------------------------------- MODULE LensX -------------------------------
(***************************************************************************)
(* A measurement from end to end: the target's threads run through the     *)
(* probed functions, the probes write events to the ring buffer, the event *)
(* loop of main() feeds them to the matchers, and after a signal the       *)
(* results are printed.                                                    *)
(*                                                                         *)
(* External, modelled from how main() and the generated BPF programs use   *)
(* them: the target (Lanes: a chain of threads, each of which passes every *)
(* item through its stages and then on to the next thread), the kernel's   *)
(* ring buffer (an event finds room or is gone: the BPF programs ignore    *)
(* the result of bpf_ringbuf_output) and ring_buffer__poll (which hands    *)
(* over events until none is left).                                        *)
(*                                                                         *)
(* An event's timestamp is its number; owner[ts] is the item it is about,  *)
(* which nobody in LensX knows.  A BPF program runs to its end before the  *)
(* thread goes on, so an item is only passed on after its events.          *)
(***************************************************************************)
EXTENDS Wiring

CONSTANTS
  probes,       \* cfg.probes: the sequence of their stages
  Lanes,        \* sequence of [tid, stages]
  Items,        \* bound: how many items pass through the target
  KeyOf,        \* item -> the key its events carry
  StrictFifo,   \* do the channels between the threads keep the order?
  RingCap,      \* the number of events the ring buffer has room for
  MayFail       \* may a probe fail to attach?

ASSUME ItemsAssumption  == Items \in Nat
ASSUME RingAssumption   == RingCap \in Nat \ {0}
ASSUME KeyOfAssumption  == KeyOf \in [1 .. Items -> Keys]
ASSUME ProbesAssumption == probes \in Seq(Nat)
ASSUME LanesAssumption  ==
  /\ Lanes \in Seq([tid : Tids, stages : Seq(Nat)])
  /\ \A l \in DOMAIN Lanes : Lanes[l].stages # <<>>

VARIABLES
  phase,        \* where main() is
  attached,     \* how many probes main() has been through
  links,        \* the probes that are attached
  exiting,      \* set by sig_handler
  ring,         \* the events in the ring buffer
  st,           \* matchers, queues, histograms (module Wiring)
  lane,         \* per thread: its item, its next stage, the timestamp its BPF
                \* program has taken, or 0, and the items it is done with
  owner,        \* history: the item of every event that happened
  lost          \* history: the events that never got into the ring buffer

tool   == <<phase, attached, links, exiting, ring, st>>
target == <<lane, owner>>
vars   == <<tool, target, lost>>

Init ==
  /\ phase = "attach"
  /\ attached = 0
  /\ links = {}
  /\ exiting = FALSE
  /\ ring = <<>>
  /\ st = MatcherInit
  /\ lane = [l \in DOMAIN Lanes |-> [item |-> 0, step |-> 1, ts |-> 0, done |-> {}]]
  /\ owner = <<>>
  /\ lost = {}
-----------------------------------------------------------------------------
(***************************************************************************)
(* The target.                                                             *)
(***************************************************************************)
\* A key is in use from the moment an item with it enters the target until the
\* item leaves; 0 is the key of events that have none.
KeyInUse(i) ==
  KeyOf[i] # 0 /\ \E j \in 1 .. i - 1 : KeyOf[j] = KeyOf[i] /\ j \notin lane[Len(Lanes)].done

Ready(l) ==
  (IF l = 1 THEN {i \in 1 .. Items : ~ KeyInUse(i)} ELSE lane[l - 1].done) \ lane[l].done

\* The items thread l may go on with.
NextItem(l) ==
  IF lane[l].step > 1 THEN {lane[l].item}
  ELSE IF StrictFifo \/ l = 1 THEN {i \in Ready(l) : \A j \in Ready(l) : i <= j}
  ELSE Ready(l)

Running == phase \notin {"done", "aborted"}
Stage(l) == Lanes[l].stages[lane[l].step]
Probed(stage) == \E k \in links : probes[k] = stage

\* Thread l comes to the next probed function with item i.
Reach(l, i) ==
  /\ Running
  /\ lane[l].ts = 0
  /\ i \in NextItem(l)
  /\ owner' = Append(owner, i)

\* Thread l after the function: the item moves on, at the end to the next thread.
Passed(l, i) ==
  IF lane[l].step = Len(Lanes[l].stages)
  THEN [item |-> 0, step |-> 1, ts |-> 0, done |-> lane[l].done \cup {i}]
  ELSE [lane[l] EXCEPT !.item = i, !.step = @ + 1, !.ts = 0]

\* The BPF program runs and takes the time.
ProbeStamps(l, i) ==
  /\ Reach(l, i)
  /\ Probed(Stage(l))
  /\ lane' = [lane EXCEPT ![l].item = i, ![l].ts = Len(owner) + 1]
  /\ UNCHANGED <<tool, lost>>

\* Its event finds room in the ring buffer, by now perhaps behind later ones of
\* other threads.
ProbeRecords(l) ==
  /\ Running
  /\ lane[l].ts # 0
  /\ Len(ring) < RingCap
  /\ ring' = Append(ring,
       RawEvent(lane[l].ts, Lanes[l].tid, Stage(l), KeyOf[lane[l].item]))
  /\ lane' = [lane EXCEPT ![l] = Passed(l, @.item)]
  /\ UNCHANGED <<phase, attached, links, exiting, st, owner, lost>>

\* bpf_ringbuf_output fails; the BPF program does not look at its result.
ProbeDrops(l) ==
  /\ Running
  /\ lane[l].ts # 0
  /\ Len(ring) = RingCap
  /\ lost' = lost \cup {lane[l].ts}
  /\ lane' = [lane EXCEPT ![l] = Passed(l, @.item)]
  /\ UNCHANGED <<tool, owner>>

\* The probe is not attached, yet or at all.
PassUnseen(l, i) ==
  /\ Reach(l, i)
  /\ ~ Probed(Stage(l))
  /\ lane' = [lane EXCEPT ![l] = Passed(l, i)]
  /\ lost' = lost \cup {Len(owner) + 1}
  /\ UNCHANGED tool
-----------------------------------------------------------------------------
(***************************************************************************)
(* main().                                                                 *)
(***************************************************************************)
\* The probes are attached one after the other while the target runs.
Attach ==
  /\ phase = "attach"
  /\ attached < Len(probes)
  /\ attached' = attached + 1
  /\ links' = links \cup {attached + 1}
  /\ UNCHANGED <<phase, exiting, ring, st, target, lost>>

\* A uprobe whose symbol is not found ends the program, as do a ring buffer that
\* cannot be opened and a signal before the handlers are installed; the kernel
\* takes back the links.
AttachAborts ==
  /\ MayFail
  /\ phase = "attach"
  /\ phase' = "aborted"
  /\ links' = {}
  /\ UNCHANGED <<attached, exiting, ring, st, target, lost>>

\* No program or no link: a message, and on to the next probe.
AttachFails ==
  /\ MayFail
  /\ phase = "attach"
  /\ attached < Len(probes)
  /\ attached' = attached + 1
  /\ UNCHANGED <<phase, links, exiting, ring, st, target, lost>>

\* Matchers and queues are built, the ring buffer opened, the signal handlers
\* installed: the loop starts.
Start ==
  /\ phase = "attach"
  /\ attached = Len(probes)
  /\ phase' = "loop"
  /\ UNCHANGED <<attached, links, exiting, ring, st, target, lost>>

\* SIGINT or SIGTERM
SigHandler ==
  /\ phase \in {"loop", "poll"}
  /\ ~ exiting
  /\ exiting' = TRUE
  /\ UNCHANGED <<phase, attached, links, ring, st, target, lost>>

\* while (!exiting) ring_buffer__poll(rb, 200): the wait ends with events
\* to consume.
PollWakes ==
  /\ phase = "loop"
  /\ ~ exiting
  /\ ring # <<>>
  /\ phase' = "poll"
  /\ UNCHANGED <<attached, links, exiting, ring, st, target, lost>>

\* One event is handed to handle_ring_event and its room freed.
Consume ==
  /\ phase = "poll"
  /\ ring # <<>>
  /\ st' = HandleRingEvent(st, Head(ring))
  /\ ring' = Tail(ring)
  /\ UNCHANGED <<phase, attached, links, exiting, target, lost>>

\* ring_buffer__poll returns when it finds nothing more; a signal alone does
\* not make it return.
PollReturns ==
  /\ phase = "poll"
  /\ ring = <<>>
  /\ phase' = "loop"
  /\ UNCHANGED <<attached, links, exiting, ring, st, target, lost>>

\* Mutant: the results are printed without the drain.
ResultsUndrained ==
  /\ phase = "loop"
  /\ exiting
  /\ phase' = "done"
  /\ links' = {}
  /\ UNCHANGED <<attached, exiting, ring, st, target, lost>>

\* Mutant: the loop is left only when the ring buffer is empty.
ResultsWhenEmpty ==
  /\ phase = "loop"
  /\ exiting
  /\ ring = <<>>
  /\ phase' = "done"
  /\ st' = DrainAll(st)
  /\ links' = {}
  /\ UNCHANGED <<attached, exiting, ring, target, lost>>

\* The loop is left: drain, print, clean up.  What is still in the ring
\* buffer is not read.
Results ==
  /\ phase = "loop"
  /\ exiting
  /\ phase' = "done"
  /\ st' = DrainAll(st)
  /\ links' = {}
  /\ UNCHANGED <<attached, exiting, ring, target, lost>>

MainStep ==
  \/ Attach \/ AttachFails \/ AttachAborts \/ Start
  \/ PollWakes \/ Consume \/ PollReturns \/ Results

Next ==
  \/ \E l \in DOMAIN Lanes :
       \/ \E i \in NextItem(l) : ProbeStamps(l, i) \/ PassUnseen(l, i)
       \/ ProbeRecords(l)
       \/ ProbeDrops(l)
  \/ MainStep
  \/ SigHandler

\* main() is a running thread: it does not stop for good while it can go on.
Spec == Init /\ [][Next]_vars /\ WF_vars(MainStep)
-----------------------------------------------------------------------------
(***************************************************************************)
(* Invariants.                                                             *)
(***************************************************************************)
Rows == BagToSet(st.samples)

\* Every variable has its type; a queue never holds more than its capacity and
\* a sample always measures from an event that happened to another
\* (matcher.cpp:124-127, lensx.cpp:309-317).
TypeOK ==
  /\ phase \in {"attach", "loop", "poll", "done", "aborted"}
  /\ attached \in 0 .. Len(probes)
  /\ links \subseteq 1 .. attached
  /\ exiting \in BOOLEAN
  /\ Len(ring) <= RingCap
  /\ lost \subseteq DOMAIN owner
  /\ \A n \in FifoNames : Len(st.fifos[n]) <= Capacity[n]
  /\ \A r \in Rows : {r.delta.ts_from, r.delta.ts_to} \subseteq DOMAIN owner \ lost

SameItem(d) == owner[d.ts_from] = owner[d.ts_to]

\* No stage of stages is at two places.
PlacedOnce(stages) ==
  \A l, m \in DOMAIN Lanes :
    \A x \in DOMAIN Lanes[l].stages, y \in DOMAIN Lanes[m].stages :
      Lanes[l].stages[x] = Lanes[m].stages[y] /\ Lanes[l].stages[x] \in stages => l = m /\ x = y

\* An item comes to stage g before it comes to stage h.
Ahead(g, h) ==
  \E l, m \in DOMAIN Lanes :
    \E x \in DOMAIN Lanes[l].stages, y \in DOMAIN Lanes[m].stages :
      Lanes[l].stages[x] = g /\ Lanes[m].stages[y] = h /\ (l < m \/ (l = m /\ x < y))

SeqStages == UNION {Mask(matchers[i].stages) : i \in Seqs}

\* What the next two invariants ask of a configuration and a target, beyond what
\* the documentation does: the channels between the threads are strictly FIFO
\* and no item waits for the key of another; a seq matcher has stages of one
\* thread, the one with the smallest number first, and its stages are at one
\* place; and the last stage of what pops comes after all of what pushes.
Pipeline ==
  /\ StrictFifo
  /\ \A i, j \in 1 .. Items : KeyOf[i] = KeyOf[j] /\ KeyOf[i] # 0 => i = j
  /\ \A l, m \in DOMAIN Lanes : Lanes[l].tid = Lanes[m].tid => l = m
  /\ PlacedOnce(SeqStages)
  /\ \A i \in Seqs : \E l \in DOMAIN Lanes : Mask(matchers[i].stages) \subseteq Mask(Lanes[l].stages)
  /\ \A i \in Seqs : \A g \in Mask(matchers[i].stages) :
       g = FirstStage(matchers[i].stages) \/ Ahead(FirstStage(matchers[i].stages), g)
  /\ \A c \in Connections : \E h \in Mask(matchers[c.pop_seq].stages) :
       \A g \in Mask(matchers[c.push_seq].stages) : Ahead(g, h)

\* If the channels between the threads are strictly FIFO, no event was lost
\* and no queue overflowed, every sample, across threads too, is measured
\* between two events of one item, though no event says which item it is
\* about (lensx.cpp:304-317).
PairsSameItem ==
  lost = {} /\ ~ st.dropped => \A r \in Rows : SameItem(r.delta)

\* Nothing is under way: no thread has an item another is still to get, and
\* every event has been consumed.
Quiet ==
  /\ ring = <<>>
  /\ \A l, k \in DOMAIN Lanes : lane[l].step = 1 /\ lane[l].ts = 0 /\ lane[l].done = lane[k].done

\* An overflow does no lasting harm: as soon as the target has been quiet once,
\* the queues are empty, and what is pushed next is what is popped next.  This
\* needs that no event was lost: one lost group leaves an entry behind for
\* good (matcher.cpp:120-138).
QuietFifosEmpty ==
  lost = {} /\ Quiet => \A n \in FifoNames : st.fifos[n] = <<>>

\* The reports on two stages of a key matcher.
KeyNames ==
  {reports[k].name : k \in {j \in DOMAIN reports :
     \E m \in KeyMs : HasStage(m, reports[j].from) /\ HasStage(m, reports[j].to)}}

\* What the next two invariants ask of a configuration and a target.  The
\* reports by request are on stages no seq matcher has both of, and none has
\* the name of a queue: a sample of such a name comes from a key matcher.
KeyReportsApart ==
  /\ \A j \in DOMAIN reports : reports[j].name \in KeyNames =>
       \A i \in Seqs : ~ (HasStage(i, reports[j].from) /\ HasStage(i, reports[j].to))
  /\ KeyNames \cap FifoNames = {}

KeyStages == UNION {Mask(matchers[m].stages) : m \in KeyMs}

\* Every item is a request with a key, and passes every stage of a key matcher
\* at one place.
RequestsPassOnce ==
  /\ \A i \in 1 .. Items : KeyOf[i] # 0
  /\ \A s \in KeyStages : \E l \in DOMAIN Lanes : s \in Mask(Lanes[l].stages)
  /\ PlacedOnce(KeyStages)

\* Samples by request never mix two items whose keys differ, however the
\* threads overtake each other and whatever events were lost or not yet probed
\* (matcher.cpp:79-101).
KeyRowsSameItem ==
  \A r \in Rows : r.name \in KeyNames =>
    KeyOf[owner[r.delta.ts_from]] = KeyOf[owner[r.delta.ts_to]]

\* A lost event does harm to requests with its own key only: samples of a key
\* no event of which was lost are measured between events of one item, also
\* when the key is used again (matcher.cpp:85-99, bpf_gen.cpp:86).
LossStaysWithKey ==
  \A r \in Rows :
    r.name \in KeyNames
    /\ (\A t \in lost : KeyOf[owner[t]] # KeyOf[owner[r.delta.ts_to]])
    => SameItem(r.delta)

\* What the next invariant asks of a configuration: no sample of a queue or of a
\* key matcher can be one of a seq matcher too, or of a second key matcher.
ReportsApart ==
  /\ \A j \in DOMAIN reports : reports[j].name \in KeyNames \cup FifoNames =>
       \A i \in Seqs : ~ (HasStage(i, reports[j].from) /\ HasStage(i, reports[j].to))
  /\ KeyNames \cap FifoNames = {}
  /\ \A j \in DOMAIN reports : \A m, n \in KeyMs :
       {reports[j].from, reports[j].to} \subseteq
         Mask(matchers[m].stages) \cap Mask(matchers[n].stages) => m = n

\* A sample of a queue or of a key matcher is counted once: the callbacks count
\* the first, the drain counts the second (lensx.cpp:309-317, 355-364).
CountedOnce ==
  \A r \in Rows : r.name \in FifoNames \cup KeyNames => st.samples[r] = 1

\* Report k is on two stages of matcher m, in the order of its list, and no
\* later report is.
OnPair(k, m) ==
  \E x, y \in DOMAIN matchers[m].stages :
    /\ x < y
    /\ reports[k].from = matchers[m].stages[x] /\ reports[k].to = matchers[m].stages[y]
    /\ report_keys[<<reports[k].from, reports[k].to>>] = reports[k].name

\* What the next invariant asks of a configuration: every report is on a queue
\* or on a pair of stages of one matcher.
BySeq(k) == reports[k].name \in FifoNames \/ \E m \in Seqs : OnPair(k, m)
ByKey(k) == \E m \in KeyMs : OnPair(k, m)
ReportsCovered == \A k \in DOMAIN reports : BySeq(k) \/ ByKey(k)

\* The results leave no item out: if no event was lost, in the probes or in the
\* ring buffer at the end, and no queue overflowed, then every item that went
\* all the way is in every report (lensx.cpp:263-318, 355-364).
EveryItemReported ==
  phase = "done" /\ lost = {} /\ ring = <<>> /\ ~ st.dropped =>
    \A k \in DOMAIN reports, i \in lane[Len(Lanes)].done :
      \E r \in Rows : r.name = reports[k].name /\ owner[r.delta.ts_to] = i

\* A signal ends the measurement, if the target does not keep the ring buffer
\* filled for ever (lensx.cpp:349-350; here it runs out of items).
ExitFinishes == exiting ~> phase = "done"
-----------------------------------------------------------------------------
(***************************************************************************)
(* What the documentation says and the code does not do.                   *)
(***************************************************************************)
\* "前置条件：两个线程之间的通道必须是严格 FIFO" (config_full.yaml:141), and
\* nothing else: the precondition under which queues pair the right events.
FifoRowsSameItem ==
  StrictFifo => \A r \in Rows : r.name \in FifoNames => SameItem(r.delta)

\* "seq 由 onComplete 处理，key/fifo 依赖 drain" (lensx.cpp:355): the samples of
\* a seq matcher have been counted by its callback and are not drained.
SeqCountedOnce == \A r \in Rows : st.samples[r] = 1
=============================================================================
