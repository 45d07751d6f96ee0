----------------------------- MODULE EventLoop -----------------------------
(***************************************************************************)
(* The event loop of main() (src/lensx.cpp), the ring_buffer__poll() it    *)
(* calls (libbpf/src/ringbuf.c) and, external, the kernel's side of the    *)
(* BPF ring buffer: the CPUs that reserve, fill and commit records while   *)
(* the loop reads them.                                                    *)
(*                                                                         *)
(* Positions count records, not bytes: LensX writes records of one size.   *)
(* They are kept modulo M, a multiple of the ring's size, so that the ring *)
(* may run for ever; a record's content is the position it was written     *)
(* for, and the reader is right if it reads what belongs at its position.  *)
(***************************************************************************)
EXTENDS Integers

CONSTANTS
  CPUs,        \* the CPUs on which probes fire
  Size,        \* the number of records the ring has room for
  M,           \* positions are modulo M
  None         \* a CPU that has nothing reserved

ASSUME SizeAssumption == Size \in Nat \ {0}
ASSUME MAssumption    == M \in Nat /\ M >= 2 * Size /\ M % Size = 0
ASSUME NoneAssumption == None \notin 0 .. M - 1

VARIABLES
  producer_pos,   \* where the kernel reserves next
  consumer_pos,   \* up to where the reader has given room back
  data,           \* the content of each place of the ring
  busy,           \* the places whose record is reserved and not committed
  reserved,       \* the position each CPU is writing to, or None
  paused,         \* the target has stopped running through probed code
  exiting,        \* set by sig_handler
  pc,             \* where the reader is
  cons_pos,       \* its local copies in ringbuf_process_ring
  prod_pos,
  got_new_data,
  got             \* what handle_ring_event was given last

kernel == <<producer_pos, data, busy, reserved>>
locals == <<cons_pos, prod_pos, got_new_data, got>>
vars   == <<kernel, consumer_pos, paused, exiting, pc, locals>>

Positions == 0 .. M - 1
Places    == 0 .. Size - 1
Place(p)  == p % Size
After(p)  == (p + 1) % M

\* How many records there are from position p to position q.
Distance(p, q) == (q - p) % M

Init ==
  /\ producer_pos = 0
  /\ consumer_pos = 0
  /\ data = [i \in Places |-> M - 1]
  /\ busy = {}
  /\ reserved = [c \in CPUs |-> None]
  /\ paused = FALSE
  /\ exiting = FALSE
  /\ pc = "check"
  /\ cons_pos = 0
  /\ prod_pos = 0
  /\ got_new_data = FALSE
  /\ got = M - 1
-----------------------------------------------------------------------------
(***************************************************************************)
(* The kernel and the target (external).                                   *)
(***************************************************************************)
\* Mutant: one record more than there is room for.
RoomOneMore == Distance(consumer_pos, producer_pos) <= Size

\* There is room for a record behind what the reader has not given back.
Room == Distance(consumer_pos, producer_pos) < Size

\* A probe fires on CPU c and bpf_ringbuf_output reserves a record for it.
Reserve(c) ==
  /\ ~ paused
  /\ reserved[c] = None
  /\ Room
  /\ reserved' = [reserved EXCEPT ![c] = producer_pos]
  /\ busy' = busy \cup {Place(producer_pos)}
  /\ producer_pos' = After(producer_pos)
  /\ UNCHANGED <<data, consumer_pos, paused, exiting, pc, locals>>

\* The event is copied and the record committed.
Commit(c) ==
  /\ reserved[c] # None
  /\ data' = [data EXCEPT ![Place(reserved[c])] = reserved[c]]
  /\ busy' = busy \ {Place(reserved[c])}
  /\ reserved' = [reserved EXCEPT ![c] = None]
  /\ UNCHANGED <<producer_pos, consumer_pos, paused, exiting, pc, locals>>

Pause ==
  /\ ~ paused
  /\ paused' = TRUE
  /\ UNCHANGED <<kernel, consumer_pos, exiting, pc, locals>>

Resume ==
  /\ paused
  /\ paused' = FALSE
  /\ UNCHANGED <<kernel, consumer_pos, exiting, pc, locals>>
-----------------------------------------------------------------------------
(***************************************************************************)
(* main() and sig_handler().                                               *)
(***************************************************************************)
\* while (!exiting)
CheckExiting ==
  /\ pc = "check"
  /\ pc' = IF exiting THEN "results" ELSE "enter"
  /\ UNCHANGED <<kernel, consumer_pos, paused, exiting, locals>>

\* A signal at any time; if the reader waits, epoll_wait fails with EINTR and
\* ring_buffer__poll returns.
SigHandler ==
  /\ ~ exiting
  /\ exiting' = TRUE
  /\ pc' = IF pc = "epoll" THEN "check" ELSE pc
  /\ UNCHANGED <<kernel, consumer_pos, paused, locals>>
-----------------------------------------------------------------------------
(***************************************************************************)
(* ring_buffer__poll().                                                    *)
(***************************************************************************)
\* The call of epoll_wait: a signal that came before it does not interrupt it.
EnterPoll ==
  /\ pc = "enter"
  /\ pc' = "epoll"
  /\ UNCHANGED <<kernel, consumer_pos, paused, exiting, locals>>

\* epoll_wait reports the ring while it holds a record, committed or not.
EpollReady ==
  /\ pc = "epoll"
  /\ consumer_pos # producer_pos
  /\ cons_pos' = consumer_pos
  /\ pc' = "load"
  /\ UNCHANGED <<kernel, consumer_pos, paused, exiting, prod_pos, got_new_data, got>>

\* Mutant: the wait has no time limit.
EpollNeverTimesOut == FALSE /\ UNCHANGED vars

\* 200 ms without an event
EpollTimeout ==
  /\ pc = "epoll"
  /\ consumer_pos = producer_pos
  /\ pc' = "check"
  /\ UNCHANGED <<kernel, consumer_pos, paused, exiting, locals>>

\* The head of the do loop
LoadProducer ==
  /\ pc = "load"
  /\ got_new_data' = FALSE
  /\ prod_pos' = producer_pos
  /\ pc' = "scan"
  /\ UNCHANGED <<kernel, consumer_pos, paused, exiting, cons_pos, got>>

\* Mutant: the busy mark is not looked at.
ScanRecordBusy ==
  /\ pc = "scan"
  /\ cons_pos # prod_pos
  /\ got_new_data' = TRUE
  /\ pc' = "callback"
  /\ UNCHANGED <<kernel, consumer_pos, paused, exiting, cons_pos, prod_pos, got>>

\* The next record is committed: it is the callback's turn.
ScanRecord ==
  /\ pc = "scan"
  /\ cons_pos # prod_pos
  /\ Place(cons_pos) \notin busy
  /\ got_new_data' = TRUE
  /\ pc' = "callback"
  /\ UNCHANGED <<kernel, consumer_pos, paused, exiting, cons_pos, prod_pos, got>>

\* The next record is not committed yet: bail out for now.
ScanBusy ==
  /\ pc = "scan"
  /\ cons_pos # prod_pos
  /\ Place(cons_pos) \in busy
  /\ pc' = "check"
  /\ UNCHANGED <<kernel, consumer_pos, paused, exiting, locals>>

\* Everything up to prod_pos is read: look again if there was anything.
ScanEnd ==
  /\ pc = "scan"
  /\ cons_pos = prod_pos
  /\ pc' = IF got_new_data THEN "load" ELSE "check"
  /\ UNCHANGED <<kernel, consumer_pos, paused, exiting, locals>>

\* Mutant: the room is given back before the record is read.
CallbackReleasesFirst ==
  /\ pc = "callback"
  /\ IF consumer_pos = cons_pos
     THEN consumer_pos' = After(cons_pos) /\ pc' = pc /\ cons_pos' = cons_pos
     ELSE consumer_pos' = consumer_pos /\ pc' = "scan" /\ cons_pos' = After(cons_pos)
  /\ got' = data[Place(cons_pos)]
  /\ UNCHANGED <<kernel, paused, exiting, prod_pos, got_new_data>>

\* handle_ring_event reads the record.
Callback ==
  /\ pc = "callback"
  /\ cons_pos' = After(cons_pos)
  /\ got' = data[Place(cons_pos)]
  /\ pc' = "release"
  /\ UNCHANGED <<kernel, consumer_pos, paused, exiting, prod_pos, got_new_data>>

\* Mutant: the store of the consumer's position is forgotten.
ReleaseNothing ==
  /\ pc = "release"
  /\ pc' = "scan"
  /\ UNCHANGED <<kernel, consumer_pos, paused, exiting, locals>>

\* smp_store_release(r->consumer_pos, cons_pos)
Release ==
  /\ pc = "release"
  /\ consumer_pos' = cons_pos
  /\ pc' = "scan"
  /\ UNCHANGED <<kernel, paused, exiting, locals>>

ReaderStep ==
  \/ CheckExiting \/ EnterPoll \/ EpollReady \/ EpollTimeout \/ LoadProducer
  \/ ScanRecord \/ ScanBusy \/ ScanEnd \/ Callback \/ Release

Next ==
  \/ \E c \in CPUs : Reserve(c) \/ Commit(c)
  \/ Pause \/ Resume
  \/ SigHandler
  \/ ReaderStep

\* The reader is a running thread, and a BPF program commits what it reserves:
\* it is not preempted in between.
Spec ==
  /\ Init /\ [][Next]_vars
  /\ WF_vars(ReaderStep)
  /\ \A c \in CPUs : WF_vars(Commit(c))
-----------------------------------------------------------------------------
(***************************************************************************)
(* Properties.                                                             *)
(***************************************************************************)
\* Every variable has its type; the ring never holds more records than it has
\* room for, and exactly the records some CPU is writing are busy.
TypeOK ==
  /\ {producer_pos, consumer_pos, cons_pos, prod_pos} \subseteq Positions
  /\ data \in [Places -> Positions]
  /\ got \in Positions
  /\ reserved \in [CPUs -> Positions \cup {None}]
  /\ {paused, exiting, got_new_data} \subseteq BOOLEAN
  /\ pc \in {"check", "enter", "epoll", "load", "scan", "callback", "release", "results"}
  /\ Distance(consumer_pos, producer_pos) <= Size
  /\ busy = {Place(reserved[c]) : c \in {d \in CPUs : reserved[d] # None}}

\* The record handed to handle_ring_event is the one that belongs at the
\* reader's position, complete: events reach the matchers once each and in the
\* order of their reservation, and no CPU writes into a record that is being
\* read (ringbuf.c:214-241).
RecordIntact ==
  pc = "callback" => Place(cons_pos) \notin busy /\ data[Place(cons_pos)] = cons_pos

InRing(p) == Distance(consumer_pos, p) < Distance(consumer_pos, producer_pos)

\* Every event in the ring is read, unless the measurement ends: a record that
\* was busy when the reader came by, or that came while it was leaving, is not
\* forgotten (ringbuf.c:222-224, 243).
EventsAreRead ==
  \A p \in Positions : InRing(p) ~> (~ InRing(p) \/ exiting)

\* A signal ends the loop if the target ever falls silent, also one that arrives between
\* the test of exiting and epoll_wait, which nothing but the time limit then
\* ends (lensx.cpp:349-350).
ExitsWhenQuiet == <>[]paused => (exiting ~> pc = "results")

\* The record at position p of the ring, as the reader is to see it.
RecordAt(p) ==
  [num |-> IF Place(p) \in busy THEN p ELSE data[Place(p)], ready |-> Place(p) \notin busy]

Ring == INSTANCE BoundedRing WITH
  ring    <- [k \in 1 .. Distance(consumer_pos, producer_pos) |->
                RecordAt((consumer_pos + k - 1) % M)],
  next    <- producer_pos,
  reading <- pc = "release"

\* Whatever the CPUs and the reader do in between, callbacks get the records
\* one by one in the order of their reservation, each complete, none twice,
\* and no room is given away while its record is read (ringbuf.c:205-247).
AbsSpec == Ring!Spec
=============================================================================
