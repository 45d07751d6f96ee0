# A TLA+ verification project for LensX

LensX measures where a running program spends its time. A YAML file names
probes (functions of the target, each with a *stage* number), matchers (which
stages belong together) and reports (latency from one stage to another). LensX
writes a BPF program for each probe, attaches it, reads the events the programs
put into a BPF ring buffer, groups them, and on Ctrl+C prints a histogram for
each report.

The results are only as good as the grouping. Nothing in an event says which
item of work it is about; the matchers infer it from threads, keys and the
order of arrival. This project states when those inferences are right, checks
them with TLC on small instances, and proves the central ones with TLAPS.

Paths below are relative to the repository (`src/…` is LensX's own source,
`libbpf/src/…` the vendored library).

## 1. Inventory

### Components, state and operations

| Component | Source | State | Operations | Interacts with |
|---|---|---|---|---|
| SeqMatcher | `src/matcher.{h,cpp}` | 65536 records found by `tid % 65536`, `pending_`, the callbacks | constructor, `feed`, `drain` | fed by `handle_ring_event`; calls the callbacks `main` registered |
| KeyMatcher | `src/matcher.{h,cpp}` | map from key to record, `pending_` | constructor, `feed`, `drain` | fed by `handle_ring_event`; drained at the end |
| FifoQueue | `src/matcher.{h,cpp}` | circular array, `head_`, `tail_` | `push`, `pop` | pushed by the callback of one seq matcher, popped by another's |
| Wiring | `src/lensx.cpp:231-329` | `report_keys`, `seq_map`, `fifos`, callbacks | built once, then reacts to completed groups | connects matchers, queues and histograms |
| Event loop and shutdown | `src/lensx.cpp:331-390`, `libbpf/src/ringbuf.c` | `exiting`, the positions of the ring | `sig_handler`, `ring_buffer__poll`, drain and print | kernel and BPF programs write while it reads |
| Hist | `src/lensx.cpp:69-131` | 48 buckets, `count` | `record`, `print` | written by callbacks and by the drain |
| Generated BPF programs | `src/bpf_gen.cpp` | none of their own | write an event to the ring buffer | run on every CPU, in the target's threads |
| Attaching probes | `src/lensx.cpp:190-229` | links | attach each probe, skip, or abort | the target runs meanwhile |
| Start-up and end | `src/config.cpp`, `src/bpf_gen.cpp`, `src/lensx.cpp:134-189, 378-390` | configuration, temporary files | parse, validate, find the PID, generate, compile, load; clean up | files in `/tmp` (one shared by all runs), compiler, libbpf |
| libbpf | `libbpf/src/{libbpf,bpf,btf,ringbuf}.c` | descriptors, mapped pages, events in tracefs | open, load, attach, destroy, close; ring buffer | the kernel |
| CSV output | `src/lensx.cpp` | a file | a row for each sample | written where histograms are |

### What is hard in it

* **Interleaving.** The target's threads, the CPUs writing to the ring and the
  single reader run at once. Events of different threads reach the matchers in
  any order; the two halves of a cross-thread sample are produced by two
  callbacks with anything in between.
* **Loss.** `bpf_ringbuf_output` fails when the ring is full and the result is
  ignored; probes are attached one after the other while the target runs; a
  probe that fails to attach is skipped. Groups may be incomplete at any point.
* **Stale state.** Records are reused without being cleared; queue entries whose
  partner was lost stay; keys may be used again.
* **Limits.** A full queue, counters that only count up, few or very large
  latencies.
* **Stopping.** One flag, tested between two calls that may block or never
  return.

* **Failure half-way.** Loading and attaching are some twenty system calls. Each
  may fail, after others have obtained descriptors, pages or events in tracefs
  that outlive the process; libbpf repeats loading with larger logs.
* **Other runs.** All runs of the tool copy `vmlinux.h` to one place in `/tmp`.

A measurement is not persistent: a crash loses it, and the next run starts anew.

### What makes each component correct

* A *matcher*'s groups contain events of one thread (or one key) only, one for
  each stage, do not overlap, and are handed out once.
* A *queue* returns what was pushed, in order, and loses only the oldest entries
  when full.
* The *wiring* measures every sample between two events of the same item, counts
  it once, and leaves none out.
* The *loop* hands every record over whole, once and in order, and ends after a
  signal.
* A *run* deals with every probe once, holds exactly the descriptors that are
  open, cleans up after itself when it ends normally, does other runs no lasting
  harm, and ends when told to.
* A *histogram* has every sample in the bucket whose range is printed for it,
  and its percentiles lie where the samples lie.

The hazards, each at its line, are in `PROJECT.json` with the properties that
watch them.

## 2. The modules

| Module | What it is |
|---|---|
| `DropOldestQueue` | abstract: a sequence that drops its oldest entry when full |
| `FifoQueue` | `FifoQueue` with its two `int` counters at their width |
| `FifoQueueProofs` | its theorems |
| `Matchers` | the pure parts of both matchers: masks, first stage, what an event does to a record, snapshots, deltas |
| `MatchersProofs` | lemmas about them |
| `StageGroups` | abstract: one collection of stages for each identity (thread or key) |
| `SeqMatcher` | `SeqMatcher`, with its hash table |
| `SeqMatcherProofs` | its theorems |
| `KeyMatcher` | `KeyMatcher`, with its map |
| `KeyMatcherProofs` | its theorems |
| `Wiring` | what `main()` builds from the configuration and what one event does to all of it |
| `LensX` | composition: target, probes, ring buffer, `Wiring`, loop, signal, results |
| `LensXProofs` | its theorems |
| `EventLoop` | the loop and `ringbuf_process_ring` at the granularity of single loads and stores, with several CPUs writing |
| `EventLoopProofs` | its theorems |
| `BoundedRing` | abstract: a bounded queue of records that are filled in out of order and read in order |
| `Hist` | buckets and percentiles |
| `HistProofs` | its theorems |
| `Libbpf` | the library calls of LensX as system calls that succeed or fail |
| `Process` | composition: one run from its arguments to its end, with `Libbpf` and with other runs |
| `ProcessProofs` | its theorems |
| `Lifecycle` | abstract: what a run is to the target (probes attached one by one, a loop, the end) |
| `MC…` | instances for TLC |

`SeqMatcher`, `KeyMatcher` and `Wiring` all use the operators of `Matchers`, so
what is proved and checked of the components is about the same `SeqRecord`,
`KeyRecord` and `Snapshot` the composition runs. `LensX` treats the ring as a bounded
sequence from whose front records are taken one at a time; `EventLoop` justifies
that by implementing `BoundedRing`: the lock-free protocol hands records over
whole, once and in order of reservation.

`LensX` is about events and has the start-up in three actions; `Process` is about
the start-up and the end and has no events. They meet in `Lifecycle`: the three
actions of `LensX` are those of `Lifecycle` as they stand, and `Process` implements it,
so what `LensX` takes attaching to be is what `main()` and libbpf do, failures included.

### How the state corresponds to the code

* A stage mask (`uint64_t`) is the set of its stages. `filled_mask` is `filled`,
  `Record::ts` a function on the matcher's stages. An event's timestamp stands
  for the event.
* `pending_` is a sequence of complete groups; the code stores the deltas of all
  pairs of a group at once, which `Deltas` computes from the group. A delta's
  `latency` is `Elapsed`, modulo 2^64 (`Word` bits) as in the code.
* Operators and variables with a trailing underscore have the name of the member
  they model. `drained`, `notified`, `seen`, `keyOf`, `pushed`, `owner`, `lost` and
  `recorded` are histories that no guard reads, except those that bound the run.
* `head_` and `tail_` are `int`: `Wrap` is two's complement, `Cell` is C's
  remainder, a cell outside the array loses a write and yields any value.
  `queue_` starts with any content, as `new uint64_t[n]` does.
* `Wiring` folds the callbacks of one completed group into one operator
  (`OnComplete`): they run on the reader's thread and nothing happens in
  between. `HandleRingEvent` feeds the matchers in the order of the file. It assumes the reports between two seq matchers have distinct names,
  as do the fifo matchers.
* `SeqOrder` is the order in which `main()` iterates over `seq_map`, an
  unordered map; the instances use the order opposite to the file's.
* In `LensX` an event whose probe is not (yet) attached, or that finds the ring
  full, is in `lost`. A BPF program is two steps, the timestamp and the output:
  events of different threads may be in the ring out of the order of their
  timestamps. `links` has the numbers of the probes that are attached. A thread goes on only after its program, and the target uses a key
  again only after the request that had it has left.
* In `Libbpf` and `Process` a descriptor is a number, the lowest free one, and `fd`
  has the members and locals that hold one (`efile.fd`, `btf->fd`, `map->fd`,
  `prog->fd`, `perf_event_fd`, `link->fd`, `epoll_fd`, `csv_file`); without perf links
  `link->fd` and `perf_event_fd` are one number. `kernel` is what the kernel supports: a
  PMU for probes or tracefs events (`legacy`), perf links or an ioctl. `pc` has the
  labels of the code, each action is one system call or command with what
  follows up to the next. Each has its failing twin or, where the code goes on
  regardless (`RemoveEvent`), a failing outcome; `stuck` remembers the events whose removal
  failed. `close`, `munmap` and `unlink` are taken to succeed. `tries` counts the attempts with
  a log, each twice as large as the one before.
* A configuration in `Process` is what the checks of `parse_config` see of it: which
  fields are there and of which type the probes are.
* `/tmp/vmlinux.h` is the set `header` of what there is of it: its name, its front and its
  back. `cp` truncates it and writes front and back, and may be cut short before either.
  The other runs do the same (`OtherRun`) at any time before this run has compiled; each
  goes on where its own copy is, whoever has truncated the file meanwhile. `newest` and
  `cut` are histories.
* The event loop of `Process` has records only as far as `ring_buffer__poll` is concerned:
  it does not return while there are any, also when `exiting` is set.

External, modelled from how LensX uses them: the target's threads and channels,
the kernel's side of the ring (`Reserve`, `Commit`), the order in which
events arrive, descriptors, tracefs, the end of a process, `cp` and `clang`.

## 3. The runs

Deadlock is checked in the runs of the queue and the matchers (where a pop of
an empty queue or a drain is always possible). It is not checked where the
system may stop: after the results, or when the target has no items left.

| Run | Shows | Bounds, and why they are enough |
|---|---|---|
| `fifo_queue` | types, `WindowFits`, refinement of `DropOldestQueue` | 3 cells, 3 timestamps, 8 pushes: the array is gone round more than twice, with overflows and pops at every offset. The theorems cover every size. |
| `seq_matcher` | types, `FirstIsEarliest`, `GroupsDoNotOverlap`, `DrainedOnce`, refinement of `StageGroups` | two threads, 3 slots, 2 of 3 stages, 6 timestamps: three groups of a thread, or fewer with passes cut short, repeated and foreign stages, interleaved with another thread's. The theorems cover every size. |
| `key_matcher` | types, `RecordsInFlight`, `GroupsAreOfOneRequest`, refinement | two keys (symmetric), two threads, 5 events: both requests complete, or one completes twice, with an event to spare. The theorems cover every size. |
| `lensx_pipeline` | `PairsSameItem`, `QuietFifosEmpty`, `EveryItemReported` | 3 items, 2 threads, queues of two entries: two items are in a queue at once, a third overflows it, and it recovers. States after a lost event are not explored: the three properties assume there was none. The theorems cover every pipeline. |
| `lensx_losses` | types, `CountedOnce`, `ExitFinishes` | 2 items, ring of 2 events, probes that attach late, fail or abort: events are lost at every stage. The theorems cover types and `CountedOnce` for every configuration. |
| `lensx_requests` | `KeyRowsSameItem`, `LossStaysWithKey`, `CountedOnce`, `EveryItemReported` | 3 requests, the third with the key of the first, through 2 threads that overtake, ring of 3: a key is used again after its request completed, and after it lost an event while another key did not. The theorems cover the four for every configuration and target that keep to the conditions of section 4. |
| `event_loop` | types, `RecordIntact`, refinement of `BoundedRing`, `EventsAreRead`, `ExitsWhenQuiet` | 2 CPUs, ring of 3 records, positions modulo 6, unbounded in time: two records in flight and a third committed behind them. Positions modulo twice the size tell a full ring from an empty one. The theorems cover every size and number of CPUs. |
| `hist` | types, `PctIsOfTheSample`, `PctAscending` | 4 buckets, 6-bit values, 11 samples of 6 values: zero, both ends of a bucket, values beyond the last; 10 and more samples make P90 differ from P99. The theorems cover every number of buckets, samples and bits. |
| `process` | types, `FdsHeld`, `ClosesOwn`, `EventsAreLinks`, `CleanReturn`, `HeaderMended`, refinement of `Lifecycle`, `StartsOrEnds`, `StopsWhenTold` | 7 configurations with up to 3 probes, one of each type, and one for each check that refuses; 4 kinds of kernel; descriptors up to 15, as many as a run can hold at once; numbers that are closed are used again; 2 doublings of the log. Every system call fails at every place, for the first, a middle and the last probe. Two other runs may copy the header again and again until this one has compiled: the file is truncated while two older copies are still being written, and each of the three may be the last, the first to end or cut short. From then on no step or property reads more of the header than that it exists, so TLC tells states apart by `MCView`, which forgets the rest of it. The theorems cover every number of probes, descriptors and other runs. |

Every property of these runs has a mutant, a plausible slip in the definition it
depends on, under which TLC finds it violated (`PROJECT.json`, "mutants"; the
mutated forms stand just before the definitions they replace).

### Where the code and what is said of it disagree

These runs end in a counterexample; the findings in `PROJECT.json` quote both
sides.

| Run | What TLC shows |
|---|---|
| `lensx_pairing` | an item that passes the first thread before its probes are attached is not pushed; seen again in the second thread, it pops the entry of the item behind it |
| `lensx_drain` | samples of seq matchers are counted by the callback and again by the drain |
| `hist_single` | all percentiles of a single sample are those of bucket 0 |

Others follow from a line or two and have no run. Some mark the limits of what is
proved and checked here:

* After 2^31 pushes `tail_` is negative and `pop` finds nothing
  (`src/matcher.cpp:123-134`); hence `MaxPush <= IntMax` in the theorems on `FifoQueue`.
  With `IntMax = 4` and `MaxPush = 8` TLC finds `AbsSpec` violated.
* Threads whose tids are equal modulo 65536 share a record and complete groups
  together, `slot.tid` is never compared (`src/matcher.h:69`); hence `NoCollision`.
* A group collected in the order 0, 2, 1 is complete, and its latency from 1 to 2 is
  nearly 2^64 (`src/matcher.cpp:32-41`); only latencies from the first stage are safe
  (`FirstIsEarliest`). `README.md:57` speaks of pairing in order of arrival.
* All deltas of a key matcher carry the tid of the first stage's thread
  (`src/matcher.cpp:95`); `src/matcher.h:16` says the thread of the from event.
* A fifo matcher whose id is not the name of the report is built and never
  connected, its `queue_size` ignored (`src/lensx.cpp:297`), as for `ring_queue` and the
  report `ring` in `config_full.yaml`.
* `exiting` is tested only between two calls of `ring_buffer__poll`, which goes on as long
  as it finds records (`libbpf/src/ringbuf.c:215-243`): a target that writes one during
  every callback keeps Ctrl+C from being noticed. Hence the premise of
  `ExitsWhenQuiet` and of `StopsWhenTold`; without it TLC finds a loop.
* A key used again after a lost event continues the old record: its samples mix two
  requests (`src/matcher.cpp:85-89`). `LossStaysWithKey` says that no other key is harmed.
* Every early return of `main()` after the compilation, and a signal before the
  handlers are installed, leave the generated `.c` and `.o` in `/tmp`
  (`src/lensx.cpp:182-188`), and on kernels without a probe PMU the events of the probes
  attached so far in tracefs. `CleanReturn` is about the normal end only.
* No end of a run removes its copy `/tmp/vmlinux.h` (`src/bpf_gen.cpp:95-98`); `CleanReturn` says
  that it is the one file left. A run that compiles while another one copies may find half of
  it; `HeaderMended` says how long that lasts.
* Nobody looks at whether the removal of an event from tracefs succeeded
  (`libbpf/src/libbpf.c:9676-9682, 10010`); one that failed stays, and `CleanReturn` and
  `EventsAreLinks` except these.
* If `elf_begin` fails, `bpf_object__elf_finish` returns before it closes the file
  (`libbpf/src/libbpf.c:1294, 1337`); the descriptor is open until the process ends,
  which is at once. `FdsHeld` excepts this descriptor, at the label `refused` only; on every
  other path to a `return 1` it holds without exception.
* A kretprobe without a symbol passes the checks (`src/config.cpp:75`) and fails to
  attach; a type nobody knows gets a program and no link.
* `mkstemp` is unchecked, and its file is removed before its name is used
  (`src/lensx.cpp:168-172`); the result of `cp` is ignored (`src/bpf_gen.cpp:98`).
* `--csv` is in the usage text (`src/lensx.cpp:138`) and is not parsed; the CSV file has
  no key.
* `resolve_sym` takes the first symbol that contains the name (`src/lensx.cpp:40`), where
  its comment says exact (`src/lensx.cpp:30`).

### Fairness

* `LensX`: weak fairness of `MainStep`. `main()` is one thread that does not wait
  for anything but the ring buffer, with a time limit. The target and the
  user's signal are not fair: items may stop coming and Ctrl+C may never come.
* `EventLoop`: weak fairness of the reader's steps, for the same reason, and of
  each `Commit(c)`: `bpf_ringbuf_output` reserves, copies and commits in the kernel, in one
  call. Probes need never fire. `ExitsWhenQuiet` assumes in its statement that the
  target eventually stops passing probes; without that it is false (section 3).
* `Process`: weak fairness of `MainStep`. `main()` and the library are one thread, and the
  commands it waits for (`cp`, `clang`) are taken to end. Signals, other runs and the
  target are not fair. `ring_buffer__poll` need not return: `StopsWhenTold` assumes in its
  statement that from some time on no more records come. A choice between success and failure is not fair either: `StartsOrEnds`
  holds because every retry is bounded.

## 4. The proofs

All theorems are checked by TLAPS with its SMT, Zenon and PTL backends. They
hold for every value of the constants the ASSUMEs of the modules admit.

**FifoQueue.** `FifoTypeCorrect`, `FifoWindowFits`, `FifoRefines`, each under the
hypothesis that an int can count the pushes (`MaxPush <= IntMax`), without which
they are false (section 3). `WindowFits` alone is not inductive, because a wrapped
counter breaks it; the invariant `FifoInv` adds the types and `tail_ = pushed`, from
which no counter ever wraps and every `Wrap` is the identity. For the
refinement, the abstract queue is the cells from `head_` to `tail_`. The heart of
it is `ModDistinct`: counters less than `Capacity` apart select different cells, so
a push overwrites no entry that remains in the window.

**SeqMatcher.** `SeqTypeCorrect` needs `SlotsSound`: a stage marked as filled has the
timestamp of an event, and a record whose first stage is filled has the tid of
a thread. A complete record has all stages filled, hence also the first one
(`FirstStageIsSmallest`, which rests on the existence of a least element), so no
snapshot contains the zeros the table started with. It holds even if threads
collide. `SeqFirstIsEarliest`, `SeqGroupsDoNotOverlap` and `SeqRefines` hold if they do
not (`NoCollision`). Neither is inductive: the order within a group is settled while
it is still a record. Their invariant `ThreadInv` adds, for every thread, that nothing
in its record is later than its clock, and that a record with the first stage
filled has the thread's own tid and the first stage as its earliest
(`RecordsOrdered`); and that its groups are not later than its clock and lie before
whatever its record holds (`GroupsBefore`). For `SeqDrainedOnce` the types are enough:
the concatenation of `drained` and `pending_` changes only as `notified` does.

**Matchers.** `SmallestExists` and `FirstStageIsSmallest`.

**KeyMatcher.** `KeyTypeCorrect`, `KeyGroupsOfOneRequest`, `KeyRecordsInFlight` and
`KeyRefines`, without a hypothesis. What a group holds was settled while it was a
record, and what a record holds is settled by what its key's groups have taken: the
invariant `KeyInv` adds that a record has some but not all stages, each with an event
of its key and stage (`RecordsSound`), the same of groups (`GroupsSound`), that a
record's events came after the groups of its key (`RecordsAfter`), and that an event
after them is in the record (`NothingForgotten`), which is what the statement about
requests in flight needs.

**EventLoop.** `RingTypeCorrect`, `RingRecordIntact` and `RingRefines`, for every size, every
number of CPUs and positions that wrap at any multiple of the size. `RecordIntact` speaks
of the moment of the callback; `RingInv` says that records in the ring that are not
busy have their content (`Committed`), that no two CPUs have reserved one record
(`WritersApart`), and that the reader's copies of the two positions, which are old when
it uses them, are still between the shared ones (`ReaderWithin`). The arithmetic is in a few
lemmas about remainders: `Distance` between positions, and that positions less than
`Size` apart have different places.

**Process.** `ProcessTypeCorrect`, `ProcessFdsHeld`, `ProcessClosesOwn`, `ProcessEventsAreLinks`,
`ProcessCleanReturn`, `ProcessHeaderMended` and `ProcessRefines`, for every number of probes and
descriptors, any set of configurations and any number of other runs. The properties speak of a few labels, the
invariant of all: at which label each member may hold a descriptor (`SinglesAt`,
`ProgramsAt`, `LinksAt`, `LinksHold`), where the loops over programs and probes are
(`Control`), and that the events in tracefs are those of the links, of the probe
that is half-way, and those whose removal failed (`EventsAt`). The normal end is clean
because no label after `fclose` is one at which anything may be held. `HeaderMended` is not
inductive: whether the file is whole is settled before the last copy ends. `HeaderAt` adds
that whatever the copy that truncated last has written so far is still there, whichever
older copies write in between.

**Hist.** `HistTypeCorrect`, `HistPctIsOfTheSample` and `HistPctAscending`, for every width, number of
buckets and number of samples, without a hypothesis. The code sees buckets only; `recorded`
remembers the samples themselves, and `AtMost(v)` counts those up to v. The invariant
`HistInv` ties the two together: what `print()` has summed up after bucket i is the number
of samples up to the last value of bucket i (`SumsAgree`), and the last sum is `count`
(`AllCounted`). A percentile stops at the first bucket whose sum reaches the target; the
sample it is about is the first value whose `AtMost` does; so one lies in the other. The
loop always stops, and the `return 0` behind it is never taken (`PctBucketIs`). Powers of
two and sums are recursive functions; that they exist and ascend is shown along a
smallest counterexample.

**LensX.** `LensXTypeCorrect`, `LensXKeyRowsSameItem`, `LensXLossStaysWithKey`, `LensXCountedOnce`,
`LensXPairsSameItem`, `LensXQuietFifosEmpty` and `LensXEveryItemReported`, for any
number of items, any size of the ring and every interleaving. Some hold for every
configuration and target, the others for those that satisfy a stated hypothesis.

* The invariant `LensXInv` follows an event from the thread through ring, records,
  groups and queues to the rows: `Sound(st, T, k)` says that all of them hold
  timestamps from T only, the events that have been in the ring, and that what a key
  matcher holds for a key are events with that key. One event goes through all
  matchers; that this preserves `Sound` is an induction along the file
  (`FedSound`), done with a smallest counterexample, since the library's induction
  rules are out of the provers' reach.
* `LensXKeyRowsSameItem` has a hypothesis, `KeyReportsApart`: no seq matcher has both
  stages of a report by request, and no queue has its name. Without it a row of that
  name need not come from a key matcher at all.
* `LensXLossStaysWithKey` also needs `RequestsPassOnce`: requests have keys and pass each
  stage of a key matcher at one place. Its invariant `LossInv` has four parts. The
  threads take items over from each other, and of two items with one key the second
  begins when the first has left (`ChainOK`). Hence the ring has the events of the first
  before those of the second, and no stage of an item twice (`QueueOK`). Hence,
  for a key no event of which was lost, an open record is exactly what its matcher
  has been fed of one item, and everything fed of any other item is a whole group
  (`CleanOK`); so a group that is completed is of one item, and so are the rows drained
  from it. `FedTo` says what has been fed without a history variable: the stages the
  item has passed that are not still in the ring.
* `LensXCountedOnce` holds under `ReportsApart`: no report has two sources. The invariant
  `OnceInv` says that an event is in the ring once, and that a matcher has the timestamp
  of a stage in one record or one group only, and none that is still in the ring
  (`StageApart`). A row of a queue ends with a pending group of the popping matcher, so
  the next group gives another row (`RowsOnce`); in the drain a row of a key matcher comes
  from a single group, and the cardinality that counts it is that of a singleton.
* `LensXPairsSameItem` and `LensXQuietFifosEmpty` hold under `Pipeline`, which spells out what "strictly
  FIFO" has to mean: channels keep the order and no item waits for the key of another; a
  seq matcher has stages of one thread, each at one place, the smallest first; and what
  pops is complete only after what pushes. Their invariant `PairInv` has one part for each
  step of the argument. Every thread has the items in their order (`StrictOK`). Two events
  whose order this determines (`Precedes`) are in the ring in that order, and whatever
  has been read was preceded by nothing that is still in it (`OrderOK`). Hence the n-th group
  of every seq matcher is of the n-th item, and the open record of the one after
  (`SeqOK`). Hence a queue never holds more entries than the pushing matcher has groups more
  than the popping one, exactly these if it never overflowed, and the n-th entry is of
  the item n places after the last popped one (`LineOK`). So every row is of one item; and
  when nothing is under way both matchers have all groups, and the queue is empty, also
  if it has dropped entries. No bound on the queue and no number of items is involved.
* `LensXEveryItemReported` holds if every report is on a queue or on a pair of stages of a
  matcher (`ReportsCovered`), with `Pipeline` if there are seq matchers and `RequestsPassOnce` and
  `KeyReportsApart` if there are key matchers. For queues and seq matchers it follows from
  `PairInv`: an item that went all the way is among the groups, and every group of a
  popping matcher has left a row (`RowsThere`). For key matchers `FullInv` says that an item
  fed with all its stages has a group of its own, for which `CleanOK` is the reason.
* The hypotheses are assumptions of `MCLensX`, so TLC evaluates them for the instances it
  runs. `lensx_pairing` shows what happens without the premise on losses.

What stays with TLC:

* liveness (`ExitFinishes`, `EventsAreRead`, `ExitsWhenQuiet`, `StartsOrEnds`, `StopsWhenTold`), which
  TLAPS does not support.

Every invariant and every refinement the passing runs check is proved. TLC still has its
part in them: it evaluates the assumptions and hypotheses on the instances, checks the
inductive invariants before they are proved, and kills the mutants. What a recursion computes
for every input is proved along smallest counterexamples, where the induction rules of
the library cannot be used.

## 5. Assumptions

* Stages are 0 to 63 and a matcher lists each once; `parse_config` checks neither.
* The capacity of a queue is at least 1 (`QueuesAssumption`): with a `queue_size` of 0 the
  first push divides by zero (`src/matcher.cpp:115`). `parse_config` does not check it.
* The types of the configuration (`MatchersAssumption`, `ReportsAssumption`,
  `ProbesAssumption`, `ConfigsAssumption`) are what `parse_config` leaves in its structs; a
  configuration in `Process` has at most `MaxProbes` probes, a bound of the instance.
* Every thread of the target passes at least one probed place (`LanesAssumption`) and every
  item has a key, 0 if none (`KeyOfAssumption`).
* `None`, for a CPU that has reserved nothing, is no position (`NoneAssumption`).
* What only some theorems on `LensX` assume (`KeyReportsApart`, `RequestsPassOnce`, `ReportsApart`,
  `Pipeline`, `ReportsCovered`) is a hypothesis of each, not an ASSUME of the module.
  `parse_config` enforces none of it, and part of it is about the target: where its threads
  pass the probes and in which order.
* In `LensX` the threads' tids have distinct hashes; `SeqMatcher` covers collisions.
* A thread's own events arrive in the order of their timestamps.
* The kernel does not remove an event from tracefs that something refers to, and probes are
  on distinct functions (`libbpf/src/libbpf.c:10412` names the event of a uprobe after
  its function only).
* Other runs of the tool do not use this run's names in `/tmp`, and copy the same
  `vmlinux.h`; the names of the runs are not the two words the model uses for this one and
  for none (`OtherRunsAssumption`).
* Counts stay within an `int` in `Hist`; only `FifoQueue` models the overflow.

## 6. What is not modelled, and why

* The text of the YAML file, of the generated C source, of `nm` and `grep` output and of
  the printed results: text processing, on which no property here depends.
* The arguments, `pgrep`, `nm` and YAML beyond their outcome, for the same reason.
* The rest of libbpf (linker, BTF dump, USDT, skeletons, netlink, `gen_loader`) and the
  kernel headers beside it: LensX does not call them. They are most of the lines of
  the repository. What it does call is modelled by the system calls that obtain or give back
  something; reading ELF and BTF and CO-RE relocation compute on memory, and to LensX
  they succeed or fail. Feature probes open and close a descriptor within one call.
* Memory: leaks and failing allocations that are not also a failing call.
* The content of the CSV file; rows are the samples.
* Growth of `pending_` without bound.

## 7. Plan and outcome

In this order: queue, matchers, composition, histogram, event loop, proofs of the
queue and of the seq matcher; then start-up and end with libbpf, the two abstract
specifications `Lifecycle` and `BoundedRing`, keys used again, and BPF programs in two steps;
then the proofs of the key matcher, of the event loop, of a run with libbpf, and of the
composition (types, requests); last the histogram, `CountedOnce` and the pairing
of items (`PairsSameItem`, `QuietFifosEmpty`, `EveryItemReported`).

Open, for whoever goes on:

1. A weaker `Pipeline`: seq matchers over several threads are possible in the code, and are
   covered by `SeqMatcher` alone.
2. The premise of the pairing theorems is that nothing was lost at all. A loss before the
   first push of a queue, while probes are attached, is what users meet most; how far the
   damage reaches is known from `lensx_pairing` only.
3. `LensX` takes the ring as a bounded sequence and `EventLoop` shows it to be one; a single
   specification with both would make that step formal.
