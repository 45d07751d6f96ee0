------------------------------- MODULE Libbpf -------------------------------
(***************************************************************************)
(* The calls LensX makes to the vendored libbpf between bpf_object__open   *)
(* and bpf_object__close, as the system calls that obtain or give back     *)
(* something: file descriptors, mapped pages, and the events that kernels  *)
(* without a kprobe and uprobe PMU keep in tracefs.  Any of them may fail. *)
(*                                                                         *)
(* A call of the library is a run of steps that ends where pc is a label   *)
(* of main() (module Process).  Descriptors are numbers, the lowest free   *)
(* one first, so that a number closed twice may by then be another's.      *)
(* Memory, ELF and BTF are left out, and so are calls whose effects cancel *)
(* within one step: feature probes, files of sysfs and tracefs read.       *)
(***************************************************************************)
EXTENDS Integers, Sequences, FiniteSets

CONSTANTS
  MaxFd,        \* the highest descriptor of the process
  MaxProbes,    \* bound: the number of probes of a configuration
  Doublings     \* how often the verifier's log may be made larger

ASSUME FdAssumption       == MaxFd \in Nat /\ MaxFd >= 3
ASSUME ProbesAssumption   == MaxProbes \in Nat
ASSUME DoublingAssumption == Doublings \in Nat \ {0}

VARIABLES
  pc,           \* where the process is, in main() or in the library
  i,            \* the program or probe a loop is at
  kernel,       \* what the kernel supports: [legacy, perf_link]
  probes,       \* cfg.probes; one BPF program each
  open,         \* descriptor -> what it was opened as
  fd,           \* the variables and members that hold a descriptor, or -1
  mapped,       \* the pages of the ring buffer that are mapped
  events,       \* the probes that have an event in tracefs
  stuck,        \* history: those of them whose last removal failed
  tries,        \* attempts at loading made with a log
  misclosed     \* history: a close of something not open, or not one's own

resources == <<open, fd, misclosed>>
tracefs   == <<events, stuck>>
libVars   == <<pc, i, kernel, probes, resources, mapped, tracefs, tries>>

Indices   == 1 .. MaxProbes
FdNumbers == 3 .. MaxFd
Free      == <<"free", 0>>

\* Who may hold a descriptor: members of bpf_object, bpf_program, bpf_link_perf
\* and ring_buffer, locals, csv_file.
Single(what) == <<what, 0>>
Holders == (({"tmp", "elf", "btf", "map", "epoll", "csv"}) \X {0})
           \cup ({"prog", "pfd", "link"} \X Indices)

Supported(p) == p.type \in {"uprobe", "kprobe", "kretprobe", "tracepoint"}

\* The probes whose event has to be made in tracefs.
NeedsEvent(k) == kernel.legacy /\ probes[k].type # "tracepoint"

LibInit ==
  /\ i = 1
  /\ kernel \in [legacy : BOOLEAN, perf_link : BOOLEAN]
  /\ open = [n \in FdNumbers |-> Free]
  /\ fd = [h \in Holders |-> -1]
  /\ mapped = {}
  /\ events = {}
  /\ stuck = {}
  /\ tries = 0
  /\ misclosed = FALSE
-----------------------------------------------------------------------------
(***************************************************************************)
(* The kernel.                                                             *)
(***************************************************************************)
FreeFds == {n \in FdNumbers : open[n] = Free}

\* Holder h gets the lowest free descriptor.
Obtain(h) ==
  \E n \in FreeFds :
    /\ \A m \in FreeFds : n <= m
    /\ open' = [open EXCEPT ![n] = h]
    /\ fd' = [fd EXCEPT ![h] = n]
    /\ UNCHANGED misclosed

\* The descriptors of the holders in closed are closed; those in gone hold
\* nothing any more.
Close(closed, gone) ==
  LET numbers == {fd[h] : h \in closed} \ {-1}
  IN  /\ open' = [n \in FdNumbers |-> IF n \in numbers THEN Free ELSE open[n]]
      /\ fd' = [h \in Holders |-> IF h \in closed \cup gone THEN -1 ELSE fd[h]]
      /\ misclosed' = (misclosed \/ \E h \in closed :
           /\ fd[h] # -1
           /\ \/ open[fd[h]] = Free
              \/ \E k \in closed \ {h} : fd[k] = fd[h])

\* A perf event of probe k exists as long as a descriptor refers to it.
EventBusy(k) == \E n \in FdNumbers : open[n] \in {<<"pfd", k>>, <<"link", k>>}

\* remove_kprobe_event_legacy and remove_uprobe_event_legacy: the kernel does
\* not remove an event that is in use.  Nobody looks at the result.
RemoveEvent(k) ==
  \/ /\ events' = IF EventBusy(k) THEN events ELSE events \ {k}
     /\ stuck' = stuck \cap events'
  \/ /\ events' = events
     /\ stuck' = stuck \cup (events \cap {k})
-----------------------------------------------------------------------------
(***************************************************************************)
(* bpf_object__open                                                        *)
(***************************************************************************)
OpenElf ==
  /\ pc = "open"
  /\ Obtain(Single("elf"))
  /\ pc' = "parse"
  /\ UNCHANGED <<i, kernel, probes, mapped, tracefs, tries>>

OpenElfFails ==
  /\ pc = "open"
  /\ pc' = "return1"
  /\ UNCHANGED <<i, kernel, probes, resources, mapped, tracefs, tries>>

\* The object is read and bpf_object__elf_finish closes the file.
Parse ==
  /\ pc = "parse"
  /\ Close({Single("elf")}, {})
  /\ pc' = "load"
  /\ UNCHANGED <<i, kernel, probes, mapped, tracefs, tries>>

\* bpf_object__close on an object that could not be read closes the file too
ParseFails ==
  /\ pc = "parse"
  /\ Close({Single("elf")}, {})
  /\ pc' = "return1"
  /\ UNCHANGED <<i, kernel, probes, mapped, tracefs, tries>>

\* elf_begin fails: bpf_object__elf_finish returns before its zclose, and the
\* object that holds the descriptor is freed.  main() returns as above.
ElfBeginFails ==
  /\ pc = "parse"
  /\ Close({}, {Single("elf")})
  /\ pc' = "refused"
  /\ UNCHANGED <<i, kernel, probes, mapped, tracefs, tries>>
-----------------------------------------------------------------------------
(***************************************************************************)
(* bpf_object__load                                                        *)
(***************************************************************************)
\* A trivial program is loaded; the call ends in its close.
ProbeLoading ==
  /\ pc = "load"
  /\ Obtain(Single("tmp"))
  /\ pc' = "probe_close"
  /\ UNCHANGED <<i, kernel, probes, mapped, tracefs, tries>>

ProbeClose ==
  /\ pc = "probe_close"
  /\ Close({Single("tmp")}, {})
  /\ pc' = "btf"
  /\ tries' = 0
  /\ UNCHANGED <<i, kernel, probes, mapped, tracefs>>

\* A step before the maps fails: the trivial program, or the kernel's BTF.
LoadFailsEarly ==
  /\ pc = "load" \/ (pc = "btf" /\ tries = 0)
  /\ pc' = "unload"
  /\ UNCHANGED <<i, kernel, probes, resources, mapped, tracefs, tries>>

LoadBtf ==
  /\ pc = "btf"
  /\ Obtain(Single("btf"))
  /\ pc' = "map"
  /\ UNCHANGED <<i, kernel, probes, mapped, tracefs, tries>>

\* BTF is not supported, or given up: it is optional.
LoadBtfFails ==
  /\ pc = "btf"
  /\ pc' = "map"
  /\ UNCHANGED <<i, kernel, probes, resources, mapped, tracefs, tries>>

CreateMap ==
  /\ pc = "map"
  /\ Obtain(Single("map"))
  /\ pc' = "relocate"
  /\ UNCHANGED <<i, kernel, probes, mapped, tracefs, tries>>

Relocate ==
  /\ pc = "relocate"
  /\ pc' = "prog"
  /\ i' = 1
  /\ tries' = 0
  /\ UNCHANGED <<kernel, probes, resources, mapped, tracefs>>

CreateMapOrRelocateFails ==
  /\ pc \in {"map", "relocate"}
  /\ pc' = "unload"
  /\ UNCHANGED <<i, kernel, probes, resources, mapped, tracefs, tries>>

LoadProg ==
  /\ pc = "prog"
  /\ i <= Len(probes)
  /\ Obtain(<<"prog", i>>)
  /\ i' = i + 1
  /\ tries' = 0
  /\ UNCHANGED <<pc, kernel, probes, mapped, tracefs>>

\* Mutant: the size of the log is not limited.
MayTryAgainAlways == TRUE

\* log_level is 0, or the log may still be doubled.
MayTryAgain == tries <= Doublings

\* Mutant: the size overflows, and is small again.
LogSizeWraps == IF tries = Doublings THEN 1 ELSE tries + 1

\* log_buf_size * 2, counted in doublings
LogSize == tries + 1

\* The program, or the BTF, is refused: again with a log, and with a larger one.
TryAgain ==
  /\ pc = "btf" \/ (pc = "prog" /\ i <= Len(probes))
  /\ MayTryAgain
  /\ tries' = LogSize
  /\ UNCHANGED <<pc, i, kernel, probes, resources, mapped, tracefs>>

LoadProgFails ==
  /\ pc = "prog"
  /\ i <= Len(probes)
  /\ tries > 0
  /\ pc' = "unload"
  /\ UNCHANGED <<i, kernel, probes, resources, mapped, tracefs, tries>>

\* All programs are loaded: back in main(), which finds the map "rb".
LoadEnds ==
  /\ pc = "prog"
  /\ i > Len(probes)
  /\ pc' = "attach"
  /\ i' = 1
  /\ UNCHANGED <<kernel, probes, resources, mapped, tracefs, tries>>

Programs == {<<"prog", k>> : k \in Indices}

\* bpf_object_unload after a failure; main() returns.
Unload ==
  /\ pc = "unload"
  /\ Close({Single("map")} \cup Programs, {})
  /\ pc' = "return1"
  /\ UNCHANGED <<i, kernel, probes, mapped, tracefs, tries>>
-----------------------------------------------------------------------------
(***************************************************************************)
(* bpf_program__attach_uprobe, _kprobe and _tracepoint                     *)
(***************************************************************************)
AddEvent ==
  /\ pc = "add_event"
  /\ events' = events \cup {i}
  /\ pc' = "event_id"
  /\ UNCHANGED <<i, kernel, probes, resources, mapped, stuck, tries>>

AddEventFails ==
  /\ pc = "add_event"
  /\ pc' = "no_link"
  /\ UNCHANGED <<i, kernel, probes, resources, mapped, tracefs, tries>>

EventId ==
  /\ pc = "event_id"
  /\ pc' = "perf_open"
  /\ UNCHANGED <<i, kernel, probes, resources, mapped, tracefs, tries>>

\* Mutant: no way back once the event is added.
EventIdFailsLeaves ==
  /\ pc = "event_id"
  /\ pc' = "no_link"
  /\ UNCHANGED <<i, kernel, probes, resources, mapped, tracefs, tries>>

\* err_clean_legacy of perf_event_kprobe_open_legacy and its uprobe twin
EventIdFails ==
  /\ pc = "event_id"
  /\ RemoveEvent(i)
  /\ pc' = "no_link"
  /\ UNCHANGED <<i, kernel, probes, resources, mapped, tries>>

\* perf_event_open; a kretprobe may have come without a symbol.
PerfOpen ==
  /\ pc = "perf_open"
  /\ probes[i].type = "tracepoint" \/ probes[i].symbol
  /\ Obtain(<<"pfd", i>>)
  /\ pc' = "link"
  /\ UNCHANGED <<i, kernel, probes, mapped, tracefs, tries>>

PerfOpenFails ==
  /\ pc = "perf_open"
  /\ RemoveEvent(i)
  /\ pc' = "no_link"
  /\ UNCHANGED <<i, kernel, probes, resources, mapped, tries>>

\* bpf_link_create
LinkCreate ==
  /\ pc = "link"
  /\ kernel.perf_link
  /\ Obtain(<<"link", i>>)
  /\ pc' = "enable"
  /\ UNCHANGED <<i, kernel, probes, mapped, tracefs, tries>>

\* PERF_EVENT_IOC_SET_BPF: the link's descriptor is the perf event's.
SetBpf ==
  /\ pc = "link"
  /\ ~ kernel.perf_link
  /\ fd' = [fd EXCEPT ![<<"link", i>>] = fd[<<"pfd", i>>]]
  /\ pc' = "enable"
  /\ UNCHANGED <<i, kernel, probes, open, misclosed, mapped, tracefs, tries>>

LinkFails ==
  /\ pc = "link"
  /\ pc' = "close_pfd"
  /\ UNCHANGED <<i, kernel, probes, resources, mapped, tracefs, tries>>

\* PERF_EVENT_IOC_ENABLE
Enable ==
  /\ pc = "enable"
  /\ pc' = "linked"
  /\ UNCHANGED <<i, kernel, probes, resources, mapped, tracefs, tries>>

\* err_out of bpf_program__attach_perf_event_opts: link_fd is set only where a
\* link was created.
EnableFails ==
  /\ pc = "enable"
  /\ Close(IF kernel.perf_link THEN {<<"link", i>>} ELSE {}, {<<"link", i>>})
  /\ pc' = "close_pfd"
  /\ UNCHANGED <<i, kernel, probes, mapped, tracefs, tries>>

\* close(pfd) in the caller
ClosePfd ==
  /\ pc = "close_pfd"
  /\ Close({<<"pfd", i>>}, {})
  /\ pc' = "clean_legacy"
  /\ UNCHANGED <<i, kernel, probes, mapped, tracefs, tries>>

\* err_clean_legacy of the caller
CleanLegacy ==
  /\ pc = "clean_legacy"
  /\ RemoveEvent(i)
  /\ pc' = "no_link"
  /\ UNCHANGED <<i, kernel, probes, resources, mapped, tries>>
-----------------------------------------------------------------------------
(***************************************************************************)
(* ring_buffer__new and ring_buffer__free                                  *)
(***************************************************************************)
EpollCreate ==
  /\ pc = "ring_new"
  /\ Obtain(Single("epoll"))
  /\ pc' = "map_consumer"
  /\ UNCHANGED <<i, kernel, probes, mapped, tracefs, tries>>

\* mmap of the consumer's page
MapConsumer ==
  /\ pc = "map_consumer"
  /\ mapped' = {"consumer"}
  /\ pc' = "map_producer"
  /\ UNCHANGED <<i, kernel, probes, resources, tracefs, tries>>

\* mmap of the producer's page and the data
MapProducer ==
  /\ pc = "map_producer"
  /\ mapped' = mapped \cup {"producer"}
  /\ pc' = "epoll_add"
  /\ UNCHANGED <<i, kernel, probes, resources, tracefs, tries>>

EpollAdd ==
  /\ pc = "epoll_add"
  /\ pc' = "loop"
  /\ UNCHANGED <<i, kernel, probes, resources, mapped, tracefs, tries>>

\* Mutant: the ring buffer is freed, its epoll descriptor is not closed.
RingFailsForgets ==
  /\ pc \in {"ring_new", "map_consumer", "map_producer", "epoll_add"}
  /\ mapped' = {}
  /\ Close({}, {Single("epoll")})
  /\ pc' = "return1"
  /\ UNCHANGED <<i, kernel, probes, tracefs, tries>>

\* Any of these fails: ringbuf_unmap_ring, ring_buffer__free, NULL.
RingFails ==
  /\ pc \in {"ring_new", "map_consumer", "map_producer", "epoll_add"}
  /\ mapped' = {}
  /\ Close({Single("epoll")}, {})
  /\ pc' = "return1"
  /\ UNCHANGED <<i, kernel, probes, tracefs, tries>>

RingFree ==
  /\ pc = "ring_free"
  /\ mapped' = {}
  /\ Close({Single("epoll")}, {})
  /\ pc' = "destroy"
  /\ i' = 1
  /\ UNCHANGED <<kernel, probes, tracefs, tries>>
-----------------------------------------------------------------------------
(***************************************************************************)
(* bpf_link__destroy and bpf_object__close                                 *)
(***************************************************************************)
LinkFds(k) == {<<"pfd", k>>, <<"link", k>>}

\* Mutant: both descriptors are closed even if they are one.
DetachClosesBoth(k) == LinkFds(k)

\* if (perf_event_fd != link->fd) close(perf_event_fd); close(link->fd)
DetachCloses(k) ==
  IF fd[<<"pfd", k>>] # fd[<<"link", k>>] THEN LinkFds(k) ELSE {<<"link", k>>}

\* Mutant: the event is removed first.
DetachRemovesFirst ==
  /\ pc = "destroy"
  /\ i <= Len(probes)
  /\ fd[<<"link", i>>] # -1
  /\ RemoveEvent(i)
  /\ Close(DetachCloses(i), LinkFds(i))
  /\ i' = i + 1
  /\ UNCHANGED <<pc, kernel, probes, mapped, tries>>

\* bpf_link_perf_detach: the descriptors, then the event
Detach ==
  /\ pc = "destroy"
  /\ i <= Len(probes)
  /\ fd[<<"link", i>>] # -1
  /\ Close(DetachCloses(i), LinkFds(i))
  /\ pc' = "remove_event"
  /\ UNCHANGED <<i, kernel, probes, mapped, tracefs, tries>>

RemoveLegacy ==
  /\ pc = "remove_event"
  /\ RemoveEvent(i)
  /\ pc' = "destroy"
  /\ i' = i + 1
  /\ UNCHANGED <<kernel, probes, resources, mapped, tries>>

\* A probe that has no link is not in main()'s list.
DetachNothing ==
  /\ pc = "destroy"
  /\ i <= Len(probes)
  /\ fd[<<"link", i>>] = -1
  /\ i' = i + 1
  /\ UNCHANGED <<pc, kernel, probes, resources, mapped, tracefs, tries>>

\* bpf_object_unload, btf__free, bpf_map__destroy, bpf_program__exit
ObjectClose ==
  /\ pc = "destroy"
  /\ i > Len(probes)
  /\ Close({Single("map"), Single("btf")} \cup Programs, {})
  /\ pc' = "unlink_c"
  /\ UNCHANGED <<i, kernel, probes, mapped, tracefs, tries>>

LibStep ==
  \/ OpenElf \/ OpenElfFails \/ Parse \/ ParseFails \/ ElfBeginFails
  \/ ProbeLoading \/ ProbeClose \/ LoadFailsEarly \/ LoadBtf \/ LoadBtfFails
  \/ CreateMap \/ Relocate \/ CreateMapOrRelocateFails
  \/ LoadProg \/ TryAgain \/ LoadProgFails \/ LoadEnds \/ Unload
  \/ AddEvent \/ AddEventFails \/ EventId \/ EventIdFails
  \/ PerfOpen \/ PerfOpenFails \/ LinkCreate \/ SetBpf \/ LinkFails
  \/ Enable \/ EnableFails \/ ClosePfd \/ CleanLegacy
  \/ EpollCreate \/ MapConsumer \/ MapProducer \/ EpollAdd \/ RingFails \/ RingFree
  \/ Detach \/ RemoveLegacy \/ DetachNothing \/ ObjectClose
=============================================================================
