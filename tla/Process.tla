------------------------------ MODULE Process ------------------------------
(***************************************************************************)
(* One run of the tool from its arguments to its end: main()               *)
(* (src/lensx.cpp) with parse_config (src/config.cpp), generate_bpf_source *)
(* and compile_bpf (src/bpf_gen.cpp), and the library calls of module      *)
(* Libbpf.  It is about what the run leaves behind and about the early     *)
(* ends; what happens to events is the subject of LensX and EventLoop.     *)
(*                                                                         *)
(* Other runs of the tool are an environment that may at any time copy     *)
(* vmlinux.h to the place all runs share; the target is one that may keep  *)
(* the event loop busy.                                                    *)
(***************************************************************************)
EXTENDS Libbpf

CONSTANTS
  Configs,    \* the configurations a run may be started with
  OtherRuns   \* runs of the tool beside this one

ASSUME ConfigsAssumption ==
  \A c \in Configs :
    c.probes \in Seq([name : BOOLEAN, stage : BOOLEAN, type : STRING,
                     symbol : BOOLEAN, event : BOOLEAN])
    /\ Len(c.probes) <= MaxProbes
ASSUME OtherRunsAssumption == {"this", "nobody"} \cap OtherRuns = {}

VARIABLES
  cfg,           \* the YAML file
  override_pid,  \* was --pid given?
  files,         \* the files of this run in /tmp: "base", "c", "o"
  vmlinux_src,   \* is there a vmlinux.h to copy?
  header,        \* what there is of /tmp/vmlinux.h: its name and its parts
  copying,       \* the part each other run copies next, or "none"
  newest,        \* history: who truncated it last
  cut,           \* history: the runs whose last copy was cut short
  handling,      \* the signal handlers are installed
  exiting,       \* set by sig_handler
  records        \* are there records in the ring buffer?

headerVars == <<vmlinux_src, header, copying, newest, cut>>
loopVars   == <<handling, exiting, records>>
mainVars   == <<cfg, override_pid, files, headerVars, loopVars>>
vars       == <<libVars, mainVars>>

Ended == {"ended0", "ended1"}

Runs  == OtherRuns \cup {"this"}
Whole == {"name", "front", "back"}

Init ==
  /\ LibInit
  /\ pc = "args"
  /\ probes = <<>>
  /\ cfg \in Configs
  /\ override_pid \in BOOLEAN
  /\ files = {}
  /\ vmlinux_src \in BOOLEAN
  /\ header \in {{}, {"name"}, {"name", "front"}, Whole}
  /\ copying = [r \in OtherRuns |-> "none"]
  /\ newest = "nobody"
  /\ cut = {}
  /\ handling = FALSE
  /\ exiting = FALSE
  /\ records = FALSE
-----------------------------------------------------------------------------
(***************************************************************************)
(* Arguments, configuration, PID.                                          *)
(***************************************************************************)
\* A step of main() that only moves on.
Goto(from, to) ==
  /\ pc = from
  /\ pc' = to
  /\ UNCHANGED <<i, kernel, probes, resources, mapped, tracefs, tries, mainVars>>

ArgsOk == Goto("args", "config")

\* Usage, or std::stoi throws.
ArgsBad == Goto("args", "return1")

\* as<>() of what is missing throws; nobody catches it.
Throws(c) ==
  \/ ~ c.lists_sound
  \/ \E k \in DOMAIN c.probes :
       ~ c.probes[k].name \/ ~ c.probes[k].stage \/ c.probes[k].type = "missing"

\* The checks at the end of parse_config; a kretprobe is not among them.
Rejected(c) ==
  \/ c.probes = <<>>
  \/ \E k \in DOMAIN c.probes :
       \/ c.probes[k].type = "tracepoint" /\ ~ c.probes[k].event
       \/ c.probes[k].type \in {"uprobe", "kprobe"} /\ ~ c.probes[k].symbol

ParseConfig ==
  /\ pc = "config"
  /\ ~ Throws(cfg)
  /\ ~ Rejected(cfg)
  /\ probes' = cfg.probes
  /\ pc' = "pid"
  /\ UNCHANGED <<i, kernel, resources, mapped, tracefs, tries, mainVars>>

ConfigRejected ==
  /\ Throws(cfg) \/ Rejected(cfg)
  /\ Goto("config", "return1")

\* --pid comes first, then pgrep.
PidFound ==
  /\ override_pid \/ cfg.process
  /\ Goto("pid", "mkstemp")

PidNotFound ==
  /\ ~ override_pid
  /\ Goto("pid", "return1")
-----------------------------------------------------------------------------
(***************************************************************************)
(* Temporary files and compilation.                                        *)
(***************************************************************************)
Mkstemp ==
  /\ pc = "mkstemp"
  /\ Obtain(Single("tmp"))
  /\ files' = files \cup {"base"}
  /\ pc' = "tmp_close"
  /\ UNCHANGED <<i, kernel, probes, mapped, tracefs, tries,
                 cfg, override_pid, headerVars, loopVars>>

\* The result is not looked at: close(-1) and unlink fail, and the name of the
\* source is whatever mkstemp left in the template.
MkstempFails == Goto("mkstemp", "generate")

TmpClose ==
  /\ pc = "tmp_close"
  /\ Close({Single("tmp")}, {})
  /\ pc' = "tmp_unlink"
  /\ UNCHANGED <<i, kernel, probes, mapped, tracefs, tries, mainVars>>

\* unlink() of one of the run's files
Unlink(from, name, to) ==
  /\ pc = from
  /\ files' = files \ {name}
  /\ pc' = to
  /\ UNCHANGED <<i, kernel, probes, resources, mapped, tracefs, tries,
                 cfg, override_pid, headerVars, loopVars>>

TmpUnlink == Unlink("tmp_unlink", "base", "generate")

Generate ==
  /\ pc = "generate"
  /\ files' = files \cup {"c"}
  /\ pc' = IF vmlinux_src THEN "copy" ELSE "compile"
  /\ UNCHANGED <<i, kernel, probes, resources, mapped, tracefs, tries,
                 cfg, override_pid, headerVars, loopVars>>

GenerateFails == Goto("generate", "return1")

\* Mutant: cp runs in the background.
CopyBeginsDetached ==
  /\ pc = "copy"
  /\ header' = {"name"}
  /\ newest' = "this"
  /\ pc' = "compile"
  /\ UNCHANGED <<i, kernel, probes, resources, mapped, tracefs, tries, cfg, override_pid,
                 files, vmlinux_src, copying, cut, loopVars>>

\* system("cp -f ..."): the target is truncated, or made,
CopyBegins ==
  /\ pc = "copy"
  /\ header' = {"name"}
  /\ newest' = "this"
  /\ pc' = "copy_front"
  /\ UNCHANGED <<i, kernel, probes, resources, mapped, tracefs, tries, cfg, override_pid,
                 files, vmlinux_src, copying, cut, loopVars>>

\* and written from its front to its back, at the offsets of this copy,
CopyWrites(from, part, to) ==
  /\ pc = from
  /\ header' = header \cup {part}
  /\ pc' = to
  /\ UNCHANGED <<i, kernel, probes, resources, mapped, tracefs, tries, cfg, override_pid,
                 files, vmlinux_src, copying, newest, cut, loopVars>>

CopyFront == CopyWrites("copy_front", "front", "copy_back")
CopyBack  == CopyWrites("copy_back", "back", "compile")

\* unless cp fails, or Ctrl+C ends it: system() keeps main() from the signal,
\* and its result is not looked at.
CopyCutShort ==
  /\ pc \in {"copy_front", "copy_back"}
  /\ cut' = cut \cup {"this"}
  /\ pc' = "compile"
  /\ UNCHANGED <<i, kernel, probes, resources, mapped, tracefs, tries, cfg, override_pid,
                 files, vmlinux_src, header, copying, newest, loopVars>>

\* cp does not get as far as to open the target.
CopyNotBegun == Goto("copy", "compile")

Compile ==
  /\ pc = "compile"
  /\ header # {}
  /\ files' = files \cup {"o"}
  /\ pc' = "open"
  /\ UNCHANGED <<i, kernel, probes, resources, mapped, tracefs, tries,
                 cfg, override_pid, headerVars, loopVars>>

\* clang fails, or is ended by Ctrl+C with its output half written.
CompileFails ==
  /\ pc = "compile"
  /\ files' \in {files, files \cup {"o"}}
  /\ pc' = "return1"
  /\ UNCHANGED <<i, kernel, probes, resources, mapped, tracefs, tries,
                 cfg, override_pid, headerVars, loopVars>>
-----------------------------------------------------------------------------
(***************************************************************************)
(* Attaching.                                                              *)
(***************************************************************************)
\* The program is found, the symbol of a uprobe too.
AttachBegins ==
  /\ pc = "attach"
  /\ i <= Len(probes)
  /\ Supported(probes[i])
  /\ pc' = IF NeedsEvent(i) THEN "add_event" ELSE "perf_open"
  /\ UNCHANGED <<i, kernel, probes, resources, mapped, tracefs, tries, mainVars>>

\* resolve_sym: the target has exited, or has no such symbol.
ResolveFails ==
  /\ pc = "attach"
  /\ i <= Len(probes)
  /\ probes[i].type = "uprobe"
  /\ Goto("attach", "return1")

\* A type nothing is known about: the program was generated, but there is no
\* way to attach it.
AttachUnknown ==
  /\ i <= Len(probes)
  /\ ~ Supported(probes[i])
  /\ Goto("attach", "no_link")

\* links.push_back(link)
PushLink ==
  /\ pc = "linked"
  /\ pc' = "attach"
  /\ i' = i + 1
  /\ UNCHANGED <<kernel, probes, resources, mapped, tracefs, tries, mainVars>>

\* Mutant: break instead of continue.
NoLinkBreak ==
  /\ pc = "no_link"
  /\ pc' = "build"
  /\ UNCHANGED <<i, kernel, probes, resources, mapped, tracefs, tries, mainVars>>

\* attach failed: a message, and on to the next
NoLink ==
  /\ pc = "no_link"
  /\ pc' = "attach"
  /\ i' = i + 1
  /\ UNCHANGED <<kernel, probes, resources, mapped, tracefs, tries, mainVars>>

AttachEnds ==
  /\ i > Len(probes)
  /\ Goto("attach", "build")
-----------------------------------------------------------------------------
(***************************************************************************)
(* The measurement and its end.                                            *)
(***************************************************************************)
\* Matchers, queues, callbacks; the CSV file, if asked for.
OpenCsv ==
  /\ pc = "build"
  /\ cfg.csv
  /\ Obtain(Single("csv"))
  /\ pc' = "signals"
  /\ UNCHANGED <<i, kernel, probes, mapped, tracefs, tries, mainVars>>

\* No file, or only a warning.
NoCsv == Goto("build", "signals")

InstallHandlers ==
  /\ pc = "signals"
  /\ handling' = TRUE
  /\ pc' = "ring_new"
  /\ UNCHANGED <<i, kernel, probes, resources, mapped, tracefs, tries,
                 cfg, override_pid, files, headerVars, exiting, records>>

\* while (!exiting) ring_buffer__poll(rb, 200)
PollBegins ==
  /\ ~ exiting
  /\ Goto("loop", "poll")

\* ringbuf_process_ring goes on as long as it finds records, also after a
\* signal.
PollReads ==
  /\ pc = "poll"
  /\ records
  /\ records' = FALSE
  /\ UNCHANGED <<libVars, cfg, override_pid, files, headerVars, handling, exiting>>

\* It finds none, or the wait ends without one.
PollReturns ==
  /\ ~ records
  /\ Goto("poll", "loop")

\* Mutant: exiting is not volatile, and the test is taken out of the loop.
LoopEndsHoisted == FALSE /\ UNCHANGED vars

\* The loop ends.
LoopEnds ==
  /\ exiting
  /\ Goto("loop", "results")

Results == Goto("results", "ring_free")

UnlinkC == Unlink("unlink_c", "c", "unlink_o")
UnlinkO == Unlink("unlink_o", "o", "fclose")

\* if (csv_file) fclose(csv_file); return 0
Fclose ==
  /\ pc = "fclose"
  /\ Close({Single("csv")}, {})
  /\ pc' = "return0"
  /\ UNCHANGED <<i, kernel, probes, mapped, tracefs, tries, mainVars>>

\* The kernel takes back descriptors and pages, not files or events.
KernelTakesBack ==
  /\ open' = [n \in FdNumbers |-> Free]
  /\ fd' = [h \in Holders |-> -1]
  /\ mapped' = {}
  /\ UNCHANGED <<i, kernel, probes, misclosed, tracefs, tries, mainVars>>

\* return from main(), exit(), or an exception nobody catches
Return ==
  /\ pc \in {"return0", "return1", "refused"}
  /\ pc' = IF pc = "return0" THEN "ended0" ELSE "ended1"
  /\ KernelTakesBack

\* SIGINT or SIGTERM before main() has installed its handlers
Killed ==
  /\ ~ handling
  /\ pc \notin Ended
  /\ pc' = "ended1"
  /\ KernelTakesBack

SigHandler ==
  /\ handling
  /\ pc \notin Ended
  /\ ~ exiting
  /\ exiting' = TRUE
  /\ UNCHANGED <<libVars, cfg, override_pid, files, headerVars, handling, records>>

MainStep ==
  \/ ArgsOk \/ ArgsBad \/ ParseConfig \/ ConfigRejected \/ PidFound \/ PidNotFound
  \/ Mkstemp \/ MkstempFails \/ TmpClose \/ TmpUnlink \/ Generate \/ GenerateFails
  \/ CopyBegins \/ CopyFront \/ CopyBack \/ CopyCutShort \/ CopyNotBegun
  \/ Compile \/ CompileFails
  \/ AttachBegins \/ ResolveFails \/ AttachUnknown \/ PushLink \/ NoLink \/ AttachEnds
  \/ OpenCsv \/ NoCsv \/ InstallHandlers
  \/ PollBegins \/ PollReads \/ PollReturns \/ LoopEnds \/ Results
  \/ UnlinkC \/ UnlinkO \/ Fclose \/ Return
  \/ LibStep /\ UNCHANGED mainVars
-----------------------------------------------------------------------------
(***************************************************************************)
(* Other runs, as long as this one depends on the header, and the target.  *)
(***************************************************************************)
BeforeCompiled == {"generate", "copy", "copy_front", "copy_back", "compile"}

\* They look for the same file and copy it to the same place.
OtherCopyBegins(r) ==
  /\ pc \in BeforeCompiled
  /\ vmlinux_src
  /\ copying[r] = "none"
  /\ copying' = [copying EXCEPT ![r] = "front"]
  /\ header' = {"name"}
  /\ newest' = r
  /\ cut' = cut \ {r}
  /\ UNCHANGED <<libVars, cfg, override_pid, files, vmlinux_src, loopVars>>

OtherCopyWrites(r) ==
  /\ pc \in BeforeCompiled
  /\ copying[r] # "none"
  /\ header' = header \cup {copying[r]}
  /\ copying' = [copying EXCEPT ![r] = IF @ = "front" THEN "back" ELSE "none"]
  /\ UNCHANGED <<libVars, cfg, override_pid, files, vmlinux_src, newest, cut, loopVars>>

OtherCopyCutShort(r) ==
  /\ pc \in BeforeCompiled
  /\ copying[r] # "none"
  /\ copying' = [copying EXCEPT ![r] = "none"]
  /\ cut' = cut \cup {r}
  /\ UNCHANGED <<libVars, cfg, override_pid, files, vmlinux_src, header, newest, loopVars>>

OtherRun(r) == OtherCopyBegins(r) \/ OtherCopyWrites(r) \/ OtherCopyCutShort(r)

\* A probe has written to the ring buffer.  What came before the loop counts as
\* coming with its start.
RecordsCome ==
  /\ pc \in {"loop", "poll"}
  /\ ~ records
  /\ records' = TRUE
  /\ UNCHANGED <<libVars, cfg, override_pid, files, headerVars, handling, exiting>>

Next ==
  \/ MainStep \/ Killed \/ SigHandler \/ RecordsCome
  \/ \E r \in OtherRuns : OtherRun(r)

\* main() is one running thread, and the commands it waits for end.
Spec == Init /\ [][Next]_vars /\ WF_vars(MainStep)
-----------------------------------------------------------------------------
(***************************************************************************)
(* Properties.                                                             *)
(***************************************************************************)
\* Every variable has its type; the verifier's log is only doubled while its
\* size fits (libbpf.c:6832).
TypeOK ==
  /\ i \in 1 .. MaxProbes + 1
  /\ Len(probes) <= MaxProbes
  /\ open \in [FdNumbers -> Holders \cup {Free}]
  /\ fd \in [Holders -> FdNumbers \cup {-1}]
  /\ mapped \subseteq {"consumer", "producer"}
  /\ stuck \subseteq events /\ events \subseteq Indices
  /\ tries \in 0 .. Doublings + 1
  /\ files \subseteq {"base", "c", "o"}
  /\ header \subseteq Whole
  /\ copying \in [OtherRuns -> {"none", "front", "back"}]
  /\ newest \in Runs \cup {"nobody"}
  /\ cut \subseteq Runs
  /\ {override_pid, vmlinux_src, handling, exiting, records, misclosed} \subseteq BOOLEAN

\* What a holder's descriptor must have been opened as.
OpenedAs(h) ==
  IF h[1] = "link" /\ ~ kernel.perf_link THEN <<"pfd", h[2]>> ELSE h

\* At every moment, whatever failed so far, the descriptors that are open are
\* those somebody holds, and nobody holds one that was closed or is another's:
\* no failing call leaks, also none after which main() returns, and none
\* leaves a member dangling.  One leak is known: that of an object file that
\* elf_begin refuses (libbpf.c:1294, 1337, 5254, 7696, 9766, 10121,
\* ringbuf.c:143).
FdsHeld ==
  /\ \A h \in Holders : fd[h] # -1 => open[fd[h]] = OpenedAs(h)
  /\ \A n \in FdNumbers : open[n] # Free =>
       (\E h \in Holders : fd[h] = n) \/ (pc = "refused" /\ open[n] = Single("elf"))

\* No descriptor is closed twice, though the two members of a link may be one
\* descriptor (libbpf.c:9671-9673).
ClosesOwn == ~ misclosed

\* Where main() is between two calls about links.
BetweenCalls == {"attach", "linked", "no_link", "build", "signals", "ring_new", "loop", "poll",
                 "results"}

\* A probe that failed to attach, at whatever step, has left no event in
\* tracefs, and one that is attached has its own, from the first probe to the
\* results; what else there is are events whose removal was tried and failed
\* (libbpf.c:10010, 10140, 10833).
EventsAreLinks ==
  pc \in BetweenCalls =>
    events = {k \in Indices : fd[<<"link", k>>] # -1 /\ NeedsEvent(k)} \cup stuck

TmpFiles == files \cup (IF header = {} THEN {} ELSE {"vmlinux.h"})

\* A run that comes to its end has cleaned up after itself, before the kernel
\* does: no descriptor, no mapped page, of its files in /tmp only the copy of
\* vmlinux.h, which it shares with other runs and never removes, and no event
\* in tracefs, which is only removed once nothing refers to it, unless the
\* removal itself failed (lensx.cpp:378-389, bpf_gen.cpp:95-98,
\* libbpf.c:9671-9684).
CleanReturn ==
  pc = "return0" =>
    /\ \A n \in FdNumbers : open[n] = Free
    /\ mapped = {}
    /\ TmpFiles = {"vmlinux.h"}
    /\ events = stuck

\* Is the last copy that run r began under way?
Copying(r) ==
  IF r = "this" THEN pc \in {"copy_front", "copy_back"} ELSE copying[r] # "none"

\* Runs that share the header do each other no lasting harm: as soon as the copy
\* that truncated it last has been written to its end, the header is whole,
\* however the copies overlapped, whichever earlier ones are still being
\* written and whichever were cut short.  A run compiles with a damaged header
\* only while a later copy is under way, or after one that was cut short
\* (bpf_gen.cpp:93-98).
HeaderMended ==
  pc \in BeforeCompiled /\ newest \in Runs \ cut /\ ~ Copying(newest) => header = Whole

\* Where main() is from its first probe to its last, and from there to the loop.
Attaching == {"attach", "add_event", "event_id", "perf_open", "link", "enable", "close_pfd",
              "clean_legacy", "linked", "no_link"}
Attached  == {"build", "signals", "ring_new", "map_consumer", "map_producer", "epoll_add"}

Looping   == {"loop", "poll"}

\* How far the run is, to the target.
Phase ==
  IF pc \in Looping THEN "loop"
  ELSE IF pc \in {"results", "ring_free", "destroy", "remove_event", "unlink_c", "unlink_o",
                  "fclose", "return0", "ended0"} THEN "done"
  ELSE IF pc \in {"return1", "refused", "ended1"} THEN "aborted"
  ELSE "attach"

\* The probes main() has dealt with,
Dealt ==
  IF pc \in {"linked", "no_link"} THEN i
  ELSE IF pc \in Attaching \cup Attached \cup Looping THEN i - 1
  ELSE 0

\* and those of them that have a link.
Linked ==
  IF pc \in Attaching \cup Attached \cup Looping
  THEN {k \in Indices : fd[<<"link", k>>] # -1 /\ (k < i \/ pc = "linked")}
  ELSE {}

Life == INSTANCE Lifecycle WITH
  phase <- Phase, total <- Len(cfg.probes), attached <- Dealt, links <- Linked

\* To the target the run is a Lifecycle: every probe is dealt with once and in
\* order, a failure of one does not keep the others from being attached, and
\* the loop only starts after the last.  This is what LensX assumes of
\* attaching (lensx.cpp:190-229, 349-390).
LifeSpec == Life!Spec

\* A run that is started reaches the loop or ends: no retry goes on for ever
\* (libbpf.c:6821-6833, btf.c:1198-1209, lensx.cpp:192-229).
StartsOrEnds == <>(pc \in {"loop"} \cup Ended)

\* A signal handled ends the run, also one that comes before the loop, and
\* whichever probes have no link to destroy, if the target does not write
\* records for ever: while there are new ones ring_buffer__poll does not return
\* (lensx.cpp:332-390, ringbuf.c:215-243).
StopsWhenTold == <>[][~ RecordsCome]_vars => (exiting ~> pc \in Ended)
=============================================================================
