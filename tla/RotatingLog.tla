------------------------------ MODULE RotatingLog ------------------------------
(***************************************************************************)
(* The log file as Logger::initialize sets it up: spdlog's logger with a    *)
(* rotating file sink, flushed on warnings, and the directory that outlives *)
(* the process.  A process starts, logs, and ends by exiting or dying, and  *)
(* then starts again; with more than one in Processes, runs of the tool     *)
(* overlap on one log path.                                                 *)
(*                                                                          *)
(* slot is the directory: the log file (0) and its rotated names (1 to      *)
(* MAX_LOG_FILES), each leading to a file or to none.  A file lives on      *)
(* while it has a name or is open.  A line is written as a whole.           *)
(***************************************************************************)
EXTENDS Naturals, FiniteSets, SequencesExt

CONSTANTS
  Processes,  \* runs of the tool that share a log path
  MaxSize,    \* max_size_bytes
  Sizes,      \* of formatted lines
  MaxLines,   \* bound: lines logged
  MaxFaults   \* bound: failures of rename and fopen

ASSUME LogAssumption ==
  /\ Processes # {} /\ IsFiniteSet(Processes)
  /\ MaxSize \in Nat \ {0}
  /\ Sizes \subseteq Nat \ {0}
  /\ MaxLines \in Nat /\ MaxFaults \in Nat

MAX_LOG_FILES == 3

Slots == 0 .. MAX_LOG_FILES

\* 0 is no file: an unused name, or a null fd_.
Files == 1 .. MAX_LOG_FILES + 1 + Cardinality(Processes)

VARIABLES
  slot,       \* the directory
  content,    \* the lines in each file
  proc,       \* the processes, see Fresh
  lines,      \* lines logged so far; numbers the lines
  last_warn,  \* history: the last line that was flushed as a warning
  faults      \* history: failures so far

logVars == <<slot, content, proc, lines, last_warn, faults>>

\* Of a process: where its call is, the sink's fd_ and the stdio buffer behind
\* it, current_size_, the line being logged and whether it is a warning, and
\* the i of rotate_.
NoLine == [n |-> 0, by |-> CHOOSE p \in Processes : TRUE, size |-> 0]

Fresh == [pc |-> "down", fd |-> 0, buffer |-> <<>>, current_size |-> 0,
          line |-> NoLine, warn |-> FALSE, i |-> 0]

LogInit ==
  /\ slot = [k \in Slots |-> 0]
  /\ content = [f \in Files |-> <<>>]
  /\ proc = [p \in Processes |-> Fresh]
  /\ lines = 0 /\ last_warn = 0 /\ faults = 0

----------------------------------------------------------------------------
SizeOf(ls) ==
  LET total[k \in 0 .. Len(ls)] == IF k = 0 THEN 0 ELSE total[k - 1] + ls[k].size
  IN  total[Len(ls)]

Unused == CHOOSE f \in Files :
  (\A k \in Slots : slot[k] # f) /\ (\A p \in Processes : proc[p].fd # f)

\* Files that lose their last name and their last fd are gone.
Reclaim(names, processes, data) ==
  [f \in Files |->
     IF (\E k \in Slots : names[k] = f) \/ (\E p \in Processes : processes[p].fd = f)
     THEN data[f] ELSE <<>>]

\* The process moves on; the names and the data of files become these.
Step(p, r, names, data) ==
  /\ proc' = [proc EXCEPT ![p] = r]
  /\ slot' = names
  /\ content' = Reclaim(names, proc', data)

\* A buffer, or what is first in it, goes to the end of an open file.
Appended(f, ls) ==
  IF f = 0 THEN content ELSE [content EXCEPT ![f] = @ \o ls]

\* What logger::sink_it_ does next, whether the sink threw or not.
AfterSink(r) == IF r.warn THEN "flush" ELSE "idle"

NamedBase(f) == [slot EXCEPT ![0] = f]

OpenedAtStart_Truncated(f) == [content EXCEPT ![f] = <<>>]

\* fopen in mode "ab".
OpenedAtStart(f) == content

\* Logger::initialize: the file is created when it is missing, then opened to
\* append, and its size read.
StartProcess(p) ==
  /\ proc[p].pc = "down"
  /\ lines < MaxLines
  /\ LET f == IF slot[0] = 0 THEN Unused ELSE slot[0]
     IN  Step(p, [Fresh EXCEPT !.pc = "idle", !.fd = f,
                               !.current_size = SizeOf(content[f])],
              NamedBase(f), OpenedAtStart(f))
  /\ UNCHANGED <<lines, last_warn, faults>>

Fits_Alone(r, size) == size <= MaxSize

Fits(r, size) == r.current_size + size <= MaxSize

\* A log call, up to the comparison in rotating_file_sink::sink_it_.
LogLine(p, size, warn) ==
  LET r == proc[p]
  IN  /\ r.pc = "idle"
      /\ lines < MaxLines
      /\ lines' = lines + 1
      /\ Step(p, [r EXCEPT !.line = [n |-> lines + 1, by |-> p, size |-> size],
                           !.warn = warn,
                           !.pc = IF Fits(r, size) THEN "write" ELSE "full"],
              slot, content)
      /\ UNCHANGED <<last_warn, faults>>

\* The limit would be passed: flush and ask for the real size.  A sink without
\* a file throws here; a file with nothing in it is written to nevertheless;
\* any other is closed and rotation begins.
CheckRealSize(p) ==
  LET r == proc[p]
      flushed == [r EXCEPT !.buffer = <<>>]
  IN  /\ r.pc = "full"
      /\ IF r.fd = 0
         THEN Step(p, [r EXCEPT !.pc = AfterSink(r)], slot, content)
         ELSE IF content[r.fd] \o r.buffer = <<>>
         THEN Step(p, [flushed EXCEPT !.pc = "write"], slot, content)
         ELSE Step(p, [flushed EXCEPT !.pc = "rotate", !.fd = 0, !.i = MAX_LOG_FILES],
                   slot, Appended(r.fd, r.buffer))
      /\ UNCHANGED <<lines, last_warn, faults>>

----------------------------------------------------------------------------
\* rotate_, one name of the directory at a time.

SkipMissing(p) ==
  LET r == proc[p]
  IN  /\ r.pc = "rotate" /\ r.i > 0 /\ slot[r.i - 1] = 0
      /\ Step(p, [r EXCEPT !.i = @ - 1], slot, content)
      /\ UNCHANGED <<lines, last_warn, faults>>

Target_Source(r) == r.i - 1

\* The name rename_file_ removes first.
Target(r) == r.i

\* rename_file_, and again after its first failure: the target is removed ...
RemoveTarget(p) ==
  LET r == proc[p]
  IN  /\ \/ r.pc = "rotate" /\ r.i > 0 /\ slot[r.i - 1] # 0
         \/ r.pc = "again"
      /\ Step(p, [r EXCEPT !.pc = IF r.pc = "again" THEN "rename_again" ELSE "rename"],
              [slot EXCEPT ![Target(r)] = 0], content)
      /\ UNCHANGED <<lines, last_warn, faults>>

Moved_Linked(i) == [slot EXCEPT ![i] = slot[i - 1]]

\* rename: the source gets the name of the target, which it replaces.
Moved(i) == [slot EXCEPT ![i] = slot[i - 1], ![i - 1] = 0]

\* ... and the source takes its name.
RenameSource(p) ==
  LET r == proc[p]
  IN  /\ r.pc \in {"rename", "rename_again"}
      /\ slot[r.i - 1] # 0
      /\ Step(p, [r EXCEPT !.pc = "rotate", !.i = @ - 1], Moved(r.i), content)
      /\ UNCHANGED <<lines, last_warn, faults>>

\* The rename fails: another process took the source away, or the file system
\* refuses.
RenameFails(p) ==
  LET r == proc[p]
  IN  /\ r.pc \in {"rename", "rename_again"}
      /\ IF slot[r.i - 1] = 0 THEN UNCHANGED faults
         ELSE faults < MaxFaults /\ faults' = faults + 1
      /\ Step(p, [r EXCEPT !.pc = IF r.pc = "rename" THEN "again" ELSE "give_up"],
              slot, content)
      /\ UNCHANGED <<lines, last_warn>>

\* fopen in mode "wb".
Truncated(f) == [content EXCEPT ![f] = <<>>]

\* reopen(true), after the loop or in its middle.  Only after the loop is the
\* line still written: the other path throws.  current_size_ is set to 0 there
\* and overwritten by the size of the line here.
Reopen(p) ==
  LET r == proc[p]
      f == IF slot[0] = 0 THEN Unused ELSE slot[0]
  IN  /\ r.pc = "give_up" \/ (r.pc = "rotate" /\ r.i = 0)
      /\ Step(p, [r EXCEPT !.pc = IF r.pc = "give_up" THEN AfterSink(r) ELSE "write",
                           !.fd = f, !.current_size = 0],
              NamedBase(f), Truncated(f))
      /\ UNCHANGED <<lines, last_warn, faults>>

\* All its tries fail: open throws, and the sink has no file any more.  A try
\* that could create or empty the file, and then not open it to append, has
\* done so.
ReopenFails(p) ==
  LET r == proc[p]
      f == IF slot[0] = 0 THEN Unused ELSE slot[0]
      fileless == [r EXCEPT !.pc = AfterSink(r)]
  IN  /\ r.pc = "give_up" \/ (r.pc = "rotate" /\ r.i = 0)
      /\ faults < MaxFaults
      /\ faults' = faults + 1
      /\ \/ Step(p, fileless, slot, content)
         \/ Step(p, fileless, NamedBase(f), Truncated(f))
      /\ UNCHANGED <<lines, last_warn>>

----------------------------------------------------------------------------
Buffered_Front(r) == <<r.line>> \o r.buffer

Buffered(r) == Append(r.buffer, r.line)

\* file_helper::write and the update of current_size_.  fwrite hands on as
\* much of its buffer as it likes.  Without a file nothing is written.
WriteLine(p, k) ==
  LET r == proc[p]
      ls == IF r.fd = 0 THEN <<>> ELSE Buffered(r)
  IN  /\ r.pc = "write"
      /\ k <= Len(ls)
      /\ Step(p, [r EXCEPT !.pc = AfterSink(r),
                           !.buffer = SubSeq(ls, k + 1, Len(ls)),
                           !.current_size = @ + r.line.size],
              slot, Appended(r.fd, SubSeq(ls, 1, k)))
      /\ UNCHANGED <<lines, last_warn, faults>>

\* logger::flush_, after a warning.
FlushWarning(p) ==
  LET r == proc[p]
  IN  /\ r.pc = "flush"
      /\ Step(p, [r EXCEPT !.pc = "idle", !.buffer = <<>>],
              slot, Appended(r.fd, r.buffer))
      /\ last_warn' = r.line.n
      /\ UNCHANGED <<lines, faults>>

\* The process returns from main: the file is closed.
ExitProcess(p) ==
  LET r == proc[p]
  IN  /\ r.pc = "idle"
      /\ Step(p, Fresh, slot, Appended(r.fd, r.buffer))
      /\ UNCHANGED <<lines, last_warn, faults>>

\* It is killed, anywhere.
CrashProcess(p) ==
  /\ proc[p].pc # "down"
  /\ Step(p, Fresh, slot, content)
  /\ UNCHANGED <<lines, last_warn, faults>>

LogNext ==
  \E p \in Processes :
    \/ StartProcess(p)
    \/ \E size \in Sizes, warn \in BOOLEAN : LogLine(p, size, warn)
    \/ CheckRealSize(p)
    \/ SkipMissing(p)
    \/ RemoveTarget(p)
    \/ RenameSource(p)
    \/ RenameFails(p)
    \/ Reopen(p)
    \/ ReopenFails(p)
    \/ \E k \in 0 .. MaxLines : WriteLine(p, k)
    \/ FlushWarning(p)
    \/ ExitProcess(p)
    \/ CrashProcess(p)

LogSpec == LogInit /\ [][LogNext]_logVars

----------------------------------------------------------------------------
LineRecords == [n : 0 .. MaxLines, by : Processes, size : Sizes \cup {0}]

ProcessRecords ==
  [pc : {"down", "idle", "write", "full", "rotate", "rename", "again",
         "rename_again", "give_up", "flush"},
   fd : Files \cup {0}, buffer : Seq(LineRecords), current_size : Nat,
   line : LineRecords, warn : BOOLEAN, i : Slots]

\* Every variable holds a value of its type, and no file has two names.
LogTypeOK ==
  /\ slot \in [Slots -> Files \cup {0}]
  /\ content \in [Files -> Seq(LineRecords)]
  /\ proc \in [Processes -> ProcessRecords]
  /\ lines \in Nat /\ last_warn \in Nat /\ faults \in Nat
  /\ \A j, k \in Slots : slot[j] = slot[k] /\ slot[j] # 0 => j = k

InSlot(k) == IF slot[k] = 0 THEN <<>> ELSE content[slot[k]]

\* The log as a reader sees it, oldest file first.
OnDisk == InSlot(3) \o InSlot(2) \o InSlot(1) \o InSlot(0)

\* No file of the directory grows past the limit, the part of it still in the
\* buffer included, unless one line alone is larger: over restarts on a file
\* begun before, crashes inside a rotation, and rotations that fail.
SizeBound ==
  \A k \in Slots : slot[k] # 0 =>
    LET unflushed == { p \in Processes : proc[p].fd = slot[k] }
        ls == IF unflushed = {} THEN InSlot(k)
              ELSE InSlot(k) \o proc[CHOOSE p \in unflushed : TRUE].buffer
    IN  SizeOf(ls) <= MaxSize \/ Len(ls) = 1

\* A warning that was logged stays readable, whatever becomes of the process
\* and however often the tool is run again: it leaves the disk only as part of
\* the oldest file, when every line on disk is a newer one, in two files at
\* least.  (Not in three: a rotation that a crash cut short leaves a gap in
\* the names, and the next one drops the oldest file all the same.)
WarningsKept ==
  faults = 0 /\ last_warn # 0 =>
    \/ \E j \in DOMAIN OnDisk : OnDisk[j].n = last_warn
    \/ /\ \A j \in DOMAIN OnDisk : OnDisk[j].n > last_warn
       /\ Cardinality({ k \in Slots : InSlot(k) # <<>> }) >= MAX_LOG_FILES - 1

\* A line leaves the disk only with the oldest file, and only while the name
\* before it and the log file have lines in them.
OnlyOldestDropped ==
  [][ faults' = 0 =>
        \A j \in DOMAIN OnDisk :
          OnDisk[j] \notin Range(OnDisk') =>
            /\ OnDisk[j] \in Range(InSlot(MAX_LOG_FILES))
            /\ InSlot(MAX_LOG_FILES - 1) # <<>> /\ InSlot(0) # <<>> ]_logVars

\* The lines of one process are on disk in the order it logged them and never
\* twice, even when its file is renamed, truncated or removed by another.
OwnOrderKept ==
  \A j, k \in DOMAIN OnDisk :
    j < k /\ OnDisk[j].by = OnDisk[k].by => OnDisk[j].n < OnDisk[k].n

\* With a single process, the log keeps what DurableLog promises.
Promise == INSTANCE DurableLog WITH
  Lines <- LineRecords, disk <- OnDisk, damaged <- faults > 0,
  pending <- proc[CHOOSE p \in Processes : TRUE].buffer

ImplementsDurableLog == Promise!Spec
=============================================================================
