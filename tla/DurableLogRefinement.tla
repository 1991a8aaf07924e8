------------------------ MODULE DurableLogRefinement ------------------------
(***************************************************************************)
(* The log of one tool, which is run again and again and never overlaps     *)
(* with itself: its files stay within the limit, warnings stay on disk,     *)
(* only the oldest file is dropped, and together this is what DurableLog    *)
(* promises.                                                                *)
(***************************************************************************)
EXTENDS RotatingLogProofs, SequenceTheorems

run == CHOOSE p \in Processes : TRUE

me == proc[run]

OneRun == Processes = {run}

\* Within the limit, or one line that is larger.
Small(s) == SizeOf(s) <= MaxSize \/ Len(s) = 1

\* The run writes to the file that has the base name, and nothing waits for a
\* file that is not open.
FileInv ==
  /\ me.fd \in {0, slot[0]}
  /\ me.fd = 0 => me.buffer = <<>>

\* current_size is the size of the file and of what is still to be written to it.
SizeInv ==
  /\ me.fd # 0 => me.current_size = SizeOf(InSlot(0)) + SizeOf(me.buffer)
  /\ me.pc = "write" /\ me.fd # 0 =>
       me.current_size + me.line.size <= MaxSize \/ InSlot(0) \o me.buffer = <<>>
  /\ Small(InSlot(0) \o me.buffer)
  /\ \A k \in Slots \ {0} : Small(InSlot(k))

\* A rotation has a free name to move a file to, and only the base name ever
\* leads to an empty file.
MoveInv ==
  /\ me.pc = "rotate" /\ me.i < MAX_LOG_FILES => slot[me.i] = 0
  /\ me.pc \in {"rename", "again", "rename_again"} =>
       slot[me.i] = 0 /\ slot[me.i - 1] # 0
  /\ \/ me.pc \in {"rename", "again", "rename_again"}
     \/ me.pc = "rotate" /\ me.i > 0
     => InSlot(0) # <<>>
  /\ me.pc \in {"again", "rename_again", "give_up"} => faults > 0
  /\ me.pc \in {"idle", "write", "full", "flush"} /\ faults = 0 => me.fd # 0
  /\ \A k \in Slots \ {0} : slot[k] # 0 => InSlot(k) # <<>>

\* What the run has still to write is newer than the last warning, and a
\* warning that is about to be flushed is there to be flushed.
WarnInv ==
  /\ last_warn <= lines
  /\ \A x \in DOMAIN me.buffer : me.buffer[x].n > last_warn
  /\ me.pc \notin {"down", "idle"} => me.line.n > last_warn /\ me.line.n <= lines
  /\ me.pc = "flush" /\ faults = 0 =>
       \E x \in DOMAIN (InSlot(0) \o me.buffer) : (InSlot(0) \o me.buffer)[x] = me.line

\* The last warning is on disk, or everything on disk is newer, in two files.
Kept == \E k \in Slots : \E j \in DOMAIN InSlot(k) : InSlot(k)[j].n = last_warn

Passed ==
  /\ \A k \in Slots : \A j \in DOMAIN InSlot(k) : InSlot(k)[j].n > last_warn
  /\ \E a, b \in Slots : a # b /\ InSlot(a) # <<>> /\ InSlot(b) # <<>>

KeptInv == faults = 0 /\ last_warn # 0 => Kept \/ Passed

\* The inductive invariant of a log with one writer.
RunInv == FileInv /\ SizeInv /\ MoveInv /\ WarnInv /\ KeptInv

\* It rests on the order of lines and on the types.
AllInv == OrderInv /\ Typed /\ RunInv

----------------------------------------------------------------------------
\* The run is a process, and its fields have their types.
LEMMA RunFacts ==
  ASSUME OneRun, OrderInv, Typed
  PROVE  /\ run \in Processes /\ \A p \in Processes : p = run
         /\ me \in ProcessRecords /\ ProcessShape(me) /\ DOMAIN me = Fields
         /\ me.fd \in Files \cup {0} /\ me.buffer \in Seq(LineRecords)
         /\ me.current_size \in Nat /\ me.line \in LineRecords
         /\ me.warn \in BOOLEAN /\ me.i \in 0 .. 3
         /\ me.line.size \in Nat /\ me.line.n \in Nat
         /\ slot \in [Slots -> Files \cup {0}]
         /\ content \in [Files -> Seq(LineRecords)]
         /\ 0 \notin Files /\ Slots = 0 .. 3 /\ MAX_LOG_FILES = 3
         /\ lines \in Nat /\ last_warn \in Nat /\ faults \in Nat
         /\ \A k \in Slots : InSlot(k) \in Seq(LineRecords)
<1>1. run \in Processes /\ \A p \in Processes : p = run
  BY DEF OneRun
<1>2. me \in ProcessRecords /\ ProcessShape(me) /\ lines \in 0 .. MaxLines
  BY <1>1 DEF me, Typed, OrderInv, Shape
<1>3. \A k \in Slots : InSlot(k) \in Seq(LineRecords)
  BY InSlotLines DEF OrderInv
<1>4. lines \in Nat
  BY <1>2, LogAssumption
<1>5. /\ slot \in [Slots -> Files \cup {0}] /\ content \in [Files -> Seq(LineRecords)]
      /\ last_warn \in Nat /\ faults \in Nat
  BY DEF OrderInv, Shape, Typed
<1>6. 0 \notin Files /\ Slots = 0 .. 3 /\ MAX_LOG_FILES = 3
  BY NumberFacts DEF MAX_LOG_FILES
<1>7. /\ DOMAIN me = Fields
      /\ me.fd \in Files \cup {0} /\ me.buffer \in Seq(LineRecords)
      /\ me.current_size \in Nat /\ me.line \in LineRecords
      /\ me.warn \in BOOLEAN /\ me.i \in Slots
      /\ me.line.size \in Nat /\ me.line.n \in Nat
  BY <1>2, RecordFacts
<1> QED
  BY <1>1, <1>2, <1>3, <1>4, <1>5, <1>6, <1>7

\* After a step of the run, the names lead to the files that the step says.
LEMMA Became ==
  ASSUME OneRun, OrderInv, Typed,
         NEW r, NEW names \in [Slots -> Files \cup {0}], NEW data,
         Step(run, r, names, data)
  PROVE  /\ me' = r /\ slot' = names
         /\ \A k \in Slots : InSlot(k)' = IF names[k] = 0 THEN <<>> ELSE data[names[k]]
<1>1. Shape /\ run \in Processes
  BY RunFacts DEF OrderInv
<1>2. /\ proc'[run] = r /\ slot' = names
      /\ \A f \in Files : (\E k \in Slots : names[k] = f) => content'[f] = data[f]
  BY <1>1, StepFacts
<1> QED
  BY <1>2 DEF me, InSlot

\* A step that leaves the files alone.
LEMMA StillBecame ==
  ASSUME OneRun, OrderInv, Typed, NEW r, Step(run, r, slot, content)
  PROVE  me' = r /\ slot' = slot /\ \A k \in Slots : InSlot(k)' = InSlot(k)
<1>1. slot \in [Slots -> Files \cup {0}]
  BY RunFacts
<1> QED
  BY <1>1, Became DEF InSlot

\* A step that writes lines to the open file.
LEMMA AppendBecame ==
  ASSUME OneRun, OrderInv, Typed, FileInv, NEW r, NEW ls \in Seq(LineRecords),
         Step(run, r, slot, Appended(me.fd, ls)), me.fd # 0 \/ ls = <<>>
  PROVE  /\ me' = r /\ slot' = slot
         /\ InSlot(0)' = InSlot(0) \o ls
         /\ \A k \in Slots \ {0} : InSlot(k)' = InSlot(k)
<1>1. /\ slot \in [Slots -> Files \cup {0}] /\ me.fd \in Files \cup {0}
      /\ content \in [Files -> Seq(LineRecords)] /\ 0 \notin Files
      /\ 0 \in Slots /\ InSlot(0) \in Seq(LineRecords)
  BY RunFacts
<1> DEFINE data == Appended(me.fd, ls)
<1>2. /\ me' = r /\ slot' = slot
      /\ \A k \in Slots : InSlot(k)' = IF slot[k] = 0 THEN <<>> ELSE data[slot[k]]
  BY <1>1, Became
<1>3. CASE me.fd = 0
  <2>1. data = content
    BY <1>3 DEF Appended
  <2>2. InSlot(0) \o ls = InSlot(0)
    BY <1>1, <1>3, ConcatEmptySeq
  <2> HIDE DEF data
  <2> QED
    BY <1>1, <1>2, <2>1, <2>2 DEF InSlot
<1>4. CASE me.fd # 0
  <2>1. me.fd = slot[0] /\ \A k \in Slots \ {0} : slot[k] # me.fd
    BY <1>1, <1>4 DEF FileInv, OrderInv, OneName
  <2>2. /\ data[me.fd] = content[me.fd] \o ls
        /\ \A f \in Files : f # me.fd => data[f] = content[f]
    BY <1>1, <1>4 DEF Appended
  <2> HIDE DEF data
  <2> QED
    BY <1>1, <1>2, <1>4, <2>1, <2>2 DEF InSlot
<1> QED
  BY <1>3, <1>4
----------------------------------------------------------------------------
\* What each action does to the run, its files and the counters.

\* A start makes sure that there is a log file, and reads its size.
StartEffect ==
  /\ me.pc = "down" /\ me.buffer = <<>>
  /\ me'.pc = "idle" /\ me'.buffer = <<>>
  /\ me'.fd = slot'[0] /\ slot'[0] # 0
  /\ me'.current_size = SizeOf(InSlot(0))
  /\ \A k \in Slots : InSlot(k)' = InSlot(k)
  /\ \A k \in Slots \ {0} : slot'[k] = slot[k]
  /\ UNCHANGED <<lines, last_warn, faults>>

\* A start has this effect.
LEMMA StartHasEffect ==
  ASSUME OneRun, AllInv, StartProcess(run) PROVE StartEffect
<1> USE DEF AllInv
<1> DEFINE f == IF slot[0] = 0 THEN Unused ELSE slot[0]
           r == [Fresh EXCEPT !.pc = "idle", !.fd = f, !.current_size = SizeOf(content[f])]
<1>1. /\ run \in Processes /\ OrderInv /\ Shape /\ OneName /\ ProcessShape(me)
      /\ slot \in [Slots -> Files \cup {0}] /\ 0 \notin Files /\ 0 \in Slots
  BY RunFacts DEF OrderInv
<1>2. /\ me.pc = "down" /\ Step(run, r, NamedBase(f), content)
      /\ UNCHANGED <<lines, last_warn, faults>>
  BY DEF StartProcess, OpenedAtStart, me
<1>3. me.fd = 0 /\ me.buffer = <<>>
  BY <1>1, <1>2 DEF ProcessShape, RunInv, FileInv
<1>4. f \in Files /\ (f = slot[0] \/ (content[f] = <<>> /\ \A k \in Slots : slot[k] # f))
  BY <1>1, <1>3, BaseFile DEF me
<1>5. /\ r.pc = "idle" /\ r.buffer = <<>> /\ r.fd = f /\ r.current_size = SizeOf(content[f])
  BY DEF Fresh
<1>6. content[f] = InSlot(0)
  BY <1>1, <1>4 DEF InSlot
<1> HIDE DEF f, r
<1>7. /\ NamedBase(f) \in [Slots -> Files \cup {0}] /\ NamedBase(f)[0] = f
      /\ \A k \in Slots : k # 0 => NamedBase(f)[k] = slot[k]
  BY <1>1, <1>4, NamedBaseFacts
<1>8. /\ me' = r /\ slot' = NamedBase(f)
      /\ \A k \in Slots : InSlot(k)' =
           IF NamedBase(f)[k] = 0 THEN <<>> ELSE content[NamedBase(f)[k]]
  BY <1>2, <1>7, Became
<1>9. \A k \in Slots : InSlot(k)' = InSlot(k)
  <2> SUFFICES ASSUME NEW k \in Slots PROVE InSlot(k)' = InSlot(k)
    OBVIOUS
  <2>1. CASE k = 0
    BY <1>1, <1>4, <1>6, <1>7, <1>8, <2>1
  <2>2. CASE k # 0
    BY <1>7, <1>8, <2>2 DEF InSlot
  <2> QED
    BY <2>1, <2>2
<1> QED
  BY <1>1, <1>2, <1>3, <1>4, <1>5, <1>6, <1>7, <1>8, <1>9 DEF StartEffect

\* A log call takes the next number.
LogEffect(size, warn) ==
  /\ me.pc = "idle" /\ lines' = lines + 1
  /\ me'.pc = IF me.current_size + size <= MaxSize THEN "write" ELSE "full"
  /\ me'.line.n = lines + 1 /\ me'.line.size = size /\ me'.line \in LineRecords
  /\ me'.fd = me.fd /\ me'.buffer = me.buffer /\ me'.current_size = me.current_size
  /\ slot' = slot /\ \A k \in Slots : InSlot(k)' = InSlot(k)
  /\ UNCHANGED <<last_warn, faults>>

\* A log call has this effect.
LEMMA LogHasEffect ==
  ASSUME OneRun, AllInv, NEW size \in Sizes, NEW warn \in BOOLEAN, LogLine(run, size, warn)
  PROVE  LogEffect(size, warn)
<1> USE DEF AllInv
<1> DEFINE line == [n |-> lines + 1, by |-> run, size |-> size]
           pc == IF Fits(me, size) THEN "write" ELSE "full"
           r == [me EXCEPT !.line = line, !.warn = warn, !.pc = pc]
<1>1. /\ run \in Processes /\ DOMAIN me = Fields /\ lines \in Nat
  BY RunFacts
<1>2. /\ me.pc = "idle" /\ lines' = lines + 1 /\ lines < MaxLines
      /\ Step(run, r, slot, content)
      /\ UNCHANGED <<last_warn, faults>>
  BY DEF LogLine, me
<1>3. /\ r.pc = pc /\ r.line = line /\ r.fd = me.fd /\ r.buffer = me.buffer
      /\ r.current_size = me.current_size
  BY <1>1 DEF Fields
<1>4. line \in LineRecords
  BY <1>1, <1>2, LogAssumption DEF LineRecords
<1>5. pc = IF me.current_size + size <= MaxSize THEN "write" ELSE "full"
  BY DEF Fits
<1>6. line.n = lines + 1 /\ line.size = size
  OBVIOUS
<1> HIDE DEF r, pc, line
<1>7. me' = r /\ slot' = slot /\ \A k \in Slots : InSlot(k)' = InSlot(k)
  BY <1>2, StillBecame
<1> QED
  BY <1>2, <1>3, <1>4, <1>5, <1>6, <1>7 DEF LogEffect

\* The files, and what the run has of the line and its file, stay.
SameFiles == slot' = slot /\ \A k \in Slots : InSlot(k)' = InSlot(k)

SameData ==
  /\ me'.fd = me.fd /\ me'.buffer = me.buffer
  /\ me'.current_size = me.current_size /\ me'.line = me.line

\* The sink has no file, or one without a line, or it writes out what there is
\* and closes its file.
CheckEffect ==
  /\ me.pc = "full" /\ me'.line = me.line
  /\ slot' = slot /\ \A k \in Slots \ {0} : InSlot(k)' = InSlot(k)
  /\ UNCHANGED <<lines, last_warn, faults>>
  /\ \/ me.fd = 0 /\ me'.pc \in {"flush", "idle"} /\ SameData /\ InSlot(0)' = InSlot(0)
     \/ /\ me.fd # 0 /\ InSlot(0) \o me.buffer = <<>> /\ me'.pc = "write"
        /\ SameData /\ InSlot(0)' = InSlot(0)
     \/ /\ me.fd # 0 /\ InSlot(0) \o me.buffer # <<>>
        /\ me'.pc = "rotate" /\ me'.i = 3 /\ me'.fd = 0 /\ me'.buffer = <<>>
        /\ InSlot(0)' = InSlot(0) \o me.buffer

\* The look at the real size has this effect.
LEMMA CheckHasEffect == ASSUME OneRun, AllInv, CheckRealSize(run) PROVE CheckEffect
<1> USE DEF AllInv
<1> DEFINE flushed == [me EXCEPT !.buffer = <<>>]
           a == [me EXCEPT !.pc = AfterSink(me)]
           b == [flushed EXCEPT !.pc = "write"]
           c == [flushed EXCEPT !.pc = "rotate", !.fd = 0, !.i = MAX_LOG_FILES]
<1>1. /\ run \in Processes /\ DOMAIN me = Fields /\ 0 \in Slots /\ MAX_LOG_FILES = 3
      /\ me.fd \in Files \cup {0} /\ 0 \notin Files
      /\ me.buffer \in Seq(LineRecords) /\ InSlot(0) \in Seq(LineRecords)
  BY RunFacts
<1>2. me.pc = "full" /\ UNCHANGED <<lines, last_warn, faults>>
  BY DEF CheckRealSize, me
<1>3. me.fd # 0 => content[me.fd] = InSlot(0)
  BY DEF RunInv, FileInv, InSlot
<1>4. \/ me.fd = 0 /\ Step(run, a, slot, content)
      \/ me.fd # 0 /\ InSlot(0) \o me.buffer = <<>> /\ Step(run, b, slot, content)
      \/ /\ me.fd # 0 /\ InSlot(0) \o me.buffer # <<>>
         /\ Step(run, c, slot, Appended(me.fd, me.buffer))
  BY <1>3 DEF CheckRealSize, me
<1>5. /\ a.pc \in {"flush", "idle"} /\ a.fd = me.fd /\ a.buffer = me.buffer
      /\ a.current_size = me.current_size /\ a.line = me.line
  BY <1>1 DEF Fields, AfterSink
<1>6. /\ b.pc = "write" /\ b.fd = me.fd /\ b.buffer = <<>>
      /\ b.current_size = me.current_size /\ b.line = me.line
  BY <1>1 DEF Fields
<1>7. c.pc = "rotate" /\ c.fd = 0 /\ c.buffer = <<>> /\ c.i = 3 /\ c.line = me.line
  BY <1>1 DEF Fields
<1> HIDE DEF a, b, c
<1>8. CASE me.fd = 0 /\ Step(run, a, slot, content)
  <2>1. me' = a /\ slot' = slot /\ \A k \in Slots : InSlot(k)' = InSlot(k)
    BY <1>8, StillBecame
  <2> QED
    BY <1>1, <1>2, <1>5, <1>8, <2>1 DEF CheckEffect, SameData
<1>9. CASE me.fd # 0 /\ InSlot(0) \o me.buffer = <<>> /\ Step(run, b, slot, content)
  <2>1. me' = b /\ slot' = slot /\ \A k \in Slots : InSlot(k)' = InSlot(k)
    BY <1>9, StillBecame
  <2>2. me.buffer = <<>>
    BY <1>1, <1>9, ConcatEqualIffEmpty
  <2> QED
    BY <1>1, <1>2, <1>6, <1>9, <2>1, <2>2 DEF CheckEffect, SameData
<1>10. CASE /\ me.fd # 0 /\ InSlot(0) \o me.buffer # <<>>
            /\ Step(run, c, slot, Appended(me.fd, me.buffer))
  <2>1. /\ me' = c /\ slot' = slot /\ InSlot(0)' = InSlot(0) \o me.buffer
        /\ \A k \in Slots \ {0} : InSlot(k)' = InSlot(k)
    BY <1>1, <1>10, AppendBecame DEF RunInv
  <2> QED
    BY <1>2, <1>7, <1>10, <2>1 DEF CheckEffect
<1> QED
  BY <1>4, <1>8, <1>9, <1>10

\* A name that is missing is passed.
SkipEffect ==
  /\ me.pc = "rotate" /\ me.i > 0 /\ slot[me.i - 1] = 0
  /\ me'.pc = "rotate" /\ me'.i = me.i - 1 /\ SameData /\ SameFiles
  /\ UNCHANGED <<lines, last_warn, faults>>

\* Passing a missing name has this effect.
LEMMA SkipHasEffect == ASSUME OneRun, AllInv, SkipMissing(run) PROVE SkipEffect
<1> USE DEF AllInv
<1> DEFINE r == [me EXCEPT !.i = @ - 1]
<1>1. DOMAIN me = Fields
  BY RunFacts
<1>2. /\ me.pc = "rotate" /\ me.i > 0 /\ slot[me.i - 1] = 0
      /\ Step(run, r, slot, content) /\ UNCHANGED <<lines, last_warn, faults>>
  BY DEF SkipMissing, me
<1>3. /\ r.pc = me.pc /\ r.i = me.i - 1 /\ r.fd = me.fd /\ r.buffer = me.buffer
      /\ r.current_size = me.current_size /\ r.line = me.line
  BY <1>1 DEF Fields
<1> HIDE DEF r
<1>4. me' = r /\ slot' = slot /\ \A k \in Slots : InSlot(k)' = InSlot(k)
  BY <1>2, StillBecame
<1> QED
  BY <1>2, <1>3, <1>4 DEF SkipEffect, SameData, SameFiles

\* The target is removed: of the three names only the last can be in use.
RemoveEffect ==
  /\ me.i \in 1 .. 3
  /\ \/ me.pc = "rotate" /\ slot[me.i - 1] # 0 /\ me'.pc = "rename"
     \/ me.pc = "again" /\ me'.pc = "rename_again"
  /\ me'.i = me.i /\ SameData
  /\ \A k \in Slots : IF k = me.i THEN slot'[k] = 0 /\ InSlot(k)' = <<>>
                      ELSE slot'[k] = slot[k] /\ InSlot(k)' = InSlot(k)
  /\ UNCHANGED <<lines, last_warn, faults>>

\* Removing the target has this effect.
LEMMA RemoveHasEffect == ASSUME OneRun, AllInv, RemoveTarget(run) PROVE RemoveEffect
<1> USE DEF AllInv
<1> DEFINE pc == IF me.pc = "again" THEN "rename_again" ELSE "rename"
           r == [me EXCEPT !.pc = pc]
           names == [slot EXCEPT ![me.i] = 0]
<1>1. /\ DOMAIN me = Fields /\ slot \in [Slots -> Files \cup {0}] /\ me.i \in 0 .. 3
      /\ ProcessShape(me) /\ Slots = 0 .. 3
  BY RunFacts
<1>2. /\ \/ me.pc = "rotate" /\ me.i > 0 /\ slot[me.i - 1] # 0
         \/ me.pc = "again"
      /\ Step(run, r, names, content) /\ UNCHANGED <<lines, last_warn, faults>>
  BY DEF RemoveTarget, Target, me
<1>3. me.i \in 1 .. 3
  BY <1>1, <1>2 DEF ProcessShape, Rotating
<1>4. /\ r.pc = pc /\ r.i = me.i /\ r.fd = me.fd /\ r.buffer = me.buffer
      /\ r.current_size = me.current_size /\ r.line = me.line
  BY <1>1 DEF Fields
<1>5. \/ me.pc = "rotate" /\ slot[me.i - 1] # 0 /\ pc = "rename"
      \/ me.pc = "again" /\ pc = "rename_again"
  BY <1>2
<1>6. /\ names \in [Slots -> Files \cup {0}] /\ names[me.i] = 0
      /\ \A k \in Slots \ {me.i} : names[k] = slot[k]
  BY <1>1, <1>3
<1> HIDE DEF r, names, pc
<1>7. /\ me' = r /\ slot' = names
      /\ \A k \in Slots : InSlot(k)' = IF names[k] = 0 THEN <<>> ELSE content[names[k]]
  BY <1>2, <1>6, Became
<1>8. \A k \in Slots : IF k = me.i THEN slot'[k] = 0 /\ InSlot(k)' = <<>>
                       ELSE slot'[k] = slot[k] /\ InSlot(k)' = InSlot(k)
  BY <1>1, <1>3, <1>6, <1>7 DEF InSlot
<1> QED
  BY <1>2, <1>3, <1>4, <1>5, <1>6, <1>7, <1>8 DEF RemoveEffect, SameData

\* The file before a free name gets that name.
RenameEffect ==
  /\ me.pc \in {"rename", "rename_again"} /\ me.i \in 1 .. 3 /\ slot[me.i - 1] # 0
  /\ me'.pc = "rotate" /\ me'.i = me.i - 1 /\ SameData
  /\ \A k \in Slots :
       /\ k = me.i => slot'[k] = slot[k - 1] /\ InSlot(k)' = InSlot(k - 1)
       /\ k = me.i - 1 => slot'[k] = 0 /\ InSlot(k)' = <<>>
       /\ k \notin {me.i, me.i - 1} => slot'[k] = slot[k] /\ InSlot(k)' = InSlot(k)
  /\ UNCHANGED <<lines, last_warn, faults>>

\* A rename has this effect.
LEMMA RenameHasEffect == ASSUME OneRun, AllInv, RenameSource(run) PROVE RenameEffect
<1> USE DEF AllInv
<1> DEFINE r == [me EXCEPT !.pc = "rotate", !.i = @ - 1]
           names == Moved(me.i)
<1>1. /\ DOMAIN me = Fields /\ slot \in [Slots -> Files \cup {0}] /\ me.i \in 0 .. 3
      /\ ProcessShape(me) /\ Slots = 0 .. 3
  BY RunFacts
<1>2. /\ me.pc \in {"rename", "rename_again"} /\ slot[me.i - 1] # 0
      /\ Step(run, r, names, content) /\ UNCHANGED <<lines, last_warn, faults>>
  BY DEF RenameSource, me
<1>3. me.i \in 1 .. 3
  BY <1>1, <1>2 DEF ProcessShape, Rotating
<1>4. /\ r.pc = "rotate" /\ r.i = me.i - 1 /\ r.fd = me.fd /\ r.buffer = me.buffer
      /\ r.current_size = me.current_size /\ r.line = me.line
  BY <1>1 DEF Fields
<1>5. /\ names \in [Slots -> Files \cup {0}]
      /\ names[me.i] = slot[me.i - 1] /\ names[me.i - 1] = 0
      /\ \A k \in Slots : k \notin {me.i, me.i - 1} => names[k] = slot[k]
  BY <1>1, <1>3 DEF Moved
<1> HIDE DEF r, names
<1>6. /\ me' = r /\ slot' = names
      /\ \A k \in Slots : InSlot(k)' = IF names[k] = 0 THEN <<>> ELSE content[names[k]]
  <2>1. Step(run, r, names, content) /\ names \in [Slots -> Files \cup {0}]
    BY <1>2, <1>5
  <2> QED
    BY <2>1, Became
<1>7. ASSUME NEW k \in Slots
      PROVE  /\ k = me.i => slot'[k] = slot[k - 1] /\ InSlot(k)' = InSlot(k - 1)
             /\ k = me.i - 1 => slot'[k] = 0 /\ InSlot(k)' = <<>>
             /\ k \notin {me.i, me.i - 1} => slot'[k] = slot[k] /\ InSlot(k)' = InSlot(k)
  BY <1>1, <1>3, <1>5, <1>6 DEF InSlot
<1> QED
  BY <1>2, <1>3, <1>4, <1>6, <1>7 DEF RenameEffect, SameData

\* A rename fails, for the first time or again.
RenameFailsEffect ==
  /\ \/ me.pc = "rename" /\ me'.pc = "again"
     \/ me.pc = "rename_again" /\ me'.pc = "give_up"
  /\ me'.i = me.i /\ SameData /\ SameFiles
  /\ IF slot[me.i - 1] = 0 THEN faults' = faults ELSE faults' = faults + 1
  /\ UNCHANGED <<lines, last_warn>>

\* A failed rename has this effect.
LEMMA RenameFailsHasEffect == ASSUME OneRun, AllInv, RenameFails(run) PROVE RenameFailsEffect
<1> USE DEF AllInv
<1> DEFINE pc == IF me.pc = "rename" THEN "again" ELSE "give_up"
           r == [me EXCEPT !.pc = pc]
<1>1. DOMAIN me = Fields
  BY RunFacts
<1>2. /\ me.pc \in {"rename", "rename_again"} /\ Step(run, r, slot, content)
      /\ IF slot[me.i - 1] = 0 THEN faults' = faults ELSE faults' = faults + 1
      /\ UNCHANGED <<lines, last_warn>>
  BY DEF RenameFails, me
<1>3. /\ r.pc = pc /\ r.i = me.i /\ r.fd = me.fd /\ r.buffer = me.buffer
      /\ r.current_size = me.current_size /\ r.line = me.line
  BY <1>1 DEF Fields
<1>4. \/ me.pc = "rename" /\ pc = "again"
      \/ me.pc = "rename_again" /\ pc = "give_up"
  BY <1>2
<1> HIDE DEF r, pc
<1>5. me' = r /\ slot' = slot /\ \A k \in Slots : InSlot(k)' = InSlot(k)
  BY <1>2, StillBecame
<1> QED
  BY <1>2, <1>3, <1>4, <1>5 DEF RenameFailsEffect, SameData, SameFiles

\* The log file is opened anew, and is empty.
ReopenEffect ==
  /\ \/ me.pc = "give_up" /\ me'.pc \in {"flush", "idle"}
     \/ me.pc = "rotate" /\ me.i = 0 /\ me'.pc = "write"
  /\ me.fd = 0 /\ me'.buffer = me.buffer /\ me'.line = me.line
  /\ me'.fd = slot'[0] /\ slot'[0] # 0 /\ me'.current_size = 0
  /\ InSlot(0)' = <<>>
  /\ \A k \in Slots \ {0} : slot'[k] = slot[k] /\ InSlot(k)' = InSlot(k)
  /\ UNCHANGED <<lines, last_warn, faults>>

\* A step that truncates the log file, and creates it when it is missing.
LEMMA TruncatedBecame ==
  ASSUME OneRun, AllInv, me.pc = "give_up" \/ (me.pc = "rotate" /\ me.i = 0), NEW r,
         Step(run, r, NamedBase(Base), Truncated(Base))
  PROVE  /\ me' = r /\ me.fd = 0
         /\ slot'[0] = Base /\ Base # 0 /\ InSlot(0)' = <<>>
         /\ \A k \in Slots \ {0} : slot'[k] = slot[k] /\ InSlot(k)' = InSlot(k)
<1> USE DEF AllInv
<1> DEFINE f == Base
<1>1. /\ slot \in [Slots -> Files \cup {0}] /\ run \in Processes
      /\ ProcessShape(me) /\ 0 \in Slots /\ 0 \notin Files /\ Shape /\ OneName
      /\ content \in [Files -> Seq(LineRecords)]
  BY RunFacts DEF OrderInv
<1>2. Step(run, r, NamedBase(f), Truncated(f))
  OBVIOUS
<1>3. me.fd = 0
  BY <1>1 DEF ProcessShape, Rotating
<1>4. f \in Files /\ (f = slot[0] \/ \A k \in Slots : slot[k] # f)
  BY <1>1, <1>3, BaseFile DEF me, Base
<1>5. /\ Truncated(f)[f] = <<>>
      /\ \A g \in Files : g # f => Truncated(f)[g] = content[g]
  BY <1>1, <1>4 DEF Truncated
<1> HIDE DEF f
<1>6. /\ NamedBase(f) \in [Slots -> Files \cup {0}] /\ NamedBase(f)[0] = f
      /\ \A k \in Slots : k # 0 => NamedBase(f)[k] = slot[k]
      /\ \A j, k \in Slots :
           NamedBase(f)[j] = NamedBase(f)[k] /\ NamedBase(f)[j] # 0 => j = k
  BY <1>1, <1>4, NamedBaseFacts
<1>7. /\ me' = r /\ slot' = NamedBase(f)
      /\ \A k \in Slots : InSlot(k)' =
           IF NamedBase(f)[k] = 0 THEN <<>> ELSE Truncated(f)[NamedBase(f)[k]]
  BY <1>2, <1>6, Became
<1>8. InSlot(0)' = <<>>
  BY <1>1, <1>4, <1>5, <1>6, <1>7
<1>9. ASSUME NEW k \in Slots \ {0} PROVE slot'[k] = slot[k] /\ InSlot(k)' = InSlot(k)
  <2>1. NamedBase(f)[k] = slot[k] /\ slot[k] \in Files \cup {0}
    BY <1>1, <1>6
  <2>2. slot[k] # 0 => slot[k] # f
    BY <1>1, <1>4, <1>6, <2>1
  <2> QED
    BY <1>5, <1>7, <2>1, <2>2 DEF InSlot
<1>10. slot'[0] = f /\ f # 0
  BY <1>1, <1>4, <1>6, <1>7
<1> QED
  BY <1>3, <1>7, <1>8, <1>9, <1>10 DEF f

\* Opening the log file anew has this effect.
LEMMA ReopenHasEffect == ASSUME OneRun, AllInv, Reopen(run) PROVE ReopenEffect
<1> USE DEF AllInv
<1> DEFINE pc == IF me.pc = "give_up" THEN AfterSink(me) ELSE "write"
           r == [me EXCEPT !.pc = pc, !.fd = Base, !.current_size = 0]
<1>1. DOMAIN me = Fields
  BY RunFacts
<1>2. /\ me.pc = "give_up" \/ (me.pc = "rotate" /\ me.i = 0)
      /\ Step(run, r, NamedBase(Base), Truncated(Base))
      /\ UNCHANGED <<lines, last_warn, faults>>
  BY DEF Reopen, me, Base
<1>3. /\ r.pc = pc /\ r.fd = Base /\ r.buffer = me.buffer
      /\ r.current_size = 0 /\ r.line = me.line
  BY <1>1 DEF Fields
<1>4. \/ me.pc = "give_up" /\ pc \in {"flush", "idle"}
      \/ me.pc = "rotate" /\ me.i = 0 /\ pc = "write"
  BY <1>2 DEF AfterSink
<1> HIDE DEF r, pc
<1>5. /\ me' = r /\ me.fd = 0
      /\ slot'[0] = Base /\ Base # 0 /\ InSlot(0)' = <<>>
      /\ \A k \in Slots \ {0} : slot'[k] = slot[k] /\ InSlot(k)' = InSlot(k)
  BY <1>2, TruncatedBecame
<1> QED
  BY <1>2, <1>3, <1>4, <1>5 DEF ReopenEffect

\* The log file cannot be opened anew.
ReopenFailsEffect ==
  /\ me.pc = "give_up" \/ (me.pc = "rotate" /\ me.i = 0)
  /\ me'.pc \in {"flush", "idle"} /\ SameData /\ SameFiles
  /\ faults' = faults + 1 /\ UNCHANGED <<lines, last_warn>>

\* The log file is emptied, and then cannot be opened.
EmptiedEffect ==
  /\ me.pc = "give_up" \/ (me.pc = "rotate" /\ me.i = 0)
  /\ me'.pc \in {"flush", "idle"} /\ SameData
  /\ me.fd = 0 /\ InSlot(0)' = <<>>
  /\ \A k \in Slots \ {0} : slot'[k] = slot[k] /\ InSlot(k)' = InSlot(k)
  /\ faults' = faults + 1 /\ UNCHANGED <<lines, last_warn>>

\* A failure to open it has one of these effects.
LEMMA ReopenFailsHasEffect ==
  ASSUME OneRun, AllInv, ReopenFails(run) PROVE ReopenFailsEffect \/ EmptiedEffect
<1> USE DEF AllInv
<1> DEFINE r == [me EXCEPT !.pc = AfterSink(me)]
<1>1. DOMAIN me = Fields
  BY RunFacts
<1>2. /\ me.pc = "give_up" \/ (me.pc = "rotate" /\ me.i = 0)
      /\ \/ Step(run, r, slot, content)
         \/ Step(run, r, NamedBase(Base), Truncated(Base))
      /\ faults' = faults + 1 /\ UNCHANGED <<lines, last_warn>>
  BY DEF ReopenFails, me, Base
<1>3. /\ r.pc \in {"flush", "idle"} /\ r.fd = me.fd /\ r.buffer = me.buffer
      /\ r.current_size = me.current_size /\ r.line = me.line
  BY <1>1 DEF Fields, AfterSink
<1> HIDE DEF r
<1>4. CASE Step(run, r, slot, content)
  <2>1. me' = r /\ slot' = slot /\ \A k \in Slots : InSlot(k)' = InSlot(k)
    BY <1>4, StillBecame
  <2> QED
    BY <1>2, <1>3, <2>1 DEF ReopenFailsEffect, SameData, SameFiles
<1>5. CASE Step(run, r, NamedBase(Base), Truncated(Base))
  <2>1. /\ me' = r /\ me.fd = 0 /\ InSlot(0)' = <<>>
        /\ \A k \in Slots \ {0} : slot'[k] = slot[k] /\ InSlot(k)' = InSlot(k)
    BY <1>2, <1>5, TruncatedBecame
  <2> QED
    BY <1>2, <1>3, <2>1 DEF EmptiedEffect, SameData
<1> QED
  BY <1>2, <1>4, <1>5

\* The line goes behind the buffer, and what the buffer hands on to the file.
WriteEffect(k) ==
  /\ me.pc = "write" /\ me'.pc \in {"flush", "idle"}
  /\ me'.line = me.line /\ me'.fd = me.fd
  /\ me'.current_size = me.current_size + me.line.size
  /\ slot' = slot /\ \A j \in Slots \ {0} : InSlot(j)' = InSlot(j)
  /\ UNCHANGED <<lines, last_warn, faults>>
  /\ \/ me.fd = 0 /\ me'.buffer = <<>> /\ InSlot(0)' = InSlot(0)
     \/ LET ls == Append(me.buffer, me.line)
        IN  /\ me.fd # 0 /\ k \in 0 .. Len(ls)
            /\ me'.buffer = SubSeq(ls, k + 1, Len(ls))
            /\ InSlot(0)' = InSlot(0) \o SubSeq(ls, 1, k)

\* A write has this effect.
LEMMA WriteHasEffect ==
  ASSUME OneRun, AllInv, NEW k \in 0 .. MaxLines, WriteLine(run, k) PROVE WriteEffect(k)
<1> USE DEF AllInv
<1> DEFINE ls == IF me.fd = 0 THEN <<>> ELSE Append(me.buffer, me.line)
           front == SubSeq(ls, 1, k)
           rest == SubSeq(ls, k + 1, Len(ls))
           r == [me EXCEPT !.pc = AfterSink(me), !.buffer = rest,
                           !.current_size = @ + me.line.size]
<1>1. /\ DOMAIN me = Fields /\ me.buffer \in Seq(LineRecords) /\ me.line \in LineRecords
      /\ 0 \in Slots /\ InSlot(0) \in Seq(LineRecords)
  BY RunFacts
<1>2. /\ me.pc = "write" /\ k <= Len(ls)
      /\ Step(run, r, slot, Appended(me.fd, front))
  BY DEF WriteLine, me, Buffered
<1>3. UNCHANGED <<lines, last_warn, faults>>
  BY DEF WriteLine
<1>4. k \in Nat
  BY LogAssumption
<1>5. ls \in Seq(LineRecords)
  BY <1>1
<1>6. /\ r.pc \in {"flush", "idle"} /\ r.fd = me.fd /\ r.buffer = rest
      /\ r.current_size = me.current_size + me.line.size /\ r.line = me.line
  BY <1>1 DEF Fields, AfterSink
<1>7. front \in Seq(LineRecords) /\ k \in 0 .. Len(ls)
  <2> HIDE DEF ls
  <2> QED
    BY <1>2, <1>4, <1>5
<1>8. me.fd = 0 => front = <<>> /\ rest = <<>>
  BY <1>2, <1>4
<1> HIDE DEF r, front
<1>9. /\ me' = r /\ slot' = slot /\ InSlot(0)' = InSlot(0) \o front
      /\ \A j \in Slots \ {0} : InSlot(j)' = InSlot(j)
  BY <1>2, <1>7, <1>8, AppendBecame DEF RunInv
<1>10. CASE me.fd = 0
  <2>1. InSlot(0) \o front = InSlot(0)
    BY <1>1, <1>8, <1>10, ConcatEmptySeq
  <2> QED
    BY <1>2, <1>3, <1>6, <1>8, <1>9, <1>10, <2>1 DEF WriteEffect
<1>11. CASE me.fd # 0
  <2>1. ls = Append(me.buffer, me.line)
    BY <1>11
  <2> HIDE DEF ls
  <2> QED
    BY <1>2, <1>3, <1>6, <1>7, <1>9, <1>11, <2>1 DEF WriteEffect, front
<1> QED
  BY <1>10, <1>11

\* The buffer is written out: for a warning, or when the run ends.
FlushEffect ==
  /\ \/ me.pc = "flush" /\ me'.pc = "idle" /\ me'.fd = me.fd
        /\ me'.current_size = me.current_size /\ last_warn' = me.line.n
     \/ me.pc = "idle" /\ me'.pc = "down" /\ me'.fd = 0 /\ last_warn' = last_warn
  /\ me'.buffer = <<>> /\ InSlot(0)' = InSlot(0) \o me.buffer
  /\ slot' = slot /\ \A k \in Slots \ {0} : InSlot(k)' = InSlot(k)
  /\ UNCHANGED <<lines, faults>>

\* A flush and an exit have this effect.
LEMMA FlushHasEffect ==
  ASSUME OneRun, AllInv, FlushWarning(run) \/ ExitProcess(run) PROVE FlushEffect
<1> USE DEF AllInv
<1>1. /\ DOMAIN me = Fields /\ me.buffer \in Seq(LineRecords)
      /\ (me.fd # 0 \/ me.buffer = <<>>) /\ FileInv
  BY RunFacts DEF RunInv, FileInv
<1>2. CASE FlushWarning(run)
  <2> DEFINE r == [me EXCEPT !.pc = "idle", !.buffer = <<>>]
  <2>1. /\ me.pc = "flush" /\ Step(run, r, slot, Appended(me.fd, me.buffer))
        /\ last_warn' = me.line.n /\ UNCHANGED <<lines, faults>>
    BY <1>2 DEF FlushWarning, me
  <2>2. /\ r.pc = "idle" /\ r.fd = me.fd /\ r.buffer = <<>>
        /\ r.current_size = me.current_size
    BY <1>1 DEF Fields
  <2> HIDE DEF r
  <2>3. /\ me' = r /\ slot' = slot /\ InSlot(0)' = InSlot(0) \o me.buffer
        /\ \A k \in Slots \ {0} : InSlot(k)' = InSlot(k)
    BY <1>1, <2>1, AppendBecame
  <2> QED
    BY <2>1, <2>2, <2>3 DEF FlushEffect
<1>3. CASE ExitProcess(run)
  <2>1. /\ me.pc = "idle" /\ Step(run, Fresh, slot, Appended(me.fd, me.buffer))
        /\ UNCHANGED <<lines, last_warn, faults>>
    BY <1>3 DEF ExitProcess, me
  <2>2. Fresh.pc = "down" /\ Fresh.fd = 0 /\ Fresh.buffer = <<>>
    BY DEF Fresh
  <2>3. /\ me' = Fresh /\ slot' = slot /\ InSlot(0)' = InSlot(0) \o me.buffer
        /\ \A k \in Slots \ {0} : InSlot(k)' = InSlot(k)
    BY <1>1, <2>1, AppendBecame
  <2> QED
    BY <2>1, <2>2, <2>3 DEF FlushEffect
<1> QED
  BY <1>2, <1>3

\* A crash takes the buffer.
CrashEffect ==
  /\ me'.pc = "down" /\ me'.fd = 0 /\ me'.buffer = <<>> /\ SameFiles
  /\ UNCHANGED <<lines, last_warn, faults>>

\* A crash has this effect.
LEMMA CrashHasEffect == ASSUME OneRun, AllInv, CrashProcess(run) PROVE CrashEffect
<1> USE DEF AllInv
<1>1. Step(run, Fresh, slot, content) /\ UNCHANGED <<lines, last_warn, faults>>
  BY DEF CrashProcess
<1>2. Fresh.pc = "down" /\ Fresh.fd = 0 /\ Fresh.buffer = <<>>
  BY DEF Fresh
<1>3. me' = Fresh /\ slot' = slot /\ \A k \in Slots : InSlot(k)' = InSlot(k)
  BY <1>1, StillBecame
<1> QED
  BY <1>1, <1>2, <1>3 DEF CrashEffect, SameFiles

\* One of these effects is what a step has.
Effect ==
  \/ StartEffect
  \/ \E size \in Sizes, warn \in BOOLEAN : LogEffect(size, warn)
  \/ CheckEffect
  \/ SkipEffect
  \/ RemoveEffect
  \/ RenameEffect
  \/ RenameFailsEffect
  \/ ReopenEffect
  \/ ReopenFailsEffect
  \/ EmptiedEffect
  \/ \E k \in Nat : WriteEffect(k)
  \/ FlushEffect
  \/ CrashEffect

\* A step of a log with one run is a step of that run.
LEMMA StepHasEffect == ASSUME OneRun, AllInv, LogNext PROVE Effect
<1>1. \A p \in Processes : p = run
  BY RunFacts DEF AllInv
<1>2. \/ StartProcess(run)
      \/ \E size \in Sizes, warn \in BOOLEAN : LogLine(run, size, warn)
      \/ CheckRealSize(run) \/ SkipMissing(run) \/ RemoveTarget(run)
      \/ RenameSource(run) \/ RenameFails(run) \/ Reopen(run) \/ ReopenFails(run)
      \/ \E k \in 0 .. MaxLines : WriteLine(run, k)
      \/ FlushWarning(run) \/ ExitProcess(run) \/ CrashProcess(run)
  BY <1>1 DEF LogNext
<1>3. CASE \E size \in Sizes, warn \in BOOLEAN : LogLine(run, size, warn)
  BY <1>3, LogHasEffect DEF Effect
<1>4. CASE \E k \in 0 .. MaxLines : WriteLine(run, k)
  <2>1. PICK k \in 0 .. MaxLines : WriteLine(run, k)
    BY <1>4
  <2>2. k \in Nat
    BY LogAssumption
  <2> QED
    BY <2>1, <2>2, WriteHasEffect DEF Effect
<1>5. CASE \/ StartProcess(run) \/ CheckRealSize(run) \/ SkipMissing(run)
           \/ RemoveTarget(run) \/ RenameSource(run) \/ RenameFails(run)
  BY <1>5, StartHasEffect, CheckHasEffect, SkipHasEffect, RemoveHasEffect,
     RenameHasEffect, RenameFailsHasEffect DEF Effect
<1>6. CASE \/ Reopen(run) \/ ReopenFails(run)
           \/ FlushWarning(run) \/ ExitProcess(run) \/ CrashProcess(run)
  BY <1>6, ReopenHasEffect, ReopenFailsHasEffect, FlushHasEffect, CrashHasEffect DEF Effect
<1> QED
  BY <1>2, <1>3, <1>4, <1>5, <1>6

----------------------------------------------------------------------------
\* While it rotates, and while it is not running, the run has no file.
LEMMA NoFileFacts ==
  ASSUME OneRun, AllInv
  PROVE  me.pc \in {"down", "rotate", "rename", "again", "rename_again", "give_up"} =>
           me.fd = 0 /\ me.buffer = <<>>
BY RunFacts DEF AllInv, RunInv, FileInv, ProcessShape, Rotating

\* Each effect keeps the run on the file with the base name.
LEMMA FileKept == ASSUME OneRun, AllInv, Effect PROVE FileInv'
<1>1. /\ me.fd \in {0, slot[0]} /\ (me.fd = 0 => me.buffer = <<>>)
      /\ 0 \in Slots
  BY RunFacts DEF AllInv, RunInv, FileInv
<1>2. CASE StartEffect
  BY <1>2 DEF FileInv, StartEffect
<1>3. CASE \E size \in Sizes, warn \in BOOLEAN : LogEffect(size, warn)
  BY <1>1, <1>3 DEF FileInv, LogEffect
<1>4. CASE CheckEffect
  BY <1>1, <1>4 DEF FileInv, CheckEffect, SameData
<1>5. CASE SkipEffect \/ RenameFailsEffect \/ ReopenFailsEffect
  BY <1>1, <1>5 DEF FileInv, SkipEffect, RenameFailsEffect, ReopenFailsEffect,
                    SameData, SameFiles
<1>6. CASE RemoveEffect \/ RenameEffect
  <2>1. me.fd = 0 /\ me.buffer = <<>> /\ SameData
    BY <1>6, NoFileFacts DEF RemoveEffect, RenameEffect
  <2> QED
    BY <2>1 DEF FileInv, SameData
<1>7. CASE ReopenEffect
  BY <1>1, <1>7 DEF FileInv, ReopenEffect
<1>8. CASE \E k \in Nat : WriteEffect(k)
  BY <1>1, <1>8 DEF FileInv, WriteEffect
<1>9. CASE FlushEffect
  BY <1>1, <1>9 DEF FileInv, FlushEffect
<1>10. CASE CrashEffect
  BY <1>10 DEF FileInv, CrashEffect
<1>11. CASE EmptiedEffect
  BY <1>1, <1>11 DEF FileInv, EmptiedEffect, SameData
<1> QED
  BY <1>2, <1>3, <1>4, <1>5, <1>6, <1>7, <1>8, <1>9, <1>10, <1>11 DEF Effect

----------------------------------------------------------------------------
\* Of a file within the limit, each part is; and no lines are.
LEMMA SmallFacts ==
  /\ Small(<<>>)
  /\ \A s, t \in Seq(LineRecords) : Small(s \o t) => Small(s)
<1>1. MaxSize \in Nat
  BY LogAssumption
<1>2. Small(<<>>)
  BY <1>1, SizeOfNone DEF Small
<1>3. ASSUME NEW s \in Seq(LineRecords), NEW t \in Seq(LineRecords), Small(s \o t)
      PROVE  Small(s)
  <2>1. SizeOf(s \o t) = SizeOf(s) + SizeOf(t) /\ SizeOf(s) \in Nat /\ SizeOf(t) \in Nat
    BY SizeOfConcat, SizeOfNat
  <2>2. CASE SizeOf(s \o t) <= MaxSize
    BY <1>1, <2>1, <2>2 DEF Small
  <2>3. CASE Len(s \o t) = 1
    <3>1. Len(s) \in Nat /\ Len(t) \in Nat /\ Len(s) + Len(t) = 1
      BY <2>3
    <3>2. CASE Len(s) = 1
      BY <3>2 DEF Small
    <3>3. CASE Len(s) = 0
      <4>1. s = <<>>
        BY <3>3, EmptySeq
      <4> QED
        BY <1>2, <4>1
    <3>4. Len(s) = 1 \/ Len(s) = 0
      BY <3>1
    <3> QED
      BY <3>2, <3>3, <3>4
  <2> QED
    BY <1>3, <2>2, <2>3 DEF Small
<1> QED
  BY <1>2, <1>3

\* Lines can be put together in any order of steps.
LEMMA Associative ==
  \A s, t, u \in Seq(LineRecords) : (s \o t) \o u = s \o (t \o u)
<1> TAKE s, t, u \in Seq(LineRecords)
<1> QED
  BY ConcatAssociative

\* A log file and a buffer that together are within the limit still are when
\* part of the buffer, or all of it, is in the file.
LEMMA SmallSettled ==
  ASSUME NEW d \in Seq(LineRecords), NEW s \in Seq(LineRecords), NEW t \in Seq(LineRecords),
         Small(d \o (s \o t))
  PROVE  Small((d \o s) \o t)
BY Associative

\* A buffer with a line behind it, parted anywhere.
LEMMA PartedFacts ==
  ASSUME NEW b \in Seq(LineRecords), NEW l \in LineRecords, NEW k \in 0 .. Len(Append(b, l))
  PROVE  LET ls == Append(b, l)
             front == SubSeq(ls, 1, k)
             rest == SubSeq(ls, k + 1, Len(ls))
         IN  /\ front \in Seq(LineRecords) /\ rest \in Seq(LineRecords)
             /\ front \o rest = ls /\ ls = b \o <<l>> /\ <<l>> \in Seq(LineRecords)
             /\ SizeOf(front) + SizeOf(rest) = SizeOf(b) + l.size
<1> DEFINE ls == Append(b, l)
           front == SubSeq(ls, 1, k)
           rest == SubSeq(ls, k + 1, Len(ls))
<1>1. ls \in Seq(LineRecords) /\ ls = b \o <<l>> /\ <<l>> \in Seq(LineRecords)
  OBVIOUS
<1>2. Len(ls) \in Nat /\ k \in 0 .. Len(ls) /\ Len(ls) = Len(b) + 1 /\ Len(b) \in Nat
  OBVIOUS
<1> HIDE DEF ls
<1>3. front \in Seq(LineRecords) /\ rest \in Seq(LineRecords)
  BY <1>1, <1>2
<1>4. front \o rest = ls
  <2>1. front \o rest = SubSeq(ls, 1, Len(ls))
    <3>1. 1 \in 1 .. Len(ls) + 1 /\ k \in 1 - 1 .. Len(ls) /\ Len(ls) \in k .. Len(ls)
      BY <1>2
    <3> QED
      BY <1>1, <3>1, ConcatAdjacentSubSeq
  <2>2. SubSeq(ls, 1, Len(ls)) = ls
    BY <1>1
  <2> QED
    BY <2>1, <2>2
<1>5. SizeOf(ls) = SizeOf(b) + l.size
  BY <1>1, SizeOfConcat, SizeOfOne
<1>6. SizeOf(front \o rest) = SizeOf(front) + SizeOf(rest)
  BY <1>3, SizeOfConcat
<1> QED
  BY <1>1, <1>3, <1>4, <1>5, <1>6 DEF ls

\* What the size says of a state, and what is to be shown of the next one.
LEMMA SizeFacts ==
  ASSUME OneRun, AllInv
  PROVE  /\ me.buffer \in Seq(LineRecords) /\ InSlot(0) \in Seq(LineRecords)
         /\ \A k \in Slots : InSlot(k) \in Seq(LineRecords) /\ Small(InSlot(k))
         /\ Small(InSlot(0) \o me.buffer)
         /\ me.fd # 0 => me.current_size = SizeOf(InSlot(0)) + SizeOf(me.buffer)
         /\ SizeOf(InSlot(0)) \in Nat /\ SizeOf(me.buffer) \in Nat
         /\ InSlot(0) \o <<>> = InSlot(0)
         /\ Slots = 0 .. 3 /\ 0 \in Slots
<1>1. /\ me.buffer \in Seq(LineRecords) /\ InSlot(0) \in Seq(LineRecords)
      /\ \A k \in Slots : InSlot(k) \in Seq(LineRecords)
      /\ Slots = 0 .. 3 /\ 0 \in Slots
  BY RunFacts DEF AllInv
<1>2. /\ Small(InSlot(0) \o me.buffer) /\ \A k \in Slots \ {0} : Small(InSlot(k))
      /\ me.fd # 0 => me.current_size = SizeOf(InSlot(0)) + SizeOf(me.buffer)
  BY DEF AllInv, RunInv, SizeInv
<1>3. Small(InSlot(0))
  BY <1>1, <1>2, SmallFacts
<1>4. SizeOf(InSlot(0)) \in Nat /\ SizeOf(me.buffer) \in Nat
  BY <1>1, SizeOfNat
<1>5. InSlot(0) \o <<>> = InSlot(0)
  BY <1>1, ConcatEmptySeq
<1> QED
  BY <1>1, <1>2, <1>3, <1>4, <1>5

\* A write keeps the sizes.
LEMMA WriteKeepsSize ==
  ASSUME OneRun, AllInv, NEW k \in Nat, WriteEffect(k) PROVE SizeInv'
<1>1. /\ me.buffer \in Seq(LineRecords) /\ InSlot(0) \in Seq(LineRecords)
      /\ \A j \in Slots : InSlot(j) \in Seq(LineRecords) /\ Small(InSlot(j))
      /\ me.fd # 0 => me.current_size = SizeOf(InSlot(0)) + SizeOf(me.buffer)
      /\ SizeOf(InSlot(0)) \in Nat /\ SizeOf(me.buffer) \in Nat
      /\ InSlot(0) \o <<>> = InSlot(0) /\ 0 \in Slots
  BY SizeFacts
<1>2. me.line \in LineRecords /\ me.line.size \in Nat
  BY RunFacts DEF AllInv
<1>3. /\ me.pc = "write" /\ me'.pc # "write" /\ me'.fd = me.fd
      /\ me'.current_size = me.current_size + me.line.size
      /\ \A j \in Slots \ {0} : InSlot(j)' = InSlot(j)
  BY DEF WriteEffect
<1>4. CASE me.fd = 0
  <2>1. me'.buffer = <<>> /\ InSlot(0)' = InSlot(0)
    BY <1>4 DEF WriteEffect
  <2> QED
    BY <1>1, <1>3, <1>4, <2>1 DEF SizeInv
<1>5. CASE me.fd # 0
  <2> DEFINE ls == Append(me.buffer, me.line)
             front == SubSeq(ls, 1, k)
             rest == SubSeq(ls, k + 1, Len(ls))
             one == <<me.line>>
  <2>1. k \in 0 .. Len(ls) /\ me'.buffer = rest /\ InSlot(0)' = InSlot(0) \o front
    BY <1>5 DEF WriteEffect
  <2>2. /\ front \in Seq(LineRecords) /\ rest \in Seq(LineRecords)
        /\ front \o rest = ls /\ ls = me.buffer \o one /\ one \in Seq(LineRecords)
        /\ SizeOf(front) + SizeOf(rest) = SizeOf(me.buffer) + me.line.size
    BY <1>1, <1>2, <2>1, PartedFacts
  <2>3. SizeOf(one) = me.line.size /\ Len(one) = 1
    BY <1>2, SizeOfOne
  <2> HIDE DEF ls, front, rest, one
  <2>4. /\ SizeOf(InSlot(0) \o front) = SizeOf(InSlot(0)) + SizeOf(front)
        /\ SizeOf(front) \in Nat /\ SizeOf(rest) \in Nat
    BY <1>1, <2>2, SizeOfConcat, SizeOfNat
  <2>5. me'.current_size = SizeOf(InSlot(0)') + SizeOf(me'.buffer)
    <3>1. SizeOf(InSlot(0)') = SizeOf(InSlot(0)) + SizeOf(front)
      BY <2>1, <2>4, Zenon
    <3>2. SizeOf(me'.buffer) = SizeOf(rest)
      BY <2>1, Zenon
    <3>3. me'.current_size = SizeOf(InSlot(0)) + SizeOf(me.buffer) + me.line.size
      BY <1>1, <1>3, <1>5
    <3>4. SizeOf(front) + SizeOf(rest) = SizeOf(me.buffer) + me.line.size
      BY <2>2
    <3> QED
      BY <1>1, <1>2, <2>4, <3>1, <3>2, <3>3, <3>4
  <2>6. Small((InSlot(0) \o me.buffer) \o one)
    <3>1. InSlot(0) \o me.buffer \in Seq(LineRecords)
      BY <1>1
    <3>2. \/ me.current_size + me.line.size <= MaxSize
          \/ InSlot(0) \o me.buffer = <<>>
      BY <1>3, <1>5 DEF AllInv, RunInv, SizeInv
    <3>3. CASE me.current_size + me.line.size <= MaxSize
      <4>1. SizeOf((InSlot(0) \o me.buffer) \o one) =
              (SizeOf(InSlot(0)) + SizeOf(me.buffer)) + me.line.size
        BY <1>1, <2>2, <2>3, <3>1, SizeOfConcat
      <4> QED
        BY <1>1, <1>5, <3>3, <4>1 DEF Small
    <3>4. CASE InSlot(0) \o me.buffer = <<>>
      <4>1. (InSlot(0) \o me.buffer) \o one = one
        BY <2>2, <3>4, ConcatEmptySeq
      <4> QED
        BY <2>3, <4>1 DEF Small
    <3> QED
      BY <3>2, <3>3, <3>4
  <2>7. Small(InSlot(0) \o (front \o rest))
    <3>0. /\ InSlot(0) \in Seq(LineRecords) /\ me.buffer \in Seq(LineRecords)
          /\ one \in Seq(LineRecords)
      BY <1>1, <2>2
    <3>1. (InSlot(0) \o me.buffer) \o one = InSlot(0) \o (me.buffer \o one)
      BY <3>0, Associative
    <3> QED
      BY <2>2, <2>6, <3>1
  <2>8. Small((InSlot(0) \o front) \o rest)
    BY <1>1, <2>2, <2>7, SmallSettled
  <2> QED
    BY <1>1, <1>3, <2>1, <2>5, <2>8 DEF SizeInv
<1> QED
  BY <1>4, <1>5

\* Each effect keeps the sizes.
LEMMA SizeKept == ASSUME OneRun, AllInv, Effect PROVE SizeInv'
<1>1. /\ me.buffer \in Seq(LineRecords) /\ InSlot(0) \in Seq(LineRecords)
      /\ \A k \in Slots : InSlot(k) \in Seq(LineRecords) /\ Small(InSlot(k))
      /\ Small(InSlot(0) \o me.buffer)
      /\ me.fd # 0 => me.current_size = SizeOf(InSlot(0)) + SizeOf(me.buffer)
      /\ SizeOf(InSlot(0)) \in Nat /\ SizeOf(me.buffer) \in Nat
      /\ InSlot(0) \o <<>> = InSlot(0)
      /\ Slots = 0 .. 3 /\ 0 \in Slots
  BY SizeFacts
<1>2. Small(<<>>) /\ SizeOf(<<>>) = 0 /\ <<>> \o <<>> = <<>>
  BY SmallFacts, SizeOfNone
<1>3. CASE StartEffect
  BY <1>1, <1>2, <1>3 DEF SizeInv, StartEffect
<1>4. CASE \E size \in Sizes, warn \in BOOLEAN : LogEffect(size, warn)
  <2>1. PICK size \in Sizes, warn \in BOOLEAN : LogEffect(size, warn)
    BY <1>4
  <2>2. /\ me'.pc = IF me.current_size + size <= MaxSize THEN "write" ELSE "full"
        /\ me'.line.size = size
        /\ me'.fd = me.fd /\ me'.buffer = me.buffer /\ me'.current_size = me.current_size
        /\ \A k \in Slots : InSlot(k)' = InSlot(k)
    BY <2>1 DEF LogEffect
  <2> QED
    BY <1>1, <2>2 DEF SizeInv
<1>5. CASE CheckEffect
  <2>1. \A k \in Slots \ {0} : InSlot(k)' = InSlot(k)
    BY <1>5 DEF CheckEffect
  <2>2. CASE me.fd = 0 /\ me'.pc \in {"flush", "idle"} /\ SameData /\ InSlot(0)' = InSlot(0)
    BY <1>1, <2>1, <2>2 DEF SizeInv, SameData
  <2>3. CASE /\ me.fd # 0 /\ InSlot(0) \o me.buffer = <<>> /\ me'.pc = "write"
             /\ SameData /\ InSlot(0)' = InSlot(0)
    BY <1>1, <2>1, <2>3 DEF SizeInv, SameData
  <2>4. CASE /\ me'.pc = "rotate" /\ me'.fd = 0 /\ me'.buffer = <<>>
             /\ InSlot(0)' = InSlot(0) \o me.buffer
    <3>1. InSlot(0)' \o me'.buffer = InSlot(0) \o me.buffer
      <4>1. InSlot(0) \o me.buffer \in Seq(LineRecords)
        BY <1>1
      <4>2. (InSlot(0) \o me.buffer) \o <<>> = InSlot(0) \o me.buffer
        BY <4>1, ConcatEmptySeq
      <4> QED
        BY <2>4, <4>2
    <3> QED
      BY <1>1, <2>1, <2>4, <3>1 DEF SizeInv
  <2> QED
    BY <1>5, <2>2, <2>3, <2>4 DEF CheckEffect
<1>6. CASE SkipEffect \/ RenameFailsEffect \/ ReopenFailsEffect
  <2>1. /\ me'.fd = 0 /\ me'.buffer = me.buffer
        /\ \A k \in Slots : InSlot(k)' = InSlot(k)
    BY <1>6, NoFileFacts DEF SkipEffect, RenameFailsEffect, ReopenFailsEffect,
                             SameData, SameFiles
  <2> QED
    BY <1>1, <2>1 DEF SizeInv
<1>7. CASE RemoveEffect \/ RenameEffect
  <2>1. /\ me'.fd = 0 /\ me'.buffer = <<>>
    BY <1>7, NoFileFacts DEF RemoveEffect, RenameEffect, SameData
  <2>2. \A k \in Slots : InSlot(k)' = <<>> \/ \E j \in Slots : InSlot(k)' = InSlot(j)
    BY <1>1, <1>7 DEF RemoveEffect, RenameEffect
  <2>3. \A k \in Slots : Small(InSlot(k)') /\ InSlot(k)' \o <<>> = InSlot(k)'
    <3>1. \A j \in Slots : InSlot(j) \o <<>> = InSlot(j)
      BY <1>1, ConcatEmptySeq
    <3> QED
      BY <1>1, <1>2, <2>2, <3>1
  <2> QED
    BY <1>1, <2>1, <2>3 DEF SizeInv
<1>8. CASE ReopenEffect
  <2>1. me.buffer = <<>>
    BY <1>8, NoFileFacts DEF ReopenEffect
  <2> QED
    BY <1>1, <1>2, <1>8, <2>1 DEF SizeInv, ReopenEffect
<1>9. CASE \E k \in Nat : WriteEffect(k)
  BY <1>9, WriteKeepsSize
<1>10. CASE FlushEffect
  <2>1. /\ me'.pc # "write" /\ me'.buffer = <<>> /\ InSlot(0)' = InSlot(0) \o me.buffer
        /\ \A k \in Slots \ {0} : InSlot(k)' = InSlot(k)
        /\ me'.fd # 0 => me.fd # 0 /\ me'.current_size = me.current_size
    BY <1>10 DEF FlushEffect
  <2>2. InSlot(0) \o me.buffer \in Seq(LineRecords)
    BY <1>1
  <2>3. (InSlot(0) \o me.buffer) \o <<>> = InSlot(0) \o me.buffer
    BY <2>2, ConcatEmptySeq
  <2>4. SizeOf(InSlot(0) \o me.buffer) = SizeOf(InSlot(0)) + SizeOf(me.buffer)
    BY <1>1, SizeOfConcat
  <2>5. me'.fd # 0 => me'.current_size = SizeOf(InSlot(0)') + SizeOf(me'.buffer)
    <3>1. SizeOf(InSlot(0)') = SizeOf(InSlot(0)) + SizeOf(me.buffer)
      BY <2>1, <2>4, Zenon
    <3>2. SizeOf(me'.buffer) = 0
      BY <1>2, <2>1, Zenon
    <3> QED
      BY <1>1, <2>1, <3>1, <3>2
  <2> QED
    BY <1>1, <2>1, <2>3, <2>5 DEF SizeInv
<1>11. CASE CrashEffect
  BY <1>1, <1>11 DEF SizeInv, CrashEffect, SameFiles
<1>12. CASE EmptiedEffect
  <2>1. me.buffer = <<>>
    BY <1>12, NoFileFacts DEF EmptiedEffect
  <2> QED
    BY <1>1, <1>2, <1>12, <2>1 DEF SizeInv, EmptiedEffect, SameData
<1> QED
  BY <1>3, <1>4, <1>5, <1>6, <1>7, <1>8, <1>9, <1>10, <1>11, <1>12 DEF Effect

----------------------------------------------------------------------------
\* What a state says of the directory.
LEMMA MoveFacts ==
  ASSUME OneRun, AllInv
  PROVE  /\ me.pc = "rotate" /\ me.i < 3 => slot[me.i] = 0
         /\ me.pc \in {"rename", "again", "rename_again"} =>
              slot[me.i] = 0 /\ slot[me.i - 1] # 0 /\ InSlot(0) # <<>>
         /\ me.pc = "rotate" /\ me.i > 0 => InSlot(0) # <<>>
         /\ me.pc \in {"again", "rename_again", "give_up"} => faults > 0
         /\ me.pc \in {"idle", "write", "full", "flush"} /\ faults = 0 => me.fd # 0
         /\ \A k \in Slots \ {0} : slot[k] # 0 => InSlot(k) # <<>>
         /\ me.i \in 0 .. 3 /\ faults \in Nat /\ Slots = 0 .. 3 /\ MAX_LOG_FILES = 3
<1>1. me.i \in 0 .. 3 /\ faults \in Nat /\ Slots = 0 .. 3 /\ MAX_LOG_FILES = 3
  BY RunFacts DEF AllInv
<1> QED
  BY <1>1 DEF AllInv, RunInv, MoveInv

\* Lines behind others leave no file empty that was not.
LEMMA AppendedNotEmpty ==
  \A s, t \in Seq(LineRecords) : s # <<>> => s \o t # <<>>
<1> TAKE s, t \in Seq(LineRecords)
<1> QED
  BY ConcatEqualIffEmpty

\* An effect that leaves the names alone, and all but the log file, while no
\* rotation is under way, keeps the directory in order.
LEMMA NoMove ==
  ASSUME OneRun, AllInv, faults' = faults,
         \A k \in Slots \ {0} : slot'[k] = slot[k] /\ InSlot(k)' = InSlot(k),
         me'.pc \in {"down", "idle", "write", "full", "flush"},
         me'.pc # "down" /\ faults = 0 => me'.fd # 0
  PROVE  MoveInv'
BY MoveFacts DEF MoveInv

\* Each effect keeps the directory in order.
LEMMA MoveKept == ASSUME OneRun, AllInv, Effect PROVE MoveInv'
<1>1. /\ me.pc = "rotate" /\ me.i < 3 => slot[me.i] = 0
      /\ me.pc \in {"rename", "again", "rename_again"} =>
           slot[me.i] = 0 /\ slot[me.i - 1] # 0 /\ InSlot(0) # <<>>
      /\ me.pc = "rotate" /\ me.i > 0 => InSlot(0) # <<>>
      /\ me.pc \in {"again", "rename_again", "give_up"} => faults > 0
      /\ me.pc \in {"idle", "write", "full", "flush"} /\ faults = 0 => me.fd # 0
      /\ \A k \in Slots \ {0} : slot[k] # 0 => InSlot(k) # <<>>
      /\ me.i \in 0 .. 3 /\ faults \in Nat /\ Slots = 0 .. 3 /\ MAX_LOG_FILES = 3
  BY MoveFacts
<1>2. CASE StartEffect
  BY <1>2, NoMove DEF StartEffect
<1>3. CASE \E size \in Sizes, warn \in BOOLEAN : LogEffect(size, warn)
  BY <1>1, <1>3, NoMove DEF LogEffect
<1>4. CASE CheckEffect
  <2>1. /\ me.pc = "full" /\ faults' = faults
        /\ \A k \in Slots \ {0} : slot'[k] = slot[k] /\ InSlot(k)' = InSlot(k)
    BY <1>4 DEF CheckEffect
  <2>2. CASE me'.pc = "rotate"
    <3>1. me'.i = 3 /\ InSlot(0)' # <<>>
      BY <1>4, <2>2 DEF CheckEffect
    <3> QED
      BY <1>1, <2>1, <2>2, <3>1 DEF MoveInv
  <2>3. CASE me'.pc # "rotate"
    <3>1. me'.pc \in {"flush", "idle", "write"} /\ me'.fd = me.fd
      BY <1>4, <2>3 DEF CheckEffect, SameData
    <3> QED
      BY <1>1, <2>1, <3>1, NoMove
  <2> QED
    BY <2>2, <2>3
<1>5. CASE SkipEffect
  BY <1>1, <1>5 DEF MoveInv, SkipEffect, SameFiles
<1>6. CASE RemoveEffect
  <2>1. /\ me.i \in 1 .. 3 /\ me'.i = me.i /\ faults' = faults
        /\ \A k \in Slots : IF k = me.i THEN slot'[k] = 0 /\ InSlot(k)' = <<>>
                            ELSE slot'[k] = slot[k] /\ InSlot(k)' = InSlot(k)
        /\ \/ me.pc = "rotate" /\ slot[me.i - 1] # 0 /\ me'.pc = "rename"
           \/ me.pc = "again" /\ me'.pc = "rename_again"
    BY <1>6 DEF RemoveEffect
  <2>2. slot'[me.i] = 0 /\ slot'[me.i - 1] # 0
    BY <1>1, <2>1
  <2>3. InSlot(0)' # <<>>
    BY <1>1, <2>1
  <2>4. \A k \in Slots \ {0} : slot'[k] # 0 => InSlot(k)' # <<>>
    BY <1>1, <2>1
  <2>5. me'.pc = "rename" \/ (me'.pc = "rename_again" /\ faults > 0)
    BY <1>1, <2>1
  <2> QED
    BY <1>1, <2>1, <2>2, <2>3, <2>4, <2>5 DEF MoveInv
<1>7. CASE RenameEffect
  <2>1. /\ me.i \in 1 .. 3 /\ me'.i = me.i - 1 /\ faults' = faults /\ me'.pc = "rotate"
        /\ me.pc \in {"rename", "rename_again"}
        /\ \A k \in Slots :
             /\ k = me.i => slot'[k] = slot[k - 1] /\ InSlot(k)' = InSlot(k - 1)
             /\ k = me.i - 1 => slot'[k] = 0 /\ InSlot(k)' = <<>>
             /\ k \notin {me.i, me.i - 1} => slot'[k] = slot[k] /\ InSlot(k)' = InSlot(k)
    BY <1>7 DEF RenameEffect
  <2>2. slot'[me'.i] = 0
    BY <1>1, <2>1
  <2>3. me'.i > 0 => InSlot(0)' # <<>>
    BY <1>1, <2>1
  <2>4. ASSUME NEW k \in Slots \ {0}, slot'[k] # 0 PROVE InSlot(k)' # <<>>
    <3>1. CASE k = me.i
      <4>1. InSlot(k)' = InSlot(k - 1) /\ slot[k - 1] # 0
        BY <1>1, <2>1, <3>1
      <4>2. CASE k = 1
        <5>1. InSlot(0) # <<>> /\ InSlot(k)' = InSlot(0)
          BY <1>1, <2>1, <4>1, <4>2
        <5> QED
          BY <5>1
      <4>3. CASE k # 1
        <5>1. k - 1 \in Slots \ {0}
          BY <1>1, <4>3
        <5> QED
          BY <1>1, <4>1, <5>1
      <4> QED
        BY <4>2, <4>3
    <3>2. CASE k # me.i
      BY <1>1, <2>1, <2>4, <3>2
    <3> QED
      BY <3>1, <3>2
  <2> QED
    BY <1>1, <2>1, <2>2, <2>3, <2>4 DEF MoveInv
<1>8. CASE RenameFailsEffect
  <2>1. /\ me'.i = me.i /\ slot' = slot /\ \A k \in Slots : InSlot(k)' = InSlot(k)
        /\ \/ me.pc = "rename" /\ me'.pc = "again"
           \/ me.pc = "rename_again" /\ me'.pc = "give_up"
    BY <1>8 DEF RenameFailsEffect, SameFiles
  <2>2. faults' = faults + 1
    BY <1>1, <1>8 DEF RenameFailsEffect
  <2> QED
    BY <1>1, <2>1, <2>2 DEF MoveInv
<1>9. CASE ReopenEffect
  BY <1>9, NoMove DEF ReopenEffect
<1>10. CASE ReopenFailsEffect
  BY <1>1, <1>10 DEF MoveInv, ReopenFailsEffect, SameFiles
<1>11. CASE \E k \in Nat : WriteEffect(k)
  <2>1. /\ faults' = faults /\ slot' = slot /\ me.pc = "write"
        /\ \A k \in Slots \ {0} : InSlot(k)' = InSlot(k)
        /\ me'.pc \in {"flush", "idle"} /\ me'.fd = me.fd
    BY <1>11 DEF WriteEffect
  <2> QED
    BY <1>1, <2>1, NoMove
<1>12. CASE FlushEffect
  <2>1. /\ faults' = faults /\ slot' = slot
        /\ \A k \in Slots \ {0} : InSlot(k)' = InSlot(k)
        /\ \/ me.pc = "flush" /\ me'.pc = "idle" /\ me'.fd = me.fd
           \/ me'.pc = "down"
    BY <1>12 DEF FlushEffect
  <2> QED
    BY <1>1, <2>1, NoMove
<1>13. CASE CrashEffect
  BY <1>13, NoMove DEF CrashEffect, SameFiles
<1>14. CASE EmptiedEffect
  <2>1. /\ me'.pc \in {"flush", "idle"} /\ faults' # 0
        /\ \A k \in Slots \ {0} : slot'[k] = slot[k] /\ InSlot(k)' = InSlot(k)
    BY <1>1, <1>14 DEF EmptiedEffect
  <2> QED
    BY <1>1, <2>1 DEF MoveInv
<1> QED
  BY <1>2, <1>3, <1>4, <1>5, <1>6, <1>7, <1>8, <1>9, <1>10, <1>11, <1>12, <1>13, <1>14
  DEF Effect
----------------------------------------------------------------------------
\* What a state says of the last warning.
LEMMA WarnFacts ==
  ASSUME OneRun, AllInv
  PROVE  /\ last_warn <= lines /\ lines \in Nat /\ last_warn \in Nat /\ faults \in Nat
         /\ me.line.n \in Nat
         /\ \A x \in DOMAIN me.buffer : me.buffer[x].n > last_warn
         /\ me.pc \notin {"down", "idle"} => me.line.n > last_warn /\ me.line.n <= lines
         /\ me.pc = "flush" /\ faults = 0 =>
              \E x \in DOMAIN (InSlot(0) \o me.buffer) :
                (InSlot(0) \o me.buffer)[x] = me.line
<1>1. lines \in Nat /\ last_warn \in Nat /\ faults \in Nat /\ me.line.n \in Nat
  BY RunFacts DEF AllInv
<1> QED
  BY <1>1 DEF AllInv, RunInv, WarnInv

\* An effect that adds nothing to the buffer and warns of nothing keeps the
\* warnings in their place.
LEMMA NoWarning ==
  ASSUME OneRun, AllInv, last_warn' = last_warn, lines' = lines,
         me'.buffer = me.buffer \/ me'.buffer = <<>>,
         me'.pc \notin {"down", "idle"} =>
           me'.line = me.line /\ me.pc \notin {"down", "idle"},
         me'.pc = "flush" => faults' # 0
  PROVE  WarnInv'
<1>1. \A x \in DOMAIN me'.buffer : me'.buffer[x].n > last_warn
  BY WarnFacts
<1> QED
  BY <1>1, WarnFacts DEF WarnInv

\* Lines that are parted are all still there.
LEMMA PartedElements ==
  ASSUME NEW b \in Seq(LineRecords), NEW l \in LineRecords, NEW k \in 0 .. Len(Append(b, l))
  PROVE  LET ls == Append(b, l)
             front == SubSeq(ls, 1, k)
             rest == SubSeq(ls, k + 1, Len(ls))
         IN  /\ \A x \in DOMAIN front : front[x] = l \/ \E y \in DOMAIN b : front[x] = b[y]
             /\ \A x \in DOMAIN rest : rest[x] = l \/ \E y \in DOMAIN b : rest[x] = b[y]
<1> DEFINE ls == Append(b, l)
           front == SubSeq(ls, 1, k)
           rest == SubSeq(ls, k + 1, Len(ls))
<1>1. /\ Len(b) \in Nat /\ DOMAIN b = 1 .. Len(b) /\ Len(ls) = Len(b) + 1
      /\ \A x \in 1 .. Len(ls) : ls[x] = l \/ \E y \in DOMAIN b : ls[x] = b[y]
  OBVIOUS
<1>2. k \in 0 .. Len(ls) /\ ls \in Seq(LineRecords)
  OBVIOUS
<1> HIDE DEF ls
<1>3. \A x \in DOMAIN front : x \in 1 .. Len(ls) /\ front[x] = ls[x]
  BY <1>1, <1>2
<1>4. \A x \in DOMAIN rest : x + k \in 1 .. Len(ls) /\ rest[x] = ls[x + k]
  BY <1>1, <1>2
<1> HIDE DEF front, rest
<1>5. \A x \in DOMAIN front : front[x] = l \/ \E y \in DOMAIN b : front[x] = b[y]
  BY <1>1, <1>3
<1>6. \A x \in DOMAIN rest : rest[x] = l \/ \E y \in DOMAIN b : rest[x] = b[y]
  BY <1>1, <1>4
<1> QED
  BY <1>5, <1>6 DEF ls, front, rest

\* A write keeps the warnings in their place.
LEMMA WriteKeepsWarn ==
  ASSUME OneRun, AllInv, NEW k \in Nat, WriteEffect(k) PROVE WarnInv'
<1>1. /\ last_warn <= lines /\ lines \in Nat /\ last_warn \in Nat
      /\ \A x \in DOMAIN me.buffer : me.buffer[x].n > last_warn
      /\ me.pc \notin {"down", "idle"} => me.line.n > last_warn /\ me.line.n <= lines
  BY WarnFacts
<1>2. /\ me.line \in LineRecords /\ me.buffer \in Seq(LineRecords)
      /\ InSlot(0) \in Seq(LineRecords)
  BY RunFacts DEF AllInv
<1>3. /\ me.pc = "write" /\ me'.line = me.line
      /\ UNCHANGED <<lines, last_warn, faults>>
  BY DEF WriteEffect
<1>4. CASE me.fd = 0
  <2>1. faults # 0
    BY <1>3, <1>4, MoveFacts
  <2>2. me'.buffer = <<>>
    BY <1>4 DEF WriteEffect
  <2> QED
    BY <1>3, <2>1, <2>2, NoWarning
<1>5. CASE me.fd # 0
  <2> DEFINE ls == Append(me.buffer, me.line)
             front == SubSeq(ls, 1, k)
             rest == SubSeq(ls, k + 1, Len(ls))
  <2>1. k \in 0 .. Len(ls) /\ me'.buffer = rest /\ InSlot(0)' = InSlot(0) \o front
    BY <1>5 DEF WriteEffect
  <2>2. /\ front \in Seq(LineRecords) /\ rest \in Seq(LineRecords) /\ front \o rest = ls
    BY <1>2, <2>1, PartedFacts
  <2>3. \A x \in DOMAIN rest : rest[x] = me.line \/ \E y \in DOMAIN me.buffer : rest[x] = me.buffer[y]
    BY <1>2, <2>1, PartedElements
  <2>4. ls[Len(ls)] = me.line /\ ls \in Seq(LineRecords) /\ Len(ls) \in Nat \ {0}
    BY <1>2
  <2> HIDE DEF ls, front, rest
  <2>5. \A x \in DOMAIN me'.buffer : me'.buffer[x].n > last_warn
    BY <1>1, <1>3, <2>1, <2>3
  <2>6. \E x \in DOMAIN (InSlot(0)' \o me'.buffer) : (InSlot(0)' \o me'.buffer)[x] = me.line
    <3> DEFINE d == InSlot(0)
    <3>1. InSlot(0)' \o me'.buffer = d \o ls
      <4>1. (d \o front) \o rest = d \o (front \o rest)
        BY <1>2, <2>2, Associative
      <4> QED
        BY <2>1, <2>2, <4>1
    <3>2. d \in Seq(LineRecords) /\ Len(d) \in Nat
      BY <1>2
    <3> HIDE DEF d
    <3>3. /\ Len(d) + Len(ls) \in DOMAIN (d \o ls)
          /\ (d \o ls)[Len(d) + Len(ls)] = ls[Len(ls)]
      BY <2>4, <3>2
    <3> QED
      BY <2>4, <3>1, <3>3
  <2> QED
    BY <1>1, <1>3, <2>5, <2>6 DEF WarnInv
<1> QED
  BY <1>4, <1>5

\* Each effect keeps the warnings in their place.
LEMMA WarnKept == ASSUME OneRun, AllInv, Effect PROVE WarnInv'
<1>1. /\ last_warn <= lines /\ lines \in Nat /\ last_warn \in Nat /\ faults \in Nat
      /\ me.line.n \in Nat
      /\ \A x \in DOMAIN me.buffer : me.buffer[x].n > last_warn
      /\ me.pc \notin {"down", "idle"} => me.line.n > last_warn /\ me.line.n <= lines
  BY WarnFacts
<1>2. /\ me.pc \in {"again", "rename_again", "give_up"} => faults > 0
      /\ me.pc = "full" /\ faults = 0 => me.fd # 0
  BY MoveFacts
<1>3. CASE StartEffect
  BY <1>3, NoWarning DEF StartEffect
<1>4. CASE \E size \in Sizes, warn \in BOOLEAN : LogEffect(size, warn)
  <2>1. /\ lines' = lines + 1 /\ last_warn' = last_warn
        /\ me'.pc \in {"write", "full"} /\ me'.line.n = lines + 1
        /\ me'.buffer = me.buffer
    BY <1>4 DEF LogEffect
  <2> QED
    BY <1>1, <2>1 DEF WarnInv
<1>5. CASE CheckEffect
  <2>1. /\ me.pc = "full" /\ me'.line = me.line /\ UNCHANGED <<lines, last_warn, faults>>
    BY <1>5 DEF CheckEffect
  <2>2. me'.buffer = me.buffer \/ me'.buffer = <<>>
    BY <1>5 DEF CheckEffect, SameData
  <2>3. me'.pc = "flush" => me.fd = 0
    BY <1>5 DEF CheckEffect
  <2> QED
    BY <1>2, <2>1, <2>2, <2>3, NoWarning
<1>6. CASE SkipEffect \/ RemoveEffect \/ RenameEffect
  <2>1. /\ me.pc \in {"rotate", "again", "rename", "rename_again"} /\ me'.pc # "flush"
        /\ me'.line = me.line /\ me'.buffer = me.buffer /\ UNCHANGED <<lines, last_warn>>
    BY <1>6 DEF SkipEffect, RemoveEffect, RenameEffect, SameData
  <2> QED
    BY <2>1, NoWarning
<1>7. CASE RenameFailsEffect
  <2>1. /\ me.pc \in {"rename", "rename_again"} /\ me'.pc # "flush"
        /\ me'.line = me.line /\ me'.buffer = me.buffer /\ UNCHANGED <<lines, last_warn>>
    BY <1>7 DEF RenameFailsEffect, SameData
  <2> QED
    BY <2>1, NoWarning
<1>8. CASE ReopenEffect
  <2>1. /\ me.pc \in {"give_up", "rotate"} /\ (me'.pc = "flush" => me.pc = "give_up")
        /\ me'.line = me.line /\ me'.buffer = me.buffer
        /\ UNCHANGED <<lines, last_warn, faults>>
    BY <1>8 DEF ReopenEffect
  <2> QED
    BY <1>1, <1>2, <2>1, NoWarning
<1>9. CASE ReopenFailsEffect
  <2>1. /\ me.pc \in {"give_up", "rotate"} /\ faults' = faults + 1
        /\ me'.line = me.line /\ me'.buffer = me.buffer /\ UNCHANGED <<lines, last_warn>>
    BY <1>9 DEF ReopenFailsEffect, SameData
  <2>2. faults' # 0
    BY <1>1, <2>1
  <2> QED
    BY <2>1, <2>2, NoWarning
<1>10. CASE \E k \in Nat : WriteEffect(k)
  BY <1>10, WriteKeepsWarn
<1>11. CASE FlushEffect
  <2>1. /\ lines' = lines /\ me'.buffer = <<>> /\ me'.pc \in {"down", "idle"}
        /\ \/ me.pc = "flush" /\ last_warn' = me.line.n
           \/ last_warn' = last_warn
    BY <1>11 DEF FlushEffect
  <2> QED
    BY <1>1, <2>1 DEF WarnInv
<1>12. CASE CrashEffect
  BY <1>12, NoWarning DEF CrashEffect
<1>13. CASE EmptiedEffect
  <2>1. /\ me.pc \in {"give_up", "rotate"} /\ faults' = faults + 1
        /\ me'.line = me.line /\ me'.buffer = me.buffer /\ UNCHANGED <<lines, last_warn>>
    BY <1>13 DEF EmptiedEffect, SameData
  <2>2. faults' # 0
    BY <1>1, <2>1
  <2> QED
    BY <2>1, <2>2, NoWarning
<1> QED
  BY <1>3, <1>4, <1>5, <1>6, <1>7, <1>8, <1>9, <1>10, <1>11, <1>12, <1>13 DEF Effect
----------------------------------------------------------------------------
\* All lines on disk are the run's, and older files have older lines.
LEMMA OneWriter ==
  ASSUME OneRun, AllInv
  PROVE  /\ \A k \in Slots : \A x \in DOMAIN InSlot(k) :
              InSlot(k)[x].by = run /\ InSlot(k)[x].n \in Nat
         /\ \A j, k \in Slots : j > k =>
              \A x \in DOMAIN InSlot(j), y \in DOMAIN InSlot(k) :
                InSlot(j)[x].n < InSlot(k)[y].n
<1>1. \A l \in LineRecords : l.by = run /\ l.n \in Nat
  BY LogAssumption DEF LineRecords, OneRun
<1>2. \A k \in Slots : InSlot(k) \in Seq(LineRecords)
  BY RunFacts DEF AllInv
<1>3. \A k \in Slots : \A x \in DOMAIN InSlot(k) :
        InSlot(k)[x].by = run /\ InSlot(k)[x].n \in Nat
  <2> SUFFICES ASSUME NEW k \in Slots, NEW x \in DOMAIN InSlot(k)
               PROVE  InSlot(k)[x].by = run /\ InSlot(k)[x].n \in Nat
    OBVIOUS
  <2>1. InSlot(k)[x] \in LineRecords
    BY <1>2
  <2> QED
    BY <1>1, <2>1
<1>4. \A j, k \in Slots : j > k => Before(InSlot(j), InSlot(k))
  BY DEF AllInv, OrderInv, FilesOrdered
<1> QED
  BY <1>3, <1>4 DEF Before

\* Files that stay keep the warning that they kept.
LEMMA SameKept ==
  ASSUME OneRun, AllInv, last_warn' = last_warn, faults' = 0 => faults = 0,
         \A k \in Slots : InSlot(k)' = InSlot(k)
  PROVE  KeptInv'
<1>1. faults = 0 /\ last_warn # 0 => Kept \/ Passed
  BY DEF AllInv, RunInv, KeptInv
<1>2. Kept => Kept'
  BY DEF Kept
<1>3. Passed => Passed'
  BY DEF Passed
<1> QED
  BY <1>1, <1>2, <1>3 DEF KeptInv

\* So does a log file with newer lines behind it.
LEMMA AppendedKept ==
  ASSUME OneRun, AllInv, last_warn' = last_warn, faults' = faults,
         NEW ls \in Seq(LineRecords), \A x \in DOMAIN ls : ls[x].n > last_warn,
         InSlot(0)' = InSlot(0) \o ls,
         \A k \in Slots \ {0} : InSlot(k)' = InSlot(k)
  PROVE  KeptInv'
<1>1. faults = 0 /\ last_warn # 0 => Kept \/ Passed
  BY DEF AllInv, RunInv, KeptInv
<1>2. InSlot(0) \in Seq(LineRecords) /\ 0 \in Slots
  BY RunFacts DEF AllInv
<1>3. \A k \in Slots : \A j \in DOMAIN InSlot(k) :
        j \in DOMAIN InSlot(k)' /\ InSlot(k)'[j] = InSlot(k)[j]
  <2>1. \A j \in DOMAIN InSlot(0) :
          j \in DOMAIN (InSlot(0) \o ls) /\ (InSlot(0) \o ls)[j] = InSlot(0)[j]
    BY <1>2
  <2> QED
    BY <1>2, <2>1
<1>4. \A k \in Slots : InSlot(k) # <<>> => InSlot(k)' # <<>>
  BY <1>2, AppendedNotEmpty
<1>5. \A x \in DOMAIN (InSlot(0) \o ls) : \/ x \in DOMAIN InSlot(0) /\ (InSlot(0) \o ls)[x] = InSlot(0)[x]
                                         \/ \E y \in DOMAIN ls : (InSlot(0) \o ls)[x] = ls[y]
  BY <1>2, ConcatElements
<1>6. Kept => Kept'
  BY <1>3 DEF Kept
<1>7. Passed => Passed'
  <2> SUFFICES ASSUME Passed PROVE Passed'
    OBVIOUS
  <2>1. /\ \A k \in Slots : \A j \in DOMAIN InSlot(k) : InSlot(k)[j].n > last_warn
        /\ \E a, b \in Slots : a # b /\ InSlot(a) # <<>> /\ InSlot(b) # <<>>
    BY DEF Passed
  <2>2. \A x \in DOMAIN (InSlot(0) \o ls) : (InSlot(0) \o ls)[x].n > last_warn
    BY <1>2, <1>5, <2>1
  <2>3. \A k \in Slots : \A j \in DOMAIN InSlot(k)' : InSlot(k)'[j].n > last_warn
    BY <2>1, <2>2
  <2>4. \E a, b \in Slots : a # b /\ InSlot(a)' # <<>> /\ InSlot(b)' # <<>>
    BY <1>4, <2>1
  <2> QED
    BY <2>3, <2>4 DEF Passed
<1> QED
  BY <1>1, <1>6, <1>7 DEF KeptInv

\* The removal of the oldest file passes a warning that is in it.
LEMMA RemovedKept == ASSUME OneRun, AllInv, RemoveEffect PROVE KeptInv'
<1>1. faults = 0 /\ last_warn # 0 => Kept \/ Passed
  BY DEF AllInv, RunInv, KeptInv
<1>2. /\ Slots = 0 .. 3 /\ last_warn \in Nat
  BY RunFacts DEF AllInv
<1>3. /\ me.i \in 1 .. 3 /\ last_warn' = last_warn /\ faults' = faults
      /\ \A k \in Slots : IF k = me.i THEN slot'[k] = 0 /\ InSlot(k)' = <<>>
                          ELSE slot'[k] = slot[k] /\ InSlot(k)' = InSlot(k)
      /\ \/ me.pc = "rotate" /\ slot[me.i - 1] # 0
         \/ me.pc = "again"
  BY DEF RemoveEffect
<1>4. CASE slot[me.i] = 0
  <2>1. \A k \in Slots : InSlot(k)' = InSlot(k)
    <3>1. \A k \in Slots : slot[k] = 0 => InSlot(k) = <<>>
      BY DEF InSlot
    <3> QED
      BY <1>2, <1>3, <1>4, <3>1
  <2> QED
    BY <1>3, <2>1, SameKept
<1>5. CASE slot[me.i] # 0
  <2>1. /\ me.pc = "rotate" /\ me.i = 3 /\ InSlot(0) # <<>> /\ InSlot(2) # <<>>
    <3>1. me.pc = "rotate" /\ me.i = 3 /\ InSlot(0) # <<>>
      BY <1>3, <1>5, MoveFacts
    <3>2. slot[2] # 0 /\ 2 \in Slots \ {0}
      BY <1>2, <1>3, <3>1
    <3> QED
      BY <3>1, <3>2, MoveFacts
  <2>2. InSlot(3)' = <<>> /\ \A k \in 0 .. 2 : InSlot(k)' = InSlot(k)
    BY <1>2, <1>3, <2>1
  <2>3. \E a, b \in Slots : a # b /\ InSlot(a)' # <<>> /\ InSlot(b)' # <<>>
    <3>1. 0 \in Slots /\ 2 \in Slots /\ InSlot(0)' # <<>> /\ InSlot(2)' # <<>>
      BY <1>2, <2>1, <2>2
    <3> QED
      BY <3>1
  <2>4. ASSUME Kept PROVE Kept' \/ Passed'
    <3>1. PICK k \in Slots : \E j \in DOMAIN InSlot(k) : InSlot(k)[j].n = last_warn
      BY <2>4 DEF Kept
    <3>2. CASE k = 3
      <4>1. PICK j \in DOMAIN InSlot(3) : InSlot(3)[j].n = last_warn
        BY <3>1, <3>2
      <4>2. \A h \in 0 .. 2 : \A x \in DOMAIN InSlot(h) : InSlot(h)[x].n > last_warn
        <5> SUFFICES ASSUME NEW h \in 0 .. 2, NEW x \in DOMAIN InSlot(h)
                     PROVE  InSlot(h)[x].n > last_warn
          OBVIOUS
        <5>1. h \in Slots /\ 3 \in Slots /\ 3 > h
          BY <1>2
        <5>2. InSlot(3)[j].n < InSlot(h)[x].n /\ InSlot(h)[x].n \in Nat
          BY <4>1, <5>1, OneWriter
        <5> QED
          BY <1>2, <4>1, <5>2
      <4>3. \A h \in Slots : \A x \in DOMAIN InSlot(h)' : InSlot(h)'[x].n > last_warn
        <5>1. DOMAIN <<>> = {}
          OBVIOUS
        <5> QED
          BY <1>2, <2>2, <4>2, <5>1
      <4> QED
        BY <1>3, <2>3, <4>3 DEF Passed
    <3>3. CASE k # 3
      BY <1>2, <1>3, <2>2, <3>1, <3>3 DEF Kept
    <3> QED
      BY <3>2, <3>3
  <2>5. ASSUME Passed PROVE Passed'
    <3>1. \A h \in Slots : \A x \in DOMAIN InSlot(h)' : InSlot(h)'[x].n > last_warn
      <4>1. DOMAIN <<>> = {}
        OBVIOUS
      <4> QED
        BY <1>2, <2>2, <2>5, <4>1 DEF Passed
    <3> QED
      BY <1>3, <2>3, <3>1 DEF Passed
  <2> QED
    BY <1>1, <1>3, <2>4, <2>5 DEF KeptInv
<1> QED
  BY <1>4, <1>5

\* A rename moves what is kept.
LEMMA RenamedKept == ASSUME OneRun, AllInv, RenameEffect PROVE KeptInv'
<1>1. faults = 0 /\ last_warn # 0 => Kept \/ Passed
  BY DEF AllInv, RunInv, KeptInv
<1> DEFINE to == [k \in Slots |-> IF k = me.i - 1 THEN me.i ELSE k]
<1>2. /\ Slots = 0 .. 3 /\ me.i \in 1 .. 3 /\ last_warn' = last_warn /\ faults' = faults
      /\ me.pc \in {"rename", "rename_again"}
      /\ \A k \in Slots :
           /\ k = me.i => slot'[k] = slot[k - 1] /\ InSlot(k)' = InSlot(k - 1)
           /\ k = me.i - 1 => slot'[k] = 0 /\ InSlot(k)' = <<>>
           /\ k \notin {me.i, me.i - 1} => slot'[k] = slot[k] /\ InSlot(k)' = InSlot(k)
  BY RunFacts DEF AllInv, RenameEffect
<1>3. \A k \in Slots : k = me.i => InSlot(k) = <<>>
  BY <1>2, MoveFacts DEF InSlot
<1>4. \A k \in Slots : InSlot(k) # <<>> =>
        to[k] \in Slots /\ \A h \in Slots : h = to[k] => InSlot(h)' = InSlot(k)
  <2> SUFFICES ASSUME NEW k \in Slots, InSlot(k) # <<>>
               PROVE  to[k] \in Slots /\ \A h \in Slots : h = to[k] => InSlot(h)' = InSlot(k)
    OBVIOUS
  <2>1. k # me.i
    BY <1>3
  <2>2. CASE k = me.i - 1
    <3>1. to[k] = me.i /\ me.i - 1 = k
      BY <2>2
    <3> QED
      BY <1>2, <2>2, <3>1
  <2>3. CASE k # me.i - 1
    <3>1. to[k] = k
      BY <2>3
    <3> QED
      BY <1>2, <2>1, <2>3, <3>1
  <2> QED
    BY <2>2, <2>3
<1>5. \A k \in Slots : InSlot(k)' = <<>> \/ \E h \in Slots : InSlot(k)' = InSlot(h)
  BY <1>2
<1>6. \A j, k \in Slots : InSlot(j) # <<>> /\ InSlot(k) # <<>> /\ j # k => to[j] # to[k]
  BY <1>2, <1>3
<1> HIDE DEF to
<1>7. DOMAIN <<>> = {}
  OBVIOUS
<1>8. Kept => Kept'
  <2> SUFFICES ASSUME Kept PROVE Kept'
    OBVIOUS
  <2>1. PICK k \in Slots : \E j \in DOMAIN InSlot(k) : InSlot(k)[j].n = last_warn
    BY DEF Kept
  <2>2. InSlot(k) # <<>>
    BY <1>7, <2>1
  <2>3. PICK h \in Slots : InSlot(h)' = InSlot(k)
    BY <1>4, <2>2
  <2> QED
    BY <1>2, <2>1, <2>3 DEF Kept
<1>9. Passed => Passed'
  <2> SUFFICES ASSUME Passed PROVE Passed'
    OBVIOUS
  <2>1. PICK a \in Slots, b \in Slots : a # b /\ InSlot(a) # <<>> /\ InSlot(b) # <<>>
    BY DEF Passed
  <2>2. /\ to[a] \in Slots /\ to[b] \in Slots /\ to[a] # to[b]
    BY <1>4, <1>6, <2>1
  <2>3. PICK h \in Slots, g \in Slots : h = to[a] /\ g = to[b]
    BY <2>2
  <2>4. h # g /\ InSlot(h)' # <<>> /\ InSlot(g)' # <<>>
    BY <1>4, <2>1, <2>2, <2>3
  <2>5. \A k \in Slots : \A j \in DOMAIN InSlot(k)' : InSlot(k)'[j].n > last_warn
    BY <1>5, <1>7 DEF Passed
  <2>6. \E x, y \in Slots : x # y /\ InSlot(x)' # <<>> /\ InSlot(y)' # <<>>
    BY <2>4
  <2> QED
    BY <1>2, <2>5, <2>6 DEF Passed
<1> QED
  BY <1>1, <1>2, <1>8, <1>9 DEF KeptInv
\* A write and an exit add newer lines; the flush of a warning puts it on disk.
LEMMA WrittenKept ==
  ASSUME OneRun, AllInv, (\E k \in Nat : WriteEffect(k)) \/ FlushEffect PROVE KeptInv'
<1>1. /\ me.buffer \in Seq(LineRecords) /\ me.line \in LineRecords
      /\ InSlot(0) \in Seq(LineRecords) /\ 0 \in Slots
  BY RunFacts DEF AllInv
<1>2. /\ \A x \in DOMAIN me.buffer : me.buffer[x].n > last_warn
      /\ me.pc \notin {"down", "idle"} => me.line.n > last_warn
  BY WarnFacts
<1>3. CASE \E k \in Nat : WriteEffect(k)
  <2>1. PICK k \in Nat : WriteEffect(k)
    BY <1>3
  <2>2. /\ me.pc = "write" /\ last_warn' = last_warn /\ faults' = faults
        /\ \A j \in Slots \ {0} : InSlot(j)' = InSlot(j)
    BY <2>1 DEF WriteEffect
  <2>3. CASE me.fd = 0
    <3>1. \A j \in Slots : InSlot(j)' = InSlot(j)
      BY <2>1, <2>2, <2>3 DEF WriteEffect
    <3> QED
      BY <2>2, <3>1, SameKept
  <2>4. CASE me.fd # 0
    <3> DEFINE front == SubSeq(Append(me.buffer, me.line), 1, k)
    <3>1. k \in 0 .. Len(Append(me.buffer, me.line)) /\ InSlot(0)' = InSlot(0) \o front
      BY <2>1, <2>4 DEF WriteEffect
    <3>2. front \in Seq(LineRecords)
      BY <1>1, <3>1, PartedFacts
    <3>3. \A x \in DOMAIN front :
            front[x] = me.line \/ \E y \in DOMAIN me.buffer : front[x] = me.buffer[y]
      BY <1>1, <3>1, PartedElements
    <3> HIDE DEF front
    <3>4. \A x \in DOMAIN front : front[x].n > last_warn
      BY <1>2, <2>2, <3>3
    <3> QED
      BY <2>2, <3>1, <3>2, <3>4, AppendedKept
  <2> QED
    BY <2>3, <2>4
<1>4. CASE FlushEffect
  <2>1. /\ InSlot(0)' = InSlot(0) \o me.buffer /\ faults' = faults
        /\ \A k \in Slots \ {0} : InSlot(k)' = InSlot(k)
        /\ \/ me.pc = "flush" /\ last_warn' = me.line.n
           \/ last_warn' = last_warn
    BY <1>4 DEF FlushEffect
  <2>2. CASE me.pc = "flush" /\ last_warn' = me.line.n
    <3> SUFFICES ASSUME faults = 0 PROVE Kept'
      BY <2>1 DEF KeptInv
    <3>1. \E x \in DOMAIN (InSlot(0) \o me.buffer) : (InSlot(0) \o me.buffer)[x] = me.line
      BY <2>2, WarnFacts
    <3> QED
      BY <1>1, <2>1, <2>2, <3>1 DEF Kept
  <2>3. CASE last_warn' = last_warn
    BY <1>1, <1>2, <2>1, <2>3, AppendedKept
  <2> QED
    BY <2>1, <2>2, <2>3
<1> QED
  BY <1>3, <1>4

\* Each effect keeps the last warning on disk, or newer lines in two files.
LEMMA KeptKept == ASSUME OneRun, AllInv, Effect PROVE KeptInv'
<1>1. CASE StartEffect
  BY <1>1, SameKept DEF StartEffect
<1>2. CASE \E size \in Sizes, warn \in BOOLEAN : LogEffect(size, warn)
  BY <1>2, SameKept DEF LogEffect
<1>3. CASE CheckEffect
  <2>1. UNCHANGED <<last_warn, faults>> /\ \A k \in Slots \ {0} : InSlot(k)' = InSlot(k)
    BY <1>3 DEF CheckEffect
  <2>2. InSlot(0)' = InSlot(0) \/ InSlot(0)' = InSlot(0) \o me.buffer
    BY <1>3 DEF CheckEffect
  <2>3. CASE InSlot(0)' = InSlot(0)
    BY <2>1, <2>3, SameKept
  <2>4. CASE InSlot(0)' = InSlot(0) \o me.buffer
    <3>1. /\ me.buffer \in Seq(LineRecords)
          /\ \A x \in DOMAIN me.buffer : me.buffer[x].n > last_warn
      BY RunFacts, WarnFacts DEF AllInv
    <3> QED
      BY <2>1, <2>4, <3>1, AppendedKept
  <2> QED
    BY <2>2, <2>3, <2>4
<1>4. CASE SkipEffect \/ CrashEffect
  BY <1>4, SameKept DEF SkipEffect, CrashEffect, SameFiles
<1>5. CASE RemoveEffect
  BY <1>5, RemovedKept
<1>6. CASE RenameEffect
  BY <1>6, RenamedKept
<1>7. CASE RenameFailsEffect \/ ReopenFailsEffect
  <2>1. /\ last_warn' = last_warn /\ faults' \in {faults, faults + 1}
        /\ \A k \in Slots : InSlot(k)' = InSlot(k)
    BY <1>7 DEF RenameFailsEffect, ReopenFailsEffect, SameFiles
  <2>2. faults' = 0 => faults = 0
    BY <2>1, MoveFacts
  <2> QED
    BY <2>1, <2>2, SameKept
<1>8. CASE ReopenEffect
  <2>1. /\ UNCHANGED <<last_warn, faults>> /\ InSlot(0)' = <<>>
        /\ \A k \in Slots \ {0} : InSlot(k)' = InSlot(k)
        /\ me.pc = "give_up" \/ (me.pc = "rotate" /\ me.i = 0)
    BY <1>8 DEF ReopenEffect
  <2>2. CASE me.pc = "give_up"
    <3>1. faults' # 0
      BY <2>1, <2>2, MoveFacts
    <3> QED
      BY <3>1 DEF KeptInv
  <2>3. CASE me.pc = "rotate" /\ me.i = 0
    <3>1. slot[0] = 0
      BY <2>3, MoveFacts
    <3>2. InSlot(0) = <<>>
      BY <3>1 DEF InSlot
    <3> QED
      BY <2>1, <3>2, SameKept
  <2> QED
    BY <2>1, <2>2, <2>3
<1>9. CASE (\E k \in Nat : WriteEffect(k)) \/ FlushEffect
  BY <1>9, WrittenKept
<1>10. CASE EmptiedEffect
  <2>1. faults' # 0
    BY <1>10, MoveFacts DEF EmptiedEffect
  <2> QED
    BY <2>1 DEF KeptInv
<1> QED
  BY <1>1, <1>2, <1>3, <1>4, <1>5, <1>6, <1>7, <1>8, <1>9, <1>10 DEF Effect

----------------------------------------------------------------------------
\* At first there is no file and no run.
LEMMA RunInvInit == ASSUME OneRun, LogInit PROVE RunInv
<1>1. /\ Fresh.pc = "down" /\ Fresh.fd = 0 /\ Fresh.buffer = <<>>
  BY DEF Fresh
<1>2. run \in Processes /\ 0 \in Slots
  BY NumberFacts DEF OneRun
<1>3. me = Fresh /\ \A k \in Slots : slot[k] = 0 /\ InSlot(k) = <<>>
  BY <1>2 DEF LogInit, me, InSlot
<1>4. Small(<<>>) /\ <<>> \o <<>> = <<>> /\ DOMAIN <<>> = {}
  BY SmallFacts
<1>5. FileInv /\ SizeInv
  BY <1>1, <1>2, <1>3, <1>4 DEF FileInv, SizeInv
<1>6. MoveInv
  BY <1>1, <1>3 DEF MoveInv
<1>7. WarnInv /\ KeptInv
  BY <1>1, <1>3, <1>4 DEF LogInit, WarnInv, KeptInv
<1> QED
  BY <1>5, <1>6, <1>7 DEF RunInv

\* Every step keeps the invariant of the run.
LEMMA RunInvNext == ASSUME OneRun, AllInv, [LogNext]_logVars PROVE RunInv'
<1>1. CASE LogNext
  <2>1. Effect
    BY <1>1, StepHasEffect
  <2> QED
    BY <2>1, FileKept, SizeKept, MoveKept, WarnKept, KeptKept DEF RunInv
<1>2. CASE UNCHANGED logVars
  <2>1. UNCHANGED <<slot, content, proc, lines, last_warn, faults>>
    BY <1>2 DEF logVars
  <2>2. me' = me /\ \A k \in Slots : InSlot(k)' = InSlot(k)
    BY <2>1 DEF me, InSlot
  <2>3. 0 \in Slots
    BY NumberFacts
  <2> QED
    BY <2>1, <2>2, <2>3 DEF AllInv, RunInv, FileInv, SizeInv, MoveInv, WarnInv, KeptInv, Kept, Passed
<1> QED
  BY <1>1, <1>2

\* The invariant of a log with one writer holds, for any sizes of lines, any
\* crashes and any failures.
THEOREM RunInvariantHolds == ASSUME OneRun PROVE LogSpec => []AllInv
<1>1. LogInit => AllInv
  BY OrderInvInit, RunInvInit, FreshTyped DEF AllInv, LogInit, Typed
<1>2. AllInv /\ [LogNext]_logVars => AllInv'
  BY OrderInvNext, TypedNext, RunInvNext DEF AllInv
<1> QED
  BY <1>1, <1>2, PTL DEF LogSpec

\* Within the sizes, each file is within the limit.
LEMMA SizesBound == ASSUME OneRun, AllInv PROVE SizeBound
<1> SUFFICES ASSUME NEW k \in Slots, slot[k] # 0
             PROVE  LET unflushed == { p \in Processes : proc[p].fd = slot[k] }
                        ls == IF unflushed = {} THEN InSlot(k)
                              ELSE InSlot(k) \o proc[CHOOSE p \in unflushed : TRUE].buffer
                    IN  SizeOf(ls) <= MaxSize \/ Len(ls) = 1
  BY DEF SizeBound
<1> DEFINE unflushed == { p \in Processes : proc[p].fd = slot[k] }
           writer == CHOOSE p \in unflushed : TRUE
<1>1. Small(InSlot(k)) /\ Small(InSlot(0) \o me.buffer)
  BY SizeFacts
<1>2. unflushed # {} => me.fd = slot[k] /\ writer = run
  BY RunFacts DEF AllInv, me
<1>3. me.fd = slot[k] => k = 0
  BY RunFacts DEF AllInv, RunInv, FileInv, OrderInv, OneName
<1>4. CASE unflushed = {}
  BY <1>1, <1>4 DEF Small
<1>5. CASE unflushed # {}
  <2>1. InSlot(k) \o proc[writer].buffer = InSlot(0) \o me.buffer
    BY <1>2, <1>3, <1>5 DEF me
  <2> HIDE DEF unflushed, writer
  <2> QED
    BY <1>1, <1>5, <2>1 DEF Small, unflushed, writer
<1> QED
  BY <1>4, <1>5

\* No file of a tool that runs alone grows past the limit: for every limit and
\* all sizes of lines, over restarts, crashes inside a rotation and rotations
\* that fail.
THEOREM FilesWithinLimit == ASSUME OneRun PROVE LogSpec => []SizeBound
BY RunInvariantHolds, SizesBound, PTL
----------------------------------------------------------------------------
\* The element e is somewhere in s.
Has(s, e) == \E x \in DOMAIN s : s[x] = e

\* Lines put together have the elements of both.
LEMMA HasConcat ==
  \A s, t \in Seq(LineRecords) : \A e : Has(s \o t, e) <=> Has(s, e) \/ Has(t, e)
<1> SUFFICES ASSUME NEW s \in Seq(LineRecords), NEW t \in Seq(LineRecords), NEW e
             PROVE  Has(s \o t, e) <=> Has(s, e) \/ Has(t, e)
  OBVIOUS
<1>1. /\ Len(s) \in Nat /\ Len(t) \in Nat /\ DOMAIN s = 1 .. Len(s) /\ DOMAIN t = 1 .. Len(t)
      /\ DOMAIN (s \o t) = 1 .. Len(s) + Len(t)
  OBVIOUS
<1>2. \A x \in DOMAIN s : x \in DOMAIN (s \o t) /\ (s \o t)[x] = s[x]
  BY <1>1
<1>3. \A x \in DOMAIN t : Len(s) + x \in DOMAIN (s \o t) /\ (s \o t)[Len(s) + x] = t[x]
  BY <1>1
<1>4. Has(s \o t, e) => Has(s, e) \/ Has(t, e)
  BY ConcatElements DEF Has
<1>5. Has(s, e) => Has(s \o t, e)
  BY <1>2 DEF Has
<1>6. Has(t, e) => Has(s \o t, e)
  BY <1>3 DEF Has
<1> QED
  BY <1>4, <1>5, <1>6

\* What is on disk is what is in the files.
LEMMA OnDiskHas ==
  ASSUME OrderInv
  PROVE  /\ OnDisk \in Seq(LineRecords)
         /\ \A e : Has(OnDisk, e) <=> \E k \in Slots : Has(InSlot(k), e)
<1> DEFINE a == InSlot(3)
           b == InSlot(2)
           c == InSlot(1)
           d == InSlot(0)
<1>1. Slots = 0 .. 3 /\ \A k \in Slots : InSlot(k) \in Seq(LineRecords)
  BY NumberFacts, InSlotLines DEF OrderInv
<1>2. /\ a \in Seq(LineRecords) /\ b \in Seq(LineRecords)
      /\ c \in Seq(LineRecords) /\ d \in Seq(LineRecords)
  BY <1>1
<1>3. OnDisk = ((a \o b) \o c) \o d
  BY DEF OnDisk
<1>4. \A e : (\E k \in Slots : Has(InSlot(k), e)) <=> Has(a, e) \/ Has(b, e) \/ Has(c, e) \/ Has(d, e)
  <2> SUFFICES ASSUME NEW e
               PROVE  (\E k \in Slots : Has(InSlot(k), e)) <=>
                        Has(a, e) \/ Has(b, e) \/ Has(c, e) \/ Has(d, e)
    OBVIOUS
  <2>1. \A k \in Slots : k = 0 \/ k = 1 \/ k = 2 \/ k = 3
    BY <1>1
  <2>2. 0 \in Slots /\ 1 \in Slots /\ 2 \in Slots /\ 3 \in Slots
    BY <1>1
  <2> QED
    BY <2>1, <2>2
<1> HIDE DEF a, b, c, d
<1>5. a \o b \in Seq(LineRecords) /\ (a \o b) \o c \in Seq(LineRecords)
  BY <1>2
<1>6. \A e : Has(OnDisk, e) <=> ((Has(a, e) \/ Has(b, e)) \/ Has(c, e)) \/ Has(d, e)
  BY <1>2, <1>3, <1>5, HasConcat
<1>7. OnDisk \in Seq(LineRecords)
  BY <1>2, <1>3, <1>5
<1> QED
  BY <1>4, <1>6, <1>7

\* It is after a step as well.
DiskIsFiles == \A e : Has(OnDisk, e) <=> \E k \in Slots : Has(InSlot(k), e)

\* OnDiskHas, of the next state.
LEMMA OnDiskHasNext == OrderInv' => DiskIsFiles'
<1>1. OrderInv => DiskIsFiles
  BY OnDiskHas DEF DiskIsFiles
<1> QED
  BY <1>1, PTL

\* The last warning is on disk, or newer lines are, in two files.
LEMMA WarningOnDisk == ASSUME OneRun, AllInv PROVE WarningsKept
<1> SUFFICES ASSUME faults = 0, last_warn # 0
             PROVE  \/ \E j \in DOMAIN OnDisk : OnDisk[j].n = last_warn
                    \/ /\ \A j \in DOMAIN OnDisk : OnDisk[j].n > last_warn
                       /\ Cardinality({ k \in Slots : InSlot(k) # <<>> }) >= MAX_LOG_FILES - 1
  BY DEF WarningsKept
<1>1. Kept \/ Passed
  BY DEF AllInv, RunInv, KeptInv
<1>2. \A e : Has(OnDisk, e) <=> \E k \in Slots : Has(InSlot(k), e)
  BY OnDiskHas DEF AllInv
<1>3. CASE Kept
  <2>1. PICK k \in Slots : \E j \in DOMAIN InSlot(k) : InSlot(k)[j].n = last_warn
    BY <1>3 DEF Kept
  <2>2. PICK j \in DOMAIN InSlot(k) : InSlot(k)[j].n = last_warn
    BY <2>1
  <2> DEFINE e == InSlot(k)[j]
  <2>3. Has(InSlot(k), e)
    BY DEF Has
  <2> HIDE DEF e
  <2>4. Has(OnDisk, e)
    BY <1>2, <2>3
  <2> QED
    BY <2>2, <2>4 DEF Has, e
<1>4. CASE Passed
  <2>1. \A j \in DOMAIN OnDisk : OnDisk[j].n > last_warn
    <3> SUFFICES ASSUME NEW j \in DOMAIN OnDisk PROVE OnDisk[j].n > last_warn
      OBVIOUS
    <3> DEFINE e == OnDisk[j]
    <3>1. Has(OnDisk, e)
      BY DEF Has
    <3>2. PICK k \in Slots : Has(InSlot(k), e)
      BY <1>2, <3>1
    <3>3. PICK x \in DOMAIN InSlot(k) : InSlot(k)[x] = e
      BY <3>2 DEF Has
    <3> QED
      BY <1>4, <3>3 DEF Passed
  <2> DEFINE used == { k \in Slots : InSlot(k) # <<>> }
  <2>2. PICK a \in Slots, b \in Slots : a # b /\ InSlot(a) # <<>> /\ InSlot(b) # <<>>
    BY <1>4 DEF Passed
  <2>3. IsFiniteSet(Slots)
    BY NumberFacts, UpToFacts, 3 \in Nat
  <2>4. IsFiniteSet(used) /\ {a, b} \subseteq used
    BY <2>2, <2>3, FS_Subset
  <2>5. Cardinality({a, b}) = 2
    <3>1. IsFiniteSet({a}) /\ Cardinality({a}) = 1
      BY FS_Singleton
    <3>2. Cardinality({a} \cup {b}) = Cardinality({a}) + 1
      BY <2>2, <3>1, FS_AddElement
    <3> QED
      BY <3>1, <3>2
  <2>6. Cardinality(used) \in Nat /\ Cardinality({a, b}) <= Cardinality(used)
    BY <2>4, FS_Subset, FS_CardinalityType
  <2>7. MAX_LOG_FILES - 1 = 2
    BY NumberFacts DEF MAX_LOG_FILES
  <2> QED
    BY <2>1, <2>5, <2>6, <2>7
<1> QED
  BY <1>1, <1>3, <1>4

\* A warning that was logged stays readable: it leaves the disk only as part of
\* the oldest file, when everything left is newer, in two files at least.  For
\* every limit and all sizes of lines, and whenever the tool crashes.
THEOREM WarningsStay == ASSUME OneRun PROVE LogSpec => []WarningsKept
BY RunInvariantHolds, WarningOnDisk, PTL

----------------------------------------------------------------------------
\* A line stays in some file, unless it is in the oldest one and that goes.
LEMMA StaysSomewhere ==
  ASSUME OneRun, AllInv, Effect, faults' = 0, NEW k \in Slots, NEW e, Has(InSlot(k), e)
  PROVE  \/ \E h \in Slots : Has(InSlot(h)', e)
         \/ k = 3 /\ InSlot(2) # <<>> /\ InSlot(0) # <<>>
<1>1. Slots = 0 .. 3 /\ \A h \in Slots : InSlot(h) \in Seq(LineRecords)
  BY RunFacts DEF AllInv
<1>2. me.buffer \in Seq(LineRecords) /\ me.line \in LineRecords
  BY RunFacts DEF AllInv
<1>3. (\A h \in Slots : InSlot(h)' = InSlot(h)) => \E h \in Slots : Has(InSlot(h)', e)
  OBVIOUS
<1>4. ASSUME NEW ls \in Seq(LineRecords), InSlot(0)' = InSlot(0) \o ls,
             \A h \in Slots \ {0} : InSlot(h)' = InSlot(h)
      PROVE  \E h \in Slots : Has(InSlot(h)', e)
  <2>1. Has(InSlot(0), e) => Has(InSlot(0) \o ls, e)
    BY <1>1, HasConcat
  <2>2. Has(InSlot(k)', e)
    BY <1>1, <1>4, <2>1
  <2> QED
    BY <2>2
<1>5. CASE \/ StartEffect \/ (\E size \in Sizes, warn \in BOOLEAN : LogEffect(size, warn))
           \/ SkipEffect \/ RenameFailsEffect \/ ReopenFailsEffect \/ CrashEffect
  BY <1>3, <1>5 DEF StartEffect, LogEffect, SkipEffect, RenameFailsEffect,
                    ReopenFailsEffect, CrashEffect, SameFiles
<1>6. CASE CheckEffect
  <2>1. \A h \in Slots \ {0} : InSlot(h)' = InSlot(h)
    BY <1>6 DEF CheckEffect
  <2>2. InSlot(0)' = InSlot(0) \/ InSlot(0)' = InSlot(0) \o me.buffer
    BY <1>6 DEF CheckEffect
  <2> QED
    BY <1>2, <1>3, <1>4, <2>1, <2>2
<1>7. CASE RemoveEffect
  <2>1. /\ me.i \in 1 .. 3
        /\ \A h \in Slots : IF h = me.i THEN slot'[h] = 0 /\ InSlot(h)' = <<>>
                            ELSE slot'[h] = slot[h] /\ InSlot(h)' = InSlot(h)
        /\ \/ me.pc = "rotate" /\ slot[me.i - 1] # 0
           \/ me.pc = "again"
    BY <1>7 DEF RemoveEffect
  <2>2. CASE k # me.i
    BY <2>1, <2>2
  <2>3. CASE k = me.i
    <3>1. slot[k] # 0
      <4>1. slot[k] = 0 => InSlot(k) = <<>>
        BY DEF InSlot
      <4>2. ~Has(<<>>, e)
        BY DEF Has
      <4> QED
        BY <4>1, <4>2
    <3>2. me.pc = "rotate" /\ me.i = 3 /\ InSlot(0) # <<>>
      BY <2>1, <2>3, <3>1, MoveFacts
    <3>3. slot[2] # 0 /\ 2 \in Slots \ {0}
      BY <1>1, <2>1, <3>2
    <3> QED
      BY <2>3, <3>2, <3>3, MoveFacts
  <2> QED
    BY <2>2, <2>3
<1>8. CASE RenameEffect
  <2>1. /\ me.i \in 1 .. 3 /\ me.pc \in {"rename", "rename_again"}
        /\ \A h \in Slots :
             /\ h = me.i => InSlot(h)' = InSlot(h - 1)
             /\ h \notin {me.i, me.i - 1} => InSlot(h)' = InSlot(h)
    BY <1>8 DEF RenameEffect
  <2>2. k # me.i
    <3>1. k = me.i => InSlot(k) = <<>>
      BY <2>1, MoveFacts DEF InSlot
    <3>2. ~Has(<<>>, e)
      BY DEF Has
    <3> QED
      BY <3>1, <3>2
  <2>3. CASE k = me.i - 1
    <3>1. k + 1 \in Slots /\ k + 1 = me.i /\ (k + 1) - 1 = k
      BY <1>1, <2>1, <2>3
    <3>2. \A h \in Slots : h = k + 1 => InSlot(h)' = InSlot(k)
      BY <2>1, <3>1
    <3>3. PICK h \in Slots : h = k + 1
      BY <3>1
    <3> QED
      BY <3>2, <3>3
  <2>4. CASE k # me.i - 1
    BY <2>1, <2>2, <2>4
  <2> QED
    BY <2>3, <2>4
<1>9. CASE ReopenEffect
  <2>1. /\ faults = 0 /\ InSlot(0)' = <<>>
        /\ \A h \in Slots \ {0} : InSlot(h)' = InSlot(h)
        /\ me.pc = "give_up" \/ (me.pc = "rotate" /\ me.i = 0)
    BY <1>9 DEF ReopenEffect
  <2>2. slot[0] = 0
    BY <2>1, MoveFacts
  <2>3. InSlot(0) = <<>>
    BY <2>2 DEF InSlot
  <2> QED
    BY <1>3, <2>1, <2>3
<1>10. CASE \E n \in Nat : WriteEffect(n)
  <2>1. PICK n \in Nat : WriteEffect(n)
    BY <1>10
  <2>2. CASE me.fd = 0
    BY <1>3, <2>1, <2>2 DEF WriteEffect
  <2>3. CASE me.fd # 0
    <3> DEFINE front == SubSeq(Append(me.buffer, me.line), 1, n)
    <3>1. /\ n \in 0 .. Len(Append(me.buffer, me.line)) /\ InSlot(0)' = InSlot(0) \o front
          /\ \A h \in Slots \ {0} : InSlot(h)' = InSlot(h)
      BY <2>1, <2>3 DEF WriteEffect
    <3>2. front \in Seq(LineRecords)
      BY <1>2, <3>1, PartedFacts
    <3> HIDE DEF front
    <3> QED
      BY <1>4, <3>1, <3>2
  <2> QED
    BY <2>2, <2>3
<1>11. CASE FlushEffect
  BY <1>2, <1>4, <1>11 DEF FlushEffect
<1>12. CASE EmptiedEffect
  BY <1>12, MoveFacts DEF EmptiedEffect
<1> QED
  BY <1>5, <1>6, <1>7, <1>8, <1>9, <1>10, <1>11, <1>12 DEF Effect

\* A line leaves the disk only with the oldest file, and only while the name
\* before it and the log file have lines in them: for every limit and all sizes
\* of lines, as long as nothing fails.
THEOREM OnlyOldestGoes == ASSUME OneRun PROVE LogSpec => OnlyOldestDropped
<1> DEFINE Dropped ==
      faults' = 0 =>
        \A j \in DOMAIN OnDisk :
          OnDisk[j] \notin Range(OnDisk') =>
            /\ OnDisk[j] \in Range(InSlot(MAX_LOG_FILES))
            /\ InSlot(MAX_LOG_FILES - 1) # <<>> /\ InSlot(0) # <<>>
<1>1. AllInv /\ AllInv' /\ [LogNext]_logVars => [Dropped]_logVars
  <2> SUFFICES ASSUME AllInv, AllInv', LogNext, faults' = 0, NEW j \in DOMAIN OnDisk,
                      OnDisk[j] \notin Range(OnDisk')
               PROVE  /\ OnDisk[j] \in Range(InSlot(MAX_LOG_FILES))
                      /\ InSlot(MAX_LOG_FILES - 1) # <<>> /\ InSlot(0) # <<>>
    OBVIOUS
  <2> DEFINE e == OnDisk[j]
  <2>1. Effect
    BY StepHasEffect
  <2>2. \A x : Has(OnDisk, x) <=> \E k \in Slots : Has(InSlot(k), x)
    BY OnDiskHas DEF AllInv
  <2>3. \A x : Has(OnDisk', x) <=> \E k \in Slots : Has(InSlot(k)', x)
    BY OnDiskHasNext DEF AllInv, DiskIsFiles
  <2>4. Has(OnDisk, e) /\ ~Has(OnDisk', e)
    BY DEF Has, Range
  <2> HIDE DEF e
  <2>5. PICK k \in Slots : Has(InSlot(k), e)
    BY <2>2, <2>4
  <2>6. ~\E h \in Slots : Has(InSlot(h)', e)
    BY <2>3, <2>4
  <2>7. k = 3 /\ InSlot(2) # <<>> /\ InSlot(0) # <<>>
    BY <2>1, <2>5, <2>6, StaysSomewhere
  <2>8. e \in Range(InSlot(3))
    BY <2>5, <2>7 DEF Has, Range
  <2>9. MAX_LOG_FILES = 3 /\ MAX_LOG_FILES - 1 = 2
    BY DEF MAX_LOG_FILES
  <2> QED
    BY <2>7, <2>8, <2>9 DEF e
<1> QED
  BY <1>1, RunInvariantHolds, PTL DEF LogSpec, OnlyOldestDropped
----------------------------------------------------------------------------
\* The log of one tool implements DurableLog: each step of the run is one of
\* the promise's, or one that the promise does not see.

\* Files that stay make the same log.
LEMMA DiskSame ==
  ASSUME \A k \in 0 .. 3 : InSlot(k)' = InSlot(k)
  PROVE  OnDisk' = OnDisk
<1>1. /\ InSlot(0)' = InSlot(0) /\ InSlot(1)' = InSlot(1)
      /\ InSlot(2)' = InSlot(2) /\ InSlot(3)' = InSlot(3)
  OBVIOUS
<1> QED
  BY <1>1 DEF OnDisk

\* Lines behind the log file are behind the log.
LEMMA DiskAppended ==
  ASSUME OrderInv, NEW ls \in Seq(LineRecords), InSlot(0)' = InSlot(0) \o ls,
         \A k \in 1 .. 3 : InSlot(k)' = InSlot(k)
  PROVE  OnDisk' = OnDisk \o ls
<1> DEFINE old == (InSlot(3) \o InSlot(2)) \o InSlot(1)
<1>1. /\ InSlot(0) \in Seq(LineRecords) /\ InSlot(1) \in Seq(LineRecords)
      /\ InSlot(2) \in Seq(LineRecords) /\ InSlot(3) \in Seq(LineRecords)
  BY NumberFacts, InSlotLines DEF OrderInv
<1>2. old \in Seq(LineRecords)
  BY <1>1
<1>3. InSlot(1)' = InSlot(1) /\ InSlot(2)' = InSlot(2) /\ InSlot(3)' = InSlot(3)
  OBVIOUS
<1>4. OnDisk' = old \o (InSlot(0) \o ls) /\ OnDisk = old \o InSlot(0)
  BY <1>3 DEF OnDisk
<1> HIDE DEF old
<1> QED
  BY <1>1, <1>2, <1>4, Associative

\* A file that gets the next name, which is free, makes the same log.
LEMMA DiskMoved ==
  ASSUME OrderInv, NEW i \in 1 .. 3, InSlot(i) = <<>>,
         \A k \in Slots :
           /\ k = i => InSlot(k)' = InSlot(k - 1)
           /\ k = i - 1 => InSlot(k)' = <<>>
           /\ k \notin {i, i - 1} => InSlot(k)' = InSlot(k)
  PROVE  OnDisk' = OnDisk
<1> DEFINE a == InSlot(3)
           b == InSlot(2)
           c == InSlot(1)
           d == InSlot(0)
<1>1. Slots = 0 .. 3 /\ 0 \in Slots /\ 1 \in Slots /\ 2 \in Slots /\ 3 \in Slots
  BY NumberFacts
<1>2. /\ a \in Seq(LineRecords) /\ b \in Seq(LineRecords)
      /\ c \in Seq(LineRecords) /\ d \in Seq(LineRecords)
  BY <1>1, InSlotLines DEF OrderInv
<1>3. \A s \in Seq(LineRecords) : s \o <<>> = s /\ <<>> \o s = s
  BY ConcatEmptySeq
<1>4. OnDisk = ((a \o b) \o c) \o d
  BY DEF OnDisk
<1>5. a \o b \in Seq(LineRecords)
  BY <1>2
<1>6. CASE i = 3
  <2>1. InSlot(3)' = b /\ InSlot(2)' = <<>> /\ InSlot(1)' = c /\ InSlot(0)' = d /\ a = <<>>
    BY <1>1, <1>6
  <2>2. OnDisk' = ((b \o <<>>) \o c) \o d
    BY <2>1 DEF OnDisk
  <2> QED
    BY <1>2, <1>3, <1>4, <2>1, <2>2
<1>7. CASE i = 2
  <2>1. InSlot(3)' = a /\ InSlot(2)' = c /\ InSlot(1)' = <<>> /\ InSlot(0)' = d /\ b = <<>>
    BY <1>1, <1>7
  <2>2. OnDisk' = ((a \o c) \o <<>>) \o d
    BY <2>1 DEF OnDisk
  <2>3. (a \o c) \o <<>> = a \o c
    <3>1. a \o c \in Seq(LineRecords)
      BY <1>2
    <3> QED
      BY <1>3, <3>1
  <2>4. OnDisk = ((a \o <<>>) \o c) \o d /\ a \o <<>> = a
    BY <1>2, <1>3, <1>4, <2>1
  <2> QED
    BY <2>2, <2>3, <2>4
<1>8. CASE i = 1
  <2>1. InSlot(3)' = a /\ InSlot(2)' = b /\ InSlot(1)' = d /\ InSlot(0)' = <<>> /\ c = <<>>
    BY <1>1, <1>8
  <2>2. OnDisk' = ((a \o b) \o d) \o <<>>
    BY <2>1 DEF OnDisk
  <2>3. ((a \o b) \o d) \o <<>> = (a \o b) \o d
    <3>1. (a \o b) \o d \in Seq(LineRecords)
      BY <1>2
    <3> QED
      BY <1>3, <3>1
  <2>4. OnDisk = ((a \o b) \o <<>>) \o d /\ (a \o b) \o <<>> = a \o b
    BY <1>3, <1>4, <1>5, <2>1
  <2> QED
    BY <2>2, <2>3, <2>4
<1> QED
  BY <1>6, <1>7, <1>8

\* Without the oldest file, the log is without its front.
LEMMA DiskDropped ==
  ASSUME OrderInv, InSlot(3) # <<>>, InSlot(3)' = <<>>,
         \A k \in 0 .. 2 : InSlot(k)' = InSlot(k)
  PROVE  \E k \in 1 .. Len(OnDisk) : OnDisk' = SubSeq(OnDisk, k + 1, Len(OnDisk))
<1> DEFINE a == InSlot(3)
           b == InSlot(2)
           c == InSlot(1)
           d == InSlot(0)
           rest == (b \o c) \o d
<1>1. /\ a \in Seq(LineRecords) /\ b \in Seq(LineRecords)
      /\ c \in Seq(LineRecords) /\ d \in Seq(LineRecords)
  BY NumberFacts, InSlotLines DEF OrderInv
<1>2. OnDisk = ((a \o b) \o c) \o d /\ OnDisk' = ((<<>> \o b) \o c) \o d
  <2>1. InSlot(2)' = b /\ InSlot(1)' = c /\ InSlot(0)' = d
    OBVIOUS
  <2> QED
    BY <2>1 DEF OnDisk
<1>3. a # <<>>
  OBVIOUS
<1> HIDE DEF a, b, c, d
<1>4. rest \in Seq(LineRecords) /\ b \o c \in Seq(LineRecords)
  BY <1>1
<1>5. OnDisk = a \o rest
  <2>1. (a \o b) \o c = a \o (b \o c)
    BY <1>1, Associative
  <2>2. (a \o (b \o c)) \o d = a \o ((b \o c) \o d)
    BY <1>1, <1>4, Associative
  <2> QED
    BY <1>2, <2>1, <2>2
<1>6. OnDisk' = rest
  <2>1. <<>> \o b = b
    BY <1>1, ConcatEmptySeq
  <2> QED
    BY <1>2, <2>1
<1> HIDE DEF rest
<1>7. Len(a) \in 1 .. Len(a \o rest)
  <2>1. Len(a) \in Nat \ {0}
    BY <1>1, <1>3, EmptySeq
  <2> QED
    BY <1>1, <1>4, <2>1
<1>8. SubSeq(a \o rest, Len(a) + 1, Len(a \o rest)) = rest
  BY <1>1, <1>4
<1> QED
  BY <1>5, <1>6, <1>7, <1>8

\* Without the log file, the log is without its end.
LEMMA DiskLost ==
  ASSUME OrderInv, InSlot(0) # <<>>, InSlot(0)' = <<>>,
         \A k \in 1 .. 3 : InSlot(k)' = InSlot(k)
  PROVE  \E i, j \in 0 .. Len(OnDisk) :
           OnDisk' = SubSeq(OnDisk, 1, i) \o SubSeq(OnDisk, j + 1, Len(OnDisk)) /\ i < j
<1> DEFINE old == (InSlot(3) \o InSlot(2)) \o InSlot(1)
           d == InSlot(0)
<1>1. /\ d \in Seq(LineRecords) /\ old \in Seq(LineRecords)
  <2>1. /\ InSlot(0) \in Seq(LineRecords) /\ InSlot(1) \in Seq(LineRecords)
        /\ InSlot(2) \in Seq(LineRecords) /\ InSlot(3) \in Seq(LineRecords)
    BY NumberFacts, InSlotLines DEF OrderInv
  <2> QED
    BY <2>1
<1>2. OnDisk = old \o d /\ OnDisk' = old \o <<>>
  <2>1. InSlot(1)' = InSlot(1) /\ InSlot(2)' = InSlot(2) /\ InSlot(3)' = InSlot(3)
    OBVIOUS
  <2> QED
    BY <2>1 DEF OnDisk
<1>3. Len(d) \in Nat \ {0}
  BY <1>1, EmptySeq
<1> HIDE DEF old, d
<1>4. Len(old) \in Nat /\ Len(old \o d) = Len(old) + Len(d) /\ old \o d \in Seq(LineRecords)
  BY <1>1
<1>5. SubSeq(old \o d, 1, Len(old)) = old
  BY <1>1
<1>6. SubSeq(old \o d, Len(old \o d) + 1, Len(old \o d)) = <<>>
  BY <1>4
<1>7. /\ Len(old) \in 0 .. Len(old \o d) /\ Len(old \o d) \in 0 .. Len(old \o d)
      /\ Len(old) < Len(old \o d)
  BY <1>3, <1>4
<1> QED
  BY <1>2, <1>5, <1>6, <1>7
\* The promise's view of a step: lines from the front of the buffer settle.
LEMMA SettledStep ==
  ASSUME OneRun, AllInv, NEW ls \in Seq(LineRecords), NEW k \in 0 .. Len(ls),
         InSlot(0)' = InSlot(0) \o SubSeq(ls, 1, k),
         \A j \in 1 .. 3 : InSlot(j)' = InSlot(j),
         me'.buffer = SubSeq(ls, k + 1, Len(ls)), faults' = faults
  PROVE  Promise!Settle(ls, k)
<1>1. SubSeq(ls, 1, k) \in Seq(LineRecords)
  OBVIOUS
<1>2. OnDisk' = OnDisk \o SubSeq(ls, 1, k)
  BY <1>1, DiskAppended DEF AllInv
<1>3. (faults > 0)' = (faults > 0)
  BY Zenon
<1> QED
  BY <1>2, <1>3 DEF Promise!Settle, me, run

\* All of the buffer settles, or it was empty and nothing is seen.
LEMMA FlushedStep ==
  ASSUME OneRun, AllInv, InSlot(0)' = InSlot(0) \o me.buffer,
         \A j \in 1 .. 3 : InSlot(j)' = InSlot(j), me'.buffer = <<>>, faults' = faults
  PROVE  Promise!Flush
<1> DEFINE b == me.buffer
<1>1. b \in Seq(LineRecords)
  BY RunFacts DEF AllInv
<1>2. Len(b) \in 0 .. Len(b) /\ SubSeq(b, 1, Len(b)) = b /\ SubSeq(b, Len(b) + 1, Len(b)) = <<>>
  BY <1>1
<1>3. InSlot(0)' = InSlot(0) \o b /\ me'.buffer = <<>>
  OBVIOUS
<1> HIDE DEF b
<1>4. Promise!Settle(b, Len(b))
  BY <1>1, <1>2, <1>3, SettledStep
<1> QED
  BY <1>4 DEF Promise!Flush, b, me, run

\* Nothing is seen of a step that leaves disk, buffer and faults.
LEMMA UnseenStep ==
  ASSUME OnDisk' = OnDisk, me'.buffer = me.buffer, faults' = faults
  PROVE  UNCHANGED Promise!vars
<1>1. (faults > 0)' = (faults > 0)
  BY Zenon
<1> QED
  BY <1>1 DEF Promise!vars, me, run

\* A fault is seen as one.
LEMMA FaultStep ==
  ASSUME OneRun, AllInv, OnDisk' = OnDisk, me'.buffer = me.buffer, faults' = faults + 1
  PROVE  Promise!Fault
<1>1. faults \in Nat
  BY RunFacts DEF AllInv
<1>2. (faults > 0)' = TRUE
  BY <1>1
<1> QED
  BY <1>2 DEF Promise!Fault, me, run

\* A write is one of the promise, unless the sink has no file.
LEMMA WriteStep ==
  ASSUME OneRun, AllInv, NEW k \in Nat, WriteEffect(k)
  PROVE  [Promise!Next]_(Promise!vars)
<1>1. /\ me.buffer \in Seq(LineRecords) /\ me.line \in LineRecords /\ Slots = 0 .. 3
      /\ (me.fd = 0 => me.buffer = <<>>)
  BY RunFacts DEF AllInv, RunInv, FileInv
<1>2. faults' = faults /\ \A j \in 1 .. 3 : InSlot(j)' = InSlot(j)
  BY <1>1 DEF WriteEffect
<1>3. CASE me.fd = 0
  <2>1. me'.buffer = <<>> /\ me.buffer = <<>> /\ InSlot(0)' = InSlot(0)
    BY <1>1, <1>3 DEF WriteEffect
  <2>2. OnDisk' = OnDisk
    BY <1>2, <2>1, DiskSame
  <2>3. UNCHANGED Promise!vars
    BY <1>2, <2>1, <2>2, UnseenStep
  <2> QED
    BY <2>3
<1>4. CASE me.fd # 0
  <2> DEFINE ls == Append(me.buffer, me.line)
  <2>1. /\ k \in 0 .. Len(ls) /\ me'.buffer = SubSeq(ls, k + 1, Len(ls))
        /\ InSlot(0)' = InSlot(0) \o SubSeq(ls, 1, k)
    BY <1>4 DEF WriteEffect
  <2>2. ls \in Seq(LineRecords) /\ Len(ls) = Len(me.buffer) + 1
    BY <1>1
  <2> HIDE DEF ls
  <2>3. Promise!Settle(ls, k)
    BY <1>2, <2>1, <2>2, SettledStep
  <2>4. k \in 0 .. Len(me.buffer) + 1
    BY <2>1, <2>2
  <2>5. Promise!Write(me.line)
    BY <2>3, <2>4 DEF Promise!Write, ls, me, run
  <2> QED
    BY <1>1, <2>5 DEF Promise!Next
<1> QED
  BY <1>3, <1>4

\* The removal of the oldest file drops it, if there is one.
LEMMA RemoveStep ==
  ASSUME OneRun, AllInv, RemoveEffect
  PROVE  [Promise!Next]_(Promise!vars)
<1>1. Slots = 0 .. 3 /\ OrderInv
  BY RunFacts DEF AllInv
<1>2. /\ me.i \in 1 .. 3 /\ me'.buffer = me.buffer /\ faults' = faults
      /\ \A k \in Slots : IF k = me.i THEN slot'[k] = 0 /\ InSlot(k)' = <<>>
                          ELSE slot'[k] = slot[k] /\ InSlot(k)' = InSlot(k)
      /\ \/ me.pc = "rotate" /\ slot[me.i - 1] # 0
         \/ me.pc = "again"
  BY DEF RemoveEffect, SameData
<1>3. CASE slot[me.i] = 0
  <2>1. \A k \in Slots : slot[k] = 0 => InSlot(k) = <<>>
    BY DEF InSlot
  <2>2. \A k \in 0 .. 3 : InSlot(k)' = InSlot(k)
    BY <1>1, <1>2, <1>3, <2>1
  <2>3. OnDisk' = OnDisk
    BY <2>2, DiskSame
  <2>4. UNCHANGED Promise!vars
    BY <1>2, <2>3, UnseenStep
  <2> QED
    BY <2>4
<1>4. CASE slot[me.i] # 0
  <2>1. me.i = 3
    BY <1>2, <1>4, MoveFacts
  <2>2. InSlot(3)' = <<>> /\ \A k \in 0 .. 2 : InSlot(k)' = InSlot(k)
    BY <1>1, <1>2, <2>1
  <2>3. InSlot(3) # <<>>
    <3>1. 3 \in Slots \ {0} /\ slot[3] # 0
      BY <1>1, <1>4, <2>1
    <3> QED
      BY <3>1, MoveFacts
  <2>4. \E k \in 1 .. Len(OnDisk) : OnDisk' = SubSeq(OnDisk, k + 1, Len(OnDisk))
    BY <1>1, <2>2, <2>3, DiskDropped
  <2>5. (faults > 0)' = (faults > 0)
    BY <1>2, Zenon
  <2>6. Promise!Drop
    BY <1>2, <2>4, <2>5 DEF Promise!Drop, me, run
  <2> QED
    BY <2>6 DEF Promise!Next
<1> QED
  BY <1>3, <1>4

\* Emptying the log file loses what is in it, and that only after a fault.
LEMMA EmptiedStep ==
  ASSUME OneRun, AllInv, InSlot(0)' = <<>>, \A k \in 1 .. 3 : InSlot(k)' = InSlot(k),
         me.pc = "give_up" \/ (me.pc = "rotate" /\ me.i = 0)
  PROVE  \/ InSlot(0) = <<>> /\ OnDisk' = OnDisk
         \/ /\ faults > 0
            /\ \E i, j \in 0 .. Len(OnDisk) :
                 OnDisk' = SubSeq(OnDisk, 1, i) \o SubSeq(OnDisk, j + 1, Len(OnDisk)) /\ i < j
<1>1. Slots = 0 .. 3 /\ OrderInv
  BY RunFacts DEF AllInv
<1>2. CASE InSlot(0) = <<>>
  <2>1. \A k \in 0 .. 3 : InSlot(k)' = InSlot(k)
    BY <1>2
  <2> QED
    BY <1>2, <2>1, DiskSame
<1>3. CASE InSlot(0) # <<>>
  <2>1. me.pc = "give_up"
    <3>1. me.pc = "rotate" /\ me.i = 0 => slot[0] = 0
      BY MoveFacts
    <3>2. slot[0] = 0 => InSlot(0) = <<>>
      BY DEF InSlot
    <3> QED
      BY <1>3, <3>1, <3>2
  <2>2. faults > 0
    BY <2>1, MoveFacts
  <2> QED
    BY <1>1, <1>3, <2>2, DiskLost
<1> QED
  BY <1>2, <1>3

\* Opening the log file anew.
LEMMA ReopenStep ==
  ASSUME OneRun, AllInv, ReopenEffect
  PROVE  [Promise!Next]_(Promise!vars)
<1>1. Slots = 0 .. 3
  BY RunFacts DEF AllInv
<1>2. /\ me'.buffer = me.buffer /\ faults' = faults /\ InSlot(0)' = <<>>
      /\ \A k \in 1 .. 3 : InSlot(k)' = InSlot(k)
      /\ me.pc = "give_up" \/ (me.pc = "rotate" /\ me.i = 0)
  BY <1>1 DEF ReopenEffect
<1>3. CASE OnDisk' = OnDisk
  <2>1. UNCHANGED Promise!vars
    BY <1>2, <1>3, UnseenStep
  <2> QED
    BY <2>1
<1>4. CASE /\ faults > 0
           /\ \E i, j \in 0 .. Len(OnDisk) :
                OnDisk' = SubSeq(OnDisk, 1, i) \o SubSeq(OnDisk, j + 1, Len(OnDisk)) /\ i < j
  <2>1. (faults > 0)' = (faults > 0)
    BY <1>2, Zenon
  <2>2. Promise!Lose
    BY <1>2, <1>4, <2>1 DEF Promise!Lose, me, run
  <2> QED
    BY <2>2 DEF Promise!Next
<1> QED
  BY <1>2, <1>3, <1>4, EmptiedStep

\* Emptying the log file without getting it open again.
LEMMA FilelessStep ==
  ASSUME OneRun, AllInv, EmptiedEffect
  PROVE  [Promise!Next]_(Promise!vars)
<1>1. Slots = 0 .. 3 /\ faults \in Nat
  BY RunFacts DEF AllInv
<1>2. /\ me'.buffer = me.buffer /\ faults' = faults + 1 /\ InSlot(0)' = <<>>
      /\ \A k \in 1 .. 3 : InSlot(k)' = InSlot(k)
      /\ me.pc = "give_up" \/ (me.pc = "rotate" /\ me.i = 0)
  BY <1>1 DEF EmptiedEffect, SameData
<1>3. CASE OnDisk' = OnDisk
  <2>1. Promise!Fault
    BY <1>2, <1>3, FaultStep
  <2> QED
    BY <2>1 DEF Promise!Next
<1>4. CASE /\ faults > 0
           /\ \E i, j \in 0 .. Len(OnDisk) :
                OnDisk' = SubSeq(OnDisk, 1, i) \o SubSeq(OnDisk, j + 1, Len(OnDisk)) /\ i < j
  <2>1. faults > 0 /\ faults' > 0
    BY <1>1, <1>2, <1>4
  <2>2. (faults > 0)' = (faults > 0)
    BY <2>1
  <2>3. Promise!Lose
    BY <1>2, <1>4, <2>2 DEF Promise!Lose, me, run
  <2> QED
    BY <2>3 DEF Promise!Next
<1> QED
  BY <1>2, <1>3, <1>4, EmptiedStep

\* Each step of the run is one of DurableLog's, or unseen.
LEMMA LogStepMaps ==
  ASSUME OneRun, AllInv, [LogNext]_logVars
  PROVE  [Promise!Next]_(Promise!vars)
<1>1. Slots = 0 .. 3 /\ OrderInv /\ me.buffer \in Seq(LineRecords)
  BY RunFacts DEF AllInv
<1>2. ASSUME me'.buffer = me.buffer, faults' = faults, \A k \in 0 .. 3 : InSlot(k)' = InSlot(k)
      PROVE  [Promise!Next]_(Promise!vars)
  <2>1. UNCHANGED Promise!vars
    BY <1>2, DiskSame, UnseenStep
  <2> QED
    BY <2>1
<1>3. CASE UNCHANGED logVars
  BY <1>2, <1>3 DEF logVars, me, InSlot
<1>4. CASE StartEffect
  BY <1>1, <1>2, <1>4 DEF StartEffect
<1>5. CASE \E size \in Sizes, warn \in BOOLEAN : LogEffect(size, warn)
  BY <1>1, <1>2, <1>5 DEF LogEffect
<1>6. CASE CheckEffect
  <2>1. faults' = faults /\ \A k \in 1 .. 3 : InSlot(k)' = InSlot(k)
    BY <1>1, <1>6 DEF CheckEffect
  <2>2. CASE SameData /\ InSlot(0)' = InSlot(0)
    BY <1>2, <2>1, <2>2 DEF SameData
  <2>3. CASE me'.buffer = <<>> /\ InSlot(0)' = InSlot(0) \o me.buffer
    <3>1. Promise!Flush
      BY <2>1, <2>3, FlushedStep
    <3> QED
      BY <3>1 DEF Promise!Next
  <2> QED
    BY <1>6, <2>2, <2>3 DEF CheckEffect
<1>7. CASE SkipEffect
  BY <1>1, <1>2, <1>7 DEF SkipEffect, SameData, SameFiles
<1>8. CASE RemoveEffect
  BY <1>8, RemoveStep
<1>9. CASE RenameEffect
  <2>1. /\ me.i \in 1 .. 3 /\ me'.buffer = me.buffer /\ faults' = faults
        /\ me.pc \in {"rename", "rename_again"}
        /\ \A k \in Slots :
             /\ k = me.i => InSlot(k)' = InSlot(k - 1)
             /\ k = me.i - 1 => InSlot(k)' = <<>>
             /\ k \notin {me.i, me.i - 1} => InSlot(k)' = InSlot(k)
    BY <1>9 DEF RenameEffect, SameData
  <2>2. PICK i \in 1 .. 3 : i = me.i
    BY <2>1
  <2>3. InSlot(i) = <<>>
    BY <2>1, <2>2, MoveFacts DEF InSlot
  <2>4. OnDisk' = OnDisk
    BY <1>1, <2>1, <2>2, <2>3, DiskMoved
  <2>5. UNCHANGED Promise!vars
    BY <2>1, <2>4, UnseenStep
  <2> QED
    BY <2>5
<1>10. CASE RenameFailsEffect \/ ReopenFailsEffect
  <2>1. me'.buffer = me.buffer /\ \A k \in 0 .. 3 : InSlot(k)' = InSlot(k)
    BY <1>1, <1>10 DEF RenameFailsEffect, ReopenFailsEffect, SameData, SameFiles
  <2>2. faults' = faults \/ faults' = faults + 1
    BY <1>10 DEF RenameFailsEffect, ReopenFailsEffect
  <2>3. CASE faults' = faults
    BY <1>2, <2>1, <2>3
  <2>4. CASE faults' = faults + 1
    <3>1. Promise!Fault
      BY <2>1, <2>4, DiskSame, FaultStep
    <3> QED
      BY <3>1 DEF Promise!Next
  <2> QED
    BY <2>2, <2>3, <2>4
<1>11. CASE ReopenEffect
  BY <1>11, ReopenStep
<1>12. CASE \E k \in Nat : WriteEffect(k)
  BY <1>12, WriteStep
<1>13. CASE FlushEffect
  <2>1. Promise!Flush
    BY <1>1, <1>13, FlushedStep DEF FlushEffect
  <2> QED
    BY <2>1 DEF Promise!Next
<1>14. CASE CrashEffect
  <2>1. /\ me'.buffer = <<>> /\ faults' = faults
        /\ \A k \in 0 .. 3 : InSlot(k)' = InSlot(k)
    BY <1>1, <1>14 DEF CrashEffect, SameFiles
  <2>2. OnDisk' = OnDisk
    BY <2>1, DiskSame
  <2>3. (faults > 0)' = (faults > 0)
    BY <2>1, Zenon
  <2>4. Promise!Crash
    BY <2>1, <2>2, <2>3 DEF Promise!Crash, me, run
  <2> QED
    BY <2>4 DEF Promise!Next
<1>15. LogNext => Effect
  BY StepHasEffect
<1>16. CASE EmptiedEffect
  BY <1>16, FilelessStep
<1> QED
  BY <1>3, <1>4, <1>5, <1>6, <1>7, <1>8, <1>9, <1>10, <1>11, <1>12, <1>13, <1>14, <1>15, <1>16
  DEF Effect

\* The first states of the log are the promise's.
LEMMA LogInitMaps == ASSUME OneRun, LogInit PROVE Promise!Init
<1>1. run \in Processes /\ Slots = 0 .. 3
  BY NumberFacts DEF OneRun
<1>2. me = Fresh /\ \A k \in 0 .. 3 : InSlot(k) = <<>>
  BY <1>1 DEF LogInit, me, InSlot
<1>3. OnDisk = <<>>
  <2>1. InSlot(3) = <<>> /\ InSlot(2) = <<>> /\ InSlot(1) = <<>> /\ InSlot(0) = <<>>
    BY <1>2
  <2>2. <<>> \o <<>> = <<>>
    OBVIOUS
  <2> QED
    BY <2>1, <2>2 DEF OnDisk
<1>4. me.buffer = <<>>
  BY <1>2 DEF Fresh
<1>5. (faults > 0) = FALSE
  BY DEF LogInit
<1> QED
  BY <1>3, <1>4, <1>5 DEF Promise!Init, me, run

\* The log of a tool that runs alone implements DurableLog: lines get to the
\* disk in order, rotation drops them from the front, a crash costs what was
\* pending and no more, and lines of the disk are lost only after a fault.  For
\* every limit and all sizes of lines.
THEOREM LogIsDurable == ASSUME OneRun PROVE LogSpec => ImplementsDurableLog
<1>1. LogInit => Promise!Init
  BY LogInitMaps
<1>2. AllInv /\ [LogNext]_logVars => [Promise!Next]_(Promise!vars)
  BY LogStepMaps
<1> QED
  BY <1>1, <1>2, RunInvariantHolds, PTL DEF LogSpec, ImplementsDurableLog, Promise!Spec
=============================================================================
