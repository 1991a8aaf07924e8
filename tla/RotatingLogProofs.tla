--------------------------- MODULE RotatingLogProofs ---------------------------
(***************************************************************************)
(* Theorems about RotatingLog, for any number of runs of the tool that      *)
(* overlap on one log path, and any failures: no file has two names, and    *)
(* the lines of each run stay in order on disk.                             *)
(***************************************************************************)
EXTENDS RotatingLog, FiniteSetTheorems, WellFoundedInduction, TLAPS

Fields == {"pc", "fd", "buffer", "current_size", "line", "warn", "i"}

Rotating == {"rename", "again", "rename_again", "give_up"}

\* The sink's log call is under way: its line is not written yet.
Logging == Rotating \cup {"write", "full", "rotate"}

\* The directory leads each file at most one name.
OneName == \A j, k \in Slots : slot[j] = slot[k] /\ slot[j] # 0 => j = k

\* current_size is left out: it is a sum over a file.
ProcessShape(r) ==
  /\ DOMAIN r = Fields
  /\ r.fd \in Files \cup {0}
  /\ r.buffer \in Seq(LineRecords)
  /\ r.line \in LineRecords
  /\ r.i \in Slots
  /\ r.pc \in Rotating => r.i > 0
  /\ r.pc \in Rotating \cup {"down", "rotate"} => r.fd = 0

Shape ==
  /\ slot \in [Slots -> Files \cup {0}]
  /\ content \in [Files -> Seq(LineRecords)]
  /\ DOMAIN proc = Processes
  /\ \A p \in Processes : ProcessShape(proc[p])
  /\ lines \in 0 .. MaxLines

\* A file that nobody has is empty, and there is one when a process needs it.
UnusedEmpty ==
  \A f \in Files :
    \/ content[f] = <<>>
    \/ \E k \in Slots : slot[k] = f
    \/ \E p \in Processes : proc[p].fd = f

Ordered(s) ==
  \A j, k \in DOMAIN s : j < k /\ s[j].by = s[k].by => s[j].n < s[k].n

Before(s, t) ==
  \A j \in DOMAIN s, k \in DOMAIN t : s[j].by = t[k].by => s[j].n < t[k].n

\* The names are in the order of the lines ...
FilesOrdered ==
  /\ \A k \in Slots : Ordered(InSlot(k))
  /\ \A j, k \in Slots : j > k => Before(InSlot(j), InSlot(k))

\* ... and a process writes to the newest file that has lines of it.
WritesNewest ==
  \A p \in Processes : \A k \in Slots :
    slot[k] # 0 /\ slot[k] = proc[p].fd =>
      \A j \in Slots : j < k => \A x \in DOMAIN InSlot(j) : InSlot(j)[x].by # p

\* n is newer than what the directory has of p.
Newer(p, n) ==
  \A k \in Slots : \A x \in DOMAIN InSlot(k) :
    InSlot(k)[x].by = p => InSlot(k)[x].n < n

\* What a process has still to write is its own, in order, and newer.
PendingNewer(p) ==
  LET r == proc[p]
  IN  /\ Ordered(r.buffer)
      /\ \A x \in DOMAIN r.buffer :
           r.buffer[x].by = p /\ r.buffer[x].n <= lines /\ Newer(p, r.buffer[x].n)
      /\ r.pc \in Logging =>
           /\ r.line.by = p /\ r.line.n <= lines /\ Newer(p, r.line.n)
           /\ \A x \in DOMAIN r.buffer : r.buffer[x].n < r.line.n

NumbersUsed == \A p \in Processes : Newer(p, lines + 1)

\* The inductive invariant of the order.
OrderInv ==
  /\ Shape
  /\ OneName
  /\ UnusedEmpty
  /\ FilesOrdered
  /\ WritesNewest
  /\ \A p \in Processes : PendingNewer(p)
  /\ NumbersUsed

----------------------------------------------------------------------------
\* Names and files are numbers, and there are more files than names and
\* processes.
LEMMA NumberFacts ==
  /\ Slots = 0 .. 3
  /\ Cardinality(Processes) \in Nat
  /\ Files = 1 .. Cardinality(Processes) + 4
  /\ 0 \notin Files
<1>1. Cardinality(Processes) \in Nat
  BY LogAssumption, FS_CardinalityType
<1> QED
  BY <1>1 DEF Slots, Files, MAX_LOG_FILES

\* The numbers up to n.
LEMMA UpToFacts == \A n \in Nat : IsFiniteSet(0 .. n) /\ Cardinality(0 .. n) = n + 1
<1> TAKE n \in Nat
<1>1. 0 \in Int /\ n \in Int /\ ~(0 > n)
  OBVIOUS
<1>2. IsFiniteSet(0 .. n) /\ Cardinality(0 .. n) = IF 0 > n THEN 0 ELSE n - 0 + 1
  BY <1>1, FS_Interval, Zenon
<1> QED
  BY <1>1, <1>2

\* A process without a file finds one that nobody has.
LEMMA UnusedIsFree ==
  ASSUME Shape, NEW p \in Processes, proc[p].fd = 0
  PROVE  /\ Unused \in Files
         /\ \A k \in Slots : slot[k] # Unused
         /\ \A q \in Processes : proc[q].fd # Unused
<1> DEFINE fds == [q \in Processes |-> proc[q].fd]
           named == { slot[k] : k \in Slots }
           open == { fds[q] : q \in Processes }
<1>1. IsFiniteSet(named) /\ Cardinality(named) <= 4
  <2>1. IsFiniteSet(0 .. 3) /\ Cardinality(0 .. 3) = 4
    <3>1. IsFiniteSet(0 .. 3) /\ Cardinality(0 .. 3) = 3 + 1
      BY UpToFacts, 3 \in Nat, Zenon
    <3> QED
      BY <3>1
  <2>2. slot \in Surjection(Slots, named)
    BY DEF Shape, Surjection
  <2> QED
    BY <2>1, <2>2, FS_Surjection, NumberFacts
<1>2. IsFiniteSet(open) /\ Cardinality(open) <= Cardinality(Processes)
  <2>1. fds \in Surjection(Processes, open)
    BY DEF Surjection
  <2> QED
    BY <2>1, FS_Surjection, LogAssumption
<1>3. /\ IsFiniteSet(named \cup open)
      /\ Cardinality(named \cup open) <= 4 + Cardinality(Processes)
  <2>1. /\ IsFiniteSet(named \cup open)
        /\ Cardinality(named \cup open)
             = Cardinality(named) + Cardinality(open) - Cardinality(named \cap open)
    BY <1>1, <1>2, FS_Union
  <2>2. Cardinality(named \cap open) \in Nat
    <3>1. IsFiniteSet(named \cap open)
      BY <1>1, FS_Subset
    <3> QED
      BY <3>1, FS_CardinalityType
  <2>3. Cardinality(named) \in Nat /\ Cardinality(open) \in Nat
    BY <1>1, <1>2, FS_CardinalityType
  <2> QED
    BY <1>1, <1>2, <2>1, <2>2, <2>3, NumberFacts
<1>4. \E f \in Files : f \notin named \cup open
  <2>1. SUFFICES ASSUME Files \subseteq named \cup open PROVE FALSE
    OBVIOUS
  <2>2. 0 .. Cardinality(Processes) + 4 \subseteq named \cup open
    <3>1. 0 \in open
      BY DEF Shape
    <3> QED
      BY <2>1, <3>1, NumberFacts
  <2>3. Cardinality(0 .. Cardinality(Processes) + 4) = Cardinality(Processes) + 5
    BY UpToFacts, NumberFacts
  <2>4. Cardinality(0 .. Cardinality(Processes) + 4) <= Cardinality(named \cup open)
    BY <1>3, <2>2, FS_Subset
  <2>5. Cardinality(named \cup open) \in Nat
    BY <1>3, FS_CardinalityType
  <2> QED
    BY <1>3, <2>3, <2>4, <2>5, NumberFacts
<1> QED
  BY <1>4 DEF Unused

----------------------------------------------------------------------------
\* What Step does, said of the process and of the files that have names.
LEMMA StepFacts ==
  ASSUME Shape, NEW p \in Processes, NEW r, NEW names, NEW data, Step(p, r, names, data)
  PROVE  /\ DOMAIN proc' = Processes
         /\ proc'[p] = r
         /\ \A q \in Processes : q # p => proc'[q] = proc[q]
         /\ slot' = names
         /\ DOMAIN content' = Files
         /\ \A f \in Files : content'[f] = data[f] \/ content'[f] = <<>>
         /\ \A f \in Files : (\E k \in Slots : names[k] = f) => content'[f] = data[f]
         /\ data \in [Files -> Seq(LineRecords)] =>
              content' \in [Files -> Seq(LineRecords)]
         /\ UnusedEmpty'
BY DEF Shape, Step, Reclaim, UnusedEmpty

\* Appending lines that are in order and newer keeps the order.
LEMMA OrderedAppend ==
  ASSUME NEW s \in Seq(LineRecords), NEW t \in Seq(LineRecords),
         Ordered(s), Ordered(t), Before(s, t)
  PROVE  Ordered(s \o t)
<1>1. LineRecords \subseteq [n : Nat, by : Processes, size : Sizes \cup {0}]
  BY LogAssumption DEF LineRecords
<1>2. Len(s) \in Nat /\ Len(t) \in Nat /\ DOMAIN s = 1 .. Len(s) /\ DOMAIN t = 1 .. Len(t)
  OBVIOUS
<1>3. /\ DOMAIN (s \o t) = 1 .. Len(s) + Len(t)
      /\ \A x \in 1 .. Len(s) : (s \o t)[x] = s[x]
      /\ \A x \in Len(s) + 1 .. Len(s) + Len(t) :
           (s \o t)[x] = t[x - Len(s)] /\ x - Len(s) \in 1 .. Len(t)
  BY <1>2
<1> SUFFICES ASSUME NEW j \in 1 .. Len(s) + Len(t), NEW k \in 1 .. Len(s) + Len(t),
                    j < k, (s \o t)[j].by = (s \o t)[k].by
             PROVE  (s \o t)[j].n < (s \o t)[k].n
  BY <1>3 DEF Ordered
<1>4. CASE k <= Len(s)
  BY <1>2, <1>3, <1>4 DEF Ordered
<1>5. CASE j <= Len(s) /\ ~(k <= Len(s))
  <2>1. /\ (s \o t)[j] = s[j] /\ j \in DOMAIN s
        /\ (s \o t)[k] = t[k - Len(s)] /\ k - Len(s) \in DOMAIN t
    BY <1>2, <1>3, <1>5
  <2> QED
    BY <2>1 DEF Before
<1>6. CASE ~(j <= Len(s))
  <2>1. /\ (s \o t)[j] = t[j - Len(s)] /\ j - Len(s) \in DOMAIN t
        /\ (s \o t)[k] = t[k - Len(s)] /\ k - Len(s) \in DOMAIN t
        /\ j - Len(s) < k - Len(s)
    BY <1>2, <1>3, <1>6
  <2> QED
    BY <2>1 DEF Ordered
<1> QED
  BY <1>4, <1>5, <1>6

\* The beginning of an ordered sequence is ordered, so is the rest, and the
\* rest is newer.
LEMMA OrderedSplit ==
  ASSUME NEW s \in Seq(LineRecords), Ordered(s), NEW k \in Nat, k <= Len(s)
  PROVE  /\ SubSeq(s, 1, k) \in Seq(LineRecords)
         /\ SubSeq(s, k + 1, Len(s)) \in Seq(LineRecords)
         /\ Ordered(SubSeq(s, 1, k)) /\ Ordered(SubSeq(s, k + 1, Len(s)))
         /\ Before(SubSeq(s, 1, k), SubSeq(s, k + 1, Len(s)))
         /\ \A x \in DOMAIN SubSeq(s, 1, k) : x \in DOMAIN s /\ SubSeq(s, 1, k)[x] = s[x]
         /\ \A x \in DOMAIN SubSeq(s, k + 1, Len(s)) :
              x + k \in DOMAIN s /\ SubSeq(s, k + 1, Len(s))[x] = s[x + k]
<1>1. Len(s) \in Nat /\ DOMAIN s = 1 .. Len(s)
  OBVIOUS
<1>2. /\ SubSeq(s, 1, k) \in Seq(LineRecords)
      /\ DOMAIN SubSeq(s, 1, k) = 1 .. k
      /\ \A x \in 1 .. k : x \in DOMAIN s /\ SubSeq(s, 1, k)[x] = s[x]
  BY <1>1
<1>3. /\ SubSeq(s, k + 1, Len(s)) \in Seq(LineRecords)
      /\ DOMAIN SubSeq(s, k + 1, Len(s)) = 1 .. Len(s) - k
      /\ \A x \in 1 .. Len(s) - k :
           x + k \in DOMAIN s /\ SubSeq(s, k + 1, Len(s))[x] = s[x + k]
  BY <1>1
<1>4. Ordered(SubSeq(s, 1, k))
  BY <1>1, <1>2 DEF Ordered
<1>5. Ordered(SubSeq(s, k + 1, Len(s)))
  <2>1. \A x, y \in 1 .. Len(s) - k : x < y => x + k < y + k
    BY <1>1
  <2> QED
    BY <1>3, <2>1 DEF Ordered
<1>6. Before(SubSeq(s, 1, k), SubSeq(s, k + 1, Len(s)))
  <2>1. \A x \in 1 .. k, y \in 1 .. Len(s) - k : x < y + k
    BY <1>1
  <2> QED
    BY <1>2, <1>3, <2>1 DEF Ordered, Before
<1> QED
  BY <1>2, <1>3, <1>4, <1>5, <1>6

----------------------------------------------------------------------------
\* Files that move up in the directory, empty ones and new ones behind, do not
\* disturb the order, nor what is newer than all of them.
LEMMA MovedOrder ==
  ASSUME FilesOrdered, WritesNewest, OneName', NEW m \in [Slots -> Slots],
         \A k \in Slots : slot'[k] # 0 => k = 0 \/ slot'[k] = slot[m[k]],
         \A k \in Slots : InSlot(k)' = <<>> \/ InSlot(k)' = InSlot(m[k]),
         \A j, k \in Slots : j < k /\ slot'[j] # 0 /\ slot'[k] # 0 => m[j] < m[k],
         \A q \in Processes : proc'[q].fd \in {0, proc[q].fd, slot'[0]}
  PROVE  /\ FilesOrdered' /\ WritesNewest'
         /\ \A q \in Processes : \A n \in Nat : Newer(q, n) => Newer(q, n)'
<1>1. \A k \in Slots : slot'[k] = 0 => InSlot(k)' = <<>>
  BY DEF InSlot
<1>2. FilesOrdered'
  <2>1. \A k \in Slots : Ordered(InSlot(k))'
    <3> TAKE k \in Slots
    <3>1. m[k] \in Slots
      OBVIOUS
    <3>2. CASE InSlot(k)' = <<>>
      BY <3>2 DEF Ordered
    <3>3. CASE InSlot(k)' = InSlot(m[k])
      BY <3>1, <3>3 DEF Ordered, FilesOrdered
    <3> QED
      BY <3>2, <3>3
  <2>2. \A j, k \in Slots : j > k => Before(InSlot(j), InSlot(k))'
    <3> SUFFICES ASSUME NEW j \in Slots, NEW k \in Slots, j > k
                 PROVE  Before(InSlot(j), InSlot(k))'
      OBVIOUS
    <3>1. CASE InSlot(j)' = <<>> \/ InSlot(k)' = <<>>
      BY <3>1 DEF Before
    <3>2. CASE InSlot(j)' = InSlot(m[j]) /\ InSlot(k)' = InSlot(m[k])
                 /\ slot'[j] # 0 /\ slot'[k] # 0
      <4>1. m[j] \in Slots /\ m[k] \in Slots /\ m[j] > m[k]
        BY <3>2, NumberFacts
      <4>2. Before(InSlot(m[j]), InSlot(m[k]))
        BY <4>1 DEF FilesOrdered
      <4> QED
        BY <3>2, <4>2 DEF Before
    <3> QED
      BY <1>1, <3>1, <3>2
  <2> QED
    BY <2>1, <2>2 DEF FilesOrdered
<1>3. WritesNewest'
  <2> SUFFICES ASSUME NEW q \in Processes, NEW k \in Slots,
                      slot'[k] # 0, slot'[k] = proc'[q].fd,
                      NEW j \in Slots, j < k, NEW x \in DOMAIN InSlot(j)'
               PROVE  InSlot(j)'[x].by # q
    BY DEF WritesNewest
  <2>1. k # 0
    BY NumberFacts
  <2>2. slot'[k] = slot[m[k]] /\ slot[m[k]] # 0 /\ m[k] \in Slots /\ m[j] \in Slots
    BY <2>1
  <2>3. 0 \in Slots /\ slot'[k] # slot'[0]
    <3>1. 0 \in Slots
      BY NumberFacts
    <3> QED
      BY <2>1, <3>1 DEF OneName
  <2>4. slot[m[k]] = proc[q].fd
    BY <2>2, <2>3
  <2>5. InSlot(j)' # <<>>
    OBVIOUS
  <2>6. InSlot(j)' = InSlot(m[j]) /\ slot'[j] # 0
    BY <1>1, <2>5
  <2>7. m[j] < m[k]
    BY <2>6
  <2> QED
    BY <2>2, <2>4, <2>6, <2>7 DEF WritesNewest
<1>4. ASSUME NEW q \in Processes, NEW n \in Nat, Newer(q, n) PROVE Newer(q, n)'
  <2> SUFFICES ASSUME NEW k \in Slots, NEW x \in DOMAIN InSlot(k)', InSlot(k)'[x].by = q
               PROVE  InSlot(k)'[x].n < n
    BY DEF Newer
  <2>1. InSlot(k)' # <<>>
    OBVIOUS
  <2>2. InSlot(k)' = InSlot(m[k]) /\ m[k] \in Slots
    BY <2>1
  <2> QED
    BY <1>4, <2>2 DEF Newer
<1> QED
  BY <1>2, <1>3, <1>4

\* What is in a concatenation is in one of its parts.
LEMMA ConcatElements ==
  ASSUME NEW s \in Seq(LineRecords), NEW t \in Seq(LineRecords)
  PROVE  \A x \in DOMAIN (s \o t) : \/ x \in DOMAIN s /\ (s \o t)[x] = s[x]
                                    \/ \E y \in DOMAIN t : (s \o t)[x] = t[y]
<1> TAKE x \in DOMAIN (s \o t)
<1>1. Len(s) \in Nat /\ Len(t) \in Nat /\ DOMAIN s = 1 .. Len(s) /\ DOMAIN t = 1 .. Len(t)
  OBVIOUS
<1>2. x \in 1 .. Len(s) + Len(t)
  BY <1>1
<1>3. CASE x <= Len(s)
  BY <1>1, <1>2, <1>3
<1>4. CASE ~(x <= Len(s))
  <2>1. x - Len(s) \in 1 .. Len(t) /\ (s \o t)[x] = t[x - Len(s)]
    BY <1>1, <1>2, <1>4
  <2> QED
    BY <1>1, <2>1
<1> QED
  BY <1>3, <1>4

\* A file of the directory holds lines.
LEMMA InSlotLines ==
  ASSUME Shape, NEW k \in Slots
  PROVE  InSlot(k) \in Seq(LineRecords)
<1>1. slot[k] \in Files \cup {0}
  BY DEF Shape
<1>2. slot[k] # 0 => content[slot[k]] \in Seq(LineRecords)
  BY <1>1 DEF Shape
<1> QED
  BY <1>2 DEF InSlot

\* Newer lines of p at the end of the file p writes to do not disturb the order.
LEMMA AppendedOrder ==
  ASSUME Shape, OneName, FilesOrdered, WritesNewest, NEW p \in Processes,
         NEW ls \in Seq(LineRecords), Ordered(ls),
         \A x \in DOMAIN ls : ls[x].by = p /\ Newer(p, ls[x].n),
         slot' = slot,
         \A k \in Slots : InSlot(k)' = IF slot[k] # 0 /\ slot[k] = proc[p].fd
                                       THEN InSlot(k) \o ls ELSE InSlot(k),
         \A q \in Processes : proc'[q].fd \in {0, proc[q].fd}
  PROVE  /\ FilesOrdered' /\ WritesNewest'
         /\ \A q \in Processes : \A n \in Nat : q # p /\ Newer(q, n) => Newer(q, n)'
         /\ \A n \in Nat : Newer(p, n) /\ (\A x \in DOMAIN ls : ls[x].n < n) => Newer(p, n)'
<1> DEFINE Written(k) == slot[k] # 0 /\ slot[k] = proc[p].fd
<1>1. \A k \in Slots : InSlot(k) \in Seq(LineRecords)
  BY InSlotLines
<1>2. \A k \in Slots : \A x \in DOMAIN InSlot(k)' :
        \/ x \in DOMAIN InSlot(k) /\ InSlot(k)'[x] = InSlot(k)[x]
        \/ Written(k) /\ \E y \in DOMAIN ls : InSlot(k)'[x] = ls[y]
  <2> TAKE k \in Slots
  <2>1. CASE Written(k)
    <3>1. InSlot(k)' = InSlot(k) \o ls
      BY <2>1
    <3> QED
      BY <1>1, <2>1, <3>1, ConcatElements
  <2>2. CASE ~Written(k)
    BY <2>2
  <2> QED
    BY <2>1, <2>2
<1>3. \A k \in Slots : Before(InSlot(k), ls)
  <2> SUFFICES ASSUME NEW k \in Slots, NEW x \in DOMAIN InSlot(k), NEW y \in DOMAIN ls,
                      InSlot(k)[x].by = ls[y].by
               PROVE  InSlot(k)[x].n < ls[y].n
    BY DEF Before
  <2>1. ls[y].by = p /\ Newer(p, ls[y].n)
    OBVIOUS
  <2> QED
    BY <2>1 DEF Newer
<1>4. FilesOrdered'
  <2>1. \A k \in Slots : Ordered(InSlot(k))'
    <3> TAKE k \in Slots
    <3>1. Ordered(InSlot(k))
      BY DEF FilesOrdered
    <3>2. CASE Written(k)
      <4>1. Ordered(InSlot(k) \o ls)
        BY <1>1, <1>3, <3>1, OrderedAppend
      <4>2. InSlot(k)' = InSlot(k) \o ls
        BY <3>2
      <4> QED
        BY <4>1, <4>2 DEF Ordered
    <3>3. CASE ~Written(k)
      <4>1. InSlot(k)' = InSlot(k)
        BY <3>3
      <4> QED
        BY <3>1, <4>1 DEF Ordered
    <3> QED
      BY <3>2, <3>3
  <2>2. \A j, k \in Slots : j > k => Before(InSlot(j), InSlot(k))'
    <3> SUFFICES ASSUME NEW j \in Slots, NEW k \in Slots, j > k,
                        NEW x \in DOMAIN InSlot(j)', NEW y \in DOMAIN InSlot(k)',
                        InSlot(j)'[x].by = InSlot(k)'[y].by
                 PROVE  InSlot(j)'[x].n < InSlot(k)'[y].n
      BY DEF Before
    <3>1. Before(InSlot(j), InSlot(k))
      BY DEF FilesOrdered
    <3>2. CASE y \in DOMAIN InSlot(k) /\ InSlot(k)'[y] = InSlot(k)[y]
      <4>1. CASE x \in DOMAIN InSlot(j) /\ InSlot(j)'[x] = InSlot(j)[x]
        BY <3>1, <3>2, <4>1 DEF Before
      <4>2. CASE Written(j) /\ \E z \in DOMAIN ls : InSlot(j)'[x] = ls[z]
        <5>1. InSlot(k)[y].by = p
          BY <3>2, <4>2
        <5>2. k < j
          BY NumberFacts
        <5> QED
          BY <3>2, <4>2, <5>1, <5>2 DEF WritesNewest
      <4> QED
        BY <1>2, <4>1, <4>2
    <3>3. CASE Written(k) /\ \E z \in DOMAIN ls : InSlot(k)'[y] = ls[z]
      <4>1. ~Written(j)
        BY <3>3, NumberFacts DEF OneName
      <4>2. x \in DOMAIN InSlot(j) /\ InSlot(j)'[x] = InSlot(j)[x]
        BY <1>2, <4>1
      <4> QED
        BY <1>3, <3>3, <4>2 DEF Before
    <3> QED
      BY <1>2, <3>2, <3>3
  <2> QED
    BY <2>1, <2>2 DEF FilesOrdered
<1>5. WritesNewest'
  <2> SUFFICES ASSUME NEW q \in Processes, NEW k \in Slots,
                      slot'[k] # 0, slot'[k] = proc'[q].fd,
                      NEW j \in Slots, j < k, NEW x \in DOMAIN InSlot(j)'
               PROVE  InSlot(j)'[x].by # q
    BY DEF WritesNewest
  <2>1. slot[k] # 0 /\ slot[k] = proc[q].fd
    OBVIOUS
  <2>2. CASE x \in DOMAIN InSlot(j) /\ InSlot(j)'[x] = InSlot(j)[x]
    BY <2>1, <2>2 DEF WritesNewest
  <2>3. CASE Written(j) /\ \E y \in DOMAIN ls : InSlot(j)'[x] = ls[y]
    <3>1. q # p
      BY <2>1, <2>3, NumberFacts DEF OneName
    <3> QED
      BY <2>3, <3>1
  <2> QED
    BY <1>2, <2>2, <2>3
<1>6. ASSUME NEW q \in Processes, NEW n \in Nat, q # p, Newer(q, n) PROVE Newer(q, n)'
  <2> SUFFICES ASSUME NEW k \in Slots, NEW x \in DOMAIN InSlot(k)', InSlot(k)'[x].by = q
               PROVE  InSlot(k)'[x].n < n
    BY DEF Newer
  <2>1. x \in DOMAIN InSlot(k) /\ InSlot(k)'[x] = InSlot(k)[x]
    BY <1>2, <1>6
  <2> QED
    BY <1>6, <2>1 DEF Newer
<1>7. ASSUME NEW n \in Nat, Newer(p, n), \A x \in DOMAIN ls : ls[x].n < n
      PROVE  Newer(p, n)'
  <2> SUFFICES ASSUME NEW k \in Slots, NEW x \in DOMAIN InSlot(k)', InSlot(k)'[x].by = p
               PROVE  InSlot(k)'[x].n < n
    BY DEF Newer
  <2>1. CASE x \in DOMAIN InSlot(k) /\ InSlot(k)'[x] = InSlot(k)[x]
    BY <1>7, <2>1 DEF Newer
  <2>2. CASE \E y \in DOMAIN ls : InSlot(k)'[x] = ls[y]
    BY <1>7, <2>2
  <2> QED
    BY <1>2, <2>1, <2>2
<1> QED
  BY <1>4, <1>5, <1>6, <1>7

----------------------------------------------------------------------------
\* names and data are the files of the directory moved by m, which keeps their
\* order; some may be emptied, and the log file may be a new one.
Rearranged(names, data, m) ==
  /\ names \in [Slots -> Files \cup {0}]
  /\ data \in [Files -> Seq(LineRecords)]
  /\ m \in [Slots -> Slots]
  /\ \A j, k \in Slots : names[j] = names[k] /\ names[j] # 0 => j = k
  /\ \A j, k \in Slots : j < k /\ names[j] # 0 /\ names[k] # 0 => m[j] < m[k]
  /\ \A k \in Slots : names[k] # 0 =>
       names[k] = slot[m[k]] \/ (k = 0 /\ data[names[k]] = <<>>)
  /\ \A f \in Files : data[f] = content[f] \/ data[f] = <<>>

\* A step that moves, empties or adds files, and that drops or keeps the
\* buffer of its process, keeps the invariant.
LEMMA MovedInv ==
  ASSUME OrderInv, NEW p \in Processes, NEW r, NEW names, NEW data,
         Step(p, r, names, data), ProcessShape(r),
         NEW m, Rearranged(names, data, m),
         r.fd \in {0, proc[p].fd, names[0]},
         r.buffer = proc[p].buffer \/ r.buffer = <<>>,
         lines' = lines \/ (lines' = lines + 1 /\ lines' <= MaxLines),
         r.pc \in Logging =>
           \/ proc[p].pc \in Logging /\ r.line = proc[p].line
           \/ r.line.by = p /\ r.line.n = lines + 1 /\ lines' = lines + 1
  PROVE  OrderInv'
<1>0. /\ names \in [Slots -> Files \cup {0}] /\ data \in [Files -> Seq(LineRecords)]
      /\ m \in [Slots -> Slots]
      /\ \A j, k \in Slots : names[j] = names[k] /\ names[j] # 0 => j = k
      /\ \A j, k \in Slots : j < k /\ names[j] # 0 /\ names[k] # 0 => m[j] < m[k]
      /\ \A k \in Slots : names[k] # 0 =>
           names[k] = slot[m[k]] \/ (k = 0 /\ data[names[k]] = <<>>)
      /\ \A f \in Files : data[f] = content[f] \/ data[f] = <<>>
  BY DEF Rearranged
<1>1. /\ Shape /\ OneName /\ UnusedEmpty /\ FilesOrdered /\ WritesNewest /\ NumbersUsed
      /\ \A q \in Processes : PendingNewer(q)
  BY DEF OrderInv
<1>2. /\ DOMAIN proc' = Processes
      /\ proc'[p] = r
      /\ \A q \in Processes : q # p => proc'[q] = proc[q]
      /\ slot' = names
      /\ \A f \in Files : content'[f] = data[f] \/ content'[f] = <<>>
      /\ \A f \in Files : (\E k \in Slots : names[k] = f) => content'[f] = data[f]
      /\ content' \in [Files -> Seq(LineRecords)]
      /\ UnusedEmpty'
  BY <1>0, <1>1, StepFacts
<1>3. MaxLines \in Nat /\ lines \in Nat /\ lines' \in 0 .. MaxLines /\ lines' >= lines
  BY <1>1, LogAssumption DEF Shape
<1>4. Shape'
  <2>1. \A q \in Processes : ProcessShape(proc'[q])
    BY <1>1, <1>2 DEF Shape
  <2> QED
    BY <1>0, <1>2, <1>3, <2>1 DEF Shape, ProcessShape
<1>5. OneName'
  BY <1>0, <1>2 DEF OneName
<1>6. FilesOrdered' /\ WritesNewest'
        /\ \A q \in Processes : \A n \in Nat : Newer(q, n) => Newer(q, n)'
  <2>1. \A k \in Slots : slot'[k] # 0 => k = 0 \/ slot'[k] = slot[m[k]]
    BY <1>0, <1>2
  <2>2. \A k \in Slots : InSlot(k)' = <<>> \/ InSlot(k)' = InSlot(m[k])
    <3> TAKE k \in Slots
    <3>1. CASE names[k] = 0
      BY <1>0, <1>2, <3>1 DEF InSlot
    <3>2. CASE names[k] # 0
      <4>1. names[k] \in Files /\ InSlot(k)' = data[names[k]]
        BY <1>0, <1>2, <3>2 DEF InSlot
      <4>2. CASE names[k] = slot[m[k]]
        BY <1>0, <1>2, <3>2, <4>1, <4>2 DEF InSlot
      <4>3. CASE data[names[k]] = <<>>
        BY <4>1, <4>3
      <4> QED
        BY <1>0, <3>2, <4>2, <4>3
    <3> QED
      BY <3>1, <3>2
  <2>3. \A j, k \in Slots : j < k /\ slot'[j] # 0 /\ slot'[k] # 0 => m[j] < m[k]
    BY <1>0, <1>2
  <2>4. \A q \in Processes : proc'[q].fd \in {0, proc[q].fd, slot'[0]}
    BY <1>2
  <2> QED
    BY <1>0, <1>1, <1>5, <2>1, <2>2, <2>3, <2>4, MovedOrder
<1>7. ASSUME NEW q \in Processes PROVE PendingNewer(q)'
  <2>1. /\ Ordered(proc[q].buffer)
        /\ \A x \in DOMAIN proc[q].buffer :
             /\ proc[q].buffer[x].by = q /\ proc[q].buffer[x].n <= lines
             /\ Newer(q, proc[q].buffer[x].n)
        /\ proc[q].pc \in Logging =>
             /\ proc[q].line.by = q /\ proc[q].line.n <= lines
             /\ Newer(q, proc[q].line.n)
             /\ \A x \in DOMAIN proc[q].buffer : proc[q].buffer[x].n < proc[q].line.n
    BY <1>1, <1>7 DEF PendingNewer
  <2>2. proc'[q].buffer = proc[q].buffer \/ proc'[q].buffer = <<>>
    BY <1>2
  <2>3. \A x \in DOMAIN proc[q].buffer : proc[q].buffer[x].n \in Nat
    <3>1. proc[q].buffer \in Seq(LineRecords)
      BY <1>1 DEF Shape, ProcessShape
    <3>2. \A x \in DOMAIN proc[q].buffer : proc[q].buffer[x] \in LineRecords
      BY <3>1
    <3> QED
      BY <3>2 DEF LineRecords
  <2>4. Ordered(proc'[q].buffer)
    BY <2>1, <2>2 DEF Ordered
  <2>5. \A x \in DOMAIN proc'[q].buffer :
          /\ proc'[q].buffer[x].by = q /\ proc'[q].buffer[x].n <= lines'
          /\ Newer(q, proc[q].buffer[x].n)'
    <3>1. CASE proc'[q].buffer = <<>>
      BY <3>1
    <3>2. CASE proc'[q].buffer = proc[q].buffer
      <4> TAKE x \in DOMAIN proc'[q].buffer
      <4>1. proc[q].buffer[x].n \in Nat /\ Newer(q, proc[q].buffer[x].n)
        BY <2>1, <2>3, <3>2
      <4>2. \E n \in Nat : n = proc[q].buffer[x].n /\ Newer(q, n)'
        BY <1>6, <4>1
      <4>3. proc[q].buffer[x].by = q /\ proc[q].buffer[x].n <= lines'
        BY <1>3, <2>1, <3>2, <4>1
      <4> QED
        BY <3>2, <4>2, <4>3 DEF Newer
    <3> QED
      BY <2>2, <3>1, <3>2
  <2>6. ASSUME proc'[q].pc \in Logging
        PROVE  /\ proc'[q].line.by = q /\ proc'[q].line.n <= lines'
               /\ Newer(q, proc[q].line.n)'
               /\ \A x \in DOMAIN proc'[q].buffer : proc'[q].buffer[x].n < proc'[q].line.n
    <3>1. CASE proc[q].pc \in Logging /\ proc'[q].line = proc[q].line
      <4>1. proc[q].line.n \in Nat
        BY <1>1 DEF Shape, ProcessShape, LineRecords
      <4>2. \E n \in Nat : n = proc[q].line.n /\ Newer(q, n)'
        BY <1>6, <2>1, <3>1, <4>1
      <4>3. proc[q].line.by = q /\ proc[q].line.n <= lines'
        BY <1>3, <2>1, <3>1, <4>1
      <4> QED
        BY <2>1, <2>2, <3>1, <4>2, <4>3 DEF Newer
    <3>2. CASE q = p /\ r.line.by = p /\ r.line.n = lines + 1 /\ lines' = lines + 1
      <4>1. \E n \in Nat : n = lines + 1 /\ Newer(q, n)'
        BY <1>1, <1>3, <1>6 DEF NumbersUsed
      <4>2. \A x \in DOMAIN proc[q].buffer : proc[q].buffer[x].n < lines + 1
        BY <1>3, <2>1, <2>3
      <4>3. proc'[q].line.by = q /\ proc'[q].line.n = lines + 1 /\ lines + 1 <= lines'
        BY <1>2, <1>3, <3>2
      <4> QED
        BY <2>2, <4>1, <4>2, <4>3 DEF Newer
    <3> QED
      BY <1>2, <2>6, <3>1, <3>2
  <2> QED
    BY <2>4, <2>5, <2>6 DEF PendingNewer
<1>8. NumbersUsed'
  <2> SUFFICES ASSUME NEW q \in Processes, NEW k \in Slots,
                      NEW x \in DOMAIN InSlot(k)', InSlot(k)'[x].by = q
               PROVE  InSlot(k)'[x].n < lines' + 1
    BY DEF NumbersUsed, Newer
  <2>1. \E n \in Nat : n = lines + 1 /\ Newer(q, n)'
    BY <1>1, <1>3, <1>6 DEF NumbersUsed
  <2>2. InSlot(k)'[x].n < lines + 1
    BY <2>1 DEF Newer
  <2>3. InSlot(k)'[x].n \in Nat
    <3>1. InSlot(k)' \in Seq(LineRecords)
      BY <1>2, <1>4 DEF InSlot, Shape
    <3>2. InSlot(k)'[x] \in LineRecords
      BY <3>1
    <3> QED
      BY <3>2 DEF LineRecords
  <2> QED
    BY <1>3, <2>2, <2>3
<1> QED
  BY <1>2, <1>4, <1>5, <1>6, <1>7, <1>8 DEF OrderInv

\* A step that writes what its process has pending, or the first part of it,
\* keeps the invariant.
LEMMA WrittenInv ==
  ASSUME OrderInv, NEW p \in Processes, NEW r, NEW ls \in Seq(LineRecords),
         Step(p, r, slot, Appended(proc[p].fd, ls)), ProcessShape(r),
         proc[p].fd # 0, r.fd \in {0, proc[p].fd}, lines' = lines,
         Ordered(ls), Ordered(r.buffer),
         \A x \in DOMAIN ls :
           ls[x].by = p /\ ls[x].n <= lines /\ Newer(p, ls[x].n),
         \A y \in DOMAIN r.buffer :
           /\ r.buffer[y].by = p /\ r.buffer[y].n <= lines /\ Newer(p, r.buffer[y].n)
           /\ \A x \in DOMAIN ls : ls[x].n < r.buffer[y].n,
         r.pc \in Logging =>
           /\ proc[p].pc \in Logging /\ r.line = proc[p].line /\ r.buffer = <<>>
           /\ \A x \in DOMAIN ls : ls[x].n < r.line.n
  PROVE  OrderInv'
<1> DEFINE data == Appended(proc[p].fd, ls)
<1>1. /\ Shape /\ OneName /\ UnusedEmpty /\ FilesOrdered /\ WritesNewest /\ NumbersUsed
      /\ \A q \in Processes : PendingNewer(q)
  BY DEF OrderInv
<1>2. data \in [Files -> Seq(LineRecords)]
  <2>1. proc[p].fd \in Files /\ content \in [Files -> Seq(LineRecords)]
    BY <1>1 DEF Shape, ProcessShape
  <2>2. content[proc[p].fd] \o ls \in Seq(LineRecords)
    BY <2>1
  <2> QED
    BY <2>1, <2>2 DEF Appended
<1>3. /\ DOMAIN proc' = Processes
      /\ proc'[p] = r
      /\ \A q \in Processes : q # p => proc'[q] = proc[q]
      /\ slot' = slot
      /\ \A f \in Files : (\E k \in Slots : slot[k] = f) => content'[f] = data[f]
      /\ content' \in [Files -> Seq(LineRecords)]
      /\ UnusedEmpty'
  <2> HIDE DEF data
  <2> QED
    BY <1>1, <1>2, StepFacts DEF data
<1>4. MaxLines \in Nat /\ lines \in Nat
  BY <1>1, LogAssumption DEF Shape
<1>5. Shape'
  <2>1. \A q \in Processes : ProcessShape(proc'[q])
    BY <1>1, <1>3 DEF Shape
  <2> QED
    BY <1>1, <1>3, <2>1 DEF Shape, ProcessShape
<1>6. OneName'
  BY <1>1, <1>3 DEF OneName
<1>7. /\ FilesOrdered' /\ WritesNewest'
      /\ \A q \in Processes : \A n \in Nat : q # p /\ Newer(q, n) => Newer(q, n)'
      /\ \A n \in Nat : Newer(p, n) /\ (\A x \in DOMAIN ls : ls[x].n < n) => Newer(p, n)'
  <2>1. \A k \in Slots : InSlot(k)' = IF slot[k] # 0 /\ slot[k] = proc[p].fd
                                      THEN InSlot(k) \o ls ELSE InSlot(k)
    <3> TAKE k \in Slots
    <3>1. CASE slot[k] = 0
      BY <1>3, <3>1 DEF InSlot
    <3>2. CASE slot[k] # 0
      <4>1. slot[k] \in Files /\ proc[p].fd \in Files
        BY <1>1, <3>2 DEF Shape, ProcessShape
      <4>2. InSlot(k)' = data[slot[k]] /\ InSlot(k) = content[slot[k]]
        BY <1>3, <3>2, <4>1 DEF InSlot
      <4>3. data[slot[k]] = IF slot[k] = proc[p].fd THEN content[slot[k]] \o ls
                            ELSE content[slot[k]]
        BY <1>1, <4>1 DEF Shape, Appended
      <4> QED
        BY <3>2, <4>2, <4>3
    <3> QED
      BY <3>1, <3>2
  <2>2. \A q \in Processes : proc'[q].fd \in {0, proc[q].fd}
    BY <1>3
  <2>3. \A x \in DOMAIN ls : ls[x].by = p /\ Newer(p, ls[x].n)
    OBVIOUS
  <2> QED
    BY <1>1, <1>3, <2>1, <2>2, <2>3, AppendedOrder
<1>8. ASSUME NEW q \in Processes PROVE PendingNewer(q)'
  <2>1. CASE q # p
    <3>1. PendingNewer(q) /\ proc'[q] = proc[q]
      BY <1>1, <1>3, <2>1
    <3>2. \A x \in DOMAIN proc[q].buffer : proc[q].buffer[x].n \in Nat
      <4>1. proc[q].buffer \in Seq(LineRecords)
        BY <1>1 DEF Shape, ProcessShape
      <4>2. \A x \in DOMAIN proc[q].buffer : proc[q].buffer[x] \in LineRecords
        BY <4>1
      <4> QED
        BY <4>2 DEF LineRecords
    <3>3. \A x \in DOMAIN proc[q].buffer :
            \E n \in Nat : n = proc[q].buffer[x].n /\ Newer(q, n)'
      BY <1>7, <2>1, <3>1, <3>2 DEF PendingNewer
    <3>4. proc[q].pc \in Logging => \E n \in Nat : n = proc[q].line.n /\ Newer(q, n)'
      <4>1. proc[q].line.n \in Nat
        BY <1>1 DEF Shape, ProcessShape, LineRecords
      <4> QED
        BY <1>7, <2>1, <3>1, <4>1 DEF PendingNewer
    <3> QED
      BY <3>1, <3>3, <3>4 DEF PendingNewer, Newer, Ordered
  <2>2. CASE q = p
    <3>1. /\ r.buffer \in Seq(LineRecords)
          /\ r.line.n \in Nat
      BY DEF ProcessShape, LineRecords
    <3>2. \A x \in DOMAIN r.buffer : r.buffer[x].n \in Nat
      <4>1. \A x \in DOMAIN r.buffer : r.buffer[x] \in LineRecords
        BY <3>1
      <4> QED
        BY <4>1 DEF LineRecords
    <3>3. \A x \in DOMAIN r.buffer : \E n \in Nat : n = r.buffer[x].n /\ Newer(p, n)'
      BY <1>7, <3>2
    <3>4. ASSUME r.pc \in Logging
          PROVE  /\ r.line.by = p /\ r.line.n <= lines
                 /\ \E n \in Nat : n = r.line.n /\ Newer(p, n)'
      <4>1. r.line.by = p /\ r.line.n <= lines /\ Newer(p, r.line.n)
        BY <1>1, <3>4 DEF PendingNewer
      <4> QED
        BY <1>7, <3>1, <3>4, <4>1
    <3>5. r.pc \in Logging => \A x \in DOMAIN r.buffer : r.buffer[x].n < r.line.n
      OBVIOUS
    <3> QED
      BY <1>3, <2>2, <3>3, <3>4, <3>5 DEF PendingNewer, Newer, Ordered
  <2> QED
    BY <2>1, <2>2
<1>9. NumbersUsed'
  <2>1. ASSUME NEW q \in Processes PROVE \E n \in Nat : n = lines + 1 /\ Newer(q, n)'
    <3>1. Newer(q, lines + 1) /\ lines + 1 \in Nat
      BY <1>1, <1>4 DEF NumbersUsed
    <3>2. \A x \in DOMAIN ls : ls[x].n < lines + 1
      <4>1. \A x \in DOMAIN ls : ls[x] \in LineRecords
        OBVIOUS
      <4>2. \A x \in DOMAIN ls : ls[x].n \in Nat
        BY <4>1 DEF LineRecords
      <4> QED
        BY <1>4, <4>2
    <3> QED
      BY <1>7, <3>1, <3>2
  <2> QED
    BY <2>1 DEF NumbersUsed, Newer
<1> QED
  BY <1>3, <1>5, <1>6, <1>7, <1>8, <1>9 DEF OrderInv

----------------------------------------------------------------------------
\* A process that is not running has a shape.
LEMMA FreshShape == ProcessShape(Fresh)
<1>1. NoLine \in LineRecords
  BY LogAssumption DEF NoLine, LineRecords
<1>2. 0 \in Slots /\ <<>> \in Seq(LineRecords)
  BY NumberFacts
<1> QED
  BY <1>1, <1>2 DEF ProcessShape, Fresh, Fields, Rotating

\* The base name leads to the file f.
LEMMA NamedBaseFacts ==
  ASSUME Shape, OneName, NEW f \in Files, f = slot[0] \/ (\A k \in Slots : slot[k] # f)
  PROVE  /\ NamedBase(f) \in [Slots -> Files \cup {0}]
         /\ NamedBase(f)[0] = f
         /\ \A k \in Slots : k # 0 => NamedBase(f)[k] = slot[k]
         /\ \A j, k \in Slots :
              NamedBase(f)[j] = NamedBase(f)[k] /\ NamedBase(f)[j] # 0 => j = k
<1>1. 0 \in Slots /\ slot \in [Slots -> Files \cup {0}]
  BY NumberFacts DEF Shape
<1>2. /\ NamedBase(f) \in [Slots -> Files \cup {0}]
      /\ NamedBase(f)[0] = f
      /\ \A k \in Slots : k # 0 => NamedBase(f)[k] = slot[k]
  BY <1>1 DEF NamedBase
<1> QED
  BY <1>1, <1>2 DEF OneName

\* What fopen finds at the base name, or makes: that file, or an empty one
\* without a name.
LEMMA BaseFile ==
  ASSUME OrderInv, NEW p \in Processes, proc[p].fd = 0,
         NEW f, f = IF slot[0] = 0 THEN Unused ELSE slot[0]
  PROVE  /\ f \in Files
         /\ f = slot[0] \/ (content[f] = <<>> /\ \A k \in Slots : slot[k] # f)
<1>1. Shape /\ UnusedEmpty
  BY DEF OrderInv
<1>2. CASE slot[0] # 0
  BY <1>1, <1>2, NumberFacts DEF Shape
<1>3. CASE slot[0] = 0
  BY <1>1, <1>3, UnusedIsFree DEF UnusedEmpty
<1> QED
  BY <1>2, <1>3

\* A process that starts keeps the invariant.
LEMMA StartKeeps == ASSUME OrderInv, NEW p \in Processes, StartProcess(p) PROVE OrderInv'
<1> DEFINE f == IF slot[0] = 0 THEN Unused ELSE slot[0]
           r == [Fresh EXCEPT !.pc = "idle", !.fd = f, !.current_size = SizeOf(content[f])]
           names == NamedBase(f)
           m == [k \in Slots |-> k]
<1>1. Shape /\ OneName
  BY DEF OrderInv
<1>2. proc[p].fd = 0
  BY <1>1 DEF StartProcess, Shape, ProcessShape
<1>3. /\ f \in Files
      /\ f = slot[0] \/ (content[f] = <<>> /\ \A k \in Slots : slot[k] # f)
  BY <1>2, BaseFile
<1>4. Step(p, r, names, content) /\ lines' = lines
  BY DEF StartProcess, OpenedAtStart
<1>5. /\ ProcessShape(r) /\ r.fd = f /\ r.buffer = <<>> /\ r.pc = "idle"
  <2>1. Fresh.buffer = <<>> /\ DOMAIN Fresh = Fields
    BY FreshShape DEF Fresh, ProcessShape
  <2>2. /\ DOMAIN r = Fields /\ r.fd = f /\ r.buffer = <<>> /\ r.pc = "idle"
        /\ r.line = Fresh.line /\ r.i = Fresh.i
    BY <2>1 DEF Fields
  <2> HIDE DEF r, f
  <2> QED
    BY <1>3, <2>1, <2>2, FreshShape DEF ProcessShape, Rotating
<1>6. /\ names \in [Slots -> Files \cup {0}]
      /\ names[0] = f
      /\ \A k \in Slots : k # 0 => names[k] = slot[k]
      /\ \A j, k \in Slots :
           names[j] = names[k] /\ names[j] # 0 => j = k
  <2> HIDE DEF f
  <2> QED
    BY <1>1, <1>3, NamedBaseFacts DEF names
<1>7. m \in [Slots -> Slots] /\ \A k \in Slots : m[k] = k
  OBVIOUS
<1>8. content \in [Files -> Seq(LineRecords)]
  BY <1>1 DEF Shape
<1>9. r.pc \notin Logging
  BY <1>5 DEF Logging, Rotating
<1>10. \A k \in Slots : names[k] # 0 =>
         names[k] = slot[m[k]] \/ (k = 0 /\ content[names[k]] = <<>>)
  <2> HIDE DEF f, m, names
  <2> QED
    BY <1>3, <1>6, <1>7
<1>11. \A j, k \in Slots :
         j < k /\ names[j] # 0 /\ names[k] # 0 => m[j] < m[k]
  <2> HIDE DEF f, m, names
  <2> QED
    BY <1>7
<1>12. r.fd \in {0, proc[p].fd, names[0]}
  <2> HIDE DEF f, r, names
  <2> QED
    BY <1>5, <1>6
<1>13. Rearranged(names, content, m)
  <2> HIDE DEF f, m, names
  <2> QED
    BY <1>6, <1>7, <1>8, <1>10, <1>11 DEF Rearranged
<1>14. r.buffer = proc[p].buffer \/ r.buffer = <<>>
  BY <1>5
<1> HIDE DEF f, r, m, names
<1> QED
  BY <1>4, <1>5, <1>9, <1>12, <1>13, <1>14, MovedInv

\* A step that changes neither names nor data, and drops or keeps a buffer.
LEMMA StillInv ==
  ASSUME OrderInv, NEW p \in Processes, NEW r, Step(p, r, slot, content), ProcessShape(r),
         r.fd \in {0, proc[p].fd}, r.buffer = proc[p].buffer \/ r.buffer = <<>>,
         lines' = lines \/ (lines' = lines + 1 /\ lines' <= MaxLines),
         r.pc \in Logging =>
           \/ proc[p].pc \in Logging /\ r.line = proc[p].line
           \/ r.line.by = p /\ r.line.n = lines + 1 /\ lines' = lines + 1
  PROVE  OrderInv'
<1> DEFINE m == [k \in Slots |-> k]
<1>1. m \in [Slots -> Slots] /\ \A k \in Slots : m[k] = k
  OBVIOUS
<1>2. /\ slot \in [Slots -> Files \cup {0}] /\ content \in [Files -> Seq(LineRecords)]
      /\ \A j, k \in Slots : slot[j] = slot[k] /\ slot[j] # 0 => j = k
  BY DEF OrderInv, Shape, OneName
<1> HIDE DEF m
<1>3. Rearranged(slot, content, m)
  BY <1>1, <1>2 DEF Rearranged
<1> QED
  BY <1>3, MovedInv

\* So does one that changes only the process' place, and its i.
LEMMA MarkedInv ==
  ASSUME OrderInv, NEW p \in Processes, NEW r, ProcessShape(r),
         Step(p, r, slot, content), lines' = lines,
         r.fd = proc[p].fd, r.buffer = proc[p].buffer, r.line = proc[p].line,
         r.pc \in Logging => proc[p].pc \in Logging
  PROVE  OrderInv'
BY StillInv

\* A log call keeps the invariant: its number is a new one.
LEMMA LogLineKeeps ==
  ASSUME OrderInv, NEW p \in Processes, NEW size \in Sizes, NEW warn \in BOOLEAN,
         LogLine(p, size, warn)
  PROVE  OrderInv'
<1> DEFINE line == [n |-> lines + 1, by |-> p, size |-> size]
           pc == IF Fits(proc[p], size) THEN "write" ELSE "full"
           r == [proc[p] EXCEPT !.line = line, !.warn = warn, !.pc = pc]
<1>1. Step(p, r, slot, content) /\ lines' = lines + 1 /\ lines < MaxLines
  BY DEF LogLine
<1>2. ProcessShape(proc[p]) /\ lines \in 0 .. MaxLines /\ MaxLines \in Nat
  BY LogAssumption DEF OrderInv, Shape
<1>3. line \in LineRecords /\ line.by = p /\ line.n = lines + 1
  BY <1>1, <1>2 DEF LineRecords
<1>4. pc \in {"write", "full"}
  OBVIOUS
<1>5. /\ DOMAIN r = Fields /\ r.line = line /\ r.pc = pc
      /\ r.fd = proc[p].fd /\ r.buffer = proc[p].buffer /\ r.i = proc[p].i
  <2> HIDE DEF line, pc
  <2> QED
    BY <1>2 DEF ProcessShape, Fields
<1>6. ProcessShape(r)
  <2> HIDE DEF line, pc, r
  <2> QED
    BY <1>2, <1>3, <1>4, <1>5 DEF ProcessShape, Rotating
<1>7. lines + 1 <= MaxLines
  BY <1>1, <1>2
<1> HIDE DEF line, pc, r
<1> QED
  BY <1>1, <1>3, <1>5, <1>6, <1>7, StillInv

\* A step of the rotation that finds nothing, or fails, keeps the invariant.
LEMMA SkipKeeps == ASSUME OrderInv, NEW p \in Processes, SkipMissing(p) PROVE OrderInv'
<1> DEFINE r == [proc[p] EXCEPT !.i = @ - 1]
<1>1. Step(p, r, slot, content) /\ lines' = lines
  BY DEF SkipMissing
<1>2. ProcessShape(proc[p]) /\ proc[p].pc = "rotate" /\ proc[p].i > 0
  BY DEF SkipMissing, OrderInv, Shape
<1>3. proc[p].i \in Slots /\ proc[p].i - 1 \in Slots
  BY <1>2, NumberFacts DEF ProcessShape
<1>4. /\ DOMAIN r = Fields /\ r.pc = proc[p].pc /\ r.i = proc[p].i - 1
      /\ r.fd = proc[p].fd /\ r.buffer = proc[p].buffer /\ r.line = proc[p].line
  BY <1>2 DEF ProcessShape, Fields
<1>5. ProcessShape(r)
  <2> HIDE DEF r
  <2> QED
    BY <1>2, <1>3, <1>4 DEF ProcessShape, Rotating
<1> HIDE DEF r
<1> QED
  BY <1>1, <1>4, <1>5, MarkedInv

\* A process that moves to another place keeps its shape and all but its place.
LEMMA PlaceFacts ==
  ASSUME NEW q, ProcessShape(q), NEW pc,
         pc \in Rotating => q.i > 0, pc \in Rotating \cup {"down", "rotate"} => q.fd = 0
  PROVE  /\ ProcessShape([q EXCEPT !.pc = pc])
         /\ [q EXCEPT !.pc = pc].pc = pc /\ [q EXCEPT !.pc = pc].fd = q.fd
         /\ [q EXCEPT !.pc = pc].buffer = q.buffer /\ [q EXCEPT !.pc = pc].line = q.line
BY DEF ProcessShape, Fields

\* A rename that fails keeps the invariant.
LEMMA RenameFailsKeeps ==
  ASSUME OrderInv, NEW p \in Processes, RenameFails(p) PROVE OrderInv'
<1> DEFINE pc == IF proc[p].pc = "rename" THEN "again" ELSE "give_up"
<1>1. Step(p, [proc[p] EXCEPT !.pc = pc], slot, content) /\ lines' = lines
  BY DEF RenameFails
<1>2. ProcessShape(proc[p]) /\ proc[p].pc \in Rotating
  BY DEF RenameFails, OrderInv, Shape, Rotating
<1>3. pc \in Rotating /\ proc[p].i > 0 /\ proc[p].fd = 0
  BY <1>2 DEF ProcessShape, Rotating
<1> HIDE DEF pc
<1>4. ProcessShape([proc[p] EXCEPT !.pc = pc])
  BY <1>2, <1>3, PlaceFacts
<1>5. /\ [proc[p] EXCEPT !.pc = pc].fd = proc[p].fd
      /\ [proc[p] EXCEPT !.pc = pc].buffer = proc[p].buffer
      /\ [proc[p] EXCEPT !.pc = pc].line = proc[p].line
  BY <1>2, <1>3, PlaceFacts
<1>6. proc[p].pc \in Logging
  BY <1>2 DEF Logging
<1> QED
  BY <1>1, <1>4, <1>5, <1>6, MarkedInv

\* Removing a name keeps the invariant.
LEMMA RemoveTargetKeeps ==
  ASSUME OrderInv, NEW p \in Processes, RemoveTarget(p) PROVE OrderInv'
<1> DEFINE pc == IF proc[p].pc = "again" THEN "rename_again" ELSE "rename"
           r == [proc[p] EXCEPT !.pc = pc]
           names == [slot EXCEPT ![Target(proc[p])] = 0]
           m == [k \in Slots |-> k]
<1>1. Step(p, r, names, content) /\ lines' = lines
  BY DEF RemoveTarget
<1>2. /\ ProcessShape(proc[p]) /\ slot \in [Slots -> Files \cup {0}]
      /\ content \in [Files -> Seq(LineRecords)] /\ OneName
  BY DEF OrderInv, Shape
<1>3. /\ proc[p].pc \in Logging
      /\ proc[p].i > 0 /\ proc[p].fd = 0
  <2>1. proc[p].pc = "again" \/ (proc[p].pc = "rotate" /\ proc[p].i > 0)
    BY DEF RemoveTarget
  <2> QED
    BY <1>2, <2>1 DEF ProcessShape, Rotating, Logging
<1>4. /\ ProcessShape(r) /\ r.fd = 0 /\ r.buffer = proc[p].buffer /\ r.line = proc[p].line
  <2>1. pc \in Rotating
    BY DEF Rotating
  <2> HIDE DEF pc
  <2> QED
    BY <1>2, <1>3, <2>1, PlaceFacts
<1>5. /\ names \in [Slots -> Files \cup {0}]
      /\ \A k \in Slots : names[k] # 0 => names[k] = slot[k]
  BY <1>2
<1>6. \A j, k \in Slots : names[j] = names[k] /\ names[j] # 0 => j = k
  <2> HIDE DEF names
  <2> QED
    BY <1>2, <1>5 DEF OneName
<1>7. m \in [Slots -> Slots] /\ \A k \in Slots : m[k] = k
  OBVIOUS
<1>8. /\ \A j, k \in Slots : j < k /\ names[j] # 0 /\ names[k] # 0 => m[j] < m[k]
      /\ \A k \in Slots : names[k] # 0 =>
           names[k] = slot[m[k]] \/ (k = 0 /\ content[names[k]] = <<>>)
      /\ \A f \in Files : content[f] = content[f] \/ content[f] = <<>>
  <2> HIDE DEF names, m
  <2> QED
    BY <1>5, <1>7
<1>9. r.fd \in {0, proc[p].fd, names[0]}
  <2> HIDE DEF r, names
  <2> QED
    BY <1>4
<1>10. /\ r.buffer = proc[p].buffer \/ r.buffer = <<>>
       /\ lines' = lines \/ (lines' = lines + 1 /\ lines' <= MaxLines)
       /\ r.pc \in Logging =>
            \/ proc[p].pc \in Logging /\ r.line = proc[p].line
            \/ r.line.by = p /\ r.line.n = lines + 1 /\ lines' = lines + 1
  <2> HIDE DEF r
  <2> QED
    BY <1>1, <1>3, <1>4
<1> HIDE DEF r, names, m
<1>11. Rearranged(names, content, m)
  BY <1>2, <1>5, <1>6, <1>7, <1>8 DEF Rearranged
<1> QED
  BY <1>1, <1>4, <1>9, <1>10, <1>11, MovedInv

\* Moving a file one name up keeps the invariant: its old name is free.
LEMMA RenameSourceKeeps ==
  ASSUME OrderInv, NEW p \in Processes, RenameSource(p) PROVE OrderInv'
<1> DEFINE i == proc[p].i
           r == [proc[p] EXCEPT !.pc = "rotate", !.i = @ - 1]
           names == Moved(i)
           m == [k \in Slots |-> IF k = i THEN i - 1 ELSE k]
<1>1. Step(p, r, names, content) /\ lines' = lines /\ slot[i - 1] # 0
  BY DEF RenameSource
<1>2. /\ ProcessShape(proc[p]) /\ slot \in [Slots -> Files \cup {0}]
      /\ content \in [Files -> Seq(LineRecords)] /\ OneName
  BY DEF OrderInv, Shape
<1>3. proc[p].pc \in Logging /\ proc[p].fd = 0 /\ i \in 1 .. 3 /\ Slots = 0 .. 3
  <2>1. proc[p].pc \in Rotating
    BY DEF RenameSource, Rotating
  <2> QED
    BY <1>2, <2>1, NumberFacts DEF ProcessShape, Logging
<1>4. ProcessShape(r) /\ r.fd = 0 /\ r.buffer = proc[p].buffer /\ r.line = proc[p].line
  <2>1. /\ DOMAIN r = Fields /\ r.fd = 0 /\ r.buffer = proc[p].buffer
        /\ r.line = proc[p].line /\ r.i = i - 1 /\ r.pc = "rotate"
    BY <1>2, <1>3 DEF ProcessShape, Fields
  <2>2. i - 1 \in Slots
    BY <1>3
  <2> HIDE DEF r, i
  <2> QED
    BY <1>2, <2>1, <2>2 DEF ProcessShape, Rotating
<1>5. /\ names \in [Slots -> Files \cup {0}]
      /\ names[i] = slot[i - 1] /\ names[i - 1] = 0
      /\ \A k \in Slots : k # i /\ k # i - 1 => names[k] = slot[k]
  <2> HIDE DEF i
  <2> QED
    BY <1>2, <1>3 DEF Moved
<1>6. \A j, k \in Slots : names[j] = names[k] /\ names[j] # 0 => j = k
  <2> HIDE DEF names, i
  <2> QED
    BY <1>2, <1>3, <1>5 DEF OneName
<1>7. m \in [Slots -> Slots] /\ \A k \in Slots : m[k] = IF k = i THEN i - 1 ELSE k
  <2> HIDE DEF i
  <2> QED
    BY <1>3
<1>8. /\ \A j, k \in Slots : j < k /\ names[j] # 0 /\ names[k] # 0 => m[j] < m[k]
      /\ \A k \in Slots : names[k] # 0 =>
           names[k] = slot[m[k]] \/ (k = 0 /\ content[names[k]] = <<>>)
      /\ \A f \in Files : content[f] = content[f] \/ content[f] = <<>>
  <2> HIDE DEF names, m, i
  <2> QED
    BY <1>3, <1>5, <1>7
<1>9. r.fd \in {0, proc[p].fd, names[0]}
  <2> HIDE DEF r, names
  <2> QED
    BY <1>4
<1>10. /\ r.buffer = proc[p].buffer \/ r.buffer = <<>>
       /\ lines' = lines \/ (lines' = lines + 1 /\ lines' <= MaxLines)
       /\ r.pc \in Logging =>
            \/ proc[p].pc \in Logging /\ r.line = proc[p].line
            \/ r.line.by = p /\ r.line.n = lines + 1 /\ lines' = lines + 1
  <2> HIDE DEF r
  <2> QED
    BY <1>1, <1>3, <1>4
<1> HIDE DEF r, names, m
<1>11. Rearranged(names, content, m)
  BY <1>2, <1>5, <1>6, <1>7, <1>8 DEF Rearranged
<1> QED
  BY <1>1, <1>4, <1>9, <1>10, <1>11, MovedInv

\* The file with the base name, or a new one, after it is truncated.
Base == IF slot[0] = 0 THEN Unused ELSE slot[0]

\* Truncating the log file keeps the invariant, whatever it held, and whether
\* the process has it open afterwards or no file.
LEMMA TruncatingKeeps ==
  ASSUME OrderInv, NEW p \in Processes,
         proc[p].pc = "give_up" \/ (proc[p].pc = "rotate" /\ proc[p].i = 0),
         NEW r, r.fd \in {0, Base}, r.buffer = proc[p].buffer, r.line = proc[p].line,
         Base \in Files => ProcessShape(r),
         Step(p, r, NamedBase(Base), Truncated(Base)), lines' = lines
  PROVE  OrderInv'
<1> DEFINE f == Base
           names == NamedBase(f)
           data == Truncated(f)
           m == [k \in Slots |-> k]
<1>1. Step(p, r, names, data) /\ lines' = lines
  OBVIOUS
<1>2. /\ Shape /\ OneName /\ ProcessShape(proc[p])
      /\ content \in [Files -> Seq(LineRecords)]
  BY DEF OrderInv, Shape
<1>3. proc[p].fd = 0 /\ proc[p].pc \in Logging
  BY <1>2 DEF ProcessShape, Rotating, Logging
<1>4. /\ f \in Files
      /\ f = slot[0] \/ (content[f] = <<>> /\ \A k \in Slots : slot[k] # f)
  BY <1>2, <1>3, BaseFile DEF Base
<1>5. /\ names \in [Slots -> Files \cup {0}] /\ names[0] = f
      /\ \A k \in Slots : k # 0 => names[k] = slot[k]
      /\ \A j, k \in Slots : names[j] = names[k] /\ names[j] # 0 => j = k
  <2> HIDE DEF f
  <2> QED
    BY <1>2, <1>4, NamedBaseFacts DEF names
<1>6. /\ data \in [Files -> Seq(LineRecords)] /\ data[f] = <<>>
      /\ \A g \in Files : g # f => data[g] = content[g]
  <2>1. <<>> \in Seq(LineRecords)
    OBVIOUS
  <2> HIDE DEF f
  <2> QED
    BY <1>2, <1>4, <2>1 DEF Truncated
<1>7. m \in [Slots -> Slots] /\ \A k \in Slots : m[k] = k
  OBVIOUS
<1>8. Rearranged(names, data, m)
  <2> HIDE DEF names, data, m, f
  <2>1. \A j, k \in Slots : j < k /\ names[j] # 0 /\ names[k] # 0 => m[j] < m[k]
    BY <1>7
  <2>2. \A k \in Slots : names[k] # 0 =>
          names[k] = slot[m[k]] \/ (k = 0 /\ data[names[k]] = <<>>)
    BY <1>5, <1>6, <1>7
  <2>3. \A g \in Files : data[g] = content[g] \/ data[g] = <<>>
    BY <1>6
  <2> QED
    BY <1>5, <1>6, <1>7, <2>1, <2>2, <2>3 DEF Rearranged
<1>9. ProcessShape(r) /\ r.fd \in {0, proc[p].fd, names[0]}
  <2> HIDE DEF names
  <2> QED
    BY <1>4, <1>5
<1>10. r.pc \in Logging => proc[p].pc \in Logging /\ r.line = proc[p].line
  BY <1>3
<1> HIDE DEF names, data, m, f
<1> QED
  BY <1>1, <1>8, <1>9, <1>10, MovedInv

\* Opening the log file anew keeps the invariant.
LEMMA ReopenKeeps == ASSUME OrderInv, NEW p \in Processes, Reopen(p) PROVE OrderInv'
<1> DEFINE pc == IF proc[p].pc = "give_up" THEN AfterSink(proc[p]) ELSE "write"
           r == [proc[p] EXCEPT !.pc = pc, !.fd = Base, !.current_size = 0]
<1>1. /\ proc[p].pc = "give_up" \/ (proc[p].pc = "rotate" /\ proc[p].i = 0)
      /\ Step(p, r, NamedBase(Base), Truncated(Base)) /\ lines' = lines
  BY DEF Reopen, Base
<1>2. ProcessShape(proc[p])
  BY DEF OrderInv, Shape
<1>3. pc \notin Rotating \cup {"down", "rotate"}
  <2>1. pc \in {"write", "flush", "idle"}
    BY DEF AfterSink
  <2> HIDE DEF pc
  <2> QED
    BY <2>1 DEF Rotating
<1>4. /\ DOMAIN r = Fields /\ r.fd = Base /\ r.pc = pc
      /\ r.buffer = proc[p].buffer /\ r.line = proc[p].line /\ r.i = proc[p].i
  <2> HIDE DEF pc
  <2> QED
    BY <1>2 DEF ProcessShape, Fields
<1> HIDE DEF r, pc
<1>5. Base \in Files => ProcessShape(r)
  BY <1>2, <1>3, <1>4 DEF ProcessShape
<1> QED
  BY <1>1, <1>4, <1>5, TruncatingKeeps

\* A sink that is left without a file keeps the invariant, whether or not the
\* log file was emptied before.
LEMMA ReopenFailsKeeps ==
  ASSUME OrderInv, NEW p \in Processes, ReopenFails(p) PROVE OrderInv'
<1> DEFINE pc == AfterSink(proc[p])
           r == [proc[p] EXCEPT !.pc = pc]
<1>1. /\ proc[p].pc = "give_up" \/ (proc[p].pc = "rotate" /\ proc[p].i = 0)
      /\ \/ Step(p, r, slot, content)
         \/ Step(p, r, NamedBase(Base), Truncated(Base))
      /\ lines' = lines
  BY DEF ReopenFails, Base
<1>2. ProcessShape(proc[p]) /\ proc[p].fd = 0
  <2>1. ProcessShape(proc[p])
    BY DEF OrderInv, Shape
  <2> QED
    BY <1>1, <2>1 DEF ProcessShape, Rotating
<1>3. pc \in {"flush", "idle"}
  BY DEF AfterSink
<1>4. pc \notin Rotating \cup {"down", "rotate"} /\ pc \notin Logging
  <2> HIDE DEF pc
  <2> QED
    BY <1>3 DEF Rotating, Logging
<1> HIDE DEF pc
<1>5. /\ ProcessShape(r) /\ r.pc = pc /\ r.fd = proc[p].fd
      /\ r.buffer = proc[p].buffer /\ r.line = proc[p].line
  BY <1>2, <1>4, PlaceFacts
<1> HIDE DEF r
<1>6. CASE Step(p, r, slot, content)
  BY <1>1, <1>4, <1>5, <1>6, MarkedInv
<1>7. CASE Step(p, r, NamedBase(Base), Truncated(Base))
  BY <1>1, <1>2, <1>5, <1>7, TruncatingKeeps
<1> QED
  BY <1>1, <1>6, <1>7

----------------------------------------------------------------------------
\* The buffer is in order, of p and newer than what is on disk.
LEMMA BufferFacts ==
  ASSUME OrderInv, NEW p \in Processes
  PROVE  /\ proc[p].buffer \in Seq(LineRecords) /\ Ordered(proc[p].buffer)
         /\ \A x \in DOMAIN proc[p].buffer :
              /\ proc[p].buffer[x].by = p /\ proc[p].buffer[x].n <= lines
              /\ Newer(p, proc[p].buffer[x].n)
BY DEF OrderInv, Shape, ProcessShape, PendingNewer

\* The same of the buffer with the line of the call behind it.
LEMMA BufferedFacts ==
  ASSUME OrderInv, NEW p \in Processes, proc[p].pc \in Logging
  PROVE  /\ Buffered(proc[p]) \in Seq(LineRecords) /\ Ordered(Buffered(proc[p]))
         /\ \A x \in DOMAIN Buffered(proc[p]) :
              /\ Buffered(proc[p])[x].by = p /\ Buffered(proc[p])[x].n <= lines
              /\ Newer(p, Buffered(proc[p])[x].n)
<1> DEFINE b == proc[p].buffer
           l == proc[p].line
           all == Append(b, l)
<1>1. /\ b \in Seq(LineRecords) /\ Ordered(b)
      /\ \A x \in DOMAIN b : b[x].by = p /\ b[x].n <= lines /\ Newer(p, b[x].n)
  BY BufferFacts
<1>2. /\ l \in LineRecords /\ l.by = p /\ l.n <= lines /\ Newer(p, l.n)
      /\ \A x \in DOMAIN b : b[x].n < l.n
  BY DEF OrderInv, Shape, ProcessShape, PendingNewer
<1> HIDE DEF b, l
<1>3. Len(b) \in Nat /\ DOMAIN b = 1 .. Len(b)
  BY <1>1
<1>4. /\ all \in Seq(LineRecords) /\ DOMAIN all = 1 .. Len(b) + 1
      /\ \A x \in 1 .. Len(b) : all[x] = b[x]
      /\ all[Len(b) + 1] = l
  BY <1>1, <1>2
<1> HIDE DEF all
<1>5. \A x \in DOMAIN all : (x \in DOMAIN b /\ all[x] = b[x]) \/ all[x] = l
  BY <1>3, <1>4
<1>6. \A x \in DOMAIN all : all[x].by = p /\ all[x].n <= lines /\ Newer(p, all[x].n)
  BY <1>1, <1>2, <1>5
<1>7. Ordered(all)
  <2> SUFFICES ASSUME NEW j \in 1 .. Len(b) + 1, NEW k \in 1 .. Len(b) + 1, j < k,
                      all[j].by = all[k].by
               PROVE  all[j].n < all[k].n
    BY <1>4 DEF Ordered
  <2>1. j \in DOMAIN b /\ all[j] = b[j]
    BY <1>3, <1>4
  <2>2. CASE k = Len(b) + 1
    BY <1>2, <1>4, <2>1, <2>2
  <2>3. CASE k # Len(b) + 1
    <3>1. k \in DOMAIN b /\ all[k] = b[k]
      BY <1>3, <1>4, <2>3
    <3> QED
      BY <1>1, <2>1, <3>1 DEF Ordered
  <2> QED
    BY <2>2, <2>3
<1> QED
  BY <1>4, <1>6, <1>7 DEF Buffered, all, b, l

\* Writing all of the buffer keeps the invariant, when the process goes on
\* with the same line, or without one.
LEMMA FlushedInv ==
  ASSUME OrderInv, NEW p \in Processes, NEW r, ProcessShape(r),
         Step(p, r, slot, Appended(proc[p].fd, proc[p].buffer)),
         r.fd \in {0, proc[p].fd}, lines' = lines, r.buffer = <<>>,
         r.pc \in Logging => proc[p].pc \in Logging /\ r.line = proc[p].line
  PROVE  OrderInv'
<1>1. CASE proc[p].fd = 0
  <2>1. Appended(proc[p].fd, proc[p].buffer) = content
    BY <1>1 DEF Appended
  <2> QED
    BY <2>1, StillInv
<1>2. CASE proc[p].fd # 0
  <2>1. /\ proc[p].buffer \in Seq(LineRecords) /\ Ordered(proc[p].buffer)
        /\ \A x \in DOMAIN proc[p].buffer :
             /\ proc[p].buffer[x].by = p /\ proc[p].buffer[x].n <= lines
             /\ Newer(p, proc[p].buffer[x].n)
    BY BufferFacts
  <2>2. Ordered(r.buffer) /\ DOMAIN r.buffer = {}
    BY DEF Ordered
  <2>3. r.pc \in Logging => \A x \in DOMAIN proc[p].buffer : proc[p].buffer[x].n < r.line.n
    BY DEF OrderInv, PendingNewer
  <2> QED
    BY <1>2, <2>1, <2>2, <2>3, WrittenInv
<1> QED
  BY <1>1, <1>2

\* Checking the size of the file keeps the invariant, whichever way it goes.
LEMMA CheckRealSizeKeeps ==
  ASSUME OrderInv, NEW p \in Processes, CheckRealSize(p) PROVE OrderInv'
<1> DEFINE q == proc[p]
           flushed == [q EXCEPT !.buffer = <<>>]
<1>1. /\ ProcessShape(q) /\ q.pc = "full" /\ q.pc \in Logging /\ lines' = lines
      /\ <<>> \in Seq(LineRecords)
  BY DEF OrderInv, Shape, CheckRealSize, Logging
<1>2. CASE q.fd = 0
  <2> DEFINE pc == AfterSink(q)
  <2>1. Step(p, [q EXCEPT !.pc = pc], slot, content)
    BY <1>2 DEF CheckRealSize
  <2>2. pc \in {"flush", "idle"}
    BY DEF AfterSink
  <2> HIDE DEF pc, q
  <2>3. pc \notin Rotating \cup {"down", "rotate"} /\ pc \notin Logging
    BY <2>2 DEF Rotating, Logging
  <2>4. /\ ProcessShape([q EXCEPT !.pc = pc])
        /\ [q EXCEPT !.pc = pc].pc = pc /\ [q EXCEPT !.pc = pc].fd = q.fd
        /\ [q EXCEPT !.pc = pc].buffer = q.buffer /\ [q EXCEPT !.pc = pc].line = q.line
    BY <1>1, <2>3, PlaceFacts
  <2> QED
    BY <1>1, <2>1, <2>3, <2>4, MarkedInv DEF q
<1>3. CASE q.fd # 0 /\ content[q.fd] \o q.buffer = <<>>
  <2> DEFINE r == [flushed EXCEPT !.pc = "write"]
  <2>1. Step(p, r, slot, content)
    BY <1>3 DEF CheckRealSize
  <2> HIDE DEF q
  <2>2. /\ DOMAIN r = Fields /\ r.pc = "write" /\ r.buffer = <<>>
        /\ r.fd = q.fd /\ r.line = q.line /\ r.i = q.i
    BY <1>1 DEF ProcessShape, Fields
  <2> HIDE DEF r, flushed
  <2>3. ProcessShape(r)
    BY <1>1, <2>2 DEF ProcessShape, Rotating
  <2> QED
    BY <1>1, <2>1, <2>2, <2>3, StillInv DEF q
<1>4. CASE q.fd # 0 /\ content[q.fd] \o q.buffer # <<>>
  <2> DEFINE r == [flushed EXCEPT !.pc = "rotate", !.fd = 0, !.i = MAX_LOG_FILES]
  <2>1. Step(p, r, slot, Appended(q.fd, q.buffer))
    BY <1>4 DEF CheckRealSize
  <2> HIDE DEF q
  <2>2. /\ DOMAIN r = Fields /\ r.pc = "rotate" /\ r.buffer = <<>>
        /\ r.fd = 0 /\ r.line = q.line /\ r.i = MAX_LOG_FILES
    BY <1>1 DEF ProcessShape, Fields
  <2> HIDE DEF r, flushed
  <2>3. MAX_LOG_FILES \in Slots
    BY NumberFacts DEF MAX_LOG_FILES
  <2>4. ProcessShape(r)
    BY <1>1, <2>2, <2>3 DEF ProcessShape, Rotating
  <2> QED
    BY <1>1, <2>1, <2>2, <2>4, FlushedInv DEF q
<1> QED
  BY <1>2, <1>3, <1>4

\* Writing a line keeps the invariant, however much of the buffer goes with it.
LEMMA WriteLineKeeps ==
  ASSUME OrderInv, NEW p \in Processes, NEW k \in 0 .. MaxLines, WriteLine(p, k)
  PROVE  OrderInv'
<1> DEFINE q == proc[p]
           ls == IF q.fd = 0 THEN <<>> ELSE Buffered(q)
           front == SubSeq(ls, 1, k)
           rest == SubSeq(ls, k + 1, Len(ls))
           pc == AfterSink(q)
           r == [q EXCEPT !.pc = pc, !.buffer = rest,
                          !.current_size = @ + q.line.size]
<1>1. /\ Step(p, r, slot, Appended(q.fd, front)) /\ lines' = lines
      /\ k \in Nat /\ k <= Len(ls)
  BY LogAssumption DEF WriteLine
<1>2. ProcessShape(q) /\ q.pc \in Logging
  BY DEF OrderInv, Shape, WriteLine, Logging
<1>3. pc \notin Rotating \cup {"down", "rotate"} /\ pc \notin Logging
  <2>1. pc \in {"flush", "idle"}
    BY DEF AfterSink
  <2> HIDE DEF pc
  <2> QED
    BY <2>1 DEF Rotating, Logging
<1>4. /\ DOMAIN r = Fields /\ r.pc = pc /\ r.buffer = rest
      /\ r.fd = q.fd /\ r.line = q.line /\ r.i = q.i
  <2> HIDE DEF q, rest, pc
  <2> QED
    BY <1>2 DEF ProcessShape, Fields
<1>5. ASSUME rest \in Seq(LineRecords) PROVE ProcessShape(r)
  <2> HIDE DEF r, rest, pc, q
  <2> QED
    BY <1>2, <1>3, <1>4, <1>5 DEF ProcessShape
<1>6. CASE q.fd = 0
  <2>1. Appended(q.fd, front) = content
    BY <1>6 DEF Appended
  <2>2. rest = <<>>
    <3>1. ls = <<>>
      BY <1>6
    <3> HIDE DEF ls
    <3>2. Len(ls) = 0
      BY <3>1
    <3>3. k = 0
      BY <1>1, <3>2
    <3> QED
      BY <3>1, <3>2, <3>3
  <2>3. ProcessShape(r)
    <3> HIDE DEF r, rest
    <3>1. <<>> \in Seq(LineRecords)
      OBVIOUS
    <3>2. rest \in Seq(LineRecords)
      BY <2>2, <3>1
    <3> QED
      BY <1>5, <3>2
  <2> HIDE DEF r, front, rest, pc, ls
  <2> QED
    BY <1>1, <1>3, <1>4, <2>1, <2>2, <2>3, StillInv
<1>7. CASE q.fd # 0
  <2>1. ls = Buffered(q)
    BY <1>7
  <2> HIDE DEF ls
  <2>2. /\ ls \in Seq(LineRecords) /\ Ordered(ls)
        /\ \A x \in DOMAIN ls : ls[x].by = p /\ ls[x].n <= lines /\ Newer(p, ls[x].n)
    BY <1>2, <2>1, BufferedFacts
  <2>3. /\ front \in Seq(LineRecords) /\ rest \in Seq(LineRecords)
        /\ Ordered(front) /\ Ordered(rest) /\ Before(front, rest)
        /\ \A x \in DOMAIN front : x \in DOMAIN ls /\ front[x] = ls[x]
        /\ \A x \in DOMAIN rest : x + k \in DOMAIN ls /\ rest[x] = ls[x + k]
    BY <1>1, <2>2, OrderedSplit
  <2>4. ProcessShape(r)
    BY <1>5, <2>3
  <2> HIDE DEF r, front, rest, pc
  <2>5. \A x \in DOMAIN front :
          front[x].by = p /\ front[x].n <= lines /\ Newer(p, front[x].n)
    BY <2>2, <2>3
  <2>6. \A y \in DOMAIN rest :
          /\ rest[y].by = p /\ rest[y].n <= lines /\ Newer(p, rest[y].n)
          /\ \A x \in DOMAIN front : front[x].n < rest[y].n
    BY <2>2, <2>3, <2>5 DEF Before
  <2> QED
    BY <1>1, <1>3, <1>4, <1>7, <2>3, <2>4, <2>5, <2>6, WrittenInv
<1> QED
  BY <1>6, <1>7

\* Flushing after a warning keeps the invariant.
LEMMA FlushWarningKeeps ==
  ASSUME OrderInv, NEW p \in Processes, FlushWarning(p) PROVE OrderInv'
<1> DEFINE r == [proc[p] EXCEPT !.pc = "idle", !.buffer = <<>>]
<1>1. Step(p, r, slot, Appended(proc[p].fd, proc[p].buffer)) /\ lines' = lines
  BY DEF FlushWarning
<1>2. ProcessShape(proc[p]) /\ <<>> \in Seq(LineRecords)
  BY DEF OrderInv, Shape
<1>3. /\ DOMAIN r = Fields /\ r.pc = "idle" /\ r.buffer = <<>>
      /\ r.fd = proc[p].fd /\ r.line = proc[p].line /\ r.i = proc[p].i
  BY <1>2 DEF ProcessShape, Fields
<1> HIDE DEF r
<1>4. ProcessShape(r) /\ r.pc \notin Logging
  BY <1>2, <1>3 DEF ProcessShape, Rotating, Logging
<1> QED
  BY <1>1, <1>3, <1>4, FlushedInv

\* So does a process that ends, one way or the other.
LEMMA EndKeeps ==
  ASSUME OrderInv, NEW p \in Processes, ExitProcess(p) \/ CrashProcess(p) PROVE OrderInv'
<1>1. Fresh.fd = 0 /\ Fresh.buffer = <<>> /\ Fresh.pc \notin Logging
  BY DEF Fresh, Logging, Rotating
<1>2. CASE ExitProcess(p)
  <2>1. Step(p, Fresh, slot, Appended(proc[p].fd, proc[p].buffer)) /\ lines' = lines
    BY <1>2 DEF ExitProcess
  <2> QED
    BY <1>1, <2>1, FreshShape, FlushedInv
<1>3. CASE CrashProcess(p)
  <2>1. Step(p, Fresh, slot, content) /\ lines' = lines
    BY <1>3 DEF CrashProcess
  <2> QED
    BY <1>1, <2>1, FreshShape, StillInv
<1> QED
  BY <1>2, <1>3

----------------------------------------------------------------------------
\* Nothing is on disk and nobody runs when the model starts.
LEMMA OrderInvInit == LogInit => OrderInv
<1> SUFFICES ASSUME LogInit PROVE OrderInv
  OBVIOUS
<1>1. /\ slot = [k \in Slots |-> 0] /\ content = [f \in Files |-> <<>>]
      /\ proc = [p \in Processes |-> Fresh] /\ lines = 0
  BY DEF LogInit
<1>2. /\ \A k \in Slots : slot[k] = 0 /\ InSlot(k) = <<>>
      /\ \A f \in Files : content[f] = <<>>
      /\ \A p \in Processes : proc[p] = Fresh
  BY <1>1 DEF InSlot
<1>3. Fresh.buffer = <<>> /\ Fresh.pc \notin Logging
  BY DEF Fresh, Logging, Rotating
<1>4. Shape
  BY <1>1, FreshShape, LogAssumption DEF Shape
<1>5. OneName /\ UnusedEmpty
  BY <1>2 DEF OneName, UnusedEmpty
<1>6. FilesOrdered /\ WritesNewest
  BY <1>2 DEF FilesOrdered, WritesNewest, Ordered, Before
<1>7. \A p \in Processes : PendingNewer(p)
  BY <1>2, <1>3 DEF PendingNewer, Ordered
<1>8. NumbersUsed
  BY <1>2 DEF NumbersUsed, Newer
<1> QED
  BY <1>4, <1>5, <1>6, <1>7, <1>8 DEF OrderInv

\* Every step keeps the invariant.
LEMMA OrderInvNext == OrderInv /\ [LogNext]_logVars => OrderInv'
<1> SUFFICES ASSUME OrderInv, [LogNext]_logVars PROVE OrderInv'
  OBVIOUS
<1>1. CASE UNCHANGED logVars
  <2>1. /\ slot' = slot /\ content' = content /\ proc' = proc /\ lines' = lines
    BY <1>1 DEF logVars
  <2> QED
    BY <2>1 DEF OrderInv, Shape, OneName, UnusedEmpty, FilesOrdered, WritesNewest,
                PendingNewer, NumbersUsed, Newer, InSlot
<1>2. CASE LogNext
  <2> SUFFICES ASSUME NEW p \in Processes,
                      \/ StartProcess(p)
                      \/ \E size \in Sizes, warn \in BOOLEAN : LogLine(p, size, warn)
                      \/ CheckRealSize(p)
                      \/ SkipMissing(p)
                      \/ RemoveTarget(p)
                      \/ RenameSource(p)
                      \/ RenameFails(p)
                      \/ Reopen(p)
                      \/ ReopenFails(p)
                      \/ \E k \in 0 .. MaxLines : WriteLine(p, k)
                      \/ FlushWarning(p)
                      \/ ExitProcess(p)
                      \/ CrashProcess(p)
               PROVE  OrderInv'
    BY <1>2 DEF LogNext
  <2>1. CASE StartProcess(p)
    BY <2>1, StartKeeps
  <2>2. CASE \E size \in Sizes, warn \in BOOLEAN : LogLine(p, size, warn)
    BY <2>2, LogLineKeeps
  <2>3. CASE CheckRealSize(p)
    BY <2>3, CheckRealSizeKeeps
  <2>4. CASE SkipMissing(p)
    BY <2>4, SkipKeeps
  <2>5. CASE RemoveTarget(p)
    BY <2>5, RemoveTargetKeeps
  <2>6. CASE RenameSource(p)
    BY <2>6, RenameSourceKeeps
  <2>7. CASE RenameFails(p)
    BY <2>7, RenameFailsKeeps
  <2>8. CASE Reopen(p)
    BY <2>8, ReopenKeeps
  <2>9. CASE ReopenFails(p)
    BY <2>9, ReopenFailsKeeps
  <2>10. CASE \E k \in 0 .. MaxLines : WriteLine(p, k)
    BY <2>10, WriteLineKeeps
  <2>11. CASE FlushWarning(p)
    BY <2>11, FlushWarningKeeps
  <2>12. CASE ExitProcess(p) \/ CrashProcess(p)
    BY <2>12, EndKeeps
  <2> QED
    BY <2>1, <2>2, <2>3, <2>4, <2>5, <2>6, <2>7, <2>8, <2>9, <2>10, <2>11, <2>12
<1> QED
  BY <1>1, <1>2

\* In every reachable state, with any number of overlapping runs, crashes and
\* failed renames: no file has two names, and what each run has on disk, in its
\* buffer and in its log call is in the order of its log calls.
THEOREM OrderInvariantHolds == LogSpec => []OrderInv
<1>1. LogInit => OrderInv
  BY OrderInvInit
<1>2. OrderInv /\ [LogNext]_logVars => OrderInv'
  BY OrderInvNext
<1> QED
  BY <1>1, <1>2, PTL DEF LogSpec

\* The files in the order of their names read as one ordered log.
LEMMA OrderedOnDisk == OrderInv => OwnOrderKept
<1> SUFFICES ASSUME OrderInv PROVE OwnOrderKept
  OBVIOUS
<1> DEFINE a == InSlot(3)
           b == InSlot(2)
           c == InSlot(1)
           d == InSlot(0)
<1>1. Slots = 0 .. 3
  BY NumberFacts
<1>2. \A k \in Slots : InSlot(k) \in Seq(LineRecords)
  BY InSlotLines DEF OrderInv
<1>3. /\ a \in Seq(LineRecords) /\ b \in Seq(LineRecords)
      /\ c \in Seq(LineRecords) /\ d \in Seq(LineRecords)
  BY <1>1, <1>2
<1>4. Ordered(a) /\ Ordered(b) /\ Ordered(c) /\ Ordered(d)
  BY <1>1 DEF OrderInv, FilesOrdered
<1>5. /\ Before(a, b) /\ Before(a, c) /\ Before(a, d)
      /\ Before(b, c) /\ Before(b, d) /\ Before(c, d)
  BY <1>1 DEF OrderInv, FilesOrdered
<1>6. OwnOrderKept <=> Ordered(((a \o b) \o c) \o d)
  BY DEF OwnOrderKept, OnDisk, Ordered
<1> HIDE DEF a, b, c, d
<1>7. ASSUME NEW s \in Seq(LineRecords), NEW t \in Seq(LineRecords),
             NEW u \in Seq(LineRecords), Before(s, u), Before(t, u)
      PROVE  Before(s \o t, u)
  <2>1. \A x \in DOMAIN (s \o t) : \/ x \in DOMAIN s /\ (s \o t)[x] = s[x]
                                   \/ \E y \in DOMAIN t : (s \o t)[x] = t[y]
    BY ConcatElements
  <2> SUFFICES ASSUME NEW x \in DOMAIN (s \o t), NEW z \in DOMAIN u,
                      (s \o t)[x].by = u[z].by
               PROVE  (s \o t)[x].n < u[z].n
    BY DEF Before
  <2>2. CASE x \in DOMAIN s /\ (s \o t)[x] = s[x]
    BY <1>7, <2>2 DEF Before
  <2>3. CASE \E y \in DOMAIN t : (s \o t)[x] = t[y]
    BY <1>7, <2>3 DEF Before
  <2> QED
    BY <2>1, <2>2, <2>3
<1>8. (a \o b) \in Seq(LineRecords) /\ Ordered(a \o b)
  BY <1>3, <1>4, <1>5, OrderedAppend
<1>9. Before(a \o b, c) /\ Before(a \o b, d)
  BY <1>3, <1>5, <1>7
<1>10. ((a \o b) \o c) \in Seq(LineRecords) /\ Ordered((a \o b) \o c)
  <2>1. ((a \o b) \o c) \in Seq(LineRecords)
    BY <1>3, <1>8
  <2>2. Ordered((a \o b) \o c)
    BY <1>3, <1>4, <1>8, <1>9, OrderedAppend
  <2> QED
    BY <2>1, <2>2
<1>11. Before((a \o b) \o c, d)
  BY <1>3, <1>5, <1>7, <1>8, <1>9
<1>12. Ordered(((a \o b) \o c) \o d)
  BY <1>3, <1>4, <1>10, <1>11, OrderedAppend
<1> QED
  BY <1>6, <1>12

\* The lines of one process are on disk in the order it logged them and never
\* twice, with any number of overlapping runs that rename, truncate and remove
\* one another's files, and any crashes and failures.
THEOREM OrderIsKept == LogSpec => []OwnOrderKept
BY OrderInvariantHolds, OrderedOnDisk, PTL
----------------------------------------------------------------------------
\* The size of lines, which is defined by recursion over their number.

\* What is true of 0 and of the successor of a number it is true of, is true
\* of every number: a set that holds 0 and successors holds them all.
LEMMA SetInduction ==
  ASSUME NEW S, 0 \in S, \A n \in Nat : n \in S => n + 1 \in S
  PROVE  Nat \subseteq S
<1> DEFINE R == {ss \in Nat \X Nat : ss[1] < ss[2]}
           T == Nat \ S
<1> SUFFICES ASSUME T # {} PROVE FALSE
  OBVIOUS
<1>1. IsWellFoundedOn(R, Nat)
  BY NatLessThanWellFounded DEF OpToRel
<1>2. PICK x \in T : \A y \in T : <<y, x>> \notin R
  <2>1. T \subseteq Nat
    OBVIOUS
  <2> HIDE DEF R, T
  <2> QED
    BY <1>1, <2>1, WFMin
<1>3. x \in Nat /\ x # 0
  BY <1>2
<1>4. x - 1 \in Nat /\ <<x - 1, x>> \in R
  BY <1>3
<1>5. x - 1 \in S
  BY <1>2, <1>4
<1> QED
  BY <1>2, <1>3, <1>4, <1>5

\* g holds the sizes of the first lines of ls, for any number of them.
Sums(ls, g) ==
  /\ DOMAIN g = 0 .. Len(ls)
  /\ g[0] = 0
  /\ \A k \in 1 .. Len(ls) : g[k] = g[k - 1] + ls[k].size

\* Lines have sizes that are numbers.
LEMMA LineSizes ==
  ASSUME NEW ls \in Seq(LineRecords)
  PROVE  /\ Len(ls) \in Nat /\ DOMAIN ls = 1 .. Len(ls)
         /\ \A k \in 1 .. Len(ls) : ls[k].size \in Nat
<1>1. Len(ls) \in Nat /\ DOMAIN ls = 1 .. Len(ls)
  OBVIOUS
<1>2. \A k \in 1 .. Len(ls) : ls[k] \in LineRecords
  OBVIOUS
<1>3. Sizes \cup {0} \subseteq Nat
  BY LogAssumption
<1>4. \A l \in LineRecords : l.size \in Nat
  BY <1>3 DEF LineRecords
<1> QED
  BY <1>1, <1>2, <1>4

\* Every such g has numbers for values, and there is only one.
LEMMA SumsTyped ==
  ASSUME NEW ls \in Seq(LineRecords), NEW g, Sums(ls, g), NEW h, Sums(ls, h)
  PROVE  \A k \in 0 .. Len(ls) : g[k] \in Nat /\ g[k] = h[k]
<1> DEFINE S == { n \in Nat : n <= Len(ls) => g[n] \in Nat /\ g[n] = h[n] }
<1>1. Len(ls) \in Nat /\ \A k \in 1 .. Len(ls) : ls[k].size \in Nat
  BY LineSizes
<1>2. 0 \in S
  BY DEF Sums
<1>3. ASSUME NEW n \in Nat, n \in S PROVE n + 1 \in S
  <2> SUFFICES ASSUME n + 1 <= Len(ls) PROVE g[n + 1] \in Nat /\ g[n + 1] = h[n + 1]
    OBVIOUS
  <2>1. n + 1 \in 1 .. Len(ls) /\ (n + 1) - 1 = n
    BY <1>1
  <2>2. g[n + 1] = g[n] + ls[n + 1].size /\ h[n + 1] = h[n] + ls[n + 1].size
    BY <2>1 DEF Sums
  <2>3. g[n] \in Nat /\ g[n] = h[n] /\ ls[n + 1].size \in Nat
    BY <1>1, <1>3, <2>1
  <2> QED
    BY <2>2, <2>3
<1>4. Nat \subseteq S
  <2> HIDE DEF S
  <2> QED
    BY <1>2, <1>3, SetInduction
<1> QED
  BY <1>1, <1>4

\* There is one for the first n lines, whatever n is.
LEMMA SumsOfFirst ==
  ASSUME NEW ls \in Seq(LineRecords)
  PROVE  \E g : Sums(ls, g)
<1> DEFINE Partial(g, n) == /\ DOMAIN g = 0 .. n
                            /\ g[0] = 0
                            /\ \A k \in 1 .. n : g[k] = g[k - 1] + ls[k].size
           S == { n \in Nat : \E g : Partial(g, n) }
<1>1. 0 \in S
  <2>1. Partial([k \in 0 .. 0 |-> 0], 0)
    OBVIOUS
  <2> QED
    BY <2>1
<1>2. ASSUME NEW n \in Nat, n \in S PROVE n + 1 \in S
  <2>1. PICK g : Partial(g, n)
    BY <1>2
  <2> DEFINE h == [k \in 0 .. n + 1 |-> IF k = n + 1 THEN g[n] + ls[n + 1].size ELSE g[k]]
  <2>2. h[0] = 0 /\ DOMAIN h = 0 .. n + 1
    BY <2>1
  <2>3. ASSUME NEW k \in 1 .. n + 1 PROVE h[k] = h[k - 1] + ls[k].size
    <3>1. CASE k = n + 1
      <4>1. h[k] = g[n] + ls[n + 1].size
        BY <3>1
      <4>2. k - 1 = n /\ h[n] = g[n]
        BY <3>1
      <4> QED
        BY <3>1, <4>1, <4>2
    <3>2. CASE k # n + 1
      <4>1. k \in 1 .. n /\ k - 1 \in 0 .. n
        BY <3>2
      <4>2. h[k] = g[k] /\ h[k - 1] = g[k - 1]
        BY <4>1
      <4> QED
        BY <2>1, <4>1, <4>2
    <3> QED
      BY <3>1, <3>2
  <2>4. Partial(h, n + 1)
    <3> HIDE DEF h
    <3> QED
      BY <2>2, <2>3
  <2>5. \E f : Partial(f, n + 1)
    <3> HIDE DEF h, Partial
    <3> QED
      BY <2>4
  <2> HIDE DEF h, Partial
  <2> QED
    BY <2>5
<1>3. Nat \subseteq S
  <2> HIDE DEF S
  <2> QED
    BY <1>1, <1>2, SetInduction
<1>4. Len(ls) \in S
  BY <1>3
<1> QED
  BY <1>4 DEF Sums

\* SizeOf is what each of them says of all lines.
LEMMA SizeOfSums ==
  ASSUME NEW ls \in Seq(LineRecords), NEW g, Sums(ls, g)
  PROVE  SizeOf(ls) = g[Len(ls)] /\ SizeOf(ls) \in Nat
<1> DEFINE Body(h) == [k \in 0 .. Len(ls) |-> IF k = 0 THEN 0 ELSE h[k - 1] + ls[k].size]
           total == CHOOSE h : h = Body(h)
<1>1. SizeOf(ls) = total[Len(ls)]
  BY DEF SizeOf
<1>2. Len(ls) \in Nat
  OBVIOUS
<1>3. PICK h : Sums(ls, h) /\ h = Body(h)
  <2> DEFINE h == [k \in 0 .. Len(ls) |-> g[k]]
  <2>1. Sums(ls, h)
    BY <1>2 DEF Sums
  <2>2. \A k \in 0 .. Len(ls) : k # 0 => k \in 1 .. Len(ls) /\ k - 1 \in 0 .. Len(ls)
    BY <1>2
  <2>3. \A k \in 0 .. Len(ls) : g[k] = IF k = 0 THEN 0 ELSE h[k - 1] + ls[k].size
    BY <2>2 DEF Sums
  <2>4. h = Body(h)
    BY <2>3
  <2> QED
    BY <2>1, <2>4
<1>4. total = Body(total)
  <2> HIDE DEF Body
  <2> QED
    BY <1>3
<1>5. Sums(ls, total)
  <2> HIDE DEF total
  <2>1. DOMAIN total = 0 .. Len(ls) /\ total[0] = 0
    BY <1>2, <1>4
  <2>2. \A k \in 1 .. Len(ls) : total[k] = total[k - 1] + ls[k].size
    BY <1>2, <1>4
  <2> QED
    BY <2>1, <2>2 DEF Sums
<1> HIDE DEF total
<1> QED
  <2>1. Len(ls) \in 0 .. Len(ls)
    BY <1>2
  <2> QED
    BY <1>1, <1>5, <2>1, SumsTyped
\* The size of lines is a number.
LEMMA SizeOfNat == \A ls \in Seq(LineRecords) : SizeOf(ls) \in Nat
BY SumsOfFirst, SizeOfSums

\* No lines have no size.
LEMMA SizeOfNone == SizeOf(<<>>) = 0
<1>1. <<>> \in Seq(LineRecords) /\ Len(<<>>) = 0
  OBVIOUS
<1> DEFINE g == [k \in 0 .. 0 |-> 0]
<1>2. Sums(<<>>, g)
  BY <1>1 DEF Sums
<1>3. g[Len(<<>>)] = 0
  BY <1>1
<1> HIDE DEF g
<1> QED
  BY <1>1, <1>2, <1>3, SizeOfSums

\* One line has its own size.
LEMMA SizeOfOne == \A l \in LineRecords : SizeOf(<<l>>) = l.size
<1> TAKE l \in LineRecords
<1> DEFINE g == [k \in 0 .. 1 |-> IF k = 0 THEN 0 ELSE l.size]
<1>1. <<l>> \in Seq(LineRecords) /\ Len(<<l>>) = 1 /\ <<l>>[1] = l
  OBVIOUS
<1>2. l.size \in Nat
  <2>1. <<l>>[1].size \in Nat
    BY <1>1, LineSizes, 1 \in 1 .. 1
  <2> QED
    BY <1>1, <2>1
<1>3. g[0] = 0 /\ g[1] = l.size /\ DOMAIN g = 0 .. 1
  OBVIOUS
<1>4. Sums(<<l>>, g)
  <2> HIDE DEF g
  <2> QED
    BY <1>1, <1>2, <1>3 DEF Sums
<1> HIDE DEF g
<1> QED
  BY <1>1, <1>3, <1>4, SizeOfSums

\* The size of lines behind others is the sum of both sizes.
LEMMA SizeOfConcat ==
  ASSUME NEW s \in Seq(LineRecords), NEW t \in Seq(LineRecords)
  PROVE  SizeOf(s \o t) = SizeOf(s) + SizeOf(t)
<1> DEFINE m == Len(s)
           n == Len(t)
           st == s \o t
<1>1. m \in Nat /\ n \in Nat /\ st \in Seq(LineRecords) /\ Len(st) = m + n
  OBVIOUS
<1>2. /\ \A k \in 1 .. m : st[k] = s[k]
      /\ \A k \in m + 1 .. m + n : st[k] = t[k - m]
  OBVIOUS
<1>3. PICK g : Sums(s, g)
  BY SumsOfFirst
<1>4. PICK h : Sums(t, h)
  BY SumsOfFirst
<1>5. /\ SizeOf(s) = g[m] /\ g[m] \in Nat
      /\ SizeOf(t) = h[n] /\ h[n] \in Nat
  BY <1>3, <1>4, SizeOfSums
<1> DEFINE f == [k \in 0 .. m + n |-> IF k <= m THEN g[k] ELSE g[m] + h[k - m]]
<1>6. DOMAIN f = 0 .. m + n
  OBVIOUS
<1>7. \A k \in 0 .. m : f[k] = g[k]
  BY <1>1
<1>8. \A k \in 0 .. n : f[m + k] = g[m] + h[k]
  <2> SUFFICES ASSUME NEW k \in 0 .. n PROVE f[m + k] = g[m] + h[k]
    OBVIOUS
  <2>1. CASE k = 0
    <3>1. h[0] = 0 /\ f[m + k] = g[m]
      BY <1>1, <1>4, <2>1 DEF Sums
    <3> QED
      BY <1>5, <2>1, <3>1
  <2>2. CASE k # 0
    <3>1. m + k \in 0 .. m + n /\ ~(m + k <= m) /\ (m + k) - m = k
      BY <1>1, <2>2
    <3> QED
      BY <3>1
  <2> QED
    BY <2>1, <2>2
<1> HIDE DEF f, m, n, st
<1>9. ASSUME NEW k \in 1 .. m + n PROVE f[k] = f[k - 1] + st[k].size
  <2>1. CASE k <= m
    <3>1. k \in 1 .. m /\ k \in 0 .. m /\ k - 1 \in 0 .. m
      BY <1>1, <2>1
    <3>2. g[k] = g[k - 1] + s[k].size
      BY <1>3, <3>1 DEF Sums, m
    <3> QED
      BY <1>2, <1>7, <3>1, <3>2
  <2>2. CASE ~(k <= m)
    <3> DEFINE j == k - m
    <3>1. j \in 1 .. n /\ j \in 0 .. n /\ j - 1 \in 0 .. n /\ k = m + j /\ k - 1 = m + (j - 1)
      BY <1>1, <2>2
    <3>2. h[j] = h[j - 1] + t[j].size
      BY <1>4, <3>1 DEF Sums, n
    <3>3. st[k] = t[j]
      <4>1. k \in m + 1 .. m + n
        BY <1>1, <2>2
      <4> QED
        BY <1>2, <4>1
    <3> HIDE DEF j
    <3>4. f[k] = g[m] + h[j] /\ f[k - 1] = g[m] + h[j - 1]
      BY <1>8, <3>1
    <3>5. h[j - 1] \in Nat /\ t[j].size \in Nat
      <4>1. t[j].size \in Nat
        BY <3>1, LineSizes DEF n
      <4> QED
        BY <4>1, <3>1, <1>4, SumsTyped DEF n
    <3> QED
      BY <1>5, <3>2, <3>3, <3>4, <3>5
  <2> QED
    BY <2>1, <2>2
<1>10. Sums(st, f)
  <2>1. f[0] = 0
    BY <1>1, <1>3, <1>7 DEF Sums
  <2> QED
    BY <1>1, <1>6, <1>9, <2>1 DEF Sums
<1>11. f[Len(st)] = g[m] + h[n]
  BY <1>1, <1>8
<1> QED
  BY <1>1, <1>5, <1>10, <1>11, SizeOfSums DEF st
----------------------------------------------------------------------------
\* With the sizes, the types are complete.
Typed ==
  /\ proc \in [Processes -> ProcessRecords]
  /\ last_warn \in Nat /\ faults \in Nat

\* A step whose process is well typed keeps the types.
LEMMA StepTyped ==
  ASSUME Typed, NEW p \in Processes, NEW r \in ProcessRecords, NEW names, NEW data,
         Step(p, r, names, data), last_warn' \in Nat, faults' \in {faults, faults + 1}
  PROVE  Typed'
<1>1. proc' \in [Processes -> ProcessRecords]
  <2>1. proc' = [proc EXCEPT ![p] = r] /\ proc \in [Processes -> ProcessRecords]
    BY DEF Step, Typed
  <2> HIDE DEF ProcessRecords
  <2> QED
    BY <2>1
<1>2. ProcessRecords' = ProcessRecords
  OBVIOUS
<1> QED
  BY <1>1 DEF Typed

\* The fields of a process have their types.
LEMMA RecordFacts ==
  ASSUME NEW r \in ProcessRecords
  PROVE  /\ DOMAIN r = Fields
         /\ r.fd \in Files \cup {0} /\ r.buffer \in Seq(LineRecords)
         /\ r.current_size \in Nat /\ r.line \in LineRecords
         /\ r.warn \in BOOLEAN /\ r.i \in Slots
         /\ r.line.size \in Nat /\ r.line.n \in Nat /\ r.line.n <= MaxLines
<1>1. /\ DOMAIN r = Fields
      /\ r.fd \in Files \cup {0} /\ r.buffer \in Seq(LineRecords)
      /\ r.current_size \in Nat /\ r.line \in LineRecords
      /\ r.warn \in BOOLEAN /\ r.i \in Slots
  BY DEF ProcessRecords, Fields
<1>2. Sizes \cup {0} \subseteq Nat /\ 0 .. MaxLines \subseteq Nat
  BY LogAssumption
<1>3. \A l \in LineRecords : l.size \in Nat /\ l.n \in Nat /\ l.n <= MaxLines
  BY <1>2 DEF LineRecords
<1> QED
  BY <1>1, <1>3

\* A process that is not running has its type.
LEMMA FreshTyped == Fresh \in ProcessRecords
<1>1. NoLine \in LineRecords
  BY LogAssumption DEF NoLine, LineRecords
<1>2. 0 \in Slots /\ <<>> \in Seq(LineRecords)
  BY NumberFacts
<1> QED
  BY <1>1, <1>2 DEF Fresh, ProcessRecords
\* After a log call the process goes on or flushes.
LEMMA AfterSinkFacts == \A r : AfterSink(r) \in {"flush", "idle"}
BY DEF AfterSink

\* Starting and ending keep the types.
LEMMA StartOrEndTyped ==
  ASSUME OrderInv, Typed, NEW p \in Processes,
         StartProcess(p) \/ ExitProcess(p) \/ CrashProcess(p)
  PROVE  Typed'
<1>1. CASE StartProcess(p)
  <2> DEFINE f == IF slot[0] = 0 THEN Unused ELSE slot[0]
             r == [Fresh EXCEPT !.pc = "idle", !.fd = f, !.current_size = SizeOf(content[f])]
  <2>1. Step(p, r, NamedBase(f), OpenedAtStart(f)) /\ UNCHANGED <<last_warn, faults>>
    BY <1>1 DEF StartProcess
  <2>2. f \in Files
    <3>1. proc[p].fd = 0
      BY <1>1 DEF StartProcess, OrderInv, Shape, ProcessShape
    <3> QED
      BY <3>1, BaseFile
  <2>3. SizeOf(content[f]) \in Nat
    BY <2>2, SizeOfNat DEF OrderInv, Shape
  <2>4. r \in ProcessRecords
    <3> HIDE DEF f
    <3> QED
      BY <2>2, <2>3, FreshTyped DEF ProcessRecords
  <2> HIDE DEF f, r
  <2> QED
    BY <2>1, <2>4, StepTyped DEF Typed
<1>2. CASE ExitProcess(p) \/ CrashProcess(p)
  BY <1>2, FreshTyped, StepTyped DEF ExitProcess, CrashProcess, Typed
<1> QED
  BY <1>1, <1>2

\* Logging, the check of the size, writing and flushing keep the types.
LEMMA LoggingTyped ==
  ASSUME OrderInv, Typed, NEW p \in Processes,
         \/ \E size \in Sizes, warn \in BOOLEAN : LogLine(p, size, warn)
         \/ CheckRealSize(p) \/ (\E k \in 0 .. MaxLines : WriteLine(p, k))
         \/ FlushWarning(p)
  PROVE  Typed'
<1> DEFINE q == proc[p]
<1>1. q \in ProcessRecords /\ <<>> \in Seq(LineRecords) /\ AfterSink(q) \in {"flush", "idle"}
  BY AfterSinkFacts DEF Typed
<1>2. /\ q.buffer \in Seq(LineRecords) /\ q.current_size \in Nat /\ q.line \in LineRecords
      /\ q.line.size \in Nat /\ q.line.n \in Nat
  BY <1>1, RecordFacts
<1>3. CASE \E size \in Sizes, warn \in BOOLEAN : LogLine(p, size, warn)
  <2>1. PICK size \in Sizes, warn \in BOOLEAN : LogLine(p, size, warn)
    BY <1>3
  <2> DEFINE line == [n |-> lines + 1, by |-> p, size |-> size]
             pc == IF Fits(q, size) THEN "write" ELSE "full"
             r == [q EXCEPT !.line = line, !.warn = warn, !.pc = pc]
  <2>2. Step(p, r, slot, content) /\ UNCHANGED <<last_warn, faults>> /\ lines < MaxLines
    BY <2>1 DEF LogLine
  <2>3. line \in LineRecords
    BY <2>2, LogAssumption DEF LineRecords, OrderInv, Shape
  <2>4. pc \in {"write", "full"}
    OBVIOUS
  <2>5. r \in ProcessRecords
    <3> HIDE DEF line, pc, q
    <3> QED
      BY <1>1, <2>3, <2>4 DEF ProcessRecords
  <2> HIDE DEF r
  <2> QED
    BY <2>2, <2>5, StepTyped DEF Typed
<1>4. CASE CheckRealSize(p)
  <2> DEFINE flushed == [q EXCEPT !.buffer = <<>>]
             a == [q EXCEPT !.pc = AfterSink(q)]
             b == [flushed EXCEPT !.pc = "write"]
             c == [flushed EXCEPT !.pc = "rotate", !.fd = 0, !.i = MAX_LOG_FILES]
  <2>1. /\ UNCHANGED <<last_warn, faults>>
        /\ \E r \in {a, b, c} : \E data : Step(p, r, slot, data)
    BY <1>4 DEF CheckRealSize
  <2>2. MAX_LOG_FILES \in Slots
    BY NumberFacts DEF MAX_LOG_FILES
  <2>3. a \in ProcessRecords /\ flushed \in ProcessRecords
    <3> HIDE DEF q
    <3> QED
      BY <1>1 DEF ProcessRecords
  <2>4. b \in ProcessRecords /\ c \in ProcessRecords
    <3> HIDE DEF q, flushed
    <3> QED
      BY <2>2, <2>3 DEF ProcessRecords
  <2> HIDE DEF a, b, c
  <2> QED
    BY <2>1, <2>3, <2>4, StepTyped DEF Typed
<1>5. CASE \E k \in 0 .. MaxLines : WriteLine(p, k)
  <2>1. PICK k \in 0 .. MaxLines : WriteLine(p, k)
    BY <1>5
  <2> DEFINE ls == IF q.fd = 0 THEN <<>> ELSE Buffered(q)
             rest == SubSeq(ls, k + 1, Len(ls))
             size == q.current_size + q.line.size
             r == [q EXCEPT !.pc = AfterSink(q), !.buffer = rest, !.current_size = @ + q.line.size]
  <2>2. /\ Step(p, r, slot, Appended(q.fd, SubSeq(ls, 1, k)))
        /\ UNCHANGED <<last_warn, faults>> /\ k \in Nat /\ k <= Len(ls)
    <3>1. k \in Nat
      BY LogAssumption
    <3>2. /\ Step(p, r, slot, Appended(q.fd, SubSeq(ls, 1, k)))
          /\ k <= Len(ls)
      BY <2>1 DEF WriteLine
    <3>3. UNCHANGED <<last_warn, faults>>
      BY <2>1 DEF WriteLine
    <3> QED
      BY <3>1, <3>2, <3>3
  <2>3. ls \in Seq(LineRecords)
    BY <1>1, <1>2 DEF Buffered
  <2>4. rest \in Seq(LineRecords)
    <3> HIDE DEF ls
    <3> QED
      BY <2>2, <2>3
  <2>5. size \in Nat
    BY <1>2
  <2>6. r \in ProcessRecords
    <3>1. r = [q EXCEPT !.pc = AfterSink(q), !.buffer = rest, !.current_size = size]
      BY <1>1 DEF ProcessRecords
    <3> HIDE DEF r, rest, size, q
    <3> QED
      BY <1>1, <2>4, <2>5, <3>1 DEF ProcessRecords
  <2> HIDE DEF r, ls
  <2> QED
    BY <2>2, <2>6, StepTyped DEF Typed
<1>6. CASE FlushWarning(p)
  <2> DEFINE r == [q EXCEPT !.pc = "idle", !.buffer = <<>>]
  <2>1. /\ Step(p, r, slot, Appended(q.fd, q.buffer))
        /\ last_warn' = q.line.n /\ UNCHANGED faults
    BY <1>6 DEF FlushWarning
  <2>2. r \in ProcessRecords
    <3> HIDE DEF q
    <3> QED
      BY <1>1 DEF ProcessRecords
  <2> HIDE DEF r
  <2> QED
    BY <1>2, <2>1, <2>2, StepTyped
<1> QED
  BY <1>3, <1>4, <1>5, <1>6

\* A rotation keeps the types.
LEMMA RotationTyped ==
  ASSUME OrderInv, Typed, NEW p \in Processes,
         \/ SkipMissing(p) \/ RemoveTarget(p) \/ RenameSource(p) \/ RenameFails(p)
         \/ Reopen(p) \/ ReopenFails(p)
  PROVE  Typed'
<1> DEFINE q == proc[p]
<1>1. /\ q \in ProcessRecords /\ AfterSink(q) \in {"flush", "idle"} /\ faults \in Nat
      /\ ProcessShape(q)
  BY AfterSinkFacts DEF Typed, OrderInv, Shape
<1>2. CASE SkipMissing(p) \/ RenameSource(p)
  <2> DEFINE r == [q EXCEPT !.pc = "rotate", !.i = @ - 1]
  <2>1. q.i \in Slots /\ q.i > 0
    BY <1>1, <1>2 DEF SkipMissing, RenameSource, ProcessShape, Rotating
  <2>2. q.i - 1 \in Slots
    BY <2>1, NumberFacts
  <2>3. [q EXCEPT !.i = @ - 1] \in ProcessRecords /\ r \in ProcessRecords
    <3> HIDE DEF q
    <3> QED
      BY <1>1, <2>2 DEF ProcessRecords
  <2> QED
    BY <1>2, <2>3, StepTyped DEF SkipMissing, RenameSource, Typed
<1>3. CASE RemoveTarget(p) \/ RenameFails(p) \/ ReopenFails(p)
  <2>1. \E pc \in {"rename_again", "rename", "again", "give_up", "flush", "idle"} :
        \E names, data : Step(p, [q EXCEPT !.pc = pc], names, data)
    BY <1>1, <1>3 DEF RemoveTarget, RenameFails, ReopenFails
  <2>2. last_warn' = last_warn /\ faults' \in {faults, faults + 1}
    BY <1>3 DEF RemoveTarget, RenameFails, ReopenFails
  <2>3. \A pc \in {"rename_again", "rename", "again", "give_up", "flush", "idle"} :
          [q EXCEPT !.pc = pc] \in ProcessRecords
    <3> HIDE DEF q
    <3> QED
      BY <1>1 DEF ProcessRecords
  <2> HIDE DEF q
  <2> QED
    BY <2>1, <2>2, <2>3, StepTyped DEF Typed
<1>4. CASE Reopen(p)
  <2> DEFINE f == IF slot[0] = 0 THEN Unused ELSE slot[0]
             pc == IF q.pc = "give_up" THEN AfterSink(q) ELSE "write"
             r == [q EXCEPT !.pc = pc, !.fd = f, !.current_size = 0]
  <2>1. Step(p, r, NamedBase(f), Truncated(f)) /\ UNCHANGED <<last_warn, faults>>
    BY <1>4 DEF Reopen
  <2>2. f \in Files
    <3>1. q.fd = 0
      BY <1>1, <1>4 DEF Reopen, ProcessShape, Rotating
    <3> QED
      BY <3>1, BaseFile
  <2>3. pc \in {"flush", "idle", "write"}
    BY <1>1
  <2>4. r \in ProcessRecords
    <3> HIDE DEF f, pc, q
    <3> QED
      BY <1>1, <2>2, <2>3 DEF ProcessRecords
  <2> HIDE DEF f, r
  <2> QED
    BY <2>1, <2>4, StepTyped DEF Typed
<1> QED
  BY <1>2, <1>3, <1>4

\* Every step keeps the types.
LEMMA TypedNext == OrderInv /\ Typed /\ [LogNext]_logVars => Typed'
<1> SUFFICES ASSUME OrderInv, Typed, [LogNext]_logVars PROVE Typed'
  OBVIOUS
<1>1. CASE UNCHANGED logVars
  BY <1>1 DEF logVars, Typed
<1>2. CASE LogNext
  BY <1>2, StartOrEndTyped, LoggingTyped, RotationTyped DEF LogNext
<1> QED
  BY <1>1, <1>2

\* The types of everything in the log and in its processes, and no file with
\* two names, for any number of overlapping runs and any crashes and failures.
THEOREM LogTypeCorrect == LogSpec => []LogTypeOK
<1>1. LogInit => Typed
  BY FreshTyped DEF LogInit, Typed
<1>2. OrderInv /\ Typed => LogTypeOK
  <2>1. MaxLines \in Nat
    BY LogAssumption
  <2> QED
    BY <2>1 DEF OrderInv, Shape, OneName, Typed, LogTypeOK
<1> QED
  BY <1>1, <1>2, TypedNext, OrderInvariantHolds, PTL DEF LogSpec
=============================================================================
