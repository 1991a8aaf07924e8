------------------------------ MODULE DurableLog ------------------------------
(***************************************************************************)
(* What a log on disk promises to the one program that writes it: lines get *)
(* to the disk in the order they were written, old ones are dropped from    *)
(* the front, and a crash costs the lines still pending and no others.  A   *)
(* fault of the file system voids the promise for what is on disk, but not  *)
(* the order.                                                               *)
(***************************************************************************)
EXTENDS Naturals, Sequences

CONSTANT Lines

VARIABLES
  disk,     \* oldest line first
  pending,  \* written, not yet on disk
  damaged   \* a fault has happened

vars == <<disk, pending, damaged>>

Init == disk = <<>> /\ pending = <<>> /\ damaged = FALSE

\* The first k pending lines, of ls, get to the disk.
Settle(ls, k) ==
  /\ disk' = disk \o SubSeq(ls, 1, k)
  /\ pending' = SubSeq(ls, k + 1, Len(ls))
  /\ UNCHANGED damaged

Write(line) ==
  \E k \in 0 .. Len(pending) + 1 : Settle(Append(pending, line), k)

Flush == Settle(pending, Len(pending))

\* Rotation drops the oldest file.
Drop ==
  /\ \E k \in 1 .. Len(disk) : disk' = SubSeq(disk, k + 1, Len(disk))
  /\ UNCHANGED <<pending, damaged>>

Crash == pending' = <<>> /\ UNCHANGED <<disk, damaged>>

Fault == damaged' = TRUE /\ UNCHANGED <<disk, pending>>

\* After a fault, a whole file may go.
Lose ==
  /\ damaged
  /\ \E i, j \in 0 .. Len(disk) :
       disk' = SubSeq(disk, 1, i) \o SubSeq(disk, j + 1, Len(disk)) /\ i < j
  /\ UNCHANGED <<pending, damaged>>

Next ==
  (\E line \in Lines : Write(line)) \/ Flush \/ Drop \/ Crash \/ Fault \/ Lose

Spec == Init /\ [][Next]_vars
=============================================================================
