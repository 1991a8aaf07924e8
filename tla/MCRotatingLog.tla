----------------------------- MODULE MCRotatingLog -----------------------------
(***************************************************************************)
(* Small instances of RotatingLog: one tool run again and again, and two    *)
(* runs that overlap.                                                       *)
(***************************************************************************)
EXTENDS RotatingLog

\* Two of the first fit a file, one of the second is larger than the limit.
MCSizes == {1, 3}

MCOneSize == {2}
=============================================================================
