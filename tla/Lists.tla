-------------------------------- MODULE Lists --------------------------------
(***************************************************************************)
(* What SelectSeq computes, of a list and a set of elements instead of a   *)
(* list and a test, and the sum of a list: the provers have no definition  *)
(* of SelectSeq and the folds, and the modules that use these operators    *)
(* are to be proved about.                                                 *)
(***************************************************************************)
EXTENDS Naturals, Sequences

\* FilterTo(list, S)[n]: of the first n elements of the list those in S, in order
FilterTo(list, S) ==
  LET kept[n \in 0 .. Len(list)] ==
        IF n = 0 THEN <<>>
        ELSE IF list[n] \in S THEN Append(kept[n - 1], list[n]) ELSE kept[n - 1]
  IN  kept

Filter(list, S) == FilterTo(list, S)[Len(list)]

\* SumTo(list)[n]: the sum of the first n numbers of the list
SumTo(list) ==
  LET sum[n \in 0 .. Len(list)] == IF n = 0 THEN 0 ELSE sum[n - 1] + list[n]
  IN  sum

SumOf(list) == SumTo(list)[Len(list)]
=============================================================================
