---------------------------------- MODULE Sums ----------------------------------
(* The sum of a list of numbers, as Python's sum() and += take it.          *)
EXTENDS Integers, Sequences

Sum(amounts) ==
  LET total[n \in 0 .. Len(amounts)] ==
        IF n = 0 THEN 0 ELSE total[n - 1] + amounts[n]
  IN  total[Len(amounts)]

=============================================================================
