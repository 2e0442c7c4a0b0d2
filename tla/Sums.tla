-------------------------------- MODULE Sums --------------------------------
(***************************************************************************)
(* The sum of a sequence of natural numbers, and the sums on the way to    *)
(* it: what a file or an event of several parts amounts to.                *)
(***************************************************************************)
EXTENDS Naturals, Sequences

PartialSums(numbers) ==
    LET sum[n \in 0..Len(numbers)] == IF n = 0 THEN 0 ELSE sum[n - 1] + numbers[n]
    IN  sum
SumOf(numbers) == PartialSums(numbers)[Len(numbers)]
=============================================================================
