-------------------------------- MODULE Sums --------------------------------
\* The sum of a list of numbers, as the scores of matching and of ATS take it.
EXTENDS Integers, Sequences

SumOf(numbers) ==
  LET sum[n \in 0..Len(numbers)] == IF n = 0 THEN 0 ELSE sum[n - 1] + numbers[n]
  IN  sum[Len(numbers)]
=============================================================================
