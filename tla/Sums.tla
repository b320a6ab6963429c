-------------------------------- MODULE Sums --------------------------------
(***************************************************************************)
(* The sum of the first n values of a function that counts from 0, which   *)
(* is what the code adds up element by element.                            *)
(***************************************************************************)
EXTENDS Naturals

SumTo(f, n) ==
  LET sum[k \in 0 .. n] == IF k = 0 THEN 0 ELSE sum[k - 1] + f[k - 1]
  IN  sum[n]
=============================================================================
