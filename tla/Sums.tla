-------------------------------- MODULE Sums --------------------------------
(***************************************************************************)
(* Loops that add up counters.                                             *)
(***************************************************************************)
EXTENDS Integers

\* f[1] + ... + f[n]
Total(f, n) ==
    LET sum[i \in 0..n] == IF i = 0 THEN 0 ELSE sum[i - 1] + f[i]
    IN  sum[n]
=============================================================================
