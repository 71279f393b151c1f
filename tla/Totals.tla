------------------------------- MODULE Totals -------------------------------
(***************************************************************************)
(* Sums of functions over 1..N.  The contracts add amounts up in loops over *)
(* arrays of services, targets or nominees; RunningTotal is the accumulator *)
(* of such a loop and Total its final value.  The sum is written as a       *)
(* recursive function, so that the modules that use it can be proved about. *)
(***************************************************************************)
EXTENDS Integers

RunningTotal(f, N) ==
    LET s[n \in 0..N] == IF n = 0 THEN 0 ELSE s[n - 1] + f[n] IN s

Total(f, N) == RunningTotal(f, N)[N]

\* The total of f(i) over the members i of 1..N.
TotalOver(f(_), N) == Total([i \in 1..N |-> f(i)], N)
=============================================================================
