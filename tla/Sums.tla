--------------------------------- MODULE Sums ---------------------------------
(***************************************************************************)
(* The total of an integer function over 1..n.  Container, borrow and      *)
(* workbook ids are handed out by counters that start at 1                 *)
(* (container_manager.hpp, workbook_manager.hpp), so every total this      *)
(* project speaks of is a sum over such an interval.                       *)
(***************************************************************************)
EXTENDS Integers

(* s[k] is f[1] + ... + f[k]. *)
PartialSums(f, n) ==
  LET s[k \in 0..n] == IF k = 0 THEN 0 ELSE s[k - 1] + f[k]
  IN  s

SumUpTo(f, n) == PartialSums(f, n)[n]
===============================================================================
