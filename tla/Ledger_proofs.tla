----------------------------- MODULE Ledger_proofs -----------------------------
(***************************************************************************)
(* Every operation of a ledger keeps LedgerOK: its entries are positive    *)
(* claims or nothing, and its two counters are the sums of the claims.     *)
(* Before that, facts about SumUpTo for every length.  The library's       *)
(* induction theorems take the induction hypothesis as an operator; here   *)
(* induction is over a set of naturals instead, justified by the least     *)
(* element principle WFMin.                                                *)
(***************************************************************************)
EXTENDS Ledger, WellFoundedInduction, TLAPS

LessThan == {ss \in Nat \X Nat : ss[1] < ss[2]}

(***************************************************************************)
(* The order that the induction below descends along is well founded.      *)
(***************************************************************************)
LEMMA LessThanWellFounded == IsWellFoundedOn(LessThan, Nat)
BY Zenon, NatLessThanWellFounded DEF OpToRel, LessThan

(***************************************************************************)
(* A set of naturals that holds 0 and is closed under successor is Nat.    *)
(***************************************************************************)
LEMMA SetInduction ==
  ASSUME NEW T \in SUBSET Nat, 0 \in T, \A k \in T : k + 1 \in T
  PROVE  T = Nat
<1>1. SUFFICES ASSUME Nat \ T # {} PROVE FALSE
  OBVIOUS
<1>2. PICK x \in Nat \ T : \A y \in Nat \ T : ~ (<<y, x>> \in LessThan)
  <2>1. Nat \ T \subseteq Nat
    OBVIOUS
  <2> QED
    BY <1>1, <2>1, LessThanWellFounded, WFMin
<1>3. x - 1 \in Nat /\ (x - 1) + 1 = x
  OBVIOUS
<1>4. <<x - 1, x>> \in LessThan
  BY <1>3 DEF LessThan
<1> QED
  BY <1>2, <1>3, <1>4

-------------------------------------------------------------------------------
(***************************************************************************)
(* What PartialSums is meant to be: the function that starts at 0 and adds *)
(* one element per index.                                                  *)
(***************************************************************************)
IsPartialSums(s, f, n) ==
  /\ s \in [0..n -> Int]
  /\ s[0] = 0
  /\ \A k \in 1..n : s[k] = s[k - 1] + f[k]

(***************************************************************************)
(* Such a function exists for every length.                                *)
(***************************************************************************)
LEMMA PartialSumsExist ==
  ASSUME NEW n \in Nat, NEW f \in [1..n -> Int]
  PROVE  \E s : IsPartialSums(s, f, n)
<1> DEFINE T == {m \in Nat : m <= n => \E s : IsPartialSums(s, f, m)}
<1>1. 0 \in T
  <2>1. IsPartialSums([k \in 0..0 |-> 0], f, 0)
    BY DEF IsPartialSums
  <2> QED
    BY <2>1
<1>2. ASSUME NEW m \in T PROVE m + 1 \in T
  <2>1. SUFFICES ASSUME m + 1 <= n PROVE \E s : IsPartialSums(s, f, m + 1)
    OBVIOUS
  <2>2. PICK s : IsPartialSums(s, f, m)
    BY <2>1
  <2> DEFINE t == [k \in 0..(m + 1) |-> IF k = m + 1 THEN s[m] + f[k] ELSE s[k]]
  <2>3. IsPartialSums(t, f, m + 1)
    <3>1. t \in [0..(m + 1) -> Int]
      BY <2>1, <2>2 DEF IsPartialSums
    <3>2. t[0] = 0
      BY <2>2 DEF IsPartialSums
    <3>3. ASSUME NEW k \in 1..(m + 1) PROVE t[k] = t[k - 1] + f[k]
      <4>1. k \in 0..(m + 1) /\ k - 1 \in 0..(m + 1) /\ k - 1 # m + 1
        OBVIOUS
      <4>2. t[k - 1] = s[k - 1]
        BY <4>1
      <4>3. CASE k = m + 1
        BY <4>1, <4>2, <4>3
      <4>4. CASE k # m + 1
        <5>1. k \in 1..m
          BY <4>4
        <5>2. s[k] = s[k - 1] + f[k]
          BY <5>1, <2>2 DEF IsPartialSums
        <5> QED
          BY <4>1, <4>2, <4>4, <5>2
      <4> QED
        BY <4>3, <4>4
    <3> QED
      BY <3>1, <3>2, <3>3 DEF IsPartialSums
  <2> QED
    BY <2>3
<1>3. T = Nat
  <2> HIDE DEF T
  <2>1. T \in SUBSET Nat
    BY DEF T
  <2> QED
    BY <1>1, <1>2, <2>1, SetInduction
<1>4. n \in T
  BY <1>3
<1> QED
  BY <1>4

(***************************************************************************)
(* The recursive definition is that function.                              *)
(***************************************************************************)
LEMMA PartialSumsDef ==
  ASSUME NEW n \in Nat, NEW f \in [1..n -> Int]
  PROVE  IsPartialSums(PartialSums(f, n), f, n)
<1> DEFINE Eq(s) == s = [k \in 0..n |-> IF k = 0 THEN 0 ELSE s[k - 1] + f[k]]
<1>1. \E s : Eq(s)
  <2>1. PICK s : IsPartialSums(s, f, n)
    BY PartialSumsExist
  <2>2. Eq(s)
    BY <2>1 DEF IsPartialSums
  <2> QED
    BY <2>2
<1> DEFINE s == PartialSums(f, n)
<1>2. Eq(s)
  BY <1>1 DEF PartialSums
<1> HIDE DEF s
<1>3. /\ DOMAIN s = 0..n
      /\ s[0] = 0
      /\ \A k \in 1..n : s[k] = s[k - 1] + f[k]
  BY <1>2
<1>4. \A k \in 0..n : s[k] \in Int
  <2> DEFINE T == {m \in Nat : m <= n => s[m] \in Int}
  <2>1. 0 \in T
    BY <1>3
  <2>2. ASSUME NEW m \in T PROVE m + 1 \in T
    BY <1>3
  <2>3. T = Nat
    <3> HIDE DEF T
    <3>1. T \in SUBSET Nat
      BY DEF T
    <3> QED
      BY <2>1, <2>2, <3>1, SetInduction
  <2> QED
    BY <2>3
<1>5. s \in [0..n -> Int]
  BY <1>2, <1>3, <1>4
<1> QED
  BY <1>3, <1>5 DEF IsPartialSums, s

(***************************************************************************)
(* A total of integers is an integer.                                      *)
(***************************************************************************)
LEMMA SumType ==
  ASSUME NEW n \in Nat, NEW f \in [1..n -> Int]
  PROVE  SumUpTo(f, n) \in Int
BY PartialSumsDef DEF SumUpTo, IsPartialSums

(***************************************************************************)
(* Changing one element changes the total by the difference.               *)
(***************************************************************************)
LEMMA SumExcept ==
  ASSUME NEW n \in Nat, NEW f \in [1..n -> Int], NEW i \in 1..n, NEW v \in Int,
         NEW g \in [1..n -> Int], \A j \in 1..n : g[j] = IF j = i THEN v ELSE f[j]
  PROVE  SumUpTo(g, n) = SumUpTo(f, n) - f[i] + v
<1> DEFINE s == PartialSums(f, n)
           t == PartialSums(g, n)
           T == {m \in Nat : m <= n => t[m] = IF m < i THEN s[m] ELSE s[m] - f[i] + v}
<1>1. IsPartialSums(s, f, n) /\ IsPartialSums(t, g, n)
  BY PartialSumsDef
<1> HIDE DEF s, t
<1>2. 0 \in T
  BY <1>1 DEF IsPartialSums
<1>3. ASSUME NEW m \in T PROVE m + 1 \in T
  <2>1. SUFFICES ASSUME m + 1 <= n
                 PROVE  t[m + 1] = IF m + 1 < i THEN s[m + 1] ELSE s[m + 1] - f[i] + v
    OBVIOUS
  <2>2. m + 1 \in 1..n /\ m \in 0..n /\ (m + 1) - 1 = m
    BY <2>1
  <2>3. t[m + 1] = t[m] + g[m + 1] /\ s[m + 1] = s[m] + f[m + 1]
    BY <1>1, <2>2 DEF IsPartialSums
  <2>4. s[m] \in Int /\ t[m] \in Int /\ f[m + 1] \in Int /\ f[i] \in Int
    BY <1>1, <2>2 DEF IsPartialSums
  <2>5. t[m] = IF m < i THEN s[m] ELSE s[m] - f[i] + v
    BY <2>1
  <2>6. g[m + 1] = IF m + 1 = i THEN v ELSE f[m + 1]
    BY <2>2
  <2>7. i \in Int /\ m \in Int
    BY <2>2
  <2> HIDE DEF T
  <2>8. CASE m + 1 < i
    BY <2>3, <2>5, <2>6, <2>7, <2>8
  <2>9. CASE m + 1 = i
    <3>1. m < i /\ ~ m + 1 < i
      BY <2>7, <2>9
    <3>2. t[m + 1] = s[m] + v /\ s[m + 1] - f[i] = s[m]
      BY <3>1, <2>3, <2>4, <2>5, <2>6, <2>9
    <3> QED
      BY <3>1, <3>2
  <2>10. CASE i < m + 1
    <3>1. ~ m < i /\ ~ m + 1 < i /\ m + 1 # i
      BY <2>7, <2>10
    <3>2. t[m + 1] = (s[m] - f[i] + v) + f[m + 1] /\ s[m + 1] = s[m] + f[m + 1]
      BY <3>1, <2>3, <2>5, <2>6
    <3>3. t[m + 1] = s[m + 1] - f[i] + v
      BY <3>2, <2>4
    <3> QED
      BY <3>1, <3>3
  <2> QED
    BY <2>7, <2>8, <2>9, <2>10
<1>4. T = Nat
  <2> HIDE DEF T
  <2>1. T \in SUBSET Nat
    BY DEF T
  <2> QED
    BY <1>2, <1>3, <2>1, SetInduction
<1>5. n \in T
  BY <1>4
<1> QED
  BY <1>5 DEF s, t, SumUpTo

(***************************************************************************)
(* The total of naturals is no less than any of them.                      *)
(***************************************************************************)
LEMMA SumBounds ==
  ASSUME NEW n \in Nat, NEW f \in [1..n -> Int], \A k \in 1..n : f[k] >= 0
  PROVE  /\ SumUpTo(f, n) >= 0
         /\ \A k \in 1..n : f[k] <= SumUpTo(f, n)
<1> DEFINE s == PartialSums(f, n)
           T == {m \in Nat : m <= n => s[m] >= 0 /\ \A k \in 1..m : f[k] <= s[m]}
<1>1. IsPartialSums(s, f, n)
  BY PartialSumsDef
<1> HIDE DEF s
<1>2. 0 \in T
  BY <1>1 DEF IsPartialSums
<1>3. ASSUME NEW m \in T PROVE m + 1 \in T
  <2>1. SUFFICES ASSUME m + 1 <= n
                 PROVE  s[m + 1] >= 0 /\ \A k \in 1..(m + 1) : f[k] <= s[m + 1]
    OBVIOUS
  <2>2. m + 1 \in 1..n /\ m \in 0..n /\ (m + 1) - 1 = m
    BY <2>1
  <2>3. s[m + 1] = s[m] + f[m + 1] /\ s[m] \in Int /\ f[m + 1] \in Int
    BY <1>1, <2>2 DEF IsPartialSums
  <2>4. s[m] >= 0 /\ \A k \in 1..m : f[k] <= s[m]
    BY <2>1
  <2>5. ASSUME NEW k \in 1..(m + 1) PROVE f[k] <= s[m + 1]
    <3>1. k \in 1..n /\ f[k] \in Int /\ f[m + 1] >= 0
      BY <2>1, <2>2
    <3>2. k = m + 1 \/ k \in 1..m
      OBVIOUS
    <3> QED
      BY <2>3, <2>4, <3>1, <3>2
  <2> QED
    BY <2>2, <2>3, <2>4, <2>5
<1>4. T = Nat
  <2> HIDE DEF T
  <2>1. T \in SUBSET Nat
    BY DEF T
  <2> QED
    BY <1>2, <1>3, <2>1, SetInduction
<1>5. n \in T
  BY <1>4
<1> QED
  BY <1>5 DEF s, SumUpTo

(***************************************************************************)
(* The total of zeros is zero.                                             *)
(***************************************************************************)
LEMMA SumOfZeros ==
  ASSUME NEW n \in Nat, NEW f \in [1..n -> Int], \A k \in 1..n : f[k] = 0
  PROVE  SumUpTo(f, n) = 0
<1> DEFINE s == PartialSums(f, n)
           T == {m \in Nat : m <= n => s[m] = 0}
<1>1. IsPartialSums(s, f, n)
  BY PartialSumsDef
<1> HIDE DEF s
<1>2. 0 \in T
  BY <1>1 DEF IsPartialSums
<1>3. ASSUME NEW m \in T PROVE m + 1 \in T
  <2>1. SUFFICES ASSUME m + 1 <= n PROVE s[m + 1] = 0
    OBVIOUS
  <2>2. m + 1 \in 1..n /\ (m + 1) - 1 = m
    BY <2>1
  <2>3. s[m + 1] = s[m] + f[m + 1]
    BY <1>1, <2>2 DEF IsPartialSums
  <2> QED
    BY <2>1, <2>2, <2>3
<1>4. T = Nat
  <2> HIDE DEF T
  <2>1. T \in SUBSET Nat
    BY DEF T
  <2> QED
    BY <1>2, <1>3, <2>1, SetInduction
<1>5. n \in T
  BY <1>4
<1> QED
  BY <1>5 DEF s, SumUpTo

(***************************************************************************)
(* One more element adds its value to the total.                           *)
(***************************************************************************)
LEMMA SumExtend ==
  ASSUME NEW n \in Nat, NEW f \in [1..n -> Int], NEW g \in [1..(n + 1) -> Int],
         \A k \in 1..n : g[k] = f[k]
  PROVE  SumUpTo(g, n + 1) = SumUpTo(f, n) + g[n + 1]
<1> DEFINE s == PartialSums(f, n)
           t == PartialSums(g, n + 1)
           T == {m \in Nat : m <= n => t[m] = s[m]}
<1>1. IsPartialSums(s, f, n) /\ IsPartialSums(t, g, n + 1)
  BY PartialSumsDef
<1> HIDE DEF s, t
<1>2. 0 \in T
  BY <1>1 DEF IsPartialSums
<1>3. ASSUME NEW m \in T PROVE m + 1 \in T
  <2>1. SUFFICES ASSUME m + 1 <= n PROVE t[m + 1] = s[m + 1]
    OBVIOUS
  <2>2. m + 1 \in 1..n /\ m + 1 \in 1..(n + 1) /\ (m + 1) - 1 = m
    BY <2>1
  <2>3. t[m + 1] = t[m] + g[m + 1] /\ s[m + 1] = s[m] + f[m + 1]
    BY <1>1, <2>2 DEF IsPartialSums
  <2> QED
    BY <2>1, <2>2, <2>3
<1>4. T = Nat
  <2> HIDE DEF T
  <2>1. T \in SUBSET Nat
    BY DEF T
  <2> QED
    BY <1>2, <1>3, <2>1, SetInduction
<1>5. t[n] = s[n]
  <2>1. n \in T
    BY <1>4
  <2> QED
    BY <2>1
<1>6. t[n + 1] = t[n] + g[n + 1]
  <2>1. n + 1 \in 1..(n + 1) /\ (n + 1) - 1 = n
    OBVIOUS
  <2> QED
    BY <1>1, <2>1 DEF IsPartialSums
<1> QED
  BY <1>5, <1>6 DEF s, t, SumUpTo

-------------------------------------------------------------------------------
(* Quotients: what truncation leaves.                                      *)

\* A division by a positive number is whole.
LEMMA DivInt ==
  ASSUME NEW a \in Int, NEW b \in Nat \ {0}
  PROVE  a \div b \in Int
OBVIOUS

\* And of naturals natural.
LEMMA DivNat ==
  ASSUME NEW a \in Nat, NEW b \in Nat \ {0}
  PROVE  a \div b \in Nat
OBVIOUS

\* A factor that is positive can be taken away.
LEMMA LessFactor ==
  ASSUME NEW n \in Nat \ {0}, NEW a \in Int, NEW b \in Int, n * a < n * b
  PROVE  a < b
<1>1. SUFFICES ASSUME b <= a PROVE FALSE
  OBVIOUS
<1>2. a - b \in Nat /\ n * (a - b) = n * a - n * b
  BY <1>1
<1>3. n * (a - b) >= 0
  BY <1>2
<1> QED
  BY <1>2, <1>3

\* A positive multiple is no less.
LEMMA AtLeast ==
  ASSUME NEW a \in Nat \ {0}, NEW b \in Nat
  PROVE  a * b \in Nat /\ a * b >= b
<1>1. a - 1 \in Nat /\ a = (a - 1) + 1
  OBVIOUS
<1>2. PICK c \in Nat : a = c + 1
  BY <1>1
<1>3. c * b \in Nat /\ (c + 1) * b = c * b + b
  OBVIOUS
<1> QED
  BY <1>2, <1>3

\* What a quotient is.
LEMMA Quotient ==
  ASSUME NEW x \in Nat, NEW n \in Nat \ {0}
  PROVE  x \div n \in Nat /\ n * (x \div n) <= x /\ x < n * ((x \div n) + 1)
<1>1. x \div n \in Nat
  BY DivNat
<1>2. n * (x \div n) <= x
  OBVIOUS
<1>3. x < n * ((x \div n) + 1)
  OBVIOUS
<1> QED
  BY <1>1, <1>2, <1>3

\* There is nothing in a part of nothing.
LEMMA NoQuotient ==
  ASSUME NEW n \in Nat \ {0}
  PROVE  0 \div n = 0
<1>1. PICK q \in Nat : q = 0 \div n
  BY DivNat
<1>2. n * q <= 0
  BY <1>1, Quotient
<1>3. q # 0 => n * q >= n
  <2>1. q # 0 => q \in Nat \ {0} /\ n * q = q * n
    OBVIOUS
  <2> QED
    BY <2>1, AtLeast
<1> QED
  BY <1>1, <1>2, <1>3

\* It grows with what is divided, and by no more.
LEMMA QuotientGrows ==
  ASSUME NEW x \in Nat, NEW y \in Nat, NEW n \in Nat \ {0}
  PROVE  x \div n <= (x + y) \div n /\ (x + y) \div n <= (x \div n) + y
<1> DEFINE p == x \div n
           q == (x + y) \div n
<1>1. x + y \in Nat
  OBVIOUS
<1>2. p \in Nat /\ n * p <= x /\ x < n * (p + 1)
  BY Quotient
<1>3. q \in Nat /\ n * q <= x + y /\ x + y < n * (q + 1)
  BY <1>1, Quotient
<1> HIDE DEF p, q
<1>4. p <= q
  <2>1. n * p < n * (q + 1)
    BY <1>2, <1>3
  <2>2. p < q + 1
    BY <1>2, <1>3, <2>1, LessFactor
  <2> QED
    BY <1>2, <1>3, <2>2
<1>5. q <= p + y
  <2>1. n * (p + 1 + y) = n * (p + 1) + n * y /\ n * y >= y
    BY <1>2, AtLeast
  <2>2. n * q \in Int /\ n * (p + 1) \in Int /\ n * y \in Int /\ n * (p + 1 + y) \in Int
    BY <1>2, <1>3
  <2>3. n * q < n * (p + 1 + y)
    BY <1>2, <1>3, <2>1, <2>2
  <2>4. q < p + 1 + y
    BY <1>2, <1>3, <2>3, LessFactor
  <2> QED
    BY <1>2, <1>3, <2>4
<1> QED
  BY <1>4, <1>5 DEF p, q

\* The quotient of a sum is that of its parts, or one more.
LEMMA QuotientSplits ==
  ASSUME NEW x \in Nat, NEW y \in Nat, NEW n \in Nat \ {0}
  PROVE  /\ (x \div n) + (y \div n) <= (x + y) \div n
         /\ (x + y) \div n <= (x \div n) + (y \div n) + 1
<1> DEFINE p == x \div n
           q == y \div n
           r == (x + y) \div n
<1>1. x + y \in Nat
  OBVIOUS
<1>2. p \in Nat /\ n * p <= x /\ x < n * (p + 1)
  BY Quotient
<1>3. q \in Nat /\ n * q <= y /\ y < n * (q + 1)
  BY Quotient
<1>4. r \in Nat /\ n * r <= x + y /\ x + y < n * (r + 1)
  BY <1>1, Quotient
<1> HIDE DEF p, q, r
<1>5. p + q <= r
  <2>1. n * (p + q) = n * p + n * q
    BY <1>2, <1>3
  <2>2. n * p \in Int /\ n * q \in Int /\ n * (p + q) \in Int /\ n * (r + 1) \in Int
    BY <1>2, <1>3, <1>4
  <2>3. n * (p + q) < n * (r + 1)
    BY <1>2, <1>3, <1>4, <2>1, <2>2
  <2>4. p + q < r + 1
    BY <1>2, <1>3, <1>4, <2>3, LessFactor
  <2> QED
    BY <1>2, <1>3, <1>4, <2>4
<1>6. r <= p + q + 1
  <2>1. n * (p + q + 2) = n * (p + 1) + n * (q + 1)
    BY <1>2, <1>3
  <2>2. /\ n * (p + 1) \in Int /\ n * (q + 1) \in Int
        /\ n * (p + q + 2) \in Int /\ n * r \in Int
    BY <1>2, <1>3, <1>4
  <2>3. n * r < n * (p + q + 2)
    BY <1>2, <1>3, <1>4, <2>1, <2>2
  <2>4. r < p + q + 2
    BY <1>2, <1>3, <1>4, <2>3, LessFactor
  <2> QED
    BY <1>2, <1>3, <1>4, <2>4
<1> QED
  BY <1>5, <1>6 DEF p, q, r

-------------------------------------------------------------------------------
(* The operations of a ledger.                                            *)

(***************************************************************************)
(* The functions that are summed have integer values.                      *)
(***************************************************************************)
LEMMA PrincipalTypes ==
  ASSUME NEW l \in LedgerState
  PROVE  /\ RealPrincipal(l) \in [1..MaxContainers -> Int]
         /\ PaperPrincipal(l) \in [1..MaxContainers -> Int]
<1>1. ASSUME NEW c \in ContainerIds
      PROVE  l.allocs[c].real \in BOOLEAN /\ l.allocs[c].principal \in Int
  BY DEF LedgerState, Allocation
<1> QED
  BY <1>1 DEF ContainerIds, RealPrincipal, PaperPrincipal

(***************************************************************************)
(* Replacing one allocation changes each sum by what that allocation adds. *)
(***************************************************************************)
LEMMA ReplaceAllocation ==
  ASSUME NEW l \in LedgerState, NEW c \in ContainerIds, NEW a \in Allocation,
         NEW k \in LedgerState, k.allocs[c] = a,
         \A i \in ContainerIds \ {c} : k.allocs[i] = l.allocs[i]
  PROVE  /\ SumUpTo(RealPrincipal(k), MaxContainers)
              = SumUpTo(RealPrincipal(l), MaxContainers)
                - (IF l.allocs[c].real THEN l.allocs[c].principal ELSE 0)
                + (IF a.real THEN a.principal ELSE 0)
         /\ SumUpTo(PaperPrincipal(k), MaxContainers)
              = SumUpTo(PaperPrincipal(l), MaxContainers)
                - (IF l.allocs[c].real THEN 0 ELSE l.allocs[c].principal)
                + (IF a.real THEN 0 ELSE a.principal)
<1> DEFINE rv == IF a.real THEN a.principal ELSE 0
           pv == IF a.real THEN 0 ELSE a.principal
           rl == RealPrincipal(l)
           pl == PaperPrincipal(l)
           rk == RealPrincipal(k)
           pk == PaperPrincipal(k)
<1>1. rv \in Int /\ pv \in Int
  BY DEF Allocation
<1>2. /\ rl \in [1..MaxContainers -> Int] /\ pl \in [1..MaxContainers -> Int]
      /\ rk \in [1..MaxContainers -> Int] /\ pk \in [1..MaxContainers -> Int]
  BY PrincipalTypes
<1>3. /\ \A i \in 1..MaxContainers : rk[i] = IF i = c THEN rv ELSE rl[i]
      /\ \A i \in 1..MaxContainers : pk[i] = IF i = c THEN pv ELSE pl[i]
  <2> SUFFICES ASSUME NEW i \in 1..MaxContainers
               PROVE  /\ rk[i] = IF i = c THEN rv ELSE rl[i]
                      /\ pk[i] = IF i = c THEN pv ELSE pl[i]
    OBVIOUS
  <2>1. k.allocs[i] = IF i = c THEN a ELSE l.allocs[i]
    BY DEF ContainerIds
  <2> QED
    BY <2>1 DEF ContainerIds, RealPrincipal, PaperPrincipal
<1>4. /\ rl[c] = IF l.allocs[c].real THEN l.allocs[c].principal ELSE 0
      /\ pl[c] = IF l.allocs[c].real THEN 0 ELSE l.allocs[c].principal
  BY DEF RealPrincipal, PaperPrincipal
<1>5. MaxContainers \in Nat /\ c \in 1..MaxContainers
  BY MaxContainersAssumption DEF ContainerIds
<1> HIDE DEF rv, pv, rl, pl, rk, pk
<1>6. SumUpTo(rk, MaxContainers) = SumUpTo(rl, MaxContainers) - rl[c] + rv
  BY <1>1, <1>2, <1>3, <1>5, SumExcept
<1>7. SumUpTo(pk, MaxContainers) = SumUpTo(pl, MaxContainers) - pl[c] + pv
  BY <1>1, <1>2, <1>3, <1>5, SumExcept
<1> QED
  BY <1>4, <1>6, <1>7 DEF rv, pv, rl, pl, rk, pk

(***************************************************************************)
(* The sums of a ledger are integers.                                      *)
(***************************************************************************)
LEMMA PrincipalSumTypes ==
  ASSUME NEW l \in LedgerState
  PROVE  /\ SumUpTo(RealPrincipal(l), MaxContainers) \in Int
         /\ SumUpTo(PaperPrincipal(l), MaxContainers) \in Int
BY PrincipalTypes, MaxContainersAssumption, SumType

(***************************************************************************)
(* A new ledger has no claims and its counters say so.                     *)
(***************************************************************************)
LEMMA NewLedgerOK ==
  ASSUME NEW amount \in Int
  PROVE  LedgerOK(NewLedger(amount))
<1> DEFINE l == NewLedger(amount)
<1>1. l \in LedgerState
  BY DEF NewLedger, LedgerState, Allocation, NoAllocation
<1>2. ClaimsWellFormed(l)
  BY DEF ClaimsWellFormed, NewLedger, NoAllocation
<1>3. \A c \in 1..MaxContainers : RealPrincipal(l)[c] = 0 /\ PaperPrincipal(l)[c] = 0
  BY DEF RealPrincipal, PaperPrincipal, NewLedger, NoAllocation, ContainerIds
<1>4. l.allocated = 0 /\ l.paper = 0
  BY DEF NewLedger
<1> HIDE DEF l
<1>5. CountersMatch(l)
  BY <1>1, <1>3, <1>4, PrincipalTypes, SumOfZeros, MaxContainersAssumption DEF CountersMatch
<1> QED
  BY <1>1, <1>2, <1>5 DEF LedgerOK, l

(***************************************************************************)
(* take keeps the ledger well formed.                                      *)
(***************************************************************************)
LEMMA TakeKeepsLedgerOK ==
  ASSUME NEW l, LedgerOK(l), NEW c \in ContainerIds, NEW amount \in Int, NEW mode \in Modes,
         TakeOk(l, c, amount, mode)
  PROVE  LedgerOK(Take(l, c, amount, mode))
<1> DEFINE a == [held |-> TRUE, principal |-> amount, real |-> mode = "Real"]
           k == Take(l, c, amount, mode)
<1>1. /\ l \in LedgerState /\ l.allocs \in [ContainerIds -> Allocation]
      /\ a \in Allocation /\ l.allocs[c] = NoAllocation /\ amount > 0
  BY DEF LedgerOK, LedgerState, ClaimsWellFormed, TakeOk, Allocation
<1>2. /\ k \in LedgerState
      /\ k.allocs = [l.allocs EXCEPT ![c] = a]
      /\ k.allocated = IF a.real THEN l.allocated + amount ELSE l.allocated
      /\ k.paper = IF a.real THEN l.paper ELSE l.paper + amount
  <2>1. k.allocs = [l.allocs EXCEPT ![c] = a]
    BY <1>1 DEF Take, LedgerState
  <2>2. k.allocs \in [ContainerIds -> Allocation]
    BY <1>1, <2>1
  <2>4. /\ k.borrowed \in Int /\ k.available \in Int /\ k.allocated \in Int
        /\ k.paper \in Int /\ k.realized \in Int
    BY <1>1 DEF Take, LedgerState
  <2>5. k = [borrowed |-> k.borrowed, available |-> k.available, allocated |-> k.allocated,
              paper |-> k.paper, realized |-> k.realized, allocs |-> k.allocs]
    BY <1>1 DEF Take, LedgerState
  <2>6. k \in LedgerState
    BY <2>2, <2>4, <2>5 DEF LedgerState
  <2>7. /\ k.allocated = IF a.real THEN l.allocated + amount ELSE l.allocated
        /\ k.paper = IF a.real THEN l.paper ELSE l.paper + amount
    BY <1>1 DEF Take, LedgerState
  <2> QED
    BY <2>1, <2>6, <2>7
<1>3. k.allocs[c] = a /\ \A i \in ContainerIds \ {c} : k.allocs[i] = l.allocs[i]
  BY <1>1, <1>2
<1>4. ClaimsWellFormed(k)
  BY <1>1, <1>3 DEF LedgerOK, ClaimsWellFormed
<1>5. CountersMatch(l)
  BY DEF LedgerOK
<1> HIDE DEF k
<1>6. /\ SumUpTo(RealPrincipal(k), MaxContainers)
           = SumUpTo(RealPrincipal(l), MaxContainers) + (IF a.real THEN amount ELSE 0)
      /\ SumUpTo(PaperPrincipal(k), MaxContainers)
           = SumUpTo(PaperPrincipal(l), MaxContainers) + (IF a.real THEN 0 ELSE amount)
  BY <1>1, <1>2, <1>3, ReplaceAllocation, PrincipalSumTypes DEF NoAllocation
<1>7. CountersMatch(k)
  BY <1>1, <1>2, <1>5, <1>6, PrincipalSumTypes DEF CountersMatch
<1> QED
  BY <1>2, <1>4, <1>7 DEF LedgerOK, k

(***************************************************************************)
(* commit_real keeps the ledger well formed.                               *)
(***************************************************************************)
LEMMA CommitRealKeepsLedgerOK ==
  ASSUME NEW l, LedgerOK(l), NEW c \in ContainerIds, CommitRealOk(l, c)
  PROVE  LedgerOK(CommitReal(l, c))
<1> DEFINE p == l.allocs[c].principal
           a == [l.allocs[c] EXCEPT !.real = TRUE]
           k == CommitReal(l, c)
<1>1. /\ l \in LedgerState /\ l.allocs \in [ContainerIds -> Allocation]
      /\ l.allocs[c] \in Allocation
      /\ l.allocs[c].held /\ ~ l.allocs[c].real
  BY DEF LedgerOK, LedgerState, CommitRealOk
<1>2. p \in Int /\ p > 0
  BY <1>1 DEF LedgerOK, ClaimsWellFormed, Allocation
<1>3. a \in Allocation /\ a.held /\ a.real /\ a.principal = p
  BY <1>1 DEF Allocation
<1>4. /\ k \in LedgerState
      /\ k.allocs = [l.allocs EXCEPT ![c] = a]
      /\ k.allocated = l.allocated + p
      /\ k.paper = l.paper - p
  <2>1. k.allocs = [l.allocs EXCEPT ![c].real = TRUE]
    BY <1>1 DEF CommitReal, LedgerState
  <2>2. [l.allocs EXCEPT ![c].real = TRUE] = [l.allocs EXCEPT ![c] = a]
    OBVIOUS
  <2>3. k.allocs \in [ContainerIds -> Allocation]
    BY <1>1, <1>3, <2>1, <2>2
  <2>4. /\ k.borrowed \in Int /\ k.available \in Int /\ k.allocated \in Int
        /\ k.paper \in Int /\ k.realized \in Int
    BY <1>1, <1>2 DEF CommitReal, LedgerState
  <2>5. k = [borrowed |-> k.borrowed, available |-> k.available, allocated |-> k.allocated,
              paper |-> k.paper, realized |-> k.realized, allocs |-> k.allocs]
    <3> DEFINE m == [l.allocs EXCEPT ![c] = [@ EXCEPT !.real = TRUE]]
    <3>1. k = [l EXCEPT !.available = @ - p, !.paper = @ - p, !.allocated = @ + p, !.allocs = m]
      BY DEF CommitReal
    <3> HIDE DEF k, m, p
    <3> QED
      BY <1>1, <3>1 DEF LedgerState
  <2>6. k \in LedgerState
    BY <2>3, <2>4, <2>5 DEF LedgerState
  <2>7. k.allocated = l.allocated + p /\ k.paper = l.paper - p
    BY <1>1, <1>2 DEF CommitReal, LedgerState
  <2> QED
    BY <2>1, <2>2, <2>6, <2>7
<1>5. k.allocs[c] = a /\ \A i \in ContainerIds \ {c} : k.allocs[i] = l.allocs[i]
  BY <1>1, <1>4
<1> HIDE DEF a
<1>6. ClaimsWellFormed(k)
  BY <1>2, <1>3, <1>5 DEF LedgerOK, ClaimsWellFormed
<1>7. CountersMatch(l)
  BY DEF LedgerOK
<1> HIDE DEF k
<1>8. /\ SumUpTo(RealPrincipal(k), MaxContainers)
           = SumUpTo(RealPrincipal(l), MaxContainers) + p
      /\ SumUpTo(PaperPrincipal(k), MaxContainers)
           = SumUpTo(PaperPrincipal(l), MaxContainers) - p
  BY <1>1, <1>2, <1>3, <1>4, <1>5, ReplaceAllocation, PrincipalSumTypes
<1>9. CountersMatch(k)
  BY <1>1, <1>2, <1>4, <1>7, <1>8, PrincipalSumTypes DEF CountersMatch
<1> QED
  BY <1>4, <1>6, <1>9 DEF LedgerOK, k

(***************************************************************************)
(* give_back keeps the ledger well formed, whatever comes back.            *)
(***************************************************************************)
LEMMA GiveBackKeepsLedgerOK ==
  ASSUME NEW l, LedgerOK(l), NEW c \in ContainerIds, GiveBackOk(l, c), NEW value \in Int
  PROVE  LedgerOK(GiveBack(l, c, value))
<1> DEFINE p == l.allocs[c].principal
           r == l.allocs[c].real
           k == GiveBack(l, c, value)
<1>1. /\ l \in LedgerState /\ l.allocs \in [ContainerIds -> Allocation]
      /\ NoAllocation \in Allocation /\ ~ NoAllocation.held /\ ~ NoAllocation.real
      /\ NoAllocation.principal = 0
  BY DEF LedgerOK, LedgerState, Allocation, NoAllocation
<1>2. p \in Int /\ r \in BOOLEAN
  BY <1>1 DEF Allocation
<1>3. /\ k \in LedgerState
      /\ k.allocs = [l.allocs EXCEPT ![c] = NoAllocation]
      /\ k.allocated = IF r THEN l.allocated - p ELSE l.allocated
      /\ k.paper = IF r THEN l.paper ELSE l.paper - p
  <2>1. k.allocs = [l.allocs EXCEPT ![c] = NoAllocation]
    BY <1>1 DEF GiveBack, LedgerState
  <2>2. k.allocs \in [ContainerIds -> Allocation]
    BY <1>1, <2>1
  <2>4. /\ k.borrowed \in Int /\ k.available \in Int /\ k.allocated \in Int
        /\ k.paper \in Int /\ k.realized \in Int
    BY <1>1, <1>2 DEF GiveBack, LedgerState
  <2>5. k = [borrowed |-> k.borrowed, available |-> k.available, allocated |-> k.allocated,
              paper |-> k.paper, realized |-> k.realized, allocs |-> k.allocs]
    BY <1>1, <1>2 DEF GiveBack, LedgerState
  <2>6. k \in LedgerState
    BY <2>2, <2>4, <2>5 DEF LedgerState
  <2>7. /\ k.allocated = IF r THEN l.allocated - p ELSE l.allocated
        /\ k.paper = IF r THEN l.paper ELSE l.paper - p
    BY <1>1, <1>2 DEF GiveBack, LedgerState
  <2> QED
    BY <2>1, <2>6, <2>7
<1>4. k.allocs[c] = NoAllocation /\ \A i \in ContainerIds \ {c} : k.allocs[i] = l.allocs[i]
  BY <1>1, <1>3
<1>5. ClaimsWellFormed(k)
  BY <1>1, <1>4 DEF LedgerOK, ClaimsWellFormed
<1>6. CountersMatch(l)
  BY DEF LedgerOK
<1> HIDE DEF k
<1>7. /\ SumUpTo(RealPrincipal(k), MaxContainers)
           = SumUpTo(RealPrincipal(l), MaxContainers) - (IF r THEN p ELSE 0)
      /\ SumUpTo(PaperPrincipal(k), MaxContainers)
           = SumUpTo(PaperPrincipal(l), MaxContainers) - (IF r THEN 0 ELSE p)
  BY <1>1, <1>2, <1>3, <1>4, ReplaceAllocation, PrincipalSumTypes
<1>8. CountersMatch(k)
  BY <1>1, <1>2, <1>3, <1>6, <1>7, PrincipalSumTypes DEF CountersMatch
<1> QED
  BY <1>3, <1>5, <1>8 DEF LedgerOK, k

(***************************************************************************)
(* A well-formed ledger is settled exactly when nothing is held: positive  *)
(* claims cannot cancel out in the counters settled() looks at.            *)
(***************************************************************************)
LEMMA SettledIffNothingHeld ==
  ASSUME NEW l, LedgerOK(l)
  PROVE  Settled(l) <=> \A c \in ContainerIds : ~ l.allocs[c].held
<1>1. /\ l \in LedgerState /\ ClaimsWellFormed(l) /\ CountersMatch(l)
      /\ RealPrincipal(l) \in [1..MaxContainers -> Int]
      /\ PaperPrincipal(l) \in [1..MaxContainers -> Int]
  BY PrincipalTypes DEF LedgerOK
<1>2. \A c \in 1..MaxContainers :
        /\ RealPrincipal(l)[c] >= 0
        /\ PaperPrincipal(l)[c] >= 0
        /\ l.allocs[c].held => RealPrincipal(l)[c] > 0 \/ PaperPrincipal(l)[c] > 0
        /\ ~ l.allocs[c].held => RealPrincipal(l)[c] = 0 /\ PaperPrincipal(l)[c] = 0
  BY <1>1 DEF ClaimsWellFormed, RealPrincipal, PaperPrincipal, NoAllocation,
              LedgerState, Allocation, ContainerIds
<1>3. ASSUME Settled(l), NEW c \in ContainerIds PROVE ~ l.allocs[c].held
  <2>1. /\ RealPrincipal(l)[c] <= l.allocated
        /\ PaperPrincipal(l)[c] <= l.paper
    BY <1>1, <1>2, SumBounds, MaxContainersAssumption DEF CountersMatch, ContainerIds
  <2>2. RealPrincipal(l)[c] <= 0 /\ PaperPrincipal(l)[c] <= 0
    BY <1>3, <2>1 DEF Settled
  <2> QED
    BY <1>1, <1>2, <2>2 DEF ContainerIds
<1>4. ASSUME \A c \in ContainerIds : ~ l.allocs[c].held PROVE Settled(l)
  BY <1>1, <1>2, <1>4, SumOfZeros, MaxContainersAssumption
     DEF Settled, CountersMatch, ContainerIds
<1> QED
  BY <1>3, <1>4
===============================================================================
