------------------------------ MODULE Folding ------------------------------
(***************************************************************************)
(* What the folds of the community modules compute.  They are defined by a *)
(* recursive function on the subsets of a finite set; its existence and    *)
(* what it keeps invariant are proved here, for step functions that are    *)
(* sets, by way of a least counterexample.                                 *)
(***************************************************************************)
EXTENDS Integers, FiniteSetsExt, FiniteSetTheorems, WellFoundedInduction, TLAPS

LEMMA LeastOf ==
    ASSUME NEW S \in SUBSET Nat, S # {}
    PROVE  \E x \in S : \A y \in S : x <= y
<1> DEFINE R == OpToRel(<, Nat)
<1>1. IsWellFoundedOn(R, Nat) BY NatLessThanWellFounded
<1>2. \A x, y \in Nat : y < x => <<y, x>> \in R BY DEF OpToRel
<1> HIDE DEF R
<1>3. PICK x \in S : \A y \in S : ~(<<y, x>> \in R) BY <1>1, WFMin
<1>4. \A y \in S : ~(y < x) BY <1>2, <1>3
<1> QED BY <1>4

(* A set of numbers with 0 and the successors of its members is Nat.       *)
LEMMA Induct ==
    ASSUME NEW P, 0 \in P, \A n \in Nat : n \in P => n + 1 \in P
    PROVE  Nat \subseteq P
<1> DEFINE missing == Nat \ P
<1> SUFFICES ASSUME missing # {} PROVE FALSE
  OBVIOUS
<1>1. PICK n \in missing : \A m \in missing : n <= m BY LeastOf
<1>2. n # 0 /\ n - 1 \in Nat BY <1>1
<1>3. n - 1 \in P BY <1>1, <1>2
<1>4. (n - 1) + 1 \in P BY <1>2, <1>3
<1> QED BY <1>1, <1>4

(* f folds step over the subsets of S, with pick the choice of members.    *)
IsFold(f, S, T, base, step, pick) ==
    /\ f \in [SUBSET S -> T]
    /\ \A s \in SUBSET S :
          f[s] = IF s = {} THEN base ELSE step[<<pick[s], f[s \ {pick[s]}]>>]

Picks(pick, S) == \A s \in SUBSET S : s # {} => pick[s] \in s

(* The recursion of MapThenFoldSet has a solution.                         *)
LEMMA FoldExists ==
    ASSUME NEW S, IsFiniteSet(S), NEW T, NEW base \in T, NEW step \in [S \X T -> T],
           NEW pick, Picks(pick, S)
    PROVE  \E f : IsFold(f, S, T, base, step, pick)
<1> DEFINE Upto(n) == {s \in SUBSET S : Cardinality(s) <= n}
           Solves(f, D) == \A s \in D :
              f[s] = IF s = {} THEN base ELSE step[<<pick[s], f[s \ {pick[s]}]>>]
           solved == {n \in Nat : \E f \in [Upto(n) -> T] : Solves(f, Upto(n))}
<1>0. \A s \in SUBSET S : s # {} => pick[s] \in s BY DEF Picks
<1>1. \A s \in SUBSET S : IsFiniteSet(s) /\ Cardinality(s) \in Nat
  BY FS_Subset, FS_CardinalityType
<1>2. \A s \in SUBSET S : s # {} =>
         /\ Cardinality(s) # 0
         /\ s \ {pick[s]} \in SUBSET S /\ Cardinality(s \ {pick[s]}) = Cardinality(s) - 1
  BY <1>0, <1>1, FS_EmptySet, FS_RemoveElement
<1>3. 0 \in solved
  <2> DEFINE f == [s \in Upto(0) |-> base]
  <2>1. ASSUME NEW s \in Upto(0) PROVE s = {}
    <3>1. s \in SUBSET S /\ Cardinality(s) = 0 BY <1>1
    <3> QED BY <1>2, <3>1
  <2>2. Solves(f, Upto(0)) BY <2>1
  <2>3. f \in [Upto(0) -> T] OBVIOUS
  <2> HIDE DEF f, Upto
  <2> QED BY <2>2, <2>3
<1>4. ASSUME NEW n \in Nat, n \in solved PROVE n + 1 \in solved
  <2>1. PICK f \in [Upto(n) -> T] : Solves(f, Upto(n)) BY <1>4
  <2> DEFINE g == [s \in Upto(n + 1) |->
                     IF s = {} THEN base ELSE step[<<pick[s], f[s \ {pick[s]}]>>]]
  <2>2. \A s \in Upto(n + 1) : s # {} => s \ {pick[s]} \in Upto(n) BY <1>1, <1>2
  <2>3. Upto(n) \subseteq Upto(n + 1) BY <1>1
  <2>4. \A s \in Upto(n) : g[s] = f[s] BY <2>1, <2>3
  <2>5. g \in [Upto(n + 1) -> T]
    <3>1. ASSUME NEW s \in Upto(n + 1), s # {}
          PROVE  step[<<pick[s], f[s \ {pick[s]}]>>] \in T
      <4>1. pick[s] \in S /\ f[s \ {pick[s]}] \in T BY <1>0, <2>1, <2>2, <3>1
      <4> QED BY <4>1
    <3> QED BY <3>1
  <2>6. Solves(g, Upto(n + 1)) BY <2>2, <2>4
  <2> HIDE DEF g, Upto, Solves
  <2>7. \E h \in [Upto(n + 1) -> T] : Solves(h, Upto(n + 1)) BY <2>5, <2>6
  <2> QED BY <2>7
<1>5. Cardinality(S) \in solved
  <2> HIDE DEF solved
  <2> QED BY <1>1, <1>3, <1>4, Induct
<1>6. Upto(Cardinality(S)) = SUBSET S
  <2>1. \A s \in SUBSET S : Cardinality(s) <= Cardinality(S) BY FS_Subset
  <2> QED BY <2>1
<1> QED BY <1>5, <1>6 DEF IsFold

(* A fold over a sequence takes its indices from the last down.            *)
LEMMA TopIndex ==
    ASSUME NEW n \in Nat, NEW i \in 1..n
    PROVE  /\ Max(1..i) = i /\ (1..i) \ {i} = 1..(i - 1)
           /\ 1..i \in SUBSET (1..n) /\ 1..i # {}
<1>1. i \in 1..i /\ \A j \in 1..i : i >= j OBVIOUS
<1>2. \A m \in 1..i : (\A j \in 1..i : m >= j) => m = i
  <2> SUFFICES ASSUME NEW m \in 1..i, \A j \in 1..i : m >= j PROVE m = i
    OBVIOUS
  <2>1. m >= i BY <1>1
  <2> QED BY <2>1
<1>3. Max(1..i) = i BY <1>1, <1>2 DEF Max
<1> QED BY <1>3

LEMMA MaxIn ==
    ASSUME NEW n \in Nat, NEW s \in SUBSET (1..n), s # {}
    PROVE  Max(s) \in s /\ \A i \in s : Max(s) >= i
<1> DEFINE T == {n - i : i \in s}
<1>1. T \in SUBSET Nat /\ T # {}
  <2>1. \A i \in s : n - i \in Nat OBVIOUS
  <2> QED BY <2>1
<1>2. PICK t \in T : \A u \in T : t <= u BY <1>1, LeastOf
<1>3. PICK x \in s : t = n - x OBVIOUS
<1>4. \A i \in s : x >= i
  <2> TAKE i \in s
  <2>1. n - x <= n - i BY <1>2, <1>3
  <2> QED BY <2>1
<1> QED BY <1>4 DEF Max

-----------------------------------------------------------------------------
(* Sums over finite sets *)

(* What holds of a subset once it holds of all smaller ones, holds of all.  *)
LEMMA InductOnSubsets ==
    ASSUME NEW S, IsFiniteSet(S), NEW P,
           \A s \in SUBSET S :
              (\A t \in SUBSET S : Cardinality(t) < Cardinality(s) => t \in P) => s \in P
    PROVE  SUBSET S \subseteq P
<1> DEFINE missing == (SUBSET S) \ P
           sizes == {Cardinality(s) : s \in missing}
<1> SUFFICES ASSUME missing # {} PROVE FALSE
  OBVIOUS
<1>1. \A s \in SUBSET S : Cardinality(s) \in Nat BY FS_Subset, FS_CardinalityType
<1>2. sizes \in SUBSET Nat /\ sizes # {} BY <1>1
<1>3. PICK n \in sizes : \A m \in sizes : n <= m
  <2> HIDE DEF sizes
  <2> QED BY <1>2, LeastOf
<1>4. PICK s \in missing : n = Cardinality(s) OBVIOUS
<1>5. \A t \in SUBSET S : Cardinality(t) < Cardinality(s) => t \in P
  <2> SUFFICES ASSUME NEW t \in SUBSET S, Cardinality(t) < Cardinality(s), t \notin P
               PROVE  FALSE
    OBVIOUS
  <2>1. n <= Cardinality(t) BY <1>3
  <2> QED BY <1>1, <1>4, <2>1
<1> QED BY <1>4, <1>5

Some(s) == CHOOSE x \in s : TRUE

(* f sums the weights w over the subsets of S.                             *)
Totals(f, S, w) ==
    \A s \in SUBSET S : f[s] = IF s = {} THEN 0 ELSE f[s \ {Some(s)}] + w[Some(s)]

LEMMA SmallerSet ==
    ASSUME NEW S, IsFiniteSet(S), NEW s \in SUBSET S, NEW x \in s
    PROVE  /\ s \ {x} \in SUBSET S /\ x \in S
           /\ Cardinality(s \ {x}) < Cardinality(s)
<1>1. IsFiniteSet(s) /\ Cardinality(s) \in Nat BY FS_Subset, FS_CardinalityType
<1>2. Cardinality(s \ {x}) = Cardinality(s) - 1 BY <1>1, FS_RemoveElement
<1> QED BY <1>1, <1>2

LEMMA TotalsAreNat ==
    ASSUME NEW S, IsFiniteSet(S), NEW f, NEW w, \A x \in S : w[x] \in Nat, Totals(f, S, w)
    PROVE  \A s \in SUBSET S : f[s] \in Nat
<1> DEFINE P == {s \in SUBSET S : f[s] \in Nat}
<1>1. ASSUME NEW s \in SUBSET S, \A t \in SUBSET S : Cardinality(t) < Cardinality(s) => t \in P
      PROVE  s \in P
  <2>1. CASE s = {}
    <3>1. f[{}] = 0 BY DEF Totals
    <3> QED BY <2>1, <3>1
  <2>2. CASE s # {}
    <3>1. Some(s) \in s BY <2>2 DEF Some
    <3>2. s \ {Some(s)} \in P /\ w[Some(s)] \in Nat BY <1>1, <3>1, SmallerSet
    <3>3. f[s] = f[s \ {Some(s)}] + w[Some(s)] BY <2>2 DEF Totals
    <3> QED BY <3>2, <3>3
  <2> QED BY <2>1, <2>2
<1>2. SUBSET S \subseteq P
  <2> HIDE DEF P
  <2> QED BY <1>1, InductOnSubsets
<1> QED BY <1>2

LEMMA TotalsAgree ==
    ASSUME NEW S, IsFiniteSet(S), NEW f, NEW g, NEW w, Totals(f, S, w), Totals(g, S, w)
    PROVE  \A s \in SUBSET S : f[s] = g[s]
<1> DEFINE P == {s \in SUBSET S : f[s] = g[s]}
<1>1. ASSUME NEW s \in SUBSET S, \A t \in SUBSET S : Cardinality(t) < Cardinality(s) => t \in P
      PROVE  s \in P
  <2>1. CASE s = {} BY <2>1 DEF Totals
  <2>2. CASE s # {}
    <3>1. Some(s) \in s BY <2>2 DEF Some
    <3>2. s \ {Some(s)} \in P BY <1>1, <3>1, SmallerSet
    <3>3. /\ f[s] = f[s \ {Some(s)}] + w[Some(s)]
          /\ g[s] = g[s \ {Some(s)}] + w[Some(s)]
      BY <2>2 DEF Totals
    <3> QED BY <3>2, <3>3
  <2> QED BY <2>1, <2>2
<1>2. SUBSET S \subseteq P
  <2> HIDE DEF P
  <2> QED BY <1>1, InductOnSubsets
<1> QED BY <1>2

(* A member may be taken out of a sum in any order.                        *)
LEMMA TotalWithout ==
    ASSUME NEW S, IsFiniteSet(S), NEW f, NEW w, \A x \in S : w[x] \in Nat, Totals(f, S, w)
    PROVE  \A s \in SUBSET S : \A x \in s : f[s] = f[s \ {x}] + w[x]
<1> DEFINE P == {s \in SUBSET S : \A x \in s : f[s] = f[s \ {x}] + w[x]}
<1>1. ASSUME NEW s \in SUBSET S, \A t \in SUBSET S : Cardinality(t) < Cardinality(s) => t \in P
      PROVE  s \in P
  <2> SUFFICES ASSUME NEW x \in s PROVE f[s] = f[s \ {x}] + w[x]
    OBVIOUS
  <2> DEFINE y == Some(s)
  <2>1. y \in s BY DEF Some
  <2>2. f[s] = f[s \ {y}] + w[y] BY DEF Totals
  <2>3. CASE x # y
    <3>0. /\ s \ {y} \in SUBSET S /\ Cardinality(s \ {y}) < Cardinality(s)
          /\ s \ {x} \in SUBSET S /\ Cardinality(s \ {x}) < Cardinality(s)
      <4> HIDE DEF y
      <4> QED BY <2>1, SmallerSet
    <3> HIDE DEF y
    <3>1. s \ {y} \in P /\ x \in s \ {y} BY <1>1, <2>3, <3>0
    <3>2. s \ {x} \in P /\ y \in s \ {x} BY <1>1, <2>1, <2>3, <3>0
    <3>3. f[s \ {y}] = f[(s \ {y}) \ {x}] + w[x] BY <3>1
    <3>4. f[s \ {x}] = f[(s \ {x}) \ {y}] + w[y] BY <3>2
    <3>5. (s \ {y}) \ {x} = (s \ {x}) \ {y} OBVIOUS
    <3>6. f[(s \ {x}) \ {y}] \in Nat /\ w[x] \in Nat /\ w[y] \in Nat
      <4>1. (s \ {x}) \ {y} \in SUBSET S OBVIOUS
      <4> QED BY <2>1, <4>1, TotalsAreNat
    <3>7. PICK c \in Nat : c = f[(s \ {x}) \ {y}] BY <3>6
    <3>8. f[s \ {y}] = c + w[x] BY ONLY <3>3, <3>5, <3>7
    <3>9. f[s \ {x}] = c + w[y] BY ONLY <3>4, <3>7
    <3> QED BY ONLY <2>2, <3>6, <3>7, <3>8, <3>9
  <2>4. CASE x = y BY <2>2, <2>4
  <2> QED BY <2>3, <2>4
<1>2. SUBSET S \subseteq P
  <2> HIDE DEF P
  <2> QED BY <1>1, InductOnSubsets
<1> QED BY <1>2

(* The sum over a set is that over the rest and the weight of the member.  *)
LEMMA TotalAdds ==
    ASSUME NEW S, IsFiniteSet(S), NEW f, NEW g, NEW w, NEW x \in S,
           \A y \in S : w[y] \in Nat, Totals(f, S, w), Totals(g, S \ {x}, w)
    PROVE  f[S] = g[S \ {x}] + w[x] /\ g[S \ {x}] \in Nat
<1>1. f[S] = f[S \ {x}] + w[x] BY TotalWithout
<1>2. Totals(f, S \ {x}, w) BY DEF Totals
<1>3. IsFiniteSet(S \ {x}) BY FS_Subset
<1>4. f[S \ {x}] = g[S \ {x}] BY <1>2, <1>3, TotalsAgree
<1>5. f[S \ {x}] \in Nat BY TotalsAreNat
<1> QED BY <1>1, <1>4, <1>5
=============================================================================
