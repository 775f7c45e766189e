----------------------------- MODULE FactsProofs -----------------------------
(* Proofs about Facts, for every set of nodes, facts, signatures, order of *)
(* the keys, page and bucket.                                              *)
EXTENDS Facts, FiniteSetTheorems, WellFoundedInduction, TLAPS

-----------------------------------------------------------------------------
(* The inductive invariant *)

FactRow == Fact \X SUBSET Sig
KeyedRow == Fact \X ((SUBSET Sig) \ {{}})
PullState == [at : {"idle", "page", "park"}, cur : {None} \cup 0..Keys, rows : Seq(KeyedRow),
              next : {None} \cup Place, snap : BOOLEAN, root : SUBSET Place]

Types ==
    /\ table \in [Node -> Table] /\ synced \in [Node -> Table]
    /\ agg \in [Node -> SUBSET Place] /\ delta \in [Node -> SUBSET Place]
    /\ cursor \in [Node -> [Node -> {None} \cup 0..Keys]]
    /\ passed \in [Node -> [Node -> SUBSET Place]]
    /\ pull \in [Links -> PullState]
    /\ wake \in [Node -> BOOLEAN]

(* Whom a walk is with, and whom the sweep has left.                       *)
Walks ==
    /\ DOMAIN rec = Node /\ \A n \in Node : DOMAIN rec[n] = DOMAIN NoWalk
    /\ \A n \in Node : /\ rec[n].left \subseteq Node
                       /\ rec[n].at \in {"coarse", "leaves", "fetch"} => rec[n].peer \in Node

(* The log never holds more than the table.                                *)
Synced == \A n \in Node : \A f \in Fact : synced[n][f] \subseteq table[n][f]

(* A page moves its cursor, and only a snapshot moves the cursor meanwhile, *)
(* back to where the dump starts.                                          *)
PageMoves ==
    \A l \in Links : pull[l].at # "idle" =>
        /\ pull[l].next # None /\ ~pull[l].snap =>
              pull[l].cur # None /\ pull[l].cur < pull[l].next
        /\ cursor[l[1]][l[2]] \in {pull[l].cur, Restart}

(* What is about to be parked is in the table.                             *)
Parked ==
    \A l \in Links : pull[l].at = "park" =>
        \A r \in ToSet(pull[l].rows) : r[2] \subseteq table[l[1]][r[1]]

(* What a cursor is past is on the disk.                                   *)
Behind == \A n, p \in Node : \A k \in passed[n][p] :
             Row(k) \in KeyedRow /\ Row(k)[2] \subseteq synced[n][Row(k)[1]]

IInv == Types /\ Walks /\ Synced /\ PageMoves /\ Parked /\ RootIsTheTable /\ Behind

-----------------------------------------------------------------------------
(* Least elements, ranks and pages *)

LEMMA HasMin ==
    ASSUME NEW S \in SUBSET Nat, S # {}
    PROVE  \E x \in S : \A y \in S : x <= y
<1> DEFINE R == OpToRel(<, Nat)
<1>1. IsWellFoundedOn(R, Nat) BY NatLessThanWellFounded
<1>2. \A x, y \in Nat : y < x => <<y, x>> \in R BY DEF OpToRel
<1> HIDE DEF R
<1>3. PICK x \in S : \A y \in S : ~(<<y, x>> \in R) BY <1>1, WFMin
<1>4. \A y \in S : ~(y < x) BY <1>2, <1>3
<1> QED BY <1>4

LEMMA HasMax ==
    ASSUME NEW b \in Nat, NEW S \in SUBSET 0..b, S # {}
    PROVE  Max(S) \in S /\ \A y \in S : Max(S) >= y
<1> DEFINE T == {b - x : x \in S}
<1>1. T \in SUBSET Nat /\ T # {}
  <2>1. \A x \in S : b - x \in Nat OBVIOUS
  <2> QED BY <2>1
<1>2. PICK t \in T : \A u \in T : t <= u BY <1>1, HasMin
<1>3. PICK x \in S : t = b - x OBVIOUS
<1>4. \A y \in S : x >= y
  <2> TAKE y \in S
  <2>1. b - x <= b - y BY <1>2, <1>3
  <2> QED BY <2>1
<1> QED BY <1>4 DEF Max

(* Of the members of a set of numbers, there is one with any rank.         *)
LEMMA HasRank ==
    ASSUME NEW b \in Nat, NEW S \in SUBSET 0..b, NEW i \in 1..Cardinality(S)
    PROVE  \E k \in S : Cardinality({j \in S : j < k}) = i - 1
<1> DEFINE Ranked(n) == \E k \in S : Cardinality({j \in S : j < k}) = n - 1
           missing == {n \in 1..Cardinality(S) : ~Ranked(n)}
<1>1. IsFiniteSet(S) /\ Cardinality(S) \in Nat
  <2>1. IsFiniteSet(0..b) BY FS_Interval
  <2> QED BY <2>1, FS_Subset, FS_CardinalityType
<1> HIDE DEF Ranked
<1>2. SUFFICES ASSUME ~Ranked(i) PROVE FALSE
  BY DEF Ranked
<1>3. PICK n \in missing : \A m \in missing : n <= m
  <2>1. i \in missing /\ missing \in SUBSET Nat BY <1>1, <1>2
  <2> QED BY <2>1, HasMin
<1>n. n \in Nat /\ 1 <= n /\ n <= Cardinality(S) /\ ~Ranked(n) BY <1>1, <1>3
<1>s. S \in SUBSET Nat /\ \A k \in S : k \in Nat OBVIOUS
<1>4. CASE n = 1
  <2>1. S # {} BY <1>1, <1>n, FS_EmptySet
  <2>2. PICK k \in S : \A y \in S : k <= y BY <1>s, <2>1, HasMin
  <2>3. \A j \in S : ~(j < k) BY <1>s, <2>2
  <2>4. {j \in S : j < k} = {} BY <2>3
  <2>5. Cardinality({j \in S : j < k}) = 1 - 1 BY <2>4, FS_EmptySet
  <2> QED BY <1>4, <1>n, <2>5 DEF Ranked
<1>5. CASE n # 1
  <2>1. n - 1 \in 1..Cardinality(S) /\ n - 1 \notin missing BY <1>1, <1>n, <1>3, <1>5
  <2>2. PICK k \in S : Cardinality({j \in S : j < k}) = (n - 1) - 1 BY <2>1 DEF Ranked
  <2> DEFINE below == {j \in S : j < k}
             upto == below \cup {k}
             above == S \ upto
  <2>3. IsFiniteSet(below)
    <3>1. below \in SUBSET S OBVIOUS
    <3> QED BY <1>1, <3>1, FS_Subset
  <2>4. Cardinality(upto) = n - 1
    <3>1. k \notin below BY <1>s
    <3>2. Cardinality(below) = (n - 1) - 1 BY <2>2
    <3> HIDE DEF below
    <3>3. Cardinality(upto) = Cardinality(below) + 1 BY <2>3, <3>1, FS_AddElement
    <3> QED BY <1>n, <3>2, <3>3
  <2>5. above # {}
    <3>1. SUFFICES ASSUME above = {} PROVE FALSE
      OBVIOUS
    <3>2. S = upto BY <3>1
    <3> HIDE DEF upto
    <3>3. Cardinality(S) = n - 1 BY <2>4, <3>2
    <3> QED BY <1>n, <3>3
  <2>6. PICK x \in above : \A y \in above : x <= y
    <3>1. above \in SUBSET Nat BY <1>s
    <3> HIDE DEF above
    <3> QED BY <2>5, <3>1, HasMin
  <2>7. {j \in S : j < x} = upto
    <3>1. x \in S /\ k < x BY <1>s, <2>6
    <3>2. \A j \in S : j < x <=> (j < k \/ j = k) BY <1>s, <2>6, <3>1
    <3> QED BY <3>2
  <2>8. Cardinality({j \in S : j < x}) = n - 1 BY <2>4, <2>7
  <2> QED BY <1>n, <2>6, <2>8 DEF Ranked
<1> QED BY <1>4, <1>5

(* A row is known by its place.                                            *)
LEMMA RowOfKey ==
    ASSUME NEW r \in KeyedRow
    PROVE  Key[r[1]][r[2]] \in Place /\ Row(Key[r[1]][r[2]]) = r
<1>1. r = <<r[1], r[2]>> /\ r[1] \in Fact /\ r[2] \in (SUBSET Sig) \ {{}} BY DEF KeyedRow
<1>2. Key[r[1]] \in [(SUBSET Sig) \ {{}} -> Place] BY <1>1, FactsAssumption
<1>3. \A q \in KeyedRow : Key[q[1]][q[2]] = Key[r[1]][r[2]] => q = r
  <2> TAKE q \in KeyedRow
  <2>1. q = <<q[1], q[2]>> /\ q[1] \in Fact /\ q[2] \in (SUBSET Sig) \ {{}} BY DEF KeyedRow
  <2>2. Key[q[1]][q[2]] = Key[r[1]][r[2]] => q[1] = r[1] /\ q[2] = r[2]
    <3>1. \A f, g \in Fact, s, t \in (SUBSET Sig) \ {{}} :
            Key[f][s] = Key[g][t] => f = g /\ s = t
      BY FactsAssumption
    <3>2. /\ q[1] \in Fact /\ q[2] \in (SUBSET Sig) \ {{}}
          /\ r[1] \in Fact /\ r[2] \in (SUBSET Sig) \ {{}}
      BY <1>1, <2>1
    <3> QED BY <3>1, <3>2
  <2>3. <<q[1], q[2]>> = <<r[1], r[2]>> => q = r BY <1>1, <2>1, Zenon
  <2> QED BY <2>2, <2>3
<1> QED BY <1>1, <1>2, <1>3 DEF Row, KeyedRow

LEMMA RowsAreRows ==
    ASSUME NEW t \in Table
    PROVE  /\ Rows(t) \subseteq Place
           /\ \A k \in Rows(t) : Row(k) \in KeyedRow /\ t[Row(k)[1]] = Row(k)[2]
<1> SUFFICES ASSUME NEW k \in Rows(t)
             PROVE  k \in Place /\ Row(k) \in KeyedRow /\ t[Row(k)[1]] = Row(k)[2]
  OBVIOUS
<1>1. PICK f \in Fact : t[f] # {} /\ k = Key[f][t[f]] BY DEF Rows
<1>2. <<f, t[f]>> \in KeyedRow BY <1>1 DEF Table, KeyedRow
<1>3. k \in Place /\ Row(k) = <<f, t[f]>> BY <1>1, <1>2, RowOfKey
<1> QED BY <1>2, <1>3

(* A page is made of rows of the table, and is followed by a page only past *)
(* its last place.                                                         *)
LEMMA PageFacts ==
    ASSUME NEW p \in Node, table \in [Node -> Table], NEW subtree, NEW after
    PROVE  LET page == Page(p, subtree, after) IN
           /\ page.rows \in Seq(KeyedRow)
           /\ page.next \in {None} \cup Place
           /\ page.next # None => after < page.next
<1> DEFINE rest == {k \in Rows(table[p]) \cap subtree : k > after}
           page == Lowest(rest, PageMax)
           rows == [i \in 1..Cardinality(page) |->
                      Row(CHOOSE k \in page : Cardinality({j \in page : j < k}) = i - 1)]
           next == IF rest = page THEN None ELSE Max(page)
<1>1. Page(p, subtree, after) = [rows |-> rows, next |-> next] BY DEF Page
<1>2. /\ table[p] \in Table /\ Keys \in Nat /\ PageMax \in Nat \ {0}
      /\ \A k \in Rows(table[p]) : k \in Place /\ Row(k) \in KeyedRow
  <2>1. table[p] \in Table OBVIOUS
  <2> QED BY <2>1, RowsAreRows, FactsAssumption
<1>3. page \subseteq rest /\ rest \subseteq Rows(table[p]) /\ \A k \in rest : k > after
  BY DEF Lowest
<1>4. page \in SUBSET 0..Keys /\ rest \in SUBSET Nat /\ page \subseteq Place
  BY <1>2, <1>3 DEF Place
<1>5. rows \in Seq(KeyedRow)
  <2>1. IsFiniteSet(page) /\ Cardinality(page) \in Nat
    <3>1. IsFiniteSet(0..Keys) BY <1>2, FS_Interval
    <3> HIDE DEF page
    <3> QED BY <1>4, <3>1, FS_Subset, FS_CardinalityType
  <2>2. ASSUME NEW i \in 1..Cardinality(page) PROVE rows[i] \in KeyedRow
    <3> HIDE DEF page
    <3>1. \E k \in page : Cardinality({j \in page : j < k}) = i - 1
      BY <1>2, <1>4, HasRank
    <3>2. (CHOOSE k \in page : Cardinality({j \in page : j < k}) = i - 1) \in page
      BY <3>1
    <3> QED BY <1>2, <1>3, <3>2
  <2> HIDE DEF page
  <2>3. rows \in [1..Cardinality(page) -> KeyedRow] BY <2>2
  <2> HIDE DEF rows
  <2> QED BY <2>1, <2>3
<1>6. next # None => next \in Place /\ after < next
  <2> SUFFICES ASSUME rest # page PROVE Max(page) \in Place /\ after < Max(page)
    OBVIOUS
  <2>1. rest # {} BY <1>3
  <2>2. PICK k \in rest : \A y \in rest : k <= y
    <3> HIDE DEF rest
    <3> QED BY <1>4, <2>1, HasMin
  <2>3. {y \in rest : y < k} = {}
    <3>1. \A y \in rest : ~(y < k) BY <1>4, <2>2
    <3> QED BY <3>1
  <2>4. Cardinality({y \in rest : y < k}) = 0 BY <2>3, FS_EmptySet
  <2>5. k \in page BY <1>2, <2>4 DEF Lowest
  <2>6. Max(page) \in page
    <3> HIDE DEF page
    <3> QED BY <1>2, <1>4, <2>5, HasMax
  <2> HIDE DEF page, rest
  <2> QED BY <1>3, <1>4, <2>6
<1> HIDE DEF rows, next
<1> QED BY <1>1, <1>5, <1>6

(* XOR undoes itself.                                                      *)
LEMMA DeltaTwice ==
    ASSUME NEW A, NEW D, NEW R, NEW S, Delta(A, D) = R
    PROVE  Delta(A, Delta(D, Delta(R, S))) = S
BY DEF Delta

LEMMA DeltaOnce == \A A, D : Delta(Delta(A, D), {}) = Delta(A, D) /\ Delta(A, {}) = A
BY DEF Delta

LEMMA MergedFacts ==
    ASSUME NEW t \in Table, NEW batch \in Seq(FactRow)
    PROVE  /\ Merged(t, batch) \in Table
           /\ \A f \in Fact : t[f] \subseteq Merged(t, batch)[f]
           /\ \A r \in ToSet(batch) : r[2] \subseteq Merged(t, batch)[r[1]]
           /\ Moves(t, batch) \subseteq Place
<1>1. \A r \in ToSet(batch) : r[1] \in Fact /\ r[2] \subseteq Sig
  <2>1. \A i \in DOMAIN batch : batch[i] \in FactRow OBVIOUS
  <2> QED BY <2>1 DEF ToSet, FactRow
<1>2. \A f \in Fact : t[f] \subseteq Sig BY DEF Table
<1>3. Merged(t, batch) \in Table
  <2>1. \A f \in Fact : t[f] \cup UNION {r[2] : r \in {x \in ToSet(batch) : x[1] = f}} \subseteq Sig
    BY <1>1, <1>2
  <2> QED BY <2>1 DEF Merged, Table
<1>4. \A f \in Fact : t[f] \subseteq Merged(t, batch)[f] BY DEF Merged
<1>5. \A r \in ToSet(batch) : r[2] \subseteq Merged(t, batch)[r[1]]
  <2> TAKE r \in ToSet(batch)
  <2>1. r \in {x \in ToSet(batch) : x[1] = r[1]} OBVIOUS
  <2>2. r[2] \subseteq UNION {q[2] : q \in {x \in ToSet(batch) : x[1] = r[1]}} BY <2>1
  <2> QED BY <1>1, <2>2 DEF Merged
<1>6. Moves(t, batch) \subseteq Place
  BY <1>3, RowsAreRows DEF Moves, Delta
<1> QED BY <1>3, <1>4, <1>5, <1>6

-----------------------------------------------------------------------------
(* Steps *)

LEMMA MergeFacts ==
    ASSUME IInv, NEW n \in Node, NEW batch \in Seq(FactRow), Merge(n, batch)
    PROVE  /\ table' \in [Node -> Table] /\ delta' \in [Node -> SUBSET Place]
           /\ \A m \in Node, f \in Fact : table[m][f] \subseteq table'[m][f]
           /\ \A r \in ToSet(batch) : r[2] \subseteq table'[n][r[1]]
           /\ \A m \in Node : Delta(agg[m], delta'[m]) = Rows(table'[m])
<1> DEFINE new == Merged(table[n], batch)
           moved == Delta(delta[n], Moves(table[n], batch))
<1>1. /\ table \in [Node -> Table] /\ delta \in [Node -> SUBSET Place]
      /\ table[n] \in Table /\ delta[n] \subseteq Place
  BY DEF IInv, Types
<1>2. /\ new \in Table /\ \A f \in Fact : table[n][f] \subseteq new[f]
      /\ \A r \in ToSet(batch) : r[2] \subseteq new[r[1]]
      /\ Moves(table[n], batch) \subseteq Place
  BY <1>1, MergedFacts
<1>3. Delta(agg[n], moved) = Rows(new)
  <2>1. Delta(agg[n], delta[n]) = Rows(table[n]) BY DEF IInv, RootIsTheTable
  <2> QED BY <2>1, DeltaTwice DEF Moves
<1>4. moved \subseteq Place BY <1>1, <1>2 DEF Delta
<1>5. table' = [table EXCEPT ![n] = new] /\ delta' = [delta EXCEPT ![n] = moved] BY DEF Merge
<1> HIDE DEF new, moved
<1>6. table' \in [Node -> Table] /\ delta' \in [Node -> SUBSET Place] BY <1>1, <1>2, <1>4, <1>5
<1>7. /\ table'[n] = new /\ delta'[n] = moved
      /\ \A m \in Node \ {n} : table'[m] = table[m] /\ delta'[m] = delta[m]
  BY <1>1, <1>5
<1>8. \A m \in Node, f \in Fact : table[m][f] \subseteq table'[m][f] BY <1>2, <1>7
<1>9. \A m \in Node : Delta(agg[m], delta'[m]) = Rows(table'[m])
  BY <1>3, <1>7 DEF IInv, RootIsTheTable
<1> QED BY <1>2, <1>6, <1>7, <1>8, <1>9

LEMMA KeyedAreRows == Seq(KeyedRow) \subseteq Seq(FactRow)
<1>1. KeyedRow \subseteq FactRow BY DEF KeyedRow, FactRow
<1> QED BY <1>1

LEMMA QuietType == Quiet \in PullState
<1>1. <<>> \in Seq(KeyedRow) OBVIOUS
<1> QED BY <1>1 DEF Quiet, PullState

(* A step that only adds facts.                                            *)
LEMMA GrowthInv ==
    ASSUME IInv, NEW n \in Node, NEW batch \in Seq(FactRow), Merge(n, batch),
           UNCHANGED <<synced, agg, cursor, passed, pull, wake>>, Walks'
    PROVE  IInv'
<1>1. Types' BY MergeFacts DEF IInv, Types
<1>2. Synced' BY MergeFacts DEF IInv, Synced
<1>3. PageMoves' BY DEF IInv, PageMoves
<1>4. Parked'
  <2>1. Links \subseteq Node \X Node BY FactsAssumption
  <2>2. ASSUME NEW l \in Links, pull[l].at = "park", NEW r \in ToSet(pull[l].rows)
        PROVE  r[2] \subseteq table'[l[1]][r[1]]
    <3>1. r[2] \subseteq table[l[1]][r[1]] BY <2>2 DEF IInv, Parked
    <3>2. r \in KeyedRow
      <4>1. pull[l].rows \in Seq(KeyedRow) BY DEF IInv, Types, PullState
      <4> QED BY <4>1 DEF ToSet
    <3>3. l[1] \in Node /\ r[1] \in Fact BY <2>1, <3>2 DEF KeyedRow
    <3> QED BY <3>1, <3>3, MergeFacts
  <2> QED BY <2>2 DEF Parked
<1>5. RootIsTheTable' BY MergeFacts DEF RootIsTheTable
<1>6. Behind' BY DEF IInv, Behind
<1> QED BY <1>1, <1>2, <1>3, <1>4, <1>5, <1>6 DEF IInv

(* A step of the reconcile loop that adds none.                            *)
LEMMA WalkInv ==
    ASSUME IInv, UNCHANGED <<table, synced, agg, delta, cursor, passed, pull>>,
           wake' \in [Node -> BOOLEAN], Walks'
    PROVE  IInv'
BY DEF IInv, Types, Synced, PageMoves, Parked, RootIsTheTable, Behind

LEMMA WalkTo ==
    ASSUME IInv, NEW n \in Node, NEW r, Walk(n, r), DOMAIN r = DOMAIN NoWalk, r.left \subseteq Node,
           r.at \in {"coarse", "leaves", "fetch"} => r.peer \in Node
    PROVE  Walks'
BY DEF IInv, Walks, Walk

LEMMA NextPeerFacts ==
    ASSUME IInv, NEW n \in Node
    PROVE  /\ DOMAIN NextPeer(n) = DOMAIN NoWalk /\ NextPeer(n).left \subseteq Node
           /\ NextPeer(n).at \notin {"coarse", "leaves", "fetch"}
<1>1. rec[n].left \subseteq Node BY DEF IInv, Walks
<1> QED BY <1>1 DEF NextPeer, NoWalk

LEMMA WalkFields ==
    DOMAIN NoWalk = {"at", "left", "peer", "ours", "expand", "targets"}
BY DEF NoWalk

LEMMA InitInv == Init => IInv
<1> SUFFICES ASSUME Init PROVE IInv
  OBVIOUS
<1>1. Known \in [Node -> Table] /\ \A n \in Node : Rows(Known[n]) \subseteq Place
  BY RowsAreRows, FactsAssumption
<1>2. Types BY <1>1, QuietType DEF Init, Types
<1>3. Walks BY DEF Init, Walks, NoWalk
<1>4. Synced BY DEF Init, Synced
<1>5. PageMoves /\ Parked BY DEF Init, PageMoves, Parked, Quiet
<1>6. RootIsTheTable BY DeltaOnce DEF Init, RootIsTheTable
<1>7. Behind BY DEF Init, Behind
<1> QED BY <1>2, <1>3, <1>4, <1>5, <1>6, <1>7 DEF IInv

LEMMA TeachInv == ASSUME IInv, NEW n \in Node, NEW b \in Batches, Teach(n, b) PROVE IInv'
<1>1. b \in Seq(FactRow) BY FactsAssumption DEF FactRow
<1>2. /\ Merge(n, b) /\ UNCHANGED <<synced, agg, cursor, passed, pull, wake>>
      /\ UNCHANGED rec
  BY DEF Teach
<1>3. Walks' BY <1>2 DEF IInv, Walks
<1> QED BY <1>1, <1>2, <1>3, GrowthInv

LEMMA FoldInInv == ASSUME IInv, NEW n \in Node, FoldIn(n) PROVE IInv'
<1>1. /\ agg \in [Node -> SUBSET Place] /\ delta \in [Node -> SUBSET Place] BY DEF IInv, Types
<1>2. Delta(agg[n], delta[n]) \subseteq Place BY <1>1 DEF Delta
<1>3. /\ agg' = [agg EXCEPT ![n] = Delta(agg[n], delta[n])]
      /\ delta' = [delta EXCEPT ![n] = {}]
      /\ UNCHANGED <<table, synced, cursor, passed, pull, wake, rec>>
  BY DEF FoldIn
<1>4. Types' BY <1>1, <1>2, <1>3 DEF IInv, Types
<1>5. RootIsTheTable'
  <2> SUFFICES ASSUME NEW m \in Node PROVE Delta(agg'[m], delta'[m]) = Rows(table[m])
    BY <1>3 DEF RootIsTheTable
  <2>1. Delta(agg[m], delta[m]) = Rows(table[m]) BY DEF IInv, RootIsTheTable
  <2>2. CASE m = n
    <3>1. agg'[m] = Delta(agg[m], delta[m]) /\ delta'[m] = {} BY <1>1, <1>3, <2>2
    <3> QED BY <2>1, <3>1, DeltaOnce
  <2>3. CASE m # n BY <1>1, <1>3, <2>1, <2>3
  <2> QED BY <2>2, <2>3
<1>6. Walks' BY <1>3 DEF IInv, Walks
<1>7. (Synced /\ PageMoves /\ Parked /\ Behind)'
  BY <1>3 DEF IInv, Synced, PageMoves, Parked, Behind
<1> QED BY <1>4, <1>5, <1>6, <1>7 DEF IInv

LEMMA ExchangeInv ==
    ASSUME IInv, NEW n \in Node, NEW p \in Node, <<n, p>> \in Links, Exchange(n, p)
    PROVE  IInv'
<1> DEFINE cur == cursor[n][p]
           l == <<n, p>>
<1>1. PICK snap \in BOOLEAN :
        LET page == IF cur # None \/ snap
                    THEN Page(p, Place, IF cur = None THEN Restart ELSE cur)
                    ELSE [rows |-> <<>>, next |-> None]
        IN  pull' = [pull EXCEPT ![l] =
                       [at |-> "page", cur |-> cur, rows |-> page.rows,
                        next |-> page.next, snap |-> snap, root |-> agg[p]]]
  BY DEF Exchange
<1> DEFINE page == IF cur # None \/ snap
                   THEN Page(p, Place, IF cur = None THEN Restart ELSE cur)
                   ELSE [rows |-> <<>>, next |-> None]
           q == [at |-> "page", cur |-> cur, rows |-> page.rows,
                 next |-> page.next, snap |-> snap, root |-> agg[p]]
<1>2. pull' = [pull EXCEPT ![l] = q] BY <1>1
<1>3. /\ table \in [Node -> Table] /\ cur \in {None} \cup 0..Keys /\ agg[p] \subseteq Place
      /\ pull \in [Links -> PullState]
  BY DEF IInv, Types
<1>4. /\ page.rows \in Seq(KeyedRow) /\ page.next \in {None} \cup Place
      /\ page.next # None /\ ~snap => cur # None /\ cur < page.next
  <2>1. CASE cur # None \/ snap
    <3> DEFINE after == IF cur = None THEN Restart ELSE cur
    <3>1. page = Page(p, Place, after) BY <2>1
    <3> HIDE DEF page, after
    <3>2. /\ page.rows \in Seq(KeyedRow) /\ page.next \in {None} \cup Place
          /\ page.next # None => after < page.next
      BY <1>3, <3>1, PageFacts
    <3>3. ~snap => cur # None /\ after = cur BY <2>1 DEF after
    <3> QED BY <3>2, <3>3
  <2>2. CASE ~(cur # None \/ snap)
    <3>1. page.rows = <<>> /\ page.next = None BY <2>2
    <3>2. <<>> \in Seq(KeyedRow) OBVIOUS
    <3> HIDE DEF page
    <3> QED BY <3>1, <3>2
  <2> QED BY <2>1, <2>2
<1>5. q \in PullState BY <1>3, <1>4 DEF PullState
<1>6. UNCHANGED <<table, synced, agg, delta, cursor, passed, wake, rec>> BY DEF Exchange, Apart
<1> HIDE DEF page
<1>7. /\ pull'[l] = q /\ pull' \in [Links -> PullState]
      /\ \A k \in Links \ {l} : pull'[k] = pull[k]
  BY <1>2, <1>3, <1>5
<1>8. Types' BY <1>6, <1>7 DEF IInv, Types
<1>9. PageMoves'
  <2> SUFFICES ASSUME NEW k \in Links, pull'[k].at # "idle"
               PROVE  /\ pull'[k].next # None /\ ~pull'[k].snap =>
                             pull'[k].cur # None /\ pull'[k].cur < pull'[k].next
                      /\ cursor'[k[1]][k[2]] \in {pull'[k].cur, Restart}
    BY DEF PageMoves
  <2>1. CASE k = l
    <3>1. k[1] = n /\ k[2] = p BY <2>1
    <3> QED BY <1>4, <1>6, <1>7, <2>1, <3>1
  <2>2. CASE k # l BY <1>6, <1>7, <2>2 DEF IInv, PageMoves
  <2> QED BY <2>1, <2>2
<1>10. Parked' BY <1>6, <1>7 DEF IInv, Parked
<1>11. Walks' BY <1>6 DEF IInv, Walks
<1>12. (Synced /\ RootIsTheTable /\ Behind)'
  BY <1>6 DEF IInv, Synced, RootIsTheTable, Behind
<1> QED BY <1>8, <1>9, <1>10, <1>11, <1>12 DEF IInv

LEMMA TakePageInv ==
    ASSUME IInv, NEW n \in Node, NEW p \in Node, <<n, p>> \in Links, TakePage(n, p)
    PROVE  IInv'
<1> DEFINE l == <<n, p>>
           q == [pull[l] EXCEPT !.at = "park"]
<1>1. /\ pull[l].at = "page" /\ Merge(n, pull[l].rows)
      /\ pull' = [pull EXCEPT ![l] = q]
      /\ UNCHANGED <<synced, agg, cursor, passed, wake, rec>>
  BY DEF TakePage, Apart
<1>2. pull \in [Links -> PullState] /\ pull[l] \in PullState BY DEF IInv, Types
<1>3. /\ q \in PullState /\ q.at = "park" /\ q.rows = pull[l].rows /\ q.cur = pull[l].cur
      /\ q.next = pull[l].next /\ q.snap = pull[l].snap
  BY <1>2 DEF PullState
<1>4. pull[l].rows \in Seq(FactRow) BY <1>2, KeyedAreRows DEF PullState
<1> HIDE DEF q
<1>5. /\ pull'[l] = q /\ pull' \in [Links -> PullState]
      /\ \A k \in Links \ {l} : pull'[k] = pull[k]
  BY <1>1, <1>2, <1>3
<1>6. /\ table' \in [Node -> Table] /\ delta' \in [Node -> SUBSET Place]
      /\ \A m \in Node, f \in Fact : table[m][f] \subseteq table'[m][f]
      /\ \A r \in ToSet(pull[l].rows) : r[2] \subseteq table'[n][r[1]]
      /\ \A m \in Node : Delta(agg[m], delta'[m]) = Rows(table'[m])
  BY <1>1, <1>4, MergeFacts
<1>7. Types' BY <1>1, <1>5, <1>6 DEF IInv, Types
<1>8. Walks' BY <1>1 DEF IInv, Walks
<1>9. Synced' BY <1>1, <1>6 DEF IInv, Synced
<1>10. PageMoves'
  <2> SUFFICES ASSUME NEW k \in Links, pull'[k].at # "idle"
               PROVE  /\ pull'[k].next # None /\ ~pull'[k].snap =>
                             pull'[k].cur # None /\ pull'[k].cur < pull'[k].next
                      /\ cursor'[k[1]][k[2]] \in {pull'[k].cur, Restart}
    BY DEF PageMoves
  <2>1. CASE k = l
    <3>1. pull[l].at # "idle" BY <1>1
    <3>2. /\ pull[l].next # None /\ ~pull[l].snap => pull[l].cur # None /\ pull[l].cur < pull[l].next
          /\ cursor[l[1]][l[2]] \in {pull[l].cur, Restart}
      BY <3>1 DEF IInv, PageMoves
    <3> QED BY <1>1, <1>3, <1>5, <2>1, <3>2
  <2>2. CASE k # l BY <1>1, <1>5, <2>2 DEF IInv, PageMoves
  <2> QED BY <2>1, <2>2
<1>11. Parked'
  <2> SUFFICES ASSUME NEW k \in Links, pull'[k].at = "park", NEW r \in ToSet(pull'[k].rows)
               PROVE  r[2] \subseteq table'[k[1]][r[1]]
    BY DEF Parked
  <2>1. CASE k = l
    <3>1. k[1] = n BY <2>1
    <3> QED BY <1>3, <1>5, <1>6, <2>1, <3>1
  <2>2. CASE k # l
    <3>1. r[2] \subseteq table[k[1]][r[1]] BY <1>5, <2>2 DEF IInv, Parked
    <3>2. r \in KeyedRow
      <4>1. pull'[k].rows \in Seq(KeyedRow) BY <1>5 DEF PullState
      <4> QED BY <4>1 DEF ToSet
    <3>3. k[1] \in Node /\ r[1] \in Fact
      <4>1. Links \subseteq Node \X Node BY FactsAssumption
      <4> QED BY <3>2, <4>1 DEF KeyedRow
    <3> QED BY <1>6, <3>1, <3>3
  <2> QED BY <2>1, <2>2
<1>12. RootIsTheTable' BY <1>1, <1>6 DEF RootIsTheTable
<1>13. Behind' BY <1>1 DEF IInv, Behind
<1> QED BY <1>7, <1>8, <1>9, <1>10, <1>11, <1>12, <1>13 DEF IInv

LEMMA ParkInv ==
    ASSUME IInv, NEW n \in Node, NEW p \in Node, <<n, p>> \in Links, Park(n, p)
    PROVE  IInv'
<1> DEFINE l == <<n, p>>
           q == pull[l]
           c == NextCursor(q)
           writes == (c # q.cur \/ q.snap) /\ (c # cursor[n][p] \/ q.snap)
           cursors == [m \in Node |-> CASE m = p /\ writes -> c
                                       [] m # p /\ q.snap -> Restart
                                       [] OTHER -> cursor[n][m]]
           landed == {Key[r[1]][r[2]] : r \in ToSet(q.rows)}
           passes == [m \in Node |-> CASE q.snap \/ (m = p /\ c = None) -> {}
                                      [] m = p /\ c # None /\ ~q.snap -> passed[n][p] \cup landed
                                      [] OTHER -> passed[n][m]]
<1>1. /\ q.at = "park"
      /\ cursor' = [cursor EXCEPT ![n] = cursors]
      /\ synced' = IF writes THEN [synced EXCEPT ![n] = table[n]] ELSE synced
      /\ passed' = [passed EXCEPT ![n] = passes]
      /\ pull' = [pull EXCEPT ![l] = Quiet]
      /\ UNCHANGED <<table, agg, delta, rec>>
  BY DEF Park, ParkWith
<1>2. wake' \in [Node -> BOOLEAN] BY DEF Park, ParkWith, IInv, Types
<1>3. /\ q \in PullState /\ pull \in [Links -> PullState] /\ table \in [Node -> Table]
      /\ synced \in [Node -> Table] /\ cursor \in [Node -> [Node -> {None} \cup 0..Keys]]
      /\ passed \in [Node -> [Node -> SUBSET Place]] /\ Keys \in Nat
  BY FactsAssumption DEF IInv, Types
<1>4. /\ c \in {None} \cup 0..Keys /\ q.snap \in BOOLEAN
      /\ q.snap => c = Restart
      /\ ~q.snap => c = q.next
  <2>1. q.next \in {None} \cup 0..Keys /\ q.snap \in BOOLEAN BY <1>3 DEF PullState, Place
  <2>2. Restart \in 0..Keys BY <1>3 DEF Restart
  <2> QED BY <2>1, <2>2 DEF NextCursor
<1>5. /\ \A r \in ToSet(q.rows) : r \in KeyedRow /\ r[2] \subseteq table[n][r[1]]
      /\ landed \subseteq Place
  <2>1. q.rows \in Seq(KeyedRow) BY <1>3 DEF PullState
  <2>2. \A r \in ToSet(q.rows) : r \in KeyedRow BY <2>1 DEF ToSet
  <2>3. \A r \in ToSet(q.rows) : r[2] \subseteq table[n][r[1]]
    <3>1. \A r \in ToSet(pull[l].rows) : r[2] \subseteq table[l[1]][r[1]]
      BY <1>1 DEF IInv, Parked
    <3> QED BY <3>1
  <2>4. landed \subseteq Place BY <2>2, RowOfKey
  <2> QED BY <2>2, <2>3, <2>4
<1>6. c # None /\ ~q.snap => writes
  <2> SUFFICES ASSUME c # None, ~q.snap PROVE c # q.cur /\ c # cursor[n][p]
    OBVIOUS
  <2>1. /\ pull[l].next # None /\ ~pull[l].snap => pull[l].cur # None /\ pull[l].cur < pull[l].next
        /\ cursor[l[1]][l[2]] \in {pull[l].cur, Restart}
    BY <1>1 DEF IInv, PageMoves
  <2>2. c = q.next /\ c \in Place /\ q.cur < c /\ cursor[n][p] \in {q.cur, Restart}
    BY <1>3, <1>4, <2>1 DEF PullState
  <2>3. q.cur \in Int /\ c \in Int /\ c > 0 BY <1>3, <2>2 DEF PullState, Place, None
  <2> HIDE DEF q, c
  <2> QED BY <2>2, <2>3 DEF Restart
<1> HIDE DEF q, c, writes, landed
<1>7. cursors \in [Node -> {None} \cup 0..Keys]
  <2>1. Restart \in 0..Keys BY <1>3 DEF Restart
  <2>2. \A m \in Node : cursors[m] \in {c, Restart, cursor[n][m]} OBVIOUS
  <2> QED BY <1>3, <1>4, <2>1, <2>2
<1>8. passes \in [Node -> SUBSET Place]
  <2>1. \A m \in Node : passes[m] \in {{}, passed[n][p] \cup landed, passed[n][m]} OBVIOUS
  <2> QED BY <1>3, <1>5, <2>1
<1>9. \A m \in Node : \/ passes[m] = {} \/ passes[m] = passed[n][m]
                       \/ /\ passes[m] = passed[n][p] \cup landed
                          /\ m = p /\ c # None /\ ~q.snap
  <2> TAKE m \in Node
  <2>1. CASE q.snap \/ (m = p /\ c = None) BY <2>1
  <2>2. CASE ~q.snap /\ m = p /\ c # None BY <2>2
  <2>3. CASE ~q.snap /\ m # p BY <2>3
  <2> QED BY <1>4, <2>1, <2>2, <2>3
<1>10. \A m \in Node \ {p} : cursors[m] \in {cursor[n][m], Restart} OBVIOUS
<1> HIDE DEF cursors, passes
<1>11. /\ \A m \in Node : cursor'[m] = IF m = n THEN cursors ELSE cursor[m]
       /\ \A m \in Node : passed'[m] = IF m = n THEN passes ELSE passed[m]
       /\ cursor' \in [Node -> [Node -> {None} \cup 0..Keys]]
       /\ passed' \in [Node -> [Node -> SUBSET Place]]
  BY <1>1, <1>3, <1>7, <1>8
<1>12. /\ synced' \in [Node -> Table]
       /\ \A m \in Node : synced'[m] = IF m = n /\ writes THEN table[m] ELSE synced[m]
  BY <1>1, <1>3
<1>13. /\ pull' \in [Links -> PullState] /\ pull'[l].at = "idle"
       /\ \A k \in Links \ {l} : pull'[k] = pull[k]
  BY <1>1, <1>3, QuietType DEF Quiet
<1>14. Types' BY <1>1, <1>2, <1>11, <1>12, <1>13 DEF IInv, Types
<1>15. Walks' BY <1>1 DEF IInv, Walks
<1>16. Synced' BY <1>1, <1>12 DEF IInv, Synced
<1>17. PageMoves'
  <2> SUFFICES ASSUME NEW k \in Links, pull'[k].at # "idle"
               PROVE  /\ pull'[k].next # None /\ ~pull'[k].snap =>
                             pull'[k].cur # None /\ pull'[k].cur < pull'[k].next
                      /\ cursor'[k[1]][k[2]] \in {pull'[k].cur, Restart}
    BY DEF PageMoves
  <2>1. k # l /\ pull'[k] = pull[k] BY <1>13
  <2>2. /\ pull[k].next # None /\ ~pull[k].snap => pull[k].cur # None /\ pull[k].cur < pull[k].next
        /\ cursor[k[1]][k[2]] \in {pull[k].cur, Restart}
    BY <2>1 DEF IInv, PageMoves
  <2>3. k = <<k[1], k[2]>> /\ k[1] \in Node /\ k[2] \in Node
    <3>1. k \in Node \X Node BY FactsAssumption
    <3> QED BY <3>1
  <2>4. CASE k[1] = n
    <3>1. k[2] # p BY <2>1, <2>3, <2>4, Zenon
    <3>2. cursor'[k[1]][k[2]] = cursors[k[2]] BY <1>11, <2>3, <2>4
    <3>3. cursors[k[2]] \in {cursor[k[1]][k[2]], Restart} BY <1>10, <2>3, <2>4, <3>1
    <3> QED BY <2>1, <2>2, <3>2, <3>3
  <2>5. CASE k[1] # n
    <3>1. cursor'[k[1]] = cursor[k[1]] BY <1>11, <2>3, <2>5
    <3> QED BY <2>1, <2>2, <3>1
  <2> QED BY <2>4, <2>5
<1>18. Parked' BY <1>1, <1>13 DEF IInv, Parked
<1>19. RootIsTheTable' BY <1>1 DEF IInv, RootIsTheTable
<1>20. Behind'
  <2> SUFFICES ASSUME NEW m \in Node, NEW o \in Node, NEW k \in passed'[m][o]
               PROVE  Row(k) \in KeyedRow /\ Row(k)[2] \subseteq synced'[m][Row(k)[1]]
    BY DEF Behind
  <2>1. ASSUME NEW x \in Node, k \in passed[m][x]
        PROVE  Row(k) \in KeyedRow /\ Row(k)[2] \subseteq synced'[m][Row(k)[1]]
    <3>1. Row(k) \in KeyedRow /\ Row(k)[2] \subseteq synced[m][Row(k)[1]]
      BY <2>1 DEF IInv, Behind
    <3>2. CASE m = n /\ writes
      <4>1. synced'[m] = table[m] BY <1>12, <3>2
      <4>2. Row(k)[1] \in Fact BY <3>1 DEF KeyedRow
      <4> QED BY <3>1, <4>1, <4>2 DEF IInv, Synced
    <3>3. CASE ~(m = n /\ writes) BY <1>12, <3>1, <3>3
    <3> QED BY <3>2, <3>3
  <2>2. CASE m # n
    <3>1. k \in passed[m][o] BY <1>11, <2>2
    <3> QED BY <2>1, <3>1
  <2>3. CASE m = n
    <3>1. k \in passes[o] BY <1>11, <2>3
    <3>2. CASE passes[o] = passed[n][o] BY <2>1, <2>3, <3>1, <3>2
    <3>3. CASE passes[o] = passed[n][p] \cup landed /\ c # None /\ ~q.snap
      <4>1. CASE k \in passed[n][p] BY <2>1, <2>3, <4>1
      <4>2. CASE k \in landed
        <5>1. PICK r \in ToSet(q.rows) : k = Key[r[1]][r[2]] BY <4>2 DEF landed
        <5>2. Row(k) = r BY <1>5, <5>1, RowOfKey
        <5>3. synced'[m] = table[n] BY <1>6, <1>12, <2>3, <3>3
        <5> QED BY <1>5, <5>2, <5>3
      <4> QED BY <3>1, <3>3, <4>1, <4>2
    <3>4. CASE passes[o] = {} BY <3>1, <3>4
    <3> QED BY <1>9, <3>2, <3>3, <3>4
  <2> QED BY <2>2, <2>3
<1> QED BY <1>14, <1>15, <1>16, <1>17, <1>18, <1>19, <1>20 DEF IInv

LEMMA FailPullInv ==
    ASSUME IInv, NEW n \in Node, NEW p \in Node, <<n, p>> \in Links, FailPull(n, p)
    PROVE  IInv'
<1>1. /\ pull' = [pull EXCEPT ![<<n, p>>] = Quiet]
      /\ UNCHANGED <<table, synced, agg, delta, cursor, passed, wake, rec>>
  BY DEF FailPull
<1>2. pull \in [Links -> PullState] BY DEF IInv, Types
<1>3. /\ pull' \in [Links -> PullState]
      /\ \A k \in Links : pull'[k].at = "idle" \/ pull'[k] = pull[k]
  BY <1>1, <1>2, QuietType DEF Quiet
<1>4. Types' BY <1>1, <1>3 DEF IInv, Types
<1>5. PageMoves' BY <1>1, <1>3 DEF IInv, PageMoves
<1>6. Parked' BY <1>1, <1>3 DEF IInv, Parked
<1>7. Walks' BY <1>1 DEF IInv, Walks
<1>8. (Synced /\ RootIsTheTable /\ Behind)'
  BY <1>1 DEF IInv, Synced, RootIsTheTable, Behind
<1> QED BY <1>4, <1>5, <1>6, <1>7, <1>8 DEF IInv

LEMMA CrashInv == ASSUME IInv, NEW n \in Node, Crash(n) PROVE IInv'
<1>1. PICK left \in {synced[n], table[n]} :
        table' = [table EXCEPT ![n] = left] /\ agg' = [agg EXCEPT ![n] = Rows(left)]
  BY DEF Crash
<1>2. /\ delta' = [delta EXCEPT ![n] = {}]
      /\ pull' = [l \in Links |-> IF l[1] = n THEN Quiet ELSE pull[l]]
      /\ wake' = [wake EXCEPT ![n] = FALSE]
      /\ Walk(n, NoWalk)
      /\ UNCHANGED <<synced, cursor, passed>>
  BY DEF Crash
<1>3. /\ table \in [Node -> Table] /\ synced \in [Node -> Table] /\ pull \in [Links -> PullState]
      /\ agg \in [Node -> SUBSET Place] /\ delta \in [Node -> SUBSET Place]
      /\ wake \in [Node -> BOOLEAN]
  BY DEF IInv, Types
<1>4. /\ left \in Table /\ Rows(left) \subseteq Place
      /\ \A f \in Fact : synced[n][f] \subseteq left[f]
  <2>1. left \in Table BY <1>3
  <2> QED BY <2>1, RowsAreRows DEF IInv, Synced
<1>5. /\ table' \in [Node -> Table] /\ agg' \in [Node -> SUBSET Place]
      /\ delta' \in [Node -> SUBSET Place] /\ wake' \in [Node -> BOOLEAN]
      /\ table'[n] = left /\ agg'[n] = Rows(left) /\ delta'[n] = {}
      /\ \A m \in Node \ {n} : table'[m] = table[m] /\ agg'[m] = agg[m] /\ delta'[m] = delta[m]
  BY <1>1, <1>2, <1>3, <1>4
<1>6. /\ pull' \in [Links -> PullState]
      /\ \A k \in Links : \/ pull'[k].at = "idle"
                          \/ pull'[k] = pull[k] /\ k[1] # n
  BY <1>2, <1>3, QuietType DEF Quiet
<1>7. Types' BY <1>2, <1>5, <1>6 DEF IInv, Types
<1>8. Walks'
  <2>1. NoWalk.left \subseteq Node /\ NoWalk.at = "idle" BY DEF NoWalk
  <2> QED BY <1>2, <2>1, WalkTo
<1>9. Synced' BY <1>2, <1>4, <1>5 DEF IInv, Synced
<1>10. PageMoves' BY <1>2, <1>6 DEF IInv, PageMoves
<1>11. Parked'
  <2>1. \A k \in Links : k[1] \in Node
    <3>1. Links \subseteq Node \X Node BY FactsAssumption
    <3> QED BY <3>1
  <2> QED BY <1>5, <1>6, <2>1 DEF IInv, Parked
<1>12. RootIsTheTable'
  <2> SUFFICES ASSUME NEW m \in Node PROVE Delta(agg'[m], delta'[m]) = Rows(table'[m])
    BY DEF RootIsTheTable
  <2>1. CASE m = n BY <1>5, <2>1, DeltaOnce
  <2>2. CASE m # n BY <1>5, <2>2 DEF IInv, RootIsTheTable
  <2> QED BY <2>1, <2>2
<1>13. Behind' BY <1>2 DEF IInv, Behind
<1> QED BY <1>7, <1>8, <1>9, <1>10, <1>11, <1>12, <1>13 DEF IInv

(* The steps of a walk that fetch nothing.                                 *)
LEMMA WalkingInv ==
    ASSUME IInv, NEW n \in Node,
           Sweep(n) \/ Compare(n) \/ AskCoarse(n) \/ AskLeaves(n) \/ Truncate(n) \/ FailWalk(n)
    PROVE  IInv'
<1>1. UNCHANGED <<table, synced, agg, delta, cursor, passed, pull>>
  BY DEF Sweep, Compare, AskCoarse, AskLeaves, LeavesAmong, Truncate, FailWalk, Elsewhere
<1>2. wake' \in [Node -> BOOLEAN]
  BY DEF Sweep, Compare, AskCoarse, AskLeaves, LeavesAmong, Truncate, FailWalk, IInv, Types
<1>3. /\ DOMAIN rec[n] = DOMAIN NoWalk /\ rec[n].left \subseteq Node
      /\ rec[n].at \in {"coarse", "leaves", "fetch"} => rec[n].peer \in Node
  BY DEF IInv, Walks
<1>4. ASSUME Walk(n, NextPeer(n)) PROVE Walks'
  BY <1>4, NextPeerFacts, WalkTo
<1>5. CASE Sweep(n)
  <2> DEFINE known == {p \in Node : heard[n][p] # {None}}
             r == [NoWalk EXCEPT !.at = IF known = {} THEN "idle" ELSE "sweep", !.left = known]
  <2>1. Walk(n, r) BY <1>5 DEF Sweep
  <2>2. DOMAIN r = DOMAIN NoWalk /\ r.left = known /\ r.at \in {"idle", "sweep"}
    BY DEF NoWalk
  <2>3. known \subseteq Node OBVIOUS
  <2> HIDE DEF r, known
  <2>4. Walks' BY <2>1, <2>2, <2>3, WalkTo
  <2> QED BY <1>1, <1>2, <2>4, WalkInv
<1>6. CASE Compare(n)
  <2>1. PICK p \in rec[n].left :
          LET r == [rec[n] EXCEPT !.left = @ \ {p}, !.peer = p]
          IN  Walk(n, CASE agg[n] = heard[n][p] ->
                             [NoWalk EXCEPT !.left = r.left,
                                            !.at = IF r.left = {} THEN "idle" ELSE "sweep"]
                        [] agg[n] = {} /\ heard[n][p] # {} ->
                             [r EXCEPT !.at = "fetch",
                                       !.targets = <<[of |-> Place, after |-> 0]>>]
                        [] OTHER -> [r EXCEPT !.at = "coarse", !.ours = agg[n]])
    BY <1>6 DEF Compare
  <2> DEFINE r == [rec[n] EXCEPT !.left = @ \ {p}, !.peer = p]
             done == [NoWalk EXCEPT !.left = r.left, !.at = IF r.left = {} THEN "idle" ELSE "sweep"]
             all == [r EXCEPT !.at = "fetch", !.targets = <<[of |-> Place, after |-> 0]>>]
             coarse == [r EXCEPT !.at = "coarse", !.ours = agg[n]]
  <2>2. Walk(n, done) \/ Walk(n, all) \/ Walk(n, coarse)
    <3> HIDE DEF done, all, coarse
    <3>1. Walk(n, CASE agg[n] = heard[n][p] -> done
                    [] agg[n] = {} /\ heard[n][p] # {} -> all
                    [] OTHER -> coarse)
      BY <2>1 DEF done, all, coarse
    <3> QED BY <3>1
  <2>3. r.left = rec[n].left \ {p} /\ r.peer = p /\ DOMAIN r = DOMAIN NoWalk /\ p \in Node
    BY <1>3, WalkFields
  <2> HIDE DEF r
  <2>4. /\ DOMAIN done = DOMAIN NoWalk /\ done.left = r.left /\ done.at \in {"idle", "sweep"}
        /\ DOMAIN all = DOMAIN NoWalk /\ all.left = r.left /\ all.peer = p
        /\ DOMAIN coarse = DOMAIN NoWalk /\ coarse.left = r.left /\ coarse.peer = p
    BY <2>3, WalkFields DEF NoWalk
  <2> HIDE DEF done, all, coarse
  <2>5. r.left \subseteq Node BY <1>3, <2>3
  <2>6. Walks' BY <2>2, <2>3, <2>4, <2>5, WalkTo
  <2> QED BY <1>1, <1>2, <2>6, WalkInv
<1>7. CASE AskCoarse(n)
  <2>1. \/ Walk(n, NextPeer(n))
        \/ \E t, e : Walk(n, [rec[n] EXCEPT !.at = "leaves", !.ours = {}, !.targets = t, !.expand = e])
    BY <1>7 DEF AskCoarse, Subtrees
  <2>2. ASSUME NEW t, NEW e,
               Walk(n, [rec[n] EXCEPT !.at = "leaves", !.ours = {}, !.targets = t, !.expand = e])
        PROVE  Walks'
    <3> DEFINE r == [rec[n] EXCEPT !.at = "leaves", !.ours = {}, !.targets = t, !.expand = e]
    <3>1. DOMAIN r = DOMAIN NoWalk /\ r.left = rec[n].left /\ r.peer = rec[n].peer
      BY <1>3, WalkFields
    <3>2. rec[n].at = "coarse" BY <1>7 DEF AskCoarse
    <3>3. Walk(n, r) BY <2>2
    <3> HIDE DEF r
    <3> QED BY <1>3, <3>1, <3>2, <3>3, WalkTo
  <2>3. Walks' BY <1>4, <2>1, <2>2
  <2> QED BY <1>1, <1>2, <2>3, WalkInv
<1>8. CASE AskLeaves(n)
  <2>1. \E t, e : Walk(n, [rec[n] EXCEPT !.expand = e, !.targets = t])
    BY <1>8 DEF AskLeaves, LeavesAmong, Subtrees
  <2>2. PICK t, e : Walk(n, [rec[n] EXCEPT !.expand = e, !.targets = t]) BY <2>1
  <2> DEFINE r == [rec[n] EXCEPT !.expand = e, !.targets = t]
  <2>3. /\ DOMAIN r = DOMAIN NoWalk /\ r.left = rec[n].left /\ r.peer = rec[n].peer
        /\ r.at = rec[n].at
    BY <1>3, WalkFields
  <2>4. Walk(n, r) BY <2>2
  <2> HIDE DEF r
  <2>5. Walks' BY <1>3, <2>3, <2>4, WalkTo
  <2> QED BY <1>1, <1>2, <2>5, WalkInv
<1>9. CASE Truncate(n)
  <2>1. \/ Walk(n, NextPeer(n))
        \/ \E t : Walk(n, [rec[n] EXCEPT !.at = "fetch", !.targets = t])
    BY <1>9 DEF Truncate
  <2>2. ASSUME NEW t, Walk(n, [rec[n] EXCEPT !.at = "fetch", !.targets = t])
        PROVE  Walks'
    <3> DEFINE r == [rec[n] EXCEPT !.at = "fetch", !.targets = t]
    <3>1. DOMAIN r = DOMAIN NoWalk /\ r.left = rec[n].left /\ r.peer = rec[n].peer
      BY <1>3, WalkFields
    <3>2. rec[n].at = "leaves" BY <1>9 DEF Truncate
    <3>3. Walk(n, r) BY <2>2
    <3> HIDE DEF r
    <3> QED BY <1>3, <3>1, <3>2, <3>3, WalkTo
  <2>3. Walks' BY <1>4, <2>1, <2>2
  <2> QED BY <1>1, <1>2, <2>3, WalkInv
<1>10. CASE FailWalk(n)
  <2>1. Walks' BY <1>4, <1>10 DEF FailWalk
  <2> QED BY <1>1, <1>2, <2>1, WalkInv
<1> QED BY <1>5, <1>6, <1>7, <1>8, <1>9, <1>10

LEMMA FetchPageInv == ASSUME IInv, NEW n \in Node, FetchPage(n) PROVE IInv'
<1> DEFINE w == rec[n]
<1>1. PICK i \in 1..Min({Window, Len(w.targets)}) :
        LET t == w.targets[i]
            page == Page(w.peer, t.of, t.after)
            left == IF page.next = None THEN RemoveAt(w.targets, i)
                    ELSE [w.targets EXCEPT ![i].after = page.next]
        IN  /\ Merge(n, page.rows)
            /\ Walk(n, IF left = <<>> THEN NextPeer(n) ELSE [w EXCEPT !.targets = left])
  BY DEF FetchPage
<1> DEFINE t == w.targets[i]
           page == Page(w.peer, t.of, t.after)
<1>2. /\ w.peer \in Node /\ w.left \subseteq Node /\ DOMAIN w = DOMAIN NoWalk
      /\ table \in [Node -> Table]
  BY DEF FetchPage, IInv, Walks, Types
<1>3. page.rows \in Seq(FactRow)
  <2>1. page.rows \in Seq(KeyedRow) BY <1>2, PageFacts
  <2> HIDE DEF page
  <2> QED BY <2>1, KeyedAreRows
<1>4. Merge(n, page.rows) BY <1>1
<1>5. \/ Walk(n, NextPeer(n))
      \/ \E left : Walk(n, [w EXCEPT !.targets = left])
  BY <1>1
<1>6. Walks'
  <2>1. ASSUME NEW left, Walk(n, [w EXCEPT !.targets = left]) PROVE Walks'
    <3> DEFINE r == [w EXCEPT !.targets = left]
    <3>1. DOMAIN r = DOMAIN NoWalk /\ r.left = w.left /\ r.peer = w.peer
      BY <1>2, WalkFields
    <3>2. Walk(n, r) BY <2>1
    <3> HIDE DEF r, w
    <3> QED BY <1>2, <3>1, <3>2, WalkTo
  <2>2. ASSUME Walk(n, NextPeer(n)) PROVE Walks' BY <2>2, NextPeerFacts, WalkTo
  <2> QED BY <1>5, <2>1, <2>2
<1>7. UNCHANGED <<synced, agg, cursor, passed, pull, wake>> BY DEF FetchPage, Elsewhere
<1> HIDE DEF page
<1> QED BY <1>3, <1>4, <1>6, <1>7, GrowthInv

-----------------------------------------------------------------------------
(* The theorems *)

LEMMA NextInv == IInv /\ [Next]_vars => IInv'
<1> SUFFICES ASSUME IInv, [Next]_vars PROVE IInv'
  OBVIOUS
<1>1. CASE UNCHANGED vars
  BY <1>1 DEF vars, IInv, Types, Walks, Synced, PageMoves, Parked, RootIsTheTable, Behind
<1>2. ASSUME NEW n \in Node, NEW b \in Batches, Teach(n, b) PROVE IInv'
  BY <1>2, TeachInv
<1>3. ASSUME NEW n \in Node, FoldIn(n) PROVE IInv' BY <1>3, FoldInInv
<1>4. ASSUME NEW n \in Node, Reconcile(n) \/ FailWalk(n) PROVE IInv'
  <2>1. CASE FetchPage(n) BY <2>1, FetchPageInv
  <2>2. CASE ~FetchPage(n) BY <1>4, <2>2, WalkingInv DEF Reconcile
  <2> QED BY <2>1, <2>2
<1>5. ASSUME NEW n \in Node, Crash(n) PROVE IInv' BY <1>5, CrashInv
<1>6. ASSUME NEW l \in Links, Round(l[1], l[2]) \/ FailPull(l[1], l[2]) PROVE IInv'
  <2>1. l \in Node \X Node BY FactsAssumption
  <2>2. PICK n \in Node, p \in Node : l = <<n, p>> BY <2>1
  <2>3. <<n, p>> \in Links /\ (Round(n, p) \/ FailPull(n, p)) BY <1>6, <2>2
  <2> QED BY <2>3, ExchangeInv, TakePageInv, ParkInv, FailPullInv DEF Round
<1> QED BY <1>1, <1>2, <1>3, <1>4, <1>5, <1>6 DEF Next

LEMMA Inductive == Spec => []IInv
<1> QED BY InitInv, NextInv, PTL DEF Spec

(* The tree is the table: at every moment the aggregates, with what is      *)
(* committed and not yet folded in, are those of the rows, whatever a batch *)
(* repeats, moves or teaches twice, and after any crash (merge_atts,        *)
(* commit_with_delta, rebuild_aggregates).                                  *)
THEOREM TreeIsTheTable == Spec => []RootIsTheTable
<1>1. IInv => RootIsTheTable BY DEF IInv
<1> QED BY <1>1, Inductive, PTL

(* No cursor is ahead of its facts: what a dump is past is on the disk of   *)
(* its node before the cursor is, because the cursor's write takes the log  *)
(* to the disk with it, and a crash loses only what is not synced           *)
(* (pull_from_inner, restart_all_dumps).                                    *)
THEOREM CursorNeverAhead == Spec => []CursorIsBehindFacts
<1>1. IInv => CursorIsBehindFacts
  BY DEF IInv, Types, Synced, Behind, CursorIsBehindFacts, TypeOK
<1> QED BY <1>1, Inductive, PTL

=============================================================================
