--------------------------- MODULE ServingProofs ---------------------------
(* Proofs about Serving, for any requests, sizes, capacities and faults.    *)
EXTENDS Serving, Folding, SequenceTheorems

-----------------------------------------------------------------------------
(* The inductive invariant *)

Stages == {"peek", "lookup", "scan", "insert", "cell", "walk", "account", "set",
           "loop", "join", "wait", "done"}

Types ==
    /\ db \subseteq Hash /\ ask \in [Request -> [what : {"nar", "manifest"}, hash : Hash]]
    /\ pc \in [Request -> Stages]
    /\ reply \in [Request -> {"none", "ok", "gone", "absent", "error", "left"}]
    /\ entry \in [Request -> SUBSET Request]
    /\ lru \in Seq(Request) /\ IsInjective(lru) /\ Len(lru) <= Entries
    /\ cell \in [Request -> {"empty", "busy", "set"}]
    /\ tableBytes \in Nat /\ budget \in (Ceiling \div FloorShare)..Ceiling
    /\ manifests \in Seq([hash : Hash, json : BOOLEAN]) /\ Len(manifests) <= Manifests
    /\ building \subseteq Hash
    /\ task \in [Hash -> {"none", "queued", "reading", "publish", "retire"}]
    /\ built \in [Hash -> BOOLEAN]
    /\ ticks \in 0..MaxTicks /\ faults \in 0..MaxFaults

(* A request uses one entry.                                               *)
OneEntry == \A r \in Request : \A d, e \in entry[r] : d = e

(* Nobody has seen the entry of a request that has not inserted it.        *)
Unborn(r) == pc[r] \in {"peek", "lookup", "scan", "insert"}
Fresh ==
    \A r \in Request : Unborn(r) =>
        r \notin ToSet(lru) /\ cell[r] = "empty" /\ \A q \in Request : r \notin entry[q]

(* The bytes of the tables of a set of entries.                            *)
Bytes(asks, S) == FoldSet(LAMBDA e, n : n + Size[asks[e].hash], 0, S)
CountedOnes == {e \in Request : Counted(e)}
Seen == Bytes(ask, ToSet(lru) \cap CountedOnes) <= tableBytes

IInv == Types /\ OneEntry /\ Fresh /\ BusyCellsHaveABuilder /\ Seen

-----------------------------------------------------------------------------
(* What eviction does *)

Cached0 == [lru : Seq(Request), bytes : Nat]
EvictStep(d, limit) == IF d.bytes > limit /\ Len(d.lru) > 1 THEN Evicted(d) ELSE d

LEMMA EvictSolves ==
    ASSUME NEW c \in Cached0, NEW limit \in Nat,
           \A d \in Cached0 : EvictStep(d, limit) \in Cached0
    PROVE  \E fold :
              /\ EvictToBudget(c, limit) = fold[1..Len(c.lru)]
              /\ fold[{}] = c
              /\ \A i \in 1..Len(c.lru) : fold[1..i] = EvictStep(fold[1..(i - 1)], limit)
<1> DEFINE S == DOMAIN c.lru
           pick == [s \in SUBSET S |-> Max(s)]
           step == [x \in S \X Cached0 |-> EvictStep(x[2], limit)]
           Of(f) == [s \in SUBSET S |-> IF s = {} THEN c ELSE
                        LET x == Max(s) IN
                        LET d == f[s \ {x}] IN
                        IF d.bytes > limit /\ Len(d.lru) > 1 THEN Evicted(d) ELSE d]
           fold == CHOOSE f : f = Of(f)
<1>1. S = 1..Len(c.lru) /\ Len(c.lru) \in Nat BY DEF Cached0
<1>2. Picks(pick, S) BY <1>1, MaxIn DEF Picks
<1>3. step \in [S \X Cached0 -> Cached0] OBVIOUS
<1>4. IsFiniteSet(S) BY <1>1, FS_Interval
<1>5. PICK f : IsFold(f, S, Cached0, c, step, pick)
  <2> HIDE DEF S, pick, step
  <2> QED BY <1>2, <1>3, <1>4, FoldExists
<1>6. f = Of(f)
  <2>1. ASSUME NEW s \in SUBSET S, s # {}
        PROVE  f[s] = EvictStep(f[s \ {Max(s)}], limit)
    <3>1. pick[s] = Max(s) /\ pick[s] \in S /\ f[s \ {pick[s]}] \in Cached0 BY <1>2, <1>5, <2>1 DEF Picks, IsFold
    <3>2. step[<<pick[s], f[s \ {pick[s]}]>>] = EvictStep(f[s \ {pick[s]}], limit) BY <3>1
    <3> HIDE DEF step, pick
    <3> QED BY <1>5, <2>1, <3>1, <3>2 DEF IsFold
  <2>2. f[{}] = c BY <1>5 DEF IsFold
  <2> HIDE DEF S
  <2> QED BY <1>5, <2>1, <2>2 DEF EvictStep, IsFold
<1>7. fold = Of(fold)
  <2> HIDE DEF Of
  <2> QED BY <1>6
<1>8. EvictToBudget(c, limit) = fold[S]
  BY DEF EvictToBudget, FoldLeft, MapThenFoldSet
<1> HIDE DEF fold
<1>9. fold[{}] = c BY <1>7
<1>10. \A i \in 1..Len(c.lru) : fold[1..i] = EvictStep(fold[1..(i - 1)], limit)
  <2> TAKE i \in 1..Len(c.lru)
  <2>1. /\ Max(1..i) = i /\ (1..i) \ {i} = 1..(i - 1)
        /\ 1..i \in SUBSET S /\ 1..i # {}
    BY <1>1, TopIndex
  <2>2. fold[1..i] = EvictStep(fold[(1..i) \ {Max(1..i)}], limit)
    <3> HIDE DEF S
    <3> QED BY <1>7, <2>1 DEF EvictStep
  <2> QED BY <2>1, <2>2
<1> QED BY <1>1, <1>8, <1>9, <1>10

Asked == [Request -> [what : {"nar", "manifest"}, hash : Hash]]
Weights(asks) == [e \in Request |-> Size[asks[e].hash]]

LEMMA BytesSolves ==
    ASSUME NEW asks \in Asked, NEW S \in SUBSET Request, IsFiniteSet(S)
    PROVE  \E f : Totals(f, S, Weights(asks)) /\ Bytes(asks, S) = f[S]
<1> DEFINE w == Weights(asks)
           pick == [s \in SUBSET S |-> Some(s)]
           step == [x \in S \X Nat |-> x[2] + w[x[1]]]
           Of(f) == [s \in SUBSET S |-> IF s = {} THEN 0 ELSE
                        LET x == CHOOSE y \in s : TRUE IN f[s \ {x}] + Size[asks[x].hash]]
           fold == CHOOSE f : f = Of(f)
<1>1. \A x \in Request : w[x] \in Nat /\ w[x] = Size[asks[x].hash]
  BY ServingAssumption DEF Weights, Asked
<1>2. Picks(pick, S) BY DEF Picks, Some
<1>3. step \in [S \X Nat -> Nat]
  <2> HIDE DEF w
  <2> QED BY <1>1
<1>4. PICK f : IsFold(f, S, Nat, 0, step, pick)
  <2> HIDE DEF pick, step
  <2> QED BY <1>2, <1>3, FoldExists
<1>5. f = Of(f)
  <2>1. ASSUME NEW s \in SUBSET S, s # {}
        PROVE  f[s] = f[s \ {Some(s)}] + Size[asks[Some(s)].hash]
    <3>1. /\ pick[s] = Some(s) /\ pick[s] \in S /\ f[s \ {pick[s]}] \in Nat
      BY <1>2, <1>4, <2>1 DEF Picks, IsFold
    <3>2. step[<<pick[s], f[s \ {pick[s]}]>>] = f[s \ {pick[s]}] + w[pick[s]]
      <4> HIDE DEF w, pick
      <4> QED BY <3>1
    <3> HIDE DEF step, pick, w
    <3> QED BY <1>1, <1>4, <2>1, <3>1, <3>2 DEF IsFold
  <2>2. f[{}] = 0 BY <1>4 DEF IsFold
  <2> QED BY <1>4, <2>1, <2>2 DEF IsFold, Some
<1>6. fold = Of(fold)
  <2> HIDE DEF Of
  <2> QED BY <1>5
<1>7. Bytes(asks, S) = fold[S] BY DEF Bytes, FoldSet, MapThenFoldSet
<1> HIDE DEF fold
<1>8. Totals(fold, S, w)
  <2> SUFFICES ASSUME NEW s \in SUBSET S
               PROVE  fold[s] = IF s = {} THEN 0 ELSE fold[s \ {Some(s)}] + w[Some(s)]
    BY DEF Totals
  <2>1. s # {} => Some(s) \in Request BY DEF Some
  <2>2. s # {} => fold[s] = fold[s \ {Some(s)}] + Size[asks[Some(s)].hash]
    BY <1>6 DEF Some
  <2>3. fold[{}] = 0 BY <1>6
  <2> HIDE DEF w
  <2> QED BY <1>1, <2>1, <2>2, <2>3
<1> QED BY <1>7, <1>8

LEMMA BytesAdd ==
    ASSUME NEW asks \in Asked, NEW S \in SUBSET Request, IsFiniteSet(S), NEW x \in S
    PROVE  /\ Bytes(asks, S) = Bytes(asks, S \ {x}) + Size[asks[x].hash]
           /\ Bytes(asks, S \ {x}) \in Nat /\ Bytes(asks, S) \in Nat
           /\ Size[asks[x].hash] \in Nat \ {0}
<1> DEFINE w == Weights(asks)
<1>1. \A y \in S : w[y] \in Nat /\ w[y] = Size[asks[y].hash] /\ w[y] # 0
  BY ServingAssumption DEF Weights, Asked
<1> HIDE DEF w
<1>2. PICK f : Totals(f, S, w) /\ Bytes(asks, S) = f[S] BY BytesSolves DEF w
<1>3. IsFiniteSet(S \ {x}) BY FS_Subset
<1>4. PICK g : Totals(g, S \ {x}, w) /\ Bytes(asks, S \ {x}) = g[S \ {x}]
  BY <1>3, BytesSolves DEF w
<1>5. f[S] = g[S \ {x}] + w[x] /\ g[S \ {x}] \in Nat
  BY <1>1, <1>2, <1>4, TotalAdds
<1> QED BY <1>1, <1>2, <1>4, <1>5

LEMMA BytesNat ==
    ASSUME NEW asks \in Asked, NEW S \in SUBSET Request, IsFiniteSet(S)
    PROVE  Bytes(asks, S) \in Nat /\ (S = {} => Bytes(asks, S) = 0)
<1> DEFINE w == Weights(asks)
<1>1. \A y \in S : w[y] \in Nat BY ServingAssumption DEF Weights, Asked
<1> HIDE DEF w
<1>2. PICK f : Totals(f, S, w) /\ Bytes(asks, S) = f[S] BY BytesSolves DEF w
<1>3. f[S] \in Nat BY <1>1, <1>2, TotalsAreNat
<1>4. S = {} => f[S] = 0 BY <1>2 DEF Totals
<1> QED BY <1>2, <1>3, <1>4

LEMMA RemoveFacts ==
    ASSUME NEW T, NEW s \in Seq(T), NEW i \in 1..Len(s)
    PROVE  /\ RemoveAt(s, i) \in Seq(T) /\ Len(RemoveAt(s, i)) = Len(s) - 1
           /\ \A j \in 1..(Len(s) - 1) : RemoveAt(s, i)[j] = IF j < i THEN s[j] ELSE s[j + 1]
<1> DEFINE a == SubSeq(s, 1, i - 1)
           b == SubSeq(s, i + 1, Len(s))
<1>1. /\ a \in Seq(T) /\ Len(a) = i - 1 /\ \A j \in 1..(i - 1) : a[j] = s[j]
  OBVIOUS
<1>2. /\ b \in Seq(T) /\ Len(b) = Len(s) - i /\ \A j \in 1..(Len(s) - i) : b[j] = s[i + j]
  OBVIOUS
<1>3. RemoveAt(s, i) = a \o b BY DEF RemoveAt
<1> HIDE DEF a, b
<1>4. a \o b \in Seq(T) /\ Len(a \o b) = Len(s) - 1
  <2>1. a \o b \in Seq(T) /\ Len(a \o b) = Len(a) + Len(b)
    BY <1>1, <1>2, ConcatProperties
  <2> QED BY <1>1, <1>2, <2>1
<1>5. ASSUME NEW j \in 1..(Len(s) - 1)
      PROVE  (a \o b)[j] = IF j < i THEN s[j] ELSE s[j + 1]
  <2>1. CASE j < i BY <1>1, <1>2, <2>1
  <2>2. CASE ~(j < i)
    <3>1. (a \o b)[j] = b[j - (i - 1)] BY <1>1, <1>2, <2>2
    <3>2. j - (i - 1) \in 1..(Len(s) - i) /\ i + (j - (i - 1)) = j + 1 BY <2>2
    <3>3. b[j - (i - 1)] = s[i + (j - (i - 1))] BY <1>2, <3>2
    <3> QED BY <2>2, <3>1, <3>2, <3>3
  <2> QED BY <2>1, <2>2
<1> QED BY <1>3, <1>4, <1>5

LEMMA TouchFacts ==
    ASSUME NEW T, NEW s \in Seq(T), IsInjective(s), NEW x \in ToSet(s)
    PROVE  /\ Touched(s, x) \in Seq(T) /\ IsInjective(Touched(s, x))
           /\ Len(Touched(s, x)) = Len(s) /\ ToSet(Touched(s, x)) = ToSet(s)
<1>1. PICK i \in 1..Len(s) : s[i] = x BY DEF ToSet
<1>2. SelectInSeq(s, LAMBDA v : v = x) = i
  <2>1. {j \in 1..Len(s) : s[j] = x} = {i} BY <1>1 DEF IsInjective
  <2>2. Min({i}) = i BY DEF Min
  <2> QED BY <2>1, <2>2 DEF SelectInSeq
<1> DEFINE rest == RemoveAt(s, i)
<1>3. Touched(s, x) = Append(rest, x) BY <1>1, <1>2 DEF Touched, RemoveFirst
<1>4. /\ rest \in Seq(T) /\ Len(rest) = Len(s) - 1
      /\ \A j \in 1..(Len(s) - 1) : rest[j] = IF j < i THEN s[j] ELSE s[j + 1]
  BY RemoveFacts
<1> HIDE DEF rest
<1> DEFINE t == Append(rest, x)
<1>5. /\ t \in Seq(T) /\ Len(t) = Len(s) /\ t[Len(s)] = x
      /\ \A j \in 1..(Len(s) - 1) : t[j] = IF j < i THEN s[j] ELSE s[j + 1]
  BY <1>1, <1>4
<1> HIDE DEF t
<1> DEFINE at(j) == IF j = Len(s) THEN i ELSE IF j < i THEN j ELSE j + 1
<1>6. \A j \in 1..Len(s) : at(j) \in 1..Len(s) /\ t[j] = s[at(j)] BY <1>1, <1>5
<1>7. \A j, k \in 1..Len(s) : at(j) = at(k) => j = k OBVIOUS
<1>8. \A k \in 1..Len(s) : \E j \in 1..Len(s) : at(j) = k
  <2> TAKE k \in 1..Len(s)
  <2>1. CASE k = i
    <3>1. at(Len(s)) = k BY <2>1
    <3> QED BY <3>1
  <2>2. CASE k < i
    <3>1. at(k) = k BY <2>2
    <3> QED BY <3>1
  <2>3. CASE k > i
    <3>1. k - 1 \in 1..Len(s) /\ at(k - 1) = k BY <2>3
    <3> QED BY <3>1
  <2> QED BY <2>1, <2>2, <2>3
<1> HIDE DEF at
<1>9. IsInjective(t)
  <2> SUFFICES ASSUME NEW j \in 1..Len(s), NEW k \in 1..Len(s), t[j] = t[k]
               PROVE  j = k
    BY <1>5 DEF IsInjective
  <2>1. s[at(j)] = s[at(k)] /\ at(j) \in DOMAIN s /\ at(k) \in DOMAIN s BY <1>6
  <2>2. at(j) = at(k) BY <2>1 DEF IsInjective
  <2> QED BY <1>7, <2>2
<1>10. ToSet(t) = ToSet(s)
  <2>1. \A j \in 1..Len(s) : \E k \in 1..Len(s) : t[j] = s[k] BY <1>6
  <2>2. \A k \in 1..Len(s) : \E j \in 1..Len(s) : t[j] = s[k] BY <1>6, <1>8
  <2>3. DOMAIN t = 1..Len(s) /\ DOMAIN s = 1..Len(s) BY <1>5
  <2>4. ToSet(t) = {t[j] : j \in 1..Len(s)} /\ ToSet(s) = {s[j] : j \in 1..Len(s)}
    BY <2>3 DEF ToSet
  <2>5. ASSUME NEW y \in ToSet(t) PROVE y \in ToSet(s)
    <3>1. PICK j \in 1..Len(s) : y = t[j] BY <2>4
    <3> QED BY <2>1, <2>4, <3>1
  <2>6. ASSUME NEW y \in ToSet(s) PROVE y \in ToSet(t)
    <3>1. PICK k \in 1..Len(s) : y = s[k] BY <2>4
    <3> QED BY <2>2, <2>4, <3>1
  <2> QED BY <2>5, <2>6
<1> QED BY <1>3, <1>5, <1>9, <1>10 DEF t

LEMMA TailFacts ==
    ASSUME NEW T, NEW s \in Seq(T), IsInjective(s), s # <<>>
    PROVE  /\ Tail(s) \in Seq(T) /\ IsInjective(Tail(s)) /\ Len(Tail(s)) = Len(s) - 1
           /\ ToSet(Tail(s)) = ToSet(s) \ {Head(s)} /\ Head(s) \in ToSet(s)
<1> DEFINE t == Tail(s)
<1>1. /\ t \in Seq(T) /\ Len(t) = Len(s) - 1 /\ Len(s) \in Nat \ {0}
      /\ \A j \in 1..(Len(s) - 1) : t[j] = s[j + 1]
      /\ Head(s) = s[1]
  OBVIOUS
<1> HIDE DEF t
<1>2. /\ ToSet(t) = {t[j] : j \in 1..(Len(s) - 1)}
      /\ ToSet(s) = {s[j] : j \in 1..Len(s)}
      /\ \A j, k \in 1..Len(s) : s[j] = s[k] => j = k
  BY <1>1 DEF ToSet, IsInjective
<1>3. IsInjective(t)
  <2> SUFFICES ASSUME NEW j \in 1..(Len(s) - 1), NEW k \in 1..(Len(s) - 1), t[j] = t[k]
               PROVE  j = k
    BY <1>1 DEF IsInjective
  <2>1. j + 1 \in 1..Len(s) /\ k + 1 \in 1..Len(s) /\ s[j + 1] = s[k + 1] BY <1>1
  <2>2. j + 1 = k + 1 BY <1>2, <2>1
  <2> QED BY <2>2
<1>4. ASSUME NEW y \in ToSet(t) PROVE y \in ToSet(s) /\ y # Head(s)
  <2>1. PICK j \in 1..(Len(s) - 1) : y = t[j] BY <1>2
  <2>2. y = s[j + 1] /\ j + 1 \in 1..Len(s) /\ 1 \in 1..Len(s) /\ j + 1 # 1 BY <1>1, <2>1
  <2> QED BY <1>1, <1>2, <2>2
<1>5. ASSUME NEW y \in ToSet(s), y # Head(s) PROVE y \in ToSet(t)
  <2>1. PICK k \in 1..Len(s) : y = s[k] BY <1>2
  <2>2. k - 1 \in 1..(Len(s) - 1) /\ (k - 1) + 1 = k BY <1>1, <1>5, <2>1
  <2>3. y = t[k - 1] BY <1>1, <2>1, <2>2
  <2> QED BY <1>2, <2>2, <2>3
<1>6. Head(s) \in ToSet(s) BY <1>1, <1>2
<1> QED BY <1>1, <1>3, <1>4, <1>5, <1>6 DEF t

LEMMA ToSetIsFinite ==
    ASSUME NEW T, NEW s \in Seq(T) PROVE IsFiniteSet(ToSet(s)) /\ ToSet(s) \subseteq T
<1>1. IsFiniteSet(1..Len(s)) BY FS_Interval
<1>2. ToSet(s) = {s[i] : i \in 1..Len(s)} BY DEF ToSet
<1>3. s \in Surjection(1..Len(s), ToSet(s)) BY <1>2 DEF Surjection
<1>4. IsFiniteSet(ToSet(s)) BY <1>1, <1>3, FS_Surjection
<1> QED BY <1>2, <1>4

LEMMA LessFacts ==
    ASSUME NEW b \in Nat, NEW n \in Nat
    PROVE  Less(b, n) \in Nat /\ Less(b, n) <= b /\ (n <= b => Less(b, n) = b - n)
<1>1. CASE n <= b
  <2>1. Max({0, b - n}) = b - n BY <1>1 DEF Max
  <2> QED BY <1>1, <2>1 DEF Less
<1>2. CASE ~(n <= b)
  <2>1. Max({0, b - n}) = 0 BY <1>2 DEF Max
  <2> QED BY <1>2, <2>1 DEF Less
<1> QED BY <1>1, <1>2

(* A cache whose bytes are those of its entries in C, at least.            *)
Within(d, C) ==
    /\ d \in Cached0 /\ IsInjective(d.lru)
    /\ Bytes(ask, ToSet(d.lru) \cap C) <= d.bytes

Tables == {e \in Request : cell[e] = "set"}

LEMMA EvictedKeeps ==
    ASSUME Types, NEW C \in SUBSET Request, Tables \subseteq C,
           NEW d, Within(d, C), d.lru # <<>>
    PROVE  LET x == Evicted(d) IN
           /\ Within(x, C) /\ Len(x.lru) = Len(d.lru) - 1
           /\ ToSet(x.lru) \subseteq ToSet(d.lru) /\ x.bytes <= d.bytes
<1> DEFINE h == Head(d.lru)
           x == Evicted(d)
           S == ToSet(d.lru) \cap C
           rest == ToSet(x.lru) \cap C
<1>1. d \in Cached0 /\ d.lru \in Seq(Request) /\ d.bytes \in Nat /\ IsInjective(d.lru)
  BY DEF Within, Cached0
<1>2. x.lru = Tail(d.lru) /\ x.bytes = Less(d.bytes, Weight(h)) /\ x = [lru |-> x.lru, bytes |-> x.bytes]
  BY DEF Evicted
<1>3. /\ x.lru \in Seq(Request) /\ IsInjective(x.lru) /\ Len(x.lru) = Len(d.lru) - 1
      /\ ToSet(x.lru) = ToSet(d.lru) \ {h} /\ h \in ToSet(d.lru)
  BY <1>1, <1>2, TailFacts
<1>4. IsFiniteSet(ToSet(d.lru)) /\ ToSet(d.lru) \subseteq Request BY <1>1, ToSetIsFinite
<1>5. S \in SUBSET Request /\ IsFiniteSet(S) /\ h \in Request BY <1>3, <1>4, FS_Subset
<1>6. ask \in Asked /\ Size[ask[h].hash] \in Nat BY <1>5, ServingAssumption DEF Types, Asked
<1>7. Weight(h) = (IF cell[h] = "set" THEN Size[ask[h].hash] ELSE 0) /\ Weight(h) \in Nat
  BY <1>6 DEF Weight, HashOf
<1>8. x.bytes \in Nat /\ x.bytes <= d.bytes BY <1>1, <1>2, <1>7, LessFacts
<1>9. Bytes(ask, S) <= d.bytes BY DEF Within
<1>10. Bytes(ask, rest) <= x.bytes
  <2> HIDE DEF h, x
  <2>1. CASE h \in C
    <3>1. rest = S \ {h} BY <1>3
    <3>2. h \in S BY <1>3, <2>1
    <3> HIDE DEF S, rest
    <3>3. /\ Bytes(ask, S) = Bytes(ask, rest) + Size[ask[h].hash]
          /\ Bytes(ask, rest) \in Nat /\ Bytes(ask, S) \in Nat
      BY <1>5, <1>6, <3>1, <3>2, BytesAdd
    <3>4. CASE cell[h] = "set"
      <4>1. Weight(h) = Size[ask[h].hash] BY <1>7, <3>4
      <4>2. Weight(h) <= d.bytes BY <1>1, <1>6, <1>9, <3>3, <4>1
      <4>3. x.bytes = d.bytes - Weight(h) BY <1>1, <1>2, <1>7, <4>2, LessFacts
      <4> QED BY <1>1, <1>6, <1>9, <3>3, <4>1, <4>3
    <3>5. CASE cell[h] # "set"
      <4>1. Weight(h) = 0 BY <1>7, <3>5
      <4>2. x.bytes = d.bytes BY <1>1, <1>2, <4>1, LessFacts
      <4> QED BY <1>1, <1>6, <1>9, <3>3, <4>2
    <3> QED BY <3>4, <3>5
  <2>2. CASE h \notin C
    <3>1. rest = S BY <1>3, <2>2
    <3>2. cell[h] # "set" BY <1>5, <2>2 DEF Tables
    <3>3. Weight(h) = 0 BY <1>7, <3>2
    <3>4. x.bytes = d.bytes BY <1>1, <1>2, <3>3, LessFacts
    <3> QED BY <1>9, <3>1, <3>4
  <2> QED BY <2>1, <2>2
<1>11. x \in Cached0 BY <1>2, <1>3, <1>8 DEF Cached0
<1> QED BY <1>3, <1>8, <1>10, <1>11 DEF Within

(* The outcome of evicting down to a limit.                                *)
LEMMA EvictKeeps ==
    ASSUME Types, NEW C \in SUBSET Request, Tables \subseteq C,
           NEW c, Within(c, C), NEW limit \in Nat
    PROVE  LET x == EvictToBudget(c, limit) IN
           /\ Within(x, C) /\ Len(x.lru) <= Len(c.lru)
           /\ ToSet(x.lru) \subseteq ToSet(c.lru) /\ x.bytes <= c.bytes
           /\ x.bytes <= limit \/ Len(x.lru) <= 1
<1> DEFINE n == Len(c.lru)
           Ok(d, i) == /\ Within(d, C) /\ Len(d.lru) <= n
                       /\ ToSet(d.lru) \subseteq ToSet(c.lru) /\ d.bytes <= c.bytes
                       /\ d.bytes <= limit \/ Len(d.lru) <= 1 \/ Len(d.lru) <= n - i
<1>1. c \in Cached0 /\ n \in Nat /\ c.bytes \in Nat BY DEF Within, Cached0
<1>2. \A d \in Cached0 : EvictStep(d, limit) \in Cached0
  <2> SUFFICES ASSUME NEW d \in Cached0, d.bytes > limit, Len(d.lru) > 1
               PROVE  Evicted(d) \in Cached0
    BY DEF EvictStep
  <2>1. d.lru \in Seq(Request) /\ d.bytes \in Nat /\ d.lru # <<>> BY DEF Cached0
  <2>2. Tail(d.lru) \in Seq(Request) /\ Head(d.lru) \in Request BY <2>1
  <2>3. Weight(Head(d.lru)) \in Nat
    <3>1. Size[ask[Head(d.lru)].hash] \in Nat BY <2>2, ServingAssumption DEF Types
    <3> QED BY <3>1 DEF Weight, HashOf
  <2>4. Less(d.bytes, Weight(Head(d.lru))) \in Nat BY <2>1, <2>3, LessFacts
  <2> QED BY <2>2, <2>4 DEF Evicted, Cached0
<1>3. PICK fold : /\ EvictToBudget(c, limit) = fold[1..n]
                  /\ fold[{}] = c
                  /\ \A i \in 1..n : fold[1..i] = EvictStep(fold[1..(i - 1)], limit)
  BY <1>1, <1>2, EvictSolves
<1>4. ASSUME NEW d, NEW i \in Nat, Ok(d, i) PROVE Ok(EvictStep(d, limit), i + 1)
  <2>0. /\ d \in Cached0 /\ Len(d.lru) \in Nat /\ d.bytes \in Nat
        /\ d.lru \in Seq(Request)
    BY <1>4 DEF Within, Cached0
  <2>1. CASE d.bytes > limit /\ Len(d.lru) > 1
    <3> DEFINE x == Evicted(d)
    <3>1. EvictStep(d, limit) = x BY <2>1 DEF EvictStep
    <3>2. /\ Within(x, C) /\ Len(x.lru) = Len(d.lru) - 1
          /\ ToSet(x.lru) \subseteq ToSet(d.lru) /\ x.bytes <= d.bytes
      <4>1. d.lru # <<>> BY <2>0, <2>1
      <4> QED BY <1>4, <4>1, EvictedKeeps
    <3> HIDE DEF x
    <3>3. x.bytes \in Nat BY <3>2 DEF Within, Cached0
    <3>4. x.bytes <= c.bytes BY <1>1, <1>4, <2>0, <3>2, <3>3
    <3>5. Len(d.lru) <= n - i BY <1>1, <1>4, <2>0, <2>1
    <3>6. Len(x.lru) <= n /\ Len(x.lru) <= n - (i + 1) BY <1>1, <1>4, <2>0, <3>2, <3>5
    <3> QED BY <1>4, <3>1, <3>2, <3>4, <3>6
  <2>2. CASE ~(d.bytes > limit /\ Len(d.lru) > 1)
    <3>1. EvictStep(d, limit) = d BY <2>2 DEF EvictStep
    <3>2. d.bytes <= limit \/ Len(d.lru) <= 1 BY <2>0, <2>2
    <3> QED BY <1>4, <3>1, <3>2
  <2> QED BY <2>1, <2>2
<1>5. Ok(c, 0) BY <1>1
<1> DEFINE P == {i \in Nat : i <= n => Ok(fold[1..i], i)}
<1>6. 0 \in P
  <2>1. 1..0 = {} OBVIOUS
  <2> QED BY <1>3, <1>5, <2>1
<1>7. ASSUME NEW i \in Nat, i \in P PROVE i + 1 \in P
  <2> SUFFICES ASSUME i + 1 <= n PROVE Ok(fold[1..(i + 1)], i + 1)
    OBVIOUS
  <2>1. Ok(fold[1..i], i) BY <1>1, <1>7
  <2>2. i + 1 \in 1..n /\ (i + 1) - 1 = i BY <1>1
  <2>3. fold[1..(i + 1)] = EvictStep(fold[1..i], limit) BY <1>3, <2>2
  <2> HIDE DEF Ok
  <2> QED BY <1>4, <2>1, <2>3
<1>8. n \in P
  <2> HIDE DEF P
  <2> QED BY <1>1, <1>6, <1>7, Induct
<1>9. Ok(fold[1..n], n) BY <1>1, <1>8
<1>10. Len(fold[1..n].lru) \in Nat BY <1>9 DEF Within, Cached0
<1> QED BY <1>1, <1>3, <1>9, <1>10

-----------------------------------------------------------------------------
(* Steps *)

Making == {"walk", "account", "set"}

LEMMA BudgetFacts ==
    /\ Ceiling \div FloorShare \in Nat /\ Ceiling \div FloorShare <= Ceiling
    /\ \A n \in Int : Clamp(n) \in (Ceiling \div FloorShare)..Ceiling
<1>1. Ceiling \in Nat /\ FloorShare \in Nat /\ FloorShare >= 1 BY ServingAssumption
<1> DEFINE q == Ceiling \div FloorShare
<1>2. q \in Nat /\ q <= Ceiling
  <2>1. \A c, f \in Nat : f >= 1 => c \div f \in Nat /\ c \div f <= c OBVIOUS
  <2> QED BY <1>1, <2>1
<1> HIDE DEF q
<1>3. ASSUME NEW n \in Int PROVE Min({Max({n, q}), Ceiling}) \in q..Ceiling
  <2>1. PICK m \in Int : m = Max({n, q}) /\ m >= q
    <3>1. CASE n >= q
      <4>1. Max({n, q}) = n BY <1>2, <3>1 DEF Max
      <4> QED BY <3>1, <4>1
    <3>2. CASE ~(n >= q)
      <4>1. Max({n, q}) = q BY <1>2, <3>2 DEF Max
      <4> QED BY <1>2, <4>1
    <3> QED BY <3>1, <3>2
  <2>2. CASE m <= Ceiling
    <3>1. Min({m, Ceiling}) = m BY <1>1, <2>2 DEF Min
    <3> QED BY <1>1, <1>2, <2>1, <2>2, <3>1
  <2>3. CASE ~(m <= Ceiling)
    <3>1. Min({m, Ceiling}) = Ceiling BY <1>1, <2>3 DEF Min
    <3> QED BY <1>1, <1>2, <2>1, <3>1
  <2> QED BY <2>2, <2>3
<1> QED BY <1>2, <1>3 DEF Clamp, q

LEMMA InitInv == Init => IInv
<1> SUFFICES ASSUME Init PROVE IInv
  OBVIOUS
<1>1. Types
  <2>1. <<>> \in Seq(Request) /\ IsInjective(<<>>) /\ <<>> \in Seq([hash : Hash, json : BOOLEAN])
    BY DEF IsInjective
  <2>2. Ceiling \in (Ceiling \div FloorShare)..Ceiling BY BudgetFacts, ServingAssumption
  <2> QED BY <2>1, <2>2, ServingAssumption DEF Init, Types, Stages
<1>2. OneEntry /\ BusyCellsHaveABuilder BY DEF Init, OneEntry, BusyCellsHaveABuilder
<1>3. ToSet(lru) = {} BY DEF Init, ToSet
<1>4. Fresh BY <1>3 DEF Init, Fresh
<1>5. Seen
  <2>1. IsFiniteSet({}) BY FS_EmptySet
  <2>2. Bytes(ask, {}) = 0 BY <1>1, <2>1, BytesNat DEF Types, Asked
  <2>3. ToSet(lru) \cap CountedOnes = {} BY <1>3
  <2>4. tableBytes = 0 BY DEF Init
  <2> QED BY <2>2, <2>3, <2>4 DEF Seen
<1> QED BY <1>1, <1>2, <1>4, <1>5 DEF IInv

(* A step that leaves the caches alone, and the builders at work.          *)
LEMMA AsideInv ==
    ASSUME IInv, Types', UNCHANGED <<ask, entry, lru, cell, tableBytes>>,
           \A r \in Request : /\ Unborn(r)' => Unborn(r)
                              /\ pc[r] \in Making \/ pc'[r] \in Making => pc'[r] = pc[r]
    PROVE  IInv'
<1>1. (OneEntry /\ Fresh)' BY DEF IInv, OneEntry, Fresh
<1>2. BusyCellsHaveABuilder' BY DEF IInv, BusyCellsHaveABuilder, Making
<1>3. \A r \in Request : pc[r] = "set" <=> pc'[r] = "set" BY DEF Making
<1>4. CountedOnes' = CountedOnes BY <1>3 DEF CountedOnes, Counted
<1>5. Seen' BY <1>4 DEF IInv, Seen
<1> QED BY <1>1, <1>2, <1>5 DEF IInv

(* A resident entry is taken.                                              *)
LEMMA HitInv ==
    ASSUME IInv, NEW r \in Request, pc[r] \in {"lookup", "insert"},
           NEW e \in ToSet(lru), Use(r, e), lru' = Touched(lru, e), Goto(r, Onward(r)),
           UNCHANGED <<db, ask, reply, cell, tableBytes, budget, builds, ticks, faults>>
    PROVE  IInv'
<1>1. /\ lru' \in Seq(Request) /\ IsInjective(lru') /\ Len(lru') = Len(lru)
      /\ ToSet(lru') = ToSet(lru)
  BY TouchFacts DEF IInv, Types
<1>2. e \in Request BY ToSetIsFinite DEF IInv, Types
<1>3. pc' = [pc EXCEPT ![r] = Onward(r)] /\ Onward(r) \in {"cell", "loop"}
  BY DEF Goto, Onward
<1>4. entry' = [entry EXCEPT ![r] = {e}] BY DEF Use
<1>5. Types' BY <1>1, <1>2, <1>3, <1>4 DEF IInv, Types, Stages, builds
<1>6. /\ pc'[r] \in {"cell", "loop"} /\ entry'[r] = {e}
      /\ \A q \in Request \ {r} : pc'[q] = pc[q] /\ entry'[q] = entry[q]
  BY <1>3, <1>4 DEF IInv, Types
<1>7. OneEntry' BY <1>6 DEF IInv, OneEntry
<1>8. Fresh'
  <2> SUFFICES ASSUME NEW q \in Request, Unborn(q)'
               PROVE  q \notin ToSet(lru') /\ cell'[q] = "empty"
                        /\ \A x \in Request : q \notin entry'[x]
    BY DEF Fresh
  <2>1. q # r /\ Unborn(q) BY <1>6 DEF Unborn
  <2>2. /\ q \notin ToSet(lru) /\ cell[q] = "empty"
        /\ \A x \in Request : q \notin entry[x]
    BY <2>1 DEF IInv, Fresh
  <2> QED BY <1>1, <1>6, <2>2
<1>9. BusyCellsHaveABuilder' BY <1>6 DEF IInv, BusyCellsHaveABuilder
<1>10. CountedOnes' = CountedOnes
  <2>1. ASSUME NEW x \in Request PROVE Counted(x)' <=> Counted(x) BY <1>6 DEF Counted
  <2> QED BY <2>1 DEF CountedOnes
<1>11. Seen' BY <1>1, <1>10 DEF IInv, Seen
<1> QED BY <1>5, <1>7, <1>8, <1>9, <1>11 DEF IInv

(* An entry is inserted, and may displace the least recently used one.     *)
LEMMA PushInv ==
    ASSUME IInv, NEW r \in Request, pc[r] = "insert",
           Use(r, r), SetCache(Pushed(r)), Goto(r, Onward(r)),
           UNCHANGED <<db, ask, reply, cell, budget, builds, ticks, faults>>
    PROVE  IInv' /\ tableBytes' <= tableBytes
<1> DEFINE c == [lru |-> lru, bytes |-> tableBytes]
           C == CountedOnes
           room == IF Len(lru) = Entries THEN Evicted(c) ELSE c
<1>1. /\ lru \in Seq(Request) /\ IsInjective(lru) /\ Len(lru) <= Entries
      /\ Entries \in Nat \ {0} /\ tableBytes \in Nat
  BY ServingAssumption DEF IInv, Types
<1>2. Within(c, C) /\ C \in SUBSET Request /\ Tables \subseteq C
  BY <1>1 DEF IInv, Seen, Within, Cached0, CountedOnes, Counted, Tables
<1>3. /\ Within(room, C) /\ Len(room.lru) < Entries
      /\ ToSet(room.lru) \subseteq ToSet(lru) /\ room.bytes <= tableBytes
  <2>1. CASE Len(lru) = Entries
    <3>1. c.lru = lru /\ c.bytes = tableBytes /\ lru # <<>> BY <1>1, <2>1
    <3>2. room = Evicted(c) BY <2>1
    <3> HIDE DEF c, C, room
    <3>3. /\ Within(Evicted(c), C) /\ Len(Evicted(c).lru) = Len(c.lru) - 1
          /\ ToSet(Evicted(c).lru) \subseteq ToSet(c.lru) /\ Evicted(c).bytes <= c.bytes
      <4>1. Types /\ c.lru # <<>> BY <3>1 DEF IInv
      <4> QED BY <1>2, <4>1, EvictedKeeps
    <3> QED BY <1>1, <2>1, <3>1, <3>2, <3>3
  <2>2. CASE Len(lru) # Entries BY <1>1, <1>2, <2>2
  <2> QED BY <2>1, <2>2
<1>4. /\ room \in Cached0 /\ IsInjective(room.lru)
      /\ Bytes(ask, ToSet(room.lru) \cap C) <= room.bytes
  BY <1>3 DEF Within
<1>5. lru' = Append(room.lru, r) /\ tableBytes' = room.bytes
  BY <1>4 DEF SetCache, Pushed, Cached0
<1>6. r \notin ToSet(lru) /\ cell[r] = "empty" /\ \A q \in Request : r \notin entry[q]
  BY DEF IInv, Fresh, Unborn
<1> HIDE DEF room, c, C
<1>7. /\ lru' \in Seq(Request) /\ Len(lru') <= Entries /\ tableBytes' \in Nat
      /\ Len(lru') = Len(room.lru) + 1
      /\ lru'[Len(room.lru) + 1] = r
      /\ \A i \in 1..Len(room.lru) : lru'[i] = room.lru[i]
  BY <1>1, <1>3, <1>4, <1>5 DEF Cached0
<1>8. room.lru \in Seq(Request) BY <1>4 DEF Cached0
<1>9. IsInjective(lru')
  <2>1. \A i \in 1..Len(room.lru) : room.lru[i] # r BY <1>3, <1>6, <1>8 DEF ToSet
  <2> SUFFICES ASSUME NEW i \in 1..(Len(room.lru) + 1), NEW j \in 1..(Len(room.lru) + 1),
                      lru'[i] = lru'[j]
               PROVE  i = j
    BY <1>7, <1>8 DEF IsInjective
  <2> QED BY <1>4, <1>7, <1>8, <2>1 DEF IsInjective
<1>10. ToSet(lru') = ToSet(room.lru) \cup {r}
  <2>1. /\ ToSet(lru') = {lru'[i] : i \in 1..(Len(room.lru) + 1)}
        /\ ToSet(room.lru) = {room.lru[i] : i \in 1..Len(room.lru)}
    BY <1>7, <1>8 DEF ToSet
  <2>2. ASSUME NEW x \in ToSet(lru') PROVE x \in ToSet(room.lru) \cup {r}
    <3>1. PICK i \in 1..(Len(room.lru) + 1) : x = lru'[i] BY <2>1
    <3> QED BY <1>7, <1>8, <2>1, <3>1
  <2>3. ASSUME NEW x \in ToSet(room.lru) PROVE x \in ToSet(lru')
    <3>1. PICK i \in 1..Len(room.lru) : x = room.lru[i] BY <2>1
    <3>2. x = lru'[i] /\ i \in 1..(Len(room.lru) + 1) BY <1>7, <1>8, <3>1
    <3> QED BY <2>1, <3>2
  <2>4. r \in ToSet(lru') BY <1>7, <1>8, <2>1
  <2> QED BY <2>2, <2>3, <2>4
<1>11. pc' = [pc EXCEPT ![r] = Onward(r)] /\ Onward(r) \in {"cell", "loop"}
  BY DEF Goto, Onward
<1>12. entry' = [entry EXCEPT ![r] = {r}] BY DEF Use
<1>13. Types' BY <1>7, <1>9, <1>11, <1>12 DEF IInv, Types, Stages, builds
<1>14. /\ pc'[r] \in {"cell", "loop"} /\ entry'[r] = {r}
       /\ \A q \in Request \ {r} : pc'[q] = pc[q] /\ entry'[q] = entry[q]
  BY <1>11, <1>12 DEF IInv, Types
<1>15. OneEntry' BY <1>14 DEF IInv, OneEntry
<1>16. Fresh'
  <2> SUFFICES ASSUME NEW q \in Request, Unborn(q)'
               PROVE  q \notin ToSet(lru') /\ cell'[q] = "empty"
                        /\ \A x \in Request : q \notin entry'[x]
    BY DEF Fresh
  <2>1. q # r /\ Unborn(q) BY <1>14 DEF Unborn
  <2>2. /\ q \notin ToSet(lru) /\ cell[q] = "empty"
        /\ \A x \in Request : q \notin entry[x]
    BY <2>1 DEF IInv, Fresh
  <2> QED BY <1>3, <1>10, <1>14, <2>1, <2>2
<1>17. BusyCellsHaveABuilder' BY <1>14 DEF IInv, BusyCellsHaveABuilder
<1>18. CountedOnes' = C /\ r \notin C
  <2>1. ASSUME NEW x \in Request PROVE Counted(x)' <=> Counted(x) BY <1>14 DEF Counted
  <2>2. ~Counted(r) BY <1>6 DEF Counted
  <2> QED BY <2>1, <2>2 DEF CountedOnes, C
<1>19. Seen'
  <2>1. ToSet(lru') \cap CountedOnes' = ToSet(room.lru) \cap C BY <1>10, <1>18
  <2> QED BY <1>4, <1>5, <2>1 DEF Seen
<1> QED BY <1>3, <1>5, <1>13, <1>15, <1>16, <1>17, <1>19 DEF IInv

(* A request at work on an entry: its cell changes, or its stage.          *)
LEMMA WorkFacts ==
    ASSUME IInv, NEW r \in Request, NEW e \in entry[r]
    PROVE  /\ e \in Request /\ entry[r] = {e} /\ ~Unborn(e)
<1>1. e \in Request BY DEF IInv, Types
<1>2. entry[r] = {e} BY DEF IInv, OneEntry
<1>3. ~Unborn(e) BY <1>1 DEF IInv, Fresh
<1> QED BY <1>1, <1>2, <1>3

(* Bytes of a set that lost at most one member.                            *)
LEMMA BytesLess ==
    ASSUME NEW asks \in Asked, NEW S \in SUBSET Request, IsFiniteSet(S), NEW e,
           NEW R, R = S \/ R = S \ {e}
    PROVE  Bytes(asks, R) <= Bytes(asks, S)
<1>1. CASE e \in S
  <2>1. /\ Bytes(asks, S) = Bytes(asks, S \ {e}) + Size[asks[e].hash]
        /\ Bytes(asks, S \ {e}) \in Nat /\ Bytes(asks, S) \in Nat
        /\ Size[asks[e].hash] \in Nat
    BY <1>1, BytesAdd
  <2>2. CASE R = S BY <2>1, <2>2
  <2>3. CASE R = S \ {e} BY <2>1, <2>3
  <2> QED BY <2>2, <2>3
<1>2. CASE e \notin S
  <2>1. R = S BY <1>2
  <2>2. Bytes(asks, S) \in Nat BY BytesNat
  <2> QED BY <2>1, <2>2
<1> QED BY <1>1, <1>2

LEMMA SeenFinite ==
    ASSUME Types
    PROVE  /\ ToSet(lru) \cap CountedOnes \in SUBSET Request
           /\ IsFiniteSet(ToSet(lru) \cap CountedOnes)
           /\ IsFiniteSet(ToSet(lru)) /\ ToSet(lru) \subseteq Request
           /\ Bytes(ask, ToSet(lru) \cap CountedOnes) \in Nat /\ ask \in Asked
<1>1. IsFiniteSet(ToSet(lru)) /\ ToSet(lru) \subseteq Request BY ToSetIsFinite DEF Types
<1>2. IsFiniteSet(ToSet(lru) \cap CountedOnes) BY <1>1, FS_Subset
<1>3. ToSet(lru) \cap CountedOnes \in SUBSET Request /\ ask \in Asked BY DEF Types, Asked, CountedOnes
<1> QED BY <1>1, <1>2, <1>3, BytesNat

(* Whoever stops building a table reopens its cell.                        *)
LEMMA ReopenInv ==
    ASSUME IInv, Types', NEW r \in Request, pc[r] = "walk", NEW e \in entry[r],
           cell' = Reopened(e), pc' = [pc EXCEPT ![r] = "done"],
           UNCHANGED <<ask, entry, lru, tableBytes>>
    PROVE  IInv'
<1>1. e \in Request /\ entry[r] = {e} BY WorkFacts
<1>2. /\ cell'[e] = "empty" /\ pc'[r] = "done"
      /\ \A q \in Request \ {e} : cell'[q] = cell[q]
      /\ \A q \in Request \ {r} : pc'[q] = pc[q]
  BY <1>1 DEF Reopened, IInv, Types
<1>3. OneEntry' BY DEF IInv, OneEntry
<1>4. Fresh' BY <1>2 DEF IInv, Fresh, Unborn
<1>5. BusyCellsHaveABuilder'
  <2> SUFFICES ASSUME NEW d \in Request, cell'[d] = "busy"
               PROVE  \E q \in Request : pc'[q] \in Making /\ d \in entry[q]
    BY DEF BusyCellsHaveABuilder, Making
  <2>1. d # e /\ cell[d] = "busy" BY <1>2
  <2>2. PICK q \in Request : pc[q] \in Making /\ d \in entry[q]
    BY <2>1 DEF IInv, BusyCellsHaveABuilder, Making
  <2>3. q # r BY <1>1, <2>1, <2>2
  <2> QED BY <1>2, <2>2, <2>3
<1>6. CountedOnes' = CountedOnes \/ CountedOnes' = CountedOnes \ {e}
  <2>1. ASSUME NEW x \in Request \ {e} PROVE Counted(x)' <=> Counted(x)
    BY <1>2 DEF Counted
  <2>2. Counted(e)' => Counted(e) BY <1>2 DEF Counted
  <2>3. CASE Counted(e)' BY <2>1, <2>2, <2>3 DEF CountedOnes
  <2>4. CASE ~Counted(e)' BY <2>1, <2>4 DEF CountedOnes
  <2> QED BY <2>3, <2>4
<1>7. Seen'
  <2> DEFINE S == ToSet(lru) \cap CountedOnes
             R == ToSet(lru) \cap CountedOnes'
  <2>1. R = S \/ R = S \ {e} BY <1>6
  <2>2. S \in SUBSET Request /\ IsFiniteSet(S) /\ ask \in Asked /\ Bytes(ask, S) \in Nat
    BY SeenFinite DEF IInv
  <2>3. Bytes(ask, S) <= tableBytes /\ tableBytes \in Nat BY DEF IInv, Seen, Types
  <2> HIDE DEF S
  <2>4. R \in SUBSET Request /\ IsFiniteSet(R) BY <2>1, <2>2, FS_Subset
  <2> HIDE DEF R
  <2>5. Bytes(ask, R) <= Bytes(ask, S) BY <2>1, <2>2, BytesLess
  <2>6. Bytes(ask, R) \in Nat BY <2>2, <2>4, BytesNat
  <2>7. Bytes(ask, R) <= tableBytes BY <2>2, <2>3, <2>5, <2>6
  <2> QED BY <2>7 DEF Seen, R
<1> QED BY <1>3, <1>4, <1>5, <1>7 DEF IInv

LEMMA EnterCellInv == ASSUME IInv, NEW r \in Request, EnterCell(r) PROVE IInv'
<1>1. PICK e \in entry[r] :
         \/ cell[e] = "set" /\ Finish(r, "ok") /\ UNCHANGED cell
         \/ /\ cell[e] = "empty"
            /\ cell' = [cell EXCEPT ![e] = "busy"]
            /\ Goto(r, "walk") /\ UNCHANGED reply
  BY DEF EnterCell
<1>2. e \in Request /\ entry[r] = {e} /\ ~Unborn(e) BY WorkFacts
<1>3. /\ pc[r] = "cell"
      /\ UNCHANGED <<db, ask, entry, lru, tableBytes, budget, builds, ticks, faults>>
  BY DEF EnterCell
<1>4. Types'
  <2>1. /\ pc \in [Request -> Stages] /\ cell \in [Request -> {"empty", "busy", "set"}]
        /\ reply \in [Request -> {"none", "ok", "gone", "absent", "error", "left"}]
    BY DEF IInv, Types
  <2>2. pc' \in [Request -> Stages] BY <1>1, <2>1 DEF Finish, Goto, Stages
  <2>3. /\ reply' \in [Request -> {"none", "ok", "gone", "absent", "error", "left"}]
        /\ cell' \in [Request -> {"empty", "busy", "set"}]
    BY <1>1, <2>1 DEF Finish
  <2> QED BY <1>3, <2>2, <2>3 DEF IInv, Types, builds
<1>5. CASE cell[e] = "set" /\ Finish(r, "ok") /\ UNCHANGED cell
  <2>1. \A q \in Request : pc'[q] = IF q = r THEN "done" ELSE pc[q]
    BY <1>5 DEF Finish, Goto, IInv, Types
  <2> QED BY <1>3, <1>4, <1>5, <2>1, AsideInv DEF Unborn, Making
<1>6. CASE /\ cell[e] = "empty" /\ cell' = [cell EXCEPT ![e] = "busy"] /\ Goto(r, "walk")
  <2>1. /\ cell'[e] = "busy" /\ pc'[r] = "walk"
        /\ \A q \in Request \ {e} : cell'[q] = cell[q]
        /\ \A q \in Request \ {r} : pc'[q] = pc[q]
    BY <1>2, <1>6 DEF Goto, IInv, Types
  <2>2. OneEntry' BY <1>3 DEF IInv, OneEntry
  <2>3. Fresh'
    <3> SUFFICES ASSUME NEW q \in Request, Unborn(q)'
                 PROVE  q \notin ToSet(lru') /\ cell'[q] = "empty"
                        /\ \A x \in Request : q \notin entry'[x]
      BY DEF Fresh
    <3>1. Unborn(q) /\ q # e BY <1>2, <1>3, <2>1 DEF Unborn
    <3> QED BY <1>3, <2>1, <3>1 DEF IInv, Fresh
  <2>4. BusyCellsHaveABuilder'
    BY <1>2, <1>3, <2>1 DEF IInv, BusyCellsHaveABuilder
  <2>5. CountedOnes' = CountedOnes
    <3>1. ASSUME NEW x \in Request PROVE Counted(x)' <=> Counted(x)
      BY <1>3, <1>6, <2>1 DEF Counted
    <3> QED BY <3>1 DEF CountedOnes
  <2>6. Seen' BY <1>3, <2>5 DEF IInv, Seen
  <2> QED BY <1>4, <2>2, <2>3, <2>4, <2>6 DEF IInv
<1> QED BY <1>1, <1>5, <1>6

LEMMA WalkTreeInv == ASSUME IInv, NEW r \in Request, WalkTree(r) PROVE IInv'
<1>1. PICK e \in entry[r] :
         \/ Goto(r, "account") /\ UNCHANGED <<reply, cell, faults>>
         \/ /\ UNCHANGED faults \/ Fault("damage")
            /\ cell' = Reopened(e) /\ Finish(r, "error")
  BY DEF WalkTree
<1>2. /\ pc[r] = "walk"
      /\ UNCHANGED <<db, ask, entry, lru, tableBytes, budget, builds, ticks>>
  BY DEF WalkTree
<1>3. e \in Request BY WorkFacts
<1>4. CASE Goto(r, "account") /\ UNCHANGED <<reply, cell, faults>>
  <2>1. Types' BY <1>2, <1>4 DEF IInv, Types, Stages, Goto, builds
  <2>2. \A q \in Request : pc'[q] = IF q = r THEN "account" ELSE pc[q]
    BY <1>4 DEF Goto, IInv, Types
  <2>3. (OneEntry /\ Fresh)' BY <1>2, <1>4, <2>2 DEF IInv, OneEntry, Fresh, Unborn
  <2>4. BusyCellsHaveABuilder' BY <1>2, <1>4, <2>2 DEF IInv, BusyCellsHaveABuilder
  <2>5. CountedOnes' = CountedOnes
    <3>1. ASSUME NEW x \in Request PROVE Counted(x)' <=> Counted(x)
      BY <1>2, <1>4, <2>2 DEF Counted
    <3> QED BY <3>1 DEF CountedOnes
  <2>6. Seen' BY <1>2, <2>5 DEF IInv, Seen
  <2> QED BY <2>1, <2>3, <2>4, <2>6 DEF IInv
<1>5. CASE /\ UNCHANGED faults \/ Fault("damage")
           /\ cell' = Reopened(e) /\ Finish(r, "error")
  <2>1. faults' \in 0..MaxFaults BY <1>5, ServingAssumption DEF Fault, IInv, Types
  <2>2. Types'
    BY <1>2, <1>3, <1>5, <2>1 DEF IInv, Types, Stages, Finish, Goto, Reopened, builds
  <2> QED BY <1>2, <1>5, <2>2, ReopenInv DEF Finish, Goto
<1> QED BY <1>1, <1>4, <1>5

LEMMA SetCellInv == ASSUME IInv, NEW r \in Request, SetCell(r) PROVE IInv'
<1>1. PICK e \in entry[r] : cell' = [cell EXCEPT ![e] = "set"] BY DEF SetCell
<1>2. /\ pc[r] = "set" /\ Finish(r, "ok")
      /\ UNCHANGED <<db, ask, entry, lru, tableBytes, budget, builds, ticks, faults>>
  BY DEF SetCell
<1>3. e \in Request /\ entry[r] = {e} /\ ~Unborn(e) BY WorkFacts
<1>4. Types' BY <1>1, <1>2, <1>3 DEF IInv, Types, Stages, Finish, Goto, builds
<1>5. /\ cell'[e] = "set" /\ pc'[r] = "done"
      /\ \A q \in Request \ {e} : cell'[q] = cell[q]
      /\ \A q \in Request \ {r} : pc'[q] = pc[q]
  BY <1>1, <1>2, <1>3 DEF Finish, Goto, IInv, Types
<1>6. OneEntry' BY <1>2 DEF IInv, OneEntry
<1>7. Fresh'
  <2> SUFFICES ASSUME NEW q \in Request, Unborn(q)'
               PROVE  q \notin ToSet(lru') /\ cell'[q] = "empty"
                        /\ \A x \in Request : q \notin entry'[x]
    BY DEF Fresh
  <2>1. Unborn(q) /\ q # e BY <1>3, <1>2, <1>5 DEF Unborn
  <2> QED BY <1>2, <1>5, <2>1 DEF IInv, Fresh
<1>8. BusyCellsHaveABuilder'
  <2> SUFFICES ASSUME NEW d \in Request, cell'[d] = "busy"
               PROVE  \E q \in Request : pc'[q] \in Making /\ d \in entry'[q]
    BY DEF BusyCellsHaveABuilder, Making
  <2>1. d # e /\ cell[d] = "busy" BY <1>5
  <2>2. PICK q \in Request : pc[q] \in Making /\ d \in entry[q]
    BY <2>1 DEF IInv, BusyCellsHaveABuilder, Making
  <2>3. q # r BY <1>3, <2>1, <2>2
  <2> QED BY <1>2, <1>5, <2>2, <2>3
<1>9. CountedOnes' = CountedOnes
  <2>1. ASSUME NEW x \in Request \ {e} PROVE Counted(x)' <=> Counted(x)
    BY <1>2, <1>3, <1>5 DEF Counted
  <2>2. Counted(e) /\ Counted(e)' BY <1>2, <1>3, <1>5 DEF Counted
  <2> QED BY <2>1, <2>2 DEF CountedOnes
<1>10. Seen' BY <1>2, <1>9 DEF IInv, Seen
<1> QED BY <1>4, <1>6, <1>7, <1>8, <1>10 DEF IInv

(* The table is counted while its entry is resident, and others make room. *)
LEMMA AccountInv ==
    ASSUME IInv, NEW r \in Request, Account(r)
    PROVE  /\ IInv'
           /\ tableBytes' > tableBytes => tableBytes' <= budget' \/ Len(lru') <= 1
<1>1. PICK e \in entry[r] :
         IF e \in ToSet(lru)
         THEN SetCache(EvictToBudget([lru |-> lru, bytes |-> tableBytes + Size[HashOf(e)]], budget))
         ELSE UNCHANGED <<lru, tableBytes>>
  BY DEF Account
<1>2. /\ pc[r] = "account" /\ Goto(r, "set")
      /\ UNCHANGED <<db, ask, reply, entry, cell, budget, builds, ticks, faults>>
  BY DEF Account
<1>3. e \in Request /\ entry[r] = {e} BY WorkFacts
<1>4. /\ pc' \in [Request -> Stages] /\ pc'[r] = "set"
      /\ \A q \in Request \ {r} : pc'[q] = pc[q]
  BY <1>2 DEF Goto, IInv, Types, Stages
<1> DEFINE C == CountedOnes \cup {e}
           S == ToSet(lru) \cap CountedOnes
           c == [lru |-> lru, bytes |-> tableBytes + Size[HashOf(e)]]
           x == EvictToBudget(c, budget)
<1>5. CountedOnes' = C
  <2>1. ASSUME NEW y \in Request \ {e} PROVE Counted(y)' <=> Counted(y)
    BY <1>2, <1>3, <1>4 DEF Counted
  <2>2. Counted(e)' BY <1>2, <1>3, <1>4 DEF Counted
  <2> QED BY <1>3, <2>1, <2>2 DEF CountedOnes
<1>6. /\ S \in SUBSET Request /\ IsFiniteSet(S) /\ ask \in Asked /\ Bytes(ask, S) \in Nat
      /\ IsFiniteSet(ToSet(lru))
  BY SeenFinite DEF IInv
<1>7. /\ Bytes(ask, S) <= tableBytes /\ tableBytes \in Nat /\ lru \in Seq(Request)
      /\ IsInjective(lru) /\ Len(lru) <= Entries /\ budget \in Nat
  BY BudgetFacts, ServingAssumption DEF IInv, Seen, Types
<1>8. HashOf(e) = ask[e].hash /\ Size[ask[e].hash] \in Nat
  BY <1>3, <1>6, ServingAssumption DEF HashOf, Asked
<1>9. OneEntry' BY <1>2 DEF IInv, OneEntry
<1>10. BusyCellsHaveABuilder'
  <2> SUFFICES ASSUME NEW d \in Request, cell'[d] = "busy"
               PROVE  \E q \in Request : pc'[q] \in Making /\ d \in entry'[q]
    BY DEF BusyCellsHaveABuilder, Making
  <2>1. PICK q \in Request : pc[q] \in Making /\ d \in entry[q]
    BY <1>2 DEF IInv, BusyCellsHaveABuilder, Making
  <2> QED BY <1>2, <1>4, <2>1 DEF Making
<1>11. ASSUME lru' \in Seq(Request), IsInjective(lru'), Len(lru') <= Entries,
              tableBytes' \in Nat, ToSet(lru') \subseteq ToSet(lru)
       PROVE  (Types /\ Fresh)'
  <2>1. Types' BY <1>2, <1>4, <1>11 DEF IInv, Types, builds
  <2>2. Fresh' BY <1>2, <1>4, <1>11 DEF IInv, Fresh, Unborn
  <2> QED BY <2>1, <2>2
<1>12. CASE e \in ToSet(lru)
  <2>1. lru' = x.lru /\ tableBytes' = x.bytes BY <1>1, <1>12 DEF SetCache
  <2>2. Bytes(ask, ToSet(lru) \cap C) <= tableBytes + Size[ask[e].hash]
    <3>1. CASE e \in CountedOnes
      <4>1. ToSet(lru) \cap C = S BY <3>1
      <4> HIDE DEF S, C
      <4>2. Bytes(ask, ToSet(lru) \cap C) = Bytes(ask, S) BY <4>1
      <4> QED BY <1>6, <1>7, <1>8, <4>2
    <3>2. CASE e \notin CountedOnes
      <4> DEFINE R == ToSet(lru) \cap C
      <4>1. R \ {e} = S /\ e \in R BY <1>12, <3>2
      <4>2. R \in SUBSET Request /\ IsFiniteSet(R)
        <5>1. R \subseteq ToSet(lru) OBVIOUS
        <5>2. R \in SUBSET Request BY <1>3 DEF CountedOnes
        <5> QED BY <1>6, <5>1, <5>2, FS_Subset
      <4> HIDE DEF R, S
      <4>3. Bytes(ask, R) = Bytes(ask, S) + Size[ask[e].hash]
        BY <1>6, <4>1, <4>2, BytesAdd
      <4>4. Bytes(ask, R) <= tableBytes + Size[ask[e].hash] BY <1>6, <1>7, <1>8, <4>3
      <4> QED BY <4>4 DEF R
    <3> QED BY <3>1, <3>2
  <2>3. Within(c, C) BY <1>7, <1>8, <2>2 DEF Within, Cached0
  <2>4. C \in SUBSET Request /\ Tables \subseteq C
    BY <1>3 DEF CountedOnes, Counted, Tables
  <2>5. c.lru = lru OBVIOUS
  <2> HIDE DEF c, C
  <2>6. /\ Within(x, C) /\ Len(x.lru) <= Len(c.lru)
        /\ ToSet(x.lru) \subseteq ToSet(c.lru)
        /\ x.bytes <= budget \/ Len(x.lru) <= 1
    BY <1>7, <2>3, <2>4, EvictKeeps DEF IInv
  <2> HIDE DEF x
  <2>7. /\ lru' \in Seq(Request) /\ IsInjective(lru') /\ tableBytes' \in Nat
        /\ Len(lru') <= Entries /\ ToSet(lru') \subseteq ToSet(lru)
    <3>1. x.lru \in Seq(Request) /\ x.bytes \in Nat /\ IsInjective(x.lru)
      BY <2>6 DEF Within, Cached0
    <3> QED BY <1>7, <2>1, <2>5, <2>6, <3>1, ServingAssumption
  <2>8. Seen' BY <1>2, <1>5, <2>1, <2>6 DEF Within, Seen
  <2> QED BY <1>2, <1>9, <1>10, <1>11, <2>1, <2>6, <2>7, <2>8 DEF IInv
<1>13. CASE e \notin ToSet(lru)
  <2>1. UNCHANGED <<lru, tableBytes>> BY <1>1, <1>13
  <2>2. ToSet(lru) \cap C = S BY <1>13
  <2>3. Seen' BY <1>2, <1>5, <1>7, <2>1, <2>2 DEF Seen
  <2>4. (Types /\ Fresh)' BY <1>7, <1>11, <2>1
  <2> QED BY <1>7, <1>9, <1>10, <2>1, <2>3, <2>4 DEF IInv
<1> QED BY <1>12, <1>13

LEMMA LeaveInv == ASSUME IInv, NEW r \in Request, Leave(r) PROVE IInv'
<1>1. /\ pc[r] \in {"scan", "cell", "walk", "wait"} /\ Fault("leave") /\ Finish(r, "left")
      /\ IF pc[r] = "walk" THEN \E e \in entry[r] : cell' = Reopened(e) ELSE UNCHANGED cell
      /\ UNCHANGED <<db, ask, entry, lru, tableBytes, budget, builds, ticks>>
  BY DEF Leave
<1>2. /\ faults' \in 0..MaxFaults
      /\ cell' \in [Request -> {"empty", "busy", "set"}]
      /\ pc' = [pc EXCEPT ![r] = "done"] /\ pc' \in [Request -> Stages]
      /\ reply' \in [Request -> {"none", "ok", "gone", "absent", "error", "left"}]
  BY <1>1, ServingAssumption DEF Fault, Finish, Goto, Reopened, IInv, Types, Stages
<1>3. Types' BY <1>1, <1>2 DEF IInv, Types, builds
<1>4. CASE pc[r] = "walk" BY <1>1, <1>2, <1>3, <1>4, ReopenInv
<1>5. CASE pc[r] # "walk"
  <2>1. \A q \in Request : pc'[q] = IF q = r THEN "done" ELSE pc[q] BY <1>2 DEF IInv, Types
  <2> QED BY <1>1, <1>3, <1>5, <2>1, AsideInv DEF Unborn, Making
<1> QED BY <1>4, <1>5

(* The governor moves the budget, and the cache follows it.                *)
LEMMA GovernInv ==
    ASSUME IInv, Govern
    PROVE  /\ IInv' /\ tableBytes' <= tableBytes
           /\ budget' # budget => tableBytes' <= budget' \/ Len(lru') <= 1
<1> DEFINE c == [lru |-> lru, bytes |-> tableBytes]
           C == CountedOnes
<1>1. PICK next \in {Halved, Climbed} :
         /\ budget' = next
         /\ IF next = budget THEN UNCHANGED <<lru, tableBytes>>
            ELSE SetCache(EvictToBudget(c, next))
  BY DEF Govern
<1>2. /\ ticks < MaxTicks /\ ticks' = ticks + 1
      /\ UNCHANGED <<db, ask, pc, reply, entry, cell, builds, faults>>
  BY DEF Govern
<1>3. next \in (Ceiling \div FloorShare)..Ceiling /\ next \in Nat
  <2>1. budget \in Nat /\ Climb \in Nat BY BudgetFacts, ServingAssumption DEF IInv, Types
  <2>2. budget \div 2 \in Int /\ budget + budget \div 4 + Climb \in Int BY <2>1
  <2>3. next \in (Ceiling \div FloorShare)..Ceiling
    BY <1>1, <2>2, BudgetFacts DEF Halved, Climbed
  <2> QED BY <2>3, BudgetFacts
<1>4. /\ tableBytes \in Nat /\ lru \in Seq(Request) /\ IsInjective(lru) /\ Len(lru) <= Entries
      /\ Bytes(ask, ToSet(lru) \cap C) <= tableBytes
  BY DEF IInv, Types, Seen
<1>5. CountedOnes' = C BY <1>2 DEF CountedOnes, Counted
<1>6. /\ lru' \in Seq(Request) /\ IsInjective(lru') /\ Len(lru') <= Entries
      /\ tableBytes' \in Nat /\ tableBytes' <= tableBytes /\ ToSet(lru') \subseteq ToSet(lru)
      /\ Bytes(ask, ToSet(lru') \cap C) <= tableBytes'
      /\ budget' # budget => tableBytes' <= budget' \/ Len(lru') <= 1
  <2>1. CASE next = budget BY <1>1, <1>4, <2>1
  <2>2. CASE next # budget
    <3> DEFINE x == EvictToBudget(c, next)
    <3>1. lru' = x.lru /\ tableBytes' = x.bytes BY <1>1, <2>2 DEF SetCache
    <3>2. Within(c, C) BY <1>4 DEF Within, Cached0
    <3>3. C \in SUBSET Request /\ Tables \subseteq C BY DEF CountedOnes, Counted, Tables
    <3>4. c.lru = lru /\ c.bytes = tableBytes OBVIOUS
    <3> HIDE DEF c, C
    <3>5. /\ Within(x, C) /\ Len(x.lru) <= Len(c.lru)
          /\ ToSet(x.lru) \subseteq ToSet(c.lru) /\ x.bytes <= c.bytes
          /\ x.bytes <= next \/ Len(x.lru) <= 1
      BY <1>3, <3>2, <3>3, EvictKeeps DEF IInv
    <3> HIDE DEF x
    <3>6. /\ x.lru \in Seq(Request) /\ x.bytes \in Nat /\ IsInjective(x.lru)
          /\ Bytes(ask, ToSet(x.lru) \cap C) <= x.bytes
      BY <3>5 DEF Within, Cached0
    <3>7. Len(x.lru) <= Entries BY <1>4, <3>4, <3>5, <3>6, ServingAssumption
    <3> QED BY <1>1, <3>1, <3>4, <3>5, <3>6, <3>7
  <2> QED BY <2>1, <2>2
<1> HIDE DEF C
<1>7. Types'
  <2>1. ticks' \in 0..MaxTicks BY <1>2, ServingAssumption DEF IInv, Types
  <2>2. budget' \in (Ceiling \div FloorShare)..Ceiling BY <1>1, <1>3
  <2> QED BY <1>2, <1>6, <2>1, <2>2 DEF IInv, Types, builds
<1>8. (OneEntry /\ Fresh)' BY <1>2, <1>6 DEF IInv, OneEntry, Fresh, Unborn
<1>9. BusyCellsHaveABuilder' BY <1>2 DEF IInv, BusyCellsHaveABuilder
<1>10. Seen' BY <1>2, <1>5, <1>6 DEF Seen
<1> QED BY <1>6, <1>7, <1>8, <1>9, <1>10 DEF IInv

Manifest == [hash : Hash, json : BOOLEAN]

LEMMA MinIn == ASSUME NEW S \in SUBSET Nat, S # {} PROVE Min(S) \in S
<1>1. PICK x \in S : \A y \in S : x <= y BY LeastOf
<1> QED BY <1>1 DEF Min

LEMMA ManifestTouched ==
    ASSUME NEW s \in Seq(Manifest), NEW m \in ToSet(s)
    PROVE  Touched(s, m) \in Seq(Manifest) /\ Len(Touched(s, m)) = Len(s)
<1> DEFINE I == {j \in 1..Len(s) : s[j] = m}
           i == Min(I)
<1>1. (\E j \in 1..Len(s) : s[j] = m) /\ m \in Manifest BY DEF ToSet
<1>2. i \in 1..Len(s)
  <2>1. I \in SUBSET Nat /\ I # {} BY <1>1
  <2> HIDE DEF I
  <2>2. i \in I BY <2>1, MinIn
  <2> QED BY <2>2 DEF I
<1>3. Touched(s, m) = Append(RemoveAt(s, i), m)
  BY <1>1 DEF Touched, RemoveFirst, SelectInSeq
<1> HIDE DEF i
<1>4. RemoveAt(s, i) \in Seq(Manifest) /\ Len(RemoveAt(s, i)) = Len(s) - 1 BY <1>2, RemoveFacts
<1> QED BY <1>1, <1>3, <1>4

Without(s, h) == RemoveFirstMatch(s, LAMBDA m : m.hash = h)

LEMMA ManifestRetired ==
    ASSUME NEW s \in Seq(Manifest), NEW h
    PROVE  Without(s, h) \in Seq(Manifest) /\ Len(Without(s, h)) <= Len(s)
<1> DEFINE I == {j \in 1..Len(s) : s[j].hash = h}
           i == Min(I)
<1>1. CASE I = {} BY <1>1 DEF RemoveFirstMatch, Without
<1>2. CASE I # {}
  <2>1. i \in 1..Len(s)
    <3>1. I \in SUBSET Nat OBVIOUS
    <3> HIDE DEF I
    <3>2. i \in I BY <1>2, <3>1, MinIn
    <3> QED BY <3>2 DEF I
  <2>2. Without(s, h) = RemoveAt(s, i)
    BY <1>2 DEF Without, RemoveFirstMatch, SelectInSeq
  <2> HIDE DEF i
  <2>3. RemoveAt(s, i) \in Seq(Manifest) /\ Len(RemoveAt(s, i)) = Len(s) - 1
    BY <2>1, RemoveFacts
  <2> QED BY <2>2, <2>3
<1> QED BY <1>1, <1>2

(* Steps of manifests, and those that only look.                           *)
LEMMA ManifestInv ==
    ASSUME IInv, NEW r \in Request, Peek(r) \/ Loop(r)
    PROVE  IInv'
<1>1. /\ pc[r] \in {"peek", "loop"}
      /\ \/ AnswerCached(r)
         \/ Goto(r, IF pc[r] = "peek" THEN "lookup" ELSE "join") /\ UNCHANGED <<reply, manifests>>
      /\ UNCHANGED <<db, ask, entry, cache, building, task, built, ticks, faults>>
  BY DEF Peek, Loop
<1>2. PICK stage \in {"lookup", "join", "done"} :
         /\ pc' = [pc EXCEPT ![r] = stage] /\ (stage = "lookup" => pc[r] = "peek")
  BY <1>1 DEF AnswerCached, Finish, Goto
<1>3. /\ reply' \in [Request -> {"none", "ok", "gone", "absent", "error", "left"}]
      /\ manifests' \in Seq(Manifest) /\ Len(manifests') <= Manifests
  <2>1. /\ reply \in [Request -> {"none", "ok", "gone", "absent", "error", "left"}]
        /\ manifests \in Seq(Manifest) /\ Len(manifests) <= Manifests
    BY DEF IInv, Types, Manifest
  <2>2. CASE AnswerCached(r)
    <3>1. PICK m \in ToSet(manifests) :
            /\ manifests' = Touched(manifests, m)
            /\ reply' = [reply EXCEPT ![r] = IF m.json THEN "ok" ELSE "absent"]
      BY <2>2 DEF AnswerCached, Cached, Finish
    <3>2. manifests' \in Seq(Manifest) /\ Len(manifests') = Len(manifests)
      BY <2>1, <3>1, ManifestTouched
    <3> QED BY <2>1, <3>1, <3>2
  <2>3. CASE UNCHANGED <<reply, manifests>> BY <2>1, <2>3
  <2> QED BY <1>1, <2>2, <2>3
<1>4. Types'
  <2>1. pc' \in [Request -> Stages] BY <1>2 DEF IInv, Types, Stages
  <2> QED BY <1>1, <1>3, <2>1 DEF IInv, Types, cache, Manifest
<1>5. \A q \in Request : pc'[q] = IF q = r THEN stage ELSE pc[q] BY <1>2 DEF IInv, Types
<1>6. UNCHANGED <<ask, entry, lru, cell, tableBytes>> BY <1>1 DEF cache
<1>7. \A q \in Request : /\ Unborn(q)' => Unborn(q)
                         /\ pc[q] \in Making \/ pc'[q] \in Making => pc'[q] = pc[q]
  BY <1>1, <1>2, <1>5 DEF Unborn, Making
<1> QED BY <1>4, <1>6, <1>7, AsideInv

LEMMA ScanInv == ASSUME IInv, NEW r \in Request, Scan(r) PROVE IInv'
<1>1. /\ pc[r] = "scan"
      /\ UNCHANGED <<db, ask, entry, cache, builds, ticks>>
      /\ \/ Goto(r, "insert") /\ UNCHANGED <<reply, faults>>
         \/ \E x \in {"gone", "absent"} : Finish(r, x) /\ UNCHANGED faults
         \/ Fault("query") /\ Finish(r, "error")
  BY DEF Scan
<1>2. PICK stage \in {"insert", "done"} : pc' = [pc EXCEPT ![r] = stage]
  BY <1>1 DEF Finish, Goto
<1>3. /\ reply' \in [Request -> {"none", "ok", "gone", "absent", "error", "left"}]
      /\ faults' \in 0..MaxFaults
  <2>1. /\ reply \in [Request -> {"none", "ok", "gone", "absent", "error", "left"}]
        /\ faults \in 0..MaxFaults
    BY DEF IInv, Types
  <2>2. CASE UNCHANGED <<reply, faults>> BY <2>1, <2>2
  <2>3. ASSUME NEW x \in {"gone", "absent"}, Finish(r, x), UNCHANGED faults
        PROVE  /\ reply' \in [Request -> {"none", "ok", "gone", "absent", "error", "left"}]
               /\ faults' \in 0..MaxFaults
    BY <2>1, <2>3 DEF Finish
  <2>4. CASE Fault("query") /\ Finish(r, "error")
    BY <2>1, <2>4, ServingAssumption DEF Finish, Fault
  <2> QED BY <1>1, <2>2, <2>3, <2>4
<1>4. Types'
  <2>1. pc' \in [Request -> Stages] BY <1>2 DEF IInv, Types, Stages
  <2> QED BY <1>1, <1>3, <2>1 DEF IInv, Types, cache, builds
<1>5. \A q \in Request : pc'[q] = IF q = r THEN stage ELSE pc[q] BY <1>2 DEF IInv, Types
<1>6. UNCHANGED <<ask, entry, lru, cell, tableBytes>> BY <1>1 DEF cache
<1>7. \A q \in Request : /\ Unborn(q)' => Unborn(q)
                         /\ pc[q] \in Making \/ pc'[q] \in Making => pc'[q] = pc[q]
  BY <1>1, <1>2, <1>5 DEF Unborn, Making
<1> QED BY <1>4, <1>6, <1>7, AsideInv

LEMMA JoinInv == ASSUME IInv, NEW r \in Request, Join(r) PROVE IInv'
<1>1. /\ pc[r] = "join"
      /\ UNCHANGED <<db, ask, reply, entry, cache, manifests, built, ticks, faults>>
      /\ \/ Goto(r, "wait") /\ UNCHANGED <<building, task>>
         \/ /\ building' = building \cup {ask[r].hash}
            /\ task' = [task EXCEPT ![ask[r].hash] = "queued"]
            /\ Goto(r, "loop")
  BY DEF Join
<1>2. PICK stage \in {"wait", "loop"} : pc' = [pc EXCEPT ![r] = stage] BY <1>1 DEF Goto
<1>3. Types'
  <2>1. pc' \in [Request -> Stages] BY <1>2 DEF IInv, Types, Stages
  <2>2. ask[r].hash \in Hash BY DEF IInv, Types
  <2>3. /\ building' \subseteq Hash
        /\ task' \in [Hash -> {"none", "queued", "reading", "publish", "retire"}]
    BY <1>1, <2>2 DEF IInv, Types
  <2> QED BY <1>1, <2>1, <2>3 DEF IInv, Types, cache
<1>4. \A q \in Request : pc'[q] = IF q = r THEN stage ELSE pc[q] BY <1>2 DEF IInv, Types
<1>5. UNCHANGED <<ask, entry, lru, cell, tableBytes>> BY <1>1 DEF cache
<1>6. \A q \in Request : /\ Unborn(q)' => Unborn(q)
                         /\ pc[q] \in Making \/ pc'[q] \in Making => pc'[q] = pc[q]
  BY <1>1, <1>2, <1>4 DEF Unborn, Making
<1> QED BY <1>3, <1>5, <1>6, AsideInv

(* Builds of manifests.                                                    *)
LEMMA BuildInv == ASSUME IInv, NEW h \in Hash, Build(h) PROVE IInv'
<1>1. /\ task \in [Hash -> {"none", "queued", "reading", "publish", "retire"}]
      /\ built \in [Hash -> BOOLEAN] /\ manifests \in Seq(Manifest)
      /\ Len(manifests) <= Manifests /\ Manifests \in Nat \ {0}
      /\ building \subseteq Hash /\ faults \in 0..MaxFaults
      /\ pc \in [Request -> Stages]
  BY ServingAssumption DEF IInv, Types, Manifest
<1>2. UNCHANGED <<db, ask, reply, entry, lru, cell, tableBytes, budget, ticks>>
  BY DEF Build, BuildStart, BuildRead, Publish, Retire, cache
<1>3. task' \in [Hash -> {"none", "queued", "reading", "publish", "retire"}]
  BY <1>1 DEF Build, BuildStart, BuildRead, BuildEnds, Publish, Retire
<1>4. built' \in [Hash -> BOOLEAN]
  BY <1>1 DEF Build, BuildStart, BuildRead, Publish, Retire
<1>5. building' \subseteq Hash BY <1>1 DEF Build, BuildStart, BuildRead, Publish, Retire
<1>6. faults' \in 0..MaxFaults
  <2>1. UNCHANGED faults \/ (faults < MaxFaults /\ faults' = faults + 1)
    BY DEF Build, BuildStart, BuildRead, Publish, Retire, Fault
  <2> QED BY <1>1, <2>1, ServingAssumption
<1>7. manifests' \in Seq(Manifest) /\ Len(manifests') <= Manifests
  <2>1. CASE UNCHANGED manifests BY <1>1, <2>1
  <2>2. CASE Publish(h)
    <3> DEFINE rest == Without(manifests, h)
               room == IF Len(rest) = Manifests THEN Tail(rest) ELSE rest
    <3>1. manifests' = Append(room, [hash |-> h, json |-> built[h]]) BY <2>2 DEF Publish, Without
    <3>2. rest \in Seq(Manifest) /\ Len(rest) <= Manifests
      <4>1. rest \in Seq(Manifest) /\ Len(rest) <= Len(manifests) BY <1>1, ManifestRetired
      <4> HIDE DEF rest
      <4> QED BY <1>1, <4>1
    <3> HIDE DEF rest
    <3>3. room \in Seq(Manifest) /\ Len(room) < Manifests
      <4>1. CASE Len(rest) = Manifests
        <5>1. rest # <<>> BY <1>1, <4>1
        <5> QED BY <1>1, <3>2, <4>1, <5>1
      <4>2. CASE Len(rest) # Manifests BY <1>1, <3>2, <4>2
      <4> QED BY <4>1, <4>2
    <3>4. [hash |-> h, json |-> built[h]] \in Manifest BY <1>1 DEF Manifest
    <3> HIDE DEF room
    <3> QED BY <1>1, <3>1, <3>3, <3>4
  <2> QED BY <2>1, <2>2 DEF Build, BuildStart, BuildRead, Retire
<1>8. \A q \in Request : pc'[q] = pc[q] \/ (pc[q] = "wait" /\ pc'[q] = "loop")
  BY <1>1 DEF Build, BuildStart, BuildRead, Publish, Retire
<1>9. pc' \in [Request -> Stages]
  BY <1>1 DEF Build, BuildStart, BuildRead, Publish, Retire, Stages
<1>10. Types' BY <1>2, <1>3, <1>4, <1>5, <1>6, <1>7, <1>9 DEF IInv, Types, Manifest
<1>11. \A q \in Request : /\ Unborn(q)' => Unborn(q)
                          /\ pc[q] \in Making \/ pc'[q] \in Making => pc'[q] = pc[q]
  BY <1>8 DEF Unborn, Making
<1> QED BY <1>2, <1>10, <1>11, AsideInv

LEMMA ChangeInv == ASSUME IInv, Change PROVE IInv'
<1>1. /\ db' \subseteq Hash /\ faults' \in 0..MaxFaults
      /\ UNCHANGED <<ask, pc, reply, entry, lru, cell, tableBytes, budget, builds, ticks>>
  BY ServingAssumption DEF Change, Fault, IInv, Types, cache
<1>2. Types' BY <1>1 DEF IInv, Types, builds
<1> QED BY <1>1, <1>2, AsideInv DEF Unborn

LEMMA LookupInv == ASSUME IInv, NEW r \in Request, Lookup(r) PROVE IInv'
<1>1. /\ pc[r] = "lookup"
      /\ UNCHANGED <<db, ask, reply, cell, tableBytes, budget, builds, ticks, faults>>
  BY DEF Lookup
<1>2. CASE Resident(ask[r].hash) # {}
  <2>1. PICK e \in ToSet(lru) : Use(r, e) /\ lru' = Touched(lru, e) /\ Goto(r, Onward(r))
    BY <1>2 DEF Lookup, Resident
  <2> QED BY <1>1, <2>1, HitInv
<1>3. CASE Goto(r, "scan") /\ UNCHANGED <<entry, lru>>
  <2>1. pc' \in [Request -> Stages] BY <1>3 DEF Goto, IInv, Types, Stages
  <2>2. Types' BY <1>1, <1>3, <2>1 DEF IInv, Types, builds
  <2>3. \A q \in Request : pc'[q] = IF q = r THEN "scan" ELSE pc[q]
    BY <1>3 DEF Goto, IInv, Types
  <2> QED BY <1>1, <1>3, <2>2, <2>3, AsideInv DEF Unborn, Making
<1> QED BY <1>2, <1>3 DEF Lookup

LEMMA InsertInv ==
    ASSUME IInv, NEW r \in Request, Insert(r) PROVE IInv' /\ tableBytes' <= tableBytes
<1>0. tableBytes \in Nat BY DEF IInv, Types
<1>1. /\ pc[r] = "insert" /\ Goto(r, Onward(r))
      /\ UNCHANGED <<db, ask, reply, cell, budget, builds, ticks, faults>>
  BY DEF Insert
<1>2. CASE Resident(ask[r].hash) # {}
  <2>1. PICK e \in ToSet(lru) : Use(r, e) /\ lru' = Touched(lru, e) /\ UNCHANGED tableBytes
    BY <1>2 DEF Insert, Resident
  <2> QED BY <1>0, <1>1, <2>1, HitInv
<1>3. CASE Use(r, r) /\ SetCache(Pushed(r)) BY <1>1, <1>3, PushInv
<1> QED BY <1>2, <1>3 DEF Insert

LEMMA NextInv == IInv /\ [Next]_vars => IInv'
<1> SUFFICES ASSUME IInv, [Next]_vars PROVE IInv'
  OBVIOUS
<1>1. CASE UNCHANGED vars
  BY <1>1, AsideInv DEF vars, cache, builds, IInv, Types, Unborn
<1>2. ASSUME NEW r \in Request, Handle(r) \/ Leave(r) PROVE IInv'
  BY <1>2, LookupInv, ScanInv, InsertInv, EnterCellInv, WalkTreeInv, AccountInv, SetCellInv,
     ManifestInv, JoinInv, LeaveInv DEF Handle
<1>3. ASSUME NEW h \in Hash, Build(h) PROVE IInv' BY <1>3, BuildInv
<1>4. CASE Change \/ Govern BY <1>4, ChangeInv, GovernInv
<1> QED BY <1>1, <1>2, <1>3, <1>4 DEF Next

LEMMA Inductive == Spec => []IInv
<1> QED BY InitInv, NextInv, PTL DEF Spec

-----------------------------------------------------------------------------
(* The theorems *)

(* A table in the making has a request that makes it: whoever builds, fails *)
(* or leaves reopens the cell in the same step, so nobody waits for a       *)
(* builder that is gone (get_or_try_init under cancelled handlers).         *)
THEOREM NobodyWaitsInVain == Spec => []BusyCellsHaveABuilder
<1>1. IInv => BusyCellsHaveABuilder BY DEF IInv
<1> QED BY <1>1, Inductive, PTL

(* The cache never holds tables that table_bytes does not count, although a *)
(* table is counted before its cell shows it, entries are evicted in        *)
(* between, and several requests share one (insert, account, forget).       *)
THEOREM NothingHeldUncounted == Spec => []HeldIsCounted
<1>1. IInv => HeldIsCounted
  <2> SUFFICES ASSUME IInv PROVE HeldIsCounted
    OBVIOUS
  <2>1. TypeOK
    <3>1. ToSet(lru) \subseteq Request BY ToSetIsFinite DEF IInv, Types
    <3> QED BY <3>1 DEF IInv, Types, Stages, TypeOK
  <2>2. {e \in ToSet(lru) : Counted(e)} = ToSet(lru) \cap CountedOnes
    <3>1. ToSet(lru) \subseteq Request BY ToSetIsFinite DEF IInv, Types
    <3> QED BY <3>1 DEF CountedOnes
  <2>3. Holding = Bytes(ask, {e \in ToSet(lru) : Counted(e)}) BY DEF Holding, Bytes, HashOf
  <2> QED BY <2>1, <2>2, <2>3 DEF HeldIsCounted, IInv, Seen
<1> QED BY <1>1, Inductive, PTL

(* Whenever a table is counted, or the governor moves the budget, the same  *)
(* critical section evicts until the cache is within its budget or holds    *)
(* one entry (evict_to_budget, under the lock of account and govern).       *)
THEOREM EvictionHonoursTheBudget == Spec => BudgetIsHonoured
<1> DEFINE Honoured == tableBytes' > tableBytes \/ budget' # budget
                          => tableBytes' <= budget' \/ Len(lru') <= 1
<1>1. IInv /\ [Next]_vars => [Honoured]_vars
  <2> SUFFICES ASSUME IInv, Next PROVE Honoured
    OBVIOUS
  <2>0. tableBytes \in Nat /\ tableBytes' \in Nat
    <3>1. IInv' BY NextInv
    <3> QED BY <3>1 DEF IInv, Types
  <2>1. CASE Govern
    <3>1. tableBytes' <= tableBytes /\ (budget' # budget => tableBytes' <= budget' \/ Len(lru') <= 1)
      BY <2>1, GovernInv
    <3> QED BY <2>0, <3>1
  <2>2. ASSUME NEW r \in Request, Account(r) PROVE Honoured
    BY <2>2, AccountInv DEF Account
  <2>3. ASSUME NEW r \in Request, Insert(r) PROVE Honoured
    <3>1. tableBytes' <= tableBytes /\ budget' = budget BY <2>3, InsertInv DEF Insert
    <3> QED BY <2>0, <3>1
  <2>4. CASE UNCHANGED <<tableBytes, budget>> BY <2>0, <2>4
  <2>5. ASSUME NEW r \in Request, Handle(r) \/ Leave(r), ~Account(r), ~Insert(r)
        PROVE  UNCHANGED <<tableBytes, budget>>
    BY <2>5 DEF Handle, Leave, Lookup, Scan, EnterCell, WalkTree, SetCell, Peek, Loop, Join, cache
  <2>6. ASSUME NEW h \in Hash, Build(h) PROVE UNCHANGED <<tableBytes, budget>>
    BY <2>6 DEF Build, BuildStart, BuildRead, Publish, Retire, cache
  <2>7. CASE Change BY <2>4, <2>7 DEF Change, cache
  <2> QED BY <2>1, <2>2, <2>3, <2>4, <2>5, <2>6, <2>7 DEF Next
<1> QED BY <1>1, Inductive, PTL DEF Spec, BudgetIsHonoured
============================================================================
