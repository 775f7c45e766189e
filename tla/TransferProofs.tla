--------------------------- MODULE TransferProofs ---------------------------
(* Proofs about Transfer, for every job, set of peers, chunk and window.   *)
EXTENDS Transfer, Folding

-----------------------------------------------------------------------------
(* What a plan looks like *)

After(r) == r.at + r.len

(* The spans follow each other from start to end.                          *)
Tiles(spans, start, end) ==
    /\ DOMAIN spans = 1..Len(spans) /\ Len(spans) \in Nat
    /\ \A i \in DOMAIN spans :
         /\ spans[i].at \in Nat /\ spans[i].len \in Nat \ {0}
         /\ start <= spans[i].at /\ After(spans[i]) <= end
         /\ spans[i].do \in {"lit", "fetch", "replay"}
    /\ (IF spans = <<>> THEN end ELSE spans[1].at) = start
    /\ \A i \in DOMAIN spans :
         After(spans[i]) = IF i = Len(spans) THEN end ELSE spans[i + 1].at

(* The ranges to fetch go up, with room between them or none.              *)
Ascends(ranges, end) ==
    /\ DOMAIN ranges = 1..Len(ranges) /\ Len(ranges) \in Nat
    /\ \A i \in DOMAIN ranges :
         /\ ranges[i].at \in Nat /\ ranges[i].len \in Nat \ {0}
         /\ After(ranges[i]) <= end
         /\ \A k \in DOMAIN ranges : i < k => After(ranges[i]) <= ranges[k].at

(* Each span to fetch is part of one of them.                              *)
FetchedWhole(spans, ranges) ==
    \A i \in DOMAIN spans : spans[i].do = "fetch" =>
        \E k \in DOMAIN ranges :
           ranges[k].at <= spans[i].at /\ After(spans[i]) <= After(ranges[k])

Fits(j, p) ==
    /\ Tiles(p.spans, j.start, j.end)
    /\ Ascends(p.ranges, j.end) /\ (\A i \in DOMAIN p.ranges : p.ranges[i].at >= j.start)
    /\ FetchedWhole(p.spans, p.ranges)

FetchRange == [at : Nat, len : Nat \ {0}]
Ranges == Seq(FetchRange)

LEMMA AscendsAlong ==
    ASSUME NEW ranges, NEW end \in Nat, NEW later \in Nat, end <= later, Ascends(ranges, end)
    PROVE  Ascends(ranges, later)
BY DEF Ascends, After

(* A segment joins the last range or begins one.                           *)
LEMMA WithRangeFits ==
    ASSUME NEW ranges \in Ranges, NEW at \in Nat, NEW len \in Nat \ {0}, Ascends(ranges, at)
    PROVE  /\ WithRange(ranges, at, len) \in Ranges
           /\ Ascends(WithRange(ranges, at, len), at + len)
           /\ \A i \in DOMAIN ranges :
                /\ i \in DOMAIN WithRange(ranges, at, len)
                /\ WithRange(ranges, at, len)[i].at = ranges[i].at
                /\ After(ranges[i]) <= After(WithRange(ranges, at, len)[i])
           /\ \E k \in DOMAIN WithRange(ranges, at, len) :
                /\ WithRange(ranges, at, len)[k].at <= at
                /\ at + len <= After(WithRange(ranges, at, len)[k])
<1> DEFINE n == Len(ranges)
           new == WithRange(ranges, at, len)
           joins == ranges # <<>> /\ at >= After(Last(ranges)) /\ at - After(Last(ranges)) <= Gap
<1>0. /\ n \in Nat /\ DOMAIN ranges = 1..n
      /\ \A i \in 1..n : ranges[i].at \in Nat /\ ranges[i].len \in Nat \ {0}
      /\ \A i \in 1..n : ranges[i] \in FetchRange
      /\ \A i \in 1..n : After(ranges[i]) <= at
      /\ \A i, k \in 1..n : i < k => After(ranges[i]) <= ranges[k].at
  <2>1. n \in Nat /\ DOMAIN ranges = 1..n BY DEF Ascends
  <2>2. \A i \in 1..n : ranges[i] \in FetchRange BY DEF Ranges
  <2>3. \A i \in 1..n : ranges[i].at \in Nat /\ ranges[i].len \in Nat \ {0} BY <2>1 DEF Ascends
  <2>4. \A i \in 1..n : After(ranges[i]) <= at BY <2>1 DEF Ascends
  <2>5. \A i, k \in 1..n : i < k => After(ranges[i]) <= ranges[k].at BY <2>1 DEF Ascends
  <2> QED BY <2>1, <2>2, <2>3, <2>4, <2>5
<1>1. CASE joins
  <2>0. n \in 1..n /\ Last(ranges) = ranges[n]
    <3>1. n # 0 BY <1>0, <1>1 DEF Ranges
    <3> QED BY <1>0, <3>1 DEF Last
  <2>1. new = [ranges EXCEPT ![n].len = at + len - ranges[n].at]
    BY <1>1, <2>0 DEF WithRange, After
  <2> DEFINE grown == [at |-> ranges[n].at, len |-> at + len - ranges[n].at]
  <2>2. /\ new = [ranges EXCEPT ![n] = grown]
        /\ grown \in FetchRange /\ After(grown) = at + len
        /\ After(ranges[n]) <= After(grown)
    <3>1. ranges[n] \in [at : Nat, len : Nat \ {0}] /\ ranges[n].at + ranges[n].len <= at
      BY <1>0, <2>0 DEF After, FetchRange
    <3>2. [ranges[n] EXCEPT !.len = at + len - ranges[n].at] = grown BY <3>1
    <3>3. at + len - ranges[n].at \in Nat \ {0} BY <3>1
    <3>4. new = [ranges EXCEPT ![n] = grown] BY <2>1, <3>2
    <3> QED BY <3>1, <3>3, <3>4 DEF After, FetchRange
  <2> HIDE DEF grown, new
  <2>3. /\ DOMAIN new = 1..n /\ new[n] = grown /\ \A i \in 1..n : i # n => new[i] = ranges[i]
        /\ new \in Ranges /\ Len(new) = n
    BY <1>0, <2>0, <2>2 DEF Ranges
  <2>4. grown.at = ranges[n].at BY DEF grown
  <2>5. Ascends(new, at + len)
    <3>1. ASSUME NEW i \in 1..n
          PROVE  /\ new[i].at \in Nat /\ new[i].len \in Nat \ {0} /\ After(new[i]) <= at + len
                 /\ \A k \in 1..n : i < k => After(new[i]) <= new[k].at
      <4>1. CASE i = n
        <5>1. new[i] = grown /\ After(grown) = at + len BY <2>2, <2>3, <4>1
        <5>2. grown.at \in Nat /\ grown.len \in Nat \ {0} BY <2>2 DEF FetchRange
        <5> QED BY <1>0, <4>1, <5>1, <5>2
      <4>2. CASE i # n
        <5>1. new[i] = ranges[i] /\ After(ranges[i]) <= at BY <1>0, <2>3, <4>2
        <5>2. \A k \in 1..n : new[k].at = ranges[k].at BY <2>3, <2>4
        <5>3. After(ranges[i]) \in Nat BY <1>0 DEF After
        <5>4. After(new[i]) <= at + len BY <5>1, <5>3
        <5>5. \A k \in 1..n : i < k => After(new[i]) <= new[k].at BY <1>0, <5>1, <5>2
        <5>6. new[i].at \in Nat /\ new[i].len \in Nat \ {0} BY <1>0, <5>1
        <5> QED BY <5>4, <5>5, <5>6
      <4> QED BY <4>1, <4>2
    <3> QED BY <1>0, <2>3, <3>1 DEF Ascends
  <2>6. \A i \in 1..n : new[i].at = ranges[i].at /\ After(ranges[i]) <= After(new[i])
    <3> TAKE i \in 1..n
    <3>1. CASE i = n BY <2>2, <2>3, <2>4, <3>1
    <3>2. CASE i # n
      <4>1. new[i] = ranges[i] BY <2>3, <3>2
      <4>2. After(ranges[i]) \in Nat BY <1>0 DEF After
      <4> QED BY <4>1, <4>2
    <3> QED BY <3>1, <3>2
  <2>7. new[n].at <= at /\ at + len <= After(new[n])
    BY <1>0, <2>0, <2>2, <2>3, <2>4 DEF After
  <2> QED BY <1>0, <2>0, <2>3, <2>5, <2>6, <2>7 DEF new
<1>2. CASE ~joins
  <2> DEFINE added == [at |-> at, len |-> len]
  <2>1. new = Append(ranges, added) BY <1>2 DEF WithRange, After
  <2>2. /\ added.at = at /\ added.len = len /\ After(added) = at + len
        /\ added \in FetchRange
    BY DEF After, FetchRange
  <2> HIDE DEF added, new
  <2>3. /\ new \in Ranges /\ Len(new) = n + 1 /\ DOMAIN new = 1..(n + 1)
        /\ new[n + 1] = added /\ \A i \in 1..n : new[i] = ranges[i]
    BY <1>0, <2>1, <2>2 DEF Ranges
  <2>4. Ascends(new, at + len)
    <3>1. ASSUME NEW i \in 1..(n + 1)
          PROVE  /\ new[i].at \in Nat /\ new[i].len \in Nat \ {0} /\ After(new[i]) <= at + len
                 /\ \A k \in 1..(n + 1) : i < k => After(new[i]) <= new[k].at
      <4>1. CASE i = n + 1 BY <1>0, <2>2, <2>3, <4>1
      <4>2. CASE i \in 1..n
        <5>1. new[i] = ranges[i] /\ After(ranges[i]) <= at /\ After(ranges[i]) \in Nat
          BY <1>0, <2>3, <4>2 DEF After
        <5>2. After(new[i]) <= at + len BY <5>1
        <5>3. \A k \in 1..n : i < k => After(new[i]) <= new[k].at BY <1>0, <2>3, <4>2, <5>1
        <5>4. After(new[i]) <= new[n + 1].at BY <2>2, <2>3, <5>1
        <5>5. \A k \in 1..(n + 1) : k = n + 1 \/ k \in 1..n BY <1>0
        <5>6. new[i].at \in Nat /\ new[i].len \in Nat \ {0} BY <1>0, <4>2, <5>1
        <5> QED BY <5>2, <5>3, <5>4, <5>5, <5>6
      <4> QED BY <1>0, <4>1, <4>2
    <3> QED BY <1>0, <2>3, <3>1 DEF Ascends
  <2>5. \A i \in 1..n : new[i].at = ranges[i].at /\ After(ranges[i]) <= After(new[i])
    BY <1>0, <2>3 DEF After
  <2>6. new[n + 1].at <= at /\ at + len <= After(new[n + 1]) BY <2>2, <2>3
  <2> QED BY <1>0, <2>3, <2>4, <2>5, <2>6 DEF new
<1> QED BY <1>1, <1>2
-----------------------------------------------------------------------------
(* The plan of a manifest *)

PlanSpan(R) == [do : {"lit", "fetch", "replay"}, at : Nat, len : Nat \ {0},
                key : STRING, retain : R]
Laying(R) == [at : Nat, seg : Nat, spans : Seq(PlanSpan(R)), ranges : Ranges]

Right(p) == Tiles(p.spans, 0, p.at) /\ Ascends(p.ranges, p.at) /\ FetchedWhole(p.spans, p.ranges)

RightLaying(R) == {p \in Laying(R) : Right(p)}

(* R has what the steps may say of a span.                                 *)
Covers(R, steps) == 0 \in R /\ \A k \in Nat : steps[k].retain \in R

LEMMA TilesOn ==
    ASSUME NEW R, NEW spans \in Seq(PlanSpan(R)), NEW at \in Nat, Tiles(spans, 0, at),
           NEW span \in PlanSpan(R), span.at = at
    PROVE  /\ Append(spans, span) \in Seq(PlanSpan(R))
           /\ Tiles(Append(spans, span), 0, at + span.len)
<1> DEFINE n == Len(spans)
           new == Append(spans, span)
           end == at + span.len
<1>1. /\ n \in Nat /\ DOMAIN spans = 1..n
      /\ new \in Seq(PlanSpan(R)) /\ Len(new) = n + 1 /\ DOMAIN new = 1..(n + 1)
      /\ new[n + 1] = span /\ \A i \in 1..n : new[i] = spans[i]
  OBVIOUS
<1>2. /\ span.at \in Nat /\ span.len \in Nat \ {0} /\ span.do \in {"lit", "fetch", "replay"}
      /\ After(span) = end
  BY DEF PlanSpan, After
<1>3. /\ \A i \in 1..n :
           /\ spans[i].at \in Nat /\ spans[i].len \in Nat \ {0} /\ After(spans[i]) \in Nat
           /\ After(spans[i]) <= at /\ spans[i].do \in {"lit", "fetch", "replay"}
           /\ After(spans[i]) = IF i = n THEN at ELSE spans[i + 1].at
      /\ n > 0 => spans[1].at = 0
      /\ n = 0 => at = 0
  <2>1. \A i \in 1..n :
           /\ spans[i].at \in Nat /\ spans[i].len \in Nat \ {0} /\ After(spans[i]) \in Nat
           /\ After(spans[i]) <= at /\ spans[i].do \in {"lit", "fetch", "replay"}
    BY DEF Tiles, After
  <2>2. \A i \in 1..n : After(spans[i]) = IF i = n THEN at ELSE spans[i + 1].at
    BY DEF Tiles
  <2>3. n = 0 <=> spans = <<>> OBVIOUS
  <2>4. (IF spans = <<>> THEN at ELSE spans[1].at) = 0 BY DEF Tiles
  <2> HIDE DEF n
  <2>5. (n > 0 => spans[1].at = 0) /\ (n = 0 => at = 0) BY <2>3, <2>4
  <2> QED BY <2>1, <2>2, <2>5
<1> HIDE DEF new, n, end
<1>4. ASSUME NEW i \in 1..(n + 1)
      PROVE  /\ new[i].at \in Nat /\ new[i].len \in Nat \ {0}
             /\ 0 <= new[i].at /\ After(new[i]) <= end
             /\ new[i].do \in {"lit", "fetch", "replay"}
             /\ After(new[i]) = IF i = n + 1 THEN end ELSE new[i + 1].at
  <2>0. end \in Nat /\ at <= end BY <1>2 DEF end
  <2>1. CASE i = n + 1 BY <1>1, <1>2, <2>0, <2>1
  <2>2. CASE i \in 1..n
    <3>1. new[i] = spans[i] BY <1>1, <2>2
    <3>2. After(new[i]) <= end BY <1>3, <2>0, <2>2, <3>1
    <3>3. After(new[i]) = new[i + 1].at
      <4>1. CASE i = n BY <1>1, <1>3, <2>2, <3>1, <4>1
      <4>2. CASE i # n
        <5>1. i + 1 \in 1..n BY <1>1, <2>2, <4>2
        <5>2. new[i + 1] = spans[i + 1] BY <1>1, <5>1
        <5>3. After(spans[i]) = spans[i + 1].at BY <1>3, <2>2, <4>2
        <5> QED BY <3>1, <5>2, <5>3
      <4> QED BY <4>1, <4>2
    <3>4. i # n + 1 BY <1>1, <2>2
    <3>5. /\ new[i].at \in Nat /\ new[i].len \in Nat \ {0} /\ new[i].do \in {"lit", "fetch", "replay"}
      BY <1>3, <2>2, <3>1
    <3> QED BY <3>2, <3>3, <3>4, <3>5
  <2> QED BY <1>1, <2>1, <2>2
<1>5. new # <<>> /\ new[1].at = 0
  <2>0. new # <<>> /\ n \in Nat BY <1>1
  <2>1. CASE n = 0
    <3>1. new[1] = span BY <1>1, <2>1
    <3> QED BY <1>3, <2>0, <2>1, <3>1
  <2>2. CASE n > 0
    <3>1. new[1] = spans[1] BY <1>1, <2>2
    <3> QED BY <1>3, <2>0, <2>2, <3>1
  <2> QED BY <2>0, <2>1, <2>2
<1>6. Tiles(new, 0, end) BY <1>1, <1>4, <1>5 DEF Tiles
<1> QED BY <1>1, <1>6 DEF new, end

(* Placing a span keeps the plan right: the span begins where the one      *)
(* before ended, and what is to be fetched has its range.                  *)
LEMMA PlaceRight ==
    ASSUME NEW R, NEW steps, NEW p \in RightLaying(R), NEW s \in Spanned,
           Covers(R, steps)
    PROVE  Place(steps, p, s) \in RightLaying(R) /\ Place(steps, p, s).at = p.at + s.len
<1> DEFINE new == Place(steps, p, s)
           retain == steps[p.seg + 1].retain
           span(do, n) == [do |-> do, at |-> p.at, len |-> s.len, key |-> s.key, retain |-> n]
           seg == p.seg + (IF IsSegment(s) THEN 1 ELSE 0)
           placed(do, n, r) == [at |-> p.at + s.len, seg |-> seg,
                                spans |-> Append(p.spans, span(do, n)), ranges |-> r]
<1>0. /\ p.at \in Nat /\ p.seg \in Nat /\ p.spans \in Seq(PlanSpan(R)) /\ p.ranges \in Ranges
      /\ s.len \in Nat \ {0} /\ s.key \in STRING
      /\ Tiles(p.spans, 0, p.at) /\ Ascends(p.ranges, p.at) /\ FetchedWhole(p.spans, p.ranges)
  BY DEF RightLaying, Laying, Right, Spanned
<1>1. seg \in Nat /\ p.at + s.len \in Nat /\ p.at <= p.at + s.len /\ retain \in R /\ 0 \in R
  BY <1>0 DEF Covers
<1>2. \/ new = placed("lit", 0, p.ranges)
      \/ new = placed("fetch", retain, WithRange(p.ranges, p.at, s.len))
      \/ new = placed("replay", 0, p.ranges)
  BY DEF Place
<1> SUFFICES new \in RightLaying(R) /\ new.at = p.at + s.len
  OBVIOUS
<1> HIDE DEF new, seg, retain
<1>3. ASSUME NEW do \in {"lit", "fetch", "replay"}, NEW n \in R, NEW r \in Ranges,
             new = placed(do, n, r), Ascends(r, p.at + s.len),
             \A i \in DOMAIN p.ranges : /\ i \in DOMAIN r
                                        /\ r[i].at = p.ranges[i].at
                                        /\ After(p.ranges[i]) <= After(r[i]),
             do = "fetch" => \E k \in DOMAIN r :
                               r[k].at <= p.at /\ p.at + s.len <= After(r[k])
      PROVE  new \in RightLaying(R) /\ new.at = p.at + s.len
  <2> DEFINE sp == span(do, n)
             spans == Append(p.spans, sp)
  <2>1. /\ sp \in PlanSpan(R) /\ sp.at = p.at /\ sp.len = s.len /\ sp.do = do
        /\ After(sp) = p.at + s.len
    BY <1>0 DEF PlanSpan, After
  <2> HIDE DEF sp
  <2>2. spans \in Seq(PlanSpan(R)) /\ Tiles(spans, 0, p.at + s.len)
    BY <1>0, <2>1, TilesOn
  <2>3. FetchedWhole(spans, r)
    <3> SUFFICES ASSUME NEW i \in DOMAIN spans, spans[i].do = "fetch"
                 PROVE  \E k \in DOMAIN r :
                           r[k].at <= spans[i].at /\ After(spans[i]) <= After(r[k])
      BY DEF FetchedWhole
    <3>0. Len(p.spans) \in Nat /\ DOMAIN p.spans = 1..Len(p.spans) BY <1>0
    <3>1. CASE i = Len(p.spans) + 1
      <4>1. spans[i] = sp BY <1>0, <2>1, <3>1
      <4> QED BY <1>3, <2>1, <3>1, <4>1
    <3>2. CASE i \in DOMAIN p.spans
      <4>1. spans[i] = p.spans[i] BY <1>0, <2>1, <3>0, <3>2
      <4>2. PICK k \in DOMAIN p.ranges :
               p.ranges[k].at <= p.spans[i].at /\ After(p.spans[i]) <= After(p.ranges[k])
        BY <1>0, <3>2, <4>1 DEF FetchedWhole
      <4>3. k \in DOMAIN r /\ r[k].at = p.ranges[k].at /\ After(p.ranges[k]) <= After(r[k])
        BY <1>3
      <4>4. After(p.spans[i]) \in Nat /\ After(p.ranges[k]) \in Nat /\ After(r[k]) \in Nat
        <5>1. p.spans[i].at \in Nat /\ p.spans[i].len \in Nat BY <1>0, <3>2 DEF Tiles
        <5>2. p.ranges[k].at \in Nat /\ p.ranges[k].len \in Nat BY <1>0 DEF Ascends
        <5>3. r[k].at \in Nat /\ r[k].len \in Nat BY <1>3, <4>3 DEF Ascends
        <5>4. \A x : x.at \in Nat /\ x.len \in Nat => After(x) \in Nat BY DEF After
        <5> QED BY <5>1, <5>2, <5>3, <5>4
      <4>5. After(p.spans[i]) <= After(r[k]) BY <4>2, <4>3, <4>4
      <4> QED BY <4>1, <4>2, <4>3, <4>5
    <3> QED BY <1>0, <2>1, <3>0, <3>1, <3>2
  <2>4. /\ new.at = p.at + s.len /\ new.spans = spans /\ new.ranges = r
        /\ new = [at |-> p.at + s.len, seg |-> seg, spans |-> spans, ranges |-> r]
    BY <1>3 DEF sp
  <2> HIDE DEF spans
  <2>5. new \in Laying(R) BY <1>1, <2>2, <2>4 DEF Laying
  <2>6. Right(new) BY <1>3, <2>2, <2>3, <2>4 DEF Right
  <2> QED BY <2>4, <2>5, <2>6 DEF RightLaying
<1>4. Ascends(p.ranges, p.at + s.len) BY <1>0, <1>1, AscendsAlong
<1>5. \A i \in DOMAIN p.ranges : After(p.ranges[i]) <= After(p.ranges[i])
  BY <1>0 DEF Ascends, After
<1>6. CASE new = placed("lit", 0, p.ranges) BY <1>0, <1>1, <1>3, <1>4, <1>5, <1>6
<1>7. CASE new = placed("replay", 0, p.ranges) BY <1>0, <1>1, <1>3, <1>4, <1>5, <1>7
<1>8. CASE new = placed("fetch", retain, WithRange(p.ranges, p.at, s.len))
  <2> DEFINE r == WithRange(p.ranges, p.at, s.len)
  <2>1. /\ r \in Ranges /\ Ascends(r, p.at + s.len)
        /\ \A i \in DOMAIN p.ranges :
             i \in DOMAIN r /\ r[i].at = p.ranges[i].at /\ After(p.ranges[i]) <= After(r[i])
        /\ \E k \in DOMAIN r : r[k].at <= p.at /\ p.at + s.len <= After(r[k])
    BY <1>0, WithRangeFits
  <2> HIDE DEF r
  <2>2. new = placed("fetch", retain, r) BY <1>8 DEF r
  <2> QED BY <1>1, <1>3, <2>1, <2>2
<1> QED BY <1>2, <1>6, <1>7, <1>8 DEF new
(* The plan is laid span by span.                                          *)
LEMMA LaidSolves ==
    ASSUME NEW layout \in Layouts, NEW R, R = {0} \cup {StepsFor(layout)[k].retain : k \in Nat}
    PROVE  \E fold :
              /\ Laid(layout) = fold[1..Len(layout)]
              /\ fold[{}] = Unplaced
              /\ \A i \in 1..Len(layout) :
                   fold[1..i] = Place(StepsFor(layout), fold[1..(i - 1)], layout[i])
              /\ \A i \in 0..Len(layout) : fold[1..i] \in RightLaying(R)
              /\ \A i \in 1..Len(layout) :
                   fold[1..i].at = fold[1..(i - 1)].at + layout[i].len
<1> DEFINE S == DOMAIN layout
           T == RightLaying(R)
           steps == StepsFor(layout)
           pick == [s \in SUBSET S |-> Max(s)]
           step == [x \in S \X T |-> Place(steps, x[2], layout[x[1]])]
           Of(f) == [s \in SUBSET S |-> IF s = {} THEN Unplaced ELSE
                        LET x == Max(s) IN Place(StepsFor(layout), f[s \ {x}], layout[x])]
           fold == CHOOSE f : f = Of(f)
<1>1. /\ S = 1..Len(layout) /\ Len(layout) \in Nat
      /\ \A i \in S : layout[i] \in Spanned
  BY DEF Layouts
<1>2. Picks(pick, S) BY <1>1, MaxIn DEF Picks
<1>3. \A x \in S : \A p \in T :
         Place(steps, p, layout[x]) \in T /\ Place(steps, p, layout[x]).at = p.at + layout[x].len
  <2> HIDE DEF S, steps
  <2>1. Covers(R, steps) BY DEF steps, Covers
  <2> TAKE x \in S
  <2> TAKE p \in RightLaying(R)
  <2>2. layout[x] \in Spanned BY <1>1
  <2> QED BY <2>1, <2>2, PlaceRight
<1>4. step \in [S \X T -> T]
  <2> HIDE DEF S, T, steps
  <2> QED BY <1>3
<1>5. IsFiniteSet(S) BY <1>1, FS_Interval
<1>6. Unplaced \in T
  <2>1. <<>> \in Seq(PlanSpan(R)) /\ <<>> \in Ranges /\ DOMAIN <<>> = 1..Len(<<>>) /\ Len(<<>>) = 0
    BY DEF Ranges
  <2>2. Right(Unplaced)
    BY <2>1 DEF Unplaced, Right, Tiles, Ascends, FetchedWhole
  <2> QED BY <2>1, <2>2 DEF Unplaced, RightLaying, Laying
<1>7. PICK f : IsFold(f, S, T, Unplaced, step, pick)
  <2> HIDE DEF S, T, pick, step
  <2> QED BY <1>2, <1>4, <1>5, <1>6, FoldExists
<1>8. f = Of(f)
  <2>1. ASSUME NEW s \in SUBSET S, s # {}
        PROVE  f[s] = Place(steps, f[s \ {Max(s)}], layout[Max(s)])
    <3>1. pick[s] = Max(s) /\ pick[s] \in S /\ f[s \ {pick[s]}] \in T
      BY <1>2, <1>7, <2>1 DEF Picks, IsFold
    <3>2. step[<<pick[s], f[s \ {pick[s]}]>>] = Place(steps, f[s \ {pick[s]}], layout[pick[s]])
      <4> HIDE DEF pick, S, T, steps
      <4> QED BY <3>1
    <3> HIDE DEF step, pick, steps, T
    <3> QED BY <1>7, <2>1, <3>1, <3>2 DEF IsFold
  <2>2. f[{}] = Unplaced BY <1>7 DEF IsFold
  <2> HIDE DEF S, T
  <2> QED BY <1>7, <2>1, <2>2 DEF IsFold
<1>9. fold = Of(fold)
  <2> HIDE DEF Of
  <2> QED BY <1>8
<1>10. Laid(layout) = fold[S] BY DEF Laid, FoldLeft, MapThenFoldSet
<1> HIDE DEF fold
<1>11. fold[{}] = Unplaced BY <1>9
<1>12. \A i \in 1..Len(layout) : fold[1..i] = Place(steps, fold[1..(i - 1)], layout[i])
  <2> TAKE i \in 1..Len(layout)
  <2>1. /\ Max(1..i) = i /\ (1..i) \ {i} = 1..(i - 1)
        /\ 1..i \in SUBSET S /\ 1..i # {}
    BY <1>1, TopIndex
  <2>2. fold[1..i] = Place(steps, fold[(1..i) \ {Max(1..i)}], layout[Max(1..i)])
    <3> HIDE DEF S
    <3> QED BY <1>9, <2>1
  <2> QED BY <2>1, <2>2
<1> HIDE DEF T, S, steps
<1>13. \A i \in 0..Len(layout) : fold[1..i] \in T
  <2> DEFINE good == {i \in Nat : i <= Len(layout) => fold[1..i] \in T}
  <2>1. 0 \in good
    <3>1. 1..0 = {} OBVIOUS
    <3> QED BY <1>6, <1>11, <3>1
  <2>2. ASSUME NEW i \in Nat, i \in good PROVE i + 1 \in good
    <3> SUFFICES ASSUME i + 1 <= Len(layout) PROVE fold[1..(i + 1)] \in T
      OBVIOUS
    <3>1. i + 1 \in 1..Len(layout) /\ (i + 1) - 1 = i BY <1>1
    <3>2. fold[1..i] \in T BY <1>1, <2>2
    <3>3. fold[1..(i + 1)] = Place(steps, fold[1..i], layout[i + 1]) BY <1>12, <3>1
    <3> QED BY <1>1, <1>3, <3>1, <3>2, <3>3
  <2>3. Nat \subseteq good
    <3> HIDE DEF good
    <3> QED BY <2>1, <2>2, Induct
  <2> QED BY <1>1, <2>3
<1>14. \A i \in 1..Len(layout) : fold[1..i].at = fold[1..(i - 1)].at + layout[i].len
  <2> TAKE i \in 1..Len(layout)
  <2>1. i \in S /\ i - 1 \in 0..Len(layout) BY <1>1
  <2>2. fold[1..(i - 1)] \in T BY <1>13, <2>1
  <2> QED BY <1>3, <1>12, <2>1, <2>2
<1> QED BY <1>1, <1>10, <1>11, <1>12, <1>13, <1>14 DEF T, steps

LEMMA LengthSolves ==
    ASSUME NEW layout \in Layouts
    PROVE  \E fold :
              /\ LengthOf(layout) = fold[1..Len(layout)]
              /\ fold[{}] = 0
              /\ \A i \in 1..Len(layout) : fold[1..i] = fold[1..(i - 1)] + layout[i].len
<1> DEFINE S == DOMAIN layout
           pick == [s \in SUBSET S |-> Max(s)]
           step == [x \in S \X Nat |-> x[2] + layout[x[1]].len]
           Of(f) == [s \in SUBSET S |-> IF s = {} THEN 0 ELSE
                        LET x == Max(s) IN f[s \ {x}] + layout[x].len]
           fold == CHOOSE f : f = Of(f)
<1>1. /\ S = 1..Len(layout) /\ Len(layout) \in Nat
      /\ \A i \in S : layout[i].len \in Nat
  <2>1. \A i \in S : layout[i] \in Spanned BY DEF Layouts
  <2> QED BY <2>1 DEF Layouts, Spanned
<1>2. Picks(pick, S) BY <1>1, MaxIn DEF Picks
<1>3. step \in [S \X Nat -> Nat]
  <2> HIDE DEF S
  <2> QED BY <1>1
<1>4. IsFiniteSet(S) BY <1>1, FS_Interval
<1>5. PICK f : IsFold(f, S, Nat, 0, step, pick)
  <2> HIDE DEF S, pick, step
  <2> QED BY <1>2, <1>3, <1>4, FoldExists
<1>6. f = Of(f)
  <2>1. ASSUME NEW s \in SUBSET S, s # {}
        PROVE  f[s] = f[s \ {Max(s)}] + layout[Max(s)].len
    <3>1. pick[s] = Max(s) /\ pick[s] \in S /\ f[s \ {pick[s]}] \in Nat
      BY <1>2, <1>5, <2>1 DEF Picks, IsFold
    <3>2. step[<<pick[s], f[s \ {pick[s]}]>>] = f[s \ {pick[s]}] + layout[pick[s]].len
      <4> HIDE DEF pick, S
      <4> QED BY <3>1
    <3> HIDE DEF step, pick
    <3> QED BY <1>5, <2>1, <3>1, <3>2 DEF IsFold
  <2>2. f[{}] = 0 BY <1>5 DEF IsFold
  <2> HIDE DEF S
  <2> QED BY <1>5, <2>1, <2>2 DEF IsFold
<1>7. fold = Of(fold)
  <2> HIDE DEF Of
  <2> QED BY <1>6
<1>8. LengthOf(layout) = fold[S] BY DEF LengthOf, FoldLeft, MapThenFoldSet
<1> HIDE DEF fold
<1>9. fold[{}] = 0 BY <1>7
<1>10. \A i \in 1..Len(layout) : fold[1..i] = fold[1..(i - 1)] + layout[i].len
  <2> TAKE i \in 1..Len(layout)
  <2>1. /\ Max(1..i) = i /\ (1..i) \ {i} = 1..(i - 1)
        /\ 1..i \in SUBSET S /\ 1..i # {}
    BY <1>1, TopIndex
  <2>2. fold[1..i] = fold[(1..i) \ {Max(1..i)}] + layout[Max(1..i)].len
    <3> HIDE DEF S
    <3> QED BY <1>7, <2>1
  <2> QED BY <2>1, <2>2
<1> QED BY <1>1, <1>8, <1>9, <1>10
(* A laid plan covers its layout from 0 to its length.                     *)
LEMMA LaidFits ==
    ASSUME NEW layout \in Layouts
    PROVE  Right(Laid(layout)) /\ Laid(layout).at = LengthOf(layout)
<1> DEFINE R == {0} \cup {StepsFor(layout)[k].retain : k \in Nat}
           n == Len(layout)
<1>0. n \in Nat /\ \A i \in 1..n : layout[i].len \in Nat
  <2>1. \A i \in 1..n : layout[i] \in Spanned BY DEF Layouts
  <2> QED BY <2>1 DEF Layouts, Spanned
<1>1. PICK f : /\ Laid(layout) = f[1..n]
               /\ f[{}] = Unplaced
               /\ \A i \in 1..n : f[1..i] = Place(StepsFor(layout), f[1..(i - 1)], layout[i])
               /\ \A i \in 0..n : f[1..i] \in RightLaying(R)
               /\ \A i \in 1..n : f[1..i].at = f[1..(i - 1)].at + layout[i].len
  BY LaidSolves
<1>2. PICK g : /\ LengthOf(layout) = g[1..n]
               /\ g[{}] = 0
               /\ \A i \in 1..n : g[1..i] = g[1..(i - 1)] + layout[i].len
  BY LengthSolves
<1> HIDE DEF n, R
<1> DEFINE same == {i \in Nat : i <= n => f[1..i].at = g[1..i]}
<1>3. 0 \in same
  <2>1. 1..0 = {} OBVIOUS
  <2> QED BY <1>1, <1>2, <2>1 DEF Unplaced
<1>4. ASSUME NEW i \in Nat, i \in same PROVE i + 1 \in same
  <2> SUFFICES ASSUME i + 1 <= n PROVE f[1..(i + 1)].at = g[1..(i + 1)]
    OBVIOUS
  <2>1. i + 1 \in 1..n /\ (i + 1) - 1 = i /\ i <= n BY <1>0
  <2>2. f[1..(i + 1)].at = f[1..i].at + layout[i + 1].len BY <1>1, <2>1
  <2>3. g[1..(i + 1)] = g[1..i] + layout[i + 1].len BY <1>2, <2>1
  <2> QED BY <1>4, <2>1, <2>2, <2>3
<1>5. n \in same
  <2> HIDE DEF same
  <2> QED BY <1>0, <1>3, <1>4, Induct
<1>6. f[1..n] \in RightLaying(R) BY <1>0, <1>1
<1> QED BY <1>1, <1>2, <1>5, <1>6 DEF RightLaying

(* Every plan of run_transfer covers what the job asks for.                *)
LEMMA PlanFits == ASSUME NEW j \in Jobs PROVE Fits(j, PlanFor(j))
<1>1. /\ j.start \in Nat /\ j.end \in Nat /\ j.start < j.end /\ j.layout \in Layouts
      /\ j.layout # <<>> => j.start = 0 /\ j.end = LengthOf(j.layout)
  BY TransferAssumption
<1>2. CASE j.layout # <<>> /\ Usable(j.layout)
  <2>1. /\ PlanFor(j).spans = Laid(j.layout).spans /\ PlanFor(j).ranges = Laid(j.layout).ranges
    BY <1>2 DEF PlanFor, ManifestPlan
  <2>2. Right(Laid(j.layout)) /\ Laid(j.layout).at = j.end BY <1>1, <1>2, LaidFits
  <2>3. /\ Tiles(PlanFor(j).spans, j.start, j.end) /\ Ascends(PlanFor(j).ranges, j.end)
        /\ FetchedWhole(PlanFor(j).spans, PlanFor(j).ranges)
    BY <1>1, <1>2, <2>1, <2>2 DEF Right
  <2>4. \A i \in DOMAIN PlanFor(j).ranges : PlanFor(j).ranges[i].at >= j.start
    BY <1>1, <1>2, <2>3 DEF Ascends
  <2> QED BY <2>3, <2>4 DEF Fits
<1>3. CASE ~(j.layout # <<>> /\ Usable(j.layout))
  <2> DEFINE span == [do |-> "fetch", at |-> j.start, len |-> j.end - j.start,
                      key |-> "none", retain |-> 0]
             range == [at |-> j.start, len |-> j.end - j.start]
  <2>1. PlanFor(j).spans = <<span>> /\ PlanFor(j).ranges = <<range>>
    BY <1>3 DEF PlanFor, FallbackPlan
  <2>2. /\ span.at = j.start /\ span.len = j.end - j.start /\ span.do = "fetch"
        /\ range.at = j.start /\ range.len = j.end - j.start
        /\ j.end - j.start \in Nat \ {0}
        /\ After(span) = j.end /\ After(range) = j.end
    BY <1>1 DEF After
  <2> HIDE DEF span, range
  <2>3. /\ DOMAIN <<span>> = 1..1 /\ Len(<<span>>) = 1 /\ <<span>>[1] = span /\ <<span>> # <<>>
        /\ DOMAIN <<range>> = 1..1 /\ Len(<<range>>) = 1 /\ <<range>>[1] = range
    OBVIOUS
  <2>4. Tiles(<<span>>, j.start, j.end) BY <1>1, <2>2, <2>3 DEF Tiles
  <2>5. Ascends(<<range>>, j.end) BY <1>1, <2>2, <2>3 DEF Ascends
  <2>6. FetchedWhole(<<span>>, <<range>>) BY <1>1, <2>2, <2>3 DEF FetchedWhole
  <2>7. \A i \in DOMAIN <<range>> : <<range>>[i].at >= j.start BY <1>1, <2>2, <2>3
  <2> QED BY <2>1, <2>4, <2>5, <2>6, <2>7 DEF Fits
<1> QED BY <1>2, <1>3
-----------------------------------------------------------------------------
(* The inductive invariant *)

Past(c) == c.off + c.len
Reach(c) == c.off..(Past(c) - 1)
Apart(c, d) == Past(c) <= d.off \/ Past(d) <= c.off

(* The cursor c is where carving goes on: u is not past it.                *)
CarvedTo(ranges, c, u) == c.range <= Len(ranges) => u <= ranges[c.range].at + c.at

Behind(u) == CarvedTo(plan.ranges, carve, u)

Planned == job \in Jobs /\ Fits(job, plan)

(* The emitter is inside its span, and at the start of one that it emits   *)
(* whole; past the last one it is at the end, with right bytes alone if it *)
(* could know.                                                             *)
Inside ==
    /\ emitter.span <= Len(plan.spans) =>
         /\ Here.at <= emitter.pos /\ emitter.pos < After(Here)
         /\ Here.do # "fetch" \/ Here.retain > 0 => emitter.pos = Here.at
    /\ emitter.span > Len(plan.spans) => emitter.pos = job.end
    /\ job.full /\ emitter.pos = job.end => ~emitter.wrong

Emitting ==
    /\ Inside
    /\ pc # "ended" => outcome = "running"
    /\ outcome = "completed" => Done

Position == [range : Nat, at : Nat]

Carving ==
    /\ carve \in Position
    /\ carve.range \in 1..(Len(plan.ranges) + 1) /\ carve.at \in Nat
    /\ carve.range <= Len(plan.ranges) => carve.at <= plan.ranges[carve.range].len

(* No unit is in two chunks, and none in a chunk is still to be carved.    *)
Tidy ==
    /\ \A f, g \in inflight : f # g => Apart(f, g)
    /\ \A c, d \in requeue : c # d => Apart(c, d)
    /\ \A f \in inflight, c \in requeue : Apart(f, c)
    /\ \A c \in inflight \cup requeue : Behind(Past(c)) /\ Past(c) <= job.end

(* An attempt is known by where it begins and whom it asks.                *)
Attempts ==
    /\ IsFiniteSet(work)
    /\ \A v, w \in work : v.off = w.off /\ v.peer = w.peer => v = w
    /\ \A w \in work, f \in inflight : w.off = f.off => w.len = f.len

Sleeping ==
    pc \in {"settle", "wait"} /\ Starved /\ ~woken => \A p \in parked : ~HasSlot(p)

Placed ==
    pc # "ended" =>
      /\ \A c \in Undelivered \cup requeue : Reach(c) \cap buffered = {}
      /\ \A u \in buffered : Behind(u + 1)
      /\ \A u \in ToFetch : u >= emitter.pos =>
           \/ u \in buffered \/ u \in Uncarved
           \/ \E c \in Undelivered \cup requeue : u \in Reach(c)

IInv ==
    /\ Planned /\ TypeOK /\ Emitting /\ Carving /\ Tidy /\ Attempts
    /\ FlightsAreManned /\ SlotsAreHeldByWorkers /\ Sleeping /\ Placed
-----------------------------------------------------------------------------
(* Types, part by part *)

Chunk == [off : Units, len : 1..job.end]
Flight == [off : Units, len : 1..job.end, live : SUBSET Peer, delivered : BOOLEAN]
Attempt == [off : Units, len : 1..job.end, peer : Peer, hedged : BOOLEAN,
            phase : {"flying", "ok", "wrong", "failed"}]
Breaker == [strikes : 0..Threshold, open : {"none", "cooling", "elapsed"}]
Outcomes == {"running", "completed", "mismatch", "other", "gone", "slow", "stall", "streak"}

TypeEmit == emitter.span \in 1..(Len(plan.spans) + 1) /\ emitter.pos \in job.start..job.end
TypeBuffer == buffered \subseteq Units /\ bad \subseteq buffered
TypeChunks == requeue \subseteq Chunk /\ inflight \subseteq Flight
TypeSlots == slots \in [Peer -> 0..Limit] /\ others \in [Peer -> 0..Limit]
TypeRest ==
    /\ health \in [Peer -> Breaker]
    /\ gate \in {"none", "shut", "past"} /\ parked \subseteq Peer
    /\ streak \in 0..(Streak - 1) /\ woken \in BOOLEAN
    /\ pc \in {"pump", "launch", "settle", "wait", "ended"} /\ outcome \in Outcomes

LEMMA Parts ==
    TypeOK <=> TypeEmit /\ TypeBuffer /\ TypeChunks /\ work \subseteq Attempt /\ TypeSlots /\ TypeRest
BY DEF TypeOK, TypeEmit, TypeBuffer, TypeChunks, TypeSlots, TypeRest, Chunk, Flight, Attempt,
       Breaker, Outcomes

LEMMA PartsNext ==
    ASSUME TypeEmit', TypeBuffer', TypeChunks', (work \subseteq Attempt)', TypeSlots', TypeRest'
    PROVE  TypeOK'
BY DEF TypeOK, TypeEmit, TypeBuffer, TypeChunks, TypeSlots, TypeRest, Chunk, Flight, Attempt,
       Breaker, Outcomes

LEMMA JobFacts ==
    ASSUME Planned
    PROVE  /\ job.start \in Nat /\ job.end \in Nat /\ job.start < job.end
           /\ Units \subseteq Nat /\ \A u \in Units : job.start <= u /\ u < job.end
           /\ \A u \in Nat : job.start <= u /\ u < job.end => u \in Units
<1>1. job.start \in Nat /\ job.end \in Nat /\ job.start < job.end
  BY TransferAssumption DEF Planned
<1> QED BY <1>1 DEF Units

LEMMA ChunkFacts ==
    ASSUME Planned, TypeChunks, NEW c \in inflight \cup requeue
    PROVE  /\ c.off \in Nat /\ c.off \in Units /\ c.len \in Nat \ {0}
           /\ Past(c) \in Nat /\ Past(c) = c.off + c.len
           /\ \A u : u \in Reach(c) <=> u \in Nat /\ c.off <= u /\ u < Past(c)
<1>1. Units \subseteq Nat /\ job.end \in Nat BY JobFacts
<1>2. c.off \in Units /\ c.len \in 1..job.end
  <2>1. CASE c \in inflight
    <3>1. c \in Flight BY <2>1 DEF TypeChunks
    <3> QED BY <3>1 DEF Flight
  <2>2. CASE c \in requeue
    <3>1. c \in Chunk BY <2>2 DEF TypeChunks
    <3> QED BY <3>1 DEF Chunk
  <2> QED BY <2>1, <2>2
<1>3. c.off \in Nat BY <1>1, <1>2
<1>4. c.len \in Nat \ {0}
  <2>1. job.end \in Nat /\ c.len \in 1..job.end BY <1>1, <1>2
  <2> QED BY <2>1
<1> QED BY <1>2, <1>3, <1>4 DEF Past, Reach

LEMMA SpanFacts ==
    ASSUME Planned
    PROVE  /\ DOMAIN plan.spans = 1..Len(plan.spans) /\ Len(plan.spans) \in Nat \ {0}
           /\ \A i \in 1..Len(plan.spans) :
                /\ plan.spans[i].at \in Nat /\ plan.spans[i].len \in Nat \ {0}
                /\ job.start <= plan.spans[i].at /\ After(plan.spans[i]) <= job.end
                /\ After(plan.spans[i]) = plan.spans[i].at + plan.spans[i].len
                /\ plan.spans[i].do \in {"lit", "fetch", "replay"}
                /\ After(plan.spans[i]) =
                     IF i = Len(plan.spans) THEN job.end ELSE plan.spans[i + 1].at
           /\ plan.spans[1].at = job.start
<1>1. Tiles(plan.spans, job.start, job.end) BY DEF Planned, Fits
<1>2. job.start < job.end /\ job.start \in Nat /\ job.end \in Nat BY JobFacts
<1>3. plan.spans # <<>> BY <1>1, <1>2 DEF Tiles
<1>4. Len(plan.spans) # 0
  <2> SUFFICES ASSUME Len(plan.spans) = 0 PROVE FALSE
    OBVIOUS
  <2>1. After(plan.spans[1]) = After(plan.spans[1]) OBVIOUS
  <2> QED BY <1>1, <1>3 DEF Tiles
<1>5. 1 \in DOMAIN plan.spans BY <1>1, <1>4 DEF Tiles
<1> QED BY <1>1, <1>3, <1>4, <1>5 DEF Tiles, After

LEMMA ToFetchFacts ==
    ASSUME Planned, NEW u \in ToFetch
    PROVE  u \in Nat /\ u \in Units
<1>1. PICK t \in ToSet(plan.spans) : t.do = "fetch" /\ u \in t.at..(t.at + t.len - 1)
  BY DEF ToFetch
<1>2. PICK i \in DOMAIN plan.spans : t = plan.spans[i] BY DEF ToSet
<1>3. /\ t.at \in Nat /\ t.len \in Nat /\ After(t) = t.at + t.len
      /\ job.start <= t.at /\ After(t) <= job.end
  BY <1>2, SpanFacts
<1>4. u \in Nat /\ t.at <= u /\ u < After(t) BY <1>1, <1>3
<1>5. job.start <= u /\ u < job.end BY <1>3, <1>4, JobFacts
<1> QED BY <1>4, <1>5, JobFacts

LEMMA RangeFacts ==
    ASSUME Planned
    PROVE  /\ DOMAIN plan.ranges = 1..Len(plan.ranges) /\ Len(plan.ranges) \in Nat
           /\ \A i \in 1..Len(plan.ranges) :
                /\ plan.ranges[i].at \in Nat /\ plan.ranges[i].len \in Nat \ {0}
                /\ job.start <= plan.ranges[i].at /\ After(plan.ranges[i]) <= job.end
                /\ After(plan.ranges[i]) = plan.ranges[i].at + plan.ranges[i].len
                /\ \A k \in 1..Len(plan.ranges) :
                     i < k => After(plan.ranges[i]) <= plan.ranges[k].at
<1>1. /\ Ascends(plan.ranges, job.end)
      /\ \A i \in DOMAIN plan.ranges : plan.ranges[i].at >= job.start
  BY DEF Planned, Fits
<1>2. job.start \in Nat /\ job.end \in Nat BY JobFacts
<1>3. DOMAIN plan.ranges = 1..Len(plan.ranges) /\ Len(plan.ranges) \in Nat
  BY <1>1 DEF Ascends
<1>4. ASSUME NEW i \in 1..Len(plan.ranges)
      PROVE  /\ plan.ranges[i].at \in Nat /\ plan.ranges[i].len \in Nat \ {0}
             /\ job.start <= plan.ranges[i].at /\ After(plan.ranges[i]) <= job.end
             /\ \A k \in 1..Len(plan.ranges) :
                  i < k => After(plan.ranges[i]) <= plan.ranges[k].at
  <2>1. i \in DOMAIN plan.ranges BY <1>3
  <2>2. plan.ranges[i].at \in Nat /\ plan.ranges[i].at >= job.start BY <1>1, <2>1 DEF Ascends
  <2> QED BY <1>1, <1>2, <1>3, <2>1, <2>2 DEF Ascends
<1> QED BY <1>3, <1>4 DEF After

-----------------------------------------------------------------------------
(* Carving *)

(* The units past the cursor c.                                            *)
Left(ranges, c) ==
    {u \in Nat : \E i \in 1..Len(ranges) :
        /\ c.range <= i
        /\ ranges[i].at + (IF i = c.range THEN c.at ELSE 0) <= u
        /\ u < After(ranges[i])}

Steady(ranges, c) ==
    /\ c.range \in 1..(Len(ranges) + 1) /\ c.at \in Nat
    /\ c.range <= Len(ranges) => c.at <= ranges[c.range].len

LEMMA UncarvedIsLeft == Planned /\ Carving => Uncarved = Left(plan.ranges, carve)
<1> SUFFICES ASSUME Planned, Carving PROVE Uncarved = Left(plan.ranges, carve)
  OBVIOUS
<1> DEFINE n == Len(plan.ranges)
           U(i) == plan.ranges[i].at..(plan.ranges[i].at + plan.ranges[i].len - 1)
<1>0. /\ n \in Nat /\ carve.range \in 1..(n + 1) /\ carve.at \in Nat
      /\ carve.range <= n => carve.at <= plan.ranges[carve.range].len
      /\ \A i \in 1..n : /\ plan.ranges[i].at \in Nat /\ plan.ranges[i].len \in Nat \ {0}
                         /\ After(plan.ranges[i]) = plan.ranges[i].at + plan.ranges[i].len
  BY RangeFacts DEF Carving
<1> DEFINE here == (plan.ranges[carve.range].at + carve.at)
                      ..(plan.ranges[carve.range].at + plan.ranges[carve.range].len - 1)
           whole == UNION {U(i) : i \in (carve.range + 1)..n}
           rest == IF carve.range > n THEN {} ELSE here
<1>1. Uncarved = whole \cup rest /\ (carve.range > n <=> ~(carve.range <= n))
  BY <1>0 DEF Uncarved
<1>2. ASSUME NEW u \in Uncarved PROVE u \in Left(plan.ranges, carve)
  <2>1. CASE \E i \in (carve.range + 1)..n : u \in U(i)
    <3>1. PICK i \in (carve.range + 1)..n : u \in U(i) BY <2>1
    <3>2. i \in 1..n /\ carve.range <= i /\ i # carve.range BY <1>0
    <3>3. u \in Nat /\ plan.ranges[i].at <= u /\ u < After(plan.ranges[i])
      <4>1. /\ plan.ranges[i].at \in Nat /\ plan.ranges[i].len \in Nat
            /\ After(plan.ranges[i]) = plan.ranges[i].at + plan.ranges[i].len
        BY <1>0, <3>2
      <4> QED BY <3>1, <4>1
    <3>4. plan.ranges[i].at + 0 <= u BY <1>0, <3>2, <3>3
    <3> QED BY <3>2, <3>3, <3>4 DEF Left, n
  <2>2. CASE /\ carve.range <= n
             /\ u \in here
    <3>1. carve.range \in 1..n BY <1>0, <2>2
    <3>2. /\ u \in Nat /\ plan.ranges[carve.range].at + carve.at <= u
          /\ u < After(plan.ranges[carve.range])
      BY <1>0, <2>2, <3>1
    <3> QED BY <3>1, <3>2 DEF Left, n
  <2>3. CASE u \in whole BY <2>1, <2>3
  <2>4. CASE u \in rest BY <1>1, <2>2, <2>4
  <2> QED BY <1>1, <2>3, <2>4
<1>3. ASSUME NEW u \in Left(plan.ranges, carve) PROVE u \in Uncarved
  <2>1. PICK i \in 1..n :
           /\ carve.range <= i
           /\ plan.ranges[i].at + (IF i = carve.range THEN carve.at ELSE 0) <= u
           /\ u < After(plan.ranges[i])
    BY DEF Left, n
  <2>2. u \in Nat BY DEF Left
  <2>3. CASE i = carve.range
    <3>1. u \in here BY <1>0, <2>1, <2>2, <2>3
    <3>2. ~(carve.range > n) BY <1>0, <2>1
    <3>3. u \in rest BY <3>1, <3>2
    <3> QED BY <1>1, <3>3
  <2>4. CASE i # carve.range
    <3>1. i \in (carve.range + 1)..n BY <1>0, <2>1, <2>4
    <3>2. u \in U(i) BY <1>0, <2>1, <2>2, <2>4
    <3>3. u \in whole BY <3>1, <3>2
    <3> QED BY <1>1, <3>3
  <2> QED BY <2>3, <2>4
<1> QED BY <1>2, <1>3

(* What is past the cursor is past everything that was carved.             *)
LEMMA LeftIsAhead ==
    ASSUME Planned, NEW c, Steady(plan.ranges, c), NEW u \in Left(plan.ranges, c)
    PROVE  /\ c.range <= Len(plan.ranges) /\ u \in Nat /\ u \in Units
           /\ plan.ranges[c.range].at + c.at <= u
<1> DEFINE r == plan.ranges
<1>1. PICK i \in 1..Len(r) : /\ c.range <= i
                             /\ r[i].at + (IF i = c.range THEN c.at ELSE 0) <= u
                             /\ u < After(r[i])
  BY DEF Left
<1>2. u \in Nat /\ c.range \in 1..Len(r) /\ c.at \in Nat /\ Len(r) \in Nat
  BY <1>1, RangeFacts DEF Left, Steady
<1>3. /\ r[i].at \in Nat /\ job.start <= r[i].at /\ After(r[i]) <= job.end
      /\ After(r[i]) = r[i].at + r[i].len /\ r[i].len \in Nat
  BY <1>1, RangeFacts
<1>6. /\ r[c.range].at \in Nat /\ r[c.range].len \in Nat
      /\ After(r[c.range]) = r[c.range].at + r[c.range].len
      /\ c.range < i => After(r[c.range]) <= r[i].at
  BY <1>1, <1>2, RangeFacts
<1> HIDE DEF r
<1>4. r[c.range].at + c.at <= u
  <2>1. CASE i = c.range BY <1>1, <2>1
  <2>2. CASE i # c.range
    <3>1. c.at <= r[c.range].len BY <1>2 DEF Steady, r
    <3>2. c.range < i /\ r[i].at <= u BY <1>1, <1>2, <1>3, <2>2
    <3>3. r[c.range].at + r[c.range].len <= r[i].at BY <1>6, <3>2
    <3> QED BY <1>2, <1>3, <1>6, <3>1, <3>2, <3>3
  <2> QED BY <2>1, <2>2
<1>5. u \in Units
  <2>1. r[i].at <= u BY <1>1, <1>2, <1>3
  <2>2. job.start <= u /\ u < job.end BY <1>1, <1>2, <1>3, <2>1, JobFacts
  <2> QED BY <1>2, <2>2, JobFacts
<1>7. c.range <= Len(r) BY <1>2
<1> QED BY <1>2, <1>4, <1>5, <1>7 DEF r

(* Moving the cursor past a range that is used up loses no unit.           *)
LEMMA CursorSteady ==
    ASSUME Planned, Carving
    PROVE  /\ Steady(plan.ranges, carve) /\ Steady(plan.ranges, Cursor)
           /\ Carvable => /\ Cursor.at < plan.ranges[Cursor.range].len
                          /\ Cursor.range \in 1..Len(plan.ranges)
           /\ Left(plan.ranges, carve) \subseteq Left(plan.ranges, Cursor)
           /\ \A u \in Nat : Behind(u) => CarvedTo(plan.ranges, Cursor, u)
<1> DEFINE r == plan.ranges
           n == Len(plan.ranges)
           used == carve.range <= n /\ carve.at >= r[carve.range].len
<1>1. /\ n \in Nat /\ carve.range \in 1..(n + 1) /\ carve.at \in Nat
      /\ carve.range <= n => carve.at <= r[carve.range].len
      /\ \A i \in 1..n : /\ r[i].at \in Nat /\ r[i].len \in Nat \ {0}
                         /\ After(r[i]) = r[i].at + r[i].len
                         /\ \A k \in 1..n : i < k => After(r[i]) <= r[k].at
  BY RangeFacts DEF Carving
<1>2. Steady(r, carve) BY <1>1 DEF Steady
<1>3. CASE used
  <2>0. /\ carve.range \in 1..n /\ carve.at = r[carve.range].len
        /\ r[carve.range].at + carve.at = After(r[carve.range])
    BY <1>1, <1>3
  <2>1. Cursor.range = carve.range + 1 /\ Cursor.at = 0 BY <1>3 DEF Cursor
  <2> HIDE DEF n
  <2>2. Steady(r, Cursor) /\ (Carvable => /\ Cursor.at < r[Cursor.range].len
                                          /\ Cursor.range \in 1..n)
    <3>1. Cursor.range \in 1..(n + 1) /\ Cursor.at \in Nat BY <1>1, <2>0, <2>1
    <3>2. Cursor.range <= n => Cursor.range \in 1..n /\ 0 < r[Cursor.range].len BY <1>1, <3>1
    <3>3. Carvable <=> Cursor.range <= n BY DEF Carvable, n
    <3>4. Cursor.range <= n => Cursor.at < r[Cursor.range].len /\ Cursor.at <= r[Cursor.range].len
      BY <1>1, <2>1, <3>2
    <3> QED BY <3>1, <3>2, <3>3, <3>4 DEF Steady, n
  <2>3. ASSUME NEW u \in Left(r, carve) PROVE u \in Left(r, Cursor)
    <3>1. PICK i \in 1..n : /\ carve.range <= i
                            /\ r[i].at + (IF i = carve.range THEN carve.at ELSE 0) <= u
                            /\ u < After(r[i])
      BY DEF Left, n
    <3>2. u \in Nat BY DEF Left
    <3>3. i # carve.range BY <1>1, <2>0, <3>1, <3>2
    <3>4. Cursor.range <= i /\ r[i].at <= u BY <1>1, <2>0, <2>1, <3>1, <3>2, <3>3
    <3>5. r[i].at + (IF i = Cursor.range THEN Cursor.at ELSE 0) <= u BY <1>1, <2>1, <3>4
    <3> QED BY <3>1, <3>2, <3>4, <3>5 DEF Left, n
  <2>4. ASSUME NEW u \in Nat, Behind(u), Cursor.range <= n
        PROVE  u <= r[Cursor.range].at + Cursor.at
    <3>1. u <= After(r[carve.range]) BY <1>1, <2>0, <2>4 DEF Behind, CarvedTo, n
    <3>2. Cursor.range \in 1..n /\ After(r[carve.range]) <= r[Cursor.range].at
          /\ r[Cursor.range].at \in Nat /\ After(r[carve.range]) \in Nat
      BY <1>1, <2>0, <2>1, <2>4
    <3> QED BY <2>1, <3>1, <3>2
  <2> QED BY <1>2, <2>2, <2>3, <2>4 DEF CarvedTo, n
<1>4. CASE ~used
  <2>1. Cursor = carve BY <1>4 DEF Cursor
  <2>2. Carvable => carve.range \in 1..n /\ carve.at < r[carve.range].len
    BY <1>1, <1>4, <2>1 DEF Carvable
  <2> QED BY <1>2, <2>1, <2>2 DEF Behind
<1> QED BY <1>3, <1>4
LEMMA CarveOn ==
    ASSUME Planned, Carving, UNCHANGED <<job, plan>>, carve' = carve \/ carve' = Cursor
    PROVE  /\ Carving' /\ Uncarved \subseteq Uncarved'
           /\ \A u \in Nat : Behind(u) => Behind(u)'
<1>1. Carving'
  <2>1. Steady(plan.ranges, carve') BY CursorSteady
  <2>2. carve' \in Position
    <3>1. Cursor = carve \/ Cursor = [range |-> carve.range + 1, at |-> 0] BY DEF Cursor
    <3>2. carve \in Position BY DEF Carving
    <3> QED BY <3>1, <3>2 DEF Position
  <2> QED BY <2>1, <2>2 DEF Steady, Carving
<1>2. Uncarved \subseteq Uncarved'
  <2>1. Left(plan.ranges, carve) \subseteq Left(plan.ranges, carve') BY CursorSteady
  <2>2. Uncarved = Left(plan.ranges, carve) BY UncarvedIsLeft
  <2>3. Uncarved' = Left(plan.ranges, carve')
    <3>1. (Planned /\ Carving => Uncarved = Left(plan.ranges, carve))'
      BY UncarvedIsLeft, PTL
    <3>2. Planned' BY DEF Planned
    <3> QED BY <1>1, <3>1, <3>2
  <2> QED BY <2>1, <2>2, <2>3
<1>3. \A u \in Nat : Behind(u) => Behind(u)'
  <2>1. \A u \in Nat : Behind(u) => CarvedTo(plan.ranges, carve', u)
    BY CursorSteady DEF Behind
  <2> QED BY <2>1 DEF Behind, CarvedTo
<1> QED BY <1>1, <1>2, <1>3
-----------------------------------------------------------------------------
(* The initial states *)

LEMMA InvInit == Init => IInv
<1> SUFFICES ASSUME Init PROVE IInv
  OBVIOUS
<1>1. Planned BY PlanFits DEF Init, Planned
<1>j. job.start \in Nat /\ job.end \in Nat /\ job.start < job.end BY <1>1, JobFacts
<1>s. /\ Len(plan.spans) \in Nat \ {0} /\ plan.spans[1].at = job.start
      /\ plan.spans[1].len \in Nat \ {0}
      /\ After(plan.spans[1]) = plan.spans[1].at + plan.spans[1].len
  BY <1>1, SpanFacts
<1>e. emitter.span = 1 /\ emitter.pos = job.start /\ emitter.wrong = FALSE BY DEF Init
<1>2. TypeOK
  <2>1. {Limit, Threshold, Streak} \subseteq Nat \ {0} BY TransferAssumption
  <2>2. TypeEmit BY <1>j, <1>s, <1>e DEF TypeEmit
  <2>3. TypeBuffer /\ TypeChunks /\ work \subseteq Attempt
    BY DEF Init, TypeBuffer, TypeChunks
  <2>4. TypeSlots BY <2>1 DEF Init, TypeSlots
  <2>5. [strikes |-> 0, open |-> "none"] \in Breaker BY <2>1 DEF Breaker
  <2>6. TypeRest
    <3>1. health \in [Peer -> Breaker]
      <4> DEFINE closed == [strikes |-> 0, open |-> "none"]
      <4>1. closed \in Breaker BY <2>5
      <4>2. health = [p \in Peer |-> closed] BY DEF Init
      <4> HIDE DEF closed
      <4> QED BY <4>1, <4>2
    <3>2. streak \in 0..(Streak - 1)
      <4>1. Streak \in Nat \ {0} BY <2>1
      <4> QED BY <4>1 DEF Init
    <3>3. gate = "none" /\ parked = {} /\ woken = FALSE /\ pc = "pump" /\ outcome = "running"
      BY DEF Init
    <3> QED BY <3>1, <3>2, <3>3 DEF TypeRest, Outcomes
  <2> QED BY <2>2, <2>3, <2>4, <2>6, Parts
<1>3. Emitting
  <2>1. Here = plan.spans[1] BY <1>e DEF Here
  <2>2. pc = "pump" /\ outcome = "running" BY DEF Init
  <2> QED BY <1>j, <1>s, <1>e, <2>1, <2>2 DEF Emitting, Inside
<1>4. Carving
  <2>1. carve.range = 1 /\ carve.at = 0 /\ carve \in Position BY DEF Init, Position
  <2> QED BY <1>1, <2>1, RangeFacts DEF Carving
<1>5. Tidy /\ Attempts BY FS_EmptySet DEF Init, Tidy, Attempts
<1>6. FlightsAreManned BY DEF Init, FlightsAreManned
<1>7. SlotsAreHeldByWorkers
  <2>1. \A p \in Peer : Flying(p) = {} BY DEF Init, Flying
  <2>2. \A p \in Peer : slots[p] = 0 /\ others[p] = 0 BY DEF Init
  <2> QED BY <2>1, <2>2, FS_EmptySet DEF SlotsAreHeldByWorkers
<1>8. Sleeping BY DEF Init, Sleeping
<1>9. Placed
  <2>1. ASSUME NEW u \in ToFetch PROVE u \in Uncarved
    <3>1. PICK t \in ToSet(plan.spans) : t.do = "fetch" /\ u \in t.at..(t.at + t.len - 1)
      BY DEF ToFetch
    <3>2. PICK i \in DOMAIN plan.spans : t = plan.spans[i] BY DEF ToSet
    <3>3. /\ t.at \in Nat /\ t.len \in Nat /\ After(t) = t.at + t.len
      BY <1>1, <3>2, SpanFacts
    <3>4. u \in Nat /\ t.at <= u /\ u < After(t) BY <3>1, <3>3
    <3>5. PICK k \in DOMAIN plan.ranges :
             plan.ranges[k].at <= t.at /\ After(t) <= After(plan.ranges[k])
      BY <1>1, <3>1, <3>2 DEF Planned, Fits, FetchedWhole
    <3>6. /\ k \in 1..Len(plan.ranges) /\ plan.ranges[k].at \in Nat
          /\ plan.ranges[k].len \in Nat /\ After(plan.ranges[k]) = plan.ranges[k].at + plan.ranges[k].len
      BY <1>1, RangeFacts
    <3>7. plan.ranges[k].at <= u /\ u < After(plan.ranges[k]) BY <3>3, <3>4, <3>5, <3>6
    <3>8. carve.range = 1 /\ carve.at = 0 BY DEF Init
    <3>9. plan.ranges[k].at + (IF k = carve.range THEN carve.at ELSE 0) <= u
      BY <3>6, <3>7, <3>8
    <3>10. u \in Left(plan.ranges, carve) BY <3>4, <3>6, <3>7, <3>8, <3>9 DEF Left
    <3> QED BY <1>1, <1>4, <3>10, UncarvedIsLeft
  <2> QED BY <2>1 DEF Init, Placed, Undelivered
<1> QED BY <1>1, <1>2, <1>3, <1>4, <1>5, <1>6, <1>7, <1>8, <1>9 DEF IInv

-----------------------------------------------------------------------------
(* The end *)

LEMMA FlyingFinite ==
    ASSUME IInv, NEW p \in Peer
    PROVE  /\ IsFiniteSet(Flying(p)) /\ Cardinality(Flying(p)) \in Nat
           /\ slots[p] \in 0..Limit /\ others[p] \in 0..Limit /\ Limit \in Nat
           /\ slots[p] = others[p] + Cardinality(Flying(p))
<1>1. Flying(p) \subseteq work BY DEF Flying
<1>2. IsFiniteSet(Flying(p)) BY <1>1, FS_Subset DEF IInv, Attempts
<1>3. Cardinality(Flying(p)) \in Nat BY <1>2, FS_CardinalityType
<1>4. slots[p] = others[p] + Cardinality(Flying(p)) BY DEF IInv, SlotsAreHeldByWorkers
<1>5. TypeSlots BY Parts DEF IInv
<1> QED BY <1>2, <1>3, <1>4, <1>5, TransferAssumption DEF TypeSlots

(* An end gives back the slots of the workers it kills, and leaves nothing *)
(* to fetch.                                                               *)
LEMMA EndsWell ==
    ASSUME IInv, NEW verdict \in Outcomes \ {"running"}, End(verdict), pc # "ended",
           verdict = "completed" => Done', TypeEmit', Inside',
           buffered' \subseteq buffered, bad' \subseteq buffered'
    PROVE  IInv'
<1>0. /\ pc' = "ended" /\ outcome' = verdict
      /\ work' = {w \in work : w.phase = "flying" /\ Detached(w)}
      /\ slots' = [p \in Peer |-> slots[p] - Cardinality(Aborted(p))]
      /\ parked' = {} /\ woken' = FALSE /\ requeue' = {} /\ gate' = "none" /\ inflight' = {}
      /\ UNCHANGED <<job, plan, carve, others, streak, health>>
  BY DEF End
<1>1. Planned' BY <1>0 DEF IInv, Planned
<1>2. ASSUME NEW p \in Peer
      PROVE  /\ slots'[p] = others'[p] + Cardinality(Flying(p)')
             /\ slots'[p] \in 0..Limit
  <2>1. /\ IsFiniteSet(Flying(p)) /\ Cardinality(Flying(p)) \in Nat
        /\ slots[p] \in 0..Limit /\ others[p] \in 0..Limit /\ Limit \in Nat
        /\ slots[p] = others[p] + Cardinality(Flying(p))
    BY FlyingFinite
  <2>2. Flying(p)' = Flying(p) \ Aborted(p) BY <1>0 DEF Flying, Aborted, Detached
  <2>3. Aborted(p) \subseteq Flying(p) BY DEF Aborted
  <2>4. IsFiniteSet(Aborted(p)) /\ Cardinality(Aborted(p)) \in Nat
    BY <2>1, <2>3, FS_Subset, FS_CardinalityType
  <2>5. Cardinality(Flying(p) \ Aborted(p)) = Cardinality(Flying(p)) - Cardinality(Aborted(p))
    <3>1. Flying(p) \cap Aborted(p) = Aborted(p) BY <2>3
    <3>2. Cardinality(Flying(p) \ Aborted(p))
            = Cardinality(Flying(p)) - Cardinality(Flying(p) \cap Aborted(p))
      BY <2>1, FS_Difference
    <3> QED BY <3>1, <3>2
  <2>6. Cardinality(Flying(p)') \in Nat
    BY <2>1, <2>2, FS_Subset, FS_CardinalityType
  <2>7. slots'[p] = slots[p] - Cardinality(Aborted(p)) /\ others'[p] = others[p] BY <1>0
  <2> QED BY <2>1, <2>2, <2>4, <2>5, <2>6, <2>7
<1>3. TypeOK'
  <2>0. TypeEmit /\ TypeBuffer /\ TypeChunks /\ work \subseteq Attempt /\ TypeSlots /\ TypeRest
    BY Parts DEF IInv
  <2>2. TypeBuffer' BY <1>0, <2>0 DEF TypeBuffer, Units
  <2>3. TypeChunks' BY <1>0 DEF TypeChunks
  <2>4. (work \subseteq Attempt)' BY <1>0, <2>0 DEF Attempt, Units
  <2>5. TypeSlots' BY <1>0, <1>2, <2>0 DEF TypeSlots
  <2>6. TypeRest' BY <1>0, <2>0 DEF TypeRest
  <2> QED BY <2>2, <2>3, <2>4, <2>5, <2>6, PartsNext
<1>4. Emitting' BY <1>0 DEF Emitting
<1>5. Carving' BY <1>0 DEF IInv, Carving
<1>6. Tidy' BY <1>0 DEF Tidy
<1>7. Attempts' BY <1>0, FS_Subset DEF IInv, Attempts
<1>8. (FlightsAreManned /\ Sleeping /\ Placed)' BY <1>0 DEF FlightsAreManned, Sleeping, Placed
<1>9. SlotsAreHeldByWorkers' BY <1>2 DEF SlotsAreHeldByWorkers
<1> QED BY <1>1, <1>3, <1>4, <1>5, <1>6, <1>7, <1>8, <1>9 DEF IInv

LEMMA EndStep ==
    ASSUME IInv, NEW verdict \in Outcomes \ {"running"}, End(verdict), pc # "ended",
           verdict = "completed" => Done, emitter' = emitter,
           buffered' \subseteq buffered, bad' \subseteq buffered'
    PROVE  IInv'
<1>1. UNCHANGED <<job, plan>> BY DEF End
<1>2. TypeEmit /\ Inside BY Parts DEF IInv, Emitting
<1>3. TypeEmit' BY <1>1, <1>2 DEF TypeEmit
<1>4. Inside' BY <1>1, <1>2 DEF Inside, Here
<1>5. verdict = "completed" => Done' BY <1>1 DEF Done
<1> QED BY <1>3, <1>4, <1>5, EndsWell

LEMMA PumpFinishedStep == ASSUME IInv, PumpFinished PROVE IInv'
<1>1. TypeBuffer BY Parts DEF IInv
<1> QED BY <1>1, EndStep DEF PumpFinished, emission, Outcomes, TypeBuffer

LEMMA ForfeitStep == ASSUME IInv, Forfeit PROVE IInv'
<1>1. TypeBuffer BY Parts DEF IInv
<1> QED BY <1>1, EndStep DEF Forfeit, NeedsData, emission, Outcomes, TypeBuffer

LEMMA StallStep == ASSUME IInv, Stall PROVE IInv'
<1>1. TypeBuffer BY Parts DEF IInv
<1> QED BY <1>1, EndStep DEF Stall, emission, Outcomes, TypeBuffer

LEMMA HearLastStrawStep == ASSUME IInv, NEW w \in work, HearLastStraw(w) PROVE IInv'
<1>1. TypeBuffer BY Parts DEF IInv
<1> QED BY <1>1, EndStep DEF HearLastStraw, emission, Outcomes, TypeBuffer

-----------------------------------------------------------------------------
(* Steps that fetch nothing *)

(* What is dropped from the buffer is behind the emitter, and the carving  *)
(* cursor at most leaves a range that is used up.                          *)
LEMMA FlowStep ==
    ASSUME IInv, UNCHANGED <<job, plan, requeue, inflight, work, slots, others, outcome>>,
           TypeEmit', Inside', emitter.pos <= emitter'.pos,
           emitter' = emitter \/ pc # "ended",
           carve' = carve \/ carve' = Cursor,
           buffered' \subseteq buffered, bad' \subseteq buffered',
           \A u \in buffered : u >= emitter'.pos => u \in buffered',
           TypeRest', pc' = "ended" <=> pc = "ended", Sleeping'
    PROVE  IInv'
<1>0. /\ Planned /\ Emitting /\ Carving /\ Tidy /\ Attempts /\ FlightsAreManned
      /\ SlotsAreHeldByWorkers /\ Placed
      /\ TypeEmit /\ TypeBuffer /\ TypeChunks /\ work \subseteq Attempt /\ TypeSlots
  BY Parts DEF IInv
<1>1. Planned' BY <1>0 DEF Planned
<1>2. TypeOK'
  <2>2. TypeBuffer' BY <1>0 DEF TypeBuffer, Units
  <2>3. TypeChunks' BY <1>0 DEF TypeChunks, Chunk, Flight, Units
  <2>4. (work \subseteq Attempt)' BY <1>0 DEF Attempt, Units
  <2>5. TypeSlots' BY <1>0 DEF TypeSlots
  <2> QED BY <2>2, <2>3, <2>4, <2>5, PartsNext
<1>3. Emitting' BY <1>0 DEF Emitting, Done
<1>4. Carving' /\ Uncarved \subseteq Uncarved' /\ \A u \in Nat : Behind(u) => Behind(u)'
  BY <1>0, CarveOn
<1>5. \A c \in inflight \cup requeue : Past(c) \in Nat BY <1>0, ChunkFacts
<1>6. Tidy'
  <2>1. \A c \in inflight \cup requeue : Behind(Past(c))' /\ Past(c) <= job.end
    BY <1>0, <1>4, <1>5 DEF Tidy
  <2> QED BY <1>0, <2>1 DEF Tidy, Behind, CarvedTo
<1>7. Attempts' BY <1>0 DEF Attempts
<1>8. FlightsAreManned' BY <1>0 DEF FlightsAreManned
<1>9. SlotsAreHeldByWorkers' BY <1>0 DEF SlotsAreHeldByWorkers, Flying
<1>10. Placed'
  <2> SUFFICES ASSUME pc # "ended" PROVE Placed'
    BY DEF Placed
  <2>1. Undelivered' = Undelivered /\ ToFetch' = ToFetch BY DEF Undelivered, ToFetch
  <2>2. \A u \in buffered : Behind(u + 1)'
    <3>1. buffered \subseteq Nat BY <1>0, JobFacts DEF TypeBuffer
    <3> QED BY <1>0, <1>4, <3>1 DEF Placed
  <2>3. \A c \in Undelivered \cup requeue : Reach(c) \cap buffered = {} BY <1>0 DEF Placed
  <2>4. ASSUME NEW u \in ToFetch, u >= emitter'.pos
        PROVE  \/ u \in buffered' \/ u \in Uncarved'
               \/ \E c \in Undelivered \cup requeue : u \in Reach(c)
    <3>1. u \in Nat BY <1>0, ToFetchFacts
    <3>2. emitter.pos \in Nat /\ emitter'.pos \in Nat
      BY <1>0, <1>1, JobFacts DEF TypeEmit
    <3>3. u >= emitter.pos BY <2>4, <3>1, <3>2
    <3> QED BY <1>0, <1>4, <2>4, <3>3 DEF Placed
  <2>5. \A u \in buffered' : Behind(u + 1)' BY <2>2
  <2> QED BY <2>1, <2>3, <2>4, <2>5 DEF Placed
<1> QED BY <1>1, <1>2, <1>3, <1>4, <1>6, <1>7, <1>8, <1>9, <1>10 DEF IInv

LEMMA QuietStep ==
    ASSUME IInv, UNCHANGED <<job, plan, emitter, requeue, inflight, work, slots, others, outcome>>,
           carve' = carve \/ carve' = Cursor,
           buffered' \subseteq buffered, bad' \subseteq buffered',
           \A u \in buffered : u >= emitter.pos => u \in buffered',
           TypeRest', pc' = "ended" <=> pc = "ended", Sleeping'
    PROVE  IInv'
<1>1. Planned /\ TypeEmit /\ Inside BY Parts DEF IInv, Emitting
<1>2. TypeEmit' BY <1>1 DEF TypeEmit
<1>3. Inside' BY <1>1 DEF Inside, Here
<1>4. emitter.pos <= emitter'.pos BY <1>1, JobFacts DEF TypeEmit
<1> QED BY <1>2, <1>3, <1>4, FlowStep

LEMMA PumpNeedsDataStep == ASSUME IInv, PumpNeedsData PROVE IInv'
<1>1. TypeBuffer /\ TypeRest BY Parts DEF IInv
<1>2. /\ pc = "pump" /\ pc' = "launch" /\ woken' = FALSE /\ carve' = carve
      /\ UNCHANGED <<job, plan, emitter, requeue, inflight, work, slots, others, outcome>>
      /\ UNCHANGED <<health, gate, parked, streak>>
      /\ buffered' = {u \in buffered : u >= emitter.pos}
      /\ bad' = {u \in bad : u >= emitter.pos}
  BY DEF PumpNeedsData, NeedsData, chunker, fleet
<1>3. TypeRest' BY <1>1, <1>2 DEF TypeRest
<1>4. Sleeping' BY <1>2 DEF Sleeping
<1>5. buffered' \subseteq buffered /\ bad' \subseteq buffered' BY <1>1, <1>2 DEF TypeBuffer
<1> QED BY <1>2, <1>3, <1>4, <1>5, QuietStep

LEMMA LaunchEndsStep == ASSUME IInv, LaunchEnds PROVE IInv'
<1>1. TypeBuffer /\ TypeRest BY Parts DEF IInv
<1>2. /\ pc = "launch" /\ pc' = "settle" /\ parked' = {} /\ (carve' = carve \/ carve' = Cursor)
      /\ UNCHANGED <<job, plan, emitter, requeue, inflight, work, slots, others, outcome>>
      /\ UNCHANGED <<health, gate, woken, streak, buffered, bad>>
  BY DEF LaunchEnds, emission, fleet
<1>3. TypeRest' BY <1>1, <1>2 DEF TypeRest
<1>4. Sleeping' BY <1>2 DEF Sleeping, Starved
<1> QED BY <1>1, <1>2, <1>3, <1>4, QuietStep DEF TypeBuffer

LEMMA StarveStep == ASSUME IInv, NEW p \in Peer, Starve(p) PROVE IInv'
<1>1. TypeBuffer /\ TypeRest BY Parts DEF IInv
<1>2. /\ pc = "launch" /\ pc' = "settle" /\ parked' = {p} /\ (carve' = carve \/ carve' = Cursor)
      /\ UNCHANGED <<job, plan, emitter, requeue, inflight, work, slots, others, outcome>>
      /\ UNCHANGED <<health, gate, woken, streak, buffered, bad>>
      /\ ~HasSlot(p)
  BY DEF Starve, emission, fleet
<1>3. TypeRest' BY <1>1, <1>2 DEF TypeRest
<1>4. Sleeping' BY <1>2 DEF Sleeping, HasSlot
<1> QED BY <1>1, <1>2, <1>3, <1>4, QuietStep DEF TypeBuffer

LEMMA SettleStep == ASSUME IInv, Settle PROVE IInv'
<1>1. TypeBuffer /\ TypeRest /\ Sleeping BY Parts DEF IInv
<1>2. /\ pc = "settle" /\ pc' = "wait" /\ carve' = carve
      /\ UNCHANGED <<job, plan, emitter, requeue, inflight, work, slots, others, outcome>>
      /\ UNCHANGED <<health, gate, parked, woken, streak, buffered, bad>>
  BY DEF Settle, emission, chunker, fleet
<1>3. TypeRest' BY <1>1, <1>2 DEF TypeRest
<1>4. Sleeping' BY <1>1, <1>2 DEF Sleeping, Starved, HasSlot
<1> QED BY <1>1, <1>2, <1>3, <1>4, QuietStep DEF TypeBuffer

LEMMA GateExpiresStep == ASSUME IInv, GateExpires PROVE IInv'
<1>1. TypeBuffer /\ TypeRest /\ Sleeping BY Parts DEF IInv
<1>2. /\ gate' = "past" /\ carve' = carve
      /\ UNCHANGED <<job, plan, emitter, requeue, inflight, work, slots, others, outcome>>
      /\ UNCHANGED <<health, pc, parked, woken, streak, buffered, bad>>
  BY DEF GateExpires, emission, fleet
<1>3. TypeRest' BY <1>1, <1>2 DEF TypeRest
<1>4. Sleeping' BY <1>1, <1>2 DEF Sleeping, Starved, HasSlot
<1> QED BY <1>1, <1>2, <1>3, <1>4, QuietStep DEF TypeBuffer

LEMMA TimerStep == ASSUME IInv, Timer PROVE IInv'
<1>1. TypeBuffer /\ TypeRest BY Parts DEF IInv
<1>2. /\ pc = "wait" /\ pc' = "launch" /\ gate' = "none" /\ woken' = FALSE /\ carve' = carve
      /\ UNCHANGED <<job, plan, emitter, requeue, inflight, work, slots, others, outcome>>
      /\ UNCHANGED <<health, parked, streak, buffered, bad>>
  BY DEF Timer, emission, fleet
<1>3. TypeRest' BY <1>1, <1>2 DEF TypeRest
<1>4. Sleeping' BY <1>2 DEF Sleeping
<1> QED BY <1>1, <1>2, <1>3, <1>4, QuietStep DEF TypeBuffer

LEMMA WakeStarvedStep == ASSUME IInv, WakeStarved PROVE IInv'
<1>1. TypeBuffer /\ TypeRest BY Parts DEF IInv
<1>2. /\ pc = "wait" /\ pc' = "launch" /\ woken' = FALSE /\ carve' = carve
      /\ UNCHANGED <<job, plan, emitter, requeue, inflight, work, slots, others, outcome>>
      /\ UNCHANGED <<health, gate, parked, streak, buffered, bad>>
  BY DEF WakeStarved, emission, chunker, fleet
<1>3. TypeRest' BY <1>1, <1>2 DEF TypeRest
<1>4. Sleeping' BY <1>2 DEF Sleeping
<1> QED BY <1>1, <1>2, <1>3, <1>4, QuietStep DEF TypeBuffer

LEMMA CooldownElapsesStep == ASSUME IInv, NEW p \in Peer, CooldownElapses(p) PROVE IInv'
<1>1. TypeBuffer /\ TypeRest /\ Sleeping BY Parts DEF IInv
<1>2. /\ carve' = carve /\ health' = [health EXCEPT ![p].open = "elapsed"]
      /\ UNCHANGED <<job, plan, emitter, requeue, inflight, work, slots, others, outcome>>
      /\ UNCHANGED <<pc, gate, parked, woken, streak, buffered, bad>>
  BY DEF CooldownElapses, emission, chunker
<1>3. TypeRest'
  <2>1. health \in [Peer -> Breaker] BY <1>1 DEF TypeRest
  <2>2. [health[p] EXCEPT !.open = "elapsed"] \in Breaker BY <2>1 DEF Breaker
  <2>3. health' = [health EXCEPT ![p] = [health[p] EXCEPT !.open = "elapsed"]] BY <1>2
  <2>4. health' \in [Peer -> Breaker] BY <2>1, <2>2, <2>3
  <2> QED BY <1>1, <1>2, <2>4 DEF TypeRest
<1>4. Sleeping' BY <1>1, <1>2 DEF Sleeping, Starved, HasSlot
<1> QED BY <1>1, <1>2, <1>3, <1>4, QuietStep DEF TypeBuffer

LEMMA StandStill == ASSUME IInv, UNCHANGED vars PROVE IInv'
<1>1. TypeBuffer /\ TypeRest /\ Sleeping BY Parts DEF IInv
<1>2. /\ carve' = carve
      /\ UNCHANGED <<job, plan, emitter, requeue, inflight, work, slots, others, outcome>>
      /\ UNCHANGED <<health, pc, gate, parked, woken, streak, buffered, bad>>
  BY DEF vars
<1>3. TypeRest' BY <1>1, <1>2 DEF TypeRest
<1>4. Sleeping' BY <1>1, <1>2 DEF Sleeping, Starved, HasSlot
<1> QED BY <1>1, <1>2, <1>3, <1>4, QuietStep DEF TypeBuffer

-----------------------------------------------------------------------------
(* Steps that emit *)

LEMMA EmitsInside ==
    ASSUME IInv, ~Done, NEW n \in Nat \ {0}, NEW wrong, ~Mismatch(n, wrong),
           UNCHANGED <<job, plan>>,
           emitter' = [span |-> emitter.span + (IF emitter.pos + n = Here.at + Here.len THEN 1 ELSE 0),
                       pos |-> emitter.pos + n, wrong |-> emitter.wrong \/ wrong],
           \/ emitter.pos + n = After(Here)
           \/ Here.do = "fetch" /\ ~(Here.retain > 0) /\ emitter.pos + n < After(Here)
    PROVE  TypeEmit' /\ Inside' /\ emitter'.pos = emitter.pos + n /\ emitter.pos <= emitter'.pos
<1> DEFINE spans == plan.spans
           m == Len(plan.spans)
           i == emitter.span
<1>0. /\ Planned /\ Inside /\ TypeEmit
  BY Parts DEF IInv, Emitting
<1>1. /\ m \in Nat \ {0} /\ i \in 1..m /\ Here = spans[i]
      /\ emitter.pos \in Nat /\ job.start \in Nat /\ job.end \in Nat
      /\ job.start <= emitter.pos /\ emitter.pos <= job.end
  <2>1. m \in Nat \ {0} BY <1>0, SpanFacts
  <2>2. i \in 1..(m + 1) /\ ~(i > m) BY <1>0 DEF TypeEmit, Done
  <2>3. i \in 1..m BY <2>1, <2>2
  <2> QED BY <1>0, <2>1, <2>3, JobFacts DEF TypeEmit, Here
<1>2. /\ Here.at \in Nat /\ Here.len \in Nat \ {0} /\ After(Here) = Here.at + Here.len
      /\ After(Here) \in Nat /\ After(Here) <= job.end
      /\ After(Here) = IF i = m THEN job.end ELSE spans[i + 1].at
  <2>1. /\ Here.at \in Nat /\ Here.len \in Nat \ {0} /\ After(Here) = Here.at + Here.len
        /\ After(Here) <= job.end
        /\ After(Here) = IF i = m THEN job.end ELSE spans[i + 1].at
    BY <1>0, <1>1, SpanFacts
  <2> QED BY <2>1
<1>3. emitter.pos + n \in Nat /\ emitter.pos + n <= After(Here) BY <1>1, <1>2
<1>4. /\ emitter'.pos = emitter.pos + n
      /\ emitter'.span = IF emitter.pos + n = After(Here) THEN i + 1 ELSE i
      /\ emitter'.wrong = (emitter.wrong \/ wrong)
  BY <1>1, <1>2
<1>5. TypeEmit'
  <2>1. emitter'.span \in 1..(m + 1) BY <1>1, <1>4
  <2>2. emitter'.pos \in job.start..job.end BY <1>1, <1>2, <1>3, <1>4
  <2> QED BY <2>1, <2>2 DEF TypeEmit
<1>6. job.full /\ emitter'.pos = job.end => ~emitter'.wrong
  BY <1>4 DEF Mismatch
<1>7. CASE emitter.pos + n = After(Here)
  <2>1. emitter'.span = i + 1 /\ emitter'.pos = After(Here) BY <1>4, <1>7
  <2>2. CASE i = m
    <3>1. emitter'.pos = job.end /\ emitter'.span > m BY <1>1, <1>2, <2>1, <2>2
    <3>2. ~(emitter'.span <= m)
      <4>1. emitter'.span = m + 1 /\ m \in Nat BY <1>1, <2>1, <2>2
      <4> HIDE DEF m
      <4> QED BY <4>1
    <3> QED BY <1>1, <1>4, <1>5, <1>6, <3>1, <3>2 DEF Inside
  <2>3. CASE i # m
    <3>1. i + 1 \in 1..m BY <1>1, <2>3
    <3>2. Here' = spans[i + 1] BY <2>1 DEF Here
    <3>3. /\ spans[i + 1].at \in Nat /\ spans[i + 1].len \in Nat \ {0}
          /\ After(spans[i + 1]) = spans[i + 1].at + spans[i + 1].len
      BY <1>0, <3>1, SpanFacts
    <3>4. emitter'.pos = spans[i + 1].at /\ emitter'.pos < After(spans[i + 1])
      BY <1>2, <2>1, <2>3, <3>3
    <3>5. After(Here)' = After(spans[i + 1]) BY <3>2 DEF After
    <3>6. ~(emitter'.span > m) BY <1>1, <2>1, <3>1
    <3> QED BY <1>1, <1>4, <1>5, <1>6, <3>2, <3>3, <3>4, <3>5, <3>6 DEF Inside
  <2> QED BY <2>2, <2>3
<1>8. CASE Here.do = "fetch" /\ ~(Here.retain > 0) /\ emitter.pos + n < After(Here)
  <2>1. emitter'.span = i /\ Here' = Here BY <1>1, <1>2, <1>4, <1>8 DEF Here
  <2>2. Here.at <= emitter.pos BY <1>0, <1>1 DEF Inside
  <2>3. Here.at <= emitter'.pos /\ emitter'.pos < After(Here) BY <1>1, <1>2, <1>4, <1>8, <2>2
  <2>4. After(Here)' = After(Here) BY <2>1 DEF After
  <2>5. ~(emitter'.span > m) BY <1>1, <2>1
  <2> QED BY <1>1, <1>4, <1>5, <1>6, <1>8, <2>1, <2>3, <2>4, <2>5 DEF Inside
<1> QED BY <1>1, <1>3, <1>4, <1>5, <1>7, <1>8

LEMMA EmitStep ==
    ASSUME IInv, pc = "pump", ~Done, NEW n \in Nat \ {0}, NEW wrong, Emit(n, wrong),
           \/ emitter.pos + n = After(Here)
           \/ Here.do = "fetch" /\ ~(Here.retain > 0) /\ emitter.pos + n < After(Here),
           buffered' \subseteq buffered, bad' \subseteq buffered',
           \A u \in buffered : u >= emitter.pos + n => u \in buffered'
    PROVE  IInv'
<1>1. CASE Mismatch(n, wrong)
  <2>1. End("mismatch") /\ emitter' = emitter BY <1>1 DEF Emit
  <2> QED BY <2>1, EndStep DEF Outcomes
<1>2. CASE ~Mismatch(n, wrong)
  <2>1. /\ emitter' = [span |-> emitter.span + (IF emitter.pos + n = Here.at + Here.len THEN 1 ELSE 0),
                       pos |-> emitter.pos + n, wrong |-> emitter.wrong \/ wrong]
        /\ Carry \/ End("gone")
    BY <1>2 DEF Emit
  <2>2. UNCHANGED <<job, plan>> BY <2>1 DEF Carry, End
  <2>3. /\ TypeEmit' /\ Inside' /\ emitter'.pos = emitter.pos + n
        /\ emitter.pos <= emitter'.pos
    BY <1>2, <2>1, <2>2, EmitsInside
  <2>4. CASE Carry
    <3>1. /\ UNCHANGED <<job, plan, requeue, inflight, work, slots, others, outcome, carve>>
          /\ UNCHANGED <<health, gate, pc, parked, woken, streak>>
      BY <2>4 DEF Carry, chunker
    <3>2. TypeRest BY Parts DEF IInv
    <3>3. TypeRest' BY <3>1, <3>2 DEF TypeRest
    <3>4. Sleeping' BY <3>1 DEF Sleeping
    <3> QED BY <2>3, <3>1, <3>3, <3>4, FlowStep
  <2>5. CASE End("gone") BY <2>3, <2>5, EndsWell DEF Outcomes
  <2> QED BY <2>1, <2>4, <2>5
<1> QED BY <1>1, <1>2

(* The span being emitted.                                                 *)
LEMMA HereFacts ==
    ASSUME IInv, ~Done
    PROVE  /\ Here.at \in Nat /\ Here.len \in Nat \ {0} /\ After(Here) = Here.at + Here.len
           /\ emitter.pos \in Nat /\ Here.at <= emitter.pos /\ emitter.pos < After(Here)
           /\ Here.do # "fetch" \/ Here.retain > 0 => emitter.pos = Here.at
           /\ TypeBuffer /\ buffered \subseteq Nat
<1>0. /\ Planned /\ Inside /\ TypeEmit /\ TypeBuffer
  BY Parts DEF IInv, Emitting
<1>1. Len(plan.spans) \in Nat BY <1>0, SpanFacts
<1>2. emitter.span \in 1..Len(plan.spans) BY <1>0, <1>1 DEF TypeEmit, Done
<1>3. Here.at \in Nat /\ Here.len \in Nat \ {0} /\ After(Here) = Here.at + Here.len
  BY <1>0, <1>2, SpanFacts DEF Here
<1>4. emitter.pos \in Nat /\ buffered \subseteq Nat
  BY <1>0, JobFacts DEF TypeEmit, TypeBuffer
<1>5. emitter.span <= Len(plan.spans) BY <1>1, <1>2
<1> QED BY <1>0, <1>3, <1>4, <1>5 DEF Inside

LEMMA PumpLiteralStep == ASSUME IInv, PumpLiteral PROVE IInv'
<1>1. /\ pc = "pump" /\ ~Done /\ Here.do = "lit" /\ Emit(Here.len, ~job.honest)
      /\ buffered' = buffered /\ bad' = bad
  BY DEF PumpLiteral, Pumping
<1>2. emitter.pos + Here.len = After(Here) BY <1>1, HereFacts
<1> QED BY <1>1, <1>2, HereFacts, EmitStep DEF TypeBuffer

LEMMA PumpReplayStep == ASSUME IInv, PumpReplay PROVE IInv'
<1> DEFINE copy == held[Here.key]
<1>1. pc = "pump" /\ ~Done /\ Here.do = "replay" BY DEF PumpReplay, Pumping
<1>2. CASE copy.due = 0 \/ copy.len # Here.len
  <2>1. End("other") /\ UNCHANGED <<emitter, buffered, bad>>
    BY <1>2 DEF PumpReplay, emission
  <2> QED BY <1>1, <2>1, HereFacts, EndStep DEF TypeBuffer, Outcomes
<1>3. CASE ~(copy.due = 0 \/ copy.len # Here.len)
  <2>1. Emit(Here.len, copy.wrong \/ ~job.honest) /\ UNCHANGED <<buffered, bad>>
    BY <1>3 DEF PumpReplay
  <2>2. emitter.pos + Here.len = After(Here) BY <1>1, HereFacts
  <2> QED BY <1>1, <2>1, <2>2, HereFacts, EmitStep DEF TypeBuffer
<1> QED BY <1>2, <1>3

LEMMA PumpPlainStep == ASSUME IInv, PumpPlain PROVE IInv'
<1>1. /\ pc = "pump" /\ ~Done /\ Here.do = "fetch" /\ Here.retain = 0
      /\ Emit(1, emitter.pos \in bad)
      /\ buffered' = buffered \ {emitter.pos} /\ bad' = bad \ {emitter.pos}
  BY DEF PumpPlain, Pumping
<1>2. \/ emitter.pos + 1 = After(Here)
      \/ Here.do = "fetch" /\ ~(Here.retain > 0) /\ emitter.pos + 1 < After(Here)
  BY <1>1, HereFacts
<1>3. /\ buffered' \subseteq buffered /\ bad' \subseteq buffered'
      /\ \A u \in buffered : u >= emitter.pos + 1 => u \in buffered'
  BY <1>1, HereFacts DEF TypeBuffer
<1> QED BY <1>1, <1>2, <1>3, EmitStep

LEMMA PumpRetainedStep == ASSUME IInv, PumpRetained PROVE IInv'
<1> DEFINE units == Here.at..(Here.at + Here.len - 1)
           wrong == units \cap bad # {}
<1>1. /\ pc = "pump" /\ ~Done /\ Here.do = "fetch" /\ Here.retain > 0
      /\ Emit(Here.len, wrong)
      /\ buffered' = buffered \ units /\ bad' = bad \ units
  BY DEF PumpRetained, Pumping
<1>2. emitter.pos + Here.len = After(Here) BY <1>1, HereFacts
<1>3. /\ buffered' \subseteq buffered /\ bad' \subseteq buffered'
      /\ \A u \in buffered : u >= emitter.pos + Here.len => u \in buffered'
  BY <1>1, <1>2, HereFacts DEF TypeBuffer
<1> HIDE DEF units, wrong
<1> QED BY <1>1, <1>2, <1>3, HereFacts, EmitStep

-----------------------------------------------------------------------------
(* Steps of the workers and of other transfers *)

LEMMA StaffStep ==
    ASSUME IInv, UNCHANGED <<job, plan, emitter, buffered, bad, carve, requeue, inflight, pc, outcome>>,
           (work \subseteq Attempt)', Attempts', FlightsAreManned', SlotsAreHeldByWorkers',
           TypeSlots', TypeRest', Sleeping'
    PROVE  IInv'
<1>0. /\ Planned /\ Emitting /\ Carving /\ Tidy /\ Placed
      /\ TypeEmit /\ TypeBuffer /\ TypeChunks
  BY Parts DEF IInv
<1>1. Planned' BY <1>0 DEF Planned
<1>2. TypeOK'
  <2>1. TypeEmit' BY <1>0 DEF TypeEmit
  <2>2. TypeBuffer' BY <1>0 DEF TypeBuffer, Units
  <2>3. TypeChunks' BY <1>0 DEF TypeChunks, Chunk, Flight, Units
  <2> QED BY <2>1, <2>2, <2>3, PartsNext
<1>3. Emitting' BY <1>0 DEF Emitting, Inside, Here, Done
<1>4. Carving' BY <1>0 DEF Carving
<1>5. Tidy' BY <1>0 DEF Tidy, Behind, CarvedTo
<1>6. Placed'
  <2>1. Undelivered' = Undelivered /\ ToFetch' = ToFetch /\ Uncarved' = Uncarved
    BY DEF Undelivered, ToFetch, Uncarved
  <2> QED BY <1>0, <2>1 DEF Placed, Behind, CarvedTo
<1> QED BY <1>1, <1>2, <1>3, <1>4, <1>5, <1>6 DEF IInv

LEMMA OtherTakesStep == ASSUME IInv, NEW p \in Peer, OtherTakes(p) PROVE IInv'
<1>1. /\ HasSlot(p) /\ slots' = [slots EXCEPT ![p] = @ + 1] /\ others' = [others EXCEPT ![p] = @ + 1]
      /\ UNCHANGED <<job, plan, emitter, buffered, bad, carve, requeue, inflight, pc, outcome>>
      /\ UNCHANGED <<work, health, gate, parked, streak, woken>>
  BY DEF OtherTakes, emission, chunker
<1>2. /\ work \subseteq Attempt /\ Attempts /\ FlightsAreManned /\ TypeSlots /\ TypeRest /\ Sleeping
      /\ SlotsAreHeldByWorkers /\ Planned
  BY Parts DEF IInv
<1>3. (work \subseteq Attempt)' BY <1>1, <1>2 DEF Attempt, Units
<1>4. Attempts' BY <1>1, <1>2 DEF Attempts
<1>5. FlightsAreManned' BY <1>1, <1>2 DEF FlightsAreManned
<1>6. /\ slots[p] \in 0..Limit /\ others[p] \in 0..Limit /\ Limit \in Nat
      /\ slots[p] = others[p] + Cardinality(Flying(p)) /\ Cardinality(Flying(p)) \in Nat
      /\ slots[p] < Limit
  BY <1>1, FlyingFinite DEF HasSlot
<1>7. \A q \in Peer : Flying(q)' = Flying(q) BY <1>1 DEF Flying
<1>8. SlotsAreHeldByWorkers'
  <2> SUFFICES ASSUME NEW q \in Peer PROVE slots'[q] = others'[q] + Cardinality(Flying(q))
    BY <1>7 DEF SlotsAreHeldByWorkers
  <2>1. slots[q] = others[q] + Cardinality(Flying(q)) BY <1>2 DEF SlotsAreHeldByWorkers
  <2>2. CASE q = p
    <3>1. slots'[p] = slots[p] + 1 /\ others'[p] = others[p] + 1 BY <1>1, <1>2 DEF TypeSlots
    <3> QED BY <1>6, <2>2, <3>1
  <2>3. CASE q # p BY <1>1, <1>2, <2>1, <2>3 DEF TypeSlots
  <2> QED BY <2>2, <2>3
<1>9. TypeSlots'
  <2>1. slots[p] + 1 \in 0..Limit /\ others[p] + 1 \in 0..Limit BY <1>6
  <2> QED BY <1>1, <1>2, <2>1 DEF TypeSlots
<1>10. TypeRest' BY <1>1, <1>2 DEF TypeRest
<1>11. Sleeping'
  <2> SUFFICES ASSUME pc \in {"settle", "wait"}, Starved, ~woken, NEW q \in parked
               PROVE  ~HasSlot(q)'
    BY <1>1 DEF Sleeping, Starved
  <2>1. ~HasSlot(q) /\ q \in Peer BY <1>2 DEF Sleeping, TypeRest
  <2>2. q # p BY <1>1, <2>1
  <2> QED BY <1>1, <1>2, <2>1, <2>2 DEF HasSlot, TypeSlots
<1> QED BY <1>1, <1>3, <1>4, <1>5, <1>8, <1>9, <1>10, <1>11, StaffStep

LEMMA OtherReleasesStep == ASSUME IInv, NEW p \in Peer, OtherReleases(p) PROVE IInv'
<1>1. /\ others[p] > 0 /\ pc # "ended" /\ woken' = TRUE
      /\ slots' = [slots EXCEPT ![p] = @ - 1] /\ others' = [others EXCEPT ![p] = @ - 1]
      /\ UNCHANGED <<job, plan, emitter, buffered, bad, carve, requeue, inflight, pc, outcome>>
      /\ UNCHANGED <<work, health, gate, parked, streak>>
  BY DEF OtherReleases, FreeSlot, emission, chunker
<1>2. /\ work \subseteq Attempt /\ Attempts /\ FlightsAreManned /\ TypeSlots /\ TypeRest /\ Sleeping
      /\ SlotsAreHeldByWorkers /\ Planned
  BY Parts DEF IInv
<1>3. (work \subseteq Attempt)' BY <1>1, <1>2 DEF Attempt, Units
<1>4. Attempts' BY <1>1, <1>2 DEF Attempts
<1>5. FlightsAreManned' BY <1>1, <1>2 DEF FlightsAreManned
<1>6. /\ slots[p] \in 0..Limit /\ others[p] \in 0..Limit /\ Limit \in Nat
      /\ slots[p] = others[p] + Cardinality(Flying(p)) /\ Cardinality(Flying(p)) \in Nat
  BY FlyingFinite
<1>7. \A q \in Peer : Flying(q)' = Flying(q) BY <1>1 DEF Flying
<1>8. SlotsAreHeldByWorkers'
  <2> SUFFICES ASSUME NEW q \in Peer PROVE slots'[q] = others'[q] + Cardinality(Flying(q))
    BY <1>7 DEF SlotsAreHeldByWorkers
  <2>1. slots[q] = others[q] + Cardinality(Flying(q)) BY <1>2 DEF SlotsAreHeldByWorkers
  <2>2. CASE q = p
    <3>1. slots'[p] = slots[p] - 1 /\ others'[p] = others[p] - 1 BY <1>1, <1>2 DEF TypeSlots
    <3> QED BY <1>6, <2>2, <3>1
  <2>3. CASE q # p BY <1>1, <1>2, <2>1, <2>3 DEF TypeSlots
  <2> QED BY <2>2, <2>3
<1>9. TypeSlots'
  <2>1. slots[p] - 1 \in 0..Limit /\ others[p] - 1 \in 0..Limit BY <1>1, <1>6
  <2> QED BY <1>1, <1>2, <2>1 DEF TypeSlots
<1>10. TypeRest' BY <1>1, <1>2 DEF TypeRest
<1>11. Sleeping' BY <1>1 DEF Sleeping
<1> QED BY <1>1, <1>3, <1>4, <1>5, <1>8, <1>9, <1>10, <1>11, StaffStep

(* An attempt that ends keeps its place in its flight until it is heard.   *)
LEMMA ReportStep ==
    ASSUME IInv, NEW w \in work, NEW result \in {"ok", "wrong", "failed"}, Report(w, result),
           health' \in [Peer -> Breaker]
    PROVE  IInv'
<1> DEFINE v == [w EXCEPT !.phase = result]
           p == w.peer
<1>1. /\ w.phase = "flying" /\ woken' = (pc # "ended")
      /\ slots' = [slots EXCEPT ![p] = @ - 1]
      /\ UNCHANGED <<job, plan, emitter, buffered, bad, carve, requeue, inflight, pc, outcome>>
      /\ UNCHANGED <<others, gate, parked, streak>>
      /\ work' = (work \ {w}) \cup (IF pc = "ended" THEN {} ELSE {v})
  BY DEF Report, FreeSlot, emission, chunker
<1>2. /\ work \subseteq Attempt /\ Attempts /\ FlightsAreManned /\ TypeSlots /\ TypeRest /\ Sleeping
      /\ SlotsAreHeldByWorkers /\ Planned
  BY Parts DEF IInv
<1>3. /\ v \in Attempt /\ v.off = w.off /\ v.len = w.len /\ v.peer = w.peer
      /\ v.phase = result /\ v.phase # "flying" /\ p \in Peer
  <2>1. w \in Attempt BY <1>2
  <2> QED BY <2>1 DEF Attempt
<1> HIDE DEF v, p
<1>4. (work \subseteq Attempt)' BY <1>1, <1>2, <1>3 DEF Attempt, Units
<1>5. Attempts'
  <2>1. IsFiniteSet(work \ {w}) BY <1>2, FS_RemoveElement DEF Attempts
  <2>2. IsFiniteSet((work \ {w}) \cup {v}) BY <2>1, FS_AddElement
  <2>3. IsFiniteSet(work') BY <1>1, <2>1, <2>2
  <2>4. \A a \in work' : a \in work \ {w} \/ a = v BY <1>1
  <2>5. \A a, b \in work' : a.off = b.off /\ a.peer = b.peer => a = b
    <3> TAKE a, b \in work'
    <3>1. CASE a \in work \ {w} /\ b \in work \ {w} BY <1>2, <3>1 DEF Attempts
    <3>2. CASE a \in work \ {w} /\ b = v BY <1>2, <1>3, <3>2 DEF Attempts
    <3>3. CASE a = v /\ b \in work \ {w} BY <1>2, <1>3, <3>3 DEF Attempts
    <3> QED BY <2>4, <3>1, <3>2, <3>3
  <2>6. \A a \in work', f \in inflight' : a.off = f.off => a.len = f.len
    BY <1>1, <1>2, <1>3, <2>4 DEF Attempts
  <2> QED BY <2>3, <2>5, <2>6 DEF Attempts
<1>6. FlightsAreManned'
  <2> SUFFICES ASSUME pc # "ended"
               PROVE  {<<a.off, a.peer>> : a \in work'} = {<<a.off, a.peer>> : a \in work}
    BY <1>1, <1>2 DEF FlightsAreManned
  <2>1. work' = (work \ {w}) \cup {v} BY <1>1
  <2> QED BY <1>3, <2>1
<1>7. \A q \in Peer : Flying(q)' = IF q = p THEN Flying(q) \ {w} ELSE Flying(q)
  <2> TAKE q \in Peer
  <2>1. \A a \in work' : a.phase = "flying" => a \in work \ {w} BY <1>1, <1>3
  <2>2. work \ {w} \subseteq work' BY <1>1
  <2>3. w.peer = p BY DEF p
  <2> QED BY <2>1, <2>2, <2>3 DEF Flying
<1>8. /\ Cardinality(Flying(p) \ {w}) = Cardinality(Flying(p)) - 1
      /\ Cardinality(Flying(p)) \in Nat /\ Cardinality(Flying(p)) # 0
      /\ slots[p] = others[p] + Cardinality(Flying(p))
      /\ slots[p] \in 0..Limit /\ others[p] \in 0..Limit /\ Limit \in Nat
  <2>1. /\ IsFiniteSet(Flying(p)) /\ Cardinality(Flying(p)) \in Nat
        /\ slots[p] = others[p] + Cardinality(Flying(p))
        /\ slots[p] \in 0..Limit /\ others[p] \in 0..Limit /\ Limit \in Nat
    BY <1>3, FlyingFinite
  <2>2. w \in Flying(p) BY <1>1 DEF Flying, p
  <2>3. Cardinality(Flying(p)) # 0 BY <2>1, <2>2, FS_EmptySet
  <2>4. Cardinality(Flying(p) \ {w}) = Cardinality(Flying(p)) - 1 BY <2>1, <2>2, FS_RemoveElement
  <2> QED BY <2>1, <2>3, <2>4
<1>9. SlotsAreHeldByWorkers'
  <2> SUFFICES ASSUME NEW q \in Peer PROVE slots'[q] = others'[q] + Cardinality(Flying(q)')
    BY DEF SlotsAreHeldByWorkers
  <2>1. CASE q = p
    <3>1. slots'[p] = slots[p] - 1 BY <1>1, <1>2, <1>3 DEF TypeSlots
    <3>2. Cardinality(Flying(q)') = Cardinality(Flying(p)) - 1 BY <1>7, <1>8, <2>1
    <3> QED BY <1>1, <1>8, <2>1, <3>1, <3>2
  <2>2. CASE q # p
    <3>1. slots'[q] = slots[q] /\ Flying(q)' = Flying(q) BY <1>1, <1>2, <1>7, <2>2 DEF TypeSlots
    <3> QED BY <1>1, <1>2, <3>1 DEF SlotsAreHeldByWorkers
  <2> QED BY <2>1, <2>2
<1>10. TypeSlots'
  <2>1. slots[p] - 1 \in 0..Limit BY <1>8
  <2> QED BY <1>1, <1>2, <2>1 DEF TypeSlots
<1>11. TypeRest' BY <1>1, <1>2 DEF TypeRest
<1>12. Sleeping' BY <1>1 DEF Sleeping
<1> QED BY <1>1, <1>4, <1>5, <1>6, <1>9, <1>10, <1>11, <1>12, StaffStep

LEMMA FinishStep == ASSUME IInv, NEW w \in work, Finish(w) PROVE IInv'
<1>1. work \subseteq Attempt /\ health \in [Peer -> Breaker] BY Parts DEF IInv, TypeRest
<1>2. w.peer \in Peer
  <2>1. w \in Attempt BY <1>1
  <2> QED BY <2>1 DEF Attempt
<1>3. Threshold \in Nat \ {0} BY TransferAssumption
<1>4. ASSUME RecordOk(w.peer) PROVE health' \in [Peer -> Breaker]
  <2>1. [strikes |-> 0, open |-> "none"] \in Breaker BY <1>3 DEF Breaker
  <2> QED BY <1>1, <1>4, <2>1 DEF RecordOk
<1>5. ASSUME RecordStrike(w.peer) PROVE health' \in [Peer -> Breaker]
  <2> DEFINE h == health[w.peer]
             n == IF h.strikes < Threshold THEN h.strikes + 1 ELSE Threshold
             next == [strikes |-> n, open |-> IF n >= Threshold THEN "cooling" ELSE h.open]
  <2>1. health' = [health EXCEPT ![w.peer] = next] BY <1>5 DEF RecordStrike
  <2>2. h \in Breaker BY <1>1, <1>2
  <2>3. n \in 0..Threshold BY <1>3, <2>2 DEF Breaker
  <2>4. next \in Breaker
    <3> HIDE DEF n
    <3> QED BY <2>2, <2>3 DEF Breaker
  <2> HIDE DEF next
  <2> QED BY <1>1, <2>1, <2>4
<1>6. CASE Deliver(w) BY <1>4, <1>6, ReportStep DEF Deliver
<1>7. CASE DeliverWrong(w) BY <1>4, <1>7, ReportStep DEF DeliverWrong
<1>8. CASE FailWithStrike(w) BY <1>5, <1>8, ReportStep DEF FailWithStrike
<1>9. CASE FailWithout(w) BY <1>1, <1>9, ReportStep DEF FailWithout
<1> QED BY <1>6, <1>7, <1>8, <1>9 DEF Finish

-----------------------------------------------------------------------------
(* Hearing a worker *)

(* The flight of a worker that is heard.                                   *)
LEMMA FlightIs ==
    ASSUME IInv, pc # "ended", NEW w \in work
    PROVE  /\ FlightOf(w) \in inflight /\ FlightOf(w).off = w.off /\ FlightOf(w).len = w.len
           /\ w.peer \in FlightOf(w).live
           /\ \A g \in inflight : g # FlightOf(w) => g.off # w.off
<1>0. Planned /\ TypeChunks /\ Tidy /\ Attempts /\ FlightsAreManned BY Parts DEF IInv
<1>1. <<w.off, w.peer>> \in UNION {{f.off} \X f.live : f \in inflight}
  BY <1>0 DEF FlightsAreManned
<1>2. PICK f \in inflight : f.off = w.off /\ w.peer \in f.live BY <1>1
<1>3. ASSUME NEW g \in inflight, g.off = w.off PROVE g = f
  <2>1. /\ f.off \in Nat /\ f.len \in Nat \ {0} /\ Past(f) = f.off + f.len
        /\ g.off \in Nat /\ g.len \in Nat \ {0} /\ Past(g) = g.off + g.len
    BY <1>0, ChunkFacts
  <2>2. ~Apart(g, f) BY <1>2, <1>3, <2>1 DEF Apart
  <2> QED BY <1>0, <2>2 DEF Tidy
<1>4. FlightOf(w) = f BY <1>2, <1>3 DEF FlightOf
<1>5. f.len = w.len BY <1>0, <1>2 DEF Attempts
<1> QED BY <1>2, <1>3, <1>4, <1>5

(* f is the flight without the worker that is heard.                       *)
Leaves(w, f) ==
    /\ f.off = w.off /\ f.len = w.len /\ f.live = FlightOf(w).live \ {w.peer}
    /\ f \in Flight

LEMMA LandedLeaves ==
    ASSUME IInv, pc # "ended", NEW w \in work
    PROVE  /\ Leaves(w, Landed(FlightOf(w), w))
           /\ Landed(FlightOf(w), w).delivered = FlightOf(w).delivered
           /\ Leaves(w, [Landed(FlightOf(w), w) EXCEPT !.delivered = TRUE])
           /\ [Landed(FlightOf(w), w) EXCEPT !.delivered = TRUE].delivered = TRUE
<1> DEFINE f == FlightOf(w)
           g == Landed(f, w)
           h == [g EXCEPT !.delivered = TRUE]
<1>1. f \in Flight /\ f.off = w.off /\ f.len = w.len
  <2>1. TypeChunks BY Parts DEF IInv
  <2> QED BY <2>1, FlightIs DEF TypeChunks
<1> HIDE DEF f
<1>2. /\ g \in Flight /\ g.off = w.off /\ g.len = w.len /\ g.live = f.live \ {w.peer}
      /\ g.delivered = f.delivered
  BY <1>1 DEF Flight, Landed
<1> HIDE DEF g
<1>3. /\ h \in Flight /\ h.off = w.off /\ h.len = w.len /\ h.live = f.live \ {w.peer}
      /\ h.delivered = TRUE
  BY <1>1, <1>2 DEF Flight
<1> HIDE DEF h
<1> QED BY <1>2, <1>3 DEF Leaves, f, g, h

(* What a retired flight leaves behind.                                    *)
LEMMA RetireFacts ==
    ASSUME IInv, pc # "ended", NEW w \in work, NEW f, Leaves(w, f), Retire(f)
    PROVE  /\ inflight' = (inflight \ {FlightOf(w)}) \cup (IF f.live = {} THEN {} ELSE {f})
           /\ \A g \in inflight' : \E h \in inflight : g.off = h.off /\ g.len = h.len
                                      /\ ((g = h /\ h # FlightOf(w)) \/ (g = f /\ h = FlightOf(w)))
           /\ inflight' \subseteq Flight
<1>1. /\ FlightOf(w) \in inflight /\ FlightOf(w).off = w.off /\ FlightOf(w).len = w.len
      /\ \A g \in inflight : g # FlightOf(w) => g.off # w.off
  BY FlightIs
<1>2. {g \in inflight : g.off # f.off} = inflight \ {FlightOf(w)} BY <1>1 DEF Leaves
<1>3. inflight' = (inflight \ {FlightOf(w)}) \cup (IF f.live = {} THEN {} ELSE {f})
  BY <1>2 DEF Retire
<1>4. inflight \subseteq Flight BY Parts DEF IInv, TypeChunks
<1>5. ASSUME NEW g \in inflight'
      PROVE  \E h \in inflight : g.off = h.off /\ g.len = h.len
                                 /\ ((g = h /\ h # FlightOf(w)) \/ (g = f /\ h = FlightOf(w)))
  <2>1. CASE g \in inflight \ {FlightOf(w)} BY <2>1
  <2>2. CASE g = f BY <1>1, <2>2 DEF Leaves
  <2> QED BY <1>3, <2>1, <2>2
<1> QED BY <1>3, <1>4, <1>5 DEF Leaves

(* Hearing w: requeued and buffered are what the handler makes of them.    *)
LEMMA HearStep ==
    ASSUME IInv, pc = "wait", NEW w \in work, w.phase # "flying", NEW f, Leaves(w, f), Retire(f),
           work' = work \ {w},
           UNCHANGED <<job, plan, emitter, carve, slots, others, outcome>>,
           pc' \in {"pump", "launch"}, TypeRest', TypeBuffer',
           \/ requeue' = requeue
           \/ f.live = {} /\ requeue' = requeue \cup {[off |-> w.off, len |-> w.len]},
           Placed'
    PROVE  IInv'
<1>0. /\ Planned /\ Emitting /\ Carving /\ Tidy /\ Attempts /\ FlightsAreManned
      /\ SlotsAreHeldByWorkers
      /\ TypeEmit /\ TypeChunks /\ work \subseteq Attempt /\ TypeSlots
  BY Parts DEF IInv
<1> DEFINE old == FlightOf(w)
<1>1. /\ old \in inflight /\ old.off = w.off /\ old.len = w.len /\ w.peer \in old.live
      /\ \A g \in inflight : g # old => g.off # w.off
  BY FlightIs
<1>2. /\ inflight' = (inflight \ {old}) \cup (IF f.live = {} THEN {} ELSE {f})
      /\ \A g \in inflight' : \E h \in inflight : g.off = h.off /\ g.len = h.len
                                 /\ ((g = h /\ h # old) \/ (g = f /\ h = old))
      /\ inflight' \subseteq Flight
  BY RetireFacts
<1>l. f.off = w.off /\ f.len = w.len /\ f.live = old.live \ {w.peer} BY DEF Leaves
<1> HIDE DEF old
<1>3. Planned' BY <1>0 DEF Planned
<1>4. TypeOK'
  <2>1. TypeEmit' BY <1>0 DEF TypeEmit
  <2>2. requeue' \subseteq Chunk
    <3>1. w \in Attempt BY <1>0
    <3>2. [off |-> w.off, len |-> w.len] \in Chunk BY <3>1 DEF Attempt, Chunk
    <3> QED BY <1>0, <3>2 DEF TypeChunks
  <2>3. TypeChunks' BY <1>2, <2>2 DEF TypeChunks, Chunk, Flight, Units
  <2>4. (work \subseteq Attempt)' BY <1>0 DEF Attempt, Units
  <2>5. TypeSlots' BY <1>0 DEF TypeSlots
  <2> QED BY <2>1, <2>3, <2>4, <2>5, PartsNext
<1>5. Emitting' BY <1>0 DEF Emitting, Inside, Here, Done
<1>6. Carving' BY <1>0 DEF Carving
<1>7. Attempts'
  <2>1. IsFiniteSet(work') BY <1>0, FS_RemoveElement DEF Attempts
  <2>2. \A a \in work', g \in inflight' : a.off = g.off => a.len = g.len
    BY <1>0, <1>2 DEF Attempts
  <2> QED BY <1>0, <2>1, <2>2 DEF Attempts
<1>8. FlightsAreManned'
  <2>0. /\ \A g \in inflight : g.live # {}
        /\ {<<a.off, a.peer>> : a \in work} = UNION {{g.off} \X g.live : g \in inflight}
    BY <1>0 DEF FlightsAreManned
  <2>1. \A g \in inflight' : g.live # {} BY <1>2, <2>0
  <2>2. ASSUME NEW a \in work'
        PROVE  <<a.off, a.peer>> \in UNION {{g.off} \X g.live : g \in inflight'}
    <3>1. a \in work /\ a # w OBVIOUS
    <3>0. <<a.off, a.peer>> \in UNION {{g.off} \X g.live : g \in inflight} BY <2>0, <3>1
    <3>2. PICK g \in inflight : a.off = g.off /\ a.peer \in g.live BY <3>0
    <3>3. CASE g = old
      <4>1. a.off = w.off BY <1>1, <3>2, <3>3
      <4>2. a.peer # w.peer BY <1>0, <3>1, <4>1 DEF Attempts
      <4>3. a.peer \in f.live BY <1>l, <3>2, <3>3, <4>2
      <4>4. f \in inflight' BY <1>2, <4>3
      <4> QED BY <1>l, <4>1, <4>3, <4>4
    <3>4. CASE g # old
      <4>1. g \in inflight' BY <1>2, <3>4
      <4> QED BY <3>2, <4>1
    <3> QED BY <3>3, <3>4
  <2>3. ASSUME NEW g \in inflight', NEW q \in g.live
        PROVE  \E a \in work' : a.off = g.off /\ a.peer = q
    <3>1. CASE g \in inflight /\ g # old
      <4>1. <<g.off, q>> \in UNION {{h.off} \X h.live : h \in inflight} BY <2>3, <3>1
      <4>2. PICK a \in work : a.off = g.off /\ a.peer = q BY <2>0, <4>1
      <4>3. a # w BY <1>1, <3>1, <4>2
      <4> QED BY <4>2, <4>3
    <3>2. CASE g = f
      <4>0. q \in old.live /\ q # w.peer /\ g.off = old.off BY <1>1, <1>l, <2>3, <3>2
      <4>1. <<g.off, q>> \in UNION {{h.off} \X h.live : h \in inflight} BY <1>1, <4>0
      <4>2. PICK a \in work : a.off = g.off /\ a.peer = q BY <2>0, <4>1
      <4>3. a # w BY <4>0, <4>2
      <4> QED BY <4>2, <4>3
    <3> QED BY <1>2, <3>1, <3>2
  <2> DEFINE pairs == {<<a.off, a.peer>> : a \in work'}
             due == UNION {{g.off} \X g.live : g \in inflight'}
  <2>4. pairs \subseteq due BY <2>2
  <2>5. ASSUME NEW x \in due PROVE x \in pairs
    <3>1. PICK g \in inflight' : x \in {g.off} \X g.live BY <2>5
    <3>2. PICK q \in g.live : x = <<g.off, q>> BY <3>1
    <3>3. PICK a \in work' : a.off = g.off /\ a.peer = q BY <2>3
    <3> QED BY <3>2, <3>3
  <2>6. pairs = due BY <2>4, <2>5
  <2> QED BY <2>1, <2>6 DEF FlightsAreManned
<1>9. SlotsAreHeldByWorkers'
  <2>1. \A p \in Peer : Flying(p)' = Flying(p) BY DEF Flying
  <2> QED BY <1>0, <2>1 DEF SlotsAreHeldByWorkers
<1>10. Tidy'
  <2>1. \A c \in requeue' : \/ c \in requeue
                            \/ /\ c.off = old.off /\ c.len = old.len
                               /\ c = [off |-> w.off, len |-> w.len] /\ f.live = {}
    BY <1>1
  <2>2. \A c, d, a, b : /\ a.off = c.off /\ a.len = c.len /\ b.off = d.off /\ b.len = d.len
                        /\ Apart(c, d)
                        => Apart(a, b)
    BY DEF Apart, Past
  <2>3. \A c, d : Apart(c, d) => Apart(d, c) BY DEF Apart
  <2>4. ASSUME NEW a \in inflight', NEW b \in inflight', a # b PROVE Apart(a, b)
    <3>1. PICK c \in inflight : a.off = c.off /\ a.len = c.len
                               /\ ((a = c /\ c # old) \/ (a = f /\ c = old))
      BY <1>2
    <3>2. PICK d \in inflight : b.off = d.off /\ b.len = d.len
                               /\ ((b = d /\ d # old) \/ (b = f /\ d = old))
      BY <1>2
    <3>3. c # d BY <2>4, <3>1, <3>2
    <3> QED BY <1>0, <2>2, <3>1, <3>2, <3>3 DEF Tidy
  <2>5. ASSUME NEW a \in inflight', NEW b \in requeue' PROVE Apart(a, b)
    <3>1. PICK c \in inflight : a.off = c.off /\ a.len = c.len
                               /\ ((a = c /\ c # old) \/ (a = f /\ c = old))
      BY <1>2
    <3>2. CASE b \in requeue BY <1>0, <2>2, <3>1, <3>2 DEF Tidy
    <3>3. CASE b.off = old.off /\ b.len = old.len /\ f.live = {}
      <4>1. a # f
        <5>1. inflight' = inflight \ {old} BY <1>2, <3>3
        <5>2. a \in inflight /\ a # old BY <5>1
        <5>3. a.off # w.off BY <1>1, <5>2
        <5> QED BY <1>l, <5>3
      <4>2. c # old BY <3>1, <4>1
      <4>3. Apart(c, old) BY <1>0, <1>1, <4>2 DEF Tidy
      <4> QED BY <2>2, <3>1, <3>3, <4>3
    <3> QED BY <2>1, <3>2, <3>3
  <2>6. ASSUME NEW a \in requeue', NEW b \in requeue', a # b PROVE Apart(a, b)
    <3>1. CASE a \in requeue /\ b \in requeue BY <1>0, <2>6, <3>1 DEF Tidy
    <3>2. CASE a \in requeue /\ b.off = old.off /\ b.len = old.len
      <4>1. Apart(old, a) BY <1>0, <1>1, <3>2 DEF Tidy
      <4>2. Apart(a, old) BY <2>3, <4>1
      <4> QED BY <2>2, <3>2, <4>2
    <3>3. CASE a.off = old.off /\ a.len = old.len /\ b \in requeue
      <4>1. Apart(old, b) BY <1>0, <1>1, <3>3 DEF Tidy
      <4> QED BY <2>2, <3>3, <4>1
    <3> QED BY <2>1, <2>6, <3>1, <3>2, <3>3
  <2>7. ASSUME NEW a \in inflight' \cup requeue' PROVE Behind(Past(a))' /\ Past(a) <= job.end
    <3>1. PICK c \in inflight \cup requeue : a.off = c.off /\ a.len = c.len
      BY <1>1, <1>2, <2>1
    <3>2. Past(a) = Past(c) BY <3>1 DEF Past
    <3> QED BY <1>0, <3>2 DEF Tidy, Behind, CarvedTo
  <2>8. \A a, b : Apart(a, b)' <=> Apart(a, b) BY DEF Apart, Past
  <2> QED BY <2>4, <2>5, <2>6, <2>7 DEF Tidy
<1>11. Sleeping' BY DEF Sleeping
<1> QED BY <1>3, <1>4, <1>5, <1>6, <1>7, <1>8, <1>9, <1>10, <1>11 DEF IInv

LEMMA ApartReach ==
    ASSUME Planned, TypeChunks, NEW c \in inflight \cup requeue, NEW d \in inflight \cup requeue,
           Apart(c, d)
    PROVE  Reach(c) \cap Reach(d) = {}
<1>1. /\ c.off \in Nat /\ Past(c) \in Nat /\ d.off \in Nat /\ Past(d) \in Nat
      /\ \A u : u \in Reach(c) <=> u \in Nat /\ c.off <= u /\ u < Past(c)
      /\ \A u : u \in Reach(d) <=> u \in Nat /\ d.off <= u /\ u < Past(d)
  BY ChunkFacts
<1>2. ASSUME NEW u \in Nat, c.off <= u, u < Past(c), d.off <= u, u < Past(d) PROVE FALSE
  BY <1>1, <1>2 DEF Apart
<1> QED BY <1>1, <1>2

LEMMA BehindDown ==
    ASSUME Planned, Carving, NEW v \in Nat, Behind(v), NEW u \in Nat, u <= v
    PROVE  Behind(u)
<1> SUFFICES ASSUME carve.range <= Len(plan.ranges)
             PROVE  u <= plan.ranges[carve.range].at + carve.at
  BY DEF Behind, CarvedTo
<1>1. v <= plan.ranges[carve.range].at + carve.at BY DEF Behind, CarvedTo
<1>2. carve.range \in 1..Len(plan.ranges) /\ carve.at \in Nat BY RangeFacts DEF Carving
<1>3. plan.ranges[carve.range].at \in Nat BY <1>2, RangeFacts
<1> QED BY <1>1, <1>2, <1>3

(* The chunks still to come are the same, in flight or to fetch again.     *)
LEMMA SameChunks ==
    ASSUME Placed, pc # "ended", UNCHANGED <<plan, emitter, carve, buffered>>,
           \A a \in Undelivered' \cup requeue' :
              \E c \in Undelivered \cup requeue : a.off = c.off /\ a.len = c.len,
           \A c \in Undelivered \cup requeue :
              \E a \in Undelivered' \cup requeue' : a.off = c.off /\ a.len = c.len
    PROVE  Placed'
<1>1. \A a, c : a.off = c.off /\ a.len = c.len => Reach(a) = Reach(c) BY DEF Reach, Past
<1>2. ToFetch' = ToFetch /\ Uncarved' = Uncarved BY DEF ToFetch, Uncarved
<1>3. ASSUME NEW a \in Undelivered' \cup requeue' PROVE Reach(a) \cap buffered = {}
  <2>1. PICK c \in Undelivered \cup requeue : a.off = c.off /\ a.len = c.len OBVIOUS
  <2>2. Reach(c) \cap buffered = {} BY DEF Placed
  <2> QED BY <1>1, <2>1, <2>2
<1>4. \A u \in buffered : Behind(u + 1)' BY DEF Placed, Behind, CarvedTo
<1>5. ASSUME NEW u \in ToFetch, u >= emitter.pos
      PROVE  \/ u \in buffered \/ u \in Uncarved
             \/ \E a \in Undelivered' \cup requeue' : u \in Reach(a)
  <2>1. \/ u \in buffered \/ u \in Uncarved
        \/ \E c \in Undelivered \cup requeue : u \in Reach(c)
    BY <1>5 DEF Placed
  <2>2. ASSUME NEW c \in Undelivered \cup requeue, u \in Reach(c)
        PROVE  \E a \in Undelivered' \cup requeue' : u \in Reach(a)
    <3>1. PICK a \in Undelivered' \cup requeue' : a.off = c.off /\ a.len = c.len OBVIOUS
    <3> QED BY <1>1, <2>2, <3>1
  <2> QED BY <2>1, <2>2
<1> QED BY <1>2, <1>3, <1>4, <1>5 DEF Placed, Reach, Past

LEMMA NoStreak == Streak \in Nat /\ 0 \in 0..(Streak - 1)
<1>1. Streak \in Nat \ {0} BY TransferAssumption
<1> QED BY <1>1

LEMMA HearTwinStep == ASSUME IInv, NEW w \in work, HearTwin(w) PROVE IInv'
<1> DEFINE old == FlightOf(w)
           f == Landed(old, w)
<1>1. /\ pc = "wait" /\ w.phase # "flying" /\ work' = work \ {w} /\ old.delivered /\ Retire(f)
      /\ UNCHANGED <<job, plan, emitter, carve, slots, others, outcome>>
      /\ UNCHANGED <<buffered, bad, requeue, gate, health, parked>>
      /\ streak' = 0 /\ pc' = "launch" /\ woken' = FALSE
  BY DEF HearTwin, Hear, fleet
<1>2. TypeBuffer /\ TypeRest /\ Placed BY Parts DEF IInv
<1>3. TypeRest' BY <1>1, <1>2, NoStreak DEF TypeRest
<1>4. TypeBuffer' BY <1>1, <1>2 DEF TypeBuffer, Units
<1>5. Leaves(w, f) /\ f.delivered BY <1>1, LandedLeaves
<1>6. Undelivered' = Undelivered
  <2> HIDE DEF f
  <2>1. /\ inflight' = (inflight \ {old}) \cup (IF f.live = {} THEN {} ELSE {f})
    BY <1>1, <1>5, RetireFacts
  <2> QED BY <1>1, <1>5, <2>1 DEF Undelivered
<1> HIDE DEF f
<1>7. Placed' BY <1>1, <1>2, <1>6, SameChunks
<1> QED BY <1>1, <1>3, <1>4, <1>5, <1>7, HearStep

LEMMA HearFailureStep == ASSUME IInv, NEW w \in work, HearFailure(w) PROVE IInv'
<1> DEFINE old == FlightOf(w)
           f == Landed(old, w)
           chunk == [off |-> w.off, len |-> w.len]
<1>1. /\ pc = "wait" /\ w.phase # "flying" /\ work' = work \ {w} /\ Retire(f) /\ Requeue(f)
      /\ UNCHANGED <<job, plan, emitter, carve, slots, others, outcome>>
      /\ UNCHANGED <<buffered, bad, health, parked>>
      /\ streak + 1 < Streak /\ streak' = streak + 1 /\ pc' = "launch" /\ woken' = FALSE
  BY DEF HearFailure, Hear, fleet
<1>2. TypeBuffer /\ TypeRest /\ Placed BY Parts DEF IInv
<1>5. Leaves(w, f) /\ f.delivered = old.delivered BY <1>1, LandedLeaves
<1>6. old \in inflight /\ old.off = w.off /\ old.len = w.len BY <1>1, FlightIs
<1> HIDE DEF f, old
<1>7. /\ f.live = {} /\ ~f.delivered => requeue' = requeue \cup {chunk} /\ gate' = "shut"
      /\ ~(f.live = {} /\ ~f.delivered) => requeue' = requeue /\ gate' = gate
  BY <1>1, <1>5 DEF Requeue, Orphaned, Leaves
<1>3. TypeRest'
  <2>1. streak' \in 0..(Streak - 1)
    <3>1. Streak \in Nat /\ streak \in 0..(Streak - 1) BY <1>2, TransferAssumption DEF TypeRest
    <3> QED BY <1>1, <3>1
  <2>2. gate' \in {"none", "shut", "past"} BY <1>2, <1>7 DEF TypeRest
  <2> QED BY <1>1, <1>2, <2>1, <2>2 DEF TypeRest
<1>4. TypeBuffer' BY <1>1, <1>2 DEF TypeBuffer, Units
<1>8. inflight' = (inflight \ {old}) \cup (IF f.live = {} THEN {} ELSE {f})
  BY <1>1, <1>5, RetireFacts DEF old
<1>l. f.off = w.off /\ f.len = w.len BY <1>5 DEF Leaves
<1>9. \A a \in Undelivered' \cup requeue' :
         \E c \in Undelivered \cup requeue : a.off = c.off /\ a.len = c.len
  <2> TAKE a \in Undelivered' \cup requeue'
  <2>1. CASE a \in Undelivered \cup requeue BY <2>1
  <2>2. CASE a = f /\ a \in Undelivered'
    <3>1. old \in Undelivered BY <1>5, <1>6, <2>2 DEF Undelivered
    <3> QED BY <1>6, <1>l, <2>2, <3>1
  <2>3. CASE a = chunk /\ ~f.delivered
    <3>1. old \in Undelivered BY <1>5, <1>6, <2>3 DEF Undelivered
    <3> QED BY <1>6, <2>3, <3>1
  <2>4. CASE a \in Undelivered'
    <3>1. a \in inflight' /\ ~a.delivered BY <2>4 DEF Undelivered
    <3>2. a \in inflight \/ a = f BY <1>8, <3>1
    <3>3. a \in Undelivered \/ a = f BY <3>1, <3>2 DEF Undelivered
    <3> QED BY <2>1, <2>2, <2>4, <3>3
  <2>5. CASE a \in requeue' BY <1>7, <2>1, <2>3, <2>5
  <2> QED BY <2>4, <2>5
<1>10. \A c \in Undelivered \cup requeue :
          \E a \in Undelivered' \cup requeue' : a.off = c.off /\ a.len = c.len
  <2> TAKE c \in Undelivered \cup requeue
  <2>1. CASE c \in requeue BY <1>7, <2>1
  <2>2. CASE c \in Undelivered /\ c # old
    <3>1. c \in inflight' /\ ~c.delivered BY <1>8, <2>2 DEF Undelivered
    <3>2. c \in Undelivered' BY <3>1 DEF Undelivered
    <3> QED BY <3>2
  <2>3. CASE c = old /\ c \in Undelivered
    <3>0. ~f.delivered BY <1>5, <2>3 DEF Undelivered
    <3>1. CASE f.live = {}
      <4>1. chunk \in requeue' BY <1>7, <3>0, <3>1
      <4> QED BY <1>6, <2>3, <4>1
    <3>2. CASE f.live # {}
      <4>1. f \in Undelivered' BY <1>8, <3>0, <3>2 DEF Undelivered
      <4> QED BY <1>6, <1>l, <2>3, <4>1
    <3> QED BY <3>1, <3>2
  <2> QED BY <2>1, <2>2, <2>3
<1>11. Placed' BY <1>1, <1>2, <1>9, <1>10, SameChunks
<1>12. \/ requeue' = requeue
       \/ f.live = {} /\ requeue' = requeue \cup {chunk}
  BY <1>7
<1> QED BY <1>1, <1>3, <1>4, <1>5, <1>11, <1>12, HearStep

LEMMA HearChunkStep == ASSUME IInv, NEW w \in work, HearChunk(w) PROVE IInv'
<1> DEFINE old == FlightOf(w)
           f == [Landed(old, w) EXCEPT !.delivered = TRUE]
<1>1. /\ pc = "wait" /\ w.phase # "flying" /\ work' = work \ {w} /\ ~old.delivered /\ Retire(f)
      /\ UNCHANGED <<job, plan, emitter, carve, slots, others, outcome>>
      /\ UNCHANGED <<requeue, gate, woken, health, parked>>
      /\ streak' = 0 /\ pc' = "pump"
  BY DEF HearChunk, Hear, fleet
<1>2. /\ Planned /\ Carving /\ TypeBuffer /\ TypeRest /\ Placed /\ Tidy /\ TypeChunks
  BY Parts DEF IInv
<1>3. TypeRest' BY <1>1, <1>2, NoStreak DEF TypeRest
<1>5. Leaves(w, f) /\ f.delivered BY <1>1, LandedLeaves
<1>6. old \in inflight /\ old.off = w.off /\ old.len = w.len BY <1>1, FlightIs
<1>8. inflight' = (inflight \ {old}) \cup (IF f.live = {} THEN {} ELSE {f})
  BY <1>1, <1>5, RetireFacts
<1> HIDE DEF f, old
<1> DEFINE units == w.off..(w.off + w.len - 1)
<1>u. units = Reach(old)
  <2>1. /\ old.off \in Nat /\ old.len \in Nat \ {0} /\ Past(old) = old.off + old.len
        /\ \A u : u \in Reach(old) <=> u \in Nat /\ old.off <= u /\ u < Past(old)
    BY <1>2, <1>6, ChunkFacts
  <2>2. \A u : u \in units <=> u \in Nat /\ old.off <= u /\ u < old.off + old.len
    BY <1>6, <2>1
  <2> HIDE DEF units
  <2> QED BY <2>1, <2>2
<1>v. buffered' = buffered \cup units /\ (bad' = bad \cup units \/ bad' = bad \ units)
  BY DEF HearChunk
<1> HIDE DEF units
<1>7. buffered' = buffered \cup Reach(old) /\ (bad' = bad \cup Reach(old) \/ bad' = bad \ Reach(old))
  BY <1>u, <1>v
<1>9. /\ old.off \in Nat /\ old.off \in Units /\ Past(old) \in Nat
      /\ \A u : u \in Reach(old) <=> u \in Nat /\ old.off <= u /\ u < Past(old)
      /\ Behind(Past(old)) /\ Past(old) <= job.end
  BY <1>2, <1>6, ChunkFacts DEF Tidy
<1>4. TypeBuffer'
  <2>1. Reach(old) \subseteq Units
    <3> SUFFICES ASSUME NEW u \in Nat, old.off <= u, u < Past(old) PROVE u \in Units
      BY <1>9
    <3>1. job.start \in Nat /\ job.end \in Nat /\ job.start <= old.off BY <1>2, <1>9, JobFacts
    <3>2. job.start <= u /\ u < job.end BY <1>9, <3>1
    <3> QED BY <1>2, <3>2, JobFacts
  <2>2. buffered' \subseteq Units /\ bad' \subseteq buffered'
    BY <1>2, <1>7, <2>1 DEF TypeBuffer
  <2> QED BY <1>1, <2>2 DEF TypeBuffer, Units
<1>10. Undelivered' = Undelivered \ {old} /\ old \in Undelivered
  BY <1>1, <1>5, <1>6, <1>8 DEF Undelivered, old
<1>11. Placed'
  <2>0. ToFetch' = ToFetch /\ Uncarved' = Uncarved /\ pc # "ended"
    BY <1>1 DEF ToFetch, Uncarved
  <2>1. ASSUME NEW c \in Undelivered' \cup requeue' PROVE Reach(c) \cap buffered' = {}
    <3>1. c \in (Undelivered \cup requeue) /\ c \in inflight \cup requeue
      BY <1>1, <1>10 DEF Undelivered
    <3>2. Reach(c) \cap buffered = {} BY <1>1, <1>2, <3>1 DEF Placed
    <3>3. Apart(c, old)
      <4>1. CASE c \in inflight /\ c # old BY <1>2, <1>6, <4>1 DEF Tidy
      <4>2. CASE c \in requeue
        <5>1. Apart(old, c) BY <1>2, <1>6, <4>2 DEF Tidy
        <5> QED BY <5>1 DEF Apart
      <4> QED BY <1>1, <1>10, <3>1, <4>1, <4>2 DEF Undelivered
    <3>4. Reach(c) \cap Reach(old) = {} BY <1>2, <1>6, <3>1, <3>3, ApartReach
    <3> QED BY <1>7, <3>2, <3>4
  <2>2. ASSUME NEW u \in buffered' PROVE Behind(u + 1)
    <3>1. CASE u \in buffered BY <1>1, <1>2, <3>1 DEF Placed
    <3>2. CASE u \in Reach(old)
      <4>1. u \in Nat /\ u < Past(old) BY <1>9, <3>2
      <4>2. u + 1 \in Nat /\ u + 1 <= Past(old) BY <1>9, <4>1
      <4> QED BY <1>2, <1>9, <4>2, BehindDown
    <3> QED BY <1>7, <3>1, <3>2
  <2>3. ASSUME NEW u \in ToFetch, u >= emitter.pos
        PROVE  \/ u \in buffered' \/ u \in Uncarved
               \/ \E c \in Undelivered' \cup requeue' : u \in Reach(c)
    <3>1. \/ u \in buffered \/ u \in Uncarved
          \/ \E c \in Undelivered \cup requeue : u \in Reach(c)
      BY <1>2, <2>0, <2>3 DEF Placed
    <3>2. ASSUME NEW c \in Undelivered \cup requeue, u \in Reach(c)
          PROVE  u \in buffered' \/ \E d \in Undelivered' \cup requeue' : u \in Reach(d)
      BY <1>1, <1>7, <1>10, <3>2
    <3> QED BY <1>7, <3>1, <3>2
  <2>4. \A u \in buffered' : Behind(u + 1)' BY <1>1, <2>2 DEF Behind, CarvedTo
  <2> QED BY <1>1, <2>0, <2>1, <2>3, <2>4 DEF Placed, Reach, Past
<1> QED BY <1>1, <1>3, <1>4, <1>5, <1>11, HearStep

-----------------------------------------------------------------------------
(* Launching *)

BehindNext(u) == CarvedTo(plan.ranges, carve', u)

(* len units from off are taken from where they waited, alone.             *)
Taken(off, len) ==
    /\ len \in Nat \ {0} /\ off \in Units /\ off + len <= job.end
    /\ \A c \in inflight \cup requeue' : off + len <= c.off \/ Past(c) <= off
    /\ requeue' \subseteq Chunk
    /\ \A c, d \in requeue' : c # d => Apart(c, d)
    /\ \A f \in inflight, c \in requeue' : Apart(f, c)
    /\ Carving' /\ BehindNext(off + len)
    /\ \A c \in inflight \cup requeue' : BehindNext(Past(c)) /\ Past(c) <= job.end
    /\ \A u \in buffered : BehindNext(u + 1) /\ (u < off \/ off + len <= u)
    /\ \A c \in requeue' : Reach(c) \cap buffered = {}
    /\ \A u \in Nat :
         u \in Uncarved \/ (\E c \in requeue : u \in Reach(c)) =>
           \/ u \in Uncarved' \/ (\E c \in requeue' : u \in Reach(c))
           \/ off <= u /\ u < off + len

LEMMA LowestIn ==
    ASSUME Planned, TypeChunks, requeue # {}
    PROVE  Lowest \in requeue
<1> DEFINE offs == {c.off : c \in requeue}
<1>1. offs \in SUBSET Nat /\ offs # {} BY ChunkFacts
<1>2. PICK x \in offs : \A y \in offs : x <= y
  <2> HIDE DEF offs
  <2> QED BY <1>1, LeastOf
<1>3. \E c \in requeue : \A d \in requeue : c.off <= d.off BY <1>2
<1> QED BY <1>3 DEF Lowest

LEMMA RequeuedTaken ==
    ASSUME IInv, pc # "ended", UNCHANGED <<job, plan>>, NEW cs \in Nat \ {0}, NEW len,
           TakeRequeued(cs, len)
    PROVE  Taken(NextOff, len)
<1> DEFINE low == Lowest
           off == low.off
           rest == [off |-> low.off + cs, len |-> low.len - cs]
<1>0. /\ Planned /\ Carving /\ Tidy /\ TypeChunks /\ TypeBuffer /\ Placed
  BY Parts DEF IInv
<1>1. Requeued /\ requeue # {} /\ NextOff = off /\ carve' = carve
  BY DEF TakeRequeued, Requeued, NextOff
<1>2. low \in requeue BY <1>0, <1>1, LowestIn
<1>3. /\ off \in Nat /\ off \in Units /\ low.len \in Nat \ {0} /\ Past(low) = off + low.len
      /\ Past(low) \in Nat /\ Past(low) <= job.end /\ job.end \in Nat
      /\ \A u : u \in Reach(low) <=> u \in Nat /\ off <= u /\ u < Past(low)
      /\ Behind(Past(low))
  BY <1>0, <1>2, ChunkFacts, JobFacts DEF Tidy
<1>4. \/ low.len > 2 * cs /\ len = cs /\ requeue' = (requeue \ {low}) \cup {rest}
      \/ len = low.len /\ requeue' = requeue \ {low}
  BY DEF TakeRequeued
<1> HIDE DEF low
<1>5. ASSUME low.len > 2 * cs, len = cs
      PROVE  /\ rest \in Chunk /\ rest.off = off + len /\ Past(rest) = Past(low) /\ off <= rest.off
             /\ \A u : u \in Reach(rest) <=> u \in Nat /\ off + len <= u /\ u < Past(low)
  <2>1. /\ rest.off = off + cs /\ rest.len = low.len - cs /\ rest.off \in Nat
        /\ rest.len \in Nat \ {0} /\ rest.off < Past(low)
    BY <1>3, <1>5
  <2>2. Past(rest) = Past(low) BY <1>3, <2>1 DEF Past
  <2>3. rest.off \in Units
    <3>1. job.start \in Nat /\ job.start <= off BY <1>0, <1>3, JobFacts
    <3>2. job.start <= rest.off /\ rest.off < job.end BY <1>3, <2>1, <3>1
    <3> QED BY <1>0, <2>1, <3>2, JobFacts
  <2>4. rest.len \in 1..job.end BY <1>3, <2>1
  <2>5. \A u : u \in Reach(rest) <=> u \in Nat /\ rest.off <= u /\ u < Past(low)
    <3> HIDE DEF rest
    <3> QED BY <1>3, <2>1, <2>2 DEF Reach
  <2>6. rest \in Chunk BY <2>3, <2>4 DEF Chunk
  <2> HIDE DEF rest
  <2> QED BY <1>3, <1>5, <2>1, <2>2, <2>5, <2>6
<1> HIDE DEF rest
<1>6. len \in Nat \ {0} /\ off + len <= Past(low) BY <1>3, <1>4
<1>7. ASSUME NEW c \in requeue'
      PROVE  \/ c \in requeue /\ c # low
             \/ /\ c = rest /\ low.len > 2 * cs /\ len = cs
  BY <1>4
<1>8. ASSUME NEW c \in requeue'
      PROVE  /\ c \in Chunk /\ Past(c) <= job.end /\ Behind(Past(c)) /\ Reach(c) \cap buffered = {}
             /\ off + len <= c.off \/ Past(c) <= off
  <2>1. CASE c \in requeue /\ c # low
    <3>1. c \in Chunk /\ Past(c) <= job.end /\ Behind(Past(c)) BY <1>0, <2>1 DEF Tidy, TypeChunks
    <3>2. Reach(c) \cap buffered = {} BY <1>0, <2>1 DEF Placed
    <3>3. Apart(low, c) BY <1>0, <1>2, <2>1 DEF Tidy
    <3>4. c.off \in Nat BY <1>0, <2>1, ChunkFacts
    <3>5. off + len <= c.off \/ Past(c) <= off BY <1>3, <1>6, <3>3, <3>4 DEF Apart
    <3> QED BY <3>1, <3>2, <3>5
  <2>2. CASE c = rest /\ low.len > 2 * cs /\ len = cs
    <3>1. /\ c \in Chunk /\ c.off = off + len /\ Past(c) = Past(low)
          /\ \A u : u \in Reach(c) <=> u \in Nat /\ off + len <= u /\ u < Past(low)
      BY <1>5, <2>2
    <3>2. Reach(c) \subseteq Reach(low) BY <1>3, <1>6, <3>1
    <3>3. Reach(low) \cap buffered = {} BY <1>0, <1>2 DEF Placed
    <3> QED BY <1>3, <1>6, <3>1, <3>2, <3>3
  <2> QED BY <1>7, <2>1, <2>2
<1>9. ASSUME NEW d \in inflight \cup requeue, d # low, NEW c \in requeue', c = rest,
             low.len > 2 * cs, len = cs
      PROVE  Apart(c, d) /\ Apart(d, c)
  <2>1. Apart(low, d) \/ Apart(d, low) BY <1>0, <1>2, <1>9 DEF Tidy
  <2>2. d.off \in Nat /\ Past(d) \in Nat BY <1>0, ChunkFacts
  <2>3. c.off = off + len /\ Past(c) = Past(low) BY <1>5, <1>9
  <2> QED BY <1>3, <1>6, <2>1, <2>2, <2>3 DEF Apart
<1>10. \A c, d \in requeue' : c # d => Apart(c, d)
  <2> TAKE c, d \in requeue'
  <2>1. CASE c \in requeue /\ d \in requeue BY <1>0, <2>1 DEF Tidy
  <2> QED BY <1>7, <1>9, <2>1
<1>11. ASSUME NEW f \in inflight
       PROVE  /\ \A c \in requeue' : Apart(f, c)
              /\ off + len <= f.off \/ Past(f) <= off
  <2>1. Apart(f, low) BY <1>0, <1>2 DEF Tidy
  <2>2. /\ f.off \in Nat /\ f.len \in Nat \ {0} /\ Past(f) = f.off + f.len
    BY <1>0, ChunkFacts
  <2>3. f # low BY <1>3, <2>1, <2>2 DEF Apart
  <2>4. \A c \in requeue' : Apart(f, c) BY <1>0, <1>7, <1>9, <2>3 DEF Tidy
  <2>5. off + len <= f.off \/ Past(f) <= off BY <1>3, <1>6, <2>1, <2>2 DEF Apart
  <2> QED BY <2>4, <2>5
<1>13. Carving' BY <1>0, <1>1 DEF Carving
<1>14. Behind(off + len)
  <2>1. off + len \in Nat BY <1>3, <1>6
  <2> QED BY <1>0, <1>3, <1>6, <2>1, BehindDown
<1>15. ASSUME NEW u \in buffered PROVE Behind(u + 1) /\ (u < off \/ off + len <= u)
  <2>1. u \in Nat BY <1>0, JobFacts DEF TypeBuffer
  <2>2. u \notin Reach(low) BY <1>0, <1>2 DEF Placed
  <2>3. Behind(u + 1) BY <1>0 DEF Placed
  <2> QED BY <1>3, <1>6, <2>1, <2>2, <2>3
<1>16. Uncarved' = Uncarved BY <1>1 DEF Uncarved
<1>17. ASSUME NEW u \in Nat, NEW c \in requeue, u \in Reach(c)
       PROVE  (\E d \in requeue' : u \in Reach(d)) \/ (off <= u /\ u < off + len)
  <2>1. CASE c # low
    <3>1. c \in requeue' BY <1>4, <2>1
    <3> QED BY <1>17, <3>1
  <2>2. CASE c = low
    <3>1. off <= u /\ u < Past(low) BY <1>3, <1>17, <2>2
    <3>2. CASE len = low.len BY <1>3, <3>1, <3>2
    <3>3. CASE low.len > 2 * cs /\ len = cs /\ requeue' = (requeue \ {low}) \cup {rest}
      <4>1. rest \in requeue' BY <3>3
      <4>2. CASE off + len <= u BY <1>5, <3>1, <3>3, <4>1, <4>2
      <4>3. CASE u < off + len BY <3>1, <4>3
      <4> QED BY <1>3, <1>6, <4>2, <4>3
    <3> QED BY <1>4, <3>2, <3>3
  <2> QED BY <2>1, <2>2
<1>18. \A c \in inflight : Behind(Past(c)) /\ Past(c) <= job.end BY <1>0 DEF Tidy
<1> DEFINE n == NextOff
<1>19. n = off BY <1>1
<1> HIDE DEF n
<1>20. /\ \A c \in inflight \cup requeue' : off + len <= c.off \/ Past(c) <= off
       /\ \A c \in inflight \cup requeue' : BehindNext(Past(c)) /\ Past(c) <= job.end
       /\ \A u \in buffered : BehindNext(u + 1) /\ (u < off \/ off + len <= u)
       /\ BehindNext(off + len)
       /\ off + len <= job.end
  <2>1. \A c \in inflight \cup requeue' : off + len <= c.off \/ Past(c) <= off BY <1>8, <1>11
  <2>2. \A c \in inflight \cup requeue' : Behind(Past(c)) /\ Past(c) <= job.end BY <1>8, <1>18
  <2>3. off + len <= job.end BY <1>3, <1>6
  <2>0. \A u : Behind(u) <=> BehindNext(u) BY <1>1 DEF Behind, BehindNext
  <2>4. \A c \in inflight \cup requeue' : BehindNext(Past(c)) BY <2>0, <2>2
  <2>5. \A u \in buffered : BehindNext(u + 1) BY <1>15, <2>0
  <2>6. BehindNext(off + len) BY <1>14, <2>0
  <2> QED BY <1>15, <2>1, <2>2, <2>3, <2>4, <2>5, <2>6
<1>21. requeue' \subseteq Chunk /\ \A c \in requeue' : Reach(c) \cap buffered = {} BY <1>8
<1>22. /\ \A f \in inflight, c \in requeue' : Apart(f, c) BY <1>11
<1>23. \A u \in Nat :
         u \in Uncarved \/ (\E c \in requeue : u \in Reach(c)) =>
           \/ u \in Uncarved' \/ (\E c \in requeue' : u \in Reach(c))
           \/ off <= u /\ u < off + len
  BY <1>16, <1>17
<1>24. Taken(off, len)
  BY <1>3, <1>6, <1>10, <1>13, <1>20, <1>21, <1>22, <1>23 DEF Taken
<1> QED BY <1>1, <1>24

LEMMA FreshTaken ==
    ASSUME IInv, pc # "ended", UNCHANGED <<job, plan>>, NEW cs \in Nat \ {0}, NEW len,
           Carvable, TakeFresh(cs, len)
    PROVE  Taken(NextOff, len)
<1> DEFINE c == Cursor
           r == plan.ranges
           n == Len(plan.ranges)
           off == r[c.range].at + c.at
           end == r[c.range].at + (c.at + len)
<1>0. /\ Planned /\ Carving /\ Tidy /\ TypeChunks /\ TypeBuffer /\ Placed
  BY Parts DEF IInv
<1>1. NextOff = off /\ requeue' = requeue /\ carve' = [c EXCEPT !.at = @ + len]
      /\ len = (IF cs < r[c.range].len - c.at THEN cs ELSE r[c.range].len - c.at)
  BY DEF TakeFresh, NextOff, Room
<1>2. /\ Steady(r, carve) /\ Steady(r, c)
      /\ c.at < r[c.range].len /\ c.range \in 1..n
      /\ Left(r, carve) \subseteq Left(r, c)
      /\ \A u \in Nat : Behind(u) => CarvedTo(r, c, u)
  BY <1>0, CursorSteady
<1>3. c \in Position
  <2>1. Cursor = carve \/ Cursor = [range |-> carve.range + 1, at |-> 0] BY DEF Cursor
  <2>2. carve \in Position BY <1>0 DEF Carving
  <2> QED BY <2>1, <2>2 DEF Position
<1>4. /\ r[c.range].at \in Nat /\ r[c.range].len \in Nat \ {0} /\ n \in Nat
      /\ After(r[c.range]) = r[c.range].at + r[c.range].len
      /\ job.start <= r[c.range].at /\ After(r[c.range]) <= job.end
      /\ job.start \in Nat /\ job.end \in Nat
  BY <1>0, <1>2, RangeFacts, JobFacts
<1> HIDE DEF c
<1>6. c.range \in Nat /\ c.at \in Nat BY <1>3 DEF Position
<1>7. len \in Nat \ {0} /\ c.at + len <= r[c.range].len
  <2> DEFINE room == r[c.range].len - c.at
  <2>1. room \in Nat \ {0} BY <1>2, <1>4, <1>6
  <2>2. len = (IF cs < room THEN cs ELSE room) BY <1>1
  <2>3. len \in Nat \ {0} /\ len <= room
    <3> HIDE DEF room
    <3> QED BY <2>1, <2>2
  <2> QED BY <1>4, <1>6, <2>3
<1>8. off \in Nat /\ end = off + len /\ end \in Nat /\ end <= After(r[c.range]) /\ off < end
  <2> DEFINE a == r[c.range].at
             x == c.at
             m == r[c.range].len
             last == After(r[c.range])
  <2>1. /\ a \in Nat /\ x \in Nat /\ m \in Nat /\ len \in Nat \ {0} /\ x + len <= m
        /\ last = a + m
    BY <1>4, <1>6, <1>7
  <2>2. off = a + x /\ end = a + (x + len) OBVIOUS
  <2> HIDE DEF a, x, m, off, end, last
  <2>3. off \in Nat /\ end = off + len /\ end \in Nat /\ end <= last /\ off < end
    BY <2>1, <2>2
  <2> QED BY <2>3 DEF last
<1>9. /\ carve' \in Position /\ carve'.range = c.range /\ carve'.at = c.at + len
  BY <1>1, <1>3, <1>7 DEF Position
<1>10. \A u : BehindNext(u) <=> u <= end
  <2>1. c.range <= n BY <1>2, <1>4
  <2> QED BY <1>9, <2>1 DEF BehindNext, CarvedTo
<1>11. ASSUME NEW u \in Nat, Behind(u) PROVE u <= off /\ BehindNext(u)
  <2>1. CarvedTo(r, c, u) BY <1>2, <1>11
  <2>2. c.range <= n BY <1>2, <1>4
  <2>3. u <= off BY <2>1, <2>2 DEF CarvedTo
  <2> QED BY <1>8, <1>10, <2>3
<1>12. Carving'
  <2>1. carve'.range \in 1..(n + 1) /\ carve'.at \in Nat BY <1>2, <1>4, <1>6, <1>7, <1>9
  <2> QED BY <1>7, <1>9, <2>1 DEF Carving
<1>13. off \in Units /\ end <= job.end
  <2>0. r[c.range].at <= off BY <1>4, <1>6
  <2> DEFINE last == After(r[c.range])
  <2>2. last \in Nat /\ last <= job.end BY <1>4
  <2>3. job.start <= off
    <3> HIDE DEF off
    <3> QED BY <1>4, <1>8, <2>0
  <2> HIDE DEF off, end, last
  <2>4. end <= last BY <1>8 DEF last
  <2>1. job.start <= off /\ off < job.end /\ end <= job.end BY <1>4, <1>8, <2>2, <2>3, <2>4
  <2> QED BY <1>0, <1>8, <2>1, JobFacts
<1>14. ASSUME NEW d \in inflight \cup requeue
       PROVE  Past(d) <= off /\ BehindNext(Past(d)) /\ Past(d) <= job.end
  <2>1. Past(d) \in Nat BY <1>0, ChunkFacts
  <2>2. Behind(Past(d)) /\ Past(d) <= job.end BY <1>0 DEF Tidy
  <2> QED BY <1>11, <2>1, <2>2
<1>15. ASSUME NEW u \in buffered PROVE BehindNext(u + 1) /\ u < off
  <2>1. u \in Nat /\ u + 1 \in Nat BY <1>0, JobFacts DEF TypeBuffer
  <2>2. Behind(u + 1) BY <1>0 DEF Placed
  <2>3. u + 1 <= off /\ BehindNext(u + 1) BY <1>11, <2>1, <2>2
  <2> QED BY <1>8, <2>1, <2>3
<1>16. Uncarved = Left(r, carve) BY <1>0, UncarvedIsLeft
<1>17. Uncarved' = Left(r, carve')
  <2>1. (Planned /\ Carving => Uncarved = Left(plan.ranges, carve))' BY UncarvedIsLeft, PTL
  <2>2. Planned' BY <1>0 DEF Planned
  <2> QED BY <1>12, <2>1, <2>2
<1>18. ASSUME NEW u \in Uncarved PROVE u \in Uncarved' \/ (off <= u /\ u < end)
  <2>1. u \in Left(r, c) BY <1>2, <1>16
  <2>2. PICK i \in 1..n : /\ c.range <= i
                          /\ r[i].at + (IF i = c.range THEN c.at ELSE 0) <= u
                          /\ u < After(r[i])
    BY <2>1 DEF Left
  <2>3. u \in Nat BY <2>1 DEF Left
  <2>4. CASE i # c.range
    <3>1. r[i].at + (IF i = carve'.range THEN carve'.at ELSE 0) <= u BY <1>9, <2>2, <2>4
    <3>2. u \in Left(r, carve') BY <1>9, <2>2, <2>3, <3>1 DEF Left
    <3> QED BY <1>17, <3>2
  <2>5. CASE i = c.range
    <3>1. off <= u BY <2>2, <2>5
    <3>2. CASE u < end BY <3>1, <3>2
    <3>3. CASE end <= u
      <4>1. r[i].at + (IF i = carve'.range THEN carve'.at ELSE 0) <= u BY <1>9, <2>5, <3>3
      <4>2. u \in Left(r, carve') BY <1>9, <2>2, <2>3, <4>1 DEF Left
      <4> QED BY <1>17, <4>2
    <3> QED BY <1>8, <2>3, <3>2, <3>3
  <2> QED BY <2>4, <2>5
<1> HIDE DEF off, end
<1>19. /\ \A d \in inflight \cup requeue' : off + len <= d.off \/ Past(d) <= off
       /\ \A d \in inflight \cup requeue' : BehindNext(Past(d)) /\ Past(d) <= job.end
  BY <1>1, <1>14
<1>20. \A u \in buffered : BehindNext(u + 1) /\ (u < off \/ off + len <= u) BY <1>15
<1>21. BehindNext(off + len)
  <2>1. end <= end BY <1>8
  <2> QED BY <1>8, <1>10, <2>1
<1>22. /\ requeue' \subseteq Chunk
       /\ \A d, e \in requeue' : d # e => Apart(d, e)
       /\ \A f \in inflight, d \in requeue' : Apart(f, d)
  BY <1>0, <1>1 DEF TypeChunks, Tidy
<1>23. \A d \in requeue' : Reach(d) \cap buffered = {} BY <1>0, <1>1 DEF Placed
<1>24. \A u \in Nat :
         u \in Uncarved \/ (\E d \in requeue : u \in Reach(d)) =>
           \/ u \in Uncarved' \/ (\E d \in requeue' : u \in Reach(d))
           \/ off <= u /\ u < off + len
  BY <1>1, <1>8, <1>18
<1>25. off + len <= job.end BY <1>8, <1>13
<1>26. Taken(off, len)
  BY <1>7, <1>12, <1>13, <1>19, <1>20, <1>21, <1>22, <1>23, <1>24, <1>25 DEF Taken
<1> QED BY <1>1, <1>26

LEMMA LaunchStep == ASSUME IInv, Launch PROVE IInv'
<1>1. /\ pc = "launch" /\ Candidate
      /\ UNCHANGED <<job, plan, emitter, buffered, bad, gate, others, parked, woken, streak, health, pc,
                     outcome>>
  BY DEF Launch, emission
<1>2. PICK crew \in Crews, cs \in Chunks, len \in 1..(job.end - job.start) :
         /\ Staffed(crew)
         /\ TakeRequeued(cs, len) \/ TakeFresh(cs, len)
         /\ work' = work \cup {Worker(NextOff, len, p, crew.hedged) : p \in crew.on}
         /\ inflight' = inflight \cup
              {[off |-> NextOff, len |-> len, live |-> crew.on, delivered |-> FALSE]}
         /\ slots' = [p \in Peer |-> IF p \in crew.on THEN slots[p] + 1 ELSE slots[p]]
  BY DEF Launch
<1>0. /\ Planned /\ Emitting /\ Carving /\ Tidy /\ Attempts /\ FlightsAreManned
      /\ SlotsAreHeldByWorkers /\ Placed
      /\ TypeEmit /\ TypeBuffer /\ TypeChunks /\ work \subseteq Attempt /\ TypeSlots /\ TypeRest
  BY Parts DEF IInv
<1>3. Taken(NextOff, len)
  <2>1. cs \in Nat \ {0} BY TransferAssumption
  <2>2. CASE TakeRequeued(cs, len) BY <1>1, <2>1, <2>2, RequeuedTaken
  <2>3. CASE TakeFresh(cs, len)
    <3>1. Carvable BY <1>1, <2>3 DEF Candidate, TakeFresh
    <3> QED BY <1>1, <2>1, <2>3, <3>1, FreshTaken
  <2> QED BY <1>2, <2>2, <2>3
<1>4. PICK off : off = NextOff /\ Taken(off, len) BY <1>3
<1>5. /\ crew.on \subseteq Peer /\ crew.on # {} /\ crew.hedged \in BOOLEAN
      /\ \E a, b \in Peer : crew.on = {a, b}
  <2>1. Holders \subseteq Peer BY DEF Holders
  <2>2. CASE crew \in {[on |-> {p}, lead |-> p, hedged |-> FALSE] : p \in Holders}
    <3>1. PICK p \in Holders : crew = [on |-> {p}, lead |-> p, hedged |-> FALSE] BY <2>2
    <3>2. crew.on = {p} /\ crew.hedged = FALSE /\ p \in Peer BY <2>1, <3>1
    <3>3. crew.on = {p, p} BY <3>2
    <3> QED BY <3>2, <3>3
  <2>3. CASE crew \in {[on |-> {p, q}, lead |-> p, hedged |-> TRUE] : p \in Holders, q \in Holders}
    <3>1. PICK p \in Holders, q \in Holders : crew = [on |-> {p, q}, lead |-> p, hedged |-> TRUE]
      BY <2>3
    <3>2. crew.on = {p, q} /\ crew.hedged = TRUE /\ p \in Peer /\ q \in Peer BY <2>1, <3>1
    <3> QED BY <3>2
  <2>4. CASE crew \in {[on |-> {q}, lead |-> q, hedged |-> TRUE] : q \in Holders}
    <3>1. PICK p \in Holders : crew = [on |-> {p}, lead |-> p, hedged |-> TRUE] BY <2>4
    <3>2. crew.on = {p} /\ crew.hedged = TRUE /\ p \in Peer BY <2>1, <3>1
    <3>3. crew.on = {p, p} BY <3>2
    <3> QED BY <3>2, <3>3
  <2> QED BY <2>2, <2>3, <2>4 DEF Crews
<1> DEFINE on == crew.on
           X(p) == [off |-> off, len |-> len, peer |-> p, hedged |-> crew.hedged, phase |-> "flying"]
           new == {X(p) : p \in on}
           f == [off |-> off, len |-> len, live |-> on, delivered |-> FALSE]
<1>6. work' = work \cup new /\ inflight' = inflight \cup {f} BY <1>2, <1>4 DEF Worker
<1>7. /\ len \in Nat \ {0} /\ off \in Units /\ off + len <= job.end /\ job.end \in Nat /\ off \in Nat
      /\ len \in 1..job.end
  <2>1. len \in Nat \ {0} /\ off \in Units /\ off + len <= job.end BY <1>4 DEF Taken
  <2>2. job.end \in Nat /\ off \in Nat BY <1>0, <2>1, JobFacts
  <2>3. len \in 1..job.end BY <2>1, <2>2
  <2> QED BY <2>1, <2>2, <2>3
<1>8. /\ f \in Flight /\ f.off = off /\ f.len = len /\ f.live = on /\ ~f.delivered
      /\ Past(f) = off + len
  BY <1>5, <1>7 DEF Flight, Past
<1>9. \A p \in on : /\ X(p) \in Attempt /\ X(p).off = off /\ X(p).len = len /\ X(p).peer = p
                    /\ X(p).phase = "flying"
  BY <1>5, <1>7 DEF Attempt
<1> HIDE DEF f
<1>10. \A g \in inflight : g.off # off
  <2> TAKE g \in inflight
  <2>1. off + len <= g.off \/ Past(g) <= off BY <1>4 DEF Taken
  <2>2. g.off \in Nat /\ g.len \in Nat \ {0} /\ Past(g) = g.off + g.len BY <1>0, ChunkFacts
  <2> QED BY <1>7, <2>1, <2>2
<1>11. \A w \in work : w.off # off
  <2> TAKE w \in work
  <2>1. pc # "ended" BY <1>1
  <2>2. FlightOf(w) \in inflight /\ FlightOf(w).off = w.off BY <2>1, FlightIs
  <2> QED BY <1>10, <2>2
<1>12. Planned' BY <1>0, <1>1 DEF Planned
<1>13. TypeOK'
  <2>1. TypeEmit' BY <1>0, <1>1 DEF TypeEmit
  <2>2. TypeBuffer' BY <1>0, <1>1 DEF TypeBuffer, Units
  <2>3. TypeChunks'
    <3>1. requeue' \subseteq Chunk /\ inflight' \subseteq Flight
      BY <1>0, <1>4, <1>6, <1>8 DEF TypeChunks, Taken
    <3> QED BY <1>1, <3>1 DEF TypeChunks, Chunk, Flight, Units
  <2>4. (work \subseteq Attempt)'
    <3>1. work' \subseteq Attempt BY <1>0, <1>6, <1>9
    <3> QED BY <1>1, <3>1 DEF Attempt, Units
  <2>5. TypeSlots'
    <3>1. \A p \in Peer : p \in on => slots[p] + 1 \in 0..Limit
      <4>1. \A p \in Peer : slots[p] \in 0..Limit /\ Limit \in Nat
        BY <1>0, TransferAssumption DEF TypeSlots
      <4>2. \A p \in on : slots[p] < Limit BY <1>2 DEF Staffed, HasSlot
      <4> QED BY <4>1, <4>2
    <3>2. slots' \in [Peer -> 0..Limit] BY <1>0, <1>2, <3>1 DEF TypeSlots
    <3> QED BY <1>0, <1>1, <3>2 DEF TypeSlots
  <2>6. TypeRest' BY <1>0, <1>1 DEF TypeRest
  <2> QED BY <2>1, <2>2, <2>3, <2>4, <2>5, <2>6, PartsNext
<1>14. Emitting' BY <1>0, <1>1 DEF Emitting, Inside, Here, Done
<1>15. Carving' BY <1>4 DEF Taken
<1>16. Tidy'
  <2>1. \A g \in inflight : Apart(g, f) /\ Apart(f, g)
    <3> TAKE g \in inflight
    <3>1. off + len <= g.off \/ Past(g) <= off BY <1>4 DEF Taken
    <3> QED BY <1>8, <3>1 DEF Apart
  <2>2. \A c \in requeue' : Apart(f, c)
    <3> TAKE c \in requeue'
    <3>1. off + len <= c.off \/ Past(c) <= off BY <1>4 DEF Taken
    <3> QED BY <1>8, <3>1 DEF Apart
  <2>3. \A g, h \in inflight' : g # h => Apart(g, h) BY <1>0, <1>6, <2>1 DEF Tidy
  <2>4. \A g \in inflight', c \in requeue' : Apart(g, c) BY <1>4, <1>6, <2>2 DEF Taken
  <2>5. \A c, d \in requeue' : c # d => Apart(c, d) BY <1>4 DEF Taken
  <2>6. BehindNext(Past(f)) /\ Past(f) <= job.end BY <1>4, <1>7, <1>8 DEF Taken
  <2>7. \A c \in inflight' \cup requeue' : BehindNext(Past(c)) /\ Past(c) <= job.end
    BY <1>4, <1>6, <2>6 DEF Taken
  <2>8. \A c : BehindNext(Past(c)) => Behind(Past(c))' BY <1>1 DEF BehindNext, Behind, CarvedTo, Past
  <2> QED BY <1>1, <2>3, <2>4, <2>5, <2>7, <2>8 DEF Tidy, Apart, Past
<1>17. Attempts'
  <2>1. IsFiniteSet(work')
    <3>1. PICK a, b \in Peer : on = {a, b} BY <1>5
    <3>2. new = {X(a), X(b)} BY <3>1
    <3> DEFINE xa == X(a)
               xb == X(b)
    <3> HIDE DEF xa, xb, new, X
    <3>3. IsFiniteSet(work \cup {xa}) BY <1>0, FS_AddElement DEF Attempts
    <3>4. IsFiniteSet((work \cup {xa}) \cup {xb}) BY <3>3, FS_AddElement
    <3>5. work' = (work \cup {xa}) \cup {xb} BY <1>6, <3>2 DEF xa, xb
    <3> QED BY <3>4, <3>5
  <2>2. ASSUME NEW v \in work', NEW w \in work', v.off = w.off, v.peer = w.peer PROVE v = w
    <3>1. CASE v \in work /\ w \in work BY <1>0, <2>2, <3>1 DEF Attempts
    <3>2. CASE v \in new /\ w \in new
      <4>1. PICK p \in on : v = X(p) BY <3>2
      <4>2. PICK q \in on : w = X(q) BY <3>2
      <4>3. p = q BY <1>9, <2>2, <4>1, <4>2
      <4> QED BY <4>1, <4>2, <4>3
    <3>3. CASE v \in work /\ w \in new
      <4>1. w.off = off BY <1>9, <3>3
      <4> QED BY <1>11, <2>2, <3>3, <4>1
    <3>4. CASE v \in new /\ w \in work
      <4>1. v.off = off BY <1>9, <3>4
      <4> QED BY <1>11, <2>2, <3>4, <4>1
    <3> QED BY <1>6, <3>1, <3>2, <3>3, <3>4
  <2>3. ASSUME NEW w \in work', NEW g \in inflight', w.off = g.off PROVE w.len = g.len
    <3>1. CASE w \in work
      <4>1. g \in inflight BY <1>6, <1>8, <1>11, <2>3, <3>1
      <4> QED BY <1>0, <2>3, <3>1, <4>1 DEF Attempts
    <3>2. CASE w \in new
      <4>1. w.off = off /\ w.len = len BY <1>9, <3>2
      <4>2. g = f BY <1>6, <1>10, <2>3, <4>1
      <4> QED BY <1>8, <4>1, <4>2
    <3> QED BY <1>6, <3>1, <3>2
  <2> QED BY <2>1, <2>2, <2>3 DEF Attempts
<1>18. FlightsAreManned'
  <2>0. /\ \A g \in inflight : g.live # {}
        /\ {<<a.off, a.peer>> : a \in work} = UNION {{g.off} \X g.live : g \in inflight}
    BY <1>0, <1>1 DEF FlightsAreManned
  <2>1. \A g \in inflight' : g.live # {} BY <1>5, <1>6, <1>8, <2>0
  <2>2. {<<a.off, a.peer>> : a \in work'}
          = {<<a.off, a.peer>> : a \in work} \cup {<<a.off, a.peer>> : a \in new}
    <3> HIDE DEF new
    <3> QED BY <1>6
  <2>3. UNION {{g.off} \X g.live : g \in inflight'}
          = (UNION {{g.off} \X g.live : g \in inflight}) \cup ({f.off} \X f.live)
    BY <1>6
  <2> DEFINE pairs == {<<a.off, a.peer>> : a \in new}
             due == {f.off} \X f.live
  <2>4. ASSUME NEW x \in pairs PROVE x \in due
    <3>1. PICK a \in new : x = <<a.off, a.peer>> BY <2>4
    <3>2. PICK q \in on : a = X(q) BY <3>1
    <3>3. a.off = off /\ a.peer = q BY <1>9, <3>2
    <3> QED BY <1>8, <3>1, <3>3
  <2>5. ASSUME NEW x \in due PROVE x \in pairs
    <3>1. PICK q \in on : x = <<off, q>> BY <1>8, <2>5
    <3>2. X(q) \in new /\ X(q).off = off /\ X(q).peer = q BY <1>9
    <3> QED BY <3>1, <3>2
  <2>6. pairs = due BY <2>4, <2>5
  <2> HIDE DEF pairs, due
  <2> QED BY <2>0, <2>1, <2>2, <2>3, <2>6 DEF FlightsAreManned, pairs, due
<1>19. SlotsAreHeldByWorkers'
  <2> SUFFICES ASSUME NEW p \in Peer PROVE slots'[p] = others'[p] + Cardinality(Flying(p)')
    BY DEF SlotsAreHeldByWorkers
  <2>0. /\ IsFiniteSet(Flying(p)) /\ Cardinality(Flying(p)) \in Nat
        /\ slots[p] \in 0..Limit /\ others[p] \in 0..Limit /\ Limit \in Nat
        /\ slots[p] = others[p] + Cardinality(Flying(p))
    BY FlyingFinite
  <2>1. CASE p \in on
    <3>1. Flying(p)' = Flying(p) \cup {X(p)}
      <4>1. \A a \in new : a.peer = p => a = X(p) BY <1>9
      <4>2. X(p) \in new /\ X(p).peer = p /\ X(p).phase = "flying" BY <1>9, <2>1
      <4> HIDE DEF new, X
      <4> QED BY <1>6, <4>1, <4>2 DEF Flying
    <3>2. X(p) \notin Flying(p)
      <4>1. X(p) \notin work BY <1>9, <1>11, <2>1
      <4> QED BY <4>1 DEF Flying
    <3>3. Cardinality(Flying(p)') = Cardinality(Flying(p)) + 1
      <4> HIDE DEF X
      <4> QED BY <2>0, <3>1, <3>2, FS_AddElement
    <3>4. slots'[p] = slots[p] + 1 BY <1>2, <2>1
    <3> QED BY <1>1, <2>0, <3>3, <3>4
  <2>2. CASE p \notin on
    <3>1. Flying(p)' = Flying(p)
      <4>1. \A a \in new : a.peer # p BY <1>9, <2>2
      <4> HIDE DEF new, X
      <4> QED BY <1>6, <4>1 DEF Flying
    <3>2. slots'[p] = slots[p] BY <1>2, <2>2
    <3> QED BY <1>1, <2>0, <3>1, <3>2
  <2> QED BY <2>1, <2>2
<1>20. Sleeping' BY <1>1 DEF Sleeping
<1>21. Placed'
  <2>1. ToFetch' = ToFetch /\ pc # "ended" BY <1>1 DEF ToFetch
  <2>2. Undelivered' = Undelivered \cup {f} BY <1>6, <1>8 DEF Undelivered
  <2>3. \A u : u \in Reach(f) <=> u \in Nat /\ off <= u /\ u < off + len
    <3>1. f.off \in Nat /\ Past(f) \in Nat BY <1>7, <1>8
    <3> QED BY <1>7, <1>8, <3>1 DEF Reach
  <2>4. ASSUME NEW c \in Undelivered' \cup requeue' PROVE Reach(c) \cap buffered = {}
    <3>1. CASE c \in Undelivered BY <1>0, <2>1, <3>1 DEF Placed
    <3>2. CASE c \in requeue' BY <1>4, <3>2 DEF Taken
    <3>3. CASE c = f
      <4>1. ASSUME NEW u \in buffered, u \in Reach(f) PROVE FALSE
        <5>1. u < off \/ off + len <= u BY <1>4 DEF Taken
        <5> QED BY <1>7, <2>3, <4>1, <5>1
      <4> QED BY <3>3, <4>1
    <3> QED BY <2>2, <3>1, <3>2, <3>3
  <2>5. \A u \in buffered : BehindNext(u + 1) BY <1>4 DEF Taken
  <2>6. ASSUME NEW u \in ToFetch, u >= emitter.pos
        PROVE  \/ u \in buffered \/ u \in Uncarved'
               \/ \E c \in Undelivered' \cup requeue' : u \in Reach(c)
    <3>1. u \in Nat BY <1>0, ToFetchFacts
    <3>2. \/ u \in buffered \/ u \in Uncarved
          \/ \E c \in Undelivered \cup requeue : u \in Reach(c)
      BY <1>0, <2>1, <2>6 DEF Placed
    <3>3. CASE u \in Uncarved \/ \E c \in requeue : u \in Reach(c)
      <4>1. \/ u \in Uncarved' \/ (\E c \in requeue' : u \in Reach(c))
            \/ off <= u /\ u < off + len
        BY <1>4, <3>1, <3>3 DEF Taken
      <4> QED BY <2>2, <2>3, <3>1, <4>1
    <3> QED BY <2>2, <3>2, <3>3
  <2>7. \A u \in buffered : Behind(u + 1)' BY <1>1, <2>5 DEF BehindNext, Behind, CarvedTo
  <2> QED BY <1>1, <2>1, <2>4, <2>6, <2>7 DEF Placed, Reach, Past
<1> QED BY <1>12, <1>13, <1>14, <1>15, <1>16, <1>17, <1>18, <1>19, <1>20, <1>21 DEF IInv

-----------------------------------------------------------------------------
(* Every step *)

LEMMA InvStep == IInv /\ [Next]_vars => IInv'
<1> SUFFICES ASSUME IInv, [Next]_vars PROVE IInv'
  OBVIOUS
<1>1. CASE Pump
  BY <1>1, PumpLiteralStep, PumpReplayStep, PumpPlainStep, PumpRetainedStep, PumpFinishedStep,
     PumpNeedsDataStep, ForfeitStep DEF Pump
<1>2. CASE LaunchEnds BY <1>2, LaunchEndsStep
<1>3. CASE Settle BY <1>3, SettleStep
<1>4. CASE Launch BY <1>4, LaunchStep
<1>5. CASE GateExpires BY <1>5, GateExpiresStep
<1>6. CASE Timer BY <1>6, TimerStep
<1>7. CASE Stall BY <1>7, StallStep
<1>8. CASE WakeStarved BY <1>8, WakeStarvedStep
<1>9. CASE \E w \in work : Finish(w) \/ HearTwin(w) \/ HearChunk(w) \/ HearFailure(w) \/ HearLastStraw(w)
  BY <1>9, FinishStep, HearTwinStep, HearChunkStep, HearFailureStep, HearLastStrawStep
<1>10. CASE \E p \in Peer : Starve(p) \/ OtherTakes(p) \/ OtherReleases(p) \/ CooldownElapses(p)
  BY <1>10, StarveStep, OtherTakesStep, OtherReleasesStep, CooldownElapsesStep
<1>11. CASE UNCHANGED vars BY <1>11, StandStill
<1> QED BY <1>1, <1>2, <1>3, <1>4, <1>5, <1>6, <1>7, <1>8, <1>9, <1>10, <1>11 DEF Next

(* The invariant holds in every state of every transfer.                   *)
LEMMA Invariance == Spec => []IInv
<1>1. Init => IInv BY InvInit
<1>2. IInv /\ [Next]_vars => IInv' BY InvStep
<1> QED BY <1>1, <1>2, PTL DEF Spec

(* An attempt that ends, or is aborted with the transfer, gives back the   *)
(* one slot it took of its peer: RAII of the governor's StreamPermit.      *)
THEOREM SlotsAreGivenBack == Spec => []SlotsAreHeldByWorkers
<1>1. IInv => SlotsAreHeldByWorkers BY DEF IInv
<1> QED BY <1>1, Invariance, PTL

(* Every Done finds its flight, and every flight has an attempt that will  *)
(* be heard (run_transfer's Flight bookkeeping).                           *)
THEOREM NoFlightIsAbandoned == Spec => []FlightsAreManned
<1>1. IInv => FlightsAreManned BY DEF IInv
<1> QED BY <1>1, Invariance, PTL

(* A transfer asleep for a slot, not notified, waits for a busy peer: the  *)
(* Notified is registered before the probe (run_transfer's slot_freed).    *)
THEOREM NoReleaseIsSleptThrough == Spec => []NoReleaseIsMissed
<1>1. IInv => NoReleaseIsMissed BY DEF IInv, Sleeping, NoReleaseIsMissed
<1> QED BY <1>1, Invariance, PTL

(* A completed transfer sent every byte, and a whole NAR's right ones only *)
(* (emit's withheld tail and the hash check).                              *)
THEOREM CompletionIsCorrect == Spec => []CompletedIsCorrect
<1>1. IInv => CompletedIsCorrect
  <2> SUFFICES ASSUME IInv, outcome = "completed"
               PROVE  emitter.pos = job.end /\ (job.full => ~emitter.wrong)
    BY DEF CompletedIsCorrect
  <2>1. Done /\ Inside BY DEF IInv, Emitting
  <2> QED BY <2>1 DEF Inside, Done
<1> QED BY <1>1, Invariance, PTL

LEMMA OneOrNone ==
    ASSUME NEW S, \A x, y \in S : x = y
    PROVE  Cardinality(S) = IF S = {} THEN 0 ELSE 1
<1>1. CASE S = {} BY <1>1, FS_EmptySet
<1>2. CASE S # {}
  <2>1. PICK x : S = {x} BY <1>2
  <2>2. Cardinality({x}) = 1 BY FS_Singleton
  <2> QED BY <1>2, <2>1, <2>2
<1> QED BY <1>1, <1>2

LEMMA CountOnce ==
    ASSUME IInv, pc # "ended", NEW u \in ToFetch, u >= emitter.pos
    PROVE  InPlaces(u) = 1
<1> DEFINE F == {f \in Undelivered : u \in f.off..(f.off + f.len - 1)}
           Q == {c \in requeue : u \in c.off..(c.off + c.len - 1)}
<1>0. /\ Planned /\ Carving /\ Tidy /\ TypeChunks /\ TypeBuffer /\ Placed
  BY Parts DEF IInv
<1>1. u \in Nat BY <1>0, ToFetchFacts
<1>2. ASSUME NEW c \in inflight \cup requeue
      PROVE  /\ u \in c.off..(c.off + c.len - 1) <=> u \in Reach(c)
             /\ u \in Reach(c) => u + 1 <= Past(c) /\ Past(c) \in Nat
  <2>1. /\ c.off \in Nat /\ c.len \in Nat \ {0} /\ Past(c) = c.off + c.len /\ Past(c) \in Nat
        /\ u \in Reach(c) <=> u \in Nat /\ c.off <= u /\ u < Past(c)
    BY <1>0, ChunkFacts
  <2> QED BY <1>1, <2>1
<1>3. Undelivered \subseteq inflight BY DEF Undelivered
<1>4. F = {f \in Undelivered : u \in Reach(f)} /\ Q = {c \in requeue : u \in Reach(c)}
  BY <1>2, <1>3
<1> HIDE DEF F, Q
<1>5. \A f, g \in F : f = g
  <2> TAKE f, g \in F
  <2>1. CASE f # g
    <3>1. f \in inflight /\ g \in inflight /\ u \in Reach(f) /\ u \in Reach(g) BY <1>3, <1>4
    <3>2. Apart(f, g) BY <1>0, <2>1, <3>1 DEF Tidy
    <3>3. Reach(f) \cap Reach(g) = {} BY <1>0, <3>1, <3>2, ApartReach
    <3> QED BY <3>1, <3>3
  <2> QED BY <2>1
<1>6. \A c, d \in Q : c = d
  <2> TAKE c, d \in Q
  <2>1. CASE c # d
    <3>1. c \in requeue /\ d \in requeue /\ u \in Reach(c) /\ u \in Reach(d) BY <1>4
    <3>2. Apart(c, d) BY <1>0, <2>1, <3>1 DEF Tidy
    <3>3. Reach(c) \cap Reach(d) = {} BY <1>0, <3>1, <3>2, ApartReach
    <3> QED BY <3>1, <3>3
  <2> QED BY <2>1
<1>7. F = {} \/ Q = {}
  <2> SUFFICES ASSUME NEW f \in F, NEW c \in Q PROVE FALSE
    OBVIOUS
  <2>1. f \in inflight /\ c \in requeue /\ u \in Reach(f) /\ u \in Reach(c) BY <1>3, <1>4
  <2>2. Apart(f, c) BY <1>0, <2>1 DEF Tidy
  <2>3. Reach(f) \cap Reach(c) = {} BY <1>0, <2>1, <2>2, ApartReach
  <2> QED BY <2>1, <2>3
<1>8. u \in buffered => F = {} /\ Q = {} BY <1>0, <1>4 DEF Placed
(* What is in a chunk or the buffer is behind the cursor. *)
<1>9. Behind(u + 1) => u \notin Uncarved
  <2> SUFFICES ASSUME Behind(u + 1), u \in Uncarved PROVE FALSE
    OBVIOUS
  <2>1. u \in Left(plan.ranges, carve) BY <1>0, UncarvedIsLeft
  <2>2. Steady(plan.ranges, carve) BY <1>0, CursorSteady
  <2>3. /\ carve.range <= Len(plan.ranges)
        /\ plan.ranges[carve.range].at + carve.at <= u
    BY <1>0, <2>1, <2>2, LeftIsAhead
  <2>4. u + 1 <= plan.ranges[carve.range].at + carve.at BY <2>3 DEF Behind, CarvedTo
  <2>5. carve.range \in 1..Len(plan.ranges) /\ carve.at \in Nat BY <1>0, <2>3, RangeFacts DEF Carving
  <2>6. plan.ranges[carve.range].at \in Nat BY <1>0, <2>5, RangeFacts
  <2> QED BY <1>1, <2>3, <2>4, <2>5, <2>6
<1>10. u \in buffered \/ F # {} \/ Q # {} => u \notin Uncarved
  <2>1. u \in buffered => Behind(u + 1) BY <1>0 DEF Placed
  <2>2. ASSUME NEW c \in inflight \cup requeue, u \in Reach(c) PROVE Behind(u + 1)
    <3>1. u + 1 <= Past(c) /\ Past(c) \in Nat /\ u + 1 \in Nat BY <1>1, <1>2, <2>2
    <3>2. Behind(Past(c)) BY <1>0 DEF Tidy
    <3> QED BY <1>0, <3>1, <3>2, BehindDown
  <2> QED BY <1>3, <1>4, <1>9, <2>1, <2>2
<1>11. u \in buffered \/ u \in Uncarved \/ F # {} \/ Q # {}
  <2>1. \/ u \in buffered \/ u \in Uncarved
        \/ \E c \in Undelivered \cup requeue : u \in Reach(c)
    BY <1>0 DEF Placed
  <2> QED BY <1>4, <2>1
<1> DEFINE nf == Cardinality(F)
           nq == Cardinality(Q)
           nb == IF u \in buffered THEN 1 ELSE 0
           nu == IF u \in Uncarved THEN 1 ELSE 0
<1>12. InPlaces(u) = nf + nq + nb + nu BY DEF InPlaces, F, Q
<1>13. nf = (IF F = {} THEN 0 ELSE 1) /\ nq = (IF Q = {} THEN 0 ELSE 1)
  BY <1>5, <1>6, OneOrNone
<1> HIDE DEF nf, nq
<1> QED BY <1>7, <1>8, <1>10, <1>11, <1>12, <1>13

(* No unit of the NAR is lost or bought twice: run_transfer's chunker,     *)
(* requeue, flights and reassembly buffer share it out.                    *)
THEOREM EachUnitIsOnce == Spec => []EachUnitInOnePlace
<1>1. IInv => EachUnitInOnePlace BY CountOnce DEF IInv, EachUnitInOnePlace
<1> QED BY <1>1, Invariance, PTL

-----------------------------------------------------------------------------
(* What is kept of a plan's segments *)

Step == [fetch : BOOLEAN, retain : Nat]
Ledger(K) == [kept : SUBSET K, bytes : Int, steps : Seq(Step)]

Later(keys, k, p) == {q \in DOMAIN keys : q > p /\ keys[q] = k}

(* The replays that each kept key waits for after the occurrence p.        *)
DueAt(keys, K, r, p) ==
    [k \in K |-> IF k \in r.kept THEN Cardinality(Later(keys, k, p)) ELSE 0]

(* A kept key was seen, and comes again.                                   *)
Sound(keys, r, p) ==
    /\ r.bytes <= Budget /\ Len(r.steps) = p
    /\ \A k \in r.kept : Later(keys, k, p) # {} /\ \E q \in 1..p : keys[q] = k

(* The span s turns the replays due d and the bytes kept b into e and c.   *)
Turns(s, d, b, e, c) ==
    /\ c <= Budget
    /\ \A k \in DOMAIN d : k # s.key => e[k] = d[k]
    /\ s.do = "lit" \/ (s.do = "fetch" /\ s.retain = 0) => e[s.key] = d[s.key] /\ c = b
    /\ s.do = "fetch" /\ s.retain > 0 =>
         d[s.key] = 0 /\ e[s.key] = s.retain /\ c = b + s.len
    /\ s.do = "replay" =>
         /\ d[s.key] > 0 /\ e[s.key] = d[s.key] - 1
         /\ c = b - (IF e[s.key] = 0 THEN s.len ELSE 0)

SegmentSpan(step, key, len) ==
    [do |-> IF step.fetch THEN "fetch" ELSE "replay", key |-> key, len |-> len,
     retain |-> step.retain]

LEMMA LaterOn ==
    ASSUME NEW K, NEW keys \in Seq(K), NEW p \in 1..Len(keys)
    PROVE  /\ \A k \in K : IsFiniteSet(Later(keys, k, p)) /\ Cardinality(Later(keys, k, p)) \in Nat
           /\ \A k \in K : k # keys[p] => Later(keys, k, p) = Later(keys, k, p - 1)
           /\ Cardinality(Later(keys, keys[p], p - 1)) = Cardinality(Later(keys, keys[p], p)) + 1
           /\ IsFirst(keys, p) =>
                Cardinality(Occurrences(keys, p)) = Cardinality(Later(keys, keys[p], p)) + 1
<1> DEFINE n == Len(keys)
           later(k) == Later(keys, k, p)
<1>1. n \in Nat /\ DOMAIN keys = 1..n /\ IsFiniteSet(1..n) BY FS_Interval
<1>2. \A k \in K : IsFiniteSet(later(k)) /\ Cardinality(later(k)) \in Nat
  <2> TAKE k \in K
  <2>1. later(k) \subseteq 1..n BY <1>1 DEF Later
  <2> QED BY <1>1, <2>1, FS_Subset, FS_CardinalityType
<1>3. \A k \in K : k # keys[p] => later(k) = Later(keys, k, p - 1) BY <1>1 DEF Later
<1>4. /\ Later(keys, keys[p], p - 1) = later(keys[p]) \cup {p}
      /\ p \notin later(keys[p]) /\ keys[p] \in K
  BY <1>1 DEF Later
<1>5. IsFirst(keys, p) => Occurrences(keys, p) = later(keys[p]) \cup {p}
  BY <1>1 DEF IsFirst, Occurrences, Later
<1>6. Cardinality(later(keys[p]) \cup {p}) = Cardinality(later(keys[p])) + 1
  <2> HIDE DEF later
  <2> QED BY <1>2, <1>4, FS_AddElement
<1> QED BY <1>2, <1>3, <1>4, <1>5, <1>6

LEMMA VisitTurns ==
    ASSUME NEW K, NEW keys \in Seq(K), NEW p \in 1..Len(keys),
           NEW sizes, sizes[p] \in Nat,
           NEW r \in Ledger(K), Sound(keys, r, p - 1)
    PROVE  LET new == Visit(keys, sizes, Budget, r, p) IN
           /\ new \in Ledger(K) /\ Sound(keys, new, p)
           /\ \A i \in 1..(p - 1) : new.steps[i] = r.steps[i]
           /\ Turns(SegmentSpan(new.steps[p], keys[p], sizes[p]),
                    DueAt(keys, K, r, p - 1), r.bytes, DueAt(keys, K, new, p), new.bytes)
<1> DEFINE new == Visit(keys, sizes, Budget, r, p)
           k == keys[p]
           d == DueAt(keys, K, r, p - 1)
           e == DueAt(keys, K, new, p)
           left(x) == Cardinality(Later(keys, x, p))
<1>1. /\ DOMAIN keys = 1..Len(keys) /\ k \in K /\ Budget \in Nat
      /\ r.kept \in SUBSET K /\ r.bytes \in Int /\ r.steps \in Seq(Step) /\ Len(r.steps) = p - 1
      /\ r.bytes <= Budget
  BY TransferAssumption DEF Ledger, Sound
<1>2. /\ \A x \in K : left(x) \in Nat
      /\ \A x \in K : left(x) = 0 <=> Later(keys, x, p) = {}
      /\ \A x \in K : x # k => Later(keys, x, p) = Later(keys, x, p - 1)
      /\ Cardinality(Later(keys, k, p - 1)) = left(k) + 1
      /\ IsFirst(keys, p) => Cardinality(Occurrences(keys, p)) = left(k) + 1
  BY LaterOn, FS_EmptySet
<1>3. \A x \in K : d[x] = IF x \in r.kept THEN Cardinality(Later(keys, x, p - 1)) ELSE 0
  BY DEF DueAt
<1>4. \A x \in K : e[x] = IF x \in new.kept THEN left(x) ELSE 0 BY DEF DueAt
<1>5. DOMAIN d = K BY DEF DueAt
<1>6. IsFirst(keys, p) => k \notin r.kept
  <2> SUFFICES ASSUME IsFirst(keys, p), NEW q \in 1..(p - 1), keys[q] = k PROVE FALSE
    BY DEF Sound
  <2> QED BY <1>1 DEF IsFirst, Occurrences
<1>7. IsLast(keys, p) <=> Later(keys, k, p) = {}
  BY <1>1 DEF IsLast, Occurrences, Later
<1>8. \A x \in r.kept : x # k => Later(keys, x, p) # {} /\ \E q \in 1..p : keys[q] = x
  BY <1>1, <1>2 DEF Sound
<1> HIDE DEF new, d, e, left
<1> SUFFICES /\ new \in Ledger(K) /\ Sound(keys, new, p)
             /\ \A i \in 1..(p - 1) : new.steps[i] = r.steps[i]
             /\ Turns(SegmentSpan(new.steps[p], k, sizes[p]), d, r.bytes, e, new.bytes)
  BY DEF new, d, e
<1>9. ASSUME NEW step \in Step, new.steps = Append(r.steps, step)
      PROVE  /\ new.steps \in Seq(Step) /\ Len(new.steps) = p
             /\ \A i \in 1..(p - 1) : new.steps[i] = r.steps[i]
             /\ new.steps[p] = step
  BY <1>1, <1>9
<1>10. CASE Keeps(keys, sizes, Budget, r.bytes, p)
  <2> DEFINE n == Cardinality(Occurrences(keys, p)) - 1
  <2>1. k \notin r.kept /\ n = left(k) /\ n \in Nat \ {0} /\ r.bytes + sizes[p] <= Budget
    <3>1. /\ IsFirst(keys, p) /\ Cardinality(Occurrences(keys, p)) > 1
          /\ r.bytes + sizes[p] <= Budget
      BY <1>10 DEF Keeps
    <3>2. left(k) \in Nat BY <1>1, <1>2
    <3>3. Cardinality(Occurrences(keys, p)) = left(k) + 1 BY <1>2, <3>1
    <3> QED BY <1>6, <3>1, <3>2, <3>3
  <2>2. new = [kept |-> r.kept \cup {k}, bytes |-> r.bytes + sizes[p],
               steps |-> Append(r.steps, Fetch(n))]
    BY <1>10, <2>1, <1>6 DEF new, Visit
  <2>3. Fetch(n) \in Step /\ Fetch(n).fetch = TRUE /\ Fetch(n).retain = n
    BY <2>1 DEF Fetch, Step
  <2> HIDE DEF n
  <2>4. new.kept = r.kept \cup {k} /\ new.bytes = r.bytes + sizes[p]
        /\ new.steps = Append(r.steps, Fetch(n))
        /\ new = [kept |-> new.kept, bytes |-> new.bytes, steps |-> new.steps]
    BY <2>2
  <2>5. new \in Ledger(K)
    <3>1. new.kept \in SUBSET K /\ new.bytes \in Int BY <1>1, <2>4
    <3>2. new.steps \in Seq(Step) BY <1>9, <2>3, <2>4
    <3> QED BY <2>4, <3>1, <3>2 DEF Ledger
  <2>6. \A x \in new.kept : Later(keys, x, p) # {} /\ \E q \in 1..p : keys[q] = x
    <3> TAKE x \in new.kept
    <3>1. CASE x = k BY <1>1, <1>2, <2>1, <3>1
    <3>2. CASE x # k BY <1>8, <2>4, <3>2
    <3> QED BY <3>1, <3>2
  <2>7. Sound(keys, new, p) BY <1>9, <2>1, <2>3, <2>4, <2>6 DEF Sound
  <2> DEFINE s == SegmentSpan(new.steps[p], k, sizes[p])
  <2>8. s.do = "fetch" /\ s.key = k /\ s.len = sizes[p] /\ s.retain = n
    BY <1>9, <2>3, <2>4 DEF SegmentSpan
  <2> HIDE DEF s
  <2>9. d[k] = 0 /\ e[k] = n /\ \A x \in K : x # k => e[x] = d[x]
    <3>1. d[k] = 0 BY <1>1, <1>3, <2>1
    <3>2. e[k] = n BY <1>1, <1>4, <2>1, <2>4
    <3>3. ASSUME NEW x \in K, x # k PROVE e[x] = d[x]
      <4>1. x \in new.kept <=> x \in r.kept BY <2>4, <3>3
      <4> QED BY <1>2, <1>3, <1>4, <3>3, <4>1 DEF left
    <3> QED BY <3>1, <3>2, <3>3
  <2>10. Turns(s, d, r.bytes, e, new.bytes)
    BY <1>5, <2>1, <2>4, <2>8, <2>9 DEF Turns
  <2> QED BY <1>9, <2>3, <2>4, <2>5, <2>7, <2>10 DEF s
<1>11. CASE ~Keeps(keys, sizes, Budget, r.bytes, p) /\ k \in r.kept
  <2>1. /\ new.kept = IF IsLast(keys, p) THEN r.kept \ {k} ELSE r.kept
        /\ new.bytes = IF IsLast(keys, p) THEN r.bytes - sizes[p] ELSE r.bytes
        /\ new.steps = Append(r.steps, Cached)
        /\ new = [kept |-> new.kept, bytes |-> new.bytes, steps |-> new.steps]
    <3>1. CASE IsLast(keys, p)
      <4>1. new = [kept |-> r.kept \ {k}, bytes |-> r.bytes - sizes[p],
                   steps |-> Append(r.steps, Cached)]
        BY <1>6, <1>11, <3>1 DEF new, Visit
      <4> QED BY <3>1, <4>1
    <3>2. CASE ~IsLast(keys, p)
      <4>1. new = [r EXCEPT !.steps = Append(@, Cached)] BY <1>6, <1>11, <3>2 DEF new, Visit
      <4> QED BY <3>2, <4>1 DEF Ledger
    <3> QED BY <3>1, <3>2
  <2>2. Cached \in Step /\ Cached.fetch = FALSE /\ Cached.retain = 0 BY DEF Cached, Step
  <2>3. new.steps \in Seq(Step) /\ Len(new.steps) = p
        /\ (\A i \in 1..(p - 1) : new.steps[i] = r.steps[i]) /\ new.steps[p] = Cached
    BY <1>9, <2>1, <2>2
  <2>4. new.kept \in SUBSET K /\ new.bytes \in Int /\ new.bytes <= Budget BY <1>1, <2>1
  <2>5. new \in Ledger(K) BY <2>1, <2>3, <2>4 DEF Ledger
  <2>6. \A x \in new.kept : Later(keys, x, p) # {} /\ \E q \in 1..p : keys[q] = x
    <3> TAKE x \in new.kept
    <3>1. CASE x = k BY <1>1, <1>7, <2>1, <3>1
    <3>2. CASE x # k BY <1>8, <2>1, <3>2
    <3> QED BY <3>1, <3>2
  <2>7. Sound(keys, new, p) BY <2>3, <2>4, <2>6 DEF Sound
  <2> DEFINE s == SegmentSpan(new.steps[p], k, sizes[p])
  <2>8. s.do = "replay" /\ s.key = k /\ s.len = sizes[p]
    BY <2>2, <2>3 DEF SegmentSpan
  <2> HIDE DEF s
  <2>9. d[k] = left(k) + 1 /\ left(k) \in Nat BY <1>1, <1>2, <1>3, <1>11
  <2>10. e[k] = left(k) /\ (IsLast(keys, p) <=> left(k) = 0)
    <3>1. CASE IsLast(keys, p) BY <1>1, <1>2, <1>4, <1>7, <2>1, <3>1
    <3>2. CASE ~IsLast(keys, p) BY <1>1, <1>2, <1>4, <1>7, <1>11, <2>1, <3>2
    <3> QED BY <3>1, <3>2
  <2>11. \A x \in K : x # k => e[x] = d[x]
    <3> TAKE x \in K
    <3> HAVE x # k
    <3>1. x \in new.kept <=> x \in r.kept BY <2>1
    <3> QED BY <1>2, <1>3, <1>4, <3>1 DEF left
  <2>12. new.bytes = r.bytes - (IF e[k] = 0 THEN sizes[p] ELSE 0)
    BY <1>1, <2>1, <2>10
  <2>13. Turns(s, d, r.bytes, e, new.bytes)
    BY <1>5, <2>4, <2>8, <2>9, <2>10, <2>11, <2>12 DEF Turns
  <2> QED BY <2>3, <2>5, <2>7, <2>13 DEF s
<1>12. CASE ~Keeps(keys, sizes, Budget, r.bytes, p) /\ k \notin r.kept
  <2>1. new = [r EXCEPT !.steps = Append(@, Fetch(0))] BY <1>12 DEF new, Visit
  <2>2. /\ new.kept = r.kept /\ new.bytes = r.bytes /\ new.steps = Append(r.steps, Fetch(0))
        /\ new = [kept |-> new.kept, bytes |-> new.bytes, steps |-> new.steps]
    BY <2>1 DEF Ledger
  <2>3. Fetch(0) \in Step /\ Fetch(0).fetch = TRUE /\ Fetch(0).retain = 0 BY DEF Fetch, Step
  <2>4. new.steps \in Seq(Step) /\ Len(new.steps) = p
        /\ (\A i \in 1..(p - 1) : new.steps[i] = r.steps[i]) /\ new.steps[p] = Fetch(0)
    BY <1>9, <2>2, <2>3
  <2>5. new \in Ledger(K) BY <1>1, <2>2, <2>4 DEF Ledger
  <2>6. \A x \in new.kept : Later(keys, x, p) # {} /\ \E q \in 1..p : keys[q] = x
    BY <1>8, <1>12, <2>2
  <2>7. Sound(keys, new, p) BY <1>1, <2>2, <2>4, <2>6 DEF Sound
  <2> DEFINE s == SegmentSpan(new.steps[p], k, sizes[p])
  <2>8. s.do = "fetch" /\ s.key = k /\ s.retain = 0
    BY <2>3, <2>4 DEF SegmentSpan
  <2> HIDE DEF s
  <2>9. d[k] = 0 /\ e[k] = 0 BY <1>1, <1>3, <1>4, <1>12, <2>2
  <2>10. \A x \in K : x # k => e[x] = d[x] BY <1>2, <1>3, <1>4, <2>2 DEF left
  <2>11. Turns(s, d, r.bytes, e, new.bytes)
    BY <1>1, <1>5, <2>2, <2>8, <2>9, <2>10 DEF Turns
  <2> QED BY <2>4, <2>5, <2>7, <2>11 DEF s
<1> QED BY <1>10, <1>11, <1>12

LEMMA VisitTyped ==
    ASSUME NEW K, NEW keys \in Seq(K), NEW p \in 1..Len(keys), NEW sizes, sizes[p] \in Nat,
           NEW r \in Ledger(K)
    PROVE  Visit(keys, sizes, Budget, r, p) \in Ledger(K)
<1> DEFINE new == Visit(keys, sizes, Budget, r, p)
           n == Cardinality(Occurrences(keys, p)) - 1
           Made(step) == Append(r.steps, step)
<1>1. /\ keys[p] \in K /\ r.kept \in SUBSET K /\ r.bytes \in Int /\ r.steps \in Seq(Step)
  BY DEF Ledger
<1>2. \A step \in Step : Made(step) \in Seq(Step) BY <1>1
<1>3. Cached \in Step /\ Fetch(0) \in Step BY DEF Cached, Fetch, Step
<1>4. Keeps(keys, sizes, Budget, r.bytes, p) => Fetch(n) \in Step
  <2>1. DOMAIN keys = 1..Len(keys) /\ IsFiniteSet(1..Len(keys)) BY FS_Interval
  <2>2. Occurrences(keys, p) \subseteq 1..Len(keys) BY <2>1 DEF Occurrences
  <2>3. Cardinality(Occurrences(keys, p)) \in Nat BY <2>1, <2>2, FS_Subset, FS_CardinalityType
  <2> QED BY <2>3 DEF Keeps, Fetch, Step
<1>5. \/ /\ Keeps(keys, sizes, Budget, r.bytes, p)
         /\ new = [kept |-> r.kept \cup {keys[p]}, bytes |-> r.bytes + sizes[p],
                   steps |-> Made(Fetch(n))]
      \/ new = [kept |-> r.kept \ {keys[p]}, bytes |-> r.bytes - sizes[p], steps |-> Made(Cached)]
      \/ new = [kept |-> r.kept, bytes |-> r.bytes, steps |-> Made(Cached)]
      \/ new = [kept |-> r.kept, bytes |-> r.bytes, steps |-> Made(Fetch(0))]
  <2>1. \A steps : [r EXCEPT !.steps = steps]
                     = [kept |-> r.kept, bytes |-> r.bytes, steps |-> steps]
    BY DEF Ledger
  <2> HIDE DEF n, Made
  <2>2. CASE Keeps(keys, sizes, Budget, r.bytes, p)
    <3>1. new = [kept |-> r.kept \cup {keys[p]}, bytes |-> r.bytes + sizes[p],
                 steps |-> Append(r.steps, Fetch(Cardinality(Occurrences(keys, p)) - 1))]
      BY <2>2 DEF Visit, Keeps
    <3> HIDE DEF new
    <3> QED BY <2>2, <3>1 DEF n, Made
  <2> DEFINE resident == ~IsFirst(keys, p) /\ keys[p] \in r.kept
  <2>3. CASE ~Keeps(keys, sizes, Budget, r.bytes, p) /\ resident /\ IsLast(keys, p)
    BY <2>3 DEF Visit, Made
  <2>4. CASE ~Keeps(keys, sizes, Budget, r.bytes, p) /\ resident /\ ~IsLast(keys, p)
    <3>1. new = [r EXCEPT !.steps = Append(@, Cached)] BY <2>4 DEF Visit
    <3> HIDE DEF new
    <3> QED BY <2>1, <3>1 DEF Made
  <2>5. CASE ~Keeps(keys, sizes, Budget, r.bytes, p) /\ ~resident
    <3>1. new = [r EXCEPT !.steps = Append(@, Fetch(0))] BY <2>5 DEF Visit
    <3> HIDE DEF new
    <3> QED BY <2>1, <3>1 DEF Made
  <2> QED BY <2>2, <2>3, <2>4, <2>5
<1> HIDE DEF new, n, Made
<1> SUFFICES new \in Ledger(K)
  BY DEF new
<1>6. \E a \in SUBSET K, b \in Int, c \in Seq(Step) : new = [kept |-> a, bytes |-> b, steps |-> c]
  BY <1>1, <1>2, <1>3, <1>4, <1>5
<1> QED BY <1>6 DEF Ledger

(* A ledger of what spans 1 to n keep: replays due and bytes, after each.  *)
Keeping(n, K, span, due, bytes) ==
    /\ due \in [0..n -> [K -> Nat]] /\ bytes \in [0..n -> Int]
    /\ bytes[0] = 0 /\ \A k \in K : due[0][k] = 0 /\ due[n][k] = 0
    /\ \A i \in 1..n : Turns(span[i], due[i - 1], bytes[i - 1], due[i], bytes[i])

(* The planner visits the occurrences in order.                            *)
LEMMA ResidencySolves ==
    ASSUME NEW K, NEW keys \in Seq(K), NEW sizes, \A p \in 1..Len(keys) : sizes[p] \in Nat
    PROVE  \E fold :
              /\ Residency(keys, sizes, Budget) = fold[1..Len(keys)]
              /\ fold[{}] = NoneKept
              /\ \A p \in 1..Len(keys) :
                   fold[1..p] = Visit(keys, sizes, Budget, fold[1..(p - 1)], p)
<1> DEFINE n == Len(keys)
           T == Ledger(K)
           ids == [i \in DOMAIN keys |-> i]
           S == DOMAIN ids
           pick == [s \in SUBSET S |-> Max(s)]
           step == [x \in S \X T |-> Visit(keys, sizes, Budget, x[2], ids[x[1]])]
           Of(f) == [s \in SUBSET S |-> IF s = {} THEN NoneKept ELSE
                        LET x == Max(s) IN Visit(keys, sizes, Budget, f[s \ {x}], ids[x])]
           fold == CHOOSE f : f = Of(f)
<1>1. S = 1..n /\ n \in Nat /\ \A i \in S : ids[i] = i OBVIOUS
<1>2. Residency(keys, sizes, Budget) = fold[S]
  BY DEF Residency, FoldLeftDomain, FoldLeft, MapThenFoldSet
<1> HIDE DEF ids
<1>3. Picks(pick, S)
  <2> HIDE DEF S
  <2> QED BY <1>1, MaxIn DEF Picks
<1>4. \A x \in S : \A r \in T : Visit(keys, sizes, Budget, r, ids[x]) \in T
  <2> HIDE DEF S
  <2> TAKE x \in S
  <2> TAKE r \in T
  <2>1. ids[x] = x /\ x \in 1..n /\ sizes[x] \in Nat BY <1>1
  <2> QED BY <2>1, VisitTyped
<1>5. step \in [S \X T -> T]
  <2> HIDE DEF S, T
  <2> QED BY <1>4
<1>6. IsFiniteSet(S) BY <1>1, FS_Interval
<1>7. NoneKept \in T BY DEF NoneKept, Ledger
<1>8. PICK f : IsFold(f, S, T, NoneKept, step, pick)
  <2> HIDE DEF S, T, pick, step
  <2> QED BY <1>3, <1>5, <1>6, <1>7, FoldExists
<1>9. f = Of(f)
  <2>1. ASSUME NEW s \in SUBSET S, s # {}
        PROVE  f[s] = Visit(keys, sizes, Budget, f[s \ {Max(s)}], ids[Max(s)])
    <3>1. pick[s] = Max(s) /\ pick[s] \in S /\ f[s \ {pick[s]}] \in T
      BY <1>3, <1>8, <2>1 DEF Picks, IsFold
    <3>2. step[<<pick[s], f[s \ {pick[s]}]>>]
            = Visit(keys, sizes, Budget, f[s \ {pick[s]}], ids[pick[s]])
      <4> HIDE DEF pick, S, T
      <4> QED BY <3>1
    <3> HIDE DEF step, pick, T
    <3> QED BY <1>8, <2>1, <3>1, <3>2 DEF IsFold
  <2>2. f[{}] = NoneKept BY <1>8 DEF IsFold
  <2> HIDE DEF S, T
  <2> QED BY <1>8, <2>1, <2>2 DEF IsFold
<1>10. fold = Of(fold)
  <2> HIDE DEF Of
  <2> QED BY <1>9
<1> HIDE DEF fold
<1>11. fold[{}] = NoneKept BY <1>10
<1>12. ASSUME NEW p \in 1..n
       PROVE  fold[1..p] = Visit(keys, sizes, Budget, fold[1..(p - 1)], p)
  <2>1. /\ Max(1..p) = p /\ (1..p) \ {p} = 1..(p - 1)
        /\ 1..p \in SUBSET S /\ 1..p # {} /\ ids[p] = p
    BY <1>1, TopIndex
  <2>2. fold[1..p] = Visit(keys, sizes, Budget, fold[(1..p) \ {Max(1..p)}], ids[Max(1..p)])
    <3> HIDE DEF S
    <3> QED BY <1>10, <2>1
  <2> QED BY <2>1, <2>2
<1> HIDE DEF S
<1> QED BY <1>1, <1>2, <1>11, <1>12

(* The planner: its steps come with a balance, of replays due and of bytes *)
(* kept, that begins and ends at nothing due, is never beyond the budget,  *)
(* and has a replay due wherever one is planned (dedup.rs, plan).          *)
THEOREM RetentionKeeps ==
    ASSUME NEW K, NEW keys \in Seq(K), NEW sizes, \A p \in 1..Len(keys) : sizes[p] \in Nat,
           NEW steps, steps = RetentionPlan(keys, sizes, Budget)
    PROVE  /\ steps \in Seq(Step) /\ Len(steps) = Len(keys)
           /\ \E segment, due, bytes :
                /\ \A p \in 1..Len(keys) : segment[p] = SegmentSpan(steps[p], keys[p], sizes[p])
                /\ Keeping(Len(keys), K, segment, due, bytes)
<1> DEFINE n == Len(keys)
           segment == [p \in 1..n |-> SegmentSpan(steps[p], keys[p], sizes[p])]
<1>1. PICK fold :
        /\ Residency(keys, sizes, Budget) = fold[1..n]
        /\ fold[{}] = NoneKept
        /\ \A p \in 1..n : fold[1..p] = Visit(keys, sizes, Budget, fold[1..(p - 1)], p)
  BY ResidencySolves
<1> DEFINE r(p) == fold[1..p]
           good == {p \in Nat : p <= n => r(p) \in Ledger(K) /\ Sound(keys, r(p), p)}
<1>2. n \in Nat /\ DOMAIN keys = 1..n /\ Budget \in Nat BY TransferAssumption
<1>3. r(0) = NoneKept
  <2>1. 1..0 = {} OBVIOUS
  <2> QED BY <1>1, <2>1
<1>4. ASSUME NEW p \in 1..n, r(p - 1) \in Ledger(K), Sound(keys, r(p - 1), p - 1)
      PROVE  /\ r(p) \in Ledger(K) /\ Sound(keys, r(p), p)
             /\ \A i \in 1..(p - 1) : r(p).steps[i] = r(p - 1).steps[i]
             /\ Turns(SegmentSpan(r(p).steps[p], keys[p], sizes[p]),
                      DueAt(keys, K, r(p - 1), p - 1), r(p - 1).bytes,
                      DueAt(keys, K, r(p), p), r(p).bytes)
  <2>1. r(p) = Visit(keys, sizes, Budget, r(p - 1), p) BY <1>1
  <2> HIDE DEF r
  <2> QED BY <1>2, <1>4, <2>1, VisitTurns
<1> HIDE DEF r, n
<1>5. 0 \in good
  <2>1. r(0).kept = {} /\ r(0).bytes = 0 /\ r(0).steps = <<>> /\ r(0) \in Ledger(K)
    <3>1. NoneKept \in Ledger(K) BY DEF NoneKept, Ledger
    <3>2. NoneKept.kept = {} /\ NoneKept.bytes = 0 /\ NoneKept.steps = <<>> BY DEF NoneKept
    <3> QED BY <1>3, <3>1, <3>2
  <2> QED BY <1>2, <2>1 DEF Sound
<1>6. ASSUME NEW p \in Nat, p \in good PROVE p + 1 \in good
  <2> SUFFICES ASSUME p + 1 <= n PROVE r(p + 1) \in Ledger(K) /\ Sound(keys, r(p + 1), p + 1)
    OBVIOUS
  <2>1. p + 1 \in 1..n /\ (p + 1) - 1 = p BY <1>2
  <2>2. r(p) \in Ledger(K) /\ Sound(keys, r(p), p) BY <1>2, <1>6
  <2> QED BY <1>4, <2>1, <2>2
<1>7. Nat \subseteq good
  <2> HIDE DEF good
  <2> QED BY <1>5, <1>6, Induct
<1>8. \A p \in 0..n : r(p) \in Ledger(K) /\ Sound(keys, r(p), p) BY <1>2, <1>7
<1> HIDE DEF good
<1>9. steps = r(n).steps /\ steps \in Seq(Step) /\ Len(steps) = n
  <2>1. steps = r(n).steps BY <1>1 DEF RetentionPlan, r, n
  <2> QED BY <1>2, <1>8, <2>1 DEF Ledger, Sound
<1>10. \A p \in 1..n : steps[p] = r(p).steps[p]
  <2> TAKE p \in 1..n
  <2> DEFINE same == {q \in Nat : p <= q /\ q <= n => r(q).steps[p] = r(p).steps[p]}
  <2>1. 0 \in same OBVIOUS
  <2>2. ASSUME NEW q \in Nat, q \in same PROVE q + 1 \in same
    <3> SUFFICES ASSUME p <= q + 1, q + 1 <= n PROVE r(q + 1).steps[p] = r(p).steps[p]
      OBVIOUS
    <3>1. CASE p = q + 1 BY <3>1
    <3>2. CASE p <= q
      <4>1. q + 1 \in 1..n /\ (q + 1) - 1 = q /\ q \in 0..n /\ p \in 1..q BY <1>2, <3>2
      <4>2. r(q + 1).steps[p] = r(q).steps[p]
        <5>1. r(q) \in Ledger(K) /\ Sound(keys, r(q), q) BY <1>8, <4>1
        <5> QED BY <1>4, <4>1, <5>1
      <4> QED BY <1>2, <2>2, <3>2, <4>2
    <3> QED BY <1>2, <3>1, <3>2
  <2>3. n \in same
    <3> HIDE DEF same
    <3> QED BY <1>2, <2>1, <2>2, Induct
  <2> QED BY <1>2, <1>9, <2>3
<1> DEFINE due == [p \in 0..n |-> DueAt(keys, K, r(p), p)]
           bytes == [p \in 0..n |-> r(p).bytes]
<1>11. due \in [0..n -> [K -> Nat]]
  <2>1. ASSUME NEW p \in 0..n PROVE DueAt(keys, K, r(p), p) \in [K -> Nat]
    <3>1. \A k \in K : Cardinality(Later(keys, k, p)) \in Nat
      <4> TAKE k \in K
      <4>1. Later(keys, k, p) \subseteq 1..n BY <1>2 DEF Later
      <4>2. IsFiniteSet(1..n) BY <1>2, FS_Interval
      <4> HIDE DEF Later
      <4>3. IsFiniteSet(Later(keys, k, p)) BY <4>1, <4>2, FS_Subset
      <4> QED BY <4>3, FS_CardinalityType
    <3> QED BY <3>1 DEF DueAt
  <2> QED BY <2>1
<1>12. bytes \in [0..n -> Int] /\ bytes[0] = 0
  <2>1. \A p \in 0..n : r(p).bytes \in Int BY <1>8 DEF Ledger
  <2>2. r(0).bytes = 0 BY <1>3 DEF NoneKept
  <2> QED BY <1>2, <2>1, <2>2
<1>13. \A k \in K : due[0][k] = 0 /\ due[n][k] = 0
  <2>1. r(0).kept = {} BY <1>3 DEF NoneKept
  <2>2. r(n).kept = {}
    <3>1. \A k \in K : Later(keys, k, n) = {} BY <1>2 DEF Later
    <3>2. r(n) \in Ledger(K) /\ Sound(keys, r(n), n) BY <1>2, <1>8
    <3> QED BY <3>1, <3>2 DEF Sound, Ledger
  <2> QED BY <1>2, <2>1, <2>2 DEF DueAt
<1>14. \A i \in 1..n : Turns(segment[i], due[i - 1], bytes[i - 1], due[i], bytes[i])
  <2> TAKE i \in 1..n
  <2>1. i \in 0..n /\ i - 1 \in 0..n BY <1>2
  <2>2. segment[i] = SegmentSpan(r(i).steps[i], keys[i], sizes[i]) BY <1>10 DEF n
  <2>3. Turns(SegmentSpan(r(i).steps[i], keys[i], sizes[i]), DueAt(keys, K, r(i - 1), i - 1),
              r(i - 1).bytes, DueAt(keys, K, r(i), i), r(i).bytes)
    BY <1>4, <1>8, <2>1
  <2> QED BY <2>1, <2>2, <2>3
<1> HIDE DEF due, bytes, segment
<1>15. Keeping(n, K, segment, due, bytes) BY <1>11, <1>12, <1>13, <1>14 DEF Keeping
<1>16. \A p \in 1..n : segment[p] = SegmentSpan(steps[p], keys[p], sizes[p]) BY DEF segment
<1> QED BY <1>9, <1>15, <1>16 DEF n

(* The segments are collected in the order of the spans.                   *)
LEMMA SegmentsSolve ==
    ASSUME NEW layout \in Layouts
    PROVE  \E fold :
              /\ Segments(layout) = fold[1..Len(layout)]
              /\ fold[{}] = <<>>
              /\ \A i \in 1..Len(layout) :
                   fold[1..i] = IF IsSegment(layout[i]) THEN Append(fold[1..(i - 1)], layout[i])
                                ELSE fold[1..(i - 1)]
<1> DEFINE S == DOMAIN layout
           T == Seq(Spanned)
           Grown(segs, s) == IF IsSegment(s) THEN Append(segs, s) ELSE segs
           pick == [s \in SUBSET S |-> Max(s)]
           step == [x \in S \X T |-> Grown(x[2], layout[x[1]])]
           Of(f) == [s \in SUBSET S |-> IF s = {} THEN <<>> ELSE
                        LET x == Max(s) IN
                        IF IsSegment(layout[x]) THEN Append(f[s \ {x}], layout[x]) ELSE f[s \ {x}]]
           fold == CHOOSE f : f = Of(f)
<1>1. S = 1..Len(layout) /\ Len(layout) \in Nat /\ \A i \in S : layout[i] \in Spanned
  BY DEF Layouts
<1>2. Picks(pick, S) BY <1>1, MaxIn DEF Picks
<1>3. step \in [S \X T -> T]
  <2>1. \A x \in S : \A segs \in T : Grown(segs, layout[x]) \in T BY <1>1
  <2> HIDE DEF S, T, Grown
  <2> QED BY <2>1
<1>4. IsFiniteSet(S) BY <1>1, FS_Interval
<1>5. <<>> \in T OBVIOUS
<1>6. PICK f : IsFold(f, S, T, <<>>, step, pick)
  <2> HIDE DEF S, T, pick, step
  <2> QED BY <1>2, <1>3, <1>4, <1>5, FoldExists
<1>7. f = Of(f)
  <2>1. ASSUME NEW s \in SUBSET S, s # {}
        PROVE  f[s] = Grown(f[s \ {Max(s)}], layout[Max(s)])
    <3>1. pick[s] = Max(s) /\ pick[s] \in S /\ f[s \ {pick[s]}] \in T
      BY <1>2, <1>6, <2>1 DEF Picks, IsFold
    <3>2. step[<<pick[s], f[s \ {pick[s]}]>>] = Grown(f[s \ {pick[s]}], layout[pick[s]])
      <4> HIDE DEF pick, S, T, Grown
      <4> QED BY <3>1
    <3> HIDE DEF step, pick, T, Grown
    <3> QED BY <1>6, <2>1, <3>1, <3>2 DEF IsFold
  <2>2. f[{}] = <<>> BY <1>6 DEF IsFold
  <2> HIDE DEF S, T
  <2> QED BY <1>6, <2>1, <2>2 DEF IsFold
<1>8. fold = Of(fold)
  <2> HIDE DEF Of
  <2> QED BY <1>7
<1>9. Segments(layout) = fold[S] BY DEF Segments, FoldLeft, MapThenFoldSet
<1> HIDE DEF fold
<1>10. fold[{}] = <<>> BY <1>8
<1>11. ASSUME NEW i \in 1..Len(layout) PROVE fold[1..i] = Grown(fold[1..(i - 1)], layout[i])
  <2>1. /\ Max(1..i) = i /\ (1..i) \ {i} = 1..(i - 1)
        /\ 1..i \in SUBSET S /\ 1..i # {}
    BY <1>1, TopIndex
  <2>2. fold[1..i] = Grown(fold[(1..i) \ {Max(1..i)}], layout[Max(1..i)])
    <3> HIDE DEF S
    <3> QED BY <1>8, <2>1
  <2> HIDE DEF Grown
  <2> QED BY <2>1, <2>2
<1> QED BY <1>1, <1>9, <1>10, <1>11

(* Some[i] of the first i spans are segments.                              *)
Counts(count, layout) ==
    LET segs == Segments(layout) IN
    /\ count \in [0..Len(layout) -> 0..Len(segs)]
    /\ count[0] = 0 /\ count[Len(layout)] = Len(segs)
    /\ \A i \in 1..Len(layout) :
         IF IsSegment(layout[i])
         THEN /\ count[i] = count[i - 1] + 1 /\ count[i] \in 1..Len(segs)
              /\ segs[count[i]] = layout[i]
         ELSE count[i] = count[i - 1]

LEMMA SegmentsCount ==
    ASSUME NEW layout \in Layouts
    PROVE  /\ Segments(layout) \in Seq(Spanned)
           /\ \E count : Counts(count, layout)
<1> DEFINE n == Len(layout)
           segs == Segments(layout)
<1>0. n \in Nat /\ \A i \in 1..n : layout[i] \in Spanned BY DEF Layouts
<1>1. PICK fold :
        /\ segs = fold[1..n]
        /\ fold[{}] = <<>>
        /\ \A i \in 1..n :
             fold[1..i] = IF IsSegment(layout[i]) THEN Append(fold[1..(i - 1)], layout[i])
                          ELSE fold[1..(i - 1)]
  BY SegmentsSolve
<1> DEFINE g(i) == fold[1..i]
           good == {i \in Nat : i <= n => g(i) \in Seq(Spanned)}
<1>2. g(0) = <<>>
  <2>1. 1..0 = {} OBVIOUS
  <2> QED BY <1>1, <2>1
<1>3. segs = g(n) BY <1>1
<1>4. \A i \in 1..n : g(i) = IF IsSegment(layout[i]) THEN Append(g(i - 1), layout[i]) ELSE g(i - 1)
  BY <1>1
<1> HIDE DEF g, n, segs
<1>5. 0 \in good
  <2>1. <<>> \in Seq(Spanned) OBVIOUS
  <2> QED BY <1>2, <2>1
<1>6. ASSUME NEW i \in Nat, i \in good PROVE i + 1 \in good
  <2> SUFFICES ASSUME i + 1 <= n PROVE g(i + 1) \in Seq(Spanned)
    OBVIOUS
  <2>1. i + 1 \in 1..n /\ (i + 1) - 1 = i /\ g(i) \in Seq(Spanned) BY <1>0, <1>6
  <2>2. g(i + 1) = IF IsSegment(layout[i + 1]) THEN Append(g(i), layout[i + 1]) ELSE g(i)
    BY <1>4, <2>1
  <2>3. layout[i + 1] \in Spanned BY <1>0, <2>1
  <2>4. \A q \in Seq(Spanned), s \in Spanned : Append(q, s) \in Seq(Spanned) OBVIOUS
  <2>5. Append(g(i), layout[i + 1]) \in Seq(Spanned) BY <2>1, <2>3, <2>4
  <2> QED BY <2>1, <2>2, <2>5
<1>7. \A i \in 0..n : g(i) \in Seq(Spanned)
  <2>1. Nat \subseteq good
    <3> HIDE DEF good
    <3> QED BY <1>5, <1>6, Induct
  <2> QED BY <1>0, <2>1
(* What is collected stays in its place.                                   *)
<1>8. \A i \in 0..n : Len(g(i)) <= Len(segs) /\ \A p \in 1..Len(g(i)) : segs[p] = g(i)[p]
  <2> DEFINE stays == {d \in Nat : d <= n =>
                        /\ Len(g(n - d)) <= Len(segs)
                        /\ \A p \in 1..Len(g(n - d)) : segs[p] = g(n - d)[p]}
  <2>1. 0 \in stays
    <3>1. n - 0 = n /\ g(n) \in Seq(Spanned) BY <1>0, <1>7
    <3> QED BY <1>3, <3>1
  <2>2. ASSUME NEW d \in Nat, d \in stays PROVE d + 1 \in stays
    <3> SUFFICES ASSUME d + 1 <= n
                 PROVE  /\ Len(g(n - (d + 1))) <= Len(segs)
                        /\ \A p \in 1..Len(g(n - (d + 1))) : segs[p] = g(n - (d + 1))[p]
      OBVIOUS
    <3> DEFINE i == n - d
    <3>1. i \in 1..n /\ n - (d + 1) = i - 1 /\ i - 1 \in 0..n /\ i \in 0..n /\ d <= n BY <1>0
    <3>2. Len(g(i)) <= Len(segs) /\ \A p \in 1..Len(g(i)) : segs[p] = g(i)[p] BY <2>2, <3>1
    <3>3. g(i) = IF IsSegment(layout[i]) THEN Append(g(i - 1), layout[i]) ELSE g(i - 1)
      BY <1>4, <3>1
    <3>4. g(i - 1) \in Seq(Spanned) /\ layout[i] \in Spanned BY <1>0, <1>7, <3>1
    <3> HIDE DEF i
    <3>5. Len(segs) \in Nat
      <4>1. g(n) \in Seq(Spanned) BY <1>0, <1>7
      <4> QED BY <1>3, <4>1
    <3>6. /\ Len(g(i - 1)) <= Len(g(i))
          /\ \A p \in 1..Len(g(i - 1)) : p \in 1..Len(g(i)) /\ g(i)[p] = g(i - 1)[p]
      BY <3>3, <3>4
    <3>7. Len(g(i - 1)) \in Nat /\ Len(g(i)) \in Nat BY <1>7, <3>1
    <3> QED BY <3>1, <3>2, <3>5, <3>6, <3>7
  <2>3. Nat \subseteq stays
    <3> HIDE DEF stays
    <3> QED BY <2>1, <2>2, Induct
  <2>4. \A i \in 0..n : n - i \in Nat /\ n - i <= n /\ n - (n - i) = i BY <1>0
  <2> QED BY <2>3, <2>4
<1> DEFINE count == [i \in 0..n |-> Len(g(i))]
<1>9. segs \in Seq(Spanned) BY <1>0, <1>3, <1>7
<1>10. count \in [0..n -> 0..Len(segs)]
  <2>1. \A i \in 0..n : Len(g(i)) \in 0..Len(segs) BY <1>7, <1>8
  <2> QED BY <2>1
<1>11. count[0] = 0 /\ count[n] = Len(segs) BY <1>0, <1>2, <1>3
<1>12. ASSUME NEW i \in 1..n
       PROVE  IF IsSegment(layout[i])
              THEN /\ count[i] = count[i - 1] + 1 /\ count[i] \in 1..Len(segs)
                   /\ segs[count[i]] = layout[i]
              ELSE count[i] = count[i - 1]
  <2>1. i \in 0..n /\ i - 1 \in 0..n BY <1>0
  <2>2. count[i] = Len(g(i)) /\ count[i - 1] = Len(g(i - 1)) BY <2>1
  <2>3. g(i - 1) \in Seq(Spanned) /\ layout[i] \in Spanned BY <1>0, <1>7, <2>1
  <2>4. g(i) = IF IsSegment(layout[i]) THEN Append(g(i - 1), layout[i]) ELSE g(i - 1) BY <1>4
  <2>5. Len(g(i)) <= Len(segs) /\ \A p \in 1..Len(g(i)) : segs[p] = g(i)[p] BY <1>8, <2>1
  <2> HIDE DEF count
  <2>6. CASE IsSegment(layout[i])
    <3>1. g(i) = Append(g(i - 1), layout[i]) BY <2>4, <2>6
    <3>2. Len(g(i)) = Len(g(i - 1)) + 1 /\ g(i)[Len(g(i))] = layout[i]
          /\ Len(g(i)) \in Nat \ {0}
      BY <2>3, <3>1
    <3>3. Len(segs) \in Nat BY <1>9
    <3> QED BY <2>2, <2>5, <2>6, <3>2, <3>3
  <2>7. CASE ~IsSegment(layout[i]) BY <2>2, <2>4, <2>7
  <2> QED BY <2>6, <2>7
<1> HIDE DEF count
<1>13. Counts(count, layout) BY <1>10, <1>11, <1>12 DEF Counts, n, segs
<1> QED BY <1>9, <1>13 DEF segs

(* What the plan does with a span of the layout, given the segment's step. *)
Follows(span, s, step) ==
    /\ span.key = s.key /\ span.len = s.len
    /\ ~IsSegment(s) => span.do = "lit"
    /\ IsSegment(s) /\ step.fetch => span.do = "fetch" /\ span.retain = step.retain
    /\ IsSegment(s) /\ ~step.fetch => span.do = "replay"

(* The plan has a span for each of the layout, that does what its step     *)
(* says.                                                                   *)
LEMMA LaidFollows ==
    ASSUME NEW layout \in Layouts, NEW count, Counts(count, layout)
    PROVE  /\ Len(Laid(layout).spans) = Len(layout)
           /\ \A i \in 1..Len(layout) :
                Follows(Laid(layout).spans[i], layout[i], StepsFor(layout)[count[i]])
<1> DEFINE n == Len(layout)
           R == {0} \cup {StepsFor(layout)[k].retain : k \in Nat}
           steps == StepsFor(layout)
<1>0. n \in Nat /\ \A i \in 1..n : layout[i] \in Spanned BY DEF Layouts
<1>1. PICK fold :
        /\ Laid(layout) = fold[1..n]
        /\ fold[{}] = Unplaced
        /\ \A i \in 1..n : fold[1..i] = Place(steps, fold[1..(i - 1)], layout[i])
        /\ \A i \in 0..n : fold[1..i] \in RightLaying(R)
        /\ \A i \in 1..n : fold[1..i].at = fold[1..(i - 1)].at + layout[i].len
  BY LaidSolves
<1> DEFINE p(i) == fold[1..i]
<1>2. p(0) = Unplaced
  <2>1. 1..0 = {} OBVIOUS
  <2> QED BY <1>1, <2>1
<1>3. Laid(layout) = p(n) BY <1>1
<1>4. \A i \in 1..n : p(i) = Place(steps, p(i - 1), layout[i]) BY <1>1
<1>5. \A i \in 0..n : p(i).seg \in Nat /\ p(i).spans \in Seq(PlanSpan(R))
  <2>1. \A i \in 0..n : p(i) \in RightLaying(R) BY <1>1
  <2> QED BY <2>1 DEF RightLaying, Laying
<1> HIDE DEF p, n, R, steps
(* One placement.                                                          *)
<1>6. ASSUME NEW i \in 1..n
      PROVE  /\ Len(p(i).spans) = Len(p(i - 1).spans) + 1
             /\ \A j \in 1..Len(p(i - 1).spans) : p(i).spans[j] = p(i - 1).spans[j]
             /\ Follows(p(i).spans[Len(p(i).spans)], layout[i], steps[p(i - 1).seg + 1])
             /\ p(i).seg = IF IsSegment(layout[i]) THEN p(i - 1).seg + 1 ELSE p(i - 1).seg
  <2> DEFINE q == p(i - 1)
             s == layout[i]
             step == steps[q.seg + 1]
             span(do, r) == [do |-> do, at |-> q.at, len |-> s.len, key |-> s.key, retain |-> r]
             seg == q.seg + (IF IsSegment(s) THEN 1 ELSE 0)
             placed(do, r, ranges) == [at |-> q.at + s.len, seg |-> seg,
                                       spans |-> Append(q.spans, span(do, r)), ranges |-> ranges]
  <2>1. i \in 0..n /\ i - 1 \in 0..n BY <1>0
  <2>2. \/ ~IsSegment(s) /\ p(i) = placed("lit", 0, q.ranges)
        \/ /\ IsSegment(s) /\ step.fetch
           /\ p(i) = placed("fetch", step.retain, WithRange(q.ranges, q.at, s.len))
        \/ IsSegment(s) /\ ~step.fetch /\ p(i) = placed("replay", 0, q.ranges)
    BY <1>4 DEF Place
  <2>3. PICK new : /\ p(i).spans = Append(q.spans, new) /\ Follows(new, s, step)
                   /\ p(i).seg = seg
    <3>1. ASSUME NEW do, NEW r, NEW ranges, p(i) = placed(do, r, ranges)
          PROVE  p(i).spans = Append(q.spans, span(do, r)) /\ p(i).seg = seg
      BY <3>1
    <3>2. ASSUME NEW do, NEW r
          PROVE  /\ span(do, r).do = do /\ span(do, r).key = s.key /\ span(do, r).len = s.len
                 /\ span(do, r).retain = r
      OBVIOUS
    <3> HIDE DEF placed, span, seg
    <3>3. CASE ~IsSegment(s) /\ p(i) = placed("lit", 0, q.ranges)
      BY <3>1, <3>2, <3>3 DEF Follows
    <3>4. CASE /\ IsSegment(s) /\ step.fetch
               /\ p(i) = placed("fetch", step.retain, WithRange(q.ranges, q.at, s.len))
      BY <3>1, <3>2, <3>4 DEF Follows
    <3>5. CASE IsSegment(s) /\ ~step.fetch /\ p(i) = placed("replay", 0, q.ranges)
      BY <3>1, <3>2, <3>5 DEF Follows
    <3> QED BY <2>2, <3>3, <3>4, <3>5
  <2>4. q.spans \in Seq(PlanSpan(R)) /\ q.seg \in Nat BY <1>5, <2>1
  <2>5. /\ Len(Append(q.spans, new)) = Len(q.spans) + 1
        /\ \A j \in 1..Len(q.spans) : Append(q.spans, new)[j] = q.spans[j]
        /\ Append(q.spans, new)[Len(q.spans) + 1] = new
    <3> HIDE DEF q
    <3>1. \A sq : sq \in Seq(PlanSpan(R)) => \A x :
            /\ Len(Append(sq, x)) = Len(sq) + 1 /\ Append(sq, x)[Len(sq) + 1] = x
            /\ \A j \in 1..Len(sq) : Append(sq, x)[j] = sq[j]
      OBVIOUS
    <3> QED BY <2>4, <3>1
  <2>6. p(i).seg = IF IsSegment(s) THEN q.seg + 1 ELSE q.seg BY <2>3, <2>4
  <2> QED BY <2>3, <2>5, <2>6
<1> DEFINE good == {i \in Nat : i <= n => Len(p(i).spans) = i /\ p(i).seg = count[i]}
<1>7. /\ count[0] = 0
      /\ \A i \in 1..n : count[i] = IF IsSegment(layout[i]) THEN count[i - 1] + 1 ELSE count[i - 1]
  BY DEF Counts, n
<1>8. 0 \in good
  <2>1. Unplaced.seg = 0 /\ Unplaced.spans = <<>> BY DEF Unplaced
  <2>2. Len(p(0).spans) = 0 /\ p(0).seg = 0 BY <1>2, <2>1
  <2> QED BY <1>7, <2>2
<1>9. ASSUME NEW i \in Nat, i \in good PROVE i + 1 \in good
  <2> SUFFICES ASSUME i + 1 <= n
               PROVE  Len(p(i + 1).spans) = i + 1 /\ p(i + 1).seg = count[i + 1]
    OBVIOUS
  <2>1. i + 1 \in 1..n /\ (i + 1) - 1 = i /\ Len(p(i).spans) = i /\ p(i).seg = count[i]
    BY <1>0, <1>9
  <2> QED BY <1>6, <1>7, <2>1
<1>10. \A i \in 0..n : Len(p(i).spans) = i /\ p(i).seg = count[i]
  <2>1. Nat \subseteq good
    <3> HIDE DEF good
    <3> QED BY <1>8, <1>9, Induct
  <2> QED BY <1>0, <2>1
<1> HIDE DEF good
<1>11. ASSUME NEW i \in 1..n
       PROVE  Follows(p(i).spans[i], layout[i], steps[count[i]])
  <2>1. i \in 0..n /\ i - 1 \in 0..n BY <1>0
  <2>2. Follows(p(i).spans[i], layout[i], steps[count[i - 1] + 1]) BY <1>6, <1>10, <2>1
  <2>3. CASE IsSegment(layout[i])
    <3>1. count[i] = count[i - 1] + 1 BY <1>7, <2>3
    <3> QED BY <2>2, <3>1
  <2>4. CASE ~IsSegment(layout[i]) BY <2>2, <2>4 DEF Follows
  <2> QED BY <2>3, <2>4
<1>12. \A i \in 1..n : p(n).spans[i] = p(i).spans[i]
  <2> TAKE i \in 1..n
  <2> DEFINE same == {j \in Nat : i <= j /\ j <= n => p(j).spans[i] = p(i).spans[i]}
  <2>1. 0 \in same OBVIOUS
  <2>2. ASSUME NEW j \in Nat, j \in same PROVE j + 1 \in same
    <3> SUFFICES ASSUME i <= j + 1, j + 1 <= n PROVE p(j + 1).spans[i] = p(i).spans[i]
      OBVIOUS
    <3>1. CASE i = j + 1 BY <3>1
    <3>2. CASE i <= j
      <4>1. j + 1 \in 1..n /\ (j + 1) - 1 = j /\ j \in 0..n /\ i \in 1..j BY <1>0, <3>2
      <4>2. p(j + 1).spans[i] = p(j).spans[i] BY <1>6, <1>10, <4>1
      <4> QED BY <1>0, <2>2, <3>2, <4>2
    <3> QED BY <1>0, <3>1, <3>2
  <2>3. n \in same
    <3> HIDE DEF same
    <3> QED BY <1>0, <2>1, <2>2, Induct
  <2> QED BY <1>0, <2>3
<1>13. Len(p(n).spans) = n /\ \A i \in 1..n : Follows(p(n).spans[i], layout[i], steps[count[i]])
  BY <1>0, <1>10, <1>11, <1>12
<1> QED BY <1>3, <1>13 DEF n, steps

(* What a span may be called, a fallback's included.                       *)
Keys == STRING \cup {"none"}

(* A key has one length in what is fetched and replayed.                   *)
Lengths(spans) ==
    \A i, j \in DOMAIN spans :
       spans[i].do # "lit" /\ spans[j].do # "lit" /\ spans[i].key = spans[j].key =>
          spans[i].len = spans[j].len


LEMMA TurnsAlike ==
    ASSUME NEW s, NEW t, NEW d, NEW b, NEW e, NEW c, Turns(s, d, b, e, c),
           s.do = t.do, s.key = t.key, s.len = t.len, s.do = "fetch" => s.retain = t.retain
    PROVE  Turns(t, d, b, e, c)
BY DEF Turns

LEMMA TurnsNothing ==
    ASSUME NEW s, NEW d, NEW b, NEW e, NEW c, s.do = "lit" \/ (s.do = "fetch" /\ s.retain = 0),
           s.key \in DOMAIN d, \A k \in DOMAIN d : e[k] = d[k], c = b, c <= Budget
    PROVE  Turns(s, d, b, e, c)
BY DEF Turns

LEMMA LaidKeeps ==
    ASSUME NEW layout \in Layouts, Usable(layout)
    PROVE  LET spans == Laid(layout).spans IN
           /\ Lengths(spans) /\ \A i \in 1..Len(spans) : spans[i].key \in Keys
           /\ \E due, bytes : Keeping(Len(spans), Keys, spans, due, bytes)
<1> DEFINE n == Len(layout)
           segs == Segments(layout)
           m == Len(segs)
           spans == Laid(layout).spans
           keys == [i \in DOMAIN segs |-> segs[i].key]
           sizes == [i \in DOMAIN segs |-> segs[i].len]
           steps == StepsFor(layout)
<1>0. n \in Nat /\ \A i \in 1..n : layout[i] \in Spanned BY DEF Layouts
<1>1. segs \in Seq(Spanned) BY SegmentsCount
<1>2. PICK count : Counts(count, layout) BY SegmentsCount
<1>3. /\ Len(spans) = n
      /\ \A i \in 1..n : Follows(spans[i], layout[i], steps[count[i]])
  BY <1>2, LaidFollows
<1>4. /\ m \in Nat /\ DOMAIN segs = 1..m /\ \A i \in 1..m : segs[i] \in Spanned
      /\ \A i \in 1..m : segs[i].key \in Keys /\ segs[i].len \in Nat
  <2>1. m \in Nat /\ DOMAIN segs = 1..m /\ \A i \in 1..m : segs[i] \in Spanned BY <1>1
  <2> HIDE DEF segs, m
  <2> QED BY <2>1 DEF Spanned, Keys
<1>5. /\ keys \in Seq(Keys) /\ Len(keys) = m
      /\ \A i \in 1..m : keys[i] = segs[i].key /\ sizes[i] = segs[i].len
  <2> HIDE DEF segs, m
  <2>1. keys \in [1..m -> Keys] BY <1>4
  <2> QED BY <1>4, <2>1
<1>6. steps = RetentionPlan(keys, sizes, Budget) BY DEF StepsFor
<1>7. /\ count \in [0..n -> 0..m] /\ count[0] = 0 /\ count[n] = m
      /\ \A i \in 1..n :
           IF IsSegment(layout[i])
           THEN /\ count[i] = count[i - 1] + 1 /\ count[i] \in 1..m
                /\ segs[count[i]] = layout[i]
           ELSE count[i] = count[i - 1]
  BY <1>2 DEF Counts
<1>8. \A i, j \in 1..m : segs[i].key = segs[j].key => segs[i].len = segs[j].len
  BY <1>4 DEF Usable
<1> HIDE DEF segs, m, spans, keys, sizes, steps, n
<1>9. PICK segment, due, bytes :
        /\ \A p \in 1..m : segment[p] = SegmentSpan(steps[p], keys[p], sizes[p])
        /\ Keeping(m, Keys, segment, due, bytes)
  <2>1. \A p \in 1..Len(keys) : sizes[p] \in Nat BY <1>4, <1>5
  <2>2. \E segment, due, bytes :
          /\ \A p \in 1..Len(keys) : segment[p] = SegmentSpan(steps[p], keys[p], sizes[p])
          /\ Keeping(Len(keys), Keys, segment, due, bytes)
    BY <1>5, <1>6, <2>1, RetentionKeeps
  <2> QED BY <1>5, <2>2
<1>10. /\ due \in [0..m -> [Keys -> Nat]] /\ bytes \in [0..m -> Int]
       /\ bytes[0] = 0 /\ \A k \in Keys : due[0][k] = 0 /\ due[m][k] = 0
       /\ \A c \in 1..m : Turns(SegmentSpan(steps[c], keys[c], sizes[c]),
                                due[c - 1], bytes[c - 1], due[c], bytes[c])
  BY <1>9 DEF Keeping
<1>11. \A c \in 0..m : bytes[c] <= Budget
  <2> TAKE c \in 0..m
  <2>1. CASE c = 0 BY <1>10, <2>1, TransferAssumption
  <2>2. CASE c \in 1..m BY <1>10, <2>2 DEF Turns
  <2> QED BY <1>4, <2>1, <2>2
<1> DEFINE d == [i \in 0..n |-> due[count[i]]]
           b == [i \in 0..n |-> bytes[count[i]]]
<1>12. d \in [0..n -> [Keys -> Nat]] /\ b \in [0..n -> Int] BY <1>7, <1>10
<1>13. b[0] = 0 /\ \A k \in Keys : d[0][k] = 0 /\ d[n][k] = 0
  <2>1. d[0] = due[0] /\ d[n] = due[m] /\ b[0] = bytes[0] BY <1>0, <1>7
  <2> HIDE DEF d, b
  <2> QED BY <1>10, <2>1
<1>14. ASSUME NEW i \in 1..n PROVE Turns(spans[i], d[i - 1], b[i - 1], d[i], b[i])
  <2>1. i \in 0..n /\ i - 1 \in 0..n /\ count[i] \in 0..m BY <1>0, <1>7
  <2>2. Follows(spans[i], layout[i], steps[count[i]]) BY <1>3
  <2>3. CASE IsSegment(layout[i])
    <3> DEFINE c == count[i]
               s == SegmentSpan(steps[c], keys[c], sizes[c])
    <3>1. c \in 1..m /\ count[i - 1] = c - 1 /\ segs[c] = layout[i] BY <1>0, <1>4, <1>7, <2>1, <2>3
    <3>2. Turns(s, d[i - 1], b[i - 1], d[i], b[i])
      <4>1. d[i] = due[c] /\ b[i] = bytes[c] /\ d[i - 1] = due[c - 1] /\ b[i - 1] = bytes[c - 1]
        BY <2>1, <3>1
      <4> QED BY <1>10, <3>1, <4>1
    <3>3. s.key = layout[i].key /\ s.len = layout[i].len /\ s.retain = steps[c].retain
          /\ s.do = IF steps[c].fetch THEN "fetch" ELSE "replay"
      BY <1>5, <3>1 DEF SegmentSpan
    <3> HIDE DEF c, s
    <3>4. s.do = spans[i].do /\ s.key = spans[i].key /\ s.len = spans[i].len
          /\ (s.do = "fetch" => s.retain = spans[i].retain)
      BY <2>2, <2>3, <3>3 DEF Follows, c
    <3> HIDE DEF d, b
    <3> QED BY <3>2, <3>4, TurnsAlike
  <2>4. CASE ~IsSegment(layout[i])
    <3>1. count[i] = count[i - 1] BY <1>7, <2>4
    <3>2. d[i] = d[i - 1] /\ b[i] = b[i - 1] /\ b[i] <= Budget BY <1>11, <2>1, <3>1
    <3>3. spans[i].do = "lit" BY <2>2, <2>4 DEF Follows
    <3> HIDE DEF d, b
    <3> QED BY <3>2, <3>3 DEF Turns
  <2> QED BY <2>3, <2>4
<1>15. Keeping(n, Keys, spans, d, b)
  <2> HIDE DEF d, b
  <2> QED BY <1>12, <1>13, <1>14 DEF Keeping
<1>16. \A i \in 1..n : /\ spans[i].key = layout[i].key /\ spans[i].len = layout[i].len
                       /\ spans[i].do # "lit" => count[i] \in 1..m /\ segs[count[i]] = layout[i]
  BY <1>3, <1>7 DEF Follows
<1>17. DOMAIN spans = 1..n
  <2>1. Right(Laid(layout)) BY LaidFits
  <2> QED BY <1>3, <2>1 DEF Right, Tiles, spans
<1>18. Lengths(spans)
  <2> SUFFICES ASSUME NEW i \in 1..n, NEW j \in 1..n, spans[i].do # "lit", spans[j].do # "lit",
                      spans[i].key = spans[j].key
               PROVE  spans[i].len = spans[j].len
    BY <1>17 DEF Lengths
  <2>1. /\ segs[count[i]].key = segs[count[j]].key /\ count[i] \in 1..m /\ count[j] \in 1..m
        /\ spans[i].len = segs[count[i]].len /\ spans[j].len = segs[count[j]].len
    BY <1>16
  <2> QED BY <1>8, <2>1
<1>19. \A i \in 1..n : spans[i].key \in Keys BY <1>0, <1>16 DEF Spanned, Keys
<1> HIDE DEF d, b
<1> QED BY <1>3, <1>15, <1>18, <1>19 DEF spans

LEMMA PlanKeeps ==
    ASSUME NEW j \in Jobs
    PROVE  LET spans == PlanFor(j).spans IN
           /\ Lengths(spans) /\ \A i \in 1..Len(spans) : spans[i].key \in Keys
           /\ \E due, bytes : Keeping(Len(spans), Keys, spans, due, bytes)
<1>1. CASE j.layout # <<>> /\ Usable(j.layout)
  <2>1. PlanFor(j).spans = Laid(j.layout).spans BY <1>1 DEF PlanFor, ManifestPlan
  <2>2. j.layout \in Layouts BY TransferAssumption
  <2> QED BY <1>1, <2>1, <2>2, LaidKeeps
<1>2. CASE ~(j.layout # <<>> /\ Usable(j.layout))
  <2> DEFINE span == [do |-> "fetch", at |-> j.start, len |-> j.end - j.start,
                      key |-> "none", retain |-> 0]
             spans == <<span>>
             due == [i \in 0..1 |-> [k \in Keys |-> 0]]
             bytes == [i \in 0..1 |-> 0]
  <2>1. PlanFor(j).spans = spans BY <1>2 DEF PlanFor, FallbackPlan
  <2>2. span.do = "fetch" /\ span.key \in Keys /\ span.retain = 0
    <3>1. "none" \in Keys BY DEF Keys
    <3>2. span.do = "fetch" /\ span.key = "none" /\ span.retain = 0 OBVIOUS
    <3> QED BY <3>1, <3>2
  <2> HIDE DEF span
  <2>3. Len(spans) = 1 /\ DOMAIN spans = 1..1 /\ spans[1] = span OBVIOUS
  <2> HIDE DEF spans
  <2>4. Lengths(spans) BY <2>3 DEF Lengths
  <2>5. \A i \in 1..Len(spans) : spans[i].key \in Keys
    <3>1. \A i \in 1..1 : i = 1 OBVIOUS
    <3> QED BY <2>2, <2>3, <3>1
  <2>6. Keeping(1, Keys, spans, due, bytes)
    <3>1. /\ due \in [0..1 -> [Keys -> Nat]] /\ bytes \in [0..1 -> Int]
          /\ bytes[0] = 0 /\ bytes[1] = 0
          /\ \A k \in Keys : due[0][k] = 0 /\ due[1][k] = 0
      OBVIOUS
    <3> HIDE DEF due, bytes
    <3>2. Turns(span, due[0], bytes[0], due[1], bytes[1])
      <4>1. DOMAIN due[0] = Keys BY <3>1
      <4>2. 0 <= Budget BY TransferAssumption
      <4>3. \A k \in Keys : due[1][k] = due[0][k] BY <3>1
      <4>4. bytes[1] = bytes[0] /\ bytes[1] <= Budget BY <3>1, <4>2
      <4> QED BY <2>2, <4>1, <4>3, <4>4, TurnsNothing
    <3>3. \A i \in 1..1 : i = 1 /\ i - 1 = 0 OBVIOUS
    <3>4. \A i \in 1..1 : Turns(spans[i], due[i - 1], bytes[i - 1], due[i], bytes[i])
      BY <2>3, <3>2, <3>3
    <3> QED BY <3>1, <3>4 DEF Keeping
  <2> HIDE DEF due, bytes
  <2> QED BY <2>1, <2>3, <2>4, <2>5, <2>6
<1> QED BY <1>1, <1>2

-----------------------------------------------------------------------------
(* What is held *)

Slot == [due : Nat, len : Nat, wrong : BOOLEAN]
Held(K) == [K -> Slot]

Weight(slot) == IF slot.due > 0 THEN slot.len ELSE 0
Kept(h) == MapThenSumSet(LAMBDA k : IF h[k].due > 0 THEN h[k].len ELSE 0, DOMAIN h)

LEMMA KeptSolves ==
    ASSUME NEW K, IsFiniteSet(K), NEW h \in Held(K)
    PROVE  \E f : Totals(f, K, [k \in K |-> Weight(h[k])]) /\ Kept(h) = f[K]
<1> DEFINE w == [k \in K |-> Weight(h[k])]
           pick == [s \in SUBSET K |-> Some(s)]
           step == [x \in K \X Nat |-> w[x[1]] + x[2]]
           Of(f) == [s \in SUBSET K |-> IF s = {} THEN 0 ELSE
                        LET x == CHOOSE y \in s : TRUE IN
                        (IF h[x].due > 0 THEN h[x].len ELSE 0) + f[s \ {x}]]
           fold == CHOOSE f : f = Of(f)
<1>0. DOMAIN h = K BY DEF Held
<1>1. \A k \in K : w[k] \in Nat /\ w[k] = IF h[k].due > 0 THEN h[k].len ELSE 0
  BY DEF Held, Slot, Weight
<1>2. Picks(pick, K) BY DEF Picks, Some
<1>3. step \in [K \X Nat -> Nat]
  <2> HIDE DEF w
  <2> QED BY <1>1
<1>4. PICK f : IsFold(f, K, Nat, 0, step, pick)
  <2> HIDE DEF pick, step
  <2> QED BY <1>2, <1>3, FoldExists
<1>5. f = Of(f)
  <2>1. ASSUME NEW s \in SUBSET K, s # {}
        PROVE  f[s] = (IF h[Some(s)].due > 0 THEN h[Some(s)].len ELSE 0) + f[s \ {Some(s)}]
    <3>1. /\ pick[s] = Some(s) /\ pick[s] \in K /\ f[s \ {pick[s]}] \in Nat
      BY <1>2, <1>4, <2>1 DEF Picks, IsFold
    <3>2. step[<<pick[s], f[s \ {pick[s]}]>>] = w[pick[s]] + f[s \ {pick[s]}]
      <4> HIDE DEF w, pick
      <4> QED BY <3>1
    <3> HIDE DEF step, pick, w
    <3> QED BY <1>1, <1>4, <2>1, <3>1, <3>2 DEF IsFold
  <2>2. f[{}] = 0 BY <1>4 DEF IsFold
  <2> QED BY <1>4, <2>1, <2>2 DEF IsFold, Some
<1>6. fold = Of(fold)
  <2> HIDE DEF Of
  <2> QED BY <1>5
<1>7. Kept(h) = fold[K] BY <1>0 DEF Kept, MapThenSumSet, MapThenFoldSet
<1> HIDE DEF fold
<1> DEFINE P == {s \in SUBSET K : fold[s] \in Nat}
<1>9. SUBSET K \subseteq P
  <2>1. ASSUME NEW s \in SUBSET K,
               \A t \in SUBSET K : Cardinality(t) < Cardinality(s) => t \in P
        PROVE  s \in P
    <3>1. CASE s = {} BY <1>6, <3>1
    <3>2. CASE s # {}
      <4>1. Some(s) \in s BY <3>2 DEF Some
      <4>2. s \ {Some(s)} \in P BY <2>1, <4>1, SmallerSet
      <4>3. fold[s] = w[Some(s)] + fold[s \ {Some(s)}] BY <1>1, <1>6, <3>2, <4>1 DEF Some
      <4>4. w[Some(s)] \in Nat BY <1>1, <4>1
      <4> HIDE DEF w
      <4> QED BY <4>2, <4>3, <4>4
    <3> QED BY <3>1, <3>2
  <2> HIDE DEF P
  <2> QED BY <2>1, InductOnSubsets
<1>8. Totals(fold, K, w)
  <2> SUFFICES ASSUME NEW s \in SUBSET K
               PROVE  fold[s] = IF s = {} THEN 0 ELSE fold[s \ {Some(s)}] + w[Some(s)]
    BY DEF Totals
  <2>1. s # {} => Some(s) \in K BY DEF Some
  <2>2. s # {} => fold[s] = (IF h[Some(s)].due > 0 THEN h[Some(s)].len ELSE 0)
                              + fold[s \ {Some(s)}]
    BY <1>6 DEF Some
  <2>3. fold[{}] = 0 BY <1>6
  <2>4. s # {} => fold[s \ {Some(s)}] \in Nat BY <1>9
  <2> HIDE DEF w
  <2> QED BY <1>1, <2>1, <2>2, <2>3, <2>4
<1> QED BY <1>7, <1>8

LEMMA TotalChanges ==
    ASSUME NEW K, IsFiniteSet(K), NEW f, NEW g, NEW w, NEW v, NEW k \in K,
           \A x \in K : w[x] \in Nat /\ v[x] \in Nat, \A x \in K : x # k => v[x] = w[x],
           Totals(f, K, w), Totals(g, K, v)
    PROVE  g[K] = f[K] - w[k] + v[k] /\ f[K] \in Nat /\ g[K] \in Nat
<1>1. Totals(f, K \ {k}, w) BY DEF Totals
<1>2. Totals(f, K \ {k}, v)
  <2> SUFFICES ASSUME NEW s \in SUBSET (K \ {k})
               PROVE  f[s] = IF s = {} THEN 0 ELSE f[s \ {Some(s)}] + v[Some(s)]
    BY DEF Totals
  <2>1. s # {} => Some(s) \in s BY DEF Some
  <2> QED BY <1>1, <2>1 DEF Totals
<1>3. f[K] = f[K \ {k}] + w[k] /\ f[K \ {k}] \in Nat BY <1>1, TotalAdds
<1>4. g[K] = f[K \ {k}] + v[k] BY <1>2, TotalAdds
<1> QED BY <1>3, <1>4

(* What is kept changes by one slot.                                       *)
LEMMA KeptChanges ==
    ASSUME NEW K, IsFiniteSet(K), NEW h \in Held(K), NEW e \in Held(K), NEW k \in K,
           \A x \in K : x # k => e[x] = h[x]
    PROVE  Kept(h) \in Nat /\ Kept(e) = Kept(h) - Weight(h[k]) + Weight(e[k])
<1> DEFINE w == [x \in K |-> Weight(h[x])]
           v == [x \in K |-> Weight(e[x])]
<1>1. PICK f : Totals(f, K, w) /\ Kept(h) = f[K] BY KeptSolves
<1>2. PICK g : Totals(g, K, v) /\ Kept(e) = g[K] BY KeptSolves
<1>3. /\ \A x \in K : w[x] \in Nat /\ v[x] \in Nat
      /\ \A x \in K : x # k => v[x] = w[x]
      /\ w[k] = Weight(h[k]) /\ v[k] = Weight(e[k])
  BY DEF Held, Slot, Weight
<1> HIDE DEF w, v
<1> QED BY <1>1, <1>2, <1>3, TotalChanges

LEMMA KeptNothing ==
    ASSUME NEW K, IsFiniteSet(K), NEW h \in Held(K), \A k \in K : h[k].due = 0
    PROVE  Kept(h) = 0
<1> DEFINE w == [x \in K |-> Weight(h[x])]
           none == [s \in SUBSET K |-> 0]
<1>1. PICK f : Totals(f, K, w) /\ Kept(h) = f[K] BY KeptSolves
<1>2. \A x \in K : w[x] = 0 BY DEF Weight
<1>3. Totals(none, K, w)
  <2> SUFFICES ASSUME NEW s \in SUBSET K
               PROVE  none[s] = IF s = {} THEN 0 ELSE none[s \ {Some(s)}] + w[Some(s)]
    BY DEF Totals
  <2>1. s # {} => w[Some(s)] = 0 BY <1>2 DEF Some
  <2> QED BY <2>1
<1>4. none[K] = 0 OBVIOUS
<1> HIDE DEF none, w
<1> QED BY <1>1, <1>3, <1>4, TotalsAgree

LEMMA HeldIsKept == HeldBytes = Kept(held) /\ HeldBytes' = Kept(held')
BY DEF HeldBytes, Kept, MapThenSumSet, MapThenFoldSet

-----------------------------------------------------------------------------
(* What is held follows the ledger of the plan, which never changes: the   *)
(* emitter stands between the two balances of its span.                    *)
Names == {s.key : s \in ToSet(plan.spans)}

FromPlan(k, len) ==
    \E i \in DOMAIN plan.spans :
       plan.spans[i].do # "lit" /\ plan.spans[i].key = k /\ plan.spans[i].len = len

Balanced(due, bytes) ==
    /\ Keeping(Len(plan.spans), Keys, plan.spans, due, bytes)
    /\ pc # "ended" =>
         /\ HeldBytes = bytes[emitter.span - 1]
         /\ \A k \in Names : held[k].due = due[emitter.span - 1][k]

Replaying ==
    /\ IsFiniteSet(Names) /\ Names \subseteq Keys /\ Lengths(plan.spans)
    /\ held \in Held(Names)
    /\ \A k \in Names : held[k].due > 0 => FromPlan(k, held[k].len)
    /\ HeldBytes <= Budget
    /\ ReplaysFindCopies
    /\ \E due, bytes : Balanced(due, bytes)

LEMMA ReplayingStands ==
    ASSUME Replaying, UNCHANGED <<plan, held, emitter>>, pc' # "ended" => pc # "ended",
           outcome' = outcome \/ outcome' \notin {"other", "completed"}
    PROVE  Replaying'
<1>1. HeldBytes' = HeldBytes BY HeldIsKept
<1>2. PICK due, bytes : Balanced(due, bytes) BY DEF Replaying
<1>3. Names' = Names BY DEF Names
<1>4. \A k, len : FromPlan(k, len)' <=> FromPlan(k, len) BY DEF FromPlan
<1>5. Balanced(due, bytes)' BY <1>1, <1>2, <1>3 DEF Balanced
<1>6. ReplaysFindCopies' BY <1>1 DEF Replaying, ReplaysFindCopies
<1> QED BY <1>1, <1>3, <1>4, <1>5, <1>6 DEF Replaying

LEMMA SpanTurns ==
    ASSUME IInv, Replaying, ~Done, NEW due, NEW bytes, Balanced(due, bytes)
    PROVE  LET i == emitter.span IN
           /\ i \in Nat /\ i \in 1..Len(plan.spans) /\ i \in DOMAIN plan.spans
           /\ Here = plan.spans[i] /\ Here.key \in Names
           /\ due[i - 1] \in [Keys -> Nat] /\ due[i] \in [Keys -> Nat]
           /\ bytes[i - 1] \in Int /\ bytes[i] \in Int
           /\ Turns(Here, due[i - 1], bytes[i - 1], due[i], bytes[i])
<1>1. Planned /\ TypeEmit BY Parts DEF IInv
<1>2. Len(plan.spans) \in Nat /\ DOMAIN plan.spans = 1..Len(plan.spans) BY <1>1, SpanFacts
<1>3. emitter.span \in 1..Len(plan.spans) BY <1>1, <1>2 DEF TypeEmit, Done
<1>4. emitter.span - 1 \in 0..Len(plan.spans) /\ emitter.span \in 0..Len(plan.spans)
  BY <1>2, <1>3
<1>5. Here.key \in Names BY <1>2, <1>3 DEF Names, Here, ToSet
<1>6. Keeping(Len(plan.spans), Keys, plan.spans, due, bytes) BY DEF Balanced
<1>7. Here = plan.spans[emitter.span] BY DEF Here
<1> QED BY <1>2, <1>3, <1>4, <1>5, <1>6, <1>7 DEF Keeping

(* A span is emitted, and what is held is what the ledger says after it.   *)
LEMMA EmitBalances ==
    ASSUME IInv, Replaying, pc = "pump", ~Done, NEW n, NEW wrong, Emit(n, wrong),
           NEW due, NEW bytes, Balanced(due, bytes),
           held' \in Held(Names), \A k \in Names : held'[k].due > 0 => FromPlan(k, held'[k].len),
           HeldBytes' = bytes[emitter.span],
           \A k \in Names : held'[k].due = due[emitter.span][k],
           \/ emitter.pos + n = Here.at + Here.len
           \/ /\ bytes[emitter.span] = bytes[emitter.span - 1]
              /\ \A k \in Names : due[emitter.span][k] = due[emitter.span - 1][k]
    PROVE  Replaying'
<1> DEFINE i == emitter.span
<1>1. /\ i \in Nat /\ bytes[i] \in Int
      /\ Turns(Here, due[i - 1], bytes[i - 1], due[i], bytes[i])
  BY SpanTurns
<1>2. UNCHANGED plan BY DEF Emit, End, Carry
<1>3. Names' = Names BY <1>2 DEF Names
<1>5. HeldBytes' <= Budget BY <1>1 DEF Turns
<1>6. outcome' \notin {"other", "completed"}
  <2>1. outcome = "running" BY DEF IInv, Emitting
  <2>2. outcome' = outcome \/ outcome' = "mismatch" \/ outcome' = "gone"
    BY DEF Emit, End, Carry
  <2> QED BY <2>1, <2>2
<1>7. pc' # "ended" => emitter' = [span |-> i + (IF emitter.pos + n = Here.at + Here.len THEN 1 ELSE 0),
                       pos |-> emitter.pos + n, wrong |-> emitter.wrong \/ wrong]
  BY DEF Emit, End
<1>8. pc' # "ended" => emitter'.span = IF emitter.pos + n = Here.at + Here.len THEN i + 1 ELSE i
  BY <1>1, <1>7
<1>9. (i + 1) - 1 = i BY <1>1
<1>10. Keeping(Len(plan.spans), Keys, plan.spans, due, bytes)' BY <1>2 DEF Balanced
<1>11. ASSUME pc' # "ended"
       PROVE  /\ HeldBytes' = bytes[emitter'.span - 1]
              /\ \A k \in Names : held'[k].due = due[emitter'.span - 1][k]
  <2>1. CASE emitter.pos + n = Here.at + Here.len BY <1>8, <1>9, <1>11, <2>1
  <2>2. CASE ~(emitter.pos + n = Here.at + Here.len) BY <1>8, <1>11, <2>2
  <2> QED BY <2>1, <2>2
<1>12. Balanced(due, bytes)' BY <1>3, <1>10, <1>11 DEF Balanced
<1>13. ReplaysFindCopies' BY <1>6 DEF ReplaysFindCopies
<1>14. Lengths(plan.spans)' BY <1>2 DEF Replaying
<1>15. (IsFiniteSet(Names) /\ Names \subseteq Keys)' BY <1>3 DEF Replaying
<1>16. (\A k \in Names : held[k].due > 0 => FromPlan(k, held[k].len))'
  BY <1>2, <1>3 DEF FromPlan
<1>17. held' \in Held(Names') BY <1>3
<1> QED BY <1>5, <1>12, <1>13, <1>14, <1>15, <1>16, <1>17 DEF Replaying

LEMMA LiteralReplaying == ASSUME IInv, Replaying, PumpLiteral PROVE Replaying'
<1>1. pc = "pump" /\ ~Done /\ Here.do = "lit" /\ Emit(Here.len, ~job.honest) /\ held' = held
  BY DEF PumpLiteral, Pumping
<1>2. PICK due, bytes : Balanced(due, bytes) BY DEF Replaying
<1> DEFINE i == emitter.span
<1>3. /\ Here.key \in Names /\ DOMAIN due[i - 1] = Keys
      /\ Turns(Here, due[i - 1], bytes[i - 1], due[i], bytes[i])
  BY <1>1, <1>2, SpanTurns
<1>4. /\ bytes[i] = bytes[i - 1] /\ \A k \in Names : due[i][k] = due[i - 1][k]
  BY <1>1, <1>3 DEF Turns, Replaying
<1>5. HeldBytes' = HeldBytes BY <1>1, HeldIsKept
<1>6. /\ HeldBytes = bytes[i - 1] /\ \A k \in Names : held[k].due = due[i - 1][k]
  BY <1>1, <1>2 DEF Balanced
<1>7. held \in Held(Names) /\ \A k \in Names : held[k].due > 0 => FromPlan(k, held[k].len)
  BY DEF Replaying
<1> HIDE DEF i
<1> QED BY <1>1, <1>2, <1>4, <1>5, <1>6, <1>7, EmitBalances DEF i

LEMMA PlainReplaying == ASSUME IInv, Replaying, PumpPlain PROVE Replaying'
<1>1. /\ pc = "pump" /\ ~Done /\ Here.do = "fetch" /\ Here.retain = 0
      /\ Emit(1, emitter.pos \in bad) /\ held' = held
  BY DEF PumpPlain, Pumping
<1>2. PICK due, bytes : Balanced(due, bytes) BY DEF Replaying
<1> DEFINE i == emitter.span
<1>3. /\ Here.key \in Names /\ DOMAIN due[i - 1] = Keys
      /\ Turns(Here, due[i - 1], bytes[i - 1], due[i], bytes[i])
  BY <1>1, <1>2, SpanTurns
<1>4. /\ bytes[i] = bytes[i - 1] /\ \A k \in Names : due[i][k] = due[i - 1][k]
  BY <1>1, <1>3 DEF Turns, Replaying
<1>5. HeldBytes' = HeldBytes BY <1>1, HeldIsKept
<1>6. /\ HeldBytes = bytes[i - 1] /\ \A k \in Names : held[k].due = due[i - 1][k]
  BY <1>1, <1>2 DEF Balanced
<1>7. held \in Held(Names) /\ \A k \in Names : held[k].due > 0 => FromPlan(k, held[k].len)
  BY DEF Replaying
<1> HIDE DEF i
<1> QED BY <1>1, <1>2, <1>4, <1>5, <1>6, <1>7, EmitBalances DEF i

(* The copy is there, at the length of the replay.                         *)
LEMMA CopyIsThere ==
    ASSUME IInv, Replaying, pc = "pump", ~Done, Here.do = "replay"
    PROVE  held[Here.key].due > 0 /\ held[Here.key].len = Here.len
<1>1. PICK due, bytes : Balanced(due, bytes) BY DEF Replaying
<1> DEFINE i == emitter.span
<1>2. /\ i \in DOMAIN plan.spans /\ Here = plan.spans[i] /\ Here.key \in Names
      /\ Turns(Here, due[i - 1], bytes[i - 1], due[i], bytes[i])
  BY <1>1, SpanTurns
<1>3. held[Here.key].due > 0 BY <1>1, <1>2 DEF Balanced, Turns
<1>4. FromPlan(Here.key, held[Here.key].len) BY <1>2, <1>3 DEF Replaying
<1>5. PICK j \in DOMAIN plan.spans :
        plan.spans[j].do # "lit" /\ plan.spans[j].key = Here.key
        /\ plan.spans[j].len = held[Here.key].len
  BY <1>4 DEF FromPlan
<1> QED BY <1>2, <1>3, <1>5 DEF Replaying, Lengths

LEMMA ReplayReplaying == ASSUME IInv, Replaying, PumpReplay PROVE Replaying'
<1> DEFINE i == emitter.span
           key == Here.key
           copy == held[key]
<1>1. pc = "pump" /\ ~Done /\ Here.do = "replay" BY DEF PumpReplay, Pumping
<1>2. copy.due > 0 /\ copy.len = Here.len BY <1>1, CopyIsThere
<1>3. /\ held' = [held EXCEPT ![key].due = @ - 1]
      /\ Emit(Here.len, copy.wrong \/ ~job.honest)
  BY <1>2 DEF PumpReplay
<1>4. PICK due, bytes : Balanced(due, bytes) BY DEF Replaying
<1>5. /\ i \in Nat /\ i \in 1..Len(plan.spans) /\ i \in DOMAIN plan.spans
      /\ Here = plan.spans[i] /\ key \in Names
      /\ due[i - 1] \in [Keys -> Nat] /\ due[i] \in [Keys -> Nat]
      /\ bytes[i - 1] \in Int /\ bytes[i] \in Int
      /\ Turns(Here, due[i - 1], bytes[i - 1], due[i], bytes[i])
  BY <1>1, <1>4, SpanTurns
<1>6. /\ held \in Held(Names) /\ IsFiniteSet(Names) /\ Names \subseteq Keys
      /\ \A k \in Names : held[k].due > 0 => FromPlan(k, held[k].len)
  BY DEF Replaying
<1>7. /\ HeldBytes = bytes[i - 1] /\ \A k \in Names : held[k].due = due[i - 1][k]
  BY <1>1, <1>4 DEF Balanced
<1>8. copy \in Slot /\ copy.due \in Nat /\ copy.len \in Nat
  BY <1>5, <1>6 DEF Held, Slot
<1> DEFINE rest == [copy EXCEPT !.due = @ - 1]
<1>9. rest \in Slot /\ rest.due = copy.due - 1 /\ rest.len = copy.len
  BY <1>2, <1>8 DEF Slot
<1>10. held' = [held EXCEPT ![key] = rest] BY <1>3
<1> HIDE DEF rest, copy, key
<1>11. /\ held' \in Held(Names) /\ held'[key] = rest
       /\ \A k \in Names : k # key => held'[k] = held[k]
  BY <1>5, <1>6, <1>9, <1>10 DEF Held
<1>12. \A k \in Names : held'[k].due > 0 => FromPlan(k, held'[k].len)
  <2>1. FromPlan(key, copy.len) BY <1>2, <1>5, <1>6 DEF copy
  <2> QED BY <1>6, <1>9, <1>11, <2>1
<1>13. HeldBytes' = HeldBytes - Weight(copy) + Weight(rest)
  BY <1>5, <1>6, <1>11, KeptChanges, HeldIsKept DEF copy
<1>14. /\ due[i - 1][key] = copy.due /\ due[i][key] = copy.due - 1
       /\ \A k \in Names : k # key => due[i][k] = due[i - 1][k]
       /\ bytes[i] = bytes[i - 1] - (IF due[i][key] = 0 THEN Here.len ELSE 0)
  <2>1. DOMAIN due[i - 1] = Keys BY <1>5
  <2> QED BY <1>1, <1>5, <1>6, <1>7, <2>1 DEF Turns, key, copy
<1>15. \A k \in Names : held'[k].due = due[i][k] BY <1>7, <1>9, <1>11, <1>14
<1>16. HeldBytes' = bytes[i]
  <2>1. Weight(copy) = copy.len BY <1>2 DEF Weight
  <2>2. Weight(rest) = IF copy.due - 1 > 0 THEN copy.len ELSE 0 BY <1>9 DEF Weight
  <2>3. Here.len = copy.len BY <1>2
  <2>4. copy.due - 1 = 0 <=> ~(copy.due - 1 > 0) BY <1>2, <1>8
  <2> QED BY <1>5, <1>7, <1>8, <1>13, <1>14, <2>1, <2>2, <2>3, <2>4
<1>17. emitter.pos + Here.len = Here.at + Here.len BY <1>1, HereFacts
<1> HIDE DEF i
<1> QED BY <1>1, <1>3, <1>4, <1>11, <1>12, <1>15, <1>16, <1>17, EmitBalances DEF i

LEMMA RetainedReplaying == ASSUME IInv, Replaying, PumpRetained PROVE Replaying'
<1> DEFINE i == emitter.span
           key == Here.key
           units == Here.at..(Here.at + Here.len - 1)
           wrong == units \cap bad # {}
           copy == [due |-> Here.retain, len |-> Here.len, wrong |-> wrong]
<1>0. wrong \in BOOLEAN OBVIOUS
<1> HIDE DEF wrong
<1>1. /\ pc = "pump" /\ ~Done /\ Here.do = "fetch" /\ Here.retain > 0
      /\ held' = [held EXCEPT ![key] = copy] /\ Emit(Here.len, wrong)
  BY DEF PumpRetained, Pumping, wrong
<1>2. PICK due, bytes : Balanced(due, bytes) BY DEF Replaying
<1>3. /\ i \in Nat /\ i \in 1..Len(plan.spans) /\ i \in DOMAIN plan.spans
      /\ Here = plan.spans[i] /\ key \in Names
      /\ due[i - 1] \in [Keys -> Nat] /\ due[i] \in [Keys -> Nat]
      /\ bytes[i - 1] \in Int /\ bytes[i] \in Int
      /\ Turns(Here, due[i - 1], bytes[i - 1], due[i], bytes[i])
  BY <1>1, <1>2, SpanTurns
<1>4. /\ held \in Held(Names) /\ IsFiniteSet(Names) /\ Names \subseteq Keys
      /\ \A k \in Names : held[k].due > 0 => FromPlan(k, held[k].len)
  BY DEF Replaying
<1>5. /\ HeldBytes = bytes[i - 1] /\ \A k \in Names : held[k].due = due[i - 1][k]
  BY <1>1, <1>2 DEF Balanced
<1>6. /\ due[i - 1][key] = 0 /\ due[i][key] = Here.retain
      /\ \A k \in Names : k # key => due[i][k] = due[i - 1][k]
      /\ bytes[i] = bytes[i - 1] + Here.len
  <2>1. DOMAIN due[i - 1] = Keys BY <1>3
  <2> QED BY <1>1, <1>3, <1>4, <2>1 DEF Turns, key
<1>7. Here.retain \in Nat /\ Here.len \in Nat BY <1>1, <1>3, <1>4, <1>6, HereFacts
<1>8. copy \in Slot /\ copy.due = Here.retain /\ copy.len = Here.len BY <1>0, <1>7 DEF Slot
<1> HIDE DEF copy, key
<1>9. /\ held' \in Held(Names) /\ held'[key] = copy
      /\ \A k \in Names : k # key => held'[k] = held[k]
  BY <1>1, <1>3, <1>4, <1>8 DEF Held
<1>10. \A k \in Names : held'[k].due > 0 => FromPlan(k, held'[k].len)
  <2>1. FromPlan(key, Here.len) BY <1>1, <1>3 DEF FromPlan, key
  <2> QED BY <1>4, <1>8, <1>9, <2>1
<1>11. HeldBytes' = HeldBytes - Weight(held[key]) + Weight(copy)
  BY <1>3, <1>4, <1>9, KeptChanges, HeldIsKept
<1>12. \A k \in Names : held'[k].due = due[i][k] BY <1>5, <1>6, <1>8, <1>9
<1>13. HeldBytes' = bytes[i]
  <2>1. Weight(held[key]) = 0 BY <1>3, <1>5, <1>6 DEF Weight
  <2>2. Weight(copy) = Here.len BY <1>1, <1>8 DEF Weight
  <2> QED BY <1>3, <1>5, <1>6, <1>7, <1>11, <2>1, <2>2
<1>14. emitter.pos + Here.len = Here.at + Here.len BY <1>1, HereFacts
<1> HIDE DEF i
<1> QED BY <1>1, <1>2, <1>9, <1>10, <1>12, <1>13, <1>14, EmitBalances DEF i

(* Past the last span nothing is due.                                      *)
LEMMA FinishedReplaying == ASSUME IInv, Replaying, PumpFinished PROVE Replaying'
<1>1. /\ pc = "pump" /\ Done /\ pc' = "ended" /\ outcome' = "completed"
      /\ UNCHANGED <<plan, held, emitter>>
  BY DEF PumpFinished, End, emission
<1>2. PICK due, bytes : Balanced(due, bytes) BY DEF Replaying
<1>3. emitter.span - 1 = Len(plan.spans)
  <2>1. Planned /\ TypeEmit BY Parts DEF IInv
  <2>2. Len(plan.spans) \in Nat BY <2>1, SpanFacts
  <2> QED BY <1>1, <2>1, <2>2 DEF TypeEmit, Done
<1>4. /\ held \in Held(Names) /\ IsFiniteSet(Names) /\ Names \subseteq Keys
  BY DEF Replaying
<1>5. \A k \in Names : held[k].due = 0 BY <1>1, <1>2, <1>3, <1>4 DEF Balanced, Keeping
<1>6. HeldBytes = 0 BY <1>4, <1>5, KeptNothing, HeldIsKept
<1>7. HeldBytes' = HeldBytes BY <1>1, HeldIsKept
<1>8. Names' = Names BY <1>1 DEF Names
<1>9. \A k, len : FromPlan(k, len)' <=> FromPlan(k, len) BY <1>1 DEF FromPlan
<1>10. Balanced(due, bytes)' BY <1>1, <1>2 DEF Balanced
<1>11. ReplaysFindCopies' BY <1>1, <1>6, <1>7 DEF ReplaysFindCopies
<1> QED BY <1>1, <1>7, <1>8, <1>9, <1>10, <1>11 DEF Replaying

-----------------------------------------------------------------------------
LEMMA ReplayingInit == Init => Replaying
<1> SUFFICES ASSUME Init PROVE Replaying
  OBVIOUS
<1> DEFINE m == Len(plan.spans)
           slot == [due |-> 0, len |-> 0, wrong |-> FALSE]
<1>1. job \in Jobs /\ plan = PlanFor(job) /\ Planned BY PlanFits DEF Init, Planned
<1>2. /\ Lengths(plan.spans) /\ \A i \in 1..m : plan.spans[i].key \in Keys
      /\ \E due, bytes : Keeping(m, Keys, plan.spans, due, bytes)
  BY <1>1, PlanKeeps
<1>3. m \in Nat /\ DOMAIN plan.spans = 1..m BY <1>1, SpanFacts
<1>4. Names = {plan.spans[i].key : i \in 1..m} BY <1>3 DEF Names, ToSet
<1>5. IsFiniteSet(Names)
  <2> DEFINE f == [i \in 1..m |-> plan.spans[i].key]
  <2>1. f \in Surjection(1..m, Names) BY <1>4 DEF Surjection
  <2>2. IsFiniteSet(1..m) BY <1>3, FS_Interval
  <2> HIDE DEF f
  <2> QED BY <2>1, <2>2, FS_Surjection
<1>6. Names \subseteq Keys BY <1>2, <1>4
<1>7. held = [k \in Names |-> slot] BY DEF Init, Names
<1>8. slot \in Slot /\ slot.due = 0 BY DEF Slot
<1> HIDE DEF slot
<1>9. held \in Held(Names) /\ \A k \in Names : held[k].due = 0 BY <1>7, <1>8 DEF Held
<1>10. HeldBytes = 0 /\ HeldBytes <= Budget
  <2>1. Budget \in Nat BY TransferAssumption
  <2> QED BY <1>5, <1>9, <2>1, KeptNothing, HeldIsKept
<1>11. emitter.span - 1 = 0 /\ outcome = "running" BY DEF Init
<1>12. PICK due, bytes : Keeping(m, Keys, plan.spans, due, bytes) BY <1>2
<1>13. Balanced(due, bytes)
  <2>1. bytes[0] = 0 /\ \A k \in Keys : due[0][k] = 0 BY <1>12 DEF Keeping
  <2> QED BY <1>6, <1>9, <1>10, <1>11, <1>12, <2>1 DEF Balanced
<1>14. ReplaysFindCopies BY <1>11 DEF ReplaysFindCopies
<1>15. \A k \in Names : held[k].due > 0 => FromPlan(k, held[k].len) BY <1>9
<1> QED BY <1>2, <1>5, <1>6, <1>9, <1>10, <1>13, <1>14, <1>15 DEF Replaying

LEMMA ReplayingStep == IInv /\ Replaying /\ [Next]_vars => Replaying'
<1> SUFFICES ASSUME IInv, Replaying, [Next]_vars PROVE Replaying'
  OBVIOUS
<1>1. CASE Pump
  <2>1. CASE PumpNeedsData \/ Forfeit
    BY <2>1, ReplayingStands DEF PumpNeedsData, Forfeit, NeedsData, End, emission
  <2> QED BY <1>1, <2>1, LiteralReplaying, ReplayReplaying, PlainReplaying, RetainedReplaying,
             FinishedReplaying DEF Pump
<1>2. CASE LaunchEnds \/ Settle \/ Launch \/ GateExpires \/ Timer \/ Stall \/ WakeStarved
  BY <1>2, ReplayingStands DEF LaunchEnds, Settle, Launch, GateExpires, Timer, Stall, WakeStarved,
     End, emission
<1>3. ASSUME NEW w \in work, Finish(w) PROVE Replaying'
  BY <1>3, ReplayingStands
     DEF Finish, Deliver, DeliverWrong, FailWithStrike, FailWithout, Report, emission
<1>4. ASSUME NEW w \in work, HearTwin(w) \/ HearChunk(w) \/ HearFailure(w) \/ HearLastStraw(w)
      PROVE  Replaying'
  BY <1>4, ReplayingStands
     DEF HearTwin, HearChunk, HearFailure, HearLastStraw, Hear, End, emission
<1>5. ASSUME NEW p \in Peer, Starve(p) \/ OtherTakes(p) \/ OtherReleases(p) \/ CooldownElapses(p)
      PROVE  Replaying'
  BY <1>5, ReplayingStands DEF Starve, OtherTakes, OtherReleases, CooldownElapses, emission
<1>6. CASE UNCHANGED vars BY <1>6, ReplayingStands DEF vars
<1> QED BY <1>1, <1>2, <1>3, <1>4, <1>5, <1>6 DEF Next

-----------------------------------------------------------------------------
(* The buffer *)

Sized(len) == \E size \in Chunks : len <= size
Near(u) == \E size \in Chunks : u < emitter.pos + Window - 1 + size

(* A chunk begins inside the window when it is launched.                   *)
Buffering ==
    /\ \A c \in requeue \cup inflight : Sized(c.len)
    /\ \A f \in inflight : f.off < emitter.pos + Window
    /\ \A u \in buffered : Near(u)

LEMMA BufferingStep ==
    ASSUME IInv, Buffering, emitter'.pos \in Nat, emitter.pos <= emitter'.pos,
           \A c \in requeue' \cup inflight' : Sized(c.len),
           \A f \in inflight' : f.off \in Nat /\ f.off < emitter.pos + Window,
           \A u \in buffered' : u \in Nat /\ Near(u)
    PROVE  Buffering'
<1>1. emitter.pos \in Nat /\ Window \in Nat /\ Chunks \subseteq Nat
  <2>1. Planned /\ TypeEmit BY Parts DEF IInv
  <2> QED BY <2>1, JobFacts, TransferAssumption DEF TypeEmit
<1>2. \A f \in inflight' : f.off < emitter'.pos + Window BY <1>1
<1>3. ASSUME NEW u \in buffered' PROVE \E size \in Chunks : u < emitter'.pos + Window - 1 + size
  <2>1. PICK size \in Chunks : u < emitter.pos + Window - 1 + size BY DEF Near
  <2>2. u \in Nat /\ size \in Nat BY <1>1
  <2>3. u < emitter'.pos + Window - 1 + size BY <1>1, <2>1, <2>2
  <2> QED BY <2>3
<1>4. \A u \in buffered' : Near(u)' BY <1>3 DEF Near
<1>5. \A c \in requeue' \cup inflight' : Sized(c.len) OBVIOUS
<1> QED BY <1>2, <1>4, <1>5 DEF Buffering, Sized

LEMMA BufferTypes ==
    ASSUME IInv
    PROVE  /\ emitter.pos \in Nat /\ Window \in Nat \ {0} /\ Chunks \subseteq Nat \ {0}
           /\ \A f \in inflight : f.off \in Nat /\ f.len \in Nat
           /\ \A c \in requeue : c.off \in Nat /\ c.len \in Nat
           /\ buffered \subseteq Nat
<1>1. Planned /\ TypeEmit /\ TypeChunks /\ TypeBuffer BY Parts DEF IInv
<1> QED BY <1>1, JobFacts, ChunkFacts, TransferAssumption DEF TypeEmit, TypeBuffer

(* Nothing new is wanted or buffered.                                      *)
LEMMA BufferingShrinks ==
    ASSUME IInv, Buffering, emitter'.pos \in Nat, emitter.pos <= emitter'.pos,
           requeue' \subseteq requeue, inflight' \subseteq inflight, buffered' \subseteq buffered
    PROVE  Buffering'
<1>1. \A c \in requeue' \cup inflight' : Sized(c.len) BY DEF Buffering
<1>2. \A f \in inflight' : f.off \in Nat /\ f.off < emitter.pos + Window
  BY BufferTypes DEF Buffering
<1>3. \A u \in buffered' : u \in Nat /\ Near(u) BY BufferTypes DEF Buffering
<1> QED BY <1>1, <1>2, <1>3, BufferingStep

LEMMA EmitBuffering ==
    ASSUME IInv, Buffering, NEW n \in Nat, NEW wrong, Emit(n, wrong), buffered' \subseteq buffered
    PROVE  Buffering'
<1>1. emitter.pos \in Nat BY BufferTypes
<1>2. emitter' = emitter \/ emitter'.pos = emitter.pos + n BY DEF Emit
<1>3. emitter'.pos \in Nat /\ emitter.pos <= emitter'.pos BY <1>1, <1>2
<1>4. requeue' \subseteq requeue /\ inflight' \subseteq inflight BY DEF Emit, Carry, End, chunker
<1> QED BY <1>3, <1>4, BufferingShrinks

LEMMA HearBuffering ==
    ASSUME IInv, Buffering, NEW w \in work,
           HearTwin(w) \/ HearChunk(w) \/ HearFailure(w)
    PROVE  Buffering'
<1> DEFINE old == FlightOf(w)
<1>1. pc = "wait" /\ emitter' = emitter BY DEF HearTwin, HearChunk, HearFailure, Hear
<1>2. old \in inflight /\ old.off = w.off /\ old.len = w.len BY <1>1, FlightIs
<1>3. Sized(w.len) /\ w.off < emitter.pos + Window BY <1>2 DEF Buffering
<1>4. w.off \in Nat /\ w.len \in Nat /\ emitter.pos \in Nat /\ Window \in Nat
      /\ buffered \subseteq Nat /\ Chunks \subseteq Nat
  BY <1>2, BufferTypes
<1>5. \E f : Leaves(w, f) /\ Retire(f)
  BY <1>1, LandedLeaves DEF HearTwin, HearChunk, HearFailure
<1>6. \A g \in inflight' : \E h \in inflight : g.off = h.off /\ g.len = h.len
  BY <1>1, <1>5, RetireFacts
<1>7. \A f \in inflight' : f.off \in Nat /\ f.off < emitter.pos + Window /\ Sized(f.len)
  BY <1>6, BufferTypes DEF Buffering
<1>8. \A c \in requeue' : Sized(c.len)
  <2>1. CASE HearTwin(w) \/ HearChunk(w) BY <2>1 DEF HearTwin, HearChunk, Buffering
  <2>2. CASE HearFailure(w)
    <3> DEFINE f == Landed(old, w)
    <3>1. f.off = w.off /\ f.len = w.len BY <1>1, LandedLeaves DEF Leaves
    <3> HIDE DEF f
    <3>2. requeue' = requeue \/ requeue' = requeue \cup {[off |-> w.off, len |-> w.len]}
      BY <2>2, <3>1 DEF HearFailure, Requeue, f
    <3>3. \A c \in requeue : Sized(c.len) BY DEF Buffering
    <3> QED BY <1>3, <3>2, <3>3
  <2> QED BY <2>1, <2>2
<1>9. \A u \in buffered' : u \in Nat /\ Near(u)
  <2>1. \A u \in buffered : u \in Nat /\ Near(u) BY <1>4 DEF Buffering
  <2>2. ASSUME NEW u \in w.off..(w.off + w.len - 1) PROVE u \in Nat /\ Near(u)
    <3>1. PICK size \in Chunks : w.len <= size BY <1>3 DEF Sized
    <3>2. size \in Nat /\ u \in Nat BY <1>4
    <3>3. u < emitter.pos + Window - 1 + size BY <1>3, <1>4, <3>1, <3>2
    <3> QED BY <3>2, <3>3 DEF Near
  <2>3. buffered' \subseteq buffered \cup (w.off..(w.off + w.len - 1))
    BY DEF HearTwin, HearChunk, HearFailure
  <2> QED BY <2>1, <2>2, <2>3
<1>10. \A c \in requeue' \cup inflight' : Sized(c.len) BY <1>7, <1>8
<1>11. emitter'.pos \in Nat /\ emitter.pos <= emitter'.pos BY <1>1, <1>4
<1> QED BY <1>7, <1>9, <1>10, <1>11, BufferingStep

LEMMA LaunchBuffering == ASSUME IInv, Buffering, Launch PROVE Buffering'
<1>1. PICK crew \in Crews, cs \in Chunks, len \in 1..(job.end - job.start) :
         /\ TakeRequeued(cs, len) \/ TakeFresh(cs, len)
         /\ inflight' = inflight \cup
              {[off |-> NextOff, len |-> len, live |-> crew.on, delivered |-> FALSE]}
  BY DEF Launch
<1>2. InWindow /\ emitter' = emitter /\ buffered' = buffered /\ pc = "launch" /\ Candidate
      /\ UNCHANGED <<job, plan>>
  BY DEF Launch, emission
<1>3. Planned /\ TypeChunks BY Parts DEF IInv
<1>4. cs \in Nat \ {0} BY TransferAssumption
<1>5. Taken(NextOff, len)
  <2>1. CASE TakeRequeued(cs, len) BY <1>2, <1>4, <2>1, RequeuedTaken
  <2>2. CASE TakeFresh(cs, len)
    <3>1. Carvable BY <1>2, <2>2 DEF Candidate, TakeFresh
    <3> QED BY <1>2, <1>4, <2>2, <3>1, FreshTaken
  <2> QED BY <1>1, <2>1, <2>2
<1>6. NextOff \in Nat /\ len \in Nat BY <1>3, <1>5, JobFacts DEF Taken
<1>7. Sized(len) /\ \A c \in requeue' : Sized(c.len)
  <2>0. \A c \in requeue : Sized(c.len) BY DEF Buffering
  <2>1. CASE TakeRequeued(cs, len)
    <3>1. Lowest \in requeue BY <1>3, <2>1, LowestIn DEF TakeRequeued, Requeued
    <3>2. Lowest.len \in Nat /\ Sized(Lowest.len) BY <2>0, <3>1, BufferTypes
    <3>3. CASE Lowest.len > 2 * cs
      <4> DEFINE rest == [off |-> Lowest.off + cs, len |-> Lowest.len - cs]
      <4>1. len = cs /\ requeue' = (requeue \ {Lowest}) \cup {rest}
        BY <2>1, <3>3 DEF TakeRequeued
      <4>2. Sized(len) BY <1>4, <4>1 DEF Sized
      <4>3. Sized(rest.len)
        <5>1. PICK size \in Chunks : Lowest.len <= size BY <3>2 DEF Sized
        <5>2. size \in Nat BY <5>1, TransferAssumption
        <5>3. Lowest.len - cs <= size BY <1>4, <3>2, <5>1, <5>2
        <5>4. rest.len = Lowest.len - cs OBVIOUS
        <5> QED BY <5>3, <5>4 DEF Sized
      <4> HIDE DEF rest
      <4> QED BY <2>0, <4>1, <4>2, <4>3
    <3>4. CASE ~(Lowest.len > 2 * cs)
      <4>1. len = Lowest.len /\ requeue' = requeue \ {Lowest} BY <2>1, <3>4 DEF TakeRequeued
      <4> QED BY <2>0, <3>2, <4>1
    <3> QED BY <3>3, <3>4
  <2>2. CASE TakeFresh(cs, len)
    <3>1. requeue' = requeue /\ len = (IF cs < Room THEN cs ELSE Room) BY <2>2 DEF TakeFresh
    <3>2. len <= cs
      <4>1. CASE cs < Room BY <1>4, <3>1, <4>1
      <4>2. CASE ~(cs < Room)
        <5>1. len = Room /\ Room \in Nat BY <1>6, <3>1, <4>2
        <5> QED BY <1>4, <4>2, <5>1
      <4> QED BY <4>1, <4>2
    <3> QED BY <2>0, <3>1, <3>2 DEF Sized
  <2> QED BY <1>1, <2>1, <2>2
<1>8. NextOff < emitter.pos + Window BY <1>2 DEF InWindow
<1> DEFINE new == [off |-> NextOff, len |-> len, live |-> crew.on, delivered |-> FALSE]
<1>9. new.off = NextOff /\ new.len = len OBVIOUS
<1>10. inflight' = inflight \cup {new} BY <1>1
<1> HIDE DEF new
<1>11. \A f \in inflight' : f.off \in Nat /\ f.off < emitter.pos + Window /\ Sized(f.len)
  BY <1>6, <1>7, <1>8, <1>9, <1>10, BufferTypes DEF Buffering
<1>12. \A u \in buffered' : u \in Nat /\ Near(u) BY <1>2, BufferTypes DEF Buffering
<1>13. emitter'.pos \in Nat /\ emitter.pos <= emitter'.pos BY <1>2, BufferTypes
<1> QED BY <1>7, <1>11, <1>12, <1>13, BufferingStep

LEMMA BufferingNext == IInv /\ Buffering /\ [Next]_vars => Buffering'
<1> SUFFICES ASSUME IInv, Buffering, [Next]_vars PROVE Buffering'
  OBVIOUS
<1>0. emitter.pos \in Nat BY BufferTypes
<1>1. CASE Pump
  <2>1. CASE PumpLiteral
    <3>1. ~Done /\ Emit(Here.len, ~job.honest) /\ buffered' = buffered
      BY <2>1 DEF PumpLiteral, Pumping
    <3> QED BY <3>1, HereFacts, EmitBuffering
  <2>2. CASE PumpReplay
    <3>1. ~Done /\ buffered' = buffered /\ \/ End("other") /\ emitter' = emitter
                                           \/ Emit(Here.len, held[Here.key].wrong \/ ~job.honest)
      BY <2>2 DEF PumpReplay, Pumping, emission
    <3>2. CASE End("other") /\ emitter' = emitter
      BY <1>0, <3>1, <3>2, BufferingShrinks DEF End
    <3> QED BY <3>1, <3>2, HereFacts, EmitBuffering
  <2>3. CASE PumpPlain
    <3>1. ~Done /\ Emit(1, emitter.pos \in bad) /\ buffered' \subseteq buffered
      BY <2>3 DEF PumpPlain, Pumping
    <3> QED BY <3>1, EmitBuffering
  <2>4. CASE PumpRetained
    <3> DEFINE units == Here.at..(Here.at + Here.len - 1)
    <3>1. ~Done /\ Emit(Here.len, units \cap bad # {}) /\ buffered' \subseteq buffered
      BY <2>4 DEF PumpRetained, Pumping
    <3> QED BY <3>1, HereFacts, EmitBuffering
  <2>5. CASE PumpFinished BY <1>0, <2>5, BufferingShrinks DEF PumpFinished, End, emission
  <2>6. CASE PumpNeedsData BY <1>0, <2>6, BufferingShrinks DEF PumpNeedsData, chunker
  <2>7. CASE Forfeit BY <1>0, <2>7, BufferingShrinks DEF Forfeit, End, emission
  <2> QED BY <1>1, <2>1, <2>2, <2>3, <2>4, <2>5, <2>6, <2>7 DEF Pump
<1>2. CASE LaunchEnds \/ Settle \/ GateExpires \/ Timer \/ Stall \/ WakeStarved
  BY <1>0, <1>2, BufferingShrinks DEF LaunchEnds, Settle, GateExpires, Timer, Stall, WakeStarved,
     End, emission, chunker
<1>3. CASE Launch BY <1>3, LaunchBuffering
<1>4. ASSUME NEW w \in work, Finish(w) PROVE Buffering'
  BY <1>0, <1>4, BufferingShrinks
     DEF Finish, Deliver, DeliverWrong, FailWithStrike, FailWithout, Report, emission, chunker
<1>5. ASSUME NEW w \in work, HearLastStraw(w) PROVE Buffering'
  BY <1>0, <1>5, BufferingShrinks DEF HearLastStraw, End, emission
<1>6. ASSUME NEW w \in work, HearTwin(w) \/ HearChunk(w) \/ HearFailure(w) PROVE Buffering'
  BY <1>6, HearBuffering
<1>7. ASSUME NEW p \in Peer, Starve(p) \/ OtherTakes(p) \/ OtherReleases(p) \/ CooldownElapses(p)
      PROVE  Buffering'
  BY <1>0, <1>7, BufferingShrinks
     DEF Starve, OtherTakes, OtherReleases, CooldownElapses, emission, chunker
<1>8. CASE UNCHANGED vars BY <1>0, <1>8, BufferingShrinks DEF vars
<1> QED BY <1>1, <1>2, <1>3, <1>4, <1>5, <1>6, <1>7, <1>8 DEF Next

(* A finite set of numbers that is not empty has a largest.                *)
LEMMA MaxOf ==
    ASSUME NEW S \in SUBSET Nat, IsFiniteSet(S), NEW n \in S
    PROVE  Max(S) \in S /\ \A y \in S : Max(S) >= y
<1> DEFINE P == {s \in SUBSET S : s # {} => \E x \in s : \A y \in s : x >= y}
<1>1. ASSUME NEW s \in SUBSET S, \A t \in SUBSET S : Cardinality(t) < Cardinality(s) => t \in P
      PROVE  s \in P
  <2> SUFFICES ASSUME s # {} PROVE \E x \in s : \A y \in s : x >= y
    OBVIOUS
  <2>1. PICK z \in s : TRUE OBVIOUS
  <2>2. s \ {z} \in P BY <1>1, SmallerSet
  <2>3. CASE s \ {z} = {}
    <3>1. \A y \in s : z >= y BY <2>3
    <3> QED BY <3>1
  <2>4. CASE s \ {z} # {}
    <3>1. PICK x \in s \ {z} : \A y \in s \ {z} : x >= y BY <2>2, <2>4
    <3>2. x \in Nat /\ z \in Nat /\ s \subseteq Nat OBVIOUS
    <3>3. CASE x >= z
      <4>1. \A y \in s : x >= y BY <3>1, <3>3
      <4> QED BY <4>1
    <3>4. CASE ~(x >= z)
      <4>1. \A y \in s : z >= y
        <5> TAKE y \in s
        <5>1. CASE y = z BY <3>2, <5>1
        <5>2. CASE y # z
          <6>1. x >= y /\ y \in Nat BY <3>1, <3>2, <5>2
          <6> QED BY <3>2, <3>4, <6>1
        <5> QED BY <5>1, <5>2
      <4> QED BY <4>1
    <3> QED BY <3>3, <3>4
  <2> QED BY <2>3, <2>4
<1>2. S \in P
  <2> HIDE DEF P
  <2>1. SUBSET S \subseteq P BY <1>1, InductOnSubsets
  <2> QED BY <2>1
<1> QED BY <1>2 DEF Max

(* What is retained for later copies stays within dedup_budget_bytes: the  *)
(* emission follows the ledger that the planner computed, whatever the     *)
(* manifest says; and a chunk is launched inside the window alone          *)
(* (run_transfer, dedup::plan), so that no schedule of peers overfills it. *)
THEOREM MemoryStaysBounded == Spec => []MemoryIsBounded
<1>1. Init => Replaying BY ReplayingInit
<1>2. Init => Buffering BY DEF Init, Buffering
<1>3. IInv /\ Replaying /\ [Next]_vars => Replaying' BY ReplayingStep
<1>4. IInv /\ Buffering /\ [Next]_vars => Buffering' BY BufferingNext
<1>5. IInv /\ Replaying /\ Buffering => MemoryIsBounded
  <2> SUFFICES ASSUME IInv, Replaying, Buffering, NEW u \in buffered
               PROVE  u < emitter.pos + Window - 1 + Max(Chunks)
    BY DEF MemoryIsBounded, Replaying
  <2>1. PICK size \in Chunks : u < emitter.pos + Window - 1 + size BY DEF Buffering, Near
  <2>2. Chunks \in SUBSET Nat /\ IsFiniteSet(Chunks) BY TransferAssumption
  <2>3. Max(Chunks) \in Nat /\ Max(Chunks) >= size /\ size \in Nat BY <2>2, MaxOf
  <2>4. emitter.pos \in Nat /\ Window \in Nat /\ u \in Nat BY BufferTypes
  <2> QED BY <2>1, <2>3, <2>4
<1> QED BY <1>1, <1>2, <1>3, <1>4, <1>5, Invariance, PTL DEF Spec

(* A replay always finds its copy, at its length, and at the end none is   *)
(* held: PumpReplay's abort for a plan bug is never reached                *)
(* (run_transfer's retained map, dedup::plan).                             *)
THEOREM ReplaysSucceed == Spec => []ReplaysFindCopies
<1>1. Init => Replaying BY ReplayingInit
<1>2. IInv /\ Replaying /\ [Next]_vars => Replaying' BY ReplayingStep
<1>3. Replaying => ReplaysFindCopies BY DEF Replaying
<1> QED BY <1>1, <1>2, <1>3, Invariance, PTL DEF Spec

=============================================================================
