---------------------------- MODULE LookupProofs ----------------------------
(* Proofs about Lookup, for every index, set of peers, tiers and headers.  *)
EXTENDS Lookup, Folding

-----------------------------------------------------------------------------
(* The inductive invariant *)

Entry == [fact : Fact, sigs : SUBSET Key]
Row == [fact : Fact, sigs : SUBSET Key, wide : SUBSET Origin,
        probe : SUBSET Peer, live : SUBSET Peer]

(* What the handler carries from read to read, all of it about the request.*)
Reads ==
    /\ entries \subseteq Entry /\ rows \subseteq Entry /\ found \subseteq Row
    /\ IsFiniteSet(entries) /\ IsFiniteSet(rows) /\ IsFiniteSet(found)
    /\ \A e \in entries \cup rows \cup found : Concerns(e.fact)

(* What is read is used up before the next read begins.                    *)
Stages ==
    /\ pc # "done" => reply = Miss
    /\ pc = "arrive" => rows = {} /\ found = {}
    /\ pc \in {"holders", "probe", "answer"} => entries = {}
    /\ pc \in {"probe", "answer"} => rows = {}
    /\ pc = "answer" => \A row \in found : row.probe = {}

Underway == pc \notin {"arrive", "done"}

(* What is the case now was the case at some moment of the request, and so *)
(* was what each row says of its holders.                                  *)
Remembered ==
    Underway =>
      /\ held \subseteq past.held /\ Peer \ shut \subseteq past.up /\ (roaming => past.roaming)
      /\ \A row \in found :
           /\ row.live \subseteq past.up
           /\ \A p \in row.probe \cup row.live : <<p, Hash[row.fact]>> \in past.held

(* A copy that could be served all along is not lost between the reads, and*)
(* no row that reads its content misses who holds it.                      *)
Followed ==
    Underway =>
      /\ steady \subseteq Servable
      /\ \A s \in steady : \/ [fact |-> s[1], sigs |-> att[s[1]]] \in entries \cup rows
                           \/ \E row \in found : row.fact = s[1]
      /\ \A s \in steady, row \in found :
           Hash[row.fact] = Hash[s[1]] => s[2] \in row.probe \cup row.live

IInv ==
    /\ Reads /\ Stages /\ Remembered /\ Followed
    /\ MissIsHonest /\ SourcesAreRight /\ RangeIsWhatWasAsked

-----------------------------------------------------------------------------
(* Ranges *)

(* The end of a range saturates at the size.                               *)
LEMMA EndSaturates ==
    ASSUME NEW size \in 0..MaxU64, NEW b \in 0..MaxU64
    PROVE  Min({b + 1, MaxU64, size}) = IF b + 1 <= size THEN b + 1 ELSE size
<1> DEFINE S == {b + 1, MaxU64, size}
           m == IF b + 1 <= size THEN b + 1 ELSE size
<1>0. MaxU64 \in Nat BY LookupAssumption
<1>1. m \in S /\ \A y \in S : m <= y BY <1>0
<1>2. \A x \in S : (\A y \in S : x <= y) => x = m
  <2> SUFFICES ASSUME NEW x \in S, \A y \in S : x <= y PROVE x = m
    OBVIOUS
  <2>1. x <= m /\ m <= x BY <1>1
  <2> HIDE DEF m
  <2>2. x \in Int /\ m \in Int BY <1>0 DEF m
  <2> QED BY <2>1, <2>2
<1> HIDE DEF m, S
<1>3. Min(S) = m BY <1>1, <1>2 DEF Min
<1> QED BY <1>3 DEF S, m

(* parse_range: a part has bytes and is what the header asks for; a header *)
(* that asks for no byte there is gets none.                               *)
LEMMA RangeIsRight ==
    ASSUME NEW size \in 0..MaxU64, NEW h \in Header
    PROVE  /\ RangeOf(h, size).from \in Nat /\ RangeOf(h, size).to \in Nat
           /\ RangeOf(h, size).from <= RangeOf(h, size).to
           /\ RangeOf(h, size).what # "full" =>
                /\ RangeOf(h, size).what = "unsatisfiable" <=> Asked(h, size) = {}
                /\ RangeOf(h, size).what = "partial" =>
                     RangeOf(h, size).from..(RangeOf(h, size).to - 1) = Asked(h, size)
<1> DEFINE r == RangeOf(h, size)
           none == [what |-> "unsatisfiable", from |-> 0, to |-> 0]
           whole == [what |-> "full", from |-> 0, to |-> size]
           part(from, to) == [what |-> "partial", from |-> from, to |-> to]
           end == IF h.b + 1 <= size THEN h.b + 1 ELSE size
<1>0. /\ h.form \in {"none", "suffix", "from", "both"} /\ h.a \in Nat /\ h.b \in Nat
      /\ h.b \in 0..MaxU64 /\ size \in Nat /\ MaxU64 \in Nat
  BY LookupAssumption
<1>1. Min({h.b + 1, MaxU64, size}) = end BY <1>0, EndSaturates
<1>2. CASE h.form = "none"
  <2>1. r = whole BY <1>2 DEF RangeOf
  <2> QED BY <1>0, <2>1
<1>3. CASE h.form = "suffix"
  <2> DEFINE from == IF h.b >= size THEN 0 ELSE size - h.b
  <2>1. r = IF h.b = 0 \/ size = 0 THEN none ELSE part(from, size)
    BY <1>3 DEF RangeOf
  <2>2. Asked(h, size) = {i \in 0..(size - 1) : size - i <= h.b} BY <1>3 DEF Asked
  <2>3. CASE h.b = 0 \/ size = 0
    <3>1. Asked(h, size) = {} BY <1>0, <2>2, <2>3
    <3> QED BY <2>1, <2>3, <3>1
  <2>4. CASE ~(h.b = 0 \/ size = 0)
    <3>1. from..(size - 1) = Asked(h, size) BY <1>0, <2>2
    <3>2. size - 1 \in Asked(h, size) BY <1>0, <2>2, <2>4
    <3>3. from \in Nat /\ from <= size BY <1>0
    <3>4. r = part(from, size) BY <2>1, <2>4
    <3> QED BY <1>0, <3>1, <3>2, <3>3, <3>4
  <2> QED BY <2>3, <2>4
<1>4. CASE h.form = "from"
  <2>1. r = IF h.a >= size THEN none ELSE part(h.a, size) BY <1>4 DEF RangeOf
  <2>2. Asked(h, size) = {i \in 0..(size - 1) : h.a <= i} BY <1>4 DEF Asked
  <2>3. CASE h.a >= size
    <3>1. Asked(h, size) = {} BY <1>0, <2>2, <2>3
    <3> QED BY <2>1, <2>3, <3>1
  <2>4. CASE ~(h.a >= size)
    <3>1. h.a..(size - 1) = Asked(h, size) BY <1>0, <2>2
    <3>2. size - 1 \in Asked(h, size) BY <1>0, <2>2, <2>4
    <3>3. r = part(h.a, size) BY <2>1, <2>4
    <3> QED BY <1>0, <2>4, <3>1, <3>2, <3>3
  <2> QED BY <2>3, <2>4
<1>5. CASE h.form = "both"
  <2>1. r = IF h.a > h.b \/ h.a >= size \/ end <= h.a THEN none ELSE part(h.a, end)
    BY <1>1, <1>5 DEF RangeOf
  <2>2. Asked(h, size) = {i \in 0..(size - 1) : h.a <= i /\ i <= h.b} BY <1>5 DEF Asked
  <2>3. CASE h.a > h.b \/ h.a >= size \/ end <= h.a
    <3>1. Asked(h, size) = {} BY <1>0, <2>2, <2>3
    <3> QED BY <2>1, <2>3, <3>1
  <2>4. CASE ~(h.a > h.b \/ h.a >= size \/ end <= h.a)
    <3>1. h.a..(end - 1) = Asked(h, size) BY <1>0, <2>2
    <3>2. h.a \in Asked(h, size) BY <1>0, <2>2, <2>4
    <3>3. r = part(h.a, end) BY <2>1, <2>4
    <3>4. end \in Nat /\ h.a <= end BY <1>0, <2>4
    <3> QED BY <1>0, <3>1, <3>2, <3>3, <3>4
  <2> QED BY <2>3, <2>4
<1> QED BY <1>0, <1>2, <1>3, <1>4, <1>5

-----------------------------------------------------------------------------
(* Sources *)

(* sources_of picks someone when someone is left to pick.                  *)
LEMMA SomeSource ==
    ASSUME NEW row \in Row, row.live # {}
    PROVE  SourcesOf(row) # {}
<1> DEFINE tiers == {Tier[p] : p \in row.live}
<1>1. \A p \in row.live : Tier[p] \in Nat BY LookupAssumption DEF Row
<1>2. tiers \in SUBSET Nat /\ tiers # {} BY <1>1
<1>3. PICK t \in tiers : \A u \in tiers : t <= u
  <2> HIDE DEF tiers
  <2> QED BY <1>2, LeastOf
<1>4. PICK p \in row.live : t = Tier[p] OBVIOUS
<1>5. p \in SourcesOf(row) BY <1>3, <1>4 DEF SourcesOf
<1> QED BY <1>5

(* get_narinfo finds a best copy when some row has a source: holders are   *)
(* counted, and of finitely many counts one is the largest.                *)
LEMMA SomeBest ==
    ASSUME Reads, NEW row \in found, SourcesOf(row) # {}
    PROVE  Best # {}
<1> DEFINE n == Cardinality(Peer)
           size(o) == Cardinality(SourcesOf(o))
           short == {n - size(o) : o \in {x \in found : SourcesOf(x) # {}}}
<1>1. n \in Nat /\ IsFiniteSet(Peer) BY LookupAssumption, FS_CardinalityType
<1>2. ASSUME NEW o \in found
      PROVE  /\ size(o) \in Nat /\ n - size(o) \in Nat
             /\ (SourcesOf(o) = {} => size(o) = 0)
  <2>1. SourcesOf(o) \subseteq Peer BY DEF SourcesOf, Reads, Row
  <2>2. IsFiniteSet(SourcesOf(o)) /\ size(o) <= n BY <1>1, <2>1, FS_Subset
  <2>3. size(o) \in Nat BY <2>2, FS_CardinalityType
  <2>4. SourcesOf(o) = {} => size(o) = 0 BY FS_EmptySet
  <2> HIDE DEF n, size
  <2> QED BY <1>1, <2>2, <2>3, <2>4
<1> HIDE DEF n, size
<1>3. short \in SUBSET Nat /\ short # {} BY <1>2
<1>4. PICK k \in short : \A m \in short : k <= m
  <2> HIDE DEF short
  <2> QED BY <1>3, LeastOf
<1>5. PICK best \in found : SourcesOf(best) # {} /\ k = n - size(best) OBVIOUS
<1>6. ASSUME NEW o \in found PROVE size(o) <= size(best)
  <2>1. CASE SourcesOf(o) = {} BY <1>2, <2>1
  <2>2. CASE SourcesOf(o) # {}
    <3>1. n - size(best) <= n - size(o) BY <1>4, <1>5, <2>2
    <3> QED BY <1>1, <1>2, <3>1
  <2> QED BY <2>1, <2>2
<1>7. best \in Best BY <1>5, <1>6 DEF Best, size
<1> QED BY <1>7
-----------------------------------------------------------------------------
(* Steps *)

LEMMA InvInit == Init => IInv
<1> SUFFICES ASSUME Init PROVE IInv
  OBVIOUS
<1>1. Reads BY FS_EmptySet DEF Init, Reads
<1>2. TypeOK BY LookupAssumption DEF Init, TypeOK, Miss
<1>3. Stages /\ Remembered /\ Followed BY DEF Init, Stages, Remembered, Followed, Underway
<1>4. MissIsHonest /\ SourcesAreRight BY <1>2 DEF Init, MissIsHonest, SourcesAreRight
<1>5. RangeIsWhatWasAsked BY DEF Init, RangeIsWhatWasAsked, Miss
<1> QED BY <1>1, <1>3, <1>4, <1>5 DEF IInv

(* While a request has no answer there is nothing to say of its answer.    *)
LEMMA NoAnswer ==
    ASSUME TypeOK, pc # "done", reply = Miss
    PROVE  MissIsHonest /\ SourcesAreRight /\ RangeIsWhatWasAsked
BY DEF MissIsHonest, SourcesAreRight, RangeIsWhatWasAsked, Miss

LEMMA ChangeStep ==
    ASSUME IInv, Change, att' \in [Fact -> SUBSET Key],
           held' \subseteq Origin \X {Hash[f] : f \in Fact}, shut' \subseteq Peer
    PROVE  IInv'
<1> USE DEF IInv
<1>0. /\ TypeOK /\ pc # "done" /\ reply = Miss
      /\ UNCHANGED <<ask, pc, entries, rows, found, reply>>
  BY DEF SourcesAreRight, Change, Stages
<1>1. Reads'
  <2>1. \A f : Concerns(f)' <=> Concerns(f) BY <1>0 DEF Concerns
  <2> QED BY <1>0, <2>1 DEF Reads
<1>2. TypeOK'
  <2>1. changes' \in 0..MaxChanges BY <1>0, LookupAssumption DEF Change, TypeOK
  <2> QED BY <1>0, <2>1 DEF TypeOK
<1>3. Stages' BY <1>0 DEF Stages, Miss
<1>4. Remembered'
  <2> SUFFICES ASSUME Underway' PROVE Remembered'
    BY DEF Remembered
  <2>1. Underway BY <1>0 DEF Underway
  <2>2. /\ past'.held = past.held \cup held' /\ past'.up = past.up \cup (Peer \ shut')
        /\ past'.roaming = (past.roaming \/ roaming')
    BY DEF Change
  <2>3. held' \subseteq past'.held /\ Peer \ shut' \subseteq past'.up /\ (roaming' => past'.roaming)
    BY <2>2
  <2>4. ASSUME NEW row \in found'
        PROVE  /\ row.live \subseteq past'.up
               /\ \A p \in row.probe \cup row.live : <<p, Hash[row.fact]>> \in past'.held
    BY <1>0, <2>1, <2>2 DEF Remembered
  <2> QED BY <2>3, <2>4 DEF Remembered
<1>5. Followed'
  <2> SUFFICES ASSUME Underway' PROVE Followed'
    BY DEF Followed
  <2>1. Underway BY <1>0 DEF Underway
  <2>2. steady' \subseteq steady /\ steady' \subseteq Servable'
        /\ \A s \in steady' : att'[s[1]] = att[s[1]]
    BY DEF Change
  <2>3. ASSUME NEW s \in steady'
        PROVE  \/ [fact |-> s[1], sigs |-> att'[s[1]]] \in entries' \cup rows'
               \/ \E row \in found' : row.fact = s[1]
    BY <1>0, <2>1, <2>2 DEF Followed
  <2>4. ASSUME NEW s \in steady', NEW row \in found', Hash[row.fact] = Hash[s[1]]
        PROVE  s[2] \in row.probe \cup row.live
    BY <1>0, <2>1, <2>2, <2>4 DEF Followed
  <2> QED BY <2>2, <2>3, <2>4 DEF Followed
<1>6. (MissIsHonest /\ SourcesAreRight /\ RangeIsWhatWasAsked)'
  <2>1. pc' # "done" /\ reply' = Miss BY <1>0
  <2> QED BY <1>2, <2>1 DEF MissIsHonest, SourcesAreRight, RangeIsWhatWasAsked, Miss
<1> QED BY <1>1, <1>3, <1>4, <1>5, <1>6

LEMMA MergeStep == ASSUME IInv, NEW f \in Fact, NEW k \in Key, Merge(f, k) PROVE IInv'
<1>1. TypeOK BY DEF IInv, SourcesAreRight
<1>2. Change /\ UNCHANGED <<held, shut>> BY DEF Merge
<1>3. att' \in [Fact -> SUBSET Key] BY <1>1 DEF Merge, TypeOK
<1> QED BY <1>1, <1>2, <1>3, ChangeStep DEF TypeOK

LEMMA HoldStep ==
    ASSUME IInv, NEW o \in Origin, NEW f \in Fact, Hold(o, Hash[f]) PROVE IInv'
<1>1. TypeOK BY DEF IInv, SourcesAreRight
<1>2. Change /\ UNCHANGED <<att, shut>> BY DEF Hold
<1>3. held' \subseteq Origin \X {Hash[g] : g \in Fact} BY <1>1 DEF Hold, TypeOK
<1> QED BY <1>1, <1>2, <1>3, ChangeStep DEF TypeOK

LEMMA TripStep == ASSUME IInv, NEW p \in Peer, Trip(p) PROVE IInv'
<1>1. TypeOK BY DEF IInv, SourcesAreRight
<1>2. Change /\ UNCHANGED <<att, held>> BY DEF Trip
<1>3. shut' \subseteq Peer BY <1>1 DEF Trip, TypeOK
<1> QED BY <1>1, <1>2, <1>3, ChangeStep DEF TypeOK

LEMMA RoamStep == ASSUME IInv, Roam PROVE IInv'
<1>1. TypeOK BY DEF IInv, SourcesAreRight
<1>2. Change /\ UNCHANGED <<att, held, shut>> BY DEF Roam
<1> QED BY <1>1, <1>2, ChangeStep DEF TypeOK

-----------------------------------------------------------------------------

(* What a read of the handler leaves alone.                                *)
Reading == UNCHANGED <<index, ask, reply>>

LEMMA ReadTypes ==
    ASSUME IInv, Reading, pc # "done", pc' \in {"bodies", "holders", "probe", "answer"},
           found' \subseteq Row
    PROVE  (TypeOK /\ MissIsHonest /\ SourcesAreRight /\ RangeIsWhatWasAsked)'
<1>1. TypeOK /\ reply = Miss BY DEF IInv, SourcesAreRight, Stages
<1>2. \A row \in found' : row.probe \cup row.live \subseteq Peer /\ row.wide \subseteq Origin
  BY DEF Row
<1>3. UNCHANGED <<att, held, shut, roaming, changes, reply>> BY DEF Reading, index
<1>4. TypeOK' BY <1>1, <1>2, <1>3 DEF TypeOK
<1> QED BY <1>1, <1>3, <1>4 DEF MissIsHonest, SourcesAreRight, RangeIsWhatWasAsked, Miss

LEMMA ArriveStep == ASSUME IInv, Arrive PROVE IInv'
<1> USE DEF IInv
<1>0. /\ TypeOK /\ reply = Miss /\ pc = "arrive" /\ pc' = "bodies" /\ rows = {} /\ found = {}
      /\ entries' = Scan /\ steady' = Servable /\ UNCHANGED <<index, ask, rows, found, reply>>
  BY DEF Arrive, SourcesAreRight, Stages
<1>1. UNCHANGED <<att, held, shut, roaming, changes, ask>> BY <1>0 DEF index
<1>2. Scan \subseteq Entry /\ IsFiniteSet(Scan) /\ \A e \in Scan : Concerns(e.fact)
  <2> DEFINE D == {g \in Fact : Concerns(g) /\ att[g] # {}}
             s == [f \in D |-> [fact |-> f, sigs |-> att[f]]]
  <2>1. IsFiniteSet(D) BY LookupAssumption, FS_Subset
  <2>2. s \in Surjection(D, Scan) BY DEF Surjection, Scan
  <2>3. IsFiniteSet(Scan) BY <2>1, <2>2, FS_Surjection
  <2> QED BY <1>0, <2>3 DEF Scan, Entry, TypeOK
<1>3. Reads'
  <2>1. \A f : Concerns(f)' <=> Concerns(f) BY <1>1 DEF Concerns
  <2> QED BY <1>0, <1>2, <2>1, FS_EmptySet DEF Reads
<1>4. Stages' BY <1>0 DEF Stages, Miss
<1>5. Remembered' BY <1>0, <1>1 DEF Remembered, Arrive
<1>6. Followed'
  <2>1. Servable' = Servable BY <1>1 DEF Servable, Concerns
  <2>2. ASSUME NEW s \in Servable PROVE [fact |-> s[1], sigs |-> att[s[1]]] \in Scan
    <3>1. s[1] \in Fact /\ Concerns(s[1]) /\ att[s[1]] # {} BY DEF Servable, Feasible
    <3> QED BY <3>1 DEF Scan
  <2> QED BY <1>0, <1>1, <2>1, <2>2 DEF Followed
<1>7. (MissIsHonest /\ SourcesAreRight /\ RangeIsWhatWasAsked)'
  BY <1>0, ReadTypes DEF Reading
<1> QED BY <1>3, <1>4, <1>5, <1>6, <1>7

LEMMA ReadBodyStep == ASSUME IInv, ReadBody PROVE IInv'
<1> USE DEF IInv
<1>0. /\ TypeOK /\ reply = Miss /\ pc = "bodies" /\ pc' \in {"bodies", "holders"}
      /\ UNCHANGED <<index, ask, found, reply, steady, past>>
  BY DEF ReadBody, SourcesAreRight, Stages
<1>1. UNCHANGED <<att, held, shut, roaming, changes, ask>> BY <1>0 DEF index
<1>2. /\ entries' \subseteq entries /\ rows \subseteq rows' /\ rows' \subseteq rows \cup entries
      /\ \A e \in entries : att[e.fact] = e.sigs => e \in entries' \cup rows'
      /\ pc' = "holders" => entries' = {}
  BY <1>0 DEF ReadBody, BodyAt
<1>3. Reads'
  <2>1. \A f : Concerns(f)' <=> Concerns(f) BY <1>1 DEF Concerns
  <2>2. IsFiniteSet(entries') BY <1>2, FS_Subset DEF Reads
  <2>3. IsFiniteSet(rows') BY <1>2, FS_Subset, FS_Union DEF Reads
  <2> QED BY <1>0, <1>2, <2>1, <2>2, <2>3 DEF Reads
<1>4. Stages' BY <1>0, <1>2 DEF Stages, Miss
<1>5. Remembered' BY <1>0, <1>1 DEF Remembered, Underway
<1>6. Followed'
  <2>0. Underway BY <1>0 DEF Underway
  <2>1. Servable' = Servable BY <1>1 DEF Servable, Concerns
  <2>2. ASSUME NEW s \in steady
        PROVE  \/ [fact |-> s[1], sigs |-> att[s[1]]] \in entries' \cup rows'
               \/ \E row \in found : row.fact = s[1]
    BY <1>2, <2>0 DEF Followed
  <2> QED BY <1>0, <1>1, <2>0, <2>1, <2>2 DEF Followed
<1>7. (MissIsHonest /\ SourcesAreRight /\ RangeIsWhatWasAsked)'
  BY <1>0, ReadTypes DEF Reading, Reads
<1> QED BY <1>3, <1>4, <1>5, <1>6, <1>7

LEMMA ReadHoldersStep == ASSUME IInv, ReadHolders PROVE IInv'
<1> USE DEF IInv
<1>0. /\ TypeOK /\ reply = Miss /\ pc = "holders" /\ pc' \in {"holders", "probe"} /\ entries = {}
      /\ UNCHANGED <<index, ask, entries, reply, steady, past>>
  BY DEF ReadHolders, SourcesAreRight, Stages
<1>1. UNCHANGED <<att, held, shut, roaming, changes, ask>> BY <1>0 DEF index
<1>u. Underway BY <1>0 DEF Underway
<1>s. Servable' = Servable BY <1>1 DEF Servable, Concerns
<1>c. \A f : Concerns(f)' <=> Concerns(f) BY <1>1 DEF Concerns
<1>2. CASE rows = {} /\ pc' = "probe" /\ UNCHANGED <<rows, found>>
  <2>1. Reads' BY <1>0, <1>2, <1>c DEF Reads
  <2>2. Stages' BY <1>0, <1>2 DEF Stages, Miss
  <2>3. Remembered' BY <1>0, <1>1, <1>2, <1>u DEF Remembered
  <2>4. Followed' BY <1>0, <1>1, <1>2, <1>u, <1>s DEF Followed
  <2>5. (MissIsHonest /\ SourcesAreRight /\ RangeIsWhatWasAsked)'
    BY <1>0, <1>2, ReadTypes DEF Reading, Reads
  <2> QED BY <2>1, <2>2, <2>3, <2>4, <2>5
<1>3. ASSUME NEW row \in rows, rows' = rows \ {row}, pc' = pc,
             HoldersOf(Hash[row.fact]) = {} \/ ~Feasible(row.sigs), found' = found
      PROVE  IInv'
  <2>1. Reads' BY <1>0, <1>3, <1>c, FS_Subset DEF Reads
  <2>2. Stages' BY <1>0, <1>3 DEF Stages, Miss
  <2>3. Remembered' BY <1>0, <1>1, <1>3, <1>u DEF Remembered
  <2>4. ASSUME NEW s \in steady, row = [fact |-> s[1], sigs |-> att[s[1]]] PROVE FALSE
    <3>1. Feasible(att[s[1]]) /\ <<s[2], Hash[s[1]]>> \in held /\ s[2] \in Origin
      BY <1>u DEF Followed, Servable, Origin
    <3>2. s[2] \in HoldersOf(Hash[s[1]]) BY <3>1 DEF HoldersOf
    <3>3. row.fact = s[1] /\ row.sigs = att[s[1]] BY <2>4
    <3> QED BY <1>3, <3>1, <3>2, <3>3
  <2>5. Followed'
    <3>1. ASSUME NEW s \in steady
          PROVE  \/ [fact |-> s[1], sigs |-> att[s[1]]] \in rows'
                 \/ \E r \in found : r.fact = s[1]
      BY <1>0, <1>3, <1>u, <2>4 DEF Followed
    <3> QED BY <1>0, <1>1, <1>3, <1>u, <1>s, <3>1 DEF Followed
  <2>6. (MissIsHonest /\ SourcesAreRight /\ RangeIsWhatWasAsked)'
    BY <1>0, <1>3, ReadTypes DEF Reading, Reads
  <2> QED BY <2>1, <2>2, <2>3, <2>5, <2>6
<1>4. ASSUME NEW row \in rows, rows' = rows \ {row}, pc' = pc,
             NEW new, new = [fact |-> row.fact, sigs |-> row.sigs, wide |-> HoldersOf(Hash[row.fact]),
                             probe |-> Askable(HoldersOf(Hash[row.fact])), live |-> {}],
             found' = found \cup {new}
      PROVE  IInv'
  <2>0. new \in Row /\ Concerns(new.fact)
    <3>1. row \in Entry /\ Concerns(row.fact) BY DEF Reads
    <3> QED BY <1>4, <3>1 DEF Entry, Row, HoldersOf, Askable
  <2>1. Reads'
    <3>1. IsFiniteSet(found') BY <1>4, FS_AddElement DEF Reads
    <3> QED BY <1>0, <1>4, <1>c, <2>0, <3>1, FS_Subset DEF Reads
  <2>2. Stages' BY <1>0, <1>4 DEF Stages, Miss
  <2>3. Remembered'
    <3>1. /\ new.live \subseteq past.up
          /\ \A p \in new.probe \cup new.live : <<p, Hash[new.fact]>> \in past.held
      BY <1>4, <1>u DEF Remembered, Askable, HoldersOf
    <3> QED BY <1>0, <1>1, <1>4, <1>u, <3>1 DEF Remembered
  <2>4. ASSUME NEW s \in steady, Hash[new.fact] = Hash[s[1]] PROVE s[2] \in new.probe
    <3>1. <<s[2], Hash[s[1]]>> \in held /\ s[2] \in Peer BY <1>u DEF Followed, Servable
    <3> QED BY <1>4, <2>4, <3>1 DEF HoldersOf, Askable, Origin
  <2>5. ASSUME NEW s \in steady
        PROVE  \/ [fact |-> s[1], sigs |-> att[s[1]]] \in rows'
               \/ \E r \in found' : r.fact = s[1]
    <3>1. CASE row = [fact |-> s[1], sigs |-> att[s[1]]]
      <4>1. new.fact = s[1] BY <1>4, <3>1
      <4> QED BY <1>4, <4>1
    <3>2. CASE row # [fact |-> s[1], sigs |-> att[s[1]]]
      BY <1>0, <1>4, <1>u, <3>2 DEF Followed
    <3> QED BY <3>1, <3>2
  <2>6. Followed' BY <1>0, <1>1, <1>4, <1>u, <1>s, <2>4, <2>5 DEF Followed
  <2>7. (MissIsHonest /\ SourcesAreRight /\ RangeIsWhatWasAsked)'
    BY <1>0, <1>4, <2>0, ReadTypes DEF Reading, Reads
  <2> QED BY <2>1, <2>2, <2>3, <2>6, <2>7
<1> QED BY <1>2, <1>3, <1>4 DEF ReadHolders
LEMMA ProbeStep == ASSUME IInv, Probe PROVE IInv'
<1> USE DEF IInv
<1>0. /\ TypeOK /\ reply = Miss /\ pc = "probe" /\ pc' \in {"probe", "answer"}
      /\ entries = {} /\ rows = {}
      /\ UNCHANGED <<index, ask, entries, rows, reply, steady, past>>
  BY DEF Probe, SourcesAreRight, Stages
<1>1. UNCHANGED <<att, held, shut, roaming, changes, ask>> BY <1>0 DEF index
<1>u. Underway BY <1>0 DEF Underway
<1>s. Servable' = Servable BY <1>1 DEF Servable, Concerns
<1>c. \A f : Concerns(f)' <=> Concerns(f) BY <1>1 DEF Concerns
<1>2. CASE (\A row \in found : row.probe = {}) /\ pc' = "answer" /\ UNCHANGED found
  <2>1. Reads' BY <1>0, <1>2, <1>c DEF Reads
  <2>2. Stages' BY <1>0, <1>2 DEF Stages, Miss
  <2>3. Remembered' BY <1>0, <1>1, <1>2, <1>u DEF Remembered
  <2>4. Followed' BY <1>0, <1>1, <1>2, <1>u, <1>s DEF Followed
  <2>5. (MissIsHonest /\ SourcesAreRight /\ RangeIsWhatWasAsked)'
    BY <1>0, <1>2, ReadTypes DEF Reading, Reads
  <2> QED BY <2>1, <2>2, <2>3, <2>4, <2>5
<1>3. ASSUME NEW row \in found, NEW p \in row.probe, pc' = pc, NEW new, new = Live(row, p),
             found' = (found \ {row}) \cup {new}
      PROVE  IInv'
  <2>0. /\ row \in Row /\ p \in Peer
        /\ new \in Row /\ new.fact = row.fact /\ Concerns(new.fact)
        /\ new.probe = row.probe \ {p}
        /\ new.live = IF p \in shut THEN row.live ELSE row.live \cup {p}
    <3>1. row \in Row /\ Concerns(row.fact) BY DEF Reads
    <3> QED BY <1>3, <3>1 DEF Row, Live
  <2>1. Reads'
    <3>1. IsFiniteSet(found \ {row}) BY FS_RemoveElement DEF Reads
    <3>2. IsFiniteSet(found') BY <1>3, <3>1, FS_AddElement
    <3> QED BY <1>0, <1>3, <1>c, <2>0, <3>2 DEF Reads
  <2>2. Stages' BY <1>0, <1>3 DEF Stages, Miss
  <2>3. Remembered'
    <3>1. /\ new.live \subseteq past.up
          /\ \A q \in new.probe \cup new.live : <<q, Hash[new.fact]>> \in past.held
      BY <1>u, <1>3, <2>0 DEF Remembered
    <3> QED BY <1>0, <1>1, <1>3, <1>u, <3>1 DEF Remembered
  <2>4. ASSUME NEW s \in steady, Hash[new.fact] = Hash[s[1]]
        PROVE  s[2] \in new.probe \cup new.live
    <3>1. s[2] \in row.probe \cup row.live /\ s[2] \notin shut
      BY <1>u, <2>0, <2>4 DEF Followed, Servable
    <3> QED BY <2>0, <3>1
  <2>5. ASSUME NEW s \in steady PROVE \E r \in found' : r.fact = s[1]
    <3>1. PICK r \in found : r.fact = s[1] BY <1>0, <1>u DEF Followed
    <3> QED BY <1>3, <2>0, <3>1
  <2>6. Followed' BY <1>0, <1>1, <1>3, <1>u, <1>s, <2>4, <2>5 DEF Followed
  <2>7. (MissIsHonest /\ SourcesAreRight /\ RangeIsWhatWasAsked)'
    BY <1>0, <1>3, <2>0, ReadTypes DEF Reading, Reads
  <2> QED BY <2>1, <2>2, <2>3, <2>6, <2>7
<1> QED BY <1>2, <1>3 DEF Probe

-----------------------------------------------------------------------------
(* The answer *)

Answering ==
    /\ pc = "answer" /\ pc' = "done"
    /\ UNCHANGED <<index, ask, entries, rows, found, steady, past>>

(* What each source was, at the moment of the answer.                      *)
LEMMA SourceIsRight ==
    ASSUME IInv, pc = "answer", NEW row \in found, NEW p \in SourcesOf(row)
    PROVE  /\ p \in Peer /\ p \in past.up /\ <<p, Hash[row.fact]>> \in past.held
           /\ \A s \in steady : Hash[s[1]] = Hash[row.fact] => Tier[p] <= Tier[s[2]]
<1>1. p \in row.live /\ (\A q \in row.live : Tier[p] <= Tier[q]) /\ row.probe = {} /\ Underway
  BY DEF SourcesOf, IInv, Stages, Underway
<1>2. p \in Peer BY <1>1 DEF IInv, Reads, Row
<1>3. p \in past.up /\ <<p, Hash[row.fact]>> \in past.held BY <1>1 DEF IInv, Remembered
<1>4. \A s \in steady : Hash[s[1]] = Hash[row.fact] => s[2] \in row.live
  BY <1>1 DEF IInv, Followed
<1> QED BY <1>1, <1>2, <1>3, <1>4

(* A copy that could be served all along has a row, and the row a source.  *)
LEMMA SteadyIsFound ==
    ASSUME IInv, pc = "answer", NEW s \in steady
    PROVE  \E row \in found : SourcesOf(row) # {}
<1>1. Underway /\ entries = {} /\ rows = {} BY DEF IInv, Stages, Underway
<1>2. PICK row \in found : row.fact = s[1] BY <1>1 DEF IInv, Followed
<1>3. s[2] \in row.live /\ row \in Row BY <1>1, <1>2 DEF IInv, Followed, Stages, Reads
<1> QED BY <1>3, SomeSource

(* An answer keeps what was read, and is right if it is a miss for a reason*)
(* or names the sources of rows that were found.                           *)
LEMMA AnswerStep ==
    ASSUME IInv, Answering,
           reply'.what \in {"miss", "info", "nar"},
           reply'.what = "miss" => past.roaming \/ steady = {},
           reply'.from \subseteq Peer,
           reply'.range.from <= reply'.range.to,
           \A p \in reply'.from : \E row \in found :
              p \in SourcesOf(row) /\ \A f \in reply'.fact : Hash[f] = Hash[row.fact],
           RangeIsWhatWasAsked'
    PROVE  IInv'
<1> USE DEF IInv
<1>0. TypeOK /\ UNCHANGED <<att, held, shut, roaming, changes, ask, entries, rows, found, steady, past>>
  BY DEF SourcesAreRight, Answering, index
<1>1. Reads'
  <2>1. \A f : Concerns(f)' <=> Concerns(f) BY <1>0 DEF Concerns
  <2> QED BY <1>0, <2>1 DEF Reads
<1>2. (Stages /\ Remembered /\ Followed)'
  BY DEF Answering, Stages, Remembered, Followed, Underway
<1>3. MissIsHonest' BY <1>0 DEF MissIsHonest
<1>4. TypeOK' BY <1>0 DEF TypeOK, Answering
<1>5. ASSUME NEW p \in reply'.from
      PROVE  /\ p \in past.up /\ \A f \in reply'.fact : <<p, Hash[f]>> \in past.held
             /\ \A s \in steady : s[1] \in reply'.fact => Tier[p] <= Tier[s[2]]
  <2>1. PICK row \in found :
           p \in SourcesOf(row) /\ \A f \in reply'.fact : Hash[f] = Hash[row.fact]
    BY <1>5
  <2>2. /\ p \in past.up /\ <<p, Hash[row.fact]>> \in past.held
        /\ \A s \in steady : Hash[s[1]] = Hash[row.fact] => Tier[p] <= Tier[s[2]]
    BY <2>1, SourceIsRight DEF Answering
  <2> QED BY <2>1, <2>2
<1>6. SourcesAreRight' BY <1>0, <1>4, <1>5 DEF SourcesAreRight
<1> QED BY <1>1, <1>2, <1>3, <1>6

LEMMA MissStep ==
    ASSUME IInv, Answering, reply' = Miss, past.roaming \/ steady = {}
    PROVE  IInv'
<1>1. /\ reply'.what = "miss" /\ reply'.from = {} /\ reply'.fact = {}
      /\ reply'.range.from = 0 /\ reply'.range.to = 0
  BY DEF Miss
<1>2. RangeIsWhatWasAsked' BY <1>1 DEF RangeIsWhatWasAsked
<1> QED BY <1>1, <1>2, AnswerStep

LEMMA RefusedIsRoaming ==
    ASSUME IInv, pc = "answer", NEW f, Refused(f) PROVE past.roaming
BY DEF IInv, Remembered, Underway, Refused

LEMMA AnswerInfoStep == ASSUME IInv, AnswerInfo PROVE IInv'
<1>0. Answering /\ pc = "answer" BY DEF AnswerInfo, Answering
<1>1. CASE Best = {} /\ reply' = Miss
  <2>1. ASSUME NEW s \in steady PROVE FALSE
    BY <1>0, <1>1, <2>1, SteadyIsFound, SomeBest DEF IInv
  <2> QED BY <1>0, <1>1, <2>1, MissStep
<1>2. ASSUME NEW row \in Best, Refused(row.fact), reply' = Miss PROVE IInv'
  BY <1>0, <1>2, RefusedIsRoaming, MissStep
<1>3. ASSUME NEW row \in Best,
             reply' = [Miss EXCEPT !.what = "info", !.fact = {row.fact}, !.from = SourcesOf(row)]
      PROVE  IInv'
  <2>1. /\ reply'.what = "info" /\ reply'.from = SourcesOf(row) /\ reply'.fact = {row.fact}
        /\ reply'.range.from = 0 /\ reply'.range.to = 0
    BY <1>3 DEF Miss
  <2>2. row \in found BY DEF Best
  <2>3. SourcesOf(row) \subseteq Peer BY <2>2 DEF SourcesOf, IInv, Reads, Row
  <2>4. RangeIsWhatWasAsked' BY <2>1 DEF RangeIsWhatWasAsked
  <2> QED BY <1>0, <2>1, <2>2, <2>3, <2>4, AnswerStep
<1> QED BY <1>1, <1>2, <1>3 DEF AnswerInfo

LEMMA AnswerNarStep == ASSUME IInv, AnswerNar PROVE IInv'
<1> DEFINE sources == UNION {SourcesOf(row) : row \in found}
<1>0. Answering /\ pc = "answer" /\ ask.what = "nar" BY DEF AnswerNar, Answering
<1>1. CASE sources = {} /\ reply' = Miss
  <2>1. ASSUME NEW s \in steady PROVE FALSE
    BY <1>0, <1>1, <2>1, SteadyIsFound
  <2> QED BY <1>0, <1>1, <2>1, MissStep
<1>2. ASSUME NEW row \in Widest, Refused(row.fact), reply' = Miss PROVE IInv'
  BY <1>0, <1>2, RefusedIsRoaming, MissStep
<1>3. ASSUME NEW row \in Widest, NEW h \in Header,
             reply' = [what |-> "nar", fact |-> {row.fact}, from |-> sources,
                       range |-> RangeOf(h, Size[Hash[row.fact]]), header |-> h]
      PROVE  IInv'
  <2> DEFINE size == Size[Hash[row.fact]]
             range == RangeOf(h, size)
  <2>1. row \in found /\ row.fact \in Fact BY DEF Widest, IInv, Reads, Row
  <2>2. size \in 0..MaxU64
    <3>1. Hash[row.fact] \in {Hash[f] : f \in Fact} BY <2>1
    <3> QED BY <3>1, LookupAssumption
  <2>3. /\ reply'.what = "nar" /\ reply'.from = sources /\ reply'.fact = {row.fact}
        /\ reply'.range = range /\ reply'.header = h
    BY <1>3
  <2>4. \A o \in found : Hash[o.fact] = ask.of
    BY <1>0 DEF IInv, Reads, Concerns
  <2>5. sources \subseteq Peer BY DEF SourcesOf, IInv, Reads, Row
  <2>6. \A p \in sources : \E o \in found :
           p \in SourcesOf(o) /\ \A f \in {row.fact} : Hash[f] = Hash[o.fact]
    BY <2>1, <2>4
  <2> HIDE DEF size, range, sources
  <2>7. /\ range.from <= range.to
        /\ range.what # "full" =>
             /\ range.what = "unsatisfiable" <=> Asked(h, size) = {}
             /\ range.what = "partial" => range.from..(range.to - 1) = Asked(h, size)
    BY <2>2, RangeIsRight DEF range
  <2>8. RangeIsWhatWasAsked'
    <3> SUFFICES ASSUME NEW f \in reply'.fact, reply'.what = "nar", reply'.range.what # "full"
                 PROVE  LET asked == Asked(reply'.header, Size[Hash[f]]) IN
                        /\ reply'.range.what = "unsatisfiable" <=> asked = {}
                        /\ reply'.range.what = "partial" =>
                             reply'.range.from..(reply'.range.to - 1) = asked
      BY DEF RangeIsWhatWasAsked
    <3>1. f = row.fact BY <2>3
    <3>2. Asked(reply'.header, Size[Hash[f]]) = Asked(h, size) BY <2>3, <3>1 DEF size
    <3> QED BY <2>3, <2>7, <3>2
  <2> QED BY <1>0, <2>3, <2>5, <2>6, <2>7, <2>8, AnswerStep
<1> QED BY <1>1, <1>2, <1>3 DEF AnswerNar

-----------------------------------------------------------------------------

LEMMA InvStep == ASSUME IInv, [Next]_vars PROVE IInv'
<1>1. CASE \E f \in Fact, k \in Key : Merge(f, k) BY <1>1, MergeStep
<1>2. CASE \E o \in Origin, f \in Fact : Hold(o, Hash[f]) BY <1>2, HoldStep
<1>3. CASE \E p \in Peer : Trip(p) BY <1>3, TripStep
<1>4. CASE Roam BY <1>4, RoamStep
<1>5. CASE Arrive BY <1>5, ArriveStep
<1>6. CASE ReadBody BY <1>6, ReadBodyStep
<1>7. CASE ReadHolders BY <1>7, ReadHoldersStep
<1>8. CASE Probe BY <1>8, ProbeStep
<1>9. CASE AnswerInfo BY <1>9, AnswerInfoStep
<1>10. CASE AnswerNar BY <1>10, AnswerNarStep
<1>11. CASE UNCHANGED vars
  BY <1>11 DEF vars, index, IInv, Reads, Concerns, Stages, Remembered, Followed, Underway, Servable,
               MissIsHonest, SourcesAreRight, TypeOK, RangeIsWhatWasAsked
<1> QED BY <1>1, <1>2, <1>3, <1>4, <1>5, <1>6, <1>7, <1>8, <1>9, <1>10, <1>11 DEF Next

LEMMA Invariance == Spec => []IInv
BY InvInit, InvStep, PTL DEF Spec

(* "all-holders-dead becomes an instant 404", and nothing else does: while *)
(* get_narinfo and get_nar read the index entry by entry, peer by peer, a  *)
(* copy that one peer could serve all along is never overlooked.           *)
THEOREM NoCopyIsOverlooked == Spec => []MissIsHonest
<1>1. IInv => MissIsHonest BY DEF IInv
<1> QED BY <1>1, Invariance, PTL

(* Whoever get_narinfo or get_nar commits to was a holder, and could be    *)
(* asked, at moments of this request, and sources_of passes over no lower  *)
(* tier that could serve all along.                                        *)
THEOREM SourcesAreSound == Spec => []SourcesAreRight
<1>1. IInv => SourcesAreRight BY DEF IInv
<1> QED BY <1>1, Invariance, PTL

(* The part of a NAR that get_nar sends is the one that the Range header   *)
(* names, for every header and size that fit a u64 (parse_range).          *)
THEOREM RangesAreHonoured == Spec => []RangeIsWhatWasAsked
<1>1. IInv => RangeIsWhatWasAsked BY DEF IInv
<1> QED BY <1>1, Invariance, PTL
=============================================================================
