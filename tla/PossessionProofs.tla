-------------------------- MODULE PossessionProofs --------------------------
(* Proofs about Possession, for every mesh, bound and choice of faults.    *)
EXTENDS Possession, TLAPS

(***************************************************************************)
(* Lemmas about possession sets                                            *)
(***************************************************************************)

(* Rows numbered once each.                                                *)
Functional(rows) == \A r, q \in rows : r.seq = q.seq => r = q

(* The rows of a record's whole history: one number each, up to its seq.   *)
History(rec, rows) ==
    /\ rows \subseteq Row
    /\ Functional(rows)
    /\ \A r \in rows : 1 <= r.seq /\ r.seq <= rec.seq
    /\ rec.held = Live(rows)
    /\ rec.jour \subseteq rows

-----------------------------------------------------------------------------
(* The inductive invariant *)

(* The Origin's store is its own history, and all but its journal's tail   *)
(* and watermarks are on its disk.                                         *)
OriginInv ==
    /\ History(store[Origin], log)
    /\ History(disk[Origin], log)
    /\ disk[Origin].gen = store[Origin].gen
    /\ disk[Origin].seq = store[Origin].seq

(* A generation is vouched for only while it is the Origin's, and none is  *)
(* greater in any clock.                                                   *)
VouchInv ==
    /\ vouched # 0 => vouched = store[Origin].gen /\ vouched = stamped
    /\ stamped <= mint
    /\ selfgen <= mint
    /\ \A n \in Node : store[n].gen <= stamped /\ disk[n].gen <= stamped

ImageInv ==
    \A im \in image : /\ History(im.rec, im.log)
                      /\ im.rec.gen <= stamped
                      /\ im.selfgen <= mint

ReplicaInv == \A n \in Node : Faithful(store[n]) /\ Faithful(disk[n])

(* Where a pull stands, whatever generation it is about.                   *)
PhaseInv(n, p) ==
    LET q == pull[n][p] IN
    /\ q.phase = "remint" => q.gen <= mint
    /\ q.phase # "remint" => q.gen <= stamped
    /\ n = Origin => q.phase \in {"idle", "asked", "line", "remint"}
    /\ (n # Origin /\ q.phase \in {"asked", "suffix", "gotSuffix"})
         => q.hgen <= store[n].gen
    /\ q.phase \in {"suffix", "gotSuffix", "commit"} => q.gen = q.hgen
    /\ q.phase = "commit" => /\ q.rows # {}
                             /\ {r.seq : r \in q.rows} = (q.hseq + 1)..q.last
    /\ q.phase = "replacing" => ~Stale(q, store[n])

(* What a pull carries, when the generation it is about is vouched for.    *)
CargoInv(n, p) ==
    LET q == pull[n][p] IN
    Vouched(q.gen) =>
        /\ q.phase \in {"suffix", "snapshot"}
             => store[p].gen = q.gen /\ q.seq <= store[p].seq
        /\ q.phase \in {"gotSuffix", "commit"} => q.rows \subseteq log
        /\ q.phase \in {"gotSnapshot", "replacing"}
             => q.seq <= store[Origin].seq /\ Settled(q.snap, q.seq, log)

PullInv == \A n \in Node, p \in Node : PhaseInv(n, p) /\ CargoInv(n, p)

LockInv == \A n, p1, p2 \in Node :
    pull[n][p1].phase = "replacing" /\ pull[n][p2].phase = "replacing" => p1 = p2

IInv == OriginInv /\ VouchInv /\ ImageInv /\ ReplicaInv /\ PullInv /\ LockInv

-----------------------------------------------------------------------------
(* Types *)

USE DEF Phase

(* The records an action puts in place are of the declared types.          *)
LEMMA IdleType == Idle \in Pull
BY DEF Idle, Pull

LEMMA NoStoreType == NoStore \in Store
BY DEF NoStore, Store

LEMMA LiveType == \A rows : Live(rows) \subseteq Hash
BY DEF Live

LEMMA ApplyEventsType ==
    ASSUME NEW s \in Store, NEW gen \in Nat, NEW last \in Nat, NEW rows \in SUBSET Row
    PROVE  ApplyEvents(s, gen, last, rows) \in Store
BY LiveType DEF ApplyEvents, ApplyHolds, Store

LEMMA SetPullType ==
    ASSUME TypeOK, NEW n \in Node, NEW p \in Node, NEW q \in Pull, SetPull(n, p, q)
    PROVE  pull' \in [Node -> [Node -> Pull]]
BY DEF TypeOK, SetPull

LEMMA RecordWatermarkType ==
    ASSUME NEW s \in Store, NEW n \in Node, NEW q \in Pull
    PROVE  RecordWatermark(s, n, q) \in Store
BY DEF RecordWatermark, Maximum, Store, Pull

LEMMA ReplyType ==
    ASSUME NEW s \in Store, NEW n \in Node, NEW q \in Pull
    PROVE  Reply(n, q, s) \in Pull
BY IdleType DEF Reply, Store, Pull

(* TypeOK is inductive on its own.                                         *)
LEMMA TypeInit == Init => TypeOK
<1>1. [NoStore EXCEPT !.gen = 1] \in Store BY NoStoreType DEF Store
<1> QED BY <1>1, OriginAssumption, NoStoreType, IdleType DEF Init, TypeOK

LEMMA ExporterType == ASSUME TypeOK, Exporter PROVE TypeOK'
<1>1. ASSUME NEW op \in {"have", "drop"}, NEW h \in Hash, ExportBegin(op, h)
      PROVE  TypeOK'
  BY <1>1, OriginAssumption DEF TypeOK, ExportBegin, Export, Store
<1>2. ASSUME NEW e \in export, ExportCommit(e)
      PROVE  TypeOK'
  <2> DEFINE r == [seq |-> e.seq + 1, op |-> e.op, hash |-> e.hash]
  <2>1. e \in Export BY DEF TypeOK
  <2>2. r \in Row BY <2>1 DEF Export, Row
  <2>3. ApplyEvents(store[Origin], e.gen, e.seq + 1, {r}) \in Store
    BY <2>1, <2>2, OriginAssumption, ApplyEventsType DEF TypeOK, Export
  <2>4. store' \in [Node -> Store] /\ store'[Origin] \in Store
    BY <1>2, <2>3, OriginAssumption DEF TypeOK, ExportCommit
  <2>5. disk' \in [Node -> Store] BY <1>2, <2>4 DEF TypeOK, ExportCommit
  <2>6. log' \subseteq Row /\ export' \subseteq Export
    BY <1>2, <2>2 DEF TypeOK, ExportCommit
  <2> QED BY <1>2, <2>4, <2>5, <2>6 DEF TypeOK, ExportCommit
<1>3. ASSUME NEW e \in export, ExportBail(e)
      PROVE  TypeOK'
  BY <1>3 DEF TypeOK, ExportBail
<1> QED BY <1>1, <1>2, <1>3 DEF Exporter

LEMMA ExchangeType ==
    ASSUME TypeOK, NEW n \in Node, NEW p \in Node, Exchange(n, p) PROVE TypeOK'
<1> DEFINE q == pull[n][p]
<1>q. q \in Pull /\ store[n] \in Store /\ store[p] \in Store BY DEF TypeOK
<1>1. CASE Ask(n, p)
  <2>1. [Idle EXCEPT !.phase = "asked", !.hgen = store[n].gen, !.hseq = store[n].seq] \in Pull
    BY <1>q, IdleType DEF Pull, Store
  <2> QED BY <1>1, <2>1, SetPullType DEF Ask, TypeOK
<1>2. CASE HandleSync(n, p)
  <2>1. pull' \in [Node -> [Node -> Pull]]
    BY <1>2, <1>q, ReplyType, SetPullType DEF HandleSync
  <2>2. store' \in [Node -> Store]
    BY <1>2, <1>q, RecordWatermarkType DEF HandleSync, TypeOK
  <2> QED BY <1>2, <2>1, <2>2 DEF HandleSync, TypeOK
<1>3. CASE ReadSuffix(n, p)
  <2> DEFINE rows == {r \in store[p].jour : r.seq > q.hseq}
  <2>1. rows \subseteq Row BY <1>q DEF Store
  <2>2. \A last \in {r.seq : r \in rows} :
          [q EXCEPT !.phase = "gotSuffix", !.last = last,
                    !.rows = {r \in rows : r.seq <= last}] \in Pull
    <3> SUFFICES ASSUME NEW last \in {r.seq : r \in rows}
                 PROVE  [q EXCEPT !.phase = "gotSuffix", !.last = last,
                                  !.rows = {r \in rows : r.seq <= last}] \in Pull
      OBVIOUS
    <3>1. last \in Nat /\ {r \in rows : r.seq <= last} \subseteq Row BY <2>1 DEF Row
    <3> HIDE DEF rows
    <3> QED BY <1>q, <3>1 DEF Pull
  <2>3. pull' \in [Node -> [Node -> Pull]]
    BY <1>3, <2>2, IdleType, SetPullType DEF ReadSuffix
  <2> QED BY <1>3, <2>3 DEF ReadSuffix, TypeOK
<1>4. CASE ReadSnapshot(n, p)
  <2>1. [q EXCEPT !.phase = "gotSnapshot", !.snap = store[p].held] \in Pull
    BY <1>q DEF Pull, Store
  <2> QED BY <1>4, <2>1, SetPullType DEF ReadSnapshot, TypeOK
<1>5. CASE PullFails(n, p)
  BY <1>5, IdleType, SetPullType DEF PullFails, TypeOK
<1> QED BY <1>1, <1>2, <1>3, <1>4, <1>5 DEF Exchange

LEMMA ApplyType ==
    ASSUME TypeOK, NEW n \in Node, NEW p \in Node, Apply(n, p) PROVE TypeOK'
<1> DEFINE q == pull[n][p]
           s == store[n]
<1>q. q \in Pull /\ s \in Store BY DEF TypeOK
<1>1. CASE CheckSuffix(n, p)
  <2>1. [q EXCEPT !.phase = "commit", !.rows = News(q, s),
                  !.hgen = s.gen, !.hseq = s.seq] \in Pull
    <3>1. News(q, s) \subseteq Row BY <1>q DEF News, Pull
    <3> QED BY <1>q, <3>1 DEF Pull, Store
  <2>2. pull' \in [Node -> [Node -> Pull]]
    BY <1>1, <2>1, IdleType, SetPullType DEF CheckSuffix
  <2> QED BY <1>1, <2>2 DEF CheckSuffix, TypeOK
<1>2. CASE CommitSuffix(n, p)
  <2>1. pull' \in [Node -> [Node -> Pull]]
    BY <1>2, IdleType, SetPullType DEF CommitSuffix
  <2>2. ApplyEvents(s, q.gen, q.last, q.rows) \in Store
    BY <1>q, ApplyEventsType DEF Pull
  <2>3. store' \in [Node -> Store] BY <1>2, <2>2 DEF CommitSuffix, TypeOK
  <2> QED BY <1>2, <2>1, <2>3 DEF CommitSuffix, TypeOK
<1>3. CASE BeginReplace(n, p)
  <2>1. [q EXCEPT !.phase = "replacing"] \in Pull BY <1>q DEF Pull
  <2>2. pull' \in [Node -> [Node -> Pull]]
    BY <1>3, <2>1, IdleType, SetPullType DEF BeginReplace
  <2> QED BY <1>3, <2>2 DEF BeginReplace, TypeOK
<1>4. CASE ReplaceChunk(n, p)
  <2>1. PICK part : store' = [store EXCEPT ![n].held = (s.held \ (part \ q.snap))
                                                       \cup (part \cap q.snap)]
    BY <1>4 DEF ReplaceChunk
  <2>2. (s.held \ (part \ q.snap)) \cup (part \cap q.snap) \in SUBSET Hash
    BY <1>q DEF Store, Pull
  <2>3. [s EXCEPT !.held = (s.held \ (part \ q.snap)) \cup (part \cap q.snap)] \in Store
    BY <1>q, <2>2 DEF Store
  <2>4. store' \in [Node -> Store] BY <2>1, <2>3 DEF TypeOK
  <2> QED BY <1>4, <2>4 DEF ReplaceChunk, TypeOK
<1>5. CASE ReplaceTrim(n, p)
  <2>1. PICK cut : store' = [store EXCEPT ![n].jour = {r \in @ : r.seq > cut}]
    BY <1>5 DEF ReplaceTrim
  <2>2. [s EXCEPT !.jour = {r \in @ : r.seq > cut}] \in Store BY <1>q DEF Store
  <2>3. store' \in [Node -> Store] BY <2>1, <2>2 DEF TypeOK
  <2> QED BY <1>5, <2>3 DEF ReplaceTrim, TypeOK
<1>6. CASE FinishReplace(n, p)
  <2>1. [s EXCEPT !.gen = q.gen, !.seq = q.seq, !.tail = q.seq, !.jour = {}] \in Store
    BY <1>q DEF Store, Pull
  <2>2. store' \in [Node -> Store] BY <1>6, <2>1 DEF FinishReplace, TypeOK
  <2>3. pull' \in [Node -> [Node -> Pull]]
    BY <1>6, IdleType, SetPullType DEF FinishReplace
  <2> QED BY <1>6, <2>2, <2>3 DEF FinishReplace, TypeOK
<1> QED BY <1>1, <1>2, <1>3, <1>4, <1>5, <1>6 DEF Apply

LEMMA StampType ==
    ASSUME TypeOK, NEW s \in Store, NEW gen \in Nat, Stamp(s, gen)
    PROVE  /\ store' \in [Node -> Store]
           /\ disk' \in [Node -> Store]
           /\ stamped' \in Nat
<1>1. [s EXCEPT !.gen = gen] \in Store BY DEF Store
<1> QED BY <1>1 DEF TypeOK, Stamp, Maximum

LEMMA RemintType ==
    ASSUME TypeOK, NEW p \in Node, Remint(p) PROVE TypeOK'
<1> USE OriginAssumption
<1>q. pull[Origin][p] \in Pull /\ store[Origin] \in Store BY DEF TypeOK
<1>1. CASE NoticeFuture(p)
  <2>1. [Idle EXCEPT !.phase = "remint", !.gen = mint + 1] \in Pull
    <3>1. mint + 1 \in Nat BY DEF TypeOK
    <3> QED BY <3>1, IdleType DEF Pull
  <2>2. pull' \in [Node -> [Node -> Pull]]
    BY <1>1, <2>1, IdleType, SetPullType DEF NoticeFuture
  <2>3. disk' \in [Node -> Store] BY <1>1, <1>q DEF NoticeFuture, TypeOK
  <2> QED BY <1>1, <2>2, <2>3 DEF NoticeFuture, TypeOK
<1>2. CASE StampGeneration(p)
  <2>1. pull' \in [Node -> [Node -> Pull]]
    BY <1>2, IdleType, SetPullType DEF StampGeneration
  <2>2. pull[Origin][p].gen \in Nat BY <1>q DEF Pull
  <2>3. /\ store' \in [Node -> Store]
        /\ disk' \in [Node -> Store]
        /\ stamped' \in Nat
    BY <1>2, <1>q, <2>2, StampType DEF StampGeneration
  <2> QED BY <1>2, <2>1, <2>2, <2>3 DEF StampGeneration, TypeOK
<1> QED BY <1>1, <1>2 DEF Remint

LEMMA MaintainType ==
    ASSUME TypeOK, NEW n \in Node, Maintain(n) PROVE TypeOK'
<1>1. CASE PlanCompaction(n)
  <2>1. \A f \in (store[n].tail + 1)..store[n].seq : f \in Nat BY DEF TypeOK, Store
  <2> QED BY <1>1, <2>1 DEF PlanCompaction, TypeOK
<1>2. CASE CompactJournal(n)
  <2> DEFINE rest == {r \in store[n].jour : ~(store[n].tail < r.seq /\ r.seq <= plan[n])}
  <2>0. store[n] \in Store /\ plan[n] \in Nat BY DEF TypeOK
  <2>a. rest \in SUBSET store[n].jour OBVIOUS
  <2>b. CompactTo(store[n], plan[n]) \in {store[n], [store[n] EXCEPT !.tail = plan[n], !.jour = rest]}
    BY DEF CompactTo
  <2> HIDE DEF rest
  <2>c. [store[n] EXCEPT !.tail = plan[n], !.jour = rest] \in Store BY <2>0, <2>a DEF Store
  <2>1. CompactTo(store[n], plan[n]) \in Store BY <2>0, <2>b, <2>c
  <2>2. store' \in [Node -> Store] BY <1>2, <2>1 DEF CompactJournal, TypeOK
  <2> QED BY <1>2, <2>2 DEF CompactJournal, TypeOK
<1> QED BY <1>1, <1>2 DEF Maintain

LEMMA ForgetType ==
    ASSUME TypeOK, NEW n \in Node, Forget(n)
    PROVE  /\ pull' \in [Node -> [Node -> Pull]]
           /\ plan' \in [Node -> Nat]
           /\ export' \subseteq Export
BY IdleType DEF TypeOK, Forget

LEMMA ReopenType ==
    ASSUME TypeOK, NEW n \in Node, NEW s \in Store, Reopen(n, s)
    PROVE  /\ store' \in [Node -> Store]
           /\ disk' \in [Node -> Store]
           /\ stamped' \in Nat
           /\ vouched' \in Nat
<1>1. CASE n = Origin /\ Stamp(s, selfgen)
  BY <1>1, StampType DEF TypeOK, Reopen
<1>2. CASE n # Origin
  BY <1>2 DEF TypeOK, Reopen
<1> QED BY <1>1, <1>2 DEF Reopen

LEMMA FaultType == ASSUME TypeOK, Fault PROVE TypeOK'
<1> USE DEF Strikes
<1>1. ASSUME NEW n \in Node, Crash(n) PROVE TypeOK'
  <2>1. store[n] \in Store BY DEF TypeOK
  <2> QED BY <1>1, <2>1, ForgetType, ReopenType DEF Crash, TypeOK
<1>2. ASSUME NEW n \in Node, Flush(n) PROVE TypeOK'
  BY <1>2 DEF Flush, TypeOK
<1>3. ASSUME NEW n \in Node, HostCrash(n) PROVE TypeOK'
  <2>1. disk[n] \in Store BY DEF TypeOK
  <2> QED BY <1>3, <2>1, ForgetType, ReopenType DEF HostCrash, TypeOK
<1>4. ASSUME NEW n \in Node, LoseReplica(n) PROVE TypeOK'
  BY <1>4, ForgetType, NoStoreType DEF LoseReplica, TypeOK
<1>5. CASE LoseOrigin
  <2>1. mint + 1 \in Nat BY DEF TypeOK
  <2>2. /\ store' \in [Node -> Store]
        /\ disk' \in [Node -> Store]
        /\ stamped' \in Nat
    BY <1>5, <2>1, NoStoreType, StampType DEF LoseOrigin
  <2> QED BY <1>5, <2>1, <2>2, OriginAssumption, ForgetType DEF LoseOrigin, TypeOK
<1>6. CASE TakeImage
  BY <1>6, OriginAssumption DEF TakeImage, TypeOK, Image
<1>7. ASSUME NEW im \in image, RestoreImage(im) PROVE TypeOK'
  <2>1. im \in Image BY DEF TypeOK
  <2>2. /\ im.rec \in Store
        /\ im.selfgen \in Nat
        /\ im.log \subseteq Row
    BY <2>1 DEF Image
  <2>3. /\ store' \in [Node -> Store]
        /\ disk' \in [Node -> Store]
        /\ stamped' \in Nat
    BY <1>7, <2>2, StampType DEF RestoreImage
  <2> QED BY <1>7, <2>2, <2>3, OriginAssumption, ForgetType DEF RestoreImage, TypeOK
<1> QED BY <1>1, <1>2, <1>3, <1>4, <1>5, <1>6, <1>7 DEF Fault

LEMMA TypeNext == TypeOK /\ [Next]_vars => TypeOK'
<1> SUFFICES ASSUME TypeOK, [Next]_vars PROVE TypeOK'
  OBVIOUS
<1>1. CASE UNCHANGED vars BY <1>1 DEF vars, TypeOK
<1> QED BY <1>1, ExporterType, ExchangeType, ApplyType, RemintType, MaintainType, FaultType
        DEF Next

(* No step of any node, fault included, leaves the declared ranges: clocks, *)
(* watermarks and journal rows stay what index.rs and rocks.rs store.      *)
THEOREM TypeCorrect == Spec => []TypeOK
<1> QED BY TypeInit, TypeNext, PTL DEF Spec

-----------------------------------------------------------------------------
(* What the operators on rows preserve *)

(* A set settled at a seq is settled at every earlier one.                 *)
LEMMA SettledEarlier ==
    ASSUME NEW rows \in SUBSET Row, NEW held, NEW hi \in Nat, NEW lo \in Nat,
           lo <= hi, Settled(held, hi, rows)
    PROVE  Settled(held, lo, rows)
BY DEF Settled, Row

(* A chunked replacement is, hash by hash, the old set or the new one.     *)
LEMMA SettledMixture ==
    ASSUME NEW rows, NEW seq, NEW old, NEW new, NEW held,
           Settled(old, seq, rows), Settled(new, seq, rows),
           \A h \in Hash : (h \in held <=> h \in old) \/ (h \in held <=> h \in new)
    PROVE  Settled(held, seq, rows)
BY DEF Settled

(* The whole history settles its own outcome, whatever the seq.            *)
LEMMA SettledLive ==
    ASSUME NEW rows, NEW seq PROVE Settled(Live(rows), seq, rows)
BY DEF Settled

(* Materialising one more event keeps the holdings those of the history.   *)
LEMMA LiveExtend ==
    ASSUME NEW rows \in SUBSET Row, NEW r \in Row, \A q \in rows : q.seq < r.seq
    PROVE  ApplyHolds(Live(rows), {r}) = Live(rows \cup {r})
<1> SUFFICES ASSUME NEW h \in Hash
             PROVE  h \in ApplyHolds(Live(rows), {r}) <=> h \in Live(rows \cup {r})
  BY DEF ApplyHolds, Live
<1>1. CASE h = r.hash
  <2>1. h \in ApplyHolds(Live(rows), {r}) <=> r.op = "have"
    BY <1>1 DEF ApplyHolds, Live, Row
  <2>2. h \in Live(rows \cup {r}) <=> r.op = "have"
    BY <1>1 DEF Live, Row
  <2> QED BY <2>1, <2>2
<1>2. CASE h # r.hash
  <2>1. h \in ApplyHolds(Live(rows), {r}) <=> h \in Live(rows)
    BY <1>2 DEF ApplyHolds, Live
  <2>2. h \in Live(rows \cup {r}) <=> h \in Live(rows)
    BY <1>2 DEF Live
  <2> QED BY <2>1, <2>2
<1> QED BY <1>1, <1>2

(* An event after seq unsettles nothing at seq.                            *)
LEMMA SettledExtend ==
    ASSUME NEW rows \in SUBSET Row, NEW r \in Row, NEW seq \in Nat, NEW held,
           seq < r.seq, Settled(held, seq, rows)
    PROVE  Settled(held, seq, rows \cup {r})
<1> SUFFICES ASSUME NEW h \in Hash,
                    \A q \in rows \cup {r} : q.hash = h => q.seq <= seq
             PROVE  h \in held <=> h \in Live(rows \cup {r})
  BY DEF Settled
<1>1. h # r.hash BY DEF Row
<1>2. h \in Live(rows \cup {r}) <=> h \in Live(rows) BY <1>1 DEF Live
<1> QED BY <1>2 DEF Settled

(* apply_events on a contiguous suffix of the history moves a settled set  *)
(* from the seq before the suffix to its last: the reason a gap must not   *)
(* be applied, and why a torn snapshot is healed by later events.          *)
LEMMA SettledSuffix ==
    ASSUME NEW log_ \in SUBSET Row, Functional(log_),
           NEW rows \in SUBSET log_, NEW seq \in Nat, NEW last \in Nat,
           {r.seq : r \in rows} = (seq + 1)..last,
           NEW held, Settled(held, seq, log_)
    PROVE  Settled(ApplyHolds(held, rows), last, log_)
<1> SUFFICES ASSUME NEW h \in Hash, \A r \in log_ : r.hash = h => r.seq <= last
             PROVE  h \in ApplyHolds(held, rows) <=> h \in Live(log_)
  BY DEF Settled
<1>a. \A r \in rows : seq < r.seq /\ r.seq <= last /\ r.seq \in Nat
  BY DEF Row
<1>b. \A r \in log_ : r.hash = h /\ r.seq > seq => r \in rows
  <2> SUFFICES ASSUME NEW r \in log_, r.hash = h, r.seq > seq PROVE r \in rows
    OBVIOUS
  <2>1. r.seq \in (seq + 1)..last BY DEF Row
  <2>2. PICK x \in rows : x.seq = r.seq BY <2>1
  <2> QED BY <2>2 DEF Functional
<1>1. CASE \A r \in rows : r.hash # h
  <2>1. \A r \in log_ : r.hash = h => r.seq <= seq BY <1>1, <1>b DEF Row
  <2>2. h \in held <=> h \in Live(log_) BY <2>1 DEF Settled
  <2>3. h \in ApplyHolds(held, rows) <=> h \in held BY <1>1 DEF ApplyHolds, Live
  <2> QED BY <2>2, <2>3
<1>2. CASE \E r \in rows : r.hash = h
  <2>1. h \in ApplyHolds(held, rows) <=> h \in Live(rows) BY <1>2 DEF ApplyHolds
  <2>2. h \in Live(rows) => h \in Live(log_)
    <3> SUFFICES ASSUME NEW r \in rows, r.hash = h, r.op = "have",
                        \A q \in rows : q.hash = h => q.seq <= r.seq
                 PROVE  h \in Live(log_)
      BY DEF Live
    <3>1. \A q \in log_ : q.hash = h => q.seq <= r.seq BY <1>a, <1>b DEF Row
    <3> QED BY <3>1 DEF Live
  <2>3. h \in Live(log_) => h \in Live(rows)
    <3> SUFFICES ASSUME NEW r \in log_, r.hash = h, r.op = "have",
                        \A q \in log_ : q.hash = h => q.seq <= r.seq
                 PROVE  h \in Live(rows)
      BY DEF Live
    <3>1. PICK x \in rows : x.hash = h BY <1>2
    <3>2. r \in rows BY <3>1, <1>a, <1>b DEF Row
    <3> QED BY <3>2 DEF Live
  <2> QED BY <2>1, <2>2, <2>3
<1> QED BY <1>1, <1>2

-----------------------------------------------------------------------------
(* The invariant holds initially and survives the steps that touch nothing *)
(* it is about.                                                            *)

LEMMA InvInit == Init => IInv
<1> SUFFICES ASSUME Init PROVE IInv
  OBVIOUS
<1> USE OriginAssumption
<1>1. \A n \in Node : /\ store[n].seq = 0 /\ store[n].held = {} /\ store[n].jour = {}
                      /\ store[n].gen = (IF n = Origin THEN 1 ELSE 0)
                      /\ disk[n] = store[n]
  BY DEF Init, NoStore
<1>2. Live({}) = {} BY DEF Live
<1>0. log = {} BY DEF Init
<1>3. OriginInv BY <1>0, <1>1, <1>2 DEF OriginInv, History, Functional
<1>4. VouchInv
  <2>1. stamped = 1 /\ mint = 1 /\ selfgen = 1 /\ vouched = 1 BY DEF Init
  <2> QED BY <1>1, <2>1 DEF VouchInv
<1>5. ImageInv BY DEF Init, ImageInv
<1>6. ReplicaInv
  <2>1. Settled({}, 0, {}) BY <1>2, SettledLive
  <2> QED BY <1>0, <1>1, <2>1 DEF ReplicaInv, Faithful
<1>7. \A n, p \in Node : pull[n][p] = Idle BY DEF Init
<1>8. PullInv /\ LockInv
  BY <1>7 DEF Init, PullInv, PhaseInv, CargoInv, LockInv, Idle
<1> QED BY <1>3, <1>4, <1>5, <1>6, <1>8 DEF IInv

LEMMA InvUntouched ==
    ASSUME IInv, UNCHANGED <<store, disk, selfgen, pull, image, mint, stamped, vouched, log>>
    PROVE  IInv'
BY DEF IInv, OriginInv, VouchInv, ImageInv, ReplicaInv, Faithful, Vouched,
       PullInv, PhaseInv, CargoInv, LockInv

(* A pull that keeps its place keeps its invariant while the stores it is  *)
(* between only move forward.                                              *)
LEMMA PullFrame ==
    ASSUME TypeOK, IInv, NEW m \in Node, NEW r \in Node,
           pull'[m][r] = pull[m][r],
           UNCHANGED <<mint, stamped, vouched, log>>,
           store'[Origin].seq = store[Origin].seq,
           store[m].gen <= store'[m].gen,
           store[r].gen <= store'[r].gen, store'[r].gen <= stamped,
           store'[r].gen = store[r].gen => store[r].seq <= store'[r].seq,
           pull[m][r].phase = "replacing"
             => store'[m].gen = store[m].gen /\ store'[m].seq = store[m].seq,
           \A n \in Node : store'[n] \in Store
    PROVE  PhaseInv(m, r)' /\ CargoInv(m, r)'
<1> USE OriginAssumption
<1> DEFINE q == pull[m][r]
<1>t. /\ q \in Pull /\ store[m] \in Store /\ store[r] \in Store
      /\ store'[m] \in Store /\ store'[r] \in Store
  BY DEF TypeOK
<1>1. PhaseInv(m, r) /\ CargoInv(m, r) BY DEF IInv, PullInv
<1>2. PhaseInv(m, r)'
  BY <1>1, <1>t DEF PhaseInv, Stale, Store, Pull
<1>3. CargoInv(m, r)'
  <2>1. Vouched(q.gen) => q.gen = stamped BY DEF IInv, VouchInv, Vouched
  <2>2. SUFFICES ASSUME Vouched(q.gen)
                 PROVE  /\ q.phase \in {"suffix", "snapshot"}
                             => store'[r].gen = q.gen /\ q.seq <= store'[r].seq
                        /\ q.phase \in {"gotSuffix", "commit"} => q.rows \subseteq log
                        /\ q.phase \in {"gotSnapshot", "replacing"}
                             => q.seq <= store[Origin].seq /\ Settled(q.snap, q.seq, log)
    BY DEF CargoInv, Vouched
  <2>3. q.phase \in {"suffix", "snapshot"}
          => store'[r].gen = q.gen /\ q.seq <= store'[r].seq
    <3>1. /\ store[r].gen \in Nat /\ store'[r].gen \in Nat
          /\ store[r].seq \in Nat /\ store'[r].seq \in Nat
          /\ q.seq \in Nat /\ stamped \in Nat
      BY <1>t DEF Store, Pull, TypeOK
    <3>2. q.phase \in {"suffix", "snapshot"}
            => store[r].gen = q.gen /\ q.seq <= store[r].seq
      BY <1>1, <2>2 DEF CargoInv
    <3> QED BY <2>1, <2>2, <3>1, <3>2
  <2> QED BY <1>1, <2>2, <2>3 DEF CargoInv
<1> QED BY <1>2, <1>3

(* A step that only moves one pull.                                        *)
LEMMA PullStep ==
    ASSUME TypeOK, IInv, NEW n \in Node, NEW p \in Node, NEW q \in Pull,
           SetPull(n, p, q),
           UNCHANGED <<store, disk, selfgen, image, mint, stamped, vouched, log>>,
           PhaseInv(n, p)', CargoInv(n, p)',
           q.phase = "replacing" => ~Locked(n) \/ pull[n][p].phase = "replacing"
    PROVE  IInv'
<1>1. OriginInv' /\ VouchInv' /\ ImageInv' /\ ReplicaInv'
  BY DEF IInv, OriginInv, VouchInv, ImageInv, ReplicaInv, Faithful, Vouched
<1>2. \A m, r \in Node : pull'[m][r] = IF m = n /\ r = p THEN q ELSE pull[m][r]
  BY DEF SetPull, TypeOK
<1>3. PullInv'
  <2> SUFFICES ASSUME NEW m \in Node, NEW r \in Node
               PROVE  PhaseInv(m, r)' /\ CargoInv(m, r)'
    BY DEF PullInv
  <2>1. CASE m = n /\ r = p BY <2>1
  <2>2. CASE ~(m = n /\ r = p)
    <3>1. pull'[m][r] = pull[m][r] BY <1>2, <2>2
    <3> QED BY <3>1 DEF IInv, PullInv, PhaseInv, CargoInv, Vouched
  <2> QED BY <2>1, <2>2
<1>4. LockInv' BY <1>2 DEF IInv, LockInv, Locked
<1> QED BY <1>1, <1>3, <1>4 DEF IInv

(* A step that changes one store in place, and the log not at all.         *)
LEMMA StoreStep ==
    ASSUME TypeOK, IInv, NEW n \in Node, NEW s \in Store,
           store' = [store EXCEPT ![n] = s],
           UNCHANGED <<disk, selfgen, image, mint, stamped, vouched, log>>,
           s.gen <= stamped, store[n].gen <= s.gen,
           s.gen = store[n].gen => store[n].seq <= s.seq,
           n = Origin => /\ s.gen = store[n].gen /\ s.seq = store[n].seq
                         /\ s.held = store[n].held /\ s.jour \subseteq store[n].jour,
           Faithful(s)
    PROVE  /\ OriginInv' /\ VouchInv' /\ ImageInv' /\ ReplicaInv'
           /\ \A m, r \in Node :
                /\ pull'[m][r] = pull[m][r]
                /\ (m = n /\ pull[m][r].phase = "replacing")
                     => s.gen = store[n].gen /\ s.seq = store[n].seq
                => PhaseInv(m, r)' /\ CargoInv(m, r)'
<1> USE OriginAssumption
<1>1. \A m \in Node : store'[m] = IF m = n THEN s ELSE store[m] BY DEF TypeOK
<1>2. OriginInv' BY <1>1 DEF IInv, OriginInv, History
<1>3. VouchInv' /\ ImageInv' BY <1>1, <1>2 DEF IInv, VouchInv, ImageInv
<1>4. store'[Origin].seq = store[Origin].seq BY <1>1
<1>5. ReplicaInv' BY <1>1, <1>4 DEF IInv, ReplicaInv, Faithful, Vouched
<1>6. \A m \in Node : /\ store'[m] \in Store
                      /\ store[m].gen <= store'[m].gen /\ store'[m].gen <= stamped
                      /\ store'[m].gen = store[m].gen => store[m].seq <= store'[m].seq
  BY <1>1 DEF IInv, VouchInv, TypeOK, Store
<1>7. ASSUME NEW m \in Node, NEW r \in Node, pull'[m][r] = pull[m][r],
             (m = n /\ pull[m][r].phase = "replacing")
               => s.gen = store[n].gen /\ s.seq = store[n].seq
      PROVE  PhaseInv(m, r)' /\ CargoInv(m, r)'
  <2>1. pull[m][r].phase = "replacing"
          => store'[m].gen = store[m].gen /\ store'[m].seq = store[m].seq
    BY <1>1, <1>7
  <2> QED BY <1>4, <1>6, <1>7, <2>1, PullFrame
<1> QED BY <1>2, <1>3, <1>5, <1>7

-----------------------------------------------------------------------------
(* The exchange preserves the invariant                                    *)

(* Nothing is claimed of a loop between rounds.                            *)
LEMMA IdleInv ==
    ASSUME NEW n \in Node, NEW p \in Node, pull'[n][p] = Idle, stamped' \in Nat
    PROVE  PhaseInv(n, p)' /\ CargoInv(n, p)'
<1>1. Idle.phase = "idle" /\ Idle.gen = 0 BY DEF Idle
<1> QED BY <1>1 DEF PhaseInv, CargoInv, Vouched

(* A step that only ends a round.                                          *)
LEMMA EndRound ==
    ASSUME TypeOK, IInv, NEW n \in Node, NEW p \in Node, SetPull(n, p, Idle),
           UNCHANGED <<store, disk, selfgen, image, mint, stamped, vouched, log>>
    PROVE  IInv'
<1>1. pull'[n][p] = Idle BY DEF SetPull, TypeOK
<1>2. stamped' \in Nat BY DEF TypeOK
<1>3. Idle.phase = "idle" BY DEF Idle
<1> QED BY <1>1, <1>2, <1>3, IdleInv, IdleType, PullStep

LEMMA AskInv ==
    ASSUME TypeOK, IInv, NEW n \in Node, NEW p \in Node, Ask(n, p) PROVE IInv'
<1> DEFINE q == [Idle EXCEPT !.phase = "asked", !.hgen = store[n].gen,
                             !.hseq = store[n].seq]
<1>0. store[n] \in Store /\ stamped \in Nat BY DEF TypeOK
<1>1. q \in Pull BY <1>0, IdleType DEF Pull, Store
<1>2. q.phase = "asked" /\ q.gen = 0 /\ q.hgen = store[n].gen BY DEF Idle
<1>3. pull'[n][p] = q BY DEF Ask, SetPull, TypeOK
<1> HIDE DEF q
<1>4. UNCHANGED <<store, disk, selfgen, image, mint, stamped, vouched, log>>
  BY DEF Ask
<1>5. PhaseInv(n, p)'
  BY <1>0, <1>2, <1>3, <1>4 DEF PhaseInv, Store
<1>6. CargoInv(n, p)' BY <1>2, <1>3 DEF CargoInv, Vouched
<1>7. SetPull(n, p, q) BY DEF Ask, q
<1> QED BY <1>1, <1>2, <1>4, <1>5, <1>6, <1>7, PullStep

(* What respond leaves behind: the generation it read, and, when it owes   *)
(* rows, a clock the responder still has.                                  *)
LEMMA ReplyFacts ==
    ASSUME NEW n \in Node, NEW q \in Pull, NEW s \in Store, q.phase = "asked"
    PROVE  LET a == Reply(n, q, s) IN
           \/ a = Idle
           \/ /\ a.gen = s.gen /\ a.seq = s.seq /\ a.hgen = q.hgen
              /\ n = Origin => a.phase = "line"
              /\ n # Origin => a.phase \in {"suffix", "snapshot"}
              /\ a.phase = "suffix" => a.gen = a.hgen
BY DEF Reply, Pull, Store

LEMMA HandleSyncInv ==
    ASSUME TypeOK, IInv, NEW n \in Node, NEW p \in Node, HandleSync(n, p) PROVE IInv'
<1> DEFINE q == pull[n][p]
           s == RecordWatermark(store[p], n, q)
           a == Reply(n, q, store[p])
<1> USE OriginAssumption
<1>0. q \in Pull /\ q.phase = "asked" /\ store[p] \in Store /\ store[n] \in Store
  BY DEF HandleSync, TypeOK
<1>1. /\ s \in Store /\ s.gen = store[p].gen /\ s.seq = store[p].seq
      /\ s.held = store[p].held /\ s.jour = store[p].jour
  BY <1>0, RecordWatermarkType DEF RecordWatermark, Store
<1>2. a \in Pull BY <1>0, ReplyType
<1>3. \/ a = Idle
      \/ /\ a.gen = store[p].gen /\ a.seq = store[p].seq /\ a.hgen = q.hgen
         /\ n = Origin => a.phase = "line"
         /\ n # Origin => a.phase \in {"suffix", "snapshot"}
         /\ a.phase = "suffix" => a.gen = a.hgen
  BY <1>0, ReplyFacts
<1>4. /\ store' = [store EXCEPT ![p] = s]
      /\ UNCHANGED <<disk, selfgen, image, mint, stamped, vouched, log>>
      /\ SetPull(n, p, a)
  BY DEF HandleSync
<1>5. \A m, r \in Node : pull'[m][r] = IF m = n /\ r = p THEN a ELSE pull[m][r]
  BY <1>4 DEF SetPull, TypeOK
<1>6. Faithful(s) BY <1>1 DEF IInv, ReplicaInv, Faithful
<1>7. store[p].gen <= stamped /\ store[p].gen \in Nat /\ store[p].seq \in Nat
      /\ stamped \in Nat /\ store[n].gen \in Nat
  BY <1>0 DEF IInv, VouchInv, TypeOK, Store
<1>8. PhaseInv(n, p) /\ \A m \in Node : /\ store'[m].gen = store[m].gen
                                       /\ store'[m].seq = store[m].seq
  BY <1>1, <1>4 DEF IInv, PullInv, TypeOK
<1> HIDE DEF s, a
<1>9. /\ OriginInv' /\ VouchInv' /\ ImageInv' /\ ReplicaInv'
      /\ \A m, r \in Node : pull'[m][r] = pull[m][r] => PhaseInv(m, r)' /\ CargoInv(m, r)'
  <2>1. s.gen <= stamped /\ store[p].gen <= s.gen /\ store[p].seq <= s.seq
    BY <1>1, <1>7
  <2>2. /\ OriginInv' /\ VouchInv' /\ ImageInv' /\ ReplicaInv'
        /\ \A m, r \in Node :
             /\ pull'[m][r] = pull[m][r]
             /\ (m = p /\ pull[m][r].phase = "replacing")
                  => s.gen = store[p].gen /\ s.seq = store[p].seq
             => PhaseInv(m, r)' /\ CargoInv(m, r)'
    BY <1>1, <1>4, <1>6, <2>1, StoreStep
  <2> QED BY <1>1, <2>2
<1>10. PhaseInv(n, p)' /\ CargoInv(n, p)'
  <2>1. CASE a = Idle BY <1>4, <1>5, <1>7, <2>1, IdleInv
  <2>2. CASE a # Idle
    <3>1. pull'[n][p] = a BY <1>5
    <3>2. PhaseInv(n, p)'
      BY <1>0, <1>3, <1>4, <1>7, <1>8, <2>2, <3>1 DEF PhaseInv
    <3>3. CargoInv(n, p)'
      BY <1>3, <1>7, <1>8, <2>2, <3>1 DEF CargoInv
    <3> QED BY <3>2, <3>3
  <2> QED BY <2>1, <2>2
<1>11. PullInv' BY <1>5, <1>9, <1>10 DEF PullInv
<1>12. a.phase # "replacing"
  <2>1. Idle.phase # "replacing" BY DEF Idle
  <2> QED BY <1>3, <2>1
<1>13. LockInv' BY <1>5, <1>12 DEF IInv, LockInv
<1> QED BY <1>9, <1>11, <1>13 DEF IInv

LEMMA ReadSuffixInv ==
    ASSUME TypeOK, IInv, NEW n \in Node, NEW p \in Node, ReadSuffix(n, p) PROVE IInv'
<1> DEFINE q == pull[n][p]
           rows == {r \in store[p].jour : r.seq > q.hseq}
           a(last) == [q EXCEPT !.phase = "gotSuffix", !.last = last,
                                !.rows = {r \in rows : r.seq <= last}]
<1>0. q \in Pull /\ q.phase = "suffix" /\ store[p] \in Store BY DEF ReadSuffix, TypeOK
<1>1. UNCHANGED <<store, disk, selfgen, image, mint, stamped, vouched, log>>
  BY DEF ReadSuffix
<1>2. SetPull(n, p, Idle) \/ \E last \in {r.seq : r \in rows} : SetPull(n, p, a(last))
  BY DEF ReadSuffix
<1>3. CASE SetPull(n, p, Idle) BY <1>1, <1>3, EndRound
<1>4. ASSUME NEW last \in {r.seq : r \in rows}, SetPull(n, p, a(last)) PROVE IInv'
  <2>1. rows \subseteq store[p].jour /\ rows \subseteq Row BY <1>0 DEF Store
  <2>2. last \in Nat BY <2>1 DEF Row
  <2> HIDE DEF rows
  <2>3. /\ a(last) \in Pull
        /\ a(last).phase = "gotSuffix" /\ a(last).rows \subseteq store[p].jour
        /\ a(last).gen = q.gen /\ a(last).hgen = q.hgen
    BY <1>0, <2>1, <2>2 DEF Pull
  <2>4. pull'[n][p] = a(last) BY <1>4 DEF SetPull, TypeOK
  <2> HIDE DEF a
  <2>5. PhaseInv(n, p) /\ CargoInv(n, p) /\ Faithful(store[p])
    BY DEF IInv, PullInv, ReplicaInv
  <2>6. PhaseInv(n, p)' BY <1>0, <1>1, <2>3, <2>4, <2>5 DEF PhaseInv
  <2>7. CargoInv(n, p)'
    BY <1>0, <1>1, <2>3, <2>4, <2>5 DEF CargoInv, Faithful, Vouched
  <2> QED BY <1>1, <1>4, <2>3, <2>6, <2>7, PullStep
<1> QED BY <1>2, <1>3, <1>4

LEMMA ReadSnapshotInv ==
    ASSUME TypeOK, IInv, NEW n \in Node, NEW p \in Node, ReadSnapshot(n, p) PROVE IInv'
<1> DEFINE q == pull[n][p]
           a == [q EXCEPT !.phase = "gotSnapshot", !.snap = store[p].held]
<1> USE OriginAssumption
<1>0. /\ q \in Pull /\ q.phase = "snapshot"
      /\ store[p] \in Store /\ store[Origin] \in Store /\ log \in SUBSET Row
  BY DEF ReadSnapshot, TypeOK
<1>1. /\ UNCHANGED <<store, disk, selfgen, image, mint, stamped, vouched, log>>
      /\ SetPull(n, p, a)
  BY DEF ReadSnapshot
<1>2. /\ a \in Pull /\ a.phase = "gotSnapshot" /\ a.snap = store[p].held
      /\ a.gen = q.gen /\ a.seq = q.seq
  BY <1>0 DEF Pull, Store
<1>3. pull'[n][p] = a BY <1>1 DEF SetPull, TypeOK
<1> HIDE DEF a
<1>4. PhaseInv(n, p) /\ CargoInv(n, p) /\ Faithful(store[p])
  BY DEF IInv, PullInv, ReplicaInv
<1>5. PhaseInv(n, p)' BY <1>0, <1>1, <1>2, <1>3, <1>4 DEF PhaseInv
<1>6. ASSUME Vouched(q.gen)
      PROVE  q.seq <= store[Origin].seq /\ Settled(store[p].held, q.seq, log)
  <2>1. store[p].gen = q.gen /\ q.seq <= store[p].seq
    BY <1>0, <1>4, <1>6 DEF CargoInv
  <2>2. store[p].seq <= store[Origin].seq /\ Settled(store[p].held, store[p].seq, log)
    BY <1>4, <1>6, <2>1 DEF Faithful
  <2>3. q.seq \in Nat /\ store[p].seq \in Nat /\ store[Origin].seq \in Nat
    BY <1>0 DEF Pull, Store
  <2> QED BY <1>0, <2>1, <2>2, <2>3, SettledEarlier
<1>7. CargoInv(n, p)' BY <1>1, <1>2, <1>3, <1>6 DEF CargoInv, Vouched
<1> QED BY <1>1, <1>2, <1>5, <1>7, PullStep

LEMMA ExchangeInv ==
    ASSUME TypeOK, IInv, NEW n \in Node, NEW p \in Node, Exchange(n, p) PROVE IInv'
<1>1. CASE PullFails(n, p) BY <1>1, EndRound DEF PullFails
<1> QED BY <1>1, AskInv, HandleSyncInv, ReadSuffixInv, ReadSnapshotInv DEF Exchange

-----------------------------------------------------------------------------
(* Applying an answer preserves the invariant                              *)

LEMMA CheckSuffixInv ==
    ASSUME TypeOK, IInv, NEW n \in Node, NEW p \in Node, CheckSuffix(n, p) PROVE IInv'
<1> DEFINE q == pull[n][p]
           s == store[n]
           a == [q EXCEPT !.phase = "commit", !.rows = News(q, s),
                          !.hgen = s.gen, !.hseq = s.seq]
<1>0. q \in Pull /\ q.phase = "gotSuffix" /\ s \in Store BY DEF CheckSuffix, TypeOK
<1>1. UNCHANGED <<store, disk, selfgen, image, mint, stamped, vouched, log>>
  BY DEF CheckSuffix
<1>2. \/ SetPull(n, p, Idle)
      \/ /\ Adoptable(q, s) /\ News(q, s) # {} /\ Connects(q, s)
         /\ SetPull(n, p, a)
  BY DEF CheckSuffix
<1>3. CASE SetPull(n, p, Idle) BY <1>1, <1>3, EndRound
<1>4. CASE /\ Adoptable(q, s) /\ News(q, s) # {} /\ Connects(q, s)
           /\ SetPull(n, p, a)
  <2>1. News(q, s) \subseteq q.rows /\ News(q, s) \subseteq Row
    BY <1>0 DEF News, Pull
  <2>2. /\ a \in Pull /\ a.phase = "commit" /\ a.rows = News(q, s)
        /\ a.hgen = s.gen /\ a.hseq = s.seq /\ a.gen = q.gen /\ a.last = q.last
    BY <1>0, <2>1 DEF Pull, Store
  <2>3. pull'[n][p] = a BY <1>4 DEF SetPull, TypeOK
  <2> HIDE DEF a
  <2>4. PhaseInv(n, p) /\ CargoInv(n, p) BY DEF IInv, PullInv
  <2>5. n # Origin /\ q.gen = q.hgen /\ q.hgen <= s.gen /\ q.gen <= stamped
    BY <1>0, <2>4 DEF PhaseInv
  <2>6. q.gen = s.gen
    BY <1>0, <1>4, <2>5 DEF Adoptable, Pull, Store
  <2>7. {r.seq : r \in a.rows} = (a.hseq + 1)..a.last
    BY <1>4, <2>2 DEF Connects
  <2>8. PhaseInv(n, p)'
    BY <1>1, <1>4, <2>2, <2>3, <2>5, <2>6, <2>7 DEF PhaseInv
  <2>9. CargoInv(n, p)'
    BY <1>0, <1>1, <2>1, <2>2, <2>3, <2>4 DEF CargoInv, Vouched
  <2> QED BY <1>1, <1>4, <2>2, <2>8, <2>9, PullStep
<1> QED BY <1>2, <1>3, <1>4

LEMMA BeginReplaceInv ==
    ASSUME TypeOK, IInv, NEW n \in Node, NEW p \in Node, BeginReplace(n, p) PROVE IInv'
<1> DEFINE q == pull[n][p]
           a == [q EXCEPT !.phase = "replacing"]
<1>0. q \in Pull /\ q.phase = "gotSnapshot" /\ ~Locked(n) BY DEF BeginReplace, TypeOK
<1>1. UNCHANGED <<store, disk, selfgen, image, mint, stamped, vouched, log>>
  BY DEF BeginReplace
<1>2. SetPull(n, p, Idle) \/ (~Stale(q, store[n]) /\ SetPull(n, p, a))
  BY DEF BeginReplace
<1>3. CASE SetPull(n, p, Idle) BY <1>1, <1>3, EndRound
<1>4. CASE ~Stale(q, store[n]) /\ SetPull(n, p, a)
  <2>1. /\ a \in Pull /\ a.phase = "replacing" /\ a.gen = q.gen /\ a.seq = q.seq
        /\ a.snap = q.snap
    BY <1>0 DEF Pull
  <2>2. pull'[n][p] = a BY <1>4 DEF SetPull, TypeOK
  <2> HIDE DEF a
  <2>3. PhaseInv(n, p) /\ CargoInv(n, p) BY DEF IInv, PullInv
  <2>4. PhaseInv(n, p)'
    BY <1>0, <1>1, <1>4, <2>1, <2>2, <2>3 DEF PhaseInv, Stale
  <2>5. CargoInv(n, p)' BY <1>0, <1>1, <2>1, <2>2, <2>3 DEF CargoInv, Vouched
  <2> QED BY <1>0, <1>1, <1>4, <2>1, <2>4, <2>5, PullStep
<1> QED BY <1>2, <1>3, <1>4

(* A step that writes n's store and leaves every loop where it was.        *)
LEMMA StoreOnly ==
    ASSUME TypeOK, IInv, NEW n \in Node, NEW s \in Store,
           store' = [store EXCEPT ![n] = s],
           UNCHANGED <<pull, disk, selfgen, image, mint, stamped, vouched, log>>,
           s.gen = store[n].gen, s.seq = store[n].seq,
           n = Origin => s.held = store[n].held /\ s.jour \subseteq store[n].jour,
           Faithful(s)
    PROVE  IInv'
<1>0. store[n].gen \in Nat /\ store[n].seq \in Nat /\ store[n].gen <= stamped
  BY DEF TypeOK, Store, IInv, VouchInv
<1>1. s.gen <= stamped /\ store[n].gen <= s.gen /\ store[n].seq <= s.seq
  BY <1>0
<1>2. /\ OriginInv' /\ VouchInv' /\ ImageInv' /\ ReplicaInv'
      /\ \A m, r \in Node :
           /\ pull'[m][r] = pull[m][r]
           /\ (m = n /\ pull[m][r].phase = "replacing")
                => s.gen = store[n].gen /\ s.seq = store[n].seq
           => PhaseInv(m, r)' /\ CargoInv(m, r)'
  BY <1>1, StoreStep
<1>3. PullInv' BY <1>2 DEF PullInv
<1>4. LockInv' BY DEF IInv, LockInv
<1> QED BY <1>2, <1>3, <1>4 DEF IInv

(* A step that moves n's clock and ends the round that did it.             *)
LEMMA StoreEndRound ==
    ASSUME TypeOK, IInv, NEW n \in Node, NEW p \in Node, NEW s \in Store,
           store' = [store EXCEPT ![n] = s], SetPull(n, p, Idle),
           UNCHANGED <<disk, selfgen, image, mint, stamped, vouched, log>>,
           n # Origin, s.gen <= stamped, store[n].gen <= s.gen,
           s.gen = store[n].gen => store[n].seq <= s.seq,
           \A r \in Node : pull[n][r].phase = "replacing" => r = p,
           Faithful(s)
    PROVE  IInv'
<1>1. \A m, r \in Node : pull'[m][r] = IF m = n /\ r = p THEN Idle ELSE pull[m][r]
  BY DEF SetPull, TypeOK
<1>2. /\ OriginInv' /\ VouchInv' /\ ImageInv' /\ ReplicaInv'
      /\ \A m, r \in Node :
           /\ pull'[m][r] = pull[m][r]
           /\ (m = n /\ pull[m][r].phase = "replacing")
                => s.gen = store[n].gen /\ s.seq = store[n].seq
           => PhaseInv(m, r)' /\ CargoInv(m, r)'
  BY StoreStep
<1>3. PhaseInv(n, p)' /\ CargoInv(n, p)'
  <2>1. stamped' \in Nat BY DEF TypeOK
  <2> QED BY <1>1, <2>1, IdleInv
<1>4. PullInv'
  <2> SUFFICES ASSUME NEW m \in Node, NEW r \in Node
               PROVE  PhaseInv(m, r)' /\ CargoInv(m, r)'
    BY DEF PullInv
  <2>1. CASE m = n /\ r = p BY <1>3, <2>1
  <2>2. CASE ~(m = n /\ r = p)
    <3>1. pull'[m][r] = pull[m][r] BY <1>1, <2>2
    <3>2. ~(m = n /\ pull[m][r].phase = "replacing") BY <2>2
    <3> QED BY <1>2, <3>1, <3>2
  <2> QED BY <2>1, <2>2
<1>5. LockInv'
  <2>1. Idle.phase # "replacing" BY DEF Idle
  <2> QED BY <1>1, <2>1 DEF IInv, LockInv
<1> QED BY <1>2, <1>4, <1>5 DEF IInv

LEMMA CommitSuffixInv ==
    ASSUME TypeOK, IInv, NEW n \in Node, NEW p \in Node, CommitSuffix(n, p) PROVE IInv'
<1> DEFINE q == pull[n][p]
           s == store[n]
           t == ApplyEvents(s, q.gen, q.last, q.rows)
<1> USE OriginAssumption
<1>0. /\ q \in Pull /\ q.phase = "commit" /\ ~Locked(n)
      /\ s \in Store /\ log \in SUBSET Row /\ stamped \in Nat
  BY DEF CommitSuffix, TypeOK
<1>1. /\ UNCHANGED <<disk, selfgen, image, mint, stamped, vouched, log>>
      /\ SetPull(n, p, Idle)
  BY DEF CommitSuffix
<1>2. CASE ~Expected(q, s)
  <2>1. UNCHANGED store BY <1>2 DEF CommitSuffix
  <2> QED BY <1>1, <2>1, EndRound
<1>3. CASE Expected(q, s)
  <2>1. store' = [store EXCEPT ![n] = t] BY <1>3 DEF CommitSuffix
  <2>2. PhaseInv(n, p) /\ CargoInv(n, p) /\ Faithful(s)
    BY DEF IInv, PullInv, ReplicaInv
  <2>3. /\ n # Origin /\ q.gen = s.gen /\ q.hseq = s.seq /\ q.gen <= stamped
        /\ q.rows # {} /\ {r.seq : r \in q.rows} = (q.hseq + 1)..q.last
    BY <1>0, <1>3, <2>2 DEF PhaseInv, Expected
  <2>4. /\ q.gen \in Nat /\ q.last \in Nat /\ q.rows \in SUBSET Row
        /\ s.gen \in Nat /\ s.seq \in Nat /\ s.jour \in SUBSET Row
        /\ store[Origin].seq \in Nat
    BY <1>0 DEF Pull, Store, TypeOK
  <2>5. q.last \in (s.seq + 1)..q.last
    <3>1. PICK r \in q.rows : TRUE BY <2>3
    <3>2. r.seq \in (s.seq + 1)..q.last BY <2>3
    <3> QED BY <2>4, <3>2
  <2>6. /\ t \in Store /\ t.gen = q.gen /\ t.seq = q.last
        /\ t.held = ApplyHolds(s.held, q.rows) /\ t.jour \subseteq s.jour \cup q.rows
    <3>1. t \in Store BY <1>0, <2>4, ApplyEventsType
    <3>2. t = [s EXCEPT !.gen = q.gen, !.seq = q.last,
                        !.held = ApplyHolds(@, q.rows),
                        !.jour = {r \in @ : \A x \in q.rows : x.seq # r.seq} \cup q.rows]
      BY DEF ApplyEvents
    <3>3. t.gen = q.gen /\ t.seq = q.last /\ t.held = ApplyHolds(s.held, q.rows)
      BY <1>0, <3>2 DEF Store
    <3>4. t.jour = {r \in s.jour : \A x \in q.rows : x.seq # r.seq} \cup q.rows
      BY <1>0, <3>2 DEF Store
    <3> QED BY <3>1, <3>3, <3>4
  <2>7. Faithful(t)
    <3> SUFFICES ASSUME Vouched(q.gen)
                 PROVE  /\ q.last <= store[Origin].seq
                        /\ t.jour \subseteq log
                        /\ Settled(t.held, q.last, log)
      BY <2>6 DEF Faithful
    <3>1. q.rows \subseteq log BY <1>0, <2>2 DEF CargoInv
    <3>2. s.jour \subseteq log /\ Settled(s.held, s.seq, log)
      BY <2>2, <2>3 DEF Faithful
    <3>3. \A r \in log : r.seq <= store[Origin].seq
      BY DEF IInv, OriginInv, History
    <3>4. PICK r \in q.rows : r.seq = q.last BY <2>3, <2>5
    <3>5. q.last <= store[Origin].seq BY <3>1, <3>3, <3>4
    <3>6. Functional(log) BY DEF IInv, OriginInv, History
    <3>7. Settled(ApplyHolds(s.held, q.rows), q.last, log)
      BY <1>0, <2>3, <2>4, <3>1, <3>2, <3>6, SettledSuffix
    <3> QED BY <2>6, <3>1, <3>2, <3>5, <3>7
  <2> HIDE DEF t
  <2>8. t.gen <= stamped /\ store[n].gen <= t.gen /\ store[n].seq <= t.seq
    BY <2>3, <2>4, <2>5, <2>6
  <2>9. \A r \in Node : pull[n][r].phase # "replacing" BY <1>0 DEF Locked
  <2> QED BY <1>1, <2>1, <2>3, <2>6, <2>7, <2>8, <2>9, StoreEndRound
<1> QED BY <1>2, <1>3

LEMMA ReplaceChunkInv ==
    ASSUME TypeOK, IInv, NEW n \in Node, NEW p \in Node, ReplaceChunk(n, p) PROVE IInv'
<1> DEFINE q == pull[n][p]
           s == store[n]
<1> USE OriginAssumption
<1>0. /\ q \in Pull /\ q.phase = "replacing"
      /\ s \in Store /\ log \in SUBSET Row
  BY DEF ReplaceChunk, TypeOK
<1>1. UNCHANGED <<pull, disk, selfgen, image, mint, stamped, vouched, log>>
  BY DEF ReplaceChunk
<1>2. PICK part \in SUBSET ((q.snap \ s.held) \cup (s.held \ q.snap)) :
         store' = [store EXCEPT ![n].held = (s.held \ (part \ q.snap)) \cup (part \cap q.snap)]
  BY DEF ReplaceChunk
<1> DEFINE held == (s.held \ (part \ q.snap)) \cup (part \cap q.snap)
           t == [s EXCEPT !.held = held]
<1>3. held \in SUBSET Hash BY <1>0 DEF Store, Pull
<1>4. \A h \in Hash : (h \in held <=> h \in s.held) \/ (h \in held <=> h \in q.snap)
  OBVIOUS
<1> HIDE DEF held
<1>5. /\ t \in Store /\ t.gen = s.gen /\ t.seq = s.seq /\ t.jour = s.jour /\ t.held = held
  BY <1>0, <1>3 DEF Store
<1>6. store' = [store EXCEPT ![n] = t] BY <1>2 DEF TypeOK, held
<1>7. PhaseInv(n, p) /\ CargoInv(n, p) /\ Faithful(s) BY DEF IInv, PullInv, ReplicaInv
<1>8. n # Origin /\ ~Stale(q, s) /\ q.gen <= stamped BY <1>0, <1>7 DEF PhaseInv
<1>9. Faithful(t)
  <2> SUFFICES ASSUME Vouched(s.gen)
               PROVE  /\ s.seq <= store[Origin].seq
                      /\ s.jour \subseteq log
                      /\ Settled(held, s.seq, log)
    BY <1>5 DEF Faithful
  <2>1. /\ s.seq <= store[Origin].seq /\ s.jour \subseteq log
        /\ Settled(s.held, s.seq, log)
    BY <1>7 DEF Faithful
  <2>2. /\ q.gen \in Nat /\ q.seq \in Nat /\ s.gen \in Nat /\ s.seq \in Nat /\ stamped \in Nat
    BY <1>0 DEF Pull, Store, TypeOK
  <2>3. s.gen = stamped BY DEF IInv, VouchInv, Vouched
  <2>4. q.gen = s.gen /\ s.seq <= q.seq
    <3>1. ~(q.gen < s.gen) /\ ~(q.gen = s.gen /\ q.seq < s.seq) BY <1>8 DEF Stale
    <3>2. q.gen <= s.gen BY <1>8, <2>3
    <3> QED BY <2>2, <3>1, <3>2
  <2>5. Settled(q.snap, q.seq, log) BY <1>0, <1>7, <2>4 DEF CargoInv
  <2>6. Settled(q.snap, s.seq, log) BY <1>0, <2>2, <2>4, <2>5, SettledEarlier
  <2>7. Settled(held, s.seq, log) BY <1>4, <2>1, <2>6, SettledMixture
  <2> QED BY <2>1, <2>7
<1> HIDE DEF t
<1> QED BY <1>1, <1>5, <1>6, <1>8, <1>9, StoreOnly

LEMMA ReplaceTrimInv ==
    ASSUME TypeOK, IInv, NEW n \in Node, NEW p \in Node, ReplaceTrim(n, p) PROVE IInv'
<1> DEFINE s == store[n]
<1>1. UNCHANGED <<pull, disk, selfgen, image, mint, stamped, vouched, log>>
  BY DEF ReplaceTrim
<1>2. PICK cut : store' = [store EXCEPT ![n].jour = {r \in @ : r.seq > cut}]
  BY DEF ReplaceTrim
<1> DEFINE t == [s EXCEPT !.jour = {r \in @ : r.seq > cut}]
<1>3. s \in Store BY DEF TypeOK
<1>4. /\ t \in Store /\ t.gen = s.gen /\ t.seq = s.seq /\ t.held = s.held
      /\ t.jour \subseteq s.jour
  BY <1>3 DEF Store
<1>5. store' = [store EXCEPT ![n] = t] BY <1>2 DEF TypeOK
<1>6. Faithful(s) BY DEF IInv, ReplicaInv
<1>7. Faithful(t) BY <1>4, <1>6 DEF Faithful
<1> HIDE DEF t
<1> QED BY <1>1, <1>4, <1>5, <1>7, StoreOnly

LEMMA FinishReplaceInv ==
    ASSUME TypeOK, IInv, NEW n \in Node, NEW p \in Node, FinishReplace(n, p) PROVE IInv'
<1> DEFINE q == pull[n][p]
           s == store[n]
           t == [s EXCEPT !.gen = q.gen, !.seq = q.seq, !.tail = q.seq, !.jour = {}]
<1> USE OriginAssumption
<1>0. q \in Pull /\ q.phase = "replacing" /\ s.held = q.snap /\ s \in Store
  BY DEF FinishReplace, TypeOK
<1>1. /\ UNCHANGED <<disk, selfgen, image, mint, stamped, vouched, log>>
      /\ SetPull(n, p, Idle)
      /\ store' = [store EXCEPT ![n] = t]
  BY DEF FinishReplace
<1>2. /\ t \in Store /\ t.gen = q.gen /\ t.seq = q.seq /\ t.held = q.snap /\ t.jour = {}
  BY <1>0 DEF Store, Pull
<1>3. PhaseInv(n, p) /\ CargoInv(n, p) BY DEF IInv, PullInv
<1>4. n # Origin /\ ~Stale(q, s) /\ q.gen <= stamped BY <1>0, <1>3 DEF PhaseInv
<1>5. Faithful(t) BY <1>0, <1>2, <1>3 DEF Faithful, CargoInv
<1>6. /\ q.gen \in Nat /\ q.seq \in Nat /\ s.gen \in Nat /\ s.seq \in Nat
  BY <1>0 DEF Pull, Store
<1> HIDE DEF t
<1>7. /\ t.gen <= stamped /\ s.gen <= t.gen
      /\ t.gen = s.gen => s.seq <= t.seq
  BY <1>2, <1>4, <1>6 DEF Stale
<1>8. \A r \in Node : pull[n][r].phase = "replacing" => r = p
  BY <1>0 DEF IInv, LockInv
<1> QED BY <1>1, <1>2, <1>4, <1>5, <1>7, <1>8, StoreEndRound

LEMMA ApplyInv ==
    ASSUME TypeOK, IInv, NEW n \in Node, NEW p \in Node, Apply(n, p) PROVE IInv'
BY CheckSuffixInv, CommitSuffixInv, BeginReplaceInv, ReplaceChunkInv, ReplaceTrimInv,
   FinishReplaceInv DEF Apply

-----------------------------------------------------------------------------
(* Exporting and compacting preserve the invariant                         *)

LEMMA ExportCommitInv ==
    ASSUME TypeOK, IInv, NEW e \in export, ExportCommit(e) PROVE IInv'
<1> DEFINE r == [seq |-> e.seq + 1, op |-> e.op, hash |-> e.hash]
           s == store[Origin]
           t == ApplyEvents(s, e.gen, e.seq + 1, {r})
<1> USE OriginAssumption
<1>0. /\ e \in Export /\ s \in Store /\ log \in SUBSET Row
      /\ e.gen = s.gen /\ e.seq = s.seq
  BY DEF TypeOK, ExportCommit
<1>1. r \in Row /\ r.seq = s.seq + 1 /\ s.seq \in Nat /\ s.gen \in Nat
  BY <1>0 DEF Export, Row, Store
<1>2. /\ store' = [store EXCEPT ![Origin] = t]
      /\ disk' = [disk EXCEPT ![Origin] = t]
      /\ log' = log \cup {r}
      /\ UNCHANGED <<selfgen, pull, image, mint, stamped, vouched>>
  <2>1. store'[Origin] = t BY DEF ExportCommit, TypeOK
  <2> QED BY <2>1 DEF ExportCommit
<1> HIDE DEF r
<1>3. t \in Store /\ t.gen = s.gen /\ t.seq = s.seq + 1
      /\ t.held = ApplyHolds(s.held, {r}) /\ t.jour \subseteq s.jour \cup {r}
  <2>1. t \in Store BY <1>0, <1>1, ApplyEventsType
  <2>2. t = [s EXCEPT !.gen = e.gen, !.seq = e.seq + 1,
                      !.held = ApplyHolds(@, {r}),
                      !.jour = {x \in @ : \A y \in {r} : y.seq # x.seq} \cup {r}]
    BY DEF ApplyEvents
  <2> QED BY <1>0, <2>1, <2>2 DEF Store
<1>4. /\ History(s, log) /\ \A q \in log : q.seq < r.seq
  <2>1. History(s, log) BY DEF IInv, OriginInv
  <2> QED BY <1>0, <1>1, <2>1 DEF History, Row
<1>5. History(t, log \cup {r})
  <2>1. ApplyHolds(Live(log), {r}) = Live(log \cup {r})
    BY <1>0, <1>1, <1>4, LiveExtend
  <2>2. t.held = Live(log \cup {r}) BY <1>3, <1>4, <2>1 DEF History
  <2>3. Functional(log \cup {r}) BY <1>0, <1>1, <1>4 DEF History, Functional, Row
  <2>4. \A q \in log \cup {r} : 1 <= q.seq /\ q.seq <= t.seq
    BY <1>0, <1>1, <1>3, <1>4 DEF History, Row
  <2> QED BY <1>0, <1>1, <1>3, <1>4, <2>2, <2>3, <2>4 DEF History
<1> HIDE DEF t
<1>6. \A m \in Node : /\ store'[m] = IF m = Origin THEN t ELSE store[m]
                      /\ disk'[m] = IF m = Origin THEN t ELSE disk[m]
  BY <1>2 DEF TypeOK
<1>7. OriginInv' BY <1>2, <1>5, <1>6 DEF OriginInv
<1>8. VouchInv' /\ ImageInv' BY <1>2, <1>3, <1>6 DEF IInv, VouchInv, ImageInv
<1>9. ASSUME NEW held, NEW seq \in Nat, seq <= s.seq, Settled(held, seq, log)
      PROVE  Settled(held, seq, log')
  <2>1. seq < r.seq BY <1>1, <1>9
  <2> QED BY <1>0, <1>1, <1>2, <1>9, <2>1, SettledExtend
<1>10. ASSUME NEW x \in Store, Faithful(x)
       PROVE  Vouched(x.gen) => /\ x.seq <= t.seq
                                /\ x.jour \subseteq log'
                                /\ Settled(x.held, x.seq, log')
  <2> SUFFICES ASSUME Vouched(x.gen)
               PROVE  /\ x.seq <= t.seq
                      /\ x.jour \subseteq log'
                      /\ Settled(x.held, x.seq, log')
    OBVIOUS
  <2>1. x.seq <= s.seq /\ x.jour \subseteq log /\ Settled(x.held, x.seq, log)
    BY <1>10 DEF Faithful
  <2>2. x.seq \in Nat BY DEF Store
  <2>3. x.seq <= t.seq BY <1>1, <1>3, <2>1, <2>2
  <2>4. x.jour \subseteq log' BY <1>2, <2>1
  <2>5. Settled(x.held, x.seq, log') BY <1>9, <2>1, <2>2
  <2> QED BY <2>3, <2>4, <2>5
<1>11. /\ t.seq <= t.seq /\ t.jour \subseteq log' /\ Settled(t.held, t.seq, log')
  BY <1>1, <1>2, <1>3, <1>5, SettledLive DEF History
<1>12. ReplicaInv'
  <2> SUFFICES ASSUME NEW m \in Node PROVE Faithful(store[m])' /\ Faithful(disk[m])'
    BY DEF ReplicaInv
  <2>1. store[m] \in Store /\ disk[m] \in Store /\ Faithful(store[m]) /\ Faithful(disk[m])
    BY DEF TypeOK, IInv, ReplicaInv
  <2>2. store'[Origin].seq = t.seq BY <1>6
  <2>3. CASE m = Origin BY <1>2, <1>6, <1>11, <2>2, <2>3 DEF Faithful
  <2>4. CASE m # Origin
    <3>1. store'[m] = store[m] /\ disk'[m] = disk[m] BY <1>6, <2>4
    <3>2. \A x \in Store : Faithful(x) =>
            (Vouched(x.gen) => /\ x.seq <= t.seq /\ x.jour \subseteq log'
                               /\ Settled(x.held, x.seq, log'))
      BY <1>10
    <3>3. vouched' = vouched BY <1>2
    <3> QED BY <2>1, <2>2, <3>1, <3>2, <3>3 DEF Faithful, Vouched
  <2> QED BY <2>3, <2>4
<1>13. PullInv'
  <2> SUFFICES ASSUME NEW m \in Node, NEW p \in Node
               PROVE  PhaseInv(m, p)' /\ CargoInv(m, p)'
    BY DEF PullInv
  <2>1. PhaseInv(m, p) /\ CargoInv(m, p) BY DEF IInv, PullInv
  <2>2. PhaseInv(m, p)' BY <1>2, <1>3, <1>6, <2>1 DEF PhaseInv
  <2>3. CargoInv(m, p)'
    <3> DEFINE q == pull[m][p]
    <3>1. q.seq \in Nat /\ store[p].seq \in Nat BY DEF TypeOK, Pull, Store
    <3> SUFFICES ASSUME Vouched(q.gen)
                 PROVE  /\ q.phase \in {"suffix", "snapshot"}
                             => store'[p].gen = q.gen /\ q.seq <= store'[p].seq
                        /\ q.phase \in {"gotSuffix", "commit"} => q.rows \subseteq log'
                        /\ q.phase \in {"gotSnapshot", "replacing"}
                             => q.seq <= t.seq /\ Settled(q.snap, q.seq, log')
      BY <1>2, <1>6 DEF CargoInv, Vouched
    <3>2. q.phase \in {"suffix", "snapshot"}
            => store'[p].gen = q.gen /\ q.seq <= store'[p].seq
      BY <1>1, <1>3, <1>6, <2>1, <3>1 DEF CargoInv
    <3>3. q.phase \in {"gotSuffix", "commit"} => q.rows \subseteq log'
      BY <1>2, <2>1 DEF CargoInv
    <3>4. q.phase \in {"gotSnapshot", "replacing"}
            => q.seq <= t.seq /\ Settled(q.snap, q.seq, log')
      BY <1>1, <1>3, <1>9, <2>1, <3>1 DEF CargoInv
    <3> QED BY <3>2, <3>3, <3>4
  <2> QED BY <2>2, <2>3
<1>14. LockInv' BY <1>2 DEF IInv, LockInv
<1> QED BY <1>7, <1>8, <1>12, <1>13, <1>14 DEF IInv

LEMMA ExporterInv == ASSUME TypeOK, IInv, Exporter PROVE IInv'
<1>1. ASSUME NEW op \in {"have", "drop"}, NEW h \in Hash, ExportBegin(op, h) PROVE IInv'
  BY <1>1, InvUntouched DEF ExportBegin
<1>2. ASSUME NEW e \in export, ExportBail(e) PROVE IInv'
  BY <1>2, InvUntouched DEF ExportBail
<1> QED BY <1>1, <1>2, ExportCommitInv DEF Exporter

LEMMA MaintainInv == ASSUME TypeOK, IInv, NEW n \in Node, Maintain(n) PROVE IInv'
<1>1. CASE PlanCompaction(n) BY <1>1, InvUntouched DEF PlanCompaction
<1>2. CASE CompactJournal(n)
  <2> DEFINE s == store[n]
             t == CompactTo(s, plan[n])
  <2>0. s \in Store /\ plan[n] \in Nat BY DEF TypeOK
  <2>1. /\ t \in Store /\ t.gen = s.gen /\ t.seq = s.seq /\ t.held = s.held
        /\ t.jour \subseteq s.jour
    BY <2>0 DEF CompactTo, Store
  <2>2. Faithful(s) BY DEF IInv, ReplicaInv
  <2>3. Faithful(t) BY <2>1, <2>2 DEF Faithful
  <2>4. /\ store' = [store EXCEPT ![n] = t]
        /\ UNCHANGED <<pull, disk, selfgen, image, mint, stamped, vouched, log>>
    BY <1>2 DEF CompactJournal
  <2> HIDE DEF t
  <2> QED BY <2>1, <2>3, <2>4, StoreOnly
<1> QED BY <1>1, <1>2 DEF Maintain

-----------------------------------------------------------------------------
(* Generations and faults preserve the invariant                           *)

(* The Origin's clock is stamped with a generation over a whole history.   *)
(* If the generation is new nobody else can be on it, and if it is not it  *)
(* is no longer vouched for: either way no other record is claimed about.  *)
LEMMA StampInv ==
    ASSUME TypeOK, IInv, NEW s \in Store, NEW gen \in Nat, Stamp(s, gen),
           History(s, log'), UNCHANGED image,
           mint' \in Nat, mint <= mint', gen <= mint', selfgen' <= mint',
           vouched' = 0 \/ (vouched' = gen /\ gen > stamped)
    PROVE  /\ OriginInv' /\ VouchInv' /\ ImageInv' /\ ReplicaInv'
           /\ \A m, r \in Node : pull'[m][r] = pull[m][r]
                => PhaseInv(m, r)' /\ CargoInv(m, r)'
<1> USE OriginAssumption
<1> DEFINE t == [s EXCEPT !.gen = gen]
<1>1. /\ t.gen = gen /\ t.seq = s.seq /\ t.held = s.held /\ t.jour = s.jour
      /\ t \in Store
  BY DEF Store
<1>2. /\ store' = [store EXCEPT ![Origin] = t]
      /\ disk' = [disk EXCEPT ![Origin] = t]
      /\ stamped' = Maximum(stamped, gen)
  BY DEF Stamp
<1>3. History(t, log') BY <1>1 DEF History
<1> HIDE DEF t
<1>4. \A m \in Node : /\ store'[m] = IF m = Origin THEN t ELSE store[m]
                      /\ disk'[m] = IF m = Origin THEN t ELSE disk[m]
  BY <1>2 DEF TypeOK
<1>5. /\ stamped \in Nat /\ stamped' \in Nat /\ mint \in Nat
      /\ stamped <= stamped' /\ gen <= stamped' /\ stamped <= mint
      /\ stamped' = stamped \/ stamped' = gen
  BY <1>2 DEF TypeOK, Maximum, IInv, VouchInv
<1>6. \A m \in Node : /\ store[m].gen \in Nat /\ disk[m].gen \in Nat
                      /\ store[m].gen <= stamped /\ disk[m].gen <= stamped
  BY DEF TypeOK, Store, IInv, VouchInv
<1>7. OriginInv' BY <1>3, <1>4 DEF OriginInv
<1>8. VouchInv'
  <2>1. vouched' # 0 => vouched' = gen /\ gen = stamped' BY <1>5
  <2>2. stamped' <= mint' BY <1>5
  <2>3. \A n \in Node : store'[n].gen <= stamped' /\ disk'[n].gen <= stamped'
    BY <1>1, <1>4, <1>5, <1>6
  <2> QED BY <1>1, <1>4, <2>1, <2>2, <2>3 DEF VouchInv
<1>9. ImageInv'
  <2>1. \A im \in image : /\ History(im.rec, im.log) /\ im.rec.gen <= stamped
                          /\ im.selfgen <= mint /\ im.rec.gen \in Nat /\ im.selfgen \in Nat
    BY DEF IInv, ImageInv, TypeOK, Image, Store
  <2> QED BY <1>5, <2>1 DEF ImageInv
<1>10. \A g \in Nat : g <= stamped /\ g # 0 => g # vouched'
  BY <1>5
<1>11. ReplicaInv'
  <2> SUFFICES ASSUME NEW m \in Node PROVE Faithful(store[m])' /\ Faithful(disk[m])'
    BY DEF ReplicaInv
  <2>1. CASE m # Origin BY <1>4, <1>6, <1>10, <2>1 DEF Faithful, Vouched
  <2>2. CASE m = Origin
    <3>1. store'[m] = t /\ disk'[m] = t /\ store'[Origin] = t BY <1>4, <2>2
    <3>2. t.seq <= t.seq /\ t.jour \subseteq log' /\ Settled(t.held, t.seq, log')
      BY <1>1, <1>3, SettledLive DEF History, Store
    <3> QED BY <3>1, <3>2 DEF Faithful
  <2> QED BY <2>1, <2>2
<1>12. ASSUME NEW m \in Node, NEW r \in Node, pull'[m][r] = pull[m][r]
       PROVE  PhaseInv(m, r)' /\ CargoInv(m, r)'
  <2> DEFINE q == pull[m][r]
  <2>1. q.gen \in Nat /\ PhaseInv(m, r) BY DEF TypeOK, Pull, IInv, PullInv
  <2>2. PhaseInv(m, r)'
    <3>1. q.phase = "remint" => q.gen <= mint' BY <1>5, <2>1 DEF PhaseInv
    <3>2. q.phase # "remint" => q.gen <= stamped' BY <1>5, <2>1 DEF PhaseInv
    <3>3. m # Origin => store'[m] = store[m] BY <1>4
    <3> QED BY <1>12, <2>1, <3>1, <3>2, <3>3 DEF PhaseInv
  <2>3. CargoInv(m, r)'
    <3>1. CASE q.phase = "remint" BY <1>12, <3>1 DEF CargoInv
    <3>2. CASE q.phase # "remint"
      BY <1>10, <1>12, <2>1, <3>2 DEF PhaseInv, CargoInv, Vouched
    <3> QED BY <3>1, <3>2
  <2> QED BY <2>2, <2>3
<1> QED BY <1>7, <1>8, <1>9, <1>11, <1>12

(* Ending rounds never breaks what is claimed of the others.               *)
LEMMA RoundsEnd ==
    ASSUME IInv, stamped' \in Nat,
           \A m, r \in Node : pull'[m][r] = Idle \/ pull'[m][r] = pull[m][r],
           \A m, r \in Node : (pull'[m][r] = pull[m][r] /\ pull'[m][r] # Idle)
                               => PhaseInv(m, r)' /\ CargoInv(m, r)'
    PROVE  PullInv' /\ LockInv'
<1>1. PullInv'
  <2> SUFFICES ASSUME NEW m \in Node, NEW r \in Node
               PROVE  PhaseInv(m, r)' /\ CargoInv(m, r)'
    BY DEF PullInv
  <2>1. CASE pull'[m][r] = Idle BY <2>1, IdleInv
  <2>2. CASE pull'[m][r] # Idle BY <2>2
  <2> QED BY <2>1, <2>2
<1>2. Idle.phase # "replacing" BY DEF Idle
<1>3. LockInv' BY <1>2 DEF IInv, LockInv
<1> QED BY <1>1, <1>3

LEMMA NoticeFutureInv ==
    ASSUME TypeOK, IInv, NEW p \in Node, NoticeFuture(p) PROVE IInv'
<1> USE OriginAssumption
<1> DEFINE a == [Idle EXCEPT !.phase = "remint", !.gen = mint + 1]
<1>1. UNCHANGED <<store, image, stamped, vouched, log>> BY DEF NoticeFuture
<1>2. CASE UNCHANGED <<mint, selfgen, disk>> /\ SetPull(Origin, p, Idle)
  BY <1>1, <1>2, EndRound
<1>3. CASE /\ mint' = mint + 1 /\ selfgen' = mint + 1
           /\ disk' = [disk EXCEPT ![Origin] = store[Origin]]
           /\ SetPull(Origin, p, a)
  <2>1. a.phase = "remint" /\ a.gen = mint + 1 BY DEF Idle
  <2> HIDE DEF a
  <2>2. \A m, r \in Node : pull'[m][r] = IF m = Origin /\ r = p THEN a ELSE pull[m][r]
    BY <1>3 DEF SetPull, TypeOK
  <2>3. \A m \in Node : disk'[m] = IF m = Origin THEN store[m] ELSE disk[m]
    BY <1>3 DEF TypeOK
  <2>4. mint \in Nat /\ stamped \in Nat /\ mint' = mint + 1 /\ stamped <= mint
    BY <1>3 DEF TypeOK, IInv, VouchInv
  <2>5. OriginInv' BY <1>1, <2>3 DEF IInv, OriginInv
  <2>6. VouchInv' BY <1>1, <1>3, <2>3, <2>4 DEF IInv, VouchInv
  <2>7. ImageInv'
    <3>1. \A im \in image : /\ History(im.rec, im.log) /\ im.rec.gen <= stamped
                            /\ im.selfgen <= mint /\ im.selfgen \in Nat
      BY DEF IInv, ImageInv, TypeOK, Image
    <3> QED BY <1>1, <2>4, <3>1 DEF ImageInv
  <2>8. ReplicaInv' BY <1>1, <2>3 DEF IInv, ReplicaInv, Faithful, Vouched
  <2>9. PullInv'
    <3> SUFFICES ASSUME NEW m \in Node, NEW r \in Node
                 PROVE  PhaseInv(m, r)' /\ CargoInv(m, r)'
      BY DEF PullInv
    <3>1. CASE m = Origin /\ r = p
      BY <2>1, <2>2, <2>4, <3>1 DEF PhaseInv, CargoInv
    <3>2. CASE ~(m = Origin /\ r = p)
      <4>1. pull'[m][r] = pull[m][r] BY <2>2, <3>2
      <4>2. PhaseInv(m, r) /\ CargoInv(m, r) /\ pull[m][r].gen \in Nat
        BY DEF IInv, PullInv, TypeOK, Pull
      <4>3. PhaseInv(m, r)' BY <1>1, <2>4, <4>1, <4>2 DEF PhaseInv
      <4>4. CargoInv(m, r)' BY <1>1, <4>1, <4>2 DEF CargoInv, Vouched
      <4> QED BY <4>3, <4>4
    <3> QED BY <3>1, <3>2
  <2>10. LockInv' BY <2>1, <2>2 DEF IInv, LockInv
  <2> QED BY <2>5, <2>6, <2>7, <2>8, <2>9, <2>10 DEF IInv
<1> QED BY <1>2, <1>3 DEF NoticeFuture

LEMMA StampGenerationInv ==
    ASSUME TypeOK, IInv, NEW p \in Node, StampGeneration(p) PROVE IInv'
<1> USE OriginAssumption
<1> DEFINE g == pull[Origin][p].gen
<1>1. /\ store[Origin] \in Store /\ g \in Nat /\ mint \in Nat
      /\ stamped \in Nat /\ stamped' \in Nat
  BY DEF TypeOK, Pull, StampGeneration, Stamp, Maximum
<1>2. g <= mint BY DEF IInv, PullInv, PhaseInv, StampGeneration
<1>3. /\ Stamp(store[Origin], g) /\ SetPull(Origin, p, Idle)
      /\ UNCHANGED <<selfgen, image, mint, log>>
      /\ vouched' = 0 \/ (vouched' = g /\ g > stamped)
  BY DEF StampGeneration
<1>4. History(store[Origin], log') /\ selfgen' <= mint' /\ mint' = mint
  BY <1>3 DEF IInv, OriginInv, VouchInv
<1>5. /\ OriginInv' /\ VouchInv' /\ ImageInv' /\ ReplicaInv'
      /\ \A m, r \in Node : pull'[m][r] = pull[m][r]
           => PhaseInv(m, r)' /\ CargoInv(m, r)'
  BY <1>1, <1>2, <1>3, <1>4, StampInv
<1>6. \A m, r \in Node : pull'[m][r] = IF m = Origin /\ r = p THEN Idle ELSE pull[m][r]
  BY <1>3 DEF SetPull, TypeOK
<1> QED BY <1>1, <1>5, <1>6, RoundsEnd DEF IInv

LEMMA RemintInv == ASSUME TypeOK, IInv, NEW p \in Node, Remint(p) PROVE IInv'
BY NoticeFutureInv, StampGenerationInv DEF Remint

(* A crash of n ends its rounds and those it was answering, and no other.  *)
LEMMA ForgetFrame ==
    ASSUME TypeOK, NEW n \in Node, Forget(n), NEW m \in Node, NEW r \in Node
    PROVE  \/ pull'[m][r] = Idle
           \/ /\ pull'[m][r] = pull[m][r]
              /\ m # n
              /\ r = n => pull[m][r].phase \notin {"asked", "suffix", "snapshot"}
BY DEF Forget

(* n restarts on a record that makes no false claim; the Origin's is its   *)
(* own history under the same clock.                                       *)
LEMMA RestartInv ==
    ASSUME TypeOK, IInv, NEW n \in Node, NEW s \in Store, Forget(n),
           s.gen <= stamped, Faithful(s),
           n = Origin => /\ History(s, log)
                         /\ s.gen = store[Origin].gen /\ s.seq = store[Origin].seq,
           store' = [store EXCEPT ![n] = s],
           \A m \in Node : disk'[m] = disk[m] \/ (m = n /\ disk'[m] = s),
           UNCHANGED <<selfgen, image, mint, stamped, vouched, log>>
    PROVE  IInv'
<1> USE OriginAssumption
<1>1. \A m \in Node : store'[m] = IF m = n THEN s ELSE store[m] BY DEF TypeOK
<1>2. store'[Origin].seq = store[Origin].seq /\ store'[Origin].gen = store[Origin].gen
  BY <1>1
<1>3. OriginInv'
  <2>1. History(store'[Origin], log) BY <1>1 DEF IInv, OriginInv
  <2>2. History(disk'[Origin], log) /\ disk'[Origin].gen = store[Origin].gen
        /\ disk'[Origin].seq = store[Origin].seq
    BY DEF IInv, OriginInv
  <2> QED BY <1>2, <2>1, <2>2 DEF OriginInv
<1>4. VouchInv' BY <1>1, <1>2 DEF IInv, VouchInv
<1>5. ImageInv' BY DEF IInv, ImageInv
<1>6. ReplicaInv'
  <2> SUFFICES ASSUME NEW m \in Node PROVE Faithful(store[m])' /\ Faithful(disk[m])'
    BY DEF ReplicaInv
  <2>1. Faithful(store[m]) /\ Faithful(disk[m]) BY DEF IInv, ReplicaInv
  <2>2. /\ store'[m] = s \/ store'[m] = store[m]
        /\ disk'[m] = s \/ disk'[m] = disk[m]
    BY <1>1
  <2> QED BY <1>2, <2>1, <2>2 DEF Faithful, Vouched
<1>7. ASSUME NEW m \in Node, NEW r \in Node, pull'[m][r] = pull[m][r], pull'[m][r] # Idle
      PROVE  PhaseInv(m, r)' /\ CargoInv(m, r)'
  <2>1. m # n /\ (r = n => pull[m][r].phase \notin {"asked", "suffix", "snapshot"})
    BY <1>7, ForgetFrame
  <2>2. PhaseInv(m, r) /\ CargoInv(m, r) BY DEF IInv, PullInv
  <2>3. store'[m] = store[m] /\ (r # n => store'[r] = store[r]) BY <1>1, <2>1
  <2>4. PhaseInv(m, r)' BY <1>7, <2>2, <2>3 DEF PhaseInv
  <2>5. CargoInv(m, r)' BY <1>2, <1>7, <2>1, <2>2, <2>3 DEF CargoInv, Vouched
  <2> QED BY <2>4, <2>5
<1>8. PullInv' /\ LockInv'
  <2>1. stamped' \in Nat BY DEF TypeOK
  <2>2. \A m, r \in Node : pull'[m][r] = Idle \/ pull'[m][r] = pull[m][r]
    BY ForgetFrame
  <2> QED BY <1>7, <2>1, <2>2, RoundsEnd
<1> QED BY <1>3, <1>4, <1>5, <1>6, <1>8 DEF IInv

(* The Origin restarts under a generation it does not vouch for yet.       *)
LEMMA RestampInv ==
    ASSUME TypeOK, IInv, NEW s \in Store, NEW gen \in Nat, Forget(Origin), Stamp(s, gen),
           History(s, log'), UNCHANGED image,
           mint' \in Nat, mint <= mint', gen <= mint', selfgen' <= mint',
           vouched' = 0 \/ (vouched' = gen /\ gen > stamped)
    PROVE  IInv'
<1>1. /\ OriginInv' /\ VouchInv' /\ ImageInv' /\ ReplicaInv'
      /\ \A m, r \in Node : pull'[m][r] = pull[m][r]
           => PhaseInv(m, r)' /\ CargoInv(m, r)'
  BY StampInv
<1>2. stamped' \in Nat BY DEF TypeOK, Stamp, Maximum
<1>3. \A m, r \in Node : pull'[m][r] = Idle \/ pull'[m][r] = pull[m][r]
  BY OriginAssumption, ForgetFrame
<1> QED BY <1>1, <1>2, <1>3, RoundsEnd DEF IInv

(* Index::open on a record of the Origin's own history, or on a replica's. *)
LEMMA ReopenInv ==
    ASSUME TypeOK, IInv, NEW n \in Node, NEW s \in Store, Forget(n), Reopen(n, s),
           s = store[n] \/ s = disk[n],
           UNCHANGED <<selfgen, image, mint, log>>
    PROVE  IInv'
<1> USE OriginAssumption
<1>1. s.gen <= stamped /\ Faithful(s) BY DEF IInv, VouchInv, ReplicaInv
<1>2. n = Origin => /\ History(s, log)
                    /\ s.gen = store[Origin].gen /\ s.seq = store[Origin].seq
  BY DEF IInv, OriginInv
<1>3. CASE n # Origin
  <2>1. store' = [store EXCEPT ![n] = s] /\ UNCHANGED <<disk, stamped, vouched>>
    BY <1>3 DEF Reopen
  <2> QED BY <1>1, <1>3, <2>1, RestartInv
<1>4. CASE n = Origin
  <2>1. /\ Stamp(s, selfgen)
        /\ vouched' = IF selfgen = s.gen THEN vouched
                      ELSE IF selfgen > stamped THEN selfgen ELSE 0
    BY <1>4 DEF Reopen
  <2>2. selfgen \in Nat /\ mint \in Nat /\ selfgen <= mint
    BY DEF TypeOK, IInv, VouchInv
  <2>3. CASE selfgen # s.gen
    <3>1. vouched' = 0 \/ (vouched' = selfgen /\ selfgen > stamped) BY <2>1, <2>3
    <3>2. mint' \in Nat /\ mint <= mint' /\ selfgen <= mint' /\ selfgen' <= mint'
      BY <2>2
    <3>3. History(s, log') BY <1>2, <1>4
    <3> QED BY <1>4, <2>1, <2>2, <3>1, <3>2, <3>3, RestampInv
  <2>4. CASE selfgen = s.gen
    <3>1. [s EXCEPT !.gen = selfgen] = s BY <2>4 DEF Store
    <3>2. store' = [store EXCEPT ![n] = s] /\ disk' = [disk EXCEPT ![n] = s]
      BY <1>4, <2>1, <3>1 DEF Stamp
    <3>3. stamped' = stamped
      BY <1>1, <2>1, <2>4 DEF Stamp, Maximum, TypeOK, Store
    <3>4. \A m \in Node : disk'[m] = disk[m] \/ (m = n /\ disk'[m] = s)
      BY <3>2 DEF TypeOK
    <3>5. vouched' = vouched BY <2>1, <2>4
    <3> QED BY <1>1, <1>2, <3>2, <3>3, <3>4, <3>5, RestartInv
  <2> QED BY <2>3, <2>4
<1> QED BY <1>3, <1>4

LEMMA FlushInv == ASSUME TypeOK, IInv, NEW n \in Node, Flush(n) PROVE IInv'
<1>1. /\ UNCHANGED <<store, selfgen, pull, image, mint, stamped, vouched, log>>
      /\ \A m \in Node : disk'[m] = disk[m] \/ disk'[m] = store[m]
  BY DEF Flush, TypeOK
<1>2. OriginInv' BY <1>1, OriginAssumption DEF IInv, OriginInv
<1>3. VouchInv' BY <1>1 DEF IInv, VouchInv
<1>4. ImageInv' /\ LockInv' BY <1>1 DEF IInv, ImageInv, LockInv
<1>5. ReplicaInv' BY <1>1 DEF IInv, ReplicaInv, Faithful, Vouched
<1>6. PullInv' BY <1>1 DEF IInv, PullInv, PhaseInv, CargoInv, Vouched
<1> QED BY <1>2, <1>3, <1>4, <1>5, <1>6 DEF IInv

LEMMA EmptyHistory == History(NoStore, {})
BY DEF History, NoStore, Functional, Live

LEMMA LoseReplicaInv == ASSUME TypeOK, IInv, NEW n \in Node, LoseReplica(n) PROVE IInv'
<1>1. /\ n # Origin /\ Forget(n)
      /\ store' = [store EXCEPT ![n] = NoStore]
      /\ UNCHANGED <<selfgen, image, mint, stamped, vouched, log>>
  BY DEF LoseReplica
<1>2. \A m \in Node : disk'[m] = disk[m] \/ (m = n /\ disk'[m] = NoStore)
  BY DEF LoseReplica, TypeOK
<1>3. NoStore.gen = 0 /\ Faithful(NoStore) BY DEF NoStore, Faithful, Vouched
<1>4. NoStore.gen <= stamped BY <1>3 DEF TypeOK
<1> QED BY <1>1, <1>2, <1>3, <1>4, NoStoreType, RestartInv

LEMMA LoseOriginInv == ASSUME TypeOK, IInv, LoseOrigin PROVE IInv'
<1> DEFINE g == mint + 1
<1>1. /\ Forget(Origin) /\ Stamp(NoStore, g) /\ UNCHANGED image
      /\ mint' = g /\ selfgen' = g /\ vouched' = g /\ log' = {}
  BY DEF LoseOrigin
<1>2. mint \in Nat /\ stamped \in Nat /\ stamped <= mint BY DEF TypeOK, IInv, VouchInv
<1>3. g \in Nat /\ mint <= g /\ g <= g /\ g > stamped BY <1>2
<1>4. History(NoStore, log') BY <1>1, EmptyHistory
<1> HIDE DEF g
<1> QED BY <1>1, <1>3, <1>4, NoStoreType, RestampInv

LEMMA RestoreImageInv == ASSUME TypeOK, IInv, NEW im \in image, RestoreImage(im) PROVE IInv'
<1>1. /\ Forget(Origin) /\ Stamp(im.rec, im.selfgen) /\ UNCHANGED <<image, mint>>
      /\ selfgen' = im.selfgen /\ vouched' = 0 /\ log' = im.log
  BY DEF RestoreImage
<1>2. im.rec \in Store /\ im.selfgen \in Nat /\ mint \in Nat BY DEF TypeOK, Image
<1>3. History(im.rec, im.log) /\ im.selfgen <= mint BY DEF IInv, ImageInv
<1>4. mint' \in Nat /\ mint <= mint' /\ im.selfgen <= mint' /\ selfgen' <= mint'
  BY <1>1, <1>2, <1>3
<1> QED BY <1>1, <1>2, <1>3, <1>4, RestampInv

LEMMA TakeImageInv == ASSUME TypeOK, IInv, TakeImage PROVE IInv'
<1>1. UNCHANGED <<store, disk, selfgen, pull, mint, stamped, vouched, log>>
  BY DEF TakeImage
<1>2. ImageInv'
  <2>1. \A im \in image' : im.rec = store[Origin] /\ im.selfgen = selfgen /\ im.log = log
    BY DEF TakeImage
  <2> QED BY <1>1, <2>1, OriginAssumption DEF IInv, OriginInv, VouchInv, ImageInv
<1> QED BY <1>1, <1>2 DEF IInv, OriginInv, VouchInv, ReplicaInv, Faithful, Vouched,
        PullInv, PhaseInv, CargoInv, LockInv

LEMMA FaultInv == ASSUME TypeOK, IInv, Fault PROVE IInv'
<1>1. ASSUME NEW n \in Node, Crash(n) PROVE IInv'
  <2>1. store[n] \in Store BY DEF TypeOK
  <2> QED BY <1>1, <2>1, ReopenInv DEF Crash
<1>2. ASSUME NEW n \in Node, HostCrash(n) PROVE IInv'
  <2>1. disk[n] \in Store BY DEF TypeOK
  <2> QED BY <1>2, <2>1, ReopenInv DEF HostCrash
<1> QED BY <1>1, <1>2, FlushInv, LoseReplicaInv, LoseOriginInv, TakeImageInv, RestoreImageInv
        DEF Fault

-----------------------------------------------------------------------------
(* The theorems *)

LEMMA InvNext == TypeOK /\ IInv /\ [Next]_vars => IInv'
<1> SUFFICES ASSUME TypeOK, IInv, [Next]_vars PROVE IInv'
  OBVIOUS
<1>1. CASE UNCHANGED vars BY <1>1, InvUntouched DEF vars
<1> QED BY <1>1, ExporterInv, ExchangeInv, ApplyInv, RemintInv, MaintainInv, FaultInv
        DEF Next

LEMMA Invariance == Spec => [](TypeOK /\ IInv)
<1>1. Init => TypeOK /\ IInv BY TypeInit, InvInit
<1>2. TypeOK /\ IInv /\ [Next]_vars => (TypeOK /\ IInv)' BY TypeNext, InvNext
<1> QED BY <1>1, <1>2, PTL DEF Spec

(* In every mesh, whatever is compacted, torn, replayed, crashed, lost or  *)
(* restored, no replica on the Origin's numbering holds a row that was     *)
(* never exported or a holding later rows would not correct: apply_suffix, *)
(* replace_holdings and the generation rules lose history, never bend it.  *)
THEOREM Faithfulness == Spec => []ReplicasFaithful
<1>1. IInv => ReplicasFaithful BY DEF IInv, ReplicaInv, ReplicasFaithful
<1> QED BY <1>1, Invariance, PTL

(* In every mesh a replica that respond_budgeted would call up to date     *)
(* (equal clocks, a generation never reused) holds what the Origin holds.  *)
THEOREM HeadExact == Spec => []HeadIsExact
<1>1. TypeOK /\ IInv => HeadIsExact
  <2> SUFFICES ASSUME TypeOK, IInv, NEW n \in Node, Vouched(store[n].gen),
                      store[n].seq = store[Origin].seq
               PROVE  store[n].held = store[Origin].held
    BY DEF HeadIsExact
  <2>1. History(store[Origin], log) BY DEF IInv, OriginInv
  <2>2. Settled(store[n].held, store[n].seq, log) BY DEF IInv, ReplicaInv, Faithful
  <2>3. \A h \in Hash : h \in store[n].held <=> h \in Live(log)
    BY <2>1, <2>2 DEF History, Settled
  <2>4. store[n].held \subseteq Hash /\ store[Origin].held = Live(log)
    BY <2>1 DEF TypeOK, Store, History
  <2> QED BY <2>3, <2>4, LiveType
<1> QED BY <1>1, Invariance, PTL

(* Unless an old disk image is restored, a generation the Origin keeps only *)
(* gains history, over process and power loss: what commit_with_delta's    *)
(* synced exports and the order of the remint's two writes are for.        *)
THEOREM NoReissue == ASSUME "restore" \notin Faults PROVE Spec => SeqsNeverReissued
<1> USE OriginAssumption
<1> DEFINE Grows == store'[Origin].gen = store[Origin].gen
                      => store[Origin].seq <= store'[Origin].seq /\ log \subseteq log'
<1>1. TypeOK /\ IInv /\ [Next]_vars => Grows
  <2> SUFFICES ASSUME TypeOK, IInv, [Next]_vars PROVE Grows
    OBVIOUS
  <2>1. store[Origin] \in Store /\ store[Origin].seq \in Nat /\ disk[Origin].seq = store[Origin].seq
    BY DEF TypeOK, Store, IInv, OriginInv
  <2>2. CASE UNCHANGED vars BY <2>1, <2>2 DEF vars
  <2>3. CASE Exporter
    <3>1. ASSUME NEW e \in export, ExportCommit(e) PROVE Grows
      BY <2>1, <3>1 DEF ExportCommit, ApplyEvents, TypeOK, Store
    <3>2. ASSUME UNCHANGED <<store, log>> PROVE Grows BY <2>1, <3>2
    <3> QED BY <2>3, <3>1, <3>2 DEF Exporter, ExportBegin, ExportBail
  <2>4. ASSUME NEW n \in Node, NEW p \in Node, Exchange(n, p) \/ Apply(n, p)
        PROVE  Grows
    <3>1. log' = log
      BY <2>4 DEF Exchange, Ask, HandleSync, ReadSuffix, ReadSnapshot, PullFails, Apply,
         CheckSuffix, CommitSuffix, BeginReplace, ReplaceChunk, ReplaceTrim, FinishReplace
    <3>2. store'[Origin].seq = store[Origin].seq
      <4>1. CASE Exchange(n, p)
        <5>1. store' = store \/ store' = [store EXCEPT ![p] = RecordWatermark(@, n, pull[n][p])]
          BY <4>1 DEF Exchange, Ask, HandleSync, ReadSuffix, ReadSnapshot, PullFails
        <5>2. RecordWatermark(store[p], n, pull[n][p]).seq = store[p].seq
          BY DEF RecordWatermark, TypeOK, Store
        <5> QED BY <5>1, <5>2 DEF TypeOK
      <4>2. CASE Apply(n, p)
        <5>1. n # Origin
          BY <4>2 DEF IInv, PullInv, PhaseInv, Apply, CheckSuffix, CommitSuffix,
             BeginReplace, ReplaceChunk, ReplaceTrim, FinishReplace
        <5> QED
          BY <4>2, <5>1 DEF Apply, CheckSuffix, CommitSuffix, BeginReplace, ReplaceChunk,
             ReplaceTrim, FinishReplace, TypeOK
      <4> QED BY <2>4, <4>1, <4>2
    <3> QED BY <2>1, <3>1, <3>2
  <2>5. ASSUME NEW p \in Node, Remint(p) PROVE Grows
    BY <2>1, <2>5 DEF Remint, NoticeFuture, StampGeneration, Stamp, TypeOK, Store
  <2>6. ASSUME NEW n \in Node, Maintain(n) PROVE Grows
    <3>1. log' = log BY <2>6 DEF Maintain, PlanCompaction, CompactJournal
    <3>2. CompactTo(store[n], plan[n]).seq = store[n].seq
      BY DEF CompactTo, TypeOK, Store
    <3>3. store' = store \/ store' = [store EXCEPT ![n] = CompactTo(@, plan[n])]
      BY <2>6 DEF Maintain, PlanCompaction, CompactJournal
    <3>4. store'[Origin].seq = store[Origin].seq BY <3>2, <3>3 DEF TypeOK
    <3> QED BY <2>1, <3>1, <3>4
  <2>7. CASE Fault
    <3>1. ASSUME NEW n \in Node, NEW s \in Store, Reopen(n, s), UNCHANGED log,
                 s = store[n] \/ s = disk[n]
          PROVE  Grows
      <4>1. [s EXCEPT !.gen = selfgen].seq = s.seq BY DEF Store
      <4>2. CASE n = Origin
        <5>1. store'[Origin].seq = s.seq BY <3>1, <4>1, <4>2 DEF Reopen, Stamp, TypeOK
        <5> QED BY <2>1, <3>1, <4>2, <5>1
      <4>3. CASE n # Origin
        <5>1. store'[Origin] = store[Origin] BY <3>1, <4>3 DEF Reopen, TypeOK
        <5> QED BY <2>1, <3>1, <5>1
      <4> QED BY <4>2, <4>3
    <3>2. ASSUME NEW n \in Node, Crash(n) \/ HostCrash(n) PROVE Grows
      BY <3>1, <3>2 DEF Crash, HostCrash, TypeOK
    <3>3. ASSUME NEW n \in Node, Flush(n) \/ LoseReplica(n) PROVE Grows
      BY <2>1, <3>3 DEF Flush, LoseReplica, TypeOK
    <3>4. CASE LoseOrigin
      <4>1. store'[Origin].gen = mint + 1
        BY <3>4, NoStoreType DEF LoseOrigin, Stamp, TypeOK, Store
      <4>2. store[Origin].gen <= mint /\ mint \in Nat /\ store[Origin].gen \in Nat
        <5>1. store[Origin].gen <= stamped /\ stamped <= mint /\ stamped \in Nat /\ mint \in Nat
              /\ store[Origin].gen \in Nat
          BY DEF IInv, VouchInv, TypeOK, Store
        <5> QED BY <5>1
      <4> QED BY <4>1, <4>2
    <3>5. CASE TakeImage BY <2>1, <3>5 DEF TakeImage
    <3>6. \A im \in image : ~RestoreImage(im) BY DEF RestoreImage, Strikes
    <3> QED BY <2>7, <3>2, <3>3, <3>4, <3>5, <3>6 DEF Fault
  <2> QED BY <2>2, <2>3, <2>4, <2>5, <2>6, <2>7 DEF Next
<1> QED BY <1>1, Invariance, PTL DEF Spec, SeqsNeverReissued

-----------------------------------------------------------------------------
(* Possession implements Replication, for every mesh, bound and choice of  *)
(* faults.  The mapping is Possession's: only nodes on the generation the  *)
(* history vouches for stand anywhere in the log.                          *)

MRollback == Faults \cap {"hostcrash", "replicaloss"} # {}
MRebirth == Faults \cap {"originloss", "restore"} # {}

(* The abstract variables, named.                                          *)
MLog == IF vouched = 0 THEN {} ELSE log
MPos == [n \in Node |-> IF Follows(n) THEN store[n].seq ELSE 0]
MView == [n \in Node |-> IF Follows(n) THEN store[n].held ELSE {}]

(* A mesh whose Origin never loses its past never leaves the generation it *)
(* started with: nothing it hears of its own stream is news to it.         *)
Steady ==
    /\ vouched # 0
    /\ vouched = store[Origin].gen
    /\ selfgen = vouched
    /\ \A p \in Node : /\ pull[Origin][p].phase # "remint"
                       /\ pull[Origin][p].phase = "line"
                            => ~Future(pull[Origin][p], store[Origin])

SteadyInv == ~MRebirth => Steady

-----------------------------------------------------------------------------
(* What the mapping reads of a step                                         *)

(* A step that follows, or a stutter, seen from the mapping.               *)
LEMMA MapUnchanged ==
    ASSUME vouched' = vouched, log' = log,
           \A m \in Node : /\ store'[m].gen = store[m].gen
                           /\ store'[m].seq = store[m].seq
                           /\ store'[m].held = store[m].held
    PROVE  UNCHANGED Mesh!vars
<1>1. MLog' = MLog BY DEF MLog
<1>2. MPos' = MPos BY DEF MPos, Follows, Vouched
<1>3. MView' = MView BY DEF MView, Follows, Vouched
<1> QED BY <1>1, <1>2, <1>3 DEF Mesh!vars, MLog, MPos, MView

(* One replica moves within the generation vouched for: forward, or back   *)
(* where stores may lose writes.                                           *)
LEMMA OneStands ==
    ASSUME TypeOK, IInv, TypeOK', IInv', NEW n \in Node, n # Origin,
           vouched' = vouched, log' = log,
           \A m \in Node \ {n} : /\ store'[m].gen = store[m].gen
                                 /\ store'[m].seq = store[m].seq
                                 /\ store'[m].held = store[m].held,
           \/ MRollback
           \/ Follows(n) => store'[n].gen = store[n].gen /\ store[n].seq <= store'[n].seq
    PROVE  [Mesh!Next]_(Mesh!vars)
<1> USE OriginAssumption
<1>0. /\ store[n] \in Store /\ store'[n] \in Store /\ store[Origin] \in Store
      /\ store[n].seq \in Nat /\ store'[n].seq \in Nat /\ store[Origin].seq \in Nat
      /\ store'[n].held \subseteq Hash /\ log \subseteq Row
  BY DEF TypeOK, Store
<1>1. CASE vouched = 0
  <2>1. MLog' = MLog BY <1>1 DEF MLog
  <2>2. MPos' = MPos BY <1>1 DEF MPos, Follows, Vouched
  <2>3. MView' = MView BY <1>1 DEF MView, Follows, Vouched
  <2> QED BY <2>1, <2>2, <2>3 DEF Mesh!vars, MLog, MPos, MView
<1>2. CASE vouched # 0
  <2>a. PICK to, says : to = MPos'[n] /\ says = MView'[n] OBVIOUS
  <2>1. MLog = log /\ MLog' = log BY <1>2 DEF MLog
  <2>2. \A m \in Node \ {n} : MPos'[m] = MPos[m] /\ MView'[m] = MView[m]
    BY DEF MPos, MView, Follows, Vouched
  <2>3. MPos' = [MPos EXCEPT ![n] = to] /\ MView' = [MView EXCEPT ![n] = says]
    BY <2>a, <2>2 DEF MPos, MView
  <2>4. MPos[Origin] = store[Origin].seq /\ MPos[n] \in Nat /\ to \in Nat
        /\ says \subseteq Hash
    <3>1. Follows(Origin)
      <4>1. store[Origin].gen = vouched BY <1>2 DEF IInv, VouchInv
      <4> QED BY <1>2, <4>1 DEF Follows, Vouched
    <3> QED BY <1>0, <2>a, <3>1 DEF MPos, MView
  <2>5. Settled(says, to, log) /\ to <= store[Origin].seq
    <3>1. CASE Follows(n)'
      <4>1. to = store'[n].seq /\ says = store'[n].held BY <2>a, <3>1 DEF MPos, MView
      <4>2. Faithful(store[n])' /\ Vouched(store[n].gen)'
        BY <3>1 DEF IInv, ReplicaInv, Follows
      <4>3. store'[Origin].seq = store[Origin].seq OBVIOUS
      <4> QED BY <4>1, <4>2, <4>3 DEF Faithful
    <3>2. CASE ~Follows(n)'
      <4>1. to = 0 /\ says = {} BY <2>a, <3>2 DEF MPos, MView
      <4>2. \A r \in log : 1 <= r.seq /\ r.seq \in Nat
        BY <1>0 DEF IInv, OriginInv, History, Row
      <4>3. Settled({}, 0, log) BY <4>2 DEF Settled, Live
      <4> QED BY <1>0, <4>1, <4>3
    <3> QED BY <3>1, <3>2
  <2>6. Mesh!RightUpTo(says, to, log)
    BY <2>5 DEF Mesh!RightUpTo, Mesh!Live, Settled, Live
  <2>7. (MRollback /\ to <= MPos[n]) \/ MPos[n] <= to
    <3>1. CASE MRollback BY <2>4, <3>1
    <3>2. CASE Follows(n) => store'[n].gen = store[n].gen /\ store[n].seq <= store'[n].seq
      <4>1. CASE Follows(n)
        <5>1. Follows(n)' BY <3>2, <4>1 DEF Follows, Vouched
        <5> QED BY <2>a, <3>2, <4>1, <5>1 DEF MPos
      <4>2. CASE ~Follows(n)
        <5>1. MPos[n] = 0 BY <4>2 DEF MPos
        <5> QED BY <2>4, <5>1
      <4> QED BY <4>1, <4>2
    <3> QED BY <3>1, <3>2
  <2>8. Mesh!Stand(n, to, says)
    BY <2>1, <2>3, <2>6 DEF Mesh!Stand, MLog, MPos, MView
  <2>9. CASE MPos[n] <= to
    <3>1. to \in MPos[n]..MPos[Origin] BY <2>4, <2>5, <2>9
    <3>2. Mesh!Advance(n) BY <2>4, <2>8, <3>1 DEF Mesh!Advance, MPos
    <3> QED BY <3>2 DEF Mesh!Next
  <2>10. CASE MRollback /\ to <= MPos[n]
    <3>1. to \in 0..MPos[n] BY <2>4, <2>10
    <3>2. Mesh!RollBack(n) BY <2>4, <2>8, <2>10, <3>1 DEF Mesh!RollBack, MPos, MRollback
    <3> QED BY <3>2 DEF Mesh!Next
  <2> QED BY <2>7, <2>9, <2>10
<1> QED BY <1>1, <1>2

(* The Origin is stamped with a generation nobody else is on.              *)
LEMMA StartsOver ==
    ASSUME TypeOK, IInv, TypeOK', IInv', MRebirth,
           \A m \in Node \ {Origin} : store'[m] = store[m],
           vouched' = 0 \/ vouched' > stamped
    PROVE  [Mesh!Next]_(Mesh!vars)
<1> USE OriginAssumption
<1>1. \A m \in Node \ {Origin} : ~Follows(m)'
  <2> SUFFICES ASSUME NEW m \in Node \ {Origin} PROVE ~Follows(m)'
    OBVIOUS
  <2>1. store[m].gen <= stamped /\ store[m].gen \in Nat /\ stamped \in Nat /\ vouched' \in Nat
    BY DEF TypeOK, Store, IInv, VouchInv
  <2> QED BY <2>1 DEF Follows, Vouched
<1>2. \A m \in Node \ {Origin} : MPos'[m] = 0 /\ MView'[m] = {}
  BY <1>1 DEF MPos, MView
<1>3. (\A r \in MLog' : r.seq <= MPos'[Origin]) /\ MView'[Origin] = Mesh!Live(MLog')
  <2>1. CASE vouched' = 0
    BY <2>1 DEF MLog, MPos, MView, Follows, Vouched, Mesh!Live
  <2>2. CASE vouched' # 0
    <3>1. Follows(Origin)' BY <2>2 DEF IInv, VouchInv, Follows, Vouched
    <3>2. History(store[Origin], log)' BY DEF IInv, OriginInv
    <3>3. MPos'[Origin] = store'[Origin].seq /\ MView'[Origin] = store'[Origin].held
          /\ MLog' = log'
      BY <2>2, <3>1 DEF MPos, MView, MLog
    <3> QED BY <3>2, <3>3 DEF History, Live, Mesh!Live
  <2> QED BY <2>1, <2>2
<1>4. Mesh!StartOver
  BY <1>2, <1>3 DEF Mesh!StartOver, MRebirth, MLog, MPos, MView
<1> QED BY <1>4 DEF Mesh!Next

-----------------------------------------------------------------------------
(* What the steps of Possession do to the clocks                           *)

(* Only the exporter, an applied answer, a remint or a fault moves a clock. *)
LEMMA ExchangeFrame ==
    ASSUME TypeOK, NEW n \in Node, NEW p \in Node, Exchange(n, p)
    PROVE  /\ UNCHANGED <<selfgen, vouched, log>>
           /\ \A m \in Node : /\ store'[m].gen = store[m].gen
                              /\ store'[m].seq = store[m].seq
                              /\ store'[m].held = store[m].held
           /\ \A m, r \in Node :
                \/ pull'[m][r] = pull[m][r]
                \/ pull'[m][r].phase \notin {"line", "remint"}
                \/ /\ m = n /\ r = p /\ pull[n][p].phase = "asked"
                   /\ pull'[n][p] = Reply(n, pull[n][p], store[p])
<1>1. UNCHANGED <<selfgen, vouched, log>>
  BY DEF Exchange, Ask, HandleSync, ReadSuffix, ReadSnapshot, PullFails
<1>2. \/ store' = store
      \/ store' = [store EXCEPT ![p] = RecordWatermark(@, n, pull[n][p])]
  BY DEF Exchange, Ask, HandleSync, ReadSuffix, ReadSnapshot, PullFails
<1>3. LET w == RecordWatermark(store[p], n, pull[n][p])
      IN w.gen = store[p].gen /\ w.seq = store[p].seq /\ w.held = store[p].held
  BY DEF RecordWatermark, TypeOK, Store
<1>4. \A m \in Node : /\ store'[m].gen = store[m].gen
                      /\ store'[m].seq = store[m].seq
                      /\ store'[m].held = store[m].held
  BY <1>2, <1>3 DEF TypeOK
<1>5. \A m, r \in Node :
        \/ pull'[m][r] = pull[m][r]
        \/ pull'[m][r].phase \notin {"line", "remint"}
        \/ /\ m = n /\ r = p /\ pull[n][p].phase = "asked"
           /\ pull'[n][p] = Reply(n, pull[n][p], store[p])
  <2>0. pull[n][p] \in Pull BY DEF TypeOK
  <2>1. ASSUME NEW q, SetPull(n, p, q)
        PROVE  \A m, r \in Node : pull'[m][r] = IF m = n /\ r = p THEN q ELSE pull[m][r]
    BY <2>1 DEF SetPull, TypeOK
  <2>2. CASE HandleSync(n, p) BY <2>1, <2>2 DEF HandleSync
  <2>3. CASE Ask(n, p)
    <3>1. [Idle EXCEPT !.phase = "asked", !.hgen = store[n].gen,
                       !.hseq = store[n].seq].phase = "asked"
      BY DEF Idle
    <3>2. PICK q : SetPull(n, p, q) /\ q.phase = "asked" BY <2>3, <3>1 DEF Ask
    <3> QED BY <2>1, <3>2
  <2>4. CASE ReadSuffix(n, p)
    <3>1. \A rows, last : [pull[n][p] EXCEPT !.phase = "gotSuffix", !.last = last,
                                             !.rows = rows].phase = "gotSuffix"
      BY <2>0 DEF Pull
    <3>2. Idle.phase = "idle" BY DEF Idle
    <3>3. PICK q : SetPull(n, p, q) /\ q.phase \in {"idle", "gotSuffix"}
      BY <2>4, <3>1, <3>2 DEF ReadSuffix
    <3> QED BY <2>1, <3>3
  <2>5. CASE ReadSnapshot(n, p)
    <3>1. [pull[n][p] EXCEPT !.phase = "gotSnapshot", !.snap = store[p].held].phase
            = "gotSnapshot"
      BY <2>0 DEF Pull
    <3>2. PICK q : SetPull(n, p, q) /\ q.phase = "gotSnapshot"
      BY <2>5, <3>1 DEF ReadSnapshot
    <3> QED BY <2>1, <3>2
  <2>6. CASE PullFails(n, p)
    <3>1. Idle.phase = "idle" BY DEF Idle
    <3> QED BY <2>1, <2>6, <3>1 DEF PullFails
  <2> QED BY <2>2, <2>3, <2>4, <2>5, <2>6 DEF Exchange
<1> QED BY <1>1, <1>4, <1>5

(* A synced export moves the Origin's clock by one under its generation.   *)
LEMMA ExportFrame ==
    ASSUME TypeOK, NEW e \in export, ExportCommit(e)
    PROVE  /\ store'[Origin].gen = store[Origin].gen
           /\ store'[Origin].seq = store[Origin].seq + 1
           /\ \A m \in Node \ {Origin} : store'[m] = store[m]
<1> DEFINE r == [seq |-> e.seq + 1, op |-> e.op, hash |-> e.hash]
<1>0. store[Origin] \in Store /\ e.gen = store[Origin].gen /\ e.seq = store[Origin].seq
  BY OriginAssumption DEF TypeOK, ExportCommit
<1>1. store' = [store EXCEPT ![Origin] = ApplyEvents(@, e.gen, e.seq + 1, {r})]
  BY DEF ExportCommit
<1> HIDE DEF r
<1>2. store'[Origin] = ApplyEvents(store[Origin], e.gen, e.seq + 1, {r})
  BY <1>1, OriginAssumption DEF TypeOK
<1>3. store'[Origin].gen = e.gen /\ store'[Origin].seq = e.seq + 1
  BY <1>0, <1>2 DEF ApplyEvents, Store
<1>4. \A m \in Node \ {Origin} : store'[m] = store[m] BY <1>1 DEF TypeOK
<1> QED BY <1>0, <1>3, <1>4

(* Only a replica applies an answer; on the generation vouched for that    *)
(* moves it forward in place, and nobody else moves.                       *)
LEMMA ApplyFrame ==
    ASSUME TypeOK, IInv, NEW n \in Node, NEW p \in Node, Apply(n, p)
    PROVE  /\ n # Origin
           /\ UNCHANGED <<selfgen, vouched, log>>
           /\ \A m \in Node \ {n} : store'[m] = store[m] /\ pull'[m] = pull[m]
           /\ Follows(n) => store'[n].gen = store[n].gen /\ store[n].seq <= store'[n].seq
<1> DEFINE q == pull[n][p]
           s == store[n]
<1>0. q \in Pull /\ s \in Store BY DEF TypeOK
<1>1. PhaseInv(n, p) BY DEF IInv, PullInv
<1>2. n # Origin
  BY <1>1 DEF PhaseInv, Apply, CheckSuffix, CommitSuffix, BeginReplace, ReplaceChunk,
     ReplaceTrim, FinishReplace
<1>3. UNCHANGED <<selfgen, vouched, log>>
  BY DEF Apply, CheckSuffix, CommitSuffix, BeginReplace, ReplaceChunk, ReplaceTrim,
     FinishReplace
<1>4. \A m \in Node \ {n} : store'[m] = store[m] /\ pull'[m] = pull[m]
  BY DEF Apply, CheckSuffix, CommitSuffix, BeginReplace, ReplaceChunk, ReplaceTrim,
     FinishReplace, SetPull, TypeOK
<1>5. ASSUME Follows(n)
      PROVE  store'[n].gen = store[n].gen /\ store[n].seq <= store'[n].seq
  <2>1. s.gen = stamped /\ stamped \in Nat /\ s.seq \in Nat
    BY <1>0, <1>5 DEF Follows, Vouched, IInv, VouchInv, TypeOK, Store
  <2>2. CASE store' = store BY <2>1, <2>2
  <2>3. CASE ReplaceChunk(n, p) \/ ReplaceTrim(n, p)
    <3>1. \A x : /\ [s EXCEPT !.held = x].gen = s.gen /\ [s EXCEPT !.held = x].seq = s.seq
                 /\ [s EXCEPT !.jour = x].gen = s.gen /\ [s EXCEPT !.jour = x].seq = s.seq
      BY <1>0 DEF Store
    <3>2. CASE ReplaceChunk(n, p)
      <4>1. PICK x : store'[n] = [s EXCEPT !.held = x] BY <3>2 DEF ReplaceChunk, TypeOK
      <4> QED BY <2>1, <3>1, <4>1
    <3>3. CASE ReplaceTrim(n, p)
      <4>1. PICK x : store'[n] = [s EXCEPT !.jour = x] BY <3>3 DEF ReplaceTrim, TypeOK
      <4> QED BY <2>1, <3>1, <4>1
    <3> QED BY <2>3, <3>2, <3>3
  <2>4. CASE CommitSuffix(n, p) /\ Expected(q, s)
    <3>1. store'[n] = ApplyEvents(s, q.gen, q.last, q.rows)
      BY <2>4 DEF CommitSuffix, TypeOK
    <3>2. store'[n].gen = q.gen /\ store'[n].seq = q.last
      BY <1>0, <3>1 DEF ApplyEvents, Store
    <3>3. /\ q.gen = s.gen /\ q.hseq = s.seq /\ q.rows # {}
          /\ {r.seq : r \in q.rows} = (q.hseq + 1)..q.last
      BY <1>1, <2>4 DEF PhaseInv, Expected, CommitSuffix
    <3>4. PICK r \in q.rows : r.seq \in (s.seq + 1)..q.last BY <3>3
    <3>5. q.last \in Nat BY <1>0 DEF Pull
    <3> QED BY <2>1, <3>2, <3>3, <3>4, <3>5
  <2>5. CASE FinishReplace(n, p)
    <3>1. store'[n].gen = q.gen /\ store'[n].seq = q.seq
      BY <1>0, <2>5 DEF FinishReplace, TypeOK, Store
    <3>2. ~Stale(q, s) /\ q.gen <= stamped BY <1>1, <2>5 DEF PhaseInv, FinishReplace
    <3>3. q.gen \in Nat /\ q.seq \in Nat BY <1>0 DEF Pull
    <3> QED BY <2>1, <3>1, <3>2, <3>3 DEF Stale
  <2> QED BY <2>2, <2>3, <2>4, <2>5 DEF Apply, CheckSuffix, CommitSuffix, BeginReplace
<1> QED BY <1>2, <1>3, <1>4, <1>5

LEMMA MaintainFrame ==
    ASSUME TypeOK, NEW n \in Node, Maintain(n)
    PROVE  /\ UNCHANGED <<selfgen, vouched, log, pull>>
           /\ \A m \in Node : /\ store'[m].gen = store[m].gen
                              /\ store'[m].seq = store[m].seq
                              /\ store'[m].held = store[m].held
<1>1. LET t == CompactTo(store[n], plan[n])
      IN t.gen = store[n].gen /\ t.seq = store[n].seq /\ t.held = store[n].held
  BY DEF CompactTo, TypeOK, Store
<1>2. store' = store \/ store' = [store EXCEPT ![n] = CompactTo(@, plan[n])]
  BY DEF Maintain, PlanCompaction, CompactJournal
<1> QED BY <1>1, <1>2 DEF Maintain, PlanCompaction, CompactJournal, TypeOK

(* A restart of the Origin on its own history changes nothing, unless the  *)
(* meta row is ahead of the clock; one of a replica loses only its own.    *)
LEMMA ReopenFrame ==
    ASSUME TypeOK, IInv, NEW n \in Node, NEW s \in Store, Reopen(n, s),
           s = store[n] \/ s = disk[n], UNCHANGED log
    PROVE  /\ \A m \in Node \ {n} : store'[m] = store[m]
           /\ n # Origin => vouched' = vouched /\ store'[n] = s
           /\ (n = Origin /\ selfgen = store[Origin].gen)
                => /\ vouched' = vouched
                   /\ store'[n].gen = store[n].gen
                   /\ store'[n].seq = store[n].seq
                   /\ store'[n].held = store[n].held
           /\ (n = Origin /\ selfgen # store[Origin].gen)
                => vouched' = 0 \/ vouched' > stamped
<1>1. CASE n # Origin BY <1>1 DEF Reopen, TypeOK
<1>2. CASE n = Origin
  <2>1. /\ History(s, log) /\ History(store[Origin], log)
        /\ s.gen = store[Origin].gen /\ s.seq = store[Origin].seq
    BY <1>2 DEF IInv, OriginInv
  <2>2. s.held = store[Origin].held BY <2>1 DEF History
  <2>3. LET t == [s EXCEPT !.gen = selfgen]
        IN t.gen = selfgen /\ t.seq = s.seq /\ t.held = s.held
    BY DEF Store
  <2>4. /\ store' = [store EXCEPT ![Origin] = [s EXCEPT !.gen = selfgen]]
        /\ vouched' = IF selfgen = s.gen THEN vouched
                      ELSE IF selfgen > stamped THEN selfgen ELSE 0
    BY <1>2 DEF Reopen, Stamp
  <2> QED BY <1>2, <2>1, <2>2, <2>3, <2>4 DEF TypeOK
<1> QED BY <1>1, <1>2

-----------------------------------------------------------------------------
(* The Origin that never loses its past                                    *)

LEMMA SteadyInit == Init => SteadyInv
BY OriginAssumption DEF Init, Steady, SteadyInv, NoStore, Idle

(* The Origin's clock moves forward under its generation, and its loops    *)
(* hear nothing of its future.                                             *)
LEMMA SteadyKept ==
    ASSUME TypeOK, TypeOK', Steady, UNCHANGED <<vouched, selfgen>>,
           store'[Origin].gen = store[Origin].gen,
           store[Origin].seq <= store'[Origin].seq,
           \A p \in Node : \/ pull'[Origin][p] = pull[Origin][p]
                           \/ pull'[Origin][p].phase \notin {"line", "remint"}
                           \/ /\ pull'[Origin][p].phase = "line"
                              /\ ~Future(pull'[Origin][p], store[Origin])
    PROVE  Steady'
<1> USE OriginAssumption
<1>1. store[Origin].seq \in Nat /\ store'[Origin].seq \in Nat BY DEF TypeOK, Store
<1>2. ASSUME NEW p \in Node
      PROVE  /\ pull'[Origin][p].phase # "remint"
             /\ pull'[Origin][p].phase = "line"
                  => ~Future(pull'[Origin][p], store'[Origin])
  <2>1. pull'[Origin][p].gen \in Nat /\ pull'[Origin][p].seq \in Nat BY DEF TypeOK, Pull
  <2>2. pull'[Origin][p].phase = "line" => ~Future(pull'[Origin][p], store[Origin])
    BY DEF Steady
  <2>3. pull'[Origin][p].phase # "remint" BY DEF Steady
  <2> QED BY <1>1, <2>1, <2>2, <2>3 DEF Future
<1> QED BY <1>2 DEF Steady

(* What a responder says of the Origin's own stream is never its future.   *)
LEMMA ReplyIsPast ==
    ASSUME TypeOK, IInv, Steady, NEW p \in Node, pull[Origin][p].phase = "asked"
    PROVE  LET a == Reply(Origin, pull[Origin][p], store[p])
           IN \/ a.phase = "idle"
              \/ a.phase = "line" /\ ~Future(a, store[Origin])
<1> USE OriginAssumption
<1> DEFINE a == Reply(Origin, pull[Origin][p], store[p])
<1>0. pull[Origin][p] \in Pull /\ store[p] \in Store BY DEF TypeOK
<1>1. \/ a = Idle
      \/ a.gen = store[p].gen /\ a.seq = store[p].seq /\ a.phase = "line"
  BY <1>0, ReplyFacts
<1> HIDE DEF a
<1>2. CASE a = Idle BY <1>2 DEF Idle, a
<1>3. CASE a.gen = store[p].gen /\ a.seq = store[p].seq /\ a.phase = "line"
  <2>1. store[p].gen <= store[Origin].gen /\ store[p].gen \in Nat /\ store[Origin].gen \in Nat
    BY DEF Steady, IInv, VouchInv, TypeOK, Store
  <2>2. store[p].gen = store[Origin].gen => store[p].seq <= store[Origin].seq
    BY DEF Steady, IInv, ReplicaInv, Faithful, Vouched
  <2>3. store[p].seq \in Nat /\ store[Origin].seq \in Nat BY DEF TypeOK, Store
  <2> QED BY <1>3, <2>1, <2>2, <2>3 DEF Future, a
<1> QED BY <1>1, <1>2, <1>3

LEMMA SteadyNext == TypeOK /\ IInv /\ TypeOK' /\ SteadyInv /\ [Next]_vars => SteadyInv'
<1> SUFFICES ASSUME TypeOK, IInv, TypeOK', [Next]_vars, ~MRebirth, Steady PROVE Steady'
  BY DEF SteadyInv, MRebirth
<1> USE OriginAssumption
<1>0. store[Origin].seq \in Nat /\ store[Origin] \in Store BY DEF TypeOK, Store
<1>1. CASE UNCHANGED vars BY <1>1 DEF vars, Steady
<1>2. CASE Exporter
  <2>1. UNCHANGED <<vouched, selfgen, pull>>
    BY <1>2 DEF Exporter, ExportBegin, ExportCommit, ExportBail
  <2>2. store'[Origin].gen = store[Origin].gen /\ store[Origin].seq <= store'[Origin].seq
    <3>1. store' = store \/ \E e \in export : ExportCommit(e)
      BY <1>2 DEF Exporter, ExportBegin, ExportBail
    <3> QED BY <1>0, <3>1, ExportFrame
  <2> QED BY <2>1, <2>2, SteadyKept
<1>3. ASSUME NEW n \in Node, NEW p \in Node, Exchange(n, p) PROVE Steady'
  <2>1. \A r \in Node : \/ pull'[Origin][r] = pull[Origin][r]
                        \/ pull'[Origin][r].phase \notin {"line", "remint"}
                        \/ /\ pull'[Origin][r].phase = "line"
                           /\ ~Future(pull'[Origin][r], store[Origin])
    <3>1. ASSUME NEW r \in Node, Origin = n, r = p, pull[n][p].phase = "asked",
                 pull'[n][p] = Reply(n, pull[n][p], store[p])
          PROVE  \/ pull'[Origin][r].phase = "idle"
                 \/ /\ pull'[Origin][r].phase = "line"
                    /\ ~Future(pull'[Origin][r], store[Origin])
      BY <3>1, ReplyIsPast
    <3> QED BY <1>3, <3>1, ExchangeFrame
  <2> QED BY <1>0, <1>3, <2>1, ExchangeFrame, SteadyKept
<1>4. ASSUME NEW n \in Node, NEW p \in Node, Apply(n, p) PROVE Steady'
  BY <1>0, <1>4, ApplyFrame, SteadyKept
<1>5. ASSUME NEW p \in Node, Remint(p) PROVE Steady'
  <2>1. ~Future(pull[Origin][p], store[Origin]) /\ NoticeFuture(p)
    BY <1>5 DEF Remint, NoticeFuture, StampGeneration, Steady
  <2>2. Idle.phase = "idle" BY DEF Idle
  <2>3. /\ UNCHANGED <<store, selfgen, vouched>>
        /\ \A r \in Node : pull'[Origin][r] = pull[Origin][r] \/ pull'[Origin][r] = Idle
    BY <2>1 DEF NoticeFuture, SetPull, TypeOK
  <2> QED BY <1>0, <2>2, <2>3, SteadyKept
<1>6. ASSUME NEW n \in Node, Maintain(n) PROVE Steady'
  BY <1>0, <1>6, MaintainFrame, SteadyKept
<1>7. CASE Fault
  <2>1. ASSUME NEW n \in Node, Forget(n)
        PROVE  \A r \in Node : \/ pull'[Origin][r] = pull[Origin][r]
                               \/ pull'[Origin][r].phase \notin {"line", "remint"}
    <3>1. Idle.phase = "idle" BY DEF Idle
    <3> QED BY <2>1, <3>1, ForgetFrame
  <2>2. ASSUME NEW n \in Node, Crash(n) \/ HostCrash(n) PROVE Steady'
    <3>1. PICK s \in Store : Reopen(n, s) /\ (s = store[n] \/ s = disk[n])
      BY <2>2 DEF Crash, HostCrash, TypeOK
    <3>2. Forget(n) /\ UNCHANGED <<selfgen, log>> BY <2>2 DEF Crash, HostCrash
    <3>3. selfgen = store[Origin].gen BY DEF Steady
    <3>4. /\ vouched' = vouched
          /\ store'[Origin].gen = store[Origin].gen
          /\ store'[Origin].seq = store[Origin].seq
      BY <3>1, <3>2, <3>3, ReopenFrame
    <3> QED BY <1>0, <2>1, <3>2, <3>4, SteadyKept
  <2>3. ASSUME NEW n \in Node, Flush(n) \/ LoseReplica(n) PROVE Steady'
    <3>1. UNCHANGED <<selfgen, vouched>> /\ store'[Origin] = store[Origin]
      BY <2>3 DEF Flush, LoseReplica, TypeOK
    <3>2. pull' = pull \/ Forget(n) BY <2>3 DEF Flush, LoseReplica
    <3> QED BY <1>0, <2>1, <3>1, <3>2, SteadyKept
  <2>4. ~LoseOrigin /\ \A im \in image : ~RestoreImage(im)
    BY DEF LoseOrigin, RestoreImage, Strikes, MRebirth
  <2>5. CASE TakeImage BY <2>5 DEF TakeImage, Steady
  <2> QED BY <1>7, <2>2, <2>3, <2>4, <2>5 DEF Fault
<1> QED BY <1>1, <1>2, <1>3, <1>4, <1>5, <1>6, <1>7 DEF Next

-----------------------------------------------------------------------------
(* The refinement *)

LEMMA MeshInit == Init => Mesh!Init
<1> SUFFICES ASSUME Init PROVE Mesh!Init
  OBVIOUS
<1>1. log = {} BY DEF Init
<1>2. \A n \in Node : store[n].seq = 0 /\ store[n].held = {}
  BY OriginAssumption DEF Init, NoStore
<1>3. MLog = {} BY <1>1 DEF MLog
<1>4. MPos = [n \in Node |-> 0] BY <1>2 DEF MPos
<1>5. MView = [n \in Node |-> {}] BY <1>2 DEF MView
<1> QED BY <1>3, <1>4, <1>5 DEF Mesh!Init, MLog, MPos, MView

(* A synced export is the one step that extends the history.               *)
LEMMA MeshExport ==
    ASSUME TypeOK, IInv, IInv', NEW e \in export, ExportCommit(e)
    PROVE  [Mesh!Next]_(Mesh!vars)
<1> USE OriginAssumption
<1> DEFINE s == store[Origin]
           r == [seq |-> s.seq + 1, op |-> e.op, hash |-> e.hash]
<1>0. /\ e \in Export /\ s \in Store /\ e.gen = s.gen /\ e.seq = s.seq
      /\ log' = log \cup {r} /\ vouched' = vouched
  BY DEF TypeOK, ExportCommit
<1>1. store'[Origin].gen = s.gen /\ store'[Origin].seq = s.seq + 1
  BY ExportFrame
<1>2. \A m \in Node \ {Origin} : store'[m] = store[m] BY ExportFrame
<1>3. store'[Origin].held = Live(log') BY DEF IInv, OriginInv, History
<1>4. CASE vouched = 0
  <2>1. MLog' = MLog BY <1>0, <1>4 DEF MLog
  <2>2. MPos' = MPos BY <1>0, <1>4 DEF MPos, Follows, Vouched
  <2>3. MView' = MView BY <1>0, <1>4 DEF MView, Follows, Vouched
  <2> QED BY <2>1, <2>2, <2>3 DEF Mesh!vars, MLog, MPos, MView
<1>5. CASE vouched # 0
  <2>1. Follows(Origin) /\ Follows(Origin)'
    BY <1>0, <1>1, <1>5 DEF IInv, VouchInv, Follows, Vouched
  <2>2. MLog = log /\ MLog' = log \cup {r} /\ MLog' = log' BY <1>0, <1>5 DEF MLog
  <2>3. \A m \in Node \ {Origin} : MPos'[m] = MPos[m] /\ MView'[m] = MView[m]
    BY <1>0, <1>2 DEF MPos, MView, Follows, Vouched
  <2>4. /\ MPos[Origin] = s.seq /\ MPos'[Origin] = s.seq + 1
        /\ MView'[Origin] = Live(log')
    BY <1>1, <1>3, <2>1 DEF MPos, MView
  <2>5. MPos' = [MPos EXCEPT ![Origin] = MPos[Origin] + 1]
    BY <2>3, <2>4 DEF MPos
  <2>6. MView' = [MView EXCEPT ![Origin] = Mesh!Live(MLog')]
    <3>1. Mesh!Live(MLog') = Live(log') BY <2>2 DEF Mesh!Live, Live
    <3>2. MView'[Origin] = Mesh!Live(MLog') BY <2>4, <3>1
    <3> QED BY <2>3, <3>2 DEF MView
  <2>7. e.op \in {"have", "drop"} /\ e.hash \in Hash BY <1>0 DEF Export
  <2>8. MLog' = MLog \cup {[seq |-> MPos[Origin] + 1, op |-> e.op, hash |-> e.hash]}
    BY <2>2, <2>4
  <2>9. Mesh!Export
    BY <2>5, <2>6, <2>7, <2>8 DEF Mesh!Export, MLog, MPos, MView
  <2> QED BY <2>9 DEF Mesh!Next
<1> QED BY <1>4, <1>5

(* A store that comes back is a roll back of a replica, nothing at the     *)
(* Origin, or a new start.                                                 *)
LEMMA MeshFault ==
    ASSUME TypeOK, IInv, TypeOK', IInv', SteadyInv, Fault
    PROVE  [Mesh!Next]_(Mesh!vars)
<1> USE OriginAssumption
<1>0. \A m \in Node : store[m].seq \in Nat BY DEF TypeOK, Store
<1>1. ASSUME NEW n \in Node, Crash(n) \/ HostCrash(n) PROVE [Mesh!Next]_(Mesh!vars)
  <2>1. PICK s \in Store : Reopen(n, s) /\ (s = store[n] \/ (s = disk[n] /\ MRollback))
    <3>1. store[n] \in Store /\ disk[n] \in Store BY DEF TypeOK
    <3>2. HostCrash(n) => MRollback BY DEF HostCrash, Strikes, MRollback
    <3> QED BY <1>1, <3>1, <3>2 DEF Crash, HostCrash, Reopen, Stamp
  <2>2. UNCHANGED log BY <1>1 DEF Crash, HostCrash
  <2>3. CASE n = Origin /\ selfgen = store[Origin].gen
    BY <2>1, <2>2, <2>3, ReopenFrame, MapUnchanged
  <2>4. CASE n = Origin /\ selfgen # store[Origin].gen
    <3>1. MRebirth BY <2>4 DEF SteadyInv, Steady
    <3> QED BY <2>1, <2>2, <2>4, <3>1, ReopenFrame, StartsOver
  <2>5. CASE n # Origin
    <3>1. /\ vouched' = vouched /\ store'[n] = s
          /\ \A m \in Node \ {n} : store'[m] = store[m]
      BY <2>1, <2>2, <2>5, ReopenFrame
    <3>2. CASE s = store[n]
      BY <1>0, <2>2, <2>5, <3>1, <3>2, OneStands
    <3>3. CASE MRollback BY <2>2, <2>5, <3>1, <3>3, OneStands
    <3> QED BY <2>1, <3>2, <3>3
  <2> QED BY <2>3, <2>4, <2>5
<1>2. ASSUME NEW n \in Node, Flush(n) PROVE [Mesh!Next]_(Mesh!vars)
  BY <1>2, MapUnchanged DEF Flush
<1>3. ASSUME NEW n \in Node, LoseReplica(n) PROVE [Mesh!Next]_(Mesh!vars)
  <2>1. MRollback BY <1>3 DEF LoseReplica, Strikes, MRollback
  <2>2. /\ n # Origin /\ vouched' = vouched /\ log' = log
        /\ \A m \in Node \ {n} : store'[m] = store[m]
    BY <1>3 DEF LoseReplica, TypeOK
  <2> QED BY <2>1, <2>2, OneStands
<1>4. CASE LoseOrigin
  <2>1. MRebirth BY <1>4 DEF LoseOrigin, Strikes, MRebirth
  <2>2. vouched' = mint + 1 /\ \A m \in Node \ {Origin} : store'[m] = store[m]
    BY <1>4 DEF LoseOrigin, Stamp, TypeOK
  <2>3. stamped <= mint /\ stamped \in Nat /\ mint \in Nat BY DEF IInv, VouchInv, TypeOK
  <2>4. vouched' > stamped BY <2>2, <2>3
  <2> QED BY <2>1, <2>2, <2>4, StartsOver
<1>5. CASE TakeImage BY <1>5, MapUnchanged DEF TakeImage
<1>6. ASSUME NEW im \in image, RestoreImage(im) PROVE [Mesh!Next]_(Mesh!vars)
  <2>1. MRebirth BY <1>6 DEF RestoreImage, Strikes, MRebirth
  <2>2. vouched' = 0 /\ \A m \in Node \ {Origin} : store'[m] = store[m]
    BY <1>6 DEF RestoreImage, Stamp, TypeOK
  <2> QED BY <2>1, <2>2, StartsOver
<1> QED BY <1>1, <1>2, <1>3, <1>4, <1>5, <1>6 DEF Fault

LEMMA MeshNext ==
    TypeOK /\ IInv /\ TypeOK' /\ IInv' /\ SteadyInv /\ [Next]_vars => [Mesh!Next]_(Mesh!vars)
<1> SUFFICES ASSUME TypeOK, IInv, TypeOK', IInv', SteadyInv, [Next]_vars
             PROVE  [Mesh!Next]_(Mesh!vars)
  OBVIOUS
<1> USE OriginAssumption
<1>1. CASE UNCHANGED vars BY <1>1, MapUnchanged DEF vars
<1>2. CASE Exporter
  <2>1. ASSUME UNCHANGED <<store, vouched, log>> PROVE [Mesh!Next]_(Mesh!vars)
    BY <2>1, MapUnchanged
  <2> QED BY <1>2, <2>1, MeshExport DEF Exporter, ExportBegin, ExportBail
<1>3. ASSUME NEW n \in Node, NEW p \in Node, Exchange(n, p) PROVE [Mesh!Next]_(Mesh!vars)
  BY <1>3, ExchangeFrame, MapUnchanged
<1>4. ASSUME NEW n \in Node, NEW p \in Node, Apply(n, p) PROVE [Mesh!Next]_(Mesh!vars)
  BY <1>4, ApplyFrame, OneStands
<1>5. ASSUME NEW p \in Node, Remint(p) PROVE [Mesh!Next]_(Mesh!vars)
  <2>1. CASE NoticeFuture(p) BY <2>1, MapUnchanged DEF NoticeFuture
  <2>2. CASE StampGeneration(p)
    <3>1. MRebirth BY <2>2 DEF StampGeneration, SteadyInv, Steady
    <3>2. \A m \in Node \ {Origin} : store'[m] = store[m]
      BY <2>2 DEF StampGeneration, Stamp, TypeOK
    <3>3. vouched' = 0 \/ vouched' > stamped BY <2>2 DEF StampGeneration
    <3> QED BY <3>1, <3>2, <3>3, StartsOver
  <2> QED BY <1>5, <2>1, <2>2 DEF Remint
<1>6. ASSUME NEW n \in Node, Maintain(n) PROVE [Mesh!Next]_(Mesh!vars)
  BY <1>6, MaintainFrame, MapUnchanged
<1>7. CASE Fault BY <1>7, MeshFault
<1> QED BY <1>1, <1>2, <1>3, <1>4, <1>5, <1>6, <1>7 DEF Next

(* In every mesh and under every choice of faults, what apply_suffix,      *)
(* replace_holdings, the exporter, compaction and the remint do is, seen   *)
(* from outside, a replica moving along one growing history: a store only  *)
(* goes back when writes are lost, and the history only starts over when   *)
(* the Origin loses its past.                                              *)
THEOREM Refines == Spec => ImplementsReplication
<1>1. Init => Mesh!Init /\ SteadyInv BY MeshInit, SteadyInit
<1>2. /\ TypeOK /\ IInv /\ SteadyInv /\ [Next]_vars /\ (TypeOK /\ IInv)'
      => SteadyInv' /\ [Mesh!Next]_(Mesh!vars)
  BY SteadyNext, MeshNext
<1> QED BY <1>1, <1>2, Invariance, PTL DEF Spec, ImplementsReplication, Mesh!Spec

=============================================================================
