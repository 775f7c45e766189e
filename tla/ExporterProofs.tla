--------------------------- MODULE ExporterProofs ---------------------------
(* Proofs about Exporter, for every set of paths, hashes, peers and        *)
(* requests, and every order of commits, diffs, retractions and faults.    *)
EXTENDS Exporter, Folding

PathRow == [id : Nat, path : Path, hash : Hash, vouched : BOOLEAN]
Stage == {"idle", "sample", "mark", "scan", "additions", "diff", "write"}
Loop == [at : Stage, v : Nat, mark : Nat, full : BOOLEAN,
         cands : SUBSET PathRow, atts : SUBSET (Path \X Hash),
         adds : SUBSET Hash, drops : SUBSET Hash, wrote : BOOLEAN, cut : SUBSET Hash]

(* Rows below the next id; a path signed from the start is so in each row. *)
Table ==
    /\ rows \subseteq PathRow /\ nextId \in Nat \ {0}
    /\ \A r \in rows : 0 < r.id /\ r.id < nextId /\ (r.path \in Signed => r.vouched)
    /\ \A r, s \in rows : r.path = s.path => r = s

Types ==
    /\ Table
    /\ version \in Nat /\ seen \in Nat /\ seen <= version /\ ex \in Loop /\ ex.v <= version
    /\ changed \in BOOLEAN /\ due \in BOOLEAN /\ hintSlot \in BOOLEAN
    /\ held \subseteq Hash /\ unseen \subseteq Hash /\ facts \subseteq Path \X Hash
    /\ state = None \/ (state \in Nat /\ state < nextId)
    /\ ex.mark < nextId
    /\ hints \subseteq Peer /\ kick \subseteq Peer /\ knows \subseteq Peer /\ owed \subseteq Peer
    /\ pull \in [Peer -> {"off", "idle", "asking", "fresh", "stale"}]
    /\ retract \in {None, "check", "drop"}

Honoured == \A p \in owed : p \in kick \/ pull[p] = "asking"

-----------------------------------------------------------------------------
(* What is published of a row: its hash in hs, its claim in cs.            *)
In(r, hs, cs) == r.hash \in hs /\ (r.path \in Signed => <<r.path, r.hash>> \in cs)

(* Only a diff with a watermark to start from is incremental, and it drops *)
(* nothing.                                                                *)
Forms ==
    /\ ex.at = "additions" => state # None /\ ~ex.full
    /\ ex.at = "scan" => ex.full
    /\ ex.at \in {"diff", "write"} => ex.full \/ state # None
    /\ ex.at = "write" => ex.full \/ ex.drops = {}
    /\ ex.cut \subseteq unseen

(* Rows up to the watermark of the last diff are published.                *)
Settled == state # None => \A r \in rows : r.id <= state => In(r, held \cup unseen, facts)

(* A version that was diffed, or is being diffed, and still the latest,    *)
(* has no row past its watermark.                                          *)
Latest ==
    /\ state # None /\ seen = version => \A r \in rows : r.id <= state
    /\ ex.at \in {"scan", "diff", "write"} =>
         /\ ex.v = version => \A r \in rows : r.id <= ex.mark
         /\ state # None => \A r \in rows : r.id <= state => r.id <= ex.mark

(* The rows a diff is responsible for: those up to its watermark, of which *)
(* an incremental one leaves those of the last diff.                       *)
Mine(r) == r.id <= ex.mark /\ (ex.full \/ ~(r.id <= state))

Reading == ex.at = "diff" =>
    \A r \in rows : Mine(r) => In(r, HashesOf(ex.cands), Vouched(ex.cands))

Writing == ex.at = "write" =>
    /\ ex.adds \cap ex.drops = {}
    /\ \A r \in rows : Mine(r) =>
         /\ In(r, held \cup ex.adds \cup (IF ex.full THEN ex.cut ELSE unseen), facts \cup ex.atts)
         /\ r.hash \notin ex.drops

IInv == Types /\ Forms /\ Settled /\ Latest /\ Reading /\ Writing

-----------------------------------------------------------------------------
(* Types *)

(* The greatest id is that of a row.                                       *)
LEMMA MaxId ==
    ASSUME Table
    PROVE  /\ MaxIdOf(rows) \in Nat /\ MaxIdOf(rows) < nextId
           /\ \A r \in rows : r.id <= MaxIdOf(rows)
<1>1. CASE rows = {} BY <1>1 DEF MaxIdOf, Table
<1>2. CASE rows # {}
  <2> DEFINE ids == {r.id : r \in rows}
             n == nextId - 1
  <2>1. n \in Nat /\ ids \in SUBSET (1..n) /\ ids # {} BY <1>2 DEF Table, PathRow
  <2> HIDE DEF n, ids
  <2>2. Max(ids) \in ids /\ \A i \in ids : Max(ids) >= i BY <2>1, MaxIn
  <2>3. MaxIdOf(rows) = Max(ids) BY <1>2 DEF MaxIdOf, ids
  <2>4. Max(ids) \in 1..n BY <2>1, <2>2
  <2>5. \A r \in rows : r.id \in ids /\ r.id \in Nat BY DEF ids, Table, PathRow
  <2>6. \A r \in rows : r.id <= Max(ids) BY <2>2, <2>4, <2>5
  <2> QED BY <2>3, <2>4, <2>6 DEF n, Table
<1> QED BY <1>1, <1>2

LEMMA AtLoop ==
    ASSUME NEW step \in Stage
    PROVE  At(step) \in Loop
BY DEF At, Loop

LEMMA InitTypes == Init => Types
<1> SUFFICES ASSUME Init PROVE Types
  OBVIOUS
<1> DEFINE v == First \in Signed
           u == [id |-> 1, path |-> First, hash |-> Wanted, vouched |-> v]
<1>0. v \in BOOLEAN OBVIOUS
<1> HIDE DEF v
<1>1. Table
  <2>1. u \in PathRow /\ u.id = 1 /\ u.path = First /\ u.vouched = v
    BY <1>0, ExporterAssumption DEF PathRow
  <2>2. rows = {u} /\ nextId = 2 BY DEF Init, v
  <2>3. u.path \in Signed => u.vouched BY <2>1 DEF v
  <2> HIDE DEF u
  <2> QED BY <2>1, <2>2, <2>3 DEF Table
<1>2. ex = At("sample") /\ At("sample") \in Loop BY AtLoop DEF Init, Stage
<1>3. ex.v = 0 /\ ex.mark = 0 BY <1>2 DEF At
<1>4. pull \in [Peer -> {"off", "idle", "asking", "fresh", "stale"}] BY DEF Init
<1>6. changed \in BOOLEAN /\ due \in BOOLEAN /\ hintSlot \in BOOLEAN BY DEF Init
<1>5. /\ version = 1 /\ nextId = 2 /\ seen = 0 /\ state = None /\ retract = None
      /\ held = {} /\ unseen = {} /\ facts = {} /\ hints = {} /\ kick = {} /\ knows = {} /\ owed = {}
  BY DEF Init
<1> HIDE DEF Init
<1> QED BY <1>1, <1>2, <1>3, <1>4, <1>5, <1>6 DEF Types

(* A commit.                                                               *)
Commits == (\E p \in Path : Collect(p) \/ Sign(p)) \/ \E p \in Path, h \in Hash : Register(p, h)

(* What a commit makes of the rows: some go, a signature is added, or one  *)
(* with the next id comes.                                                 *)
LEMMA CommitRows ==
    ASSUME Table, Commits
    PROVE  /\ Table' /\ version' = version + 1 /\ nextId <= nextId'
           /\ \A r \in rows' : \/ r.id = nextId
                               \/ \E s \in rows : s.id = r.id /\ s.path = r.path /\ s.hash = r.hash
<1>1. CASE \E p \in Path : Collect(p)
  BY <1>1 DEF Collect, Commit, Table
<1>2. ASSUME NEW p \in Path, Sign(p)
      PROVE  /\ Table' /\ version' = version + 1 /\ nextId <= nextId'
             /\ \A r \in rows' : \E s \in rows : s.id = r.id /\ s.path = r.path /\ s.hash = r.hash
  <2>1. PICK t \in rows : rows' = (rows \ {t}) \cup {[t EXCEPT !.vouched = TRUE]}
    BY <1>2 DEF Sign, Commit, RowsOf
  <2> DEFINE u == [t EXCEPT !.vouched = TRUE]
  <2>2. u \in PathRow /\ u.id = t.id /\ u.path = t.path /\ u.hash = t.hash /\ u.vouched
    BY DEF Table, PathRow
  <2> HIDE DEF u
  <2>3. rows' = (rows \ {t}) \cup {u} BY <2>1 DEF u
  <2>4. nextId' = nextId /\ version' = version + 1 BY <1>2 DEF Sign, Commit
  <2> QED BY <2>2, <2>3, <2>4 DEF Table
<1>3. ASSUME NEW p \in Path, NEW h \in Hash, Register(p, h)
      PROVE  /\ Table' /\ version' = version + 1 /\ nextId <= nextId'
             /\ \A r \in rows' : \/ r.id = nextId
                                 \/ \E s \in rows : s.id = r.id /\ s.path = r.path /\ s.hash = r.hash
  <2> DEFINE v == p \in Signed
             u == [id |-> nextId, path |-> p, hash |-> h, vouched |-> v]
  <2>0. v \in BOOLEAN OBVIOUS
  <2>1. rows' = rows \cup {u} /\ nextId' = nextId + 1 /\ version' = version + 1
    BY <1>3 DEF Register, Commit
  <2> HIDE DEF v
  <2>2. \A r \in rows : r.path # p BY <1>3 DEF Register, RowsOf
  <2>3. u \in PathRow /\ u.id = nextId /\ u.path = p /\ (p \in Signed => u.vouched)
    <3>1. u \in PathRow /\ u.id = nextId /\ u.path = p /\ u.vouched = v
      BY <2>0 DEF PathRow, Table
    <3> QED BY <3>1 DEF v
  <2> HIDE DEF u
  <2>4. rows' \subseteq PathRow /\ nextId' \in Nat \ {0} BY <2>1, <2>3 DEF Table
  <2>5. \A r \in rows' : 0 < r.id /\ r.id < nextId' /\ (r.path \in Signed => r.vouched)
    BY <2>1, <2>3 DEF Table, PathRow
  <2>6. \A r, s \in rows' : r.path = s.path => r = s BY <2>1, <2>2, <2>3 DEF Table
  <2>7. nextId <= nextId' BY <2>1 DEF Table
  <2> QED BY <2>1, <2>3, <2>4, <2>5, <2>6, <2>7 DEF Table
<1> QED BY <1>1, <1>2, <1>3 DEF Commits

USE ExporterAssumption

LEMMA TypesCommit == ASSUME Types, Commits PROVE Types'
<1>1. Table' /\ version' = version + 1 /\ nextId <= nextId' BY CommitRows DEF Types
<1>2. changed' = TRUE /\ UNCHANGED <<store, loop, serving, hinting, peers, faults>>
  BY DEF Commits, Collect, Sign, Register, Commit
<1>3. nextId \in Nat /\ nextId' \in Nat /\ ex.mark \in Nat /\ ex.v \in Nat
  BY <1>1 DEF Types, Table, Loop
<1> QED BY <1>1, <1>2, <1>3 DEF Types, store, loop, serving, hinting, peers

(* The steps of the own-db loop leave the database alone.                  *)
LEMMA TypesDiffer == ASSUME Types, Differ \/ FailDiff PROVE Types'
<1>0. ex \in Loop /\ Table /\ version \in Nat BY DEF Types
<1>1. CASE Elapse BY <1>1 DEF Elapse, Quiet, store, nix, serving, peers, hinting, Types, Table
<1>2. ASSUME NEW new \in Loop, ex' = new, new.v <= version, new.mark < nextId,
             changed' \in BOOLEAN,
             UNCHANGED <<nix, store, seen, state, due, serving, hinting, peers>>
      PROVE  Types'
  BY <1>2 DEF store, nix, serving, peers, hinting, Types, Table
<1>3. \A step \in Stage : At(step) \in Loop /\ At(step).v <= version /\ At(step).mark < nextId
  <2> TAKE step \in Stage
  <2>1. At(step) \in Loop BY AtLoop
  <2>2. At(step).v = 0 /\ At(step).mark = 0 BY DEF At
  <2> QED BY <1>0, <2>1, <2>2 DEF Table
<1>4. CASE Wake
  <2>1. /\ ex' = At("sample") /\ changed' \in BOOLEAN
        /\ UNCHANGED <<nix, store, seen, state, due, serving, hinting, peers>>
    BY <1>4 DEF Wake, Quiet
  <2> QED BY <1>2, <1>3, <2>1 DEF Stage
<1>5. CASE FailDiff
  <2>1. /\ ex' = At("idle") /\ changed' = changed
        /\ UNCHANGED <<nix, store, seen, state, due, serving, hinting, peers>>
    BY <1>5 DEF FailDiff
  <2>2. changed \in BOOLEAN BY DEF Types
  <2> QED BY <1>2, <1>3, <2>1, <2>2 DEF Stage
<1>6. CASE Sample
  <2>1. /\ changed' = changed
        /\ UNCHANGED <<nix, store, seen, state, due, serving, hinting, peers>>
        /\ \/ ex' = At("idle")
           \/ \E step \in {"mark", "additions"} : ex' = [At(step) EXCEPT !.v = version]
    BY <1>6 DEF Sample, Quiet
  <2>2. ASSUME NEW step \in {"mark", "additions"}
        PROVE  LET new == [At(step) EXCEPT !.v = version]
               IN new \in Loop /\ new.v <= version /\ new.mark < nextId
    <3>1. At(step) \in Loop BY AtLoop DEF Stage
    <3> DEFINE new == [At(step) EXCEPT !.v = version]
    <3>2. new \in Loop BY <1>0, <3>1 DEF Loop
    <3>3. new.v = version /\ new.mark = 0 BY DEF At
    <3> QED BY <1>0, <3>2, <3>3 DEF Table
  <2>3. changed \in BOOLEAN BY DEF Types
  <2> QED BY <1>2, <1>3, <2>1, <2>2, <2>3 DEF Stage
<1>7. CASE Mark \/ Scan \/ Additions
  <2>1. MaxIdOf(rows) \in Nat /\ MaxIdOf(rows) < nextId BY <1>0, MaxId
  <2>2. changed' = changed
        /\ UNCHANGED <<nix, store, seen, state, due, serving, hinting, peers>>
    BY <1>7 DEF Mark, Scan, Additions, Quiet
  <2>3. /\ ex' \in Loop /\ ex'.v = ex.v /\ ex'.mark \in {ex.mark, MaxIdOf(rows)}
    <3>1. CASE Mark BY <1>0, <2>1, <3>1 DEF Mark, Loop, Stage
    <3>2. CASE Scan BY <1>0, <3>2 DEF Scan, Loop, Stage, Table
    <3>3. CASE Additions
      <4>1. {r \in rows : r.id > state} \in SUBSET PathRow BY <1>0 DEF Table
      <4> QED BY <1>0, <2>1, <3>3, <4>1 DEF Additions, Loop, Stage
    <3> QED BY <1>7, <3>1, <3>2, <3>3
  <2>4. ex.v <= version /\ ex.mark < nextId /\ changed \in BOOLEAN BY DEF Types
  <2> DEFINE new == ex'
  <2>5. new \in Loop /\ new.v <= version /\ new.mark < nextId BY <2>1, <2>3, <2>4
  <2> QED BY <1>2, <2>2, <2>4, <2>5
<1>8. CASE Diff
  <2> DEFINE a == Vouched(ex.cands) \ facts
             b == HashesOf(ex.cands) \ held
             c == IF ex.full THEN held \ HashesOf(ex.cands) ELSE {}
             new == [ex EXCEPT !.at = "write", !.cands = {}, !.atts = a, !.adds = b, !.drops = c]
  <2>1. ex.cands \subseteq PathRow BY <1>0 DEF Loop
  <2>2. a \subseteq Path \X Hash /\ b \subseteq Hash /\ c \subseteq Hash
    BY <2>1 DEF Vouched, HashesOf, PathRow, Types
  <2> HIDE DEF a, b, c
  <2>3. new \in Loop /\ new.v = ex.v /\ new.mark = ex.mark BY <1>0, <2>2 DEF Loop, Stage
  <2>4. ex' = new /\ changed' = changed
        /\ UNCHANGED <<nix, store, seen, state, due, serving, hinting, peers>>
    BY <1>8 DEF Diff, Quiet, a, b, c
  <2>5. ex.v <= version /\ ex.mark < nextId /\ changed \in BOOLEAN BY DEF Types
  <2> HIDE DEF new
  <2> QED BY <1>2, <2>3, <2>4, <2>5
<1>9. CASE WriteChunk
  <2>1. PICK b \in Batch :
          /\ held' = (held \cup b.adds) \ b.drops /\ facts' = facts \cup b.atts
          /\ unseen' = unseen \ b.adds
          /\ ex' = [ex EXCEPT !.atts = @ \ b.atts, !.adds = @ \ b.adds, !.drops = @ \ b.drops,
                              !.wrote = TRUE, !.cut = @ \ b.adds]
    BY <1>9 DEF WriteChunk
  <2>2. b.atts \subseteq ex.atts /\ b.adds \subseteq ex.adds /\ b.drops \subseteq ex.drops
    BY DEF Batch
  <2>3. ex.atts \subseteq Path \X Hash /\ ex.adds \subseteq Hash /\ ex.drops \subseteq Hash
    BY <1>0 DEF Loop
  <2>4. held' \subseteq Hash /\ unseen' \subseteq Hash /\ facts' \subseteq Path \X Hash
    BY <2>1, <2>2, <2>3 DEF Types
  <2>5. ex' \in Loop /\ ex'.v = ex.v /\ ex'.mark = ex.mark BY <1>0, <2>1, <2>2 DEF Loop
  <2>6. knows' = {} /\ pull' \in [Peer -> {"off", "idle", "asking", "fresh", "stale"}]
    BY <1>9 DEF WriteChunk, Publish, Types
  <2>7. UNCHANGED <<nix, changed, seen, state, due, serving, hinting, kick, owed>>
    BY <1>9 DEF WriteChunk, Publish
  <2> QED BY <2>4, <2>5, <2>6, <2>7 DEF Types, Table, nix, serving, hinting
<1>10. CASE Finish
  <2>1. /\ ex' = At("idle") /\ state' = ex.mark /\ seen' = ex.v
        /\ due' \in BOOLEAN /\ unseen' \in {unseen, ex.cut} /\ hintSlot' \in BOOLEAN
        /\ UNCHANGED <<changed, held, facts, hints, nix, serving, peers>>
    BY <1>10 DEF Finish, Conclude, Quiet, Types
  <2>2. ex.mark \in Nat /\ ex.v \in Nat /\ ex.cut \subseteq Hash BY <1>0 DEF Loop
  <2>3. At("idle") \in Loop /\ At("idle").v <= version /\ At("idle").mark < nextId
    BY <1>3 DEF Stage
  <2>4. ex' \in Loop /\ ex'.v <= version /\ ex'.mark < nextId BY <2>1, <2>3
  <2>5. unseen' \subseteq Hash BY <2>1, <2>2 DEF Types
  <2> QED BY <2>1, <2>2, <2>4, <2>5 DEF Types, Table, nix, serving, peers
<1> QED BY <1>1, <1>4, <1>5, <1>6, <1>7, <1>8, <1>9, <1>10 DEF Differ

(* Requests by NAR hash touch the retraction alone.                        *)
Looking == \E r \in Request : Ask(r) \/ Lookup(r)

LEMMA LookingLeaves ==
    ASSUME Looking
    PROVE  /\ UNCHANGED <<nix, changed, store, loop, hinting, peers, faults>>
           /\ retract' \in {retract, "check"}
BY DEF Looking, Ask, Lookup, Probe, Confirm, ScanOnce, ReadAll, Swap, Reread, FetchRow,
       Answer, Go, Serve

(* Hints and pulls touch neither the loop nor what it works on.            *)
Pulling == FanOut \/ \E p \in Peer : HandleHint(p) \/ Pull(p) \/ TimedPull(p) \/ FailPull(p)

LEMMA PullingLeaves == ASSUME Pulling PROVE UNCHANGED <<nix, changed, store, loop, serving>>
BY DEF Pulling, FanOut, HandleHint, Pull, TimedPull, FailPull, KickedPull, StartPull, Respond,
       Apply, EndPull, Elsewhere

LEMMA TypesOthers ==
    ASSUME Types, Looking \/ Retract \/ Pulling \/ Crash \/ UNCHANGED vars
    PROVE  Types'
<1>1. CASE Looking
  <2>1. UNCHANGED <<nix, changed, store, loop, hinting, peers>> /\ retract' \in {retract, "check"}
    BY <1>1, LookingLeaves
  <2> QED BY <2>1 DEF nix, store, loop, hinting, peers, Types, Table
<1>2. CASE CheckHold BY <1>2 DEF CheckHold, nix, store, loop, hinting, peers, Types, Table
<1>3. CASE DropHold
  <2>1. /\ held' = held \ {Wanted} /\ unseen' = unseen \cup {Wanted} /\ retract' = None
        /\ ex' = IF ex.at = "write" THEN [ex EXCEPT !.cut = @ \cup {Wanted}] ELSE ex
        /\ UNCHANGED <<nix, changed, facts, seen, state, due, hinting, kick, owed>>
        /\ knows' = {} /\ pull' \in [Peer -> {"off", "idle", "asking", "fresh", "stale"}]
    BY <1>3 DEF DropHold, Publish, Types
  <2>2. ex' \in Loop /\ ex'.v = ex.v /\ ex'.mark = ex.mark BY <2>1 DEF Types, Loop
  <2> QED BY <2>1, <2>2 DEF nix, hinting, Types, Table
<1>4. CASE Pulling
  <2>1. UNCHANGED <<nix, changed, store, loop, serving>> BY <1>4, PullingLeaves
  <2>2. /\ hints' \subseteq Peer /\ kick' \subseteq Peer /\ knows' \subseteq Peer
        /\ owed' \subseteq Peer /\ hintSlot' \in BOOLEAN
        /\ pull' \in [Peer -> {"off", "idle", "asking", "fresh", "stale"}]
    BY <1>4 DEF Pulling, FanOut, HandleHint, Pull, TimedPull, FailPull, KickedPull, StartPull,
                Respond, Apply, EndPull, Reachable, Types, hinting, peers
  <2> QED BY <2>1, <2>2 DEF nix, store, loop, serving, Types, Table
<1>5. CASE Crash
  <2>1. ex' = At("sample") /\ At("sample") \in Loop BY <1>5, AtLoop DEF Crash, Stage
  <2>2. ex'.v = 0 /\ ex'.mark = 0 BY <2>1 DEF At
  <2>4. changed' \in BOOLEAN /\ due' \in BOOLEAN /\ hintSlot' \in BOOLEAN BY <1>5 DEF Crash
  <2>3. /\ seen' = 0 /\ state' = None /\ retract' = None /\ hints' = {}
        /\ UNCHANGED <<rows, nextId, version, held, facts, unseen, kick, pull, knows, owed>>
    BY <1>5 DEF Crash, nix, store, peers
  <2> QED BY <2>1, <2>2, <2>3, <2>4 DEF Types, Table
<1>6. CASE UNCHANGED vars
  BY <1>6 DEF vars, nix, store, loop, serving, hinting, peers, Types, Table
<1> QED BY <1>1, <1>2, <1>3, <1>4, <1>5, <1>6 DEF Retract

LEMMA NextTypes == ASSUME Types, [Next]_vars PROVE Types'
BY TypesCommit, TypesDiffer, TypesOthers DEF Next, Commits, Looking, Pulling

-----------------------------------------------------------------------------
(* Hints *)

LEMMA InitHonoured == Init => Honoured
BY DEF Init, Honoured

LEMMA NextHonoured == ASSUME Types, Honoured, [Next]_vars PROVE Honoured'
<1>1. CASE UNCHANGED <<kick, pull, owed>> BY <1>1 DEF Honoured
<1>2. ASSUME Publish PROVE Honoured' BY <1>2 DEF Publish, Honoured, Types
<1>3. CASE Commits
  BY <1>1, <1>3 DEF Commits, Collect, Sign, Register, Commit, peers
<1>4. CASE Differ \/ FailDiff
  BY <1>1, <1>2, <1>4 DEF Differ, Elapse, Wake, Sample, Mark, Scan, Additions, Diff, WriteChunk,
                          Finish, Conclude, FailDiff, Quiet, peers
<1>5. CASE Looking BY <1>1, <1>5, LookingLeaves DEF peers
<1>6. CASE Retract BY <1>1, <1>2, <1>6 DEF Retract, CheckHold, DropHold, peers
<1>7. CASE FanOut BY <1>1, <1>7 DEF FanOut, peers
<1>8. ASSUME NEW p \in Peer, HandleHint(p) \/ Pull(p) \/ TimedPull(p) \/ FailPull(p)
      PROVE  Honoured'
  <2>1. \A q \in owed : q \in Peer BY DEF Types
  <2>2. CASE HandleHint(p) BY <2>2 DEF HandleHint, Honoured
  <2>3. CASE StartPull(p) /\ (kick' = kick \/ kick' = kick \ {p})
    BY <2>1, <2>3 DEF StartPull, Honoured, Types
  <2>4. CASE Respond(p) BY <2>1, <2>4 DEF Respond, Honoured, Types
  <2>5. CASE Apply(p) BY <2>1, <2>5 DEF Apply, EndPull, Honoured, Types
  <2>6. CASE FailPull(p) BY <2>1, <2>6 DEF FailPull, Honoured, Types
  <2> QED BY <1>8, <2>2, <2>3, <2>4, <2>5, <2>6 DEF Pull, KickedPull, TimedPull
<1>9. CASE Crash BY <1>1, <1>9 DEF Crash, peers
<1>10. CASE UNCHANGED vars BY <1>1, <1>10 DEF vars, peers
<1> QED BY <1>3, <1>4, <1>5, <1>6, <1>7, <1>8, <1>9, <1>10 DEF Next, Commits, Looking

-----------------------------------------------------------------------------
(* What a diff overlooks *)

LEMMA InitInv == Init => IInv
<1> SUFFICES ASSUME Init PROVE IInv
  OBVIOUS
<1>1. state = None /\ ex = At("sample") BY DEF Init
<1>2. ex.at = "sample" /\ ex.cut = {} BY <1>1 DEF At
<1> QED BY <1>1, <1>2, InitTypes DEF IInv, Forms, Settled, Latest, Reading, Writing

(* More published, less to publish.                                        *)
LEMMA InMore ==
    ASSUME NEW r, NEW hs, NEW more, NEW cs, NEW claims, hs \subseteq more, cs \subseteq claims,
           In(r, hs, cs)
    PROVE  In(r, more, claims)
BY DEF In

(* A row that a commit changes keeps its place and what is published of it;*)
(* a new one is past every watermark, at a version nobody has looked at.   *)
LEMMA CommitInv == ASSUME IInv, Commits PROVE IInv'
<1>0. Types /\ Types' BY TypesCommit DEF IInv
<1>1. /\ version' = version + 1
      /\ \A r \in rows' : \/ r.id = nextId
                          \/ \E s \in rows : s.id = r.id /\ s.path = r.path /\ s.hash = r.hash
  BY <1>0, CommitRows DEF Types
<1>2. UNCHANGED <<store, loop>> BY DEF Commits, Collect, Sign, Register, Commit
<1>3. /\ UNCHANGED <<held, facts, unseen, seen, state, due, ex>>
      /\ seen # version' /\ ex.v # version' /\ ex.mark \in Nat /\ nextId \in Nat
  <2>1. version \in Nat /\ seen \in Nat /\ seen <= version /\ ex.v \in Nat /\ ex.v <= version
    BY <1>0 DEF Types, Loop
  <2> QED BY <1>0, <1>1, <1>2, <2>1 DEF store, loop, Types, Table, Loop
<1>4. ~(nextId <= ex.mark) /\ (state # None => state \in Nat /\ ~(nextId <= state))
  BY <1>0, <1>3 DEF Types
<1>5. Forms' BY <1>3 DEF IInv, Forms
<1>6. Settled'
  <2> SUFFICES ASSUME state # None, NEW r \in rows', r.id <= state
               PROVE  In(r, held \cup unseen, facts)
    BY <1>3 DEF Settled
  <2>1. PICK s \in rows : s.id = r.id /\ s.path = r.path /\ s.hash = r.hash BY <1>1, <1>4
  <2> QED BY <2>1 DEF IInv, Settled, In
<1>7. Latest' BY <1>1, <1>3, <1>4 DEF IInv, Latest
<1>8. ASSUME NEW r \in rows', Mine(r)'
      PROVE  \E s \in rows : s.id = r.id /\ s.path = r.path /\ s.hash = r.hash /\ Mine(s)
  BY <1>1, <1>3, <1>4, <1>8 DEF Mine
<1>9. Reading'
  <2> SUFFICES ASSUME ex.at = "diff", NEW r \in rows', Mine(r)'
               PROVE  In(r, HashesOf(ex.cands), Vouched(ex.cands))
    BY <1>3 DEF Reading, HashesOf, Vouched
  <2>1. PICK s \in rows : s.id = r.id /\ s.path = r.path /\ s.hash = r.hash /\ Mine(s) BY <1>8
  <2> QED BY <2>1 DEF IInv, Reading, In
<1>10. Writing'
  <2> SUFFICES ASSUME ex.at = "write", NEW r \in rows', Mine(r)'
               PROVE  /\ In(r, held \cup ex.adds \cup (IF ex.full THEN ex.cut ELSE unseen),
                            facts \cup ex.atts)
                      /\ r.hash \notin ex.drops
    BY <1>3 DEF IInv, Writing
  <2>1. PICK s \in rows : s.id = r.id /\ s.path = r.path /\ s.hash = r.hash /\ Mine(s) BY <1>8
  <2> QED BY <2>1 DEF IInv, Writing, In
<1> QED BY <1>0, <1>5, <1>6, <1>7, <1>9, <1>10 DEF IInv

(* Steps to a stage at which nothing has been read yet.                    *)
LEMMA BeginInv ==
    ASSUME IInv, Types', UNCHANGED <<rows, version, held, facts, unseen>>,
           ex'.at \in {"idle", "sample", "mark", "additions"}, ex'.cut = {},
           \/ UNCHANGED <<seen, state>> /\ (ex'.at = "additions" => state # None /\ ~ex'.full)
           \/ state' = None /\ ex'.at # "additions"
    PROVE  IInv'
<1>1. Forms' BY DEF IInv, Forms
<1>2. Settled' BY DEF IInv, Settled
<1>3. Latest' BY DEF IInv, Latest
<1> QED BY <1>1, <1>2, <1>3 DEF IInv, Reading, Writing

LEMMA ElapseInv == ASSUME IInv, Elapse PROVE IInv'
<1>1. UNCHANGED <<rows, version, held, facts, unseen, seen, state, ex>>
  BY DEF Elapse, Quiet, nix, store
<1>2. Types' BY TypesDiffer DEF IInv, Differ
<1> QED BY <1>1, <1>2 DEF IInv, Forms, Settled, Latest, Reading, Writing, Mine, HashesOf, Vouched

LEMMA StartInv == ASSUME IInv, Wake \/ Sample \/ FailDiff PROVE IInv'
<1>0. Types' BY TypesDiffer DEF IInv, Differ
<1>1. UNCHANGED <<rows, version, held, facts, unseen, seen, state>>
  BY DEF Wake, Sample, FailDiff, Quiet, nix, store
<1>2. /\ ex'.at \in {"idle", "sample", "mark", "additions"} /\ ex'.cut = {}
      /\ ex'.at = "additions" => state # None /\ ~ex'.full
  BY DEF Wake, Sample, FailDiff, At
<1> QED BY <1>0, <1>1, <1>2, BeginInv

LEMMA CrashInv == ASSUME IInv, Crash PROVE IInv'
<1>0. Types' BY TypesOthers DEF IInv
<1>1. UNCHANGED <<rows, version, held, facts, unseen>> /\ state' = None BY DEF Crash, nix, store
<1>2. ex'.at = "sample" /\ ex'.cut = {} BY DEF Crash, At
<1> QED BY <1>0, <1>1, <1>2, BeginInv

(* The watermark is read first: no row there is past it.                   *)
LEMMA MarkInv == ASSUME IInv, Mark PROVE IInv'
<1>0. Types' BY TypesDiffer DEF IInv, Differ
<1>1. UNCHANGED <<rows, version, held, facts, unseen, seen, state>>
  BY DEF Mark, Quiet, nix, store
<1>2. ex.at = "mark" /\ ex' = [ex EXCEPT !.at = "scan", !.mark = MaxIdOf(rows), !.full = TRUE]
  BY DEF Mark
<1>3. /\ ex'.at = "scan" /\ ex'.mark = MaxIdOf(rows) /\ ex'.full = TRUE
      /\ ex'.cut = ex.cut
  BY <1>2 DEF IInv, Types, Loop
<1>4. \A r \in rows : r.id <= MaxIdOf(rows) BY MaxId DEF IInv, Types
<1>5. Forms' BY <1>1, <1>3 DEF IInv, Forms
<1>6. Settled' BY <1>1 DEF IInv, Settled
<1>7. Latest' BY <1>1, <1>3, <1>4 DEF IInv, Latest
<1> QED BY <1>0, <1>3, <1>5, <1>6, <1>7 DEF IInv, Reading, Writing

(* A signed row is a claim of the rows it is among.                        *)
LEMMA AmongRows ==
    ASSUME Table, NEW rs \in SUBSET rows, NEW r \in rs
    PROVE  In(r, HashesOf(rs), Vouched(rs))
BY DEF Table, In, HashesOf, Vouched

LEMMA ScanInv == ASSUME IInv, Scan PROVE IInv'
<1>0. Types' BY TypesDiffer DEF IInv, Differ
<1>1. UNCHANGED <<rows, version, held, facts, unseen, seen, state>>
  BY DEF Scan, Quiet, nix, store
<1>2. ex.at = "scan" /\ ex' = [ex EXCEPT !.at = "diff", !.cands = rows] BY DEF Scan
<1>3. /\ ex'.at = "diff" /\ ex'.cands = rows /\ ex'.mark = ex.mark /\ ex'.full = ex.full
      /\ ex'.cut = ex.cut /\ ex'.v = ex.v
  BY <1>2 DEF IInv, Types, Loop
<1>5. Forms' BY <1>1, <1>2, <1>3 DEF IInv, Forms
<1>6. Settled' BY <1>1 DEF IInv, Settled
<1>7. Latest' BY <1>1, <1>2, <1>3 DEF IInv, Latest
<1>8. \A r \in rows : In(r, HashesOf(rows), Vouched(rows)) BY AmongRows DEF IInv, Types
<1>9. Reading'
  <2> SUFFICES ASSUME NEW r \in rows PROVE In(r, HashesOf(rows), Vouched(rows))
    BY <1>1, <1>3 DEF Reading, HashesOf, Vouched
  <2> QED BY <1>8
<1> QED BY <1>0, <1>3, <1>5, <1>6, <1>7, <1>9 DEF IInv, Writing

LEMMA AdditionsInv == ASSUME IInv, Additions PROVE IInv'
<1>0. Types' /\ Types BY TypesDiffer DEF IInv, Differ
<1> DEFINE new == {r \in rows : r.id > state}
<1>1. UNCHANGED <<rows, version, held, facts, unseen, seen, state>>
  BY DEF Additions, Quiet, nix, store
<1>2. ex.at = "additions"
      /\ ex' = [ex EXCEPT !.at = "diff", !.cands = new, !.mark = MaxIdOf(rows)]
  BY DEF Additions
<1>3. /\ ex'.at = "diff" /\ ex'.cands = new /\ ex'.mark = MaxIdOf(rows) /\ ex'.full = ex.full
      /\ ex'.cut = ex.cut /\ ex'.v = ex.v /\ ex'.drops = ex.drops
  BY <1>0, <1>2 DEF Types, Loop
<1>4. \A r \in rows : r.id <= MaxIdOf(rows) BY <1>0, MaxId DEF Types
<1>5. state # None /\ state \in Nat /\ \A r \in rows : r.id \in Nat
  BY <1>0, <1>2 DEF IInv, Forms, Types, Table, PathRow
<1>6. Settled' BY <1>1 DEF IInv, Settled
<1>7. Latest' BY <1>1, <1>3, <1>4 DEF IInv, Latest
<1>8. \A r \in new : In(r, HashesOf(new), Vouched(new)) BY <1>0, AmongRows DEF Types
<1> HIDE DEF new
<1>9. \A r \in rows : r \notin new => r.id <= state BY <1>5 DEF new
<1>10. Forms' BY <1>1, <1>3, <1>5 DEF IInv, Forms
<1>11. Reading'
  <2> SUFFICES ASSUME NEW r \in rows, Mine(r)' PROVE In(r, HashesOf(new), Vouched(new))
    BY <1>1, <1>3 DEF Reading, HashesOf, Vouched
  <2>1. CASE r \in new BY <1>8, <2>1
  <2>2. CASE r \notin new
    <3>1. ex.full BY <1>1, <1>3, <1>9, <2>2 DEF Mine
    <3> QED BY <3>1, <1>2 DEF IInv, Forms
  <2> QED BY <2>1, <2>2
<1> QED BY <1>0, <1>3, <1>6, <1>7, <1>10, <1>11 DEF IInv, Writing

(* What the store has not got is written; a full diff drops what no row    *)
(* has.                                                                    *)
LEMMA DiffInv == ASSUME IInv, Diff PROVE IInv'
<1>0. Types' /\ Types BY TypesDiffer DEF IInv, Differ
<1> DEFINE hs == HashesOf(ex.cands)
           cs == Vouched(ex.cands)
<1>1. UNCHANGED <<rows, version, held, facts, unseen, seen, state>>
  BY DEF Diff, Quiet, nix, store
<1>2. ex.at = "diff"
      /\ ex' = [ex EXCEPT !.at = "write", !.cands = {}, !.atts = cs \ facts, !.adds = hs \ held,
                          !.drops = IF ex.full THEN held \ hs ELSE {}]
  BY DEF Diff
<1>3. /\ ex'.at = "write" /\ ex'.mark = ex.mark /\ ex'.full = ex.full /\ ex'.cut = ex.cut
      /\ ex'.v = ex.v /\ ex'.atts = cs \ facts /\ ex'.adds = hs \ held
      /\ ex'.drops = IF ex.full THEN held \ hs ELSE {}
  BY <1>0, <1>2 DEF Types, Loop
<1>4. \A r \in rows : Mine(r) => In(r, hs, cs) BY <1>2 DEF IInv, Reading
<1> HIDE DEF hs, cs
<1>5. Forms' BY <1>1, <1>2, <1>3 DEF IInv, Forms
<1>6. Settled' BY <1>1 DEF IInv, Settled
<1>7. Latest' BY <1>1, <1>2, <1>3 DEF IInv, Latest
<1>8. Writing'
  <2>1. ex'.adds \cap ex'.drops = {} BY <1>3
  <2>2. ASSUME NEW r \in rows, Mine(r)'
        PROVE  /\ In(r, held \cup ex'.adds \cup (IF ex.full THEN ex.cut ELSE unseen),
                     facts \cup ex'.atts)
               /\ r.hash \notin ex'.drops
    <3>1. In(r, hs, cs) BY <1>1, <1>3, <1>4, <2>2 DEF Mine
    <3> QED BY <1>3, <3>1 DEF In
  <2> QED BY <1>1, <1>3, <2>1, <2>2 DEF Writing
<1> QED BY <1>0, <1>3, <1>5, <1>6, <1>7, <1>8 DEF IInv, Reading

(* A row of the last diff is not dropped by this one.                      *)
LEMMA KeptRows ==
    ASSUME IInv, ex.at = "write", NEW r \in rows, Mine(r) \/ (state # None /\ r.id <= state)
    PROVE  r.hash \notin ex.drops
<1>1. CASE Mine(r) BY <1>1 DEF IInv, Writing
<1>2. CASE ~Mine(r) /\ state # None /\ r.id <= state
  <2>1. r.id <= ex.mark BY <1>2 DEF IInv, Latest
  <2> QED BY <1>2, <2>1 DEF IInv, Forms, Mine
<1> QED BY <1>1, <1>2

LEMMA WriteChunkInv == ASSUME IInv, WriteChunk PROVE IInv'
<1>0. Types' /\ Types BY TypesDiffer DEF IInv, Differ
<1>1. PICK b \in Batch :
        /\ held' = (held \cup b.adds) \ b.drops /\ facts' = facts \cup b.atts
        /\ unseen' = unseen \ b.adds
        /\ ex' = [ex EXCEPT !.atts = @ \ b.atts, !.adds = @ \ b.adds, !.drops = @ \ b.drops,
                            !.wrote = TRUE, !.cut = @ \ b.adds]
  BY DEF WriteChunk
<1>2. b.atts \subseteq ex.atts /\ b.adds \subseteq ex.adds /\ b.drops \subseteq ex.drops
  BY DEF Batch
<1>3. ex.at = "write" /\ UNCHANGED <<rows, version, seen, state>> BY DEF WriteChunk, nix
<1>4. /\ ex'.at = "write" /\ ex'.mark = ex.mark /\ ex'.full = ex.full /\ ex'.cut = ex.cut \ b.adds
      /\ ex'.v = ex.v /\ ex'.atts = ex.atts \ b.atts /\ ex'.adds = ex.adds \ b.adds
      /\ ex'.drops = ex.drops \ b.drops
  BY <1>0, <1>1, <1>3 DEF Types, Loop
<1>5. Forms' BY <1>1, <1>3, <1>4 DEF IInv, Forms
<1>6. b.adds \cap b.drops = {} BY <1>2, <1>3 DEF IInv, Writing
<1>7. Settled'
  <2> SUFFICES ASSUME state # None, NEW r \in rows, r.id <= state
               PROVE  In(r, held' \cup unseen', facts')
    BY <1>3 DEF Settled
  <2>1. In(r, held \cup unseen, facts) BY DEF IInv, Settled
  <2>2. r.hash \notin ex.drops BY <1>3, KeptRows
  <2> QED BY <1>1, <1>2, <1>6, <2>1, <2>2 DEF In
<1>8. Latest' BY <1>3, <1>4 DEF IInv, Latest
<1>9. Writing'
  <2>1. ex'.adds \cap ex'.drops = {} BY <1>3, <1>4 DEF IInv, Writing
  <2>2. ASSUME NEW r \in rows, Mine(r)'
        PROVE  /\ In(r, held' \cup ex'.adds \cup (IF ex.full THEN ex'.cut ELSE unseen'),
                     facts' \cup ex'.atts)
               /\ r.hash \notin ex'.drops
    <3>1. Mine(r) BY <1>3, <1>4, <2>2 DEF Mine
    <3>2. In(r, held \cup ex.adds \cup (IF ex.full THEN ex.cut ELSE unseen), facts \cup ex.atts)
      BY <1>3, <3>1 DEF IInv, Writing
    <3>3. r.hash \notin ex.drops BY <1>3, <3>1, KeptRows
    <3> QED BY <1>1, <1>2, <1>4, <1>6, <3>2, <3>3 DEF In
  <2> QED BY <1>3, <1>4, <2>1, <2>2 DEF Writing
<1> QED BY <1>0, <1>4, <1>5, <1>7, <1>8, <1>9 DEF IInv, Reading

(* With everything written, the rows up to the watermark are published.    *)
LEMMA FinishInv == ASSUME IInv, Finish PROVE IInv'
<1>0. Types' /\ Types BY TypesDiffer DEF IInv, Differ
<1>1. /\ ex.at = "write" /\ ex.atts = {} /\ ex.adds = {} /\ ex.drops = {}
      /\ state' = ex.mark /\ seen' = ex.v /\ ex' = At("idle")
      /\ unseen' = IF ex.full THEN ex.cut ELSE unseen
      /\ UNCHANGED <<rows, version, held, facts>>
  BY DEF Finish, Conclude, Pending, Quiet, nix
<1>2. ex'.at = "idle" /\ ex'.cut = {} BY <1>1 DEF At
<1>3. Forms' BY <1>2 DEF Forms
<1>4. Settled'
  <2> SUFFICES ASSUME NEW r \in rows, r.id <= ex.mark PROVE In(r, held \cup unseen', facts)
    BY <1>1 DEF Settled
  <2>1. CASE Mine(r) BY <1>1, <2>1 DEF IInv, Writing, In
  <2>2. CASE ~Mine(r)
    <3>1. ~ex.full /\ state # None /\ r.id <= state BY <1>1, <2>2 DEF Mine, IInv, Forms
    <3> QED BY <1>1, <3>1 DEF IInv, Settled
  <2> QED BY <2>1, <2>2
<1>5. Latest' BY <1>1, <1>2 DEF IInv, Latest
<1> QED BY <1>0, <1>2, <1>3, <1>4, <1>5 DEF IInv, Reading, Writing

(* A hash that is retracted is one more that no finished scan has seen.    *)
LEMMA DropHoldInv == ASSUME IInv, DropHold PROVE IInv'
<1>0. Types' /\ Types BY TypesOthers DEF IInv, Retract
<1>1. /\ held' = held \ {Wanted} /\ unseen' = unseen \cup {Wanted}
      /\ ex' = IF ex.at = "write" THEN [ex EXCEPT !.cut = @ \cup {Wanted}] ELSE ex
      /\ UNCHANGED <<rows, version, facts, seen, state>>
  BY DEF DropHold, nix
<1>2. /\ ex'.at = ex.at /\ ex'.mark = ex.mark /\ ex'.full = ex.full /\ ex'.v = ex.v
      /\ ex'.atts = ex.atts /\ ex'.adds = ex.adds /\ ex'.drops = ex.drops /\ ex'.cands = ex.cands
      /\ ex'.cut = IF ex.at = "write" THEN ex.cut \cup {Wanted} ELSE ex.cut
  BY <1>0, <1>1 DEF Types, Loop
<1>3. Forms' BY <1>1, <1>2 DEF IInv, Forms
<1>4. Settled' BY <1>1 DEF IInv, Settled, In
<1>5. Latest' BY <1>1, <1>2 DEF IInv, Latest
<1>6. Reading' BY <1>1, <1>2 DEF IInv, Reading, Mine, HashesOf, Vouched
<1>7. Writing'
  <2> SUFFICES ASSUME ex.at = "write", NEW r \in rows, Mine(r)'
               PROVE  /\ In(r, held' \cup ex.adds \cup (IF ex.full THEN ex'.cut ELSE unseen'),
                            facts \cup ex.atts)
                      /\ r.hash \notin ex.drops
    BY <1>1, <1>2 DEF IInv, Writing
  <2>1. Mine(r) BY <1>1, <1>2 DEF Mine
  <2>2. In(r, held \cup ex.adds \cup (IF ex.full THEN ex.cut ELSE unseen), facts \cup ex.atts)
        /\ r.hash \notin ex.drops
    BY <2>1 DEF IInv, Writing
  <2> QED BY <1>1, <1>2, <2>2 DEF In
<1> QED BY <1>0, <1>3, <1>4, <1>5, <1>6, <1>7 DEF IInv

LEMMA AsideInv ==
    ASSUME IInv, Looking \/ CheckHold \/ Pulling \/ UNCHANGED vars
    PROVE  IInv'
<1>0. Types' BY TypesOthers DEF IInv, Retract
<1>1. UNCHANGED <<nix, store, loop>>
  BY LookingLeaves, PullingLeaves DEF CheckHold, vars
<1>2. UNCHANGED <<rows, version, held, facts, unseen, seen, state, ex>>
  BY <1>1 DEF nix, store, loop
<1> QED BY <1>0, <1>2 DEF IInv, Forms, Settled, Latest, Reading, Writing, Mine, HashesOf, Vouched

LEMMA NextInv == ASSUME IInv, [Next]_vars PROVE IInv'
<1>1. CASE Commits BY <1>1, CommitInv
<1>2. CASE Differ \/ FailDiff
  BY <1>2, ElapseInv, StartInv, MarkInv, ScanInv, AdditionsInv, DiffInv, WriteChunkInv, FinishInv
  DEF Differ
<1>3. CASE Crash BY <1>3, CrashInv
<1>4. CASE Looking \/ CheckHold \/ Pulling \/ UNCHANGED vars BY <1>4, AsideInv
<1>5. CASE DropHold BY <1>5, DropHoldInv
<1> QED BY <1>1, <1>2, <1>3, <1>4, <1>5 DEF Next, Commits, Looking, Pulling, Retract

-----------------------------------------------------------------------------
(* Nothing committed is overlooked (sync.rs own_db_loop, export_own_db):   *)
(* when the loop rests on the current version, every row is published or   *)
(* was retracted since, whatever Nix committed between the queries.        *)
THEOREM NothingIsOverlooked == Spec => []ExportedWhenQuiet
<1>1. ASSUME IInv PROVE ExportedWhenQuiet
  <2> SUFFICES ASSUME state # None, seen = version, NEW r \in rows
               PROVE  In(r, held \cup unseen, facts)
    BY DEF ExportedWhenQuiet, HashesOf, Vouched, In
  <2> QED BY <1>1 DEF IInv, Latest, Settled
<1> QED BY <1>1, InitInv, NextInv, PTL DEF Spec

(* A hint that arrived is honoured (sync.rs peer_loop): a kick waits or a  *)
(* pull is unanswered, whenever it was sent; and every step keeps types.   *)
THEOREM HintsAreKept == Spec => []HintsAreHonoured
<1>1. ASSUME Types, Honoured PROVE HintsAreHonoured
  <2>1. \A r \in rows : r.id \in 1..(nextId - 1) /\ r \in PathRow BY <1>1 DEF Types, Table, PathRow
  <2>2. rows \subseteq [id : 1..(nextId - 1), path : Path, hash : Hash, vouched : BOOLEAN]
    BY <2>1 DEF PathRow
  <2>3. state = None \/ state \in 0..(nextId - 1) BY <1>1 DEF Types, Table
  <2>4. ex.at \in {"idle", "sample", "mark", "scan", "additions", "diff", "write"}
    BY <1>1 DEF Types, Loop, Stage
  <2>5. TypeOK BY <1>1, <2>2, <2>3, <2>4 DEF Types, Table, TypeOK
  <2> QED BY <1>1, <2>5 DEF Honoured, HintsAreHonoured
<1> QED BY <1>1, InitTypes, InitHonoured, NextTypes, NextHonoured, PTL DEF Spec
=============================================================================
