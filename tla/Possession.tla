----------------------------- MODULE Possession -----------------------------
(***************************************************************************)
(* Possession of the narshare mesh: how the set of NAR hashes one node (the *)
(* Origin) holds is journaled there, pulled by the other nodes, relayed,   *)
(* compacted, and recovered after crashes, lost stores and restored images.*)
(* One origin is one independent stream (its own clock, journal, holdings  *)
(* and stripe lock in every store), so one stream is modelled; a mesh runs *)
(* one copy per origin.                                                    *)
(*                                                                         *)
(* Every peer loop of a node is a process: its exchange is asked, answered *)
(* in two unsynchronised reads at the responder (the clock, then journal   *)
(* or holdings), and applied under the requester's expect gate or stripe   *)
(* lock, all interleaved with the exporter, compaction, remints and        *)
(* faults.  Attest events, leases and ranges belong to other modules.      *)
(***************************************************************************)
EXTENDS Naturals, FiniteSets

CONSTANTS
    Node,         \* the configured mesh: self and peers, on every node
    Origin,       \* the node whose stream this is
    Hash,         \* NAR hashes
    Peers,        \* Peers[n]: the peers n is configured with, who must ack to it
    Links,        \* the pairs <<n, p>> such that n can reach p
    Backstop,     \* JOURNAL_BACKSTOP
    Faults,       \* which of FaultKinds may strike
    MaxSeq,       \* bound: events exported under one generation
    MaxMint,      \* bound: generations minted
    MaxFaults,    \* bound: faults of all kinds together
    MaxInflight   \* bound: exchanges in flight at once, mesh-wide

FaultKinds == {"crash", "hostcrash", "replicaloss", "originloss", "restore"}

ASSUME OriginAssumption == Origin \in Node
ASSUME PeersAssumption == Peers \in [Node -> SUBSET Node]
ASSUME LinksAssumption == Links \subseteq {l \in Node \X Node : l[2] \in Peers[l[1]]}
ASSUME BackstopAssumption == Backstop \in Nat
ASSUME FaultsAssumption == Faults \subseteq FaultKinds
ASSUME BoundsAssumption == {MaxSeq, MaxMint, MaxFaults, MaxInflight} \subseteq Nat

VARIABLES
    store,    \* store[n]: what n's processes read: clock, holdings, journal, watermarks
    disk,     \* disk[n]: the synced prefix of n's write-ahead log, as a store
    selfgen,  \* the meta row self_generation at the Origin
    pull,     \* pull[n][p]: n's peer loop for p
    plan,     \* plan[n]: a floor compact() computed and has not applied, or 0
    export,   \* {} or {the export holding self_write}
    image,    \* {} or {a disk image of the Origin}
    faults,   \* number of faults so far
    mint,     \* history: the greatest generation ever minted (the wall clock)
    stamped,  \* history: the greatest generation ever written to the Origin's clock
    vouched,  \* history: the generation whose numbering is the log's, or 0
    log       \* history: the rows exported on the Origin's present line of history

vars == <<store, disk, selfgen, pull, plan, export, image, faults,
          mint, stamped, vouched, log>>

-----------------------------------------------------------------------------
(* Data *)

Row == [seq : Nat, op : {"have", "drop"}, hash : Hash]

Store == [gen : Nat, seq : Nat, tail : Nat, held : SUBSET Hash,
          jour : SUBSET Row, wm : [Node -> Nat]]

NoStore == [gen |-> 0, seq |-> 0, tail |-> 0, held |-> {}, jour |-> {},
            wm |-> [p \in Node |-> 0]]

Phase == {"idle",       \* between rounds
          "asked",      \* the request is on its way
          "suffix",     \* the responder owes a journal suffix: clock read, rows not
          "snapshot",   \* the responder owes its holdings: clock read, rows not
          "line",       \* the Origin got a clock for its own stream
          "remint",     \* the Origin wrote a new self_generation, not yet its clock
          "gotSuffix",  \* a suffix arrived
          "commit",     \* apply_suffix checked it against the clock it read
          "gotSnapshot",
          "replacing"}  \* replace_holdings holds the stripe lock

(* hgen, hseq: the clock sent, later the clock expected; gen, seq: the clock *)
(* of the answer; rows, last: the suffix and its last seq; snap: the holdings. *)
Pull == [phase : Phase, hgen : Nat, hseq : Nat, gen : Nat, seq : Nat,
         rows : SUBSET Row, last : Nat, snap : SUBSET Hash]

Idle == [phase |-> "idle", hgen |-> 0, hseq |-> 0, gen |-> 0, seq |-> 0,
         rows |-> {}, last |-> 0, snap |-> {}]

Export == [gen : Nat, seq : Nat, op : {"have", "drop"}, hash : Hash]

Image == [rec : Store, selfgen : Nat, log : SUBSET Row]

Maximum(a, b) == IF a >= b THEN a ELSE b

(* What a set of rows leaves held: the hashes whose last event is a have. *)
Live(rows) ==
    {h \in Hash : \E r \in rows : /\ r.hash = h
                                  /\ r.op = "have"
                                  /\ \A q \in rows : q.hash = h => q.seq <= r.seq}

(* apply_holds: the last op per hash of the batch wins, other hashes stay. *)
ApplyHolds(held, rows) ==
    {h \in held : \A r \in rows : r.hash # h} \cup Live(rows)

(* apply_events: journal the rows, materialise them, move the clock. *)
ApplyEvents(s, gen, last, rows) ==
    [s EXCEPT !.gen = gen, !.seq = last,
              !.held = ApplyHolds(@, rows),
              !.jour = {r \in @ : \A q \in rows : q.seq # r.seq} \cup rows]

(* Some snapshot apply at n holds the stream's stripe lock. *)
Locked(n) == \E p \in Node : pull[n][p].phase = "replacing"

InFlight == {l \in Node \X Node : pull[l[1]][l[2]].phase # "idle"}

SetPull(n, p, q) == pull' = [pull EXCEPT ![n][p] = q]

-----------------------------------------------------------------------------
(* The exporter (Index::export_ops).  Haves come from the one differ, of    *)
(* hashes not held; drops from the differ and from retractions, which look *)
(* before they queue for self_write, so a drop may repeat another.  Rows    *)
(* are atomic per chunk; a chunk of one row is the finest interleaving.    *)

ExportBegin(op, h) ==
    /\ export = {}
    /\ store[Origin].seq < MaxSeq
    /\ op = "have" => h \notin store[Origin].held
    /\ export' = {[gen |-> store[Origin].gen, seq |-> store[Origin].seq,
                   op |-> op, hash |-> h]}
    /\ UNCHANGED <<store, disk, selfgen, pull, plan, image, faults,
                   mint, stamped, vouched, log>>

(* Mutant of ExportCommit: the commit does not wait for the log to sync.   *)
ExportCommitAsync(e) ==
    LET r == [seq |-> e.seq + 1, op |-> e.op, hash |-> e.hash] IN
    /\ e.gen = store[Origin].gen
    /\ e.seq = store[Origin].seq
    /\ store' = [store EXCEPT ![Origin] = ApplyEvents(@, e.gen, e.seq + 1, {r})]
    /\ log' = log \cup {r}
    /\ export' = {}
    /\ UNCHANGED <<disk, selfgen, pull, plan, image, faults, mint, stamped, vouched>>

(* The expect gate passes: the commit is durable, so it syncs the log. *)
ExportCommit(e) ==
    LET r == [seq |-> e.seq + 1, op |-> e.op, hash |-> e.hash] IN
    /\ e.gen = store[Origin].gen
    /\ e.seq = store[Origin].seq
    /\ store' = [store EXCEPT ![Origin] = ApplyEvents(@, e.gen, e.seq + 1, {r})]
    /\ disk' = [disk EXCEPT ![Origin] = store'[Origin]]
    /\ log' = log \cup {r}
    /\ export' = {}
    /\ UNCHANGED <<selfgen, pull, plan, image, faults, mint, stamped, vouched>>

(* A remint moved the clock since: the export bails. *)
ExportBail(e) ==
    /\ e.gen # store[Origin].gen \/ e.seq # store[Origin].seq
    /\ export' = {}
    /\ UNCHANGED <<store, disk, selfgen, pull, plan, image, faults,
                   mint, stamped, vouched, log>>

-----------------------------------------------------------------------------
(* One exchange of n's peer loop for p (Sync::pull_from_inner, handle_sync) *)

Ask(n, p) ==
    /\ <<n, p>> \in Links
    /\ pull[n][p].phase = "idle"
    /\ Cardinality(InFlight) < MaxInflight
    /\ SetPull(n, p, [Idle EXCEPT !.phase = "asked", !.hgen = store[n].gen,
                                  !.hseq = store[n].seq])
    /\ UNCHANGED <<store, disk, selfgen, plan, export, image, faults,
                   mint, stamped, vouched, log>>

(* Mutant of RecordWatermark: the last seq not seen, and never the maximum. *)
RecordWatermarkOffByOne(s, n, q) ==
    IF s.gen = q.hgen THEN [s EXCEPT !.wm[n] = q.hseq - 1] ELSE s

(* record_watermarks: the request's clock is an ack, on equal generations. *)
RecordWatermark(s, n, q) ==
    IF s.gen = q.hgen THEN [s EXCEPT !.wm[n] = Maximum(@, q.hseq)] ELSE s

(* Mutant of Reply: a clock one short of the tail still gets a suffix.     *)
ReplyPastTail(n, q, s) ==
    LET behind == q.hgen # s.gen \/ q.hseq < s.seq
        phase == IF n = Origin THEN "line"
                 ELSE IF q.hgen = s.gen /\ q.hseq + 1 >= s.tail THEN "suffix"
                 ELSE "snapshot"
    IN IF s.gen = 0 \/ q.hgen > s.gen \/ (n # Origin /\ ~behind)
       THEN Idle
       ELSE [q EXCEPT !.phase = phase, !.gen = s.gen, !.seq = s.seq]

(* respond: what the clock s says n should get.  The Origin uses nothing of *)
(* an answer about its own stream but the clock.                           *)
Reply(n, q, s) ==
    LET behind == q.hgen # s.gen \/ q.hseq < s.seq
        phase == IF n = Origin THEN "line"
                 ELSE IF q.hgen = s.gen /\ q.hseq >= s.tail THEN "suffix"
                 ELSE "snapshot"
    IN IF s.gen = 0 \/ q.hgen > s.gen \/ (n # Origin /\ ~behind)
       THEN Idle
       ELSE [q EXCEPT !.phase = phase, !.gen = s.gen, !.seq = s.seq]

HandleSync(n, p) ==
    /\ pull[n][p].phase = "asked"
    /\ store' = [store EXCEPT ![p] = RecordWatermark(@, n, pull[n][p])]
    /\ SetPull(n, p, Reply(n, pull[n][p], store[p]))
    /\ UNCHANGED <<disk, selfgen, plan, export, image, faults,
                   mint, stamped, vouched, log>>

(* journal_suffix: the rows after the asked seq, cut by bytes at any row.  *)
ReadSuffix(n, p) ==
    LET q == pull[n][p]
        rows == {r \in store[p].jour : r.seq > q.hseq}
    IN
    /\ q.phase = "suffix"
    /\ \/ /\ rows = {}
          /\ SetPull(n, p, Idle)
       \/ \E last \in {r.seq : r \in rows} :
            SetPull(n, p, [q EXCEPT !.phase = "gotSuffix", !.last = last,
                                    !.rows = {r \in rows : r.seq <= last}])
    /\ UNCHANGED <<store, disk, selfgen, plan, export, image, faults,
                   mint, stamped, vouched, log>>

ReadSnapshot(n, p) ==
    /\ pull[n][p].phase = "snapshot"
    /\ SetPull(n, p, [pull[n][p] EXCEPT !.phase = "gotSnapshot",
                                        !.snap = store[p].held])
    /\ UNCHANGED <<store, disk, selfgen, plan, export, image, faults,
                   mint, stamped, vouched, log>>

(* A timeout, a refused connection or a 5xx: the round ends, the loop retries. *)
PullFails(n, p) ==
    /\ pull[n][p].phase \in {"asked", "suffix", "snapshot"}
    /\ SetPull(n, p, Idle)
    /\ UNCHANGED <<store, disk, selfgen, plan, export, image, faults,
                   mint, stamped, vouched, log>>

-----------------------------------------------------------------------------
(* Applying an answer *)

(* The rows of q that are news to the clock of s, and whether they start    *)
(* right after it without a gap.                                           *)
News(q, s) == {r \in q.rows : r.seq > s.seq}
Connects(q, s) == {r.seq : r \in News(q, s)} = (s.seq + 1)..q.last

(* apply_suffix's generation test: stale relays and regenerated streams are *)
(* ignored, except that an untouched clock adopts any generation.          *)
Adoptable(q, s) == q.gen = s.gen \/ (q.gen > s.gen /\ s.gen = 0 /\ s.seq = 0)

(* apply_suffix up to the store call: read the clock, check, skip replays. *)
CheckSuffix(n, p) ==
    LET q == pull[n][p]
        s == store[n]
    IN
    /\ q.phase = "gotSuffix"
    /\ \/ /\ Adoptable(q, s) /\ News(q, s) # {} /\ Connects(q, s)
          /\ SetPull(n, p, [q EXCEPT !.phase = "commit", !.rows = News(q, s),
                                     !.hgen = s.gen, !.hseq = s.seq])
       \/ /\ ~(Adoptable(q, s) /\ News(q, s) # {} /\ Connects(q, s))
          /\ SetPull(n, p, Idle)
    /\ UNCHANGED <<store, disk, selfgen, plan, export, image, faults,
                   mint, stamped, vouched, log>>

(* apply_events under the stripe lock: nothing happens if the clock moved. *)
Expected(q, s) == q.hgen = s.gen /\ q.hseq = s.seq

CommitSuffix(n, p) ==
    LET q == pull[n][p] IN
    /\ q.phase = "commit"
    /\ ~Locked(n)
    /\ store' = IF Expected(q, store[n])
                THEN [store EXCEPT ![n] = ApplyEvents(@, q.gen, q.last, q.rows)]
                ELSE store
    /\ SetPull(n, p, Idle)
    /\ UNCHANGED <<disk, selfgen, plan, export, image, faults,
                   mint, stamped, vouched, log>>

(* Mutant of Stale: the generation is not compared.                        *)
StaleBySeq(q, s) == q.seq < s.seq

(* replace_holdings' stale test. *)
Stale(q, s) == q.gen < s.gen \/ (q.gen = s.gen /\ q.seq < s.seq)

(* Mutant of BeginReplace: the clock is written before the chunks.         *)
BeginReplaceClockFirst(n, p) ==
    LET q == pull[n][p] IN
    /\ q.phase = "gotSnapshot"
    /\ ~Locked(n)
    /\ IF Stale(q, store[n])
       THEN SetPull(n, p, Idle) /\ UNCHANGED store
       ELSE /\ SetPull(n, p, [q EXCEPT !.phase = "replacing"])
            /\ store' = [store EXCEPT ![n] = [@ EXCEPT !.gen = q.gen, !.seq = q.seq]]
    /\ UNCHANGED <<disk, selfgen, plan, export, image, faults,
                   mint, stamped, vouched, log>>

BeginReplace(n, p) ==
    /\ pull[n][p].phase = "gotSnapshot"
    /\ ~Locked(n)
    /\ SetPull(n, p, IF Stale(pull[n][p], store[n]) THEN Idle
                     ELSE [pull[n][p] EXCEPT !.phase = "replacing"])
    /\ UNCHANGED <<store, disk, selfgen, plan, export, image, faults,
                   mint, stamped, vouched, log>>

(* One BATCH_OPS chunk of the difference between the old set and the new. *)
ReplaceChunk(n, p) ==
    LET snap == pull[n][p].snap
        held == store[n].held
    IN
    /\ pull[n][p].phase = "replacing"
    /\ \E part \in SUBSET ((snap \ held) \cup (held \ snap)) :
         /\ part # {}
         /\ store' = [store EXCEPT ![n].held =
                        (held \ (part \ snap)) \cup (part \cap snap)]
    /\ UNCHANGED <<disk, selfgen, pull, plan, export, image, faults,
                   mint, stamped, vouched, log>>

(* A full batch of journal deletions written before the scan is over. *)
ReplaceTrim(n, p) ==
    /\ pull[n][p].phase = "replacing"
    /\ store[n].held = pull[n][p].snap
    /\ \E cut \in {r.seq : r \in store[n].jour} :
         store' = [store EXCEPT ![n].jour = {r \in @ : r.seq > cut}]
    /\ UNCHANGED <<disk, selfgen, pull, plan, export, image, faults,
                   mint, stamped, vouched, log>>

(* Mutant of FinishReplace: the clock moves before every chunk has landed. *)
FinishReplaceEarly(n, p) ==
    LET q == pull[n][p] IN
    /\ q.phase = "replacing"
    /\ store' = [store EXCEPT ![n] = [@ EXCEPT !.gen = q.gen, !.seq = q.seq,
                                               !.tail = q.seq, !.jour = {}]]
    /\ SetPull(n, p, Idle)
    /\ UNCHANGED <<disk, selfgen, plan, export, image, faults,
                   mint, stamped, vouched, log>>

(* Mutant of FinishReplace: the journal of the replaced history stays.     *)
FinishReplaceKeepsJournal(n, p) ==
    LET q == pull[n][p] IN
    /\ q.phase = "replacing"
    /\ store[n].held = q.snap
    /\ store' = [store EXCEPT ![n] = [@ EXCEPT !.gen = q.gen, !.seq = q.seq,
                                               !.tail = q.seq]]
    /\ SetPull(n, p, Idle)
    /\ UNCHANGED <<disk, selfgen, plan, export, image, faults,
                   mint, stamped, vouched, log>>

(* The final batch: the remaining deletions and the clock, written last. *)
FinishReplace(n, p) ==
    LET q == pull[n][p] IN
    /\ q.phase = "replacing"
    /\ store[n].held = q.snap
    /\ store' = [store EXCEPT ![n] = [@ EXCEPT !.gen = q.gen, !.seq = q.seq,
                                               !.tail = q.seq, !.jour = {}]]
    /\ SetPull(n, p, Idle)
    /\ UNCHANGED <<disk, selfgen, plan, export, image, faults,
                   mint, stamped, vouched, log>>

-----------------------------------------------------------------------------
(* Self-clock regression: the Origin learns of a future of its own stream   *)
(* and remints its generation, the meta row first, the clock second.       *)

Future(q, s) == q.gen > s.gen \/ (q.gen = s.gen /\ q.seq > s.seq)

NoticeFuture(p) ==
    LET q == pull[Origin][p] IN
    /\ q.phase = "line"
    /\ \/ /\ Future(q, store[Origin])
          /\ mint < MaxMint
          /\ mint' = mint + 1
          /\ selfgen' = mint + 1
          /\ disk' = [disk EXCEPT ![Origin] = store[Origin]]
          /\ SetPull(Origin, p, [Idle EXCEPT !.phase = "remint", !.gen = mint + 1])
       \/ /\ ~Future(q, store[Origin])
          /\ SetPull(Origin, p, Idle)
          /\ UNCHANGED <<mint, selfgen, disk>>
    /\ UNCHANGED <<store, plan, export, image, faults, stamped, vouched, log>>

(* set_generation: seq, tail, journal and holdings stay.  The history      *)
(* variables follow: a generation never used before names the present log; *)
(* going back to a used one vouches for nothing.                           *)
Stamp(s, gen) ==
    /\ store' = [store EXCEPT ![Origin] = [s EXCEPT !.gen = gen]]
    /\ disk' = [disk EXCEPT ![Origin] = [s EXCEPT !.gen = gen]]
    /\ stamped' = Maximum(stamped, gen)

StampGeneration(p) ==
    LET g == pull[Origin][p].gen IN
    /\ pull[Origin][p].phase = "remint"
    /\ Stamp(store[Origin], g)
    /\ vouched' = IF g > stamped THEN g ELSE 0
    /\ SetPull(Origin, p, Idle)
    /\ UNCHANGED <<selfgen, plan, export, image, faults, mint, log>>

-----------------------------------------------------------------------------
(* Compaction (Index::compact, SyncStore::compact_journal) *)

Acked(n) == {store[n].seq} \cup {store[n].wm[p] : p \in Peers[n]}
Backstopped(s) == IF s.seq > Backstop THEN s.seq - Backstop ELSE 0

(* f is the least watermark, raised to the backstop. *)
IsFloor(n, f) ==
    LET b == Backstopped(store[n]) IN
    \/ f = b /\ \E a \in Acked(n) : a <= b
    \/ f > b /\ f \in Acked(n) /\ \A a \in Acked(n) : f <= a

PlanCompaction(n) ==
    /\ plan[n] = 0
    /\ \E f \in (store[n].tail + 1)..store[n].seq :
         IsFloor(n, f) /\ plan' = [plan EXCEPT ![n] = f]
    /\ UNCHANGED <<store, disk, selfgen, pull, export, image, faults,
                   mint, stamped, vouched, log>>

CompactTo(s, f) ==
    IF f > s.tail
    THEN [s EXCEPT !.tail = f,
                   !.jour = {r \in @ : ~(s.tail < r.seq /\ r.seq <= f)}]
    ELSE s

CompactJournal(n) ==
    /\ plan[n] # 0
    /\ ~Locked(n)
    /\ store' = [store EXCEPT ![n] = CompactTo(@, plan[n])]
    /\ plan' = [plan EXCEPT ![n] = 0]
    /\ UNCHANGED <<disk, selfgen, pull, export, image, faults,
                   mint, stamped, vouched, log>>

-----------------------------------------------------------------------------
(* Faults and restarts *)

Strikes(kind) == kind \in Faults /\ faults < MaxFaults /\ faults' = faults + 1

(* n's process is gone: its loops, its exporter, its compaction pass, and   *)
(* the exchanges it was still answering.                                   *)
Forget(n) ==
    /\ pull' = [m \in Node |-> [p \in Node |->
                  IF m = n \/ (p = n /\ pull[m][p].phase \in {"asked", "suffix", "snapshot"})
                  THEN Idle ELSE pull[m][p]]]
    /\ plan' = [plan EXCEPT ![n] = 0]
    /\ export' = IF n = Origin THEN {} ELSE export

(* Index::open on what survived, s: the meta row is stamped onto the clock. *)
Reopen(n, s) ==
    \/ /\ n = Origin
       /\ Stamp(s, selfgen)
       /\ vouched' = IF selfgen = s.gen THEN vouched
                     ELSE IF selfgen > stamped THEN selfgen ELSE 0
    \/ /\ n # Origin
       /\ store' = [store EXCEPT ![n] = s]
       /\ UNCHANGED <<disk, stamped, vouched>>

(* The process dies; the page cache, hence every written batch, survives. *)
Crash(n) ==
    /\ Strikes("crash")
    /\ Forget(n)
    /\ Reopen(n, store[n])
    /\ UNCHANGED <<selfgen, image, mint, log>>

(* The write-ahead log reaches the disk up to now (any synchronous write   *)
(* of this store, of whatever stream, or writeback).                       *)
Flush(n) ==
    /\ "hostcrash" \in Faults /\ faults < MaxFaults
    /\ disk[n] # store[n]
    /\ disk' = [disk EXCEPT ![n] = store[n]]
    /\ UNCHANGED <<store, selfgen, pull, plan, export, image, faults,
                   mint, stamped, vouched, log>>

(* Power loss: the store comes back as the synced prefix of its log. *)
HostCrash(n) ==
    /\ Strikes("hostcrash")
    /\ Forget(n)
    /\ Reopen(n, disk[n])
    /\ UNCHANGED <<selfgen, image, mint, log>>

(* /var/cache is gone: a replica starts from nothing.                      *)
LoseReplica(n) ==
    /\ n # Origin
    /\ Strikes("replicaloss")
    /\ Forget(n)
    /\ store' = [store EXCEPT ![n] = NoStore]
    /\ disk' = [disk EXCEPT ![n] = NoStore]
    /\ UNCHANGED <<selfgen, image, mint, stamped, vouched, log>>

(* The Origin without its store mints a generation and a new history.      *)
LoseOrigin ==
    LET g == mint + 1 IN
    /\ g <= MaxMint
    /\ Strikes("originloss")
    /\ Forget(Origin)
    /\ Stamp(NoStore, g)
    /\ mint' = g /\ selfgen' = g /\ vouched' = g
    /\ log' = {}
    /\ UNCHANGED image

TakeImage ==
    /\ "restore" \in Faults /\ faults < MaxFaults
    /\ image = {}
    /\ image' = {[rec |-> store[Origin], selfgen |-> selfgen, log |-> log]}
    /\ UNCHANGED <<store, disk, selfgen, pull, plan, export, faults,
                   mint, stamped, vouched, log>>

(* The Origin restarts from the image: what it exported since is forgotten *)
(* here and remembered by whoever pulled it.                               *)
RestoreImage(im) ==
    /\ Strikes("restore")
    /\ Forget(Origin)
    /\ Stamp(im.rec, im.selfgen)
    /\ selfgen' = im.selfgen
    /\ vouched' = 0
    /\ log' = im.log
    /\ UNCHANGED <<image, mint>>

-----------------------------------------------------------------------------

Init ==
    /\ store = [n \in Node |-> IF n = Origin THEN [NoStore EXCEPT !.gen = 1] ELSE NoStore]
    /\ disk = store
    /\ selfgen = 1
    /\ pull = [n \in Node |-> [p \in Node |-> Idle]]
    /\ plan = [n \in Node |-> 0]
    /\ export = {}
    /\ image = {}
    /\ faults = 0
    /\ mint = 1
    /\ stamped = 1
    /\ vouched = 1
    /\ log = {}

Exporter ==
    \/ \E op \in {"have", "drop"}, h \in Hash : ExportBegin(op, h)
    \/ \E e \in export : ExportCommit(e) \/ ExportBail(e)

Exchange(n, p) ==
    Ask(n, p) \/ HandleSync(n, p) \/ ReadSuffix(n, p) \/ ReadSnapshot(n, p) \/ PullFails(n, p)

Apply(n, p) ==
    \/ CheckSuffix(n, p) \/ CommitSuffix(n, p)
    \/ BeginReplace(n, p) \/ ReplaceChunk(n, p) \/ ReplaceTrim(n, p) \/ FinishReplace(n, p)

Remint(p) == NoticeFuture(p) \/ StampGeneration(p)

Maintain(n) == PlanCompaction(n) \/ CompactJournal(n)

Fault ==
    \/ \E n \in Node : Crash(n) \/ Flush(n) \/ HostCrash(n) \/ LoseReplica(n)
    \/ LoseOrigin
    \/ TakeImage
    \/ \E im \in image : RestoreImage(im)

Next ==
    \/ Exporter
    \/ \E n \in Node, p \in Node : Exchange(n, p) \/ Apply(n, p)
    \/ \E p \in Node : Remint(p)
    \/ \E n \in Node : Maintain(n)
    \/ Fault

Spec == Init /\ [][Next]_vars

(* What the schedule owes: every loop asks again (peer_loop's timer; strong *)
(* because MaxInflight, which couples the loops, is a bound of the model), *)
(* a peer asked over and over answers sometimes, and what has been received *)
(* is applied.  Nothing is owed by the exporter, compaction or faults.     *)
Fairness ==
    /\ \A l \in Links : LET n == l[1] p == l[2] IN
         /\ SF_vars(Ask(n, p))
         /\ SF_vars(HandleSync(n, p))
         /\ SF_vars(ReadSuffix(n, p) \/ ReadSnapshot(n, p))
         /\ WF_vars(Apply(n, p))
    /\ \A p \in Node : WF_vars(Remint(p))

FairSpec == Spec /\ Fairness

-----------------------------------------------------------------------------
(* Properties *)

TypeOK ==
    /\ store \in [Node -> Store]
    /\ disk \in [Node -> Store]
    /\ selfgen \in Nat
    /\ pull \in [Node -> [Node -> Pull]]
    /\ plan \in [Node -> Nat]
    /\ export \subseteq Export
    /\ image \subseteq Image
    /\ faults \in Nat
    /\ mint \in Nat
    /\ stamped \in Nat
    /\ vouched \in Nat
    /\ log \subseteq Row

(* A generation about which the history makes a claim.                     *)
Vouched(gen) == gen # 0 /\ gen = vouched

(* A possession set read at seq may be torn between seq and the present,   *)
(* but is exact on every hash with no event in rows after seq.             *)
Settled(held, seq, rows) ==
    \A h \in Hash : (\A r \in rows : r.hash = h => r.seq <= seq)
                    => (h \in held <=> h \in Live(rows))

Faithful(s) ==
    Vouched(s.gen) => /\ s.seq <= store[Origin].seq
                      /\ s.jour \subseteq log
                      /\ Settled(s.held, s.seq, log)

(* No interleaving of torn responses, replayed suffixes, chunked snapshot   *)
(* applies, compaction, crashes and remints leaves a replica that follows   *)
(* the Origin's numbering with a phantom journal row, or with a holding     *)
(* that later events will not correct ("a replica can only forget, never    *)
(* diverge": index.rs apply_suffix, rocks.rs module docs).                 *)
ReplicasFaithful == \A n \in Node : Faithful(store[n])

(* A replica whose clock equals the Origin's advertises exactly what the    *)
(* Origin holds: "up to date" answers never hide a difference (index.rs     *)
(* respond_budgeted).                                                      *)
HeadIsExact ==
    \A n \in Node :
        (/\ Vouched(store[n].gen)
         /\ store[n].gen = store[Origin].gen
         /\ store[n].seq = store[Origin].seq)
        => store[n].held = store[Origin].held

(* "A seq a peer has observed must never be reissued with different events" *)
(* (rocks.rs, store/mod.rs apply_events): while the Origin keeps a          *)
(* generation its history only grows, whatever crashes.                    *)
SeqsNeverReissued ==
    [][store'[Origin].gen = store[Origin].gen
         => /\ store[Origin].seq <= store'[Origin].seq
            /\ log \subseteq log']_vars

SameAs(n, m) == /\ store[n].gen = store[m].gen
                /\ store[n].seq = store[m].seq
                /\ store[n].held = store[m].held

(* Once the exporter and the faults are spent (both are bounded here), every *)
(* node reached from the Origin over the links ends up holding its set,    *)
(* though relays snapshot, compact and hand out truncated suffixes.        *)
Converges == <>[](\A n \in Node : SameAs(n, Origin))

(* What all of the above amounts to: a node on a vouched generation stands  *)
(* in the history of the Origin, and moves back only when a store is lost. *)
Follows(n) == Vouched(store[n].gen)

Mesh == INSTANCE Replication WITH
    Rollback <- Faults \cap {"hostcrash", "replicaloss"} # {},
    Rebirth <- Faults \cap {"originloss", "restore"} # {},
    log <- IF vouched = 0 THEN {} ELSE log,
    pos <- [n \in Node |-> IF Follows(n) THEN store[n].seq ELSE 0],
    view <- [n \in Node |-> IF Follows(n) THEN store[n].held ELSE {}]

(* The protocol implements Replication: whatever two-step answers, chunks,  *)
(* relays, compactions, late commits and crashes do, a replica only ever   *)
(* moves forward in the history, and each time to a view that is right up  *)
(* to where it stands (store/mod.rs apply_events and replace_holdings).    *)
ImplementsReplication == Mesh!Spec

=============================================================================
