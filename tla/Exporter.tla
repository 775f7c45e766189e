------------------------------ MODULE Exporter ------------------------------
(***************************************************************************)
(* The exporting half of a node: the Nix database it reads, the differ     *)
(* that turns the rows into published events (index.rs sync_own_db, sync.rs*)
(* export_own_db and own_db_loop), the lookup of a NAR by its hash for a   *)
(* peer's request (db.rs by_nar_hash), the retraction of a hold that such  *)
(* a request found stale, and the hints that make peers pull.              *)
(*                                                                         *)
(* Nix commits at any moment between two steps of any of these.  All of    *)
(* them read the database through one connection, so each query is one     *)
(* step; what lies between two queries is where the code can be wrong.     *)
(*                                                                         *)
(* What the peers keep of the events is Possession's subject; of a peer    *)
(* this module knows only whether it has pulled all that was published.    *)
(***************************************************************************)
EXTENDS Naturals, FiniteSets, FiniteSetsExt

CONSTANTS
    Path,        \* store paths
    First,       \* the path that is there when the node starts
    Signed,      \* the paths registered with a signature or as content-addressed
    Hash,        \* NAR hashes; two paths may have the same one
    Peer,        \* nodes that pull from this one
    Request,     \* slots for requests by NAR hash
    Wanted,      \* the hash they ask for: the map is kept for it only
    Chunk,       \* EXPORT_CHUNK: events written in one batch
    MaxCommits,  \* bound: commits of Nix
    MaxFaults,   \* bound: failed diffs and crashes
    None         \* no path, no snapshot, no task

ASSUME ExporterAssumption ==
    /\ Chunk \in Nat \ {0}
    /\ MaxCommits \in Nat
    /\ MaxFaults \in Nat
    /\ First \in Path /\ Signed \subseteq Path /\ Wanted \in Hash /\ None \notin Path /\ None \notin Nat

VARIABLES
    rows,       \* ValidPaths: [id, path, hash, vouched], vouched: signed or CA
    nextId,     \* the next id (AUTOINCREMENT)
    version,    \* data_version: the number of commits
    changed,    \* an inotify event is waiting
    held,       \* the hashes our own origin holds
    facts,      \* the attested claims <<path, hash>>
    unseen,     \* history: hashes retracted and not added since, which no
                \* finished scan has looked at
    seen,       \* last_data_version; 0 is i64::MIN
    state,      \* diff_state: None, or the watermark max_id
    due,        \* reconcile_every has passed since the last full diff
    ex,         \* the own-db loop: its step and what it carries
    map,        \* nar_index: None, or [version, path]
    req,        \* the requests by NAR hash
    retract,    \* a spawned retraction of Wanted: None, "check" or "drop"
    hintSlot,   \* hint_tx holds a hint
    hints,      \* peers with a hint on its way
    kick,       \* peers with a kick waiting in their channel
    pull,       \* peer -> its pull; an answer under way may have become stale
    knows,      \* peers that have applied all that is published
    owed,       \* history: peers hinted since they last got an answer
    faults      \* failed diffs and crashes so far

nix == <<rows, nextId, version>>
store == <<held, facts, unseen>>
loop == <<seen, state, due, ex>>
serving == <<map, req, retract>>
hinting == <<hintSlot, hints>>
peers == <<kick, pull, knows, owed>>
vars == <<nix, changed, store, loop, serving, hinting, peers, faults>>

HashesOf(rs) == {r.hash : r \in rs}
Vouched(rs) == {<<r.path, r.hash>> : r \in {x \in rs : x.vouched}}
RowsOf(p) == {r \in rows : r.path = p}
RowsHolding(h) == {r \in rows : r.hash = h}
MaxIdOf(rs) == IF rs = {} THEN 0 ELSE Max({r.id : r \in rs})

At(step) == [at |-> step, v |-> 0, mark |-> 0, full |-> FALSE,
             cands |-> {}, atts |-> {}, adds |-> {}, drops |-> {},
             wrote |-> FALSE, cut |-> {}]
NoRequest == [at |-> "idle", path |-> None, fresh |-> FALSE, snap |-> None]

\* The node starts on a database with content.  Requests and pulls touch only
\* at what the node publishes, so a behaviour has one or the other:
\* either no peer asks for content, or none can be reached for a pull.
Off == [NoRequest EXCEPT !.at = "off"]
Init ==
    /\ rows = {[id |-> 1, path |-> First, hash |-> Wanted,
                vouched |-> First \in Signed]}
    /\ nextId = 2 /\ version = 1 /\ changed = FALSE
    /\ held = {} /\ facts = {} /\ unseen = {}
    /\ seen = 0 /\ state = None /\ due = FALSE /\ ex = At("sample")
    /\ map = None
    /\ \E pulls \in BOOLEAN :
          /\ req = [r \in Request |-> IF pulls THEN Off ELSE NoRequest]
          /\ pull = [p \in Peer |-> IF pulls THEN "idle" ELSE "off"]
    /\ retract = None
    /\ hintSlot = FALSE /\ hints = {}
    /\ kick = {} /\ knows = {} /\ owed = {}
    /\ faults = 0

-----------------------------------------------------------------------------
(* Nix, outside the program: each commit moves data_version and writes the *)
(* WAL, so inotify fires.                                                  *)

Commit(rs) ==
    /\ version <= MaxCommits
    /\ rows' = rs
    /\ version' = version + 1
    /\ changed' = TRUE
    /\ UNCHANGED <<store, loop, serving, hinting, peers, faults>>

Register(p, h) ==
    /\ RowsOf(p) = {}
    /\ Commit(rows \cup {[id |-> nextId, path |-> p, hash |-> h,
                        vouched |-> p \in Signed]})
    /\ nextId' = nextId + 1

Collect(p) ==
    /\ RowsOf(p) # {}
    /\ Commit(rows \ RowsOf(p))
    /\ UNCHANGED nextId

Sign(p) ==
    /\ \E r \in RowsOf(p) :
          ~r.vouched /\ Commit((rows \ {r}) \cup {[r EXCEPT !.vouched = TRUE]})
    /\ UNCHANGED nextId

-----------------------------------------------------------------------------
(* The own-db loop.  It diffs once at start, and then whenever an event    *)
(* arrives (a burst is drained) or the reconciliation deadline passes; a   *)
(* diff that never succeeded leaves the deadline in the past.              *)

Quiet == UNCHANGED <<nix, serving, peers, faults>>

\* Something new is published: no peer knows all, and the answers under way
\* do not have it.
Publish ==
    /\ knows' = {}
    /\ pull' = [p \in Peer |-> IF pull[p] = "fresh" THEN "stale" ELSE pull[p]]
    /\ UNCHANGED <<kick, owed>>

Elapse ==
    /\ state # None /\ ~due
    /\ due' = TRUE
    /\ UNCHANGED <<changed, store, seen, state, ex, hinting>> /\ Quiet

Wake ==
    /\ ex.at = "idle"
    /\ changed \/ due \/ state = None
    /\ ex' = At("sample")
    /\ changed' = FALSE
    /\ UNCHANGED <<store, seen, state, due, hinting>> /\ Quiet

\* Mutant of GateShut: a quiet database is skipped even when a full diff is due.
GateShutWhileQuiet == state # None /\ version = seen
\* The gate: an unchanged version is skipped, unless a full diff is due.
GateShut == state # None /\ ~due /\ version = seen

Sample ==
    /\ ex.at = "sample"
    /\ ex' = IF GateShut
             THEN At("idle")
             ELSE [At(IF state = None \/ due THEN "mark" ELSE "additions")
                   EXCEPT !.v = version]
    /\ UNCHANGED <<changed, store, seen, state, due, hinting>> /\ Quiet

\* A full diff reads the watermark first and the candidates after it.
Mark ==
    /\ ex.at = "mark"
    /\ ex' = [ex EXCEPT !.at = "scan", !.mark = MaxIdOf(rows), !.full = TRUE]
    /\ UNCHANGED <<changed, store, seen, state, due, hinting>> /\ Quiet

Scan ==
    /\ ex.at = "scan"
    /\ ex' = [ex EXCEPT !.at = "diff", !.cands = rows]
    /\ UNCHANGED <<changed, store, seen, state, due, hinting>> /\ Quiet

\* An incremental diff reads the rows above the watermark and the table's
\* highest id in one snapshot.
Additions ==
    /\ ex.at = "additions"
    /\ ex' = [ex EXCEPT !.at = "diff",
                        !.cands = {r \in rows : r.id > state},
                        !.mark = MaxIdOf(rows)]
    /\ UNCHANGED <<changed, store, seen, state, due, hinting>> /\ Quiet

\* What the store does not have yet; only a full diff sees what is gone.
Diff ==
    /\ ex.at = "diff"
    /\ ex' = [ex EXCEPT !.at = "write",
                        !.cands = {},
                        !.atts = Vouched(ex.cands) \ facts,
                        !.adds = HashesOf(ex.cands) \ held,
                        !.drops = IF ex.full THEN held \ HashesOf(ex.cands)
                                             ELSE {}]
    /\ UNCHANGED <<changed, store, seen, state, due, hinting>> /\ Quiet

Pending == ex.atts # {} \/ ex.adds # {} \/ ex.drops # {}
InExport == ex.at = "write" /\ ex.wrote /\ Pending    \* self_write is taken

\* One chunk: attestations before holds, written and numbered atomically.
Batch ==
    {b \in [atts : SUBSET ex.atts, adds : SUBSET ex.adds, drops : SUBSET ex.drops] :
        LET n == Cardinality(b.atts) + Cardinality(b.adds) + Cardinality(b.drops)
        IN  /\ n = Min({Chunk, Cardinality(ex.atts) + Cardinality(ex.adds)
                                  + Cardinality(ex.drops)})
            /\ b.atts = ex.atts \/ (b.adds = {} /\ b.drops = {})}

WriteChunk ==
    /\ ex.at = "write" /\ Pending
    /\ \E b \in Batch :
          /\ held' = (held \cup b.adds) \ b.drops
          /\ facts' = facts \cup b.atts
          /\ unseen' = unseen \ b.adds
          /\ ex' = [ex EXCEPT !.atts = @ \ b.atts, !.adds = @ \ b.adds,
                              !.drops = @ \ b.drops, !.wrote = TRUE,
                              !.cut = @ \ b.adds]
    /\ Publish
    /\ UNCHANGED <<nix, changed, seen, state, due, serving, hinting, faults>>

\* The state of a diff is kept when all of it was written; a diff that
\* published something hints.
Conclude(mark, v) ==
    /\ ex.at = "write" /\ ~Pending
    /\ state' = mark
    /\ seen' = v
    /\ due' = (due /\ ~ex.full)
    /\ unseen' = IF ex.full THEN ex.cut ELSE unseen
    /\ hintSlot' = (hintSlot \/ ex.wrote)
    /\ ex' = At("idle")
    /\ UNCHANGED <<changed, held, facts, hints>> /\ Quiet
\* Mutant of Finish: the version is sampled after the diff.
FinishAtLatestVersion == Conclude(ex.mark, version)
Finish == Conclude(ex.mark, ex.v)

\* A query or a batch fails (the database is busy, the disk is full, the
\* origin's generation was reminted under the export): the loop goes on
\* with the state it had, and what was written stays.
FailDiff ==
    /\ ex.at # "idle" /\ faults < MaxFaults
    /\ ex' = At("idle")
    /\ faults' = faults + 1
    /\ UNCHANGED <<nix, changed, store, seen, state, due, serving, hinting, peers>>

-----------------------------------------------------------------------------
(* by_nar_hash: a request of a peer for the content of a hash.             *)

\* The last row of the scan wins.
Newest == CHOOSE p \in {r.path : r \in RowsHolding(Wanted)} :
             \E r \in RowsOf(p) : \A s \in RowsHolding(Wanted) : s.id <= r.id
Snapshot == [version |-> version,
             path |-> IF RowsHolding(Wanted) = {} THEN None ELSE Newest]
HashAt(p) == IF RowsOf(p) = {} THEN None ELSE (CHOOSE r \in RowsOf(p) : TRUE).hash

Serve(r, new) ==
    /\ req' = [req EXCEPT ![r] = new]
    /\ UNCHANGED <<nix, changed, store, loop, hinting, peers, faults>>

\* A row was found, or the content is gone: 410 Gone, and the retraction of
\* the hash is spawned (content_gone).
Answer(r, found) ==
    /\ retract' = IF ~found /\ retract = None THEN "check" ELSE retract
    /\ Serve(r, NoRequest)
Go(r, new) == retract' = retract /\ Serve(r, new)

Ask(r) ==
    /\ req[r].at = "idle"
    /\ Go(r, [NoRequest EXCEPT !.at = "probe"])
    /\ UNCHANGED map

\* The map is probed, and its version compared, under the map's lock.
Probe(r) ==
    LET hit == IF map = None THEN None ELSE map.path
        fresh == map # None /\ map.version = version
    IN  /\ req[r].at = "probe"
        /\ CASE hit # None -> Go(r, [req[r] EXCEPT !.at = "confirm", !.path = hit,
                                                   !.fresh = fresh])
             [] hit = None /\ fresh -> Answer(r, FALSE)
             [] OTHER -> Go(r, [req[r] EXCEPT !.at = "rebuild"])
        /\ UNCHANGED map

\* A hit is read again; one that fails is a miss of the map.
Confirm(r) ==
    /\ req[r].at = "confirm"
    /\ CASE HashAt(req[r].path) = Wanted -> Answer(r, TRUE)
         [] HashAt(req[r].path) # Wanted /\ req[r].fresh -> Answer(r, FALSE)
         [] OTHER -> Go(r, [req[r] EXCEPT !.at = "rebuild", !.path = None])
    /\ UNCHANGED map

\* Rebuilds are rate-limited: within the interval one exact scan answers.
ScanOnce(r) ==
    /\ req[r].at = "rebuild" /\ map # None
    /\ Answer(r, RowsHolding(Wanted) # {})
    /\ UNCHANGED map

ReadAll(r) ==
    /\ req[r].at = "rebuild"
    /\ Go(r, [req[r] EXCEPT !.at = "swap", !.snap = Snapshot])
    /\ UNCHANGED map

Swap(r) ==
    /\ req[r].at = "swap"
    /\ map' = req[r].snap
    /\ Go(r, [req[r] EXCEPT !.at = "reread", !.snap = None])

\* The map, by then perhaps another request's, is read again, and its path
\* looked up without a look at its hash.
Reread(r) ==
    /\ req[r].at = "reread"
    /\ IF map.path = None
       THEN Answer(r, FALSE)
       ELSE Go(r, [req[r] EXCEPT !.at = "fetch", !.path = map.path])
    /\ UNCHANGED map

FetchRow(r) ==
    /\ req[r].at = "fetch"
    /\ Answer(r, RowsOf(req[r].path) # {})
    /\ UNCHANGED map

\* retract_hold: is_held is read before the lock the drop is written under.
CheckHold ==
    /\ retract = "check"
    /\ retract' = IF Wanted \in held THEN "drop" ELSE None
    /\ UNCHANGED <<nix, changed, store, loop, map, req, hinting, peers, faults>>

DropHold ==
    /\ retract = "drop" /\ ~InExport
    /\ held' = held \ {Wanted}
    /\ unseen' = unseen \cup {Wanted}
    /\ ex' = IF ex.at = "write" THEN [ex EXCEPT !.cut = @ \cup {Wanted}] ELSE ex
    /\ retract' = None
    /\ Publish
    /\ UNCHANGED <<nix, changed, facts, seen, state, due, map, req, hinting, faults>>

-----------------------------------------------------------------------------
(* Hints and pulls.  Every channel holds one item; a send to a full one is *)
(* dropped.                                                                *)

Reachable == {p \in Peer : pull[p] # "off"}
Elsewhere == UNCHANGED <<nix, changed, store, loop, serving, faults>>

\* hint_loop: one task for each peer whose breaker is closed; a hint may be
\* lost like any message.
FanOut ==
    /\ hintSlot
    /\ hintSlot' = FALSE
    /\ \E reached \in SUBSET Reachable : hints' = hints \cup reached
    /\ UNCHANGED peers /\ Elsewhere

\* handle_hint at the peer.
HandleHint(p) ==
    /\ p \in hints
    /\ hints' = hints \ {p}
    /\ kick' = kick \cup {p}
    /\ owed' = owed \cup {p}
    /\ UNCHANGED <<hintSlot, pull, knows>> /\ Elsewhere

\* peer_loop: a kick is taken, and all like it, before the pull it causes.
StartPull(p) ==
    /\ pull[p] = "idle"
    /\ pull' = [pull EXCEPT ![p] = "asking"]
    /\ UNCHANGED <<knows, owed, hinting>> /\ Elsewhere
KickedPull(p) == p \in kick /\ kick' = kick \ {p} /\ StartPull(p)
TimedPull(p) == kick' = kick /\ StartPull(p)

\* The answer has all that is published when it is made.
Respond(p) ==
    /\ pull[p] = "asking"
    /\ pull' = [pull EXCEPT ![p] = "fresh"]
    /\ owed' = owed \ {p}
    /\ UNCHANGED <<kick, knows, hinting>> /\ Elsewhere

EndPull(p, kicks) ==
    /\ pull[p] \in {"fresh", "stale"}
    /\ pull' = [pull EXCEPT ![p] = "idle"]
    /\ knows' = IF pull[p] = "fresh" THEN knows \cup {p} ELSE knows
    /\ kick' = kicks
    /\ UNCHANGED <<owed, hinting>> /\ Elsewhere
\* Mutant of Apply: the channel is drained after the pull.
ApplyAndDrain(p) == EndPull(p, kick \ {p})
Apply(p) == EndPull(p, kick)

\* A pull that fails is left to the timer, or to the next hint.
FailPull(p) ==
    /\ pull[p] \notin {"idle", "off"} /\ faults < MaxFaults
    /\ pull' = [pull EXCEPT ![p] = "idle"]
    /\ owed' = owed \ {p}
    /\ faults' = faults + 1
    /\ UNCHANGED <<nix, changed, store, loop, serving, kick, knows, hinting>>

\* The process stops and starts again: the store, written durably, stays.
Crash ==
    /\ faults < MaxFaults
    /\ faults' = faults + 1
    /\ changed' = FALSE
    /\ seen' = 0 /\ state' = None /\ due' = FALSE /\ ex' = At("sample")
    /\ map' = None
    /\ req' = [r \in Request |-> IF req[r] = Off THEN Off ELSE NoRequest]
    /\ retract' = None
    /\ hintSlot' = FALSE /\ hints' = {}
    /\ UNCHANGED <<nix, store, peers>>

-----------------------------------------------------------------------------
Differ == Elapse \/ Wake \/ Sample \/ Mark \/ Scan \/ Additions \/ Diff
             \/ WriteChunk \/ Finish
Lookup(r) == Probe(r) \/ Confirm(r) \/ ScanOnce(r) \/ ReadAll(r) \/ Swap(r)
                \/ Reread(r) \/ FetchRow(r)
Retract == CheckHold \/ DropHold
Pull(p) == KickedPull(p) \/ Respond(p) \/ Apply(p)

Next ==
    \/ \E p \in Path : Collect(p) \/ Sign(p)
    \/ \E p \in Path, h \in Hash : Register(p, h)
    \/ Differ \/ FailDiff \/ Crash
    \/ \E r \in Request : Ask(r) \/ Lookup(r)
    \/ Retract
    \/ FanOut
    \/ \E p \in Peer : HandleHint(p) \/ Pull(p) \/ TimedPull(p)
                         \/ FailPull(p)

Spec == Init /\ [][Next]_vars

\* The own-db loop runs and its deadline passes, and so do the peers' loops
\* and their timers.  Nix, requests, hints and faults owe nothing.
FairSpec ==
    /\ Spec
    /\ WF_vars(Differ)
    /\ \A p \in Peer : WF_vars(Pull(p) \/ TimedPull(p))

-----------------------------------------------------------------------------
\* Types; and no watermark or sampled version is ahead of what it counts
\* (db.rs:232-262).
TypeOK ==
    /\ \A r, s \in rows : r.path = s.path => r = s
    /\ rows \subseteq [id : 1..(nextId - 1), path : Path, hash : Hash, vouched : BOOLEAN]
    /\ version \in Nat /\ seen <= version /\ ex.v <= version
    /\ changed \in BOOLEAN /\ due \in BOOLEAN /\ hintSlot \in BOOLEAN
    /\ held \subseteq Hash /\ unseen \subseteq Hash /\ facts \subseteq Path \X Hash
    /\ state = None \/ state \in 0..(nextId - 1)
    /\ ex.at \in {"idle", "sample", "mark", "scan", "additions", "diff", "write"}
    /\ hints \subseteq Peer /\ kick \subseteq Peer /\ knows \subseteq Peer
    /\ owed \subseteq Peer
    /\ pull \in [Peer -> {"off", "idle", "asking", "fresh", "stale"}]
    /\ retract \in {None, "check", "drop"}

\* Nothing committed is overlooked: when the loop rests and the version it
\* last diffed is the current one, every row's hash is published, but for one
\* that a request found missing and retracted since, and so is every claim
\* that was believable already when its row was added.  The version is sampled before
\* the diff and the watermark read before the scan, so a commit that falls
\* between any two queries is looked at on the next wake (sync.rs:727-731,
\* 758-760).
ExportedWhenQuiet ==
    (ex.at = "idle" /\ state # None /\ seen = version) =>
        /\ HashesOf(rows) \subseteq held \cup unseen
        /\ Vouched({r \in rows : r.path \in Signed}) \subseteq facts

\* A hint that arrived is honoured: until an answer covers it, a kick waits or
\* a pull is still to be answered.  The channel of one slot is drained before
\* a pull, never after it (sync.rs:1367-1374); only a pull that fails leaves
\* the peer to its timer.
HintsAreHonoured == TypeOK /\ \A p \in owed : p \in kick \/ pull[p] = "asking"

\* In the end, when Nix rests, the published holdings are the hashes of the
\* database, every believable claim is published, and every peer has pulled
\* all of it: deletions and signatures added in place, which an incremental
\* diff cannot see, wait for the full diff, which runs although the database
\* is quiet (sync.rs:746-753).
Converges ==
    <>[](/\ held = HashesOf(rows)
         /\ Vouched(rows) \subseteq facts
         /\ Reachable \subseteq knows)
=============================================================================
