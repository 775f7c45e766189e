------------------------------- MODULE Facts -------------------------------
(***************************************************************************)
(* The fact table of a node and the two ways facts reach it besides the    *)
(* journal: the dump, one page per sync response, that a cursor persisted  *)
(* per peer resumes (index.rs respond, sync.rs pull_from_inner), and the   *)
(* reconciliation that compares roots and walks the tree to the subtrees   *)
(* that differ (sync.rs reconcile_loop and reconcile_facts).               *)
(*                                                                         *)
(* A fact is an identity with a set of signatures that only grows.  Its    *)
(* row is stored at the hash of its whole value, so a fact that gains a    *)
(* signature moves to another place of the key order, and tree and pages   *)
(* are read in that order.  Key gives the order; equal aggregates mean     *)
(* equal sets (a hash is never the XOR of others).                         *)
(***************************************************************************)
EXTENDS Integers, Sequences, FiniteSets, FiniteSetsExt, SequencesExt

CONSTANTS
    Node,
    Links,       \* the pairs <<n, p>> such that n pulls from p
    Fact,        \* identities: (hash part, NAR hash)
    Sig,         \* signatures
    Key,         \* Key[f][sigs]: the place of that row in key order, 1..Keys
    Keys,        \* the number of places
    Bucket,      \* places in a coarse bucket
    Known,       \* Known[n][f]: what n has at first
    Batches,     \* what a journal suffix or the differ may bring
    PageMax,     \* rows in a page (ATTS_PAGE_CAP, MERKLE_FACTS_CAP)
    CoarseMax,   \* RECONCILE_COARSE_MAX
    Wholesale,   \* RECONCILE_WHOLESALE
    FetchMax,    \* RECONCILE_FETCH_MAX
    Window,      \* RECONCILE_WINDOW
    Shaken,      \* the nodes that snapshots ship to and faults strike
    MaxTaught,   \* bound: batches
    MaxSnaps,    \* bound: possession snapshots, each restarting the dumps
    MaxFaults    \* bound: crashes of a host and failed exchanges

Table == [Fact -> SUBSET Sig]
Place == 1..Keys
ASSUME FactsAssumption ==
    /\ Links \subseteq Node \X Node
    /\ {Keys, Bucket, PageMax, CoarseMax, Wholesale, FetchMax, Window} \subseteq Nat \ {0}
    /\ {MaxTaught, MaxSnaps, MaxFaults} \subseteq Nat
    /\ Key \in [Fact -> [(SUBSET Sig) \ {{}} -> Place]]
    /\ \A f, g \in Fact, s, t \in (SUBSET Sig) \ {{}} :
          Key[f][s] = Key[g][t] => f = g /\ s = t
    /\ Known \in [Node -> Table] /\ Shaken \subseteq Node
    /\ Batches \subseteq Seq(Fact \X SUBSET Sig)

None == -1        \* no dump under way
Restart == 0      \* DUMP_RESTART: below every key

VARIABLES
    table,      \* node -> its facts; no signatures, no fact
    synced,     \* node -> the facts its log holds on disk
    agg,        \* node -> the aggregates, as the set of the places folded in
    delta,      \* node -> places committed and not yet folded in
    cursor,     \* node -> peer -> the persisted dump cursor
    pull,       \* link -> the round of the peer loop
    passed,     \* history: node -> peer -> places of the rows its cursor is past
    heard,      \* node -> peer -> the root it last reported, or {None}
    wake,       \* node -> a ping waits in the reconcile channel
    rec,        \* node -> the reconcile loop: the sweep and the walk it is in
    taught, snaps, faults

vars == <<table, synced, agg, delta, cursor, passed, pull, heard, wake, rec, taught,
          snaps, faults>>

-----------------------------------------------------------------------------
(* Rows, places and subtrees *)

Rows(t) == {Key[f][t[f]] : f \in {x \in Fact : t[x] # {}}}
Row(k) == CHOOSE r \in Fact \X ((SUBSET Sig) \ {{}}) : Key[r[1]][r[2]] = k
Delta(S, T) == (S \ T) \cup (T \ S)      \* XOR of two aggregates

CoarseOf(k) == (k - 1) \div Bucket
Places(c) == {k \in Place : CoarseOf(k) = c}
Coarse == {CoarseOf(k) : k \in Place}
Lowest(S, n) == {x \in S : Cardinality({y \in S : y < x}) < n}

\* Mutant of Moves: a batch is merged row by row against the table on disk,
\* each repeated row moving the fact in the tree once more.
MovesOneByOne(t, batch) ==
    FoldSeq(LAMBDA r, m :
              LET v == t[r[1]] \cup r[2]
              IN  IF v = t[r[1]] THEN m
                  ELSE Delta(m, Delta({Key[r[1]][v]},
                                      IF t[r[1]] = {} THEN {} ELSE {Key[r[1]][t[r[1]]]})),
            {}, batch)

\* merge_into and merge_atts: the rows of a batch are united with each other
\* first and with the table after it; a fact that changed leaves its old place.
Merged(t, batch) ==
    [f \in Fact |-> t[f] \cup UNION {r[2] : r \in {x \in ToSet(batch) : x[1] = f}}]
Moves(t, batch) == Delta(Rows(t), Rows(Merged(t, batch)))

\* The places are folded into the aggregates after the rows are committed.
Merge(n, batch) ==
    /\ table' = [table EXCEPT ![n] = Merged(@, batch)]
    /\ delta' = [delta EXCEPT ![n] = Delta(@, Moves(table[n], batch))]

\* attestation_page: the rows of a subtree after a cursor, in key order.
Page(p, subtree, after) ==
    LET rest == {k \in Rows(table[p]) \cap subtree : k > after}
        page == Lowest(rest, PageMax)
    IN  [rows |-> [i \in 1..Cardinality(page) |->
                      Row(CHOOSE k \in page : Cardinality({j \in page : j < k}) = i - 1)],
         next |-> IF rest = page THEN None ELSE Max(page)]

-----------------------------------------------------------------------------
Quiet == [at |-> "idle", cur |-> None, rows |-> <<>>, next |-> None,
          snap |-> FALSE, root |-> {}]
NoWalk == [at |-> "idle", left |-> {}, peer |-> None, ours |-> {},
           expand |-> {}, targets |-> <<>>]

Init ==
    /\ table = Known /\ synced = Known
    /\ agg = [n \in Node |-> Rows(Known[n])]
    /\ delta = [n \in Node |-> {}]
    /\ cursor = [n \in Node |-> [p \in Node |-> None]]
    /\ passed = [n \in Node |-> [p \in Node |-> {}]]
    /\ pull = [l \in Links |-> Quiet]
    /\ heard = [n \in Node |-> [p \in Node |-> {None}]]
    /\ wake = [n \in Node |-> FALSE]
    /\ rec = [n \in Node |-> NoWalk]
    /\ taught = 0 /\ snaps = 0 /\ faults = 0

\* Facts of the own differ, or of a journal suffix (apply_events).
Teach(n, batch) ==
    /\ taught < MaxTaught
    /\ Merge(n, batch)
    /\ taught' = taught + 1
    /\ UNCHANGED <<synced, agg, cursor, passed, pull, heard, wake, rec, snaps, faults>>

FoldIn(n) ==
    /\ delta[n] # {}
    /\ agg' = [agg EXCEPT ![n] = Delta(@, delta[n])]
    /\ delta' = [delta EXCEPT ![n] = {}]
    /\ UNCHANGED <<table, synced, cursor, passed, pull, heard, wake, rec, taught, snaps, faults>>

-----------------------------------------------------------------------------
(* A pull: the request carries the persisted cursor; the response a page,  *)
(* if a dump is under way or a snapshot ships, and the root.               *)

Apart == UNCHANGED <<wake, rec, taught, faults>>

\* The request is made and answered; until its page is taken the response is
\* on its way.
Exchange(n, p) ==
    LET cur == cursor[n][p] IN
    /\ pull[<<n, p>>].at = "idle"
    /\ \E snap \in BOOLEAN :
          LET page == IF cur # None \/ snap
                      THEN Page(p, Place, IF cur = None THEN Restart ELSE cur)
                      ELSE [rows |-> <<>>, next |-> None]
          IN  /\ snap => n \in Shaken /\ snaps < MaxSnaps
              /\ snaps' = IF snap THEN snaps + 1 ELSE snaps
              /\ pull' = [pull EXCEPT ![<<n, p>>] =
                            [at |-> "page", cur |-> cur, rows |-> page.rows,
                             next |-> page.next, snap |-> snap, root |-> agg[p]]]
    /\ UNCHANGED <<table, synced, agg, delta, cursor, passed, heard>> /\ Apart

TakePage(n, p) ==
    LET q == pull[<<n, p>>] IN
    /\ q.at = "page"
    /\ Merge(n, q.rows)
    /\ pull' = [pull EXCEPT ![<<n, p>>].at = "park"]
    /\ UNCHANGED <<synced, agg, cursor, passed, heard, snaps>> /\ Apart

\* The cursor is written after the page it stands for, and synced, which takes
\* the page to the disk as well; a snapshot restarts the dump from every peer.
\* A pull whose dump is not done asks again; one that is done records the root,
\* and pings the reconcile loop if ours differs.
NextCursor(q) == IF q.snap THEN Restart ELSE q.next
ParkWith(n, p, landed) ==
    LET q == pull[<<n, p>>]
        c == NextCursor(q)
        writes == (c # q.cur \/ q.snap) /\ (c # cursor[n][p] \/ q.snap)
    IN  /\ q.at = "park"
        /\ cursor' = [cursor EXCEPT ![n] =
                        [m \in Node |-> CASE m = p /\ writes -> c
                                          [] m # p /\ q.snap -> Restart
                                          [] OTHER -> @[m]]]
        /\ synced' = IF writes THEN [synced EXCEPT ![n] = landed] ELSE synced
        /\ passed' = [passed EXCEPT ![n] =
                        [m \in Node |-> CASE q.snap \/ (m = p /\ c = None) -> {}
                                          [] m = p /\ c # None /\ ~q.snap ->
                                                @[p] \cup {Key[r[1]][r[2]] : r \in ToSet(q.rows)}
                                          [] OTHER -> @[m]]]
        /\ pull' = [pull EXCEPT ![<<n, p>>] = Quiet]
        /\ heard' = IF c = None THEN [heard EXCEPT ![n][p] = q.root] ELSE heard
        /\ wake' = [wake EXCEPT ![n] = @ \/ (c = None /\ q.root # agg[n])]
        /\ UNCHANGED <<table, agg, delta, rec, taught, snaps, faults>>
\* Mutant of Park: the cursor's write does not take the page to the disk.
ParkAlone(n, p) == ParkWith(n, p, synced[n])
Park(n, p) == ParkWith(n, p, table[n])

FailPull(n, p) ==
    /\ pull[<<n, p>>].at # "idle" /\ n \in Shaken /\ faults < MaxFaults
    /\ pull' = [pull EXCEPT ![<<n, p>>] = Quiet]
    /\ faults' = faults + 1
    /\ UNCHANGED <<table, synced, agg, delta, cursor, passed, heard, wake, rec, taught, snaps>>

-----------------------------------------------------------------------------
(* Reconciliation, one peer at a time. *)

Elsewhere == UNCHANGED <<synced, agg, cursor, passed, pull, heard, taught, snaps>>
Walk(n, r) == rec' = [rec EXCEPT ![n] = r]
NextPeer(n) == [NoWalk EXCEPT !.at = IF rec[n].left = {} THEN "idle" ELSE "sweep",
                              !.left = rec[n].left]

\* Fetches of subtrees, in their order, each from its first row.
Subtrees(S, Of(_)) ==
    [i \in 1..Cardinality(S) |->
        [of |-> Of(CHOOSE x \in S : Cardinality({y \in S : y < x}) = i - 1), after |-> 0]]

\* A ping is taken; the peers whose root is known are swept in turn.
Sweep(n) ==
    /\ rec[n].at = "idle" /\ wake[n]
    /\ wake' = [wake EXCEPT ![n] = FALSE]
    /\ LET known == {p \in Node : heard[n][p] # {None}}
       IN  Walk(n, [NoWalk EXCEPT !.at = IF known = {} THEN "idle" ELSE "sweep",
                                  !.left = known])
    /\ UNCHANGED <<table, delta, faults>> /\ Elsewhere

\* Roots are compared; a node with nothing takes the whole table.
Compare(n) ==
    /\ rec[n].at = "sweep"
    /\ \E p \in rec[n].left :
          LET r == [rec[n] EXCEPT !.left = @ \ {p}, !.peer = p]
          IN  Walk(n, CASE agg[n] = heard[n][p] ->
                             [NoWalk EXCEPT !.left = r.left,
                                            !.at = IF r.left = {} THEN "idle" ELSE "sweep"]
                        [] agg[n] = {} /\ heard[n][p] # {} ->
                             [r EXCEPT !.at = "fetch", !.targets = <<[of |-> Place, after |-> 0]>>]
                        [] OTHER -> [r EXCEPT !.at = "coarse", !.ours = agg[n]])
    /\ UNCHANGED <<table, delta, wake, faults>> /\ Elsewhere

\* Level one: of the buckets that differ the first CoarseMax are kept; one we
\* have nothing in is taken whole.
AskCoarse(n) ==
    LET r == rec[n]
        ours(c) == r.ours \cap Places(c)
        differ == {c \in Coarse : ours(c) # agg[r.peer] \cap Places(c)}
        kept == Lowest(differ, CoarseMax)
    IN  /\ r.at = "coarse"
        /\ Walk(n, IF differ = {} THEN NextPeer(n)
                   ELSE [r EXCEPT !.at = "leaves", !.ours = {},
                                  !.targets = Subtrees({x \in kept : ours(x) = {}}, Places),
                                  !.expand = {x \in kept : ours(x) # {}}])
        /\ UNCHANGED <<table, delta, wake, faults>> /\ Elsewhere

\* Level two: the leaves of a bucket that differ, or all of it if many do.
LeavesAmong(n, S) ==
    LET r == rec[n] IN
    /\ r.at = "leaves" /\ r.expand # {}
    /\ LET c == Min(r.expand)
           leaves == Delta(agg[n], agg[r.peer]) \cap Places(c) \cap S
           new == IF Cardinality(leaves) >= Wholesale THEN Subtrees({c}, Places)
                  ELSE Subtrees(leaves, LAMBDA k : {k})
       IN  Walk(n, [r EXCEPT !.expand = @ \ {c}, !.targets = @ \o new])
    /\ UNCHANGED <<table, delta, wake, faults>> /\ Elsewhere
\* Mutant of AskLeaves: a leaf we have nothing in is not compared.
AskLeavesWeHave(n) == LeavesAmong(n, agg[n])
AskLeaves(n) == LeavesAmong(n, Place)

Truncate(n) ==
    LET r == rec[n] IN
    /\ r.at = "leaves" /\ r.expand = {}
    /\ Walk(n, IF r.targets = <<>> THEN NextPeer(n)
               ELSE [r EXCEPT !.at = "fetch",
                              !.targets = SubSeq(@, 1, Min({FetchMax, Len(@)}))])
    /\ UNCHANGED <<table, delta, wake, faults>> /\ Elsewhere

\* The subtrees are fetched through a window, each page by page.
FetchPage(n) ==
    LET r == rec[n] IN
    /\ r.at = "fetch"
    /\ \E i \in 1..Min({Window, Len(r.targets)}) :
          LET t == r.targets[i]
              page == Page(r.peer, t.of, t.after)
              left == IF page.next = None THEN RemoveAt(r.targets, i)
                      ELSE [r.targets EXCEPT ![i].after = page.next]
          IN  /\ Merge(n, page.rows)
              /\ Walk(n, IF left = <<>> THEN NextPeer(n) ELSE [r EXCEPT !.targets = left])
    /\ UNCHANGED <<wake, faults>> /\ Elsewhere

\* An exchange fails: the walk with this peer is given up.
FailWalk(n) ==
    /\ rec[n].at \in {"coarse", "leaves", "fetch"} /\ n \in Shaken /\ faults < MaxFaults
    /\ faults' = faults + 1
    /\ Walk(n, NextPeer(n))
    /\ UNCHANGED <<table, delta, wake>> /\ Elsewhere

-----------------------------------------------------------------------------
\* The process stops, or the host does and what the log had not synced is gone;
\* cursors were synced when written; the aggregates are rebuilt from the rows.
Crash(n) ==
    /\ n \in Shaken /\ faults < MaxFaults
    /\ faults' = faults + 1
    /\ \E left \in {synced[n], table[n]} :
          /\ table' = [table EXCEPT ![n] = left]
          /\ agg' = [agg EXCEPT ![n] = Rows(left)]
    /\ delta' = [delta EXCEPT ![n] = {}]
    /\ pull' = [l \in Links |-> IF l[1] = n THEN Quiet ELSE pull[l]]
    /\ heard' = [heard EXCEPT ![n] = [p \in Node |-> {None}]]
    /\ wake' = [wake EXCEPT ![n] = FALSE]
    /\ Walk(n, NoWalk)
    /\ UNCHANGED <<synced, cursor, passed, taught, snaps>>

Round(n, p) == Exchange(n, p) \/ TakePage(n, p) \/ Park(n, p)
Reconcile(n) == Sweep(n) \/ Compare(n) \/ AskCoarse(n) \/ AskLeaves(n)
                   \/ Truncate(n) \/ FetchPage(n)

Next ==
    \/ \E n \in Node :
          \/ \E b \in Batches : Teach(n, b)
          \/ FoldIn(n) \/ Reconcile(n) \/ FailWalk(n) \/ Crash(n)
    \/ \E l \in Links : Round(l[1], l[2]) \/ FailPull(l[1], l[2])

Spec == Init /\ [][Next]_vars

\* The peer loops pull on their timer, the reconcile loop runs, and a writer
\* that committed folds in.  Batches, snapshots and faults owe nothing.
FairSpec ==
    /\ Spec
    /\ \A n \in Node : WF_vars(FoldIn(n)) /\ WF_vars(Reconcile(n))
    /\ \A l \in Links : WF_vars(Round(l[1], l[2]))

-----------------------------------------------------------------------------
TypeOK ==
    /\ table \in [Node -> Table]
    /\ \A n \in Node : \A f \in Fact : synced[n][f] \subseteq table[n][f]
    /\ agg \in [Node -> SUBSET Place]
    /\ cursor \in [Node -> [Node -> {None} \cup 0..Keys]]
    /\ wake \in [Node -> BOOLEAN]

\* The tree is the table: once what was committed is folded in, the aggregates
\* are those of the rows, whatever batches repeat or move a fact.  A tree that
\* is wrong stays wrong, and its node reconciles for ever or never again
\* (rocks.rs:462-466, 519-521).
RootIsTheTable == \A n \in Node : Delta(agg[n], delta[n]) = Rows(table[n])

\* A cursor is never ahead of its facts: every row a dump is past is on the
\* disk of its node, with the signatures it came with, so that a host that
\* stops at any moment loses no page for ever (sync.rs:580-585,
\* index.rs:1119-1125).
CursorIsBehindFacts ==
    /\ TypeOK
    /\ \A n, p \in Node : \A k \in passed[n][p] : Row(k)[2] \subseteq synced[n][Row(k)[1]]

\* Divergence heals: in the end a node has all the facts of those it pulls
\* from, whatever its dumps missed because a row moved behind their cursor or
\* a restart was overwritten by a response under way, whatever a crash lost,
\* and whatever a batch brought to one of them alone (sync.rs:1018-1027).
Converges == <>[](\A l \in Links : \A x \in Fact : table[l[2]][x] \subseteq table[l[1]][x])
=============================================================================
