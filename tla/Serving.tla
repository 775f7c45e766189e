------------------------------ MODULE Serving ------------------------------
(***************************************************************************)
(* The caches of the serve listener (serve.rs) and the memory governor     *)
(* that sizes them (mem.rs): entries with their seek tables, built once    *)
(* per entry and counted against a byte budget, and manifests, built by    *)
(* detached tasks that requests wait for.                                  *)
(*                                                                         *)
(* Requests run on several threads; each step below is one critical        *)
(* section, or the code between two awaits.  What is streamed afterwards   *)
(* is module NarStream, what the database holds changes under the caches.  *)
(***************************************************************************)
EXTENDS Integers, Sequences, SequencesExt, FiniteSets, FiniteSetsExt

CONSTANTS
    Hash,       \* NAR hashes
    Request,    \* the requests; an entry is named by the one that made it
    Asks,       \* what the requests ask for: functions to [what, hash]
    Size,       \* Size[h]: bytes of its seek table
    Unnamable,  \* hashes of paths that cannot be manifested
    Entries,    \* TABLE_ENTRIES
    Manifests,  \* capacity of the manifest cache
    Builders,   \* MANIFEST_BUILD_CONCURRENCY
    Ceiling,    \* table_budget()
    FloorShare, \* TABLE_BUDGET_FLOOR_SHARE
    Climb,      \* CLIMB_FLOOR
    MaxTicks,   \* bound: steps of the governor
    Faults,     \* which things may go wrong, a set of strings
    MaxFaults   \* bound: how often they do

ASSUME ServingAssumption ==
    /\ Asks \subseteq [Request -> [what : {"nar", "manifest"}, hash : Hash]]
    /\ Size \in [Hash -> Nat \ {0}]
    /\ {Entries, Manifests, Builders, FloorShare} \subseteq Nat \ {0}
    /\ {Ceiling, Climb, MaxTicks, MaxFaults} \subseteq Nat
    /\ Faults \subseteq {"collect", "leave", "damage", "query"}

VARIABLES
    db,         \* hashes of the paths registered, and on disk
    ask,        \* ask[r]
    pc,         \* where request r is
    reply,      \* none, ok, gone, absent, error or left
    entry,      \* entry[r]: the entry r uses, in a set
    lru,        \* resident entries, least recently used first
    cell,       \* cell[e]: empty, busy or set
    tableBytes, \* table_bytes
    budget,     \* the live budget
    manifests,  \* [hash, json], least recently used first
    building,   \* hashes of the builds in flight
    task,       \* task[h]: none, queued, reading, publish or retire
    built,      \* built[h]: did the build in flight make a manifest
    ticks, faults

vars == <<db, ask, pc, reply, entry, lru, cell, tableBytes, budget,
          manifests, building, task, built, ticks, faults>>

cache == <<lru, cell, tableBytes, budget>>
builds == <<manifests, building, task, built>>

HashOf(e) == ask[e].hash

Init ==
    /\ db = Hash
    /\ ask \in Asks
    /\ pc = [r \in Request |-> IF ask[r].what = "nar" THEN "lookup" ELSE "peek"]
    /\ reply = [r \in Request |-> "none"] /\ entry = [r \in Request |-> {}]
    /\ lru = <<>> /\ cell = [e \in Request |-> "empty"]
    /\ tableBytes = 0 /\ budget = Ceiling
    /\ manifests = <<>> /\ building = {}
    /\ task = [h \in Hash |-> "none"] /\ built = [h \in Hash |-> FALSE]
    /\ ticks = 0 /\ faults = 0

Fault(kind) == kind \in Faults /\ faults < MaxFaults /\ faults' = faults + 1

Goto(r, stage) == pc' = [pc EXCEPT ![r] = stage]

Finish(r, answer) ==
    /\ Goto(r, "done")
    /\ reply' = [reply EXCEPT ![r] = answer]

-----------------------------------------------------------------------------
(* The cache of entries *)

Resident(h) == {e \in ToSet(lru) : HashOf(e) = h}

Touched(s, x) == Append(RemoveFirst(s, x), x)

(* Mutant of Weight: a table not built yet weighs too.                    *)
WeightAlways(e) == Size[HashOf(e)]

(* What an evicted entry gives back: its table, once the cell holds it.    *)
Weight(e) == IF cell[e] = "set" THEN Size[HashOf(e)] ELSE 0

Less(bytes, n) == Max({0, bytes - n})

Evicted(c) == [lru |-> Tail(c.lru), bytes |-> Less(c.bytes, Weight(Head(c.lru)))]

(* Mutant of EvictToBudget: the budget never moves.                       *)
EvictToCeiling(c, limit) ==
    FoldLeft(LAMBDA d, e : IF d.bytes > Ceiling /\ Len(d.lru) > 1 THEN Evicted(d) ELSE d, c, c.lru)

(* Least recently used entries go until within the budget, but for one.    *)
EvictToBudget(c, limit) ==
    FoldLeft(LAMBDA d, e : IF d.bytes > limit /\ Len(d.lru) > 1 THEN Evicted(d) ELSE d, c, c.lru)

SetCache(c) == lru' = c.lru /\ tableBytes' = c.bytes

(* The entry cap may displace the least recently used entry.               *)
Pushed(e) ==
    LET c == [lru |-> lru, bytes |-> tableBytes]
        room == IF Len(lru) = Entries THEN Evicted(c) ELSE c
    IN [room EXCEPT !.lru = Append(@, e)]

Use(r, e) == entry' = [entry EXCEPT ![r] = {e}]

Onward(r) == IF ask[r].what = "nar" THEN "cell" ELSE "loop"

(* A resident entry answers; else the database is asked.                   *)
Lookup(r) ==
    /\ pc[r] = "lookup"
    /\ IF Resident(ask[r].hash) # {}
       THEN \E e \in Resident(ask[r].hash) :
              Use(r, e) /\ lru' = Touched(lru, e) /\ Goto(r, Onward(r))
       ELSE Goto(r, "scan") /\ UNCHANGED <<entry, lru>>
    /\ UNCHANGED <<db, ask, reply, cell, tableBytes, budget, builds, ticks, faults>>

(* by_nar_hash.  Nothing there is 410 for a NAR, 404 for a manifest.       *)
Scan(r) ==
    /\ pc[r] = "scan"
    /\ \/ /\ ask[r].hash \in db
          /\ Goto(r, "insert") /\ UNCHANGED <<reply, faults>>
       \/ /\ ask[r].hash \notin db
          /\ Finish(r, IF ask[r].what = "nar" THEN "gone" ELSE "absent") /\ UNCHANGED faults
       \/ Fault("query") /\ Finish(r, "error")
    /\ UNCHANGED <<db, ask, entry, cache, builds, ticks>>

(* Looked up again under the lock: a concurrent request may have inserted. *)
Insert(r) ==
    /\ pc[r] = "insert"
    /\ IF Resident(ask[r].hash) # {}
       THEN \E e \in Resident(ask[r].hash) :
              Use(r, e) /\ lru' = Touched(lru, e) /\ UNCHANGED tableBytes
       ELSE Use(r, r) /\ SetCache(Pushed(r))
    /\ Goto(r, Onward(r))
    /\ UNCHANGED <<db, ask, reply, cell, budget, builds, ticks, faults>>

-----------------------------------------------------------------------------
(* The seek table of an entry: the first to ask builds it, others wait     *)

(* Mutant of Reopened: the cell of a cancelled build stays busy.          *)
StayBusy(e) == cell

(* Whoever builds a table and fails, or leaves, lets the next one try.     *)
Reopened(e) == [cell EXCEPT ![e] = "empty"]

EnterCell(r) ==
    /\ pc[r] = "cell"
    /\ \E e \in entry[r] :
         \/ cell[e] = "set" /\ Finish(r, "ok") /\ UNCHANGED cell
         \/ /\ cell[e] = "empty"
            /\ cell' = [cell EXCEPT ![e] = "busy"]
            /\ Goto(r, "walk") /\ UNCHANGED reply
    /\ UNCHANGED <<db, ask, entry, lru, tableBytes, budget, builds, ticks, faults>>

(* A path that is gone, or not of its registered size, is refused.         *)
WalkTree(r) ==
    /\ pc[r] = "walk"
    /\ \E e \in entry[r] :
         \/ /\ HashOf(e) \in db
            /\ Goto(r, "account") /\ UNCHANGED <<reply, cell, faults>>
         \/ /\ (HashOf(e) \notin db /\ UNCHANGED faults) \/ Fault("damage")
            /\ cell' = Reopened(e)
            /\ Finish(r, "error")
    /\ UNCHANGED <<db, ask, entry, lru, tableBytes, budget, builds, ticks>>

(* Counted while the entry is still resident.                              *)
Account(r) ==
    /\ pc[r] = "account"
    /\ \E e \in entry[r] :
         IF e \in ToSet(lru)
         THEN SetCache(EvictToBudget([lru |-> lru, bytes |-> tableBytes + Size[HashOf(e)]], budget))
         ELSE UNCHANGED <<lru, tableBytes>>
    /\ Goto(r, "set")
    /\ UNCHANGED <<db, ask, reply, entry, cell, budget, builds, ticks, faults>>

SetCell(r) ==
    /\ pc[r] = "set"
    /\ \E e \in entry[r] : cell' = [cell EXCEPT ![e] = "set"]
    /\ Finish(r, "ok")
    /\ UNCHANGED <<db, ask, entry, lru, tableBytes, budget, builds, ticks, faults>>

-----------------------------------------------------------------------------
(* Manifests *)

Cached(h) == {m \in ToSet(manifests) : m.hash = h}

AnswerCached(r) ==
    \E m \in Cached(ask[r].hash) :
      /\ manifests' = Touched(manifests, m)
      /\ Finish(r, IF m.json THEN "ok" ELSE "absent")

Peek(r) ==
    /\ pc[r] = "peek"
    /\ IF Cached(ask[r].hash) # {} THEN AnswerCached(r)
       ELSE Goto(r, "lookup") /\ UNCHANGED <<reply, manifests>>
    /\ UNCHANGED <<db, ask, entry, cache, building, task, built, ticks, faults>>

Loop(r) ==
    /\ pc[r] = "loop"
    /\ IF Cached(ask[r].hash) # {} THEN AnswerCached(r)
       ELSE Goto(r, "join") /\ UNCHANGED <<reply, manifests>>
    /\ UNCHANGED <<db, ask, entry, cache, building, task, built, ticks, faults>>

(* Join the build in flight, or become the one that starts it.             *)
Join(r) ==
    /\ pc[r] = "join"
    /\ IF ask[r].hash \in building
       THEN Goto(r, "wait") /\ UNCHANGED <<building, task>>
       ELSE /\ building' = building \cup {ask[r].hash}
            /\ task' = [task EXCEPT ![ask[r].hash] = "queued"]
            /\ Goto(r, "loop")
    /\ UNCHANGED <<db, ask, reply, entry, cache, manifests, built, ticks, faults>>

BuildersBusy == Cardinality({h \in Hash : task[h] \in {"reading", "publish", "retire"}})

BuildStart(h) ==
    /\ task[h] = "queued" /\ BuildersBusy < Builders
    /\ task' = [task EXCEPT ![h] = "reading"]
    /\ UNCHANGED <<db, ask, pc, reply, entry, cache, manifests, building, built, ticks, faults>>

(* Mutant of BuildEnds: a build that fails just disappears.               *)
BuildPanics(h, made) == task' = [task EXCEPT ![h] = IF made THEN "publish" ELSE "none"]

BuildEnds(h, made) == task' = [task EXCEPT ![h] = "publish"]

(* A failure, or a panic, is an outcome too.                               *)
BuildRead(h) ==
    /\ task[h] = "reading"
    /\ \E made \in BOOLEAN :
         /\ \/ made = (h \in db \ Unnamable) /\ UNCHANGED faults
            \/ ~made /\ Fault("damage")
         /\ built' = [built EXCEPT ![h] = made]
         /\ BuildEnds(h, made)
    /\ UNCHANGED <<db, ask, pc, reply, entry, cache, manifests, building, ticks>>

(* Published before anyone is woken.                                       *)
Publish(h) ==
    /\ task[h] = "publish"
    /\ LET rest == RemoveFirstMatch(manifests, LAMBDA m : m.hash = h)
           room == IF Len(rest) = Manifests THEN Tail(rest) ELSE rest
       IN manifests' = Append(room, [hash |-> h, json |-> built[h]])
    /\ task' = [task EXCEPT ![h] = "retire"]
    /\ UNCHANGED <<db, ask, pc, reply, entry, cache, building, built, ticks, faults>>

Retire(h) ==
    /\ task[h] = "retire"
    /\ building' = building \ {h}
    /\ task' = [task EXCEPT ![h] = "none"]
    /\ pc' = [r \in Request |-> IF pc[r] = "wait" /\ ask[r].hash = h THEN "loop" ELSE pc[r]]
    /\ UNCHANGED <<db, ask, reply, entry, cache, manifests, built, ticks, faults>>

-----------------------------------------------------------------------------
(* A client that leaves cancels its handler where it awaits.               *)
Leave(r) ==
    /\ pc[r] \in {"scan", "cell", "walk", "wait"} /\ Fault("leave")
    /\ Finish(r, "left")
    /\ IF pc[r] = "walk" THEN \E e \in entry[r] : cell' = Reopened(e) ELSE UNCHANGED cell
    /\ UNCHANGED <<db, ask, entry, lru, tableBytes, budget, builds, ticks>>

(* Nix registers and collects paths.                                       *)
Change ==
    /\ Fault("collect")
    /\ \E h \in Hash : db' = IF h \in db THEN db \ {h} ELSE db \cup {h}
    /\ UNCHANGED <<ask, pc, reply, entry, cache, builds, ticks>>

(* The governor: halve under pressure, hold, or climb back.                *)
Clamp(n) == Min({Max({n, Ceiling \div FloorShare}), Ceiling})

Halved == Clamp(budget \div 2)
Climbed == Clamp(budget + budget \div 4 + Climb)

Govern ==
    /\ ticks < MaxTicks /\ ticks' = ticks + 1
    /\ \E next \in {Halved, Climbed} :
         /\ budget' = next
         /\ IF next = budget THEN UNCHANGED <<lru, tableBytes>>
            ELSE SetCache(EvictToBudget([lru |-> lru, bytes |-> tableBytes], next))
    /\ UNCHANGED <<db, ask, pc, reply, entry, cell, builds, faults>>

-----------------------------------------------------------------------------
Handle(r) ==
    \/ Lookup(r) \/ Scan(r) \/ Insert(r) \/ EnterCell(r) \/ WalkTree(r) \/ Account(r) \/ SetCell(r)
    \/ Peek(r) \/ Loop(r) \/ Join(r)

Build(h) == BuildStart(h) \/ BuildRead(h) \/ Publish(h) \/ Retire(h)

Next ==
    \/ \E r \in Request : Handle(r) \/ Leave(r)
    \/ \E h \in Hash : Build(h)
    \/ Change \/ Govern

Spec == Init /\ [][Next]_vars

(* Handlers and build tasks are scheduled, and file reads end.             *)
FairSpec ==
    /\ Spec
    /\ WF_vars(\E r \in Request : Handle(r))
    /\ WF_vars(\E h \in Hash : Build(h))

-----------------------------------------------------------------------------
(* What the variables range over.                                          *)
TypeOK ==
    /\ db \subseteq Hash
    /\ pc \in [Request -> {"peek", "lookup", "scan", "insert", "cell", "walk", "account", "set",
                           "loop", "join", "wait", "done"}]
    /\ reply \in [Request -> {"none", "ok", "gone", "absent", "error", "left"}]
    /\ ToSet(lru) \subseteq Request /\ IsInjective(lru) /\ Len(lru) <= Entries
    /\ cell \in [Request -> {"empty", "busy", "set"}]
    /\ tableBytes \in Nat /\ budget \in (Ceiling \div FloorShare)..Ceiling
    /\ Len(manifests) <= Manifests /\ building \subseteq Hash
    /\ ticks \in 0..MaxTicks /\ faults \in 0..MaxFaults

(* The tables the cache holds, as it should have counted them.             *)
Counted(e) == cell[e] = "set" \/ \E r \in Request : pc[r] = "set" /\ e \in entry[r]
Holding == FoldSet(LAMBDA e, n : n + Size[HashOf(e)], 0, {e \in ToSet(lru) : Counted(e)})

(* No table is held that the budget does not see: what is resident is      *)
(* counted at least (insert, account, forget).                             *)
HeldIsCounted == TypeOK /\ Holding <= tableBytes

(* Whenever a table is counted, or the governor moves the budget, the      *)
(* cache ends within its budget, or holds one entry (evict_to_budget).     *)
BudgetIsHonoured ==
    [][tableBytes' > tableBytes \/ budget' # budget
         => tableBytes' <= budget' \/ Len(lru') <= 1]_vars

(* A table in the making has a request that makes it, whoever left         *)
(* (get_or_try_init, cancelled handlers).                                  *)
BusyCellsHaveABuilder ==
    \A e \in Request : cell[e] = "busy" =>
      \E r \in Request : pc[r] \in {"walk", "account", "set"} /\ e \in entry[r]

(* Every request is answered, though the one that started a build left, or *)
(* the build failed (spawn_manifest_build).                                *)
EveryRequestIsAnswered == \A r \in Request : <>(pc[r] = "done")
============================================================================
