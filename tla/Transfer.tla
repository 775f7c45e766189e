------------------------------ MODULE Transfer ------------------------------
(***************************************************************************)
(* One transfer of the fetch engine (fetch.rs, run_transfer): a NAR, or a  *)
(* range of it, is rebuilt as one ordered stream from chunks that several  *)
(* peers serve.  A manifest, when there is one, says which spans are       *)
(* framing to synthesize, which segments are fetched, kept, and replayed.  *)
(*                                                                         *)
(* Bytes are counted in units; what a unit holds is only whether it is     *)
(* right.  Each peer has a circuit breaker (peers.rs) and a limit on the   *)
(* streams it serves to all transfers.  The next chunk goes to a peer      *)
(* drawn at random, whose twin may be drawn too (hedging).                 *)
(***************************************************************************)
EXTENDS Integers, Retention, FiniteSetsExt

CONSTANTS
    Peer,       \* the peers that hold the path
    Jobs,       \* what may be asked for, with the layout a manifest claims
    Chunks,     \* the chunk sizes a peer's goodput may call for
    Window,     \* window_bytes
    Gap,        \* RANGE_MERGE_GAP
    Budget,     \* dedup_budget_bytes
    Limit,      \* streams a peer's governor allows
    Threshold,  \* strikes that open a breaker
    Streak,     \* MAX_FAILURE_STREAK
    Faults,     \* which things may go wrong, a set of strings
    MaxFaults   \* bound: how often they do

LengthOf(layout) == FoldLeft(LAMBDA n, s : n + s.len, 0, layout)

Spanned == [kind : {"lit", "segment"}, key : STRING, len : Nat \ {0}]
Layouts == Seq(Spanned)

ASSUME TransferAssumption ==
    /\ IsFiniteSet(Peer)
    /\ Jobs \subseteq [start : Nat, end : Nat, full : BOOLEAN, honest : BOOLEAN,
                       layout : Layouts]
    /\ \A j \in Jobs :
         /\ j.start < j.end
         /\ j.layout # <<>> => j.full /\ j.start = 0 /\ j.end = LengthOf(j.layout)
    /\ IsFiniteSet(Chunks) /\ Chunks \subseteq Nat \ {0}
    /\ {Window, Limit, Threshold, Streak} \subseteq Nat \ {0}
    /\ {Gap, Budget, MaxFaults} \subseteq Nat
    /\ Faults \subseteq {"strike", "refuse", "lie", "hangup", "slow", "stall", "busy"}

VARIABLES
    job,       \* the range asked for, whether it is the whole NAR, the layout
               \* its manifest claims and whether that is the truth
    plan,      \* the spans in order, and the ranges to fetch
    emitter,   \* the span being emitted, the position, are wrong bytes out
    buffered,  \* units fetched and not yet emitted
    bad,       \* those of them that are wrong
    held,      \* retained segments: replays still due, length, are they wrong
    carve,     \* the carving cursor: a range and a position in it
    requeue,   \* chunks to fetch again
    gate,      \* retry_gate: "none", "shut" or "past"
    inflight,  \* the ranges in flight, with their attempts
    work,      \* the workers that fetch, or have fetched and not been heard
    slots,     \* slots[p]: streams of p in use, by any transfer
    others,    \* others[p]: those of them other transfers use
    parked,    \* the busy peer drawn when the launch loop starved, if it did
    woken,     \* has slot_freed been notified since it was registered
    streak,    \* failure_streak
    health,    \* health[p]: the breaker
    pc,        \* pump, launch, settle, wait or ended
    outcome,
    faults

vars == <<job, plan, emitter, buffered, bad, held, carve, requeue, gate, inflight,
          work, slots, others, parked, woken, streak, health, pc, outcome, faults>>

emission == <<emitter, buffered, bad, held>>
chunker == <<carve, requeue, gate, inflight>>
fleet == <<slots, others, health>>

-----------------------------------------------------------------------------
(* The plan *)

IsSegment(span) == span.kind = "segment"

(* The segments, collected span by span. *)
Segments(layout) ==
    FoldLeft(LAMBDA segs, s : IF IsSegment(s) THEN Append(segs, s) ELSE segs, <<>>, layout)

(* Mutant of Usable: a key may have two lengths.                          *)
UsableAtAnyLength(layout) ==
    LET segs == Segments(layout) IN \A i \in DOMAIN segs : segs[i].len <= Window

(* Mutant of Usable: a segment may be longer than the window.             *)
UsablePastWindow(layout) ==
    LET segs == Segments(layout) IN
    \A i, j \in DOMAIN segs : segs[i].key = segs[j].key => segs[i].len = segs[j].len

(* No span may exceed the window, and a key has one length. *)
Usable(layout) ==
    LET segs == Segments(layout) IN
    /\ \A i \in DOMAIN segs : segs[i].len <= Window
    /\ \A i, j \in DOMAIN segs : segs[i].key = segs[j].key => segs[i].len = segs[j].len

(* Adjacent fetch ranges are merged across gaps of at most Gap units. *)
WithRange(ranges, at, len) ==
    IF /\ ranges # <<>>
       /\ at >= Last(ranges).at + Last(ranges).len
       /\ at - (Last(ranges).at + Last(ranges).len) <= Gap
    THEN [ranges EXCEPT ![Len(ranges)].len = at + len - Last(ranges).at]
    ELSE Append(ranges, [at |-> at, len |-> len])

StepsFor(layout) ==
    LET segs == Segments(layout)
    IN RetentionPlan([i \in DOMAIN segs |-> segs[i].key],
                     [i \in DOMAIN segs |-> segs[i].len], Budget)

(* The next span is placed; steps says what becomes of the segments. *)
Place(steps, p, s) ==
    LET step == steps[p.seg + 1]
        Span(do, n) == [do |-> do, at |-> p.at, len |-> s.len, key |-> s.key, retain |-> n]
        Placed(do, n, r) == [at |-> p.at + s.len, seg |-> p.seg + (IF IsSegment(s) THEN 1 ELSE 0),
                             spans |-> Append(p.spans, Span(do, n)), ranges |-> r]
    IN CASE ~IsSegment(s) -> Placed("lit", 0, p.ranges)
         [] IsSegment(s) /\ step.fetch ->
              Placed("fetch", step.retain, WithRange(p.ranges, p.at, s.len))
         [] IsSegment(s) /\ ~step.fetch -> Placed("replay", 0, p.ranges)

Unplaced == [at |-> 0, seg |-> 0, spans |-> <<>>, ranges |-> <<>>]

Laid(layout) ==
    LET steps == StepsFor(layout)
    IN FoldLeft(LAMBDA p, s : Place(steps, p, s), Unplaced, layout)

ManifestPlan(layout) ==
    LET laid == Laid(layout) IN [spans |-> laid.spans, ranges |-> laid.ranges]

FallbackPlan(start, end) ==
    [spans |-> <<[do |-> "fetch", at |-> start, len |-> end - start,
                  key |-> "none", retain |-> 0]>>,
     ranges |-> <<[at |-> start, len |-> end - start]>>]

(* A range request, or a NAR without a manifest, is plain striping. *)
PlanFor(j) ==
    IF j.layout # <<>> /\ Usable(j.layout)
    THEN ManifestPlan(j.layout)
    ELSE FallbackPlan(j.start, j.end)

Init ==
    /\ job \in Jobs
    /\ plan = PlanFor(job)
    /\ emitter = [span |-> 1, pos |-> job.start, wrong |-> FALSE]
    /\ buffered = {} /\ bad = {}
    /\ held = [k \in {s.key : s \in ToSet(plan.spans)} |-> [due |-> 0, len |-> 0, wrong |-> FALSE]]
    /\ carve = [range |-> 1, at |-> 0]
    /\ requeue = {} /\ gate = "none" /\ inflight = {} /\ work = {}
    /\ slots = [p \in Peer |-> 0] /\ others = [p \in Peer |-> 0]
    /\ parked = {} /\ woken = FALSE /\ streak = 0
    /\ health = [p \in Peer |-> [strikes |-> 0, open |-> "none"]]
    /\ pc = "pump" /\ outcome = "running" /\ faults = 0

(* What may go wrong, within the bound. *)
Fault(kind) == kind \in Faults /\ faults < MaxFaults /\ faults' = faults + 1

-----------------------------------------------------------------------------
(* The end: workers in the JoinSet are aborted and their slots are freed;  *)
(* the members of a hedged pair are detached and outlive the transfer.     *)

Detached(w) == w.hedged

Flying(p) == {w \in work : w.peer = p /\ w.phase = "flying"}

(* Mutant of Aborted: a worker cut off keeps its slot.                    *)
AbortedLeaks(p) == {}

Aborted(p) == {w \in Flying(p) : ~Detached(w)}

End(verdict) ==
    /\ pc' = "ended" /\ outcome' = verdict
    /\ work' = {w \in work : w.phase = "flying" /\ Detached(w)}
    /\ slots' = [p \in Peer |-> slots[p] - Cardinality(Aborted(p))]
    /\ parked' = {} /\ woken' = FALSE
    /\ requeue' = {} /\ gate' = "none" /\ inflight' = {}
    /\ UNCHANGED <<job, plan, carve, others, streak, health>>

Carry == UNCHANGED <<job, plan, chunker, work, slots, others, parked, woken, streak,
                     health, pc, outcome>>

-----------------------------------------------------------------------------
(* Emission *)

Here == plan.spans[emitter.span]
Done == emitter.span > Len(plan.spans)

(* Mutant of Mismatch: only the last bytes are hashed.                    *)
MismatchOfTail(n, wrong) == job.full /\ emitter.pos + n = job.end /\ wrong

(* The last bytes of a whole NAR are withheld until the hash agrees. *)
Mismatch(n, wrong) == job.full /\ emitter.pos + n = job.end /\ (emitter.wrong \/ wrong)

(* n units go downstream; the receiver may have hung up. *)
Emit(n, wrong) ==
    \/ /\ Mismatch(n, wrong)
       /\ End("mismatch")
       /\ UNCHANGED <<emitter, faults>>
    \/ /\ ~Mismatch(n, wrong)
       /\ emitter' = [span |-> emitter.span + (IF emitter.pos + n = Here.at + Here.len THEN 1 ELSE 0),
                      pos |-> emitter.pos + n, wrong |-> emitter.wrong \/ wrong]
       /\ \/ Carry /\ UNCHANGED faults
          \/ Fault("hangup") /\ End("gone")

Pumping(do) == pc = "pump" /\ ~Done /\ Here.do = do

PumpLiteral ==
    /\ Pumping("lit")
    /\ Emit(Here.len, ~job.honest)
    /\ UNCHANGED <<buffered, bad, held>>

(* Copies of segments that a dishonest manifest calls equal are wrong. *)
PumpReplay ==
    /\ Pumping("replay")
    /\ LET copy == held[Here.key] IN
       IF copy.due = 0 \/ copy.len # Here.len
       THEN End("other") /\ UNCHANGED <<emission, faults>>
       ELSE /\ held' = [held EXCEPT ![Here.key].due = @ - 1]
            /\ Emit(Here.len, copy.wrong \/ ~job.honest)
            /\ UNCHANGED <<buffered, bad>>

Contiguous(from, to) == from..(to - 1) \subseteq buffered

(* A plain span is emitted as its bytes arrive. *)
PumpPlain ==
    /\ Pumping("fetch") /\ Here.retain = 0
    /\ emitter.pos \in buffered
    /\ buffered' = buffered \ {emitter.pos}
    /\ bad' = bad \ {emitter.pos}
    /\ Emit(1, emitter.pos \in bad)
    /\ UNCHANGED held

(* A segment to be replayed is assembled whole, and kept. *)
PumpRetained ==
    /\ Pumping("fetch") /\ Here.retain > 0
    /\ LET units == Here.at..(Here.at + Here.len - 1)
           wrong == units \cap bad # {}
       IN /\ Contiguous(Here.at, Here.at + Here.len)
          /\ held' = [held EXCEPT ![Here.key] =
                        [due |-> Here.retain, len |-> Here.len, wrong |-> wrong]]
          /\ buffered' = buffered \ units
          /\ bad' = bad \ units
          /\ Emit(Here.len, wrong)

PumpFinished ==
    /\ pc = "pump" /\ Done
    /\ End("completed")
    /\ UNCHANGED <<emission, faults>>

NeedsData ==
    /\ pc = "pump" /\ ~Done /\ Here.do = "fetch"
    /\ IF Here.retain = 0 THEN emitter.pos \notin buffered
       ELSE ~Contiguous(Here.at, Here.at + Here.len)

(* Nothing more to emit: the buffer is pruned, and slot_freed registered. *)
PumpNeedsData ==
    /\ NeedsData
    /\ buffered' = {u \in buffered : u >= emitter.pos}
    /\ bad' = {u \in bad : u >= emitter.pos}
    /\ pc' = "launch" /\ woken' = FALSE
    /\ UNCHANGED <<job, plan, emitter, held, chunker, work, fleet, parked, streak,
                   outcome, faults>>

(* After a chunk the link may be judged hopeless (min_bandwidth). *)
Forfeit ==
    /\ NeedsData /\ carve # [range |-> 1, at |-> 0]
    /\ Fault("slow")
    /\ End("slow")
    /\ UNCHANGED emission

Pump == PumpLiteral \/ PumpReplay \/ PumpPlain \/ PumpRetained \/ PumpFinished
          \/ PumpNeedsData \/ Forfeit

-----------------------------------------------------------------------------
(* Launching chunks *)

Available(p) == health[p].open # "cooling"
Holders == {p \in Peer : Available(p)}
HasSlot(p) == slots[p] < Limit

(* The carving cursor, past the ranges that are used up. *)
Cursor ==
    IF carve.range <= Len(plan.ranges) /\ carve.at >= plan.ranges[carve.range].len
    THEN [range |-> carve.range + 1, at |-> 0]
    ELSE carve

Carvable == Cursor.range <= Len(plan.ranges)
Room == plan.ranges[Cursor.range].len - Cursor.at

Requeued == requeue # {} /\ gate # "shut"
Lowest == CHOOSE c \in requeue : \A d \in requeue : c.off <= d.off

Candidate == Requeued \/ Carvable
NextOff == IF Requeued THEN Lowest.off ELSE plan.ranges[Cursor.range].at + Cursor.at

InWindow == NextOff < emitter.pos + Window

(* Nothing to launch, nothing inside the window, or nobody to ask. *)
LaunchEnds ==
    /\ pc = "launch"
    /\ ~(Candidate /\ InWindow /\ Holders # {})
    /\ pc' = "settle" /\ parked' = {}
    /\ carve' = IF Requeued THEN carve ELSE Cursor
    /\ UNCHANGED <<job, plan, emission, requeue, gate, inflight, work, fleet, woken, streak,
                   outcome, faults>>

(* The drawn peer is busy and no partner insures the chunk. *)
Starve(p) ==
    /\ pc = "launch" /\ Candidate /\ InWindow /\ p \in Holders
    /\ ~HasSlot(p)
    /\ pc' = "settle" /\ parked' = {p}
    /\ carve' = IF Requeued THEN carve ELSE Cursor
    /\ UNCHANGED <<job, plan, emission, requeue, gate, inflight, work, fleet, woken, streak,
                   outcome, faults>>

(* Mutant of Settle: what was freed since the probe is forgotten.         *)
SettleRegisters ==
    /\ pc = "settle" /\ pc' = "wait" /\ woken' = FALSE
    /\ UNCHANGED <<job, plan, emission, chunker, work, fleet, parked, streak, outcome, faults>>

(* The loop computes when to wake, and sleeps in its select!.  Slots may be *)
(* freed between the probe that found none and the sleep.                  *)
Settle ==
    /\ pc = "settle" /\ pc' = "wait"
    /\ UNCHANGED <<job, plan, emission, chunker, work, fleet, parked, woken, streak, outcome,
                   faults>>

(* The attempts of a chunk: the drawn peer, a partner, or the partner alone *)
(* when the drawn peer is busy.  A pair, or a partner, is hedged.          *)
Crews ==
    {[on |-> {p}, lead |-> p, hedged |-> FALSE] : p \in Holders}
      \cup {[on |-> {p, q}, lead |-> p, hedged |-> TRUE] : p \in Holders, q \in Holders}
      \cup {[on |-> {q}, lead |-> q, hedged |-> TRUE] : q \in Holders}

Staffed(crew) ==
    /\ \A p \in crew.on : HasSlot(p)
    /\ crew.hedged => \/ Cardinality(crew.on) = 2
                      \/ \E p \in Holders \ crew.on : ~HasSlot(p)

Worker(off, len, p, hedged) ==
    [off |-> off, len |-> len, peer |-> p, hedged |-> hedged, phase |-> "flying"]

(* A requeued chunk twice the size the lead calls for is carved again. *)
TakeRequeued(cs, len) ==
    /\ Requeued
    /\ IF Lowest.len > 2 * cs
       THEN /\ len = cs
            /\ requeue' = (requeue \ {Lowest})
                            \cup {[off |-> Lowest.off + cs, len |-> Lowest.len - cs]}
       ELSE /\ len = Lowest.len
            /\ requeue' = requeue \ {Lowest}
    /\ UNCHANGED carve

TakeFresh(cs, len) ==
    /\ ~Requeued
    /\ len = (IF cs < Room THEN cs ELSE Room)
    /\ carve' = [Cursor EXCEPT !.at = @ + len]
    /\ UNCHANGED requeue

Launch ==
    /\ pc = "launch" /\ Candidate /\ InWindow
    /\ \E crew \in Crews, cs \in Chunks, len \in 1..(job.end - job.start) :
         /\ Staffed(crew)
         /\ (TakeRequeued(cs, len) \/ TakeFresh(cs, len))
         /\ work' = work \cup {Worker(NextOff, len, p, crew.hedged) : p \in crew.on}
         /\ inflight' = inflight \cup
              {[off |-> NextOff, len |-> len, live |-> crew.on, delivered |-> FALSE]}
         /\ slots' = [p \in Peer |-> IF p \in crew.on THEN slots[p] + 1 ELSE slots[p]]
    /\ UNCHANGED <<job, plan, emission, gate, others, parked, woken, streak, health, pc,
                   outcome, faults>>

-----------------------------------------------------------------------------
(* Workers: an attempt ends, frees its slot and reports.  Some failures    *)
(* strike the peer's breaker, others only fail the chunk.                  *)

RecordOk(p) == health' = [health EXCEPT ![p] = [strikes |-> 0, open |-> "none"]]

RecordStrike(p) ==
    LET strikes == IF health[p].strikes < Threshold THEN health[p].strikes + 1 ELSE Threshold
    IN health' = [health EXCEPT ![p] =
         [strikes |-> strikes,
          open |-> IF strikes >= Threshold THEN "cooling" ELSE @.open]]

FreeSlot(p) == slots' = [slots EXCEPT ![p] = @ - 1] /\ woken' = (pc # "ended")

Report(w, result) ==
    /\ w \in work /\ w.phase = "flying"
    /\ work' = (work \ {w}) \cup (IF pc = "ended" THEN {} ELSE {[w EXCEPT !.phase = result]})
    /\ FreeSlot(w.peer)
    /\ UNCHANGED <<job, plan, emission, chunker, others, parked, streak, pc, outcome>>

Deliver(w) == Report(w, "ok") /\ RecordOk(w.peer) /\ UNCHANGED faults

(* A peer may serve wrong bytes of the right length. *)
DeliverWrong(w) == Report(w, "wrong") /\ RecordOk(w.peer) /\ Fault("lie")

(* No connection, 5xx, a body that dies, or the chunk's deadline. *)
FailWithStrike(w) == Report(w, "failed") /\ Fault("strike") /\ RecordStrike(w.peer)

(* A refusal, or an answer of the wrong shape. *)
FailWithout(w) == Report(w, "failed") /\ Fault("refuse") /\ UNCHANGED health

Finish(w) == Deliver(w) \/ DeliverWrong(w) \/ FailWithStrike(w) \/ FailWithout(w)

-----------------------------------------------------------------------------
(* What the transfer wakes for *)

FlightOf(w) == CHOOSE f \in inflight : f.off = w.off
Landed(f, w) == [f EXCEPT !.live = @ \ {w.peer}]

(* Mutant of Retire: a delivered flight goes though a twin is alive.      *)
RetireDelivered(f) ==
    inflight' = {g \in inflight : g.off # f.off}
                  \cup (IF f.live = {} \/ f.delivered THEN {} ELSE {f})

(* The flight that w leaves, kept while attempts are alive. *)
Retire(f) ==
    inflight' = {g \in inflight : g.off # f.off} \cup (IF f.live = {} THEN {} ELSE {f})

Hear(w) ==
    /\ pc = "wait" /\ w \in work /\ w.phase # "flying"
    /\ work' = work \ {w}
    /\ UNCHANGED <<job, plan, emitter, held, carve, fleet, parked, faults>>

(* The copy of a range whose twin was first is discarded. *)
HearTwin(w) ==
    /\ Hear(w) /\ w.phase \in {"ok", "wrong"} /\ FlightOf(w).delivered
    /\ Retire(Landed(FlightOf(w), w))
    /\ streak' = 0 /\ pc' = "launch" /\ woken' = FALSE
    /\ UNCHANGED <<buffered, bad, requeue, gate, outcome>>

HearChunk(w) ==
    /\ Hear(w) /\ w.phase \in {"ok", "wrong"} /\ ~FlightOf(w).delivered
    /\ LET units == w.off..(w.off + w.len - 1) IN
       /\ buffered' = buffered \cup units
       /\ bad' = IF w.phase = "wrong" THEN bad \cup units ELSE bad \ units
    /\ Retire([Landed(FlightOf(w), w) EXCEPT !.delivered = TRUE])
    /\ streak' = 0 /\ pc' = "pump"
    /\ UNCHANGED <<requeue, gate, woken, outcome>>

(* Mutant of Orphaned: a failure requeues though a twin is alive.         *)
OrphanedWithTwin(f) == ~f.delivered

(* Requeued when the last attempt failed and none delivered. *)
Orphaned(f) == f.live = {} /\ ~f.delivered

Requeue(f) ==
    IF Orphaned(f)
    THEN requeue' = requeue \cup {[off |-> f.off, len |-> f.len]} /\ gate' = "shut"
    ELSE UNCHANGED <<requeue, gate>>

HearFailure(w) ==
    /\ Hear(w) /\ w.phase = "failed" /\ streak + 1 < Streak
    /\ LET f == Landed(FlightOf(w), w) IN Retire(f) /\ Requeue(f)
    /\ streak' = streak + 1 /\ pc' = "launch" /\ woken' = FALSE
    /\ UNCHANGED <<buffered, bad, outcome>>

(* Failures in a row, with no completion between them, end the transfer. *)
HearLastStraw(w) ==
    /\ pc = "wait" /\ w \in work /\ w.phase = "failed" /\ streak + 1 >= Streak
    /\ End("streak")
    /\ UNCHANGED <<emission, faults>>

GateExpires ==
    /\ gate = "shut" /\ gate' = "past"
    /\ UNCHANGED <<job, plan, emission, carve, requeue, inflight, work, fleet, parked, woken,
                   streak, pc, outcome, faults>>

(* With nothing in the JoinSet the peers are polled again. *)
Repolls == \A w \in work : w.phase # "flying" \/ Detached(w)

Timer ==
    /\ pc = "wait"
    /\ (requeue # {} /\ gate = "past") \/ Repolls
    /\ pc' = "launch" /\ woken' = FALSE /\ gate' = "none"
    /\ UNCHANGED <<job, plan, emission, carve, requeue, inflight, work, fleet, parked, streak,
                   outcome, faults>>

(* Silence past stall_timeout, with no attempt within its deadline. *)
Stall ==
    /\ pc = "wait" /\ \A w \in work : w.phase # "flying"
    /\ Fault("stall")
    /\ End("stall")
    /\ UNCHANGED emission

Starved == parked # {}

WakeStarved ==
    /\ pc = "wait" /\ Starved /\ woken
    /\ pc' = "launch" /\ woken' = FALSE
    /\ UNCHANGED <<job, plan, emission, chunker, work, fleet, parked, streak, outcome, faults>>

-----------------------------------------------------------------------------
(* The surroundings *)

OtherTakes(p) ==
    /\ pc # "ended" /\ HasSlot(p) /\ Fault("busy")
    /\ slots' = [slots EXCEPT ![p] = @ + 1]
    /\ others' = [others EXCEPT ![p] = @ + 1]
    /\ UNCHANGED <<job, plan, emission, chunker, work, parked, woken, streak, health, pc,
                   outcome>>

OtherReleases(p) ==
    /\ pc # "ended" /\ others[p] > 0
    /\ FreeSlot(p)
    /\ others' = [others EXCEPT ![p] = @ - 1]
    /\ UNCHANGED <<job, plan, emission, chunker, work, parked, streak, health, pc, outcome,
                   faults>>

CooldownElapses(p) ==
    /\ pc # "ended" /\ health[p].open = "cooling"
    /\ health' = [health EXCEPT ![p].open = "elapsed"]
    /\ UNCHANGED <<job, plan, emission, chunker, work, slots, others, parked, woken, streak,
                   pc, outcome, faults>>

Next ==
    \/ Pump \/ LaunchEnds \/ Settle \/ Launch \/ GateExpires \/ Timer \/ Stall \/ WakeStarved
    \/ \E w \in work : Finish(w) \/ HearTwin(w) \/ HearChunk(w) \/ HearFailure(w)
                         \/ HearLastStraw(w)
    \/ \E p \in Peer : Starve(p) \/ OtherTakes(p) \/ OtherReleases(p) \/ CooldownElapses(p)

Spec == Init /\ [][Next]_vars

(* The task runs; deadlines end every attempt; select! and the draw are    *)
(* random, so that what stays possible again and again happens.            *)
FairSpec ==
    /\ Spec
    /\ WF_vars(Pump) /\ WF_vars(GateExpires) /\ WF_vars(Timer) /\ WF_vars(LaunchEnds) /\ WF_vars(Settle)
    /\ WF_vars(\E p \in Peer : Starve(p)) /\ SF_vars(Launch)
    /\ SF_vars(\E w \in work : HearTwin(w) \/ HearChunk(w) \/ HearFailure(w) \/ HearLastStraw(w))
    /\ SF_vars(WakeStarved)
    /\ \A p \in Peer :
         /\ WF_vars(\E w \in work : w.peer = p /\ Finish(w))
         /\ WF_vars(OtherReleases(p)) /\ WF_vars(CooldownElapses(p))

-----------------------------------------------------------------------------
(* Properties *)

Units == job.start..(job.end - 1)

(* The state stays within its types. *)
TypeOK ==
    /\ emitter.span \in 1..(Len(plan.spans) + 1) /\ emitter.pos \in job.start..job.end
    /\ buffered \subseteq Units /\ bad \subseteq buffered
    /\ requeue \subseteq [off : Units, len : 1..job.end]
    /\ inflight \subseteq [off : Units, len : 1..job.end, live : SUBSET Peer, delivered : BOOLEAN]
    /\ work \subseteq [off : Units, len : 1..job.end, peer : Peer, hedged : BOOLEAN,
                       phase : {"flying", "ok", "wrong", "failed"}]
    /\ slots \in [Peer -> 0..Limit] /\ others \in [Peer -> 0..Limit]
    /\ health \in [Peer -> [strikes : 0..Threshold, open : {"none", "cooling", "elapsed"}]]
    /\ gate \in {"none", "shut", "past"} /\ parked \subseteq Peer
    /\ streak \in 0..(Streak - 1) /\ woken \in BOOLEAN
    /\ pc \in {"pump", "launch", "settle", "wait", "ended"}
    /\ outcome \in {"running", "completed", "mismatch", "other", "gone", "slow", "stall", "streak"}

Uncarved ==
    (UNION {plan.ranges[i].at..(plan.ranges[i].at + plan.ranges[i].len - 1) :
              i \in (carve.range + 1)..Len(plan.ranges)})
      \cup (IF carve.range > Len(plan.ranges) THEN {}
            ELSE (plan.ranges[carve.range].at + carve.at)
                   ..(plan.ranges[carve.range].at + plan.ranges[carve.range].len - 1))

Undelivered == {f \in inflight : ~f.delivered}

InPlaces(u) ==
    Cardinality({f \in Undelivered : u \in f.off..(f.off + f.len - 1)})
      + Cardinality({c \in requeue : u \in c.off..(c.off + c.len - 1)})
      + (IF u \in buffered THEN 1 ELSE 0) + (IF u \in Uncarved THEN 1 ELSE 0)

ToFetch ==
    UNION {s.at..(s.at + s.len - 1) : s \in {t \in ToSet(plan.spans) : t.do = "fetch"}}

(* Every unit still to be fetched and emitted is in exactly one place: the *)
(* ranges not carved yet, the requeue, a flight that has not delivered, or *)
(* the buffer.  None is forgotten when an attempt fails beside its twin,   *)
(* a requeue is carved again or a fragment pruned, and none is bought by   *)
(* two flights (run_transfer's Flight bookkeeping).                        *)
EachUnitInOnePlace ==
    /\ TypeOK
    /\ pc # "ended" => \A u \in ToFetch : u >= emitter.pos => InPlaces(u) = 1

(* A flight and the workers that have not been heard of match: no range    *)
(* waits for a worker that is gone, and no Done finds its flight gone, the *)
(* case the code treats as one that should not happen.                     *)
FlightsAreManned ==
    pc # "ended" =>
      /\ \A f \in inflight : f.live # {}
      /\ {<<w.off, w.peer>> : w \in work}
           = UNION {{f.off} \X f.live : f \in inflight}

HeldBytes == MapThenSumSet(LAMBDA k : IF held[k].due > 0 THEN held[k].len ELSE 0, DOMAIN held)

(* Memory is bounded: what is kept for replay never exceeds                *)
(* dedup_budget_bytes, and the buffer reaches at most a chunk past the     *)
(* window, also when chunks come back out of order or are carved again.    *)
MemoryIsBounded ==
    /\ HeldBytes <= Budget
    /\ \A u \in buffered : u < emitter.pos + Window - 1 + Max(Chunks)

(* A replay finds its copy, at its length, and the last one frees it: the  *)
(* aborts for a plan bug do not happen, whatever the manifest claims.      *)
ReplaysFindCopies ==
    /\ outcome # "other"
    /\ outcome = "completed" => HeldBytes = 0

(* A slot in use is another transfer's or has a worker in the air: an end, *)
(* with attempts in flight, gives back exactly the slots of those it kills.*)
SlotsAreHeldByWorkers ==
    \A p \in Peer : slots[p] = others[p] + Cardinality(Flying(p))

(* A starved transfer that sleeps without having been notified waits for a *)
(* peer that is still busy: no release between probe and sleep is missed.  *)
NoReleaseIsMissed ==
    pc = "wait" /\ Starved /\ ~woken => \A p \in parked : ~HasSlot(p)

(* A transfer that completes has sent every byte, and a whole NAR only     *)
(* right ones: what a lying peer or manifest put in stopped it before.     *)
CompletedIsCorrect ==
    outcome = "completed" =>
      /\ emitter.pos = job.end
      /\ job.full => ~emitter.wrong

(* Once the faults are over the transfer ends; it always ends, so that the *)
(* window, retention, breakers, gate and slots never wait on each other.   *)
Ends == <>(pc = "ended")

============================================================================
