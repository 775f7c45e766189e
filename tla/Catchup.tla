------------------------------ MODULE Catchup ------------------------------
(***************************************************************************)
(* The journal catch-up engine of one node for one origin (sync.rs,        *)
(* Catchup and Sync::engine_loop) with the leases that keep the classic     *)
(* rounds of its peer loops away from the origin while the engine serves   *)
(* it.  A classic round whose suffix was truncated hands the origin over;  *)
(* the engine fetches seq ranges from several peers at once, reorders them *)
(* and applies the contiguous prefix; cancellation, three failures in a    *)
(* row or a gap hand it back, while asks may still be in flight.           *)
(*                                                                         *)
(* What peers hold is abstract: a clock per peer that follows the origin.  *)
(* How a replica applies suffixes and snapshots is detailed in Possession. *)
(***************************************************************************)
EXTENDS Naturals, Sequences, FiniteSets

CONSTANTS
    Peer,          \* the peers, each with a pull loop of its own
    Backlog,       \* the origin's seq when the node starts, behind, at seq 0
    Chunk,         \* CHUNK_EVENTS
    Window,        \* ENGINE_WINDOW
    Strikes,       \* ENGINE_STRIKES
    Backstop,      \* JOURNAL_BACKSTOP
    MaxGen,        \* bound: generations of the origin
    MaxSeq,        \* bound: events of its first generation, the loss of it included
    MaxReborn,     \* bound: events of a later generation
    MaxFailures,   \* bound: failed asks and rounds, dispatches without a peer
    MaxQueue,      \* bound: enrolments waiting when a round starts
    LeasesExpire   \* may a round outlast LEASE_TTL

ASSUME CatchupAssumption ==
    /\ {Backlog, Chunk, Window, Strikes, Backstop} \subseteq Nat \ {0}
    /\ {MaxGen, MaxSeq, MaxReborn, MaxFailures, MaxQueue} \subseteq Nat
    /\ LeasesExpire \in BOOLEAN
ASSUME PeerAssumption == {"engine", "none"} \cap Peer = {}

VARIABLES
    origin,    \* the clock of the origin itself
    peer,      \* peer[p]: p's clock for it, with the tail of p's journal
    clock,     \* this node's clock for it
    jour,      \* the seqs of the rows this node journaled since its last snapshot
    lease,     \* who serves its bodies: a peer loop, "engine" or "none"
    round,     \* round[p]: the classic round of p's loop
    queue,     \* engine_tx: enrolments on their way to the engine
    plan,      \* the engine's OriginPlan, NoPlan when there is none
    flights,   \* range asks dispatched, with their answers when they are back
    engine,    \* where the engine loop is
    failures   \* number of failures so far

vars == <<origin, peer, clock, jour, lease, round, queue, plan, flights, engine, failures>>

net == <<origin, peer>>
store == <<clock, jour>>

-----------------------------------------------------------------------------
(* Data *)

Clock == [gen : Nat, seq : Nat]
PeerClock == [gen : Nat, seq : Nat, tail : Nat]

(* Consecutive events: seqs after from, up to last. *)
Events == [from : Nat, last : Nat]
NoEvents == [from |-> 0, last |-> 0]

(* stray, for the properties alone: an ask of an abandoned plan came back    *)
(* to this one.                                                            *)
OriginPlan == [gen : Nat, cursor : Nat, next : Nat, target : Nat,
               buffered : SUBSET Events, retry : Seq(Nat \X Nat), strikes : 0..(Strikes - 1),
               stray : BOOLEAN]

NoPlan == [gen |-> 0, cursor |-> 0, next |-> 0, target |-> 0,
           buffered |-> {}, retry |-> <<>>, strikes |-> 0, stray |-> FALSE]

(* have: the clock sent; body: what came back, under which advertised clock. *)
Round == [phase : {"idle", "asked", "answered", "applied"}, have : Clock, skip : BOOLEAN,
          adv : Clock, body : {"nothing", "line", "suffix", "snapshot"},
          events : Events, truncated : BOOLEAN]

Resting == [phase |-> "idle", have |-> [gen |-> 0, seq |-> 0], skip |-> FALSE,
            adv |-> [gen |-> 0, seq |-> 0], body |-> "nothing",
            events |-> NoEvents, truncated |-> FALSE]

Enrolment == [gen : Nat, target : Nat]

(* n tells apart asks for the same range; stale, for the properties alone:  *)
(* the plan that asked was dropped.                                        *)
Flight == [n : 1..Window, gen : Nat, after : Nat, until : Nat, to : Peer,
           phase : {"out", "back"}, stale : BOOLEAN, events : Events]

(* select: waiting; fill: filling the window; drain: applying the head of   *)
(* the reorder buffer; commit: apply_suffix past its checks, at clock at.  *)
Engine == [pc : {"select", "fill", "drain", "commit"}, events : Events, at : Clock]

At(pc) == [pc |-> pc, events |-> NoEvents, at |-> [gen |-> 0, seq |-> 0]]

Larger(a, b) == IF a >= b THEN a ELSE b
Smaller(a, b) == IF a <= b THEN a ELSE b

(* The asks left in flight by a step; a plan that it drops leaves them stale. *)
InFlight(fs) ==
    flights' = IF plan' = NoPlan THEN {[f EXCEPT !.stale = TRUE] : f \in fs} ELSE fs

Failing == failures < MaxFailures /\ failures' = failures + 1

-----------------------------------------------------------------------------
(* The origin and the peers' copies of its journal *)

Export ==
    /\ origin.seq < (IF origin.gen = 1 THEN MaxSeq ELSE MaxReborn)
    /\ origin' = [origin EXCEPT !.seq = @ + 1]
    /\ UNCHANGED <<peer, store, lease, round, queue, plan, flights, engine, failures>>

(* A lost store restarts the seqs. *)
Regenerate ==
    /\ origin.gen < MaxGen /\ origin.seq < MaxSeq
    /\ origin' = [gen |-> origin.gen + 1, seq |-> 0]
    /\ UNCHANGED <<peer, store, lease, round, queue, plan, flights, engine, failures>>

(* A peer catches up, by suffixes or by a snapshot, or compacts. *)
Follow(p) ==
    /\ \E tail \in {IF peer[p].gen = origin.gen THEN peer[p].tail ELSE 0, origin.seq} :
         peer' = [peer EXCEPT ![p] = [gen |-> origin.gen, seq |-> origin.seq,
                                      tail |-> tail]]
    /\ peer' # peer
    /\ UNCHANGED <<origin, store, lease, round, queue, plan, flights, engine, failures>>

-----------------------------------------------------------------------------
(* Leases *)

Unenroll == lease' = "none"

(* claim_origins: p's loop takes the origin unless the engine or a loop     *)
(* whose lease is not stale has it.                                        *)
Serving(p) ==
    \/ lease = "engine"
    \/ lease \in Peer \ {p}

Claim(p) ==
    /\ round[p].phase = "idle"
    /\ Len(queue) < MaxQueue
    /\ \E skip \in BOOLEAN :
         /\ skip => Serving(p)
         /\ Serving(p) /\ ~skip => lease \in Peer /\ LeasesExpire
         /\ lease' = IF skip THEN lease ELSE p
         /\ round' = [round EXCEPT ![p] =
                        [Resting EXCEPT !.phase = "asked", !.have = clock, !.skip = skip]]
    /\ UNCHANGED <<net, store, queue, plan, flights, engine, failures>>

(* settle_leases: p's claim is released, a truncated suffix that carried   *)
(* events goes to the engine, and clock lines raise the engine's target.   *)
Settle(p) ==
    LET r == round[p]
        fresh == r.body = "suffix" /\ r.truncated
        kept == IF lease = p THEN "none" ELSE lease
    IN
    /\ r.phase = "applied"
    /\ lease' = IF fresh THEN "engine" ELSE kept
    /\ queue' = IF r.body # "nothing" /\ (fresh \/ kept = "engine")
                THEN Append(queue, [gen |-> r.adv.gen, target |-> r.adv.seq])
                ELSE queue
    /\ round' = [round EXCEPT ![p] = Resting]
    /\ UNCHANGED <<net, store, plan, flights, engine, failures>>

(* A pull that fails releases what its loop was serving. *)
RoundFails(p) ==
    /\ round[p].phase = "asked"
    /\ Failing
    /\ lease' = IF lease = p THEN "none" ELSE lease
    /\ round' = [round EXCEPT ![p] = Resting]
    /\ UNCHANGED <<net, store, queue, plan, flights, engine>>

-----------------------------------------------------------------------------
(* Classic rounds *)

(* respond: nothing, a clock line, a suffix cut anywhere, or a snapshot. *)
Answer(p) ==
    LET r == round[p]
        c == peer[p]
        back == [Resting EXCEPT !.phase = "answered", !.adv = [gen |-> c.gen, seq |-> c.seq]]
    IN
    /\ r.phase = "asked"
    /\ \/ /\ r.have.gen > c.gen
          /\ round' = [round EXCEPT ![p] = [Resting EXCEPT !.phase = "answered"]]
       \/ /\ r.have.gen <= c.gen
          /\ r.skip \/ (r.have.gen = c.gen /\ r.have.seq >= c.seq)
          /\ round' = [round EXCEPT ![p] = [back EXCEPT !.body = "line"]]
       \/ /\ ~r.skip /\ r.have.gen = c.gen
          /\ c.tail <= r.have.seq /\ r.have.seq < c.seq
          /\ \E last \in (r.have.seq + 1)..c.seq :
               round' = [round EXCEPT ![p] =
                 [back EXCEPT !.body = "suffix", !.truncated = (last < c.seq),
                              !.events = [from |-> r.have.seq, last |-> last]]]
       \/ /\ ~r.skip
          /\ r.have.gen < c.gen \/ (r.have.gen = c.gen /\ r.have.seq < c.tail)
          /\ round' = [round EXCEPT ![p] = [back EXCEPT !.body = "snapshot"]]
    /\ UNCHANGED <<net, store, lease, queue, plan, flights, engine, failures>>

(* Mutant of Verdict: a suffix that starts past the clock is taken.        *)
VerdictNoGap(c, gen, ev) ==
    CASE gen < c.gen -> "ignored"
      [] gen > c.gen /\ c # [gen |-> 0, seq |-> 0] -> "gap"
      [] OTHER -> IF ev.last <= c.seq THEN "ignored" ELSE "connects"

(* apply_suffix's verdict on events relayed under gen, at clock c. *)
Verdict(c, gen, ev) ==
    CASE gen < c.gen -> "ignored"
      [] gen > c.gen /\ c # [gen |-> 0, seq |-> 0] -> "gap"
      [] OTHER -> IF ev.last <= c.seq THEN "ignored"
                  ELSE IF ev.from > c.seq THEN "gap" ELSE "connects"

(* The events past the clock are journaled and the clock moves to the last. *)
Journal(gen, ev) ==
    /\ clock' = [gen |-> gen, seq |-> ev.last]
    /\ jour' = jour \cup (Larger(clock.seq, ev.from) + 1)..ev.last

(* replace_holdings takes a snapshot unless its clock is behind ours. *)
Newer(a, c) == a.gen > c.gen \/ (a.gen = c.gen /\ a.seq >= c.seq)

ApplyRound(p) ==
    LET r == round[p] IN
    /\ r.phase = "answered"
    /\ \/ /\ r.body = "suffix" /\ Verdict(clock, r.adv.gen, r.events) = "connects"
          /\ Journal(r.adv.gen, r.events)
       \/ /\ r.body = "snapshot" /\ Newer(r.adv, clock)
          /\ clock' = r.adv
          /\ jour' = {}
       \/ /\ r.body \in {"nothing", "line"}
             \/ (r.body = "suffix" /\ Verdict(clock, r.adv.gen, r.events) # "connects")
             \/ (r.body = "snapshot" /\ ~Newer(r.adv, clock))
          /\ UNCHANGED store
    (* A suffix that does not connect is not handed to the engine. *)
    /\ round' = [round EXCEPT ![p] = [r EXCEPT !.phase = "applied",
                   !.events = NoEvents,
                   !.truncated = @ /\ Verdict(clock, r.adv.gen, r.events) # "gap"]]
    /\ UNCHANGED <<net, lease, queue, plan, flights, engine, failures>>

-----------------------------------------------------------------------------
(* The engine loop *)

Fresh(gen) == [NoPlan EXCEPT !.gen = gen, !.cursor = clock.seq, !.next = clock.seq,
                             !.target = clock.seq]

(* Catchup::enroll: registers the origin or raises its target; a new        *)
(* generation or a head past the retention window cancels the plan.        *)
Enroll(e) ==
    LET p == IF plan = NoPlan THEN Fresh(e.gen) ELSE plan
        target == Larger(p.target, e.target)
    IN
    \/ /\ p.gen = e.gen /\ target <= p.cursor + Backstop
       /\ plan' = [p EXCEPT !.target = target]
       /\ UNCHANGED lease
    \/ /\ p.gen # e.gen \/ target > p.cursor + Backstop
       /\ plan' = NoPlan
       /\ Unenroll

RecvEnrol ==
    /\ engine.pc = "select"
    /\ queue # <<>>
    /\ queue' = Tail(queue)
    /\ LET e == queue[1]
           behind == clock.gen = e.gen /\ clock.seq < e.target
       IN \/ behind /\ Enroll(e)
          \/ ~behind /\ plan = NoPlan /\ Unenroll /\ UNCHANGED plan
          \/ ~behind /\ plan # NoPlan /\ UNCHANGED <<plan, lease>>
    /\ InFlight(flights)
    /\ engine' = At("fill")
    /\ UNCHANGED <<net, store, round, failures>>

(* Catchup::next_ask: the range to fetch next and the plan without it. *)
NextAsk ==
    IF plan = NoPlan \/ Cardinality(flights) >= Window THEN {}
    ELSE IF plan.retry # <<>>
    THEN {[after |-> plan.retry[1][1], until |-> plan.retry[1][2],
           plan |-> [plan EXCEPT !.retry = Tail(@)]]}
    ELSE IF plan.next < plan.target
    THEN LET until == Smaller(plan.next + Chunk, plan.target) IN
         {[after |-> plan.next, until |-> until, plan |-> [plan EXCEPT !.next = until]]}
    ELSE {}

Dispatch(p) ==
    /\ engine.pc = "fill"
    /\ \E a \in NextAsk :
         /\ plan' = a.plan
         /\ flights' = flights \cup
              {[n |-> CHOOSE n \in 1..Window : \A f \in flights : f.n # n,
                gen |-> plan.gen, after |-> a.after, until |-> a.until, to |-> p,
                phase |-> "out", stale |-> FALSE, events |-> NoEvents]}
    /\ UNCHANGED <<net, store, lease, round, queue, engine, failures>>

(* Mutant of Unpick: the range is not put back.                           *)
UnpickForgets ==
    /\ engine.pc = "fill"
    /\ Failing
    /\ \E a \in NextAsk : plan' = a.plan
    /\ engine' = At("select")
    /\ UNCHANGED <<net, store, lease, round, queue, flights>>

(* No peer is available: the range goes back to the front of the queue. *)
Unpick ==
    /\ engine.pc = "fill"
    /\ Failing
    /\ \E a \in NextAsk :
         plan' = [a.plan EXCEPT !.retry = <<<<a.after, a.until>>>> \o @]
    /\ engine' = At("select")
    /\ UNCHANGED <<net, store, lease, round, queue, flights>>

Filled ==
    /\ engine.pc = "fill"
    /\ NextAsk = {}
    /\ engine' = At("select")
    /\ UNCHANGED <<net, store, lease, round, queue, plan, flights, failures>>

(* The 5 s timer: work queued and nothing in flight. *)
Tick ==
    /\ engine.pc = "select"
    /\ flights = {} /\ plan # NoPlan
    /\ plan.retry # <<>> \/ plan.next < plan.target
    /\ engine' = At("fill")
    /\ UNCHANGED <<net, store, lease, round, queue, plan, flights, failures>>

(* respond_ranges at the peer: the rows asked for, cut anywhere past the   *)
(* first, or unreachable.                                                  *)
AnswerRange(f) ==
    LET c == peer[f.to]
        reachable == c.gen = f.gen /\ c.tail <= f.after /\ f.after < Smaller(f.until, c.seq)
    IN
    /\ f.phase = "out"
    /\ \/ /\ reachable
          /\ \E last \in (f.after + 1)..Smaller(f.until, c.seq) :
               flights' = (flights \ {f}) \cup
                 {[f EXCEPT !.phase = "back",
                            !.events = [from |-> f.after, last |-> last]]}
       \/ /\ ~reachable
          /\ flights' = (flights \ {f}) \cup {[f EXCEPT !.phase = "back"]}
    /\ UNCHANGED <<net, store, lease, round, queue, plan, engine, failures>>

(* The exchange fails or times out. *)
RangeFails(f) ==
    /\ f.phase = "out"
    /\ Failing
    /\ flights' = (flights \ {f}) \cup {[f EXCEPT !.phase = "back"]}
    /\ UNCHANGED <<net, store, lease, round, queue, plan, engine>>

(* Mutant of Complete: a short answer counts as the whole range.           *)
CompleteShort(f) ==
    [plan EXCEPT !.strikes = 0,
                 !.buffered = {ev \in @ : ev.from # f.after} \cup {f.events},
                 !.stray = @ \/ f.stale]

(* Catchup::complete: buffered under its after; the shortfall is requeued. *)
Complete(f) ==
    [plan EXCEPT !.strikes = 0,
                 !.retry = IF f.events.last < f.until
                           THEN Append(@, <<f.events.last, f.until>>) ELSE @,
                 !.buffered = {ev \in @ : ev.from # f.after} \cup {f.events},
                 !.stray = @ \/ f.stale]

(* Some answers outlive the plan that asked for them. *)
RecvEvents(f) ==
    /\ engine.pc = "select"
    /\ f.phase = "back" /\ f.events # NoEvents
    /\ plan' = IF plan = NoPlan THEN plan ELSE Complete(f)
    /\ InFlight(flights \ {f})
    /\ engine' = At("drain")
    /\ UNCHANGED <<net, store, lease, round, queue, failures>>

(* Mutant of RecvFailure: the last strike drops the plan and keeps the lease. *)
RecvFailureKeepsLease(f) ==
    LET struck == [plan EXCEPT !.retry = Append(@, <<f.after, f.until>>), !.strikes = @ + 1,
                               !.stray = @ \/ f.stale]
    IN
    /\ engine.pc = "select"
    /\ f.phase = "back" /\ f.events = NoEvents
    /\ plan' = IF plan = NoPlan \/ struck.strikes >= Strikes THEN NoPlan ELSE struck
    /\ InFlight(flights \ {f})
    /\ engine' = At("fill")
    /\ UNCHANGED <<net, store, lease, round, queue, failures>>

(* Catchup::strike: requeued; the origin goes back at ENGINE_STRIKES. *)
RecvFailure(f) ==
    LET struck == [plan EXCEPT !.retry = Append(@, <<f.after, f.until>>), !.strikes = @ + 1,
                               !.stray = @ \/ f.stale]
        drops == plan # NoPlan /\ struck.strikes >= Strikes
    IN
    /\ engine.pc = "select"
    /\ f.phase = "back" /\ f.events = NoEvents
    /\ plan' = IF plan = NoPlan \/ drops THEN NoPlan ELSE struck
    /\ InFlight(flights \ {f})
    /\ lease' = IF drops THEN "none" ELSE lease
    /\ engine' = At("fill")
    /\ UNCHANGED <<net, store, round, queue, failures>>

-----------------------------------------------------------------------------
(* Draining the reorder buffer (Sync::drain_applies) *)

(* Catchup::take_ready: the first buffered range, when it touches the cursor. *)
Ready == {ev \in plan.buffered : /\ ev.from <= plan.cursor
                                 /\ \A o \in plan.buffered : ev.from <= o.from}

(* Catchup::applied *)
Applied(p, last) ==
    LET cursor == Larger(p.cursor, last)
    IN [p EXCEPT !.cursor = cursor, !.next = Larger(@, cursor)]

(* take_ready and apply_suffix up to the store call. *)
Take ==
    /\ engine.pc = "drain"
    /\ \E ev \in Ready :
         LET rest == [plan EXCEPT !.buffered = @ \ {ev}]
             verdict == Verdict(clock, plan.gen, ev)
         IN
         \/ /\ verdict = "connects"
            /\ plan' = rest
            /\ engine' = [pc |-> "commit", events |-> ev, at |-> clock]
            /\ UNCHANGED lease
         \/ /\ verdict = "ignored"
            /\ plan' = Applied(rest, ev.last)
            /\ UNCHANGED <<lease, engine>>
         \/ /\ verdict = "gap"
            /\ plan' = NoPlan
            /\ Unenroll
            /\ UNCHANGED engine
    /\ InFlight(flights)
    /\ UNCHANGED <<net, store, round, queue, failures>>

(* Mutant of Commit: the clock apply_suffix read is not checked again.     *)
CommitUngated ==
    /\ engine.pc = "commit"
    /\ Journal(plan.gen, engine.events)
    /\ plan' = Applied(plan, engine.events.last)
    /\ engine' = At("drain")
    /\ UNCHANGED <<net, lease, round, queue, flights, failures>>

(* apply_events under the expect gate; the cursor moves whoever won. *)
Commit ==
    /\ engine.pc = "commit"
    /\ IF clock = engine.at THEN Journal(plan.gen, engine.events) ELSE UNCHANGED store
    /\ plan' = Applied(plan, engine.events.last)
    /\ engine' = At("drain")
    /\ UNCHANGED <<net, lease, round, queue, flights, failures>>

(* Catchup::finished, which holds of an origin without a plan too. *)
Finished == plan.cursor >= plan.target /\ plan.buffered = {} /\ plan.retry = <<>>

Drained ==
    /\ engine.pc = "drain"
    /\ Ready = {}
    /\ \/ Finished /\ plan' = NoPlan /\ Unenroll
       \/ ~Finished /\ UNCHANGED <<plan, lease>>
    /\ InFlight(flights)
    /\ engine' = At("fill")
    /\ UNCHANGED <<net, store, round, queue, failures>>

-----------------------------------------------------------------------------

Init ==
    /\ origin = [gen |-> 1, seq |-> Backlog]
    /\ peer = [p \in Peer |-> [gen |-> 1, seq |-> Backlog, tail |-> 0]]
    /\ clock = [gen |-> 1, seq |-> 0]
    /\ jour = {}
    /\ lease = "none"
    /\ round = [p \in Peer |-> Resting]
    /\ queue = <<>>
    /\ plan = NoPlan
    /\ flights = {}
    /\ engine = At("select")
    /\ failures = 0

Mesh == Export \/ Regenerate \/ \E p \in Peer : Follow(p)

Pull(p) == Claim(p) \/ Answer(p) \/ ApplyRound(p) \/ Settle(p)

Fill == Unpick \/ Filled \/ \E p \in Peer : Dispatch(p)

Select == RecvEnrol \/ Tick \/ \E f \in flights : RecvEvents(f) \/ RecvFailure(f)

Drain == Take \/ Commit \/ Drained

Next ==
    \/ Mesh
    \/ \E p \in Peer : Pull(p) \/ RoundFails(p)
    \/ Fill \/ Select \/ Drain
    \/ \E f \in flights : AnswerRange(f) \/ RangeFails(f)

Spec == Init /\ [][Next]_vars

(* Loops and the engine run; an exchange ends, if only by its timeout.     *)
Fairness ==
    /\ \A p \in Peer : WF_vars(Pull(p))
    /\ WF_vars(\E p \in Peer : Dispatch(p))
    /\ WF_vars(Filled)
    /\ SF_vars(RecvEnrol)
    /\ SF_vars(\E f \in flights : RecvEvents(f) \/ RecvFailure(f))
    /\ WF_vars(Tick)
    /\ WF_vars(Drain)
    /\ WF_vars(\E f \in flights : AnswerRange(f))

FairSpec == Spec /\ Fairness

-----------------------------------------------------------------------------
(* Properties *)

TypeOK ==
    /\ origin \in Clock
    /\ peer \in [Peer -> PeerClock]
    /\ clock \in Clock
    /\ jour \subseteq Nat
    /\ lease \in Peer \cup {"engine", "none"}
    /\ round \in [Peer -> Round]
    /\ queue \in Seq(Enrolment)
    /\ plan \in OriginPlan
    /\ flights \subseteq Flight
    /\ engine \in Engine
    /\ failures \in Nat

(* Every seq the plan still owes is queued, in flight, buffered, being      *)
(* applied or not asked for yet: nothing is dropped between a short answer, *)
(* a failure, a dispatch without a peer and a reordering ("Nothing left to *)
(* fetch, buffer, or apply", sync.rs Catchup::finished).  A plan that took *)
(* an answer meant for an earlier one is exempt: see AlwaysReleased.       *)
Covered ==
    /\ TypeOK
    /\ plan # NoPlan /\ ~plan.stray =>
        \A n \in (plan.cursor + 1)..plan.target :
            \/ n > plan.next
            \/ \E i \in DOMAIN plan.retry : plan.retry[i][1] < n /\ n <= plan.retry[i][2]
            \/ \E f \in flights : ~f.stale /\ f.after < n /\ n <= f.until
            \/ \E ev \in plan.buffered \cup {engine.events} : ev.from < n /\ n <= ev.last

(* The engine's lease never expires, so it must never outlive the engine's *)
(* interest: as long as it stands there is a plan or an enrolment to come  *)
(* ("the engine removes them itself on completion or abort", claim_origins). *)
LeaseHasOwner == lease = "engine" => plan # NoPlan \/ queue # <<>>

(* Rows are journaled without holes whichever of the engine, its reordered *)
(* ranges and the rounds of several loops applied them: a relay must not   *)
(* serve a suffix with a gap (apply_suffix).                               *)
NoHoles ==
    \A first \in jour : first..clock.seq \subseteq jour

(* A copy never goes back: not to an older generation, nor to a smaller seq *)
(* of its own, whichever of several overlapping answers is applied last.   *)
NeverBack == [][/\ clock.gen <= clock'.gen
                /\ clock.gen = clock'.gen => clock.seq <= clock'.seq]_vars

(* The engine gives the origin back: it is caught up or the classic path    *)
(* takes over, whatever fails or comes in between.  Answers that outlive   *)
(* the plan that asked for them are the exception AlwaysReleased is about. *)
Released == lease = "engine" ~> lease # "engine" \/ plan.stray

(* "Engine leases are exempt from the TTL: the engine removes them itself   *)
(* on completion or abort" (claim_origins).  complete() and strike() look  *)
(* the plan up by origin alone: a late answer can replace a longer range   *)
(* in the buffer, or wait there past the target of a plan that is done.    *)
AlwaysReleased == lease = "engine" ~> lease # "engine"

=============================================================================
