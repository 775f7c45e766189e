---------------------------- MODULE CatchupProofs ----------------------------
(* Proofs about Catchup, for every set of peers, window, chunk and bound.  *)
EXTENDS Catchup, FiniteSetTheorems, TLAPS

-----------------------------------------------------------------------------
(* The inductive invariant *)

(* The ranges (a, b] and (c, d] have no seq in common.                     *)
Apart(a, b, c, d) == b <= c \/ d <= a

(* An answer is a first part of what was asked for.                        *)
AnswerInv ==
    \A f \in flights :
        /\ f.phase = "out" => f.events = NoEvents
        /\ f.events # NoEvents => /\ f.events.from = f.after
                                  /\ f.after < f.events.last
                                  /\ f.events.last <= f.until

(* Events are on their way to the store only while a plan is there, and    *)
(* they connect to the clock they were checked against.                    *)
EngineInv ==
    /\ engine.pc # "commit" => engine.events = NoEvents
    /\ engine.pc = "commit" => /\ plan # NoPlan
                               /\ Verdict(engine.at, plan.gen, engine.events) = "connects"

(* A plan has somewhere to go and asks for nothing past it; the asks of    *)
(* other plans are marked.                                                 *)
PlanInv ==
    /\ plan # NoPlan => /\ plan.target # 0
                        /\ plan.next <= Larger(plan.cursor, plan.target)
    /\ plan = NoPlan => \A f \in flights : f.stale

(* The ranges a plan has handed out, and not all applied, overlap nowhere: *)
(* an answer never pushes a longer one out of the reorder buffer.          *)
RetryTidy ==
    \A i \in DOMAIN plan.retry :
        /\ plan.retry[i][1] < plan.retry[i][2] /\ plan.retry[i][2] <= plan.next
        /\ \A j \in DOMAIN plan.retry :
             j # i => Apart(plan.retry[i][1], plan.retry[i][2],
                            plan.retry[j][1], plan.retry[j][2])
        /\ \A f \in flights :
             ~f.stale => Apart(plan.retry[i][1], plan.retry[i][2], f.after, f.until)
        /\ \A ev \in plan.buffered :
             Apart(plan.retry[i][1], plan.retry[i][2], ev.from, ev.last)

FlightsTidy ==
    \A f \in flights : ~f.stale =>
        /\ f.after < f.until /\ f.until <= plan.next
        /\ \A g \in flights :
             (~g.stale /\ g # f) => Apart(f.after, f.until, g.after, g.until)
        /\ \A ev \in plan.buffered : Apart(f.after, f.until, ev.from, ev.last)

BufferTidy ==
    \A ev \in plan.buffered :
        /\ ev.from < ev.last /\ ev.last <= plan.next
        /\ \A o \in plan.buffered : o # ev => Apart(ev.from, ev.last, o.from, o.last)

TidyInv ==
    plan # NoPlan /\ ~plan.stray => RetryTidy /\ FlightsTidy /\ BufferTidy

Finite == IsFiniteSet(flights)

IInv == AnswerInv /\ EngineInv /\ PlanInv /\ TidyInv /\ Covered

-----------------------------------------------------------------------------
(* Types *)

USE DEF Clock, Events, NoEvents

(* Fewer asks than the window leave a number free for the next one.        *)
LEMMA FreeNumber ==
    ASSUME NEW fs \in SUBSET Flight, IsFiniteSet(fs), Cardinality(fs) < Window
    PROVE  (CHOOSE n \in 1..Window : \A f \in fs : f.n # n) \in 1..Window
<1> DEFINE ns == {f.n : f \in fs}
           num == [f \in fs |-> f.n]
<1>0. Window \in Nat BY CatchupAssumption
<1>1. num \in Surjection(fs, ns) BY DEF Surjection
<1>2. IsFiniteSet(ns) /\ Cardinality(ns) <= Cardinality(fs)
  BY <1>1, FS_Surjection
<1>3. \E n \in 1..Window : n \notin ns
  <2> SUFFICES ASSUME 1..Window \subseteq ns PROVE FALSE
    OBVIOUS
  <2>1. Cardinality(1..Window) <= Cardinality(ns) BY <1>2, FS_Subset
  <2>2. Cardinality(1..Window) = Window BY <1>0, FS_Interval
  <2>3. Cardinality(fs) \in Nat /\ Cardinality(ns) \in Nat BY <1>2, FS_CardinalityType
  <2> QED BY <1>0, <1>2, <2>1, <2>2, <2>3
<1> QED BY <1>3

LEMMA NoPlanType == NoPlan \in OriginPlan
<1>1. <<>> \in Seq(Nat \X Nat) OBVIOUS
<1>2. Strikes \in Nat \ {0} BY CatchupAssumption
<1> QED BY <1>1, <1>2 DEF NoPlan, OriginPlan

LEMMA RestingType == Resting \in Round
BY DEF Resting, Round

LEMMA AtType == \A pc \in {"select", "fill", "drain", "commit"} : At(pc) \in Engine
BY DEF At, Engine

LEMMA InFlightType ==
    ASSUME NEW fs \in SUBSET Flight, IsFiniteSet(fs), InFlight(fs)
    PROVE  flights' \subseteq Flight /\ IsFiniteSet(flights')
<1>1. \A f \in Flight : [f EXCEPT !.stale = TRUE] \in Flight BY DEF Flight
<1>2. CASE plan' = NoPlan
  <2>1. flights' = {[f EXCEPT !.stale = TRUE] : f \in fs} BY <1>2 DEF InFlight
  <2>2. IsFiniteSet(flights')
    <3> DEFINE g == [f \in fs |-> [f EXCEPT !.stale = TRUE]]
    <3>1. g \in Surjection(fs, flights') BY <2>1 DEF Surjection
    <3> QED BY <3>1, FS_Surjection
  <2> QED BY <1>1, <2>1, <2>2
<1>3. CASE plan' # NoPlan BY <1>3 DEF InFlight
<1> QED BY <1>2, <1>3

(* One answer replaces its ask.                                            *)
LEMMA ReplaceFlightType ==
    ASSUME TypeOK, Finite, NEW f \in flights, NEW g \in Flight,
           flights' = (flights \ {f}) \cup {g}
    PROVE  flights' \subseteq Flight /\ IsFiniteSet(flights')
<1>1. IsFiniteSet(flights \ {f}) BY FS_RemoveElement DEF Finite
<1>2. IsFiniteSet((flights \ {f}) \cup {g}) BY <1>1, FS_AddElement
<1> QED BY <1>2 DEF TypeOK

LEMMA JournalType ==
    ASSUME TypeOK, NEW gen \in Nat, NEW ev \in Events, Journal(gen, ev)
    PROVE  clock' \in Clock /\ jour' \subseteq Nat
<1>1. clock.seq \in Nat /\ ev.from \in Nat /\ ev.last \in Nat /\ jour \subseteq Nat
  BY DEF TypeOK
<1>2. Larger(clock.seq, ev.from) \in Nat BY <1>1 DEF Larger
<1>3. (Larger(clock.seq, ev.from) + 1)..ev.last \subseteq Nat BY <1>1, <1>2
<1> QED BY <1>1, <1>3 DEF Journal

LEMMA TypeInit == Init => TypeOK /\ Finite
BY CatchupAssumption, NoPlanType, RestingType, AtType, FS_EmptySet
   DEF Init, TypeOK, PeerClock, Finite

LEMMA MeshType == ASSUME TypeOK, Finite, Mesh PROVE TypeOK' /\ Finite'
<1>1. UNCHANGED <<store, lease, round, queue, plan, flights, engine, failures>>
  BY DEF Mesh, Export, Regenerate, Follow
<1>2. origin' \in Clock BY DEF Mesh, Export, Regenerate, Follow, TypeOK
<1>3. peer' \in [Peer -> PeerClock]
  <2>1. CASE \E p \in Peer : Follow(p)
    <3>1. PICK p \in Peer : Follow(p) BY <2>1
    <3>2. PICK tail \in {IF peer[p].gen = origin.gen THEN peer[p].tail ELSE 0, origin.seq} :
            peer' = [peer EXCEPT ![p] = [gen |-> origin.gen, seq |-> origin.seq,
                                         tail |-> tail]]
      BY <3>1 DEF Follow
    <3>3. tail \in Nat BY DEF TypeOK, PeerClock
    <3> QED BY <3>2, <3>3 DEF TypeOK, PeerClock
  <2>2. CASE UNCHANGED peer BY <2>2 DEF TypeOK
  <2> QED BY <2>1, <2>2 DEF Mesh, Export, Regenerate
<1> QED BY <1>1, <1>2, <1>3 DEF TypeOK, Finite, store

LEMMA PullType ==
    ASSUME TypeOK, Finite, NEW p \in Peer, Pull(p) \/ RoundFails(p)
    PROVE  TypeOK' /\ Finite'
<1>0. /\ round[p] \in Round /\ peer[p] \in PeerClock /\ clock \in Clock
  BY DEF TypeOK
<1>r. ASSUME NEW r \in Round, round' = [round EXCEPT ![p] = r]
      PROVE  round' \in [Peer -> Round]
  BY <1>r DEF TypeOK
<1>1. CASE Claim(p)
  <2>1. \A skip \in BOOLEAN : [Resting EXCEPT !.phase = "asked", !.have = clock,
                                              !.skip = skip] \in Round
    BY <1>0, RestingType DEF Round
  <2>2. round' \in [Peer -> Round] BY <1>1, <1>r, <2>1 DEF Claim
  <2>3. lease' \in Peer \cup {"engine", "none"} BY <1>1 DEF Claim, TypeOK
  <2> QED BY <1>1, <2>2, <2>3 DEF Claim, TypeOK, Finite, net, store
<1>2. CASE Answer(p)
  <2> DEFINE r == round[p]
             c == peer[p]
             back == [Resting EXCEPT !.phase = "answered",
                                     !.adv = [gen |-> c.gen, seq |-> c.seq]]
  <2>1. back \in Round /\ [Resting EXCEPT !.phase = "answered"] \in Round
    BY <1>0, RestingType DEF Round, PeerClock
  <2>2. [back EXCEPT !.body = "line"] \in Round /\ [back EXCEPT !.body = "snapshot"] \in Round
    BY <2>1 DEF Round
  <2>3. ASSUME NEW last \in (r.have.seq + 1)..c.seq
        PROVE  [back EXCEPT !.body = "suffix", !.truncated = (last < c.seq),
                            !.events = [from |-> r.have.seq, last |-> last]] \in Round
    <3>1. r.have.seq \in Nat /\ last \in Nat /\ (last < c.seq) \in BOOLEAN
      BY <1>0 DEF Round, PeerClock
    <3>2. [from |-> r.have.seq, last |-> last] \in Events BY <3>1
    <3> HIDE DEF back
    <3> QED BY <2>1, <3>1, <3>2 DEF Round
  <2> HIDE DEF back
  <2>4. round' \in [Peer -> Round] BY <1>2, <1>r, <2>1, <2>2, <2>3 DEF Answer, back
  <2> QED BY <1>2, <2>4 DEF Answer, TypeOK, Finite, net, store
<1>3. CASE ApplyRound(p)
  <2> DEFINE r == round[p]
             t == [r EXCEPT !.phase = "applied", !.events = NoEvents,
                            !.truncated = @ /\ Verdict(clock, r.adv.gen, r.events) # "gap"]
  <2>1. t \in Round BY <1>0 DEF Round
  <2>2. round' = [round EXCEPT ![p] = t] BY <1>3 DEF ApplyRound
  <2>3. clock' \in Clock /\ jour' \subseteq Nat
    <3>1. CASE Journal(r.adv.gen, r.events)
      BY <1>0, <3>1, JournalType DEF Round
    <3>2. CASE clock' = r.adv /\ jour' = {} BY <1>0, <3>2 DEF Round
    <3>3. CASE UNCHANGED store BY <3>3 DEF store, TypeOK
    <3> QED BY <1>3, <3>1, <3>2, <3>3 DEF ApplyRound
  <2> HIDE DEF t
  <2>4. round' \in [Peer -> Round] BY <1>r, <2>1, <2>2
  <2> QED BY <1>3, <2>3, <2>4 DEF ApplyRound, TypeOK, Finite, net
<1>4. CASE Settle(p)
  <2>1. round' \in [Peer -> Round] BY <1>4, <1>r, RestingType DEF Settle
  <2>2. lease' \in Peer \cup {"engine", "none"} BY <1>4 DEF Settle, TypeOK
  <2>3. [gen |-> round[p].adv.gen, target |-> round[p].adv.seq] \in Enrolment
    BY <1>0 DEF Round, Enrolment
  <2>4. queue' \in Seq(Enrolment) BY <1>4, <2>3 DEF Settle, TypeOK
  <2> QED BY <1>4, <2>1, <2>2, <2>4 DEF Settle, TypeOK, Finite, net, store
<1>5. CASE RoundFails(p)
  <2>1. round' \in [Peer -> Round] BY <1>5, <1>r, RestingType DEF RoundFails
  <2>2. lease' \in Peer \cup {"engine", "none"} BY <1>5 DEF RoundFails, TypeOK
  <2> QED BY <1>5, <2>1, <2>2 DEF RoundFails, Failing, TypeOK, Finite, net, store
<1> QED BY <1>1, <1>2, <1>3, <1>4, <1>5 DEF Pull

(* The queue of ranges to ask for again: taking its head, putting a range  *)
(* back in front, adding one behind.                                       *)
Asks == Nat \X Nat

LEMMA RetryHead ==
    ASSUME NEW s \in Seq(Asks), s # <<>>
    PROVE  /\ s[1] \in Asks /\ Tail(s) \in Seq(Asks) /\ 1 \in DOMAIN s
           /\ \A i \in DOMAIN Tail(s) : /\ i + 1 \in DOMAIN s /\ Tail(s)[i] = s[i + 1]
                                        /\ i \in Nat \ {0}
           /\ \A i \in DOMAIN s : i = 1 \/ (i - 1 \in DOMAIN Tail(s) /\ Tail(s)[i - 1] = s[i])
<1>1. Len(s) \in Nat \ {0} /\ DOMAIN s = 1..Len(s) OBVIOUS
<1>2. Tail(s) \in Seq(Asks) /\ Len(Tail(s)) = Len(s) - 1 /\ DOMAIN Tail(s) = 1..(Len(s) - 1)
  BY <1>1
<1>3. \A i \in 1..(Len(s) - 1) : Tail(s)[i] = s[i + 1] BY <1>1
<1> QED BY <1>1, <1>2, <1>3

LEMMA RetryPush ==
    ASSUME NEW s \in Seq(Asks), NEW a \in Asks
    PROVE  LET t == <<a>> \o s IN
           /\ t \in Seq(Asks) /\ t # <<>> /\ 1 \in DOMAIN t /\ t[1] = a
           /\ \A i \in DOMAIN t : i = 1 \/ (i - 1 \in DOMAIN s /\ t[i] = s[i - 1])
           /\ \A i \in DOMAIN s : i + 1 \in DOMAIN t /\ t[i + 1] = s[i]
<1>1. Len(s) \in Nat /\ DOMAIN s = 1..Len(s) OBVIOUS
<1>2. <<a>> \in Seq(Asks) /\ Len(<<a>>) = 1 /\ <<a>>[1] = a OBVIOUS
<1> DEFINE t == <<a>> \o s
<1>3. t \in Seq(Asks) /\ Len(t) = Len(s) + 1 BY <1>2
<1>4. DOMAIN t = 1..(Len(s) + 1) BY <1>1, <1>3
<1>5. \A i \in 1..(Len(s) + 1) : t[i] = IF i <= 1 THEN <<a>>[i] ELSE s[i - 1]
  BY <1>1, <1>2
<1> HIDE DEF t
<1>6. t # <<>> BY <1>1, <1>3
<1>7. t[1] = a BY <1>1, <1>2, <1>5
<1>8. \A i \in DOMAIN t : i = 1 \/ (i - 1 \in DOMAIN s /\ t[i] = s[i - 1])
  BY <1>1, <1>4, <1>5
<1>9. \A i \in DOMAIN s : i + 1 \in DOMAIN t /\ t[i + 1] = s[i] BY <1>1, <1>4, <1>5
<1> QED BY <1>1, <1>3, <1>4, <1>6, <1>7, <1>8, <1>9 DEF t

LEMMA RetryAppend ==
    ASSUME NEW s \in Seq(Asks), NEW a \in Asks
    PROVE  LET t == Append(s, a) IN
           /\ t \in Seq(Asks) /\ t # <<>>
           /\ Len(s) + 1 \in DOMAIN t /\ t[Len(s) + 1] = a
           /\ \A i \in DOMAIN t : i = Len(s) + 1 \/ (i \in DOMAIN s /\ t[i] = s[i])
           /\ \A i \in DOMAIN s : i # Len(s) + 1 /\ i \in DOMAIN t /\ t[i] = s[i]
<1>1. Len(s) \in Nat /\ DOMAIN s = 1..Len(s) OBVIOUS
<1>2. Append(s, a) \in Seq(Asks) /\ Len(Append(s, a)) = Len(s) + 1 OBVIOUS
<1>3. DOMAIN Append(s, a) = 1..(Len(s) + 1) BY <1>1, <1>2
<1>4. \A i \in 1..Len(s) : Append(s, a)[i] = s[i] OBVIOUS
<1>5. Append(s, a)[Len(s) + 1] = a OBVIOUS
<1> QED BY <1>1, <1>2, <1>3, <1>4, <1>5

(* What next_ask hands out: the head of the queue, or the next chunk.      *)
LEMMA NextAskFacts ==
    ASSUME TypeOK, Finite, NEW a \in NextAsk
    PROVE  /\ plan # NoPlan /\ Cardinality(flights) < Window
           /\ a.after \in Nat /\ a.until \in Nat /\ a.plan \in OriginPlan
           /\ \/ /\ plan.retry # <<>>
                 /\ a.after = plan.retry[1][1] /\ a.until = plan.retry[1][2]
                 /\ a.plan = [plan EXCEPT !.retry = Tail(plan.retry)]
              \/ /\ a.after = plan.next /\ plan.next < a.until /\ a.until <= plan.target
                 /\ a.plan = [plan EXCEPT !.next = a.until]
<1>0. /\ plan \in OriginPlan /\ Window \in Nat /\ Cardinality(flights) \in Nat
      /\ plan.retry \in Seq(Asks) /\ plan.next \in Nat /\ plan.target \in Nat
      /\ Chunk \in Nat \ {0}
  BY FS_CardinalityType, CatchupAssumption DEF TypeOK, Finite, OriginPlan, Asks
<1>1. plan # NoPlan /\ Cardinality(flights) < Window BY <1>0 DEF NextAsk
<1>2. CASE plan.retry # <<>>
  <2>1. /\ a.after = plan.retry[1][1] /\ a.until = plan.retry[1][2]
        /\ a.plan = [plan EXCEPT !.retry = Tail(plan.retry)]
    BY <1>1, <1>2 DEF NextAsk
  <2>2. plan.retry[1] \in Asks /\ Tail(plan.retry) \in Seq(Asks) BY <1>0, <1>2, RetryHead
  <2>3. a.after \in Nat /\ a.until \in Nat BY <2>1, <2>2 DEF Asks
  <2>4. a.plan \in OriginPlan BY <1>0, <2>1, <2>2 DEF OriginPlan, Asks
  <2> QED BY <1>1, <1>2, <2>1, <2>3, <2>4
<1>3. CASE plan.retry = <<>>
  <2> DEFINE until == Smaller(plan.next + Chunk, plan.target)
  <2>1. /\ plan.next < plan.target /\ a.after = plan.next /\ a.until = until
        /\ a.plan = [plan EXCEPT !.next = until]
    BY <1>0, <1>1, <1>3 DEF NextAsk
  <2>2. until \in Nat /\ plan.next < until /\ until <= plan.target
    BY <1>0, <2>1 DEF Smaller
  <2>3. a.plan \in OriginPlan BY <1>0, <2>1, <2>2 DEF OriginPlan
  <2> QED BY <1>0, <1>1, <2>1, <2>2, <2>3
<1> QED BY <1>2, <1>3

LEMMA FillType == ASSUME TypeOK, Finite, Fill PROVE TypeOK' /\ Finite'
<1>1. ASSUME NEW p \in Peer, Dispatch(p) PROVE TypeOK' /\ Finite'
  <2> DEFINE num == CHOOSE n \in 1..Window : \A f \in flights : f.n # n
  <2>1. PICK a \in NextAsk :
          /\ plan' = a.plan
          /\ flights' = flights \cup
               {[n |-> num, gen |-> plan.gen, after |-> a.after, until |-> a.until,
                 to |-> p, phase |-> "out", stale |-> FALSE, events |-> NoEvents]}
    BY <1>1 DEF Dispatch
  <2>2. num \in 1..Window
    <3>1. flights \in SUBSET Flight /\ IsFiniteSet(flights) BY DEF TypeOK, Finite
    <3>2. Cardinality(flights) < Window BY NextAskFacts
    <3> QED BY <3>1, <3>2, FreeNumber
  <2> HIDE DEF num
  <2>3. plan.gen \in Nat BY DEF TypeOK, OriginPlan
  <2>4. [n |-> num, gen |-> plan.gen, after |-> a.after, until |-> a.until,
         to |-> p, phase |-> "out", stale |-> FALSE, events |-> NoEvents] \in Flight
    BY <2>2, <2>3, NextAskFacts DEF Flight
  <2>5. flights' \subseteq Flight /\ IsFiniteSet(flights')
    BY <2>1, <2>4, FS_AddElement DEF TypeOK, Finite
  <2>6. plan' \in OriginPlan BY <2>1, NextAskFacts
  <2> QED BY <1>1, <2>5, <2>6 DEF Dispatch, TypeOK, Finite, net, store
<1>2. CASE Unpick
  <2>1. PICK a \in NextAsk :
          plan' = [a.plan EXCEPT !.retry = <<<<a.after, a.until>>>> \o @]
    BY <1>2 DEF Unpick
  <2>2. a.plan \in OriginPlan /\ <<a.after, a.until>> \in Asks
    BY NextAskFacts DEF Asks
  <2>3. <<<<a.after, a.until>>>> \o a.plan.retry \in Seq(Asks)
    BY <2>2, RetryPush DEF OriginPlan, Asks
  <2>4. plan' \in OriginPlan BY <2>1, <2>2, <2>3 DEF OriginPlan, Asks
  <2> QED BY <1>2, <2>4, AtType DEF Unpick, Failing, TypeOK, Finite, net, store
<1>3. CASE Filled BY <1>3, AtType DEF Filled, TypeOK, Finite, net, store
<1> QED BY <1>1, <1>2, <1>3 DEF Fill

LEMMA FreshType ==
    ASSUME TypeOK, NEW gen \in Nat PROVE Fresh(gen) \in OriginPlan
BY NoPlanType DEF Fresh, TypeOK, OriginPlan

LEMMA EnrollType ==
    ASSUME TypeOK, NEW e \in Enrolment, Enroll(e)
    PROVE  plan' \in OriginPlan /\ lease' \in Peer \cup {"engine", "none"}
<1> DEFINE p == IF plan = NoPlan THEN Fresh(e.gen) ELSE plan
<1>1. p \in OriginPlan BY FreshType DEF TypeOK, Enrolment
<1> HIDE DEF p
<1>2. Larger(p.target, e.target) \in Nat BY <1>1 DEF Larger, OriginPlan, Enrolment
<1>3. [p EXCEPT !.target = Larger(p.target, e.target)] \in OriginPlan
  BY <1>1, <1>2 DEF OriginPlan
<1> QED BY <1>3, NoPlanType DEF Enroll, Unenroll, TypeOK, p

LEMMA SelectType == ASSUME TypeOK, Finite, Select PROVE TypeOK' /\ Finite'
<1>1. CASE RecvEnrol
  <2>1. queue[1] \in Enrolment /\ queue' \in Seq(Enrolment)
    BY <1>1 DEF RecvEnrol, TypeOK
  <2>2. plan' \in OriginPlan /\ lease' \in Peer \cup {"engine", "none"}
    BY <1>1, <2>1, EnrollType DEF RecvEnrol, Unenroll, TypeOK
  <2>3. flights' \subseteq Flight /\ IsFiniteSet(flights')
    BY <1>1, InFlightType DEF RecvEnrol, TypeOK, Finite
  <2> QED BY <1>1, <2>1, <2>2, <2>3, AtType DEF RecvEnrol, TypeOK, Finite, net, store
<1>2. CASE Tick BY <1>2, AtType DEF Tick, TypeOK, Finite, net, store
<1>3. ASSUME NEW f \in flights, RecvEvents(f) \/ RecvFailure(f) PROVE TypeOK' /\ Finite'
  <2>1. /\ f \in Flight /\ plan \in OriginPlan /\ plan.retry \in Seq(Asks)
        /\ Strikes \in Nat \ {0}
    BY CatchupAssumption DEF TypeOK, OriginPlan, Asks
  <2>2. flights \ {f} \subseteq Flight /\ IsFiniteSet(flights \ {f})
    BY FS_RemoveElement DEF TypeOK, Finite
  <2>3. flights' \subseteq Flight /\ IsFiniteSet(flights')
    BY <1>3, <2>2, InFlightType DEF RecvEvents, RecvFailure
  <2>4. /\ Append(plan.retry, <<f.events.last, f.until>>) \in Seq(Asks)
        /\ Append(plan.retry, <<f.after, f.until>>) \in Seq(Asks)
    <3>1. <<f.events.last, f.until>> \in Asks /\ <<f.after, f.until>> \in Asks
      BY <2>1 DEF Flight, Asks
    <3> QED BY <2>1, <3>1, RetryAppend
  <2>5. plan' \in OriginPlan
    <3>1. CASE RecvEvents(f)
      <4>1. Complete(f) \in OriginPlan
        <5>1. (plan.stray \/ f.stale) \in BOOLEAN /\ 0 \in 0..(Strikes - 1)
          BY <2>1 DEF Flight, OriginPlan
        <5>2. {ev \in plan.buffered : ev.from # f.after} \cup {f.events} \subseteq Events
          BY <2>1 DEF Flight, OriginPlan
        <5> QED BY <2>1, <2>4, <5>1, <5>2 DEF Complete, OriginPlan, Asks
      <4> QED BY <2>1, <3>1, <4>1 DEF RecvEvents
    <3>2. CASE RecvFailure(f)
      <4> DEFINE struck == [plan EXCEPT !.retry = Append(@, <<f.after, f.until>>),
                                        !.strikes = @ + 1, !.stray = @ \/ f.stale]
      <4>1. struck.strikes = plan.strikes + 1 BY <2>1 DEF OriginPlan
      <4>2. ~(struck.strikes >= Strikes) => struck \in OriginPlan
        <5>1. (plan.stray \/ f.stale) \in BOOLEAN BY <2>1 DEF Flight, OriginPlan
        <5>2. plan.strikes \in 0..(Strikes - 1) BY <2>1 DEF OriginPlan
        <5>3. ~(plan.strikes + 1 >= Strikes) => plan.strikes + 1 \in 0..(Strikes - 1)
          BY <2>1, <5>2
        <5> QED BY <2>1, <2>4, <4>1, <5>1, <5>3 DEF OriginPlan, Asks
      <4>3. plan' = NoPlan \/ (plan' = struck /\ ~(struck.strikes >= Strikes))
        BY <3>2 DEF RecvFailure
      <4> QED BY <4>2, <4>3, NoPlanType
    <3> QED BY <1>3, <3>1, <3>2
  <2>6. lease' \in Peer \cup {"engine", "none"}
    BY <1>3 DEF RecvEvents, RecvFailure, TypeOK
  <2>7. engine' \in Engine BY <1>3, AtType DEF RecvEvents, RecvFailure
  <2> QED BY <1>3, <2>3, <2>5, <2>6, <2>7 DEF RecvEvents, RecvFailure, TypeOK, Finite, net, store
<1> QED BY <1>1, <1>2, <1>3 DEF Select

LEMMA AppliedType ==
    ASSUME NEW p \in OriginPlan, NEW last \in Nat PROVE Applied(p, last) \in OriginPlan
BY DEF Applied, Larger, OriginPlan

LEMMA DrainType == ASSUME TypeOK, Finite, Drain PROVE TypeOK' /\ Finite'
<1>0. plan \in OriginPlan /\ engine \in Engine /\ clock \in Clock BY DEF TypeOK
<1>1. CASE Take
  <2>1. PICK ev \in Ready :
          LET rest == [plan EXCEPT !.buffered = @ \ {ev}]
              verdict == Verdict(clock, plan.gen, ev)
          IN
          \/ /\ verdict = "connects"
             /\ plan' = rest
             /\ engine' = [pc |-> "commit", events |-> ev, at |-> clock]
             /\ UNCHANGED lease
          \/ /\ verdict = "ignored"
             /\ plan' = Applied(rest, ev.last)
             /\ UNCHANGED <<lease, engine>>
          \/ /\ verdict = "gap"
             /\ plan' = NoPlan
             /\ Unenroll
             /\ UNCHANGED engine
    BY <1>1 DEF Take
  <2>2. ev \in Events /\ ev.last \in Nat BY <1>0 DEF Ready, OriginPlan
  <2>3. [plan EXCEPT !.buffered = @ \ {ev}] \in OriginPlan BY <1>0 DEF OriginPlan
  <2>4. Applied([plan EXCEPT !.buffered = @ \ {ev}], ev.last) \in OriginPlan
    BY <2>2, <2>3, AppliedType
  <2>5. plan' \in OriginPlan BY <2>1, <2>3, <2>4, NoPlanType
  <2>6. engine' \in Engine BY <1>0, <2>1, <2>2 DEF Engine
  <2>7. lease' \in Peer \cup {"engine", "none"} BY <2>1 DEF Unenroll, TypeOK
  <2>8. flights' \subseteq Flight /\ IsFiniteSet(flights')
    BY <1>1, InFlightType DEF Take, TypeOK, Finite
  <2> QED BY <1>1, <2>5, <2>6, <2>7, <2>8 DEF Take, TypeOK, Finite, net, store
<1>2. CASE Commit
  <2>1. engine.events \in Events /\ engine.events.last \in Nat /\ plan.gen \in Nat
    BY <1>0 DEF Engine, OriginPlan
  <2>2. clock' \in Clock /\ jour' \subseteq Nat
    BY <1>2, <2>1, JournalType DEF Commit, store, TypeOK
  <2>3. plan' \in OriginPlan BY <1>0, <1>2, <2>1, AppliedType DEF Commit
  <2> QED BY <1>2, <2>2, <2>3, AtType DEF Commit, TypeOK, Finite, net
<1>3. CASE Drained
  <2>1. plan' \in OriginPlan /\ lease' \in Peer \cup {"engine", "none"}
    BY <1>0, <1>3, NoPlanType DEF Drained, Unenroll, TypeOK
  <2>2. flights' \subseteq Flight /\ IsFiniteSet(flights')
    BY <1>3, InFlightType DEF Drained, TypeOK, Finite
  <2> QED BY <1>3, <2>1, <2>2, AtType DEF Drained, TypeOK, Finite, net, store
<1> QED BY <1>1, <1>2, <1>3 DEF Drain

LEMMA RangeType ==
    ASSUME TypeOK, Finite, NEW f \in flights, AnswerRange(f) \/ RangeFails(f)
    PROVE  TypeOK' /\ Finite'
<1>0. f \in Flight /\ peer[f.to] \in PeerClock BY DEF TypeOK, Flight
<1>1. [f EXCEPT !.phase = "back"] \in Flight BY <1>0 DEF Flight
<1>2. ASSUME NEW last \in (f.after + 1)..Smaller(f.until, peer[f.to].seq)
      PROVE  [f EXCEPT !.phase = "back", !.events = [from |-> f.after, last |-> last]] \in Flight
  <2>1. last \in Nat /\ f.after \in Nat BY <1>0 DEF Flight, PeerClock, Smaller
  <2> QED BY <1>0, <2>1 DEF Flight
<1>3. \E g \in Flight : flights' = (flights \ {f}) \cup {g}
  <2>1. \/ flights' = (flights \ {f}) \cup {[f EXCEPT !.phase = "back"]}
        \/ \E last \in (f.after + 1)..Smaller(f.until, peer[f.to].seq) :
             flights' = (flights \ {f}) \cup
               {[f EXCEPT !.phase = "back", !.events = [from |-> f.after, last |-> last]]}
    BY DEF AnswerRange, RangeFails
  <2>2. CASE flights' = (flights \ {f}) \cup {[f EXCEPT !.phase = "back"]}
    BY <1>1, <2>2, Zenon
  <2>3. ASSUME NEW last \in (f.after + 1)..Smaller(f.until, peer[f.to].seq),
               flights' = (flights \ {f}) \cup
                 {[f EXCEPT !.phase = "back", !.events = [from |-> f.after, last |-> last]]}
        PROVE  \E g \in Flight : flights' = (flights \ {f}) \cup {g}
    BY <1>2, <2>3, Zenon
  <2> QED BY <2>1, <2>2, <2>3
<1>4. flights' \subseteq Flight /\ IsFiniteSet(flights') BY <1>3, ReplaceFlightType
<1>5. failures' \in Nat
  <2>1. failures' = failures \/ failures' = failures + 1 BY DEF AnswerRange, RangeFails, Failing
  <2>2. failures \in Nat BY DEF TypeOK
  <2> QED BY <2>1, <2>2
<1> QED BY <1>4, <1>5 DEF AnswerRange, RangeFails, TypeOK, Finite, net, store

LEMMA TypeNext == TypeOK /\ Finite /\ [Next]_vars => TypeOK' /\ Finite'
<1> SUFFICES ASSUME TypeOK, Finite, [Next]_vars PROVE TypeOK' /\ Finite'
  OBVIOUS
<1>1. CASE UNCHANGED vars BY <1>1 DEF vars, TypeOK, Finite
<1> QED BY <1>1, MeshType, PullType, FillType, SelectType, DrainType, RangeType DEF Next

-----------------------------------------------------------------------------
(* What the engine's steps do to the invariant *)

LEMMA HasTarget == ASSUME NEW p \in OriginPlan, p.target # 0 PROVE p # NoPlan
BY DEF NoPlan

LEMMA RangesAreNat ==
    ASSUME TypeOK
    PROVE  /\ \A f \in flights : f.after \in Nat /\ f.until \in Nat
           /\ \A ev \in plan.buffered : ev.from \in Nat /\ ev.last \in Nat
           /\ \A i \in DOMAIN plan.retry : plan.retry[i][1] \in Nat /\ plan.retry[i][2] \in Nat
<1>1. \A f \in flights : f.after \in Nat /\ f.until \in Nat BY DEF TypeOK, Flight
<1>2. plan.buffered \subseteq Events /\ plan.retry \in Seq(Asks) BY DEF TypeOK, OriginPlan, Asks
<1>3. \A i \in DOMAIN plan.retry : plan.retry[i] \in Asks BY <1>2
<1>4. \A a \in Asks : a[1] \in Nat /\ a[2] \in Nat BY DEF Asks
<1> QED BY <1>1, <1>2, <1>3, <1>4

(* A step that moves no range keeps every part of the invariant.           *)
LEMMA StillInv ==
    ASSUME IInv, TypeOK', UNCHANGED <<plan, flights>>, engine'.events = engine.events,
           \/ engine' = engine
           \/ engine.pc # "commit" /\ engine'.pc # "commit"
    PROVE  IInv'
<1>1. AnswerInv' BY DEF IInv, AnswerInv
<1>2. EngineInv' BY DEF IInv, EngineInv
<1>3. PlanInv' BY DEF IInv, PlanInv
<1>4. TidyInv' BY DEF IInv, TidyInv, RetryTidy, FlightsTidy, BufferTidy
<1>5. Covered' BY DEF IInv, Covered
<1> QED BY <1>1, <1>2, <1>3, <1>4, <1>5 DEF IInv

(* A step that drops the plan marks its asks and owes nothing.             *)
LEMMA DropInv ==
    ASSUME TypeOK, IInv, TypeOK', plan' = NoPlan, NEW fs \in SUBSET flights, InFlight(fs),
           engine'.pc # "commit", engine'.events = NoEvents
    PROVE  IInv'
<1>1. \A f \in fs : f \in Flight BY DEF TypeOK
<1>2. flights' = {[f EXCEPT !.stale = TRUE] : f \in fs} BY DEF InFlight
<1>3. \A f \in fs : LET g == [f EXCEPT !.stale = TRUE] IN
        /\ g.stale /\ g.phase = f.phase /\ g.events = f.events
        /\ g.after = f.after /\ g.until = f.until
  BY <1>1 DEF Flight
<1>4. AnswerInv'
  <2> SUFFICES ASSUME NEW g \in flights'
               PROVE  /\ g.phase = "out" => g.events = NoEvents
                      /\ g.events # NoEvents => /\ g.events.from = g.after
                                                /\ g.after < g.events.last
                                                /\ g.events.last <= g.until
    BY DEF AnswerInv
  <2>1. PICK f \in fs : g = [f EXCEPT !.stale = TRUE] BY <1>2
  <2> QED BY <1>3, <2>1 DEF IInv, AnswerInv
<1>5. EngineInv' BY DEF EngineInv
<1>6. PlanInv' BY <1>2, <1>3 DEF PlanInv
<1>7. TidyInv' BY DEF TidyInv
<1>8. Covered' BY DEF Covered
<1> QED BY <1>4, <1>5, <1>6, <1>7, <1>8 DEF IInv

LEMMA EnrolInv == ASSUME TypeOK, IInv, TypeOK', RecvEnrol PROVE IInv'
<1> DEFINE e == queue[1]
<1>0. /\ plan \in OriginPlan /\ clock \in Clock /\ e \in Enrolment
      /\ engine.events = NoEvents /\ engine.pc # "commit"
  BY DEF TypeOK, RecvEnrol, IInv, EngineInv
<1>1. engine'.pc = "fill" /\ engine'.events = NoEvents BY DEF RecvEnrol, At
<1>2. CASE plan' = NoPlan BY <1>1, <1>2, DropInv DEF RecvEnrol
<1>3. CASE plan' # NoPlan /\ plan' = plan
  <2>1. flights' = flights BY <1>3 DEF RecvEnrol, InFlight
  <2> QED BY <1>0, <1>1, <1>3, <2>1, StillInv
<1>4. CASE plan' # NoPlan /\ plan' # plan
  <2> DEFINE p == IF plan = NoPlan THEN Fresh(e.gen) ELSE plan
             target == Larger(p.target, e.target)
  <2>1. clock.seq < e.target /\ plan' = [p EXCEPT !.target = target]
    BY <1>4 DEF RecvEnrol, Enroll
  <2>2. flights' = flights BY <1>4 DEF RecvEnrol, InFlight
  <2>3. p \in OriginPlan /\ clock.seq \in Nat /\ e.target \in Nat
    BY <1>0, FreshType DEF Enrolment
  <2> HIDE DEF p
  <2>4. p.target \in Nat /\ p.next \in Nat /\ p.cursor \in Nat BY <2>3 DEF OriginPlan
  <2>5. target \in Nat /\ p.target <= target /\ e.target <= target /\ target # 0
    BY <2>1, <2>3, <2>4 DEF Larger
  <2> HIDE DEF target
  <2>6. /\ plan'.target = target /\ plan'.cursor = p.cursor /\ plan'.next = p.next
        /\ plan'.retry = p.retry /\ plan'.buffered = p.buffered /\ plan'.stray = p.stray
    BY <2>1, <2>3 DEF OriginPlan
  <2>7. /\ p.next <= Larger(p.cursor, p.target)
        /\ plan = NoPlan => p.retry = <<>> /\ p.buffered = {} /\ p.next = p.cursor
    BY <2>3, <2>4 DEF p, Fresh, NoPlan, IInv, PlanInv, Larger
  <2>8. AnswerInv' BY <2>2 DEF IInv, AnswerInv
  <2>9. EngineInv' BY <1>1 DEF EngineInv
  <2>10. PlanInv'
    <3>1. p.next <= Larger(p.cursor, target) BY <2>4, <2>5, <2>7 DEF Larger
    <3> QED BY <1>4, <2>5, <2>6, <3>1 DEF PlanInv
  <2>11. TidyInv'
    <3>1. CASE plan = NoPlan
      <4>1. plan'.retry = <<>> /\ plan'.buffered = {} BY <2>6, <2>7, <3>1
      <4>2. \A f \in flights' : f.stale BY <2>2, <3>1 DEF IInv, PlanInv
      <4> QED BY <4>1, <4>2 DEF TidyInv, RetryTidy, FlightsTidy, BufferTidy
    <3>2. CASE plan # NoPlan
      <4>1. p = plan BY <3>2 DEF p
      <4> QED BY <2>2, <2>6, <3>2, <4>1 DEF IInv, TidyInv, RetryTidy, FlightsTidy, BufferTidy
    <3> QED BY <3>1, <3>2
  <2>12. Covered'
    <3> SUFFICES ASSUME ~plan'.stray, NEW n \in (plan'.cursor + 1)..plan'.target, n <= plan'.next
                 PROVE  \/ \E i \in DOMAIN plan'.retry : plan'.retry[i][1] < n /\ n <= plan'.retry[i][2]
                        \/ \E f \in flights' : ~f.stale /\ f.after < n /\ n <= f.until
                        \/ \E ev \in plan'.buffered \cup {engine'.events} : ev.from < n /\ n <= ev.last
      BY <2>4, <2>5, <2>6 DEF Covered
    <3>1. plan # NoPlan BY <2>4, <2>5, <2>6, <2>7
    <3>2. p = plan BY <3>1 DEF p
    <3>3. n \in (plan.cursor + 1)..plan.target
      BY <2>4, <2>5, <2>6, <2>7, <3>2 DEF Larger
    <3>4. ~(n > plan.next) BY <2>4, <2>6, <3>2, <3>3
    <3> QED BY <1>0, <1>1, <2>2, <2>6, <3>1, <3>2, <3>3, <3>4 DEF IInv, Covered
  <2> QED BY <2>8, <2>9, <2>10, <2>11, <2>12 DEF IInv
<1> QED BY <1>2, <1>3, <1>4

LEMMA DispatchInv ==
    ASSUME TypeOK, Finite, IInv, TypeOK', NEW p \in Peer, Dispatch(p)
    PROVE  IInv'
<1> DEFINE num == CHOOSE n \in 1..Window : \A f \in flights : f.n # n
<1>1. PICK a \in NextAsk :
        /\ plan' = a.plan
        /\ flights' = flights \cup
             {[n |-> num, gen |-> plan.gen, after |-> a.after, until |-> a.until,
               to |-> p, phase |-> "out", stale |-> FALSE, events |-> NoEvents]}
  BY DEF Dispatch
<1> DEFINE g == [n |-> num, gen |-> plan.gen, after |-> a.after, until |-> a.until,
                 to |-> p, phase |-> "out", stale |-> FALSE, events |-> NoEvents]
<1>2. /\ flights' = flights \cup {g} /\ ~g.stale /\ g.events = NoEvents
      /\ g.after = a.after /\ g.until = a.until
  BY <1>1
<1> HIDE DEF num, g
<1>3. /\ plan \in OriginPlan /\ plan.retry \in Seq(Asks) /\ plan.next \in Nat
      /\ plan.cursor \in Nat /\ plan.target \in Nat
      /\ engine' = engine /\ engine.pc = "fill" /\ engine.events = NoEvents
  BY DEF TypeOK, OriginPlan, Asks, Dispatch, IInv, EngineInv
<1>4. /\ plan # NoPlan /\ a.after \in Nat /\ a.until \in Nat
      /\ \/ /\ plan.retry # <<>>
            /\ a.after = plan.retry[1][1] /\ a.until = plan.retry[1][2]
            /\ a.plan = [plan EXCEPT !.retry = Tail(plan.retry)]
         \/ /\ a.after = plan.next /\ plan.next < a.until /\ a.until <= plan.target
            /\ a.plan = [plan EXCEPT !.next = a.until]
  BY NextAskFacts
<1>5. /\ plan'.target = plan.target /\ plan'.cursor = plan.cursor
      /\ plan'.buffered = plan.buffered /\ plan'.stray = plan.stray
      /\ plan.next <= plan'.next
      /\ g.after \in Nat /\ g.until \in Nat /\ plan'.next \in Nat
      /\ \/ /\ plan.retry # <<>> /\ plan'.next = plan.next
            /\ g.after = plan.retry[1][1] /\ g.until = plan.retry[1][2]
            /\ plan'.retry = Tail(plan.retry)
         \/ /\ g.after = plan.next /\ plan.next < g.until /\ g.until <= plan.target
            /\ plan'.next = g.until /\ plan'.retry = plan.retry
  <2>1. CASE /\ plan.retry # <<>>
             /\ a.after = plan.retry[1][1] /\ a.until = plan.retry[1][2]
             /\ a.plan = [plan EXCEPT !.retry = Tail(plan.retry)]
    BY <1>1, <1>2, <1>3, <1>4, <2>1 DEF OriginPlan
  <2>2. CASE /\ a.after = plan.next /\ plan.next < a.until /\ a.until <= plan.target
             /\ a.plan = [plan EXCEPT !.next = a.until]
    BY <1>1, <1>2, <1>3, <1>4, <2>2 DEF OriginPlan
  <2> QED BY <1>4, <2>1, <2>2
<1>6. plan' # NoPlan
  <2>1. plan.target # 0 BY <1>4 DEF IInv, PlanInv
  <2> QED BY <1>5, <2>1, HasTarget DEF TypeOK
<1>7. AnswerInv' BY <1>2 DEF IInv, AnswerInv
<1>8. EngineInv' BY <1>3 DEF EngineInv
<1>9. PlanInv'
  <2>1. plan'.next <= Larger(plan.cursor, plan.target)
    BY <1>2, <1>3, <1>4, <1>5 DEF Larger, IInv, PlanInv
  <2> QED BY <1>4, <1>5, <1>6, <2>1 DEF IInv, PlanInv
<1>t. /\ \A f \in flights : f.after \in Nat /\ f.until \in Nat
      /\ \A ev \in plan.buffered : ev.from \in Nat /\ ev.last \in Nat
      /\ \A i \in DOMAIN plan.retry : plan.retry[i][1] \in Nat /\ plan.retry[i][2] \in Nat
  BY RangesAreNat
<1>10. TidyInv'
  <2> SUFFICES ASSUME ~plan.stray PROVE (RetryTidy /\ FlightsTidy /\ BufferTidy)'
    BY <1>5 DEF TidyInv
  <2>1. RetryTidy /\ FlightsTidy /\ BufferTidy BY <1>4 DEF IInv, TidyInv
  <2>2. BufferTidy'
    <3>1. \A ev \in plan.buffered : ev.last <= plan'.next
      BY <1>3, <1>5, <1>t, <2>1 DEF BufferTidy
    <3>2. plan'.buffered = plan.buffered BY <1>5
    <3> QED BY <2>1, <3>1, <3>2 DEF BufferTidy
  <2>3. CASE plan.retry # <<>> /\ plan'.next = plan.next /\ plan'.retry = Tail(plan.retry)
             /\ g.after = plan.retry[1][1] /\ g.until = plan.retry[1][2]
    <3>1. /\ 1 \in DOMAIN plan.retry
          /\ \A i \in DOMAIN plan'.retry : /\ i + 1 \in DOMAIN plan.retry
                                           /\ plan'.retry[i] = plan.retry[i + 1]
                                           /\ i \in Nat /\ i + 1 # 1
      <4>1. \A i \in DOMAIN Tail(plan.retry) : /\ i + 1 \in DOMAIN plan.retry
                                              /\ Tail(plan.retry)[i] = plan.retry[i + 1]
                                              /\ i \in Nat \ {0}
        BY <1>3, <2>3, RetryHead
      <4>2. 1 \in DOMAIN plan.retry BY <1>3, <2>3, RetryHead
      <4> QED BY <2>3, <4>1, <4>2
    <3>2. RetryTidy'
      <4> SUFFICES ASSUME NEW i \in DOMAIN plan'.retry
                   PROVE  /\ plan'.retry[i][1] < plan'.retry[i][2]
                          /\ plan'.retry[i][2] <= plan'.next
                          /\ \A j \in DOMAIN plan'.retry :
                               j # i => Apart(plan'.retry[i][1], plan'.retry[i][2],
                                              plan'.retry[j][1], plan'.retry[j][2])
                          /\ \A f \in flights' :
                               ~f.stale => Apart(plan'.retry[i][1], plan'.retry[i][2],
                                                 f.after, f.until)
                          /\ \A ev \in plan'.buffered :
                               Apart(plan'.retry[i][1], plan'.retry[i][2], ev.from, ev.last)
        BY DEF RetryTidy
      <4>1. ASSUME NEW j \in DOMAIN plan'.retry, j # i
            PROVE  Apart(plan'.retry[i][1], plan'.retry[i][2],
                         plan'.retry[j][1], plan'.retry[j][2])
        BY <2>1, <3>1, <4>1 DEF RetryTidy
      <4>2. ASSUME NEW f \in flights', ~f.stale
            PROVE  Apart(plan'.retry[i][1], plan'.retry[i][2], f.after, f.until)
        <5>1. CASE f = g BY <2>1, <2>3, <3>1, <5>1 DEF RetryTidy
        <5>2. CASE f \in flights BY <2>1, <3>1, <4>2, <5>2 DEF RetryTidy
        <5> QED BY <1>2, <5>1, <5>2
      <4> QED BY <1>5, <2>1, <2>3, <3>1, <4>1, <4>2 DEF RetryTidy
    <3>3. FlightsTidy'
      <4>1. /\ g.after < g.until /\ g.until <= plan.next
            /\ \A f \in flights : ~f.stale => Apart(g.after, g.until, f.after, f.until)
            /\ \A ev \in plan.buffered : Apart(g.after, g.until, ev.from, ev.last)
        BY <2>1, <2>3, <3>1 DEF RetryTidy
      <4>2. \A f \in flights : ~f.stale => Apart(f.after, f.until, g.after, g.until)
        BY <4>1 DEF Apart
      <4> QED BY <1>2, <1>5, <2>1, <2>3, <4>1, <4>2 DEF FlightsTidy
    <3> QED BY <2>2, <3>2, <3>3
  <2>4. CASE /\ g.after = plan.next /\ plan.next < g.until
             /\ plan'.next = g.until /\ plan'.retry = plan.retry
    <3>1. g.after \in Nat /\ g.until \in Nat BY <1>2, <1>4
    <3>2. RetryTidy'
      <4>1. \A i \in DOMAIN plan.retry :
              /\ plan.retry[i][2] <= plan'.next
              /\ Apart(plan.retry[i][1], plan.retry[i][2], g.after, g.until)
        BY <1>3, <1>t, <2>1, <2>4, <3>1 DEF RetryTidy, Apart
      <4> QED BY <1>2, <1>5, <2>1, <2>4, <4>1 DEF RetryTidy
    <3>3. FlightsTidy'
      <4>1. \A f \in flights : ~f.stale =>
              f.until <= plan'.next /\ Apart(f.after, f.until, g.after, g.until)
        BY <1>3, <1>t, <2>1, <2>4, <3>1 DEF FlightsTidy, Apart
      <4>2. \A f \in flights : ~f.stale => Apart(g.after, g.until, f.after, f.until)
        BY <4>1 DEF Apart
      <4>3. \A ev \in plan.buffered : Apart(g.after, g.until, ev.from, ev.last)
        BY <1>3, <1>t, <2>1, <2>4, <3>1 DEF BufferTidy, Apart
      <4>4. g.after < g.until /\ g.until <= plan'.next BY <2>4, <3>1
      <4> QED BY <1>2, <1>5, <2>1, <4>1, <4>2, <4>3, <4>4 DEF FlightsTidy
    <3> QED BY <2>2, <3>2, <3>3
  <2> QED BY <1>5, <2>3, <2>4
<1>11. Covered'
  <2> SUFFICES ASSUME ~plan.stray, NEW n \in (plan.cursor + 1)..plan.target, ~(n > plan'.next)
               PROVE  \/ \E i \in DOMAIN plan'.retry : plan'.retry[i][1] < n /\ n <= plan'.retry[i][2]
                      \/ \E f \in flights' : ~f.stale /\ f.after < n /\ n <= f.until
                      \/ \E ev \in plan'.buffered \cup {engine'.events} : ev.from < n /\ n <= ev.last
    BY <1>5 DEF Covered
  <2>1. CASE n > plan.next
    <3>1. g.after < n /\ n <= g.until BY <1>3, <1>4, <1>5, <2>1
    <3> QED BY <1>2, <3>1
  <2>2. CASE ~(n > plan.next)
    <3>1. \/ \E i \in DOMAIN plan.retry : plan.retry[i][1] < n /\ n <= plan.retry[i][2]
          \/ \E f \in flights : ~f.stale /\ f.after < n /\ n <= f.until
          \/ \E ev \in plan.buffered \cup {engine.events} : ev.from < n /\ n <= ev.last
      BY <1>4, <2>2 DEF IInv, Covered
    <3>2. ASSUME NEW i \in DOMAIN plan.retry, plan.retry[i][1] < n, n <= plan.retry[i][2]
          PROVE  \/ \E j \in DOMAIN plan'.retry : plan'.retry[j][1] < n /\ n <= plan'.retry[j][2]
                 \/ \E f \in flights' : ~f.stale /\ f.after < n /\ n <= f.until
      <4>1. CASE plan'.retry = Tail(plan.retry) /\ plan.retry # <<>>
                 /\ g.after = plan.retry[1][1] /\ g.until = plan.retry[1][2]
        <5>1. i = 1 \/ (i - 1 \in DOMAIN plan'.retry /\ plan'.retry[i - 1] = plan.retry[i])
          BY <1>3, <4>1, RetryHead
        <5> QED BY <1>2, <3>2, <4>1, <5>1
      <4> QED BY <1>5, <3>2, <4>1
    <3> QED BY <1>2, <1>3, <1>5, <3>1, <3>2
  <2> QED BY <2>1, <2>2
<1> QED BY <1>7, <1>8, <1>9, <1>10, <1>11 DEF IInv

(* An answer comes back to the plan that asked: what it brings, up to x, is *)
(* buffered and the rest goes to the end of the queue.                     *)
LEMMA BackInv ==
    ASSUME TypeOK, IInv, TypeOK', plan # NoPlan, NEW f \in flights, NEW x \in Nat,
           flights' = flights \ {f},
           engine'.pc # "commit", engine'.events = NoEvents, engine.events = NoEvents,
           plan'.cursor = plan.cursor, plan'.next = plan.next, plan'.target = plan.target,
           plan'.stray = (plan.stray \/ f.stale),
           \/ plan'.retry = Append(plan.retry, <<x, f.until>>) /\ (x = f.after \/ x < f.until)
           \/ plan'.retry = plan.retry /\ x = f.until,
           \/ x = f.after /\ plan'.buffered = plan.buffered
           \/ /\ f.after < x /\ x <= f.until
              /\ plan'.buffered = {ev \in plan.buffered : ev.from # f.after}
                                    \cup {[from |-> f.after, last |-> x]}
    PROVE  IInv'
<1>1. plan' # NoPlan
  <2>1. plan.target # 0 BY DEF IInv, PlanInv
  <2> QED BY <2>1, HasTarget DEF TypeOK
<1>2. AnswerInv' BY DEF IInv, AnswerInv
<1>3. EngineInv' BY DEF EngineInv
<1>4. PlanInv' BY <1>1 DEF IInv, PlanInv
<1>5. CASE plan'.stray
  <2>1. TidyInv' /\ Covered' BY <1>5 DEF TidyInv, Covered
  <2> QED BY <1>2, <1>3, <1>4, <2>1 DEF IInv
<1>6. CASE ~plan'.stray
  <2>0. ~plan.stray /\ ~f.stale /\ plan.stray \in BOOLEAN /\ f.stale \in BOOLEAN
    BY <1>6 DEF TypeOK, OriginPlan, Flight
  <2>1. RetryTidy /\ FlightsTidy /\ BufferTidy BY <2>0 DEF IInv, TidyInv
  <2>2. /\ f.after \in Nat /\ f.until \in Nat /\ f.after < f.until
        /\ f.after <= x /\ x <= f.until /\ f.until <= plan.next
        /\ plan.retry \in Seq(Asks) /\ plan.next \in Nat
    <3>1. f.after \in Nat /\ f.until \in Nat BY RangesAreNat
    <3>2. plan.retry \in Seq(Asks) /\ plan.next \in Nat BY DEF TypeOK, OriginPlan, Asks
    <3> QED BY <2>0, <2>1, <3>1, <3>2 DEF FlightsTidy
  <2>t. /\ \A h \in flights : h.after \in Nat /\ h.until \in Nat
        /\ \A ev \in plan.buffered : ev.from \in Nat /\ ev.last \in Nat
        /\ \A i \in DOMAIN plan.retry : plan.retry[i][1] \in Nat /\ plan.retry[i][2] \in Nat
    BY RangesAreNat
  <2> DEFINE k == Len(plan.retry) + 1
             got == [from |-> f.after, last |-> x]
  (* What is queued: the old ranges and, when something is missing, the rest. *)
  <2>3. /\ \A i \in DOMAIN plan.retry : i # k /\ i \in DOMAIN plan'.retry
                                        /\ plan'.retry[i] = plan.retry[i]
        /\ \A i \in DOMAIN plan'.retry :
             \/ i \in DOMAIN plan.retry /\ plan'.retry[i] = plan.retry[i]
             \/ /\ i = k /\ x < f.until
                /\ plan'.retry[i][1] = x /\ plan'.retry[i][2] = f.until
        /\ x < f.until => k \in DOMAIN plan'.retry /\ plan'.retry[k][1] = x
                                                   /\ plan'.retry[k][2] = f.until
    <3>1. <<x, f.until>> \in Asks BY <2>2 DEF Asks
    <3>2. /\ k \in DOMAIN Append(plan.retry, <<x, f.until>>)
          /\ Append(plan.retry, <<x, f.until>>)[k] = <<x, f.until>>
          /\ \A i \in DOMAIN Append(plan.retry, <<x, f.until>>) :
               i = k \/ (i \in DOMAIN plan.retry
                         /\ Append(plan.retry, <<x, f.until>>)[i] = plan.retry[i])
          /\ \A i \in DOMAIN plan.retry :
               /\ i # k /\ i \in DOMAIN Append(plan.retry, <<x, f.until>>)
               /\ Append(plan.retry, <<x, f.until>>)[i] = plan.retry[i]
      BY <2>2, <3>1, RetryAppend
    <3>3. <<x, f.until>>[1] = x /\ <<x, f.until>>[2] = f.until OBVIOUS
    <3>4. CASE plan'.retry = Append(plan.retry, <<x, f.until>>) /\ (x = f.after \/ x < f.until)
      <4>1. x < f.until BY <2>2, <3>4
      <4> QED BY <3>2, <3>3, <3>4, <4>1
    <3>5. CASE plan'.retry = plan.retry /\ x = f.until
      <4>1. \A i \in DOMAIN plan.retry : i # k BY <3>2
      <4> QED BY <2>2, <3>5, <4>1
    <3> QED BY <3>4, <3>5
  (* What is buffered: the old answers, all of them, and the new one.       *)
  <2>4. /\ \A ev \in plan'.buffered : ev \in plan.buffered \/ (ev = got /\ f.after < x)
        /\ \A ev \in plan.buffered : ev \in plan'.buffered
        /\ f.after < x => got \in plan'.buffered
    <3>1. \A ev \in plan.buffered : ev.from # f.after
      <4> SUFFICES ASSUME NEW ev \in plan.buffered PROVE ev.from # f.after
        OBVIOUS
      <4>1. Apart(f.after, f.until, ev.from, ev.last) BY <2>0, <2>1 DEF FlightsTidy
      <4>2. ev.from < ev.last BY <2>1 DEF BufferTidy
      <4> QED BY <2>2, <2>t, <4>1, <4>2 DEF Apart
    <3> QED BY <3>1
  <2>5. got.from = f.after /\ got.last = x OBVIOUS
  <2> HIDE DEF k, got
  (* Nothing overlaps the range of f, so nothing overlaps a part of it.      *)
  <2>6. /\ \A i \in DOMAIN plan.retry :
             /\ Apart(plan.retry[i][1], plan.retry[i][2], x, f.until)
             /\ Apart(x, f.until, plan.retry[i][1], plan.retry[i][2])
             /\ Apart(plan.retry[i][1], plan.retry[i][2], f.after, x)
        /\ \A h \in flights' : ~h.stale =>
             Apart(x, f.until, h.after, h.until) /\ Apart(h.after, h.until, f.after, x)
        /\ \A ev \in plan.buffered :
             /\ Apart(x, f.until, ev.from, ev.last)
             /\ Apart(f.after, x, ev.from, ev.last) /\ Apart(ev.from, ev.last, f.after, x)
    <3>1. \A i \in DOMAIN plan.retry : Apart(plan.retry[i][1], plan.retry[i][2], f.after, f.until)
      BY <2>0, <2>1 DEF RetryTidy
    <3>2. \A h \in flights' : ~h.stale => Apart(h.after, h.until, f.after, f.until)
      BY <2>0, <2>1 DEF FlightsTidy
    <3>3. \A ev \in plan.buffered : Apart(f.after, f.until, ev.from, ev.last)
      BY <2>0, <2>1 DEF FlightsTidy
    <3>4. \A i \in DOMAIN plan.retry :
             /\ Apart(plan.retry[i][1], plan.retry[i][2], x, f.until)
             /\ Apart(x, f.until, plan.retry[i][1], plan.retry[i][2])
             /\ Apart(plan.retry[i][1], plan.retry[i][2], f.after, x)
      BY <2>2, <2>t, <3>1 DEF Apart
    <3>5. \A h \in flights' : ~h.stale =>
             Apart(x, f.until, h.after, h.until) /\ Apart(h.after, h.until, f.after, x)
      BY <2>2, <2>t, <3>2 DEF Apart
    <3>6. \A ev \in plan.buffered :
             /\ Apart(x, f.until, ev.from, ev.last)
             /\ Apart(f.after, x, ev.from, ev.last) /\ Apart(ev.from, ev.last, f.after, x)
      BY <2>2, <2>t, <3>3 DEF Apart
    <3> QED BY <3>4, <3>5, <3>6
  <2>7. Apart(x, f.until, f.after, x) BY DEF Apart
  <2>8. RetryTidy'
    <3> SUFFICES ASSUME NEW i \in DOMAIN plan'.retry
                 PROVE  /\ plan'.retry[i][1] < plan'.retry[i][2]
                        /\ plan'.retry[i][2] <= plan'.next
                        /\ \A j \in DOMAIN plan'.retry :
                             j # i => Apart(plan'.retry[i][1], plan'.retry[i][2],
                                            plan'.retry[j][1], plan'.retry[j][2])
                        /\ \A h \in flights' :
                             ~h.stale => Apart(plan'.retry[i][1], plan'.retry[i][2],
                                               h.after, h.until)
                        /\ \A ev \in plan'.buffered :
                             Apart(plan'.retry[i][1], plan'.retry[i][2], ev.from, ev.last)
      BY DEF RetryTidy
    <3>1. CASE i \in DOMAIN plan.retry /\ plan'.retry[i] = plan.retry[i]
      <4>1. \A j \in DOMAIN plan'.retry :
              j # i => Apart(plan'.retry[i][1], plan'.retry[i][2],
                             plan'.retry[j][1], plan'.retry[j][2])
        BY <2>1, <2>3, <2>6, <3>1 DEF RetryTidy
      <4>2. \A ev \in plan'.buffered :
              Apart(plan'.retry[i][1], plan'.retry[i][2], ev.from, ev.last)
        BY <2>1, <2>4, <2>5, <2>6, <3>1 DEF RetryTidy
      <4> QED BY <2>1, <3>1, <4>1, <4>2 DEF RetryTidy
    <3>2. CASE i = k /\ x < f.until /\ plan'.retry[i][1] = x /\ plan'.retry[i][2] = f.until
      <4>1. \A j \in DOMAIN plan'.retry :
              j # i => Apart(x, f.until, plan'.retry[j][1], plan'.retry[j][2])
        BY <2>3, <2>6, <3>2
      <4>2. \A ev \in plan'.buffered : Apart(x, f.until, ev.from, ev.last)
        BY <2>4, <2>5, <2>6, <2>7
      <4> QED BY <2>2, <2>6, <3>2, <4>1, <4>2
    <3> QED BY <2>3, <3>1, <3>2
  <2>9. FlightsTidy' BY <2>1, <2>4, <2>5, <2>6 DEF FlightsTidy
  <2>10. BufferTidy'
    <3>1. \A ev \in plan'.buffered : ev.from < ev.last /\ ev.last <= plan'.next
      BY <2>1, <2>2, <2>4, <2>5 DEF BufferTidy
    <3>2. ASSUME NEW ev \in plan'.buffered, NEW o \in plan'.buffered, o # ev
          PROVE  Apart(ev.from, ev.last, o.from, o.last)
      BY <2>1, <2>4, <2>5, <2>6, <3>2 DEF BufferTidy
    <3> QED BY <3>1, <3>2 DEF BufferTidy
  <2>11. TidyInv' BY <2>8, <2>9, <2>10 DEF TidyInv
  <2>12. Covered'
    <3> SUFFICES ASSUME NEW n \in (plan.cursor + 1)..plan.target, ~(n > plan.next)
                 PROVE  \/ \E i \in DOMAIN plan'.retry : plan'.retry[i][1] < n /\ n <= plan'.retry[i][2]
                        \/ \E h \in flights' : ~h.stale /\ h.after < n /\ n <= h.until
                        \/ \E ev \in plan'.buffered \cup {engine'.events} : ev.from < n /\ n <= ev.last
      BY DEF Covered
    <3>0. n \in Int /\ n > 0
      <4>1. plan.cursor \in Nat BY DEF TypeOK, OriginPlan
      <4> QED BY <4>1
    <3>1. \/ \E i \in DOMAIN plan.retry : plan.retry[i][1] < n /\ n <= plan.retry[i][2]
          \/ \E h \in flights : ~h.stale /\ h.after < n /\ n <= h.until
          \/ \E ev \in plan.buffered \cup {engine.events} : ev.from < n /\ n <= ev.last
      BY <2>0 DEF IInv, Covered
    <3>2. CASE f.after < n /\ n <= f.until
      <4>1. CASE n <= x BY <2>2, <2>4, <2>5, <3>0, <3>2, <4>1
      <4>2. CASE x < n
        <5>1. x < f.until BY <2>2, <3>0, <3>2, <4>2
        <5> QED BY <2>3, <3>2, <4>2, <5>1
      <4> QED BY <3>0, <4>1, <4>2
    <3>3. CASE ~(f.after < n /\ n <= f.until) BY <2>3, <2>4, <3>1, <3>3
    <3> QED BY <3>2, <3>3
  <2> QED BY <1>2, <1>3, <1>4, <2>11, <2>12 DEF IInv
<1>7. plan'.stray \in BOOLEAN BY DEF TypeOK, OriginPlan
<1> QED BY <1>5, <1>6, <1>7

LEMMA EventsInv ==
    ASSUME TypeOK, IInv, TypeOK', NEW f \in flights, RecvEvents(f)
    PROVE  IInv'
<1>0. /\ engine.events = NoEvents /\ engine'.pc # "commit" /\ engine'.events = NoEvents
      /\ plan \in OriginPlan /\ f.events \in Events /\ f.after \in Nat /\ f.until \in Nat
  BY DEF RecvEvents, At, TypeOK, Flight, IInv, EngineInv
<1>1. CASE plan = NoPlan
  <2>1. plan' = NoPlan /\ InFlight(flights \ {f}) /\ flights \ {f} \subseteq flights
    BY <1>1 DEF RecvEvents
  <2> QED BY <1>0, <2>1, DropInv
<1>2. CASE plan # NoPlan
  <2> DEFINE x == f.events.last
  <2>1. /\ f.events.from = f.after /\ f.after < x /\ x <= f.until /\ x \in Nat
        /\ f.events = [from |-> f.after, last |-> x]
    BY <1>0 DEF RecvEvents, IInv, AnswerInv
  <2>2. plan' = Complete(f) BY <1>2 DEF RecvEvents
  <2>3. /\ plan'.cursor = plan.cursor /\ plan'.next = plan.next /\ plan'.target = plan.target
        /\ plan'.stray = (plan.stray \/ f.stale)
        /\ plan'.retry = IF x < f.until THEN Append(plan.retry, <<x, f.until>>) ELSE plan.retry
        /\ plan'.buffered = {ev \in plan.buffered : ev.from # f.after} \cup {f.events}
    BY <1>0, <2>2 DEF Complete, OriginPlan
  <2>4. plan' # NoPlan
    <3>1. plan.target # 0 BY <1>2 DEF IInv, PlanInv
    <3> QED BY <2>3, <3>1, HasTarget DEF TypeOK
  <2>5. flights' = flights \ {f} BY <2>4 DEF RecvEvents, InFlight
  <2>6. x = f.until \/ x < f.until BY <1>0, <2>1
  <2> HIDE DEF x
  <2>7. /\ plan'.buffered = {ev \in plan.buffered : ev.from # f.after}
                              \cup {[from |-> f.after, last |-> x]}
        /\ \/ plan'.retry = Append(plan.retry, <<x, f.until>>) /\ (x = f.after \/ x < f.until)
           \/ plan'.retry = plan.retry /\ x = f.until
    BY <2>1, <2>3, <2>6
  <2> QED BY <1>0, <1>2, <2>1, <2>3, <2>5, <2>7, BackInv
<1> QED BY <1>1, <1>2

LEMMA FailureInv ==
    ASSUME TypeOK, IInv, TypeOK', NEW f \in flights, RecvFailure(f)
    PROVE  IInv'
<1>0. /\ engine.events = NoEvents /\ engine'.pc # "commit" /\ engine'.events = NoEvents
      /\ plan \in OriginPlan /\ f.after \in Nat /\ f.until \in Nat
  BY DEF RecvFailure, At, TypeOK, Flight, IInv, EngineInv
<1>1. CASE plan' = NoPlan
  <2>1. InFlight(flights \ {f}) /\ flights \ {f} \subseteq flights BY DEF RecvFailure
  <2> QED BY <1>0, <1>1, <2>1, DropInv
<1>2. CASE plan' # NoPlan
  <2>1. /\ plan # NoPlan /\ flights' = flights \ {f}
        /\ plan' = [plan EXCEPT !.retry = Append(@, <<f.after, f.until>>),
                                !.strikes = @ + 1, !.stray = @ \/ f.stale]
    BY <1>2 DEF RecvFailure, InFlight
  <2>2. /\ plan'.cursor = plan.cursor /\ plan'.next = plan.next /\ plan'.target = plan.target
        /\ plan'.stray = (plan.stray \/ f.stale)
        /\ plan'.retry = Append(plan.retry, <<f.after, f.until>>)
        /\ plan'.buffered = plan.buffered
    BY <1>0, <2>1 DEF OriginPlan
  <2> QED BY <1>0, <2>1, <2>2, BackInv
<1> QED BY <1>1, <1>2

(* An answer, or the loss of it, leaves the ask with its range.            *)
LEMMA RangeInv ==
    ASSUME TypeOK, IInv, TypeOK', NEW f \in flights, AnswerRange(f) \/ RangeFails(f)
    PROVE  IInv'
<1>0. f \in Flight /\ peer[f.to] \in PeerClock BY DEF TypeOK, Flight
<1>1. PICK g \in flights' :
        /\ flights' = (flights \ {f}) \cup {g}
        /\ g.after = f.after /\ g.until = f.until /\ g.stale = f.stale /\ g.phase = "back"
        /\ g.events # NoEvents => /\ g.events.from = g.after /\ g.after < g.events.last
                                  /\ g.events.last <= g.until
  <2> DEFINE lost == [f EXCEPT !.phase = "back"]
  <2>1. \/ flights' = (flights \ {f}) \cup {lost}
        \/ \E last \in (f.after + 1)..Smaller(f.until, peer[f.to].seq) :
             flights' = (flights \ {f}) \cup
               {[f EXCEPT !.phase = "back", !.events = [from |-> f.after, last |-> last]]}
    BY DEF AnswerRange, RangeFails
  <2>2. CASE flights' = (flights \ {f}) \cup {lost}
    <3>1. /\ lost.after = f.after /\ lost.until = f.until /\ lost.stale = f.stale
          /\ lost.phase = "back" /\ lost.events = f.events
      BY <1>0 DEF Flight
    <3>2. f.events = NoEvents BY DEF AnswerRange, RangeFails, IInv, AnswerInv
    <3> QED BY <2>2, <3>1, <3>2
  <2>3. ASSUME NEW last \in (f.after + 1)..Smaller(f.until, peer[f.to].seq),
               flights' = (flights \ {f}) \cup
                 {[f EXCEPT !.phase = "back", !.events = [from |-> f.after, last |-> last]]}
        PROVE  \E g \in flights' :
                 /\ flights' = (flights \ {f}) \cup {g}
                 /\ g.after = f.after /\ g.until = f.until /\ g.stale = f.stale
                 /\ g.phase = "back"
                 /\ g.events # NoEvents => /\ g.events.from = g.after /\ g.after < g.events.last
                                           /\ g.events.last <= g.until
    <3> DEFINE g == [f EXCEPT !.phase = "back", !.events = [from |-> f.after, last |-> last]]
    <3>1. /\ g.after = f.after /\ g.until = f.until /\ g.stale = f.stale
          /\ g.phase = "back" /\ g.events = [from |-> f.after, last |-> last]
      BY <1>0 DEF Flight
    <3>2. f.after < last /\ last <= f.until BY <1>0 DEF Flight, PeerClock, Smaller
    <3>3. g.events.from = f.after /\ g.events.last = last BY <3>1
    <3>4. g \in flights' /\ flights' = (flights \ {f}) \cup {g} BY <2>3
    <3> HIDE DEF g
    <3> QED BY <3>1, <3>2, <3>3, <3>4
  <2> QED BY <2>1, <2>2, <2>3
<1>2. UNCHANGED <<plan, engine>> BY DEF AnswerRange, RangeFails
<1>3. AnswerInv' BY <1>1 DEF IInv, AnswerInv
<1>4. EngineInv' BY <1>2 DEF IInv, EngineInv
<1>5. PlanInv' BY <1>1, <1>2 DEF IInv, PlanInv
<1>6. TidyInv'
  <2> SUFFICES ASSUME plan # NoPlan, ~plan.stray PROVE (RetryTidy /\ FlightsTidy /\ BufferTidy)'
    BY <1>2 DEF TidyInv
  <2>1. RetryTidy /\ FlightsTidy /\ BufferTidy BY DEF IInv, TidyInv
  <2>2. RetryTidy' BY <1>1, <1>2, <2>1 DEF RetryTidy
  <2>3. FlightsTidy' BY <1>1, <1>2, <2>1 DEF FlightsTidy
  <2> QED BY <1>2, <2>1, <2>2, <2>3 DEF BufferTidy
<1>7. Covered' BY <1>1, <1>2 DEF IInv, Covered
<1> QED BY <1>3, <1>4, <1>5, <1>6, <1>7 DEF IInv

LEMMA UnpickInv ==
    ASSUME TypeOK, Finite, IInv, TypeOK', Unpick
    PROVE  IInv'
<1>1. PICK a \in NextAsk : plan' = [a.plan EXCEPT !.retry = <<<<a.after, a.until>>>> \o @]
  BY DEF Unpick
<1>2. /\ plan # NoPlan /\ a.after \in Nat /\ a.until \in Nat /\ a.plan \in OriginPlan
      /\ \/ /\ plan.retry # <<>>
            /\ a.after = plan.retry[1][1] /\ a.until = plan.retry[1][2]
            /\ a.plan = [plan EXCEPT !.retry = Tail(plan.retry)]
         \/ /\ a.after = plan.next /\ plan.next < a.until /\ a.until <= plan.target
            /\ a.plan = [plan EXCEPT !.next = a.until]
  BY NextAskFacts
<1>3. /\ plan \in OriginPlan /\ plan.retry \in Seq(Asks) /\ a.plan.retry \in Seq(Asks)
      /\ plan.next \in Nat /\ plan.cursor \in Nat /\ plan.target \in Nat
      /\ <<a.after, a.until>> \in Asks
  BY <1>2 DEF TypeOK, OriginPlan, Asks
<1>4. /\ engine.events = NoEvents /\ engine.pc # "commit" /\ flights' = flights
      /\ engine'.pc # "commit" /\ engine'.events = NoEvents
  BY DEF Unpick, At, IInv, EngineInv
<1>5. /\ plan'.target = plan.target /\ plan'.cursor = plan.cursor
      /\ plan'.buffered = plan.buffered /\ plan'.stray = plan.stray
      /\ plan'.retry = <<<<a.after, a.until>>>> \o a.plan.retry
      /\ \/ /\ plan.retry # <<>> /\ plan'.next = plan.next
            /\ a.after = plan.retry[1][1] /\ a.until = plan.retry[1][2]
            /\ a.plan.retry = Tail(plan.retry)
         \/ /\ a.after = plan.next /\ plan.next < a.until /\ a.until <= plan.target
            /\ plan'.next = a.until /\ a.plan.retry = plan.retry
  <2>1. CASE /\ plan.retry # <<>>
             /\ a.after = plan.retry[1][1] /\ a.until = plan.retry[1][2]
             /\ a.plan = [plan EXCEPT !.retry = Tail(plan.retry)]
    BY <1>1, <1>3, <2>1 DEF OriginPlan
  <2>2. CASE /\ a.after = plan.next /\ plan.next < a.until /\ a.until <= plan.target
             /\ a.plan = [plan EXCEPT !.next = a.until]
    BY <1>1, <1>3, <2>2 DEF OriginPlan
  <2> QED BY <1>2, <2>1, <2>2
<1>6. /\ plan'.retry # <<>> /\ 1 \in DOMAIN plan'.retry
      /\ plan'.retry[1][1] = a.after /\ plan'.retry[1][2] = a.until
      /\ \A i \in DOMAIN plan'.retry :
           i = 1 \/ (i - 1 \in DOMAIN a.plan.retry /\ plan'.retry[i] = a.plan.retry[i - 1])
      /\ \A i \in DOMAIN a.plan.retry :
           i + 1 \in DOMAIN plan'.retry /\ plan'.retry[i + 1] = a.plan.retry[i]
  <2> DEFINE t == <<<<a.after, a.until>>>> \o a.plan.retry
  <2>1. /\ t # <<>> /\ 1 \in DOMAIN t /\ t[1] = <<a.after, a.until>>
        /\ \A i \in DOMAIN t : i = 1 \/ (i - 1 \in DOMAIN a.plan.retry
                                          /\ t[i] = a.plan.retry[i - 1])
        /\ \A i \in DOMAIN a.plan.retry : i + 1 \in DOMAIN t /\ t[i + 1] = a.plan.retry[i]
    BY <1>3, RetryPush
  <2> QED BY <1>5, <2>1
<1>7. plan' # NoPlan
  <2>1. plan.target # 0 BY <1>2 DEF IInv, PlanInv
  <2> QED BY <1>5, <2>1, HasTarget DEF TypeOK
<1>t. /\ \A f \in flights : f.after \in Nat /\ f.until \in Nat
      /\ \A ev \in plan.buffered : ev.from \in Nat /\ ev.last \in Nat
      /\ \A i \in DOMAIN plan.retry : plan.retry[i][1] \in Nat /\ plan.retry[i][2] \in Nat
  BY RangesAreNat
<1>8. AnswerInv' BY <1>4 DEF IInv, AnswerInv
<1>9. EngineInv' BY <1>4 DEF EngineInv
(* The queue is as it was: its head went and came back.                    *)
<1>10. CASE /\ plan.retry # <<>> /\ plan'.next = plan.next
            /\ a.after = plan.retry[1][1] /\ a.until = plan.retry[1][2]
            /\ a.plan.retry = Tail(plan.retry)
  <2>1. /\ \A i \in DOMAIN plan'.retry : /\ i \in DOMAIN plan.retry
                                        /\ plan'.retry[i][1] = plan.retry[i][1]
                                        /\ plan'.retry[i][2] = plan.retry[i][2]
        /\ \A i \in DOMAIN plan.retry : /\ i \in DOMAIN plan'.retry
                                       /\ plan'.retry[i][1] = plan.retry[i][1]
                                       /\ plan'.retry[i][2] = plan.retry[i][2]
    <3>1. /\ 1 \in DOMAIN plan.retry
          /\ \A i \in DOMAIN a.plan.retry :
               i + 1 \in DOMAIN plan.retry /\ a.plan.retry[i] = plan.retry[i + 1]
               /\ i \in Nat \ {0}
          /\ \A i \in DOMAIN plan.retry :
               i = 1 \/ (i - 1 \in DOMAIN a.plan.retry /\ a.plan.retry[i - 1] = plan.retry[i])
      <4>1. /\ \A i \in DOMAIN Tail(plan.retry) :
                 /\ i + 1 \in DOMAIN plan.retry /\ Tail(plan.retry)[i] = plan.retry[i + 1]
                 /\ i \in Nat \ {0}
            /\ \A i \in DOMAIN plan.retry :
                 i = 1 \/ (i - 1 \in DOMAIN Tail(plan.retry)
                           /\ Tail(plan.retry)[i - 1] = plan.retry[i])
            /\ 1 \in DOMAIN plan.retry
        BY <1>3, <1>10, RetryHead
      <4> QED BY <1>10, <4>1
    <3>2. \A i \in DOMAIN plan.retry : i \in Int BY <1>3
    <3>3. plan'.retry \in Seq(Asks) BY DEF TypeOK, OriginPlan, Asks
    <3>4. \A i \in DOMAIN plan'.retry : i \in Int BY <3>3
    <3>5. \A i \in Int : (i - 1) + 1 = i OBVIOUS
    <3>6. ASSUME NEW i \in DOMAIN plan'.retry
          PROVE  /\ i \in DOMAIN plan.retry
                 /\ plan'.retry[i][1] = plan.retry[i][1]
                 /\ plan'.retry[i][2] = plan.retry[i][2]
      <4>1. CASE i = 1 BY <1>6, <1>10, <3>1, <4>1
      <4>2. CASE i # 1
        <5>1. i - 1 \in DOMAIN a.plan.retry /\ plan'.retry[i] = a.plan.retry[i - 1]
          BY <1>6, <4>2
        <5>2. (i - 1) + 1 = i BY <3>4
        <5> QED BY <3>1, <5>1, <5>2
      <4> QED BY <4>1, <4>2
    <3>7. ASSUME NEW i \in DOMAIN plan.retry
          PROVE  /\ i \in DOMAIN plan'.retry
                 /\ plan'.retry[i][1] = plan.retry[i][1]
                 /\ plan'.retry[i][2] = plan.retry[i][2]
      <4>1. CASE i = 1 BY <1>6, <1>10, <3>1, <4>1
      <4>2. CASE i # 1
        <5>1. i - 1 \in DOMAIN a.plan.retry /\ a.plan.retry[i - 1] = plan.retry[i]
          BY <3>1, <4>2
        <5>2. (i - 1) + 1 = i BY <3>2
        <5> QED BY <1>6, <5>1, <5>2
      <4> QED BY <4>1, <4>2
    <3> QED BY <3>6, <3>7
  <2>2. PlanInv' BY <1>2, <1>5, <1>7, <1>10 DEF IInv, PlanInv
  <2>3. TidyInv'
    <3> SUFFICES ASSUME ~plan.stray PROVE (RetryTidy /\ FlightsTidy /\ BufferTidy)'
      BY <1>5 DEF TidyInv
    <3>1. RetryTidy /\ FlightsTidy /\ BufferTidy BY <1>2 DEF IInv, TidyInv
    <3>2. RetryTidy' BY <1>4, <1>5, <1>10, <2>1, <3>1 DEF RetryTidy
    <3> QED BY <1>4, <1>5, <1>10, <3>1, <3>2 DEF FlightsTidy, BufferTidy
  <2>4. Covered'
    <3> SUFFICES ASSUME ~plan.stray, NEW n \in (plan.cursor + 1)..plan.target, ~(n > plan.next)
                 PROVE  \/ \E i \in DOMAIN plan'.retry : plan'.retry[i][1] < n /\ n <= plan'.retry[i][2]
                        \/ \E f \in flights' : ~f.stale /\ f.after < n /\ n <= f.until
                        \/ \E ev \in plan'.buffered \cup {engine'.events} : ev.from < n /\ n <= ev.last
      BY <1>5, <1>10 DEF Covered
    <3>1. \/ \E i \in DOMAIN plan.retry : plan.retry[i][1] < n /\ n <= plan.retry[i][2]
          \/ \E f \in flights : ~f.stale /\ f.after < n /\ n <= f.until
          \/ \E ev \in plan.buffered \cup {engine.events} : ev.from < n /\ n <= ev.last
      BY <1>2 DEF IInv, Covered
    <3> QED BY <1>4, <1>5, <2>1, <3>1
  <2> QED BY <1>8, <1>9, <2>2, <2>3, <2>4 DEF IInv
(* The queue begins with the chunk that was next.                          *)
<1>11. CASE /\ a.after = plan.next /\ plan.next < a.until /\ a.until <= plan.target
            /\ plan'.next = a.until /\ a.plan.retry = plan.retry
  <2>1. PlanInv'
    <3>1. plan'.next <= Larger(plan.cursor, plan.target) BY <1>2, <1>3, <1>11 DEF Larger
    <3> QED BY <1>2, <1>5, <1>7, <3>1 DEF IInv, PlanInv
  <2>2. TidyInv'
    <3> SUFFICES ASSUME ~plan.stray PROVE (RetryTidy /\ FlightsTidy /\ BufferTidy)'
      BY <1>5 DEF TidyInv
    <3>1. RetryTidy /\ FlightsTidy /\ BufferTidy BY <1>2 DEF IInv, TidyInv
    <3>2. /\ \A i \in DOMAIN plan.retry :
               /\ plan.retry[i][2] <= plan'.next
               /\ Apart(a.after, a.until, plan.retry[i][1], plan.retry[i][2])
               /\ Apart(plan.retry[i][1], plan.retry[i][2], a.after, a.until)
          /\ \A f \in flights : ~f.stale =>
               f.until <= plan'.next /\ Apart(a.after, a.until, f.after, f.until)
          /\ \A ev \in plan.buffered :
               ev.last <= plan'.next /\ Apart(a.after, a.until, ev.from, ev.last)
      <4>1. \A i \in DOMAIN plan.retry : plan.retry[i][2] <= plan.next BY <3>1 DEF RetryTidy
      <4>2. \A f \in flights : ~f.stale => f.until <= plan.next BY <3>1 DEF FlightsTidy
      <4>3. \A ev \in plan.buffered : ev.last <= plan.next BY <3>1 DEF BufferTidy
      <4> QED BY <1>2, <1>3, <1>11, <1>t, <4>1, <4>2, <4>3 DEF Apart
    <3>3. RetryTidy'
      <4> SUFFICES ASSUME NEW i \in DOMAIN plan'.retry
                   PROVE  /\ plan'.retry[i][1] < plan'.retry[i][2]
                          /\ plan'.retry[i][2] <= plan'.next
                          /\ \A j \in DOMAIN plan'.retry :
                               j # i => Apart(plan'.retry[i][1], plan'.retry[i][2],
                                              plan'.retry[j][1], plan'.retry[j][2])
                          /\ \A f \in flights' :
                               ~f.stale => Apart(plan'.retry[i][1], plan'.retry[i][2],
                                                 f.after, f.until)
                          /\ \A ev \in plan'.buffered :
                               Apart(plan'.retry[i][1], plan'.retry[i][2], ev.from, ev.last)
        BY DEF RetryTidy
      <4>0. /\ plan'.retry \in Seq(Asks)
            /\ \A j \in DOMAIN plan'.retry : j \in Int
        <5>1. plan'.retry \in Seq(Asks) BY DEF TypeOK, OriginPlan, Asks
        <5> QED BY <5>1
      <4>1. CASE i = 1
        <5>1. \A j \in DOMAIN plan'.retry :
                j # i => Apart(a.after, a.until, plan'.retry[j][1], plan'.retry[j][2])
          BY <1>6, <1>11, <3>2, <4>1
        <5> QED BY <1>2, <1>3, <1>4, <1>5, <1>6, <1>11, <3>2, <4>1, <5>1
      <4>2. CASE i # 1
        <5>1. i - 1 \in DOMAIN plan.retry /\ plan'.retry[i] = plan.retry[i - 1]
          BY <1>6, <1>11, <4>2
        <5>2. ASSUME NEW j \in DOMAIN plan'.retry, j # i
              PROVE  Apart(plan'.retry[i][1], plan'.retry[i][2],
                           plan'.retry[j][1], plan'.retry[j][2])
          <6>1. CASE j = 1 BY <1>6, <3>2, <5>1, <6>1
          <6>2. CASE j # 1
            <7>1. j - 1 \in DOMAIN plan.retry /\ plan'.retry[j] = plan.retry[j - 1]
              BY <1>6, <1>11, <6>2
            <7>2. i - 1 # j - 1 BY <4>0, <5>2
            <7> QED BY <3>1, <5>1, <7>1, <7>2 DEF RetryTidy
          <6> QED BY <6>1, <6>2
        <5> QED BY <1>4, <1>5, <3>1, <3>2, <5>1, <5>2 DEF RetryTidy
      <4> QED BY <4>1, <4>2
    <3>4. FlightsTidy' BY <1>4, <1>5, <3>1, <3>2 DEF FlightsTidy
    <3>5. BufferTidy' BY <1>5, <3>1, <3>2 DEF BufferTidy
    <3> QED BY <3>3, <3>4, <3>5
  <2>3. Covered'
    <3> SUFFICES ASSUME ~plan.stray, NEW n \in (plan.cursor + 1)..plan.target, ~(n > a.until)
                 PROVE  \/ \E i \in DOMAIN plan'.retry : plan'.retry[i][1] < n /\ n <= plan'.retry[i][2]
                        \/ \E f \in flights' : ~f.stale /\ f.after < n /\ n <= f.until
                        \/ \E ev \in plan'.buffered \cup {engine'.events} : ev.from < n /\ n <= ev.last
      BY <1>5, <1>11 DEF Covered
    <3>1. CASE n > plan.next
      <4>1. a.after < n /\ n <= a.until BY <1>2, <1>3, <1>11, <3>1
      <4> QED BY <1>6, <4>1
    <3>2. CASE ~(n > plan.next)
      <4>1. \/ \E i \in DOMAIN plan.retry : plan.retry[i][1] < n /\ n <= plan.retry[i][2]
            \/ \E f \in flights : ~f.stale /\ f.after < n /\ n <= f.until
            \/ \E ev \in plan.buffered \cup {engine.events} : ev.from < n /\ n <= ev.last
        BY <1>2, <3>2 DEF IInv, Covered
      <4>2. \A i \in DOMAIN plan.retry :
              i + 1 \in DOMAIN plan'.retry /\ plan'.retry[i + 1] = plan.retry[i]
        BY <1>6, <1>11
      <4>3. plan'.buffered = plan.buffered BY <1>5
      <4> QED BY <1>4, <4>1, <4>2, <4>3
    <3> QED BY <3>1, <3>2
  <2> QED BY <1>8, <1>9, <2>1, <2>2, <2>3 DEF IInv
<1> QED BY <1>5, <1>10, <1>11

(* Events applied, or already there, move the cursor over what they cover. *)
LEMMA AppliedInv ==
    ASSUME TypeOK, IInv, TypeOK', plan # NoPlan, UNCHANGED flights,
           NEW ev \in plan.buffered \cup {engine.events}, NEW rest \in OriginPlan,
           plan' = Applied(rest, ev.last),
           rest.cursor = plan.cursor, rest.next = plan.next, rest.target = plan.target,
           rest.retry = plan.retry, rest.stray = plan.stray,
           rest.buffered \subseteq plan.buffered,
           plan.buffered \cup {engine.events} \subseteq rest.buffered \cup {ev, NoEvents},
           engine'.pc # "commit", engine'.events = NoEvents
    PROVE  IInv'
<1>0. /\ plan.cursor \in Nat /\ plan.next \in Nat /\ plan.target \in Nat
      /\ ev.last \in Nat /\ ev.from \in Nat
  BY DEF TypeOK, OriginPlan, Engine
<1> DEFINE cursor == Larger(plan.cursor, ev.last)
<1>1. /\ plan'.cursor = cursor /\ plan'.next = Larger(plan.next, cursor)
      /\ plan'.target = plan.target /\ plan'.retry = plan.retry
      /\ plan'.stray = plan.stray /\ plan'.buffered = rest.buffered
  BY DEF Applied, OriginPlan
<1>2. /\ plan'.cursor \in Nat /\ plan'.next \in Nat
      /\ plan.cursor <= plan'.cursor /\ ev.last <= plan'.cursor
      /\ plan.next <= plan'.next
      /\ plan'.next = plan.next \/ plan'.next = plan'.cursor
  BY <1>0, <1>1 DEF Larger
<1>3. plan' # NoPlan
  <2>1. plan.target # 0 BY DEF IInv, PlanInv
  <2> QED BY <1>1, <2>1, HasTarget DEF TypeOK
<1>4. AnswerInv' BY DEF IInv, AnswerInv
<1>5. EngineInv' BY DEF EngineInv
<1>6. PlanInv'
  <2>1. plan'.next <= Larger(plan'.cursor, plan'.target)
    BY <1>0, <1>1, <1>2 DEF IInv, PlanInv, Larger
  <2> QED BY <1>1, <1>3, <2>1 DEF IInv, PlanInv
<1>7. TidyInv'
  <2> SUFFICES ASSUME ~plan.stray PROVE (RetryTidy /\ FlightsTidy /\ BufferTidy)'
    BY <1>1 DEF TidyInv
  <2>1. RetryTidy /\ FlightsTidy /\ BufferTidy BY DEF IInv, TidyInv
  <2>2. /\ \A i \in DOMAIN plan.retry : plan.retry[i][2] <= plan'.next
        /\ \A f \in flights : ~f.stale => f.until <= plan'.next
        /\ \A o \in plan.buffered : o.last <= plan'.next
    <3>1. \A i \in DOMAIN plan.retry : plan.retry[i][2] <= plan.next BY <2>1 DEF RetryTidy
    <3>2. \A f \in flights : ~f.stale => f.until <= plan.next BY <2>1 DEF FlightsTidy
    <3>3. \A o \in plan.buffered : o.last <= plan.next BY <2>1 DEF BufferTidy
    <3> QED BY <1>0, <1>2, <3>1, <3>2, <3>3, RangesAreNat
  <2>3. plan'.buffered \subseteq plan.buffered BY <1>1
  <2>4. RetryTidy' BY <1>1, <2>1, <2>2, <2>3 DEF RetryTidy
  <2>5. FlightsTidy' BY <1>1, <2>1, <2>2, <2>3 DEF FlightsTidy
  <2>6. BufferTidy' BY <2>1, <2>2, <2>3 DEF BufferTidy
  <2> QED BY <2>4, <2>5, <2>6
<1>8. Covered'
  <2> SUFFICES ASSUME ~plan.stray, NEW n \in (plan'.cursor + 1)..plan.target, ~(n > plan'.next)
               PROVE  \/ \E i \in DOMAIN plan'.retry : plan'.retry[i][1] < n /\ n <= plan'.retry[i][2]
                      \/ \E f \in flights' : ~f.stale /\ f.after < n /\ n <= f.until
                      \/ \E o \in plan'.buffered \cup {engine'.events} : o.from < n /\ n <= o.last
    BY <1>1 DEF Covered
  <2>1. n \in (plan.cursor + 1)..plan.target /\ n > ev.last /\ n > 0 /\ n \in Int
    BY <1>0, <1>2
  <2>2. ~(n > plan.next) BY <1>0, <1>2, <2>1
  <2>3. \/ \E i \in DOMAIN plan.retry : plan.retry[i][1] < n /\ n <= plan.retry[i][2]
        \/ \E f \in flights : ~f.stale /\ f.after < n /\ n <= f.until
        \/ \E o \in plan.buffered \cup {engine.events} : o.from < n /\ n <= o.last
    BY <2>1, <2>2 DEF IInv, Covered
  <2>4. ASSUME NEW o \in plan.buffered \cup {engine.events}, n <= o.last
        PROVE  o \in plan'.buffered
    <3>1. o # ev BY <1>0, <2>1, <2>4
    <3>2. o # NoEvents BY <2>1, <2>4
    <3> QED BY <1>1, <3>1, <3>2
  <2> QED BY <1>1, <2>3, <2>4
<1> QED BY <1>4, <1>5, <1>6, <1>7, <1>8 DEF IInv

LEMMA TakeInv == ASSUME TypeOK, IInv, TypeOK', Take PROVE IInv'
<1>1. PICK ev \in Ready :
        LET rest == [plan EXCEPT !.buffered = @ \ {ev}]
            verdict == Verdict(clock, plan.gen, ev)
        IN
        \/ /\ verdict = "connects"
           /\ plan' = rest
           /\ engine' = [pc |-> "commit", events |-> ev, at |-> clock]
           /\ UNCHANGED lease
        \/ /\ verdict = "ignored"
           /\ plan' = Applied(rest, ev.last)
           /\ UNCHANGED <<lease, engine>>
        \/ /\ verdict = "gap"
           /\ plan' = NoPlan
           /\ Unenroll
           /\ UNCHANGED engine
  BY DEF Take
<1>2. /\ plan \in OriginPlan /\ ev \in plan.buffered /\ ev \in Events /\ plan # NoPlan
      /\ engine.pc = "drain" /\ engine.events = NoEvents
  <2>1. plan \in OriginPlan BY DEF TypeOK
  <2>2. ev \in plan.buffered BY DEF Ready
  <2>3. ev \in Events BY <2>1, <2>2 DEF OriginPlan
  <2>4. plan # NoPlan BY <2>2 DEF NoPlan
  <2>5. engine.pc = "drain" BY DEF Take
  <2>6. engine.events = NoEvents BY <2>5 DEF IInv, EngineInv
  <2> QED BY <2>1, <2>2, <2>3, <2>4, <2>5, <2>6
<1> DEFINE rest == [plan EXCEPT !.buffered = @ \ {ev}]
<1>3. /\ rest \in OriginPlan
      /\ rest.gen = plan.gen /\ rest.cursor = plan.cursor /\ rest.next = plan.next
      /\ rest.target = plan.target /\ rest.retry = plan.retry /\ rest.stray = plan.stray
      /\ rest.buffered = plan.buffered \ {ev}
  BY <1>2 DEF OriginPlan
<1>4. plan.target # 0 BY <1>2 DEF IInv, PlanInv
<1> HIDE DEF rest
<1>5. CASE /\ Verdict(clock, plan.gen, ev) = "connects"
           /\ plan' = rest
           /\ engine' = [pc |-> "commit", events |-> ev, at |-> clock]
  <2>1. plan' # NoPlan BY <1>3, <1>4, <1>5, HasTarget
  <2>2. flights' = flights BY <2>1 DEF Take, InFlight
  <2>3. AnswerInv' BY <2>2 DEF IInv, AnswerInv
  <2>4. EngineInv' BY <1>3, <1>5, <2>1 DEF EngineInv
  <2>5. PlanInv' BY <1>2, <1>3, <1>5, <2>1 DEF IInv, PlanInv
  <2>6. TidyInv'
    <3>1. plan'.buffered \subseteq plan.buffered BY <1>3, <1>5
    <3> QED BY <1>2, <1>3, <1>5, <2>2, <3>1
          DEF IInv, TidyInv, RetryTidy, FlightsTidy, BufferTidy
  <2>7. Covered'
    <3> SUFFICES ASSUME ~plan.stray, NEW n \in (plan.cursor + 1)..plan.target, ~(n > plan.next)
                 PROVE  \/ \E i \in DOMAIN plan'.retry : plan'.retry[i][1] < n /\ n <= plan'.retry[i][2]
                        \/ \E f \in flights' : ~f.stale /\ f.after < n /\ n <= f.until
                        \/ \E o \in plan'.buffered \cup {engine'.events} : o.from < n /\ n <= o.last
      BY <1>3, <1>5 DEF Covered
    <3>1. \/ \E i \in DOMAIN plan.retry : plan.retry[i][1] < n /\ n <= plan.retry[i][2]
          \/ \E f \in flights : ~f.stale /\ f.after < n /\ n <= f.until
          \/ \E o \in plan.buffered \cup {engine.events} : o.from < n /\ n <= o.last
      BY <1>2 DEF IInv, Covered
    <3>2. n \in Int /\ n > 0
      <4>1. plan.cursor \in Nat BY <1>2 DEF OriginPlan
      <4> QED BY <4>1
    <3>3. ASSUME NEW o \in plan.buffered \cup {engine.events}, o.from < n, n <= o.last
          PROVE  o \in plan'.buffered \cup {engine'.events}
      BY <1>2, <1>3, <1>5, <3>2, <3>3
    <3> QED BY <1>3, <1>5, <2>2, <3>1, <3>3
  <2> QED BY <2>3, <2>4, <2>5, <2>6, <2>7 DEF IInv
<1>6. CASE plan' = Applied(rest, ev.last) /\ UNCHANGED engine
  <2>1. plan' # NoPlan
    <3>1. plan'.target = plan.target BY <1>3, <1>6 DEF Applied, OriginPlan
    <3> QED BY <1>4, <3>1, HasTarget DEF TypeOK
  <2>2. flights' = flights BY <2>1 DEF Take, InFlight
  <2>3. /\ rest.buffered \subseteq plan.buffered
        /\ plan.buffered \cup {engine.events} \subseteq rest.buffered \cup {ev, NoEvents}
        /\ engine'.pc # "commit" /\ engine'.events = NoEvents
    BY <1>2, <1>3, <1>6
  <2> QED BY <1>2, <1>3, <1>6, <2>2, <2>3, AppliedInv
<1>7. CASE plan' = NoPlan /\ UNCHANGED engine
  <2>1. InFlight(flights) BY DEF Take
  <2> QED BY <1>2, <1>7, <2>1, DropInv
<1> QED BY <1>1, <1>5, <1>6, <1>7 DEF rest

LEMMA CommitInv == ASSUME TypeOK, IInv, TypeOK', Commit PROVE IInv'
<1>1. plan # NoPlan /\ plan \in OriginPlan BY DEF Commit, IInv, EngineInv, TypeOK
<1>2. /\ plan' = Applied(plan, engine.events.last) /\ UNCHANGED flights
      /\ engine'.pc # "commit" /\ engine'.events = NoEvents
  BY DEF Commit, At
<1> QED BY <1>1, <1>2, AppliedInv

LEMMA DrainedInv == ASSUME TypeOK, IInv, TypeOK', Drained PROVE IInv'
<1>1. /\ engine.pc # "commit" /\ engine.events = NoEvents
      /\ engine'.pc # "commit" /\ engine'.events = NoEvents /\ InFlight(flights)
  BY DEF Drained, At, IInv, EngineInv
<1>2. CASE plan' = NoPlan BY <1>1, <1>2, DropInv
<1>3. CASE plan' # NoPlan
  <2>1. plan' = plan BY <1>3 DEF Drained
  <2>2. flights' = flights BY <1>1, <1>3 DEF InFlight
  <2> QED BY <1>1, <2>1, <2>2, StillInv
<1> QED BY <1>2, <1>3

LEMMA InitInv == Init => IInv
<1> SUFFICES ASSUME Init PROVE IInv
  OBVIOUS
<1>1. TypeOK BY TypeInit
<1> QED BY <1>1 DEF Init, IInv, AnswerInv, EngineInv, PlanInv, TidyInv, Covered, At

LEMMA NextInv == TypeOK /\ Finite /\ IInv /\ [Next]_vars => IInv'
<1> SUFFICES ASSUME TypeOK, Finite, IInv, [Next]_vars PROVE IInv'
  OBVIOUS
<1>0. TypeOK' BY TypeNext
<1>1. CASE UNCHANGED vars
  <2>1. UNCHANGED <<plan, flights, engine>> BY <1>1 DEF vars
  <2> QED BY <1>0, <2>1, StillInv
<1>2. CASE Mesh
  <2>1. UNCHANGED <<plan, flights, engine>> BY <1>2 DEF Mesh, Export, Regenerate, Follow
  <2> QED BY <1>0, <2>1, StillInv
<1>3. ASSUME NEW p \in Peer, Pull(p) \/ RoundFails(p) PROVE IInv'
  <2>1. UNCHANGED <<plan, flights, engine>>
    BY <1>3 DEF Pull, Claim, Answer, ApplyRound, Settle, RoundFails
  <2> QED BY <1>0, <2>1, StillInv
<1>4. CASE Fill
  <2>1. CASE Filled
    <3>1. /\ UNCHANGED <<plan, flights>> /\ engine.events = NoEvents /\ engine.pc # "commit"
          /\ engine'.events = NoEvents /\ engine'.pc # "commit"
      BY <2>1 DEF Filled, At, IInv, EngineInv
    <3> QED BY <1>0, <3>1, StillInv
  <2> QED BY <1>0, <1>4, <2>1, UnpickInv, DispatchInv DEF Fill
<1>5. CASE Select
  <2>1. CASE Tick
    <3>1. /\ UNCHANGED <<plan, flights>> /\ engine.events = NoEvents /\ engine.pc # "commit"
          /\ engine'.events = NoEvents /\ engine'.pc # "commit"
      BY <2>1 DEF Tick, At, IInv, EngineInv
    <3> QED BY <1>0, <3>1, StillInv
  <2> QED BY <1>0, <1>5, <2>1, EnrolInv, EventsInv, FailureInv DEF Select
<1>6. CASE Drain BY <1>0, <1>6, TakeInv, CommitInv, DrainedInv DEF Drain
<1>7. ASSUME NEW f \in flights, AnswerRange(f) \/ RangeFails(f) PROVE IInv'
  BY <1>0, <1>7, RangeInv
<1> QED BY <1>1, <1>2, <1>3, <1>4, <1>5, <1>6, <1>7 DEF Next

LEMMA Inductive == Spec => [](TypeOK /\ Finite /\ IInv)
<1>1. Init => TypeOK /\ Finite /\ IInv BY TypeInit, InitInv
<1>2. TypeOK /\ Finite /\ IInv /\ [Next]_vars => (TypeOK /\ Finite /\ IInv)'
  BY TypeNext, NextInv
<1> QED BY <1>1, <1>2, PTL DEF Spec

-----------------------------------------------------------------------------
(* Theorems *)

(* No seq a plan owes is lost: a short answer, a failed or timed-out ask, a *)
(* dispatch that found no peer, a raised target and an application out of   *)
(* the reorder buffer leave every seq between the cursor and the target     *)
(* queued, in flight, buffered, being applied or still to be asked for      *)
(* (Catchup::next_ask, unpick, complete, strike, take_ready, applied).      *)
THEOREM NothingIsDropped == Spec => []Covered
<1>1. IInv => Covered BY DEF IInv
<1> QED BY <1>1, Inductive, PTL

(* The clock only moves over events that were journaled with it: an        *)
(* application connects to the clock it is applied at.                     *)
LEMMA JournalConnects ==
    ASSUME TypeOK, NEW gen \in Nat, NEW ev \in Events,
           Verdict(clock, gen, ev) = "connects", Journal(gen, ev)
    PROVE  /\ clock'.gen = gen /\ clock'.seq = ev.last
           /\ jour' = jour \cup (clock.seq + 1)..ev.last
           /\ clock.gen <= gen
           /\ clock.gen = gen => clock.seq <= ev.last
<1>1. clock \in Clock /\ ev.from \in Nat /\ ev.last \in Nat BY DEF TypeOK
<1>2. ~(gen < clock.gen) /\ ~(ev.last <= clock.seq) /\ ~(ev.from > clock.seq)
  BY <1>1 DEF Verdict
<1>3. Larger(clock.seq, ev.from) = clock.seq BY <1>1, <1>2 DEF Larger
<1> QED BY <1>1, <1>2, <1>3 DEF Journal

LEMMA StoreSteps ==
    ASSUME TypeOK, IInv, [Next]_vars
    PROVE  \/ UNCHANGED <<clock, jour>>
           \/ \E gen \in Nat, ev \in Events :
                Verdict(clock, gen, ev) = "connects" /\ Journal(gen, ev)
           \/ clock' \in Clock /\ Newer(clock', clock) /\ jour' = {}
<1>1. CASE UNCHANGED vars BY <1>1 DEF vars
<1>2. CASE Mesh BY <1>2 DEF Mesh, Export, Regenerate, Follow, store
<1>3. ASSUME NEW p \in Peer, Claim(p) \/ Answer(p) \/ Settle(p) \/ RoundFails(p)
      PROVE  UNCHANGED <<clock, jour>>
  BY <1>3 DEF Claim, Answer, Settle, RoundFails, store
<1>4. ASSUME NEW p \in Peer, ApplyRound(p)
      PROVE  \/ UNCHANGED <<clock, jour>>
             \/ \E gen \in Nat, ev \in Events :
                  Verdict(clock, gen, ev) = "connects" /\ Journal(gen, ev)
             \/ clock' \in Clock /\ Newer(clock', clock) /\ jour' = {}
  <2>1. round[p].adv \in Clock /\ round[p].adv.gen \in Nat /\ round[p].events \in Events
    BY DEF TypeOK, Round
  <2>2. \/ Verdict(clock, round[p].adv.gen, round[p].events) = "connects"
           /\ Journal(round[p].adv.gen, round[p].events)
        \/ Newer(round[p].adv, clock) /\ clock' = round[p].adv /\ jour' = {}
        \/ UNCHANGED store
    BY <1>4 DEF ApplyRound
  <2> QED BY <2>1, <2>2 DEF store
<1>5. CASE Fill \/ Select \/ Take \/ Drained
  BY <1>5 DEF Fill, Unpick, Filled, Dispatch, Select, RecvEnrol, Tick, RecvEvents, RecvFailure,
              Take, Drained, store
<1>6. CASE Commit
  <2>1. plan.gen \in Nat /\ engine.events \in Events BY DEF TypeOK, OriginPlan, Engine
  <2>2. Verdict(engine.at, plan.gen, engine.events) = "connects"
    BY <1>6 DEF Commit, IInv, EngineInv
  <2>3. \/ clock = engine.at /\ Journal(plan.gen, engine.events)
        \/ UNCHANGED store
    BY <1>6 DEF Commit
  <2> QED BY <2>1, <2>2, <2>3 DEF store
<1>7. ASSUME NEW f \in flights, AnswerRange(f) \/ RangeFails(f) PROVE UNCHANGED <<clock, jour>>
  BY <1>7 DEF AnswerRange, RangeFails, store
<1> QED BY <1>1, <1>2, <1>3, <1>4, <1>5, <1>6, <1>7 DEF Next, Pull, Drain

(* The copy of an origin never goes back, whether a loop's round, a        *)
(* snapshot or the engine writes it last: apply_suffix and its expect gate, *)
(* replace_holdings.                                                       *)
THEOREM CopyNeverGoesBack == Spec => NeverBack
<1>1. TypeOK /\ Finite /\ IInv /\ [Next]_vars =>
        [/\ clock.gen <= clock'.gen
         /\ clock.gen = clock'.gen => clock.seq <= clock'.seq]_vars
  <2> SUFFICES ASSUME TypeOK, IInv, [Next]_vars
               PROVE  /\ clock.gen <= clock'.gen
                      /\ clock.gen = clock'.gen => clock.seq <= clock'.seq
    OBVIOUS
  <2>0. clock \in Clock BY DEF TypeOK
  <2>1. CASE UNCHANGED <<clock, jour>> BY <2>0, <2>1
  <2>2. ASSUME NEW gen \in Nat, NEW ev \in Events,
               Verdict(clock, gen, ev) = "connects", Journal(gen, ev)
        PROVE  /\ clock.gen <= clock'.gen
               /\ clock.gen = clock'.gen => clock.seq <= clock'.seq
    BY <2>2, JournalConnects
  <2>3. CASE clock' \in Clock /\ Newer(clock', clock) BY <2>0, <2>3 DEF Newer
  <2> QED BY <2>1, <2>2, <2>3, StoreSteps
<1> QED BY <1>1, Inductive, PTL DEF Spec, NeverBack

(* The rows of a copy have no holes up to its clock, so a relay never       *)
(* serves a suffix with a gap.                                             *)
THEOREM JournalHasNoHoles == Spec => []NoHoles
<1>1. Init => NoHoles BY DEF Init, NoHoles
<1>2. TypeOK /\ Finite /\ IInv /\ NoHoles /\ [Next]_vars => NoHoles'
  <2> SUFFICES ASSUME TypeOK, IInv, NoHoles, [Next]_vars PROVE NoHoles'
    OBVIOUS
  <2>0. clock \in Clock /\ jour \subseteq Nat BY DEF TypeOK
  <2>1. CASE UNCHANGED <<clock, jour>> BY <2>1 DEF NoHoles
  <2>2. ASSUME NEW gen \in Nat, NEW ev \in Events,
               Verdict(clock, gen, ev) = "connects", Journal(gen, ev)
        PROVE  NoHoles'
    <3>1. clock'.seq = ev.last /\ jour' = jour \cup (clock.seq + 1)..ev.last
      BY <2>2, JournalConnects
    <3>2. clock.seq \in Nat /\ ev.last \in Nat BY <2>0
    <3>3. ASSUME NEW first \in jour', NEW n \in first..ev.last PROVE n \in jour'
      <4>1. CASE n <= clock.seq
        <5>1. first \in Nat BY <2>0, <3>1, <3>2, <3>3
        <5>2. first \in jour BY <3>1, <3>2, <4>1, <5>1
        <5>3. n \in first..clock.seq BY <3>2, <4>1, <5>1
        <5> QED BY <3>1, <5>2, <5>3 DEF NoHoles
      <4>2. CASE ~(n <= clock.seq)
        <5>1. first \in Nat BY <2>0, <3>1, <3>2, <3>3
        <5>2. n \in (clock.seq + 1)..ev.last BY <3>2, <4>2, <5>1
        <5> QED BY <3>1, <5>2
      <4> QED BY <4>1, <4>2
    <3> QED BY <3>1, <3>3 DEF NoHoles
  <2>3. CASE jour' = {} BY <2>3 DEF NoHoles
  <2> QED BY <2>1, <2>2, <2>3, StoreSteps
<1> QED BY <1>1, <1>2, Inductive, PTL DEF Spec

LEMMA OwnerPull ==
    ASSUME TypeOK, LeaseHasOwner, NEW p \in Peer, Pull(p) \/ RoundFails(p)
    PROVE  LeaseHasOwner'
<1>0. p # "engine" /\ "none" # "engine" /\ queue \in Seq(Enrolment) /\ plan' = plan
  BY PeerAssumption DEF TypeOK, Pull, Claim, Answer, ApplyRound, Settle, RoundFails
<1>1. CASE Claim(p) BY <1>0, <1>1 DEF Claim, LeaseHasOwner
<1>2. CASE Answer(p) \/ ApplyRound(p)
  <2>1. UNCHANGED <<lease, queue>> BY <1>2 DEF Answer, ApplyRound
  <2> QED BY <1>0, <2>1 DEF LeaseHasOwner
<1>3. CASE Settle(p)
  <2> DEFINE e == [gen |-> round[p].adv.gen, target |-> round[p].adv.seq]
  <2>1. queue' = Append(queue, e) \/ queue' = queue BY <1>3 DEF Settle
  <2>2. e \in Enrolment
    <3>1. round[p].adv \in Clock BY DEF TypeOK, Round
    <3> QED BY <3>1 DEF Enrolment
  <2>3. Append(queue, e) # <<>> BY <1>0, <2>2
  <2> HIDE DEF e
  <2>4. CASE lease = "engine" BY <1>0, <2>1, <2>3, <2>4 DEF LeaseHasOwner
  <2>5. CASE lease # "engine"
    <3>1. lease' = "engine" => queue' = Append(queue, e)
      BY <1>0, <1>3, <2>5 DEF Settle, e
    <3> QED BY <2>3, <3>1 DEF LeaseHasOwner
  <2> QED BY <2>4, <2>5
<1>4. CASE RoundFails(p) BY <1>0, <1>4 DEF RoundFails, LeaseHasOwner
<1> QED BY <1>1, <1>2, <1>3, <1>4 DEF Pull

LEMMA AskTarget ==
    ASSUME TypeOK, Finite, NEW a \in NextAsk PROVE a.plan.target = plan.target
<1>1. plan \in OriginPlan BY DEF TypeOK
<1>2. \/ a.plan = [plan EXCEPT !.retry = Tail(plan.retry)]
      \/ a.plan = [plan EXCEPT !.next = a.until]
  BY NextAskFacts
<1> QED BY <1>1, <1>2 DEF OriginPlan

(* The engine's steps: one that leaves no plan takes the lease away.       *)
LEMMA OwnerEngine ==
    ASSUME TypeOK, Finite, IInv, TypeOK', LeaseHasOwner, Fill \/ Select \/ Drain
    PROVE  LeaseHasOwner'
<1>0. plan # NoPlan => plan.target # 0 BY DEF IInv, PlanInv
<1>1. ASSUME plan'.target = plan.target, UNCHANGED <<lease, queue>>
      PROVE  LeaseHasOwner'
  <2>1. plan # NoPlan => plan' # NoPlan BY <1>0, <1>1, HasTarget DEF TypeOK
  <2> QED BY <1>1, <2>1 DEF LeaseHasOwner
<1>2. CASE Fill
  <2>1. ASSUME NEW p \in Peer, Dispatch(p) PROVE plan'.target = plan.target
    <3>1. PICK a \in NextAsk : plan' = a.plan BY <2>1 DEF Dispatch
    <3>2. a.plan.target = plan.target BY AskTarget
    <3> QED BY <3>1, <3>2
  <2>2. ASSUME Unpick PROVE plan'.target = plan.target
    <3>1. PICK a \in NextAsk : plan' = [a.plan EXCEPT !.retry = <<<<a.after, a.until>>>> \o @]
      BY <2>2 DEF Unpick
    <3>2. a.plan \in OriginPlan /\ a.plan.target = plan.target
      BY NextAskFacts, AskTarget
    <3> QED BY <3>1, <3>2 DEF OriginPlan
  <2>3. UNCHANGED <<lease, queue>> BY <1>2 DEF Fill, Dispatch, Unpick, Filled
  <2>4. plan'.target = plan.target BY <1>2, <2>1, <2>2 DEF Fill, Filled
  <2> QED BY <1>1, <2>3, <2>4
<1>3. CASE RecvEnrol
  <2> DEFINE e == queue[1]
             p == IF plan = NoPlan THEN Fresh(e.gen) ELSE plan
  <2>1. CASE clock.seq < e.target /\ plan' = [p EXCEPT !.target = Larger(p.target, e.target)]
    <3>1. e \in Enrolment /\ clock \in Clock BY <1>3 DEF RecvEnrol, TypeOK
    <3>2. p \in OriginPlan BY <3>1, FreshType DEF TypeOK, Enrolment
    <3> HIDE DEF p
    <3>3. plan'.target = Larger(p.target, e.target) BY <2>1, <3>2 DEF OriginPlan
    <3>4. plan'.target # 0 BY <2>1, <3>1, <3>2, <3>3 DEF Larger, OriginPlan, Enrolment
    <3>5. plan' # NoPlan BY <3>4, HasTarget DEF TypeOK
    <3> QED BY <3>5 DEF LeaseHasOwner
  <2>2. CASE lease' = "none" BY <2>2 DEF LeaseHasOwner
  <2>3. CASE plan # NoPlan /\ UNCHANGED <<plan, lease>> BY <2>3 DEF LeaseHasOwner
  <2> QED BY <1>3, <2>1, <2>2, <2>3 DEF RecvEnrol, Enroll, Unenroll
<1>4. CASE Tick
  <2>1. UNCHANGED <<plan, lease, queue>> BY <1>4 DEF Tick
  <2> QED BY <1>1, <2>1
<1>5. ASSUME NEW f \in flights, RecvEvents(f) PROVE LeaseHasOwner'
  <2>1. plan' = plan \/ plan' = Complete(f) BY <1>5 DEF RecvEvents
  <2>2. plan'.target = plan.target BY <2>1 DEF Complete, TypeOK, OriginPlan
  <2>3. UNCHANGED <<lease, queue>> BY <1>5 DEF RecvEvents
  <2> QED BY <1>1, <2>2, <2>3
<1>6. ASSUME NEW f \in flights, RecvFailure(f) PROVE LeaseHasOwner'
  <2> DEFINE struck == [plan EXCEPT !.retry = Append(@, <<f.after, f.until>>),
                                    !.strikes = @ + 1, !.stray = @ \/ f.stale]
             drops == plan # NoPlan /\ struck.strikes >= Strikes
  <2>1. /\ plan' = IF plan = NoPlan \/ drops THEN NoPlan ELSE struck
        /\ lease' = IF drops THEN "none" ELSE lease
        /\ queue' = queue
    BY <1>6 DEF RecvFailure
  <2>2. struck.target = plan.target BY DEF TypeOK, OriginPlan
  <2> HIDE DEF struck
  <2>3. CASE drops BY <2>1, <2>3 DEF LeaseHasOwner
  <2>4. CASE ~drops
    <3>1. plan' = plan \/ plan' = struck BY <2>1, <2>4
    <3> QED BY <1>1, <2>1, <2>2, <2>4, <3>1
  <2> QED BY <2>3, <2>4
<1>7. CASE Take
  <2>1. plan \in OriginPlan BY DEF TypeOK
  <2>2. \/ UNCHANGED lease /\ plan'.target = plan.target
        \/ lease' = "none"
    <3>1. PICK ev \in Ready :
            \/ UNCHANGED lease /\ plan' = [plan EXCEPT !.buffered = @ \ {ev}]
            \/ UNCHANGED lease /\ plan' = Applied([plan EXCEPT !.buffered = @ \ {ev}], ev.last)
            \/ lease' = "none"
      BY <1>7 DEF Take, Unenroll
    <3>2. /\ [plan EXCEPT !.buffered = @ \ {ev}] \in OriginPlan
          /\ [plan EXCEPT !.buffered = @ \ {ev}].target = plan.target
      BY <2>1 DEF OriginPlan
    <3>3. \A r \in OriginPlan : Applied(r, ev.last).target = r.target
      BY DEF Applied, OriginPlan
    <3> QED BY <3>1, <3>2, <3>3
  <2>3. queue' = queue BY <1>7 DEF Take
  <2> QED BY <1>1, <2>2, <2>3 DEF LeaseHasOwner
<1>8. CASE Commit
  <2>1. plan \in OriginPlan BY DEF TypeOK
  <2>2. plan'.target = plan.target BY <1>8, <2>1 DEF Commit, Applied, OriginPlan
  <2>3. UNCHANGED <<lease, queue>> BY <1>8 DEF Commit
  <2> QED BY <1>1, <2>2, <2>3
<1>9. CASE Drained
  <2>1. lease' = "none" \/ UNCHANGED <<plan, lease, queue>> BY <1>9 DEF Drained, Unenroll
  <2> QED BY <1>1, <2>1 DEF LeaseHasOwner
<1> QED BY <1>2, <1>3, <1>4, <1>5, <1>6, <1>7, <1>8, <1>9 DEF Select, Drain

(* The lease of the engine, which never expires, stands only while a plan   *)
(* or an enrolment on its way answers for it: every step of the engine that *)
(* gives a plan up releases it, and settle_leases takes it only with an     *)
(* enrolment (claim_origins, settle_leases, Catchup::unenroll).             *)
THEOREM EngineLeaseHasOwner == Spec => []LeaseHasOwner
<1>1. Init => LeaseHasOwner BY DEF Init, LeaseHasOwner
<1>2. TypeOK /\ Finite /\ IInv /\ LeaseHasOwner /\ [Next]_vars => LeaseHasOwner'
  <2> SUFFICES ASSUME TypeOK, Finite, IInv, LeaseHasOwner, [Next]_vars PROVE LeaseHasOwner'
    OBVIOUS
  <2>0. TypeOK' BY TypeNext
  <2>1. CASE UNCHANGED vars BY <2>1 DEF vars, LeaseHasOwner
  <2>2. CASE Mesh BY <2>2 DEF Mesh, Export, Regenerate, Follow, LeaseHasOwner
  <2>3. ASSUME NEW f \in flights, AnswerRange(f) \/ RangeFails(f) PROVE LeaseHasOwner'
    BY <2>3 DEF AnswerRange, RangeFails, LeaseHasOwner
  <2> QED BY <2>0, <2>1, <2>2, <2>3, OwnerPull, OwnerEngine DEF Next
<1> QED BY <1>1, <1>2, Inductive, PTL DEF Spec

=============================================================================
