------------------------------ MODULE Governor ------------------------------
(***************************************************************************)
(* How many streams one peer is given (fetch.rs PeerLimit, governor.rs): a *)
(* hill climb on the throughput of one-second epochs.  The completion that *)
(* ends an epoch takes its readings under the epoch lock, gives them to the *)
(* governor under the governor's lock and writes the limit it gets under a *)
(* third, so two such completions can overtake each other between locks.   *)
(* Limits are kept in thousandths; f64 is exact where that matters.        *)
(***************************************************************************)
EXTENDS Integers, Sequences, FiniteSets, FiniteSetsExt, Functions

CONSTANTS
    Most,          \* per_peer_connections
    Knees,         \* where more streams may stop helping
    Probes,        \* PROBE_EPOCHS
    MaxUpsets      \* bound: epochs that measure something else, moves of the knee

VARIABLES
    governor,  \* Governor: limit, dir, samples, prev (-1 for None)
    limit,     \* LimState.limit: what try_acquire goes by
    closing,   \* closing[w]: the completion w that is closing an epoch
    knee,      \* streams up to here add throughput
    upsets     \* number of disturbances so far

gvars == <<governor, limit, closing, knee, upsets>>

Closer == 1..2
NoEpoch == [at |-> "no", rate |-> 0, parked |-> FALSE, ok |-> 0, err |-> 0, limit |-> 0]
At(stage, w) == closing[w].at = stage

Clamp(l) == Max({1000, Min({l, 1000 * Most})})
Rounded(l) == (l + 500) \div 1000

Median(s) ==
    CHOOSE v \in Range(s) :
      /\ 2 * Cardinality({i \in DOMAIN s : s[i] < v}) < Len(s)
      /\ 2 * Cardinality({i \in DOMAIN s : s[i] > v}) < Len(s)

(* Mutant of Moved: a step may round to the limit it started from. *)
MovedByFactor(l, dir) == Clamp(IF dir > 0 THEN (l * 13) \div 10 ELSE (l * 10) \div 13)

(* One step by STEP_UP; the rounded limit moves with it. *)
Moved(l, dir) ==
    LET next == IF dir > 0 THEN (l * 13) \div 10 ELSE (l * 10) \div 13
    IN Clamp(IF Rounded(next) = Rounded(l) THEN l + 1000 * dir ELSE next)

(* Turn round unless the reading is better than the last by more than NOISE. *)
Turn(g, reading) ==
    IF g.prev > 0 /\ 100 * (reading - g.prev) <= 3 * g.prev THEN 0 - g.dir ELSE g.dir

(* Neither a baseline nor a sample. *)
Forgotten(g) == [g EXCEPT !.prev = -1, !.samples = <<>>]

(* Governor::observe *)
Judged(g, e) ==
    LET samples == Append(g.samples, e.rate)
        pushback == e.ok + e.err >= 4 /\ 4 * e.err > e.ok + e.err
        dir == Turn(g, Median(samples))
    IN
    CASE e.parked -> Forgotten(g)
      [] ~e.parked /\ pushback ->
           [Forgotten(g) EXCEPT !.limit = Clamp((g.limit * 7) \div 10), !.dir = -1]
      [] ~e.parked /\ ~pushback /\ Len(samples) < Probes -> [g EXCEPT !.samples = samples]
      [] OTHER ->
           [limit |-> Moved(g.limit, dir), dir |-> dir, samples |-> <<>>, prev |-> Median(samples)]

-----------------------------------------------------------------------------

(* PeerLimit::observe up to the end of the epoch lock. *)
Close(w, rate, parked, ok, err) ==
    /\ At("no", w)
    /\ closing' = [closing EXCEPT ![w] = [at |-> "closed", rate |-> rate, parked |-> parked,
                                          ok |-> ok, err |-> err, limit |-> 0]]
    /\ UNCHANGED <<governor, limit, knee>>

Quiet == \A w \in Closer : At("no", w)
Upset == upsets < MaxUpsets /\ upsets' = upsets + 1

(* An epoch of the network, with an ordinary share of failures. *)
Epoch ==
    /\ Quiet
    /\ \E err \in {0, 2} : Close(1, 10 * Min({limit, knee}), FALSE, 8, err)
    /\ UNCHANGED upsets

(* It ends while an earlier one is still on its way to the limit. *)
Overlap(w) ==
    /\ ~Quiet
    /\ Upset
    /\ Close(w, 10 * Min({limit, knee}), FALSE, 8, 0)

(* Outliers, epochs of failures, epochs without bytes, parked or idle. *)
Disturbed ==
    /\ Quiet
    /\ Upset
    /\ \/ \E rate \in {1, 80 * Most} : Close(1, rate, FALSE, 8, 0)
       \/ Close(1, 10 * limit, FALSE, 4, 4)
       \/ \E parked \in BOOLEAN, err \in {1, 8} :
            /\ err = 8 => parked
            /\ Close(1, 0, parked, 0, err)

MoveKnee ==
    /\ Upset
    /\ knee' \in Knees \ {knee}
    /\ UNCHANGED <<governor, limit, closing>>

(* Under the governor's lock. *)
Judge(w) ==
    /\ At("closed", w)
    /\ governor' = Judged(governor, closing[w])
    /\ closing' = [closing EXCEPT ![w] = [NoEpoch EXCEPT !.at = "judged",
                                                         !.limit = Rounded(governor'.limit)]]
    /\ UNCHANGED <<limit, knee, upsets>>

(* Under the state lock. *)
Write(w) ==
    /\ At("judged", w)
    /\ limit' = closing[w].limit
    /\ closing' = [closing EXCEPT ![w] = NoEpoch]
    /\ UNCHANGED <<governor, knee, upsets>>

Init ==
    /\ limit = Min({2, Most})
    /\ governor = [limit |-> 1000 * Min({2, Most}), dir |-> 1, samples |-> <<>>, prev |-> -1]
    /\ closing = [w \in Closer |-> NoEpoch]
    /\ knee \in Knees
    /\ upsets = 0

Next ==
    \/ Epoch \/ Disturbed \/ MoveKnee
    \/ \E w \in Closer : Overlap(w) \/ Judge(w) \/ Write(w)
=============================================================================
