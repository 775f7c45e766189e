------------------------------- MODULE MCProxy -------------------------------
(***************************************************************************)
(* What the proxy listener keeps beside its transfers: the look-ups        *)
(* (Lookup), the stream limit of a peer (Governor) and the learned weights *)
(* (WeightSaver).  None reads what another writes, so a behaviour runs one *)
(* of them while the others rest in their initial states.                  *)
(***************************************************************************)
EXTENDS Lookup, TLC

CONSTANTS Most, Knees, Probes, MaxUpsets, MaxObservations, MaxRestarts, MaxFailures,
          f1, f2, f3, a, b, h1, h2, near, far, good, bad

VARIABLES governor, limit, closing, knee, upsets,
          weights, seen, saved, saver, shutdown, stored, blank, lost, restarts, failures,
          part       \* the part that runs

limits == <<governor, limit, closing, knee, upsets>>
learned == <<weights, seen, saved, saver, shutdown, stored, blank, lost, restarts, failures>>

G == INSTANCE Governor
W == INSTANCE WeightSaver

(* Two copies of one path, and a second path with the content of one.      *)
Paths == (f1 :> a) @@ (f2 :> a) @@ (f3 :> b)
Hashes == (f1 :> h1) @@ (f2 :> h2) @@ (f3 :> h1)
Sizes == (h1 :> 5) @@ (h2 :> 3)
Tiers == (near :> 1) @@ (far :> 2)
Asks == {[what |-> "info", of |-> a], [what |-> "nar", of |-> h1]}

Both(i, j) == [form |-> "both", a |-> i, b |-> j]
Headers ==
    {[form |-> "none", a |-> 0, b |-> 0]}
      \cup {[form |-> "suffix", a |-> 0, b |-> n] : n \in {0, 2, 7}}
      \cup {[form |-> "from", a |-> n, b |-> 0] : n \in {0, 4, 5}}
      \cup {Both(0, 0), Both(1, 7), Both(2, 1), Both(4, 4), Both(4, 7), Both(5, 6)}

Resting == /\ reply = Miss /\ pc = "done" /\ ask = [what |-> "info", of |-> a]
           /\ att = [f \in Fact |-> {}] /\ held = {} /\ shut = {} /\ roaming = FALSE
           /\ changes = 0 /\ entries = {} /\ rows = {} /\ found = {} /\ steady = {}
           /\ past = [held |-> {}, up |-> {}, roaming |-> FALSE]

(* Requests meet an index with believable facts, held by peers alone; other *)
(* signatures, and this node's own copies, come as changes.                *)
Likely == /\ \A f \in Fact : att[f] \subseteq (IF Concerns(f) THEN Trusted ELSE {})
          /\ \A e \in held : e[1] # Self /\ \E f \in Fact : Concerns(f) /\ Hash[f] = e[2]

MCInit ==
    \/ /\ part = "look-up" /\ W!Init
       /\ Init /\ Likely
       /\ G!Init /\ knee = 1
    \/ /\ part = "governor" /\ W!Init
       /\ G!Init /\ Resting
    \/ /\ part = "weights" /\ W!Init
       /\ G!Init /\ knee = 1 /\ Resting

all == <<vars, limits, learned, part>>
LookUp == part = "look-up" /\ UNCHANGED <<limits, learned, part>>
Govern == part = "governor" /\ UNCHANGED <<vars, learned, part>>
Learn == part = "weights" /\ UNCHANGED <<vars, limits, part>>

MCNext ==
    \/ Next /\ LookUp
    \/ G!Next /\ Govern
    \/ W!Next /\ Learn

(* Epochs end and a minute passes, again and again; what is begun is ended. *)
Fairness ==
    /\ WF_all(G!Epoch /\ Govern)
    /\ \A w \in 1..2 : WF_all(G!Judge(w) /\ Govern) /\ WF_all(G!Write(w) /\ Govern)
    /\ WF_all(W!Wake /\ Learn) /\ WF_all((W!Written \/ W!NotWritten) /\ Learn)

MCSpec == MCInit /\ [][MCNext]_all /\ Fairness

(* A peer is never left with fewer streams than its link rewards: after a   *)
(* spell of outliers, failures, parked or overlapping epochs the limit      *)
(* keeps coming back to the knee, from the floor too ("otherwise the floor *)
(* is an inescapable 1.0 <-> 1.3 two-cycle", Governor::observe).           *)
KneeIsReached == []<>(part # "governor" \/ limit >= Min({knee, Most}))

(* What was learned is on disk in the end, though transfers fold in more    *)
(* while a snapshot is being written; a write that failed is the exception *)
(* until there is other news (spawn_weight_saver, "whenever observations    *)
(* were folded in").  And a restart never unlearns: a snapshot written in a *)
(* later life builds on the one before, unless that could not be read      *)
(* (ProxyState::new).                                                      *)
LearningIsStored ==
    /\ <>[](part # "weights" \/ seen = 0 \/ stored = weights \/ lost \/ saver.at = "ended")
    /\ [][stored' >= stored \/ blank]_stored
=============================================================================
