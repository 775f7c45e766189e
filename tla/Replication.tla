---------------------------- MODULE Replication ----------------------------
(***************************************************************************)
(* What the mesh promises about one origin's stream, without clocks,       *)
(* journals, snapshots or messages: a history that only its origin extends, *)
(* and replicas that each stand somewhere in it.  A replica is wrong only  *)
(* about hashes with an event it has not reached, and goes back only when  *)
(* its store is lost or rolled back.                                       *)
(***************************************************************************)
EXTENDS Naturals

CONSTANTS
    Node, Origin, Hash,
    Rollback,   \* stores may lose their last writes
    Rebirth     \* the origin may lose its history and start another

VARIABLES
    log,     \* the events of the present history
    pos,     \* pos[n]: how far n has come; pos[Origin] is the end
    view     \* view[n]: the hashes n says the Origin holds

vars == <<log, pos, view>>

Live(rows) ==
    {h \in Hash : \E r \in rows : /\ r.hash = h /\ r.op = "have"
                                  /\ \A q \in rows : q.hash = h => q.seq <= r.seq}

(* Right about every hash without an event after seq. *)
RightUpTo(held, seq, rows) ==
    \A h \in Hash : (\A r \in rows : r.hash = h => r.seq <= seq)
                    => (h \in held <=> h \in Live(rows))

Init ==
    /\ log = {}
    /\ pos = [n \in Node |-> 0]
    /\ view = [n \in Node |-> {}]

Export ==
    \E op \in {"have", "drop"}, h \in Hash :
       /\ log' = log \cup {[seq |-> pos[Origin] + 1, op |-> op, hash |-> h]}
       /\ pos' = [pos EXCEPT ![Origin] = @ + 1]
       /\ view' = [view EXCEPT ![Origin] = Live(log')]

(* n stands at seq and says held. *)
Stand(n, seq, held) ==
    /\ RightUpTo(held, seq, log)
    /\ pos' = [pos EXCEPT ![n] = seq]
    /\ view' = [view EXCEPT ![n] = held]
    /\ UNCHANGED log

Advance(n) ==
    \E seq \in pos[n]..pos[Origin], held \in SUBSET Hash : Stand(n, seq, held)

RollBack(n) ==
    /\ Rollback
    /\ \E seq \in 0..pos[n], held \in SUBSET Hash : Stand(n, seq, held)

(* A generation never used before names a history, another or the same;    *)
(* only its origin is in it yet.                                           *)
StartOver ==
    /\ Rebirth
    /\ \A r \in log' : r.seq <= pos'[Origin]
    /\ view'[Origin] = Live(log')
    /\ \A n \in Node \ {Origin} : pos'[n] = 0 /\ view'[n] = {}

Next ==
    \/ Export
    \/ \E n \in Node \ {Origin} : Advance(n) \/ RollBack(n)
    \/ StartOver

Spec == Init /\ [][Next]_vars
=============================================================================
