----------------------------- MODULE Retention -----------------------------
(***************************************************************************)
(* The static retention planner (dedup.rs, plan): which occurrence of a    *)
(* segment is fetched, and for how many later occurrences its bytes are    *)
(* kept, decided before the transfer so that at no moment more than budget *)
(* bytes are kept.  All later occurrences replay the copy, or none does.   *)
(*                                                                         *)
(* keys[p] and sizes[p] describe the p-th occurrence in emission order.    *)
(***************************************************************************)
EXTENDS Naturals, Sequences, FiniteSets, SequencesExt

Occurrences(keys, p) == {q \in DOMAIN keys : keys[q] = keys[p]}
IsFirst(keys, p) == \A q \in Occurrences(keys, p) : p <= q
IsLast(keys, p) == \A q \in Occurrences(keys, p) : q <= p

(* One step per occurrence; retain counts the replays its bytes wait for. *)
Fetch(n) == [fetch |-> TRUE, retain |-> n]
Cached == [fetch |-> FALSE, retain |-> 0]

(* Mutant of Keeps: the budget is not asked.                              *)
KeepsAnyhow(keys, sizes, budget, bytes, p) ==
    /\ IsFirst(keys, p)
    /\ Cardinality(Occurrences(keys, p)) > 1

(* A segment seen first is kept if it is needed again and fits. *)
Keeps(keys, sizes, budget, bytes, p) ==
    /\ IsFirst(keys, p)
    /\ Cardinality(Occurrences(keys, p)) > 1
    /\ bytes + sizes[p] <= budget

(* Pass 2: the keys resident after an occurrence, their bytes, the steps. *)
Visit(keys, sizes, budget, r, p) ==
    LET resident == ~IsFirst(keys, p) /\ keys[p] \in r.kept
    IN CASE Keeps(keys, sizes, budget, r.bytes, p) ->
              [kept |-> r.kept \cup {keys[p]}, bytes |-> r.bytes + sizes[p],
               steps |-> Append(r.steps, Fetch(Cardinality(Occurrences(keys, p)) - 1))]
         [] resident /\ IsLast(keys, p) ->
              [kept |-> r.kept \ {keys[p]}, bytes |-> r.bytes - sizes[p],
               steps |-> Append(r.steps, Cached)]
         [] resident /\ ~IsLast(keys, p) ->
              [r EXCEPT !.steps = Append(@, Cached)]
         [] OTHER -> [r EXCEPT !.steps = Append(@, Fetch(0))]

NoneKept == [kept |-> {}, bytes |-> 0, steps |-> <<>>]

Residency(keys, sizes, budget) ==
    FoldLeftDomain(LAMBDA r, p : Visit(keys, sizes, budget, r, p), NoneKept, keys)

RetentionPlan(keys, sizes, budget) == Residency(keys, sizes, budget).steps

============================================================================
