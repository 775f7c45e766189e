----------------------------- MODULE MCTransfer -----------------------------
(* Instances of Transfer. *)
EXTENDS Transfer, TLC

CONSTANTS near, far

Alike == Permutations({near, far})

Lit(n) == [kind |-> "lit", key |-> "none", len |-> n]
Seg(k, n) == [kind |-> "segment", key |-> k, len |-> n]

Whole(layout, honest) ==
    [start |-> 0, end |-> LengthOf(layout), full |-> TRUE, honest |-> honest, layout |-> layout]
Striped(start, end, full) ==
    [start |-> start, end |-> end, full |-> full, honest |-> TRUE, layout |-> <<>>]

(* A segment kept for its second copy beyond another one.                  *)
Repeats == {Whole(<<Seg("a", 2), Seg("b", 1), Seg("a", 2)>>, TRUE)}

(* Every layout of two and of three spans of which the first is a segment, *)
(* some of four that repeat, one past the window, dishonest ones, stripes. *)
Spans == {Lit(1), Seg("a", 1), Seg("a", 2), Seg("b", 2)}
AllLayouts ==
    {l \in [1..3 -> Spans] \cup [1..2 -> Spans] : l[1].key = "a"}
      \cup {<<Seg("b", 3), Seg("b", 3)>>}
      \cup {<<Seg("a", 2), s, Seg("a", 2), s>> : s \in {Lit(1), Seg("b", 2)}}

AllJobs ==
    {Whole(l, TRUE) : l \in AllLayouts}
      \cup {Whole(<<Seg("a", m), s, Seg("a", m)>>, FALSE) : m \in 1..2, s \in {Lit(1), Seg("b", 2)}}
      \cup {Striped(0, 2, TRUE), Striped(1, 4, FALSE)}
============================================================================
