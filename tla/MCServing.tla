----------------------------- MODULE MCServing -----------------------------
(* Instances of Serving. *)
EXTENDS Serving, TLC

CONSTANTS big, small, other, r1, r2, r3

Sizes == (big :> 6) @@ (small :> 2) @@ (other :> 3)

Ask(what, h) == [what |-> what, hash |-> h]
Three(a, b, c) == (r1 :> a) @@ (r2 :> b) @@ (r3 :> c)

(* The same NAR twice; more entries than fit; two requests for a manifest  *)
(* beside a path that cannot be manifested.                                *)
Mixes ==
    {Three(Ask("nar", big), Ask("nar", big), Ask("nar", small)),
     Three(Ask("nar", big), Ask("nar", small), Ask("nar", other)),
     Three(Ask("manifest", big), Ask("manifest", big), Ask("manifest", small))}
============================================================================
