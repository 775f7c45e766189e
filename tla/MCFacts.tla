------------------------------ MODULE MCFacts ------------------------------
(* Instances of Facts for TLC. *)
EXTENDS Facts, TLC

CONSTANTS a, b, f, g, s1, s2

KeyOrder == <<<<f, {s1, s2}>>, <<g, {s1, s2}>>, <<f, {s1}>>, <<g, {s1}>>, <<f, {s2}>>, <<g, {s2}>>>>
KeyOf == [x \in Fact |-> [S \in (SUBSET Sig) \ {{}} |->
             CHOOSE k \in 1..6 : KeyOrder[k] = <<x, S>>]]

(* a restored copy: it lacks a fact, and has one with fewer signatures.     *)
Start == [n \in Node |-> [x \in Fact |-> CASE n = a /\ x = f -> {s1}
                                           [] n = b /\ x = f -> {s1}
                                           [] n = b /\ x = g -> {s1}
                                           [] OTHER -> {}]]
Taught == {<<<<f, {s2}>>, <<f, {s2}>>>>}
OneSource == {<<a, b>>}
=============================================================================
