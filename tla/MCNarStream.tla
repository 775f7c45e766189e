---------------------------- MODULE MCNarStream ----------------------------
(* Instances of NarStream. *)
EXTENDS NarStream

CONSTANTS first, second

File(f, n) == [type |-> "regular", exec |-> FALSE, file |-> f, len |-> n]
Exec(f, n) == [File(f, n) EXCEPT !.exec = TRUE]
Link(n) == [type |-> "symlink", target |-> n]
Dir(entries) == [type |-> "directory", entries |-> entries]
In(n, node) == [name |-> n, node |-> node]

(* Files of every length from empty to past two splits, links, and         *)
(* directories listed out of order, nested, empty, with a name not UTF-8.  *)
Leaves == {File("a", n) : n \in 0..5} \cup {Exec("b", 3), Link(7), Link(9), Dir(<<>>)}
SomeRoots ==
    Leaves \cup {Dir(<<In(2, x), In(n, Dir(<<In(3, File("c", 1)), In(1, x)>>))>>) : x \in Leaves, n \in {1, 9}}

Deep == Dir(<<In(2, Exec("b", 3)), In(1, File("e", 0))>>)
Plain == File("a", 5)

Job(root, start, end, how) == [root |-> root, start |-> start, end |-> end, how |-> how]
Both(a, b) == [s \in Stream |-> IF s = first THEN a ELSE b]

(* "a" starts after 7 units of its NAR, "b" after 29 of Deep.              *)
SomeJobs ==
    {Both(Job(Plain, 5, 13, "raw"), Job(Plain, 8, 11, "raw")),
     Both(Job(Plain, 5, 13, "raw"), Job(Plain, 8, 11, "small")),
     Both(Job(Plain, 5, 13, "encoded"), Job(Deep, 27, 33, "encoded")),
     Both(Job(Plain, 6, 11, "encoded"), Job(Deep, 27, 31, "raw")),
     Both(Job(Plain, 5, 13, "small"), Job(Deep, 27, 33, "small"))}

============================================================================
