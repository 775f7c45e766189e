----------------------------- MODULE NarLayout -----------------------------
(***************************************************************************)
(* The byte layout of a NAR, laid out twice: by the seek table a server    *)
(* builds from the files of a store path (nar.rs), and by the walk a       *)
(* requester does over the manifest it was sent (manifest.rs).             *)
(*                                                                         *)
(* A framing token is one unit <<word, number>>, whatever its length, and  *)
(* unit i of file f is <<f, i>>.  Names are numbers, in their byte order.  *)
(***************************************************************************)
EXTENDS Integers, Sequences, SequencesExt, FiniteSetsExt

CONSTANTS
    Word,      \* the multiple that contents are padded to
    NotUtf8    \* the names that are not UTF-8

Tok(word) == <<word, 0>>

PadLen(n) == (Word - (n % Word)) % Word

-----------------------------------------------------------------------------
(* The builder both walks use: pieces laid so far, the size, and the       *)
(* literal still open, to which adjacent framing is added.                 *)

Empty == [out |-> <<>>, size |-> 0, open |-> <<>>]

RawLit(b, units) ==
    [b EXCEPT !.open = @ \o units, !.size = @ + Len(units)]

CloseLit(b) ==
    IF b.open = <<>> THEN b
    ELSE [b EXCEPT !.out = Append(@, [at |-> b.size - Len(b.open), len |-> Len(b.open),
                                      lit |-> b.open, file |-> "none", from |-> 0]),
                   !.open = <<>>]

FileSeg(b, file, from, len) ==
    LET c == CloseLit(b) IN
    [c EXCEPT !.out = Append(@, [at |-> c.size, len |-> len, lit |-> <<>>,
                                 file |-> file, from |-> from]),
              !.size = @ + len]

Padding(n) == [i \in 1..PadLen(n) |-> Tok("pad")]

Regular(node) ==
    <<Tok("regular")>> \o (IF node.exec THEN <<Tok("executable"), Tok("")>> ELSE <<>>)
      \o <<Tok("contents"), <<"len", node.len>>>>

Entry(name) == <<Tok("entry"), Tok("("), Tok("name"), <<"text", name>>, Tok("node")>>

InNameOrder(entries) == SortSeq(entries, LAMBDA a, b : a.name < b.name)

-----------------------------------------------------------------------------
(* The seek table (server) *)

RECURSIVE Walk(_, _)
Walk(b, node) ==
    LET open == RawLit(b, <<Tok("("), Tok("type")>>)
        body == CASE node.type = "symlink" ->
                       RawLit(open, <<Tok("symlink"), Tok("target"), <<"text", node.target>>>>)
                  [] node.type = "regular" ->
                       LET head == RawLit(open, Regular(node))
                           full == IF node.len > 0 THEN FileSeg(head, node.file, 0, node.len)
                                                   ELSE head
                       IN RawLit(full, Padding(node.len))
                  [] node.type = "directory" ->
                       FoldLeft(LAMBDA c, e :
                                  RawLit(Walk(RawLit(c, Entry(e.name)), e.node), <<Tok(")")>>),
                                RawLit(open, <<Tok("directory")>>), InNameOrder(node.entries))
    IN RawLit(body, <<Tok(")")>>)

SeekTable(root) ==
    LET b == CloseLit(Walk(RawLit(Empty, <<Tok("nix-archive-1")>>), root))
    IN [size |-> b.size, segs |-> b.out]

(* The segments that overlap [start, end), clamped to it.                  *)
FirstSeg(table, start) ==
    1 + Cardinality({i \in DOMAIN table.segs : table.segs[i].at + table.segs[i].len <= start})

SegSlice(seg, start, end) ==
    LET s == Max({start, seg.at})
        e == Min({end, seg.at + seg.len})
    IN [lit |-> IF seg.file = "none" THEN SubSeq(seg.lit, s - seg.at + 1, e - seg.at) ELSE <<>>,
        file |-> seg.file, off |-> seg.from + (s - seg.at), len |-> e - s]

Slices(table, start, end) ==
    LET upto == Cardinality({i \in DOMAIN table.segs : table.segs[i].at < end})
    IN [i \in 1..(upto - FirstSeg(table, start) + 1) |->
          SegSlice(table.segs[FirstSeg(table, start) + i - 1], start, end)]

(* A slice of a file is cut into reads of at most ReadChunk units.         *)
Cut(slice, ReadChunk) ==
    [i \in 1..((slice.len + ReadChunk - 1) \div ReadChunk) |->
       [slice EXCEPT !.off = @ + (i - 1) * ReadChunk,
                     !.len = Min({ReadChunk, slice.len - (i - 1) * ReadChunk})]]

Pieces(table, start, end, ReadChunk) ==
    FlattenSeq([i \in DOMAIN Slices(table, start, end) |->
                  LET slice == Slices(table, start, end)[i]
                  IN IF slice.file = "none" THEN <<slice>> ELSE Cut(slice, ReadChunk)])

-----------------------------------------------------------------------------
(* The manifest: the tree, with the hash of every split of a file (what it *)
(* covers stands for it); none when a name is not UTF-8.                   *)

RECURSIVE Tree(_, _), Named(_), Synth(_, _, _)
Tree(node, split) ==
    CASE node.type = "symlink" -> node
      [] node.type = "regular" ->
           [type |-> "regular", exec |-> node.exec, len |-> node.len,
            segments |-> [i \in 1..((node.len + split - 1) \div split) |->
                            <<node.file, (i - 1) * split>>]]
      [] node.type = "directory" ->
           [type |-> "directory",
            entries |-> [i \in DOMAIN node.entries |->
                           [name |-> InNameOrder(node.entries)[i].name,
                            node |-> Tree(InNameOrder(node.entries)[i].node, split)]]]

Named(node) ==
    CASE node.type = "symlink" -> node.target \notin NotUtf8
      [] node.type = "regular" -> TRUE
      [] node.type = "directory" -> \A i \in DOMAIN node.entries :
             node.entries[i].name \notin NotUtf8 /\ Named(node.entries[i].node)

(* Mutant of SegmentsOf: the last segment of a file is not cut short.     *)
FullSegmentsOf(b, node, split) ==
    FoldLeft(LAMBDA c, s : FileSeg(c, s[1], s[2], split), b, node.segments)

SegmentsOf(b, node, split) ==
    FoldLeftDomain(LAMBDA c, i :
        FileSeg(c, node.segments[i][1], node.segments[i][2],
                Min({split, node.len - (i - 1) * split})), b, node.segments)

(* What the requester rebuilds from it.                                    *)
Synth(b, node, split) ==
    LET open == RawLit(b, <<Tok("("), Tok("type")>>)
        body == CASE node.type = "symlink" ->
                       RawLit(open, <<Tok("symlink"), Tok("target"), <<"text", node.target>>>>)
                  [] node.type = "regular" ->
                       RawLit(SegmentsOf(RawLit(open, Regular(node)), node, split),
                              Padding(node.len))
                  [] node.type = "directory" ->
                       FoldLeft(LAMBDA c, e :
                                  RawLit(Synth(RawLit(c, Entry(e.name)), e.node, split), <<Tok(")")>>),
                                RawLit(open, <<Tok("directory")>>), node.entries)
    IN RawLit(body, <<Tok(")")>>)

SynthLayout(tree, split) ==
    LET b == CloseLit(Synth(RawLit(Empty, <<Tok("nix-archive-1")>>), tree, split))
    IN [size |-> b.size, segs |-> b.out]

(* Refused when the layout has not the registered size.                    *)
Manifest(root, split, size) ==
    IF Named(root) /\ SynthLayout(Tree(root, split), split).size = size
    THEN {Tree(root, split)} ELSE {}

-----------------------------------------------------------------------------
(* Reference definitions *)

(* The NAR format, as one string of units.                                 *)
RECURSIVE Nar(_)
Nar(node) ==
    <<Tok("("), Tok("type")>>
      \o (CASE node.type = "symlink" -> <<Tok("symlink"), Tok("target"), <<"text", node.target>>>>
            [] node.type = "regular" ->
                 Regular(node) \o [i \in 1..node.len |-> <<node.file, i>>] \o Padding(node.len)
            [] node.type = "directory" ->
                 <<Tok("directory")>>
                   \o FlattenSeq([i \in DOMAIN node.entries |->
                        LET e == InNameOrder(node.entries)[i]
                        IN Entry(e.name) \o Nar(e.node) \o <<Tok(")")>>]))
      \o <<Tok(")")>>

Units(root) == <<Tok("nix-archive-1")>> \o Nar(root)

(* What segments stand for.                                                *)
Spell(segs) ==
    FlattenSeq([i \in DOMAIN segs |->
        IF segs[i].file = "none" THEN segs[i].lit
        ELSE [k \in 1..segs[i].len |-> <<segs[i].file, segs[i].from + k>>]])
============================================================================
