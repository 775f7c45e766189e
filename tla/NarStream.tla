----------------------------- MODULE NarStream -----------------------------
(***************************************************************************)
(* How the serve listener streams ranges of NARs: each response reads its  *)
(* pieces ahead through one bounded reader (serve.rs emit, stream_encode,  *)
(* encode_span; io.rs), the ring thread behind it completes the reads in   *)
(* any order and in parts, and the client may leave at any time.           *)
(*                                                                         *)
(* A compressed frame is modelled by the units it decodes to and by whether *)
(* it was finished; timing statistics are left out.                        *)
(***************************************************************************)
EXTENDS NarLayout

CONSTANTS
    Stream,     \* the responses
    Jobs,       \* what each response is asked: a store path, a range, how it is sent
    Roots,      \* the store paths that are laid out both ways
    ReadChunk,  \* READ_CHUNK
    ReadAhead,  \* READ_AHEAD
    Split,      \* segment_bytes of the manifests
    Align,      \* the alignment of direct reads
    Reads,      \* io.concurrency
    Encoders,   \* encode_permits(), of each lane
    Body,       \* capacity of a response's body channel
    Feed,       \* capacity of an encoder's input channel
    Faults,     \* which things may go wrong, a set of strings
    MaxFaults   \* bound: how often they do

ASSUME StreamAssumption ==
    /\ {ReadChunk, ReadAhead, Split, Align, Reads, Encoders, Body, Feed, Word} \subseteq Nat \ {0}
    /\ Faults \subseteq {"collect", "refuse", "leave", "short", "fail"} /\ MaxFaults \in Nat
    /\ \A asked \in Jobs : \A s \in Stream :
         asked[s].start < asked[s].end /\ asked[s].how \in {"raw", "encoded", "small"}

VARIABLES
    job,      \* job[s]: how it is sent, its pieces, its range, the lengths of its files
    pc,       \* permit, stream, flush or over
    taken,    \* taken[s]: pieces passed on
    buf,      \* units the encoder, or the buffered response, holds
    feed,     \* feed[s]: the encoder's input
    encoder,  \* encoder[s]: off, on, done or dead
    body,     \* body[s]: items the client has not read
    got,      \* got[s]: units the client has read
    client,   \* reading, left, broken or complete
    reads,    \* read tasks, whose answers the response awaits
    inbox,    \* the channel to the ring thread
    bell,     \* is the eventfd written
    ring,     \* the ring thread: wait or drain
    slab,     \* slab[i]: the operation in slot i, if any
    free,     \* the stack of free slots
    fallback, \* reads the blocking pool does instead
    missing,  \* files collected from the disk
    faults

vars == <<job, pc, taken, buf, feed, encoder, body, got, client, reads,
          inbox, bell, ring, slab, free, fallback, missing, faults>>

response == <<pc, taken, buf, feed, encoder, body>>
reader == <<inbox, bell, ring, slab, free, fallback>>

-----------------------------------------------------------------------------
How(s) == job[s].how
PiecesFor(s) == job[s].pieces
RangeFor(s) == job[s].range

RECURSIVE FileLen(_, _)
FileLen(node, file) ==
    CASE node.type = "symlink" -> 0
      [] node.type = "regular" -> IF node.file = file THEN node.len ELSE 0
      [] node.type = "directory" ->
           FoldLeft(LAMBDA n, e : Max({n, FileLen(e.node, file)}), 0, node.entries)

(* What a request comes to: the seek table of its path, cut to its range.  *)
Request(j) ==
    LET cut == Pieces(SeekTable(j.root), j.start, j.end, ReadChunk)
    IN [how |-> j.how, pieces |-> cut,
        length |-> [f \in {cut[i].file : i \in DOMAIN cut} |-> FileLen(j.root, f)],
        range |-> SubSeq(Units(j.root), j.start + 1, j.end)]

Item(units, kind) == [units |-> units, kind |-> kind]

Ahead(s) == IF How(s) = "small" THEN Len(PiecesFor(s)) ELSE ReadAhead

(* The read tasks that pieces from and up to those numbers need.           *)
NewReads(s, from, to) ==
    {[of |-> s, piece |-> i, at |-> "permit", ok |-> FALSE, reply |-> <<>>] :
       i \in {k \in from..to : k \in DOMAIN PiecesFor(s) /\ PiecesFor(s)[k].file # "none"}}

Init ==
    /\ \E asked \in Jobs : job = [s \in Stream |-> Request(asked[s])]
    /\ pc = [s \in Stream |-> "permit"]
    /\ taken = [s \in Stream |-> 0] /\ buf = [s \in Stream |-> <<>>]
    /\ feed = [s \in Stream |-> <<>>] /\ encoder = [s \in Stream |-> "off"]
    /\ body = [s \in Stream |-> <<>>] /\ got = [s \in Stream |-> <<>>]
    /\ client = [s \in Stream |-> "reading"]
    /\ reads = {} /\ inbox = <<>> /\ bell = FALSE /\ ring = "wait"
    /\ slab = <<>> /\ free = <<>> /\ fallback = {} /\ missing = {} /\ faults = 0

Fault(kind) == kind \in Faults /\ faults < MaxFaults /\ faults' = faults + 1

-----------------------------------------------------------------------------
(* A response *)

(* An encoded response holds a permit of its lane while it runs.           *)
Admitted(s) ==
    \/ How(s) = "raw"
    \/ Cardinality({t \in Stream : How(t) = How(s) /\ pc[t] \in {"stream", "flush"}}) < Encoders

Begin(s) ==
    /\ pc[s] = "permit" /\ client[s] = "reading" /\ Admitted(s)
    /\ pc' = [pc EXCEPT ![s] = "stream"]
    /\ encoder' = [encoder EXCEPT ![s] = IF How(s) = "encoded" THEN "on" ELSE "off"]
    /\ reads' = reads \cup NewReads(s, 1, Ahead(s))
    /\ UNCHANGED <<job, taken, buf, feed, body, got, client, reader, missing, faults>>

Room(s) == Len(body[s]) < Body

Connected(s) == client[s] = "reading"

Answered(r) == r.at = "done"

HeadRead(s) == {r \in reads : r.of = s /\ r.piece = taken[s] + 1}

IsFile(s) == PiecesFor(s)[taken[s] + 1].file # "none"

(* The next piece in order is there: its units, if the read succeeded.     *)
Ready(s) ==
    /\ pc[s] = "stream" /\ taken[s] < Len(PiecesFor(s))
    /\ IsFile(s) => \E r \in HeadRead(s) : Answered(r) /\ r.ok

HeadUnits(s) ==
    IF IsFile(s) THEN (CHOOSE r \in HeadRead(s) : TRUE).reply
    ELSE PiecesFor(s)[taken[s] + 1].lit

Advance(s) ==
    /\ taken' = [taken EXCEPT ![s] = @ + 1]
    /\ reads' = (reads \ HeadRead(s)) \cup
                  (IF How(s) = "small" THEN {}
                   ELSE NewReads(s, taken[s] + 1 + ReadAhead, taken[s] + 1 + ReadAhead))

(* emit: to the body; stream_encode: to the encoder; encode_span: kept.    *)
TakeRaw(s) ==
    /\ How(s) = "raw" /\ Ready(s) /\ Connected(s) /\ Room(s)
    /\ body' = [body EXCEPT ![s] = Append(@, Item(HeadUnits(s), "data"))]
    /\ Advance(s)
    /\ UNCHANGED <<job, pc, buf, feed, encoder, got, client, reader, missing, faults>>

TakeEncoded(s) ==
    /\ How(s) = "encoded" /\ Ready(s) /\ encoder[s] = "on" /\ Len(feed[s]) < Feed
    /\ feed' = [feed EXCEPT ![s] = Append(@, HeadUnits(s))]
    /\ Advance(s)
    /\ UNCHANGED <<job, pc, buf, encoder, body, got, client, reader, missing, faults>>

TakeSmall(s) ==
    /\ How(s) = "small" /\ Ready(s)
    /\ buf' = [buf EXCEPT ![s] = @ \o HeadUnits(s)]
    /\ Advance(s)
    /\ UNCHANGED <<job, pc, feed, encoder, body, got, client, reader, missing, faults>>

(* Reads that are no longer awaited are aborted at their next await, and   *)
(* go on where only their handles are dropped (encode_span).               *)
AbortReads(s) ==
    reads' = {r \in reads : r.of # s \/ r.at \in {"sent", "early"} \/ (How(s) = "small" /\ ~Answered(r))}

Stop(s) ==
    pc' = [pc EXCEPT ![s] = IF encoder[s] = "off" THEN "over" ELSE "flush"]

(* A read failed: the body ends in an error, before the encoder can finish. *)
TellError(s) ==
    IF Connected(s) THEN Room(s) /\ body' = [body EXCEPT ![s] = Append(@, Item(<<>>, "error"))]
    ELSE body' = body

FailPiece(s) ==
    /\ pc[s] = "stream" /\ taken[s] < Len(PiecesFor(s))
    /\ \E r \in HeadRead(s) : Answered(r) /\ ~r.ok
    /\ TellError(s) /\ Stop(s) /\ AbortReads(s)
    /\ UNCHANGED <<job, taken, buf, feed, encoder, got, client, reader, missing, faults>>

(* The client, or the encoder, went away.                                  *)
Abandon(s) ==
    /\ pc[s] \in {"permit", "stream"}
    /\ \/ How(s) = "raw" /\ pc[s] = "stream" /\ Ready(s) /\ ~Connected(s)
       \/ How(s) = "encoded" /\ pc[s] = "stream" /\ Ready(s) /\ encoder[s] = "dead"
       \/ (How(s) = "small" \/ pc[s] = "permit") /\ ~Connected(s)
    /\ Stop(s) /\ AbortReads(s)
    /\ UNCHANGED <<job, taken, buf, feed, encoder, body, got, client, reader, missing, faults>>

LastPiece(s) ==
    /\ pc[s] = "stream" /\ taken[s] = Len(PiecesFor(s))
    /\ Stop(s)
    /\ IF How(s) = "small"
       THEN /\ body' = [body EXCEPT ![s] = Append(@, Item(buf[s], "frame"))]
            /\ buf' = [buf EXCEPT ![s] = <<>>]
       ELSE UNCHANGED <<body, buf>>
    /\ UNCHANGED <<job, taken, feed, encoder, got, client, reads, reader, missing, faults>>

(* The encoder thread: what it has buffered may be flushed at any time.    *)
Encode(s) ==
    /\ encoder[s] = "on" /\ feed[s] # <<>>
    /\ buf' = [buf EXCEPT ![s] = @ \o Head(feed[s])]
    /\ feed' = [feed EXCEPT ![s] = Tail(@)]
    /\ UNCHANGED <<job, pc, taken, encoder, body, got, client, reads, reader, missing, faults>>

Flush(s) ==
    /\ encoder[s] = "on" /\ buf[s] # <<>>
    /\ \/ /\ Connected(s) /\ Room(s)
          /\ body' = [body EXCEPT ![s] = Append(@, Item(buf[s], "data"))]
          /\ buf' = [buf EXCEPT ![s] = <<>>] /\ UNCHANGED encoder
       \/ ~Connected(s) /\ encoder' = [encoder EXCEPT ![s] = "dead"] /\ UNCHANGED <<body, buf>>
    /\ UNCHANGED <<job, pc, taken, feed, got, client, reads, reader, missing, faults>>

(* Mutant of FeedClosed: the feed is closed after the frame.              *)
FeedLeftOpen(s) == pc[s] = "over"

(* The frame is finished when the feed has been closed and read out.       *)
FeedClosed(s) == pc[s] = "flush"

FinishFrame(s) ==
    /\ encoder[s] = "on" /\ FeedClosed(s) /\ feed[s] = <<>>
    /\ \/ /\ Connected(s) /\ Room(s)
          /\ body' = [body EXCEPT ![s] = Append(@, Item(buf[s], "frame"))]
          /\ encoder' = [encoder EXCEPT ![s] = "done"]
       \/ ~Connected(s) /\ encoder' = [encoder EXCEPT ![s] = "dead"] /\ UNCHANGED body
    /\ buf' = [buf EXCEPT ![s] = <<>>]
    /\ UNCHANGED <<job, pc, taken, feed, got, client, reads, reader, missing, faults>>

Conclude(s) ==
    /\ pc[s] = "flush" /\ encoder[s] \in {"done", "dead"}
    /\ IF encoder[s] = "dead" THEN TellError(s) ELSE UNCHANGED body
    /\ pc' = [pc EXCEPT ![s] = "over"]
    /\ UNCHANGED <<job, taken, buf, feed, encoder, got, client, reads, reader, missing, faults>>

-----------------------------------------------------------------------------
(* Its client *)

(* A raw response has a length, an encoded one ends where its body ends.   *)
Receive(s) ==
    /\ client[s] = "reading" /\ body[s] # <<>>
    /\ body' = [body EXCEPT ![s] = IF Head(@).kind = "error" THEN <<>> ELSE Tail(@)]
    /\ got' = [got EXCEPT ![s] = @ \o Head(body[s]).units]
    /\ client' = [client EXCEPT ![s] = IF Head(body[s]).kind = "error" THEN "broken" ELSE @]
    /\ UNCHANGED <<job, pc, taken, buf, feed, encoder, reads, reader, missing, faults>>

EndOfBody(s) ==
    /\ client[s] = "reading" /\ body[s] = <<>> /\ pc[s] = "over"
    /\ client' = [client EXCEPT ![s] =
                    IF How(s) = "encoded" \/ Len(got[s]) = Len(RangeFor(s))
                    THEN "complete" ELSE "broken"]
    /\ UNCHANGED <<job, response, got, reads, reader, missing, faults>>

Leave(s) ==
    /\ client[s] = "reading" /\ Fault("leave")
    /\ client' = [client EXCEPT ![s] = "left"]
    /\ body' = [body EXCEPT ![s] = <<>>]
    /\ UNCHANGED <<job, pc, taken, buf, feed, encoder, got, reads, reader, missing>>

-----------------------------------------------------------------------------
(* The reader *)

PieceOf(r) == PiecesFor(r.of)[r.piece]

Become(r, new) == reads' = (reads \ {r}) \cup {new}

InUse == Cardinality({r \in reads : r.at \in {"sent", "early", "asked"}})

(* A task with a permit sends its request, and then wakes the ring thread. *)
Ask(r) ==
    /\ r.at = "permit" /\ InUse < Reads
    /\ inbox' = Append(inbox, [of |-> r.of, piece |-> r.piece])
    /\ Become(r, [r EXCEPT !.at = "sent"])
    /\ UNCHANGED <<job, response, got, client, bell, ring, slab, free, fallback, missing, faults>>

Unwanted(s) == pc[s] # "stream" /\ How(s) # "small"

Wake(r) ==
    /\ r.at \in {"sent", "early"}
    /\ bell' = TRUE
    /\ IF Unwanted(r.of) THEN reads' = reads \ {r}
       ELSE Become(r, [r EXCEPT !.at = IF r.at = "sent" THEN "asked" ELSE "done"])
    /\ UNCHANGED <<job, response, got, client, inbox, ring, slab, free, fallback, missing, faults>>

(* An answer goes into a oneshot channel, and is lost if nobody awaits it. *)
Answer(req, ok, units) ==
    reads' = {IF r.of = req.of /\ r.piece = req.piece
              THEN [r EXCEPT !.ok = ok, !.reply = units,
                             !.at = IF r.at = "sent" THEN "early" ELSE "done"]
              ELSE r : r \in reads}

(* The aligned window around a piece, and what reading the first n units   *)
(* of it makes of the piece: what was not read is still zero.              *)
AlignedStart(p) == p.off - (p.off % Align)
WindowLen(p) == ((p.off + p.len + Align - 1) \div Align) * Align - AlignedStart(p)

(* Mutant of Need: the alignment in front is not counted.                 *)
NeedOfPiece(p) == p.len

Need(p) == p.off - AlignedStart(p) + p.len

Contents(p, n) ==
    [k \in 1..p.len |-> IF p.off + k <= AlignedStart(p) + n THEN <<p.file, p.off + k>> ELSE Tok("zero")]

HearBell ==
    /\ ring = "wait" /\ bell
    /\ ring' = "drain" /\ bell' = FALSE
    /\ UNCHANGED <<job, response, got, client, reads, inbox, slab, free, fallback, missing, faults>>

(* Until the inbox is empty; then the wait for the bell is armed again.    *)
StartOp ==
    /\ ring = "drain" /\ inbox # <<>>
    /\ inbox' = Tail(inbox)
    /\ LET req == Head(inbox)
           slot == IF free = <<>> THEN Len(slab) + 1 ELSE Last(free)
           op == {[of |-> req.of, piece |-> req.piece, filled |-> 0]}
       IN \/ /\ PieceOf(req).file \in missing
             /\ Answer(req, FALSE, <<>>) /\ UNCHANGED <<slab, free, fallback, faults>>
          \/ /\ PieceOf(req).file \notin missing /\ Fault("refuse")
             /\ fallback' = fallback \cup {req} /\ UNCHANGED <<reads, slab, free>>
          \/ /\ PieceOf(req).file \notin missing
             /\ slab' = IF free = <<>> THEN Append(slab, op) ELSE [slab EXCEPT ![slot] = op]
             /\ free' = IF free = <<>> THEN free ELSE Front(free)
             /\ UNCHANGED <<reads, fallback, faults>>
    /\ UNCHANGED <<job, response, got, client, bell, ring, missing>>

Rearm ==
    /\ ring = "drain" /\ inbox = <<>>
    /\ ring' = "wait"
    /\ UNCHANGED <<job, response, got, client, reads, inbox, bell, slab, free, fallback, missing, faults>>

(* Mutant of KeepSlot: a slot taken again still counts as free.           *)
KeepSlotFree(i, op) == slab' = [slab EXCEPT ![i] = {op}] /\ free' = Append(free, i)

(* A completion frees its slot; a short read takes the same one again.     *)
KeepSlot(i, op) == slab' = [slab EXCEPT ![i] = {op}] /\ free' = Front(Append(free, i))
ReleaseSlot(i) == slab' = [slab EXCEPT ![i] = {}] /\ free' = Append(free, i)

Available(op) ==
    LET p == PieceOf(op)
    IN Min({WindowLen(p), job[op.of].length[p.file] - AlignedStart(p)}) - op.filled

CompleteOp(i, op) ==
    /\ ring = "wait"
    /\ \/ LET n == op.filled + Available(op) IN
          /\ ReleaseSlot(i) /\ Answer(op, TRUE, Contents(PieceOf(op), n))
          /\ UNCHANGED <<fallback, faults>>
       \/ \E n \in 1..(Available(op) - 1) :
          /\ Fault("short")
          /\ IF op.filled + n >= Need(PieceOf(op))
             THEN ReleaseSlot(i) /\ Answer(op, TRUE, Contents(PieceOf(op), op.filled + n))
             ELSE KeepSlot(i, [op EXCEPT !.filled = @ + n]) /\ UNCHANGED reads
          /\ UNCHANGED fallback
       \/ /\ Fault("refuse")
          /\ fallback' = fallback \cup {[of |-> op.of, piece |-> op.piece]}
          /\ ReleaseSlot(i) /\ UNCHANGED reads
       \/ /\ Fault("fail") /\ ReleaseSlot(i) /\ Answer(op, FALSE, <<>>) /\ UNCHANGED fallback
    /\ UNCHANGED <<job, response, got, client, inbox, bell, ring, missing>>

(* A buffered read in the blocking pool opens the file anew.               *)
FallBack(req) ==
    /\ fallback' = fallback \ {req}
    /\ IF PieceOf(req).file \in missing THEN Answer(req, FALSE, <<>>)
       ELSE Answer(req, TRUE, [k \in 1..PieceOf(req).len |-> <<PieceOf(req).file, PieceOf(req).off + k>>])
    /\ UNCHANGED <<job, response, got, client, inbox, bell, ring, slab, free, missing, faults>>

(* Nix collects the path; files that are open can still be read.           *)
Collect ==
    \E s \in Stream : \E i \in DOMAIN PiecesFor(s) :
      /\ PiecesFor(s)[i].file \notin missing \cup {"none"} /\ Fault("collect")
      /\ missing' = missing \cup {PiecesFor(s)[i].file}
      /\ UNCHANGED <<job, response, got, client, reads, reader>>

-----------------------------------------------------------------------------
Respond(s) ==
    \/ Begin(s) \/ TakeRaw(s) \/ TakeEncoded(s) \/ TakeSmall(s) \/ FailPiece(s)
    \/ Abandon(s) \/ LastPiece(s) \/ Conclude(s)

EncoderStep(s) == Encode(s) \/ Flush(s) \/ FinishFrame(s)
ClientStep(s) == Receive(s) \/ EndOfBody(s)
ReadStep == \E r \in reads : Ask(r) \/ Wake(r)
RingStep == HearBell \/ StartOp \/ Rearm \/ \E i \in DOMAIN slab : \E op \in slab[i] : CompleteOp(i, op)
PoolStep == \E req \in fallback : FallBack(req)

Next ==
    \/ \E s \in Stream : Respond(s) \/ EncoderStep(s) \/ ClientStep(s) \/ Leave(s)
    \/ ReadStep \/ RingStep \/ PoolStep \/ Collect

Spec == Init /\ [][Next]_vars

(* Tasks and threads are scheduled, disks answer, clients read or leave.   *)
FairSpec ==
    /\ Spec
    /\ \A s \in Stream : WF_vars(Respond(s)) /\ WF_vars(EncoderStep(s)) /\ WF_vars(ClientStep(s))
    /\ WF_vars(ReadStep) /\ WF_vars(RingStep) /\ WF_vars(PoolStep)

-----------------------------------------------------------------------------
(* What the variables range over.                                          *)
TypeOK ==
    /\ pc \in [Stream -> {"permit", "stream", "flush", "over"}]
    /\ encoder \in [Stream -> {"off", "on", "done", "dead"}]
    /\ client \in [Stream -> {"reading", "left", "broken", "complete"}]
    /\ \A s \in Stream :
         /\ taken[s] \in 0..Len(PiecesFor(s))
         /\ Len(body[s]) <= Body /\ Len(feed[s]) <= Feed
    /\ \A r \in reads : /\ r.of \in Stream /\ r.piece \in taken[r.of] + 1..Len(PiecesFor(r.of))
                        /\ r.at \in {"permit", "sent", "early", "asked", "done"}
    /\ InUse <= Reads
    /\ ring \in {"wait", "drain"} /\ bell \in BOOLEAN
    /\ ToSet(free) \subseteq DOMAIN slab /\ faults \in 0..MaxFaults

(* The seek table of a path spells its NAR, and its manifest, unless a     *)
(* name is not UTF-8, makes the requester synthesize the same bytes: the   *)
(* two framing walks "kept textually in sync" (manifest.rs, nar.rs).       *)
LayoutsAgree ==
    (\A s \in Stream : pc[s] = "permit") => \A root \in Roots :
      LET table == SeekTable(root)
      IN /\ Spell(table.segs) = Units(root) /\ table.size = Len(Units(root))
         /\ Named(root) <=> Manifest(root, Split, table.size) # {}
         /\ \A tree \in Manifest(root, Split, table.size) :
              Spell(SynthLayout(tree, Split).segs) = Units(root)

(* Whatever order the reads complete in, however short they are, and       *)
(* whatever is collected under them, a client has a prefix of the range it *)
(* asked for, and all of it when its response ends well (emit,             *)
(* stream_encode, ring_loop).                                              *)
ServedIsTheRange ==
    \A s \in Stream : /\ IsPrefix(got[s], RangeFor(s))
                      /\ client[s] = "complete" => got[s] = RangeFor(s)

(* A read task that waits for an answer is somewhere it will come from,    *)
(* and once only: in the inbox, in one slot of the slab that is not on the *)
(* free stack, or with the blocking pool (ring_loop).                      *)
EveryReadIsSomewhere ==
    /\ TypeOK
    /\ \A r \in reads : r.at \in {"sent", "asked"} =>
      LET Mine(q) == q.of = r.of /\ q.piece = r.piece
      IN Cardinality({i \in DOMAIN inbox : Mine(inbox[i])})
           + Cardinality({i \in DOMAIN slab \ ToSet(free) : \E op \in slab[i] : Mine(op)})
           + Cardinality({q \in fallback : Mine(q)}) = 1

(* No response hangs, though a read is put in the channel of the ring       *)
(* thread while that thread goes to sleep (UringPool::read, ring_loop):     *)
(* every client that stays gets an end of its body, and every permit and   *)
(* encoder thread is given back.                                           *)
EveryResponseEnds ==
    \A s \in Stream : <>[](client[s] # "reading" /\ pc[s] = "over" /\ encoder[s] # "on")
============================================================================
