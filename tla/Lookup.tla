------------------------------- MODULE Lookup -------------------------------
(***************************************************************************)
(* One request of the local nix at the proxy listener (proxy.rs), answered *)
(* from the replicated index alone: which attestations bear on it, whose   *)
(* stores hold the content, and which of those peers may be asked.  The    *)
(* reads are separate: the index scan, then a body per entry, then the     *)
(* holders of each row, then the breaker of each holder; the sync loops    *)
(* and the transfers change all of them in between.                        *)
(*                                                                         *)
(* The index that a request reads is written as Facts and Possession say;  *)
(* here facts merge, origins gain and lose content, breakers open and      *)
(* close and a roaming epoch begins and ends at any moment.                *)
(***************************************************************************)
EXTENDS Naturals, FiniteSets, FiniteSetsExt

CONSTANTS
    Fact,          \* identities of facts: store path and NAR hash
    Path,          \* Path[f]: the hash part of the store path of f
    Hash,          \* Hash[f]: its NAR hash
    Size,          \* Size[h]: the NAR size
    Key,           \* signers
    Trusted,       \* those that config trusts
    Peer,          \* configured peers
    Tier,          \* Tier[p]
    Self,          \* this node's name as an origin
    Ask,           \* the requests: what is asked and for what
    Header,        \* the Range headers of NAR requests
    MaxU64,        \* the largest u64
    Threshold,     \* threshold_bytes: min_bandwidth times its grace
    MaxChanges     \* bound: changes around the request

ASSUME LookupAssumption ==
    /\ IsFiniteSet(Fact) /\ IsFiniteSet(Peer)
    /\ Trusted \subseteq Key
    /\ Self \notin Peer
    /\ Tier \in [Peer -> Nat]
    /\ {MaxU64, Threshold, MaxChanges} \subseteq Nat
    /\ Size \in [{Hash[f] : f \in Fact} -> 0..MaxU64]
    /\ Header \subseteq [form : {"none", "suffix", "from", "both"}, a : 0..MaxU64, b : 0..MaxU64]

Origin == Peer \cup {Self}

VARIABLES
    att,       \* att[f]: the signatures of the stored fact, {} when there is none
    held,      \* who holds what, as replicated
    shut,      \* the peers whose breaker is open
    roaming,   \* is a roaming epoch on
    changes,   \* number of changes so far
    ask,       \* the request
    pc,        \* where its handler is
    entries,   \* index entries without their body yet, with the version they name
    rows,      \* bodies without their holders yet
    found,     \* feasible rows that someone holds, with the holders not yet probed
    reply,     \* the answer
    steady,    \* for the properties: who could serve which row all along
    past       \* for the properties: what was the case at some moment of the request

index == <<att, held, shut, roaming, changes>>
vars == <<index, ask, pc, entries, rows, found, reply, steady, past>>

-----------------------------------------------------------------------------
(* Index and peers *)

(* Index::feasible: some signature verifies under a trusted key.  Content   *)
(* addressing counts as one more signer, always trusted.                   *)
Feasible(sigs) == sigs \cap Trusted # {}

Concerns(f) ==
    /\ ask.what = "info" => Path[f] = ask.of
    /\ ask.what = "nar" => Hash[f] = ask.of

(* lookup_hash_part, lookup_nar_hash: one scan of att_path or of att_nar. *)
Scan == {[fact |-> f, sigs |-> att[f]] : f \in {g \in Fact : Concerns(g) /\ att[g] # {}}}

(* att_at: the key of a body is its hash, so a merged fact is not found     *)
(* under the version that the entry names.                                 *)
BodyAt(e) == IF att[e.fact] = e.sigs THEN {e} ELSE {}

HoldersOf(h) == {o \in Origin : <<o, h>> \in held}

(* Who could serve f just now. *)
Servable ==
    {s \in Fact \X Peer : /\ Concerns(s[1]) /\ Feasible(att[s[1]])
                          /\ <<s[2], Hash[s[1]]>> \in held /\ s[2] \notin shut}

-----------------------------------------------------------------------------
(* Range headers *)

(* Mutant of RangeOf: the end wraps. *)
RangeOfWrapping(h, size) ==
    LET part(from, to) == [what |-> "partial", from |-> from, to |-> to]
        none == [what |-> "unsatisfiable", from |-> 0, to |-> 0]
        end == Min({(h.b + 1) % (MaxU64 + 1), size})
    IN
    CASE h.form = "suffix" ->
           IF h.b = 0 \/ size = 0 THEN none
           ELSE part(IF h.b >= size THEN 0 ELSE size - h.b, size)
      [] h.form = "from" -> IF h.a >= size THEN none ELSE part(h.a, size)
      [] h.form = "both" -> IF h.a > h.b \/ h.a >= size \/ end <= h.a THEN none ELSE part(h.a, end)
      [] OTHER -> [what |-> "full", from |-> 0, to |-> size]

(* parse_range: [from, to) of a NAR of that size; the end saturates. *)
RangeOf(h, size) ==
    LET part(from, to) == [what |-> "partial", from |-> from, to |-> to]
        none == [what |-> "unsatisfiable", from |-> 0, to |-> 0]
        end == Min({h.b + 1, MaxU64, size})
    IN
    CASE h.form = "suffix" ->
           IF h.b = 0 \/ size = 0 THEN none
           ELSE part(IF h.b >= size THEN 0 ELSE size - h.b, size)
      [] h.form = "from" -> IF h.a >= size THEN none ELSE part(h.a, size)
      [] h.form = "both" -> IF h.a > h.b \/ h.a >= size \/ end <= h.a THEN none ELSE part(h.a, end)
      [] OTHER -> [what |-> "full", from |-> 0, to |-> size]

-----------------------------------------------------------------------------
(* Around the request *)

(* A change to what the request is about, and what the properties remember *)
(* of it.                                                                  *)
Change ==
    /\ pc # "done" /\ changes < MaxChanges /\ changes' = changes + 1
    /\ UNCHANGED <<ask, pc, entries, rows, found, reply>>
    /\ steady' = {s \in steady \cap Servable' : att'[s[1]] = att[s[1]]}
    /\ past' = [held |-> past.held \cup held', up |-> past.up \cup (Peer \ shut'),
                roaming |-> past.roaming \/ roaming']

(* merge_atts: signatures are united, and the row moves. *)
Merge(f, k) ==
    /\ Concerns(f) /\ k \notin att[f]
    /\ att' = [att EXCEPT ![f] = @ \cup {k}]
    /\ UNCHANGED <<held, shut, roaming>>
    /\ Change

(* apply_holds, for an origin's event. *)
Hold(o, h) ==
    /\ \E f \in Fact : Concerns(f) /\ Hash[f] = h
    /\ held' = IF <<o, h>> \in held THEN held \ {<<o, h>>} ELSE held \cup {<<o, h>>}
    /\ UNCHANGED <<att, shut, roaming>>
    /\ Change

(* record_strike, or the cooldown and record_ok. *)
Trip(p) ==
    /\ shut' = IF p \in shut THEN shut \ {p} ELSE shut \cup {p}
    /\ UNCHANGED <<att, held, roaming>>
    /\ Change

(* set_roaming, and the end of ROAMING_EPOCH. *)
Roam ==
    /\ roaming' = ~roaming
    /\ UNCHANGED <<att, held, shut>>
    /\ Change

-----------------------------------------------------------------------------
(* The request *)

Arrive ==
    /\ pc = "arrive"
    /\ entries' = Scan
    /\ pc' = "bodies"
    /\ steady' = Servable
    /\ past' = [held |-> held, up |-> Peer \ shut, roaming |-> roaming]
    /\ UNCHANGED <<index, ask, rows, found, reply>>

ReadBody ==
    /\ pc = "bodies"
    /\ \/ \E e \in entries :
            /\ entries' = entries \ {e}
            /\ rows' = rows \cup BodyAt(e)
            /\ UNCHANGED pc
       \/ /\ entries = {}
          /\ pc' = "holders"
          /\ UNCHANGED <<entries, rows>>
    /\ UNCHANGED <<index, ask, found, reply, steady, past>>

(* sources_of: the holders that are configured peers. *)
Askable(holders) == holders \cap Peer

(* lookup_atts drops what nobody holds, lookup_* what is not feasible. *)
ReadHolders ==
    /\ pc = "holders"
    /\ \/ \E row \in rows :
            LET holders == HoldersOf(Hash[row.fact]) IN
            /\ rows' = rows \ {row}
            /\ found' = IF holders = {} \/ ~Feasible(row.sigs) THEN found
                        ELSE found \cup {[fact |-> row.fact, sigs |-> row.sigs, wide |-> holders,
                                          probe |-> Askable(holders), live |-> {}]}
            /\ UNCHANGED pc
       \/ /\ rows = {}
          /\ pc' = "probe"
          /\ UNCHANGED <<rows, found>>
    /\ UNCHANGED <<index, ask, entries, reply, steady, past>>

(* sources_of, one holder: a configured peer whose breaker is not open. *)
Live(row, p) ==
    [row EXCEPT !.probe = @ \ {p}, !.live = IF p \in shut THEN @ ELSE @ \cup {p}]

Probe ==
    /\ pc = "probe"
    /\ \/ \E row \in found : \E p \in row.probe :
            /\ found' = (found \ {row}) \cup {Live(row, p)}
            /\ UNCHANGED pc
       \/ /\ \A row \in found : row.probe = {}
          /\ pc' = "answer"
          /\ UNCHANGED found
    /\ UNCHANGED <<index, ask, entries, rows, reply, steady, past>>

(* Mutant of SourcesOf: the tiers are not told apart. *)
SourcesOfAnyTier(row) == row.live

(* sources_of: the lowest tier present. *)
SourcesOf(row) == {p \in row.live : \A q \in row.live : Tier[p] <= Tier[q]}

Miss == [what |-> "miss", fact |-> {}, from |-> {}, range |-> [what |-> "none", from |-> 0, to |-> 0],
         header |-> [form |-> "none", a |-> 0, b |-> 0]]

(* refuses_while_roaming *)
Refused(f) == roaming /\ Size[Hash[f]] > Threshold

(* Mutant of Best: the most holders, whether or not they can be asked. *)
BestByHolders ==
    {row \in found : SourcesOf(row) # {} /\
       \A o \in found : Cardinality(o.wide) <= Cardinality(row.wide)}

(* get_narinfo: the copy that the most peers can serve. *)
Best == {row \in found : SourcesOf(row) # {} /\
           \A o \in found : Cardinality(SourcesOf(o)) <= Cardinality(SourcesOf(row))}

AnswerInfo ==
    /\ pc = "answer" /\ ask.what = "info"
    /\ \/ Best = {} /\ reply' = Miss
       \/ \E row \in Best :
            reply' = IF Refused(row.fact) THEN Miss
                     ELSE [Miss EXCEPT !.what = "info", !.fact = {row.fact}, !.from = SourcesOf(row)]
    /\ pc' = "done"
    /\ UNCHANGED <<index, ask, entries, rows, found, steady, past>>

(* get_nar: the sources of all rows, the metadata of the most widely held. *)
Widest == {row \in found : \A o \in found : Cardinality(o.wide) <= Cardinality(row.wide)}

AnswerNar ==
    LET sources == UNION {SourcesOf(row) : row \in found} IN
    /\ pc = "answer" /\ ask.what = "nar"
    /\ \/ sources = {} /\ reply' = Miss
       \/ /\ sources # {}
          /\ \E row \in Widest, h \in Header :
               reply' = IF Refused(row.fact) THEN Miss
                        ELSE [what |-> "nar", fact |-> {row.fact}, from |-> sources,
                              range |-> RangeOf(h, Size[Hash[row.fact]]), header |-> h]
    /\ pc' = "done"
    /\ UNCHANGED <<index, ask, entries, rows, found, steady, past>>

-----------------------------------------------------------------------------

Init ==
    /\ att \in [Fact -> SUBSET Key]
    /\ held \in SUBSET (Origin \X {Hash[f] : f \in Fact})
    /\ shut \in SUBSET Peer
    /\ roaming = FALSE
    /\ changes = 0
    /\ ask \in Ask
    /\ pc = "arrive"
    /\ entries = {} /\ rows = {} /\ found = {}
    /\ reply = Miss
    /\ steady = {}
    /\ past = [held |-> {}, up |-> {}, roaming |-> FALSE]

Next ==
    \/ \E f \in Fact, k \in Key : Merge(f, k)
    \/ \E o \in Origin, f \in Fact : Hold(o, Hash[f])
    \/ \E p \in Peer : Trip(p)
    \/ Roam
    \/ Arrive \/ ReadBody \/ ReadHolders \/ Probe \/ AnswerInfo \/ AnswerNar

Spec == Init /\ [][Next]_vars

-----------------------------------------------------------------------------
(* Properties *)

TypeOK ==
    /\ att \in [Fact -> SUBSET Key]
    /\ held \subseteq Origin \X {Hash[f] : f \in Fact}
    /\ shut \subseteq Peer
    /\ pc \in {"arrive", "bodies", "holders", "probe", "answer", "done"}
    /\ \A row \in found : row.probe \cup row.live \subseteq Peer /\ row.wide \subseteq Origin
    /\ reply.what \in {"miss", "info", "nar"} /\ reply.from \subseteq Peer
    /\ reply.range.from <= reply.range.to
    /\ changes \in 0..MaxChanges

(* "all-holders-dead becomes an instant 404", and nothing else does: where  *)
(* one peer held one believable copy, could be asked for it all along and  *)
(* no roaming epoch was on, the request is not a miss, whatever moves      *)
(* around it (get_narinfo, get_nar).  A copy whose fact is merged while it *)
(* is read is exempt: its row moves between the two reads.                 *)
MissIsHonest == pc = "done" /\ reply.what = "miss" /\ ~past.roaming => steady = {}

(* "before any 200 is committed" the sources are known, and are the right   *)
(* ones (sources_of): every one of them held the content at some moment of *)
(* the request and could be asked at some moment of it, and "higher tiers   *)
(* are only consulted when no lower-tier peer can serve the path": none is *)
(* of a higher tier than a peer that held what is sent and could be asked   *)
(* all along.                                                              *)
SourcesAreRight ==
    /\ TypeOK
    /\ pc = "done" => \A p \in reply.from :
         /\ p \in past.up /\ \A f \in reply.fact : <<p, Hash[f]>> \in past.held
         /\ \A s \in steady : s[1] \in reply.fact => Tier[p] <= Tier[s[2]]

(* What a Range header asks for, byte by byte: an end past the largest u64 *)
(* asks for the rest (parse_range).                                        *)
Asked(h, size) ==
    {i \in 0..(size - 1) : /\ h.form = "suffix" => size - i <= h.b
                           /\ h.form \in {"from", "both"} => h.a <= i
                           /\ h.form = "both" => i <= h.b}

(* A part is sent exactly when the header names a part with bytes in it,    *)
(* and it is that part; a header with none is refused, not served whole.   *)
RangeIsWhatWasAsked ==
    \A f \in reply.fact :
      reply.what = "nar" /\ reply.range.what # "full" =>
        LET asked == Asked(reply.header, Size[Hash[f]]) IN
        /\ reply.range.what = "unsatisfiable" <=> asked = {}
        /\ reply.range.what = "partial" => reply.range.from..(reply.range.to - 1) = asked
=============================================================================
