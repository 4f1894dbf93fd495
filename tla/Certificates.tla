---------------------------- MODULE Certificates ----------------------------
(***************************************************************************)
(* What POST /certificate (src/main/api_mgmt.c) makes of the bundle it is  *)
(* given: the blocks the iterator of utils.c finds in its text, the        *)
(* certificate of the private key, and the chain built up from it.         *)
(*                                                                         *)
(* A text is a sequence of labels (what begins with a dash) and of the     *)
(* data between them.  Data is a certificate "of" a name signed "by" a     *)
(* name, the private key "of" a name, or anything else.                    *)
(***************************************************************************)
EXTENDS Naturals, FiniteSets, SequencesExt

CONSTANTS
    MAX_PART,       \* CERT_BUNDLE_MAX_PART_COUNT
    Texts           \* the texts the iterator is checked on

ASSUME CertificatesAssumption ==
    /\ MAX_PART \in Nat
    /\ \A text \in Texts : text \in Seq(Range(text))

Kinds == {"cert", "key"}
Begin(kind) == [label |-> "begin", kind |-> kind]
End(kind) == [label |-> "end", kind |-> kind]
Dash == [label |-> "other", kind |-> "none"]
IsLabel(token) == "label" \in DOMAIN token

Cert(of, by) == [kind |-> "cert", of |-> of, by |-> by]
PrivateKey(of) == [kind |-> "key", of |-> of, by |-> of]
Noise == [kind |-> "other"]

\* What mbedtls cannot parse as what its labels say.
Bad(kind) == [kind |-> kind, of |-> "bad", by |-> "bad"]

\* The part in a block: its data is one of the block's kind, or does not parse.
Part(kind, data) == IF Len(data) = 1 /\ data[1].kind = kind THEN data[1] ELSE Bad(kind)

-----------------------------------------------------------------------------
(* The iterator. *)

IterInit(text) == [state |-> "IDLE", rest |-> text, parts |-> <<>>]

\* Mutant: a block that the text ends in is not told from no block.
IterNextOpen(it) ==
    LET opening == SelectInSeq(it.rest, IsLabel)
        label == it.rest[opening]
        rest == SubSeq(it.rest, opening + 1, Len(it.rest))
        closing == SelectInSeq(rest, IsLabel)
    IN CASE it.state # "IDLE" -> it
         [] it.state = "IDLE" /\ (opening = 0 \/ closing = 0) -> [it EXCEPT !.state = "END_OK"]
         [] it.state = "IDLE" /\ opening # 0 /\ closing # 0 ->
              IF label \in {Begin(k) : k \in Kinds} /\ rest[closing] = End(label.kind)
              THEN [it EXCEPT !.rest = SubSeq(rest, closing + 1, Len(rest)),
                              !.parts = Append(@, Part(label.kind, SubSeq(rest, 1, closing - 1)))]
              ELSE [it EXCEPT !.state = "END_FAIL"]

\* One call searches two labels, one that opens a block and the one that closes
\* it; what is between blocks is skipped.
IterNext(it) ==
    LET opening == SelectInSeq(it.rest, IsLabel)
        label == it.rest[opening]
        rest == SubSeq(it.rest, opening + 1, Len(it.rest))
        closing == SelectInSeq(rest, IsLabel)
    IN CASE it.state # "IDLE" -> it
         [] it.state = "IDLE" /\ opening = 0 -> [it EXCEPT !.state = "END_OK"]
         [] it.state = "IDLE" /\ opening # 0 ->
              IF /\ label \in {Begin(k) : k \in Kinds}
                 /\ closing # 0 /\ rest[closing] = End(label.kind)
              THEN [it EXCEPT !.rest = SubSeq(rest, closing + 1, Len(rest)),
                              !.parts = Append(@, Part(label.kind, SubSeq(rest, 1, closing - 1)))]
              ELSE [it EXCEPT !.state = "END_FAIL"]

\* The handler calls it until it ends.
Iterated(text) == FoldLeft(LAMBDA it, call : IterNext(it), IterInit(text), Append(text, Dash))

-----------------------------------------------------------------------------
(* The chain. *)

\* The parts of a kind, as many as the handler has room for; it skips the others,
\* unparsed.
Found(bundle, kind) ==
    FoldLeft(LAMBDA found, part : IF part.kind = kind /\ Len(found) < MAX_PART
                                  THEN Append(found, part) ELSE found, <<>>, bundle)

Certs(bundle) == Found(bundle, "cert")
Keys(bundle) == Found(bundle, "key")

Matching(certs, name) == {i \in DOMAIN certs : certs[i].of = name}

\* Mutant: the first certificate is taken for the one of the key.
LeafFirst(certs, name) == 1

\* Every certificate that matches the key is marked used, the last one kept.
Leaf(certs, name) == CHOOSE i \in Matching(certs, name) : \A j \in Matching(certs, name) : j <= i

\* Mutant: a search goes on where the last one ended instead of starting over.
ClimbOnward(certs, name, path, from) ==
    LET signers == {i \in Last(path) .. Len(certs) :
                       /\ i \notin Matching(certs, name) \cup Range(path)
                       /\ certs[i].of = certs[Last(path)].by}
    IN IF signers = {} THEN path ELSE Append(path, Min(signers))

\* The search for the certificate that signed the last one of the path.  It
\* starts over at the second certificate (i = 0 and then i++).
Climb(certs, name, path, from) ==
    LET signers == {i \in from .. Len(certs) :
                       /\ i \notin Matching(certs, name) \cup Range(path)
                       /\ certs[i].of = certs[Last(path)].by}
    IN IF signers = {} THEN path ELSE Append(path, Min(signers))

\* The indexes of the chain, from the certificate of the key upwards.
Path(certs, name) ==
    FoldLeft(LAMBDA path, round : Climb(certs, name, path, IF round = 1 THEN 1 ELSE 2),
             <<Leaf(certs, name)>>, [round \in DOMAIN certs |-> round])

Accepted(text) ==
    LET it == Iterated(text)
        certs == Certs(it.parts)
        keys == Keys(it.parts)
        name == keys[1].of
    IN /\ it.state = "END_OK"
       /\ Range(certs \o keys) \cap {Bad(k) : k \in Kinds} = {}
       /\ Len(keys) = 1
       /\ Matching(certs, name) # {}
       /\ Matching(certs, name) \cup Range(Path(certs, name)) = DOMAIN certs

\* What an accepted text stores.
KeyName(text) == Keys(Iterated(text).parts)[1].of

Chain(text) ==
    LET certs == Certs(Iterated(text).parts)
        path == Path(certs, KeyName(text))
    IN [i \in DOMAIN path |-> certs[path[i]]]

-----------------------------------------------------------------------------
(* Reference definitions. *)

\* Where the labels of a text are, in order.
Labels(text) ==
    FoldLeft(LAMBDA at, i : IF IsLabel(text[i]) THEN Append(at, i) ELSE at, <<>>, [i \in DOMAIN text |-> i])

\* Every label that opens a block is followed by the one that closes it.
WellFormed(text) ==
    LET at == Labels(text)
    IN /\ Len(at) % 2 = 0
       /\ \A b \in 1 .. Len(at) \div 2 : \E k \in Kinds :
             text[at[2 * b - 1]] = Begin(k) /\ text[at[2 * b]] = End(k)

Blocks(text) ==
    LET at == Labels(text)
    IN [b \in 1 .. Len(at) \div 2 |->
           Part(text[at[2 * b]].kind, SubSeq(text, at[2 * b - 1] + 1, at[2 * b] - 1))]

IsChain(certs) == \A i \in 1 .. Len(certs) - 1 : certs[i].by = certs[i + 1].of

\* A bundle as README.md:121-126 asks for, except that the authorities may come in
\* any order: the server's certificate, those above it, and the key.
IsServerFirst(text) ==
    LET bundle == Blocks(text)
        all == Front(bundle)
    IN /\ WellFormed(text)
       /\ all # <<>> /\ Len(all) <= MAX_PART
       /\ \A i \in DOMAIN all : all[i].kind = "cert"
       /\ Last(bundle) = PrivateKey(all[1].of)
       /\ Range(bundle) \cap {Bad(k) : k \in Kinds} = {}
       /\ IsInjective([i \in DOMAIN all |-> all[i].of])
       /\ \E order \in Bijection(DOMAIN all, DOMAIN all) :
             order[1] = 1 /\ IsChain([i \in DOMAIN all |-> all[order[i]]])

\* The iterator finds the blocks of every well formed text, and refuses the others.
TextsIterated ==
    \A text \in Texts :
        LET it == Iterated(text)
        IN /\ it.state = (IF WellFormed(text) THEN "END_OK" ELSE "END_FAIL")
           /\ it.state = "END_OK" => it.parts = Blocks(text)
=============================================================================
