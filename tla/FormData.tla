------------------------------ MODULE FormData ------------------------------
(***************************************************************************)
(* The body of a form (application/x-www-form-urlencoded) as src/main/     *)
(* utils.c reads it: cut at '&', each piece at its '=', both sides         *)
(* decoded, and integers parsed out of values.                             *)
(*                                                                         *)
(* A string is the sequence of its bytes, without the zero that ends it.   *)
(***************************************************************************)
EXTENDS Integers, SequencesExt

CONSTANTS
    NULL,           \* what is not there, or cannot be read
    LIMIT,          \* integers are from -LIMIT to LIMIT - 1
    Bytes,          \* bytes that strings are made of, other than zero
    Fields,         \* names and values that forms are made of
    Junk,           \* pieces of a form that are no parameter
    MAX_LENGTH      \* bound on what the properties read

SPACE == 32
PERCENT == 37
AMPERSAND == 38
PLUS == 43
MINUS == 45
EQUALS == 61

Digit == 48 .. 57

-----------------------------------------------------------------------------
(* Decoding. *)

\* hex_char_to_val, for a digit
HexValue(c) == CASE c \in Digit -> c - 48 [] c \in 65 .. 70 -> c - 55 [] c \in 97 .. 102 -> c - 87

IsHex(c) == c \in Digit \cup 65 .. 70 \cup 97 .. 102

\* Mutant: the state stays that of the second digit.
DecodeByteStuck(d, c) ==
    CASE d.state = "NORMAL" /\ c = PERCENT -> [d EXCEPT !.state = "PERCENT_FIRST"]
      [] d.state = "NORMAL" /\ c # PERCENT -> [d EXCEPT !.out = Append(@, IF c = PLUS THEN SPACE ELSE c)]
      [] d.state = "PERCENT_FIRST" /\ IsHex(c) ->
           [d EXCEPT !.state = "PERCENT_SECOND", !.value = 16 * HexValue(c)]
      [] d.state = "PERCENT_SECOND" /\ IsHex(c) -> [d EXCEPT !.out = Append(@, d.value + HexValue(c))]
      [] OTHER -> [d EXCEPT !.state = "FAILED"]

\* One turn of the state machine of form_data_decode_str.
DecodeByte(d, c) ==
    CASE d.state = "NORMAL" /\ c = PERCENT -> [d EXCEPT !.state = "PERCENT_FIRST"]
      [] d.state = "NORMAL" /\ c # PERCENT -> [d EXCEPT !.out = Append(@, IF c = PLUS THEN SPACE ELSE c)]
      [] d.state = "PERCENT_FIRST" /\ IsHex(c) ->
           [d EXCEPT !.state = "PERCENT_SECOND", !.value = 16 * HexValue(c)]
      [] d.state = "PERCENT_SECOND" /\ IsHex(c) ->
           [d EXCEPT !.state = "NORMAL", !.out = Append(@, d.value + HexValue(c))]
      [] OTHER -> [d EXCEPT !.state = "FAILED"]

Decoder == [state |-> "NORMAL", value |-> 0, out |-> <<>>]

\* A string ends at its first zero.
CString(s) ==
    LET zero == SelectInSeq(s, LAMBDA c : c = 0)
    IN IF zero = 0 THEN s ELSE SubSeq(s, 1, zero - 1)

\* form_data_decode_str; an escape the string ends in is dropped.
Decode(s) ==
    LET d == FoldLeft(DecodeByte, Decoder, s)
    IN IF d.state = "FAILED" THEN NULL ELSE CString(d.out)

-----------------------------------------------------------------------------
(* Forms. *)

\* A byte more.
SplitByte(splits, c, separator) ==
    IF c = separator THEN Append(splits, <<>>) ELSE [splits EXCEPT ![Len(splits)] = Append(@, c)]

\* split_string: one string more than separators, but none out of nothing.
Split(s, separator) ==
    IF s = <<>> THEN <<>>
    ELSE FoldLeft(LAMBDA splits, c : SplitByte(splits, c, separator), << <<>> >>, s)

\* A parameter has one '=' and something before it (the regular expression), and
\* both its sides can be decoded.
IsParam(sides) ==
    /\ Len(sides) = 2 /\ sides[1] # <<>>
    /\ Decode(sides[1]) # NULL /\ Decode(sides[2]) # NULL

ReadParam(sides) == [name |-> Decode(sides[1]), value |-> Decode(sides[2])]

\* Mutant: the first piece that is no parameter ends the form.
ParseBreak(data) ==
    LET pieces == Split(data, AMPERSAND)
        bad == SelectInSeq(pieces, LAMBDA piece : ~IsParam(Split(piece, EQUALS)))
        params == IF bad = 0 THEN pieces ELSE SubSeq(pieces, 1, bad - 1)
    IN [i \in DOMAIN params |-> ReadParam(Split(params[i], EQUALS))]

\* form_data_parse: a piece that is no parameter is skipped.
Parse(data) ==
    FoldLeft(LAMBDA params, piece :
                 IF IsParam(Split(piece, EQUALS)) THEN Append(params, ReadParam(Split(piece, EQUALS))) ELSE params,
             <<>>, Split(data, AMPERSAND))

\* form_data_get_str: the first of the parameters with that name.
GetStr(params, name) ==
    LET i == SelectInSeq(params, LAMBDA p : p.name = name)
    IN IF i = 0 THEN NULL ELSE params[i].value

Saturated(n) == IF n < -LIMIT THEN -LIMIT ELSE IF n > LIMIT - 1 THEN LIMIT - 1 ELSE n

\* Mutant: a plus sign is taken for the start of no number.
ParseIntUnsigned(s) ==
    LET signed == s # <<>> /\ s[1] = MINUS
        digits == IF signed THEN Tail(s) ELSE s
        value == FoldLeft(LAMBDA n, c : 10 * n + HexValue(c), 0, digits)
    IN IF digits = <<>> \/ ~(ToSet(digits) \subseteq Digit) THEN NULL
       ELSE Saturated(IF signed THEN -value ELSE value)

\* parse_int: an optional sign and digits; atoi stops at the limits of an integer.
ParseInt(s) ==
    LET signed == s # <<>> /\ s[1] \in {PLUS, MINUS}
        digits == IF signed THEN Tail(s) ELSE s
        value == FoldLeft(LAMBDA n, c : 10 * n + HexValue(c), 0, digits)
    IN IF digits = <<>> \/ ~(ToSet(digits) \subseteq Digit) THEN NULL
       ELSE Saturated(IF signed /\ s[1] = MINUS THEN -value ELSE value)

-----------------------------------------------------------------------------
(* Reference definitions: what a client may send, and what it means.       *)

HexDigit(n, ten) == IF n < 10 THEN 48 + n ELSE ten + n - 10

Escaped(c, ten) == <<PERCENT, HexDigit(c \div 16, ten), HexDigit(c % 16, ten)>>

\* Bytes that stand for something else unless they are escaped.
Reserved == {PERCENT, AMPERSAND, PLUS, EQUALS, SPACE}

\* The ways to write a byte: escaped with capital or small digits, or plain.
Spellings(c) ==
    {Escaped(c, 65), Escaped(c, 97)}
    \cup (CASE c = SPACE -> {<<PLUS>>} [] c \in Reserved \ {SPACE} -> {} [] OTHER -> {<<c>>})

\* How browsers write a byte, and a string.
Spelled(c) == IF c = SPACE THEN <<PLUS>> ELSE IF c \in Reserved THEN Escaped(c, 65) ELSE <<c>>

Encode(s) == FlattenSeq([i \in DOMAIN s |-> Spelled(s[i])])

\* What is no parameter: no '=' or two of them, nothing before it, or a percent sign
\* with something else than a digit among the two bytes that follow it.
Malformed(piece) ==
    \/ \A i \in DOMAIN piece : piece[i] # EQUALS
    \/ \E i, j \in DOMAIN piece : i < j /\ piece[i] = EQUALS /\ piece[j] = EQUALS
    \/ piece[1] = EQUALS
    \/ \E i \in DOMAIN piece, d \in {1, 2} :
          /\ piece[i] = PERCENT /\ i + d \in DOMAIN piece /\ ~IsHex(piece[i + d])
          /\ \A j \in i .. i + d : piece[j] # EQUALS

\* A form, some of whose pieces are parameters.
Pieces == [name : Fields \ {<<>>}, value : Fields] \cup [junk : Junk]

Piece(p) == IF "junk" \in DOMAIN p THEN p.junk ELSE (Encode(p.name) \o <<EQUALS>>) \o Encode(p.value)

Body(form) == FoldLeft(LAMBDA body, p : (body \o <<AMPERSAND>>) \o Piece(p), Piece(form[1]), Tail(form))

ParamsOf(form) == FoldLeft(LAMBDA params, p : IF "junk" \in DOMAIN p THEN params ELSE Append(params, p), <<>>, form)

ASSUME FormAssumption ==
    /\ MAX_LENGTH \in Nat /\ LIMIT \in Nat \ {0} /\ NULL \notin Int
    /\ Bytes \subseteq 1 .. 255
    /\ Fields \subseteq Seq(1 .. 255) /\ NULL \notin Seq(1 .. 255)
    /\ \A junk \in Junk : junk \in Seq(1 .. 255) /\ AMPERSAND \notin ToSet(junk) /\ Malformed(junk)

Signs == {<<>>, <<PLUS>>, <<MINUS>>}

\* What a digit counts by its place from the last: each ten times the one after it.
Worth(n) ==
    LET worth[k \in 0 .. n] == IF k = 0 THEN 1 ELSE 10 * worth[k - 1]
    IN worth

\* The number that digits stand for, by their places.
Positional(digits) ==
    LET n == Len(digits)
        worth == Worth(n)
    IN FoldLeft(LAMBDA sum, i : sum + (digits[i] - 48) * worth[n - i], 0, [i \in DOMAIN digits |-> i])

-----------------------------------------------------------------------------
(* What is asked of them, of every input within the bounds. *)

\* Every spelling of a string decodes to it, and what is decoded fits its buffer,
\* which is as long as the text.
SpellingsDecoded ==
    /\ \A spelled \in SeqOf(UNION {{<<c, w>> : w \in Spellings(c)} : c \in Bytes}, MAX_LENGTH) :
          Decode(FlattenSeq([i \in DOMAIN spelled |-> spelled[i][2]])) = [i \in DOMAIN spelled |-> spelled[i][1]]
    /\ \A text \in SeqOf(Bytes, MAX_LENGTH) : Len(FoldLeft(DecodeByte, Decoder, text).out) <= Len(text)

\* The body of a form parses to the parameters among its pieces.
BodiesParsed ==
    \A form \in SeqOf(Pieces, MAX_LENGTH) \ {<<>>} :
        Parse(Body(form)) = ParamsOf(form)

\* Digits parse to their number, or to the limit of its sign; nothing else parses.
DigitsParsed ==
    /\ \A sign \in Signs, digits \in SeqOf({48, 51, 57}, 6) \ {<<>>} :
          ParseInt(sign \o digits) =
              Saturated(IF sign = <<MINUS>> THEN -Positional(digits) ELSE Positional(digits))
    /\ \A text \in SeqOf(Bytes, MAX_LENGTH) :
          ParseInt(text) # NULL <=>
              \E sign \in Signs, first \in DOMAIN text :
                  /\ text = sign \o SubSeq(text, first, Len(text))
                  /\ ToSet(SubSeq(text, first, Len(text))) \subseteq Digit
=============================================================================
