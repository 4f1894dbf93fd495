---------------------------- MODULE MCManagement ----------------------------
(* Instances of Management for TLC. *)
EXTENDS Management

\* A server's certificate, two authorities above it, and the key.
MCParts == {Cert("server", "middle"), Cert("middle", "root"), Cert("root", "root"), PrivateKey("server")}

Text(parts) ==
    FoldLeft(LAMBDA text, part : text \o <<Begin(part.kind), part, End(part.kind)>>, <<>>, parts)

\* Any of them in any order; bundles with too much, too little or a part that does
\* not parse; and texts with something around the blocks, a label that is not
\* closed, one closed as what it is not, or nothing at all.
MCBundles ==
    {Text(order) : order \in {o \in SetToAllKPermutations(MCParts) :
                               Len(o) = 4 \/ (Len(o) = 2 /\ PrivateKey("server") \in Range(o))}}
    \cup {Text(<<Cert("server", "middle"), Cert("server", "middle"), PrivateKey("server")>>),
          Text(<<Cert("server", "middle"), PrivateKey("server"), PrivateKey("middle")>>),
          Text(<<Cert("server", "middle"), Cert("middle", "root"), Cert("root", "root"),
                 Cert("root", "root"), PrivateKey("server")>>),
          Text(<<Cert("server", "middle"), Bad("cert"), PrivateKey("server")>>),
          <<Noise>> \o Text(<<Cert("root", "root")>>) \o <<Noise>>
              \o Text(<<PrivateKey("root")>>) \o <<Cert("server", "middle")>>,
          Text(<<PrivateKey("root"), Cert("root", "root")>>) \o <<Begin("cert"), Cert("server", "middle")>>,
          Text(<<PrivateKey("root"), Cert("root", "root")>>) \o <<Begin("cert"), Cert("server", "middle"), End("key")>>,
          <<Cert("root", "root")>>}

\* Every text of up to five labels and pieces of data.
MCTexts == SeqOf({Begin("cert"), End("cert"), Begin("key"), End("key"), Dash, Cert("root", "root")}, 5)

Param(name, value) == [name |-> name, value |-> value]

\* ASCII digits of 2, 65, LIMIT \div 2 + 1 and -1.
Two == <<50>>
SixtyFive == <<54, 53>>
Wrapping == <<49, 54, 51, 56, 53>>
MinusOne == <<45, 49>>
Name(length) == [i \in 1 .. length |-> 97]

\* A prefix that is too long for an id, too many zones, boards that wrap to four
\* zones, a negative number of boards, a form of which the first values count, and
\* three that are refused: a number that is none, no parameter, no hardware.
MCForms ==
    {<<Param("hardware_type", "ESP32"), Param("zone_count", Two), Param("zone_prefix", Name(15))>>,
     <<Param("zone_count", SixtyFive), Param("zone_prefix", Name(3)), Param("hardware_type", "ESP32"),
       Param("zone_count", Two), Param("hardware_type", "M1E1")>>,
     <<Param("hardware_type", "M1E1"), Param("e1_count", Wrapping)>>,
     <<Param("hardware_type", "M1E1"), Param("e1_count", MinusOne)>>,
     <<Param("hardware_type", "M1E1"), Param("e1_count", Name(1))>>,
     <<Param("hardware_type", "ESP32"), Param("zone_count", Two)>>,
     <<Param("hardware_type", "S2"), Param("zone_count", Two)>>}

\* Characters with a meaning, a digit of each kind, and what decodes to them.
MCBytes == {SPACE, PERCENT, AMPERSAND, PLUS, MINUS, EQUALS, 52, 65, 122, 233}

MCFields == {<<>>, <<97, EQUALS>>, <<AMPERSAND, SPACE>>, <<PERCENT, 52, 49, PLUS>>}

\* Nothing, no name, no value, two values, and escapes that are none.
MCJunk == {<<>>, <<EQUALS, 97>>, <<97>>, <<97, EQUALS, 97, EQUALS>>, <<97, EQUALS, PERCENT, 52, 122>>,
           <<PERCENT, PERCENT, EQUALS, 97>>}
=============================================================================
