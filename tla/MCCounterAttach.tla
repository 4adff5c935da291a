--------------------------- MODULE MCCounterAttach ---------------------------
(***************************************************************************)
(* Header maps and lists of at most five, heads that grow after three, and *)
(* messages of every kind: well-formed ones that already carry             *)
(* countersignatures and malformed ones.                                   *)
(***************************************************************************)
EXTENDS CounterAttach, TLC
LOCAL INSTANCE SequencesExt

CONSTANTS k1, k2, k3

MCKeys     == {k1, k2, k3}
MCPin      == k1 :> "unset" @@ k2 :> "PS" @@ k3 :> "unset"
MCFit      == k1 :> {"ES"} @@ k2 :> {"PS"} @@ k3 :> {"ES"}
MCCanSign  == [k \in MCKeys |-> k # k3]
MCSigLen   == [ES |-> 1, PS |-> 4]
MCDetached == << <<"item", "detached">> >>
MCAad      == << <<"item", "aad">> >>

R(key, alg, kid, abbreviated) ==
    [key |-> key, alg |-> alg, kid |-> kid, abbreviated |-> abbreviated]

MCRequests == { R(k1, "ES", <<>>, FALSE), R(k1, "ES", <<"kid", "kid">>, FALSE),
                R(k2, "PS", <<"kid">>, FALSE), R(k1, "ES", <<>>, TRUE), R(k2, "PS", <<>>, TRUE),
                R(k2, "ES", <<>>, FALSE), R(k1, "PS", <<>>, TRUE), R(k3, "ES", <<>>, FALSE),
                R(k1, "LMS", <<>>, FALSE), R(k1, "none", <<>>, TRUE) }

-----------------------------------------------------------------------------
(* Messages.                                                               *)

Item(name)      == << <<"item", name>> >>
Body            == << <<"labels", {ALG}>> >>
Payload         == Item("x") \o Item("y")
List(values)    == HeadCells("array", Len(values)) \o FlattenSeq(values)
E(label, value) == << <<"label", label>> >> \o value
Map(entries)    == HeadCells("map", Len(entries)) \o FlattenSeq(entries)

Message(tag, body, map, detached, tail) ==
    << <<"tag", tag>> >> \o HeadCells("array", Fields(tag)) \o Bstr(body) \o map
    \o (IF detached THEN << <<"null", "">> >> ELSE Bstr(Payload)) \o tail

AfterPayload(tag) ==
    (IF tag \in WithOther THEN Bstr(Item("tag")) ELSE <<>>)
    \o (IF tag \in WithChildren
        THEN HeadCells("array", 2) \o << <<"child", 1>>, <<"child", 2>> >> ELSE <<>>)

\* What countersignatures made earlier, by this library or another, cover.
Target(tag, detached) == [body |-> Body,
                          payload |-> IF detached THEN DetachedPayload ELSE Payload,
                          other |-> IF tag \in WithOther THEN <<Item("tag")>> ELSE <<>>]

Counter(t, key, alg, legacy) ==
    EncodeFullCounter(alg, <<"kid">>, Sign(key, alg, Structure(t, ProtectedHdr(alg), FALSE, legacy)))

\* The algorithm is in its unprotected header.
Bare(t, key, alg) ==
    HeadCells("array", 3) \o Bstr(<<>>) \o Map(<<E(ALG, << <<"alg", alg>> >>)>>)
    \o Bstr(Sign(key, alg, Structure(t, <<>>, FALSE, FALSE)))

Counter0(t, key, alg, legacy) == Bstr(Sign(key, alg, Structure(t, <<>>, TRUE, legacy)))

Kid    == E(KID, Bstr(Item("kid")))
Opaque == E(97, HeadCells("map", 1) \o Item("a") \o HeadCells("array", 1) \o Bstr(Item("b")))
Extra  == E(98, Item("c"))

\* Well-formed unprotected headers.
Plain(t) == { <<>>, <<Kid>>, <<Kid, Opaque, Extra>>, <<Kid, Opaque, Extra, E(99, Item("d"))>>,
              <<E(FULL, Counter(t, k1, "ES", FALSE)), Opaque>> }

Rich(t) ==
    LET c1 == Counter(t, k1, "ES", FALSE)
        c2 == Counter(t, k2, "PS", FALSE)
    IN  { <<Kid, Opaque, Extra, E(99, Item("d")), E(96, Item("e"))>>,
          <<Extra, E(FULL, c2), Opaque>>,
          <<Kid, E(FULL, Bare(t, k2, "PS"))>>,
          <<E(FULL, List(<<c1, c2>>)), Opaque>>,
          <<Opaque, E(FULL, List(<<c1, Bare(t, k2, "PS"), c1>>)), Extra>>,
          <<E(FULL, List(<<c1, c2, c1, c2>>)), Extra>>,
          <<E(FULL, List(<<c1, c1, c1, c1, c1>>)), Extra>>,
          <<E(ABBR, Counter0(t, k2, "PS", FALSE)), Extra>>,
          <<E(ABBR, Counter0(t, k1, "ES", FALSE)), E(FULL, c1), Kid, Extra>>,
          <<E(LEGACY_FULL, Counter(t, k1, "ES", TRUE))>>,
          <<E(LEGACY_FULL, List(<<Counter(t, k1, "ES", TRUE), Counter(t, k2, "PS", TRUE)>>))>>,
          <<E(LEGACY_ABBR, Counter0(t, k1, "ES", TRUE))>>,
          <<E(LEGACY_ABBR, Counter0(t, k1, "ES", TRUE)), E(FULL, c1)>>,
          <<E(LEGACY_FULL, Counter(t, k1, "ES", TRUE)), E(FULL, c2),
            E(LEGACY_ABBR, Counter0(t, k1, "ES", TRUE))>> }

\* Malformed ones, or ones whose label 11 cannot be read.
Bad(t) ==
    LET c1 == Counter(t, k1, "ES", FALSE)
    IN  { <<E(CRIT, Item("c"))>>, <<Kid, Kid>>, <<E(ALG, << <<"alg", "ES">> >>)>>,
          <<E(KID, Item("kid"))>>, <<E(FULL, Bstr(Item("a")))>>, <<E(ABBR, c1)>>,
          <<Kid, Opaque, Extra, E(99, Item("d")), E(96, Item("e")), E(95, Item("f"))>>,
          <<E(FULL, List(<<>>))>>, <<E(FULL, List(<<c1, Item("a")>>))>>,
          <<E(FULL, List(<<c1, c1, c1, c1, c1, c1>>))>>,
          <<E(FULL, HeadCells("array", 4) \o Bstr(<<>>) \o Map(<<>>) \o Bstr(Item("s"))
                    \o Item("a"))>>,
          <<E(FULL, HeadCells("array", 3) \o Bstr(<<>>) \o Map(<<Kid, Kid>>) \o Bstr(Item("s")))>>,
          <<E(FULL, List(<<Item("a"), c1>>))>> }

MCMessages ==
    UNION {{Message(tag, Body, Map(es), FALSE, AfterPayload(tag)) :
                es \in Plain(Target(tag, FALSE))} : tag \in Tags}
    \cup UNION {{Message(tag, Body, Map(es), d, AfterPayload(tag)) :
                    es \in Plain(Target(tag, d)) \cup Rich(Target(tag, d))} :
                tag \in {"mac0", "sign"}, d \in {FALSE, TRUE}}
    \cup {Message("sign1", Body, Map(es), FALSE, AfterPayload("sign1")) :
              es \in Bad(Target("sign1", FALSE))}
    \cup { Message("sign1", Body, Map(<<>>), FALSE, AfterPayload("sign1") \o Item("z")),
           Message("sign1", <<>>, Map(<<>>), FALSE, AfterPayload("sign1")),
           Message("sign1", << <<"labels", {ALG, FULL}>> >>, Map(<<>>), FALSE, AfterPayload("sign1")),
           Message("sign", Body, Map(<<>>), FALSE, HeadCells("array", 0)),
           Message("sign", Body, Map(<<>>), FALSE, HeadCells("array", 1) \o Item("z")),
           Message("mac0", Body, Map(<<>>), FALSE, <<>>),
           Message("mac0", Body, HeadCells("map", 2) \o Kid, FALSE, <<>>),
           Message("other", Body, Map(<<>>), FALSE, <<>>),
           <<>> }

=============================================================================
