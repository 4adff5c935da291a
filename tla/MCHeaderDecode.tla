--------------------------- MODULE MCHeaderDecode ---------------------------
(***************************************************************************)
(* Maps of at most three entries, integers of seven and eight bits instead *)
(* of 32 and 64, and messages that meet every rule and break each one.     *)
(***************************************************************************)
EXTENDS HeaderDecode

L(n)    == <<"int", n>>
T(t)    == <<"text", t>>
I(n)    == <<"int", n>>
Bstr(b) == <<"bstr", b>>
Tstr    == <<"tstr", "t">>
Other   == <<"other", "">>
Bad     == <<"bad", "malformed">>
Crit(v) == <<"array", v>>
E(label, value) == [label |-> label, value |-> value]

Algs == {E(L(ALG), I(7)), E(L(ALG), I(-9)), E(L(ALG), Tstr)}

\* Entries any bucket may hold; 17 and -17 are the first labels without a
\* bit of their own.
Common == {E(L(KID), Bstr("k")), E(L(IV), Bstr("v")), E(L(PARTIAL_IV), Bstr("p")),
           E(L(CONTENT_TYPE), I(40)), E(L(CONTENT_TYPE), Tstr), E(L(17), Other),
           E(L(-17), Bstr("a")), E(L(-4), Bstr("ek")), E(T("a"), Other), E(T("b"), Bstr("b")),
           E(L(X5CHAIN), Bstr("x")), E(L(-1), Other), E(L(11), Other)} \cup Algs

\* Entries that break a rule wherever they are.
Wrong == {E(L(KID), Other), E(L(IV), Tstr), E(L(ALG), I(128)), E(L(ALG), I(-129)),
          E(L(ALG), I(300)), E(L(ALG), Other), E(L(CONTENT_TYPE), I(-1)),
          E(L(CONTENT_TYPE), I(128)), E(L(CONTENT_TYPE), Bstr("c")), E(L(99), Bad),
          E(L(ALG), Bad), E(L(CONTENT_TYPE), Bad), E(L(PARTIAL_IV), Bad),
          E(<<"bad", "overflow">>, Other), E(<<"bad", "type">>, Other),
          E(<<"bad", "malformed">>, Other), E(L(-4), Other), E(L(CRIT), I(1)),
          E(L(CRIT), Bad), E(L(CRIT), Crit(<<>>)), E(L(CRIT), Crit(<<Tstr>>)),
          E(L(CRIT), Crit(<<I(0)>>)), E(L(CRIT), Crit(<<I(1), I(7)>>)),
          E(L(CRIT), Crit(<<I(300)>>)), E(L(CRIT), Crit(<<Other>>)),
          E(L(CRIT), Crit(<<Bad>>)),
          E(L(CRIT), Crit(<<I(1), I(1), I(1), I(1)>>))}

Crits == {E(L(CRIT), Crit(<<I(n)>>)) : n \in 1 .. 5}
         \cup {E(L(CRIT), Crit(<<I(1), I(6)>>))}

Lists(S, n) == UNION {[1 .. k -> S] : k \in 0 .. n}

Open(entries)     == [code |-> "ok", entries |-> entries, trailing |-> FALSE]
Msg(p, u, ek)     == [protected |-> p, unprotected |-> u, wantEk |-> ek]

\* Up to two entries in each bucket; crit with what it names here or there; one wrong
\* entry; as many entries as fit and one more; maps that do not open, trailing bytes.
MCMessages == UNION {
    {Msg(Open(p), Open(u), FALSE) : p \in Lists(Common, 1), u \in Lists(Common, 2)},
    {Msg(Open(p), Open(u), TRUE) : p \in Lists(Common, 2), u \in Lists(Common, 1)},
    {Msg(Open(<<c>> \o p), Open(u), FALSE) :
              c \in Crits, p \in Lists(Common, 1), u \in Lists(Common, 1)},
    {Msg(Open(p \o <<c>>), Open(<<>>), FALSE) : c \in Crits, p \in Lists(Common, 2)},
    {Msg(Open(<<w>>), Open(<<>>), FALSE) : w \in Wrong},
    {Msg(Open(<<>>), Open(<<w>>), ek) : w \in Wrong \cup Crits, ek \in BOOLEAN},
    {Msg(Open(p), Open(u), FALSE) :
              p \in {[k \in 1 .. n |-> E(L(16 + k), Other)] : n \in 3 .. 4}
                    \cup {[k \in 1 .. 3 |-> E(T(<<"a", "b", "c">>[k]), Other)]},
              u \in {[k \in 1 .. n |-> E(L(-16 - k), Other)] : n \in 3 .. 4}
                    \cup {<<E(L(-20), Other), E(T("c"), Other)>>, <<E(L(19), Other)>>}},
    {Msg([Open(<<>>) EXCEPT !.code = c], Open(<<>>), FALSE) : c \in {"malformed", "type"}},
    {Msg(Open(<<>>), [Open(<<>>) EXCEPT !.code = c], FALSE) : c \in {"malformed", "type"}},
    {Msg([Open(<<E(L(ALG), I(7))>>) EXCEPT !.trailing = TRUE], Open(<<>>), FALSE)}}

MCPins      == {UNSET, 7, -9}
MCSupported == {7, -9}

=============================================================================
