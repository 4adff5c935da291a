---------------------------- MODULE Checks_proofs ----------------------------
(***************************************************************************)
(* Facts on lists of checks: the code returned is that of one of them, and *)
(* success means that none refused.  And on numbers: least elements,       *)
(* induction, and the sums of a list.                                      *)
(***************************************************************************)
EXTENDS Checks, SequenceTheorems, WellFoundedInduction, TLAPS

\* A set of natural numbers has a least element.
LEMMA LeastNat ==
    ASSUME NEW T \in SUBSET Nat, T # {}
    PROVE  \E k \in T : \A j \in T : k <= j
<1> DEFINE R == OpToRel(<, Nat)
<1>1. IsWellFoundedOn(R, Nat)
  BY NatLessThanWellFounded
<1>2. PICK k \in T : \A j \in T : ~ (<<j, k>> \in R)
  <2> HIDE DEF R
  <2> QED BY <1>1, WFMin
<1>3. ASSUME NEW j \in T PROVE k <= j
  <2>1. k \in Nat /\ j \in Nat
    OBVIOUS
  <2>2. ~ (<<j, k>> \in R)
    <3> HIDE DEF R
    <3> QED BY <1>2
  <2>3. j < k => <<j, k>> \in R
    BY <2>1 DEF OpToRel
  <2> HIDE DEF R
  <2> QED BY <2>1, <2>2, <2>3
<1> HIDE DEF R
<1> QED BY <1>2, <1>3

\* Induction over a set of numbers.
LEMMA Induct ==
    ASSUME NEW T, 0 \in T, \A k \in Nat : k \in T => k + 1 \in T
    PROVE  Nat \subseteq T
<1> DEFINE U == Nat \ T
<1> SUFFICES ASSUME U # {} PROVE FALSE
  OBVIOUS
<1>1. PICK k \in U : \A j \in U : k <= j
  <2>1. U \in SUBSET Nat
    OBVIOUS
  <2> HIDE DEF U
  <2> QED BY <2>1, LeastNat
<1>2. k \in Nat /\ k # 0 /\ k - 1 \in Nat
  BY <1>1
<1>3. k - 1 \in T
  BY <1>1, <1>2
<1>4. (k - 1) + 1 \in T /\ (k - 1) + 1 = k
  BY <1>2, <1>3
<1> QED BY <1>1, <1>4

\* Partial sums of a list exist: a recursive function that adds up sizes is one.
PartialSums(n, a, g, f) == f = [k \in 0 .. n |-> IF k = 0 THEN a ELSE f[k - 1] + g[k]]

LEMMA SumsExist ==
    ASSUME NEW n \in Nat, NEW a, NEW g
    PROVE  \E f : PartialSums(n, a, g, f)
<1> DEFINE Sums(m, f) == f = [k \in 0 .. m |-> IF k = 0 THEN a ELSE f[k - 1] + g[k]]
           T == {m \in Nat : ~ \E f : Sums(m, f)}
<1>1. T = {}
  <2> SUFFICES ASSUME T # {} PROVE FALSE
    OBVIOUS
  <2>1. PICK m \in T : \A j \in T : m <= j
    <3>1. T \in SUBSET Nat
      OBVIOUS
    <3> HIDE DEF T
    <3> QED BY <3>1, LeastNat
  <2>2. CASE m = 0
    <3>1. Sums(0, [k \in 0 .. 0 |-> a])
      OBVIOUS
    <3> QED BY <2>1, <2>2, <3>1
  <2>3. CASE m # 0
    <3>1. m \in Nat /\ m - 1 \in Nat /\ m - 1 \notin T
      BY <2>1, <2>3
    <3>2. PICK f : Sums(m - 1, f)
      BY <3>1
    <3> DEFINE h == [k \in 0 .. m |-> IF k = m THEN f[m - 1] + g[m] ELSE f[k]]
    <3>3. ASSUME NEW k \in 0 .. m
          PROVE  h[k] = IF k = 0 THEN a ELSE h[k - 1] + g[k]
      <4>1. CASE k = m
        <5>1. m - 1 \in 0 .. m /\ m - 1 # m /\ m # 0
          BY <3>1, <2>3
        <5>2. h[m - 1] = f[m - 1]
          BY <5>1
        <5> QED BY <4>1, <5>1, <5>2
      <4>2. CASE k # m
        <5>1. k \in 0 .. (m - 1) /\ k # m
          BY <4>2, <3>1
        <5>2. h[k] = f[k]
          BY <5>1
        <5>3. f[k] = IF k = 0 THEN a ELSE f[k - 1] + g[k]
          BY <3>2, <5>1
        <5>4. k # 0 => h[k - 1] = f[k - 1]
          BY <3>1, <5>1
        <5> QED BY <5>2, <5>3, <5>4
      <4> QED BY <4>1, <4>2
    <3>4. Sums(m, h)
      <4>1. h = [k \in 0 .. m |-> h[k]]
        OBVIOUS
      <4> HIDE DEF h
      <4>2. [k \in 0 .. m |-> h[k]] = [k \in 0 .. m |-> IF k = 0 THEN a ELSE h[k - 1] + g[k]]
        BY <3>3
      <4> QED BY <4>1, <4>2
    <3> QED BY <2>1, <3>4
  <2> QED BY <2>2, <2>3
<1> QED BY <1>1 DEF PartialSums

\* The set First chooses from has one member.
LEMMA FirstIsRefusal ==
    ASSUME NEW codes
    PROVE  First(codes) = FirstRefusal(codes)
<1>1. {FirstRefusal(list) : list \in {codes}} = {FirstRefusal(codes)}
  OBVIOUS
<1> QED BY <1>1 DEF First

AllOk(codes) == \A k \in 1 .. Len(codes) : codes[k] = "ok"

\* The first refusal is one of the codes, and there is none only if no check
\* refused.
LEMMA FirstOf ==
    ASSUME NEW S, NEW codes \in Seq(S)
    PROVE  /\ First(codes) \in S \cup {"ok"}
           /\ First(codes) = "ok" => AllOk(codes)
<1> DEFINE bad == {k \in 1 .. Len(codes) : codes[k] # "ok"}
           least == CHOOSE k \in bad : \A j \in bad : k <= j
<1>1. CASE bad = {}
  BY <1>1, FirstIsRefusal DEF FirstRefusal, AllOk
<1>2. CASE bad # {}
  <2>1. \E k \in bad : \A j \in bad : k <= j
    <3>1. bad \in SUBSET Nat
      OBVIOUS
    <3> HIDE DEF bad
    <3> QED BY <1>2, <3>1, LeastNat
  <2>2. least \in bad
    BY <2>1
  <2>3. First(codes) = codes[least]
    BY <1>2, FirstIsRefusal DEF FirstRefusal
  <2> HIDE DEF least
  <2> QED BY <2>2, <2>3, ElementOfSeq
<1> QED BY <1>1, <1>2

\* One check.
LEMMA FailsOf ==
    ASSUME NEW cond, NEW code
    PROVE  /\ Fails(cond, code) \in {"ok", code}
           /\ code # "ok" /\ Fails(cond, code) = "ok" => ~ cond
BY DEF Fails

\* Of a list of known length, all checks passed if the list did.
LEMMA AllPass ==
    ASSUME NEW codes, Len(codes) \in Nat, First(codes) = "ok"
    PROVE  \A k \in 1 .. Len(codes) : codes[k] = "ok"
<1> DEFINE bad == {k \in 1 .. Len(codes) : codes[k] # "ok"}
           least == CHOOSE k \in bad : \A j \in bad : k <= j
<1>1. CASE bad = {}
  BY <1>1
<1>2. CASE bad # {}
  <2>1. bad \in SUBSET Nat
    OBVIOUS
  <2>2. \E k \in bad : \A j \in bad : k <= j
    <3> HIDE DEF bad
    <3> QED BY <1>2, <2>1, LeastNat
  <2>3. least \in bad
    <3> HIDE DEF bad
    <3> QED BY <2>2
  <2>4. First(codes) = codes[least]
    BY <1>2, FirstIsRefusal DEF FirstRefusal
  <2>5. codes[least] # "ok"
    <3> HIDE DEF least
    <3> QED BY <2>3
  <2> HIDE DEF least
  <2> QED BY <2>4, <2>5
<1> QED BY <1>1, <1>2

\* Lists written out.
LEMMA PairOf ==
    ASSUME NEW a, NEW b
    PROVE  /\ First(<<a, b>>) \in {"ok", a, b}
           /\ First(<<a, b>>) = "ok" => a = "ok" /\ b = "ok"
<1> DEFINE s == <<a, b>>
           S == {a, b}
<1>1. /\ s \in Seq(S) /\ Len(s) = 2
      /\ s[1] = a /\ s[2] = b
  OBVIOUS
<1>2. \A x \in S \cup {"ok"} : x \in {"ok", a, b}
  OBVIOUS
<1> HIDE DEF s, S
<1>3. First(s) \in S \cup {"ok"} /\ (First(s) = "ok" => AllOk(s))
  BY <1>1, FirstOf
<1>4. AllOk(s) => s[1] = "ok" /\ s[2] = "ok"
  BY <1>1 DEF AllOk
<1> QED BY <1>1, <1>2, <1>3, <1>4 DEF s

LEMMA TripleOf ==
    ASSUME NEW a, NEW b, NEW c
    PROVE  /\ First(<<a, b, c>>) \in {"ok", a, b, c}
           /\ First(<<a, b, c>>) = "ok" => a = "ok" /\ b = "ok" /\ c = "ok"
<1> DEFINE s == <<a, b, c>>
           S == {a, b, c}
<1>1. /\ s \in Seq(S) /\ Len(s) = 3
      /\ s[1] = a /\ s[2] = b /\ s[3] = c
  OBVIOUS
<1>2. \A x \in S \cup {"ok"} : x \in {"ok", a, b, c}
  OBVIOUS
<1> HIDE DEF s, S
<1>3. First(s) \in S \cup {"ok"} /\ (First(s) = "ok" => AllOk(s))
  BY <1>1, FirstOf
<1>4. AllOk(s) => s[1] = "ok" /\ s[2] = "ok" /\ s[3] = "ok"
  BY <1>1 DEF AllOk
<1> QED BY <1>1, <1>2, <1>3, <1>4 DEF s

LEMMA FourOf ==
    ASSUME NEW a, NEW b, NEW c, NEW d
    PROVE  /\ First(<<a, b, c, d>>) \in {"ok", a, b, c, d}
           /\ First(<<a, b, c, d>>) = "ok" => a = "ok" /\ b = "ok" /\ c = "ok" /\ d = "ok"
<1> DEFINE s == <<a, b, c, d>>
           S == {a, b, c, d}
<1>1. /\ s \in Seq(S) /\ Len(s) = 4
      /\ s[1] = a /\ s[2] = b /\ s[3] = c /\ s[4] = d
  OBVIOUS
<1>2. \A x \in S \cup {"ok"} : x \in {"ok", a, b, c, d}
  OBVIOUS
<1> HIDE DEF s, S
<1>3. First(s) \in S \cup {"ok"} /\ (First(s) = "ok" => AllOk(s))
  BY <1>1, FirstOf
<1>4. AllOk(s) => s[1] = "ok" /\ s[2] = "ok" /\ s[3] = "ok" /\ s[4] = "ok"
  BY <1>1 DEF AllOk
<1> QED BY <1>1, <1>2, <1>3, <1>4 DEF s

LEMMA FiveOf ==
    ASSUME NEW a, NEW b, NEW c, NEW d, NEW e
    PROVE  /\ First(<<a, b, c, d, e>>) \in {"ok", a, b, c, d, e}
           /\ First(<<a, b, c, d, e>>) = "ok" => a = "ok" /\ b = "ok" /\ c = "ok" /\ d = "ok" /\ e = "ok"
<1> DEFINE s == <<a, b, c, d, e>>
           S == {a, b, c, d, e}
<1>1. /\ s \in Seq(S) /\ Len(s) = 5
      /\ s[1] = a /\ s[2] = b /\ s[3] = c /\ s[4] = d /\ s[5] = e
  OBVIOUS
<1>2. \A x \in S \cup {"ok"} : x \in {"ok", a, b, c, d, e}
  OBVIOUS
<1> HIDE DEF s, S
<1>3. First(s) \in S \cup {"ok"} /\ (First(s) = "ok" => AllOk(s))
  BY <1>1, FirstOf
<1>4. AllOk(s) => s[1] = "ok" /\ s[2] = "ok" /\ s[3] = "ok" /\ s[4] = "ok" /\ s[5] = "ok"
  BY <1>1 DEF AllOk
<1> QED BY <1>1, <1>2, <1>3, <1>4 DEF s

LEMMA SevenOf ==
    ASSUME NEW a1, NEW a2, NEW a3, NEW a4, NEW a5, NEW a6, NEW a7,
           First(<<a1, a2, a3, a4, a5, a6, a7>>) = "ok"
    PROVE  a1 = "ok" /\ a2 = "ok" /\ a3 = "ok" /\ a4 = "ok" /\ a5 = "ok" /\ a6 = "ok" /\ a7 = "ok"
<1> DEFINE s == <<a1, a2, a3, a4, a5, a6, a7>>
<1>1. /\ Len(s) = 7
      /\ s[1] = a1 /\ s[2] = a2 /\ s[3] = a3 /\ s[4] = a4 /\ s[5] = a5 /\ s[6] = a6 /\ s[7] = a7
  OBVIOUS
<1>2. First(s) = "ok"
  OBVIOUS
<1> HIDE DEF s
<1>3. \A k \in 1 .. 7 : s[k] = "ok"
  BY <1>1, <1>2, AllPass
<1> QED BY <1>1, <1>3

-----------------------------------------------------------------------------
(* A list of checks passes just when each of them does.                    *)

LEMMA NoRefusal ==
    ASSUME NEW codes, \A k \in 1 .. Len(codes) : codes[k] = "ok"
    PROVE  First(codes) = "ok"
<1>1. {k \in 1 .. Len(codes) : codes[k] # "ok"} = {}
  OBVIOUS
<1> QED BY <1>1, FirstIsRefusal DEF FirstRefusal

LEMMA OneIff ==
    ASSUME NEW a
    PROVE  First(<<a>>) = "ok" <=> a = "ok"
<1> DEFINE s == <<a>>
<1>1. Len(s) = 1 /\ s[1] = a
  OBVIOUS
<1> HIDE DEF s
<1>2. a = "ok" => \A k \in 1 .. Len(s) : s[k] = "ok"
  BY <1>1
<1>3. First(s) = "ok" => \A k \in 1 .. Len(s) : s[k] = "ok"
  BY <1>1, AllPass
<1>4. First(s) = "ok" <=> a = "ok"
  BY <1>1, <1>2, <1>3, NoRefusal
<1> QED BY <1>4 DEF s

LEMMA PairIff ==
    ASSUME NEW a, NEW b
    PROVE  First(<<a, b>>) = "ok" <=> a = "ok" /\ b = "ok"
<1> DEFINE s == <<a, b>>
<1>1. Len(s) = 2 /\ s[1] = a /\ s[2] = b
  OBVIOUS
<1> HIDE DEF s
<1>2. a = "ok" /\ b = "ok" => \A k \in 1 .. Len(s) : s[k] = "ok"
  BY <1>1
<1>3. a = "ok" /\ b = "ok" => First(s) = "ok"
  BY <1>2, NoRefusal
<1> QED BY <1>3, PairOf DEF s

LEMMA TripleIff ==
    ASSUME NEW a, NEW b, NEW c
    PROVE  First(<<a, b, c>>) = "ok" <=> a = "ok" /\ b = "ok" /\ c = "ok"
<1> DEFINE s == <<a, b, c>>
<1>1. Len(s) = 3 /\ s[1] = a /\ s[2] = b /\ s[3] = c
  OBVIOUS
<1> HIDE DEF s
<1>2. a = "ok" /\ b = "ok" /\ c = "ok" => \A k \in 1 .. Len(s) : s[k] = "ok"
  BY <1>1
<1>3. a = "ok" /\ b = "ok" /\ c = "ok" => First(s) = "ok"
  BY <1>2, NoRefusal
<1> QED BY <1>3, TripleOf DEF s

LEMMA FourIff ==
    ASSUME NEW a, NEW b, NEW c, NEW d
    PROVE  First(<<a, b, c, d>>) = "ok" <=> a = "ok" /\ b = "ok" /\ c = "ok" /\ d = "ok"
<1> DEFINE s == <<a, b, c, d>>
<1>1. Len(s) = 4 /\ s[1] = a /\ s[2] = b /\ s[3] = c /\ s[4] = d
  OBVIOUS
<1> HIDE DEF s
<1>2. a = "ok" /\ b = "ok" /\ c = "ok" /\ d = "ok" => \A k \in 1 .. Len(s) : s[k] = "ok"
  BY <1>1
<1>3. a = "ok" /\ b = "ok" /\ c = "ok" /\ d = "ok" => First(s) = "ok"
  BY <1>2, NoRefusal
<1> QED BY <1>3, FourOf DEF s

LEMMA FiveIff ==
    ASSUME NEW a, NEW b, NEW c, NEW d, NEW e
    PROVE  First(<<a, b, c, d, e>>) = "ok" <=>
              a = "ok" /\ b = "ok" /\ c = "ok" /\ d = "ok" /\ e = "ok"
<1> DEFINE s == <<a, b, c, d, e>>
<1>1. Len(s) = 5 /\ s[1] = a /\ s[2] = b /\ s[3] = c /\ s[4] = d /\ s[5] = e
  OBVIOUS
<1> HIDE DEF s
<1>2. a = "ok" /\ b = "ok" /\ c = "ok" /\ d = "ok" /\ e = "ok" =>
         \A k \in 1 .. Len(s) : s[k] = "ok"
  BY <1>1
<1>3. a = "ok" /\ b = "ok" /\ c = "ok" /\ d = "ok" /\ e = "ok" => First(s) = "ok"
  BY <1>2, NoRefusal
<1> QED BY <1>3, FiveOf DEF s

LEMMA SevenIff ==
    ASSUME NEW a1, NEW a2, NEW a3, NEW a4, NEW a5, NEW a6, NEW a7
    PROVE  First(<<a1, a2, a3, a4, a5, a6, a7>>) = "ok" <=>
              /\ a1 = "ok" /\ a2 = "ok" /\ a3 = "ok" /\ a4 = "ok"
              /\ a5 = "ok" /\ a6 = "ok" /\ a7 = "ok"
<1> DEFINE s == <<a1, a2, a3, a4, a5, a6, a7>>
           all == /\ a1 = "ok" /\ a2 = "ok" /\ a3 = "ok" /\ a4 = "ok"
                  /\ a5 = "ok" /\ a6 = "ok" /\ a7 = "ok"
<1>1. /\ Len(s) = 7
      /\ s[1] = a1 /\ s[2] = a2 /\ s[3] = a3 /\ s[4] = a4 /\ s[5] = a5 /\ s[6] = a6 /\ s[7] = a7
  OBVIOUS
<1> HIDE DEF s
<1>2. all => \A k \in 1 .. Len(s) : s[k] = "ok"
  BY <1>1
<1>3. all => First(s) = "ok"
  BY <1>2, NoRefusal
<1> QED BY <1>3, SevenOf DEF s

\* One check for each member of a list.
LEMMA EachIff ==
    ASSUME NEW n \in Nat, NEW codes, codes = [i \in 1 .. n |-> codes[i]]
    PROVE  First(codes) = "ok" <=> \A i \in 1 .. n : codes[i] = "ok"
<1> DEFINE S == {codes[i] : i \in 1 .. n}
<1>1. codes \in [1 .. n -> S]
  OBVIOUS
<1> HIDE DEF S
<1>2. codes \in Seq(S)
  BY <1>1, SeqDef
<1>3. Len(codes) = n
  BY <1>1, <1>2, LenProperties
<1> QED BY <1>3, AllPass, NoRefusal

=============================================================================
