---------------------------- MODULE EatPsa_proofs ----------------------------
(***************************************************************************)
(* For any keys, tokens, requests and limits: types, the answer to the     *)
(* challenge, what verifier, iterator and issuer leave behind, which maps  *)
(* of claims are accepted, and that an application is given what a holder  *)
(* of the key sealed.                                                      *)
(***************************************************************************)
EXTENDS EatPsa, Checks_proofs, FiniteSetTheorems

-----------------------------------------------------------------------------
(* What the lists of checks establish.                                     *)

LEMMA TheOne == ASSUME NEW x PROVE The({x}) = x
BY DEF The

LEMMA OnlyCheck == ASSUME NEW a, First(<<a>>) = "ok" PROVE a = "ok"
<1> DEFINE s == <<a>>
<1>1. Len(s) = 1 /\ s[1] = a /\ First(s) = "ok"
  OBVIOUS
<1> HIDE DEF s
<1> QED BY <1>1, AllPass

\* A message of either kind carries a payload.
LEMMA EnvelopeOk ==
    ASSUME NEW m, EnvelopeCode(m) = "ok"
    PROVE  m.payload # {}
<1> DEFINE d == Fails(m.payload = {}, "detached")
           s == <<Fails(m.tag = "none", "type"),
                  Fails(m.tag \notin {"sign1", "mac0"}, "tag"),
                  Fails(m.form \in {"array", "protected"}, "malformed"),
                  Fails(m.alg = "unset", "hdr"),
                  Fails(m.form = "unprotected", "malformed"),
                  Fails(m.x5chain, "unsupported"),
                  d,
                  Fails(m.form \in {"payload", "seal"}, "type"),
                  Fails(m.form = "trailing", "malformed")>>
<1>1. First(s) = "ok"
  BY Zenon DEF EnvelopeCode
<1> HIDE DEF d
<1>2. Len(s) = 9 /\ s[7] = d
  OBVIOUS
<1> HIDE DEF s
<1>3. d = "ok"
  <2>1. Len(s) \in Nat /\ 7 \in 1 .. Len(s)
    BY <1>2
  <2>2. \A k \in 1 .. Len(s) : s[k] = "ok"
    BY <1>1, <2>1, AllPass
  <2> QED BY <1>2, <2>1, <2>2
<1> QED BY <1>3 DEF d, Fails

\* A list of components is visitable: it has a first one.
LEMMA ComponentsOk ==
    ASSUME NEW v, ComponentsCode(v) = "ok"
    PROVE  Len(v.items) \in 1 .. MaxComponents
<1> DEFINE a == TypedCode(v, "array")
           b == Fails(Len(v.items) \notin 1 .. MaxComponents, "claim")
           c == First([i \in DOMAIN v.items |-> ComponentCode(v.items[i])])
<1>1. First(<<a, b, c>>) = "ok"
  BY DEF ComponentsCode
<1> HIDE DEF a, b, c
<1>2. b = "ok"
  BY <1>1, TripleOf
<1> QED BY <1>2 DEF b, Fails

LEMMA LifecycleOk ==
    ASSUME NEW v, v.num \in Int, NEW s, ValueCode(s, "lifecycle", v) = "ok"
    PROVE  v.num \in 0 .. LifecycleMax
<1> DEFINE a == UintCode(v)
           b == Fails(~ LifecycleValid(v.num), "claim")
<1>1. First(<<a, b>>) = "ok"
  BY DEF ValueCode
<1> HIDE DEF a, b
<1>2. a = "ok" /\ b = "ok"
  BY <1>1, PairOf
<1>3. v.num <= LifecycleMax
  BY <1>2 DEF b, Fails, LifecycleValid
<1> DEFINE c == TypedCode(v, "int")
           d == Fails(v.num < 0, "type")
<1>4. First(<<c, d>>) = "ok"
  BY <1>2 DEF a, UintCode
<1> HIDE DEF c, d
<1>5. d = "ok"
  BY <1>4, PairOf
<1>6. ~ (v.num < 0)
  BY <1>5 DEF d, Fails
<1>7. LifecycleMax \in Int
  BY DEF LifecycleMax
<1> QED BY <1>3, <1>6, <1>7

LEMMA ClientOk ==
    ASSUME NEW v, NEW s, ValueCode(s, "client", v) = "ok"
    PROVE  v.num \in -Int32Max - 1 .. Int32Max
<1> DEFINE a == TypedCode(v, "int")
           b == Fails(v.num \notin -Int32Max - 1 .. Int32Max \ {0}, "claim")
<1>1. First(<<a, b>>) = "ok"
  BY DEF ValueCode
<1> HIDE DEF a, b
<1>2. b = "ok"
  BY <1>1, PairOf
<1> QED BY <1>2 DEF b, Fails

\* A known claim is accepted in one namespace that is built in, and once.
LEMMA ClaimOk ==
    ASSUME NEW map, NEW i, NEW seen, NEW spaces, ClaimCode(map, i, seen, spaces) = "ok",
           ~ Extension(map.items[i].label)
    PROVE  LET label == map.items[i].label IN
           /\ SpaceOf(label) \in Namespaces /\ spaces \subseteq {SpaceOf(label)}
           /\ ClaimOf(label) \notin seen
           /\ ValueCode(SpaceOf(label), ClaimOf(label), map.items[i].val) = "ok"
           /\ SpaceOf(label) \in {"current", "old"}
           /\ ClaimOf(label) \in DOMAIN LabelIn(SpaceOf(label))
<1> DEFINE label == map.items[i].label
           val   == map.items[i].val
           x == SpacesCode(SpaceOf(label), spaces)
           y == Fails(ClaimOf(label) \in seen, "claim")
           z == ValueCode(SpaceOf(label), ClaimOf(label), val)
           a == LabelCode(label)
           b == Fails(HasPriorLabel(map.items, i), "claim")
           c == IF Extension(label) THEN SkipCode(val) ELSE First(<<x, y, z>>)
<1>1. First(<<a, b, c>>) = "ok"
  BY DEF ClaimCode
<1> HIDE DEF a, b, c, x, y, z
<1>2. c = "ok"
  BY <1>1, TripleOf
<1>3. First(<<x, y, z>>) = "ok"
  BY <1>2 DEF c
<1>4. x = "ok" /\ y = "ok" /\ z = "ok"
  BY <1>3, TripleOf
<1>5. Known(label)
  BY DEF Extension
<1>6. SpaceOf(label) \in {"current", "old"} /\ IsClaim(label, SpaceOf(label))
  BY <1>5 DEF Known, SpaceOf
<1>7. ClaimOf(label) \in DOMAIN LabelIn(SpaceOf(label))
  <2> DEFINE sp == SpaceOf(label)
  <2> HIDE DEF sp
  <2>1. PICK d \in DOMAIN LabelIn(sp) : label = [type |-> "int", val |-> LabelIn(sp)[d]]
    BY <1>6 DEF IsClaim, sp
  <2>2. LabelIn(sp)[d] = label.val
    BY <2>1
  <2>3. ClaimOf(label) = CHOOSE e \in DOMAIN LabelIn(sp) : LabelIn(sp)[e] = label.val
    BY DEF ClaimOf, sp
  <2> QED BY <2>1, <2>2, <2>3 DEF sp
<1>8. SpaceOf(label) \in Namespaces /\ spaces \subseteq {SpaceOf(label)}
  BY <1>4 DEF x, SpacesCode, Fails
<1>9. ClaimOf(label) \notin seen
  BY <1>4 DEF y, Fails
<1> HIDE DEF label, val
<1>10. ValueCode(SpaceOf(label), ClaimOf(label), val) = "ok"
  BY <1>4 DEF z
<1> QED BY <1>6, <1>7, <1>8, <1>9, <1>10 DEF label, val

\* At the end of the claims there is one namespace; in the old one a token
\* has either components or the mark that there are none.
LEMMA EndOk ==
    ASSUME NEW p, NEW seen, NEW spaces, NEW t, EndCode(p, seen, spaces, t) = "ok"
    PROVE  /\ Cardinality(spaces) = 1
           /\ spaces = {"old"} => ~ ("components" \in seen <=> "unmeasured" \in seen)
<1> DEFINE a1 == Fails(p.form = "trailing", "claim")
           a2 == Fails(Cardinality(spaces) # 1, "profile")
           only == IF spaces = {} THEN "ok" ELSE SpaceCode(The(spaces), seen, t)
           a3 == First(<<only>>)
           a4 == Fails(LenOf(t.nonce) \notin HashLengths, "claim")
           a5 == Fails(\A u \in t.ueid : u.len # 33 \/ u.form # "random", "claim")
           a6 == Fails(LenOf(t.impl) # 32, "claim")
           a7 == IF spaces = {} THEN "ok"
                 ELSE First(<<SeedCode(The(spaces), t),
                         Fails(\E c \in t.cert : c.form # CertForm[The(spaces)], "claim")>>)
<1>1. First(<<a1, a2, a3, a4, a5, a6, a7>>) = "ok"
  BY Zenon DEF EndCode
<1> HIDE DEF a1, a2, a3, a4, a5, a6, a7
<1>2. a2 = "ok" /\ a3 = "ok"
  BY <1>1, SevenOf
<1>3. Cardinality(spaces) = 1
  BY <1>2 DEF a2, Fails
<1>4. ASSUME spaces = {"old"} PROVE ~ ("components" \in seen <=> "unmeasured" \in seen)
  <2> HIDE DEF only
  <2>1. only = "ok"
    BY <1>2, OnlyCheck DEF a3
  <2>2. SpaceCode("old", seen, t) = "ok"
    BY <1>4, <2>1, TheOne DEF only
  <2> DEFINE x == Fails(~ Required("old") \subseteq seen, "claim")
             y == Fails("old" = "old" /\ ("components" \in seen <=> "unmeasured" \in seen), "claim")
             z == Fails(t.profile # "old" /\ ~ ("old" = "old" /\ t.profile = "none"), "profile")
  <2>3. First(<<x, y, z>>) = "ok"
    BY <2>2 DEF SpaceCode
  <2> HIDE DEF x, y, z
  <2>4. y = "ok"
    BY <2>3, TripleOf
  <2> QED BY <2>4 DEF y, Fails
<1> QED BY <1>3, <1>4

-----------------------------------------------------------------------------
(* The checks of values, exactly.                                          *)

LEMMA TypedExact ==
    ASSUME NEW v, NEW type, type # "bad"
    PROVE  TypedCode(v, type) = "ok" <=> v.type = type
<1> DEFINE a == SkipCode(v)
           b == Fails(v.type # type, "type")
<1>1. (a = "ok" <=> v.type # "bad") /\ (b = "ok" <=> v.type = type)
  BY DEF SkipCode, Fails
<1> HIDE DEF a, b
<1>2. First(<<a, b>>) = "ok" <=> a = "ok" /\ b = "ok"
  BY PairIff
<1> QED BY <1>1, <1>2 DEF TypedCode, a, b

LEMMA UintExact ==
    ASSUME NEW v, v.num \in Int
    PROVE  UintCode(v) = "ok" <=> v.type = "int" /\ v.num >= 0
<1> DEFINE a == TypedCode(v, "int")
           b == Fails(v.num < 0, "type")
<1>1. (a = "ok" <=> v.type = "int") /\ (b = "ok" <=> v.num >= 0)
  BY TypedExact DEF Fails
<1> HIDE DEF a, b
<1>2. First(<<a, b>>) = "ok" <=> a = "ok" /\ b = "ok"
  BY PairIff
<1> QED BY <1>1, <1>2 DEF UintCode, a, b

\* A pair of a component that neither repeats a label nor breaks its form.
LEMMA PartExact ==
    ASSUME NEW part
    PROVE  PartCode(part) = "ok" <=>
              IF IsPart(part.label) THEN part.val.type = ComponentType[part.label.val]
              ELSE part.val.type # "bad"
<1>1. CASE IsPart(part.label)
  <2> DEFINE type == ComponentType[part.label.val]
  <2>1. type \in {"bstr", "tstr"}
    BY <1>1 DEF IsPart, ComponentType
  <2> HIDE DEF type
  <2>2. TypedCode(part.val, type) = "ok" <=> part.val.type = type
    BY <2>1, TypedExact
  <2> QED BY <1>1, <2>2 DEF PartCode, type
<1>2. CASE ~ IsPart(part.label)
  BY <1>2 DEF PartCode, SkipCode, Fails
<1> QED BY <1>1, <1>2

\* HasPriorLabel at every place of a list says that no label comes twice.
LEMMA DistinctExact ==
    ASSUME NEW items, IsArray(items)
    PROVE  Distinct(items) <=> \A i \in DOMAIN items : ~ HasPriorLabel(items, i)
<1>1. DOMAIN items = 1 .. Len(items) /\ Len(items) \in Nat
  BY DEF IsArray
<1>2. ASSUME Distinct(items), NEW i \in DOMAIN items PROVE ~ HasPriorLabel(items, i)
  BY <1>1, <1>2 DEF Distinct, HasPriorLabel
<1>3. ASSUME \A i \in DOMAIN items : ~ HasPriorLabel(items, i),
             NEW i \in DOMAIN items, NEW j \in DOMAIN items, items[i].label = items[j].label
      PROVE  i = j
  <2>1. i \in Int /\ j \in Int
    BY <1>1
  <2>2. ~ (i < j) /\ ~ (j < i)
    BY <1>1, <1>3 DEF HasPriorLabel
  <2> QED BY <2>1, <2>2
<1> QED BY <1>2, <1>3 DEF Distinct

LEMMA PairsExact ==
    ASSUME NEW c, IsArray(c.items), IsPairs(c.items)
    PROVE  ComponentCode(c) = "ok" <=> WellFormedComponent(c)
<1> DEFINE n == Len(c.items)
           pair(i) == First(<<LabelCode(c.items[i].label),
                              Fails(HasPriorLabel(c.items, i), "claim"),
                              PartCode(c.items[i])>>)
           codes == [i \in DOMAIN c.items |-> pair(i)]
           w == TypedCode(c, "map")
           x == Fails(n > MaxComponentClaims, "claim")
           y == First(codes)
           z == Fails(~ HasHash(c.items, 2) \/ ~ HasHash(c.items, 5), "claim")
           Good(i) == /\ c.items[i].label.type \in {"int", "text"}
                      /\ IF IsPart(c.items[i].label)
                         THEN c.items[i].val.type = ComponentType[c.items[i].label.val]
                         ELSE c.items[i].val.type # "bad"
<1>1. n \in Nat /\ DOMAIN c.items = 1 .. n /\ MaxComponentClaims \in Nat
  BY LimitsAssumption DEF IsArray
<1>2. w = "ok" <=> c.type = "map"
  BY TypedExact
<1>3. x = "ok" <=> n <= MaxComponentClaims
  BY <1>1 DEF Fails
<1>4. \A i \in 1 .. n : pair(i) = "ok" <=> Good(i) /\ ~ HasPriorLabel(c.items, i)
  <2> SUFFICES ASSUME NEW i \in 1 .. n
               PROVE  pair(i) = "ok" <=> Good(i) /\ ~ HasPriorLabel(c.items, i)
    OBVIOUS
  <2> DEFINE d == LabelCode(c.items[i].label)
             e == Fails(HasPriorLabel(c.items, i), "claim")
             f == PartCode(c.items[i])
  <2>1. d = "ok" <=> c.items[i].label.type \in {"int", "text"}
    BY DEF LabelCode, Fails
  <2>2. e = "ok" <=> ~ HasPriorLabel(c.items, i)
    BY DEF Fails
  <2>3. f = "ok" <=> IF IsPart(c.items[i].label)
                     THEN c.items[i].val.type = ComponentType[c.items[i].label.val]
                     ELSE c.items[i].val.type # "bad"
    BY PartExact
  <2>4. pair(i) = "ok" <=> d = "ok" /\ e = "ok" /\ f = "ok"
    <3> HIDE DEF d, e, f
    <3>1. First(<<d, e, f>>) = "ok" <=> d = "ok" /\ e = "ok" /\ f = "ok"
      BY TripleIff
    <3> QED BY <3>1 DEF d, e, f
  <2> QED BY <2>1, <2>2, <2>3, <2>4
<1>5. y = "ok" <=> \A i \in 1 .. n : pair(i) = "ok"
  <2> HIDE DEF pair
  <2>1. codes = [i \in 1 .. n |-> codes[i]] /\ \A i \in 1 .. n : codes[i] = pair(i)
    BY <1>1
  <2> HIDE DEF codes, n
  <2> QED BY <1>1, <2>1, EachIff
<1>6. Distinct(c.items) <=> \A i \in 1 .. n : ~ HasPriorLabel(c.items, i)
  BY <1>1, DistinctExact
<1>7. y = "ok" <=> (\A i \in 1 .. n : Good(i)) /\ Distinct(c.items)
  <2> HIDE DEF y, pair, Good
  <2> QED BY <1>4, <1>5, <1>6
<1> DEFINE Part(m) == {c.items[i].val : i \in {j \in DOMAIN c.items : c.items[j].label = IntLabel(m)}}
           typed == /\ \A i \in DOMAIN c.items : /\ c.items[i].label.type \in {"int", "text"}
                                                /\ c.items[i].val.type # "bad"
                    /\ \A m \in {1, 4, 6} : \A v \in Part(m) : v.type = "tstr"
           hashed == \A m \in {2, 5} : \E v \in Part(m) : v.type = "bstr" /\ v.len \in HashLengths
<1>8. z = "ok" <=> HasHash(c.items, 2) /\ HasHash(c.items, 5)
  BY DEF Fails
<1>9. ComponentCode(c) = "ok" <=> w = "ok" /\ x = "ok" /\ y = "ok" /\ z = "ok"
  <2>1. ComponentCode(c) = First(<<w, x, y, z>>)
    BY Zenon DEF ComponentCode
  <2> HIDE DEF w, x, y, z
  <2>2. First(<<w, x, y, z>>) = "ok" <=> w = "ok" /\ x = "ok" /\ y = "ok" /\ z = "ok"
    BY FourIff
  <2> QED BY <2>1, <2>2
<1>10. WellFormedComponent(c) <=> c.type = "map" /\ n <= MaxComponentClaims /\ Distinct(c.items) /\ typed /\ hashed
  BY DEF WellFormedComponent
<1>11. ASSUME \A i \in 1 .. n : Good(i) PROVE typed
  <2>1. ASSUME NEW i \in DOMAIN c.items PROVE c.items[i].val.type # "bad"
    BY <1>1, <1>11 DEF IsPart, ComponentType
  <2>2. ASSUME NEW m \in {1, 4, 6}, NEW i \in DOMAIN c.items, c.items[i].label = IntLabel(m)
        PROVE  c.items[i].val.type = "tstr"
    <3>1. IsPart(c.items[i].label) /\ c.items[i].label.val = m
      BY <2>2 DEF IsPart, IntLabel, ComponentType
    <3>2. c.items[i].val.type = ComponentType[m]
      BY <1>1, <1>11, <3>1
    <3> HIDE DEF typed, hashed, Good
    <3> QED BY <3>2, <2>2 DEF ComponentType
  <2> QED BY <1>1, <1>11, <2>1, <2>2
<1>12. ASSUME \A i \in 1 .. n : Good(i)
       PROVE  hashed <=> HasHash(c.items, 2) /\ HasHash(c.items, 5)
  <2>1. ASSUME NEW m \in {2, 5}, NEW i \in DOMAIN c.items, c.items[i].label = IntLabel(m)
        PROVE  c.items[i].val.type = "bstr"
    <3>1. IsPart(c.items[i].label) /\ c.items[i].label.val = m
      BY <2>1 DEF IsPart, IntLabel, ComponentType
    <3> QED BY <1>1, <1>12, <3>1 DEF ComponentType
  <2>2. ASSUME NEW m \in {2, 5}
        PROVE  HasHash(c.items, m) <=> \E v \in Part(m) : v.type = "bstr" /\ v.len \in HashLengths
    BY <2>1, <2>2 DEF HasHash, IntLabel
  <2> QED BY <2>2
<1>13. ASSUME typed, hashed, Distinct(c.items) PROVE \A i \in 1 .. n : Good(i)
  <2> SUFFICES ASSUME NEW i \in 1 .. n PROVE Good(i)
    OBVIOUS
  <2>1. c.items[i].label.type \in {"int", "text"} /\ c.items[i].val.type # "bad"
    BY <1>1, <1>13
  <2>2. ASSUME IsPart(c.items[i].label)
        PROVE  c.items[i].val.type = ComponentType[c.items[i].label.val]
    <3> DEFINE m == c.items[i].label.val
    <3>1. c.items[i].label = IntLabel(m) /\ m \in {1, 2, 4, 5, 6}
      BY <1>1, <2>2 DEF IsPart, ComponentType, IsPairs, IntLabel
    <3>2. CASE m \in {1, 4, 6}
      <4>1. c.items[i].val.type = "tstr"
        BY <1>1, <1>13, <3>1, <3>2
      <4> QED BY <3>2, <4>1 DEF ComponentType
    <3>3. CASE m \in {2, 5}
      <4>1. PICK j \in DOMAIN c.items : c.items[j].label = IntLabel(m) /\ c.items[j].val.type = "bstr"
        BY <1>13, <3>3
      <4>2. i = j
        BY <1>1, <1>13, <3>1, <4>1 DEF Distinct
      <4> QED BY <3>3, <4>1, <4>2 DEF ComponentType
    <3> QED BY <3>1, <3>2, <3>3
  <2> QED BY <2>1, <2>2
<1> HIDE DEF w, x, y, z, typed, hashed, Good, n
<1> QED BY <1>2, <1>3, <1>7, <1>8, <1>9, <1>10, <1>11, <1>12, <1>13

LEMMA ComponentExact ==
    ASSUME NEW c, c.type = "map" => IsArray(c.items) /\ IsPairs(c.items)
    PROVE  ComponentCode(c) = "ok" <=> WellFormedComponent(c)
<1>1. CASE c.type = "map"
  BY <1>1, PairsExact
<1>2. CASE c.type # "map"
  <2> DEFINE w == TypedCode(c, "map")
             x == Fails(Len(c.items) > MaxComponentClaims, "claim")
             y == First([i \in DOMAIN c.items |->
                         First(<<LabelCode(c.items[i].label),
                                 Fails(HasPriorLabel(c.items, i), "claim"),
                                 PartCode(c.items[i])>>)])
             z == Fails(~ HasHash(c.items, 2) \/ ~ HasHash(c.items, 5), "claim")
  <2>1. ComponentCode(c) = First(<<w, x, y, z>>)
    BY Zenon DEF ComponentCode
  <2>2. w # "ok"
    BY <1>2, TypedExact
  <2> HIDE DEF w, x, y, z
  <2>3. First(<<w, x, y, z>>) # "ok"
    BY <2>2, FourIff
  <2> QED BY <1>2, <2>1, <2>3 DEF WellFormedComponent
<1> QED BY <1>1, <1>2

LEMMA ComponentsExact ==
    ASSUME NEW v, IsValue(v), v.type = "array" => IsList(v)
    PROVE  ComponentsCode(v) = "ok" <=>
              /\ v.type = "array" /\ Len(v.items) \in 1 .. MaxComponents
              /\ \A i \in DOMAIN v.items : WellFormedComponent(v.items[i])
<1> DEFINE n == Len(v.items)
           a == TypedCode(v, "array")
           b == Fails(n \notin 1 .. MaxComponents, "claim")
           codes == [i \in DOMAIN v.items |-> ComponentCode(v.items[i])]
           c == First(codes)
<1>1. n \in Nat /\ DOMAIN v.items = 1 .. n
  BY DEF IsValue, IsArray
<1>2. (a = "ok" <=> v.type = "array") /\ (b = "ok" <=> n \in 1 .. MaxComponents)
  BY TypedExact DEF Fails
<1>3. v.type = "array" => (c = "ok" <=> \A i \in 1 .. n : WellFormedComponent(v.items[i]))
  <2> SUFFICES ASSUME v.type = "array"
               PROVE  c = "ok" <=> \A i \in 1 .. n : WellFormedComponent(v.items[i])
    OBVIOUS
  <2>1. codes = [i \in 1 .. n |-> codes[i]] /\ \A i \in 1 .. n : codes[i] = ComponentCode(v.items[i])
    BY <1>1
  <2>2. c = "ok" <=> \A i \in 1 .. n : codes[i] = "ok"
    <3> HIDE DEF codes, n
    <3> QED BY <1>1, <2>1, EachIff
  <2>3. \A i \in 1 .. n : ComponentCode(v.items[i]) = "ok" <=> WellFormedComponent(v.items[i])
    BY <1>1, ComponentExact DEF IsList
  <2> HIDE DEF codes, n
  <2> QED BY <2>1, <2>2, <2>3
<1>4. ComponentsCode(v) = "ok" <=> a = "ok" /\ b = "ok" /\ c = "ok"
  <2>1. ComponentsCode(v) = First(<<a, b, c>>)
    BY Zenon DEF ComponentsCode
  <2> HIDE DEF a, b, c
  <2> QED BY <2>1, TripleIff
<1> HIDE DEF a, b, c, n
<1> QED BY <1>1, <1>2, <1>3, <1>4 DEF n

-----------------------------------------------------------------------------
(* The values of claims.                                                   *)

\* What a claim asks of its value as it is read,
Fits(space, claim, v) ==
    CASE claim = "profile"    -> v.type = "tstr" /\ IF space = "current" THEN TfmFull /\ v.form = "tfm"
                                                    ELSE v.form = "iot1"
      [] claim = "client"     -> v.type = "int" /\ v.num \in -Int32Max - 1 .. Int32Max \ {0}
      [] claim = "lifecycle"  -> v.type = "int" /\ v.num >= 0 /\ LifecycleValid(v.num)
      [] claim = "components" -> /\ v.type = "array" /\ Len(v.items) \in 1 .. MaxComponents
                                 /\ \A i \in DOMAIN v.items : WellFormedComponent(v.items[i])
      [] claim = "unmeasured" -> v.type = "int" /\ v.num = 1
      [] OTHER                -> v.type = IF claim \in Texts THEN "tstr" ELSE "bstr"

\* and, once all of them are read.
Closes(space, claim, v) ==
    CASE claim = "nonce" -> v.len \in HashLengths
      [] claim = "ueid"  -> v.len = 33 /\ v.form = "random"
      [] claim = "impl"  -> v.len = 32
      [] claim = "seed"  -> v.len \in IF space = "current" THEN 8 .. 32 ELSE {32}
      [] claim = "cert"  -> v.form = CertForm[space]
      [] OTHER           -> TRUE

IsReadable(v) == IsValue(v) /\ (v.type = "array" => IsList(v))

LEMMA ValueExact ==
    ASSUME NEW space \in {"current", "old"}, NEW claim \in DOMAIN LabelIn(space),
           NEW v, IsReadable(v)
    PROVE  ValueCode(space, claim, v) = "ok" <=> Fits(space, claim, v)
<1>1. CASE claim = "profile"
  <2> DEFINE a == TypedCode(v, "tstr")
             b == ProfileCode(space, v)
  <2>1. a = "ok" <=> v.type = "tstr"
    BY TypedExact
  <2>2. b = "ok" <=> IF space = "current" THEN TfmFull /\ v.form = "tfm" ELSE v.form = "iot1"
    BY DEF ProfileCode, Fails
  <2>3. ValueCode(space, claim, v) = First(<<a, b>>)
    BY <1>1 DEF ValueCode
  <2> HIDE DEF a, b
  <2> QED BY <1>1, <2>1, <2>2, <2>3, PairIff DEF Fits
<1>2. CASE claim = "client"
  <2> DEFINE a == TypedCode(v, "int")
             b == Fails(v.num \notin -Int32Max - 1 .. Int32Max \ {0}, "claim")
  <2>1. a = "ok" <=> v.type = "int"
    BY TypedExact
  <2>2. b = "ok" <=> v.num \in -Int32Max - 1 .. Int32Max \ {0}
    BY DEF Fails
  <2>3. ValueCode(space, claim, v) = First(<<a, b>>)
    BY <1>2 DEF ValueCode
  <2> HIDE DEF a, b
  <2> QED BY <1>2, <2>1, <2>2, <2>3, PairIff DEF Fits
<1>3. CASE claim = "lifecycle"
  <2> DEFINE a == UintCode(v)
             b == Fails(~ LifecycleValid(v.num), "claim")
  <2>1. a = "ok" <=> v.type = "int" /\ v.num >= 0
    BY UintExact DEF IsReadable, IsValue
  <2>2. b = "ok" <=> LifecycleValid(v.num)
    BY DEF Fails
  <2>3. ValueCode(space, claim, v) = First(<<a, b>>)
    BY <1>3 DEF ValueCode
  <2> HIDE DEF a, b
  <2> QED BY <1>3, <2>1, <2>2, <2>3, PairIff DEF Fits
<1>4. CASE claim = "components"
  BY <1>4, ComponentsExact DEF ValueCode, Fits, IsReadable
<1>5. CASE claim = "unmeasured"
  <2> DEFINE a == UintCode(v)
             b == Fails(v.num # 1, "claim")
  <2>1. a = "ok" <=> v.type = "int" /\ v.num >= 0
    BY UintExact DEF IsReadable, IsValue
  <2>2. b = "ok" <=> v.num = 1
    BY DEF Fails
  <2>3. ValueCode(space, claim, v) = First(<<a, b>>)
    BY <1>5 DEF ValueCode
  <2> HIDE DEF a, b
  <2> QED BY <1>5, <2>1, <2>2, <2>3, PairIff DEF Fits
<1>6. CASE claim \in {"nonce", "ueid", "impl", "seed", "cert", "vsi"}
  <2> DEFINE type == IF claim \in Texts THEN "tstr" ELSE "bstr"
  <2>1. ValueCode(space, claim, v) = TypedCode(v, type)
    BY <1>6 DEF ValueCode
  <2>2. type # "bad"
    OBVIOUS
  <2>3. Fits(space, claim, v) <=> v.type = type
    BY <1>6 DEF Fits
  <2> HIDE DEF type
  <2> QED BY <2>1, <2>2, <2>3, TypedExact
<1>7. claim \in {"profile", "client", "lifecycle", "components", "unmeasured", "nonce", "ueid",
                 "impl", "seed", "cert", "vsi"}
  BY DEF LabelIn, CurrentLabel, OldLabel
<1> QED BY <1>1, <1>2, <1>3, <1>4, <1>5, <1>6, <1>7

\* What a profile asks of a map, claim by claim.
LEMMA ConformsExact ==
    ASSUME NEW map, NEW space \in {"current", "old"},
           \A i \in DOMAIN map.items : IsValue(map.items[i].val)
    PROVE  Conforms(map, space) <=>
             /\ \A i \in DOMAIN map.items : Known(map.items[i].label) => IsClaim(map.items[i].label, space)
             /\ \A claim \in Required(space) : At(map, space, claim) # {}
             /\ \A claim \in DOMAIN LabelIn(space) : \A v \in At(map, space, claim) :
                   Fits(space, claim, v) /\ Closes(space, claim, v)
             /\ space = "old" => (At(map, space, "components") # {} <=> At(map, space, "unmeasured") = {})
<1> DEFINE A(claim) == At(map, space, claim)
           all(claim) == \A v \in A(claim) : Fits(space, claim, v) /\ Closes(space, claim, v)
           one == \A i \in DOMAIN map.items : Known(map.items[i].label) => IsClaim(map.items[i].label, space)
<1>1. \A claim : \A v \in A(claim) : v.num \in Int
  BY DEF At, IsValue
<1>2. Int32Max \in Nat
  BY Int32Assumption
<1>3. DOMAIN LabelIn("current") = {"nonce", "ueid", "profile", "seed", "client", "lifecycle", "impl",
                                   "cert", "components", "vsi"}
  BY DEF LabelIn, CurrentLabel
<1>4. DOMAIN LabelIn("old") = {"nonce", "ueid", "profile", "seed", "client", "lifecycle", "impl",
                               "cert", "components", "unmeasured", "vsi"}
  BY DEF LabelIn, OldLabel
<1>5. all("nonce") <=> \A v \in A("nonce") : v.type = "bstr" /\ v.len \in HashLengths
  BY DEF Fits, Closes, Texts
<1>6. all("ueid") <=> \A v \in A("ueid") : v.type = "bstr" /\ v.len = 33 /\ v.form = "random"
  BY DEF Fits, Closes, Texts
<1>7. all("impl") <=> \A v \in A("impl") : v.type = "bstr" /\ v.len = 32
  BY DEF Fits, Closes, Texts
<1>8. all("client") <=> \A v \in A("client") : /\ v.type = "int" /\ v.num # 0
                                                /\ v.num <= Int32Max /\ v.num >= -Int32Max - 1
  <2>1. \A v \in A("client") : v.num \in -Int32Max - 1 .. Int32Max \ {0} <=>
                              v.num # 0 /\ v.num <= Int32Max /\ v.num >= -Int32Max - 1
    <3> HIDE DEF A
    <3> QED BY <1>1, <1>2
  <2> HIDE DEF A
  <2> QED BY <2>1 DEF Fits, Closes
<1>9. all("lifecycle") <=> \A v \in A("lifecycle") : v.type = "int" /\ v.num >= 0 /\ LifecycleValid(v.num)
  BY DEF Fits, Closes
<1>10. all("cert") <=> \A v \in A("cert") : v.type = "tstr" /\ v.form = CertForm[space]
  BY DEF Fits, Closes, Texts
<1>11. all("vsi") <=> \A v \in A("vsi") : v.type = "tstr"
  BY DEF Fits, Closes, Texts
<1>12. all("components") <=>
         \A v \in A("components") : /\ v.type = "array" /\ Len(v.items) \in 1 .. MaxComponents
                                    /\ \A i \in DOMAIN v.items : WellFormedComponent(v.items[i])
  BY DEF Fits, Closes
<1>13. all("profile") <=>
         \A v \in A("profile") : v.type = "tstr" /\ IF space = "current" THEN TfmFull /\ v.form = "tfm"
                                                      ELSE v.form = "iot1"
  BY DEF Fits, Closes
<1>14. all("seed") <=> \A v \in A("seed") : v.type = "bstr" /\ v.len \in IF space = "current" THEN 8 .. 32 ELSE {32}
  BY DEF Fits, Closes, Texts
<1>15. all("unmeasured") <=> \A v \in A("unmeasured") : v.type = "int" /\ v.num = 1
  BY DEF Fits, Closes
<1> HIDE DEF A, all, one
<1> DEFINE common ==
             /\ one
             /\ A("nonce") # {} /\ all("nonce") /\ A("ueid") # {} /\ all("ueid")
             /\ A("impl") # {} /\ all("impl") /\ A("client") # {} /\ all("client")
             /\ A("lifecycle") # {} /\ all("lifecycle") /\ all("cert") /\ all("vsi")
             /\ all("components") /\ all("profile") /\ all("seed")
<1>16. CASE space = "current"
  <2>1. Conforms(map, space) <=> common /\ A("profile") # {} /\ A("components") # {}
    <3>1. A("profile") # {} /\ all("profile") <=>
             TfmFull /\ A("profile") # {} /\ \A v \in A("profile") : v.type = "tstr" /\ v.form = "tfm"
      BY <1>13, <1>16
    <3>2. Conforms(map, space) <=>
            /\ one
            /\ A("nonce") # {} /\ (\A v \in A("nonce") : v.type = "bstr" /\ v.len \in HashLengths)
            /\ A("ueid") # {} /\ (\A v \in A("ueid") : v.type = "bstr" /\ v.len = 33 /\ v.form = "random")
            /\ A("impl") # {} /\ (\A v \in A("impl") : v.type = "bstr" /\ v.len = 32)
            /\ A("client") # {}
            /\ (\A v \in A("client") : /\ v.type = "int" /\ v.num # 0
                                        /\ v.num <= Int32Max /\ v.num >= -Int32Max - 1)
            /\ A("lifecycle") # {}
            /\ (\A v \in A("lifecycle") : v.type = "int" /\ v.num >= 0 /\ LifecycleValid(v.num))
            /\ (\A v \in A("cert") : v.type = "tstr" /\ v.form = CertForm[space])
            /\ (\A v \in A("vsi") : v.type = "tstr")
            /\ (\A v \in A("components") : /\ v.type = "array" /\ Len(v.items) \in 1 .. MaxComponents
                                            /\ \A i \in DOMAIN v.items : WellFormedComponent(v.items[i]))
            /\ TfmFull /\ A("profile") # {}
            /\ (\A v \in A("profile") : v.type = "tstr" /\ v.form = "tfm")
            /\ A("components") # {}
            /\ (\A v \in A("seed") : v.type = "bstr" /\ v.len \in 8 .. 32)
      BY <1>16, Zenon DEF Conforms, A, one
    <3>3. all("seed") <=> \A v \in A("seed") : v.type = "bstr" /\ v.len \in 8 .. 32
      BY <1>14, <1>16
    <3> QED BY <3>1, <3>2, <3>3, <1>5, <1>6, <1>7, <1>8, <1>9, <1>10, <1>11, <1>12, Zenon DEF common
  <2>2. Required(space) = {"nonce", "ueid", "client", "lifecycle", "impl", "profile", "components"}
    BY <1>16 DEF Required
  <2> QED BY <1>3, <1>16, <2>1, <2>2 DEF A, all, one
<1>17. CASE space = "old"
  <2>1. Conforms(map, space) <=> /\ common /\ A("seed") # {} /\ all("unmeasured")
                                 /\ A("components") # {} <=> A("unmeasured") = {}
    <3>2. Conforms(map, space) <=>
            /\ one
            /\ A("nonce") # {} /\ (\A v \in A("nonce") : v.type = "bstr" /\ v.len \in HashLengths)
            /\ A("ueid") # {} /\ (\A v \in A("ueid") : v.type = "bstr" /\ v.len = 33 /\ v.form = "random")
            /\ A("impl") # {} /\ (\A v \in A("impl") : v.type = "bstr" /\ v.len = 32)
            /\ A("client") # {}
            /\ (\A v \in A("client") : /\ v.type = "int" /\ v.num # 0
                                        /\ v.num <= Int32Max /\ v.num >= -Int32Max - 1)
            /\ A("lifecycle") # {}
            /\ (\A v \in A("lifecycle") : v.type = "int" /\ v.num >= 0 /\ LifecycleValid(v.num))
            /\ (\A v \in A("cert") : v.type = "tstr" /\ v.form = CertForm[space])
            /\ (\A v \in A("vsi") : v.type = "tstr")
            /\ (\A v \in A("components") : /\ v.type = "array" /\ Len(v.items) \in 1 .. MaxComponents
                                            /\ \A i \in DOMAIN v.items : WellFormedComponent(v.items[i]))
            /\ (\A v \in A("profile") : v.type = "tstr" /\ v.form = "iot1")
            /\ A("seed") # {} /\ (\A v \in A("seed") : v.type = "bstr" /\ v.len = 32)
            /\ (A("components") # {} <=> ~ (A("unmeasured") # {}))
            /\ (\A v \in A("unmeasured") : v.type = "int" /\ v.num = 1)
      <4>1. \A v : v.len \in {32} <=> v.len = 32
        OBVIOUS
      <4>2. \A v : v.len \in {33} <=> v.len = 33
        OBVIOUS
      <4> QED BY <1>17, <4>1, <4>2, SMTT(30) DEF Conforms, A, one
    <3>3. all("seed") <=> \A v \in A("seed") : v.type = "bstr" /\ v.len = 32
      BY <1>14, <1>17
    <3>4. all("profile") <=> \A v \in A("profile") : v.type = "tstr" /\ v.form = "iot1"
      BY <1>13, <1>17
    <3> QED BY <3>2, <3>3, <3>4, <1>5, <1>6, <1>7, <1>8, <1>9, <1>10, <1>11, <1>12, <1>15 DEF common
  <2>2. Required(space) = {"nonce", "ueid", "client", "lifecycle", "impl", "seed"}
    BY <1>17 DEF Required
  <2> QED BY <1>4, <1>17, <2>1, <2>2 DEF A, all, one
<1> QED BY <1>16, <1>17

-----------------------------------------------------------------------------
(* The pairs of a map that have been read.                                 *)

\* The label of a claim says its namespace and the claim, and nothing else does.
LEMMA LabelExact ==
    ASSUME NEW space \in {"current", "old"}, NEW claim \in DOMAIN LabelIn(space),
           NEW label, label = IntLabel(LabelIn(space)[claim])
    PROVE  Known(label) /\ SpaceOf(label) = space /\ ClaimOf(label) = claim
<1>1. IsClaim(label, space) /\ Known(label)
  BY DEF IsClaim, Known, IntLabel
<1>2. ASSUME NEW s \in {"current", "old"}, IsClaim(label, s) PROVE s = space
  BY <1>2 DEF IsClaim, IntLabel, LabelIn, CurrentLabel, OldLabel
<1>3. SpaceOf(label) = space
  BY <1>1, <1>2 DEF SpaceOf
<1>4. ASSUME NEW c \in DOMAIN LabelIn(space), LabelIn(space)[c] = label.val PROVE c = claim
  BY <1>4 DEF IntLabel, LabelIn, CurrentLabel, OldLabel
<1>5. LabelIn(space)[claim] = label.val
  BY DEF IntLabel
<1>6. ClaimOf(label) = claim
  BY <1>3, <1>4, <1>5 DEF ClaimOf
<1> QED BY <1>1, <1>3, <1>6

LEMMA KnownExact ==
    ASSUME NEW label, Known(label)
    PROVE  /\ SpaceOf(label) \in {"current", "old"}
           /\ ClaimOf(label) \in DOMAIN LabelIn(SpaceOf(label))
           /\ label = IntLabel(LabelIn(SpaceOf(label))[ClaimOf(label)])
<1>1. PICK space \in {"current", "old"} : IsClaim(label, space)
  BY DEF Known
<1>3. PICK claim \in DOMAIN LabelIn(space) : label = IntLabel(LabelIn(space)[claim])
  BY <1>1 DEF IsClaim, IntLabel
<1>2. SpaceOf(label) = space /\ ClaimOf(label) = claim
  BY <1>3, LabelExact
<1> QED BY <1>2, <1>3

\* What a token holds of a claim.
Held(space, claim, v) ==
    CASE claim = "profile"               -> space
      [] claim \in {"client", "lifecycle"} -> v.num
      [] claim = "components"            -> {v.items}
      [] claim = "unmeasured"            -> TRUE
      [] OTHER                           -> {v}

LEMMA StoredIs ==
    ASSUME NEW t, NEW space \in {"current", "old"}, NEW claim \in DOMAIN LabelIn(space), NEW v
    PROVE  Stored(t, space, claim, v) = [t EXCEPT ![claim] = Held(space, claim, v)]
<1>1. claim \in {"profile", "client", "lifecycle", "components", "unmeasured", "nonce", "ueid",
                 "impl", "seed", "cert", "vsi"}
  BY DEF LabelIn, CurrentLabel, OldLabel
<1> QED BY <1>1 DEF Stored, Held

Admitted(item) ==
    /\ item.label.type \in {"int", "text"} /\ item.val.type # "bad"
    /\ Known(item.label) =>
          /\ SpaceOf(item.label) \in Namespaces
          /\ Fits(SpaceOf(item.label), ClaimOf(item.label), item.val)

KnownTo(map, n) == {i \in 1 .. n : Known(map.items[i].label)}

\* The first n pairs have been read: each is in form and has a label of its
\* own, and the token holds the values of just the claims seen among them.
Read(map, n, d, t) ==
    /\ map.type = "map" /\ Len(map.items) <= MaxClaims
    /\ \A i \in 1 .. n : Admitted(map.items[i]) /\ ~ HasPriorLabel(map.items, i)
    /\ d.seen = {ClaimOf(map.items[i].label) : i \in KnownTo(map, n)}
    /\ d.spaces = {SpaceOf(map.items[i].label) : i \in KnownTo(map, n)}
    /\ \A i \in KnownTo(map, n) :
          LET label == map.items[i].label IN
          t[ClaimOf(label)] = Held(SpaceOf(label), ClaimOf(label), map.items[i].val)
    /\ \A f \in DOMAIN NoToken \ d.seen : t[f] = NoToken[f]

\* A claim's value is well-formed.
LEMMA FitsOk ==
    ASSUME NEW space \in {"current", "old"}, NEW claim \in DOMAIN LabelIn(space), NEW v,
           Fits(space, claim, v)
    PROVE  v.type # "bad"
<1>1. claim \in {"profile", "client", "lifecycle", "components", "unmeasured", "nonce", "ueid",
                 "impl", "seed", "cert", "vsi"}
  BY DEF LabelIn, CurrentLabel, OldLabel
<1>2. (IF claim \in Texts THEN "tstr" ELSE "bstr") # "bad"
  OBVIOUS
<1> QED BY <1>1, <1>2 DEF Fits

LEMMA ClaimExact ==
    ASSUME NEW map, NEW i, NEW seen, NEW spaces, IsReadable(map.items[i].val)
    PROVE  LET label == map.items[i].label IN
           ClaimCode(map, i, seen, spaces) = "ok" <=>
              /\ Admitted(map.items[i]) /\ ~ HasPriorLabel(map.items, i)
              /\ Known(label) => spaces \subseteq {SpaceOf(label)} /\ ClaimOf(label) \notin seen
<1> DEFINE label == map.items[i].label
           val   == map.items[i].val
           x == SpacesCode(SpaceOf(label), spaces)
           y == Fails(ClaimOf(label) \in seen, "claim")
           z == ValueCode(SpaceOf(label), ClaimOf(label), val)
           a == LabelCode(label)
           b == Fails(HasPriorLabel(map.items, i), "claim")
           c == IF Extension(label) THEN SkipCode(val) ELSE First(<<x, y, z>>)
<1>1. a = "ok" <=> label.type \in {"int", "text"}
  BY DEF LabelCode, Fails
<1>2. b = "ok" <=> ~ HasPriorLabel(map.items, i)
  BY DEF Fails
<1>3. x = "ok" <=> SpaceOf(label) \in Namespaces /\ spaces \subseteq {SpaceOf(label)}
  BY DEF SpacesCode, Fails
<1>4. y = "ok" <=> ClaimOf(label) \notin seen
  BY DEF Fails
<1>5. Known(label) => (z = "ok" <=> Fits(SpaceOf(label), ClaimOf(label), val))
  BY ValueExact, KnownExact
<1>6. Known(label) /\ Fits(SpaceOf(label), ClaimOf(label), val) => val.type # "bad"
  BY FitsOk, KnownExact
<1>7. ~ Known(label) => (c = "ok" <=> val.type # "bad")
  BY DEF Extension, SkipCode, Fails
<1>8. Known(label) => (c = "ok" <=> x = "ok" /\ y = "ok" /\ z = "ok")
  <2> HIDE DEF x, y, z
  <2> QED BY TripleIff DEF Extension
<1>9. ClaimCode(map, i, seen, spaces) = "ok" <=> a = "ok" /\ b = "ok" /\ c = "ok"
  <2>1. ClaimCode(map, i, seen, spaces) = First(<<a, b, c>>)
    BY Zenon DEF ClaimCode
  <2> HIDE DEF a, b, c
  <2> QED BY <2>1, TripleIff
<1> HIDE DEF a, b, c, x, y, z
<1> QED BY <1>1, <1>2, <1>3, <1>4, <1>5, <1>6, <1>7, <1>8, <1>9 DEF Admitted

LEMMA NothingRead ==
    ASSUME NEW map, map.type = "map", Len(map.items) <= MaxClaims
    PROVE  Read(map, 0, NoDec, NoToken)
BY DEF Read, KnownTo, NoDec

\* The next pair, when it is a claim,
LEMMA ReadClaim ==
    ASSUME NEW map, NEW n \in Nat, NEW d, NEW t, t = [f \in DOMAIN NoToken |-> t[f]],
           Read(map, n, d, t),
           Admitted(map.items[n + 1]), ~ HasPriorLabel(map.items, n + 1),
           Known(map.items[n + 1].label), ClaimOf(map.items[n + 1].label) \notin d.seen
    PROVE  LET label == map.items[n + 1].label IN
           Read(map, n + 1,
                [at |-> n + 1, seen |-> d.seen \cup {ClaimOf(label)},
                 spaces |-> d.spaces \cup {SpaceOf(label)}],
                Stored(t, SpaceOf(label), ClaimOf(label), map.items[n + 1].val))
<1> DEFINE label == map.items[n + 1].label
           val   == map.items[n + 1].val
           e == [at |-> n + 1, seen |-> d.seen \cup {ClaimOf(label)},
                 spaces |-> d.spaces \cup {SpaceOf(label)}]
           u == Stored(t, SpaceOf(label), ClaimOf(label), val)
           claim == ClaimOf(label)
<1>1. KnownTo(map, n + 1) = KnownTo(map, n) \cup {n + 1}
  BY DEF KnownTo
<1>2. claim \in DOMAIN NoToken
  BY KnownExact DEF LabelIn, CurrentLabel, OldLabel, NoToken
<1>3. u = [t EXCEPT ![claim] = Held(SpaceOf(label), claim, val)]
  BY KnownExact, StoredIs
<1>4. /\ u[claim] = Held(SpaceOf(label), claim, val)
      /\ \A f \in DOMAIN NoToken : f # claim => u[f] = t[f]
  <2> HIDE DEF u, claim, label, val
  <2> QED BY <1>2, <1>3
<1>5. e.seen = {ClaimOf(map.items[i].label) : i \in KnownTo(map, n + 1)}
  BY <1>1 DEF Read
<1>6. e.spaces = {SpaceOf(map.items[i].label) : i \in KnownTo(map, n + 1)}
  BY <1>1 DEF Read
<1>7. ASSUME NEW i \in KnownTo(map, n + 1)
      PROVE  u[ClaimOf(map.items[i].label)] =
               Held(SpaceOf(map.items[i].label), ClaimOf(map.items[i].label), map.items[i].val)
  <2>1. CASE i = n + 1
    BY <1>4, <2>1
  <2>2. CASE i \in KnownTo(map, n)
    <3> DEFINE k == ClaimOf(map.items[i].label)
    <3>1. k \in d.seen /\ k # claim
      BY <2>2 DEF Read
    <3>2. k \in DOMAIN NoToken
      BY <2>2, KnownExact DEF KnownTo, LabelIn, CurrentLabel, OldLabel, NoToken
    <3>3. t[k] = Held(SpaceOf(map.items[i].label), k, map.items[i].val)
      BY <2>2 DEF Read
    <3> HIDE DEF u, k, claim
    <3> QED BY <1>4, <3>1, <3>2, <3>3 DEF k
  <2> QED BY <1>1, <2>1, <2>2
<1>8. ASSUME NEW f \in DOMAIN NoToken \ e.seen PROVE u[f] = NoToken[f]
  <2>1. f # claim /\ f \notin d.seen
    OBVIOUS
  <2>2. t[f] = NoToken[f]
    BY <2>1 DEF Read
  <2> HIDE DEF u, claim
  <2> QED BY <1>4, <2>1, <2>2
<1>9. \A i \in 1 .. n + 1 : i \in 1 .. n \/ i = n + 1
  OBVIOUS
<1>10. \A i \in 1 .. n + 1 : Admitted(map.items[i]) /\ ~ HasPriorLabel(map.items, i)
  BY <1>9 DEF Read
<1>11. map.type = "map" /\ Len(map.items) <= MaxClaims
  BY DEF Read
<1> HIDE DEF e, u
<1>12. Read(map, n + 1, e, u)
  BY <1>5, <1>6, <1>7, <1>8, <1>10, <1>11 DEF Read
<1> QED BY <1>12 DEF e, u

\* and when it is not.
LEMMA ReadOther ==
    ASSUME NEW map, NEW n \in Nat, NEW d, NEW t, Read(map, n, d, t),
           Admitted(map.items[n + 1]), ~ HasPriorLabel(map.items, n + 1),
           ~ Known(map.items[n + 1].label), NEW e, e.seen = d.seen, e.spaces = d.spaces
    PROVE  Read(map, n + 1, e, t)
<1>1. KnownTo(map, n + 1) = KnownTo(map, n)
  BY DEF KnownTo
<1>2. \A i \in 1 .. n + 1 : i \in 1 .. n \/ i = n + 1
  OBVIOUS
<1> QED BY <1>1, <1>2 DEF Read

-----------------------------------------------------------------------------
(* The whole map.                                                          *)

LEMMA MapParts ==
    ASSUME NEW map, IsMap(map), map.type = "map"
    PROVE  /\ Len(map.items) \in Nat /\ DOMAIN map.items = 1 .. Len(map.items)
           /\ IsArray(map.items) /\ IsPairs(map.items)
           /\ \A i \in 1 .. Len(map.items) : /\ IsReadable(map.items[i].val)
                                            /\ IsValue(map.items[i].val)
BY DEF IsMap, IsValue, IsArray, IsReadable

\* A map that was refused at a pair conforms to no profile.
LEMMA ClaimRefused ==
    ASSUME NEW map, IsMap(map), NEW n \in Nat, n + 1 <= Len(map.items),
           NEW d, NEW t, Read(map, n, d, t),
           ClaimCode(map, n + 1, d.seen, d.spaces) # "ok"
    PROVE  ~ WellFormed(map)
<1> SUFFICES ASSUME WellFormed(map) PROVE FALSE
  OBVIOUS
<1> DEFINE i     == n + 1
           item  == map.items[i]
           label == item.label
<1>1. map.type = "map"
  BY DEF Read
<1>2. /\ Len(map.items) \in Nat /\ DOMAIN map.items = 1 .. Len(map.items)
      /\ IsArray(map.items) /\ i \in DOMAIN map.items
      /\ \A j \in DOMAIN map.items : IsReadable(map.items[j].val) /\ IsValue(map.items[j].val)
  BY <1>1, MapParts
<1>3. PICK space \in Namespaces : Conforms(map, space)
  BY DEF WellFormed
<1>4. space \in {"current", "old"}
  BY ProfilesAssumption
<1>5. /\ \A j \in DOMAIN map.items : Known(map.items[j].label) => IsClaim(map.items[j].label, space)
      /\ \A claim \in DOMAIN LabelIn(space) : \A v \in At(map, space, claim) : Fits(space, claim, v)
  BY <1>2, <1>3, <1>4, ConformsExact
<1>6. ~ HasPriorLabel(map.items, i)
  <2>1. Distinct(map.items)
    BY DEF WellFormed
  <2> QED BY <1>2, <2>1, DistinctExact
<1>7. label.type \in {"int", "text"} /\ item.val.type # "bad"
  BY <1>2 DEF WellFormed
<1>8. ASSUME NEW j \in DOMAIN map.items, Known(map.items[j].label)
      PROVE  /\ SpaceOf(map.items[j].label) = space
             /\ ClaimOf(map.items[j].label) \in DOMAIN LabelIn(space)
             /\ map.items[j].label = IntLabel(LabelIn(space)[ClaimOf(map.items[j].label)])
  <2>1. IsClaim(map.items[j].label, space)
    BY <1>5, <1>8
  <2>2. PICK claim \in DOMAIN LabelIn(space) : map.items[j].label = IntLabel(LabelIn(space)[claim])
    BY <2>1 DEF IsClaim, IntLabel
  <2>3. SpaceOf(map.items[j].label) = space /\ ClaimOf(map.items[j].label) = claim
    BY <1>4, <2>2, LabelExact
  <2> QED BY <2>2, <2>3
<1>9. ASSUME Known(label)
      PROVE  /\ SpaceOf(label) \in Namespaces /\ d.spaces \subseteq {SpaceOf(label)}
             /\ ClaimOf(label) \notin d.seen
             /\ Fits(SpaceOf(label), ClaimOf(label), item.val)
  <2>1. SpaceOf(label) = space /\ ClaimOf(label) \in DOMAIN LabelIn(space)
        /\ label = IntLabel(LabelIn(space)[ClaimOf(label)])
    BY <1>2, <1>8, <1>9
  <2>2. item.val \in At(map, space, ClaimOf(label))
    BY <1>2, <2>1 DEF At
  <2>3. Fits(space, ClaimOf(label), item.val)
    BY <1>5, <2>1, <2>2
  <2>4. \A j \in KnownTo(map, n) : /\ j \in DOMAIN map.items /\ j \in 1 .. i - 1
                                   /\ Known(map.items[j].label)
    BY <1>2 DEF KnownTo
  <2>5. d.spaces \subseteq {space}
    BY <1>8, <2>4 DEF Read
  <2>6. ASSUME NEW j \in KnownTo(map, n), ClaimOf(map.items[j].label) = ClaimOf(label) PROVE FALSE
    <3>1. map.items[j].label = label
      BY <1>8, <2>1, <2>4, <2>6
    <3> QED BY <1>6, <2>4, <3>1 DEF HasPriorLabel
  <2>7. ClaimOf(label) \notin d.seen
    BY <2>6 DEF Read
  <2> QED BY <1>3, <2>1, <2>3, <2>5, <2>7
<1>10. Admitted(item)
  BY <1>7, <1>9 DEF Admitted
<1>11. ClaimCode(map, i, d.seen, d.spaces) = "ok"
  BY <1>2, <1>6, <1>9, <1>10, ClaimExact
<1> QED BY <1>11

\* All pairs have been read, of claims in one namespace.
ReadAll(map, d, t, space) ==
    /\ IsMap(map) /\ Read(map, Len(map.items), d, t)
    /\ space \in {"current", "old"} /\ d.spaces = {space}

\* The values of a claim in a map of one namespace that has been read.
LEMMA AtRead ==
    ASSUME NEW map, NEW d, NEW t, NEW space, ReadAll(map, d, t, space),
           NEW claim \in DOMAIN LabelIn(space)
    PROVE  /\ claim \in d.seen <=> At(map, space, claim) # {}
           /\ claim \notin d.seen => t[claim] = NoToken[claim]
           /\ \A v \in At(map, space, claim) :
                 t[claim] = Held(space, claim, v) /\ Fits(space, claim, v) /\ IsValue(v)
           /\ \A x, y \in At(map, space, claim) : x = y
<1>0. /\ IsMap(map) /\ Read(map, Len(map.items), d, t)
      /\ space \in {"current", "old"} /\ d.spaces = {space}
  BY DEF ReadAll
<1> USE <1>0
<1> DEFINE n == Len(map.items)
           mark == IntLabel(LabelIn(space)[claim])
           Places == {i \in DOMAIN map.items : map.items[i].label = mark}
<1>1. /\ n \in Nat /\ DOMAIN map.items = 1 .. n /\ IsArray(map.items)
      /\ \A i \in DOMAIN map.items : IsValue(map.items[i].val)
  BY MapParts DEF Read
<1>2. At(map, space, claim) = {map.items[i].val : i \in Places}
  BY DEF At
<1>3. ASSUME NEW i \in Places
      PROVE  /\ i \in KnownTo(map, n) /\ SpaceOf(map.items[i].label) = space
             /\ ClaimOf(map.items[i].label) = claim
  <2>1. /\ Known(map.items[i].label) /\ SpaceOf(map.items[i].label) = space
        /\ ClaimOf(map.items[i].label) = claim
    BY LabelExact
  <2> QED BY <1>1, <2>1 DEF KnownTo
<1>4. ASSUME NEW i \in KnownTo(map, n), ClaimOf(map.items[i].label) = claim PROVE i \in Places
  <2>1. SpaceOf(map.items[i].label) = space
    BY DEF Read
  <2>2. map.items[i].label = mark
    BY <1>4, <2>1, KnownExact DEF KnownTo
  <2> QED BY <1>1, <2>2 DEF KnownTo
<1>5. claim \in d.seen <=> Places # {}
  <2>1. claim \in d.seen <=> \E i \in KnownTo(map, n) : ClaimOf(map.items[i].label) = claim
    BY DEF Read
  <2> HIDE DEF Places
  <2> QED BY <1>3, <1>4, <2>1
<1>6. ASSUME NEW i \in Places
      PROVE  /\ t[claim] = Held(space, claim, map.items[i].val)
             /\ Fits(space, claim, map.items[i].val) /\ IsValue(map.items[i].val)
  <2>1. /\ i \in KnownTo(map, n) /\ SpaceOf(map.items[i].label) = space
        /\ ClaimOf(map.items[i].label) = claim
    BY <1>3
  <2>2. t[claim] = Held(space, claim, map.items[i].val)
    BY <2>1 DEF Read
  <2>3. i \in 1 .. n /\ Known(map.items[i].label)
    BY <2>1 DEF KnownTo
  <2>4. Admitted(map.items[i])
    BY <2>3 DEF Read
  <2> QED BY <1>1, <2>1, <2>2, <2>3, <2>4 DEF Admitted
<1>7. ASSUME NEW i \in Places, NEW j \in Places PROVE i = j
  <2>1. Distinct(map.items)
    BY <1>1, DistinctExact DEF Read
  <2> QED BY <2>1 DEF Distinct
<1>8. claim \notin d.seen => t[claim] = NoToken[claim]
  <2>1. claim \in DOMAIN NoToken
    BY DEF LabelIn, CurrentLabel, OldLabel, NoToken
  <2> QED BY <2>1 DEF Read
<1> HIDE DEF Places, mark, n
<1> QED BY <1>2, <1>5, <1>6, <1>7, <1>8

Spans == {"nonce", "ueid", "impl", "seed", "cert", "vsi"}

\* A claim seen in the map has one value there, which the token holds.
LEMMA OneAt ==
    ASSUME NEW map, NEW d, NEW t, NEW space, ReadAll(map, d, t, space),
           NEW claim \in DOMAIN LabelIn(space)
    PROVE  \/ claim \notin d.seen /\ At(map, space, claim) = {} /\ t[claim] = NoToken[claim]
           \/ claim \in d.seen /\ \E v : At(map, space, claim) = {v} /\ t[claim] = Held(space, claim, v)
<1>0. /\ IsMap(map) /\ Read(map, Len(map.items), d, t)
      /\ space \in {"current", "old"} /\ d.spaces = {space}
  BY DEF ReadAll
<1> USE <1>0
<1> DEFINE A == At(map, space, claim)
<1>1. /\ claim \in d.seen <=> A # {}
      /\ claim \notin d.seen => t[claim] = NoToken[claim]
      /\ \A v \in A : t[claim] = Held(space, claim, v)
      /\ \A x, y \in A : x = y
  BY AtRead
<1> HIDE DEF A
<1>2. ASSUME NEW v \in A PROVE A = {v}
  BY <1>1
<1> QED BY <1>1, <1>2 DEF A

\* The token holds the strings of the map.
LEMMA SpansAt ==
    ASSUME NEW map, NEW d, NEW t, NEW space, ReadAll(map, d, t, space), NEW claim \in Spans
    PROVE  t[claim] = At(map, space, claim)
<1>0. /\ IsMap(map) /\ Read(map, Len(map.items), d, t)
      /\ space \in {"current", "old"} /\ d.spaces = {space}
  BY DEF ReadAll
<1> USE <1>0
<1>1. claim \in DOMAIN LabelIn(space)
  BY DEF Spans, LabelIn, CurrentLabel, OldLabel
<1>2. \A v : Held(space, claim, v) = {v}
  BY DEF Spans, Held
<1>3. /\ NoToken["nonce"] = {} /\ NoToken["ueid"] = {} /\ NoToken["impl"] = {}
      /\ NoToken["seed"] = {} /\ NoToken["cert"] = {} /\ NoToken["vsi"] = {}
  BY DEF NoToken
<1>4. NoToken[claim] = {}
  BY <1>3 DEF Spans
<1>5. \/ claim \notin d.seen /\ At(map, space, claim) = {} /\ t[claim] = NoToken[claim]
      \/ claim \in d.seen /\ \E v : At(map, space, claim) = {v} /\ t[claim] = Held(space, claim, v)
  BY <1>1, OneAt
<1> QED BY <1>2, <1>4, <1>5

LEMMA ProfileAt ==
    ASSUME NEW map, NEW d, NEW t, NEW space, ReadAll(map, d, t, space)
    PROVE  t["profile"] = IF "profile" \in d.seen THEN space ELSE "none"
<1>0. /\ IsMap(map) /\ Read(map, Len(map.items), d, t)
      /\ space \in {"current", "old"} /\ d.spaces = {space}
  BY DEF ReadAll
<1> USE <1>0
<1>1. "profile" \in DOMAIN LabelIn(space)
  BY DEF LabelIn, CurrentLabel, OldLabel
<1>2. NoToken["profile"] = "none" /\ \A v : Held(space, "profile", v) = space
  BY DEF NoToken, Held
<1> QED BY <1>1, <1>2, OneAt

LEMMA NumberAt ==
    ASSUME NEW map, NEW d, NEW t, NEW space, ReadAll(map, d, t, space),
           NEW claim \in {"client", "lifecycle"}, claim \in d.seen
    PROVE  t[claim] = The({v.num : v \in At(map, space, claim)})
<1>0. /\ IsMap(map) /\ Read(map, Len(map.items), d, t)
      /\ space \in {"current", "old"} /\ d.spaces = {space}
  BY DEF ReadAll
<1> USE <1>0
<1>1. claim \in DOMAIN LabelIn(space)
  BY DEF LabelIn, CurrentLabel, OldLabel
<1>2. PICK v : At(map, space, claim) = {v} /\ t[claim] = Held(space, claim, v)
  BY <1>1, OneAt
<1>3. {x.num : x \in At(map, space, claim)} = {v.num}
  BY <1>2
<1>4. Held(space, claim, v) = v.num
  BY DEF Held
<1> QED BY <1>2, <1>3, <1>4, TheOne

LEMMA ComponentsAt ==
    ASSUME NEW map, NEW d, NEW t, NEW space, ReadAll(map, d, t, space)
    PROVE  t["components"] = {v.items : v \in At(map, space, "components")}
<1>0. /\ IsMap(map) /\ Read(map, Len(map.items), d, t)
      /\ space \in {"current", "old"} /\ d.spaces = {space}
  BY DEF ReadAll
<1> USE <1>0
<1>1. "components" \in DOMAIN LabelIn(space)
  BY DEF LabelIn, CurrentLabel, OldLabel
<1>2. NoToken["components"] = {} /\ \A v : Held(space, "components", v) = {v.items}
  BY DEF NoToken, Held
<1>3. CASE "components" \in d.seen
  <2>1. PICK v : At(map, space, "components") = {v} /\ t["components"] = Held(space, "components", v)
    BY <1>1, <1>3, OneAt
  <2> QED BY <1>2, <2>1
<1>4. CASE "components" \notin d.seen
  BY <1>1, <1>2, <1>4, OneAt
<1> QED BY <1>3, <1>4

\* Which claims have been seen is a matter of the namespace.
LEMMA SeenIn ==
    ASSUME NEW map, NEW d, NEW t, NEW space, ReadAll(map, d, t, space),
           NEW claim \in d.seen
    PROVE  claim \in DOMAIN LabelIn(space)
<1>0. /\ IsMap(map) /\ Read(map, Len(map.items), d, t)
      /\ space \in {"current", "old"} /\ d.spaces = {space}
  BY DEF ReadAll
<1> USE <1>0
<1>1. PICK i \in KnownTo(map, Len(map.items)) : ClaimOf(map.items[i].label) = claim
  BY DEF Read
<1>2. SpaceOf(map.items[i].label) = space
  BY DEF Read
<1> QED BY <1>1, <1>2, KnownExact DEF KnownTo

LEMMA ProtectionAt ==
    ASSUME NEW map, NEW d, NEW t, NEW space, ReadAll(map, d, t, space)
    PROVE  t["protection"] = "none"
<1>0. /\ IsMap(map) /\ Read(map, Len(map.items), d, t)
      /\ space \in {"current", "old"} /\ d.spaces = {space}
  BY DEF ReadAll
<1> USE <1>0
<1>1. "protection" \notin d.seen
  BY SeenIn DEF LabelIn, CurrentLabel, OldLabel
<1> QED BY <1>1 DEF Read, NoToken

LEMMA UnmeasuredAt ==
    ASSUME NEW map, NEW d, NEW t, NEW space, ReadAll(map, d, t, space)
    PROVE  t["unmeasured"] = (At(map, space, "unmeasured") # {})
<1>0. /\ IsMap(map) /\ Read(map, Len(map.items), d, t)
      /\ space \in {"current", "old"} /\ d.spaces = {space}
  BY DEF ReadAll
<1> USE <1>0
<1>1. NoToken["unmeasured"] = FALSE /\ \A v : Held(space, "unmeasured", v) = TRUE
  BY DEF NoToken, Held
<1>2. CASE "unmeasured" \in DOMAIN LabelIn(space)
  <2> DEFINE A == At(map, space, "unmeasured")
  <2>1. \/ A = {} /\ t["unmeasured"] = NoToken["unmeasured"]
        \/ \E v : A = {v} /\ t["unmeasured"] = Held(space, "unmeasured", v)
    BY <1>2, OneAt
  <2> HIDE DEF A
  <2>2. \/ A = {} /\ t["unmeasured"] = FALSE
        \/ A # {} /\ t["unmeasured"] = TRUE
    BY <1>1, <2>1
  <2> QED BY <2>2 DEF A
<1>3. CASE "unmeasured" \notin DOMAIN LabelIn(space)
  <2>1. At(map, space, "unmeasured") = {}
    BY <1>3 DEF At
  <2>2. "unmeasured" \notin d.seen
    BY <1>3, SeenIn
  <2>3. t["unmeasured"] = FALSE
    BY <1>1, <2>2 DEF Read, NoToken
  <2> QED BY <2>1, <2>3
<1> QED BY <1>2, <1>3

\* The map of a token in one namespace, all of whose pairs were read, is well
\* formed just when the profile of that namespace has what it asks for.
LEMMA ReadConforms ==
    ASSUME NEW map, NEW d, NEW t, NEW space, ReadAll(map, d, t, space)
    PROVE  /\ space \in Namespaces
           /\ \A other \in {"current", "old"} : Conforms(map, other) => other = space
           /\ WellFormed(map) <=> map.form # "trailing" /\ Conforms(map, space)
           /\ Conforms(map, space) <=>
                 /\ Required(space) \subseteq d.seen
                 /\ space = "old" => ~ ("components" \in d.seen <=> "unmeasured" \in d.seen)
                 /\ \A claim \in Spans : \A v \in t[claim] : Closes(space, claim, v)
<1>0. /\ IsMap(map) /\ Read(map, Len(map.items), d, t)
      /\ space \in {"current", "old"} /\ d.spaces = {space}
  BY DEF ReadAll
<1> USE <1>0
<1> DEFINE n == Len(map.items)
<1>1. /\ n \in Nat /\ DOMAIN map.items = 1 .. n /\ IsArray(map.items)
      /\ \A i \in DOMAIN map.items : IsValue(map.items[i].val)
  BY MapParts DEF Read
<1>2. \A i \in 1 .. n : Admitted(map.items[i]) /\ ~ HasPriorLabel(map.items, i)
  BY DEF Read
<1>3. PICK i \in KnownTo(map, n) : SpaceOf(map.items[i].label) = space
  BY DEF Read
<1>4. i \in 1 .. n /\ Known(map.items[i].label)
  BY DEF KnownTo
<1>5. space \in Namespaces
  BY <1>2, <1>3, <1>4 DEF Admitted
<1>6. ASSUME NEW j \in DOMAIN map.items, Known(map.items[j].label)
      PROVE  SpaceOf(map.items[j].label) = space
  <2>1. j \in KnownTo(map, n)
    BY <1>1, <1>6 DEF KnownTo
  <2> QED BY <2>1 DEF Read
<1>7. ASSUME NEW j \in DOMAIN map.items, Known(map.items[j].label)
      PROVE  IsClaim(map.items[j].label, space)
  BY <1>6, <1>7, KnownExact DEF IsClaim, IntLabel
<1>8. ASSUME NEW other \in {"current", "old"}, Conforms(map, other) PROVE other = space
  <2>1. IsClaim(map.items[i].label, other)
    BY <1>1, <1>4, <1>8, ConformsExact
  <2>2. PICK c \in DOMAIN LabelIn(other) : map.items[i].label = IntLabel(LabelIn(other)[c])
    BY <2>1 DEF IsClaim, IntLabel
  <2> QED BY <1>3, <2>2, LabelExact
<1>9. WellFormed(map) <=> map.form # "trailing" /\ Conforms(map, space)
  <2>1. Distinct(map.items)
    BY <1>1, <1>2, DistinctExact
  <2>2. map.type = "map" /\ Len(map.items) <= MaxClaims
    BY DEF Read
  <2>3. \A j \in DOMAIN map.items : map.items[j].label.type \in {"int", "text"} /\ map.items[j].val.type # "bad"
    BY <1>1, <1>2 DEF Admitted
  <2>4. (\E s \in Namespaces : Conforms(map, s)) <=> Conforms(map, space)
    BY <1>5, <1>8, ProfilesAssumption
  <2> QED BY <2>1, <2>2, <2>3, <2>4, Zenon DEF WellFormed
<1>10. Required(space) \subseteq DOMAIN LabelIn(space)
  BY DEF Required, LabelIn, CurrentLabel, OldLabel
<1>11. (\A claim \in Required(space) : At(map, space, claim) # {}) <=> Required(space) \subseteq d.seen
  <2>1. ASSUME NEW claim \in Required(space) PROVE claim \in d.seen <=> At(map, space, claim) # {}
    BY <1>10, <2>1, AtRead
  <2> QED BY <2>1
<1>12. space = "old" => ((At(map, space, "components") # {} <=> At(map, space, "unmeasured") = {})
                          <=> ~ ("components" \in d.seen <=> "unmeasured" \in d.seen))
  <2> SUFFICES ASSUME space = "old"
               PROVE  (At(map, space, "components") # {} <=> At(map, space, "unmeasured") = {})
                          <=> ~ ("components" \in d.seen <=> "unmeasured" \in d.seen)
    OBVIOUS
  <2>1. {"components", "unmeasured"} \subseteq DOMAIN LabelIn(space)
    BY DEF LabelIn, OldLabel
  <2>2. "components" \in d.seen <=> At(map, space, "components") # {}
    BY <2>1, AtRead
  <2>3. "unmeasured" \in d.seen <=> At(map, space, "unmeasured") # {}
    BY <2>1, AtRead
  <2> QED BY <2>2, <2>3
<1>13. (\A claim \in DOMAIN LabelIn(space) : \A v \in At(map, space, claim) :
                   Fits(space, claim, v) /\ Closes(space, claim, v))
       <=> \A claim \in Spans : \A v \in t[claim] : Closes(space, claim, v)
  <2>1. \A claim \in DOMAIN LabelIn(space) : \A v \in At(map, space, claim) : Fits(space, claim, v)
    <3> SUFFICES ASSUME NEW claim \in DOMAIN LabelIn(space), NEW v \in At(map, space, claim)
                 PROVE  Fits(space, claim, v)
      OBVIOUS
    <3> QED BY AtRead
  <2>2. \A claim \in Spans : t[claim] = At(map, space, claim)
    <3> SUFFICES ASSUME NEW claim \in Spans PROVE t[claim] = At(map, space, claim)
      OBVIOUS
    <3> QED BY SpansAt
  <2>3. Spans \subseteq DOMAIN LabelIn(space)
    BY DEF Spans, LabelIn, CurrentLabel, OldLabel
  <2>4. \A claim, v : claim \notin Spans => Closes(space, claim, v)
    BY DEF Spans, Closes
  <2> QED BY <2>1, <2>2, <2>3, <2>4
<1> QED BY <1>1, <1>5, <1>7, <1>8, <1>9, <1>11, <1>12, <1>13, ConformsExact

LEMMA LenOfOne == ASSUME NEW v PROVE LenOf({v}) = v.len
BY TheOne DEF LenOf

\* A required string has the right length just when its length is right.
LEMMA LenOfSpan ==
    ASSUME NEW span, \A x, y \in span : x = y, span # {}, NEW L
    PROVE  LenOf(span) \in L <=> \A v \in span : v.len \in L
<1>1. PICK v : span = {v}
  OBVIOUS
<1> QED BY <1>1, LenOfOne

\* What the profiles ask for at the end, of a token in one namespace.
LEMMA EndExact ==
    ASSUME NEW map, NEW d, NEW t, NEW space, ReadAll(map, d, t, space)
    PROVE  EndCode(map, d.seen, d.spaces, t) = "ok" <=> WellFormed(map)
<1>0. /\ IsMap(map) /\ Read(map, Len(map.items), d, t)
      /\ space \in {"current", "old"} /\ d.spaces = {space}
  BY DEF ReadAll
<1> USE <1>0
<1> DEFINE only == SpaceCode(space, d.seen, t)
           a1 == Fails(map.form = "trailing", "claim")
           a2 == Fails(Cardinality(d.spaces) # 1, "profile")
           a3 == First(<<only>>)
           a4 == Fails(LenOf(t.nonce) \notin HashLengths, "claim")
           a5 == Fails(\A u \in t.ueid : u.len # 33 \/ u.form # "random", "claim")
           a6 == Fails(LenOf(t.impl) # 32, "claim")
           x == SeedCode(space, t)
           y == Fails(\E c \in t.cert : c.form # CertForm[space], "claim")
           a7 == First(<<x, y>>)
           seen == Required(space) \subseteq d.seen
           pair == space = "old" => ~ ("components" \in d.seen <=> "unmeasured" \in d.seen)
           all(claim) == \A v \in t[claim] : Closes(space, claim, v)
<1>1. a1 = "ok" <=> map.form # "trailing"
  BY DEF Fails
<1>2. a2 = "ok"
  BY FS_Singleton DEF Fails
<1>3. a3 = "ok" <=> seen /\ pair
  <2> DEFINE p == Fails(~ Required(space) \subseteq d.seen, "claim")
             q == Fails(space = "old" /\ ("components" \in d.seen <=> "unmeasured" \in d.seen), "claim")
             r == Fails(t.profile # space /\ ~ (space = "old" /\ t.profile = "none"), "profile")
  <2>1. (p = "ok" <=> seen) /\ (q = "ok" <=> pair)
    BY DEF Fails
  <2>2. seen => r = "ok"
    <3>1. ("profile" \in d.seen => t.profile = space) /\ ("profile" \notin d.seen => t.profile = "none")
      BY ProfileAt
    <3>2. seen /\ space = "current" => "profile" \in d.seen
      BY DEF Required
    <3> QED BY <3>1, <3>2 DEF Fails
  <2>3. only = First(<<p, q, r>>)
    BY Zenon DEF SpaceCode
  <2> HIDE DEF only, p, q, r, seen, pair
  <2>4. only = "ok" <=> p = "ok" /\ q = "ok" /\ r = "ok"
    BY <2>3, TripleIff
  <2> QED BY <2>1, <2>2, <2>4, OneIff
<1>4. \A claim \in Spans : t[claim] = At(map, space, claim)
  BY SpansAt
<1>5. \A claim \in Spans : \A u, v \in t[claim] : u = v
  <2> SUFFICES ASSUME NEW claim \in Spans PROVE \A u, v \in At(map, space, claim) : u = v
    BY <1>4
  <2>1. claim \in DOMAIN LabelIn(space)
    BY DEF Spans, LabelIn, CurrentLabel, OldLabel
  <2> QED BY <2>1, AtRead
<1>6. ASSUME seen, NEW claim \in Spans \cap Required(space) PROVE t[claim] # {}
  <2>1. claim \in DOMAIN LabelIn(space)
    BY DEF Spans, LabelIn, CurrentLabel, OldLabel
  <2>2. At(map, space, claim) # {}
    BY <1>6, <2>1, AtRead
  <2> QED BY <1>4, <2>2
<1>7. {"nonce", "ueid", "impl"} \subseteq Spans \cap Required(space) /\ {"seed", "cert", "vsi"} \subseteq Spans
      /\ (space = "old" => "seed" \in Required(space))
  BY DEF Spans, Required
<1>8. seen => (a4 = "ok" <=> all("nonce"))
  <2> SUFFICES ASSUME seen PROVE a4 = "ok" <=> all("nonce")
    OBVIOUS
  <2>1. \A u, v \in t["nonce"] : u = v
    BY <1>5, <1>7
  <2>2. t["nonce"] # {}
    BY <1>6, <1>7
  <2>3. LenOf(t["nonce"]) \in HashLengths <=> \A v \in t["nonce"] : v.len \in HashLengths
    BY <2>1, <2>2, LenOfSpan
  <2> QED BY <2>3 DEF Closes, Fails
<1>9. seen => (a5 = "ok" <=> all("ueid"))
  <2> SUFFICES ASSUME seen PROVE a5 = "ok" <=> all("ueid")
    OBVIOUS
  <2>1. \A u, v \in t["ueid"] : u = v
    BY <1>5, <1>7
  <2>2. t["ueid"] # {}
    BY <1>6, <1>7
  <2> QED BY <2>1, <2>2 DEF Closes, Fails
<1>10. seen => (a6 = "ok" <=> all("impl"))
  <2> SUFFICES ASSUME seen PROVE a6 = "ok" <=> all("impl")
    OBVIOUS
  <2>1. \A u, v \in t["impl"] : u = v
    BY <1>5, <1>7
  <2>2. t["impl"] # {}
    BY <1>6, <1>7
  <2>3. LenOf(t["impl"]) \in {32} <=> \A v \in t["impl"] : v.len \in {32}
    BY <2>1, <2>2, LenOfSpan
  <2> QED BY <2>3 DEF Closes, Fails
<1>11. seen => (x = "ok" <=> all("seed"))
  <2> SUFFICES ASSUME seen PROVE x = "ok" <=> all("seed")
    OBVIOUS
  <2> DEFINE L == IF space = "current" THEN 8 .. 32 ELSE {32}
  <2>1. \A u, v \in t["seed"] : u = v
    BY <1>5, <1>7
  <2>2. space = "old" => t["seed"] # {}
    BY <1>6, <1>7
  <2>3. x = "ok" <=> IF space = "current" THEN t["seed"] = {} \/ LenOf(t["seed"]) \in 8 .. 32
                     ELSE LenOf(t["seed"]) = 32
    BY DEF SeedCode, Fails
  <2>4. x = "ok" <=> (space = "current" /\ t["seed"] = {}) \/ LenOf(t["seed"]) \in L
    BY <2>3
  <2>5. all("seed") <=> \A v \in t["seed"] : v.len \in L
    BY DEF Closes
  <2> HIDE DEF L, x
  <2>6. t["seed"] # {} => (LenOf(t["seed"]) \in L <=> \A v \in t["seed"] : v.len \in L)
    BY <2>1, LenOfSpan
  <2> HIDE DEF all
  <2>7. CASE t["seed"] # {}
    BY <2>4, <2>5, <2>6, <2>7
  <2>8. CASE t["seed"] = {}
    BY <2>2, <2>4, <2>5, <2>8
  <2> QED BY <2>7, <2>8
<1>12. y = "ok" <=> all("cert")
  BY DEF Closes, Fails
<1>13. all("vsi")
  BY DEF Closes
<1>14. EndCode(map, d.seen, d.spaces, t) = "ok" <=>
         /\ a1 = "ok" /\ a2 = "ok" /\ a3 = "ok" /\ a4 = "ok" /\ a5 = "ok" /\ a6 = "ok"
         /\ x = "ok" /\ y = "ok"
  <2>1. EndCode(map, d.seen, d.spaces, t) = First(<<a1, a2, a3, a4, a5, a6, a7>>)
    <3>1. The(d.spaces) = space /\ d.spaces # {}
      BY TheOne
    <3> QED BY <3>1, Zenon DEF EndCode
  <2> HIDE DEF a1, a2, a3, a4, a5, a6, x, y
  <2>2. a7 = "ok" <=> x = "ok" /\ y = "ok"
    BY PairIff
  <2> HIDE DEF a7
  <2> QED BY <2>1, <2>2, SevenIff
<1>15. (\A claim \in Spans : all(claim)) <=>
         all("nonce") /\ all("ueid") /\ all("impl") /\ all("seed") /\ all("cert")
  <2> HIDE DEF all
  <2> QED BY <1>13 DEF Spans
<1>16. WellFormed(map) <=> map.form # "trailing" /\ seen /\ pair /\ \A claim \in Spans : all(claim)
  BY ReadConforms
<1> HIDE DEF a1, a2, a3, a4, a5, a6, a7, x, y, all, seen, pair
<1> QED BY <1>1, <1>2, <1>3, <1>8, <1>9, <1>10, <1>11, <1>12, <1>14, <1>15, <1>16

\* A map without a claim is refused at its end, and conforms to no profile.
LEMMA NoClaims ==
    ASSUME NEW map, IsMap(map), NEW d, NEW t, Read(map, Len(map.items), d, t), d.spaces = {}
    PROVE  EndCode(map, d.seen, d.spaces, t) # "ok" /\ ~ WellFormed(map)
<1>1. EndCode(map, d.seen, d.spaces, t) # "ok"
  <2> DEFINE a2 == Fails(Cardinality(d.spaces) # 1, "profile")
             a1 == Fails(map.form = "trailing", "claim")
             a3 == First(<<"ok">>)
             a4 == Fails(LenOf(t.nonce) \notin HashLengths, "claim")
             a5 == Fails(\A u \in t.ueid : u.len # 33 \/ u.form # "random", "claim")
             a6 == Fails(LenOf(t.impl) # 32, "claim")
             a7 == "ok"
  <2>1. EndCode(map, d.seen, d.spaces, t) = First(<<a1, a2, a3, a4, a5, a6, a7>>)
    BY Zenon DEF EndCode
  <2>2. a2 # "ok"
    BY FS_EmptySet DEF Fails
  <2> HIDE DEF a1, a2, a3, a4, a5, a6, a7
  <2>3. First(<<a1, a2, a3, a4, a5, a6, a7>>) # "ok"
    BY <2>2, SevenIff
  <2> QED BY <2>1, <2>3
<1>2. ASSUME WellFormed(map) PROVE FALSE
  <2>1. map.type = "map"
    BY DEF Read
  <2>2. /\ DOMAIN map.items = 1 .. Len(map.items)
        /\ \A i \in DOMAIN map.items : IsValue(map.items[i].val)
    BY <2>1, MapParts
  <2>3. PICK space \in Namespaces : Conforms(map, space)
    BY <1>2 DEF WellFormed
  <2>4. space \in {"current", "old"}
    BY ProfilesAssumption
  <2>5. At(map, space, "nonce") # {}
    BY <2>2, <2>3, <2>4, ConformsExact DEF Required
  <2>6. PICK i \in DOMAIN map.items : map.items[i].label = IntLabel(LabelIn(space)["nonce"])
    BY <2>5 DEF At
  <2>7. "nonce" \in DOMAIN LabelIn(space)
    BY <2>4 DEF LabelIn, CurrentLabel, OldLabel
  <2>8. Known(map.items[i].label)
    BY <2>4, <2>6, <2>7, LabelExact
  <2>9. i \in KnownTo(map, Len(map.items))
    BY <2>2, <2>8 DEF KnownTo
  <2> QED BY <2>9 DEF Read
<1> QED BY <1>1, <1>2

LEMMA ToldExact ==
    ASSUME NEW map, NEW d, NEW t, NEW space, ReadAll(map, d, t, space),
           t = [f \in DOMAIN NoToken |-> t[f]], WellFormed(map)
    PROVE  [t EXCEPT !.profile = space] = Told(map, "none")
<1>0. /\ IsMap(map) /\ Read(map, Len(map.items), d, t)
      /\ space \in {"current", "old"} /\ d.spaces = {space}
  BY DEF ReadAll
<1> USE <1>0
<1>1. /\ space \in Namespaces /\ Conforms(map, space) /\ Required(space) \subseteq d.seen
      /\ \A other \in {"current", "old"} : Conforms(map, other) => other = space
  BY ReadConforms
<1>2. space = CHOOSE s \in Namespaces : Conforms(map, s)
  <2>1. \A s \in Namespaces : Conforms(map, s) <=> s = space
    BY <1>1, ProfilesAssumption
  <2> QED BY <2>1
<1>3. /\ t.nonce = At(map, space, "nonce") /\ t.ueid = At(map, space, "ueid")
      /\ t.impl = At(map, space, "impl") /\ t.seed = At(map, space, "seed")
      /\ t.cert = At(map, space, "cert") /\ t.vsi = At(map, space, "vsi")
  <2>1. \A claim \in Spans : t[claim] = At(map, space, claim)
    BY SpansAt
  <2> QED BY <2>1 DEF Spans
<1>4. {"client", "lifecycle"} \subseteq d.seen
  BY <1>1 DEF Required
<1>5. /\ t.client = The({v.num : v \in At(map, space, "client")})
      /\ t.lifecycle = The({v.num : v \in At(map, space, "lifecycle")})
  BY <1>4, NumberAt
<1>8. t.components = {v.items : v \in At(map, space, "components")} /\ t.protection = "none"
  BY ComponentsAt, ProtectionAt
<1>7. t.unmeasured = (At(map, space, "unmeasured") # {})
  BY UnmeasuredAt, Zenon
<1>6. [t EXCEPT !.profile = space] =
        [profile |-> space, protection |-> t.protection, nonce |-> t.nonce, ueid |-> t.ueid,
         impl |-> t.impl, seed |-> t.seed, cert |-> t.cert, vsi |-> t.vsi, client |-> t.client,
         lifecycle |-> t.lifecycle, components |-> t.components, unmeasured |-> t.unmeasured]
  <2> DEFINE u == [profile |-> space, protection |-> t.protection, nonce |-> t.nonce, ueid |-> t.ueid,
         impl |-> t.impl, seed |-> t.seed, cert |-> t.cert, vsi |-> t.vsi, client |-> t.client,
         lifecycle |-> t.lifecycle, components |-> t.components, unmeasured |-> t.unmeasured]
  <2>1. DOMAIN u = DOMAIN NoToken
    BY DEF NoToken
  <2>2. \A f \in DOMAIN NoToken : u[f] = IF f = "profile" THEN space ELSE t[f]
    BY DEF NoToken
  <2>3. u = [f \in DOMAIN NoToken |-> IF f = "profile" THEN space ELSE t[f]]
    <3>1. u = [f \in DOMAIN u |-> u[f]]
      OBVIOUS
    <3> HIDE DEF u
    <3> QED BY <2>1, <2>2, <3>1
  <2>4. [t EXCEPT !.profile = space] = [f \in DOMAIN NoToken |-> IF f = "profile" THEN space ELSE t[f]]
    OBVIOUS
  <2> QED BY <2>3, <2>4
<1> QED BY <1>2, <1>3, <1>5, <1>6, <1>7, <1>8, Zenon DEF Told

-----------------------------------------------------------------------------
(* The maps an issuer encodes.                                             *)

\* The pairs of a map with distinct integer labels, none above n.
Upto(s, pairs, n) ==
    /\ IsArray(s)
    /\ pairs = {s[i] : i \in 1 .. Len(s)}
    /\ \A i, j \in 1 .. Len(s) : s[i].label = s[j].label => i = j
    /\ \A i \in 1 .. Len(s) : \E m \in Int : m <= n /\ s[i].label = IntLabel(m)

LEMMA ArraySeq ==
    ASSUME NEW items, IsArray(items)
    PROVE  items \in Seq({items[i] : i \in 1 .. Len(items)})
<1> DEFINE S == {items[i] : i \in 1 .. Len(items)}
<1>1. items \in [1 .. Len(items) -> S] /\ Len(items) \in Nat
  BY DEF IsArray
<1> HIDE DEF S
<1>2. items \in Seq(S)
  BY <1>1, SeqDef
<1> QED BY <1>2 DEF S

\* One more pair, with a label above the others.
LEMMA OneMore ==
    ASSUME NEW s, NEW pairs, NEW n \in Int, Upto(s, pairs, n), NEW m \in Int, n < m, NEW v
    PROVE  LET w == s \o <<Pair(m, v)>>
           IN  Upto(w, pairs \cup {Pair(m, v)}, m) /\ Len(w) = Len(s) + 1
<1> DEFINE p == Pair(m, v)
           S == {s[i] : i \in 1 .. Len(s)} \cup {p}
           w == s \o <<p>>
           k == Len(s)
<1>1. k \in Nat /\ s \in Seq(S) /\ <<p>> \in Seq(S) /\ Len(<<p>>) = 1 /\ <<p>>[1] = p
  <2>1. k \in Nat /\ s \in [1 .. k -> S]
    BY DEF Upto, IsArray
  <2>2. p \in S
    OBVIOUS
  <2> HIDE DEF S, p
  <2> QED BY <2>1, <2>2, SeqDef
<1> HIDE DEF S
<1>2. /\ w \in Seq(S) /\ Len(w) = k + 1
      /\ \A i \in 1 .. k : w[i] = s[i]
      /\ w[k + 1] = p
  <2> HIDE DEF p
  <2>1. /\ w \in Seq(S) /\ Len(w) = k + 1
        /\ \A i \in 1 .. k + 1 : w[i] = IF i <= k THEN s[i] ELSE <<p>>[i - k]
    BY <1>1, ConcatProperties
  <2> QED BY <1>1, <2>1
<1>3. p.label = IntLabel(m)
  BY DEF Pair
<1> HIDE DEF w, k, p
<1>4. IsArray(w)
  BY <1>1, <1>2, LenProperties DEF IsArray
<1>5. \A i \in 1 .. k : \E x \in Int : x <= n /\ s[i].label = IntLabel(x)
  BY DEF Upto, k
<1>6. \A i \in 1 .. Len(w) : \E x \in Int : x <= m /\ w[i].label = IntLabel(x)
  <2> SUFFICES ASSUME NEW i \in 1 .. Len(w) PROVE \E x \in Int : x <= m /\ w[i].label = IntLabel(x)
    OBVIOUS
  <2>1. CASE i = k + 1
    BY <1>2, <1>3, <2>1
  <2>2. CASE i # k + 1
    <3>1. i \in 1 .. k
      BY <1>1, <1>2, <2>2
    <3>2. PICK x \in Int : x <= n /\ s[i].label = IntLabel(x)
      BY <1>5, <3>1
    <3>3. x <= m /\ w[i] = s[i]
      BY <1>2, <3>1, <3>2
    <3> QED BY <3>2, <3>3
  <2> QED BY <2>1, <2>2
<1>7. \A i \in 1 .. k : s[i].label # p.label
  <2> SUFFICES ASSUME NEW i \in 1 .. k, s[i].label = p.label PROVE FALSE
    OBVIOUS
  <2>1. PICK x \in Int : x <= n /\ s[i].label = IntLabel(x)
    BY <1>5
  <2>2. IntLabel(x).val = x /\ IntLabel(m).val = m
    BY DEF IntLabel
  <2> QED BY <1>3, <2>1, <2>2
<1>8. \A i, j \in 1 .. Len(w) : w[i].label = w[j].label => i = j
  <2> SUFFICES ASSUME NEW i \in 1 .. Len(w), NEW j \in 1 .. Len(w), w[i].label = w[j].label
               PROVE  i = j
    OBVIOUS
  <2>1. \A x, y \in 1 .. k : s[x].label = s[y].label => x = y
    BY DEF Upto, k
  <2>2. (i = k + 1 \/ i \in 1 .. k) /\ (j = k + 1 \/ j \in 1 .. k)
    BY <1>1, <1>2
  <2>3. CASE i = k + 1 /\ j = k + 1
    BY <2>3
  <2>4. CASE i \in 1 .. k /\ j \in 1 .. k
    BY <1>2, <2>1, <2>4
  <2>5. CASE i = k + 1 /\ j \in 1 .. k
    BY <1>2, <1>7, <2>5
  <2>6. CASE i \in 1 .. k /\ j = k + 1
    BY <1>2, <1>7, <2>6
  <2> QED BY <2>2, <2>3, <2>4, <2>5, <2>6
<1>9. pairs \cup {p} = {w[i] : i \in 1 .. Len(w)}
  <2>1. pairs = {s[i] : i \in 1 .. k}
    BY DEF Upto, k
  <2>2. 1 .. Len(w) = (1 .. k) \cup {k + 1}
    BY <1>1, <1>2
  <2> QED BY <1>2, <2>1, <2>2
<1>10. Upto(w, pairs \cup {p}, m)
  BY <1>4, <1>6, <1>8, <1>9 DEF Upto
<1> QED BY <1>2, <1>10 DEF w, p, k

Pairs(n, span) == {Pair(n, v) : v \in span}

\* One more string, if it is there.
LEMMA MaybeMore ==
    ASSUME NEW s, NEW pairs, NEW n \in Int, Upto(s, pairs, n), NEW m \in Int, n < m,
           NEW span, \A x, y \in span : x = y
    PROVE  LET w == s \o Optional(m, span)
           IN  Upto(w, pairs \cup Pairs(m, span), m) /\ Len(w) \in Len(s) .. Len(s) + 1
<1>1. IsArray(s) /\ Len(s) \in Nat
  BY DEF Upto, IsArray
<1>2. CASE span = {}
  <2>1. Optional(m, span) = <<>> /\ Pairs(m, span) = {}
    BY <1>2 DEF Optional, Pairs
  <2>2. s \o <<>> = s
    <3> DEFINE S == {s[i] : i \in 1 .. Len(s)}
    <3>1. s \in Seq(S)
      BY <1>1, ArraySeq
    <3> HIDE DEF S
    <3> QED BY <3>1, ConcatEmptySeq, Zenon
  <2>3. Upto(s, pairs, m)
    <3>1. \A i \in 1 .. Len(s) : \E x \in Int : x <= m /\ s[i].label = IntLabel(x)
      <4> SUFFICES ASSUME NEW i \in 1 .. Len(s) PROVE \E x \in Int : x <= m /\ s[i].label = IntLabel(x)
        OBVIOUS
      <4>1. PICK x \in Int : x <= n /\ s[i].label = IntLabel(x)
        BY DEF Upto
      <4>2. x <= m
        BY <4>1
      <4> QED BY <4>1, <4>2
    <3> QED BY <3>1 DEF Upto
  <2> QED BY <1>1, <2>1, <2>2, <2>3
<1>3. ASSUME NEW v \in span PROVE span = {v}
  BY <1>3
<1>4. CASE span # {}
  <2>1. PICK v : span = {v}
    BY <1>3, <1>4
  <2>2. Optional(m, span) = <<Pair(m, v)>>
    BY <2>1, TheOne DEF Optional
  <2>3. Pairs(m, span) = {Pair(m, v)}
    BY <2>1 DEF Pairs
  <2> QED BY <1>1, <2>2, <2>3, OneMore
<1> QED BY <1>2, <1>4

LEMMA NoPairs == Upto(<<>>, {}, 0) /\ Len(<<>>) = 0
BY DEF Upto, IsArray

LEMMA EmptyFirst == ASSUME NEW n, NEW span PROVE <<>> \o Optional(n, span) = Optional(n, span)
<1> DEFINE p == Pair(n, The(span))
           S == {p}
<1>1. Optional(n, span) \in Seq(S)
  <2>1. Optional(n, span) = <<>> \/ Optional(n, span) = <<p>>
    BY Zenon DEF Optional
  <2>2. p \in S
    OBVIOUS
  <2> HIDE DEF p, S
  <2>3. <<>> \in Seq(S) /\ <<p>> \in Seq(S)
    BY <2>2
  <2> QED BY Zenon, <2>1, <2>3
<1> HIDE DEF S
<1> QED BY <1>1, ConcatEmptySeq, Zenon

Single(span) == \A x, y \in span : x = y

\* Of at most k pairs with labels up to n,
Chain(s, pairs, n, k) == Upto(s, pairs, n) /\ Len(s) <= k

\* s with the pairs, and one more.
Adds(w, q, s, pairs, m, span) ==
    w = s \o Optional(m, span) /\ q = pairs \cup Pairs(m, span) /\ Single(span)

LEMMA Lengthen ==
    ASSUME NEW s, NEW pairs, NEW n \in Int, NEW k \in Int, Chain(s, pairs, n, k),
           NEW m \in Int, n < m, NEW j \in Int, j = k + 1,
           NEW span, NEW w, NEW q, Adds(w, q, s, pairs, m, span)
    PROVE  Chain(w, q, m, j)
<1>1. w = s \o Optional(m, span) /\ q = pairs \cup Pairs(m, span) /\ \A x, y \in span : x = y
  BY Zenon DEF Adds, Single
<1>2. Upto(w, q, m) /\ Len(w) \in Len(s) .. Len(s) + 1
  BY <1>1, MaybeMore DEF Chain
<1>3. Len(s) \in Nat
  BY DEF Chain, Upto, IsArray
<1> QED BY <1>2, <1>3 DEF Chain

LEMMA OneSpan ==
    ASSUME NEW m, NEW v
    PROVE  Optional(m, {v}) = <<Pair(m, v)>> /\ Pairs(m, {v}) = {Pair(m, v)} /\ Single({v})
BY TheOne DEF Optional, Pairs, Single

\* A claim that is always there.
Only(v) == {v}

LEMMA AddsOne ==
    ASSUME NEW s, NEW pairs, NEW m, NEW v
    PROVE  Adds(s \o <<Pair(m, v)>>, pairs \cup Pairs(m, Only(v)), s, pairs, m, Only(v))
<1>1. Optional(m, {v}) = <<Pair(m, v)>> /\ Single({v})
  BY Zenon, OneSpan
<1> QED BY <1>1 DEF Adds, Only

\* The pairs of a component, of a map of claims.
ComponentPairs(c) ==
    Pairs(1, c.type) \cup Pairs(2, c.value) \cup Pairs(4, c.version)
    \cup Pairs(5, c.signer) \cup Pairs(6, c.desc)

ListOf(c) == Value("array", 0, "", 0,
                   [i \in DOMAIN c.components |-> EncodeComponent(c.components[i])])
ProfileValue == Value("tstr", 32, "tfm", 0, <<>>)

ClaimPairs(c) ==
    Pairs(10, c.nonce) \cup Pairs(256, c.ueid) \cup Pairs(265, Only(ProfileValue))
    \cup Pairs(268, c.seed) \cup Pairs(2394, Only(IntValue(c.client)))
    \cup Pairs(2395, Only(IntValue(c.lifecycle))) \cup Pairs(2396, c.impl)
    \cup Pairs(2398, c.cert) \cup Pairs(2399, Only(ListOf(c))) \cup Pairs(2400, c.vsi)

LEMMA EncodedComponent ==
    ASSUME NEW c, IsComponent(c)
    PROVE  Upto(EncodeComponent(c).items, ComponentPairs(c), 6) /\ Len(EncodeComponent(c).items) <= 5
<1>1. /\ Single(c.type)
      /\ Single(c.value)
      /\ Single(c.version)
      /\ Single(c.signer)
      /\ Single(c.desc)
  BY DEF Single, IsComponent, IsText, IsSpan
<1> DEFINE s1 == Optional(1, c.type)
           p1 == Pairs(1, c.type)
           s2 == s1 \o Optional(2, c.value)
           p2 == p1 \cup Pairs(2, c.value)
           s3 == s2 \o Optional(4, c.version)
           p3 == p2 \cup Pairs(4, c.version)
           s4 == s3 \o Optional(5, c.signer)
           p4 == p3 \cup Pairs(5, c.signer)
           s5 == s4 \o Optional(6, c.desc)
           p5 == p4 \cup Pairs(6, c.desc)
<1>2. /\ Adds(s1, p1, <<>>, {}, 1, c.type)
      /\ Adds(s2, p2, s1, p1, 2, c.value)
      /\ Adds(s3, p3, s2, p2, 4, c.version)
      /\ Adds(s4, p4, s3, p3, 5, c.signer)
      /\ Adds(s5, p5, s4, p4, 6, c.desc)
  <2>1. Adds(s1, p1, <<>>, {}, 1, c.type)
    BY Zenon, <1>1, EmptyFirst DEF Adds
  <2> HIDE DEF s1, p1
  <2>2. Adds(s2, p2, s1, p1, 2, c.value)
    BY Zenon, <1>1 DEF Adds
  <2> HIDE DEF s2, p2
  <2>3. Adds(s3, p3, s2, p2, 4, c.version)
    BY Zenon, <1>1 DEF Adds
  <2> HIDE DEF s3, p3
  <2>4. Adds(s4, p4, s3, p3, 5, c.signer)
    BY Zenon, <1>1 DEF Adds
  <2> HIDE DEF s4, p4
  <2>5. Adds(s5, p5, s4, p4, 6, c.desc)
    BY Zenon, <1>1 DEF Adds
  <2> HIDE DEF s5, p5
  <2> QED BY <2>1, <2>2, <2>3, <2>4, <2>5
<1>3. EncodeComponent(c).items = s5
  BY Zenon, EmptyFirst DEF EncodeComponent, Value
<1>4. p5 = ComponentPairs(c)
  BY Zenon DEF ComponentPairs
<1> HIDE DEF s1, s2, s3, s4, s5, p1, p2, p3, p4, p5
<1>5. Chain(<<>>, {}, 0, 0)
  BY NoPairs DEF Chain
<1>6. Chain(s1, p1, 1, 1)
  BY <1>2, <1>5, Lengthen
<1>7. Chain(s2, p2, 2, 2)
  BY <1>2, <1>6, Lengthen
<1>8. Chain(s3, p3, 4, 3)
  BY <1>2, <1>7, Lengthen
<1>9. Chain(s4, p4, 5, 4)
  BY <1>2, <1>8, Lengthen
<1>10. Chain(s5, p5, 6, 5)
  BY <1>2, <1>9, Lengthen
<1> QED BY <1>4, <1>10, <1>3 DEF Chain

\* Two pairs written at once.
LEMMA TwoMore ==
    ASSUME NEW T, NEW s \in Seq(T), NEW x, NEW y
    PROVE  s \o <<x, y>> = s \o <<x>> \o <<y>>
<1> DEFINE S == T \cup {x, y}
<1>1. s \in Seq(S)
  OBVIOUS
<1>2. x \in S /\ y \in S
  OBVIOUS
<1> HIDE DEF S
<1>3. <<x>> \in Seq(S) /\ <<y>> \in Seq(S)
  BY <1>2
<1>4. <<x>> \o <<y>> = <<x, y>>
  <2> DEFINE w == <<x>> \o <<y>>
  <2>1. w \in Seq(S) /\ Len(w) = 2 /\ w[1] = x /\ w[2] = y
    BY <1>3, ConcatProperties
  <2> HIDE DEF w
  <2>2. w = [i \in 1 .. 2 |-> w[i]]
    BY <2>1, LenProperties
  <2>3. <<x, y>> = [i \in 1 .. 2 |-> <<x, y>>[i]]
    OBVIOUS
  <2>4. w = <<x, y>>
    BY <2>1, <2>2, <2>3
  <2> QED BY <2>4 DEF w
<1>5. (s \o <<x>>) \o <<y>> = s \o (<<x>> \o <<y>>)
  BY <1>1, <1>3, ConcatAssociative
<1> QED BY Zenon, <1>4, <1>5

LEMMA EncodedClaims ==
    ASSUME NEW c, IsClaims(c)
    PROVE  Upto(Encoded(c).items, ClaimPairs(c), 2400) /\ Len(Encoded(c).items) <= 10
<1>1. Single(c.nonce) /\ Single(c.ueid) /\ Single(c.seed) /\ Single(c.impl) /\ Single(c.cert) /\ Single(c.vsi)
  BY DEF Single, IsClaims, IsText, IsSpan
<1> DEFINE number == IntValue(c.client)
           stage  == IntValue(c.lifecycle)
           list   == ListOf(c)
           client == Pair(2394, number)
           cycle  == Pair(2395, stage)
           s1 == Optional(10, c.nonce)
           p1 == Pairs(10, c.nonce)
           s2 == s1 \o Optional(256, c.ueid)
           p2 == p1 \cup Pairs(256, c.ueid)
           s3 == s2 \o <<Pair(265, ProfileValue)>>
           p3 == p2 \cup Pairs(265, Only(ProfileValue))
           s4 == s3 \o Optional(268, c.seed)
           p4 == p3 \cup Pairs(268, c.seed)
           s5 == s4 \o <<client>>
           p5 == p4 \cup Pairs(2394, Only(number))
           s6 == s4 \o <<client, cycle>>
           p6 == p5 \cup Pairs(2395, Only(stage))
           s7 == s6 \o Optional(2396, c.impl)
           p7 == p6 \cup Pairs(2396, c.impl)
           s8 == s7 \o Optional(2398, c.cert)
           p8 == p7 \cup Pairs(2398, c.cert)
           s9 == s8 \o <<Pair(2399, list)>>
           p9 == p8 \cup Pairs(2399, Only(list))
           s10 == s9 \o Optional(2400, c.vsi)
           p10 == p9 \cup Pairs(2400, c.vsi)
<1>2. Encoded(c).items = s10
  BY Zenon DEF Encoded, Value, ListOf, ProfileValue
<1>3. p10 = ClaimPairs(c)
  BY Zenon DEF ClaimPairs
<1> HIDE DEF number, stage, list
<1>4. Chain(<<>>, {}, 0, 0)
  BY NoPairs DEF Chain
<1>5. Chain(s1, p1, 10, 1)
  <2>1. Adds(s1, p1, <<>>, {}, 10, c.nonce)
    BY Zenon, <1>1, EmptyFirst DEF Adds
  <2> HIDE DEF s1, p1
  <2> QED BY <1>4, <2>1, Lengthen
<1> HIDE DEF s1, p1
<1>6. Chain(s2, p2, 256, 2)
  <2>1. Adds(s2, p2, s1, p1, 256, c.ueid)
    BY Zenon, <1>1 DEF Adds
  <2> HIDE DEF s2, p2
  <2> QED BY <1>5, <2>1, Lengthen
<1> HIDE DEF s2, p2
<1>7. Chain(s3, p3, 265, 3)
  <2>1. Adds(s3, p3, s2, p2, 265, Only(ProfileValue))
    BY AddsOne
  <2> HIDE DEF s3, p3
  <2> QED BY <1>6, <2>1, Lengthen
<1> HIDE DEF s3, p3
<1>8. Chain(s4, p4, 268, 4)
  <2>1. Adds(s4, p4, s3, p3, 268, c.seed)
    BY Zenon, <1>1 DEF Adds
  <2> HIDE DEF s4, p4
  <2> QED BY <1>7, <2>1, Lengthen
<1> HIDE DEF s4, p4
<1>9. Chain(s5, p5, 2394, 5)
  <2>1. Adds(s5, p5, s4, p4, 2394, Only(number))
    BY AddsOne
  <2> HIDE DEF s5, p5
  <2> QED BY <1>8, <2>1, Lengthen
<1> HIDE DEF p5
<1>10. Chain(s6, p6, 2395, 6)
  <2>1. s6 = s5 \o <<cycle>>
    <3> HIDE DEF client, cycle, s4
    <3>1. s4 \in Seq({s4[i] : i \in 1 .. Len(s4)})
      BY <1>8, ArraySeq DEF Chain, Upto
    <3> QED BY <3>1, TwoMore
  <2> HIDE DEF s5
  <2>2. Adds(s6, p6, s5, p5, 2395, Only(stage))
    <3> DEFINE w == s5 \o <<cycle>>
    <3>1. Adds(w, p6, s5, p5, 2395, Only(stage)) /\ s6 = w
      BY <2>1, AddsOne
    <3> HIDE DEF s6, p6, w
    <3> QED BY <3>1
  <2> HIDE DEF s6, p6
  <2> QED BY <1>9, <2>2, Lengthen
<1> HIDE DEF s5, s6, p6
<1>11. Chain(s7, p7, 2396, 7)
  <2>1. Adds(s7, p7, s6, p6, 2396, c.impl)
    BY Zenon, <1>1 DEF Adds
  <2> HIDE DEF s7, p7
  <2> QED BY <1>10, <2>1, Lengthen
<1> HIDE DEF s7, p7
<1>12. Chain(s8, p8, 2398, 8)
  <2>1. Adds(s8, p8, s7, p7, 2398, c.cert)
    BY Zenon, <1>1 DEF Adds
  <2> HIDE DEF s8, p8
  <2> QED BY <1>11, <2>1, Lengthen
<1> HIDE DEF s8, p8
<1>13. Chain(s9, p9, 2399, 9)
  <2>1. Adds(s9, p9, s8, p8, 2399, Only(list))
    BY AddsOne
  <2> HIDE DEF s9, p9
  <2> QED BY <1>12, <2>1, Lengthen
<1> HIDE DEF s9, p9
<1>14. Chain(s10, p10, 2400, 10)
  <2>1. Adds(s10, p10, s9, p9, 2400, c.vsi)
    BY Zenon, <1>1 DEF Adds
  <2> HIDE DEF s10, p10
  <2> QED BY <1>13, <2>1, Lengthen
<1> HIDE DEF s10, p10
<1> QED BY <1>2, <1>3, <1>14 DEF Chain

\* The values under a label.
Under(pairs, n) == {p.val : p \in {x \in pairs : x.label = IntLabel(n)}}

LEMMA UnderOne == ASSUME NEW m, NEW span, NEW n PROVE Under(Pairs(m, span), n) = IF m = n THEN span ELSE {}
<1>1. \A v : Pair(m, v).val = v /\ (Pair(m, v).label = IntLabel(n) <=> m = n)
  BY DEF Pair, IntLabel
<1> QED BY <1>1 DEF Under, Pairs

LEMMA UnderBoth == ASSUME NEW a, NEW b, NEW n PROVE Under(a \cup b, n) = Under(a, n) \cup Under(b, n)
BY DEF Under

LEMMA UnderItems ==
    ASSUME NEW s, NEW pairs, NEW k, Upto(s, pairs, k), NEW n
    PROVE  {s[i].val : i \in {j \in DOMAIN s : s[j].label = IntLabel(n)}} = Under(pairs, n)
<1>1. DOMAIN s = 1 .. Len(s) /\ pairs = {s[i] : i \in 1 .. Len(s)}
  BY DEF Upto, IsArray
<1> QED BY <1>1 DEF Under

Joined(b, a, m, span) == b = a \cup Pairs(m, span)

LEMMA UnderMore ==
    ASSUME NEW a, NEW b, NEW m, NEW span, Joined(b, a, m, span)
    PROVE  /\ \A n : n # m => Under(b, n) = Under(a, n)
           /\ Under(a, m) = {} => Under(b, m) = span
<1>1. \A n : Under(b, n) = Under(a, n) \cup Under(Pairs(m, span), n)
  BY UnderBoth DEF Joined
<1>2. \A n : Under(Pairs(m, span), n) = IF m = n THEN span ELSE {}
  BY UnderOne
<1>3. ASSUME NEW n, n # m PROVE Under(b, n) = Under(a, n)
  BY <1>1, <1>2, <1>3
<1>4. ASSUME Under(a, m) = {} PROVE Under(b, m) = span
  BY <1>1, <1>2, <1>4
<1> QED BY <1>3, <1>4

LEMMA UnderClaim ==
    ASSUME NEW c
    PROVE  /\ Under(ClaimPairs(c), 10) = c.nonce /\ Under(ClaimPairs(c), 256) = c.ueid
           /\ Under(ClaimPairs(c), 265) = {ProfileValue} /\ Under(ClaimPairs(c), 268) = c.seed
           /\ Under(ClaimPairs(c), 2394) = {IntValue(c.client)}
           /\ Under(ClaimPairs(c), 2395) = {IntValue(c.lifecycle)}
           /\ Under(ClaimPairs(c), 2396) = c.impl /\ Under(ClaimPairs(c), 2398) = c.cert
           /\ Under(ClaimPairs(c), 2399) = {ListOf(c)} /\ Under(ClaimPairs(c), 2400) = c.vsi
<1> DEFINE y0 == {}
           y1 == Pairs(10, c.nonce)
           y2 == y1 \cup Pairs(256, c.ueid)
           y3 == y2 \cup Pairs(265, Only(ProfileValue))
           y4 == y3 \cup Pairs(268, c.seed)
           y5 == y4 \cup Pairs(2394, Only(IntValue(c.client)))
           y6 == y5 \cup Pairs(2395, Only(IntValue(c.lifecycle)))
           y7 == y6 \cup Pairs(2396, c.impl)
           y8 == y7 \cup Pairs(2398, c.cert)
           y9 == y8 \cup Pairs(2399, Only(ListOf(c)))
           y10 == y9 \cup Pairs(2400, c.vsi)
<1>1. ClaimPairs(c) = y10
  BY Zenon DEF ClaimPairs
<1>2. \A n : Under(y0, n) = {}
  BY DEF Under
<1>3. /\ Under(y1, 10) = c.nonce
       /\ \A n \in {256, 265, 268, 2394, 2395, 2396, 2398, 2399, 2400} : Under(y1, n) = {}
  <2>1. Joined(y1, y0, 10, c.nonce)
    BY DEF Joined
  <2> HIDE DEF y0, y1
  <2> QED BY <1>2, <2>1, UnderMore
<1> HIDE DEF y0
<1>4. /\ Under(y2, 10) = c.nonce
       /\ Under(y2, 256) = c.ueid
       /\ \A n \in {265, 268, 2394, 2395, 2396, 2398, 2399, 2400} : Under(y2, n) = {}
  <2>1. Joined(y2, y1, 256, c.ueid)
    BY DEF Joined
  <2> HIDE DEF y1, y2
  <2> QED BY <1>3, <2>1, UnderMore
<1> HIDE DEF y1
<1>5. /\ Under(y3, 10) = c.nonce
       /\ Under(y3, 256) = c.ueid
       /\ Under(y3, 265) = Only(ProfileValue)
       /\ \A n \in {268, 2394, 2395, 2396, 2398, 2399, 2400} : Under(y3, n) = {}
  <2>1. Joined(y3, y2, 265, Only(ProfileValue))
    BY DEF Joined
  <2> HIDE DEF y2, y3
  <2> QED BY <1>4, <2>1, UnderMore
<1> HIDE DEF y2
<1>6. /\ Under(y4, 10) = c.nonce
       /\ Under(y4, 256) = c.ueid
       /\ Under(y4, 265) = Only(ProfileValue)
       /\ Under(y4, 268) = c.seed
       /\ \A n \in {2394, 2395, 2396, 2398, 2399, 2400} : Under(y4, n) = {}
  <2>1. Joined(y4, y3, 268, c.seed)
    BY DEF Joined
  <2> HIDE DEF y3, y4
  <2> QED BY <1>5, <2>1, UnderMore
<1> HIDE DEF y3
<1>7. /\ Under(y5, 10) = c.nonce
       /\ Under(y5, 256) = c.ueid
       /\ Under(y5, 265) = Only(ProfileValue)
       /\ Under(y5, 268) = c.seed
       /\ Under(y5, 2394) = Only(IntValue(c.client))
       /\ \A n \in {2395, 2396, 2398, 2399, 2400} : Under(y5, n) = {}
  <2>1. Joined(y5, y4, 2394, Only(IntValue(c.client)))
    BY DEF Joined
  <2> HIDE DEF y4, y5
  <2> QED BY <1>6, <2>1, UnderMore
<1> HIDE DEF y4
<1>8. /\ Under(y6, 10) = c.nonce
       /\ Under(y6, 256) = c.ueid
       /\ Under(y6, 265) = Only(ProfileValue)
       /\ Under(y6, 268) = c.seed
       /\ Under(y6, 2394) = Only(IntValue(c.client))
       /\ Under(y6, 2395) = Only(IntValue(c.lifecycle))
       /\ \A n \in {2396, 2398, 2399, 2400} : Under(y6, n) = {}
  <2>1. Joined(y6, y5, 2395, Only(IntValue(c.lifecycle)))
    BY DEF Joined
  <2> HIDE DEF y5, y6
  <2> QED BY <1>7, <2>1, UnderMore
<1> HIDE DEF y5
<1>9. /\ Under(y7, 10) = c.nonce
       /\ Under(y7, 256) = c.ueid
       /\ Under(y7, 265) = Only(ProfileValue)
       /\ Under(y7, 268) = c.seed
       /\ Under(y7, 2394) = Only(IntValue(c.client))
       /\ Under(y7, 2395) = Only(IntValue(c.lifecycle))
       /\ Under(y7, 2396) = c.impl
       /\ \A n \in {2398, 2399, 2400} : Under(y7, n) = {}
  <2>1. Joined(y7, y6, 2396, c.impl)
    BY DEF Joined
  <2> HIDE DEF y6, y7
  <2> QED BY <1>8, <2>1, UnderMore
<1> HIDE DEF y6
<1>10. /\ Under(y8, 10) = c.nonce
       /\ Under(y8, 256) = c.ueid
       /\ Under(y8, 265) = Only(ProfileValue)
       /\ Under(y8, 268) = c.seed
       /\ Under(y8, 2394) = Only(IntValue(c.client))
       /\ Under(y8, 2395) = Only(IntValue(c.lifecycle))
       /\ Under(y8, 2396) = c.impl
       /\ Under(y8, 2398) = c.cert
       /\ \A n \in {2399, 2400} : Under(y8, n) = {}
  <2>1. Joined(y8, y7, 2398, c.cert)
    BY DEF Joined
  <2> HIDE DEF y7, y8
  <2> QED BY <1>9, <2>1, UnderMore
<1> HIDE DEF y7
<1>11. /\ Under(y9, 10) = c.nonce
       /\ Under(y9, 256) = c.ueid
       /\ Under(y9, 265) = Only(ProfileValue)
       /\ Under(y9, 268) = c.seed
       /\ Under(y9, 2394) = Only(IntValue(c.client))
       /\ Under(y9, 2395) = Only(IntValue(c.lifecycle))
       /\ Under(y9, 2396) = c.impl
       /\ Under(y9, 2398) = c.cert
       /\ Under(y9, 2399) = Only(ListOf(c))
       /\ \A n \in {2400} : Under(y9, n) = {}
  <2>1. Joined(y9, y8, 2399, Only(ListOf(c)))
    BY DEF Joined
  <2> HIDE DEF y8, y9
  <2> QED BY <1>10, <2>1, UnderMore
<1> HIDE DEF y8
<1>12. /\ Under(y10, 10) = c.nonce
       /\ Under(y10, 256) = c.ueid
       /\ Under(y10, 265) = Only(ProfileValue)
       /\ Under(y10, 268) = c.seed
       /\ Under(y10, 2394) = Only(IntValue(c.client))
       /\ Under(y10, 2395) = Only(IntValue(c.lifecycle))
       /\ Under(y10, 2396) = c.impl
       /\ Under(y10, 2398) = c.cert
       /\ Under(y10, 2399) = Only(ListOf(c))
       /\ Under(y10, 2400) = c.vsi
  <2>1. Joined(y10, y9, 2400, c.vsi)
    BY DEF Joined
  <2> HIDE DEF y9, y10
  <2> QED BY <1>11, <2>1, UnderMore
<1> HIDE DEF y9
<1> QED BY <1>1, <1>12 DEF Only

LEMMA UnderPart ==
    ASSUME NEW c
    PROVE  /\ Under(ComponentPairs(c), 1) = c.type /\ Under(ComponentPairs(c), 2) = c.value
           /\ Under(ComponentPairs(c), 4) = c.version /\ Under(ComponentPairs(c), 5) = c.signer
           /\ Under(ComponentPairs(c), 6) = c.desc
<1> DEFINE x1 == Pairs(1, c.type)
           x2 == Pairs(2, c.value)
           x3 == Pairs(4, c.version)
           x4 == Pairs(5, c.signer)
           x5 == Pairs(6, c.desc)
           y2 == x1 \cup x2
           y3 == y2 \cup x3
           y4 == y3 \cup x4
           y5 == y4 \cup x5
<1>1. ComponentPairs(c) = y5
  BY Zenon DEF ComponentPairs
<1>2. /\ \A n : Under(x1, n) = IF 1 = n THEN c.type ELSE {}
      /\ \A n : Under(x2, n) = IF 2 = n THEN c.value ELSE {}
      /\ \A n : Under(x3, n) = IF 4 = n THEN c.version ELSE {}
      /\ \A n : Under(x4, n) = IF 5 = n THEN c.signer ELSE {}
      /\ \A n : Under(x5, n) = IF 6 = n THEN c.desc ELSE {}
  BY UnderOne DEF Only
<1> HIDE DEF x1, x2, x3, x4, x5
<1>3. \A n : Under(y2, n) = Under(x1, n) \cup Under(x2, n)
  BY UnderBoth
<1> HIDE DEF y2
<1>4. \A n : Under(y3, n) = Under(y2, n) \cup Under(x3, n)
  BY UnderBoth
<1> HIDE DEF y3
<1>5. \A n : Under(y4, n) = Under(y3, n) \cup Under(x4, n)
  BY UnderBoth
<1> HIDE DEF y4
<1>6. \A n : Under(y5, n) = Under(y4, n) \cup Under(x5, n)
  BY UnderBoth
<1> HIDE DEF y5
<1>7. \A n : Under(ComponentPairs(c), n) =
                 (((Under(x1, n) \cup Under(x2, n)) \cup Under(x3, n)) \cup Under(x4, n))
                 \cup Under(x5, n)
  BY Zenon, <1>1, <1>3, <1>4, <1>5, <1>6
<1> HIDE DEF y5
<1>8. Under(ComponentPairs(c), 1) = c.type
  <2>1. /\ Under(x1, 1) = c.type
        /\ Under(x2, 1) = {}
        /\ Under(x3, 1) = {}
        /\ Under(x4, 1) = {}
        /\ Under(x5, 1) = {}
    BY <1>2
  <2> QED BY <1>7, <2>1
<1>9. Under(ComponentPairs(c), 2) = c.value
  <2>1. /\ Under(x1, 2) = {}
        /\ Under(x2, 2) = c.value
        /\ Under(x3, 2) = {}
        /\ Under(x4, 2) = {}
        /\ Under(x5, 2) = {}
    BY <1>2
  <2> QED BY <1>7, <2>1
<1>10. Under(ComponentPairs(c), 4) = c.version
  <2>1. /\ Under(x1, 4) = {}
        /\ Under(x2, 4) = {}
        /\ Under(x3, 4) = c.version
        /\ Under(x4, 4) = {}
        /\ Under(x5, 4) = {}
    BY <1>2
  <2> QED BY <1>7, <2>1
<1>11. Under(ComponentPairs(c), 5) = c.signer
  <2>1. /\ Under(x1, 5) = {}
        /\ Under(x2, 5) = {}
        /\ Under(x3, 5) = {}
        /\ Under(x4, 5) = c.signer
        /\ Under(x5, 5) = {}
    BY <1>2
  <2> QED BY <1>7, <2>1
<1>12. Under(ComponentPairs(c), 6) = c.desc
  <2>1. /\ Under(x1, 6) = {}
        /\ Under(x2, 6) = {}
        /\ Under(x3, 6) = {}
        /\ Under(x4, 6) = {}
        /\ Under(x5, 6) = c.desc
    BY <1>2
  <2> QED BY <1>7, <2>1
<1> QED BY <1>8, <1>9, <1>10, <1>11, <1>12

\* Every pair is the value of one of the claims, of one of the parts.
LEMMA PairOfClaim ==
    ASSUME NEW c, NEW p \in ClaimPairs(c)
    PROVE  \E n \in {10, 256, 265, 268, 2394, 2395, 2396, 2398, 2399, 2400} :
              p.label = IntLabel(n) /\ p.val \in Under(ClaimPairs(c), n)
<1>1. \A m, span : p \in Pairs(m, span) => p.label = IntLabel(m)
  BY DEF Pairs, Pair
<1>2. \E n \in {10, 256, 265, 268, 2394, 2395, 2396, 2398, 2399, 2400} : p.label = IntLabel(n)
  BY <1>1 DEF ClaimPairs
<1>3. \A n : p.label = IntLabel(n) => p.val \in Under(ClaimPairs(c), n)
  BY DEF Under
<1> QED BY <1>2, <1>3

LEMMA PairOfPart ==
    ASSUME NEW c, NEW p \in ComponentPairs(c)
    PROVE  \E n \in {1, 2, 4, 5, 6} : p.label = IntLabel(n) /\ p.val \in Under(ComponentPairs(c), n)
<1>1. \A m, span : p \in Pairs(m, span) => p.label = IntLabel(m)
  BY DEF Pairs, Pair
<1>2. \E n \in {1, 2, 4, 5, 6} : p.label = IntLabel(n)
  BY <1>1 DEF ComponentPairs
<1>3. \A n : p.label = IntLabel(n) => p.val \in Under(ComponentPairs(c), n)
  BY DEF Under
<1> QED BY <1>2, <1>3

LEMMA UptoPairs ==
    ASSUME NEW s, NEW pairs, NEW n, Upto(s, pairs, n)
    PROVE  IsArray(s) /\ IsPairs(s) /\ Distinct(s) /\ DOMAIN s = 1 .. Len(s)
           /\ \A i \in DOMAIN s : s[i] \in pairs /\ s[i].label.type = "int"
<1>1. IsArray(s) /\ DOMAIN s = 1 .. Len(s)
  BY DEF Upto, IsArray
<1>2. \A m : IntLabel(m) = [type |-> IntLabel(m).type, val |-> IntLabel(m).val]
             /\ IntLabel(m).type = "int"
  BY DEF IntLabel
<1>3. \A i \in DOMAIN s : \E m : s[i].label = IntLabel(m)
  BY <1>1 DEF Upto
<1>4. IsPairs(s) /\ \A i \in DOMAIN s : s[i].label.type = "int"
  BY <1>2, <1>3 DEF IsPairs
<1>5. Distinct(s) /\ \A i \in DOMAIN s : s[i] \in pairs
  BY <1>1 DEF Distinct, Upto
<1> QED BY <1>1, <1>4, <1>5

LEMMA ListOk ==
    ASSUME NEW c, IsClaims(c)
    PROVE  /\ IsReadable(ListOf(c)) /\ ListOf(c).type = "array"
           /\ ListOf(c).items = [i \in DOMAIN c.components |-> EncodeComponent(c.components[i])]
           /\ Len(ListOf(c).items) = Len(c.components)
           /\ DOMAIN ListOf(c).items = 1 .. Len(c.components)
<1> DEFINE parts == [i \in DOMAIN c.components |-> EncodeComponent(c.components[i])]
           n == Len(c.components)
           S == {parts[i] : i \in 1 .. n}
<1>1. n \in Nat /\ DOMAIN c.components = 1 .. n
  BY DEF IsClaims, IsArray
<1>2. parts \in [1 .. n -> S]
  BY <1>1
<1>3. ListOf(c).items = parts /\ ListOf(c).num = 0 /\ ListOf(c).type = "array"
  BY Zenon DEF ListOf, Value
<1>4. \A i \in 1 .. n : IsArray(parts[i].items) /\ IsPairs(parts[i].items)
  <2> SUFFICES ASSUME NEW i \in 1 .. n PROVE IsArray(parts[i].items) /\ IsPairs(parts[i].items)
    OBVIOUS
  <2>1. IsComponent(c.components[i]) /\ parts[i] = EncodeComponent(c.components[i])
    BY <1>1 DEF IsClaims
  <2> HIDE DEF parts
  <2> QED BY <2>1, EncodedComponent, UptoPairs
<1> HIDE DEF S, parts
<1>5. parts \in Seq(S) /\ Len(parts) = n /\ DOMAIN parts = 1 .. n
  BY <1>1, <1>2, SeqDef, LenProperties
<1>6. IsArray(parts)
  BY <1>1, <1>2, <1>5 DEF IsArray
<1>7. IsReadable(ListOf(c))
  BY <1>3, <1>4, <1>5, <1>6 DEF IsReadable, IsValue, IsList
<1> QED BY <1>3, <1>5, <1>7 DEF parts

LEMMA ListReadable ==
    ASSUME NEW c, IsClaims(c)
    PROVE  IsReadable(ListOf(c))
<1>1. IsReadable(ListOf(c))
  BY Zenon, ListOk
<1> QED BY Zenon, <1>1

LEMMA ClaimReadable ==
    ASSUME NEW c, IsClaims(c), NEW p \in ClaimPairs(c)
    PROVE  IsReadable(p.val)
<1>1. IsArray(<<>>)
  BY DEF IsArray
<1>2. \A v \in c.nonce \cup c.ueid \cup c.seed \cup c.impl \cup c.cert \cup c.vsi : IsReadable(v)
  BY DEF IsClaims, IsSpan, IsText, IsReadable
<1>3. /\ IsReadable(ProfileValue) /\ IsReadable(IntValue(c.client))
      /\ IsReadable(IntValue(c.lifecycle))
  <2>1. c.client \in Int /\ c.lifecycle \in Int
    BY Int32Assumption DEF IsClaims
  <2> QED BY <1>1, <2>1 DEF IsReadable, IsValue, ProfileValue, IntValue, Value
<1>0. IsReadable(ListOf(c))
  BY Zenon, ListReadable
<1>4. PICK n \in {10, 256, 265, 268, 2394, 2395, 2396, 2398, 2399, 2400} : p.val \in Under(ClaimPairs(c), n)
  BY PairOfClaim
<1>5. CASE n \in {10, 256, 268, 2396, 2398, 2400}
  BY <1>2, <1>4, <1>5, UnderClaim
<1>6. CASE n \in {265, 2394, 2395, 2399}
  <2>2. CASE n = 265
    BY <1>3, <1>4, <2>2, UnderClaim
  <2>3. CASE n = 2394
    BY <1>3, <1>4, <2>3, UnderClaim
  <2>4. CASE n = 2395
    BY <1>3, <1>4, <2>4, UnderClaim
  <2>5. CASE n = 2399
    BY <1>0, <1>4, <2>5, UnderClaim
  <2> QED BY <1>6, <2>2, <2>3, <2>4, <2>5
<1> QED BY <1>5, <1>6

\* The claims an issuer encodes are a map a verifier can read.
LEMMA EncodedOk ==
    ASSUME NEW c, IsClaims(c)
    PROVE  /\ IsMap(Encoded(c)) /\ Encoded(c).type = "map" /\ Encoded(c).form = ""
           /\ Distinct(Encoded(c).items)
           /\ \A i \in DOMAIN Encoded(c).items : /\ Encoded(c).items[i] \in ClaimPairs(c)
                                                /\ Encoded(c).items[i].label.type = "int"
<1>1. Encoded(c).type = "map" /\ Encoded(c).form = "" /\ Encoded(c).num = 0
  BY Zenon DEF Encoded, Value
<1> DEFINE s == Encoded(c).items
<1>2. IsArray(s) /\ IsPairs(s) /\ Distinct(s)
      /\ \A i \in DOMAIN s : s[i] \in ClaimPairs(c) /\ s[i].label.type = "int"
  BY EncodedClaims, UptoPairs
<1>3. \A i \in DOMAIN s : IsReadable(s[i].val)
  BY <1>2, ClaimReadable
<1> HIDE DEF s
<1>4. \A i \in DOMAIN s : IsValue(s[i].val) /\ (s[i].val.type = "array" => IsList(s[i].val))
  BY <1>3 DEF IsReadable
<1>5. IsMap(Encoded(c))
  <2> DEFINE map == Encoded(c)
  <2>4. map.items = s /\ map.num = 0
    BY <1>1 DEF s
  <2> HIDE DEF map
  <2>1. /\ map.num \in Int /\ IsArray(map.items) /\ IsPairs(map.items)
        /\ \A i \in DOMAIN map.items : /\ IsValue(map.items[i].val)
                                       /\ map.items[i].val.type = "array" => IsList(map.items[i].val)
    BY <2>4, <1>2, <1>4
  <2>2. IsValue(map)
    BY <2>1 DEF IsValue
  <2>3. IsMap(map)
    BY <2>1, <2>2 DEF IsMap
  <2> QED BY <2>3 DEF map
<1> QED BY <1>1, <1>2, <1>5 DEF s

\* What a request must say for a token to be made of it.
Complete(c) ==
    /\ IsHash(c.nonce)
    /\ LenOf(c.impl) = 32 /\ c.client # 0
    /\ \E u \in c.ueid : u.len = 33 /\ u.form = "random"
    /\ LifecycleValid(c.lifecycle) /\ Len(c.components) \in 1 .. MaxComponents
    /\ c.seed = {} \/ LenOf(c.seed) \in 8 .. 32
    /\ \A r \in c.cert : r.form = CertForm["current"]
    /\ \A i \in DOMAIN c.components : IsHash(c.components[i].value) /\ IsHash(c.components[i].signer)

LEMMA ValidatedOk ==
    ASSUME NEW c, IsClaims(c), ValidateClaims(c) = "ok"
    PROVE  Complete(c)
<1> DEFINE p == \/ ~ IsHash(c.nonce) \/ LenOf(c.impl) # 32 \/ c.client = 0
                \/ \A u \in c.ueid : u.len # 33 \/ u.form # "random"
                \/ ~ LifecycleValid(c.lifecycle)
                \/ Len(c.components) \notin 1 .. MaxComponents
           q == \/ c.seed # {} /\ LenOf(c.seed) \notin 8 .. 32
                \/ \E r \in c.cert : r.form # CertForm["current"]
           each == [i \in DOMAIN c.components |-> ValidateComponent(c.components[i])]
<1>1. ValidateClaims(c) = First(<<Fails(p, "claim"), Fails(q, "claim"), First(each)>>)
  BY Zenon DEF ValidateClaims
<1> HIDE DEF p, q, each
<1>2. Fails(p, "claim") = "ok" /\ Fails(q, "claim") = "ok" /\ First(each) = "ok"
  <2> DEFINE a == Fails(p, "claim")
             b == Fails(q, "claim")
             d == First(each)
  <2>1. First(<<a, b, d>>) = "ok"
    BY <1>1
  <2> HIDE DEF a, b, d
  <2>2. a = "ok" /\ b = "ok" /\ d = "ok"
    BY <2>1, TripleIff
  <2> QED BY <2>2 DEF a, b, d
<1>3. ~ p /\ ~ q
  BY <1>2 DEF Fails
<1>4. Len(c.components) \in Nat /\ DOMAIN c.components = 1 .. Len(c.components)
  BY DEF IsClaims, IsArray
<1>5. \A i \in DOMAIN c.components : ValidateComponent(c.components[i]) = "ok"
  <2>1. each = [i \in 1 .. Len(c.components) |-> each[i]]
    BY <1>4 DEF each
  <2>2. \A i \in 1 .. Len(c.components) : each[i] = "ok"
    BY <1>2, <1>4, <2>1, EachIff
  <2> QED BY <1>4, <2>2 DEF each
<1>6. \A i \in DOMAIN c.components : IsHash(c.components[i].value) /\ IsHash(c.components[i].signer)
  BY <1>5 DEF ValidateComponent, Fails
<1>7. /\ IsHash(c.nonce) /\ LenOf(c.impl) = 32 /\ c.client # 0
      /\ \E u \in c.ueid : u.len = 33 /\ u.form = "random"
      /\ LifecycleValid(c.lifecycle) /\ Len(c.components) \in 1 .. MaxComponents
  BY Zenon, <1>3 DEF p
<1>8. /\ c.seed = {} \/ LenOf(c.seed) \in 8 .. 32
      /\ \A r \in c.cert : r.form = CertForm["current"]
  BY Zenon, <1>3 DEF q
<1> QED BY <1>6, <1>7, <1>8 DEF Complete

\* Its texts can be encoded.
Wording(c) ==
    /\ \A v \in c.vsi : v.type # "bad"
    /\ \A i \in DOMAIN c.components :
          \A v \in c.components[i].type \cup c.components[i].version \cup c.components[i].desc : v.type # "bad"

LEMMA TextOk == ASSUME NEW c, TextCode(c) = "ok" PROVE Wording(c)
<1> DEFINE S == c.vsi \cup UNION {c.components[i].type \cup c.components[i].version
                                          \cup c.components[i].desc : i \in DOMAIN c.components}
<1>1. TextCode(c) = Fails(\E v \in S : v.type = "bad", "malformed")
  BY Zenon DEF TextCode
<1>2. \A v \in S : v.type # "bad"
  BY <1>1 DEF Fails
<1> QED BY <1>2 DEF Wording

LEMMA HashOk ==
    ASSUME NEW span, \A x, y \in span : x = y, IsHash(span)
    PROVE  span # {} /\ \A v \in span : v.len \in HashLengths
<1>1. span # {}
  BY DEF IsHash, LenOf, HashLengths
<1> QED BY <1>1, LenOfSpan DEF IsHash

\* The part of a component with a label.
PartOf(c, n) == {c.items[i].val : i \in {j \in DOMAIN c.items : c.items[j].label = IntLabel(n)}}

LEMMA EncodedPart ==
    ASSUME NEW c, IsComponent(c), NEW n
    PROVE  PartOf(EncodeComponent(c), n) = Under(ComponentPairs(c), n)
<1> DEFINE s == EncodeComponent(c).items
<1>1. Upto(s, ComponentPairs(c), 6)
  BY EncodedComponent
<1>2. PartOf(EncodeComponent(c), n) = {s[i].val : i \in {j \in DOMAIN s : s[j].label = IntLabel(n)}}
  BY Zenon DEF PartOf
<1> HIDE DEF s
<1> QED BY <1>1, <1>2, UnderItems

LEMMA ComponentMade ==
    ASSUME NEW c, IsComponent(c), IsHash(c.value), IsHash(c.signer),
           \A v \in c.type \cup c.version \cup c.desc : v.type # "bad"
    PROVE  WellFormedComponent(EncodeComponent(c))
<1> DEFINE m == EncodeComponent(c)
           s == m.items
<1>1. m.type = "map"
  BY DEF EncodeComponent, Value
<1>2. Upto(s, ComponentPairs(c), 6) /\ Len(s) <= 5
  BY EncodedComponent
<1>3. Distinct(s) /\ DOMAIN s = 1 .. Len(s) /\ Len(s) \in Nat
      /\ \A i \in DOMAIN s : s[i] \in ComponentPairs(c) /\ s[i].label.type = "int"
  BY <1>2, UptoPairs DEF IsArray
<1>4. Len(s) <= MaxComponentClaims
  BY <1>2, <1>3, LimitsAssumption
<1>5. \A v \in c.type \cup c.version \cup c.desc : v.type = "tstr"
  BY DEF IsComponent, IsText, IsSpan
<1>6. \A v \in c.value \cup c.signer : v.type = "bstr" /\ v.len \in HashLengths
  BY HashOk DEF IsComponent, IsSpan
<1>7. c.value # {} /\ c.signer # {}
  BY HashOk DEF IsComponent, IsSpan
<1>8. \A i \in DOMAIN s : s[i].val.type # "bad"
  <2> SUFFICES ASSUME NEW p \in ComponentPairs(c) PROVE p.val.type # "bad"
    BY <1>3
  <2>1. p.val \in c.type \cup c.value \cup c.version \cup c.signer \cup c.desc
    BY DEF ComponentPairs, Pairs, Pair
  <2> QED BY <1>5, <1>6, <2>1
<1>9. /\ PartOf(m, 1) = c.type /\ PartOf(m, 2) = c.value /\ PartOf(m, 4) = c.version
      /\ PartOf(m, 5) = c.signer /\ PartOf(m, 6) = c.desc
  BY EncodedPart, UnderPart
<1> HIDE DEF m
<1>10. /\ \A n \in {1, 4, 6} : \A v \in PartOf(m, n) : v.type = "tstr"
       /\ \A n \in {2, 5} : \E v \in PartOf(m, n) : v.type = "bstr" /\ v.len \in HashLengths
  BY <1>5, <1>6, <1>7, <1>9
<1>11. WellFormedComponent(m)
  BY <1>1, <1>3, <1>4, <1>8, <1>10 DEF WellFormedComponent, PartOf
<1> QED BY <1>11 DEF m

\* What a claim of an issuer's says.
LEMMA EncodedAt ==
    ASSUME NEW c, IsClaims(c), NEW claim \in DOMAIN CurrentLabel
    PROVE  At(Encoded(c), "current", claim) = Under(ClaimPairs(c), CurrentLabel[claim])
<1> DEFINE s == Encoded(c).items
           n == CurrentLabel[claim]
<1>1. Upto(s, ClaimPairs(c), 2400)
  BY EncodedClaims
<1>2. At(Encoded(c), "current", claim) = {s[i].val : i \in {j \in DOMAIN s : s[j].label = IntLabel(n)}}
  BY DEF At, LabelIn
<1> HIDE DEF s, n
<1>3. {s[i].val : i \in {j \in DOMAIN s : s[j].label = IntLabel(n)}} = Under(ClaimPairs(c), n)
  BY <1>1, UnderItems
<1>4. At(Encoded(c), "current", claim) = Under(ClaimPairs(c), n)
  BY Zenon, <1>2, <1>3
<1> QED BY <1>4 DEF n

LEMMA EncodedValues ==
    ASSUME NEW c, IsClaims(c)
    PROVE  /\ At(Encoded(c), "current", "nonce") = c.nonce
           /\ At(Encoded(c), "current", "ueid") = c.ueid
           /\ At(Encoded(c), "current", "profile") = {ProfileValue}
           /\ At(Encoded(c), "current", "seed") = c.seed
           /\ At(Encoded(c), "current", "client") = {IntValue(c.client)}
           /\ At(Encoded(c), "current", "lifecycle") = {IntValue(c.lifecycle)}
           /\ At(Encoded(c), "current", "impl") = c.impl
           /\ At(Encoded(c), "current", "cert") = c.cert
           /\ At(Encoded(c), "current", "components") = {ListOf(c)}
           /\ At(Encoded(c), "current", "vsi") = c.vsi
           /\ At(Encoded(c), "current", "unmeasured") = {}
<1>1. \A claim \in DOMAIN CurrentLabel :
         At(Encoded(c), "current", claim) = Under(ClaimPairs(c), CurrentLabel[claim])
  BY EncodedAt
<1>2. At(Encoded(c), "current", "unmeasured") = {}
  BY DEF At, LabelIn, CurrentLabel
<1>3. /\ {"nonce", "ueid", "profile", "seed", "client", "lifecycle", "impl", "cert", "components", "vsi"}
            \subseteq DOMAIN CurrentLabel
      /\ CurrentLabel["nonce"] = 10 /\ CurrentLabel["ueid"] = 256 /\ CurrentLabel["profile"] = 265
      /\ CurrentLabel["seed"] = 268 /\ CurrentLabel["client"] = 2394
      /\ CurrentLabel["lifecycle"] = 2395 /\ CurrentLabel["impl"] = 2396
      /\ CurrentLabel["cert"] = 2398 /\ CurrentLabel["components"] = 2399
      /\ CurrentLabel["vsi"] = 2400
  BY DEF CurrentLabel
<1>4. /\ Under(ClaimPairs(c), 10) = c.nonce /\ Under(ClaimPairs(c), 256) = c.ueid
      /\ Under(ClaimPairs(c), 265) = {ProfileValue} /\ Under(ClaimPairs(c), 268) = c.seed
      /\ Under(ClaimPairs(c), 2394) = {IntValue(c.client)}
      /\ Under(ClaimPairs(c), 2395) = {IntValue(c.lifecycle)}
      /\ Under(ClaimPairs(c), 2396) = c.impl /\ Under(ClaimPairs(c), 2398) = c.cert
      /\ Under(ClaimPairs(c), 2399) = {ListOf(c)} /\ Under(ClaimPairs(c), 2400) = c.vsi
  BY UnderClaim
<1> QED BY <1>1, <1>2, <1>3, <1>4

ClaimLabels ==
    {IntLabel(n) : n \in {10, 256, 265, 268, 2394, 2395, 2396, 2398, 2399, 2400}}

LEMMA LabelOfClaim == ASSUME NEW c, NEW p \in ClaimPairs(c) PROVE p.label \in ClaimLabels
<1>1. PICK n \in {10, 256, 265, 268, 2394, 2395, 2396, 2398, 2399, 2400} : p.label = IntLabel(n)
  BY PairOfClaim
<1> QED BY <1>1 DEF ClaimLabels

\* All its labels are of the current namespace.
LEMMA EncodedLabels ==
    ASSUME NEW c, IsClaims(c), NEW i \in DOMAIN Encoded(c).items
    PROVE  LET label == Encoded(c).items[i].label
           IN  Known(label) /\ IsClaim(label, "current") /\ ~ IsClaim(label, "old")
<1> DEFINE label == Encoded(c).items[i].label
<1>1. label \in ClaimLabels
  BY EncodedOk, LabelOfClaim
<1> HIDE DEF label
<1> DEFINE C == DOMAIN CurrentLabel
<1>2. IsClaim(label, "current")
  <2>1. /\ {"nonce", "ueid", "profile", "seed", "client", "lifecycle", "impl", "cert", "components",
             "vsi"} \subseteq C
        /\ CurrentLabel["nonce"] = 10 /\ CurrentLabel["ueid"] = 256 /\ CurrentLabel["profile"] = 265
        /\ CurrentLabel["seed"] = 268 /\ CurrentLabel["client"] = 2394
        /\ CurrentLabel["lifecycle"] = 2395 /\ CurrentLabel["impl"] = 2396
        /\ CurrentLabel["cert"] = 2398 /\ CurrentLabel["components"] = 2399
        /\ CurrentLabel["vsi"] = 2400
    BY DEF CurrentLabel
  <2> HIDE DEF C
  <2>2. \E x \in C : label = IntLabel(CurrentLabel[x])
    BY <1>1, <2>1 DEF ClaimLabels
  <2> QED BY <2>2 DEF IsClaim, LabelIn, IntLabel, C
<1>3. ~ IsClaim(label, "old")
  <2>1. \A x \in DOMAIN OldLabel : OldLabel[x] \in Int /\ OldLabel[x] < 0
    BY DEF OldLabel
  <2>2. \A m, n : IntLabel(m) = IntLabel(n) => m = n
    BY DEF IntLabel
  <2>3. \A x \in DOMAIN OldLabel : label # IntLabel(OldLabel[x])
    BY <1>1, <2>1, <2>2 DEF ClaimLabels
  <2> QED BY <2>3 DEF IsClaim, LabelIn, IntLabel
<1>4. Known(label)
  BY <1>2 DEF Known
<1> QED BY <1>2, <1>3, <1>4 DEF label

LEMMA EncodedNotOld ==
    ASSUME NEW c, IsClaims(c)
    PROVE  ~ Conforms(Encoded(c), "old")
<1> DEFINE s == Encoded(c).items
<1>1. PICK v : v \in At(Encoded(c), "current", "profile")
  BY EncodedValues
<1>2. PICK i \in DOMAIN s : TRUE
  BY <1>1 DEF At
<1>3. Known(s[i].label) /\ ~ IsClaim(s[i].label, "old")
  BY EncodedLabels
<1> HIDE DEF s
<1> QED BY <1>2, <1>3 DEF Conforms, s

LEMMA EncodedTold ==
    ASSUME NEW q, IsClaims(q.claims), WellFormed(Encoded(q.claims))
    PROVE  Told(Encoded(q.claims), q.tag) = TokenOf(q)
<1> DEFINE c == q.claims
           map == Encoded(c)
           space == CHOOSE s \in Namespaces : Conforms(map, s)
<1>1. space = "current"
  <2>1. \E s \in Namespaces : Conforms(map, s)
    BY DEF WellFormed
  <2>2. ~ Conforms(map, "old")
    BY EncodedNotOld
  <2> HIDE DEF map
  <2> QED BY <2>1, <2>2, ProfilesAssumption
<1> HIDE DEF space
<1>2. /\ At(map, space, "nonce") = c.nonce
      /\ At(map, space, "ueid") = c.ueid
      /\ At(map, space, "seed") = c.seed
      /\ At(map, space, "client") = {IntValue(c.client)}
      /\ At(map, space, "lifecycle") = {IntValue(c.lifecycle)}
      /\ At(map, space, "impl") = c.impl
      /\ At(map, space, "cert") = c.cert
      /\ At(map, space, "components") = {ListOf(c)}
      /\ At(map, space, "vsi") = c.vsi
      /\ At(map, space, "unmeasured") = {}
  BY Zenon, <1>1, EncodedValues
<1>3. /\ The({v.num : v \in {IntValue(c.client)}}) = c.client
      /\ The({v.num : v \in {IntValue(c.lifecycle)}}) = c.lifecycle
  <2>1. \A n : IntValue(n).num = n
    BY DEF IntValue, Value
  <2>2. \A n : {v.num : v \in {IntValue(n)}} = {n}
    BY <2>1
  <2> QED BY <2>2, TheOne
<1>4. {v.items : v \in {ListOf(c)}} = {[i \in DOMAIN c.components |-> EncodeComponent(c.components[i])]}
  BY ListOk
<1>5. Told(map, q.tag) =
        [profile |-> space, protection |-> q.tag,
         nonce |-> At(map, space, "nonce"), ueid |-> At(map, space, "ueid"),
         impl |-> At(map, space, "impl"), seed |-> At(map, space, "seed"),
         cert |-> At(map, space, "cert"), vsi |-> At(map, space, "vsi"),
         client |-> The({v.num : v \in At(map, space, "client")}),
         lifecycle |-> The({v.num : v \in At(map, space, "lifecycle")}),
         components |-> {v.items : v \in At(map, space, "components")},
         unmeasured |-> At(map, space, "unmeasured") # {}]
  BY DEF Told, space
<1> HIDE DEF map
<1>6. Told(map, q.tag) =
        [profile |-> "current", protection |-> q.tag, nonce |-> c.nonce, ueid |-> c.ueid,
         impl |-> c.impl, seed |-> c.seed, cert |-> c.cert, vsi |-> c.vsi, client |-> c.client,
         lifecycle |-> c.lifecycle,
         components |-> {[i \in DOMAIN c.components |-> EncodeComponent(c.components[i])]},
         unmeasured |-> FALSE]
  BY <1>1, <1>2, <1>3, <1>4, <1>5
<1> QED BY <1>6 DEF TokenOf, map

\* With the checks of the issuer passed, a verifier accepts the claims.
LEMMA EncodedWellFormed ==
    ASSUME NEW c, IsClaims(c), ValidateClaims(c) = "ok", TextCode(c) = "ok", TfmFull
    PROVE  WellFormed(Encoded(c))
<1> DEFINE map == Encoded(c)
<1>1. Complete(c) /\ Wording(c)
  BY ValidatedOk, TextOk
<1>2. /\ IsMap(map) /\ map.type = "map" /\ map.form = "" /\ Distinct(map.items)
      /\ \A i \in DOMAIN map.items : map.items[i] \in ClaimPairs(c) /\ map.items[i].label.type = "int"
  BY EncodedOk
<1>3. Len(map.items) <= MaxClaims
  <2>1. Len(map.items) <= 10
    BY EncodedClaims
  <2>2. Len(map.items) \in Nat
    BY <1>2, MapParts
  <2> QED BY <2>1, <2>2, LimitsAssumption
<1>4. /\ \A i \in DOMAIN map.items : IsValue(map.items[i].val)
  BY <1>2 DEF IsMap
<1>5. "current" \in Namespaces
  BY ProfilesAssumption
<1>6. \A i \in DOMAIN map.items : IsClaim(map.items[i].label, "current")
  BY EncodedLabels
<1> DEFINE A(claim) == At(map, "current", claim)
           good(claim, v) == Fits("current", claim, v) /\ Closes("current", claim, v)
<1>7. /\ A("nonce") = c.nonce /\ A("ueid") = c.ueid /\ A("profile") = {ProfileValue}
      /\ A("seed") = c.seed /\ A("client") = {IntValue(c.client)}
      /\ A("lifecycle") = {IntValue(c.lifecycle)}
      /\ A("impl") = c.impl /\ A("cert") = c.cert /\ A("components") = {ListOf(c)}
      /\ A("vsi") = c.vsi
  BY EncodedValues
<1> HIDE DEF map
<1>8. c.nonce # {} /\ \A v \in c.nonce : good("nonce", v)
  <2>1. c.nonce # {} /\ \A v \in c.nonce : v.len \in HashLengths /\ v.type = "bstr"
    BY <1>1, HashOk DEF Complete, IsClaims, IsSpan
  <2> QED BY <2>1 DEF Fits, Closes, Texts
<1>9. c.ueid # {} /\ \A v \in c.ueid : good("ueid", v)
  <2>1. c.ueid # {} /\ \A v \in c.ueid : v.len = 33 /\ v.form = "random" /\ v.type = "bstr"
    BY <1>1 DEF Complete, IsClaims, IsSpan
  <2> QED BY <2>1 DEF Fits, Closes, Texts
<1>10. c.impl # {} /\ \A v \in c.impl : good("impl", v)
  <2>1. c.impl # {}
    BY <1>1 DEF Complete, LenOf
  <2>2. \A v \in c.impl : v.len = 32 /\ v.type = "bstr"
    <3>1. LenOf(c.impl) \in {32} /\ \A x, y \in c.impl : x = y
      BY <1>1 DEF Complete, IsClaims, IsSpan
    <3>2. \A v \in c.impl : v.len \in {32}
      BY <2>1, <3>1, LenOfSpan
    <3> QED BY <3>2 DEF IsClaims, IsSpan
  <2> QED BY <2>1, <2>2 DEF Fits, Closes, Texts
<1>11. \A v \in c.seed : good("seed", v)
  <2>1. CASE c.seed = {}
    BY <2>1
  <2>2. CASE c.seed # {}
    <3>1. LenOf(c.seed) \in 8 .. 32 /\ \A x, y \in c.seed : x = y
      BY <1>1, <2>2 DEF Complete, IsClaims, IsSpan
    <3>2. \A v \in c.seed : v.len \in 8 .. 32
      BY <2>2, <3>1, LenOfSpan
    <3>3. \A v \in c.seed : v.type = "bstr"
      BY DEF IsClaims, IsSpan
    <3> QED BY <3>2, <3>3 DEF Fits, Closes, Texts
  <2> QED BY <2>1, <2>2
<1>12. \A v \in c.cert : good("cert", v)
  <2>1. \A v \in c.cert : v.form = CertForm["current"] /\ v.type = "tstr"
    BY <1>1 DEF Complete, IsClaims, IsSpan
  <2> QED BY <2>1 DEF Fits, Closes, Texts
<1>13. \A v \in c.vsi : good("vsi", v)
  <2>1. \A v \in c.vsi : v.type = "tstr"
    BY <1>1 DEF Wording, IsClaims, IsText, IsSpan
  <2> QED BY <2>1 DEF Fits, Closes, Texts
<1>14. good("profile", ProfileValue)
  BY DEF Fits, Closes, ProfileValue, Value
<1>15. good("client", IntValue(c.client))
  <2>1. c.client # 0 /\ c.client \in -Int32Max - 1 .. Int32Max
    BY <1>1 DEF Complete, IsClaims
  <2>2. IntValue(c.client).num = c.client /\ IntValue(c.client).type = "int"
    BY DEF IntValue, Value
  <2> QED BY <2>1, <2>2 DEF Fits, Closes
<1>16. good("lifecycle", IntValue(c.lifecycle))
  <2>1. c.lifecycle \in Nat /\ LifecycleValid(c.lifecycle)
    BY <1>1 DEF Complete, IsClaims
  <2>2. IntValue(c.lifecycle).num = c.lifecycle /\ IntValue(c.lifecycle).type = "int"
    BY DEF IntValue, Value
  <2> QED BY <2>1, <2>2 DEF Fits, Closes
<1>17. good("components", ListOf(c))
  <2>1. \A i \in DOMAIN c.components : WellFormedComponent(EncodeComponent(c.components[i]))
    <3> SUFFICES ASSUME NEW i \in DOMAIN c.components
                 PROVE  WellFormedComponent(EncodeComponent(c.components[i]))
      OBVIOUS
    <3> DEFINE p == c.components[i]
    <3>1. IsComponent(p) /\ IsHash(p.value) /\ IsHash(p.signer)
          /\ \A v \in p.type \cup p.version \cup p.desc : v.type # "bad"
      BY <1>1 DEF IsClaims, Complete, Wording
    <3> HIDE DEF p
    <3>2. WellFormedComponent(EncodeComponent(p))
      BY <3>1, ComponentMade
    <3> QED BY <3>2 DEF p
  <2>2. /\ ListOf(c).type = "array" /\ Len(ListOf(c).items) \in 1 .. MaxComponents
        /\ ListOf(c).items = [i \in DOMAIN c.components |-> EncodeComponent(c.components[i])]
    BY <1>1, ListOk DEF Complete
  <2>3. \A i \in DOMAIN ListOf(c).items : WellFormedComponent(ListOf(c).items[i])
    BY <2>1, <2>2
  <2> QED BY <2>2, <2>3 DEF Fits, Closes
<1> HIDE DEF A, good
<1>18. \A claim \in DOMAIN LabelIn("current") : \A v \in A(claim) : good(claim, v)
  BY <1>7, <1>8, <1>9, <1>10, <1>11, <1>12, <1>13, <1>14, <1>15, <1>16, <1>17 DEF LabelIn, CurrentLabel
<1>19. \A claim \in Required("current") : A(claim) # {}
  BY <1>7, <1>8, <1>9, <1>10 DEF Required
<1>20. Conforms(map, "current")
  BY <1>4, <1>6, <1>18, <1>19, ConformsExact DEF A, good
<1>21. \A i \in DOMAIN map.items : map.items[i].val.type # "bad"
  <2> SUFFICES ASSUME NEW i \in DOMAIN map.items PROVE map.items[i].val.type # "bad"
    OBVIOUS
  <2> DEFINE x == map.items[i]
  <2>1. PICK claim \in DOMAIN LabelIn("current") : x.label = IntLabel(LabelIn("current")[claim])
    BY <1>6 DEF IsClaim, IntLabel
  <2>2. x.val \in A(claim)
    BY <2>1 DEF A, At
  <2>3. Fits("current", claim, x.val)
    BY <1>18, <2>2 DEF good
  <2> QED BY <2>3, FitsOk
<1>22. WellFormed(map)
  BY <1>2, <1>3, <1>5, <1>20, <1>21 DEF WellFormed
<1> QED BY <1>22 DEF map

-----------------------------------------------------------------------------
(* The inductive invariant.                                                *)

Verifying == {"envelope", "authenticate", "claims", "claim", "decoded", "resolve", "nonce", "return"}
Issuing   == {"encode", "protect", "wipe"}

IsToken(t) ==
    /\ t = [f \in DOMAIN NoToken |-> t[f]]
    /\ t.lifecycle \in 0 .. LifecycleMax /\ t.client \in -Int32Max - 1 .. Int32Max
    /\ \A x, y \in t.components : x = y
    /\ \A items \in t.components : IsArray(items) /\ Len(items) >= 1

IsDec(d) ==
    /\ d = [at |-> d.at, seen |-> d.seen, spaces |-> d.spaces]
    /\ d.at \in Nat /\ d.spaces \subseteq Namespaces /\ \A x, y \in d.spaces : x = y

IsOut(o) ==
    /\ o = [msg |-> o.msg, partial |-> o.partial, len |-> o.len]
    /\ o.partial \in BOOLEAN
    /\ \A m \in o.len : \A v \in m.payload : IsMap(v)

Singles(S) == {{}} \cup {{x} : x \in S}

Typed ==
    /\ pc \in {"idle", "visit"} \cup Verifying \cup Issuing
    /\ call \in Singles(Calls \cup Visits \cup Requests)
    /\ pc \in Verifying => \E c \in Calls : call = {c}
    /\ pc = "visit" => \E c \in Visits : call = {c}
    /\ pc \in Issuing => \E q \in Requests : call = {q}
    /\ fault \in BOOLEAN
    /\ key \in Singles(Keys)
    /\ IsDec(dec) /\ IsToken(token) /\ IsToken(untrusted) /\ IsOut(out)
    /\ sealed \subseteq Facts /\ origin \subseteq Requests
    /\ \A v \in wire.payload : IsMap(v)

\* What is in a token that is being read has been seen in the map.
Tracked(t, d) ==
    /\ t.components # {} => "components" \in d.seen
    /\ t.unmeasured => "unmeasured" \in d.seen /\ "old" \in d.spaces

Visitable(t) == t.unmeasured => t.components = {}

Decoding ==
    /\ pc \in {"authenticate", "claims", "claim"} => wire.payload # {}
    /\ pc = "claim" => Map.type = "map" /\ dec.at <= Len(Map.items) /\ Tracked(Target, dec)
    /\ \/ pc = "decoded" /\ ret = "ok" /\ key # {}
       \/ pc = "return" /\ ret = "ok"
       \/ pc \in {"nonce", "idle", "visit"} \cup Issuing
       => Visitable(token)

Answering ==
    /\ pc \in Verifying \ {"return"} => \A c \in call : nonceCopy = {c.nonce}
    /\ AnswersTheChallenge
    /\ FailureZeroesToken

\* The part of an array that has been visited.
Prefix(v, items) ==
    /\ Len(v) \in Nat /\ Len(v) <= Len(items)
    /\ v = [i \in 1 .. Len(v) |-> items[i]]

Visiting ==
    /\ pc = "visit" =>
         /\ ret = "ok" /\ \A c \in call : ~ c.null
         /\ \E items \in token.components : Prefix(visited, items) /\ Len(visited) < Len(items)
    /\ VisitsEachComponent

Writing ==
    /\ pc \in {"encode", "protect"} => out.len = {}
    /\ pc = "protect" => \E q \in Requests : call = {q} /\ claimsBuf = {Encoded(q.claims)}
    /\ pc = "wipe" => IF ret = "ok" THEN \E m : out.msg = {m} /\ ~ out.partial /\ out.len = {m}
                      ELSE out.len = {}
    /\ NoPartialToken

Inv == Typed /\ Decoding /\ Answering /\ Visiting /\ Writing

-----------------------------------------------------------------------------
(* Facts on single states.                                                 *)

LEMMA NoTokenOk == IsToken(NoToken) /\ Visitable(NoToken)
<1>1. 0 \in 0 .. LifecycleMax
  BY DEF LifecycleMax
<1>2. 0 \in -Int32Max - 1 .. Int32Max
  BY Int32Assumption
<1> QED BY <1>1, <1>2 DEF IsToken, Visitable, NoToken

LEMMA NoDecOk == IsDec(NoDec) /\ \A d : Tracked(NoToken, d)
BY DEF IsDec, NoDec, Tracked, NoToken

\* A claim that passed its check keeps the token in shape.
LEMMA StoredOk ==
    ASSUME NEW t, IsToken(t), NEW d, IsDec(d), Tracked(t, d), NEW val, IsValue(val),
           NEW space \in {"current", "old"} \cap Namespaces, NEW claim \in DOMAIN LabelIn(space),
           ValueCode(space, claim, val) = "ok", d.spaces \subseteq {space}, NEW i \in Nat
    PROVE  LET n == Stored(t, space, claim, val)
               e == [at |-> i, seen |-> d.seen \cup {claim}, spaces |-> d.spaces \cup {space}]
           IN  IsToken(n) /\ IsDec(e) /\ Tracked(n, e)
<1> DEFINE n == Stored(t, space, claim, val)
           e == [at |-> i, seen |-> d.seen \cup {claim}, spaces |-> d.spaces \cup {space}]
<1>1. IsDec(e)
  BY DEF IsDec
<1>2. CASE claim = "profile"
  BY <1>1, <1>2 DEF IsToken, Tracked, Stored, NoToken
<1>3. CASE claim = "client"
  BY <1>1, <1>3, ClientOk DEF IsToken, Tracked, Stored, NoToken
<1>4. CASE claim = "lifecycle"
  BY <1>1, <1>4, LifecycleOk DEF IsToken, Tracked, Stored, NoToken, IsValue
<1>5. CASE claim = "components"
  <2>1. IsArray(val.items) /\ Len(val.items) >= 1
    <3>1. ComponentsCode(val) = "ok"
      BY <1>5 DEF ValueCode
    <3> QED BY <3>1, ComponentsOk, LimitsAssumption DEF IsValue, IsArray
  <2> QED BY <1>1, <1>5, <2>1 DEF IsToken, Tracked, Stored, NoToken
<1>6. CASE claim = "unmeasured"
  <2>1. space = "old"
    BY <1>6 DEF LabelIn, CurrentLabel
  <2> QED BY <1>1, <1>6, <2>1 DEF IsToken, Tracked, Stored, NoToken
<1>7. CASE claim \in {"nonce", "ueid", "impl", "seed", "cert", "vsi"}
  <2>1. n = [t EXCEPT ![claim] = {val}]
    BY <1>7 DEF Stored
  <2> QED BY <1>1, <1>7, <2>1 DEF IsToken, Tracked, NoToken
<1>8. claim \in {"profile", "client", "lifecycle", "components", "unmeasured", "nonce", "ueid",
                 "impl", "seed", "cert", "vsi"}
  BY DEF LabelIn, CurrentLabel, OldLabel
<1> QED BY <1>2, <1>3, <1>4, <1>5, <1>6, <1>7, <1>8

THEOREM InitInv == Init => Inv
<1> SUFFICES ASSUME Init PROVE Inv
  OBVIOUS
<1>1. /\ wire \in Peers /\ pc = "idle" /\ ret = "ok" /\ call = {} /\ fault = FALSE
      /\ key = {} /\ dec = NoDec /\ untrusted = NoToken /\ token = NoToken
      /\ out = [msg |-> {}, partial |-> FALSE, len |-> {}] /\ sealed = PeerFacts /\ origin = {}
  BY DEF Init
<1>2. \A x, y \in NoToken.components : x = y
  BY DEF NoToken
<1>3. Typed
  BY <1>1, NoTokenOk, NoDecOk, PeersAssumption DEF Typed, Singles, Verifying, Issuing, IsOut, Facts
<1>4. Decoding /\ Answering /\ Visiting /\ Writing
  BY <1>1, NoTokenOk DEF Decoding, Answering, Visiting, Writing, AnswersTheChallenge,
     FailureZeroesToken, VisitsEachComponent, NoPartialToken, Verifying, Issuing
<1> QED BY <1>3, <1>4 DEF Inv

-----------------------------------------------------------------------------
(* The verifier's steps.                                                   *)

LEMMA VerifyingStep ==
    ASSUME Inv, NEW c \in Calls, call' = {c}, pc' \in Verifying,
           UNCHANGED <<wire, out, claimsBuf, sealed, origin>>,
           fault' \in BOOLEAN, key' \in Singles(Keys), IsDec(dec)',
           IsToken(token)', IsToken(untrusted)',
           pc' \in {"authenticate", "claims", "claim"} => wire.payload # {},
           pc' = "claim" => Map.type = "map" /\ dec'.at <= Len(Map.items) /\ Tracked(Target', dec'),
           (pc' = "decoded" /\ ret' = "ok" /\ key' # {}) \/ pc' = "nonce" \/ (pc' = "return" /\ ret' = "ok")
             => Visitable(token)',
           pc' # "return" => nonceCopy' = {c.nonce},
           pc' = "return" /\ ret' = "ok" => token'.nonce = {c.nonce}
    PROVE  Inv'
<1>1. Typed'
  <2>1. IsOut(out)'
    BY DEF Inv, Typed, IsOut
  <2>2. call' \in Singles(Calls \cup Visits \cup Requests)
    BY DEF Singles
  <2>3. sealed' \subseteq Facts' /\ origin' \subseteq Requests
    BY DEF Inv, Typed, Facts
  <2>4. \A v \in wire'.payload : IsMap(v)
    BY DEF Inv, Typed
  <2>5. key' \in Singles(Keys)
    OBVIOUS
  <2> QED BY <2>1, <2>2, <2>3, <2>4, <2>5 DEF Typed, Verifying, Issuing, Singles
<1>2. Decoding'
  <2>1. Map' = Map
    BY DEF Map
  <2> QED BY <2>1 DEF Decoding, Verifying, Issuing
<1>3. Answering' /\ Visiting' /\ Writing'
  BY DEF Answering, Visiting, Writing, AnswersTheChallenge, FailureZeroesToken,
         VisitsEachComponent, NoPartialToken, Verifying, Idle
<1> QED BY <1>1, <1>2, <1>3 DEF Inv

LEMMA VerifyStep == Inv /\ (\E c \in Calls : Verify(c)) => Inv'
<1> SUFFICES ASSUME Inv, NEW c \in Calls, Verify(c) PROVE Inv'
  OBVIOUS
<1>1. /\ call' = {c} /\ fault' = FALSE /\ key' = c.key
      /\ UNCHANGED <<wire, dec, untrusted, out, claimsBuf, sealed, origin>>
  BY DEF Verify, issuing
<1>2. /\ pc' \in {"envelope", "return"}
      /\ pc' = "envelope" => ret' = "ok" /\ VerifyCode(c) = "ok"
      /\ pc' = "return" => ret' # "ok"
  BY DEF Verify, Stage
<1>3. token' \in {NoToken, token} /\ (pc' = "envelope" => nonceCopy' = {c.nonce})
  BY <1>2 DEF Verify, Copied
<1>4. key' \in Singles(Keys)
  BY <1>1, CallsAssumption DEF Singles
<1>5. IsDec(dec)' /\ IsToken(token)' /\ IsToken(untrusted)'
  BY <1>1, <1>3, NoTokenOk DEF Inv, Typed, IsDec, IsToken
<1> QED BY <1>1, <1>2, <1>3, <1>4, <1>5, VerifyingStep DEF Verifying

\* What the other verifier's steps have in common.
LEMMA VerifierRuns ==
    ASSUME Inv, pc \in Verifying
    PROVE  \E c \in Calls : /\ call = {c} /\ The(call) = c
                            /\ pc # "return" => nonceCopy = {c.nonce}
<1>1. PICK c \in Calls : call = {c}
  BY DEF Inv, Typed
<1> QED BY <1>1, TheOne DEF Inv, Answering

LEMMA EnvelopeStep == Inv /\ Envelope => Inv'
<1> SUFFICES ASSUME Inv, Envelope PROVE Inv'
  OBVIOUS
<1>1. PICK c \in Calls : call = {c} /\ nonceCopy = {c.nonce}
  BY VerifierRuns DEF Verifying, Envelope
<1> DEFINE a == EnvelopeCode(wire)
           b == EnvelopeAlgCode(wire)
<1>2. /\ call' = {c} /\ nonceCopy' = {c.nonce}
      /\ UNCHANGED <<wire, fault, key, dec, untrusted, token, out, claimsBuf, sealed, origin>>
      /\ Stage(First(<<a, b>>), IF key = {} THEN "claims" ELSE "authenticate")
  BY <1>1 DEF Envelope, issuing, reading
<1>3. /\ pc' \in {"claims", "authenticate", "return"}
      /\ pc' # "return" <=> First(<<a, b>>) = "ok"
      /\ ret' = First(<<a, b>>)
  BY <1>2 DEF Stage
<1>4. pc' # "return" => wire.payload # {}
  <2> HIDE DEF b
  <2>1. First(<<a, b>>) = "ok" => a = "ok"
    <3> HIDE DEF a
    <3> QED BY PairOf
  <2> QED BY <1>3, <2>1, EnvelopeOk
<1>5. /\ fault' \in BOOLEAN /\ key' \in Singles(Keys)
      /\ IsDec(dec)' /\ IsToken(token)' /\ IsToken(untrusted)'
  BY <1>2 DEF Inv, Typed, IsDec, IsToken
<1> HIDE DEF a, b
<1> QED BY <1>2, <1>3, <1>4, <1>5, VerifyingStep DEF Verifying

LEMMA AuthenticateStep == Inv /\ Authenticate => Inv'
<1> SUFFICES ASSUME Inv, Authenticate PROVE Inv'
  OBVIOUS
<1>1. PICK c \in Calls : call = {c} /\ nonceCopy = {c.nonce}
  BY VerifierRuns DEF Verifying, Authenticate
<1>2. /\ call' = {c} /\ nonceCopy' = {c.nonce} /\ fault' \in BOOLEAN
      /\ UNCHANGED <<wire, key, dec, untrusted, token, out, claimsBuf, sealed, origin>>
      /\ pc' \in {"claims", "return"}
      /\ pc' = "return" => ret' # "ok"
      /\ wire.payload # {}
  BY <1>1 DEF Authenticate, issuing, Stage, Inv, Decoding
<1>3. /\ key' \in Singles(Keys)
      /\ IsDec(dec)' /\ IsToken(token)' /\ IsToken(untrusted)'
  BY <1>2 DEF Inv, Typed, IsDec, IsToken
<1> QED BY <1>2, <1>3, VerifyingStep DEF Verifying

LEMMA BeginClaimsStep == Inv /\ BeginClaims => Inv'
<1> SUFFICES ASSUME Inv, BeginClaims PROVE Inv'
  OBVIOUS
<1>1. PICK c \in Calls : call = {c} /\ nonceCopy = {c.nonce}
  BY VerifierRuns DEF Verifying, BeginClaims
<1>2. /\ call' = {c} /\ nonceCopy' = {c.nonce} /\ dec' = NoDec
      /\ UNCHANGED <<wire, fault, key, out, claimsBuf, sealed, origin>>
      /\ pc' \in {"claim", "decoded"}
      /\ pc' = "decoded" => ret' # "ok"
      /\ wire.payload # {}
  BY <1>1 DEF BeginClaims, issuing, Inv, Decoding
<1>7. pc' = "claim" => Map.type = "map"
  <2> DEFINE a == TypedCode(Map, "map")
             b == Fails(Len(Map.items) > MaxClaims, "claim")
  <2>1. pc' = "claim" => First(<<a, b>>) = "ok"
    BY DEF BeginClaims
  <2> HIDE DEF a, b
  <2>2. pc' = "claim" => a = "ok"
    BY <2>1, PairIff
  <2> QED BY <2>2, TypedExact DEF a
<1>3. token' \in {token, NoToken} /\ untrusted' \in {untrusted, NoToken} /\ Target' = NoToken
  BY <1>2 DEF BeginClaims, Into, Target
<1>4. /\ fault' \in BOOLEAN /\ key' \in Singles(Keys)
      /\ IsDec(dec)' /\ IsToken(token)' /\ IsToken(untrusted)'
  BY <1>2, <1>3, NoTokenOk, NoDecOk DEF Inv, Typed, IsDec, IsToken
<1>5. Map \in wire.payload /\ IsMap(Map)
  BY <1>2 DEF Map, The, Inv, Typed
<1>6. dec'.at <= Len(Map.items) /\ Tracked(Target', dec')
  BY <1>2, <1>3, <1>5, NoDecOk DEF NoDec, IsMap, IsValue, IsArray
<1> QED BY <1>2, <1>4, <1>6, <1>7, VerifyingStep DEF Verifying

LEMMA ClaimStep == Inv /\ Claim => Inv'
<1> SUFFICES ASSUME Inv, Claim PROVE Inv'
  OBVIOUS
<1>1. PICK c \in Calls : call = {c} /\ nonceCopy = {c.nonce}
  BY VerifierRuns DEF Verifying, Claim
<1> DEFINE i     == dec.at + 1
           label == Map.items[i].label
           val   == Map.items[i].val
           code  == ClaimCode(Map, i, dec.seen, dec.spaces)
           new   == [at |-> i, seen |-> dec.seen \cup {ClaimOf(label)},
                     spaces |-> dec.spaces \cup {SpaceOf(label)}]
           next  == Stored(Target, SpaceOf(label), ClaimOf(label), val)
<1>2. /\ pc = "claim" /\ i <= Len(Map.items) /\ ret' = code
      /\ pc' = IF code = "ok" THEN "claim" ELSE "decoded"
      /\ call' = {c} /\ nonceCopy' = {c.nonce}
      /\ UNCHANGED <<wire, fault, key, out, claimsBuf, sealed, origin>>
      /\ wire.payload # {} /\ Tracked(Target, dec)
  BY <1>1 DEF Claim, issuing, Inv, Decoding
<1>3. /\ IF code = "ok" /\ ~ Extension(label)
         THEN dec' = new /\ Into(next)
         ELSE dec' = [dec EXCEPT !.at = i] /\ UNCHANGED <<untrusted, token>>
  BY Zenon DEF Claim
<1>4. dec.at \in Nat /\ IsDec(dec) /\ IsToken(token) /\ IsToken(untrusted) /\ IsToken(Target)
  BY DEF Inv, Typed, IsDec, Target
<1>5. IsMap(Map)
  BY <1>2 DEF Map, The, Inv, Typed
<1>6. Map.type = "map" /\ IsValue(val)
  <2>1. Map.type = "map"
    BY <1>2 DEF Inv, Decoding
  <2> QED BY <1>2, <1>4, <1>5, <2>1, MapParts
<1> HIDE DEF code, label, val
<1>7. fault' \in BOOLEAN /\ key' \in Singles(Keys)
  BY <1>2 DEF Inv, Typed
<1>8. CASE code = "ok" /\ ~ Extension(label)
  <2>1. /\ SpaceOf(label) \in Namespaces /\ dec.spaces \subseteq {SpaceOf(label)}
        /\ ValueCode(SpaceOf(label), ClaimOf(label), val) = "ok"
        /\ SpaceOf(label) \in {"current", "old"}
        /\ ClaimOf(label) \in DOMAIN LabelIn(SpaceOf(label))
    BY <1>8, ClaimOk DEF code, label, val
  <2>2. IsToken(next) /\ IsDec(new) /\ Tracked(next, new)
    <3> DEFINE sp == SpaceOf(label)
               cl == ClaimOf(label)
    <3>1. sp \in {"current", "old"} \cap Namespaces /\ cl \in DOMAIN LabelIn(sp) /\ i \in Nat
      BY <1>4, <2>1
    <3> QED BY <1>2, <1>4, <1>6, <2>1, <3>1, StoredOk
  <2> HIDE DEF new, next
  <2>3. dec' = new /\ Into(next)
    BY <1>3, <1>8
  <2>4. token' \in {token, next} /\ untrusted' \in {untrusted, next} /\ Target' = next
    BY <1>2, <2>3 DEF Into, Target
  <2>5. IsDec(dec)' /\ IsToken(token)' /\ IsToken(untrusted)'
    <3>1. IsToken(token') /\ IsToken(untrusted') /\ IsDec(dec')
      BY <1>4, <2>2, <2>3, <2>4
    <3> QED BY <3>1 DEF IsToken, IsDec
  <2>6. dec'.at <= Len(Map.items) /\ Tracked(Target', dec')
    BY <1>2, <2>2, <2>3, <2>4 DEF new
  <2>7. pc' = "claim"
    BY <1>2, <1>8
  <2> QED BY <1>2, <1>6, <1>7, <2>5, <2>6, <2>7, VerifyingStep DEF Verifying
<1>9. CASE ~ (code = "ok" /\ ~ Extension(label))
  <2>1. dec' = [dec EXCEPT !.at = i] /\ UNCHANGED <<untrusted, token>>
    BY <1>3, <1>9
  <2>2. /\ dec'.at = i /\ dec'.seen = dec.seen /\ dec'.spaces = dec.spaces
        /\ IsDec(dec)'
    BY <1>4, <2>1 DEF IsDec
  <2>3. IsToken(token)' /\ IsToken(untrusted)' /\ Target' = Target
    BY <1>2, <1>4, <2>1 DEF IsToken, Target
  <2>4. dec'.at <= Len(Map.items) /\ Tracked(Target', dec')
    BY <1>2, <2>2, <2>3 DEF Tracked
  <2>5. pc' \in {"claim", "decoded"} /\ (pc' = "decoded" => ret' # "ok")
    BY <1>2
  <2> QED BY <1>2, <1>6, <1>7, <2>2, <2>3, <2>4, <2>5, VerifyingStep DEF Verifying
<1> QED BY <1>8, <1>9

LEMMA EndClaimsStep == Inv /\ EndClaims => Inv'
<1> SUFFICES ASSUME Inv, EndClaims PROVE Inv'
  OBVIOUS
<1>1. PICK c \in Calls : call = {c} /\ nonceCopy = {c.nonce}
  BY VerifierRuns DEF Verifying, EndClaims
<1> DEFINE code == EndCode(Map, dec.seen, dec.spaces, Target)
           next == IF code = "ok" THEN [Target EXCEPT !.profile = The(dec.spaces)] ELSE Target
<1>2. /\ pc = "claim" /\ pc' = "decoded" /\ ret' = code
      /\ call' = {c} /\ nonceCopy' = {c.nonce} /\ Into(next)
      /\ UNCHANGED <<wire, fault, key, dec, out, claimsBuf, sealed, origin>>
      /\ Tracked(Target, dec)
  BY <1>1 DEF EndClaims, issuing, Inv, Decoding
<1>3. /\ fault' \in BOOLEAN /\ key' \in Singles(Keys) /\ IsDec(dec) /\ IsDec(dec)'
      /\ IsToken(token) /\ IsToken(untrusted) /\ IsToken(Target)
  BY <1>2 DEF Inv, Typed, IsDec, Target
<1>4. IsToken(next) /\ next.components = Target.components /\ next.unmeasured = Target.unmeasured
  BY <1>3 DEF IsToken, NoToken
<1>5. ASSUME code = "ok" PROVE Visitable(next)
  <2>1. /\ Cardinality(dec.spaces) = 1
        /\ dec.spaces = {"old"} => ~ ("components" \in dec.seen <=> "unmeasured" \in dec.seen)
    BY <1>5, EndOk
  <2>2. "old" \in dec.spaces => dec.spaces = {"old"}
    BY <1>3 DEF IsDec
  <2> HIDE DEF next
  <2> QED BY <1>2, <1>4, <2>1, <2>2 DEF Visitable, Tracked
<1> HIDE DEF code, next
<1>6. token' \in {token, next} /\ untrusted' \in {untrusted, next} /\ (key # {} => token' = next)
  BY <1>2 DEF Into
<1>7. IsToken(token)' /\ IsToken(untrusted)'
  <2>1. IsToken(token') /\ IsToken(untrusted')
    BY <1>3, <1>4, <1>6
  <2> QED BY <2>1 DEF IsToken
<1>8. ret' = "ok" /\ key' # {} => Visitable(token)'
  <2>1. ret' = "ok" /\ key' # {} => Visitable(token')
    BY <1>2, <1>5, <1>6
  <2> QED BY <2>1 DEF Visitable
<1> QED BY <1>2, <1>3, <1>7, <1>8, VerifyingStep DEF Verifying

LEMMA DecodedStep == Inv /\ Decoded => Inv'
<1> SUFFICES ASSUME Inv, Decoded PROVE Inv'
  OBVIOUS
<1>1. PICK c \in Calls : call = {c} /\ nonceCopy = {c.nonce}
  BY VerifierRuns DEF Verifying, Decoded
<1> DEFINE next == IF ret # "ok" THEN NoToken
                   ELSE IF key = {} THEN Target ELSE [Target EXCEPT !.protection = wire.tag]
<1>2. /\ pc' = IF ret # "ok" THEN "return" ELSE IF key = {} THEN "resolve" ELSE "nonce"
      /\ call' = {c} /\ nonceCopy' = {c.nonce} /\ dec' = NoDec /\ Into(next) /\ ret' = ret
      /\ UNCHANGED <<wire, fault, key, out, claimsBuf, sealed, origin>>
      /\ ret = "ok" /\ key # {} => Visitable(token)
  BY <1>1 DEF Decoded, issuing, Inv, Decoding
<1>3. /\ fault' \in BOOLEAN /\ key' \in Singles(Keys) /\ IsDec(dec)'
      /\ IsToken(token) /\ IsToken(untrusted) /\ IsToken(Target)
  BY <1>2, NoDecOk DEF Inv, Typed, IsDec, Target
<1>4. IsToken(next)
  BY <1>3, NoTokenOk DEF IsToken, NoToken
<1>5. ret = "ok" /\ key # {} => Visitable(next)
  BY <1>2, <1>3 DEF Visitable, Target, IsToken, NoToken
<1> HIDE DEF next
<1>6. token' \in {token, next} /\ untrusted' \in {untrusted, next} /\ (key # {} => token' = next)
  BY <1>2 DEF Into
<1>7. IsToken(token)' /\ IsToken(untrusted)'
  <2>1. IsToken(token') /\ IsToken(untrusted')
    BY <1>3, <1>4, <1>6
  <2> QED BY <2>1 DEF IsToken
<1>8. pc' = "nonce" => Visitable(token)'
  <2>1. pc' = "nonce" => Visitable(token')
    BY <1>2, <1>5, <1>6
  <2> QED BY <2>1 DEF Visitable
<1> QED BY <1>2, <1>3, <1>7, <1>8, VerifyingStep DEF Verifying

LEMMA ResolveStep == Inv /\ Resolve => Inv'
<1> SUFFICES ASSUME Inv, Resolve PROVE Inv'
  OBVIOUS
<1>1. PICK c \in Calls : call = {c} /\ nonceCopy = {c.nonce}
  BY VerifierRuns DEF Verifying, Resolve
<1>2. /\ call' = {c} /\ nonceCopy' = {c.nonce}
      /\ UNCHANGED <<wire, fault, dec, untrusted, token, out, claimsBuf, sealed, origin>>
      /\ pc' \in {"envelope", "return"}
      /\ pc' = "return" => ret' # "ok"
      /\ key' = key \/ \E k \in Keys : key' = {k}
  BY <1>1 DEF Resolve, issuing, Stage
<1>3. /\ fault' \in BOOLEAN /\ key' \in Singles(Keys)
      /\ IsDec(dec)' /\ IsToken(token)' /\ IsToken(untrusted)'
  BY <1>2 DEF Inv, Typed, IsDec, IsToken, Singles
<1> QED BY <1>2, <1>3, VerifyingStep DEF Verifying

\* The nonce is compared with the copy taken before anything was written.
LEMMA CheckNonceStep == Inv /\ CheckNonce => Inv'
<1> SUFFICES ASSUME Inv, CheckNonce PROVE Inv'
  OBVIOUS
<1>1. PICK c \in Calls : call = {c} /\ nonceCopy = {c.nonce}
  BY VerifierRuns DEF Verifying, CheckNonce
<1>2. /\ call' = {c} /\ pc' = "return"
      /\ UNCHANGED <<wire, fault, key, dec, untrusted, token, out, claimsBuf, sealed, origin>>
      /\ ret' = "ok" => token.nonce = nonceCopy
      /\ Visitable(token)
  BY <1>1 DEF CheckNonce, issuing, reading, Stage, Fails, Reference, Inv, Decoding
<1>3. /\ fault' \in BOOLEAN /\ key' \in Singles(Keys)
      /\ IsDec(dec)' /\ IsToken(token)' /\ IsToken(untrusted)' /\ Visitable(token)'
  BY <1>2 DEF Inv, Typed, IsDec, IsToken, Visitable
<1> QED BY <1>1, <1>2, <1>3, VerifyingStep DEF Verifying

LEMMA ReturnStep == Inv /\ Return => Inv'
<1> SUFFICES ASSUME Inv, Return PROVE Inv'
  OBVIOUS
<1>1. PICK c \in Calls : call = {c}
  BY VerifierRuns DEF Verifying, Return
<1>2. /\ pc = "return" /\ pc' = "idle" /\ ret' = ret /\ untrusted' = NoToken /\ call' = {c}
      /\ token' = IF ret = "ok" THEN token ELSE NoToken
      /\ key' \in {key, {}}
      /\ UNCHANGED <<wire, fault, dec, out, claimsBuf, sealed, origin>>
  BY <1>1 DEF Return, TokenAfter, issuing
<1>3. c.api = "verify"
  BY CallsAssumption
<1>4. Typed'
  <2>1. IsToken(token') /\ IsToken(untrusted')
    BY <1>2, NoTokenOk DEF Inv, Typed
  <2>2. IsDec(dec') /\ IsOut(out')
    BY <1>2 DEF Inv, Typed
  <2>3. key' \in Singles(Keys) /\ call' \in Singles(Calls \cup Visits \cup Requests)
    BY <1>2 DEF Inv, Typed, Singles
  <2>4. fault' \in BOOLEAN /\ sealed' \subseteq Facts /\ origin' \subseteq Requests
        /\ \A v \in wire'.payload : IsMap(v)
    BY <1>2 DEF Inv, Typed
  <2> QED BY <1>2, <2>1, <2>2, <2>3, <2>4 DEF Typed, Verifying, Issuing, IsToken, IsDec, IsOut, Facts
<1>5. Visitable(token')
  BY <1>2, NoTokenOk DEF Inv, Decoding
<1>6. Decoding' /\ Answering' /\ Visiting' /\ Writing'
  BY <1>2, <1>3, <1>5 DEF Decoding, Answering, Visiting, Writing, AnswersTheChallenge,
     FailureZeroesToken, VisitsEachComponent, NoPartialToken, Verifying, Issuing, Visitable
<1> QED BY <1>4, <1>6 DEF Inv

-----------------------------------------------------------------------------
(* Visiting components.                                                    *)

\* A prefix is what SubSeq gives, and the whole when it is as long.
LEMMA PrefixOk ==
    ASSUME NEW items, IsArray(items), NEW v, Prefix(v, items)
    PROVE  /\ v = SubSeq(items, 1, Len(v))
           /\ Len(v) = Len(items) => v = items
<1> DEFINE S == {items[i] : i \in 1 .. Len(items)}
<1>1. items \in Seq(S)
  BY ArraySeq
<1>2. Len(items) \in Nat /\ items = [i \in 1 .. Len(items) |-> items[i]]
  BY DEF IsArray
<1>3. Len(v) \in Nat /\ Len(v) <= Len(items) /\ v = [i \in 1 .. Len(v) |-> items[i]]
  BY DEF Prefix
<1> HIDE DEF S
<1>4. /\ SubSeq(items, 1, Len(v)) = [i \in 1 .. Len(v) |-> items[i]]
  <2>1. Len(v) - 1 + 1 = Len(v) /\ 1 \in 1 .. Len(items) + 1 /\ Len(v) \in 1 - 1 .. Len(items)
    BY <1>2, <1>3
  <2>2. /\ SubSeq(items, 1, Len(v)) \in Seq(S)
        /\ Len(SubSeq(items, 1, Len(v))) = Len(v)
        /\ \A i \in 1 .. Len(v) : SubSeq(items, 1, Len(v))[i] = items[i]
    BY <1>1, <1>2, <1>3, <2>1, SubSeqProperties
  <2> DEFINE u == SubSeq(items, 1, Len(v))
  <2> HIDE DEF u
  <2>3. u = [i \in 1 .. Len(u) |-> u[i]]
    BY <2>2, LenProperties DEF u
  <2>4. u = [i \in 1 .. Len(v) |-> items[i]]
    BY <2>2, <2>3 DEF u
  <2> QED BY <2>4 DEF u
<1>5. Len(v) = Len(items) => v = items
  BY <1>2, <1>3
<1> QED BY <1>3, <1>4, <1>5

LEMMA PrefixGrows ==
    ASSUME NEW items, IsArray(items), NEW v, Prefix(v, items), Len(v) < Len(items)
    PROVE  LET w == Append(v, items[Len(v) + 1])
           IN  Prefix(w, items) /\ w # <<>>
<1> DEFINE S == {items[i] : i \in 1 .. Len(items)}
           x == items[Len(v) + 1]
           w == Append(v, x)
<1>1. Len(items) \in Nat /\ Len(v) \in Nat /\ v = [i \in 1 .. Len(v) |-> items[i]]
  BY DEF IsArray, Prefix
<1>2. v \in [1 .. Len(v) -> S] /\ x \in S
  BY <1>1
<1> HIDE DEF S, x
<1>3. v \in Seq(S)
  BY <1>1, <1>2, SeqDef
<1>4. /\ w \in Seq(S) /\ Len(w) = Len(v) + 1 /\ w[Len(w)] = x
      /\ \A i \in 1 .. Len(v) : w[i] = v[i]
  BY <1>2, <1>3, AppendProperties
<1> HIDE DEF w
<1>5. w = [i \in 1 .. Len(w) |-> w[i]]
  BY <1>4, LenProperties
<1>6. \A i \in 1 .. Len(w) : w[i] = items[i]
  BY <1>1, <1>4 DEF x
<1>7. w = [i \in 1 .. Len(w) |-> items[i]]
  BY <1>5, <1>6
<1>8. Len(w) \in Nat /\ Len(w) <= Len(items) /\ w # <<>>
  BY <1>1, <1>4
<1> QED BY <1>7, <1>8 DEF Prefix, w, x

\* What the two steps of a visit have in common.
LEMMA VisitingStep ==
    ASSUME Inv, NEW c \in Visits, call' = {c}, pc' \in {"visit", "idle"},
           pc \in {"visit", "idle"}, fault' \in BOOLEAN,
           UNCHANGED <<wire, reading, issuing, origin>>,
           pc' = "visit" => /\ ret' = "ok" /\ ~ c.null
                            /\ \E items \in token.components :
                                  Prefix(visited', items) /\ Len(visited') < Len(items),
           pc' = "idle" =>
              /\ visited' # <<>> => ~ c.null /\ token.components # {}
              /\ \A items \in token.components :
                    Prefix(visited', items) /\ (ret' = "ok" => visited' = items)
    PROVE  Inv'
<1>1. UNCHANGED <<wire, key, challenge, nonceCopy, dec, untrusted, token, out, claimsBuf, sealed, origin>>
  BY DEF reading, issuing
<1>2. c.api = "each"
  BY CallsAssumption
<1>3. Typed'
  <2>1. IsDec(dec') /\ IsToken(token') /\ IsToken(untrusted') /\ IsOut(out')
    BY <1>1 DEF Inv, Typed
  <2>2. /\ key' \in Singles(Keys) /\ call' \in Singles(Calls \cup Visits \cup Requests)
        /\ sealed' \subseteq Facts /\ origin' \subseteq Requests
        /\ \A v \in wire'.payload : IsMap(v)
    BY <1>1 DEF Inv, Typed, Singles
  <2> QED BY <2>1, <2>2 DEF Typed, Verifying, Issuing, IsToken, IsDec, IsOut, Facts
<1>4. Visitable(token') /\ \A items \in token.components : IsArray(items)
  BY <1>1 DEF Inv, Decoding, Typed, IsToken
<1>5. VisitsEachComponent'
  <2>1. ASSUME NEW items \in token.components, pc' = "idle"
        PROVE  visited' = SubSeq(items, 1, Len(visited'))
    BY <1>4, <2>1, PrefixOk
  <2> QED BY <1>1, <2>1 DEF VisitsEachComponent, Idle
<1>6. Decoding' /\ Answering' /\ Visiting' /\ Writing'
  BY <1>1, <1>2, <1>4, <1>5 DEF Decoding, Answering, Visiting, Writing, AnswersTheChallenge,
     FailureZeroesToken, NoPartialToken, Verifying, Issuing, Visitable, Prefix
<1> QED BY <1>3, <1>6 DEF Inv

LEMMA EachOk ==
    ASSUME NEW c, EachCode(c) = "ok"
    PROVE  ~ c.null /\ ~ (~ token.unmeasured /\ token.components = {})
<1> DEFINE a == Fails(c.null, "arg")
           b == Fails(~ token.unmeasured /\ token.components = {}, "arg")
<1>1. First(<<a, b>>) = "ok"
  BY DEF EachCode
<1> HIDE DEF a, b
<1>2. a = "ok" /\ b = "ok"
  BY <1>1, PairOf
<1> QED BY <1>2 DEF a, b, Fails

LEMMA ForEachStep == Inv /\ (\E c \in Visits : ForEachComponent(c)) => Inv'
<1> SUFFICES ASSUME Inv, NEW c \in Visits, ForEachComponent(c) PROVE Inv'
  OBVIOUS
<1>1. /\ pc = "idle" /\ call' = {c} /\ fault' = FALSE /\ ret' = EachCode(c) /\ visited' = <<>>
      /\ pc' = IF EachCode(c) = "ok" /\ ~ token.unmeasured THEN "visit" ELSE "idle"
      /\ UNCHANGED <<wire, reading, issuing, origin>>
  BY DEF ForEachComponent, Idle
<1>2. \A items \in token.components : Prefix(visited', items) /\ Len(visited') < Len(items)
  <2>1. ASSUME NEW items \in token.components PROVE Len(items) \in Nat /\ Len(items) >= 1
    BY DEF Inv, Typed, IsToken, IsArray
  <2>2. Len(visited') = 0 /\ visited' = [i \in 1 .. 0 |-> 1]
    BY <1>1
  <2>3. \A items : visited' = [i \in 1 .. Len(visited') |-> items[i]]
    BY <1>1, <2>2
  <2> QED BY <2>1, <2>2, <2>3 DEF Prefix
<1>3. pc' = "visit" => ret' = "ok" /\ ~ c.null /\ token.components # {}
  BY <1>1, EachOk
<1>4. pc' = "idle" /\ ret' = "ok" => token.components = {}
  BY <1>1, EachOk DEF Inv, Decoding, Visitable
<1> QED BY <1>1, <1>2, <1>3, <1>4, VisitingStep

LEMMA VisitStep == Inv /\ Visit => Inv'
<1> SUFFICES ASSUME Inv, Visit PROVE Inv'
  OBVIOUS
<1>1. PICK c \in Visits : call = {c} /\ ~ c.null
  BY DEF Inv, Typed, Visiting, Visit
<1>2. PICK items \in token.components : Prefix(visited, items) /\ Len(visited) < Len(items)
  BY DEF Inv, Visiting, Visit
<1>3. token.components = {items} /\ The(token.components) = items /\ IsArray(items)
  <2>1. token.components = {items} /\ IsArray(items)
    BY DEF Inv, Typed, IsToken
  <2> QED BY <2>1, TheOne
<1> DEFINE item == items[Len(visited) + 1]
<1>4. /\ pc = "visit" /\ call' = {c} /\ fault' = fault
      /\ UNCHANGED <<wire, reading, issuing, origin>>
      /\ IF ComponentCode(item) = "ok" THEN visited' = Append(visited, item) /\ ret' \in {"ok", "app"}
         ELSE ret' = ComponentCode(item) /\ visited' = visited
      /\ pc' = IF ret' = "ok" /\ Len(visited') < Len(items) THEN "visit" ELSE "idle"
  BY <1>1, <1>3 DEF Visit, More
<1>5. Prefix(visited', items)
  BY <1>2, <1>3, <1>4, PrefixGrows
<1>6. pc' = "idle" /\ ret' = "ok" => visited' = items
  <2>1. ASSUME pc' = "idle", ret' = "ok" PROVE Len(visited') = Len(items)
    <3>1. ~ (Len(visited') < Len(items))
      BY <1>4, <2>1
    <3>2. Len(visited') \in Nat /\ Len(items) \in Nat /\ Len(visited') <= Len(items)
      BY <1>3, <1>5 DEF Prefix, IsArray
    <3> QED BY <3>1, <3>2
  <2> QED BY <1>3, <1>5, <2>1, PrefixOk
<1>7. fault' \in BOOLEAN
  BY <1>4 DEF Inv, Typed
<1> QED BY <1>1, <1>3, <1>4, <1>5, <1>6, <1>7, VisitingStep

-----------------------------------------------------------------------------
(* The issuer's steps, and a message on its way.                           *)

\* What the issuer's steps have in common.
LEMMA IssuingStep ==
    ASSUME Inv, NEW q \in Requests, call' = {q}, pc' \in Issuing \cup {"idle"},
           pc \in Issuing \cup {"idle"},
           UNCHANGED <<wire, reading, origin>>,
           fault' \in BOOLEAN, IsOut(out'), sealed' \subseteq Facts,
           pc' \in {"encode", "protect"} => out'.len = {},
           pc' = "protect" => claimsBuf' = {Encoded(q.claims)},
           pc' = "wipe" => IF ret' = "ok" THEN \E m : out'.msg = {m} /\ ~ out'.partial /\ out'.len = {m}
                           ELSE out'.len = {},
           pc' = "idle" => /\ ~ out'.partial /\ out'.len = out'.msg
                           /\ out'.msg # {} <=> ret' = "ok"
    PROVE  Inv'
<1>1. UNCHANGED <<wire, key, challenge, nonceCopy, dec, untrusted, token, origin>>
  BY DEF reading
<1>2. q.api = "create"
  BY CallsAssumption
<1>3. Typed'
  <2>1. IsDec(dec') /\ IsToken(token') /\ IsToken(untrusted')
    BY <1>1 DEF Inv, Typed
  <2>2. /\ key' \in Singles(Keys) /\ call' \in Singles(Calls \cup Visits \cup Requests)
        /\ origin' \subseteq Requests
        /\ \A v \in wire'.payload : IsMap(v)
    BY <1>1 DEF Inv, Typed, Singles
  <2> QED BY <2>1, <2>2 DEF Typed, Verifying, Issuing, IsToken, IsDec, IsOut, Facts
<1>4. Visitable(token')
  BY <1>1 DEF Inv, Decoding, Issuing
<1>5. Decoding' /\ Answering' /\ Visiting'
  BY <1>1, <1>2, <1>4 DEF Decoding, Answering, Visiting, AnswersTheChallenge, FailureZeroesToken,
     VisitsEachComponent, Verifying, Issuing, Visitable
<1>6. Writing'
  BY DEF Writing, NoPartialToken, Idle
<1> QED BY <1>3, <1>5, <1>6 DEF Inv

LEMMA CreateStep == Inv /\ (\E q \in Requests : Create(q)) => Inv'
<1> SUFFICES ASSUME Inv, NEW q \in Requests, Create(q) PROVE Inv'
  OBVIOUS
<1>1. /\ pc = "idle" /\ call' = {q} /\ fault' = FALSE /\ pc' \in {"encode", "wipe"}
      /\ pc' = "wipe" => ret' # "ok"
      /\ out' = [out EXCEPT !.len = {}]
      /\ UNCHANGED <<wire, reading, sealed, origin>>
  BY DEF Create, Idle, LenAtStart
<1>2. IsOut(out') /\ out'.len = {} /\ sealed' \subseteq Facts
  BY <1>1 DEF Inv, Typed, IsOut
<1> QED BY <1>1, <1>2, IssuingStep DEF Issuing

LEMMA IssuerRuns ==
    ASSUME Inv, pc \in Issuing
    PROVE  \E q \in Requests : call = {q} /\ The(call) = q
<1>1. PICK q \in Requests : call = {q}
  BY DEF Inv, Typed
<1> QED BY <1>1, TheOne

LEMMA EncodeClaimsStep == Inv /\ EncodeClaims => Inv'
<1> SUFFICES ASSUME Inv, EncodeClaims PROVE Inv'
  OBVIOUS
<1>1. PICK q \in Requests : call = {q} /\ The(call) = q
  BY IssuerRuns DEF Issuing, EncodeClaims
<1>2. /\ pc = "encode" /\ call' = {q} /\ fault' = fault /\ pc' \in {"protect", "wipe"}
      /\ pc' = "wipe" => ret' # "ok"
      /\ pc' = "protect" => claimsBuf' = {Encoded(q.claims)}
      /\ UNCHANGED <<wire, reading, out, sealed, origin>>
  BY <1>1 DEF EncodeClaims
<1>3. IsOut(out') /\ out'.len = {} /\ sealed' \subseteq Facts /\ fault' \in BOOLEAN
  BY <1>2 DEF Inv, Typed, Writing
<1> QED BY <1>2, <1>3, IssuingStep DEF Issuing

LEMMA ProtectStep == Inv /\ Protect => Inv'
<1> SUFFICES ASSUME Inv, Protect PROVE Inv'
  OBVIOUS
<1>1. PICK q \in Requests : call = {q} /\ The(call) = q /\ claimsBuf = {Encoded(q.claims)}
  <2>1. PICK q \in Requests : call = {q} /\ claimsBuf = {Encoded(q.claims)}
    BY DEF Inv, Writing, Protect
  <2> QED BY <2>1, TheOne
<1> DEFINE m == Message(q.key.id, q.tag, q.alg, Encoded(q.claims))
<1>2. /\ pc = "protect" /\ pc' = "wipe" /\ call' = {q} /\ fault' \in BOOLEAN
      /\ UNCHANGED <<wire, reading, origin>>
      /\ out.len = {}
  BY <1>1 DEF Protect, Inv, Writing
<1>3. IsMap(Encoded(q.claims)) /\ m.payload = {Encoded(q.claims)}
  BY CallsAssumption, EncodedOk DEF Message
<1>4. CASE ret' = "ok"
  <2>1. The(claimsBuf) = Encoded(q.claims)
    BY <1>1, TheOne
  <2>2. /\ out' = [msg |-> {m}, partial |-> FALSE, len |-> {m}]
        /\ sealed' = sealed \cup {RequestFact(q)}
    BY <1>1, <1>4, <2>1 DEF Protect
  <2>3. sealed' \subseteq Facts
    BY <2>2 DEF Inv, Typed, Facts
  <2> HIDE DEF m
  <2>4. IsOut(out')
    BY <1>3, <2>2 DEF IsOut
  <2> QED BY <1>2, <1>4, <2>2, <2>3, <2>4, IssuingStep DEF Issuing
<1>5. CASE ret' # "ok"
  <2>1. /\ out' = out \/ out' = [out EXCEPT !.msg = {}, !.partial = TRUE]
        /\ sealed' = sealed
    BY <1>5 DEF Protect
  <2>2. IsOut(out') /\ out'.len = {}
    BY <1>2, <2>1 DEF Inv, Typed, IsOut
  <2>3. sealed' \subseteq Facts
    BY <2>1 DEF Inv, Typed
  <2> QED BY <1>2, <1>5, <2>2, <2>3, IssuingStep DEF Issuing
<1> QED BY <1>4, <1>5

LEMMA FinishStep == Inv /\ Finish => Inv'
<1> SUFFICES ASSUME Inv, Finish PROVE Inv'
  OBVIOUS
<1>1. PICK q \in Requests : call = {q}
  BY IssuerRuns DEF Issuing, Finish
<1>2. /\ pc = "wipe" /\ pc' = "idle" /\ call' = {q} /\ fault' = fault /\ ret' = ret
      /\ out' = IF ret = "ok" THEN out ELSE [out EXCEPT !.msg = {}, !.partial = FALSE]
      /\ UNCHANGED <<wire, reading, sealed, origin>>
  BY <1>1 DEF Finish, Wiped
<1>3. IF ret = "ok" THEN \E m : out.msg = {m} /\ ~ out.partial /\ out.len = {m} ELSE out.len = {}
  BY <1>2 DEF Inv, Writing
<1>4. IsOut(out') /\ sealed' \subseteq Facts /\ fault' \in BOOLEAN
  BY <1>2 DEF Inv, Typed, IsOut
<1>5. /\ ~ out'.partial /\ out'.len = out'.msg
      /\ out'.msg # {} <=> ret' = "ok"
  BY <1>2, <1>3 DEF Inv, Typed, IsOut
<1> QED BY <1>2, <1>4, <1>5, IssuingStep DEF Issuing

LEMMA ArrivesStep ==
    ASSUME Inv, NEW m, \A v \in m.payload : IsMap(v), NEW from, from \subseteq Requests,
           Arrives(m, from)
    PROVE  Inv'
<1>1. /\ wire' = m /\ origin' = from /\ pc = "idle"
      /\ UNCHANGED <<pc, ret, call, fault, key, challenge, nonceCopy, dec, untrusted, token,
                     visited, out, claimsBuf, sealed>>
  BY DEF Arrives, Idle, reading, issuing
<1>2. Typed'
  <2>1. IsDec(dec') /\ IsToken(token') /\ IsToken(untrusted') /\ IsOut(out')
    BY <1>1 DEF Inv, Typed
  <2>2. /\ key' \in Singles(Keys) /\ call' \in Singles(Calls \cup Visits \cup Requests)
        /\ sealed' \subseteq Facts /\ fault' \in BOOLEAN
    BY <1>1 DEF Inv, Typed
  <2> QED BY <1>1, <2>1, <2>2 DEF Typed, Verifying, Issuing, IsToken, IsDec, IsOut, Facts
<1>3. Decoding' /\ Answering' /\ Visiting' /\ Writing'
  BY <1>1 DEF Inv, Decoding, Answering, Visiting, Writing, AnswersTheChallenge,
     FailureZeroesToken, VisitsEachComponent, NoPartialToken, Verifying, Issuing, Visitable, Idle
<1> QED BY <1>2, <1>3 DEF Inv

LEMMA LaterStep == Inv /\ (\E m \in Later : Arrives(m, {})) => Inv'
<1> SUFFICES ASSUME Inv, NEW m \in Later, Arrives(m, {}) PROVE Inv'
  OBVIOUS
<1>1. \A v \in m.payload : IsMap(v)
  BY LaterAssumption, PeersAssumption
<1> QED BY <1>1, ArrivesStep

LEMMA TransmitStep == Inv /\ Transmit => Inv'
<1> SUFFICES ASSUME Inv, Transmit PROVE Inv'
  OBVIOUS
<1>1. PICK m \in out.len : Arrives(m, call)
  BY DEF Transmit
<1>2. \A v \in m.payload : IsMap(v)
  BY DEF Inv, Typed, IsOut
<1>3. call \subseteq Requests
  <2>1. PICK q \in call : q.api = "create"
    BY DEF Transmit
  <2>2. call = {q} /\ q \in Calls \cup Visits \cup Requests
    BY <2>1 DEF Inv, Typed, Singles
  <2> QED BY <2>1, <2>2, CallsAssumption
<1> QED BY <1>1, <1>2, <1>3, ArrivesStep

-----------------------------------------------------------------------------
(* The theorems.                                                           *)

LEMMA Stutter == Inv /\ UNCHANGED vars => Inv'
<1> SUFFICES ASSUME Inv, UNCHANGED vars PROVE Inv'
  OBVIOUS
<1>1. UNCHANGED <<wire, pc, ret, call, fault, key, challenge, nonceCopy, dec, untrusted, token,
                  visited, out, claimsBuf, sealed, origin>>
  BY DEF vars, reading, issuing
<1>2. Typed'
  <2>1. IsDec(dec') /\ IsToken(token') /\ IsToken(untrusted') /\ IsOut(out')
    BY <1>1 DEF Inv, Typed
  <2> QED BY <1>1, <2>1 DEF Inv, Typed, IsToken, IsDec, IsOut, Facts
<1>3. Map' = Map /\ Target' = Target
  BY <1>1 DEF Map, Target
<1>4. Decoding' /\ Answering'
  BY <1>1, <1>3 DEF Inv, Decoding, Answering, AnswersTheChallenge, FailureZeroesToken, Visitable, Idle
<1>5. Visiting' /\ Writing'
  BY <1>1 DEF Inv, Visiting, Writing, VisitsEachComponent, NoPartialToken, Prefix, Idle
<1> QED BY <1>2, <1>4, <1>5 DEF Inv

\* The inductive invariant holds in every reachable state.
THEOREM AlwaysInv == Spec => []Inv
<1>1. Inv /\ [Next]_vars => Inv'
  BY VerifyStep, EnvelopeStep, AuthenticateStep, BeginClaimsStep, ClaimStep, EndClaimsStep,
     DecodedStep, ResolveStep, CheckNonceStep, ReturnStep, ForEachStep, VisitStep, CreateStep,
     EncodeClaimsStep, ProtectStep, FinishStep, TransmitStep, LaterStep, Stutter
  DEF Next
<1> QED BY InitInv, <1>1, PTL DEF Spec

\* Types: numbers of a token are in range, one namespace is read at a time.
THEOREM TypesHold == Spec => []TypeOK
<1>1. Inv => TypeOK
  <2> SUFFICES ASSUME Inv PROVE TypeOK
    OBVIOUS
  <2>1. Cardinality(dec.spaces) <= 1
    <3>1. \A x, y \in dec.spaces : x = y
      BY DEF Inv, Typed, IsDec
    <3>2. CASE dec.spaces = {}
      <4>1. Cardinality(dec.spaces) = 0
        BY <3>2, FS_EmptySet
      <4> QED BY <4>1
    <3>3. ASSUME NEW s \in dec.spaces PROVE Cardinality(dec.spaces) <= 1
      <4>1. dec.spaces = {s}
        BY <3>1, <3>3
      <4>2. Cardinality(dec.spaces) = 1
        BY <4>1, FS_Singleton
      <4> QED BY <4>2
    <3> QED BY <3>2, <3>3
  <2>2. pc \in {"idle", "envelope", "authenticate", "claims", "claim", "decoded", "resolve",
                "nonce", "return", "visit", "encode", "protect", "wipe"}
    BY DEF Inv, Typed, Verifying, Issuing
  <2>3. call \subseteq Calls \cup Visits \cup Requests /\ key \subseteq Keys
    BY DEF Inv, Typed, Singles
  <2> QED BY <2>1, <2>2, <2>3 DEF Inv, Typed, IsDec, IsToken, IsOut, TypeOK
<1> QED BY AlwaysInv, <1>1, PTL

\* A token that is returned answers the challenge of its call.
THEOREM ChallengeAnswered == Spec => []AnswersTheChallenge
<1>1. Inv => AnswersTheChallenge
  BY DEF Inv, Answering
<1> QED BY AlwaysInv, <1>1, PTL

\* After a failed verification the token is the zero token, and after a failed
\* issue the buffer holds no token and no length.
THEOREM FailuresLeaveNothing == Spec => []FailureLeavesNothing
<1>1. Inv => FailureLeavesNothing
  BY DEF Inv, Answering, Writing, FailureLeavesNothing
<1> QED BY AlwaysInv, <1>1, PTL

\* A visit hands over the components in order, and on success all of them.
THEOREM VisitsAll == Spec => []VisitsEachComponent
<1>1. Inv => VisitsEachComponent
  BY DEF Inv, Visiting
<1> QED BY AlwaysInv, <1>1, PTL

-----------------------------------------------------------------------------
(* What a token at hand means.                                             *)

\* Until a token is read under a key nothing is in the application's; the
\* claims read so far are those of the map, and all of them in the end.
Reading ==
    /\ pc \in {"envelope", "authenticate", "claims", "resolve"} \/ (pc \in {"claim", "decoded"} /\ key = {})
         => token = NoToken
    /\ pc = "claim" => Read(Map, dec.at, dec, Target)
    /\ AcceptsWellFormed
    /\ pc = "decoded" /\ ret = "ok" => Target = Told(Map, "none")
    /\ pc = "nonce" \/ (pc = "return" /\ ret = "ok") =>
         key # {} /\ WellFormed(Map) /\ token = Told(Map, wire.tag)
    /\ pc = "resolve" => key = {}

\* What is read under a key has its seal.
Authentic ==
    pc \in {"claims", "claim", "decoded", "nonce"} \/ (pc = "return" /\ ret = "ok") =>
      \A k \in key : SealOf(k.id, wire.tag, wire.alg, Map) \in wire.seal

\* The seals in reach tell facts, and so does what the application holds.
Backed(m) == \A s \in m.seal : WellFormed(s.content) => FactOf(s) \in sealed

Holding ==
    /\ PeerFacts \subseteq sealed
    /\ Backed(wire) /\ \A m \in out.len : Backed(m)
    /\ Given \subseteq sealed

\* What has been checked of a request whose message is there.
MessageFor(q) == Message(q.key.id, q.tag, q.alg, Encoded(q.claims))

Checked(q) ==
    /\ q.alg \in AlgsOf(q.tag) /\ KeyCode(q.key, q.alg) = "ok"
    /\ ValidateClaims(q.claims) = "ok" /\ TextCode(q.claims) = "ok"

Issued ==
    /\ pc \in {"encode", "protect"} => \A q \in call : q.alg \in AlgsOf(q.tag)
    /\ pc = "protect" =>
         \A q \in call : ValidateClaims(q.claims) = "ok" /\ TextCode(q.claims) = "ok"
    /\ pc \in {"wipe", "idle"} /\ ret = "ok" =>
         \A q \in call : q.api = "create" => Checked(q) /\ out.len = {MessageFor(q)}
    /\ \A q \in origin : Checked(q) /\ wire = MessageFor(q)

Meaning == Reading /\ Authentic /\ Holding /\ Issued /\ IssuedIsAccepted

LEMMA MessageParts ==
    ASSUME NEW q
    PROVE  LET m == MessageFor(q) IN
           /\ m.tag = q.tag /\ m.alg = q.alg /\ m.form = "ok" /\ m.x5chain = FALSE
           /\ m.payload = {Encoded(q.claims)}
           /\ m.seal = {SealOf(q.key.id, q.tag, q.alg, Encoded(q.claims))}
<1> DEFINE content == Encoded(q.claims)
           seal == SealOf(q.key.id, q.tag, q.alg, content)
<1>1. MessageFor(q) = [tag |-> q.tag, form |-> "ok", alg |-> q.alg, x5chain |-> FALSE,
                       payload |-> {content}, seal |-> {seal}]
  BY DEF MessageFor, Message
<1> HIDE DEF content, seal
<1>2. LET m == MessageFor(q) IN
      /\ m.tag = q.tag /\ m.alg = q.alg /\ m.form = "ok" /\ m.x5chain = FALSE
      /\ m.payload = {content} /\ m.seal = {seal}
  BY <1>1
<1> QED BY <1>2 DEF content, seal

LEMMA Answered ==
    ASSUME Inv, Meaning, NEW q \in origin
    PROVE  /\ q \in Requests /\ IsClaims(q.claims) /\ q.tag \in {"sign1", "mac0"} /\ Checked(q)
           /\ wire = MessageFor(q) /\ Map = Encoded(q.claims)
           /\ wire.tag = q.tag /\ wire.alg = q.alg
<1>1. q \in Requests /\ Checked(q) /\ wire = MessageFor(q)
  BY DEF Inv, Typed, Meaning, Issued
<1>2. q.tag \in {"sign1", "mac0"} /\ IsClaims(q.claims)
  BY <1>1, CallsAssumption
<1>3. wire.payload = {Encoded(q.claims)} /\ wire.tag = q.tag /\ wire.alg = q.alg
  BY <1>1, MessageParts
<1>4. Map = Encoded(q.claims)
  BY <1>3, TheOne DEF Map
<1> QED BY <1>1, <1>2, <1>3, <1>4

\* What a verifier's step leaves: requests, messages and, unless it is over,
\* no token in the application's hands.
LEMMA VerifierKeeps ==
    ASSUME Meaning, NEW c \in Calls, call' = {c}, pc' \in Verifying \cup {"idle"},
           UNCHANGED <<wire, out, sealed, origin>>, (Given \subseteq sealed)'
    PROVE  Holding' /\ Issued'
<1>1. Holding'
  BY DEF Meaning, Holding, Backed
<1>2. c.api # "create"
  BY CallsAssumption
<1>3. /\ ~ (pc \in {"encode", "protect"})' /\ (pc # "protect")'
      /\ (\A q \in call : q.api # "create")'
  BY <1>2 DEF Verifying
<1>4. (\A q \in origin : Checked(q) /\ wire = MessageFor(q))'
  BY DEF Meaning, Issued
<1> QED BY <1>1, <1>3, <1>4 DEF Issued

LEMMA NothingGiven ==
    ASSUME (pc \in {"claim", "decoded", "nonce", "return"} \/ token = NoToken)'
    PROVE  (Given \subseteq sealed)'
BY DEF Given

LEMMA VerifyMeans == Inv /\ Meaning /\ (\E c \in Calls : Verify(c)) => Meaning'
<1> SUFFICES ASSUME Inv, Meaning, NEW c \in Calls, Verify(c) PROVE Meaning'
  OBVIOUS
<1> USE DEF Verify, Stage
<1>1. /\ call' = {c} /\ UNCHANGED <<wire, out, sealed, origin>>
      /\ \/ VerifyCode(c) = "ok" /\ pc' = "envelope" /\ token' = NoToken
         \/ VerifyCode(c) # "ok" /\ ret' # "ok" /\ pc' = "return"
  BY DEF issuing
<1>2. Holding' /\ Issued'
  BY <1>1, NothingGiven, VerifierKeeps DEF Verifying
<1>3. Reading' /\ Authentic'
  BY <1>1 DEF Reading, Authentic, AcceptsWellFormed
<1>4. IssuedIsAccepted'
  <2> SUFFICES ASSUME pc' = "return", NEW q \in origin, Answers(c, q)' PROVE FALSE
    BY <1>1 DEF IssuedIsAccepted
  <2>1. ~ c.null /\ c.nonce = The(q.claims.nonce)
    BY DEF Answers
  <2>2. Complete(q.claims)
    BY Answered, ValidatedOk DEF Checked
  <2>3. NonceValid(c.nonce)
    <3>1. LenOf(q.claims.nonce) \in HashLengths
      BY <2>2 DEF Complete, IsHash
    <3>2. q.claims.nonce # {}
      BY <3>1 DEF LenOf, HashLengths
    <3> QED BY <2>1, <3>1, <3>2 DEF NonceValid, LenOf
  <2>4. VerifyCode(c) = "ok"
    BY <2>1, <2>3 DEF VerifyCode, Fails
  <2> QED BY <1>1, <2>4
<1> QED BY <1>2, <1>3, <1>4 DEF Meaning

\* A message made here has the form a verifier asks for.
LEMMA OwnEnvelope ==
    ASSUME NEW q, q.tag \in {"sign1", "mac0"}, Checked(q), TfmFull
    PROVE  EnvelopeCode(MessageFor(q)) = "ok" /\ EnvelopeAlgCode(MessageFor(q)) = "ok"
<1> DEFINE m == MessageFor(q)
           s == <<Fails(m.tag = "none", "type"),
                  Fails(m.tag \notin {"sign1", "mac0"}, "tag"),
                  Fails(m.form \in {"array", "protected"}, "malformed"),
                  Fails(m.alg = "unset", "hdr"),
                  Fails(m.form = "unprotected", "malformed"),
                  Fails(m.x5chain, "unsupported"),
                  Fails(m.payload = {}, "detached"),
                  Fails(m.form \in {"payload", "seal"}, "type"),
                  Fails(m.form = "trailing", "malformed")>>
<1>1. /\ m.tag = q.tag /\ m.alg = q.alg /\ m.form = "ok" /\ m.x5chain = FALSE
      /\ m.payload # {}
  BY MessageParts
<1>2. q.alg \in AlgsOf(q.tag) /\ q.alg # "unset"
  BY AlgsAssumption DEF Checked, AlgsOf
<1>3. EnvelopeCode(m) = First(s)
  BY DEF EnvelopeCode
<1>4. EnvelopeAlgCode(m) = First(<<Fails(m.tag \notin Envelopes, "unsupported"),
                                   Fails(m.alg \notin AlgsOf(m.tag), "alg")>>)
  BY DEF EnvelopeAlgCode
<1> HIDE DEF m
<1>5. Len(s) = 9 /\ \A k \in 1 .. 9 : s[k] = "ok"
  BY <1>1, <1>2 DEF Fails
<1> HIDE DEF s
<1>6. First(s) = "ok"
  BY <1>5, NoRefusal
<1>7. EnvelopeAlgCode(m) = "ok"
  <2>1. m.tag \in Envelopes /\ m.alg \in AlgsOf(m.tag)
    BY <1>1, <1>2, ProfilesAssumption
  <2>2. Fails(m.tag \notin Envelopes, "unsupported") = "ok" /\ Fails(m.alg \notin AlgsOf(m.tag), "alg") = "ok"
    BY <2>1 DEF Fails
  <2> QED BY <1>4, <2>2, PairIff
<1> QED BY <1>3, <1>6, <1>7 DEF m

LEMMA EnvelopeMeans == Inv /\ Meaning /\ Envelope => Meaning'
<1> SUFFICES ASSUME Inv, Meaning, Envelope PROVE Meaning'
  OBVIOUS
<1> DEFINE code == First(<<EnvelopeCode(wire), EnvelopeAlgCode(wire)>>)
<1>1. /\ pc = "envelope" /\ ret' = code
      /\ pc' = IF code = "ok" THEN (IF key = {} THEN "claims" ELSE "authenticate") ELSE "return"
      /\ UNCHANGED <<wire, call, fault, reading, issuing, origin>>
  BY DEF Envelope, Stage
<1> HIDE DEF code
<1>2. PICK c \in Calls : call = {c} /\ The(call) = c
  BY <1>1, VerifierRuns DEF Verifying
<1>3. token = NoToken
  BY <1>1 DEF Meaning, Reading
<1>4. Holding' /\ Issued'
  BY <1>1, <1>2, <1>3, NothingGiven, VerifierKeeps DEF Verifying, reading, issuing
<1>5. Reading'
  BY <1>1, <1>3 DEF Reading, AcceptsWellFormed, reading
<1>6. Authentic'
  BY <1>1 DEF Authentic, reading
<1>7. IssuedIsAccepted'
  <2> SUFFICES ASSUME pc' = "return", NEW q \in origin, TfmFull PROVE FALSE
    BY <1>1 DEF IssuedIsAccepted, Answers
  <2>1. EnvelopeCode(wire) = "ok" /\ EnvelopeAlgCode(wire) = "ok"
    BY Answered, OwnEnvelope
  <2>2. code = "ok"
    BY <2>1, PairIff DEF code
  <2> QED BY <1>1, <2>2
<1> QED BY <1>4, <1>5, <1>6, <1>7 DEF Meaning

LEMMA AuthenticateMeans == Inv /\ Meaning /\ Authenticate => Meaning'
<1> SUFFICES ASSUME Inv, Meaning, Authenticate PROVE Meaning'
  OBVIOUS
<1> DEFINE auth == AuthenticCode(The(key), wire)
<1>1. PICK code \in LibraryCodes :
         /\ ret' = First(<<auth, code>>)
         /\ pc' = IF First(<<auth, code>>) = "ok" THEN "claims" ELSE "return"
         /\ fault' = (code # "ok")
  BY DEF Authenticate, Stage
<1>2. pc = "authenticate" /\ UNCHANGED <<wire, call, key, token, out, sealed, origin>>
  BY DEF Authenticate, issuing
<1>3. First(<<auth, code>>) = "ok" <=> auth = "ok" /\ code = "ok"
  BY PairIff
<1>4. auth = "ok" <=> /\ KeyCode(The(key), wire.alg) = "ok"
                      /\ wire.seal = {SealOf(The(key).id, wire.tag, wire.alg, p) : p \in wire.payload}
  <2> DEFINE a == KeyCode(The(key), wire.alg)
             b == Fails(wire.seal # {SealOf(The(key).id, wire.tag, wire.alg, p) : p \in wire.payload},
                        IF wire.tag = "sign1" THEN "sig" ELSE "mac")
  <2>1. auth = First(<<a, b>>)
    BY DEF AuthenticCode
  <2>2. b = "ok" <=> wire.seal = {SealOf(The(key).id, wire.tag, wire.alg, p) : p \in wire.payload}
    BY DEF Fails
  <2> HIDE DEF a, b
  <2>3. First(<<a, b>>) = "ok" <=> a = "ok" /\ b = "ok"
    BY PairIff
  <2> QED BY <2>1, <2>2, <2>3 DEF a
<1> HIDE DEF auth
<1>5. PICK c \in Calls : call = {c} /\ The(call) = c
  BY <1>2, VerifierRuns DEF Verifying
<1>6. token = NoToken
  BY <1>2 DEF Meaning, Reading
<1>7. key = {} \/ \E k : key = {k} /\ The(key) = k
  BY TheOne DEF Inv, Typed, Singles
<1>8. Holding' /\ Issued'
  BY <1>1, <1>2, <1>5, <1>6, NothingGiven, VerifierKeeps DEF Verifying
<1>9. Reading'
  BY <1>1, <1>2, <1>6 DEF Reading, AcceptsWellFormed
<1>10. Authentic'
  <2> SUFFICES ASSUME pc' = "claims", NEW k \in key
               PROVE  SealOf(k.id, wire.tag, wire.alg, Map) \in wire.seal
    BY <1>1, <1>2 DEF Authentic, Map
  <2>1. The(key) = k
    BY <1>7
  <2>2. Map \in wire.payload
    BY <1>2 DEF Inv, Decoding, Map, The
  <2> QED BY <1>1, <1>3, <1>4, <2>1, <2>2
<1>11. IssuedIsAccepted'
  <2> SUFFICES ASSUME pc' = "return", NEW q \in origin, Answers(c, q)', ~ fault', key # {} PROVE FALSE
    BY <1>2, <1>5 DEF IssuedIsAccepted
  <2>1. PICK k : key = {k} /\ The(key) = k
    BY <1>7
  <2>2. k.id = q.key.id /\ KeyCode(k, q.alg) = "ok"
    BY <1>2, <2>1 DEF Answers
  <2>3. wire = MessageFor(q) /\ wire.tag = q.tag /\ wire.alg = q.alg
    BY Answered
  <2>4. /\ wire.payload = {Encoded(q.claims)}
        /\ wire.seal = {SealOf(q.key.id, q.tag, q.alg, Encoded(q.claims))}
    BY <2>3, MessageParts
  <2>5. wire.seal = {SealOf(The(key).id, wire.tag, wire.alg, p) : p \in wire.payload}
    BY <2>1, <2>2, <2>3, <2>4
  <2>6. auth = "ok" /\ code = "ok"
    BY <1>1, <1>4, <2>1, <2>2, <2>3, <2>5
  <2> QED BY <1>1, <1>3, <2>6
<1> QED BY <1>8, <1>9, <1>10, <1>11 DEF Meaning

LEMMA BeginClaimsMeans == Inv /\ Meaning /\ BeginClaims => Meaning'
<1> SUFFICES ASSUME Inv, Meaning, BeginClaims PROVE Meaning'
  OBVIOUS
<1> DEFINE a == TypedCode(Map, "map")
           b == Fails(Len(Map.items) > MaxClaims, "claim")
           code == First(<<a, b>>)
<1>1. /\ pc = "claims" /\ ret' = code /\ pc' = IF code = "ok" THEN "claim" ELSE "decoded"
      /\ dec' = NoDec /\ Into(NoToken)
      /\ UNCHANGED <<wire, call, key, out, sealed, origin>>
  BY DEF BeginClaims, issuing
<1>2. code = "ok" <=> a = "ok" /\ b = "ok"
  <2> HIDE DEF a, b
  <2> QED BY PairIff
<1>3. code = "ok" <=> Map.type = "map" /\ ~ (Len(Map.items) > MaxClaims)
  BY <1>2, TypedExact DEF Fails
<1> HIDE DEF code
<1>4. PICK c \in Calls : call = {c}
  BY <1>1, VerifierRuns DEF Verifying
<1>5. token = NoToken /\ token' = NoToken /\ Target' = NoToken
  BY <1>1 DEF Meaning, Reading, Into, Target
<1>6. Map \in wire.payload /\ IsMap(Map)
  BY <1>1 DEF Map, The, Inv, Typed, Decoding
<1>7. Map' = Map
  BY <1>1 DEF Map
<1>8. Holding' /\ Issued'
  BY <1>1, <1>4, <1>5, NothingGiven, VerifierKeeps DEF Verifying
<1>9. pc' = "claim" => Read(Map, 0, NoDec, NoToken)
  <2>1. pc' = "claim" => Map.type = "map" /\ Len(Map.items) <= MaxClaims
    BY <1>1, <1>3, <1>6, MapParts, LimitsAssumption
  <2> QED BY <2>1, NothingRead
<1>10. pc' = "decoded" => ret' # "ok" /\ ~ WellFormed(Map)
  BY <1>1, <1>3, <1>6, MapParts, LimitsAssumption DEF WellFormed
<1>11. Reading'
  <2>1. dec'.at = 0
    BY <1>1 DEF NoDec
  <2> QED BY <1>1, <1>5, <1>7, <1>9, <1>10, <2>1 DEF Reading, AcceptsWellFormed
<1>12. Authentic'
  BY <1>1, <1>7 DEF Meaning, Authentic
<1>13. IssuedIsAccepted'
  BY <1>1 DEF IssuedIsAccepted
<1> QED BY <1>8, <1>11, <1>12, <1>13 DEF Meaning

LEMMA ClaimMeans == Inv /\ Meaning /\ Claim => Meaning'
<1> SUFFICES ASSUME Inv, Meaning, Claim PROVE Meaning'
  OBVIOUS
<1> DEFINE i     == dec.at + 1
           label == Map.items[i].label
           val   == Map.items[i].val
           code  == ClaimCode(Map, i, dec.seen, dec.spaces)
           new   == [at |-> i, seen |-> dec.seen \cup {ClaimOf(label)},
                     spaces |-> dec.spaces \cup {SpaceOf(label)}]
           next  == Stored(Target, SpaceOf(label), ClaimOf(label), val)
<1>1. /\ pc = "claim" /\ i <= Len(Map.items) /\ ret' = code
      /\ pc' = IF code = "ok" THEN "claim" ELSE "decoded"
      /\ UNCHANGED <<wire, call, key, out, sealed, origin>>
  BY DEF Claim, issuing
<1>2. /\ IF code = "ok" /\ ~ Extension(label)
         THEN dec' = new /\ Into(next)
         ELSE dec' = [dec EXCEPT !.at = i] /\ UNCHANGED <<untrusted, token>>
  BY Zenon DEF Claim
<1>3. PICK c \in Calls : call = {c}
  BY <1>1, VerifierRuns DEF Verifying
<1>4. /\ dec.at \in Nat /\ IsDec(dec) /\ IsToken(Target)
  BY DEF Inv, Typed, IsDec, Target
<1>5. Map \in wire.payload /\ IsMap(Map) /\ Map.type = "map"
  BY <1>1 DEF Map, The, Inv, Typed, Decoding
<1>6. IsReadable(val) /\ i \in 1 .. Len(Map.items) /\ Len(Map.items) \in Nat
  BY <1>1, <1>4, <1>5, MapParts
<1>7. Read(Map, dec.at, dec, Target)
  BY <1>1 DEF Meaning, Reading
<1>8. code = "ok" <=>
         /\ Admitted(Map.items[i]) /\ ~ HasPriorLabel(Map.items, i)
         /\ Known(label) => dec.spaces \subseteq {SpaceOf(label)} /\ ClaimOf(label) \notin dec.seen
  <2> DEFINE map == Map
             j == i
  <2>1. IsReadable(map.items[j].val)
    BY <1>6
  <2> HIDE DEF map, j
  <2>2. ClaimCode(map, j, dec.seen, dec.spaces) = "ok" <=>
         /\ Admitted(map.items[j]) /\ ~ HasPriorLabel(map.items, j)
         /\ Known(map.items[j].label) => /\ dec.spaces \subseteq {SpaceOf(map.items[j].label)}
                                         /\ ClaimOf(map.items[j].label) \notin dec.seen
    BY <2>1, ClaimExact
  <2> QED BY <2>2 DEF map, j
<1>9. code # "ok" => ~ WellFormed(Map)
  BY <1>4, <1>5, <1>6, <1>7, ClaimRefused
<1> HIDE DEF code
<1>10. Map' = Map
  BY <1>1 DEF Map
<1>11. code = "ok" => Read(Map, dec'.at, dec', Target')
  <2>1. CASE code = "ok" /\ ~ Extension(label)
    <3>1. Read(Map, i, new, next)
      <4>1. /\ Admitted(Map.items[dec.at + 1]) /\ ~ HasPriorLabel(Map.items, dec.at + 1)
            /\ Known(Map.items[dec.at + 1].label)
            /\ ClaimOf(Map.items[dec.at + 1].label) \notin dec.seen
        BY <1>8, <2>1 DEF Extension
      <4>2. Target = [f \in DOMAIN NoToken |-> Target[f]]
        BY <1>4 DEF IsToken
      <4> QED BY <1>4, <1>7, <4>1, <4>2, ReadClaim
    <3> HIDE DEF new, next
    <3>2. dec' = new /\ Target' = next
      BY <1>1, <1>2, <2>1 DEF Into, Target
    <3>3. dec'.at = i
      BY <3>2 DEF new
    <3> QED BY <3>1, <3>2, <3>3
  <2>2. CASE code = "ok" /\ Extension(label)
    <3>1. /\ dec'.at = i /\ dec'.seen = dec.seen /\ dec'.spaces = dec.spaces /\ Target' = Target
      BY <1>1, <1>2, <1>4, <2>2 DEF IsDec, Target
    <3>2. /\ Admitted(Map.items[dec.at + 1]) /\ ~ HasPriorLabel(Map.items, dec.at + 1)
          /\ ~ Known(Map.items[dec.at + 1].label)
      BY <1>8, <2>2 DEF Extension
    <3>3. Read(Map, dec.at + 1, dec', Target)
      BY <1>4, <1>7, <3>1, <3>2, ReadOther
    <3> QED BY <3>1, <3>3
  <2> QED BY <2>1, <2>2
<1>12. key = {} => token' = NoToken
  BY <1>1, <1>2 DEF Meaning, Reading, Into
<1>13. Reading'
  BY <1>1, <1>9, <1>10, <1>11, <1>12 DEF Reading, AcceptsWellFormed
<1>14. Holding' /\ Issued'
  BY <1>1, <1>3, NothingGiven, VerifierKeeps DEF Verifying
<1>15. Authentic'
  BY <1>1, <1>10 DEF Meaning, Authentic
<1>16. IssuedIsAccepted'
  BY <1>1 DEF IssuedIsAccepted
<1> QED BY <1>13, <1>14, <1>15, <1>16 DEF Meaning

LEMMA EndClaimsMeans == Inv /\ Meaning /\ EndClaims => Meaning'
<1> SUFFICES ASSUME Inv, Meaning, EndClaims PROVE Meaning'
  OBVIOUS
<1> DEFINE code == EndCode(Map, dec.seen, dec.spaces, Target)
           told == [Target EXCEPT !.profile = The(dec.spaces)]
<1>1. /\ pc = "claim" /\ pc' = "decoded" /\ ret' = code
      /\ Into(IF code = "ok" THEN told ELSE Target)
      /\ UNCHANGED <<wire, call, key, out, sealed, origin>>
  BY DEF EndClaims, issuing
<1>2. dec.at = Len(Map.items)
  BY DEF EndClaims
<1>3. PICK c \in Calls : call = {c}
  BY <1>1, VerifierRuns DEF Verifying
<1>4. IsDec(dec) /\ IsToken(Target)
  BY DEF Inv, Typed, Target
<1>5. Map \in wire.payload /\ IsMap(Map)
  BY <1>1 DEF Map, The, Inv, Typed, Decoding
<1>6. Read(Map, Len(Map.items), dec, Target)
  BY <1>1, <1>2 DEF Meaning, Reading
<1>7. dec.spaces = {} \/ \E space \in {"current", "old"} : dec.spaces = {space}
  BY <1>4, ProfilesAssumption DEF IsDec
<1>8. /\ code = "ok" <=> WellFormed(Map)
      /\ code = "ok" => told = Told(Map, "none")
  <2>1. CASE dec.spaces = {}
    BY <1>5, <1>6, <2>1, NoClaims
  <2>2. ASSUME NEW space \in {"current", "old"}, dec.spaces = {space}
        PROVE  /\ code = "ok" <=> WellFormed(Map)
               /\ code = "ok" => told = Told(Map, "none")
    <3>1. ReadAll(Map, dec, Target, space)
      BY <1>5, <1>6, <2>2 DEF ReadAll
    <3>2. code = "ok" <=> WellFormed(Map)
      BY <3>1, EndExact
    <3>3. The(dec.spaces) = space
      BY <2>2, TheOne
    <3>4. Target = [f \in DOMAIN NoToken |-> Target[f]]
      BY <1>4 DEF IsToken
    <3>5. WellFormed(Map) => [Target EXCEPT !.profile = space] = Told(Map, "none")
      BY <3>1, <3>4, ToldExact
    <3> HIDE DEF code
    <3> QED BY <3>2, <3>3, <3>5
  <2> QED BY <1>7, <2>1, <2>2
<1> HIDE DEF code, told
<1>9. Map' = Map
  BY <1>1 DEF Map
<1>10. code = "ok" => Target' = told
  BY <1>1 DEF Into, Target
<1>11. key = {} => token' = NoToken
  BY <1>1 DEF Meaning, Reading, Into
<1>12. Reading'
  BY <1>1, <1>8, <1>9, <1>10, <1>11 DEF Reading, AcceptsWellFormed
<1>13. Holding' /\ Issued'
  BY <1>1, <1>3, NothingGiven, VerifierKeeps DEF Verifying
<1>14. Authentic'
  BY <1>1, <1>9 DEF Meaning, Authentic
<1>15. IssuedIsAccepted'
  BY <1>1 DEF IssuedIsAccepted
<1> QED BY <1>12, <1>13, <1>14, <1>15 DEF Meaning

LEMMA OwnWellFormed ==
    ASSUME Inv, Meaning, NEW q \in origin, TfmFull
    PROVE  WellFormed(Map) /\ Told(Map, wire.tag) = TokenOf(q)
<1>1. /\ IsClaims(q.claims) /\ Checked(q) /\ Map = Encoded(q.claims) /\ wire.tag = q.tag
  BY Answered
<1>2. WellFormed(Encoded(q.claims))
  BY <1>1, EncodedWellFormed DEF Checked
<1>3. Told(Encoded(q.claims), q.tag) = TokenOf(q)
  BY <1>1, <1>2, EncodedTold
<1> QED BY <1>1, <1>2, <1>3

LEMMA ProtectedBy ==
    ASSUME NEW map, NEW t, t = Told(map, "none"), NEW tag
    PROVE  [t EXCEPT !.protection = tag] = Told(map, tag)
<1> DEFINE space == CHOOSE s \in Namespaces : Conforms(map, s)
           a(claim) == At(map, space, claim)
           client == The({v.num : v \in a("client")})
           lifecycle == The({v.num : v \in a("lifecycle")})
           components == {v.items : v \in a("components")}
           unmeasured == (a("unmeasured") # {})
           with(p) == [profile |-> space, protection |-> p,
                       nonce |-> a("nonce"), ueid |-> a("ueid"), impl |-> a("impl"),
                       seed |-> a("seed"), cert |-> a("cert"), vsi |-> a("vsi"),
                       client |-> client, lifecycle |-> lifecycle,
                       components |-> components, unmeasured |-> unmeasured]
<1>1. t = with("none") /\ Told(map, tag) = with(tag)
  BY Zenon DEF Told
<1> HIDE DEF space, a, client, lifecycle, components, unmeasured
<1>2. [with("none") EXCEPT !.protection = tag] = with(tag)
  OBVIOUS
<1> QED BY Zenon, <1>1, <1>2

LEMMA DecodedMeans == Inv /\ Meaning /\ Decoded => Meaning'
<1> SUFFICES ASSUME Inv, Meaning, Decoded PROVE Meaning'
  OBVIOUS
<1> DEFINE next == IF ret # "ok" THEN NoToken
                   ELSE IF key = {} THEN Target ELSE [Target EXCEPT !.protection = wire.tag]
<1>1. /\ pc = "decoded" /\ ret' = ret /\ Into(next)
      /\ pc' = IF ret # "ok" THEN "return" ELSE IF key = {} THEN "resolve" ELSE "nonce"
      /\ UNCHANGED <<wire, call, key, out, sealed, origin>>
  BY DEF Decoded, issuing
<1>2. PICK c \in Calls : call = {c}
  BY <1>1, VerifierRuns DEF Verifying
<1>3. Map' = Map
  BY <1>1 DEF Map
<1>4. /\ key = {} => token = NoToken
      /\ ret = "ok" <=> WellFormed(Map)
      /\ ret = "ok" => Target = Told(Map, "none")
  BY <1>1 DEF Meaning, Reading, AcceptsWellFormed
<1>5. ret = "ok" /\ key # {} => next = Told(Map, wire.tag)
  BY <1>4, ProtectedBy
<1> HIDE DEF next
<1>6. IF key = {} THEN token' = NoToken ELSE token' = next
  BY <1>1, <1>4 DEF Into
<1>7. Reading'
  BY <1>1, <1>3, <1>4, <1>5, <1>6 DEF Reading, AcceptsWellFormed
<1>8. Holding' /\ Issued'
  BY <1>1, <1>2, <1>6, NothingGiven, VerifierKeeps DEF Verifying
<1>9. Authentic'
  BY <1>1, <1>3 DEF Meaning, Authentic
<1>10. IssuedIsAccepted'
  <2> SUFFICES ASSUME pc' = "return", NEW q \in origin, TfmFull PROVE FALSE
    BY <1>1 DEF IssuedIsAccepted, Answers
  <2>1. ret # "ok"
    BY <1>1
  <2> QED BY <1>4, <2>1, OwnWellFormed
<1> QED BY <1>7, <1>8, <1>9, <1>10 DEF Meaning

LEMMA ResolveMeans == Inv /\ Meaning /\ Resolve => Meaning'
<1> SUFFICES ASSUME Inv, Meaning, Resolve PROVE Meaning'
  OBVIOUS
<1>1. /\ pc = "resolve" /\ UNCHANGED <<wire, call, token, out, sealed, origin>>
      /\ \/ pc' = "envelope"
         \/ pc' = "return" /\ ret' # "ok" /\ key' = key
  BY DEF Resolve, issuing, Stage
<1>2. PICK c \in Calls : call = {c}
  BY <1>1, VerifierRuns DEF Verifying
<1>3. token = NoToken /\ key = {}
  BY <1>1 DEF Meaning, Reading
<1>4. Reading' /\ Authentic'
  BY <1>1, <1>3 DEF Reading, AcceptsWellFormed, Authentic
<1>5. Holding' /\ Issued'
  BY <1>1, <1>2, <1>3, NothingGiven, VerifierKeeps DEF Verifying
<1>6. IssuedIsAccepted'
  BY <1>1, <1>3 DEF IssuedIsAccepted
<1> QED BY <1>4, <1>5, <1>6 DEF Meaning

LEMMA CheckNonceMeans == Inv /\ Meaning /\ CheckNonce => Meaning'
<1> SUFFICES ASSUME Inv, Meaning, CheckNonce PROVE Meaning'
  OBVIOUS
<1>1. /\ pc = "nonce" /\ pc' = "return"
      /\ ret' = IF token.nonce # nonceCopy THEN "nonce" ELSE "ok"
      /\ UNCHANGED <<wire, call, key, token, out, sealed, origin>>
  BY DEF CheckNonce, issuing, reading, Stage, Fails, Reference
<1>2. PICK c \in Calls : call = {c} /\ nonceCopy = {c.nonce}
  BY <1>1, VerifierRuns DEF Verifying
<1>3. Map' = Map
  BY <1>1 DEF Map
<1>4. key # {} /\ WellFormed(Map) /\ token = Told(Map, wire.tag)
  BY <1>1 DEF Meaning, Reading
<1>5. Reading'
  BY <1>1, <1>3, <1>4 DEF Reading, AcceptsWellFormed
<1>6. Authentic'
  BY <1>1, <1>3 DEF Meaning, Authentic
<1>7. Holding' /\ Issued'
  BY <1>1, <1>2, NothingGiven, VerifierKeeps DEF Verifying
<1>8. IssuedIsAccepted'
  <2> SUFFICES ASSUME NEW q \in origin, Answers(c, q)' PROVE ret' = "ok" /\ token' = TokenOf(q)
    BY <1>1, <1>2 DEF IssuedIsAccepted
  <2>1. TfmFull /\ c.nonce = The(q.claims.nonce)
    BY DEF Answers
  <2>2. token = TokenOf(q)
    BY <1>4, <2>1, OwnWellFormed
  <2>3. token.nonce = q.claims.nonce
    BY <2>2 DEF TokenOf
  <2>4. q.claims.nonce # {} /\ \A x, y \in q.claims.nonce : x = y
    <3>1. Complete(q.claims) /\ \A x, y \in q.claims.nonce : x = y
      BY Answered, ValidatedOk DEF Checked, IsClaims, IsSpan
    <3> QED BY <3>1, HashOk DEF Complete
  <2>5. q.claims.nonce = {c.nonce}
    BY <2>1, <2>4 DEF The
  <2> QED BY <1>1, <1>2, <2>2, <2>3, <2>5
<1> QED BY <1>5, <1>6, <1>7, <1>8 DEF Meaning

\* What is given was read from the message at hand, under its seal.
LEMMA ReturnMeans == Inv /\ Meaning /\ Return => Meaning'
<1> SUFFICES ASSUME Inv, Meaning, Return PROVE Meaning'
  OBVIOUS
<1>1. /\ pc = "return" /\ pc' = "idle" /\ ret' = ret
      /\ token' = IF ret = "ok" THEN token ELSE NoToken
      /\ ret = "ok" => key' = key
      /\ UNCHANGED <<wire, call, out, sealed, origin>>
  BY DEF Return, issuing, TokenAfter
<1>2. PICK c \in Calls : call = {c}
  BY <1>1, VerifierRuns DEF Verifying
<1>3. (Given \subseteq sealed)'
  <2>1. CASE ret # "ok"
    BY <1>1, <2>1, NothingGiven
  <2>2. CASE ret = "ok"
    <3>1. /\ WellFormed(Map) /\ token = Told(Map, wire.tag)
          /\ \A k \in key : SealOf(k.id, wire.tag, wire.alg, Map) \in wire.seal
      BY <1>1, <2>2 DEF Meaning, Reading, Authentic
    <3>2. \A s \in wire.seal : WellFormed(s.content) => FactOf(s) \in sealed
      BY DEF Meaning, Holding, Backed
    <3>3. ASSUME NEW k \in key PROVE [key |-> k.id, told |-> token] \in sealed
      <4> DEFINE s == SealOf(k.id, wire.tag, wire.alg, Map)
      <4>1. s \in wire.seal
        BY <3>1
      <4>2. s.key = k.id /\ s.tag = wire.tag /\ s.content = Map
        BY DEF SealOf
      <4> HIDE DEF s
      <4>3. FactOf(s) = [key |-> k.id, told |-> token]
        BY <3>1, <4>2 DEF FactOf
      <4> QED BY <3>1, <3>2, <4>1, <4>2, <4>3
    <3> QED BY <1>1, <2>2, <3>3 DEF Given
  <2> QED BY <2>1, <2>2
<1>4. Holding' /\ Issued'
  BY <1>1, <1>2, <1>3, VerifierKeeps DEF Verifying
<1>5. Reading' /\ Authentic' /\ IssuedIsAccepted'
  BY <1>1 DEF Reading, AcceptsWellFormed, Authentic, IssuedIsAccepted
<1> QED BY <1>4, <1>5 DEF Meaning

\* Steps of the iterator and of the issuer, who hold on to the token.
LEMMA OthersKeep ==
    ASSUME Meaning, pc \notin Verifying, pc' \notin Verifying,
           UNCHANGED <<wire, key, token, origin>>, sealed \subseteq sealed',
           \A m \in out'.len : \A s \in m.seal : WellFormed(s.content) => FactOf(s) \in sealed',
           pc' \in {"encode", "protect"} => \A q \in call' : q.alg \in AlgsOf(q.tag),
           pc' = "protect" =>
             \A q \in call' : ValidateClaims(q.claims) = "ok" /\ TextCode(q.claims) = "ok",
           pc' \in {"wipe", "idle"} /\ ret' = "ok" =>
             \A q \in call' : q.api = "create" => Checked(q) /\ out'.len = {MessageFor(q)}
    PROVE  Meaning' /\ Given' = Given
<1>1. Given' = Given
  BY DEF Given, Verifying
<1>2. Holding'
  <2>1. PeerFacts \subseteq sealed' /\ Given' \subseteq sealed'
    BY <1>1 DEF Meaning, Holding
  <2>2. \A s \in wire'.seal : WellFormed(s.content) => FactOf(s) \in sealed'
    BY DEF Meaning, Holding, Backed
  <2> QED BY <2>1, <2>2 DEF Holding, Backed
<1>3. Issued'
  <2>1. (\A q \in origin : Checked(q) /\ wire = MessageFor(q))'
    BY DEF Meaning, Issued
  <2> QED BY <2>1 DEF Issued
<1>4. Reading' /\ Authentic' /\ IssuedIsAccepted'
  BY DEF Reading, AcceptsWellFormed, Authentic, IssuedIsAccepted, Verifying
<1> QED BY <1>1, <1>2, <1>3, <1>4 DEF Meaning

LEMMA BackedOut ==
    ASSUME Meaning
    PROVE  \A m \in out.len : \A s \in m.seal : WellFormed(s.content) => FactOf(s) \in sealed
BY DEF Meaning, Holding, Backed

LEMMA ForEachMeans ==
    Inv /\ Meaning /\ (\E c \in Visits : ForEachComponent(c)) => Meaning' /\ Given' = Given
<1> SUFFICES ASSUME Inv, Meaning, NEW c \in Visits, ForEachComponent(c) PROVE Meaning' /\ Given' = Given
  OBVIOUS
<1>1. /\ pc = "idle" /\ call' = {c} /\ pc' \in {"visit", "idle"}
      /\ UNCHANGED <<wire, key, token, out, sealed, origin>>
  BY DEF ForEachComponent, Idle, reading, issuing
<1>2. c.api # "create"
  BY CallsAssumption
<1> QED BY <1>1, <1>2, BackedOut, OthersKeep DEF Verifying

LEMMA VisitMeans == Inv /\ Meaning /\ Visit => Meaning' /\ Given' = Given
<1> SUFFICES ASSUME Inv, Meaning, Visit PROVE Meaning' /\ Given' = Given
  OBVIOUS
<1>1. PICK c \in Visits : call = {c}
  BY DEF Inv, Typed, Visit
<1>2. /\ pc = "visit" /\ call' = {c} /\ pc' \in {"visit", "idle"}
      /\ UNCHANGED <<wire, key, token, out, sealed, origin>>
  BY <1>1 DEF Visit, reading, issuing
<1>3. c.api # "create"
  BY CallsAssumption
<1> QED BY <1>2, <1>3, BackedOut, OthersKeep DEF Verifying

LEMMA CreateMeans ==
    Inv /\ Meaning /\ (\E q \in Requests : Create(q)) => Meaning' /\ Given' = Given
<1> SUFFICES ASSUME Inv, Meaning, NEW q \in Requests, Create(q) PROVE Meaning' /\ Given' = Given
  OBVIOUS
<1> DEFINE a == Fails(q.null, "arg")
           b == Fails(q.alg \notin AlgsOf(q.tag), "alg")
           code == First(<<a, b>>)
<1>1. /\ pc = "idle" /\ call' = {q} /\ ret' = code
      /\ pc' = IF code = "ok" THEN "encode" ELSE "wipe"
      /\ out' = [out EXCEPT !.len = {}]
      /\ UNCHANGED <<wire, key, token, sealed, origin>>
  BY DEF Create, Idle, LenAtStart, reading
<1>2. code = "ok" => q.alg \in AlgsOf(q.tag)
  <2> HIDE DEF a, b
  <2>1. code = "ok" => b = "ok"
    BY PairIff
  <2> QED BY <2>1 DEF b, Fails
<1> HIDE DEF code
<1>3. out'.len = {}
  BY <1>1 DEF Inv, Typed, IsOut
<1> QED BY <1>1, <1>2, <1>3, OthersKeep DEF Verifying

LEMMA EncodeClaimsMeans == Inv /\ Meaning /\ EncodeClaims => Meaning' /\ Given' = Given
<1> SUFFICES ASSUME Inv, Meaning, EncodeClaims PROVE Meaning' /\ Given' = Given
  OBVIOUS
<1>1. PICK q \in Requests : call = {q} /\ The(call) = q
  BY IssuerRuns DEF Issuing, EncodeClaims
<1> DEFINE a == ValidateClaims(q.claims)
           b == TextCode(q.claims)
           d == Fails(q.room = "none", "small")
           code == First(<<a, b, d>>)
<1>2. /\ pc = "encode" /\ call' = {q} /\ ret' = code
      /\ pc' = IF code = "ok" THEN "protect" ELSE "wipe"
      /\ UNCHANGED <<wire, key, token, out, sealed, origin>>
  BY <1>1 DEF EncodeClaims, reading
<1>3. code = "ok" => a = "ok" /\ b = "ok"
  <2> HIDE DEF a, b, d
  <2> QED BY TripleIff
<1> HIDE DEF code
<1>4. q.alg \in AlgsOf(q.tag)
  BY <1>1, <1>2 DEF Meaning, Issued
<1> QED BY <1>2, <1>3, <1>4, BackedOut, OthersKeep DEF Verifying

\* What is sealed is a fact: the claims that were asked for.
LEMMA ProtectMeans ==
    Inv /\ Meaning /\ Protect =>
      /\ Meaning' /\ Given' = Given
      /\ sealed' = sealed \/ \E q \in Requests : sealed' = sealed \cup {RequestFact(q)}
<1> SUFFICES ASSUME Inv, Meaning, Protect
             PROVE  /\ Meaning' /\ Given' = Given
                    /\ sealed' = sealed \/ \E q \in Requests : sealed' = sealed \cup {RequestFact(q)}
  OBVIOUS
<1>1. PICK q \in Requests : call = {q} /\ The(call) = q /\ The(claimsBuf) = Encoded(q.claims)
  <2>1. PICK q \in Requests : call = {q} /\ claimsBuf = {Encoded(q.claims)}
    BY DEF Inv, Writing, Protect
  <2> QED BY <2>1, TheOne
<1>2. /\ pc = "protect" /\ pc' = "wipe" /\ call' = {q}
      /\ UNCHANGED <<wire, key, token, origin>>
      /\ out.len = {}
  BY <1>1 DEF Protect, Inv, Writing, reading
<1>3. CASE ret' = "ok"
  <2>1. /\ out' = [msg |-> {MessageFor(q)}, partial |-> FALSE, len |-> {MessageFor(q)}]
        /\ sealed' = sealed \cup {RequestFact(q)}
    BY <1>1, <1>3 DEF Protect, MessageFor
  <2>2. KeyCode(q.key, q.alg) = "ok"
    <3> DEFINE a == KeyCode(q.key, q.alg)
               d == Fails(q.room = "claims", "small")
    <3>1. PICK code \in LibraryCodes : ret' = First(<<a, code, d>>)
      BY <1>1 DEF Protect
    <3> HIDE DEF a, d
    <3>2. a = "ok"
      BY <1>3, <3>1, TripleIff
    <3> QED BY <3>2 DEF a
  <2>3. Checked(q)
    BY <1>1, <1>2, <2>2 DEF Meaning, Issued, Checked
  <2>4. out'.len = {MessageFor(q)}
    BY <2>1
  <2>5. ASSUME NEW s \in MessageFor(q).seal, WellFormed(s.content) PROVE FactOf(s) \in sealed'
    <3>1. s = SealOf(q.key.id, q.tag, q.alg, Encoded(q.claims))
      BY <2>5, MessageParts
    <3>2. s.key = q.key.id /\ s.tag = q.tag /\ s.content = Encoded(q.claims)
      BY <3>1 DEF SealOf
    <3>3. Told(s.content, s.tag) = TokenOf(q)
      BY <2>5, <3>2, CallsAssumption, EncodedTold
    <3>4. FactOf(s) = RequestFact(q)
      BY <3>2, <3>3 DEF FactOf, RequestFact
    <3> QED BY <2>1, <3>4
  <2>6. \A m \in out'.len : \A s \in m.seal : WellFormed(s.content) => FactOf(s) \in sealed'
    BY <2>4, <2>5
  <2>7. sealed \subseteq sealed'
    BY <2>1
  <2> QED BY <1>2, <2>1, <2>3, <2>4, <2>6, <2>7, OthersKeep DEF Verifying
<1>4. CASE ret' # "ok"
  <2>1. /\ out' = out \/ out' = [out EXCEPT !.msg = {}, !.partial = TRUE]
        /\ sealed' = sealed
    BY <1>4 DEF Protect
  <2>2. out'.len = {}
    BY <1>2, <2>1 DEF Inv, Typed, IsOut
  <2> QED BY <1>2, <1>4, <2>1, <2>2, OthersKeep DEF Verifying
<1> QED BY <1>3, <1>4

LEMMA FinishMeans == Inv /\ Meaning /\ Finish => Meaning' /\ Given' = Given
<1> SUFFICES ASSUME Inv, Meaning, Finish PROVE Meaning' /\ Given' = Given
  OBVIOUS
<1>1. PICK q \in Requests : call = {q}
  BY IssuerRuns DEF Issuing, Finish
<1>2. /\ pc = "wipe" /\ pc' = "idle" /\ call' = {q} /\ ret' = ret
      /\ out' = IF ret = "ok" THEN out ELSE [out EXCEPT !.msg = {}, !.partial = FALSE]
      /\ UNCHANGED <<wire, key, token, sealed, origin>>
  BY <1>1 DEF Finish, Wiped, reading
<1>3. out'.len = out.len
  BY <1>2 DEF Inv, Typed, IsOut
<1>4. ret = "ok" /\ q.api = "create" => Checked(q) /\ out.len = {MessageFor(q)}
  BY <1>1, <1>2 DEF Meaning, Issued
<1> QED BY <1>2, <1>3, <1>4, BackedOut, OthersKeep DEF Verifying

\* Another message comes: a peer's, or one's own that answers a request.
LEMMA ArrivesMeans ==
    ASSUME Inv, Meaning, NEW m, NEW from, Arrives(m, from), Backed(m),
           \A q \in from : Checked(q) /\ m = MessageFor(q)
    PROVE  Meaning' /\ Given' = Given
<1>1. /\ wire' = m /\ origin' = from /\ pc = "idle"
      /\ UNCHANGED <<pc, ret, call, key, token, out, sealed>>
  BY DEF Arrives, Idle, reading, issuing
<1>2. Given' = Given
  BY <1>1 DEF Given
<1>3. Holding'
  BY <1>1, <1>2 DEF Meaning, Holding, Backed
<1>4. Issued'
  BY <1>1 DEF Meaning, Issued
<1>5. Reading' /\ Authentic' /\ IssuedIsAccepted'
  BY <1>1 DEF Reading, AcceptsWellFormed, Authentic, IssuedIsAccepted
<1> QED BY <1>2, <1>3, <1>4, <1>5 DEF Meaning

LEMMA PeerBacked == ASSUME NEW m \in Peers, PeerFacts \subseteq sealed PROVE Backed(m)
BY DEF Backed, PeerFacts

LEMMA LaterMeans ==
    Inv /\ Meaning /\ (\E m \in Later : Arrives(m, {})) => Meaning' /\ Given' = Given
<1> SUFFICES ASSUME Inv, Meaning, NEW m \in Later, Arrives(m, {}) PROVE Meaning' /\ Given' = Given
  OBVIOUS
<1>1. Backed(m)
  BY LaterAssumption, PeerBacked DEF Meaning, Holding
<1> QED BY <1>1, ArrivesMeans

LEMMA TransmitMeans == Inv /\ Meaning /\ Transmit => Meaning' /\ Given' = Given
<1> SUFFICES ASSUME Inv, Meaning, Transmit PROVE Meaning' /\ Given' = Given
  OBVIOUS
<1>1. PICK m \in out.len : Arrives(m, call)
  BY DEF Transmit
<1>2. PICK q \in call : q.api = "create"
  BY DEF Transmit
<1>3. call = {q}
  BY <1>2 DEF Inv, Typed, Singles
<1>4. pc = "idle" /\ ret = "ok"
  BY <1>1 DEF Transmit, Arrives, Idle
<1>5. Checked(q) /\ out.len = {MessageFor(q)}
  BY <1>2, <1>4 DEF Meaning, Issued
<1>6. Backed(m)
  BY <1>1 DEF Meaning, Holding
<1> QED BY <1>1, <1>3, <1>5, <1>6, ArrivesMeans

LEMMA InitMeans == Init => Meaning
<1> SUFFICES ASSUME Init PROVE Meaning
  OBVIOUS
<1>1. /\ wire \in Peers /\ pc = "idle" /\ call = {} /\ key = {} /\ token = NoToken /\ out.len = {}
      /\ sealed = PeerFacts /\ origin = {}
  BY DEF Init
<1>2. Holding
  BY <1>1, PeerBacked DEF Holding, Given
<1>3. Issued
  BY <1>1 DEF Issued
<1>4. Reading /\ Authentic /\ IssuedIsAccepted
  BY <1>1 DEF Reading, AcceptsWellFormed, Authentic, IssuedIsAccepted
<1> QED BY <1>2, <1>3, <1>4 DEF Meaning

LEMMA StutterMeans == Meaning /\ UNCHANGED vars => Meaning' /\ Given' = Given
<1> SUFFICES ASSUME Meaning, UNCHANGED vars PROVE Meaning' /\ Given' = Given
  OBVIOUS
<1>1. UNCHANGED <<wire, pc, ret, call, fault, key, dec, untrusted, token, out, sealed, origin>>
  BY DEF vars, reading, issuing
<1>2. Map' = Map /\ Target' = Target /\ Given' = Given
  BY <1>1 DEF Map, Target, Given
<1>3. Reading' /\ Authentic'
  BY <1>1, <1>2 DEF Meaning, Reading, AcceptsWellFormed, Authentic
<1>4. Holding' /\ Issued'
  BY <1>1, <1>2 DEF Meaning, Holding, Backed, Issued
<1>5. IssuedIsAccepted'
  BY <1>1 DEF Meaning, IssuedIsAccepted, Answers
<1> QED BY <1>2, <1>3, <1>4, <1>5 DEF Meaning

LEMMA StepMeans == Inv /\ Meaning /\ [Next]_vars => Meaning'
BY VerifyMeans, EnvelopeMeans, AuthenticateMeans, BeginClaimsMeans, ClaimMeans, EndClaimsMeans,
   DecodedMeans, ResolveMeans, CheckNonceMeans, ReturnMeans, ForEachMeans, VisitMeans, CreateMeans,
   EncodeClaimsMeans, ProtectMeans, FinishMeans, TransmitMeans, LaterMeans, StutterMeans
DEF Next

LEMMA AlwaysMeans == Spec => [](Inv /\ Meaning)
BY InitMeans, StepMeans, AlwaysInv, PTL DEF Spec

\* The claims of a map are accepted just when they are those of a profile.
THEOREM AcceptsJustProfiles == Spec => []AcceptsWellFormed
<1>1. Meaning => AcceptsWellFormed
  BY DEF Meaning, Reading
<1> QED BY AlwaysMeans, <1>1, PTL

\* What is issued here is accepted here and tells what was asked for.
THEOREM IssuedAccepted == Spec => []IssuedIsAccepted
<1>1. Meaning => IssuedIsAccepted
  BY DEF Meaning
<1> QED BY AlwaysMeans, <1>1, PTL

-----------------------------------------------------------------------------
(* The calls implement Delivery.                                           *)

LEMMA InitRefines == Init => D!Init
BY DEF Init, D!Init, Given, Facts

LEMMA TakesBack ==
    ASSUME Given' = {}, sealed' = sealed
    PROVE  D!Next \/ UNCHANGED <<sealed, Given>>
BY DEF D!Next, D!Withdraw

LEMMA RunsRefine ==
    ASSUME Meaning', \/ \E c \in Calls : Verify(c)
                     \/ Envelope \/ Authenticate \/ BeginClaims \/ Claim \/ EndClaims \/ Decoded
                     \/ Resolve \/ CheckNonce
    PROVE  D!Next \/ UNCHANGED <<sealed, Given>>
<1>1. sealed' = sealed /\ pc' \in Verifying
  <2>1. CASE \E c \in Calls : Verify(c)
    BY <2>1 DEF Verify, Stage, issuing, Verifying
  <2>2. CASE Envelope \/ Authenticate \/ Resolve \/ CheckNonce
    BY <2>2 DEF Envelope, Authenticate, Resolve, CheckNonce, Stage, issuing, Verifying
  <2>3. CASE BeginClaims \/ Claim \/ EndClaims \/ Decoded
    BY <2>3 DEF BeginClaims, Claim, EndClaims, Decoded, issuing, Verifying
  <2> QED BY <2>1, <2>2, <2>3
<1>2. Given' = {}
  BY <1>1 DEF Meaning, Reading, Given, Verifying
<1> QED BY <1>1, <1>2, TakesBack

LEMMA ReturnRefines ==
    ASSUME Inv, Meaning, Meaning', Return
    PROVE  D!Next \/ UNCHANGED <<sealed, Given>>
<1>1. pc = "return" /\ sealed' = sealed
  BY DEF Return, issuing
<1>2. Given = {}
  BY <1>1 DEF Given
<1>3. Given' \subseteq sealed /\ sealed \subseteq Facts
  BY <1>1 DEF Meaning, Holding, Inv, Typed
<1>4. Given' = {} \/ \E f : Given' = {f}
  <2>1. key' = {} \/ \E k : key' = {k}
    BY DEF Return, Inv, Typed, Singles
  <2> QED BY <2>1 DEF Given
<1>5. ASSUME NEW f, Given' = {f} PROVE D!Next
  BY <1>1, <1>2, <1>3, <1>5 DEF D!Next, D!Give
<1> QED BY <1>1, <1>2, <1>4, <1>5

LEMMA StepRefines == Inv /\ Meaning /\ Meaning' /\ [Next]_vars => [D!Next]_<<sealed, Given>>
<1> SUFFICES ASSUME Inv, Meaning, Meaning', [Next]_vars PROVE D!Next \/ UNCHANGED <<sealed, Given>>
  OBVIOUS
<1>1. CASE \/ \E c \in Calls : Verify(c)
           \/ Envelope \/ Authenticate \/ BeginClaims \/ Claim \/ EndClaims \/ Decoded
           \/ Resolve \/ CheckNonce
  BY <1>1, RunsRefine
<1>2. CASE Return
  BY <1>2, ReturnRefines
<1>3. CASE Protect
  <2>1. CASE sealed' = sealed
    BY <1>3, <2>1, ProtectMeans
  <2>2. ASSUME NEW q \in Requests, sealed' = sealed \cup {RequestFact(q)}
        PROVE  D!Next
    <3>1. RequestFact(q) \in Facts
      BY DEF Facts
    <3>2. Given' = Given
      BY <1>3, ProtectMeans
    <3> QED BY <2>2, <3>1, <3>2 DEF D!Next, D!Seal
  <2> QED BY <1>3, <2>1, <2>2, ProtectMeans
<1>4. CASE \/ \E c \in Visits : ForEachComponent(c)
           \/ Visit \/ EncodeClaims \/ Finish \/ Transmit
           \/ \E q \in Requests : Create(q)
           \/ \E m \in Later : Arrives(m, {})
  <2>1. Given' = Given
    BY <1>4, ForEachMeans, VisitMeans, EncodeClaimsMeans, FinishMeans, TransmitMeans, CreateMeans, LaterMeans
  <2>2. sealed' = sealed
    BY <1>4 DEF ForEachComponent, Visit, EncodeClaims, Finish, Transmit, Create, Arrives, issuing
  <2> QED BY <2>1, <2>2
<1>5. CASE UNCHANGED vars
  BY <1>5, StutterMeans DEF vars, issuing
<1> QED BY <1>1, <1>2, <1>3, <1>4, <1>5 DEF Next

\* An application is given nothing, or what a holder of the key sealed.
THEOREM Refines == Spec => Promise
<1>1. Spec => D!Init /\ [][D!Next]_<<sealed, Given>>
  BY InitRefines, StepRefines, AlwaysMeans, PTL DEF Spec
<1> QED BY <1>1 DEF Promise, D!Spec

=============================================================================
