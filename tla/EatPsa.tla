------------------------------- MODULE EatPsa -------------------------------
(***************************************************************************)
(* PSA attestation tokens (src/src/wolfcose_eat_psa.c): issuing one,       *)
(* verifying one with a key or with the key an application finds by the    *)
(* token's UEID, and visiting its software components.                     *)
(*                                                                         *)
(* A token is a COSE_Sign1 or COSE_Mac0 message around a map of claims     *)
(* that a receiver reads pair by pair, into the application's structure    *)
(* or, before the key is known, into a local one.  The application's       *)
(* challenge may lie in memory the call writes to (the scratch buffer, the *)
(* token), and the resolver of keys is the application's own code.         *)
(*                                                                         *)
(* A CBOR value [type, name, len, form, num, items] says its type and what *)
(* the decoder tells apart: the length of a string and the form of its     *)
(* content, a number, the values of an array, the [label, val] of a map.   *)
(* The type of what is not well-formed is "bad".  An absent span is {}.    *)
(* The COSE messages are those of SealOpen and LmsSigning, taken here as   *)
(* ideal: a seal names its key, tag, algorithm and content.                *)
(*                                                                         *)
(* Definitions marked (slip) are bugs the properties must tell apart from  *)
(* the code.                                                               *)
(***************************************************************************)
EXTENDS Checks, FiniteSets

CONSTANTS
    Namespaces,         \* built in: WOLFCOSE_EAT_PSA_CURRENT, _LEGACY
    Envelopes,          \* WOLFCOSE_EAT_PSA_SIGN1, _MAC0
    SignAlgs,           \* wolfCose_EatPsaSignAlg
    MacAlgs,            \* wolfCose_EatPsaMacAlg
    TfmFull,            \* WOLFCOSE_EAT_PSA_TFM_FULL
    MaxClaims,          \* WOLFCOSE_EAT_PSA_MAX_CLAIMS
    MaxComponents,      \* WOLFCOSE_EAT_PSA_MAX_COMPONENTS
    MaxComponentClaims, \* WOLFCOSE_EAT_PSA_MAX_COMPONENT_CLAIMS
    Int32Max,           \* bound: the largest client ID, INT32_MAX
    Keys,               \* WOLFCOSE_KEYs: [id, algs, pin]
    Calls,              \* what an application asks of verifiers,
    Visits,             \*   of tokens
    Requests,           \*   and of issuers
    Peers,              \* messages of other implementations
    Later               \* bound: those of them that come after another

ASSUME LimitsAssumption ==
    /\ MaxClaims \in Nat /\ MaxClaims >= 10
    /\ MaxComponents \in Nat /\ MaxComponents >= 1
    /\ MaxComponentClaims \in Nat /\ MaxComponentClaims >= 5

ASSUME LaterAssumption == Later \subseteq Peers

ASSUME ProfilesAssumption ==
    /\ Namespaces \subseteq {"current", "old"} /\ Namespaces # {}
    /\ Envelopes \subseteq {"sign1", "mac0"}
    /\ TfmFull => "current" \in Namespaces /\ Envelopes = {"sign1", "mac0"}

\* The arrays and maps of values are sequences, and numbers are numbers.
IsArray(s) == /\ Len(s) \in Nat
              /\ s = [i \in 1 .. Len(s) |-> s[i]]
IsValue(v) == v.num \in Int /\ IsArray(v.items)
IsPairs(s) == \A i \in DOMAIN s : s[i].label = [type |-> s[i].label.type, val |-> s[i].label.val]
IsList(v)  == \A i \in DOMAIN v.items : v.items[i].type = "map" =>
                 IsArray(v.items[i].items) /\ IsPairs(v.items[i].items)
IsMap(v)   == /\ IsValue(v)
              /\ v.type = "map" =>
                   /\ IsPairs(v.items)
                   /\ \A i \in DOMAIN v.items :
                         /\ IsValue(v.items[i].val)
                         /\ v.items[i].val.type = "array" => IsList(v.items[i].val)

\* A string of an issuer's claims is absent or one value; text need not be UTF-8.
IsSpan(span, types) == /\ \A x, y \in span : x = y
                       /\ \A v \in span : IsValue(v) /\ v.type \in types
IsText(span)        == IsSpan(span, {"tstr", "bad"})

IsComponent(c) == /\ IsSpan(c.value, {"bstr"}) /\ IsSpan(c.signer, {"bstr"})
                  /\ IsText(c.type) /\ IsText(c.version) /\ IsText(c.desc)

IsClaims(c) ==
    /\ IsSpan(c.nonce, {"bstr"}) /\ IsSpan(c.ueid, {"bstr"})
    /\ IsSpan(c.impl, {"bstr"}) /\ IsSpan(c.seed, {"bstr"})
    /\ IsSpan(c.cert, {"tstr"}) /\ IsText(c.vsi)
    /\ c.client \in -Int32Max - 1 .. Int32Max /\ c.lifecycle \in Nat
    /\ IsArray(c.components) /\ \A i \in DOMAIN c.components : IsComponent(c.components[i])

ASSUME CallsAssumption ==
    /\ \A c \in Calls : c.api = "verify" /\ c.key \in {{}} \cup {{k} : k \in Keys}
    /\ \A c \in Visits : c.api = "each"
    /\ \A q \in Requests : /\ q.api = "create" /\ q.tag \in {"sign1", "mac0"}
                           /\ IsClaims(q.claims)

ASSUME AlgsAssumption == "unset" \notin SignAlgs \cup MacAlgs

ASSUME PeersAssumption == \A m \in Peers : \A v \in m.payload : IsMap(v)

ASSUME Int32Assumption == Int32Max \in Nat

VARIABLES
    wire,      \* the message at hand
    pc,        \* where the current call is
    ret,       \* its code so far; when idle, the code of the last call
    call,      \* the last call
    fault,     \* ghost: the library below failed in this call
    key,       \* the key to verify with, {} until it is known
    challenge, \* what the application's memory holds where its nonce was
    nonceCopy, \* expectedNonceCopy
    dec,       \* progress in the claims: [at, seen, spaces]
    untrusted, \* claims read to find a key
    token,     \* the application's token
    visited,   \* components the application's callback was given
    out,       \* the issuer's output: [msg, partial, len]
    claimsBuf, \* the encoded claims
    sealed,    \* ghost: what has been sealed, here or by a peer
    origin     \* ghost: the request the message at hand answers

reading == <<key, challenge, nonceCopy, dec, untrusted, token>>
issuing == <<out, claimsBuf, sealed>>
vars    == <<wire, pc, ret, call, fault, reading, visited, issuing, origin>>

The(S) == CHOOSE x \in S : TRUE

-----------------------------------------------------------------------------
(* CBOR values.                                                            *)

Value(type, len, form, num, items) ==
    [type |-> type, name |-> "", len |-> len, form |-> form, num |-> num, items |-> items]
IntLabel(n)      == [type |-> "int", val |-> n]
Pair(n, val)     == [label |-> IntLabel(n), val |-> val]
Optional(n, span) == IF span = {} THEN <<>> ELSE <<Pair(n, The(span))>>
IntValue(n)      == Value("int", 0, "", n, <<>>)

-----------------------------------------------------------------------------
(* Claims.                                                                 *)

CurrentLabel ==
    [nonce |-> 10, ueid |-> 256, profile |-> 265, seed |-> 268, client |-> 2394,
     lifecycle |-> 2395, impl |-> 2396, cert |-> 2398, components |-> 2399, vsi |-> 2400]
OldLabel ==
    [profile |-> -75000, client |-> -75001, lifecycle |-> -75002, impl |-> -75003,
     seed |-> -75004, cert |-> -75005, components |-> -75006, unmeasured |-> -75007,
     nonce |-> -75008, ueid |-> -75009, vsi |-> -75010]
LabelIn(space) == IF space = "old" THEN OldLabel ELSE CurrentLabel

\* A text label is no integer, whatever it reads.
LabelCode(label)    == Fails(label.type \notin {"int", "text"}, "type")
IsClaim(label, s)   == \E c \in DOMAIN LabelIn(s) : label = [type |-> "int", val |-> LabelIn(s)[c]]
Known(label)        == \E s \in {"current", "old"} : IsClaim(label, s)
SpaceOf(label)      == CHOOSE s \in {"current", "old"} : IsClaim(label, s)
ClaimOf(label)      == CHOOSE c \in DOMAIN LabelIn(SpaceOf(label)) :
                          LabelIn(SpaceOf(label))[c] = label.val

\* (slip) only claims with a bit of their own are looked up among the earlier
HasPriorLabelKnown(entries, i) ==
    \E j \in 1 .. i - 1 : entries[j].label = entries[i].label /\ Known(entries[i].label)

HasPriorLabel(entries, i) == \E j \in 1 .. i - 1 : entries[j].label = entries[i].label

SkipCode(val)       == Fails(val.type = "bad", "malformed")
TypedCode(val, type) == First(<<SkipCode(val), Fails(val.type # type, "type")>>)
UintCode(val)       == First(<<TypedCode(val, "int"), Fails(val.num < 0, "type")>>)

HashLengths == {32, 48, 64}

LifecycleMax == 65535

\* Reserved lifecycles are those whose high byte is not a multiple of 16.
LifecycleValid(l) == l <= LifecycleMax /\ (l \div 256) \in {16 * n : n \in 0 .. 6}

CertForm == [current |-> "13-5", old |-> "13"]

-----------------------------------------------------------------------------
(* Software components: a map with text and byte strings.                  *)

\* Type, value, version, signer and description.
ComponentType == [n \in {1, 2, 4, 5, 6} |-> IF n \in {2, 5} THEN "bstr" ELSE "tstr"]
IsPart(label) == label.type = "int" /\ label.val \in DOMAIN ComponentType

PartCode(part) ==
    IF IsPart(part.label) THEN TypedCode(part.val, ComponentType[part.label.val])
    ELSE SkipCode(part.val)

HasHash(parts, n) ==
    \E i \in DOMAIN parts :
       parts[i].label = [type |-> "int", val |-> n] /\ parts[i].val.len \in HashLengths

ComponentCode(c) ==
    First(<<TypedCode(c, "map"),
            Fails(Len(c.items) > MaxComponentClaims, "claim"),
            First([i \in DOMAIN c.items |->
                     First(<<LabelCode(c.items[i].label),
                             Fails(HasPriorLabel(c.items, i), "claim"),
                             PartCode(c.items[i])>>)]),
            Fails(~ HasHash(c.items, 2) \/ ~ HasHash(c.items, 5), "claim")>>)

ComponentsCode(val) ==
    First(<<TypedCode(val, "array"),
            Fails(Len(val.items) \notin 1 .. MaxComponents, "claim"),
            First([i \in DOMAIN val.items |-> ComponentCode(val.items[i])])>>)

-----------------------------------------------------------------------------
(* The map of claims: wolfCose_EatPsaDecodeClaims.                         *)

NoToken == [profile |-> "none", protection |-> "none", nonce |-> {}, ueid |-> {}, impl |-> {},
            seed |-> {}, cert |-> {}, vsi |-> {}, client |-> 0, lifecycle |-> 0,
            components |-> {}, unmeasured |-> FALSE]

Texts == {"cert", "vsi", "profile"}

\* wolfCose_EatPsaSetProfile
ProfileCode(space, val) ==
    Fails(IF space = "current" THEN ~ TfmFull \/ val.form # "tfm" ELSE val.form # "iot1", "profile")

ValueCode(space, claim, val) ==
    CASE claim = "profile"    -> First(<<TypedCode(val, "tstr"), ProfileCode(space, val)>>)
      [] claim = "client"     -> First(<<TypedCode(val, "int"),
                                         Fails(val.num \notin -Int32Max - 1 .. Int32Max \ {0},
                                               "claim")>>)
      [] claim = "lifecycle"  -> First(<<UintCode(val),
                                         Fails(~ LifecycleValid(val.num), "claim")>>)
      [] claim = "components" -> ComponentsCode(val)
      [] claim = "unmeasured" -> First(<<UintCode(val), Fails(val.num # 1, "claim")>>)
      [] OTHER                -> TypedCode(val, IF claim \in Texts THEN "tstr" ELSE "bstr")

Stored(t, space, claim, val) ==
    CASE claim = "profile"    -> [t EXCEPT !.profile = space]
      [] claim = "client"     -> [t EXCEPT !.client = val.num]
      [] claim = "lifecycle"  -> [t EXCEPT !.lifecycle = val.num]
      [] claim = "components" -> [t EXCEPT !.components = {val.items}]
      [] claim = "unmeasured" -> [t EXCEPT !.unmeasured = TRUE]
      [] OTHER                -> [t EXCEPT ![claim] = {val}]

Extension(label) == ~ Known(label)

SpacesCode(space, spaces) ==
    Fails(space \notin Namespaces \/ spaces \ {space} # {}, "profile")

ClaimCode(map, i, seen, spaces) ==
    LET label == map.items[i].label
        val   == map.items[i].val
    IN  First(<<LabelCode(label),
                Fails(HasPriorLabel(map.items, i), "claim"),
                IF Extension(label) THEN SkipCode(val)
                ELSE First(<<SpacesCode(SpaceOf(label), spaces),
                             Fails(ClaimOf(label) \in seen, "claim"),
                             ValueCode(SpaceOf(label), ClaimOf(label), val)>>)>>)

Required(space) ==
    {"nonce", "ueid", "client", "lifecycle", "impl"}
    \cup IF space = "current" THEN {"profile", "components"} ELSE {"seed"}

\* What each profile asks of the claims together.
SpaceCode(space, seen, t) ==
    First(<<Fails(~ Required(space) \subseteq seen, "claim"),
            Fails(space = "old" /\ ("components" \in seen <=> "unmeasured" \in seen), "claim"),
            Fails(t.profile # space /\ ~ (space = "old" /\ t.profile = "none"), "profile")>>)

LenOf(span) == IF span = {} THEN 0 ELSE The(span).len

SeedCode(space, t) ==
    Fails(IF space = "current" THEN t.seed # {} /\ LenOf(t.seed) \notin 8 .. 32
          ELSE LenOf(t.seed) # 32, "claim")

EndCode(p, seen, spaces, t) ==
    First(<<Fails(p.form = "trailing", "claim"),
            Fails(Cardinality(spaces) # 1, "profile"),
            First(<<IF spaces = {} THEN "ok" ELSE SpaceCode(The(spaces), seen, t)>>),
            Fails(LenOf(t.nonce) \notin HashLengths, "claim"),
            Fails(\A u \in t.ueid : u.len # 33 \/ u.form # "random", "claim"),
            Fails(LenOf(t.impl) # 32, "claim"),
            IF spaces = {} THEN "ok"
            ELSE First(<<SeedCode(The(spaces), t),
                         Fails(\E c \in t.cert : c.form # CertForm[The(spaces)], "claim")>>)>>)

-----------------------------------------------------------------------------
(* Messages.                                                               *)

\* [tag, form, alg, x5chain, payload, seal]: form names what is malformed, alg
\* is that of the protected bucket, payload {} is null.
SealOf(id, tag, alg, content) == [key |-> id, tag |-> tag, alg |-> alg, content |-> content]
Message(id, tag, alg, content) ==
    [tag |-> tag, form |-> "ok", alg |-> alg, x5chain |-> FALSE, payload |-> {content},
     seal |-> {SealOf(id, tag, alg, content)}]

EnvelopeCode(m) ==
    First(<<Fails(m.tag = "none", "type"),
            Fails(m.tag \notin {"sign1", "mac0"}, "tag"),
            Fails(m.form \in {"array", "protected"}, "malformed"),
            Fails(m.alg = "unset", "hdr"),
            Fails(m.form = "unprotected", "malformed"),
            Fails(m.x5chain, "unsupported"),
            Fails(m.payload = {}, "detached"),
            Fails(m.form \in {"payload", "seal"}, "type"),
            Fails(m.form = "trailing", "malformed")>>)

AlgsOf(tag) == IF tag = "sign1" THEN SignAlgs ELSE MacAlgs

EnvelopeAlgCode(m) ==
    First(<<Fails(m.tag \notin Envelopes, "unsupported"), Fails(m.alg \notin AlgsOf(m.tag), "alg")>>)

\* What wolfCose_Sign1_Verify_ex and wolfCose_Mac0_Verify_ex ask of a key.
KeyCode(k, alg) ==
    First(<<Fails(k.pin \notin {"unset", alg}, "alg"), Fails(alg \notin k.algs, "key")>>)

\* (slip) what is verified is what was signed, not the payload at hand
AuthenticCodeUntied(k, m) ==
    First(<<KeyCode(k, m.alg),
            Fails(\A s \in m.seal : s.key # k.id \/ s.tag # m.tag \/ s.alg # m.alg, "sig")>>)

AuthenticCode(k, m) ==
    First(<<KeyCode(k, m.alg),
            Fails(m.seal # {SealOf(k.id, m.tag, m.alg, p) : p \in m.payload},
                  IF m.tag = "sign1" THEN "sig" ELSE "mac")>>)

-----------------------------------------------------------------------------
(* What a map of claims says, and what the profiles ask of it.             *)

At(map, space, claim) ==
    {map.items[i].val : i \in {j \in DOMAIN map.items :
        claim \in DOMAIN LabelIn(space) /\ map.items[j].label = IntLabel(LabelIn(space)[claim])}}

Distinct(items) == \A i, j \in DOMAIN items : items[i].label = items[j].label => i = j

WellFormedComponent(c) ==
    LET Part(n) == {c.items[i].val : i \in {j \in DOMAIN c.items : c.items[j].label = IntLabel(n)}} IN
    /\ c.type = "map" /\ Len(c.items) <= MaxComponentClaims /\ Distinct(c.items)
    /\ \A i \in DOMAIN c.items : /\ c.items[i].label.type \in {"int", "text"}
                                /\ c.items[i].val.type # "bad"
    /\ \A n \in {1, 4, 6} : \A v \in Part(n) : v.type = "tstr"
    /\ \A n \in {2, 5} : \E v \in Part(n) : v.type = "bstr" /\ v.len \in HashLengths

\* docs/PSA-EAT.md: "Profile behavior".
Conforms(map, space) ==
    LET All(claim, P(_)) == \A v \in At(map, space, claim) : P(v)
        Has(claim)       == At(map, space, claim) # {}
        Sized(v, lens)   == v.type = "bstr" /\ v.len \in lens
    IN
    /\ \A i \in DOMAIN map.items : Known(map.items[i].label) => IsClaim(map.items[i].label, space)
    /\ Has("nonce") /\ All("nonce", LAMBDA v : Sized(v, HashLengths))
    /\ Has("ueid") /\ All("ueid", LAMBDA v : Sized(v, {33}) /\ v.form = "random")
    /\ Has("impl") /\ All("impl", LAMBDA v : Sized(v, {32}))
    /\ Has("client") /\ All("client", LAMBDA v : /\ v.type = "int" /\ v.num # 0
                                                 /\ v.num <= Int32Max /\ v.num >= -Int32Max - 1)
    /\ Has("lifecycle")
    /\ All("lifecycle", LAMBDA v : v.type = "int" /\ v.num >= 0 /\ LifecycleValid(v.num))
    /\ All("cert", LAMBDA v : v.type = "tstr" /\ v.form = CertForm[space])
    /\ All("vsi", LAMBDA v : v.type = "tstr")
    /\ All("components", LAMBDA v : /\ v.type = "array" /\ Len(v.items) \in 1 .. MaxComponents
                                    /\ \A i \in DOMAIN v.items : WellFormedComponent(v.items[i]))
    /\ IF space = "current"
       THEN /\ TfmFull /\ Has("profile")
            /\ All("profile", LAMBDA v : v.type = "tstr" /\ v.form = "tfm")
            /\ Has("components")
            /\ All("seed", LAMBDA v : Sized(v, 8 .. 32))
       ELSE /\ All("profile", LAMBDA v : v.type = "tstr" /\ v.form = "iot1")
            /\ Has("seed") /\ All("seed", LAMBDA v : Sized(v, {32}))
            /\ Has("components") <=> ~ Has("unmeasured")
            /\ All("unmeasured", LAMBDA v : v.type = "int" /\ v.num = 1)

WellFormed(map) ==
    /\ map.type = "map" /\ map.form # "trailing" /\ Len(map.items) <= MaxClaims
    /\ Distinct(map.items)
    /\ \A i \in DOMAIN map.items : /\ map.items[i].label.type \in {"int", "text"}
                                  /\ map.items[i].val.type # "bad"
    /\ \E space \in Namespaces : Conforms(map, space)

Told(map, tag) ==
    LET space == CHOOSE s \in Namespaces : Conforms(map, s)
        Num(claim) == The({v.num : v \in At(map, space, claim)})
    IN  [profile |-> space, protection |-> tag,
         nonce |-> At(map, space, "nonce"), ueid |-> At(map, space, "ueid"),
         impl |-> At(map, space, "impl"), seed |-> At(map, space, "seed"),
         cert |-> At(map, space, "cert"), vsi |-> At(map, space, "vsi"),
         client |-> Num("client"), lifecycle |-> Num("lifecycle"),
         components |-> {v.items : v \in At(map, space, "components")},
         unmeasured |-> At(map, space, "unmeasured") # {}]

\* A fact: whoever holds the key sealed these claims.
FactOf(s)  == [key |-> s.key, told |-> Told(s.content, s.tag)]
PeerFacts  == {FactOf(s) : s \in {x \in UNION {m.seal : m \in Peers} : WellFormed(x.content)}}

EncodeComponent(c) ==
    Value("map", 0, "", 0, Optional(1, c.type) \o Optional(2, c.value) \o Optional(4, c.version)
                              \o Optional(5, c.signer) \o Optional(6, c.desc))

\* What an issuer's claims say.
TokenOf(q) ==
    LET c == q.claims IN
    [profile |-> "current", protection |-> q.tag, nonce |-> c.nonce, ueid |-> c.ueid,
     impl |-> c.impl, seed |-> c.seed, cert |-> c.cert, vsi |-> c.vsi, client |-> c.client,
     lifecycle |-> c.lifecycle,
     components |-> {[i \in DOMAIN c.components |-> EncodeComponent(c.components[i])]},
     unmeasured |-> FALSE]
RequestFact(q) == [key |-> q.key.id, told |-> TokenOf(q)]

-----------------------------------------------------------------------------
(* A verifier.                                                             *)

Idle == pc = "idle"

NoDec == [at |-> 0, seen |-> {}, spaces |-> {}]

NonceValid(n) == n.len \in HashLengths

\* The check at a stage sends the call on, or to its end.
Stage(code, next) ==
    /\ ret' = code
    /\ pc' = IF code = "ok" THEN next ELSE "return"

LibraryCodes == {"ok", "crypto"}

\* (slip) the copy is taken when the token is clear already
CopiedLate(c) == IF c.alias = "token" THEN {} ELSE {c.nonce}

\* The copy is made before XMEMSET(token): the nonce may lie in it.
Copied(c) == {c.nonce}

\* Writing to memory the nonce shares destroys it.
Hit(c, memory, nonce) == IF c.alias = memory THEN {} ELSE nonce

VerifyCode(c) == Fails(c.null \/ ~ NonceValid(c.nonce), "arg")

Verify(c) ==
    /\ Idle
    /\ call' = {c}
    /\ fault' = FALSE
    /\ Stage(VerifyCode(c), "envelope")
    /\ IF VerifyCode(c) = "ok"
       THEN /\ nonceCopy' = Copied(c)
            /\ token' = NoToken
            /\ challenge' = Hit(c, "token", {c.nonce})
       ELSE /\ challenge' = {c.nonce}
            /\ UNCHANGED <<nonceCopy, token>>
    /\ key' = c.key
    /\ visited' = <<>>
    /\ UNCHANGED <<wire, dec, untrusted, issuing, origin>>

\* Both before the resolver is asked and again when its key is at hand.
Envelope ==
    /\ pc = "envelope"
    /\ Stage(First(<<EnvelopeCode(wire), EnvelopeAlgCode(wire)>>),
             IF key = {} THEN "claims" ELSE "authenticate")
    /\ UNCHANGED <<wire, call, fault, reading, visited, issuing, origin>>

Authenticate ==
    /\ pc = "authenticate"
    /\ \E code \in LibraryCodes :
          /\ Stage(First(<<AuthenticCode(The(key), wire), code>>), "claims")
          /\ fault' = (code # "ok")
    /\ challenge' = Hit(The(call), "scratch", challenge)
    /\ UNCHANGED <<wire, call, key, nonceCopy, dec, untrusted, token, visited, issuing, origin>>

Map == The(wire.payload)

\* A map is read into the token, or to find a key into the local one.
Into(t) == IF key = {} THEN untrusted' = t /\ UNCHANGED token
           ELSE token' = t /\ UNCHANGED untrusted
Target  == IF key = {} THEN untrusted ELSE token

BeginClaims ==
    /\ pc = "claims"
    /\ dec' = NoDec
    /\ Into(NoToken)
    /\ LET code == First(<<TypedCode(Map, "map"), Fails(Len(Map.items) > MaxClaims, "claim")>>)
       IN  ret' = code /\ pc' = IF code = "ok" THEN "claim" ELSE "decoded"
    /\ UNCHANGED <<wire, call, fault, key, challenge, nonceCopy, visited, issuing, origin>>

Claim ==
    LET i     == dec.at + 1
        label == Map.items[i].label
        code  == ClaimCode(Map, i, dec.seen, dec.spaces)
    IN
    /\ pc = "claim" /\ i <= Len(Map.items)
    /\ ret' = code
    /\ pc' = IF code = "ok" THEN "claim" ELSE "decoded"
    /\ IF code = "ok" /\ ~ Extension(label)
       THEN /\ dec' = [at |-> i, seen |-> dec.seen \cup {ClaimOf(label)},
                       spaces |-> dec.spaces \cup {SpaceOf(label)}]
            /\ Into(Stored(Target, SpaceOf(label), ClaimOf(label), Map.items[i].val))
       ELSE /\ dec' = [dec EXCEPT !.at = i]
            /\ UNCHANGED <<untrusted, token>>
    /\ UNCHANGED <<wire, call, fault, key, challenge, nonceCopy, visited, issuing, origin>>

\* Without a profile claim the old labels are enough.
EndClaims ==
    LET code == EndCode(Map, dec.seen, dec.spaces, Target) IN
    /\ pc = "claim" /\ dec.at = Len(Map.items)
    /\ ret' = code
    /\ pc' = "decoded"
    /\ Into(IF code = "ok" THEN [Target EXCEPT !.profile = The(dec.spaces)] ELSE Target)
    /\ UNCHANGED <<wire, call, fault, key, challenge, nonceCopy, dec, visited, issuing, origin>>

\* What was read in vain is cleared; what was read is protected by its tag.
Decoded ==
    /\ pc = "decoded"
    /\ pc' = IF ret # "ok" THEN "return" ELSE IF key = {} THEN "resolve" ELSE "nonce"
    /\ dec' = NoDec
    /\ Into(IF ret # "ok" THEN NoToken
            ELSE IF key = {} THEN Target ELSE [Target EXCEPT !.protection = wire.tag])
    /\ UNCHANGED <<wire, ret, call, fault, key, challenge, nonceCopy, visited, issuing, origin>>

\* The application's resolver names any key, or refuses; the challenge is the
\* application's, who may put the next one in its place.
Resolve ==
    /\ pc = "resolve"
    /\ \/ /\ \E k \in Keys : key' = {k}
          /\ Stage("ok", "envelope")
       \/ /\ Stage("app", "envelope")
          /\ UNCHANGED key
    /\ \/ UNCHANGED challenge
       \/ \E c \in Calls : challenge' = {c.nonce}
    /\ UNCHANGED <<wire, call, fault, nonceCopy, dec, untrusted, token, visited, issuing, origin>>

\* (slip) the nonce is compared with the application's memory
ReferenceInPlace == challenge

Reference == nonceCopy

CheckNonce ==
    /\ pc = "nonce"
    /\ Stage(Fails(token.nonce # Reference, "nonce"), "return")
    /\ UNCHANGED <<wire, call, fault, reading, visited, issuing, origin>>

\* (slip) a failed call leaves what it had decoded
TokenAfterKept == token

TokenAfter == IF ret = "ok" THEN token ELSE NoToken

Return ==
    /\ pc = "return"
    /\ pc' = "idle"
    /\ token' = TokenAfter
    /\ nonceCopy' = {}
    /\ untrusted' = NoToken
    /\ key' = IF ret = "ok" THEN key ELSE {}
    /\ UNCHANGED <<wire, ret, call, fault, challenge, dec, visited, issuing, origin>>

-----------------------------------------------------------------------------
(* Visiting the components of a token.                                     *)

EachCode(c) ==
    First(<<Fails(c.null, "arg"), Fails(~ token.unmeasured /\ token.components = {}, "arg")>>)

ForEachComponent(c) ==
    /\ Idle
    /\ call' = {c}
    /\ fault' = FALSE
    /\ ret' = EachCode(c)
    /\ pc' = IF EachCode(c) = "ok" /\ ~ token.unmeasured THEN "visit" ELSE "idle"
    /\ visited' = <<>>
    /\ UNCHANGED <<wire, reading, issuing, origin>>

\* (slip) the loop ends one component early
MoreButOne(code, n, items) == code = "ok" /\ n < Len(items) - 1

More(code, n, items) == code = "ok" /\ n < Len(items)

\* The callback may refuse, and its code is the iterator's.
Visit ==
    LET items == The(token.components)
        item  == items[Len(visited) + 1]
    IN
    /\ pc = "visit"
    /\ IF ComponentCode(item) = "ok"
       THEN /\ visited' = Append(visited, item)
            /\ ret' \in {"ok", "app"}
       ELSE ret' = ComponentCode(item) /\ UNCHANGED visited
    /\ pc' = IF More(ret', Len(visited'), items) THEN "visit" ELSE "idle"
    /\ UNCHANGED <<wire, call, fault, reading, issuing, origin>>

-----------------------------------------------------------------------------
(* An issuer.                                                              *)

IsHash(span) == LenOf(span) \in HashLengths

ValidateComponent(c) == Fails(~ IsHash(c.value) \/ ~ IsHash(c.signer), "claim")

ValidateClaims(c) ==
    First(<<Fails(\/ ~ IsHash(c.nonce) \/ LenOf(c.impl) # 32 \/ c.client = 0
                  \/ \A u \in c.ueid : u.len # 33 \/ u.form # "random"
                  \/ ~ LifecycleValid(c.lifecycle)
                  \/ Len(c.components) \notin 1 .. MaxComponents, "claim"),
            Fails(\/ c.seed # {} /\ LenOf(c.seed) \notin 8 .. 32
                  \/ \E r \in c.cert : r.form # CertForm["current"], "claim"),
            First([i \in DOMAIN c.components |-> ValidateComponent(c.components[i])])>>)

Encoded(c) ==
    Value("map", 0, "", 0,
          Optional(10, c.nonce) \o Optional(256, c.ueid)
          \o <<Pair(265, Value("tstr", 32, "tfm", 0, <<>>))>>
          \o Optional(268, c.seed) \o <<Pair(2394, IntValue(c.client)),
                                         Pair(2395, IntValue(c.lifecycle))>>
          \o Optional(2396, c.impl) \o Optional(2398, c.cert)
          \o <<Pair(2399, Value("array", 0, "", 0,
                                [i \in DOMAIN c.components |-> EncodeComponent(c.components[i])]))>>
          \o Optional(2400, c.vsi))

\* wc_CBOR_EncodeTstr takes UTF-8 only.
TextCode(c) ==
    Fails(\E v \in c.vsi \cup UNION {c.components[i].type \cup c.components[i].version
                                          \cup c.components[i].desc : i \in DOMAIN c.components} :
             v.type = "bad", "malformed")

LenAtStart == {}

\* wc_CoseEatPsaToken_CreateSign1, _CreateMac0
Create(q) ==
    LET code == First(<<Fails(q.null, "arg"), Fails(q.alg \notin AlgsOf(q.tag), "alg")>>) IN
    /\ Idle
    /\ call' = {q}
    /\ fault' = FALSE
    /\ ret' = code
    /\ pc' = IF code = "ok" THEN "encode" ELSE "wipe"
    /\ out' = [out EXCEPT !.len = LenAtStart]
    /\ UNCHANGED <<wire, reading, visited, claimsBuf, sealed, origin>>

EncodeClaims ==
    LET q    == The(call)
        code == First(<<ValidateClaims(q.claims), TextCode(q.claims),
                        Fails(q.room = "none", "small")>>)
    IN
    /\ pc = "encode"
    /\ ret' = code
    /\ pc' = IF code = "ok" THEN "protect" ELSE "wipe"
    /\ claimsBuf' = IF code = "ok" THEN {Encoded(q.claims)} ELSE {}
    /\ UNCHANGED <<wire, call, fault, reading, visited, out, sealed, origin>>

\* wc_CoseSign1_Sign_ex, wc_CoseMac0_Create: the message may be half written
\* when room runs out or the library fails.
Protect ==
    LET q == The(call) IN
    /\ pc = "protect"
    /\ \E code \in LibraryCodes :
          /\ fault' = (code # "ok")
          /\ ret' = First(<<KeyCode(q.key, q.alg), code, Fails(q.room = "claims", "small")>>)
    /\ IF ret' = "ok"
       THEN LET m == Message(q.key.id, q.tag, q.alg, The(claimsBuf)) IN
            /\ out' = [msg |-> {m}, partial |-> FALSE, len |-> {m}]
            /\ sealed' = sealed \cup {RequestFact(q)}
       ELSE /\ \E partial \in BOOLEAN :
                 out' = IF partial THEN [out EXCEPT !.msg = {}, !.partial = TRUE] ELSE out
            /\ UNCHANGED sealed
    /\ pc' = "wipe"
    /\ UNCHANGED <<wire, call, reading, visited, claimsBuf, origin>>

Wiped(o) == [o EXCEPT !.msg = {}, !.partial = FALSE]

Finish ==
    /\ pc = "wipe"
    /\ pc' = "idle"
    /\ out' = IF ret = "ok" THEN out ELSE Wiped(out)
    /\ UNCHANGED <<wire, ret, call, fault, reading, visited, claimsBuf, sealed, origin>>

-----------------------------------------------------------------------------
(* The specification.                                                      *)

\* Where one's own message answers a request, the request is remembered.
Arrives(m, from) ==
    /\ Idle
    /\ wire' = m
    /\ origin' = from
    /\ UNCHANGED <<pc, ret, call, fault, reading, visited, issuing>>

Transmit ==
    /\ ret = "ok"
    /\ \E q \in call : q.api = "create"
    /\ \E m \in out.len : Arrives(m, call)

Init ==
    /\ wire \in Peers
    /\ pc = "idle" /\ ret = "ok" /\ call = {} /\ fault = FALSE
    /\ key = {} /\ challenge = {} /\ nonceCopy = {} /\ dec = NoDec
    /\ untrusted = NoToken /\ token = NoToken /\ visited = <<>>
    /\ out = [msg |-> {}, partial |-> FALSE, len |-> {}] /\ claimsBuf = {}
    /\ sealed = PeerFacts
    /\ origin = {}

Next ==
    \/ \E c \in Calls : Verify(c)
    \/ Envelope \/ Authenticate
    \/ BeginClaims \/ Claim \/ EndClaims \/ Decoded
    \/ Resolve \/ CheckNonce \/ Return
    \/ \E c \in Visits : ForEachComponent(c)
    \/ Visit
    \/ \E q \in Requests : Create(q)
    \/ EncodeClaims \/ Protect \/ Finish
    \/ Transmit
    \/ \E m \in Later : Arrives(m, {})

Spec == Init /\ [][Next]_vars

-----------------------------------------------------------------------------
(* Properties.                                                             *)

Facts == PeerFacts \cup {RequestFact(q) : q \in Requests}

TypeOK ==
    /\ pc \in {"idle", "envelope", "authenticate", "claims", "claim", "decoded", "resolve",
               "nonce", "return", "visit", "encode", "protect", "wipe"}
    /\ call \subseteq Calls \cup Visits \cup Requests
    /\ fault \in BOOLEAN
    /\ key \subseteq Keys
    /\ dec.at \in Nat /\ Cardinality(dec.spaces) <= 1 /\ dec.spaces \subseteq Namespaces
    /\ token.lifecycle \in 0 .. LifecycleMax
    /\ token.client \in -Int32Max - 1 .. Int32Max
    /\ out.partial \in BOOLEAN
    /\ sealed \subseteq Facts
    /\ origin \subseteq Requests

\* A map of claims is accepted, by whichever call and in whatever order its
\* pairs come, just when it is one of the profiles: no label twice, known or
\* not, one namespace that is built in, each claim of its form.
AcceptsWellFormed ==
    pc = "decoded" => (ret = "ok" <=> WellFormed(Map))

\* What an application holds of a token, and under whose key.
Given ==
    IF pc \notin {"claim", "decoded", "nonce", "return"} /\ token # NoToken
    THEN {[key |-> k.id, told |-> token] : k \in key} ELSE {}

D == INSTANCE Delivery WITH given <- Given

\* An application is given nothing, or just the claims that a holder of the
\* key it named, or its resolver found, sealed in a token of that envelope.
Promise == D!Spec

\* The token of a successful call answers the challenge of that call,
\* wherever the nonce lay and whatever the resolver did to it.
AnswersTheChallenge ==
    pc = "return" /\ ret = "ok" => \A c \in call : token.nonce = {c.nonce}

\* After a call that failed the token says nothing: not what was read before
\* the failure, and not what an earlier call left.
FailureZeroesToken ==
    Idle /\ ret # "ok" /\ (\E c \in call : c.api = "verify") => token = NoToken

\* An issuer's buffer holds a token or nothing, and a length only with it.
NoPartialToken ==
    Idle /\ (\E q \in call : q.api = "create") =>
      /\ ~ out.partial
      /\ out.len = out.msg
      /\ out.msg # {} <=> ret = "ok"

\* A call that failed, at whatever stage, leaves its caller nothing: no claim,
\* no length, not a byte of a token.
FailureLeavesNothing == FailureZeroesToken /\ NoPartialToken

\* A verifier with the key of an issuer, its algorithms and its challenge.
Answers(c, q) ==
    /\ ~ c.null /\ c.nonce = The(q.claims.nonce)
    /\ \A k \in key : k.id = q.key.id /\ KeyCode(k, q.alg) = "ok"
    /\ TfmFull

\* Every token issued here is accepted here, within the least limits a build
\* may have, and tells what the issuer claimed.
IssuedIsAccepted ==
    pc = "return" =>
      \A c \in call, q \in origin :
         Answers(c, q) /\ key # {} /\ ~ fault =>
            ret = "ok" /\ token = TokenOf(q)

\* A visit gives the components of the token, in order, none twice and all
\* of them unless the callback refused one.
VisitsEachComponent ==
    Idle =>
      \A c \in call : c.api = "each" =>
         /\ visited # <<>> => ~ c.null /\ token.components # {}
         /\ \A items \in token.components :
               /\ visited = SubSeq(items, 1, Len(visited))
               /\ ret = "ok" => visited = items

=============================================================================
