--------------------------- MODULE CoseKey_proofs ---------------------------
(***************************************************************************)
(* For any objects, COSE_Keys, secrets and buffers: types, what a key      *)
(* signs with, what decoding reads and leaves behind, what is encoded, how *)
(* long it is, and that it is read back.                                   *)
(***************************************************************************)
EXTENDS CoseKey, Checks_proofs

Key == [kty : STRING, alg : STRING, crv : STRING, kid : Kid, union : Kid,
        att : {"none", "symmetric"} \cup Kinds, hasPrivate : BOOLEAN,
        signCb : BOOLEAN, seed : STRING]

-----------------------------------------------------------------------------
(* The inductive invariant.                                                *)

ObjFits(o) == /\ o \in Object /\ Whole(o)
              /\ o.pub # "object" /\ o.priv # "object" /\ o.pub # "NULL" /\ o.priv # "NULL"

\* An attached object is the one the application has.
KeyFits(k, o) == /\ k \in Key
                 /\ k.kty # "big" /\ k.alg # "big" /\ k.crv # "big"
                 /\ k.alg \in DOMAIN AlgInt
                 /\ PairName(k.seed) /\ k.union.val # "none"
                 /\ k.att \in Kinds => k.union.val = "object" /\ o.kind = k.att

Keyed == KeyFits(key, obj) /\ ObjFits(obj) /\ before \in Object

Codes == {"ok", "arg", "alg", "key", "cbor", "header", "small", "crypto", "unsupported"}

Calls == /\ pc \in {"idle", "entry", "import"}
         /\ op \in {"init", "set", "encode", "raw", "decode"}
         /\ ret \in Codes

GoodInput(m) ==
    m \in Input /\ \A i \in DOMAIN m.entries : Plain(m.entries[i]) /\ Known(m.entries[i])

Reading == /\ GoodInput(in) /\ n \in 0 .. Len(in.entries)
           /\ mem \in [Members -> Kid]
           /\ \A l \in Members : PairName(mem[l].val) /\ (mem[l].len # 0 => mem[l].val # "NULL")
           /\ badType \in BOOLEAN

\* What may be written of a key.
Emittable(k, public) ==
    {e \in Entry : /\ Plain(e) /\ Known(e)
                   /\ Secret(k.kty, e.label) => KeyEmitsPrivate(k, public)}

Emitted == out \in Seq(Emittable(sent.key, sent.public))

\* A symmetric key that is not the remains of a failed call is a private one.
Trusted(k, o, last) == /\ k.hasPrivate => Material(k, o) = last /\ last # "none"
                       /\ last # "failed" /\ k.kty = "Symmetric" => k.hasPrivate
Trust == pc = "idle" => Trusted(key, obj, entrusted)

Delegated == key.signCb => pc = "idle" /\ kept = <<key.hasPrivate, key.union, obj>>

\* Until the last entry is taken nothing has been imported.
Decoding == /\ pc # "idle" => /\ op = "decode" /\ ret = "ok" /\ obj = before
                              /\ ~ key.hasPrivate /\ key.seed = "NULL"
                              /\ entrusted = "failed"
            /\ pc = "import" => CheckCode = "ok"

Accepted(i) == /\ LabelCode(in.entries[i], SubSeq(in.entries, 1, i - 1)) = "ok"
               /\ EntryCode(in.entries[i]) = "ok"

\* What the key tells of the i-th entry, once it is taken.
Describes(k, e) == /\ e.label = "kty" => k.kty = e.val
                   /\ e.label = "kid" => k.kid = ByteString(e)
                   /\ e.label = "alg" => k.alg = e.val
                   /\ e.label = "-1" /\ e.type # "bstr" => k.crv = e.val

Decodes == op = "decode" /\ ret = "ok"

\* The description of a key is that of the entries taken, and of no others.
Described ==
    Decodes =>
        /\ \A i \in 1 .. n : Accepted(i) /\ Describes(key, in.entries[i])
        /\ (\A i \in 1 .. n : in.entries[i].label # "kty") => key.kty = "0"
        /\ (\A i \in 1 .. n : in.entries[i].label # "kid") => key.kid = NULL
        /\ (\A i \in 1 .. n : in.entries[i].label # "alg") => key.alg = "unset"
        /\ (\A i \in 1 .. n : in.entries[i].label = "-1" => in.entries[i].type = "bstr")
               => key.crv = "0"

Provides(m, e) == e.label \in Members /\ e.type = "bstr" => m[e.label] = ByteString(e)
Spoils(e)      == e.label \in Deferred /\ e.type # "bstr"

\* And so are the byte strings, until they are imported.
Gathered ==
    pc # "idle" =>
        /\ \A i \in 1 .. n : Provides(mem, in.entries[i])
        /\ (\E i \in 1 .. n : Spoils(in.entries[i])) => badType = TRUE
        /\ \A l \in Members : (\A i \in 1 .. n : in.entries[i].label # l) => mem[l] = NULL

Completed ==
    Decodes => /\ ~ (Len(in.entries) > MaxItems)
               /\ pc # "entry" => n = Len(in.entries) /\ key.kty # "0" /\ ~ in.tail

IInv == /\ Keyed /\ Calls /\ Reading /\ Emitted /\ Trust /\ Delegated /\ Decoding
        /\ Described /\ Gathered /\ Completed /\ FailedDecodeKeepsNothing

-----------------------------------------------------------------------------
(* Between calls.                                                          *)

LEMMA Blank == /\ NULL \in Kid /\ GoodInput(NoInput) /\ 0 \in 0 .. Len(NoInput.entries)
               /\ NoMembers \in [Members -> Kid]
               /\ \A l \in Members : /\ NoMembers[l] = NULL /\ PairName(NoMembers[l].val)
                                      /\ NoMembers[l].len = 0
               /\ Zero \in Key /\ \A o : KeyFits(Zero, o)
               /\ \A S : <<>> \in Seq(S)
<1>1. NULL \in Kid
  <2>1. "NULL" \in STRING
    BY NamesAssumption
  <2> QED BY <2>1 DEF NULL, Kid
<1>2. GoodInput(NoInput) /\ 0 \in 0 .. Len(NoInput.entries)
  <2>1. NoInput.entries = <<>>
    BY DEF NoInput
  <2>2. NoInput \in Input
    BY DEF NoInput, Input
  <2> QED BY <2>1, <2>2 DEF GoodInput
<1>3. Zero \in Key
  <2>1. {"0", "unset", "NULL"} \subseteq STRING
    BY NamesAssumption, AlgsAssumption
  <2> QED BY <1>1, <2>1 DEF Zero, Key, Kinds
<1>4. \A o : KeyFits(Zero, o)
  BY <1>3, AlgsAssumption DEF KeyFits, Zero, PairName, NULL, Kinds
<1>5. NoMembers \in [Members -> Kid]
  BY <1>1 DEF NoMembers
<1>6. \A l \in Members : /\ NoMembers[l] = NULL /\ PairName(NoMembers[l].val)
                          /\ NoMembers[l].len = 0
  BY DEF NoMembers, NULL, PairName
<1>7. \A S : <<>> \in Seq(S)
  OBVIOUS
<1> QED BY <1>1, <1>2, <1>3, <1>4, <1>5, <1>6, <1>7

\* A call that decodes nothing and leaves a key that fits.
LEMMA IdleStep ==
    ASSUME IInv, pc' = "idle", op' \in {"init", "set", "encode", "raw"}, ret' \in Codes, Rest,
           ObjFits(obj'), KeyFits(key', obj'),
           Trusted(key', obj', entrusted'),
           key'.signCb => kept' = <<key'.hasPrivate, key'.union, obj'>>,
           Emitted'
    PROVE  IInv'
<1>1. Keyed'
  <2>1. before' \in Object
    BY DEF Rest, ObjFits
  <2> QED BY <2>1 DEF Keyed, KeyFits, ObjFits
<1>2. Calls'
  BY DEF Calls
<1>3. Reading'
  <2>1. in' = NoInput /\ n' = 0 /\ mem' = NoMembers /\ badType' = FALSE
    BY DEF Rest
  <2> QED BY <2>1, Blank DEF Reading, GoodInput
<1>4. Trust'
  BY DEF Trust, Trusted, Material
<1>5. Delegated' /\ Decoding'
  BY DEF Delegated, Decoding
<1>6. Described' /\ Gathered' /\ Completed' /\ FailedDecodeKeepsNothing'
  BY DEF Described, Gathered, Completed, Decodes, FailedDecodeKeepsNothing
<1> QED BY <1>1, <1>2, <1>3, <1>4, <1>5, <1>6 DEF IInv

LEMMA Kept == ASSUME IInv, NEW ops, Keep(ops) PROVE Emitted'
BY Blank DEF Keep, Forget, Emitted, IInv, Emittable

LEMMA Dropped == ASSUME Forget PROVE Emitted'
BY Blank DEF Forget, Emitted, Emittable

LEMMA InitStep == Init => IInv
<1> SUFFICES ASSUME Init PROVE IInv
  OBVIOUS
<1>1. Keyed
  BY Blank, ObjectsAssumption DEF Init, Keyed, ObjFits
<1>2. Calls
  BY DEF Init, Calls, Codes
<1>3. Reading
  BY Blank DEF Init, Reading
<1>4. Emitted
  BY Blank DEF Init, Emitted
<1>5. Trust /\ Delegated /\ Decoding
  BY DEF Init, Trust, Trusted, Delegated, Decoding, Zero
<1>6. Described /\ Gathered /\ Completed /\ FailedDecodeKeepsNothing
  BY DEF Init, Described, Gathered, Completed, Decodes, FailedDecodeKeepsNothing
<1> QED BY <1>1, <1>2, <1>3, <1>4, <1>5, <1>6 DEF IInv

-----------------------------------------------------------------------------
(* Attaching.                                                              *)

LEMMA FreshStep == ASSUME IInv, NEW o \in Objects, Fresh(o) PROVE IInv'
<1>1. pc' = "idle" /\ op' = "init" /\ ret' = "ok" /\ Rest
  BY DEF Fresh, Return
<1>2. ObjFits(obj')
  BY ObjectsAssumption DEF Fresh, ObjFits
<1>3. KeyFits(key', obj')
  BY Blank DEF Fresh
<1>4. Trusted(key', obj', entrusted') /\ ~ key'.signCb
  BY DEF Fresh, Trusted, Zero
<1>5. Emitted'
  BY Dropped DEF Fresh, IInv, Emitted, Emittable
<1> QED BY <1>1, <1>2, <1>3, <1>4, <1>5, IdleStep DEF Codes

LEMMA SetterStep ==
    ASSUME IInv, NEW code \in Codes, NEW then, NEW private, Setter(code, then, private),
           code = "ok" => KeyFits(then, obj) /\ Trusted(then, obj, private) /\ ~ then.signCb
    PROVE  IInv'
<1>1. pc' = "idle" /\ op' = "set" /\ ret' = code /\ Rest /\ obj' = obj /\ pc = "idle"
  BY DEF Setter, Return
<1>2. ObjFits(obj')
  BY <1>1 DEF IInv, Keyed
<1>3. KeyFits(key', obj')
  BY <1>1 DEF IInv, Keyed, Setter
<1>4. Trusted(key', obj', entrusted')
  BY <1>1 DEF IInv, Trust, Setter
<1>5. key'.signCb => kept' = <<key'.hasPrivate, key'.union, obj'>>
  BY <1>1 DEF IInv, Delegated, Setter
<1>6. Emitted'
  BY Kept DEF Setter
<1> QED BY <1>1, <1>2, <1>3, <1>4, <1>5, <1>6, IdleStep

\* A pointer to an object of the right kind.
LEMMA PointAtFits ==
    ASSUME IInv, NEW kty \in STRING, NEW crv \in STRING, NEW alg \in DOMAIN AlgInt, NEW att \in Kinds,
           NEW private \in BOOLEAN, "big" \notin {kty, crv, alg}, obj.kind = att, kty # "Symmetric"
    PROVE  LET then == PointAt(kty, crv, alg, att, private)
           IN  /\ KeyFits(then, obj) /\ ~ then.signCb
               /\ then.seed = key.seed
               /\ private /\ Holds(obj, "priv") => Trusted(then, obj, obj.priv)
               /\ ~ private => \A last : Trusted(then, obj, last)
<1> DEFINE then == PointAt(kty, crv, alg, att, private)
           union == [key.union EXCEPT !.val = "object"]
<1>1. key \in Key /\ key.union \in Kid
  BY DEF IInv, Keyed, KeyFits, Key
<1>2. union \in Kid /\ union.val = "object"
  BY <1>1, NamesAssumption DEF Kid
<1> HIDE DEF union
<1>0. alg \in STRING
  BY AlgsAssumption
<1>3. then = [key EXCEPT !.kty = kty, !.crv = crv, !.alg = alg, !.att = att, !.union = union,
                         !.hasPrivate = private, !.signCb = FALSE]
  BY <1>1 DEF PointAt, union, Key
<1> HIDE DEF then
<1>4. /\ then \in Key /\ then.kty = kty /\ then.crv = crv /\ then.alg = alg /\ then.att = att
      /\ then.union = union /\ then.hasPrivate = private /\ ~ then.signCb /\ then.seed = key.seed
  BY <1>0, <1>1, <1>2, <1>3 DEF Key
<1>5. KeyFits(then, obj)
  BY <1>2, <1>4 DEF KeyFits, IInv, Keyed
<1>6. private /\ Holds(obj, "priv") => Trusted(then, obj, obj.priv)
  BY <1>2, <1>4 DEF Trusted, Material, Holds
<1>7. ~ private => \A last : Trusted(then, obj, last)
  BY <1>4 DEF Trusted
<1> QED BY <1>4, <1>5, <1>6, <1>7 DEF then

\* The curve and the key type of a key are strings.
LEMMA KeyStrings == ASSUME IInv
                    PROVE  /\ key.crv \in STRING /\ key.crv # "big"
                           /\ {"EC2", "RSA", "AKP", "OKP", "HSS-LMS", "Symmetric", "0", "unset"}
                                \subseteq STRING
                           /\ {"unset", "HSS-LMS"} \subseteq DOMAIN AlgInt
BY NamesAssumption, AlgsAssumption DEF IInv, Keyed, KeyFits, Key

LEMMA SetEccStep == ASSUME IInv, NEW crv \in DOMAIN CrvSize, SetEcc(crv) PROVE IInv'
<1> DEFINE a == Fails(crv \notin Ec2Curves, "arg")
           b == EccKeyCheckCurve(crv)
           code == First(<<a, b>>)
           then == PointAt("EC2", crv, "unset", "ecc", EccPrivate)
           private == IF EccPrivate THEN obj.priv ELSE "none"
<1>1. obj.kind = "ecc" /\ Setter(code, then, private)
  BY DEF SetEcc
<1>2. code \in Codes
  <2>1. {a, b} \subseteq Codes
    BY DEF Codes, Fails, EccKeyCheckCurve
  <2> HIDE DEF a, b
  <2> QED BY <2>1, PairOf DEF Codes
<1>3. crv \in STRING /\ crv # "big"
  BY NamesAssumption DEF CrvSize
<1>4. EccPrivate \in BOOLEAN /\ (EccPrivate => Holds(obj, "priv"))
  BY DEF EccPrivate, Holds
<1> HIDE DEF then, code
<1>5. KeyFits(then, obj) /\ Trusted(then, obj, private) /\ ~ then.signCb
  BY <1>1, <1>3, <1>4, KeyStrings, PointAtFits DEF then, Kinds
<1> QED BY <1>1, <1>2, <1>5, SetterStep

LEMMA SetEdStep == ASSUME IInv, SetEd PROVE IInv'
<1> DEFINE crv == IF obj.kind = "ed25519" THEN "Ed25519" ELSE "Ed448"
           then == PointAt("OKP", crv, "unset", obj.kind, Holds(obj, "priv"))
<1>1. obj.kind \in Kinds /\ Setter("ok", then, obj.priv)
  BY DEF SetEd, Kinds
<1>2. crv \in STRING /\ crv # "big"
  <2>1. {"Ed25519", "Ed448"} \subseteq STRING
    BY NamesAssumption DEF CrvSize
  <2> QED BY <2>1
<1>3. Holds(obj, "priv") \in BOOLEAN
  BY DEF Holds
<1> HIDE DEF crv
<1>4. KeyFits(then, obj) /\ Trusted(then, obj, obj.priv) /\ ~ then.signCb
  BY <1>1, <1>2, <1>3, KeyStrings, PointAtFits
<1> HIDE DEF then
<1> QED BY <1>1, <1>4, SetterStep DEF Codes

LEMMA SetLmsStep == ASSUME IInv, SetLms PROVE IInv'
<1> DEFINE then == PointAt("HSS-LMS", "0", "HSS-LMS", "lms", Holds(obj, "priv"))
<1>1. obj.kind = "lms" /\ Setter("ok", then, obj.priv)
  BY DEF SetLms
<1>2. Holds(obj, "priv") \in BOOLEAN
  BY DEF Holds
<1>3. KeyFits(then, obj) /\ Trusted(then, obj, obj.priv) /\ ~ then.signCb
  BY <1>1, <1>2, KeyStrings, PointAtFits DEF Kinds
<1> HIDE DEF then
<1> QED BY <1>1, <1>3, SetterStep DEF Codes

LEMMA SetRsaStep == ASSUME IInv, SetRsa PROVE IInv'
<1> DEFINE then == PointAt("RSA", key.crv, "unset", "rsa", Holds(obj, "priv"))
<1>1. obj.kind = "rsa" /\ Setter("ok", then, obj.priv)
  BY DEF SetRsa
<1>2. Holds(obj, "priv") \in BOOLEAN
  BY DEF Holds
<1>3. KeyFits(then, obj) /\ Trusted(then, obj, obj.priv) /\ ~ then.signCb
  BY <1>1, <1>2, KeyStrings, PointAtFits DEF Kinds
<1> HIDE DEF then
<1> QED BY <1>1, <1>3, SetterStep DEF Codes

LEMMA SetMlDsaStep ==
    ASSUME IInv, NEW alg \in DOMAIN AlgInt, NEW seed \in {"NULL", "A", "B"}, NEW len,
           SetMlDsa(alg, seed, len)
    PROVE  IInv'
<1> DEFINE a == Fails(alg \notin DOMAIN MlDsaPubLen, "alg")
           b == Fails(seed # "NULL" /\ len # SeedSize, "arg")
           code == First(<<a, b>>)
           mid == PointAt("AKP", "0", alg, "mldsa", Holds(obj, "priv"))
           then == [mid EXCEPT !.seed = seed]
<1>1. obj.kind = "mldsa" /\ Setter(code, then, obj.priv)
  BY DEF SetMlDsa
<1>2. code \in Codes
  <2>1. {a, b} \subseteq Codes
    BY DEF Codes, Fails
  <2> HIDE DEF a, b
  <2> QED BY <2>1, PairOf DEF Codes
<1> HIDE DEF code
<1>3. alg \in STRING /\ alg # "big"
  BY AlgsAssumption
<1>4. Holds(obj, "priv") \in BOOLEAN
  BY DEF Holds
<1>5. KeyFits(mid, obj) /\ Trusted(mid, obj, obj.priv) /\ ~ mid.signCb
  BY <1>1, <1>3, <1>4, KeyStrings, PointAtFits DEF Kinds
<1> HIDE DEF mid
<1>6. seed \in STRING /\ PairName(seed)
  BY NamesAssumption DEF PairName
<1>7. KeyFits(then, obj) /\ Trusted(then, obj, obj.priv) /\ ~ then.signCb
  <2>1. mid \in Key
    BY <1>5 DEF KeyFits
  <2>2. /\ then \in Key /\ then.kty = mid.kty /\ then.alg = mid.alg /\ then.crv = mid.crv
        /\ then.seed = seed /\ then.union = mid.union /\ then.att = mid.att
        /\ then.hasPrivate = mid.hasPrivate /\ then.signCb = mid.signCb
    BY <1>6, <2>1 DEF Key
  <2> HIDE DEF then
  <2> QED BY <1>5, <1>6, <2>2 DEF KeyFits, Trusted, Material
<1> HIDE DEF then
<1> QED BY <1>1, <1>2, <1>7, SetterStep

LEMMA SetSymmetricStep == ASSUME IInv, NEW data \in Secrets, SetSymmetric(data) PROVE IInv'
<1> DEFINE mid == PointAt("Symmetric", key.crv, "unset", "symmetric", TRUE)
           then == [mid EXCEPT !.union = data]
           code == Fails(data.len = 0, "arg")
<1>1. Setter(code, then, data.val) /\ code \in Codes
  BY DEF SetSymmetric, Codes, Fails
<1>2. data \in Kid /\ PairName(data.val)
  BY SecretsAssumption
<1>3. key \in Key /\ key.union \in Kid /\ PairName(key.seed)
  BY DEF IInv, Keyed, KeyFits, Key
<1>4. /\ then \in Key /\ then.kty = "Symmetric" /\ then.crv = key.crv /\ then.alg = "unset"
      /\ then.seed = key.seed /\ then.union = data /\ then.att = "symmetric"
      /\ then.hasPrivate /\ ~ then.signCb
  BY <1>2, <1>3, KeyStrings DEF Key, PointAt
<1> HIDE DEF then, code
<1>5. KeyFits(then, obj)
  BY <1>2, <1>3, <1>4, KeyStrings DEF KeyFits, PairName, Kinds
<1>6. Trusted(then, obj, data.val)
  BY <1>2, <1>4 DEF Trusted, Material, PairName
<1> QED BY <1>1, <1>4, <1>5, <1>6, SetterStep

LEMMA SetExtSignerStep == ASSUME IInv, NEW cb \in BOOLEAN, SetExtSigner(cb) PROVE IInv'
<1>1. /\ pc' = "idle" /\ op' = "set" /\ ret' = "ok" /\ Rest /\ obj' = obj /\ pc = "idle"
      /\ UNCHANGED entrusted
  BY DEF SetExtSigner, Return
<1>2. key \in Key /\ KeyFits(key, obj) /\ ObjFits(obj) /\ Trusted(key, obj, entrusted)
  BY <1>1 DEF IInv, Keyed, KeyFits, Trust
<1>3. /\ key' \in Key /\ key'.kty = key.kty /\ key'.alg = key.alg /\ key'.crv = key.crv
      /\ key'.seed = key.seed /\ key'.union = key.union /\ key'.att = key.att
      /\ key'.hasPrivate = key.hasPrivate /\ key'.signCb = cb
  BY <1>2 DEF SetExtSigner, Key
<1>4. KeyFits(key', obj') /\ Trusted(key', obj', entrusted')
  BY <1>1, <1>2, <1>3 DEF KeyFits, Trusted, Material
<1>5. key'.signCb => kept' = <<key'.hasPrivate, key'.union, obj'>>
  BY <1>1, <1>3 DEF SetExtSigner
<1>6. Emitted'
  BY Kept DEF SetExtSigner
<1>7. ObjFits(obj')
  BY <1>1, <1>2
<1> QED BY <1>1, <1>4, <1>5, <1>6, <1>7, IdleStep DEF Codes

LEMMA SetMetaStep == ASSUME IInv, NEW m \in Metas, SetMeta(m.kid, m.alg) PROVE IInv'
<1>1. /\ pc' = "idle" /\ op' = "set" /\ ret' = "ok" /\ Rest /\ obj' = obj /\ pc = "idle"
      /\ UNCHANGED <<entrusted, kept>>
  BY DEF SetMeta, Return, ghosts
<1>2. key \in Key /\ KeyFits(key, obj) /\ ObjFits(obj) /\ Trusted(key, obj, entrusted)
  BY <1>1 DEF IInv, Keyed, KeyFits, Trust
<1>3. m.kid \in Kid /\ m.alg \in STRING /\ m.alg # "big" /\ m.alg \in DOMAIN AlgInt
  BY MetasAssumption, AlgsAssumption
<1>4. /\ key' \in Key /\ key'.kty = key.kty /\ key'.alg = m.alg /\ key'.crv = key.crv
      /\ key'.seed = key.seed /\ key'.union = key.union /\ key'.att = key.att
      /\ key'.hasPrivate = key.hasPrivate /\ key'.signCb = key.signCb
  BY <1>2, <1>3 DEF SetMeta, Key
<1>5. KeyFits(key', obj') /\ Trusted(key', obj', entrusted')
  BY <1>1, <1>2, <1>3, <1>4 DEF KeyFits, Trusted, Material
<1>6. key'.signCb => kept' = <<key'.hasPrivate, key'.union, obj'>>
  BY <1>1, <1>4 DEF IInv, Delegated
<1>7. Emitted' /\ ObjFits(obj')
  BY <1>1, <1>2, Dropped DEF SetMeta
<1> QED BY <1>1, <1>5, <1>6, <1>7, IdleStep DEF Codes

LEMMA SetStep == ASSUME IInv, Set PROVE IInv'
BY FreshStep, SetEccStep, SetEdStep, SetLmsStep, SetRsaStep, SetMlDsaStep, SetSymmetricStep,
   SetExtSignerStep, SetMetaStep DEF Set

-----------------------------------------------------------------------------
(* Encoding.                                                               *)

LEMMA EmittableBytes ==
    ASSUME NEW k, NEW public, NEW label \in STRING, NEW val \in STRING, NEW len \in Nat,
           label \in Members => PairName(val) /\ val # "NULL",
           Secret(k.kty, label) => KeyEmitsPrivate(k, public)
    PROVE  Bytes(label, val, len) \in Emittable(k, public)
BY DEF Bytes, Entry, Emittable, Plain, Known

LEMMA EmittableNumber ==
    ASSUME NEW k, NEW public, NEW label \in STRING, NEW val \in STRING,
           ~ Secret(k.kty, label), label = "alg" => val \in DOMAIN AlgInt
    PROVE  Number(label, val) \in Emittable(k, public)
BY DEF Number, Entry, Emittable, Plain, Known

LEMMA CommonEmittable ==
    ASSUME NEW k \in Key, k.alg \in DOMAIN AlgInt, NEW public
    PROVE  Common(k) \in Seq(Emittable(k, public))
<1> DEFINE S == Emittable(k, public)
           kty == Number("kty", k.kty)
           kid == Bytes("kid", k.kid.val, k.kid.len)
           alg == Number("alg", k.alg)
<1>1. /\ k.kty \in STRING /\ k.alg \in STRING /\ k.kid.val \in STRING /\ k.kid.len \in Nat
      /\ {"kty", "kid", "alg"} \subseteq STRING
      /\ \A l \in {"kty", "kid", "alg"} : ~ Secret(k.kty, l) /\ l \notin Members
  BY NamesAssumption DEF Key, Kid, Secret, Members, RsaPrivate
<1>2. kty \in S /\ kid \in S /\ alg \in S
  BY <1>1, EmittableBytes, EmittableNumber
<1> HIDE DEF S, kty, kid, alg
<1>3. Common(k) = <<kty>> \o ((IF k.kid.len > 0 THEN <<kid>> ELSE <<>>)
                              \o (IF k.alg # "unset" THEN <<alg>> ELSE <<>>))
  BY DEF Common, Optional, kty, kid, alg
<1> QED BY <1>2, <1>3 DEF S

\* The pair named by a public half that is there.
LEMMA PublicHalf == ASSUME NEW o, ObjFits(o), NoPublic(o) = "ok"
                    PROVE  /\ PairName(o.pub) /\ o.pub # "NULL" /\ o.pub \in STRING
                           /\ o.n \in Nat /\ o.e \in Nat
BY DEF ObjFits, Object, NoPublic, Fails, Holds, PairName

\* The encoder reads a wolfCrypt object where it looks for one.
LEMMA ReadsObject ==
    ASSUME NEW k, NEW o, ObjFits(o), ~ Misreads(k, o), Reads(k) \in Kinds, NoObject(k) = "ok"
    PROVE  k.union.val = "object"
<1>1. k.union.val # "NULL"
  BY DEF NoObject, Fails
<1>2. o.kind \in Kinds
  BY DEF ObjFits, Object
<1> QED BY <1>1, <1>2 DEF Misreads, Member, Kinds

Encodable(k, o) ==
    /\ KeyFits(k, o) /\ ObjFits(o) /\ ~ Misreads(k, o)
    /\ k.hasPrivate => Material(k, o) # "none"

LEMMA Ec2Emittable ==
    ASSUME NEW k \in Key, k.alg \in DOMAIN AlgInt, NEW pub \in STRING, NEW priv \in STRING,
           NEW len \in Nat, NEW private, NEW public, k.kty = "EC2", PairName(pub), pub # "NULL",
           private => PairName(priv) /\ priv # "NULL" /\ KeyEmitsPrivate(k, public)
    PROVE  Ec2Map(k, pub, priv, len, private) \in Seq(Emittable(k, public))
<1> DEFINE S == Emittable(k, public)
           a == Number("-1", k.crv)
           b == Bytes("-2", pub, len)
           c == Bytes("-3", pub, len)
           d == Bytes("-4", priv, len)
<1>1. {"-1", "-2", "-3", "-4"} \subseteq STRING /\ k.crv \in STRING
  BY NamesAssumption DEF Members, Key
<1>2. \A l \in {"-1", "-2", "-3"} : ~ Secret(k.kty, l)
  BY DEF Secret
<1>3. a \in S /\ b \in S /\ c \in S /\ (private => d \in S)
  BY <1>1, <1>2, EmittableBytes, EmittableNumber
<1>4. Common(k) \in Seq(S)
  BY CommonEmittable
<1> HIDE DEF S, a, b, c, d
<1>5. Ec2Map(k, pub, priv, len, private)
          = Common(k) \o <<a, b, c>> \o (IF private THEN <<d>> ELSE <<>>)
  BY DEF Ec2Map, a, b, c, d
<1> HIDE DEF Common
<1>6. CASE private
  BY <1>3, <1>4, <1>5, <1>6 DEF S
<1>7. CASE ~ private
  BY <1>3, <1>4, <1>5, <1>7 DEF S
<1> QED BY <1>6, <1>7

LEMMA OkpEmittable ==
    ASSUME NEW k, NEW o, NEW public, Encodable(k, o), EncodeCode(k, o, public) = "ok",
           k.kty = "OKP"
    PROVE  Map(k, o, public) \in Seq(Emittable(k, public))
<1> DEFINE S == Emittable(k, public)
           private == KeyEmitsPrivate(k, public)
           len == CrvSize[k.crv]
           a == Number("-1", k.crv)
           b == Bytes("-2", o.pub, len)
           d == Bytes("-4", o.priv, len)
<1>1. OkpCurve(k) = "ok" /\ NoPublic(o) = "ok"
  <2>1. First(<<OkpCurve(k), NoPublic(o)>>) = "ok"
    BY DEF EncodeCode
  <2> QED BY <2>1, PairOf
<1>2. Fails(k.crv \notin OkpCurves, "alg") = "ok" /\ NoObject(k) = "ok"
  <2> DEFINE x == Fails(k.crv \notin OkpCurves, "alg")
  <2>1. First(<<x, NoObject(k)>>) = "ok"
    BY <1>1 DEF OkpCurve
  <2> HIDE DEF x
  <2>2. x = "ok" /\ NoObject(k) = "ok"
    BY <2>1, PairOf
  <2> QED BY <2>2 DEF x
<1>3. k.crv \in {"Ed25519", "Ed448"}
  BY <1>2 DEF Fails, OkpCurves
<1>4. len \in Nat
  BY <1>3 DEF CrvSize
<1> HIDE DEF len
<1>5. k.union.val = "object"
  <2>1. Reads(k) \in Kinds
    BY <1>3 DEF Reads, Kinds
  <2> QED BY <1>2, <2>1, ReadsObject DEF Encodable
<1>6. private => PairName(o.priv) /\ o.priv # "NULL"
  BY <1>5 DEF KeyEmitsPrivate, Encodable, Material, ObjFits, PairName
<1>7. k \in Key /\ k.crv \in STRING /\ o.priv \in STRING /\ k.alg \in DOMAIN AlgInt
  BY DEF Encodable, KeyFits, Key, ObjFits, Object
<1>8. {"-1", "-2", "-4"} \subseteq STRING
  BY NamesAssumption DEF Members
<1>9. \A l \in {"-1", "-2"} : ~ Secret(k.kty, l)
  BY DEF Secret
<1>10. a \in S /\ b \in S
  BY <1>1, <1>4, <1>7, <1>8, <1>9, PublicHalf, EmittableBytes, EmittableNumber DEF Encodable
<1>11. private => d \in S
  BY <1>4, <1>6, <1>7, <1>8, EmittableBytes
<1>12. Common(k) \in Seq(S)
  BY <1>7, CommonEmittable
<1>13. Map(k, o, public) = OkpMap(k, o, private)
  BY DEF Map
<1> HIDE DEF S, private, a, b, d
<1>14. Map(k, o, public) = Common(k) \o <<a, b>> \o (IF private THEN <<d>> ELSE <<>>)
  BY <1>13 DEF OkpMap, a, b, d, len
<1>15. CASE private
  BY <1>10, <1>11, <1>12, <1>14, <1>15 DEF S
<1>16. CASE ~ private
  BY <1>10, <1>12, <1>14, <1>16 DEF S
<1> QED BY <1>15, <1>16

LEMMA Ec2KeyEmittable ==
    ASSUME NEW k, NEW o, NEW public, Encodable(k, o), EncodeCode(k, o, public) = "ok",
           k.kty = "EC2"
    PROVE  Map(k, o, public) \in Seq(Emittable(k, public))
<1> DEFINE private == KeyEmitsPrivate(k, public)
           a == NoObject(k)
           b == IF Ec2Curve(k, o) = "alg" THEN "alg" ELSE NoPublic(o)
           c == Ec2Curve(k, o)
           d == Fails(private /\ ~ Holds(o, "priv"), "crypto")
<1>1. First(<<a, b, c, d>>) = "ok"
  BY DEF EncodeCode, Ec2EncodeCode
<1> HIDE DEF a, b, c, d
<1>2. b = "ok" /\ d = "ok"
  BY <1>1, FourOf
<1>3. NoPublic(o) = "ok"
  BY <1>2 DEF b
<1>4. private => o.priv # "none"
  BY <1>2 DEF d, Fails, Holds
<1>5. k \in Key /\ ObjFits(o) /\ k.alg \in DOMAIN AlgInt
  BY DEF Encodable, KeyFits
<1>6. /\ PairName(o.pub) /\ o.pub # "NULL" /\ o.pub \in STRING /\ o.n \in Nat
      /\ o.priv \in STRING /\ (private => PairName(o.priv) /\ o.priv # "NULL")
  BY <1>3, <1>4, <1>5, PublicHalf DEF ObjFits, Object, PairName
<1>7. Map(k, o, public) = Ec2Map(k, o.pub, o.priv, o.n, private)
  BY DEF Map
<1> QED BY <1>5, <1>6, <1>7, Ec2Emittable

LEMMA RsaEmittable ==
    ASSUME NEW k, NEW o, NEW public, Encodable(k, o), EncodeCode(k, o, public) = "ok",
           k.kty = "RSA"
    PROVE  Map(k, o, public) \in Seq(Emittable(k, public))
<1> DEFINE S == Emittable(k, public)
           private == EmitsRsa(k, o, public)
           a == Bytes("-1", o.pub, o.n)
           b == Bytes("-2", o.pub, o.e)
           c == Bytes("-3", o.priv, o.n)
           rest(l) == Bytes(l, o.priv, RsaHalf(o.n))
           labels == <<"-4", "-5", "-6", "-7", "-8">>
           factors == [i \in 1 .. 5 |-> rest(labels[i])]
<1>1. NoObject(k) = "ok" /\ NoPublic(o) = "ok"
  <2> DEFINE x == Fails(private /\ o.n % 2 = 1, "crypto")
  <2>1. First(<<NoObject(k), NoPublic(o), x>>) = "ok"
    BY DEF EncodeCode, RsaEncodeCode
  <2> HIDE DEF x
  <2> QED BY <2>1, TripleOf
<1>2. k.union.val = "object"
  <2>1. Reads(k) \in Kinds
    BY DEF Reads, Kinds
  <2> QED BY <1>1, <2>1, ReadsObject DEF Encodable
<1>3. private => PairName(o.priv) /\ o.priv # "NULL" /\ KeyEmitsPrivate(k, public)
  BY <1>2 DEF EmitsRsa, KeyEmitsPrivate, Encodable, Material, ObjFits, PairName
<1>4. /\ k \in Key /\ k.alg \in DOMAIN AlgInt
      /\ o.priv \in STRING /\ o.n \in Nat /\ RsaHalf(o.n) \in Nat
  BY DEF Encodable, KeyFits, ObjFits, Object, RsaHalf
<1>5. Members \subseteq STRING /\ {"-1", "-2", "-3", "-4", "-5", "-6", "-7", "-8"} \subseteq Members
  BY NamesAssumption DEF Members
<1>6. \A l \in {"-1", "-2"} : ~ Secret(k.kty, l)
  BY DEF Secret, RsaPrivate
<1>7. a \in S /\ b \in S
  BY <1>1, <1>4, <1>5, <1>6, PublicHalf, EmittableBytes DEF Encodable
<1>8. private => c \in S /\ \A l \in Members : rest(l) \in S
  BY <1>3, <1>4, <1>5, EmittableBytes
<1>9. private => factors \in Seq(S)
  <2>1. \A i \in 1 .. 5 : labels[i] \in Members
    BY <1>5
  <2> HIDE DEF labels, rest
  <2>2. private => \A i \in 1 .. 5 : rest(labels[i]) \in S
    BY <1>8, <2>1
  <2> QED BY <2>2
<1>10. Common(k) \in Seq(S)
  BY <1>4, CommonEmittable
<1>11. Map(k, o, public) = RsaMap(k, o, private)
  BY DEF Map
<1> HIDE DEF S, private, a, b, c
<1>12. Map(k, o, public) = Common(k) \o <<a, b>> \o (IF private THEN <<c>> \o factors ELSE <<>>)
  BY <1>11 DEF RsaMap, a, b, c
<1> HIDE DEF factors
<1>13. CASE private
  BY <1>7, <1>8, <1>9, <1>10, <1>12, <1>13 DEF S
<1>14. CASE ~ private
  BY <1>7, <1>10, <1>12, <1>14 DEF S
<1> QED BY <1>13, <1>14

LEMMA AkpEmittable ==
    ASSUME NEW k, NEW o, NEW public, Encodable(k, o), EncodeCode(k, o, public) = "ok",
           k.kty = "AKP"
    PROVE  Map(k, o, public) \in Seq(Emittable(k, public))
<1> DEFINE S == Emittable(k, public)
           private == EmitsMlDsa(k, public)
           a == Bytes("-1", o.pub, o.n)
           b == Bytes("-2", k.seed, SeedSize)
<1>1. NoPublic(o) = "ok"
  <2> DEFINE x == Fails(k.alg = "unset", "alg")
  <2>1. First(<<NoObject(k), x, NoPublic(o)>>) = "ok"
    BY DEF EncodeCode, AkpEncodeCode
  <2> HIDE DEF x
  <2> QED BY <2>1, TripleOf
<1>2. /\ k \in Key /\ k.alg \in DOMAIN AlgInt
      /\ k.seed \in STRING /\ PairName(k.seed) /\ SeedSize \in Nat
  BY DEF Encodable, KeyFits, Key, SeedSize
<1>3. {"-1", "-2"} \subseteq STRING /\ ~ Secret(k.kty, "-1")
  BY NamesAssumption DEF Members, Secret
<1>4. a \in S
  BY <1>1, <1>3, PublicHalf, EmittableBytes DEF Encodable
<1>5. private => b \in S
  BY <1>2, <1>3, EmittableBytes DEF EmitsMlDsa
<1>6. Common(k) \in Seq(S)
  BY <1>2, CommonEmittable
<1>7. Map(k, o, public) = AkpMap(k, o, private)
  BY DEF Map
<1> HIDE DEF S, private, a, b
<1>8. Map(k, o, public) = Common(k) \o <<a>> \o (IF private THEN <<b>> ELSE <<>>)
  BY <1>7 DEF AkpMap, a, b
<1>9. CASE private
  BY <1>4, <1>5, <1>6, <1>8, <1>9 DEF S
<1>10. CASE ~ private
  BY <1>4, <1>6, <1>8, <1>10 DEF S
<1> QED BY <1>9, <1>10

LEMMA LmsEmittable ==
    ASSUME NEW k, NEW o, NEW public, Encodable(k, o), EncodeCode(k, o, public) = "ok",
           k.kty = "HSS-LMS"
    PROVE  Map(k, o, public) \in Seq(Emittable(k, public))
<1> DEFINE S == Emittable(k, public)
           a == Bytes("-1", o.pub, o.n)
<1>1. NoPublic(o) = "ok"
  <2> DEFINE w == Fails(k.att # "lms", "key")
             x == NoObject(k)
             y == Fails(k.alg \notin {"unset", "HSS-LMS"}, "alg")
             z == Fails(~ Holds(o, "pub"), "key")
  <2>1. First(<<w, x, y, z>>) = "ok"
    BY DEF EncodeCode, LmsEncodeCode
  <2> HIDE DEF w, x, y, z
  <2>2. z = "ok"
    BY <2>1, FourOf
  <2> QED BY <2>2 DEF z, NoPublic, Fails
<1>2. k \in Key /\ k.alg \in DOMAIN AlgInt /\ "-1" \in STRING /\ ~ Secret(k.kty, "-1")
  BY NamesAssumption DEF Encodable, KeyFits, Members, Secret
<1>3. a \in S /\ Common(k) \in Seq(S)
  BY <1>1, <1>2, PublicHalf, EmittableBytes, CommonEmittable DEF Encodable
<1>4. Map(k, o, public) = Common(k) \o <<a>>
  BY DEF Map, LmsMap
<1> HIDE DEF S, a
<1> QED BY <1>3, <1>4 DEF S

LEMMA SymmetricEmittable ==
    ASSUME NEW k, NEW o, NEW public, Encodable(k, o), EncodeCode(k, o, public) = "ok",
           k.kty = "Symmetric", k.hasPrivate
    PROVE  Map(k, o, public) \in Seq(Emittable(k, public))
<1> DEFINE S == Emittable(k, public)
           a == Bytes("-1", k.union.val, k.union.len)
<1>1. ~ public /\ k.union.val # "NULL" /\ ~ k.signCb
  BY DEF EncodeCode, SymmetricEncodeCode, Fails
<1>2. k.union.val # "object"
  <2>1. o.kind \in Kinds
    BY DEF Encodable, ObjFits, Object
  <2> QED BY <1>1, <2>1 DEF Encodable, Misreads, Reads, Member, Kinds
<1>3. /\ k \in Key /\ k.alg \in DOMAIN AlgInt /\ "-1" \in STRING /\ PairName(k.union.val)
      /\ k.union.val \in STRING /\ k.union.len \in Nat
  BY <1>2, NamesAssumption DEF Encodable, KeyFits, Members, PairName, Key, Kid
<1>4. a \in S /\ Common(k) \in Seq(S)
  BY <1>1, <1>3, EmittableBytes, CommonEmittable DEF KeyEmitsPrivate
<1>5. Map(k, o, public) = Common(k) \o <<a>>
  BY DEF Map, SymmetricMap
<1> HIDE DEF S, a
<1> QED BY <1>4, <1>5 DEF S

LEMMA MapEmittable ==
    ASSUME NEW k, NEW o, NEW public, Encodable(k, o), EncodeCode(k, o, public) = "ok",
           k.kty = "Symmetric" => k.hasPrivate
    PROVE  Map(k, o, public) \in Seq(Emittable(k, public))
<1>1. k.kty \in {"EC2", "RSA", "AKP", "HSS-LMS", "OKP", "Symmetric"}
  BY DEF EncodeCode
<1> QED BY <1>1, Ec2KeyEmittable, RsaEmittable, AkpEmittable, LmsEmittable, OkpEmittable,
           SymmetricEmittable

LEMMA Ec2CurveCodes == ASSUME NEW k, NEW o PROVE Ec2Curve(k, o) \in Codes
<1> DEFINE a == Fails(k.crv \notin DOMAIN CrvSize, "alg")
           b == Fails(k.crv \in DOMAIN CrvSize /\ o.n # CrvSize[k.crv], "key")
<1>1. {a, b} \subseteq Codes
  BY DEF Fails, Codes
<1> HIDE DEF a, b
<1>2. First(<<a, b>>) \in {"ok", a, b}
  BY PairOf
<1> QED BY <1>1, <1>2 DEF Ec2Curve, a, b, Codes

LEMMA OkpCurveCodes == ASSUME NEW k PROVE OkpCurve(k) \in Codes
<1> DEFINE a == Fails(k.crv \notin OkpCurves, "alg")
<1>1. {a, NoObject(k)} \subseteq Codes
  BY DEF Fails, Codes, NoObject
<1> HIDE DEF a
<1>2. First(<<a, NoObject(k)>>) \in {"ok", a, NoObject(k)}
  BY PairOf
<1> QED BY <1>1, <1>2 DEF OkpCurve, a, Codes

LEMMA EncodeCodes == ASSUME NEW k, NEW o, NEW public PROVE EncodeCode(k, o, public) \in Codes
<1> DEFINE x == NoObject(k)
           y == NoPublic(o)
<1>1. x \in Codes /\ y \in Codes /\ "ok" \in Codes
  BY DEF NoObject, NoPublic, Fails, Codes
<1> HIDE DEF x, y
<1>2. \A private : Ec2EncodeCode(k, o, private) \in Codes
  <2> TAKE private
  <2> DEFINE b == IF Ec2Curve(k, o) = "alg" THEN "alg" ELSE NoPublic(o)
             d == Fails(private /\ ~ Holds(o, "priv"), "crypto")
  <2>1. b \in Codes /\ d \in Codes
    BY <1>1 DEF Codes, Fails, y
  <2> HIDE DEF b, d
  <2>2. First(<<x, b, Ec2Curve(k, o), d>>) \in {"ok", x, b, Ec2Curve(k, o), d}
    BY FourOf
  <2> QED BY <1>1, <2>1, <2>2, Ec2CurveCodes DEF Ec2EncodeCode, b, d, x
<1>3. \A private : RsaEncodeCode(k, o, private) \in Codes
  <2> TAKE private
  <2> DEFINE d == Fails(private /\ o.n % 2 = 1, "crypto")
  <2>1. d \in Codes
    BY DEF Codes, Fails
  <2> HIDE DEF d
  <2>2. First(<<x, y, d>>) \in {"ok", x, y, d}
    BY TripleOf
  <2> QED BY <1>1, <2>1, <2>2 DEF RsaEncodeCode, d, x, y
<1>4. AkpEncodeCode(k, o) \in Codes
  <2> DEFINE d == Fails(k.alg = "unset", "alg")
  <2>1. d \in Codes
    BY DEF Codes, Fails
  <2> HIDE DEF d
  <2>2. First(<<x, d, y>>) \in {"ok", x, d, y}
    BY TripleOf
  <2> QED BY <1>1, <2>1, <2>2 DEF AkpEncodeCode, d, x, y
<1>5. LmsEncodeCode(k, o) \in Codes
  <2> DEFINE a == Fails(k.att # "lms", "key")
             c == Fails(k.alg \notin {"unset", "HSS-LMS"}, "alg")
             d == Fails(~ Holds(o, "pub"), "key")
  <2>1. {a, c, d} \subseteq Codes
    BY DEF Codes, Fails
  <2> HIDE DEF a, c, d
  <2>2. First(<<a, x, c, d>>) \in {"ok", a, x, c, d}
    BY FourOf
  <2> QED BY <1>1, <2>1, <2>2 DEF LmsEncodeCode, a, c, d, x
<1>6. First(<<OkpCurve(k), NoPublic(o)>>) \in Codes
  BY <1>1, PairOf, OkpCurveCodes DEF y
<1>7. SymmetricEncodeCode(k, public) \in Codes /\ "key" \in Codes
  BY DEF SymmetricEncodeCode, Fails, Codes
<1> QED BY <1>2, <1>3, <1>4, <1>5, <1>6, <1>7 DEF EncodeCode

LEMMA RoomCodes == ASSUME NEW k, NEW map, NEW room PROVE RoomCode(k, map, room) \in Codes
BY DEF RoomCode, Codes

LEMMA EmitStep ==
    ASSUME IInv, NEW call \in {"encode", "raw"}, NEW code \in Codes, NEW map, NEW k, NEW o,
           NEW public, Emit(call, code, map, k, o, public), pc = "idle",
           code = "ok" => map \in Seq(Emittable(k, public))
    PROVE  IInv'
<1>1. /\ pc' = "idle" /\ op' = call /\ ret' = code /\ Rest /\ UNCHANGED <<key, obj, entrusted, kept>>
  BY DEF Emit, Return, ghosts
<1>2. KeyFits(key, obj) /\ ObjFits(obj) /\ Trusted(key, obj, entrusted)
  BY DEF IInv, Keyed, Trust
<1>3. KeyFits(key', obj') /\ ObjFits(obj')
  BY <1>1, <1>2
<1>4. Trusted(key', obj', entrusted')
  BY <1>1, <1>2
<1>5. key'.signCb => kept' = <<key'.hasPrivate, key'.union, obj'>>
  BY <1>1 DEF IInv, Delegated
<1>6. Emitted'
  <2>1. CASE code = "ok"
    <3>1. out' = map /\ sent'.key = k /\ sent'.public = public
      BY <2>1 DEF Emit
    <3>2. out' \in Seq(Emittable(sent'.key, sent'.public))
      BY <2>1, <3>1
    <3> QED BY <3>2 DEF Emitted, Emittable
  <2>2. CASE code # "ok"
    <3>1. out' = <<>>
      BY <2>2 DEF Emit
    <3>2. out' \in Seq(Emittable(sent'.key, sent'.public))
      BY <3>1
    <3> QED BY <3>2 DEF Emitted, Emittable
  <2> QED BY <2>1, <2>2
<1> QED BY <1>1, <1>3, <1>4, <1>5, <1>6, IdleStep

LEMMA EncodeStep == ASSUME IInv, NEW public \in BOOLEAN, NEW room, Encode(public, room) PROVE IInv'
<1>1. pc = "idle" /\ entrusted # "failed"
  BY DEF Encode
<1>2. KeyFits(key, obj) /\ ObjFits(obj) /\ Trusted(key, obj, entrusted)
  BY <1>1 DEF IInv, Keyed, Trust
<1>3. CASE Misreads(key, obj)
  <2>1. PICK code \in {"ok", "crypto", "key", "small"} :
            Emit("encode", code, <<>>, key, obj, public)
    BY <1>3 DEF Encode
  <2>2. code \in Codes /\ <<>> \in Seq(Emittable(key, public))
    BY DEF Codes
  <2> QED BY <1>1, <2>1, <2>2, EmitStep
<1>4. CASE ~ Misreads(key, obj)
  <2> DEFINE code == EncodeExCode(key, obj, public, room)
             map  == Map(key, obj, public)
  <2>1. Emit("encode", code, map, key, obj, public)
    BY <1>4 DEF Encode
  <2>2. code \in Codes
    BY EncodeCodes, RoomCodes DEF EncodeExCode
  <2>3. code = "ok" => map \in Seq(Emittable(key, public))
    <3>1. code = "ok" => EncodeCode(key, obj, public) = "ok"
      BY DEF EncodeExCode
    <3>2. Encodable(key, obj)
      BY <1>2, <1>4 DEF Encodable, Trusted
    <3>3. key.kty = "Symmetric" => key.hasPrivate
      BY <1>1, <1>2 DEF Trusted
    <3> HIDE DEF code
    <3> QED BY <3>1, <3>2, <3>3, MapEmittable
  <2> HIDE DEF code, map
  <2> QED BY <1>1, <2>1, <2>2, <2>3, EmitStep
<1> QED BY <1>3, <1>4

LEMMA EncodeEccRawStep ==
    ASSUME IInv, NEW crv \in {"P256", "Ed25519"}, NEW len \in {32, 66}, NEW private \in BOOLEAN,
           NEW m \in Metas, NEW room, EncodeEccRaw(crv, len, "A", private, m.kid, m.alg, room)
    PROVE  IInv'
<1> DEFINE k == [Zero EXCEPT !.kty = "EC2", !.crv = crv, !.alg = m.alg, !.kid = m.kid,
                             !.hasPrivate = private]
           map == Ec2Map(k, "A", "A", len, private)
           o == [kind |-> "ecc", par |-> crv, n |-> len, e |-> 0, device |-> FALSE,
                 pub |-> "A", priv |-> IF private THEN "A" ELSE "none"]
           a == Fails(crv \notin Ec2Curves, "arg")
           b == Fails(crv \in Ec2Curves /\ len # CrvSize[crv], "arg")
           c == Fails(m.kid.val = "NULL" /\ m.kid.len # 0, "arg")
           d == RoomCode(k, map, room)
           code == First(<<a, b, c, d>>)
<1>1. pc = "idle" /\ Emit("raw", code, map, k, o, ~ private)
  BY DEF EncodeEccRaw
<1>2. code \in Codes
  <2>1. {a, b, c, d} \subseteq Codes
    BY RoomCodes DEF Codes, Fails
  <2> HIDE DEF a, b, c, d
  <2>2. First(<<a, b, c, d>>) \in {"ok", a, b, c, d}
    BY FourOf
  <2> QED BY <2>1, <2>2 DEF Codes
<1>3. map \in Seq(Emittable(k, ~ private))
  <2>1. m.kid \in Kid /\ m.alg \in STRING /\ m.alg \in DOMAIN AlgInt /\ {"A", "P256", "Ed25519", "EC2"} \subseteq STRING
    BY MetasAssumption, AlgsAssumption, NamesAssumption DEF CrvSize
  <2>2. Zero \in Key
    BY Blank
  <2>3. k \in Key /\ k.alg = m.alg /\ k.kty = "EC2" /\ k.hasPrivate = private /\ ~ k.signCb
    BY <2>1, <2>2 DEF Key, Zero
  <2>4. PairName("A") /\ len \in Nat
    BY DEF PairName
  <2> HIDE DEF k
  <2>5. private => KeyEmitsPrivate(k, ~ private)
    BY <2>3 DEF KeyEmitsPrivate
  <2> QED BY <2>1, <2>3, <2>4, <2>5, Ec2Emittable
<1> HIDE DEF k, map, o, code
<1> QED BY <1>1, <1>2, <1>3, EmitStep

LEMMA EncodeOneStep == ASSUME IInv, EncodeOne PROVE IInv'
BY EncodeStep, EncodeEccRawStep DEF EncodeOne

-----------------------------------------------------------------------------
(* Decoding, up to the last entry.                                         *)

LEMMA CandidateInput ==
    ASSUME IInv, NEW m \in Inputs \cup {[entries |-> out, tail |-> FALSE]}
    PROVE  GoodInput(m)
<1>1. CASE m \in Inputs
  BY <1>1, InputsAssumption DEF GoodInput
<1>2. CASE m = [entries |-> out, tail |-> FALSE]
  <2> DEFINE S == Emittable(sent.key, sent.public)
  <2>1. out \in Seq(S)
    BY DEF IInv, Emitted
  <2>2. \A e \in S : e \in Entry /\ Plain(e) /\ Known(e)
    BY DEF Emittable
  <2> HIDE DEF S
  <2>3. out \in Seq(Entry)
    BY <2>1, <2>2
  <2>4. \A i \in DOMAIN out : Plain(out[i]) /\ Known(out[i])
    BY <2>1, <2>2
  <2>5. m.entries = out /\ m \in Input
    BY <1>2, <2>3 DEF Input
  <2> QED BY <2>4, <2>5 DEF GoodInput
<1> QED BY <1>1, <1>2

\* Input that is to be decoded stays, or goes with its encoding.
LEMMA BeginEmitted ==
    ASSUME IInv, NEW m, DecodeBegin(m) PROVE Emitted'
BY Kept, Dropped DEF DecodeBegin

LEMMA ResetFits ==
    ASSUME KeyFits(key, obj)
    PROVE  /\ KeyFits(Reset, obj) /\ ~ Reset.hasPrivate /\ Reset.seed = "NULL"
           /\ Reset.kty = "0" /\ Reset.kid = NULL /\ Reset.alg = "unset" /\ Reset.crv = "0"
           /\ Reset.signCb = key.signCb
<1> DEFINE union == IF key.att = "none" THEN NULL ELSE key.union
<1>1. key \in Key /\ Zero \in Key /\ NULL \in Kid
  BY Blank DEF KeyFits
<1>2. union \in Kid
  BY <1>1 DEF Key
<1> HIDE DEF union
<1>3. /\ Reset \in Key /\ Reset.att = key.att /\ Reset.union = union
      /\ ~ Reset.hasPrivate /\ Reset.seed = "NULL"
      /\ Reset.kty = "0" /\ Reset.kid = NULL /\ Reset.alg = "unset" /\ Reset.crv = "0"
      /\ Reset.signCb = key.signCb
  BY <1>1, <1>2 DEF Reset, Key, Zero, union
<1>4. union.val # "none" /\ (key.att \in Kinds => union = key.union)
  BY DEF union, KeyFits, NULL, Kinds
<1> HIDE DEF Reset
<1>5. KeyFits(Reset, obj)
  BY <1>3, <1>4, AlgsAssumption DEF KeyFits, PairName
<1> QED BY <1>3, <1>5

LEMMA DecodeBeginStep ==
    ASSUME IInv, NEW m \in Inputs \cup {[entries |-> out, tail |-> FALSE]}, DecodeBegin(m)
    PROVE  IInv'
<1>1. /\ pc = "idle" /\ n' = 0 /\ mem' = NoMembers /\ badType' = FALSE /\ before' = obj
      /\ op' = "decode" /\ UNCHANGED <<obj, kept>>
  BY DEF DecodeBegin
<1>2. Emitted'
  BY BeginEmitted
<1>3. KeyFits(key, obj) /\ ObjFits(obj) /\ Trusted(key, obj, entrusted)
  BY <1>1 DEF IInv, Keyed, Trust
<1>4. CASE DecodeRefuses
  <2>1. pc' = "idle" /\ ret' = "key" /\ in' = NoInput /\ UNCHANGED <<key, entrusted>>
    BY <1>4 DEF DecodeBegin
  <2>2. Keyed'
    BY <1>1, <1>3, <2>1 DEF Keyed, ObjFits
  <2>3. Calls'
    BY <1>1, <2>1 DEF Calls, Codes
  <2>4. Reading'
    BY <1>1, <2>1, Blank DEF Reading, GoodInput
  <2>5. Trusted(key', obj', entrusted')
    BY <1>1, <1>3, <2>1
  <2>6. Trust' /\ Delegated' /\ Decoding'
    BY <1>1, <2>1, <2>5 DEF Trust, Trusted, Material, IInv, Delegated, Decoding
  <2>7. Described' /\ Gathered' /\ Completed' /\ FailedDecodeKeepsNothing'
    BY <1>4, <2>1 DEF Described, Gathered, Completed, Decodes, FailedDecodeKeepsNothing,
                      DecodeRefuses
  <2> QED BY <1>2, <2>2, <2>3, <2>4, <2>6, <2>7 DEF IInv
<1>5. CASE ~ DecodeRefuses
  <2>1. /\ key' = Reset /\ in' = m /\ entrusted' = "failed"
        /\ IF Len(m.entries) > MaxItems THEN pc' = "idle" /\ ret' = "cbor"
           ELSE pc' = "entry" /\ ret' = "ok"
    BY <1>5 DEF DecodeBegin
  <2>2. GoodInput(m)
    BY CandidateInput
  <2>3. /\ KeyFits(key', obj') /\ ~ key'.hasPrivate /\ key'.seed = "NULL" /\ ~ key'.signCb
        /\ key'.kty = "0" /\ key'.kid = NULL /\ key'.alg = "unset" /\ key'.crv = "0"
    BY <1>1, <1>3, <1>5, <2>1, ResetFits DEF DecodeRefuses
  <2>4. Keyed'
    BY <1>1, <1>3, <2>3 DEF Keyed, ObjFits, KeyFits
  <2>5. Calls'
    BY <1>1, <2>1 DEF Calls, Codes
  <2>6. Reading'
    <3>1. m.entries \in Seq(Entry)
      BY <2>2 DEF GoodInput, Input
    <3>2. 0 \in 0 .. Len(m.entries)
      BY <3>1
    <3> QED BY <1>1, <2>1, <2>2, <3>2, Blank DEF Reading, GoodInput
  <2>7. Trust' /\ Delegated' /\ Decoding'
    BY <1>1, <2>1, <2>3 DEF Trust, Trusted, Delegated, Decoding
  <2>8. Described'
    BY <1>1, <2>3 DEF Described
  <2>9. Gathered'
    BY <1>1, Blank DEF Gathered
  <2>10. Completed'
    BY <2>1 DEF Completed, Decodes
  <2>11. FailedDecodeKeepsNothing'
    BY <1>1, <2>3 DEF FailedDecodeKeepsNothing
  <2> QED BY <1>2, <2>4, <2>5, <2>6, <2>7, <2>8, <2>9, <2>10, <2>11 DEF IInv
<1> QED BY <1>4, <1>5

\* Of a call that is refused the description stays.
LEMMA RefuseStep ==
    ASSUME IInv, pc # "idle", NEW code \in Codes, code # "ok", Refuse(code),
           UNCHANGED <<in, before, op, out, sent, ghosts>>
    PROVE  IInv'
<1>1. /\ pc' = "idle" /\ ret' = code
      /\ UNCHANGED <<key, obj, n, mem, badType, in, before, op, out, sent, entrusted, kept>>
  BY DEF Refuse, ghosts
<1>2. /\ op = "decode" /\ obj = before /\ ~ key.hasPrivate /\ key.seed = "NULL"
      /\ entrusted = "failed" /\ ~ key.signCb
  BY DEF IInv, Decoding, Delegated
<1>3. Keyed'
  BY <1>1 DEF IInv, Keyed, KeyFits, ObjFits
<1>4. Calls'
  BY <1>1 DEF IInv, Calls
<1>5. Reading'
  BY <1>1 DEF IInv, Reading, GoodInput
<1>6. Emitted'
  BY <1>1 DEF IInv, Emitted, Emittable
<1>7. Trust' /\ Delegated' /\ Decoding'
  BY <1>1, <1>2 DEF Trust, Trusted, Delegated, Decoding
<1>8. Described' /\ Gathered' /\ Completed'
  BY <1>1 DEF Described, Gathered, Completed, Decodes
<1>9. FailedDecodeKeepsNothing'
  BY <1>1, <1>2 DEF FailedDecodeKeepsNothing
<1> QED BY <1>3, <1>4, <1>5, <1>6, <1>7, <1>8, <1>9 DEF IInv

LEMMA IntCodes ==
    ASSUME NEW e, NEW code \in Codes
    PROVE  /\ IntCode(e, code) \in Codes
           /\ IntCode(e, code) = "ok" => IsInt(e) /\ (code # "ok" => e.val # "big")
<1> DEFINE x == Fails(~ IsInt(e), "cbor")
           y == Fails(e.val = "big", code)
<1>1. x \in Codes /\ y \in Codes
  BY DEF Fails, Codes
<1>2. (x = "ok" => IsInt(e)) /\ (y = "ok" /\ code # "ok" => e.val # "big")
  BY DEF Fails
<1> HIDE DEF x, y
<1>3. /\ First(<<x, y>>) \in {"ok", x, y}
      /\ First(<<x, y>>) = "ok" => x = "ok" /\ y = "ok"
  BY PairOf
<1>4. IntCode(e, code) = First(<<x, y>>)
  BY DEF IntCode, x, y
<1> QED BY <1>1, <1>2, <1>3, <1>4 DEF Codes

LEMMA KtyCodes == ASSUME NEW e
                  PROVE  /\ KtyCode(e) \in Codes
                         /\ KtyCode(e) = "ok" => e.type = "uint" /\ e.val # "big"
<1> DEFINE x == Fails(e.type # "uint", "cbor")
           y == Fails(e.val = "big", "header")
<1>1. x \in Codes /\ y \in Codes
  BY DEF Fails, Codes
<1>2. (x = "ok" => e.type = "uint") /\ (y = "ok" => e.val # "big")
  BY DEF Fails
<1> HIDE DEF x, y
<1>3. /\ First(<<x, y>>) \in {"ok", x, y}
      /\ First(<<x, y>>) = "ok" => x = "ok" /\ y = "ok"
  BY PairOf
<1>4. KtyCode(e) = First(<<x, y>>)
  BY DEF KtyCode, x, y
<1> QED BY <1>1, <1>2, <1>3, <1>4 DEF Codes

LEMMA EntryCodes ==
    ASSUME NEW e
    PROVE  /\ EntryCode(e) \in Codes
           /\ EntryCode(e) = "ok" =>
                  /\ e.label = "kty" => e.type = "uint" /\ e.val # "big"
                  /\ e.label = "kid" => e.type = "bstr"
                  /\ e.label = "alg" => IsInt(e) /\ e.val # "big"
                  /\ e.label = "-1" /\ e.type # "bstr" => IsInt(e) /\ e.val # "big"
                  /\ e.label # "ops"
<1>1. {"alg", "header", "cbor", "unsupported", "ok"} \subseteq Codes
  BY DEF Codes
<1>2. IntCode(e, "alg") \in Codes /\ IntCode(e, "header") \in Codes /\ KtyCode(e) \in Codes
  BY <1>1, IntCodes, KtyCodes
<1>3. Fails(e.type # "bstr", "cbor") \in Codes
  BY DEF Fails, Codes
<1>4. EntryCode(e) \in Codes
  BY <1>1, <1>2, <1>3 DEF EntryCode
<1>5. ASSUME EntryCode(e) = "ok", e.label = "kty" PROVE e.type = "uint" /\ e.val # "big"
  BY <1>5, KtyCodes DEF EntryCode
<1>6. ASSUME EntryCode(e) = "ok", e.label = "kid" PROVE e.type = "bstr"
  BY <1>6 DEF EntryCode, Fails
<1>7. ASSUME EntryCode(e) = "ok", e.label = "alg" PROVE IsInt(e) /\ e.val # "big"
  <2>1. IntCode(e, "alg") = "ok"
    BY <1>7 DEF EntryCode
  <2> QED BY <1>1, <2>1, IntCodes
<1>8. ASSUME EntryCode(e) = "ok", e.label = "-1", e.type # "bstr" PROVE IsInt(e) /\ e.val # "big"
  <2>1. IntCode(e, "header") = "ok"
    BY <1>8 DEF EntryCode
  <2> QED BY <1>1, <2>1, IntCodes
<1>9. ASSUME EntryCode(e) = "ok" PROVE e.label # "ops"
  BY <1>9 DEF EntryCode
<1> QED BY <1>4, <1>5, <1>6, <1>7, <1>8, <1>9

\* No two of the accepted entries have the same label.
LEMMA LabelCodes ==
    ASSUME NEW entries \in Seq(Entry), NEW i \in 1 .. Len(entries)
    PROVE  LET code == LabelCode(entries[i], SubSeq(entries, 1, i - 1))
           IN  /\ code \in Codes
               /\ code = "ok" => /\ \A j \in 1 .. i - 1 : entries[j].label # entries[i].label
                                 /\ entries[i].label # "text" /\ entries[i].type # "bad"
<1> DEFINE earlier == SubSeq(entries, 1, i - 1)
<1>1. DOMAIN earlier = 1 .. i - 1 /\ \A j \in 1 .. i - 1 : earlier[j] = entries[j]
  BY SubSeqProperties
<1> HIDE DEF earlier
<1>2. LabelCode(entries[i], earlier) \in Codes
  BY DEF LabelCode, Fails, Codes
<1>3. LabelCode(entries[i], earlier) = "ok" =>
          /\ \A j \in DOMAIN earlier : earlier[j].label # entries[i].label
          /\ entries[i].label # "text" /\ entries[i].type # "bad"
  BY DEF LabelCode, Fails
<1> QED BY <1>1, <1>2, <1>3 DEF earlier

\* Where an accepted entry goes, field by field.
LEMMA TakeFields ==
    ASSUME key \in Key, mem \in [Members -> Kid], badType \in BOOLEAN, NEW e \in Entry, Take(e),
           EntryCode(e) = "ok"
    PROVE  /\ key' \in Key
           /\ key'.kty = IF e.label = "kty" THEN e.val ELSE key.kty
           /\ key'.kid = IF e.label = "kid" THEN ByteString(e) ELSE key.kid
           /\ key'.alg = IF e.label = "alg" THEN e.val ELSE key.alg
           /\ key'.crv = IF e.label = "-1" /\ e.type # "bstr" THEN e.val ELSE key.crv
           /\ key'.union = key.union /\ key'.att = key.att /\ key'.seed = key.seed
           /\ key'.hasPrivate = key.hasPrivate /\ key'.signCb = key.signCb
           /\ mem' \in [Members -> Kid]
           /\ \A l \in Members : mem'[l] = IF e.label = l /\ e.type = "bstr" THEN ByteString(e)
                                           ELSE mem[l]
           /\ badType' \in BOOLEAN
           /\ badType' = (badType \/ (e.label \in Deferred /\ e.type # "bstr"))
<1>1. e.val \in STRING /\ ByteString(e) \in Kid
  BY DEF Entry, ByteString, Kid
<1>2. CASE e.label = "kty"
  BY <1>1, <1>2 DEF Take, Key, Members, Deferred
<1>3. CASE e.label = "kid"
  BY <1>1, <1>3 DEF Take, Key, Members, Deferred
<1>4. CASE e.label = "alg"
  BY <1>1, <1>4 DEF Take, Key, Members, Deferred
<1>5. CASE e.label = "-1" /\ e.type # "bstr"
  BY <1>1, <1>5 DEF Take, Key, Members, Deferred
<1>6. CASE e.label \notin {"kty", "kid", "alg"} /\ ~ (e.label = "-1" /\ e.type # "bstr")
  <2>1. key' = key
    BY <1>6 DEF Take
  <2> QED BY <1>1, <1>6, <2>1 DEF Take
<1> QED BY <1>2, <1>3, <1>4, <1>5, <1>6

LEMMA TakeStep ==
    ASSUME IInv, pc = "entry", n < Len(in.entries),
           NEW e, e = in.entries[n + 1], LabelCode(e, SubSeq(in.entries, 1, n)) = "ok",
           EntryCode(e) = "ok", Take(e), n' = n + 1,
           UNCHANGED <<obj, pc, ret, in, before, op, out, sent, ghosts>>
    PROVE  IInv'
<1>1. /\ key \in Key /\ mem \in [Members -> Kid] /\ badType \in BOOLEAN /\ n \in Nat
      /\ GoodInput(in) /\ in.entries \in Seq(Entry) /\ n + 1 \in 1 .. Len(in.entries)
  BY DEF IInv, Keyed, KeyFits, Reading, GoodInput, Input
<1>2. e \in Entry /\ Plain(e) /\ Known(e)
  BY <1>1 DEF GoodInput
<1>3. \A j \in 1 .. n : in.entries[j].label # e.label
  <2>1. (n + 1) - 1 = n
    BY <1>1
  <2> QED BY <1>1, <2>1, LabelCodes
<1>4. /\ e.label = "kty" => e.type = "uint" /\ e.val # "big"
      /\ e.label = "kid" => e.type = "bstr"
      /\ e.label = "alg" => IsInt(e) /\ e.val # "big"
      /\ e.label = "-1" /\ e.type # "bstr" => IsInt(e) /\ e.val # "big"
  BY EntryCodes
<1>5. /\ key' \in Key
      /\ key'.kty = IF e.label = "kty" THEN e.val ELSE key.kty
      /\ key'.kid = IF e.label = "kid" THEN ByteString(e) ELSE key.kid
      /\ key'.alg = IF e.label = "alg" THEN e.val ELSE key.alg
      /\ key'.crv = IF e.label = "-1" /\ e.type # "bstr" THEN e.val ELSE key.crv
      /\ key'.union = key.union /\ key'.att = key.att /\ key'.seed = key.seed
      /\ key'.hasPrivate = key.hasPrivate /\ key'.signCb = key.signCb
  BY <1>1, <1>2, TakeFields
<1>6. /\ mem' \in [Members -> Kid]
      /\ \A l \in Members : mem'[l] = IF e.label = l /\ e.type = "bstr" THEN ByteString(e)
                                      ELSE mem[l]
      /\ badType' \in BOOLEAN
      /\ badType' = (badType \/ (e.label \in Deferred /\ e.type # "bstr"))
  BY <1>1, <1>2, TakeFields
<1>7. UNCHANGED <<obj, pc, ret, in, before, op, out, sent, entrusted, kept>>
  BY DEF ghosts
<1>8. \A i \in 1 .. n' : i \in 1 .. n \/ i = n + 1
  BY <1>1
<1>9. Keyed'
  <2>1. e.label = "alg" => e.val \in DOMAIN AlgInt
    BY <1>2, <1>4 DEF Known, IsInt
  <2>2. key'.alg \in DOMAIN AlgInt
    BY <1>5, <2>1 DEF IInv, Keyed, KeyFits
  <2> QED BY <1>4, <1>5, <1>7, <2>2 DEF IInv, Keyed, KeyFits, ObjFits
<1>10. Calls'
  BY <1>7 DEF IInv, Calls
<1>11. Reading'
  <2>1. n' \in 0 .. Len(in'.entries)
    BY <1>1, <1>7
  <2>2. \A l \in Members : PairName(mem'[l].val) /\ (mem'[l].len # 0 => mem'[l].val # "NULL")
    BY <1>2, <1>6 DEF IInv, Reading, Plain, ByteString
  <2> QED BY <1>1, <1>6, <1>7, <2>1, <2>2 DEF Reading, GoodInput
<1>12. Emitted'
  BY <1>7 DEF IInv, Emitted, Emittable
<1>13. Trust' /\ Delegated' /\ Decoding'
  BY <1>5, <1>7 DEF IInv, Trust, Delegated, Decoding
<1>14. Described'
  <2>1. Decodes /\ Decodes'
    BY <1>7 DEF IInv, Decoding, Decodes
  <2>2. \A i \in 1 .. n : Accepted(i) /\ Describes(key, in.entries[i])
    BY <2>1 DEF IInv, Described
  <2>3. \A i \in 1 .. n : Describes(key', in.entries[i])
    BY <1>3, <1>5, <2>2 DEF Describes
  <2>4. Accepted(n + 1) /\ Describes(key', in.entries[n + 1])
    <3>1. (n + 1) - 1 = n
      BY <1>1
    <3> QED BY <1>5, <3>1 DEF Accepted, Describes
  <2>5. \A i \in 1 .. n' : Accepted(i) /\ Describes(key', in.entries[i])
    BY <1>8, <2>2, <2>3, <2>4
  <2>6. \A i \in 1 .. n' : Accepted(i)' /\ Describes(key', in'.entries[i])
    BY <1>7, <2>5 DEF Accepted
  <2>7. /\ (\A i \in 1 .. n' : in'.entries[i].label # "kty") => key'.kty = "0"
        /\ (\A i \in 1 .. n' : in'.entries[i].label # "kid") => key'.kid = NULL
        /\ (\A i \in 1 .. n' : in'.entries[i].label # "alg") => key'.alg = "unset"
    BY <1>1, <1>5, <1>7, <2>1 DEF IInv, Described
  <2>8. (\A i \in 1 .. n' : in'.entries[i].label = "-1" => in'.entries[i].type = "bstr")
            => key'.crv = "0"
    BY <1>1, <1>5, <1>7, <2>1 DEF IInv, Described
  <2> QED BY <2>6, <2>7, <2>8 DEF Described, Describes
<1>15. Gathered'
  <2>1. /\ \A i \in 1 .. n : Provides(mem, in.entries[i])
        /\ (\E i \in 1 .. n : Spoils(in.entries[i])) => badType = TRUE
    BY DEF IInv, Gathered
  <2>2. /\ \A i \in 1 .. n' : Provides(mem', in.entries[i])
        /\ (\E i \in 1 .. n' : Spoils(in.entries[i])) => badType' = TRUE
    BY <1>1, <1>3, <1>6, <1>8, <2>1 DEF Provides, Spoils
  <2>3. \A l \in Members : (\A i \in 1 .. n' : in.entries[i].label # l) => mem'[l] = NULL
    <3>1. \A l \in Members : (\A i \in 1 .. n : in.entries[i].label # l) => mem[l] = NULL
      BY DEF IInv, Gathered
    <3>2. n + 1 \in 1 .. n' /\ \A i \in 1 .. n : i \in 1 .. n'
      BY <1>1
    <3> QED BY <1>6, <3>1, <3>2
  <2>4. in' = in
    BY <1>7
  <2>5. /\ \A i \in 1 .. n' : Provides(mem', in'.entries[i])
        /\ (\E i \in 1 .. n' : Spoils(in'.entries[i])) => badType' = TRUE
    BY <2>2, <2>4
  <2>6. \A l \in Members : (\A i \in 1 .. n' : in'.entries[i].label # l) => mem'[l] = NULL
    BY <2>3, <2>4
  <2> QED BY <2>5, <2>6 DEF Gathered, Provides, Spoils, ByteString
<1>16. Completed' /\ FailedDecodeKeepsNothing'
  BY <1>7 DEF IInv, Decoding, Completed, Decodes, FailedDecodeKeepsNothing
<1> QED BY <1>9, <1>10, <1>11, <1>12, <1>13, <1>14, <1>15, <1>16 DEF IInv

LEMMA DecodeEntryStep == ASSUME IInv, DecodeEntry PROVE IInv'
<1> DEFINE e == in.entries[n + 1]
           a == LabelCode(e, SubSeq(in.entries, 1, n))
           b == EntryCode(e)
           code == First(<<a, b>>)
<1>1. /\ pc = "entry" /\ n < Len(in.entries)
      /\ UNCHANGED <<in, before, op, out, sent, ghosts>>
      /\ IF code # "ok" THEN Refuse(code)
         ELSE Take(e) /\ n' = n + 1 /\ UNCHANGED <<obj, pc, ret>>
  BY DEF DecodeEntry
<1>2. a \in Codes /\ b \in Codes
  <2>1. in.entries \in Seq(Entry) /\ n + 1 \in 1 .. Len(in.entries) /\ (n + 1) - 1 = n
    BY <1>1 DEF IInv, Reading, GoodInput, Input
  <2> QED BY <2>1, LabelCodes, EntryCodes
<1> HIDE DEF e, a, b
<1>3. code \in {"ok", a, b} /\ (code = "ok" => a = "ok" /\ b = "ok")
  BY PairOf
<1>4. code \in Codes
  BY <1>2, <1>3 DEF Codes
<1> HIDE DEF code
<1>5. CASE code # "ok"
  BY <1>1, <1>4, <1>5, RefuseStep
<1>6. CASE code = "ok"
  BY <1>1, <1>3, <1>6, TakeStep DEF e, a, b
<1> QED BY <1>5, <1>6

-----------------------------------------------------------------------------
(* The checks behind the last entry.                                       *)

LEMMA RsaCodes ==
    /\ RsaCode \in Codes /\ (RsaCode = "ok" => ~ in.tail)
    /\ RsaCode = "ok" /\ key.att = "rsa" => mem["-1"].len # 0 /\ mem["-2"].len # 0
<1> DEFINE takes == key.att \in {"none", "rsa"}
           half == RsaHalf(mem["-1"].len)
           a == Fails(badType, "header")
           b == Fails(in.tail, "cbor")
           c == Fails(takes /\ (mem["-1"].len = 0 \/ mem["-2"].len = 0), "header")
           d == Fails(/\ Has("-3")
                      /\ \/ mem["-3"].len > mem["-1"].len
                         \/ \E l \in RsaPrivate \ {"-3"} : mem[l].len > half, "header")
           e == Fails(takes /\ (\E l \in RsaPrivate : Has(l)) /\ (\E l \in RsaPrivate : ~ Has(l)),
                      "header")
<1>1. {a, b, c, d, e} \subseteq Codes
  BY DEF Fails, Codes
<1>2. /\ b = "ok" => ~ in.tail
      /\ c = "ok" /\ key.att = "rsa" => mem["-1"].len # 0 /\ mem["-2"].len # 0
  BY DEF Fails
<1>3. RsaCode = First(<<a, b, c, d, e>>)
  BY Zenon DEF RsaCode
<1> HIDE DEF a, b, c, d, e
<1>4. /\ First(<<a, b, c, d, e>>) \in {"ok", a, b, c, d, e}
      /\ First(<<a, b, c, d, e>>) = "ok" => b = "ok" /\ c = "ok"
  BY FiveOf
<1> QED BY <1>1, <1>2, <1>3, <1>4 DEF Codes

LEMMA Ec2Codes == Ec2Code \in Codes /\ (Ec2Code = "ok" => key.crv \in Ec2Curves)
<1> DEFINE a == Fails((~ Has("-2") \/ ~ Has("-3")) /\ ~ Has("-4"), "header")
           b == Fails(key.crv \notin Ec2Curves, "alg")
           c == Fails(~ CoordinatesFit(Ec2Curves, {"-2", "-3", "-4"}), "header")
<1>1. {a, b, c} \subseteq Codes /\ (b = "ok" => key.crv \in Ec2Curves)
  BY DEF Fails, Codes
<1>2. Ec2Code = First(<<a, b, c>>)
  BY DEF Ec2Code
<1> HIDE DEF a, b, c
<1>3. /\ First(<<a, b, c>>) \in {"ok", a, b, c}
      /\ First(<<a, b, c>>) = "ok" => b = "ok"
  BY TripleOf
<1> QED BY <1>1, <1>2, <1>3 DEF Codes

LEMMA OkpCodes == OkpCode \in Codes /\ (OkpCode = "ok" => Has("-2") \/ Has("-4"))
<1> DEFINE a == Fails(~ Has("-2") /\ ~ Has("-4"), "header")
           b == Fails(key.crv \notin OkpCurves, "alg")
           c == Fails(~ CoordinatesFit(OkpCurves, {"-2", "-4"}), "header")
<1>1. {a, b, c} \subseteq Codes /\ (a = "ok" => Has("-2") \/ Has("-4"))
  BY DEF Fails, Codes
<1>2. OkpCode = First(<<a, b, c>>)
  BY DEF OkpCode
<1> HIDE DEF a, b, c
<1>3. First(<<a, b, c>>) \in {"ok", a, b, c} /\ (First(<<a, b, c>>) = "ok" => a = "ok")
  BY TripleOf
<1> QED BY <1>1, <1>2, <1>3 DEF Codes

LEMMA AkpCodes ==
    AkpCode \in Codes /\ (AkpCode = "ok" => key.alg \in DOMAIN MlDsaPubLen /\ Has("-1"))
<1> DEFINE a == Fails(key.alg \notin DOMAIN MlDsaPubLen, "alg")
           b == Fails(~ Has("-1"), "header")
           c == Fails(Has("-2") /\ mem["-2"].len # SeedSize, "header")
<1>1. /\ {a, b, c} \subseteq Codes
      /\ (a = "ok" => key.alg \in DOMAIN MlDsaPubLen) /\ (b = "ok" => Has("-1"))
  BY DEF Fails, Codes
<1>2. AkpCode = First(<<a, b, c>>)
  BY DEF AkpCode
<1> HIDE DEF a, b, c
<1>3. /\ First(<<a, b, c>>) \in {"ok", a, b, c}
      /\ First(<<a, b, c>>) = "ok" => a = "ok" /\ b = "ok"
  BY TripleOf
<1> QED BY <1>1, <1>2, <1>3 DEF Codes

LEMMA LmsCodes == LmsCode \in Codes /\ (LmsCode = "ok" => Has("-1"))
<1> DEFINE a == Fails(key.alg \notin {"unset", "HSS-LMS"}, "alg")
           b == Fails(~ Has("-1") \/ \E l \in {"-2", "-3", "-4"} : Has(l), "header")
<1>1. {a, b} \subseteq Codes /\ (b = "ok" => Has("-1"))
  BY DEF Fails, Codes
<1>2. LmsCode = First(<<a, b>>)
  BY DEF LmsCode
<1> HIDE DEF a, b
<1>3. First(<<a, b>>) \in {"ok", a, b} /\ (First(<<a, b>>) = "ok" => b = "ok")
  BY PairOf
<1> QED BY <1>1, <1>2, <1>3 DEF Codes

\* What is attached is of the type decoded, and what is to be imported is there.
Suits == /\ key.att # "none" => <<key.att, key.kty>> \in Attachable
         /\ key.kty = "EC2" => key.crv \in Ec2Curves
         /\ key.kty = "AKP" => key.alg \in DOMAIN MlDsaPubLen /\ Has("-1")
         /\ key.kty = "HSS-LMS" => Has("-1")
         /\ key.kty = "OKP" => Has("-2") \/ Has("-4")
         /\ key.kty = "RSA" /\ key.att = "rsa" => mem["-1"].len # 0 /\ mem["-2"].len # 0

LEMMA CheckCodes ==
    /\ CheckCode \in Codes
    /\ CheckCode = "ok" => key.kty # "0" /\ ~ in.tail /\ Suits
<1> DEFINE a == Fails(key.kty = "0", "header")
           b == IF key.kty = "RSA" THEN RsaCode ELSE Fails(in.tail, "cbor")
           c == IF key.kty = "EC2" THEN Ec2Code ELSE IF key.kty = "OKP" THEN OkpCode ELSE "ok"
           d == AttachedTypeCheck(key)
           e == IF key.kty = "AKP" THEN AkpCode ELSE IF key.kty = "HSS-LMS" THEN LmsCode ELSE "ok"
<1>1. a \in Codes /\ (a = "ok" => key.kty # "0")
  BY DEF Fails, Codes
<1>2. /\ b \in Codes /\ (b = "ok" => ~ in.tail)
      /\ b = "ok" /\ key.kty = "RSA" /\ key.att = "rsa" => mem["-1"].len # 0 /\ mem["-2"].len # 0
  <2>1. Fails(in.tail, "cbor") \in Codes /\ (Fails(in.tail, "cbor") = "ok" => ~ in.tail)
    BY DEF Fails, Codes
  <2> QED BY <2>1, RsaCodes
<1>3. /\ c \in Codes /\ (c = "ok" /\ key.kty = "EC2" => key.crv \in Ec2Curves)
      /\ c = "ok" /\ key.kty = "OKP" => Has("-2") \/ Has("-4")
  <2>1. "ok" \in Codes
    BY DEF Codes
  <2> QED BY <2>1, Ec2Codes, OkpCodes
<1>4. d \in Codes /\ (d = "ok" /\ key.att # "none" => <<key.att, key.kty>> \in Attachable)
  BY DEF AttachedTypeCheck, Fails, Codes
<1>5. /\ e \in Codes
      /\ e = "ok" /\ key.kty = "AKP" => key.alg \in DOMAIN MlDsaPubLen /\ Has("-1")
      /\ e = "ok" /\ key.kty = "HSS-LMS" => Has("-1")
  <2>1. "ok" \in Codes
    BY DEF Codes
  <2> QED BY <2>1, AkpCodes, LmsCodes
<1>6. CheckCode = First(<<a, b, c, d, e>>)
  BY Zenon DEF CheckCode
<1> HIDE DEF a, b, c, d, e
<1>7. /\ First(<<a, b, c, d, e>>) \in {"ok", a, b, c, d, e}
      /\ First(<<a, b, c, d, e>>) = "ok"
            => a = "ok" /\ b = "ok" /\ c = "ok" /\ d = "ok" /\ e = "ok"
  BY FiveOf
<1> QED BY <1>1, <1>2, <1>3, <1>4, <1>5, <1>6, <1>7 DEF Codes, Suits

LEMMA DecodeCheckStep == ASSUME IInv, DecodeCheck PROVE IInv'
<1>1. pc = "entry" /\ n = Len(in.entries) /\ UNCHANGED <<in, before, op, out, sent, ghosts>>
  BY DEF DecodeCheck
<1>2. CASE CheckCode # "ok"
  <2>1. Refuse(CheckCode)
    BY <1>2 DEF DecodeCheck
  <2> QED BY <1>1, <1>2, <2>1, CheckCodes, RefuseStep
<1>3. CASE CheckCode = "ok"
  <2>1. /\ pc' = "import"
        /\ UNCHANGED <<key, obj, n, mem, badType, ret, in, before, op, out, sent, entrusted, kept>>
    BY <1>1, <1>3 DEF DecodeCheck, ghosts
  <2>2. Keyed' /\ Calls' /\ Emitted'
    BY <2>1 DEF IInv, Keyed, KeyFits, ObjFits, Calls, Emitted, Emittable
  <2>3. Reading'
    BY <2>1 DEF IInv, Reading, GoodInput
  <2>4. Trust' /\ Delegated'
    BY <1>1, <2>1 DEF IInv, Trust, Delegated
  <2>5. CheckCode'= "ok"
    BY <1>3, <2>1 DEF CheckCode, RsaCode, Ec2Code, OkpCode, AkpCode, LmsCode, AttachedTypeCheck,
                      CoordinatesFit, Has, RsaHalf
  <2>6. Decoding'
    BY <1>1, <2>1, <2>5 DEF IInv, Decoding
  <2>7. Described'
    <3>1. \A i : Accepted(i)' = Accepted(i)
      BY <2>1 DEF Accepted
    <3> QED BY <2>1, <3>1 DEF IInv, Described, Decodes, Describes
  <2>8. Gathered'
    BY <1>1, <2>1 DEF IInv, Gathered, Provides, Spoils, ByteString
  <2>9. Completed' /\ FailedDecodeKeepsNothing'
    BY <1>1, <1>3, <2>1, CheckCodes DEF IInv, Completed, Decodes, FailedDecodeKeepsNothing
  <2> QED BY <2>2, <2>3, <2>4, <2>6, <2>7, <2>8, <2>9 DEF IInv
<1> QED BY <1>2, <1>3

-----------------------------------------------------------------------------
(* Importing.                                                              *)

Importing == /\ pc = "import" /\ pc' = "idle"
             /\ UNCHANGED <<in, n, mem, badType, before, op, out, sent, kept>>

\* The key keeps its description.
SameDescription == /\ key'.kty = key.kty /\ key'.kid = key.kid
                   /\ key'.alg = key.alg /\ key'.crv = key.crv

\* What a failure may leave.
Left(k, o) == /\ ~ k.hasPrivate /\ k.seed = "NULL"
              /\ o.priv \in {"none", before.priv}
              /\ o.kind = "ecc" /\ Has("-4") => o = before

LEMMA ImportStep ==
    ASSUME IInv, Importing, ret' \in Codes, KeyFits(key', obj'), ObjFits(obj'),
           Trusted(key', obj', entrusted'), ~ key'.signCb, SameDescription,
           ret' # "ok" => Left(key', obj')
    PROVE  IInv'
<1>1. Keyed'
  BY DEF Importing, IInv, Keyed, KeyFits, ObjFits
<1>2. Calls' /\ Emitted'
  BY DEF Importing, IInv, Calls, Emitted, Emittable
<1>3. Reading'
  BY DEF Importing, IInv, Reading, GoodInput
<1>4. Trust' /\ Delegated' /\ Decoding'
  BY DEF Importing, Trust, Trusted, Material, Delegated, Decoding
<1>5. Decodes' => Decodes
  BY DEF Importing, Decodes, IInv, Decoding
<1>6. Described'
  <2>1. \A i : Accepted(i)' = Accepted(i)
    BY DEF Importing, Accepted
  <2>2. /\ in' = in /\ n' = n /\ key'.kty = key.kty /\ key'.kid = key.kid
        /\ key'.alg = key.alg /\ key'.crv = key.crv
    BY DEF Importing, SameDescription
  <2>3. Described
    BY DEF IInv
  <2> QED BY <1>5, <2>1, <2>2, <2>3 DEF Described, Describes
<1>7. Gathered' /\ Completed'
  BY <1>5 DEF Importing, SameDescription, IInv, Gathered, Completed
<1>8. FailedDecodeKeepsNothing'
  <2>1. Has("-4")' = Has("-4") /\ before' = before
    BY DEF Importing, Has
  <2> QED BY <2>1 DEF FailedDecodeKeepsNothing, Left
<1> QED BY <1>1, <1>2, <1>3, <1>4, <1>6, <1>7, <1>8 DEF IInv

\* Before it the object is as it was, and the key has no private half.
LEMMA AtImport ==
    ASSUME IInv, Importing
    PROVE  /\ KeyFits(key, obj) /\ key \in Key /\ ObjFits(obj) /\ obj \in Object
           /\ obj = before /\ ret = "ok"
           /\ ~ key.hasPrivate /\ key.seed = "NULL" /\ ~ key.signCb /\ entrusted = "failed"
           /\ Suits
           /\ \A l \in Members : /\ mem[l] \in Kid /\ PairName(mem[l].val)
                                  /\ mem[l].val \in STRING /\ mem[l].len \in Nat
<1>1. pc = "import"
  BY DEF Importing
<1>2. CheckCode = "ok"
  BY <1>1 DEF IInv, Decoding
<1>3. Suits
  BY <1>2, CheckCodes
<1>4. \A l \in Members : mem[l] \in Kid /\ PairName(mem[l].val)
  BY DEF IInv, Reading
<1> QED BY <1>1, <1>3, <1>4 DEF IInv, Keyed, KeyFits, ObjFits, Decoding, Delegated, Kid

LEMMA NotImportedStep ==
    ASSUME IInv, Importing, NEW o, NEW code \in Codes, code # "ok", NotImported(o, code),
           ObjFits(o), o.kind = obj.kind, o.priv \in {"none", obj.priv},
           o.kind = "ecc" /\ Has("-4") => o = obj
    PROVE  IInv'
<1>1. obj' = o /\ ret' = code /\ UNCHANGED <<key, entrusted>>
  BY DEF NotImported
<1>2. KeyFits(key', obj')
  BY <1>1, AtImport DEF KeyFits
<1>3. Trusted(key', obj', entrusted') /\ ~ key'.signCb /\ SameDescription
  BY <1>1, AtImport DEF Trusted, SameDescription
<1>4. Left(key', obj')
  BY <1>1, AtImport DEF Left
<1> QED BY <1>1, <1>2, <1>3, <1>4, ImportStep

LEMMA ImportedStep ==
    ASSUME IInv, Importing, NEW o, NEW private \in BOOLEAN, Imported(o, private),
           ObjFits(o), o.kind = obj.kind, private => o.priv # "none",
           key.att \in Kinds, key.kty # "Symmetric"
    PROVE  IInv'
<1>1. /\ obj' = o /\ ret' = "ok" /\ entrusted' = IF private THEN o.priv ELSE "none"
      /\ key' = [key EXCEPT !.hasPrivate = private]
  BY DEF Imported
<1>2. /\ key' \in Key /\ SameDescription /\ key'.union = key.union /\ key'.att = key.att
      /\ key'.hasPrivate = private /\ key'.signCb = key.signCb /\ key'.seed = key.seed
  BY <1>1, AtImport DEF Key, SameDescription
<1>3. KeyFits(key', obj')
  BY <1>1, <1>2, AtImport DEF KeyFits, SameDescription
<1>4. Trusted(key', obj', entrusted')
  BY <1>1, <1>2, AtImport DEF Trusted, Material, KeyFits, SameDescription
<1>5. ret' \in Codes /\ ~ key'.signCb /\ (ret' # "ok" => Left(key', obj'))
  BY <1>1, <1>2, AtImport DEF Codes
<1>6. ObjFits(obj')
  BY <1>1
<1> QED BY <1>2, <1>3, <1>4, <1>5, <1>6, ImportStep

LEMMA ClearedFits ==
    ASSUME NEW o, ObjFits(o)
    PROVE  /\ ObjFits(Cleared(o)) /\ Cleared(o).kind = o.kind /\ Cleared(o).priv = "none"
           /\ Cleared(o).pub = "none"
BY NamesAssumption DEF ObjFits, Object, Cleared, Whole

\* An ECC object is rolled back to what it was: it had no private half.
LEMMA ImportEccStep ==
    ASSUME IInv, Importing, key.kty = "EC2", key.att = "ecc", ImportEcc PROVE IInv'
<1> DEFINE pub == IF Has("-2") /\ Has("-3") THEN mem["-2"].val ELSE "none"
           priv == IF Has("-4") THEN mem["-4"].val ELSE "none"
           filled == [obj EXCEPT !.par = key.crv, !.n = CrvSize[key.crv], !.pub = pub, !.priv = priv]
           begin == EccPrivateImportBegin
           undone == EccPrivateImportRollback(filled, obj)
<1>1. obj \in Object /\ ObjFits(obj) /\ obj.kind = "ecc"
  BY AtImport DEF KeyFits, Kinds
<1>2. key.crv \in STRING /\ CrvSize[key.crv] \in Nat
  <2>1. key.crv \in Ec2Curves
    BY AtImport DEF Suits
  <2> QED BY <2>1, AtImport DEF Ec2Curves, CrvSize, Key
<1>3. /\ pub \in STRING /\ pub # "object" /\ priv \in STRING /\ priv # "object"
      /\ pub # "NULL" /\ priv # "NULL"
      /\ Has("-4") => priv # "none"
  <2>1. "-2" \in Members /\ "-4" \in Members /\ "none" \in STRING
    BY NamesAssumption DEF Members
  <2> QED BY <2>1, AtImport DEF PairName, Has
<1> HIDE DEF pub, priv
<1>4. ObjFits(filled) /\ filled.kind = obj.kind /\ filled.priv = priv
  BY <1>1, <1>2, <1>3 DEF ObjFits, Object, Whole
<1>5. begin \in Codes /\ (begin = "ok" => obj.priv = "none")
  <2> DEFINE a == Fails(obj.n # 0 \/ Holds(obj, "pub") \/ Holds(obj, "priv"), "arg")
             b == Fails(obj.device, "unsupported")
  <2>1. a \in Codes /\ b \in Codes /\ (a = "ok" => obj.priv = "none")
    BY DEF Fails, Codes, Holds
  <2> HIDE DEF a, b
  <2>2. First(<<a, b>>) \in {"ok", a, b} /\ (First(<<a, b>>) = "ok" => a = "ok")
    BY PairOf
  <2> QED BY <2>1, <2>2 DEF EccPrivateImportBegin, a, b, Codes
<1>6. begin = "ok" => undone = obj
  <2>1. undone = [obj EXCEPT !.priv = "none"]
    BY <1>1 DEF EccPrivateImportRollback, Object
  <2> QED BY <1>1, <1>5, <2>1 DEF Object
<1> HIDE DEF filled, begin, undone
<1>7. \/ Has("-4") /\ begin # "ok" /\ NotImported(obj, begin)
      \/ Has("-4") /\ begin = "ok" /\ NotImported(undone, "crypto")
      \/ ~ Has("-4") /\ \E left \in {obj, Cleared(obj)} : NotImported(left, "crypto")
      \/ Imported(filled, Has("-4"))
  BY DEF ImportEcc, filled, begin, undone, pub, priv
<1>8. "crypto" \in Codes /\ "crypto" # "ok"
  BY DEF Codes
<1>9. CASE Has("-4") /\ begin # "ok" /\ NotImported(obj, begin)
  BY <1>1, <1>5, <1>9, NotImportedStep
<1>10. CASE Has("-4") /\ begin = "ok" /\ NotImported(undone, "crypto")
  BY <1>1, <1>6, <1>8, <1>10, NotImportedStep
<1>11. CASE ~ Has("-4") /\ \E left \in {obj, Cleared(obj)} : NotImported(left, "crypto")
  BY <1>1, <1>8, <1>11, ClearedFits, NotImportedStep
<1>12. CASE Imported(filled, Has("-4"))
  <2>1. Has("-4") \in BOOLEAN /\ key.att \in Kinds /\ key.kty # "Symmetric"
    BY DEF Has, Kinds
  <2> QED BY <1>3, <1>4, <1>12, <2>1, ImportedStep
<1> QED BY <1>7, <1>9, <1>10, <1>11, <1>12

LEMMA ImportRsaStep ==
    ASSUME IInv, Importing, key.kty = "RSA", key.att = "rsa", ImportRsa PROVE IInv'
<1> DEFINE private == \A l \in {"-3", "-4", "-5", "-8"} : Has(l)
           priv == IF private THEN mem["-3"].val ELSE "none"
           filled == [obj EXCEPT !.par = "rsa", !.n = mem["-1"].len, !.e = mem["-2"].len,
                                 !.pub = mem["-1"].val, !.priv = priv]
<1>1. obj \in Object /\ ObjFits(obj) /\ obj.kind = "rsa"
  BY AtImport DEF KeyFits, Kinds
<1>2. /\ mem["-1"].val \in STRING /\ PairName(mem["-1"].val) /\ "rsa" \in STRING
      /\ mem["-1"].len \in Nat /\ mem["-2"].len \in Nat
      /\ mem["-1"].len # 0 /\ mem["-2"].len # 0
      /\ priv \in STRING /\ priv # "object" /\ (private => priv # "none")
      /\ mem["-1"].val # "NULL" /\ priv # "NULL"
  <2>1. "-1" \in Members /\ "-2" \in Members /\ "-3" \in Members /\ {"none", "rsa"} \subseteq STRING
    BY NamesAssumption DEF Members
  <2>2. mem["-1"].len # 0 /\ mem["-2"].len # 0 /\ mem["-1"].val # "NULL"
    BY AtImport DEF Suits, IInv, Reading, Members
  <2>3. private => mem["-3"].val # "NULL"
    BY DEF Has
  <2> HIDE DEF private
  <2> QED BY <2>1, <2>2, <2>3, AtImport DEF PairName
<1> HIDE DEF priv
<1>3. ObjFits(filled) /\ filled.kind = obj.kind /\ filled.priv = priv
  BY <1>1, <1>2 DEF ObjFits, Object, PairName, Whole
<1>4. private \in BOOLEAN
  BY DEF Has
<1>5. NotImported(Cleared(obj), "crypto") \/ Imported(filled, private)
  BY DEF ImportRsa, priv
<1> HIDE DEF filled, private
<1>6. CASE NotImported(Cleared(obj), "crypto")
  BY <1>1, <1>6, ClearedFits, NotImportedStep DEF Codes
<1>7. CASE Imported(filled, private)
  <2>1. key.att \in Kinds /\ key.kty # "Symmetric"
    BY DEF Kinds
  <2> QED BY <1>2, <1>3, <1>4, <1>7, <2>1, ImportedStep
<1> QED BY <1>5, <1>6, <1>7

LEMMA ImportLmsStep ==
    ASSUME IInv, Importing, key.kty = "HSS-LMS", key.att = "lms", ImportLms PROVE IInv'
<1> DEFINE filled == [obj EXCEPT !.n = mem["-1"].len, !.pub = mem["-1"].val, !.priv = "none"]
<1>1. obj \in Object /\ ObjFits(obj) /\ obj.kind = "lms"
  BY AtImport DEF KeyFits, Kinds
<1>2. /\ mem["-1"].val \in STRING /\ PairName(mem["-1"].val) /\ mem["-1"].len \in Nat
      /\ mem["-1"].val # "NULL" /\ "none" \in STRING
  BY AtImport, NamesAssumption DEF Members, Suits, Has
<1>3. ObjFits(filled) /\ filled.kind = obj.kind
  BY <1>1, <1>2 DEF ObjFits, Object, PairName, Whole
<1>4. NotImported(obj, "crypto") \/ Imported(filled, FALSE)
  BY DEF ImportLms
<1> HIDE DEF filled
<1>5. CASE NotImported(obj, "crypto")
  BY <1>1, <1>5, NotImportedStep DEF Codes
<1>6. CASE Imported(filled, FALSE)
  <2>1. key.att \in Kinds /\ key.kty # "Symmetric" /\ FALSE \in BOOLEAN
    BY DEF Kinds
  <2> QED BY <1>3, <1>6, <2>1, ImportedStep
<1> QED BY <1>4, <1>5, <1>6

LEMMA ImportOkpStep ==
    ASSUME IInv, Importing, key.kty = "OKP", key.att # "none", ImportOkp PROVE IInv'
<1> DEFINE half == [obj EXCEPT !.priv = mem["-4"].val]
           both == [half EXCEPT !.pub = mem["-2"].val]
           derived == [half EXCEPT !.pub = mem["-4"].val]
           public == [obj EXCEPT !.pub = mem["-2"].val]
           undone == [half EXCEPT !.priv = "none"]
<1>1. key.att \in {"ed25519", "ed448"}
  BY AtImport DEF Suits, Attachable
<1>2. obj \in Object /\ ObjFits(obj) /\ obj.kind = key.att /\ key.att \in Kinds
  BY <1>1, AtImport DEF KeyFits, Kinds
<1>3. /\ mem["-2"].val \in STRING /\ PairName(mem["-2"].val)
      /\ mem["-4"].val \in STRING /\ PairName(mem["-4"].val) /\ "none" \in STRING
  BY AtImport, NamesAssumption DEF Members
<1>4. /\ Has("-2") /\ Has("-4") => ObjFits(both)
      /\ both.kind = obj.kind /\ both.priv # "none"
      /\ Has("-4") => ObjFits(derived)
      /\ derived.kind = obj.kind /\ derived.priv # "none"
      /\ Has("-2") => ObjFits(public)
      /\ public.kind = obj.kind
      /\ ObjFits(undone) /\ undone.kind = obj.kind /\ undone.priv = "none"
  BY <1>1, <1>2, <1>3 DEF ObjFits, Object, PairName, Whole, Has
<1>5. \/ NotImported(obj, "alg")
      \/ \E left \in {obj, Cleared(obj)} : NotImported(left, "crypto")
      \/ Has("-2") /\ Has("-4") /\ Imported(both, TRUE)
      \/ NotImported(undone, "crypto")
      \/ Has("-4") /\ Imported(derived, TRUE)
      \/ Has("-2") /\ Imported(public, FALSE)
  BY AtImport DEF ImportOkp, OkpUndo, Suits
<1>6. {"alg", "crypto"} \subseteq Codes /\ TRUE \in BOOLEAN /\ FALSE \in BOOLEAN
  BY DEF Codes
<1> HIDE DEF both, derived, public, undone
<1>7. CASE NotImported(obj, "alg")
  BY <1>1, <1>2, <1>6, <1>7, NotImportedStep
<1>8. CASE \E left \in {obj, Cleared(obj)} : NotImported(left, "crypto")
  BY <1>1, <1>2, <1>6, <1>8, ClearedFits, NotImportedStep
<1>9. CASE NotImported(undone, "crypto")
  BY <1>1, <1>2, <1>4, <1>6, <1>9, NotImportedStep
<1>10. CASE Has("-2") /\ Has("-4") /\ Imported(both, TRUE)
  BY <1>2, <1>4, <1>6, <1>10, ImportedStep
<1>11. CASE Has("-4") /\ Imported(derived, TRUE)
  BY <1>2, <1>4, <1>6, <1>11, ImportedStep
<1>12. CASE Has("-2") /\ Imported(public, FALSE)
  BY <1>2, <1>4, <1>6, <1>12, ImportedStep
<1> QED BY <1>5, <1>7, <1>8, <1>9, <1>10, <1>11, <1>12

LEMMA ImportMlDsaStep ==
    ASSUME IInv, Importing, key.kty = "AKP", key.att = "mldsa", ImportMlDsa PROVE IInv'
<1> DEFINE level  == [Cleared(obj) EXCEPT !.par = key.alg, !.n = MlDsaPubLen[key.alg]]
           public == [level EXCEPT !.pub = mem["-1"].val]
           pair   == [level EXCEPT !.pub = mem["-2"].val, !.priv = mem["-2"].val]
           undone == MlDsaImportRollback(pair)
           whole  == /\ obj' = pair
                     /\ key' = [key EXCEPT !.hasPrivate = TRUE, !.seed = mem["-2"].val]
                     /\ ret' = "ok"
                     /\ entrusted' = pair.priv
<1>1. obj \in Object /\ ObjFits(obj) /\ obj.kind = "mldsa" /\ key.att \in Kinds
  BY AtImport DEF KeyFits, Kinds
<1>2. key.alg \in STRING /\ key.alg \in DOMAIN MlDsaPubLen /\ MlDsaPubLen[key.alg] \in Nat
  <2>1. key.alg \in DOMAIN MlDsaPubLen
    BY AtImport DEF Suits
  <2> QED BY <2>1, AtImport, AlgsAssumption DEF Key
<1>3. /\ mem["-1"].val \in STRING /\ PairName(mem["-1"].val) /\ mem["-1"].val # "NULL"
      /\ mem["-2"].val \in STRING /\ PairName(mem["-2"].val)
  BY AtImport DEF Members, Suits, Has
<1>4. /\ ObjFits(level) /\ level \in Object /\ level.kind = obj.kind /\ level.priv = "none"
      /\ level.par = key.alg /\ level.n = MlDsaPubLen[key.alg]
  BY <1>1, <1>2, ClearedFits DEF ObjFits, Object, Whole
<1> HIDE DEF level
<1>5. /\ ObjFits(public) /\ public.kind = obj.kind /\ public.priv = "none"
      /\ mem["-2"].val # "NULL" => ObjFits(pair)
      /\ pair.kind = obj.kind /\ pair.priv = mem["-2"].val
  BY <1>1, <1>2, <1>3, <1>4 DEF ObjFits, Object, PairName, Whole
<1> HIDE DEF public, pair
<1>0. Has("-2") => mem["-2"].val # "NULL"
  BY DEF Has
<1>6. Has("-2") => ObjFits(undone) /\ undone.kind = obj.kind /\ undone.priv = "none"
  BY <1>0, <1>5, ClearedFits DEF MlDsaImportRollback
<1>7. \/ NotImported(obj, "header")
      \/ \E left \in {obj, level} : NotImported(left, "crypto")
      \/ Imported(public, FALSE)
      \/ Has("-2") /\ NotImported(undone, "crypto")
      \/ Has("-2") /\ NotImported(undone, "header")
      \/ Has("-2") /\ whole
  BY DEF ImportMlDsa, level, public, pair
<1>8. {"header", "crypto"} \subseteq Codes /\ FALSE \in BOOLEAN
  BY DEF Codes
<1> HIDE DEF whole, undone
<1>9. CASE NotImported(obj, "header")
  BY <1>1, <1>8, <1>9, NotImportedStep
<1>10. CASE \E left \in {obj, level} : NotImported(left, "crypto")
  BY <1>1, <1>4, <1>8, <1>10, NotImportedStep
<1>11. CASE Imported(public, FALSE)
  BY <1>1, <1>5, <1>8, <1>11, ImportedStep
<1>12. CASE Has("-2") /\ NotImported(undone, "crypto")
  BY <1>1, <1>6, <1>8, <1>12, NotImportedStep
<1>13. CASE Has("-2") /\ NotImported(undone, "header")
  BY <1>1, <1>6, <1>8, <1>13, NotImportedStep
<1>14. CASE Has("-2") /\ whole
  <2>1. /\ obj' = pair /\ ret' = "ok" /\ entrusted' = pair.priv
        /\ key' = [key EXCEPT !.hasPrivate = TRUE, !.seed = mem["-2"].val]
    BY <1>14 DEF whole
  <2>2. /\ key' \in Key /\ SameDescription /\ key'.union = key.union /\ key'.att = key.att
        /\ key'.hasPrivate /\ key'.signCb = key.signCb /\ key'.seed = mem["-2"].val
    BY <1>3, <2>1, AtImport DEF Key, SameDescription
  <2>0. ObjFits(pair)
    BY <1>0, <1>5, <1>14
  <2>3. KeyFits(key', obj')
    BY <1>3, <1>5, <2>1, <2>2, AtImport DEF KeyFits, SameDescription
  <2>4. Trusted(key', obj', entrusted')
    BY <1>1, <1>3, <1>5, <2>1, <2>2, AtImport DEF Trusted, Material, KeyFits, PairName
  <2>5. ret' \in Codes /\ ~ key'.signCb /\ (ret' # "ok" => Left(key', obj')) /\ ObjFits(obj')
    BY <2>0, <2>1, <2>2, AtImport DEF Codes
  <2> QED BY <2>2, <2>3, <2>4, <2>5, ImportStep
<1> QED BY <1>7, <1>9, <1>10, <1>11, <1>12, <1>13, <1>14

LEMMA ImportSymmetricStep ==
    ASSUME IInv, Importing, key.kty = "Symmetric", ImportSymmetric PROVE IInv'
<1>1. key.att \notin Kinds
  BY AtImport DEF Suits, Attachable, Kinds
<1>2. CASE mem["-1"].len = 0
  <2>1. NotImported(obj, "header")
    BY <1>2 DEF ImportSymmetric
  <2>2. ObjFits(obj)
    BY AtImport
  <2> QED BY <2>1, <2>2, NotImportedStep DEF Codes
<1>3. CASE mem["-1"].len # 0
  <2>1. /\ key' = [key EXCEPT !.union = mem["-1"], !.hasPrivate = TRUE]
        /\ ret' = "ok" /\ entrusted' = mem["-1"].val /\ obj' = obj
    BY <1>3 DEF ImportSymmetric
  <2>2. mem["-1"] \in Kid /\ PairName(mem["-1"].val)
    BY AtImport DEF Members
  <2>3. /\ key' \in Key /\ SameDescription /\ key'.union = mem["-1"] /\ key'.att = key.att
        /\ key'.hasPrivate /\ key'.signCb = key.signCb /\ key'.seed = key.seed
    BY <2>1, <2>2, AtImport DEF Key, SameDescription
  <2>4. KeyFits(key', obj')
    BY <1>1, <2>1, <2>2, <2>3, AtImport DEF KeyFits, SameDescription, PairName
  <2>5. Trusted(key', obj', entrusted')
    BY <2>1, <2>2, <2>3 DEF Trusted, Material, PairName
  <2>6. ret' \in Codes /\ ~ key'.signCb /\ (ret' # "ok" => Left(key', obj')) /\ ObjFits(obj')
    BY <2>1, <2>3, AtImport DEF Codes
  <2> QED BY <2>3, <2>4, <2>5, <2>6, ImportStep
<1> QED BY <1>2, <1>3

\* A key without an object only has its description.
LEMMA NoImportStep ==
    ASSUME IInv, Importing, key.kty # "Symmetric",
           entrusted' = "none" /\ UNCHANGED <<key, obj, ret>>
    PROVE  IInv'
<1>1. KeyFits(key', obj') /\ ObjFits(obj') /\ ret' \in Codes /\ ret' = "ok"
  BY AtImport DEF Codes
<1>2. Trusted(key', obj', entrusted') /\ ~ key'.signCb /\ SameDescription
  BY AtImport DEF Trusted, SameDescription
<1> QED BY <1>1, <1>2, ImportStep

LEMMA DecodeImportStep == ASSUME IInv, DecodeImport PROVE IInv'
<1>1. Importing
  BY DEF DecodeImport, Importing
<1>2. CASE key.kty = "EC2" /\ key.att = "ecc"
  BY <1>1, <1>2, ImportEccStep DEF DecodeImport
<1>3. CASE key.kty = "RSA" /\ key.att = "rsa"
  BY <1>1, <1>3, ImportRsaStep DEF DecodeImport
<1>4. CASE key.kty = "AKP" /\ key.att = "mldsa"
  BY <1>1, <1>4, ImportMlDsaStep DEF DecodeImport
<1>5. CASE key.kty = "HSS-LMS" /\ key.att = "lms"
  BY <1>1, <1>5, ImportLmsStep DEF DecodeImport
<1>6. CASE key.kty = "OKP" /\ key.att # "none"
  BY <1>1, <1>6, ImportOkpStep DEF DecodeImport
<1>7. CASE key.kty = "Symmetric"
  BY <1>1, <1>7, ImportSymmetricStep DEF DecodeImport
<1>8. CASE /\ ~ (key.kty = "EC2" /\ key.att = "ecc") /\ ~ (key.kty = "RSA" /\ key.att = "rsa")
           /\ ~ (key.kty = "AKP" /\ key.att = "mldsa")
           /\ ~ (key.kty = "HSS-LMS" /\ key.att = "lms")
           /\ ~ (key.kty = "OKP" /\ key.att # "none") /\ key.kty # "Symmetric"
  BY <1>1, <1>8, NoImportStep DEF DecodeImport
<1> QED BY <1>2, <1>3, <1>4, <1>5, <1>6, <1>7, <1>8

LEMMA DecodeStep == ASSUME IInv, Decode PROVE IInv'
BY DecodeBeginStep, DecodeEntryStep, DecodeCheckStep, DecodeImportStep DEF Decode

LEMMA NextStep == IInv /\ [Next]_vars => IInv'
<1> SUFFICES ASSUME IInv, [Next]_vars PROVE IInv'
  OBVIOUS
<1>1. CASE Next
  BY <1>1, SetStep, EncodeOneStep, DecodeStep DEF Next
<1>2. CASE UNCHANGED vars
  <2>1. UNCHANGED <<key, obj, pc, in, n, mem, badType, before, op, ret, out, sent, entrusted, kept>>
    BY <1>2 DEF vars, decoder, ghosts
  <2>2. Keyed' /\ Calls' /\ Emitted'
    BY <2>1 DEF IInv, Keyed, KeyFits, ObjFits, Calls, Emitted, Emittable
  <2>3. Reading'
    BY <2>1 DEF IInv, Reading, GoodInput
  <2>4. Trust' /\ Delegated'
    BY <2>1 DEF IInv, Trust, Trusted, Material, Delegated
  <2>5. CheckCode'= CheckCode
    BY <2>1 DEF CheckCode, RsaCode, Ec2Code, OkpCode, AkpCode, LmsCode, AttachedTypeCheck,
                CoordinatesFit, Has, RsaHalf
  <2>6. Decoding'
    BY <2>1, <2>5 DEF IInv, Decoding
  <2>7. Described'
    <3>1. \A i : Accepted(i)' = Accepted(i)
      BY <2>1 DEF Accepted
    <3> QED BY <2>1, <3>1 DEF IInv, Described, Decodes, Describes
  <2>8. Gathered'
    BY <2>1 DEF IInv, Gathered, Provides, Spoils, ByteString
  <2>9. Completed'
    BY <2>1 DEF IInv, Completed, Decodes
  <2>10. FailedDecodeKeepsNothing'
    BY <2>1 DEF IInv, FailedDecodeKeepsNothing, Has
  <2> QED BY <2>2, <2>3, <2>4, <2>6, <2>7, <2>8, <2>9, <2>10 DEF IInv
<1> QED BY <1>1, <1>2

\* Every state of every run satisfies it.
THEOREM AlwaysInv == Spec => []IInv
BY InitStep, NextStep, PTL DEF Spec

-----------------------------------------------------------------------------
(* What it establishes.                                                    *)

LEMMA TypeInv == IInv => TypeOK
<1> SUFFICES ASSUME IInv PROVE TypeOK
  OBVIOUS
<1> DEFINE S == Emittable(sent.key, sent.public)
<1>1. out \in Seq(S)
  BY DEF IInv, Emitted
<1>2. \A e \in S : e \in Entry
  BY DEF Emittable
<1> HIDE DEF S
<1>3. out \in Seq(Entry)
  BY <1>1, <1>2
<1> QED BY <1>3 DEF IInv, Keyed, KeyFits, ObjFits, Calls, Reading, GoodInput, Codes, Key, TypeOK

LEMMA OrderInv == IInv => OrderFree
<1> SUFFICES ASSUME IInv, pc # "idle"
             PROVE  OrderFree
  BY DEF OrderFree
<1>1. Decodes
  BY DEF IInv, Decoding, Decodes
<1>2. /\ \A i \in 1 .. n : Describes(key, in.entries[i])
      /\ (\A i \in 1 .. n : in.entries[i].label # "kty") => key.kty = "0"
      /\ (\A i \in 1 .. n : in.entries[i].label # "kid") => key.kid = NULL
      /\ (\A i \in 1 .. n : in.entries[i].label # "alg") => key.alg = "unset"
      /\ (\A i \in 1 .. n : in.entries[i].label # "-1") => key.crv = "0"
  BY <1>1 DEF IInv, Described
<1>3. /\ \A i \in 1 .. n : Provides(mem, in.entries[i])
      /\ (\E i \in 1 .. n : Spoils(in.entries[i])) => badType = TRUE
      /\ \A l \in Members : (\A i \in 1 .. n : in.entries[i].label # l) => mem[l] = NULL
  BY DEF IInv, Gathered
<1>4. \A i \in 1 .. n :
          LET e == in.entries[i]
          IN  /\ e.label = "kty" => key.kty = e.val
              /\ e.label = "kid" => key.kid = ByteString(e)
              /\ e.label = "alg" => key.alg = e.val
              /\ e.label = "-1" /\ e.type # "bstr" => key.crv = e.val
              /\ e.label \in Members /\ e.type = "bstr" => mem[e.label] = ByteString(e)
              /\ e.label \in Deferred /\ e.type # "bstr" => badType
  BY <1>2, <1>3 DEF Describes, Provides, Spoils
<1>5. LET labels == {in.entries[i].label : i \in 1 .. n}
      IN  /\ "kty" \notin labels => key.kty = "0"
          /\ "kid" \notin labels => key.kid = NULL
          /\ "alg" \notin labels => key.alg = "unset"
          /\ "-1" \notin labels => key.crv = "0"
          /\ \A l \in Members \ labels : mem[l] = NULL
  BY <1>2, <1>3
<1> QED BY <1>4, <1>5 DEF OrderFree

LEMMA SecretsInv == IInv => SecretsStay
<1> SUFFICES ASSUME IInv, NEW i \in DOMAIN out, Secret(sent.key.kty, out[i].label)
             PROVE  sent.key.hasPrivate /\ ~ sent.key.signCb /\ ~ sent.public
  BY DEF SecretsStay
<1> DEFINE S == Emittable(sent.key, sent.public)
<1>1. out \in Seq(S)
  BY DEF IInv, Emitted
<1> HIDE DEF S
<1>2. out[i] \in S
  BY <1>1
<1> QED BY <1>2 DEF S, Emittable, KeyEmitsPrivate

\* What an entry that decodes is to wc_CoseKey_PeekInfo.
LEMMA PeekEntry == ASSUME NEW e, EntryCode(e) = "ok" PROVE PeekEntryCode(e) = "ok"
BY DEF EntryCode, PeekEntryCode

\* Its search finds what the loop of wc_CoseKey_Decode has recorded.
LEMMA PeekFinds ==
    ASSUME IInv, Decodes, n = Len(in.entries)
    PROVE  PeekInfo(in) = [kty |-> key.kty, alg |-> key.alg, crv |-> key.crv, kid |-> key.kid]
<1> DEFINE D == DOMAIN in.entries
           all == {in.entries[i] : i \in D}
           entry(l, types) == {e \in all : e.label = l /\ e.type \in types}
           value(l, types, default) == IF entry(l, types) = {} THEN default
                                       ELSE (CHOOSE e \in entry(l, types) : TRUE).val
<1>1. D = 1 .. n
  BY DEF IInv, Reading, GoodInput, Input
<1>2. /\ \A e \in all : EntryCode(e) = "ok" /\ Describes(key, e)
      /\ (\A e \in all : e.label # "kty") => key.kty = "0"
      /\ (\A e \in all : e.label # "kid") => key.kid = NULL
      /\ (\A e \in all : e.label # "alg") => key.alg = "unset"
      /\ (\A e \in all : e.label = "-1" => e.type = "bstr") => key.crv = "0"
  BY <1>1 DEF IInv, Described, Accepted
<1> HIDE DEF all
<1>3. \A l, types : entry(l, types) # {} =>
          (CHOOSE e \in entry(l, types) : TRUE) \in entry(l, types)
  OBVIOUS
<1>4. value("kty", {"uint"}, "0") = key.kty
  BY <1>2, <1>3, EntryCodes DEF Describes
<1>5. value("alg", {"uint", "nint"}, "unset") = key.alg
  BY <1>2, <1>3, EntryCodes DEF Describes, IsInt
<1>6. value("-1", {"uint", "nint"}, "0") = key.crv
  <2>1. \A e \in entry("-1", {"uint", "nint"}) : key.crv = e.val
    BY <1>2 DEF Describes
  <2>2. entry("-1", {"uint", "nint"}) = {} => key.crv = "0"
    BY <1>2, EntryCodes DEF IsInt
  <2> QED BY <1>3, <2>1, <2>2
<1>7. (IF entry("kid", {"bstr"}) = {} THEN NULL
       ELSE ByteString(CHOOSE e \in entry("kid", {"bstr"}) : TRUE)) = key.kid
  BY <1>2, <1>3, EntryCodes DEF Describes
<1>8. PeekInfo(in) = [kty |-> value("kty", {"uint"}, "0"),
                      alg |-> value("alg", {"uint", "nint"}, "unset"),
                      crv |-> value("-1", {"uint", "nint"}, "0"),
                      kid |-> IF entry("kid", {"bstr"}) = {} THEN NULL
                              ELSE ByteString(CHOOSE e \in entry("kid", {"bstr"}) : TRUE)]
  BY DEF PeekInfo, all
<1> HIDE DEF value, entry
<1> QED BY <1>4, <1>5, <1>6, <1>7, <1>8

LEMMA PeekInv == IInv => PeekAgrees
<1> SUFFICES ASSUME IInv, Decoded(in)
             PROVE  /\ PeekCode(in) = "ok"
                    /\ PeekInfo(in) = [kty |-> key.kty, alg |-> key.alg, crv |-> key.crv,
                                       kid |-> key.kid]
  BY DEF PeekAgrees
<1>1. pc = "idle" /\ Decodes
  BY DEF Decoded, Decodes
<1>2. n = Len(in.entries) /\ key.kty # "0" /\ ~ in.tail /\ ~ (Len(in.entries) > MaxItems)
  BY <1>1 DEF IInv, Completed
<1>3. PeekInfo(in) = [kty |-> key.kty, alg |-> key.alg, crv |-> key.crv, kid |-> key.kid]
  BY <1>1, <1>2, PeekFinds
<1>4. PeekCode(in) = "ok"
  <2> DEFINE a == Fails(Len(in.entries) > MaxItems, "cbor")
             l(i) == LabelCode(in.entries[i], SubSeq(in.entries, 1, i - 1))
             p(i) == PeekEntryCode(in.entries[i])
             mid == [i \in DOMAIN in.entries |-> First(<<l(i), p(i)>>)]
             b == Fails(PeekInfo(in).kty = "0", "header")
             c == Fails(in.tail, "cbor")
  <2>1. a = "ok" /\ b = "ok" /\ c = "ok"
    BY <1>2, <1>3 DEF Fails
  <2>2. DOMAIN in.entries = 1 .. n /\ n \in Nat
    BY <1>2 DEF IInv, Reading, GoodInput, Input
  <2>3. \A i \in 1 .. n : l(i) = "ok" /\ p(i) = "ok"
    BY <1>1, PeekEntry DEF IInv, Described, Accepted
  <2>4. First(<<"ok", "ok">>) = "ok"
    BY PairOf
  <2> HIDE DEF l, p
  <2>5. mid \in Seq({"ok"})
    BY <2>2, <2>3, <2>4
  <2>6. PeekCode(in) = First(<<a>> \o mid \o <<b, c>>)
    BY DEF PeekCode, l, p
  <2> HIDE DEF a, b, c, mid
  <2>7. <<a>> \o mid \o <<b, c>> \in Seq({"ok"})
    BY <2>1, <2>5
  <2>8. First(<<a>> \o mid \o <<b, c>>) \in {"ok"} \cup {"ok"}
    BY <2>7, FirstOf
  <2> QED BY <2>6, <2>8
<1> QED BY <1>3, <1>4

-----------------------------------------------------------------------------
(* Sizes: where the encoder is after each entry, and how far it reaches.   *)

\* Heads and strings of any length.
LEMMA HeadSizes ==
    ASSUME NEW len \in Nat
    PROVE  /\ HeadSize(len) \in 1 .. 5 /\ BstrSize(len) \in Nat /\ BstrSize(len) >= len + 1
           /\ ReservedBstrSize(len) \in Nat /\ ReservedBstrSize(len) >= len + 2
           /\ ReservedBstrSize(len) <= len + 3
           /\ len >= 256 => ReservedBstrSize(len) = len + 3
BY DEF HeadSize, BstrSize, ReservedBstrSize

\* What EncodeInt writes is what the size counts, negative numbers included.
LEMMA IntSizes ==
    ASSUME NEW v \in Int
    PROVE  WrittenIntSize(v) = IntSize(v) /\ IntSize(v) \in 1 .. 5
<1>1. CASE v >= 0
  <2>1. WrittenIntSize(v) = HeadSize(v) /\ IntSize(v) = HeadSize(v) /\ v \in Nat
    BY <1>1 DEF WrittenIntSize, IntSize
  <2> QED BY <2>1, HeadSizes
<1>2. CASE ~ (v >= 0)
  <2>1. v < 0 /\ - (v + 1) = -1 - v /\ -1 - v \in Nat
    BY <1>2
  <2>2. WrittenIntSize(v) = HeadSize(- (v + 1)) /\ IntSize(v) = HeadSize(-1 - v)
    BY <1>2, <2>1 DEF WrittenIntSize, IntSize
  <2>3. HeadSize(-1 - v) \in 1 .. 5
    BY <2>1, HeadSizes
  <2> QED BY <2>1, <2>2, <2>3
<1> QED BY <1>1, <1>2

\* An entry whose size is known.
Sized(k, e) == e.len \in Nat /\ (e.label = "alg" /\ e.type # "bstr" => AlgInt[e.val] \in Int)

LEMMA EntrySizes ==
    ASSUME NEW k, NEW e, Sized(k, e)
    PROVE  EntrySize(k, e) \in Nat
<1>1. CASE e.type = "bstr"
  <2>1. BstrSize(e.len) \in Nat /\ ReservedBstrSize(e.len) \in Nat
    BY HeadSizes DEF Sized
  <2>2. EntrySize(k, e) = 1 + (IF Reserved(k, e) THEN ReservedBstrSize(e.len) ELSE BstrSize(e.len))
    BY <1>1 DEF EntrySize
  <2> QED BY <2>1, <2>2
<1>2. CASE e.type # "bstr" /\ e.label = "alg"
  <2>1. WrittenIntSize(AlgInt[e.val]) \in 1 .. 5
    BY <1>2, IntSizes DEF Sized
  <2>2. EntrySize(k, e) = 1 + WrittenIntSize(AlgInt[e.val])
    BY <1>2 DEF EntrySize
  <2> QED BY <2>1, <2>2
<1>3. CASE e.type # "bstr" /\ e.label # "alg"
  BY <1>3 DEF EntrySize
<1> QED BY <1>1, <1>2, <1>3

\* Each entry begins where the one before it ends.
LEMMA WrittenSteps ==
    ASSUME NEW k, NEW map, Len(map) \in Nat
    PROVE  /\ Written(k, map)[0] = HeadSize(Len(map))
           /\ \A i \in 1 .. Len(map) :
                  Written(k, map)[i] = Written(k, map)[i - 1] + EntrySize(k, map[i])
<1> DEFINE total == Len(map)
           a == HeadSize(total)
           g == [i \in 1 .. total |-> EntrySize(k, map[i])]
           U(f) == f = [i \in 0 .. total |->
                          IF i = 0 THEN HeadSize(Len(map)) ELSE f[i - 1] + EntrySize(k, map[i])]
<1>1. Written(k, map) = CHOOSE f : U(f)
  BY DEF Written
<1>2. \E f : U(f)
  <2>1. PICK f : PartialSums(total, a, g, f)
    <3> HIDE DEF a, g
    <3> QED BY SumsExist
  <2>2. \A i \in 0 .. total : i # 0 => g[i] = EntrySize(k, map[i])
    OBVIOUS
  <2>3. f = [i \in 0 .. total |-> IF i = 0 THEN a ELSE f[i - 1] + g[i]]
    BY <2>1 DEF PartialSums
  <2>4. [i \in 0 .. total |-> IF i = 0 THEN a ELSE f[i - 1] + g[i]]
            = [i \in 0 .. total |-> IF i = 0 THEN a ELSE f[i - 1] + EntrySize(k, map[i])]
    <3> HIDE DEF g, a, total
    <3> QED BY <2>2
  <2>5. U(f)
    <3> HIDE DEF g
    <3> QED BY <2>3, <2>4
  <2> QED BY <2>5
<1>3. U(Written(k, map))
  <2> HIDE DEF U
  <2> QED BY <1>1, <1>2
<1>4. 0 \in 0 .. total /\ \A i \in 1 .. total : i \in 0 .. total /\ i # 0
  OBVIOUS
<1> QED BY <1>3, <1>4

\* It never goes back.
LEMMA WrittenGrows ==
    ASSUME NEW k, NEW map, Len(map) \in Nat, \A i \in 1 .. Len(map) : Sized(k, map[i])
    PROVE  \A i \in 0 .. Len(map) : /\ Written(k, map)[i] \in Nat
                                    /\ \A j \in 0 .. i : Written(k, map)[j] <= Written(k, map)[i]
<1> DEFINE w == Written(k, map)
           total == Len(map)
           T == {i \in Nat : i <= total => /\ w[i] \in Nat
                                        /\ \A j \in 0 .. i : w[j] \in Nat /\ w[j] <= w[i]}
<1>1. w[0] \in Nat
  <2>1. w[0] = HeadSize(total) /\ HeadSize(total) \in 1 .. 5
    BY WrittenSteps, HeadSizes
  <2> QED BY <2>1
<1>2. \A i \in 1 .. total : w[i] = w[i - 1] + EntrySize(k, map[i]) /\ EntrySize(k, map[i]) \in Nat
  BY WrittenSteps, EntrySizes
<1> HIDE DEF w
<1>3. 0 \in T
  BY <1>1
<1>4. ASSUME NEW i \in Nat, i \in T PROVE i + 1 \in T
  <2> SUFFICES ASSUME i + 1 <= total
               PROVE  /\ w[i + 1] \in Nat
                      /\ \A j \in 0 .. (i + 1) : w[j] \in Nat /\ w[j] <= w[i + 1]
    BY <1>4
  <2>1. w[i] \in Nat /\ \A j \in 0 .. i : w[j] \in Nat /\ w[j] <= w[i]
    BY <1>4
  <2>2. i + 1 \in 1 .. total /\ (i + 1) - 1 = i
    OBVIOUS
  <2>3. w[i + 1] \in Nat /\ w[i] <= w[i + 1]
    BY <1>2, <2>1, <2>2
  <2> QED BY <2>1, <2>3
<1>5. Nat \subseteq T
  <2> HIDE DEF T
  <2> QED BY <1>3, <1>4, Induct
<1> QED BY <1>5 DEF w

\* There is room for a map just where every entry can be reached.
LEMMA RoomIs ==
    ASSUME NEW k, NEW map, NEW room, Len(map) \in Nat
    PROVE  RoomCode(k, map, room) = "ok"
               <=> \A i \in 1 .. Len(map) : ~ (Reach(k, map, i) > room)
BY DEF RoomCode, Misfits

\* The room that is needed, when the scratch space of a reserved head is within
\* it.
LEMMA ExactRoom ==
    ASSUME NEW k, NEW map, Len(map) \in Nat, Len(map) # 0,
           \A i \in 1 .. Len(map) : Sized(k, map[i]),
           \A i \in 1 .. Len(map) : Reserved(k, map[i]) => Reach(k, map, i) <= Encoded(k, map)
    PROVE  /\ Encoded(k, map) \in Nat
           /\ RoomCode(k, map, Encoded(k, map)) = "ok"
           /\ RoomCode(k, map, Encoded(k, map) - 1) # "ok"
<1> DEFINE w == Written(k, map)
           total == Len(map)
<1>1. \A i \in 0 .. total : w[i] \in Nat /\ \A j \in 0 .. i : w[j] <= w[i]
  BY WrittenGrows
<1>2. \A i \in 1 .. total : w[i] = w[i - 1] + EntrySize(k, map[i])
  BY WrittenSteps
<1>3. Encoded(k, map) = w[total]
  BY DEF Encoded
<1> HIDE DEF w
<1>4. \A i \in 1 .. total : Reach(k, map, i) =
          IF ~ Reserved(k, map[i]) THEN w[i]
          ELSE w[i - 1] + 1 + 3 + map[i].len
               + (IF map[i].label = "-3" THEN 8 + 2 * map[i].len ELSE 0)
  BY DEF Reach, w
<1>5. \A i \in 1 .. total : Reach(k, map, i) <= w[total]
  <2> TAKE i \in 1 .. total
  <2>1. i \in 0 .. total /\ total \in 0 .. total /\ i \in 0 .. total
    OBVIOUS
  <2>2. CASE ~ Reserved(k, map[i])
    BY <1>1, <1>4, <2>1, <2>2
  <2>3. CASE Reserved(k, map[i])
    BY <1>3, <2>3
  <2> QED BY <2>2, <2>3
<1>6. Reach(k, map, total) \in Int /\ Reach(k, map, total) >= w[total]
  <2>1. total \in 1 .. total /\ total \in 0 .. total /\ total - 1 \in 0 .. total
    OBVIOUS
  <2>2. w[total] \in Nat /\ w[total - 1] \in Nat /\ w[total] = w[total - 1] + EntrySize(k, map[total])
    BY <1>1, <1>2, <2>1
  <2>3. CASE ~ Reserved(k, map[total])
    BY <1>4, <2>1, <2>2, <2>3
  <2>4. CASE Reserved(k, map[total])
    <3>1. map[total].len \in Nat /\ map[total].label # "alg"
      BY <2>1, <2>4 DEF Sized, Reserved
    <3>2. EntrySize(k, map[total]) <= 1 + 3 + map[total].len
      <4>1. ReservedBstrSize(map[total].len) <= map[total].len + 3 /\ ReservedBstrSize(map[total].len) \in Nat
        BY <3>1, HeadSizes
      <4>2. EntrySize(k, map[total]) = 1 + (IF map[total].type = "bstr" THEN ReservedBstrSize(map[total].len)
                                        ELSE 1)
        BY <2>4, <3>1 DEF EntrySize
      <4> QED BY <3>1, <4>1, <4>2
    <3>3. EntrySize(k, map[total]) \in Nat
      BY <2>1, EntrySizes
    <3> DEFINE more == IF map[total].label = "-3" THEN 8 + 2 * map[total].len ELSE 0
    <3>4. Reach(k, map, total) = w[total - 1] + 1 + 3 + map[total].len + more
      BY <1>4, <2>1, <2>4
    <3>5. more \in Nat
      BY <3>1
    <3> HIDE DEF more
    <3> QED BY <2>2, <3>1, <3>2, <3>3, <3>4, <3>5
  <2> QED BY <2>3, <2>4
<1>7. w[total] \in Nat
  BY <1>1
<1>8. RoomCode(k, map, w[total]) = "ok"
  <2>1. \A i \in 1 .. total : Reach(k, map, i) \in Int
    <3> TAKE i \in 1 .. total
    <3>1. i \in 0 .. total /\ i - 1 \in 0 .. total
      OBVIOUS
    <3>2. w[i] \in Nat /\ w[i - 1] \in Nat /\ map[i].len \in Nat
      BY <1>1, <3>1 DEF Sized
    <3> DEFINE more == IF map[i].label = "-3" THEN 8 + 2 * map[i].len ELSE 0
    <3>3. more \in Nat
      BY <3>2
    <3>4. Reach(k, map, i) = IF ~ Reserved(k, map[i]) THEN w[i]
                             ELSE w[i - 1] + 1 + 3 + map[i].len + more
      BY <1>4
    <3> HIDE DEF more
    <3> QED BY <3>2, <3>3, <3>4
  <2>2. \A i \in 1 .. total : ~ (Reach(k, map, i) > w[total])
    BY <1>5, <1>7, <2>1
  <2> QED BY <2>2, RoomIs
<1>9. RoomCode(k, map, w[total] - 1) # "ok"
  <2>1. total \in 1 .. total /\ Reach(k, map, total) > w[total] - 1
    BY <1>6, <1>7
  <2> QED BY <2>1, RoomIs
<1> QED BY <1>3, <1>7, <1>8, <1>9

\* The three kinds of entry that keys have in common.
LEMMA CommonEntries ==
    ASSUME NEW k, NEW val, NEW len \in Nat, NEW alg, AlgInt[alg] \in Int
    PROVE  /\ EntrySize(k, Number("kty", val)) = 2
           /\ EntrySize(k, Bytes("kid", val, len)) = 1 + BstrSize(len)
           /\ EntrySize(k, Number("alg", alg)) = 1 + IntSize(AlgInt[alg])
           /\ ~ Reserved(k, Number("kty", val)) /\ Sized(k, Number("kty", val))
           /\ ~ Reserved(k, Bytes("kid", val, len)) /\ Sized(k, Bytes("kid", val, len))
           /\ ~ Reserved(k, Number("alg", alg)) /\ Sized(k, Number("alg", alg))
<1>1. /\ ~ Reserved(k, Number("kty", val))
      /\ ~ Reserved(k, Bytes("kid", val, len))
      /\ ~ Reserved(k, Number("alg", alg))
  BY DEF Reserved, Number, Bytes
<1>2. WrittenIntSize(AlgInt[alg]) = IntSize(AlgInt[alg])
  BY IntSizes
<1> QED BY <1>1, <1>2 DEF EntrySize, Sized, Number, Bytes

\* Two sequences put together.
LEMMA Joined ==
    ASSUME NEW S, NEW a \in Seq(S), NEW b \in Seq(S)
    PROVE  /\ a \o b \in Seq(S)
           /\ Len(a \o b) = Len(a) + Len(b) /\ Len(a) \in Nat /\ Len(b) \in Nat
           /\ \A i \in 1 .. Len(a) : (a \o b)[i] = a[i]
           /\ \A j \in 1 .. Len(b) : (a \o b)[Len(a) + j] = b[j]
OBVIOUS

\* Short sequences put together.
LEMMA Tuples ==
    ASSUME NEW t, NEW i, NEW a
    PROVE  LET three == <<t>> \o (<<i>> \o <<a>>)
               left  == <<t>> \o (<<i>> \o <<>>)
               right == <<t>> \o (<<>> \o <<a>>)
               one   == <<t>> \o (<<>> \o <<>>)
           IN  /\ Len(three) = 3 /\ three[1] = t /\ three[2] = i /\ three[3] = a
               /\ Len(left) = 2 /\ left[1] = t /\ left[2] = i
               /\ Len(right) = 2 /\ right[1] = t /\ right[2] = a
               /\ Len(one) = 1 /\ one[1] = t
               /\ Len(<<i>> \o <<a>>) = 2 /\ Len(<<i>> \o <<>>) = 1
               /\ Len(<<>> \o <<a>>) = 1 /\ Len(<<>> \o <<>>) = 0
OBVIOUS

\* What the entries in common are.
Begins(k, t, i, a, named, tied) ==
    /\ named /\ tied => /\ Len(Common(k)) = 3 /\ Len(Optional(k)) = 2
                        /\ Common(k)[1] = t /\ Common(k)[2] = i /\ Common(k)[3] = a
    /\ named /\ ~ tied => /\ Len(Common(k)) = 2 /\ Len(Optional(k)) = 1
                          /\ Common(k)[1] = t /\ Common(k)[2] = i
    /\ ~ named /\ tied => /\ Len(Common(k)) = 2 /\ Len(Optional(k)) = 1
                          /\ Common(k)[1] = t /\ Common(k)[2] = a
    /\ ~ named /\ ~ tied => /\ Len(Common(k)) = 1 /\ Len(Optional(k)) = 0
                            /\ Common(k)[1] = t

LEMMA CommonIs ==
    ASSUME NEW k
    PROVE  Begins(k, Number("kty", k.kty), Bytes("kid", k.kid.val, k.kid.len),
                  Number("alg", k.alg), k.kid.len > 0, k.alg # "unset")
<1> DEFINE t == Number("kty", k.kty)
           i == Bytes("kid", k.kid.val, k.kid.len)
           a == Number("alg", k.alg)
           named == k.kid.len > 0
           tied  == k.alg # "unset"
<1>1. Optional(k) = (IF named THEN <<i>> ELSE <<>>) \o (IF tied THEN <<a>> ELSE <<>>)
  BY DEF Optional
<1>2. Common(k) = <<t>> \o Optional(k)
  BY DEF Common
<1> HIDE DEF t, i, a, named, tied
<1>4. ASSUME named, tied PROVE Optional(k) = <<i>> \o <<a>>
  BY Zenon, <1>1, <1>4
<1>5. ASSUME named, ~ tied PROVE Optional(k) = <<i>> \o <<>>
  BY Zenon, <1>1, <1>5
<1>6. ASSUME ~ named, tied PROVE Optional(k) = <<>> \o <<a>>
  BY Zenon, <1>1, <1>6
<1>7. ASSUME ~ named, ~ tied PROVE Optional(k) = <<>> \o <<>>
  BY Zenon, <1>1, <1>7
<1>8. Begins(k, t, i, a, named, tied)
  <2>1. ASSUME named, tied
        PROVE  /\ Len(Common(k)) = 3 /\ Len(Optional(k)) = 2
               /\ Common(k)[1] = t /\ Common(k)[2] = i /\ Common(k)[3] = a
    <3>1. Common(k) = <<t>> \o (<<i>> \o <<a>>) /\ Optional(k) = <<i>> \o <<a>>
      BY Zenon, <1>2, <1>4, <2>1
    <3> QED BY <3>1
  <2>2. ASSUME named, ~ tied
        PROVE  /\ Len(Common(k)) = 2 /\ Len(Optional(k)) = 1
               /\ Common(k)[1] = t /\ Common(k)[2] = i
    <3>1. Common(k) = <<t>> \o (<<i>> \o <<>>) /\ Optional(k) = <<i>> \o <<>>
      BY Zenon, <1>2, <1>5, <2>2
    <3> QED BY <3>1
  <2>3. ASSUME ~ named, tied
        PROVE  /\ Len(Common(k)) = 2 /\ Len(Optional(k)) = 1
               /\ Common(k)[1] = t /\ Common(k)[2] = a
    <3>1. Common(k) = <<t>> \o (<<>> \o <<a>>) /\ Optional(k) = <<>> \o <<a>>
      BY Zenon, <1>2, <1>6, <2>3
    <3> QED BY <3>1
  <2>4. ASSUME ~ named, ~ tied
        PROVE  /\ Len(Common(k)) = 1 /\ Len(Optional(k)) = 0
               /\ Common(k)[1] = t
    <3>1. Common(k) = <<t>> \o (<<>> \o <<>>) /\ Optional(k) = <<>> \o <<>>
      BY Zenon, <1>2, <1>7, <2>4
    <3> QED BY <3>1
  <2> QED BY Zenon, <2>1, <2>2, <2>3, <2>4 DEF Begins
<1> QED BY Zenon, <1>8 DEF t, i, a, named, tied

\* Keys whose entries have sizes.
Measured(k) == k.kid.len \in Nat /\ AlgInt[k.alg] \in Int

\* Where the encoder is after the entries in common, and from there on.
Laid(k, map, rest) ==
    LET c == Len(Common(k))
        w == Written(k, map)
    IN  /\ c \in Nat /\ Len(map) = c + Len(rest) /\ Len(map) \in Nat
        /\ w[c] = KeyCommonSize(k, 1 + Len(rest)) /\ w[c] \in Nat
        /\ \A i \in 1 .. c : ~ Reserved(k, map[i]) /\ Sized(k, map[i])
        /\ \A j \in 1 .. Len(rest) :
               /\ map[c + j] = rest[j]
               /\ w[c + j] = w[(c + j) - 1] + EntrySize(k, rest[j])

LEMMA CommonWritten ==
    ASSUME NEW k, Measured(k), NEW S, NEW rest \in Seq(S), Common(k) \in Seq(S),
           NEW map, map = Common(k) \o rest
    PROVE  Laid(k, map, rest)
<1> DEFINE c == Len(Common(k))
           w == Written(k, map)
           t == Number("kty", k.kty)
           i == Bytes("kid", k.kid.val, k.kid.len)
           a == Number("alg", k.alg)
           ti == 1 + BstrSize(k.kid.len)
           ta == 1 + IntSize(AlgInt[k.alg])
           named == k.kid.len > 0
           tied  == k.alg # "unset"
           more == Len(rest)
           whole == Len(map)
<1>1. /\ c \in Nat /\ more \in Nat /\ whole = c + more
      /\ \A j \in 1 .. c : map[j] = Common(k)[j]
      /\ \A j \in 1 .. more : map[c + j] = rest[j]
  <2> DEFINE common == Common(k)
  <2>1. common \in Seq(S) /\ rest \in Seq(S) /\ map = common \o rest /\ c = Len(common)
    OBVIOUS
  <2> HIDE DEF common
  <2>2. /\ Len(common \o rest) = Len(common) + Len(rest)
        /\ Len(common) \in Nat /\ Len(rest) \in Nat
        /\ \A j \in 1 .. Len(common) : (common \o rest)[j] = common[j]
        /\ \A j \in 1 .. Len(rest) : (common \o rest)[Len(common) + j] = rest[j]
    BY <2>1, Joined
  <2> QED BY Zenon, <2>1, <2>2 DEF common
<1>2. /\ w[0] = HeadSize(whole)
      /\ \A j \in 1 .. whole : w[j] = w[j - 1] + EntrySize(k, map[j])
  <2>1. whole \in Nat
    BY <1>1
  <2> QED BY <2>1, WrittenSteps
<1>3. /\ EntrySize(k, t) = 2 /\ EntrySize(k, i) = ti /\ EntrySize(k, a) = ta
      /\ ~ Reserved(k, t) /\ ~ Reserved(k, i) /\ ~ Reserved(k, a)
      /\ Sized(k, t) /\ Sized(k, i) /\ Sized(k, a)
  BY CommonEntries DEF Measured
<1>4. ti \in Nat /\ ta \in Nat /\ HeadSize(whole) \in Nat
  <2>1. k.kid.len \in Nat /\ AlgInt[k.alg] \in Int /\ whole \in Nat
    BY <1>1 DEF Measured
  <2>2. BstrSize(k.kid.len) \in Nat /\ IntSize(AlgInt[k.alg]) \in 1 .. 5
        /\ HeadSize(whole) \in 1 .. 5
    BY <2>1, HeadSizes, IntSizes
  <2> QED BY <2>2
<1>5. Begins(k, t, i, a, named, tied)
  BY CommonIs
<1>6. KeyCommonSize(k, 1 + more) =
          HeadSize((1 + more) + Len(Optional(k))) + 1 + 1 + (IF named THEN ti ELSE 0)
          + (IF tied THEN ta ELSE 0)
  BY DEF KeyCommonSize
<1>7. \A j \in 1 .. more : c + j \in 1 .. whole
  BY <1>1
<1> DEFINE first(j) == map[j] = Common(k)[j] /\ w[j] = w[j - 1] + EntrySize(k, map[j])
<1>8. \A j \in 1 .. c : first(j)
  BY <1>1, <1>2
<1> DEFINE Goal == /\ w[c] = KeyCommonSize(k, 1 + more) /\ w[c] \in Nat
                   /\ \A j \in 1 .. c : ~ Reserved(k, map[j]) /\ Sized(k, map[j])
<1> HIDE DEF w, t, i, a, ti, ta, named, tied, more, whole, first
<1>9. ASSUME named, tied PROVE Goal
  <2>1. c = 3 /\ Len(Optional(k)) = 2 /\ Common(k)[1] = t /\ Common(k)[2] = i /\ Common(k)[3] = a
    BY Zenon, <1>5, <1>9 DEF Begins
  <2>2. map[1] = t /\ map[2] = i /\ map[3] = a /\ w[1] = w[0] + EntrySize(k, t)
        /\ w[2] = w[1] + EntrySize(k, i) /\ w[3] = w[2] + EntrySize(k, a)
    <3>1. 1 \in 1 .. c /\ 2 \in 1 .. c /\ 3 \in 1 .. c
      BY <2>1
    <3>2. first(1) /\ first(2) /\ first(3)
      BY Zenon, <1>8, <3>1
    <3>3. 1 - 1 = 0 /\ 2 - 1 = 1 /\ 3 - 1 = 2
      OBVIOUS
    <3> QED BY Zenon, <2>1, <3>2, <3>3 DEF first
  <2>3. (1 + more) + Len(Optional(k)) = whole
    BY <1>1, <2>1
  <2>4. w[c] = HeadSize(whole) + 2 + ti + ta
    BY <1>2, <1>3, <1>4, <2>1, <2>2
  <2>5. KeyCommonSize(k, 1 + more) = HeadSize(whole) + 1 + 1 + ti + ta
    <3>1. (IF named THEN ti ELSE 0) = ti /\ (IF tied THEN ta ELSE 0) = ta
      BY Zenon, <1>9
    <3> QED BY Zenon, <1>6, <2>3, <3>1
  <2>6. ASSUME NEW j \in 1 .. c PROVE ~ Reserved(k, map[j]) /\ Sized(k, map[j])
    <3>1. j = 1 \/ j = 2 \/ j = 3
      BY <2>1, <2>6
    <3> QED BY <1>3, <2>2, <3>1
  <2> QED BY <1>4, <2>4, <2>5, <2>6
<1>10. ASSUME named, ~ tied PROVE Goal
  <2>1. c = 2 /\ Len(Optional(k)) = 1 /\ Common(k)[1] = t /\ Common(k)[2] = i
    BY Zenon, <1>5, <1>10 DEF Begins
  <2>2. map[1] = t /\ map[2] = i /\ w[1] = w[0] + EntrySize(k, t)
        /\ w[2] = w[1] + EntrySize(k, i)
    <3>1. 1 \in 1 .. c /\ 2 \in 1 .. c
      BY <2>1
    <3>2. first(1) /\ first(2)
      BY Zenon, <1>8, <3>1
    <3>3. 1 - 1 = 0 /\ 2 - 1 = 1
      OBVIOUS
    <3> QED BY Zenon, <2>1, <3>2, <3>3 DEF first
  <2>3. (1 + more) + Len(Optional(k)) = whole
    BY <1>1, <2>1
  <2>4. w[c] = HeadSize(whole) + 2 + ti
    BY <1>2, <1>3, <1>4, <2>1, <2>2
  <2>5. KeyCommonSize(k, 1 + more) = HeadSize(whole) + 1 + 1 + ti + 0
    <3>1. (IF named THEN ti ELSE 0) = ti /\ (IF tied THEN ta ELSE 0) = 0
      BY Zenon, <1>10
    <3> QED BY Zenon, <1>6, <2>3, <3>1
  <2>6. ASSUME NEW j \in 1 .. c PROVE ~ Reserved(k, map[j]) /\ Sized(k, map[j])
    <3>1. j = 1 \/ j = 2
      BY <2>1, <2>6
    <3> QED BY <1>3, <2>2, <3>1
  <2> QED BY <1>4, <2>4, <2>5, <2>6
<1>11. ASSUME ~ named, tied PROVE Goal
  <2>1. c = 2 /\ Len(Optional(k)) = 1 /\ Common(k)[1] = t /\ Common(k)[2] = a
    BY Zenon, <1>5, <1>11 DEF Begins
  <2>2. map[1] = t /\ map[2] = a /\ w[1] = w[0] + EntrySize(k, t)
        /\ w[2] = w[1] + EntrySize(k, a)
    <3>1. 1 \in 1 .. c /\ 2 \in 1 .. c
      BY <2>1
    <3>2. first(1) /\ first(2)
      BY Zenon, <1>8, <3>1
    <3>3. 1 - 1 = 0 /\ 2 - 1 = 1
      OBVIOUS
    <3> QED BY Zenon, <2>1, <3>2, <3>3 DEF first
  <2>3. (1 + more) + Len(Optional(k)) = whole
    BY <1>1, <2>1
  <2>4. w[c] = HeadSize(whole) + 2 + ta
    BY <1>2, <1>3, <1>4, <2>1, <2>2
  <2>5. KeyCommonSize(k, 1 + more) = HeadSize(whole) + 1 + 1 + 0 + ta
    <3>1. (IF named THEN ti ELSE 0) = 0 /\ (IF tied THEN ta ELSE 0) = ta
      BY Zenon, <1>11
    <3> QED BY Zenon, <1>6, <2>3, <3>1
  <2>6. ASSUME NEW j \in 1 .. c PROVE ~ Reserved(k, map[j]) /\ Sized(k, map[j])
    <3>1. j = 1 \/ j = 2
      BY <2>1, <2>6
    <3> QED BY <1>3, <2>2, <3>1
  <2> QED BY <1>4, <2>4, <2>5, <2>6
<1>12. ASSUME ~ named, ~ tied PROVE Goal
  <2>1. c = 1 /\ Len(Optional(k)) = 0 /\ Common(k)[1] = t
    BY Zenon, <1>5, <1>12 DEF Begins
  <2>2. map[1] = t /\ w[1] = w[0] + EntrySize(k, t)
    <3>1. 1 \in 1 .. c
      BY <2>1
    <3>2. first(1)
      BY Zenon, <1>8, <3>1
    <3>3. 1 - 1 = 0
      OBVIOUS
    <3> QED BY Zenon, <2>1, <3>2, <3>3 DEF first
  <2>3. (1 + more) + Len(Optional(k)) = whole
    BY <1>1, <2>1
  <2>4. w[c] = HeadSize(whole) + 2
    BY <1>2, <1>3, <1>4, <2>1, <2>2
  <2>5. KeyCommonSize(k, 1 + more) = HeadSize(whole) + 1 + 1 + 0 + 0
    <3>1. (IF named THEN ti ELSE 0) = 0 /\ (IF tied THEN ta ELSE 0) = 0
      BY Zenon, <1>12
    <3> QED BY Zenon, <1>6, <2>3, <3>1
  <2>6. ASSUME NEW j \in 1 .. c PROVE ~ Reserved(k, map[j]) /\ Sized(k, map[j])
    <3>1. j = 1
      BY <2>1, <2>6
    <3> QED BY <1>3, <2>2, <3>1
  <2> QED BY <1>4, <2>4, <2>5, <2>6
<1>13. Goal
  BY <1>9, <1>10, <1>11, <1>12
<1>14. \A j \in 1 .. more : /\ map[c + j] = rest[j]
                            /\ w[c + j] = w[(c + j) - 1] + EntrySize(k, rest[j])
  BY <1>1, <1>2, <1>7
<1> QED BY <1>1, <1>13, <1>14 DEF w, more, whole, Laid

\* The entries in common and others are of one kind.
LEMMA CommonSeq ==
    ASSUME NEW k, NEW R
    PROVE  \E S : Common(k) \in Seq(S) /\ Seq(R) \subseteq Seq(S)
<1> DEFINE t == Number("kty", k.kty)
           i == Bytes("kid", k.kid.val, k.kid.len)
           a == Number("alg", k.alg)
           named == k.kid.len > 0
           tied  == k.alg # "unset"
           S == {t, i, a} \cup R
<1>1. Common(k) = <<t>> \o ((IF named THEN <<i>> ELSE <<>>) \o (IF tied THEN <<a>> ELSE <<>>))
  BY DEF Common, Optional
<1>2. t \in S /\ i \in S /\ a \in S /\ R \subseteq S
  OBVIOUS
<1> HIDE DEF t, i, a, named, tied, S
<1>3. (IF named THEN <<i>> ELSE <<>>) \in Seq(S) /\ (IF tied THEN <<a>> ELSE <<>>) \in Seq(S)
  BY <1>2
<1>4. Common(k) \in Seq(S)
  BY <1>1, <1>2, <1>3
<1>5. Seq(R) \subseteq Seq(S)
  <2> SUFFICES ASSUME NEW s \in Seq(R) PROVE s \in Seq(S)
    OBVIOUS
  <2> QED BY <1>2
<1> QED BY <1>4, <1>5

\* The size of what keys have in common is a number.
LEMMA CommonSizes ==
    ASSUME NEW k, Measured(k), NEW more \in Nat
    PROVE  KeyCommonSize(k, more) \in Nat
<1> DEFINE t == Number("kty", k.kty)
           i == Bytes("kid", k.kid.val, k.kid.len)
           a == Number("alg", k.alg)
           named == k.kid.len > 0
           tied  == k.alg # "unset"
           ti == IF named THEN 1 + BstrSize(k.kid.len) ELSE 0
           ta == IF tied THEN 1 + IntSize(AlgInt[k.alg]) ELSE 0
           c == Len(Optional(k))
<1>1. ti \in Nat /\ ta \in Nat
  <2>1. BstrSize(k.kid.len) \in Nat /\ IntSize(AlgInt[k.alg]) \in 1 .. 5
    BY HeadSizes, IntSizes DEF Measured
  <2> HIDE DEF named, tied
  <2> QED BY <2>1
<1>2. c \in Nat
  <2>1. Begins(k, t, i, a, named, tied)
    BY CommonIs
  <2> HIDE DEF t, i, a, named, tied
  <2> QED BY <2>1 DEF Begins
<1>3. HeadSize(more + c) \in 1 .. 5
  <2>1. more + c \in Nat
    BY <1>2
  <2> QED BY <2>1, HeadSizes
<1>4. KeyCommonSize(k, more) = HeadSize(more + c) + 1 + 1 + ti + ta
  BY DEF KeyCommonSize
<1> HIDE DEF ti, ta, c
<1> QED BY <1>1, <1>3, <1>4

\* Where the encoder is after j of the entries that follow those in common.
At(k, map, j) == Written(k, map)[Len(Common(k)) + j]

\* How far it reaches at a reserved one.
Far(k, map, e, j) == At(k, map, j - 1) + 4 + e.len + (IF e.label = "-3" THEN 8 + 2 * e.len ELSE 0)

\* What the entries that follow take, and when there is room for them.
Rested(k, map, rest) ==
    /\ At(k, map, 0) = KeyCommonSize(k, 1 + Len(rest)) /\ At(k, map, 0) \in Nat
    /\ \A j \in 1 .. Len(rest) : At(k, map, j) = At(k, map, j - 1) + EntrySize(k, rest[j])
    /\ Encoded(k, map) = At(k, map, Len(rest))
    /\ (\A j \in 1 .. Len(rest) : Reserved(k, rest[j]) =>
            Far(k, map, rest[j], j) <= At(k, map, Len(rest)))
       => /\ RoomCode(k, map, Encoded(k, map)) = "ok"
          /\ RoomCode(k, map, Encoded(k, map) - 1) # "ok"

LEMMA RestExact ==
    ASSUME NEW k, Measured(k), NEW R, NEW rest \in Seq(R), Len(rest) # 0,
           NEW map, map = Common(k) \o rest,
           \A j \in 1 .. Len(rest) : Sized(k, rest[j])
    PROVE  Rested(k, map, rest)
<1> DEFINE c == Len(Common(k))
           w == Written(k, map)
           more == Len(rest)
           whole == Len(map)
<1>1. PICK S : Common(k) \in Seq(S) /\ rest \in Seq(S)
  <2>1. \E S : Common(k) \in Seq(S) /\ Seq(R) \subseteq Seq(S)
    BY Zenon, CommonSeq
  <2> QED BY Zenon, <2>1
<1>2. /\ c \in Nat /\ whole = c + more /\ whole \in Nat
      /\ w[c] = KeyCommonSize(k, 1 + more) /\ w[c] \in Nat
      /\ \A i \in 1 .. c : ~ Reserved(k, map[i]) /\ Sized(k, map[i])
      /\ \A j \in 1 .. more : /\ map[c + j] = rest[j]
                              /\ w[c + j] = w[(c + j) - 1] + EntrySize(k, rest[j])
  <2>1. Laid(k, map, rest)
    BY Zenon, <1>1, CommonWritten
  <2> QED BY <2>1 DEF Laid
<1>3. more \in Nat /\ more # 0 /\ c + 0 = c
  BY <1>2
<1>4. At(k, map, 0) = KeyCommonSize(k, 1 + more) /\ At(k, map, 0) \in Nat
  BY Zenon, <1>2, <1>3 DEF At
<1>5. \A j \in 1 .. more : (c + j) - 1 = c + (j - 1)
  BY <1>2, <1>3
<1>6. \A j \in 1 .. more : At(k, map, j) = At(k, map, j - 1) + EntrySize(k, rest[j])
  <2> HIDE DEF w, c, more, whole
  <2>1. \A j \in 1 .. more : w[c + j] = w[c + (j - 1)] + EntrySize(k, rest[j])
    BY <1>2, <1>5
  <2> QED BY <2>1 DEF At, w, c
<1>7. Encoded(k, map) = At(k, map, more)
  BY <1>2 DEF Encoded, At
<1>8. ASSUME \A j \in 1 .. more : Reserved(k, rest[j]) =>
                 Far(k, map, rest[j], j) <= At(k, map, more)
      PROVE  /\ RoomCode(k, map, Encoded(k, map)) = "ok"
             /\ RoomCode(k, map, Encoded(k, map) - 1) # "ok"
  <2>1. ASSUME NEW i \in 1 .. whole PROVE i \in 1 .. c \/ \E j \in 1 .. more : i = c + j
    <3>1. CASE i <= c
      BY <1>2, <3>1
    <3>2. CASE ~ (i <= c)
      <4>1. i - c \in 1 .. more /\ i = c + (i - c)
        BY <1>2, <1>3, <3>2
      <4> QED BY <4>1
    <3> QED BY <3>1, <3>2
  <2>2. \A i \in 1 .. whole : Sized(k, map[i])
    BY <1>2, <2>1
  <2>3. ASSUME NEW i \in 1 .. whole, Reserved(k, map[i])
        PROVE  Reach(k, map, i) <= Encoded(k, map)
    <3>1. PICK j \in 1 .. more : i = c + j
      BY <1>2, <2>1, <2>3
    <3>2. map[i] = rest[j] /\ Written(k, map)[i - 1] = At(k, map, j - 1)
      BY <1>2, <1>5, <3>1 DEF At
    <3>3. Far(k, map, rest[j], j) <= At(k, map, more)
      BY <1>8, <2>3, <3>2
    <3> DEFINE extra == IF map[i].label = "-3" THEN 8 + 2 * map[i].len ELSE 0
               p == At(k, map, j - 1)
    <3>4. Reach(k, map, i) = (p + 1) + 3 + map[i].len + extra
      BY Zenon, <2>3, <3>2 DEF Reach
    <3>5. Far(k, map, rest[j], j) = p + 4 + map[i].len + extra
      BY <3>2 DEF Far
    <3>6. p \in Nat /\ map[i].len \in Nat
      <4>1. i - 1 \in 0 .. whole /\ i \in 1 .. whole
        BY <1>2
      <4>2. \A x \in 0 .. whole : w[x] \in Nat
        BY <1>2, <2>2, WrittenGrows
      <4>3. w[i - 1] \in Nat
        <5> HIDE DEF w, whole
        <5> QED BY <4>1, <4>2
      <4>4. p \in Nat
        BY Zenon, <3>2, <4>3
      <4>5. Sized(k, map[i])
        BY Zenon, <2>2, <4>1
      <4> QED BY Zenon, <4>4, <4>5 DEF Sized
    <3>7. extra \in Nat
      <4> DEFINE len == map[i].len
      <4>0. len \in Nat
        BY <3>6
      <4> HIDE DEF len
      <4>1. 8 + 2 * len \in Nat /\ 0 \in Nat
        BY <4>0
      <4> QED BY Zenon, <4>1 DEF len
    <3> HIDE DEF extra, p
    <3>8. (p + 1) + 3 + map[i].len + extra = p + 4 + map[i].len + extra
      BY <3>6, <3>7
    <3> QED BY Zenon, <1>7, <3>3, <3>4, <3>5, <3>8
  <2>4. whole # 0
    BY <1>2, <1>3
  <2> QED BY <1>2, <2>2, <2>3, <2>4, ExactRoom
<1> QED BY Zenon, <1>4, <1>6, <1>7, <1>8 DEF Rested

\* What a byte string takes.
Takes(k, e, len) == /\ Sized(k, e)
                    /\ Reserved(k, e) => EntrySize(k, e) = 1 + ReservedBstrSize(len)
                    /\ ~ Reserved(k, e) => EntrySize(k, e) = 1 + BstrSize(len)

LEMMA BytesEntry ==
    ASSUME NEW k, NEW label, NEW val, NEW len \in Nat
    PROVE  Takes(k, Bytes(label, val, len), len)
<1> DEFINE e == Bytes(label, val, len)
<1>1. e.len = len /\ e.type = "bstr"
  BY DEF Bytes
<1> HIDE DEF e
<1>2. Sized(k, e)
  BY <1>1 DEF Sized
<1>3. EntrySize(k, e) = 1 + (IF Reserved(k, e) THEN ReservedBstrSize(len) ELSE BstrSize(len))
  BY Zenon, <1>1 DEF EntrySize
<1>4. Reserved(k, e) => EntrySize(k, e) = 1 + ReservedBstrSize(len)
  BY Zenon, <1>3
<1>5. ~ Reserved(k, e) => EntrySize(k, e) = 1 + BstrSize(len)
  BY Zenon, <1>3
<1> QED BY Zenon, <1>2, <1>4, <1>5 DEF e, Takes

\* The size is the room that is needed, and no less is enough.
Roomy(k, map) == /\ RoomCode(k, map, Encoded(k, map)) = "ok"
                 /\ RoomCode(k, map, Encoded(k, map) - 1) # "ok"

\* One after the other.
Regrouped(k, first, second) ==
    (Common(k) \o first) \o second = Common(k) \o (first \o second)

LEMMA Regroup ==
    ASSUME NEW k, NEW R, NEW first \in Seq(R), NEW second \in Seq(R)
    PROVE  Regrouped(k, first, second)
<1>1. PICK S : Common(k) \in Seq(S) /\ Seq(R) \subseteq Seq(S)
  BY Zenon, CommonSeq
<1>2. first \in Seq(S) /\ second \in Seq(S)
  BY Zenon, <1>1
<1>3. (Common(k) \o first) \o second = Common(k) \o (first \o second)
  <2> DEFINE common == Common(k)
  <2>1. common \in Seq(S)
    BY Zenon, <1>1
  <2> HIDE DEF common
  <2>2. (common \o first) \o second = common \o (first \o second)
    BY <1>2, <2>1, ConcatAssociative
  <2> QED BY Zenon, <2>2 DEF common
<1> QED BY Zenon, <1>3 DEF Regrouped

Grouping(k, first, second, P) ==
    (Common(k) \o first) \o (IF P THEN second ELSE <<>>)
        = Common(k) \o (IF P THEN first \o second ELSE first)

LEMMA Grouped ==
    ASSUME NEW k, NEW R, NEW first \in Seq(R), NEW second \in Seq(R), NEW P
    PROVE  Grouping(k, first, second, P)
<1>1. CASE P
  <2>1. (Common(k) \o first) \o second = Common(k) \o (first \o second)
    BY Regroup DEF Regrouped
  <2> QED BY Zenon, <1>1, <2>1 DEF Grouping
<1>2. CASE ~ P
  <2>1. <<>> \in Seq(R)
    OBVIOUS
  <2>2. (Common(k) \o first) \o <<>> = Common(k) \o (first \o <<>>)
    BY <2>1, Regroup DEF Regrouped
  <2>3. first \o <<>> = first
    BY Zenon, ConcatEmptySeq
  <2> QED BY Zenon, <1>2, <2>2, <2>3 DEF Grouping
<1> QED BY Zenon, <1>1, <1>2

\* Up to four entries without a reserved head.
Simple(k, e) == Sized(k, e) /\ ~ Reserved(k, e)

LEMMA SimpleRest ==
    ASSUME NEW k, Measured(k), NEW R, NEW rest \in Seq(R), Len(rest) # 0,
           NEW map, map = Common(k) \o rest,
           \A j \in 1 .. Len(rest) : Simple(k, rest[j])
    PROVE  /\ At(k, map, 0) = KeyCommonSize(k, 1 + Len(rest)) /\ At(k, map, 0) \in Nat
           /\ \A j \in 1 .. Len(rest) :
                  At(k, map, j) = At(k, map, j - 1) + EntrySize(k, rest[j])
           /\ Encoded(k, map) = At(k, map, Len(rest))
           /\ Roomy(k, map)
<1>1. \A j \in 1 .. Len(rest) : Sized(k, rest[j]) /\ ~ Reserved(k, rest[j])
  BY DEF Simple
<1>2. Rested(k, map, rest)
  BY Zenon, <1>1, RestExact
<1> QED BY Zenon, <1>1, <1>2 DEF Rested, Roomy

One(k, map, a)           == map = Common(k) \o <<a>>
Two(k, map, a, b)        == map = Common(k) \o <<a, b>>
Three(k, map, a, b, c)   == map \in {Common(k) \o <<a, b, c>>, Common(k) \o (<<a, b>> \o <<c>>)}
Four(k, map, a, b, c, d) == map = Common(k) \o (<<a, b, c>> \o <<d>>)

LEMMA OneExact ==
    ASSUME NEW k, Measured(k), NEW a, Simple(k, a),
           NEW map, One(k, map, a)
    PROVE  Encoded(k, map) = KeyCommonSize(k, 2) + EntrySize(k, a) /\ Roomy(k, map)
<1> DEFINE rest == <<a>>
           R == {a}
<1>1. rest \in Seq(R) /\ Len(rest) = 1 /\ rest[1] = a
  OBVIOUS
<1>2. \A j \in 1 .. Len(rest) : Simple(k, rest[j])
  BY <1>1
<1> HIDE DEF rest, R
<1>3. /\ At(k, map, 0) = KeyCommonSize(k, 1 + Len(rest)) /\ At(k, map, 0) \in Nat
      /\ \A j \in 1 .. Len(rest) : At(k, map, j) = At(k, map, j - 1) + EntrySize(k, rest[j])
      /\ Encoded(k, map) = At(k, map, Len(rest))
      /\ Roomy(k, map)
  <2>1. map = Common(k) \o rest /\ Len(rest) # 0
    BY <1>1 DEF rest, One
  <2> QED BY Zenon, <1>1, <1>2, <2>1, SimpleRest
<1>4. 1 + Len(rest) = 2 /\ At(k, map, 1) = At(k, map, 0) + EntrySize(k, a)
  BY <1>1, <1>3
<1> QED BY <1>1, <1>3, <1>4

LEMMA TwoExact ==
    ASSUME NEW k, Measured(k), NEW a, NEW b, Simple(k, a), Simple(k, b),
           NEW map, Two(k, map, a, b)
    PROVE  /\ Encoded(k, map) = KeyCommonSize(k, 3) + EntrySize(k, a) + EntrySize(k, b)
           /\ Roomy(k, map)
<1> DEFINE rest == <<a, b>>
           R == {a, b}
<1>1. rest \in Seq(R) /\ Len(rest) = 2 /\ rest[1] = a /\ rest[2] = b
  OBVIOUS
<1> HIDE DEF rest, R
<1>2. ASSUME NEW j \in 1 .. Len(rest) PROVE Simple(k, rest[j])
  <2>1. j = 1 \/ j = 2
    BY <1>1
  <2> QED BY <1>1, <2>1
<1>3. /\ At(k, map, 0) = KeyCommonSize(k, 1 + Len(rest)) /\ At(k, map, 0) \in Nat
      /\ \A j \in 1 .. Len(rest) : At(k, map, j) = At(k, map, j - 1) + EntrySize(k, rest[j])
      /\ Encoded(k, map) = At(k, map, Len(rest))
      /\ Roomy(k, map)
  <2>1. map = Common(k) \o rest /\ Len(rest) # 0
    BY <1>1 DEF rest, Two
  <2> QED BY Zenon, <1>1, <1>2, <2>1, SimpleRest
<1>4. 1 + Len(rest) = 3 /\ At(k, map, 1) = At(k, map, 0) + EntrySize(k, a)
      /\ At(k, map, 2) = At(k, map, 1) + EntrySize(k, b)
  BY <1>1, <1>3
<1> QED BY <1>1, <1>3, <1>4

LEMMA ThreeExact ==
    ASSUME NEW k, Measured(k), NEW a, NEW b, NEW c, Simple(k, a), Simple(k, b), Simple(k, c),
           NEW map, Three(k, map, a, b, c)
    PROVE  /\ Encoded(k, map) = KeyCommonSize(k, 4) + EntrySize(k, a) + EntrySize(k, b)
                                + EntrySize(k, c)
           /\ Roomy(k, map)
<1> DEFINE R == {a, b, c}
<1>1. PICK rest \in Seq(R) : /\ map = Common(k) \o rest
                            /\ Len(rest) = 3 /\ rest[1] = a /\ rest[2] = b /\ rest[3] = c
  <2> DEFINE whole == <<a, b, c>>
             apart == <<a, b>> \o <<c>>
  <2>1. /\ whole \in Seq(R) /\ Len(whole) = 3
        /\ whole[1] = a /\ whole[2] = b /\ whole[3] = c
    OBVIOUS
  <2>2. /\ apart \in Seq(R) /\ Len(apart) = 3
        /\ apart[1] = a /\ apart[2] = b /\ apart[3] = c
    OBVIOUS
  <2>3. map = Common(k) \o whole \/ map = Common(k) \o apart
    BY Zenon DEF Three
  <2> HIDE DEF whole, apart, R
  <2> QED BY Zenon, <2>1, <2>2, <2>3
<1> HIDE DEF R
<1>2. ASSUME NEW j \in 1 .. Len(rest) PROVE Simple(k, rest[j])
  <2>1. j = 1 \/ j = 2 \/ j = 3
    BY <1>1
  <2> QED BY <1>1, <2>1
<1>3. /\ At(k, map, 0) = KeyCommonSize(k, 1 + Len(rest)) /\ At(k, map, 0) \in Nat
      /\ \A j \in 1 .. Len(rest) : At(k, map, j) = At(k, map, j - 1) + EntrySize(k, rest[j])
      /\ Encoded(k, map) = At(k, map, Len(rest))
      /\ Roomy(k, map)
  <2>1. map = Common(k) \o rest /\ Len(rest) # 0
    BY <1>1
  <2> QED BY Zenon, <1>1, <1>2, <2>1, SimpleRest
<1>4. 1 + Len(rest) = 4 /\ At(k, map, 1) = At(k, map, 0) + EntrySize(k, a)
      /\ At(k, map, 2) = At(k, map, 1) + EntrySize(k, b)
      /\ At(k, map, 3) = At(k, map, 2) + EntrySize(k, c)
  BY <1>1, <1>3
<1> QED BY <1>1, <1>3, <1>4

LEMMA FourExact ==
    ASSUME NEW k, Measured(k), NEW a, NEW b, NEW c, NEW d,
           Simple(k, a), Simple(k, b), Simple(k, c), Simple(k, d),
           NEW map, Four(k, map, a, b, c, d)
    PROVE  /\ Encoded(k, map) = KeyCommonSize(k, 5) + EntrySize(k, a) + EntrySize(k, b)
                                + EntrySize(k, c) + EntrySize(k, d)
           /\ Roomy(k, map)
<1> DEFINE rest == <<a, b, c>> \o <<d>>
           R == {a, b, c, d}
<1>1. /\ rest \in Seq(R) /\ Len(rest) = 4
      /\ rest[1] = a /\ rest[2] = b /\ rest[3] = c /\ rest[4] = d
  OBVIOUS
<1> HIDE DEF rest, R
<1>2. ASSUME NEW j \in 1 .. Len(rest) PROVE Simple(k, rest[j])
  <2>1. j = 1 \/ j = 2 \/ j = 3 \/ j = 4
    BY <1>1
  <2> QED BY <1>1, <2>1
<1>3. /\ At(k, map, 0) = KeyCommonSize(k, 1 + Len(rest)) /\ At(k, map, 0) \in Nat
      /\ \A j \in 1 .. Len(rest) : At(k, map, j) = At(k, map, j - 1) + EntrySize(k, rest[j])
      /\ Encoded(k, map) = At(k, map, Len(rest))
      /\ Roomy(k, map)
  <2>1. map = Common(k) \o rest /\ Len(rest) # 0
    BY <1>1 DEF rest, Four
  <2> QED BY Zenon, <1>1, <1>2, <2>1, SimpleRest
<1>4. 1 + Len(rest) = 5
      /\ At(k, map, 1) = At(k, map, 1 - 1) + EntrySize(k, rest[1])
      /\ At(k, map, 2) = At(k, map, 2 - 1) + EntrySize(k, rest[2])
      /\ At(k, map, 3) = At(k, map, 3 - 1) + EntrySize(k, rest[3])
      /\ At(k, map, 4) = At(k, map, 4 - 1) + EntrySize(k, rest[4])
  <2>1. 1 \in 1 .. Len(rest) /\ 2 \in 1 .. Len(rest) /\ 3 \in 1 .. Len(rest)
        /\ 4 \in 1 .. Len(rest) /\ 1 + Len(rest) = 5
    BY <1>1
  <2> QED BY Zenon, <1>3, <2>1
<1>5. 1 - 1 = 0 /\ 2 - 1 = 1 /\ 3 - 1 = 2 /\ 4 - 1 = 3
  OBVIOUS
<1>6. At(k, map, 0) = KeyCommonSize(k, 5) /\ Encoded(k, map) = At(k, map, 4)
  BY Zenon, <1>1, <1>3, <1>4
<1>7. At(k, map, 1) = At(k, map, 0) + EntrySize(k, a)
      /\ At(k, map, 2) = At(k, map, 1) + EntrySize(k, b)
      /\ At(k, map, 3) = At(k, map, 2) + EntrySize(k, c)
      /\ At(k, map, 4) = At(k, map, 3) + EntrySize(k, d)
  BY Zenon, <1>1, <1>4, <1>5
<1> QED BY Zenon, <1>3, <1>6, <1>7

\* A curve, and a byte string with an ordinary head.
LEMMA CurveEntry ==
    ASSUME NEW k, k.kty \notin {"RSA", "AKP"}, NEW val
    PROVE  Simple(k, Number("-1", val)) /\ EntrySize(k, Number("-1", val)) = 2
BY DEF Simple, Sized, Reserved, Number, EntrySize

LEMMA PlainBytes ==
    ASSUME NEW k, NEW label, NEW val, NEW len \in Nat, ~ Reserved(k, Bytes(label, val, len))
    PROVE  /\ Simple(k, Bytes(label, val, len))
           /\ EntrySize(k, Bytes(label, val, len)) = KeyBstrEntrySize(len)
BY Zenon, BytesEntry DEF Takes, Simple, KeyBstrEntrySize

LEMMA OrdinaryHeads ==
    ASSUME NEW k, k.kty \notin {"RSA", "AKP"}, NEW label, NEW val, NEW len
    PROVE  ~ Reserved(k, Bytes(label, val, len))
BY DEF Reserved

LEMMA BstrEntrySizes ==
    ASSUME NEW len \in Nat
    PROVE  KeyBstrEntrySize(len) \in Nat /\ KeyBstrEntrySize(len) >= len + 2
<1>1. BstrSize(len) \in Nat /\ BstrSize(len) >= len + 1
  BY HeadSizes
<1> QED BY <1>1 DEF KeyBstrEntrySize

\* The computed size is that of the map.
Exact(k, map, size) == size = Encoded(k, map) /\ Roomy(k, map)

\* Elliptic curve keys.
LEMMA Ec2Exact ==
    ASSUME NEW k, Measured(k), k.kty = "EC2", NEW pub, NEW priv, CrvSize[k.crv] \in Nat,
           NEW private \in BOOLEAN
    PROVE  Exact(k, Ec2Map(k, pub, priv, CrvSize[k.crv], private), Ec2Size(k, private))
<1> DEFINE len == CrvSize[k.crv]
           map == Ec2Map(k, pub, priv, len, private)
           a == Number("-1", k.crv)
           b == Bytes("-2", pub, len)
           c == Bytes("-3", pub, len)
           d == Bytes("-4", priv, len)
           s == KeyBstrEntrySize(len)
<1>1. k.kty \notin {"RSA", "AKP"}
  OBVIOUS
<1>2. /\ Simple(k, a) /\ Simple(k, b) /\ Simple(k, c) /\ Simple(k, d)
      /\ EntrySize(k, a) = 2 /\ EntrySize(k, b) = s /\ EntrySize(k, c) = s
      /\ EntrySize(k, d) = s
  <2>1. ~ Reserved(k, b) /\ ~ Reserved(k, c) /\ ~ Reserved(k, d)
    BY Zenon, <1>1, OrdinaryHeads
  <2> QED BY Zenon, <1>1, <2>1, CurveEntry, PlainBytes
<1>3. s \in Nat
  BY BstrEntrySizes
<1>4. map = Common(k) \o (IF private THEN <<a, b, c>> \o <<d>> ELSE <<a, b, c>>)
  <2>1. map = (Common(k) \o <<a, b, c>>) \o (IF private THEN <<d>> ELSE <<>>)
    BY DEF Ec2Map
  <2> DEFINE R == {a, b, c, d}
             first == <<a, b, c>>
             second == <<d>>
  <2> HIDE DEF a, b, c, d
  <2>2. first \in Seq(R) /\ second \in Seq(R)
    OBVIOUS
  <2> HIDE DEF R, first, second, map
  <2>3. map = (Common(k) \o first) \o (IF private THEN second ELSE <<>>)
    BY Zenon, <2>1 DEF first, second
  <2>4. Grouping(k, first, second, private)
    BY <2>2, Grouped
  <2> QED BY Zenon, <2>3, <2>4 DEF Grouping, first, second
<1>5. Ec2Size(k, private) = KeyCommonSize(k, IF private THEN 5 ELSE 4) + 2
                            + (IF private THEN 3 ELSE 2) * s
  BY DEF Ec2Size
<1>6. KeyCommonSize(k, 4) \in Int /\ KeyCommonSize(k, 5) \in Int
  BY CommonSizes
<1> HIDE DEF a, b, c, d, s, map
<1>7. CASE private
  <2>1. Four(k, map, a, b, c, d)
    BY Zenon, <1>4, <1>7 DEF Four
  <2>2. /\ Encoded(k, map) = KeyCommonSize(k, 5) + EntrySize(k, a) + EntrySize(k, b)
                             + EntrySize(k, c) + EntrySize(k, d)
        /\ Roomy(k, map)
    BY <1>2, <2>1, FourExact
  <2>3. Ec2Size(k, private) = KeyCommonSize(k, 5) + 2 + 3 * s
    BY Zenon, <1>5, <1>7
  <2>4. Ec2Size(k, private) = Encoded(k, map)
    BY <1>2, <1>3, <1>6, <2>2, <2>3
  <2> QED BY <2>2, <2>4 DEF Exact, map
<1>8. CASE ~ private
  <2>1. Three(k, map, a, b, c)
    BY Zenon, <1>4, <1>8 DEF Three
  <2>2. /\ Encoded(k, map) = KeyCommonSize(k, 4) + EntrySize(k, a) + EntrySize(k, b)
                             + EntrySize(k, c)
        /\ Roomy(k, map)
    BY <1>2, <2>1, ThreeExact
  <2>3. Ec2Size(k, private) = KeyCommonSize(k, 4) + 2 + 2 * s
    BY Zenon, <1>5, <1>8
  <2>4. Ec2Size(k, private) = Encoded(k, map)
    BY <1>2, <1>3, <1>6, <2>2, <2>3
  <2> QED BY <2>2, <2>4 DEF Exact, map
<1> QED BY <1>7, <1>8

\* Octet key pairs.
LEMMA OkpExact ==
    ASSUME NEW k, Measured(k), k.kty = "OKP", NEW o, CrvSize[k.crv] \in Nat,
           NEW private \in BOOLEAN
    PROVE  Exact(k, OkpMap(k, o, private), OkpSize(k, private))
<1> DEFINE len == CrvSize[k.crv]
           map == OkpMap(k, o, private)
           a == Number("-1", k.crv)
           b == Bytes("-2", o.pub, len)
           d == Bytes("-4", o.priv, len)
           s == KeyBstrEntrySize(len)
<1>1. k.kty \notin {"RSA", "AKP"}
  OBVIOUS
<1>2. /\ Simple(k, a) /\ Simple(k, b) /\ Simple(k, d)
      /\ EntrySize(k, a) = 2 /\ EntrySize(k, b) = s /\ EntrySize(k, d) = s
  <2>1. ~ Reserved(k, b) /\ ~ Reserved(k, d)
    BY Zenon, <1>1, OrdinaryHeads
  <2> QED BY Zenon, <1>1, <2>1, CurveEntry, PlainBytes
<1>3. s \in Nat
  BY BstrEntrySizes
<1>4. map = Common(k) \o (IF private THEN <<a, b>> \o <<d>> ELSE <<a, b>>)
  <2>1. map = (Common(k) \o <<a, b>>) \o (IF private THEN <<d>> ELSE <<>>)
    BY DEF OkpMap
  <2> DEFINE R == {a, b, d}
             first == <<a, b>>
             second == <<d>>
  <2> HIDE DEF a, b, d
  <2>2. first \in Seq(R) /\ second \in Seq(R)
    OBVIOUS
  <2> HIDE DEF R, first, second, map
  <2>3. map = (Common(k) \o first) \o (IF private THEN second ELSE <<>>)
    BY Zenon, <2>1 DEF first, second
  <2>4. Grouping(k, first, second, private)
    BY <2>2, Grouped
  <2> QED BY Zenon, <2>3, <2>4 DEF Grouping, first, second
<1>5. OkpSize(k, private) = KeyCommonSize(k, IF private THEN 4 ELSE 3) + 2
                            + (IF private THEN 2 ELSE 1) * s
  BY DEF OkpSize
<1>6. KeyCommonSize(k, 3) \in Int /\ KeyCommonSize(k, 4) \in Int
  BY CommonSizes
<1> HIDE DEF a, b, d, s, map
<1>7. CASE private
  <2>1. Three(k, map, a, b, d)
    BY Zenon, <1>4, <1>7 DEF Three
  <2>2. /\ Encoded(k, map) = KeyCommonSize(k, 4) + EntrySize(k, a) + EntrySize(k, b)
                             + EntrySize(k, d)
        /\ Roomy(k, map)
    BY <1>2, <2>1, ThreeExact
  <2>3. OkpSize(k, private) = KeyCommonSize(k, 4) + 2 + 2 * s
    BY Zenon, <1>5, <1>7
  <2>4. OkpSize(k, private) = Encoded(k, map)
    BY <1>2, <1>3, <1>6, <2>2, <2>3
  <2> QED BY <2>2, <2>4 DEF Exact, map
<1>8. CASE ~ private
  <2>1. Two(k, map, a, b)
    BY Zenon, <1>4, <1>8 DEF Two
  <2>2. /\ Encoded(k, map) = KeyCommonSize(k, 3) + EntrySize(k, a) + EntrySize(k, b)
        /\ Roomy(k, map)
    BY <1>2, <2>1, TwoExact
  <2>3. OkpSize(k, private) = KeyCommonSize(k, 3) + 2 + 1 * s
    BY Zenon, <1>5, <1>8
  <2>4. OkpSize(k, private) = Encoded(k, map)
    BY <1>2, <1>3, <1>6, <2>2, <2>3
  <2> QED BY <2>2, <2>4 DEF Exact, map
<1> QED BY <1>7, <1>8

\* One byte string behind what keys have in common.
LEMMA OneStringExact ==
    ASSUME NEW k, Measured(k), k.kty \notin {"RSA", "AKP"}, NEW label, NEW val, NEW len \in Nat,
           NEW map, One(k, map, Bytes(label, val, len))
    PROVE  Exact(k, map, KeyCommonSize(k, 2) + KeyBstrEntrySize(len))
<1> DEFINE e == Bytes(label, val, len)
<1>1. Simple(k, e) /\ EntrySize(k, e) = KeyBstrEntrySize(len)
  BY Zenon, OrdinaryHeads, PlainBytes
<1> HIDE DEF e
<1>2. Encoded(k, map) = KeyCommonSize(k, 2) + EntrySize(k, e) /\ Roomy(k, map)
  <2>1. One(k, map, e)
    BY Zenon DEF e
  <2> QED BY <1>1, <2>1, OneExact
<1> QED BY <1>1, <1>2 DEF Exact

LEMMA LmsExact ==
    ASSUME NEW k, Measured(k), k.kty = "HSS-LMS", NEW o, o.n \in Nat
    PROVE  Exact(k, LmsMap(k, o), LmsSize(k, o))
<1>1. k.kty \notin {"RSA", "AKP"}
  OBVIOUS
<1>2. One(k, LmsMap(k, o), Bytes("-1", o.pub, o.n))
  BY Zenon DEF One, LmsMap
<1> QED BY Zenon, <1>1, <1>2, OneStringExact DEF LmsSize

LEMMA SymmetricExact ==
    ASSUME NEW k, Measured(k), k.kty = "Symmetric", k.union.len \in Nat
    PROVE  Exact(k, SymmetricMap(k), SymmetricSize(k))
<1>1. k.kty \notin {"RSA", "AKP"}
  OBVIOUS
<1>2. One(k, SymmetricMap(k), Bytes("-1", k.union.val, k.union.len))
  BY Zenon DEF One, SymmetricMap
<1> QED BY Zenon, <1>1, <1>2, OneStringExact DEF SymmetricSize

\* The reserved head of a long string leaves nothing over.
LEMMA LongString ==
    ASSUME NEW k, k.kty \in {"RSA", "AKP"}, NEW val, NEW len \in Nat, len >= 256
    PROVE  LET e == Bytes("-1", val, len)
           IN  /\ Reserved(k, e) /\ Sized(k, e) /\ EntrySize(k, e) = 4 + len
               /\ e.len = len /\ e.label = "-1"
<1> DEFINE e == Bytes("-1", val, len)
<1>1. Reserved(k, e) /\ e.len = len /\ e.label = "-1"
  BY DEF Reserved, Bytes
<1>2. Sized(k, e) /\ EntrySize(k, e) = 1 + ReservedBstrSize(len)
  <2>1. Takes(k, e, len)
    BY BytesEntry
  <2> QED BY Zenon, <1>1, <2>1 DEF Takes
<1>3. ReservedBstrSize(len) = len + 3
  BY HeadSizes
<1> HIDE DEF e
<1> QED BY <1>1, <1>2, <1>3 DEF e

Headed(k, e) == /\ Sized(k, e) /\ e.label = "-1"
                /\ e.len \in Nat /\ EntrySize(k, e) = 4 + e.len

\* A reserved string alone, and one with another string behind it.
LEMMA HeadedExact ==
    ASSUME NEW k, Measured(k), NEW a, NEW R, NEW rest \in Seq(R), Len(rest) = 1, rest[1] = a,
           Headed(k, a),
           NEW map, map = Common(k) \o rest
    PROVE  Encoded(k, map) = KeyCommonSize(k, 2) + 4 + a.len /\ Roomy(k, map)
<1>1. Rested(k, map, rest)
  <2>1. Len(rest) # 0 /\ \A j \in 1 .. Len(rest) : Sized(k, rest[j])
    BY DEF Headed
  <2> QED BY Zenon, <2>1, RestExact
<1>h. /\ Sized(k, a) /\ a.label = "-1" /\ a.len \in Nat
      /\ EntrySize(k, a) = 4 + a.len
  BY Zenon DEF Headed
<1> DEFINE at(j) == At(k, map, j)
<1>2. /\ at(0) = KeyCommonSize(k, 2) /\ at(0) \in Nat
      /\ at(1) = at(0) + EntrySize(k, a) /\ Encoded(k, map) = at(1)
  <2>1. /\ at(0) = KeyCommonSize(k, 1 + 1) /\ at(0) \in Nat
        /\ \A j \in 1 .. 1 : at(j) = at(j - 1) + EntrySize(k, rest[j])
        /\ Encoded(k, map) = at(1)
    BY Zenon, <1>1 DEF Rested
  <2> HIDE DEF at
  <2> QED BY <2>1
<1> HIDE DEF at
<1>3. Far(k, map, a, 1) <= at(1)
  <2>1. Far(k, map, a, 1) = at(0) + 4 + a.len + 0
    <3>1. 1 - 1 = 0 /\ a.label # "-3"
      BY <1>h
    <3> QED BY Zenon, <3>1 DEF Far, at
  <2> QED BY <1>h, <1>2, <2>1
<1>4. \A j \in 1 .. Len(rest) : Far(k, map, rest[j], j) <= at(Len(rest))
  <2>1. \A j \in 1 .. Len(rest) : j = 1
    OBVIOUS
  <2> QED BY Zenon, <1>3, <2>1
<1>5. Roomy(k, map)
  BY Zenon, <1>1, <1>4 DEF Rested, Roomy, at
<1>6. Encoded(k, map) = KeyCommonSize(k, 2) + 4 + a.len
  <2>1. Encoded(k, map) = KeyCommonSize(k, 2) + (4 + a.len)
    BY Zenon, <1>h, <1>2
  <2>2. KeyCommonSize(k, 2) \in Nat
    BY Zenon, <1>2
  <2>3. \A x \in Nat, y \in Nat : x + (4 + y) = x + 4 + y
    OBVIOUS
  <2> QED BY Zenon, <1>h, <2>1, <2>2, <2>3
<1> QED BY Zenon, <1>5, <1>6

LEMMA HeadedTwoExact ==
    ASSUME NEW k, Measured(k), NEW a, NEW b, NEW R, NEW rest \in Seq(R),
           Len(rest) = 2, rest[1] = a, rest[2] = b,
           Headed(k, a),
           Simple(k, b), EntrySize(k, b) \in Nat,
           NEW map, map = Common(k) \o rest
    PROVE  Encoded(k, map) = KeyCommonSize(k, 3) + 4 + a.len + EntrySize(k, b) /\ Roomy(k, map)
<1>0. \A j \in 1 .. Len(rest) : j = 1 \/ j = 2
  OBVIOUS
<1>1. Rested(k, map, rest)
  <2>1. Len(rest) # 0
    OBVIOUS
  <2>2. \A j \in 1 .. Len(rest) : Sized(k, rest[j])
    BY Zenon, <1>0 DEF Simple, Headed
  <2> QED BY Zenon, <2>1, <2>2, RestExact
<1>h. /\ Sized(k, a) /\ a.label = "-1" /\ a.len \in Nat
      /\ EntrySize(k, a) = 4 + a.len
  BY Zenon DEF Headed
<1> DEFINE at(j) == At(k, map, j)
<1>2. /\ at(0) = KeyCommonSize(k, 3) /\ at(0) \in Nat
      /\ at(1) = at(0) + EntrySize(k, a) /\ at(2) = at(1) + EntrySize(k, b)
      /\ Encoded(k, map) = at(2)
  <2>1. /\ at(0) = KeyCommonSize(k, 1 + 2) /\ at(0) \in Nat
        /\ \A j \in 1 .. 2 : at(j) = at(j - 1) + EntrySize(k, rest[j])
        /\ Encoded(k, map) = at(2)
    BY Zenon, <1>1 DEF Rested
  <2> HIDE DEF at
  <2>2. 1 \in 1 .. 2 /\ 2 \in 1 .. 2 /\ 1 + 2 = 3 /\ 1 - 1 = 0 /\ 2 - 1 = 1
    OBVIOUS
  <2> QED BY Zenon, <2>1, <2>2
<1> HIDE DEF at
<1>3. Far(k, map, a, 1) <= at(2)
  <2>1. Far(k, map, a, 1) = at(0) + 4 + a.len + 0
    <3>1. 1 - 1 = 0 /\ a.label # "-3"
      BY <1>h
    <3> QED BY Zenon, <3>1 DEF Far, at
  <2> QED BY <1>h, <1>2, <2>1
<1>4. \A j \in 1 .. Len(rest) : Reserved(k, rest[j]) => Far(k, map, rest[j], j) <= at(Len(rest))
  BY Zenon, <1>0, <1>3 DEF Simple
<1>5. Roomy(k, map)
  BY Zenon, <1>1, <1>4 DEF Rested, Roomy, at
<1>6. Encoded(k, map) = KeyCommonSize(k, 3) + 4 + a.len + EntrySize(k, b)
  <2>1. Encoded(k, map) = KeyCommonSize(k, 3) + (4 + a.len) + EntrySize(k, b)
    BY Zenon, <1>h, <1>2
  <2>2. KeyCommonSize(k, 3) \in Nat
    BY Zenon, <1>2
  <2>3. \A x \in Nat, y \in Nat, s \in Nat : x + (4 + y) + s = x + 4 + y + s
    OBVIOUS
  <2> QED BY Zenon, <1>h, <2>1, <2>2, <2>3
<1> QED BY Zenon, <1>5, <1>6

\* ML-DSA.
LEMMA AkpExact ==
    ASSUME NEW k, Measured(k), k.kty = "AKP", NEW o, o.n \in Nat, o.n >= 256,
           NEW private \in BOOLEAN
    PROVE  Exact(k, AkpMap(k, o, private), AkpSize(k, o, private))
<1> DEFINE map == AkpMap(k, o, private)
           len == o.n
           a == Bytes("-1", o.pub, len)
           b == Bytes("-2", k.seed, SeedSize)
           s == KeyBstrEntrySize(SeedSize)
           p == ReservedBstrSize(len)
<1>1. Reserved(k, a) /\ Sized(k, a) /\ EntrySize(k, a) = 4 + len /\ a.len = len /\ a.label = "-1"
  BY LongString
<1>2. Simple(k, b) /\ EntrySize(k, b) = s
  <2>1. SeedSize \in Nat
    BY DEF SeedSize
  <2>2. ~ Reserved(k, b)
    BY DEF Reserved, Bytes
  <2> QED BY Zenon, <2>1, <2>2, PlainBytes
<1>3. s \in Nat /\ p = len + 3 /\ len \in Nat
  <2>1. s \in Nat
    BY BstrEntrySizes DEF SeedSize
  <2>2. p = len + 3
    BY HeadSizes
  <2> QED BY <2>1, <2>2
<1>4. map = Common(k) \o (IF private THEN <<a>> \o <<b>> ELSE <<a>>)
  <2>1. map = (Common(k) \o <<a>>) \o (IF private THEN <<b>> ELSE <<>>)
    BY DEF AkpMap
  <2> DEFINE R == {a, b}
             first == <<a>>
             second == <<b>>
  <2> HIDE DEF a, b
  <2>2. first \in Seq(R) /\ second \in Seq(R)
    OBVIOUS
  <2> HIDE DEF R, first, second, map
  <2>3. map = (Common(k) \o first) \o (IF private THEN second ELSE <<>>)
    BY Zenon, <2>1 DEF first, second
  <2>4. Grouping(k, first, second, private)
    BY <2>2, Grouped
  <2> QED BY Zenon, <2>3, <2>4 DEF Grouping, first, second
<1>5. AkpSize(k, o, private) = KeyCommonSize(k, IF private THEN 3 ELSE 2) + 1 + p
                               + (IF private THEN s ELSE 0)
  BY DEF AkpSize
<1>6. KeyCommonSize(k, 3) \in Int /\ KeyCommonSize(k, 2) \in Int
  BY CommonSizes
<1> HIDE DEF a, b, s, p, map, len
<1>9. Headed(k, a)
  BY <1>1, <1>3 DEF Headed
<1>7. CASE private
  <2> DEFINE rest == <<a>> \o <<b>>
             R == {a, b}
  <2>1. rest \in Seq(R) /\ Len(rest) = 2 /\ rest[1] = a /\ rest[2] = b
    OBVIOUS
  <2>2. map = Common(k) \o rest
    BY Zenon, <1>4, <1>7
  <2> HIDE DEF rest, R
  <2>3. Encoded(k, map) = KeyCommonSize(k, 3) + 4 + a.len + s /\ Roomy(k, map)
    <3>1. s \in Nat /\ EntrySize(k, b) = s /\ Simple(k, b) /\ Headed(k, a)
      BY <1>2, <1>3, <1>9
    <3>2. /\ Encoded(k, map) = KeyCommonSize(k, 3) + 4 + a.len + EntrySize(k, b)
          /\ Roomy(k, map)
      BY Zenon, <2>1, <2>2, <3>1, HeadedTwoExact
    <3> QED BY Zenon, <3>1, <3>2
  <2>4. AkpSize(k, o, private) = KeyCommonSize(k, 3) + 1 + p + s
    BY Zenon, <1>5, <1>7
  <2>5. AkpSize(k, o, private) = Encoded(k, map)
    BY <1>1, <1>3, <1>6, <2>3, <2>4
  <2> QED BY <2>3, <2>5 DEF Exact, map
<1>8. CASE ~ private
  <2> DEFINE rest == <<a>>
             R == {a}
  <2>1. rest \in Seq(R) /\ Len(rest) = 1 /\ rest[1] = a
    OBVIOUS
  <2>2. map = Common(k) \o rest
    BY Zenon, <1>4, <1>8
  <2> HIDE DEF rest, R
  <2>3. Encoded(k, map) = KeyCommonSize(k, 2) + 4 + a.len /\ Roomy(k, map)
    BY Zenon, <1>9, <2>1, <2>2, HeadedExact
  <2>4. AkpSize(k, o, private) = KeyCommonSize(k, 2) + 1 + p + 0
    BY Zenon, <1>5, <1>8
  <2>5. AkpSize(k, o, private) = Encoded(k, map)
    BY <1>1, <1>3, <1>6, <2>3, <2>4
  <2> QED BY <2>3, <2>5 DEF Exact, map
<1> QED BY <1>7, <1>8

\* What a string of an RSA key takes.
Behind(k, e, label, len) == /\ Sized(k, e) /\ e.label = label /\ e.len = len
                            /\ EntrySize(k, e) = 1 + ReservedBstrSize(len)

LEMMA RsaHeaded ==
    ASSUME NEW k, k.kty = "RSA", NEW val, NEW len \in Nat, NEW label, label = "-1" \/ label = "-3"
    PROVE  Behind(k, Bytes(label, val, len), label, len)
<1>1. Takes(k, Bytes(label, val, len), len)
  BY Zenon, BytesEntry
<1>2. Reserved(k, Bytes(label, val, len))
  BY DEF Reserved, Bytes
<1>3. Bytes(label, val, len).label = label /\ Bytes(label, val, len).len = len
  BY DEF Bytes
<1> QED BY Zenon, <1>1, <1>2, <1>3 DEF Takes, Behind

Freely(k, e, len) == Simple(k, e) /\ EntrySize(k, e) = KeyBstrEntrySize(len)

LEMMA RsaPlain ==
    ASSUME NEW k, k.kty = "RSA", NEW val, NEW len \in Nat, NEW label, label \notin {"-1", "-3"}
    PROVE  Freely(k, Bytes(label, val, len), len)
<1>1. ~ Reserved(k, Bytes(label, val, len))
  BY DEF Reserved, Bytes
<1> QED BY Zenon, <1>1, PlainBytes DEF Freely

\* The entries of a public RSA key: a modulus behind a reserved head, an
\* exponent.
RsaPublic(k, a, b, len, p, q) ==
    /\ Sized(k, a) /\ a.label = "-1" /\ a.len = len /\ len \in Nat
    /\ p \in Nat /\ p >= len + 3 /\ EntrySize(k, a) = p
    /\ q \in Nat /\ q >= 3 /\ EntrySize(k, b) = q /\ Simple(k, b)

Follows(k, map, rest) == map = Common(k) \o rest

LEMMA RsaPublicExact ==
    ASSUME NEW k, Measured(k), NEW a, NEW b, NEW R, NEW rest \in Seq(R),
           Len(rest) = 2, rest[1] = a, rest[2] = b,
           NEW len, NEW p, NEW q, RsaPublic(k, a, b, len, p, q),
           NEW map, Follows(k, map, rest)
    PROVE  Encoded(k, map) = KeyCommonSize(k, 3) + p + q /\ Roomy(k, map)
<1>0. \A j \in 1 .. Len(rest) : j = 1 \/ j = 2
  OBVIOUS
<1>p. RsaPublic(k, a, b, len, p, q)
  OBVIOUS
<1>1. Rested(k, map, rest)
  <2>1. Len(rest) # 0
    OBVIOUS
  <2>2. \A j \in 1 .. Len(rest) : Sized(k, rest[j])
    BY Zenon, <1>0 DEF RsaPublic, Simple
  <2> QED BY Zenon, <2>1, <2>2, RestExact DEF Follows
<1> DEFINE at(j) == At(k, map, j)
<1>2. /\ at(0) = KeyCommonSize(k, 3) /\ at(0) \in Nat
      /\ at(1) = at(0) + p /\ at(2) = at(1) + q
      /\ Encoded(k, map) = at(2)
  <2>1. /\ at(0) = KeyCommonSize(k, 1 + 2) /\ at(0) \in Nat
        /\ \A j \in 1 .. 2 : at(j) = at(j - 1) + EntrySize(k, rest[j])
        /\ Encoded(k, map) = at(2)
    BY Zenon, <1>1 DEF Rested
  <2> HIDE DEF at
  <2>2. 1 \in 1 .. 2 /\ 2 \in 1 .. 2 /\ 1 + 2 = 3 /\ 1 - 1 = 0 /\ 2 - 1 = 1
    OBVIOUS
  <2> QED BY Zenon, <2>1, <2>2 DEF RsaPublic
<1> HIDE DEF at
<1>3. Far(k, map, a, 1) <= at(2)
  <2>1. Far(k, map, a, 1) = at(0) + 4 + len + 0
    <3>1. 1 - 1 = 0 /\ "-1" # "-3"
      OBVIOUS
    <3> QED BY Zenon, <3>1 DEF Far, at, RsaPublic
  <2>2. at(0) + 4 + len + 0 <= (at(0) + p) + q
    BY <1>2 DEF RsaPublic
  <2> QED BY Zenon, <1>2, <2>1, <2>2
<1>4. \A j \in 1 .. Len(rest) : Reserved(k, rest[j]) => Far(k, map, rest[j], j) <= at(Len(rest))
  BY Zenon, <1>0, <1>3 DEF RsaPublic, Simple
<1>5. Roomy(k, map)
  BY Zenon, <1>1, <1>4 DEF Rested, Roomy, at
<1>6. Encoded(k, map) = KeyCommonSize(k, 3) + p + q
  BY Zenon, <1>2
<1> QED BY Zenon, <1>5, <1>6

\* Where a private key ends, and what the modulus and d need before.
RsaEnd(x0, p, q, t) == (((((((x0 + p) + q) + p) + t) + t) + t) + t) + t

LEMMA RsaSums ==
    ASSUME NEW x0 \in Nat, NEW p \in Nat, NEW q \in Nat, NEW t \in Nat, NEW len \in Nat,
           p >= len + 3, q >= 3, t + t >= len + 4
    PROVE  /\ RsaEnd(x0, p, q, t) = x0 + p + q + (p + 5 * t)
           /\ x0 + 4 + len + 0 <= RsaEnd(x0, p, q, t)
           /\ ((x0 + p) + q) + 4 + len + (8 + 2 * len) <= RsaEnd(x0, p, q, t)
BY DEF RsaEnd

\* The entries of a private one: d with the scratch space behind it, and five
\* halves.
RsaPair(k, d, rest, len, p, t) ==
    /\ Sized(k, d) /\ d.label = "-3" /\ d.len = len /\ EntrySize(k, d) = p
    /\ t \in Nat /\ t + t >= len + 4
    /\ \A j \in 4 .. 8 : Simple(k, rest[j]) /\ EntrySize(k, rest[j]) = t

LEMMA RsaPrivateExact ==
    ASSUME NEW k, Measured(k), NEW a, NEW b, NEW d, NEW R, NEW rest \in Seq(R),
           Len(rest) = 8, rest[1] = a, rest[2] = b, rest[3] = d,
           NEW len, NEW p, NEW q, NEW t,
           RsaPublic(k, a, b, len, p, q), RsaPair(k, d, rest, len, p, t),
           NEW map, Follows(k, map, rest)
    PROVE  Encoded(k, map) = KeyCommonSize(k, 9) + p + q + (p + 5 * t) /\ Roomy(k, map)
<1>0. \A j \in 1 .. Len(rest) : j = 1 \/ j = 2 \/ j = 3 \/ j \in 4 .. 8
  OBVIOUS
<1>p. /\ len \in Nat /\ p \in Nat /\ q \in Nat /\ t \in Nat
      /\ p >= len + 3 /\ q >= 3 /\ t + t >= len + 4
  BY Zenon DEF RsaPublic, RsaPair
<1>1. Rested(k, map, rest)
  <2>1. Len(rest) # 0
    OBVIOUS
  <2>2. \A j \in 1 .. Len(rest) : Sized(k, rest[j])
    BY Zenon, <1>0 DEF RsaPublic, RsaPair, Simple
  <2> QED BY Zenon, <2>1, <2>2, RestExact DEF Follows
<1> DEFINE at(j) == At(k, map, j)
<1>2. /\ at(0) = KeyCommonSize(k, 9) /\ at(0) \in Nat
      /\ at(2) = (at(0) + p) + q /\ at(8) = RsaEnd(at(0), p, q, t)
      /\ Encoded(k, map) = at(8)
  <2>1. /\ at(0) = KeyCommonSize(k, 1 + 8) /\ at(0) \in Nat
        /\ \A j \in 1 .. 8 : at(j) = at(j - 1) + EntrySize(k, rest[j])
        /\ Encoded(k, map) = at(8)
    BY Zenon, <1>1 DEF Rested
  <2> HIDE DEF at
  <2>2. /\ 1 + 8 = 9 /\ \A j \in 4 .. 8 : j \in 1 .. 8
        /\ 1 \in 1 .. 8 /\ 2 \in 1 .. 8 /\ 3 \in 1 .. 8
        /\ 1 - 1 = 0 /\ 2 - 1 = 1 /\ 3 - 1 = 2
    OBVIOUS
  <2>3. at(1) = at(0) + p /\ at(2) = at(1) + q /\ at(3) = at(2) + p
    BY Zenon, <2>1, <2>2 DEF RsaPublic, RsaPair
  <2>4. \A j \in 4 .. 8 : at(j) = at(j - 1) + t
    BY Zenon, <2>1, <2>2 DEF RsaPair
  <2>5. /\ 4 \in 4 .. 8 /\ 5 \in 4 .. 8 /\ 6 \in 4 .. 8 /\ 7 \in 4 .. 8 /\ 8 \in 4 .. 8
        /\ 4 - 1 = 3 /\ 5 - 1 = 4 /\ 6 - 1 = 5 /\ 7 - 1 = 6 /\ 8 - 1 = 7
    OBVIOUS
  <2>6. at(4) = at(3) + t /\ at(5) = at(4) + t /\ at(6) = at(5) + t
        /\ at(7) = at(6) + t /\ at(8) = at(7) + t
    BY Zenon, <2>4, <2>5
  <2>7. at(8) = RsaEnd(at(0), p, q, t)
    BY Zenon, <2>3, <2>6 DEF RsaEnd
  <2>8. at(0) = KeyCommonSize(k, 9)
    BY Zenon, <2>1, <2>2
  <2> QED BY Zenon, <2>1, <2>3, <2>7, <2>8
<1> HIDE DEF at
<1>3. /\ at(8) = at(0) + p + q + (p + 5 * t)
      /\ at(0) + 4 + len + 0 <= at(8) /\ at(2) + 4 + len + (8 + 2 * len) <= at(8)
  <2> DEFINE x0 == at(0)
  <2>1. x0 \in Nat
    BY Zenon, <1>2
  <2> HIDE DEF x0
  <2>2. /\ RsaEnd(x0, p, q, t) = x0 + p + q + (p + 5 * t)
        /\ x0 + 4 + len + 0 <= RsaEnd(x0, p, q, t)
        /\ ((x0 + p) + q) + 4 + len + (8 + 2 * len) <= RsaEnd(x0, p, q, t)
    BY <1>p, <2>1, RsaSums
  <2> QED BY Zenon, <1>2, <2>2 DEF x0
<1>4. Far(k, map, a, 1) <= at(8)
  <2>1. Far(k, map, a, 1) = at(0) + 4 + len + 0
    <3>1. 1 - 1 = 0 /\ "-1" # "-3"
      OBVIOUS
    <3> QED BY Zenon, <3>1 DEF Far, at, RsaPublic
  <2> QED BY Zenon, <1>3, <2>1
<1>5. Far(k, map, d, 3) <= at(8)
  <2>1. Far(k, map, d, 3) = at(2) + 4 + len + (8 + 2 * len)
    <3>1. 3 - 1 = 2
      OBVIOUS
    <3> QED BY Zenon, <3>1 DEF Far, at, RsaPair
  <2> QED BY Zenon, <1>3, <2>1
<1>6. \A j \in 1 .. Len(rest) : Reserved(k, rest[j]) => Far(k, map, rest[j], j) <= at(Len(rest))
  BY Zenon, <1>0, <1>4, <1>5 DEF RsaPublic, RsaPair, Simple
<1>7. Roomy(k, map)
  BY Zenon, <1>1, <1>6 DEF Rested, Roomy, at
<1>8. Encoded(k, map) = KeyCommonSize(k, 9) + p + q + (p + 5 * t)
  BY Zenon, <1>2, <1>3
<1> QED BY Zenon, <1>7, <1>8

\* Half of a modulus, rounded up.
LEMMA Halves ==
    ASSUME NEW len \in Nat
    PROVE  /\ RsaHalf(len) \in Nat
           /\ len % 2 = 0 => RsaHalf(len) = (len + 1) \div 2 /\ RsaHalf(len) + RsaHalf(len) = len
BY DEF RsaHalf

\* The size of an RSA key, and how its entries are strung together.
LEMMA RsaSizeIs ==
    ASSUME NEW k, Measured(k), NEW o, o.n \in Nat, o.e \in Nat, NEW private \in BOOLEAN
    PROVE  RsaSize(k, o, private) =
               KeyCommonSize(k, IF private THEN 9 ELSE 3) + (1 + ReservedBstrSize(o.n))
               + KeyBstrEntrySize(o.e)
               + (IF private THEN (1 + ReservedBstrSize(o.n))
                                  + 5 * KeyBstrEntrySize((o.n + 1) \div 2) ELSE 0)
<1> DEFINE c == KeyCommonSize(k, IF private THEN 9 ELSE 3)
           r == ReservedBstrSize(o.n)
           q == KeyBstrEntrySize(o.e)
           h == KeyBstrEntrySize((o.n + 1) \div 2)
<1>1. RsaSize(k, o, private) = c + 1 + r + q + (IF private THEN 1 + r + 5 * h ELSE 0)
  BY DEF RsaSize
<1>2. c \in Int /\ r \in Int /\ h \in Int /\ q \in Int
  <2>1. KeyCommonSize(k, 9) \in Nat /\ KeyCommonSize(k, 3) \in Nat
    BY CommonSizes
  <2>2. r \in Int
    BY HeadSizes
  <2>3. h \in Int
    <3>1. (o.n + 1) \div 2 \in Nat
      OBVIOUS
    <3> QED BY <3>1, BstrEntrySizes
  <2>4. q \in Int
    BY BstrEntrySizes
  <2>5. c \in Int
    <3> DEFINE x == KeyCommonSize(k, 9)
               y == KeyCommonSize(k, 3)
    <3> HIDE DEF x, y
    <3>1. x \in Int /\ y \in Int
      BY <2>1 DEF x, y
    <3>2. c = IF private THEN x ELSE y
      BY Zenon DEF x, y
    <3> QED BY Zenon, <3>1, <3>2
  <2> QED BY <2>2, <2>3, <2>4, <2>5
<1> HIDE DEF c, r, h, q
<1>3. c + 1 + r + q + (IF private THEN 1 + r + 5 * h ELSE 0)
          = c + (1 + r) + q + (IF private THEN (1 + r) + 5 * h ELSE 0)
  <2>1. CASE private
    <3>1. c + 1 + r + q + (1 + r + 5 * h) = c + (1 + r) + q + ((1 + r) + 5 * h)
      BY <1>2
    <3> QED BY Zenon, <2>1, <3>1
  <2>2. CASE ~ private
    <3>1. c + 1 + r + q + 0 = c + (1 + r) + q + 0
      BY <1>2
    <3> QED BY Zenon, <2>2, <3>1
  <2> QED BY Zenon, <2>1, <2>2
<1> QED BY Zenon, <1>1, <1>3 DEF c, r, h, q

\* Two entries, a third and five more.
Strung(rest, R, a, b, d, F) ==
    /\ rest \in Seq(R) /\ Len(rest) = 8 /\ rest[1] = a /\ rest[2] = b /\ rest[3] = d
    /\ \A j \in 1 .. 5 : rest[3 + j] = F[j]

Joins(s, one, other) ==
    /\ Len(s) = Len(one) + Len(other)
    /\ \A i \in 1 .. Len(one) : s[i] = one[i]
    /\ \A j \in 1 .. Len(other) : s[Len(one) + j] = other[j]

LEMMA Join ==
    ASSUME NEW S, NEW one \in Seq(S), NEW other \in Seq(S)
    PROVE  one \o other \in Seq(S) /\ Joins(one \o other, one, other)
BY DEF Joins

LEMMA Strings ==
    ASSUME NEW R, NEW a \in R, NEW b \in R, NEW d \in R, NEW F \in Seq(R), Len(F) = 5
    PROVE  /\ Strung(<<a, b>> \o (<<d>> \o F), R, a, b, d, F)
           /\ <<d>> \o F \in Seq(R) /\ <<a, b>> \in Seq(R)
<1> DEFINE one == <<d>>
           first == <<a, b>>
           second == one \o F
           rest == first \o second
<1>1. one \in Seq(R) /\ Len(one) = 1 /\ one[1] = d
  OBVIOUS
<1>2. first \in Seq(R) /\ Len(first) = 2 /\ first[1] = a /\ first[2] = b
  OBVIOUS
<1> HIDE DEF one, first
<1>3. /\ second \in Seq(R) /\ Len(second) = 1 + 5
      /\ \A i \in 1 .. 1 : second[i] = one[i]
      /\ \A j \in 1 .. 5 : second[1 + j] = F[j]
  <2>1. one \o F \in Seq(R) /\ Joins(one \o F, one, F)
    BY <1>1, Join
  <2> QED BY Zenon, <1>1, <2>1 DEF Joins
<1> HIDE DEF second
<1>4. /\ rest \in Seq(R) /\ Len(rest) = 2 + Len(second)
      /\ \A i \in 1 .. 2 : rest[i] = first[i]
      /\ \A j \in 1 .. Len(second) : rest[2 + j] = second[j]
  <2>1. first \o second \in Seq(R) /\ Joins(first \o second, first, second)
    BY <1>2, <1>3, Join
  <2> QED BY Zenon, <1>2, <2>1 DEF Joins
<1> HIDE DEF rest
<1>5. Len(rest) = 8 /\ Len(second) = 6
  BY <1>3, <1>4
<1>6. rest[1] = a /\ rest[2] = b /\ rest[3] = d
  <2>1. 1 \in 1 .. 2 /\ 2 \in 1 .. 2 /\ 1 \in 1 .. 6 /\ 2 + 1 = 3 /\ 1 \in 1 .. 1
    OBVIOUS
  <2>2. rest[1] = a /\ rest[2] = b
    BY Zenon, <1>2, <1>4, <2>1
  <2>3. second[1] = d
    BY Zenon, <1>1, <1>3, <2>1
  <2>4. rest[2 + 1] = second[1]
    BY Zenon, <1>4, <1>5, <2>1
  <2> QED BY Zenon, <2>1, <2>2, <2>3, <2>4
<1>7. \A j \in 1 .. 5 : rest[3 + j] = F[j]
  <2> TAKE j \in 1 .. 5
  <2>1. 1 + j \in 1 .. 6 /\ 2 + (1 + j) = 3 + j
    OBVIOUS
  <2>2. second[1 + j] = F[j]
    BY Zenon, <1>3
  <2>3. 1 + j \in 1 .. Len(second)
    BY Zenon, <1>5, <2>1
  <2>4. rest[2 + (1 + j)] = second[1 + j]
    BY Zenon, <1>4, <2>3
  <2> QED BY Zenon, <2>1, <2>2, <2>4
<1>8. Strung(rest, R, a, b, d, F)
  BY Zenon, <1>4, <1>5, <1>6, <1>7 DEF Strung
<1> QED BY Zenon, <1>2, <1>3, <1>8 DEF one, first, second, rest

\* RSA: the modulus of a private key has an even length.
LEMMA RsaExact ==
    ASSUME NEW k, Measured(k), k.kty = "RSA", NEW o, o.n \in Nat, o.e \in Nat, o.n # 0, o.e # 0,
           NEW private \in BOOLEAN, private => o.n % 2 = 0
    PROVE  Exact(k, RsaMap(k, o, private), RsaSize(k, o, private))
<1> DEFINE map == RsaMap(k, o, private)
           len == o.n
           half == RsaHalf(len)
           a == Bytes("-1", o.pub, len)
           b == Bytes("-2", o.pub, o.e)
           d == Bytes("-3", o.priv, len)
           F == [i \in 1 .. 5 |-> Bytes(<<"-4", "-5", "-6", "-7", "-8">>[i], o.priv, half)]
           p == 1 + ReservedBstrSize(len)
           q == KeyBstrEntrySize(o.e)
           t == KeyBstrEntrySize(half)
<1>1. /\ len \in Nat /\ half \in Nat
      /\ private => half = (len + 1) \div 2 /\ half + half = len
  <2>1. len \in Nat /\ (private => len % 2 = 0)
    OBVIOUS
  <2> HIDE DEF len
  <2> QED BY Zenon, <2>1, Halves
<1>2. /\ p \in Nat /\ p >= len + 3 /\ q \in Nat /\ q >= 3 /\ t \in Nat /\ t >= half + 2
  <2> HIDE DEF half, len
  <2>1. p \in Nat /\ p >= len + 3
    <3>1. ReservedBstrSize(len) \in Nat /\ ReservedBstrSize(len) >= len + 2
      BY <1>1, HeadSizes
    <3> QED BY <1>1, <3>1
  <2>2. q \in Nat /\ q >= 3
    <3>1. q \in Nat /\ q >= o.e + 2 /\ o.e >= 1
      BY BstrEntrySizes
    <3> HIDE DEF q
    <3> QED BY <3>1
  <2>3. t \in Nat /\ t >= half + 2
    BY <1>1, BstrEntrySizes
  <2> QED BY <2>1, <2>2, <2>3
<1>3. Behind(k, a, "-1", len) /\ Behind(k, d, "-3", len)
  <2>1. "-1" = "-1" /\ "-3" = "-3"
    OBVIOUS
  <2> QED BY Zenon, <1>1, <2>1, RsaHeaded
<1>4. Freely(k, b, o.e)
  BY RsaPlain
<1>5. \A i \in 1 .. 5 : Freely(k, F[i], half)
  <2> TAKE i \in 1 .. 5
  <2> DEFINE label == <<"-4", "-5", "-6", "-7", "-8">>[i]
  <2>1. label \notin {"-1", "-3"}
    <3>1. i = 1 \/ i = 2 \/ i = 3 \/ i = 4 \/ i = 5
      OBVIOUS
    <3> QED BY <3>1
  <2>2. F[i] = Bytes(label, o.priv, half)
    OBVIOUS
  <2> HIDE DEF label, F, half
  <2>3. Freely(k, Bytes(label, o.priv, half), half)
    BY <1>1, <2>1, RsaPlain
  <2> QED BY Zenon, <2>2, <2>3
<1> DEFINE R == {a, b, d} \cup {F[i] : i \in 1 .. 5}
           first == <<a, b>>
           second == <<d>> \o F
<1>6. map = (Common(k) \o first) \o (IF private THEN second ELSE <<>>)
  BY DEF RsaMap
<1>7. RsaSize(k, o, private) =
          KeyCommonSize(k, IF private THEN 9 ELSE 3) + p + q
          + (IF private THEN p + 5 * KeyBstrEntrySize((len + 1) \div 2) ELSE 0)
  BY Zenon, RsaSizeIs
<1>8. Len(F) = 5 /\ F \in Seq(R)
  <2> HIDE DEF a, b, d, half
  <2> QED OBVIOUS
<1> HIDE DEF a, b, d, F, p, q, t, map, half, len
<1>9. a \in R /\ b \in R /\ d \in R
  OBVIOUS
<1> HIDE DEF R, first, second
<1>10. /\ Strung(first \o second, R, a, b, d, F)
       /\ second \in Seq(R) /\ first \in Seq(R)
  BY Zenon, <1>8, <1>9, Strings DEF first, second
<1>11. Grouping(k, first, second, private)
  BY <1>10, Grouped
<1>12. RsaPublic(k, a, b, len, p, q)
  BY Zenon, <1>1, <1>2, <1>3, <1>4 DEF RsaPublic, Behind, Freely, p, q
<1>13. ASSUME private PROVE Exact(k, map, RsaSize(k, o, private))
  <2> DEFINE rest == first \o second
  <2>1. map = Common(k) \o rest
    BY Zenon, <1>6, <1>11, <1>13 DEF Grouping
  <2> HIDE DEF rest
  <2>2. /\ rest \in Seq(R) /\ Len(rest) = 8 /\ rest[1] = a /\ rest[2] = b /\ rest[3] = d
        /\ \A j \in 1 .. 5 : rest[3 + j] = F[j]
    BY Zenon, <1>10 DEF Strung, rest
  <2>3. \A j \in 4 .. 8 : Simple(k, rest[j]) /\ EntrySize(k, rest[j]) = t
    <3> TAKE j \in 4 .. 8
    <3>1. j - 3 \in 1 .. 5 /\ 3 + (j - 3) = j
      OBVIOUS
    <3> QED BY Zenon, <1>5, <2>2, <3>1 DEF Freely, t
  <2>4. t + t >= len + 4
    BY <1>1, <1>2, <1>13
  <2>5. RsaPair(k, d, rest, len, p, t)
    BY Zenon, <1>2, <1>3, <2>3, <2>4 DEF RsaPair, Behind, p
  <2>6. Encoded(k, map) = KeyCommonSize(k, 9) + p + q + (p + 5 * t) /\ Roomy(k, map)
    <3>1. Follows(k, map, rest)
      BY Zenon, <2>1 DEF Follows
    <3> QED BY Zenon, <1>12, <2>2, <2>5, <3>1, RsaPrivateExact
  <2>7. RsaSize(k, o, private) = KeyCommonSize(k, 9) + p + q + (p + 5 * t)
    BY Zenon, <1>1, <1>7, <1>13 DEF t
  <2> QED BY Zenon, <2>6, <2>7 DEF Exact
<1>14. ASSUME ~ private PROVE Exact(k, map, RsaSize(k, o, private))
  <2>1. map = Common(k) \o first
    BY Zenon, <1>6, <1>11, <1>14 DEF Grouping
  <2>2. Len(first) = 2 /\ first[1] = a /\ first[2] = b
    BY DEF first
  <2>3. Encoded(k, map) = KeyCommonSize(k, 3) + p + q /\ Roomy(k, map)
    <3>1. Follows(k, map, first)
      BY Zenon, <2>1 DEF Follows
    <3> QED BY Zenon, <1>10, <1>12, <2>2, <3>1, RsaPublicExact
  <2>4. RsaSize(k, o, private) = KeyCommonSize(k, 3) + p + q + 0
    BY Zenon, <1>7, <1>14
  <2>5. KeyCommonSize(k, 3) + p + q + 0 = KeyCommonSize(k, 3) + p + q
    <3>1. KeyCommonSize(k, 3) \in Nat
      BY CommonSizes
    <3> DEFINE c == KeyCommonSize(k, 3)
    <3> HIDE DEF c
    <3>2. c \in Nat
      BY Zenon, <3>1 DEF c
    <3>3. c + p + q + 0 = c + p + q
      BY <1>2, <3>2
    <3> QED BY Zenon, <3>3 DEF c
  <2> QED BY Zenon, <2>3, <2>4, <2>5 DEF Exact
<1> QED BY Zenon, <1>13, <1>14 DEF map

\* What is claimed of the size of a key.
Sizes(k, o, public) == /\ SizeCode(k, o, public) = "ok"
                       /\ Exact(k, Map(k, o, public), Size(k, o, public))

LEMMA MeasuredKey ==
    ASSUME NEW k, NEW o, KeyFits(k, o)
    PROVE  Measured(k) /\ k.union.len \in Nat
<1>1. k \in Key /\ k.alg \in DOMAIN AlgInt
  BY DEF KeyFits
<1>2. k.kid \in Kid /\ k.union \in Kid
  BY <1>1 DEF Key
<1>3. AlgInt[k.alg] \in Int
  BY <1>1, AlgsAssumption
<1> QED BY <1>2, <1>3 DEF Measured, Kid

LEMMA EmitsBooleans ==
    ASSUME NEW k, NEW o, KeyFits(k, o), ObjFits(o), NEW public \in BOOLEAN
    PROVE  /\ KeyEmitsPrivate(k, public) \in BOOLEAN
           /\ EmitsRsa(k, o, public) \in BOOLEAN /\ EmitsMlDsa(k, public) \in BOOLEAN
BY DEF KeyEmitsPrivate, EmitsRsa, EmitsMlDsa

LEMMA Ec2Sizes ==
    ASSUME NEW k, NEW o, NEW public \in BOOLEAN, KeyFits(k, o), ObjFits(o), ~ Misreads(k, o),
           EncodeCode(k, o, public) = "ok", k.kty = "EC2"
    PROVE  Sizes(k, o, public)
<1> DEFINE private == KeyEmitsPrivate(k, public)
           a == NoObject(k)
           b == IF Ec2Curve(k, o) = "alg" THEN "alg" ELSE NoPublic(o)
           c == Ec2Curve(k, o)
           d == Fails(private /\ ~ Holds(o, "priv"), "crypto")
<1>1. First(<<a, b, c, d>>) = "ok"
  BY DEF EncodeCode, Ec2EncodeCode
<1>2. SizeCode(k, o, public) = First(<<a, c>>)
  BY DEF SizeCode
<1> HIDE DEF a, b, c, d
<1>3. a = "ok" /\ c = "ok"
  BY <1>1, FourOf
<1>4. SizeCode(k, o, public) = "ok"
  BY <1>2, <1>3, PairOf
<1>5. k.crv \in DOMAIN CrvSize /\ o.n = CrvSize[k.crv]
  <2> DEFINE x == Fails(k.crv \notin DOMAIN CrvSize, "alg")
             y == Fails(k.crv \in DOMAIN CrvSize /\ o.n # CrvSize[k.crv], "key")
  <2>1. First(<<x, y>>) = "ok"
    BY <1>3 DEF c, Ec2Curve
  <2> HIDE DEF x, y
  <2>2. x = "ok" /\ y = "ok"
    BY <2>1, PairOf
  <2>3. k.crv \in DOMAIN CrvSize
    BY <2>2 DEF x, Fails
  <2> QED BY <2>2, <2>3 DEF y, Fails
<1>6. CrvSize[k.crv] \in Nat
  BY <1>5 DEF ObjFits, Object
<1>7. Map(k, o, public) = Ec2Map(k, o.pub, o.priv, CrvSize[k.crv], private)
  BY <1>5 DEF Map
<1>8. Size(k, o, public) = Ec2Size(k, private)
  BY DEF Size
<1>9. private \in BOOLEAN
  BY EmitsBooleans
<1> HIDE DEF private
<1>10. Exact(k, Ec2Map(k, o.pub, o.priv, CrvSize[k.crv], private), Ec2Size(k, private))
  BY Zenon, <1>6, <1>9, MeasuredKey, Ec2Exact
<1> QED BY Zenon, <1>4, <1>7, <1>8, <1>10 DEF Sizes

LEMMA OkpSizes ==
    ASSUME NEW k, NEW o, NEW public \in BOOLEAN, KeyFits(k, o), ObjFits(o), ~ Misreads(k, o),
           EncodeCode(k, o, public) = "ok", k.kty = "OKP"
    PROVE  Sizes(k, o, public)
<1> DEFINE private == KeyEmitsPrivate(k, public)
<1>1. First(<<OkpCurve(k), NoPublic(o)>>) = "ok"
  BY DEF EncodeCode
<1>2. OkpCurve(k) = "ok"
  BY <1>1, PairOf
<1>3. SizeCode(k, o, public) = "ok"
  BY <1>2 DEF SizeCode
<1>4. k.crv \in OkpCurves
  <2> DEFINE x == Fails(k.crv \notin OkpCurves, "alg")
  <2>1. First(<<x, NoObject(k)>>) = "ok"
    BY <1>2 DEF OkpCurve
  <2> HIDE DEF x
  <2>2. x = "ok"
    BY <2>1, PairOf
  <2> QED BY <2>2 DEF x, Fails
<1>5. CrvSize[k.crv] \in Nat
  BY <1>4 DEF CrvSize, OkpCurves
<1>6. Map(k, o, public) = OkpMap(k, o, private)
  BY DEF Map
<1>7. Size(k, o, public) = OkpSize(k, private)
  BY DEF Size
<1>8. private \in BOOLEAN
  BY EmitsBooleans
<1> HIDE DEF private
<1>9. Exact(k, OkpMap(k, o, private), OkpSize(k, private))
  BY Zenon, <1>5, <1>8, MeasuredKey, OkpExact
<1> QED BY Zenon, <1>3, <1>6, <1>7, <1>9 DEF Sizes

LEMMA RsaSizes ==
    ASSUME NEW k, NEW o, NEW public \in BOOLEAN, KeyFits(k, o), ObjFits(o), ~ Misreads(k, o),
           EncodeCode(k, o, public) = "ok", k.kty = "RSA"
    PROVE  Sizes(k, o, public)
<1> DEFINE private == EmitsRsa(k, o, public)
           a == NoObject(k)
           b == NoPublic(o)
           c == Fails(private /\ o.n % 2 = 1, "crypto")
           z == Fails(o.n = 0, "crypto")
<1>1. First(<<a, b, c>>) = "ok"
  BY DEF EncodeCode, RsaEncodeCode
<1>2. SizeCode(k, o, public) = First(<<a, z>>)
  BY DEF SizeCode
<1> HIDE DEF a, b, c, z
<1>3. a = "ok" /\ b = "ok" /\ c = "ok"
  BY <1>1, TripleOf
<1>4. k.union.val = "object"
  <2>1. Reads(k) \in Kinds
    BY DEF Reads, Kinds
  <2> QED BY <1>3, <2>1, ReadsObject DEF a
<1>5. o.kind = "rsa"
  BY <1>4 DEF Misreads, Reads, Member, ObjFits, Object, Kinds
<1>6. o.n \in Nat /\ o.e \in Nat /\ o.n # 0 /\ o.e # 0
  BY <1>3, <1>5 DEF b, NoPublic, Fails, Holds, ObjFits, Object, Whole
<1>7. private => o.n % 2 = 0
  BY <1>3, <1>6 DEF c, Fails
<1>8. SizeCode(k, o, public) = "ok"
  <2>1. z = "ok"
    BY <1>6 DEF z, Fails
  <2> QED BY <1>2, <1>3, <2>1, PairOf
<1>9. Map(k, o, public) = RsaMap(k, o, private)
  BY DEF Map
<1>10. Size(k, o, public) = RsaSize(k, o, private)
  BY DEF Size
<1>11. private \in BOOLEAN
  BY EmitsBooleans
<1> HIDE DEF private
<1>12. Exact(k, RsaMap(k, o, private), RsaSize(k, o, private))
  BY Zenon, <1>6, <1>7, <1>11, MeasuredKey, RsaExact
<1> QED BY Zenon, <1>8, <1>9, <1>10, <1>12 DEF Sizes

LEMMA AkpSizes ==
    ASSUME NEW k, NEW o, NEW public \in BOOLEAN, KeyFits(k, o), ObjFits(o), ~ Misreads(k, o),
           EncodeCode(k, o, public) = "ok", k.kty = "AKP"
    PROVE  Sizes(k, o, public)
<1> DEFINE private == EmitsMlDsa(k, public)
           a == NoObject(k)
           b == Fails(k.alg = "unset", "alg")
           c == NoPublic(o)
           z == Fails(o.par = "none", "crypto")
<1>1. First(<<a, b, c>>) = "ok"
  BY DEF EncodeCode, AkpEncodeCode
<1>2. SizeCode(k, o, public) = First(<<a, b, z>>)
  BY DEF SizeCode
<1> HIDE DEF a, b, c, z
<1>3. a = "ok" /\ b = "ok" /\ c = "ok"
  BY <1>1, TripleOf
<1>4. k.union.val = "object"
  <2>1. Reads(k) \in Kinds
    BY DEF Reads, Kinds
  <2> QED BY <1>3, <2>1, ReadsObject DEF a
<1>5. o.kind = "mldsa"
  BY <1>4 DEF Misreads, Reads, Member, ObjFits, Object, Kinds
<1>6. o.par \in DOMAIN MlDsaPubLen /\ o.n = MlDsaPubLen[o.par]
  BY <1>3, <1>5 DEF c, NoPublic, Fails, Holds, ObjFits, Whole
<1>7. o.n \in Nat /\ o.n >= 256 /\ o.par # "none"
  BY <1>6, AlgsAssumption
<1>8. SizeCode(k, o, public) = "ok"
  <2>1. z = "ok"
    BY <1>7 DEF z, Fails
  <2> QED BY <1>2, <1>3, <2>1, TripleOf
<1>9. Map(k, o, public) = AkpMap(k, o, private)
  BY DEF Map
<1>10. Size(k, o, public) = AkpSize(k, o, private)
  BY DEF Size
<1>11. private \in BOOLEAN
  BY EmitsBooleans
<1> HIDE DEF private
<1>12. Exact(k, AkpMap(k, o, private), AkpSize(k, o, private))
  BY Zenon, <1>7, <1>11, MeasuredKey, AkpExact
<1> QED BY Zenon, <1>8, <1>9, <1>10, <1>12 DEF Sizes

LEMMA LmsSizes ==
    ASSUME NEW k, NEW o, NEW public \in BOOLEAN, KeyFits(k, o), ObjFits(o), ~ Misreads(k, o),
           EncodeCode(k, o, public) = "ok", k.kty = "HSS-LMS"
    PROVE  Sizes(k, o, public)
<1>1. SizeCode(k, o, public) = "ok"
  BY DEF SizeCode
<1>2. o.n \in Nat
  BY DEF ObjFits, Object
<1>3. Map(k, o, public) = LmsMap(k, o)
  BY DEF Map
<1>4. Size(k, o, public) = LmsSize(k, o)
  BY DEF Size
<1>5. Exact(k, LmsMap(k, o), LmsSize(k, o))
  BY Zenon, <1>2, MeasuredKey, LmsExact
<1> QED BY Zenon, <1>1, <1>3, <1>4, <1>5 DEF Sizes

LEMMA SymmetricSizes ==
    ASSUME NEW k, NEW o, NEW public \in BOOLEAN, KeyFits(k, o), ObjFits(o), ~ Misreads(k, o),
           EncodeCode(k, o, public) = "ok", k.kty = "Symmetric"
    PROVE  Sizes(k, o, public)
<1>1. SizeCode(k, o, public) = "ok"
  BY DEF SizeCode
<1>2. Map(k, o, public) = SymmetricMap(k)
  BY DEF Map
<1>3. Size(k, o, public) = SymmetricSize(k)
  BY DEF Size
<1>4. Exact(k, SymmetricMap(k), SymmetricSize(k))
  BY Zenon, MeasuredKey, SymmetricExact
<1> QED BY Zenon, <1>1, <1>2, <1>3, <1>4 DEF Sizes

LEMMA EverySize ==
    ASSUME NEW k, NEW o, NEW public \in BOOLEAN, KeyFits(k, o), ObjFits(o), ~ Misreads(k, o),
           EncodeCode(k, o, public) = "ok"
    PROVE  Sizes(k, o, public)
<1>1. k.kty \in {"EC2", "RSA", "AKP", "HSS-LMS", "OKP", "Symmetric"}
  BY DEF EncodeCode
<1> QED BY <1>1, Ec2Sizes, RsaSizes, AkpSizes, LmsSizes, OkpSizes, SymmetricSizes

LEMMA SizeInv == IInv => SizeExact
<1> SUFFICES ASSUME IInv, NEW public \in BOOLEAN, ~ Misreads(key, obj),
                    EncodeCode(key, obj, public) = "ok"
             PROVE  LET map  == Map(key, obj, public)
                        size == Size(key, obj, public)
                    IN  /\ SizeCode(key, obj, public) = "ok"
                        /\ size = Encoded(key, map)
                        /\ RoomCode(key, map, size) = "ok"
                        /\ RoomCode(key, map, size - 1) # "ok"
  BY Zenon DEF SizeExact
<1>1. KeyFits(key, obj) /\ ObjFits(obj)
  BY DEF IInv, Keyed
<1>2. Sizes(key, obj, public)
  BY Zenon, <1>1, EverySize
<1> QED BY Zenon, <1>2 DEF Sizes, Exact, Roomy

-----------------------------------------------------------------------------
(* What is encoded lists its entries.                                      *)

\* At most c entries, each of E and none of them twice.
Lists(s, E, c) ==
    /\ s \in Seq(E) /\ Len(s) \in Nat /\ Len(s) <= c
    /\ \A e \in E : \E i \in 1 .. Len(s) : s[i] = e
    /\ \A i, j \in 1 .. Len(s) : s[i].label = s[j].label => i = j

\* No label is one of both.
Apart(E, F) == \A e \in E, f \in F : e.label # f.label

LEMMA ListsJoin ==
    ASSUME NEW E, NEW F, NEW c \in Nat, NEW d \in Nat, NEW s, NEW t,
           Lists(s, E, c), Lists(t, F, d), Apart(E, F)
    PROVE  Lists(s \o t, E \cup F, c + d)
<1> DEFINE G == E \cup F
           u == s \o t
           p == Len(s)
           q == Len(t)
<1>1. s \in Seq(G) /\ t \in Seq(G)
  BY DEF Lists
<1>2. /\ u \in Seq(G) /\ Len(u) = p + q /\ p \in Nat /\ q \in Nat
      /\ \A i \in 1 .. p : u[i] = s[i]
      /\ \A j \in 1 .. q : u[p + j] = t[j]
  <2> HIDE DEF G
  <2> QED BY <1>1
<1>3. p <= c /\ q <= d
  BY DEF Lists
<1>4. \A i \in 1 .. p : s[i] \in E
  BY DEF Lists
<1>5. \A j \in 1 .. q : t[j] \in F
  BY DEF Lists
<1>6. ASSUME NEW e \in G PROVE \E i \in 1 .. Len(u) : u[i] = e
  <2>1. CASE e \in E
    <3>1. PICK i \in 1 .. p : s[i] = e
      BY <2>1 DEF Lists
    <3> HIDE DEF u, p, q, G
    <3>2. i \in 1 .. Len(u) /\ u[i] = e
      BY <1>2, <3>1
    <3> QED BY <3>2
  <2>2. CASE e \in F
    <3>1. PICK j \in 1 .. q : t[j] = e
      BY <2>2 DEF Lists
    <3> HIDE DEF u, p, q, G
    <3>2. p + j \in 1 .. Len(u) /\ u[p + j] = e
      BY <1>2, <3>1
    <3> QED BY <3>2
  <2> QED BY <2>1, <2>2
<1>7. ASSUME NEW i \in 1 .. Len(u), NEW j \in 1 .. Len(u), u[i].label = u[j].label
      PROVE  i = j
  <2> HIDE DEF u, p, q, G
  <2>1. ASSUME NEW l \in 1 .. Len(u), ~ (l <= p)
        PROVE  l - p \in 1 .. q /\ u[l] = t[l - p]
    <3>1. l - p \in 1 .. q /\ p + (l - p) = l
      BY <1>2, <2>1
    <3> QED BY <1>2, <3>1
  <2>2. CASE i <= p /\ j <= p
    <3>1. i \in 1 .. p /\ j \in 1 .. p
      BY <1>2, <2>2
    <3>2. s[i].label = s[j].label
      BY <1>2, <1>7, <3>1
    <3> QED BY <3>1, <3>2 DEF Lists, p
  <2>3. CASE i <= p /\ ~ (j <= p)
    <3>1. i \in 1 .. p
      BY <1>2, <2>3
    <3>2. s[i] \in E /\ t[j - p] \in F /\ u[i] = s[i] /\ u[j] = t[j - p]
      BY <1>2, <1>4, <1>5, <2>1, <2>3, <3>1
    <3> QED BY <1>7, <3>2 DEF Apart
  <2>4. CASE ~ (i <= p) /\ j <= p
    <3>1. j \in 1 .. p
      BY <1>2, <2>4
    <3>2. s[j] \in E /\ t[i - p] \in F /\ u[j] = s[j] /\ u[i] = t[i - p]
      BY <1>2, <1>4, <1>5, <2>1, <2>4, <3>1
    <3> QED BY <1>7, <3>2 DEF Apart
  <2>5. CASE ~ (i <= p) /\ ~ (j <= p)
    <3>1. /\ i - p \in 1 .. q /\ u[i] = t[i - p]
          /\ j - p \in 1 .. q /\ u[j] = t[j - p]
      BY <2>1, <2>5
    <3>2. i - p = j - p
      BY <1>7, <3>1 DEF Lists, q
    <3> QED BY <1>2, <3>2
  <2> QED BY <2>2, <2>3, <2>4, <2>5
<1>8. Len(u) \in Nat /\ Len(u) <= c + d
  <2> HIDE DEF u, p, q
  <2> QED BY <1>2, <1>3
<1> HIDE DEF u, G, p, q
<1>9. Lists(u, G, c + d)
  BY <1>2, <1>6, <1>7, <1>8 DEF Lists
<1> QED BY <1>9 DEF u, G

LEMMA ListsNone == \A s : s = <<>> => Lists(s, {}, 0)
<1> SUFFICES Lists(<<>>, {}, 0)
  OBVIOUS
<1>1. <<>> \in Seq({}) /\ Len(<<>>) = 0
  OBVIOUS
<1> QED BY <1>1 DEF Lists

LEMMA ListsOne == ASSUME NEW a PROVE Lists(<<a>>, {a}, 1)
<1> DEFINE s == <<a>>
           E == {a}
<1>1. s \in Seq(E) /\ Len(s) = 1 /\ s[1] = a /\ 1 .. 1 = {1} /\ \A e \in E : e = a
  OBVIOUS
<1> HIDE DEF s, E
<1>2. Lists(s, E, 1)
  BY <1>1 DEF Lists
<1> QED BY <1>2 DEF s, E

\* An entry that may be there.
Maybe(there, a)    == IF there THEN {a} ELSE {}
MaybeSeq(there, a) == IF there THEN <<a>> ELSE <<>>

LEMMA ListsMaybe == ASSUME NEW there, NEW a PROVE Lists(MaybeSeq(there, a), Maybe(there, a), 1)
<1>1. CASE there
  <2>1. MaybeSeq(there, a) = <<a>> /\ Maybe(there, a) = {a}
    BY <1>1 DEF MaybeSeq, Maybe
  <2> QED BY Zenon, <2>1, ListsOne
<1>2. CASE ~ there
  <2>1. MaybeSeq(there, a) = <<>> /\ Maybe(there, a) = {}
    BY <1>2 DEF MaybeSeq, Maybe
  <2>2. Lists(<<>>, {}, 0)
    BY Zenon, ListsNone
  <2>3. Lists(<<>>, {}, 1)
    BY <2>2 DEF Lists
  <2> QED BY Zenon, <2>1, <2>3
<1> QED BY <1>1, <1>2

LEMMA ListsTwo == ASSUME NEW a, NEW b, a.label # b.label PROVE Lists(<<a, b>>, {a, b}, 2)
<1> DEFINE s == <<a, b>>
           E == {a, b}
<1>1. /\ s \in Seq(E) /\ Len(s) = 2 /\ s[1] = a /\ s[2] = b /\ 1 .. 2 = {1, 2}
      /\ \A e \in E : e = a \/ e = b
  OBVIOUS
<1> HIDE DEF s, E
<1>2. Lists(s, E, 2)
  BY <1>1 DEF Lists
<1> QED BY <1>2 DEF s, E

LEMMA ListsThree ==
    ASSUME NEW a, NEW b, NEW c, a.label # b.label, a.label # c.label, b.label # c.label
    PROVE  Lists(<<a, b, c>>, {a, b, c}, 3)
<1> DEFINE s == <<a, b, c>>
           E == {a, b, c}
<1>1. /\ s \in Seq(E) /\ Len(s) = 3 /\ s[1] = a /\ s[2] = b /\ s[3] = c /\ 1 .. 3 = {1, 2, 3}
      /\ \A e \in E : e = a \/ e = b \/ e = c
  OBVIOUS
<1> HIDE DEF s, E
<1>2. Lists(s, E, 3)
  BY <1>1 DEF Lists
<1> QED BY <1>2 DEF s, E

\* The five factors of an RSA private key.
FactorLabels == {"-4", "-5", "-6", "-7", "-8"}
Factors(pair, len)   == {Bytes(l, pair, len) : l \in FactorLabels}
FactorSeq(pair, len) == [i \in 1 .. 5 |-> Bytes(<<"-4", "-5", "-6", "-7", "-8">>[i], pair, len)]

LEMMA ListsFactors == ASSUME NEW pair, NEW len PROVE Lists(FactorSeq(pair, len), Factors(pair, len), 5)
<1> DEFINE L == <<"-4", "-5", "-6", "-7", "-8">>
           s == FactorSeq(pair, len)
           E == Factors(pair, len)
<1>1. /\ \A i \in 1 .. 5 : L[i] \in FactorLabels
      /\ \A l \in FactorLabels : \E i \in 1 .. 5 : L[i] = l
      /\ \A i, j \in 1 .. 5 : L[i] = L[j] => i = j
  <2>1. L[1] = "-4" /\ L[2] = "-5" /\ L[3] = "-6" /\ L[4] = "-7" /\ L[5] = "-8"
    OBVIOUS
  <2> HIDE DEF L
  <2>2. 1 .. 5 = {1, 2, 3, 4, 5}
    OBVIOUS
  <2>3. \A i \in 1 .. 5 : L[i] \in FactorLabels
    BY <2>1, <2>2 DEF FactorLabels
  <2>4. \A l \in FactorLabels : \E i \in 1 .. 5 : L[i] = l
    BY <2>1 DEF FactorLabels
  <2>5. \A i, j \in 1 .. 5 : L[i] = L[j] => i = j
    BY <2>1, <2>2
  <2> QED BY <2>3, <2>4, <2>5
<1>2. \A l : Bytes(l, pair, len).label = l
  BY DEF Bytes
<1>3. s = [i \in 1 .. 5 |-> Bytes(L[i], pair, len)]
  BY DEF FactorSeq
<1> HIDE DEF L, s
<1>4. \A i \in 1 .. 5 : s[i] = Bytes(L[i], pair, len)
  BY <1>3
<1>5. \A i \in 1 .. 5 : s[i] \in E
  BY <1>1, <1>4 DEF Factors
<1> HIDE DEF E
<1>6. \A i \in 1 .. 5 : Bytes(L[i], pair, len) \in E
  BY <1>4, <1>5
<1>7. s \in Seq(E) /\ Len(s) = 5
  BY <1>3, <1>6
<1>8. \A e \in E : \E i \in 1 .. 5 : s[i] = e
  <2> TAKE e \in E
  <2>1. PICK l \in FactorLabels : e = Bytes(l, pair, len)
    BY DEF E, Factors
  <2>2. PICK i \in 1 .. 5 : L[i] = l
    BY <1>1
  <2> QED BY <1>4, <2>1, <2>2
<1>9. \A i, j \in 1 .. 5 : s[i].label = s[j].label => i = j
  BY <1>1, <1>2, <1>4
<1>10. Lists(s, E, 5)
  BY <1>7, <1>8, <1>9 DEF Lists
<1> QED BY <1>10 DEF s, E

\* The entries of a key, in any order: those that keys have in common,
Commons(k) == {Number("kty", k.kty)}
              \cup (Maybe(k.kid.len > 0, Bytes("kid", k.kid.val, k.kid.len))
                    \cup Maybe(k.alg # "unset", Number("alg", k.alg)))

\* and those of its type.
Ec2Own(k, o, private) == {Number("-1", k.crv), Bytes("-2", o.pub, o.n), Bytes("-3", o.pub, o.n)}
                         \cup Maybe(private, Bytes("-4", o.priv, o.n))
RsaPrivates(o)        == {Bytes("-3", o.priv, o.n)} \cup Factors(o.priv, RsaHalf(o.n))
RsaOwn(o, private)    == {Bytes("-1", o.pub, o.n), Bytes("-2", o.pub, o.e)}
                         \cup (IF private THEN RsaPrivates(o) ELSE {})
AkpOwn(k, o, private) == {Bytes("-1", o.pub, o.n)} \cup Maybe(private, Bytes("-2", k.seed, SeedSize))
LmsOwn(o)             == {Bytes("-1", o.pub, o.n)}
OkpOwn(k, o, private) == {Number("-1", k.crv), Bytes("-2", o.pub, CrvSize[k.crv])}
                         \cup Maybe(private, Bytes("-4", o.priv, CrvSize[k.crv]))
SymmetricOwn(k)       == {Bytes("-1", k.union.val, k.union.len)}

Own(k, o, public) ==
    CASE k.kty = "EC2"     -> Ec2Own(k, o, KeyEmitsPrivate(k, public))
      [] k.kty = "RSA"     -> RsaOwn(o, EmitsRsa(k, o, public))
      [] k.kty = "AKP"     -> AkpOwn(k, o, EmitsMlDsa(k, public))
      [] k.kty = "HSS-LMS" -> LmsOwn(o)
      [] k.kty = "OKP"     -> OkpOwn(k, o, KeyEmitsPrivate(k, public))
      [] OTHER             -> SymmetricOwn(k)

Tagged(E, L) == \A e \in E : e.label \in L

LEMMA Untouched ==
    ASSUME NEW E, NEW F, NEW L, NEW M, Tagged(E, L), Tagged(F, M), \A l \in L : l \notin M
    PROVE  Apart(E, F)
BY Zenon DEF Tagged, Apart

LEMMA TaggedUnion ==
    ASSUME NEW E, NEW F, NEW L, Tagged(E, L), Tagged(F, L) PROVE Tagged(E \cup F, L)
BY Zenon DEF Tagged

LEMMA TaggedMaybe == ASSUME NEW there, NEW a, NEW L, a.label \in L PROVE Tagged(Maybe(there, a), L)
BY DEF Tagged, Maybe

CommonLabels == {"kty", "kid", "alg"}

LEMMA CommonListed == ASSUME NEW k PROVE Lists(Common(k), Commons(k), 3) /\ Tagged(Commons(k), CommonLabels)
<1> DEFINE t == Number("kty", k.kty)
           i == Bytes("kid", k.kid.val, k.kid.len)
           a == Number("alg", k.alg)
           named == k.kid.len > 0
           tied  == k.alg # "unset"
           I == Maybe(named, i)
           A == Maybe(tied, a)
           T == {t}
           IA == I \cup A
<1>1. t.label = "kty" /\ i.label = "kid" /\ a.label = "alg"
  BY DEF Number, Bytes
<1>2. Common(k) = <<t>> \o (MaybeSeq(named, i) \o MaybeSeq(tied, a))
  BY Zenon DEF Common, Optional, MaybeSeq
<1>3. Commons(k) = T \cup IA
  BY Zenon DEF Commons
<1> HIDE DEF t, i, a, named, tied
<1>4. Lists(<<t>>, T, 1) /\ Lists(MaybeSeq(named, i), I, 1) /\ Lists(MaybeSeq(tied, a), A, 1)
  BY Zenon, ListsOne, ListsMaybe
<1>5. Tagged(T, {"kty"}) /\ Tagged(I, {"kid"}) /\ Tagged(A, {"alg"})
  BY <1>1, TaggedMaybe DEF Tagged
<1> HIDE DEF T, I, A
<1>6. Apart(I, A)
  BY <1>5, Untouched
<1>7. Lists(MaybeSeq(named, i) \o MaybeSeq(tied, a), IA, 1 + 1)
  <2>1. 1 \in Nat
    OBVIOUS
  <2> QED BY Zenon, <1>4, <1>6, <2>1, ListsJoin
<1>8. Tagged(IA, {"kid", "alg"})
  BY <1>5 DEF Tagged
<1> HIDE DEF IA
<1>9. Apart(T, IA)
  BY <1>5, <1>8, Untouched
<1>10. Lists(<<t>> \o (MaybeSeq(named, i) \o MaybeSeq(tied, a)), T \cup IA, 1 + (1 + 1))
  <2>1. 1 \in Nat /\ 1 + 1 \in Nat
    OBVIOUS
  <2> QED BY Zenon, <1>4, <1>7, <1>9, <2>1, ListsJoin
<1>11. 1 + (1 + 1) = 3
  OBVIOUS
<1>12. Tagged(Commons(k), CommonLabels)
  BY <1>3, <1>5, <1>8 DEF Tagged, CommonLabels
<1> QED BY Zenon, <1>2, <1>3, <1>10, <1>11, <1>12

\* The entries in common, some of a key type, and some more.
LEMMA MapListed ==
    ASSUME NEW k, NEW s, NEW E, NEW c \in Nat, NEW t, NEW F, NEW d \in Nat,
           Lists(s, E, c), Lists(t, F, d), Tagged(E, Members), Tagged(F, Members), Apart(E, F),
           3 + c + d <= 11
    PROVE  Lists((Common(k) \o s) \o t, Commons(k) \cup (E \cup F), 11) /\ Tagged(E \cup F, Members)
<1>1. Lists(Common(k), Commons(k), 3) /\ Tagged(Commons(k), CommonLabels) /\ 3 \in Nat
  BY CommonListed
<1>2. \A l \in CommonLabels : l \notin Members
  BY DEF CommonLabels, Members
<1>3. Apart(Commons(k), E) /\ Apart(Commons(k), F)
  BY Zenon, <1>1, <1>2, Untouched
<1>4. Lists(Common(k) \o s, Commons(k) \cup E, 3 + c)
  BY Zenon, <1>1, <1>3, ListsJoin
<1>5. Apart(Commons(k) \cup E, F)
  BY Zenon, <1>3 DEF Apart
<1>6. 3 + c \in Nat
  OBVIOUS
<1>7. Lists((Common(k) \o s) \o t, (Commons(k) \cup E) \cup F, (3 + c) + d)
  BY Zenon, <1>4, <1>5, <1>6, ListsJoin
<1>8. (Commons(k) \cup E) \cup F = Commons(k) \cup (E \cup F)
  BY Zenon
<1>9. Lists((Common(k) \o s) \o t, Commons(k) \cup (E \cup F), (3 + c) + d)
  BY Zenon, <1>7, <1>8
<1>10. Tagged(E \cup F, Members)
  BY Zenon, TaggedUnion
<1> HIDE DEF Commons, Common
<1>11. \A u, G : Lists(u, G, (3 + c) + d) => Lists(u, G, 11)
  BY DEF Lists
<1> QED BY Zenon, <1>9, <1>10, <1>11

\* What is as it should be of an entry that is read.
Passes(e) == EntryCode(e) = "ok" /\ e.label # "text" /\ e.type # "bad" /\ ~ Spoils(e)

LEMMA NumberPasses ==
    ASSUME NEW label \in {"kty", "alg", "-1"}, NEW val, val # "big" PROVE Passes(Number(label, val))
<1> DEFINE e == Number(label, val)
<1>1. e.label = label /\ e.type = "uint" /\ e.val = val
  BY DEF Number
<1> HIDE DEF e
<1>2. e.label # "text" /\ e.type # "bad" /\ ~ Spoils(e)
  BY <1>1 DEF Spoils, Deferred
<1>3. KtyCode(e) = "ok"
  <2> DEFINE x == Fails(e.type # "uint", "cbor")
             y == Fails(e.val = "big", "header")
  <2>1. x = "ok" /\ y = "ok"
    BY <1>1 DEF Fails
  <2>2. KtyCode(e) = First(<<x, y>>)
    BY Zenon DEF KtyCode
  <2> HIDE DEF x, y
  <2> QED BY Zenon, <2>1, <2>2, PairIff
<1>4. \A code : IntCode(e, code) = "ok"
  <2> TAKE code
  <2> DEFINE x == Fails(~ IsInt(e), "cbor")
             y == Fails(e.val = "big", code)
  <2>1. x = "ok" /\ y = "ok"
    BY <1>1 DEF Fails, IsInt
  <2>2. IntCode(e, code) = First(<<x, y>>)
    BY Zenon DEF IntCode
  <2> HIDE DEF x, y
  <2> QED BY Zenon, <2>1, <2>2, PairIff
<1>5. EntryCode(e) = "ok"
  BY <1>1, <1>3, <1>4 DEF EntryCode
<1> QED BY <1>2, <1>5 DEF Passes, e

LEMMA BytesPasses ==
    ASSUME NEW label, label = "kid" \/ label \in Members, NEW val, NEW len
    PROVE  Passes(Bytes(label, val, len))
<1> DEFINE e == Bytes(label, val, len)
<1>1. e.label = label /\ e.type = "bstr"
  BY DEF Bytes
<1> HIDE DEF e
<1>2. Fails(e.type # "bstr", "cbor") = "ok"
  BY <1>1 DEF Fails
<1>3. EntryCode(e) = "ok"
  BY <1>1, <1>2 DEF EntryCode, Members
<1>4. e.label # "text" /\ e.type # "bad" /\ ~ Spoils(e)
  BY <1>1 DEF Spoils, Members
<1> QED BY <1>3, <1>4 DEF Passes, e

-----------------------------------------------------------------------------
(* Every entry is readable.                                                *)

\* A map that lists its entries, each of them readable.
Readable(map, k, own) ==
    /\ Lists(map, Commons(k) \cup own, 11)
    /\ Tagged(own, Members)
    /\ \A e \in own : Passes(e)

LEMMA Ec2Readable ==
    ASSUME NEW k, k.crv # "big", NEW o, NEW private
    PROVE  Readable(Ec2Map(k, o.pub, o.priv, o.n, private), k, Ec2Own(k, o, private))
<1> DEFINE a == Number("-1", k.crv)
           b == Bytes("-2", o.pub, o.n)
           c == Bytes("-3", o.pub, o.n)
           d == Bytes("-4", o.priv, o.n)
           s == <<a, b, c>>
           t == MaybeSeq(private, d)
           E == {a, b, c}
           F == Maybe(private, d)
<1>1. a.label = "-1" /\ b.label = "-2" /\ c.label = "-3" /\ d.label = "-4"
  BY DEF Number, Bytes
<1>2. Passes(a) /\ Passes(b) /\ Passes(c) /\ Passes(d)
  BY NumberPasses, BytesPasses DEF Members
<1>3. Ec2Map(k, o.pub, o.priv, o.n, private) = (Common(k) \o s) \o t
  BY Zenon DEF Ec2Map, MaybeSeq
<1>4. Ec2Own(k, o, private) = E \cup F
  BY Zenon DEF Ec2Own
<1> HIDE DEF a, b, c, d
<1>5. a.label # b.label /\ a.label # c.label /\ b.label # c.label
  BY <1>1
<1>6. Lists(s, E, 3) /\ Lists(t, F, 1)
  BY Zenon, <1>5, ListsThree, ListsMaybe
<1>7. Tagged(E, Members) /\ Tagged(F, Members) /\ Apart(E, F)
  BY <1>1 DEF Tagged, Maybe, Members, Apart
<1>8. \A e \in E \cup F : Passes(e)
  BY <1>2 DEF Maybe
<1> HIDE DEF s, t, E, F
<1>9. 3 \in Nat /\ 1 \in Nat /\ 3 + 3 + 1 <= 11
  OBVIOUS
<1>10. Lists((Common(k) \o s) \o t, Commons(k) \cup (E \cup F), 11) /\ Tagged(E \cup F, Members)
  BY Zenon, <1>6, <1>7, <1>9, MapListed
<1> QED BY Zenon, <1>3, <1>4, <1>8, <1>10 DEF Readable

LEMMA OkpReadable ==
    ASSUME NEW k, k.crv # "big", NEW o, NEW private
    PROVE  Readable(OkpMap(k, o, private), k, OkpOwn(k, o, private))
<1> DEFINE a == Number("-1", k.crv)
           b == Bytes("-2", o.pub, CrvSize[k.crv])
           d == Bytes("-4", o.priv, CrvSize[k.crv])
           s == <<a, b>>
           t == MaybeSeq(private, d)
           E == {a, b}
           F == Maybe(private, d)
<1>1. a.label = "-1" /\ b.label = "-2" /\ d.label = "-4"
  BY DEF Number, Bytes
<1>2. Passes(a) /\ Passes(b) /\ Passes(d)
  BY NumberPasses, BytesPasses DEF Members
<1>3. OkpMap(k, o, private) = (Common(k) \o s) \o t
  BY Zenon DEF OkpMap, MaybeSeq
<1>4. OkpOwn(k, o, private) = E \cup F
  BY Zenon DEF OkpOwn
<1> HIDE DEF a, b, d
<1>5. a.label # b.label
  BY <1>1
<1>6. Lists(s, E, 2) /\ Lists(t, F, 1)
  BY Zenon, <1>5, ListsTwo, ListsMaybe
<1>7. Tagged(E, Members) /\ Tagged(F, Members) /\ Apart(E, F)
  BY <1>1 DEF Tagged, Maybe, Members, Apart
<1>8. \A e \in E \cup F : Passes(e)
  BY <1>2 DEF Maybe
<1> HIDE DEF s, t, E, F
<1>9. 2 \in Nat /\ 1 \in Nat /\ 3 + 2 + 1 <= 11
  OBVIOUS
<1>10. Lists((Common(k) \o s) \o t, Commons(k) \cup (E \cup F), 11) /\ Tagged(E \cup F, Members)
  BY Zenon, <1>6, <1>7, <1>9, MapListed
<1> QED BY Zenon, <1>3, <1>4, <1>8, <1>10 DEF Readable

LEMMA AkpReadable ==
    ASSUME NEW k, NEW o, NEW private
    PROVE  Readable(AkpMap(k, o, private), k, AkpOwn(k, o, private))
<1> DEFINE a == Bytes("-1", o.pub, o.n)
           d == Bytes("-2", k.seed, SeedSize)
           s == <<a>>
           t == MaybeSeq(private, d)
           E == {a}
           F == Maybe(private, d)
<1>1. a.label = "-1" /\ d.label = "-2"
  BY DEF Bytes
<1>2. Passes(a) /\ Passes(d)
  BY BytesPasses DEF Members
<1>3. AkpMap(k, o, private) = (Common(k) \o s) \o t
  BY Zenon DEF AkpMap, MaybeSeq
<1>4. AkpOwn(k, o, private) = E \cup F
  BY Zenon DEF AkpOwn
<1> HIDE DEF a, d
<1>6. Lists(s, E, 1) /\ Lists(t, F, 1)
  BY Zenon, ListsOne, ListsMaybe
<1>7. Tagged(E, Members) /\ Tagged(F, Members) /\ Apart(E, F)
  BY <1>1 DEF Tagged, Maybe, Members, Apart
<1>8. \A e \in E \cup F : Passes(e)
  BY <1>2 DEF Maybe
<1> HIDE DEF s, t, E, F
<1>9. 1 \in Nat /\ 3 + 1 + 1 <= 11
  OBVIOUS
<1>10. Lists((Common(k) \o s) \o t, Commons(k) \cup (E \cup F), 11) /\ Tagged(E \cup F, Members)
  BY Zenon, <1>6, <1>7, <1>9, MapListed
<1> QED BY Zenon, <1>3, <1>4, <1>8, <1>10 DEF Readable

\* Keys with one entry of their own.
LEMMA OneReadable ==
    ASSUME NEW k, NEW val, NEW len
    PROVE  Readable(Common(k) \o <<Bytes("-1", val, len)>>, k, {Bytes("-1", val, len)})
<1> DEFINE a == Bytes("-1", val, len)
           s == <<a>>
           E == {a}
           map == Common(k) \o s
<1>1. a.label = "-1"
  BY DEF Bytes
<1>2. Passes(a)
  BY BytesPasses DEF Members
<1> HIDE DEF a
<1>3. Lists(s, E, 1) /\ Lists(Common(k), Commons(k), 3) /\ Tagged(Commons(k), CommonLabels)
  BY Zenon, ListsOne, CommonListed
<1>4. Tagged(E, Members) /\ \A e \in E : Passes(e)
  BY <1>1, <1>2 DEF Tagged, Members
<1> HIDE DEF E, s
<1>5. \A l \in CommonLabels : l \notin Members
  BY DEF CommonLabels, Members
<1>6. Apart(Commons(k), E)
  BY Zenon, <1>3, <1>4, <1>5, Untouched
<1>7. 3 \in Nat /\ 1 \in Nat
  OBVIOUS
<1>8. Lists(map, Commons(k) \cup E, 3 + 1)
  BY Zenon, <1>3, <1>6, <1>7, ListsJoin
<1> HIDE DEF map
<1>9. Lists(map, Commons(k) \cup E, 11)
  BY <1>8 DEF Lists
<1> QED BY Zenon, <1>4, <1>9 DEF Readable, map, E, s, a

LEMMA RsaReadable ==
    ASSUME NEW k, NEW o, NEW private
    PROVE  Readable(RsaMap(k, o, private), k, RsaOwn(o, private))
<1> DEFINE a == Bytes("-1", o.pub, o.n)
           b == Bytes("-2", o.pub, o.e)
           d == Bytes("-3", o.priv, o.n)
           half == RsaHalf(o.n)
           fs == FactorSeq(o.priv, half)
           G == Factors(o.priv, half)
           s == <<a, b>>
           E == {a, b}
           t == IF private THEN <<d>> \o fs ELSE <<>>
           F == IF private THEN {d} \cup G ELSE {}
<1>1. a.label = "-1" /\ b.label = "-2" /\ d.label = "-3"
  BY DEF Bytes
<1>2. Passes(a) /\ Passes(b) /\ Passes(d)
  BY BytesPasses DEF Members
<1>3. RsaMap(k, o, private) = (Common(k) \o s) \o t
  BY Zenon DEF RsaMap, FactorSeq
<1>4. RsaOwn(o, private) = E \cup F
  BY Zenon DEF RsaOwn, RsaPrivates
<1>5. Lists(fs, G, 5)
  BY Zenon, ListsFactors
<1>6. Tagged(G, FactorLabels) /\ \A e \in G : Passes(e)
  <2>1. \A l \in FactorLabels : Bytes(l, o.priv, half).label = l
    BY DEF Bytes
  <2>2. \A l \in FactorLabels : l \in Members
    BY DEF FactorLabels, Members
  <2>3. \A l \in FactorLabels : Passes(Bytes(l, o.priv, half))
    BY <2>2, BytesPasses
  <2> HIDE DEF half
  <2> QED BY <2>1, <2>3 DEF Factors, Tagged
<1> HIDE DEF a, b, d, fs, G, half
<1>7. Lists(s, E, 2)
  <2>1. a.label # b.label
    BY <1>1
  <2> QED BY Zenon, <2>1, ListsTwo
<1>8. Lists(<<d>> \o fs, {d} \cup G, 1 + 5)
  <2>1. Lists(<<d>>, {d}, 1)
    BY Zenon, ListsOne
  <2>2. Tagged({d}, {"-3"})
    BY <1>1 DEF Tagged
  <2>3. \A l \in {"-3"} : l \notin FactorLabels
    BY DEF FactorLabels
  <2>4. Apart({d}, G)
    BY Zenon, <1>6, <2>2, <2>3, Untouched
  <2>5. 1 \in Nat /\ 5 \in Nat
    OBVIOUS
  <2> QED BY Zenon, <1>5, <2>1, <2>4, <2>5, ListsJoin
<1>9. Lists(t, F, 6)
  <2>1. CASE private
    <3>1. t = <<d>> \o fs /\ F = {d} \cup G
      BY Zenon, <2>1
    <3>2. 1 + 5 = 6
      OBVIOUS
    <3> QED BY Zenon, <1>8, <3>1, <3>2
  <2>2. CASE ~ private
    <3>1. t = <<>> /\ F = {}
      BY Zenon, <2>2
    <3>2. Lists(<<>>, {}, 0)
      BY Zenon, ListsNone
    <3>3. Lists(<<>>, {}, 6)
      BY <3>2 DEF Lists
    <3> QED BY Zenon, <3>1, <3>3
  <2> QED BY Zenon, <2>1, <2>2
<1>10. Tagged(E, {"-1", "-2"}) /\ Tagged(F, {"-3"} \cup FactorLabels)
  <2>1. Tagged(E, {"-1", "-2"})
    BY <1>1 DEF Tagged
  <2>2. Tagged({d} \cup G, {"-3"} \cup FactorLabels)
    BY <1>1, <1>6 DEF Tagged
  <2>3. Tagged({}, {"-3"} \cup FactorLabels)
    BY DEF Tagged
  <2> QED BY Zenon, <2>1, <2>2, <2>3
<1>11. \A e \in E \cup F : Passes(e)
  BY <1>2, <1>6
<1> HIDE DEF E, F, s, t
<1>12. /\ \A l \in {"-1", "-2"} : l \notin {"-3"} \cup FactorLabels
       /\ {"-1", "-2"} \subseteq Members /\ {"-3"} \cup FactorLabels \subseteq Members
  BY DEF FactorLabels, Members
<1>13. Tagged(E, Members) /\ Tagged(F, Members) /\ Apart(E, F)
  <2>1. Apart(E, F)
    BY Zenon, <1>10, <1>12, Untouched
  <2> QED BY <1>10, <1>12, <2>1 DEF Tagged
<1>14. 2 \in Nat /\ 6 \in Nat /\ 3 + 2 + 6 <= 11
  OBVIOUS
<1>15. Lists((Common(k) \o s) \o t, Commons(k) \cup (E \cup F), 11) /\ Tagged(E \cup F, Members)
  BY Zenon, <1>7, <1>9, <1>13, <1>14, MapListed
<1> QED BY Zenon, <1>3, <1>4, <1>11, <1>15 DEF Readable

LEMMA MapReadable ==
    ASSUME NEW k, k.crv # "big", NEW o, NEW public
    PROVE  Readable(Map(k, o, public), k, Own(k, o, public))
<1>1. CASE k.kty = "EC2"
  <2>1. /\ Map(k, o, public) = Ec2Map(k, o.pub, o.priv, o.n, KeyEmitsPrivate(k, public))
        /\ Own(k, o, public) = Ec2Own(k, o, KeyEmitsPrivate(k, public))
    BY <1>1 DEF Map, Own
  <2> QED BY Zenon, <2>1, Ec2Readable
<1>2. CASE k.kty = "RSA"
  <2>1. /\ Map(k, o, public) = RsaMap(k, o, EmitsRsa(k, o, public))
        /\ Own(k, o, public) = RsaOwn(o, EmitsRsa(k, o, public))
    BY <1>2 DEF Map, Own
  <2> QED BY Zenon, <2>1, RsaReadable
<1>3. CASE k.kty = "AKP"
  <2>1. /\ Map(k, o, public) = AkpMap(k, o, EmitsMlDsa(k, public))
        /\ Own(k, o, public) = AkpOwn(k, o, EmitsMlDsa(k, public))
    BY <1>3 DEF Map, Own
  <2> QED BY Zenon, <2>1, AkpReadable
<1>4. CASE k.kty = "HSS-LMS"
  <2>1. Map(k, o, public) = LmsMap(k, o) /\ Own(k, o, public) = LmsOwn(o)
    BY <1>4 DEF Map, Own
  <2> QED BY Zenon, <2>1, OneReadable DEF LmsMap, LmsOwn
<1>5. CASE k.kty = "OKP"
  <2>1. /\ Map(k, o, public) = OkpMap(k, o, KeyEmitsPrivate(k, public))
        /\ Own(k, o, public) = OkpOwn(k, o, KeyEmitsPrivate(k, public))
    BY <1>5 DEF Map, Own
  <2> QED BY Zenon, <2>1, OkpReadable
<1>6. CASE k.kty \notin {"EC2", "RSA", "AKP", "HSS-LMS", "OKP"}
  <2>1. Map(k, o, public) = SymmetricMap(k) /\ Own(k, o, public) = SymmetricOwn(k)
    BY <1>6 DEF Map, Own
  <2> QED BY Zenon, <2>1, OneReadable DEF SymmetricMap, SymmetricOwn
<1> QED BY <1>1, <1>2, <1>3, <1>4, <1>5, <1>6

LEMMA CommonsPass ==
    ASSUME NEW k, k.kty # "big", k.alg # "big" PROVE \A e \in Commons(k) : Passes(e)
<1> DEFINE t == Number("kty", k.kty)
           i == Bytes("kid", k.kid.val, k.kid.len)
           a == Number("alg", k.alg)
<1>1. Passes(t) /\ Passes(i) /\ Passes(a)
  BY NumberPasses, BytesPasses
<1>2. Commons(k) = {t} \cup (Maybe(k.kid.len > 0, i) \cup Maybe(k.alg # "unset", a))
  BY Zenon DEF Commons
<1> HIDE DEF t, i, a
<1>3. \A e \in Commons(k) : e = t \/ e = i \/ e = a
  BY <1>2 DEF Maybe
<1> QED BY Zenon, <1>1, <1>3

\* A key that can be encoded so that it is read back.
Sendable(k, o, public) ==
    /\ k \in Key /\ k.kty # "big" /\ k.alg # "big" /\ k.crv # "big"
    /\ o.pub # "NULL" /\ o.priv # "NULL" /\ (k.kty # "Symmetric" => o.pub # "none")
    /\ k.kty \in {"EC2", "RSA", "AKP", "HSS-LMS", "OKP", "Symmetric"}
    /\ k.kty = "EC2" => k.crv \in Ec2Curves /\ o.n = CrvSize[k.crv]
    /\ k.kty = "RSA" => o.n # 0 /\ o.e # 0 /\ o.n \in Nat
    /\ k.kty = "AKP" => /\ o.par \in DOMAIN MlDsaPubLen /\ o.n = MlDsaPubLen[o.par]
                        /\ EmitsMlDsa(k, public) => o.priv = o.pub
    /\ k.kty = "HSS-LMS" => k.alg \in {"unset", "HSS-LMS"}
    /\ k.kty = "OKP" => k.crv \in OkpCurves
    /\ k.kty = "Symmetric" => k.union.val # "NULL" /\ k.union.len # 0

\* What is in the buffer is the encoding of a key that was fit for it.
Sent == out # <<>> => /\ out = Map(sent.key, sent.obj, sent.public)
                      /\ Sendable(sent.key, sent.obj, sent.public)

\* A key that is not the remains of a failed call has a curve of its type.
Sound == pc = "idle" /\ entrusted # "failed" /\ key.kty = "EC2" => key.crv \in Ec2Curves

\* Nothing but an entry of the wrong type is remembered as one.
Spoilt == pc # "idle" /\ badType => \E i \in 1 .. n : Spoils(in.entries[i])

\* The buffer is what is being decoded.
Echoes == out # <<>> /\ in.entries = out

Readied(own) == Readable(out, sent.key, own) /\ \A e \in Commons(sent.key) \cup own : Passes(e)

LEMMA SentReadable == ASSUME Sent, out # <<>>
                      PROVE  Readied(Own(sent.key, sent.obj, sent.public))
<1> DEFINE own == Own(sent.key, sent.obj, sent.public)
<1>1. /\ out = Map(sent.key, sent.obj, sent.public)
      /\ sent.key.kty # "big" /\ sent.key.alg # "big" /\ sent.key.crv # "big"
  BY DEF Sent, Sendable
<1>2. Readable(out, sent.key, own)
  BY Zenon, <1>1, MapReadable
<1>3. \A e \in Commons(sent.key) : Passes(e)
  BY Zenon, <1>1, CommonsPass
<1> HIDE DEF own
<1>4. \A e \in own : Passes(e)
  BY Zenon, <1>2 DEF Readable
<1>5. Readied(own)
  BY Zenon, <1>2, <1>3, <1>4 DEF Readied
<1> QED BY Zenon, <1>5 DEF own

\* Every entry of the buffer is accepted.
LEMMA EchoAccepted ==
    ASSUME Sent, Echoes, NEW j \in Nat, j < Len(in.entries), NEW own, Readied(own)
    PROVE  First(<<LabelCode(in.entries[j + 1], SubSeq(in.entries, 1, j)),
                   EntryCode(in.entries[j + 1])>>) = "ok"
<1> DEFINE E == Commons(sent.key) \cup own
           e == out[j + 1]
           earlier == SubSeq(out, 1, j)
<1>1. Lists(out, E, 11) /\ \A f \in E : Passes(f)
  BY Zenon DEF Readied, Readable
<1>2. in.entries = out
  BY DEF Echoes
<1> HIDE DEF E
<1>3. out \in Seq(E) /\ Len(out) \in Nat /\ j + 1 \in 1 .. Len(out)
  BY <1>1, <1>2 DEF Lists
<1>4. Passes(e)
  BY <1>1, <1>3
<1>5. DOMAIN earlier = 1 .. j /\ \A i \in 1 .. j : earlier[i] = out[i]
  BY <1>3
<1>6. \A i \in 1 .. j : out[i].label # e.label
  <2> SUFFICES ASSUME NEW i \in 1 .. j, out[i].label = e.label PROVE FALSE
    OBVIOUS
  <2>1. i \in 1 .. Len(out) /\ i # j + 1
    BY <1>3
  <2> QED BY <1>1, <1>3, <2>1 DEF Lists
<1> HIDE DEF e, earlier
<1>7. ~ \E i \in DOMAIN earlier : earlier[i].label = e.label
  BY <1>5, <1>6
<1>8. LabelCode(e, earlier) = "ok"
  BY <1>4, <1>7 DEF LabelCode, Fails, Passes
<1>9. EntryCode(e) = "ok"
  BY <1>4 DEF Passes
<1>10. First(<<LabelCode(e, earlier), EntryCode(e)>>) = "ok"
  BY Zenon, <1>8, <1>9, PairIff
<1> QED BY Zenon, <1>2, <1>10 DEF e, earlier

\* What is known of a key, and of its byte strings, once they have been read.
Restores(k, own) ==
    /\ key.kty = k.kty /\ key.alg = k.alg
    /\ key.kid = IF k.kid.len = 0 THEN NULL ELSE k.kid
    /\ \A e \in own : Provides(mem, e) /\ Describes(key, e)
    /\ \A l \in Members : (\A e \in own : e.label # l) => mem[l] = NULL
    /\ (\A e \in own : e.label = "-1" => e.type = "bstr") => key.crv = "0"
    /\ badType = FALSE

LEMMA CommonsRestored ==
    ASSUME NEW k \in Key, NEW d, \A e \in Commons(k) : Describes(d, e),
           k.kid.len = 0 => d.kid = NULL, k.alg = "unset" => d.alg = "unset"
    PROVE  /\ d.kty = k.kty /\ d.alg = k.alg
           /\ d.kid = IF k.kid.len = 0 THEN NULL ELSE k.kid
<1> DEFINE t == Number("kty", k.kty)
           i == Bytes("kid", k.kid.val, k.kid.len)
           a == Number("alg", k.alg)
<1>1. k.kid \in Kid /\ k.kid.len \in Nat
  BY DEF Key, Kid
<1>2. Commons(k) = {t} \cup (Maybe(k.kid.len > 0, i) \cup Maybe(k.alg # "unset", a))
  BY Zenon DEF Commons
<1>3. /\ t.label = "kty" /\ t.val = k.kty
      /\ i.label = "kid" /\ i.val = k.kid.val /\ i.len = k.kid.len
      /\ a.label = "alg" /\ a.val = k.alg
  BY DEF Number, Bytes
<1> HIDE DEF t, i, a
<1>4. t \in Commons(k) /\ (k.kid.len > 0 => i \in Commons(k)) /\ (k.alg # "unset" => a \in Commons(k))
  BY <1>2 DEF Maybe
<1>5. d.kty = k.kty
  BY <1>3, <1>4 DEF Describes
<1>6. k.alg # "unset" => d.alg = k.alg
  BY <1>3, <1>4 DEF Describes
<1>7. ByteString(i) = k.kid
  BY <1>1, <1>3 DEF ByteString, Kid
<1>8. k.kid.len # 0 => d.kid = k.kid
  BY <1>1, <1>3, <1>4, <1>7 DEF Describes
<1> QED BY <1>5, <1>6, <1>8

LEMMA EchoRestored ==
    ASSUME IInv, Sent, Spoilt, Echoes, pc # "idle", n = Len(in.entries), NEW own, Readied(own)
    PROVE  Restores(sent.key, own)
<1> DEFINE k == sent.key
           E == Commons(k) \cup own
           all == 1 .. n
<1>1. Lists(out, E, 11) /\ Tagged(own, Members) /\ \A e \in E : Passes(e)
  BY Zenon DEF Readied, Readable
<1>2. k \in Key
  BY DEF Sent, Sendable, Echoes
<1>3. Tagged(Commons(k), CommonLabels)
  BY Zenon, CommonListed
<1> HIDE DEF k
<1>4. in.entries = out /\ n = Len(out) /\ op = "decode" /\ ret = "ok"
  BY DEF Echoes, IInv, Decoding
<1>5. /\ \A i \in all : Describes(key, out[i])
      /\ (\A i \in all : out[i].label # "kid") => key.kid = NULL
      /\ (\A i \in all : out[i].label # "alg") => key.alg = "unset"
      /\ (\A i \in all : out[i].label = "-1" => out[i].type = "bstr") => key.crv = "0"
  BY <1>4 DEF IInv, Described, Decodes
<1>6. /\ \A i \in all : Provides(mem, out[i])
      /\ \A l \in Members : (\A i \in all : out[i].label # l) => mem[l] = NULL
  BY <1>4 DEF IInv, Gathered
<1>7. badType \in BOOLEAN /\ (badType => \E i \in all : Spoils(out[i]))
  BY <1>4 DEF IInv, Reading, Spoilt
<1> HIDE DEF E, all
<1>8. /\ \A i \in all : out[i] \in E
      /\ \A e \in E : \E i \in all : out[i] = e
  BY <1>1, <1>4 DEF Lists, all
<1>9. \A e \in E : Describes(key, e) /\ Provides(mem, e)
  BY Zenon, <1>5, <1>6, <1>8
<1>10. badType = FALSE
  BY <1>1, <1>7, <1>8 DEF Passes
<1>11. \A e \in Commons(k) : Describes(key, e)
  BY Zenon, <1>9 DEF E
<1>12. \A e \in own : Provides(mem, e) /\ Describes(key, e)
  BY Zenon, <1>9 DEF E
<1>13. \A l \in Members : l \notin CommonLabels
  BY DEF Members, CommonLabels
<1>14. ASSUME NEW l \in Members, \A e \in own : e.label # l PROVE mem[l] = NULL
  <2>1. \A e \in E : e.label # l
    BY Zenon, <1>3, <1>13, <1>14 DEF E, Tagged
  <2> QED BY Zenon, <1>6, <1>8, <2>1
<1>15. ASSUME \A e \in own : e.label = "-1" => e.type = "bstr" PROVE key.crv = "0"
  <2>1. "-1" \notin CommonLabels
    BY DEF CommonLabels
  <2>2. \A e \in E : e.label = "-1" => e.type = "bstr"
    BY Zenon, <1>3, <1>15, <2>1 DEF E, Tagged
  <2> QED BY Zenon, <1>5, <1>8, <2>2
<1>16. k.kid.len = 0 => key.kid = NULL
  <2> SUFFICES ASSUME k.kid.len = 0 PROVE key.kid = NULL
    OBVIOUS
  <2>1. \A e \in Commons(k) : e.label # "kid"
    BY DEF Commons, Maybe, Number
  <2>2. "kid" \notin Members
    BY DEF Members
  <2>3. \A e \in E : e.label # "kid"
    BY Zenon, <1>1, <2>1, <2>2 DEF E, Tagged
  <2> QED BY Zenon, <1>5, <1>8, <2>3
<1>17. k.alg = "unset" => key.alg = "unset"
  <2> SUFFICES ASSUME k.alg = "unset" PROVE key.alg = "unset"
    OBVIOUS
  <2>1. \A e \in Commons(k) : e.label # "alg"
    BY DEF Commons, Maybe, Number, Bytes
  <2>2. "alg" \notin Members
    BY DEF Members
  <2>3. \A e \in E : e.label # "alg"
    BY Zenon, <1>1, <2>1, <2>2 DEF E, Tagged
  <2> QED BY Zenon, <1>5, <1>8, <2>3
<1>18. /\ key.kty = k.kty /\ key.alg = k.alg
       /\ key.kid = IF k.kid.len = 0 THEN NULL ELSE k.kid
  BY Zenon, <1>2, <1>11, <1>16, <1>17, CommonsRestored
<1>19. Restores(k, own)
  BY Zenon, <1>10, <1>12, <1>14, <1>15, <1>18 DEF Restores
<1> QED BY Zenon, <1>19 DEF k

-----------------------------------------------------------------------------
(* What is known of a key that has been read back.                         *)

Str(val, len)   == [val |-> val, len |-> len]
Is(l, val, len) == mem[l] = Str(val, len)

LEMMA MemberIs ==
    ASSUME NEW k, NEW own, Restores(k, own), NEW l \in Members, NEW val, NEW len,
           Bytes(l, val, len) \in own
    PROVE  Is(l, val, len)
<1> DEFINE e == Bytes(l, val, len)
<1>1. e.label = l /\ e.type = "bstr" /\ e.val = val /\ e.len = len
  BY DEF Bytes
<1>2. e \in own
  OBVIOUS
<1> HIDE DEF e
<1>3. Provides(mem, e)
  BY <1>2 DEF Restores
<1> QED BY <1>1, <1>3 DEF Provides, ByteString, Str, Is

LEMMA CurveIs ==
    ASSUME NEW k, NEW own, Restores(k, own), NEW crv, Number("-1", crv) \in own
    PROVE  key.crv = crv
<1> DEFINE e == Number("-1", crv)
<1>1. e.label = "-1" /\ e.type # "bstr" /\ e.val = crv
  BY DEF Number
<1>2. e \in own
  OBVIOUS
<1> HIDE DEF e
<1>3. Describes(key, e)
  BY <1>2 DEF Restores
<1> QED BY <1>1, <1>3 DEF Describes

\* A byte string that may be there.
May(l, there, val, len) == (there => Is(l, val, len)) /\ (~ there => mem[l] = NULL)

LEMMA MayBe ==
    ASSUME NEW k, NEW rest, NEW l \in Members, NEW there, NEW val, NEW len,
           Restores(k, rest \cup Maybe(there, Bytes(l, val, len))),
           \A e \in rest : e.label # l
    PROVE  May(l, there, val, len)
<1> DEFINE e == Bytes(l, val, len)
           own == rest \cup Maybe(there, e)
<1>1. Restores(k, own)
  OBVIOUS
<1>2. CASE there
  <2>1. e \in own
    BY <1>2 DEF Maybe
  <2> HIDE DEF own
  <2>2. Is(l, val, len)
    BY Zenon, <1>1, <2>1, MemberIs DEF e
  <2> QED BY Zenon, <1>2, <2>2 DEF May
<1>3. CASE ~ there
  <2>1. own = rest
    BY <1>3 DEF Maybe
  <2>2. mem[l] = NULL
    BY Zenon, <1>1, <2>1 DEF Restores
  <2> QED BY Zenon, <1>3, <2>2 DEF May
<1> QED BY <1>2, <1>3

Ec2Restored(k, o, private) ==
    /\ key.crv = k.crv /\ Is("-2", o.pub, o.n) /\ Is("-3", o.pub, o.n)
    /\ May("-4", private, o.priv, o.n)

LEMMA Ec2Restores ==
    ASSUME NEW k, NEW o, NEW private, Restores(k, Ec2Own(k, o, private))
    PROVE  Ec2Restored(k, o, private)
<1> DEFINE a == Number("-1", k.crv)
           b == Bytes("-2", o.pub, o.n)
           c == Bytes("-3", o.pub, o.n)
           rest == {a, b, c}
           own == Ec2Own(k, o, private)
           last == Maybe(private, Bytes("-4", o.priv, o.n))
<1>1. \A e \in rest : e.label # "-4"
  BY DEF Number, Bytes
<1>2. own = rest \cup last
  BY Zenon DEF Ec2Own
<1>3. "-2" \in Members /\ "-3" \in Members /\ "-4" \in Members
  BY DEF Members
<1>4. Restores(k, own)
  OBVIOUS
<1> HIDE DEF a, b, c, own
<1>5. a \in own /\ b \in own /\ c \in own
  BY <1>2
<1> HIDE DEF rest, last
<1>6. key.crv = k.crv
  BY Zenon, <1>4, <1>5, CurveIs DEF a
<1>7. Is("-2", o.pub, o.n)
  BY Zenon, <1>3, <1>4, <1>5, MemberIs DEF b
<1>8. Is("-3", o.pub, o.n)
  BY Zenon, <1>3, <1>4, <1>5, MemberIs DEF c
<1>9. May("-4", private, o.priv, o.n)
  BY Zenon, <1>1, <1>2, <1>3, <1>4, MayBe DEF last
<1> QED BY Zenon, <1>6, <1>7, <1>8, <1>9 DEF Ec2Restored

OkpRestored(k, o, private) ==
    /\ key.crv = k.crv /\ Is("-2", o.pub, CrvSize[k.crv])
    /\ May("-4", private, o.priv, CrvSize[k.crv])

LEMMA OkpRestores ==
    ASSUME NEW k, NEW o, NEW private, Restores(k, OkpOwn(k, o, private))
    PROVE  OkpRestored(k, o, private)
<1> DEFINE a == Number("-1", k.crv)
           b == Bytes("-2", o.pub, CrvSize[k.crv])
           rest == {a, b}
           own == OkpOwn(k, o, private)
           last == Maybe(private, Bytes("-4", o.priv, CrvSize[k.crv]))
<1>1. \A e \in rest : e.label # "-4"
  BY DEF Number, Bytes
<1>2. own = rest \cup last
  BY Zenon DEF OkpOwn
<1>3. "-2" \in Members /\ "-4" \in Members
  BY DEF Members
<1>4. Restores(k, own)
  OBVIOUS
<1> HIDE DEF a, b, own
<1>5. a \in own /\ b \in own
  BY <1>2
<1> HIDE DEF rest, last
<1>6. key.crv = k.crv
  BY Zenon, <1>4, <1>5, CurveIs DEF a
<1>7. Is("-2", o.pub, CrvSize[k.crv])
  BY Zenon, <1>3, <1>4, <1>5, MemberIs DEF b
<1>9. May("-4", private, o.priv, CrvSize[k.crv])
  BY Zenon, <1>1, <1>2, <1>3, <1>4, MayBe DEF last
<1> QED BY Zenon, <1>6, <1>7, <1>9 DEF OkpRestored

AkpRestored(k, o, private) ==
    /\ key.crv = "0" /\ Is("-1", o.pub, o.n) /\ May("-2", private, k.seed, SeedSize)

LEMMA AkpRestores ==
    ASSUME NEW k, NEW o, NEW private, Restores(k, AkpOwn(k, o, private))
    PROVE  AkpRestored(k, o, private)
<1> DEFINE a == Bytes("-1", o.pub, o.n)
           d == Bytes("-2", k.seed, SeedSize)
           rest == {a}
           own == AkpOwn(k, o, private)
           last == Maybe(private, d)
<1>1. a.label = "-1" /\ a.type = "bstr" /\ d.label = "-2"
  BY DEF Bytes
<1>2. own = rest \cup last
  BY Zenon DEF AkpOwn
<1>3. "-1" \in Members /\ "-2" \in Members
  BY DEF Members
<1>4. Restores(k, own)
  OBVIOUS
<1> HIDE DEF a, d, own
<1>5. a \in own /\ (\A e \in rest : e.label # "-2") /\ \A e \in own : e.label = "-1" => e.type = "bstr"
  BY <1>1, <1>2 DEF Maybe
<1> HIDE DEF rest, last
<1>6. key.crv = "0"
  BY Zenon, <1>4, <1>5 DEF Restores
<1>7. Is("-1", o.pub, o.n)
  BY Zenon, <1>3, <1>4, <1>5, MemberIs DEF a
<1>9. May("-2", private, k.seed, SeedSize)
  BY Zenon, <1>2, <1>3, <1>4, <1>5, MayBe DEF last, d
<1> QED BY Zenon, <1>6, <1>7, <1>9 DEF AkpRestored

OneRestored(val, len) ==
    Is("-1", val, len) /\ \A l \in Members : l # "-1" => mem[l] = NULL

LEMMA OneRestores ==
    ASSUME NEW k, NEW val, NEW len, Restores(k, {Bytes("-1", val, len)})
    PROVE  OneRestored(val, len)
<1> DEFINE a == Bytes("-1", val, len)
           own == {a}
<1>1. a.label = "-1"
  BY DEF Bytes
<1>2. Restores(k, own)
  OBVIOUS
<1> HIDE DEF a
<1>3. a \in own /\ "-1" \in Members /\ \A l : l # "-1" => \A e \in own : e.label # l
  BY <1>1 DEF Members
<1> HIDE DEF own
<1>4. Is("-1", val, len)
  BY Zenon, <1>2, <1>3, MemberIs DEF a
<1>5. \A l \in Members : l # "-1" => mem[l] = NULL
  BY Zenon, <1>2, <1>3 DEF Restores
<1> QED BY Zenon, <1>4, <1>5 DEF OneRestored

RsaRestored(o, private) ==
    /\ Is("-1", o.pub, o.n) /\ Is("-2", o.pub, o.e)
    /\ private => /\ Is("-3", o.priv, o.n)
                  /\ \A l \in FactorLabels : Is(l, o.priv, RsaHalf(o.n))
    /\ ~ private => \A l \in RsaPrivate : mem[l] = NULL

LEMMA RsaRestores ==
    ASSUME NEW k, NEW o, NEW private, Restores(k, RsaOwn(o, private))
    PROVE  RsaRestored(o, private)
<1> DEFINE a == Bytes("-1", o.pub, o.n)
           b == Bytes("-2", o.pub, o.e)
           d == Bytes("-3", o.priv, o.n)
           half == RsaHalf(o.n)
           rest == {a, b}
           own == RsaOwn(o, private)
           last == IF private THEN {d} \cup Factors(o.priv, half) ELSE {}
<1>1. a.label = "-1" /\ b.label = "-2"
  BY DEF Bytes
<1>2. own = rest \cup last
  BY Zenon DEF RsaOwn, RsaPrivates
<1>3. /\ "-1" \in Members /\ "-2" \in Members /\ "-3" \in Members /\ FactorLabels \subseteq Members
      /\ RsaPrivate \subseteq Members /\ "-1" \notin RsaPrivate /\ "-2" \notin RsaPrivate
  BY DEF Members, FactorLabels, RsaPrivate
<1>4. Restores(k, own)
  OBVIOUS
<1> HIDE DEF a, b, d, own, half
<1>5. a \in own /\ b \in own
  BY <1>2
<1>6. Is("-1", o.pub, o.n)
  BY Zenon, <1>3, <1>4, <1>5, MemberIs DEF a
<1>7. Is("-2", o.pub, o.e)
  BY Zenon, <1>3, <1>4, <1>5, MemberIs DEF b
<1>8. ASSUME private
      PROVE  Is("-3", o.priv, o.n) /\ \A l \in FactorLabels : Is(l, o.priv, half)
  <2>1. d \in own /\ \A l \in FactorLabels : Bytes(l, o.priv, half) \in own
    BY <1>2, <1>8 DEF Factors
  <2>2. Is("-3", o.priv, o.n)
    BY Zenon, <1>3, <1>4, <2>1, MemberIs DEF d
  <2>3. ASSUME NEW l \in FactorLabels PROVE Is(l, o.priv, half)
    <3>1. l \in Members /\ Bytes(l, o.priv, half) \in own
      BY <1>3, <2>1
    <3> QED BY Zenon, <1>4, <3>1, MemberIs
  <2> QED BY Zenon, <2>2, <2>3
<1>9. ASSUME ~ private, NEW l \in RsaPrivate PROVE mem[l] = NULL
  <2>1. own = rest
    BY <1>2, <1>9
  <2>2. l \in Members /\ \A e \in own : e.label # l
    BY <1>1, <1>3, <1>9, <2>1
  <2> QED BY Zenon, <1>4, <2>2 DEF Restores
<1> QED BY Zenon, <1>6, <1>7, <1>8, <1>9 DEF RsaRestored, half

-----------------------------------------------------------------------------
(* It passes the checks,                                                   *)

LEMMA Recorded ==
    ASSUME NEW l
    PROVE  /\ \A val, len : Is(l, val, len) => mem[l].val = val /\ mem[l].len = len
           /\ \A there, val, len : May(l, there, val, len) /\ val # "NULL" =>
                  /\ (there <=> Has(l))
                  /\ there => mem[l].val = val /\ mem[l].len = len
           /\ mem[l] = NULL => ~ Has(l) /\ mem[l].len = 0
BY DEF Is, Str, May, Has, NULL

LEMMA Ec2Passes ==
    ASSUME NEW k, NEW o, NEW private, Ec2Restored(k, o, private),
           k.crv \in Ec2Curves, o.n = CrvSize[k.crv], o.pub # "NULL", o.priv # "NULL"
    PROVE  Ec2Code = "ok"
<1> DEFINE x == Fails((~ Has("-2") \/ ~ Has("-3")) /\ ~ Has("-4"), "header")
           y == Fails(key.crv \notin Ec2Curves, "alg")
           z == Fails(~ CoordinatesFit(Ec2Curves, {"-2", "-3", "-4"}), "header")
<1>1. /\ key.crv = k.crv /\ Is("-2", o.pub, o.n) /\ Is("-3", o.pub, o.n)
      /\ May("-4", private, o.priv, o.n)
  BY Zenon DEF Ec2Restored
<1>2. mem["-2"].val = o.pub /\ mem["-2"].len = o.n /\ mem["-3"].val = o.pub /\ mem["-3"].len = o.n
  BY Zenon, <1>1, Recorded
<1>3. Has("-4") => mem["-4"].len = o.n
  BY Zenon, <1>1, Recorded
<1>4. Has("-2") /\ Has("-3")
  BY <1>2 DEF Has
<1>5. \A l \in {"-2", "-3", "-4"} : Has(l) => mem[l].len = CrvSize[key.crv]
  BY <1>1, <1>2, <1>3
<1>6. CoordinatesFit(Ec2Curves, {"-2", "-3", "-4"})
  BY Zenon, <1>5 DEF CoordinatesFit
<1>7. x = "ok" /\ y = "ok" /\ z = "ok"
  BY <1>1, <1>4, <1>6 DEF Fails
<1>8. Ec2Code = First(<<x, y, z>>)
  BY Zenon DEF Ec2Code
<1> HIDE DEF x, y, z
<1> QED BY Zenon, <1>7, <1>8, TripleIff

LEMMA OkpPasses ==
    ASSUME NEW k, NEW o, NEW private, OkpRestored(k, o, private),
           k.crv \in OkpCurves, o.pub # "NULL", o.priv # "NULL"
    PROVE  OkpCode = "ok"
<1> DEFINE x == Fails(~ Has("-2") /\ ~ Has("-4"), "header")
           y == Fails(key.crv \notin OkpCurves, "alg")
           z == Fails(~ CoordinatesFit(OkpCurves, {"-2", "-4"}), "header")
<1>1. /\ key.crv = k.crv /\ Is("-2", o.pub, CrvSize[k.crv])
      /\ May("-4", private, o.priv, CrvSize[k.crv])
  BY Zenon DEF OkpRestored
<1>2. mem["-2"].val = o.pub /\ mem["-2"].len = CrvSize[k.crv]
  BY Zenon, <1>1, Recorded
<1>3. Has("-4") => mem["-4"].len = CrvSize[k.crv]
  BY Zenon, <1>1, Recorded
<1>4. Has("-2")
  BY <1>2 DEF Has
<1>5. \A l \in {"-2", "-4"} : Has(l) => mem[l].len = CrvSize[key.crv]
  BY <1>1, <1>2, <1>3
<1>6. CoordinatesFit(OkpCurves, {"-2", "-4"})
  BY Zenon, <1>5 DEF CoordinatesFit
<1>7. x = "ok" /\ y = "ok" /\ z = "ok"
  BY <1>1, <1>4, <1>6 DEF Fails
<1>8. OkpCode = First(<<x, y, z>>)
  BY Zenon DEF OkpCode
<1> HIDE DEF x, y, z
<1> QED BY Zenon, <1>7, <1>8, TripleIff

LEMMA AkpPasses ==
    ASSUME NEW k, NEW o, NEW private, AkpRestored(k, o, private),
           key.alg \in DOMAIN MlDsaPubLen, o.pub # "NULL", private => k.seed # "NULL"
    PROVE  AkpCode = "ok"
<1> DEFINE x == Fails(key.alg \notin DOMAIN MlDsaPubLen, "alg")
           y == Fails(~ Has("-1"), "header")
           z == Fails(Has("-2") /\ mem["-2"].len # SeedSize, "header")
<1>1. Is("-1", o.pub, o.n) /\ May("-2", private, k.seed, SeedSize)
  BY Zenon DEF AkpRestored
<1>2. mem["-1"].val = o.pub
  BY Zenon, <1>1, Recorded
<1>3. Has("-2") => mem["-2"].len = SeedSize
  BY <1>1 DEF May, Is, Str, Has, NULL
<1>4. Has("-1")
  BY <1>2 DEF Has
<1>7. x = "ok" /\ y = "ok" /\ z = "ok"
  BY <1>3, <1>4 DEF Fails
<1>8. AkpCode = First(<<x, y, z>>)
  BY Zenon DEF AkpCode
<1> HIDE DEF x, y, z
<1> QED BY Zenon, <1>7, <1>8, TripleIff

LEMMA LmsPasses ==
    ASSUME NEW val, NEW len, OneRestored(val, len), val # "NULL", key.alg \in {"unset", "HSS-LMS"}
    PROVE  LmsCode = "ok"
<1> DEFINE x == Fails(key.alg \notin {"unset", "HSS-LMS"}, "alg")
           y == Fails(~ Has("-1") \/ \E l \in {"-2", "-3", "-4"} : Has(l), "header")
<1>1. Is("-1", val, len) /\ \A l \in Members : l # "-1" => mem[l] = NULL
  BY Zenon DEF OneRestored
<1>2. mem["-1"].val = val
  BY Zenon, <1>1, Recorded
<1>3. \A l \in {"-2", "-3", "-4"} : ~ Has(l)
  BY <1>1 DEF Members, Has, NULL
<1>4. Has("-1")
  BY <1>2 DEF Has
<1>7. x = "ok" /\ y = "ok"
  BY <1>3, <1>4 DEF Fails
<1>8. LmsCode = First(<<x, y>>)
  BY Zenon DEF LmsCode
<1> HIDE DEF x, y
<1> QED BY Zenon, <1>7, <1>8, PairIff

\* What there is of an RSA key: both halves or the public one.
LEMMA RsaHas ==
    ASSUME NEW o, NEW private, RsaRestored(o, private), o.priv # "NULL"
    PROVE  /\ mem["-1"].val = o.pub /\ mem["-1"].len = o.n /\ mem["-2"].len = o.e
           /\ private => /\ \A l \in RsaPrivate : Has(l) /\ mem[l].val = o.priv
                         /\ mem["-3"].len = o.n
                         /\ \A l \in RsaPrivate \ {"-3"} : mem[l].len = RsaHalf(o.n)
           /\ ~ private => \A l \in RsaPrivate : ~ Has(l)
<1>1. Is("-1", o.pub, o.n) /\ Is("-2", o.pub, o.e)
  BY Zenon DEF RsaRestored
<1>2. mem["-1"].val = o.pub /\ mem["-1"].len = o.n /\ mem["-2"].len = o.e
  BY Zenon, <1>1, Recorded
<1>3. RsaPrivate = {"-3"} \cup FactorLabels /\ "-3" \notin FactorLabels
  BY DEF RsaPrivate, Members, FactorLabels
<1>4. ASSUME private
      PROVE  /\ \A l \in RsaPrivate : Has(l) /\ mem[l].val = o.priv
             /\ mem["-3"].len = o.n
             /\ \A l \in RsaPrivate \ {"-3"} : mem[l].len = RsaHalf(o.n)
  <2>1. Is("-3", o.priv, o.n) /\ \A l \in FactorLabels : Is(l, o.priv, RsaHalf(o.n))
    BY Zenon, <1>4 DEF RsaRestored
  <2>2. mem["-3"].val = o.priv /\ mem["-3"].len = o.n
    BY Zenon, <2>1, Recorded
  <2>3. \A l \in FactorLabels : mem[l].val = o.priv /\ mem[l].len = RsaHalf(o.n)
    BY Zenon, <2>1, Recorded
  <2> QED BY <1>3, <2>2, <2>3 DEF Has
<1>5. ASSUME ~ private PROVE \A l \in RsaPrivate : ~ Has(l)
  <2>1. \A l \in RsaPrivate : mem[l] = NULL
    BY Zenon, <1>5 DEF RsaRestored
  <2> QED BY Zenon, <2>1, Recorded
<1> QED BY Zenon, <1>2, <1>4, <1>5

LEMMA RsaPasses ==
    ASSUME NEW o, NEW private, RsaRestored(o, private), o.priv # "NULL",
           o.n \in Nat, o.n # 0, o.e # 0, badType = FALSE, ~ in.tail
    PROVE  RsaCode = "ok"
<1> DEFINE takes == key.att \in {"none", "rsa"}
           half == RsaHalf(mem["-1"].len)
           a == Fails(badType, "header")
           b == Fails(in.tail, "cbor")
           c == Fails(takes /\ (mem["-1"].len = 0 \/ mem["-2"].len = 0), "header")
           d == Fails(/\ Has("-3")
                      /\ \/ mem["-3"].len > mem["-1"].len
                         \/ \E l \in RsaPrivate \ {"-3"} : mem[l].len > half, "header")
           e == Fails(takes /\ (\E l \in RsaPrivate : Has(l)) /\ (\E l \in RsaPrivate : ~ Has(l)),
                      "header")
<1>1. /\ mem["-1"].val = o.pub /\ mem["-1"].len = o.n /\ mem["-2"].len = o.e
      /\ private => /\ \A l \in RsaPrivate : Has(l) /\ mem[l].val = o.priv
                    /\ mem["-3"].len = o.n
                    /\ \A l \in RsaPrivate \ {"-3"} : mem[l].len = RsaHalf(o.n)
      /\ ~ private => \A l \in RsaPrivate : ~ Has(l)
  BY Zenon, RsaHas
<1>2. "-3" \in RsaPrivate
  BY DEF RsaPrivate, Members
<1>3. half = RsaHalf(o.n) /\ half \in Nat
  <2>1. RsaHalf(o.n) \in Nat
    BY DEF RsaHalf
  <2> QED BY Zenon, <1>1, <2>1
<1>4. RsaCode = First(<<a, b, c, d, e>>)
  BY Zenon DEF RsaCode
<1>5. a = "ok" /\ b = "ok" /\ c = "ok"
  BY <1>1 DEF Fails
<1> HIDE DEF half
<1>6. Has("-3") => private
  BY Zenon, <1>1, <1>2
<1>7. private => ~ (mem["-3"].len > mem["-1"].len)
  BY <1>1
<1>8. private => \A l \in RsaPrivate \ {"-3"} : ~ (mem[l].len > half)
  BY <1>1, <1>3
<1>9. d = "ok"
  BY Zenon, <1>6, <1>7, <1>8 DEF Fails
<1>10. e = "ok"
  BY Zenon, <1>1 DEF Fails
<1> HIDE DEF a, b, c, d, e
<1> QED BY Zenon, <1>4, <1>5, <1>9, <1>10, FiveIff

\* What is attached goes with a key read back as it went with the key sent.
LEMMA SameAttachment ==
    ASSUME NEW k \in Key, key \in Key, key.kty = k.kty, k.kty = "OKP" => key.crv = k.crv,
           AttachedTypeCheck([k EXCEPT !.att = key.att]) = "ok"
    PROVE  AttachedTypeCheck(key) = "ok"
<1> DEFINE q == [k EXCEPT !.att = key.att]
<1>1. q.att = key.att /\ q.kty = k.kty /\ q.crv = k.crv
  BY DEF Key
<1> HIDE DEF q
<1>2. ~ (\/ q.att # "none" /\ <<q.att, q.kty>> \notin Attachable
         \/ q.att = "ed25519" /\ q.crv # "Ed25519"
         \/ q.att = "ed448" /\ q.crv # "Ed448")
  BY DEF AttachedTypeCheck, Fails, q
<1>3. key.att # "none" => <<key.att, key.kty>> \in Attachable
  BY <1>1, <1>2
<1>4. key.att \in {"ed25519", "ed448"} => key.kty = "OKP"
  BY <1>3 DEF Attachable
<1>5. (key.att = "ed25519" => key.crv = "Ed25519") /\ (key.att = "ed448" => key.crv = "Ed448")
  BY <1>1, <1>2, <1>4
<1> QED BY <1>3, <1>5 DEF AttachedTypeCheck, Fails

\* The checks behind the last entry.
LEMMA ChecksPass ==
    ASSUME key.kty # "0", ~ in.tail, AttachedTypeCheck(key) = "ok",
           key.kty = "RSA" => RsaCode = "ok", key.kty = "EC2" => Ec2Code = "ok",
           key.kty = "OKP" => OkpCode = "ok", key.kty = "AKP" => AkpCode = "ok",
           key.kty = "HSS-LMS" => LmsCode = "ok"
    PROVE  CheckCode = "ok"
<1> DEFINE a == Fails(key.kty = "0", "header")
           b == IF key.kty = "RSA" THEN RsaCode ELSE Fails(in.tail, "cbor")
           c == IF key.kty = "EC2" THEN Ec2Code ELSE IF key.kty = "OKP" THEN OkpCode ELSE "ok"
           d == AttachedTypeCheck(key)
           e == IF key.kty = "AKP" THEN AkpCode ELSE IF key.kty = "HSS-LMS" THEN LmsCode ELSE "ok"
<1>1. a = "ok" /\ b = "ok" /\ c = "ok" /\ d = "ok" /\ e = "ok"
  BY DEF Fails
<1>2. CheckCode = First(<<a, b, c, d, e>>)
  BY Zenon DEF CheckCode
<1> HIDE DEF a, b, c, d, e
<1>3. First(<<a, b, c, d, e>>) = "ok"
  BY <1>1, FiveIff
<1> QED BY Zenon, <1>2, <1>3

\* A key that is read back passes the checks when it fits what is attached.
LEMMA SentPasses ==
    ASSUME key \in Key, NEW k, NEW o, NEW public, Sendable(k, o, public),
           Restores(k, Own(k, o, public)), ~ in.tail,
           AttachedTypeCheck([k EXCEPT !.att = key.att]) = "ok",
           k.kty = "AKP" => k.alg = o.par
    PROVE  CheckCode = "ok"
<1>1. /\ k \in Key /\ key.kty = k.kty /\ key.alg = k.alg /\ badType = FALSE
      /\ o.pub # "NULL" /\ o.priv # "NULL"
  BY DEF Sendable, Restores
<1>2. k.kty \in {"EC2", "RSA", "AKP", "HSS-LMS", "OKP", "Symmetric"}
  BY DEF Sendable
<1>3. key.kty # "0"
  BY <1>1, <1>2
<1>4. ASSUME k.kty = "OKP" PROVE key.crv = k.crv /\ OkpCode = "ok"
  <2> DEFINE private == KeyEmitsPrivate(k, public)
  <2>1. Own(k, o, public) = OkpOwn(k, o, private)
    BY <1>4 DEF Own
  <2>2. OkpRestored(k, o, private)
    BY Zenon, <2>1, OkpRestores
  <2>3. k.crv \in OkpCurves
    BY <1>4 DEF Sendable
  <2>4. key.crv = k.crv
    BY Zenon, <2>2 DEF OkpRestored
  <2> QED BY Zenon, <1>1, <2>2, <2>3, <2>4, OkpPasses
<1>5. AttachedTypeCheck(key) = "ok"
  BY Zenon, <1>1, <1>4, SameAttachment
<1>6. ASSUME k.kty = "EC2" PROVE Ec2Code = "ok"
  <2> DEFINE private == KeyEmitsPrivate(k, public)
  <2>1. Own(k, o, public) = Ec2Own(k, o, private)
    BY <1>6 DEF Own
  <2>2. Ec2Restored(k, o, private)
    BY Zenon, <2>1, Ec2Restores
  <2>3. k.crv \in Ec2Curves /\ o.n = CrvSize[k.crv]
    BY <1>6 DEF Sendable
  <2> QED BY Zenon, <1>1, <2>2, <2>3, Ec2Passes
<1>7. ASSUME k.kty = "RSA" PROVE RsaCode = "ok"
  <2> DEFINE private == EmitsRsa(k, o, public)
  <2>1. Own(k, o, public) = RsaOwn(o, private)
    BY <1>7 DEF Own
  <2>2. RsaRestored(o, private)
    BY Zenon, <2>1, RsaRestores
  <2>3. o.n # 0 /\ o.e # 0 /\ o.n \in Nat
    BY <1>7 DEF Sendable
  <2> QED BY Zenon, <1>1, <2>2, <2>3, RsaPasses
<1>8. ASSUME k.kty = "AKP" PROVE AkpCode = "ok"
  <2> DEFINE private == EmitsMlDsa(k, public)
  <2>1. Own(k, o, public) = AkpOwn(k, o, private)
    BY <1>8 DEF Own
  <2>2. AkpRestored(k, o, private)
    BY Zenon, <2>1, AkpRestores
  <2>3. o.par \in DOMAIN MlDsaPubLen
    BY <1>8 DEF Sendable
  <2>4. key.alg \in DOMAIN MlDsaPubLen
    BY Zenon, <1>1, <1>8, <2>3
  <2>5. private => k.seed # "NULL"
    BY DEF EmitsMlDsa
  <2> HIDE DEF private
  <2> QED BY Zenon, <1>1, <2>2, <2>4, <2>5, AkpPasses
<1>9. ASSUME k.kty = "HSS-LMS" PROVE LmsCode = "ok"
  <2>1. Own(k, o, public) = {Bytes("-1", o.pub, o.n)}
    BY <1>9 DEF Own, LmsOwn
  <2>2. OneRestored(o.pub, o.n)
    BY Zenon, <2>1, OneRestores
  <2>3. key.alg \in {"unset", "HSS-LMS"}
    BY <1>1, <1>9 DEF Sendable
  <2> QED BY Zenon, <1>1, <2>2, <2>3, LmsPasses
<1> QED BY Zenon, <1>1, <1>3, <1>4, <1>5, <1>6, <1>7, <1>8, <1>9, ChecksPass

-----------------------------------------------------------------------------
(* and its import agrees with what was sent.                               *)

\* The key read back, and its object, are those that were sent.
Agrees(o, private) ==
    ret' = "ok" => /\ SameDescription /\ key'.att = key.att
                   /\ obj'.pub = o.pub /\ key'.hasPrivate = private
                   /\ private => obj'.priv = o.priv

Smooth == ret' \in {"ok", "crypto"}

LEMMA RefusedAgrees ==
    ASSUME NEW left, NEW code, NotImported(left, code), code # "ok", NEW o, NEW private
    PROVE  Agrees(o, private) /\ (code = "crypto" => Smooth)
BY DEF NotImported, Agrees, Smooth

LEMMA ImportedAgrees ==
    ASSUME key \in Key, NEW got, NEW private \in BOOLEAN, Imported(got, private), NEW o,
           got.pub = o.pub, private => got.priv = o.priv
    PROVE  Agrees(o, private) /\ Smooth
<1>1. obj' = got /\ key' = [key EXCEPT !.hasPrivate = private] /\ ret' = "ok"
  BY DEF Imported
<1>2. /\ key'.kty = key.kty /\ key'.kid = key.kid /\ key'.alg = key.alg /\ key'.crv = key.crv
      /\ key'.att = key.att /\ key'.hasPrivate = private
  BY <1>1 DEF Key
<1> QED BY <1>1, <1>2 DEF Agrees, SameDescription, Smooth

Halved(o) == o.pub # "NULL" /\ o.priv # "NULL"

LEMMA Ec2Back ==
    ASSUME key \in Key, obj \in Object, NEW k, NEW o, NEW private \in BOOLEAN,
           Ec2Restored(k, o, private), Halved(o), ImportEcc
    PROVE  /\ Agrees(o, private)
           /\ EccPrivateImportBegin = "ok" => Smooth
<1> DEFINE pub == IF Has("-2") /\ Has("-3") THEN mem["-2"].val ELSE "none"
           priv == IF Has("-4") THEN mem["-4"].val ELSE "none"
           filled == [obj EXCEPT !.par = key.crv, !.n = CrvSize[key.crv], !.pub = pub, !.priv = priv]
           begin == EccPrivateImportBegin
           undone == EccPrivateImportRollback(filled, obj)
<1>1. Is("-2", o.pub, o.n) /\ Is("-3", o.pub, o.n) /\ May("-4", private, o.priv, o.n)
  BY Zenon DEF Ec2Restored
<1>2. mem["-2"].val = o.pub /\ mem["-3"].val = o.pub
  BY Zenon, <1>1, Recorded
<1>3. (private <=> Has("-4")) /\ (private => mem["-4"].val = o.priv)
  BY <1>1 DEF May, Is, Str, Has, NULL, Halved
<1>4. Has("-2") /\ Has("-3")
  BY <1>2 DEF Has, Halved
<1>5. pub = o.pub /\ (private => priv = o.priv)
  BY <1>2, <1>3, <1>4
<1> HIDE DEF pub, priv
<1>6. filled.pub = o.pub /\ (private => filled.priv = o.priv)
  BY <1>5 DEF Object
<1> HIDE DEF filled, begin, undone
<1>7. \/ Has("-4") /\ begin # "ok" /\ NotImported(obj, begin)
      \/ Has("-4") /\ begin = "ok" /\ NotImported(undone, "crypto")
      \/ ~ Has("-4") /\ \E left \in {obj, Cleared(obj)} : NotImported(left, "crypto")
      \/ Imported(filled, Has("-4"))
  BY DEF ImportEcc, filled, begin, undone, pub, priv
<1>8. "crypto" # "ok"
  OBVIOUS
<1>9. CASE Has("-4") /\ begin # "ok" /\ NotImported(obj, begin)
  <2>1. Agrees(o, private)
    BY Zenon, <1>9, RefusedAgrees
  <2> QED BY <1>9, <2>1 DEF begin
<1>10. CASE Has("-4") /\ begin = "ok" /\ NotImported(undone, "crypto")
  BY Zenon, <1>8, <1>10, RefusedAgrees
<1>11. CASE ~ Has("-4") /\ \E left \in {obj, Cleared(obj)} : NotImported(left, "crypto")
  BY Zenon, <1>8, <1>11, RefusedAgrees
<1>12. CASE Imported(filled, Has("-4"))
  <2>1. Has("-4") = private
    BY <1>3 DEF Has
  <2>2. Imported(filled, private)
    BY Zenon, <1>12, <2>1
  <2> QED BY Zenon, <1>6, <2>2, ImportedAgrees
<1> QED BY Zenon, <1>7, <1>9, <1>10, <1>11, <1>12

LEMMA RsaBack ==
    ASSUME key \in Key, obj \in Object, NEW o, NEW private \in BOOLEAN,
           RsaRestored(o, private), Halved(o), ImportRsa
    PROVE  Agrees(o, private) /\ Smooth
<1> DEFINE all == \A l \in {"-3", "-4", "-5", "-8"} : Has(l)
           priv == IF all THEN mem["-3"].val ELSE "none"
           got == [obj EXCEPT !.par = "rsa", !.n = mem["-1"].len, !.e = mem["-2"].len,
                              !.pub = mem["-1"].val, !.priv = priv]
<1>1. /\ mem["-1"].val = o.pub
      /\ private => \A l \in RsaPrivate : Has(l) /\ mem[l].val = o.priv
      /\ ~ private => \A l \in RsaPrivate : ~ Has(l)
  BY Zenon, RsaHas DEF Halved
<1>2. {"-3", "-4", "-5", "-8"} \subseteq RsaPrivate
  BY DEF RsaPrivate, Members
<1>3. all = private /\ (private => mem["-3"].val = o.priv)
  BY <1>1, <1>2
<1>4. NotImported(Cleared(obj), "crypto") \/ Imported(got, all)
  BY DEF ImportRsa
<1>5. private => priv = o.priv
  BY <1>3
<1> HIDE DEF all, priv
<1>6. got.pub = o.pub /\ (private => got.priv = o.priv)
  BY <1>1, <1>5 DEF Object
<1> HIDE DEF got
<1>7. "crypto" # "ok"
  OBVIOUS
<1> QED BY Zenon, <1>3, <1>4, <1>6, <1>7, RefusedAgrees, ImportedAgrees

LEMMA LmsBack ==
    ASSUME key \in Key, obj \in Object, NEW o, NEW len, OneRestored(o.pub, len), ImportLms
    PROVE  Agrees(o, FALSE) /\ Smooth
<1> DEFINE got == [obj EXCEPT !.n = mem["-1"].len, !.pub = mem["-1"].val, !.priv = "none"]
<1>1. Is("-1", o.pub, len)
  BY Zenon DEF OneRestored
<1>2. mem["-1"].val = o.pub
  BY Zenon, <1>1, Recorded
<1>3. got.pub = o.pub
  BY <1>2 DEF Object
<1>4. NotImported(obj, "crypto") \/ Imported(got, FALSE)
  BY DEF ImportLms
<1> HIDE DEF got
<1>5. "crypto" # "ok" /\ FALSE \in BOOLEAN
  OBVIOUS
<1> QED BY Zenon, <1>3, <1>4, <1>5, RefusedAgrees, ImportedAgrees

LEMMA OkpBack ==
    ASSUME key \in Key, obj \in Object, NEW k, NEW o, NEW private \in BOOLEAN,
           OkpRestored(k, o, private), Halved(o), ImportOkp
    PROVE  Agrees(o, private) /\ (key.att = OkpMember => Smooth)
<1> DEFINE half == [obj EXCEPT !.priv = mem["-4"].val]
           both == [half EXCEPT !.pub = mem["-2"].val]
           one  == [obj EXCEPT !.pub = mem["-2"].val]
<1>1. Is("-2", o.pub, CrvSize[k.crv]) /\ May("-4", private, o.priv, CrvSize[k.crv])
  BY Zenon DEF OkpRestored
<1>2. mem["-2"].val = o.pub
  BY Zenon, <1>1, Recorded
<1>3. (private <=> Has("-4")) /\ (private => mem["-4"].val = o.priv)
  BY <1>1 DEF May, Is, Str, Has, NULL, Halved
<1>4. Has("-2")
  BY <1>2 DEF Has, Halved
<1>5. both.pub = o.pub /\ (private => both.priv = o.priv) /\ one.pub = o.pub
  BY <1>2, <1>3 DEF Object
<1>6. \/ key.att # OkpMember /\ NotImported(obj, "alg")
      \/ \E left \in {obj, Cleared(obj)} : NotImported(left, "crypto")
      \/ private /\ Imported(both, TRUE)
      \/ ~ private /\ Imported(one, FALSE)
  BY <1>3, <1>4 DEF ImportOkp
<1> HIDE DEF half, both, one
<1>7. "crypto" # "ok" /\ "alg" # "ok" /\ FALSE \in BOOLEAN /\ TRUE \in BOOLEAN
  OBVIOUS
<1>8. CASE key.att # OkpMember /\ NotImported(obj, "alg")
  BY Zenon, <1>7, <1>8, RefusedAgrees
<1>9. CASE \E left \in {obj, Cleared(obj)} : NotImported(left, "crypto")
  BY Zenon, <1>7, <1>9, RefusedAgrees
<1>10. CASE private /\ Imported(both, TRUE)
  <2>1. private = TRUE
    BY <1>10
  <2> QED BY Zenon, <1>5, <1>7, <1>10, <2>1, ImportedAgrees
<1>11. CASE ~ private /\ Imported(one, FALSE)
  <2>1. private = FALSE
    BY <1>11
  <2> QED BY Zenon, <1>5, <1>7, <1>11, <2>1, ImportedAgrees
<1> QED BY Zenon, <1>6, <1>8, <1>9, <1>10, <1>11

\* The private half of an ML-DSA key is the seed, which is of the same pair.
LEMMA AkpBack ==
    ASSUME key \in Key, obj \in Object, NEW k, NEW o, NEW private \in BOOLEAN,
           AkpRestored(k, o, private), Halved(o), private => k.seed # "NULL",
           private => o.priv = o.pub, ImportMlDsa
    PROVE  /\ Agrees(o, private)
           /\ (o.n = MlDsaPubLen[key.alg] /\ (private => k.seed = o.pub)) => Smooth
<1> DEFINE level  == [Cleared(obj) EXCEPT !.par = key.alg, !.n = MlDsaPubLen[key.alg]]
           public == [level EXCEPT !.pub = mem["-1"].val]
           pair   == [level EXCEPT !.pub = mem["-2"].val, !.priv = mem["-2"].val]
           matches == SeedMatches(mem["-2"], mem["-1"])
           undone == MlDsaImportRollback(pair)
<1>1. key.crv = "0" /\ Is("-1", o.pub, o.n) /\ May("-2", private, k.seed, SeedSize)
  BY Zenon DEF AkpRestored
<1>2. mem["-1"].val = o.pub /\ mem["-1"].len = o.n
  BY Zenon, <1>1, Recorded
<1>3. (private <=> Has("-2")) /\ (private => mem["-2"].val = k.seed)
  BY <1>1 DEF May, Is, Str, Has, NULL
<1>4. public.pub = o.pub /\ pair.pub = mem["-2"].val /\ pair.priv = mem["-2"].val
  BY <1>2 DEF Object, Cleared
<1>5. matches <=> mem["-2"].val = o.pub
  BY <1>2 DEF SeedMatches
<1>6. \/ \E left \in {obj, level} : NotImported(left, "crypto")
      \/ ~ Has("-2") /\ Imported(public, FALSE)
      \/ Has("-2") /\ NotImported(undone, "crypto")
      \/ Has("-2") /\ ~ matches /\ NotImported(undone, "header")
      \/ /\ Has("-2") /\ matches /\ obj' = pair /\ ret' = "ok"
         /\ key' = [key EXCEPT !.hasPrivate = TRUE, !.seed = mem["-2"].val]
  BY <1>1 DEF ImportMlDsa
<1> HIDE DEF level, public, pair, matches, undone
<1>7. "crypto" # "ok" /\ "header" # "ok" /\ FALSE \in BOOLEAN
  OBVIOUS
<1>8. CASE \E left \in {obj, level} : NotImported(left, "crypto")
  BY Zenon, <1>7, <1>8, RefusedAgrees
<1>9. CASE ~ Has("-2") /\ Imported(public, FALSE)
  <2>1. private = FALSE
    BY <1>3, <1>9
  <2> QED BY Zenon, <1>4, <1>7, <1>9, <2>1, ImportedAgrees
<1>10. CASE Has("-2") /\ NotImported(undone, "crypto")
  BY Zenon, <1>7, <1>10, RefusedAgrees
<1>11. CASE Has("-2") /\ ~ matches /\ NotImported(undone, "header")
  <2>1. Agrees(o, private)
    BY Zenon, <1>7, <1>11, RefusedAgrees
  <2>2. ~ (private => k.seed = o.pub)
    BY <1>3, <1>5, <1>11
  <2> QED BY Zenon, <2>1, <2>2
<1>12. CASE /\ Has("-2") /\ matches /\ obj' = pair /\ ret' = "ok"
            /\ key' = [key EXCEPT !.hasPrivate = TRUE, !.seed = mem["-2"].val]
  <2>1. private = TRUE /\ obj'.pub = o.pub /\ obj'.priv = o.priv
    BY <1>3, <1>4, <1>5, <1>12
  <2>2. /\ key'.kty = key.kty /\ key'.kid = key.kid /\ key'.alg = key.alg /\ key'.crv = key.crv
        /\ key'.att = key.att /\ key'.hasPrivate = TRUE
    BY <1>12 DEF Key
  <2> QED BY <1>12, <2>1, <2>2 DEF Agrees, SameDescription, Smooth
<1> QED BY Zenon, <1>6, <1>8, <1>9, <1>10, <1>11, <1>12

LEMMA SymmetricBack ==
    ASSUME key \in Key, NEW val, NEW len, OneRestored(val, len), len # 0, ImportSymmetric
    PROVE  /\ ret' = "ok" /\ SameDescription /\ key'.att = key.att
           /\ key'.hasPrivate /\ key'.union = Str(val, len)
<1>1. Is("-1", val, len)
  BY Zenon DEF OneRestored
<1>2. mem["-1"] = Str(val, len) /\ mem["-1"].len = len
  BY <1>1 DEF Is, Str
<1>3. key' = [key EXCEPT !.union = mem["-1"], !.hasPrivate = TRUE] /\ ret' = "ok"
  BY <1>2 DEF ImportSymmetric
<1>4. /\ key'.kty = key.kty /\ key'.kid = key.kid /\ key'.alg = key.alg /\ key'.crv = key.crv
      /\ key'.att = key.att /\ key'.hasPrivate = TRUE /\ key'.union = mem["-1"]
  BY <1>3 DEF Key
<1> QED BY <1>2, <1>3, <1>4 DEF SameDescription

\* The parts of RoundTrip.
Fits == /\ AttachedTypeCheck([sent.key EXCEPT !.att = key.att]) = "ok"
        /\ ~ Holds(before, "pub") /\ ~ Holds(before, "priv")
        /\ before.kind = "ecc" => before.n = 0
        /\ ~ before.device

Exports == \E i \in DOMAIN out : Secret(sent.key.kty, out[i].label)

\* What is found in a key and its object of what was sent.
Found(k, o, private, q, p) ==
    /\ q.kty = k.kty /\ q.alg = k.alg
    /\ q.kid = IF k.kid.len = 0 THEN NULL ELSE k.kid
    /\ k.kty \in {"EC2", "OKP"} => q.crv = k.crv
    /\ k.kty = "Symmetric" => q.union = k.union /\ q.hasPrivate
    /\ q.att \notin {"none", "symmetric"} =>
           /\ p.pub = o.pub
           /\ q.hasPrivate = private
           /\ private => p.priv = o.priv

LEMMA RoundTripIs ==
    RoundTrip <=>
        ((pc = "idle" /\ op = "decode" /\ ~ key.signCb /\ Echoes /\ ~ in.tail) =>
             /\ Fits /\ Coherent(sent) => ret \in {"ok", "crypto"}
             /\ ret = "ok" => Found(sent.key, sent.obj, Exports, key, obj))
BY Zenon DEF RoundTrip, Fits, Exports, Found, Echoes

LEMMA ExportsOwn ==
    ASSUME NEW own, Readied(own)
    PROVE  Exports <=> \E e \in own : Secret(sent.key.kty, e.label)
<1> DEFINE E == Commons(sent.key) \cup own
<1>1. Lists(out, E, 11) /\ Tagged(own, Members)
  BY Zenon DEF Readied, Readable
<1>2. Tagged(Commons(sent.key), CommonLabels)
  BY Zenon, CommonListed
<1>3. \A l \in CommonLabels : ~ Secret(sent.key.kty, l)
  BY DEF CommonLabels, Secret, RsaPrivate, Members
<1>4. \A e \in Commons(sent.key) : ~ Secret(sent.key.kty, e.label)
  BY Zenon, <1>2, <1>3 DEF Tagged
<1> HIDE DEF E
<1>5. /\ DOMAIN out = 1 .. Len(out)
      /\ \A i \in 1 .. Len(out) : out[i] \in E
      /\ \A e \in E : \E i \in 1 .. Len(out) : out[i] = e
  BY <1>1 DEF Lists
<1>6. Exports <=> \E e \in E : Secret(sent.key.kty, e.label)
  BY Zenon, <1>5 DEF Exports
<1> QED BY Zenon, <1>4, <1>6 DEF E

\* The private half is in the entries when it is exported.
LEMMA SecretLabels ==
    /\ \A l : Secret("EC2", l) <=> l = "-4"
    /\ \A l : Secret("OKP", l) <=> l = "-4"
    /\ \A l : Secret("AKP", l) <=> l = "-2"
    /\ \A l : ~ Secret("HSS-LMS", l)
    /\ \A l : Secret("RSA", l) <=> l \in RsaPrivate
BY DEF Secret

LEMMA LabelMaybe ==
    ASSUME NEW rest, NEW private \in BOOLEAN, NEW d, NEW l, d.label = l, \A e \in rest : e.label # l
    PROVE  (\E e \in rest \cup Maybe(private, d) : e.label = l) <=> private
BY DEF Maybe

LEMMA OwnSecrets ==
    ASSUME NEW k, NEW o, NEW private \in BOOLEAN
    PROVE  /\ (\E e \in Ec2Own(k, o, private) : Secret("EC2", e.label)) <=> private
           /\ (\E e \in OkpOwn(k, o, private) : Secret("OKP", e.label)) <=> private
           /\ (\E e \in AkpOwn(k, o, private) : Secret("AKP", e.label)) <=> private
           /\ (\E e \in RsaOwn(o, private) : Secret("RSA", e.label)) <=> private
           /\ ~ \E e \in LmsOwn(o) : Secret("HSS-LMS", e.label)
<1>1. (\E e \in Ec2Own(k, o, private) : e.label = "-4") <=> private
  <2> DEFINE rest == {Number("-1", k.crv), Bytes("-2", o.pub, o.n), Bytes("-3", o.pub, o.n)}
             last == Bytes("-4", o.priv, o.n)
             own == Ec2Own(k, o, private)
  <2>1. last.label = "-4" /\ \A e \in rest : e.label # "-4"
    BY DEF Number, Bytes
  <2>2. own = rest \cup Maybe(private, last)
    BY Zenon DEF Ec2Own
  <2> HIDE DEF rest, last, own
  <2>3. (\E e \in own : e.label = "-4") <=> private
    BY <2>1, <2>2, LabelMaybe
  <2> QED BY Zenon, <2>3 DEF own
<1>2. (\E e \in OkpOwn(k, o, private) : e.label = "-4") <=> private
  <2> DEFINE rest == {Number("-1", k.crv), Bytes("-2", o.pub, CrvSize[k.crv])}
             last == Bytes("-4", o.priv, CrvSize[k.crv])
             own == OkpOwn(k, o, private)
  <2>1. last.label = "-4" /\ \A e \in rest : e.label # "-4"
    BY DEF Number, Bytes
  <2>2. own = rest \cup Maybe(private, last)
    BY Zenon DEF OkpOwn
  <2> HIDE DEF rest, last, own
  <2>3. (\E e \in own : e.label = "-4") <=> private
    BY <2>1, <2>2, LabelMaybe
  <2> QED BY Zenon, <2>3 DEF own
<1>3. (\E e \in AkpOwn(k, o, private) : e.label = "-2") <=> private
  <2> DEFINE rest == {Bytes("-1", o.pub, o.n)}
             last == Bytes("-2", k.seed, SeedSize)
             own == AkpOwn(k, o, private)
  <2>1. last.label = "-2" /\ \A e \in rest : e.label # "-2"
    BY DEF Number, Bytes
  <2>2. own = rest \cup Maybe(private, last)
    BY Zenon DEF AkpOwn
  <2> HIDE DEF rest, last, own
  <2>3. (\E e \in own : e.label = "-2") <=> private
    BY <2>1, <2>2, LabelMaybe
  <2> QED BY Zenon, <2>3 DEF own
<1>4. (\E e \in RsaOwn(o, private) : e.label \in RsaPrivate) <=> private
  <2>1. Bytes("-3", o.priv, o.n) \in RsaPrivates(o)
    BY DEF RsaPrivates
  <2>2. Bytes("-3", o.priv, o.n).label = "-3" /\ "-3" \in RsaPrivate
    BY DEF Bytes, RsaPrivate, Members
  <2>3. private => \E e \in RsaOwn(o, private) : e.label \in RsaPrivate
    BY <2>1, <2>2 DEF RsaOwn
  <2>4. ~ private => ~ \E e \in RsaOwn(o, private) : e.label \in RsaPrivate
    BY DEF RsaOwn, Bytes, RsaPrivate
  <2> QED BY Zenon, <2>3, <2>4
<1> QED BY Zenon, <1>1, <1>2, <1>3, <1>4, SecretLabels

\* The outcome of importing what was sent.
Outcome == /\ Fits /\ Coherent(sent) => Smooth
           /\ ret' = "ok" => Found(sent.key, sent.obj, Exports, key', obj')

\* What all types have in common at the import.
Arriving(k, o, own) ==
    /\ IInv /\ Importing /\ k = sent.key /\ o = sent.obj
    /\ Sendable(k, o, sent.public) /\ Restores(k, own)

LEMMA ArrivingFacts ==
    ASSUME NEW k, NEW o, NEW own, Arriving(k, o, own)
    PROVE  /\ key \in Key /\ obj \in Object /\ Halved(o) /\ key.kty = k.kty /\ key.alg = k.alg
           /\ key.kid = IF k.kid.len = 0 THEN NULL ELSE k.kid
           /\ obj = before /\ ret = "ok" /\ Suits
           /\ key.att \in Kinds => obj.kind = key.att
           /\ key.att \in {"none", "symmetric"} \cup Kinds
<1>1. key \in Key /\ obj \in Object /\ obj = before /\ ret = "ok" /\ Suits /\ KeyFits(key, obj)
  BY AtImport DEF Arriving
<1>2. Halved(o) /\ key.kty = k.kty /\ key.alg = k.alg
      /\ key.kid = IF k.kid.len = 0 THEN NULL ELSE k.kid
  BY DEF Arriving, Sendable, Halved, Restores
<1>3. key.att \in Kinds => obj.kind = key.att
  BY <1>1 DEF KeyFits
<1>4. key.att \in {"none", "symmetric"} \cup Kinds
  BY <1>1 DEF Key
<1> QED BY Zenon, <1>1, <1>2, <1>3, <1>4

\* Without an import the key only describes itself.
LEMMA NothingToImport ==
    ASSUME NEW k, NEW o, NEW own, Arriving(k, o, own), UNCHANGED <<key, obj, ret>>,
           k.kty # "Symmetric", key.att = "none",
           k.kty \in {"EC2", "OKP"} => key.crv = k.crv
    PROVE  Outcome
<1>1. /\ key.kty = k.kty /\ key.alg = k.alg /\ ret = "ok"
      /\ key.kid = IF k.kid.len = 0 THEN NULL ELSE k.kid
  BY Zenon, ArrivingFacts
<1>2. Found(k, o, Exports, key, obj)
  BY <1>1 DEF Found
<1>3. k = sent.key /\ o = sent.obj
  BY DEF Arriving
<1> QED BY <1>1, <1>2, <1>3 DEF Outcome, Smooth

\* An import that agrees with what was sent.
LEMMA AgreeingImport ==
    ASSUME NEW k, NEW o, NEW own, Arriving(k, o, own), NEW private \in BOOLEAN, Agrees(o, private),
           k.kty # "Symmetric", k.kty \in {"EC2", "OKP"} => key.crv = k.crv,
           Exports <=> private, Fits /\ Coherent(sent) => Smooth
    PROVE  Outcome
<1>1. /\ key.kty = k.kty /\ key.alg = k.alg
      /\ key.kid = IF k.kid.len = 0 THEN NULL ELSE k.kid
  BY Zenon, ArrivingFacts
<1>2. ret' = "ok" => Found(k, o, private, key', obj')
  BY <1>1 DEF Found, Agrees, SameDescription
<1>3. k = sent.key /\ o = sent.obj
  BY DEF Arriving
<1>4. Exports = private
  BY DEF Exports
<1> QED BY Zenon, <1>2, <1>3, <1>4 DEF Outcome

\* Importing what has been read from the buffer.
Reimports(k, o, own) ==
    /\ Arriving(k, o, own) /\ Readied(own) /\ own = Own(k, o, sent.public) /\ DecodeImport

LEMMA Reimported ==
    ASSUME IInv, Sent, Spoilt, Echoes, DecodeImport
    PROVE  Reimports(sent.key, sent.obj, Own(sent.key, sent.obj, sent.public))
<1> DEFINE own == Own(sent.key, sent.obj, sent.public)
<1>1. Importing
  BY DEF DecodeImport, Importing
<1>2. pc # "idle" /\ n = Len(in.entries)
  BY <1>1 DEF Importing, IInv, Decoding, Completed, Decodes
<1>3. Readied(own) /\ out # <<>>
  BY Zenon, SentReadable DEF Echoes
<1> HIDE DEF own
<1>4. Restores(sent.key, own)
  BY Zenon, <1>2, <1>3, EchoRestored
<1>5. Sendable(sent.key, sent.obj, sent.public)
  BY Zenon, <1>3 DEF Sent
<1>6. Arriving(sent.key, sent.obj, own)
  BY Zenon, <1>1, <1>4, <1>5 DEF Arriving
<1> QED BY Zenon, <1>3, <1>6 DEF Reimports, own

LEMMA Ec2Outcome ==
    ASSUME NEW k, NEW o, NEW own, Reimports(k, o, own), k.kty = "EC2" PROVE Outcome
<1> DEFINE private == KeyEmitsPrivate(k, sent.public)
<1>1. Arriving(k, o, own) /\ Readied(own) /\ own = Own(k, o, sent.public) /\ DecodeImport
  BY Zenon DEF Reimports
<1>2. /\ key \in Key /\ obj \in Object /\ Halved(o) /\ key.kty = k.kty
      /\ obj = before /\ Suits /\ (key.att \in Kinds => obj.kind = key.att)
      /\ key.att \in {"none", "symmetric"} \cup Kinds
  BY <1>1, ArrivingFacts
<1>3. private \in BOOLEAN
  BY DEF KeyEmitsPrivate
<1>4. own = Ec2Own(k, o, private)
  BY <1>1 DEF Own
<1> HIDE DEF private
<1>5. Ec2Restored(k, o, private)
  <2>1. Restores(k, own)
    BY Zenon, <1>1 DEF Arriving
  <2> QED BY Zenon, <1>4, <2>1, Ec2Restores
<1>6. key.crv = k.crv
  BY Zenon, <1>5 DEF Ec2Restored
<1>7. Exports <=> private
  <2>1. k = sent.key
    BY DEF Reimports, Arriving
  <2>2. (\E e \in own : Secret("EC2", e.label)) <=> private
    BY Zenon, <1>3, <1>4, OwnSecrets
  <2>3. Exports <=> \E e \in own : Secret(sent.key.kty, e.label)
    BY Zenon, <1>1, ExportsOwn
  <2> QED BY Zenon, <2>1, <2>2, <2>3
<1>8. key.att \in {"none", "ecc"}
  BY <1>2 DEF Suits, Attachable
<1>9. CASE key.att = "ecc"
  <2>1. ImportEcc
    BY <1>1, <1>2, <1>9 DEF DecodeImport
  <2>2. Agrees(o, private) /\ (EccPrivateImportBegin = "ok" => Smooth)
    BY Zenon, <1>2, <1>3, <1>5, <2>1, Ec2Back
  <2>3. Fits => EccPrivateImportBegin = "ok"
    <3> DEFINE a == Fails(obj.n # 0 \/ Holds(obj, "pub") \/ Holds(obj, "priv"), "arg")
               b == Fails(obj.device, "unsupported")
    <3>1. obj.kind = "ecc"
      BY <1>2, <1>9 DEF Kinds
    <3>2. Fits => a = "ok" /\ b = "ok"
      BY <1>2, <3>1 DEF Fits, Fails
    <3>3. EccPrivateImportBegin = First(<<a, b>>)
      BY Zenon DEF EccPrivateImportBegin
    <3> HIDE DEF a, b
    <3> QED BY Zenon, <3>2, <3>3, PairIff
  <2>4. k.kty # "Symmetric" /\ (k.kty \in {"EC2", "OKP"} => key.crv = k.crv)
    BY <1>6
  <2>5. Fits /\ Coherent(sent) => Smooth
    BY Zenon, <2>2, <2>3
  <2> QED BY Zenon, <1>1, <1>3, <1>7, <2>2, <2>4, <2>5, AgreeingImport
<1>10. CASE key.att = "none"
  <2>1. UNCHANGED <<key, obj, ret>>
    BY <1>1, <1>2, <1>10 DEF DecodeImport
  <2>2. k.kty # "Symmetric" /\ (k.kty \in {"EC2", "OKP"} => key.crv = k.crv)
    BY <1>6
  <2> QED BY <1>1, <1>10, <2>1, <2>2, NothingToImport
<1> QED BY <1>8, <1>9, <1>10

LEMMA OkpOutcome ==
    ASSUME NEW k, NEW o, NEW own, Reimports(k, o, own), k.kty = "OKP" PROVE Outcome
<1> DEFINE private == KeyEmitsPrivate(k, sent.public)
<1>1. Arriving(k, o, own) /\ Readied(own) /\ own = Own(k, o, sent.public) /\ DecodeImport
  BY Zenon DEF Reimports
<1>2. /\ key \in Key /\ obj \in Object /\ Halved(o) /\ key.kty = k.kty /\ Suits
      /\ key.att \in {"none", "symmetric"} \cup Kinds
  BY <1>1, ArrivingFacts
<1>3. private \in BOOLEAN
  BY DEF KeyEmitsPrivate
<1>4. own = OkpOwn(k, o, private)
  BY <1>1 DEF Own
<1> HIDE DEF private
<1>5. OkpRestored(k, o, private)
  <2>1. Restores(k, own)
    BY Zenon, <1>1 DEF Arriving
  <2> QED BY Zenon, <1>4, <2>1, OkpRestores
<1>6. key.crv = k.crv
  BY Zenon, <1>5 DEF OkpRestored
<1>7. k = sent.key
  BY DEF Reimports, Arriving
<1>8. Exports <=> private
  <2>2. (\E e \in own : Secret("OKP", e.label)) <=> private
    BY Zenon, <1>3, <1>4, OwnSecrets
  <2>3. Exports <=> \E e \in own : Secret(sent.key.kty, e.label)
    BY Zenon, <1>1, ExportsOwn
  <2> QED BY Zenon, <1>7, <2>2, <2>3
<1>9. key.att \in {"none", "ed25519", "ed448"}
  BY <1>2 DEF Suits, Attachable
<1>10. k.kty # "Symmetric" /\ (k.kty \in {"EC2", "OKP"} => key.crv = k.crv)
  BY <1>6
<1>11. CASE key.att # "none"
  <2>1. ImportOkp
    BY <1>1, <1>2, <1>11 DEF DecodeImport
  <2>2. Agrees(o, private) /\ (key.att = OkpMember => Smooth)
    BY Zenon, <1>2, <1>3, <1>5, <2>1, OkpBack
  <2>3. Fits => key.att = OkpMember
    <3> DEFINE q == [k EXCEPT !.att = key.att]
    <3>1. k \in Key
      BY <1>1 DEF Arriving, Sendable
    <3>2. q.att = key.att /\ q.crv = key.crv
      BY <1>6, <3>1 DEF Key
    <3>3. Fits => AttachedTypeCheck(q) = "ok"
      BY Zenon, <1>7 DEF Fits
    <3> HIDE DEF q
    <3> QED BY <1>9, <1>11, <3>2, <3>3 DEF AttachedTypeCheck, Fails, OkpMember
  <2>4. Fits /\ Coherent(sent) => Smooth
    BY Zenon, <2>2, <2>3
  <2> QED BY Zenon, <1>1, <1>3, <1>8, <1>10, <2>2, <2>4, AgreeingImport
<1>12. CASE key.att = "none"
  <2>1. UNCHANGED <<key, obj, ret>>
    BY <1>1, <1>2, <1>12 DEF DecodeImport
  <2> QED BY <1>1, <1>10, <1>12, <2>1, NothingToImport
<1> QED BY <1>11, <1>12

LEMMA RsaOutcome ==
    ASSUME NEW k, NEW o, NEW own, Reimports(k, o, own), k.kty = "RSA" PROVE Outcome
<1> DEFINE private == EmitsRsa(k, o, sent.public)
<1>1. Arriving(k, o, own) /\ Readied(own) /\ own = Own(k, o, sent.public) /\ DecodeImport
  BY Zenon DEF Reimports
<1>2. /\ key \in Key /\ obj \in Object /\ Halved(o) /\ key.kty = k.kty /\ Suits
      /\ key.att \in {"none", "symmetric"} \cup Kinds
  BY <1>1, ArrivingFacts
<1>3. private \in BOOLEAN
  BY DEF EmitsRsa
<1>4. own = RsaOwn(o, private)
  BY <1>1 DEF Own
<1> HIDE DEF private
<1>5. RsaRestored(o, private)
  <2>1. Restores(k, own)
    BY Zenon, <1>1 DEF Arriving
  <2> QED BY Zenon, <1>4, <2>1, RsaRestores
<1>8. Exports <=> private
  <2>1. k = sent.key
    BY DEF Reimports, Arriving
  <2>2. (\E e \in own : Secret("RSA", e.label)) <=> private
    BY Zenon, <1>3, <1>4, OwnSecrets
  <2>3. Exports <=> \E e \in own : Secret(sent.key.kty, e.label)
    BY Zenon, <1>1, ExportsOwn
  <2> QED BY Zenon, <2>1, <2>2, <2>3
<1>9. key.att \in {"none", "rsa"}
  BY <1>2 DEF Suits, Attachable
<1>10. k.kty # "Symmetric" /\ (k.kty \in {"EC2", "OKP"} => key.crv = k.crv)
  OBVIOUS
<1>11. CASE key.att = "rsa"
  <2>1. ImportRsa
    BY <1>1, <1>2, <1>11 DEF DecodeImport
  <2>2. Agrees(o, private) /\ Smooth
    BY Zenon, <1>2, <1>3, <1>5, <2>1, RsaBack
  <2> QED BY Zenon, <1>1, <1>3, <1>8, <1>10, <2>2, AgreeingImport
<1>12. CASE key.att = "none"
  <2>1. UNCHANGED <<key, obj, ret>>
    BY <1>1, <1>2, <1>12 DEF DecodeImport
  <2> QED BY <1>1, <1>10, <1>12, <2>1, NothingToImport
<1> QED BY <1>9, <1>11, <1>12

LEMMA AkpOutcome ==
    ASSUME NEW k, NEW o, NEW own, Reimports(k, o, own), k.kty = "AKP" PROVE Outcome
<1> DEFINE private == EmitsMlDsa(k, sent.public)
<1>1. Arriving(k, o, own) /\ Readied(own) /\ own = Own(k, o, sent.public) /\ DecodeImport
  BY Zenon DEF Reimports
<1>2. /\ key \in Key /\ obj \in Object /\ Halved(o) /\ key.kty = k.kty /\ key.alg = k.alg /\ Suits
      /\ key.att \in {"none", "symmetric"} \cup Kinds
  BY <1>1, ArrivingFacts
<1>3. private \in BOOLEAN /\ (private => k.seed # "NULL")
  BY DEF EmitsMlDsa
<1>4. own = AkpOwn(k, o, private)
  BY <1>1 DEF Own
<1>5. o.n = MlDsaPubLen[o.par] /\ (private => o.priv = o.pub)
  BY <1>1 DEF Arriving, Sendable
<1>6. k = sent.key /\ o = sent.obj
  BY DEF Reimports, Arriving
<1>7. Coherent(sent) => k.alg = o.par /\ (private => k.seed = o.pub)
  BY <1>6 DEF Coherent
<1> HIDE DEF private
<1>8. AkpRestored(k, o, private)
  <2>1. Restores(k, own)
    BY Zenon, <1>1 DEF Arriving
  <2> QED BY Zenon, <1>4, <2>1, AkpRestores
<1>9. Exports <=> private
  <2>2. (\E e \in own : Secret("AKP", e.label)) <=> private
    BY Zenon, <1>3, <1>4, OwnSecrets
  <2>3. Exports <=> \E e \in own : Secret(sent.key.kty, e.label)
    BY Zenon, <1>1, ExportsOwn
  <2> QED BY Zenon, <1>6, <2>2, <2>3
<1>10. key.att \in {"none", "mldsa"}
  BY <1>2 DEF Suits, Attachable
<1>11. k.kty # "Symmetric" /\ (k.kty \in {"EC2", "OKP"} => key.crv = k.crv)
  OBVIOUS
<1>12. CASE key.att = "mldsa"
  <2>1. ImportMlDsa
    BY <1>1, <1>2, <1>12 DEF DecodeImport
  <2>2. /\ Agrees(o, private)
        /\ (o.n = MlDsaPubLen[key.alg] /\ (private => k.seed = o.pub)) => Smooth
    BY Zenon, <1>2, <1>3, <1>5, <1>8, <2>1, AkpBack
  <2>3. Fits /\ Coherent(sent) => Smooth
    BY Zenon, <1>2, <1>5, <1>7, <2>2
  <2> QED BY Zenon, <1>1, <1>3, <1>9, <1>11, <2>2, <2>3, AgreeingImport
<1>13. CASE key.att = "none"
  <2>1. UNCHANGED <<key, obj, ret>>
    BY <1>1, <1>2, <1>13 DEF DecodeImport
  <2> QED BY <1>1, <1>11, <1>13, <2>1, NothingToImport
<1> QED BY <1>10, <1>12, <1>13

LEMMA LmsOutcome ==
    ASSUME NEW k, NEW o, NEW own, Reimports(k, o, own), k.kty = "HSS-LMS" PROVE Outcome
<1>1. Arriving(k, o, own) /\ Readied(own) /\ own = Own(k, o, sent.public) /\ DecodeImport
  BY Zenon DEF Reimports
<1>2. /\ key \in Key /\ obj \in Object /\ key.kty = k.kty /\ Suits
      /\ key.att \in {"none", "symmetric"} \cup Kinds
  BY <1>1, ArrivingFacts
<1>3. own = LmsOwn(o)
  BY <1>1 DEF Own
<1>4. OneRestored(o.pub, o.n)
  <2>1. Restores(k, own)
    BY Zenon, <1>1 DEF Arriving
  <2> QED BY Zenon, <1>3, <2>1, OneRestores DEF LmsOwn
<1>5. Exports <=> FALSE
  <2>1. k = sent.key
    BY DEF Reimports, Arriving
  <2>2. ~ \E e \in own : Secret("HSS-LMS", e.label)
    BY Zenon, <1>3, OwnSecrets
  <2>3. Exports <=> \E e \in own : Secret(sent.key.kty, e.label)
    BY Zenon, <1>1, ExportsOwn
  <2> QED BY Zenon, <2>1, <2>2, <2>3
<1>6. key.att \in {"none", "lms"}
  BY <1>2 DEF Suits, Attachable
<1>7. k.kty # "Symmetric" /\ (k.kty \in {"EC2", "OKP"} => key.crv = k.crv)
  OBVIOUS
<1>8. CASE key.att = "lms"
  <2>1. ImportLms
    BY <1>1, <1>2, <1>8 DEF DecodeImport
  <2>2. Agrees(o, FALSE) /\ Smooth
    BY Zenon, <1>2, <1>4, <2>1, LmsBack
  <2> QED BY Zenon, <1>1, <1>5, <1>7, <2>2, AgreeingImport
<1>9. CASE key.att = "none"
  <2>1. UNCHANGED <<key, obj, ret>>
    BY <1>1, <1>2, <1>9 DEF DecodeImport
  <2> QED BY <1>1, <1>7, <1>9, <2>1, NothingToImport
<1> QED BY <1>6, <1>8, <1>9

LEMMA SymmetricOutcome ==
    ASSUME NEW k, NEW o, NEW own, Reimports(k, o, own), k.kty = "Symmetric" PROVE Outcome
<1>1. Arriving(k, o, own) /\ own = Own(k, o, sent.public) /\ DecodeImport
  BY Zenon DEF Reimports
<1>2. /\ key \in Key /\ key.kty = k.kty /\ key.alg = k.alg /\ Suits
      /\ key.kid = IF k.kid.len = 0 THEN NULL ELSE k.kid
      /\ key.att \in {"none", "symmetric"} \cup Kinds
  BY <1>1, ArrivingFacts
<1>3. own = SymmetricOwn(k)
  BY <1>1 DEF Own
<1>4. OneRestored(k.union.val, k.union.len)
  <2>1. Restores(k, own)
    BY Zenon, <1>1 DEF Arriving
  <2> QED BY Zenon, <1>3, <2>1, OneRestores DEF SymmetricOwn
<1>5. k.union.len # 0 /\ k.union = Str(k.union.val, k.union.len)
  BY <1>1 DEF Arriving, Sendable, Key, Kid, Str
<1>6. key.att \in {"none", "symmetric"}
  BY <1>2 DEF Suits, Attachable
<1>7. ImportSymmetric
  BY <1>1, <1>2 DEF DecodeImport
<1>8. /\ ret' = "ok" /\ SameDescription /\ key'.att = key.att
      /\ key'.hasPrivate /\ key'.union = Str(k.union.val, k.union.len)
  BY Zenon, <1>2, <1>4, <1>5, <1>7, SymmetricBack
<1>9. Found(k, o, Exports, key', obj')
  BY <1>2, <1>5, <1>6, <1>8 DEF Found, SameDescription
<1>10. k = sent.key /\ o = sent.obj
  BY <1>1 DEF Arriving
<1> QED BY <1>8, <1>9, <1>10 DEF Outcome, Smooth

LEMMA ImportOutcome ==
    ASSUME IInv, Sent, Spoilt, Echoes, DecodeImport PROVE Outcome
<1> DEFINE k == sent.key
           o == sent.obj
           own == Own(k, o, sent.public)
<1>1. Reimports(k, o, own)
  BY Zenon, Reimported
<1>2. k.kty \in {"EC2", "RSA", "AKP", "HSS-LMS", "OKP", "Symmetric"}
  BY <1>1 DEF Reimports, Arriving, Sendable
<1> HIDE DEF k, o, own
<1>3. \/ k.kty = "EC2" \/ k.kty = "RSA" \/ k.kty = "AKP" \/ k.kty = "HSS-LMS"
      \/ k.kty = "OKP" \/ k.kty = "Symmetric"
  BY <1>2
<1> QED BY Zenon, <1>1, <1>3, Ec2Outcome, RsaOutcome, AkpOutcome, LmsOutcome, OkpOutcome,
           SymmetricOutcome

-----------------------------------------------------------------------------
(* Whatever is encoded can be read back.                                   *)

\* What any key that is encoded brings.
Named(k, o) == /\ k \in Key /\ k.kty # "big" /\ k.alg # "big" /\ k.crv # "big"
               /\ o.pub # "NULL" /\ o.priv # "NULL"

LEMMA EncodableNamed == ASSUME NEW k, NEW o, Encodable(k, o) PROVE Named(k, o)
BY DEF Named, Encodable, KeyFits, ObjFits

LEMMA Ec2Sendable ==
    ASSUME NEW k, NEW o, NEW public, Encodable(k, o), EncodeCode(k, o, public) = "ok",
           k.kty = "EC2", k.crv \in Ec2Curves
    PROVE  Sendable(k, o, public)
<1> DEFINE private == KeyEmitsPrivate(k, public)
           a == NoObject(k)
           b == IF Ec2Curve(k, o) = "alg" THEN "alg" ELSE NoPublic(o)
           c == Ec2Curve(k, o)
           d == Fails(private /\ ~ Holds(o, "priv"), "crypto")
<1>1. First(<<a, b, c, d>>) = "ok"
  BY DEF EncodeCode, Ec2EncodeCode
<1> HIDE DEF a, b, c, d
<1>2. b = "ok" /\ c = "ok"
  BY <1>1, FourOf
<1>3. o.pub # "none"
  BY <1>2 DEF b, NoPublic, Fails, Holds
<1>4. o.n = CrvSize[k.crv]
  <2> DEFINE x == Fails(k.crv \notin DOMAIN CrvSize, "alg")
             y == Fails(k.crv \in DOMAIN CrvSize /\ o.n # CrvSize[k.crv], "key")
  <2>1. First(<<x, y>>) = "ok"
    BY <1>2 DEF c, Ec2Curve
  <2> HIDE DEF x, y
  <2>2. x = "ok" /\ y = "ok"
    BY <2>1, PairOf
  <2>3. k.crv \in DOMAIN CrvSize
    BY <2>2 DEF x, Fails
  <2> QED BY <2>2, <2>3 DEF y, Fails
<1> QED BY <1>3, <1>4, EncodableNamed DEF Named, Sendable

LEMMA RsaSendable ==
    ASSUME NEW k, NEW o, NEW public, Encodable(k, o), EncodeCode(k, o, public) = "ok",
           k.kty = "RSA"
    PROVE  Sendable(k, o, public)
<1> DEFINE private == EmitsRsa(k, o, public)
           a == NoObject(k)
           b == NoPublic(o)
           c == Fails(private /\ o.n % 2 = 1, "crypto")
<1>1. First(<<a, b, c>>) = "ok"
  BY DEF EncodeCode, RsaEncodeCode
<1> HIDE DEF a, b, c
<1>2. a = "ok" /\ b = "ok"
  BY <1>1, TripleOf
<1>3. k.union.val = "object"
  <2>1. Reads(k) \in Kinds
    BY DEF Reads, Kinds
  <2> QED BY <1>2, <2>1, ReadsObject DEF a, Encodable
<1>4. o.kind = "rsa"
  BY <1>3 DEF Misreads, Reads, Member, Encodable, ObjFits, Object, Kinds
<1>5. o.n \in Nat /\ o.n # 0 /\ o.e # 0 /\ o.pub # "none"
  BY <1>2, <1>4 DEF b, NoPublic, Fails, Holds, Encodable, ObjFits, Object, Whole
<1> QED BY <1>5, EncodableNamed DEF Named, Sendable

LEMMA AkpSendable ==
    ASSUME NEW k, NEW o, NEW public, Encodable(k, o), EncodeCode(k, o, public) = "ok",
           k.kty = "AKP"
    PROVE  Sendable(k, o, public)
<1> DEFINE a == NoObject(k)
           b == Fails(k.alg = "unset", "alg")
           c == NoPublic(o)
<1>1. First(<<a, b, c>>) = "ok"
  BY DEF EncodeCode, AkpEncodeCode
<1> HIDE DEF a, b, c
<1>2. a = "ok" /\ c = "ok"
  BY <1>1, TripleOf
<1>3. k.union.val = "object"
  <2>1. Reads(k) \in Kinds
    BY DEF Reads, Kinds
  <2> QED BY <1>2, <2>1, ReadsObject DEF a, Encodable
<1>4. o.kind = "mldsa"
  BY <1>3 DEF Misreads, Reads, Member, Encodable, ObjFits, Object, Kinds
<1>5. /\ o.pub # "none" /\ o.par \in DOMAIN MlDsaPubLen /\ o.n = MlDsaPubLen[o.par]
      /\ o.priv \in {"none", o.pub}
  BY <1>2, <1>4 DEF c, NoPublic, Fails, Holds, Encodable, ObjFits, Whole
<1>6. EmitsMlDsa(k, public) => o.priv = o.pub
  BY <1>3, <1>5 DEF EmitsMlDsa, KeyEmitsPrivate, Encodable, Material
<1> QED BY <1>5, <1>6, EncodableNamed DEF Named, Sendable

LEMMA LmsSendable ==
    ASSUME NEW k, NEW o, NEW public, Encodable(k, o), EncodeCode(k, o, public) = "ok",
           k.kty = "HSS-LMS"
    PROVE  Sendable(k, o, public)
<1> DEFINE w == Fails(k.att # "lms", "key")
           x == NoObject(k)
           y == Fails(k.alg \notin {"unset", "HSS-LMS"}, "alg")
           z == Fails(~ Holds(o, "pub"), "key")
<1>1. First(<<w, x, y, z>>) = "ok"
  BY DEF EncodeCode, LmsEncodeCode
<1> HIDE DEF w, x, y, z
<1>2. y = "ok" /\ z = "ok"
  BY <1>1, FourOf
<1>3. k.alg \in {"unset", "HSS-LMS"} /\ o.pub # "none"
  BY <1>2 DEF y, z, Fails, Holds
<1> QED BY <1>3, EncodableNamed DEF Named, Sendable

LEMMA OkpSendable ==
    ASSUME NEW k, NEW o, NEW public, Encodable(k, o), EncodeCode(k, o, public) = "ok",
           k.kty = "OKP"
    PROVE  Sendable(k, o, public)
<1>1. First(<<OkpCurve(k), NoPublic(o)>>) = "ok"
  BY DEF EncodeCode
<1>2. OkpCurve(k) = "ok" /\ NoPublic(o) = "ok"
  BY <1>1, PairOf
<1>3. k.crv \in OkpCurves
  <2> DEFINE x == Fails(k.crv \notin OkpCurves, "alg")
  <2>1. First(<<x, NoObject(k)>>) = "ok"
    BY <1>2 DEF OkpCurve
  <2> HIDE DEF x
  <2>2. x = "ok"
    BY <2>1, PairOf
  <2> QED BY <2>2 DEF x, Fails
<1>4. o.pub # "none"
  BY <1>2 DEF NoPublic, Fails, Holds
<1> QED BY <1>3, <1>4, EncodableNamed DEF Named, Sendable

LEMMA SymmetricSendable ==
    ASSUME NEW k, NEW o, NEW public, Encodable(k, o), EncodeCode(k, o, public) = "ok",
           k.kty = "Symmetric"
    PROVE  Sendable(k, o, public)
<1>1. k.union.val # "NULL" /\ k.union.len # 0
  BY DEF EncodeCode, SymmetricEncodeCode, Fails
<1> QED BY <1>1, EncodableNamed DEF Named, Sendable

\* Whatever is encoded can be read back.
LEMMA EncodeSendable ==
    ASSUME NEW k, NEW o, NEW public, Encodable(k, o), EncodeCode(k, o, public) = "ok",
           k.kty = "EC2" => k.crv \in Ec2Curves
    PROVE  Sendable(k, o, public)
<1>1. \/ k.kty = "EC2" \/ k.kty = "RSA" \/ k.kty = "AKP" \/ k.kty = "HSS-LMS"
      \/ k.kty = "OKP" \/ k.kty = "Symmetric"
  BY DEF EncodeCode
<1> QED BY Zenon, <1>1, Ec2Sendable, RsaSendable, AkpSendable, LmsSendable, OkpSendable,
           SymmetricSendable

\* The encoding of a key given as coordinates.
RawKey(crv, private, m) == [Zero EXCEPT !.kty = "EC2", !.crv = crv, !.alg = m.alg, !.kid = m.kid,
                                        !.hasPrivate = private]
RawObject(crv, len, private) == [kind |-> "ecc", par |-> crv, n |-> len, e |-> 0,
                                 device |-> FALSE, pub |-> "A",
                                 priv |-> IF private THEN "A" ELSE "none"]

LEMMA RawSendable ==
    ASSUME NEW crv \in Ec2Curves, NEW private \in BOOLEAN, NEW m \in Metas
    PROVE  LET k == RawKey(crv, private, m)
               o == RawObject(crv, CrvSize[crv], private)
           IN  /\ Sendable(k, o, ~ private)
               /\ Map(k, o, ~ private) = Ec2Map(k, "A", "A", CrvSize[crv], private)
<1> DEFINE k == RawKey(crv, private, m)
           len == CrvSize[crv]
           o == RawObject(crv, len, private)
<1>1. m.kid \in Kid /\ m.alg \in STRING /\ m.alg # "big"
  BY MetasAssumption, AlgsAssumption
<1>2. crv \in STRING /\ crv # "big" /\ "EC2" \in STRING /\ Zero \in Key
  BY NamesAssumption, Blank DEF CrvSize, Ec2Curves
<1>3. /\ k \in Key /\ k.alg = m.alg /\ k.kty = "EC2" /\ k.crv = crv /\ k.hasPrivate = private
      /\ ~ k.signCb
  BY <1>1, <1>2 DEF Key, Zero, RawKey
<1> HIDE DEF k, len
<1>4. o.n = len /\ o.pub = "A" /\ o.priv # "NULL" /\ (private => o.priv = "A")
  BY DEF RawObject
<1> HIDE DEF o
<1>5. Sendable(k, o, ~ private)
  BY <1>1, <1>2, <1>3, <1>4 DEF Sendable, len
<1>6. KeyEmitsPrivate(k, ~ private) = private
  BY <1>3 DEF KeyEmitsPrivate
<1>7. Map(k, o, ~ private) = Ec2Map(k, "A", o.priv, len, private)
  BY <1>3, <1>4, <1>6 DEF Map
<1>8. Ec2Map(k, "A", o.priv, len, private) = Ec2Map(k, "A", "A", len, private)
  BY Zenon, <1>4 DEF Ec2Map
<1>9. Sendable(k, o, ~ private) /\ Map(k, o, ~ private) = Ec2Map(k, "A", "A", len, private)
  BY Zenon, <1>5, <1>7, <1>8
<1> QED BY Zenon, <1>9 DEF k, o, len

\* What RoundTrip promises of what has been read back.
Promise ==
    (pc = "idle" /\ op = "decode" /\ ~ key.signCb /\ Echoes /\ ~ in.tail) =>
        /\ Fits /\ Coherent(sent) => ret \in {"ok", "crypto"}
        /\ ret = "ok" => Found(sent.key, sent.obj, Exports, key, obj)

\* What is inductive, next to IInv.
Further == Sent /\ Sound /\ Spoilt /\ Promise

LEMMA FurtherInit == Init => Further
BY DEF Init, Further, Sent, Sound, Spoilt, Promise, Zero

\* Between calls there is nothing spoilt and no promise.
LEMMA QuietStep == ASSUME pc' = "idle", op' # "decode" PROVE Spoilt' /\ Promise'
BY DEF Spoilt, Promise

LEMMA SameSent == ASSUME Sent, UNCHANGED <<out, sent>> PROVE Sent'
BY DEF Sent

LEMMA ForgottenSent == ASSUME Forget PROVE Sent'
BY DEF Forget, Sent

LEMMA KeptSent == ASSUME Sent, NEW ops, Keep(ops) PROVE Sent'
BY Zenon, SameSent, ForgottenSent DEF Keep

\* A curve that goes with the type.
Curved(k) == k.kty = "EC2" => k.crv \in Ec2Curves

LEMMA SetterFurther ==
    ASSUME Further, NEW code, NEW then, NEW private, Setter(code, then, private),
           code = "ok" => Curved(then)
    PROVE  Further'
<1>1. pc = "idle" /\ pc' = "idle" /\ op' = "set" /\ Keep({"init"})
  BY DEF Setter, Return
<1>2. Sent'
  BY Zenon, <1>1, KeptSent DEF Further
<1>3. Sound'
  BY <1>1 DEF Setter, Further, Sound, Curved
<1> QED BY <1>1, <1>2, <1>3, QuietStep DEF Further

LEMMA PointAtCurved ==
    ASSUME key \in Key, NEW kty, NEW crv, NEW alg, NEW att, NEW private,
           kty = "EC2" => crv \in Ec2Curves
    PROVE  LET p == PointAt(kty, crv, alg, att, private)
           IN  /\ Curved(p)
               /\ \A seed : Curved([p EXCEPT !.seed = seed])
               /\ \A union : Curved([p EXCEPT !.union = union])
BY DEF PointAt, Key, Curved

LEMMA SetEccFurther ==
    ASSUME IInv, Further, NEW crv, SetEcc(crv) PROVE Further'
<1> DEFINE a == Fails(crv \notin Ec2Curves, "arg")
           b == EccKeyCheckCurve(crv)
           code == First(<<a, b>>)
           then == PointAt("EC2", crv, "unset", "ecc", EccPrivate)
           private == IF EccPrivate THEN obj.priv ELSE "none"
<1>1. Setter(code, then, private)
  BY Zenon DEF SetEcc
<1>2. a = "ok" => crv \in Ec2Curves
  BY DEF Fails
<1>3. key \in Key
  BY DEF IInv, Keyed, KeyFits
<1> HIDE DEF a, b
<1>4. code = "ok" => a = "ok"
  BY PairOf
<1>5. crv \in Ec2Curves => Curved(then)
  BY <1>3, PointAtCurved
<1> HIDE DEF code, then, private
<1> QED BY Zenon, <1>1, <1>2, <1>4, <1>5, SetterFurther

LEMMA SetSymmetricFurther ==
    ASSUME IInv, Further, NEW data, SetSymmetric(data) PROVE Further'
<1> DEFINE then == [PointAt("Symmetric", key.crv, "unset", "symmetric", TRUE) EXCEPT !.union = data]
<1>1. key \in Key
  BY DEF IInv, Keyed, KeyFits
<1>2. Curved(then)
  BY <1>1, PointAtCurved
<1> QED BY Zenon, <1>2, SetterFurther DEF SetSymmetric

LEMMA SetMlDsaFurther ==
    ASSUME IInv, Further, NEW alg, NEW seed, NEW len, SetMlDsa(alg, seed, len) PROVE Further'
<1> DEFINE then == [PointAt("AKP", "0", alg, "mldsa", Holds(obj, "priv")) EXCEPT !.seed = seed]
<1>1. key \in Key
  BY DEF IInv, Keyed, KeyFits
<1>2. Curved(then)
  BY <1>1, PointAtCurved
<1> QED BY Zenon, <1>2, SetterFurther DEF SetMlDsa

LEMMA SetOtherFurther == ASSUME IInv, Further, SetEd \/ SetLms \/ SetRsa PROVE Further'
<1> DEFINE crv == IF obj.kind = "ed25519" THEN "Ed25519" ELSE "Ed448"
           private == Holds(obj, "priv")
           ed  == PointAt("OKP", crv, "unset", obj.kind, private)
           lms == PointAt("HSS-LMS", "0", "HSS-LMS", "lms", private)
           rsa == PointAt("RSA", key.crv, "unset", "rsa", private)
<1>1. key \in Key
  BY DEF IInv, Keyed, KeyFits
<1> HIDE DEF crv, private
<1>2. Curved(ed) /\ Curved(lms) /\ Curved(rsa)
  BY <1>1, PointAtCurved
<1>3. \/ Setter("ok", ed, obj.priv) \/ Setter("ok", lms, obj.priv) \/ Setter("ok", rsa, obj.priv)
  BY Zenon DEF SetEd, SetLms, SetRsa, crv, private
<1> HIDE DEF ed, lms, rsa
<1> QED BY Zenon, <1>2, <1>3, SetterFurther

LEMMA FreshFurther == ASSUME Further, NEW o, Fresh(o) PROVE Further'
<1>1. pc' = "idle" /\ op' = "init" /\ key' = Zero /\ (UNCHANGED <<out, sent>> \/ Forget)
  BY DEF Fresh, Return
<1>2. Sent'
  BY Zenon, <1>1, SameSent, ForgottenSent DEF Further
<1>3. Sound'
  BY <1>1 DEF Sound, Zero
<1> QED BY <1>1, <1>2, <1>3, QuietStep DEF Further

LEMMA SetExtSignerFurther == ASSUME IInv, Further, NEW cb, SetExtSigner(cb) PROVE Further'
<1>1. /\ pc = "idle" /\ pc' = "idle" /\ op' = "set" /\ Keep({"init"}) /\ entrusted' = entrusted
      /\ key' = [key EXCEPT !.signCb = cb]
  BY DEF SetExtSigner, Return
<1>2. Sent'
  BY Zenon, <1>1, KeptSent DEF Further
<1>3. key'.kty = key.kty /\ key'.crv = key.crv
  BY <1>1 DEF IInv, Keyed, KeyFits, Key
<1>4. Sound'
  BY <1>1, <1>3 DEF Further, Sound
<1> QED BY <1>1, <1>2, <1>4, QuietStep DEF Further

LEMMA SetMetaFurther == ASSUME IInv, Further, NEW kid, NEW alg, SetMeta(kid, alg) PROVE Further'
<1>1. /\ pc = "idle" /\ pc' = "idle" /\ op' = "set" /\ Forget /\ entrusted' = entrusted
      /\ key' = [key EXCEPT !.kid = kid, !.alg = alg]
  BY DEF SetMeta, Return, ghosts
<1>2. Sent'
  BY Zenon, <1>1, ForgottenSent
<1>3. key'.kty = key.kty /\ key'.crv = key.crv
  BY <1>1 DEF IInv, Keyed, KeyFits, Key
<1>4. Sound'
  BY <1>1, <1>3 DEF Further, Sound
<1> QED BY <1>1, <1>2, <1>4, QuietStep DEF Further

LEMMA SetFurther == ASSUME IInv, Further, Set PROVE Further'
BY Zenon, FreshFurther, SetEccFurther, SetOtherFurther, SetMlDsaFurther, SetSymmetricFurther,
   SetExtSignerFurther, SetMetaFurther DEF Set


LEMMA EmitFurther ==
    ASSUME Further, NEW call, NEW code, NEW map, NEW k, NEW o, NEW public,
           Emit(call, code, map, k, o, public), pc = "idle", call # "decode",
           code = "ok" /\ map # <<>> => map = Map(k, o, public) /\ Sendable(k, o, public)
    PROVE  Further'
<1>1. pc' = "idle" /\ op' = call /\ key' = key /\ entrusted' = entrusted
  BY DEF Emit, Return, ghosts
<1>2. Sent'
  <2>1. CASE code = "ok"
    <3>1. out' = map /\ sent'.key = k /\ sent'.obj = o /\ sent'.public = public
      BY <2>1 DEF Emit
    <3> QED BY <2>1, <3>1 DEF Sent
  <2>2. CASE code # "ok"
    BY <2>2 DEF Emit, Sent
  <2> QED BY <2>1, <2>2
<1>3. Sound'
  BY <1>1 DEF Further, Sound
<1> QED BY <1>1, <1>2, <1>3, QuietStep DEF Further

LEMMA EncodeFurther ==
    ASSUME IInv, Further, NEW public \in BOOLEAN, NEW room, Encode(public, room) PROVE Further'
<1>1. pc = "idle" /\ entrusted # "failed" /\ "encode" # "decode"
  BY DEF Encode
<1>2. CASE Misreads(key, obj)
  <2>1. PICK code \in {"ok", "crypto", "key", "small"} :
            Emit("encode", code, <<>>, key, obj, public)
    BY <1>2 DEF Encode
  <2> QED BY Zenon, <1>1, <2>1, EmitFurther
<1>3. CASE ~ Misreads(key, obj)
  <2> DEFINE code == EncodeExCode(key, obj, public, room)
             map  == Map(key, obj, public)
  <2>1. Emit("encode", code, map, key, obj, public)
    BY <1>3 DEF Encode
  <2>2. code = "ok" => EncodeCode(key, obj, public) = "ok"
    BY DEF EncodeExCode
  <2>3. Encodable(key, obj)
    BY <1>1, <1>3 DEF IInv, Keyed, Trust, Encodable, Trusted
  <2>4. key.kty = "EC2" => key.crv \in Ec2Curves
    BY <1>1 DEF Further, Sound
  <2> HIDE DEF code
  <2>5. code = "ok" => Sendable(key, obj, public)
    BY Zenon, <2>2, <2>3, <2>4, EncodeSendable
  <2> QED BY Zenon, <1>1, <2>1, <2>5, EmitFurther
<1> QED BY <1>2, <1>3

LEMMA EncodeEccRawFurther ==
    ASSUME Further, NEW crv \in {"P256", "Ed25519"}, NEW len \in {32, 66},
           NEW private \in BOOLEAN, NEW m \in Metas, NEW room,
           EncodeEccRaw(crv, len, "A", private, m.kid, m.alg, room)
    PROVE  Further'
<1> DEFINE k == RawKey(crv, private, m)
           map == Ec2Map(k, "A", "A", len, private)
           o == RawObject(crv, len, private)
           a == Fails(crv \notin Ec2Curves, "arg")
           b == Fails(crv \in Ec2Curves /\ len # CrvSize[crv], "arg")
           c == Fails(m.kid.val = "NULL" /\ m.kid.len # 0, "arg")
           d == RoomCode(k, map, room)
           code == First(<<a, b, c, d>>)
<1>1. pc = "idle" /\ Emit("raw", code, map, k, o, ~ private)
  BY Zenon DEF EncodeEccRaw, RawKey, RawObject
<1>2. "raw" # "decode"
  OBVIOUS
<1>3. (a = "ok" => crv \in Ec2Curves) /\ (a = "ok" /\ b = "ok" => len = CrvSize[crv])
  BY DEF Fails
<1> HIDE DEF a, b, c, d
<1>4. code = "ok" => a = "ok" /\ b = "ok"
  BY FourOf
<1> HIDE DEF code
<1>5. ASSUME code = "ok" PROVE map = Map(k, o, ~ private) /\ Sendable(k, o, ~ private)
  <2>1. crv \in Ec2Curves /\ len = CrvSize[crv]
    BY Zenon, <1>3, <1>4, <1>5
  <2> QED BY Zenon, <2>1, RawSendable
<1> HIDE DEF k, o, map
<1> QED BY Zenon, <1>1, <1>2, <1>5, EmitFurther

LEMMA EncodeOneFurther == ASSUME IInv, Further, EncodeOne PROVE Further'
<1>1. CASE \E public \in BOOLEAN, room \in Rooms : Encode(public, room)
  BY Zenon, <1>1, EncodeFurther
<1>2. CASE \E crv \in {"P256", "Ed25519"}, len \in {32, 66}, private \in BOOLEAN,
              m \in Metas, room \in Rooms :
                  EncodeEccRaw(crv, len, "A", private, m.kid, m.alg, room)
  <2>1. PICK crv \in {"P256", "Ed25519"}, len \in {32, 66}, private \in BOOLEAN,
             m \in Metas, room \in Rooms :
                 EncodeEccRaw(crv, len, "A", private, m.kid, m.alg, room)
    BY <1>2
  <2> QED BY <2>1, EncodeEccRawFurther
<1> QED BY Zenon, <1>1, <1>2 DEF EncodeOne

-----------------------------------------------------------------------------
(* Decoding, once more.                                                    *)

LEMMA DecodeBeginFurther ==
    ASSUME Further, NEW m, DecodeBegin(m) PROVE Further'
<1>1. /\ pc = "idle" /\ badType' = FALSE /\ op' = "decode"
      /\ IF m.entries = out THEN Keep({"init", "set"}) ELSE Forget
  BY DEF DecodeBegin
<1>2. Sent'
  BY Zenon, <1>1, KeptSent, ForgottenSent DEF Further
<1>3. Spoilt'
  BY <1>1 DEF Spoilt
<1>4. CASE DecodeRefuses
  <2>1. pc' = "idle" /\ UNCHANGED <<key, entrusted>> /\ key.signCb
    BY <1>4 DEF DecodeBegin, DecodeRefuses
  <2>2. Sound'
    BY <1>1, <2>1 DEF Further, Sound
  <2>3. Promise'
    BY <2>1 DEF Promise
  <2> QED BY <1>2, <1>3, <2>2, <2>3 DEF Further
<1>5. CASE ~ DecodeRefuses
  <2>1. in' = m /\ entrusted' = "failed" /\ (pc' = "idle" => Len(m.entries) > MaxItems)
    BY <1>5 DEF DecodeBegin
  <2>2. Sound'
    BY <2>1 DEF Sound
  <2>3. ~ (pc' = "idle" /\ Echoes')
    <3> SUFFICES ASSUME pc' = "idle", Echoes' PROVE FALSE
      OBVIOUS
    <3>1. out' # <<>> /\ m.entries = out'
      BY <2>1 DEF Echoes
    <3>2. out' = out /\ sent' = sent
      BY <1>1, <3>1 DEF Keep, Forget
    <3>3. Readied(Own(sent.key, sent.obj, sent.public))
      BY Zenon, <3>1, <3>2, SentReadable DEF Further
    <3>4. Len(out) \in Nat /\ Len(out) <= 11
      BY <3>3 DEF Readied, Readable, Lists
    <3> QED BY <2>1, <3>1, <3>2, <3>4, LimitAssumption
  <2>4. Promise'
    BY <2>3 DEF Promise
  <2> QED BY <1>2, <1>3, <2>2, <2>4 DEF Further
<1> QED BY <1>4, <1>5

\* A call that fails before the import has no curve to keep.
LEMMA RefusedSound == ASSUME IInv, pc # "idle", UNCHANGED entrusted PROVE Sound'
BY DEF IInv, Decoding, Sound

LEMMA DecodeEntryFurther == ASSUME IInv, Further, DecodeEntry PROVE Further'
<1> DEFINE e == in.entries[n + 1]
           code == First(<<LabelCode(e, SubSeq(in.entries, 1, n)), EntryCode(e)>>)
<1>1. /\ pc = "entry" /\ n < Len(in.entries)
      /\ UNCHANGED <<in, op, out, sent, entrusted>>
      /\ IF code # "ok" THEN Refuse(code)
         ELSE Take(e) /\ n' = n + 1 /\ UNCHANGED <<obj, pc, ret>>
  BY DEF DecodeEntry, ghosts
<1>2. n \in Nat
  BY DEF IInv, Reading
<1>3. Sent'
  BY <1>1, SameSent DEF Further
<1>4. Sound'
  BY <1>1, RefusedSound
<1>5. Echoes => code = "ok"
  <2> SUFFICES ASSUME Echoes PROVE code = "ok"
    OBVIOUS
  <2>1. Readied(Own(sent.key, sent.obj, sent.public))
    BY Zenon, SentReadable DEF Further, Echoes
  <2> QED BY Zenon, <1>1, <1>2, <2>1, EchoAccepted DEF Further
<1> HIDE DEF code, e
<1>6. CASE code # "ok"
  <2>1. pc' = "idle"
    BY <1>1, <1>6 DEF Refuse
  <2>2. ~ Echoes'
    BY <1>1, <1>5, <1>6 DEF Echoes
  <2>3. Promise' /\ Spoilt'
    BY <2>1, <2>2 DEF Promise, Spoilt
  <2> QED BY <1>3, <1>4, <2>3 DEF Further
<1>7. CASE code = "ok"
  <2>1. pc' = "entry" /\ n' = n + 1 /\ in' = in /\ badType' = (badType \/ Spoils(e))
    BY <1>1, <1>7 DEF Take, Spoils
  <2>2. badType => \E i \in 1 .. n : Spoils(in.entries[i])
    BY <1>1 DEF Further, Spoilt
  <2>3. n + 1 \in 1 .. n' /\ \A i \in 1 .. n : i \in 1 .. n'
    BY <1>2, <2>1
  <2>4. badType' => \E i \in 1 .. n' : Spoils(in.entries[i])
    BY Zenon, <2>1, <2>2, <2>3 DEF e
  <2>5. Spoilt'
    BY <2>1, <2>4 DEF Spoilt, Spoils
  <2>6. Promise'
    BY <2>1 DEF Promise
  <2> QED BY <1>3, <1>4, <2>5, <2>6 DEF Further
<1> QED BY <1>6, <1>7

LEMMA DecodeCheckFurther == ASSUME IInv, Further, DecodeCheck PROVE Further'
<1>1. /\ pc = "entry" /\ n = Len(in.entries)
      /\ UNCHANGED <<in, before, op, out, sent, entrusted, key, n, badType>>
      /\ IF CheckCode # "ok" THEN pc' = "idle" /\ ret' = CheckCode ELSE pc' = "import"
  BY DEF DecodeCheck, Refuse, ghosts
<1>2. Sent'
  BY <1>1, SameSent DEF Further
<1>3. Sound'
  BY <1>1, RefusedSound
<1>4. Spoilt'
  BY <1>1 DEF Further, Spoilt, Spoils
<1>5. Echoes /\ ~ in.tail /\ Fits /\ Coherent(sent) => CheckCode = "ok"
  <2> SUFFICES ASSUME Echoes, ~ in.tail, Fits, Coherent(sent) PROVE CheckCode = "ok"
    OBVIOUS
  <2> DEFINE k == sent.key
             o == sent.obj
             own == Own(k, o, sent.public)
  <2>1. Readied(own)
    BY Zenon, SentReadable DEF Further, Echoes
  <2> HIDE DEF own
  <2>2. pc # "idle"
    BY <1>1
  <2>3. Restores(k, own)
    BY Zenon, <1>1, <2>1, <2>2, EchoRestored DEF Further
  <2>4. Sendable(k, o, sent.public)
    BY Zenon DEF Further, Echoes, Sent
  <2>5. k.kty = "AKP" => k.alg = o.par
    BY DEF Coherent
  <2>6. AttachedTypeCheck([k EXCEPT !.att = key.att]) = "ok"
    BY Zenon DEF Fits
  <2>7. key \in Key
    BY DEF IInv, Keyed, KeyFits
  <2> QED BY Zenon, <2>3, <2>4, <2>5, <2>6, <2>7, SentPasses DEF own
<1>6. Promise'
  <2> SUFFICES ASSUME pc' = "idle", Echoes', ~ in'.tail
               PROVE  ret' # "ok" /\ ~ (Fits' /\ Coherent(sent'))
    BY DEF Promise
  <2>1. CheckCode # "ok" /\ ret' = CheckCode
    BY <1>1
  <2>2. Echoes /\ ~ in.tail
    BY <1>1 DEF Echoes
  <2>3. Fits' => Fits
    BY <1>1 DEF Fits
  <2>4. Coherent(sent') => Coherent(sent)
    BY <1>1
  <2> QED BY Zenon, <1>5, <2>1, <2>2, <2>3, <2>4
<1> QED BY <1>2, <1>3, <1>4, <1>6 DEF Further

\* What is attached, and the type, stay as they are in an import.
SameKind == key'.att = key.att /\ key'.kty = key.kty /\ key'.crv = key.crv

LEMMA NotImportedKind == ASSUME NEW o, NEW code, NotImported(o, code) PROVE SameKind
BY DEF NotImported, SameKind

LEMMA ImportedKind == ASSUME key \in Key, NEW o, NEW private, Imported(o, private) PROVE SameKind
BY DEF Imported, SameKind, Key

LEMMA ChangedKind ==
    ASSUME key \in Key
    PROVE  /\ \A p, s : key' = [key EXCEPT !.hasPrivate = p, !.seed = s] => SameKind
           /\ \A u, p : key' = [key EXCEPT !.union = u, !.hasPrivate = p] => SameKind
           /\ key' = key => SameKind
BY DEF SameKind, Key

LEMMA ImportKind == ASSUME key \in Key, DecodeImport PROVE SameKind
<1>1. ImportEcc => SameKind
  BY Zenon, NotImportedKind, ImportedKind DEF ImportEcc
<1>2. ImportRsa => SameKind
  BY Zenon, NotImportedKind, ImportedKind DEF ImportRsa
<1>3. ImportMlDsa => SameKind
  BY Zenon, NotImportedKind, ImportedKind, ChangedKind DEF ImportMlDsa
<1>4. ImportLms => SameKind
  BY Zenon, NotImportedKind, ImportedKind DEF ImportLms
<1>5. ImportOkp => SameKind
  BY Zenon, NotImportedKind, ImportedKind DEF ImportOkp
<1>6. ImportSymmetric => SameKind
  BY Zenon, NotImportedKind, ChangedKind DEF ImportSymmetric
<1>7. \/ ImportEcc \/ ImportRsa \/ ImportMlDsa \/ ImportLms \/ ImportOkp \/ ImportSymmetric
      \/ key' = key
  BY DEF DecodeImport
<1> QED BY Zenon, <1>1, <1>2, <1>3, <1>4, <1>5, <1>6, <1>7, ChangedKind

LEMMA DecodeImportFurther == ASSUME IInv, Further, DecodeImport PROVE Further'
<1>1. Importing
  BY DEF DecodeImport, Importing
<1>2. pc' = "idle" /\ UNCHANGED <<in, before, op, out, sent>>
  BY <1>1 DEF Importing
<1>3. key \in Key /\ Suits
  BY <1>1, AtImport
<1>4. SameKind
  BY <1>3, ImportKind
<1>5. Sent' /\ Spoilt'
  BY <1>2, SameSent DEF Further, Spoilt
<1>6. Sound'
  BY <1>3, <1>4 DEF SameKind, Suits, Sound
<1>7. Promise'
  <2> SUFFICES ASSUME Echoes' PROVE Promise'
    BY DEF Promise
  <2>1. Echoes
    BY <1>2 DEF Echoes
  <2>2. Outcome
    BY Zenon, <2>1, ImportOutcome DEF Further
  <2>3. Fits' => Fits
    BY <1>2, <1>4 DEF Fits, SameKind
  <2>4. Coherent(sent)' => Coherent(sent)
    BY <1>2 DEF Coherent
  <2>5. Exports' = Exports
    BY <1>2 DEF Exports
  <2>6. Found(sent.key, sent.obj, Exports, key', obj')
            => Found(sent.key, sent.obj, Exports, key, obj)'
    BY <1>2, <2>5 DEF Found
  <2> QED BY Zenon, <2>2, <2>3, <2>4, <2>6 DEF Promise, Outcome, Smooth
<1> QED BY <1>5, <1>6, <1>7 DEF Further

LEMMA DecodeFurther == ASSUME IInv, Further, Decode PROVE Further'
BY Zenon, DecodeBeginFurther, DecodeEntryFurther, DecodeCheckFurther, DecodeImportFurther DEF Decode

LEMMA NextFurther == IInv /\ Further /\ [Next]_vars => Further'
<1> SUFFICES ASSUME IInv, Further, [Next]_vars PROVE Further'
  OBVIOUS
<1>1. CASE Next
  BY Zenon, <1>1, SetFurther, EncodeOneFurther, DecodeFurther DEF Next
<1>2. CASE UNCHANGED vars
  <2>1. UNCHANGED <<key, obj, pc, in, n, badType, before, op, ret, out, sent, entrusted>>
    BY <1>2 DEF vars, decoder, ghosts
  <2>2. Sent' /\ Sound'
    BY <2>1, SameSent DEF Further, Sound
  <2>3. Spoilt'
    BY <2>1 DEF Further, Spoilt, Spoils
  <2>4. Promise'
    BY <2>1 DEF Further, Promise, Echoes, Fits, Coherent, Exports, Found
  <2> QED BY <2>2, <2>3, <2>4 DEF Further
<1> QED BY <1>1, <1>2

LEMMA FurtherInv == Further => RoundTrip
BY Zenon, RoundTripIs DEF Further, Promise

-----------------------------------------------------------------------------
(* What holds of every key.                                                *)

\* Types: every field holds what fits it, and only numbers of 32 bits are kept
\* (wc_CoseKey_Decode).
THEOREM TypesHold == Spec => []TypeOK
BY AlwaysInv, TypeInv, PTL

\* The order of a COSE_Key's entries makes no difference (the loop of
\* wc_CoseKey_Decode, which defers label -1 and the types of -5 to -8).
THEOREM AnyOrder == Spec => []OrderFree
BY AlwaysInv, OrderInv, PTL

\* A COSE_Key that decodes is described by wc_CoseKey_PeekInfo as it decodes.
THEOREM PeekTells == Spec => []PeekAgrees
BY AlwaysInv, PeekInv, PTL

\* Messages are signed with what was attached or decoded last, and detaching a
\* delegated signer gives back the key (the setters, wc_CoseKey_SetExtSigner).
THEOREM LastKeySigns == Spec => []SignsWithTheLastKey
<1>1. IInv => SignsWithTheLastKey
  BY DEF IInv, Trust, Trusted, Delegated, SignsWithTheLastKey
<1> QED BY AlwaysInv, <1>1, PTL

\* A COSE_Key that fails to decode leaves no private half (wc_CoseKey_Decode,
\* wolfCose_EccPrivateImportRollback, wolfCose_MlDsaImportRollback).
THEOREM FailureKeepsNothing == Spec => []FailedDecodeKeepsNothing
<1>1. IInv => FailedDecodeKeepsNothing
  BY DEF IInv
<1> QED BY AlwaysInv, <1>1, PTL

\* The private half stays in a key that is delegated, or asked for its public
\* half, by an application that gives up keys that failed to decode
\* (wolfCose_KeyEmitsPrivate).
THEOREM PrivateHalfStays == Spec => []SecretsStay
BY AlwaysInv, SecretsInv, PTL

\* wc_CoseKey_EncodeSize_ex is exact for every key, curve, length and kid: in a
\* buffer of that size the key is encoded, and in one a byte smaller it is not.
THEOREM SizeIsExact == Spec => []SizeExact
BY AlwaysInv, SizeInv, PTL

\* A COSE_Key that wolfCOSE encoded is read back for what was sent, and into an
\* object that fits it nothing but the import may fail (wc_CoseKey_Encode_ex,
\* wc_CoseKey_EncodeEccRaw and wc_CoseKey_Decode).
THEOREM ReadBack == Spec => []RoundTrip
BY InitStep, NextStep, FurtherInit, NextFurther, FurtherInv, PTL DEF Spec

=============================================================================
