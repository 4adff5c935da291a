# A TLA+ model of wolfCOSE

wolfCOSE is a C library for COSE messages (RFC 9052, RFC 9338): CBOR heads in
and out, header buckets, signing and verifying, MACs, encryption, recipients,
countersignatures and PSA attestation tokens.  It allocates nothing, starts no
threads and keeps no global state.  All of its state is in buffers and key
objects that the caller owns, and all of its errors are return codes.

What can go wrong in such code is less a matter of threads than of *order*: what
is checked before what is spent, what is moved before what is overwritten, what
is read before what is merged, and what is left behind when a step in the middle
fails.  That is what these modules are about.

## Inventory

| part (under `src/`) | state | operations | hard behaviour | what makes it correct |
|---|---|---|---|---|
| CBOR head decoder, UTF-8 scanner (`wolfcose_cbor.c`) | cursor in a buffer | DecodeHead_ex | preferred serialization, 64-bit counts, refusals that leave the cursor inside an item | decodes what the bytes say, never beyond the buffer |
| CBOR skip | cursor, stack of counts, depth | Skip_ex, SkipItem | nesting limit, uninitialised stack array, huge counts | exactly one item; bounded work |
| CBOR encoder, typed decoders | write or read cursor | `wc_CBOR_Encode*`, `wc_CBOR_Decode*` | moved cursor on failure, -1 - n at INT64_MIN | what is written comes back, and has one encoding |
| label table, header buckets (`wolfcose_hdr.c`) | seen labels, header struct | DecodeProtectedHdr_ex, DecodeUnprotectedHdr* | duplicates across buckets, crit before what it names, table at its limit | accepts the header rules, reports what was there |
| signing (`wolfcose_sign1.c`, `wolfcose_sign.c`, `wolfcose_struct.c`) | output cursor, scratch, one-time key | Sign1_Sign_ex, Sign_Sign, SignSize_ex | one-time leaves, failing persistence, power loss, delegated signers | no leaf used twice, none wasted |
| verifying, MAC, decryption for one receiver (`wolfcose_sign1.c`, `_sign`, `_mac0`, `_encrypt0`) | header, output pointers | *_Verify, *_Decrypt | which bucket named the algorithm, stale outputs on failure | only an authenticated or pinned algorithm; nothing handed out on failure |
| COSE_Encrypt, COSE_Mac and their recipients (`wolfcose_encrypt.c`, `wolfcose_mac.c`, `wolfcose_recipient.c`) | content key, recipient mode, walk over the recipients | Encrypt, Decrypt, Create, Verify; wrap, ECDH-ES, HPKE | all checked before the first wrap, nested recipients on an explicit stack, one mode seen entry by entry | every recipient gets the one key; a key is used when the whole message is known, and for what it is pinned to |
| countersignatures (`wolfcose_countersign.c`) | the message's bytes, attach plan | AddCounterSignature(0), VerifyCounterSignature(0) | overlapping moves in place, growing heads, V2 beside legacy | one more value, all others as before |
| COSE_Key (`wolfcose_key.c`, `wolfcose_util.c`) | key object, attached wolfCrypt key, delegated signer | Set*, SetExtSigner, Encode, EncodeSize, Decode, PeekInfo | label order, rollback of a failed import, who signs | size = encode; failed decode leaves no half key |
| PSA token (`wolfcose_eat_psa.c`) | claim mask, token struct | EncodeClaims, Verify, VerifyByUeid, Create* | unknown duplicates, profile versions, key lookup before verification | mandatory claims once, nothing before verification |
| algorithm tables (`wolfcose_alg.c`, `wolfcose_ecc.c`) | none | lookups, DER to raw | none | the registered values |
| tool, examples, tests (`tools/`, `examples/`, `tests/`) | files | | | not part of the library |

The parts call each other downwards only: message operations use the header
decoders and encoders, the key object and the structure builders; all of them
use CBOR.  The callbacks go up: the wolfCrypt write callback that stores a
one-time key's index, and the delegated signer (`WOLFCOSE_SIGN_CB`).

## Modules

| module | models | how |
|---|---|---|
| `CborHead` | `wolfCose_CBOR_DecodeHead_ex`, `wolfCose_CBOR_IsUtf8` | operators on sequences of bytes; a 64-bit argument is four 16-bit limbs |
| `CborSkip` | `wolfCose_CBOR_Skip_ex` | one action per branch of the loop; `stack`, `depth`, `remaining`, `idx` are the C variables |
| `Checks` | the chains `if (ret == WOLFCOSE_SUCCESS && ...)` | `First` of a list of codes |
| `LmsSigning` | `wc_CoseSign1_Sign_ex`, `wc_CoseSign_Sign`, the HSS-LMS key, `SetLms`, `SetExtSigner` | a call is its checks (`Begin`), one sign and one encode step per signer, and its cleanup (`Return`); `Crash` may come between any two |
| `CounterMessage` | what attaching promises | abstract: an append to a list in a readable message |
| `CounterAttach` | `wolfcose_countersign.c` | messages as cells, moves and writes as in the code |
| `HeaderDecode` | `wolfCose_DecodeProtectedHdr_ex`, `wolfCose_DecodeUnprotectedHdrInternal`, the receivers' algorithm check | one action per entry of a bucket, by label, and one per end of a bucket |
| `Recipients` | `wc_CoseEncrypt_Encrypt`, `_Decrypt`, `wc_CoseMac_Create`, `_Verify`, `wolfcose_recipient.c`, the skipped recipients of `wolfcose_hdr.c` | one action per phase of a sender, per recipient written, per entry skipped or read, and for the use of the key |
| `CborCodec` | every `wc_CBOR_Encode*` and `wc_CBOR_Decode*` call | one action per function, on bytes and 64-bit integers |
| `CborSize` | `wolfCose_CborHeadSize`, `wolfCose_CborIntSize`, string sizes of `wolfcose_key.c` | operators on numbers |
| `CoseKey` | `wolfcose_key.c`, the import helpers of `wolfcose_util.c` | one action per setter and encoder; a decode takes one entry a step |
| `Delivery` | what messages under a key promise | abstract: what was sealed may be given, and nothing else |
| `SealOpen` | `wc_CoseMac0_*`, `wc_CoseEncrypt0_*`, `wc_CoseHpkeEncrypt0_*`, `wolfCose_Sign1_Verify_ex`, `wc_CoseSign_Verify` | senders stage by stage; a receiver reads, judges, opens and returns |
| `EatPsa` | `wolfcose_eat_psa.c` | the envelope, the claims map pair by pair, resolver, nonce, iterator, issuer |
| `MC*` | | the constants for TLC |
| `*_proofs` | | inductive invariants and theorems |

`CborSkip` is over `CborHead`; `CounterAttach` is checked to implement
`CounterMessage`, whose variable is what the parser makes of the bytes
(`Promise == INSTANCE CounterMessage WITH message <- read`).  `SealOpen` and `EatPsa` both
implement `Delivery`: `D == INSTANCE Delivery WITH given <- Given`, where `Given` is
what the output variables of a call that succeeded tell, and `Promise == D!Spec`.
`Checks` is under every module with a chain of checks.

Definitions with the comment `(slip)` are not the code: each is a plausible
mistake in the definition below it, with which the property that
`PROJECT.json` names for it fails.

### CborHead and CborSkip

`DecodeHead(buf, idx, tolerant)` gives the code, the item and the position that
the context is left at, refused heads included.  Arguments of 2^24 and more are
one value, `Huge`, when they are compared with sizes: no buffer is as large
(`InputsAssumption`).  The `stack` array starts as `Uninit` in every slot, since
the code does not initialise it.

A count becomes a `size_t` modulo `SizeMax + 1` (`Narrow`), after a map's count is
doubled, as in the code; `SizeMaxAssumption` is that the size of a buffer is a `size_t`.
What keeps the result exact is `TooMany`: a count passes only if it is no more than the
bytes and, of a map, no more than `SIZE_MAX / 2`.  Without the second check a map of
16 pairs would be empty to a `size_t` of five bits (`MoreThanBytes`).

The loop is straight-line code, which runs until it returns: that is the weak
fairness of `Next`, and all that `Terminates` needs.

### LmsSigning

The `LmsKey` in memory (`lms`: wolfCrypt's state and next leaf), the stored
index (`persisted`), the delegated backend's own index (`ext`) and the
`WOLFCOSE_KEY`s (`cose`) outlive a call, and all but `persisted` and `ext` are
lost with the power.  A failing `wc_LmsKey_Sign` may have taken a leaf or not,
may have stored the index or not, and may leave any state behind: wolfCrypt
5.9.2 leaves `WC_LMS_STATE_OK` after a failed write.  `releases` counts how often
each leaf's signature left the library in the output of a successful call; what
is in `out` when a call fails is zeroed.

Sizes are computed twice, as in the code: by the size query that the preflight
uses (`Sign1Size`, `SignEncodedSize`) and by the encoder (`BodySize`,
`SignatureSize`).  That they agree is what `NoLeafSpentForNothing` rests on, and
why the buffers of the instance fit exactly or fall short by one byte.

Assumed of the environment: one `LmsKey` in use at a time, reloaded from the
store after a loss of power; a delegated signer does not repeat leaves.

### CounterAttach

A byte is abstracted to a cell, so that the moves and writes can be followed
position by position: heads take one cell up to the argument `Inline` and two
above it, which stands for the one- and two-byte heads of CBOR around 23.  The
header map, the list of countersignatures and byte strings all cross that
border in the instance.  A signature is ideal, a record of what was signed and
with which key, padded to its length.

`Refusal` has the checks of `wolfCose_AddCounterCommon` in their order; the
circumstances of a call (no payload given, a scratch or output buffer one short,
a backend that fails or returns another length) are tried one at a time.  `AddAttaches`
works in place or into another buffer; only in place does a failure show in
the message.

### HeaderDecode

Entries come told apart by kind, since the CBOR below is `CborHead`'s matter.  A
value is what the typed decoders make of it: an integer, a byte or text string,
an array, something else, or bytes that CBOR refuses.  `INT32_MAX` and
`INT64_MAX` are constants of which only the order matters.

`hdrState` holds the labels of the protected bucket and, after the second bucket
was accepted, the bits of the unprotected one too, as in the code.  The receiver
therefore notes `algProtected` between the buckets (`EndProtected`).

### Recipients

A message is a body and its recipients in the order of their bytes; an entry of
four fields is followed by its nested ones.  There are four ways to distribute
the content key: *direct* (the recipient's key is the content key), *key wrap*,
*ECDH-ES* and *HPKE*.

| code | actions |
|---|---|
| checks of `wc_CoseEncrypt_Encrypt`, `wc_CoseMac_Create` | `Start` |
| `wc_RNG_GenerateBlock`, `wolfCose_EcdhEsDirect` | `ObtainCek` |
| headers, content, tag | `WriteBody` |
| the loop over the recipients, `wolfCose_KeyWrap`, `wolfCose_Hpke0Seal` | `WriteRecipient`, `Send` |
| body of `wc_CoseEncrypt_Decrypt`, `wc_CoseMac_Verify` | `Receive` |
| `wolfCose_DecodeSkippedRecipient`, `wolfCose_UpdateRecipientMode` | `SkipEntry`, `Return`, `Skipped` |
| the recipient at `recipientIndex` | `Read` |
| from the test for trailing bytes to the result | `Decrypt`, `Verify` |

`remaining` and `stack` are the C variables of the skip, `mode` and `recAlg`
are `recipientMode` and `recipientAlgId`.  `seen`, `picked`, `used` and `origin` are
ghosts: what was walked, what was read, what the key was used for, and which request
the message at hand answers.  The library keeps nothing between two calls; that
a sender or receiver is called once per message and result (`wire`, `req` and `call`
empty in the guards of `Start`, `Arrive` and `Receive`) bounds the application, not
the library.

A sealed value says under which key and for which context, so it opens only when
both sides formed the same context from what each had: the protected bucket, the
content algorithm, the curve of the ephemeral key.  Left out: the length of a
tag, the size of scratch, external AAD, the label of a pre-shared HPKE key,
buffers that are cleared, and labels that repeat within one bucket (`HeaderDecode` has
those).  Wrapped keys are right or wrong in key, context or length, not in their
bytes.

### CborCodec

`ctx` is the `WOLFCOSE_CBOR_CTX`.  An application encodes items one after another,
goes on after a failure if it likes, then opens a reader on what it wrote and calls
any decoder at any place; or the reader is given foreign bytes.  An `int64_t` is four
limbs in two's complement, so `-(val + 1)` and `-1 - n` are computed as they are in C,
at every boundary down to `INT64_MIN`.  `EncodeBytes` writes the head of a string before it
looks for room for the contents: on failure the head stays behind, and `log` has it as
`"stray"`.  `log` is a ghost: what was written where.  Left out: NULL arguments, and a string
that lies in the buffer it is encoded into.

### CoseKey

`key` is the `WOLFCOSE_KEY`, `obj` the wolfCrypt object it may point to.  A byte string is
known by the key pair it comes from and by its length, so that a half that was
imported, copied or encoded can be followed; importing it is wolfCrypt's work, and
may fail at each import.  `wc_CoseKey_Decode` is an action per entry (`n` entries of
`in` are taken, `mem` holds the strings that cannot be imported before `kty` is known)
and one for what follows the loop.  The sizes of `EncodeSize_ex` are computed apart from
the map that `Encode_ex` writes, as in the code.

`entrusted` and `kept` are ghosts: what the key was given last, and what it held when a
delegated signer was attached.  The application gives up a key that failed to decode
(`entrusted` is `"failed"`) until it is attached or initialised again.  The union
`WOLFCOSE_KEY.key` is one field with the member that was attached.

### SealOpen and Delivery

| code | actions |
|---|---|
| checks of `wc_CoseMac0_Create`, `wc_CoseEncrypt0_Encrypt`, `wc_CoseHpkeEncrypt0_Encrypt` | `Create` |
| the structure, tag and encoding of a Mac0 | `EncodeMac0` |
| head and protected bucket; encryption in place or detached; the null of a detached message | `EncodeHead`, `Encrypt`, `EncodeNull` |
| clearing, lengths, result | `Finish` |
| checks and clearing on entry of the five receivers | `Receive` |
| the message up to its end, `wolfCose_HdrClearOnFail` | `Read` |
| algorithm, pin, key, lengths | `Judge` |
| structure in scratch, verification or decryption | `Open` |
| clearing of scratch and outputs, result | `Return` |

A seal says under which key, for which kind of message, protected buckets, external
data and content it was made, and only these open it.  The outputs (`out`, `got`) are the
application's variables and outlive a call, so that what an earlier call left in them
shows.  Messages of others (`Peers`) may be sound, altered, cut, or put together from parts
of other messages.  The three AEAD families take the same steps in the same order, and
are one.  `MaxSealed` bounds how many distinct facts are sealed by senders of the
instance; `fault` is a failure of wolfCrypt, which may come at every stage.

### EatPsa

The claims map is decoded pair by pair into `token`, or into the local `untrusted` while
`VerifyByUeid` has no key yet; the resolver is the application's own code and may return any
key or none.  The nonce the caller gives may lie in memory that the call writes to,
which is why the code copies it first (`nonceCopy`).  Namespaces and envelopes are
constants, for builds with one profile or one envelope.  The COSE messages
around the claims are ideal here, being the subject of `SealOpen` and `LmsSigning`.  `Int32Max`
stands for `INT32_MAX`, and `Later` bounds which messages may follow another one.

## Runs

| run | instance | states | shows |
|---|---|---|---|
| `cbor_skip` | every buffer up to three bytes over one head of each kind, every five-byte nesting, 17 buffers with long heads, maps around `SIZE_MAX / 2` pairs; every start, both modes, depth 2 | 243 thousand | the stack is never read where it is unset; exactly one item is skipped, and the depth error is given for too deep items only; one head per byte; termination |
| `lms_signing` | two leaves, two handles on the one key, seven lists of signers, exact and short buffers | 187 thousand | no leaf twice, none for nothing, out of use until reloaded |
| `doc_lms_failed_call` | the same | | the documentation's sentence on failed calls does not hold (below) |
| `counter_attach` | 118 messages of all six kinds, lists and maps up to their limit of five, ten requests, two countersignatures in a row | 12 thousand | the bytes keep the abstract promise; the one that is added verifies and earlier ones go on verifying; a failure changes nothing; no signature wasted |
| `header_decode` | up to three entries per bucket, 12.8 thousand messages with every label and kind of value, limits of three | 108 thousand | accepted means well-formed (no label twice, in one bucket or across the two) and the other way round; the header tells the message; the algorithm is vouched for |
| `recipients` | every request for one or two of 54 recipients, peers with one to three recipients and nested ones, nine keys, small rooms | 154 thousand | what a sender makes each recipient reads; nothing is refused late; a key is used after the whole walk, in one mode, as pinned, with a vouched algorithm; every call ends |
| `cbor_codec` | up to three items of every kind in buffers of four sizes, both sides of every boundary of a head, of 2^32 and of `INT64_MAX`/`INT64_MIN`; 2 thousand foreign heads, preferred or not, whole or cut; both modes | 1.16 million | what is written comes back, and a reader is on an item wherever it goes on; one encoding, with the sign that is on the wire; nothing outside the buffer |
| `cose_key` | 18 wolfCrypt objects, two key pairs, COSE_Keys of every type, right and with one thing wrong, in several orders, then whatever was encoded | 253 thousand | the last key signs; a failed decode keeps nothing; private halves stay; order does not matter, and `PeekInfo` agrees; `EncodeSize` is exact; what is encoded decodes to the same key |
| `seal_open` | 21 keys, five receivers on 54 messages of peers, each call followed by any other; 21 requests that go wrong at every stage, and the receivers of what is sent | 327 thousand | a holder's message or nothing, whole and under a vouched algorithm; a failure leaves nothing, on either side; every message sent is read back; refines `Delivery` |
| `eat_psa` | 94 tokens of both profiles with one pair missing, doubled, moved or wrong; four keys; verify with a key, by UEID, and visits; 19 requests that go wrong at every stage, and the verifiers of what is issued | 69 thousand | accepted means conforming and the other way round; the challenge is answered; failures leave nothing; what is issued is accepted; refines `Delivery` |
| `doc_mixed_modes`, `doc_null_direct` | the documented calls | | two sentences of the documentation do not hold (below) |

Why the bounds are enough:

* Depth 2 has a level below the limit, the limit, and one beyond it; three bytes
  are enough for a container in a container in a container and a map whose second
  pair is missing.  Counts of 16, 32 and 64 bits, text that is not UTF-8 and strings
  that run past the end do not fit, so there are buffers made for them.  `SizeMax` is 31,
  the size of the largest buffer: maps of 15 pairs, the most that may be doubled, of 16
  and of 17 fill it.
* Two leaves give a first, a last and an exhausted key; two handles are needed
  for one to be stale while the other one signs.
* `MaxItems` of 5 and `Inline` of 3 let lists and maps reach the growing of a
  head (3 to 4) and the limit (5) within two calls (`MaxAdds`).
* Three entries per bucket exceed by one what a pair of conflicting entries
  needs; `MaxItems` of 3 is then the limit too.

* In `recipients` two recipients are enough for a pair that must not be mixed, and three
  put the one that is read before, between and after skipped ones.  Two levels
  of nesting are allowed (`MaxDepth` of 2), and messages have three; counts that
  claim more or fewer entries than there are, or none, are among them.  Keys differ
  in type, length, curve and pin, so that each check is the only one to refuse
  some request.
* `cbor_codec` needs one item for the boundaries of integers and two for what one
  leaves to the next; three small items are a map with a pair.  How many there may be
  depends on the size of the buffer (`MCItems`).  Of a 64-bit width all four limbs
  take part (`MCUnsigned`).
* In `cose_key` `MaxItems` of 11 is one below the most entries tried.  Two key pairs tell
  whose half is where.
* In `eat_psa` 10 claims and 5 claims of a component are the least that `settings.h` allows,
  so that a token at each of them and one beyond is small; two components are enough to have
  an order.  An issuer is called while the message at hand is one certain token, and three
  messages may follow another one (`MCNext`, `MCLater`): what a reader left in its variables
  does not reach an issuer, or the other way round, except through these.
* In `seal_open` there is a key per branch of the checks on keys, and one request or message
  per check that only it trips.  An application begins as a sender, as often as it likes, and
  then receives what it sent, or it only receives (`MCNext`).  One fact sealed by a sender
  (`MaxSealed`) is enough beside those of peers, since a call handles one message.  `MCNext` only
  takes away steps of `Next`, and the theorems are about `Spec`.

Fairness in `Recipients` is that of a call that was begun (`Going`): straight-line
code that never waits.  The application owes nothing.

Deadlock is not checked where the program ends: a skip that has returned, an
application that has added its countersignatures or whose call failed, a
receiver with its answer.

Three runs are expected to fail, each on a sentence of the documentation.

`doc_lms_failed_call`:  `docs/API-Reference.md` says that a
failed signing call marks the `LmsKey` bad.  A call refused by a check, for
instance because scratch is too small, leaves it usable.  The code is right and the
sentence is too wide.

`doc_mixed_modes`: the example of `docs/Message-Types.md` (lines 166 to 189) addresses one
COSE_Encrypt to a direct, a key wrap and an ECDH-ES recipient.  The sender goes by the
mode of the first and answers `WOLFCOSE_E_COSE_BAD_ALG`, as RFC 9052 and
`docs/API-Reference.md:1065` want it.

`doc_null_direct`: `docs/API-Reference.md:1067` and `:1144` let a direct recipient carry null.
The receivers, and the walk over skipped recipients, take the empty byte string
only, and a test expects that.

Four more sentences are wider than the code, seen while modelling and not worth a run:

* `docs/Message-Types.md:230` gives a detached payload to every `Encrypt*` API, which
  `wc_CoseEncrypt_Encrypt` answers with `WOLFCOSE_E_UNSUPPORTED` (`wolfcose_encrypt.c:440`);
  line 215 gives each recipient of a COSE_Mac its own KEK, where the code has the direct
  mode only.
* `docs/MISRA-Compliance.md:85` says that `kty` and `attachedType` govern which member of the
  union `WOLFCOSE_KEY.key` is accessed.  Only the HSS-LMS branch of `wc_CoseKey_Encode_ex`
  compares the two (`wolfcose_key.c:1041`); the others go by `kty` (`wolfcose_key.c:657`),
  which a failed decode may have changed.  An application that gives a key up after a
  failed decode never gets there, and that is the one `CoseKey` has.
* The comment at `wolfcose_encrypt0.c:244` promises that no caller sees a positive length on a
  failing return.  A failing `wc_CoseEncrypt0_Encrypt` wipes the detached buffer and leaves
  `*detachedLen` as an earlier call set it; the HPKE form clears it (`Wiped`).

## Proofs

For every value of the constants that satisfies the named assumptions.  Where a component
has several layers of invariants, each assumes the ones before it: types first, then what
has been checked at each stage of a call, then what that says of the message at hand.

* `Checks_proofs`: a list of checks succeeds if and only if none of them refuses, and gives
  the code of one of them otherwise.  Least elements of sets of numbers (`LeastNat`, `Induct`)
  are the means of induction everywhere below, and `SumsExist` that of partial sums.
* `Cbor_proofs`, of the skip: `TypeCorrect`, `NoUninitialisedCount`, `WorkBoundedByInput`,
  `CursorOnlyAdvances`, `SkipFollowsGrammar`.  The invariant adds to the
  properties that the loop only goes on while nothing was refused
  (`RunningMeansOk`): with it a head decoded is a byte consumed.  Facts on
  `DecodeHead` (it advances by at least one byte when it succeeds, never leaves the
  buffer, and gives counts that are natural numbers) are lemmas.  That exactly one item is
  skipped, whatever the width of `size_t` (`CountBounds`: a count that is refused announces
  more items than there are bytes, one that is not keeps its value), is the invariant `Following`: the item begun at the start ends where what the
  levels still count ends, so it ends at the cursor once they count nothing.  The
  reference grammar is a recursive function; that it exists is shown by least number
  (`EndExists`), each item taking at least a byte.
* `Cbor_proofs`, of the codec (whose specification is `CodecSpec`, so that one module can
  extend both and share the lemmas on the head decoder): `CodecWritesAhead`, `CodecOneEncoding`, `CodecReadsBack`.  The invariant `Kept` says
  that the cursor stays in the buffer, that the items in the log lie one after the other and
  each of them, wherever its bytes stand, reads as that item in either mode, that a reader
  which skips nothing stays on the items, and that the last answer is the one of the
  head at the place it was read.  `CodecAssumption` has buffers and strings shorter than
  `Huge` (2^24), as the skip does.
* `Signing_proofs`, of messages (`LmsSigning`): `LmsTypeCorrect`, `OneTimeUse`, `ReadyKeyIsStored`,
  `OneLeafEachCall`, `QuarantineHolds`, `LeavesNotWasted`.  That no leaf is released twice is not
  inductive by itself.  It needs that a leaf at or above the stored index was
  never released (`SpareLeavesUnused`), that the leaf held by the running call was
  not released yet (`HeldLeafUnused`) and lies below the stored index, that a
  local turn only comes after the preflight found the key ready
  (`PreflightHolds`), that an HSS-LMS signer is the last (`InTurn`), and that an
  idle library holds no leaf.  For `LeavesNotWasted` the invariant `Room` ties the two
  computations of a size together: what `wolfCose_SignEncodedSize` adds up to the signer
  in turn is what has been encoded by then, so that the buffer that was long enough at
  the start is long enough after the leaf is spent.
* `Signing_proofs`, of countersignatures (`CounterAttach`, whose names `CounterSpec`,
  `addRet`, ... let one module extend both): `CounterSignerNotWasted`, `FailedAddLeavesAlone`.
  Both come down to `AttachFits`: when the last refusal that `RefusalOf` can give is
  behind, the checks that follow the moves, on the room and on the length written, hold.
  A target or a list that was read lies in the message (`TargetRead`, `ListRead`), what
  `wolfCose_FullCounterSize` adds up is the length of what `wolfCose_EncodeFullCounter`
  writes (`CounterLen`), and the plan's `delta` and `newLen` are those of the branch taken,
  with the head of the map or list at its new count (`ParameterFits`, `ValueFits`).  What
  the cells of a message are does not matter, so the invariant only adds that its length
  is a number.  `SignatureLenAssumption` and `MessagesAssumption` say that lengths are.
* `HeaderDecode_proofs`: `HdrTypeCorrect`, `LabelsUnique`, `AlgorithmVouched`,
  `AcceptsJustRules`, `HeaderIsRead`.
  The table of labels is a bit mask and two arrays; the lemmas say that a label added
  is found again and hides no other (`AddContains`).  The invariant counts along with the
  loop: the entries taken so far differ and are in the table (`ProtectedSeen`,
  `UnprotectedSeen`), and the algorithm comes from the protected bucket while its
  label is in that bucket's table (`AlgSource`).  At the end this is a statement on
  whole messages (`SeenDistinct`).  The second layer, `Read`, is the other direction: the table
  holds nothing but what was taken (`Tables`), every field of the header is what
  the entries so far say (`Noted`), and a refusal has a rule of the header behind it (`Ruled`,
  `Told`), so that a message is accepted if and only if it is well-formed.
* `Recipients_proofs`: `RecipientsTypeCorrect`, `ModesAgree`, `KeyPinned`,
  `ContentAlgorithmVouched` (the parts of `KeyUsedAsMeant`), `MadeHolds`, `NothingRefusedLate`,
  `RecipientsRead` and `MessageIsWalked`.  What is claimed of the moment at which the key is used
  was checked earlier, entry by entry, so the invariant says what holds along the
  walk.  `Typed` bounds the stack by the depth that was checked before it grew;
  `Progress` ties the phase of the call to the number of recipients seen, so that the
  selected one is read once and the key is reached only after the last; `Modes` says
  that those seen so far share the mode, with an agreement alone; `Checked` says that
  what was found of the recipient read still holds of the key and the policy when
  they are used.  The proofs of the checks take the codes apart (`ThirteenOf`): a
  list of checks that passes has passed each one.
  The second layer follows a message from its sender to a receiver: a request that goes on has
  passed the checks of its kind, which look at every recipient's key (`Asked`); the
  message at hand is the whole one that the request asked for (`Written`, `Answered`); and a
  receiver that it was meant for is at the right entry in the right mode (`Following`).  It needs
  that algorithm identifiers of different uses differ (`NamesAssumption`), that an id names
  its key (`IdsAssumption`) and that a request has a recipient, as the code demands
  (`RequestsAssumption`; `wolfcose_encrypt.c:163`, `wolfcose_mac.c:109`).  The third
  layer, `Tracked`, has the levels on the stack as a chain, each of which ends where the
  parser of whole trees says (`TreesFrom`, whose recursion exists by least number).
* `SealOpen_proofs`: `TypesHold`, `FailuresLeaveNothing`, `SuccessTells`, `WhatIsCreatedOpens`,
  and `Refines`: the senders and the five receivers implement
  `Delivery`.  What an application may rely on is claimed between calls, so the
  invariant says what a call has found when it is at each of its stages: `Writing` that
  a sender past its checks passed them and that the ciphertext written is the one asked for,
  `Reading` that what was read is the message's (`got.hdr`), was judged, and was
  opened by a seal that somebody made, and `AtRest` is the properties.  Every seal in
  a message is of a fact sealed before (`Sent`), which is what makes a successful call a
  `Give` of the abstract specification.  `Tracking`, the second layer, says of a message that
  is the application's own what each stage of its sender wrote, and that its receiver, called
  as it should be, is not refused at any stage; tags and nonces are not empty (`AlgsAssumption`).
* `EatPsa_proofs`: `TypesHold`, `ChallengeAnswered`, `FailuresLeaveNothing`, `VisitsAll`,
  `AcceptsJustProfiles`, `IssuedAccepted`, and `Refines`: verifiers and issuers implement
  `Delivery`.  `Decoding` ties what is in a token to the labels seen so far, so that
  components are visited only where there are any; `Answering` holds the copy of the nonce
  against the call until it is compared; `Visiting` says that what was visited is
  the beginning of the array.  `Meaning`, the second layer, relates the token to the whole map:
  the pairs taken so far are allowed and told, and a refusal has a rule of the profile
  behind it.  The issuer's map is then one that the verifier has no reason to refuse.
* `CoseKey_proofs`: `TypesHold`, `AnyOrder`, `PeekTells`, `LastKeySigns`,
  `FailureKeepsNothing`, `PrivateHalfStays`, `SizeIsExact`, `ReadBack`.  The decoder's loop
  is the hard part: `Described` and `Gathered` say that the key and the strings put aside are what the entries taken so
  far say, no more and no less, and `Completed` that the loop ended where the map does;
  order-independence and the agreement with `PeekInfo`, which reads the same entries by
  another loop, follow.  `Trust` and `Delegated` tie the private half to the last key given.
  For the sizes, `Laid` says where the encoder is behind the entries that keys have in
  common and `Rested` where it is behind each of the others; then the room needed
  is that of the whole map (`Roomy`) if no reserved head, and no export of an RSA
  private key with the scratch space behind it, reaches further, which the entries that
  follow ensure.  This takes facts on the objects that the invariant carries along (`Whole`):
  the public half of an RSA key is not empty, and that of an ML-DSA key has the size of its
  level, 256 bytes or more (`AlgsAssumption`), which takes all three bytes of its head.
  `ReadBack` is that a COSE_Key that was encoded is decoded for what it was.  `Lists` takes the
  order out of it: a map has every one of its entries once, with labels that differ, and no
  more than eleven of them, which the decoder takes (`LimitAssumption`: the defaults of a build
  with RSA; the floor in `settings.h:997` is 4, and a build that overrides the default with
  less than 11 refuses RSA private keys it has encoded).  The second layer, `Further`, says
  that what is in the buffer was made of a key fit for it (`Sent`, `Sendable`), and that a key
  which is not the remains of a failed call has a curve of its type (`Sound`); behind
  the last entry the decoder then knows what was written (`Restores`), passes its checks
  (`SentPasses`), and each import gives the halves back or fails (`Agrees`).
  `NamesAssumption` says
  that names written out in the module are strings, which the provers cannot know by themselves.

The recursive functions of the models (ends of items and trees, sums of sizes) are written
as functions that are chosen, and a proof about one first shows that there is one.

Left to TLC: `Terminates` and `CallsEnd` (liveness under fairness, which the provers do not
have); `KeepsPromise` and `CountersignaturesVerify` of `CounterAttach` (its moves
rewrite a message cell by cell, and what the parser makes of the cells afterwards would
be an induction over each level of the message).

## Not modelled

Cryptography (an operation succeeds or fails; signatures, seals and wrapped keys are
ideal), hash and key-derivation tables, the conversion of signatures between DER and raw,
addresses (overlapping buffers, zeroised memory that a compiler might leave), constant
time, widths beyond those above, NULL and length arguments one by one (they are one
flag of a call), external AAD and cleared buffers of COSE_Encrypt and COSE_Mac, and builds
without some of the features (`EatPsa` has the profiles and envelopes that are built in as
constants, for which its theorems hold; its run is of a build with all).  The command
line tool, the examples and the tests are not part of the library; they keep no state between
calls that the library would see.  `PROJECT.json` lists every component and every hazard
with the properties that cover it or the reason why none does.

## What may come next

1. COSE_Encrypt and COSE_Mac with the cleared outputs and the scratch sizes that `SealOpen`
   has for single-recipient messages.
2. Skipped recipients and signatures label by label, with the label table of
   `HeaderDecode`.
3. Proofs: lemmas on the moves of `CounterAttach`, and the refinement of `CounterMessage`
   by it.
