# bytesmith: specifications and proofs

TLA+ models of mcp-bytesmith, an MCP server of developer tools for bytes,
encodings, hashes and Ethereum data; the TLC runs that check them on small
instances; and proofs, checked by TLAPS, of what should hold on every instance.

The program is two things. Around the edge it is a concurrent server on stdio
that repairs its input while it forwards it. Inside it is some forty tools,
nearly all pure functions, whose answers people sign, deploy and pay with: what
can go wrong there is an edge of an encoding, or a client that feeds the answer
of one call into the next. The models follow this split.

All paths below are in `src/src/mcp_bytesmith/`.

## 1. Inventory

### The server (`__main__.py`, `jsonfix.py`, `server.py`, `errors.py`)

| part | state | operations | talks to |
|---|---|---|---|
| `_run_stdio_repaired`, `_pump` | the message in hand; two streams without a buffer | read a message, repair, forward or answer it, close at EOF | SDK reader, session, stdout writer |
| `process_incoming`, `repair_arguments` | none | parse strictly, then leniently, then reject | called by the pump between two awaits |
| SDK session and its handlers (external) | one task per request | receive, start a handler, send the answer, end or cancel | pump, tools, stdout writer |
| `_BytesmithMCPServer.call_tool` | none | run the tool, map its exception to an answer | session, tools |
| stdout writer (external) | the answer being written | take one sender, write | everybody who answers |
| `main` | the process | interrupt, broken stdout, clean end | |
| toolset gating, `info` | the set of toolsets, read once at import | register tools | |

Hard here: four kinds of tasks over two rendezvous streams, a client that stops
reading, EOF with work in flight, an answer of two possible origins, exceptions
that escape a task and end the process, cancellation at shutdown.
Correct means: a request gets at most one answer, the right one, in spite of
all that; nothing is lost; the order of arrival survives; stdin never stops; the
process ends after EOF.

### The files of the host (`core.py: hash_file`, `eth.py: _private_key_from_file`)

State: the path, the open file, what was read so far. Operations: exists,
is_file, stat, open, read. Another process shares the path.
Hard: every check is stale by the time of the next call.
Correct means: one version of one file; a key that is somebody's; an error that
tells the user what is wrong unless there was a race.

### The tools of Ethereum (`eth.py`)

| part | what it computes | hard |
|---|---|---|
| `eth_sign`, secp256k1 | sign, verify, recover, convert between three formats | low s and parity, x beyond the order, the packed bit of EIP-2098 |
| `eth_tx_codec` | encode, decode, signing hash, sender, four types | v means four things; type inferred from fields; decode feeds encode |
| `abi_codec`, `eth_calldata`, `eth_revert_decode`, `eth_log_decode` | the ABI and what uses it | offsets and lengths from the wire; truncated data; guesses against built-ins |
| `rlp_codec` | RLP | two forms of length, nesting, truncation |
| `eth_hash`, `eth_userop_hash`, `eth_contract_address` | what is hashed to be signed or deployed at | seven formats over one hash; operations in several shapes; types found through arrays |
| `eth_bytecode` | disassembly, selectors, metadata | data among code; pages; a trailer found from the end |
| `eth_storage_slot`, `ens_namehash` | where a variable is, the node of a name | slots fed back into the next call; one layout under several names |
| `eth_selector`, `abi_inspect` | a declaration's canonical text, JSON and back | aliases, dimensions, names and modifiers in tuples of tuples; entries without a name |
| `bip39`, `bip32_derive` | words, seeds, derived keys | checksum bits across word borders; hardened steps are a bit of the index |
| `eth_eoa_address`, `eth_address_case` | addresses | the key file; otherwise a hash and the case of letters |

Correct means: what was encoded decodes to itself; what is signed is what was
shown; a decoder never makes up a value nobody sent.

### The serializers (`serialize.py`)

SSZ is written out in the module, with hash_tree_root: offsets, limits, packing of
bits, padding to the limit. bencode and a protobuf reader without a schema are its
own too, and so is the tree that asn1 makes of what asn1crypto frames; cbor and
msgpack are one call of a library each way. Hard: lengths and offsets from the wire,
nesting, integers at their edges. Correct means: a value comes back, a part of a
wire never passes for the whole of one, whatever decodes encodes again.

### Text, numbers and secrets (`core.py`)

| part | operations | hard |
|---|---|---|
| base codecs: `encode`, `decode` | bech32, base62, z85, Crockford, base32/64 padding, hexdump, bytes32, percent-encoding | bits left over, symbols with too large a value, several texts for one value |
| `string_escape`, `string_unescape` | js, python, c, backslash | an escape in front of a character that reads on |
| `data_uri`, `otpauth_uri` | build, parse | characters that the URI uses itself; defaults |
| `num_convert`, `byte_order`, `bytes_edit` | text to number to text, reversing, padding | what `int()` takes; sign, width |
| `hash`: the checksums | CRC bit by bit | reflected or not |
| `password_hash`, `derive_key` | hash, verify, derive; parameters over defaults | what verify finds again in a string; two copies of defaults and limits |
| `time_convert`, `hmac`, unicode tools, `random`, `id_generate` | one call of a library, mostly | not modelled, see section 5 |

`PROJECT.json` lists the components with what is and is not modelled, and the
hazards with their lines.

## 2. Modules

    RequestContract           what a client is promised
      ^ implemented by
    StdioServer               pump, repair, session, handlers, writer, process
    HostFile                  the two readers against another process
    Secp256k1 <- EthSign      curve arithmetic; the signature tool
    TxCodec                   eth_tx_codec and a client that uses it
    AbiCodec <- EthAbiTools   the layout; calldata, revert data, logs
    EvmBytecode               eth_bytecode
    CodecClient               a client of every tool that encodes and decodes:
      Rlp  Ssz  Bencode  Protobuf  Asn1     serializers
      BaseCodecs  StringEscape  Numbers     text, escapes, numbers and checksums
      UriCodecs  Mnemonic  Declarations     URIs, sentences, Solidity and JSON
      PasswordHash                          stored strings
    Digests                   a client of every tool that hashes:
      Words  Preimages                      what a hash is made of; what is signed
      StorageSlot  KeyDerivation            slots and names; seeds, keys
      Declarations  Mnemonic  PasswordHash  as above
    Bytes                     results, slices and bits, for all of these
    CommonLemmas              numbers: congruence, induction, recursion; parts of sequences
    StdioServerProof, EthSignProof, TxCodecProof, HostFileProof, EvmBytecodeProof
    EthAbiToolsProof          of AbiCodec and of EthAbiTools
    CodecProof                of Rlp, Mnemonic, BaseCodecs and Preimages
    MC<module>.tla / .cfg     the instances

Each tool module is the tool *and its client*: the variables are what the client
holds (a signature, a transaction, a listing half read), an action is a call, and
the next action may use what the last one returned. That is where pure functions
have histories worth checking.

**StdioServer.** `script` is what the client will send; `sent`, `eof`, `drained`
are the client's; `pump`, `readN` the pump; `received`, `handler` the session;
`wq`, `writing`, `out` the way to stdout; `proc` the process. `PumpRead` is the
loop body up to its first await, since no other task runs before that;
`process_incoming`, `repair_arguments` and `call_tool` keep the name and branches
of the code. A message keeps only what the code looks at: the form of its
arguments, what each parser makes of them and how the tool would end. anyio's
zero-capacity streams are rendezvous: a sender stays in `wq` until the writer
takes its item, in FIFO order. At shutdown the SDK may let a handler finish or
cancel it, and the model allows both. A parser that raises RecursionError ends the
process, as does a broken stdout: `proc` is then "fatal".

**HostFile.** A step is a system call. Bytes are named by file, generation and
position, so that a mixture shows. `renamed` are files put in place whole. A key file
is raw, of hex digits, or of hex digits with the end of their line, which `strip` drops
(`KeyEnd`). Which number the bytes are is left out, and with it the range of keys, which
refuses some more.

**Secp256k1, EthSign.** The group law and recovery for any curve y²=x³+B over a
prime P≡3 mod 4. RFC 6979 is any sequence of nonces: the loop's rejections are
`Usable`. `Malleate` and `Respell` are the client's. What is presented to verify, recover and
convert is a wire form with any numbers in its fields, or with fields missing
(`Absent`): `sig_parity`, `sig_parse` and `ecrecover` make the refusals of the code, each in its place.

**TxCodec.** Of a transaction the type markers, chain id, v, r≠0, s≠0 and one
opaque body are kept. `pad` marks a non-canonical leaf of a transaction found
elsewhere.

**AbiCodec, EthAbiTools.** Words of `Word` bytes of `Base` values; the head and
tail rules, the bounds the decoders check and the slices they do not check. `Types` is
the set of types that occur, closed under taking parts, and `Depth` the nesting of each;
`enc` and `decoder` are recursive functions on it, where the code has functions
that call themselves on the text of a type.

**CodecClient** has a value and a wire. It encodes, decodes, and between the two
loses the end of the wire (`Cut`), gets more of it (`Extend`), mistypes symbols
(`Typo`), writes it another way its scheme allows (`Respell`), takes it for something
else (`Misread`), or starts with a wire from elsewhere, canonical or not. The
codecs are operators in modules of their own, one per group of tools: each
gives what the call returns, or `Raise`, a ValueError, whose reason reaches the client, or `Bare`,
any other exception, of which it learns nothing: the IndexError of an OBJECT IDENTIFIER
without an arc, the OverflowError of `chr`. `Meant` says what a call is to give back where
that is not the value itself: a default that is filled in, a field of fixed width.

**Rlp, Ssz.** 55, 0x80, 0xc0 and 256 are constants of Rlp. Its encoder is a recursive function on
`Items`, the items nested at most `Nesting` deep, and its decoder one on `Spans`, the places in
the data where the rest of a list may begin and end; the code has functions that call themselves
on the item, and on an index into the data. Bits per byte, bytes per offset
and per chunk are constants of Ssz, where SHA-256 is the pair of what it hashes.
**Bencode, Protobuf, Asn1** have the bytes of the formats. **BaseCodecs** has
the groups and alphabets of each scheme, of z85 with smaller groups, and the polynomial and
constants of bech32. **StringEscape, UriCodecs, Numbers** read text as code points;
`PyInt` is `int()`, with its blanks, underscores and prefixes. **Mnemonic** keeps the
words as numbers of `WordBits` bits. **Declarations** reads a line of Solidity as symbols: an
identifier, a number or a character each. **PasswordHash** has the parts of a stored string
between its dollar signs; what stretches a password is a free constructor of what the scheme
`reads` of it: the key of an HMAC without the zeros at its end, or hashed if it is longer than
a block (PBKDF2, scrypt); 72 bytes (bcrypt); all of it (argon2). PBKDF2 and scrypt cut their
output. A codec with `cuts` has a bcrypt that cuts a longer password when it verifies, as
before 5.0; one without has a bcrypt that refuses it.

**Digests.** A hash is a word of bytes each of which names the preimage, so that it
can be hashed again inside another format. A call carries what its author meant; an
operation that is meant is written in every shape a bundler may use, a slot asked for
by every way that leads to it, a declaration in each of its forms. Left out is
`eth_hash` with kind=keccak256, which hashes whatever bytes it is given and promises
nothing.

**EvmBytecode.** Real opcodes, 256 byte values, short programs. The metadata reader calls itself;
`Nesting` stands for the depth at which Python gives up, and `Fail` is the call that raises then.

## 3. Runs

| run | asks | bounds, and why they are enough |
|---|---|---|
| `stdio` | answers once, none lost, in order, contract refined, answered, stops, keeps reading | scripts of 4 messages: every one of 16 kinds before and after each of the five fates, so that every fate meets every kind, and every script of the two kinds that differ in who answers, which are more than both pipes hold (InCap 2, OutCap 1), so that back-pressure reaches the pump |
| `stdio_unparseable` | *violation*: every string that is no object is answered with a parse error | two messages of any kind |
| `eth_sign` | signer recovered, valid, conversions lossless, verify sound | a curve of 67 points over F₇₉ with 7-bit words: the order is below the prime (some x are out of reach, which never happens in a test with the real curve) and above the top bit, so that a high s does not leave that bit free. Every nonce; presented signatures with r and s of 0, the order and beyond, any v, a yParity that contradicts it, and missing fields |
| `tx_codec` | what is signed is what is shown | chain ids 1..36 around 27, 28, 35; wild v up to 38; all marker sets |
| `tx_zero_chain` | *violation*: the same for chain id 0 | |
| `abi_tools` | round trips, truncation, guesses, log reassembly | every layout of two levels; every cut; wrong declarations |
| `abi_revert_doc` | *violation*: the revert decoder never reads past the end | |
| `codecs` | round trips; cut, extended, mistyped and respelled wires; what decodes encodes again; SSZ roots injective | each codec with values on both sides of its edges (lengths 0 to 4 and a group more, 55 and 256 as 2 and 20, 127 and 128 in asn1, limits of costs and salts) and every short wire over the bytes that mean something to it; two errors in a bech32 text, bursts in a checksummed one; passwords of 72, 73 and more bytes, ending in zeros and around the block of HMAC, of which some are the same to a scheme; escapes beyond a character and beyond a C int |
| `abi_inspect_doc` | *violation*: a declaration converts in either direction | a fallback entry is enough |
| `digests` | one meaning per digest, one digest per meaning | all pairs of some 300 calls that do not raise. The fixed first bytes (5, 0x19, 0xff, the types) and the list headers are disjoint, as in the code |
| `host_file` | one version, a whole key, bare errors only after a race | two files of up to 5 bytes, reads of 2 bytes: a file takes three reads, and can be replaced, appended to, unlinked between any two |
| `evm_bytecode` | pages complete, selectors real, metadata peeled | programs of up to 3 instructions, each immediate whole or cut, any mix of page sizes; metadata with text beyond ASCII; immediates that read as arrays in arrays, deeper than `Nesting` |

The names of bounds: `N`, `InCap`, `OutCap` (stdio), `MaxLen`, `MaxGen`, `Files`
(host files), `MaxProgram` (bytecode), and the sets `Scripts`, `Bodies`, `ChainIds`, `WildVs`,
`Keys`, `Digests`, `Presented`, `Calls`, and of CodecClient `Codecs`, `ValuesOf`,
`WiresOf` and `LettersOf`. `Nesting` (`RlpNesting` of CodecClient) is the depth of the deepest item
that an instance encodes: 4 in `codecs`, 2 in `digests`, whose transactions have no more. `Nesting` of EvmBytecode, 4, stands for Python's limit of
recursion, and `CInt` of StringEscape, 2²⁴, for the 2³¹ that TLC's numbers end at.

Deadlock is checked in every run. Only StdioServer and HostFile come to an end; there
`Stopped` is the process, or the call, that has ended.

Every property has at least one mutant in `PROJECT.json`: a version of a mapped
definition with a plausible bug, under which TLC finds that property violated.
The mutants stand next to the definitions they replace.

### Fairness

Only `stdio` assumes any: weak fairness of each task of the server, as the
event loop runs whatever can run and tools are functions that return. A handler
that can be cancelled is not promised to be, and the client is not fair: it may
stop sending, never close stdin, or stop reading. `EventuallyAnswered` and
`StopsAfterEof` take `ClientReads` as their premise, and `StdinKeepsMoving` does
without: the server reads on although nobody reads its answers, as handlers
wait for stdout in tasks of their own. The exception is in the property: the
pump itself waits when it answers a broken call.

### Disagreements between documentation and code

1. A legacy transaction with chain id 0: the signing hash shown for the unsigned
   form is not the one of the signed form (`tx_zero_chain`).
2. `eth_revert_decode` says that it refuses to read past the end of its data; cut
   tails come back shortened (`abi_revert_doc`).
3. `abi_inspect` says that it converts in either direction, and refuses `receive()`
   and `fallback()`, also as it printed them itself (`abi_inspect_doc`).
4. `jsonfix.py` and `__main__.py` say that arguments which cannot be parsed into an object at all
   are answered with a parse error; nested beyond the recursion limit of the parser,
   they end the process (`stdio_unparseable`).

Disagreements that have no run of their own:
- `server.py` has tools "report bad input by raising ValueError", so that the client is told the reason.
  Some input raises something else, and the client sees a bare tool name: an
  OBJECT IDENTIFIER of bytes that all go on, IndexError (`serialize.py:279`); an escape beyond a C int,
  which `string_unescape` says is a ValueError, OverflowError (`core.py:2119`, 2143, by the version of
  Python); a paymaster's gas of 2¹²⁸ or more, OverflowError (`eth.py:2139`); arrays nested deep at the end of
  bytecode, RecursionError (`eth.py:1848`). The models tell each from a refusal (`Bare`, `paymaster_gas_overflows`,
  `Fail`).
- `password_hash` refuses to hash a password of more than 72 bytes with bcrypt, since bcrypt would cut it, and
  verifies one unchecked (`core.py:2561`). With bcrypt 4 it matches the hash of its first 72 bytes; with
  5.0, which `uv.lock` names, it is answered "malformed bcrypt hash", whereas "a wrong password is a result, not
  an error". `TypoCaught` speaks of passwords that a scheme can tell apart, and RoundTrip has those that
  it cannot match each other.
- An issuer with a colon gives a part of itself to the account when its `otpauth` URI is parsed again
  (`otp_meant` says which).

Also found, and not stated as properties because nothing in the repository says
which way it should be: code that ends with the bytes a0 00 01 reads as metadata
(`EvmBytecode!Coincidence` excludes it); a half-written hex key file can have
the length of a raw key; a chain id above 2²⁵⁶ is reduced; the
check of an array's length counts one word an element, so that cut data of a `uint256[2][]`
comes back with elements read as zeros (`ArraysWholeOrEmpty` is about elements of one
word), and refuses an array of elements of no size, as of `uint256[0][]`; an object of
an operation whose `initCode` is `"0x"` takes the `factory` instead, although a packed field is said to win; version 0.6 ignores `factory`; the human form of a
payable constructor loses its mutability; `password_hash` verify reports a `version`
of argon2 that hash does not take, and not its `hash_len`; a comment of
`repair_arguments` (`jsonfix.py:58`) has unrepairable input "still reach the SDK", while
`process_incoming`, its caller, has it answered by the pump, as its own comment says.

## 4. Theorems

All for every value of the constants allowed by the assumptions.

**StdioServerProof.** `TypeCorrect`, `AtMostOneAnswer` and `ImplementsContract`:
StdioServer implements RequestContract. That nobody is answered twice is not
inductive: it needs to know where each request is. `IInv` has `PumpInv` (the
pump's state is the fate of the message it holds; an ended session has a closed
pump), `HandlerInv` (a handler exists only for a request that was forwarded),
`QueueInv` (a sender in `wq` is there once, and is the pump waiting on its reply
or a handler that is sending), `WriterInv` and `OutInv` (what is at the writer or
on stdout is nowhere else). In the last three each response is one that its message deserves.
Each action either moves one request along this line or
leaves it. The refinement follows: `Written` is `Answer`, `Send` is `Ask`, what
ends the process is `Stop`, everything else stutters.

Also `NothingIsLost`, `ArrivalOrder` and `RejectionsInOrder`. `IInv` says that whoever has a response in the queue is waiting for it; here the
converse is needed. `DInv` has `WaitingInv` (whoever waits has a response in
`wq`), `GoneInv` (whoever is done has one at the writer or on stdout), `HandledInv`
(what the pump forwarded has a handler) and `ReceivedInv` (what the session received is
just what the pump has passed on, in order). Each request is then in one place of
those `NothingLost` lists, and the fate of a message is that of its parses. That no message read
so far was fatal while the process has not crashed is an invariant of its own (`CrashInv`).

**EthSignProof.** `TypeCorrect`, `ConversionsAreLossless`, `SignedIsLow`, for any
order and word width with half the order below the word's top bit, as secp256k1's is. The
invariant says that the wire form parses to the signature that was made or its
twin, and that an object's v and yParity agree; the lemmas are about `Twin` and
about the two fields of the EIP-2098 word.

Also `DoubleAndAdd` (the loop of `_ec_mul` multiplies, for every scalar and point),
`SignerIsRecovered`, `SigningIsSound` and `VerifyIsSound`. The last is about any wire form at all: what
was presented is what `Wires` allows, in range or not, and that verify or recover gave an answer says
that nothing refused it (`ParsedNumbers`, `NoWireHoldsNothing`). What is assumed is the
mathematics the code relies on and does not contain: the multiples of G are the points
of the curve and add as their scalars do (`GroupLaw`), (P+1)/4 as an exponent gives a
square root where there is one (`SquareRoots`), and the order is an odd prime
(`PrimeOrder`). TLC evaluates all three on the curve of 67 points. From
them it follows that the point with x = r and the parity asked for is the nonce's point or
its opposite (`RootPoint`, `OppositeRoots`), so that recovery gives the scalar
(sk - z)/r (`RecoverIs`), and that is the key exactly where the textbook equation holds.
`RInv` says that what was signed recovers its signer and that what verify found
valid recovers the key it was given; it rests on `IInv`.

**TxCodecProof.** `SigningHashIsStable`, `SignerIsShown`, `ChainIsKept`,
`SigningNeverRefused`, assuming 0 ∉ ChainIds, which `tx_zero_chain` shows to be
necessary. The invariant gives the raw transaction and the fields at each stage
in closed form (`RawOf`); the arithmetic of v is `SplitV`. `ReencodeIsIdentity` needs no
such assumption: it is about a raw transaction from anywhere, and chain id 0 too.

**HostFileProof.** `TypeCorrect`, `ReadsOneVersion`, `KeyIsWhole`,
`BareErrorsAreRaces`, for any number of files, any lengths, chunk and number of
overwrites. Its invariant says that what the path and the server refer to has
been at the path (`UsedInv`), that a file that was never there is untouched and a
renamed one whole (`FileInv`), that a file not overwritten has not shrunk since
stat (`SizeInv`), that what was read is a prefix of the open file as opened unless
that was overwritten (`ReadInv`), and that with the path left alone what each
check found is still so (`RaceInv`).

**EvmBytecodeProof.** `PagingIsComplete`, `SelectorsAreReal`, `MetadataIsPeeled`,
for programs of any length. `disassemble` is a recursive function, which unfolds because
each instruction takes a byte at least (`UnfoldingExists`, `DisassemblyUnfolds`); what
the compiler assembled grows part by part (`GrowsBy`, `FlattenIs`), so that the
disassembler's position is always the beginning of a part (`PlaceOf`) and
the listing is the program (`DisassemblyIsListing`). `BInv` says that the
program is one the compiler makes (`Compiled`), that the pages read so far are the
listing up to the offset (`Paging`), and that the selectors reported are those compared
(`Report`). Of code that is `too_deep` both stay empty. `TrailersAssumption` says that metadata reads as a CBOR map of the length that
its last two bytes give.

**EthAbiToolsProof.** `RoundTripTheorem`, `LogTheorem`, `HeadTheorem`, `GuessTheorem`,
`ArityTheorem`, `ArraysTheorem`: every property of the run `abi_tools`, for any
declarations. The invariant `ToolsInv` has `Sent` (something a declaration allows
was sent), `TopicsKept` (the topics are those of the event), `DataKept` (the data is what was
encoded, its prefix, or it with the suffix, as `damage` says) and `Told` (the answer
is the tool's for the data as it is now). Whole and padded data follow from `TupleDecodes`.
For cut data, what reaches to the end of the head agrees with the whole there, so that
static arguments are the ones sent, and an array whose length word survived
either has all its words or is refused. Assumed besides: two errors have two selectors,
an event has no more indexed arguments than topics (both as Solidity has it), and
what is sent fits (`FitsAssumption`).

Of AbiCodec there are `DecodeInvertsEncode`: the decoder reads a value of any type back
from wherever its encoding stands, among whatever other bytes; `TupleDecodes` is the
same for arguments. Assumed is that a type is nested finitely (`Depth`), that an
element of a dynamic array takes a word or more, which Solidity's types do and without
which the decoder's check of a length would refuse its own encoder's output, that values fit
their types, and that an encoding is shorter than a word counts. The proof
is by induction on `Depth`, for the encoder as for the decoder: that the recursive functions exist
and unfold is itself proved this way. `JoinedAt` says where in a concatenation each
part stands, `LayoutIs` where that puts the head and the tail of each member, and so
`member_at` finds the tail that the offset in the head was computed for.

**CodecProof.** RLP, for every item and all data: `RlpRoundTrip`, `RlpInjective` (no two items have one
encoding), `RlpTruncatedNeverDecodes` (of data that decodes no proper prefix does), `RlpReencodeNoLonger`
and `RlpDecodedReencodes` (canonical data or not). Assumed are the order of the ranges of first bytes
(`LayoutAssumption`) and, where something is encoded, that its length fits: `Fits` says that the
headers which count it stay below those of lists, and below 256, which in the layout of the code
is any length below 2⁶⁴. The code refuses no longer payload, and would run into the next range.
The encoder unfolds because the members of a list are nested less deep (`EncodeUnfolds`), the
decoder because every item found takes a byte at least (`DecodeUnfolds`, with `Left`, what is left of the data,
as rank). `HeaderIsRead` is the heart of the round trip: the two forms of a length are
read back as they were written, which needs that `minimal_bytes` spells a number (`NumberSpelled`). That
nothing gets longer needs that it spells it in the fewest digits (`SpelledLeast`), so that the header of what was
decoded takes no more bytes than the one it was read from (`SpanIs`); then an induction over the
spans of the data bounds each list by the span it was read from (`SpansNoLonger`). For truncation,
`SpansSame` says that what a prefix decodes to the whole data decodes to as well, and so ends before its end.

Sentences: `Bip39RoundTrip` and `Bip39OneSpelling`, for any width of a word, any sizes and any hash.
Symbols regrouped by their bits come back (`GroupsOfBits`, `BitsOfGroups`), a number is the digits of it
that `to_bytes` writes (`NumberPadded`, `PaddedNumber`), and a sentence's length tells how many of
its bits are checksum (`SentenceLength`).

Bech32 and bech32m, for any length: `Bech32RoundTrip`, `Bech32OneSpelling` and `Bech32TypoCaught`. A symbol is a
vector of five bits and a checksum one of six symbols, added without carry (`XorLaws`, `VectorLaws`). As
long as nothing but zeros came to the top, a step adds what it was given (`FoldsAdd`), so six more symbols are
added to what is left by six zeros (`ChecksumAdds`), and there is one checksum that makes the constant (`ChecksumFits`): the one written is taken and
no other is. A step is also injective, in the checksum and in the symbol (`FoldsApart`), as the last symbols of
the five generators are independent (`TopBits`), so a check that one symbol leads astray never comes
back (`SymbolWrong`). A letter of the prefix is two symbols of what is checked, of which another letter changes one
(`ExpandedOff`). Two wrong symbols, which `TypoCaught` has too, are model-checked only: that they are caught is a
property of the generators at the lengths bech32 is made for, and the code sets no limit to the length.
Regrouped bits come back at any width (`RegroupedThere`, `RegroupedBack`).

Any base, of which base62 is one: `BaseRoundTrip` and `BaseOneSpelling`. Digits are the zeros they begin with and the
digits of their number (`AllLed`), which do not begin with one (`SpelledFirst`). The alphabet must have no
character twice, which the guard of base62 makes sure of for 62 characters (`AcceptedDistinct`) and not for
more: it counts the different ones (core.py:1180), so that of 63 of which two are the same it lets
through what its message calls "62 distinct characters", and of such a text not all bytes come back.

What is signed and deployed at: `SignedMeansOne`, `TypedDataMeansOne`, `TypedDataApart`, `AddressMeansOne`, over
hashes that do not collide (`HashInjective`, which is how Words models them). The first bytes tell the kinds apart
(`SignedMarked`): 0x19 with E or with 1, 5, a transaction type from 1 to 4, or a list. Within a
kind, the digits of a length do not get fewer as it grows, so that two messages of two lengths never meet
(`MessageInjective`), and the lists are told apart by `RlpInjective`. A length that RLP cannot count is
excluded (`Fits`), and so, of what CREATE hashes, is one whose list would begin with 0xff, as what CREATE2 hashes does
(`Counts`): in the layout of the code a list of 2⁵⁶ bytes. An address is below 256²⁰.

**CommonLemmas.** The library's theorems on induction and recursion take an operator
as parameter, which the provers cannot instantiate. `Induction` and `Recursion` state
them with sets and functions, and are proved from the well-foundedness of the naturals; on them rest
the theorems about recursive functions (`ec_mul`, `disassemble`). `RankInduction` and `RankRecursion` are the
same over any set whose elements have a rank, such as types, items and spans of data. `Eqv` is congruence.

Assumed: only the `ASSUME`s of the modules, which TLC evaluates on the instances
(0 ∉ ChainIds is a hypothesis of the theorems, not of the module).

**Only model-checked.** Liveness and fairness (`stdio`), which the prover cannot do. The seven
invariants of CodecClient and the two of Digests: each is one statement about some thirty codecs and
formats with a grammar of their own. Those of SSZ, bencode, protobuf, asn1, Solidity declarations and EIP-712 are
written with RECURSIVE operators, which the prover does not take, in any module it reaches; so what is proved of RLP,
of bech32, of bases, of sentences and of preimages is stated of the operators (`rlp_decode`, `bech32_decode`,
`preimage`) and not of the two clients. Structs of EIP-712 are among the latter: that two of them have one hash only if they are one is model-checked, and
`TypedDataMeansOne` begins where they are hashed.

## 5. Not modelled, and why

- Toolset gating and `info`: read once, at import, no history.
- The wording of errors and answers, and how a tool reads its arguments as hex, text or
  base64 (`_to_bytes`, `_render`): one function of Python each, with no state and no choice.
- What libraries do: hashlib, cbor2, msgpack, json_repair, unicodedata, zoneinfo, argon2,
  bcrypt, the SDK, except as the code uses them. So the digests of `hash` other than the
  checksums, `hmac`, the unicode tools, base45, base58, ascii85, base85, idna.
- `time_convert`: a choice among parsers of datetime; what could go wrong in it is the
  rounding of floating-point seconds, which TLC has no numbers for.
- `random`, `id_generate`: draws from the operating system and the clock.
- The packed encoding of ABI, which nothing decodes and which is ambiguous by design;
  the rendering of amounts, addresses and of the metadata map.
- Memory and time: the tree of `_merkleize`, the recursion of the decoders.

## 6. Plan

Modelled, in order of importance: the server and its contract; signatures;
transactions; ABI; RLP; files; SSZ; bytecode; digests; then storage, names, keys
and declarations; the other serializers; base codecs, escapes and URIs; numbers and
checksums; stored passwords and derived keys.

Left to model: `action=metadata` of `eth_bytecode` past its trailer, and the other actions
of `bytes_edit`, both of little risk.

Next, to prove:
1. Of CodecClient, the next codec as recursive functions, the way AbiCodec and Rlp are
   written: SSZ. The lemmas on parts of a concatenation and on recursion by rank are there.
2. Of Digests, that structs of EIP-712 and user operations have one meaning, and slots.
3. An abstract signature store that EthSign implements.
