------------------------------- MODULE Payload -------------------------------
(***************************************************************************)
(* The encoding of a message payload together with the Solana accounts its *)
(* execution needs (programs/solana-axelar-gateway/src/payload).           *)
(*                                                                         *)
(* A sender on another chain composes the bytes and the verifiers sign     *)
(* their hash; on Solana a program decodes them, or rebuilds them from the *)
(* accounts of the transaction to compare hashes.  Both sides work only if *)
(* decoding undoes encoding, and two messages can be told apart only if no *)
(* two of them are the same bytes.                                         *)
(*                                                                         *)
(* Widths are constants: a byte is 0..Base-1, a Borsh length has LenBytes  *)
(* bytes (4 in the code), a public key and an ABI word have WordBytes (32).*)
(* ABI words are read with alloy's Decoder, which follows the offsets it   *)
(* finds; the deployed build does not compare with a re-encoding.          *)
(***************************************************************************)
EXTENDS Integers, Sequences, SequencesExt

CONSTANTS
    Base,        \* values of a byte (256)
    LenBytes,    \* bytes of a Borsh length
    WordBytes,   \* bytes of a public key and of an ABI word
    Composed,    \* the payloads senders compose
    Presented,   \* payloads relayers present beside the one they read
    Arriving     \* byte strings that may arrive from a sender of any kind

ASSUME WidthsAssumption ==
    /\ Base \in Nat /\ Base > 4
    /\ LenBytes \in Nat \ {0}
    /\ WordBytes \in Nat \ {0}

VARIABLES
    sent,    \* the payload a sender composed, as a set of at most one
    wire,    \* the bytes that were signed for
    read,    \* what decode returned: the empty set is an error
    validated  \* the payload a destination program took for the signed one

vars == <<sent, wire, read, validated>>

Schemes == {"Borsh", "AbiEncoding"}

Byte == 0..(Base - 1)

\* SolanaAccountRepr
Account == [pubkey : [1..WordBytes -> Byte], is_signer : BOOLEAN, is_writable : BOOLEAN]

\* AxelarMessagePayload: bytes and accounts under one of the schemes.
ASSUME PayloadTypes ==
    /\ Composed \subseteq [scheme : Schemes, payload : Seq(Byte), accounts : Seq(Account)]
    /\ Presented \subseteq Composed
    /\ Arriving \subseteq Seq(Byte)

\* EncodingScheme::to_u8
SchemeByte(scheme) == IF scheme = "Borsh" THEN 0 ELSE 1

-----------------------------------------------------------------------------
\* n without its i lowest bytes, for each i.
Shifted(n) == LET shifted[i \in Nat] == IF i = 0 THEN n ELSE shifted[i - 1] \div Base
              IN shifted

Fits(n, width) == Shifted(n)[width] = 0

Little(n, width) == [i \in 1..width |-> Shifted(n)[i - 1] % Base]
Big(n, width) == Reverse(Little(n, width))

FromBig(bytes) ==
    LET value[i \in 0..Len(bytes)] == IF i = 0 THEN 0 ELSE value[i - 1] * Base + bytes[i]
    IN value[Len(bytes)]
FromLittle(bytes) == FromBig(Reverse(bytes))

Bit(b) == IF b THEN 1 ELSE 0

-----------------------------------------------------------------------------
(***************************************************************************)
(* Borsh: length, payload bytes, number of accounts, accounts; an account  *)
(* is its key and one byte of flags.                                       *)
(***************************************************************************)

\* Mutant: only the signer flag is written.
EncodeSignerFlag(a) == Bit(a.is_signer)

EncodeFlags(a) == Bit(a.is_signer) + 2 * Bit(a.is_writable)

\* Mutant: any flags byte is taken.
AnyFlags(flags) == TRUE

\* The flags byte of an account has two bits.
ValidFlags(flags) == flags <= 3

\* Mutant: the flags the other way round.
SwappedAccount(entry) ==
    LET flags == entry[WordBytes + 1]
    IN [pubkey |-> SubSeq(entry, 1, WordBytes),
        is_signer |-> flags \div 2 = 1, is_writable |-> flags % 2 = 1]

\* SolanaAccountRepr::deserialize_reader
DecodeAccount(entry) ==
    LET flags == entry[WordBytes + 1]
    IN [pubkey |-> SubSeq(entry, 1, WordBytes),
        is_signer |-> flags % 2 = 1, is_writable |-> flags \div 2 = 1]

\* SolanaAccountRepr::serialize
EncodeAccount(a) == Append(a.pubkey, EncodeFlags(a))

EncodeAccounts(accounts) ==
    Little(Len(accounts), LenBytes)
        \o FlattenSeq([i \in 1..Len(accounts) |-> EncodeAccount(accounts[i])])

EncodeBorsh(p) == Little(Len(p.payload), LenBytes) \o p.payload \o EncodeAccounts(p.accounts)

AccountSize == WordBytes + 1

Entry(bytes, i) ==
    SubSeq(bytes, LenBytes + (i - 1) * AccountSize + 1, LenBytes + i * AccountSize)

\* try_from_slice on the bytes after the payload: all of them must be used.
DecodeAccounts(bytes) ==
    LET count == FromLittle(SubSeq(bytes, 1, LenBytes))
    IN IF /\ Len(bytes) >= LenBytes
          /\ Len(bytes) = LenBytes + count * AccountSize
          /\ \A i \in 1..count : ValidFlags(Entry(bytes, i)[AccountSize])
       THEN {[i \in 1..count |-> DecodeAccount(Entry(bytes, i))]}
       ELSE {}

\* decode_borsh: the payload is cut out by its length, the accounts follow.
DecodeBorsh(data) ==
    LET length == FromLittle(SubSeq(data, 1, LenBytes))
    IN IF Len(data) >= LenBytes /\ LenBytes + length <= Len(data)
       THEN {[scheme |-> "Borsh", payload |-> SubSeq(data, LenBytes + 1, LenBytes + length),
              accounts |-> a] : a \in DecodeAccounts(SubSeq(data, LenBytes + length + 1, Len(data)))}
       ELSE {}

-----------------------------------------------------------------------------
(***************************************************************************)
(* ABI: two offsets, then the length and padded bytes of the payload, then *)
(* the number of accounts and three words for each.                        *)
(***************************************************************************)

Word(n) == Big(n, WordBytes)

\* Bytes of a slice rounded up to whole words.
Padded(length) == ((length + WordBytes - 1) \div WordBytes) * WordBytes

\* The bytes of the payload behind their number, filled up with zeros.
EncodeSlice(payload) ==
    Word(Len(payload)) \o payload
        \o [i \in 1..(Padded(Len(payload)) - Len(payload)) |-> 0]

EncodeEntry(a) == a.pubkey \o Word(Bit(a.is_signer)) \o Word(Bit(a.is_writable))

EncodeTable(accounts) ==
    Word(Len(accounts)) \o FlattenSeq([i \in 1..Len(accounts) |-> EncodeEntry(accounts[i])])

\* encode_abi_encoding
EncodeAbi(p) ==
    Word(2 * WordBytes) \o Word(2 * WordBytes + Len(EncodeSlice(p.payload)))
        \o EncodeSlice(p.payload) \o EncodeTable(p.accounts)

WordAt(data, offset) == FromBig(SubSeq(data, offset + 1, offset + WordBytes))

\* A signer or writable word is zero or one.
IsBool(word) == word <= 1

\* Three words: key, signer, writable.
ValidEntry(data, entry) ==
    IsBool(WordAt(data, entry + WordBytes)) /\ IsBool(WordAt(data, entry + 2 * WordBytes))

DecodeEntry(data, entry) ==
    [pubkey |-> SubSeq(data, entry + 1, entry + WordBytes),
     is_signer |-> WordAt(data, entry + WordBytes) = 1,
     is_writable |-> WordAt(data, entry + 2 * WordBytes) = 1]

\* extract_payload_slice_and_solana_accounts
DecodeAbi(data) ==
    LET Has(offset, bytes) == offset + bytes <= Len(data)
        start == WordAt(data, 0)
        length == WordAt(data, start)
        slice == start + WordBytes
        table == WordAt(data, WordBytes)
        count == WordAt(data, table)
        entry(i) == table + WordBytes + (i - 1) * (3 * WordBytes)
    IN IF /\ Has(0, 2 * WordBytes)
          /\ Has(start, WordBytes) /\ Has(slice, Padded(length))
          /\ \A i \in (slice + length + 1)..(slice + Padded(length)) : data[i] = 0
          /\ Has(table, WordBytes) /\ Has(entry(1), count * (3 * WordBytes))
          /\ \A i \in 1..count : ValidEntry(data, entry(i))
       THEN {[scheme |-> "AbiEncoding", payload |-> SubSeq(data, slice + 1, slice + length),
              accounts |-> [i \in 1..count |-> DecodeEntry(data, entry(i))]]}
       ELSE {}

-----------------------------------------------------------------------------
\* ABI words are wider than any length in memory.
ASSUME WordsAreWide ==
    \A p \in Composed : p.scheme = "AbiEncoding" => Fits(Len(EncodeAbi(p)), WordBytes)

\* borsh::to_writer fails on a slice or list whose length has too many bytes.
Encodable(p) ==
    p.scheme = "Borsh" =>
        Fits(Len(p.payload), LenBytes) /\ Fits(Len(p.accounts), LenBytes)

\* AxelarMessagePayload::encode
Encode(p) ==
    <<SchemeByte(p.scheme)>> \o (IF p.scheme = "Borsh" THEN EncodeBorsh(p) ELSE EncodeAbi(p))

\* AxelarMessagePayload::decode: no first byte, or an unknown one, is an error.
Decode(bytes) ==
    UNION {IF s = "Borsh" THEN DecodeBorsh(Tail(bytes)) ELSE DecodeAbi(Tail(bytes)) :
             s \in {t \in Schemes : bytes # <<>> /\ bytes[1] = SchemeByte(t)}}

Init ==
    /\ sent = {}
    /\ wire = <<>>
    /\ read = {}
    /\ validated = {}

\* A sender composes a payload with this library.
Compose(p) ==
    /\ Encodable(p)
    /\ sent' = {p}
    /\ wire' = Encode(p)
    /\ UNCHANGED <<read, validated>>

\* Bytes arrive that some other software wrote.
Arrive(bytes) ==
    /\ wire' = bytes
    /\ UNCHANGED <<sent, read, validated>>

\* The receiving program decodes them.
Read ==
    /\ read = {}
    /\ read' = Decode(wire)
    /\ UNCHANGED <<sent, wire, validated>>

\* validate_message: the program encodes the bytes it is handed with the accounts of
\* the transaction; the hash must be the signed one, and the message is then marked
\* as executed, once.
Validate(p) ==
    /\ validated = {}
    /\ Encodable(p)
    /\ Encode(p) = wire
    /\ validated' = {p}
    /\ UNCHANGED <<sent, wire, read>>

\* One message is signed for.
Send ==
    /\ wire = <<>>
    /\ \/ \E p \in Composed : Compose(p)
       \/ \E bytes \in Arriving : Arrive(bytes)

Next ==
    \/ Send
    \/ Read
    \/ \E p \in Presented \cup read : Validate(p)

Spec == Init /\ [][Next]_vars

-----------------------------------------------------------------------------
\* What a sender composes can be read and is read as composed: payload bytes,
\* the order of the accounts, and each signer and writable flag
\* (decode undoes encode for both schemes).
ReadAsSent ==
    (sent # {}) => (read \subseteq sent /\ Decode(wire) # {})

\* A program that only compares hashes runs with the payload and the accounts, flags
\* included, that anyone reads out of the signed bytes, whichever payload a relayer
\* presents and whoever wrote the bytes: an ABI string with unusual offsets, which
\* the deployed decoder reads although it is nobody's encoding, is validated as
\* nothing (abi.rs compares with a re-encoding in debug builds only).
ValidatedIsSigned ==
    \A p \in validated : Decode(wire) = {p} /\ (sent # {} => p \in sent)

\* Borsh bytes that decode are the only encoding of what they decode to: no
\* spare bit in the flags, no byte left over.  So a program that rebuilds the
\* bytes from decoded accounts and payload gets the signed hash back.
BorshIsCanonical ==
    \A p \in read : p.scheme = "Borsh" => Encode(p) = wire
=============================================================================
