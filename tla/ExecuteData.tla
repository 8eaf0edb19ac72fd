----------------------------- MODULE ExecuteData -----------------------------
(***************************************************************************)
(* The execute data that a prover builds off chain and relayers bring to   *)
(* the gateway (crates/solana-axelar-std), and the Merkle and signature    *)
(* checks the gateway applies to each piece of it.                         *)
(*                                                                         *)
(* Hashes are free terms: the hash of a leaf is the leaf under a tag, the  *)
(* hash of an inner node is the pair of its children under another tag, so *)
(* two hashes are equal exactly when the code hashes the same bytes.  A    *)
(* relayer is free to present any leaf with any list of hashes it can take *)
(* from the tree.                                                          *)
(*                                                                         *)
(* Gateway.tla starts where this module ends: its LeavesAssumption (the    *)
(* leaves that prove against a root are the leaves of one tree) is what    *)
(* AcceptedWereEncoded establishes here.                                   *)
(***************************************************************************)
EXTENDS Integers, Sequences, FiniteSets, Functions

CONSTANTS
    Messages,          \* cross-chain messages
    VerifierKeys,      \* public keys, natural numbers: the order of the BTreeMap
    VerifierSets,      \* [nonce, signers : key -> weight, quorum] records
    Payloads,          \* the payloads verifiers are asked to sign
    DomainSeparators,  \* domain separators of this and other gateways
    DomainSeparator,   \* the one in this gateway's configuration
    U16Max,            \* u16::MAX, the largest set size
    SlotCount          \* bits of signature_slots (256 in the code)

IsBatch(payload) == "messages" \in DOMAIN payload

\* A verifier set: its members are keys, finitely many, each with a weight.
IsVerifierSet(v) ==
    /\ v = [nonce |-> v.nonce, signers |-> v.signers, quorum |-> v.quorum]
    /\ v.signers = [k \in DOMAIN v.signers |-> v.signers[k]]
    /\ IsFiniteSet(DOMAIN v.signers) /\ DOMAIN v.signers \subseteq VerifierKeys

ASSUME ExecuteDataAssumption ==
    /\ VerifierKeys \subseteq Nat
    /\ \A v \in VerifierSets : IsVerifierSet(v)
    /\ \A p \in Payloads :
          IF IsBatch(p) THEN p = [messages |-> p.messages] /\ p.messages \in Seq(Messages)
          ELSE p = [verifier_set |-> p.verifier_set] /\ IsVerifierSet(p.verifier_set)
    /\ DomainSeparator \in DomainSeparators
    /\ U16Max \in Nat /\ SlotCount \in Nat

VARIABLES
    source,    \* the arguments of encode, once it has succeeded
    data,      \* the ExecuteData it produced
    accepted,  \* message leaves the gateway accepted against the payload root
    counted    \* signatures it counted, per payload type of the session

vars == <<source, data, accepted, counted>>

NoData == [encoded |-> FALSE]

PayloadTypeOf(payload) ==
    IF IsBatch(payload) THEN "ApproveMessages" ELSE "RotateSigners"

-----------------------------------------------------------------------------
(***************************************************************************)
(* Hashing.                                                                *)
(***************************************************************************)

\* Mutant: a digest that leaves out where the leaf sits and in how large a tree.
UnplacedLeafHash(leaf) ==
    [leaf |-> [f \in DOMAIN leaf \ {"position", "set_size"} |-> leaf[f]]]

\* Mutant: a digest that leaves out how large the tree is.
UnsizedLeafHash(leaf) == [leaf |-> [f \in DOMAIN leaf \ {"set_size"} |-> leaf[f]]]

\* LeafHash::hash: the unambiguous encoding names every field of the leaf.
LeafHash(leaf) == [leaf |-> leaf]

\* Hasher::concat_and_hash; the prefix byte keeps nodes apart from leaves.
ConcatAndHash(left, right) == [left |-> left, right |-> right]

\* A layer's parents; a node without a right sibling is paired with itself.
ParentLayer(layer) ==
    [i \in 1..((Len(layer) + 1) \div 2) |->
        ConcatAndHash(layer[2 * i - 1],
                      IF 2 * i <= Len(layer) THEN layer[2 * i] ELSE layer[2 * i - 1])]

\* Layers above the leaves; even a tree of one leaf has one.
TreeDepth(size) ==
    IF size <= 1 THEN size ELSE CHOOSE d \in 1..size : 2^(d - 1) < size /\ size <= 2^d

\* merkle_tree, as the function from heights to layers of hashes.
MerkleTree(leaves) ==
    LET layer[h \in 0..TreeDepth(Len(leaves))] ==
            IF h = 0 THEN [i \in 1..Len(leaves) |-> LeafHash(leaves[i])]
            ELSE ParentLayer(layer[h - 1])
    IN layer

Root(tree) == tree[TreeDepth(Len(tree[0]))][1]

\* Where the path from a position to the root passes height h, and beside what.
Index(position, h) == position \div 2^h

SiblingIndex(position, h) ==
    LET index == Index(position, h) IN IF index % 2 = 0 THEN index + 1 ELSE index - 1

\* The sibling at height h, where there is one.
Sibling(tree, position, h) ==
    IF SiblingIndex(position, h) < Len(tree[h])
    THEN <<tree[h][SiblingIndex(position, h) + 1]>> ELSE <<>>

\* The siblings on the path from a position to the root.
Proof(tree, position) ==
    LET depth == TreeDepth(Len(tree[0]))
        siblings[h \in 0..depth] ==
            IF h = depth THEN <<>> ELSE Sibling(tree, position, h) \o siblings[h + 1]
    IN siblings[0]

\* The last of an odd number of nodes at height h has no sibling.
Alone(position, size, h) ==
    LET width == (size + 2^h - 1) \div 2^h
    IN width % 2 = 1 /\ Index(position, h) = width - 1

\* The node above a node and the hash it is given for its sibling.
Join(position, h, own, other) ==
    IF Index(position, h) % 2 = 0 THEN ConcatAndHash(own, other) ELSE ConcatAndHash(other, own)

\* From the hash at height h, and the hashes of the proof not used yet, to the next.
ClimbStep(position, size, h, c) ==
    IF Alone(position, size, h)
    THEN [known |-> c.known, hash |-> ConcatAndHash(c.hash, c.hash), rest |-> c.rest]
    ELSE IF c.rest = <<>> THEN [known |-> FALSE, hash |-> c.hash, rest |-> <<>>]
    ELSE [known |-> c.known, hash |-> Join(position, h, c.hash, Head(c.rest)), rest |-> Tail(c.rest)]

\* The hash computed at each height from the claimed position in a tree of the
\* claimed size.
Climb(position, hash, size, proof) ==
    LET climb[h \in 0..TreeDepth(size)] ==
            IF h = 0 THEN [known |-> TRUE, hash |-> hash, rest |-> proof]
            ELSE ClimbStep(position, size, h - 1, climb[h - 1])
    IN climb

\* MerkleProof::verify: running out of hashes fails, hashes left over are ignored,
\* and the position is not compared with the size.
Verify(root, position, hash, size, proof) ==
    LET top == Climb(position, hash, size, proof)[TreeDepth(size)]
    IN size > 0 /\ top.known /\ top.hash = root

-----------------------------------------------------------------------------
(***************************************************************************)
(* Leaves.                                                                 *)
(***************************************************************************)

\* message.rs merkle_tree_leaves
MessageLeaves(messages, domain) ==
    [i \in 1..Len(messages) |->
        [message |-> messages[i], position |-> i - 1, set_size |-> Len(messages),
         domain_separator |-> domain]]

\* The elements of a finite set of numbers, least first.
InOrder(S) ==
    [i \in 1..Cardinality(S) |-> CHOOSE k \in S : Cardinality({j \in S : j < k}) = i - 1]

\* verifier_set.rs merkle_tree_leaves; the BTreeMap iterates in key order.
VerifierLeaves(set, domain) ==
    LET keys == InOrder(DOMAIN set.signers)
    IN [i \in 1..Len(keys) |->
          [nonce |-> set.nonce, quorum |-> set.quorum, signer_pubkey |-> keys[i],
           signer_weight |-> set.signers[keys[i]], position |-> i - 1,
           set_size |-> Len(keys), domain_separator |-> domain]]

\* verifier_set_hash
VerifierSetHash(set, domain) == Root(MerkleTree(VerifierLeaves(set, domain)))

\* SetSizeTooLarge and CannotMerklizeEmpty...: what can be merklized.
Merklizable(leaves) == Len(leaves) \in 1..U16Max

PayloadLeaves(payload, domain) ==
    IF IsBatch(payload) THEN MessageLeaves(payload.messages, domain)
    ELSE VerifierLeaves(payload.verifier_set, domain)

\* hash_payload: the root verifiers sign, of a batch or of the next verifier set.
HashPayload(payload, domain) ==
    IF IsBatch(payload) THEN Root(MerkleTree(MessageLeaves(payload.messages, domain)))
    ELSE VerifierSetHash(payload.verifier_set, domain)

\* The items of the payload: merklized messages; a rotation has only its root.
MerklizedPayload(payload, domain) ==
    LET leaves == PayloadLeaves(payload, domain)
    IN IF IsBatch(payload)
       THEN [i \in 1..Len(leaves) |->
                [leaf |-> leaves[i], proof |-> Proof(MerkleTree(leaves), leaves[i].position)]]
       ELSE <<>>

\* Mutant: a digest without the intent of the signer.
UntypedMessageHash(payload_type, root) == [offchain |-> root]

\* prefixed_message_hash_payload_type: what a verifier signs.
PrefixedMessageHash(payload_type, root) ==
    [payload_type |-> payload_type, offchain |-> root]

\* The signature a verifier makes over the payload it was asked to sign.
Signature(key, payload, domain) ==
    [signer |-> key,
     digest |-> PrefixedMessageHash(PayloadTypeOf(payload), HashPayload(payload, domain))]

\* The leaves of the members of the set that have a signature, in order.
SignedLeaves(set, signers, domain) ==
    LET leaves == VerifierLeaves(set, domain)
        signed == InOrder({i \in 1..Len(leaves) : leaves[i].signer_pubkey \in signers})
    IN [i \in 1..Len(signed) |-> leaves[signed[i]]]

\* Mutant: proofs looked up by rank among the members that signed.
InfosByRank(set, signers, domain, payload) ==
    LET tree == MerkleTree(VerifierLeaves(set, domain))
        leaves == SignedLeaves(set, signers, domain)
    IN [i \in 1..Len(leaves) |->
          [leaf |-> leaves[i], payload_type |-> PayloadTypeOf(payload),
           merkle_proof |-> Proof(tree, i - 1),
           signature |-> Signature(leaves[i].signer_pubkey, payload, domain)]]

\* SigningVerifierSetInfo of every member of the set that has a signature.
SigningVerifierSetInfos(set, signers, domain, payload) ==
    LET tree == MerkleTree(VerifierLeaves(set, domain))
        leaves == SignedLeaves(set, signers, domain)
    IN [i \in 1..Len(leaves) |->
          [leaf |-> leaves[i], payload_type |-> PayloadTypeOf(payload),
           merkle_proof |-> Proof(tree, leaves[i].position),
           signature |-> Signature(leaves[i].signer_pubkey, payload, domain)]]

-----------------------------------------------------------------------------
Init ==
    /\ source = NoData
    /\ data = NoData
    /\ accepted = {}
    /\ counted = {}

\* encode: a verifier set or a payload that cannot be merklized is an error.
Encode(set, signers, domain, payload) ==
    /\ data = NoData
    /\ Merklizable(VerifierLeaves(set, domain))
    /\ Merklizable(PayloadLeaves(payload, domain))
    /\ source' = [encoded |-> TRUE, verifier_set |-> set, signers |-> signers,
                  domain_separator |-> domain, payload |-> payload]
    /\ data' = [encoded |-> TRUE,
                signing_verifier_set_merkle_root |-> VerifierSetHash(set, domain),
                signing_verifier_set_leaves |->
                    SigningVerifierSetInfos(set, signers, domain, payload),
                payload_merkle_root |-> HashPayload(payload, domain),
                payload_items |-> MerklizedPayload(payload, domain)]
    /\ UNCHANGED <<accepted, counted>>

\* The checks of process_signature on a leaf, a proof and a signature that do not
\* depend on what was counted before; a position past the bits of signature_slots
\* is SlotIsOutOfBounds, whoever signed.
SignatureIsAccepted(leaf, proof, payload_type, signature) ==
    /\ leaf.position < SlotCount
    /\ signature.signer = leaf.signer_pubkey
    /\ signature.digest = PrefixedMessageHash(payload_type, data.payload_merkle_root)
    /\ Verify(data.signing_verifier_set_merkle_root, leaf.position,
              LeafHash(leaf), leaf.set_size, proof)

\* verify_signature: a relayer presents a leaf with a proof and a signature for
\* the session of its choice; the slot of a position is counted once per session,
\* that is per payload type.
VerifySignature(leaf, proof, payload_type, signature) ==
    /\ data.encoded
    /\ \A c \in counted : c.payload_type = payload_type => c.leaf.position # leaf.position
    /\ SignatureIsAccepted(leaf, proof, payload_type, signature)
    /\ counted' = counted \cup {[leaf |-> leaf, payload_type |-> payload_type]}
    /\ UNCHANGED <<source, data, accepted>>

\* The checks of approve_message on a leaf and a proof.
MessageIsAccepted(leaf, proof) ==
    /\ leaf.domain_separator = DomainSeparator
    /\ Verify(data.payload_merkle_root, leaf.position, LeafHash(leaf), leaf.set_size, proof)

\* approve_message: a relayer presents a message leaf with a proof.
ApproveMessage(leaf, proof) ==
    /\ data.encoded
    /\ leaf \notin accepted
    /\ MessageIsAccepted(leaf, proof)
    /\ accepted' = accepted \cup {leaf}
    /\ UNCHANGED <<source, data, counted>>

-----------------------------------------------------------------------------
(***************************************************************************)
(* What a relayer can present: any leaf, any of the hashes below a root.   *)
(***************************************************************************)

TreeHashes(leaves) == UNION {Range(MerkleTree(leaves)[h]) : h \in DOMAIN MerkleTree(leaves)}

ProofsFrom(hashes) == UNION {[1..n -> hashes] : n \in 0..TreeDepth(U16Max)}

ClaimedMessageLeaves ==
    [message : Messages, position : 0..U16Max, set_size : 0..U16Max,
     domain_separator : DomainSeparators]

\* A leaf that claims another place in another tree.
PlacedAt(leaf, position, set_size) ==
    [leaf EXCEPT !.position = position, !.set_size = set_size]

\* Leaves of any member of any set, at any place in any tree.
ClaimedVerifierLeaves ==
    LET leaves == UNION {Range(VerifierLeaves(v, d)) : v \in VerifierSets, d \in DomainSeparators}
    IN {PlacedAt(leaf, p, n) : leaf \in leaves, p \in 0..U16Max, n \in 0..U16Max}

Present ==
    /\ data.encoded
    /\ LET payload_hashes == TreeHashes(PayloadLeaves(source.payload, source.domain_separator))
           signing_hashes == TreeHashes(VerifierLeaves(source.verifier_set, source.domain_separator))
           signatures == {Signature(key, source.payload, source.domain_separator) :
                             key \in source.signers}
           message_proofs == ProofsFrom(payload_hashes)
           signer_proofs == ProofsFrom(signing_hashes)
       IN \/ \E leaf \in ClaimedMessageLeaves, proof \in message_proofs :
                ApproveMessage(leaf, proof)
          \/ \E signature \in signatures, type \in {"ApproveMessages", "RotateSigners"},
                leaf \in ClaimedVerifierLeaves, proof \in signer_proofs :
                VerifySignature(leaf, proof, type, signature)

Next ==
    \/ \E set \in VerifierSets, signers \in SUBSET VerifierKeys,
          domain \in DomainSeparators, payload \in Payloads :
            Encode(set, signers, domain, payload)
    \/ Present

Spec == Init /\ [][Next]_vars

-----------------------------------------------------------------------------
\* Whatever leaves and proofs relayers make up, the gateway takes only leaves of
\* the payload and of the verifier set that were encoded, each at its own place
\* (approve_message and process_signature check a proof against position and
\* set_size that come from the presented leaf itself).
AcceptedWereEncoded ==
    data.encoded =>
       /\ IsBatch(source.payload) =>
            accepted \subseteq Range(PayloadLeaves(source.payload, source.domain_separator))
       /\ ~IsBatch(source.payload) => accepted = {}
       /\ {c.leaf : c \in counted} \subseteq
            Range(VerifierLeaves(source.verifier_set, source.domain_separator))

\* Fewer than SlotCount members of the set come before the key.
HasSlot(set, key) == Cardinality({k \in DOMAIN set.signers : k < key}) < SlotCount

\* What encode produces passes the gateway's checks: each message of a batch made
\* for this gateway, and the signature of each member that signed, provided the
\* member has a slot.  encode serves sets of up to u16::MAX members, the session
\* only the first SlotCount of them in key order: the signatures of exactly the
\* members after those are produced and then refused.
EncodedIsAccepted ==
    data.encoded =>
       /\ source.domain_separator = DomainSeparator =>
            \A i \in DOMAIN data.payload_items :
                MessageIsAccepted(data.payload_items[i].leaf, data.payload_items[i].proof)
       /\ {info.leaf.signer_pubkey : info \in Range(data.signing_verifier_set_leaves)}
            = source.signers \cap DOMAIN source.verifier_set.signers
       /\ \A info \in Range(data.signing_verifier_set_leaves) :
            SignatureIsAccepted(info.leaf, info.merkle_proof, info.payload_type, info.signature)
            <=> HasSlot(source.verifier_set, info.leaf.signer_pubkey)

\* A signed root stands for one payload and one gateway: no other batch and no
\* verifier set hashes to it, although an odd node is paired with itself and so
\* <<m, n, n>> and <<m, n, n, n>> build trees of the same shape.
RootNamesOnePayload ==
    data.encoded =>
        \A p \in Payloads, d \in DomainSeparators :
            /\ Merklizable(PayloadLeaves(p, d))
            /\ HashPayload(p, d) = data.payload_merkle_root
            => p = source.payload /\ d = source.domain_separator

\* Signatures given for a batch of messages never count towards rotating to the
\* batch's root as if it were a verifier set, and the other way round.
CountedAsIntended ==
    \A c \in counted : c.payload_type = PayloadTypeOf(source.payload)
=============================================================================
