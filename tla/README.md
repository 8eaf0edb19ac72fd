# TLA+ verification of the Axelar Amplifier programs on Solana

This directory holds TLA+ models of the Solana programs of this repository,
TLC configurations that check them on small instances, and TLAPS proofs for
every value of the constants. `PROJECT.json` lists, in machine-readable form,
which definition models which lines, the runs, the hazards and the theorems.

Run a configuration with `tlc -config MCGateway.cfg MCGateway`, check a proof
module with `tlapm Gateway_proofs.tla`.

## 1. The system

Axelar verifiers observe messages on other chains and sign batches of them.
Relayers bring batches and signatures to Solana, where destination programs
(governance, the interchain token service, user programs) execute the messages.

| Component | State it keeps | Operations | Talks to |
|---|---|---|---|
| Gateway (`programs/solana-axelar-gateway`) | `GatewayConfig` (epoch, last rotation, operator), one `VerifierSetTracker` per verifier set, one `SignatureVerificationSessionData` per (root, payload type, set), one `IncomingMessage` per command id | initialize_config, initialize_payload_verification_session, verify_signature, approve_message, validate_message, rotate_signers, transfer_operatorship, call_contract | called by relayers; destination programs call validate_message |
| Governance (`programs/solana-axelar-governance`) | `GovernanceConfig` and its lamports, `ExecutableProposal` and `OperatorProposal` accounts | GMP commands schedule, cancel, approve, revoke; execute_timelock_proposal, execute_operator_proposal, update_config, transfer_operatorship, withdraw_tokens | gateway (validate_message), itself by CPI, the target of a proposal by CPI |
| Interchain token service (`programs/solana-axelar-its`) | `InterchainTokenService` (pause, trusted chains), `TokenManager` with `FlowState` per token id, `UserRoles` | configuration, registration of native, canonical and custom tokens, transfers out and in, flow limits, roles, mint handover | gateway, token program, gas service, ITS hub |
| Gas service (`programs/solana-axelar-gas-service`) | `Treasury` lamports | initialize, pay_gas, add_gas, collect_fees, refund_fees | reads the operator registry |
| Operator registry (`programs/solana-axelar-operators`) | `OperatorRegistry` (owner, count), one `OperatorAccount` per operator | initialize, add_operator, remove_operator, transfer_owner | read by the gas service |
| Memo (`programs/solana-axelar-memo`) | `Counter` and the tokens it owns | init, execute, execute_with_interchain_token, send_memo, send_interchain_transfer | gateway, ITS; the example of a destination program |
| Executable interface (`executable.rs` of the gateway) | none | validate_message, validate_message_raw, create_execute_instruction | part of every destination program, and of relayers |
| Payload encoding (`payload/` of the gateway) | none | encode, decode, in Borsh and ABI | senders on other chains, relayers, destination programs |
| Execute data (`crates/solana-axelar-std`) | none | encode: leaves, Merkle trees, proofs, signatures of the members that signed | built off chain, checked by the gateway |
| other `crates/` | none | governance commands, ITS messages, integer types | all programs |

A Solana instruction is atomic: it locks the accounts it names and an error
undoes everything. There is no concurrency inside an instruction. What is hard
is the order of instructions from parties that do not know of each other:

* several relayers open sessions, submit signatures, approve and execute in any
  order, twice, or long after a verifier set rotated out;
* weights saturate and one number serves both as a sum and as a marker;
* governance commands are relayed late or out of order, while the operator
  changes configuration and executes early;
* an account copied before a CPI is stale after it;
* tokens cross in both directions while limits change, epochs end, fees are
  withheld, ITS is paused and chains lose trust;
* registrations from users and from the hub race for one token id;
* operators are added and removed while money moves;
* a relayer chooses every account of the transaction that delivers a message, and
  position, tree size and proof length of every leaf it presents;
* a payload is encoded on one chain, decoded or rebuilt on another, and compared
  by its hash: both sides have to agree to the byte;
* tokens are given before the destination program runs, which may fail;
* any program may call the gateway and ITS and say who it is.

The full list, with the line where each one bites and the property that covers
it, is `hazards` in `PROJECT.json`.

## 2. Modules

| Module | What it is |
|---|---|
| `TrustedDelivery` | abstract specification of the gateway: trusted verifier sets and an inbox |
| `Gateway` | the gateway, one action per instruction |
| `Gateway_proofs` | its invariants, action property and refinement, proved |
| `Governance` | the governance program |
| `Governance_proofs` | its invariants, treasury and timelock property, proved |
| `Its` | the interchain token service with the token program it uses |
| `TokenBridge` | abstract specification of ITS: bound token ids, vaults, tokens abroad, credited transfers |
| `Its_proofs` | its invariants, flow limits, backing and credited transfers, and the refinement of `TokenBridge`, proved |
| `ExecuteData` | the encoder of execute data, and the Merkle and signature checks of the gateway |
| `ExecuteData_proofs` | what the gateway accepts and what a root stands for, proved for trees of any size |
| `Payload` | the two payload encodings, byte by byte |
| `Payload_proofs` | that decoding undoes encoding, that Borsh is canonical and encoding injective, proved for every width and length |
| `Gmp` | messages end to end: inbox, executable interface, memo program, ITS calling destination programs, `call_contract` |
| `Gmp_proofs` | its safety properties, proved |
| `Operators`, `GasService` | the registry, and the gas service that extends it |
| `GasService_proofs` | the operator count and the treasury, proved |
| `Sums` | lemmas: induction and recursion on naturals, sums over finite sets, quotients |
| `MCGateway`, `MCGovernance`, `MCIts`, `MCExecuteData`, `MCPayload`, `MCGmp`, `MCGasService` | instances for TLC |

`GasService` composes two programs: its `Next` interleaves instructions of the
registry with those of the gas service, which reads the registry's accounts.
`Governance` and `Its` take from `Gateway` that an approved message is executed
at most once: it is the variable `validated`, and `ImplementsTrustedDelivery`
is the property of `Gateway` that justifies it. `Gmp` contains the inbox itself:
it instantiates `TrustedDelivery` for the gateway and composes it with the memo
program and ITS. `ExecuteData` justifies what `Gateway` assumes of leaves, that
those provable under a root are the leaves of one tree; `Payload` justifies that
`Gmp` takes a payload for its hash.

### Conventions

* An instruction is one action. Account constraints and early returns are its
  guard; writes at the end of the handler are part of it. An instruction that
  fails is a stuttering step.
* `init` is "the account does not exist yet", `close` makes it not exist.
* Variables marked *observation only* are history: no guard reads them. They
  let a property speak of earlier states.
* A definition commented *Mutant* is a plausible bug. It is not part of the
  model; it replaces the definition after it to show that a property notices.
* Cryptography is the facts it establishes: which leaves are provable under a
  root, which signatures exist, which hash belongs to which data. Hashes do not
  collide.

### Gateway

| TLA+ | code |
|---|---|
| `config`, `tracker`, `session`, `incoming` | `GatewayConfig`, `VerifierSetTracker` (0: no account), `SignatureVerificationSessionData`, `IncomingMessage` |
| `VerifySignature` with `SlotIsFree`, `CountSignature`, `AccumulateThreshold` | `process_signature` and its helpers |
| `LiveVerifierSet` | tracker account plus `assert_valid_epoch` |
| `RotateSigners(s, signer)` | the optional operator account is `signer`, or `NoAccount` |

`SlotCount` stands for the 256 bits of `signature_slots`, `U128Max` for
`U128::MAX`. `Weight` is the sum of signer weights of a set of leaves, given by
its equations so that proofs need no induction. The assumption on leaves, one
quorum and distinct positions per verifier set, is how
`crates/solana-axelar-std` builds them.

### Governance

A proposal is identified with its hash. Its CPI is one of three kinds: to another
program, `transfer_operatorship`, or `withdraw_tokens`. `AcceptCommand` is
`execute_handler` up to the self-CPI and is a conjunct of the four command
actions, so the gateway's mark and the effect happen together.
`AnchorExit` is Anchor's write-back of an account at the end of an instruction,
modelled from how the handlers declare `governance_config`.

### Interchain token service

The manager of token `t` and its token account are named `t`. `TokenOrigin` says
what a token id was hashed from, which decides who may register it. The SPL
actions (`SplTransfer`, `SplMint`, `SplBurn`, `SplSetAuthority`) are what owners
do without the service. A transfer fee is any value of `Fees`, chosen anew at each
transfer. `window`, `ledger` and `issued` observe what crossed in the current
epoch, what was sent and received in total, and what supply is from elsewhere.
`Execute` follows the code in comparing the message's source address with the
configured hub address and the inner source chain with the trusted chains.

`TokenBridge` is what the service promises to other chains. Under the mapping
`Bridge` at the end of `Its.tla` a registration is a `Bind` (once per token id), an
outbound transfer a `Send` of the amount the hub is told, a hub message a `Receive`
of the amount it names, both moving the vault by that amount if the token is
locked here; tokens sent to the vault without the service are a `Donate`. A hub
message may name another token's manager as the destination: `Receive` lets other
vaults grow, by no more than the amount, and none shrink. The token's own manager is
no destination, since the vault would be two mutable accounts of one instruction,
which Anchor refuses; that is the guard `m.principal # t`.

### Execute data

Hashes are free terms with distinct tags for leaves and inner nodes, so two hashes
are equal exactly when the code hashes the same bytes. `MerkleTree`, `Proof` and
`Verify` follow rs_merkle as the code uses it: a node without sibling is paired
with itself, the tree size given to `verify` decides which levels
consume a proof hash, a size of 0 never verifies, and surplus proof hashes are
ignored. `Climb` is the hash that `verify` has computed at each height, `InOrder` the
order in which a `BTreeMap` iterates. In `ApproveMessage` and `VerifySignature` the
relayer presents any leaf with any position and size and any proof built from hashes of
the tree. `SlotCount` stands for the 256 bits of `signature_slots`, as in `Gateway`:
`encode` serves sets of up to `u16::MAX` members and produces signatures of all who
signed, and the session refuses those at a position past the last slot with
`SlotIsOutOfBounds`. `EncodedIsAccepted` says so: a produced signature is accepted
exactly if its signer has a slot.

### Payload

`Base`, `LenBytes` and `WordBytes` stand for 256, 4 and 32. A sender composes a
payload (`Compose`), or bytes arrive that this library did not write. Borsh is
modelled with its trailing-byte and flag checks; the ABI decoder follows offsets as
alloy does, and the comparison with a re-encoding is left out because the code
makes it in debug builds only. `Encodable` is the guard of `Compose`: `borsh::to_writer`
returns an error for a slice or a list whose length does not fit in a `u32`. ABI words
are 32 bytes wide and hold every length there is in memory, which is the assumption
`WordsAreWide`. `Validate` is the other way of receiving: the program encodes what the
relayer presents (any member of `Presented`, or what the signed bytes decode to) and
compares hashes.

| TLA+ | code |
|---|---|
| `Little`, `FromLittle`, `Fits` | the length prefix of Borsh |
| `Word`, `WordAt`, `Padded` | words of alloy and its padding of byte slices |
| `EncodeAccount`, `ValidFlags`, `DecodeAccount` | `serialize` and `deserialize_reader` of `SolanaAccountRepr` |
| `EncodeBorsh`, `DecodeBorsh` | `encode_borsh`, `decode_borsh` |
| `EncodeAbi`, `DecodeAbi` | `encode_abi_encoding`, `extract_payload_slice_and_solana_accounts` |
| `Encode`, `Decode` | `AxelarMessagePayload::encode`, `decode` |
| `Validate` | `validate_message` up to the comparison in `validate_message_raw`; `validated` is the gateway's mark |
| `wire` | the bytes whose hash the verifiers sign |

### General message passing

| TLA+ | code |
|---|---|
| `inbox` | the gateway's `IncomingMessage` accounts, by `TrustedDelivery` |
| `FindPda(p, seeds)` | `find_program_address`; the term ends in the bump it appended |
| `Signs(a, w, via)` | the signatures a CPI carries: the wallet's, and PDAs of the calling program |
| `MemoExecute`, `MemoExecuteWithInterchainToken` | the memo program behind `executable_accounts!` and ITS |
| `ItsExecute` with `InvokeDestinationProgram` | execute of ITS for a transfer, the token movement and the CPI in one transaction |
| `Deliver(m)` | a relayer tries any accounts and instruction data with message `m` |
| `Relay(m)` | the transaction that the relayer helpers of the repository build for `m` |
| `SourceAddress` | how ITS decides whom a transfer comes from; `SeedOptions` are its optional seeds, `{}` is `None` |

A transaction that fails at any point, in the destination program too, is no step:
the message stays approved and the tokens stay where they were.

### Gas service and registry

`PayGas` and `AddGas` move lamports alike and differ in their events, as do
`CollectFees` and `RefundFees`.

## 3. Runs

| Run | Instance | Checks |
|---|---|---|
| `gateway` | three verifier sets that share keys, one whose weights overflow, one with a slot out of bounds; three messages, two with one command id; seven sessions, among them a batch root offered as a verifier set; operator and upgrade authority | `TypeOK`, `SessionAccounting`, `EpochChain`, `RotationRate`, `ExpiryIsFinal`, `ImplementsTrustedDelivery` |
| `gateway_live` | one rotation, conflicting batches, a batch of another gateway | `EndorsedMessagesAreExecuted` |
| `governance` | a proposal scheduled twice with all four commands, one that pays and withdraws, commands of another chain and with an oversized ETA | `TypeOK`, `Settlement`, `Treasury`, `TimelockHolds`, `PendingProposalsAreSettled` |
| `governance_operator` | one proposal that transfers the operatorship | operatorship transferred by a proposal |
| `its_flow` | a canonical token with transfer fees, limits 1, 2 or none, two epochs, counters that can overflow | `TypeOK`, `Backing`, `FlowLimitHolds`, `CreditedOnce` |
| `its_roles` | a native token of a user or of the hub, two accounts, mints, burns and transfers | `Backing`, `RolesAreUnique` |
| `its_shared_mint` | two custom managers of any types on one mint that charges fees and whose authority moves, one registered by the hub too; hub transfers to the address of the other manager and to the token's own | `Backing`, `RolesAreUnique`, `RegistrationIsFinal`, `ImplementsTokenBridge` |
| `execute_data` | batches of up to four messages with repetitions, one too long, rotations to sets of none, two and three members; two domains; every subset of three verifiers signs, for a set of one, one of three with two slots, and one of none | `AcceptedWereEncoded`, `EncodedIsAccepted`, `RootNamesOnePayload`, `CountedAsIntended` |
| `payload` | payloads of up to three bytes with up to two accounts in both schemes, one too long for Borsh, and every string of up to nine bytes; relayers present one account with any flags | `ReadAsSent`, `BorshIsCanonical`, `ValidatedIsSigned` |
| `gmp` | thirteen memos and transfers, seven of them unacceptable, four or five to a command id; one message out by wallets and programs, to a trusted chain or not, to an address or none | `MemosCountedOnce`, `TokensGoWhereSigned`, `SendersAreAuthentic`, `AcceptableMessagesArrive` |
| `gmp_memo_sends` | as `gmp`, with the memo program sending | a comment that the code does not follow |
| `gas_service` | four accounts, count limit 3, six lamports | `OperatorsAreCounted`, `TreasuryBalances` |

What the properties say is in the comment above each of them.

**Bounds.** `MaxTime`, `MaxPaid`, `MaxSent` and the finite message sets bound the
state spaces. They are large enough for every action to fire and for the case a
property is about to occur: rotations across retention and delay in `gateway`
(three epochs, retention 2), a second scheduling after settlement in
`governance`, two epochs of flow and a counter overflow in `its_flow`, a count
overflow and an exhausted treasury in `gas_service`. Trees of four leaves
(`execute_data`) have an unpaired node on one level (three leaves) and full levels
(two and four), and every proof shape for a presented size up to `U16Max`; with two
slots the third member of a set is the first without one. In
`payload` five values of a byte are the least that has an invalid flag byte, and nine
bytes hold a Borsh payload with one account and one byte more. `MaxOut` in
`gmp` is one: whether a sender is authentic is decided per message, and tokens that
came in can go out. `CHECK_DEADLOCK FALSE` is
set because a bounded instance ends when all messages are executed and the clock
has reached its bound; the programs themselves may be idle for ever.
`gas_service` uses symmetry on accounts and `execute_data` on messages, which their
constants do not tell apart.

**Fairness.** `gateway_live` assumes weak fairness of the permissionless
instructions: somebody opens sessions, submits existing signatures, approves, and
calls the destination program. This is the job of relayers, and the code lets
anyone do it. Rotations, operator actions and the clock are not fair.
`governance` assumes weak fairness of the clock and of `ExecuteTimelockProposal`,
which anyone may call. Commands and the operator are not fair.
`gmp` assumes weak fairness of `Relay(m)` for each message: somebody keeps
submitting the transaction the helpers build, as anyone may. Approvals, the pause
flag and `init` of the memo program are not fair, hence the premise that the
programs stay ready.

### What the violation runs show

* `governance_operator`: `transfer_operatorship` accepts `governance_config` as
  signer, which is possible only as the CPI of a proposal. Both execution
  instructions hold a mutable copy of `governance_config` made before the CPI,
  and write it back when they end, so the operator the CPI stored is lost.
* `gmp_memo_sends`: `send_interchain_transfer` of the memo program passes the seeds
  it signs with, bump included, and ITS searches for a bump of its own on top of
  them, so the derived address is never the counter account and the instruction
  always fails. ITS says that it is enough that the PDA "is derived correctly and
  that it's a signer", which is the case.

Two more comments differ from the code and are not worth a run. The one on
`signing_verifier_set_hash` says the first valid signature sets it; it is set when
the session is opened and signatures are compared with it, which is stricter. The
documentation of `Type::LockUnlock` says only one such manager can exist for a
token; the registrations check the token id and not the mint, so a mint can have
several, and `its_shared_mint` shows that each stays backed.

## 4. Proofs

The theorems hold for every value of the constants that satisfies the named
assumptions of the modules, with no bound on sets, and clock bounds arbitrary.

**Gateway.** `IInv` is `TypeOK`, `SessionAccounting`, `EpochChain`,
`RotationRate` and `Consistency`. `Consistency` is what they need of each other:
nothing exists before initialization, every open session names a set that has a
tracker, and recorded times are in the past. `SessionAccounting` is inductive
because a new slot adds exactly one leaf to `CountedLeaves`
(`CountedLeavesGrow`), so `Weight` grows by that leaf's weight, and a sum that
saturates has reached the quorum. `EpochChain` uses that a valid session is a
quorum (`ValidSessionHasQuorum`). From `Invariance` follow `SessionsAreExact`,
`EpochsAreChained`, `RotationsAreRateLimited`, `ExpiryHolds` and `Refinement`.
The refinement maps roots with a tracker to `trusted` and `incoming` to `inbox`;
a rotation is an `Appoint`, an approval an `Approve`, and session steps stutter.

**Governance.** `IInv` is `TypeOK`, `Settlement` and `EtaCoversTerms`: the ETA of
an open proposal is at least the requested one and at least scheduling time plus
the delay of that time. `EtaCoversTerms` is what makes `TimelockHolds`
inductive although the delay changes later. `TreasuryHolds` has an invariant of its
own, `TreasuryInv`: the balance is the rent plus the sum of what each proposal
contributed, and nothing moved before initialization. A step changes the
contribution of at most one proposal, and `SumChange` of `Sums` says what that does
to the sum. It assumes that the proposals are finitely many; those that ever occur
are.

**Interchain token service.** `IInv` has one part per question.

* `RolesAreUnique` is inductive with the types and with what accounts that do not
  exist look like (`ClosedIsBlank`, `MissingIsBlank`).
* `FlowLimitHolds` needs `FlowsAgree`: wherever the epoch has had a limit, the current
  limit is no weaker than the weakest one observed, and the counters, reset if their
  epoch is over, are the observed flows. The counters themselves may be those of an
  earlier epoch, which is why the reset is part of the invariant.
* `Backing` follows from `VaultsCover` (a locking manager's vault holds what is
  abroad, whatever fees were withheld) and `SuppliesAgree` (the supply of a mint is
  what was issued here less what its authority has abroad). The latter is inductive
  only with `IdleWithoutAuthority`: a manager that would mint but is not the
  authority of its mint has moved nothing, so that a handover of the authority
  changes no sum.

`RegistrationFinal` is the action property, from `ManagerStays`.
`TransfersCreditedOnce` adds `CreditedInv`: a transfer enters the set of executed
messages and the ledger in one step, and only once.

**Token bridge.** The second part of `Its_proofs` shows that an initial state of `Its` maps to
one of `TokenBridge`, and that each step maps to a step or a stutter:
registrations to `Bind` (a custom registration may find tokens in the account that
becomes the vault, so `Bind` allows any content), transfers to `Send` and
`Receive` (whose recipient may be another vault, which gets the amount less the fee),
mints and SPL transfers into a vault to `Donate`. The steps need `TypeOK`
and `ClosedIsBlank` only: a vault that cannot pay is refused by the token program.

**Messages end to end.** `IInv` of `Gmp_proofs` is `TypeInv`, `OnlyAcceptable`,
`MemosCountedOnce`, `TokensGoWhereSigned` and `OutboxInv`. `Deliver` tries
arbitrary accounts and data, so the proof first shows what a delivery that succeeds
has done (`MemoStep`, `TokenStep`) and only then counts. The assumptions:
`GmpNames`, wallets are not program-derived addresses (those are off the curve, by
construction) and the programs differ; `GmpMessages`, finitely many messages, optional
data is at most one value, account lists are sequences. `OthersNeverExecuted` states
the safety half of `AcceptableMessagesArrive`.

**Execute data.** All four properties are proved for trees, sets and batches of any
size. `IInv` says that the data stays what `encode` made of its arguments and that
what was accepted and counted are its leaves. The lemmas on trees carry the weight:

* `VerifiedIsLeaf`: a leaf that verifies with any claimed position, size and proof is a
  leaf of the tree. Going down from the root, the hash that the climb has at a height
  is a node of the tree at some height; a leaf hash is no node hash, so both end
  together. It needs no bound on position and size, which the code does not compare
  either.
* `RootNamesLeaves`: equal roots have equal leaves. The leftmost paths end at once, so
  the depths agree and the first leaves are equal (`SameFirstLeaf`). These carry the
  size, so the sizes agree. Layer by layer the hashes of one tree are hashes of the
  other (`SameHashes`), and since every leaf names its position, so are the leaves
  position by position. That is what makes pairing an odd node with itself harmless.
* `ProofVerifies`: the proof that the tree makes is the one `verify` consumes. Both
  follow the path `position \div 2^h`; `PathUp` says that a node on it has a sibling in
  the tree exactly when `Alone` denies it for the same size, so the hashes are taken
  at the heights where they were put (`ClimbsPath`). `EncodedAccepted` adds that a
  member's position is the number of keys before its own (`InOrderLists`), so the
  slot check of the gateway separates the members by `HasSlot`, for every `SlotCount`.

`ExecuteDataAssumption` gives payloads and verifier sets the shapes of their Rust
types: a `Vec` of messages, or a record with a finite map from keys to weights. That
hashes are free terms is the assumption that keccak does not collide.

**Payload.** `IInv` of `Payload_proofs` says that the wire holds bytes, that they are
the encoding of what was composed if anything was, that what was read was
decoded from them, and that they decode to what was validated and to nothing else. It is inductive because a composed payload has at least one byte,
so nothing is composed or arrives on top of it. `ReadsAsSent` and `BorshCanonical`
follow from two facts about the operators, for every `Base` above 4, every width of
lengths and words and payloads and account lists of any length:

* `EncodeReadsBack`: `Decode(Encode(p)) = {p}`. Numbers first: the value that `FromBig`
  has after i bytes of `Big(n, w)` is `n` without its last w - i bytes
  (`BigReadsBack`), so it ends in `n` exactly when `n` fits in w bytes. Then places: `Holds(data, offset,
  piece)` says where a field is; a field of a field is found at the sum of the offsets
  (`HoldsWithin`), cutting it out gives it back (`CutPiece`), and the entries of a list
  all have one size and are found at its multiples (`FlattenIs`). For ABI every offset
  and length is at most the length of the whole, so it fits in a word (`LessFits`).
* `EncodeWritesBack`: `Encode(p) = bytes` for each `p` in `Decode(bytes)` with the Borsh
  scheme, whoever wrote the bytes. Bytes are the bytes of the number they are read as
  (`LittleWritesBack`), a flags byte up to 3 is the flags it is read as
  (`AccountWritesBack`), and length, payload and accounts leave no byte over
  (`SamePieces`). There is no such fact for ABI: the decoder follows any offsets.

`ValidatedSigned` follows from the first and `DecodesAtMostOne`. `EncodingIsInjective`
follows from the first too, across both schemes, since the first byte
names the scheme. The assumptions: `WidthsAssumption` (a byte has room for an
invalid flags byte, lengths and words have at least one byte), `PayloadTypes` (the Rust
types), and `WordsAreWide`, that the length of an ABI encoding fits in a word; a length
in memory has at most 8 bytes and a word has 32.

**Gas service.** `IInv` adds that the set of operators is finite, that there is
none before the registry exists, and that nothing was paid before the treasury
exists. The count follows from the cardinality of a set with one element more or
less (`FS_AddElement`, `FS_RemoveElement`).

**Sums and induction.** The library states induction for operators, which the
provers do not instantiate. `Sums` states it for sets of naturals, from the
well-foundedness of `<`, and the proofs apply it to sets
`{n \in Nat : ...}`. This is enough to show that recursive functions (the layers of a
tree, the climb of a proof, partial sums, the bytes of a number, `FlattenSeq`) have a
solution (`RecursionExists`), and that a sum over a finite
set does not depend on the order in which `MapThenSumSet` takes the elements. Powers of
two are reasoned about through the number of subsets of a set.

**Model-checked only.** Liveness (`EndorsedMessagesAreExecuted`,
`PendingProposalsAreSettled`, `AcceptableMessagesArrive`), because TLAPS does not
prove liveness under fairness or reason about `ENABLED` here. Every invariant and
action property of the passing runs, and both refinements, are proved.

## 5. What is not modelled

* keccak, secp256k1 recovery and the unambiguous encoding in front of the hash:
  they are injective terms and a set of signatures.
* Derivation of token ids: the constant `TokenOrigin` says what an id was hashed
  from. ABI of hub messages and governance commands: records, with the range checks
  that the handlers make on the decoded values (an oversized ETA, for one).
* `truncate_utf8` of names and symbols, token metadata accounts, events and logs.
* The integer wrappers of `solana-axelar-std`: they are integers, saturating where
  the code saturates.
* Lamports of payers and relayers.
* Lamports sent to `governance_config` or the treasury outside the programs.
* Proposals whose CPI calls other governance instructions than
  `transfer_operatorship` and `withdraw_tokens`.
* Roles that a hub registration gives to the address of a token manager, which can
  sign for none of them.
* What somebody else's destination program does with the tokens it received: the
  runtime forbids it to re-enter ITS, and `SplTransfer` of `Its` covers the rest.
* A gas withdrawal whose receiver is the treasury: it changes nothing.
* Test fixtures, the mollusk harness and build tooling under `helpers/`: they drive
  the programs in tests and hold no protocol state.

A retention of 0 makes every verifier set, the current one too, invalid
(`config.rs`). The code's comments describe the same rule and the deployer chooses
the value, so no property says that some set is live; the theorems hold for every
retention and the instances take 1 and 2.

## 6. Plan

Done, in this order: `Gateway` with its abstract specification and proofs,
`Governance` with proofs, `Its`, `Operators` and `GasService` with proofs,
`TokenBridge` and the refinement of `Its`, `ExecuteData`, `Payload`, `Gmp`; then the
proofs about `Its`, `TokenBridge`, `Gmp`, the governance treasury, `ExecuteData` and
`Payload`.

Next: more ITS instances (a canonical token beside the native token of another user,
flow limits shared by operator and flow limiter in the same epoch), and hub messages
and governance commands byte by byte, with the lemmas of `Payload_proofs` on words,
fields and lists.
