---------------------------------- MODULE Gmp ----------------------------------
(***************************************************************************)
(* General message passing end to end: the gateway's inbox, the executable *)
(* interface of destination programs (gateway executable.rs), the memo     *)
(* program as one of them, the token service delivering tokens together    *)
(* with a call of the destination program, and the way out through         *)
(* call_contract.                                                          *)
(*                                                                         *)
(* The inbox is the one of TrustedDelivery, which Gateway.tla implements.  *)
(* A relayer turns an approved message into one transaction, choosing the  *)
(* accounts and the instruction data; a transaction that fails anywhere    *)
(* changes nothing and can be tried again.                                 *)
(*                                                                         *)
(* A program-derived address is the term of its program and seeds; a hash  *)
(* is the hashed value.  A token account is named by its owner.  There is  *)
(* one token, which its manager locks and unlocks; the other manager       *)
(* types, flow limits and fees are the subject of Its.tla.                 *)
(***************************************************************************)
EXTENDS Integers, Sequences, FiniteSets, FiniteSetsExt

CONSTANTS
    Messages,        \* [id, destination, source_address, payload_hash] records
    CommandIds, CommandIdOf, NoMessage,
    VerifierSet,     \* the verifier set the gateway trusts
    Memo, ITS,       \* programs of this repository
    App,             \* a program of somebody else
    NoProgram,       \* a wallet calls directly
    Wallets,
    Vault,           \* the token manager's token account
    HubAddress, TrustedChains,
    Texts,           \* byte strings sent as memos
    Utf8,            \* those that are valid UTF-8
    HubPayloads,     \* HubMessages that ITS may be called with
    MetaLists,       \* account lists relayers add to a transaction
    InitialBalance,  \* tokens of each holder at the start
    Amounts, GasValues, Chains, Addresses,  \* arguments of transfers
    MaxOut           \* bound on messages sent

VARIABLES
    trusted, inbox,  \* the gateway (TrustedDelivery)
    counter,         \* the memo program's Counter account
    paused,          \* the token service's pause flag
    balance,         \* token accounts
    treasury,        \* lamports paid to the gas service
    outbox,          \* CallContractEvents, with who signed and which program called
    credited         \* observation only: where the tokens of a message went

vars == <<trusted, inbox, counter, paused, balance, treasury, outbox, credited>>

Gateway == INSTANCE TrustedDelivery WITH
    Roots <- {VerifierSet}, InitialVerifierSet <- VerifierSet,
    Endorses <- LAMBDA v, m : TRUE, Appoints <- LAMBDA u, v : FALSE

Programs == {Memo, ITS, App}

Schemes == {"Borsh", "AbiEncoding"}

-----------------------------------------------------------------------------
(***************************************************************************)
(* Addresses.                                                              *)
(***************************************************************************)

\* Pubkey::find_program_address appends the bump it finds to the seeds.
FindPda(program, seeds) == [program |-> program, seeds |-> Append(seeds, "bump")]

CounterPda == FindPda(Memo, <<"counter">>)
AppPda == FindPda(App, <<"vault">>)
CallContractSigner(p) == FindPda(p, <<"gtw-call-contract">>)
InterchainTransferExecute(p) == FindPda(ITS, <<"interchain-transfer-execute", p>>)

\* destination_token_authority_pda
TokenAuthority(p) == FindPda(p, <<"axelar-its-token-authority">>)

Pdas == {CounterPda, AppPda} \cup {CallContractSigner(p) : p \in Programs}
            \cup {TokenAuthority(p) : p \in Programs}

Holders == Wallets \cup Pdas \cup Programs \cup {Vault}

\* Seeds tried in transfers, where they are an Option: {} is None.
SeedLists == {<<>>, <<"vault">>, <<"counter">>, <<"axelar-its-token-authority">>}
SeedOptions == {{}} \cup {{seeds} : seeds \in SeedLists}

\* Programs have addresses of their own, and wallets are on the curve where derived
\* addresses are not.
ASSUME GmpNames ==
    /\ Memo # ITS /\ Memo # App /\ ITS # App
    /\ Wallets \cap Pdas = {}
    /\ \A p \in Programs, seeds \in SeedLists : FindPda(p, seeds) \notin Wallets

\* HubPayloads are decoded HubMessages, in which data is an Option; account lists are
\* sequences.
ASSUME GmpMessages ==
    /\ IsFiniteSet(Messages)
    /\ CommandIdOf \in [Messages -> CommandIds]
    /\ \A p \in HubPayloads :
         /\ DOMAIN p = {"hub", "chain", "destination_address", "amount", "data"}
         /\ \A d, e \in p.data : d = e
    /\ \A l \in MetaLists : Len(l) \in Nat /\ DOMAIN l = 1..Len(l)

\* A transaction that w signed, inside a call of program via, carries the
\* signature of w and of the addresses derived from via.
Signs(a, w, via) == a = w \/ (a \in Pdas /\ a.program = via)

\* The counter is owned by the memo program; other derived addresses that hold
\* tokens were never initialised and belong to the system program, as wallets do.
OwnedBySystem(a) == a \notin Programs /\ ~(a = CounterPda /\ counter.open)

Meta(key, signer, writable) == [pubkey |-> key, is_signer |-> signer, is_writable |-> writable]

Move(b, from, to, amount) ==
    IF from = to THEN b ELSE [b EXCEPT ![from] = @ - amount, ![to] = @ + amount]

\* Nothing was credited for a message yet.
Nowhere == {}

-----------------------------------------------------------------------------
Init ==
    /\ Gateway!Init
    /\ counter = [open |-> FALSE, counter |-> 0]
    /\ paused = FALSE
    /\ balance = InitialBalance
    /\ treasury = 0
    /\ outbox = <<>>
    /\ credited = [m \in Messages |-> Nowhere]

\* The gateway approves messages; Gateway.tla has the details.
ApproveMessage ==
    /\ Gateway!Bootstrap \/ \E m \in Messages : Gateway!Approve(VerifierSet, m)
    /\ UNCHANGED <<counter, paused, balance, treasury, outbox, credited>>

Approved(m) == inbox[CommandIdOf[m]] = [status |-> "approved", message |-> m]

\* Mutant: the message is not marked as executed.
CheckMessageOnly(program, m, payload) ==
    /\ payload = m.payload_hash
    /\ Approved(m)
    /\ m.destination = program
    /\ UNCHANGED <<trusted, inbox>>

\* validate_message_raw: the payload is the signed one, and the gateway marks the
\* message, which must be the one stored, approved and addressed to the program
\* that signs with its ValidateMessageSigner.
ValidateMessageRaw(program, m, payload) ==
    /\ payload = m.payload_hash
    /\ Approved(m)
    /\ m.destination = program
    /\ Gateway!Execute(CommandIdOf[m])

\* Mutant: the accounts of the transaction are not part of what is hashed.
WithoutAccounts(text, metas, scheme) ==
    [scheme |-> scheme, payload |-> text, accounts |-> <<>>]

\* validate_message: the payload is rebuilt from the program's own accounts in the
\* transaction, the payload bytes and the scheme.
RebuildPayload(text, metas, scheme) ==
    [scheme |-> scheme, payload |-> text, accounts |-> metas]

-----------------------------------------------------------------------------
(***************************************************************************)
(* The memo program receiving.                                             *)
(***************************************************************************)

\* init
InitMemo ==
    /\ ~counter.open
    /\ counter' = [open |-> TRUE, counter |-> 0]
    /\ UNCHANGED <<trusted, inbox, paused, balance, treasury, outbox, credited>>

\* The text is recorded: not UTF-8 is an error.
ReceiveMemo(text) ==
    /\ counter.open
    /\ text \in Utf8
    /\ counter' = [counter EXCEPT !.counter = @ + 1]

\* execute: the only account of its own is the counter, which must be writable in
\* the transaction; further accounts are not looked at.
MemoExecute(m, text, scheme, metas) ==
    /\ metas # <<>>
    /\ metas[1].pubkey = CounterPda /\ metas[1].is_writable
    /\ ValidateMessageRaw(Memo, m,
          RebuildPayload(text, <<Meta(CounterPda, FALSE, TRUE)>>, scheme))
    /\ ReceiveMemo(text)
    /\ UNCHANGED <<paused, balance, treasury, outbox, credited>>

\* The memo program passes the tokens on to the second account, if there is one.
ForwardTo(metas) == IF Len(metas) >= 2 THEN metas[2].pubkey ELSE TokenAuthority(Memo)

\* execute_with_interchain_token of the memo program: only ITS signs with the PDA
\* derived for this program; the first account is the writable counter.
MemoExecuteWithInterchainToken(signer, authority, text, metas) ==
    /\ signer = InterchainTransferExecute(Memo)
    /\ authority = TokenAuthority(Memo)
    /\ metas # <<>>
    /\ metas[1].pubkey = CounterPda /\ metas[1].is_writable
    /\ Len(metas) >= 2 => metas[2].is_writable /\ ForwardTo(metas) \in Holders
    /\ ReceiveMemo(text)

-----------------------------------------------------------------------------
(***************************************************************************)
(* The token service receiving.                                            *)
(***************************************************************************)

\* check_destination_authority: programs receive under their token authority,
\* every other account for itself.
CheckDestinationAuthority(destination, authority) ==
    authority = IF destination \in Programs THEN TokenAuthority(destination) ELSE destination

\* Mutant: the accounts of the transaction are only counted.
CountAccounts(data, metas) == Len(metas) = Len(data.accounts)

\* The accounts the relayer adds are those of the signed data, flags included.
AccountsMatch(data, metas) == metas = data.accounts

\* invoke_destination_program, for data = {} not at all.  A destination without
\* program code, data that does not decode, other accounts, or an error of the
\* program fail the whole transaction.
InvokeDestinationProgram(payload, has_execute_pda, metas) ==
    \/ /\ payload.data = {}
       /\ UNCHANGED counter
    \/ \E data \in payload.data :
          /\ has_execute_pda
          /\ data.scheme \in Schemes
          /\ AccountsMatch(data, metas)
          /\ \/ /\ payload.destination_address = Memo
                /\ MemoExecuteWithInterchainToken(InterchainTransferExecute(Memo),
                      TokenAuthority(Memo), data.payload, metas)
             \/ /\ payload.destination_address = App
                /\ UNCHANGED counter

\* Who holds the tokens of the transfer in the end.
FinalHolder(payload, authority, metas) ==
    IF payload.data # {} /\ payload.destination_address = Memo THEN ForwardTo(metas)
    ELSE authority

\* execute of ITS with an interchain transfer from the hub: the relayer supplies
\* the owner of the receiving token account, the execute PDA if there is one, and
\* the accounts for the destination program.
ItsExecute(m, payload, authority, has_execute_pda, metas) ==
    /\ ~paused
    /\ m.source_address = HubAddress
    /\ payload.hub = "ReceiveFromHub"
    /\ ValidateMessageRaw(ITS, m, payload)
    /\ payload.chain \in TrustedChains
    /\ payload.amount # 0
    /\ CheckDestinationAuthority(payload.destination_address, authority)
    /\ payload.amount <= balance[Vault]
    /\ balance' = Move(Move(balance, Vault, authority, payload.amount),
                       authority, FinalHolder(payload, authority, metas), payload.amount)
    /\ InvokeDestinationProgram(payload, has_execute_pda, metas)
    /\ credited' = [credited EXCEPT ![m] =
                       @ \cup {<<authority, FinalHolder(payload, authority, metas)>>}]
    /\ UNCHANGED <<paused, treasury, outbox>>

SetPauseStatus(p) ==
    /\ paused # p
    /\ paused' = p
    /\ UNCHANGED <<trusted, inbox, counter, balance, treasury, outbox, credited>>

-----------------------------------------------------------------------------
(***************************************************************************)
(* The way out.                                                            *)
(***************************************************************************)

\* call_contract: the caller signs itself, or the call-contract PDA derived from
\* the calling program does.
MayCall(w, via, caller, pda) ==
    \/ Signs(caller, w, via)
    \/ pda = CallContractSigner(caller) /\ Signs(pda, w, via)

CallContract(w, via, caller, pda, payload, source) ==
    /\ Len(outbox) < MaxOut
    /\ MayCall(w, via, caller, pda)
    /\ outbox' = Append(outbox, [sender |-> caller, signed_by |-> w, called_by |-> via,
                                 asked_by |-> source, payload |-> payload])

\* The caller is a wallet or somebody else's program.
UseCallContract(w, via, caller, pda) ==
    /\ CallContract(w, via, caller, pda, [text |-> "call"], via)
    /\ UNCHANGED <<trusted, inbox, counter, paused, balance, treasury, credited>>

\* send_memo
SendMemo(w, text) ==
    /\ CallContract(w, Memo, Memo, CallContractSigner(Memo), [text |-> text], NoProgram)
    /\ UNCHANGED <<trusted, inbox, counter, paused, balance, treasury, credited>>

\* send_to_hub: gas is paid first, then ITS calls the gateway under its own PDA;
\* caller is the program that called ITS, if any.
SendToHub(w, caller, payload, gas_value) ==
    /\ treasury' = treasury + gas_value
    /\ CallContract(w, ITS, ITS, CallContractSigner(ITS), payload, caller)

\* register_token_metadata
RegisterTokenMetadata(w, gas_value) ==
    /\ ~paused
    /\ SendToHub(w, NoProgram, [metadata |-> "decimals"], gas_value)
    /\ UNCHANGED <<trusted, inbox, counter, paused, balance, credited>>

\* Mutant: the program id of the caller is believed.
BelievedSource(authority, program_id, seed_option) ==
    IF program_id = NoProgram THEN {a \in {authority} : OwnedBySystem(a)} ELSE {program_id}

\* The source address of a transfer: the program whose PDA signs, given that the
\* seeds derive it, or an authority owned by the system program.  Empty: an error,
\* as for a program id without seeds and seeds without a program id.
SourceAddress(authority, program_id, seed_option) ==
    IF program_id = NoProgram THEN {a \in {authority} : seed_option = {} /\ OwnedBySystem(a)}
    ELSE {p \in {program_id} : \E seeds \in seed_option : FindPda(p, seeds) = authority}

\* interchain_transfer: w pays, authority owns the tokens and signs.
InterchainTransfer(w, via, authority, program_id, seed_option, chain, address, amount, gas_value) ==
    /\ ~paused
    /\ chain \in TrustedChains
    /\ Signs(authority, w, via)
    /\ amount # 0
    /\ address # <<>>
    /\ amount <= balance[authority]
    /\ balance' = Move(balance, authority, Vault, amount)
    /\ \E source \in SourceAddress(authority, program_id, seed_option) :
          SendToHub(w, via, [source |-> source, chain |-> chain, destination_address |-> address,
                             amount |-> amount], gas_value)
    /\ UNCHANGED <<trusted, inbox, counter, paused, credited>>

\* send_interchain_transfer of the memo program: the seeds it passes on are the
\* ones it signs with, bump included.
SendInterchainTransfer(w, chain, address, amount, gas_value) ==
    /\ counter.open
    /\ InterchainTransfer(w, Memo, CounterPda, Memo, {CounterPda.seeds},
                          chain, address, amount, gas_value)

-----------------------------------------------------------------------------
\* Whatever a relayer tries with message m.
Deliver(m) ==
    \/ \E text \in Texts, scheme \in Schemes, metas \in MetaLists :
          MemoExecute(m, text, scheme, metas)
    \/ /\ Approved(m)
       /\ \E payload \in HubPayloads, authority \in Holders,
             has_execute_pda \in BOOLEAN, metas \in MetaLists :
             ItsExecute(m, payload, authority, has_execute_pda, metas)

IsHub(m) == "hub" \in DOMAIN m.payload_hash

\* create_execute_instruction: text, scheme and accounts of the payload.
RelayExecute(m) ==
    /\ ~IsHub(m)
    /\ MemoExecute(m, m.payload_hash.payload, m.payload_hash.scheme, m.payload_hash.accounts)

\* execute_interchain_transfer_extra_accounts: the execute PDA is added for a
\* transfer with data, then come the accounts that the data names.
RelayInterchainTransfer(m) ==
    LET payload == m.payload_hash
        to == payload.destination_address
    IN /\ IsHub(m)
       /\ \E metas \in IF payload.data = {} THEN {<<>>} ELSE {d.accounts : d \in payload.data} :
             ItsExecute(m, payload, IF to \in Programs THEN TokenAuthority(to) ELSE to,
                        payload.data # {}, metas)

\* The transaction that the relayer helpers of the repository build for m.
Relay(m) == RelayExecute(m) \/ RelayInterchainTransfer(m)

Send ==
    \/ \E w \in Wallets, via \in {NoProgram, App}, caller \in Wallets \cup {App, Memo, AppPda},
          pda \in Pdas : UseCallContract(w, via, caller, pda)
    \/ \E w \in Wallets, text \in Utf8 : SendMemo(w, text)
    \/ \E w \in Wallets, gas_value \in GasValues : RegisterTokenMetadata(w, gas_value)
    \/ \E w \in Wallets, via \in {NoProgram, App}, authority \in Wallets \cup Pdas,
          program_id \in {NoProgram, App, Memo}, seed_option \in SeedOptions,
          chain \in Chains, address \in Addresses,
          amount \in Amounts, gas_value \in GasValues :
          InterchainTransfer(w, via, authority, program_id, seed_option,
                             chain, address, amount, gas_value)

Next ==
    \/ ApproveMessage
    \/ InitMemo
    \/ \E p \in BOOLEAN : SetPauseStatus(p)
    \/ \E m \in Messages : Deliver(m)
    \/ Len(outbox) < MaxOut /\ Send

\* Somebody keeps submitting the transaction of the helpers; nothing else is fair.
Spec == Init /\ [][Next]_vars /\ \A m \in Messages : WF_vars(Relay(m))

\* The same with send_interchain_transfer of the memo program.
MemoSends == \E w \in Wallets, chain \in Chains, address \in Addresses,
                amount \in Amounts, gas_value \in GasValues :
                SendInterchainTransfer(w, chain, address, amount, gas_value)

SpecWithMemoSends == Init /\ [][Next \/ MemoSends]_vars /\ WF_vars(MemoSends)

-----------------------------------------------------------------------------
Executed(m) == inbox[CommandIdOf[m]] = [status |-> "executed", message |-> m]

\* The message brings a memo, by itself or with tokens.
BringsMemo(m) ==
    \/ m.destination = Memo
    \/ /\ m.destination = ITS /\ IsHub(m)
       /\ m.payload_hash.data # {} /\ m.payload_hash.destination_address = Memo

\* The memo counter counts each delivered memo once, whether it came straight from
\* the gateway or with tokens through ITS, and no failed or repeated delivery
\* (counter.rs: "how many memos have been received from the gateway").
MemosCountedOnce ==
    counter.counter = Cardinality({m \in Messages : Executed(m) /\ BringsMemo(m)})

\* Tokens move exactly for the transfers marked as executed, once each; they are
\* received by the signed destination, or its token authority if it is a program,
\* and end up there or with the account the signed data names, whatever accounts
\* the relayer supplied.
TokensGoWhereSigned ==
    \A m \in Messages :
        IF m.destination = ITS /\ Executed(m)
        THEN LET p == m.payload_hash
                 owner == IF p.destination_address \in Programs
                          THEN TokenAuthority(p.destination_address)
                          ELSE p.destination_address
                 named == UNION {{d.accounts[i].pubkey : i \in 2..Len(d.accounts)} : d \in p.data}
             IN /\ Cardinality(credited[m]) = 1
                /\ \A c \in credited[m] : c[1] = owner /\ c[2] \in {owner} \cup named
        ELSE credited[m] = Nowhere

\* Every message that leaves names as its sender a key that signed the transaction
\* or the program that made the call, and every token transfer names as its source
\* the wallet, or the program whose address signed (call_contract, interchain_transfer).
SendersAreAuthentic ==
    \A i \in DOMAIN outbox :
        LET e == outbox[i]
        IN /\ e.sender = e.called_by \/ Signs(e.sender, e.signed_by, e.called_by)
           /\ "source" \in DOMAIN e.payload =>
                e.payload.source = e.asked_by \/ Signs(e.payload.source, e.signed_by, e.asked_by)

\* A memo or transfer whose signed content is acceptable.
WellFormed(m) ==
    \/ /\ m.destination = Memo /\ ~IsHub(m)
       /\ m.payload_hash.scheme \in Schemes
       /\ m.payload_hash.payload \in Utf8
       /\ m.payload_hash.accounts = <<Meta(CounterPda, FALSE, TRUE)>>
    \/ /\ m.destination = ITS /\ IsHub(m)
       /\ m.source_address = HubAddress
       /\ m.payload_hash.hub = "ReceiveFromHub"
       /\ m.payload_hash.chain \in TrustedChains
       /\ m.payload_hash.amount # 0
       /\ \A d \in m.payload_hash.data :
            /\ m.payload_hash.destination_address \in {Memo, App}
            /\ d.scheme \in Schemes
            /\ m.payload_hash.destination_address = Memo =>
                  /\ d.payload \in Utf8
                  /\ d.accounts # <<>> /\ d.accounts[1].pubkey = CounterPda
                  /\ \A i \in DOMAIN d.accounts : i <= 2 => d.accounts[i].is_writable

\* What the message needs on chain.
Ready(m) ==
    /\ BringsMemo(m) => counter.open
    /\ m.destination = ITS => ~paused /\ m.payload_hash.amount <= balance[Vault]

\* An approved message with acceptable content is executed once the programs stay
\* ready for it, by the transaction the relayer helpers build and however many other
\* deliveries failed before (a failed execute leaves the message approved); one with
\* unacceptable content is never executed.
AcceptableMessagesArrive ==
    \A m \in Messages :
        IF WellFormed(m) THEN <>[]Ready(m) => [](Approved(m) => <>Executed(m))
        ELSE []~Executed(m)

\* The memo program can send the tokens of its counter account: ITS asks only "that
\* the PDA is derived correctly and that it's a signer".
CounterCanSend ==
    (counter.open /\ ~paused /\ balance[CounterPda] > 0 /\ Len(outbox) < MaxOut)
        => ENABLED MemoSends
===============================================================================
