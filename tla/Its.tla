---------------------------------- MODULE Its ----------------------------------
(***************************************************************************)
(* The interchain token service (programs/solana-axelar-its).  A token     *)
(* manager ties a token id to a mint; sending tokens to another chain      *)
(* burns or locks them here and tells the ITS hub, and a hub message mints *)
(* or unlocks them.  Each manager limits the net flow per epoch, and keeps *)
(* its roles in UserRoles accounts.                                        *)
(*                                                                         *)
(* Each instruction is one atomic action; execute and the self-CPI it      *)
(* dispatches to are one transaction, so the gateway's mark on the message *)
(* (module Gateway) and the token movement happen together or not at all.  *)
(* A UserRoles account without roles is closed: here, the empty set.  The  *)
(* manager of token t and its token account are named by t itself.         *)
(***************************************************************************)
EXTENDS Integers, FiniteSetsExt

CONSTANTS
    TokenIds,
    Mints,              \* addresses of token mints
    Accounts,           \* wallets: signers, owners of token accounts
    NoAccount,          \* no minter, no operator, no mint authority
    TokenOrigin,        \* what a token id was derived from (utils.rs)
    NativeMint,         \* the mint address derived from a token id
    InitialAuthority,   \* mint authority of the mints that exist at the start
    InitialSupply,      \* their supply, held by FirstHolder
    FirstHolder,
    FeeMints,           \* mints with the transfer fee extension
    MintsWithMetadata,  \* mints that have token metadata once they exist
    Chains, ChainName, HubChain,    \* HubChain is ITS_HUB_CHAIN_NAME
    HubAddress,
    Inbound,            \* messages for ITS that the gateway has approved
    MessageIds, Addresses,
    UpgradeAuthority, InitialOperator,
    Amounts,            \* amounts tried in instructions
    Fees,               \* transfer fees a fee mint may charge
    Limits,             \* flow limits tried
    EpochTime,          \* EPOCH_TIME
    U64Max,
    MaxSent,            \* bound on the tokens sent to other chains per token
    MaxTime             \* bound on the clock

\* flow_limit: None
NoLimit == -1

MintTypes == {"NativeInterchainToken", "MintBurn", "MintBurnFrom"}
LockTypes == {"LockUnlock", "LockUnlockFee"}
ManagerTypes == MintTypes \cup LockTypes

Roles == {"MINTER", "OPERATOR", "FLOW_LIMITER"}

\* Owners of token accounts: wallets and token managers.
Holders == Accounts \cup TokenIds

ASSUME ItsNames ==
    /\ NoAccount \notin Holders
    /\ Accounts \cap TokenIds = {}
    /\ TokenOrigin \in
         [TokenIds -> [kind : {"interchain", "canonical", "linked", "remote"},
                       of : Accounts \cup Mints]]
    /\ NativeMint \in [TokenIds -> Mints]
    /\ \A s, t \in TokenIds : NativeMint[s] = NativeMint[t] => s = t
    /\ FirstHolder \in Accounts
    /\ InitialOperator \in Accounts
    /\ HubChain \in Chains
    /\ FeeMints \subseteq Mints
    /\ MintsWithMetadata \subseteq Mints

\* Mints at a native address are created by the service only; nobody else can sign
\* for the address.
ASSUME ItsMints ==
    \E existing \in SUBSET Mints :
        /\ InitialAuthority \in [existing -> Accounts \cup {NoAccount}]
        /\ InitialSupply \in [existing -> 0..U64Max]
        /\ \A t \in TokenIds : NativeMint[t] \notin existing

\* The principal is the destination of a transfer, which may be a token manager, or
\* who gets the roles of a registration.
ASSUME ItsMessages ==
    /\ Inbound \subseteq
         [id : MessageIds, address : Addresses, source_chain : Chains,
          kind : {"InterchainTransfer", "DeployInterchainToken", "LinkToken"},
          token_id : TokenIds, amount : 0..U64Max, mint : Mints, ty : ManagerTypes,
          principal : Holders \cup {NoAccount}]
    /\ \A m \in Inbound : m.principal \in TokenIds => m.kind = "InterchainTransfer"

ASSUME ItsBounds ==
    /\ U64Max \in Nat
    /\ EpochTime \in Nat \ {0}
    /\ MaxSent \in Nat
    /\ MaxTime \in Nat
    /\ Amounts \subseteq 0..U64Max
    /\ Fees \subseteq Nat
    /\ 0 \in Fees
    /\ Limits \subseteq {NoLimit} \cup 0..U64Max

VARIABLES
    its,        \* InterchainTokenService
    root_roles, \* UserRoles of the service itself
    manager,    \* TokenManager accounts
    flow_slot,  \* FlowState of each manager
    roles,      \* UserRoles of each manager
    mint,       \* SPL mint accounts
    balance,    \* SPL token accounts
    validated,  \* messages the gateway has marked as executed
    announced,  \* token ids named in deployment and link messages to the hub
    now,        \* Clock::unix_timestamp
    window,     \* observation only: tokens that crossed in the current epoch
    ledger,     \* observation only: tokens sent and received so far
    issued      \* observation only: supply of each mint that is not from transfers

service == <<its, root_roles>>
tokens == <<mint, balance, issued>>
registry == <<manager, roles, announced>>
flows == <<flow_slot, window>>
vars == <<its, root_roles, manager, flow_slot, roles, mint, balance, validated,
          announced, now, window, ledger, issued>>

-----------------------------------------------------------------------------
\* FlowState::new(None, 0)
NewFlowState == [flow_limit |-> NoLimit, flow_in |-> 0, flow_out |-> 0, epoch |-> 0]

NoManager == [open |-> FALSE, ty |-> "NativeInterchainToken",
              mint |-> CHOOSE k \in Mints : TRUE]

NoMint == [exists |-> FALSE, authority |-> NoAccount, supply |-> 0]

Init ==
    /\ its = [initialized |-> FALSE, paused |-> FALSE, trusted |-> {}]
    /\ root_roles = [a \in Accounts |-> {}]
    /\ manager = [t \in TokenIds |-> NoManager]
    /\ flow_slot = [t \in TokenIds |-> NewFlowState]
    /\ roles = [t \in TokenIds |-> [a \in Accounts |-> {}]]
    /\ mint = [k \in Mints |->
                  IF k \in DOMAIN InitialSupply
                  THEN [exists |-> TRUE, authority |-> InitialAuthority[k],
                        supply |-> InitialSupply[k]]
                  ELSE NoMint]
    /\ balance = [k \in Mints |-> [h \in Holders |->
                     IF k \in DOMAIN InitialSupply /\ h = FirstHolder
                     THEN InitialSupply[k] ELSE 0]]
    /\ validated = {}
    /\ announced = {}
    /\ now = 0
    /\ window = [t \in TokenIds |-> [in |-> 0, out |-> 0, ceiling |-> NoLimit]]
    /\ ledger = [t \in TokenIds |-> [sent |-> 0, received |-> 0]]
    /\ issued = [k \in Mints |->
                    IF k \in DOMAIN InitialSupply THEN InitialSupply[k] ELSE 0]

-----------------------------------------------------------------------------
(* Configuration of the service *)

\* The signer is the upgrade authority or holds the service's OPERATOR role.
MayConfigure(signer) == signer = UpgradeAuthority \/ "OPERATOR" \in root_roles[signer]

Initialize ==
    /\ ~its.initialized
    /\ its' = [initialized |-> TRUE, paused |-> FALSE, trusted |-> {}]
    /\ root_roles' = [root_roles EXCEPT ![InitialOperator] = {"OPERATOR"}]
    /\ UNCHANGED <<registry, flows, tokens, validated, now, ledger>>

\* set_pause_status, signed by the upgrade authority
SetPauseStatus(paused) ==
    /\ its.initialized
    /\ its.paused # paused
    /\ its' = [initialized |-> TRUE, paused |-> paused, trusted |-> its.trusted]
    /\ UNCHANGED <<root_roles, registry, flows, tokens, validated, now, ledger>>

\* InterchainTokenService::add_trusted_chain ignores the hub.
AddTrustedChain(trusted, chain) ==
    IF chain = HubChain THEN trusted ELSE trusted \cup {chain}

SetTrustedChain(signer, chain) ==
    /\ its.initialized
    /\ MayConfigure(signer)
    /\ chain \notin its.trusted
    /\ its' = [initialized |-> TRUE, paused |-> its.paused,
               trusted |-> AddTrustedChain(its.trusted, chain)]
    /\ UNCHANGED <<root_roles, registry, flows, tokens, validated, now, ledger>>

RemoveTrustedChain(signer, chain) ==
    /\ its.initialized
    /\ MayConfigure(signer)
    /\ chain \in its.trusted
    /\ its' = [initialized |-> TRUE, paused |-> its.paused,
               trusted |-> its.trusted \ {chain}]
    /\ UNCHANGED <<root_roles, registry, flows, tokens, validated, now, ledger>>

\* Mutant: the role is given to the destination and not taken from the origin.
ShareRole(held, origin, destination, role) ==
    [held EXCEPT ![destination] = held[destination] \cup {role}]

\* UserRoles::remove on the origin's account and insert on the destination's.
MoveRole(held, origin, destination, role) ==
    [held EXCEPT ![origin] = held[origin] \ {role},
                 ![destination] = held[destination] \cup {role}]

TransferOperatorship(origin, destination) ==
    /\ its.initialized
    /\ "OPERATOR" \in root_roles[origin]
    /\ destination # origin
    /\ root_roles' = MoveRole(root_roles, origin, destination, "OPERATOR")
    /\ UNCHANGED <<its, registry, flows, tokens, validated, now, ledger>>

-----------------------------------------------------------------------------
(* Flow limits *)

\* current_flow_epoch
CurrentFlowEpoch == now \div EpochTime

\* The limit that was the weakest of the two.
Weakest(a, b) ==
    IF a = NoLimit \/ b = NoLimit THEN NoLimit ELSE IF a < b THEN b ELSE a

\* Mutant: a new limit starts the counters afresh.
RestartWithLimit(slot, limit) ==
    [flow_limit |-> limit, flow_in |-> 0, flow_out |-> 0, epoch |-> slot.epoch]

\* The assignment both instructions make: the counters keep running.
WithFlowLimit(slot, limit) ==
    [flow_limit |-> limit, flow_in |-> slot.flow_in, flow_out |-> slot.flow_out,
     epoch |-> slot.epoch]

ChangeFlowLimit(t, limit) ==
    /\ its.initialized
    /\ manager[t].open
    /\ flow_slot' = [flow_slot EXCEPT ![t] = WithFlowLimit(flow_slot[t], limit)]
    /\ window' = [window EXCEPT ![t] =
                     [in |-> window[t].in, out |-> window[t].out,
                      ceiling |-> Weakest(window[t].ceiling, limit)]]
    /\ UNCHANGED <<service, registry, tokens, validated, now, ledger>>

\* set_flow_limit, by the operator of the service
SetFlowLimit(operator, t, limit) ==
    /\ "OPERATOR" \in root_roles[operator]
    /\ flow_slot[t].flow_limit # limit
    /\ ChangeFlowLimit(t, limit)

\* set_token_manager_flow_limit, by a flow limiter of the manager
SetTokenManagerFlowLimit(flow_limiter, t, limit) ==
    /\ "FLOW_LIMITER" \in roles[t][flow_limiter]
    /\ ChangeFlowLimit(t, limit)

\* Mutant: the sum may overflow.
WithinLimitUnchecked(flow_limit, to_add, to_compare, amount) ==
    /\ amount <= flow_limit
    /\ to_add + amount - to_compare <= flow_limit
    /\ to_compare - (to_add + amount) <= flow_limit

\* FlowState::update_flow: the amount, and the distance of the two flows after it
WithinLimit(flow_limit, to_add, to_compare, amount) ==
    /\ amount <= flow_limit
    /\ to_add + amount <= U64Max
    /\ to_add + amount - to_compare <= flow_limit
    /\ to_compare - (to_add + amount) <= flow_limit

\* track_token_flow, first half: counters of an earlier epoch are dropped.
ResetFlowSlot(slot) ==
    IF slot.epoch = CurrentFlowEpoch
    THEN slot
    ELSE [flow_limit |-> slot.flow_limit, flow_in |-> 0, flow_out |-> 0,
          epoch |-> CurrentFlowEpoch]

\* track_token_flow and add_flow.
TrackTokenFlow(t, amount, direction) ==
    LET slot == ResetFlowSlot(flow_slot[t])
        limit == flow_slot[t].flow_limit
    IN  /\ limit # NoLimit =>
             IF direction = "In"
             THEN WithinLimit(limit, slot.flow_in, slot.flow_out, amount)
             ELSE WithinLimit(limit, slot.flow_out, slot.flow_in, amount)
        /\ flow_slot' =
             IF limit = NoLimit
             THEN flow_slot
             ELSE [flow_slot EXCEPT ![t] =
                     [flow_limit |-> limit,
                      flow_in |-> slot.flow_in + (IF direction = "In" THEN amount ELSE 0),
                      flow_out |-> slot.flow_out + (IF direction = "In" THEN 0 ELSE amount),
                      epoch |-> slot.epoch]]
        /\ window' =
             [window EXCEPT ![t] =
                [in |-> window[t].in + (IF direction = "In" THEN amount ELSE 0),
                 out |-> window[t].out + (IF direction = "In" THEN 0 ELSE amount),
                 ceiling |-> window[t].ceiling]]

-----------------------------------------------------------------------------
(* Roles of a token manager *)

AddTokenManagerFlowLimiter(operator, t, target) ==
    /\ manager[t].open
    /\ "OPERATOR" \in roles[t][operator]
    /\ "FLOW_LIMITER" \notin roles[t][target]
    /\ roles' = [roles EXCEPT ![t] =
                    [roles[t] EXCEPT ![target] = roles[t][target] \cup {"FLOW_LIMITER"}]]
    /\ UNCHANGED <<service, manager, announced, flows, tokens, validated, now, ledger>>

RemoveTokenManagerFlowLimiter(operator, t, target) ==
    /\ manager[t].open
    /\ "OPERATOR" \in roles[t][operator]
    /\ "FLOW_LIMITER" \in roles[t][target]
    /\ roles' = [roles EXCEPT ![t] =
                    [roles[t] EXCEPT ![target] = roles[t][target] \ {"FLOW_LIMITER"}]]
    /\ UNCHANGED <<service, manager, announced, flows, tokens, validated, now, ledger>>

TransferTokenManagerOperatorship(origin, t, destination) ==
    /\ manager[t].open
    /\ "OPERATOR" \in roles[t][origin]
    /\ destination # origin
    /\ roles' = [roles EXCEPT ![t] = MoveRole(roles[t], origin, destination, "OPERATOR")]
    /\ UNCHANGED <<service, manager, announced, flows, tokens, validated, now, ledger>>

TransferInterchainTokenMintership(sender, t, destination) ==
    /\ manager[t].open
    /\ "MINTER" \in roles[t][sender]
    /\ destination # sender
    /\ roles' = [roles EXCEPT ![t] = MoveRole(roles[t], sender, destination, "MINTER")]
    /\ UNCHANGED <<service, manager, announced, flows, tokens, validated, now, ledger>>

\* The manager has a type that mints.
MayHandOver(t) == manager[t].open /\ manager[t].ty \in {"MintBurn", "MintBurnFrom"}

\* Mutant: the minter's role is granted, the mint's authority stays where it was.
HandoverKeepingAuthority(authority, t) ==
    /\ MayHandOver(t)
    /\ mint[manager[t].mint].authority = authority
    /\ roles' = [roles EXCEPT ![t] =
                    [roles[t] EXCEPT ![authority] = roles[t][authority] \cup {"MINTER"}]]
    /\ UNCHANGED <<service, manager, announced, flows, tokens, validated, now, ledger>>

\* handover_mint_authority: the mint authority signs, the manager takes over.
HandoverMintAuthority(authority, t) ==
    LET k == manager[t].mint IN
    /\ MayHandOver(t)
    /\ mint[k].exists
    /\ mint[k].authority = authority
    /\ mint' = [mint EXCEPT ![k] = [exists |-> TRUE, authority |-> t,
                                    supply |-> mint[k].supply]]
    /\ roles' = [roles EXCEPT ![t] =
                    [roles[t] EXCEPT ![authority] = roles[t][authority] \cup {"MINTER"}]]
    /\ UNCHANGED <<service, manager, announced, flows, balance, issued, validated,
                   now, ledger>>

-----------------------------------------------------------------------------
(* The token program, as the service uses it *)

\* mint_to, signed by the authority of mint k
MintTo(k, holder, amount) ==
    /\ mint[k].supply + amount <= U64Max
    /\ mint' = [mint EXCEPT ![k] = [exists |-> TRUE, authority |-> mint[k].authority,
                                    supply |-> mint[k].supply + amount]]
    /\ balance' = [balance EXCEPT ![k] =
                      [balance[k] EXCEPT ![holder] = balance[k][holder] + amount]]

\* burn, signed by the holder
Burn(k, holder, amount) ==
    /\ amount <= balance[k][holder]
    /\ mint' = [mint EXCEPT ![k] = [exists |-> TRUE, authority |-> mint[k].authority,
                                    supply |-> mint[k].supply - amount]]
    /\ balance' = [balance EXCEPT ![k] =
                      [balance[k] EXCEPT ![holder] = balance[k][holder] - amount]]

\* transfer_checked_with_fee between two holders: the fee is withheld from what
\* arrives.  transfer_checked is the case without a fee.
Transfer(k, from, to, amount, fee) ==
    /\ amount <= balance[k][from]
    /\ fee <= amount
    /\ balance' = [balance EXCEPT ![k] =
                      [balance[k] EXCEPT ![from] = balance[k][from] - amount,
                                         ![to] = balance[k][to] + amount - fee]]
    /\ UNCHANGED mint

\* mint_interchain_token, by the manager's minter
MintInterchainToken(minter, t, holder, amount) ==
    LET k == manager[t].mint IN
    /\ its.initialized /\ ~its.paused
    /\ manager[t].open
    /\ "MINTER" \in roles[t][minter]
    /\ amount # 0
    /\ mint[k].authority = t
    /\ MintTo(k, holder, amount)
    /\ issued' = [issued EXCEPT ![k] = issued[k] + amount]
    /\ UNCHANGED <<service, registry, flows, validated, now, ledger>>

-----------------------------------------------------------------------------
(* Registration of tokens *)

\* Mutant: a manager account that exists is initialized again.
ReinitAccount(t, ty, k) ==
    /\ manager' = [manager EXCEPT ![t] = [open |-> TRUE, ty |-> ty, mint |-> k]]
    /\ flow_slot' = [flow_slot EXCEPT ![t] = NewFlowState]

\* TokenManager::init_account in an account that Anchor's init has just created.
InitAccount(t, ty, k) ==
    /\ ~manager[t].open
    /\ manager' = [manager EXCEPT ![t] = [open |-> TRUE, ty |-> ty, mint |-> k]]
    /\ flow_slot' = [flow_slot EXCEPT ![t] = NewFlowState]

\* The optional roles account of a registration.
GrantRoles(t, principal, granted) ==
    roles' = IF principal = NoAccount
             THEN roles
             ELSE [roles EXCEPT ![t] = [roles[t] EXCEPT ![principal] = granted]]

\* Type::supports_mint_extensions
SupportsMintExtensions(ty, k) ==
    /\ ty = "LockUnlock" => k \notin FeeMints
    /\ ty = "LockUnlockFee" => k \in FeeMints

\* A native token: its mint is created with the manager as authority, and the
\* minter, if there is one, gets every role.
CreateNativeToken(t, minter, holder, supply) ==
    LET k == NativeMint[t] IN
    /\ InitAccount(t, "NativeInterchainToken", k)
    /\ GrantRoles(t, minter, Roles)
    /\ ~mint[k].exists
    /\ mint' = [mint EXCEPT ![k] = [exists |-> TRUE, authority |-> t, supply |-> supply]]
    /\ balance' = [balance EXCEPT ![k] =
                      [balance[k] EXCEPT ![holder] = balance[k][holder] + supply]]
    /\ issued' = [issued EXCEPT ![k] = supply]

DeployInterchainToken(deployer, t, minter, initial_supply) ==
    /\ its.initialized /\ ~its.paused
    /\ TokenOrigin[t] = [kind |-> "interchain", of |-> deployer]
    /\ minter = NoAccount => initial_supply # 0
    /\ CreateNativeToken(t, minter, deployer, initial_supply)
    /\ UNCHANGED <<service, announced, window, validated, now, ledger>>

\* register_canonical_token: anyone may register a mint with metadata, once.
RegisterCanonicalInterchainToken(t, k) ==
    /\ its.initialized /\ ~its.paused
    /\ TokenOrigin[t] = [kind |-> "canonical", of |-> k]
    /\ mint[k].exists
    /\ k \in MintsWithMetadata
    /\ InitAccount(t, IF k \in FeeMints THEN "LockUnlockFee" ELSE "LockUnlock", k)
    /\ UNCHANGED <<service, roles, announced, window, tokens, validated, now, ledger>>

\* A manager for an existing mint, by its deployer or by the hub.
LinkManager(t, ty, k, operator) ==
    /\ ty # "NativeInterchainToken"
    /\ mint[k].exists
    /\ SupportsMintExtensions(ty, k)
    /\ InitAccount(t, ty, k)
    /\ GrantRoles(t, operator, {"OPERATOR", "FLOW_LIMITER"})

RegisterCustomToken(deployer, t, ty, k, operator) ==
    /\ its.initialized /\ ~its.paused
    /\ TokenOrigin[t] = [kind |-> "linked", of |-> deployer]
    /\ LinkManager(t, ty, k, operator)
    /\ UNCHANGED <<service, announced, window, tokens, validated, now, ledger>>

-----------------------------------------------------------------------------
(* Messages to the hub *)

\* send_to_hub for a destination chain the service trusts.
AnnounceRemotely(t, chain) ==
    /\ its.initialized /\ ~its.paused
    /\ chain # ChainName
    /\ chain \in its.trusted
    /\ manager[t].open
    /\ announced' = announced \cup {t}
    /\ UNCHANGED <<service, manager, roles, flows, tokens, validated, now, ledger>>

DeployRemoteInterchainToken(deployer, t, chain) ==
    /\ TokenOrigin[t] = [kind |-> "interchain", of |-> deployer]
    /\ manager[t].mint = NativeMint[t]
    /\ AnnounceRemotely(t, chain)

DeployRemoteCanonicalInterchainToken(t, k, chain) ==
    /\ TokenOrigin[t] = [kind |-> "canonical", of |-> k]
    /\ manager[t].mint = k
    /\ k \in MintsWithMetadata
    /\ AnnounceRemotely(t, chain)

\* link_token: the type is the one of the remote manager.
LinkToken(deployer, t, ty, chain) ==
    /\ TokenOrigin[t] = [kind |-> "linked", of |-> deployer]
    /\ ty # "NativeInterchainToken"
    /\ AnnounceRemotely(t, chain)

\* Mutant: the mint authority is not compared with the manager.
AnyManagerType(t) == manager[t].ty \in ManagerTypes

\* validate_token_manager_type
ValidateTokenManagerType(t) ==
    manager[t].ty \in MintTypes => mint[manager[t].mint].authority = t

\* Mutant: native tokens fall into the arm of the locking types.
MintsUnlessNative(t) == manager[t].ty \in MintTypes \ {"NativeInterchainToken"}

\* take_token and handle_give_token_transfer: these types burn and mint, the others
\* move tokens to and from the manager's own account.
BurnsAndMints(t) == manager[t].ty \in MintTypes

\* get_fee_and_decimals: only a LockUnlockFee manager looks at the mint's fee.
FeesFor(t, amount) ==
    IF manager[t].ty = "LockUnlockFee" THEN {fee \in Fees : fee <= amount} ELSE {0}

\* Mutant: the message carries the amount the sender gave.
TakenGross(amount, fee) == amount

\* take_token returns what reached the manager; flow and message use that amount.
TakenAmount(amount, fee) == amount - fee

\* interchain_transfer: tokens leave for another chain.
InterchainTransfer(authority, t, chain, amount, fee) ==
    LET k == manager[t].mint
        transferred == TakenAmount(amount, fee)
    IN
    /\ its.initialized /\ ~its.paused
    /\ chain \in its.trusted
    /\ manager[t].open
    /\ amount # 0
    /\ ledger[t].sent + amount <= MaxSent
    /\ ValidateTokenManagerType(t)
    /\ fee \in FeesFor(t, amount)
    /\ IF BurnsAndMints(t)
       THEN Burn(k, authority, amount)
       ELSE Transfer(k, authority, t, amount, fee)
    /\ TrackTokenFlow(t, transferred, "Out")
    /\ ledger' = [ledger EXCEPT ![t] = [sent |-> ledger[t].sent + transferred,
                                        received |-> ledger[t].received]]
    /\ UNCHANGED <<service, registry, issued, validated, now>>

-----------------------------------------------------------------------------
(* Messages from the hub *)

\* Mutant: the message stays executable.
ExecuteAgain(m, kind) ==
    /\ its.initialized /\ ~its.paused
    /\ m.address = HubAddress
    /\ m.source_chain \in its.trusted
    /\ m.kind = kind
    /\ UNCHANGED validated

\* execute_handler up to the self-CPI.  Only the source address is compared with
\* the hub's; source_chain is the chain the hub says the message came from.
Execute(m, kind) ==
    /\ its.initialized /\ ~its.paused
    /\ m.address = HubAddress
    /\ m \notin validated
    /\ validated' = validated \cup {m}
    /\ m.source_chain \in its.trusted
    /\ m.kind = kind

ExecuteDeployInterchainToken(m) ==
    /\ Execute(m, "DeployInterchainToken")
    /\ CreateNativeToken(m.token_id, m.principal, FirstHolder, 0)
    /\ UNCHANGED <<service, announced, window, now, ledger>>

ExecuteLinkToken(m) ==
    /\ Execute(m, "LinkToken")
    /\ LinkManager(m.token_id, m.ty, m.mint, m.principal)
    /\ UNCHANGED <<service, announced, window, tokens, now, ledger>>

\* execute_interchain_transfer: the flow is counted before the tokens move, by the
\* amount in the message.  Another manager may be the destination; the token's own
\* would name one token account twice as mutable, which Anchor refuses.
ExecuteInterchainTransfer(m, fee) ==
    LET t == m.token_id
        k == manager[t].mint
    IN
    /\ Execute(m, "InterchainTransfer")
    /\ manager[t].open
    /\ m.principal # NoAccount
    /\ m.principal # t
    /\ m.amount # 0
    /\ ValidateTokenManagerType(t)
    /\ TrackTokenFlow(t, m.amount, "In")
    /\ fee \in FeesFor(t, m.amount)
    /\ IF BurnsAndMints(t)
       THEN MintTo(k, m.principal, m.amount)
       ELSE Transfer(k, t, m.principal, m.amount, fee)
    /\ ledger' = [ledger EXCEPT ![t] = [sent |-> ledger[t].sent,
                                        received |-> ledger[t].received + m.amount]]
    /\ UNCHANGED <<service, registry, issued, now>>

-----------------------------------------------------------------------------
(* What the owners of tokens do without the service *)

SplTransfer(k, from, to, amount, fee) ==
    /\ mint[k].exists
    /\ from # to
    /\ amount # 0
    /\ k \notin FeeMints => fee = 0
    /\ Transfer(k, from, to, amount, fee)
    /\ UNCHANGED <<service, registry, flows, issued, validated, now, ledger>>

SplMint(k, authority, amount) ==
    /\ mint[k].exists
    /\ mint[k].authority = authority
    /\ amount # 0
    /\ MintTo(k, authority, amount)
    /\ issued' = [issued EXCEPT ![k] = issued[k] + amount]
    /\ UNCHANGED <<service, registry, flows, validated, now, ledger>>

SplBurn(k, holder, amount) ==
    /\ mint[k].exists
    /\ amount # 0
    /\ Burn(k, holder, amount)
    /\ issued' = [issued EXCEPT ![k] = issued[k] - amount]
    /\ UNCHANGED <<service, registry, flows, validated, now, ledger>>

SplSetAuthority(k, authority, new) ==
    /\ mint[k].exists
    /\ mint[k].authority = authority
    /\ new # authority
    /\ mint' = [mint EXCEPT ![k] = [exists |-> TRUE, authority |-> new,
                                    supply |-> mint[k].supply]]
    /\ UNCHANGED <<service, registry, flows, balance, issued, validated, now, ledger>>

\* The clock advances; a new epoch opens a new window.
Tick ==
    /\ now < MaxTime
    /\ now' = now + 1
    /\ window' = IF (now + 1) \div EpochTime = CurrentFlowEpoch
                 THEN window
                 ELSE [t \in TokenIds |->
                          [in |-> 0, out |-> 0, ceiling |-> flow_slot[t].flow_limit]]
    /\ UNCHANGED <<service, registry, flow_slot, tokens, validated, ledger>>

-----------------------------------------------------------------------------
Configure ==
    \/ Initialize
    \/ \E paused \in BOOLEAN : SetPauseStatus(paused)
    \/ \E a \in Accounts, c \in Chains : SetTrustedChain(a, c)
    \/ \E a \in Accounts, c \in Chains : RemoveTrustedChain(a, c)
    \/ \E a, b \in Accounts : TransferOperatorship(a, b)

ManageToken ==
    \E t \in TokenIds, a \in Accounts :
        \/ \E limit \in Limits : SetFlowLimit(a, t, limit)
        \/ \E limit \in Limits : SetTokenManagerFlowLimit(a, t, limit)
        \/ \E b \in Accounts : AddTokenManagerFlowLimiter(a, t, b)
        \/ \E b \in Accounts : RemoveTokenManagerFlowLimiter(a, t, b)
        \/ \E b \in Accounts : TransferTokenManagerOperatorship(a, t, b)
        \/ \E b \in Accounts : TransferInterchainTokenMintership(a, t, b)
        \/ HandoverMintAuthority(a, t)
        \/ \E h \in Holders, amount \in Amounts : MintInterchainToken(a, t, h, amount)

RegisterToken ==
    \E t \in TokenIds :
        \/ \E a \in Accounts, b \in Accounts \cup {NoAccount}, amount \in Amounts :
             DeployInterchainToken(a, t, b, amount)
        \/ \E k \in Mints : RegisterCanonicalInterchainToken(t, k)
        \/ \E a \in Accounts, b \in Accounts \cup {NoAccount}, k \in Mints,
              ty \in ManagerTypes :
             RegisterCustomToken(a, t, ty, k, b)

SendToHub ==
    \E t \in TokenIds, c \in Chains :
        \/ \E a \in Accounts : DeployRemoteInterchainToken(a, t, c)
        \/ \E k \in Mints : DeployRemoteCanonicalInterchainToken(t, k, c)
        \/ \E a \in Accounts, ty \in ManagerTypes : LinkToken(a, t, ty, c)
        \/ \E a \in Accounts, amount \in Amounts, fee \in Fees :
             InterchainTransfer(a, t, c, amount, fee)

ReceiveFromHub ==
    \E m \in Inbound :
        \/ ExecuteDeployInterchainToken(m)
        \/ ExecuteLinkToken(m)
        \/ \E fee \in Fees : ExecuteInterchainTransfer(m, fee)

UseToken ==
    \E k \in Mints, a \in Accounts :
        \/ \E h \in Holders, amount \in Amounts, fee \in Fees :
             SplTransfer(k, a, h, amount, fee)
        \/ \E amount \in Amounts : SplMint(k, a, amount)
        \/ \E amount \in Amounts : SplBurn(k, a, amount)
        \/ \E new \in Holders \cup {NoAccount} : SplSetAuthority(k, a, new)

Next ==
    \/ Configure
    \/ ManageToken
    \/ RegisterToken
    \/ SendToHub
    \/ ReceiveFromHub
    \/ UseToken
    \/ Tick

Spec == Init /\ [][Next]_vars

-----------------------------------------------------------------------------
(* Properties *)

\* Types of the accounts.  The flow counters stay in a u64 (update_flow uses
\* checked_add), the hub is never a trusted chain, and whatever was announced to the
\* hub has a manager here.
TypeOK ==
    /\ its \in [initialized : BOOLEAN, paused : BOOLEAN,
                trusted : SUBSET (Chains \ {HubChain})]
    /\ root_roles \in [Accounts -> SUBSET Roles]
    /\ manager \in [TokenIds -> [open : BOOLEAN, ty : ManagerTypes, mint : Mints]]
    /\ flow_slot \in [TokenIds -> [flow_limit : {NoLimit} \cup 0..U64Max,
                                   flow_in : 0..U64Max, flow_out : 0..U64Max,
                                   epoch : Nat]]
    /\ roles \in [TokenIds -> [Accounts -> SUBSET Roles]]
    /\ mint \in [Mints -> [exists : BOOLEAN, authority : Holders \cup {NoAccount},
                           supply : Int]]
    /\ balance \in [Mints -> [Holders -> Nat]]
    /\ validated \subseteq Inbound
    /\ announced \subseteq {t \in TokenIds : manager[t].open}
    /\ now \in Nat
    /\ window \in [TokenIds -> [in : Nat, out : Nat,
                                ceiling : {NoLimit} \cup 0..U64Max]]
    /\ ledger \in [TokenIds -> [sent : Nat, received : Nat]]
    /\ issued \in [Mints -> Int]

\* Tokens on other chains are covered.  A manager that locks holds at least what it
\* has sent and not received back (take_token and handle_give_token_transfer, with
\* the fees they subtract); where a manager mints, the supply is exactly what was
\* issued here, plus what came in, minus what was sent, even if several managers
\* were registered for the mint or its authority moved before the handover.
Backing ==
    \A t \in TokenIds :
        manager[t].open =>
            LET k == manager[t].mint
                abroad == ledger[t].sent - ledger[t].received
            IN  /\ manager[t].ty \in LockTypes => balance[k][t] >= abroad
                /\ (manager[t].ty \in MintTypes /\ mint[k].authority = t) =>
                       mint[k].supply = issued[k] - abroad

\* The net flow of an epoch never exceeds the weakest limit that was in force during
\* the epoch, in either direction (flow_state.rs, update_flow: "a limit over the net
\* amount of tokens transferred ... within a six hours time window"), though the
\* limit changes while the counters run and the counters are reset only by the first
\* transfer of the next epoch.
FlowLimitHolds ==
    \A t \in TokenIds :
        window[t].ceiling # NoLimit =>
            /\ window[t].in - window[t].out <= window[t].ceiling
            /\ window[t].out - window[t].in <= window[t].ceiling

\* Operatorship and mintership are held by one account at a time, though a manager
\* gets its roles by registration, handover or transfer (user_roles.rs); and a minter
\* can mint, since its manager is the mint's authority (handover_mint_authority).
RolesAreUnique ==
    /\ \A a, b \in Accounts :
         "OPERATOR" \in root_roles[a] \cap root_roles[b] => a = b
    /\ its.initialized => \E a \in Accounts : "OPERATOR" \in root_roles[a]
    /\ \A t \in TokenIds, role \in {"MINTER", "OPERATOR"}, a, b \in Accounts :
         role \in roles[t][a] \cap roles[t][b] => a = b
    /\ \A t \in TokenIds, a \in Accounts :
         "MINTER" \in roles[t][a] =>
             manager[t].open /\ mint[manager[t].mint].authority = t

\* A token id means one token for ever: whichever of the four registrations comes
\* first, local or from the hub, fixes type and mint (init of token_manager_pda).
RegistrationIsFinal ==
    [][\A t \in TokenIds : manager[t].open => manager'[t] = manager[t]]_vars

\* Every transfer of the hub that was executed was credited exactly once: what a
\* manager has received is the sum over the messages marked as executed
\* (execute_handler with validate_message_raw).
CreditedOnce ==
    \A t \in TokenIds :
        ledger[t].received =
            MapThenSumSet(LAMBDA m : m.amount,
                          {m \in validated : m.kind = "InterchainTransfer"
                                             /\ m.token_id = t})

\* The service as seen by the other chains: a binding for every open manager, the
\* manager's token account as vault, and the messages that moved tokens.
Bound(t) == [locked |-> manager[t].open /\ manager[t].ty \in LockTypes, manager |-> manager[t]]

Bridge == INSTANCE TokenBridge WITH
    Tokens <- [locked : BOOLEAN, manager : [open : {TRUE}, ty : ManagerTypes, mint : Mints]],
    Unbound <- [locked |-> FALSE, manager |-> NoManager],
    Transfers <- {m \in Inbound : m.address = HubAddress /\ m.kind = "InterchainTransfer"},
    MaxAmount <- U64Max,
    token <- [t \in TokenIds |-> Bound(t)],
    vault <- [t \in TokenIds |-> IF Bound(t).locked THEN balance[manager[t].mint][t] ELSE 0],
    abroad <- [t \in TokenIds |-> ledger[t].sent - ledger[t].received],
    delivered <- {m \in validated : m.kind = "InterchainTransfer"}

\* Through pauses, flow limits, fees, racing registrations and retried messages the
\* service does what TokenBridge says and nothing else to a vault: a message to the
\* hub carries exactly what reached the vault, a message of the hub takes its amount
\* out of its own token's vault once, even if it goes to the address of another
\* manager for the mint, and nothing else ever takes tokens out
\* (take_token, handle_give_token_transfer, validate_message_raw, init_account).
ImplementsTokenBridge == Bridge!Spec
=============================================================================
