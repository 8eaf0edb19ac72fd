------------------------------ MODULE Its_proofs ------------------------------
(***************************************************************************)
(* Theorems about Its and their proofs: types, backing of the tokens       *)
(* abroad, flow limits, roles and registrations, for every number of       *)
(* tokens, mints, accounts, messages and every bound.  The invariants are  *)
(* proved in turn, each with the facts about a state it needs, and         *)
(* collected in IInv at the end.                                           *)
(***************************************************************************)
EXTENDS Its, Sums, TLAPS

USE DEF service, registry, flows, tokens

\* Types of the flow records.
FlowSlots == [flow_limit : {NoLimit} \cup 0..U64Max,
              flow_in : 0..U64Max, flow_out : 0..U64Max, epoch : Nat]
Windows == [in : Nat, out : Nat, ceiling : {NoLimit} \cup 0..U64Max]

\* A hub message names a token id, and as a principal someone who may hold tokens;
\* roles of a registration go to wallets.
LEMMA MessageTypes ==
    ASSUME NEW m \in Inbound
    PROVE  /\ m.token_id \in TokenIds /\ m.mint \in Mints /\ m.ty \in ManagerTypes
           /\ m.amount \in 0..U64Max /\ m.amount \in Nat
           /\ m.principal \in Holders \cup {NoAccount}
           /\ m.kind # "InterchainTransfer" => m.principal \in Accounts \cup {NoAccount}
  <1>1. m \in [id : MessageIds, address : Addresses, source_chain : Chains,
               kind : {"InterchainTransfer", "DeployInterchainToken", "LinkToken"},
               token_id : TokenIds, amount : 0..U64Max, mint : Mints, ty : ManagerTypes,
               principal : Holders \cup {NoAccount}]
    BY ItsMessages
  <1>2. m.principal \in TokenIds => m.kind = "InterchainTransfer"
    BY ItsMessages
  <1> QED
    BY <1>1, <1>2, ItsBounds DEF Holders

\* current_flow_epoch is a natural number.
LEMMA EpochIsNat ==
    ASSUME NEW n \in Nat
    PROVE  n \div EpochTime \in Nat
  BY ItsBounds, SMT

\* The clock never goes back to an earlier epoch.
LEMMA EpochGrows ==
    ASSUME NEW n \in Nat
    PROVE  n \div EpochTime <= (n + 1) \div EpochTime
  <1> USE ItsBounds
  <1>1. n \div EpochTime \in Int /\ (n + 1) \div EpochTime \in Int
    BY EpochIsNat
  <1>2. ASSUME NEW q \in Int, NEW r \in Int, q < r
        PROVE  EpochTime * q <= EpochTime * r - EpochTime
    <2>1. EpochTime * q <= EpochTime * (r - 1)
      BY <1>2, SMT
    <2> QED
      BY <2>1, SMT
  <1> QED
    BY <1>1, <1>2, SMT

\* The amount of a transfer that is tracked is a natural number.
LEMMA TrackType ==
    ASSUME TypeOK, NEW t \in TokenIds, NEW amount \in 0..U64Max,
           NEW direction \in {"In", "Out"}, TrackTokenFlow(t, amount, direction)
    PROVE  /\ flow_slot' \in [TokenIds -> FlowSlots]
           /\ window' \in [TokenIds -> Windows]
  <1>1. CurrentFlowEpoch \in Nat
    BY EpochIsNat DEF CurrentFlowEpoch, TypeOK
  <1>2. ResetFlowSlot(flow_slot[t]) \in FlowSlots
    BY <1>1, ItsBounds DEF ResetFlowSlot, TypeOK, FlowSlots
  <1>3. flow_slot' \in [TokenIds -> FlowSlots]
    BY <1>2, ItsBounds DEF TrackTokenFlow, WithinLimit, TypeOK, FlowSlots, NoLimit
  <1>4. window' \in [TokenIds -> Windows]
    BY ItsBounds DEF TrackTokenFlow, TypeOK, Windows
  <1> QED
    BY <1>3, <1>4

\* The token program keeps supplies integers and balances natural numbers.
LEMMA TokenProgramType ==
    ASSUME TypeOK, NEW k \in Mints, NEW from \in Holders, NEW to \in Holders,
           NEW amount \in Nat, NEW fee \in Nat,
           \/ MintTo(k, to, amount)
           \/ Burn(k, from, amount)
           \/ Transfer(k, from, to, amount, fee)
    PROVE  /\ mint' \in [Mints -> [exists : BOOLEAN, authority : Holders \cup {NoAccount},
                                   supply : Int]]
           /\ balance' \in [Mints -> [Holders -> Nat]]
  <1> USE DEF TypeOK
  <1>1. CASE MintTo(k, to, amount)
    BY <1>1 DEF MintTo
  <1>2. CASE Burn(k, from, amount)
    BY <1>2 DEF Burn
  <1>3. CASE Transfer(k, from, to, amount, fee)
    BY <1>3 DEF Transfer
  <1> QED
    BY <1>1, <1>2, <1>3

\* initialize has not run: every account is empty or as the mints were created.
LEMMA TypeInit == Init => TypeOK
  <1> SUFFICES ASSUME Init PROVE TypeOK
    OBVIOUS
  <1> USE ItsNames, ItsBounds DEF Init
  <1>1. NoManager \in [open : BOOLEAN, ty : ManagerTypes, mint : Mints] \/ TokenIds = {}
    <2>1. CASE Mints # {}
      BY <2>1 DEF NoManager, ManagerTypes, MintTypes
    <2>2. CASE Mints = {}
      BY <2>2
    <2> QED
      BY <2>1, <2>2
  <1>2. manager \in [TokenIds -> [open : BOOLEAN, ty : ManagerTypes, mint : Mints]]
    BY <1>1
  <1>3. NewFlowState \in FlowSlots
    BY DEF NewFlowState, FlowSlots
  <1>4. PICK existing \in SUBSET Mints :
          /\ InitialAuthority \in [existing -> Accounts \cup {NoAccount}]
          /\ InitialSupply \in [existing -> 0..U64Max]
    BY ItsMints
  <1>5. mint \in [Mints -> [exists : BOOLEAN, authority : Holders \cup {NoAccount}, supply : Int]]
    BY <1>4 DEF NoMint, Holders
  <1>6. balance \in [Mints -> [Holders -> Nat]] /\ issued \in [Mints -> Int]
    BY <1>4
  <1>7. root_roles \in [Accounts -> SUBSET Roles] /\ roles \in [TokenIds -> [Accounts -> SUBSET Roles]]
    OBVIOUS
  <1>8. flow_slot \in [TokenIds -> FlowSlots] /\ window \in [TokenIds -> Windows]
    BY <1>3 DEF Windows
  <1> QED
    BY <1>2, <1>5, <1>6, <1>7, <1>8 DEF TypeOK, FlowSlots, Windows

\* Opening a manager and granting roles keeps managers, roles and flows well typed.
LEMMA RegistrationType ==
    ASSUME TypeOK, NEW t \in TokenIds, NEW ty \in ManagerTypes, NEW k \in Mints,
           NEW principal \in Accounts \cup {NoAccount}, NEW granted \in SUBSET Roles,
           InitAccount(t, ty, k), GrantRoles(t, principal, granted)
    PROVE  /\ manager' \in [TokenIds -> [open : BOOLEAN, ty : ManagerTypes, mint : Mints]]
           /\ flow_slot' \in [TokenIds -> FlowSlots]
           /\ roles' \in [TokenIds -> [Accounts -> SUBSET Roles]]
           /\ announced \subseteq {s \in TokenIds : manager'[s].open}
  <1>1. NewFlowState \in FlowSlots
    BY ItsBounds DEF NewFlowState, FlowSlots
  <1>2. flow_slot' \in [TokenIds -> FlowSlots]
    BY <1>1 DEF InitAccount, TypeOK, FlowSlots
  <1>3. /\ manager' \in [TokenIds -> [open : BOOLEAN, ty : ManagerTypes, mint : Mints]]
        /\ announced \subseteq {s \in TokenIds : manager'[s].open}
    BY DEF InitAccount, TypeOK
  <1>4. roles' \in [TokenIds -> [Accounts -> SUBSET Roles]]
    BY DEF GrantRoles, TypeOK
  <1> QED
    BY <1>2, <1>3, <1>4

\* So does the creation of a native token, which also creates and mints its mint.
LEMMA NativeTokenType ==
    ASSUME TypeOK, NEW t \in TokenIds, NEW minter \in Accounts \cup {NoAccount},
           NEW holder \in Accounts, NEW supply \in Nat,
           CreateNativeToken(t, minter, holder, supply)
    PROVE  /\ manager' \in [TokenIds -> [open : BOOLEAN, ty : ManagerTypes, mint : Mints]]
           /\ flow_slot' \in [TokenIds -> FlowSlots]
           /\ roles' \in [TokenIds -> [Accounts -> SUBSET Roles]]
           /\ announced \subseteq {s \in TokenIds : manager'[s].open}
           /\ mint' \in [Mints -> [exists : BOOLEAN, authority : Holders \cup {NoAccount},
                                   supply : Int]]
           /\ balance' \in [Mints -> [Holders -> Nat]]
           /\ issued' \in [Mints -> Int]
  <1>1. NativeMint[t] \in Mints
    BY ItsNames
  <1>2. mint' \in [Mints -> [exists : BOOLEAN, authority : Holders \cup {NoAccount},
                             supply : Int]]
    BY <1>1 DEF CreateNativeToken, TypeOK, Holders
  <1>3. holder \in Holders
    BY DEF Holders
  <1>4. balance' \in [Mints -> [Holders -> Nat]]
    BY <1>1, <1>3 DEF CreateNativeToken, TypeOK
  <1>5. issued' \in [Mints -> Int]
    BY <1>1 DEF CreateNativeToken, TypeOK
  <1>6. /\ InitAccount(t, "NativeInterchainToken", NativeMint[t])
        /\ GrantRoles(t, minter, Roles)
        /\ "NativeInterchainToken" \in ManagerTypes
    BY DEF CreateNativeToken, ManagerTypes, MintTypes
  <1> QED
    BY <1>1, <1>2, <1>4, <1>5, <1>6, RegistrationType

\* Moving a role takes it from the origin, gives it to the destination and leaves
\* the other accounts and the other roles alone.
LEMMA MoveRoleEffect ==
    ASSUME NEW held \in [Accounts -> SUBSET Roles], NEW a \in Accounts, NEW b \in Accounts,
           a # b, NEW role \in Roles
    PROVE  /\ MoveRole(held, a, b, role) \in [Accounts -> SUBSET Roles]
           /\ MoveRole(held, a, b, role)[a] = held[a] \ {role}
           /\ MoveRole(held, a, b, role)[b] = held[b] \cup {role}
           /\ \A c \in Accounts \ {a, b} : MoveRole(held, a, b, role)[c] = held[c]
  <1>1. held[a] \ {role} \in SUBSET Roles /\ held[b] \cup {role} \in SUBSET Roles
    OBVIOUS
  <1> QED
    BY <1>1 DEF MoveRole

\* Every step keeps the accounts well typed.
LEMMA TypeStep == TypeOK /\ [Next]_vars => TypeOK'
  <1> SUFFICES ASSUME TypeOK, [Next]_vars PROVE TypeOK'
    OBVIOUS
  <1> USE ItsNames, ItsBounds
  <1>1. ASSUME Initialize PROVE TypeOK'
    BY <1>1 DEF Initialize, TypeOK, Roles
  <1>2. ASSUME NEW paused \in BOOLEAN, SetPauseStatus(paused) PROVE TypeOK'
    BY <1>2 DEF SetPauseStatus, TypeOK
  <1>3. ASSUME NEW a \in Accounts, NEW c \in Chains, SetTrustedChain(a, c) PROVE TypeOK'
    BY <1>3 DEF SetTrustedChain, AddTrustedChain, TypeOK
  <1>4. ASSUME NEW a \in Accounts, NEW c \in Chains, RemoveTrustedChain(a, c) PROVE TypeOK'
    BY <1>4 DEF RemoveTrustedChain, TypeOK
  <1>5. ASSUME NEW a \in Accounts, NEW b \in Accounts, TransferOperatorship(a, b) PROVE TypeOK'
    BY <1>5 DEF TransferOperatorship, MoveRole, TypeOK, Roles
  <1>6. ASSUME NEW t \in TokenIds, NEW limit \in Limits, ChangeFlowLimit(t, limit) PROVE TypeOK'
    <2>1. WithFlowLimit(flow_slot[t], limit) \in FlowSlots
      BY DEF WithFlowLimit, TypeOK, FlowSlots
    <2>2. Weakest(window[t].ceiling, limit) \in {NoLimit} \cup 0..U64Max
      BY DEF Weakest, TypeOK
    <2> QED
      BY <1>6, <2>1, <2>2 DEF ChangeFlowLimit, TypeOK, FlowSlots
  <1>7. ASSUME NEW t \in TokenIds, NEW a \in Accounts, NEW b \in Accounts,
               \/ AddTokenManagerFlowLimiter(a, t, b)
               \/ RemoveTokenManagerFlowLimiter(a, t, b)
               \/ TransferTokenManagerOperatorship(a, t, b)
               \/ TransferInterchainTokenMintership(a, t, b)
        PROVE  TypeOK'
    <2>1. roles' \in [TokenIds -> [Accounts -> SUBSET Roles]]
      <3>1. CASE AddTokenManagerFlowLimiter(a, t, b)
        BY <3>1 DEF AddTokenManagerFlowLimiter, TypeOK, Roles
      <3>2. CASE RemoveTokenManagerFlowLimiter(a, t, b)
        BY <3>2 DEF RemoveTokenManagerFlowLimiter, TypeOK, Roles
      <3>3. CASE TransferTokenManagerOperatorship(a, t, b)
        BY <3>3, MoveRoleEffect DEF TransferTokenManagerOperatorship, TypeOK, Roles
      <3>4. CASE TransferInterchainTokenMintership(a, t, b)
        BY <3>4, MoveRoleEffect DEF TransferInterchainTokenMintership, TypeOK, Roles
      <3> QED
        BY <1>7, <3>1, <3>2, <3>3, <3>4
    <2> QED
      BY <1>7, <2>1
      DEF AddTokenManagerFlowLimiter, RemoveTokenManagerFlowLimiter,
          TransferTokenManagerOperatorship, TransferInterchainTokenMintership, TypeOK
  <1>8. ASSUME NEW t \in TokenIds, NEW a \in Accounts, HandoverMintAuthority(a, t)
        PROVE  TypeOK'
    <2>1. roles' \in [TokenIds -> [Accounts -> SUBSET Roles]]
      BY <1>8 DEF HandoverMintAuthority, TypeOK, Roles
    <2>2. mint' \in [Mints -> [exists : BOOLEAN, authority : Holders \cup {NoAccount},
                               supply : Int]]
      BY <1>8 DEF HandoverMintAuthority, TypeOK, Holders
    <2> QED
      BY <1>8, <2>1, <2>2 DEF HandoverMintAuthority, TypeOK
  <1>9. ASSUME NEW t \in TokenIds, NEW a \in Accounts, NEW h \in Holders,
               NEW amount \in Amounts, MintInterchainToken(a, t, h, amount)
        PROVE  TypeOK'
    <2>1. /\ mint' \in [Mints -> [exists : BOOLEAN, authority : Holders \cup {NoAccount},
                                  supply : Int]]
          /\ balance' \in [Mints -> [Holders -> Nat]]
      BY <1>9, TokenProgramType DEF MintInterchainToken, TypeOK
    <2>2. issued' \in [Mints -> Int]
      BY <1>9 DEF MintInterchainToken, TypeOK
    <2> QED
      BY <1>9, <2>1, <2>2 DEF MintInterchainToken, TypeOK
  <1>10. ASSUME NEW t \in TokenIds, NEW a \in Accounts, NEW b \in Accounts \cup {NoAccount},
                NEW amount \in Amounts, DeployInterchainToken(a, t, b, amount)
         PROVE  TypeOK'
    <2>1. amount \in Nat /\ CreateNativeToken(t, b, a, amount)
      BY <1>10 DEF DeployInterchainToken
    <2> QED
      BY <1>10, <2>1, NativeTokenType DEF DeployInterchainToken, TypeOK, FlowSlots
  <1>11. ASSUME NEW t \in TokenIds, NEW k \in Mints, RegisterCanonicalInterchainToken(t, k)
         PROVE  TypeOK'
    <2>1. GrantRoles(t, NoAccount, {})
      BY <1>11 DEF RegisterCanonicalInterchainToken, GrantRoles
    <2>2. PICK ty \in ManagerTypes : InitAccount(t, ty, k)
      BY <1>11 DEF RegisterCanonicalInterchainToken, ManagerTypes, LockTypes
    <2> QED
      BY <1>11, <2>1, <2>2, RegistrationType DEF RegisterCanonicalInterchainToken, TypeOK, FlowSlots
  <1>12. ASSUME NEW t \in TokenIds, NEW a \in Accounts, NEW b \in Accounts \cup {NoAccount},
                NEW k \in Mints, NEW ty \in ManagerTypes, RegisterCustomToken(a, t, ty, k, b)
         PROVE  TypeOK'
    <2>1. InitAccount(t, ty, k) /\ GrantRoles(t, b, {"OPERATOR", "FLOW_LIMITER"})
      BY <1>12 DEF RegisterCustomToken, LinkManager
    <2> QED
      BY <1>12, <2>1, RegistrationType DEF RegisterCustomToken, TypeOK, FlowSlots, Roles
  <1>13. ASSUME NEW t \in TokenIds, NEW c \in Chains, AnnounceRemotely(t, c)
         PROVE  TypeOK'
    BY <1>13 DEF AnnounceRemotely, TypeOK
  <1>14. ASSUME NEW t \in TokenIds, NEW c \in Chains, NEW a \in Accounts,
                NEW amount \in Amounts, NEW fee \in Fees, InterchainTransfer(a, t, c, amount, fee)
         PROVE  TypeOK'
    <2>1. fee \in Nat /\ fee <= amount /\ amount \in Nat
      BY <1>14 DEF InterchainTransfer, FeesFor
    <2>2. TakenAmount(amount, fee) \in 0..U64Max
      BY <2>1 DEF TakenAmount
    <2>3. flow_slot' \in [TokenIds -> FlowSlots] /\ window' \in [TokenIds -> Windows]
      BY <1>14, <2>2, TrackType DEF InterchainTransfer
    <2>4. /\ mint' \in [Mints -> [exists : BOOLEAN, authority : Holders \cup {NoAccount},
                                  supply : Int]]
          /\ balance' \in [Mints -> [Holders -> Nat]]
      BY <1>14, <2>1, TokenProgramType DEF InterchainTransfer, TypeOK, Holders
    <2>5. ledger' \in [TokenIds -> [sent : Nat, received : Nat]]
      BY <1>14, <2>2 DEF InterchainTransfer, TypeOK
    <2> QED
      BY <1>14, <2>3, <2>4, <2>5 DEF InterchainTransfer, TypeOK, FlowSlots, Windows
  <1>15. ASSUME NEW m \in Inbound, ExecuteDeployInterchainToken(m) PROVE TypeOK'
    <2>1. m.token_id \in TokenIds /\ m.principal \in Accounts \cup {NoAccount}
      BY <1>15, MessageTypes DEF ExecuteDeployInterchainToken, Execute
    <2> QED
      BY <1>15, <2>1, NativeTokenType DEF ExecuteDeployInterchainToken, Execute, TypeOK, FlowSlots
  <1>16. ASSUME NEW m \in Inbound, ExecuteLinkToken(m) PROVE TypeOK'
    <2>1. /\ m.token_id \in TokenIds /\ m.principal \in Accounts \cup {NoAccount}
          /\ m.ty \in ManagerTypes /\ m.mint \in Mints
      BY <1>16, MessageTypes DEF ExecuteLinkToken, Execute
    <2>2. InitAccount(m.token_id, m.ty, m.mint)
          /\ GrantRoles(m.token_id, m.principal, {"OPERATOR", "FLOW_LIMITER"})
      BY <1>16 DEF ExecuteLinkToken, LinkManager
    <2> QED
      BY <1>16, <2>1, <2>2, RegistrationType
      DEF ExecuteLinkToken, Execute, TypeOK, FlowSlots, Roles
  <1>17. ASSUME NEW m \in Inbound, NEW fee \in Fees, ExecuteInterchainTransfer(m, fee)
         PROVE  TypeOK'
    <2>1. /\ m.token_id \in TokenIds /\ m.principal \in Holders /\ m.amount \in 0..U64Max
          /\ m.amount \in Nat /\ fee \in Nat
      BY <1>17, MessageTypes, ItsBounds DEF ExecuteInterchainTransfer
    <2>2. manager[m.token_id].mint \in Mints
      BY <2>1 DEF TypeOK
    <2>3. flow_slot' \in [TokenIds -> FlowSlots] /\ window' \in [TokenIds -> Windows]
      BY <1>17, <2>1, TrackType DEF ExecuteInterchainTransfer
    <2>4. /\ mint' \in [Mints -> [exists : BOOLEAN, authority : Holders \cup {NoAccount},
                                  supply : Int]]
          /\ balance' \in [Mints -> [Holders -> Nat]]
      BY <1>17, <2>1, <2>2, TokenProgramType DEF ExecuteInterchainTransfer, Holders
    <2>5. ledger' \in [TokenIds -> [sent : Nat, received : Nat]]
      BY <1>17, <2>1 DEF ExecuteInterchainTransfer, TypeOK
    <2> QED
      BY <1>17, <2>3, <2>4, <2>5
      DEF ExecuteInterchainTransfer, Execute, TypeOK, FlowSlots, Windows
  <1>18. ASSUME NEW k \in Mints, NEW a \in Accounts, NEW h \in Holders,
                NEW amount \in Amounts, NEW fee \in Fees, SplTransfer(k, a, h, amount, fee)
         PROVE  TypeOK'
    <2>1. /\ mint' \in [Mints -> [exists : BOOLEAN, authority : Holders \cup {NoAccount},
                                  supply : Int]]
          /\ balance' \in [Mints -> [Holders -> Nat]]
      <3>1. a \in Holders /\ amount \in Nat /\ fee \in Nat /\ Transfer(k, a, h, amount, fee)
        BY <1>18 DEF SplTransfer, Holders
      <3> QED
        BY <3>1, TokenProgramType
    <2> QED
      BY <1>18, <2>1 DEF SplTransfer, TypeOK
  <1>19. ASSUME NEW k \in Mints, NEW a \in Accounts, NEW amount \in Amounts,
                SplMint(k, a, amount) \/ SplBurn(k, a, amount)
         PROVE  TypeOK'
    <2>1. /\ mint' \in [Mints -> [exists : BOOLEAN, authority : Holders \cup {NoAccount},
                                  supply : Int]]
          /\ balance' \in [Mints -> [Holders -> Nat]]
      <3>1. a \in Holders /\ amount \in Nat
        BY DEF Holders
      <3>2. MintTo(k, a, amount) \/ Burn(k, a, amount)
        BY <1>19 DEF SplMint, SplBurn
      <3>3. 0 \in Nat
        OBVIOUS
      <3> QED
        BY <3>1, <3>2, <3>3, TokenProgramType
    <2>2. issued' \in [Mints -> Int]
      BY <1>19 DEF SplMint, SplBurn, TypeOK
    <2> QED
      BY <1>19, <2>1, <2>2 DEF SplMint, SplBurn, TypeOK
  <1>20. ASSUME NEW k \in Mints, NEW a \in Accounts, NEW new \in Holders \cup {NoAccount},
                SplSetAuthority(k, a, new)
         PROVE  TypeOK'
    BY <1>20 DEF SplSetAuthority, TypeOK
  <1>21. ASSUME Tick PROVE TypeOK'
    BY <1>21 DEF Tick, TypeOK
  <1>22. ASSUME UNCHANGED vars PROVE TypeOK'
    BY <1>22 DEF vars, TypeOK
  <1> QED
    BY <1>1, <1>2, <1>3, <1>4, <1>5, <1>6, <1>7, <1>8, <1>9, <1>10, <1>11, <1>12, <1>13,
       <1>14, <1>15, <1>16, <1>17, <1>18, <1>19, <1>20, <1>21, <1>22
    DEF Next, Configure, ManageToken, RegisterToken, SendToHub, ReceiveFromHub, UseToken,
        SetFlowLimit, SetTokenManagerFlowLimit, DeployRemoteInterchainToken,
        DeployRemoteCanonicalInterchainToken, LinkToken

\* An account's role at a manager changes hands, is given or is taken.
RoleStep(a, t, b) ==
    \/ AddTokenManagerFlowLimiter(a, t, b)
    \/ RemoveTokenManagerFlowLimiter(a, t, b)
    \/ TransferTokenManagerOperatorship(a, t, b)
    \/ TransferInterchainTokenMintership(a, t, b)

\* A native token comes into being, locally or by the hub.
NativeRegistration(t, minter, holder, supply) ==
    /\ CreateNativeToken(t, minter, holder, supply)
    /\ UNCHANGED <<service, announced, window, now, ledger>>

\* A manager is opened for a mint that exists, locally or by the hub.
LinkRegistration(t, ty, k, principal) ==
    /\ ty # "NativeInterchainToken"
    /\ InitAccount(t, ty, k)
    /\ GrantRoles(t, principal, {"OPERATOR", "FLOW_LIMITER"})
    /\ UNCHANGED <<service, announced, window, tokens, now, ledger>>

\* The kinds of steps the invariants tell apart.
LEMMA StepKinds ==
    ASSUME [Next]_vars
    PROVE  \/ Configure
           \/ \E t \in TokenIds, limit \in Limits : ChangeFlowLimit(t, limit)
           \/ \E t \in TokenIds, a, b \in Accounts : RoleStep(a, t, b)
           \/ \E t \in TokenIds, a \in Accounts : HandoverMintAuthority(a, t)
           \/ \E t \in TokenIds, a \in Accounts, h \in Holders, amount \in Amounts :
                 MintInterchainToken(a, t, h, amount)
           \/ \E t \in TokenIds, minter \in Accounts \cup {NoAccount}, holder \in Accounts,
                 supply \in 0..U64Max : NativeRegistration(t, minter, holder, supply)
           \/ \E t \in TokenIds, ty \in ManagerTypes, k \in Mints,
                 principal \in Accounts \cup {NoAccount} : LinkRegistration(t, ty, k, principal)
           \/ \E t \in TokenIds, c \in Chains : AnnounceRemotely(t, c)
           \/ \E t \in TokenIds, c \in Chains, a \in Accounts, amount \in Amounts,
                 fee \in Fees : InterchainTransfer(a, t, c, amount, fee)
           \/ \E m \in Inbound, fee \in Fees : ExecuteInterchainTransfer(m, fee)
           \/ UseToken
           \/ Tick
           \/ UNCHANGED vars
  <1>1. ASSUME NEW t \in TokenIds, NEW a \in Accounts, NEW b \in Accounts \cup {NoAccount},
               NEW amount \in Amounts, DeployInterchainToken(a, t, b, amount)
        PROVE  NativeRegistration(t, b, a, amount) /\ amount \in 0..U64Max
    BY <1>1, ItsBounds DEF DeployInterchainToken, NativeRegistration
  <1>2. ASSUME NEW t \in TokenIds, NEW k \in Mints, RegisterCanonicalInterchainToken(t, k)
        PROVE  \E ty \in ManagerTypes : LinkRegistration(t, ty, k, NoAccount)
    BY <1>2 DEF RegisterCanonicalInterchainToken, LinkRegistration, GrantRoles,
                ManagerTypes, LockTypes
  <1>3. ASSUME NEW t \in TokenIds, NEW a \in Accounts, NEW b \in Accounts \cup {NoAccount},
               NEW k \in Mints, NEW ty \in ManagerTypes, RegisterCustomToken(a, t, ty, k, b)
        PROVE  LinkRegistration(t, ty, k, b)
    BY <1>3 DEF RegisterCustomToken, LinkManager, LinkRegistration
  <1>4. ASSUME NEW m \in Inbound, ExecuteDeployInterchainToken(m)
        PROVE  /\ m.token_id \in TokenIds /\ m.principal \in Accounts \cup {NoAccount}
               /\ 0 \in 0..U64Max /\ FirstHolder \in Accounts
               /\ NativeRegistration(m.token_id, m.principal, FirstHolder, 0)
    BY <1>4, MessageTypes, ItsNames, ItsBounds
    DEF ExecuteDeployInterchainToken, Execute, NativeRegistration
  <1>5. ASSUME NEW m \in Inbound, ExecuteLinkToken(m)
        PROVE  /\ m.token_id \in TokenIds /\ m.principal \in Accounts \cup {NoAccount}
               /\ m.ty \in ManagerTypes /\ m.mint \in Mints
               /\ LinkRegistration(m.token_id, m.ty, m.mint, m.principal)
    BY <1>5, MessageTypes DEF ExecuteLinkToken, Execute, LinkManager, LinkRegistration
  <1>6. RegisterToken =>
           \/ \E t \in TokenIds, minter \in Accounts \cup {NoAccount}, holder \in Accounts,
                 supply \in 0..U64Max : NativeRegistration(t, minter, holder, supply)
           \/ \E t \in TokenIds, ty \in ManagerTypes, k \in Mints,
                 principal \in Accounts \cup {NoAccount} : LinkRegistration(t, ty, k, principal)
    BY <1>1, <1>2, <1>3 DEF RegisterToken
  <1>7. ReceiveFromHub =>
           \/ \E t \in TokenIds, minter \in Accounts \cup {NoAccount}, holder \in Accounts,
                 supply \in 0..U64Max : NativeRegistration(t, minter, holder, supply)
           \/ \E t \in TokenIds, ty \in ManagerTypes, k \in Mints,
                 principal \in Accounts \cup {NoAccount} : LinkRegistration(t, ty, k, principal)
           \/ \E m \in Inbound, fee \in Fees : ExecuteInterchainTransfer(m, fee)
    BY <1>4, <1>5 DEF ReceiveFromHub
  <1>8. SendToHub =>
           \/ \E t \in TokenIds, c \in Chains : AnnounceRemotely(t, c)
           \/ \E t \in TokenIds, c \in Chains, a \in Accounts, amount \in Amounts,
                 fee \in Fees : InterchainTransfer(a, t, c, amount, fee)
    BY DEF SendToHub, DeployRemoteInterchainToken, DeployRemoteCanonicalInterchainToken,
           LinkToken
  <1>9. ManageToken =>
           \/ \E t \in TokenIds, limit \in Limits : ChangeFlowLimit(t, limit)
           \/ \E t \in TokenIds, a, b \in Accounts : RoleStep(a, t, b)
           \/ \E t \in TokenIds, a \in Accounts : HandoverMintAuthority(a, t)
           \/ \E t \in TokenIds, a \in Accounts, h \in Holders, amount \in Amounts :
                 MintInterchainToken(a, t, h, amount)
    BY DEF ManageToken, RoleStep, SetFlowLimit, SetTokenManagerFlowLimit
  <1> QED
    BY <1>6, <1>7, <1>8, <1>9, Zenon DEF Next

-----------------------------------------------------------------------------
\* A manager that is not open has left no trace: no roles, no flow, no transfers.
ClosedIsBlank ==
    \A t \in TokenIds : ~manager[t].open =>
        /\ manager[t] = NoManager
        /\ flow_slot[t] = NewFlowState
        /\ window[t] = [in |-> 0, out |-> 0, ceiling |-> NoLimit]
        /\ ledger[t] = [sent |-> 0, received |-> 0]
        /\ \A a \in Accounts : roles[t][a] = {}

\* Before initialize nobody has a role; a mint that does not exist has no authority.
MissingIsBlank ==
    /\ ~its.initialized => \A a \in Accounts : root_roles[a] = {}
    /\ \A k \in Mints : ~mint[k].exists => mint[k] = NoMint

\* Instructions on a manager require the account to exist, so a closed one stays blank.
LEMMA ClosedStep == TypeOK /\ ClosedIsBlank /\ [Next]_vars => ClosedIsBlank'
  <1> SUFFICES ASSUME TypeOK, ClosedIsBlank, [Next]_vars,
                      NEW s \in TokenIds, ~manager'[s].open
               PROVE  /\ manager'[s] = NoManager
                      /\ flow_slot'[s] = NewFlowState
                      /\ window'[s] = [in |-> 0, out |-> 0, ceiling |-> NoLimit]
                      /\ ledger'[s] = [sent |-> 0, received |-> 0]
                      /\ \A a \in Accounts : roles'[s][a] = {}
    BY DEF ClosedIsBlank
  <1> DEFINE Same == /\ manager'[s] = manager[s]
                     /\ flow_slot'[s] = flow_slot[s]
                     /\ ledger'[s] = ledger[s]
                     /\ roles'[s] = roles[s]
  <1>1. CASE Tick
    <2>1. Same /\ flow_slot[s] = NewFlowState
      BY <1>1 DEF Tick, ClosedIsBlank
    <2>2. window'[s] = [in |-> 0, out |-> 0, ceiling |-> NoLimit]
      BY <1>1, <2>1 DEF Tick, ClosedIsBlank, NewFlowState
    <2> QED
      BY <2>1, <2>2 DEF ClosedIsBlank
  <1>2. CASE ~Tick
    <2>1. ASSUME NEW t \in TokenIds, NEW limit \in Limits, ChangeFlowLimit(t, limit)
          PROVE  Same /\ window'[s] = window[s]
      BY <2>1 DEF ChangeFlowLimit, TypeOK
    <2>2. ASSUME NEW t \in TokenIds, NEW a \in Accounts, NEW b \in Accounts, RoleStep(a, t, b)
          PROVE  Same /\ window'[s] = window[s]
      BY <2>2 DEF RoleStep, AddTokenManagerFlowLimiter, RemoveTokenManagerFlowLimiter,
                  TransferTokenManagerOperatorship, TransferInterchainTokenMintership, TypeOK
    <2>3. ASSUME NEW t \in TokenIds, NEW a \in Accounts, HandoverMintAuthority(a, t)
          PROVE  Same /\ window'[s] = window[s]
      BY <2>3 DEF HandoverMintAuthority, MayHandOver, TypeOK
    <2>4. ASSUME NEW t \in TokenIds, NEW minter, NEW holder, NEW supply,
                 NativeRegistration(t, minter, holder, supply)
          PROVE  Same /\ window'[s] = window[s]
      BY <2>4 DEF NativeRegistration, CreateNativeToken, InitAccount, GrantRoles, TypeOK
    <2>5. ASSUME NEW t \in TokenIds, NEW ty, NEW k, NEW principal,
                 LinkRegistration(t, ty, k, principal)
          PROVE  Same /\ window'[s] = window[s]
      BY <2>5 DEF LinkRegistration, InitAccount, GrantRoles, TypeOK
    <2>6. ASSUME NEW t \in TokenIds, NEW c \in Chains, NEW a \in Accounts,
                 NEW amount \in Amounts, NEW fee \in Fees,
                 InterchainTransfer(a, t, c, amount, fee)
          PROVE  Same /\ window'[s] = window[s]
      BY <2>6 DEF InterchainTransfer, TrackTokenFlow, TypeOK
    <2>7. ASSUME NEW m \in Inbound, NEW fee \in Fees, ExecuteInterchainTransfer(m, fee)
          PROVE  Same /\ window'[s] = window[s]
      <3>1. m.token_id \in TokenIds
        BY ItsMessages
      <3> QED
        BY <2>7, <3>1 DEF ExecuteInterchainTransfer, TrackTokenFlow, TypeOK
    <2>8. Configure \/ UseToken \/ UNCHANGED vars => Same /\ window'[s] = window[s]
      BY DEF Configure, Initialize, SetPauseStatus, SetTrustedChain, RemoveTrustedChain,
             TransferOperatorship, UseToken, SplTransfer, SplMint, SplBurn, SplSetAuthority, vars
    <2>9. ASSUME NEW t \in TokenIds, NEW a \in Accounts, NEW h \in Holders,
                 NEW amount \in Amounts, MintInterchainToken(a, t, h, amount)
          PROVE  Same /\ window'[s] = window[s]
      BY <2>9 DEF MintInterchainToken
    <2>10. ASSUME NEW t \in TokenIds, NEW c \in Chains, AnnounceRemotely(t, c)
           PROVE  Same /\ window'[s] = window[s]
      BY <2>10 DEF AnnounceRemotely
    <2>11. Same /\ window'[s] = window[s]
      <3> HIDE DEF Same
      <3> QED
        BY <1>2, <2>1, <2>2, <2>3, <2>4, <2>5, <2>6, <2>7, <2>8, <2>9, <2>10, StepKinds
    <2> QED
      BY <2>11 DEF ClosedIsBlank
  <1> QED
    BY <1>1, <1>2

\* Only Configure touches the configuration of the service and its roles.
LEMMA ServiceFrame ==
    ASSUME [Next]_vars, ~Configure
    PROVE  its' = its /\ root_roles' = root_roles
  <1>1. ASSUME NEW t, NEW a, NEW b, RoleStep(a, t, b) PROVE UNCHANGED service
    BY <1>1 DEF RoleStep, AddTokenManagerFlowLimiter, RemoveTokenManagerFlowLimiter,
                TransferTokenManagerOperatorship, TransferInterchainTokenMintership
  <1>2. ASSUME NEW t, NEW limit, ChangeFlowLimit(t, limit) PROVE UNCHANGED service
    BY <1>2 DEF ChangeFlowLimit
  <1>3. ASSUME NEW t, NEW a, HandoverMintAuthority(a, t) PROVE UNCHANGED service
    BY <1>3 DEF HandoverMintAuthority
  <1>4. ASSUME NEW t, NEW a, NEW h, NEW amount, MintInterchainToken(a, t, h, amount)
        PROVE  UNCHANGED service
    BY <1>4 DEF MintInterchainToken
  <1>5. ASSUME NEW t, NEW minter, NEW holder, NEW supply,
               NativeRegistration(t, minter, holder, supply)
        PROVE  UNCHANGED service
    BY <1>5 DEF NativeRegistration
  <1>6. ASSUME NEW t, NEW ty, NEW k, NEW principal, LinkRegistration(t, ty, k, principal)
        PROVE  UNCHANGED service
    BY <1>6 DEF LinkRegistration
  <1>7. ASSUME NEW t, NEW c, AnnounceRemotely(t, c) PROVE UNCHANGED service
    BY <1>7 DEF AnnounceRemotely
  <1>8. ASSUME NEW t, NEW c, NEW a, NEW amount, NEW fee,
               InterchainTransfer(a, t, c, amount, fee)
        PROVE  UNCHANGED service
    BY <1>8 DEF InterchainTransfer
  <1>9. ASSUME NEW m, NEW fee, ExecuteInterchainTransfer(m, fee) PROVE UNCHANGED service
    BY <1>9 DEF ExecuteInterchainTransfer
  <1>10. UseToken \/ Tick \/ UNCHANGED vars => UNCHANGED service
    BY DEF UseToken, SplTransfer, SplMint, SplBurn, SplSetAuthority, Tick, vars
  <1>11. UNCHANGED service
    <2> HIDE DEF service
    <2> QED
      BY <1>1, <1>2, <1>3, <1>4, <1>5, <1>6, <1>7, <1>8, <1>9, <1>10, StepKinds
  <1> QED
    BY <1>11

\* What moves no tokens and changes no authority leaves mints and balances alone.
TokenStep ==
    \/ \E t \in TokenIds, a \in Accounts : HandoverMintAuthority(a, t)
    \/ \E t \in TokenIds, a \in Accounts, h \in Holders, amount \in Amounts :
          MintInterchainToken(a, t, h, amount)
    \/ \E t \in TokenIds, minter \in Accounts \cup {NoAccount}, holder \in Accounts,
          supply \in 0..U64Max : NativeRegistration(t, minter, holder, supply)
    \/ \E t \in TokenIds, c \in Chains, a \in Accounts, amount \in Amounts,
          fee \in Fees : InterchainTransfer(a, t, c, amount, fee)
    \/ \E m \in Inbound, fee \in Fees : ExecuteInterchainTransfer(m, fee)
    \/ UseToken

\* The frame of TokenStep.
LEMMA TokenFrame ==
    ASSUME [Next]_vars, ~TokenStep
    PROVE  mint' = mint /\ balance' = balance /\ issued' = issued /\ ledger' = ledger
  <1>1. ASSUME NEW t, NEW a, NEW b, RoleStep(a, t, b) PROVE UNCHANGED <<tokens, ledger>>
    BY <1>1 DEF RoleStep, AddTokenManagerFlowLimiter, RemoveTokenManagerFlowLimiter,
                TransferTokenManagerOperatorship, TransferInterchainTokenMintership
  <1>2. ASSUME NEW t, NEW limit, ChangeFlowLimit(t, limit) PROVE UNCHANGED <<tokens, ledger>>
    BY <1>2 DEF ChangeFlowLimit
  <1>3. ASSUME NEW t, NEW ty, NEW k, NEW principal, LinkRegistration(t, ty, k, principal)
        PROVE  UNCHANGED <<tokens, ledger>>
    BY <1>3 DEF LinkRegistration
  <1>4. ASSUME NEW t, NEW c, AnnounceRemotely(t, c) PROVE UNCHANGED <<tokens, ledger>>
    BY <1>4 DEF AnnounceRemotely
  <1>5. Configure \/ Tick \/ UNCHANGED vars => UNCHANGED <<tokens, ledger>>
    BY DEF Configure, Initialize, SetPauseStatus, SetTrustedChain, RemoveTrustedChain,
           TransferOperatorship, Tick, vars
  <1>6. UNCHANGED <<tokens, ledger>>
    <2> HIDE DEF tokens
    <2> QED
      BY <1>1, <1>2, <1>3, <1>4, <1>5, StepKinds DEF TokenStep
  <1> QED
    BY <1>6

\* Roles of the service come with initialize; mints come with their authority.
LEMMA MissingStep == TypeOK /\ MissingIsBlank /\ [Next]_vars => MissingIsBlank'
  <1> SUFFICES ASSUME TypeOK, MissingIsBlank, [Next]_vars PROVE MissingIsBlank'
    OBVIOUS
  <1>1. ~its'.initialized => \A a \in Accounts : root_roles'[a] = {}
    <2>1. CASE Configure
      BY <2>1 DEF Configure, Initialize, SetPauseStatus, SetTrustedChain, RemoveTrustedChain,
                  TransferOperatorship, TypeOK, MissingIsBlank
    <2>2. CASE ~Configure
      BY <2>2, ServiceFrame DEF MissingIsBlank
    <2> QED
      BY <2>1, <2>2
  <1>2. ASSUME NEW k \in Mints, ~mint'[k].exists
        PROVE  mint'[k] = mint[k]
    <2>1. ASSUME NEW t \in TokenIds, NEW a \in Accounts, HandoverMintAuthority(a, t)
          PROVE  mint'[k] = mint[k]
      BY <1>2, <2>1 DEF HandoverMintAuthority, TypeOK
    <2>2. ASSUME NEW t \in TokenIds, NEW a \in Accounts, NEW h \in Holders,
                 NEW amount \in Amounts, MintInterchainToken(a, t, h, amount)
          PROVE  mint'[k] = mint[k]
      BY <1>2, <2>2 DEF MintInterchainToken, MintTo, TypeOK
    <2>3. ASSUME NEW t \in TokenIds, NEW minter, NEW holder, NEW supply,
                 NativeRegistration(t, minter, holder, supply)
          PROVE  mint'[k] = mint[k]
      BY <1>2, <2>3 DEF NativeRegistration, CreateNativeToken, TypeOK
    <2>4. ASSUME NEW t \in TokenIds, NEW c, NEW a, NEW amount, NEW fee,
                 InterchainTransfer(a, t, c, amount, fee)
          PROVE  mint'[k] = mint[k]
      BY <1>2, <2>4 DEF InterchainTransfer, Burn, Transfer, TypeOK
    <2>5. ASSUME NEW m \in Inbound, NEW fee, ExecuteInterchainTransfer(m, fee)
          PROVE  mint'[k] = mint[k]
      BY <1>2, <2>5 DEF ExecuteInterchainTransfer, MintTo, Transfer, TypeOK
    <2>6. UseToken => mint'[k] = mint[k]
      BY <1>2 DEF UseToken, SplTransfer, SplMint, SplBurn, SplSetAuthority,
                  MintTo, Burn, Transfer, TypeOK
    <2> QED
      BY <2>1, <2>2, <2>3, <2>4, <2>5, <2>6, TokenFrame DEF TokenStep
  <1> QED
    BY <1>1, <1>2 DEF MissingIsBlank

\* Managers and their roles change in registrations, role changes and handovers.
RegistryStep ==
    \/ \E t \in TokenIds, a, b \in Accounts : RoleStep(a, t, b)
    \/ \E t \in TokenIds, a \in Accounts : HandoverMintAuthority(a, t)
    \/ \E t \in TokenIds, minter \in Accounts \cup {NoAccount}, holder \in Accounts,
          supply \in 0..U64Max : NativeRegistration(t, minter, holder, supply)
    \/ \E t \in TokenIds, ty \in ManagerTypes, k \in Mints,
          principal \in Accounts \cup {NoAccount} : LinkRegistration(t, ty, k, principal)

\* The frame of RegistryStep.
LEMMA RegistryFrame ==
    ASSUME [Next]_vars, ~RegistryStep
    PROVE  manager' = manager /\ roles' = roles
  <1>1. ASSUME NEW t, NEW limit, ChangeFlowLimit(t, limit) PROVE UNCHANGED <<manager, roles>>
    BY <1>1 DEF ChangeFlowLimit
  <1>2. ASSUME NEW t, NEW a, NEW h, NEW amount, MintInterchainToken(a, t, h, amount)
        PROVE  UNCHANGED <<manager, roles>>
    BY <1>2 DEF MintInterchainToken
  <1>3. ASSUME NEW t, NEW c, AnnounceRemotely(t, c) PROVE UNCHANGED <<manager, roles>>
    BY <1>3 DEF AnnounceRemotely
  <1>4. ASSUME NEW t, NEW c, NEW a, NEW amount, NEW fee,
               InterchainTransfer(a, t, c, amount, fee)
        PROVE  UNCHANGED <<manager, roles>>
    BY <1>4 DEF InterchainTransfer
  <1>5. ASSUME NEW m, NEW fee, ExecuteInterchainTransfer(m, fee)
        PROVE  UNCHANGED <<manager, roles>>
    BY <1>5 DEF ExecuteInterchainTransfer
  <1>6. Configure \/ UseToken \/ Tick \/ UNCHANGED vars => UNCHANGED <<manager, roles>>
    BY DEF Configure, Initialize, SetPauseStatus, SetTrustedChain, RemoveTrustedChain,
           TransferOperatorship, UseToken, SplTransfer, SplMint, SplBurn, SplSetAuthority,
           Tick, vars
  <1>7. UNCHANGED <<manager, roles>>
    BY <1>1, <1>2, <1>3, <1>4, <1>5, <1>6, StepKinds DEF RegistryStep
  <1> QED
    BY <1>7

\* Minting, burning and transferring keep every authority.
LEMMA TokenProgramKeepsAuthority ==
    ASSUME TypeOK, NEW j, NEW from, NEW to, NEW amount, NEW fee,
           \/ MintTo(j, to, amount)
           \/ Burn(j, from, amount)
           \/ Transfer(j, from, to, amount, fee),
           NEW k \in Mints
    PROVE  mint'[k].authority = mint[k].authority
  <1>1. mint' = mint \/ \E n : mint' = [mint EXCEPT ![j] =
                            [exists |-> TRUE, authority |-> mint[j].authority, supply |-> n]]
    BY DEF MintTo, Burn, Transfer
  <1>2. DOMAIN mint = Mints
    BY DEF TypeOK
  <1> QED
    BY <1>1, <1>2

\* The authority of a mint that a manager controls stays with the manager: only
\* wallets sign changes of the authority, and an existing mint is not created again.
LEMMA AuthorityStays ==
    ASSUME TypeOK, MissingIsBlank, [Next]_vars,
           NEW k \in Mints, mint[k].authority \in TokenIds
    PROVE  mint'[k].authority = mint[k].authority
  <1>1. mint[k].exists /\ mint[k].authority \notin Accounts
    BY ItsNames DEF MissingIsBlank, NoMint, Holders
  <1>2. ASSUME NEW t \in TokenIds, NEW a \in Accounts, HandoverMintAuthority(a, t)
        PROVE  mint'[k].authority = mint[k].authority
    BY <1>1, <1>2 DEF HandoverMintAuthority, TypeOK
  <1>3. ASSUME NEW t \in TokenIds, NEW a \in Accounts, NEW h \in Holders,
               NEW amount \in Amounts, MintInterchainToken(a, t, h, amount)
        PROVE  mint'[k].authority = mint[k].authority
    BY <1>3, TokenProgramKeepsAuthority DEF MintInterchainToken
  <1>4. ASSUME NEW t \in TokenIds, NEW minter, NEW holder, NEW supply,
               NativeRegistration(t, minter, holder, supply)
        PROVE  mint'[k].authority = mint[k].authority
    BY <1>1, <1>4 DEF NativeRegistration, CreateNativeToken, TypeOK
  <1>5. ASSUME NEW t \in TokenIds, NEW c, NEW a, NEW amount, NEW fee,
               InterchainTransfer(a, t, c, amount, fee)
        PROVE  mint'[k].authority = mint[k].authority
    BY <1>5, TokenProgramKeepsAuthority DEF InterchainTransfer
  <1>6. ASSUME NEW m \in Inbound, NEW fee, ExecuteInterchainTransfer(m, fee)
        PROVE  mint'[k].authority = mint[k].authority
    BY <1>6, TokenProgramKeepsAuthority DEF ExecuteInterchainTransfer
  <1>7. UseToken => mint'[k].authority = mint[k].authority
    <2>1. ASSUME NEW j \in Mints, NEW a \in Accounts, NEW new, SplSetAuthority(j, a, new)
          PROVE  mint'[k].authority = mint[k].authority
      BY <1>1, <2>1 DEF SplSetAuthority, TypeOK
    <2> QED
      BY <2>1, TokenProgramKeepsAuthority, ZenonT(60) DEF UseToken, SplTransfer, SplMint, SplBurn
  <1> QED
    BY <1>2, <1>3, <1>4, <1>5, <1>6, <1>7, TokenFrame DEF TokenStep

\* transfer_operatorship moves the service's operator role; initialize gives the first.
LEMMA RootRolesStep ==
    ASSUME TypeOK, MissingIsBlank, RolesAreUnique, [Next]_vars
    PROVE  /\ \A a, b \in Accounts :
                 "OPERATOR" \in root_roles'[a] \cap root_roles'[b] => a = b
           /\ its'.initialized => \E a \in Accounts : "OPERATOR" \in root_roles'[a]
  <1>1. CASE Initialize
    BY <1>1, ItsNames DEF Initialize, MissingIsBlank, TypeOK
  <1>2. ASSUME NEW a \in Accounts, NEW b \in Accounts, TransferOperatorship(a, b)
        PROVE  /\ \A x, y \in Accounts :
                     "OPERATOR" \in root_roles'[x] \cap root_roles'[y] => x = y
               /\ "OPERATOR" \in root_roles'[b]
    <2>1. a # b /\ "OPERATOR" \in Roles /\ root_roles' = MoveRole(root_roles, a, b, "OPERATOR")
      BY <1>2 DEF TransferOperatorship, Roles
    <2>2. /\ root_roles'[a] = root_roles[a] \ {"OPERATOR"}
          /\ root_roles'[b] = root_roles[b] \cup {"OPERATOR"}
          /\ \A c \in Accounts \ {a, b} : root_roles'[c] = root_roles[c]
      BY <2>1, MoveRoleEffect DEF TypeOK
    <2> QED
      BY <1>2, <2>2 DEF TransferOperatorship, RolesAreUnique
  <1>3. CASE ~Configure
    BY <1>3, ServiceFrame DEF RolesAreUnique
  <1> QED
    BY <1>1, <1>2, <1>3
    DEF Configure, SetPauseStatus, SetTrustedChain, RemoveTrustedChain, RolesAreUnique

\* Registration grants roles in an empty account, transfers move them, and a handover
\* adds a minter only where there was none, since a manager with a minter is already
\* the authority of its mint.
LEMMA ManagerRolesStep ==
    ASSUME TypeOK, ClosedIsBlank, MissingIsBlank, RolesAreUnique, [Next]_vars,
           NEW t \in TokenIds
    PROVE  /\ \A role \in {"MINTER", "OPERATOR"}, a, b \in Accounts :
                 role \in roles'[t][a] \cap roles'[t][b] => a = b
           /\ \A a \in Accounts : "MINTER" \in roles'[t][a] =>
                 manager'[t].open /\ mint'[manager'[t].mint].authority = t
  <1> DEFINE Unique == \A role \in {"MINTER", "OPERATOR"}, a, b \in Accounts :
                          role \in roles'[t][a] \cap roles'[t][b] => a = b
             Able == \A a \in Accounts : "MINTER" \in roles'[t][a] =>
                        manager'[t].open /\ mint'[manager'[t].mint].authority = t
  <1>1. ASSUME manager'[t] = manager[t],
               \A a \in Accounts : "MINTER" \in roles'[t][a] =>
                   \E b \in Accounts : "MINTER" \in roles[t][b]
        PROVE  Able
    BY <1>1, AuthorityStays DEF RolesAreUnique, TypeOK
  <1>2. ASSUME NEW s \in TokenIds, NEW a \in Accounts, NEW b \in Accounts, RoleStep(a, s, b)
        PROVE  Unique /\ Able
    <2>1. manager' = manager
      BY <1>2 DEF RoleStep, AddTokenManagerFlowLimiter, RemoveTokenManagerFlowLimiter,
                  TransferTokenManagerOperatorship, TransferInterchainTokenMintership
    <2>2. ASSUME NEW role \in {"MINTER", "OPERATOR"}, s = t, a # b, role \in roles[t][a],
                 roles' = [roles EXCEPT ![t] = MoveRole(roles[t], a, b, role)]
          PROVE  Unique /\ Able
      <3>1. /\ roles'[t][a] = roles[t][a] \ {role}
            /\ roles'[t][b] = roles[t][b] \cup {role}
            /\ \A c \in Accounts \ {a, b} : roles'[t][c] = roles[t][c]
        <4>1. roles[t] \in [Accounts -> SUBSET Roles] /\ role \in Roles
          BY <2>2 DEF TypeOK, Roles
        <4>2. roles'[t] = MoveRole(roles[t], a, b, role)
          BY <2>2 DEF TypeOK
        <4> QED
          BY <2>2, <4>1, <4>2, MoveRoleEffect
      <3>2. Unique
        BY <2>2, <3>1 DEF RolesAreUnique
      <3>3. \A c \in Accounts : "MINTER" \in roles'[t][c] =>
                \E d \in Accounts : "MINTER" \in roles[t][d]
        BY <2>2, <3>1
      <3> QED
        BY <1>1, <2>1, <3>2, <3>3
    <2>3. CASE s = t /\ (AddTokenManagerFlowLimiter(a, s, b) \/ RemoveTokenManagerFlowLimiter(a, s, b))
      <3>1. \A c \in Accounts, role \in {"MINTER", "OPERATOR"} :
                role \in roles'[t][c] <=> role \in roles[t][c]
        <4>1. \/ roles'[t] = [roles[t] EXCEPT ![b] = roles[t][b] \cup {"FLOW_LIMITER"}]
              \/ roles'[t] = [roles[t] EXCEPT ![b] = roles[t][b] \ {"FLOW_LIMITER"}]
          BY <2>3 DEF AddTokenManagerFlowLimiter, RemoveTokenManagerFlowLimiter, TypeOK
        <4>2. roles[t] \in [Accounts -> SUBSET Roles]
          BY DEF TypeOK
        <4> QED
          BY <4>1, <4>2
      <3> QED
        BY <1>1, <2>1, <3>1 DEF RolesAreUnique
    <2>4. CASE s # t
      <3>1. roles'[t] = roles[t]
        BY <1>2, <2>4 DEF RoleStep, AddTokenManagerFlowLimiter, RemoveTokenManagerFlowLimiter,
              TransferTokenManagerOperatorship, TransferInterchainTokenMintership, TypeOK
      <3> QED
        BY <1>1, <2>1, <3>1 DEF RolesAreUnique
    <2> QED
      BY <1>2, <2>2, <2>3, <2>4
      DEF RoleStep, TransferTokenManagerOperatorship, TransferInterchainTokenMintership
  <1>3. ASSUME NEW s \in TokenIds, NEW a \in Accounts, HandoverMintAuthority(a, s)
        PROVE  Unique /\ Able
    <2>1. CASE s # t
      <3>1. roles'[t] = roles[t] /\ manager' = manager
        BY <1>3, <2>1 DEF HandoverMintAuthority, TypeOK
      <3> QED
        BY <1>1, <3>1 DEF RolesAreUnique
    <2>2. CASE s = t
      <3>1. \A b \in Accounts : "MINTER" \notin roles[t][b]
        BY <1>3, <2>2, ItsNames DEF HandoverMintAuthority, RolesAreUnique
      <3>2. /\ roles'[t][a] = roles[t][a] \cup {"MINTER"}
            /\ \A b \in Accounts \ {a} : roles'[t][b] = roles[t][b]
        BY <1>3, <2>2 DEF HandoverMintAuthority, TypeOK
      <3>3. Unique
        BY <3>1, <3>2 DEF RolesAreUnique
      <3>4. Able
        BY <1>3, <2>2 DEF HandoverMintAuthority, MayHandOver, TypeOK
      <3> QED
        BY <3>3, <3>4
    <2> QED
      BY <2>1, <2>2
  <1>4. ASSUME NEW s \in TokenIds, NEW ty, NEW k, NEW principal \in Accounts \cup {NoAccount},
               NEW granted, InitAccount(s, ty, k), GrantRoles(s, principal, granted),
               "MINTER" \in granted => mint'[k].authority = s
        PROVE  Unique /\ Able
    <2>1. CASE s # t
      <3>1. roles'[t] = roles[t] /\ manager'[t] = manager[t]
        BY <1>4, <2>1 DEF InitAccount, GrantRoles, TypeOK
      <3> QED
        BY <1>1, <3>1 DEF RolesAreUnique
    <2>2. CASE s = t
      <3>1. \A a \in Accounts : roles[t][a] = {}
        BY <1>4, <2>2 DEF InitAccount, ClosedIsBlank
      <3>2. \A a \in Accounts : roles'[t][a] = IF a = principal THEN granted ELSE {}
        BY <1>4, <2>2, <3>1, ItsNames DEF GrantRoles, TypeOK, Holders
      <3>3. manager'[t].open /\ manager'[t].mint = k
        BY <1>4, <2>2 DEF InitAccount, TypeOK
      <3> QED
        BY <1>4, <2>2, <3>2, <3>3
    <2> QED
      BY <2>1, <2>2
  <1>5. ASSUME NEW s \in TokenIds, NEW minter \in Accounts \cup {NoAccount}, NEW holder,
               NEW supply, NativeRegistration(s, minter, holder, supply)
        PROVE  Unique /\ Able
    <2>1. mint'[NativeMint[s]].authority = s
      BY <1>5, ItsNames DEF NativeRegistration, CreateNativeToken, TypeOK
    <2> QED
      BY <1>4, <1>5, <2>1 DEF NativeRegistration, CreateNativeToken
  <1>6. ASSUME NEW s \in TokenIds, NEW ty, NEW k, NEW principal \in Accounts \cup {NoAccount},
               LinkRegistration(s, ty, k, principal)
        PROVE  Unique /\ Able
    BY <1>4, <1>6 DEF LinkRegistration
  <1>7. ASSUME ~RegistryStep PROVE Unique /\ Able
    BY <1>1, <1>7, RegistryFrame DEF RolesAreUnique
  <1>8. Unique /\ Able
    <2> HIDE DEF Unique, Able
    <2> QED
      BY <1>2, <1>3, <1>5, <1>6, <1>7 DEF RegistryStep
  <1> QED
    BY <1>8

\* Both together: the roles stay unique.
LEMMA RolesStep ==
    TypeOK /\ ClosedIsBlank /\ MissingIsBlank /\ RolesAreUnique /\ [Next]_vars => RolesAreUnique'
  BY RootRolesStep, ManagerRolesStep DEF RolesAreUnique

-----------------------------------------------------------------------------
\* Why FlowLimitHolds is kept: while there has been a limit throughout the epoch,
\* the counters on chain, reset if they are of an earlier epoch, are what really
\* crossed in it, and the limit in force is at most the weakest of the epoch.
FlowsAgree ==
    \A t \in TokenIds :
        /\ flow_slot[t].epoch <= CurrentFlowEpoch
        /\ window[t].ceiling # NoLimit =>
            /\ flow_slot[t].flow_limit # NoLimit
            /\ flow_slot[t].flow_limit <= window[t].ceiling
            /\ ResetFlowSlot(flow_slot[t]).flow_in = window[t].in
            /\ ResetFlowSlot(flow_slot[t]).flow_out = window[t].out

\* What a step must keep for the flow limits.
FlowInv == FlowsAgree /\ FlowLimitHolds

\* The steps that touch limits, counters, windows or the clock.
FlowStep ==
    \/ \E t \in TokenIds, limit \in Limits : ChangeFlowLimit(t, limit)
    \/ \E t \in TokenIds, minter \in Accounts \cup {NoAccount}, holder \in Accounts,
          supply \in 0..U64Max : NativeRegistration(t, minter, holder, supply)
    \/ \E t \in TokenIds, ty \in ManagerTypes, k \in Mints,
          principal \in Accounts \cup {NoAccount} : LinkRegistration(t, ty, k, principal)
    \/ \E t \in TokenIds, c \in Chains, a \in Accounts, amount \in Amounts,
          fee \in Fees : InterchainTransfer(a, t, c, amount, fee)
    \/ \E m \in Inbound, fee \in Fees : ExecuteInterchainTransfer(m, fee)
    \/ Tick

\* The frame of FlowStep.
LEMMA FlowFrame ==
    ASSUME [Next]_vars, ~FlowStep
    PROVE  flow_slot' = flow_slot /\ window' = window /\ now' = now
  <1>1. ASSUME NEW t, NEW a, NEW b, RoleStep(a, t, b) PROVE UNCHANGED <<flow_slot, window, now>>
    BY <1>1 DEF RoleStep, AddTokenManagerFlowLimiter, RemoveTokenManagerFlowLimiter,
                TransferTokenManagerOperatorship, TransferInterchainTokenMintership
  <1>2. ASSUME NEW t, NEW a, HandoverMintAuthority(a, t)
        PROVE  UNCHANGED <<flow_slot, window, now>>
    BY <1>2 DEF HandoverMintAuthority
  <1>3. ASSUME NEW t, NEW a, NEW h, NEW amount, MintInterchainToken(a, t, h, amount)
        PROVE  UNCHANGED <<flow_slot, window, now>>
    BY <1>3 DEF MintInterchainToken
  <1>4. ASSUME NEW t, NEW c, AnnounceRemotely(t, c) PROVE UNCHANGED <<flow_slot, window, now>>
    BY <1>4 DEF AnnounceRemotely
  <1>5. Configure \/ UseToken \/ UNCHANGED vars => UNCHANGED <<flow_slot, window, now>>
    BY DEF Configure, Initialize, SetPauseStatus, SetTrustedChain, RemoveTrustedChain,
           TransferOperatorship, UseToken, SplTransfer, SplMint, SplBurn, SplSetAuthority, vars
  <1>6. UNCHANGED <<flow_slot, window, now>>
    BY <1>1, <1>2, <1>3, <1>4, <1>5, StepKinds DEF FlowStep
  <1> QED
    BY <1>6

\* track_token_flow refuses what would exceed the limit in either direction.
LEMMA TrackKeepsFlowInv ==
    ASSUME TypeOK, FlowInv, NEW t \in TokenIds, NEW amount \in 0..U64Max,
           NEW direction \in {"In", "Out"}, TrackTokenFlow(t, amount, direction), now' = now
    PROVE  FlowInv'
  <1> USE ItsBounds DEF NoLimit
  <1> DEFINE e == CurrentFlowEpoch
             slot == ResetFlowSlot(flow_slot[t])
  <1>1. e \in Nat /\ CurrentFlowEpoch' = e
    BY EpochIsNat DEF CurrentFlowEpoch, TypeOK
  <1>2. slot \in FlowSlots /\ slot.epoch = e /\ slot.flow_limit = flow_slot[t].flow_limit
    BY <1>1 DEF ResetFlowSlot, TypeOK, FlowSlots
  <1>3. ASSUME NEW s \in TokenIds, s # t
        PROVE  flow_slot'[s] = flow_slot[s] /\ window'[s] = window[s]
    BY <1>3 DEF TrackTokenFlow, TypeOK
  <1>4. flow_slot'[t].epoch <= e
    BY <1>1, <1>2 DEF TrackTokenFlow, TypeOK, FlowInv, FlowsAgree
  <1>5. ASSUME window'[t].ceiling # NoLimit
        PROVE  /\ flow_slot'[t].flow_limit # NoLimit
               /\ flow_slot'[t].flow_limit <= window'[t].ceiling
               /\ flow_slot'[t].epoch = e
               /\ flow_slot'[t].flow_in = window'[t].in
               /\ flow_slot'[t].flow_out = window'[t].out
               /\ window'[t].in - window'[t].out <= window'[t].ceiling
               /\ window'[t].out - window'[t].in <= window'[t].ceiling
    <2>1. window[t] \in Windows /\ flow_slot[t] \in FlowSlots
      BY DEF TypeOK, Windows, FlowSlots
    <2>2. /\ window'[t].ceiling = window[t].ceiling
          /\ window'[t].in = window[t].in + (IF direction = "In" THEN amount ELSE 0)
          /\ window'[t].out = window[t].out + (IF direction = "In" THEN 0 ELSE amount)
      BY DEF TrackTokenFlow, TypeOK
    <2>3. /\ flow_slot[t].flow_limit # NoLimit
          /\ flow_slot[t].flow_limit <= window[t].ceiling
          /\ slot.flow_in = window[t].in
          /\ slot.flow_out = window[t].out
      BY <1>5, <2>2 DEF FlowInv, FlowsAgree
    <2>4. /\ flow_slot'[t].flow_limit = flow_slot[t].flow_limit
          /\ flow_slot'[t].epoch = e
          /\ flow_slot'[t].flow_in = slot.flow_in + (IF direction = "In" THEN amount ELSE 0)
          /\ flow_slot'[t].flow_out = slot.flow_out + (IF direction = "In" THEN 0 ELSE amount)
      BY <1>2, <2>3 DEF TrackTokenFlow, TypeOK
    <2>5. IF direction = "In"
          THEN WithinLimit(flow_slot[t].flow_limit, slot.flow_in, slot.flow_out, amount)
          ELSE WithinLimit(flow_slot[t].flow_limit, slot.flow_out, slot.flow_in, amount)
      BY <2>3 DEF TrackTokenFlow
    <2> QED
      BY <1>2, <2>1, <2>2, <2>3, <2>4, <2>5 DEF WithinLimit, Windows, FlowSlots
  <1>6. window'[t].ceiling # NoLimit =>
            (ResetFlowSlot(flow_slot[t]))' = flow_slot'[t]
    BY <1>1, <1>5 DEF ResetFlowSlot
  <1>7. FlowsAgree'
    BY <1>1, <1>3, <1>4, <1>5, <1>6 DEF FlowInv, FlowsAgree, ResetFlowSlot
  <1>8. FlowLimitHolds'
    BY <1>3, <1>5 DEF FlowInv, FlowLimitHolds
  <1> QED
    BY <1>7, <1>8 DEF FlowInv

\* No step lets the counters drift from what crossed: a new limit keeps them, the clock
\* opens a window in which stale counters read as zero, a registration starts afresh.
LEMMA FlowInvStep == TypeOK /\ ClosedIsBlank /\ FlowInv /\ [Next]_vars => FlowInv'
  <1> SUFFICES ASSUME TypeOK, ClosedIsBlank, FlowInv, [Next]_vars PROVE FlowInv'
    OBVIOUS
  <1>1. ASSUME flow_slot' = flow_slot, window' = window, now' = now
        PROVE  FlowInv'
    BY <1>1 DEF FlowInv, FlowsAgree, FlowLimitHolds, ResetFlowSlot, CurrentFlowEpoch
  <1>2. ASSUME NEW t \in TokenIds, NEW limit \in Limits, ChangeFlowLimit(t, limit)
        PROVE  FlowInv'
    <2>1. now' = now /\ CurrentFlowEpoch' = CurrentFlowEpoch
      BY <1>2 DEF ChangeFlowLimit, CurrentFlowEpoch
    <2>2. /\ flow_slot'[t] = WithFlowLimit(flow_slot[t], limit)
          /\ window'[t] = [in |-> window[t].in, out |-> window[t].out,
                           ceiling |-> Weakest(window[t].ceiling, limit)]
          /\ \A s \in TokenIds \ {t} : flow_slot'[s] = flow_slot[s] /\ window'[s] = window[s]
      BY <1>2 DEF ChangeFlowLimit, TypeOK
    <2>3. /\ flow_slot[t] \in FlowSlots /\ window[t] \in Windows
          /\ limit \in {NoLimit} \cup 0..U64Max
      BY ItsBounds DEF TypeOK, FlowSlots, Windows
    <2>4. ASSUME Weakest(window[t].ceiling, limit) # NoLimit
          PROVE  /\ window[t].ceiling # NoLimit
                 /\ limit # NoLimit
                 /\ limit <= Weakest(window[t].ceiling, limit)
                 /\ window[t].ceiling <= Weakest(window[t].ceiling, limit)
      BY <2>3, <2>4, ItsBounds DEF Weakest, Windows, NoLimit
    <2>5. /\ (ResetFlowSlot(flow_slot[t]))'.flow_in = ResetFlowSlot(flow_slot[t]).flow_in
          /\ (ResetFlowSlot(flow_slot[t]))'.flow_out = ResetFlowSlot(flow_slot[t]).flow_out
      BY <2>1, <2>2 DEF ResetFlowSlot, WithFlowLimit
    <2>6. FlowsAgree'
      BY <2>1, <2>2, <2>3, <2>4, <2>5 DEF FlowInv, FlowsAgree, WithFlowLimit, ResetFlowSlot
    <2>7. FlowLimitHolds'
      <3>1. Weakest(window[t].ceiling, limit) \in Int
        BY <2>3, ItsBounds DEF Weakest, Windows, NoLimit
      <3> QED
        BY <2>2, <2>3, <2>4, <3>1 DEF FlowInv, FlowLimitHolds, Windows, NoLimit
    <2> QED
      BY <2>6, <2>7 DEF FlowInv
  <1>3. ASSUME NEW t \in TokenIds, NEW ty, NEW k, InitAccount(t, ty, k),
               window' = window, now' = now
        PROVE  FlowInv'
    <2>1. flow_slot' = flow_slot
      BY <1>3 DEF InitAccount, ClosedIsBlank, TypeOK
    <2> QED
      BY <1>1, <1>3, <2>1
  <1>4. ASSUME NEW t \in TokenIds, NEW c \in Chains, NEW a \in Accounts, NEW amount \in Amounts,
               NEW fee \in Fees, InterchainTransfer(a, t, c, amount, fee)
        PROVE  FlowInv'
    <2>1. TakenAmount(amount, fee) \in 0..U64Max
      BY <1>4, ItsBounds DEF InterchainTransfer, FeesFor, TakenAmount
    <2> QED
      BY <1>4, <2>1, TrackKeepsFlowInv DEF InterchainTransfer
  <1>5. ASSUME NEW m \in Inbound, NEW fee \in Fees, ExecuteInterchainTransfer(m, fee)
        PROVE  FlowInv'
    <2>1. m.token_id \in TokenIds /\ m.amount \in 0..U64Max
      BY ItsMessages
    <2> QED
      BY <1>5, <2>1, TrackKeepsFlowInv DEF ExecuteInterchainTransfer
  <1>6. ASSUME Tick PROVE FlowInv'
    <2>1. /\ CurrentFlowEpoch \in Nat /\ CurrentFlowEpoch' \in Nat
          /\ CurrentFlowEpoch' = (now + 1) \div EpochTime
          /\ CurrentFlowEpoch <= CurrentFlowEpoch'
      BY <1>6, EpochIsNat, EpochGrows DEF Tick, CurrentFlowEpoch, TypeOK
    <2>2. flow_slot' = flow_slot /\ \A t \in TokenIds : flow_slot[t].epoch \in Nat
      BY <1>6 DEF Tick, TypeOK
    <2>3. CASE CurrentFlowEpoch' = CurrentFlowEpoch
      BY <1>6, <2>1, <2>2, <2>3 DEF Tick, FlowInv, FlowsAgree, FlowLimitHolds, ResetFlowSlot
    <2>4. CASE CurrentFlowEpoch' # CurrentFlowEpoch
      <3>1. ASSUME NEW t \in TokenIds
            PROVE  /\ window'[t].in = 0 /\ window'[t].out = 0
                   /\ window'[t].ceiling = flow_slot[t].flow_limit
                   /\ flow_slot[t].epoch <= CurrentFlowEpoch
        <4>1. window' = [s \in TokenIds |->
                          [in |-> 0, out |-> 0, ceiling |-> flow_slot[s].flow_limit]]
          BY <1>6, <2>1, <2>4 DEF Tick
        <4>2. window'[t] = [in |-> 0, out |-> 0, ceiling |-> flow_slot[t].flow_limit]
          BY <4>1
        <4>3. flow_slot[t].epoch <= CurrentFlowEpoch
          BY DEF FlowInv, FlowsAgree
        <4> QED
          BY <4>2, <4>3
      <3>2. CurrentFlowEpoch < CurrentFlowEpoch'
        BY <2>1, <2>4
      <3>3. ASSUME NEW t \in TokenIds
            PROVE  /\ flow_slot'[t].epoch <= CurrentFlowEpoch'
                   /\ flow_slot'[t].epoch # CurrentFlowEpoch'
        <4>1. flow_slot[t].epoch \in Nat /\ flow_slot[t].epoch <= CurrentFlowEpoch
          BY <2>2, <3>1
        <4> QED
          BY <2>1, <2>2, <3>2, <4>1
      <3>4. ASSUME NEW t \in TokenIds
            PROVE  /\ flow_slot[t].flow_limit \in Int
                   /\ flow_slot[t].flow_limit # NoLimit => 0 <= flow_slot[t].flow_limit
        BY ItsBounds DEF TypeOK, NoLimit
      <3>5. FlowsAgree'
        <4> SUFFICES ASSUME NEW t \in TokenIds, window'[t].ceiling # NoLimit
                     PROVE  /\ flow_slot'[t].flow_limit = window'[t].ceiling
                            /\ window'[t].in = 0 /\ window'[t].out = 0
          BY <2>2, <3>3, <3>4 DEF FlowsAgree, ResetFlowSlot
        <4> QED
          BY <2>2, <3>1
      <3>6. FlowLimitHolds'
        <4> SUFFICES ASSUME NEW t \in TokenIds, window'[t].ceiling # NoLimit
                     PROVE  /\ window'[t].in - window'[t].out <= window'[t].ceiling
                            /\ window'[t].out - window'[t].in <= window'[t].ceiling
          BY DEF FlowLimitHolds
        <4>1. /\ window'[t].in = 0 /\ window'[t].out = 0
              /\ window'[t].ceiling = flow_slot[t].flow_limit
          BY <3>1
        <4>2. window'[t].ceiling \in Int /\ 0 <= window'[t].ceiling
          BY <3>4, <4>1
        <4> QED
          BY <4>1, <4>2
      <3> QED
        BY <3>5, <3>6 DEF FlowInv
    <2> QED
      BY <2>3, <2>4
  <1>7. ASSUME FlowStep PROVE FlowInv'
    BY <1>2, <1>3, <1>4, <1>5, <1>6, <1>7
    DEF FlowStep, NativeRegistration, CreateNativeToken, LinkRegistration
  <1>8. ASSUME ~FlowStep PROVE FlowInv'
    BY <1>1, <1>8, FlowFrame
  <1> QED
    BY <1>7, <1>8

-----------------------------------------------------------------------------
\* What the token program does to each mint and each token account: the supply and the
\* recipient's account grow.
LEMMA MintToEffect ==
    ASSUME TypeOK, NEW j \in Mints, NEW to \in Holders, NEW amount, MintTo(j, to, amount)
    PROVE  /\ mint'[j].authority = mint[j].authority
           /\ mint'[j].supply = mint[j].supply + amount
           /\ \A k \in Mints \ {j} : mint'[k] = mint[k]
           /\ balance'[j][to] = balance[j][to] + amount
           /\ \A k \in Mints, h \in Holders : k # j \/ h # to => balance'[k][h] = balance[k][h]
  BY DEF MintTo, TypeOK

\* The holder's account and the supply shrink; the authority stays.
LEMMA BurnEffect ==
    ASSUME TypeOK, NEW j \in Mints, NEW from \in Holders, NEW amount, Burn(j, from, amount)
    PROVE  /\ mint'[j].authority = mint[j].authority
           /\ mint'[j].supply = mint[j].supply - amount
           /\ \A k \in Mints \ {j} : mint'[k] = mint[k]
           /\ \A k \in Mints, h \in Holders \ {from} : balance'[k][h] = balance[k][h]
  BY DEF Burn, TypeOK

\* The fee is missing from what arrives; the mint stays as it was.
LEMMA TransferEffect ==
    ASSUME TypeOK, NEW j \in Mints, NEW from \in Holders, NEW to \in Holders \ {from},
           NEW amount, NEW fee, Transfer(j, from, to, amount, fee)
    PROVE  /\ mint' = mint
           /\ balance'[j][from] = balance[j][from] - amount
           /\ balance'[j][to] = balance[j][to] + amount - fee
           /\ \A k \in Mints, h \in Holders :
                 k # j \/ h \notin {from, to} => balance'[k][h] = balance[k][h]
  BY DEF Transfer, TypeOK

\* Nothing but its own transfers in reaches into a manager's token account.
LEMMA VaultsGrow ==
    ASSUME TypeOK, [Next]_vars, NEW t \in TokenIds, NEW k \in Mints,
           \A m \in Inbound, fee \in Fees :
              ExecuteInterchainTransfer(m, fee) => m.token_id # t
    PROVE  balance'[k][t] >= balance[k][t]
  <1> DEFINE Goal == balance'[k][t] >= balance[k][t]
  <1>1. t \in Holders /\ t \notin Accounts /\ balance[k][t] \in Nat
    BY ItsNames DEF TypeOK, Holders
  <1>2. \A a \in Accounts : a \in Holders /\ a # t
    BY <1>1 DEF Holders
  <1>3. \A amount \in Amounts : amount \in Nat
    BY ItsBounds
  <1>4. \A fee \in Fees : fee \in Nat
    BY ItsBounds
  <1>5. ASSUME balance' = balance PROVE Goal
    BY <1>1, <1>5
  <1>6. ASSUME NEW s \in TokenIds, NEW a \in Accounts, NEW h \in Holders, NEW amount \in Amounts,
               MintInterchainToken(a, s, h, amount)
        PROVE  Goal
    <2>1. MintTo(manager[s].mint, h, amount) /\ manager[s].mint \in Mints /\ amount \in Nat
      BY <1>3, <1>6 DEF MintInterchainToken, TypeOK
    <2> QED
      BY <1>1, <2>1, MintToEffect
  <1>7. ASSUME NEW s \in TokenIds, NEW minter, NEW holder \in Accounts, NEW supply \in 0..U64Max,
               NativeRegistration(s, minter, holder, supply)
        PROVE  Goal
    <2>1. balance' = [balance EXCEPT ![NativeMint[s]] =
                         [balance[NativeMint[s]] EXCEPT ![holder] =
                             balance[NativeMint[s]][holder] + supply]]
      BY <1>7 DEF NativeRegistration, CreateNativeToken
    <2>2. ASSUME NEW j \in Mints, NEW n,
                 balance' = [balance EXCEPT ![j] = [balance[j] EXCEPT ![holder] = n]]
          PROVE  balance'[k][t] = balance[k][t]
      BY <1>1, <1>2, <2>2 DEF TypeOK
    <2> QED
      BY <1>1, <2>1, <2>2, ItsNames
  <1>8. ASSUME NEW j \in Mints, NEW from \in Holders \ {t}, NEW to \in Holders \ {from},
               NEW amount \in Nat, NEW fee \in Nat, Transfer(j, from, to, amount, fee)
        PROVE  Goal
    <2>1. fee <= amount
      BY <1>8 DEF Transfer
    <2> QED
      BY <1>1, <1>8, <2>1, TransferEffect
  <1>9. ASSUME NEW s \in TokenIds, NEW c \in Chains, NEW a \in Accounts, NEW amount \in Amounts,
               NEW fee \in Fees, InterchainTransfer(a, s, c, amount, fee)
        PROVE  Goal
    <2>1. /\ a \in Holders \ {t} /\ s \in Holders \ {a} /\ manager[s].mint \in Mints
          /\ amount \in Nat /\ fee \in Nat
      BY <1>2, <1>3, <1>4, ItsNames DEF Holders, TypeOK
    <2>2. \/ Burn(manager[s].mint, a, amount)
          \/ Transfer(manager[s].mint, a, s, amount, fee)
      BY <1>9 DEF InterchainTransfer
    <2> QED
      BY <1>1, <1>8, <2>1, <2>2, BurnEffect
  <1>10. ASSUME NEW m \in Inbound, NEW fee \in Fees, ExecuteInterchainTransfer(m, fee)
         PROVE  Goal
    <2>0. m.token_id # t
      BY <1>10
    <2>1. /\ m.token_id \in TokenIds \ {t} /\ m.amount \in Nat
          /\ m.principal \in Holders /\ m.principal # m.token_id
      BY <1>10, <2>0, MessageTypes DEF ExecuteInterchainTransfer
    <2>2. /\ m.token_id \in Holders \ {t} /\ m.principal \in Holders \ {m.token_id}
          /\ manager[m.token_id].mint \in Mints /\ fee \in Nat
      BY <2>1, <1>4, ItsNames DEF Holders, TypeOK
    <2>3. \/ MintTo(manager[m.token_id].mint, m.principal, m.amount)
          \/ Transfer(manager[m.token_id].mint, m.token_id, m.principal, m.amount, fee)
      BY <1>10 DEF ExecuteInterchainTransfer
    <2> QED
      BY <1>1, <1>8, <2>1, <2>2, <2>3, MintToEffect
  <1>11. ASSUME UseToken PROVE Goal
    <2>1. ASSUME NEW j \in Mints, NEW a \in Accounts, NEW h \in Holders, NEW amount \in Amounts,
                 NEW fee \in Fees, SplTransfer(j, a, h, amount, fee)
          PROVE  Goal
      BY <1>2, <1>3, <1>4, <1>8, <2>1 DEF SplTransfer
    <2>2. ASSUME NEW j \in Mints, NEW a \in Accounts, NEW amount \in Amounts,
                 SplMint(j, a, amount)
          PROVE  Goal
      BY <1>1, <1>2, <1>3, <2>2, MintToEffect DEF SplMint
    <2>3. ASSUME NEW j \in Mints, NEW a \in Accounts, NEW amount \in Amounts,
                 SplBurn(j, a, amount)
          PROVE  Goal
      BY <1>1, <1>2, <1>3, <2>3, BurnEffect DEF SplBurn
    <2>4. ASSUME NEW j, NEW a, NEW new, SplSetAuthority(j, a, new) PROVE Goal
      BY <1>5, <2>4 DEF SplSetAuthority
    <2> HIDE DEF Goal
    <2> QED
      BY <1>11, <2>1, <2>2, <2>3, <2>4 DEF UseToken
  <1>12. ASSUME NEW s, NEW a, HandoverMintAuthority(a, s) PROVE Goal
    BY <1>5, <1>12 DEF HandoverMintAuthority
  <1>13. ASSUME ~TokenStep PROVE Goal
    BY <1>5, <1>13, TokenFrame
  <1>14. Goal
    <2> HIDE DEF Goal
    <2> QED
      BY <1>6, <1>7, <1>9, <1>10, <1>11, <1>12, <1>13 DEF TokenStep
  <1> QED
    BY <1>14

\* What is abroad of a token changes in its own transfers.
LEMMA LedgerFrame ==
    ASSUME TypeOK, [Next]_vars, NEW t \in TokenIds,
           \A c \in Chains, a \in Accounts, amount \in Amounts, fee \in Fees :
              ~InterchainTransfer(a, t, c, amount, fee),
           \A m \in Inbound, fee \in Fees :
              ExecuteInterchainTransfer(m, fee) => m.token_id # t
    PROVE  ledger'[t] = ledger[t]
  <1>1. ASSUME NEW s \in TokenIds \ {t}, NEW c, NEW a, NEW amount, NEW fee,
               InterchainTransfer(a, s, c, amount, fee)
        PROVE  ledger'[t] = ledger[t]
    BY <1>1 DEF InterchainTransfer, TypeOK
  <1>2. ASSUME NEW m \in Inbound, NEW fee \in Fees, ExecuteInterchainTransfer(m, fee)
        PROVE  ledger'[t] = ledger[t]
    BY <1>2 DEF ExecuteInterchainTransfer, TypeOK
  <1>3. ASSUME NEW s, NEW a, HandoverMintAuthority(a, s) PROVE ledger' = ledger
    BY <1>3 DEF HandoverMintAuthority
  <1>4. ASSUME NEW s, NEW a, NEW h, NEW amount, MintInterchainToken(a, s, h, amount)
        PROVE  ledger' = ledger
    BY <1>4 DEF MintInterchainToken
  <1>5. ASSUME NEW s, NEW minter, NEW holder, NEW supply,
               NativeRegistration(s, minter, holder, supply)
        PROVE  ledger' = ledger
    BY <1>5 DEF NativeRegistration
  <1>6. UseToken => ledger' = ledger
    BY DEF UseToken, SplTransfer, SplMint, SplBurn, SplSetAuthority
  <1> QED
    BY <1>1, <1>2, <1>3, <1>4, <1>5, <1>6, TokenFrame DEF TokenStep

\* A manager changes only when it is opened.
LEMMA ManagerStays ==
    ASSUME TypeOK, [Next]_vars, NEW t \in TokenIds, manager[t].open
    PROVE  manager'[t] = manager[t]
  <1>1. ASSUME NEW s \in TokenIds, NEW a, NEW b, RoleStep(a, s, b) PROVE manager' = manager
    BY <1>1 DEF RoleStep, AddTokenManagerFlowLimiter, RemoveTokenManagerFlowLimiter,
                TransferTokenManagerOperatorship, TransferInterchainTokenMintership
  <1>2. ASSUME NEW s, NEW a, HandoverMintAuthority(a, s) PROVE manager' = manager
    BY <1>2 DEF HandoverMintAuthority
  <1>3. ASSUME NEW s \in TokenIds, NEW ty, NEW k, InitAccount(s, ty, k)
        PROVE  manager'[t] = manager[t]
    BY <1>3 DEF InitAccount, TypeOK
  <1> QED
    BY <1>1, <1>2, <1>3, RegistryFrame
    DEF RegistryStep, NativeRegistration, CreateNativeToken, LinkRegistration

\* A manager that locks holds what is abroad.
VaultsCover ==
    \A t \in TokenIds :
        manager[t].open /\ manager[t].ty \in LockTypes =>
            balance[manager[t].mint][t] >= ledger[t].sent - ledger[t].received

\* A lock adds to the vault what is then abroad (net of the fee), an unlock takes out
\* what is then back (the fee falls on the recipient), and nothing else takes any.
LEMMA VaultsCoverStep ==
    TypeOK /\ ClosedIsBlank /\ VaultsCover /\ [Next]_vars => VaultsCover'
  <1> SUFFICES ASSUME TypeOK, ClosedIsBlank, VaultsCover, [Next]_vars, TypeOK',
                      NEW t \in TokenIds, manager'[t].open, manager'[t].ty \in LockTypes
               PROVE  balance'[manager'[t].mint][t] >= ledger'[t].sent - ledger'[t].received
    BY TypeStep DEF VaultsCover
  <1> DEFINE k == manager'[t].mint
             Goal == balance'[k][t] >= ledger'[t].sent - ledger'[t].received
  <1>1. /\ k \in Mints /\ balance[k][t] \in Nat /\ balance'[k][t] \in Nat
        /\ ledger[t].sent \in Nat /\ ledger[t].received \in Nat
        /\ ledger'[t].sent \in Nat /\ ledger'[t].received \in Nat
    BY DEF TypeOK, Holders
  <1>2. balance[k][t] >= ledger[t].sent - ledger[t].received
    <2>1. CASE manager[t].open
      BY <2>1, ManagerStays DEF VaultsCover
    <2>2. CASE ~manager[t].open
      <3>1. ledger[t].sent = 0 /\ ledger[t].received = 0
        BY <2>2 DEF ClosedIsBlank
      <3> QED
        BY <1>1, <3>1
    <2> QED
      BY <2>1, <2>2
  <1>3. ASSUME NEW c \in Chains, NEW a \in Accounts, NEW amount \in Amounts,
               NEW fee \in Fees, InterchainTransfer(a, t, c, amount, fee)
        PROVE  Goal
    <2>1. /\ manager'[t] = manager[t] /\ ~BurnsAndMints(t)
          /\ amount \in Nat /\ fee \in Nat
      BY <1>3, ItsBounds DEF InterchainTransfer, BurnsAndMints, LockTypes, MintTypes
    <2>2. /\ Transfer(k, a, t, amount, fee) /\ fee <= amount
          /\ ledger'[t].sent = ledger[t].sent + (amount - fee)
          /\ ledger'[t].received = ledger[t].received
      BY <1>3, <2>1 DEF InterchainTransfer, TakenAmount, Transfer, TypeOK
    <2>3. balance'[k][t] = balance[k][t] + amount - fee
      BY <1>1, <2>2, TransferEffect, ItsNames DEF Holders
    <2> QED
      BY <1>1, <1>2, <2>1, <2>2, <2>3
  <1>4. ASSUME NEW m \in Inbound, NEW fee \in Fees, ExecuteInterchainTransfer(m, fee),
               m.token_id = t
        PROVE  Goal
    <2>1. /\ manager'[t] = manager[t] /\ ~BurnsAndMints(t)
          /\ m.principal \in Holders \ {t} /\ m.amount \in Nat
      BY <1>4, MessageTypes
      DEF ExecuteInterchainTransfer, BurnsAndMints, LockTypes, MintTypes
    <2>2. /\ Transfer(k, t, m.principal, m.amount, fee)
          /\ ledger'[t].sent = ledger[t].sent
          /\ ledger'[t].received = ledger[t].received + m.amount
      BY <1>4, <2>1 DEF ExecuteInterchainTransfer, TypeOK
    <2>3. balance'[k][t] = balance[k][t] - m.amount
      BY <1>1, <2>1, <2>2, TransferEffect, ItsNames DEF Holders
    <2> QED
      BY <1>1, <1>2, <2>1, <2>2, <2>3
  <1>5. ASSUME \A c \in Chains, a \in Accounts, amount \in Amounts, fee \in Fees :
                  ~InterchainTransfer(a, t, c, amount, fee),
               \A m \in Inbound, fee \in Fees :
                  ExecuteInterchainTransfer(m, fee) => m.token_id # t
        PROVE  Goal
    <2>1. balance'[k][t] >= balance[k][t] /\ ledger'[t] = ledger[t]
      BY <1>1, <1>5, VaultsGrow, LedgerFrame
    <2> QED
      BY <1>1, <1>2, <2>1
  <1>6. Goal
    <2> HIDE DEF Goal
    <2> QED
      BY <1>3, <1>4, <1>5
  <1> QED
    BY <1>6

\* Manager t mints and burns k: it has a type that does and is the mint's authority.
Issues(t, k) ==
    /\ manager[t].open /\ manager[t].mint = k
    /\ manager[t].ty \in MintTypes
    /\ mint[k].authority = t

\* What is abroad of mint k, through the one manager that can be its issuer.
AbroadOf(k) ==
    IF mint[k].authority \in TokenIds /\ Issues(mint[k].authority, k)
    THEN ledger[mint[k].authority].sent - ledger[mint[k].authority].received
    ELSE 0

\* Every mint's supply is what was issued here less what is abroad.
SuppliesAgree == \A k \in Mints : mint[k].supply = issued[k] - AbroadOf(k)

\* A manager that would mint but is not the authority has not moved anything.
IdleWithoutAuthority ==
    \A t \in TokenIds :
        manager[t].ty \in MintTypes /\ mint[manager[t].mint].authority # t =>
            ledger[t].sent = 0 /\ ledger[t].received = 0

\* validate_token_manager_type refuses transfers of such a manager, and authority that
\* a manager has is never lost.
LEMMA IdleStep ==
    TypeOK /\ ClosedIsBlank /\ MissingIsBlank /\ IdleWithoutAuthority /\ [Next]_vars
        => IdleWithoutAuthority'
  <1> SUFFICES ASSUME TypeOK, ClosedIsBlank, MissingIsBlank, IdleWithoutAuthority, [Next]_vars,
                      NEW t \in TokenIds, manager'[t].ty \in MintTypes,
                      mint'[manager'[t].mint].authority # t
               PROVE  ledger'[t].sent = 0 /\ ledger'[t].received = 0
    BY DEF IdleWithoutAuthority
  <1>1. CASE manager[t].open
    <2>1. manager'[t] = manager[t] /\ manager[t].mint \in Mints
      BY <1>1, ManagerStays DEF TypeOK
    <2>2. mint[manager[t].mint].authority # t
      BY <2>1, AuthorityStays
    <2>3. ~ValidateTokenManagerType(t)
      BY <2>1, <2>2 DEF ValidateTokenManagerType
    <2>4. ledger'[t] = ledger[t]
      BY <2>3, LedgerFrame DEF InterchainTransfer, ExecuteInterchainTransfer
    <2> QED
      BY <2>1, <2>2, <2>4 DEF IdleWithoutAuthority
  <1>2. CASE ~manager[t].open
    <2>1. ledger'[t] = ledger[t]
      BY <1>2, LedgerFrame DEF InterchainTransfer, ExecuteInterchainTransfer
    <2> QED
      BY <1>2, <2>1 DEF ClosedIsBlank
  <1> QED
    BY <1>1, <1>2

\* Where no manager is the authority, nothing of the mint is abroad.
LEMMA NoIssuer ==
    ASSUME NEW k, mint[k].authority \notin TokenIds
    PROVE  AbroadOf(k) = 0
  BY DEF AbroadOf

\* Registrations, handovers and changes of authority take nothing abroad.
LEMMA NewIssuer ==
    ASSUME NEW k,
           mint'[k].authority \in TokenIds =>
               /\ ledger'[mint'[k].authority].sent = 0
               /\ ledger'[mint'[k].authority].received = 0
    PROVE  AbroadOf(k)' = 0
  BY DEF AbroadOf

\* With the same authority, manager and ledger the same amount is abroad.
LEMMA SameIssuer ==
    ASSUME NEW k, mint'[k].authority = mint[k].authority,
           mint[k].authority \in TokenIds =>
               /\ manager'[mint[k].authority] = manager[mint[k].authority]
               /\ \/ ~Issues(mint[k].authority, k)
                  \/ ledger'[mint[k].authority] = ledger[mint[k].authority]
    PROVE  AbroadOf(k)' = AbroadOf(k)
  BY DEF AbroadOf, Issues

\* Opening manager t for the mint it is to issue or for another takes nothing abroad.
LEMMA OpeningKeepsAbroad ==
    ASSUME TypeOK, ClosedIsBlank, NEW t \in TokenIds, NEW ty, NEW j, InitAccount(t, ty, j),
           ledger' = ledger, NEW k \in Mints, mint'[k].authority = mint[k].authority
    PROVE  AbroadOf(k)' = AbroadOf(k)
  <1>1. ~manager[t].open /\ ledger[t].sent = 0 /\ ledger[t].received = 0
    BY DEF InitAccount, ClosedIsBlank
  <1>2. \A u \in TokenIds \ {t} : manager'[u] = manager[u]
    BY DEF InitAccount, TypeOK
  <1>3. CASE mint[k].authority = t
    <2>1. AbroadOf(k) = 0
      BY <1>1, <1>3 DEF AbroadOf, Issues
    <2>2. AbroadOf(k)' = 0
      BY <1>1, <1>3, NewIssuer
    <2> QED
      BY <2>1, <2>2
  <1>4. CASE mint[k].authority # t
    BY <1>2, <1>4, SameIssuer
  <1> QED
    BY <1>3, <1>4

\* Burns and mints of the issuer move supply and ledger together; everything else that
\* moves the supply is booked as issued; and whoever becomes the issuer starts at zero.
LEMMA SuppliesStep ==
    TypeOK /\ ClosedIsBlank /\ MissingIsBlank /\ IdleWithoutAuthority /\ SuppliesAgree
    /\ [Next]_vars => SuppliesAgree'
  <1> SUFFICES ASSUME TypeOK, ClosedIsBlank, MissingIsBlank, IdleWithoutAuthority,
                      SuppliesAgree, [Next]_vars, NEW k \in Mints
               PROVE  mint'[k].supply = issued'[k] - AbroadOf(k)'
    BY DEF SuppliesAgree
  <1> DEFINE Goal == mint'[k].supply = issued'[k] - AbroadOf(k)'
  <1>1. mint[k].supply = issued[k] - AbroadOf(k)
    BY DEF SuppliesAgree
  <1>2. /\ mint[k].supply \in Int /\ issued[k] \in Int /\ AbroadOf(k) \in Int
        /\ \A t \in TokenIds : ledger[t].sent \in Nat /\ ledger[t].received \in Nat
    BY DEF TypeOK, AbroadOf
  <1>3. \A amount \in Amounts : amount \in Nat
    BY ItsBounds
  <1>4. \A a \in Accounts : a \in Holders /\ a \notin TokenIds
    BY ItsNames DEF Holders
  \* mint and burn that are booked as issued
  <1>5. ASSUME NEW j \in Mints, NEW n \in Int, manager' = manager, ledger' = ledger,
               mint'[j].authority = mint[j].authority,
               mint'[j].supply = mint[j].supply + n,
               \A i \in Mints \ {j} : mint'[i] = mint[i],
               issued' = [issued EXCEPT ![j] = issued[j] + n]
        PROVE  Goal
    <2>1. AbroadOf(k)' = AbroadOf(k)
      BY <1>5, SameIssuer
    <2>2. CASE k = j
      BY <1>1, <1>2, <1>5, <2>1, <2>2 DEF TypeOK
    <2>3. CASE k # j
      BY <1>1, <1>5, <2>1, <2>3 DEF TypeOK
    <2> QED
      BY <2>2, <2>3
  \* the authority moves from a wallet
  <1>6. ASSUME NEW j \in Mints, mint[j].authority \notin TokenIds, manager' = manager,
               ledger' = ledger, issued' = issued, mint'[j].supply = mint[j].supply,
               \A i \in Mints \ {j} : mint'[i] = mint[i]
        PROVE  Goal
    <2>1. CASE k = j
      <3>1. AbroadOf(k) = 0
        BY <1>6, <2>1, NoIssuer
      <3>2. AbroadOf(k)' = 0
        <4>1. CASE (mint[k].authority \in TokenIds /\ Issues(mint[k].authority, k))'
          <5>1. /\ manager[mint'[k].authority].ty \in MintTypes
                /\ manager[mint'[k].authority].mint = k
                /\ mint[k].authority # mint'[k].authority
            BY <1>6, <2>1, <4>1 DEF Issues
          <5>2. ledger[mint'[k].authority].sent = 0 /\ ledger[mint'[k].authority].received = 0
            BY <4>1, <5>1 DEF IdleWithoutAuthority
          <5> QED
            BY <1>6, <5>2, NewIssuer
        <4>2. CASE ~(mint[k].authority \in TokenIds /\ Issues(mint[k].authority, k))'
          BY <4>2 DEF AbroadOf
        <4> QED
          BY <4>1, <4>2
      <3> QED
        BY <1>1, <1>2, <1>6, <2>1, <3>1, <3>2
    <2>2. CASE k # j
      <3>1. AbroadOf(k)' = AbroadOf(k)
        BY <1>6, <2>2, SameIssuer
      <3> QED
        BY <1>1, <1>6, <2>2, <3>1
    <2> QED
      BY <2>1, <2>2
  <1>7. ASSUME NEW t \in TokenIds, NEW a \in Accounts, HandoverMintAuthority(a, t)
        PROVE  Goal
    <2>1. /\ manager[t].mint \in Mints /\ mint[manager[t].mint].authority = a
          /\ mint'[manager[t].mint].supply = mint[manager[t].mint].supply
          /\ \A i \in Mints \ {manager[t].mint} : mint'[i] = mint[i]
          /\ manager' = manager /\ ledger' = ledger /\ issued' = issued
      BY <1>7 DEF HandoverMintAuthority, TypeOK
    <2> QED
      BY <1>4, <1>6, <2>1
  <1>8. ASSUME NEW t \in TokenIds, NEW a \in Accounts, NEW h \in Holders, NEW amount \in Amounts,
               MintInterchainToken(a, t, h, amount)
        PROVE  Goal
    <2>1. /\ MintTo(manager[t].mint, h, amount) /\ manager[t].mint \in Mints /\ amount \in Int
          /\ manager' = manager /\ ledger' = ledger
          /\ issued' = [issued EXCEPT ![manager[t].mint] = issued[manager[t].mint] + amount]
      BY <1>3, <1>8 DEF MintInterchainToken, TypeOK
    <2> QED
      BY <1>5, <2>1, MintToEffect, ZenonT(60)
  <1>9. ASSUME NEW t \in TokenIds, NEW minter, NEW holder, NEW supply \in 0..U64Max,
               NativeRegistration(t, minter, holder, supply)
        PROVE  Goal
    <2> DEFINE j == NativeMint[t]
    <2>1. /\ InitAccount(t, "NativeInterchainToken", j)
          /\ mint' = [mint EXCEPT ![j] = [exists |-> TRUE, authority |-> t, supply |-> supply]]
          /\ issued' = [issued EXCEPT ![j] = supply]
          /\ ledger' = ledger
      BY <1>9 DEF NativeRegistration, CreateNativeToken
    <2>2. CASE k = j
      <3>1. mint'[k].authority = t /\ mint'[k].supply = supply /\ issued'[k] = supply
        BY <2>1, <2>2 DEF TypeOK
      <3>2. ledger'[t].sent = 0 /\ ledger'[t].received = 0
        BY <2>1 DEF InitAccount, ClosedIsBlank
      <3>3. AbroadOf(k)' = 0
        BY <3>1, <3>2, NewIssuer
      <3> QED
        BY <3>1, <3>3
    <2>3. CASE k # j
      <3>1. mint'[k] = mint[k] /\ issued'[k] = issued[k]
        BY <2>1, <2>3 DEF TypeOK
      <3>2. AbroadOf(k)' = AbroadOf(k)
        BY <2>1, <3>1, OpeningKeepsAbroad
      <3> QED
        BY <1>1, <3>1, <3>2
    <2> QED
      BY <2>2, <2>3
  <1>10. ASSUME NEW t \in TokenIds, NEW ty, NEW j, NEW principal,
                LinkRegistration(t, ty, j, principal)
         PROVE  Goal
    <2>1. InitAccount(t, ty, j) /\ mint' = mint /\ issued' = issued /\ ledger' = ledger
      BY <1>10 DEF LinkRegistration
    <2> QED
      BY <1>1, <2>1, OpeningKeepsAbroad
  \* a transfer of t moves the supply of its mint and the ledger by the same amount
  <1>11. ASSUME NEW t \in TokenIds, NEW n \in Int, manager[t].open, manager' = manager,
                issued' = issued, \A u \in TokenIds \ {t} : ledger'[u] = ledger[u],
                ValidateTokenManagerType(t),
                IF BurnsAndMints(t)
                THEN /\ mint'[manager[t].mint].authority = mint[manager[t].mint].authority
                     /\ mint'[manager[t].mint].supply = mint[manager[t].mint].supply - n
                     /\ \A i \in Mints \ {manager[t].mint} : mint'[i] = mint[i]
                     /\ ledger'[t].sent - ledger'[t].received
                            = ledger[t].sent - ledger[t].received + n
                ELSE mint' = mint
         PROVE  Goal
    <2>1. CASE BurnsAndMints(t) /\ k = manager[t].mint
      <3>1. Issues(t, k) /\ Issues(t, k)' /\ mint[k].authority = t /\ mint'[k].authority = t
        BY <1>11, <2>1 DEF Issues, BurnsAndMints, ValidateTokenManagerType
      <3>2. AbroadOf(k)' = AbroadOf(k) + n
        BY <1>11, <2>1, <3>1 DEF AbroadOf
      <3> QED
        BY <1>1, <1>2, <1>11, <2>1, <3>2
    <2>2. CASE ~(BurnsAndMints(t) /\ k = manager[t].mint)
      <3>1. ~Issues(t, k) /\ mint'[k] = mint[k]
        BY <1>11, <2>2 DEF Issues, BurnsAndMints
      <3>2. AbroadOf(k)' = AbroadOf(k)
        BY <1>11, <3>1, SameIssuer
      <3> QED
        BY <1>1, <1>11, <3>1, <3>2
    <2> QED
      BY <2>1, <2>2
  <1>12. ASSUME NEW t \in TokenIds, NEW c \in Chains, NEW a \in Accounts, NEW amount \in Amounts,
                NEW fee \in Fees, InterchainTransfer(a, t, c, amount, fee)
         PROVE  Goal
    <2>1. /\ manager[t].open /\ manager' = manager /\ issued' = issued
          /\ ValidateTokenManagerType(t) /\ manager[t].mint \in Mints
          /\ \A u \in TokenIds \ {t} : ledger'[u] = ledger[u]
      BY <1>12 DEF InterchainTransfer, TypeOK
    <2>2. CASE BurnsAndMints(t)
      <3>1. fee = 0 /\ amount \in Nat
        BY <1>3, <1>12, <2>2 DEF InterchainTransfer, FeesFor, BurnsAndMints, MintTypes
      <3>2. /\ Burn(manager[t].mint, a, amount)
            /\ ledger'[t].sent = ledger[t].sent + (amount - fee)
            /\ ledger'[t].received = ledger[t].received
        BY <1>12, <2>2 DEF InterchainTransfer, TakenAmount, TypeOK
      <3>3. ledger'[t].sent - ledger'[t].received = ledger[t].sent - ledger[t].received + amount
        BY <1>2, <3>1, <3>2
      <3> QED
        BY <1>4, <1>11, <2>1, <2>2, <3>1, <3>2, <3>3, BurnEffect
    <2>3. CASE ~BurnsAndMints(t)
      <3>1. mint' = mint
        BY <1>12, <2>3 DEF InterchainTransfer, Transfer
      <3> QED
        BY <1>11, <2>1, <2>3, <3>1, SMTT(30)
    <2> QED
      BY <2>2, <2>3
  <1>13. ASSUME NEW m \in Inbound, NEW fee \in Fees, ExecuteInterchainTransfer(m, fee)
         PROVE  Goal
    <2> DEFINE t == m.token_id
    <2>1. t \in TokenIds /\ m.principal \in Holders /\ m.amount \in Nat
      BY <1>13, MessageTypes DEF ExecuteInterchainTransfer
    <2>2. /\ manager[t].open /\ manager' = manager /\ issued' = issued
          /\ ValidateTokenManagerType(t) /\ manager[t].mint \in Mints
          /\ \A u \in TokenIds \ {t} : ledger'[u] = ledger[u]
      BY <1>13, <2>1 DEF ExecuteInterchainTransfer, TypeOK
    <2>3. CASE BurnsAndMints(t)
      <3>1. /\ MintTo(manager[t].mint, m.principal, m.amount)
            /\ ledger'[t].sent = ledger[t].sent
            /\ ledger'[t].received = ledger[t].received + m.amount
        BY <1>13, <2>1, <2>3 DEF ExecuteInterchainTransfer, TypeOK
      <3>2. /\ mint'[manager[t].mint].authority = mint[manager[t].mint].authority
            /\ mint'[manager[t].mint].supply = mint[manager[t].mint].supply + m.amount
            /\ \A i \in Mints \ {manager[t].mint} : mint'[i] = mint[i]
        BY <1>4, <2>1, <2>2, <3>1, MintToEffect
      <3>3. mint[manager[t].mint].supply \in Int
        BY <2>2 DEF TypeOK
      <3> HIDE DEF t
      <3>4. /\ mint'[manager[t].mint].supply = mint[manager[t].mint].supply - (0 - m.amount)
            /\ 0 - m.amount \in Int
            /\ ledger'[t].sent - ledger'[t].received
                   = ledger[t].sent - ledger[t].received + (0 - m.amount)
        BY <1>2, <2>1, <3>1, <3>2, <3>3
      <3> QED
        BY <1>11, <2>1, <2>2, <2>3, <3>2, <3>4
    <2>4. CASE ~BurnsAndMints(t)
      <3>1. mint' = mint
        BY <1>13, <2>4 DEF ExecuteInterchainTransfer, Transfer
      <3> QED
        BY <1>11, <2>1, <2>2, <2>4, <3>1
    <2> QED
      BY <2>3, <2>4
  <1>14. ASSUME UseToken PROVE Goal
    <2>1. ASSUME NEW j \in Mints, NEW a \in Accounts, NEW h \in Holders, NEW amount \in Amounts,
                 NEW fee \in Fees, SplTransfer(j, a, h, amount, fee)
          PROVE  Goal
      <3>1. mint' = mint /\ manager' = manager /\ ledger' = ledger /\ issued' = issued
        BY <2>1 DEF SplTransfer, Transfer
      <3> QED
        BY <1>1, <3>1, SameIssuer
    <2>2. ASSUME NEW j \in Mints, NEW a \in Accounts, NEW amount \in Amounts,
                 SplMint(j, a, amount)
          PROVE  Goal
      <3>1. /\ manager' = manager /\ ledger' = ledger /\ MintTo(j, a, amount)
            /\ issued' = [issued EXCEPT ![j] = issued[j] + amount]
            /\ amount \in Int /\ a \in Holders
        BY <1>3, <1>4, <2>2 DEF SplMint
      <3>2. /\ mint'[j].authority = mint[j].authority
            /\ mint'[j].supply = mint[j].supply + amount
            /\ \A i \in Mints \ {j} : mint'[i] = mint[i]
        BY <3>1, MintToEffect
      <3> QED
        BY <1>5, <3>1, <3>2
    <2>3. ASSUME NEW j \in Mints, NEW a \in Accounts, NEW amount \in Amounts,
                 SplBurn(j, a, amount)
          PROVE  Goal
      <3>1. /\ manager' = manager /\ ledger' = ledger /\ Burn(j, a, amount)
            /\ issued' = [issued EXCEPT ![j] = issued[j] - amount]
            /\ amount \in Nat /\ mint[j].supply \in Int /\ issued[j] \in Int
        BY <1>3, <2>3 DEF SplBurn, TypeOK
      <3>2. /\ 0 - amount \in Int /\ issued[j] - amount = issued[j] + (0 - amount)
            /\ mint[j].supply - amount = mint[j].supply + (0 - amount)
        BY <3>1
      <3>3. /\ mint'[j].authority = mint[j].authority
            /\ mint'[j].supply = mint[j].supply + (0 - amount)
            /\ \A i \in Mints \ {j} : mint'[i] = mint[i]
        BY <1>4, <3>1, <3>2, BurnEffect
      <3> QED
        BY <1>5, <3>1, <3>2, <3>3
    <2>4. ASSUME NEW j \in Mints, NEW a \in Accounts, NEW new, SplSetAuthority(j, a, new)
          PROVE  Goal
      <3>1. /\ manager' = manager /\ ledger' = ledger /\ issued' = issued
            /\ mint[j].authority = a /\ mint'[j].supply = mint[j].supply
            /\ \A i \in Mints \ {j} : mint'[i] = mint[i]
        BY <2>4 DEF SplSetAuthority, TypeOK
      <3> QED
        BY <1>4, <1>6, <3>1
    <2> HIDE DEF Goal
    <2> QED
      BY <1>14, <2>1, <2>2, <2>3, <2>4 DEF UseToken
  <1>15. ASSUME ~TokenStep, ~RegistryStep PROVE Goal
    BY <1>1, <1>15, TokenFrame, RegistryFrame, SameIssuer
  <1>16. ASSUME NEW t \in TokenIds, NEW a, NEW b, RoleStep(a, t, b) PROVE Goal
    <2>1. mint' = mint /\ manager' = manager /\ ledger' = ledger /\ issued' = issued
      BY <1>16 DEF RoleStep, AddTokenManagerFlowLimiter, RemoveTokenManagerFlowLimiter,
                  TransferTokenManagerOperatorship, TransferInterchainTokenMintership
    <2> QED
      BY <1>1, <2>1, SameIssuer
  <1>17. Goal
    <2> HIDE DEF Goal
    <2> QED
      BY <1>7, <1>8, <1>9, <1>10, <1>12, <1>13, <1>14, <1>15, <1>16 DEF TokenStep, RegistryStep
  <1> QED
    BY <1>17

-----------------------------------------------------------------------------
\* The inductive invariant: everything the proofs above need of a state.
IInv ==
    /\ TypeOK
    /\ ClosedIsBlank
    /\ MissingIsBlank
    /\ RolesAreUnique
    /\ FlowInv
    /\ IdleWithoutAuthority
    /\ SuppliesAgree
    /\ VaultsCover

\* The initial state satisfies the inductive invariant.
LEMMA IInvInit == Init => IInv
  <1> SUFFICES ASSUME Init PROVE IInv
    OBVIOUS
  <1>1. TypeOK
    BY TypeInit
  <1>2. ClosedIsBlank
    BY DEF Init, ClosedIsBlank
  <1>3. MissingIsBlank
    BY DEF Init, MissingIsBlank
  <1>4. RolesAreUnique
    BY DEF Init, RolesAreUnique
  <1>5. FlowInv
    BY <1>1, EpochIsNat DEF Init, FlowInv, FlowsAgree, FlowLimitHolds, NewFlowState,
                            CurrentFlowEpoch
  <1>6. \A t \in TokenIds : /\ ~manager[t].open
                            /\ ledger[t].sent = 0 /\ ledger[t].received = 0
    BY DEF Init, NoManager
  <1>7. IdleWithoutAuthority /\ VaultsCover
    BY <1>6 DEF IdleWithoutAuthority, VaultsCover
  <1>8. SuppliesAgree
    <2> SUFFICES ASSUME NEW k \in Mints PROVE mint[k].supply = issued[k] - AbroadOf(k)
      BY DEF SuppliesAgree
    <2>1. AbroadOf(k) = 0
      BY <1>6 DEF AbroadOf
    <2>2. mint[k].supply = issued[k]
      BY DEF Init, NoMint
    <2>3. issued[k] \in Int
      BY <1>1 DEF TypeOK
    <2> QED
      BY <2>1, <2>2, <2>3
  <1> QED
    BY <1>1, <1>2, <1>3, <1>4, <1>5, <1>7, <1>8 DEF IInv

\* Every step keeps it.
LEMMA IInvStep == IInv /\ [Next]_vars => IInv'
  BY TypeStep, ClosedStep, MissingStep, RolesStep, FlowInvStep, IdleStep, SuppliesStep,
     VaultsCoverStep
  DEF IInv

\* It implies that tokens abroad are covered: the issuer of a mint is its authority.
LEMMA BackingFromIInv == IInv => Backing
  <1> SUFFICES ASSUME IInv, NEW t \in TokenIds, manager[t].open
               PROVE  LET k == manager[t].mint
                          abroad == ledger[t].sent - ledger[t].received
                      IN  /\ manager[t].ty \in LockTypes => balance[k][t] >= abroad
                          /\ (manager[t].ty \in MintTypes /\ mint[k].authority = t) =>
                                 mint[k].supply = issued[k] - abroad
    BY DEF Backing
  <1> DEFINE k == manager[t].mint
  <1>1. k \in Mints
    BY DEF IInv, TypeOK
  <1>2. manager[t].ty \in MintTypes /\ mint[k].authority = t =>
            AbroadOf(k) = ledger[t].sent - ledger[t].received
    BY DEF AbroadOf, Issues
  <1> QED
    BY <1>1, <1>2 DEF IInv, VaultsCover, SuppliesAgree

\* The inductive invariant holds in every reachable state.
THEOREM ItsInvariant == Spec => []IInv
  BY IInvInit, IInvStep, PTL DEF Spec

\* The accounts of the service keep their types: flow counters stay in a u64, the hub
\* is never trusted, what was announced has a manager.
THEOREM TypeCorrect == Spec => []TypeOK
  <1>1. IInv => TypeOK
    BY DEF IInv
  <1> QED
    BY <1>1, ItsInvariant, PTL

\* Tokens on other chains are covered by vaults or by burnt supply, for any number of
\* managers on a mint and any order of registrations, transfers, fees and handovers
\* (take_token, handle_give_token_transfer, handover_mint_authority).
THEOREM BackingHolds == Spec => []Backing
  BY BackingFromIInv, ItsInvariant, PTL

\* The net flow of an epoch stays within the weakest limit of the epoch, in both
\* directions (FlowState::update_flow, track_token_flow).
THEOREM FlowLimitsHold == Spec => []FlowLimitHolds
  <1>1. IInv => FlowLimitHolds
    BY DEF IInv, FlowInv
  <1> QED
    BY <1>1, ItsInvariant, PTL

\* One operator of the service, one operator and one minter of a manager, and the
\* minter's manager is the authority of its mint (user_roles.rs,
\* handover_mint_authority).
THEOREM RolesHold == Spec => []RolesAreUnique
  <1>1. IInv => RolesAreUnique
    BY DEF IInv
  <1> QED
    BY <1>1, ItsInvariant, PTL

\* Whichever registration of a token id comes first fixes its type and mint.
THEOREM RegistrationFinal == Spec => RegistrationIsFinal
  <1>1. IInv /\ [Next]_vars =>
            [\A t \in TokenIds : manager[t].open => manager'[t] = manager[t]]_vars
    BY ManagerStays DEF IInv
  <1> QED
    BY <1>1, ItsInvariant, PTL DEF Spec, RegistrationIsFinal

-----------------------------------------------------------------------------
\* The messages that moved tokens, and those of one token.
DeliveredBar == {m \in validated : m.kind = "InterchainTransfer"}
DeliveredTo(t) == {m \in DeliveredBar : m.token_id = t}

\* The amounts of messages.
AmountOf == [m \in Inbound |-> m.amount]

\* Only execute_interchain_transfer delivers a transfer; the other messages of the hub
\* that are executed are of other kinds.
LEMMA DeliveredFrame ==
    ASSUME [Next]_vars, \A m \in Inbound, fee \in Fees : ~ExecuteInterchainTransfer(m, fee)
    PROVE  DeliveredBar' = DeliveredBar
  <1>1. ASSUME NEW m \in Inbound, NEW kind, Execute(m, kind), kind # "InterchainTransfer"
        PROVE  DeliveredBar' = DeliveredBar
    BY <1>1 DEF Execute, DeliveredBar
  <1>2. ReceiveFromHub => DeliveredBar' = DeliveredBar
    BY <1>1 DEF ReceiveFromHub, ExecuteDeployInterchainToken, ExecuteLinkToken
  <1>3. ASSUME validated' = validated PROVE DeliveredBar' = DeliveredBar
    BY <1>3 DEF DeliveredBar
  <1>4. Configure \/ UseToken \/ Tick \/ UNCHANGED vars => validated' = validated
    BY DEF Configure, Initialize, SetPauseStatus, SetTrustedChain, RemoveTrustedChain,
           TransferOperatorship, UseToken, SplTransfer, SplMint, SplBurn, SplSetAuthority,
           Tick, vars
  <1>5. RegisterToken => validated' = validated
    <2>1. ASSUME NEW t, NEW a, NEW b, NEW amount, DeployInterchainToken(a, t, b, amount)
          PROVE  validated' = validated
      BY <2>1 DEF DeployInterchainToken
    <2>2. ASSUME NEW t, NEW k, RegisterCanonicalInterchainToken(t, k)
          PROVE  validated' = validated
      BY <2>2 DEF RegisterCanonicalInterchainToken
    <2>3. ASSUME NEW t, NEW a, NEW b, NEW k, NEW ty, RegisterCustomToken(a, t, ty, k, b)
          PROVE  validated' = validated
      BY <2>3 DEF RegisterCustomToken
    <2> QED
      BY <2>1, <2>2, <2>3 DEF RegisterToken
  <1>6. SendToHub => validated' = validated
    <2>1. ASSUME NEW t, NEW c, AnnounceRemotely(t, c) PROVE validated' = validated
      BY <2>1 DEF AnnounceRemotely
    <2>2. ASSUME NEW t, NEW c, NEW a, NEW amount, NEW fee, InterchainTransfer(a, t, c, amount, fee)
          PROVE  validated' = validated
      BY <2>2 DEF InterchainTransfer
    <2> QED
      BY <2>1, <2>2 DEF SendToHub, DeployRemoteInterchainToken,
                        DeployRemoteCanonicalInterchainToken, LinkToken
  <1>7. ManageToken => validated' = validated
    BY DEF ManageToken, SetFlowLimit, SetTokenManagerFlowLimit, ChangeFlowLimit,
           AddTokenManagerFlowLimiter, RemoveTokenManagerFlowLimiter,
           TransferTokenManagerOperatorship, TransferInterchainTokenMintership,
           HandoverMintAuthority, MintInterchainToken
  <1> QED
    BY <1>2, <1>3, <1>4, <1>5, <1>6, <1>7 DEF Next

\* The sum over messages in CreditedOnce is one over their amounts.
LEMMA SumOfAmounts ==
    ASSUME NEW S, IsFiniteSet(S), S \subseteq Inbound
    PROVE  /\ \A m \in S : AmountOf[m] \in Int
           /\ MapThenSumSet(LAMBDA m : m.amount, S) = Sum(AmountOf, S)
  <1>1. ASSUME NEW m \in S PROVE AmountOf[m] = m.amount /\ AmountOf[m] \in Int
    BY ItsMessages, ItsBounds DEF AmountOf
  <1> DEFINE Adds(g) == g = [s \in SUBSET S |-> IF s = {} THEN 0
                                               ELSE Pick(s).amount + g[s \ {Pick(s)}]]
  <1>2. ASSUME NEW g PROVE Adds(g) <=> Partial(AmountOf, S, g)
    <2>1. ASSUME NEW s \in SUBSET S, s # {} PROVE AmountOf[Pick(s)] = Pick(s).amount
      BY <1>1, <2>1, PickIn
    <2>2. \A s \in SUBSET S :
            (IF s = {} THEN 0 ELSE Pick(s).amount + g[s \ {Pick(s)}])
              = IF s = {} THEN 0 ELSE AmountOf[Pick(s)] + g[s \ {Pick(s)}]
      BY <2>1
    <2>3. [s \in SUBSET S |-> IF s = {} THEN 0 ELSE Pick(s).amount + g[s \ {Pick(s)}]]
            = [s \in SUBSET S |-> IF s = {} THEN 0 ELSE AmountOf[Pick(s)] + g[s \ {Pick(s)}]]
      BY <2>2, Zenon
    <2> QED
      BY <2>3 DEF Partial
  <1>3. PICK g : Partial(AmountOf, S, g)
    BY <1>1, PartialExists
  <1>4. ASSUME NEW h, Partial(AmountOf, S, h) PROVE h = g
    BY <1>1, <1>3, <1>4, PartialsEqual
  <1>5. Sum(AmountOf, S) = g[S]
    BY <1>1, <1>3, SumOfPartial
  <1>6. Adds(g) /\ \A h : Adds(h) => h = g
    <2> HIDE DEF Adds
    <2> QED
      BY <1>2, <1>3, <1>4
  <1>7. MapThenSumSet(LAMBDA m : m.amount, S) = g[S]
    BY <1>6, Zenon DEF MapThenSumSet, MapThenFoldSet, Pick
  <1> QED
    BY <1>1, <1>5, <1>7, Zenon

\* Finitely many messages were delivered, and each was added to its token's ledger.
CreditedInv ==
    /\ IsFiniteSet(DeliveredBar)
    /\ \A t \in TokenIds : ledger[t].received = Sum(AmountOf, DeliveredTo(t))

\* A transfer enters the set and the ledger in the same step, and only once.
LEMMA CreditedStep == TypeOK /\ CreditedInv /\ [Next]_vars => CreditedInv'
  <1> SUFFICES ASSUME TypeOK, CreditedInv, [Next]_vars PROVE CreditedInv'
    OBVIOUS
  <1>1. ASSUME NEW m \in Inbound, NEW fee \in Fees, ExecuteInterchainTransfer(m, fee)
        PROVE  CreditedInv'
    <2>1. m.token_id \in TokenIds /\ m.amount \in Int
      BY ItsMessages, ItsBounds
    <2>2. /\ m \notin DeliveredBar
          /\ DeliveredBar' = DeliveredBar \cup {m}
      BY <1>1 DEF ExecuteInterchainTransfer, Execute, DeliveredBar
    <2>3. IsFiniteSet(DeliveredBar')
      BY <2>2, FS_AddElement DEF CreditedInv
    <2>4. ASSUME NEW t \in TokenIds PROVE ledger'[t].received = Sum(AmountOf, DeliveredTo(t)')
      <3>1. /\ IsFiniteSet(DeliveredTo(t))
            /\ \A x \in DeliveredTo(t) \cup {m} : AmountOf[x] \in Int
        <4>1. IsFiniteSet(DeliveredTo(t)) /\ DeliveredTo(t) \subseteq Inbound
          BY FS_Subset DEF CreditedInv, DeliveredTo, DeliveredBar, TypeOK
        <4> QED
          BY <4>1, ItsMessages, ItsBounds DEF AmountOf
      <3>2. CASE t = m.token_id
        <4>1. DeliveredTo(t)' = DeliveredTo(t) \cup {m} /\ m \notin DeliveredTo(t)
          BY <2>2, <3>2 DEF DeliveredTo
        <4>2. Sum(AmountOf, DeliveredTo(t)') = AmountOf[m] + Sum(AmountOf, DeliveredTo(t))
          BY <3>1, <4>1, SumAdd
        <4>3. ledger'[t].received = ledger[t].received + m.amount /\ ledger[t].received \in Int
          BY <1>1, <3>2 DEF ExecuteInterchainTransfer, TypeOK
        <4> QED
          BY <2>1, <4>2, <4>3 DEF CreditedInv, AmountOf
      <3>3. CASE t # m.token_id
        <4>1. DeliveredTo(t)' = DeliveredTo(t)
          BY <2>2, <3>3 DEF DeliveredTo
        <4>2. ledger'[t] = ledger[t]
          BY <1>1, <2>1, <3>3 DEF ExecuteInterchainTransfer, TypeOK
        <4> QED
          BY <4>1, <4>2 DEF CreditedInv
      <3> QED
        BY <3>2, <3>3
    <2> QED
      BY <2>3, <2>4 DEF CreditedInv, AmountOf
  <1>2. ASSUME \A m \in Inbound, fee \in Fees : ~ExecuteInterchainTransfer(m, fee)
        PROVE  CreditedInv'
    <2>1. DeliveredBar' = DeliveredBar
      BY <1>2, DeliveredFrame
    <2>2. ASSUME NEW t \in TokenIds PROVE ledger'[t].received = ledger[t].received
      <3>1. ASSUME NEW c, NEW a, NEW amount, NEW fee, InterchainTransfer(a, t, c, amount, fee)
            PROVE  ledger'[t].received = ledger[t].received
        BY <3>1 DEF InterchainTransfer, TypeOK
      <3> QED
        BY <1>2, <3>1, LedgerFrame
    <2> QED
      BY <2>1, <2>2 DEF CreditedInv, DeliveredTo, AmountOf
  <1> QED
    BY <1>1, <1>2

\* What a manager has received is the sum over the transfers executed for it, however
\* often and in whatever order relayers bring them (execute_handler).
THEOREM TransfersCreditedOnce == Spec => []CreditedOnce
  <1>1. Init => CreditedInv
    <2> SUFFICES ASSUME Init PROVE CreditedInv
      OBVIOUS
    <2>1. DeliveredBar = {} /\ \A t \in TokenIds : DeliveredTo(t) = {}
      BY DEF Init, DeliveredBar, DeliveredTo
    <2>2. \A t \in TokenIds : ledger[t].received = 0
      BY DEF Init
    <2> QED
      BY <2>1, <2>2, SumEmpty, FS_EmptySet DEF CreditedInv
  <1>2. TypeOK /\ CreditedInv => CreditedOnce
    <2> SUFFICES ASSUME TypeOK, CreditedInv, NEW t \in TokenIds
                 PROVE  ledger[t].received =
                          MapThenSumSet(LAMBDA m : m.amount,
                             {m \in validated : m.kind = "InterchainTransfer"
                                                /\ m.token_id = t})
      BY Zenon DEF CreditedOnce
    <2>1. IsFiniteSet(DeliveredTo(t)) /\ DeliveredTo(t) \subseteq Inbound
      BY FS_Subset DEF CreditedInv, DeliveredTo, DeliveredBar, TypeOK
    <2>2. DeliveredTo(t) =
            {m \in validated : m.kind = "InterchainTransfer" /\ m.token_id = t}
      BY DEF DeliveredTo, DeliveredBar
    <2>3. MapThenSumSet(LAMBDA m : m.amount, DeliveredTo(t)) = Sum(AmountOf, DeliveredTo(t))
      BY <2>1, SumOfAmounts
    <2>4. ledger[t].received = Sum(AmountOf, DeliveredTo(t))
      BY DEF CreditedInv
    <2> QED
      BY <2>2, <2>3, <2>4, Zenon
  <1> QED
    BY <1>1, <1>2, CreditedStep, TypeCorrect, PTL DEF Spec

-----------------------------------------------------------------------------
(***************************************************************************)
(* The interchain token service implements TokenBridge: every step of Its  *)
(* is, through the refinement mapping of Its!Bridge, a step of TokenBridge *)
(* or leaves its state alone.                                              *)
(***************************************************************************)

USE DEF service, registry, flows, tokens

\* The refinement mapping, variable by variable.
TokenBar == [t \in TokenIds |-> Bound(t)]
VaultBar == [t \in TokenIds |-> IF Bound(t).locked THEN balance[manager[t].mint][t] ELSE 0]
AbroadBar == [t \in TokenIds |-> ledger[t].sent - ledger[t].received]

\* Its step is a step of TokenBridge or changes nothing TokenBridge sees.
BridgeStep ==
    \/ Bridge!Next
    \/ /\ TokenBar' = TokenBar /\ VaultBar' = VaultBar
       /\ AbroadBar' = AbroadBar /\ DeliveredBar' = DeliveredBar

\* Bind, under the mapping.
LEMMA BindBar ==
    ASSUME NEW t \in TokenIds,
           TokenBar[t] = [locked |-> FALSE, manager |-> NoManager],
           TokenBar'[t] \in [locked : BOOLEAN,
                             manager : [open : {TRUE}, ty : ManagerTypes, mint : Mints]],
           TokenBar' = [TokenBar EXCEPT ![t] = TokenBar'[t]],
           VaultBar'[t] \in Nat,
           VaultBar' = [VaultBar EXCEPT ![t] = VaultBar'[t]],
           AbroadBar' = AbroadBar, DeliveredBar' = DeliveredBar
    PROVE  BridgeStep
  <1>1. Bridge!Bind(t)
    BY DEF Bridge!Bind, TokenBar, VaultBar, AbroadBar, DeliveredBar
  <1> QED
    BY <1>1 DEF BridgeStep, Bridge!Next

\* Send, under the mapping.
LEMMA SendBar ==
    ASSUME NEW t \in TokenIds, NEW n \in 1..U64Max,
           TokenBar[t] # [locked |-> FALSE, manager |-> NoManager],
           AbroadBar' = [AbroadBar EXCEPT ![t] = AbroadBar[t] + n],
           VaultBar' = [VaultBar EXCEPT ![t] =
                           VaultBar[t] + (IF TokenBar[t].locked THEN n ELSE 0)],
           TokenBar' = TokenBar, DeliveredBar' = DeliveredBar
    PROVE  BridgeStep
  <1>1. Bridge!Send(t, n)
    BY DEF Bridge!Send, Bridge!Locked, TokenBar, VaultBar, AbroadBar, DeliveredBar
  <1> QED
    BY <1>1 DEF BridgeStep, Bridge!Next

\* Donate, under the mapping.
LEMMA DonateBar ==
    ASSUME NEW t \in TokenIds, NEW n \in 1..U64Max, TokenBar[t].locked,
           VaultBar' = [VaultBar EXCEPT ![t] = VaultBar[t] + n],
           TokenBar' = TokenBar, AbroadBar' = AbroadBar, DeliveredBar' = DeliveredBar
    PROVE  BridgeStep
  <1>1. Bridge!Donate(t, n)
    BY DEF Bridge!Donate, TokenBar, VaultBar, AbroadBar, DeliveredBar
  <1> QED
    BY <1>1 DEF BridgeStep, Bridge!Next

\* Receive, under the mapping.
LEMMA ReceiveBar ==
    ASSUME NEW m \in Inbound, m.address = HubAddress, m.kind = "InterchainTransfer",
           m.token_id \in TokenIds, m \notin DeliveredBar,
           TokenBar[m.token_id] # [locked |-> FALSE, manager |-> NoManager],
           (IF TokenBar[m.token_id].locked THEN m.amount ELSE 0) <= VaultBar[m.token_id],
           VaultBar'[m.token_id] = VaultBar[m.token_id]
                           - (IF TokenBar[m.token_id].locked THEN m.amount ELSE 0),
           \A u \in TokenIds \ {m.token_id} :
              /\ VaultBar[u] <= VaultBar'[u]
              /\ VaultBar'[u] <= VaultBar[u] + (IF TokenBar[u].locked THEN m.amount ELSE 0),
           VaultBar' = [u \in TokenIds |-> VaultBar'[u]],
           AbroadBar' = [AbroadBar EXCEPT ![m.token_id] = AbroadBar[m.token_id] - m.amount],
           DeliveredBar' = DeliveredBar \cup {m}, TokenBar' = TokenBar
    PROVE  BridgeStep
  <1>1. Bridge!Receive(m)
    BY DEF Bridge!Receive, Bridge!Locked, TokenBar, VaultBar, AbroadBar, DeliveredBar
  <1> QED
    BY <1>1 DEF BridgeStep, Bridge!Next

\* A token id is bound exactly when its manager is open.
LEMMA BoundWhenOpen ==
    ASSUME TypeOK, ClosedIsBlank, NEW t \in TokenIds
    PROVE  /\ TokenBar[t] = [locked |-> FALSE, manager |-> NoManager] <=> ~manager[t].open
           /\ TokenBar[t].locked <=> manager[t].open /\ manager[t].ty \in LockTypes
  <1>1. TokenBar[t] = [locked |-> manager[t].open /\ manager[t].ty \in LockTypes,
                       manager |-> manager[t]]
    BY DEF TokenBar, Bound
  <1>2. TokenBar[t].locked = (manager[t].open /\ manager[t].ty \in LockTypes)
        /\ TokenBar[t].manager = manager[t]
    BY <1>1
  <1>3. CASE ~manager[t].open
    <2>1. manager[t] = NoManager
      BY <1>3 DEF ClosedIsBlank
    <2> QED
      BY <1>1, <1>2, <1>3, <2>1
  <1>4. CASE manager[t].open
    <2>1. manager[t] # NoManager
      BY <1>4 DEF NoManager
    <2>2. TokenBar[t] # [locked |-> FALSE, manager |-> NoManager]
      BY <1>2, <2>1
    <2> QED
      BY <1>2, <1>4, <2>2
  <1> QED
    BY <1>3, <1>4

\* Bindings depend on the managers only.
LEMMA TokenBarFrame ==
    ASSUME manager' = manager
    PROVE  TokenBar' = TokenBar
  BY DEF TokenBar, Bound

\* What is abroad depends on the ledger only.
LEMMA AbroadBarFrame ==
    ASSUME ledger' = ledger
    PROVE  AbroadBar' = AbroadBar
  BY DEF AbroadBar

\* The vault of a token id is its manager's token account, if the manager locks.
LEMMA VaultBarAt ==
    ASSUME NEW t \in TokenIds
    PROVE  /\ VaultBar[t] = IF manager[t].open /\ manager[t].ty \in LockTypes
                            THEN balance[manager[t].mint][t] ELSE 0
           /\ VaultBar'[t] = IF manager'[t].open /\ manager'[t].ty \in LockTypes
                             THEN balance'[manager'[t].mint][t] ELSE 0
           /\ DOMAIN VaultBar = TokenIds /\ DOMAIN VaultBar' = TokenIds
  BY DEF VaultBar, Bound

\* Tokens that reach holder h from outside the service are a gift to a vault, or
\* reach none.
LEMMA ArrivalStep ==
    ASSUME TypeOK, ClosedIsBlank, manager' = manager, ledger' = ledger,
           DeliveredBar' = DeliveredBar, NEW j \in Mints, NEW h \in Holders, NEW n \in 0..U64Max,
           \A k \in Mints, t \in TokenIds :
              balance'[k][t] = IF k = j /\ t = h THEN balance[k][t] + n ELSE balance[k][t]
    PROVE  BridgeStep
  <1>1. TokenBar' = TokenBar /\ AbroadBar' = AbroadBar
    BY TokenBarFrame, AbroadBarFrame
  <1>2. \A t \in TokenIds : manager[t].mint \in Mints /\ balance[manager[t].mint][t] \in Nat
    BY DEF TypeOK, Holders
  <1>3. CASE /\ h \in TokenIds /\ n # 0
             /\ manager[h].open /\ manager[h].ty \in LockTypes /\ manager[h].mint = j
    <2>1. TokenBar[h].locked /\ n \in 1..U64Max
      BY <1>3, BoundWhenOpen, ItsBounds
    <2>2. VaultBar'[h] = VaultBar[h] + n
      BY <1>3, VaultBarAt
    <2>3. ASSUME NEW t \in TokenIds \ {h} PROVE VaultBar'[t] = VaultBar[t]
      BY <1>2, VaultBarAt
    <2>4. VaultBar' = [VaultBar EXCEPT ![h] = VaultBar[h] + n]
      BY <1>3, <2>2, <2>3, ZenonT(60) DEF VaultBar
    <2> QED
      BY <1>1, <1>3, <2>1, <2>4, DonateBar
  <1>4. CASE ~(/\ h \in TokenIds /\ n # 0
               /\ manager[h].open /\ manager[h].ty \in LockTypes /\ manager[h].mint = j)
    <2>1. ASSUME NEW t \in TokenIds PROVE VaultBar'[t] = VaultBar[t]
      BY <1>2, <1>4, VaultBarAt
    <2>2. VaultBar' = VaultBar
      BY <2>1 DEF VaultBar
    <2> QED
      BY <1>1, <2>2 DEF BridgeStep
  <1> QED
    BY <1>3, <1>4

\* Opening a manager binds its token id.
LEMMA OpeningStep ==
    ASSUME TypeOK, TypeOK', ClosedIsBlank, NEW t \in TokenIds, NEW ty \in ManagerTypes,
           NEW j \in Mints, InitAccount(t, ty, j), ledger' = ledger,
           DeliveredBar' = DeliveredBar,
           \A k \in Mints, u \in TokenIds : balance'[k][u] = balance[k][u]
    PROVE  BridgeStep
  <1>1. /\ ~manager[t].open
        /\ manager'[t] = [open |-> TRUE, ty |-> ty, mint |-> j]
        /\ \A u \in TokenIds \ {t} : manager'[u] = manager[u]
    BY DEF InitAccount, TypeOK
  <1>2. TokenBar[t] = [locked |-> FALSE, manager |-> NoManager]
    BY <1>1, BoundWhenOpen
  <1>3. /\ TokenBar'[t] = [locked |-> manager'[t].open /\ manager'[t].ty \in LockTypes,
                           manager |-> manager'[t]]
        /\ manager'[t] \in [open : {TRUE}, ty : ManagerTypes, mint : Mints]
    <2>1. TokenBar'[t] = [locked |-> manager'[t].open /\ manager'[t].ty \in LockTypes,
                          manager |-> manager'[t]]
      BY DEF TokenBar, Bound
    <2> QED
      BY <1>1, <2>1
  <1>4. \A u \in TokenIds \ {t} : TokenBar'[u] = TokenBar[u]
    BY <1>1 DEF TokenBar, Bound
  <1>5. TokenBar' = [TokenBar EXCEPT ![t] = TokenBar'[t]]
    <2>1. /\ TokenBar = [u \in TokenIds |-> TokenBar[u]]
          /\ TokenBar' = [u \in TokenIds |-> TokenBar'[u]]
      BY DEF TokenBar
    <2> QED
      BY <1>4, <2>1
  <1>6. ASSUME NEW u \in TokenIds \ {t} PROVE VaultBar'[u] = VaultBar[u]
    <2>1. manager'[u] = manager[u] /\ manager[u].mint \in Mints
      BY <1>1 DEF TypeOK
    <2> QED
      BY <2>1, VaultBarAt
  <1>7. VaultBar' = [VaultBar EXCEPT ![t] = VaultBar'[t]]
    BY <1>6 DEF VaultBar
  <1>8. VaultBar'[t] \in Nat
    <2>1. manager'[t].mint \in Mints /\ balance'[manager'[t].mint][t] \in Nat
      BY DEF TypeOK, Holders
    <2> QED
      BY <2>1, VaultBarAt
  <1>9. TokenBar'[t] \in [locked : BOOLEAN,
                          manager : [open : {TRUE}, ty : ManagerTypes, mint : Mints]]
    <2>1. (manager'[t].open /\ manager'[t].ty \in LockTypes) \in BOOLEAN
      OBVIOUS
    <2>2. ASSUME NEW b \in BOOLEAN, NEW S, NEW r \in S
          PROVE  [locked |-> b, manager |-> r] \in [locked : BOOLEAN, manager : S]
      OBVIOUS
    <2> DEFINE S == [open : {TRUE}, ty : ManagerTypes, mint : Mints]
               b == manager'[t].open /\ manager'[t].ty \in LockTypes
               r == manager'[t]
    <2>3. b \in BOOLEAN /\ r \in S
      BY <1>3, <2>1
    <2> HIDE DEF S, b, r
    <2>4. [locked |-> b, manager |-> r] \in [locked : BOOLEAN, manager : S]
      BY <2>2, <2>3
    <2>5. TokenBar'[t] = [locked |-> b, manager |-> r]
      BY <1>3, Zenon DEF b, r
    <2> QED
      BY <2>4, <2>5, Zenon DEF S
  <1> QED
    BY <1>2, <1>5, <1>7, <1>8, <1>9, AbroadBarFrame, BindBar

\* interchain_transfer is a Send of what reached the vault or was burnt.
LEMMA SendStep ==
    ASSUME TypeOK, ClosedIsBlank, DeliveredBar' = DeliveredBar,
           NEW t \in TokenIds, NEW c \in Chains, NEW a \in Accounts, NEW amount \in Amounts,
           NEW fee \in Fees, InterchainTransfer(a, t, c, amount, fee)
    PROVE  BridgeStep
  <1> DEFINE k == manager[t].mint
             n == amount - fee
  <1>1. /\ manager' = manager /\ manager[t].open
        /\ ledger'[t].sent = ledger[t].sent + n
        /\ ledger'[t].received = ledger[t].received
        /\ \A u \in TokenIds \ {t} : ledger'[u] = ledger[u]
        /\ k \in Mints
    <2>1. /\ manager' = manager /\ manager[t].open
          /\ ledger' = [ledger EXCEPT ![t] = [sent |-> ledger[t].sent + (amount - fee),
                                              received |-> ledger[t].received]]
      BY DEF InterchainTransfer, TakenAmount
    <2>2. DOMAIN ledger = TokenIds /\ manager[t].mint \in Mints
      BY DEF TypeOK
    <2> QED
      BY <2>1, <2>2
  <1>2. amount \in Nat /\ amount <= U64Max /\ fee \in Nat /\ fee <= amount
    BY ItsBounds DEF InterchainTransfer, FeesFor
  <1>3. n \in 0..U64Max /\ a \in Holders /\ t \in Holders /\ t # a
    BY <1>2, ItsBounds, ItsNames DEF Holders
  <1>4. TokenBar' = TokenBar /\ TokenBar[t] # [locked |-> FALSE, manager |-> NoManager]
    BY <1>1, TokenBarFrame, BoundWhenOpen
  <1>5. ASSUME NEW u \in TokenIds \ {t}
        PROVE  VaultBar'[u] = VaultBar[u] /\ AbroadBar'[u] = AbroadBar[u]
    <2>1. u \in Holders /\ u # a /\ u # t /\ manager[u].mint \in Mints
      BY ItsNames DEF Holders, TypeOK
    <2>2. Burn(k, a, amount) \/ Transfer(k, a, t, amount, fee)
      BY DEF InterchainTransfer
    <2>3. balance'[manager[u].mint][u] = balance[manager[u].mint][u]
      BY <1>1, <1>3, <2>1, <2>2, BurnEffect, TransferEffect
    <2>4. VaultBar'[u] = VaultBar[u]
      BY <1>1, <2>3, VaultBarAt
    <2> QED
      BY <1>1, <2>4 DEF AbroadBar
  <1>6. VaultBar'[t] = VaultBar[t] + (IF TokenBar[t].locked THEN n ELSE 0)
    <2>1. CASE manager[t].ty \in LockTypes
      <3>1. Transfer(k, a, t, amount, fee)
        BY <2>1 DEF InterchainTransfer, BurnsAndMints, LockTypes, MintTypes
      <3>2. balance'[k][t] = balance[k][t] + amount - fee /\ balance[k][t] \in Nat
        BY <1>1, <1>3, <3>1, TransferEffect DEF TypeOK
      <3>3. TokenBar[t].locked /\ VaultBar[t] = balance[k][t] /\ VaultBar'[t] = balance'[k][t]
        BY <1>1, <2>1, BoundWhenOpen, VaultBarAt
      <3> QED
        BY <1>2, <3>2, <3>3
    <2>2. CASE manager[t].ty \notin LockTypes
      BY <1>1, <2>2, BoundWhenOpen, VaultBarAt
    <2> QED
      BY <2>1, <2>2
  <1>7. AbroadBar'[t] = AbroadBar[t] + n
    <2>1. ledger[t].sent \in Nat /\ ledger[t].received \in Nat
      BY DEF TypeOK
    <2>2. ledger'[t].sent - ledger'[t].received = ledger[t].sent - ledger[t].received + n
      BY <1>1, <1>2, <2>1
    <2> QED
      BY <2>2 DEF AbroadBar
  <1>8. /\ VaultBar = [u \in TokenIds |-> VaultBar[u]]
        /\ VaultBar' = [u \in TokenIds |-> VaultBar'[u]]
        /\ AbroadBar = [u \in TokenIds |-> AbroadBar[u]]
        /\ AbroadBar' = [u \in TokenIds |-> AbroadBar'[u]]
    BY DEF VaultBar, AbroadBar
  <1>9. CASE n # 0
    <2>1. n \in 1..U64Max
      BY <1>3, <1>9, ItsBounds
    <2>2. VaultBar' = [VaultBar EXCEPT ![t] =
                          VaultBar[t] + (IF TokenBar[t].locked THEN n ELSE 0)]
      BY <1>5, <1>6, <1>8
    <2>3. AbroadBar' = [AbroadBar EXCEPT ![t] = AbroadBar[t] + n]
      BY <1>5, <1>7, <1>8
    <2> HIDE DEF n
    <2> QED
      BY <1>4, <2>1, <2>2, <2>3, SendBar
  <1>10. CASE n = 0
    <2>1. VaultBar[t] \in Nat /\ AbroadBar[t] \in Int
      <3>1. /\ balance[k][t] \in Nat /\ ledger[t].sent \in Nat /\ ledger[t].received \in Nat
        BY <1>1, <1>3 DEF TypeOK
      <3>2. VaultBar[t] \in Nat
        BY <3>1, VaultBarAt
      <3> QED
        BY <3>1, <3>2 DEF AbroadBar
    <2>2. VaultBar'[t] = VaultBar[t] /\ AbroadBar'[t] = AbroadBar[t]
      BY <1>6, <1>7, <1>10, <2>1
    <2>3. VaultBar' = VaultBar /\ AbroadBar' = AbroadBar
      BY <1>5, <1>8, <2>2
    <2> QED
      BY <1>4, <2>3 DEF BridgeStep
  <1> QED
    BY <1>9, <1>10

\* execute_interchain_transfer is a Receive of its message.
LEMMA ReceiveStep ==
    ASSUME TypeOK, ClosedIsBlank, NEW m \in Inbound, NEW fee \in Fees,
           ExecuteInterchainTransfer(m, fee)
    PROVE  BridgeStep
  <1> DEFINE t == m.token_id
             k == manager[t].mint
  <1>1. /\ t \in TokenIds /\ m.amount \in Nat
        /\ m.principal \in Holders /\ m.principal # t
    BY MessageTypes DEF ExecuteInterchainTransfer
  <1>2. /\ manager' = manager /\ manager[t].open
        /\ ledger'[t].sent = ledger[t].sent
        /\ ledger'[t].received = ledger[t].received + m.amount
        /\ \A u \in TokenIds \ {t} : ledger'[u] = ledger[u]
        /\ k \in Mints
    <2>1. /\ manager' = manager /\ manager[t].open
          /\ ledger' = [ledger EXCEPT ![t] = [sent |-> ledger[t].sent,
                                              received |-> ledger[t].received + m.amount]]
      BY DEF ExecuteInterchainTransfer
    <2>2. DOMAIN ledger = TokenIds /\ manager[t].mint \in Mints
      BY <1>1 DEF TypeOK
    <2> QED
      BY <1>1, <2>1, <2>2
  <1>3. /\ m.address = HubAddress /\ m.kind = "InterchainTransfer"
        /\ m \notin DeliveredBar /\ DeliveredBar' = DeliveredBar \cup {m}
    BY DEF ExecuteInterchainTransfer, Execute, DeliveredBar
  <1>4. m.principal \in Holders /\ t \in Holders /\ m.principal # t
    BY <1>1, ItsNames DEF Holders
  <1>5. TokenBar' = TokenBar /\ TokenBar[t] # [locked |-> FALSE, manager |-> NoManager]
    BY <1>1, <1>2, TokenBarFrame, BoundWhenOpen
  <1>6. ASSUME NEW u \in TokenIds \ {t}
        PROVE  /\ VaultBar[u] <= VaultBar'[u]
               /\ VaultBar'[u] <= VaultBar[u] + (IF TokenBar[u].locked THEN m.amount ELSE 0)
               /\ AbroadBar'[u] = AbroadBar[u]
    <2> DEFINE j == manager[u].mint
    <2>1. /\ u \in Holders /\ u # t /\ j \in Mints
          /\ balance[j][u] \in Nat
      BY DEF Holders, TypeOK
    <2>2. MintTo(k, m.principal, m.amount) \/ Transfer(k, t, m.principal, m.amount, fee)
      BY DEF ExecuteInterchainTransfer
    <2>3. /\ balance[j][u] <= balance'[j][u]
          /\ balance'[j][u] <= balance[j][u] + m.amount
      <3>1. CASE MintTo(k, m.principal, m.amount)
        <4>1. balance'[j][u] \in {balance[j][u], balance[j][u] + m.amount}
          BY <1>1, <1>2, <1>4, <2>1, <3>1, MintToEffect
        <4> QED
          BY <1>1, <2>1, <4>1
      <3>2. CASE Transfer(k, t, m.principal, m.amount, fee)
        <4>1. fee \in Nat /\ fee <= m.amount
          BY <1>1, <3>2, ItsBounds DEF ExecuteInterchainTransfer, FeesFor
        <4>2. balance'[j][u] \in {balance[j][u], balance[j][u] + m.amount - fee}
          BY <1>1, <1>2, <1>4, <2>1, <3>2, <4>1, TransferEffect
        <4> QED
          BY <1>1, <2>1, <4>1, <4>2
      <3> QED
        BY <2>2, <3>1, <3>2
    <2>4. /\ VaultBar[u] <= VaultBar'[u]
          /\ VaultBar'[u] <= VaultBar[u] + (IF TokenBar[u].locked THEN m.amount ELSE 0)
      BY <1>2, <2>1, <2>3, BoundWhenOpen, VaultBarAt
    <2> QED
      BY <1>2, <2>4 DEF AbroadBar
  <1> DEFINE taken == IF TokenBar[t].locked THEN m.amount ELSE 0
  <1>7. VaultBar'[t] = VaultBar[t] - taken /\ taken <= VaultBar[t]
    <2>1. CASE manager[t].ty \in LockTypes
      <3>1. Transfer(k, t, m.principal, m.amount, fee)
        BY <2>1 DEF ExecuteInterchainTransfer, BurnsAndMints, LockTypes, MintTypes
      <3>2. balance'[k][t] = balance[k][t] - m.amount
        BY <1>2, <1>4, <3>1, TransferEffect
      <3>4. m.amount <= balance[k][t]
        BY <3>1 DEF Transfer
      <3>3. TokenBar[t].locked /\ VaultBar[t] = balance[k][t] /\ VaultBar'[t] = balance'[k][t]
        BY <1>1, <1>2, <2>1, BoundWhenOpen, VaultBarAt
      <3> QED
        BY <3>2, <3>3, <3>4
    <2>2. CASE manager[t].ty \notin LockTypes
      <3>1. ~TokenBar[t].locked /\ VaultBar[t] = 0 /\ VaultBar'[t] = 0
        BY <1>1, <1>2, <2>2, BoundWhenOpen, VaultBarAt
      <3> QED
        BY <3>1
    <2> QED
      BY <2>1, <2>2
  <1>8. AbroadBar'[t] = AbroadBar[t] - m.amount
    <2>1. ledger[t].sent \in Nat /\ ledger[t].received \in Nat
      BY <1>1 DEF TypeOK
    <2> HIDE DEF t
    <2>2. ledger'[t].sent - ledger'[t].received
              = ledger[t].sent - ledger[t].received - m.amount
      BY <1>1, <1>2, <2>1
    <2> QED
      BY <1>1, <2>2 DEF AbroadBar
  <1>9. /\ VaultBar = [u \in TokenIds |-> VaultBar[u]]
        /\ VaultBar' = [u \in TokenIds |-> VaultBar'[u]]
        /\ AbroadBar = [u \in TokenIds |-> AbroadBar[u]]
        /\ AbroadBar' = [u \in TokenIds |-> AbroadBar'[u]]
    BY DEF VaultBar, AbroadBar
  <1>10. AbroadBar' = [AbroadBar EXCEPT ![t] = AbroadBar[t] - m.amount]
    BY <1>1, <1>6, <1>8, <1>9
  <1> QED
    BY <1>1, <1>3, <1>5, <1>6, <1>7, <1>9, <1>10, ReceiveBar

-----------------------------------------------------------------------------
\* At the start nothing is bound, locked, abroad or delivered.
LEMMA BridgeInit == Init => Bridge!Init
  <1> SUFFICES ASSUME Init PROVE Bridge!Init
    OBVIOUS
  <1>1. /\ TypeOK /\ ClosedIsBlank
        /\ \A t \in TokenIds : /\ ~manager[t].open
                               /\ ledger[t].sent = 0 /\ ledger[t].received = 0
    BY IInvInit DEF IInv, Init, NoManager
  <1>2. \A t \in TokenIds : Bound(t) = [locked |-> FALSE, manager |-> NoManager]
    BY <1>1, BoundWhenOpen DEF TokenBar
  <1>3. DeliveredBar = {}
    BY DEF Init, DeliveredBar
  <1> QED
    BY <1>1, <1>2, <1>3 DEF Bridge!Init, DeliveredBar

\* Every step of the service is a step of the bridge or invisible to it.
LEMMA BridgeNext ==
    ASSUME IInv, [Next]_vars
    PROVE  BridgeStep
  <1>1. TypeOK /\ TypeOK' /\ ClosedIsBlank
    BY TypeStep DEF IInv
  <1>2. /\ \A a \in Accounts : a \in Holders /\ a \notin TokenIds
        /\ 0 \in 0..U64Max
        /\ \A amount \in Amounts : amount \in 0..U64Max
        /\ \A fee \in Fees : fee \in Nat
    BY ItsNames, ItsBounds DEF Holders
  <1>3. ASSUME NEW m \in Inbound, NEW fee \in Fees, ExecuteInterchainTransfer(m, fee)
        PROVE  BridgeStep
    BY <1>1, <1>3, ReceiveStep
  <1> DEFINE Quiet == \A m \in Inbound, fee \in Fees : ~ExecuteInterchainTransfer(m, fee)
  <1>4. ASSUME Quiet PROVE DeliveredBar' = DeliveredBar
    BY <1>4, DeliveredFrame
  <1>5. ASSUME Quiet, NEW t \in TokenIds, NEW c \in Chains, NEW a \in Accounts,
               NEW amount \in Amounts, NEW fee \in Fees, InterchainTransfer(a, t, c, amount, fee)
        PROVE  BridgeStep
    BY <1>1, <1>4, <1>5, SendStep
  <1>6. ASSUME Quiet, NEW t \in TokenIds, NEW minter, NEW holder \in Accounts, NEW supply,
               NativeRegistration(t, minter, holder, supply)
        PROVE  BridgeStep
    <2>1. /\ InitAccount(t, "NativeInterchainToken", NativeMint[t])
          /\ "NativeInterchainToken" \in ManagerTypes /\ ledger' = ledger
          /\ balance' = [balance EXCEPT ![NativeMint[t]] =
                           [balance[NativeMint[t]] EXCEPT ![holder] =
                               balance[NativeMint[t]][holder] + supply]]
      BY <1>6 DEF NativeRegistration, CreateNativeToken, ManagerTypes, MintTypes
    <2>2. NativeMint[t] \in Mints
      BY ItsNames
    <2>3. ASSUME NEW k \in Mints, NEW u \in TokenIds
          PROVE  balance'[k][u] = balance[k][u]
      BY <1>1, <1>2, <2>1, <2>2 DEF TypeOK, Holders
    <2> QED
      BY <1>1, <1>4, <1>6, <2>1, <2>2, <2>3, OpeningStep
  <1>7. ASSUME Quiet, NEW t \in TokenIds, NEW ty \in ManagerTypes, NEW j \in Mints,
               NEW principal, LinkRegistration(t, ty, j, principal)
        PROVE  BridgeStep
    <2>1. InitAccount(t, ty, j) /\ balance' = balance /\ ledger' = ledger
      BY <1>7 DEF LinkRegistration
    <2> QED
      BY <1>1, <1>4, <1>7, <2>1, OpeningStep
  <1>8. ASSUME Quiet, balance' = balance, manager' = manager, ledger' = ledger
        PROVE  BridgeStep
    <2>1. TokenBar' = TokenBar /\ AbroadBar' = AbroadBar /\ VaultBar' = VaultBar
      BY <1>8, TokenBarFrame, AbroadBarFrame DEF VaultBar, Bound
    <2> QED
      BY <1>4, <1>8, <2>1 DEF BridgeStep
  <1>9. ASSUME Quiet, NEW j \in Mints, NEW h \in Holders, NEW n \in 0..U64Max,
               MintTo(j, h, n), manager' = manager, ledger' = ledger
        PROVE  BridgeStep
    <2>1. \A k \in Mints, t \in TokenIds :
              balance'[k][t] = IF k = j /\ t = h THEN balance[k][t] + n ELSE balance[k][t]
      BY <1>1, <1>9, MintToEffect DEF Holders
    <2> QED
      BY <1>1, <1>4, <1>9, <2>1, ArrivalStep
  <1>10. ASSUME Quiet, NEW t \in TokenIds, NEW a \in Accounts, NEW h \in Holders,
                NEW amount \in Amounts, MintInterchainToken(a, t, h, amount)
         PROVE  BridgeStep
    <2>1. /\ MintTo(manager[t].mint, h, amount) /\ manager[t].mint \in Mints
          /\ manager' = manager /\ ledger' = ledger
      BY <1>1, <1>10 DEF MintInterchainToken, TypeOK
    <2> QED
      BY <1>2, <1>9, <1>10, <2>1
  <1>11. ASSUME Quiet, UseToken PROVE BridgeStep
    <2>1. ASSUME NEW j \in Mints, NEW a \in Accounts, NEW h \in Holders, NEW amount \in Amounts,
                 NEW fee \in Fees, SplTransfer(j, a, h, amount, fee)
          PROVE  BridgeStep
      <3>1. /\ Transfer(j, a, h, amount, fee) /\ manager' = manager /\ ledger' = ledger
            /\ h \in Holders \ {a} /\ a \in Holders
        BY <1>2, <2>1 DEF SplTransfer
      <3>2. fee <= amount
        BY <3>1 DEF Transfer
      <3>3. amount - fee \in 0..U64Max
        BY <1>2, <3>2, ItsBounds
      <3>4. ASSUME NEW k \in Mints, NEW t \in TokenIds
            PROVE  balance'[k][t] = IF k = j /\ t = h THEN balance[k][t] + (amount - fee)
                                    ELSE balance[k][t]
        <4>1. t # a /\ t \in Holders
          BY <1>2 DEF Holders
        <4>2. CASE k = j /\ t = h
          <5>1. balance'[k][t] = balance[k][t] + amount - fee /\ balance[k][t] \in Nat
            BY <1>1, <3>1, <4>1, <4>2, TransferEffect DEF TypeOK
          <5> QED
            BY <1>2, <4>2, <5>1
        <4>3. CASE ~(k = j /\ t = h)
          BY <1>1, <3>1, <4>1, <4>3, TransferEffect
        <4> QED
          BY <4>2, <4>3
      <3> QED
        BY <1>1, <1>4, <1>11, <3>1, <3>3, <3>4, ArrivalStep
    <2>2. ASSUME NEW j \in Mints, NEW a \in Accounts, NEW amount \in Amounts,
                 SplMint(j, a, amount)
          PROVE  BridgeStep
      <3>1. MintTo(j, a, amount) /\ manager' = manager /\ ledger' = ledger
        BY <2>2 DEF SplMint
      <3> QED
        BY <1>2, <1>9, <1>11, <3>1
    <2>3. ASSUME NEW j \in Mints, NEW a \in Accounts, NEW amount \in Amounts,
                 SplBurn(j, a, amount)
          PROVE  BridgeStep
      <3>1. Burn(j, a, amount) /\ manager' = manager /\ ledger' = ledger /\ a \in Holders
        BY <1>2, <2>3 DEF SplBurn
      <3>2. ASSUME NEW k \in Mints, NEW t \in TokenIds
            PROVE  balance'[k][t] = IF k = j /\ t = a THEN balance[k][t] + 0
                                    ELSE balance[k][t]
        <4>1. t # a /\ t \in Holders
          BY <1>2 DEF Holders
        <4> QED
          BY <1>1, <3>1, <4>1, BurnEffect
      <3> QED
        BY <1>1, <1>2, <1>4, <1>11, <3>1, <3>2, ArrivalStep
    <2>4. ASSUME NEW j, NEW a, NEW new, SplSetAuthority(j, a, new) PROVE BridgeStep
      BY <1>8, <1>11, <2>4 DEF SplSetAuthority
    <2> QED
      BY <1>11, <2>1, <2>2, <2>3, <2>4 DEF UseToken
  <1>12. ASSUME Quiet, NEW t \in TokenIds, NEW a, NEW b, RoleStep(a, t, b) PROVE BridgeStep
    BY <1>8, <1>12 DEF RoleStep, AddTokenManagerFlowLimiter, RemoveTokenManagerFlowLimiter,
                       TransferTokenManagerOperatorship, TransferInterchainTokenMintership
  <1>13. ASSUME Quiet, NEW t, NEW a, HandoverMintAuthority(a, t) PROVE BridgeStep
    BY <1>8, <1>13 DEF HandoverMintAuthority
  <1>14. ASSUME Quiet, ~TokenStep, ~RegistryStep PROVE BridgeStep
    BY <1>8, <1>14, TokenFrame, RegistryFrame
  <1>15. ASSUME Quiet PROVE BridgeStep
    <2> HIDE DEF Quiet
    <2>1. Quiet
      BY <1>15
    <2>2. TokenStep \/ RegistryStep => BridgeStep
      BY <1>3, <1>5, <1>6, <1>7, <1>10, <1>11, <1>12, <1>13, <2>1 DEF TokenStep, RegistryStep
    <2> QED
      BY <1>14, <2>1, <2>2
  <1> QED
    BY <1>3, <1>15

\* Through pauses, flow limits, fees, racing registrations and retried messages the
\* service does to the vaults what TokenBridge says and nothing else.
THEOREM BridgeImplemented == Spec => ImplementsTokenBridge
  <1>1. BridgeStep => [Bridge!Next]_(Bridge!vars)
    BY DEF BridgeStep, Bridge!vars, TokenBar, VaultBar, AbroadBar, DeliveredBar
  <1>2. IInv /\ [Next]_vars => [Bridge!Next]_(Bridge!vars)
    BY <1>1, BridgeNext
  <1> QED
    BY <1>2, BridgeInit, ItsInvariant, PTL DEF Spec, ImplementsTokenBridge, Bridge!Spec
=============================================================================
