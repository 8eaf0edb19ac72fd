--------------------------- MODULE GasService_proofs ---------------------------
(***************************************************************************)
(* Proofs about GasService: the registry counts its operators, and the     *)
(* treasury balances, for every set of accounts and every amount.          *)
(***************************************************************************)
EXTENDS GasService, FiniteSetTheorems, TLAPS

\* The inductive invariant.  The set of operators is finite, though the set of keys
\* need not be; nothing is paid before the treasury exists.
IInv ==
    /\ TypeOK
    /\ IsFiniteSet(operators)
    /\ OperatorsAreCounted
    /\ TreasuryBalances
    /\ ~registry.initialized => operators = {}
    /\ ~treasury.initialized => paid = 0 /\ withdrawn = 0

\* The part of the invariant that is about the registry (solana-axelar-operators).
RegistryInv ==
    /\ registry \in [initialized : BOOLEAN, owner : Accounts \cup {NoAccount},
                     operator_count : Nat]
    /\ registry.initialized => registry.owner \in Accounts
    /\ operators \subseteq Accounts
    /\ IsFiniteSet(operators)
    /\ OperatorsAreCounted
    /\ ~registry.initialized => operators = {}

\* The part that is about the treasury (solana-axelar-gas-service).
TreasuryInv ==
    /\ treasury \in [initialized : BOOLEAN, lamports : Nat]
    /\ paid \in Nat
    /\ withdrawn \in Nat
    /\ TreasuryBalances
    /\ ~treasury.initialized => paid = 0 /\ withdrawn = 0

\* The two parts make up the invariant.
LEMMA InvariantParts == IInv <=> RegistryInv /\ TreasuryInv
  BY DEF IInv, TypeOK, RegistryInv, TreasuryInv

\* add_operator, remove_operator and the other instructions of the registry keep its
\* count in step with the operator accounts that exist.
LEMMA RegistrySteps ==
  ASSUME RegistryInv, NextRegistry
  PROVE  RegistryInv'
<1> USE OperatorsAssumption
<1>1. ASSUME NEW a \in Accounts, InitializeRegistry(a)
      PROVE  RegistryInv'
  BY <1>1, FS_EmptySet DEF InitializeRegistry, RegistryInv, OperatorsAreCounted
<1>2. ASSUME NEW a \in Accounts, NEW o \in Accounts, AddOperator(a, o)
      PROVE  RegistryInv'
  <2>1. /\ IsFiniteSet(operators \cup {o})
        /\ Cardinality(operators \cup {o}) = Cardinality(operators) + 1
    BY <1>2, FS_AddElement DEF RegistryInv, AddOperator
  <2>2. /\ registry' = [initialized |-> TRUE, owner |-> registry.owner,
                        operator_count |-> registry.operator_count + 1]
        /\ operators' = operators \cup {o}
        /\ registry.operator_count + 1 <= U64Max
        /\ registry.initialized
    BY <1>2 DEF AddOperator
  <2>3. QED
    BY <2>1, <2>2 DEF RegistryInv, OperatorsAreCounted
<1>3. ASSUME NEW a \in Accounts, NEW o \in Accounts, RemoveOperator(a, o)
      PROVE  RegistryInv'
  <2>1. /\ IsFiniteSet(operators \ {o})
        /\ Cardinality(operators \ {o}) = Cardinality(operators) - 1
    BY <1>3, FS_RemoveElement DEF RegistryInv, RemoveOperator
  <2>2. /\ registry' = [initialized |-> TRUE, owner |-> registry.owner,
                        operator_count |-> registry.operator_count - 1]
        /\ operators' = operators \ {o}
        /\ registry.operator_count >= 1
        /\ registry.initialized
    BY <1>3 DEF RemoveOperator
  <2>3. QED
    BY <2>1, <2>2 DEF RegistryInv, OperatorsAreCounted
<1>4. ASSUME NEW a \in Accounts, NEW o \in Accounts, TransferOwner(a, o)
      PROVE  RegistryInv'
  BY <1>4 DEF TransferOwner, RegistryInv, OperatorsAreCounted
<1>5. QED
  BY <1>1, <1>2, <1>3, <1>4 DEF NextRegistry

\* A withdrawal, collect_fees or refund_fees, leaves the rent exemption in place.
LEMMA WithdrawalBalances ==
  ASSUME TreasuryInv, NEW a \in Accounts, NEW amount \in Amounts, Withdraw(a, amount)
  PROVE  TreasuryInv'
  BY GasServiceAssumption DEF Withdraw, StaysRentExempt, TreasuryInv, TreasuryBalances

\* pay_gas and add_gas put the whole amount into the treasury.
LEMMA PaymentBalances ==
  ASSUME TreasuryInv, NEW amount \in Amounts, PayGas(amount)
  PROVE  TreasuryInv'
  BY GasServiceAssumption DEF PayGas, TreasuryInv, TreasuryBalances

\* The invariant holds of every reachable state.
THEOREM Invariance == Spec => []IInv
<1>1. Init => IInv
  BY OperatorsAssumption, FS_EmptySet
  DEF Init, InitRegistry, IInv, TypeOK, OperatorsAreCounted, TreasuryBalances
<1>2. IInv /\ [Next]_vars => IInv'
  <2> SUFFICES ASSUME RegistryInv, TreasuryInv, [Next]_vars
               PROVE  RegistryInv' /\ TreasuryInv'
    BY InvariantParts DEF IInv, RegistryInv, TreasuryInv, TypeOK
  <2>1. CASE NextRegistry /\ UNCHANGED gasVars
    <3>1. RegistryInv'
      BY <2>1, RegistrySteps
    <3>2. TreasuryInv'
      BY <2>1 DEF gasVars, TreasuryInv, TreasuryBalances
    <3>3. QED
      BY <3>1, <3>2
  <2>2. ASSUME UNCHANGED registryVars
        PROVE  RegistryInv'
    BY <2>2 DEF registryVars, RegistryInv, OperatorsAreCounted
  <2>3. ASSUME NEW a \in Accounts, InitializeTreasury(a)
        PROVE  RegistryInv' /\ TreasuryInv'
    <3>1. TreasuryInv'
      BY <2>3, GasServiceAssumption
      DEF InitializeTreasury, TreasuryInv, TreasuryBalances
    <3>2. QED
      BY <2>2, <2>3, <3>1 DEF InitializeTreasury
  <2>4. ASSUME NEW amount \in Amounts, PayGas(amount) \/ AddGas(amount)
        PROVE  RegistryInv' /\ TreasuryInv'
    BY <2>2, <2>4, PaymentBalances DEF AddGas, PayGas
  <2>5. ASSUME NEW a \in Accounts, NEW amount \in Amounts,
               CollectFees(a, amount) \/ RefundFees(a, amount)
        PROVE  RegistryInv' /\ TreasuryInv'
    BY <2>2, <2>5, WithdrawalBalances DEF CollectFees, RefundFees, Withdraw
  <2>6. CASE UNCHANGED vars
    BY <2>2, <2>6 DEF vars, registryVars, TreasuryInv, TreasuryBalances
  <2>7. QED
    BY <2>1, <2>3, <2>4, <2>5, <2>6 DEF Next
<1>3. QED
  BY <1>1, <1>2, PTL DEF Spec

\* The registry's count is the number of operator accounts, for any number of keys,
\* so every operator can be removed (remove_operator.rs).
THEOREM OperatorCountIsExact == Spec => []OperatorsAreCounted
<1>1. IInv => OperatorsAreCounted
  BY DEF IInv
<1>2. QED
  BY <1>1, Invariance, PTL

\* The treasury balances, whatever is paid, collected and refunded in any order by
\* whichever operators (collect_fees.rs, refund_fees.rs).
THEOREM TreasuryAlwaysBalances == Spec => []TreasuryBalances
<1>1. IInv => TreasuryBalances
  BY DEF IInv
<1>2. QED
  BY <1>1, Invariance, PTL
=============================================================================
