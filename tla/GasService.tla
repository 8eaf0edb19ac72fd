------------------------------ MODULE GasService ------------------------------
(***************************************************************************)
(* The gas service (programs/solana-axelar-gas-service) together with the  *)
(* operator registry it trusts.  Anybody pays into the treasury; whoever   *)
(* is an operator at that moment collects and refunds, never below the     *)
(* treasury account's rent exemption.                                      *)
(***************************************************************************)
EXTENDS Operators

CONSTANTS
    Amounts,        \* amounts tried
    TreasuryRent,   \* rent exemption of the treasury account
    MaxPaid         \* bound on the sum of all payments

ASSUME GasServiceAssumption ==
    /\ Amounts \subseteq Nat
    /\ TreasuryRent \in Nat
    /\ MaxPaid \in Nat

VARIABLES
    treasury,       \* Treasury: its lamports
    paid,           \* observation only: lamports paid in
    withdrawn       \* observation only: lamports taken out

gasVars == <<treasury, paid, withdrawn>>
vars == <<registry, operators, treasury, paid, withdrawn>>

Init ==
    /\ InitRegistry
    /\ treasury = [initialized |-> FALSE, lamports |-> 0]
    /\ paid = 0
    /\ withdrawn = 0

\* instructions/initialize.rs, signed by an operator
InitializeTreasury(operator) ==
    /\ operator \in operators
    /\ ~treasury.initialized
    /\ treasury' = [initialized |-> TRUE, lamports |-> TreasuryRent]
    /\ UNCHANGED <<registryVars, paid, withdrawn>>

\* pay_gas and add_gas move lamports alike; they differ in the event.
PayGas(amount) ==
    /\ treasury.initialized
    /\ amount # 0
    /\ paid + amount <= MaxPaid
    /\ treasury' = [initialized |-> TRUE, lamports |-> treasury.lamports + amount]
    /\ paid' = paid + amount
    /\ UNCHANGED <<registryVars, withdrawn>>

AddGas(amount) == PayGas(amount)

\* Mutant: only the balance itself is checked.
HasLamports(amount) == treasury.lamports >= amount

\* transfer_lamports_anchor, then is_exempt on what is left.
StaysRentExempt(amount) ==
    /\ treasury.lamports >= amount
    /\ treasury.lamports - amount >= TreasuryRent

\* collect_fees and refund_fees, by an operator of this moment.  A withdrawal whose
\* receiver is the treasury itself changes nothing and is a stuttering step.
Withdraw(operator, amount) ==
    /\ operator \in operators
    /\ treasury.initialized
    /\ amount # 0
    /\ StaysRentExempt(amount)
    /\ treasury' = [initialized |-> TRUE, lamports |-> treasury.lamports - amount]
    /\ withdrawn' = withdrawn + amount
    /\ UNCHANGED <<registryVars, paid>>

CollectFees(operator, amount) == Withdraw(operator, amount)

RefundFees(operator, amount) == Withdraw(operator, amount)

Next ==
    \/ NextRegistry /\ UNCHANGED gasVars
    \/ \E a \in Accounts : InitializeTreasury(a)
    \/ \E amount \in Amounts : PayGas(amount)
    \/ \E amount \in Amounts : AddGas(amount)
    \/ \E a \in Accounts, amount \in Amounts : CollectFees(a, amount)
    \/ \E a \in Accounts, amount \in Amounts : RefundFees(a, amount)

Spec == Init /\ [][Next]_vars

-----------------------------------------------------------------------------
\* The accounts hold values of their types; before initialize there is no owner.
TypeOK ==
    /\ registry \in [initialized : BOOLEAN, owner : Accounts \cup {NoAccount},
                     operator_count : Nat]
    /\ registry.initialized => registry.owner \in Accounts
    /\ operators \subseteq Accounts
    /\ treasury \in [initialized : BOOLEAN, lamports : Nat]
    /\ paid \in Nat
    /\ withdrawn \in Nat

\* The treasury holds its rent exemption and every lamport that was paid in and not
\* taken out: whatever operators come, go, collect and refund (collect_fees and
\* refund_fees check is_exempt after the transfer), they never take more than users
\* have paid, and nothing is lost.
TreasuryBalances ==
    treasury.initialized =>
        /\ treasury.lamports = TreasuryRent + paid - withdrawn
        /\ withdrawn <= paid
=============================================================================
