------------------------------- MODULE Operators -------------------------------
(***************************************************************************)
(* The operator registry (programs/solana-axelar-operators).  Its owner    *)
(* adds and removes operators; an operator is an account with an           *)
(* OperatorAccount PDA, which other programs look up, and the registry     *)
(* counts them.                                                            *)
(***************************************************************************)
EXTENDS Integers, FiniteSets

CONSTANTS
    Accounts,       \* keys that sign instructions
    NoAccount,      \* the owner before initialize
    U64Max          \* the largest operator_count

ASSUME OperatorsAssumption == NoAccount \notin Accounts /\ U64Max \in Nat

VARIABLES
    registry,       \* OperatorRegistry
    operators       \* keys that have an OperatorAccount

registryVars == <<registry, operators>>

InitRegistry ==
    /\ registry = [initialized |-> FALSE, owner |-> NoAccount, operator_count |-> 0]
    /\ operators = {}

\* instructions/initialize.rs: whoever comes first owns the registry.
InitializeRegistry(owner) ==
    /\ ~registry.initialized
    /\ registry' = [initialized |-> TRUE, owner |-> owner, operator_count |-> 0]
    /\ UNCHANGED operators

\* Mutant: the operator account is created only if it is needed.
AddOperatorIfNeeded(owner, operator) ==
    /\ registry.initialized
    /\ owner = registry.owner
    /\ registry.operator_count + 1 <= U64Max
    /\ registry' = [initialized |-> TRUE, owner |-> registry.owner,
                    operator_count |-> registry.operator_count + 1]
    /\ operators' = operators \cup {operator}

AddOperator(owner, operator) ==
    /\ registry.initialized
    /\ owner = registry.owner
    /\ operator \notin operators
    /\ registry.operator_count + 1 <= U64Max
    /\ registry' = [initialized |-> TRUE, owner |-> registry.owner,
                    operator_count |-> registry.operator_count + 1]
    /\ operators' = operators \cup {operator}

RemoveOperator(owner, operator) ==
    /\ registry.initialized
    /\ owner = registry.owner
    /\ operator \in operators
    /\ registry.operator_count >= 1
    /\ registry' = [initialized |-> TRUE, owner |-> registry.owner,
                    operator_count |-> registry.operator_count - 1]
    /\ operators' = operators \ {operator}

TransferOwner(owner, new_owner) ==
    /\ registry.initialized
    /\ owner = registry.owner
    /\ new_owner # registry.owner
    /\ registry' = [initialized |-> TRUE, owner |-> new_owner,
                    operator_count |-> registry.operator_count]
    /\ UNCHANGED operators

NextRegistry ==
    \/ \E a \in Accounts : InitializeRegistry(a)
    \/ \E a, o \in Accounts : AddOperator(a, o)
    \/ \E a, o \in Accounts : RemoveOperator(a, o)
    \/ \E a, o \in Accounts : TransferOwner(a, o)

-----------------------------------------------------------------------------
\* The registry counts the operator accounts that exist, so the checked_sub of
\* remove_operator cannot fail ("Should never happen if the Operator PDA exists",
\* remove_operator.rs:40) and no operator becomes impossible to remove.
OperatorsAreCounted ==
    /\ registry.operator_count = Cardinality(operators)
    /\ registry.operator_count <= U64Max
=============================================================================
