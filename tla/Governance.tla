------------------------------ MODULE Governance ------------------------------
(***************************************************************************)
(* The governance program (programs/solana-axelar-governance).  Commands   *)
(* arrive as GMP messages through the gateway and schedule, cancel and     *)
(* approve proposals; anyone executes a scheduled proposal once its        *)
(* timelock is over, and the operator executes an approved one at once.    *)
(*                                                                         *)
(* Each instruction is one atomic action: its account constraints and      *)
(* early returns are the guard.  A proposal is identified with its hash,   *)
(* and ProposalData is what was hashed.  Messages is the set of GMP        *)
(* messages the gateway has approved for this program; they are relayed in *)
(* any order, at any time, and the gateway lets each be executed once      *)
(* (module Gateway).                                                       *)
(***************************************************************************)
EXTENDS Integers, FiniteSets, FiniteSetsExt

CONSTANTS
    Proposals,          \* proposal hashes
    ProposalData,       \* ExecuteProposalData of each proposal
    Messages,           \* approved GMP messages with their decoded payloads
    MessageIds,         \* their cross-chain identifiers
    Chains, Addresses,  \* hashes of source chains and source addresses
    Accounts,           \* keys that sign instructions or become operator
    UpgradeAuthority,   \* the program's upgrade authority
    Delays,             \* values tried for minimum_proposal_eta_delay
    InitialChain, InitialAddress, InitialOperator,    \* GovernanceConfigInit
    MinimumDelay, MaximumDelay,   \* VALID_PROPOSAL_DELAY_RANGE
    ConfigRent,         \* rent exemption of the governance_config account
    ProposalRent,       \* rent of an ExecutableProposal account
    MarkerRent,         \* rent of an OperatorProposal account
    U64Max,             \* largest eta and native value a u64 holds
    MaxTime             \* bound on the clock

Commands == {"ScheduleTimeLockProposal", "CancelTimeLockProposal",
             "ApproveOperatorProposal", "CancelOperatorApproval"}

\* What the CPI of a proposal does to this program: nothing (the target is
\* another program), transfer_operatorship or withdraw_tokens.
CallKinds == {"external", "transfer_operatorship", "withdraw_tokens"}

ASSUME GovernanceBounds ==
    /\ Delays \subseteq Nat
    /\ MinimumDelay \in Nat
    /\ MaximumDelay \in Nat
    /\ ConfigRent \in Nat
    /\ ProposalRent \in Nat
    /\ MarkerRent \in Nat
    /\ U64Max \in Nat
    /\ MaxTime \in Nat

ASSUME GovernanceNames ==
    /\ IsFiniteSet(Proposals)
    /\ ProposalData \in
         [Proposals -> [call : CallKinds, new_operator : Accounts, amount : Nat,
                        native_value : Nat, has_receiver : BOOLEAN,
                        names_governance_config : BOOLEAN]]
    /\ Messages \subseteq
         [id : MessageIds, chain : Chains, address : Addresses,
          command : Commands, proposal : Proposals, eta : Nat]
    /\ InitialChain \in Chains
    /\ InitialAddress \in Addresses
    /\ InitialOperator \in Accounts

VARIABLES
    config,     \* GovernanceConfig
    proposal,   \* ExecutableProposal accounts
    marker,     \* OperatorProposal accounts
    lamports,   \* balance of the governance_config account
    validated,  \* messages the gateway has marked as executed
    now,        \* Clock::unix_timestamp
    count,      \* observation only: what happened to each proposal so far
    terms,      \* observation only: when and how each proposal was last scheduled
    appointed   \* observation only: argument of the last transfer_operatorship

vars == <<config, proposal, marker, lamports, validated, now, count, terms, appointed>>

NoProposal == [open |-> FALSE, eta |-> 0]

Events == [scheduled : Nat, executed : Nat, cancelled : Nat,
           approved : Nat, revoked : Nat, operated : Nat]

NoEvents == [scheduled |-> 0, executed |-> 0, cancelled |-> 0,
             approved |-> 0, revoked |-> 0, operated |-> 0]

Init ==
    /\ config = [initialized |-> FALSE, chain |-> InitialChain,
                 address |-> InitialAddress, minimum_proposal_eta_delay |-> 0,
                 operator |-> InitialOperator]
    /\ proposal = [h \in Proposals |-> NoProposal]
    /\ marker = [h \in Proposals |-> FALSE]
    /\ lamports = 0
    /\ validated = {}
    /\ now = 0
    /\ count = [h \in Proposals |-> NoEvents]
    /\ terms = [h \in Proposals |-> [at |-> 0, delay |-> 0, requested |-> 0]]
    /\ appointed = InitialOperator

-----------------------------------------------------------------------------
\* Mutant: the range of the delay is open at its lower end.
DelayUnbounded(delay) == delay <= MaximumDelay

\* GovernanceConfig::validate_config
ValidDelay(delay) == MinimumDelay <= delay /\ delay <= MaximumDelay

\* Mutant: the requested ETA is taken as it is.
RequestedEta(eta) == eta

\* at_least_default_eta_delay
AtLeastDefaultEtaDelay(eta) ==
    LET minimum == now + config.minimum_proposal_eta_delay
    IN  IF eta < minimum THEN minimum ELSE eta

\* process_proposal_gmp and extract_proposal_data: the command chooses the self-CPI
\* and its ETA must fit a u64.
DispatchCommand(m, command) == m.command = command /\ m.eta <= U64Max

\* execute_handler up to the self-CPI: ensure_authorized_gmp_command and
\* validate_message_raw.
AcceptCommand(m, command) ==
    /\ config.initialized
    /\ m.address = config.address
    /\ m.chain = config.chain
    /\ m \notin validated
    /\ validated' = validated \cup {m}
    /\ DispatchCommand(m, command)

\* Anchor's exit of a mutable account: the copy deserialized before the handler
\* ran is written back over whatever a CPI stored meanwhile.
AnchorExit(loaded, stored) == loaded

\* The configuration the CPI of proposal h leaves in the account.
ConfigAfterCpi(h) ==
    IF ProposalData[h].call = "transfer_operatorship"
    THEN [config EXCEPT !.operator = ProposalData[h].new_operator]
    ELSE config

\* Lamports that leave the account when h runs: its native value and what
\* withdraw_tokens takes.
Outflow(h) ==
    ProposalData[h].native_value +
        (IF ProposalData[h].call = "withdraw_tokens" THEN ProposalData[h].amount ELSE 0)

\* execute_proposal_cpi with the checks before it: the proposal names
\* governance_config among its accounts, its native value fits a u64 and has a
\* receiver, the balance covers it, and withdraw_tokens leaves the account exempt
\* from rent.  The last conjunct is the runtime's own rent check at the end of the
\* transaction.
CanExecuteCpi(h, refund) ==
    LET data == ProposalData[h] IN
    /\ data.names_governance_config
    /\ data.native_value <= U64Max
    /\ data.native_value > 0 => data.has_receiver
    /\ lamports >= Outflow(h)
    /\ data.call = "withdraw_tokens" => lamports - Outflow(h) >= ConfigRent
    /\ lamports - Outflow(h) + refund >= ConfigRent

\* The effects execute_timelock_proposal and execute_operator_proposal share: the
\* CPI, the closed proposal account, and the rent it returns.
ExecuteProposalCpi(h, refund) ==
    /\ CanExecuteCpi(h, refund)
    /\ config' = AnchorExit(config, ConfigAfterCpi(h))
    /\ appointed' = IF ProposalData[h].call = "transfer_operatorship"
                     THEN ProposalData[h].new_operator ELSE appointed
    /\ lamports' = lamports - Outflow(h) + refund
    /\ proposal' = [proposal EXCEPT ![h] = NoProposal]

-----------------------------------------------------------------------------
\* instructions/initialize_config.rs
InitializeConfig(upgrade_authority, delay) ==
    /\ upgrade_authority = UpgradeAuthority
    /\ ~config.initialized
    /\ ValidDelay(delay)
    /\ config' = [initialized |-> TRUE, chain |-> InitialChain,
                  address |-> InitialAddress, minimum_proposal_eta_delay |-> delay,
                  operator |-> InitialOperator]
    /\ lamports' = ConfigRent
    /\ UNCHANGED <<proposal, marker, validated, now, count, terms, appointed>>

\* instructions/update_config.rs with GovernanceConfig::update: an absent
\* parameter is the current value.
UpdateConfig(signer, chain, address, delay) ==
    /\ config.initialized
    /\ signer = config.operator
    /\ ValidDelay(delay)
    /\ config' = [initialized |-> TRUE, chain |-> chain, address |-> address,
                  minimum_proposal_eta_delay |-> delay, operator |-> config.operator]
    /\ UNCHANGED <<proposal, marker, lamports, validated, now, count, terms, appointed>>

\* execute_handler with the self-CPI to schedule_timelock_proposal
ScheduleTimelockProposal(m) ==
    LET h == m.proposal IN
    /\ AcceptCommand(m, "ScheduleTimeLockProposal")
    /\ ~proposal[h].open
    /\ now + config.minimum_proposal_eta_delay <= U64Max
    /\ proposal' = [proposal EXCEPT ![h] =
                        [open |-> TRUE, eta |-> AtLeastDefaultEtaDelay(m.eta)]]
    /\ count' = [count EXCEPT ![h].scheduled = count[h].scheduled + 1]
    /\ terms' = [terms EXCEPT ![h] =
                    [at |-> now, delay |-> config.minimum_proposal_eta_delay,
                     requested |-> m.eta]]
    /\ UNCHANGED <<config, marker, lamports, now, appointed>>

\* Mutant: the rent of a cancelled proposal goes to the relayer.
CancelRefundingRelayer(m) ==
    LET h == m.proposal IN
    /\ AcceptCommand(m, "CancelTimeLockProposal")
    /\ proposal[h].open
    /\ m.eta = proposal[h].eta
    /\ proposal' = [proposal EXCEPT ![h] = NoProposal]
    /\ count' = [count EXCEPT ![h].cancelled = count[h].cancelled + 1]
    /\ UNCHANGED <<config, marker, lamports, now, terms, appointed>>

\* execute_handler with the self-CPI to cancel_timelock_proposal: the command
\* must quote the stored ETA; an operator marker stays.
CancelTimelockProposal(m) ==
    LET h == m.proposal IN
    /\ AcceptCommand(m, "CancelTimeLockProposal")
    /\ proposal[h].open
    /\ m.eta = proposal[h].eta
    /\ proposal' = [proposal EXCEPT ![h] = NoProposal]
    /\ lamports' = lamports + ProposalRent
    /\ count' = [count EXCEPT ![h].cancelled = count[h].cancelled + 1]
    /\ UNCHANGED <<config, marker, now, terms, appointed>>

\* execute_handler with the self-CPI to approve_operator_proposal
ApproveOperatorProposal(m) ==
    LET h == m.proposal IN
    /\ AcceptCommand(m, "ApproveOperatorProposal")
    /\ proposal[h].open
    /\ ~marker[h]
    /\ marker' = [marker EXCEPT ![h] = TRUE]
    /\ count' = [count EXCEPT ![h].approved = count[h].approved + 1]
    /\ UNCHANGED <<config, proposal, lamports, now, terms, appointed>>

\* execute_handler with the self-CPI to cancel_operator_proposal
CancelOperatorProposal(m) ==
    LET h == m.proposal IN
    /\ AcceptCommand(m, "CancelOperatorApproval")
    /\ proposal[h].open
    /\ marker[h]
    /\ marker' = [marker EXCEPT ![h] = FALSE]
    /\ lamports' = lamports + MarkerRent
    /\ count' = [count EXCEPT ![h].revoked = count[h].revoked + 1]
    /\ UNCHANGED <<config, proposal, now, terms, appointed>>

\* Mutant: an approved proposal is left to the operator.
ExecuteUnlessApproved(h) ==
    /\ config.initialized
    /\ proposal[h].open
    /\ now >= proposal[h].eta
    /\ ~marker[h]
    /\ ExecuteProposalCpi(h, ProposalRent)
    /\ count' = [count EXCEPT ![h].executed = count[h].executed + 1]
    /\ UNCHANGED <<marker, validated, now, terms>>

\* instructions/execute_timelock_proposal.rs: anyone, once the ETA has come.
ExecuteTimelockProposal(h) ==
    /\ config.initialized
    /\ proposal[h].open
    /\ now >= proposal[h].eta
    /\ ExecuteProposalCpi(h, ProposalRent)
    /\ count' = [count EXCEPT ![h].executed = count[h].executed + 1]
    /\ UNCHANGED <<marker, validated, now, terms>>

\* Mutant: the operator's marker account is not closed.
ExecuteKeepingMarker(h, signer) ==
    /\ config.initialized
    /\ proposal[h].open
    /\ marker[h]
    /\ signer = config.operator
    /\ ExecuteProposalCpi(h, ProposalRent + MarkerRent)
    /\ count' = [count EXCEPT ![h].operated = count[h].operated + 1]
    /\ UNCHANGED <<marker, validated, now, terms>>

\* instructions/execute_operator_proposal.rs: the operator, whatever the ETA.
ExecuteOperatorProposal(h, signer) ==
    /\ config.initialized
    /\ proposal[h].open
    /\ marker[h]
    /\ signer = config.operator
    /\ ExecuteProposalCpi(h, ProposalRent + MarkerRent)
    /\ marker' = [marker EXCEPT ![h] = FALSE]
    /\ count' = [count EXCEPT ![h].operated = count[h].operated + 1]
    /\ UNCHANGED <<validated, now, terms>>

\* instructions/transfer_operatorship.rs called by the operator; the other way,
\* with governance_config as signer, only exists as the CPI of a proposal.
TransferOperatorship(signer, new_operator) ==
    /\ config.initialized
    /\ signer = config.operator
    /\ config' = [config EXCEPT !.operator = new_operator]
    /\ appointed' = new_operator
    /\ UNCHANGED <<proposal, marker, lamports, validated, now, count, terms>>

\* The cluster clock advances (external).
Tick ==
    /\ now < MaxTime
    /\ now' = now + 1
    /\ UNCHANGED <<config, proposal, marker, lamports, validated, count, terms, appointed>>

Next ==
    \/ \E a \in Accounts, d \in Delays : InitializeConfig(a, d)
    \/ \E a \in Accounts, c \in Chains, x \in Addresses, d \in Delays :
            UpdateConfig(a, c, x, d)
    \/ \E m \in Messages : ScheduleTimelockProposal(m)
    \/ \E m \in Messages : CancelTimelockProposal(m)
    \/ \E m \in Messages : ApproveOperatorProposal(m)
    \/ \E m \in Messages : CancelOperatorProposal(m)
    \/ \E h \in Proposals : ExecuteTimelockProposal(h)
    \/ \E h \in Proposals, a \in Accounts : ExecuteOperatorProposal(h, a)
    \/ \E a, o \in Accounts : TransferOperatorship(a, o)
    \/ Tick

Spec == Init /\ [][Next]_vars

-----------------------------------------------------------------------------
(***************************************************************************)
(* Properties.                                                             *)
(***************************************************************************)

\* Accounts hold values of their Rust types, and a configured delay lies in
\* VALID_PROPOSAL_DELAY_RANGE, which validate_config enforces on every path that
\* writes it.
TypeOK ==
    /\ config \in [initialized : BOOLEAN, chain : Chains, address : Addresses,
                   minimum_proposal_eta_delay : Nat, operator : Accounts]
    /\ config.initialized =>
         config.minimum_proposal_eta_delay \in MinimumDelay..MaximumDelay
    /\ proposal \in [Proposals -> [open : BOOLEAN, eta : 0..U64Max]]
    /\ marker \in [Proposals -> BOOLEAN]
    /\ lamports \in Nat
    /\ validated \subseteq Messages
    /\ now \in 0..MaxTime
    /\ count \in [Proposals -> Events]
    /\ terms \in [Proposals -> [at : Nat, delay : Nat, requested : Nat]]
    /\ appointed \in Accounts

\* 1 for an open account, 0 for a closed one.
Holds(b) == IF b THEN 1 ELSE 0

\* Every scheduling is settled at most once, by a timelocked execution, an
\* execution by the operator or a cancellation, whatever the order in which
\* commands are relayed; and every bypass of a timelock uses up one approval that
\* governance sent (the account lifecycles of proposal_pda and
\* operator_proposal_pda).
Settlement ==
    \A h \in Proposals :
        /\ count[h].scheduled = Holds(proposal[h].open) + count[h].executed
                                  + count[h].operated + count[h].cancelled
        /\ count[h].approved = Holds(marker[h]) + count[h].operated
                                  + count[h].revoked

\* Proposal h is executed by this step without the operator.
ExecutedByTimelock(h) == count'[h].executed # count[h].executed

\* A timelock is firm: while a proposal is pending no step changes its ETA, and
\* without the operator it is executed only after the ETA that governance asked
\* for and after the minimum delay in force when it was scheduled, even if the
\* operator lowers the delay meanwhile (at_least_default_eta_delay,
\* execute_proposal_handler, update_config).
TimelockHolds ==
    [][\A h \in Proposals :
        /\ proposal[h].open /\ proposal'[h].open => proposal'[h] = proposal[h]
        /\ ExecutedByTimelock(h) =>
              /\ now >= terms[h].requested
              /\ now >= terms[h].at + terms[h].delay
              /\ now >= terms[h].at + MinimumDelay]_vars

\* Rent and value that proposal h has brought into governance_config so far.
Contribution(h) ==
    ProposalRent * (count[h].executed + count[h].operated + count[h].cancelled)
        + MarkerRent * (count[h].operated + count[h].revoked)
        - Outflow(h) * (count[h].executed + count[h].operated)

Contributions == [h \in Proposals |-> Contribution(h)]

\* The governance_config account never falls below its rent exemption, and its
\* balance is exactly the rent of the accounts closed into it minus what executed
\* proposals paid out, each once: native value, withdraw_tokens and the closing of
\* two accounts in one instruction do not lose or duplicate lamports
\* (manual_lamport_transfer, withdraw_tokens.rs, close = governance_config).
Treasury ==
    config.initialized =>
        /\ lamports >= ConfigRent
        /\ lamports = ConfigRent + MapThenSumSet(LAMBDA h : Contributions[h], Proposals)

\* What instructions/transfer_operatorship.rs:6 says: "Either the operator_account
\* is a signer and matches the stored operator, or the governance_config account
\* itself is a signer".  So the operator is the one that the last successful
\* transfer_operatorship named, whichever of the two signed it.
OperatorIsTheOneAppointed == config.operator = appointed

-----------------------------------------------------------------------------
(***************************************************************************)
(* Liveness.  execute_timelock_proposal is permissionless, so somebody who *)
(* wants a proposal executed keeps trying; the clock goes on.  Commands    *)
(* and the operator are not fair.                                          *)
(***************************************************************************)
FairSpec ==
    /\ Spec
    /\ WF_vars(Tick)
    /\ \A h \in Proposals : WF_vars(ExecuteTimelockProposal(h))

\* A pending proposal that calls another program without native value is settled
\* in the end without help from the operator: no configuration update, approval
\* or transfer of operatorship can block it (execute_proposal_handler).
PendingProposalsAreSettled ==
    \A h \in Proposals :
        /\ ProposalData[h].call = "external"
        /\ ProposalData[h].native_value = 0
        /\ ProposalData[h].names_governance_config
        => (proposal[h].open /\ proposal[h].eta <= MaxTime ~> ~proposal[h].open)
=============================================================================
