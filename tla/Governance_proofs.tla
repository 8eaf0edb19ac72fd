--------------------------- MODULE Governance_proofs ---------------------------
(***************************************************************************)
(* Proofs about Governance: type correctness, the settlement of proposals  *)
(* and the firmness of timelocks, for any proposals, messages, delays and  *)
(* clock.                                                                  *)
(***************************************************************************)
EXTENDS Governance, Sums, TLAPS

\* A pending proposal carries an ETA no earlier than the one requested and than the
\* delay in force at its scheduling, which was a valid one.  This is what
\* TimelockHolds needs to know of the past, since neither value is stored on chain.
EtaCoversTerms ==
    \A h \in Proposals : proposal[h].open =>
        /\ proposal[h].eta >= terms[h].requested
        /\ proposal[h].eta >= terms[h].at + terms[h].delay
        /\ terms[h].delay >= MinimumDelay

IInv == TypeOK /\ Settlement /\ EtaCoversTerms

-----------------------------------------------------------------------------
\* The ETA computed by schedule_timelock_proposal is a u64 that covers the request
\* and the delay.
LEMMA EtaBounds ==
    ASSUME TypeOK, NEW eta \in 0..U64Max,
           now + config.minimum_proposal_eta_delay <= U64Max
    PROVE  /\ AtLeastDefaultEtaDelay(eta) \in 0..U64Max
           /\ AtLeastDefaultEtaDelay(eta) >= eta
           /\ AtLeastDefaultEtaDelay(eta) >= now + config.minimum_proposal_eta_delay
  BY GovernanceBounds DEF AtLeastDefaultEtaDelay, TypeOK

\* Executing a proposal keeps the configuration as it was loaded, closes the
\* proposal account and leaves a balance.
LEMMA CpiEffect ==
    ASSUME TypeOK, NEW h \in Proposals, NEW refund \in Nat,
           ExecuteProposalCpi(h, refund)
    PROVE  /\ config' = config
           /\ lamports' \in Nat
           /\ proposal' = [proposal EXCEPT ![h] = NoProposal]
           /\ appointed' \in Accounts
  <1>1. ProposalData[h] \in [call : CallKinds, new_operator : Accounts, amount : Nat,
                             native_value : Nat, has_receiver : BOOLEAN,
                             names_governance_config : BOOLEAN]
    BY GovernanceNames
  <1>2. config' = config
    BY DEF ExecuteProposalCpi, AnchorExit
  <1>3. Outflow(h) \in Nat
    BY <1>1 DEF Outflow
  <1>4. lamports' \in Nat
    BY <1>3 DEF ExecuteProposalCpi, CanExecuteCpi, TypeOK
  <1>5. appointed' \in Accounts
    BY <1>1 DEF ExecuteProposalCpi, TypeOK
  <1> QED
    BY <1>2, <1>4, <1>5 DEF ExecuteProposalCpi

\* Counting an event keeps the counters natural numbers.
LEMMA CountType ==
    ASSUME count \in [Proposals -> Events], NEW h \in Proposals
    PROVE  /\ [count EXCEPT ![h].scheduled = count[h].scheduled + 1] \in [Proposals -> Events]
           /\ [count EXCEPT ![h].executed = count[h].executed + 1] \in [Proposals -> Events]
           /\ [count EXCEPT ![h].cancelled = count[h].cancelled + 1] \in [Proposals -> Events]
           /\ [count EXCEPT ![h].approved = count[h].approved + 1] \in [Proposals -> Events]
           /\ [count EXCEPT ![h].revoked = count[h].revoked + 1] \in [Proposals -> Events]
           /\ [count EXCEPT ![h].operated = count[h].operated + 1] \in [Proposals -> Events]
  <1>1. count[h] \in Events
    OBVIOUS
  <1>2. ASSUME NEW n \in Nat
        PROVE  /\ [count[h] EXCEPT !.scheduled = n] \in Events
               /\ [count[h] EXCEPT !.executed = n] \in Events
               /\ [count[h] EXCEPT !.cancelled = n] \in Events
               /\ [count[h] EXCEPT !.approved = n] \in Events
               /\ [count[h] EXCEPT !.revoked = n] \in Events
               /\ [count[h] EXCEPT !.operated = n] \in Events
    BY <1>1 DEF Events
  <1>3. /\ count[h].scheduled + 1 \in Nat
        /\ count[h].executed + 1 \in Nat
        /\ count[h].cancelled + 1 \in Nat
        /\ count[h].approved + 1 \in Nat
        /\ count[h].revoked + 1 \in Nat
        /\ count[h].operated + 1 \in Nat
    BY <1>1 DEF Events
  <1> QED
    BY <1>2, <1>3

\* Every step keeps the accounts well typed and the configured delay in range.
LEMMA TypeStep == TypeOK /\ [Next]_vars => TypeOK'
  <1> SUFFICES ASSUME TypeOK, [Next]_vars PROVE TypeOK'
    OBVIOUS
  <1> USE GovernanceBounds, GovernanceNames
  <1>1. ASSUME NEW a \in Accounts, NEW d \in Delays, InitializeConfig(a, d)
        PROVE  TypeOK'
    BY <1>1 DEF InitializeConfig, ValidDelay, TypeOK
  <1>2. ASSUME NEW a \in Accounts, NEW c \in Chains, NEW x \in Addresses,
               NEW d \in Delays, UpdateConfig(a, c, x, d)
        PROVE  TypeOK'
    BY <1>2 DEF UpdateConfig, ValidDelay, TypeOK
  <1>3. ASSUME NEW m \in Messages, ScheduleTimelockProposal(m)
        PROVE  TypeOK'
    <2>1. m.proposal \in Proposals /\ m.eta \in Nat
      OBVIOUS
    <2>2. AtLeastDefaultEtaDelay(m.eta) \in 0..U64Max
      BY <1>3, <2>1, EtaBounds DEF ScheduleTimelockProposal, AcceptCommand, DispatchCommand
    <2>3. proposal' \in [Proposals -> [open : BOOLEAN, eta : 0..U64Max]]
      BY <1>3, <2>1, <2>2 DEF ScheduleTimelockProposal, TypeOK
    <2>4. count' \in [Proposals -> Events]
      BY <1>3, <2>1, CountType DEF ScheduleTimelockProposal, TypeOK
    <2>5. terms' \in [Proposals -> [at : Nat, delay : Nat, requested : Nat]]
      BY <1>3, <2>1 DEF ScheduleTimelockProposal, TypeOK
    <2> QED
      BY <1>3, <2>3, <2>4, <2>5 DEF ScheduleTimelockProposal, AcceptCommand, DispatchCommand, TypeOK
  <1>4. ASSUME NEW m \in Messages, CancelTimelockProposal(m)
        PROVE  TypeOK'
    <2>1. m.proposal \in Proposals
      OBVIOUS
    <2>2. count' \in [Proposals -> Events]
      BY <1>4, <2>1, CountType DEF CancelTimelockProposal, TypeOK
    <2> QED
      BY <1>4, <2>1, <2>2 DEF CancelTimelockProposal, AcceptCommand, DispatchCommand, NoProposal, TypeOK
  <1>5. ASSUME NEW m \in Messages, ApproveOperatorProposal(m)
        PROVE  TypeOK'
    <2>1. m.proposal \in Proposals
      OBVIOUS
    <2>2. count' \in [Proposals -> Events]
      BY <1>5, <2>1, CountType DEF ApproveOperatorProposal, TypeOK
    <2> QED
      BY <1>5, <2>1, <2>2 DEF ApproveOperatorProposal, AcceptCommand, DispatchCommand, TypeOK
  <1>6. ASSUME NEW m \in Messages, CancelOperatorProposal(m)
        PROVE  TypeOK'
    <2>1. m.proposal \in Proposals
      OBVIOUS
    <2>2. count' \in [Proposals -> Events]
      BY <1>6, <2>1, CountType DEF CancelOperatorProposal, TypeOK
    <2> QED
      BY <1>6, <2>1, <2>2 DEF CancelOperatorProposal, AcceptCommand, DispatchCommand, TypeOK
  <1>7. ASSUME NEW h \in Proposals, ExecuteTimelockProposal(h)
        PROVE  TypeOK'
    <2>1. /\ config' = config
          /\ lamports' \in Nat
          /\ proposal' = [proposal EXCEPT ![h] = NoProposal]
          /\ appointed' \in Accounts
      BY <1>7, CpiEffect DEF ExecuteTimelockProposal
    <2>2. count' \in [Proposals -> Events]
      BY <1>7, CountType DEF ExecuteTimelockProposal, TypeOK
    <2> QED
      BY <1>7, <2>1, <2>2 DEF ExecuteTimelockProposal, NoProposal, TypeOK
  <1>8. ASSUME NEW h \in Proposals, NEW a \in Accounts, ExecuteOperatorProposal(h, a)
        PROVE  TypeOK'
    <2>1. /\ config' = config
          /\ lamports' \in Nat
          /\ proposal' = [proposal EXCEPT ![h] = NoProposal]
          /\ appointed' \in Accounts
      BY <1>8, CpiEffect DEF ExecuteOperatorProposal
    <2>2. count' \in [Proposals -> Events]
      BY <1>8, CountType DEF ExecuteOperatorProposal, TypeOK
    <2> QED
      BY <1>8, <2>1, <2>2 DEF ExecuteOperatorProposal, NoProposal, TypeOK
  <1>9. ASSUME NEW a \in Accounts, NEW o \in Accounts, TransferOperatorship(a, o)
        PROVE  TypeOK'
    BY <1>9 DEF TransferOperatorship, TypeOK
  <1>10. ASSUME Tick PROVE TypeOK'
    BY <1>10 DEF Tick, TypeOK
  <1>11. ASSUME UNCHANGED vars PROVE TypeOK'
    BY <1>11 DEF vars, TypeOK
  <1> QED
    BY <1>1, <1>2, <1>3, <1>4, <1>5, <1>6, <1>7, <1>8, <1>9, <1>10, <1>11 DEF Next

-----------------------------------------------------------------------------
\* The balance of proposal h, as Settlement states it.
Balanced(h) ==
    /\ count[h].scheduled = Holds(proposal[h].open) + count[h].executed
                              + count[h].operated + count[h].cancelled
    /\ count[h].approved = Holds(marker[h]) + count[h].operated + count[h].revoked

\* Every step opens, closes and counts proposal and marker accounts together.
LEMMA SettlementStep == TypeOK /\ Settlement /\ [Next]_vars => Settlement'
  <1> SUFFICES ASSUME TypeOK, Settlement, [Next]_vars PROVE Settlement'
    OBVIOUS
  <1> USE GovernanceBounds, GovernanceNames
  <1>1. ASSUME UNCHANGED <<proposal, marker, count>> PROVE Settlement'
    BY <1>1 DEF Settlement, Holds
  <1>2. ASSUME NEW m \in Messages, ScheduleTimelockProposal(m) PROVE Settlement'
    BY <1>2 DEF ScheduleTimelockProposal, AcceptCommand, DispatchCommand, Settlement, Holds, TypeOK, Events
  <1>3. ASSUME NEW m \in Messages, CancelTimelockProposal(m) PROVE Settlement'
    <2> SUFFICES ASSUME NEW g \in Proposals PROVE Balanced(g)'
      BY DEF Settlement, Balanced
    <2>1. count[g] \in Events /\ Balanced(g)
      BY DEF Settlement, Balanced, TypeOK
    <2>2. CASE g = m.proposal
      BY <1>3, <2>1, <2>2 DEF CancelTimelockProposal, NoProposal, Balanced, Holds, TypeOK, Events
    <2>3. CASE g # m.proposal
      BY <1>3, <2>1, <2>3 DEF CancelTimelockProposal, NoProposal, Balanced, Holds, TypeOK
    <2> QED
      BY <2>2, <2>3
  <1>4. ASSUME NEW m \in Messages, ApproveOperatorProposal(m) PROVE Settlement'
    BY <1>4 DEF ApproveOperatorProposal, AcceptCommand, DispatchCommand, Settlement, Holds, TypeOK, Events
  <1>5. ASSUME NEW m \in Messages, CancelOperatorProposal(m) PROVE Settlement'
    <2> SUFFICES ASSUME NEW g \in Proposals PROVE Balanced(g)'
      BY DEF Settlement, Balanced
    <2>1. count[g] \in Events /\ Balanced(g)
      BY DEF Settlement, Balanced, TypeOK
    <2>2. CASE g = m.proposal
      BY <1>5, <2>1, <2>2 DEF CancelOperatorProposal, Balanced, Holds, TypeOK, Events
    <2>3. CASE g # m.proposal
      BY <1>5, <2>1, <2>3 DEF CancelOperatorProposal, Balanced, Holds, TypeOK
    <2> QED
      BY <2>2, <2>3
  <1>6. ASSUME NEW h \in Proposals, ExecuteTimelockProposal(h) PROVE Settlement'
    BY <1>6 DEF ExecuteTimelockProposal, ExecuteProposalCpi, NoProposal, Settlement,
                Holds, TypeOK, Events
  <1>7. ASSUME NEW h \in Proposals, NEW a \in Accounts, ExecuteOperatorProposal(h, a)
        PROVE  Settlement'
    <2> SUFFICES ASSUME NEW g \in Proposals PROVE Balanced(g)'
      BY DEF Settlement, Balanced
    <2>1. count[g] \in Events /\ Balanced(g)
      BY DEF Settlement, Balanced, TypeOK
    <2>2. CASE g = h
      <3>1. /\ proposal[h].open /\ ~proposal'[h].open
            /\ marker[h] /\ ~marker'[h]
        BY <1>7 DEF ExecuteOperatorProposal, ExecuteProposalCpi, NoProposal, TypeOK
      <3>2. count'[h] = [count[h] EXCEPT !.operated = count[h].operated + 1]
        BY <1>7 DEF ExecuteOperatorProposal, TypeOK
      <3>3. /\ count'[h].operated = count[h].operated + 1
            /\ count'[h].scheduled = count[h].scheduled
            /\ count'[h].executed = count[h].executed
            /\ count'[h].cancelled = count[h].cancelled
            /\ count'[h].approved = count[h].approved
            /\ count'[h].revoked = count[h].revoked
        BY <2>1, <2>2, <3>2 DEF Events
      <3>4. /\ count[h].operated \in Nat /\ count[h].executed \in Nat
            /\ count[h].cancelled \in Nat /\ count[h].revoked \in Nat
        BY <2>1, <2>2 DEF Events
      <3>5. /\ Holds(proposal[h].open) = 1 /\ Holds(proposal'[h].open) = 0
            /\ Holds(marker[h]) = 1 /\ Holds(marker'[h]) = 0
        BY <3>1 DEF Holds
      <3>6. /\ count[h].scheduled = 1 + count[h].executed + count[h].operated + count[h].cancelled
            /\ count[h].approved = 1 + count[h].operated + count[h].revoked
        BY <2>1, <2>2, <3>5 DEF Balanced
      <3>7. /\ count'[h].scheduled = 0 + count'[h].executed + count'[h].operated
                                       + count'[h].cancelled
            /\ count'[h].approved = 0 + count'[h].operated + count'[h].revoked
        BY <3>3, <3>4, <3>6
      <3> QED
        BY <2>2, <3>5, <3>7 DEF Balanced
    <2>3. CASE g # h
      BY <1>7, <2>1, <2>3 DEF ExecuteOperatorProposal, ExecuteProposalCpi,
         NoProposal, Balanced, Holds, TypeOK
    <2> QED
      BY <2>2, <2>3
  <1> QED
    BY <1>1, <1>2, <1>3, <1>4, <1>5, <1>6, <1>7
    DEF Next, vars, InitializeConfig, UpdateConfig, TransferOperatorship, Tick

\* Only schedule_timelock_proposal writes ETAs and terms, and it writes both.
LEMMA EtaStep == TypeOK /\ EtaCoversTerms /\ [Next]_vars => EtaCoversTerms'
  <1> SUFFICES ASSUME TypeOK, EtaCoversTerms, [Next]_vars PROVE EtaCoversTerms'
    OBVIOUS
  <1> USE GovernanceBounds, GovernanceNames
  <1>1. ASSUME UNCHANGED <<proposal, terms>> PROVE EtaCoversTerms'
    BY <1>1 DEF EtaCoversTerms
  <1>2. ASSUME NEW h \in Proposals, proposal' = [proposal EXCEPT ![h] = NoProposal],
               UNCHANGED terms
        PROVE  EtaCoversTerms'
    BY <1>2 DEF EtaCoversTerms, NoProposal, TypeOK
  <1>3. ASSUME NEW m \in Messages, ScheduleTimelockProposal(m) PROVE EtaCoversTerms'
    <2>1. m.proposal \in Proposals /\ m.eta \in Nat
      OBVIOUS
    <2>2. /\ AtLeastDefaultEtaDelay(m.eta) >= m.eta
          /\ AtLeastDefaultEtaDelay(m.eta) >= now + config.minimum_proposal_eta_delay
      BY <1>3, <2>1, EtaBounds DEF ScheduleTimelockProposal, AcceptCommand, DispatchCommand
    <2>3. config.minimum_proposal_eta_delay >= MinimumDelay
      BY <1>3 DEF ScheduleTimelockProposal, AcceptCommand, DispatchCommand, TypeOK
    <2> SUFFICES ASSUME NEW h \in Proposals, proposal'[h].open
                 PROVE  /\ proposal'[h].eta >= terms'[h].requested
                        /\ proposal'[h].eta >= terms'[h].at + terms'[h].delay
                        /\ terms'[h].delay >= MinimumDelay
      BY DEF EtaCoversTerms
    <2>4. CASE h = m.proposal
      BY <1>3, <2>1, <2>2, <2>3, <2>4 DEF ScheduleTimelockProposal, TypeOK
    <2>5. CASE h # m.proposal
      BY <1>3, <2>1, <2>5 DEF ScheduleTimelockProposal, EtaCoversTerms, TypeOK
    <2> QED
      BY <2>4, <2>5
  <1> QED
    BY <1>1, <1>2, <1>3
    DEF Next, vars, InitializeConfig, UpdateConfig, CancelTimelockProposal,
        ApproveOperatorProposal, CancelOperatorProposal, ExecuteTimelockProposal,
        ExecuteOperatorProposal, ExecuteProposalCpi, TransferOperatorship, Tick

\* The initial state satisfies the inductive invariant.
LEMMA InitInvariant == Init => IInv
  BY GovernanceBounds, GovernanceNames
  DEF Init, IInv, TypeOK, Settlement, EtaCoversTerms, Holds, NoProposal, NoEvents, Events

\* The inductive invariant holds in every reachable state.
THEOREM Invariance == Spec => []IInv
  <1>1. IInv /\ [Next]_vars => IInv'
    BY TypeStep, SettlementStep, EtaStep DEF IInv
  <1> QED
    BY <1>1, InitInvariant, PTL DEF Spec

\* Accounts of the governance program always hold values of their types and the
\* configured delay stays in VALID_PROPOSAL_DELAY_RANGE.
THEOREM TypeCorrect == Spec => []TypeOK
  BY Invariance, PTL DEF IInv

\* Every scheduling is settled at most once and every bypass of a timelock uses up
\* one approval, for any set of commands in any order.
THEOREM SettledOnce == Spec => []Settlement
  BY Invariance, PTL DEF IInv

-----------------------------------------------------------------------------
\* A step cannot change a pending ETA, nor execute a proposal before its time.
LEMMA TimelockStep ==
    ASSUME IInv, [Next]_vars, NEW h \in Proposals
    PROVE  /\ proposal[h].open /\ proposal'[h].open => proposal'[h] = proposal[h]
           /\ ExecutedByTimelock(h) =>
                 /\ now >= terms[h].requested
                 /\ now >= terms[h].at + terms[h].delay
                 /\ now >= terms[h].at + MinimumDelay
  <1> DEFINE Firm == proposal[h].open /\ proposal'[h].open => proposal'[h] = proposal[h]
             Due == ExecutedByTimelock(h) =>
                        /\ now >= terms[h].requested
                        /\ now >= terms[h].at + terms[h].delay
                        /\ now >= terms[h].at + MinimumDelay
  <1> USE GovernanceBounds, GovernanceNames DEF IInv
  <1>1. ASSUME UNCHANGED <<proposal, count>> PROVE Firm /\ Due
    BY <1>1 DEF ExecutedByTimelock
  <1>2. ASSUME NEW m \in Messages, ScheduleTimelockProposal(m) PROVE Firm /\ Due
    BY <1>2 DEF ScheduleTimelockProposal, ExecutedByTimelock, TypeOK, Events
  <1>3. ASSUME NEW m \in Messages, CancelTimelockProposal(m) PROVE Firm /\ Due
    BY <1>3 DEF CancelTimelockProposal, NoProposal, ExecutedByTimelock, TypeOK, Events
  <1>4. ASSUME NEW m \in Messages, ApproveOperatorProposal(m) PROVE Firm /\ Due
    BY <1>4 DEF ApproveOperatorProposal, ExecutedByTimelock, TypeOK, Events
  <1>5. ASSUME NEW m \in Messages, CancelOperatorProposal(m) PROVE Firm /\ Due
    BY <1>5 DEF CancelOperatorProposal, ExecutedByTimelock, TypeOK, Events
  <1>6. ASSUME NEW g \in Proposals, ExecuteTimelockProposal(g) PROVE Firm /\ Due
    <2>1. Firm
      BY <1>6 DEF ExecuteTimelockProposal, ExecuteProposalCpi, NoProposal, TypeOK
    <2>2. CASE g = h
      BY <1>6, <2>1, <2>2 DEF ExecuteTimelockProposal, EtaCoversTerms, TypeOK
    <2>3. CASE g # h
      BY <1>6, <2>1, <2>3 DEF ExecuteTimelockProposal, ExecutedByTimelock, TypeOK, Events
    <2> QED
      BY <2>2, <2>3
  <1>7. ASSUME NEW g \in Proposals, NEW a \in Accounts, ExecuteOperatorProposal(g, a)
        PROVE  Firm /\ Due
    BY <1>7 DEF ExecuteOperatorProposal, ExecuteProposalCpi, NoProposal,
                ExecutedByTimelock, TypeOK, Events
  <1> HIDE DEF Firm, Due
  <1>8. Firm /\ Due
    BY <1>1, <1>2, <1>3, <1>4, <1>5, <1>6, <1>7
    DEF Next, vars, InitializeConfig, UpdateConfig, TransferOperatorship, Tick
  <1> QED
    BY <1>8 DEF Firm, Due

\* Timelocks are firm for every clock, delay and order of commands.
THEOREM TimelocksHold == Spec => TimelockHolds
  <1>1. IInv /\ [Next]_vars =>
          [\A h \in Proposals :
            /\ proposal[h].open /\ proposal'[h].open => proposal'[h] = proposal[h]
            /\ ExecutedByTimelock(h) =>
                  /\ now >= terms[h].requested
                  /\ now >= terms[h].at + terms[h].delay
                  /\ now >= terms[h].at + MinimumDelay]_vars
    BY TimelockStep
  <1> QED
    BY <1>1, Invariance, PTL DEF Spec, TimelockHolds

-----------------------------------------------------------------------------
\* Before initialize_config nothing was counted.
Untouched == ~config.initialized => count = [h \in Proposals |-> NoEvents]

\* The state of the treasury: each lamport of the account is accounted for.
TreasuryInv ==
    /\ Untouched
    /\ config.initialized => lamports >= ConfigRent
    /\ config.initialized => lamports = ConfigRent + Sum(Contributions, Proposals)

\* Contributions are integers: a proposal may pay out more than its rent returned.
LEMMA ContributionType ==
    ASSUME NEW h \in Proposals, count[h] \in Events
    PROVE  Contribution(h) \in Int /\ Outflow(h) \in Nat
  <1>1. /\ ProposalData[h].native_value \in Nat
        /\ ProposalData[h].amount \in Nat
    BY GovernanceNames
  <1>2. Outflow(h) \in Nat
    BY <1>1 DEF Outflow
  <1>3. /\ count[h].executed \in Nat /\ count[h].operated \in Nat
        /\ count[h].cancelled \in Nat /\ count[h].revoked \in Nat
    BY DEF Events
  <1> QED
    BY <1>2, <1>3, GovernanceBounds DEF Contribution

\* If only the counters of h change, the account's balance has to change by what h
\* contributes more.
LEMMA ContributionStep ==
    ASSUME TypeOK, TypeOK', NEW h \in Proposals, NEW d \in Int,
           \A g \in Proposals \ {h} : count'[g] = count[g],
           Contribution(h)' = Contribution(h) + d
    PROVE  Sum(Contributions', Proposals) = Sum(Contributions, Proposals) + d
  <1>1. ASSUME NEW g \in Proposals
        PROVE  Contributions[g] \in Int /\ Contributions[g] = Contribution(g)
    BY ContributionType DEF Contributions, TypeOK
  <1>2. ASSUME NEW g \in Proposals
        PROVE  Contributions'[g] = Contribution(g)'
    BY DEF Contributions
  <1>3. ASSUME NEW g \in Proposals \ {h} PROVE Contributions'[g] = Contributions[g]
    BY <1>1, <1>2 DEF Contribution, Outflow
  <1>4. Contributions'[h] = Contributions[h] + d
    BY <1>1, <1>2
  <1>5. \A g \in Proposals : Contributions[g] \in Int /\ Contributions'[g] \in Int
    BY <1>1, <1>3, <1>4
  <1>6. Sum(Contributions', Proposals) =
           Sum(Contributions, Proposals) + Contributions'[h] - Contributions[h]
    BY <1>3, <1>5, SumChange, GovernanceNames
  <1>7. Sum(Contributions, Proposals) \in Int
    BY <1>5, SumType, GovernanceNames
  <1> QED
    BY <1>1, <1>4, <1>6, <1>7

\* The counters decide the contributions.
LEMMA ContributionSame ==
    ASSUME TypeOK, UNCHANGED count
    PROVE  Sum(Contributions', Proposals) = Sum(Contributions, Proposals)
  <1>1. Contributions' = Contributions
    BY DEF Contributions, Contribution, Outflow
  <1> QED
    BY <1>1

\* The contribution of a proposal with these counters.
Returns(h, e, o, c, r) ==
    ProposalRent * (e + o + c) + MarkerRent * (o + r) - Outflow(h) * (e + o)

\* It grows with each counter by the rent of what was closed, less what was paid.
LEMMA ReturnsStep ==
    ASSUME NEW h, Outflow(h) \in Nat, NEW e \in Nat, NEW o \in Nat, NEW c \in Nat, NEW r \in Nat
    PROVE  /\ Returns(h, e, o, c, r) \in Int
           /\ Returns(h, e + 1, o, c, r) =
                 Returns(h, e, o, c, r) + (ProposalRent - Outflow(h))
           /\ Returns(h, e, o + 1, c, r) =
                 Returns(h, e, o, c, r) + (ProposalRent + MarkerRent - Outflow(h))
           /\ Returns(h, e, o, c + 1, r) = Returns(h, e, o, c, r) + ProposalRent
           /\ Returns(h, e, o, c, r + 1) = Returns(h, e, o, c, r) + MarkerRent
  BY GovernanceBounds DEF Returns

\* What a settlement adds to the contribution of its proposal.
LEMMA ContributionOf ==
    ASSUME TypeOK, NEW h \in Proposals
    PROVE  /\ count' = [count EXCEPT ![h].scheduled = count[h].scheduled + 1]
                 => Contribution(h)' = Contribution(h) + 0
           /\ count' = [count EXCEPT ![h].approved = count[h].approved + 1]
                 => Contribution(h)' = Contribution(h) + 0
           /\ count' = [count EXCEPT ![h].cancelled = count[h].cancelled + 1]
                 => Contribution(h)' = Contribution(h) + ProposalRent
           /\ count' = [count EXCEPT ![h].revoked = count[h].revoked + 1]
                 => Contribution(h)' = Contribution(h) + MarkerRent
           /\ count' = [count EXCEPT ![h].executed = count[h].executed + 1]
                 => Contribution(h)' = Contribution(h) + (ProposalRent - Outflow(h))
           /\ count' = [count EXCEPT ![h].operated = count[h].operated + 1]
                 => Contribution(h)' = Contribution(h) + (ProposalRent + MarkerRent - Outflow(h))
  <1> DEFINE k == count[h]
             l == count'[h]
  <1>1. /\ k.executed \in Nat /\ k.operated \in Nat
        /\ k.cancelled \in Nat /\ k.revoked \in Nat
    BY DEF TypeOK, Events
  <1>2. Outflow(h) \in Nat
    BY ContributionType DEF TypeOK
  <1>3. /\ Contribution(h) = Returns(h, k.executed, k.operated, k.cancelled, k.revoked)
        /\ Contribution(h)' = Returns(h, l.executed, l.operated, l.cancelled, l.revoked)
    BY DEF Contribution, Outflow, Returns
  <1> HIDE DEF k, l
  <1>4. ASSUME NEW e \in Nat, NEW o \in Nat, NEW c \in Nat, NEW r \in Nat,
               Contribution(h) = Returns(h, e, o, c, r)
        PROVE  /\ Contribution(h) \in Int
               /\ Returns(h, e + 1, o, c, r) = Contribution(h) + (ProposalRent - Outflow(h))
               /\ Returns(h, e, o + 1, c, r) =
                     Contribution(h) + (ProposalRent + MarkerRent - Outflow(h))
               /\ Returns(h, e, o, c + 1, r) = Contribution(h) + ProposalRent
               /\ Returns(h, e, o, c, r + 1) = Contribution(h) + MarkerRent
    BY <1>2, <1>4, ReturnsStep
  <1>5. DOMAIN count = Proposals /\ k \in Events
    BY DEF TypeOK, k
  <1>6. ASSUME count' = [count EXCEPT ![h].scheduled = count[h].scheduled + 1]
        PROVE  Contribution(h)' = Contribution(h) + 0
    <2>1. /\ l.executed = k.executed /\ l.operated = k.operated
          /\ l.cancelled = k.cancelled /\ l.revoked = k.revoked
      BY <1>5, <1>6 DEF Events, k, l
    <2> QED
      BY <1>1, <1>3, <1>4, <2>1
  <1>7. ASSUME count' = [count EXCEPT ![h].approved = count[h].approved + 1]
        PROVE  Contribution(h)' = Contribution(h) + 0
    <2>1. /\ l.executed = k.executed /\ l.operated = k.operated
          /\ l.cancelled = k.cancelled /\ l.revoked = k.revoked
      BY <1>5, <1>7 DEF Events, k, l
    <2> QED
      BY <1>1, <1>3, <1>4, <2>1
  <1>8. ASSUME count' = [count EXCEPT ![h].cancelled = count[h].cancelled + 1]
        PROVE  Contribution(h)' = Contribution(h) + ProposalRent
    <2>1. /\ l.executed = k.executed /\ l.operated = k.operated
          /\ l.cancelled = k.cancelled + 1 /\ l.revoked = k.revoked
      BY <1>5, <1>8 DEF Events, k, l
    <2> QED
      BY <1>1, <1>3, <1>4, <2>1
  <1>9. ASSUME count' = [count EXCEPT ![h].revoked = count[h].revoked + 1]
        PROVE  Contribution(h)' = Contribution(h) + MarkerRent
    <2>1. /\ l.executed = k.executed /\ l.operated = k.operated
          /\ l.cancelled = k.cancelled /\ l.revoked = k.revoked + 1
      BY <1>5, <1>9 DEF Events, k, l
    <2> QED
      BY <1>1, <1>3, <1>4, <2>1
  <1>10. ASSUME count' = [count EXCEPT ![h].executed = count[h].executed + 1]
         PROVE  Contribution(h)' = Contribution(h) + (ProposalRent - Outflow(h))
    <2>1. /\ l.executed = k.executed + 1 /\ l.operated = k.operated
          /\ l.cancelled = k.cancelled /\ l.revoked = k.revoked
      BY <1>5, <1>10 DEF Events, k, l
    <2> QED
      BY <1>1, <1>3, <1>4, <2>1
  <1>11. ASSUME count' = [count EXCEPT ![h].operated = count[h].operated + 1]
         PROVE  Contribution(h)' = Contribution(h) + (ProposalRent + MarkerRent - Outflow(h))
    <2>1. /\ l.executed = k.executed /\ l.operated = k.operated + 1
          /\ l.cancelled = k.cancelled /\ l.revoked = k.revoked
      BY <1>5, <1>11 DEF Events, k, l
    <2> QED
      BY <1>1, <1>3, <1>4, <2>1
  <1> QED
    BY <1>6, <1>7, <1>8, <1>9, <1>10, <1>11

\* Every instruction that moves lamports of the account counts what it settles.
LEMMA TreasuryStep == TypeOK /\ TreasuryInv /\ [Next]_vars => TreasuryInv'
  <1> SUFFICES ASSUME TypeOK, TreasuryInv, [Next]_vars PROVE TreasuryInv'
    OBVIOUS
  <1> DEFINE total == Sum(Contributions, Proposals)
             total1 == Sum(Contributions', Proposals)
  <1>1. TypeOK'
    BY TypeStep
  <1>2. total \in Int
    BY SumType, ContributionType, GovernanceNames DEF Contributions, TypeOK
  <1>3. ASSUME UNCHANGED count PROVE total1 = total
    BY <1>3, ContributionSame
  <1> HIDE DEF total, total1
  <1>4. ASSUME NEW h \in Proposals, NEW d \in Int, config.initialized, config' = config,
               \A g \in Proposals \ {h} : count'[g] = count[g],
               Contribution(h)' = Contribution(h) + d,
               lamports' = lamports + d, lamports' >= ConfigRent
        PROVE  TreasuryInv'
    <2>1. total1 = total + d
      BY <1>1, <1>4, ContributionStep DEF total, total1
    <2>2. lamports' = ConfigRent + total1
      BY <1>2, <1>4, <2>1, GovernanceBounds DEF TreasuryInv, total, TypeOK
    <2> QED
      BY <1>4, <2>2 DEF TreasuryInv, Untouched, total1
  <1>5. ASSUME UNCHANGED <<count, lamports>>, config'.initialized = config.initialized
        PROVE  TreasuryInv'
    BY <1>3, <1>5 DEF TreasuryInv, Untouched, total, total1
  <1>6. ASSUME NEW a \in Accounts, NEW d \in Delays, InitializeConfig(a, d) PROVE TreasuryInv'
    <2>1. count = [h \in Proposals |-> NoEvents]
      BY <1>6 DEF TreasuryInv, Untouched, InitializeConfig
    <2>2. total = 0
      <3>1. ASSUME NEW h \in Proposals PROVE Contributions[h] = 0
        <4>1. Outflow(h) \in Nat
          BY ContributionType DEF TypeOK
        <4> QED
          BY <2>1, <4>1, GovernanceBounds DEF Contributions, Contribution, NoEvents
      <3> QED
        BY <3>1, SumZero, GovernanceNames DEF total
    <2>3. /\ config'.initialized
          /\ lamports' = ConfigRent
          /\ total1 = total
      BY <1>3, <1>6 DEF InitializeConfig
    <2> QED
      BY <2>2, <2>3, GovernanceBounds DEF TreasuryInv, Untouched, total1
  <1>7. ASSUME NEW m \in Messages, ScheduleTimelockProposal(m) PROVE TreasuryInv'
    <2>1. m.proposal \in Proposals
      BY GovernanceNames
    <2>2. Contribution(m.proposal)' = Contribution(m.proposal) + 0
      BY <1>7, <2>1, ContributionOf DEF ScheduleTimelockProposal
    <2>3. /\ config.initialized /\ config' = config /\ lamports' = lamports + 0
          /\ lamports' >= ConfigRent
          /\ \A g \in Proposals \ {m.proposal} : count'[g] = count[g]
      BY <1>7, <2>1 DEF ScheduleTimelockProposal, AcceptCommand, TreasuryInv, TypeOK
    <2> QED
      BY <1>4, <2>1, <2>2, <2>3
  <1>8. ASSUME NEW m \in Messages, ApproveOperatorProposal(m) PROVE TreasuryInv'
    <2>1. m.proposal \in Proposals
      BY GovernanceNames
    <2>2. Contribution(m.proposal)' = Contribution(m.proposal) + 0
      BY <1>8, <2>1, ContributionOf DEF ApproveOperatorProposal
    <2>3. /\ config.initialized /\ config' = config /\ lamports' = lamports + 0
          /\ lamports' >= ConfigRent
          /\ \A g \in Proposals \ {m.proposal} : count'[g] = count[g]
      BY <1>8, <2>1 DEF ApproveOperatorProposal, AcceptCommand, TreasuryInv, TypeOK
    <2> QED
      BY <1>4, <2>1, <2>2, <2>3
  <1>9. ASSUME NEW m \in Messages, CancelTimelockProposal(m) PROVE TreasuryInv'
    <2>1. m.proposal \in Proposals
      BY GovernanceNames
    <2>2. Contribution(m.proposal)' = Contribution(m.proposal) + ProposalRent
      BY <1>9, <2>1, ContributionOf DEF CancelTimelockProposal
    <2>3. /\ config.initialized /\ config' = config /\ lamports' = lamports + ProposalRent
          /\ lamports' >= ConfigRent
          /\ \A g \in Proposals \ {m.proposal} : count'[g] = count[g]
      BY <1>9, <2>1, GovernanceBounds DEF CancelTimelockProposal, AcceptCommand, TreasuryInv, TypeOK
    <2> QED
      BY <1>4, <2>1, <2>2, <2>3, GovernanceBounds
  <1>10. ASSUME NEW m \in Messages, CancelOperatorProposal(m) PROVE TreasuryInv'
    <2>1. m.proposal \in Proposals
      BY GovernanceNames
    <2>2. Contribution(m.proposal)' = Contribution(m.proposal) + MarkerRent
      BY <1>10, <2>1, ContributionOf DEF CancelOperatorProposal
    <2>3. /\ config.initialized /\ config' = config /\ lamports' = lamports + MarkerRent
          /\ lamports' >= ConfigRent
          /\ \A g \in Proposals \ {m.proposal} : count'[g] = count[g]
      BY <1>10, <2>1, GovernanceBounds DEF CancelOperatorProposal, AcceptCommand, TreasuryInv, TypeOK
    <2> QED
      BY <1>4, <2>1, <2>2, <2>3, GovernanceBounds
  <1>11. ASSUME NEW h \in Proposals, ExecuteTimelockProposal(h) PROVE TreasuryInv'
    <2>1. Outflow(h) \in Nat
      BY ContributionType DEF TypeOK
    <2>2. Contribution(h)' = Contribution(h) + (ProposalRent - Outflow(h))
      BY <1>11, ContributionOf DEF ExecuteTimelockProposal
    <2>3. /\ config.initialized /\ config' = config
          /\ \A g \in Proposals \ {h} : count'[g] = count[g]
      BY <1>11 DEF ExecuteTimelockProposal, ExecuteProposalCpi, AnchorExit, TypeOK
    <2>4. /\ lamports' = lamports + (ProposalRent - Outflow(h))
          /\ lamports' >= ConfigRent
      BY <1>11, <2>1, GovernanceBounds
      DEF ExecuteTimelockProposal, ExecuteProposalCpi, CanExecuteCpi, TypeOK
    <2> QED
      BY <1>4, <2>1, <2>2, <2>3, <2>4, GovernanceBounds
  <1>12. ASSUME NEW h \in Proposals, NEW a \in Accounts, ExecuteOperatorProposal(h, a)
         PROVE  TreasuryInv'
    <2>1. Outflow(h) \in Nat
      BY ContributionType DEF TypeOK
    <2>2. Contribution(h)' = Contribution(h) + (ProposalRent + MarkerRent - Outflow(h))
      BY <1>12, ContributionOf DEF ExecuteOperatorProposal
    <2>3. /\ config.initialized /\ config' = config
          /\ \A g \in Proposals \ {h} : count'[g] = count[g]
      BY <1>12 DEF ExecuteOperatorProposal, ExecuteProposalCpi, AnchorExit, TypeOK
    <2>4. /\ lamports' = lamports + (ProposalRent + MarkerRent - Outflow(h))
          /\ lamports' >= ConfigRent
      BY <1>12, <2>1, GovernanceBounds
      DEF ExecuteOperatorProposal, ExecuteProposalCpi, CanExecuteCpi, TypeOK
    <2> QED
      BY <1>4, <2>1, <2>2, <2>3, <2>4, GovernanceBounds
  <1>13. ASSUME NEW a \in Accounts, NEW o \in Accounts, TransferOperatorship(a, o)
         PROVE  TreasuryInv'
    BY <1>5, <1>13 DEF TransferOperatorship, TypeOK
  <1>14. ASSUME NEW a \in Accounts, NEW c \in Chains, NEW x \in Addresses,
                NEW d \in Delays, UpdateConfig(a, c, x, d)
         PROVE  TreasuryInv'
    BY <1>5, <1>14 DEF UpdateConfig, TypeOK
  <1>15. ASSUME Tick \/ UNCHANGED vars PROVE TreasuryInv'
    BY <1>5, <1>15 DEF Tick, vars
  <1> QED
    BY <1>6, <1>7, <1>8, <1>9, <1>10, <1>11, <1>12, <1>13, <1>14, <1>15 DEF Next

\* The balance of governance_config covers its rent and is what the closed accounts
\* brought minus what executed proposals took, for every history of proposals.
THEOREM TreasuryHolds == Spec => []Treasury
  <1>1. Init => TreasuryInv
    BY DEF Init, TreasuryInv, Untouched
  <1>2. TypeOK /\ TreasuryInv /\ [Next]_vars => TreasuryInv'
    BY TreasuryStep
  <1>3. TreasuryInv => Treasury
    BY DEF TreasuryInv, Treasury, Sum
  <1> QED
    BY <1>1, <1>2, <1>3, TypeCorrect, PTL DEF Spec
=============================================================================
