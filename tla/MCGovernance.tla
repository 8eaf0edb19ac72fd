----------------------------- MODULE MCGovernance -----------------------------
(***************************************************************************)
(* Instances of Governance for TLC.  Proposal "call" runs another program, *)
(* "spend" withdraws and sends native value with the same call, "handover" *)
(* transfers the operatorship.  "call" can be scheduled twice, cancelled,  *)
(* approved and revoked; one command comes from another chain, and one     *)
(* carries an ETA beyond u64.                                              *)
(***************************************************************************)
EXTENDS Governance

Data(call, amount, native_value) ==
    [call |-> call, new_operator |-> "bob", amount |-> amount,
     native_value |-> native_value, has_receiver |-> native_value > 0,
     names_governance_config |-> TRUE]

MCProposalData ==
    [h \in Proposals |->
        CASE h = "call"     -> Data("external", 0, 0)
          [] h = "spend"    -> Data("withdraw_tokens", 1, 1)
          [] OTHER          -> Data("transfer_operatorship", 0, 0)]

Command(id, chain, command, proposal_hash, eta) ==
    [id |-> id, chain |-> chain, address |-> "governance",
     command |-> command, proposal |-> proposal_hash, eta |-> eta]

\* The life of one proposal that is scheduled twice, beside one that moves lamports.
MCMessages ==
    {Command(1, "axelar", "ScheduleTimeLockProposal", "call", 0),
     Command(2, "axelar", "ScheduleTimeLockProposal", "call", 3),
     Command(3, "axelar", "CancelTimeLockProposal", "call", 2),
     Command(4, "axelar", "ApproveOperatorProposal", "call", 0),
     Command(5, "axelar", "CancelOperatorApproval", "call", 0),
     Command(6, "other", "ScheduleTimeLockProposal", "spend", 0),
     Command(7, "axelar", "ApproveOperatorProposal", "spend", 0),
     Command(8, "axelar", "ScheduleTimeLockProposal", "spend", 9)}

\* A proposal that transfers the operatorship, by timelock or by the operator.
MCOperatorMessages ==
    {Command(1, "axelar", "ScheduleTimeLockProposal", "handover", 0),
     Command(2, "axelar", "ApproveOperatorProposal", "handover", 0)}
=============================================================================
