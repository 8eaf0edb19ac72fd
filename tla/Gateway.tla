------------------------------- MODULE Gateway -------------------------------
(***************************************************************************)
(* The gateway program (programs/solana-axelar-gateway): verifier-set      *)
(* epochs, signature verification sessions, message approval, message      *)
(* validation, signer rotation and operatorship.                           *)
(*                                                                         *)
(* Every instruction is one Solana transaction and therefore one atomic    *)
(* action: its account constraints and early returns are the guard, and an *)
(* instruction that returns an error changes nothing.  What interleaves    *)
(* are the instructions of independent relayers, verifiers, operators and  *)
(* destination programs.                                                   *)
(*                                                                         *)
(* Cryptography is abstracted to the facts it establishes.  A Merkle root  *)
(* is a model value and VerifierLeaves / MessageLeaves are the pairs of a  *)
(* root and a leaf for which a Merkle proof verifies.  Signatures is the   *)
(* set of all <<public key, payload type, root>> the verifiers ever sign;  *)
(* as in the code, what is signed does not name the verifier set, so one   *)
(* signature counts in every set its key belongs to.                       *)
(***************************************************************************)
EXTENDS Integers, FiniteSets

CONSTANTS
    Roots,              \* 32-byte Merkle roots, of message batches and verifier sets
    VerifierLeaves,     \* provable verifier-set leaves (VerifierSetLeaf with its root)
    MessageLeaves,      \* provable message leaves (MessageLeaf with its root)
    VerifierKeys,       \* public keys of verifiers
    DomainSeparators,   \* domain separators of this and other gateways
    Signatures,         \* the signatures verifiers produce
    Weight,             \* total signer weight of each set of verifier leaves
    Submissions,        \* the verification sessions relayers ever submit
    Messages,           \* cross-chain messages, identified with their hash
    CommandIds,         \* keccak(source chain, message id)
    CommandIdOf,        \* the command id of each message
    Destination,        \* the program each message is addressed to
    Programs,           \* executable programs
    NoProgram,          \* a destination address that is no public key
    NoMessage,          \* an incoming message account that does not exist
    NoRoot,             \* the zeroed hash
    Accounts,           \* keys that sign instructions
    NoAccount,          \* the optional operator account is absent
    UpgradeAuthority,   \* the program's upgrade authority
    InitialVerifierSet, InitialOperator,              \* InitializeConfigParams
    DomainSeparator, PreviousVerifierSetRetention,    \* InitializeConfigParams
    MinimumRotationDelay,                             \* InitializeConfigParams
    SlotCount,          \* bits of signature_slots (256 in the code)
    U128Max,            \* U128::MAX, which also marks a valid session
    MaxTime             \* bound on the clock

PayloadTypes == {"ApproveMessages", "RotateSigners"}

(***************************************************************************)
(* Assumptions on the constants.  They describe data built off chain by    *)
(* crates/solana-axelar-std: leaves of one verifier set carry one quorum   *)
(* and distinct positions, weights and quorums are u128 values, and Weight *)
(* is the sum of signer weights (the one additive function on finite sets  *)
(* of leaves; stated by its equations so that no induction is needed).     *)
(***************************************************************************)
ASSUME BoundsAssumption ==
    /\ PreviousVerifierSetRetention \in Nat
    /\ MinimumRotationDelay \in Nat
    /\ SlotCount \in Nat
    /\ U128Max \in Nat \ {0}
    /\ MaxTime \in Nat

ASSUME LeavesAssumption ==
    /\ VerifierLeaves \subseteq
         [verifier_set : Roots, position : Nat, signer_pubkey : VerifierKeys,
          signer_weight : 0..U128Max, quorum : 0..U128Max,
          domain_separator : DomainSeparators]
    /\ \A k, l \in VerifierLeaves :
         k.verifier_set = l.verifier_set =>
            /\ k.quorum = l.quorum
            /\ k.position = l.position => k = l
    /\ MessageLeaves \subseteq
         [root : Roots, message : Messages,
          domain_separator : DomainSeparators]

ASSUME WeightAssumption ==
    /\ Weight \in [SUBSET VerifierLeaves -> Nat]
    /\ Weight[{}] = 0
    /\ \A S \in SUBSET VerifierLeaves : \A l \in VerifierLeaves \ S :
         Weight[S \cup {l}] = Weight[S] + l.signer_weight

ASSUME NamesAssumption ==
    /\ Submissions \subseteq
         [root : Roots, payload_type : PayloadTypes, verifier_set : Roots]
    /\ CommandIdOf \in [Messages -> CommandIds]
    /\ Destination \in [Messages -> Programs \cup {NoProgram}]
    /\ InitialVerifierSet \in Roots
    /\ InitialOperator \in Accounts
    /\ NoRoot \notin Roots
    /\ NoAccount \notin Accounts
    /\ NoProgram \notin Programs
    /\ NoMessage \notin Messages

VARIABLES
    config,    \* GatewayConfig: the gateway_root_pda account
    tracker,   \* VerifierSetTracker accounts: epoch of each root, 0 if absent
    session,   \* SignatureVerificationSessionData accounts
    incoming,  \* IncomingMessage accounts
    now,       \* Clock::unix_timestamp
    history    \* observation only: deployment time, rotations without operator

vars == <<config, tracker, session, incoming, now, history>>

NoSession == [open |-> FALSE, accumulated_threshold |-> 0,
              signature_slots |-> {}, signing_verifier_set_hash |-> NoRoot]

NoIncoming == [status |-> "none", message |-> NoMessage]

Init ==
    /\ config = [initialized |-> FALSE, current_epoch |-> 0,
                 last_rotation_timestamp |-> 0, operator |-> InitialOperator]
    /\ tracker = [r \in Roots |-> 0]
    /\ session = [s \in Submissions |-> NoSession]
    /\ incoming = [c \in CommandIds |-> NoIncoming]
    /\ now = 0
    /\ history = [start |-> 0, unassisted |-> 0]

-----------------------------------------------------------------------------
\* state/config.rs: a verifier set is valid while fewer than
\* previous_verifier_set_retention rotations have followed its own.
AssertValidEpoch(epoch) ==
    /\ epoch <= config.current_epoch
    /\ config.current_epoch - epoch < PreviousVerifierSetRetention

\* The tracker account of root r exists and its epoch is not too old.
LiveVerifierSet(r) == tracker[r] > 0 /\ AssertValidEpoch(tracker[r])

\* SignatureVerification::is_valid
IsValid(s) == session[s].accumulated_threshold = U128Max

\* Mutant: U128 addition that wraps.
WrappingAdd(a, b) == (a + b) % (U128Max + 1)

\* U128::saturating_add
SaturatingAdd(a, b) == IF a + b > U128Max THEN U128Max ELSE a + b

\* accumulate_threshold: the sum saturates, and reaching the quorum of the leaf
\* is recorded as U128::MAX.
AccumulateThreshold(accumulated, leaf) ==
    LET sum == SaturatingAdd(accumulated, leaf.signer_weight)
    IN  IF sum >= leaf.quorum THEN U128Max ELSE sum

\* Mutant: the slot is not checked against the width of signature_slots.
SlotUnbounded(s, leaf) == leaf.position \notin session[s].signature_slots

\* Mutant: a slot that is already done is not refused.
SlotReused(s, leaf) == leaf.position < SlotCount

\* check_slot_is_done / mark_slot_done: in bounds and not yet counted.
SlotIsFree(s, leaf) ==
    /\ leaf.position < SlotCount
    /\ leaf.position \notin session[s].signature_slots

\* process_signature once all checks passed: accumulate_threshold, mark_slot_done.
CountSignature(data, leaf) ==
    [data EXCEPT
        !.accumulated_threshold = AccumulateThreshold(data.accumulated_threshold, leaf),
        !.signature_slots = data.signature_slots \cup {leaf.position}]

\* Mutant: the signed hash is not prefixed with the payload type.
VerifyUntypedSignature(key, payload_type, root) ==
    \E t \in PayloadTypes : <<key, t, root>> \in Signatures

\* verify_ecdsa_signature over prefixed_message_hash_payload_type
VerifyEcdsaSignature(key, payload_type, root) ==
    <<key, payload_type, root>> \in Signatures

\* Mutant: the delay is counted one unit too short.
RotationDelayOffByOne ==
    now - config.last_rotation_timestamp >= MinimumRotationDelay - 1

\* enough_time_till_next_rotation
EnoughTimeTillNextRotation ==
    now - config.last_rotation_timestamp >= MinimumRotationDelay

-----------------------------------------------------------------------------
\* instructions/initialize_config.rs: init of the configuration account, once.
InitializeConfig(upgrade_authority) ==
    /\ upgrade_authority = UpgradeAuthority
    /\ ~config.initialized
    /\ tracker[InitialVerifierSet] = 0
    /\ config' = [initialized |-> TRUE, current_epoch |-> 1,
                  last_rotation_timestamp |-> now, operator |-> InitialOperator]
    /\ tracker' = [tracker EXCEPT ![InitialVerifierSet] = 1]
    /\ history' = [history EXCEPT !.start = now]
    /\ UNCHANGED <<session, incoming, now>>

\* Mutant: the session is opened without assert_valid_epoch.
InitializeExpiredSession(s) ==
    /\ config.initialized
    /\ tracker[s.verifier_set] > 0
    /\ ~session[s].open
    /\ session' = [session EXCEPT ![s] =
            [open |-> TRUE, accumulated_threshold |-> 0, signature_slots |-> {},
             signing_verifier_set_hash |-> s.verifier_set]]
    /\ UNCHANGED <<config, tracker, incoming, now, history>>

\* instructions/initialize_payload_verification_session.rs
InitializePayloadVerificationSession(s) ==
    /\ config.initialized
    /\ LiveVerifierSet(s.verifier_set)
    /\ ~session[s].open
    /\ session' = [session EXCEPT ![s] =
            [open |-> TRUE, accumulated_threshold |-> 0, signature_slots |-> {},
             signing_verifier_set_hash |-> s.verifier_set]]
    /\ UNCHANGED <<config, tracker, incoming, now, history>>

\* instructions/verify_signature.rs with process_signature: leaf is proved
\* against the tracker account of the set leaf.verifier_set.
VerifySignature(s, leaf) ==
    /\ config.initialized
    /\ session[s].open
    /\ leaf.domain_separator = DomainSeparator
    /\ LiveVerifierSet(leaf.verifier_set)
    /\ SlotIsFree(s, leaf)
    /\ VerifyEcdsaSignature(leaf.signer_pubkey, s.payload_type, s.root)
    /\ session[s].signing_verifier_set_hash = leaf.verifier_set
    /\ session' = [session EXCEPT ![s] = CountSignature(session[s], leaf)]
    /\ UNCHANGED <<config, tracker, incoming, now, history>>

\* Mutant: init_if_needed instead of init for the incoming message account.
ApproveMessageAgain(s, leaf) ==
    /\ config.initialized
    /\ s.payload_type = "ApproveMessages"
    /\ session[s].open
    /\ IsValid(s)
    /\ leaf.domain_separator = DomainSeparator
    /\ leaf.root = s.root
    /\ incoming' = [incoming EXCEPT ![CommandIdOf[leaf.message]] =
                        [status |-> "approved", message |-> leaf.message]]
    /\ UNCHANGED <<config, tracker, session, now, history>>

\* instructions/approve_message.rs: any funder, any time after the session
\* became valid; the account of the command id must not exist yet.
ApproveMessage(s, leaf) ==
    /\ config.initialized
    /\ s.payload_type = "ApproveMessages"
    /\ session[s].open
    /\ IsValid(s)
    /\ leaf.domain_separator = DomainSeparator
    /\ leaf.root = s.root
    /\ LET m == leaf.message IN
        /\ incoming[CommandIdOf[m]].status = "none"
        /\ incoming' = [incoming EXCEPT ![CommandIdOf[m]] =
                            [status |-> "approved", message |-> m]]
    /\ UNCHANGED <<config, tracker, session, now, history>>

\* instructions/validate_message.rs: program calls through its signing PDA for
\* this command id.
ValidateMessage(program, m) ==
    /\ config.initialized
    /\ incoming[CommandIdOf[m]].status = "approved"
    /\ incoming[CommandIdOf[m]].message = m
    /\ Destination[m] = program
    /\ incoming' = [incoming EXCEPT ![CommandIdOf[m]].status = "executed"]
    /\ UNCHANGED <<config, tracker, session, now, history>>

\* instructions/rotate_signers.rs: the root of the session is the new verifier
\* set; signer is the optional operator account.
RotateSigners(s, signer) ==
    LET signing == session[s].signing_verifier_set_hash
        enforce_rotation_delay == signer # config.operator
        is_latest == config.current_epoch = tracker[signing]
    IN
    /\ config.initialized
    /\ s.payload_type = "RotateSigners"
    /\ session[s].open
    /\ IsValid(s)
    /\ LiveVerifierSet(signing)
    /\ signing # s.root
    /\ tracker[s.root] = 0
    /\ enforce_rotation_delay => is_latest /\ EnoughTimeTillNextRotation
    /\ config' = [config EXCEPT !.last_rotation_timestamp = now,
                                !.current_epoch = config.current_epoch + 1]
    /\ tracker' = [tracker EXCEPT ![s.root] = config.current_epoch + 1]
    /\ history' = [history EXCEPT
            !.unassisted = IF enforce_rotation_delay THEN @ + 1 ELSE @]
    /\ UNCHANGED <<session, incoming, now>>

\* instructions/transfer_operatorship.rs
TransferOperatorship(signer, new_operator) ==
    /\ config.initialized
    /\ signer \in {config.operator, UpgradeAuthority}
    /\ new_operator # config.operator
    /\ config' = [config EXCEPT !.operator = new_operator]
    /\ UNCHANGED <<tracker, session, incoming, now, history>>

\* The cluster clock advances (external).
Tick ==
    /\ now < MaxTime
    /\ now' = now + 1
    /\ UNCHANGED <<config, tracker, session, incoming, history>>

Next ==
    \/ \E a \in Accounts : InitializeConfig(a)
    \/ \E s \in Submissions : InitializePayloadVerificationSession(s)
    \/ \E s \in Submissions, l \in VerifierLeaves : VerifySignature(s, l)
    \/ \E s \in Submissions, l \in MessageLeaves : ApproveMessage(s, l)
    \/ \E p \in Programs, m \in Messages : ValidateMessage(p, m)
    \/ \E s \in Submissions, a \in Accounts \cup {NoAccount} : RotateSigners(s, a)
    \/ \E a, o \in Accounts : TransferOperatorship(a, o)
    \/ Tick

Spec == Init /\ [][Next]_vars

-----------------------------------------------------------------------------
(***************************************************************************)
(* Properties.                                                             *)
(***************************************************************************)

\* Every account holds values its Rust type can hold: the accumulated threshold
\* is a u128, slots are bits of signature_slots, statuses are the ones
\* MessageStatus knows.
TypeOK ==
    /\ config \in [initialized : BOOLEAN, current_epoch : Nat,
                   last_rotation_timestamp : Nat, operator : Accounts]
    /\ tracker \in [Roots -> Nat]
    /\ session \in [Submissions ->
            [open : BOOLEAN, accumulated_threshold : 0..U128Max,
             signature_slots : SUBSET (0..SlotCount - 1),
             signing_verifier_set_hash : Roots \cup {NoRoot}]]
    /\ incoming \in [CommandIds ->
            [status : {"none", "approved", "executed"},
             message : Messages \cup {NoMessage}]]
    /\ now \in 0..MaxTime
    /\ history \in [start : Nat, unassisted : Nat]

\* The leaves whose signatures session s has counted.
CountedLeaves(s) ==
    {l \in VerifierLeaves : /\ l.verifier_set = s.verifier_set
                            /\ l.position \in session[s].signature_slots}

\* A set of leaves carries the quorum of its verifier set.
HasQuorum(S) == S # {} /\ \A l \in S : Weight[S] >= l.quorum

\* Verifiers of set v whose signatures on the payload can be counted.
SigningLeaves(v, payload_type, root) ==
    {l \in VerifierLeaves :
        /\ l.verifier_set = v
        /\ l.domain_separator = DomainSeparator
        /\ <<l.signer_pubkey, payload_type, root>> \in Signatures}

\* A quorum of verifier set v signed the payload.
QuorumSigned(v, payload_type, root) ==
    \E S \in SUBSET SigningLeaves(v, payload_type, root) : HasQuorum(S)

\* A session is valid exactly when distinct verifiers of its own verifier set,
\* who all signed its payload under its payload type, carry the quorum: no
\* order of verify_signature calls counts a verifier twice, counts a verifier of
\* another set, or is confused by the saturating sum and its U128::MAX marker
\* (process_signature in state/verification_session.rs).
SessionAccounting ==
    \A s \in Submissions : session[s].open =>
        LET counted == CountedLeaves(s) IN
        /\ session[s].signing_verifier_set_hash = s.verifier_set
        /\ counted \subseteq SigningLeaves(s.verifier_set, s.payload_type, s.root)
        /\ IF IsValid(s)
           THEN HasQuorum(counted)
           ELSE /\ ~HasQuorum(counted)
                /\ session[s].accumulated_threshold = Weight[counted]

\* Epochs and verifier sets correspond one to one: every epoch up to the current
\* one belongs to exactly one tracker account.  Apart from the first set, every
\* set was appointed by a quorum of an earlier set that had not passed its
\* retention then (rotate_signers.rs and assert_valid_epoch).
EpochChain ==
    /\ \A r \in Roots : tracker[r] <= config.current_epoch
    /\ \A e \in 1..config.current_epoch : \E r \in Roots : tracker[r] = e
    /\ \A q, r \in Roots : tracker[q] = tracker[r] /\ tracker[r] > 0 => q = r
    /\ \A r \in Roots : tracker[r] = 1 => r = InitialVerifierSet
    /\ \A r \in Roots : tracker[r] > 1 =>
         \E u \in Roots :
            /\ tracker[u] \in 1..(tracker[r] - 1)
            /\ tracker[r] - tracker[u] <= PreviousVerifierSetRetention
            /\ QuorumSigned(u, "RotateSigners", r)

\* Without the operator, verifier sets rotate no faster than one per
\* minimum_rotation_delay, however rotations by the operator, operatorship
\* transfers and the clock interleave with them; and the subtraction in
\* enough_time_till_next_rotation, which the code expects not to underflow, does
\* not (rotate_signers.rs).
RotationRate ==
    config.initialized =>
        /\ config.last_rotation_timestamp <= now
        /\ history.unassisted * MinimumRotationDelay
              <= config.last_rotation_timestamp - history.start
        /\ history.unassisted < config.current_epoch

\* Expiry is final: a verifier set past its retention never becomes live again,
\* and its sessions never change again, so that no signature counted after the
\* expiry can complete one (initialize_payload_verification_session.rs and
\* verify_signature.rs).  Sessions completed in time stay usable by
\* approve_message, which does not look at the epoch.
ExpiryIsFinal ==
    [][\A r \in Roots : tracker[r] > 0 /\ ~LiveVerifierSet(r) =>
        /\ ~LiveVerifierSet(r)'
        /\ \A s \in Submissions :
              s.verifier_set = r => session'[s] = session[s]]_vars

\* A quorum of v signed a batch of this gateway that holds message m.
Endorses(v, m) ==
    \E l \in MessageLeaves :
        /\ l.message = m
        /\ l.domain_separator = DomainSeparator
        /\ QuorumSigned(v, "ApproveMessages", l.root)

\* A quorum of u signed the rotation to v.
Appoints(u, v) == QuorumSigned(u, "RotateSigners", v)

Trusted == {r \in Roots : tracker[r] > 0}

Abstract == INSTANCE TrustedDelivery WITH trusted <- Trusted, inbox <- incoming

\* The gateway implements TrustedDelivery: sets with a tracker account are the
\* trusted ones, incoming message accounts are the inbox.  A command id never
\* changes its message, a message is executed at most once, and nothing is
\* approved or appointed without a quorum of a trusted set behind it, whatever the
\* interleaving of sessions, rotations and approvals (approve_message.rs,
\* validate_message.rs, rotate_signers.rs).
ImplementsTrustedDelivery == Abstract!Spec

-----------------------------------------------------------------------------
(***************************************************************************)
(* Liveness.  The entry points used here are permissionless: the           *)
(* environment assumption is that some relayer keeps submitting what can   *)
(* be submitted and that destination programs are called for approved      *)
(* messages.  Rotations and the clock are not fair.                        *)
(***************************************************************************)
Fairness ==
    /\ WF_vars(InitializeConfig(UpgradeAuthority))
    /\ \A s \in Submissions :
        /\ WF_vars(InitializePayloadVerificationSession(s))
        /\ \A l \in VerifierLeaves : WF_vars(VerifySignature(s, l))
        /\ \A l \in MessageLeaves : WF_vars(ApproveMessage(s, l))
    /\ \A p \in Programs, m \in Messages : WF_vars(ValidateMessage(p, m))

FairSpec == Spec /\ Fairness

\* A message that a quorum of a verifier set signed is executed in the end,
\* unless that set expires first or another message took its command id: no
\* interleaving of sessions, conflicting messages and rotations wedges a session
\* or an approval (verify_signature.rs, approve_message.rs, validate_message.rs).
EndorsedMessagesAreExecuted ==
    \A s \in Submissions, l \in MessageLeaves :
        /\ s.payload_type = "ApproveMessages"
        /\ s.root = l.root
        /\ l.domain_separator = DomainSeparator
        /\ Destination[l.message] # NoProgram
        /\ HasQuorum({k \in SigningLeaves(s.verifier_set, s.payload_type, s.root) :
                        k.position < SlotCount})
        => (<>[](LiveVerifierSet(s.verifier_set)) =>
                <>(LET i == incoming[CommandIdOf[l.message]] IN
                    \/ i.status = "executed" /\ i.message = l.message
                    \/ i.status # "none" /\ i.message # l.message))
=============================================================================
