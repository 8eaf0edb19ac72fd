---------------------------- MODULE Gateway_proofs ----------------------------
(***************************************************************************)
(* Machine-checked proofs about the gateway, for every choice of verifier  *)
(* sets, signatures, submissions, messages, retention, delay and bounds    *)
(* that satisfies the assumptions of module Gateway.                       *)
(***************************************************************************)
EXTENDS Gateway, TLAPS

\* What the other invariants rest on: nothing exists before initialization, a
\* session opened for a root needs the tracker account of that root, a closed
\* session is blank, and an incoming message is stored under its own command id.
Consistency ==
    /\ ~config.initialized =>
         /\ config.current_epoch = 0
         /\ history.unassisted = 0
         /\ \A r \in Roots : tracker[r] = 0
         /\ \A s \in Submissions : ~session[s].open
         /\ \A c \in CommandIds : incoming[c] = NoIncoming
    /\ config.initialized =>
         /\ config.current_epoch >= 1
         /\ history.start <= config.last_rotation_timestamp
         /\ tracker[InitialVerifierSet] = 1
    /\ \A s \in Submissions :
         IF session[s].open THEN tracker[s.verifier_set] > 0
                            ELSE session[s] = NoSession
    /\ \A c \in CommandIds :
         IF incoming[c].status = "none"
         THEN incoming[c] = NoIncoming
         ELSE /\ incoming[c].message \in Messages
              /\ CommandIdOf[incoming[c].message] = c

IInv == TypeOK /\ Consistency /\ SessionAccounting /\ EpochChain /\ RotationRate

-----------------------------------------------------------------------------
\* The outcome of accumulate_threshold stays a u128.
LEMMA AccumulateThresholdType ==
    ASSUME NEW a \in 0..U128Max, NEW l \in VerifierLeaves
    PROVE  AccumulateThreshold(a, l) \in 0..U128Max
  BY BoundsAssumption, LeavesAssumption DEF AccumulateThreshold, SaturatingAdd

\* Every instruction keeps every account within its Rust type.
LEMMA TypeStep == TypeOK /\ [Next]_vars => TypeOK'
<1> SUFFICES ASSUME TypeOK, [Next]_vars PROVE TypeOK'
  OBVIOUS
<1> USE DEF TypeOK
<1>1. ASSUME NEW a \in Accounts, InitializeConfig(a) PROVE TypeOK'
  BY <1>1, BoundsAssumption, NamesAssumption DEF InitializeConfig
<1>2. ASSUME NEW s \in Submissions, InitializePayloadVerificationSession(s)
      PROVE  TypeOK'
  BY <1>2, BoundsAssumption, NamesAssumption
  DEF InitializePayloadVerificationSession, NoSession
<1>3. ASSUME NEW s \in Submissions, NEW l \in VerifierLeaves, VerifySignature(s, l)
      PROVE  TypeOK'
  <2>1. AccumulateThreshold(session[s].accumulated_threshold, l) \in 0..U128Max
    BY AccumulateThresholdType
  <2>2. l.position \in 0..SlotCount - 1
    BY <1>3, LeavesAssumption, BoundsAssumption DEF VerifySignature, SlotIsFree
  <2> DEFINE Data == [open : BOOLEAN, accumulated_threshold : 0..U128Max,
                      signature_slots : SUBSET (0..SlotCount - 1),
                      signing_verifier_set_hash : Roots \cup {NoRoot}]
  <2>a. session[s] \in Data
    OBVIOUS
  <2>b. session[s].signature_slots \cup {l.position} \in SUBSET (0..SlotCount - 1)
    BY <2>a, <2>2
  <2>3. CountSignature(session[s], l) \in Data
    BY <2>a, <2>b, <2>1 DEF CountSignature
  <2> QED
    BY <1>3, <2>3 DEF VerifySignature
<1>4. ASSUME NEW s \in Submissions, NEW l \in MessageLeaves, ApproveMessage(s, l)
      PROVE  TypeOK'
  BY <1>4, LeavesAssumption, NamesAssumption DEF ApproveMessage
<1>5. ASSUME NEW p \in Programs, NEW m \in Messages, ValidateMessage(p, m)
      PROVE  TypeOK'
  BY <1>5, NamesAssumption DEF ValidateMessage
<1>6. ASSUME NEW s \in Submissions, NEW a \in Accounts \cup {NoAccount},
             RotateSigners(s, a)
      PROVE  TypeOK'
  <2>0. now \in Nat
    BY BoundsAssumption
  <2>1. config' \in [initialized : BOOLEAN, current_epoch : Nat,
                      last_rotation_timestamp : Nat, operator : Accounts]
    <3>1. config' = [config EXCEPT !.last_rotation_timestamp = now,
                                   !.current_epoch = config.current_epoch + 1]
      BY <1>6 DEF RotateSigners
    <3>2. config.current_epoch + 1 \in Nat
      OBVIOUS
    <3> QED
      BY <3>1, <3>2, <2>0
  <2>3. history' \in [start : Nat, unassisted : Nat]
    BY <1>6 DEF RotateSigners
  <2>2. tracker' \in [Roots -> Nat]
    BY <1>6, NamesAssumption DEF RotateSigners
  <2> QED
    BY <1>6, <2>1, <2>2, <2>3 DEF RotateSigners
<1>7. ASSUME NEW a \in Accounts, NEW o \in Accounts, TransferOperatorship(a, o)
      PROVE  TypeOK'
  BY <1>7 DEF TransferOperatorship
<1>8. CASE Tick
  BY <1>8, BoundsAssumption DEF Tick
<1>9. CASE UNCHANGED vars
  BY <1>9 DEF vars
<1> QED
  BY <1>1, <1>2, <1>3, <1>4, <1>5, <1>6, <1>7, <1>8, <1>9 DEF Next

-----------------------------------------------------------------------------
\* Counting one more signature adds exactly its leaf to the counted leaves.
LEMMA CountedLeavesGrow ==
    ASSUME NEW s \in Submissions, NEW l \in VerifierLeaves,
           TypeOK, SessionAccounting, VerifySignature(s, l)
    PROVE  /\ l \notin CountedLeaves(s)
           /\ CountedLeaves(s)' = CountedLeaves(s) \cup {l}
           /\ CountedLeaves(s) \in SUBSET VerifierLeaves
           /\ Weight[CountedLeaves(s)'] = Weight[CountedLeaves(s)] + l.signer_weight
<1>1. s.verifier_set = l.verifier_set
  BY DEF SessionAccounting, VerifySignature
<1>2. l \notin CountedLeaves(s)
  BY DEF VerifySignature, SlotIsFree, CountedLeaves
<1>3. session'[s].signature_slots = session[s].signature_slots \cup {l.position}
  BY DEF TypeOK, VerifySignature, CountSignature
<1>4. CountedLeaves(s)' = CountedLeaves(s) \cup {l}
  BY <1>1, <1>3, LeavesAssumption DEF CountedLeaves
<1> QED
  BY <1>2, <1>4, WeightAssumption DEF CountedLeaves

\* The step of process_signature that adds a weight keeps the accounting of its
\* session exact: below the quorum, at the quorum, and when the sum saturates.
LEMMA VerifySignatureAccounting ==
    ASSUME NEW s \in Submissions, NEW l \in VerifierLeaves,
           TypeOK, SessionAccounting, VerifySignature(s, l)
    PROVE  IF IsValid(s)'
           THEN HasQuorum(CountedLeaves(s)')
           ELSE /\ ~HasQuorum(CountedLeaves(s)')
                /\ session'[s].accumulated_threshold = Weight[CountedLeaves(s)']
<1> DEFINE old == CountedLeaves(s)
           new == CountedLeaves(s)'
           acc == session[s].accumulated_threshold
<1>1. /\ l \notin old /\ new = old \cup {l}
      /\ old \in SUBSET VerifierLeaves
      /\ Weight[new] = Weight[old] + l.signer_weight
  BY CountedLeavesGrow
<1>2. session'[s].accumulated_threshold = AccumulateThreshold(acc, l)
  BY DEF TypeOK, VerifySignature, CountSignature
<1>3. /\ acc \in 0..U128Max
      /\ l.signer_weight \in 0..U128Max
      /\ l.quorum \in 0..U128Max
      /\ Weight[old] \in Nat
      /\ Weight[new] \in Nat
      /\ U128Max \in Nat \ {0}
  BY <1>1, LeavesAssumption, WeightAssumption, BoundsAssumption DEF TypeOK
<1>4. \A k \in new : k.quorum = l.quorum
  BY <1>1, LeavesAssumption DEF CountedLeaves, SessionAccounting, VerifySignature
<1>5. HasQuorum(new) <=> Weight[new] >= l.quorum
  BY <1>1, <1>4 DEF HasQuorum
<1>6. session[s].open
  BY DEF VerifySignature
<1>7. CASE IsValid(s)
  <2>1. AccumulateThreshold(acc, l) = U128Max
    BY <1>3, <1>7 DEF IsValid, AccumulateThreshold, SaturatingAdd
  <2>2. HasQuorum(old)
    BY <1>6, <1>7 DEF SessionAccounting
  <2>3. PICK k \in old : Weight[old] >= k.quorum
    BY <2>2 DEF HasQuorum
  <2>4. Weight[new] >= l.quorum
    BY <1>1, <1>3, <1>4, <2>3
  <2> QED
    BY <1>2, <1>5, <2>1, <2>4 DEF IsValid
<1>8. CASE ~IsValid(s)
  <2>1. acc = Weight[old]
    BY <1>6, <1>8 DEF SessionAccounting
  <2>2. IF AccumulateThreshold(acc, l) = U128Max
        THEN Weight[new] >= l.quorum
        ELSE Weight[new] < l.quorum /\ AccumulateThreshold(acc, l) = Weight[new]
    BY <1>1, <1>3, <2>1 DEF AccumulateThreshold, SaturatingAdd
  <2> QED
    BY <1>2, <1>3, <1>5, <2>2 DEF IsValid
<1> QED
  BY <1>7, <1>8

\* Every step keeps every session exact; only verify_signature adds to one.
LEMMA SessionAccountingStep ==
    TypeOK /\ SessionAccounting /\ [Next]_vars => SessionAccounting'
<1> SUFFICES ASSUME TypeOK, SessionAccounting, [Next]_vars
             PROVE  SessionAccounting'
  OBVIOUS
<1>1. CASE UNCHANGED session
  BY <1>1 DEF SessionAccounting, CountedLeaves, IsValid
<1>2. ASSUME NEW s \in Submissions, InitializePayloadVerificationSession(s)
      PROVE  SessionAccounting'
  <2> SUFFICES ASSUME NEW t \in Submissions, session'[t].open
               PROVE  /\ session'[t].signing_verifier_set_hash = t.verifier_set
                      /\ CountedLeaves(t)' \subseteq
                           SigningLeaves(t.verifier_set, t.payload_type, t.root)
                      /\ IF IsValid(t)'
                         THEN HasQuorum(CountedLeaves(t)')
                         ELSE /\ ~HasQuorum(CountedLeaves(t)')
                              /\ session'[t].accumulated_threshold
                                    = Weight[CountedLeaves(t)']
    BY DEF SessionAccounting
  <2>1. CASE t = s
    <3>1. session'[t] = [open |-> TRUE, accumulated_threshold |-> 0,
                         signature_slots |-> {},
                         signing_verifier_set_hash |-> t.verifier_set]
      BY <1>2, <2>1 DEF InitializePayloadVerificationSession, TypeOK
    <3>2. CountedLeaves(t)' = {}
      BY <3>1 DEF CountedLeaves
    <3> QED
      BY <3>1, <3>2, WeightAssumption, BoundsAssumption DEF IsValid, HasQuorum
  <2>2. CASE t # s
    <3>1. session'[t] = session[t]
      BY <1>2, <2>2 DEF InitializePayloadVerificationSession, TypeOK
    <3> QED
      BY <3>1 DEF SessionAccounting, CountedLeaves, IsValid
  <2> QED
    BY <2>1, <2>2
<1>3. ASSUME NEW s \in Submissions, NEW l \in VerifierLeaves, VerifySignature(s, l)
      PROVE  SessionAccounting'
  <2> SUFFICES ASSUME NEW t \in Submissions, session'[t].open
               PROVE  /\ session'[t].signing_verifier_set_hash = t.verifier_set
                      /\ CountedLeaves(t)' \subseteq
                           SigningLeaves(t.verifier_set, t.payload_type, t.root)
                      /\ IF IsValid(t)'
                         THEN HasQuorum(CountedLeaves(t)')
                         ELSE /\ ~HasQuorum(CountedLeaves(t)')
                              /\ session'[t].accumulated_threshold
                                    = Weight[CountedLeaves(t)']
    BY DEF SessionAccounting
  <2>1. CASE t = s
    <3>1. session'[s].signing_verifier_set_hash = s.verifier_set
      BY <1>3 DEF VerifySignature, CountSignature, SessionAccounting, TypeOK
    <3>2. l \in SigningLeaves(s.verifier_set, s.payload_type, s.root)
      BY <1>3 DEF VerifySignature, VerifyEcdsaSignature, SigningLeaves,
                  SessionAccounting
    <3>3. CountedLeaves(s) \subseteq
             SigningLeaves(s.verifier_set, s.payload_type, s.root)
      BY <1>3 DEF SessionAccounting, VerifySignature
    <3>4. CountedLeaves(s)' = CountedLeaves(s) \cup {l}
      BY <1>3, CountedLeavesGrow
    <3> QED
      BY <1>3, <2>1, <3>1, <3>2, <3>3, <3>4, VerifySignatureAccounting
  <2>2. CASE t # s
    <3>1. session'[t] = session[t]
      BY <1>3, <2>2 DEF VerifySignature, TypeOK
    <3> QED
      BY <3>1 DEF SessionAccounting, CountedLeaves, IsValid
  <2> QED
    BY <2>1, <2>2
<1> QED
  BY <1>1, <1>2, <1>3 DEF Next, vars, InitializeConfig, ApproveMessage,
     ValidateMessage, RotateSigners, TransferOperatorship, Tick

-----------------------------------------------------------------------------
\* Trackers, sessions and the inbox stay consistent with the configuration.
LEMMA ConsistencyStep ==
    TypeOK /\ Consistency /\ SessionAccounting /\ RotationRate /\ [Next]_vars
        => Consistency'
<1> SUFFICES ASSUME TypeOK, Consistency, SessionAccounting, RotationRate, [Next]_vars
             PROVE  Consistency'
  OBVIOUS
<1>1. ASSUME NEW a \in Accounts, InitializeConfig(a) PROVE Consistency'
  <2>1. /\ config'.initialized /\ config'.current_epoch = 1
        /\ history'.start = config'.last_rotation_timestamp
        /\ config'.last_rotation_timestamp \in Nat
    BY <1>1, BoundsAssumption DEF InitializeConfig, TypeOK
  <2>2. /\ tracker'[InitialVerifierSet] = 1
        /\ \A s \in Submissions : session'[s] = NoSession
        /\ \A c \in CommandIds : incoming'[c] = NoIncoming
    BY <1>1, NamesAssumption DEF InitializeConfig, TypeOK, Consistency
  <2>3. \A s \in Submissions : ~session'[s].open
    BY <2>2 DEF NoSession
  <2>4. \A c \in CommandIds : incoming'[c].status = "none"
    BY <2>2 DEF NoIncoming
  <2>5. /\ config'.current_epoch >= 1
        /\ history'.start <= config'.last_rotation_timestamp
    BY <2>1
  <2> QED
    BY <2>1, <2>2, <2>3, <2>4, <2>5 DEF Consistency
<1>2. ASSUME NEW s \in Submissions, InitializePayloadVerificationSession(s)
      PROVE  Consistency'
  <2>1. session'[s].open /\ tracker[s.verifier_set] > 0
    BY <1>2 DEF InitializePayloadVerificationSession, LiveVerifierSet, TypeOK
  <2>2. \A t \in Submissions : t # s => session'[t] = session[t]
    BY <1>2 DEF InitializePayloadVerificationSession, TypeOK
  <2> QED
    BY <1>2, <2>1, <2>2 DEF InitializePayloadVerificationSession, Consistency
<1>3. ASSUME NEW s \in Submissions, NEW l \in VerifierLeaves, VerifySignature(s, l)
      PROVE  Consistency'
  <2>1. session'[s].open /\ session[s].open
    BY <1>3 DEF VerifySignature, CountSignature, TypeOK
  <2>2. \A t \in Submissions : t # s => session'[t] = session[t]
    BY <1>3 DEF VerifySignature, TypeOK
  <2> QED
    BY <1>3, <2>1, <2>2 DEF VerifySignature, Consistency
<1>4. ASSUME NEW s \in Submissions, NEW l \in MessageLeaves, ApproveMessage(s, l)
      PROVE  Consistency'
  <2>1. l.message \in Messages
    BY LeavesAssumption
  <2>2. incoming' = [incoming EXCEPT ![CommandIdOf[l.message]] =
                        [status |-> "approved", message |-> l.message]]
    BY <1>4 DEF ApproveMessage
  <2>3. \A c \in CommandIds :
            IF incoming'[c].status = "none"
            THEN incoming'[c] = NoIncoming
            ELSE /\ incoming'[c].message \in Messages
                 /\ CommandIdOf[incoming'[c].message] = c
    BY <2>1, <2>2 DEF Consistency, TypeOK
  <2> QED
    BY <1>4, <2>3 DEF ApproveMessage, Consistency
<1>5. ASSUME NEW p \in Programs, NEW m \in Messages, ValidateMessage(p, m)
      PROVE  Consistency'
  <2>1. incoming' = [incoming EXCEPT ![CommandIdOf[m]].status = "executed"]
    BY <1>5 DEF ValidateMessage
  <2>2. \A c \in CommandIds :
            IF incoming'[c].status = "none"
            THEN incoming'[c] = NoIncoming
            ELSE /\ incoming'[c].message \in Messages
                 /\ CommandIdOf[incoming'[c].message] = c
    BY <1>5, <2>1 DEF ValidateMessage, Consistency, TypeOK
  <2> QED
    BY <1>5, <2>2 DEF ValidateMessage, Consistency
<1>6. ASSUME NEW s \in Submissions, NEW a \in Accounts \cup {NoAccount},
             RotateSigners(s, a)
      PROVE  Consistency'
  <2>1. /\ config.initialized
        /\ config' = [config EXCEPT !.last_rotation_timestamp = now,
                                    !.current_epoch = config.current_epoch + 1]
        /\ tracker' = [tracker EXCEPT ![s.root] = config.current_epoch + 1]
        /\ tracker[s.root] = 0
        /\ history'.start = history.start
        /\ UNCHANGED <<session, incoming, now>>
    BY <1>6 DEF RotateSigners, TypeOK
  <2>2. /\ config'.initialized
        /\ config'.current_epoch >= 1
        /\ history'.start <= config'.last_rotation_timestamp
    BY <2>1, BoundsAssumption DEF TypeOK, Consistency, RotationRate
  <2>3. /\ tracker'[InitialVerifierSet] = 1
        /\ \A r \in Roots : tracker[r] > 0 => tracker'[r] > 0
    BY <2>1, NamesAssumption DEF TypeOK, Consistency
  <2> QED
    BY <2>1, <2>2, <2>3, NamesAssumption DEF Consistency
<1>7. ASSUME NEW a \in Accounts, NEW o \in Accounts, TransferOperatorship(a, o)
      PROVE  Consistency'
  BY <1>7 DEF TransferOperatorship, Consistency, TypeOK
<1>8. CASE Tick
  BY <1>8 DEF Tick, Consistency
<1>9. CASE UNCHANGED vars
  BY <1>9 DEF vars, Consistency
<1> QED
  BY <1>1, <1>2, <1>3, <1>4, <1>5, <1>6, <1>7, <1>8, <1>9 DEF Next

-----------------------------------------------------------------------------
\* Every step keeps the count of unassisted rotations within the elapsed time.
LEMMA RotationRateStep ==
    TypeOK /\ Consistency /\ RotationRate /\ [Next]_vars => RotationRate'
<1> SUFFICES ASSUME TypeOK, Consistency, RotationRate, [Next]_vars
             PROVE  RotationRate'
  OBVIOUS
<1>1. ASSUME NEW a \in Accounts, InitializeConfig(a) PROVE RotationRate'
  <2>1. history'.unassisted = 0 /\ history'.start = now
    BY <1>1 DEF InitializeConfig, Consistency, TypeOK
  <2>2. 0 * MinimumRotationDelay = 0
    BY BoundsAssumption
  <2> QED
    BY <1>1, <2>1, <2>2, BoundsAssumption DEF InitializeConfig, RotationRate, TypeOK
<1>2. ASSUME NEW s \in Submissions, NEW a \in Accounts \cup {NoAccount},
             RotateSigners(s, a)
      PROVE  RotationRate'
  <2> DEFINE u == history.unassisted
             d == MinimumRotationDelay
             last == config.last_rotation_timestamp
  <2>1. /\ u \in Nat /\ d \in Nat /\ last \in Nat
        /\ now \in Nat /\ history.start \in Nat /\ config.current_epoch \in Nat
    BY BoundsAssumption DEF TypeOK
  <2>2. /\ last <= now
        /\ u * d <= last - history.start
        /\ u < config.current_epoch
    BY <1>2 DEF RotateSigners, RotationRate
  <2>3. /\ config'.last_rotation_timestamp = now
        /\ config'.current_epoch = config.current_epoch + 1
        /\ history'.start = history.start
        /\ now' = now
    BY <1>2 DEF RotateSigners, TypeOK
  <2>4. CASE a = config.operator
    <3>1. history'.unassisted = u
      BY <1>2, <2>4 DEF RotateSigners, TypeOK
    <3> QED
      BY <2>1, <2>2, <2>3, <3>1 DEF RotationRate
  <2>5. CASE a # config.operator
    <3>1. history'.unassisted = u + 1 /\ now - last >= d
      BY <1>2, <2>5 DEF RotateSigners, EnoughTimeTillNextRotation, TypeOK
    <3>2. (u + 1) * d = u * d + d
      BY <2>1
    <3>3. u * d \in Nat
      BY <2>1
    <3>4. u * d + d <= now - history.start
      BY <2>1, <2>2, <3>1, <3>3
    <3> QED
      BY <2>1, <2>2, <2>3, <3>1, <3>2, <3>4 DEF RotationRate
  <2> QED
    BY <2>4, <2>5
<1>3. ASSUME NEW a \in Accounts, NEW o \in Accounts, TransferOperatorship(a, o)
      PROVE  RotationRate'
  BY <1>3 DEF TransferOperatorship, RotationRate, TypeOK
<1>4. CASE Tick
  BY <1>4, BoundsAssumption DEF Tick, RotationRate, TypeOK
<1>5. CASE UNCHANGED <<config, now, history>>
  BY <1>5 DEF RotationRate
<1> QED
  BY <1>1, <1>2, <1>3, <1>4, <1>5
  DEF Next, vars, InitializePayloadVerificationSession, VerifySignature,
      ApproveMessage, ValidateMessage

-----------------------------------------------------------------------------
\* A valid session is backed by a quorum of its verifier set.
LEMMA ValidSessionHasQuorum ==
    ASSUME TypeOK, SessionAccounting, NEW s \in Submissions, session[s].open, IsValid(s)
    PROVE  /\ session[s].signing_verifier_set_hash = s.verifier_set
           /\ QuorumSigned(s.verifier_set, s.payload_type, s.root)
  BY DEF SessionAccounting, QuorumSigned

\* One rotation extends the chain of epochs by one.
LEMMA RotateSignersChain ==
    ASSUME TypeOK, Consistency, SessionAccounting, EpochChain,
           NEW s \in Submissions, NEW a, RotateSigners(s, a)
    PROVE  EpochChain'
<1> DEFINE e == config.current_epoch
           n == s.root
           u == s.verifier_set
<1>1. /\ n \in Roots /\ u \in Roots /\ e \in Nat /\ tracker \in [Roots -> Nat]
      /\ PreviousVerifierSetRetention \in Nat
  BY NamesAssumption, BoundsAssumption DEF TypeOK
<1>2. /\ session[s].signing_verifier_set_hash = u
      /\ QuorumSigned(u, "RotateSigners", n)
  BY ValidSessionHasQuorum DEF RotateSigners
<1>3. /\ tracker[u] > 0 /\ tracker[u] <= e
      /\ e - tracker[u] < PreviousVerifierSetRetention
      /\ tracker[n] = 0
      /\ e >= 1
  BY <1>2 DEF RotateSigners, LiveVerifierSet, AssertValidEpoch, Consistency
<1>4. config'.current_epoch = e + 1
  BY DEF RotateSigners, TypeOK
<1>5. tracker'[n] = e + 1 /\ \A r \in Roots : r # n => tracker'[r] = tracker[r]
  BY <1>1 DEF RotateSigners
<1>6. \A r \in Roots : tracker'[r] <= config'.current_epoch
  BY <1>1, <1>4, <1>5 DEF EpochChain
<1>7. \A i \in 1..config'.current_epoch : \E r \in Roots : tracker'[r] = i
  <2> SUFFICES ASSUME NEW i \in 1..e + 1
               PROVE  \E r \in Roots : tracker'[r] = i
    BY <1>4
  <2>1. CASE i = e + 1
    BY <2>1, <1>1, <1>5
  <2>2. CASE i # e + 1
    <3>1. i \in 1..e
      BY <2>2, <1>1
    <3>2. PICK r \in Roots : tracker[r] = i
      BY <3>1 DEF EpochChain
    <3>3. r # n
      BY <1>3, <3>1, <3>2
    <3> QED
      BY <1>5, <3>2, <3>3
  <2> QED
    BY <2>1, <2>2
<1>8. \A q, r \in Roots : tracker'[q] = tracker'[r] /\ tracker'[r] > 0 => q = r
  <2>1. \A r \in Roots : r # n => tracker'[r] < e + 1
    BY <1>1, <1>5 DEF EpochChain
  <2> QED
    BY <1>1, <1>5, <2>1 DEF EpochChain
<1>9. \A r \in Roots : tracker'[r] = 1 => r = InitialVerifierSet
  BY <1>1, <1>3, <1>5 DEF EpochChain
<1>10. ASSUME NEW r \in Roots, tracker'[r] > 1
       PROVE  \E v \in Roots :
                /\ tracker'[v] \in 1..(tracker'[r] - 1)
                /\ tracker'[r] - tracker'[v] <= PreviousVerifierSetRetention
                /\ QuorumSigned(v, "RotateSigners", r)
  <2>1. CASE r = n
    <3>1. tracker'[u] = tracker[u]
      BY <1>1, <1>3, <1>5
    <3> QED
      BY <1>1, <1>2, <1>3, <1>5, <2>1, <3>1
  <2>2. CASE r # n
    <3>1. PICK v \in Roots :
                /\ tracker[v] \in 1..(tracker[r] - 1)
                /\ tracker[r] - tracker[v] <= PreviousVerifierSetRetention
                /\ QuorumSigned(v, "RotateSigners", r)
      BY <1>5, <1>10, <2>2 DEF EpochChain
    <3>2. tracker'[v] = tracker[v] /\ tracker'[r] = tracker[r]
      BY <1>1, <1>3, <1>5, <2>2, <3>1
    <3> QED
      BY <3>1, <3>2
  <2> QED
    BY <2>1, <2>2
<1> QED
  BY <1>6, <1>7, <1>8, <1>9, <1>10 DEF EpochChain, QuorumSigned, SigningLeaves, HasQuorum

\* Every step keeps the chain of epochs; only rotate_signers extends it.
LEMMA EpochChainStep ==
    TypeOK /\ Consistency /\ SessionAccounting /\ EpochChain /\ [Next]_vars
        => EpochChain'
<1> SUFFICES ASSUME TypeOK, Consistency, SessionAccounting, EpochChain, [Next]_vars
             PROVE  EpochChain'
  OBVIOUS
<1>1. ASSUME NEW a \in Accounts, InitializeConfig(a) PROVE EpochChain'
  <2>1. /\ config'.current_epoch = 1
        /\ InitialVerifierSet \in Roots
        /\ tracker'[InitialVerifierSet] = 1
        /\ \A r \in Roots : r # InitialVerifierSet => tracker'[r] = 0
    BY <1>1, NamesAssumption DEF InitializeConfig, Consistency, TypeOK
  <2>2. \A i \in 1..config'.current_epoch : \E r \in Roots : tracker'[r] = i
    <3>1. \A i \in 1..1 : i = 1
      OBVIOUS
    <3> QED
      BY <2>1, <3>1
  <2>3. \A r \in Roots : tracker'[r] \in {0, 1}
    BY <2>1
  <2> QED
    BY <2>1, <2>2, <2>3 DEF EpochChain
<1>2. ASSUME NEW s \in Submissions, NEW a \in Accounts \cup {NoAccount},
             RotateSigners(s, a)
      PROVE  EpochChain'
  BY <1>2, RotateSignersChain
<1>3. ASSUME NEW a \in Accounts, NEW o \in Accounts, TransferOperatorship(a, o)
      PROVE  EpochChain'
  <2>1. config'.current_epoch = config.current_epoch /\ tracker' = tracker
    BY <1>3 DEF TransferOperatorship, TypeOK
  <2> QED
    BY <2>1 DEF EpochChain, QuorumSigned, SigningLeaves, HasQuorum
<1>4. CASE UNCHANGED <<config, tracker>>
  BY <1>4 DEF EpochChain, QuorumSigned, SigningLeaves, HasQuorum
<1> QED
  BY <1>1, <1>2, <1>3, <1>4
  DEF Next, vars, InitializePayloadVerificationSession, VerifySignature,
      ApproveMessage, ValidateMessage, Tick

\* The initial state satisfies the inductive invariant.
LEMMA InitInvariant == Init => IInv
<1> SUFFICES ASSUME Init PROVE IInv
  OBVIOUS
<1>1. TypeOK
  BY BoundsAssumption, NamesAssumption DEF Init, TypeOK, NoSession, NoIncoming
<1>2. Consistency
  BY NamesAssumption DEF Init, Consistency, NoSession, NoIncoming
<1>3. SessionAccounting
  BY DEF Init, SessionAccounting, NoSession
<1>4. EpochChain
  <2>1. 1..0 = {}
    OBVIOUS
  <2> QED
    BY <2>1 DEF Init, EpochChain
<1>5. RotationRate
  BY DEF Init, RotationRate
<1> QED
  BY <1>1, <1>2, <1>3, <1>4, <1>5 DEF IInv

-----------------------------------------------------------------------------
\* Every account keeps holding values of its Rust type, in every behaviour.
THEOREM TypeCorrect == Spec => []TypeOK
<1>1. Init => TypeOK
  BY InitInvariant DEF IInv
<1> QED
  BY <1>1, TypeStep, PTL DEF Spec

\* The inductive invariant: types, consistency of the accounts, exact sessions,
\* the chain of epochs and the rate of rotations, which need one another.
THEOREM Invariance == Spec => []IInv
<1>1. IInv /\ [Next]_vars => IInv'
  BY TypeStep, ConsistencyStep, SessionAccountingStep, EpochChainStep,
     RotationRateStep DEF IInv
<1> QED
  BY <1>1, InitInvariant, PTL DEF Spec

\* Sessions count distinct signers of their own set and are valid exactly when
\* those carry the quorum (process_signature), for all sets, weights and quorums.
THEOREM SessionsAreExact == Spec => []SessionAccounting
<1>1. IInv => SessionAccounting
  BY DEF IInv
<1> QED
  BY <1>1, Invariance, PTL

\* Epochs number the verifier sets one to one, and each set after the first was
\* appointed by a quorum of an unexpired earlier one (rotate_signers).
THEOREM EpochsAreChained == Spec => []EpochChain
<1>1. IInv => EpochChain
  BY DEF IInv
<1> QED
  BY <1>1, Invariance, PTL

\* Without the operator at most one rotation happens per minimum_rotation_delay,
\* and the subtraction of timestamps never underflows (rotate_signers).
THEOREM RotationsAreRateLimited == Spec => []RotationRate
<1>1. IInv => RotationRate
  BY DEF IInv
<1> QED
  BY <1>1, Invariance, PTL

\* No step revives an expired verifier set or touches one of its sessions
\* (assert_valid_epoch in the two session instructions).
LEMMA ExpiryStep ==
    ASSUME IInv, [Next]_vars,
           NEW r \in Roots, tracker[r] > 0, ~LiveVerifierSet(r)
    PROVE  /\ ~LiveVerifierSet(r)'
           /\ \A s \in Submissions : s.verifier_set = r => session'[s] = session[s]
<1> USE DEF IInv
<1>1. config.initialized
  BY DEF Consistency
<1>2. /\ config.current_epoch \in Nat /\ tracker[r] \in Nat
      /\ PreviousVerifierSetRetention \in Nat
  BY BoundsAssumption DEF TypeOK
<1> DEFINE Onward == /\ config'.current_epoch \in Nat
                     /\ config'.current_epoch >= config.current_epoch
                     /\ tracker'[r] = tracker[r]
<1>3. Onward
  <2>1. CASE UNCHANGED <<config, tracker>>
    BY <1>2, <2>1
  <2>2. ASSUME NEW s \in Submissions, NEW a \in Accounts \cup {NoAccount},
               RotateSigners(s, a)
        PROVE  Onward
    <3>1. /\ config' = [config EXCEPT !.last_rotation_timestamp = now,
                            !.current_epoch = config.current_epoch + 1]
          /\ tracker' = [tracker EXCEPT ![s.root] = config.current_epoch + 1]
          /\ tracker[s.root] = 0
      BY <2>2 DEF RotateSigners
    <3> QED
      BY <3>1, <1>2 DEF TypeOK
  <2>3. ASSUME NEW a \in Accounts, NEW o \in Accounts, TransferOperatorship(a, o)
        PROVE  Onward
    BY <1>2, <2>3 DEF TransferOperatorship, TypeOK
  <2> HIDE DEF Onward
  <2> QED
    BY <1>1, <2>1, <2>2, <2>3
    DEF Next, vars, InitializeConfig, InitializePayloadVerificationSession,
        VerifySignature, ApproveMessage, ValidateMessage, Tick
<1>4. ~LiveVerifierSet(r)'
  BY <1>2, <1>3 DEF LiveVerifierSet, AssertValidEpoch, EpochChain
<1>5. ASSUME NEW t \in Submissions, t.verifier_set = r
      PROVE  session'[t] = session[t]
  <2>1. ASSUME NEW s \in Submissions, InitializePayloadVerificationSession(s)
        PROVE  session'[t] = session[t]
    <3>1. t # s
      BY <1>5, <2>1 DEF InitializePayloadVerificationSession
    <3> QED
      BY <2>1, <3>1 DEF InitializePayloadVerificationSession, TypeOK
  <2>2. ASSUME NEW s \in Submissions, NEW l \in VerifierLeaves, VerifySignature(s, l)
        PROVE  session'[t] = session[t]
    <3>1. s.verifier_set = l.verifier_set /\ LiveVerifierSet(l.verifier_set)
      BY <2>2 DEF VerifySignature, SessionAccounting
    <3> QED
      BY <1>5, <2>2, <3>1 DEF VerifySignature, TypeOK
  <2>3. CASE UNCHANGED session
    BY <2>3
  <2> QED
    BY <2>1, <2>2, <2>3
    DEF Next, vars, InitializeConfig, ApproveMessage, ValidateMessage,
        RotateSigners, TransferOperatorship, Tick
<1> QED
  BY <1>4, <1>5

\* A verifier set that has passed its retention never becomes live again and its
\* sessions are frozen, in every behaviour.
THEOREM ExpiryHolds == Spec => ExpiryIsFinal
<1>1. IInv /\ [Next]_vars =>
        [\A r \in Roots : tracker[r] > 0 /\ ~LiveVerifierSet(r) =>
            /\ ~LiveVerifierSet(r)'
            /\ \A s \in Submissions :
                  s.verifier_set = r => session'[s] = session[s]]_vars
  BY ExpiryStep
<1> QED
  BY <1>1, Invariance, PTL DEF Spec, ExpiryIsFinal

-----------------------------------------------------------------------------
\* Every step of the gateway is a step of TrustedDelivery or leaves the trusted
\* sets and the inbox alone.
LEMMA RefinementStep ==
    IInv /\ [Next]_vars => [Abstract!Next]_<<Trusted, incoming>>
<1> SUFFICES ASSUME IInv, [Next]_vars
             PROVE  Abstract!Next \/ UNCHANGED <<Trusted, incoming>>
  OBVIOUS
<1> USE DEF IInv
<1>1. ASSUME NEW a \in Accounts, InitializeConfig(a) PROVE Abstract!Next
  <2>1. Trusted = {} /\ Trusted' = {InitialVerifierSet} /\ incoming' = incoming
    BY <1>1, NamesAssumption DEF InitializeConfig, Trusted, Consistency, TypeOK
  <2> QED
    BY <2>1 DEF Abstract!Next, Abstract!Bootstrap
<1>2. ASSUME NEW s \in Submissions, NEW l \in MessageLeaves, ApproveMessage(s, l)
      PROVE  Abstract!Next
  <2>1. /\ s.verifier_set \in Roots /\ l.message \in Messages
        /\ CommandIdOf[l.message] \in CommandIds
    BY LeavesAssumption, NamesAssumption
  <2>2. s.verifier_set \in Trusted
    BY <1>2, <2>1 DEF ApproveMessage, Consistency, Trusted
  <2>3. Endorses(s.verifier_set, l.message)
    BY <1>2, ValidSessionHasQuorum DEF ApproveMessage, Endorses
  <2>4. incoming[CommandIdOf[l.message]] = Abstract!Empty
    BY <1>2, <2>1 DEF ApproveMessage, Consistency, NoIncoming, Abstract!Empty
  <2>5. Trusted' = Trusted
    BY <1>2 DEF ApproveMessage, Trusted
  <2>6. Abstract!Approve(s.verifier_set, l.message)
    BY <1>2, <2>2, <2>3, <2>4, <2>5 DEF ApproveMessage, Abstract!Approve
  <2> QED
    BY <2>1, <2>6 DEF Abstract!Next
<1>3. ASSUME NEW p \in Programs, NEW m \in Messages, ValidateMessage(p, m)
      PROVE  Abstract!Next
  <2>1. CommandIdOf[m] \in CommandIds
    BY NamesAssumption
  <2>2. Trusted' = Trusted
    BY <1>3 DEF ValidateMessage, Trusted
  <2>3. Abstract!Execute(CommandIdOf[m])
    BY <1>3, <2>2 DEF ValidateMessage, Abstract!Execute
  <2> QED
    BY <2>1, <2>3 DEF Abstract!Next
<1>4. ASSUME NEW s \in Submissions, NEW a \in Accounts \cup {NoAccount},
             RotateSigners(s, a)
      PROVE  Abstract!Next
  <2>1. s.verifier_set \in Roots /\ s.root \in Roots
    BY NamesAssumption
  <2>2. /\ session[s].signing_verifier_set_hash = s.verifier_set
        /\ Appoints(s.verifier_set, s.root)
    BY <1>4, ValidSessionHasQuorum DEF RotateSigners, Appoints
  <2>3. s.verifier_set \in Trusted /\ s.root \notin Trusted
    BY <1>4, <2>1, <2>2 DEF RotateSigners, LiveVerifierSet, Trusted
  <2>4. Trusted' = Trusted \cup {s.root}
    <3>1. tracker' = [tracker EXCEPT ![s.root] = config.current_epoch + 1]
      BY <1>4 DEF RotateSigners
    <3>2. config.current_epoch + 1 > 0
      BY DEF TypeOK
    <3> QED
      BY <2>1, <3>1, <3>2 DEF Trusted, TypeOK
  <2>5. Abstract!Appoint(s.verifier_set, s.root)
    BY <1>4, <2>2, <2>3, <2>4 DEF RotateSigners, Abstract!Appoint
  <2> QED
    BY <2>1, <2>5 DEF Abstract!Next
<1>5. CASE UNCHANGED <<tracker, incoming>>
  BY <1>5 DEF Trusted
<1> QED
  BY <1>1, <1>2, <1>3, <1>4, <1>5
  DEF Next, vars, InitializePayloadVerificationSession, VerifySignature,
      TransferOperatorship, Tick

\* The gateway implements its abstract specification: only appointed sets become
\* trusted, only endorsed messages are approved, each is executed at most once.
THEOREM Refinement == Spec => ImplementsTrustedDelivery
<1>1. Init => Abstract!Init
  BY DEF Init, Abstract!Init, Trusted, NoIncoming, Abstract!Empty
<1>2. IInv /\ [Next]_vars => [Abstract!Next]_(Abstract!vars)
  BY RefinementStep DEF Abstract!vars
<1> QED
  BY <1>1, <1>2, Invariance, PTL DEF Spec, ImplementsTrustedDelivery, Abstract!Spec
=============================================================================
