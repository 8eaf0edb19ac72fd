------------------------------ MODULE Gmp_proofs ------------------------------
(***************************************************************************)
(* Theorems about Gmp: what a delivered message does, it does once and as  *)
(* signed, for every set of messages, programs' accounts and relayers.     *)
(***************************************************************************)
EXTENDS Gmp, FiniteSetTheorems, SequenceTheorems, TLAPS

Entries == [status : {"none", "approved", "executed"}, message : Messages \cup {NoMessage}]

\* Types, as far as the proofs need them; before init the counter is zero.
TypeInv ==
    /\ inbox \in [CommandIds -> Entries]
    /\ counter \in [open : BOOLEAN, counter : Nat]
    /\ ~counter.open => counter.counter = 0
    /\ DOMAIN credited = Messages

\* Messages whose content a destination program must refuse are never executed.
OnlyAcceptable == \A m \in Messages : Executed(m) => WellFormed(m)

\* Where the tokens of m are received, and the accounts its signed data names.
Owner(m) ==
    IF m.payload_hash.destination_address \in Programs
    THEN TokenAuthority(m.payload_hash.destination_address)
    ELSE m.payload_hash.destination_address

Named(m) ==
    UNION {{d.accounts[i].pubkey : i \in 2..Len(d.accounts)} : d \in m.payload_hash.data}

\* Delivering m is marking it as executed and what its content asks for.
Delivers(m) ==
    /\ m \in Messages
    /\ Approved(m)
    /\ inbox' = [inbox EXCEPT ![CommandIdOf[m]].status = "executed"]

\* The memo program counts a memo.
CountsMemo ==
    /\ counter.open
    /\ counter' = [counter EXCEPT !.counter = counter.counter + 1]

\* The memo program is called directly.
DeliversMemo(m) ==
    /\ Delivers(m)
    /\ m.destination = Memo
    /\ WellFormed(m)
    /\ CountsMemo
    /\ UNCHANGED <<outbox, credited>>

\* The token service is called and moves the tokens from the owner that is signed to
\* the account that is signed.
DeliversTokens(m) ==
    /\ Delivers(m)
    /\ m.destination = ITS
    /\ WellFormed(m)
    /\ IF BringsMemo(m) THEN CountsMemo ELSE UNCHANGED counter
    /\ \E holder \in {Owner(m)} \cup Named(m) :
          credited' = [credited EXCEPT ![m] = credited[m] \cup {<<Owner(m), holder>>}]
    /\ UNCHANGED outbox

\* Steps that deliver nothing execute nothing; init of the memo program opens the
\* counter.
Quiet ==
    /\ \A m \in Messages : Executed(m)' <=> Executed(m)
    /\ inbox' \in [CommandIds -> Entries]
    /\ UNCHANGED credited
    /\ \/ UNCHANGED counter
       \/ ~counter.open /\ counter' = [open |-> TRUE, counter |-> 0]

\* Executing m changes what is executed by m.
LEMMA ExecutedAfter ==
    ASSUME TypeInv, NEW m \in Messages, Delivers(m), NEW n \in Messages
    PROVE  /\ Executed(n)' <=> Executed(n) \/ n = m
           /\ ~Executed(m)
  <1>1. /\ CommandIdOf[m] \in CommandIds /\ CommandIdOf[n] \in CommandIds
        /\ inbox[CommandIdOf[m]] = [status |-> "approved", message |-> m]
        /\ DOMAIN inbox = CommandIds
    BY GmpMessages DEF Delivers, Approved, TypeInv
  <1>2. inbox'[CommandIdOf[m]] = [status |-> "executed", message |-> m]
    BY <1>1 DEF Delivers
  <1>3. CommandIdOf[n] # CommandIdOf[m] => inbox'[CommandIdOf[n]] = inbox[CommandIdOf[n]]
    BY <1>1 DEF Delivers
  <1>4. ~Executed(m)
    BY <1>1 DEF Executed
  <1>5. CASE CommandIdOf[n] # CommandIdOf[m]
    BY <1>3, <1>4, <1>5 DEF Executed
  <1>6. CASE CommandIdOf[n] = CommandIdOf[m]
    <2>1. ~Executed(n)
      BY <1>1, <1>6 DEF Executed
    <2>2. Executed(n)' <=> n = m
      BY <1>2, <1>6 DEF Executed
    <2> QED
      BY <1>4, <2>1, <2>2
  <1> QED
    BY <1>4, <1>5, <1>6

\* Approving a message executes none.
LEMMA ApproveIsQuiet ==
    ASSUME TypeInv, ApproveMessage
    PROVE  Quiet
  <1>1. CASE Gateway!Bootstrap
    BY <1>1 DEF Gateway!Bootstrap, ApproveMessage, Quiet, Executed, TypeInv
  <1>2. ASSUME NEW m \in Messages, Gateway!Approve(VerifierSet, m)
        PROVE  Quiet
    <2>1. /\ CommandIdOf[m] \in CommandIds
          /\ inbox[CommandIdOf[m]].status = "none"
          /\ inbox' = [inbox EXCEPT ![CommandIdOf[m]] = [status |-> "approved", message |-> m]]
      BY <1>2, GmpMessages DEF Gateway!Approve, Gateway!Empty
    <2>2. inbox' \in [CommandIds -> Entries]
      BY <2>1 DEF TypeInv, Entries
    <2>3. ASSUME NEW n \in Messages PROVE Executed(n)' <=> Executed(n)
      BY <2>1, GmpMessages DEF Executed, TypeInv
    <2> QED
      BY <2>2, <2>3 DEF Quiet, ApproveMessage
  <1> QED
    BY <1>1, <1>2 DEF ApproveMessage

\* What validate_message_raw establishes.
LEMMA ValidateEffect ==
    ASSUME NEW program, NEW m \in Messages, NEW payload, ValidateMessageRaw(program, m, payload)
    PROVE  Delivers(m) /\ m.destination = program /\ m.payload_hash = payload
  BY DEF ValidateMessageRaw, Delivers, Gateway!Execute

\* execute of the memo program, whatever the relayer supplies.
LEMMA MemoStep ==
    ASSUME NEW m \in Messages, NEW text \in Texts, NEW scheme \in Schemes, NEW metas,
           MemoExecute(m, text, scheme, metas)
    PROVE  DeliversMemo(m)
  <1> DEFINE own == <<Meta(CounterPda, FALSE, TRUE)>>
  <1>1. /\ Delivers(m) /\ m.destination = Memo
        /\ m.payload_hash = [scheme |-> scheme, payload |-> text, accounts |-> own]
    BY ValidateEffect DEF MemoExecute, RebuildPayload
  <1>2. text \in Utf8 /\ CountsMemo /\ UNCHANGED <<outbox, credited>>
    BY DEF MemoExecute, ReceiveMemo, CountsMemo
  <1>3. /\ m.payload_hash.scheme = scheme /\ m.payload_hash.payload = text
        /\ m.payload_hash.accounts = own
    <2> HIDE DEF own
    <2> QED
      BY <1>1
  <1>4. ~IsHub(m)
    <2>1. DOMAIN m.payload_hash = {"scheme", "payload", "accounts"}
      BY <1>1
    <2> QED
      BY <2>1 DEF IsHub
  <1>5. WellFormed(m)
    BY <1>1, <1>2, <1>3, <1>4 DEF WellFormed
  <1> QED
    BY <1>1, <1>2, <1>5 DEF DeliversMemo

\* execute of the token service, whatever the relayer supplies.
LEMMA TokenStep ==
    ASSUME NEW m \in Messages, NEW payload \in HubPayloads, NEW authority, NEW has_execute_pda,
           NEW metas \in MetaLists, ItsExecute(m, payload, authority, has_execute_pda, metas)
    PROVE  DeliversTokens(m)
  <1>1. Delivers(m) /\ m.destination = ITS /\ m.payload_hash = payload
    BY ValidateEffect DEF ItsExecute
  <1>2. /\ m.source_address = HubAddress /\ payload.hub = "ReceiveFromHub"
        /\ payload.chain \in TrustedChains /\ payload.amount # 0
        /\ CheckDestinationAuthority(payload.destination_address, authority)
        /\ InvokeDestinationProgram(payload, has_execute_pda, metas)
        /\ credited' = [credited EXCEPT ![m] =
                           @ \cup {<<authority, FinalHolder(payload, authority, metas)>>}]
        /\ UNCHANGED outbox
    BY DEF ItsExecute
  <1>3. IsHub(m) /\ authority = Owner(m)
    BY <1>1, <1>2, GmpMessages DEF IsHub, Owner, CheckDestinationAuthority
  <1>4. Len(metas) \in Nat /\ DOMAIN metas = 1..Len(metas)
    BY GmpMessages
  <1> DEFINE to == payload.destination_address
             holder == FinalHolder(payload, authority, metas)
             Good == /\ WellFormed(m)
                     /\ IF BringsMemo(m) THEN CountsMemo ELSE UNCHANGED counter
                     /\ holder \in {Owner(m)} \cup Named(m)
  <1>5. ASSUME payload.data = {}, UNCHANGED counter PROVE Good
    <2>1. WellFormed(m)
      BY <1>1, <1>2, <1>3, <1>5 DEF WellFormed
    <2>2. ~BringsMemo(m)
      BY <1>1, <1>5, GmpNames DEF BringsMemo
    <2>3. holder = Owner(m)
      BY <1>3, <1>5 DEF FinalHolder
    <2> QED
      BY <1>5, <2>1, <2>2, <2>3
  <1>6. ASSUME NEW data \in payload.data, data.scheme \in Schemes, metas = data.accounts,
               to = Memo,
               MemoExecuteWithInterchainToken(InterchainTransferExecute(Memo),
                  TokenAuthority(Memo), data.payload, metas)
        PROVE  Good
    <2>1. \A d \in payload.data : d = data
      BY GmpMessages
    <2>2. /\ metas # <<>> /\ metas[1].pubkey = CounterPda /\ metas[1].is_writable
          /\ Len(metas) >= 2 => metas[2].is_writable
          /\ data.payload \in Utf8 /\ CountsMemo
      BY <1>6 DEF MemoExecuteWithInterchainToken, ReceiveMemo, CountsMemo
    <2>3. ASSUME NEW i \in DOMAIN metas, i <= 2 PROVE metas[i].is_writable
      BY <1>4, <2>2, <2>3
    <2>4. WellFormed(m)
      BY <1>1, <1>2, <1>3, <1>6, <2>1, <2>2, <2>3 DEF WellFormed
    <2>5. BringsMemo(m)
      BY <1>1, <1>3, <1>6 DEF BringsMemo
    <2>6. holder = ForwardTo(metas)
      BY <1>6 DEF FinalHolder
    <2>7. CASE Len(metas) >= 2
      <3>1. holder = data.accounts[2].pubkey /\ 2 \in 2..Len(data.accounts)
        BY <1>4, <1>6, <2>6, <2>7 DEF ForwardTo
      <3>2. holder \in Named(m)
        BY <1>1, <3>1 DEF Named
      <3> QED
        BY <2>2, <2>4, <2>5, <3>2
    <2>8. CASE ~(Len(metas) >= 2)
      <3>1. holder = Owner(m)
        BY <1>1, <1>6, <2>6, <2>8 DEF ForwardTo, Owner, Programs
      <3> QED
        BY <2>2, <2>4, <2>5, <3>1
    <2> QED
      BY <2>7, <2>8
  <1>7. ASSUME NEW data \in payload.data, data.scheme \in Schemes, to = App, UNCHANGED counter
        PROVE  Good
    <2>1. \A d \in payload.data : d = data
      BY GmpMessages
    <2>2. WellFormed(m)
      BY <1>1, <1>2, <1>3, <1>7, <2>1, GmpNames DEF WellFormed
    <2>3. ~BringsMemo(m)
      BY <1>1, <1>7, GmpNames DEF BringsMemo
    <2>4. holder = Owner(m)
      BY <1>3, <1>7, GmpNames DEF FinalHolder
    <2> QED
      BY <1>7, <2>2, <2>3, <2>4
  <1>8. Good
    <2> HIDE DEF Good, holder
    <2> QED
      BY <1>2, <1>5, <1>6, <1>7 DEF InvokeDestinationProgram, AccountsMatch
  <1> QED
    BY <1>1, <1>2, <1>3, <1>8 DEF DeliversTokens

\* The steps the invariants tell apart.
LEMMA StepKinds ==
    ASSUME TypeInv, [Next]_vars
    PROVE  \/ \E m \in Messages : DeliversMemo(m) \/ DeliversTokens(m)
           \/ Quiet
  <1>1. ASSUME UNCHANGED <<inbox, credited>>,
               \/ UNCHANGED counter
               \/ ~counter.open /\ counter' = [open |-> TRUE, counter |-> 0]
        PROVE  Quiet
    BY <1>1 DEF Quiet, Executed, TypeInv
  <1>2. InitMemo \/ (\E p \in BOOLEAN : SetPauseStatus(p)) \/ UNCHANGED vars => Quiet
    BY <1>1 DEF InitMemo, SetPauseStatus, vars
  <1>3. Send => Quiet
    <2> DEFINE Same == UNCHANGED inbox /\ UNCHANGED credited /\ UNCHANGED counter
    <2>1. \A w, via, caller, pda : UseCallContract(w, via, caller, pda) => Same
      BY DEF UseCallContract
    <2>2. /\ \A w, text : SendMemo(w, text) => Same
          /\ \A w, gas_value : RegisterTokenMetadata(w, gas_value) => Same
      BY DEF SendMemo, RegisterTokenMetadata
    <2>3. \A w, via, authority, program_id, seed_option, chain, address, amount, gas_value :
             InterchainTransfer(w, via, authority, program_id, seed_option,
                                chain, address, amount, gas_value) => Same
      BY DEF InterchainTransfer
    <2> HIDE DEF Same
    <2>4. Send => Same
      BY <2>1, <2>2, <2>3 DEF Send
    <2> QED
      BY <1>1, <2>4 DEF Same
  <1>4. ASSUME NEW m \in Messages, Deliver(m) PROVE DeliversMemo(m) \/ DeliversTokens(m)
    BY <1>4, MemoStep, TokenStep DEF Deliver
  <1> QED
    BY <1>2, <1>3, <1>4, ApproveIsQuiet DEF Next

\* The types are kept.
LEMMA TypeStep == TypeInv /\ [Next]_vars => TypeInv'
  <1> SUFFICES ASSUME TypeInv, [Next]_vars PROVE TypeInv'
    OBVIOUS
  <1>1. ASSUME NEW m \in Messages, Delivers(m) PROVE inbox' \in [CommandIds -> Entries]
    BY <1>1, GmpMessages, ZenonT(60) DEF Delivers, TypeInv, Entries
  <1>2. ASSUME CountsMemo \/ UNCHANGED counter
        PROVE  /\ counter' \in [open : BOOLEAN, counter : Nat]
               /\ ~counter'.open => counter'.counter = 0
    BY <1>2 DEF CountsMemo, TypeInv
  <1>3. ASSUME NEW m \in Messages, DeliversMemo(m) PROVE TypeInv'
    BY <1>1, <1>2, <1>3 DEF DeliversMemo, TypeInv
  <1>4. ASSUME NEW m \in Messages, DeliversTokens(m) PROVE TypeInv'
    <2>1. DOMAIN credited' = DOMAIN credited
      BY <1>4 DEF DeliversTokens
    <2> QED
      BY <1>1, <1>2, <1>4, <2>1 DEF DeliversTokens, TypeInv
  <1>5. ASSUME Quiet PROVE TypeInv'
    <2>1. ASSUME ~counter.open, counter' = [open |-> TRUE, counter |-> 0]
          PROVE  /\ counter' \in [open : BOOLEAN, counter : Nat]
                 /\ ~counter'.open => counter'.counter = 0
      BY <2>1
    <2> QED
      BY <1>2, <1>5, <2>1 DEF Quiet, TypeInv
  <1> QED
    BY <1>3, <1>4, <1>5, StepKinds

\* Nothing unacceptable is executed.
LEMMA AcceptableStep == TypeInv /\ OnlyAcceptable /\ [Next]_vars => OnlyAcceptable'
  <1> SUFFICES ASSUME TypeInv, OnlyAcceptable, [Next]_vars, NEW n \in Messages, Executed(n)'
               PROVE  WellFormed(n)
    BY DEF OnlyAcceptable, WellFormed, IsHub
  <1>1. ASSUME NEW m \in Messages, Delivers(m), WellFormed(m) PROVE WellFormed(n)
    BY <1>1, ExecutedAfter DEF OnlyAcceptable
  <1>2. ASSUME Quiet PROVE WellFormed(n)
    BY <1>2 DEF Quiet, OnlyAcceptable
  <1> QED
    BY <1>1, <1>2, StepKinds DEF DeliversMemo, DeliversTokens

-----------------------------------------------------------------------------
\* The messages that were executed and brought a memo.
Memos == {m \in Messages : Executed(m) /\ BringsMemo(m)}

\* A delivery adds its message to the memos, if it brings one.
LEMMA MemosAfter ==
    ASSUME TypeInv, NEW m \in Messages, Delivers(m)
    PROVE  /\ BringsMemo(m) => Memos' = Memos \cup {m} /\ m \notin Memos
           /\ ~BringsMemo(m) => Memos' = Memos
  <1>1. \A n \in Messages : BringsMemo(n)' <=> BringsMemo(n)
    BY DEF BringsMemo, IsHub
  <1>2. \A n \in Messages : Executed(n)' <=> Executed(n) \/ n = m
    BY ExecutedAfter
  <1>3. ~Executed(m)
    BY ExecutedAfter
  <1> QED
    BY <1>1, <1>2, <1>3 DEF Memos

\* Each memo is counted when its message is marked, and only then.
LEMMA MemosStep == TypeInv /\ MemosCountedOnce /\ [Next]_vars => MemosCountedOnce'
  <1> SUFFICES ASSUME TypeInv, counter.counter = Cardinality(Memos), [Next]_vars
               PROVE  counter'.counter = Cardinality(Memos')
    BY DEF MemosCountedOnce, Memos
  <1>1. IsFiniteSet(Memos)
    BY GmpMessages, FS_Subset DEF Memos
  <1>2. ASSUME NEW m \in Messages, Delivers(m),
               IF BringsMemo(m) THEN CountsMemo ELSE UNCHANGED counter
        PROVE  counter'.counter = Cardinality(Memos')
    <2>1. CASE BringsMemo(m)
      <3>1. Memos' = Memos \cup {m} /\ m \notin Memos
        BY <1>2, <2>1, MemosAfter
      <3>2. Cardinality(Memos') = Cardinality(Memos) + 1
        BY <1>1, <3>1, FS_AddElement
      <3>3. counter'.counter = counter.counter + 1
        BY <1>2, <2>1 DEF CountsMemo, TypeInv
      <3> QED
        BY <3>2, <3>3
    <2>2. CASE ~BringsMemo(m)
      BY <1>2, <2>2, MemosAfter
    <2> QED
      BY <2>1, <2>2
  <1>3. ASSUME NEW m \in Messages, DeliversMemo(m)
        PROVE  counter'.counter = Cardinality(Memos')
    BY <1>2, <1>3 DEF DeliversMemo, BringsMemo
  <1>4. ASSUME Quiet PROVE counter'.counter = Cardinality(Memos')
    <2>1. Memos' = Memos
      BY <1>4 DEF Quiet, Memos, BringsMemo, IsHub
    <2>2. counter'.counter = counter.counter
      BY <1>4 DEF Quiet, TypeInv
    <2> QED
      BY <2>1, <2>2
  <1> QED
    BY <1>2, <1>3, <1>4, StepKinds DEF DeliversTokens

\* A transfer of the token service is credited when its message is marked, to the
\* owner and the account that were signed.
LEMMA TokensStep == TypeInv /\ TokensGoWhereSigned /\ [Next]_vars => TokensGoWhereSigned'
  <1> DEFINE Credit(n, c) == /\ Cardinality(c) = 1
                             /\ \A x \in c : x[1] = Owner(n) /\ x[2] \in {Owner(n)} \cup Named(n)
  <1>1. TokensGoWhereSigned <=>
          \A n \in Messages : IF n.destination = ITS /\ Executed(n)
                              THEN Credit(n, credited[n]) ELSE credited[n] = {}
    BY DEF TokensGoWhereSigned, Owner, Named, Nowhere
  <1>2. TokensGoWhereSigned' <=>
          \A n \in Messages : IF n.destination = ITS /\ Executed(n)'
                              THEN Credit(n, credited'[n]) ELSE credited'[n] = {}
    BY DEF TokensGoWhereSigned, Owner, Named, Nowhere
  <1> SUFFICES ASSUME TypeInv, TokensGoWhereSigned, [Next]_vars
               PROVE  TokensGoWhereSigned'
    OBVIOUS
  <1>3. ASSUME NEW m \in Messages, DeliversMemo(m) PROVE TokensGoWhereSigned'
    <2>1. Delivers(m) /\ m.destination # ITS /\ credited' = credited
      BY <1>3, GmpNames DEF DeliversMemo
    <2>2. \A n \in Messages : Executed(n)' <=> Executed(n) \/ n = m
      BY <2>1, ExecutedAfter
    <2> HIDE DEF Credit
    <2> QED
      BY <1>1, <1>2, <2>1, <2>2
  <1>4. ASSUME NEW m \in Messages, DeliversTokens(m) PROVE TokensGoWhereSigned'
    <2>1. Delivers(m) /\ m.destination = ITS
      BY <1>4 DEF DeliversTokens
    <2>2. /\ \A n \in Messages : Executed(n)' <=> Executed(n) \/ n = m
          /\ ~Executed(m)
      BY <2>1, ExecutedAfter
    <2>3. PICK holder \in {Owner(m)} \cup Named(m) :
             credited' = [credited EXCEPT ![m] = credited[m] \cup {<<Owner(m), holder>>}]
      BY <1>4 DEF DeliversTokens
    <2>4. credited[m] = {}
      BY <1>1, <2>2
    <2>5. /\ credited'[m] = {<<Owner(m), holder>>}
          /\ \A n \in Messages \ {m} : credited'[n] = credited[n]
      BY <2>3, <2>4 DEF TypeInv
    <2>6. Credit(m, credited'[m])
      <3>1. Cardinality(credited'[m]) = 1
        BY <2>5, FS_Singleton
      <3>2. ASSUME NEW x \in credited'[m]
            PROVE  x[1] = Owner(m) /\ x[2] \in {Owner(m)} \cup Named(m)
        BY <2>3, <2>5, <3>2
      <3> QED
        BY <3>1, <3>2
    <2> HIDE DEF Credit
    <2> QED
      BY <1>1, <1>2, <2>1, <2>2, <2>5, <2>6
  <1>5. ASSUME Quiet PROVE TokensGoWhereSigned'
    <2> HIDE DEF Credit
    <2> QED
      BY <1>1, <1>2, <1>5 DEF Quiet
  <1> QED
    BY <1>3, <1>4, <1>5, StepKinds

-----------------------------------------------------------------------------
\* The sender that a CallContractEvent names signed or made the call, and so did the
\* source of a transfer.
Authentic(e) ==
    /\ e.sender = e.called_by \/ Signs(e.sender, e.signed_by, e.called_by)
    /\ "source" \in DOMAIN e.payload =>
         e.payload.source = e.asked_by \/ Signs(e.payload.source, e.signed_by, e.asked_by)

\* What programs send.
Sent ==
    {[text |-> t] : t \in Utf8 \cup {"call"}} \cup {[metadata |-> "decimals"]}
        \cup [source : Wallets \cup Pdas \cup {App, Memo}, chain : Chains,
              destination_address : Addresses, amount : Amounts]

\* Authentic events.
Events ==
    {e \in [sender : Wallets \cup Programs \cup {AppPda}, signed_by : Wallets,
            called_by : Programs \cup {NoProgram}, asked_by : Programs \cup {NoProgram},
            payload : Sent] : Authentic(e)}

\* The outbox holds authentic events only: an append needs to know that it is a
\* sequence.
OutboxInv == outbox \in Seq(Events)

\* A message that leaves under its own name, or under that of the program whose PDA
\* signs.
LEMMA CallIsAuthentic ==
    ASSUME NEW w \in Wallets, NEW via, NEW caller, NEW pda \in Pdas, MayCall(w, via, caller, pda)
    PROVE  caller = via \/ Signs(caller, w, via)
  <1>1. CASE Signs(caller, w, via)
    BY <1>1
  <1>2. CASE pda = CallContractSigner(caller) /\ Signs(pda, w, via)
    <2>1. pda # w
      BY GmpNames
    <2>2. pda.program = via
      BY <1>2, <2>1 DEF Signs
    <2>3. pda.program = caller
      BY <1>2 DEF CallContractSigner, FindPda
    <2> QED
      BY <2>2, <2>3
  <1> QED
    BY <1>1, <1>2 DEF MayCall

\* The source of a transfer is the signing authority or the program that signs for it.
LEMMA SourceIsAuthentic ==
    ASSUME NEW w \in Wallets, NEW via \in {NoProgram, App}, NEW authority \in Wallets \cup Pdas,
           NEW program_id \in {NoProgram, App, Memo}, NEW seed_option \in SeedOptions,
           Signs(authority, w, via), NEW source \in SourceAddress(authority, program_id, seed_option)
    PROVE  /\ source \in Wallets \cup Pdas \cup {App, Memo}
           /\ source = via \/ Signs(source, w, via)
  <1>1. CASE program_id = NoProgram
    BY <1>1 DEF SourceAddress
  <1>2. CASE program_id # NoProgram
    <2>1. PICK seeds \in SeedLists : source = program_id /\ FindPda(source, seeds) = authority
      BY <1>2 DEF SourceAddress, SeedOptions
    <2>2. source \in {App, Memo} /\ authority \notin Wallets
      BY <1>2, <2>1, GmpNames DEF Programs
    <2>3. authority.program = via
      BY <2>2 DEF Signs
    <2>4. authority.program = source
      BY <2>1 DEF FindPda
    <2> QED
      BY <2>2, <2>3, <2>4
  <1> QED
    BY <1>1, <1>2

\* Every operation that sends appends an authentic event.
LEMMA OutboxStep == OutboxInv /\ [Next]_vars => OutboxInv'
  <1> SUFFICES ASSUME OutboxInv, [Next]_vars PROVE OutboxInv'
    OBVIOUS
  <1>1. ASSUME NEW e \in Events, outbox' = Append(outbox, e) PROVE OutboxInv'
    BY <1>1, AppendProperties DEF OutboxInv
  <1>2. ASSUME NEW w \in Wallets, NEW caller \in Wallets \cup Programs \cup {AppPda},
               NEW via \in Programs \cup {NoProgram}, NEW source \in Programs \cup {NoProgram},
               NEW payload \in Sent, caller = via \/ Signs(caller, w, via),
               "source" \in DOMAIN payload =>
                  payload.source = source \/ Signs(payload.source, w, source)
        PROVE  [sender |-> caller, signed_by |-> w, called_by |-> via,
                asked_by |-> source, payload |-> payload] \in Events
    BY <1>2 DEF Events, Authentic
  <1>3. ASSUME NEW t \in Utf8 \cup {"call"}
        PROVE  [text |-> t] \in Sent /\ "source" \notin DOMAIN [text |-> t]
    BY DEF Sent
  <1>4. ASSUME NEW w \in Wallets, NEW via \in {NoProgram, App},
               NEW caller \in Wallets \cup {App, Memo, AppPda}, NEW pda \in Pdas,
               UseCallContract(w, via, caller, pda)
        PROVE  OutboxInv'
    <2>1. caller = via \/ Signs(caller, w, via)
      BY <1>4, CallIsAuthentic DEF UseCallContract, CallContract
    <2>2. [text |-> "call"] \in Sent /\ "source" \notin DOMAIN [text |-> "call"]
      BY <1>3
    <2>3. [sender |-> caller, signed_by |-> w, called_by |-> via,
           asked_by |-> via, payload |-> [text |-> "call"]] \in Events
      BY <1>2, <2>1, <2>2 DEF Programs
    <2> QED
      BY <1>1, <1>4, <2>3 DEF UseCallContract, CallContract
  <1>5. ASSUME NEW w \in Wallets, NEW text \in Utf8, SendMemo(w, text) PROVE OutboxInv'
    <2>1. [text |-> text] \in Sent /\ "source" \notin DOMAIN [text |-> text]
      BY <1>3
    <2>2. [sender |-> Memo, signed_by |-> w, called_by |-> Memo,
           asked_by |-> NoProgram, payload |-> [text |-> text]] \in Events
      BY <1>2, <2>1 DEF Programs
    <2> QED
      BY <1>1, <1>5, <2>2 DEF SendMemo, CallContract
  <1>6. ASSUME NEW w \in Wallets, NEW gas_value \in GasValues, RegisterTokenMetadata(w, gas_value)
        PROVE  OutboxInv'
    <2>1. [metadata |-> "decimals"] \in Sent /\ "source" \notin DOMAIN [metadata |-> "decimals"]
      BY DEF Sent
    <2>2. [sender |-> ITS, signed_by |-> w, called_by |-> ITS,
           asked_by |-> NoProgram, payload |-> [metadata |-> "decimals"]] \in Events
      BY <1>2, <2>1 DEF Programs
    <2> QED
      BY <1>1, <1>6, <2>2 DEF RegisterTokenMetadata, SendToHub, CallContract
  <1>7. ASSUME NEW w \in Wallets, NEW via \in {NoProgram, App}, NEW authority \in Wallets \cup Pdas,
               NEW program_id \in {NoProgram, App, Memo}, NEW seed_option \in SeedOptions,
               NEW chain \in Chains, NEW address \in Addresses,
               NEW amount \in Amounts, NEW gas_value \in GasValues,
               InterchainTransfer(w, via, authority, program_id, seed_option,
                                  chain, address, amount, gas_value)
        PROVE  OutboxInv'
    <2> DEFINE Payload(source) == [source |-> source, chain |-> chain,
                                   destination_address |-> address, amount |-> amount]
    <2>1. PICK source \in SourceAddress(authority, program_id, seed_option) :
             SendToHub(w, via, Payload(source), gas_value)
      BY <1>7 DEF InterchainTransfer
    <2>2. /\ source \in Wallets \cup Pdas \cup {App, Memo}
          /\ source = via \/ Signs(source, w, via)
      BY <1>7, SourceIsAuthentic DEF InterchainTransfer
    <2> DEFINE payload == Payload(source)
    <2>3. payload \in Sent /\ payload.source = source
      BY <2>2 DEF Sent
    <2> HIDE DEF payload
    <2>4. [sender |-> ITS, signed_by |-> w, called_by |-> ITS,
           asked_by |-> via, payload |-> payload] \in Events
      BY <1>2, <2>2, <2>3 DEF Programs
    <2> QED
      BY <1>1, <2>1, <2>4 DEF SendToHub, CallContract, payload
  <1>8. ASSUME Send PROVE OutboxInv'
    BY <1>4, <1>5, <1>6, <1>7, <1>8 DEF Send
  <1>9. ASSUME UNCHANGED outbox PROVE OutboxInv'
    BY <1>9 DEF OutboxInv
  <1>10. ASSUME NEW m \in Messages, Deliver(m) PROVE UNCHANGED outbox
    BY <1>10 DEF Deliver, MemoExecute, ItsExecute
  <1> QED
    BY <1>8, <1>9, <1>10 DEF Next, ApproveMessage, InitMemo, SetPauseStatus, vars

-----------------------------------------------------------------------------
\* What all states satisfy.
IInv ==
    /\ TypeInv
    /\ OnlyAcceptable
    /\ MemosCountedOnce
    /\ TokensGoWhereSigned
    /\ OutboxInv

\* The empty gateway with a memo program that is not initialised.
LEMMA InitHolds == Init => IInv
  <1> SUFFICES ASSUME Init PROVE IInv
    OBVIOUS
  <1>1. inbox = [c \in CommandIds |-> [status |-> "none", message |-> NoMessage]]
    BY DEF Init, Gateway!Init, Gateway!Empty
  <1>2. TypeInv
    <2>1. inbox \in [CommandIds -> Entries]
      BY <1>1 DEF Entries
    <2>2. DOMAIN credited = Messages
      BY DEF Init
    <2>3. /\ counter \in [open : BOOLEAN, counter : Nat]
          /\ ~counter.open => counter.counter = 0
      BY DEF Init
    <2> QED
      BY <2>1, <2>2, <2>3 DEF TypeInv
  <1>3. ASSUME NEW m \in Messages PROVE ~Executed(m)
    BY <1>1, GmpMessages DEF Executed
  <1>4. OnlyAcceptable
    BY <1>3 DEF OnlyAcceptable
  <1>5. MemosCountedOnce
    <2>1. {m \in Messages : Executed(m) /\ BringsMemo(m)} = {}
      BY <1>3
    <2>2. counter.counter = 0
      BY DEF Init
    <2> QED
      BY <2>1, <2>2, FS_EmptySet DEF MemosCountedOnce
  <1>6. TokensGoWhereSigned
    BY <1>3 DEF TokensGoWhereSigned, Init
  <1>7. OutboxInv
    BY DEF OutboxInv, Init
  <1> QED
    BY <1>2, <1>4, <1>5, <1>6, <1>7 DEF IInv

\* All states of Gmp satisfy the invariant.
THEOREM GmpInvariant == Spec => []IInv
  <1>1. IInv /\ [Next]_vars => IInv'
    BY TypeStep, AcceptableStep, MemosStep, TokensStep, OutboxStep DEF IInv
  <1> QED
    BY <1>1, InitHolds, PTL DEF Spec

\* The memo counter is the number of executed messages that bring a memo
\* (ReceiveMemo), however relayers interleave, repeat and vary their transactions.
THEOREM MemosHold == Spec => []MemosCountedOnce
  <1>1. IInv => MemosCountedOnce
    BY DEF IInv
  <1> QED
    BY <1>1, GmpInvariant, PTL

\* A transfer is credited once, when its message is executed, to the owner and the
\* account of the signed payload (check_destination_authority, AccountsMatch).
THEOREM TokensHold == Spec => []TokensGoWhereSigned
  <1>1. IInv => TokensGoWhereSigned
    BY DEF IInv
  <1> QED
    BY <1>1, GmpInvariant, PTL

\* The senders and sources that leave are those that signed or called (call_contract,
\* interchain_transfer).
THEOREM SendersHold == Spec => []SendersAreAuthentic
  <1>1. IInv => SendersAreAuthentic
    <2> SUFFICES ASSUME OutboxInv, NEW i \in DOMAIN outbox PROVE Authentic(outbox[i])
      BY DEF SendersAreAuthentic, Authentic, IInv
    <2>1. outbox[i] \in Events
      BY ElementOfSeq DEF OutboxInv
    <2> QED
      BY <2>1 DEF Events
  <1> QED
    BY <1>1, GmpInvariant, PTL

\* A message is executed only if its destination accepts its content, whatever the
\* relayer adds: AcceptableMessagesArrive says that the others do arrive.
THEOREM OthersNeverExecuted == Spec => []OnlyAcceptable
  <1>1. IInv => OnlyAcceptable
    BY DEF IInv
  <1> QED
    BY <1>1, GmpInvariant, PTL
=============================================================================
