------------------------------ MODULE MCPayload ------------------------------
(* Small widths: bytes 0..4, lengths and words of two bytes.  Every string   *)
(* of up to nine bytes over these arrives: long enough for one Borsh         *)
(* account, one Borsh payload byte, and an ABI payload without accounts,     *)
(* with lengths, flags and offsets that are right, too small and too large.  *)
EXTENDS Payload

SomeBytes == {0, 1, 3, 4}
Strings(n) == UNION {[1..k -> SomeBytes] : k \in 0..n}

AccountsOf(keys) ==
    [pubkey : keys, is_signer : BOOLEAN, is_writable : BOOLEAN]

SomeAccounts == AccountsOf({<<0, 1>>, <<4, 4>>})

\* One byte more than a length of two bytes can say.
TooLong == [i \in 1..25 |-> 0]

MCComposed ==
    [scheme : Schemes, payload : Strings(3),
     accounts : UNION {[1..k -> SomeAccounts] : k \in 0..2}]
        \cup {[scheme |-> "Borsh", payload |-> TooLong, accounts |-> <<>>]}

\* One account with any flags under Borsh, which fits in what arrives, and ABI without.
MCPresented ==
    [scheme : {"Borsh"}, payload : {<<>>, <<1>>}, accounts : {<<a>> : a \in AccountsOf({<<4, 4>>})}]
        \cup {[scheme |-> "AbiEncoding", payload |-> <<>>, accounts |-> <<>>]}

MCArriving == Strings(9)
=============================================================================
