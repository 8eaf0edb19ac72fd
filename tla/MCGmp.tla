------------------------------- MODULE MCGmp -------------------------------
(* Instances of Gmp: memos with the right and the wrong accounts and text,  *)
(* transfers to a wallet, to the counter account, to programs with and      *)
(* without data, several of them for one command id.                        *)
EXTENDS Gmp, TLC

CONSTANTS memo, its, app, nobody, w1, w2, hub, stranger, vault, c1, c2, c3, hi, bad, ethereum, elsewhere

CounterMeta == Meta(CounterPda, FALSE, TRUE)
Frozen == Meta(CounterPda, FALSE, FALSE)
PayTo(w) == <<CounterMeta, Meta(w, FALSE, TRUE)>>

Data(text, accounts) == [scheme |-> "Borsh", payload |-> text, accounts |-> accounts]

FromHub(chain, to, amount, data) ==
    [hub |-> "ReceiveFromHub", chain |-> chain, destination_address |-> to,
     amount |-> amount, data |-> data]

Msg(id, to, from, payload) ==
    [id |-> id, destination |-> to, source_address |-> from, payload_hash |-> payload]

MCMetaLists == {<<>>, <<CounterMeta>>, <<Frozen>>, PayTo(w1), PayTo(w2)}

\* Memos, transfers to every kind of destination with and without data, beside
\* contents that are refused: the wrong account flags, no UTF-8, an untrusted chain,
\* an amount of 0, data for a wallet, the wrong hub message, not from the hub.
MCMessages ==
    {Msg(c1, Memo, stranger, Data(hi, <<CounterMeta>>)),
     Msg(c1, ITS, hub, FromHub(ethereum, Memo, 1, {Data(hi, PayTo(w1))})),
     Msg(c1, ITS, hub, FromHub(ethereum, CounterPda, 1, {})),
     Msg(c1, Memo, stranger, Data(bad, <<CounterMeta>>)),
     Msg(c2, ITS, hub, FromHub(ethereum, Memo, 1, {Data(hi, <<CounterMeta>>)})),
     Msg(c2, ITS, hub, FromHub(ethereum, App, 1, {Data(bad, <<>>)})),
     Msg(c2, ITS, hub, FromHub(elsewhere, w1, 1, {})),
     Msg(c2, ITS, hub, FromHub(ethereum, w1, 0, {})),
     Msg(c2, ITS, hub, FromHub(ethereum, w1, 1, {Data(hi, <<CounterMeta>>)})),
     Msg(c3, Memo, hub, [Data(hi, <<CounterMeta>>) EXCEPT !.scheme = "AbiEncoding"]),
     Msg(c3, Memo, stranger, Data(hi, <<Frozen>>)),
     Msg(c3, ITS, stranger, FromHub(ethereum, w2, 1, {})),
     Msg(c3, ITS, hub, [FromHub(ethereum, w1, 1, {}) EXCEPT !.hub = "SendToHub"])}

MCAddresses == {<<>>, <<"address">>}

MCCommandIdOf == [m \in MCMessages |-> m.id]
MCHubPayloads == {m.payload_hash : m \in {x \in MCMessages : IsHub(x)}}

VaultOnly == [h \in Holders |-> IF h = Vault THEN 2 ELSE 0]
SomeForAll == [h \in Holders |-> IF h = Vault THEN 2 ELSE IF h \in {w1, AppPda} THEN 1 ELSE 0]
=============================================================================
