----------------------------- MODULE TokenBridge -----------------------------
(***************************************************************************)
(* What the interchain token service promises the other chains, without    *)
(* instructions, mints, fees, flow limits or roles.  A token id is bound   *)
(* once; tokens that leave raise what is abroad and, if the token is       *)
(* locked here, the vault by the same amount; a message of the hub brings  *)
(* back what it says, once, and only from the vault of its own token; the  *)
(* vault of another token may be where it goes.                            *)
(* Its.tla implements this specification.                                  *)
(***************************************************************************)
EXTENDS Integers

CONSTANTS
    TokenIds,
    Tokens,       \* what a token id may be bound to, records with locked : BOOLEAN
    Unbound,
    Transfers,    \* [token_id, amount] records of the hub
    MaxAmount     \* the largest amount of one instruction

VARIABLES
    token,        \* what each token id is bound to
    vault,        \* tokens locked here for each token id
    abroad,       \* tokens sent minus tokens received
    delivered     \* transfers of the hub that were credited

vars == <<token, vault, abroad, delivered>>

Init ==
    /\ token = [t \in TokenIds |-> Unbound]
    /\ vault = [t \in TokenIds |-> 0]
    /\ abroad = [t \in TokenIds |-> 0]
    /\ delivered = {}

Locked(t, n) == IF token[t].locked THEN n ELSE 0

\* Someone may have sent tokens to the vault's address before.
Bind(t) ==
    /\ token[t] = Unbound
    /\ token'[t] \in Tokens
    /\ token' = [token EXCEPT ![t] = token'[t]]
    /\ vault'[t] \in Nat
    /\ vault' = [vault EXCEPT ![t] = vault'[t]]
    /\ UNCHANGED <<abroad, delivered>>

Send(t, n) ==
    /\ token[t] # Unbound
    /\ abroad' = [abroad EXCEPT ![t] = @ + n]
    /\ vault' = [vault EXCEPT ![t] = @ + Locked(t, n)]
    /\ UNCHANGED <<token, delivered>>

\* The tokens leave the vault of their token; one of the others may get some.
Receive(m) ==
    /\ m \notin delivered
    /\ token[m.token_id] # Unbound
    /\ Locked(m.token_id, m.amount) <= vault[m.token_id]
    /\ vault'[m.token_id] = vault[m.token_id] - Locked(m.token_id, m.amount)
    /\ \A t \in TokenIds \ {m.token_id} :
          vault[t] <= vault'[t] /\ vault'[t] <= vault[t] + Locked(t, m.amount)
    /\ vault' = [t \in TokenIds |-> vault'[t]]
    /\ abroad' = [abroad EXCEPT ![m.token_id] = @ - m.amount]
    /\ delivered' = delivered \cup {m}
    /\ UNCHANGED token

\* Tokens sent to the vault without the service.
Donate(t, n) ==
    /\ token[t].locked
    /\ vault' = [vault EXCEPT ![t] = @ + n]
    /\ UNCHANGED <<token, abroad, delivered>>

Next ==
    \/ \E t \in TokenIds : Bind(t)
    \/ \E t \in TokenIds, n \in 1..MaxAmount : Send(t, n) \/ Donate(t, n)
    \/ \E m \in Transfers : Receive(m)

Spec == Init /\ [][Next]_vars
===============================================================================
