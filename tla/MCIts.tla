--------------------------------- MODULE MCIts ---------------------------------
(***************************************************************************)
(* Instances of Its for TLC.  Tokens: "fee" is the canonical id of the     *)
(* mint "eur", "nat" a native token of alice, "lnk" and "alt" custom ids   *)
(* of alice for two salts.  Mint "usd" exists from the start with alice as *)
(* its authority, and so does "eur", which charges transfer fees and has   *)
(* no authority.  Every other mint is the native mint of a token id, and   *)
(* is named by it.                                                         *)
(***************************************************************************)
EXTENDS Its

MCTokenOrigin ==
    [t \in TokenIds |->
        CASE t = "fee" -> [kind |-> "canonical", of |-> "eur"]
          [] t = "nat" -> [kind |-> "interchain", of |-> "alice"]
          [] OTHER     -> [kind |-> "linked", of |-> "alice"]]

MCNativeMint == [t \in TokenIds |-> t]

MCInitialAuthority ==
    [k \in Mints \cap {"usd", "eur"} |-> IF k = "usd" THEN "alice" ELSE NoAccount]

MCInitialSupply == [k \in Mints \cap {"usd", "eur"} |-> IF k = "usd" THEN 1 ELSE 3]

Message(id, address, source_chain, kind, token_id, amount, k, ty, principal) ==
    [id |-> id, address |-> address, source_chain |-> source_chain, kind |-> kind,
     token_id |-> token_id, amount |-> amount, mint |-> k, ty |-> ty,
     principal |-> principal]

MCLimits == {NoLimit, 1, 2}
MCNoLimits == {NoLimit}

\* Transfers of the fee token: enough to overflow a counter, and one that is not
\* from the hub.
MCFlowInbound ==
    {Message(1, "hub", "ethereum", "InterchainTransfer", "fee", 2, "eur", "MintBurn", "alice"),
     Message(2, "hub", "ethereum", "InterchainTransfer", "fee", 2, "eur", "MintBurn", "alice"),
     Message(3, "other", "ethereum", "InterchainTransfer", "fee", 1, "eur", "MintBurn", "alice")}

\* The native token comes from alice, or from the hub with bob as its minter.
MCRolesInbound ==
    {Message(1, "hub", "ethereum", "DeployInterchainToken", "nat", 0, "nat", "MintBurn", "bob"),
     Message(2, "hub", "ethereum", "InterchainTransfer", "nat", 1, "nat", "MintBurn", "alice"),
     Message(3, "hub", "ethereum", "InterchainTransfer", "nat", 2, "nat", "MintBurn", "bob")}

\* Two tokens that manage the same mint, one of them registered by the hub too, and
\* transfers to the managers themselves.
MCSharedInbound ==
    {Message(1, "hub", "ethereum", "LinkToken", "lnk", 0, "usd", "LockUnlockFee", NoAccount),
     Message(2, "hub", "ethereum", "InterchainTransfer", "alt", 1, "usd", "MintBurn", "lnk"),
     Message(3, "hub", "ethereum", "InterchainTransfer", "alt", 1, "usd", "MintBurn", "alt")}
=============================================================================
