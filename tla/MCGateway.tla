------------------------------ MODULE MCGateway ------------------------------
(***************************************************************************)
(* Instances of Gateway for TLC.  Verifier set v1 = {k1, k2} needs both    *)
(* signers.  v2 = {k2, k3} needs both, and their weights overflow the      *)
(* u128 range before they reach the quorum, which is U128::MAX itself.     *)
(* v3 = {k1, k2, k3} needs two of three, but its third slot lies outside   *)
(* signature_slots.  Batch b1 holds m1 and m3; b2 holds m1 again and m2,   *)
(* which claims the command id of m1; b3 was built for another gateway.    *)
(***************************************************************************)
EXTENDS Gateway, FiniteSetsExt

Leaf(v, p, k, w, q) ==
    [verifier_set |-> v, position |-> p, signer_pubkey |-> k,
     signer_weight |-> w, quorum |-> q, domain_separator |-> "solana"]

MCVerifierLeaves ==
    {Leaf("v1", 0, "k1", 2, 3), Leaf("v1", 1, "k2", 2, 3),
     Leaf("v2", 0, "k2", 5, 7), Leaf("v2", 1, "k3", 5, 7),
     Leaf("v3", 0, "k1", 1, 2), Leaf("v3", 1, "k2", 1, 2),
     Leaf("v3", 2, "k3", 1, 2)}

MCMessageLeaves ==
    {[root |-> "b1", message |-> "m1", domain_separator |-> "solana"],
     [root |-> "b1", message |-> "m3", domain_separator |-> "solana"],
     [root |-> "b2", message |-> "m1", domain_separator |-> "solana"],
     [root |-> "b2", message |-> "m2", domain_separator |-> "solana"],
     [root |-> "b3", message |-> "m3", domain_separator |-> "other"]}

MCRoots == {"v1", "v2", "v3", "b1", "b2", "b3"}

MCWeight ==
    [S \in SUBSET MCVerifierLeaves |-> MapThenSumSet(LAMBDA l : l.signer_weight, S)]

Signs(keys, payload_type, root) == {<<k, payload_type, root>> : k \in keys}

MCSignatures ==
    UNION {Signs({"k1", "k2"}, "RotateSigners", "v2"),
           Signs({"k1", "k2", "k3"}, "RotateSigners", "v3"),
           Signs({"k1", "k2"}, "ApproveMessages", "b1"),
           Signs({"k2", "k3"}, "ApproveMessages", "b2"),
           Signs({"k1", "k2"}, "ApproveMessages", "b3")}

Submit(root, payload_type, v) ==
    [root |-> root, payload_type |-> payload_type, verifier_set |-> v]

\* Rotations along v1, v2, v3, the shortcut of the operator from v1 to v3, a
\* batch root offered as a verifier set, and the two conflicting batches.
MCSubmissions ==
    {Submit("v2", "RotateSigners", "v1"), Submit("v3", "RotateSigners", "v2"),
     Submit("v3", "RotateSigners", "v1"), Submit("b1", "RotateSigners", "v1"),
     Submit("b1", "ApproveMessages", "v1"), Submit("b2", "ApproveMessages", "v2"),
     Submit("b2", "ApproveMessages", "v3")}

\* For liveness: one rotation, the conflicting batches, and the foreign batch.
MCLiveSubmissions ==
    {Submit("v2", "RotateSigners", "v1"), Submit("b1", "ApproveMessages", "v1"),
     Submit("b2", "ApproveMessages", "v2"), Submit("b3", "ApproveMessages", "v1")}

MCCommandIdOf == [m \in {"m1", "m2", "m3"} |-> IF m = "m3" THEN "c2" ELSE "c1"]

MCDestination ==
    [m \in {"m1", "m2", "m3"} |->
        CASE m = "m1" -> "p1" [] m = "m2" -> "p2" [] OTHER -> "no program"]
=============================================================================
