---------------------------- MODULE MCExecuteData ----------------------------
(* Instances of ExecuteData: batches of up to four messages and one too     *)
(* long, verifier sets of none to three members, one more than has a slot.  *)
EXTENDS ExecuteData, TLC

CONSTANTS m, n, here, there

SetOf(nonce, keys, weight, quorum) ==
    [nonce |-> nonce, signers |-> [k \in keys |-> weight], quorum |-> quorum]

Pair == SetOf(1, {1, 2}, 1, 2)
Trio == SetOf(2, {1, 2, 3}, 1, 2)
Nobody == SetOf(3, {}, 1, 1)

Solo == SetOf(4, {3}, 1, 1)

\* A member alone in its tree, a set whose last member has no slot, and one that
\* cannot be merklized.
SigningSets == {Solo, Trio, Nobody}

Batch(s) == [messages |-> s]
RotationTo(v) == [verifier_set |-> v]

BatchesOf(k) == {Batch(s) : s \in [1..k -> Messages]}

\* Batches of none to three messages, of four that end like one of three, and of one
\* more than fits.
SomePayloads ==
    UNION {BatchesOf(k) : k \in 0..3}
    \cup {Batch(<<a, b, b, b>>) : a, b \in Messages}
    \cup {Batch(<<a, a, a, a, a>>) : a \in Messages}
    \cup {RotationTo(Pair), RotationTo(Trio), RotationTo(Nobody)}

Symmetry == Permutations(Messages)
=============================================================================
