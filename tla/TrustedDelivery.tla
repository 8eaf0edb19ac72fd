--------------------------- MODULE TrustedDelivery ---------------------------
(***************************************************************************)
(* What the Axelar gateway on Solana promises, without sessions, epochs,   *)
(* clocks or operators.                                                    *)
(*                                                                         *)
(*  - Trust starts with one verifier set and spreads only along            *)
(*    appointments: a set becomes trusted only if a quorum of an already   *)
(*    trusted set signed for it, and never becomes trusted a second time.  *)
(*  - A command identifier holds at most one message for ever: nothing,    *)
(*    then an approved message that a quorum of a trusted set endorsed,    *)
(*    then that same message, executed.                                    *)
(***************************************************************************)

CONSTANTS
    Roots,               \* hashes that may name a verifier set
    InitialVerifierSet,  \* the verifier set trusted from the beginning
    Messages,            \* cross-chain messages
    CommandIds,          \* identifiers under which messages are stored
    CommandIdOf,         \* the identifier of each message
    NoMessage,           \* the content of an empty inbox entry
    Endorses(_, _),      \* Endorses(v, m): a quorum of v signed a batch that holds m
    Appoints(_, _)       \* Appoints(u, v): a quorum of u signed the rotation to v

VARIABLES
    trusted,             \* the verifier sets trusted so far
    inbox                \* the message stored under each command identifier

vars == <<trusted, inbox>>

Empty == [status |-> "none", message |-> NoMessage]

Init ==
    /\ trusted = {}
    /\ inbox = [c \in CommandIds |-> Empty]

\* The deployment trusts its first verifier set.
Bootstrap ==
    /\ trusted = {}
    /\ trusted' = {InitialVerifierSet}
    /\ UNCHANGED inbox

\* A trusted set hands over to a set that was never trusted before.
Appoint(u, v) ==
    /\ u \in trusted
    /\ v \notin trusted
    /\ trusted' = trusted \cup {v}
    /\ UNCHANGED inbox
    /\ Appoints(u, v)

\* A message endorsed by a trusted set fills the empty entry of its identifier.
Approve(v, m) ==
    /\ v \in trusted
    /\ inbox[CommandIdOf[m]] = Empty
    /\ inbox' = [inbox EXCEPT ![CommandIdOf[m]] =
                    [status |-> "approved", message |-> m]]
    /\ UNCHANGED trusted
    /\ Endorses(v, m)

\* An approved message is executed, once.
Execute(c) ==
    /\ inbox[c].status = "approved"
    /\ inbox' = [inbox EXCEPT ![c].status = "executed"]
    /\ UNCHANGED trusted

Next ==
    \/ Bootstrap
    \/ \E u, v \in Roots : Appoint(u, v)
    \/ \E v \in Roots, m \in Messages : Approve(v, m)
    \/ \E c \in CommandIds : Execute(c)

Spec == Init /\ [][Next]_vars
=============================================================================
