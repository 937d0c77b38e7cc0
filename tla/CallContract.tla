---------------------------- MODULE CallContract ----------------------------
(* What Tunnel.Do promises the proxy (backend/pkg/bastion/registry.go): each
   call returns once, either with an error or with the whole body the cluster's
   API server produced for it -- never with part of one, and never with a body
   the API server was not asked for.                                         *)
EXTENDS Integers

CONSTANTS Calls, Sizes

VARIABLES
    phase,      \* "idle", "asked" or "returned"
    produced,   \* length of the body the API server produced, or Unknown
    outcome     \* what Do returned: an error, or the length of the body

contractVars == <<phase, produced, outcome>>

Failed == -1
Unknown == -2

ContractInit ==
    /\ phase = [c \in Calls |-> "idle"]
    /\ produced = [c \in Calls |-> Unknown]
    /\ outcome = [c \in Calls |-> Unknown]

Ask(c) ==
    /\ phase[c] = "idle"
    /\ phase' = [phase EXCEPT ![c] = "asked"]
    /\ UNCHANGED <<produced, outcome>>

\* The API server answers, possibly for a caller that has already left.
Produce(c, n) ==
    /\ phase[c] # "idle"
    /\ produced[c] = Unknown
    /\ produced' = [produced EXCEPT ![c] = n]
    /\ UNCHANGED <<phase, outcome>>

ReturnBody(c) ==
    /\ phase[c] = "asked"
    /\ produced[c] # Unknown
    /\ phase' = [phase EXCEPT ![c] = "returned"]
    /\ outcome' = [outcome EXCEPT ![c] = produced[c]]
    /\ UNCHANGED produced

\* A call may fail before it was ever asked: the tunnel was already down.
ReturnError(c) ==
    /\ phase[c] # "returned"
    /\ phase' = [phase EXCEPT ![c] = "returned"]
    /\ outcome' = [outcome EXCEPT ![c] = Failed]
    /\ UNCHANGED produced

Return(c) == ReturnBody(c) \/ (phase[c] = "asked" /\ ReturnError(c))

ContractNext ==
    \E c \in Calls :
        \/ Ask(c)
        \/ \E n \in Sizes : Produce(c, n)
        \/ ReturnBody(c)
        \/ ReturnError(c)

\* No step but these: no second return, and no body but the one produced.
ContractSafety == ContractInit /\ [][ContractNext]_contractVars

\* And every call that was asked returns.
ContractSpec ==
    /\ ContractSafety
    /\ \A c \in Calls : WF_contractVars(Return(c))
=============================================================================
