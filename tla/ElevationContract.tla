-------------------------- MODULE ElevationContract --------------------------
(* What just-in-time elevation promises (backend/pkg/jit): of all the requests
   of one user for one cluster, the user holds at any time what one of them was
   approved for, or nothing; a request is decided once; what is over stays over,
   and takes the privilege with it.                                          *)
CONSTANTS Requests, NoRequest

VARIABLES
    phase,      \* "none", "waiting", "open" or "over"
    privilege   \* the request whose window the user is in

elevationContractVars == <<phase, privilege>>

ElevationContractInit ==
    /\ phase = [r \in Requests |-> "none"]
    /\ privilege = NoRequest

Submit(r) ==
    /\ phase[r] = "none"
    /\ phase' = [phase EXCEPT ![r] = "waiting"]
    /\ UNCHANGED privilege

Refuse(r) ==
    /\ phase[r] = "waiting"
    /\ phase' = [phase EXCEPT ![r] = "over"]
    /\ UNCHANGED privilege

Open(r) ==
    /\ phase[r] = "waiting"
    /\ phase' = [phase EXCEPT ![r] = "open"]
    /\ privilege' = r

\* Whatever ends ends the privilege, whichever request it came from.
Close(S) ==
    /\ \A r \in S : phase[r] = "open"
    /\ phase' = [r \in Requests |-> IF r \in S THEN "over" ELSE phase[r]]
    /\ privilege' = NoRequest

ElevationContractNext ==
    \/ \E r \in Requests : Submit(r) \/ Refuse(r) \/ Open(r)
    \/ \E S \in SUBSET Requests : Close(S)

ElevationContractSpec ==
    ElevationContractInit /\ [][ElevationContractNext]_elevationContractVars
=============================================================================
