----------------------------- MODULE MCElevation -----------------------------
(* Two requests, which may overlap or follow one another, and the requester is an
   administrator too.  Of two API calls and two replicas' sweeps one is absent: a
   behaviour has two callers and a sweep, or one caller and two sweeps.       *)
EXTENDS Elevation

CONSTANTS r1, r2, c1, c2, p1, p2, asker, admin

MCLasts == [r \in Requests |-> 1]

VARIABLE crew

MCInit == crew \in {"deciders", "sweepers"} /\ ElevationInit

\* Losing a record changes nothing that a decider reads, so only the second crew loses
\* any, of r1 alone: the behaviours that lose those of r2 mirror these.
MCNext ==
    /\ ElevationNext
    /\ \/ crew = "deciders" /\ sweep'[p2] = sweep[p2] /\ lost' = {}
       \/ crew = "sweepers" /\ call'[c2] = call[c2] /\ lost' \subseteq {r1} \X Verbs
    /\ UNCHANGED crew

\* The fairness of FairElevationSpec, for the sweeps that are there.
Sweeps(p) == p = p1 \/ crew = "sweepers"

MCSpec ==
    /\ MCInit
    /\ [][MCNext]_<<crew, elevationVars>>
    /\ \A p \in Replicas :
         /\ WF_elevationVars(Sweeps(p) /\ SweepGoesOn(p))
         /\ SF_elevationVars(Sweeps(p) /\ CloseExpired(p))
         /\ SF_elevationVars(Sweeps(p) /\ FindOrphans(p))
         /\ SF_elevationVars(Sweeps(p) /\ \E r \in Requests : Reconcile(p, r))
=============================================================================
