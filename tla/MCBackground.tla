---------------------------- MODULE MCBackground ----------------------------
(* Small instances of what a replica does behind the requests: the alarm watch,
   the audit sinks, and the expiring response cache.  They share no state.  A behaviour is
   one of one part, the others at rest, so that a run explores each part whole.  *)
EXTENDS AlarmWatch, AuditTrail, ReadCache, TLC

CONSTANTS p1, p2, e1, e2, q1, q2, q3, here, there

VARIABLE part

\* Two replicas, one behind the cluster's clock and one ahead of it.
MCAhead == (p1 :> 0) @@ (p2 :> 2)

\* Two keys of one cluster and one of another; an answer that lives longer.
MCClusterOf == (q1 :> here) @@ (q2 :> here) @@ (q3 :> there)
MCLife == (q1 :> 0) @@ (q2 :> 2) @@ (q3 :> 0)

BackgroundInit ==
    /\ part \in {"alarms", "trail", "cache"}
    /\ WatchInit /\ (part # "alarms" => \A r \in Replicas : at[r] = "off")
    /\ TrailInit /\ (part # "trail" => sink = "table")
    /\ CacheInit

BackgroundNext ==
    \/ part = "alarms" /\ WatchNext /\ UNCHANGED <<part, trailVars, cacheVars>>
    \/ part = "trail" /\ TrailNext /\ UNCHANGED <<part, watchVars, cacheVars>>
    \/ part = "cache" /\ CacheNext /\ UNCHANGED <<part, watchVars, trailVars>>

\* The fairness of each part, for the behaviours that are its own.
BackgroundSpec ==
    /\ BackgroundInit
    /\ [][BackgroundNext]_<<part, watchVars, trailVars, cacheVars>>
    /\ WF_watchVars(part = "alarms" /\ Tick)
    /\ \A r \in Replicas : WF_watchVars(part = "alarms" /\ Pass(r))
    /\ WF_trailVars(part = "trail" /\ Run)
    /\ WF_cacheVars(part = "cache" /\ Expire)
    /\ \A r \in Readers : WF_cacheVars(part = "cache" /\ EndsRead(r))
=============================================================================
