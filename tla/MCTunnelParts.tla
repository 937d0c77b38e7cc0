---------------------------- MODULE MCTunnelParts ----------------------------
(* Small instances of the parts of a tunnel, and of what a replica keeps at the end
   of one: the table of calls, the two lanes, and the ring of events that a watch
   fills.  They share no state.  A behaviour is one of one part, the others at
   rest, so that a run explores each part whole.

   Three calls, so that two partial bodies can press a third over the budget, and
   frames of up to two bytes, so that a part can land on a bound and on either side
   of it.  One stream and two callers on lanes of two and one frames, with a burst
   of two: a caller waits for the one place another's request takes, and a request
   is overtaken by frames that arrive before and after it.                      *)
EXTENDS TunnelAssembly, TunnelLanes, EventRing

VARIABLE part

PartsInit ==
    /\ part \in {"assembly", "lanes", "ring"}
    /\ AssemblyInit /\ LanesInit /\ RingInit

PartsNext ==
    \/ part = "assembly" /\ AssemblyNext /\ UNCHANGED <<part, lanesVars, eventVars>>
    \/ part = "lanes" /\ LanesNext /\ UNCHANGED <<part, assemblyVars, eventVars>>
    \/ part = "ring" /\ RingNext /\ UNCHANGED <<part, assemblyVars, lanesVars>>

\* The fairness of each part, for the behaviours that are its own.
PartsSpec ==
    /\ PartsInit
    /\ [][PartsNext]_<<part, assemblyVars, lanesVars, eventVars>>
    /\ WF_lanesVars(part = "lanes" /\ Select)
    /\ WF_lanesVars(part = "lanes" /\ (Write \/ WriteFails))
    /\ \A s \in Senders : WF_lanesVars(part = "lanes" /\ Unblock(s))
    /\ WF_eventVars(part = "ring" /\ ListSteps) /\ WF_eventVars(part = "ring" /\ WatchLine)
=============================================================================
