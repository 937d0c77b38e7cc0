----------------------------- MODULE MCRequests -----------------------------
(* Small instances of what stands before and behind a request: the handshake of a
   tunnel, the login throttle, the register of withdrawn credentials, and the cron
   search.  They share no state.  A behaviour is one of one part, the others at
   rest, so that a run explores each part whole.                               *)
EXTENDS TunnelHandshake, LoginThrottle, Revocation, MCCronSchedule, TLC

CONSTANTS x1, x2, ann, bob, lan, wan, r1, h1

VARIABLE part

\* Of the pairs of two accounts and two addresses, two overflow a table of two.
MCFree == [d \in Sides |-> IF d = "pair" THEN 0 ELSE 1]

MCWhere == h1 :> r1

RequestsInit ==
    /\ part \in {"handshake", "throttle", "revocation", "cron"}
    /\ IF part = "handshake" THEN HandshakeInit
       ELSE /\ server = "gone" /\ agent = "failed" /\ open = FALSE /\ sent = 0
            /\ registered = FALSE /\ recorded = FALSE /\ early = FALSE /\ raced = FALSE
            /\ urgent = <<>> /\ bulk = <<>> /\ wire = <<>> /\ writer = "urgent"
    /\ ThrottleInit /\ RevocationInit
    /\ IF part = "cron" THEN CronInit
       ELSE spec = Stars /\ after = 0 /\ last = 0 /\ t = 0 /\ answer = "never"

RequestsNext ==
    \/ /\ part = "handshake" /\ HandshakeNext
       /\ UNCHANGED <<part, throttleVars, revocationVars, cronVars>>
    \/ /\ part = "throttle" /\ ThrottleNext
       /\ UNCHANGED <<part, handshakeVars, revocationVars, cronVars>>
    \/ /\ part = "revocation" /\ RevocationNext
       /\ UNCHANGED <<part, handshakeVars, throttleVars, cronVars>>
    \/ /\ part = "cron" /\ CronNext
       /\ UNCHANGED <<part, handshakeVars, throttleVars, revocationVars>>

\* The fairness of each part, for the behaviours that are its own.
RequestsSpec ==
    /\ RequestsInit
    /\ [][RequestsNext]_<<part, handshakeVars, throttleVars, revocationVars, cronVars>>
    /\ WF_handshakeVars(part = "handshake" /\ Serve)
    /\ WF_handshakeVars(part = "handshake" /\ Write)
    /\ WF_handshakeVars(part = "handshake" /\ Read)
    /\ WF_throttleVars(part = "throttle" /\ Tick)
    /\ \A x \in Checks : WF_throttleVars(part = "throttle" /\ Settle(x))
    /\ \A h \in Handlers :
          /\ WF_revocationVars(part = "revocation" /\ Revoking(h))
          /\ WF_revocationVars(part = "revocation" /\ Step(h))
    /\ \A r \in Replicas :
          /\ WF_revocationVars(part = "revocation" /\ Refresh(r))
          /\ WF_revocationVars(part = "revocation" /\ Publish(r))
          /\ SF_revocationVars(part = "revocation" /\ ReadKubeconfigs(r))
          /\ SF_revocationVars(part = "revocation" /\ ReadSessions(r))
=============================================================================
