--------------------------- MODULE TunnelLifecycle ---------------------------
(* The life of the tunnels one cluster's agents open (backend/pkg/bastion:
   server.go and the Registry of registry.go): the handshake, the newest-wins
   registration and the displacement it causes, the health a tunnel records as
   it comes and goes, the rotation of the registration token and the sweep that
   catches the tunnels a rotation did not see.

   Registry keys are cluster IDs and no step touches two of them, so one cluster
   is modelled.  Each replica of the server has a registry and a sweep of its
   own; the token and the recorded health are in the database they share.  A
   refused handshake changes nothing and is left out.                        *)
EXTENDS Integers, FiniteSets

CONSTANTS
    Conns,         \* connections the agents of the cluster make
    Replicas,      \* server processes
    MaxRotations,  \* bound: rotations of the registration token
    StoreFails,    \* whether a database call may fail
    None           \* no tunnel

ASSUME NoneApart == None \notin Conns
ASSUME RotationsNat == MaxRotations \in Nat
ASSUME StoreFailsBool == StoreFails \in BOOLEAN
ASSUME ApiApart == "api" \notin Replicas

VARIABLES
    token,      \* the current registration token, numbered from 0
    health,     \* clusters.status
    where,      \* where each connection's goroutine is
    replica,    \* the replica it reached
    credential, \* tunnel.credential
    cause,      \* "open", or what closeWith was first called with
    displaced,  \* the tunnel Add returned to it, until it is closed
    registry,   \* Registry.tunnels of each replica, for this cluster
    retirer,    \* where the rotation handler and each sweep are
    target      \* the tunnel each of them holds

connVars == <<where, replica, credential, displaced>>
retireVars == <<token, retirer, target>>
lifeVars == <<connVars, retireVars, health, cause, registry>>

Retirers == Replicas \cup {"api"}
Running == {"displacing", "recording", "welcoming", "serving", "dropping"}

Open(t) == cause[t] = "open"
Attached(t) == where[t] # "new" /\ registry[replica[t]] = t

LifeInit ==
    /\ token = 0
    /\ health = "unknown"
    /\ where = [t \in Conns |-> "new"]
    /\ replica \in [Conns -> Replicas]
    /\ credential = [t \in Conns |-> 0]
    /\ cause = [t \in Conns |-> "open"]
    /\ displaced = [t \in Conns |-> None]
    /\ registry = [r \in Replicas |-> None]
    /\ retirer = [x \in Retirers |-> "idle"]
    /\ target = [x \in Retirers |-> None]

-----------------------------------------------------------------------------
(* One connection's goroutine: HandleAgent, serveTunnel, dropTunnel. *)

Goto(t, from, to) == where[t] = from /\ where' = [where EXCEPT ![t] = to]

\* closeWith: only the first cause is kept.
Shut(t, why) == cause' = [cause EXCEPT ![t] = IF @ = "open" THEN why ELSE @]

\* The token resolves to the cluster, and is never looked at again here.
Verify(t) ==
    /\ Goto(t, "new", "greeting")
    /\ credential' = [credential EXCEPT ![t] = token]
    /\ UNCHANGED <<replica, displaced, retireVars, health, cause, registry>>

\* No hello, or one this server does not speak, within handshakeTimeout.
HelloFails(t) ==
    /\ Goto(t, "greeting", "gone")
    /\ UNCHANGED <<replica, credential, displaced, retireVars, health, cause, registry>>

\* Registry.Add: the newest wins.
Add(t) ==
    LET previous == registry[replica[t]] IN
    /\ Goto(t, "greeting", IF previous = None THEN "recording" ELSE "displacing")
    /\ registry' = [registry EXCEPT ![replica[t]] = t]
    /\ displaced' = [displaced EXCEPT ![t] = previous]
    /\ UNCHANGED <<replica, credential, retireVars, health, cause>>

Displace(t) ==
    /\ Goto(t, "displacing", "recording")
    /\ Shut(displaced[t], "displaced")
    /\ displaced' = [displaced EXCEPT ![t] = None]
    /\ UNCHANGED <<replica, credential, retireVars, health, registry>>

\* recordState: a failed write is logged and nothing else.
Record(state) ==
    \/ health' = state
    \/ StoreFails /\ UNCHANGED health

RecordUp(t) ==
    /\ Goto(t, "recording", "welcoming")
    /\ Record("healthy")
    /\ UNCHANGED <<replica, credential, displaced, retireVars, cause, registry>>

\* The welcome is queued; on a closed tunnel it may be refused instead.
Welcome(t) ==
    /\ \/ Goto(t, "welcoming", "serving")
       \/ ~Open(t) /\ Goto(t, "welcoming", "dropping")
    /\ UNCHANGED <<replica, credential, displaced, retireVars, health, cause, registry>>

\* The socket dies under the reader, the writer or the keepalive.
Break(t) ==
    /\ where[t] \in Running
    /\ Open(t)
    /\ Shut(t, "broken")
    /\ UNCHANGED <<connVars, retireVars, health, registry>>

\* Mutant: a tunnel closed under its reader skips the clean-up.
EndServeSkipsDrop(t) ==
    /\ ~Open(t)
    /\ Goto(t, "serving", "gone")
    /\ UNCHANGED <<replica, credential, displaced, retireVars, health, cause, registry>>

\* The read loop ends because the tunnel was closed under it.
EndServe(t) ==
    /\ ~Open(t)
    /\ Goto(t, "serving", "dropping")
    /\ UNCHANGED <<replica, credential, displaced, retireVars, health, cause, registry>>

\* deliver's send on the channel that a stream's Close has just closed panics in the
\* read loop (TunnelStream): the deferred closeWith runs, dropTunnel does not, and
\* the goroutine is gone.
ServePanics(t) ==
    /\ Goto(t, "serving", "panicked")
    /\ Shut(t, "broken")
    /\ UNCHANGED <<replica, credential, displaced, retireVars, health, registry>>

\* Mutant: a displaced tunnel's clean-up evicts its replacement.
RemoveWhatever(t) ==
    /\ Goto(t, "dropping", "reporting")
    /\ Shut(t, "broken")
    /\ registry' = [registry EXCEPT ![replica[t]] = None]
    /\ UNCHANGED <<replica, credential, displaced, retireVars, health>>

\* dropTunnel up to Registry.Remove: only the live tunnel goes on to report.
Remove(t) ==
    /\ \/ /\ Attached(t)
          /\ Goto(t, "dropping", "reporting")
          /\ registry' = [registry EXCEPT ![replica[t]] = None]
       \/ /\ ~Attached(t)
          /\ Goto(t, "dropping", "gone")
          /\ UNCHANGED registry
    /\ Shut(t, "broken")
    /\ UNCHANGED <<replica, credential, displaced, retireVars, health>>

\* The health it records names the rotation if that is why the tunnel closed.
RecordDown(t) ==
    /\ Goto(t, "reporting", "gone")
    /\ Record(IF cause[t] = "retired" THEN "rotated" ELSE "unhealthy")
    /\ UNCHANGED <<replica, credential, displaced, retireVars, cause, registry>>

-----------------------------------------------------------------------------
(* Rotation, and the sweep of each replica. *)

Advance(x, from, to, t) ==
    /\ retirer[x] = from
    /\ retirer' = [retirer EXCEPT ![x] = to]
    /\ target' = [target EXCEPT ![x] = t]

\* rotateAgentToken commits the new token, then asks its replica to Retire.
Rotate ==
    /\ token < MaxRotations
    /\ token' = token + 1
    /\ Advance("api", "idle", "getting", None)
    /\ UNCHANGED <<connVars, health, cause, registry>>

Retire(r) ==
    /\ \/ registry[r] # None /\ Advance("api", "getting", "closing", registry[r])
       \/ registry[r] = None /\ Advance("api", "getting", "idle", None)
    /\ UNCHANGED <<token, connVars, health, cause, registry>>

\* RunCredentialSweep ticks: Snapshot.
Sweep(r) ==
    /\ registry[r] # None
    /\ Advance(r, "idle", "looking", registry[r])
    /\ UNCHANGED <<token, connVars, health, cause, registry>>

\* Mutant: a token that resolves closes its tunnel.
LookInverted(r) ==
    /\ retirer[r] = "looking"
    /\ \/ credential[target[r]] = token /\ Advance(r, "looking", "closing", target[r])
       \/ credential[target[r]] # token /\ Advance(r, "looking", "idle", None)
    /\ UNCHANGED <<token, connVars, health, cause, registry>>

\* The database says whether the tunnel's token still resolves.
Look(r) ==
    /\ retirer[r] = "looking"
    /\ \/ credential[target[r]] # token /\ Advance(r, "looking", "closing", target[r])
       \/ credential[target[r]] = token /\ Advance(r, "looking", "idle", None)
    /\ UNCHANGED <<token, connVars, health, cause, registry>>

\* A store that cannot be read closes nothing.
LookFails(r) ==
    /\ StoreFails
    /\ Advance(r, "looking", "idle", None)
    /\ UNCHANGED <<token, connVars, health, cause, registry>>

\* retire: the close frame that names the rotation, then closeWith.  An agent
\* that hangs up on the frame first shows as Break.
CloseRetired(x) ==
    /\ Advance(x, "closing", "idle", None)
    /\ Shut(target[x], "retired")
    /\ UNCHANGED <<token, connVars, health, registry>>

Goroutine(t) == \/ HelloFails(t) \/ Add(t) \/ Displace(t) \/ RecordUp(t)
                \/ Welcome(t) \/ EndServe(t) \/ Remove(t) \/ RecordDown(t)

LifeNext ==
    \/ \E t \in Conns : Verify(t) \/ Goroutine(t) \/ Break(t) \/ ServePanics(t)
    \/ \E r \in Replicas : Retire(r) \/ Sweep(r) \/ Look(r) \/ LookFails(r)
    \/ \E x \in Retirers : CloseRetired(x)
    \/ Rotate

LifeSpec == LifeInit /\ [][LifeNext]_lifeVars

\* Goroutines run, every socket wait and database call ends by a timeout, the
\* sweep's ticker ticks, and a store looked at again and again is read at last.
LifeFairness ==
    /\ \A t \in Conns : WF_lifeVars(Goroutine(t))
    /\ \A r \in Replicas : WF_lifeVars(Sweep(r)) /\ SF_lifeVars(Look(r))
    /\ \A x \in Retirers : WF_lifeVars(CloseRetired(x))
    /\ WF_lifeVars(\E r \in Replicas : Retire(r))

FairLifeSpec == LifeSpec /\ LifeFairness

-----------------------------------------------------------------------------
\* Every variable has its type, and whoever is to close a tunnel has one.
LifeTypeOK ==
    /\ token \in 0..MaxRotations
    /\ health \in {"unknown", "healthy", "unhealthy", "rotated"}
    /\ where \in [Conns -> Running \cup {"new", "greeting", "reporting", "panicked", "gone"}]
    /\ replica \in [Conns -> Replicas]
    /\ credential \in [Conns -> 0..MaxRotations]
    /\ cause \in [Conns -> {"open", "displaced", "broken", "retired"}]
    /\ displaced \in [Conns -> Conns \cup {None}]
    /\ registry \in [Replicas -> Conns \cup {None}]
    /\ retirer \in [Retirers -> {"idle", "getting", "looking", "closing"}]
    /\ target \in [Retirers -> Conns \cup {None}]
    /\ \A x \in Retirers : retirer[x] \in {"looking", "closing"} => target[x] # None
    /\ \A t \in Conns : where[t] = "displacing" => displaced[t] # None

\* The registry and the sweep that reads it miss no tunnel: one that is open is
\* registered, unless the newcomer that displaced it is about to close it
\* (Add, Displace, Remove).
OpenIsRegistered ==
    \A t \in Conns :
        where[t] \in Running /\ Open(t) =>
            \/ registry[replica[t]] = t
            \/ \E u \in Conns : where[u] = "displacing" /\ displaced[u] = t

\* Conversely a registered tunnel is on the replica it reached, and has a goroutine
\* that will deregister it (dropTunnel); or its reader has panicked, and then it is
\* closed.
RegisteredIsRunning ==
    \A r \in Replicas :
        LET t == registry[r]
        IN  t # None =>
                /\ replica[t] = r
                /\ where[t] \in Running \/ (where[t] = "panicked" /\ ~Open(t))

\* The strong form, which the panic refutes: no entry outlives its goroutine.
NoDeadEntry == \A r \in Replicas : registry[r] # None => where[registry[r]] \in Running

\* The sweep closes only tunnels whose token was retired, however old what it
\* read is by the time it closes: a token is never current twice
\* (SweepCredentials).  The rotation handler closes whatever is attached.
SweepSparesCurrent ==
    [][\A t \in Conns, r \in Replicas :
          CloseRetired(r) /\ target[r] = t /\ Open(t) => credential[t] # token]_lifeVars

\* Only the first cause a tunnel is closed with is kept, so a displaced or broken
\* tunnel is never reported as rotated later (closeWith).
FirstCauseKept ==
    [][\A t \in Conns : cause[t] # "open" => cause'[t] = cause[t]]_lifeVars

\* A rotation ends every tunnel opened on an older token, those another replica
\* holds and those that verified before it and registered after it as well
\* (Retire, RunCredentialSweep).
RetiredTunnelsEnd ==
    \A t \in Conns :
        (where[t] \in Running /\ credential[t] # token) ~> ~Open(t)

\* A closed tunnel does not stay registered (serve, dropTunnel), unless its reader
\* panicked: that one stays until the agent's next connection takes its place.
ClosedTunnelsLeave ==
    \A t \in Conns :
        (Attached(t) /\ ~Open(t)) ~> (~Attached(t) \/ where[t] = "panicked")

\* No connection is coming or going.
Settled == \A t \in Conns : \/ where[t] \in {"new", "greeting", "panicked", "gone"}
                            \/ where[t] = "serving" /\ Open(t)

\* dropTunnel's comment: it "marks the cluster unreachable, but only if this
\* tunnel is still the live one", so once every tunnel has come or gone the
\* recorded health should be that of the tunnel that is left.
HealthSettles ==
    Settled /\ health # "unknown" =>
        (health = "healthy" <=> \E t \in Conns : where[t] = "serving")

\* Registry and goroutines agree: what is open is found there, and what is found
\* there has somebody who will take it out, but for what a panic left.
RegistryExact == LifeTypeOK /\ OpenIsRegistered /\ RegisteredIsRunning

\* A tunnel is closed by the sweep for a reason that holds, and keeps its first.
ClosedForCause == SweepSparesCurrent /\ FirstCauseKept

\* Tunnels that must end do, and leave the registry when they have ended in order.
TunnelsEnd == RetiredTunnelsEnd /\ ClosedTunnelsLeave
=============================================================================
