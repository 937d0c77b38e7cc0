----------------------------- MODULE Revocation -----------------------------
(* The register of withdrawn credentials, as each replica publishes it to its
   gateway (backend/pkg/credentials/register.go, backend/pkg/api/kubeconfigs.go
   and cli_auth.go, backend/pkg/db/kubeconfigs.go and cli_sessions.go).

   A kubeconfig is a credential itself.  A CLI session mints tokens that carry its
   id, and is as good as its longest-lived token.  All credentials are one
   person's, whom the blanket revoke is for.  A publisher is a handler that has
   revoked something or a replica's refresher, called by the replica's name.  All
   credentials are of one age; a session's row outlives it in the register.      *)
EXTENDS Integers

CONSTANTS
    Replicas,
    Handlers,
    Where,        \* the replica that serves each handler
    Kubeconfigs,
    Sessions,
    RowLife,      \* how long a register row is not expired
    Retention,    \* audit_retention_days
    AccessTTL     \* cliAccessTokenTTL

ASSUME HandlersAreServed ==
    Handlers \cap Replicas = {} /\ Where \in [Handlers -> Replicas]
ASSUME CredentialsDiffer == Kubeconfigs \cap Sessions = {}
ASSUME Lifetimes == RowLife \in Nat \ {0} /\ AccessTTL \in Nat \ {0} /\ Retention \in Nat \ {0}

VARIABLES
    revoked,    \* what was withdrawn: the rows with a revoked_at, and those it had
    pruned,     \* the kubeconfigs whose row is deleted
    life,       \* of each row, until expires_at
    token,      \* of each session, until its last token expires
    minting,    \* the sessions a cliCredential call has found live
    signing,    \* of each session, the lifetime of a token about to be signed, or 0
    late,       \* history: the sessions with a token signed when that time had passed on
    up,         \* the replicas that run
    snapshot,   \* what each one's register has published
    at,         \* where each publisher is
    target,     \* what each handler has revoked
    got,        \* what each publisher has read
    began       \* what was revoked when it began to read

publishing == <<at, target, got, began>>
tokens == <<token, minting, signing, late>>
revocationVars == <<revoked, pruned, life, tokens, up, snapshot, publishing>>

Credentials == Kubeconfigs \cup Sessions
Publishers == Handlers \cup Replicas
Place(p) == IF p \in Replicas THEN p ELSE Where[p]
\* What a call with c would meet, but for the register.
Valid(c) == IF c \in Sessions THEN token[c] > 0 ELSE life[c] > 0
Listed(C) == {c \in (C \cap revoked) \ pruned : life[c] > 0}

RevocationInit ==
    /\ revoked = {} /\ pruned = {} /\ up = Replicas
    /\ life = [c \in Credentials |-> RowLife] /\ token = [s \in Sessions |-> 0]
    /\ minting = {} /\ signing = [s \in Sessions |-> 0] /\ late = {}
    /\ snapshot = [r \in Replicas |-> {}]
    /\ at = [p \in Publishers |-> IF p \in Replicas THEN "kubeconfigs" ELSE "idle"]
    /\ target = [h \in Handlers |-> {}]
    /\ got = [p \in Publishers |-> {}] /\ began = [p \in Publishers |-> {}]

-----------------------------------------------------------------------------
(* Sessions and time. *)

Age ==
    /\ life' = [c \in Credentials |-> IF life[c] > 0 THEN life[c] - 1 ELSE 0]
    /\ token' = [s \in Sessions |-> IF token[s] > 0 THEN token[s] - 1 ELSE 0]
    /\ late' = late \cup {s \in Sessions : signing[s] > 0}
    /\ UNCHANGED <<revoked, pruned, minting, signing, up, snapshot, publishing>>

\* requireCLISession finds the session live ...
Admit(s) ==
    /\ s \notin revoked /\ life[s] > 0
    /\ minting' = minting \cup {s}
    /\ UNCHANGED <<revoked, pruned, life, token, signing, late, up, snapshot, publishing>>

\* Mutant: a token lives as long as tokens do.
MintFullTTL(s) ==
    /\ s \in minting /\ signing[s] = 0
    /\ minting' = minting \ {s}
    /\ signing' = [signing EXCEPT ![s] = IF life[s] = 0 THEN 0 ELSE AccessTTL]
    /\ UNCHANGED <<revoked, pruned, life, token, late, up, snapshot, publishing>>

\* ... cliCredential gives a token no more than the session has left ...
Mint(s) ==
    /\ s \in minting /\ signing[s] = 0
    /\ minting' = minting \ {s}
    /\ signing' = [signing EXCEPT ![s] = IF AccessTTL < life[s] THEN AccessTTL ELSE life[s]]
    /\ UNCHANGED <<revoked, pruned, life, token, late, up, snapshot, publishing>>

\* ... and sign counts that from its own reading of the clock.
Sign(s) ==
    /\ signing[s] > 0 /\ signing' = [signing EXCEPT ![s] = 0]
    /\ token' = [token EXCEPT ![s] = IF @ < signing[s] THEN signing[s] ELSE @]
    /\ UNCHANGED <<revoked, pruned, life, minting, late, up, snapshot, publishing>>

\* PruneKubeconfigIssuances, of some replica's retention pass: a row goes by when it
\* was created, whatever is withdrawn and whatever has not expired.  PruneCLISessions
\* takes none but long expired rows, which nothing here reads.
PruneRegister ==
    /\ pruned' = pruned \cup {c \in Kubeconfigs : RowLife - life[c] > Retention}
    /\ UNCHANGED <<revoked, life, tokens, up, snapshot, publishing>>

-----------------------------------------------------------------------------
(* Revoking. *)

Goto(p, label) == at' = [at EXCEPT ![p] = label]

\* RevokeKubeconfigIssuance and RevokeCLISession: of one already revoked the row
\* stands, and is published again all the same; what has no row is not found.
RevokeOne(h, c) ==
    /\ at[h] = "idle" /\ Where[h] \in up
    /\ c \notin pruned
    /\ revoked' = revoked \cup {c}
    /\ target' = [target EXCEPT ![h] = {c}]
    /\ Goto(h, "kubeconfigs")
    /\ UNCHANGED <<pruned, life, tokens, up, snapshot, got, began>>

\* The blanket revoke: the kubeconfigs, then the sessions, and if those fail the
\* rest goes on.
RevokeKubeconfigsForUser(h) ==
    LET live == {c \in Kubeconfigs \ (revoked \cup pruned) : life[c] > 0}
    IN  /\ at[h] = "idle" /\ Where[h] \in up
        /\ revoked' = revoked \cup live
        /\ target' = [target EXCEPT ![h] = live]
        /\ Goto(h, "revoking")
        /\ UNCHANGED <<pruned, life, tokens, up, snapshot, got, began>>

RevokeCLISessionsForUser(h) ==
    LET live == {s \in Sessions \ revoked : life[s] > 0}
    IN  /\ at[h] = "revoking"
        /\ revoked' = revoked \cup live
        /\ target' = [target EXCEPT ![h] = @ \cup live]
        /\ Goto(h, "kubeconfigs")
        /\ UNCHANGED <<pruned, life, tokens, up, snapshot, got, began>>

RevokeFails(h) ==
    /\ at[h] = "revoking"
    /\ Goto(h, "kubeconfigs")
    /\ UNCHANGED <<revoked, pruned, life, tokens, up, snapshot, target, got, began>>

-----------------------------------------------------------------------------
(* publishRevokedCredentials: two reads, one store. *)

Refresh(r) ==
    /\ r \in up /\ at[r] = "idle"
    /\ Goto(r, "kubeconfigs")
    /\ UNCHANGED <<revoked, pruned, life, tokens, up, snapshot, target, got, began>>

ReadKubeconfigs(p) ==
    /\ at[p] = "kubeconfigs" /\ Goto(p, "sessions")
    /\ got' = [got EXCEPT ![p] = Listed(Kubeconfigs)]
    /\ began' = [began EXCEPT ![p] = revoked]
    /\ UNCHANGED <<revoked, pruned, life, tokens, up, snapshot, target>>

ReadSessions(p) ==
    /\ at[p] = "sessions" /\ Goto(p, "store")
    /\ got' = [got EXCEPT ![p] = @ \cup Listed(Sessions)]
    /\ UNCHANGED <<revoked, pruned, life, tokens, up, snapshot, target, began>>

\* What is left of a publisher that is done.
Done(p) ==
    /\ Goto(p, "idle")
    /\ got' = [got EXCEPT ![p] = {}] /\ began' = [began EXCEPT ![p] = {}]
    /\ target' = [h \in Handlers |-> IF h = p THEN {} ELSE target[h]]

\* Mutant: what could be read is published.
ReadFailsHalf(p) ==
    /\ at[p] \in {"kubeconfigs", "sessions"}
    /\ Goto(p, "store")
    /\ UNCHANGED <<revoked, pruned, life, tokens, up, snapshot, target, got, began>>

\* A read that fails leaves the previous snapshot; the handler answers all the same.
ReadFails(p) ==
    /\ at[p] \in {"kubeconfigs", "sessions"}
    /\ Done(p)
    /\ UNCHANGED <<revoked, pruned, life, tokens, up, snapshot>>

Publish(p) ==
    /\ at[p] = "store"
    /\ snapshot' = [snapshot EXCEPT ![Place(p)] = got[p]]
    /\ Done(p)
    /\ UNCHANGED <<revoked, pruned, life, tokens, up>>

\* A replica stops, with its handlers, and starts with an empty register.
Crash(r) ==
    LET here(p) == Place(p) = r
        Without(f) == [p \in Publishers |-> IF here(p) THEN {} ELSE f[p]]
    IN  /\ r \in up /\ up' = up \ {r}
        /\ snapshot' = [snapshot EXCEPT ![r] = {}]
        /\ at' = [p \in Publishers |-> IF here(p) THEN "idle" ELSE at[p]]
        /\ got' = Without(got) /\ began' = Without(began)
        /\ target' = [h \in Handlers |-> IF here(h) THEN {} ELSE target[h]]
        /\ UNCHANGED <<revoked, pruned, life, tokens>>

Boot(r) ==
    /\ r \notin up /\ up' = up \cup {r}
    /\ Goto(r, "kubeconfigs")
    /\ UNCHANGED <<revoked, pruned, life, tokens, snapshot, target, got, began>>

Step(p) ==
    ReadKubeconfigs(p) \/ ReadSessions(p) \/ ReadFails(p) \/ Publish(p)
Revoking(h) == RevokeCLISessionsForUser(h) \/ RevokeFails(h)

RevocationNext ==
    \/ Age
    \/ \E s \in Sessions : Admit(s) \/ Mint(s) \/ Sign(s)
    \/ PruneRegister
    \/ \E h \in Handlers :
          \/ \E c \in Credentials : RevokeOne(h, c)
          \/ RevokeKubeconfigsForUser(h) \/ Revoking(h)
    \/ \E p \in Publishers : Step(p)
    \/ \E r \in Replicas : Refresh(r) \/ Crash(r) \/ Boot(r)

RevocationSpec == RevocationInit /\ [][RevocationNext]_revocationVars

\* Handlers go on, refreshers tick, and a store asked every interval answers.
RevocationFairness ==
    /\ \A h \in Handlers : WF_revocationVars(Revoking(h)) /\ WF_revocationVars(Step(h))
    /\ \A r \in Replicas :
          /\ WF_revocationVars(Refresh(r)) /\ WF_revocationVars(Publish(r))
          /\ SF_revocationVars(ReadKubeconfigs(r)) /\ SF_revocationVars(ReadSessions(r))

FairRevocationSpec == RevocationSpec /\ RevocationFairness

-----------------------------------------------------------------------------
(* What is checked. *)

\* Types; and nobody is refused whose credential was not withdrawn.
RevocationTypeOK ==
    /\ revoked \subseteq Credentials /\ pruned \subseteq Kubeconfigs /\ up \subseteq Replicas
    /\ life \in [Credentials -> 0..RowLife] /\ token \in [Sessions -> 0..AccessTTL]
    /\ minting \subseteq Sessions /\ signing \in [Sessions -> 0..AccessTTL]
    /\ late \subseteq Sessions
    /\ at \in [Publishers -> {"idle", "revoking", "kubeconfigs", "sessions", "store"}]
    /\ target \in [Handlers -> SUBSET revoked]
    /\ began \in [Publishers -> SUBSET revoked]
    /\ got \in [Publishers -> SUBSET revoked]
    /\ snapshot \in [Replicas -> SUBSET revoked]

\* What the register does not speak of, though a call could be made with it: a
\* kubeconfig that outlives the retention of its row, and a session whose token
\* outlives the row because it was signed after its lifetime was worked out.
Forgotten == pruned \cup {s \in late : token[s] > life[s]}

\* What is about to be published names everything that was withdrawn when its
\* reads began and that a call could still be made with, but for what the register
\* forgets: expired rows are left out because "nothing a session minted can outlive
\* it" (db/cli_sessions.go:226).
PublicationComplete ==
    \A p \in Publishers : at[p] = "store" =>
        \A c \in began[p] \ Forgotten : Valid(c) => c \in got[p]

\* A replica that refused a credential accepts it again only through a publication
\* whose reads began before the revocation, or if the register has forgotten it.
OnlyOlderUndoes ==
    [][\A r \in Replicas : \A c \in snapshot[r] \ Forgotten :
        r \in up \cap up' /\ c \notin snapshot'[r] /\ Valid(c)' =>
            \E p \in Publishers : /\ Place(p) = r /\ at[p] = "store"
                                  /\ c \notin began[p] /\ at'[p] = "idle"]_revocationVars

\* A handler whose publication is stored has published what it revoked, before it
\* answers (kubeconfigs.go:309), but for what the register has forgotten meanwhile.
AnsweredIsPublished ==
    [][\A h \in Handlers : at[h] = "store" /\ at'[h] = "idle" /\ Where[h] \in up' =>
        \A c \in target[h] \ Forgotten : Valid(c)' => c \in snapshot'[Where[h]]]_revocationVars

\* The strong form, which neither an older publication nor the retention pass keeps:
\* no call "afterwards on this replica" (kubeconfigs.go:309-310).
StaysRefused ==
    [][\A r \in Replicas : \A c \in snapshot[r] :
        r \in up \cap up' /\ Valid(c)' => c \in snapshot'[r]]_revocationVars

\* Every replica that runs on comes to refuse a withdrawn credential for good while
\* the register remembers it, whatever publications overtake each other and whatever
\* was minted meanwhile.
RevocationLands ==
    \A r \in Replicas : \A c \in Credentials :
        <>[](r \in up) =>
            <>[](c \in revoked => c \in snapshot[r] \cup Forgotten \/ ~Valid(c))

\* Types, and what a publication is about to say.
PublicationsWhole == RevocationTypeOK /\ PublicationComplete

\* What is withdrawn is refused when its handler answers, is let back only by an
\* older publication or when its row is gone, and is refused for good in the end.
RevocationHolds == AnsweredIsPublished /\ OnlyOlderUndoes /\ RevocationLands
=============================================================================
