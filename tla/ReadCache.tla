------------------------------ MODULE ReadCache ------------------------------
(* The cache of live reads: its table, and the middleware that fills it after a
   read and empties a cluster's scope after a write (backend/pkg/cache/cache.go,
   backend/pkg/api/resource_cache.go).

   A cluster's contents are the number of writes it has taken; a key is a question
   of one caller about one cluster.  A hit changes nothing and is no step.      *)
EXTENDS Integers, FiniteSets

CONSTANTS
    Clusters,
    Keys,
    ClusterOf,   \* the scope of each key
    Life,        \* readTTL of each key, 0 for the cache's own
    DefaultTTL,
    MaxEntries,
    Readers,
    Writers,
    MaxWrites    \* bound: writes to each cluster

ASSUME KeysHaveScopes == ClusterOf \in [Keys -> Clusters] /\ Life \in [Keys -> Nat]
ASSUME CacheBounds ==
    DefaultTTL \in Nat \ {0} /\ MaxEntries \in Nat \ {0} /\ MaxWrites \in Nat

VARIABLES
    version,   \* of each cluster
    answered,  \* the version of the last write answered as done and invalidated
    entries,   \* a function on the keys that are filed
    reader,    \* each request's read
    writer     \* each request's write

cacheVars == <<version, answered, entries, reader, writer>>

Resting == [at |-> "idle"]
\* raced: the scope was invalidated between the read and its filing.
Answers(at) == [at : {at}, key : Keys, seen : 0..MaxWrites, raced : BOOLEAN]

CacheInit ==
    /\ version = [c \in Clusters |-> 0] /\ answered = [c \in Clusters |-> 0]
    /\ entries = [k \in {} |-> 0]
    /\ reader = [r \in Readers |-> Resting] /\ writer = [w \in Writers |-> Resting]

-----------------------------------------------------------------------------
(* The table. *)

\* Mutant: the moment of expiry is in.
LiveAtExpiry(e) == e.left >= 0

Live(e) == e.left > 0
Keep(K) == [k \in K |-> entries[k]]

Expire ==
    /\ \E k \in DOMAIN entries : entries[k].left > 0
    /\ entries' = [k \in DOMAIN entries |->
          [entries[k] EXCEPT !.left = IF @ > 0 THEN @ - 1 ELSE 0]]
    /\ UNCHANGED <<version, answered, reader, writer>>

\* evictLocked: what may be left of the table.  A quarter goes, of equal ones any.
Evict(K) ==
    LET live == {k \in DOMAIN entries : Live(entries[k])}
        drop == IF Cardinality(live) < 8 THEN 1 ELSE Cardinality(live) \div 4
    IN  IF Cardinality(live) < MaxEntries THEN K = live
        ELSE /\ K \subseteq live /\ Cardinality(K) = Cardinality(live) - drop
             /\ \A k \in K, d \in live \ K : entries[d].left <= entries[k].left

-----------------------------------------------------------------------------
(* cachedRead, of a GET: Get, the handler, PutFor. *)

\* A miss, which drops an entry that has expired; with no-cache nothing is looked up.
Miss(r, k, noCache) ==
    /\ reader[r] = Resting
    /\ k \in DOMAIN entries => noCache \/ ~Live(entries[k])
    /\ entries' = Keep(IF noCache THEN DOMAIN entries ELSE DOMAIN entries \ {k})
    /\ reader' = [reader EXCEPT ![r] =
          [at |-> "asking", key |-> k, seen |-> 0, raced |-> FALSE]]
    /\ UNCHANGED <<version, answered, writer>>

\* The cluster answers.
ClusterAnswers(r) ==
    /\ reader[r].at = "asking"
    /\ reader' = [reader EXCEPT ![r] =
          [@ EXCEPT !.at = "answered", !.seen = version[ClusterOf[reader[r].key]]]]
    /\ UNCHANGED <<version, answered, entries, writer>>

\* PutFor.
FileAnswer(r) ==
    LET k == reader[r].key
    IN  /\ reader[r].at = "answered"
        /\ \E K \in SUBSET DOMAIN entries :
              /\ IF Cardinality(DOMAIN entries) < MaxEntries
                 THEN K = DOMAIN entries ELSE Evict(K)
              /\ entries' = [j \in K \cup {k} |->
                    IF j # k THEN entries[j]
                    ELSE [seen |-> reader[r].seen, raced |-> reader[r].raced,
                          left |-> IF Life[k] = 0 THEN DefaultTTL ELSE Life[k]]]
        /\ reader' = [reader EXCEPT ![r] = Resting]
        /\ UNCHANGED <<version, answered, writer>>

\* Not a 200, or too large: it is served and not filed.
NotCacheable(r) ==
    /\ reader[r] # Resting
    /\ reader' = [reader EXCEPT ![r] = Resting]
    /\ UNCHANGED <<version, answered, entries, writer>>

-----------------------------------------------------------------------------
(* cachedRead, of a write. *)

\* The cluster takes it.
ClusterTakes(w, c) ==
    /\ writer[w] = Resting /\ version[c] < MaxWrites
    /\ version' = [version EXCEPT ![c] = @ + 1]
    /\ writer' = [writer EXCEPT ![w] = [at |-> "done", to |-> c, wrote |-> version'[c]]]
    /\ UNCHANGED <<answered, entries, reader>>

Answered(w) ==
    /\ writer' = [writer EXCEPT ![w] = Resting]
    /\ answered' = [answered EXCEPT ![writer[w].to] =
          IF @ < writer[w].wrote THEN writer[w].wrote ELSE @]
    /\ UNCHANGED version

\* Mutant: reads with a lifetime of their own are exempt.
InvalidateScopeDefault(w) ==
    /\ writer[w].at = "done" /\ Answered(w)
    /\ entries' = Keep({k \in DOMAIN entries :
          ClusterOf[k] # writer[w].to \/ Life[k] # 0})
    /\ UNCHANGED reader

\* InvalidateScope, once the handler has answered 2xx.
InvalidateScope(w) ==
    LET c == writer[w].to
    IN  /\ writer[w].at = "done" /\ Answered(w)
        /\ entries' = Keep({k \in DOMAIN entries : ClusterOf[k] # c})
        /\ reader' = [r \in Readers |->
              IF reader[r].at = "answered" /\ ClusterOf[reader[r].key] = c
              THEN [reader[r] EXCEPT !.raced = TRUE] ELSE reader[r]]

\* The cluster took it and the answer was lost: nothing is invalidated.
WriteUnanswered(w) ==
    /\ writer[w].at = "done"
    /\ writer' = [writer EXCEPT ![w] = Resting]
    /\ UNCHANGED <<version, answered, entries, reader>>

EndsRead(r) == ClusterAnswers(r) \/ FileAnswer(r) \/ NotCacheable(r)

CacheNext ==
    \/ Expire
    \/ \E r \in Readers :
          (\E k \in Keys, noCache \in BOOLEAN : Miss(r, k, noCache)) \/ EndsRead(r)
    \/ \E w \in Writers :
          \/ \E c \in Clusters : ClusterTakes(w, c)
          \/ InvalidateScope(w) \/ WriteUnanswered(w)

CacheSpec == CacheInit /\ [][CacheNext]_cacheVars

\* Time passes, and every read has a deadline.
FairCacheSpec ==
    CacheSpec /\ WF_cacheVars(Expire) /\ \A r \in Readers : WF_cacheVars(EndsRead(r))

-----------------------------------------------------------------------------
(* What is checked. *)

\* Types, and the ceiling "that keeps a cache from becoming a leak" (cache.go:48).
CacheTypeOK ==
    /\ version \in [Clusters -> 0..MaxWrites]
    /\ \A c \in Clusters : answered[c] \in 0..version[c]
    /\ DOMAIN entries \subseteq Keys /\ Cardinality(DOMAIN entries) <= MaxEntries
    /\ \A k \in DOMAIN entries : entries[k].seen \in 0..version[ClusterOf[k]]
    /\ reader \in [Readers -> {Resting} \cup Answers("asking") \cup Answers("answered")]

\* A write that was answered is missing only from an entry whose read had its answer
\* before the scope was invalidated and was filed after: "a write to it drops the
\* lot" (cache.go:21), for every entry, of every caller.
StaleOnlyIfRaced ==
    \A k \in DOMAIN entries :
        entries[k].seen < answered[ClusterOf[k]] => entries[k].raced

\* To make room, no live entry goes while an expired one is there to drop, nor one
\* with more life left than one that stays.
LeastLifeGoes ==
    [][\A r \in Readers : reader[r] # Resting /\ reader'[r] = Resting =>
        \A d \in DOMAIN entries \ DOMAIN entries' : Live(entries[d]) =>
            /\ \A k \in DOMAIN entries : Live(entries[k])
            /\ \A k \in DOMAIN entries' \ {reader[r].key} :
                  entries[d].left <= entries[k].left]_cacheVars

\* Whatever raced, and whatever write was taken but not answered, once a cluster
\* rests every answer served is of what it holds.
CatchesUp ==
    \A k \in Keys : <>[](k \in DOMAIN entries /\ Live(entries[k])
                            => entries[k].seen = version[ClusterOf[k]])

\* Types, the ceiling, and what an entry may be missing.
EntriesSound == CacheTypeOK /\ StaleOnlyIfRaced

\* The cache makes room by what is worth least, and catches up with its clusters.
CacheSettles == LeastLifeGoes /\ CatchesUp
=============================================================================
