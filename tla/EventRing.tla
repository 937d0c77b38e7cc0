------------------------------ MODULE EventRing ------------------------------
(* The buffer of a cluster's events that a replica keeps for the timeline and the
   alarms (backend/pkg/api/events_watch.go): list, watch, and list again.

   The cluster's events change one at a time, and a resource version is a number
   of changes.  What the stream of a watch loses, it ends for (TunnelStream), so a
   watch is a position in the changes; but a line that cannot be read is passed
   over, and the watch kept.  The age bound of the ring is left out: the cluster
   forgets an event at the same age.                                            *)
EXTENDS Integers, Functions, SeqSums

CONSTANTS
    Uids,
    BufferSize,   \* eventBufferSize, of the ring and of a list's budget
    PageSize,     \* eventPageSize
    MaxChanges    \* bound: changes in the cluster

ASSUME RingBounds == BufferSize \in Nat \ {0} /\ PageSize \in Nat \ {0}

VARIABLES
    changes,   \* in the cluster
    feed,      \* where runEventWatch is; "none" when no watch is kept
    listed,    \* the version of the list's first page
    pages,     \* of the list, what is still to come
    scanned,
    position,  \* of the watch
    byUID,
    arrived,   \* the field order
    synced,
    left,      \* what the bounds have kept out since the last reset
    skipped    \* and whose latest line could not be read

ringVars == <<byUID, arrived, left, skipped>>
feedVars == <<feed, listed, pages, scanned, position, synced>>
eventVars == <<changes, feedVars, ringVars>>

\* What the cluster holds at a version.
HeldAt(v) ==
    {u \in Uids : \E i \in 1..v :
        /\ changes[i] = [uid |-> u, type |-> "put"]
        /\ \A j \in (i + 1)..v : changes[j].uid = u => changes[j].type = "put"}

RingInit ==
    /\ changes = <<>> /\ feed = "none" /\ listed = 0 /\ pages = {} /\ scanned = 0
    /\ position = 0 /\ byUID = {} /\ arrived = <<>> /\ synced = FALSE
    /\ left = {} /\ skipped = {}

\* An event is added or repeated; one that is deleted does not come back.
Change(u, type) ==
    /\ Len(changes) < MaxChanges
    /\ \A i \in DOMAIN changes : changes[i].uid = u => changes[i].type = "put"
    /\ type = "del" => u \in HeldAt(Len(changes))
    /\ changes' = Append(changes, [uid |-> u, type |-> type])
    /\ UNCHANGED <<feedVars, ringVars>>

-----------------------------------------------------------------------------
(* The ring. *)

\* trimLocked, after the event u is filed: the oldest arrivals make room.
Trimmed(filed, come) ==
    LET known == KeepOnly(come, filed)
        over == IF Len(known) > BufferSize THEN Len(known) - BufferSize ELSE 0
    IN  [order |-> SubSeq(known, over + 1, Len(known)),
         gone |-> {known[i] : i \in 1..over}]

\* put.  What is there already keeps its place.
PutEvent(u) ==
    LET t == Trimmed(byUID \cup {u}, IF u \in byUID THEN arrived ELSE Append(arrived, u))
    IN  /\ byUID' = (byUID \cup {u}) \ t.gone /\ arrived' = t.order
        /\ left' = left \cup t.gone /\ skipped' = skipped \ {u}

\* drop.
DropEvent(u) ==
    /\ byUID' = byUID \ {u} /\ skipped' = skipped \ {u}
    /\ UNCHANGED <<arrived, left>>

-----------------------------------------------------------------------------
(* runEventWatch. *)

\* eventRingFor, of a cluster nobody has asked for lately.
AskFirst ==
    /\ feed = "none" /\ feed' = "list"
    /\ UNCHANGED <<changes, listed, pages, scanned, position, synced, ringVars>>

\* releaseIdleEventWatches: the watch ends, and its ring is forgotten.
Release ==
    /\ feed # "none" /\ feed' = "none"
    /\ listed' = 0 /\ pages' = {} /\ scanned' = 0 /\ position' = 0 /\ synced' = FALSE
    /\ byUID' = {} /\ arrived' = <<>> /\ left' = {} /\ skipped' = {}
    /\ UNCHANGED changes

\* Mutant: a list merges into what is held.
StartListMerges ==
    /\ feed = "list" /\ feed' = "first"
    /\ UNCHANGED <<changes, listed, pages, scanned, position, synced, ringVars>>

\* syncEventRing begins: the ring is emptied, and still counts as synced if it did.
StartList ==
    /\ feed = "list" /\ feed' = "first"
    /\ byUID' = {} /\ arrived' = <<>> /\ left' = {} /\ skipped' = {}
    /\ UNCHANGED <<changes, listed, pages, scanned, position, synced>>

\* The first page has the version that the whole list is of.
FirstPage ==
    /\ feed = "first" /\ feed' = "pages"
    /\ listed' = Len(changes) /\ pages' = HeldAt(Len(changes)) /\ scanned' = 0
    /\ UNCHANGED <<changes, position, synced, ringVars>>

\* The next item, in the cluster's own order; a page ends before the budget is
\* looked at, and what is then still to come is left out.
ListItem(u) ==
    /\ feed = "pages" /\ u \in pages
    /\ IF scanned >= BufferSize /\ scanned % PageSize = 0
       THEN /\ pages' = {} /\ left' = left \cup pages
            /\ UNCHANGED <<byUID, arrived, scanned, skipped>>
       ELSE pages' = pages \ {u} /\ PutEvent(u) /\ scanned' = scanned + 1
    /\ UNCHANGED <<changes, feed, listed, position, synced>>

\* markSynced; then the watch opens from the list's version.
OpenWatch ==
    /\ feed = "pages" /\ pages = {}
    /\ feed' = "watch" /\ synced' = TRUE /\ position' = listed
    /\ UNCHANGED <<changes, listed, pages, scanned, ringVars>>

\* Mutant: the loop is left.
ListFailsReturns ==
    /\ feed \in {"first", "pages"}
    /\ feed' = "returned" /\ synced' = FALSE
    /\ UNCHANGED <<changes, listed, pages, scanned, position, ringVars>>

\* markFailed, and again after a while, with what the list had brought.
ListFails ==
    /\ feed \in {"first", "pages"}
    /\ feed' = "list" /\ synced' = FALSE
    /\ UNCHANGED <<changes, listed, pages, scanned, position, ringVars>>

\* applyWatchLine.
WatchLine ==
    /\ feed = "watch" /\ position < Len(changes)
    /\ position' = position + 1
    /\ LET c == changes[position + 1]
       IN  IF c.type = "put" THEN PutEvent(c.uid) ELSE DropEvent(c.uid)
    /\ UNCHANGED <<changes, feed, listed, pages, scanned, synced>>

\* A line that is not whole, or longer than lineAssembler holds: the event is passed
\* over and the watch goes on, the ring as synced as it was.
SkipLine ==
    /\ feed = "watch" /\ position < Len(changes)
    /\ position' = position + 1
    /\ skipped' = skipped \cup {changes[position + 1].uid}
    /\ UNCHANGED <<changes, feed, listed, pages, scanned, synced, byUID, arrived, left>>

\* The watch ends, or cannot be opened; the ring is as synced as it was.
WatchEnds ==
    /\ feed = "watch" /\ feed' = "list"
    /\ UNCHANGED <<changes, listed, pages, scanned, position, synced, ringVars>>

ListSteps == StartList \/ FirstPage \/ OpenWatch \/ \E u \in Uids : ListItem(u)

RingNext ==
    \/ \E u \in Uids, type \in {"put", "del"} : Change(u, type)
    \/ AskFirst \/ Release
    \/ ListSteps \/ ListFails \/ WatchLine \/ SkipLine \/ WatchEnds

RingSpec == RingInit /\ [][RingNext]_eventVars

\* The loop goes on.
FairRingSpec == RingSpec /\ WF_eventVars(ListSteps) /\ WF_eventVars(WatchLine)

-----------------------------------------------------------------------------
(* What is checked. *)

\* Types; and everything held has one place among the arrivals, which are within
\* the bound, so that nothing can be held for ever.
RingTypeOK ==
    /\ feed \in {"none", "list", "first", "pages", "watch"}
    /\ listed \in 0..Len(changes) /\ position \in 0..Len(changes)
    /\ pages \subseteq Uids /\ byUID \subseteq Range(arrived) /\ synced \in BOOLEAN
    /\ skipped \subseteq Uids
    /\ Len(arrived) <= BufferSize /\ IsInjective(arrived)

\* "No event between the list and the watch is missed" (events_watch.go:503), and
\* nothing the cluster has forgotten is kept: once listed, the ring is what the
\* cluster held at the watch's position, but for what the bounds kept out and the
\* events whose latest line could not be read.  One line that can be read, or the
\* next list, sets such an event right.
RingFollows ==
    feed = "watch" =>
        /\ byUID \subseteq HeldAt(position) \cup skipped
        /\ HeldAt(position) \subseteq byUID \cup left \cup skipped

\* The strong form: a ring that counts as synced is the cluster's at some version.
\* It is not while the list is read again, which "waiting a tick"
\* (alarms_watch.go:271) supposes, nor after a line passed over.
SyncedIsWhole ==
    synced => \E v \in 0..Len(changes) :
        byUID \subseteq HeldAt(v) /\ HeldAt(v) \subseteq byUID \cup left

\* A watch that is not released, of a cluster that comes to answer, reads up to the
\* cluster's last change again and again, and so for good once the cluster rests.
Answering == <>[][~ListFails /\ ~WatchEnds]_eventVars
RingCatchesUp ==
    <>[](feed # "none") /\ Answering =>
        []<>(feed = "watch" /\ position = Len(changes))

\* The ring's types, and what it holds while its watch runs.
RingWhole == RingTypeOK /\ RingFollows
=============================================================================
