--------------------------- MODULE TunnelAssembly ---------------------------
(* The correlation table of one agent tunnel (backend/pkg/bastion/registry.go).

   Every proxied call that waits on the tunnel has an entry in t.pending.  An
   agent that negotiated "response-parts" sends a body ahead of the response
   that ends it; the parts are filed on the entry and joined when the final
   frame arrives.  t.assembled counts the bytes all entries hold together and
   is what bounds the memory one agent can make the server hold.

   Each operation runs under t.mu, so each is one action.  Nothing is assumed
   here of the order, number, size or correlation ID of the frames: Next takes
   any of them at any time.  TunnelCalls composes these operations with the
   callers, the two queues and the agent that produces the frames.           *)
EXTENDS Integers, FiniteSets

CONSTANTS
    Calls,      \* the correlation IDs one tunnel hands out
    BodyLimit,  \* maxResponseBody: most bytes of one joined body
    Budget,     \* assemblyBudget: most bytes of all partial bodies
    MaxChunk    \* most bytes one frame carries

ASSUME CallsFinite == IsFiniteSet(Calls)
ASSUME BoundsNat == /\ BodyLimit \in Nat
                    /\ Budget \in Nat
                    /\ MaxChunk \in Nat

VARIABLES
    issued,     \* IDs t.nextID has handed out, never reused
    pending,    \* keys of t.pending
    body,       \* len(pendingCall.body) of each entry
    failure,    \* pendingCall.failure
    assembled,  \* t.assembled
    replies     \* what the entry's one-place reply channel holds

assemblyVars == <<issued, pending, body, failure, assembled, replies>>

Failures == {"none", "tooLarge", "budget"}

NoReply == [kind |-> "none", size |-> 0]
BodyReply(n) == [kind |-> "body", size |-> n]
ErrorReply(cause) == [kind |-> cause, size |-> 0]

Replies == [kind : {"none", "body", "agent", "tooLarge", "budget"}, size : Nat]

-----------------------------------------------------------------------------
AssemblyInit ==
    /\ issued = {}
    /\ pending = {}
    /\ body = [c \in Calls |-> 0]
    /\ failure = [c \in Calls |-> "none"]
    /\ assembled = 0
    /\ replies = [c \in Calls |-> NoReply]

\* Do mints an ID and files an empty entry under it.
Register(c) ==
    /\ c \notin issued
    /\ issued' = issued \cup {c}
    /\ pending' = pending \cup {c}
    /\ UNCHANGED <<body, failure, assembled, replies>>

\* failLocked: the entry gives up on its body and releases what it held.
FailCall(c, cause) ==
    /\ assembled' = assembled - body[c]
    /\ body' = [body EXCEPT ![c] = 0]
    /\ failure' = [failure EXCEPT ![c] = cause]

Collecting(c) == c \in pending /\ failure[c] = "none"

\* Mutant: only the single body is bounded, not what all of them hold.
AddPartNoBudget(c, n) ==
    /\ \/ /\ ~Collecting(c)
          /\ UNCHANGED <<body, failure, assembled>>
       \/ /\ Collecting(c)
          /\ body[c] + n > BodyLimit
          /\ FailCall(c, "tooLarge")
       \/ /\ Collecting(c)
          /\ body[c] + n <= BodyLimit
          /\ body' = [body EXCEPT ![c] = @ + n]
          /\ assembled' = assembled + n
          /\ UNCHANGED failure
    /\ UNCHANGED <<issued, pending, replies>>

\* A part of n bytes for c.  Nobody waiting, or a body already given up on,
\* drops it; one past either bound fails its own call.
AddPart(c, n) ==
    /\ \/ /\ ~Collecting(c)
          /\ UNCHANGED <<body, failure, assembled>>
       \/ /\ Collecting(c)
          /\ body[c] + n > BodyLimit
          /\ FailCall(c, "tooLarge")
       \/ /\ Collecting(c)
          /\ body[c] + n <= BodyLimit
          /\ assembled + n > Budget
          /\ FailCall(c, "budget")
       \/ /\ Collecting(c)
          /\ body[c] + n <= BodyLimit
          /\ assembled + n <= Budget
          /\ body' = [body EXCEPT ![c] = @ + n]
          /\ assembled' = assembled + n
          /\ UNCHANGED failure
    /\ UNCHANGED <<issued, pending, replies>>

\* What the caller gets for a final frame of n bytes, or one carrying an error.
Answer(c, n, err) ==
    IF err THEN ErrorReply("agent")
    ELSE IF failure[c] # "none" THEN ErrorReply(failure[c])
    ELSE IF body[c] + n > BodyLimit THEN ErrorReply("tooLarge")
    ELSE BodyReply(body[c] + n)

\* The final frame: join the parts, release them, hand the answer over.  The
\* channel holds one reply; a second final frame finds it full and is lost.
Complete(c, n, err) ==
    /\ \/ /\ c \notin pending
          /\ UNCHANGED <<body, failure, assembled, replies>>
       \/ /\ c \in pending
          /\ assembled' = assembled - body[c]
          /\ body' = [body EXCEPT ![c] = 0]
          /\ failure' = [failure EXCEPT ![c] = "none"]
          /\ replies' = [replies EXCEPT
                           ![c] = IF @ = NoReply THEN Answer(c, n, err) ELSE @]
    /\ UNCHANGED <<issued, pending>>

\* Mutant: leaving does not give the bytes back to the budget.
ForgetKeepsBytes(c) ==
    /\ c \in pending
    /\ pending' = pending \ {c}
    /\ body' = [body EXCEPT ![c] = 0]
    /\ failure' = [failure EXCEPT ![c] = "none"]
    /\ replies' = [replies EXCEPT ![c] = NoReply]
    /\ UNCHANGED <<issued, assembled>>

\* The caller leaves, answered or not, and releases what its entry held.
Forget(c) ==
    /\ c \in pending
    /\ pending' = pending \ {c}
    /\ assembled' = assembled - body[c]
    /\ body' = [body EXCEPT ![c] = 0]
    /\ failure' = [failure EXCEPT ![c] = "none"]
    /\ replies' = [replies EXCEPT ![c] = NoReply]
    /\ UNCHANGED issued

AssemblyNext ==
    \E c \in Calls :
        \/ Register(c)
        \/ Forget(c)
        \/ \E n \in 0..MaxChunk :
              \/ AddPart(c, n)
              \/ \E err \in BOOLEAN : Complete(c, n, err)

AssemblySpec == AssemblyInit /\ [][AssemblyNext]_assemblyVars

-----------------------------------------------------------------------------
\* Every variable of the table has its type.
AssemblyTypeOK ==
    /\ issued \subseteq Calls
    /\ pending \subseteq issued
    /\ body \in [Calls -> Nat]
    /\ failure \in [Calls -> Failures]
    /\ assembled \in Int
    /\ replies \in [Calls -> Replies]

\* The bytes held when call c holds f[c], one element per byte.
HeldOf(f) == {u \in Calls \X (1..BodyLimit) : u[2] <= f[u[1]]}

Held == HeldOf(body)

\* t.assembled is exactly what the entries hold: no path through addPart,
\* failLocked, complete and forget releases bytes twice or leaves any behind.
AccountingExact == assembled = Cardinality(Held)

\* The tunnel never holds more than assemblyBudget of partial responses, nor
\* one call more than maxResponseBody, whatever frames arrive (addPart).
WithinBounds ==
    /\ assembled <= Budget
    /\ \A c \in Calls : body[c] <= BodyLimit

\* Only a call somebody waits on holds bytes, and a failed one holds none, so
\* a tunnel nobody waits on holds nothing (forget, failLocked).
OnlyWaitersHold ==
    \A c \in Calls :
        body[c] > 0 => c \in pending /\ failure[c] = "none"

\* The table is exact: the counter says what the entries hold, and only the calls
\* somebody waits on hold anything, however callers leave and frames come.
TableExact == AssemblyTypeOK /\ AccountingExact /\ OnlyWaitersHold
=============================================================================
