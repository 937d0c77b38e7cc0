------------------------------- MODULE SeqSums -------------------------------
(* Two operators on sequences that several modules share: what a sequence of
   numbers adds up to, and what is left of a sequence when only some of its
   elements are kept.  Both are recursive functions on the length of a prefix, so
   that SeqSumsProofs can reason about them.                                   *)
EXTENDS Integers, Sequences

\* The first n elements, added up.
SumTo(s) ==
    LET sum[n \in 0..Len(s)] == IF n = 0 THEN 0 ELSE sum[n - 1] + s[n]
    IN  sum

Total(s) == SumTo(s)[Len(s)]

\* What of the first n elements is in S.
KeptTo(s, S) ==
    LET kept[n \in 0..Len(s)] ==
            IF n = 0 THEN <<>>
            ELSE IF s[n] \in S THEN Append(kept[n - 1], s[n]) ELSE kept[n - 1]
    IN  kept

KeepOnly(s, S) == KeptTo(s, S)[Len(s)]
=============================================================================
