--------------------------- MODULE SequenceFacts ---------------------------
(* The few facts about sequences that the proofs cite.                     *)
EXTENDS Sequences, Integers, TLAPS

\* A sequence is a function on the numbers from 1 to its length.
LEMMA LenProperties ==
  ASSUME NEW S, NEW q \in Seq(S)
  PROVE  Len(q) \in Nat /\ DOMAIN q = 1 .. Len(q) /\ q \in [1 .. Len(q) -> S]
  OBVIOUS

\* An element of a sequence over S is in S.
LEMMA ElementOfSeq ==
  ASSUME NEW S, NEW q \in Seq(S), NEW i \in 1 .. Len(q)
  PROVE  q[i] \in S
  OBVIOUS

\* The empty sequence, and only it, has length 0.
LEMMA EmptySeq ==
  ASSUME NEW S
  PROVE  << >> \in Seq(S) /\ Len(<< >>) = 0 /\ \A q \in Seq(S) : q # << >> => Len(q) \in Nat \ {0}
  OBVIOUS

\* What Append adds, and what it leaves as it was.
LEMMA AppendProperties ==
  ASSUME NEW S, NEW q \in Seq(S), NEW x \in S
  PROVE  /\ Append(q, x) \in Seq(S) /\ Append(q, x) # << >>
         /\ Len(Append(q, x)) = Len(q) + 1 /\ Append(q, x)[Len(q) + 1] = x
         /\ \A i \in 1 .. Len(q) : Append(q, x)[i] = q[i]
  OBVIOUS

\* The elements of a concatenation.
LEMMA ConcatProperties ==
  ASSUME NEW S, NEW p \in Seq(S), NEW q \in Seq(S)
  PROVE  /\ p \o q \in Seq(S) /\ Len(p \o q) = Len(p) + Len(q)
         /\ \A i \in 1 .. Len(p) + Len(q) :
              (p \o q)[i] = IF i <= Len(p) THEN p[i] ELSE q[i - Len(p)]
  OBVIOUS

\* The elements of a subsequence.
LEMMA SubSeqProperties ==
  ASSUME NEW S, NEW q, NEW m \in Int, NEW n \in Int, \A i \in m .. n : q[i] \in S
  PROVE  /\ SubSeq(q, m, n) \in Seq(S)
         /\ Len(SubSeq(q, m, n)) = IF m <= n THEN n - m + 1 ELSE 0
         /\ \A i \in 1 .. n - m + 1 : SubSeq(q, m, n)[i] = q[m + i - 1]
  OBVIOUS
=============================================================================
