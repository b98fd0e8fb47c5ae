------------------------------- MODULE Strings -------------------------------
(* The words of a string, for the algorithms that look for them. *)
EXTENDS Integers, Sequences, FiniteSets

(* Where a maximal run without sep begins and ends in s. *)
Runs(s, sep) ==
  {r \in (DOMAIN s) \X (DOMAIN s) :
     /\ r[1] <= r[2]
     /\ \A k \in r[1] .. r[2] : s[k] # sep
     /\ r[1] = 1 \/ s[r[1] - 1] = sep
     /\ r[2] = Len(s) \/ s[r[2] + 1] = sep}

(* The maximal runs of s without sep, in order: what split_words returns   *)
(* (shown by the module SplitWords) for a string without NUL.              *)
Words(s, sep) ==
  LET runs == Runs(s, sep)
      UpTo(r) == {q \in runs : q[1] <= r[1]}
      Nth(n) == CHOOSE r \in runs : Cardinality(UpTo(r)) = n
  IN  [n \in 1 .. Cardinality(runs) |-> SubSeq(s, Nth(n)[1], Nth(n)[2])]
=============================================================================
