---------------------------- MODULE StringLemmas ----------------------------
(***************************************************************************)
(* What the proofs about strings rest on: least and greatest elements,     *)
(* induction over the naturals with a set in place of a predicate, what    *)
(* one character more does to the words of a string, what one more         *)
(* occurrence replaced does to the rest of it, and what stands where in a  *)
(* part of a string.                                                       *)
(***************************************************************************)
EXTENDS Strings, SequenceTheorems, FiniteSetTheorems, TLAPS

LessThan == {ss \in Nat \X Nat : ss[1] < ss[2]}

LEMMA LessThanWellFounded == IsWellFoundedOn(LessThan, Nat)
BY NatLessThanWellFounded, Zenon DEF LessThan, OpToRel

(* Every set of naturals that is not empty has a least element. *)
LEMMA LeastNat ==
  ASSUME NEW T \in SUBSET Nat, T # {}
  PROVE  \E x \in T : \A y \in T : x <= y
<1>1. PICK x \in T : \A y \in T : ~(<<y, x>> \in LessThan)
  BY LessThanWellFounded, WFMin, Zenon
<1>2. ASSUME NEW y \in T
      PROVE  x <= y
  <2>1. x \in Nat /\ y \in Nat
    OBVIOUS
  <2>2. ~(<<y, x>> \in LessThan)
    BY <1>1, Zenon
  <2> QED
    BY <2>1, <2>2 DEF LessThan
<1> QED
  BY <1>2

(* Every set of integers with an upper bound has a greatest element. *)
LEMMA GreatestInt ==
  ASSUME NEW T \in SUBSET Int, T # {}, NEW n \in Int, \A y \in T : y <= n
  PROVE  \E x \in T : \A y \in T : y <= x
<1> DEFINE U == {n - y : y \in T}
<1>1. U \in SUBSET Nat /\ U # {}
  <2>1. \A y \in T : n - y \in Nat
    OBVIOUS
  <2>2. U # {}
    BY Zenon
  <2>3. \A u \in U : u \in Nat
    BY <2>1, Zenon
  <2> QED
    BY <2>2, <2>3, Zenon
<1>2. PICK u \in U : \A z \in U : u <= z
  BY <1>1, LeastNat, Zenon
<1>3. PICK x \in T : u = n - x
  BY <1>2, Zenon
<1>4. ASSUME NEW y \in T
      PROVE  y <= x
  <2>1. u <= n - y
    BY <1>2
  <2> QED
    BY <1>3, <2>1
<1> QED
  BY <1>4

(* Induction: a set with 0 and every successor has all the naturals. *)
LEMMA SetInduction ==
  ASSUME NEW P, 0 \in P, \A n \in Nat : n \in P => n + 1 \in P
  PROVE  \A n \in Nat : n \in P
<1> DEFINE T == {n \in Nat : n \notin P}
<1> SUFFICES ASSUME T # {} PROVE FALSE
  OBVIOUS
<1>1. PICK x \in T : \A y \in T : x <= y
  BY LeastNat
<1>2. x # 0 /\ x - 1 \in Nat /\ (x - 1) + 1 = x
  OBVIOUS
<1>3. x - 1 \in P
  BY <1>1, <1>2
<1> QED
  BY <1>2, <1>3

-----------------------------------------------------------------------------
(* The words of a string *)

(* A run of s: characters a to b, none of them sep, as many as there are. *)
IsRun(s, sep, a, b) ==
  /\ a \in 1 .. Len(s) /\ b \in 1 .. Len(s) /\ a <= b
  /\ \A k \in a .. b : s[k] # sep
  /\ a = 1 \/ s[a - 1] = sep
  /\ b = Len(s) \/ s[b + 1] = sep

LEMMA RunsAre ==
  ASSUME NEW C, NEW s \in Seq(C), NEW sep
  PROVE  /\ \A q \in Runs(s, sep) : q = <<q[1], q[2]>> /\ IsRun(s, sep, q[1], q[2])
         /\ \A a, b : IsRun(s, sep, a, b) => <<a, b>> \in Runs(s, sep)
<1>1. DOMAIN s = 1 .. Len(s)
  OBVIOUS
<1>2. \A q \in Runs(s, sep) : q = <<q[1], q[2]>> /\ IsRun(s, sep, q[1], q[2])
  BY <1>1 DEF Runs, IsRun
<1>3. ASSUME NEW a, NEW b, IsRun(s, sep, a, b)
      PROVE  <<a, b>> \in Runs(s, sep)
  <2> DEFINE r == <<a, b>>
  <2>0. a \in DOMAIN s /\ b \in DOMAIN s
    BY <1>1, <1>3, Zenon DEF IsRun
  <2>1. r \in (DOMAIN s) \X (DOMAIN s) /\ r[1] = a /\ r[2] = b
    BY <2>0, Zenon
  <2> HIDE DEF r
  <2>2. r \in Runs(s, sep)
    BY <1>3, <2>1, Zenon DEF Runs, IsRun
  <2> QED
    BY <2>2 DEF r
<1> QED
  BY <1>2, <1>3

(* Two runs with a character in common are one. *)
LEMMA RunsApart ==
  ASSUME NEW C, NEW s \in Seq(C), NEW sep, NEW a, NEW b, NEW c, NEW d,
         IsRun(s, sep, a, b), IsRun(s, sep, c, d), a <= c, c <= b
  PROVE  a = c /\ b = d
<1>1. a \in Int /\ b \in Int /\ c \in Int /\ d \in Int /\ Len(s) \in Int
  BY DEF IsRun
<1>2. a = c
  <2> SUFFICES ASSUME a < c PROVE FALSE
    BY <1>1
  <2>1. c - 1 \in a .. b /\ c # 1
    BY <1>1 DEF IsRun
  <2> QED
    BY <2>1 DEF IsRun
<1>3. ~(b < d)
  <2> SUFFICES ASSUME b < d PROVE FALSE
    OBVIOUS
  <2>1. b + 1 \in c .. d /\ b # Len(s)
    BY <1>1 DEF IsRun
  <2> QED
    BY <2>1 DEF IsRun
<1>4. ~(d < b)
  <2> SUFFICES ASSUME d < b PROVE FALSE
    OBVIOUS
  <2>1. d + 1 \in a .. b /\ d # Len(s)
    BY <1>1 DEF IsRun
  <2> QED
    BY <2>1 DEF IsRun
<1> QED
  BY <1>1, <1>2, <1>3, <1>4

(* Every character that is not sep is in a run. *)
LEMMA RunAround ==
  ASSUME NEW C, NEW s \in Seq(C), NEW sep, NEW i \in 1 .. Len(s), s[i] # sep
  PROVE  \E a \in 1 .. i, b \in i .. Len(s) : IsRun(s, sep, a, b)
<1> DEFINE before == {k \in 0 .. i - 1 : k = 0 \/ s[k] = sep}
           behind == {k \in i + 1 .. Len(s) + 1 : k = Len(s) + 1 \/ s[k] = sep}
<1>0. Len(s) \in Nat /\ i \in Int
  OBVIOUS
<1>1. PICK k \in before : \A j \in before : j <= k
  <2>1. before \in SUBSET Int /\ 0 \in before /\ \A j \in before : j <= i
    BY <1>0
  <2> HIDE DEF before
  <2> QED
    BY <2>1, <1>0, GreatestInt
<1>2. PICK l \in behind : \A j \in behind : l <= j
  <2>1. behind \in SUBSET Nat /\ Len(s) + 1 \in behind
    BY <1>0
  <2> HIDE DEF behind
  <2> QED
    BY <2>1, LeastNat
<1>3. ASSUME NEW j \in k + 1 .. l - 1
      PROVE  s[j] # sep
  <2>1. j <= i - 1 => j \in 0 .. i - 1 /\ j # 0 /\ ~(j <= k)
    BY <1>0, <1>1, <1>3
  <2>2. j >= i + 1 => j \in i + 1 .. Len(s) + 1 /\ j # Len(s) + 1 /\ ~(l <= j)
    BY <1>0, <1>2, <1>3
  <2>3. j \in Int
    BY <1>0, <1>1, <1>2
  <2> QED
    BY <1>0, <1>1, <1>2, <2>1, <2>2, <2>3
<1>4. IsRun(s, sep, k + 1, l - 1)
  BY <1>0, <1>1, <1>2, <1>3 DEF IsRun
<1> QED
  BY <1>0, <1>1, <1>2, <1>4

(* The runs of s in order, r, and what stands in them, ws. *)
RunList(r, k, s, sep) ==
  /\ r \in [1 .. k -> Nat \X Nat]
  /\ \A i \in 1 .. k : IsRun(s, sep, r[i][1], r[i][2])
  /\ \A a, b : IsRun(s, sep, a, b) => \E i \in 1 .. k : r[i] = <<a, b>>
  /\ \A i, j \in 1 .. k : i < j => r[i][1] < r[j][1]

Spells(ws, r, s) == \A i \in 1 .. Len(ws) : ws[i] = SubSeq(s, r[i][1], r[i][2])

WordList(ws, s, sep) == \E r : RunList(r, Len(ws), s, sep) /\ Spells(ws, r, s)

(* There is only one such list. *)
LEMMA WordListIsWords ==
  ASSUME NEW C, NEW s \in Seq(C), NEW sep, NEW ws \in Seq(Seq(C)), WordList(ws, s, sep)
  PROVE  ws = Words(s, sep)
<1> DEFINE k == Len(ws)
           runs == Runs(s, sep)
           UpTo(q) == {p \in runs : p[1] <= q[1]}
           Nth(n) == CHOOSE q \in runs : Cardinality(UpTo(q)) = n
<1>1. PICK r : RunList(r, k, s, sep) /\ Spells(ws, r, s)
  BY Zenon DEF WordList
<1>2. k \in Nat
  OBVIOUS
<1>3. /\ r \in [1 .. k -> runs]
      /\ \A q \in runs : \E i \in 1 .. k : r[i] = q
  <2>1. ASSUME NEW i \in 1 .. k PROVE r[i] \in runs
    <3>0. r[i] \in Nat \X Nat
      BY <1>1, <2>1, Zenon DEF RunList
    <3>1. r[i] = <<r[i][1], r[i][2]>>
      BY <3>0
    <3>2. IsRun(s, sep, r[i][1], r[i][2])
      BY <1>1, Zenon DEF RunList
    <3>3. <<r[i][1], r[i][2]>> \in runs
      BY <3>2, RunsAre, Zenon
    <3> QED
      BY <3>1, <3>3, Zenon
  <2>2. ASSUME NEW q \in runs PROVE \E i \in 1 .. k : r[i] = q
    <3>1. q = <<q[1], q[2]>> /\ IsRun(s, sep, q[1], q[2])
      BY RunsAre, Zenon
    <3>2. PICK i \in 1 .. k : r[i] = <<q[1], q[2]>>
      BY <1>1, <3>1, Zenon DEF RunList
    <3> QED
      BY <3>1, <3>2, Zenon
  <2>3. r \in [1 .. k -> Nat \X Nat]
    BY <1>1, Zenon DEF RunList
  <2> HIDE DEF k, runs
  <2> QED
    BY <2>1, <2>2, <2>3
<1>4. \A i, j \in 1 .. k : r[i][1] <= r[j][1] <=> i <= j
  <2>1. \A i \in 1 .. k : r[i][1] \in Nat
    BY <1>1 DEF RunList
  <2>2. \A i, j \in 1 .. k : i < j => r[i][1] < r[j][1]
    BY <1>1, Zenon DEF RunList
  <2> HIDE DEF k
  <2>3. ASSUME NEW i \in 1 .. k, NEW j \in 1 .. k
        PROVE  r[i][1] <= r[j][1] <=> i <= j
    <3>1. r[i][1] \in Nat /\ r[j][1] \in Nat /\ i \in Int /\ j \in Int
      BY <1>2, <2>1
    <3>2. i < j => r[i][1] < r[j][1]
      BY <2>2, Zenon
    <3>3. j < i => r[j][1] < r[i][1]
      BY <2>2, Zenon
    <3>4. i = j => r[i][1] = r[j][1]
      OBVIOUS
    <3> QED
      BY <3>1, <3>2, <3>3, <3>4
  <2> QED
    BY <2>3, Zenon
<1> HIDE DEF k, runs
<1>5. ASSUME NEW n \in 0 .. k, NEW T, r \in [1 .. k -> runs],
             T = {r[i] : i \in 1 .. n}
      PROVE  Cardinality(T) = n
  <2> DEFINE f == [i \in 1 .. n |-> r[i]]
  <2>1. \A i \in 1 .. n : i \in 1 .. k
    BY <1>2
  <2>2. ASSUME NEW i \in 1 .. n, NEW j \in 1 .. n, r[i] = r[j]
        PROVE  i = j
    <3>1. i \in 1 .. k /\ j \in 1 .. k
      BY <2>1, Zenon
    <3>2. i \in Int /\ j \in Int /\ i <= i
      BY <1>2
    <3>3. r[i][1] <= r[j][1] /\ r[j][1] <= r[i][1]
      BY <1>4, <2>2, <3>1, <3>2, Zenon
    <3>4. i <= j /\ j <= i
      BY <1>4, <3>1, <3>3, Zenon
    <3> QED
      BY <3>2, <3>4
  <2>3. f \in Bijection(1 .. n, T)
    BY <1>5, <2>2, Zenon DEF Bijection, Injection, Surjection, IsInjective
  <2>4. ExistsBijection(1 .. n, T)
    BY <2>3, Zenon DEF ExistsBijection
  <2>5. n \in Nat
    BY <1>2
  <2> QED
    BY <2>4, <2>5, FS_CountingElements, Zenon
<1>6. Cardinality(runs) = k
  <2>1. runs = {r[i] : i \in 1 .. k}
    BY <1>3, Zenon
  <2>2. k \in 0 .. k
    BY <1>2
  <2> QED
    BY <1>3, <1>5, <2>1, <2>2, Zenon
<1>7. ASSUME NEW n \in 1 .. k
      PROVE  Cardinality(UpTo(r[n])) = n
  <2>1. UpTo(r[n]) = {r[i] : i \in 1 .. n}
    <3>1. \A i \in 1 .. k : i \in 1 .. n <=> i <= n
      BY <1>2, <1>7
    <3>2. \A i \in 1 .. n : i \in 1 .. k
      BY <1>2, <1>7
    <3>3. ASSUME NEW p \in UpTo(r[n])
          PROVE  p \in {r[i] : i \in 1 .. n}
      <4>1. PICK i \in 1 .. k : r[i] = p
        BY <1>3, Zenon
      <4>2. p[1] <= r[n][1]
        BY Zenon
      <4>3. i <= n
        BY <1>4, <1>7, <4>1, <4>2, Zenon
      <4> QED
        BY <3>1, <4>1, <4>3, Zenon
    <3>4. ASSUME NEW i \in 1 .. n
          PROVE  r[i] \in UpTo(r[n])
      <4>1. i \in 1 .. k /\ i <= n
        BY <3>1, <3>2, <3>4, Zenon
      <4>2. r[i] \in runs
        BY <1>3, <4>1, Zenon
      <4>3. r[i][1] <= r[n][1]
        BY <1>4, <1>7, <4>1, Zenon
      <4> QED
        BY <4>2, <4>3, Zenon
    <3> QED
      BY <3>3, <3>4, Zenon
  <2>2. n \in 0 .. k
    BY <1>2
  <2> QED
    BY <1>3, <1>5, <2>1, <2>2, Zenon
<1>8. ASSUME NEW n \in 1 .. k
      PROVE  Nth(n) = r[n]
  <2>1. r[n] \in runs /\ Cardinality(UpTo(r[n])) = n
    BY <1>3, <1>7, <1>8, Zenon
  <2>2. ASSUME NEW q \in runs, Cardinality(UpTo(q)) = n
        PROVE  q = r[n]
    BY <1>3, <1>7, <2>2, Zenon
  <2> QED
    BY <2>1, <2>2, Zenon
<1>9. Words(s, sep) = [n \in 1 .. Cardinality(runs) |-> SubSeq(s, Nth(n)[1], Nth(n)[2])]
  BY Zenon DEF Words, runs
<1> HIDE DEF UpTo, Nth
<1>10. Words(s, sep) = [n \in 1 .. k |-> SubSeq(s, r[n][1], r[n][2])]
  BY <1>6, <1>8, <1>9, Zenon
<1>11. ws = [n \in 1 .. k |-> ws[n]]
  BY DEF k
<1>12. \A n \in 1 .. k : ws[n] = SubSeq(s, r[n][1], r[n][2])
  BY <1>1, Zenon DEF Spells, k
<1> QED
  BY <1>10, <1>11, <1>12, Zenon

(* What stands in s stands in what is longer. *)
LEMMA SameText ==
  ASSUME NEW C, NEW s \in Seq(C), NEW c \in C, NEW a \in 1 .. Len(s), NEW b \in 1 .. Len(s)
  PROVE  SubSeq(Append(s, c), a, b) = SubSeq(s, a, b)
<1>1. Append(s, c) = s \o <<c>> /\ <<c>> \in Seq(C)
  BY AppendIsConcat
<1> QED
  BY <1>1, SubSeqOfConcat1

(* How a character more changes the runs: a separator not at all, ...      *)
LEMMA RunsWithSep ==
  ASSUME NEW C, NEW s \in Seq(C), NEW sep \in C, NEW a, NEW b
  PROVE  IsRun(Append(s, sep), sep, a, b) <=> IsRun(s, sep, a, b)
<1> DEFINE t == Append(s, sep)
<1>1. /\ Len(t) = Len(s) + 1 /\ t[Len(s) + 1] = sep
      /\ \A k \in 1 .. Len(s) : t[k] = s[k]
      /\ Len(s) \in Nat
  BY AppendProperties
<1> HIDE DEF t
<1>2. ASSUME IsRun(t, sep, a, b)
      PROVE  IsRun(s, sep, a, b)
  <2>1. a \in Int /\ b \in Int /\ b # Len(s) + 1
    BY <1>1, <1>2 DEF IsRun
  <2>2. a \in 1 .. Len(s) /\ b \in 1 .. Len(s) /\ a <= b
    BY <1>1, <1>2, <2>1 DEF IsRun
  <2>3. \A k \in a .. b : s[k] # sep
    BY <1>1, <1>2, <2>2 DEF IsRun
  <2>4. a = 1 \/ s[a - 1] = sep
    BY <1>1, <1>2, <2>2 DEF IsRun
  <2>5. b = Len(s) \/ s[b + 1] = sep
    BY <1>1, <1>2, <2>2 DEF IsRun
  <2> QED
    BY <2>2, <2>3, <2>4, <2>5, Zenon DEF IsRun
<1>3. ASSUME IsRun(s, sep, a, b)
      PROVE  IsRun(t, sep, a, b)
  <2>1. a \in 1 .. Len(s) /\ b \in 1 .. Len(s) /\ a <= b
    BY <1>3, Zenon DEF IsRun
  <2>2. a \in 1 .. Len(t) /\ b \in 1 .. Len(t)
    BY <1>1, <2>1
  <2>3. \A k \in a .. b : t[k] # sep
    BY <1>1, <1>3, <2>1 DEF IsRun
  <2>4. a = 1 \/ t[a - 1] = sep
    BY <1>1, <1>3, <2>1 DEF IsRun
  <2>5. t[b + 1] = sep
    BY <1>1, <1>3, <2>1 DEF IsRun
  <2> QED
    BY <2>1, <2>2, <2>3, <2>4, <2>5, Zenon DEF IsRun
<1> QED
  BY <1>2, <1>3, Zenon DEF t

(* ... and another character begins a run or makes the last one longer.    *)
LEMMA RunsWithLetter ==
  ASSUME NEW C, NEW s \in Seq(C), NEW sep, NEW c \in C, c # sep, NEW a, NEW b
  PROVE  IsRun(Append(s, c), sep, a, b) <=>
           \/ IsRun(s, sep, a, b) /\ b < Len(s)
           \/ /\ b = Len(s) + 1
              /\ \/ a = b /\ (s = <<>> \/ s[Len(s)] = sep)
                 \/ IsRun(s, sep, a, Len(s))
<1> DEFINE t == Append(s, c)
           n == Len(s)
<1>1. /\ Len(t) = n + 1 /\ t[n + 1] = c
      /\ \A k \in 1 .. n : t[k] = s[k]
      /\ n \in Nat /\ (s = <<>> <=> n = 0)
  BY AppendProperties, EmptySeq
<1> HIDE DEF t, n
<1>2. ASSUME IsRun(t, sep, a, b), b # n + 1
      PROVE  IsRun(s, sep, a, b) /\ b < n
  <2>1. a \in Int /\ b \in Int /\ b # n
    BY <1>1, <1>2 DEF IsRun
  <2>2. a \in 1 .. n /\ b \in 1 .. n /\ a <= b /\ b < n
    BY <1>1, <1>2, <2>1 DEF IsRun
  <2>3. \A k \in a .. b : s[k] # sep
    BY <1>1, <1>2, <2>2 DEF IsRun
  <2>4. a = 1 \/ s[a - 1] = sep
    BY <1>1, <1>2, <2>2 DEF IsRun
  <2>5. s[b + 1] = sep
    BY <1>1, <1>2, <2>2 DEF IsRun
  <2> QED
    BY <2>2, <2>3, <2>4, <2>5, Zenon DEF IsRun, n
<1>3. ASSUME IsRun(t, sep, a, n + 1), a # n + 1
      PROVE  IsRun(s, sep, a, n)
  <2>1. a \in Int
    BY <1>1, <1>3 DEF IsRun
  <2>2. a \in 1 .. n /\ n \in 1 .. n /\ a <= n
    BY <1>1, <1>3, <2>1 DEF IsRun
  <2>3. \A k \in a .. n : s[k] # sep
    BY <1>1, <1>3, <2>2 DEF IsRun
  <2>4. a = 1 \/ s[a - 1] = sep
    BY <1>1, <1>3, <2>2 DEF IsRun
  <2> QED
    BY <2>2, <2>3, <2>4, Zenon DEF IsRun, n
<1>4. ASSUME IsRun(t, sep, n + 1, n + 1)
      PROVE  n = 0 \/ s[n] = sep
  BY <1>1, <1>4 DEF IsRun
<1>5. ASSUME IsRun(s, sep, a, b), b < n
      PROVE  IsRun(t, sep, a, b)
  <2>1. a \in 1 .. n /\ b \in 1 .. n /\ a <= b
    BY <1>5, Zenon DEF IsRun, n
  <2>2. a \in 1 .. Len(t) /\ b \in 1 .. Len(t)
    BY <1>1, <2>1
  <2>3. \A k \in a .. b : t[k] # sep
    BY <1>1, <1>5, <2>1 DEF IsRun
  <2>4. a = 1 \/ t[a - 1] = sep
    BY <1>1, <1>5, <2>1 DEF IsRun
  <2>5. t[b + 1] = sep
    BY <1>1, <1>5, <2>1 DEF IsRun, n
  <2> QED
    BY <2>1, <2>2, <2>3, <2>4, <2>5, Zenon DEF IsRun
<1>6. ASSUME n = 0 \/ s[n] = sep
      PROVE  IsRun(t, sep, n + 1, n + 1)
  BY <1>1, <1>6 DEF IsRun
<1>7. ASSUME IsRun(s, sep, a, n)
      PROVE  IsRun(t, sep, a, n + 1)
  <2>1. a \in 1 .. n /\ a <= n
    BY <1>7, Zenon DEF IsRun, n
  <2>2. a \in 1 .. Len(t) /\ n + 1 \in 1 .. Len(t) /\ a <= n + 1
    BY <1>1, <2>1
  <2>3. \A k \in a .. n + 1 : t[k] # sep
    <3>1. ASSUME NEW k \in a .. n + 1 PROVE t[k] # sep
      <4>1. k = n + 1 \/ (k \in a .. n /\ k \in 1 .. n)
        BY <1>1, <2>1
      <4>2. \A j \in a .. n : s[j] # sep
        BY <1>7, Zenon DEF IsRun
      <4> QED
        BY <1>1, <4>1, <4>2, Zenon
    <3> QED
      BY <3>1, Zenon
  <2>4. a = 1 \/ t[a - 1] = sep
    BY <1>1, <1>7, <2>1 DEF IsRun
  <2> QED
    BY <1>1, <2>2, <2>3, <2>4, Zenon DEF IsRun
<1>8. n + 1 # n /\ ~(n + 1 < n)
  BY <1>1
<1>9. IsRun(t, sep, a, b) <=>
           \/ IsRun(s, sep, a, b) /\ b < n
           \/ /\ b = n + 1
              /\ \/ a = b /\ (n = 0 \/ s[n] = sep)
                 \/ IsRun(s, sep, a, n)
  <2>1. CASE b = n + 1
    BY <1>3, <1>4, <1>6, <1>7, <1>8, <2>1, Zenon
  <2>2. CASE b # n + 1
    BY <1>2, <1>5, <2>2, Zenon
  <2> QED
    BY <2>1, <2>2, Zenon
<1> QED
  BY <1>1, <1>9, Zenon DEF t, n

LEMMA NoWords == ASSUME NEW sep PROVE WordList(<<>>, <<>>, sep)
<1> DEFINE r == [i \in 1 .. 0 |-> <<0, 0>>]
<1>1. 1 .. 0 = {} /\ Len(<<>>) = 0
  OBVIOUS
<1>2. \A a, b : ~IsRun(<<>>, sep, a, b)
  BY <1>1, Zenon DEF IsRun
<1>3. RunList(r, 0, <<>>, sep)
  BY <1>1, <1>2, Zenon DEF RunList
<1>4. Spells(<<>>, r, <<>>)
  BY <1>1, Zenon DEF Spells
<1> QED
  BY <1>1, <1>3, <1>4, Zenon DEF WordList

LEMMA RunPlaces ==
  ASSUME NEW s, NEW sep, NEW r, NEW k, RunList(r, k, s, sep), NEW i \in 1 .. k
  PROVE  /\ r[i] \in Nat \X Nat /\ r[i][1] \in Nat /\ r[i][2] \in Nat
         /\ IsRun(s, sep, r[i][1], r[i][2])
         /\ r[i][1] \in 1 .. Len(s) /\ r[i][2] \in 1 .. Len(s) /\ r[i][1] <= r[i][2]
<1>1. r[i] \in Nat \X Nat /\ IsRun(s, sep, r[i][1], r[i][2])
  BY Zenon DEF RunList
<1>2. r[i][1] \in Nat /\ r[i][2] \in Nat
  BY <1>1
<1> QED
  BY <1>1, <1>2, Zenon DEF IsRun

(* A separator more leaves the words as they are, ... *)
LEMMA ListWithSep ==
  ASSUME NEW C, NEW s \in Seq(C), NEW sep \in C, NEW ws, WordList(ws, s, sep)
  PROVE  WordList(ws, Append(s, sep), sep)
<1>1. PICK r : RunList(r, Len(ws), s, sep) /\ Spells(ws, r, s)
  BY Zenon DEF WordList
<1>2. RunList(r, Len(ws), Append(s, sep), sep)
  <2>1. \A a, b : IsRun(Append(s, sep), sep, a, b) <=> IsRun(s, sep, a, b)
    BY RunsWithSep, Zenon
  <2> QED
    BY <1>1, <2>1, Zenon DEF RunList
<1>3. Spells(ws, r, Append(s, sep))
  <2>1. ASSUME NEW i \in 1 .. Len(ws)
        PROVE  ws[i] = SubSeq(Append(s, sep), r[i][1], r[i][2])
    <3>1. r[i][1] \in 1 .. Len(s) /\ r[i][2] \in 1 .. Len(s)
      BY <1>1, RunPlaces, Zenon
    <3>2. SubSeq(Append(s, sep), r[i][1], r[i][2]) = SubSeq(s, r[i][1], r[i][2])
      BY <3>1, SameText, Zenon
    <3> QED
      BY <1>1, <3>2, Zenon DEF Spells
  <2> QED
    BY <2>1, Zenon DEF Spells
<1> QED
  BY <1>2, <1>3, Zenon DEF WordList

(* ... a character behind a separator begins one, ... *)
LEMMA ListWithFirst ==
  ASSUME NEW C, NEW s \in Seq(C), NEW sep, NEW c \in C, c # sep,
         s = <<>> \/ s[Len(s)] = sep,
         NEW ws \in Seq(Seq(C)), WordList(ws, s, sep)
  PROVE  WordList(Append(ws, <<c>>), Append(s, c), sep)
<1> DEFINE t == Append(s, c)
           n == Len(s)
           k == Len(ws)
           vs == Append(ws, <<c>>)
<1>1. PICK r : RunList(r, k, s, sep) /\ Spells(ws, r, s)
  BY Zenon DEF WordList
<1> DEFINE q == [i \in 1 .. k + 1 |-> IF i = k + 1 THEN <<n + 1, n + 1>> ELSE r[i]]
<1>2. n \in Nat /\ k \in Nat /\ (s = <<>> <=> n = 0)
  BY EmptySeq
<1>3. Len(vs) = k + 1 /\ vs[k + 1] = <<c>> /\ \A i \in 1 .. k : vs[i] = ws[i]
  BY AppendProperties
<1>4. Len(t) = n + 1 /\ t[n + 1] = c /\ t \in Seq(C)
  BY AppendProperties
<1>5. \A a, b : IsRun(t, sep, a, b) <=>
        (IsRun(s, sep, a, b) /\ b < n) \/ (a = n + 1 /\ b = n + 1)
  <2>1. \A a : ~IsRun(s, sep, a, n)
    <3>1. ASSUME NEW a, IsRun(s, sep, a, n) PROVE FALSE
      <4>0. n \in 1 .. n /\ a <= n /\ a \in 1 .. n
        BY <3>1, Zenon DEF IsRun
      <4>1. n # 0
        BY <4>0
      <4>2. n \in a .. n /\ s[n] = sep
        BY <1>2, <4>0, <4>1
      <4> QED
        BY <3>1, <4>2, Zenon DEF IsRun
    <3> QED
      BY <3>1, Zenon
  <2>2. ASSUME NEW a, NEW b
        PROVE  IsRun(t, sep, a, b) <=>
                 \/ IsRun(s, sep, a, b) /\ b < n
                 \/ b = n + 1 /\ (a = b \/ IsRun(s, sep, a, n))
    <3>1. IsRun(t, sep, a, b) <=>
            \/ IsRun(s, sep, a, b) /\ b < n
            \/ /\ b = n + 1
               /\ \/ a = b /\ (s = <<>> \/ s[n] = sep)
                  \/ IsRun(s, sep, a, n)
      BY RunsWithLetter, Zenon
    <3>2. s = <<>> \/ s[n] = sep
      OBVIOUS
    <3> HIDE DEF t, n
    <3> QED
      BY <3>1, <3>2, Zenon
  <2> HIDE DEF t, n
  <2> QED
    BY <2>1, <2>2, Zenon
<1>6. \A a, b : IsRun(s, sep, a, b) => b < n
  <2>1. ASSUME NEW a, NEW b, IsRun(s, sep, a, b) PROVE b < n
    <3>1. b \in 1 .. n /\ a \in 1 .. n /\ a <= b
      BY <2>1, Zenon DEF IsRun
    <3>2. b \in a .. b /\ n # 0
      BY <1>2, <3>1
    <3>3. b # n
      BY <1>2, <2>1, <3>2, Zenon DEF IsRun
    <3> QED
      BY <3>1, <3>3
  <2> QED
    BY <2>1, Zenon
<1> HIDE DEF t, n, k, vs
<1>7. \A i \in 1 .. k : i \in 1 .. k + 1 /\ q[i] = r[i]
  BY <1>2
<1>8. k + 1 \in 1 .. k + 1 /\ q[k + 1] = <<n + 1, n + 1>>
  BY <1>2
<1>9. \A i \in 1 .. k + 1 : i \in 1 .. k \/ i = k + 1
  BY <1>2
<1>10. q \in [1 .. k + 1 -> Nat \X Nat]
  <2>1. <<n + 1, n + 1>> \in Nat \X Nat
    BY <1>2
  <2>2. \A i \in 1 .. k + 1 : q[i] \in Nat \X Nat
    BY <1>1, <1>7, <1>8, <1>9, <2>1, RunPlaces, Zenon
  <2> QED
    BY <2>2, Zenon
<1> HIDE DEF q
<1>11. q[k + 1][1] = n + 1 /\ q[k + 1][2] = n + 1
  BY <1>8
<1>12. RunList(q, k + 1, t, sep)
  <2>1. ASSUME NEW i \in 1 .. k + 1
        PROVE  IsRun(t, sep, q[i][1], q[i][2])
    <3>1. CASE i = k + 1
      BY <1>5, <1>11, <3>1, Zenon
    <3>2. CASE i \in 1 .. k
      <4>1. IsRun(s, sep, r[i][1], r[i][2])
        BY <1>1, <3>2, RunPlaces, Zenon
      <4>2. IsRun(t, sep, r[i][1], r[i][2])
        BY <1>5, <1>6, <4>1, Zenon
      <4> QED
        BY <1>7, <3>2, <4>2, Zenon
    <3> QED
      BY <1>9, <3>1, <3>2, Zenon
  <2>2. ASSUME NEW a, NEW b, IsRun(t, sep, a, b)
        PROVE  \E i \in 1 .. k + 1 : q[i] = <<a, b>>
    <3>1. CASE a = n + 1 /\ b = n + 1
      BY <1>8, <3>1, Zenon
    <3>2. CASE IsRun(s, sep, a, b)
      <4>1. PICK i \in 1 .. k : r[i] = <<a, b>>
        BY <1>1, <3>2, Zenon DEF RunList
      <4> QED
        BY <1>7, <4>1, Zenon
    <3> QED
      BY <1>5, <2>2, <3>1, <3>2, Zenon
  <2>3. ASSUME NEW i \in 1 .. k + 1, NEW j \in 1 .. k + 1, i < j
        PROVE  q[i][1] < q[j][1]
    <3>1. i \in 1 .. k
      BY <1>2, <2>3
    <3>2. CASE j = k + 1
      <4>1. r[i][1] \in 1 .. n
        BY <1>1, <3>1, RunPlaces, Zenon DEF n
      <4>2. r[i][1] < n + 1
        BY <1>2, <4>1
      <4> QED
        BY <1>7, <1>11, <3>1, <3>2, <4>2, Zenon
    <3>3. CASE j \in 1 .. k
      <4>1. r[i][1] < r[j][1]
        BY <1>1, <2>3, <3>1, <3>3, Zenon DEF RunList
      <4> QED
        BY <1>7, <3>1, <3>3, <4>1, Zenon
    <3> QED
      BY <1>9, <3>2, <3>3, Zenon
  <2> QED
    BY <1>10, <2>1, <2>2, <2>3, Zenon DEF RunList
<1>13. Spells(vs, q, t)
  <2>1. ASSUME NEW i \in 1 .. k
        PROVE  vs[i] = SubSeq(t, q[i][1], q[i][2])
    <3>1. r[i][1] \in 1 .. Len(s) /\ r[i][2] \in 1 .. Len(s)
      BY <1>1, RunPlaces, Zenon
    <3>2. SubSeq(t, r[i][1], r[i][2]) = SubSeq(s, r[i][1], r[i][2])
      BY <3>1, SameText, Zenon DEF t
    <3>3. ws[i] = SubSeq(s, r[i][1], r[i][2])
      BY <1>1, Zenon DEF Spells, k
    <3> QED
      BY <1>3, <1>7, <3>2, <3>3, Zenon
  <2>2. <<c>> = SubSeq(t, n + 1, n + 1)
    <3>2. PICK m : m = n + 1
      BY Zenon
    <3>3. m \in 1 .. Len(t) /\ m \in m .. Len(t) /\ m \in Int /\ m - 1 \in Int /\ m - 1 < m
      BY <1>2, <1>4, <3>2
    <3>4. SubSeq(t, m, m) = SubSeq(t, m, m - 1) \o <<t[m]>>
      BY <1>4, <3>3, SubSeqRecursiveSecond, Zenon
    <3>5. SubSeq(t, m, m - 1) = <<>>
      BY <3>3, SubSeqEmpty, Zenon
    <3>6. <<>> \o <<c>> = <<c>>
      BY ConcatEmptySeq
    <3> QED
      BY <1>4, <3>2, <3>4, <3>5, <3>6, Zenon
  <2>3. ASSUME NEW i \in 1 .. k + 1
        PROVE  vs[i] = SubSeq(t, q[i][1], q[i][2])
    BY <1>3, <1>9, <1>11, <2>1, <2>2, Zenon
  <2> QED
    BY <1>3, <2>3, Zenon DEF Spells
<1> QED
  BY <1>3, <1>12, <1>13, Zenon DEF WordList, t, vs

(* ... and one behind another character makes the last word longer.        *)
LEMMA ListWithNext ==
  ASSUME NEW C, NEW s \in Seq(C), NEW sep, NEW c \in C, c # sep,
         s # <<>>, s[Len(s)] # sep,
         NEW ws \in Seq(Seq(C)), NEW w \in Seq(C), WordList(Append(ws, w), s, sep)
  PROVE  WordList(Append(ws, Append(w, c)), Append(s, c), sep)
<1> DEFINE t == Append(s, c)
           n == Len(s)
           k == Len(ws) + 1
           us == Append(ws, w)
           vs == Append(ws, Append(w, c))
<1>1. /\ n \in Nat /\ n \in 1 .. n /\ k \in Nat /\ k \in 1 .. k
  <2>1. n # 0 /\ n \in Nat /\ Len(ws) \in Nat
    BY EmptySeq
  <2> QED
    BY <2>1
<1>2. Len(us) = k /\ us[k] = w /\ \A i \in 1 .. k : i # k => us[i] = ws[i]
  BY AppendProperties
<1>3. Len(vs) = k /\ vs[k] = Append(w, c) /\ \A i \in 1 .. k : i # k => vs[i] = ws[i]
  <2>1. Append(w, c) \in Seq(C)
    BY AppendProperties
  <2> QED
    BY <2>1, AppendProperties
<1>4. Len(t) = n + 1 /\ t[n + 1] = c /\ t \in Seq(C)
  BY AppendProperties
<1>5. PICK r : RunList(r, k, s, sep) /\ Spells(us, r, s)
  BY <1>2, Zenon DEF WordList
<1>6. \A a, b : IsRun(t, sep, a, b) <=>
        (IsRun(s, sep, a, b) /\ b < n) \/ (b = n + 1 /\ IsRun(s, sep, a, n))
  <2>1. ASSUME NEW a, NEW b
        PROVE  IsRun(t, sep, a, b) <=>
                 (IsRun(s, sep, a, b) /\ b < n) \/ (b = n + 1 /\ IsRun(s, sep, a, n))
    <3>1. IsRun(t, sep, a, b) <=>
            \/ IsRun(s, sep, a, b) /\ b < n
            \/ /\ b = n + 1
               /\ \/ a = b /\ (s = <<>> \/ s[n] = sep)
                  \/ IsRun(s, sep, a, n)
      BY RunsWithLetter, Zenon
    <3>2. s # <<>> /\ s[n] # sep
      OBVIOUS
    <3> HIDE DEF t, n
    <3> QED
      BY <3>1, <3>2, Zenon
  <2> QED
    BY <2>1, Zenon
<1>7. PICK a0 \in 1 .. n : IsRun(s, sep, a0, n)
  <2>1. PICK a \in 1 .. n, b \in n .. n : IsRun(s, sep, a, b)
    <3>1. n \in 1 .. Len(s) /\ s[n] # sep
      BY <1>1
    <3> QED
      BY <3>1, RunAround, Zenon
  <2>2. b = n
    BY <1>1
  <2> QED
    BY <2>1, <2>2, Zenon
<1>0. \A a, b, d, e : IsRun(s, sep, a, b) /\ IsRun(s, sep, d, e) /\ a <= d /\ d <= b
                       => a = d /\ b = e
  BY RunsApart, Zenon
<1> HIDE DEF t, n, k, us, vs
(* The last run is the one that ends where s ends. *)
<1>8. r[k] = <<a0, n>> /\ r[k][1] = a0 /\ r[k][2] = n
  <2>1. PICK i \in 1 .. k : r[i] = <<a0, n>>
    BY <1>5, <1>7, Zenon DEF RunList
  <2>2. r[i][1] = a0 /\ r[i][2] = n
    BY <2>1
  <2>3. i = k
    <3> SUFFICES ASSUME i # k PROVE FALSE
      OBVIOUS
    <3>1. i < k
      BY <1>1
    <3>2. r[i][1] < r[k][1]
      BY <1>1, <1>5, <3>1, Zenon DEF RunList
    <3>3. /\ IsRun(s, sep, r[k][1], r[k][2])
          /\ r[k][1] \in 1 .. n /\ r[k][2] \in 1 .. n /\ r[k][1] <= r[k][2]
      BY <1>1, <1>5, RunPlaces, Zenon DEF n
    <3>4. a0 <= r[k][1] /\ r[k][1] <= n
      BY <1>1, <1>7, <2>2, <3>2, <3>3
    <3>5. a0 = r[k][1]
      BY <1>0, <1>7, <3>3, <3>4, Zenon
    <3> QED
      BY <1>7, <2>2, <3>2, <3>5
  <2> QED
    BY <2>1, <2>2, <2>3, Zenon
<1> DEFINE q == [i \in 1 .. k |-> IF i = k THEN <<a0, n + 1>> ELSE r[i]]
<1>9. /\ q[k] = <<a0, n + 1>>
      /\ \A i \in 1 .. k : i # k => q[i] = r[i]
  BY <1>1
<1>10. q \in [1 .. k -> Nat \X Nat]
  <2>1. <<a0, n + 1>> \in Nat \X Nat
    BY <1>1, <1>7
  <2>2. \A i \in 1 .. k : r[i] \in Nat \X Nat
    BY <1>5, RunPlaces, Zenon
  <2> QED
    BY <2>1, <2>2, Zenon
<1> HIDE DEF q
<1>11. q[k][1] = a0 /\ q[k][2] = n + 1
  BY <1>9
(* Another run ends before it. *)
<1>12. ASSUME NEW a, NEW b, IsRun(s, sep, a, b), b < n
       PROVE  b < a0
  <2> SUFFICES ASSUME ~(b < a0) PROVE FALSE
    OBVIOUS
  <2>1. a \in Nat /\ b \in Nat /\ a0 \in Nat /\ n \in Nat /\ a <= b
    BY <1>1, <1>7, <1>12 DEF IsRun
  <2>2. a0 <= a => b = n
    <3>1. a <= n
      BY <1>12, <2>1
    <3> QED
      BY <1>7, <1>12, <3>1, <1>0, Zenon
  <2>3. a <= a0 => b = n
    <3>1. a0 <= b
      BY <2>1
    <3> QED
      BY <1>7, <1>12, <3>1, <1>0, Zenon
  <2> QED
    BY <1>12, <2>1, <2>2, <2>3
<1>13. ASSUME NEW i \in 1 .. k, i # k
       PROVE  IsRun(s, sep, r[i][1], r[i][2]) /\ r[i][2] < n /\ r[i][1] < a0
  <2>1. /\ IsRun(s, sep, r[i][1], r[i][2]) /\ r[i][1] \in 1 .. n /\ r[i][2] \in 1 .. n
        /\ r[i][1] <= r[i][2]
    BY <1>5, RunPlaces, Zenon DEF n
  <2>2. i < k
    BY <1>1, <1>13
  <2>3. r[i][1] < a0
    BY <1>1, <1>5, <1>8, <2>2, Zenon DEF RunList
  <2>4. r[i][2] # n
    <3> SUFFICES ASSUME r[i][2] = n PROVE FALSE
      OBVIOUS
    <3>1. r[i][1] <= a0 /\ a0 <= n
      BY <1>1, <1>7, <2>1, <2>3
    <3>2. r[i][1] = a0
      BY <1>7, <2>1, <3>1, <1>0, Zenon
    <3> QED
      BY <1>7, <2>1, <2>3, <3>2
  <2> QED
    BY <1>1, <2>1, <2>3, <2>4
<1>14. RunList(q, k, t, sep)
  <2>1. ASSUME NEW i \in 1 .. k
        PROVE  IsRun(t, sep, q[i][1], q[i][2])
    <3>1. CASE i = k
      BY <1>6, <1>7, <1>11, <3>1, Zenon
    <3>2. CASE i # k
      BY <1>6, <1>9, <1>13, <3>2, Zenon
    <3> QED
      BY <3>1, <3>2, Zenon
  <2>2. ASSUME NEW a, NEW b, IsRun(t, sep, a, b)
        PROVE  \E i \in 1 .. k : q[i] = <<a, b>>
    <3>1. CASE b = n + 1 /\ IsRun(s, sep, a, n)
      <4>1. a \in 1 .. n /\ a0 \in 1 .. n
        BY <1>7, <3>1, Zenon DEF IsRun, n
      <4>2. a <= a0 \/ a0 <= a
        BY <1>1, <4>1
      <4>3. a <= n /\ a0 <= n
        BY <1>1, <4>1
      <4>4. a = a0
        BY <1>7, <3>1, <4>2, <4>3, <1>0, Zenon
      <4> QED
        BY <1>1, <1>9, <3>1, <4>4, Zenon
    <3>2. CASE IsRun(s, sep, a, b) /\ b < n
      <4>1. PICK i \in 1 .. k : r[i] = <<a, b>>
        BY <1>5, <3>2, Zenon DEF RunList
      <4>2. r[i][2] = b /\ b # n
        BY <1>1, <3>2, <4>1 DEF IsRun
      <4> QED
        BY <1>8, <1>9, <4>1, <4>2, Zenon
    <3>3. (IsRun(s, sep, a, b) /\ b < n) \/ (b = n + 1 /\ IsRun(s, sep, a, n))
      BY <1>6, <2>2, Zenon
    <3> QED
      BY <3>1, <3>2, <3>3
  <2>3. ASSUME NEW i \in 1 .. k, NEW j \in 1 .. k, i < j
        PROVE  q[i][1] < q[j][1]
    <3>1. i # k
      BY <1>1, <2>3
    <3>2. r[i][1] < r[j][1]
      BY <1>5, <2>3, Zenon DEF RunList
    <3>3. q[j][1] = r[j][1]
      BY <1>8, <1>9, <1>11, Zenon
    <3> QED
      BY <1>9, <3>1, <3>2, <3>3, Zenon
  <2> QED
    BY <1>10, <2>1, <2>2, <2>3, Zenon DEF RunList
<1>15. Spells(vs, q, t)
  <2>1. \A i \in 1 .. k : us[i] = SubSeq(s, r[i][1], r[i][2])
    BY <1>2, <1>5, Zenon DEF Spells
  <2>2. ASSUME NEW i \in 1 .. k, i # k
        PROVE  vs[i] = SubSeq(t, q[i][1], q[i][2])
    <3>1. r[i][1] \in 1 .. Len(s) /\ r[i][2] \in 1 .. Len(s)
      BY <1>5, RunPlaces, Zenon
    <3>2. SubSeq(t, r[i][1], r[i][2]) = SubSeq(s, r[i][1], r[i][2])
      BY <3>1, SameText, Zenon DEF t
    <3> QED
      BY <1>2, <1>3, <1>9, <2>1, <2>2, <3>2, Zenon
  <2>3. Append(w, c) = SubSeq(t, a0, n + 1)
    <3>1. w = SubSeq(s, a0, n)
      BY <1>1, <1>2, <1>8, <2>1, Zenon
    <3>2. PICK m : m = n + 1
      BY Zenon
    <3>3. a0 \in 1 .. Len(t) /\ m \in a0 .. Len(t) /\ m - 1 = n /\ a0 \in 1 .. Len(s)
      BY <1>1, <1>4, <1>7, <3>2 DEF n
    <3>4. SubSeq(t, a0, m) = SubSeq(t, a0, m - 1) \o <<t[m]>>
      BY <1>4, <3>3, SubSeqRecursiveSecond, Zenon
    <3>5. SubSeq(t, a0, n) = SubSeq(s, a0, n)
      <4>1. n \in 1 .. Len(s)
        BY <1>1, Zenon DEF n
      <4> QED
        BY <3>3, <4>1, SameText, Zenon DEF t
    <3>6. Append(w, c) = w \o <<c>>
      BY AppendIsConcat, Zenon
    <3> QED
      BY <1>4, <3>1, <3>2, <3>3, <3>4, <3>5, <3>6, Zenon
  <2>4. ASSUME NEW i \in 1 .. k
        PROVE  vs[i] = SubSeq(t, q[i][1], q[i][2])
    BY <1>3, <1>11, <2>2, <2>3, Zenon
  <2> QED
    BY <1>3, <2>4, Zenon DEF Spells
<1> QED
  BY <1>3, <1>14, <1>15, Zenon DEF WordList, t, vs

-----------------------------------------------------------------------------
(* A string with one string replaced by another *)

Occurs(s, f, i) == i + Len(f) - 1 <= Len(s) /\ SubSeq(s, i, i + Len(f) - 1) = f

(* What becomes of s from place k on, if g is what becomes of it behind k. *)
Value(g, k, s, f, t) ==
  IF k = Len(s) + 1 THEN <<>>
  ELSE IF Occurs(s, f, k) THEN t \o g[k + Len(f)]
  ELSE <<s[k]>> \o g[k + 1]

Solves(g, s, f, t) == g = [k \in 1 .. Len(s) + 1 |-> Value(g, k, s, f, t)]

Replacing(s, f, t) == CHOOSE g : Solves(g, s, f, t)

(* Where the value at k looks. *)
LEMMA ValueLooks ==
  ASSUME NEW C, NEW s \in Seq(C), NEW f \in Seq(C), NEW t \in Seq(C), f # <<>>,
         NEW k \in 1 .. Len(s) + 1
  PROVE  /\ k # Len(s) + 1 => k + 1 \in k + 1 .. Len(s) + 1 /\ s[k] \in C
         /\ Occurs(s, f, k) => k + Len(f) \in k + 1 .. Len(s) + 1
<1>1. Len(s) \in Nat /\ Len(f) \in Nat /\ Len(f) # 0 /\ k \in Int
  BY EmptySeq
<1>2. k # Len(s) + 1 => k + 1 \in k + 1 .. Len(s) + 1 /\ s[k] \in C
  BY <1>1
<1>3. Occurs(s, f, k) => k + Len(f) \in k + 1 .. Len(s) + 1
  BY <1>1 DEF Occurs
<1> QED
  BY <1>2, <1>3, Zenon

LEMMA ValueIsText ==
  ASSUME NEW C, NEW s \in Seq(C), NEW f \in Seq(C), NEW t \in Seq(C), f # <<>>,
         NEW k \in 1 .. Len(s) + 1, NEW g,
         \A i \in k + 1 .. Len(s) + 1 : g[i] \in Seq(C)
  PROVE  Value(g, k, s, f, t) \in Seq(C)
<1>1. CASE k = Len(s) + 1
  BY <1>1, EmptySeq, Zenon DEF Value
<1>2. CASE k # Len(s) + 1 /\ Occurs(s, f, k)
  <2>1. k + Len(f) \in k + 1 .. Len(s) + 1
    BY <1>2, ValueLooks, Zenon
  <2>2. t \o g[k + Len(f)] \in Seq(C)
    BY <2>1, ConcatProperties, Zenon
  <2> QED
    BY <1>2, <2>2, Zenon DEF Value
<1>3. CASE k # Len(s) + 1 /\ ~Occurs(s, f, k)
  <2>1. k + 1 \in k + 1 .. Len(s) + 1 /\ s[k] \in C
    BY <1>3, ValueLooks, Zenon
  <2>2. g[k + 1] \in Seq(C) /\ <<s[k]>> \in Seq(C)
    BY <2>1
  <2>3. <<s[k]>> \o g[k + 1] \in Seq(C)
    BY <2>2, ConcatProperties, Zenon
  <2> QED
    BY <1>3, <2>3, Zenon DEF Value
<1> QED
  BY <1>1, <1>2, <1>3, Zenon

Agree(g, h, k, s) == \A i \in k + 1 .. Len(s) + 1 : h[i] = g[i]

LEMMA ValueSame ==
  ASSUME NEW C, NEW s \in Seq(C), NEW f \in Seq(C), NEW t \in Seq(C), f # <<>>,
         NEW k \in 1 .. Len(s) + 1, NEW g, NEW h, Agree(g, h, k, s)
  PROVE  Value(h, k, s, f, t) = Value(g, k, s, f, t)
<1>1. /\ k # Len(s) + 1 => k + 1 \in k + 1 .. Len(s) + 1
      /\ Occurs(s, f, k) => k + Len(f) \in k + 1 .. Len(s) + 1
  BY ValueLooks, Zenon
<1> QED
  BY <1>1, Zenon DEF Value, Agree

(* The recursion has a solution: from behind, place by place. *)
LEMMA ReplacingExists ==
  ASSUME NEW C, NEW s \in Seq(C), NEW f \in Seq(C), NEW t \in Seq(C), f # <<>>
  PROVE  \E g : Solves(g, s, f, t)
<1> DEFINE last == Len(s) + 1
           Right(g, n) == \A k \in 1 .. last : k >= last - n => g[k] = Value(g, k, s, f, t)
           P == {n \in Nat : \E g \in [1 .. last -> Seq(C)] : Right(g, n)}
<1>1. last \in Nat /\ last >= 1
  OBVIOUS
<1>2. 0 \in P
  <2> DEFINE g == [k \in 1 .. last |-> <<>>]
  <2>1. g \in [1 .. last -> Seq(C)]
    BY EmptySeq, Zenon
  <2>2. ASSUME NEW k \in 1 .. last, k >= last - 0
        PROVE  g[k] = Value(g, k, s, f, t)
    <3>1. k = last
      BY <1>1, <2>2
    <3> QED
      BY <3>1, Zenon DEF Value
  <2> HIDE DEF g
  <2>3. Right(g, 0)
    BY <2>2, Zenon
  <2> HIDE DEF Right
  <2>4. 0 \in Nat
    OBVIOUS
  <2> QED
    BY <2>1, <2>3, <2>4, Zenon
<1>3. ASSUME NEW n \in Nat, n \in P
      PROVE  n + 1 \in P
  <2>1. PICK g \in [1 .. last -> Seq(C)] : Right(g, n)
    BY <1>3, Zenon
  <2>2. n + 1 \in Nat
    OBVIOUS
  <2>3. CASE last - n <= 1
    <3>1. ASSUME NEW k \in 1 .. last, k >= last - (n + 1)
          PROVE  g[k] = Value(g, k, s, f, t)
      <4>1. k >= last - n
        BY <1>1, <2>3
      <4> QED
        BY <2>1, <4>1, Zenon
    <3>2. Right(g, n + 1)
      BY <3>1, Zenon
    <3> HIDE DEF Right
    <3> QED
      BY <2>2, <3>2, Zenon
  <2>4. CASE ~(last - n <= 1)
    <3>1. PICK j : j = last - (n + 1)
      BY Zenon
    <3>2. j \in 1 .. last /\ \A k \in j + 1 .. last : k \in 1 .. last /\ k # j /\ k >= last - n
      BY <1>1, <2>4, <3>1
    <3> DEFINE h == [g EXCEPT ![j] = Value(g, j, s, f, t)]
    <3>3. \A k \in j + 1 .. last : g[k] \in Seq(C)
      BY <3>2
    <3>4. Value(g, j, s, f, t) \in Seq(C)
      BY <3>2, <3>3, ValueIsText, Zenon
    <3>5. /\ h \in [1 .. last -> Seq(C)]
          /\ h[j] = Value(g, j, s, f, t)
          /\ \A k \in 1 .. last : k # j => h[k] = g[k]
      BY <2>1, <3>2, <3>4, Zenon
    <3> HIDE DEF h
    <3>6. ASSUME NEW k \in 1 .. last, k >= last - (n + 1)
          PROVE  h[k] = Value(h, k, s, f, t)
      <4>1. k = j \/ (k >= last - n /\ k # j)
        BY <1>1, <3>1, <3>6
      <4>2. \A i \in k + 1 .. last : i \in 1 .. last /\ i # j
        BY <1>1, <3>1, <3>6
      <4>3. \A i \in k + 1 .. last : g[i] \in Seq(C) /\ h[i] = g[i]
        BY <2>1, <3>5, <4>2, Zenon
      <4>4. Value(h, k, s, f, t) = Value(g, k, s, f, t)
        <5>1. Agree(g, h, k, s)
          BY <4>3, Zenon DEF Agree
        <5> QED
          BY <5>1, ValueSame
      <4>5. k # j /\ k >= last - n => g[k] = Value(g, k, s, f, t)
        BY <2>1, Zenon
      <4> QED
        BY <3>5, <4>1, <4>4, <4>5, Zenon
    <3>7. Right(h, n + 1)
      BY <3>6, Zenon
    <3> HIDE DEF Right
    <3> QED
      BY <2>2, <3>5, <3>7, Zenon
  <2> QED
    BY <2>3, <2>4, Zenon
<1>4. PICK g \in [1 .. last -> Seq(C)] : Right(g, last)
  <2> HIDE DEF P
  <2>1. last \in P
    BY <1>1, <1>2, <1>3, SetInduction, Zenon
  <2> QED
    BY <2>1, Zenon DEF P
<1>5. \A k \in 1 .. last : g[k] = Value(g, k, s, f, t)
  <2>1. \A k \in 1 .. last : k >= last - last
    BY <1>1
  <2> QED
    BY <1>4, <2>1, Zenon
<1>6. g = [k \in 1 .. last |-> Value(g, k, s, f, t)]
  <2>1. g = [k \in 1 .. last |-> g[k]]
    BY Zenon
  <2> QED
    BY <1>5, <2>1, Zenon
<1> QED
  BY <1>6, Zenon DEF Solves

LEMMA ReplacingIs ==
  ASSUME NEW C, NEW s \in Seq(C), NEW f \in Seq(C), NEW t \in Seq(C), f # <<>>
  PROVE  \A k \in 1 .. Len(s) + 1 :
           /\ Replacing(s, f, t)[k] = Value(Replacing(s, f, t), k, s, f, t)
           /\ Replacing(s, f, t)[k] \in Seq(C)
<1> DEFINE last == Len(s) + 1
           g == Replacing(s, f, t)
           P == {n \in Nat : \A k \in 1 .. last : k >= last - n => g[k] \in Seq(C)}
<1>0. g = [k \in 1 .. last |-> Value(g, k, s, f, t)]
  <2>1. \E e : Solves(e, s, f, t)
    BY ReplacingExists, Zenon
  <2>2. Solves(g, s, f, t)
    BY <2>1, Zenon DEF Replacing
  <2> QED
    BY <2>2, Zenon DEF Solves
<1> HIDE DEF g
<1>1. \A k \in 1 .. last : g[k] = Value(g, k, s, f, t)
  BY <1>0, Zenon
<1>2. last \in Nat /\ last >= 1
  OBVIOUS
<1>3. ASSUME NEW k \in 1 .. last, \A i \in k + 1 .. last : g[i] \in Seq(C)
      PROVE  g[k] \in Seq(C)
  <2>1. Value(g, k, s, f, t) \in Seq(C)
    BY <1>3, ValueIsText, Zenon
  <2> QED
    BY <1>1, <2>1, Zenon
<1>4. 0 \in P
  <2>1. ASSUME NEW k \in 1 .. last, k >= last - 0
        PROVE  g[k] \in Seq(C)
    <3>1. \A i \in k + 1 .. last : FALSE
      BY <1>2, <2>1
    <3> QED
      BY <1>3, <3>1, Zenon
  <2>2. 0 \in Nat
    OBVIOUS
  <2> QED
    BY <2>1, <2>2, Zenon
<1>5. ASSUME NEW n \in Nat, n \in P
      PROVE  n + 1 \in P
  <2>1. ASSUME NEW k \in 1 .. last, k >= last - (n + 1)
        PROVE  g[k] \in Seq(C)
    <3>1. \A i \in k + 1 .. last : i \in 1 .. last /\ i >= last - n
      BY <1>2, <2>1
    <3>2. \A i \in 1 .. last : i >= last - n => g[i] \in Seq(C)
      BY <1>5, Zenon
    <3> QED
      BY <1>3, <3>1, <3>2, Zenon
  <2>2. n + 1 \in Nat
    OBVIOUS
  <2> QED
    BY <2>1, <2>2, Zenon
<1>6. last \in P
  <2> HIDE DEF P
  <2> QED
    BY <1>2, <1>4, <1>5, SetInduction, Zenon
<1>7. \A k \in 1 .. last : g[k] \in Seq(C)
  <2>1. \A k \in 1 .. last : k >= last - last
    BY <1>2
  <2> QED
    BY <1>6, <2>1, Zenon
<1> QED
  BY <1>1, <1>7, Zenon DEF g

(* What SubSeq is, one fact at a time. *)
LEMMA TextType ==
  ASSUME NEW C, NEW s, NEW m \in Int, NEW n \in Int, \A i \in m .. n : s[i] \in C
  PROVE  SubSeq(s, m, n) \in Seq(C)
BY SubSeqProperties

LEMMA TextLen ==
  ASSUME NEW s, NEW m \in Int, NEW n \in Int
  PROVE  Len(SubSeq(s, m, n)) = IF m <= n THEN n - m + 1 ELSE 0
<1>1. \A i \in m .. n : s[i] \in {s[j] : j \in m .. n}
  BY Zenon
<1> QED
  BY <1>1, SubSeqProperties

LEMMA TextAt ==
  ASSUME NEW s, NEW m \in Int, NEW n \in Int
  PROVE  \A i \in 1 .. n - m + 1 : SubSeq(s, m, n)[i] = s[m + i - 1]
<1>1. \A i \in m .. n : s[i] \in {s[j] : j \in m .. n}
  BY Zenon
<1> QED
  BY <1>1, SubSeqProperties

LEMMA ReplacedAtEnd ==
  ASSUME NEW C, NEW s \in Seq(C), NEW f \in Seq(C), NEW t \in Seq(C), f # <<>>
  PROVE  Replacing(s, f, t)[Len(s) + 1] = <<>>
<1>1. Len(s) + 1 \in 1 .. Len(s) + 1
  OBVIOUS
<1>2. Replacing(s, f, t)[Len(s) + 1] = Value(Replacing(s, f, t), Len(s) + 1, s, f, t)
  BY <1>1, ReplacingIs, Zenon
<1> QED
  BY <1>2, Zenon DEF Value

(* w is x with y behind it. *)
IsJoin(C, w, x, y) == x \in Seq(C) /\ y \in Seq(C) /\ w = x \o y

LEMMA ReplacedWhereFound ==
  ASSUME NEW C, NEW s \in Seq(C), NEW f \in Seq(C), NEW t \in Seq(C), f # <<>>,
         NEW k \in 1 .. Len(s) + 1, Occurs(s, f, k)
  PROVE  IsJoin(C, Replacing(s, f, t)[k], t, Replacing(s, f, t)[k + Len(f)])
<1>1. k + Len(f) \in k + 1 .. Len(s) + 1
  BY ValueLooks, Zenon
<1>2. k # Len(s) + 1 /\ k + Len(f) \in 1 .. Len(s) + 1
  BY <1>1
<1>3. Replacing(s, f, t)[k] = Value(Replacing(s, f, t), k, s, f, t)
  BY ReplacingIs, Zenon
<1>4. Replacing(s, f, t)[k + Len(f)] \in Seq(C)
  BY <1>2, ReplacingIs, Zenon
<1>5. Replacing(s, f, t)[k] = t \o Replacing(s, f, t)[k + Len(f)]
  BY <1>2, <1>3, Zenon DEF Value
<1> QED
  BY <1>4, <1>5, Zenon DEF IsJoin

(* What may be grouped the other way. *)
LEMMA Regroup ==
  ASSUME NEW C, NEW x, NEW y, NEW z, NEW u, NEW v, NEW w,
         IsJoin(C, w, x, v), IsJoin(C, v, y, z), IsJoin(C, u, x, y)
  PROVE  IsJoin(C, w, u, z)
<1>1. x \in Seq(C) /\ y \in Seq(C) /\ z \in Seq(C)
  BY Zenon DEF IsJoin
<1>2. (x \o y) \o z = x \o (y \o z)
  BY <1>1, ConcatAssociative
<1>3. x \o y \in Seq(C)
  BY <1>1, ConcatProperties, Zenon
<1> QED
  BY <1>1, <1>2, <1>3, Zenon DEF IsJoin

(* Where f is not, s stays as it is. *)
Without(C, s, f, a, b) ==
  /\ s \in Seq(C) /\ f \in Seq(C) /\ f # <<>>
  /\ a \in 1 .. Len(s) + 1 /\ b \in a .. Len(s) + 1
  /\ \A k \in a .. b - 1 : ~Occurs(s, f, k)

LEMMA ReplacedBetween ==
  ASSUME NEW C, NEW s, NEW f, NEW t \in Seq(C), NEW a, NEW b, Without(C, s, f, a, b)
  PROVE  IsJoin(C, Replacing(s, f, t)[a], SubSeq(s, a, b - 1), Replacing(s, f, t)[b])
<1> SUFFICES ASSUME s \in Seq(C), f \in Seq(C), f # <<>>,
                    a \in 1 .. Len(s) + 1, b \in a .. Len(s) + 1,
                    \A k \in a .. b - 1 : ~Occurs(s, f, k)
             PROVE  IsJoin(C, Replacing(s, f, t)[a], SubSeq(s, a, b - 1), Replacing(s, f, t)[b])
  BY Zenon DEF Without
<1> DEFINE g == Replacing(s, f, t)
           P == {n \in Nat : \A m \in a .. b :
                   m = a + n => g[a] = SubSeq(s, a, m - 1) \o g[m]}
<1>0. Len(s) \in Nat /\ a \in Int /\ b \in Int
  OBVIOUS
<1>1. \A k \in 1 .. Len(s) + 1 : g[k] = Value(g, k, s, f, t) /\ g[k] \in Seq(C)
  BY ReplacingIs, Zenon
<1> HIDE DEF g
<1>2. 0 \in P
  <2>1. a - 1 < a /\ a - 1 \in Int /\ a + 0 = a
    BY <1>0
  <2>2. SubSeq(s, a, a - 1) = <<>>
    BY <1>0, <2>1, SubSeqEmpty, Zenon
  <2>3. <<>> \o g[a] = g[a]
    BY <1>1, ConcatEmptySeq, Zenon
  <2>4. 0 \in Nat
    OBVIOUS
  <2> QED
    BY <2>1, <2>2, <2>3, <2>4, Zenon
<1>3. ASSUME NEW n \in Nat, n \in P
      PROVE  n + 1 \in P
  <2>1. ASSUME NEW l \in a .. b, l = a + (n + 1)
        PROVE  g[a] = SubSeq(s, a, l - 1) \o g[l]
    <3>1. PICK m : m = l - 1
      BY Zenon
    <3>2. /\ m \in 1 .. Len(s) /\ l \in 1 .. Len(s) + 1 /\ m \in a .. Len(s) /\ m \in a .. b - 1
          /\ a \in 1 .. Len(s) /\ m \in 1 .. Len(s) + 1 /\ m # Len(s) + 1
          /\ m + 1 = l /\ m = a + n /\ m \in a .. b
      BY <1>0, <2>1, <3>1
    <3>3. g[a] = SubSeq(s, a, m - 1) \o g[m]
      BY <1>3, <3>2, Zenon
    <3>4. g[m] = <<s[m]>> \o g[l]
      BY <1>1, <3>2, Zenon DEF Value
    <3>5. SubSeq(s, a, m) = SubSeq(s, a, m - 1) \o <<s[m]>>
      BY <3>2, SubSeqRecursiveSecond, Zenon
    <3>6. SubSeq(s, a, m - 1) \in Seq(C) /\ <<s[m]>> \in Seq(C) /\ g[l] \in Seq(C)
      <4>1. a \in Int /\ m - 1 \in Int /\ (\A i \in a .. m - 1 : s[i] \in C) /\ s[m] \in C
        BY <1>0, <3>2
      <4>2. SubSeq(s, a, m - 1) \in Seq(C)
        BY <4>1, TextType, Zenon
      <4> QED
        BY <1>1, <3>2, <4>1, <4>2
    <3>7. g[a] = SubSeq(s, a, m) \o g[l]
      <4>1. g[m] \in Seq(C)
        BY <1>1, <3>2, Zenon
      <4>2. /\ IsJoin(C, g[a], SubSeq(s, a, m - 1), g[m])
            /\ IsJoin(C, g[m], <<s[m]>>, g[l])
            /\ IsJoin(C, SubSeq(s, a, m), SubSeq(s, a, m - 1), <<s[m]>>)
        BY <3>3, <3>4, <3>5, <3>6, <4>1, Zenon DEF IsJoin
      <4>3. IsJoin(C, g[a], SubSeq(s, a, m), g[l])
        BY <4>2, Regroup
      <4> QED
        BY <4>3, Zenon DEF IsJoin
    <3> QED
      BY <3>1, <3>7, Zenon
  <2>2. n + 1 \in Nat
    OBVIOUS
  <2> QED
    BY <2>1, <2>2, Zenon
<1>4. b - a \in P
  <2> HIDE DEF P
  <2>1. b - a \in Nat
    BY <1>0
  <2> QED
    BY <1>2, <1>3, <2>1, SetInduction, Zenon
<1>5. b = a + (b - a) /\ b \in a .. b /\ b \in 1 .. Len(s) + 1
  BY <1>0
<1>6. g[a] = SubSeq(s, a, b - 1) \o g[b]
  BY <1>4, <1>5, Zenon
<1>7. SubSeq(s, a, b - 1) \in Seq(C)
  <2>1. a \in Int /\ b - 1 \in Int /\ \A i \in a .. b - 1 : s[i] \in C
    BY <1>0
  <2> QED
    BY <2>1, TextType, Zenon
<1> QED
  BY <1>1, <1>5, <1>6, <1>7, Zenon DEF g, IsJoin

SameSpan(a, b, x, y) == y - x = b - a

(* What is in s from a to b is in o from x to y. *)
Alike(C, s, a, b, o, x, y) ==
  /\ a \in Int /\ b \in Int /\ x \in Int /\ y \in Int
  /\ SameSpan(a, b, x, y)
  /\ \A i \in a .. b : s[i] \in C /\ s[i] = o[i + (x - a)]

SamePart(s, a, b, o, x, y) == SubSeq(s, a, b) = SubSeq(o, x, y)

LEMMA AlikeTexts ==
  ASSUME NEW C, NEW s, NEW a, NEW b, NEW o, NEW x, NEW y, Alike(C, s, a, b, o, x, y)
  PROVE  SamePart(s, a, b, o, x, y)
<1> DEFINE u == SubSeq(s, a, b)
           v == SubSeq(o, x, y)
<1>0. /\ a \in Int /\ b \in Int /\ x \in Int /\ y \in Int
      /\ y - x = b - a
      /\ \A i \in a .. b : s[i] \in C
  BY Zenon DEF Alike, SameSpan
<1>1. u \in Seq(C)
  BY <1>0, TextType, Zenon
<1>2. v \in Seq(C)
  <2>1. ASSUME NEW i \in x .. y
        PROVE  o[i] \in C
    <3>1. PICK j : j = i - (x - a)
      BY Zenon
    <3>2. j \in a .. b /\ j + (x - a) = i
      BY <1>0, <3>1
    <3> QED
      BY <3>2, Zenon DEF Alike
  <2> QED
    BY <1>0, <2>1, TextType, Zenon
<1>3. /\ Len(u) = IF a <= b THEN b - a + 1 ELSE 0
      /\ \A i \in 1 .. b - a + 1 : u[i] = s[a + i - 1]
  <2>1. Len(u) = IF a <= b THEN b - a + 1 ELSE 0
    BY <1>0, TextLen, Zenon
  <2>2. \A i \in 1 .. b - a + 1 : u[i] = s[a + i - 1]
    BY <1>0, TextAt, Zenon
  <2> QED
    BY <2>1, <2>2, Zenon
<1>4. /\ Len(v) = IF x <= y THEN y - x + 1 ELSE 0
      /\ \A i \in 1 .. y - x + 1 : v[i] = o[x + i - 1]
  <2>1. Len(v) = IF x <= y THEN y - x + 1 ELSE 0
    BY <1>0, TextLen, Zenon
  <2>2. \A i \in 1 .. y - x + 1 : v[i] = o[x + i - 1]
    BY <1>0, TextAt, Zenon
  <2> QED
    BY <2>1, <2>2, Zenon
<1> HIDE DEF u, v
<1>5. Len(u) = Len(v)
  BY <1>0, <1>3, <1>4
<1>6. ASSUME NEW i \in 1 .. Len(u)
      PROVE  u[i] = v[i]
  <2>1. PICK j : j = a + i - 1
    BY Zenon
  <2>2. /\ j \in a .. b /\ i \in 1 .. b - a + 1 /\ i \in 1 .. y - x + 1
        /\ j + (x - a) = x + i - 1
    BY <1>0, <1>3, <2>1
  <2> QED
    BY <1>3, <1>4, <2>1, <2>2, Zenon DEF Alike
<1>7. u = v
  BY <1>1, <1>2, <1>5, <1>6, SeqEqual, Zenon
<1> QED
  BY <1>7, Zenon DEF u, v, SamePart

(* Two strings with a common tail, the rest of s from p and of o behind c, *)
(* have the same in it.                                                    *)
SameTail(C, s, p, o, c) ==
  /\ s \in Seq(C) /\ o \in Seq(C)
  /\ p \in 1 .. Len(s) + 1 /\ c \in 0 .. Len(o)
  /\ SubSeq(s, p, Len(s)) = SubSeq(o, c + 1, Len(o))

LEMMA CommonTail ==
  ASSUME NEW C, NEW s, NEW p, NEW o, NEW c, SameTail(C, s, p, o, c)
  PROVE  /\ Len(s) - p + 1 = Len(o) - c
         /\ \A i \in p .. Len(s) : s[i] = o[i + (c + 1 - p)]
<1>0. Len(s) \in Nat /\ Len(o) \in Nat /\ p \in Int /\ c \in Int
  BY DEF SameTail
<1>1. /\ Len(SubSeq(s, p, Len(s))) = IF p <= Len(s) THEN Len(s) - p + 1 ELSE 0
      /\ \A i \in 1 .. Len(s) - p + 1 : SubSeq(s, p, Len(s))[i] = s[p + i - 1]
  <2>1. p \in Int /\ Len(s) \in Int
    BY <1>0
  <2> QED
    BY <2>1, TextLen, TextAt, Zenon
<1>2. /\ Len(SubSeq(o, c + 1, Len(o))) = IF c + 1 <= Len(o) THEN Len(o) - (c + 1) + 1 ELSE 0
      /\ \A i \in 1 .. Len(o) - (c + 1) + 1 : SubSeq(o, c + 1, Len(o))[i] = o[c + 1 + i - 1]
  <2>1. c + 1 \in Int /\ Len(o) \in Int
    BY <1>0
  <2> QED
    BY <2>1, TextLen, TextAt, Zenon
<1>3. Len(s) - p + 1 = Len(o) - c
  <2>1. (IF p <= Len(s) THEN Len(s) - p + 1 ELSE 0)
          = (IF c + 1 <= Len(o) THEN Len(o) - (c + 1) + 1 ELSE 0)
    BY <1>1, <1>2, Zenon DEF SameTail
  <2>2. p \in 1 .. Len(s) + 1 /\ c \in 0 .. Len(o)
    BY Zenon DEF SameTail
  <2> QED
    BY <1>0, <2>1, <2>2
<1>4. ASSUME NEW i \in p .. Len(s)
      PROVE  s[i] = o[i + (c + 1 - p)]
  <2>1. PICK j : j = i - p + 1
    BY Zenon
  <2>2. /\ j \in 1 .. Len(s) - p + 1 /\ j \in 1 .. Len(o) - (c + 1) + 1
        /\ p + j - 1 = i /\ c + 1 + j - 1 = i + (c + 1 - p)
    BY <1>0, <1>3, <2>1
  <2> QED
    BY <1>1, <1>2, <2>2, Zenon DEF SameTail
<1> QED
  BY <1>3, <1>4, Zenon

(* What a join is made of. *)
Parts(C, w, x, y) ==
  /\ w \in Seq(C) /\ Len(w) = Len(x) + Len(y)
  /\ SubSeq(w, 1, Len(x)) = x
  /\ SubSeq(w, Len(x) + 1, Len(w)) = y

LEMMA JoinParts ==
  ASSUME NEW C, NEW w, NEW x, NEW y, IsJoin(C, w, x, y)
  PROVE  Parts(C, w, x, y)
<1>0. x \in Seq(C) /\ y \in Seq(C)
  BY Zenon DEF IsJoin
<1>1. /\ w \in Seq(C) /\ Len(w) = Len(x) + Len(y)
      /\ \A i \in 1 .. Len(x) + Len(y) : w[i] = IF i <= Len(x) THEN x[i] ELSE y[i - Len(x)]
  BY <1>0, ConcatProperties, Zenon DEF IsJoin
<1>2. Len(x) \in Nat /\ Len(y) \in Nat
  BY <1>0
<1>3. SubSeq(w, 1, Len(x)) = x
  <2>1. Alike(C, w, 1, Len(x), x, 1, Len(x))
    <3>1. \A i \in 1 .. Len(x) : i \in 1 .. Len(x) + Len(y) /\ i <= Len(x) /\ i + (1 - 1) = i
      BY <1>2
    <3>2. \A i \in 1 .. Len(x) : w[i] = x[i + (1 - 1)]
      BY <1>1, <3>1, Zenon
    <3>3. SameSpan(1, Len(x), 1, Len(x))
      BY Zenon DEF SameSpan
    <3>4. \A i \in 1 .. Len(x) : w[i] \in C
      BY <1>0, <1>1, <1>2
    <3>5. 1 \in Int /\ Len(x) \in Int
      BY <1>2
    <3> QED
      BY <3>2, <3>3, <3>4, <3>5, Zenon DEF Alike
  <2>2. SamePart(w, 1, Len(x), x, 1, Len(x))
    BY <2>1, AlikeTexts, Zenon
  <2> QED
    BY <1>0, <2>2, SubSeqFull, Zenon DEF SamePart
<1>4. SubSeq(w, Len(x) + 1, Len(w)) = y
  <2>1. Alike(C, w, Len(x) + 1, Len(w), y, 1, Len(y))
    <3>1. \A i \in Len(x) + 1 .. Len(w) :
            /\ i \in 1 .. Len(x) + Len(y) /\ ~(i <= Len(x))
            /\ i + (1 - (Len(x) + 1)) = i - Len(x)
      BY <1>1, <1>2
    <3>2. \A i \in Len(x) + 1 .. Len(w) : w[i] = y[i + (1 - (Len(x) + 1))]
      BY <1>1, <3>1, Zenon
    <3>3. SameSpan(Len(x) + 1, Len(w), 1, Len(y))
      BY <1>1, <1>2 DEF SameSpan
    <3>4. \A i \in Len(x) + 1 .. Len(w) : w[i] \in C
      BY <1>0, <1>1, <1>2
    <3>5. 1 \in Int /\ Len(x) + 1 \in Int /\ Len(w) \in Int /\ Len(y) \in Int
      BY <1>1, <1>2
    <3> QED
      BY <3>2, <3>3, <3>4, <3>5, Zenon DEF Alike
  <2>2. SamePart(w, Len(x) + 1, Len(w), y, 1, Len(y))
    BY <2>1, AlikeTexts, Zenon
  <2> QED
    BY <1>0, <2>2, SubSeqFull, Zenon DEF SamePart
<1> QED
  BY <1>1, <1>3, <1>4, Zenon DEF Parts

(* f is in the common tail of two strings at the same places. *)
LEMMA OccursAlike ==
  ASSUME NEW C, NEW s, NEW p, NEW o, NEW c, SameTail(C, s, p, o, c),
         NEW f \in Seq(C), f # <<>>, NEW k \in p .. Len(s) + 1
  PROVE  Occurs(s, f, k) <=> Occurs(o, f, k + (c + 1 - p))
<1> DEFINE d == c + 1 - p
<1>0. s \in Seq(C) /\ o \in Seq(C) /\ p \in 1 .. Len(s) + 1 /\ c \in 0 .. Len(o)
  BY Zenon DEF SameTail
<1>1. /\ Len(s) - p + 1 = Len(o) - c
      /\ \A i \in p .. Len(s) : s[i] = o[i + d]
  BY CommonTail
<1>2. /\ Len(s) \in Nat /\ Len(o) \in Nat /\ p \in Int /\ c \in Int /\ k \in Int
      /\ Len(f) \in Nat /\ p <= k /\ 1 <= p /\ d \in Int
  BY <1>0
<1>3. k + Len(f) - 1 <= Len(s) <=> k + d + Len(f) - 1 <= Len(o)
  BY <1>1, <1>2
<1> HIDE DEF d
<1>4. ASSUME k + Len(f) - 1 <= Len(s)
      PROVE  SamePart(s, k, k + Len(f) - 1, o, k + d, k + d + Len(f) - 1)
  <2>1. \A i \in k .. k + Len(f) - 1 : s[i] \in C /\ i \in p .. Len(s)
    BY <1>0, <1>2, <1>4
  <2>2. Alike(C, s, k, k + Len(f) - 1, o, k + d, k + d + Len(f) - 1)
    <3>0. PICK b, x, y : b = k + Len(f) - 1 /\ x = k + d /\ y = k + d + Len(f) - 1
      BY Zenon
    <3>1. \A i \in k .. b : i + (x - k) = i + d
      BY <1>2, <3>0
    <3>2. \A i \in k .. b : s[i] \in C /\ s[i] = o[i + (x - k)]
      BY <1>1, <2>1, <3>0, <3>1, Zenon
    <3>3. k \in Int /\ b \in Int /\ x \in Int /\ y \in Int
      BY <1>2, <3>0
    <3>4. SameSpan(k, b, x, y)
      BY <1>2, <3>0 DEF SameSpan
    <3>5. Alike(C, s, k, b, o, x, y)
      BY <3>2, <3>3, <3>4, Zenon DEF Alike
    <3> QED
      BY <3>0, <3>5, Zenon
  <2> QED
    BY <2>2, AlikeTexts, Zenon
<1> QED
  BY <1>3, <1>4, Zenon DEF Occurs, SamePart, d

(* Nothing is left to replace: what is copied is all there will be. *)
LEMMA TailEnd ==
  ASSUME NEW C, NEW s, NEW p, NEW o, NEW c, SameTail(C, s, p, o, c),
         NEW f \in Seq(C), NEW t \in Seq(C), f # <<>>,
         IsJoin(C, Replacing(o, f, t)[1], SubSeq(s, 1, p - 1), Replacing(o, f, t)[c + 1]),
         \A k \in p .. Len(s) + 1 : ~Occurs(s, f, k)
  PROVE  s = Replacing(o, f, t)[1]
<1>0. s \in Seq(C) /\ o \in Seq(C) /\ p \in 1 .. Len(s) + 1 /\ c \in 0 .. Len(o)
  BY Zenon DEF SameTail
<1>1. /\ Len(s) \in Nat /\ Len(o) \in Nat /\ p \in Int /\ c \in Int
      /\ Len(s) - p + 1 = Len(o) - c
  <2>1. Len(s) - p + 1 = Len(o) - c
    BY CommonTail
  <2> QED
    BY <1>0, <2>1
<1>2. ASSUME NEW k \in c + 1 .. (Len(o) + 1) - 1
      PROVE  ~Occurs(o, f, k)
  <2>1. PICK j : j = k - (c + 1 - p)
    BY Zenon
  <2>2. j \in p .. Len(s) + 1 /\ j + (c + 1 - p) = k
    BY <1>0, <1>1, <2>1
  <2>3. Occurs(s, f, j) <=> Occurs(o, f, j + (c + 1 - p))
    BY <2>2, OccursAlike, Zenon
  <2> QED
    BY <2>2, <2>3, Zenon
<1>3. Replacing(o, f, t)[c + 1] = SubSeq(s, p, Len(s))
  <2>1. /\ c + 1 \in 1 .. Len(o) + 1 /\ Len(o) + 1 \in c + 1 .. Len(o) + 1
        /\ (Len(o) + 1) - 1 = Len(o)
    BY <1>0, <1>1
  <2>2. Without(C, o, f, c + 1, Len(o) + 1)
    BY <1>0, <1>2, <2>1, Zenon DEF Without
  <2>3. IsJoin(C, Replacing(o, f, t)[c + 1], SubSeq(o, c + 1, (Len(o) + 1) - 1),
               Replacing(o, f, t)[Len(o) + 1])
    BY <2>2, ReplacedBetween, Zenon
  <2>4. Replacing(o, f, t)[Len(o) + 1] = <<>>
    BY <1>0, ReplacedAtEnd, Zenon
  <2>5. SubSeq(o, c + 1, Len(o)) \in Seq(C)
    <3>1. c + 1 \in Int /\ Len(o) \in Int /\ \A i \in c + 1 .. Len(o) : o[i] \in C
      BY <1>0, <1>1
    <3> QED
      BY <3>1, TextType, Zenon
  <2>6. SubSeq(o, c + 1, Len(o)) \o <<>> = SubSeq(o, c + 1, Len(o))
    BY <2>5, ConcatEmptySeq, Zenon
  <2> QED
    BY <2>1, <2>3, <2>4, <2>6, Zenon DEF SameTail, IsJoin
<1>4. SubSeq(s, 1, p - 1) \o SubSeq(s, p, Len(s)) = s
  <2>1. /\ 1 \in 1 .. Len(s) + 1 /\ p - 1 \in 1 - 1 .. Len(s) /\ Len(s) \in p - 1 .. Len(s)
        /\ p - 1 + 1 = p
    BY <1>0, <1>1
  <2>2. SubSeq(s, 1, p - 1) \o SubSeq(s, p - 1 + 1, Len(s)) = SubSeq(s, 1, Len(s))
    BY <1>0, <2>1, ConcatAdjacentSubSeq
  <2> QED
    BY <1>0, <2>1, <2>2, SubSeqFull, Zenon
<1> QED
  BY <1>3, <1>4, Zenon DEF IsJoin

(* Halfway through: what is before p is what becomes of what is before c,  *)
(* and what is behind them is the same.                                    *)
Halfway(C, s, p, o, c, f, t) ==
  /\ SameTail(C, s, p, o, c)
  /\ IsJoin(C, Replacing(o, f, t)[1], SubSeq(s, 1, p - 1), Replacing(o, f, t)[c + 1])

(* What replacing f at F makes of s, p and c. *)
Turned(s, p, c, f, t, F, s2, p2, c2) ==
  /\ s2 = SubSeq(s, 1, F - 1) \o t \o SubSeq(s, F + Len(f), Len(s))
  /\ p2 = F + Len(t)
  /\ c2 = c + (F - p) + Len(f)

(* One more occurrence replaced, the first from p on. *)
LEMMA TailStep ==
  ASSUME NEW C, NEW s, NEW p, NEW o, NEW c, NEW f \in Seq(C), NEW t \in Seq(C), f # <<>>,
         Halfway(C, s, p, o, c, f, t),
         NEW F \in p .. Len(s) + 1, Occurs(s, f, F), \A k \in p .. F - 1 : ~Occurs(s, f, k),
         NEW s2, NEW p2, NEW c2, Turned(s, p, c, f, t, F, s2, p2, c2)
  PROVE  Halfway(C, s2, p2, o, c2, f, t)
<1> DEFINE h == SubSeq(s, 1, F - 1)
           r == SubSeq(s, F + Len(f), Len(s))
           u == h \o t
           g == Replacing(o, f, t)
<1>0. s \in Seq(C) /\ o \in Seq(C) /\ p \in 1 .. Len(s) + 1 /\ c \in 0 .. Len(o)
  BY Zenon DEF SameTail, Halfway
<1>1. /\ Len(s) - p + 1 = Len(o) - c
      /\ \A i \in p .. Len(s) : s[i] = o[i + (c + 1 - p)]
  BY CommonTail DEF Halfway
<1>2. PICK e : e = F + (c + 1 - p)
  BY Zenon
<1>3. F + Len(f) \in F + 1 .. Len(s) + 1
  <2>1. F \in 1 .. Len(s) + 1
    BY <1>0
  <2> QED
    BY <1>0, <2>1, ValueLooks, Zenon
<1>4. /\ Len(s) \in Nat /\ Len(o) \in Nat /\ Len(f) \in Nat /\ Len(t) \in Nat
      /\ p \in Int /\ c \in Int /\ F \in Int /\ e \in Int /\ c2 \in Int /\ p2 \in Int
      /\ p <= F /\ 1 <= p /\ 0 <= c /\ F + Len(f) <= Len(s) + 1
      /\ e = F + (c + 1 - p) /\ Len(s) - p + 1 = Len(o) - c
      /\ p2 = F + Len(t) /\ c2 = c + (F - p) + Len(f) /\ c2 + 1 = e + Len(f)
  <2>1. p2 = F + Len(t) /\ c2 = c + (F - p) + Len(f)
    BY Zenon DEF Turned
  <2> QED
    BY <1>0, <1>1, <1>2, <1>3, <2>1
<1>5. h \in Seq(C) /\ Len(h) = F - 1 /\ r \in Seq(C)
  <2>0. /\ 1 \in Int /\ F - 1 \in Int /\ F + Len(f) \in Int /\ Len(s) \in Int
        /\ \A i \in 1 .. F - 1 : i \in 1 .. Len(s)
        /\ \A i \in F + Len(f) .. Len(s) : i \in 1 .. Len(s)
    BY <1>4
  <2>1. /\ 1 \in Int /\ F - 1 \in Int /\ F + Len(f) \in Int /\ Len(s) \in Int
        /\ \A i \in 1 .. F - 1 : s[i] \in C
        /\ \A i \in F + Len(f) .. Len(s) : s[i] \in C
    BY <1>0, <2>0, ElementOfSeq, Zenon
  <2>2. h \in Seq(C) /\ r \in Seq(C)
    BY <2>1, TextType, Zenon
  <2>3. Len(h) = IF 1 <= F - 1 THEN (F - 1) - 1 + 1 ELSE 0
    BY <2>1, TextLen, Zenon
  <2> HIDE DEF h, r
  <2>4. Len(h) = F - 1
    BY <1>4, <2>3
  <2> QED
    BY <2>2, <2>4, Zenon
<1>6. /\ IsJoin(C, u, h, t) /\ u \in Seq(C) /\ Len(u) = Len(h) + Len(t)
      /\ IsJoin(C, s2, u, r)
  <2> HIDE DEF h, r
  <2>1. u \in Seq(C) /\ Len(u) = Len(h) + Len(t)
    BY <1>5, ConcatProperties, Zenon
  <2>2. s2 = u \o r
    BY Zenon DEF Turned, h, r
  <2> QED
    BY <1>5, <2>1, <2>2, Zenon DEF IsJoin
<1> HIDE DEF u
<1>7. Parts(C, s2, u, r)
  BY <1>6, JoinParts, Zenon
<1>8. Len(u) = p2 - 1 /\ Len(u) + 1 = p2 /\ Len(r) \in Nat /\ p2 \in 1 .. Len(s2) + 1
  <2> HIDE DEF h, r
  <2>1. Len(r) \in Nat /\ Len(s2) = Len(u) + Len(r)
    BY <1>5, <1>7, LenProperties, Zenon DEF Parts
  <2>2. Len(u) = p2 - 1
    BY <1>4, <1>5, <1>6
  <2>3. p2 \in Int /\ 1 <= p2
    BY <1>4
  <2> QED
    BY <2>1, <2>2, <2>3
<1>9. SameTail(C, s2, p2, o, c2)
  <2>1. Alike(C, s, F + Len(f), Len(s), o, c2 + 1, Len(o))
    <3>0. PICK a, x : a = F + Len(f) /\ x = c2 + 1
      BY Zenon
    <3>1. \A i \in a .. Len(s) : i \in p .. Len(s) /\ i \in 1 .. Len(s)
                                 /\ i + (x - a) = i + (c + 1 - p)
      <4>1. a \in Int /\ x \in Int /\ p <= a /\ 1 <= a /\ x - a = c + 1 - p
        <5>1. /\ F \in Int /\ p \in Int /\ c \in Int /\ Len(f) \in Nat /\ p <= F /\ 1 <= p
              /\ c2 = c + (F - p) + Len(f)
          BY <1>4, Zenon
        <5> QED
          BY <3>0, <5>1
      <4>2. p \in Int /\ c \in Int /\ Len(s) \in Nat
        BY <1>4, Zenon
      <4> QED
        BY <4>1, <4>2
    <3>2. \A i \in a .. Len(s) : s[i] \in C /\ s[i] = o[i + (x - a)]
      BY <1>0, <1>1, <3>1, ElementOfSeq, Zenon
    <3>3. a \in Int /\ Len(s) \in Int /\ x \in Int /\ Len(o) \in Int
      BY <1>4, <3>0
    <3>4. SameSpan(a, Len(s), x, Len(o))
      BY <1>4, <3>0 DEF SameSpan
    <3>5. Alike(C, s, a, Len(s), o, x, Len(o))
      BY <3>2, <3>3, <3>4, Zenon DEF Alike
    <3> QED
      BY <3>0, <3>5, Zenon
  <2>2. r = SubSeq(o, c2 + 1, Len(o))
    <3>1. SamePart(s, F + Len(f), Len(s), o, c2 + 1, Len(o))
      BY <2>1, AlikeTexts, Zenon
    <3> QED
      BY <3>1, Zenon DEF SamePart
  <2>3. c2 \in 0 .. Len(o)
    BY <1>4
  <2> HIDE DEF r
  <2> QED
    BY <1>0, <1>7, <1>8, <2>2, <2>3, Zenon DEF SameTail, Parts
<1>10. IsJoin(C, g[1], h, g[e])
  <2>1. IsJoin(C, g[1], SubSeq(s, 1, p - 1), g[c + 1])
    BY Zenon DEF Halfway
  <2>2. IsJoin(C, g[c + 1], SubSeq(o, c + 1, e - 1), g[e])
    <3>1. ASSUME NEW k \in c + 1 .. e - 1
          PROVE  ~Occurs(o, f, k)
      <4>1. PICK j : j = k - (c + 1 - p)
        BY Zenon
      <4>2. j \in p .. Len(s) + 1 /\ j \in p .. F - 1 /\ j + (c + 1 - p) = k
        BY <1>4, <4>1
      <4>3. Occurs(s, f, j) <=> Occurs(o, f, j + (c + 1 - p))
        BY <4>2, OccursAlike, Zenon DEF Halfway
      <4> QED
        BY <4>2, <4>3, Zenon
    <3>2. c + 1 \in 1 .. Len(o) + 1 /\ e \in c + 1 .. Len(o) + 1
      BY <1>4
    <3>3. Without(C, o, f, c + 1, e)
      BY <1>0, <3>1, <3>2, Zenon DEF Without
    <3> QED
      BY <3>3, ReplacedBetween, Zenon
  <2>3. IsJoin(C, h, SubSeq(s, 1, p - 1), SubSeq(o, c + 1, e - 1))
    <3>1. Alike(C, s, p, F - 1, o, c + 1, e - 1)
      <4>0. PICK x : x = c + 1
        BY Zenon
      <4>1. \A i \in p .. F - 1 : i \in p .. Len(s) /\ i \in 1 .. Len(s)
                                 /\ i + (x - p) = i + (c + 1 - p)
        BY <1>4, <4>0
      <4>2. \A i \in p .. F - 1 : s[i] \in C /\ s[i] = o[i + (x - p)]
        BY <1>0, <1>1, <4>1, ElementOfSeq, Zenon
      <4>3. p \in Int /\ F - 1 \in Int /\ x \in Int /\ e - 1 \in Int
        BY <1>4, <4>0
      <4>4. SameSpan(p, F - 1, x, e - 1)
        BY <1>4, <4>0 DEF SameSpan
      <4>5. Alike(C, s, p, F - 1, o, x, e - 1)
        BY <4>2, <4>3, <4>4, Zenon DEF Alike
      <4> QED
        BY <4>0, <4>5, Zenon
    <3>2. SubSeq(s, p, F - 1) = SubSeq(o, c + 1, e - 1)
      <4>1. SamePart(s, p, F - 1, o, c + 1, e - 1)
        BY <3>1, AlikeTexts, Zenon
      <4> QED
        BY <4>1, Zenon DEF SamePart
    <3>3. SubSeq(s, 1, p - 1) \o SubSeq(s, p, F - 1) = h
      <4>1. /\ 1 \in 1 .. Len(s) + 1 /\ p - 1 \in 1 - 1 .. Len(s) /\ F - 1 \in p - 1 .. Len(s)
            /\ p - 1 + 1 = p
        BY <1>4
      <4>2. SubSeq(s, 1, p - 1) \o SubSeq(s, p - 1 + 1, F - 1) = h
        BY <1>0, <4>1, ConcatAdjacentSubSeq
      <4> QED
        BY <4>1, <4>2, Zenon
    <3>4. SubSeq(s, 1, p - 1) \in Seq(C) /\ SubSeq(o, c + 1, e - 1) \in Seq(C)
      BY <2>1, <2>2, Zenon DEF IsJoin
    <3> QED
      BY <3>2, <3>3, <3>4, Zenon DEF IsJoin
  <2> HIDE DEF g, h
  <2> QED
    BY <2>1, <2>2, <2>3, Regroup
<1>11. IsJoin(C, g[e], t, g[c2 + 1])
  <2>1. e \in 1 .. Len(o) + 1
    BY <1>4
  <2>2. Occurs(s, f, F) <=> Occurs(o, f, F + (c + 1 - p))
    BY OccursAlike, Zenon DEF Halfway
  <2>3. Occurs(o, f, e)
    BY <1>2, <2>2, Zenon
  <2>4. IsJoin(C, g[e], t, g[e + Len(f)])
    BY <1>0, <2>1, <2>3, ReplacedWhereFound, Zenon
  <2> QED
    BY <1>4, <2>4, Zenon
<1>12. IsJoin(C, g[1], u, g[c2 + 1])
  <2> HIDE DEF g, h
  <2> QED
    BY <1>6, <1>10, <1>11, Regroup
<1> QED
  BY <1>7, <1>8, <1>9, <1>12, Zenon DEF Halfway, Parts
-----------------------------------------------------------------------------
(* Places, parts and words of a string *)

(* Where c stands first in s, 0 if nowhere. *)
FirstAt(s, c, k) ==
  \/ k = 0 /\ \A i \in 1 .. Len(s) : s[i] # c
  \/ k \in 1 .. Len(s) /\ s[k] = c /\ \A i \in 1 .. k - 1 : s[i] # c

Least(I) == IF I # {} THEN CHOOSE x \in I : \A y \in I : x =< y ELSE 0

LEMMA LeastIs ==
  ASSUME NEW n \in Nat, NEW I \in SUBSET (1 .. n)
  PROVE  \/ I = {} /\ Least(I) = 0
         \/ Least(I) \in I /\ \A y \in I : Least(I) <= y
<1>1. I \in SUBSET Nat
  OBVIOUS
<1>2. CASE I = {}
  BY <1>2, Zenon DEF Least
<1>3. CASE I # {}
  <2>1. \E x \in I : \A y \in I : x <= y
    BY <1>1, <1>3, LeastNat, Zenon
  <2> QED
    BY <1>3, <2>1, Zenon DEF Least
<1> QED
  BY <1>2, <1>3, Zenon

LEMMA FirstAtIs ==
  ASSUME NEW s, NEW c, Len(s) \in Nat,
         NEW k, k = Least({i \in 1 .. Len(s) : s[i] = c})
  PROVE  FirstAt(s, c, k)
<1> DEFINE I == {i \in 1 .. Len(s) : s[i] = c}
<1>1. I \in SUBSET (1 .. Len(s))
  BY Zenon
<1>2. (I = {} /\ k = 0) \/ (k \in I /\ \A y \in I : k <= y)
  BY <1>1, LeastIs
<1>3. CASE I = {} /\ k = 0
  BY <1>3, Zenon DEF FirstAt
<1>4. CASE k \in I /\ \A y \in I : k <= y
  <2>1. \A i \in 1 .. k - 1 : i \in 1 .. Len(s) /\ ~(k <= i)
    BY <1>1, <1>4
  <2> QED
    BY <1>4, <2>1, Zenon DEF FirstAt
<1> QED
  BY <1>2, <1>3, <1>4, Zenon

(* There is one such place. *)
LEMMA FirstAtOne ==
  ASSUME NEW s, NEW c, Len(s) \in Nat, NEW k, NEW m, FirstAt(s, c, k), FirstAt(s, c, m)
  PROVE  k = m
<1>1. \A i \in 1 .. Len(s), j \in 1 .. Len(s) : i = j \/ i \in 1 .. j - 1 \/ j \in 1 .. i - 1
  OBVIOUS
<1>2. 0 \notin 1 .. Len(s)
  OBVIOUS
<1> QED
  BY <1>1, <1>2, Zenon DEF FirstAt

Greatest(I) == IF I # {} THEN CHOOSE x \in I : \A y \in I : x >= y ELSE 0

LEMMA GreatestIs ==
  ASSUME NEW n \in Nat, NEW I \in SUBSET (1 .. n)
  PROVE  \/ I = {} /\ Greatest(I) = 0
         \/ Greatest(I) \in I /\ \A y \in I : Greatest(I) >= y
<1>1. I \in SUBSET Int /\ n \in Int /\ \A y \in I : y <= n
  OBVIOUS
<1>2. CASE I = {}
  BY <1>2, Zenon DEF Greatest
<1>3. CASE I # {}
  <2>1. PICK x \in I : \A y \in I : y <= x
    BY <1>1, <1>3, GreatestInt, Zenon
  <2>2. \A y \in I : x >= y
    BY <1>1, <2>1
  <2> QED
    BY <1>3, <2>2, Zenon DEF Greatest
<1> QED
  BY <1>2, <1>3, Zenon

(* What the first n characters are, and those from place a to place b. *)
LEMMA PrefixIs ==
  ASSUME NEW C, NEW s \in Seq(C), NEW n \in 0 .. Len(s), NEW t, t = SubSeq(s, 1, n)
  PROVE  t \in Seq(C) /\ Len(t) = n /\ \A i \in 1 .. n : t[i] = s[i]
<1>1. 1 \in Int /\ n \in Int /\ \A i \in 1 .. n : s[i] \in C
  OBVIOUS
<1>2. t \in Seq(C)
  BY <1>1, TextType, Zenon
<1>3. Len(t) = IF 1 <= n THEN n - 1 + 1 ELSE 0
  BY <1>1, TextLen, Zenon
<1>4. \A i \in 1 .. n - 1 + 1 : t[i] = s[1 + i - 1]
  BY <1>1, TextAt, Zenon
<1>5. n - 1 + 1 = n /\ (~(1 <= n) => n = 0) /\ \A i \in 1 .. n : 1 + i - 1 = i
  OBVIOUS
<1> QED
  BY <1>2, <1>3, <1>4, <1>5, Zenon

LEMMA PartIs ==
  ASSUME NEW C, NEW s \in Seq(C), NEW a \in 1 .. Len(s) + 1, NEW b \in a - 1 .. Len(s), NEW t,
         t = SubSeq(s, a, b)
  PROVE  /\ t \in Seq(C) /\ Len(t) = b - a + 1
         /\ \A i \in 1 .. Len(t) : t[i] = s[a + i - 1]
<1>1. a \in Int /\ b \in Int /\ \A i \in a .. b : s[i] \in C
  OBVIOUS
<1>2. t \in Seq(C)
  BY <1>1, TextType, Zenon
<1>3. Len(t) = IF a <= b THEN b - a + 1 ELSE 0
  BY <1>1, TextLen, Zenon
<1>4. \A i \in 1 .. b - a + 1 : t[i] = s[a + i - 1]
  BY <1>1, TextAt, Zenon
<1>5. Len(t) = b - a + 1
  BY <1>1, <1>3
<1> QED
  BY <1>2, <1>4, <1>5, Zenon

(* t has only characters of s. *)
TakenOf(C, t, s) == t \in Seq(C) /\ \A k \in 1 .. Len(t) : \E i \in 1 .. Len(s) : t[k] = s[i]

LEMMA PartTaken ==
  ASSUME NEW C, NEW s \in Seq(C), NEW a \in 1 .. Len(s) + 1, NEW b \in a - 1 .. Len(s), NEW t,
         t = SubSeq(s, a, b)
  PROVE  TakenOf(C, t, s)
<1>1. /\ t \in Seq(C) /\ Len(t) = b - a + 1
      /\ \A i \in 1 .. Len(t) : t[i] = s[a + i - 1]
  BY PartIs
<1>2. \A k \in 1 .. Len(t) : a + k - 1 \in 1 .. Len(s)
  BY <1>1
<1> QED
  BY <1>1, <1>2, Zenon DEF TakenOf

LEMMA TakenOn ==
  ASSUME NEW C, NEW t, NEW u, NEW s, TakenOf(C, t, u), TakenOf(C, u, s)
  PROVE  TakenOf(C, t, s)
BY Zenon DEF TakenOf

(* A part of a part is a part, and what stands first in a part. *)
LEMMA PartOfPart ==
  ASSUME NEW C, NEW s \in Seq(C), NEW p \in 1 .. Len(s) + 1, NEW q \in p - 1 .. Len(s),
         NEW t, t = SubSeq(s, p, q), NEW a \in 1 .. Len(t) + 1, NEW b \in a - 1 .. Len(t)
  PROVE  SamePart(t, a, b, s, (p + a) - 1, (p + b) - 1)
<1>1. /\ t \in Seq(C) /\ Len(t) = q - p + 1
      /\ \A i \in 1 .. Len(t) : t[i] = s[p + i - 1]
  BY PartIs
<1>2. a \in Int /\ b \in Int /\ p \in Int
  OBVIOUS
<1>3. /\ (p + a) - 1 \in Int /\ (p + b) - 1 \in Int
      /\ SameSpan(a, b, (p + a) - 1, (p + b) - 1)
  BY <1>2 DEF SameSpan
<1>4. ASSUME NEW i \in a .. b
      PROVE  t[i] \in C /\ t[i] = s[i + (((p + a) - 1) - a)]
  <2>1. i \in 1 .. Len(t) /\ p + i - 1 = i + (((p + a) - 1) - a)
    BY <1>1, <1>2
  <2>2. t[i] \in C
    BY <1>1, <2>1, ElementOfSeq, Zenon
  <2> QED
    BY <1>1, <2>1, <2>2, Zenon
<1> QED
  BY <1>2, <1>3, <1>4, AlikeTexts, Zenon DEF Alike

FirstFrom(s, c, p, q, k) ==
  \/ k = 0 /\ \A i \in p .. q : s[i] # c
  \/ /\ k \in 1 .. (q - p) + 1 /\ (p + k) - 1 \in p .. q /\ s[(p + k) - 1] = c
     /\ \A i \in p .. (p + k) - 2 : s[i] # c

LEMMA FirstInPart ==
  ASSUME NEW C, NEW s \in Seq(C), NEW p \in 1 .. Len(s) + 1, NEW q \in p - 1 .. Len(s),
         NEW t, t = SubSeq(s, p, q), NEW c, NEW k, FirstAt(t, c, k)
  PROVE  FirstFrom(s, c, p, q, k)
<1>1. /\ t \in Seq(C) /\ Len(t) = q - p + 1
      /\ \A i \in 1 .. Len(t) : t[i] = s[p + i - 1]
  BY PartIs
<1>2. p \in Int /\ q \in Int
  OBVIOUS
<1>3. CASE k = 0 /\ \A i \in 1 .. Len(t) : t[i] # c
  <2>1. ASSUME NEW i \in p .. q
        PROVE  s[i] # c
    <3>1. PICK j : j = i - p + 1
      BY Zenon
    <3>2. j \in 1 .. Len(t) /\ p + j - 1 = i
      BY <1>1, <1>2, <3>1
    <3> QED
      BY <1>1, <1>3, <3>2
  <2> QED
    BY <1>3, <2>1 DEF FirstFrom
<1>4. CASE k \in 1 .. Len(t) /\ t[k] = c /\ \A i \in 1 .. k - 1 : t[i] # c
  <2>1. k \in Int /\ (p + k) - 1 \in p .. q /\ p + k - 1 = (p + k) - 1
    BY <1>1, <1>2, <1>4
  <2>2. s[(p + k) - 1] = c
    BY <1>1, <1>4, <2>1
  <2>3. ASSUME NEW i \in p .. (p + k) - 2
        PROVE  s[i] # c
    <3>1. PICK j : j = i - p + 1
      BY Zenon
    <3>2. j \in 1 .. k - 1 /\ j \in 1 .. Len(t) /\ p + j - 1 = i
      BY <1>1, <1>2, <1>4, <2>1, <3>1
    <3> QED
      BY <1>1, <1>4, <3>2
  <2>4. k \in 1 .. (q - p) + 1
    BY <1>1, <1>2, <1>4
  <2> QED
    BY <2>1, <2>2, <2>3, <2>4, Zenon DEF FirstFrom
<1> QED
  BY <1>3, <1>4, Zenon DEF FirstAt

(* Where the first, the last and the last but one of a part stand. *)
LEMMA LastPlaces ==
  ASSUME NEW n \in Int, NEW m \in Int, 3 <= m, m <= n - 1, NEW q, q = n - m + 1
  PROVE  /\ q > 1 /\ 1 \in 1 .. q /\ q \in 1 .. q /\ q - 1 \in 1 .. q
         /\ m + 1 - 1 = m /\ m + q - 1 = n /\ m + (q - 1) - 1 = n - 1
<1>1. q \in Int /\ q > 1
  OBVIOUS
<1> QED
  BY <1>1

(* One character more. *)
LEMMA OneMore ==
  ASSUME NEW C, NEW s \in Seq(C), NEW c \in C, NEW t, t = Append(s, c)
  PROVE  /\ t \in Seq(C) /\ Len(t) = Len(s) + 1 /\ t[Len(s) + 1] = c
         /\ \A x \in 1 .. Len(s) : t[x] = s[x]
BY AppendProperties

(* The words of a text are a list of its runs. *)
WordsTo(C, s, sep, n) ==
  \E ws \in Seq(Seq(C)), w \in Seq(C) :
    IF n = 0 \/ s[n] = sep THEN WordList(ws, SubSeq(s, 1, n), sep)
    ELSE WordList(Append(ws, w), SubSeq(s, 1, n), sep)

LEMMA NextWords ==
  ASSUME NEW C, NEW s \in Seq(C), NEW sep \in C, NEW n \in Nat, n + 1 <= Len(s),
         WordsTo(C, s, sep, n)
  PROVE  WordsTo(C, s, sep, n + 1)
<1> DEFINE t == SubSeq(s, 1, n)
           c == s[n + 1]
<1>1. Len(s) \in Nat /\ n \in 0 .. Len(s) /\ n + 1 \in 1 .. Len(s) /\ n + 1 # 0
  OBVIOUS
<1>2. c \in C
  BY <1>1
<1>3. t \in Seq(C) /\ Len(t) = n /\ \A i \in 1 .. n : t[i] = s[i]
  BY <1>1, PrefixIs
<1>4. SubSeq(s, 1, n + 1) = Append(t, c)
  BY <1>1, <1>2
<1>5. IF n = 0 THEN t = <<>> ELSE t # <<>> /\ t[Len(t)] = s[n]
  <2>1. n # 0 => n \in 1 .. n
    OBVIOUS
  <2>2. Len(t) = 0 <=> t = <<>>
    BY <1>3, EmptySeq
  <2> QED
    BY <1>3, <2>1, <2>2, Zenon
<1> HIDE DEF t, c
<1>6. PICK ws \in Seq(Seq(C)), w \in Seq(C) :
        IF n = 0 \/ s[n] = sep THEN WordList(ws, t, sep)
        ELSE WordList(Append(ws, w), t, sep)
  BY Zenon DEF WordsTo, t
<1>7. CASE c = sep
  <2>1. Append(ws, w) \in Seq(Seq(C))
    BY AppendProperties, Zenon
  <2>2. \E vs \in Seq(Seq(C)) : WordList(vs, t, sep)
    BY <1>6, <2>1, Zenon
  <2>3. \E vs \in Seq(Seq(C)) : WordList(vs, Append(t, sep), sep)
    BY <1>3, <2>2, ListWithSep, Zenon
  <2> QED
    BY <1>4, <1>7, <2>3, Zenon DEF WordsTo, c
<1>8. CASE c # sep /\ (n = 0 \/ s[n] = sep)
  <2>1. t = <<>> \/ t[Len(t)] = sep
    BY <1>5, <1>8, Zenon
  <2>2. WordList(Append(ws, <<c>>), Append(t, c), sep)
    BY <1>2, <1>3, <1>6, <1>8, <2>1, ListWithFirst, Zenon
  <2>3. <<c>> \in Seq(C)
    BY <1>2
  <2> QED
    BY <1>1, <1>4, <1>8, <2>2, <2>3, Zenon DEF WordsTo, c
<1>9. CASE c # sep /\ ~(n = 0 \/ s[n] = sep)
  <2>1. t # <<>> /\ t[Len(t)] # sep
    BY <1>5, <1>9, Zenon
  <2>2. WordList(Append(ws, Append(w, c)), Append(t, c), sep)
    BY <1>2, <1>3, <1>6, <1>9, <2>1, ListWithNext, Zenon
  <2>3. Append(w, c) \in Seq(C)
    BY <1>2, AppendProperties, Zenon
  <2> QED
    BY <1>1, <1>4, <1>9, <2>2, <2>3, Zenon DEF WordsTo, c
<1> QED
  BY <1>7, <1>8, <1>9, Zenon

LEMMA WordsAreList ==
  ASSUME NEW C, NEW s \in Seq(C), NEW sep \in C
  PROVE  Words(s, sep) \in Seq(Seq(C)) /\ WordList(Words(s, sep), s, sep)
<1> DEFINE P == {n \in Nat : n <= Len(s) => WordsTo(C, s, sep, n)}
<1>1. 0 \in P
  <2>1. <<>> \in Seq(Seq(C)) /\ <<>> \in Seq(C) /\ SubSeq(s, 1, 0) = <<>>
    OBVIOUS
  <2> QED
    BY <2>1, NoWords, Zenon DEF WordsTo
<1>2. \A n \in Nat : n \in P => n + 1 \in P
  <2> SUFFICES ASSUME NEW n \in Nat, n \in P, n + 1 <= Len(s)
               PROVE  WordsTo(C, s, sep, n + 1)
    OBVIOUS
  <2>1. n <= Len(s)
    OBVIOUS
  <2> QED
    BY <2>1, NextWords
<1> HIDE DEF P
<1>3. Len(s) \in P
  BY <1>1, <1>2, SetInduction, LenProperties, Zenon
<1>4. WordsTo(C, s, sep, Len(s)) /\ SubSeq(s, 1, Len(s)) = s
  BY <1>3 DEF P
<1>5. PICK ws \in Seq(Seq(C)) : WordList(ws, s, sep)
  <2>1. \A ws \in Seq(Seq(C)), w \in Seq(C) : Append(ws, w) \in Seq(Seq(C))
    BY AppendProperties, Zenon
  <2> QED
    BY <1>4, <2>1, Zenon DEF WordsTo
<1> QED
  BY <1>5, WordListIsWords, Zenon

(* What stands from a on in a part of s that begins behind p. *)

Separated(s, sep) ==
  \E a, b, c \in 1 .. Len(s) : /\ a < b /\ b < c
                               /\ s[b] = sep /\ s[a] # sep /\ s[c] # sep

(* A text has two words exactly if a separator stands between others. *)
LEMMA TwoWords ==
  ASSUME NEW C, NEW s \in Seq(C), NEW sep \in C
  PROVE  Len(Words(s, sep)) >= 2 <=> Separated(s, sep)
<1> DEFINE k == Len(Words(s, sep))
<1>1. PICK r : RunList(r, k, s, sep)
  BY WordsAreList, Zenon DEF WordList
<1>2. k \in Nat /\ Len(s) \in Nat
  BY WordsAreList, LenProperties, Zenon
<1> HIDE DEF k
<1>3. ASSUME k >= 2
      PROVE  Separated(s, sep)
  <2>1. 1 \in 1 .. k /\ 2 \in 1 .. k /\ 1 < 2
    BY <1>2, <1>3
  <2>2. PICK a, a1, c, c1 : /\ a = r[1][1] /\ a1 = r[1][2] /\ c = r[2][1] /\ c1 = r[2][2]
    BY Zenon
  <2>3. IsRun(s, sep, a, a1) /\ IsRun(s, sep, c, c1) /\ a < c
    BY <1>1, <2>1, <2>2, Zenon DEF RunList
  <2>4. ~(c <= a1)
    <3>1. ASSUME c <= a1 PROVE FALSE
      <4>1. /\ a \in 1 .. Len(s) /\ c \in 1 .. Len(s)
        BY <2>3, Zenon DEF IsRun
      <4>2. a <= c /\ a # c
        BY <1>2, <2>3, <4>1
      <4> QED
        BY <2>3, <3>1, <4>2, RunsApart, Zenon
    <3> QED
      BY <3>1, Zenon
  <2>5. /\ a \in 1 .. Len(s) /\ a1 \in 1 .. Len(s) /\ c \in 1 .. Len(s) /\ c1 \in 1 .. Len(s)
        /\ a <= a1 /\ c <= c1
        /\ a1 = Len(s) \/ s[a1 + 1] = sep
        /\ \A i \in a .. a1 : s[i] # sep
        /\ \A i \in c .. c1 : s[i] # sep
    BY <2>3, Zenon DEF IsRun
  <2>6. /\ a \in a .. a1 /\ c \in c .. c1 /\ a1 # Len(s)
        /\ a1 + 1 \in 1 .. Len(s) /\ a < a1 + 1 /\ a1 + 1 <= c
    BY <1>2, <2>4, <2>5
  <2>7. s[a] # sep /\ s[c] # sep /\ s[a1 + 1] = sep
    BY <2>5, <2>6, Zenon
  <2>8. a1 + 1 # c
    BY <2>7, Zenon
  <2>9. a1 + 1 < c
    BY <1>2, <2>5, <2>6, <2>8
  <2> QED
    BY <2>5, <2>6, <2>7, <2>9, Zenon DEF Separated
<1>4. ASSUME NEW a \in 1 .. Len(s), NEW b \in 1 .. Len(s), NEW c \in 1 .. Len(s),
             a < b, b < c, s[b] = sep, s[a] # sep, s[c] # sep
      PROVE  k >= 2
  <2>1. PICK a0 \in 1 .. a, a1 \in a .. Len(s) : IsRun(s, sep, a0, a1)
    BY <1>4, RunAround, Zenon
  <2>2. PICK c0 \in 1 .. c, c1 \in c .. Len(s) : IsRun(s, sep, c0, c1)
    BY <1>4, RunAround, Zenon
  <2>3. \A i \in c0 .. c1 : s[i] # sep
    BY <2>2, Zenon DEF IsRun
  <2>4. b \notin c0 .. c1
    BY <1>4, <2>3, Zenon
  <2>5. a0 # c0
    BY <1>2, <1>4, <2>4
  <2>6. PICK i \in 1 .. k, j \in 1 .. k : r[i] = <<a0, a1>> /\ r[j] = <<c0, c1>>
    BY <1>1, <2>1, <2>2, Zenon DEF RunList
  <2>7. i # j
    BY <2>5, <2>6
  <2> QED
    BY <1>2, <2>7
<1> QED
  BY <1>3, <1>4, Zenon DEF k, Separated

(* The words of a text with one separator, in its midst. *)
LEMMA PairWords ==
  ASSUME NEW C, NEW s \in Seq(C), NEW sep \in C, NEW e \in 2 .. Len(s) - 1, s[e] = sep,
         \A i \in 1 .. Len(s) : i # e => s[i] # sep
  PROVE  /\ Words(s, sep)[1] = SubSeq(s, 1, e - 1)
         /\ Words(s, sep)[2] = SubSeq(s, e + 1, Len(s))
<1> DEFINE x == SubSeq(s, 1, e - 1)
           y == SubSeq(s, e + 1, Len(s))
           ws == <<x, y>>
           r == [i \in 1 .. 2 |-> IF i = 1 THEN <<1, e - 1>> ELSE <<e + 1, Len(s)>>]
<1>1. Len(s) \in Nat /\ e \in Nat /\ e >= 2 /\ e + 1 <= Len(s)
  OBVIOUS
<1>2. x \in Seq(C) /\ y \in Seq(C)
  <2>1. 1 \in 1 .. Len(s) + 1 /\ e - 1 \in 1 - 1 .. Len(s)
        /\ e + 1 \in 1 .. Len(s) + 1 /\ Len(s) \in (e + 1) - 1 .. Len(s)
    BY <1>1
  <2>2. x \in Seq(C)
    BY <2>1, PartIs, Zenon
  <2>3. y \in Seq(C)
    BY <2>1, PartIs, Zenon
  <2> QED
    BY <2>2, <2>3, Zenon
<1> HIDE DEF x, y
<1>3. ws \in Seq(Seq(C)) /\ Len(ws) = 2 /\ ws[1] = x /\ ws[2] = y
  BY <1>2
<1>4. IsRun(s, sep, 1, e - 1)
  <2>1. 1 \in 1 .. Len(s) /\ e - 1 \in 1 .. Len(s) /\ 1 <= e - 1 /\ e - 1 + 1 = e
        /\ \A i \in 1 .. e - 1 : i \in 1 .. Len(s) /\ i # e
    BY <1>1
  <2> QED
    BY <2>1, Zenon DEF IsRun
<1>5. IsRun(s, sep, e + 1, Len(s))
  <2>1. Len(s) \in 1 .. Len(s) /\ e + 1 \in 1 .. Len(s) /\ e + 1 <= Len(s) /\ (e + 1) - 1 = e
        /\ \A i \in e + 1 .. Len(s) : i \in 1 .. Len(s) /\ i # e
    BY <1>1
  <2>2. s[(e + 1) - 1] = sep
    BY <2>1
  <2> QED
    BY <2>1, <2>2, Zenon DEF IsRun
<1>6. ASSUME NEW a, NEW b, IsRun(s, sep, a, b)
      PROVE  (a = 1 /\ b = e - 1) \/ (a = e + 1 /\ b = Len(s))
  <2>1. /\ a \in 1 .. Len(s) /\ b \in 1 .. Len(s) /\ a <= b
        /\ \A i \in a .. b : s[i] # sep
        /\ a = 1 \/ s[a - 1] = sep
        /\ b = Len(s) \/ s[b + 1] = sep
    BY <1>6, Zenon DEF IsRun
  <2>2. e \notin a .. b
    BY <2>1, Zenon
  <2>3. (a = 1 \/ a - 1 \in 1 .. Len(s)) /\ (b = Len(s) \/ b + 1 \in 1 .. Len(s))
    BY <1>1, <2>1
  <2>4. (a = 1 \/ a - 1 = e) /\ (b = Len(s) \/ b + 1 = e)
    BY <2>1, <2>3, Zenon
  <2> QED
    BY <1>1, <2>1, <2>2, <2>4
<1>7. 1 \in 1 .. 2 /\ 2 \in 1 .. 2 /\ 1 # 2 /\ \A i \in 1 .. 2 : i = 1 \/ i = 2
  OBVIOUS
<1>8. r[1] = <<1, e - 1>> /\ r[2] = <<e + 1, Len(s)>>
  BY <1>7
<1>9. RunList(r, 2, s, sep)
  <2>1. r \in [1 .. 2 -> Nat \X Nat]
    BY <1>1
  <2>2. /\ r[1][1] = 1 /\ r[1][2] = e - 1 /\ r[2][1] = e + 1 /\ r[2][2] = Len(s)
    BY <1>8
  <2>3. \A i, j \in 1 .. 2 : i < j => i = 1 /\ j = 2
    OBVIOUS
  <2>4. 1 < e + 1
    BY <1>1
  <2> HIDE DEF r
  <2>5. \A i \in 1 .. 2 : IsRun(s, sep, r[i][1], r[i][2])
    BY <1>4, <1>5, <1>7, <2>2, Zenon
  <2>6. \A i, j \in 1 .. 2 : i < j => r[i][1] < r[j][1]
    BY <2>2, <2>3, <2>4, Zenon
  <2>7. \A a, b : IsRun(s, sep, a, b) => \E i \in 1 .. 2 : r[i] = <<a, b>>
    BY <1>6, <1>7, <1>8, Zenon
  <2> QED
    BY <2>1, <2>5, <2>6, <2>7, Zenon DEF RunList
<1>10. Spells(ws, r, s)
  <2>1. \A i \in 1 .. 2 : ws[i] = SubSeq(s, r[i][1], r[i][2])
    <3>1. /\ r[1][1] = 1 /\ r[1][2] = e - 1 /\ r[2][1] = e + 1 /\ r[2][2] = Len(s)
      BY <1>8
    <3> HIDE DEF r, ws
    <3> QED
      BY <1>3, <1>7, <3>1, Zenon DEF x, y
  <2> QED
    BY <1>3, <2>1, Zenon DEF Spells
<1> HIDE DEF ws, r
<1>11. ws = Words(s, sep)
  BY <1>3, <1>9, <1>10, WordListIsWords, Zenon DEF WordList
<1> QED
  BY <1>3, <1>11, Zenon DEF x, y
=============================================================================
