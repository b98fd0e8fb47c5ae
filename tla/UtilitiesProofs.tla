--------------------------- MODULE UtilitiesProofs ---------------------------
(***************************************************************************)
(* Proofs about what the servers share: split_words and replace_all for    *)
(* every string; Variant for every number of objects, types and values;    *)
(* the SHA1 class for every message, every way of cutting it into calls,   *)
(* every use of the object before, and every size of the words.  And about *)
(* the frames of the WebSocket manager: their lengths, for every message   *)
(* the memory holds, and read_frame, for every sequence of frames and      *)
(* every way they arrive.                                                  *)
(***************************************************************************)
EXTENDS MCUtilities, MCWebSocket, StringLemmas

-----------------------------------------------------------------------------
(* Variant *)

Members == (Types \X Values) \cup {None}

VariantType ==
  /\ alive \in SUBSET Objects
  /\ currentType \in [Objects -> Types \cup {None}]
  /\ member \in [Objects -> Members]
  /\ living \in [Types -> Int]

(* The tag names the member that is there, also where no Variant is. *)
TagsMatch == \A v \in Objects : currentType[v] = V!TypeOf(member[v])

Tag(v) == IF v \in alive THEN currentType[v] ELSE None
Tagged(t) == {v \in Objects : Tag(v) = t}

(* Members of a type that live and Variants that are there with its tag. *)
Counted == \A t \in Types : living[t] = Cardinality(Tagged(t))

Kept == \A v \in alive : member[v] = meant[v]

VariantInv == VariantType /\ TagsMatch /\ Counted /\ Kept /\ meant \in [Objects -> Members]

LEMMA TypeOfMember ==
  /\ V!TypeOf(None) = None
  /\ \A m \in Types \X Values : /\ m # None
                                /\ V!TypeOf(m) = m[1]
                                /\ V!TypeOf(m) \in Types
  /\ \A m \in Members : V!TypeOf(m) \in Types \cup {None}
BY VariantAssumption DEF V!TypeOf, Members

(* Counting by tags is counting by members. *)
LEMMA TaggedMembers ==
  ASSUME VariantType, TagsMatch, NEW t \in Types
  PROVE  Tagged(t) = {v \in alive : member[v] # None /\ member[v][1] = t}
<1>1. t # None
  BY VariantAssumption
<1>2. ASSUME NEW v \in alive
      PROVE  currentType[v] = t <=> member[v] # None /\ member[v][1] = t
  <2>1. currentType[v] = V!TypeOf(member[v]) /\ member[v] \in Members
    BY <1>2 DEF VariantType, TagsMatch
  <2> QED
    BY <1>1, <2>1, TypeOfMember DEF Members
<1> QED
  BY <1>1, <1>2 DEF Tagged, Tag, VariantType

(* What one constructor or destructor call, or one of each, does to the    *)
(* numbers: the tag of v goes from a to b.                                 *)
LEMMA Recount ==
  ASSUME VariantType, Counted, NEW v \in Objects,
         NEW a \in Types \cup {None}, NEW b \in Types \cup {None},
         Tag(v) = a, Tag(v)' = b, \A w \in Objects \ {v} : Tag(w)' = Tag(w),
         living' = V!Count(V!Count(living, a, -1), b, 1)
  PROVE  Counted' /\ living' \in [Types -> Int]
<1>1. living \in [Types -> Int] /\ None \notin Types /\ IsFiniteSet(Objects)
  BY VariantAssumption DEF VariantType
<1> DEFINE old == V!Count(living, a, -1)
<1>2. /\ old \in [Types -> Int]
      /\ \A t \in Types : old[t] = IF t = a THEN living[t] - 1 ELSE living[t]
  BY <1>1 DEF V!Count
<1> HIDE DEF old
<1>3. /\ living' \in [Types -> Int]
      /\ \A t \in Types : living'[t] = IF t = b THEN old[t] + 1 ELSE old[t]
  BY <1>1, <1>2 DEF V!Count, old
<1>4. ASSUME NEW t \in Types
      PROVE  living'[t] = Cardinality(Tagged(t)')
  <2>1. /\ IsFiniteSet(Tagged(t)) /\ Cardinality(Tagged(t)) \in Nat
        /\ living[t] = Cardinality(Tagged(t))
    <3>1. IsFiniteSet(Tagged(t))
      BY <1>1, FS_Subset DEF Tagged
    <3> QED
      BY <3>1, FS_CardinalityType DEF Counted
  <2>2. v \in Tagged(t) <=> t = a
    BY DEF Tagged
  <2>3. Tagged(t)' = IF t = b THEN Tagged(t) \cup {v} ELSE Tagged(t) \ {v}
    BY DEF Tagged
  <2>4. living'[t] = IF t = b THEN (IF t = a THEN living[t] - 1 ELSE living[t]) + 1
                     ELSE (IF t = a THEN living[t] - 1 ELSE living[t])
    BY <1>2, <1>3
  <2>5. Cardinality(Tagged(t) \cup {v}) = IF t = a THEN Cardinality(Tagged(t))
                                          ELSE Cardinality(Tagged(t)) + 1
    BY <2>1, <2>2, FS_AddElement
  <2>6. Cardinality(Tagged(t) \ {v}) = IF t = a THEN Cardinality(Tagged(t)) - 1
                                       ELSE Cardinality(Tagged(t))
    BY <2>1, <2>2, FS_RemoveElement
  <2> QED
    BY <2>1, <2>3, <2>4, <2>5, <2>6
<1> QED
  BY <1>3, <1>4 DEF Counted

(* A step that leaves in the storage of v a member m, or none. *)
LEMMA BecomesKeeps ==
  ASSUME VariantInv, NEW v \in Objects, NEW m \in Members,
         V!Becomes(v, V!TypeOf(m), m,
                   V!Count(V!Count(living, Tag(v), -1), IF v \in alive' THEN V!TypeOf(m) ELSE None, 1)),
         alive' \in SUBSET Objects,
         \A w \in Objects \ {v} : w \in alive' <=> w \in alive,
         meant' = [meant EXCEPT ![v] = m]
  PROVE  VariantInv'
<1> DEFINE t == V!TypeOf(m)
           b == IF v \in alive' THEN t ELSE None
<1>1. /\ alive \in SUBSET Objects
      /\ currentType \in [Objects -> Types \cup {None}]
      /\ member \in [Objects -> Members]
      /\ meant \in [Objects -> Members]
  BY DEF VariantInv, VariantType
<1>2. t \in Types \cup {None} /\ Tag(v) \in Types \cup {None}
  BY <1>1, TypeOfMember DEF Tag
<1>3. /\ currentType' = [currentType EXCEPT ![v] = t]
      /\ member' = [member EXCEPT ![v] = m]
      /\ living' = V!Count(V!Count(living, Tag(v), -1), b, 1)
  BY DEF V!Becomes
<1> HIDE DEF t
<1>4. Tag(v)' = b /\ \A w \in Objects \ {v} : Tag(w)' = Tag(w)
  BY <1>1, <1>3 DEF Tag
<1>5. b \in Types \cup {None}
  BY <1>2
<1> HIDE DEF b
<1>6. Counted' /\ living' \in [Types -> Int]
  BY <1>2, <1>3, <1>4, <1>5, Recount DEF VariantInv
<1>7. VariantType'
  BY <1>1, <1>2, <1>3, <1>6 DEF VariantType
<1>8. TagsMatch'
  <2>1. \A w \in Objects : /\ currentType'[w] = IF w = v THEN t ELSE currentType[w]
                           /\ member'[w] = IF w = v THEN m ELSE member[w]
    BY <1>1, <1>3
  <2>2. \A w \in Objects : currentType[w] = V!TypeOf(member[w])
    BY DEF VariantInv, TagsMatch
  <2> QED
    BY <2>1, <2>2 DEF TagsMatch, t
<1>9. Kept' /\ meant' \in [Objects -> Members]
  BY <1>1, <1>3 DEF VariantInv, Kept
<1> QED
  BY <1>6, <1>7, <1>8, <1>9 DEF VariantInv

LEMMA CountNone == ASSUME NEW f, NEW n PROVE V!Count(f, None, n) = f
BY DEF V!Count

LEMMA SameVariant ==
  ASSUME VariantInv, UNCHANGED <<alive, currentType, member, living, meant>>,
         \A t : Tagged(t)' = Tagged(t)
  PROVE  VariantInv'
<1>1. VariantType' /\ Kept' /\ meant' \in [Objects -> Members]
  BY DEF VariantInv, VariantType, Kept
<1>2. TagsMatch'
  BY DEF VariantInv, TagsMatch
<1>3. Counted'
  BY DEF VariantInv, Counted
<1> QED
  BY <1>1, <1>2, <1>3 DEF VariantInv

LEMMA VariantKeeps ==
  ASSUME VariantInv, V!Next
  PROVE  VariantInv'
<1>1. /\ alive \in SUBSET Objects
      /\ currentType \in [Objects -> Types \cup {None}]
      /\ member \in [Objects -> Members]
      /\ meant \in [Objects -> Members]
      /\ \A v \in Objects : currentType[v] = V!TypeOf(member[v])
      /\ \A v \in alive : member[v] = meant[v]
      /\ None \in Members
  BY DEF VariantInv, VariantType, TagsMatch, Kept, Members
<1>2. ASSUME NEW v \in Objects, V!Default(v)
      PROVE  VariantInv'
  <2>1. Tag(v) = None /\ v \in alive'
    BY <1>2 DEF Tag, V!Default
  <2>2. V!Becomes(v, V!TypeOf(None), None,
                  V!Count(V!Count(living, Tag(v), -1),
                          IF v \in alive' THEN V!TypeOf(None) ELSE None, 1))
    BY <1>2, <2>1, CountNone, TypeOfMember DEF V!Default
  <2> QED
    BY <1>1, <1>2, <2>2, BecomesKeeps DEF V!Default
<1>3. ASSUME NEW v \in Objects, NEW m \in Members, V!Construct(v, m)
      PROVE  VariantInv'
  <2>1. Tag(v) = None /\ v \in alive'
    BY <1>3 DEF Tag, V!Construct
  <2>2. V!Becomes(v, V!TypeOf(m), m,
                  V!Count(V!Count(living, Tag(v), -1),
                          IF v \in alive' THEN V!TypeOf(m) ELSE None, 1))
    BY <1>3, <2>1, CountNone DEF V!Construct
  <2> QED
    BY <1>1, <1>3, <2>2, BecomesKeeps DEF V!Construct
<1>4. ASSUME NEW v \in Objects, NEW w \in Objects, V!CopyConstruct(v, w)
      PROVE  VariantInv'
  BY <1>1, <1>3, <1>4 DEF V!CopyConstruct
<1>5. ASSUME NEW v \in Objects, NEW w \in Objects, V!Assign(v, w)
      PROVE  VariantInv'
  <2>1. v \in alive /\ w \in alive /\ alive' = alive /\ meant' = [meant EXCEPT ![v] = meant[w]]
    BY <1>5 DEF V!Assign
  <2>2. CASE v = w
    <3>1. UNCHANGED <<alive, currentType, member, living>> /\ meant' = meant
      BY <1>1, <1>5, <2>1, <2>2 DEF V!Assign
    <3>2. \A t : Tagged(t)' = Tagged(t)
      BY <3>1 DEF Tagged, Tag
    <3> QED
      BY <3>1, <3>2, SameVariant, Zenon
  <2>3. CASE v # w
    <3>1. /\ Tag(v) = currentType[v] /\ v \in alive'
          /\ currentType[w] = V!TypeOf(member[w]) /\ meant[w] = member[w]
          /\ member[w] \in Members
      BY <1>1, <2>1 DEF Tag
    <3>2. V!Becomes(v, V!TypeOf(member[w]), member[w],
                    V!Count(V!Count(living, Tag(v), -1),
                            IF v \in alive' THEN V!TypeOf(member[w]) ELSE None, 1))
      BY <1>5, <2>3, <3>1 DEF V!Assign, V!Destroyed
    <3> QED
      BY <1>1, <2>1, <3>1, <3>2, BecomesKeeps
  <2> QED
    BY <2>2, <2>3
<1>6. ASSUME NEW v \in Objects, NEW w \in Objects, V!AssignThrows(v, w)
      PROVE  VariantInv'
  <2>1. v \in alive /\ alive' = alive /\ Tag(v) = currentType[v]
    BY <1>6 DEF V!AssignThrows, Tag
  <2>2. V!Becomes(v, V!TypeOf(None), None,
                  V!Count(V!Count(living, Tag(v), -1),
                          IF v \in alive' THEN V!TypeOf(None) ELSE None, 1))
    BY <1>6, <2>1, CountNone, TypeOfMember DEF V!AssignThrows, V!Destroyed
  <2> QED
    BY <1>1, <1>6, <2>1, <2>2, BecomesKeeps DEF V!AssignThrows
<1>7. ASSUME NEW v \in Objects, NEW t \in Types, NEW x \in Values, V!Set(v, t, x)
      PROVE  VariantInv'
  <2>1. /\ v \in alive /\ currentType[v] = t
        /\ UNCHANGED <<alive, currentType, living>>
        /\ member' = [member EXCEPT ![v] = <<t, x>>]
        /\ meant' = [meant EXCEPT ![v] = <<t, x>>]
    BY <1>7 DEF V!Set
  <2>2. <<t, x>> \in Members /\ V!TypeOf(<<t, x>>) = t
    BY TypeOfMember DEF Members
  <2>3. VariantType' /\ Kept' /\ meant' \in [Objects -> Members]
    BY <1>1, <2>1, <2>2 DEF VariantInv, VariantType, Kept
  <2>4. TagsMatch'
    BY <1>1, <2>1, <2>2 DEF TagsMatch
  <2>5. \A u : Tagged(u)' = Tagged(u)
    BY <2>1 DEF Tagged, Tag
  <2> QED
    BY <2>1, <2>3, <2>4, <2>5 DEF VariantInv, Counted
<1>8. ASSUME NEW v \in Objects, V!Destruct(v)
      PROVE  VariantInv'
  <2>1. v \in alive /\ alive' = alive \ {v} /\ Tag(v) = currentType[v]
    BY <1>8 DEF V!Destruct, Tag
  <2>2. V!Becomes(v, V!TypeOf(None), None,
                  V!Count(V!Count(living, Tag(v), -1),
                          IF v \in alive' THEN V!TypeOf(None) ELSE None, 1))
    BY <1>8, <2>1, CountNone, TypeOfMember DEF V!Destruct, V!Destroyed
  <2> QED
    BY <1>1, <1>8, <2>1, <2>2, BecomesKeeps DEF V!Destruct
<1> QED
  BY <1>2, <1>3, <1>4, <1>5, <1>6, <1>7, <1>8 DEF V!Next, Members

(* Every member is destroyed once, by its own destructor, and what is read *)
(* is what was stored: variant.h:39-148, for any number of objects, types  *)
(* and values, and whichever copies throw.                                 *)
THEOREM VariantsBalance == MCSafety => []VariantsRight
<1>1. MCInit => VariantInv
  <2> SUFFICES ASSUME MCInit PROVE VariantInv
    OBVIOUS
  <2>1. /\ alive = {} /\ living = [t \in Types |-> 0]
        /\ currentType = [v \in Objects |-> None]
        /\ member = [v \in Objects |-> None]
        /\ meant = [v \in Objects |-> None]
    BY DEF MCInit, V!Init
  <2>2. VariantType /\ TagsMatch /\ Kept /\ meant \in [Objects -> Members]
    BY <2>1, TypeOfMember DEF VariantType, TagsMatch, Kept, Members
  <2>3. \A t \in Types : Tagged(t) = {}
    BY <2>1, VariantAssumption DEF Tagged, Tag
  <2>4. Counted
    BY <2>1, <2>3, FS_EmptySet DEF Counted
  <2> QED
    BY <2>2, <2>4 DEF VariantInv
<1>2. VariantInv /\ [MCNext]_MCvars => VariantInv'
  <2> SUFFICES ASSUME VariantInv, [MCNext]_MCvars PROVE VariantInv'
    OBVIOUS
  <2>1. CASE V!Next
    BY <2>1, VariantKeeps
  <2>2. CASE UNCHANGED variant
    <3>1. UNCHANGED <<alive, currentType, member, living, meant>>
      BY <2>2 DEF variant
    <3>2. \A t : Tagged(t)' = Tagged(t)
      BY <3>1 DEF Tagged, Tag
    <3> QED
      BY <3>1, <3>2, SameVariant, Zenon
  <2> QED
    BY <2>1, <2>2 DEF MCNext, Hash, Split, ReplaceIn, Vary, MCvars
<1>3. VariantInv => VariantsRight
  <2> SUFFICES ASSUME VariantInv PROVE VariantsRight
    OBVIOUS
  <2>1. V!Balanced
    <3> SUFFICES ASSUME NEW t \in Types
                 PROVE  living[t] = Cardinality({v \in alive : member[v] # None /\ member[v][1] = t})
      BY Zenon DEF V!Balanced, V!Cardinality, Cardinality
    <3>1. Tagged(t) = {v \in alive : member[v] # None /\ member[v][1] = t}
      <4>1. VariantType /\ TagsMatch
        BY DEF VariantInv
      <4> QED
        BY <4>1, TaggedMembers, Zenon
    <3>2. living[t] = Cardinality(Tagged(t))
      BY DEF VariantInv, Counted
    <3> QED
      BY <3>1, <3>2, Zenon
  <2>2. V!AsMeant
    BY DEF VariantInv, VariantType, TagsMatch, Kept, V!AsMeant
  <2> QED
    BY <2>1, <2>2 DEF VariantsRight
<1> QED
  BY <1>1, <1>2, <1>3, PTL DEF MCSafety

-----------------------------------------------------------------------------
(* split_words *)

ReadSoFar == SubSeq(word, 1, iter - 1)

SplitType ==
  /\ word \in Seq(Letters) /\ word_str \in Seq(Letters) /\ ret \in Seq(Seq(Letters))
  /\ iter \in 1 .. Len(word) + 1
  /\ split_at \in {"idle", "loop", "done"}

(* What ret and word_str hold is what stands in the part read; word_str is *)
(* empty at its beginning and behind a separator.                          *)
SplitHolds ==
  IF split_at = "done" THEN WordList(ret, ReadSoFar, Sep)
  ELSE IF word_str = <<>>
    THEN WordList(ret, ReadSoFar, Sep) /\ (ReadSoFar = <<>> \/ ReadSoFar[Len(ReadSoFar)] = Sep)
    ELSE /\ WordList(Append(ret, word_str), ReadSoFar, Sep)
         /\ ReadSoFar # <<>> /\ ReadSoFar[Len(ReadSoFar)] # Sep

SplitInv == SplitType /\ SplitHolds

LEMMA SplitInitially == S!Init \/ NotSplitting => SplitInv
<1> SUFFICES ASSUME S!Init \/ NotSplitting PROVE SplitInv
  OBVIOUS
<1>1. word \in Seq(Letters) /\ Len(word) \in Nat
  <2>1. CASE S!Init
    BY <2>1 DEF S!Init, S!BoundedSeq, S!SeqOf
  <2>2. CASE NotSplitting
    BY <2>2, EmptySeq DEF NotSplitting
  <2> QED
    BY <2>1, <2>2
<1>2. iter = 1 /\ word_str = <<>> /\ ret = <<>> /\ split_at \in {"idle", "loop"}
  BY DEF S!Init, NotSplitting
<1>3. SplitType
  <2>1. ret \in Seq(Seq(Letters)) /\ word_str \in Seq(Letters)
    BY <1>2, EmptySeq, Zenon
  <2>2. iter \in 1 .. Len(word) + 1
    BY <1>1, <1>2
  <2> QED
    BY <1>1, <1>2, <2>1, <2>2, Zenon DEF SplitType
<1>4. ReadSoFar = <<>>
  <2>1. iter - 1 < 1 /\ iter - 1 \in Int /\ 1 \in Int
    BY <1>2
  <2> QED
    BY <2>1, SubSeqEmpty, Zenon DEF ReadSoFar
<1>5. WordList(<<>>, <<>>, Sep)
  BY NoWords, Zenon
<1>6. SplitHolds
  BY <1>2, <1>4, <1>5, Zenon DEF SplitHolds
<1> QED
  BY <1>3, <1>6 DEF SplitInv

(* The part read after one turn more. *)
LEMMA ReadOn ==
  ASSUME SplitType, iter \in 1 .. Len(word), word' = word, iter' = iter + 1
  PROVE  /\ ReadSoFar \in Seq(Letters) /\ word[iter] \in Letters
         /\ ReadSoFar' = Append(ReadSoFar, word[iter])
         /\ iter' \in 1 .. Len(word') + 1
<1>1. word \in Seq(Letters) /\ Len(word) \in Nat
  BY DEF SplitType
<1>2. word[iter] \in Letters
  BY <1>1
<1>3. ReadSoFar \in Seq(Letters)
  <2>1. 1 \in Int /\ iter - 1 \in Int /\ \A k \in 1 .. iter - 1 : word[k] \in Letters
    BY <1>1
  <2> QED
    BY <2>1, SubSeqProperties, Zenon DEF ReadSoFar
<1>4. SubSeq(word, 1, iter) = SubSeq(word, 1, iter - 1) \o <<word[iter]>>
  <2>1. 1 \in 1 .. Len(word)
    BY <1>1
  <2> QED
    BY <1>1, <2>1, SubSeqRecursiveSecond, Zenon
<1>5. iter' - 1 = iter /\ iter' \in 1 .. Len(word') + 1
  BY <1>1
<1>6. ReadSoFar' = ReadSoFar \o <<word[iter]>>
  BY <1>4, <1>5, Zenon DEF ReadSoFar
<1>7. Append(ReadSoFar, word[iter]) = ReadSoFar \o <<word[iter]>>
  BY <1>2, <1>3, AppendIsConcat, Zenon
<1> QED
  BY <1>2, <1>3, <1>5, <1>6, <1>7, Zenon

LEMMA LetterKeeps == SplitInv /\ S!Letter => SplitInv'
<1> SUFFICES ASSUME SplitInv, S!Letter PROVE SplitInv'
  OBVIOUS
<1> DEFINE c == word[iter]
<1>1. /\ iter \in 1 .. Len(word) /\ c # Sep
      /\ word_str' = Append(word_str, c)
  <2>1. word \in Seq(Letters)
    BY DEF SplitInv, SplitType
  <2>2. DOMAIN word = 1 .. Len(word)
    BY <2>1
  <2> QED
    BY <2>2, Zenon DEF S!Letter, S!CharAt
<1>2. iter' = iter + 1 /\ word' = word /\ ret' = ret /\ split_at' = split_at /\ split_at = "loop"
  BY DEF S!Letter
<1>3. SplitType
  BY DEF SplitInv
<1>4. /\ ReadSoFar \in Seq(Letters) /\ c \in Letters
      /\ ReadSoFar' = Append(ReadSoFar, c)
      /\ iter' \in 1 .. Len(word') + 1
  BY <1>1, <1>2, <1>3, ReadOn
<1>5. ret \in Seq(Seq(Letters)) /\ word_str \in Seq(Letters)
  BY <1>3, Zenon DEF SplitType
<1> HIDE DEF c
<1>6. /\ word_str' \in Seq(Letters) /\ word_str' # <<>>
      /\ word_str = <<>> => word_str' = <<c>>
  <2>1. Append(word_str, c) \in Seq(Letters) /\ Append(word_str, c) # <<>>
    <3>1. \A s \in Seq(Letters) : \A e \in Letters :
            Append(s, e) \in Seq(Letters) /\ Append(s, e) # <<>>
      BY AppendProperties
    <3> QED
      BY <1>4, <1>5, <3>1, Zenon
  <2>2. Append(<<>>, c) = <<c>>
    OBVIOUS
  <2> QED
    BY <1>1, <2>1, <2>2, Zenon
<1>7. SplitType'
  BY <1>2, <1>3, <1>4, <1>6, Zenon DEF SplitType
<1>8. ReadSoFar' # <<>> /\ ReadSoFar'[Len(ReadSoFar')] # Sep
  <2>1. /\ Append(ReadSoFar, c) # <<>> /\ Len(Append(ReadSoFar, c)) = Len(ReadSoFar) + 1
        /\ Append(ReadSoFar, c)[Len(ReadSoFar) + 1] = c
    BY <1>4, AppendProperties, Zenon
  <2> QED
    BY <1>1, <1>4, <2>1, Zenon
<1>9. WordList(Append(ret, word_str'), ReadSoFar', Sep)
  <2>1. CASE word_str = <<>>
    <3>1. WordList(ret, ReadSoFar, Sep) /\ (ReadSoFar = <<>> \/ ReadSoFar[Len(ReadSoFar)] = Sep)
      BY <1>2, <2>1, Zenon DEF SplitInv, SplitHolds
    <3>2. WordList(Append(ret, <<c>>), Append(ReadSoFar, c), Sep)
      BY <1>1, <1>4, <1>5, <3>1, ListWithFirst, Zenon
    <3> QED
      BY <1>4, <1>6, <2>1, <3>2, Zenon
  <2>2. CASE word_str # <<>>
    <3>1. /\ WordList(Append(ret, word_str), ReadSoFar, Sep)
          /\ ReadSoFar # <<>> /\ ReadSoFar[Len(ReadSoFar)] # Sep
      BY <1>2, <2>2, Zenon DEF SplitInv, SplitHolds
    <3>2. WordList(Append(ret, Append(word_str, c)), Append(ReadSoFar, c), Sep)
      BY <1>1, <1>4, <1>5, <3>1, ListWithNext, Zenon
    <3> QED
      BY <1>1, <1>4, <3>2, Zenon
  <2> QED
    BY <2>1, <2>2, Zenon
<1>10. SplitHolds'
  BY <1>2, <1>6, <1>8, <1>9, Zenon DEF SplitHolds
<1> QED
  BY <1>7, <1>10, Zenon DEF SplitInv

(* A word that ends is put behind the others. *)
LEMMA WordEnds ==
  ASSUME SplitInv, split_at = "loop",
         ret' = IF word_str = <<>> THEN ret ELSE Append(ret, word_str)
  PROVE  WordList(ret', ReadSoFar, Sep) /\ ret' \in Seq(Seq(Letters))
<1>1. ret \in Seq(Seq(Letters)) /\ word_str \in Seq(Letters)
  BY Zenon DEF SplitInv, SplitType
<1>2. Append(ret, word_str) \in Seq(Seq(Letters))
  BY <1>1, AppendProperties, Zenon
<1> QED
  BY <1>1, <1>2, Zenon DEF SplitInv, SplitHolds

LEMMA SeparatorKeeps == SplitInv /\ S!Separator => SplitInv'
<1> SUFFICES ASSUME SplitInv, S!Separator PROVE SplitInv'
  OBVIOUS
<1>1. word \in Seq(Letters) /\ SplitType
  BY DEF SplitInv, SplitType
<1>2. iter \in 1 .. Len(word) /\ word[iter] = Sep
  <2>1. DOMAIN word = 1 .. Len(word)
    BY <1>1
  <2>2. Sep # NUL
    BY SplitAssumption
  <2> QED
    BY <2>1, <2>2, Zenon DEF S!Separator, S!CharAt
<1>3. /\ iter' = iter + 1 /\ word' = word /\ split_at' = split_at /\ split_at = "loop"
      /\ word_str' = <<>>
      /\ ret' = IF word_str = <<>> THEN ret ELSE Append(ret, word_str)
  BY DEF S!Separator
<1>4. /\ ReadSoFar \in Seq(Letters) /\ Sep \in Letters
      /\ ReadSoFar' = Append(ReadSoFar, Sep)
      /\ iter' \in 1 .. Len(word') + 1
  <2>1. /\ ReadSoFar \in Seq(Letters) /\ word[iter] \in Letters
        /\ ReadSoFar' = Append(ReadSoFar, word[iter])
        /\ iter' \in 1 .. Len(word') + 1
    BY <1>1, <1>2, <1>3, ReadOn
  <2> QED
    BY <1>2, <2>1, Zenon
<1>5. WordList(ret', ReadSoFar, Sep) /\ ret' \in Seq(Seq(Letters))
  BY <1>3, WordEnds
<1>6. WordList(ret', ReadSoFar', Sep)
  BY <1>4, <1>5, ListWithSep, Zenon
<1>7. ReadSoFar'[Len(ReadSoFar')] = Sep
  <2>1. Append(ReadSoFar, Sep)[Len(ReadSoFar) + 1] = Sep /\ Len(Append(ReadSoFar, Sep)) = Len(ReadSoFar) + 1
    BY <1>4, AppendProperties, Zenon
  <2> QED
    BY <1>4, <2>1, Zenon
<1>8. SplitType'
  <2>1. word_str' \in Seq(Letters)
    BY <1>3, EmptySeq, Zenon
  <2> QED
    BY <1>1, <1>3, <1>4, <1>5, <2>1, Zenon DEF SplitType
<1>9. SplitHolds'
  BY <1>3, <1>6, <1>7, Zenon DEF SplitHolds
<1> QED
  BY <1>8, <1>9, Zenon DEF SplitInv

LEMMA EndKeeps == SplitInv /\ S!End => SplitInv'
<1> SUFFICES ASSUME SplitInv, S!End PROVE SplitInv'
  OBVIOUS
<1>1. /\ iter' = iter /\ word' = word /\ split_at' = "done" /\ split_at = "loop"
      /\ word_str' = word_str
      /\ ret' = IF word_str = <<>> THEN ret ELSE Append(ret, word_str)
  BY DEF S!End
<1>2. WordList(ret', ReadSoFar, Sep) /\ ret' \in Seq(Seq(Letters))
  BY <1>1, WordEnds
<1>3. ReadSoFar' = ReadSoFar
  BY <1>1, Zenon DEF ReadSoFar
<1>4. SplitType'
  BY <1>1, <1>2 DEF SplitInv, SplitType
<1>5. SplitHolds'
  BY <1>1, <1>2, <1>3, Zenon DEF SplitHolds
<1> QED
  BY <1>4, <1>5, Zenon DEF SplitInv

LEMMA SplitKeeps == SplitInv /\ (S!Next \/ UNCHANGED splitting) => SplitInv'
<1>1. SplitInv /\ UNCHANGED splitting => SplitInv'
  <2> SUFFICES ASSUME SplitInv, UNCHANGED splitting PROVE SplitInv'
    OBVIOUS
  <2>1. /\ word' = word /\ iter' = iter /\ word_str' = word_str /\ ret' = ret
        /\ split_at' = split_at
    BY DEF splitting
  <2> QED
    BY <2>1, Zenon DEF SplitInv, SplitType, SplitHolds, ReadSoFar
<1> QED
  BY <1>1, LetterKeeps, SeparatorKeeps, EndKeeps, Zenon DEF S!Next

(* What the instance calls the words of a string are its words. *)
LEMMA InstanceWords == ASSUME NEW s, NEW sep PROVE S!Words(s, sep) = Words(s, sep)
BY Zenon DEF S!Words, Words, S!Runs, Runs, S!Cardinality, Cardinality

LEMMA SplitInvWords == SplitInv => S!WordsSoFar
<1> SUFFICES ASSUME SplitInv PROVE S!WordsSoFar
  OBVIOUS
<1>1. /\ word \in Seq(Letters) /\ iter \in 1 .. Len(word) + 1
      /\ word_str \in Seq(Letters) /\ ret \in Seq(Seq(Letters))
  BY Zenon DEF SplitInv, SplitType
<1>2. ReadSoFar \in Seq(Letters)
  <2>1. 1 \in Int /\ iter - 1 \in Int /\ \A k \in 1 .. iter - 1 : word[k] \in Letters
    BY <1>1
  <2> QED
    BY <2>1, SubSeqProperties, Zenon DEF ReadSoFar
<1>3. Append(ret, word_str) \in Seq(Seq(Letters))
  BY <1>1, AppendProperties, Zenon
<1>4. \A ws \in Seq(Seq(Letters)) : WordList(ws, ReadSoFar, Sep) => ws = S!Words(ReadSoFar, Sep)
  BY <1>2, WordListIsWords, InstanceWords, Zenon
<1> QED
  BY <1>1, <1>3, <1>4, Zenon DEF S!WordsSoFar, SplitInv, SplitHolds, ReadSoFar

-----------------------------------------------------------------------------
(* replace_all *)

ReplaceInv ==
  /\ original \in Seq(TextChars) /\ from \in Seq(TextChars) /\ to \in Seq(TextChars)
  /\ from # <<>> =>
       /\ Halfway(TextChars, str, start_pos, original, copied, from, to)
       /\ replace_at = "done" => str = Replacing(original, from, to)[1]

(* The places from start_pos on where from is, as find sees them. *)
Places == {k \in start_pos .. Len(str) + 1 : Occurs(str, from, k)}

LEMMA FoundIs ==
  ASSUME str \in Seq(TextChars), start_pos \in 1 .. Len(str) + 1
  PROVE  /\ R!Found = 0 => Places = {}
         /\ R!Found # 0 => R!Found \in Places /\ \A k \in Places : R!Found <= k
<1>1. Places \in SUBSET Nat /\ 0 \notin Places
  BY DEF Places
<1>2. \A k \in start_pos .. Len(str) + 1 : [i \in 1 .. Len(str) + 1 |-> i][k] = k
  <2>1. \A k \in start_pos .. Len(str) + 1 : k \in 1 .. Len(str) + 1
    OBVIOUS
  <2> QED
    BY <2>1, Zenon
<1>3. {k \in start_pos .. Len(str) + 1 :
         R!OccursAt(str, from, [i \in 1 .. Len(str) + 1 |-> i][k])} = Places
  BY <1>2, Zenon DEF R!OccursAt, Occurs, Places
<1>4. R!Found = IF Places # {} THEN CHOOSE x \in Places : \A y \in Places : x =< y ELSE 0
  <2> DEFINE Seen == {k \in start_pos .. Len(str) + 1 :
                        R!OccursAt(str, from, [i \in 1 .. Len(str) + 1 |-> i][k])}
  <2>1. R!Found = Least(Seen)
    BY DEF R!Found, R!Find, R!SelectInSubSeq, R!Min, Least
  <2>2. Seen = Places
    BY <1>3, Zenon
  <2> HIDE DEF Seen
  <2>3. R!Found = Least(Places)
    BY <2>1, <2>2, Zenon
  <2> QED
    BY <2>3, Zenon DEF Least
<1>5. CASE Places = {}
  BY <1>4, <1>5, Zenon
<1>6. CASE Places # {}
  <2>1. \E x \in Places : \A y \in Places : x <= y
    BY <1>1, <1>6, LeastNat, Zenon
  <2>2. R!Found \in Places /\ \A y \in Places : R!Found <= y
    BY <1>4, <1>6, <2>1, Zenon
  <2> QED
    BY <1>1, <2>2, Zenon
<1> QED
  BY <1>5, <1>6, Zenon

LEMMA HalfwayType ==
  ASSUME NEW C, NEW s, NEW p, NEW o, NEW c, NEW f, NEW t, Halfway(C, s, p, o, c, f, t)
  PROVE  s \in Seq(C) /\ p \in 1 .. Len(s) + 1
BY Zenon DEF Halfway, SameTail

LEMMA BoundedText == \A C, n : \A s \in R!BoundedSeq(C, n) : s \in Seq(C)
BY DEF R!BoundedSeq, R!SeqOf

LEMMA ReplaceInitially == R!Init \/ NotReplacing => ReplaceInv
<1> SUFFICES ASSUME R!Init \/ NotReplacing PROVE ReplaceInv
  OBVIOUS
<1>1. CASE NotReplacing
  <2>1. original = <<>> /\ from = <<>> /\ to = <<>>
    BY <1>1, Zenon DEF NotReplacing
  <2>2. <<>> \in Seq(TextChars)
    BY EmptySeq, Zenon
  <2> QED
    BY <2>1, <2>2, Zenon DEF ReplaceInv
<1>2. CASE R!Init
  <2>1. original \in Seq(TextChars) /\ from \in Seq(TextChars) /\ to \in Seq(TextChars)
    <3>1. /\ original \in R!BoundedSeq(TextChars, MaxString)
          /\ from \in R!BoundedSeq(TextChars, MaxPattern)
          /\ to \in R!BoundedSeq(TextChars, MaxPattern)
      BY <1>2, Zenon DEF R!Init
    <3> QED
      BY <3>1, BoundedText, Zenon
  <2>2. str = original /\ start_pos = 1 /\ copied = 0 /\ replace_at # "done"
    BY <1>2 DEF R!Init
  <2>3. ASSUME from # <<>>
        PROVE  Halfway(TextChars, str, start_pos, original, copied, from, to)
    <3>1. Len(original) \in Nat /\ start_pos \in 1 .. Len(str) + 1 /\ copied \in 0 .. Len(original)
          /\ copied + 1 = 1 /\ start_pos - 1 = 0 /\ 1 \in 1 .. Len(original) + 1
      BY <2>1, <2>2
    <3>2. SameTail(TextChars, str, start_pos, original, copied)
      BY <2>1, <2>2, <3>1, Zenon DEF SameTail
    <3>3. SubSeq(str, 1, start_pos - 1) = <<>>
      <4>1. 0 < 1 /\ 0 \in Int /\ 1 \in Int
        OBVIOUS
      <4>2. SubSeq(str, 1, 0) = <<>>
        BY <2>1, <2>2, <4>1, SubSeqEmpty, Zenon
      <4> QED
        BY <3>1, <4>2, Zenon
    <3>4. Replacing(original, from, to)[1] \in Seq(TextChars)
      BY <2>1, <2>3, <3>1, ReplacingIs, Zenon
    <3>5. <<>> \o Replacing(original, from, to)[1] = Replacing(original, from, to)[1]
      BY <3>4, ConcatEmptySeq, Zenon
    <3>6. <<>> \in Seq(TextChars)
      BY EmptySeq, Zenon
    <3>7. IsJoin(TextChars, Replacing(original, from, to)[1], SubSeq(str, 1, start_pos - 1),
                 Replacing(original, from, to)[copied + 1])
      BY <3>1, <3>3, <3>4, <3>5, <3>6, Zenon DEF IsJoin
    <3> QED
      BY <3>2, <3>7, Zenon DEF Halfway
  <2> QED
    BY <2>1, <2>2, <2>3, Zenon DEF ReplaceInv
<1> QED
  BY <1>1, <1>2, Zenon

LEMMA ReplaceStepKeeps == ReplaceInv /\ R!Replace => ReplaceInv'
<1> SUFFICES ASSUME ReplaceInv, R!Replace PROVE ReplaceInv'
  OBVIOUS
<1>1. /\ original \in Seq(TextChars) /\ from \in Seq(TextChars) /\ to \in Seq(TextChars)
      /\ original' = original /\ from' = from /\ to' = to
      /\ replace_at = "loop" /\ replace_at' = replace_at
      /\ R!Found # 0
  BY Zenon DEF ReplaceInv, R!Replace
<1>2. Turned(str, start_pos, copied, from, to, R!Found, str', start_pos', copied')
  BY Zenon DEF R!Replace, Turned
<1>3. ASSUME from # <<>>
      PROVE  Halfway(TextChars, str', start_pos', original, copied', from, to)
  <2>1. Halfway(TextChars, str, start_pos, original, copied, from, to)
    BY <1>3, Zenon DEF ReplaceInv
  <2>2. str \in Seq(TextChars) /\ start_pos \in 1 .. Len(str) + 1
    BY <2>1, HalfwayType, Zenon
  <2>3. R!Found \in Places /\ \A k \in Places : R!Found <= k
    BY <1>1, <2>2, FoundIs, Zenon
  <2>4. PICK found : found = R!Found
    BY Zenon
  <2>5. found \in start_pos .. Len(str) + 1 /\ Occurs(str, from, found)
    BY <2>3, <2>4, Zenon DEF Places
  <2>6. ASSUME NEW k \in start_pos .. found - 1
        PROVE  ~Occurs(str, from, k)
    <3>1. k \in start_pos .. Len(str) + 1 /\ ~(found <= k)
      BY <2>2, <2>5
    <3> QED
      BY <2>3, <2>4, <3>1, Zenon DEF Places
  <2>7. Turned(str, start_pos, copied, from, to, found, str', start_pos', copied')
    BY <1>2, <2>4, Zenon
  <2> QED
    BY <1>1, <1>3, <2>1, <2>5, <2>6, <2>7, TailStep, Zenon
<1> QED
  BY <1>1, <1>3, Zenon DEF ReplaceInv

LEMMA NotFoundKeeps == ReplaceInv /\ R!NotFound => ReplaceInv'
<1> SUFFICES ASSUME ReplaceInv, R!NotFound PROVE ReplaceInv'
  OBVIOUS
<1>1. /\ original' = original /\ str' = str /\ start_pos' = start_pos
      /\ from' = from /\ to' = to /\ copied' = copied
      /\ R!Found = 0
  BY Zenon DEF R!NotFound
<1>2. original \in Seq(TextChars) /\ from \in Seq(TextChars) /\ to \in Seq(TextChars)
  BY Zenon DEF ReplaceInv
<1>3. ASSUME from # <<>>
      PROVE  /\ Halfway(TextChars, str, start_pos, original, copied, from, to)
             /\ str = Replacing(original, from, to)[1]
  <2>1. Halfway(TextChars, str, start_pos, original, copied, from, to)
    BY <1>3, Zenon DEF ReplaceInv
  <2>2. str \in Seq(TextChars) /\ start_pos \in 1 .. Len(str) + 1
    BY <2>1, HalfwayType, Zenon
  <2>3. \A k \in start_pos .. Len(str) + 1 : ~Occurs(str, from, k)
    BY <1>1, <2>2, FoundIs, Zenon DEF Places
  <2> QED
    BY <1>2, <1>3, <2>1, <2>3, TailEnd DEF Halfway
<1> QED
  BY <1>1, <1>2, <1>3, Zenon DEF ReplaceInv

LEMMA ReplaceKeeps == ReplaceInv /\ (R!Next \/ UNCHANGED replace) => ReplaceInv'
<1>1. ReplaceInv /\ (R!TooLong \/ UNCHANGED replace) => ReplaceInv'
  <2> SUFFICES ASSUME ReplaceInv, R!TooLong \/ UNCHANGED replace PROVE ReplaceInv'
    OBVIOUS
  <2>1. /\ original' = original /\ str' = str /\ start_pos' = start_pos
        /\ from' = from /\ to' = to /\ copied' = copied
        /\ replace_at' = "done" => replace_at = "done"
    BY DEF R!TooLong, replace
  <2> QED
    BY <2>1, Zenon DEF ReplaceInv
<1> QED
  BY <1>1, ReplaceStepKeeps, NotFoundKeeps, Zenon DEF R!Next

(* What the instance calls the original with everything replaced. *)
LEMMA InstanceReplaced == \A i : R!Replaced(i) = Replacing(original, from, to)[i]
BY Zenon DEF R!Replaced, R!OccursAt, Replacing, Solves, Value, Occurs

LEMMA ReplaceInvOnce == ReplaceInv => R!ReplacedOnce
BY InstanceReplaced, Zenon DEF ReplaceInv, R!ReplacedOnce, Halfway, SameTail, IsJoin

(* split_words keeps every word, whole and in its place, and makes none    *)
(* that is not there, and replace_all replaces every occurrence once and   *)
(* loses nothing between them: string_utils.h:10-55, for every string,     *)
(* separator, pattern and replacement, and where the string grows too long.*)
THEOREM StringsKept == MCSafety => []StringsRight
<1>1. MCInit => SplitInv /\ ReplaceInv
  BY SplitInitially, ReplaceInitially, Zenon DEF MCInit
<1>2. SplitInv /\ ReplaceInv /\ [MCNext]_MCvars => SplitInv' /\ ReplaceInv'
  <2>1. [MCNext]_MCvars => S!Next \/ UNCHANGED splitting
    BY Zenon DEF MCNext, Hash, Split, ReplaceIn, Vary, MCvars
  <2>2. [MCNext]_MCvars => R!Next \/ UNCHANGED replace
    BY Zenon DEF MCNext, Hash, Split, ReplaceIn, Vary, MCvars
  <2> QED
    BY <2>1, <2>2, SplitKeeps, ReplaceKeeps, Zenon
<1>3. SplitInv /\ ReplaceInv => StringsRight
  BY SplitInvWords, ReplaceInvOnce, Zenon DEF StringsRight
<1> QED
  BY <1>1, <1>2, <1>3, PTL DEF MCSafety

-----------------------------------------------------------------------------
(* SHA1 *)

(* The two words count the bits, until they come round. *)
CountInv ==
  /\ Length_Low % 8 = 0
  /\ \/ /\ WordSize * Length_High + Length_Low = 8 * taken
        /\ Corrupted => late
     \/ /\ 8 * taken = WordSize * WordSize
        /\ Length_High = 0 /\ Length_Low = 0
        /\ Corrupted /\ ~Computed
  /\ late => Corrupted /\ Computed
  /\ Computed => length = 0

(* Octet i of block k, when nothing has been padded. *)
InMessage(k, i) == Message[64 * (k - 1) + i + 1]

(* The blocks processed and the block being filled hold the message. *)
BlocksInv ==
  ~Computed =>
    /\ taken = 64 * Len(H) + Message_Block_Index
    /\ \A k \in 1 .. Len(H) : \A i \in 0 .. 63 : H[k][i] = InMessage(k, i)
    /\ \A i \in 0 .. 63 :
         i < Message_Block_Index => Message_Block[i] = InMessage(Len(H) + 1, i)

Sha1Inv == TypeOK /\ CountInv /\ BlocksInv /\ DigestOfPadded

-----------------------------------------------------------------------------
LEMMA WordSizeFacts == /\ WordSize \in Nat /\ WordSize > 8 /\ WordSize % 8 = 0
                       /\ Base \in Nat /\ Base > 0
<1>1. Base \in Nat /\ WordSize > 8 /\ WordSize % 8 = 0 BY Sha1Assumption
<1>2. Base # 0 BY <1>1 DEF WordSize
<1>3. \A m, n \in Nat : m * n \in Nat OBVIOUS
<1>4. WordSize \in Nat BY <1>1, <1>3 DEF WordSize
<1> QED BY <1>1, <1>2, <1>4

LEMMA OctetNat == ASSUME NEW w \in Nat, NEW j \in Int PROVE OctetOf(w, j) \in Nat
<1>1. \A n \in Nat : n > 0 => \A m \in Nat : m \div n \in Nat /\ m % n \in Nat
  OBVIOUS
<1>2. \A m, n \in Nat : m > 0 /\ n > 0 => m * n \in Nat /\ m * n > 0
  OBVIOUS
<1> DEFINE B2 == Base * Base
           B3 == Base * Base * Base
<1>3. Base \in Nat /\ Base > 0 /\ B2 \in Nat /\ B2 > 0 /\ B3 \in Nat /\ B3 > 0
  BY <1>2, WordSizeFacts
<1> DEFINE v == IF j = 0 THEN w \div B3 ELSE IF j = 1 THEN w \div B2
                ELSE IF j = 2 THEN w \div Base ELSE w
<1>4. v \in Nat
  <2> HIDE DEF B2, B3
  <2> QED BY <1>1, <1>3
<1>5. v % Base \in Nat
  <2> HIDE DEF v
  <2> QED BY <1>1, <1>3, <1>4
<1> QED BY <1>5 DEF OctetOf

(* A word of bits more, or both words round. *)
LEMMA CountStep ==
  ASSUME TypeOK, CountInv, ~Corrupted, ~Computed, CountOctet, taken' = taken + 1,
         UNCHANGED <<Computed, late>>
  PROVE  /\ Length_Low' \in 0 .. WordSize - 1 /\ Length_High' \in 0 .. WordSize - 1
         /\ Length_Low' % 8 = 0
         /\ \/ /\ WordSize * Length_High' + Length_Low' = 8 * taken'
               /\ ~Corrupted'
            \/ /\ 8 * taken' = WordSize * WordSize
               /\ Length_High' = 0 /\ Length_Low' = 0 /\ Corrupted'
<1> DEFINE WS == WordSize
<1>1. WS \in Nat /\ WS > 8 /\ WS % 8 = 0 BY WordSizeFacts
<1>2. /\ Length_Low \in 0 .. WS - 1 /\ Length_High \in 0 .. WS - 1 /\ taken \in Nat
      /\ Length_Low % 8 = 0
      /\ WS * Length_High + Length_Low = 8 * taken
  BY DEF TypeOK, CountInv
<1>3. /\ Length_Low' = IF Length_Low + 8 >= WS THEN Length_Low + 8 - WS ELSE Length_Low + 8
      /\ Length_High' = IF Length_Low' # 0 THEN Length_High
                        ELSE IF Length_High + 1 = WS THEN 0 ELSE Length_High + 1
      /\ Corrupted' = (Length_Low' = 0 /\ Length_High' = 0)
  BY DEF CountOctet
<1> HIDE DEF WS
<1>4. Length_Low + 8 <= WS
  BY <1>1, <1>2
<1>5. WS * (Length_High + 1) = WS * Length_High + WS
  BY <1>1, <1>2
<1>6. CASE Length_Low + 8 < WS
  <2>1. Length_Low' = Length_Low + 8 /\ Length_Low' # 0 /\ Length_High' = Length_High
    BY <1>1, <1>2, <1>3, <1>6
  <2>2. ~Corrupted' BY <2>1, <1>3
  <2>3. WS * Length_High' + Length_Low' = 8 * taken'
    BY <2>1, <1>2, <1>1
  <2> QED BY <2>1, <2>2, <2>3, <1>1, <1>2, <1>6 DEF WS
<1>7. CASE Length_Low + 8 = WS
  <2>1. Length_Low' = 0 BY <1>1, <1>2, <1>3, <1>7
  <2>2. WS * (Length_High + 1) = 8 * taken' BY <1>1, <1>2, <1>5, <1>7
  <2>3. CASE Length_High + 1 = WS
    <3>1. Length_High' = 0 /\ Corrupted' BY <2>1, <2>3, <1>3
    <3>2. WS * WS = 8 * taken' BY <2>2, <2>3
    <3> QED BY <3>1, <3>2, <2>1, <1>1 DEF WS
  <2>4. CASE Length_High + 1 # WS
    <3>1. Length_High' = Length_High + 1 /\ Length_High' # 0 BY <2>1, <2>4, <1>2, <1>3
    <3>2. ~Corrupted' BY <3>1, <1>3
    <3>3. Length_High' \in 0 .. WS - 1 BY <3>1, <2>4, <1>1, <1>2
    <3>4. WS * Length_High' + Length_Low' = 8 * taken' BY <2>1, <2>2, <3>1, <1>1, <1>2
    <3> QED BY <2>1, <3>2, <3>3, <3>4, <1>1 DEF WS
  <2> QED BY <2>3, <2>4
<1> QED BY <1>1, <1>2, <1>4, <1>6, <1>7

(* One turn of the loop of Input. *)
LEMMA InputOctetKeeps ==
  ASSUME Sha1Inv, InputOctet
  PROVE  Sha1Inv'
<1> DEFINE block == Stored(Message_Block, Message_Block_Index, Message[taken + 1])
           here == Message_Block_Index
           n == Len(H)
<1>a. length > 0 /\ ~Corrupted BY DEF InputOctet
<1>b. /\ H \in Seq([0 .. 63 -> Nat]) /\ length \in Nat
      /\ Message_Block \in [0 .. 63 -> Nat]
      /\ here \in 0 .. 63
      /\ taken \in 0 .. Len(Message) /\ taken + length <= Len(Message)
  BY DEF Sha1Inv, TypeOK
<1>i. here \in Int BY <1>b
<1>c. ~Computed BY <1>a DEF Sha1Inv, CountInv
<1>d. taken = 64 * n + here BY <1>c DEF Sha1Inv, BlocksInv
<1>e. n \in Nat BY <1>b
<1>f. Message \in Seq(Nat) /\ Len(Message) \in Nat BY Sha1Assumption
<1>g. taken \in Nat /\ taken + 1 \in 1 .. Len(Message) BY <1>a, <1>b, <1>f
<1>2. Message[taken + 1] \in Nat
  BY <1>f, <1>g
<1>3. Message_Block' = block /\ taken' = taken + 1 /\ length' = length - 1
  BY DEF InputOctet
<1>4. /\ block \in [0 .. 63 -> Nat]
      /\ block[here] = Message[taken + 1]
      /\ \A i \in 0 .. 63 : i # here => block[i] = Message_Block[i]
  BY <1>b, <1>2 DEF Stored
<1>5. InMessage(n + 1, here) = Message[taken + 1]
  <2>1. 64 * (n + 1 - 1) + here + 1 = taken + 1 BY <1>b, <1>d, <1>e
  <2> QED BY <2>1 DEF InMessage
<1>6. ASSUME NEW i \in 0 .. 63, i <= here PROVE block[i] = InMessage(n + 1, i)
  <2>1. CASE i = here BY <2>1, <1>4, <1>5, <1>b
  <2>2. CASE i # here
    <3>1. i < here BY <2>2, <1>6, <1>b
    <3>2. Message_Block[i] = InMessage(n + 1, i) BY <3>1, <1>c DEF Sha1Inv, BlocksInv
    <3> QED BY <3>2, <2>2, <1>4
  <2> QED BY <2>1, <2>2
<1>1. /\ ~Corrupted /\ ~Computed
      /\ H \in Seq([0 .. 63 -> Nat]) /\ n \in Nat
      /\ here \in 0 .. 63
      /\ taken = 64 * n + here
  BY <1>a, <1>b, <1>c, <1>d, <1>e
<1>7. UNCHANGED <<Computed, late>> BY DEF InputOctet
<1>8. /\ Length_Low' \in 0 .. WordSize - 1 /\ Length_High' \in 0 .. WordSize - 1
      /\ CountInv'
  <2>1. CountOctet BY DEF InputOctet
  <2>2. ~late BY <1>1 DEF Sha1Inv, CountInv
  <2>3. /\ Length_Low' \in 0 .. WordSize - 1 /\ Length_High' \in 0 .. WordSize - 1
        /\ Length_Low' % 8 = 0
        /\ \/ /\ WordSize * Length_High' + Length_Low' = 8 * taken'
              /\ ~Corrupted'
           \/ /\ 8 * taken' = WordSize * WordSize
              /\ Length_High' = 0 /\ Length_Low' = 0 /\ Corrupted'
    BY <1>c, <1>a, <1>3, <1>7, <2>1, CountStep DEF Sha1Inv
  <2>4. ~Computed' /\ ~late' BY <1>c, <1>7, <2>2
  <2>5. CountInv' BY <2>3, <2>4 DEF CountInv
  <2> QED BY <2>3, <2>5
<1>9. Corrupted' \in BOOLEAN
  BY DEF InputOctet, CountOctet
<1>12. /\ Length_Low' \in 0 .. WordSize - 1 /\ Length_High' \in 0 .. WordSize - 1
       /\ Computed' \in BOOLEAN /\ Corrupted' \in BOOLEAN /\ late' \in BOOLEAN
       /\ length' \in Nat
       /\ taken' \in 0 .. Len(Message) /\ taken' + length' <= Len(Message)
  <2>1. Computed' \in BOOLEAN /\ late' \in BOOLEAN BY <1>7 DEF Sha1Inv, TypeOK
  <2>2. length' \in Nat /\ taken' \in 0 .. Len(Message) /\ taken' + length' <= Len(Message)
    <3>1. length' = length - 1 /\ taken' = taken + 1 BY <1>3
    <3>2. length \in Nat /\ taken \in Nat /\ taken + length <= Len(Message) BY <1>b, <1>f
    <3> QED BY <3>1, <3>2, <1>a, <1>f
  <2> QED BY <2>1, <2>2, <1>8, <1>9
<1>10. CASE here + 1 = 64
  <2>1. H' = Append(H, block) /\ Message_Block_Index' = 0
    BY <1>10 DEF InputOctet
  <2> HIDE DEF block, n, here
  <2>2. /\ H' \in Seq([0 .. 63 -> Nat])
        /\ Len(H') = n + 1 /\ H'[n + 1] = block
        /\ \A k \in 1 .. n : H'[k] = H[k]
    BY <1>1, <1>4, <2>1 DEF n
  <2>3. taken' = 64 * Len(H') + Message_Block_Index'
    <3>1. Len(H') = n + 1 /\ taken' = taken + 1 BY <2>2, <1>3
    <3> QED BY <3>1, <1>1, <1>10, <2>1
  <2>4. ASSUME NEW k \in 1 .. n + 1, NEW i \in 0 .. 63 PROVE H'[k][i] = InMessage(k, i)
    <3>1. CASE k = n + 1
      <4>1. i <= here BY <1>10, <1>i
      <4>2. block[i] = InMessage(n + 1, i) BY <4>1, <1>6
      <4>3. H'[k] = block BY <3>1, <2>2
      <4> QED BY <4>2, <4>3, <3>1
    <3>2. CASE k # n + 1
      <4>1. k \in 1 .. n BY <3>2, <1>1
      <4>2. H[k][i] = InMessage(k, i) BY <4>1, <1>c DEF Sha1Inv, BlocksInv, n
      <4>3. H'[k] = H[k] BY <4>1, <2>2
      <4> QED BY <4>2, <4>3
    <3> QED BY <3>1, <3>2
  <2>5. BlocksInv'
    <3>1. \A k \in 1 .. Len(H') : \A i \in 0 .. 63 : H'[k][i] = InMessage(k, i)
      BY <2>2, <2>4
    <3>2. \A i \in 0 .. 63 : ~(i < Message_Block_Index') BY <2>1
    <3> QED BY <2>3, <3>1, <3>2 DEF BlocksInv, InMessage
  <2>6. Message_Block_Index' \in 0 .. 63 /\ Message_Block' \in [0 .. 63 -> Nat]
    BY <2>1, <1>3, <1>4
  <2> QED
    <3>1. TypeOK' BY <1>12, <2>2, <2>6 DEF TypeOK
    <3>2. DigestOfPadded' BY <1>c, <1>7 DEF DigestOfPadded
    <3> QED BY <3>1, <3>2, <2>5, <1>8 DEF Sha1Inv
<1>11. CASE here + 1 # 64
  <2>1. H' = H /\ Message_Block_Index' = here + 1
    BY <1>11 DEF InputOctet
  <2>2. taken' = 64 * Len(H') + Message_Block_Index'
    BY <1>1, <1>3, <2>1
  <2> HIDE DEF block, n, here
  <2>3. ASSUME NEW i \in 0 .. 63, i < Message_Block_Index'
        PROVE  Message_Block'[i] = InMessage(Len(H') + 1, i)
    <3>1. i <= here BY <2>1, <2>3, <1>b
    <3>2. block[i] = InMessage(n + 1, i) BY <3>1, <1>6
    <3> QED BY <3>2, <2>1, <1>3 DEF n
  <2>4. \A k \in 1 .. Len(H') : \A i \in 0 .. 63 : H'[k][i] = InMessage(k, i)
    BY <2>1, <1>c DEF Sha1Inv, BlocksInv
  <2>5. BlocksInv'
    BY <2>2, <2>3, <2>4 DEF BlocksInv, InMessage
  <2>6. Message_Block_Index' \in 0 .. 63 /\ Message_Block' \in [0 .. 63 -> Nat]
    BY <2>1, <1>3, <1>4, <1>11, <1>b
  <2>7. H' \in Seq([0 .. 63 -> Nat]) BY <2>1, <1>1
  <2> QED
    <3>1. TypeOK' BY <1>12, <2>7, <2>6 DEF TypeOK
    <3>2. DigestOfPadded' BY <1>c, <1>7 DEF DigestOfPadded
    <3> QED BY <3>1, <3>2, <2>5, <1>8 DEF Sha1Inv
<1> QED BY <1>10, <1>11, <1>b

(* What the new blocks have to be for the digest to be that of the message. *)
LEMMA PadDigest ==
  ASSUME NEW total \in Nat, Len(H') = total, taken' = taken,
         NEW high \in 0 .. WordSize - 1, NEW low \in 0 .. WordSize - 1,
         WordSize * high + low = 8 * taken,
         64 * total >= taken + 9, 64 * total < taken + 9 + 64,
         \A k \in 1 .. total : \A i \in 0 .. 63 :
           H'[k][i] = PaddedOctet(64 * (k - 1) + i, 64 * total, high, low)
  PROVE  DigestOfPadded'
<1>1. ASSUME NEW k \in 1 .. Len(H'), NEW i \in 0 .. 63
      PROVE  H'[k][i] = (PaddedOctet(64 * (k - 1) + i, 64 * Len(H), high, low))'
  <2>1. H'[k][i] = PaddedOctet(64 * (k - 1) + i, 64 * total, high, low) OBVIOUS
  <2>2. \A p : PaddedOctet(p, 64 * total, high, low)
              = (PaddedOctet(p, 64 * Len(H), high, low))'
    BY Zenon DEF PaddedOctet
  <2> QED BY <2>1, <2>2
<1>2. WordSize * high + low = 8 * taken' OBVIOUS
<1>3. 64 * Len(H') >= taken' + 9 /\ 64 * Len(H') < taken' + 9 + 64 OBVIOUS
<1> QED BY <1>1, <1>2, <1>3 DEF DigestOfPadded

(* Padding makes of the blocks and the rest the padded message. *)
LEMMA PadKeeps ==
  ASSUME Sha1Inv, Result
  PROVE  Sha1Inv'
<1> DEFINE here == Message_Block_Index
           n == Len(H)
           high == Length_High
           low == Length_Low
<1>a. ~Corrupted /\ ~Computed /\ length = 0 BY DEF Result
<1>b. H \in Seq([0 .. 63 -> Nat]) /\ Message_Block \in [0 .. 63 -> Nat]
  BY DEF Sha1Inv, TypeOK
<1>1. /\ here \in Int /\ 0 <= here /\ here <= 63
      /\ n \in Nat /\ taken \in Int
      /\ taken = 64 * n + here
  <2>1. taken = 64 * n + here BY <1>a DEF Sha1Inv, BlocksInv
  <2>2. here \in 0 .. 63 BY DEF Sha1Inv, TypeOK
  <2>3. n \in Nat BY <1>b
  <2> QED BY <2>1, <2>2, <2>3
<1>c. /\ high \in 0 .. WordSize - 1 /\ low \in 0 .. WordSize - 1
      /\ WordSize * high + low = 8 * taken
  BY <1>a DEF Sha1Inv, TypeOK, CountInv
<1>d. high \in Nat /\ low \in Nat BY <1>c, WordSizeFacts
<1>p1. \A p, o \in Int : p < taken => PaddedOctet(p, o, high, low) = Message[p + 1]
  BY DEF PaddedOctet
<1>p2. \A p, o \in Int : p = taken => PaddedOctet(p, o, high, low) = 128
  BY <1>1 DEF PaddedOctet
<1>p3. \A p, o \in Int : p > taken /\ p < o - 8 => PaddedOctet(p, o, high, low) = 0
  BY <1>1 DEF PaddedOctet
<1>p4. \A p, o \in Int :
         p > taken /\ ~(p < o - 8) /\ p < o - 4 =>
           PaddedOctet(p, o, high, low) = OctetOf(high, p - (o - 8))
  BY <1>1 DEF PaddedOctet
<1>p5. \A p, o \in Int :
         p > taken /\ ~(p < o - 8) /\ ~(p < o - 4) =>
           PaddedOctet(p, o, high, low) = OctetOf(low, p - (o - 4))
  BY <1>1 DEF PaddedOctet
<1>2. /\ Computed' /\ Message_Block_Index' = 0
      /\ UNCHANGED <<Length_Low, Length_High, Corrupted, length, taken, late>>
  BY DEF Result, PadMessage
<1>n. n \in Nat BY <1>1
<1>i. here \in Int BY <1>1
<1>3. /\ \A i \in 0 .. 63 : i < here => Marked[i] = Message_Block[i]
      /\ \A i \in 0 .. 63 : i = here => Marked[i] = 128
      /\ \A i \in 0 .. 63 : i > here => Marked[i] = 0
      /\ \A i \in 0 .. 63 : Zeros[i] = 0
  <2>1. \A i \in 0 .. 63 : i < here => Marked[i] = Message_Block[i] BY DEF Marked
  <2>2. \A i \in 0 .. 63 : i = here => Marked[i] = 128 BY <1>i DEF Marked
  <2>3. \A i \in 0 .. 63 : i > here => Marked[i] = 0 BY <1>i DEF Marked
  <2>4. \A i \in 0 .. 63 : Zeros[i] = 0 BY DEF Zeros
  <2> QED BY <2>1, <2>2, <2>3, <2>4
<1>3b. Marked \in [0 .. 63 -> Nat] /\ Zeros \in [0 .. 63 -> Nat]
  BY <1>1, <1>b DEF Marked, Zeros
<1>4. \A b \in [0 .. 63 -> Nat] :
        /\ WithLength(b) \in [0 .. 63 -> Nat]
        /\ \A i \in 0 .. 63 :
             WithLength(b)[i] = IF i < 56 THEN b[i]
                                ELSE IF i < 60 THEN OctetOf(high, i - 56)
                                ELSE OctetOf(low, i - 60)
  <2>1. ASSUME NEW i \in 0 .. 63
        PROVE  OctetOf(high, i - 56) \in Nat /\ OctetOf(low, i - 60) \in Nat
    <3>1. i - 56 \in Int /\ i - 60 \in Int OBVIOUS
    <3> QED BY <3>1, <1>d, OctetNat
  <2> QED BY <2>1 DEF WithLength
<1>5. ASSUME NEW k \in 1 .. n, NEW i \in 0 .. 63, NEW octets \in Int
      PROVE  H[k][i] = PaddedOctet(64 * (k - 1) + i, octets, high, low)
  <2>1. 64 * (k - 1) + i < taken BY <1>1
  <2>2. H[k][i] = InMessage(k, i) BY <1>a DEF Sha1Inv, BlocksInv
  <2>3. 64 * (k - 1) + i \in Int BY <1>1
  <2> QED BY <2>1, <2>2, <2>3, <1>p1 DEF InMessage
<1>6. ASSUME NEW i \in 0 .. 63, i < here
      PROVE  /\ 64 * n + i < taken
             /\ Message_Block[i] = Message[64 * n + i + 1]
  <2>1. Message_Block[i] = InMessage(n + 1, i) BY <1>a, <1>6 DEF Sha1Inv, BlocksInv
  <2>2. 64 * (n + 1 - 1) + i + 1 = 64 * n + i + 1 BY <1>1
  <2>3. 64 * n + i < taken BY <1>1, <1>6
  <2>4. InMessage(n + 1, i) = Message[64 * n + i + 1] BY <2>2 DEF InMessage
  <2>5. Message_Block[i] = Message[64 * n + i + 1] BY <2>1, <2>4, Zenon
  <2> QED BY <2>3, <2>5, Zenon
<1>10. CountInv'
  <2>1. ~late BY <1>a DEF Sha1Inv, CountInv
  <2> QED BY <1>a, <1>c, <1>2, <2>1 DEF Sha1Inv, CountInv
<1>7. CASE here > 55
  <2> DEFINE last == WithLength(Zeros)
             octets == 64 * (n + 2)
  <2>1. Message_Block' = last /\ H' = H \o <<Marked, last>>
    BY <1>7 DEF Result, PadMessage
  <2>2. last \in [0 .. 63 -> Nat]
    BY <1>3b, <1>4
  <2> HIDE DEF last
  <2>3. /\ H' \in Seq([0 .. 63 -> Nat])
        /\ Len(H') = n + 2
        /\ \A k \in 1 .. n : H'[k] = H[k]
        /\ H'[n + 1] = Marked /\ H'[n + 2] = last
    <3> DEFINE Blocks == [0 .. 63 -> Nat]
               t == <<Marked, last>>
    <3>1. Marked \in Blocks /\ last \in Blocks /\ H \in Seq(Blocks)
      BY <1>3b, <2>2, <1>b
    <3> HIDE DEF Blocks
    <3>2. t \in Seq(Blocks) /\ Len(t) = 2 /\ t[1] = Marked /\ t[2] = last
      BY <3>1
    <3> HIDE DEF t
    <3>3. /\ H \o t \in Seq(Blocks)
          /\ Len(H \o t) = n + 2
          /\ \A k \in 1 .. n + 2 : (H \o t)[k] = IF k <= n THEN H[k] ELSE t[k - n]
      <4>1. /\ H \o t \in Seq(Blocks)
            /\ Len(H \o t) = n + Len(t)
            /\ \A k \in 1 .. n + Len(t) : (H \o t)[k] = IF k <= n THEN H[k] ELSE t[k - n]
        BY <3>1, <3>2, ConcatProperties
      <4> QED BY <4>1, <3>2, Zenon
    <3>4. H' = H \o t BY <2>1 DEF t
    <3>5. /\ \A k \in 1 .. n : k \in 1 .. n + 2 /\ k <= n
          /\ n + 1 \in 1 .. n + 2 /\ ~(n + 1 <= n) /\ n + 1 - n = 1
          /\ n + 2 \in 1 .. n + 2 /\ ~(n + 2 <= n) /\ n + 2 - n = 2
      BY <1>n
    <3>6. \A k \in 1 .. n : H'[k] = H[k] BY <3>3, <3>4, <3>5
    <3>7. H'[n + 1] = Marked BY <3>2, <3>3, <3>4, <3>5
    <3>8. H'[n + 2] = last BY <3>2, <3>3, <3>4, <3>5
    <3> QED BY <3>3, <3>4, <3>6, <3>7, <3>8 DEF Blocks
  <2>4. ASSUME NEW i \in 0 .. 63
        PROVE  Marked[i] = PaddedOctet(64 * n + i, octets, high, low)
    <3>0. 64 * n + i \in Int /\ octets \in Int BY <1>1
    <3>1. CASE i < here
      <4>1. 64 * n + i < taken /\ Message_Block[i] = Message[64 * n + i + 1]
        BY <3>1, <1>6, Zenon
      <4>2. Marked[i] = Message_Block[i] BY <3>1, <1>3, Zenon
      <4>3. PaddedOctet(64 * n + i, octets, high, low) = Message[64 * n + i + 1]
        BY <3>0, <4>1, <1>p1, Zenon
      <4> QED BY <4>1, <4>2, <4>3, Zenon
    <3>2. CASE i = here
      <4>1. Marked[i] = 128 BY <3>2, <1>1, <1>3
      <4> QED BY <3>0, <3>2, <4>1, <1>1, <1>p2
    <3>3. CASE i > here
      <4>1. 64 * n + i > taken /\ 64 * n + i < octets - 8 BY <3>3, <1>1
      <4>2. Marked[i] = 0 BY <3>3, <1>1, <1>3
      <4> QED BY <3>0, <4>1, <4>2, <1>p3
    <3> QED BY <3>1, <3>2, <3>3, <1>1
  <2>5. ASSUME NEW i \in 0 .. 63
        PROVE  last[i] = PaddedOctet(64 * (n + 1) + i, octets, high, low)
    <3>0. 64 * (n + 1) + i \in Int /\ octets \in Int BY <1>1
    <3>1. 64 * (n + 1) + i > taken BY <1>1
    <3>2. CASE i < 56
      <4>1. 64 * (n + 1) + i < octets - 8 BY <3>2, <1>1
      <4>2. last[i] = 0 BY <3>2, <1>3, <1>3b, <1>4 DEF last
      <4> QED BY <3>0, <3>1, <4>1, <4>2, <1>p3
    <3>3. CASE i >= 56 /\ i < 60
      <4>1. /\ ~(64 * (n + 1) + i < octets - 8) /\ 64 * (n + 1) + i < octets - 4
            /\ 64 * (n + 1) + i - (octets - 8) = i - 56
        BY <3>3, <1>1
      <4>2. last[i] = OctetOf(high, i - 56) BY <3>3, <1>3, <1>3b, <1>4 DEF last
      <4> QED BY <3>0, <3>1, <4>1, <4>2, <1>p4
    <3>4. CASE i >= 60
      <4>1. /\ ~(64 * (n + 1) + i < octets - 8) /\ ~(64 * (n + 1) + i < octets - 4)
            /\ 64 * (n + 1) + i - (octets - 4) = i - 60
        BY <3>4, <1>1
      <4>2. last[i] = OctetOf(low, i - 60) BY <3>4, <1>3, <1>3b, <1>4 DEF last
      <4> QED BY <3>0, <3>1, <4>1, <4>2, <1>p5
    <3> QED BY <3>2, <3>3, <3>4
  <2>6. ASSUME NEW k \in 1 .. n + 2, NEW i \in 0 .. 63
        PROVE  H'[k][i] = PaddedOctet(64 * (k - 1) + i, 64 * (n + 2), high, low)
    <3>0. 64 * (n + 2) \in Int BY <1>1
    <3>1. CASE k \in 1 .. n
      <4>1. H'[k] = H[k] BY <3>1, <2>3
      <4> QED BY <3>0, <3>1, <4>1, <1>5
    <3>2. CASE k = n + 1
      <4>1. 64 * (k - 1) + i = 64 * n + i BY <3>2, <1>1
      <4> QED BY <3>2, <4>1, <2>3, <2>4
    <3>3. CASE k = n + 2
      <4>1. 64 * (k - 1) + i = 64 * (n + 1) + i BY <3>3, <1>1
      <4> QED BY <3>3, <4>1, <2>3, <2>5
    <3> QED BY <3>1, <3>2, <3>3, <1>1
  <2>7. 64 * (n + 2) >= taken + 9 /\ 64 * (n + 2) < taken + 9 + 64 BY <1>1, <1>7
  <2>8. DigestOfPadded'
    <3>1. n + 2 \in Nat /\ Len(H') = n + 2 /\ taken' = taken BY <1>n, <1>2, <2>3
    <3> QED BY <1>c, <3>1, <2>6, <2>7, PadDigest, ZenonT(60)
  <2>9. TypeOK' BY <1>2, <2>1, <2>2, <2>3 DEF Sha1Inv, TypeOK
  <2> QED BY <1>2, <1>10, <2>8, <2>9 DEF Sha1Inv, BlocksInv
<1>8. CASE here <= 55
  <2> DEFINE last == WithLength(Marked)
             octets == 64 * (n + 1)
  <2>1. Message_Block' = last /\ H' = Append(H, last)
    BY <1>8, <1>1 DEF Result, PadMessage
  <2>2. last \in [0 .. 63 -> Nat]
    BY <1>3b, <1>4
  <2> HIDE DEF last
  <2>3. /\ H' \in Seq([0 .. 63 -> Nat])
        /\ Len(H') = n + 1
        /\ \A k \in 1 .. n : H'[k] = H[k]
        /\ H'[n + 1] = last
    BY <1>b, <1>1, <2>1, <2>2
  <2>4. ASSUME NEW i \in 0 .. 63
        PROVE  last[i] = PaddedOctet(64 * n + i, octets, high, low)
    <3>0. 64 * n + i \in Int /\ octets \in Int BY <1>1
    <3>a. i < 56 => last[i] = Marked[i] BY <1>3, <1>3b, <1>4 DEF last
    <3>1. CASE i < here
      <4>0. i < 56 BY <3>1, <1>i, <1>8
      <4>1. 64 * n + i < taken /\ Message_Block[i] = Message[64 * n + i + 1]
        BY <3>1, <1>6, Zenon
      <4>2. last[i] = Message_Block[i] BY <4>0, <3>a, <3>1, <1>3, Zenon
      <4>3. PaddedOctet(64 * n + i, octets, high, low) = Message[64 * n + i + 1]
        BY <3>0, <4>1, <1>p1, Zenon
      <4> QED BY <4>1, <4>2, <4>3, Zenon
    <3>2. CASE i = here
      <4>0. i < 56 BY <3>2, <1>i, <1>8
      <4>1. last[i] = 128 BY <4>0, <3>a, <3>2, <1>3
      <4> QED BY <3>0, <3>2, <4>1, <1>1, <1>p2
    <3>3. CASE i > here /\ i < 56
      <4>1. 64 * n + i > taken /\ 64 * n + i < octets - 8 BY <3>3, <1>1
      <4>2. last[i] = 0 BY <3>a, <3>3, <1>1, <1>3
      <4> QED BY <3>0, <4>1, <4>2, <1>p3
    <3>4. CASE i >= 56 /\ i < 60
      <4>1. /\ 64 * n + i > taken
            /\ ~(64 * n + i < octets - 8) /\ 64 * n + i < octets - 4
            /\ 64 * n + i - (octets - 8) = i - 56
        BY <3>4, <1>1, <1>8
      <4>2. last[i] = OctetOf(high, i - 56) BY <3>4, <1>3, <1>3b, <1>4 DEF last
      <4> QED BY <3>0, <4>1, <4>2, <1>p4
    <3>5. CASE i >= 60
      <4>1. /\ 64 * n + i > taken
            /\ ~(64 * n + i < octets - 8) /\ ~(64 * n + i < octets - 4)
            /\ 64 * n + i - (octets - 4) = i - 60
        BY <3>5, <1>1, <1>8
      <4>2. last[i] = OctetOf(low, i - 60) BY <3>5, <1>3, <1>3b, <1>4 DEF last
      <4> QED BY <3>0, <4>1, <4>2, <1>p5
    <3> QED BY <3>1, <3>2, <3>3, <3>4, <3>5, <1>1
  <2>5. ASSUME NEW k \in 1 .. n + 1, NEW i \in 0 .. 63
        PROVE  H'[k][i] = PaddedOctet(64 * (k - 1) + i, 64 * (n + 1), high, low)
    <3>0. 64 * (n + 1) \in Int BY <1>1
    <3>1. CASE k \in 1 .. n
      <4>1. H'[k] = H[k] BY <3>1, <2>3
      <4> QED BY <3>0, <3>1, <4>1, <1>5
    <3>2. CASE k = n + 1
      <4>1. 64 * (k - 1) + i = 64 * n + i BY <3>2, <1>1
      <4> QED BY <3>2, <4>1, <2>3, <2>4
    <3> QED BY <3>1, <3>2, <1>1
  <2>6. 64 * (n + 1) >= taken + 9 /\ 64 * (n + 1) < taken + 9 + 64 BY <1>1, <1>8
  <2>7. DigestOfPadded'
    <3>1. n + 1 \in Nat /\ Len(H') = n + 1 /\ taken' = taken BY <1>n, <1>2, <2>3
    <3> QED BY <1>c, <3>1, <2>5, <2>6, PadDigest, ZenonT(60)
  <2>8. TypeOK' BY <1>2, <2>1, <2>2, <2>3 DEF Sha1Inv, TypeOK
  <2> QED BY <1>2, <1>10, <2>7, <2>8 DEF Sha1Inv, BlocksInv
<1> QED BY <1>1, <1>7, <1>8

(* Steps that leave the blocks alone. *)
LEMMA DataUnchanged ==
  ASSUME BlocksInv, DigestOfPadded,
         UNCHANGED <<H, Message_Block, Message_Block_Index, Computed, taken>>
  PROVE  BlocksInv' /\ DigestOfPadded'
<1>1. BlocksInv' BY DEF BlocksInv, InMessage
<1>2. DigestOfPadded'
  <2>1. \A p, o, h, l : (PaddedOctet(p, o, h, l))' = PaddedOctet(p, o, h, l)
    BY ZenonT(60) DEF PaddedOctet
  <2> SUFFICES ASSUME Computed' PROVE DigestOfPadded'
    BY Zenon DEF DigestOfPadded
  <2>2. PICK high \in 0 .. WordSize - 1, low \in 0 .. WordSize - 1 :
          /\ WordSize * high + low = 8 * taken
          /\ \A k \in 1 .. Len(H) : \A i \in 0 .. 63 :
               H[k][i] = PaddedOctet(64 * (k - 1) + i, 64 * Len(H), high, low)
    BY Zenon DEF DigestOfPadded
  <2>3. \A k \in 1 .. Len(H') : \A i \in 0 .. 63 :
          H'[k][i] = (PaddedOctet(64 * (k - 1) + i, 64 * Len(H), high, low))'
    BY <2>1, <2>2, Zenon
  <2>4. 64 * Len(H') >= taken' + 9 /\ 64 * Len(H') < taken' + 9 + 64
    BY Zenon DEF DigestOfPadded
  <2>5. WordSize * high + low = 8 * taken'
    BY <2>2, Zenon
  <2> QED BY <2>3, <2>4, <2>5, Zenon DEF DigestOfPadded
<1> QED BY <1>1, <1>2

(* Sha1Inv is an inductive invariant. *)
THEOREM Sha1Invariance == Spec => []Sha1Inv
<1>1. Init => Sha1Inv
  <2> SUFFICES ASSUME Init PROVE Sha1Inv
    OBVIOUS
  <2>1. Len(Message) \in Nat /\ Garbage \in [0 .. 63 -> Nat] BY Sha1Assumption
  <2>a. 0 \in 0 .. WordSize - 1 BY WordSizeFacts
  <2>b. <<>> \in Seq([0 .. 63 -> Nat]) OBVIOUS
  <2>c. 0 \in 0 .. Len(Message) /\ 0 + 0 <= Len(Message) /\ 0 \in Nat /\ 0 \in 0 .. 63
    BY <2>1
  <2>2. TypeOK
    <3> USE DEF Init
    <3>1. H \in Seq([0 .. 63 -> Nat]) BY <2>b
    <3>2. Message_Block \in [0 .. 63 -> Nat] BY <2>1
    <3>3. Length_Low \in 0 .. WordSize - 1 /\ Length_High \in 0 .. WordSize - 1 BY <2>a
    <3>4. Message_Block_Index \in 0 .. 63 /\ length \in Nat BY <2>c
    <3>5. taken \in 0 .. Len(Message) /\ taken + length <= Len(Message) BY <2>c
    <3>6. Computed \in BOOLEAN /\ Corrupted \in BOOLEAN /\ late \in BOOLEAN OBVIOUS
    <3> QED BY <3>1, <3>2, <3>3, <3>4, <3>5, <3>6, Zenon DEF TypeOK
  <2>3. CountInv BY WordSizeFacts DEF Init, CountInv
  <2>4. BlocksInv /\ DigestOfPadded BY DEF Init, BlocksInv, DigestOfPadded
  <2> QED BY <2>2, <2>3, <2>4 DEF Sha1Inv
<1>2. Sha1Inv /\ [Next]_vars => Sha1Inv'
  <2> SUFFICES ASSUME Sha1Inv, [Next]_vars PROVE Sha1Inv'
    OBVIOUS
  <2>1. CASE Reset
    <3>a. Len(Message) \in Nat BY Sha1Assumption
    <3>b. 0 \in 0 .. WordSize - 1 BY WordSizeFacts
    <3>c. 0 \in 0 .. Len(Message) /\ 0 + 0 <= Len(Message) /\ 0 \in Nat /\ 0 \in 0 .. 63
      BY <3>a
    <3>d. <<>> \in Seq([0 .. 63 -> Nat]) OBVIOUS
    <3>1. TypeOK'
      <4> USE <2>1 DEF Reset
      <4>1. H' \in Seq([0 .. 63 -> Nat]) BY <3>d
      <4>2. Message_Block' \in [0 .. 63 -> Nat] BY DEF Sha1Inv, TypeOK
      <4>3. Length_Low' \in 0 .. WordSize - 1 /\ Length_High' \in 0 .. WordSize - 1 BY <3>b
      <4>4. Message_Block_Index' \in 0 .. 63 /\ length' \in Nat BY <3>c
      <4>5. taken' \in 0 .. Len(Message) /\ taken' + length' <= Len(Message) BY <3>c
      <4>6. Computed' \in BOOLEAN /\ Corrupted' \in BOOLEAN /\ late' \in BOOLEAN OBVIOUS
      <4> QED BY <4>1, <4>2, <4>3, <4>4, <4>5, <4>6, Zenon DEF TypeOK
    <3>2. CountInv' BY <2>1, WordSizeFacts DEF Reset, CountInv
    <3>3. BlocksInv' /\ DigestOfPadded' BY <2>1 DEF Reset, BlocksInv, DigestOfPadded
    <3> QED BY <3>1, <3>2, <3>3 DEF Sha1Inv
  <2>2. ASSUME NEW m \in Chunks, Input(m) PROVE Sha1Inv'
    <3>1. m \in Nat BY Sha1Assumption
    <3>2. UNCHANGED <<H, Length_Low, Length_High, Message_Block, Message_Block_Index,
                      Computed, Corrupted, taken, late>>
      BY <2>2 DEF Input
    <3>3. length' = m /\ taken + m <= Len(Message) /\ ~Computed BY <2>2 DEF Input
    <3>4. TypeOK' BY <3>1, <3>2, <3>3 DEF Sha1Inv, TypeOK
    <3>5. CountInv' BY <3>2, <3>3 DEF Sha1Inv, CountInv
    <3> QED BY <3>2, <3>4, <3>5, DataUnchanged DEF Sha1Inv
  <2>3. CASE InputRefused
    <3>1. UNCHANGED <<H, Length_Low, Length_High, Message_Block, Message_Block_Index,
                      Computed, length, taken>>
      BY <2>3 DEF InputRefused
    <3>2. Corrupted' /\ late' = (late \/ Computed) /\ (Computed \/ Corrupted)
      BY <2>3 DEF InputRefused
    <3>3. TypeOK' BY <3>1, <3>2 DEF Sha1Inv, TypeOK
    <3>4. CountInv' BY <3>1, <3>2 DEF Sha1Inv, CountInv
    <3> QED BY <3>1, <3>3, <3>4, DataUnchanged DEF Sha1Inv
  <2>4. CASE InputOctet BY <2>4, InputOctetKeeps
  <2>5. CASE InputStops
    <3>1. UNCHANGED <<H, Length_Low, Length_High, Message_Block, Message_Block_Index,
                      Computed, Corrupted, taken, late>> /\ length' = 0
      BY <2>5 DEF InputStops
    <3>2. TypeOK' BY <3>1 DEF Sha1Inv, TypeOK
    <3>3. CountInv' BY <3>1 DEF Sha1Inv, CountInv
    <3> QED BY <3>1, <3>2, <3>3, DataUnchanged DEF Sha1Inv
  <2>6. CASE Result BY <2>6, PadKeeps
  <2>7. CASE UNCHANGED vars
    BY <2>7, DataUnchanged DEF vars, Sha1Inv, TypeOK, CountInv
  <2> QED BY <2>1, <2>2, <2>3, <2>4, <2>5, <2>6, <2>7 DEF Next
<1> QED BY <1>1, <1>2, PTL DEF Spec

-----------------------------------------------------------------------------
(* The index never leaves the block, and every variable keeps its type     *)
(* (Input and PadMessage write Message_Block[Message_Block_Index++]).      *)
THEOREM TypeCorrect == Spec => []TypeOK
<1>1. Sha1Inv => TypeOK BY DEF Sha1Inv
<1> QED BY <1>1, Sha1Invariance, PTL

(* For every message a digest is that of its padding by the standard       *)
(* (Input, PadMessage, ProcessMessageBlock's reset of the index).          *)
THEOREM DigestCorrect == Spec => []DigestOfPadded
<1>1. Sha1Inv => DigestOfPadded BY DEF Sha1Inv
<1> QED BY <1>1, Sha1Invariance, PTL

(* Result refuses exactly late input and messages of 2^64 bits. *)
THEOREM RefusedCorrectly == Spec => []RefusedOnlyWhenMisused
<1>1. Sha1Inv => RefusedOnlyWhenMisused
  <2> SUFFICES ASSUME Sha1Inv PROVE RefusedOnlyWhenMisused
    OBVIOUS
  <2> DEFINE WS == WordSize
  <2>1. WS \in Nat /\ WS > 8 /\ taken \in Nat
        /\ Length_High \in 0 .. WS - 1 /\ Length_Low \in 0 .. WS - 1
    BY WordSizeFacts DEF Sha1Inv, TypeOK
  <2> HIDE DEF WS
  <2>2. WS * Length_High <= WS * (WS - 1)
    BY <2>1
  <2>3. WS * (WS - 1) = WS * WS - WS
    BY <2>1
  <2>4. WS * Length_High \in Nat /\ WS * WS \in Nat
    BY <2>1
  <2>5. WS * Length_High + Length_Low < WS * WS
    BY <2>1, <2>2, <2>3, <2>4
  <2>6. WS * Length_High + Length_Low = 8 * taken => 8 * taken # WS * WS
    BY <2>1, <2>4, <2>5
  <2> QED BY <2>6 DEF Sha1Inv, CountInv, RefusedOnlyWhenMisused, WS
<1> QED BY <1>1, Sha1Invariance, PTL
-----------------------------------------------------------------------------
(* Octets and their bits *)

(* The number of eight bits. *)
OfBits(c) == 128 * c[8] + 64 * c[7] + 32 * c[6] + 16 * c[5]
             + 8 * c[4] + 4 * c[3] + 2 * c[2] + c[1]

IsBits(c) == \A k \in 1 .. 8 : c[k] \in 0 .. 1

BitsOf(a) == << a % 2, (a \div 2) % 2, (a \div 4) % 2, (a \div 8) % 2,
                (a \div 16) % 2, (a \div 32) % 2, (a \div 64) % 2, (a \div 128) % 2 >>

(* An octet is its bits. *)
LEMMA OctetIsBits ==
  ASSUME NEW a \in 0 .. 255
  PROVE  IsBits(BitsOf(a)) /\ a = OfBits(BitsOf(a))
<1>1. /\ BitsOf(a)[1] = a % 2 /\ BitsOf(a)[2] = (a \div 2) % 2
      /\ BitsOf(a)[3] = (a \div 4) % 2 /\ BitsOf(a)[4] = (a \div 8) % 2
      /\ BitsOf(a)[5] = (a \div 16) % 2 /\ BitsOf(a)[6] = (a \div 32) % 2
      /\ BitsOf(a)[7] = (a \div 64) % 2 /\ BitsOf(a)[8] = (a \div 128) % 2
  BY DEF BitsOf
<1>2. \A n \in Nat : n % 2 \in 0 .. 1
  OBVIOUS
<1>3. a \div 2 \in Nat /\ a \div 4 \in Nat /\ a \div 8 \in Nat /\ a \div 16 \in Nat
      /\ a \div 32 \in Nat /\ a \div 64 \in Nat /\ a \div 128 \in Nat /\ a \in Nat
  OBVIOUS
<1>4. IsBits(BitsOf(a))
  <2>1. /\ BitsOf(a)[1] \in 0 .. 1 /\ BitsOf(a)[2] \in 0 .. 1
        /\ BitsOf(a)[3] \in 0 .. 1 /\ BitsOf(a)[4] \in 0 .. 1
        /\ BitsOf(a)[5] \in 0 .. 1 /\ BitsOf(a)[6] \in 0 .. 1
        /\ BitsOf(a)[7] \in 0 .. 1 /\ BitsOf(a)[8] \in 0 .. 1
    BY <1>1, <1>2, <1>3
  <2> QED
    BY <2>1 DEF IsBits
<1>5. a = 128 * ((a \div 128) % 2) + 64 * ((a \div 64) % 2) + 32 * ((a \div 32) % 2)
          + 16 * ((a \div 16) % 2) + 8 * ((a \div 8) % 2) + 4 * ((a \div 4) % 2)
          + 2 * ((a \div 2) % 2) + (a % 2)
  OBVIOUS
<1> QED
  BY <1>1, <1>4, <1>5 DEF OfBits

(* Shifting a number of bits drops the low ones. *)
LEMMA ShiftedBits ==
  ASSUME NEW c, IsBits(c)
  PROVE  /\ OfBits(c) \in 0 .. 255
         /\ OfBits(c) \div 1 = 2 * (64 * c[8] + 32 * c[7] + 16 * c[6] + 8 * c[5] + 4 * c[4]
                                    + 2 * c[3] + c[2]) + c[1]
         /\ OfBits(c) \div 2 = 2 * (32 * c[8] + 16 * c[7] + 8 * c[6] + 4 * c[5] + 2 * c[4]
                                    + c[3]) + c[2]
         /\ OfBits(c) \div 4 = 2 * (16 * c[8] + 8 * c[7] + 4 * c[6] + 2 * c[5] + c[4]) + c[3]
         /\ OfBits(c) \div 8 = 2 * (8 * c[8] + 4 * c[7] + 2 * c[6] + c[5]) + c[4]
         /\ OfBits(c) \div 16 = 2 * (4 * c[8] + 2 * c[7] + c[6]) + c[5]
         /\ OfBits(c) \div 32 = 2 * (2 * c[8] + c[7]) + c[6]
         /\ OfBits(c) \div 64 = 2 * c[8] + c[7]
         /\ OfBits(c) \div 128 = c[8]
<1>1. PICK c1 \in 0 .. 1, c2 \in 0 .. 1, c3 \in 0 .. 1, c4 \in 0 .. 1,
           c5 \in 0 .. 1, c6 \in 0 .. 1, c7 \in 0 .. 1, c8 \in 0 .. 1 :
        /\ c[1] = c1 /\ c[2] = c2 /\ c[3] = c3 /\ c[4] = c4
        /\ c[5] = c5 /\ c[6] = c6 /\ c[7] = c7 /\ c[8] = c8
  BY DEF IsBits
<1> DEFINE a == 128 * c8 + 64 * c7 + 32 * c6 + 16 * c5 + 8 * c4 + 4 * c3 + 2 * c2 + c1
<1>2. OfBits(c) = a
  BY <1>1 DEF OfBits
<1>3. /\ a \in 0 .. 255
      /\ a \div 1 = 2 * (64 * c8 + 32 * c7 + 16 * c6 + 8 * c5 + 4 * c4 + 2 * c3 + c2) + c1
      /\ a \div 2 = 2 * (32 * c8 + 16 * c7 + 8 * c6 + 4 * c5 + 2 * c4 + c3) + c2
      /\ a \div 4 = 2 * (16 * c8 + 8 * c7 + 4 * c6 + 2 * c5 + c4) + c3
      /\ a \div 8 = 2 * (8 * c8 + 4 * c7 + 2 * c6 + c5) + c4
  OBVIOUS
<1>4. /\ a \div 16 = 2 * (4 * c8 + 2 * c7 + c6) + c5
      /\ a \div 32 = 2 * (2 * c8 + c7) + c6
      /\ a \div 64 = 2 * c8 + c7
      /\ a \div 128 = c8
  OBVIOUS
<1> HIDE DEF a
<1> QED
  BY <1>1, <1>2, <1>3, <1>4

(* A shifted number of bits is even but for the lowest bit left. *)
LowBit(n, u) == \E x \in Int : n = 2 * x + u

LEMMA LowBits ==
  ASSUME NEW c, IsBits(c)
  PROVE  /\ LowBit(OfBits(c) \div 1, c[1]) /\ LowBit(OfBits(c) \div 2, c[2])
         /\ LowBit(OfBits(c) \div 4, c[3]) /\ LowBit(OfBits(c) \div 8, c[4])
         /\ LowBit(OfBits(c) \div 16, c[5]) /\ LowBit(OfBits(c) \div 32, c[6])
         /\ LowBit(OfBits(c) \div 64, c[7]) /\ LowBit(OfBits(c) \div 128, c[8])
<1>1. /\ c[1] \in Int /\ c[2] \in Int /\ c[3] \in Int /\ c[4] \in Int
      /\ c[5] \in Int /\ c[6] \in Int /\ c[7] \in Int /\ c[8] \in Int
  BY DEF IsBits
<1>2. PICK x1, x2, x3, x4, x5, x6, x7, x8 :
        /\ x1 = 64 * c[8] + 32 * c[7] + 16 * c[6] + 8 * c[5] + 4 * c[4] + 2 * c[3] + c[2]
        /\ x2 = 32 * c[8] + 16 * c[7] + 8 * c[6] + 4 * c[5] + 2 * c[4] + c[3]
        /\ x3 = 16 * c[8] + 8 * c[7] + 4 * c[6] + 2 * c[5] + c[4]
        /\ x4 = 8 * c[8] + 4 * c[7] + 2 * c[6] + c[5]
        /\ x5 = 4 * c[8] + 2 * c[7] + c[6]
        /\ x6 = 2 * c[8] + c[7]
        /\ x7 = c[8]
        /\ x8 = 0
  OBVIOUS
<1>a1. LowBit(OfBits(c) \div 1, c[1])
  <2>1. x1 \in Int
    BY <1>1, <1>2
  <2>2. OfBits(c) \div 1 = 2 * x1 + c[1]
    BY <1>1, <1>2, ShiftedBits
  <2> QED
    BY <2>1, <2>2, Zenon DEF LowBit
<1>a2. LowBit(OfBits(c) \div 2, c[2])
  <2>1. x2 \in Int
    BY <1>1, <1>2
  <2>2. OfBits(c) \div 2 = 2 * x2 + c[2]
    BY <1>1, <1>2, ShiftedBits
  <2> QED
    BY <2>1, <2>2, Zenon DEF LowBit
<1>a3. LowBit(OfBits(c) \div 4, c[3])
  <2>1. x3 \in Int
    BY <1>1, <1>2
  <2>2. OfBits(c) \div 4 = 2 * x3 + c[3]
    BY <1>1, <1>2, ShiftedBits
  <2> QED
    BY <2>1, <2>2, Zenon DEF LowBit
<1>a4. LowBit(OfBits(c) \div 8, c[4])
  <2>1. x4 \in Int
    BY <1>1, <1>2
  <2>2. OfBits(c) \div 8 = 2 * x4 + c[4]
    BY <1>1, <1>2, ShiftedBits
  <2> QED
    BY <2>1, <2>2, Zenon DEF LowBit
<1>a5. LowBit(OfBits(c) \div 16, c[5])
  <2>1. x5 \in Int
    BY <1>1, <1>2
  <2>2. OfBits(c) \div 16 = 2 * x5 + c[5]
    BY <1>1, <1>2, ShiftedBits
  <2> QED
    BY <2>1, <2>2, Zenon DEF LowBit
<1>a6. LowBit(OfBits(c) \div 32, c[6])
  <2>1. x6 \in Int
    BY <1>1, <1>2
  <2>2. OfBits(c) \div 32 = 2 * x6 + c[6]
    BY <1>1, <1>2, ShiftedBits
  <2> QED
    BY <2>1, <2>2, Zenon DEF LowBit
<1>a7. LowBit(OfBits(c) \div 64, c[7])
  <2>1. x7 \in Int
    BY <1>1, <1>2
  <2>2. OfBits(c) \div 64 = 2 * x7 + c[7]
    BY <1>1, <1>2, ShiftedBits
  <2> QED
    BY <2>1, <2>2, Zenon DEF LowBit
<1>a8. LowBit(OfBits(c) \div 128, c[8])
  <2>1. x8 \in Int
    BY <1>1, <1>2
  <2>2. OfBits(c) \div 128 = 2 * x8 + c[8]
    BY <1>1, <1>2, ShiftedBits
  <2> QED
    BY <2>1, <2>2, Zenon DEF LowBit
<1> QED
  BY <1>a1, <1>a2, <1>a3, <1>a4, <1>a5, <1>a6, <1>a7, <1>a8, Zenon

LEMMA ParityIs ==
  ASSUME NEW m, NEW n, NEW u \in 0 .. 1, NEW v \in 0 .. 1, LowBit(m, u), LowBit(n, v)
  PROVE  (m + n) % 2 = (u + v) % 2
<1>1. PICK x \in Int : m = 2 * x + u
  BY DEF LowBit
<1>2. PICK y \in Int : n = 2 * y + v
  BY DEF LowBit
<1> QED
  BY <1>1, <1>2

(* The parity of a bit is what exclusive or keeps of it. *)
Mix2(c, d) == [k \in 1 .. 8 |-> (c[k] + d[k]) % 2]

LEMMA XorBits ==
  ASSUME NEW c, NEW d, IsBits(c), IsBits(d)
  PROVE  IsBits(Mix2(c, d)) /\ F!Xor(OfBits(c), OfBits(d)) = OfBits(Mix2(c, d))
<1>1. \A k \in 1 .. 8 : /\ c[k] \in 0 .. 1 /\ d[k] \in 0 .. 1
                        /\ Mix2(c, d)[k] = (c[k] + d[k]) % 2
  BY DEF IsBits, Mix2
<1>2. \A u \in 0 .. 1, v \in 0 .. 1 : (u + v) % 2 \in 0 .. 1
  OBVIOUS
<1>3. IsBits(Mix2(c, d))
  BY <1>1, <1>2 DEF IsBits
<1>b. /\ c[1] \in 0 .. 1 /\ c[2] \in 0 .. 1 /\ c[3] \in 0 .. 1 /\ c[4] \in 0 .. 1
      /\ c[5] \in 0 .. 1 /\ c[6] \in 0 .. 1 /\ c[7] \in 0 .. 1 /\ c[8] \in 0 .. 1
      /\ d[1] \in 0 .. 1 /\ d[2] \in 0 .. 1 /\ d[3] \in 0 .. 1 /\ d[4] \in 0 .. 1
      /\ d[5] \in 0 .. 1 /\ d[6] \in 0 .. 1 /\ d[7] \in 0 .. 1 /\ d[8] \in 0 .. 1
  BY DEF IsBits
<1>c. /\ LowBit(OfBits(c) \div 1, c[1]) /\ LowBit(OfBits(c) \div 2, c[2])
      /\ LowBit(OfBits(c) \div 4, c[3]) /\ LowBit(OfBits(c) \div 8, c[4])
      /\ LowBit(OfBits(c) \div 16, c[5]) /\ LowBit(OfBits(c) \div 32, c[6])
      /\ LowBit(OfBits(c) \div 64, c[7]) /\ LowBit(OfBits(c) \div 128, c[8])
  BY LowBits, Zenon
<1>d. /\ LowBit(OfBits(d) \div 1, d[1]) /\ LowBit(OfBits(d) \div 2, d[2])
      /\ LowBit(OfBits(d) \div 4, d[3]) /\ LowBit(OfBits(d) \div 8, d[4])
      /\ LowBit(OfBits(d) \div 16, d[5]) /\ LowBit(OfBits(d) \div 32, d[6])
      /\ LowBit(OfBits(d) \div 64, d[7]) /\ LowBit(OfBits(d) \div 128, d[8])
  BY LowBits, Zenon
<1>p8. F!Parity(OfBits(c), OfBits(d), 128) = 128 * ((c[8] + d[8]) % 2)
  BY <1>b, <1>c, <1>d, ParityIs DEF F!Parity
<1>p7. F!Parity(OfBits(c), OfBits(d), 64) = 64 * ((c[7] + d[7]) % 2)
  BY <1>b, <1>c, <1>d, ParityIs DEF F!Parity
<1>p6. F!Parity(OfBits(c), OfBits(d), 32) = 32 * ((c[6] + d[6]) % 2)
  BY <1>b, <1>c, <1>d, ParityIs DEF F!Parity
<1>p5. F!Parity(OfBits(c), OfBits(d), 16) = 16 * ((c[5] + d[5]) % 2)
  BY <1>b, <1>c, <1>d, ParityIs DEF F!Parity
<1>p4. F!Parity(OfBits(c), OfBits(d), 8) = 8 * ((c[4] + d[4]) % 2)
  BY <1>b, <1>c, <1>d, ParityIs DEF F!Parity
<1>p3. F!Parity(OfBits(c), OfBits(d), 4) = 4 * ((c[3] + d[3]) % 2)
  BY <1>b, <1>c, <1>d, ParityIs DEF F!Parity
<1>p2. F!Parity(OfBits(c), OfBits(d), 2) = 2 * ((c[2] + d[2]) % 2)
  BY <1>b, <1>c, <1>d, ParityIs DEF F!Parity
<1>p1. F!Parity(OfBits(c), OfBits(d), 1) = 1 * ((c[1] + d[1]) % 2)
  BY <1>b, <1>c, <1>d, ParityIs DEF F!Parity
<1>r. OfBits(Mix2(c, d)) = 128 * ((c[8] + d[8]) % 2) + 64 * ((c[7] + d[7]) % 2)
        + 32 * ((c[6] + d[6]) % 2) + 16 * ((c[5] + d[5]) % 2) + 8 * ((c[4] + d[4]) % 2)
        + 4 * ((c[3] + d[3]) % 2) + 2 * ((c[2] + d[2]) % 2) + ((c[1] + d[1]) % 2)
  BY <1>1 DEF OfBits
<1> QED
  BY <1>3, <1>p8, <1>p7, <1>p6, <1>p5, <1>p4, <1>p3, <1>p2, <1>p1, <1>r, <1>b DEF F!Xor

(* Masking twice with one octet of the key does nothing. *)
LEMMA XorTwice ==
  ASSUME NEW a \in 0 .. 255, NEW b \in 0 .. 255
  PROVE  F!Xor(a, b) \in 0 .. 255 /\ F!Xor(F!Xor(a, b), b) = a
<1> DEFINE c == BitsOf(a)
           d == BitsOf(b)
           m == Mix2(c, d)
           n == Mix2(m, d)
<1>1. IsBits(c) /\ a = OfBits(c) /\ IsBits(d) /\ b = OfBits(d)
  BY OctetIsBits
<1> HIDE DEF c, d
<1>2. IsBits(m) /\ F!Xor(a, b) = OfBits(m)
  BY <1>1, XorBits
<1>3. IsBits(n) /\ F!Xor(OfBits(m), b) = OfBits(n)
  <2> HIDE DEF m
  <2> QED BY <1>1, <1>2, XorBits
<1>4. \A k \in 1 .. 8 : n[k] = c[k]
  <2>1. \A k \in 1 .. 8 : /\ c[k] \in 0 .. 1 /\ d[k] \in 0 .. 1
                          /\ n[k] = (((c[k] + d[k]) % 2) + d[k]) % 2
    BY <1>1 DEF IsBits, Mix2
  <2>2. \A u \in 0 .. 1, v \in 0 .. 1 : (((u + v) % 2) + v) % 2 = u
    OBVIOUS
  <2> QED
    BY <2>1, <2>2
<1> HIDE DEF m, n
<1>5. OfBits(n) = OfBits(c)
  BY <1>4 DEF OfBits
<1>6. OfBits(m) \in 0 .. 255
  BY <1>2, ShiftedBits, Zenon
<1> QED
  <2>1. F!Xor(OfBits(m), b) = a
    BY <1>1, <1>3, <1>5, Zenon
  <2> QED
    BY <1>2, <1>6, <2>1, Zenon
-----------------------------------------------------------------------------
(* The lengths of frames *)

(* Nothing of n is lost in its low octet and the rest. *)
LEMMA SplitOctet ==
  ASSUME NEW n \in Nat
  PROVE  /\ Shift8(n) \in Nat
         /\ n % 256 \in 0 .. 255
         /\ n = 256 * Shift8(n) + (n % 256)
BY DEF Shift8

(* The four octets of n are n without what lies above 2^32. *)
LEMMA OctetsJoin ==
  ASSUME NEW n \in Nat
  PROVE  /\ \A i \in 1 .. 4 : Octets(n)[i] \in 0 .. 255
         /\ HighHalf(n) \in Nat
         /\ n = 256 * (256 * (256 * (256 * HighHalf(n) + Octets(n)[1])
                  + Octets(n)[2]) + Octets(n)[3]) + Octets(n)[4]
<1> DEFINE p == Shift8(n)
           q == Shift8(p)
           r == Shift8(q)
           s == Shift8(r)
<1>p. p \in Nat /\ n = 256 * p + (n % 256) /\ n % 256 \in 0 .. 255
  BY DEF Shift8
<1>q. q \in Nat /\ p = 256 * q + (p % 256) /\ p % 256 \in 0 .. 255
  <2> HIDE DEF p
  <2> QED BY <1>p DEF Shift8
<1>r. r \in Nat /\ q = 256 * r + (q % 256) /\ q % 256 \in 0 .. 255
  <2> HIDE DEF q
  <2> QED BY <1>q DEF Shift8
<1>s. s \in Nat /\ r = 256 * s + (r % 256) /\ r % 256 \in 0 .. 255
  <2> HIDE DEF r
  <2> QED BY <1>r DEF Shift8
<1>3. HighHalf(n) = s
  BY DEF HighHalf
<1>4. Octets(n) = <<r % 256, q % 256, p % 256, n % 256>>
  BY DEF Octets
<1>5. /\ Octets(n)[1] = r % 256 /\ Octets(n)[2] = q % 256
      /\ Octets(n)[3] = p % 256 /\ Octets(n)[4] = n % 256
  BY <1>4
<1> HIDE DEF p, q, r, s
<1>6. n = 256 * (256 * (256 * (256 * s + (r % 256)) + (q % 256)) + (p % 256)) + (n % 256)
  BY <1>p, <1>q, <1>r, <1>s
<1>7. \A i \in 1 .. 4 : Octets(n)[i] \in 0 .. 255
  BY <1>5, <1>p, <1>q, <1>r, <1>s
<1> QED
  BY <1>3, <1>5, <1>6, <1>7, <1>s

(* The reader's shift keeps a length exact up to Memory. *)
LEMMA Shifted ==
  ASSUME NEW n \in Nat, NEW b \in 0 .. 255, n <= Memory
  PROVE  /\ Extend(n, b) = 256 * n + b
         /\ 256 * n + b \in Nat
         /\ n <= 256 * n + b
BY MemoryAssumption DEF Extend

(* Four octets written below n, and the reader's four shifts. *)
Joined(n, b) == 256 * (256 * (256 * (256 * n + b[1]) + b[2]) + b[3]) + b[4]
Read4(n, b) == Extend(Extend(Extend(Extend(n, b[1]), b[2]), b[3]), b[4])

LEMMA ShiftedByFour ==
  ASSUME NEW n \in Nat, NEW b, \A i \in 1 .. 4 : b[i] \in 0 .. 255,
         Joined(n, b) <= Memory
  PROVE  Read4(n, b) = Joined(n, b) /\ n <= Joined(n, b)
<1>b. /\ b[1] \in 0 .. 255 /\ b[2] \in 0 .. 255
      /\ b[3] \in 0 .. 255 /\ b[4] \in 0 .. 255
  OBVIOUS
<1> DEFINE n1 == 256 * n + b[1]
           n2 == 256 * n1 + b[2]
           n3 == 256 * n2 + b[3]
           n4 == 256 * n3 + b[4]
<1>0. n4 = Joined(n, b)
  BY DEF Joined
<1>1. n1 \in Nat /\ n <= n1
  BY <1>b
<1>2. n2 \in Nat /\ n1 <= n2
  <2> HIDE DEF n1
  <2> QED BY <1>1, <1>b
<1>3. n3 \in Nat /\ n2 <= n3
  <2> HIDE DEF n1, n2
  <2> QED BY <1>2, <1>b
<1>4. n4 \in Nat /\ n3 <= n4
  <2> HIDE DEF n1, n2, n3
  <2> QED BY <1>3, <1>b
<1> SUFFICES Read4(n, b) = n4 /\ n <= n4
  BY <1>0
<1> HIDE DEF n1, n2, n3, n4
<1>5. n3 <= Memory /\ n2 <= Memory /\ n1 <= Memory /\ n <= Memory /\ n <= n4
  BY <1>0, <1>1, <1>2, <1>3, <1>4, MemoryAssumption
<1>6. Extend(n, b[1]) = n1
  BY <1>b, <1>5, Shifted, ZenonT(30) DEF n1
<1>7. Extend(n1, b[2]) = n2
  BY <1>1, <1>b, <1>5, Shifted, ZenonT(30) DEF n2
<1>8. Extend(n2, b[3]) = n3
  BY <1>2, <1>b, <1>5, Shifted, ZenonT(30) DEF n3
<1>9. Extend(n3, b[4]) = n4
  BY <1>3, <1>b, <1>5, Shifted, ZenonT(30) DEF n4
<1> QED
  BY <1>5, <1>6, <1>7, <1>8, <1>9 DEF Read4

(* 64 bits: nothing is above the two halves. *)
LEMMA TwoHalves ==
  ASSUME NEW n \in 0 .. Memory
  PROVE  HighHalf(HighHalf(n)) = 0
<1>1. \A a \in Nat, b \in Nat : a <= b => Shift8(a) <= Shift8(b) /\ Shift8(a) \in Nat
  BY DEF Shift8
<1>2. \A a \in Nat, b \in Nat : a <= b => HighHalf(a) <= HighHalf(b) /\ HighHalf(a) \in Nat
  BY <1>1 DEF HighHalf
<1> QED
  BY <1>2, MemoryAssumption

(* The eight octets are read back as the number they were written from. *)
LEMMA Length64Inverts ==
  ASSUME NEW n \in 0 .. Memory, NEW s,
         \A i \in 1 .. 4 : s[i + 2] = Octets(HighHalf(n))[i] /\ s[i + 6] = Octets(n)[i]
  PROVE  Length64(s) = n
<1> DEFINE h == HighHalf(n)
           o == Octets(h)
           u == Octets(n)
<1>1. n \in Nat /\ h \in Nat /\ HighHalf(h) = 0 /\ n <= Memory
  BY MemoryAssumption, TwoHalves, OctetsJoin
<1>2. /\ s[3] = o[1] /\ s[4] = o[2] /\ s[5] = o[3] /\ s[6] = o[4]
      /\ s[7] = u[1] /\ s[8] = u[2] /\ s[9] = u[3] /\ s[10] = u[4]
  <2> HIDE DEF h, o, u
  <2>1. \A i \in 1 .. 4 : s[i + 2] = o[i] /\ s[i + 6] = u[i]
    BY DEF h, o, u
  <2> QED
    BY <2>1
<1>3. (\A i \in 1 .. 4 : o[i] \in 0 .. 255) /\ h = Joined(0, o)
  <2> HIDE DEF h
  <2> QED BY <1>1, OctetsJoin DEF Joined
<1>4. (\A i \in 1 .. 4 : u[i] \in 0 .. 255) /\ n = Joined(h, u)
  BY <1>1, OctetsJoin DEF Joined
<1> HIDE DEF h, o, u
<1>5. h <= n /\ Read4(h, u) = n
  BY <1>1, <1>4, ShiftedByFour
<1>6. h <= Memory
  BY <1>1, <1>5, MemoryAssumption
<1>7. Read4(0, o) = h
  BY <1>3, <1>6, ShiftedByFour
<1> QED
  BY <1>2, <1>5, <1>7 DEF Length64, Read4

(* And the two octets. *)
LEMMA Length16Inverts ==
  ASSUME NEW n \in Nat, n < 256 * 256, NEW s, s[3] = Shift8(n) % 256, s[4] = n % 256
  PROVE  Length16(s) = n
<1>1. Shift8(n) \in 0 .. 255
  BY DEF Shift8
<1>2. \A m \in 0 .. 255 : m % 256 = m
  OBVIOUS
<1>3. n = 256 * Shift8(n) + (n % 256)
  BY SplitOctet
<1> QED
  BY <1>1, <1>2, <1>3 DEF Length16

(* The three encodings of send_frame, each read back by its own branch. *)
LEMMA HeaderInverts ==
  ASSUME NEW n \in 0 .. Memory
  PROVE  ReadLength(SendHeader(n)) = n
<1>1. n \in Nat
  BY MemoryAssumption
<1>2. CASE n <= 125
  <2>1. SendHeader(n) = <<129, n>>
    BY <1>2 DEF SendHeader
  <2>2. n % 128 = n
    BY <1>1, <1>2
  <2>3. Extended(n) = 0
    BY <1>1, <1>2, <2>2 DEF Extended
  <2> QED
    BY <2>1, <2>2, <2>3 DEF ReadLength
<1>3. CASE n > 125 /\ n <= 65535
  <2>1. SendHeader(n) = <<129, 126, Shift8(n) % 256, n % 256>>
    BY <1>1, <1>3 DEF SendHeader
  <2>2. Extended(126) = 2
    BY DEF Extended
  <2>3. Length16(SendHeader(n)) = n
    <3> DEFINE s == SendHeader(n)
    <3>1. s[3] = Shift8(n) % 256 /\ s[4] = n % 256 /\ n < 256 * 256
      BY <1>1, <1>3, <2>1
    <3> HIDE DEF s
    <3>2. Length16(s) = n
      BY <1>1, <3>1, Length16Inverts, Zenon
    <3> QED
      BY <3>2 DEF s
  <2> QED
    BY <2>1, <2>2, <2>3 DEF ReadLength
<1>4. CASE n > 65535
  <2>1. SendHeader(n) = <<129, 127>> \o Octets(HighHalf(n)) \o Octets(n)
    BY <1>1, <1>4 DEF SendHeader
  <2>2. SendHeader(n)[2] = 127
    BY <2>1 DEF Octets
  <2>3. Extended(127) = 8
    BY DEF Extended
  <2>4. \A i \in 1 .. 4 : /\ SendHeader(n)[i + 2] = Octets(HighHalf(n))[i]
                          /\ SendHeader(n)[i + 6] = Octets(n)[i]
    BY <2>1 DEF Octets
  <2>5. Length64(SendHeader(n)) = n
    BY <2>4, Length64Inverts
  <2> QED
    BY <2>2, <2>3, <2>5 DEF ReadLength
<1> QED
  BY <1>1, <1>2, <1>3, <1>4

LengthInv == /\ message_length \in 0 .. Longest
             /\ LengthSurvives

(* For every length up to what a size_t holds, read_frame announces to     *)
(* itself the length send_frame was given: websocket_handler.cpp:107-123   *)
(* and :32-53 are inverse to each other.                                   *)
THEOREM LengthsAgree == LengthSpec => []LengthSurvives
<1>1. FirstLength => LengthInv
  <2>1. 0 \in 0 .. Memory
    BY MemoryAssumption
  <2> QED
    BY <2>1, HeaderInverts, LongestAssumption, MemoryAssumption
       DEF FirstLength, LengthInv, LengthSurvives
<1>2. LengthInv /\ [NextLength]_lengthVars => LengthInv'
  <2> SUFFICES ASSUME LengthInv, [NextLength]_lengthVars PROVE LengthInv'
    OBVIOUS
  <2>1. CASE NextLength
    <3>1. message_length' \in 0 .. Longest /\ message_length' \in 0 .. Memory
      BY <2>1, LongestAssumption, MemoryAssumption DEF NextLength, LengthInv
    <3>2. payload_length' = ReadLength(SendHeader(message_length'))
      BY <2>1 DEF NextLength
    <3> QED
      BY <3>1, <3>2, HeaderInverts DEF LengthInv, LengthSurvives
  <2>2. CASE UNCHANGED lengthVars
    BY <2>2 DEF lengthVars, LengthInv, LengthSurvives
  <2> QED
    BY <2>1, <2>2
<1>3. LengthInv => LengthSurvives
  BY DEF LengthInv
<1> QED
  BY <1>1, <1>2, <1>3, PTL DEF LengthSpec
-----------------------------------------------------------------------------
(* The bytes of a frame *)

(* A frame's bytes, field by field. *)
KeyAt(f) == 2 + f.extended
TextAtByte(f) == 2 + f.extended + Len(f.key)
FrameLen(f) == 2 + f.extended + Len(f.key) + Len(f.text)

(* What stands where in sequences put together. *)
Stands(C, w, u, v) == /\ w \in Seq(C) /\ Len(w) = Len(u) + Len(v)
                      /\ \A j \in 1 .. Len(u) : w[j] = u[j]
                      /\ \A j \in 1 .. Len(v) : w[Len(u) + j] = v[j]

LEMMA JoinIs ==
  ASSUME NEW C, NEW u, NEW v, u \in Seq(C), v \in Seq(C), NEW w, w = u \o v
  PROVE  Stands(C, w, u, v)
<1>1. Len(u) \in Nat /\ Len(v) \in Nat
  BY LenProperties, Zenon
<1>2. /\ u \o v \in Seq(C) /\ Len(u \o v) = Len(u) + Len(v)
      /\ \A i \in 1 .. Len(u) + Len(v) : (u \o v)[i] =
            IF i <= Len(u) THEN u[i] ELSE v[i - Len(u)]
  BY ConcatProperties, Zenon
<1>3. \A i \in 1 .. Len(u) + Len(v) : w[i] = IF i <= Len(u) THEN u[i] ELSE v[i - Len(u)]
  BY <1>2, Zenon
<1>4. \A j \in 1 .. Len(u) : w[j] = u[j]
  <2>1. \A j \in 1 .. Len(u) : j \in 1 .. Len(u) + Len(v) /\ j <= Len(u)
    BY <1>1
  <2> QED
    BY <1>3, <2>1, Zenon
<1>5. \A j \in 1 .. Len(v) : w[Len(u) + j] = v[j]
  <2>1. \A j \in 1 .. Len(v) : /\ Len(u) + j \in 1 .. Len(u) + Len(v)
                               /\ ~(Len(u) + j <= Len(u)) /\ (Len(u) + j) - Len(u) = j
    BY <1>1
  <2> QED
    BY <1>3, <2>1, Zenon
<1> QED
  BY <1>2, <1>4, <1>5, Zenon DEF Stands

FourStand(C, e, a, b, c, d) ==
  /\ e \in Seq(C) /\ Len(e) = Len(a) + Len(b) + Len(c) + Len(d)
  /\ \A j \in 1 .. Len(a) : e[j] = a[j]
  /\ \A j \in 1 .. Len(b) : e[Len(a) + j] = b[j]
  /\ \A j \in 1 .. Len(c) : e[Len(a) + Len(b) + j] = c[j]
  /\ \A j \in 1 .. Len(d) : e[Len(a) + Len(b) + Len(c) + j] = d[j]

LEMMA FourJoined ==
  ASSUME NEW C, NEW a, NEW b, NEW c, NEW d,
         a \in Seq(C), b \in Seq(C), c \in Seq(C), d \in Seq(C),
         NEW u, NEW v, NEW e, u = a \o b, v = u \o c, e = v \o d
  PROVE  FourStand(C, e, a, b, c, d)
<1>0. Len(a) \in Nat /\ Len(b) \in Nat /\ Len(c) \in Nat /\ Len(d) \in Nat
  BY LenProperties, Zenon
<1>a. Stands(C, u, a, b)
  BY JoinIs, Zenon
<1>1. /\ u \in Seq(C) /\ Len(u) = Len(a) + Len(b)
      /\ \A j \in 1 .. Len(a) : u[j] = a[j]
      /\ \A j \in 1 .. Len(b) : u[Len(a) + j] = b[j]
  BY <1>a, Zenon DEF Stands
<1>b. Stands(C, v, u, c)
  BY <1>1, JoinIs, Zenon
<1>2. /\ v \in Seq(C) /\ Len(v) = Len(u) + Len(c)
      /\ \A j \in 1 .. Len(u) : v[j] = u[j]
      /\ \A j \in 1 .. Len(c) : v[Len(u) + j] = c[j]
  BY <1>b, Zenon DEF Stands
<1>c. Stands(C, e, v, d)
  BY <1>2, JoinIs, Zenon
<1>4. /\ e \in Seq(C) /\ Len(e) = Len(v) + Len(d)
      /\ \A j \in 1 .. Len(v) : e[j] = v[j]
      /\ \A j \in 1 .. Len(d) : e[Len(v) + j] = d[j]
  BY <1>c, Zenon DEF Stands
<1>5. \A j \in 1 .. Len(a) : j \in 1 .. Len(u) /\ j \in 1 .. Len(v)
  BY <1>0, <1>1, <1>2
<1>6. \A j \in 1 .. Len(b) : Len(a) + j \in 1 .. Len(u) /\ Len(a) + j \in 1 .. Len(v)
  BY <1>0, <1>1, <1>2
<1>7. \A j \in 1 .. Len(c) : Len(u) + j \in 1 .. Len(v)
  BY <1>0, <1>1, <1>2
<1>8. /\ \A j \in 1 .. Len(a) : e[j] = a[j]
      /\ \A j \in 1 .. Len(b) : e[Len(a) + j] = b[j]
      /\ \A j \in 1 .. Len(c) : e[Len(u) + j] = c[j]
  BY <1>1, <1>2, <1>4, <1>5, <1>6, <1>7, Zenon
<1>9. Len(u) = Len(a) + Len(b) /\ Len(v) = Len(a) + Len(b) + Len(c)
      /\ Len(e) = Len(a) + Len(b) + Len(c) + Len(d)
  BY <1>1, <1>2, <1>4, Zenon
<1>10. /\ \A j \in 1 .. Len(c) : e[Len(a) + Len(b) + j] = c[j]
       /\ \A j \in 1 .. Len(d) : e[Len(a) + Len(b) + Len(c) + j] = d[j]
  BY <1>4, <1>8, <1>9, Zenon
<1> QED
  BY <1>4, <1>8, <1>9, <1>10, Zenon DEF FourStand

(* The operators of Frame are those FrameReader uses. *)
LEMMA SameOperators ==
  /\ \A n : F!Shift8(n) = Shift8(n)
  /\ \A n : F!HighHalf(n) = HighHalf(n)
  /\ \A n : F!Octets(n) = Octets(n)
  /\ \A n : F!Extended(n) = Extended(n)
  /\ \A h : F!Length16(h) = Length16(h)
  /\ \A h : F!Length64(h) = Length64(h)
  /\ \A h : F!ReadLength(h) = ReadLength(h)
<1>1. \A n : F!Shift8(n) = Shift8(n)
  BY Zenon DEF F!Shift8, Shift8
<1>2. \A n : F!HighHalf(n) = HighHalf(n)
  BY <1>1, Zenon DEF F!HighHalf, HighHalf
<1>3. \A n : F!Octets(n) = Octets(n)
  BY <1>1, Zenon DEF F!Octets, Octets
<1>4. \A n : F!Extended(n) = Extended(n)
  BY Zenon DEF F!Extended, Extended
<1>5. \A h : F!Length16(h) = Length16(h)
  BY Zenon DEF F!Length16, Length16
<1>6. \A n, b : F!Extend(n, b) = Extend(n, b)
  BY Zenon DEF F!Extend, Extend
<1>7. \A h : F!Length64(h) = Length64(h)
  BY <1>6, Zenon DEF F!Length64, Length64
<1>8. \A h : F!ReadLength(h) = ReadLength(h)
  BY <1>4, <1>5, <1>7, Zenon DEF F!ReadLength, ReadLength
<1> QED
  BY <1>1, <1>2, <1>3, <1>4, <1>5, <1>7, <1>8, Zenon

(* What a frame may be. *)
LEMMA FunctionIsSeq ==
  ASSUME NEW C, NEW l \in Nat, NEW u \in [1 .. l -> C]
  PROVE  u \in Seq(C) /\ Len(u) = l
OBVIOUS

IsKey(k) == k = <<>> \/ k \in [1 .. 4 -> 0 .. 255]
KeyHas(k) == /\ k \in Seq(0 .. 255) /\ Len(k) \in {0, 4}
             /\ k = <<>> <=> Len(k) = 0
             /\ k # <<>> => \A j \in 1 .. 4 : k[j] \in 0 .. 255

LEMMA KeyFacts ==
  ASSUME NEW k, IsKey(k)
  PROVE  KeyHas(k)
<1>0. k = <<>> \/ k \in [1 .. 4 -> 0 .. 255]
  BY Zenon DEF IsKey
<1>1. CASE k = <<>>
  BY <1>1 DEF KeyHas
<1>2. CASE k \in [1 .. 4 -> 0 .. 255]
  <2>1. PICK C, l : C = 0 .. 255 /\ l = 4
    OBVIOUS
  <2>2. l \in Nat
    BY <2>1
  <2>3. k \in [1 .. l -> C]
    BY <1>2, <2>1
  <2>4. k \in Seq(C) /\ Len(k) = l
    BY <2>2, <2>3, FunctionIsSeq, Zenon
  <2>5. k # <<>>
    <3>1. Len(k) # 0
      BY <2>1, <2>4
    <3>2. Len(<<>>) = 0
      OBVIOUS
    <3> QED
      BY <3>1, <3>2, Zenon
  <2> QED
    BY <1>2, <2>1, <2>4, <2>5 DEF KeyHas
<1> QED
  BY <1>0, <1>1, <1>2, Zenon

LEMMA FrameFacts ==
  ASSUME NEW f, F!WellFormed(f)
  PROVE  /\ f.extended \in {0, 2, 8}
         /\ f.extended = 0 => Len(f.text) <= 125
         /\ f.extended = 2 => Len(f.text) < 256 * 256
         /\ f.opcode \in 0 .. 15
         /\ f.key \in Seq(0 .. 255) /\ Len(f.key) \in {0, 4}
         /\ f.key = <<>> <=> Len(f.key) = 0
         /\ f.key # <<>> => \A j \in 1 .. 4 : f.key[j] \in 0 .. 255
         /\ f.text \in Seq(0 .. 255) /\ Len(f.text) \in Nat /\ Len(f.text) <= Memory
<1> DEFINE k == f.key
           t == f.text
<1>1. /\ f.extended \in {0, 2, 8}
      /\ f.extended = 0 => Len(t) <= 125
      /\ f.extended = 2 => Len(t) < 256 * 256
      /\ f.opcode \in 0 .. 15
      /\ k = <<>> \/ k \in [1 .. 4 -> 0 .. 255]
      /\ t \in Seq(0 .. 255)
      /\ Len(t) <= Memory
  BY Zenon DEF F!WellFormed
<1> HIDE DEF k, t
<1>2. /\ k \in Seq(0 .. 255) /\ Len(k) \in {0, 4}
      /\ k = <<>> <=> Len(k) = 0
      /\ k # <<>> => \A j \in 1 .. 4 : k[j] \in 0 .. 255
  <2>1. KeyHas(k)
    <3>1. IsKey(k)
      BY <1>1, Zenon DEF IsKey
    <3> QED
      BY <3>1, KeyFacts, Zenon
  <2> QED
    BY <2>1, Zenon DEF KeyHas
<1>3. Len(t) \in Nat
  BY <1>1
<1> QED
  BY <1>1, <1>2, <1>3, Zenon DEF k, t

(* The octet of a key that masks octet j. *)
KeyOf(k, j) == k[((j - 1) % 4) + 1]

LEMMA KeyOfType ==
  ASSUME NEW k, NEW j \in Nat \ {0}, \A i \in 1 .. 4 : k[i] \in 0 .. 255
  PROVE  KeyOf(k, j) \in 0 .. 255
<1>1. ((j - 1) % 4) + 1 \in 1 .. 4
  <2>1. \A n \in Nat : (n % 4) + 1 \in 1 .. 4
    OBVIOUS
  <2>2. j - 1 \in Nat
    OBVIOUS
  <2> QED
    BY <2>1, <2>2, Zenon
<1> QED
  BY <1>1, Zenon DEF KeyOf

LEMMA TextOctets ==
  ASSUME NEW t \in Seq(0 .. 255)
  PROVE  \A j \in 1 .. Len(t) : t[j] \in 0 .. 255 /\ j \in Nat \ {0}
<1>1. \A j \in 1 .. Len(t) : t[j] \in 0 .. 255
  BY ElementOfSeq, Zenon
<1>2. \A n : \A j \in 1 .. n : n \in Nat => j \in Nat \ {0}
  OBVIOUS
<1>3. Len(t) \in Nat
  BY LenProperties, Zenon
<1> QED
  BY <1>1, <1>2, <1>3, Zenon

LEMMA MaskedType ==
  ASSUME NEW k, k # <<>>, \A i \in 1 .. 4 : k[i] \in 0 .. 255, NEW t \in Seq(0 .. 255)
  PROVE  /\ F!Masked(t, k) \in Seq(0 .. 255)
         /\ Len(F!Masked(t, k)) = Len(t)
         /\ \A j \in 1 .. Len(t) : F!Masked(t, k)[j] = F!Xor(t[j], KeyOf(k, j))
<1> DEFINE m == F!Masked(t, k)
<1>1. m = [j \in 1 .. Len(t) |-> F!Xor(t[j], KeyOf(k, j))]
  BY Zenon DEF F!Masked, KeyOf
<1>2. \A j \in 1 .. Len(t) : t[j] \in 0 .. 255 /\ j \in Nat \ {0}
  BY TextOctets, Zenon
<1>3. \A j \in 1 .. Len(t) : F!Xor(t[j], KeyOf(k, j)) \in 0 .. 255
  BY <1>2, KeyOfType, XorTwice, Zenon
<1> HIDE DEF m
<1>4. Len(t) \in Nat
  OBVIOUS
<1>5. m \in Seq(0 .. 255) /\ Len(m) = Len(t)
  BY <1>1, <1>3, <1>4
<1>6. \A j \in 1 .. Len(t) : m[j] = F!Xor(t[j], KeyOf(k, j))
  BY <1>1, Zenon
<1> QED
  BY <1>5, <1>6, Zenon DEF m

LEMMA MaskedIs ==
  ASSUME NEW f, F!WellFormed(f)
  PROVE  /\ F!Masked(f.text, f.key) \in Seq(0 .. 255)
         /\ Len(F!Masked(f.text, f.key)) = Len(f.text)
<1>1. CASE f.key = <<>>
  BY <1>1, FrameFacts, Zenon DEF F!Masked
<1>2. CASE f.key # <<>>
  <2>1. \A j \in 1 .. 4 : f.key[j] \in 0 .. 255
    BY <1>2, FrameFacts, ZenonT(60)
  <2>2. f.text \in Seq(0 .. 255)
    BY FrameFacts, ZenonT(60)
  <2> QED
    BY <1>2, <2>1, <2>2, MaskedType, Zenon
<1> QED
  BY <1>1, <1>2

(* Unmasking gives the text back. *)
LEMMA UnmaskedIs ==
  ASSUME NEW k, k # <<>>, \A i \in 1 .. 4 : k[i] \in 0 .. 255, NEW t \in Seq(0 .. 255)
  PROVE  F!Masked(F!Masked(t, k), k) = t
<1> DEFINE m == F!Masked(t, k)
           n == F!Masked(m, k)
<1>1. /\ m \in Seq(0 .. 255) /\ Len(m) = Len(t)
      /\ \A j \in 1 .. Len(t) : m[j] = F!Xor(t[j], KeyOf(k, j))
  BY MaskedType, Zenon
<1> HIDE DEF m
<1>2. /\ n \in Seq(0 .. 255) /\ Len(n) = Len(m)
      /\ \A j \in 1 .. Len(m) : n[j] = F!Xor(m[j], KeyOf(k, j))
  BY <1>1, MaskedType, Zenon
<1> HIDE DEF n
<1>3. \A j \in 1 .. Len(t) : t[j] \in 0 .. 255 /\ j \in Nat \ {0}
  BY TextOctets, Zenon
<1>4. \A j \in 1 .. Len(t) : F!Xor(F!Xor(t[j], KeyOf(k, j)), KeyOf(k, j)) = t[j]
  BY <1>3, KeyOfType, XorTwice, Zenon
<1>5. \A j \in 1 .. Len(t) : n[j] = t[j]
  BY <1>1, <1>2, <1>4, Zenon
<1>6. n \in Seq(0 .. 255) /\ Len(n) = Len(t)
  BY <1>1, <1>2, Zenon
<1> QED
  BY <1>5, <1>6, SeqEqual DEF n, m

LEMMA MaskedTwice ==
  ASSUME NEW f, F!WellFormed(f)
  PROVE  F!Masked(F!Masked(f.text, f.key), f.key) = f.text
<1>1. CASE f.key = <<>>
  BY <1>1, Zenon DEF F!Masked
<1>2. CASE f.key # <<>>
  BY <1>2, FrameFacts, UnmaskedIs, Zenon
<1> QED
  BY <1>1, <1>2

(* The length as its client writes it. *)
SecondOf(n, x) == IF x = 0 THEN n ELSE IF x = 2 THEN 126 ELSE 127

LEMMA SecondType ==
  ASSUME NEW x, NEW n \in Nat, x = 0 => n <= 125
  PROVE  SecondOf(n, x) \in 0 .. 127
BY DEF SecondOf

LEMMA OctetsType ==
  ASSUME NEW m \in Nat
  PROVE  Octets(m) \in Seq(0 .. 255) /\ Len(Octets(m)) = 4
<1>1. /\ Octets(m)[1] \in 0 .. 255 /\ Octets(m)[2] \in 0 .. 255
      /\ Octets(m)[3] \in 0 .. 255 /\ Octets(m)[4] \in 0 .. 255
  BY OctetsJoin
<1>2. PICK x, y, z, w : Octets(m) = <<x, y, z, w>>
  <2>1. PICK x, y, z, w : /\ x = Shift8(Shift8(Shift8(m))) % 256 /\ y = Shift8(Shift8(m)) % 256
                          /\ z = Shift8(m) % 256 /\ w = m % 256
    OBVIOUS
  <2>2. Octets(m) = <<x, y, z, w>>
    BY <2>1 DEF Octets
  <2> QED
    BY <2>2, Zenon
<1>3. x \in 0 .. 255 /\ y \in 0 .. 255 /\ z \in 0 .. 255 /\ w \in 0 .. 255
  BY <1>1, <1>2
<1> QED
  BY <1>2, <1>3

LEMMA LengthBytesType ==
  ASSUME NEW f, F!WellFormed(f)
  PROVE  F!LengthBytes(f) \in Seq(0 .. 255) /\ Len(F!LengthBytes(f)) = f.extended
<1> DEFINE n == Len(f.text)
           b == F!LengthBytes(f)
<1>0. ~(2 = 0) /\ ~(8 = 0) /\ ~(8 = 2)
  OBVIOUS
<1>1. n \in Nat /\ f.extended \in {0, 2, 8}
  BY FrameFacts, Zenon
<1> HIDE DEF n
<1>2. HighHalf(n) \in Nat
  BY <1>1, OctetsJoin
<1>3. CASE f.extended = 0
  <2>1. b = <<>>
    BY <1>3, Zenon DEF F!LengthBytes
  <2> QED
    BY <1>3, <2>1
<1>4. CASE f.extended = 2
  <2>1. b = <<Shift8(n) % 256, n % 256>>
    BY <1>0, <1>4, SameOperators, Zenon DEF F!LengthBytes, n
  <2>2. Shift8(n) % 256 \in 0 .. 255 /\ n % 256 \in 0 .. 255
    <3>1. Shift8(n) \in Nat /\ n % 256 \in 0 .. 255
      BY <1>1, SplitOctet, Zenon
    <3>2. Shift8(n) % 256 \in 0 .. 255
      BY <3>1, SplitOctet, Zenon
    <3> QED
      BY <3>1, <3>2, Zenon
  <2>3. PICK x, y : x = Shift8(n) % 256 /\ y = n % 256
    OBVIOUS
  <2>4. x \in 0 .. 255 /\ y \in 0 .. 255
    BY <2>2, <2>3, Zenon
  <2>5. <<x, y>> \in Seq(0 .. 255) /\ Len(<<x, y>>) = 2
    BY <2>4
  <2>6. b = <<x, y>>
    BY <2>1, <2>3, Zenon
  <2> QED
    BY <1>4, <2>5, <2>6, Zenon
<1>5. CASE f.extended = 8
  <2>1. b = Octets(HighHalf(n)) \o Octets(n)
    BY <1>0, <1>5, SameOperators, Zenon DEF F!LengthBytes, n
  <2>2. /\ Octets(n) \in Seq(0 .. 255) /\ Len(Octets(n)) = 4
        /\ Octets(HighHalf(n)) \in Seq(0 .. 255) /\ Len(Octets(HighHalf(n))) = 4
    BY <1>1, <1>2, OctetsType, Zenon
  <2>3. b \in Seq(0 .. 255) /\ Len(b) = Len(Octets(HighHalf(n))) + Len(Octets(n))
    <3>1. Stands(0 .. 255, b, Octets(HighHalf(n)), Octets(n))
      BY <2>1, <2>2, JoinIs, Zenon
    <3> QED
      BY <3>1, Zenon DEF Stands
  <2> QED
    BY <1>5, <2>2, <2>3
<1> QED
  BY <1>1, <1>3, <1>4, <1>5

LEMMA FirstBytesType ==
  ASSUME NEW f, F!WellFormed(f)
  PROVE  F!FirstBytes(f) \in Seq(0 .. 255) /\ Len(F!FirstBytes(f)) = 2
<1>1. F!Second(f) \in 0 .. 127
  <2>1. PICK n, x : n = Len(f.text) /\ x = f.extended
    OBVIOUS
  <2>2. n \in Nat /\ (x = 0 => n <= 125)
    BY <2>1, FrameFacts, ZenonT(60)
  <2>3. SecondOf(n, x) \in 0 .. 127
    BY <2>2, SecondType
  <2>4. F!Second(f) = SecondOf(n, x)
    BY <2>1, Zenon DEF F!Second, SecondOf
  <2> QED
    BY <2>3, <2>4
<1>2. F!Second(f) + (IF f.key = <<>> THEN 0 ELSE 128) \in 0 .. 255
  <2>1. \A x \in 0 .. 127 : x + 0 \in 0 .. 255 /\ x + 128 \in 0 .. 255
    OBVIOUS
  <2> QED
    BY <1>1, <2>1, Zenon
<1>3. \A o \in 0 .. 15 : 128 + o \in 0 .. 255
  OBVIOUS
<1>4. 128 + f.opcode \in 0 .. 255
  <2>1. f.opcode \in 0 .. 15
    BY FrameFacts, ZenonT(60)
  <2> QED
    BY <1>3, <2>1
<1>5. PICK x, y : x = 128 + f.opcode /\ y = F!Second(f) + (IF f.key = <<>> THEN 0 ELSE 128)
  OBVIOUS
<1>6. x \in 0 .. 255 /\ y \in 0 .. 255
  BY <1>2, <1>4, <1>5, Zenon
<1>7. <<x, y>> \in Seq(0 .. 255) /\ Len(<<x, y>>) = 2
  BY <1>6
<1>8. F!FirstBytes(f) = <<x, y>>
  BY <1>5, Zenon DEF F!FirstBytes
<1> QED
  BY <1>7, <1>8, Zenon

(* Where each field of an encoded frame stands. *)
FieldsOf(f, e) ==
  /\ e \in Seq(0 .. 255) /\ Len(e) = FrameLen(f)
  /\ \A j \in 1 .. 2 : e[j] = F!FirstBytes(f)[j]
  /\ \A j \in 1 .. f.extended : e[2 + j] = F!LengthBytes(f)[j]
  /\ \A j \in 1 .. Len(f.key) : e[KeyAt(f) + j] = f.key[j]
  /\ \A j \in 1 .. Len(f.text) : e[TextAtByte(f) + j] = F!Masked(f.text, f.key)[j]

LEMMA EncodeIs ==
  ASSUME NEW f, F!WellFormed(f), NEW e, e = F!Encode(f)
  PROVE  FieldsOf(f, e)
<1> DEFINE a == F!FirstBytes(f)
           b == F!LengthBytes(f)
           c == f.key
           d == F!Masked(f.text, f.key)
           n == f.extended
<1>0. c \in Seq(0 .. 255) /\ Len(c) \in Nat /\ n \in {0, 2, 8}
  BY FrameFacts
<1>1. a \in Seq(0 .. 255) /\ Len(a) = 2
  BY FirstBytesType, Zenon
<1>2. b \in Seq(0 .. 255) /\ Len(b) = n
  BY LengthBytesType, Zenon
<1>3. d \in Seq(0 .. 255) /\ Len(d) = Len(f.text)
  BY MaskedIs
<1> DEFINE u == a \o b
           v == u \o c
<1>4. u = a \o b /\ v = u \o c /\ e = v \o d
  BY Zenon DEF F!Encode
<1>5. Len(f.text) \in Nat
  BY FrameFacts
<1> HIDE DEF a, b, c, d, n, u, v
<1>e. FourStand(0 .. 255, e, a, b, c, d)
  BY <1>0, <1>1, <1>2, <1>3, <1>4, FourJoined, Zenon
<1>6. /\ e \in Seq(0 .. 255) /\ Len(e) = Len(a) + Len(b) + Len(c) + Len(d)
      /\ \A j \in 1 .. Len(a) : e[j] = a[j]
      /\ \A j \in 1 .. Len(b) : e[Len(a) + j] = b[j]
      /\ \A j \in 1 .. Len(c) : e[Len(a) + Len(b) + j] = c[j]
      /\ \A j \in 1 .. Len(d) : e[Len(a) + Len(b) + Len(c) + j] = d[j]
  BY <1>e, Zenon DEF FourStand
<1>7. /\ e \in Seq(0 .. 255) /\ Len(e) = 2 + n + Len(c) + Len(f.text)
      /\ \A j \in 1 .. 2 : e[j] = a[j]
      /\ \A j \in 1 .. n : e[2 + j] = b[j]
      /\ \A j \in 1 .. Len(c) : e[2 + n + j] = c[j]
      /\ \A j \in 1 .. Len(f.text) : e[2 + n + Len(c) + j] = d[j]
  BY <1>1, <1>2, <1>3, <1>6
<1> QED
  BY <1>7, Zenon DEF FieldsOf, FrameLen, KeyAt, TextAtByte, a, b, c, d, n
-----------------------------------------------------------------------------
(* What read_frame takes from the two first bytes and the length *)

SecondGiven(n, x, m) == n \in Nat /\ x \in {0, 2, 8} /\ (x = 0 => n <= 125) /\ m \in {0, 128}
SecondTells(b, n, x, m) == Extended(b) = x /\ (b >= 128 <=> m = 128) /\ (x = 0 => b % 128 = n)

LEMMA SecondReads ==
  ASSUME NEW n, NEW x, NEW m, SecondGiven(n, x, m), NEW b, b = SecondOf(n, x) + m
  PROVE  SecondTells(b, n, x, m)
<1>0. n \in Nat /\ x \in {0, 2, 8} /\ (x = 0 => n <= 125) /\ m \in {0, 128}
  BY Zenon DEF SecondGiven
<1>1. CASE x = 0
  BY <1>0, <1>1 DEF Extended, SecondOf, SecondTells
<1>2. CASE x = 2
  BY <1>0, <1>2 DEF Extended, SecondOf, SecondTells
<1>3. CASE x = 8
  BY <1>0, <1>3 DEF Extended, SecondOf, SecondTells
<1> QED
  BY <1>0, <1>1, <1>2, <1>3

LEMMA FirstBytesRead ==
  ASSUME NEW f, F!WellFormed(f), NEW a, a = F!FirstBytes(f)
  PROVE  /\ a[1] % 16 = f.opcode
         /\ Extended(a[2]) = f.extended
         /\ a[2] >= 128 <=> f.key # <<>>
         /\ f.extended = 0 => a[2] % 128 = Len(f.text)
<1> DEFINE n == Len(f.text)
           x == f.extended
           m == IF f.key = <<>> THEN 0 ELSE 128
           b == a[2]
           o == f.opcode
<1>1. a = <<128 + o, F!Second(f) + m>>
  BY Zenon DEF F!FirstBytes
<1>2. F!Second(f) = SecondOf(n, x)
  BY Zenon DEF F!Second, SecondOf
<1>3. m \in {0, 128} /\ (m = 128 <=> f.key # <<>>)
  <2>1. ~(0 = 128)
    OBVIOUS
  <2> QED
    BY <2>1, Zenon
<1>4. n \in Nat /\ x \in {0, 2, 8} /\ (x = 0 => n <= 125) /\ o \in 0 .. 15
  <2>1. n \in Nat /\ x \in {0, 2, 8}
    BY FrameFacts, ZenonT(60)
  <2>2. x = 0 => n <= 125
    BY FrameFacts, ZenonT(60)
  <2>3. o \in 0 .. 15
    BY FrameFacts, ZenonT(60)
  <2> QED
    BY <2>1, <2>2, <2>3, Zenon
<1> HIDE DEF n, x, m, o
<1>5. a[1] = 128 + o /\ b = F!Second(f) + m
  BY <1>1
<1> HIDE DEF b
<1>6. b = SecondOf(n, x) + m
  BY <1>2, <1>5, Zenon
<1>7. Extended(b) = x /\ (b >= 128 <=> m = 128) /\ (x = 0 => b % 128 = n)
  <2>1. SecondGiven(n, x, m)
    BY <1>3, <1>4, Zenon DEF SecondGiven
  <2>2. SecondTells(b, n, x, m)
    BY <1>6, <2>1, SecondReads, Zenon
  <2> QED
    BY <2>2, Zenon DEF SecondTells
<1>8. a[1] % 16 = o
  <2>1. \A y \in 0 .. 15 : (128 + y) % 16 = y
    OBVIOUS
  <2> QED
    BY <1>4, <1>5, <2>1, Zenon
<1> QED
  BY <1>3, <1>7, <1>8, Zenon DEF n, x, m, b, o

HeaderOf(f) == F!FirstBytes(f) \o F!LengthBytes(f)

HeaderStands(f, h) ==
  /\ h \in Seq(0 .. 255) /\ Len(h) = KeyAt(f)
  /\ h[1] = F!FirstBytes(f)[1] /\ h[2] = F!FirstBytes(f)[2]
  /\ \A j \in 1 .. f.extended : h[2 + j] = F!LengthBytes(f)[j]

LEMMA HeaderIs ==
  ASSUME NEW f, F!WellFormed(f), NEW h, h = HeaderOf(f)
  PROVE  HeaderStands(f, h)
<1> DEFINE a == F!FirstBytes(f)
           b == F!LengthBytes(f)
           x == f.extended
<1>1. a \in Seq(0 .. 255) /\ Len(a) = 2 /\ b \in Seq(0 .. 255) /\ Len(b) = x
  BY FirstBytesType, LengthBytesType, Zenon
<1>2. h = a \o b
  BY Zenon DEF HeaderOf
<1> HIDE DEF a, b, x
<1>3. Stands(0 .. 255, h, a, b)
  BY <1>1, <1>2, JoinIs, Zenon
<1>4. /\ h \in Seq(0 .. 255) /\ Len(h) = 2 + x
      /\ \A j \in 1 .. 2 : h[j] = a[j]
      /\ \A j \in 1 .. x : h[2 + j] = b[j]
  BY <1>1, <1>3, Zenon DEF Stands
<1>5. h[1] = a[1] /\ h[2] = a[2]
  BY <1>4
<1> QED
  BY <1>4, <1>5, Zenon DEF HeaderStands, KeyAt, a, b, x

(* The header is read as its frame was written. *)
LEMMA HeaderReads ==
  ASSUME NEW f, F!WellFormed(f), NEW h, h = HeaderOf(f)
  PROVE  /\ h \in Seq(0 .. 255)
         /\ F!ReadLength(h) = Len(f.text)
         /\ F!Extended(h[2]) = f.extended
         /\ F!IsMasked(h) <=> f.key # <<>>
         /\ h[1] % 16 = f.opcode
<1> DEFINE n == Len(f.text)
           x == f.extended
           a == F!FirstBytes(f)
           b == F!LengthBytes(f)
<1>1. /\ h \in Seq(0 .. 255) /\ h[1] = a[1] /\ h[2] = a[2]
      /\ \A j \in 1 .. x : h[2 + j] = b[j]
  BY HeaderIs, Zenon DEF HeaderStands
<1>2. /\ a[1] % 16 = f.opcode
      /\ Extended(a[2]) = x
      /\ a[2] >= 128 <=> f.key # <<>>
      /\ x = 0 => a[2] % 128 = n
  BY FirstBytesRead, Zenon
<1>3. /\ n \in Nat /\ n <= Memory /\ x \in {0, 2, 8}
      /\ x = 2 => n < 256 * 256
  BY FrameFacts, Zenon
<1>0. ~(2 = 0) /\ ~(8 = 0) /\ ~(8 = 2)
  OBVIOUS
<1>a. /\ x = 2 => b = <<Shift8(n) % 256, n % 256>>
      /\ x = 8 => b = Octets(HighHalf(n)) \o Octets(n)
  BY <1>0, SameOperators, Zenon DEF F!LengthBytes
<1> HIDE DEF n, x, a, b
<1>4. ReadLength(h) = n
  <2>1. CASE x = 0
    BY <1>1, <1>2, <2>1, Zenon DEF ReadLength
  <2>2. CASE x = 2
    <3>1. h[3] = Shift8(n) % 256 /\ h[4] = n % 256
      <4>1. h[2 + 1] = b[1] /\ h[2 + 2] = b[2]
        BY <1>1, <2>2
      <4>2. b[1] = Shift8(n) % 256 /\ b[2] = n % 256
        BY <1>a, <2>2
      <4> QED
        BY <4>1, <4>2
    <3>2. Length16(h) = n
      BY <1>3, <2>2, <3>1, Length16Inverts, Zenon
    <3> QED
      BY <1>0, <1>1, <1>2, <2>2, <3>2, Zenon DEF ReadLength
  <2>3. CASE x = 8
    <3> DEFINE u == Octets(HighHalf(n))
               v == Octets(n)
    <3>1. HighHalf(n) \in Nat
      BY <1>3, OctetsJoin
    <3>2. u \in Seq(0 .. 255) /\ Len(u) = 4 /\ v \in Seq(0 .. 255) /\ Len(v) = 4
      BY <1>3, <3>1, OctetsType, Zenon
    <3>3. b = u \o v
      BY <1>a, <2>3, Zenon
    <3>4. Stands(0 .. 255, b, u, v)
      BY <3>2, <3>3, JoinIs, Zenon
    <3> HIDE DEF u, v
    <3>5. /\ \A j \in 1 .. 4 : b[j] = u[j]
          /\ \A j \in 1 .. 4 : b[4 + j] = v[j]
      BY <3>2, <3>4, Zenon DEF Stands
    <3>6. \A j \in 1 .. 8 : h[2 + j] = b[j]
      BY <1>1, <2>3, Zenon
    <3>7. \A i \in 1 .. 4 : h[i + 2] = u[i] /\ h[i + 6] = v[i]
      <4> SUFFICES ASSUME NEW i \in 1 .. 4
                   PROVE  h[i + 2] = u[i] /\ h[i + 6] = v[i]
        OBVIOUS
      <4>1. i \in 1 .. 8 /\ 4 + i \in 1 .. 8 /\ 2 + i = i + 2 /\ 2 + (4 + i) = i + 6
        OBVIOUS
      <4>2. h[2 + i] = b[i] /\ h[2 + (4 + i)] = b[4 + i]
        BY <3>6, <4>1, Zenon
      <4>3. b[i] = u[i] /\ b[4 + i] = v[i]
        BY <3>5, Zenon
      <4> QED
        BY <4>1, <4>2, <4>3, Zenon
    <3>8. n \in 0 .. Memory
      BY <1>3, MemoryAssumption
    <3>9. Length64(h) = n
      BY <3>7, <3>8, Length64Inverts, Zenon DEF u, v
    <3> QED
      BY <1>0, <1>1, <1>2, <2>3, <3>9, Zenon DEF ReadLength
  <2> QED
    BY <1>3, <2>1, <2>2, <2>3
<1>5. Extended(h[2]) = x /\ (h[2] >= 128 <=> f.key # <<>>) /\ h[1] % 16 = f.opcode
  BY <1>1, <1>2, Zenon
<1> QED
  BY <1>1, <1>4, <1>5, SameOperators, Zenon DEF F!IsMasked, n, x

-----------------------------------------------------------------------------
(* The bytes of a frame in the stream *)

InBuffer(s, w, p, a) == /\ s \in Seq(0 .. 255) /\ p + Len(s) = a
                        /\ \A j \in 1 .. Len(s) : s[j] = w[p + j]

FieldAt(w, p, n, u) == \A j \in 1 .. n : w[p + j] = u[j]

Holds(u, w, p, n) == u \in Seq(0 .. 255) /\ Len(u) = n /\ FieldAt(w, p, n, u)

(* The first n bytes of the buffer are those at p, ...                     *)
LEMMA Taken ==
  ASSUME NEW s, NEW w, NEW p \in Nat, NEW a, InBuffer(s, w, p, a),
         NEW n \in Nat, n <= Len(s), NEW u, u = SubSeq(s, 1, n)
  PROVE  Holds(u, w, p, n)
<1>1. /\ s \in Seq(0 .. 255) /\ p + Len(s) = a
      /\ \A j \in 1 .. Len(s) : s[j] = w[p + j]
  BY Zenon DEF InBuffer
<1>2. Len(s) \in Nat /\ \A j \in 1 .. Len(s) : s[j] \in 0 .. 255
  BY <1>1, LenProperties, ElementOfSeq, Zenon
<1>3. /\ u \in Seq(0 .. 255) /\ Len(u) = n
      /\ \A j \in 1 .. n : u[j] = s[j]
  <2>1. \A j \in 1 .. n : s[j] \in 0 .. 255
    BY <1>2
  <2>2. 1 \in Int /\ n \in Int /\ (IF 1 <= n THEN n - 1 + 1 ELSE 0) = n
        /\ 1 .. n - 1 + 1 = 1 .. n
    OBVIOUS
  <2>3. /\ SubSeq(s, 1, n) \in Seq(0 .. 255)
        /\ Len(SubSeq(s, 1, n)) = IF 1 <= n THEN n - 1 + 1 ELSE 0
        /\ \A i \in 1 .. n - 1 + 1 : SubSeq(s, 1, n)[i] = s[1 + i - 1]
    BY <2>1, <2>2, SubSeqProperties
  <2>4. \A i \in 1 .. n : 1 + i - 1 = i
    OBVIOUS
  <2> QED
    BY <2>2, <2>3, <2>4
<1>4. \A j \in 1 .. n : w[p + j] = u[j]
  BY <1>1, <1>2, <1>3
<1> QED
  BY <1>3, <1>4, Zenon DEF Holds, FieldAt

(* ... and the others are those behind.                                    *)
LEMMA Dropped ==
  ASSUME NEW s, NEW w, NEW p \in Nat, NEW a, InBuffer(s, w, p, a),
         NEW n \in Nat, n <= Len(s), NEW r, r = SubSeq(s, n + 1, Len(s))
  PROVE  InBuffer(r, w, p + n, a)
<1>1. /\ s \in Seq(0 .. 255) /\ p + Len(s) = a
      /\ \A j \in 1 .. Len(s) : s[j] = w[p + j]
  BY Zenon DEF InBuffer
<1>2. Len(s) \in Nat /\ \A j \in 1 .. Len(s) : s[j] \in 0 .. 255
  BY <1>1, LenProperties, ElementOfSeq, Zenon
<1>4. /\ r \in Seq(0 .. 255) /\ Len(r) = Len(s) - n
      /\ \A j \in 1 .. Len(r) : r[j] = s[n + j]
  <2>1. \A j \in n + 1 .. Len(s) : s[j] \in 0 .. 255
    BY <1>2
  <2>2. n + 1 \in Int /\ Len(s) \in Int
    BY <1>2
  <2>3. /\ SubSeq(s, n + 1, Len(s)) \in Seq(0 .. 255)
        /\ Len(SubSeq(s, n + 1, Len(s))) =
             IF n + 1 <= Len(s) THEN Len(s) - (n + 1) + 1 ELSE 0
        /\ \A i \in 1 .. Len(s) - (n + 1) + 1 :
             SubSeq(s, n + 1, Len(s))[i] = s[(n + 1) + i - 1]
    BY <2>1, <2>2, SubSeqProperties
  <2>4. Len(r) = Len(s) - n
    BY <1>2, <2>3
  <2>5. \A j \in 1 .. Len(r) : j \in 1 .. Len(s) - (n + 1) + 1 /\ (n + 1) + j - 1 = n + j
    BY <1>2, <2>4
  <2> QED
    BY <2>3, <2>4, <2>5, Zenon
<1>6. (p + n) + Len(r) = a
  <2>1. Len(r) \in Int /\ Len(s) \in Int /\ (p + n) + (Len(s) - n) = p + Len(s)
    BY <1>2, <1>4
  <2> QED
    BY <1>1, <1>4, <2>1, Zenon
<1>7. \A j \in 1 .. Len(r) : r[j] = w[(p + n) + j]
  <2>1. \A j \in 1 .. Len(r) : n + j \in 1 .. Len(s) /\ p + (n + j) = (p + n) + j
    BY <1>2, <1>4
  <2> QED
    BY <1>1, <1>4, <2>1, Zenon
<1> QED
  BY <1>4, <1>6, <1>7, Zenon DEF InBuffer

(* Where frame f begins, and where its fields stand. *)
FrameStands(w, b, f) ==
  /\ F!WellFormed(f) /\ b \in Nat
  /\ FieldAt(w, b, 2, F!FirstBytes(f))
  /\ FieldAt(w, b + 2, f.extended, F!LengthBytes(f))
  /\ FieldAt(w, b + KeyAt(f), Len(f.key), f.key)
  /\ FieldAt(w, b + TextAtByte(f), Len(f.text), F!Masked(f.text, f.key))

LEMMA FieldOf ==
  ASSUME NEW w, NEW e, NEW b \in Nat, NEW l \in Nat, FieldAt(w, b, l, e),
         NEW o \in Nat, NEW n \in Nat, o + n <= l, NEW u, FieldAt(e, o, n, u)
  PROVE  FieldAt(w, b + o, n, u)
<1>0. /\ \A j \in 1 .. l : w[b + j] = e[j]
      /\ \A j \in 1 .. n : e[o + j] = u[j]
  BY Zenon DEF FieldAt
<1>1. \A j \in 1 .. n : o + j \in 1 .. l /\ b + (o + j) = (b + o) + j
  OBVIOUS
<1>2. \A j \in 1 .. n : w[b + (o + j)] = e[o + j] /\ e[o + j] = u[j]
  BY <1>0, <1>1, Zenon
<1>3. \A j \in 1 .. n : w[(b + o) + j] = u[j]
  BY <1>1, <1>2, Zenon
<1> QED
  BY <1>3, Zenon DEF FieldAt

LEMMA FrameSizes ==
  ASSUME NEW f, F!WellFormed(f)
  PROVE  /\ KeyAt(f) \in Nat /\ TextAtByte(f) \in Nat /\ FrameLen(f) \in Nat
         /\ KeyAt(f) = 2 + f.extended
         /\ TextAtByte(f) = KeyAt(f) + Len(f.key)
         /\ FrameLen(f) = TextAtByte(f) + Len(f.text)
         /\ f.extended \in Nat /\ Len(f.key) \in Nat /\ Len(f.text) \in Nat
<1> DEFINE x == f.extended
           k == Len(f.key)
           t == Len(f.text)
<1>1. x \in {0, 2, 8} /\ k \in {0, 4} /\ t \in Nat
  BY FrameFacts, Zenon
<1>2. KeyAt(f) = 2 + x /\ TextAtByte(f) = 2 + x + k /\ FrameLen(f) = 2 + x + k + t
  BY Zenon DEF KeyAt, TextAtByte, FrameLen
<1> HIDE DEF x, k, t
<1>3. x \in Nat /\ k \in Nat /\ t \in Nat /\ KeyAt(f) \in Nat
      /\ TextAtByte(f) \in Nat /\ FrameLen(f) \in Nat
      /\ TextAtByte(f) = KeyAt(f) + k /\ FrameLen(f) = TextAtByte(f) + t
  BY <1>1, <1>2
<1> QED
  BY <1>2, <1>3, Zenon DEF x, k, t

LEMMA FramePlaced ==
  ASSUME NEW f, F!WellFormed(f), NEW w, NEW b \in Nat,
         FieldAt(w, b, FrameLen(f), F!Encode(f))
  PROVE  FrameStands(w, b, f)
<1> DEFINE e == F!Encode(f)
           l == FrameLen(f)
           x == f.extended
           k == Len(f.key)
           t == Len(f.text)
           ka == KeyAt(f)
           ta == TextAtByte(f)
<1>0. e = F!Encode(f)
  OBVIOUS
<1> HIDE DEF e, x, k, t, ka, ta
<1>1. /\ \A j \in 1 .. 2 : e[j] = F!FirstBytes(f)[j]
      /\ FieldAt(e, 2, x, F!LengthBytes(f))
      /\ FieldAt(e, ka, k, f.key)
      /\ FieldAt(e, ta, t, F!Masked(f.text, f.key))
  <2>1. FieldsOf(f, e)
    BY <1>0, EncodeIs, Zenon
  <2> QED
    BY <2>1, Zenon DEF FieldsOf, FieldAt, x, k, t, ka, ta
<1>2. /\ ka \in Nat /\ ta \in Nat /\ l \in Nat /\ ka = 2 + x /\ ta = ka + k /\ l = ta + t
      /\ x \in Nat /\ k \in Nat /\ t \in Nat
  BY FrameSizes, Zenon DEF x, k, t, ka, ta
<1>3. FieldAt(w, b, l, e)
  BY <1>0, Zenon
<1> HIDE DEF l
<1>4. /\ 0 + 2 <= l /\ 2 + x <= l /\ ka + k <= l /\ ta + t <= l
      /\ 0 \in Nat /\ 2 \in Nat /\ b + 0 = b /\ \A j \in 1 .. 2 : 0 + j = j
  BY <1>2
<1>5. FieldAt(e, 0, 2, F!FirstBytes(f))
  BY <1>1, <1>4, Zenon DEF FieldAt
<1>6. FieldAt(w, b + 0, 2, F!FirstBytes(f))
  BY <1>2, <1>3, <1>4, <1>5, FieldOf, Zenon
<1>7. FieldAt(w, b + 2, x, F!LengthBytes(f))
  BY <1>1, <1>2, <1>3, <1>4, FieldOf, Zenon
<1>8. FieldAt(w, b + ka, k, f.key)
  BY <1>1, <1>2, <1>3, <1>4, FieldOf, Zenon
<1>9. FieldAt(w, b + ta, t, F!Masked(f.text, f.key))
  BY <1>1, <1>2, <1>3, <1>4, FieldOf, Zenon
<1> QED
  BY <1>4, <1>6, <1>7, <1>8, <1>9, Zenon DEF FrameStands, x, k, t, ka, ta

(* A field taken from the buffer is the field of the frame. *)
LEMMA FieldTaken ==
  ASSUME NEW s, NEW w, NEW p \in Nat, NEW a, InBuffer(s, w, p, a),
         NEW n \in Nat, n <= Len(s), NEW v, Holds(v, w, p, n)
  PROVE  SubSeq(s, 1, n) = v
<1>1. PICK u : u = SubSeq(s, 1, n)
  BY Zenon
<1>2. Holds(u, w, p, n)
  BY <1>1, Taken, Zenon
<1>3. u \in Seq(0 .. 255) /\ Len(u) = n /\ v \in Seq(0 .. 255) /\ Len(v) = n
  BY <1>2, Zenon DEF Holds
<1>4. \A j \in 1 .. n : u[j] = v[j]
  BY <1>2, Zenon DEF Holds, FieldAt
<1> QED
  BY <1>1, <1>3, <1>4, SeqEqual, Zenon

-----------------------------------------------------------------------------
(* read_frame and the stream *)

(* The bytes written are those of the frames sent, one behind the other. *)
WrittenInv ==
  /\ sent \in Seq(Frames)
  /\ written \in Seq(0 .. 255)
  /\ ends \in Seq(Nat) /\ Len(ends) = Len(sent)
  /\ \A k \in 1 .. Len(sent) :
       /\ ends[k] = F!Begins(k) + FrameLen(sent[k])
       /\ FieldAt(written, F!Begins(k), FrameLen(sent[k]), F!Encode(sent[k]))
  /\ \A k \in 1 .. Len(sent) + 1 : \A m \in 1 .. k - 1 : ends[m] <= F!Begins(k)
  /\ F!Begins(Len(sent) + 1) = Len(written)
  /\ arrived \in 0 .. Len(written)

(* As long as no frame was cut, what has arrived is whole frames. *)
CutInv == ~split => arrived = 0 \/ \E k \in 1 .. Len(ends) : ends[k] = arrived

(* The buffer holds the bytes from p on that have arrived. *)
InPlace(p) == InBuffer(stream, written, p, arrived)

(* Where in frame f, which begins behind b bytes, a call has come to. *)
AtIdle(p, b) == reader_at = "idle" /\ p = b /\ header = <<>> /\ key = <<>> /\ payload = <<>>

AtLength(p, b, f) == /\ reader_at = "length" /\ p = b + 2
                     /\ f.extended # 0
                     /\ header = F!FirstBytes(f) /\ key = <<>> /\ payload = <<>>

AtKey(p, b, f) == /\ reader_at = "key" /\ p = b + KeyAt(f)
                  /\ f.key # <<>>
                  /\ header = HeaderOf(f) /\ key = <<>> /\ payload = <<>>

AtPayload(p, b, f) ==
  /\ reader_at = "payload" /\ p = b + TextAtByte(f) + Len(payload)
  /\ header = HeaderOf(f) /\ key = f.key
  /\ payload \in Seq(0 .. 255) /\ Len(payload) <= Len(f.text)
  /\ \A j \in 1 .. Len(payload) : payload[j] = F!Masked(f.text, f.key)[j]

InFrame(p, b, f) == AtLength(p, b, f) \/ AtKey(p, b, f) \/ AtPayload(p, b, f)

RelayedInv == /\ relayed \in Seq(Seq(0 .. 255))
              /\ Len(relayed) <= Len(sent)
              /\ \A k \in 1 .. Len(relayed) : relayed[k] = F!Said(sent[k])

Place(p, k) ==
  \/ AtIdle(p, F!Begins(k))
  \/ k <= Len(sent) /\ InFrame(p, F!Begins(k), sent[k])

(* A call that no recv has cut short is where the frames say it is. *)
ReaderInv == ~torn => RelayedInv /\ \E p \in Nat : InPlace(p) /\ Place(p, Len(relayed) + 1)

FrameInv == /\ WrittenInv /\ CutInv /\ ReaderInv
            /\ split \in BOOLEAN /\ torn \in BOOLEAN
            /\ F!TornOnlyBySplit

-----------------------------------------------------------------------------
(* What the invariant says of the frame a call is in *)

LEMMA BeginsType ==
  ASSUME WrittenInv
  PROVE  /\ Len(sent) \in Nat /\ Len(written) \in Nat /\ Len(ends) = Len(sent)
         /\ \A k \in 1 .. Len(sent) : ends[k] \in Nat
         /\ \A k \in 1 .. Len(sent) + 1 : F!Begins(k) \in Nat /\ F!Begins(k) <= Len(written)
         /\ arrived \in Nat /\ arrived <= Len(written)
<1>1. /\ sent \in Seq(Frames) /\ written \in Seq(0 .. 255)
      /\ ends \in Seq(Nat) /\ Len(ends) = Len(sent)
      /\ F!Begins(Len(sent) + 1) = Len(written)
      /\ arrived \in 0 .. Len(written)
  BY Zenon DEF WrittenInv
<1>2. \A k \in 1 .. Len(sent) + 1 : \A m \in 1 .. k - 1 : ends[m] <= F!Begins(k)
  BY Zenon DEF WrittenInv
<1>3. Len(sent) \in Nat /\ Len(written) \in Nat
  BY <1>1, LenProperties, Zenon
<1>4. \A k \in 1 .. Len(sent) : ends[k] \in Nat
  BY <1>1, ElementOfSeq, Zenon
<1>5. \A k \in 1 .. Len(sent) : ends[k] <= Len(written)
  <2>1. Len(sent) + 1 \in 1 .. Len(sent) + 1 /\ (Len(sent) + 1) - 1 = Len(sent)
    BY <1>3
  <2> QED
    BY <1>1, <1>2, <2>1, Zenon
<1>6. \A k \in 1 .. Len(sent) + 1 : F!Begins(k) \in Nat /\ F!Begins(k) <= Len(written)
  <2> SUFFICES ASSUME NEW k \in 1 .. Len(sent) + 1
               PROVE  F!Begins(k) \in Nat /\ F!Begins(k) <= Len(written)
    BY Zenon
  <2>1. CASE k = 1
    <3>1. F!Begins(k) = 0
      BY <2>1, Zenon DEF F!Begins
    <3> QED
      BY <1>3, <3>1
  <2>2. CASE k # 1
    <3>1. k - 1 \in 1 .. Len(sent)
      BY <1>3, <2>2
    <3>2. F!Begins(k) = ends[k - 1]
      BY <2>2, Zenon DEF F!Begins
    <3> QED
      BY <1>4, <1>5, <3>1, <3>2, Zenon
  <2> QED
    BY <2>1, <2>2, Zenon
<1>7. arrived \in Nat /\ arrived <= Len(written)
  BY <1>1, <1>3
<1> QED
  BY <1>1, <1>3, <1>4, <1>6, <1>7, Zenon

LEMMA FrameAt ==
  ASSUME WrittenInv, NEW k \in 1 .. Len(sent), NEW f, f = sent[k], NEW b, b = F!Begins(k)
  PROVE  /\ F!WellFormed(f) /\ FrameStands(written, b, f)
         /\ ends[k] = b + FrameLen(f)
<1>1. /\ sent \in Seq(Frames)
      /\ ends[k] = b + FrameLen(f)
      /\ FieldAt(written, b, FrameLen(f), F!Encode(f))
  BY Zenon DEF WrittenInv
<1>2. f \in Frames
  BY <1>1, ElementOfSeq, Zenon
<1>3. F!WellFormed(f)
  BY <1>2, FramesAssumption, Zenon
<1>4. b \in Nat
  <2>1. k \in 1 .. Len(sent) + 1
    BY BeginsType
  <2> QED
    BY <2>1, BeginsType, Zenon
<1> QED
  BY <1>1, <1>3, <1>4, FramePlaced, Zenon

(* Bytes behind all the frames that were read are bytes of a frame. *)
LEMMA SomeFrame ==
  ASSUME WrittenInv, NEW k \in 1 .. Len(sent) + 1, F!Begins(k) < arrived
  PROVE  k \in 1 .. Len(sent)
<1>1. Len(sent) \in Nat /\ Len(written) \in Nat /\ arrived \in Nat /\ arrived <= Len(written)
  BY BeginsType, Zenon
<1>2. k # Len(sent) + 1
  <2> SUFFICES ASSUME k = Len(sent) + 1 PROVE FALSE
    OBVIOUS
  <2>1. F!Begins(k) = Len(written)
    BY Zenon DEF WrittenInv
  <2> QED
    BY <1>1, <2>1
<1> QED
  BY <1>1, <1>2

(* As long as no frame was cut, one that has begun to arrive has arrived. *)
LEMMA WholeFrame ==
  ASSUME WrittenInv, CutInv, ~split, NEW k \in 1 .. Len(sent), F!Begins(k) < arrived
  PROVE  ends[k] <= arrived
<1>1. /\ Len(sent) \in Nat /\ Len(ends) = Len(sent) /\ arrived \in Nat
      /\ \A m \in 1 .. Len(sent) : ends[m] \in Nat
      /\ \A m \in 1 .. Len(sent) + 1 : F!Begins(m) \in Nat
  BY BeginsType, Zenon
<1>2. k \in 1 .. Len(sent) + 1
  BY <1>1
<1>3. arrived # 0
  BY <1>1, <1>2
<1>4. PICK m \in 1 .. Len(sent) : ends[m] = arrived
  BY <1>1, <1>3, Zenon DEF CutInv
<1>5. ends[m] \in Nat /\ ends[k] \in Nat /\ F!Begins(k) \in Nat /\ F!Begins(m) \in Nat
  <2>1. m \in 1 .. Len(sent) + 1
    BY <1>1
  <2> QED
    BY <1>1, <1>2, <2>1, Zenon
<1>6. \A i \in 1 .. Len(sent) + 1 : \A j \in 1 .. i - 1 : ends[j] <= F!Begins(i)
  BY Zenon DEF WrittenInv
<1>7. CASE m < k
  <2>1. m \in 1 .. k - 1
    BY <1>7
  <2>2. ends[m] <= F!Begins(k)
    BY <1>2, <1>6, <2>1, Zenon
  <2> QED
    BY <1>4, <1>5, <2>2
<1>8. CASE m = k
  BY <1>4, <1>5, <1>8
<1>9. CASE k < m
  <2>1. k \in 1 .. m - 1 /\ m \in 1 .. Len(sent) + 1
    BY <1>1, <1>9
  <2>2. ends[k] <= F!Begins(m)
    BY <1>6, <2>1, Zenon
  <2>3. PICK f : f = sent[m]
    BY Zenon
  <2>4. ends[m] = F!Begins(m) + FrameLen(f) /\ F!WellFormed(f)
    BY <2>3, FrameAt, Zenon
  <2>5. FrameLen(f) \in Nat
    BY <2>4, FrameSizes, Zenon
  <2> QED
    BY <1>4, <1>5, <2>2, <2>4, <2>5
<1> QED
  BY <1>7, <1>8, <1>9

-----------------------------------------------------------------------------
(* The steps of read_frame *)

LEMMA SameClient ==
  ASSUME UNCHANGED F!client
  PROVE  /\ WrittenInv => WrittenInv'
         /\ CutInv => CutInv'
         /\ \A k : F!Begins(k)' = F!Begins(k)
         /\ sent' = sent /\ written' = written /\ ends' = ends
         /\ arrived' = arrived /\ split' = split
<1>1. /\ sent' = sent /\ written' = written /\ ends' = ends
      /\ arrived' = arrived /\ split' = split
  BY Zenon DEF F!client
<1>2. \A k : F!Begins(k)' = F!Begins(k)
  BY <1>1 DEF F!Begins
<1>3. WrittenInv => WrittenInv'
  BY <1>1, <1>2 DEF WrittenInv
<1>4. CutInv => CutInv'
  BY <1>1 DEF CutInv
<1> QED
  BY <1>1, <1>2, <1>3, <1>4, Zenon

(* What a step of read_frame has to keep. *)
LEMMA ReaderStep ==
  ASSUME FrameInv, UNCHANGED F!client, torn' = torn,
         ~torn => RelayedInv' /\ \E p \in Nat : InPlace(p)' /\ Place(p, Len(relayed) + 1)'
  PROVE  FrameInv'
<1>1. /\ WrittenInv /\ CutInv /\ split \in BOOLEAN /\ torn \in BOOLEAN
      /\ torn => split
  BY Zenon DEF FrameInv, F!TornOnlyBySplit
<1>2. WrittenInv' /\ CutInv' /\ split' = split
  BY <1>1, SameClient, Zenon
<1>3. ReaderInv'
  BY Zenon DEF ReaderInv
<1> QED
  BY <1>1, <1>2, <1>3, Zenon DEF FrameInv, F!TornOnlyBySplit

(* A call is in frame f, the k-th, which begins behind b bytes. *)
Reads(p, k, b, f) ==
  /\ p \in Nat /\ InBuffer(stream, written, p, arrived)
  /\ k \in 1 .. Len(sent) /\ k = Len(relayed) + 1
  /\ b = F!Begins(k) /\ b \in Nat /\ f = sent[k]
  /\ F!WellFormed(f) /\ FrameStands(written, b, f)
  /\ RelayedInv

LEMMA NextFrame ==
  ASSUME WrittenInv, RelayedInv
  PROVE  Len(relayed) \in Nat /\ Len(relayed) + 1 \in 1 .. Len(sent) + 1
<1>1. relayed \in Seq(Seq(0 .. 255)) /\ Len(relayed) <= Len(sent)
  BY Zenon DEF RelayedInv
<1>2. Len(relayed) \in Nat
  BY <1>1, LenProperties, Zenon
<1>3. Len(sent) \in Nat
  BY BeginsType, Zenon
<1> QED
  BY <1>1, <1>2, <1>3

LEMMA ReadsFrame ==
  ASSUME WrittenInv, RelayedInv, NEW k, k = Len(relayed) + 1, k <= Len(sent),
         NEW p \in Nat, InPlace(p)
  PROVE  Reads(p, k, F!Begins(k), sent[k])
<1>1. k \in 1 .. Len(sent) + 1
  BY NextFrame, Zenon
<1>2. k \in 1 .. Len(sent)
  BY <1>1, BeginsType
<1>3. F!Begins(k) \in Nat
  BY <1>1, BeginsType, Zenon
<1>4. F!WellFormed(sent[k]) /\ FrameStands(written, F!Begins(k), sent[k])
  BY <1>2, FrameAt, Zenon
<1> QED
  BY <1>2, <1>3, <1>4, Zenon DEF Reads, InPlace

LEMMA InAFrame ==
  ASSUME FrameInv, ~torn, reader_at # "idle"
  PROVE  \E p, k, b, f : Reads(p, k, b, f) /\ InFrame(p, b, f)
<1>1. /\ WrittenInv /\ RelayedInv
      /\ \E p \in Nat : InPlace(p) /\ Place(p, Len(relayed) + 1)
  BY Zenon DEF FrameInv, ReaderInv
<1>2. PICK p \in Nat : InPlace(p) /\ Place(p, Len(relayed) + 1)
  BY <1>1, Zenon
<1>3. PICK k : k = Len(relayed) + 1
  BY Zenon
<1>4. k <= Len(sent) /\ InFrame(p, F!Begins(k), sent[k])
  BY <1>2, <1>3, Zenon DEF Place, AtIdle
<1>5. Reads(p, k, F!Begins(k), sent[k])
  BY <1>1, <1>2, <1>3, <1>4, ReadsFrame, Zenon
<1> QED
  BY <1>4, <1>5, Zenon

LEMMA BetweenFrames ==
  ASSUME FrameInv, ~torn, reader_at = "idle", stream # <<>>
  PROVE  \E k, b, f : /\ Reads(b, k, b, f) /\ b < arrived
                      /\ header = <<>> /\ key = <<>> /\ payload = <<>>
<1>1. /\ WrittenInv /\ RelayedInv
      /\ \E p \in Nat : InPlace(p) /\ Place(p, Len(relayed) + 1)
  BY Zenon DEF FrameInv, ReaderInv
<1>2. PICK p \in Nat : InPlace(p) /\ Place(p, Len(relayed) + 1)
  BY <1>1, Zenon
<1>3. PICK k : k = Len(relayed) + 1
  BY Zenon
<1>4. AtIdle(p, F!Begins(k))
  <2>1. reader_at # "length" /\ reader_at # "key" /\ reader_at # "payload"
    OBVIOUS
  <2> QED
    BY <1>2, <1>3, <2>1, Zenon DEF Place, InFrame, AtLength, AtKey, AtPayload
<1>5. p = F!Begins(k) /\ header = <<>> /\ key = <<>> /\ payload = <<>>
  BY <1>4, Zenon DEF AtIdle
<1>6. p < arrived
  <2>1. stream \in Seq(0 .. 255) /\ p + Len(stream) = arrived
    BY <1>2, Zenon DEF InPlace, InBuffer
  <2>2. Len(stream) \in Nat \ {0}
    BY <2>1, EmptySeq, Zenon
  <2> QED
    BY <2>1, <2>2
<1>7. k \in 1 .. Len(sent) + 1
  BY <1>1, <1>3, NextFrame, Zenon
<1>8. k <= Len(sent)
  <2>1. k \in 1 .. Len(sent)
    BY <1>1, <1>5, <1>6, <1>7, SomeFrame, Zenon
  <2>2. Len(sent) \in Nat
    BY <1>1, BeginsType, Zenon
  <2> QED
    BY <2>1, <2>2
<1>9. Reads(p, k, F!Begins(k), sent[k])
  BY <1>1, <1>2, <1>3, <1>8, ReadsFrame, Zenon
<1> QED
  BY <1>5, <1>6, <1>9, Zenon

(* A call that goes on in its frame. *)
LEMMA KeepReading ==
  ASSUME FrameInv, UNCHANGED F!client, torn' = torn, relayed' = relayed,
         NEW p, NEW k, NEW b, NEW f, Reads(p, k, b, f),
         NEW q \in Nat, InBuffer(stream', written, q, arrived), InFrame(q, b, f)'
  PROVE  FrameInv'
<1>1. /\ k \in 1 .. Len(sent) /\ k = Len(relayed) + 1 /\ b = F!Begins(k) /\ f = sent[k]
      /\ RelayedInv
  BY Zenon DEF Reads
<1>2. /\ sent' = sent /\ written' = written /\ arrived' = arrived
      /\ F!Begins(k)' = F!Begins(k)
  BY SameClient, Zenon
<1>3. RelayedInv'
  BY <1>1, <1>2 DEF RelayedInv
<1>4. InPlace(q)'
  BY <1>2 DEF InPlace
<1>5. Place(q, k)'
  <2>1. k <= Len(sent) /\ Len(sent') = Len(sent)
    BY <1>1, <1>2
  <2>2. F!Begins(k)' = b /\ sent'[k] = f
    BY <1>1, <1>2, Zenon
  <2>3. k <= Len(sent') /\ InFrame(q, b, f)'
    BY <2>1, Zenon
  <2> QED
    BY <2>2, <2>3 DEF Place
<1>6. Place(q, Len(relayed) + 1)'
  BY <1>1, <1>5
<1> QED
  BY <1>3, <1>4, <1>6, ReaderStep, Zenon

(* With its header, a call goes on to the key or to the text. *)
LEMMA AfterHeader ==
  ASSUME NEW f, F!WellFormed(f), NEW b \in Nat, NEW q, q = b + KeyAt(f),
         header' = HeaderOf(f), key' = <<>>, payload' = <<>>,
         reader_at' = IF f.key # <<>> THEN "key" ELSE "payload"
  PROVE  InFrame(q, b, f)'
<1>1. CASE f.key # <<>>
  <2>1. AtKey(q, b, f)'
    BY <1>1 DEF AtKey
  <2> QED
    BY <2>1 DEF InFrame
<1>2. CASE f.key = <<>>
  <2>1. f.text \in Seq(0 .. 255) /\ Len(f.text) \in Nat
    BY FrameFacts, Zenon
  <2>2. Len(<<>>) = 0 /\ <<>> \in Seq(0 .. 255) /\ 0 <= Len(f.text) /\ 1 .. 0 = {}
    BY <2>1
  <2>3. Len(payload') = 0 /\ payload' \in Seq(0 .. 255)
    BY <2>2, Zenon
  <2>4. q = b + TextAtByte(f) + Len(payload')
    <3>1. TextAtByte(f) = KeyAt(f) + Len(f.key) /\ KeyAt(f) \in Nat
      BY FrameSizes, Zenon
    <3>2. Len(f.key) = 0
      BY <1>2, <2>2, Zenon
    <3> QED
      BY <2>3, <3>1, <3>2
  <2>5. \A j \in 1 .. Len(payload') : payload'[j] = F!Masked(f.text, f.key)[j]
    BY <2>2, <2>3, Zenon
  <2>6. Len(payload') <= Len(f.text)
    BY <2>2, <2>3, Zenon
  <2>7. reader_at' = "payload" /\ key' = f.key
    BY <1>2, Zenon
  <2>8. AtPayload(q, b, f)'
    BY <2>3, <2>4, <2>5, <2>6, <2>7 DEF AtPayload
  <2> QED
    BY <2>8 DEF InFrame
<1> QED
  BY <1>1, <1>2, Zenon

(* Without an extended length the first bytes are the header. *)
LEMMA ShortHeader ==
  ASSUME NEW f, F!WellFormed(f), f.extended = 0
  PROVE  HeaderOf(f) = F!FirstBytes(f)
<1>1. F!LengthBytes(f) = <<>>
  BY Zenon DEF F!LengthBytes
<1> QED
  BY <1>1, FirstBytesType, ConcatEmptySeq, Zenon DEF HeaderOf

LEMMA StepReadHeader ==
  ASSUME FrameInv, F!ReadHeader
  PROVE  FrameInv'
<1>1. /\ reader_at = "idle" /\ Len(stream) >= 2
      /\ header' = SubSeq(stream, 1, 2) /\ stream' = SubSeq(stream, 2 + 1, Len(stream))
      /\ reader_at' = IF F!Extended(stream[2]) = 0 THEN F!AfterLength(stream) ELSE "length"
      /\ UNCHANGED F!client
      /\ key' = key /\ payload' = payload /\ relayed' = relayed /\ torn' = torn
  BY Zenon DEF F!ReadHeader, F!Prefix, F!Drop
<1>2. CASE torn
  BY <1>1, <1>2, ReaderStep, Zenon
<1>3. CASE ~torn
  <2>1. stream # <<>>
    BY <1>1
  <2>2. PICK k, b, f : /\ Reads(b, k, b, f)
                       /\ header = <<>> /\ key = <<>> /\ payload = <<>>
    BY <1>1, <1>3, <2>1, BetweenFrames, Zenon
  <2>3. /\ InBuffer(stream, written, b, arrived) /\ b \in Nat
        /\ F!WellFormed(f) /\ FrameStands(written, b, f)
    BY <2>2, Zenon DEF Reads
  <2>4. FieldAt(written, b, 2, F!FirstBytes(f))
    BY <2>3, Zenon DEF FrameStands
  <2>5. 2 \in Nat /\ 2 <= Len(stream) /\ b + 2 \in Nat
    <3>1. stream \in Seq(0 .. 255)
      BY <2>3, Zenon DEF InBuffer
    <3>2. Len(stream) \in Nat
      BY <3>1, LenProperties, Zenon
    <3> QED
      BY <1>1, <2>3, <3>2
  <2>6. header' = F!FirstBytes(f)
    <3>1. F!FirstBytes(f) \in Seq(0 .. 255) /\ Len(F!FirstBytes(f)) = 2
      BY <2>3, FirstBytesType, Zenon
    <3>2. Holds(F!FirstBytes(f), written, b, 2)
      BY <2>4, <3>1, Zenon DEF Holds
    <3>3. SubSeq(stream, 1, 2) = F!FirstBytes(f)
      BY <2>3, <2>5, <3>2, FieldTaken, Zenon
    <3> QED
      BY <1>1, <3>3, Zenon
  <2>7. InBuffer(stream', written, b + 2, arrived)
    BY <1>1, <2>3, <2>5, Dropped, Zenon
  <2>8. stream[2] = F!FirstBytes(f)[2]
    <3>1. 2 \in 1 .. Len(stream) /\ 2 \in 1 .. 2
      BY <2>5
    <3>2. \A j \in 1 .. Len(stream) : stream[j] = written[b + j]
      BY <2>3, Zenon DEF InBuffer
    <3>3. \A j \in 1 .. 2 : written[b + j] = F!FirstBytes(f)[j]
      BY <2>4, Zenon DEF FieldAt
    <3>4. stream[2] = written[b + 2] /\ written[b + 2] = F!FirstBytes(f)[2]
      BY <3>1, <3>2, <3>3
    <3> QED
      BY <3>4
  <2>9. PICK x, y : x = f.extended /\ y = stream[2]
    BY Zenon
  <2>10. F!Extended(y) = x /\ (y >= 128 <=> f.key # <<>>)
    BY <2>3, <2>8, <2>9, FirstBytesRead, SameOperators, Zenon
  <2>11. KeyAt(f) = 2 + x
    BY <2>9, Zenon DEF KeyAt
  <2>12. InFrame(b + 2, b, f)'
    <3>1. CASE x = 0
      <4>1. reader_at' = IF f.key # <<>> THEN "key" ELSE "payload"
        BY <1>1, <2>9, <2>10, <3>1, Zenon DEF F!AfterLength, F!IsMasked
      <4>2. header' = HeaderOf(f)
        BY <2>3, <2>6, <2>9, <3>1, ShortHeader, Zenon
      <4>3. b + 2 = b + KeyAt(f)
        BY <2>11, <3>1
      <4>4. key' = <<>> /\ payload' = <<>>
        BY <1>1, <2>2, Zenon
      <4> QED
        BY <2>3, <4>1, <4>2, <4>3, <4>4, AfterHeader, Zenon
    <3>2. CASE x # 0
      <4>1. reader_at' = "length"
        BY <1>1, <2>9, <2>10, <3>2, Zenon
      <4>2. key' = <<>> /\ payload' = <<>> /\ f.extended # 0
        BY <1>1, <2>2, <2>9, <3>2, Zenon
      <4>3. AtLength(b + 2, b, f)'
        BY <2>6, <4>1, <4>2 DEF AtLength
      <4> QED
        BY <4>3 DEF InFrame
    <3> QED
      BY <3>1, <3>2, Zenon
  <2> QED
    BY <1>1, <2>2, <2>5, <2>7, <2>12, KeepReading, Zenon
<1> QED
  BY <1>2, <1>3, Zenon

LEMMA StepReadExtended ==
  ASSUME FrameInv, F!ReadExtended
  PROVE  FrameInv'
<1>1. /\ reader_at = "length"
      /\ Len(stream) >= F!Extended(header[2])
      /\ header' = header \o SubSeq(stream, 1, F!Extended(header[2]))
      /\ stream' = SubSeq(stream, F!Extended(header[2]) + 1, Len(stream))
      /\ reader_at' = F!AfterLength(header)
      /\ UNCHANGED F!client
      /\ key' = key /\ payload' = payload /\ relayed' = relayed /\ torn' = torn
  BY Zenon DEF F!ReadExtended, F!Prefix, F!Drop
<1>2. CASE torn
  BY <1>1, <1>2, ReaderStep, Zenon
<1>3. CASE ~torn
  <2>0. reader_at # "idle" /\ reader_at # "key" /\ reader_at # "payload"
    BY <1>1
  <2>1. PICK p, k, b, f : Reads(p, k, b, f) /\ InFrame(p, b, f)
    BY <1>3, <2>0, InAFrame, Zenon
  <2>2. p = b + 2 /\ header = F!FirstBytes(f) /\ key = <<>> /\ payload = <<>>
    BY <2>0, <2>1, Zenon DEF InFrame, AtLength, AtKey, AtPayload
  <2>3. /\ InBuffer(stream, written, p, arrived) /\ b \in Nat /\ p \in Nat
        /\ F!WellFormed(f) /\ FrameStands(written, b, f)
    BY <2>1, Zenon DEF Reads
  <2>4. PICK x, y : x = f.extended /\ y = header[2]
    BY Zenon
  <2>5. F!Extended(y) = x /\ (y >= 128 <=> f.key # <<>>)
    BY <2>2, <2>3, <2>4, FirstBytesRead, SameOperators, Zenon
  <2>6. FieldAt(written, p, x, F!LengthBytes(f))
    BY <2>2, <2>3, <2>4, Zenon DEF FrameStands
  <2>7. x \in Nat /\ KeyAt(f) = 2 + x /\ KeyAt(f) \in Nat
    BY <2>3, <2>4, FrameSizes, Zenon
  <2>8. x <= Len(stream)
    <3>1. Len(stream) >= x
      BY <1>1, <2>4, <2>5, Zenon
    <3>2. stream \in Seq(0 .. 255)
      BY <2>3, Zenon DEF InBuffer
    <3>3. Len(stream) \in Nat
      BY <3>2, LenProperties, Zenon
    <3> QED
      BY <2>7, <3>1, <3>3
  <2>9. SubSeq(stream, 1, x) = F!LengthBytes(f)
    <3>1. F!LengthBytes(f) \in Seq(0 .. 255) /\ Len(F!LengthBytes(f)) = x
      BY <2>3, <2>4, LengthBytesType, Zenon
    <3>2. Holds(F!LengthBytes(f), written, p, x)
      BY <2>6, <3>1, Zenon DEF Holds
    <3> QED
      BY <2>3, <2>7, <2>8, <3>2, FieldTaken, Zenon
  <2>10. header' = HeaderOf(f)
    BY <1>1, <2>2, <2>4, <2>5, <2>9, Zenon DEF HeaderOf
  <2>11. InBuffer(stream', written, p + x, arrived)
    <3>1. stream' = SubSeq(stream, x + 1, Len(stream))
      BY <1>1, <2>4, <2>5, Zenon
    <3> QED
      BY <2>3, <2>7, <2>8, <3>1, Dropped, Zenon
  <2>12. p + x \in Nat /\ p + x = b + KeyAt(f)
    BY <2>2, <2>3, <2>7
  <2>13. reader_at' = IF f.key # <<>> THEN "key" ELSE "payload"
    BY <1>1, <2>4, <2>5, Zenon DEF F!AfterLength, F!IsMasked
  <2>14. key' = <<>> /\ payload' = <<>>
    BY <1>1, <2>2, Zenon
  <2>15. InFrame(p + x, b, f)'
    BY <2>3, <2>10, <2>12, <2>13, <2>14, AfterHeader, Zenon
  <2> QED
    BY <1>1, <2>1, <2>11, <2>12, <2>15, KeepReading, Zenon
<1> QED
  BY <1>2, <1>3, Zenon

LEMMA StepReadKey ==
  ASSUME FrameInv, F!ReadKey
  PROVE  FrameInv'
<1>1. /\ reader_at = "key" /\ Len(stream) >= 4
      /\ key' = SubSeq(stream, 1, 4) /\ stream' = SubSeq(stream, 4 + 1, Len(stream))
      /\ reader_at' = "payload"
      /\ UNCHANGED F!client
      /\ header' = header /\ payload' = payload /\ relayed' = relayed /\ torn' = torn
  BY Zenon DEF F!ReadKey, F!Prefix, F!Drop
<1>2. CASE torn
  BY <1>1, <1>2, ReaderStep, Zenon
<1>3. CASE ~torn
  <2>0. reader_at # "idle" /\ reader_at # "length" /\ reader_at # "payload"
    BY <1>1
  <2>1. PICK p, k, b, f : Reads(p, k, b, f) /\ InFrame(p, b, f)
    BY <1>3, <2>0, InAFrame, Zenon
  <2>2. p = b + KeyAt(f) /\ f.key # <<>> /\ header = HeaderOf(f) /\ payload = <<>>
    BY <2>0, <2>1, Zenon DEF InFrame, AtLength, AtKey, AtPayload
  <2>3. /\ InBuffer(stream, written, p, arrived) /\ b \in Nat /\ p \in Nat
        /\ F!WellFormed(f) /\ FrameStands(written, b, f)
    BY <2>1, Zenon DEF Reads
  <2>4. PICK c : c = f.key
    BY Zenon
  <2>5. c \in Seq(0 .. 255) /\ Len(c) = 4
    <3>1. c \in Seq(0 .. 255) /\ Len(c) \in {0, 4} /\ (c = <<>> <=> Len(c) = 0) /\ c # <<>>
      BY <2>2, <2>3, <2>4, FrameFacts, Zenon
    <3> QED
      BY <3>1
  <2>6. FieldAt(written, p, 4, c)
    <3>1. FieldAt(written, p, Len(c), c)
      BY <2>2, <2>3, <2>4, Zenon DEF FrameStands
    <3> QED
      BY <2>5, <3>1, Zenon
  <2>7. 4 \in Nat /\ 4 <= Len(stream) /\ p + 4 \in Nat
    <3>1. stream \in Seq(0 .. 255)
      BY <2>3, Zenon DEF InBuffer
    <3>2. Len(stream) \in Nat
      BY <3>1, LenProperties, Zenon
    <3> QED
      BY <1>1, <2>3, <3>2
  <2>8. SubSeq(stream, 1, 4) = c
    <3>1. Holds(c, written, p, 4)
      BY <2>5, <2>6, Zenon DEF Holds
    <3> QED
      BY <2>3, <2>7, <3>1, FieldTaken, Zenon
  <2>9. InBuffer(stream', written, p + 4, arrived)
    BY <1>1, <2>3, <2>7, Dropped, Zenon
  <2>10. Len(f.text) \in Nat
    BY <2>3, FrameFacts, Zenon
  <2>11. Len(<<>>) = 0 /\ <<>> \in Seq(0 .. 255) /\ 0 <= Len(f.text) /\ 1 .. 0 = {}
    BY <2>10
  <2>12. payload' = <<>> /\ Len(payload') = 0
    BY <1>1, <2>2, <2>11, Zenon
  <2>13. p + 4 = b + TextAtByte(f) + Len(payload')
    <3>1. TextAtByte(f) = KeyAt(f) + Len(f.key) /\ KeyAt(f) \in Nat /\ Len(f.key) = 4
      BY <2>3, <2>4, <2>5, FrameSizes, Zenon
    <3> QED
      BY <2>2, <2>3, <2>12, <3>1
  <2>14. header' = HeaderOf(f) /\ key' = f.key
    BY <1>1, <2>2, <2>4, <2>8, Zenon
  <2>15. /\ payload' \in Seq(0 .. 255) /\ Len(payload') <= Len(f.text)
         /\ \A j \in 1 .. Len(payload') : payload'[j] = F!Masked(f.text, f.key)[j]
    BY <2>11, <2>12, Zenon
  <2>16. AtPayload(p + 4, b, f)'
    BY <1>1, <2>13, <2>14, <2>15 DEF AtPayload
  <2>17. InFrame(p + 4, b, f)'
    BY <2>16 DEF InFrame
  <2> QED
    BY <1>1, <2>1, <2>7, <2>9, <2>17, KeepReading, Zenon
<1> QED
  BY <1>2, <1>3, Zenon

(* In the payload, what is missing is what the text still has. *)
RestOf(p, b, f) ==
  /\ F!ReadLength(header) = Len(f.text) /\ Len(f.text) <= Memory
  /\ F!Missing = Len(f.text) - Len(payload)
  /\ Len(payload) \in Nat /\ Len(f.text) \in Nat /\ F!Missing \in Nat
  /\ p = b + TextAtByte(f) + Len(payload) /\ TextAtByte(f) \in Nat

LEMMA MissingIs ==
  ASSUME NEW p, NEW b \in Nat, NEW f, F!WellFormed(f), AtPayload(p, b, f)
  PROVE  RestOf(p, b, f)
<1>1. /\ p = b + TextAtByte(f) + Len(payload) /\ header = HeaderOf(f)
      /\ payload \in Seq(0 .. 255) /\ Len(payload) <= Len(f.text)
  BY Zenon DEF AtPayload
<1>2. F!ReadLength(header) = Len(f.text)
  BY <1>1, HeaderReads, Zenon
<1>3. Len(f.text) \in Nat /\ Len(f.text) <= Memory /\ TextAtByte(f) \in Nat
  BY FrameFacts, FrameSizes, Zenon
<1>4. Len(payload) \in Nat
  BY <1>1, LenProperties, Zenon
<1>5. F!Missing = Len(f.text) - Len(payload)
  BY <1>2, Zenon DEF F!Missing
<1>6. F!Missing \in Nat
  BY <1>1, <1>3, <1>4, <1>5
<1> QED
  BY <1>1, <1>2, <1>3, <1>4, <1>5, <1>6, Zenon DEF RestOf

(* More of the text behind the part of it that has been read. *)
StartOf(y, m) == y \in Seq(0 .. 255) /\ \A j \in 1 .. Len(y) : y[j] = m[j]

NextPart(w, o, m, y, n, u) ==
  /\ o \in Nat /\ m \in Seq(0 .. 255) /\ FieldAt(w, o, Len(m), m) /\ StartOf(y, m)
  /\ n \in Nat /\ Len(y) + n <= Len(m) /\ Holds(u, w, o + Len(y), n)

LEMMA TextGoesOn ==
  ASSUME NEW w, NEW o, NEW m, NEW y, NEW n, NEW u, NextPart(w, o, m, y, n, u)
  PROVE  StartOf(y \o u, m) /\ Len(y \o u) = Len(y) + n
<1>0. y \in Seq(0 .. 255) /\ \A j \in 1 .. Len(y) : y[j] = m[j]
  BY Zenon DEF NextPart, StartOf
<1>b. /\ o \in Nat /\ m \in Seq(0 .. 255) /\ FieldAt(w, o, Len(m), m)
      /\ n \in Nat /\ Len(y) + n <= Len(m) /\ Holds(u, w, o + Len(y), n)
  BY Zenon DEF NextPart
<1>a. PICK z : z = y \o u
  BY Zenon
<1>1. u \in Seq(0 .. 255) /\ Len(u) = n /\ FieldAt(w, o + Len(y), n, u)
  BY <1>b, Zenon DEF Holds
<1>2. Stands(0 .. 255, z, y, u)
  BY <1>0, <1>1, <1>a, JoinIs, Zenon
<1>3. /\ z \in Seq(0 .. 255) /\ Len(z) = Len(y) + n
      /\ \A j \in 1 .. Len(y) : z[j] = y[j]
      /\ \A j \in 1 .. n : z[Len(y) + j] = u[j]
  BY <1>1, <1>2, Zenon DEF Stands
<1>4. Len(y) \in Nat /\ Len(m) \in Nat
  <2>1. y \in Seq(0 .. 255) /\ m \in Seq(0 .. 255)
    BY <1>0, <1>b, Zenon
  <2> QED
    BY <2>1
<1>5. /\ \A j \in 1 .. n : w[(o + Len(y)) + j] = u[j]
      /\ \A j \in 1 .. Len(m) : w[o + j] = m[j]
  BY <1>1, <1>b, Zenon DEF FieldAt
<1>6. \A j \in 1 .. n : z[Len(y) + j] = m[Len(y) + j]
  <2>1. \A j \in 1 .. n : /\ Len(y) + j \in 1 .. Len(m)
                          /\ o + (Len(y) + j) = (o + Len(y)) + j
    BY <1>4, <1>b
  <2> QED
    BY <1>3, <1>5, <2>1, Zenon
<1>7. \A j \in 1 .. Len(y) : z[j] = m[j]
  BY <1>0, <1>3, Zenon
<1>8. \A j \in 1 .. Len(z) : z[j] = m[j]
  <2> SUFFICES ASSUME NEW j \in 1 .. Len(z) PROVE z[j] = m[j]
    BY Zenon
  <2>1. CASE j <= Len(y)
    <3>1. j \in 1 .. Len(y)
      BY <1>4, <2>1
    <3> QED
      BY <1>7, <3>1, Zenon
  <2>2. CASE ~(j <= Len(y))
    <3>1. j - Len(y) \in 1 .. n /\ Len(y) + (j - Len(y)) = j
      BY <1>3, <1>4, <1>b, <2>2
    <3> QED
      BY <1>6, <3>1, Zenon
  <2> QED
    BY <2>1, <2>2, Zenon
<1> QED
  BY <1>3, <1>8, <1>a, Zenon DEF StartOf

LEMMA StepReadPayload ==
  ASSUME FrameInv, F!ReadPayload
  PROVE  FrameInv'
<1>0. PICK g, l : g = F!Missing /\ l = Len(stream)
  BY Zenon
<1>a. PICK n : n = IF g < l THEN g ELSE l
  BY Zenon
<1>1. /\ reader_at = "payload"
      /\ payload' = payload \o SubSeq(stream, 1, n)
      /\ stream' = SubSeq(stream, n + 1, Len(stream))
      /\ UNCHANGED F!client
      /\ reader_at' = reader_at /\ header' = header /\ key' = key
      /\ relayed' = relayed /\ torn' = torn
  BY <1>0, <1>a, Zenon DEF F!ReadPayload, F!Prefix, F!Drop
<1>2. CASE torn
  BY <1>1, <1>2, ReaderStep, Zenon
<1>3. CASE ~torn
  <2>0. reader_at # "idle" /\ reader_at # "length" /\ reader_at # "key"
    BY <1>1
  <2>1. PICK p, k, b, f : Reads(p, k, b, f) /\ InFrame(p, b, f)
    BY <1>3, <2>0, InAFrame, Zenon
  <2>2. AtPayload(p, b, f)
    BY <2>0, <2>1, Zenon DEF InFrame, AtLength, AtKey
  <2>3. /\ InBuffer(stream, written, p, arrived) /\ b \in Nat /\ p \in Nat
        /\ F!WellFormed(f) /\ FrameStands(written, b, f)
    BY <2>1, Zenon DEF Reads
  <2>4. /\ g = Len(f.text) - Len(payload)
        /\ Len(payload) \in Nat /\ Len(f.text) \in Nat /\ g \in Nat
        /\ p = b + TextAtByte(f) + Len(payload) /\ TextAtByte(f) \in Nat
    <3>1. RestOf(p, b, f)
      BY <2>2, <2>3, MissingIs, Zenon
    <3> QED
      BY <1>0, <3>1, Zenon DEF RestOf
  <2>5. l \in Nat
    <3>1. stream \in Seq(0 .. 255)
      BY <2>3, Zenon DEF InBuffer
    <3> QED
      BY <1>0, <3>1, LenProperties, Zenon
  <2>6. n \in Nat /\ n <= l /\ n <= g
    BY <1>a, <2>4, <2>5
  <2>7. n <= Len(stream)
    BY <1>0, <2>6, Zenon
  <2>8. PICK m : m = F!Masked(f.text, f.key)
    BY Zenon
  <2>9. m \in Seq(0 .. 255) /\ Len(m) = Len(f.text)
    BY <2>3, <2>8, MaskedIs, Zenon
  <2>10. PICK o : o = b + TextAtByte(f)
    BY Zenon
  <2>b. PICK q : q = p + n
    BY Zenon
  <2>11. o \in Nat /\ p = o + Len(payload) /\ Len(payload) + n <= Len(m) /\ q \in Nat
    <3>1. PICK c, e, at : c = Len(payload) /\ e = Len(m) /\ at = TextAtByte(f)
      OBVIOUS
    <3>2. /\ b \in Nat /\ p \in Nat /\ c \in Nat /\ e \in Nat /\ at \in Nat
          /\ g = e - c /\ p = b + at + c
      BY <2>3, <2>4, <2>9, <3>1, Zenon
    <3>a. o = b + at
      BY <2>10, <3>1, Zenon
    <3>b. n \in Nat
      BY <2>6
    <3>3. o \in Nat /\ p = o + c /\ q \in Nat
      BY <2>b, <3>a, <3>b, <3>2
    <3>4. c + n <= e
      BY <2>4, <2>6, <3>2
    <3> QED
      BY <3>1, <3>3, <3>4, Zenon
  <2>12. FieldAt(written, o, Len(m), m)
    BY <2>3, <2>8, <2>9, <2>10, Zenon DEF FrameStands
  <2>13. /\ payload \in Seq(0 .. 255) /\ header = HeaderOf(f) /\ key = f.key
         /\ StartOf(payload, m)
    BY <2>2, <2>8, Zenon DEF AtPayload, StartOf
  <2>14. PICK u : u = SubSeq(stream, 1, n)
    BY Zenon
  <2>15. Holds(u, written, o + Len(payload), n)
    BY <2>3, <2>6, <2>7, <2>11, <2>14, Taken, Zenon
  <2>16. payload' = payload \o u
    BY <1>1, <2>14, Zenon
  <2>17. StartOf(payload \o u, m) /\ Len(payload \o u) = Len(payload) + n
    <3>1. NextPart(written, o, m, payload, n, u)
      BY <2>6, <2>9, <2>11, <2>12, <2>13, <2>15, Zenon DEF NextPart
    <3> QED
      BY <3>1, TextGoesOn
  <2>18. /\ payload' \in Seq(0 .. 255) /\ Len(payload') = Len(payload) + n
         /\ \A j \in 1 .. Len(payload') : payload'[j] = m[j]
    BY <2>16, <2>17, Zenon DEF StartOf
  <2>19. InBuffer(stream', written, q, arrived)
    BY <1>1, <2>b, <2>3, <2>6, <2>7, Dropped, Zenon
  <2>20. q = b + TextAtByte(f) + Len(payload') /\ Len(payload') <= Len(f.text)
    BY <2>b, <2>3, <2>4, <2>6, <2>9, <2>11, <2>18
  <2>21. AtPayload(q, b, f)'
    BY <1>1, <2>8, <2>13, <2>18, <2>20 DEF AtPayload
  <2>22. InFrame(q, b, f)'
    BY <2>21 DEF InFrame
  <2> QED
    BY <1>1, <2>1, <2>11, <2>19, <2>22, KeepReading, Zenon
<1> QED
  BY <1>2, <1>3, Zenon

LEMMA StepCannotAllocate ==
  ASSUME FrameInv, F!CannotAllocate
  PROVE  FrameInv' /\ torn
<1>1. /\ reader_at = "payload" /\ F!ReadLength(header) > Memory
      /\ UNCHANGED F!client /\ torn' = torn
  BY Zenon DEF F!CannotAllocate
<1>2. torn
  <2> SUFFICES ASSUME ~torn PROVE FALSE
    BY Zenon
  <2>0. reader_at # "idle" /\ reader_at # "length" /\ reader_at # "key"
    BY <1>1
  <2>1. PICK p, k, b, f : Reads(p, k, b, f) /\ InFrame(p, b, f)
    BY <2>0, InAFrame, Zenon
  <2>2. AtPayload(p, b, f)
    BY <2>0, <2>1, Zenon DEF InFrame, AtLength, AtKey
  <2>3. b \in Nat /\ F!WellFormed(f)
    BY <2>1, Zenon DEF Reads
  <2>4. F!ReadLength(header) = Len(f.text) /\ Len(f.text) <= Memory /\ Len(f.text) \in Nat
    <3>1. RestOf(p, b, f)
      BY <2>2, <2>3, MissingIs, Zenon
    <3> QED
      BY <3>1, Zenon DEF RestOf
  <2> QED
    BY <1>1, <2>4, MemoryAssumption
<1> QED
  BY <1>1, <1>2, ReaderStep, Zenon

(* One frame more has been read. *)
LEMMA OneRelayed ==
  ASSUME RelayedInv, NEW k \in 1 .. Len(sent), k = Len(relayed) + 1,
         NEW t \in Seq(0 .. 255), t = F!Said(sent[k]), relayed' = Append(relayed, t),
         sent' = sent
  PROVE  RelayedInv' /\ Len(relayed') = k
<1>1. relayed \in Seq(Seq(0 .. 255)) /\ \A j \in 1 .. Len(relayed) : relayed[j] = F!Said(sent[j])
  BY Zenon DEF RelayedInv
<1>2. /\ relayed' \in Seq(Seq(0 .. 255)) /\ Len(relayed') = Len(relayed) + 1
      /\ \A j \in 1 .. Len(relayed) : relayed'[j] = relayed[j]
      /\ relayed'[Len(relayed) + 1] = t
  BY <1>1, AppendProperties
<1>3. Len(relayed') = k /\ Len(relayed') <= Len(sent')
  BY <1>2
<1>4. \A j \in 1 .. Len(relayed') : relayed'[j] = F!Said(sent[j])
  <2> SUFFICES ASSUME NEW j \in 1 .. Len(relayed') PROVE relayed'[j] = F!Said(sent[j])
    BY Zenon
  <2>1. CASE j = k
    BY <1>2, <2>1, Zenon
  <2>2. CASE j # k
    <3>1. j \in 1 .. Len(relayed)
      BY <1>3, <2>2
    <3> QED
      BY <1>1, <1>2, <3>1, Zenon
  <2> QED
    BY <2>1, <2>2, Zenon
<1> QED
  BY <1>2, <1>3, <1>4 DEF RelayedInv

LEMMA StepReadComplete ==
  ASSUME FrameInv, F!ReadComplete
  PROVE  FrameInv'
<1>1. /\ reader_at = "payload" /\ F!Missing = 0
      /\ reader_at' = "idle"
      /\ relayed' = Append(relayed, IF header[1] % 16 = 1 THEN F!Masked(payload, key) ELSE <<>>)
      /\ header' = <<>> /\ key' = <<>> /\ payload' = <<>>
      /\ UNCHANGED F!client /\ stream' = stream /\ torn' = torn
  BY Zenon DEF F!ReadComplete, F!Returns
<1>2. CASE torn
  BY <1>1, <1>2, ReaderStep, Zenon
<1>3. CASE ~torn
  <2>0. reader_at # "idle" /\ reader_at # "length" /\ reader_at # "key"
    BY <1>1
  <2>1. PICK p, k, b, f : Reads(p, k, b, f) /\ InFrame(p, b, f)
    BY <1>3, <2>0, InAFrame, Zenon
  <2>2. AtPayload(p, b, f)
    BY <2>0, <2>1, Zenon DEF InFrame, AtLength, AtKey
  <2>3. /\ InBuffer(stream, written, p, arrived) /\ b \in Nat /\ p \in Nat
        /\ F!WellFormed(f) /\ f = sent[k] /\ b = F!Begins(k)
        /\ k \in 1 .. Len(sent) /\ k = Len(relayed) + 1 /\ RelayedInv
    BY <2>1, Zenon DEF Reads
  <2>4. /\ F!Missing = Len(f.text) - Len(payload)
        /\ Len(payload) \in Nat /\ Len(f.text) \in Nat
        /\ p = b + TextAtByte(f) + Len(payload) /\ TextAtByte(f) \in Nat
    <3>1. RestOf(p, b, f)
      BY <2>2, <2>3, MissingIs, Zenon
    <3> QED
      BY <3>1, Zenon DEF RestOf
  <2>5. Len(payload) = Len(f.text)
    BY <1>1, <2>4
  <2>6. PICK m : m = F!Masked(f.text, f.key)
    BY Zenon
  <2>7. /\ payload \in Seq(0 .. 255) /\ header = HeaderOf(f) /\ key = f.key
        /\ \A j \in 1 .. Len(payload) : payload[j] = m[j]
    BY <2>2, <2>6, Zenon DEF AtPayload
  <2>8. payload = m
    <3>1. m \in Seq(0 .. 255) /\ Len(m) = Len(f.text)
      BY <2>3, <2>6, MaskedIs, Zenon
    <3>2. Len(payload) = Len(m)
      BY <2>5, <3>1, Zenon
    <3> QED
      BY <2>7, <3>1, <3>2, SeqEqual, Zenon
  <2>9. F!Masked(payload, key) = f.text
    BY <2>3, <2>6, <2>7, <2>8, MaskedTwice, Zenon
  <2>10. PICK y, z : y = header[1] % 16 /\ z = f.opcode
    BY Zenon
  <2>11. y = z
    BY <2>3, <2>7, <2>10, HeaderReads, Zenon
  <2>12. PICK t : t = IF z = 1 THEN f.text ELSE <<>>
    BY Zenon
  <2>13. t = F!Said(sent[k]) /\ relayed' = Append(relayed, t)
    BY <1>1, <2>3, <2>9, <2>10, <2>11, <2>12, Zenon DEF F!Said
  <2>14. t \in Seq(0 .. 255)
    <3>1. f.text \in Seq(0 .. 255) /\ <<>> \in Seq(0 .. 255)
      BY <2>3, FrameFacts, EmptySeq, Zenon
    <3> QED
      BY <2>12, <3>1, Zenon
  <2>15. /\ sent' = sent /\ ends' = ends /\ written' = written /\ arrived' = arrived
    BY <1>1, SameClient, Zenon
  <2>16. RelayedInv' /\ Len(relayed') = k
    BY <2>3, <2>13, <2>14, <2>15, OneRelayed, Zenon
  <2>17. InPlace(p)'
    BY <1>1, <2>3, <2>15 DEF InPlace
  <2>18. p = ends[k]
    <3>1. WrittenInv
      BY Zenon DEF FrameInv
    <3>2. ends[k] = b + FrameLen(f)
      BY <2>3, <3>1, FrameAt, Zenon
    <3>3. FrameLen(f) = TextAtByte(f) + Len(f.text)
      BY <2>3, FrameSizes, Zenon
    <3> QED
      BY <2>3, <2>4, <2>5, <3>2, <3>3
  <2>19. F!Begins(k + 1)' = ends[k]
    <3>1. k + 1 # 1 /\ (k + 1) - 1 = k
      BY <2>3
    <3> QED
      BY <2>15, <3>1 DEF F!Begins
  <2>20. AtIdle(p, F!Begins(k + 1))'
    BY <1>1, <2>18, <2>19 DEF AtIdle
  <2>21. Place(p, k + 1)'
    BY <2>20 DEF Place
  <2>22. Place(p, Len(relayed) + 1)'
    BY <2>16, <2>21
  <2> QED
    BY <1>1, <2>3, <2>16, <2>17, <2>22, ReaderStep, Zenon
<1> QED
  BY <1>2, <1>3, Zenon

(* As long as no frame was cut, a field is in the buffer with its frame. *)
LEMMA RestIsThere ==
  ASSUME FrameInv, ~split, NEW p, NEW k, NEW b, NEW f, Reads(p, k, b, f),
         NEW o \in Nat, p = b + o, o > 0 \/ b < arrived,
         NEW n \in Nat, o + n <= FrameLen(f)
  PROVE  n <= Len(stream)
<1>1. WrittenInv /\ CutInv
  BY Zenon DEF FrameInv
<1>2. /\ p \in Nat /\ b \in Nat /\ k \in 1 .. Len(sent) /\ f = sent[k] /\ b = F!Begins(k)
      /\ stream \in Seq(0 .. 255) /\ p + Len(stream) = arrived /\ F!WellFormed(f)
  BY Zenon DEF Reads, InBuffer
<1>3. Len(stream) \in Nat
  BY <1>2, LenProperties, Zenon
<1>4. b < arrived
  <2>1. CASE o > 0
    BY <1>2, <1>3, <2>1
  <2> QED
    BY <2>1, Zenon
<1>5. ends[k] <= arrived
  BY <1>1, <1>2, <1>4, WholeFrame, Zenon
<1>6. ends[k] = b + FrameLen(f)
  BY <1>1, <1>2, FrameAt, Zenon
<1>7. FrameLen(f) \in Nat
  BY <1>2, FrameSizes, Zenon
<1> QED
  BY <1>2, <1>3, <1>5, <1>6, <1>7

(* A field that is not there yet is one of a frame that was cut. *)
LEMMA StepReadShort ==
  ASSUME FrameInv, F!ReadShort
  PROVE  FrameInv'
<1>1. /\ UNCHANGED F!client /\ torn' = TRUE
  BY Zenon DEF F!ReadShort, F!GiveUp
<1>2. /\ WrittenInv /\ CutInv /\ split \in BOOLEAN /\ torn \in BOOLEAN
      /\ torn => split
  BY Zenon DEF FrameInv, F!TornOnlyBySplit
<1>3. split
  <2> SUFFICES ASSUME ~split PROVE FALSE
    BY Zenon
  <2>0. ~torn
    BY <1>2, Zenon
  <2>1. CASE stream # <<>> /\ F!GiveUp("idle", 2)
    <3>1. reader_at = "idle" /\ stream # <<>> /\ Len(stream) < 2
      BY <2>1, Zenon DEF F!GiveUp
    <3>2. PICK k, b, f : Reads(b, k, b, f) /\ b < arrived
      BY <2>0, <3>1, BetweenFrames, Zenon
    <3>3. /\ b \in Nat /\ F!WellFormed(f) /\ stream \in Seq(0 .. 255)
      BY <3>2, Zenon DEF Reads, InBuffer
    <3>4. 0 \in Nat /\ 2 \in Nat /\ b = b + 0 /\ 0 + 2 <= FrameLen(f)
      <4>1. /\ KeyAt(f) = 2 + f.extended /\ TextAtByte(f) = KeyAt(f) + Len(f.key)
            /\ FrameLen(f) = TextAtByte(f) + Len(f.text)
            /\ f.extended \in Nat /\ Len(f.key) \in Nat /\ Len(f.text) \in Nat
        BY <3>3, FrameSizes, Zenon
      <4> QED
        BY <3>3, <4>1
    <3>5. 2 <= Len(stream)
      BY <3>2, <3>4, RestIsThere
    <3>6. Len(stream) \in Nat
      BY <3>3, LenProperties, Zenon
    <3> QED
      BY <3>1, <3>5, <3>6
  <2>2. CASE reader_at = "length" /\ F!GiveUp("length", F!Extended(header[2]))
    <3>1. Len(stream) < F!Extended(header[2])
      BY <2>2, Zenon DEF F!GiveUp
    <3>2. reader_at # "idle" /\ reader_at # "key" /\ reader_at # "payload"
      BY <2>2
    <3>3. PICK p, k, b, f : Reads(p, k, b, f) /\ InFrame(p, b, f)
      BY <2>0, <3>2, InAFrame, Zenon
    <3>4. p = b + 2 /\ header = F!FirstBytes(f)
      BY <3>2, <3>3, Zenon DEF InFrame, AtLength, AtKey, AtPayload
    <3>5. b \in Nat /\ F!WellFormed(f) /\ stream \in Seq(0 .. 255)
      BY <3>3, Zenon DEF Reads, InBuffer
    <3>6. PICK x : x = f.extended
      BY Zenon
    <3>7. F!Extended(header[2]) = x
      BY <3>4, <3>5, <3>6, FirstBytesRead, SameOperators, Zenon
    <3>8. 2 \in Nat /\ 2 > 0 /\ x \in Nat /\ 2 + x <= FrameLen(f)
      <4>1. PICK c, t : c = Len(f.key) /\ t = Len(f.text)
        BY Zenon
      <4>2. /\ KeyAt(f) = 2 + x /\ TextAtByte(f) = KeyAt(f) + c
            /\ FrameLen(f) = TextAtByte(f) + t
            /\ x \in Nat /\ c \in Nat /\ t \in Nat
        BY <3>5, <3>6, <4>1, FrameSizes, Zenon
      <4> QED
        BY <4>2
    <3>9. x <= Len(stream)
      BY <3>3, <3>4, <3>8, RestIsThere
    <3>10. Len(stream) \in Nat
      BY <3>5, LenProperties, Zenon
    <3> QED
      BY <3>1, <3>7, <3>8, <3>9, <3>10
  <2>3. CASE F!GiveUp("key", 4)
    <3>1. reader_at = "key" /\ Len(stream) < 4
      BY <2>3, Zenon DEF F!GiveUp
    <3>2. reader_at # "idle" /\ reader_at # "length" /\ reader_at # "payload"
      BY <3>1
    <3>3. PICK p, k, b, f : Reads(p, k, b, f) /\ InFrame(p, b, f)
      BY <2>0, <3>2, InAFrame, Zenon
    <3>4. p = b + KeyAt(f) /\ f.key # <<>>
      BY <3>2, <3>3, Zenon DEF InFrame, AtLength, AtKey, AtPayload
    <3>5. b \in Nat /\ F!WellFormed(f) /\ stream \in Seq(0 .. 255)
      BY <3>3, Zenon DEF Reads, InBuffer
    <3>6. PICK l : l = Len(f.key)
      BY Zenon
    <3>7. l = 4
      <4>1. l \in {0, 4} /\ ~(l = 0)
        BY <3>4, <3>5, <3>6, FrameFacts, Zenon
      <4> QED
        BY <4>1
    <3>8. /\ 4 \in Nat /\ KeyAt(f) \in Nat /\ KeyAt(f) > 0 /\ KeyAt(f) + 4 <= FrameLen(f)
      <4>1. /\ KeyAt(f) = 2 + f.extended /\ TextAtByte(f) = KeyAt(f) + l
            /\ FrameLen(f) = TextAtByte(f) + Len(f.text)
            /\ f.extended \in Nat /\ Len(f.text) \in Nat
        BY <3>5, <3>6, FrameSizes, Zenon
      <4> QED
        BY <3>7, <4>1
    <3>9. 4 <= Len(stream)
      BY <3>3, <3>4, <3>8, RestIsThere
    <3>10. Len(stream) \in Nat
      BY <3>5, LenProperties, Zenon
    <3> QED
      BY <3>1, <3>9, <3>10
  <2>4. CASE reader_at = "payload" /\ F!Missing > 0 /\ F!GiveUp("payload", 1)
    <3>1. reader_at = "payload" /\ Len(stream) < 1 /\ F!Missing > 0
      BY <2>4, Zenon DEF F!GiveUp
    <3>2. reader_at # "idle" /\ reader_at # "length" /\ reader_at # "key"
      BY <3>1
    <3>3. PICK p, k, b, f : Reads(p, k, b, f) /\ InFrame(p, b, f)
      BY <2>0, <3>2, InAFrame, Zenon
    <3>4. AtPayload(p, b, f)
      BY <3>2, <3>3, Zenon DEF InFrame, AtLength, AtKey
    <3>5. b \in Nat /\ F!WellFormed(f) /\ stream \in Seq(0 .. 255)
      BY <3>3, Zenon DEF Reads, InBuffer
    <3>6. /\ F!Missing = Len(f.text) - Len(payload)
          /\ Len(payload) \in Nat /\ Len(f.text) \in Nat
          /\ p = b + TextAtByte(f) + Len(payload) /\ TextAtByte(f) \in Nat
      <4>1. RestOf(p, b, f)
        BY <3>4, <3>5, MissingIs, Zenon
      <4> QED
        BY <4>1, Zenon DEF RestOf
    <3>7. PICK o : o = TextAtByte(f) + Len(payload)
      BY Zenon
    <3>8. o \in Nat /\ p = b + o /\ 1 \in Nat /\ o > 0 /\ o + 1 <= FrameLen(f)
      <4>1. PICK g, x, c, t, y : /\ g = F!Missing /\ x = f.extended /\ c = Len(f.key)
                                 /\ t = Len(f.text) /\ y = Len(payload)
        BY Zenon
      <4>2. /\ KeyAt(f) = 2 + x /\ TextAtByte(f) = KeyAt(f) + c /\ FrameLen(f) = TextAtByte(f) + t
            /\ x \in Nat /\ c \in Nat
        BY <3>5, <4>1, FrameSizes, Zenon
      <4>3. g = t - y /\ g > 0 /\ y \in Nat /\ t \in Nat /\ o = TextAtByte(f) + y
            /\ p = b + TextAtByte(f) + y
        BY <3>1, <3>6, <3>7, <4>1, Zenon
      <4> QED
        BY <3>5, <4>2, <4>3
    <3>9. 1 <= Len(stream)
      BY <3>3, <3>8, RestIsThere
    <3>10. Len(stream) \in Nat
      BY <3>5, LenProperties, Zenon
    <3> QED
      BY <3>1, <3>9, <3>10
  <2> QED
    BY <2>1, <2>2, <2>3, <2>4, Zenon DEF F!ReadShort
<1>4. WrittenInv' /\ CutInv' /\ split' = split
  BY <1>1, <1>2, SameClient, Zenon
<1>5. ReaderInv'
  BY <1>1, Zenon DEF ReaderInv
<1> QED
  BY <1>1, <1>2, <1>3, <1>4, <1>5, Zenon DEF FrameInv, F!TornOnlyBySplit

-----------------------------------------------------------------------------
(* The steps of the clients and of the network *)

LEMMA AppendedFacts ==
  ASSUME NEW C, NEW s, s \in Seq(C), NEW c, c \in C, NEW t, t = Append(s, c)
  PROVE  /\ t \in Seq(C) /\ Len(t) = Len(s) + 1 /\ t[Len(s) + 1] = c
         /\ \A j \in 1 .. Len(s) : t[j] = s[j]
BY AppendProperties

(* What a new frame adds, and what it leaves. *)
LEMMA FrameSent ==
  ASSUME WrittenInv, NEW f \in Frames,
         sent' = Append(sent, f), written' = written \o F!Encode(f),
         ends' = Append(ends, Len(written'))
  PROVE  /\ sent' \in Seq(Frames) /\ Len(sent') = Len(sent) + 1 /\ sent'[Len(sent) + 1] = f
         /\ \A k \in 1 .. Len(sent) : sent'[k] = sent[k]
         /\ ends' \in Seq(Nat) /\ Len(ends') = Len(sent) + 1
         /\ ends'[Len(sent) + 1] = Len(written')
         /\ \A k \in 1 .. Len(sent) : ends'[k] = ends[k]
         /\ written' \in Seq(0 .. 255) /\ Len(written') = Len(written) + FrameLen(f)
         /\ \A j \in 1 .. Len(written) : written'[j] = written[j]
         /\ FieldAt(written', Len(written), FrameLen(f), F!Encode(f))
<1>1. sent \in Seq(Frames) /\ written \in Seq(0 .. 255) /\ ends \in Seq(Nat)
      /\ Len(ends) = Len(sent)
  BY Zenon DEF WrittenInv
<1>2. PICK e : e = F!Encode(f)
  BY Zenon
<1>3. e \in Seq(0 .. 255) /\ Len(e) = FrameLen(f)
  BY <1>2, FramesAssumption, EncodeIs, Zenon DEF FieldsOf
<1>4. PICK w : w = written'
  BY Zenon
<1>5. Stands(0 .. 255, w, written, e)
  BY <1>1, <1>2, <1>3, <1>4, JoinIs
<1>6. /\ w \in Seq(0 .. 255) /\ Len(w) = Len(written) + FrameLen(f)
      /\ \A j \in 1 .. Len(written) : w[j] = written[j]
      /\ FieldAt(w, Len(written), FrameLen(f), e)
  BY <1>3, <1>5, Zenon DEF Stands, FieldAt
<1>7. Len(w) \in Nat
  BY <1>6, LenProperties, Zenon
<1>8. /\ sent' \in Seq(Frames) /\ Len(sent') = Len(sent) + 1 /\ sent'[Len(sent) + 1] = f
      /\ \A k \in 1 .. Len(sent) : sent'[k] = sent[k]
  BY <1>1, AppendedFacts
<1>9. ends' = Append(ends, Len(w))
  BY <1>4, Zenon
<1>10. /\ ends' \in Seq(Nat) /\ Len(ends') = Len(ends) + 1 /\ ends'[Len(ends) + 1] = Len(w)
       /\ \A k \in 1 .. Len(ends) : ends'[k] = ends[k]
  BY <1>1, <1>7, <1>9, AppendedFacts
<1>11. /\ ends' \in Seq(Nat) /\ Len(ends') = Len(sent) + 1 /\ ends'[Len(sent) + 1] = Len(w)
       /\ \A k \in 1 .. Len(sent) : ends'[k] = ends[k]
  BY <1>1, <1>10, Zenon
<1> QED
  BY <1>2, <1>4, <1>6, <1>8, <1>11, Zenon

(* The frames before begin and end where they did. *)
LEMMA BeginsKept ==
  ASSUME WrittenInv, \A k \in 1 .. Len(sent) : ends'[k] = ends[k]
  PROVE  \A k \in 1 .. Len(sent) + 1 : F!Begins(k)' = F!Begins(k)
<1>1. Len(sent) \in Nat
  BY BeginsType, Zenon
<1> SUFFICES ASSUME NEW k \in 1 .. Len(sent) + 1
             PROVE  F!Begins(k)' = F!Begins(k)
  BY Zenon
<1>2. CASE k = 1
  BY <1>2 DEF F!Begins
<1>3. CASE k # 1
  <2>1. k - 1 \in 1 .. Len(sent)
    BY <1>1, <1>3
  <2>2. ends'[k - 1] = ends[k - 1]
    BY <2>1, Zenon
  <2> QED
    BY <1>3, <2>2 DEF F!Begins
<1> QED
  BY <1>2, <1>3, Zenon

(* More frames or bytes leave read_frame where it is. *)
LEMMA SameReader ==
  ASSUME UNCHANGED F!reader, NEW p, NEW b, NEW f
  PROVE  /\ AtIdle(p, b) => AtIdle(p, b)'
         /\ InFrame(p, b, f) => InFrame(p, b, f)'
         /\ relayed' = relayed /\ torn' = torn
<1>1. /\ reader_at' = reader_at /\ header' = header /\ key' = key /\ payload' = payload
      /\ relayed' = relayed /\ torn' = torn
  BY Zenon DEF F!reader
<1>2. AtIdle(p, b) => AtIdle(p, b)'
  BY <1>1 DEF AtIdle
<1>3. /\ AtLength(p, b, f) => AtLength(p, b, f)'
      /\ AtKey(p, b, f) => AtKey(p, b, f)'
      /\ AtPayload(p, b, f) => AtPayload(p, b, f)'
  BY <1>1 DEF AtLength, AtKey, AtPayload
<1>4. InFrame(p, b, f) => InFrame(p, b, f)'
  BY <1>3 DEF InFrame
<1> QED
  BY <1>1, <1>2, <1>4, Zenon

LEMMA ReaderKept ==
  ASSUME WrittenInv, ReaderInv, UNCHANGED F!reader,
         Len(sent') \in Nat, Len(sent) <= Len(sent'),
         \A k \in 1 .. Len(sent) : sent'[k] = sent[k],
         \A k \in 1 .. Len(sent) + 1 : F!Begins(k)' = F!Begins(k),
         \A p \in Nat : InPlace(p) => InPlace(p)'
  PROVE  ReaderInv'
<1>1. relayed' = relayed /\ torn' = torn
  BY SameReader, Zenon
<1>2. CASE torn
  BY <1>1, <1>2, Zenon DEF ReaderInv
<1>3. CASE ~torn
  <2>1. RelayedInv /\ \E p \in Nat : InPlace(p) /\ Place(p, Len(relayed) + 1)
    BY <1>3, Zenon DEF ReaderInv
  <2>2. PICK p \in Nat : InPlace(p) /\ Place(p, Len(relayed) + 1)
    BY <2>1, Zenon
  <2>3. InPlace(p)'
    BY <2>2, Zenon
  <2>4. Len(sent) \in Nat
    BY BeginsType, Zenon
  <2>5. Len(relayed) \in Nat /\ Len(relayed) + 1 \in 1 .. Len(sent) + 1
    BY <2>1, NextFrame, Zenon
  <2>6. RelayedInv'
    <3>1. /\ relayed \in Seq(Seq(0 .. 255)) /\ Len(relayed) <= Len(sent)
          /\ \A k \in 1 .. Len(relayed) : relayed[k] = F!Said(sent[k])
      BY <2>1, Zenon DEF RelayedInv
    <3>2. Len(relayed) <= Len(sent') /\ \A k \in 1 .. Len(relayed) : k \in 1 .. Len(sent)
      BY <2>4, <2>5, <3>1
    <3>3. \A k \in 1 .. Len(relayed) : relayed[k] = F!Said(sent'[k])
      BY <3>1, <3>2, Zenon
    <3> QED
      BY <1>1, <3>1, <3>2, <3>3 DEF RelayedInv
  <2>7. PICK k, b, f : k = Len(relayed) + 1 /\ b = F!Begins(k) /\ f = sent[k]
    BY Zenon
  <2>8. F!Begins(k)' = b
    BY <2>5, <2>7, Zenon
  <2>9. Place(p, k)'
    <3>1. CASE AtIdle(p, b)
      <4>1. AtIdle(p, b)'
        BY <3>1, SameReader, Zenon
      <4> QED
        BY <2>8, <4>1 DEF Place
    <3>2. CASE k <= Len(sent) /\ InFrame(p, b, f)
      <4>1. InFrame(p, b, f)'
        BY <3>2, SameReader, Zenon
      <4>2. k \in 1 .. Len(sent) /\ k <= Len(sent')
        BY <2>4, <2>5, <2>7, <3>2
      <4>3. sent'[k] = f
        BY <2>7, <4>2, Zenon
      <4> QED
        BY <2>8, <4>1, <4>2, <4>3 DEF Place
    <3> QED
      BY <2>2, <2>7, <3>1, <3>2, Zenon DEF Place
  <2>10. Place(p, Len(relayed) + 1)'
    BY <1>1, <2>7, <2>9
  <2> QED
    BY <2>3, <2>6, <2>10, Zenon DEF ReaderInv
<1> QED
  BY <1>2, <1>3, Zenon

LEMMA StepSend ==
  ASSUME FrameInv, F!Send
  PROVE  FrameInv'
<1>0. PICK f \in Frames : sent' = Append(sent, f) /\ written' = written \o F!Encode(f)
  BY Zenon DEF F!Send
<1>1. /\ ends' = Append(ends, Len(written'))
      /\ arrived' = arrived /\ split' = split /\ stream' = stream /\ UNCHANGED F!reader
  BY Zenon DEF F!Send
<1>2. /\ WrittenInv /\ CutInv /\ ReaderInv /\ split \in BOOLEAN /\ torn \in BOOLEAN
      /\ torn => split
  BY Zenon DEF FrameInv, F!TornOnlyBySplit
<1>3. /\ sent' \in Seq(Frames) /\ Len(sent') = Len(sent) + 1 /\ sent'[Len(sent) + 1] = f
      /\ \A k \in 1 .. Len(sent) : sent'[k] = sent[k]
      /\ ends' \in Seq(Nat) /\ Len(ends') = Len(sent) + 1
      /\ ends'[Len(sent) + 1] = Len(written')
      /\ \A k \in 1 .. Len(sent) : ends'[k] = ends[k]
      /\ written' \in Seq(0 .. 255) /\ Len(written') = Len(written) + FrameLen(f)
      /\ \A j \in 1 .. Len(written) : written'[j] = written[j]
      /\ FieldAt(written', Len(written), FrameLen(f), F!Encode(f))
  BY <1>0, <1>1, <1>2, FrameSent, Zenon
<1>4. \A k \in 1 .. Len(sent) + 1 : F!Begins(k)' = F!Begins(k)
  BY <1>2, <1>3, BeginsKept, Zenon
<1>5. /\ Len(sent) \in Nat /\ Len(written) \in Nat /\ Len(ends) = Len(sent)
      /\ \A k \in 1 .. Len(sent) : ends[k] \in Nat
      /\ \A k \in 1 .. Len(sent) + 1 : F!Begins(k) \in Nat /\ F!Begins(k) <= Len(written)
      /\ arrived \in Nat /\ arrived <= Len(written)
  BY <1>2, BeginsType, Zenon
<1>6. FrameLen(f) \in Nat
  BY FramesAssumption, FrameSizes, Zenon
<1>7. F!Begins(Len(sent) + 1) = Len(written)
  BY <1>2, Zenon DEF WrittenInv
<1>8. \A l : l = Len(sent) + 2 => F!Begins(l)' = Len(written')
  <2> SUFFICES ASSUME NEW l, l = Len(sent) + 2 PROVE F!Begins(l)' = Len(written')
    BY Zenon
  <2>1. l # 1 /\ l - 1 = Len(sent) + 1
    BY <1>5
  <2>2. ends'[l - 1] = Len(written')
    BY <1>3, <2>1, Zenon
  <2> QED
    BY <2>1, <2>2 DEF F!Begins
<1>9. \A k \in 1 .. Len(sent) + 1 :
        /\ ends'[k] = F!Begins(k)' + FrameLen(sent'[k])
        /\ FieldAt(written', F!Begins(k)', FrameLen(sent'[k]), F!Encode(sent'[k]))
  <2> SUFFICES ASSUME NEW k \in 1 .. Len(sent) + 1
               PROVE  /\ ends'[k] = F!Begins(k)' + FrameLen(sent'[k])
                      /\ FieldAt(written', F!Begins(k)', FrameLen(sent'[k]), F!Encode(sent'[k]))
    BY Zenon
  <2>1. CASE k = Len(sent) + 1
    <3>1. F!Begins(k)' = Len(written) /\ sent'[k] = f /\ ends'[k] = Len(written) + FrameLen(f)
      BY <1>3, <1>4, <1>7, <2>1, Zenon
    <3> QED
      BY <1>3, <3>1, Zenon
  <2>2. CASE k # Len(sent) + 1
    <3>1. k \in 1 .. Len(sent)
      BY <1>5, <2>2
    <3>2. PICK g, b, e : g = sent[k] /\ b = F!Begins(k) /\ e = F!Encode(g)
      BY Zenon
    <3>3. /\ ends[k] = b + FrameLen(g)
          /\ FieldAt(written, b, FrameLen(g), e)
      BY <1>2, <3>1, <3>2, Zenon DEF WrittenInv
    <3>4. sent'[k] = g /\ F!Begins(k)' = b /\ ends'[k] = ends[k]
      BY <1>3, <1>4, <3>1, <3>2, Zenon
    <3>5. \A j \in 1 .. FrameLen(g) : b + j \in 1 .. Len(written)
      <4>1. F!WellFormed(g)
        BY <1>2, <3>1, <3>2, FrameAt, Zenon
      <4>2. FrameLen(g) \in Nat /\ b \in Nat
        BY <1>5, <3>2, <4>1, FrameSizes, Zenon
      <4>3. ends[k] <= Len(written)
        <5>1. Len(sent) + 1 \in 1 .. Len(sent) + 1 /\ k \in 1 .. (Len(sent) + 1) - 1
          BY <1>5, <3>1
        <5>2. ends[k] <= F!Begins(Len(sent) + 1)
          BY <1>2, <5>1, Zenon DEF WrittenInv
        <5> QED
          BY <1>7, <5>2, Zenon
      <4> QED
        BY <1>5, <3>3, <4>2, <4>3
    <3>6. FieldAt(written', b, FrameLen(g), e)
      <4>1. \A j \in 1 .. FrameLen(g) : written[b + j] = e[j] /\ written'[b + j] = written[b + j]
        BY <1>3, <3>3, <3>5, Zenon DEF FieldAt
      <4>2. \A j \in 1 .. FrameLen(g) : written'[b + j] = e[j]
        BY <4>1, Zenon
      <4> QED
        BY <4>2 DEF FieldAt
    <3> QED
      BY <3>2, <3>3, <3>4, <3>6
  <2> QED
    BY <2>1, <2>2, Zenon
<1>10. \A k \in 1 .. Len(sent) + 2 : \A m \in 1 .. k - 1 : ends'[m] <= F!Begins(k)'
  <2> SUFFICES ASSUME NEW k \in 1 .. Len(sent) + 2, NEW m \in 1 .. k - 1
               PROVE  ends'[m] <= F!Begins(k)'
    BY Zenon
  <2>0. \A i \in 1 .. Len(sent) + 1 : \A j \in 1 .. i - 1 : ends[j] <= F!Begins(i)
    BY <1>2, Zenon DEF WrittenInv
  <2>1. CASE k \in 1 .. Len(sent) + 1
    <3>1. m \in 1 .. Len(sent)
      BY <1>5, <2>1
    <3>2. ends[m] <= F!Begins(k)
      BY <2>0, <2>1, Zenon
    <3> QED
      BY <1>3, <1>4, <2>1, <3>1, <3>2, Zenon
  <2>2. CASE k = Len(sent) + 2
    <3>1. F!Begins(k)' = Len(written')
      BY <1>8, <2>2, Zenon
    <3>2. CASE m = Len(sent) + 1
      <4>1. ends'[m] = Len(written') /\ Len(written') \in Nat
        BY <1>3, <1>5, <1>6, <3>2
      <4> QED
        BY <3>1, <4>1
    <3>3. CASE m # Len(sent) + 1
      <4>1. m \in 1 .. Len(sent) /\ Len(sent) + 1 \in 1 .. Len(sent) + 1
            /\ m \in 1 .. (Len(sent) + 1) - 1
        BY <1>5, <2>2, <3>3
      <4>2. ends[m] <= Len(written)
        BY <1>7, <2>0, <4>1, Zenon
      <4>3. ends'[m] = ends[m] /\ ends[m] \in Nat
        BY <1>3, <1>5, <4>1, Zenon
      <4>4. Len(written') = Len(written) + FrameLen(f)
        BY <1>3, Zenon
      <4> QED
        BY <1>5, <1>6, <3>1, <4>2, <4>3, <4>4
    <3> QED
      BY <3>2, <3>3, Zenon
  <2> QED
    BY <1>5, <2>1, <2>2
<1>11. WrittenInv'
  <2>1. arrived' \in 0 .. Len(written')
    BY <1>1, <1>3, <1>5, <1>6
  <2>2. Len(sent') + 1 = Len(sent) + 2
    BY <1>3, <1>5
  <2>3. (F!Begins(Len(sent) + 1) = Len(written))'
    <3>1. PICK l : l = Len(sent) + 2
      BY Zenon
    <3>2. F!Begins(l)' = Len(written') /\ l = Len(sent') + 1
      BY <1>8, <2>2, <3>1, Zenon
    <3> QED
      BY <3>2
  <2> QED
    BY <1>3, <1>9, <1>10, <2>1, <2>2, <2>3 DEF WrittenInv
<1>12. CutInv'
  <2>1. SUFFICES ASSUME ~split PROVE arrived = 0 \/ \E k \in 1 .. Len(ends') : ends'[k] = arrived
    BY <1>1 DEF CutInv
  <2>2. CASE arrived = 0
    BY <2>2, Zenon
  <2>3. CASE arrived # 0
    <3>1. PICK k \in 1 .. Len(ends) : ends[k] = arrived
      BY <1>2, <2>1, <2>3, Zenon DEF CutInv
    <3>2. k \in 1 .. Len(sent) /\ k \in 1 .. Len(ends')
      BY <1>3, <1>5
    <3> QED
      BY <1>3, <3>1, <3>2, Zenon
  <2> QED
    BY <2>2, <2>3, Zenon
<1>13. \A p \in Nat : InPlace(p) => InPlace(p)'
  <2> SUFFICES ASSUME NEW p \in Nat, InPlace(p) PROVE InPlace(p)'
    BY Zenon
  <2>1. /\ stream \in Seq(0 .. 255) /\ p + Len(stream) = arrived
        /\ \A j \in 1 .. Len(stream) : stream[j] = written[p + j]
    BY Zenon DEF InPlace, InBuffer
  <2>2. Len(stream) \in Nat
    BY <2>1, LenProperties, Zenon
  <2>3. \A j \in 1 .. Len(stream) : p + j \in 1 .. Len(written)
    BY <1>5, <2>1, <2>2
  <2>4. \A j \in 1 .. Len(stream) : stream[j] = written'[p + j]
    BY <1>3, <2>1, <2>3, Zenon
  <2> QED
    BY <1>1, <2>1, <2>4 DEF InPlace, InBuffer
<1>14. ReaderInv'
  <2>1. Len(sent') \in Nat /\ Len(sent) <= Len(sent')
    BY <1>3, <1>5
  <2> QED
    BY <1>1, <1>2, <1>3, <1>4, <1>13, <2>1, ReaderKept, Zenon
<1>15. torn' = torn
  BY <1>1, SameReader, Zenon
<1> QED
  BY <1>1, <1>2, <1>11, <1>12, <1>14, <1>15, Zenon DEF FrameInv, F!TornOnlyBySplit

LEMMA StepArrive ==
  ASSUME FrameInv, F!Arrive
  PROVE  FrameInv'
<1>0. PICK n \in arrived + 1 .. Len(written) :
        /\ arrived' = n
        /\ stream' = stream \o SubSeq(written, arrived + 1, n)
        /\ split' = (split \/ \A k \in 1 .. Len(ends) : ends[k] # n)
  BY Zenon DEF F!Arrive
<1>1. sent' = sent /\ written' = written /\ ends' = ends /\ UNCHANGED F!reader
  BY Zenon DEF F!Arrive
<1>2. /\ WrittenInv /\ CutInv /\ ReaderInv /\ split \in BOOLEAN /\ torn \in BOOLEAN
      /\ torn => split
  BY Zenon DEF FrameInv, F!TornOnlyBySplit
<1>3. /\ Len(sent) \in Nat /\ Len(written) \in Nat /\ arrived \in Nat
      /\ written \in Seq(0 .. 255)
  BY <1>2, BeginsType, Zenon DEF WrittenInv
<1>4. n \in Nat /\ n <= Len(written) /\ arrived < n
  BY <1>3
<1>5. \A k : F!Begins(k)' = F!Begins(k)
  BY <1>1 DEF F!Begins
<1>6. WrittenInv'
  <2>1. arrived' \in 0 .. Len(written)
    BY <1>0, <1>3, <1>4
  <2> QED
    BY <1>1, <1>2, <1>5, <2>1 DEF WrittenInv
<1>7. split' \in BOOLEAN /\ (split => split')
  BY <1>0, <1>2, Zenon
<1>8. CutInv'
  <2>1. ~split' => \E k \in 1 .. Len(ends) : ends[k] = n
    BY <1>0, Zenon
  <2> QED
    BY <1>0, <1>1, <2>1 DEF CutInv
<1>9. PICK v : v = SubSeq(written, arrived + 1, n)
  BY Zenon
<1>10. /\ v \in Seq(0 .. 255) /\ Len(v) = n - arrived
       /\ \A j \in 1 .. Len(v) : v[j] = written[arrived + j]
  <2>1. \A j \in arrived + 1 .. n : written[j] \in 0 .. 255
    <3>1. \A j \in 1 .. Len(written) : written[j] \in 0 .. 255
      BY <1>3, ElementOfSeq, Zenon
    <3>2. \A j \in arrived + 1 .. n : j \in 1 .. Len(written)
      BY <1>3, <1>4
    <3> QED
      BY <3>1, <3>2, Zenon
  <2>2. arrived + 1 \in Int /\ n \in Int
    BY <1>3, <1>4
  <2>3. /\ SubSeq(written, arrived + 1, n) \in Seq(0 .. 255)
        /\ Len(SubSeq(written, arrived + 1, n)) =
             IF arrived + 1 <= n THEN n - (arrived + 1) + 1 ELSE 0
        /\ \A i \in 1 .. n - (arrived + 1) + 1 :
             SubSeq(written, arrived + 1, n)[i] = written[(arrived + 1) + i - 1]
    BY <2>1, <2>2, SubSeqProperties
  <2>4. Len(v) = n - arrived
    BY <1>3, <1>4, <1>9, <2>3
  <2>5. \A j \in 1 .. Len(v) : /\ j \in 1 .. n - (arrived + 1) + 1
                               /\ (arrived + 1) + j - 1 = arrived + j
    BY <1>3, <1>4, <2>4
  <2> QED
    BY <1>9, <2>3, <2>4, <2>5, Zenon
<1>11. \A p \in Nat : InPlace(p) => InPlace(p)'
  <2> SUFFICES ASSUME NEW p \in Nat, InPlace(p) PROVE InPlace(p)'
    BY Zenon
  <2>1. /\ stream \in Seq(0 .. 255) /\ p + Len(stream) = arrived
        /\ \A j \in 1 .. Len(stream) : stream[j] = written[p + j]
    BY Zenon DEF InPlace, InBuffer
  <2>2. Len(stream) \in Nat
    BY <2>1, LenProperties, Zenon
  <2>3. PICK t : t = stream \o v
    BY Zenon
  <2>4. Stands(0 .. 255, t, stream, v)
    BY <1>10, <2>1, <2>3, JoinIs
  <2>5. /\ t \in Seq(0 .. 255) /\ Len(t) = Len(stream) + Len(v)
        /\ \A j \in 1 .. Len(stream) : t[j] = stream[j]
        /\ \A j \in 1 .. Len(v) : t[Len(stream) + j] = v[j]
    BY <2>4, Zenon DEF Stands
  <2>a. PICK a, x, y, z : a = arrived /\ x = Len(stream) /\ y = Len(v) /\ z = Len(t)
    BY Zenon
  <2>b. /\ a \in Nat /\ x \in Nat /\ n \in Nat /\ a < n
        /\ y = n - a /\ p + x = a /\ z = x + y
    BY <1>3, <1>4, <1>10, <2>1, <2>2, <2>5, <2>a, Zenon
  <2>6. p + Len(t) = n
    <3>1. p + z = n
      BY <2>b
    <3> QED
      BY <2>a, <3>1, Zenon
  <2>7. \A j \in 1 .. Len(t) : t[j] = written[p + j]
    <3> SUFFICES ASSUME NEW j \in 1 .. Len(t) PROVE t[j] = written[p + j]
      BY Zenon
    <3>1. CASE j <= Len(stream)
      <4>1. j \in 1 .. Len(stream)
        BY <2>2, <3>1
      <4> QED
        BY <2>1, <2>5, <4>1, Zenon
    <3>2. CASE ~(j <= Len(stream))
      <4>0. j \in 1 .. z /\ ~(j <= x)
        BY <2>a, <3>2, Zenon
      <4>1. PICK i : i = j - x
        BY Zenon
      <4>2. i \in 1 .. Len(v) /\ j = Len(stream) + i /\ arrived + i = p + j
        <5>1. i \in 1 .. y /\ j = x + i /\ a + i = p + j
          BY <2>b, <4>0, <4>1
        <5> QED
          BY <2>a, <5>1, Zenon
      <4>3. t[Len(stream) + i] = v[i] /\ v[i] = written[arrived + i]
        BY <1>10, <2>5, <4>2, Zenon
      <4> QED
        BY <4>2, <4>3
    <3> QED
      BY <3>1, <3>2, Zenon
  <2>8. stream' = t
    BY <1>0, <1>9, <2>3, Zenon
  <2> QED
    BY <1>0, <1>1, <2>5, <2>6, <2>7, <2>8 DEF InPlace, InBuffer
<1>12. ReaderInv'
  <2>1. Len(sent') \in Nat /\ Len(sent) <= Len(sent') /\ \A k \in 1 .. Len(sent) : sent'[k] = sent[k]
    BY <1>1, <1>3
  <2> QED
    BY <1>1, <1>2, <1>5, <1>11, <2>1, ReaderKept, Zenon
<1>13. torn' = torn
  BY <1>1, SameReader, Zenon
<1> QED
  BY <1>2, <1>6, <1>7, <1>8, <1>12, <1>13, Zenon DEF FrameInv, F!TornOnlyBySplit

-----------------------------------------------------------------------------
(* read_frame keeps in step with the stream. *)

LEMMA FrameInit == F!Init => FrameInv
<1> SUFFICES ASSUME F!Init PROVE FrameInv
  OBVIOUS
<1>1. /\ sent = <<>> /\ written = <<>> /\ ends = <<>> /\ arrived = 0 /\ stream = <<>>
      /\ reader_at = "idle" /\ header = <<>> /\ key = <<>> /\ payload = <<>>
      /\ relayed = <<>> /\ split = FALSE /\ torn = FALSE
  BY Zenon DEF F!Init
<1>2. Len(<<>>) = 0 /\ 1 .. 0 = {} /\ 0 + 1 = 1 /\ 1 - 1 = 0
  OBVIOUS
<1>3. F!Begins(1) = 0
  BY Zenon DEF F!Begins
<1>4. WrittenInv
  <2>1. \A k \in 1 .. Len(sent) + 1 : k = 1
    BY <1>1, <1>2
  <2>2. sent \in Seq(Frames) /\ written \in Seq(0 .. 255) /\ ends \in Seq(Nat)
        /\ Len(sent) = 0 /\ Len(ends) = 0 /\ Len(written) = 0 /\ arrived \in 0 .. Len(written)
    BY <1>1, <1>2
  <2>3. \A k \in 1 .. Len(sent) + 1 : \A m \in 1 .. k - 1 : ends[m] <= F!Begins(k)
    BY <1>2, <2>1, Zenon
  <2>4. F!Begins(Len(sent) + 1) = Len(written)
    BY <1>2, <1>3, <2>2, Zenon
  <2>5. \A k \in 1 .. Len(sent) : FALSE
    BY <1>2, <2>2, Zenon
  <2> QED
    BY <2>2, <2>3, <2>4, <2>5, Zenon DEF WrittenInv
<1>5. CutInv
  BY <1>1, Zenon DEF CutInv
<1>6. RelayedInv
  BY <1>1, <1>2 DEF RelayedInv
<1>7. 0 \in Nat /\ InPlace(0)
  BY <1>1, <1>2 DEF InPlace, InBuffer
<1>8. Place(0, Len(relayed) + 1)
  <2>1. Len(relayed) + 1 = 1
    BY <1>1, <1>2, Zenon
  <2>2. AtIdle(0, F!Begins(1))
    BY <1>1, <1>3, Zenon DEF AtIdle
  <2> QED
    BY <2>1, <2>2, Zenon DEF Place
<1> QED
  BY <1>1, <1>4, <1>5, <1>6, <1>7, <1>8, Zenon DEF FrameInv, ReaderInv, F!TornOnlyBySplit

LEMMA FrameNext == FrameInv /\ F!Next => FrameInv'
<1> SUFFICES ASSUME FrameInv, F!Next PROVE FrameInv'
  OBVIOUS
<1>1. CASE F!Send
  BY <1>1, StepSend, Zenon
<1>2. CASE F!Arrive
  BY <1>2, StepArrive, Zenon
<1>3. CASE F!ReadHeader
  BY <1>3, StepReadHeader, Zenon
<1>4. CASE F!ReadExtended
  BY <1>4, StepReadExtended, Zenon
<1>5. CASE F!ReadKey
  BY <1>5, StepReadKey, Zenon
<1>6. CASE F!CannotAllocate
  BY <1>6, StepCannotAllocate, Zenon
<1>7. CASE F!ReadPayload
  BY <1>7, StepReadPayload, Zenon
<1>8. CASE F!ReadComplete
  BY <1>8, StepReadComplete, Zenon
<1>9. CASE F!ReadShort
  BY <1>9, StepReadShort, Zenon
<1> QED
  BY <1>1, <1>2, <1>3, <1>4, <1>5, <1>6, <1>7, <1>8, <1>9, Zenon DEF F!Next, F!ReadFrame

LEMMA FrameStutters == FrameInv /\ UNCHANGED reading => FrameInv'
<1> SUFFICES ASSUME FrameInv, UNCHANGED reading PROVE FrameInv'
  OBVIOUS
<1>1. /\ sent' = sent /\ written' = written /\ ends' = ends /\ arrived' = arrived
      /\ split' = split /\ stream' = stream
      /\ reader_at' = reader_at /\ header' = header /\ key' = key /\ payload' = payload
      /\ relayed' = relayed /\ torn' = torn
  BY Zenon DEF reading
<1>2. UNCHANGED F!client /\ UNCHANGED F!reader
  BY <1>1, Zenon DEF F!client, F!reader
<1>3. /\ WrittenInv /\ CutInv /\ ReaderInv /\ split \in BOOLEAN /\ torn \in BOOLEAN
      /\ torn => split
  BY Zenon DEF FrameInv, F!TornOnlyBySplit
<1>4. WrittenInv' /\ CutInv' /\ \A k : F!Begins(k)' = F!Begins(k)
  BY <1>2, <1>3, SameClient, Zenon
<1>5. \A p \in Nat : InPlace(p) => InPlace(p)'
  BY <1>1 DEF InPlace, InBuffer
<1>6. ReaderInv'
  <2>1. Len(sent) \in Nat
    BY <1>3, BeginsType, Zenon
  <2>2. Len(sent') \in Nat /\ Len(sent) <= Len(sent') /\ \A k \in 1 .. Len(sent) : sent'[k] = sent[k]
    BY <1>1, <2>1
  <2> QED
    BY <1>2, <1>3, <1>4, <1>5, <2>2, ReaderKept, Zenon
<1> QED
  BY <1>1, <1>3, <1>4, <1>6, Zenon DEF FrameInv, F!TornOnlyBySplit

LEMMA FrameInvStep == FrameInv => F!InStep
<1> SUFFICES ASSUME FrameInv, reader_at = "idle", ~torn
             PROVE  /\ Len(relayed) <= Len(sent)
                    /\ \A k \in 1 .. Len(relayed) : relayed[k] = F!Said(sent[k])
                    /\ stream = SubSeq(written, F!Begins(Len(relayed) + 1) + 1, arrived)
  BY Zenon DEF F!InStep
<1>1. /\ WrittenInv /\ RelayedInv
      /\ \E p \in Nat : InPlace(p) /\ Place(p, Len(relayed) + 1)
  BY Zenon DEF FrameInv, ReaderInv
<1>2. PICK p \in Nat : InPlace(p) /\ Place(p, Len(relayed) + 1)
  BY <1>1, Zenon
<1>3. p = F!Begins(Len(relayed) + 1)
  <2>1. reader_at # "length" /\ reader_at # "key" /\ reader_at # "payload"
    OBVIOUS
  <2> QED
    BY <1>2, <2>1, Zenon DEF Place, InFrame, AtIdle, AtLength, AtKey, AtPayload
<1>4. /\ stream \in Seq(0 .. 255) /\ p + Len(stream) = arrived
      /\ \A j \in 1 .. Len(stream) : stream[j] = written[p + j]
  BY <1>2, Zenon DEF InPlace, InBuffer
<1>5. Len(stream) \in Nat /\ \A j \in 1 .. Len(stream) : stream[j] \in 0 .. 255
  BY <1>4, LenProperties, ElementOfSeq, Zenon
<1>6. PICK a, n : a = arrived /\ n = Len(stream)
  BY Zenon
<1>7. a \in Nat /\ n \in Nat /\ p + n = a /\ \A j \in 1 .. n : written[p + j] \in 0 .. 255
  <2>1. arrived \in Nat
    BY <1>1, BeginsType, Zenon
  <2> QED
    BY <1>4, <1>5, <1>6, <2>1
<1>8. \A j \in p + 1 .. a : written[j] \in 0 .. 255
  <2> SUFFICES ASSUME NEW j \in p + 1 .. a PROVE written[j] \in 0 .. 255
    BY Zenon
  <2>1. j - p \in 1 .. n /\ p + (j - p) = j
    BY <1>7
  <2> QED
    BY <1>7, <2>1, Zenon
<1>9. PICK s : s = SubSeq(written, p + 1, a)
  BY Zenon
<1>10. /\ s \in Seq(0 .. 255) /\ Len(s) = (IF p + 1 <= a THEN a - (p + 1) + 1 ELSE 0)
       /\ \A i \in 1 .. a - (p + 1) + 1 : s[i] = written[(p + 1) + i - 1]
  <2>1. p + 1 \in Int /\ a \in Int
    BY <1>7
  <2> QED
    BY <1>8, <1>9, <2>1, SubSeqProperties
<1>11. Len(s) = n
  BY <1>7, <1>10
<1>12. \A i \in 1 .. n : s[i] = written[p + i]
  <2>1. \A i \in 1 .. n : i \in 1 .. a - (p + 1) + 1 /\ (p + 1) + i - 1 = p + i
    BY <1>7
  <2> QED
    BY <1>10, <2>1, Zenon
<1>13. \A i \in 1 .. Len(stream) : stream[i] = s[i]
  BY <1>4, <1>6, <1>12, Zenon
<1>14. stream = s
  BY <1>4, <1>6, <1>10, <1>11, <1>13, SeqEqual, Zenon
<1>15. /\ Len(relayed) <= Len(sent)
       /\ \A k \in 1 .. Len(relayed) : relayed[k] = F!Said(sent[k])
  BY <1>1, Zenon DEF RelayedInv
<1> QED
  BY <1>3, <1>6, <1>9, <1>14, <1>15, Zenon

LEMMA FrameInvDead == FrameInv => F!DeadOnlyAfterTear
<1> SUFFICES ASSUME FrameInv, ~torn, reader_at = "dead" PROVE FALSE
  BY Zenon DEF F!DeadOnlyAfterTear
<1>1. reader_at # "idle" /\ reader_at # "length" /\ reader_at # "key" /\ reader_at # "payload"
  OBVIOUS
<1>2. PICK p, k, b, f : Reads(p, k, b, f) /\ InFrame(p, b, f)
  BY <1>1, InAFrame, Zenon
<1> QED
  BY <1>1, <1>2, Zenon DEF InFrame, AtLength, AtKey, AtPayload

(* As long as no frame arrives in pieces, read_frame takes the bytes of    *)
(* each frame and no others, whatever its length encoding, its mask and    *)
(* its opcode, and gives back its text: for all frames a client may send,  *)
(* however many, and in whatever pieces they arrive between the recv       *)
(* calls (src/websocket_handler.cpp:16-92).                                *)
THEOREM FramesStayInStep == WebSocketSpec => []FramesInStep
<1>1. WebSocketInit => FrameInv
  BY FrameInit, Zenon DEF WebSocketInit
<1>2. FrameInv /\ [WebSocketNext]_webSocketVars => FrameInv'
  <2> SUFFICES ASSUME FrameInv, [WebSocketNext]_webSocketVars PROVE FrameInv'
    OBVIOUS
  <2>1. CASE Read
    BY <2>1, FrameNext, Zenon DEF Read
  <2>2. CASE UNCHANGED reading
    BY <2>2, FrameStutters, Zenon
  <2> QED
    BY <2>1, <2>2, Zenon DEF WebSocketNext, HashShort, Measure, Upgrade, EncodeAll, webSocketVars
<1>3. FrameInv => FramesInStep
  BY FrameInvStep, FrameInvDead, Zenon DEF FrameInv, FramesInStep
<1> QED
  BY <1>1, <1>2, <1>3, PTL DEF WebSocketSpec


-----------------------------------------------------------------------------
(* The upgrade *)

HasKey == \E n \in DOMAIN headers : LowerCase[n] = "sec-websocket-key"
EmptyKey == \E n \in DOMAIN headers : LowerCase[n] = "sec-websocket-key" /\ headers[n] = <<>>

(* What led get_accept_key where it is; the headers stay what they were. *)
UpgradeInv ==
  /\ upgrade_at \in {"hash", "upgraded"} => "Upgrade" \in DOMAIN headers /\ HasKey
  /\ upgrade_at = "plain" => "Upgrade" \notin DOMAIN headers \/ ~HasKey \/ EmptyKey

LEMMA UpgradeInit == WebSocketInit => UpgradeInv
<1> SUFFICES ASSUME WebSocketInit PROVE UpgradeInv
  OBVIOUS
<1>1. A!Init \/ NoRequest
  BY Zenon DEF WebSocketInit
<1>2. upgrade_at \in {"request", "not called"}
  BY <1>1, Zenon DEF A!Init, NoRequest
<1>3. upgrade_at \notin {"hash", "upgraded"} /\ upgrade_at # "plain"
  BY <1>2
<1> QED
  BY <1>3, Zenon DEF UpgradeInv

LEMMA UpgradeNext == UpgradeInv /\ A!Next => UpgradeInv'
<1> SUFFICES ASSUME UpgradeInv, A!Next PROVE UpgradeInv'
  OBVIOUS
<1>1. headers' = headers
  BY Zenon DEF A!Next, A!FindWebsocketKey, A!Plain, A!Round, A!EndBlock, A!Answer
<1>2. HasKey' = HasKey /\ EmptyKey' = EmptyKey
  BY <1>1, Zenon DEF HasKey, EmptyKey
<1>3. ASSUME NEW n \in DOMAIN headers, A!FindWebsocketKey(n) PROVE UpgradeInv'
  <2>1. upgrade_at' = "hash" /\ "Upgrade" \in DOMAIN headers
    BY <1>3, Zenon DEF A!FindWebsocketKey, A!IsWebsocket
  <2>2. HasKey
    BY <1>3, Zenon DEF A!FindWebsocketKey, A!KeyNames, HasKey
  <2>3. upgrade_at' # "plain"
    BY <2>1
  <2> QED
    BY <1>1, <1>2, <2>1, <2>2, <2>3, Zenon DEF UpgradeInv
<1>4. CASE A!Plain
  <2>1. upgrade_at' = "plain"
    BY <1>4, Zenon DEF A!Plain
  <2>2. A!KeyNames = {} => ~HasKey
    BY Zenon DEF A!KeyNames, HasKey
  <2>3. (\E n \in A!KeyNames : headers[n] = <<>>) => EmptyKey
    BY Zenon DEF A!KeyNames, EmptyKey
  <2>4. "Upgrade" \notin DOMAIN headers \/ ~HasKey \/ EmptyKey
    BY <1>4, <2>2, <2>3, Zenon DEF A!Plain, A!IsWebsocket
  <2>5. upgrade_at' \notin {"hash", "upgraded"}
    BY <2>1
  <2> QED
    BY <1>1, <1>2, <2>1, <2>4, <2>5, Zenon DEF UpgradeInv
<1>5. CASE A!Round \/ A!EndBlock
  <2>1. upgrade_at' = upgrade_at
    BY <1>5, Zenon DEF A!Round, A!EndBlock
  <2> QED
    BY <1>1, <1>2, <2>1, Zenon DEF UpgradeInv
<1>6. CASE A!Answer
  <2>1. upgrade_at = "hash" /\ upgrade_at' = "upgraded"
    BY <1>6, Zenon DEF A!Answer
  <2>2. upgrade_at \in {"hash", "upgraded"} /\ upgrade_at' # "plain"
    BY <2>1
  <2> QED
    BY <1>1, <1>2, <2>2, Zenon DEF UpgradeInv
<1> QED
  BY <1>3, <1>4, <1>5, <1>6, Zenon DEF A!Next

LEMMA UpgradeInvAsked == UpgradeInv => A!UpgradedAsAsked
<1> SUFFICES ASSUME UpgradeInv PROVE A!UpgradedAsAsked
  OBVIOUS
<1>1. "sec-websocket-key" \in A!Asked <=> HasKey
  BY Zenon DEF A!Asked, HasKey
<1>2. "Upgrade" \in DOMAIN headers => "upgrade" \in A!Asked
  BY LowerCaseAssumption, Zenon DEF A!Asked
<1>3. upgrade_at = "upgraded" => {"upgrade", "sec-websocket-key"} \subseteq A!Asked
  <2>1. SUFFICES ASSUME upgrade_at = "upgraded" PROVE {"upgrade", "sec-websocket-key"} \subseteq A!Asked
    OBVIOUS
  <2>2. upgrade_at \in {"hash", "upgraded"}
    BY <2>1
  <2> QED
    BY <1>1, <1>2, <2>2, Zenon DEF UpgradeInv
<1>4. ASSUME upgrade_at = "plain", {"upgrade", "sec-websocket-key"} \subseteq A!Asked
      PROVE  "Upgrade" \notin DOMAIN headers \/ EmptyKey
  BY <1>1, <1>4, Zenon DEF UpgradeInv
<1> QED
  BY <1>3, <1>4, Zenon DEF A!UpgradedAsAsked, EmptyKey

LEMMA UpgradeKept == UpgradeInv /\ [WebSocketNext]_webSocketVars => UpgradeInv'
<1> SUFFICES ASSUME UpgradeInv, [WebSocketNext]_webSocketVars PROVE UpgradeInv'
  OBVIOUS
<1>1. CASE Upgrade
  BY <1>1, UpgradeNext, Zenon DEF Upgrade
<1>2. CASE UNCHANGED upgrading
  <2>1. headers' = headers /\ upgrade_at' = upgrade_at
    BY <1>2, Zenon DEF upgrading
  <2> QED
    BY <2>1, Zenon DEF UpgradeInv, HasKey, EmptyKey
<1> QED
  BY <1>1, <1>2, Zenon DEF WebSocketNext, HashShort, Measure, Read, EncodeAll, webSocketVars


-----------------------------------------------------------------------------
(* Base64 *)

Octets8 == 0 .. 255
Sextets == 0 .. 63

(* The bits of a digit are bits of the octets it is made of. *)
FirstBits(d, a) ==
  /\ (d \div 32) % 2 = (a \div 128) % 2 /\ (d \div 16) % 2 = (a \div 64) % 2
  /\ (d \div 8) % 2 = (a \div 32) % 2 /\ (d \div 4) % 2 = (a \div 16) % 2
  /\ (d \div 2) % 2 = (a \div 8) % 2 /\ (d \div 1) % 2 = (a \div 4) % 2

LEMMA FirstBitsHold ==
  ASSUME NEW a \in Octets8, NEW d, d = a \div 4
  PROVE  d \in Sextets /\ FirstBits(d, a)
<1>1. d \in 0 .. 63
  BY DEF Octets8
<1>2. (d \div 32) % 2 = (a \div 128) % 2
  BY DEF Octets8
<1>3. (d \div 16) % 2 = (a \div 64) % 2
  BY DEF Octets8
<1>4. (d \div 8) % 2 = (a \div 32) % 2
  BY DEF Octets8
<1>5. (d \div 4) % 2 = (a \div 16) % 2
  BY DEF Octets8
<1>6. (d \div 2) % 2 = (a \div 8) % 2
  BY DEF Octets8
<1>7. (d \div 1) % 2 = (a \div 4) % 2
  BY DEF Octets8
<1> QED
  BY <1>1, <1>2, <1>3, <1>4, <1>5, <1>6, <1>7 DEF FirstBits, Sextets

SecondBits(d, a, b) ==
  /\ (d \div 32) % 2 = (a \div 2) % 2 /\ (d \div 16) % 2 = (a \div 1) % 2
  /\ (d \div 8) % 2 = (b \div 128) % 2 /\ (d \div 4) % 2 = (b \div 64) % 2
  /\ (d \div 2) % 2 = (b \div 32) % 2 /\ (d \div 1) % 2 = (b \div 16) % 2

LEMMA SecondBitsHold ==
  ASSUME NEW a \in Octets8, NEW b \in Octets8, NEW d, d = (a % 4) * 16 + b \div 16
  PROVE  d \in Sextets /\ SecondBits(d, a, b)
<1>1. d \in 0 .. 63
  BY DEF Octets8
<1>2. (d \div 32) % 2 = (a \div 2) % 2
  BY DEF Octets8
<1>3. (d \div 16) % 2 = (a \div 1) % 2
  BY DEF Octets8
<1>4. (d \div 8) % 2 = (b \div 128) % 2
  BY DEF Octets8
<1>5. (d \div 4) % 2 = (b \div 64) % 2
  BY DEF Octets8
<1>6. (d \div 2) % 2 = (b \div 32) % 2
  BY DEF Octets8
<1>7. (d \div 1) % 2 = (b \div 16) % 2
  BY DEF Octets8
<1> QED
  BY <1>1, <1>2, <1>3, <1>4, <1>5, <1>6, <1>7 DEF SecondBits, Sextets

ThirdBits(d, a, b) ==
  /\ (d \div 32) % 2 = (a \div 8) % 2 /\ (d \div 16) % 2 = (a \div 4) % 2
  /\ (d \div 8) % 2 = (a \div 2) % 2 /\ (d \div 4) % 2 = (a \div 1) % 2
  /\ (d \div 2) % 2 = (b \div 128) % 2 /\ (d \div 1) % 2 = (b \div 64) % 2

LEMMA ThirdBitsHold ==
  ASSUME NEW a \in Octets8, NEW b \in Octets8, NEW d, d = (a % 16) * 4 + b \div 64
  PROVE  d \in Sextets /\ ThirdBits(d, a, b)
<1>1. d \in 0 .. 63
  BY DEF Octets8
<1>2. (d \div 32) % 2 = (a \div 8) % 2
  BY DEF Octets8
<1>3. (d \div 16) % 2 = (a \div 4) % 2
  BY DEF Octets8
<1>4. (d \div 8) % 2 = (a \div 2) % 2
  BY DEF Octets8
<1>5. (d \div 4) % 2 = (a \div 1) % 2
  BY DEF Octets8
<1>6. (d \div 2) % 2 = (b \div 128) % 2
  BY DEF Octets8
<1>7. (d \div 1) % 2 = (b \div 64) % 2
  BY DEF Octets8
<1> QED
  BY <1>1, <1>2, <1>3, <1>4, <1>5, <1>6, <1>7 DEF ThirdBits, Sextets

FourthBits(d, a) ==
  /\ (d \div 32) % 2 = (a \div 32) % 2 /\ (d \div 16) % 2 = (a \div 16) % 2
  /\ (d \div 8) % 2 = (a \div 8) % 2 /\ (d \div 4) % 2 = (a \div 4) % 2
  /\ (d \div 2) % 2 = (a \div 2) % 2 /\ (d \div 1) % 2 = (a \div 1) % 2

LEMMA FourthBitsHold ==
  ASSUME NEW a \in Octets8, NEW d, d = a % 64
  PROVE  d \in Sextets /\ FourthBits(d, a)
<1>1. d \in 0 .. 63
  BY DEF Octets8
<1>2. (d \div 32) % 2 = (a \div 32) % 2
  BY DEF Octets8
<1>3. (d \div 16) % 2 = (a \div 16) % 2
  BY DEF Octets8
<1>4. (d \div 8) % 2 = (a \div 8) % 2
  BY DEF Octets8
<1>5. (d \div 4) % 2 = (a \div 4) % 2
  BY DEF Octets8
<1>6. (d \div 2) % 2 = (a \div 2) % 2
  BY DEF Octets8
<1>7. (d \div 1) % 2 = (a \div 1) % 2
  BY DEF Octets8
<1> QED
  BY <1>1, <1>2, <1>3, <1>4, <1>5, <1>6, <1>7 DEF FourthBits, Sextets

(* Bit y, from 0, of the four digits and of the three octets. *)
DigitBit(d, y) == (d[y \div 6 + 1] \div E!Weight[6 - (y % 6)]) % 2
OctetBit(o, y) == (o[y \div 8 + 1] \div E!Weight[8 - (y % 8)]) % 2

(* Four digits that have the bits of three octets. *)
BitsAgree(d, o) ==
  /\ d \in [1 .. 4 -> Sextets]
  /\ \A y \in 0 .. 23 : DigitBit(d, y) = OctetBit(o, y)

LEMMA BitPlaces ==
  ASSUME NEW y \in 0 .. 23
  PROVE  /\ y \in 0 .. 5 => y \div 6 + 1 = 1 /\ y % 6 = y /\ y \div 8 + 1 = 1 /\ y % 8 = y
         /\ y \in 6 .. 7 => y \div 6 + 1 = 2 /\ y % 6 = y - 6 /\ y \div 8 + 1 = 1 /\ y % 8 = y
         /\ y \in 8 .. 11 => y \div 6 + 1 = 2 /\ y % 6 = y - 6 /\ y \div 8 + 1 = 2 /\ y % 8 = y - 8
         /\ y \in 12 .. 15 => y \div 6 + 1 = 3 /\ y % 6 = y - 12 /\ y \div 8 + 1 = 2 /\ y % 8 = y - 8
         /\ y \in 16 .. 17 => y \div 6 + 1 = 3 /\ y % 6 = y - 12 /\ y \div 8 + 1 = 3 /\ y % 8 = y - 16
         /\ y \in 18 .. 23 => y \div 6 + 1 = 4 /\ y % 6 = y - 18 /\ y \div 8 + 1 = 3 /\ y % 8 = y - 16
OBVIOUS

LEMMA Weights ==
  /\ E!Weight[1] = 1 /\ E!Weight[2] = 2 /\ E!Weight[3] = 4 /\ E!Weight[4] = 8
  /\ E!Weight[5] = 16 /\ E!Weight[6] = 32 /\ E!Weight[7] = 64 /\ E!Weight[8] = 128
BY DEF E!Weight

LEMMA SameBits ==
  ASSUME NEW a \in Octets8, NEW b \in Octets8, NEW c \in Octets8, NEW d, NEW o,
         d = E!Digits(a, b, c), o = <<a, b, c>>
  PROVE  BitsAgree(d, o)
<1>1. PICK d1, d2, d3, d4 : /\ d1 = a \div 4
                            /\ d2 = (a % 4) * 16 + b \div 16
                            /\ d3 = (b % 16) * 4 + c \div 64
                            /\ d4 = c % 64
  OBVIOUS
<1>2. d = <<d1, d2, d3, d4>>
  BY <1>1, Zenon DEF E!Digits
<1>5. d[1] = d1 /\ d[2] = d2 /\ d[3] = d3 /\ d[4] = d4 /\ o[1] = a /\ o[2] = b /\ o[3] = c
  BY <1>2
<1>7. d1 \in Sextets /\ FirstBits(d1, a)
  BY <1>1, FirstBitsHold, Zenon
<1>8. d2 \in Sextets /\ SecondBits(d2, a, b)
  BY <1>1, SecondBitsHold, Zenon
<1>9. d3 \in Sextets /\ ThirdBits(d3, b, c)
  BY <1>1, ThirdBitsHold, Zenon
<1>10. d4 \in Sextets /\ FourthBits(d4, c)
  BY <1>1, FourthBitsHold, Zenon
<1>11. ASSUME NEW y \in 0 .. 23
       PROVE  DigitBit(d, y) = OctetBit(o, y)
  <2>1. y \in 0 .. 5 \/ y \in 6 .. 7 \/ y \in 8 .. 11 \/ y \in 12 .. 15 \/ y \in 16 .. 17
        \/ y \in 18 .. 23
    OBVIOUS
  <2>2. ASSUME y \in 0 .. 5 PROVE DigitBit(d, y) = OctetBit(o, y)
    <3>1. y \div 6 + 1 = 1 /\ 6 - (y % 6) = 6 - y /\ y \div 8 + 1 = 1 /\ 8 - (y % 8) = 8 - y
      BY <2>2, BitPlaces
    <3>2. DigitBit(d, y) = (d1 \div E!Weight[6 - y]) % 2 /\ OctetBit(o, y) = (a \div E!Weight[8 - y]) % 2
      BY <1>5, <3>1, Zenon DEF DigitBit, OctetBit
    <3>3. y = 0 \/ y = 1 \/ y = 2 \/ y = 3 \/ y = 4 \/ y = 5
      BY <2>2
    <3>4. (d1 \div E!Weight[6 - y]) % 2 = (a \div E!Weight[8 - y]) % 2
      BY <1>7, <3>3, Weights DEF FirstBits
    <3> QED
      BY <3>2, <3>4, Zenon
  <2>3. ASSUME y \in 6 .. 7 PROVE DigitBit(d, y) = OctetBit(o, y)
    <3>1. y \div 6 + 1 = 2 /\ 6 - (y % 6) = 12 - y /\ y \div 8 + 1 = 1 /\ 8 - (y % 8) = 8 - y
      BY <2>3, BitPlaces
    <3>2. DigitBit(d, y) = (d2 \div E!Weight[12 - y]) % 2 /\ OctetBit(o, y) = (a \div E!Weight[8 - y]) % 2
      BY <1>5, <3>1, Zenon DEF DigitBit, OctetBit
    <3>3. y = 6 \/ y = 7
      BY <2>3
    <3>4. (d2 \div E!Weight[12 - y]) % 2 = (a \div E!Weight[8 - y]) % 2
      BY <1>8, <3>3, Weights DEF SecondBits
    <3> QED
      BY <3>2, <3>4, Zenon
  <2>4. ASSUME y \in 8 .. 11 PROVE DigitBit(d, y) = OctetBit(o, y)
    <3>1. y \div 6 + 1 = 2 /\ 6 - (y % 6) = 12 - y /\ y \div 8 + 1 = 2 /\ 8 - (y % 8) = 16 - y
      BY <2>4, BitPlaces
    <3>2. DigitBit(d, y) = (d2 \div E!Weight[12 - y]) % 2 /\ OctetBit(o, y) = (b \div E!Weight[16 - y]) % 2
      BY <1>5, <3>1, Zenon DEF DigitBit, OctetBit
    <3>3. y = 8 \/ y = 9 \/ y = 10 \/ y = 11
      BY <2>4
    <3>4. (d2 \div E!Weight[12 - y]) % 2 = (b \div E!Weight[16 - y]) % 2
      BY <1>8, <3>3, Weights DEF SecondBits
    <3> QED
      BY <3>2, <3>4, Zenon
  <2>5. ASSUME y \in 12 .. 15 PROVE DigitBit(d, y) = OctetBit(o, y)
    <3>1. y \div 6 + 1 = 3 /\ 6 - (y % 6) = 18 - y /\ y \div 8 + 1 = 2 /\ 8 - (y % 8) = 16 - y
      BY <2>5, BitPlaces
    <3>2. DigitBit(d, y) = (d3 \div E!Weight[18 - y]) % 2 /\ OctetBit(o, y) = (b \div E!Weight[16 - y]) % 2
      BY <1>5, <3>1, Zenon DEF DigitBit, OctetBit
    <3>3. y = 12 \/ y = 13 \/ y = 14 \/ y = 15
      BY <2>5
    <3>4. (d3 \div E!Weight[18 - y]) % 2 = (b \div E!Weight[16 - y]) % 2
      BY <1>9, <3>3, Weights DEF ThirdBits
    <3> QED
      BY <3>2, <3>4, Zenon
  <2>6. ASSUME y \in 16 .. 17 PROVE DigitBit(d, y) = OctetBit(o, y)
    <3>1. y \div 6 + 1 = 3 /\ 6 - (y % 6) = 18 - y /\ y \div 8 + 1 = 3 /\ 8 - (y % 8) = 24 - y
      BY <2>6, BitPlaces
    <3>2. DigitBit(d, y) = (d3 \div E!Weight[18 - y]) % 2 /\ OctetBit(o, y) = (c \div E!Weight[24 - y]) % 2
      BY <1>5, <3>1, Zenon DEF DigitBit, OctetBit
    <3>3. y = 16 \/ y = 17
      BY <2>6
    <3>4. (d3 \div E!Weight[18 - y]) % 2 = (c \div E!Weight[24 - y]) % 2
      BY <1>9, <3>3, Weights DEF ThirdBits
    <3> QED
      BY <3>2, <3>4, Zenon
  <2>7. ASSUME y \in 18 .. 23 PROVE DigitBit(d, y) = OctetBit(o, y)
    <3>1. y \div 6 + 1 = 4 /\ 6 - (y % 6) = 24 - y /\ y \div 8 + 1 = 3 /\ 8 - (y % 8) = 24 - y
      BY <2>7, BitPlaces
    <3>2. DigitBit(d, y) = (d4 \div E!Weight[24 - y]) % 2 /\ OctetBit(o, y) = (c \div E!Weight[24 - y]) % 2
      BY <1>5, <3>1, Zenon DEF DigitBit, OctetBit
    <3>3. y = 18 \/ y = 19 \/ y = 20 \/ y = 21 \/ y = 22 \/ y = 23
      BY <2>7
    <3>4. (d4 \div E!Weight[24 - y]) % 2 = (c \div E!Weight[24 - y]) % 2
      BY <1>10, <3>3, Weights DEF FourthBits
    <3> QED
      BY <3>2, <3>4, Zenon
  <2> QED
    BY <2>1, <2>2, <2>3, <2>4, <2>5, <2>6, <2>7, Zenon
<1>12. d \in [1 .. 4 -> Sextets]
  BY <1>2, <1>7, <1>8, <1>9, <1>10
<1> QED
  BY <1>11, <1>12, Zenon DEF BitsAgree

(* Octet n of s, with zeros behind its end. *)
OctetAt(s, n) == IF n <= Len(s) THEN s[n] ELSE 0

LEMMA OctetAtType ==
  ASSUME NEW s \in Seq(Octets8), NEW n \in Nat, n >= 1
  PROVE  OctetAt(s, n) \in Octets8
<1>1. n <= Len(s) => s[n] \in Octets8
  OBVIOUS
<1>2. 0 \in Octets8
  BY DEF Octets8
<1> QED
  BY <1>1, <1>2, Zenon DEF OctetAt

(* The digits d of three octets o are those of the group at m, but for the  *)
(* equals signs behind the end.                                            *)
GroupMade(s, m, d, o) ==
  /\ BitsAgree(d, o)
  /\ o = <<OctetAt(s, m + 1), OctetAt(s, m + 2), OctetAt(s, m + 3)>>
  /\ E!Group(s, m) = <<d[1], d[2], IF Len(s) > m + 1 THEN d[3] ELSE 64,
                       IF Len(s) > m + 2 THEN d[4] ELSE 64>>

LEMMA GroupIs ==
  ASSUME NEW s \in Seq(Octets8), NEW g \in Nat, 3 * g < Len(s)
  PROVE  \E d, o : GroupMade(s, 3 * g, d, o)
<1>1. PICK m : m = 3 * g
  OBVIOUS
<1>2. m \in Nat /\ m < Len(s) /\ Len(s) \in Nat
  BY <1>1
<1>3. PICK a, b, c : a = OctetAt(s, m + 1) /\ b = OctetAt(s, m + 2) /\ c = OctetAt(s, m + 3)
  OBVIOUS
<1>4. a \in Octets8 /\ b \in Octets8 /\ c \in Octets8
  <2>1. m + 1 \in Nat /\ m + 1 >= 1 /\ m + 2 \in Nat /\ m + 2 >= 1 /\ m + 3 \in Nat /\ m + 3 >= 1
    BY <1>2
  <2> QED
    BY <1>3, <2>1, OctetAtType, Zenon
<1>5. PICK d : d = E!Digits(a, b, c)
  OBVIOUS
<1>6. PICK o : o = <<a, b, c>>
  OBVIOUS
<1>7. BitsAgree(d, o)
  BY <1>4, <1>5, <1>6, SameBits, Zenon
<1>8. E!Group(s, m) = <<d[1], d[2], IF Len(s) > m + 1 THEN d[3] ELSE 64,
                                   IF Len(s) > m + 2 THEN d[4] ELSE 64>>
  <2>1. a = s[m + 1] /\ b = (IF Len(s) - m > 1 THEN s[m + 2] ELSE 0)
        /\ c = (IF Len(s) - m > 2 THEN s[m + 3] ELSE 0)
    BY <1>2, <1>3 DEF OctetAt
  <2>2. E!Group(s, m) = <<d[1], d[2], IF Len(s) - m > 1 THEN d[3] ELSE E!Equals,
                                     IF Len(s) - m > 2 THEN d[4] ELSE E!Equals>>
    BY <1>5, <2>1, Zenon DEF E!Group
  <2>3. (Len(s) - m > 1 <=> Len(s) > m + 1) /\ (Len(s) - m > 2 <=> Len(s) > m + 2)
    BY <1>2
  <2> QED
    BY <2>2, <2>3 DEF E!Equals
<1>9. o = <<OctetAt(s, m + 1), OctetAt(s, m + 2), OctetAt(s, m + 3)>>
  BY <1>3, <1>6, Zenon
<1>10. GroupMade(s, m, d, o)
  BY <1>3, <1>6, <1>7, <1>8, Zenon DEF GroupMade
<1> QED
  BY <1>1, <1>10, Zenon

GroupByGroup(text, s, n) ==
  \A g \in 0 .. n - 1 : \A j \in 1 .. 4 :
    4 * g + j \in 1 .. 4 * n /\ text[4 * g + j] = E!Group(s, 3 * g)[j]

LEMMA EncodedAt ==
  ASSUME NEW s \in Seq(Octets8), NEW n, n = (Len(s) + 2) \div 3
  PROVE  /\ n \in Nat
         /\ Len(E!Encoded(s)) = 4 * n
         /\ GroupByGroup(E!Encoded(s), s, n)
<1>1. Len(s) \in Nat /\ n \in Nat
  OBVIOUS
<1>2. E!Encoded(s) = [p \in 1 .. 4 * n |-> E!Group(s, 3 * ((p - 1) \div 4))[((p - 1) % 4) + 1]]
  BY Zenon DEF E!Encoded
<1>3. Len(E!Encoded(s)) = 4 * n
  <2>1. 4 * n \in Nat
    BY <1>1
  <2> QED
    BY <1>2, <2>1
<1>4. ASSUME NEW g \in 0 .. n - 1, NEW j \in 1 .. 4
      PROVE  4 * g + j \in 1 .. 4 * n /\ E!Encoded(s)[4 * g + j] = E!Group(s, 3 * g)[j]
  <2>1. PICK p : p = 4 * g + j
    OBVIOUS
  <2>2. p \in 1 .. 4 * n /\ (p - 1) \div 4 = g /\ ((p - 1) % 4) + 1 = j
    BY <1>1, <2>1
  <2>3. E!Encoded(s)[p] = E!Group(s, 3 * ((p - 1) \div 4))[((p - 1) % 4) + 1]
    BY <1>2, <2>2, Zenon
  <2> QED
    BY <2>1, <2>2, <2>3, Zenon
<1> QED
  BY <1>1, <1>3, <1>4, Zenon DEF GroupByGroup

(* What is asked of a text, with the numbers of characters and of digits. *)
FilledUp(text, n, D) ==
  \A p \in 1 .. n : IF p <= D THEN text[p] \in 0 .. 63 ELSE text[p] = E!Equals

BitsKept(text, s, D) ==
  \A p \in 0 .. 6 * D - 1 :
    E!Bit(text, 6, p) = IF p < 8 * Len(s) THEN E!Bit(s, 8, p) ELSE 0

LEMMA EncodedFilledUp ==
  ASSUME NEW s \in Seq(Octets8), NEW n, n = (Len(s) + 2) \div 3, NEW D, D = (8 * Len(s) + 5) \div 6
  PROVE  FilledUp(E!Encoded(s), 4 * n, D)
<1> DEFINE text == E!Encoded(s)
<1>1. PICK L : L = Len(s)
  OBVIOUS
<1>2. L \in Nat /\ n \in Nat /\ D \in Nat /\ n = (L + 2) \div 3 /\ D = (8 * L + 5) \div 6
  BY <1>1
<1> SUFFICES ASSUME NEW p \in 1 .. 4 * n
             PROVE  IF p <= D THEN text[p] \in 0 .. 63 ELSE text[p] = E!Equals
  BY Zenon DEF FilledUp
<1>3. PICK g, j : g = (p - 1) \div 4 /\ j = ((p - 1) % 4) + 1
  OBVIOUS
<1>4. g \in 0 .. n - 1 /\ j \in 1 .. 4 /\ p = 4 * g + j
  BY <1>2, <1>3
<1>5. g \in Nat /\ 3 * g < L
  BY <1>2, <1>4
<1>6. text[p] = E!Group(s, 3 * g)[j]
  <2>1. GroupByGroup(text, s, n)
    BY EncodedAt, Zenon
  <2> QED
    BY <1>4, <2>1, Zenon DEF GroupByGroup
<1>b. PICK d, o : GroupMade(s, 3 * g, d, o)
  BY <1>1, <1>5, GroupIs, Zenon
<1>7. /\ BitsAgree(d, o)
      /\ E!Group(s, 3 * g) = <<d[1], d[2], IF L > 3 * g + 1 THEN d[3] ELSE 64,
                               IF L > 3 * g + 2 THEN d[4] ELSE 64>>
  BY <1>1, <1>b, Zenon DEF GroupMade
<1>8. d[1] \in Sextets /\ d[2] \in Sextets /\ d[3] \in Sextets /\ d[4] \in Sextets
  BY <1>7 DEF BitsAgree
<1>9. /\ j = 1 \/ j = 2 => p <= D
      /\ j = 3 => (p <= D <=> L > 3 * g + 1)
      /\ j = 4 => (p <= D <=> L > 3 * g + 2)
  BY <1>2, <1>4, <1>5
<1>10. j = 1 \/ j = 2 \/ j = 3 \/ j = 4
  BY <1>4
<1>11. IF p <= D THEN text[p] \in Sextets ELSE text[p] = 64
  BY <1>6, <1>7, <1>8, <1>9, <1>10
<1> QED
  BY <1>11 DEF Sextets, E!Equals

LEMMA EncodedBits ==
  ASSUME NEW s \in Seq(Octets8), NEW n, n = (Len(s) + 2) \div 3, NEW D, D = (8 * Len(s) + 5) \div 6
  PROVE  BitsKept(E!Encoded(s), s, D)
<1> DEFINE text == E!Encoded(s)
<1>1. PICK L : L = Len(s)
  OBVIOUS
<1>2. L \in Nat /\ n \in Nat /\ D \in Nat /\ n = (L + 2) \div 3 /\ D = (8 * L + 5) \div 6
  BY <1>1
<1> SUFFICES ASSUME NEW q \in 0 .. 6 * D - 1
             PROVE  E!Bit(text, 6, q) = IF q < 8 * L THEN E!Bit(s, 8, q) ELSE 0
  BY <1>1, Zenon DEF BitsKept
<1>3. PICK g, y : g = q \div 24 /\ y = q % 24
  OBVIOUS
<1>4. PICK j, k : j = y \div 6 + 1 /\ k = y \div 8 + 1
  OBVIOUS
<1>5. q = 24 * g + y /\ g \in Nat /\ y \in 0 .. 23
  BY <1>2, <1>3
<1>6. j \in 1 .. 4 /\ k \in 1 .. 3
  BY <1>4, <1>5
<1>7. g \in 0 .. n - 1 /\ 3 * g < L
  BY <1>2, <1>5
<1>8. q \div 6 + 1 = 4 * g + j /\ q % 6 = y % 6 /\ q \div 8 + 1 = 3 * g + k /\ q % 8 = y % 8
  BY <1>4, <1>5
<1>9. /\ j = 3 => L > 3 * g + 1
      /\ j = 4 => L > 3 * g + 2
      /\ q < 8 * L <=> 3 * g + k <= L
  BY <1>2, <1>4, <1>5, <1>6
<1>b. PICK d, o : GroupMade(s, 3 * g, d, o)
  BY <1>1, <1>5, <1>7, GroupIs, Zenon
<1>10. /\ BitsAgree(d, o)
       /\ o = <<OctetAt(s, 3 * g + 1), OctetAt(s, 3 * g + 2), OctetAt(s, 3 * g + 3)>>
       /\ E!Group(s, 3 * g) = <<d[1], d[2], IF L > 3 * g + 1 THEN d[3] ELSE 64,
                                IF L > 3 * g + 2 THEN d[4] ELSE 64>>
  BY <1>1, <1>b, Zenon DEF GroupMade
<1>11. text[4 * g + j] = E!Group(s, 3 * g)[j]
  <2>1. GroupByGroup(text, s, n)
    BY EncodedAt, Zenon
  <2> QED
    BY <1>6, <1>7, <2>1, Zenon DEF GroupByGroup
<1>12. text[4 * g + j] = d[j]
  <2>1. j = 1 \/ j = 2 \/ j = 3 \/ j = 4
    BY <1>6
  <2>2. E!Group(s, 3 * g)[j] = d[j]
    BY <1>9, <1>10, <2>1
  <2> QED
    BY <1>11, <2>2, Zenon
<1>13. o[k] = OctetAt(s, 3 * g + k)
  <2>1. k = 1 \/ k = 2 \/ k = 3
    BY <1>6
  <2> QED
    BY <1>10, <2>1
<1>14. E!Bit(text, 6, q) = DigitBit(d, y)
  BY <1>4, <1>8, <1>12, Zenon DEF E!Bit, DigitBit
<1>15. DigitBit(d, y) = OctetBit(o, y)
  BY <1>5, <1>10 DEF BitsAgree
<1>16. OctetBit(o, y) = (OctetAt(s, 3 * g + k) \div E!Weight[8 - (y % 8)]) % 2
  BY <1>4, <1>13, Zenon DEF OctetBit
<1>17. CASE q < 8 * L
  <2>1. OctetAt(s, 3 * g + k) = s[q \div 8 + 1]
    BY <1>1, <1>8, <1>9, <1>17, Zenon DEF OctetAt
  <2>2. E!Bit(s, 8, q) = OctetBit(o, y)
    BY <1>8, <1>16, <2>1, Zenon DEF E!Bit
  <2> QED
    BY <1>14, <1>15, <1>17, <2>2, Zenon
<1>18. CASE ~(q < 8 * L)
  <2>1. OctetAt(s, 3 * g + k) = 0
    BY <1>1, <1>9, <1>18, Zenon DEF OctetAt
  <2>2. PICK w : w = 8 - (y % 8)
    OBVIOUS
  <2>3. w \in 1 .. 8
    BY <1>5, <2>2
  <2>4. (0 \div E!Weight[w]) % 2 = 0
    <3>1. PICK v : v = E!Weight[w]
      OBVIOUS
    <3>2. v \in Nat /\ v > 0
      <4>1. w = 1 \/ w = 2 \/ w = 3 \/ w = 4 \/ w = 5 \/ w = 6 \/ w = 7 \/ w = 8
        BY <2>3
      <4>2. \/ v = E!Weight[1] \/ v = E!Weight[2] \/ v = E!Weight[3] \/ v = E!Weight[4]
            \/ v = E!Weight[5] \/ v = E!Weight[6] \/ v = E!Weight[7] \/ v = E!Weight[8]
        BY <3>1, <4>1, Zenon
      <4> DEFINE P(u) == u \in Nat /\ u > 0
      <4>4. P(E!Weight[1]) /\ P(E!Weight[2]) /\ P(E!Weight[3]) /\ P(E!Weight[4])
        BY Weights
      <4>5. P(E!Weight[5]) /\ P(E!Weight[6]) /\ P(E!Weight[7]) /\ P(E!Weight[8])
        BY Weights
      <4> HIDE DEF P
      <4>6. P(v)
        BY <4>2, <4>4, <4>5, Zenon
      <4> QED
        BY <4>6 DEF P
    <3>3. (0 \div v) % 2 = 0
      BY <3>2
    <3> QED
      BY <3>1, <3>3, Zenon
  <2>5. OctetBit(o, y) = 0
    BY <1>16, <2>1, <2>2, <2>4, Zenon
  <2> QED
    BY <1>14, <1>15, <1>18, <2>5, Zenon
<1> QED
  BY <1>17, <1>18, Zenon

(* What both encoders make is what RFC 4648 asks for. *)
LEMMA EncodedIsBase64 ==
  ASSUME NEW s \in Seq(Octets8)
  PROVE  E!IsBase64(E!Encoded(s), s)
<1>1. PICK n : n = (Len(s) + 2) \div 3
  OBVIOUS
<1>2. PICK D : D = (8 * Len(s) + 5) \div 6
  OBVIOUS
<1>3. Len(E!Encoded(s)) = 4 * n
  BY <1>1, EncodedAt, Zenon
<1>4. FilledUp(E!Encoded(s), 4 * n, D) /\ BitsKept(E!Encoded(s), s, D)
  BY <1>1, <1>2, EncodedFilledUp, EncodedBits, Zenon
<1> QED
  BY <1>1, <1>2, <1>3, <1>4, Zenon DEF E!IsBase64, FilledUp, BitsKept

-----------------------------------------------------------------------------
(* The loops of both encoders *)

Chars == 0 .. 64

FirstGroups(s, g) == [p \in 1 .. 4 * g |-> E!Encoded(s)[p]]

LEMMA GroupType ==
  ASSUME NEW s \in Seq(Octets8), NEW g \in Nat, 3 * g < Len(s)
  PROVE  E!Group(s, 3 * g) \in [1 .. 4 -> Chars]
<1>b. PICK d, o : GroupMade(s, 3 * g, d, o)
  BY GroupIs, Zenon
<1>1. /\ BitsAgree(d, o)
      /\ E!Group(s, 3 * g) = <<d[1], d[2], IF Len(s) > 3 * g + 1 THEN d[3] ELSE 64,
                               IF Len(s) > 3 * g + 2 THEN d[4] ELSE 64>>
  BY <1>b, Zenon DEF GroupMade
<1>2. d \in [1 .. 4 -> Sextets]
  BY <1>1, Zenon DEF BitsAgree
<1>3. \A x \in Sextets : x \in Chars
  BY DEF Sextets, Chars
<1>4. 64 \in Chars
  BY DEF Chars
<1> HIDE DEF Chars
<1>5. d[1] \in Chars /\ d[2] \in Chars /\ d[3] \in Chars /\ d[4] \in Chars
  BY <1>2, <1>3
<1> QED
  BY <1>1, <1>4, <1>5

LEMMA EncodedType ==
  ASSUME NEW s \in Seq(Octets8), NEW n, n = (Len(s) + 2) \div 3
  PROVE  n \in Nat /\ E!Encoded(s) \in [1 .. 4 * n -> Chars]
<1>1. n \in Nat /\ Len(s) \in Nat
  OBVIOUS
<1>2. E!Encoded(s) = [p \in 1 .. 4 * n |-> E!Group(s, 3 * ((p - 1) \div 4))[((p - 1) % 4) + 1]]
  BY Zenon DEF E!Encoded
<1>3. ASSUME NEW p \in 1 .. 4 * n
      PROVE  E!Group(s, 3 * ((p - 1) \div 4))[((p - 1) % 4) + 1] \in Chars
  <2>1. PICK g, j : g = (p - 1) \div 4 /\ j = ((p - 1) % 4) + 1
    OBVIOUS
  <2>2. g \in Nat /\ j \in 1 .. 4 /\ 3 * g < Len(s)
    BY <1>1, <2>1
  <2>3. E!Group(s, 3 * g) \in [1 .. 4 -> Chars]
    BY <2>2, GroupType, Zenon
  <2> QED
    BY <2>1, <2>2, <2>3, Zenon
<1> QED
  BY <1>1, <1>2, <1>3

(* The first l of the m elements of v are u, the other k are w. *)
Continues(C, l, k, m, u, w, v) ==
  /\ l \in Nat /\ k \in Nat /\ m = l + k
  /\ u \in [1 .. l -> C] /\ w \in [1 .. k -> C] /\ v \in [1 .. m -> C]
  /\ \A p \in 1 .. l : v[p] = u[p]
  /\ \A j \in 1 .. k : v[l + j] = w[j]

LEMMA JoinedUp ==
  ASSUME NEW C, NEW l, NEW k, NEW m, NEW u, NEW w, NEW v, Continues(C, l, k, m, u, w, v)
  PROVE  u \o w = v
<1>1. /\ l \in Nat /\ k \in Nat /\ m = l + k
      /\ u \in [1 .. l -> C] /\ w \in [1 .. k -> C] /\ v \in [1 .. m -> C]
      /\ \A p \in 1 .. l : v[p] = u[p]
      /\ \A j \in 1 .. k : v[l + j] = w[j]
  BY Zenon DEF Continues
<1>5. m \in Nat
  BY <1>1
<1>2. u \in Seq(C) /\ Len(u) = l /\ w \in Seq(C) /\ Len(w) = k /\ v \in Seq(C) /\ Len(v) = m
  BY <1>1, <1>5, FunctionIsSeq, Zenon
<1>3. /\ u \o w \in Seq(C) /\ Len(u \o w) = l + k
      /\ \A i \in 1 .. l + k : (u \o w)[i] = IF i <= l THEN u[i] ELSE w[i - l]
  <2>1. /\ u \o w \in Seq(C) /\ Len(u \o w) = Len(u) + Len(w)
        /\ \A i \in 1 .. Len(u) + Len(w) :
             (u \o w)[i] = IF i <= Len(u) THEN u[i] ELSE w[i - Len(u)]
    BY <1>2, ConcatProperties, Zenon
  <2> QED
    BY <1>2, <2>1, Zenon
<1>4. ASSUME NEW p \in 1 .. m
      PROVE  (u \o w)[p] = v[p]
  <2>1. CASE p <= l
    <3>1. p \in 1 .. l
      BY <1>1, <2>1
    <3> QED
      BY <1>1, <1>3, <2>1, <3>1, Zenon
  <2>2. CASE ~(p <= l)
    <3>1. PICK j : j = p - l
      OBVIOUS
    <3>2. j \in 1 .. k /\ p = l + j
      BY <1>1, <2>2, <3>1
    <3>3. (u \o w)[p] = w[p - l]
      BY <1>1, <1>3, <2>2, Zenon
    <3> QED
      BY <1>1, <3>1, <3>2, <3>3, Zenon
  <2> QED
    BY <2>1, <2>2, Zenon
<1> QED
  BY <1>1, <1>2, <1>3, <1>4, SeqEqual, Zenon

(* One more turn makes one more group. *)
LEMMA OneMoreGroup ==
  ASSUME NEW s \in Seq(Octets8), NEW g \in Nat, 3 * g < Len(s)
  PROVE  FirstGroups(s, g) \o E!Group(s, 3 * g) = FirstGroups(s, g + 1)
<1>1. PICK n : n = (Len(s) + 2) \div 3
  OBVIOUS
<1>2. PICK l, m : l = 4 * g /\ m = 4 * g + 4
  OBVIOUS
<1>3. PICK text, group : text = E!Encoded(s) /\ group = E!Group(s, 3 * g)
  OBVIOUS
<1>4. n \in Nat /\ text \in [1 .. 4 * n -> Chars] /\ group \in [1 .. 4 -> Chars]
  BY <1>1, <1>3, EncodedType, GroupType, Zenon
<1>5. l \in Nat /\ m = l + 4 /\ 4 * (g + 1) = m /\ m <= 4 * n /\ g \in 0 .. n - 1
  BY <1>1, <1>2
<1>6. \A j \in 1 .. 4 : text[l + j] = group[j]
  <2>1. GroupByGroup(text, s, n)
    BY <1>1, <1>3, EncodedAt, Zenon
  <2> QED
    BY <1>2, <1>3, <1>5, <2>1, Zenon DEF GroupByGroup
<1>7. PICK u, v : u = [p \in 1 .. l |-> text[p]] /\ v = [p \in 1 .. m |-> text[p]]
  OBVIOUS
<1>8. u \in [1 .. l -> Chars] /\ v \in [1 .. m -> Chars]
  BY <1>4, <1>5, <1>7
<1>9. \A p \in 1 .. l : p \in 1 .. m /\ v[p] = u[p]
  BY <1>5, <1>7
<1>10. \A j \in 1 .. 4 : l + j \in 1 .. m /\ v[l + j] = group[j]
  <2>1. \A j \in 1 .. 4 : l + j \in 1 .. m
    BY <1>5
  <2> QED
    BY <1>6, <1>7, <2>1, Zenon
<1>11. m \in Nat /\ 4 \in Nat
  BY <1>5
<1>12. u \o group = v
  <2>1. Continues(Chars, l, 4, m, u, group, v)
    BY <1>4, <1>5, <1>8, <1>9, <1>10, <1>11, Zenon DEF Continues
  <2> QED
    BY <2>1, JoinedUp, Zenon
<1>13. FirstGroups(s, g) = u /\ FirstGroups(s, g + 1) = v
  BY <1>2, <1>3, <1>5, <1>7, Zenon DEF FirstGroups
<1> QED
  BY <1>3, <1>12, <1>13, Zenon

(* The array a holds the octets that are left of s from group g on, or as  *)
(* many as fit, and zeros.                                                 *)
ArrayOf(s, g, left, a) ==
  /\ s \in Seq(Octets8) /\ g \in Nat /\ left \in 1 .. 3
  /\ 3 * g + left <= Len(s)
  /\ left = 3 \/ 3 * g + left = Len(s)
  /\ a \in [1 .. 3 -> Octets8]
  /\ \A j \in 1 .. 3 : a[j] = IF j <= left THEN s[3 * g + j] ELSE 0

(* The group that a full array and a part of one make. *)
PartGroup(left, d) == [j \in 1 .. 4 |-> IF j <= left + 1 THEN d[j] ELSE E!Equals]

GroupOf(s, g) == E!Group(s, 3 * g)
DigitsOf(a) == E!Digits(a[1], a[2], a[3])

IsGroupOf(s, g, left, a) == /\ GroupOf(s, g) = PartGroup(left, DigitsOf(a))
                            /\ left = 3 => GroupOf(s, g) = DigitsOf(a)

LEMMA ArrayGroup ==
  ASSUME NEW s, NEW g, NEW left, NEW a, ArrayOf(s, g, left, a)
  PROVE  IsGroupOf(s, g, left, a)
<1>0. s \in Seq(Octets8) /\ g \in Nat /\ left \in 1 .. 3
      /\ 3 * g + left <= Len(s) /\ (left = 3 \/ 3 * g + left = Len(s))
      /\ \A j \in 1 .. 3 : a[j] = IF j <= left THEN s[3 * g + j] ELSE 0
  BY Zenon DEF ArrayOf
<1>1. PICK m, d : m = 3 * g /\ d = E!Digits(a[1], a[2], a[3])
  OBVIOUS
<1>2. m \in Nat /\ Len(s) \in Nat /\ m + left <= Len(s) /\ (left = 3 \/ m + left = Len(s))
      /\ \A j \in 1 .. 3 : a[j] = IF j <= left THEN s[m + j] ELSE 0
  BY <1>0, <1>1
<1>3. a[1] = s[m + 1] /\ a[2] = (IF Len(s) - m > 1 THEN s[m + 2] ELSE 0)
      /\ a[3] = (IF Len(s) - m > 2 THEN s[m + 3] ELSE 0)
  BY <1>0, <1>2
<1>4. E!Group(s, m) = <<d[1], d[2], IF Len(s) - m > 1 THEN d[3] ELSE E!Equals,
                       IF Len(s) - m > 2 THEN d[4] ELSE E!Equals>>
  BY <1>1, <1>3, Zenon DEF E!Group
<1>5. (Len(s) - m > 1 <=> 3 <= left + 1) /\ (Len(s) - m > 2 <=> 4 <= left + 1)
      /\ 1 <= left + 1 /\ 2 <= left + 1
  BY <1>0, <1>2
<1>6. E!Group(s, m) = [j \in 1 .. 4 |-> IF j <= left + 1 THEN d[j] ELSE E!Equals]
  BY <1>4, <1>5
<1>7. ASSUME left = 3
      PROVE  E!Group(s, m) = d
  <2>1. E!Group(s, m) = <<d[1], d[2], d[3], d[4]>>
    BY <1>4, <1>5, <1>7
  <2>2. d = <<d[1], d[2], d[3], d[4]>>
    BY <1>1 DEF E!Digits
  <2> QED
    BY <2>1, <2>2, Zenon
<1>8. E!Group(s, m) = PartGroup(left, d)
  BY <1>6, Zenon DEF PartGroup
<1> QED
  BY <1>1, <1>7, <1>8, Zenon DEF IsGroupOf, GroupOf, DigitsOf

(* base64_encode: what it has written are the first groups. *)
EncodeInv ==
  \E g \in Nat : /\ encode_i = 3 * g
                 /\ g <= (Len(data) + 2) \div 3
                 /\ output = FirstGroups(data, g)

(* b64: size octets of the array are those of the group it is in; it is    *)
(* in none when the last is written, which may have been a part of one.    *)
B64Turn(g) == /\ idx = 3 * g + size
              /\ \A j \in 1 .. size : byte_array_3[j] = data[3 * g + j]
B64Over(g) == idx = Len(data) /\ size = 0 /\ g = (Len(data) + 2) \div 3

B64Inv ==
  /\ idx \in 0 .. Len(data)
  /\ size \in 0 .. 2
  /\ data # <<>> => byte_array_3 \in [1 .. 3 -> Octets8]
  /\ \E g \in Nat : result = FirstGroups(data, g) /\ (B64Turn(g) \/ B64Over(g))

BothInv == data \in Seq(Octets8) /\ EncodeInv /\ B64Inv

LEMMA NoGroups == ASSUME NEW s PROVE FirstGroups(s, 0) = <<>>
<1>1. 1 .. 4 * 0 = {}
  OBVIOUS
<1>2. FirstGroups(s, 0) = [p \in {} |-> E!Encoded(s)[p]]
  BY <1>1, Zenon DEF FirstGroups
<1> QED
  BY <1>2

LEMMA AllGroups ==
  ASSUME NEW s \in Seq(Octets8), NEW g, g = (Len(s) + 2) \div 3
  PROVE  FirstGroups(s, g) = E!Encoded(s)
<1>1. g \in Nat /\ E!Encoded(s) \in [1 .. 4 * g -> Chars]
  BY EncodedType, Zenon
<1> QED
  BY <1>1 DEF FirstGroups

LEMMA BothStart ==
  ASSUME data \in Seq(Octets8), encode_i = 0, output = <<>>, idx = 0, size = 0, result = <<>>,
         data # <<>> => byte_array_3 \in [1 .. 3 -> Octets8]
  PROVE  BothInv
<1>1. PICK L : L = Len(data)
  OBVIOUS
<1>2. L \in Nat /\ 0 <= (L + 2) \div 3 /\ 3 * 0 = 0 /\ 0 \in Nat /\ 0 \in 0 .. L /\ 0 \in 0 .. 2 /\ 3 * 0 + 0 = 0
      /\ \A j \in 1 .. 0 : FALSE
  BY <1>1
<1>3. EncodeInv
  BY <1>1, <1>2, NoGroups, Zenon DEF EncodeInv
<1>4. B64Turn(0)
  BY <1>2, Zenon DEF B64Turn
<1> QED
  BY <1>1, <1>2, <1>3, <1>4, NoGroups, Zenon DEF BothInv, B64Inv

LEMMA EncodeKeeps == BothInv /\ E!Encode => BothInv'
<1> SUFFICES ASSUME BothInv, E!Encode PROVE BothInv'
  OBVIOUS
<1>1. /\ data' = data /\ idx' = idx /\ byte_array_3' = byte_array_3
      /\ result' = result /\ size' = size
      /\ encode_i < Len(data) /\ encode_i' = encode_i + 3
      /\ output' = output \o E!Group(data, encode_i)
  BY Zenon DEF E!Encode
<1>2. B64Inv' /\ data' \in Seq(Octets8) /\ data \in Seq(Octets8)
  BY <1>1, Zenon DEF BothInv, B64Inv, B64Turn, B64Over
<1>3. PICK g \in Nat : encode_i = 3 * g /\ output = FirstGroups(data, g)
  BY Zenon DEF BothInv, EncodeInv
<1>4. 3 * g < Len(data)
  BY <1>1, <1>3, Zenon
<1>5. output' = FirstGroups(data, g + 1)
  BY <1>1, <1>2, <1>3, <1>4, OneMoreGroup, Zenon
<1>6. PICK L : L = Len(data)
  OBVIOUS
<1>7. L \in Nat
  BY <1>2, <1>6
<1>8. g + 1 \in Nat /\ 3 * g + 3 = 3 * (g + 1) /\ g + 1 <= (L + 2) \div 3
  BY <1>4, <1>6, <1>7
<1>9. EncodeInv'
  BY <1>1, <1>3, <1>5, <1>6, <1>8, Zenon DEF EncodeInv
<1> QED
  BY <1>2, <1>9, Zenon DEF BothInv

LEMMA OctetKeeps == BothInv /\ E!B64Octet => BothInv'
<1> SUFFICES ASSUME BothInv, E!B64Octet PROVE BothInv'
  OBVIOUS
<1>1. /\ data' = data /\ encode_i' = encode_i /\ output' = output
      /\ idx < Len(data) /\ idx' = idx + 1
      /\ byte_array_3' = [byte_array_3 EXCEPT ![size + 1] = data[idx + 1]]
  BY Zenon DEF E!B64Octet, E!Put
<1>2. EncodeInv' /\ data' \in Seq(Octets8) /\ data \in Seq(Octets8)
  BY <1>1, Zenon DEF BothInv, EncodeInv
<1>3. idx \in 0 .. Len(data) /\ size \in 0 .. 2
      /\ (data # <<>> => byte_array_3 \in [1 .. 3 -> Octets8])
  BY Zenon DEF BothInv, B64Inv
<1>4. PICK L : L = Len(data)
  OBVIOUS
<1>5. L \in Nat /\ idx \in Nat /\ idx < L /\ data # <<>> /\ idx + 1 \in 0 .. L /\ idx + 1 \in 1 .. L
  BY <1>1, <1>2, <1>3, <1>4
<1>6. PICK g \in Nat : result = FirstGroups(data, g) /\ B64Turn(g)
  <2>1. ~(idx = Len(data))
    BY <1>4, <1>5
  <2> QED
    BY <2>1, Zenon DEF BothInv, B64Inv, B64Over
<1>7. idx = 3 * g + size /\ \A j \in 1 .. size : byte_array_3[j] = data[3 * g + j]
  BY <1>6, Zenon DEF B64Turn
<1>8. PICK m, a, b : m = 3 * g /\ a = byte_array_3 /\ b = byte_array_3'
  OBVIOUS
<1>9. data[idx + 1] \in Octets8
  BY <1>2, <1>4, <1>5
<1>10. /\ b \in [1 .. 3 -> Octets8] /\ size + 1 \in 1 .. 3
       /\ \A j \in 1 .. size + 1 : b[j] = data[m + j]
  <2>1. a \in [1 .. 3 -> Octets8] /\ b = [a EXCEPT ![size + 1] = data[idx + 1]]
    BY <1>1, <1>3, <1>5, <1>8, Zenon
  <2>2. size + 1 \in 1 .. 3 /\ m \in Nat /\ idx + 1 = m + (size + 1)
    BY <1>3, <1>7, <1>8
  <2>3. b \in [1 .. 3 -> Octets8] /\ b[size + 1] = data[m + (size + 1)]
        /\ \A j \in 1 .. 3 : j # size + 1 => b[j] = a[j]
    BY <1>9, <2>1, <2>2
  <2>4. ASSUME NEW j \in 1 .. size + 1
        PROVE  b[j] = data[m + j]
    <3>1. CASE j = size + 1
      BY <2>3, <3>1, Zenon
    <3>2. CASE j # size + 1
      <4>1. j \in 1 .. size /\ j \in 1 .. 3
        BY <1>3, <3>2
      <4> QED
        BY <1>7, <1>8, <2>3, <3>2, <4>1, Zenon
    <3> QED
      BY <3>1, <3>2, Zenon
  <2> QED
    BY <2>2, <2>3, <2>4, Zenon
<1>11. CASE size + 1 = 3
  <2>1. result' = result \o E!Digits(b[1], b[2], b[3]) /\ size' = 0
    BY <1>8, <1>11, Zenon DEF E!B64Octet
  <2>2. /\ 3 * g < L /\ idx + 1 = 3 * (g + 1) + 0 /\ g + 1 \in Nat /\ 3 * g + 3 <= L
    <3>1. PICK ix, sz : ix = idx /\ sz = size
      OBVIOUS
    <3>2. ix \in Nat /\ ix < L /\ L \in Nat /\ ix = 3 * g + sz /\ sz + 1 = 3 /\ sz \in 0 .. 2
      BY <1>3, <1>5, <1>7, <1>11, <3>1, Zenon
    <3>3. 3 * g < L /\ ix + 1 = 3 * (g + 1) + 0 /\ g + 1 \in Nat /\ 3 * g + 3 <= L
      BY <3>2
    <3> QED
      BY <3>1, <3>3, Zenon
  <2>3. E!Group(data, 3 * g) = E!Digits(b[1], b[2], b[3])
    <3>1. 3 \in 1 .. 3 /\ \A j \in 1 .. 3 : b[j] = IF j <= 3 THEN data[3 * g + j] ELSE 0
      BY <1>8, <1>10, <1>11
    <3>2. ArrayOf(data, g, 3, b)
      BY <1>2, <1>4, <1>10, <2>2, <3>1, Zenon DEF ArrayOf
    <3>3. GroupOf(data, g) = DigitsOf(b)
      <4>1. PICK l : l = 3
        OBVIOUS
      <4>2. IsGroupOf(data, g, l, b)
        BY <3>2, <4>1, ArrayGroup, Zenon
      <4> QED
        BY <4>1, <4>2, Zenon DEF IsGroupOf
    <3> QED
      BY <3>3, Zenon DEF GroupOf, DigitsOf
  <2>4. result' = FirstGroups(data, g + 1)
    BY <1>2, <1>4, <1>6, <2>1, <2>2, <2>3, OneMoreGroup, Zenon
  <2>5. \A j \in 1 .. 0 : FALSE
    OBVIOUS
  <2>6. B64Turn(g + 1)'
    BY <1>1, <2>1, <2>2, <2>5, Zenon DEF B64Turn
  <2>7. 0 \in 0 .. 2
    OBVIOUS
  <2>8. B64Inv'
    BY <1>1, <1>4, <1>5, <1>8, <1>10, <2>1, <2>2, <2>4, <2>6, <2>7, Zenon DEF B64Inv
  <2> QED
    BY <1>2, <2>8, Zenon DEF BothInv
<1>12. CASE size + 1 # 3
  <2>1. result' = result /\ size' = size + 1
    BY <1>12, Zenon DEF E!B64Octet
  <2>2. size + 1 \in 0 .. 2 /\ idx + 1 = 3 * g + (size + 1)
    BY <1>3, <1>7, <1>8, <1>12
  <2>3. B64Turn(g)'
    BY <1>1, <1>8, <1>10, <2>1, <2>2, Zenon DEF B64Turn
  <2>4. B64Inv'
    BY <1>1, <1>4, <1>5, <1>6, <1>8, <1>10, <2>1, <2>2, <2>3, Zenon DEF B64Inv
  <2> QED
    BY <1>2, <2>4, Zenon DEF BothInv
<1> QED
  BY <1>11, <1>12, Zenon

LEMMA RestKeeps == BothInv /\ E!B64Rest => BothInv'
<1> SUFFICES ASSUME BothInv, E!B64Rest PROVE BothInv'
  OBVIOUS
<1>1. /\ data' = data /\ encode_i' = encode_i /\ output' = output /\ idx' = idx /\ size' = 0
      /\ idx = Len(data) /\ size > 0 /\ byte_array_3' = E!Cleared
      /\ result' = result \o [j \in 1 .. 4 |->
           IF j <= size + 1 THEN E!Digits(E!Cleared[1], E!Cleared[2], E!Cleared[3])[j] ELSE E!Equals]
  BY Zenon DEF E!B64Rest
<1>2. EncodeInv' /\ data' \in Seq(Octets8) /\ data \in Seq(Octets8)
  BY <1>1, Zenon DEF BothInv, EncodeInv
<1>3. idx \in 0 .. Len(data) /\ size \in 0 .. 2
      /\ (data # <<>> => byte_array_3 \in [1 .. 3 -> Octets8])
  BY Zenon DEF BothInv, B64Inv
<1>4. PICK g \in Nat : result = FirstGroups(data, g) /\ B64Turn(g)
  <2>1. ~(size = 0)
    BY <1>1
  <2> QED
    BY <2>1, Zenon DEF BothInv, B64Inv, B64Over
<1>5. idx = 3 * g + size /\ \A j \in 1 .. size : byte_array_3[j] = data[3 * g + j]
  BY <1>4, Zenon DEF B64Turn
<1>6. PICK L, c, l : L = Len(data) /\ c = E!Cleared /\ l = size
  OBVIOUS
<1>7. L \in Nat /\ l \in 1 .. 2 /\ L = 3 * g + l /\ l <= 3 /\ data # <<>>
  <2>1. L = 3 * g + l
    BY <1>1, <1>5, <1>6, Zenon
  <2>2. l \in 0 .. 2 /\ l > 0
    BY <1>1, <1>3, <1>6, Zenon
  <2>3. L \in Nat /\ L > 0
    BY <2>1, <2>2
  <2>4. data # <<>>
    BY <1>6, <2>3
  <2> QED
    BY <2>1, <2>2, <2>3, <2>4
<1>8. c = [j \in 1 .. 3 |-> IF j > l THEN 0 ELSE byte_array_3[j]]
  BY <1>6, Zenon DEF E!Cleared
<1>9. c \in [1 .. 3 -> Octets8]
  <2>1. 0 \in Octets8
    BY DEF Octets8
  <2> QED
    BY <1>3, <1>7, <1>8, <2>1
<1>10. ASSUME NEW j \in 1 .. 3
       PROVE  c[j] = IF j <= l THEN data[3 * g + j] ELSE 0
  <2>1. j > l <=> ~(j <= l)
    BY <1>7
  <2>2. j <= l => j \in 1 .. l
    BY <1>7
  <2> QED
    BY <1>5, <1>6, <1>8, <2>1, <2>2, Zenon
<1>11. E!Group(data, 3 * g) =
         [j \in 1 .. 4 |-> IF j <= l + 1 THEN E!Digits(c[1], c[2], c[3])[j] ELSE E!Equals]
  <2>1. l \in 1 .. 3 /\ 3 * g + l <= L
    BY <1>7
  <2>2. ArrayOf(data, g, l, c)
    BY <1>2, <1>6, <1>7, <1>9, <1>10, <2>1, Zenon DEF ArrayOf
  <2>3. GroupOf(data, g) = PartGroup(l, DigitsOf(c))
    <3>1. IsGroupOf(data, g, l, c)
      BY <2>2, ArrayGroup, Zenon
    <3> QED
      BY <3>1, Zenon DEF IsGroupOf
  <2> QED
    BY <2>3, Zenon DEF PartGroup, GroupOf, DigitsOf
<1>12. result' = FirstGroups(data, g + 1)
  <2>1. 3 * g < L
    BY <1>7
  <2>2. result' = result \o E!Group(data, 3 * g)
    BY <1>1, <1>6, <1>11, Zenon
  <2> QED
    BY <1>2, <1>4, <1>6, <2>1, <2>2, OneMoreGroup, Zenon
<1>13. g + 1 \in Nat /\ g + 1 = (L + 2) \div 3 /\ 0 \in 0 .. 2
  BY <1>7
<1>14. B64Over(g + 1)'
  BY <1>1, <1>6, <1>13, Zenon DEF B64Over
<1>15. B64Inv'
  BY <1>1, <1>3, <1>6, <1>9, <1>12, <1>13, <1>14, Zenon DEF B64Inv
<1> QED
  BY <1>2, <1>15, Zenon DEF BothInv

LEMMA BothInvEncodes == BothInv => E!BothEncode
<1> SUFFICES ASSUME BothInv PROVE E!BothEncode
  OBVIOUS
<1>1. data \in Seq(Octets8)
  BY Zenon DEF BothInv
<1>2. PICK L, n : L = Len(data) /\ n = (L + 2) \div 3
  OBVIOUS
<1>3. L \in Nat
  BY <1>1, <1>2
<1>4. E!IsBase64(FirstGroups(data, n), data)
  BY <1>1, <1>2, AllGroups, EncodedIsBase64, Zenon
<1>5. ASSUME encode_i >= Len(data)
      PROVE  E!IsBase64(output, data)
  <2>1. PICK g \in Nat : encode_i = 3 * g /\ g <= n /\ output = FirstGroups(data, g)
    BY <1>2, Zenon DEF BothInv, EncodeInv
  <2>2. g = n
    BY <1>2, <1>3, <1>5, <2>1
  <2> QED
    BY <1>4, <2>1, <2>2, Zenon
<1>6. ASSUME idx = Len(data), size = 0
      PROVE  E!IsBase64(result, data)
  <2>1. PICK g \in Nat : result = FirstGroups(data, g) /\ (B64Turn(g) \/ B64Over(g))
    BY Zenon DEF BothInv, B64Inv
  <2>2. CASE B64Turn(g)
    <3>1. L = 3 * g
      BY <1>2, <1>6, <2>2 DEF B64Turn
    <3>2. g = n
      BY <1>2, <3>1
    <3> QED
      BY <1>4, <2>1, <3>2, Zenon
  <2>3. CASE B64Over(g)
    BY <1>2, <1>4, <2>1, <2>3, Zenon DEF B64Over
  <2> QED
    BY <2>1, <2>2, <2>3, Zenon
<1> QED
  BY <1>5, <1>6, Zenon DEF E!BothEncode

LEMMA BothInit == WebSocketInit => BothInv
<1> SUFFICES ASSUME WebSocketInit PROVE BothInv
  OBVIOUS
<1>1. E!Init \/ NoData
  BY Zenon DEF WebSocketInit
<1>2. encode_i = 0 /\ output = <<>> /\ idx = 0 /\ size = 0 /\ result = <<>>
  BY <1>1, Zenon DEF E!Init, NoData
<1>3. CASE E!Init
  <2>1. data \in E!BoundedSeq(Octet, MaxEncoded)
    BY <1>3, Zenon DEF E!Init
  <2>2. PICK l \in 0 .. MaxEncoded : data \in [1 .. l -> Octet]
    BY <2>1, Zenon DEF E!BoundedSeq, E!SeqOf
  <2>3. Octet \subseteq Octets8 /\ l \in Nat
    BY OctetAssumption DEF Octets8
  <2>4. data \in Seq(Octets8)
    BY <2>2, <2>3
  <2>5. PICK o \in Octet : byte_array_3 = [j \in 1 .. 3 |-> o]
    BY <1>3, Zenon DEF E!Init
  <2>6. byte_array_3 \in [1 .. 3 -> Octets8]
    BY <2>3, <2>5
  <2> QED
    BY <1>2, <2>4, <2>6, BothStart, Zenon
<1>4. CASE NoData
  <2>1. data = <<>>
    BY <1>4, Zenon DEF NoData
  <2>2. data \in Seq(Octets8) /\ (data # <<>> => byte_array_3 \in [1 .. 3 -> Octets8])
    BY <2>1
  <2> QED
    BY <1>2, <2>2, BothStart, Zenon
<1> QED
  BY <1>1, <1>3, <1>4, Zenon

LEMMA BothNext == BothInv /\ [WebSocketNext]_webSocketVars => BothInv'
<1> SUFFICES ASSUME BothInv, [WebSocketNext]_webSocketVars PROVE BothInv'
  OBVIOUS
<1>1. CASE EncodeAll
  BY <1>1, EncodeKeeps, OctetKeeps, RestKeeps, Zenon DEF EncodeAll, E!Next
<1>2. CASE UNCHANGED encoding
  <2>1. /\ data' = data /\ encode_i' = encode_i /\ output' = output /\ idx' = idx
        /\ byte_array_3' = byte_array_3 /\ result' = result /\ size' = size
    BY <1>2, Zenon DEF encoding
  <2> QED
    BY <2>1, Zenon DEF BothInv, EncodeInv, B64Inv, B64Turn, B64Over
<1> QED
  BY <1>1, <1>2, Zenon DEF WebSocketNext, HashShort, Measure, Read, Upgrade, webSocketVars

-----------------------------------------------------------------------------
(* SHA-1 of the key *)

(* A sequence of t elements, whatever they are. *)
IsList(s, t) == s = [k \in 1 .. t |-> s[k]]

LEMMA ListLen ==
  ASSUME NEW t \in Nat, NEW s, IsList(s, t)
  PROVE  Len(s) = t /\ (s = <<>> <=> t = 0)
<1>1. PICK C : C = {s[k] : k \in 1 .. t}
  OBVIOUS
<1>2. \A k \in 1 .. t : s[k] \in C
  BY <1>1, Zenon
<1>3. s \in [1 .. t -> C]
  BY <1>2, Zenon DEF IsList
<1>4. s \in Seq(C) /\ Len(s) = t
  BY <1>3, FunctionIsSeq, Zenon
<1> QED
  BY <1>4

LEMMA ListGrows ==
  ASSUME NEW t \in Nat, NEW s, IsList(s, t), NEW x
  PROVE  IsList(Append(s, x), t + 1)
<1>1. PICK C : C = {s[k] : k \in 1 .. t} \cup {x}
  OBVIOUS
<1>2. (\A k \in 1 .. t : s[k] \in C) /\ x \in C
  BY <1>1, Zenon
<1>3. s \in [1 .. t -> C]
  BY <1>2, Zenon DEF IsList
<1>4. s \in Seq(C) /\ Len(s) = t
  BY <1>3, FunctionIsSeq, Zenon
<1>5. Append(s, x) \in Seq(C) /\ Len(Append(s, x)) = t + 1
  BY <1>2, <1>4
<1>6. Append(s, x) \in [1 .. t + 1 -> C]
  BY <1>5, LenProperties, Zenon
<1> QED
  BY <1>6, Zenon DEF IsList

(* What is left of the n blocks bs behind the first b. *)
BlocksLeft(s, bs, b, n) == s = [k \in 1 .. n - b |-> bs[b + k]]

LEMMA RestEnds ==
  ASSUME NEW n \in Nat, NEW b \in 0 .. n, NEW s, NEW bs, BlocksLeft(s, bs, b, n)
  PROVE  s = <<>> <=> b = n
<1>1. PICK l : l = n - b
  OBVIOUS
<1>2. l \in Nat /\ (l = 0 <=> b = n)
  BY <1>1
<1>3. s = [k \in 1 .. l |-> bs[b + k]]
  BY <1>1, Zenon DEF BlocksLeft
<1>4. IsList(s, l)
  BY <1>3 DEF IsList
<1>5. l \in Nat
  BY <1>2
<1>6. s = <<>> <=> l = 0
  BY <1>4, <1>5, ListLen, Zenon
<1> QED
  BY <1>2, <1>6

LEMMA RestNext ==
  ASSUME NEW n \in Nat, NEW b \in 0 .. n, NEW s, NEW bs, BlocksLeft(s, bs, b, n), b < n
  PROVE  s[1] = bs[b + 1] /\ BlocksLeft(Tail(s), bs, b + 1, n)
<1>1. PICK l : l = n - b
  OBVIOUS
<1>2. l \in Nat /\ l # 0 /\ b # n
  BY <1>1
<1>3. s = [k \in 1 .. l |-> bs[b + k]]
  BY <1>1, Zenon DEF BlocksLeft
<1>4. s # <<>>
  BY <1>2, RestEnds, Zenon
<1>5. 1 \in 1 .. l /\ l - 1 \in Nat /\ n - (b + 1) = l - 1
  BY <1>1, <1>2
<1>6. s[1] = bs[b + 1]
  BY <1>3, <1>5
<1>7. PICK C : C = {bs[b + k] : k \in 1 .. l}
  OBVIOUS
<1>8. s \in [1 .. l -> C]
  BY <1>3, <1>7
<1>9. s \in Seq(C) /\ Len(s) = l
  BY <1>2, <1>8, FunctionIsSeq, Zenon
<1>10. Tail(s) \in Seq(C) /\ Len(Tail(s)) = l - 1 /\ \A k \in 1 .. l - 1 : Tail(s)[k] = s[k + 1]
  BY <1>4, <1>9
<1>11. \A k \in 1 .. l - 1 : k + 1 \in 1 .. l /\ b + (k + 1) = (b + 1) + k
  BY <1>2
<1>12. \A k \in 1 .. l - 1 : Tail(s)[k] = bs[(b + 1) + k]
  BY <1>3, <1>10, <1>11
<1>13. Tail(s) = [k \in 1 .. l - 1 |-> Tail(s)[k]]
  <2>1. Tail(s) \in [1 .. l - 1 -> C]
    BY <1>10, LenProperties, Zenon
  <2> QED
    BY <2>1, Zenon
<1>14. Tail(s) = [k \in 1 .. l - 1 |-> bs[(b + 1) + k]]
  BY <1>12, <1>13
<1> QED
  BY <1>5, <1>6, <1>14, Zenon DEF BlocksLeft

(* The words and the buffers of the round behind those of r. *)
NextRound(r, block) ==
  [words |-> Append(r.words, A!NextWord(block, r.words)),
   abcde |-> A!Mixed(Len(r.words), r.abcde, A!NextWord(block, r.words))]
NoRound(h) == [words |-> <<>>, abcde |-> h]

RoundsSolve(g, n, h, block) ==
  g = [t \in 0 .. n |-> IF t = 0 THEN NoRound(h) ELSE NextRound(g[t - 1], block)]

LEMMA RoundsExist ==
  ASSUME NEW h, NEW block, NEW m \in Nat
  PROVE  \E g : RoundsSolve(g, m, h, block)
<1> DEFINE P == {n \in Nat : \E g : RoundsSolve(g, n, h, block)}
<1>1. 0 \in P
  <2>1. PICK g : g = [t \in 0 .. 0 |-> NoRound(h)]
    OBVIOUS
  <2>2. \A t \in 0 .. 0 : t = 0
    OBVIOUS
  <2>3. g = [t \in 0 .. 0 |-> IF t = 0 THEN NoRound(h) ELSE NextRound(g[t - 1], block)]
    BY <2>1, <2>2, Zenon
  <2>4. 0 \in Nat
    OBVIOUS
  <2> QED
    BY <2>3, <2>4, Zenon DEF RoundsSolve
<1>2. ASSUME NEW n \in Nat, n \in P
      PROVE  n + 1 \in P
  <2>1. PICK g : RoundsSolve(g, n, h, block)
    BY <1>2, Zenon
  <2>2. \A t \in 0 .. n : g[t] = IF t = 0 THEN NoRound(h) ELSE NextRound(g[t - 1], block)
    BY <2>1, Zenon DEF RoundsSolve
  <2>3. PICK e : e = [t \in 0 .. n + 1 |-> IF t = n + 1 THEN NextRound(g[n], block) ELSE g[t]]
    OBVIOUS
  <2>4. ASSUME NEW t \in 0 .. n + 1
        PROVE  e[t] = IF t = 0 THEN NoRound(h) ELSE NextRound(e[t - 1], block)
    <3>1. CASE t = n + 1
      <4>1. t - 1 = n /\ n \in 0 .. n + 1 /\ n # n + 1 /\ t # 0
        BY <3>1
      <4>2. e[t] = NextRound(g[n], block) /\ e[n] = g[n]
        BY <2>3, <3>1, <4>1, Zenon
      <4> QED
        BY <4>1, <4>2, Zenon
    <3>2. CASE t # n + 1
      <4>1. t \in 0 .. n /\ (t # 0 => t - 1 \in 0 .. n + 1 /\ t - 1 # n + 1)
        BY <3>2
      <4>2. e[t] = g[t] /\ (t # 0 => e[t - 1] = g[t - 1])
        BY <2>3, <3>2, <4>1, Zenon
      <4> QED
        BY <2>2, <4>1, <4>2, Zenon
    <3> QED
      BY <3>1, <3>2, Zenon
  <2>5. e = [t \in 0 .. n + 1 |-> e[t]]
    BY <2>3, Zenon
  <2>6. RoundsSolve(e, n + 1, h, block)
    BY <2>4, <2>5, Zenon DEF RoundsSolve
  <2>7. n + 1 \in Nat
    OBVIOUS
  <2> QED
    BY <2>6, <2>7, Zenon
<1> HIDE DEF P
<1>3. m \in P
  BY <1>1, <1>2, SetInduction, Zenon
<1> QED
  BY <1>3, Zenon DEF P

(* There is a round behind the first t, and all are done with these words. *)
BeforeLast(t) == t \in 0 .. 79
AllDone(w) == Len(w) = 80

LEMMA RoundsAre ==
  ASSUME NEW h, NEW block
  PROVE  /\ A!Rounds(h, block)[0] = NoRound(h)
         /\ \A t : BeforeLast(t) =>
              A!Rounds(h, block)[t + 1] = NextRound(A!Rounds(h, block)[t], block)
<1>1. PICK m : m = 80
  OBVIOUS
<1>2. PICK after : after = A!Rounds(h, block)
  OBVIOUS
<1>3. RoundsSolve(after, m, h, block)
  <2>1. \E g : RoundsSolve(g, m, h, block)
    BY <1>1, RoundsExist
  <2>2. after = CHOOSE g : RoundsSolve(g, m, h, block)
    BY <1>1, <1>2 DEF RoundsSolve, A!Rounds, NoRound, NextRound
  <2> QED
    BY <2>1, <2>2, Zenon
<1>4. \A t \in 0 .. m : after[t] = IF t = 0 THEN NoRound(h) ELSE NextRound(after[t - 1], block)
  BY <1>3, Zenon DEF RoundsSolve
<1>5. 0 \in 0 .. m
  BY <1>1
<1>6. after[0] = NoRound(h)
  BY <1>4, <1>5, Zenon
<1>7. ASSUME NEW t, BeforeLast(t)
      PROVE  after[t + 1] = NextRound(after[t], block)
  <2>1. t \in 0 .. 79
    BY <1>7, Zenon DEF BeforeLast
  <2>2. t + 1 \in 0 .. m /\ t + 1 # 0 /\ (t + 1) - 1 = t
    BY <1>1, <2>1
  <2> QED
    BY <1>4, <2>2, Zenon
<1> QED
  BY <1>2, <1>6, <1>7, Zenon

(* H after a block. *)
OneBlock(h, block) == A!WordSums(h, A!Rounds(h, block)[80].abcde)

HashedSolve(g, n, bs) ==
  g = [b \in 0 .. n |-> IF b = 0 THEN A!InitialH ELSE OneBlock(g[b - 1], bs[b])]

LEMMA HashedExists ==
  ASSUME NEW bs, NEW m \in Nat
  PROVE  \E g : HashedSolve(g, m, bs)
<1> DEFINE P == {n \in Nat : \E g : HashedSolve(g, n, bs)}
<1>1. 0 \in P
  <2>1. PICK g : g = [t \in 0 .. 0 |-> A!InitialH]
    OBVIOUS
  <2>2. \A t \in 0 .. 0 : t = 0
    OBVIOUS
  <2>3. g = [t \in 0 .. 0 |-> IF t = 0 THEN A!InitialH ELSE OneBlock(g[t - 1], bs[t])]
    BY <2>1, <2>2, Zenon
  <2>4. 0 \in Nat
    OBVIOUS
  <2> QED
    BY <2>3, <2>4, Zenon DEF HashedSolve
<1>2. ASSUME NEW n \in Nat, n \in P
      PROVE  n + 1 \in P
  <2>1. PICK g : HashedSolve(g, n, bs)
    BY <1>2, Zenon
  <2>2. \A t \in 0 .. n : g[t] = IF t = 0 THEN A!InitialH ELSE OneBlock(g[t - 1], bs[t])
    BY <2>1, Zenon DEF HashedSolve
  <2>3. PICK e : e = [t \in 0 .. n + 1 |-> IF t = n + 1 THEN OneBlock(g[n], bs[n + 1]) ELSE g[t]]
    OBVIOUS
  <2>4. ASSUME NEW t \in 0 .. n + 1
        PROVE  e[t] = IF t = 0 THEN A!InitialH ELSE OneBlock(e[t - 1], bs[t])
    <3>1. CASE t = n + 1
      <4>1. t - 1 = n /\ n \in 0 .. n + 1 /\ n # n + 1 /\ t # 0
        BY <3>1
      <4>2. e[t] = OneBlock(g[n], bs[t]) /\ e[n] = g[n]
        BY <2>3, <3>1, <4>1, Zenon
      <4> QED
        BY <4>1, <4>2, Zenon
    <3>2. CASE t # n + 1
      <4>1. t \in 0 .. n /\ (t # 0 => t - 1 \in 0 .. n + 1 /\ t - 1 # n + 1)
        BY <3>2
      <4>2. e[t] = g[t] /\ (t # 0 => e[t - 1] = g[t - 1])
        BY <2>3, <3>2, <4>1, Zenon
      <4> QED
        BY <2>2, <4>1, <4>2, Zenon
    <3> QED
      BY <3>1, <3>2, Zenon
  <2>5. e = [t \in 0 .. n + 1 |-> e[t]]
    BY <2>3, Zenon
  <2>6. HashedSolve(e, n + 1, bs)
    BY <2>4, <2>5, Zenon DEF HashedSolve
  <2>7. n + 1 \in Nat
    OBVIOUS
  <2> QED
    BY <2>6, <2>7, Zenon
<1> HIDE DEF P
<1>3. m \in P
  BY <1>1, <1>2, SetInduction, Zenon
<1> QED
  BY <1>3, Zenon DEF P

LEMMA BlocksAre ==
  ASSUME NEW m \in Seq(Octets8)
  PROVE  /\ Len(A!Blocks(m)) \in Nat
         /\ A!Blocks(m) = [k \in 1 .. Len(A!Blocks(m)) |-> A!Blocks(m)[k]]
<1>1. PICK n, u : n = (Len(m) + 9 + 63) \div 64 /\ u = A!Blocks(m)
  OBVIOUS
<1>2. n \in Nat
  BY <1>1
<1>3. IsList(u, n)
  BY <1>1 DEF IsList, A!Blocks
<1>4. Len(u) = n
  BY <1>2, <1>3, ListLen, Zenon
<1> QED
  BY <1>1, <1>2, <1>3, <1>4, Zenon DEF IsList

LEMMA HashedAre ==
  ASSUME NEW m \in Seq(Octets8), NEW n, n = Len(A!Blocks(m))
  PROVE  /\ A!Hashed(m)[0] = A!InitialH
         /\ \A b \in 0 .. n - 1 :
              A!Hashed(m)[b + 1] = OneBlock(A!Hashed(m)[b], A!Blocks(m)[b + 1])
<1>1. n \in Nat
  BY BlocksAre, Zenon
<1>2. PICK g, bs : g = A!Hashed(m) /\ bs = A!Blocks(m)
  OBVIOUS
<1>3. HashedSolve(g, n, bs)
  <2>1. \E e : HashedSolve(e, n, bs)
    BY <1>1, HashedExists, Zenon
  <2>2. g = CHOOSE e : HashedSolve(e, n, bs)
    BY <1>2 DEF HashedSolve, A!Hashed, OneBlock
  <2> QED
    BY <2>1, <2>2, Zenon
<1>4. \A b \in 0 .. n : g[b] = IF b = 0 THEN A!InitialH ELSE OneBlock(g[b - 1], bs[b])
  BY <1>3, Zenon DEF HashedSolve
<1>5. 0 \in 0 .. n /\ \A b \in 0 .. n - 1 : b + 1 \in 0 .. n /\ b + 1 # 0 /\ (b + 1) - 1 = b
  BY <1>1
<1>6. g[0] = A!InitialH
  BY <1>4, <1>5, Zenon
<1>7. \A b \in 0 .. n - 1 : g[b + 1] = OneBlock(g[b], bs[b + 1])
  BY <1>4, <1>5
<1> QED
  BY <1>2, <1>6, <1>7, Zenon

(* b blocks of message m are done, and t rounds on the one behind them.    *)
Working(m, b, t, bs, h, w, abcde) ==
  LET n == Len(A!Blocks(m))
      r == A!Rounds(h, A!Blocks(m)[b + 1])[t]
  IN  /\ m \in Seq(Octets8)
      /\ b \in 0 .. n
      /\ BlocksLeft(bs, A!Blocks(m), b, n)
      /\ h = A!Hashed(m)[b]
      /\ t \in 0 .. 80 /\ IsList(w, t)
      /\ b = n => t = 0
      /\ b < n => w = r.words /\ abcde = r.abcde

LEMMA StartWorking ==
  ASSUME NEW m \in Seq(Octets8)
  PROVE  Working(m, 0, 0, A!Blocks(m), A!InitialH, <<>>, A!InitialH)
<1>1. PICK bs, n, block, h : /\ bs = A!Blocks(m) /\ n = Len(bs) /\ block = bs[0 + 1]
                             /\ h = A!InitialH
  OBVIOUS
<1>2. n \in Nat /\ bs = [k \in 1 .. n |-> bs[k]]
  BY <1>1, BlocksAre, Zenon
<1>3. BlocksLeft(bs, bs, 0, n)
  BY <1>2 DEF BlocksLeft
<1>4. h = A!Hashed(m)[0]
  BY <1>1, HashedAre, Zenon
<1>5. A!Rounds(h, block)[0] = NoRound(h)
  BY RoundsAre, Zenon
<1>6. A!Rounds(h, block)[0].words = <<>> /\ A!Rounds(h, block)[0].abcde = h
  BY <1>5 DEF NoRound
<1>7. 0 \in 0 .. n /\ 0 \in 0 .. 80 /\ IsList(<<>>, 0)
  BY <1>2 DEF IsList
<1> QED
  BY <1>1, <1>3, <1>4, <1>6, <1>7, Zenon DEF Working

LEMMA RoundWorking ==
  ASSUME NEW m, NEW b, NEW t, NEW bs, NEW h, NEW w, NEW abcde,
         Working(m, b, t, bs, h, w, abcde), bs # <<>>, ~AllDone(w)
  PROVE  Working(m, b, t + 1, bs, h, Append(w, A!NextWord(bs[1], w)),
                 A!Mixed(Len(w), abcde, A!NextWord(bs[1], w)))
<1>1. PICK all, n, block, after : /\ all = A!Blocks(m) /\ n = Len(all) /\ block = all[b + 1]
                              /\ after = A!Rounds(h, block)
  OBVIOUS
<1>2. /\ m \in Seq(Octets8) /\ b \in 0 .. n /\ BlocksLeft(bs, all, b, n) /\ h = A!Hashed(m)[b]
      /\ t \in 0 .. 80 /\ IsList(w, t)
      /\ b < n => w = after[t].words /\ abcde = after[t].abcde
  BY <1>1, Zenon DEF Working
<1>3. n \in Nat
  BY <1>1, <1>2, BlocksAre, Zenon
<1>4. b # n /\ (b < n => bs[1] = block)
  <2>1. b # n
    BY <1>2, <1>3, RestEnds, Zenon
  <2>2. b < n => bs[1] = block
    BY <1>1, <1>2, <1>3, RestNext, Zenon
  <2> QED
    BY <2>1, <2>2, Zenon
<1>5. b < n
  BY <1>2, <1>3, <1>4
<1>6. t \in Nat
  BY <1>2
<1>7. Len(w) = t
  BY <1>2, <1>6, ListLen, Zenon
<1>8. BeforeLast(t) /\ t + 1 \in 0 .. 80
  <2>1. t # 80
    BY <1>7, Zenon DEF AllDone
  <2> QED
    BY <1>2, <2>1 DEF BeforeLast
<1>9. after[t + 1] = NextRound(after[t], block)
  <2>1. BeforeLast(t)
    BY <1>8, Zenon
  <2>2. A!Rounds(h, block)[t + 1] = NextRound(A!Rounds(h, block)[t], block)
    BY <2>1, RoundsAre, Zenon
  <2> QED
    BY <1>1, <2>2, Zenon
<1>10. PICK x : x = A!NextWord(bs[1], w)
  OBVIOUS
<1>11. after[t + 1] = [words |-> Append(w, x), abcde |-> A!Mixed(Len(w), abcde, x)]
  BY <1>2, <1>4, <1>5, <1>9, <1>10, Zenon DEF NextRound
<1>12. after[t + 1].words = Append(w, x) /\ after[t + 1].abcde = A!Mixed(Len(w), abcde, x)
  BY <1>11
<1>13. IsList(Append(w, x), t + 1)
  BY <1>2, <1>6, ListGrows, Zenon
<1>14. b # n
  BY <1>4
<1> QED
  BY <1>1, <1>2, <1>8, <1>10, <1>12, <1>13, <1>14, Zenon DEF Working

LEMMA EndWorking ==
  ASSUME NEW m, NEW b, NEW t, NEW bs, NEW h, NEW w, NEW abcde,
         Working(m, b, t, bs, h, w, abcde), AllDone(w)
  PROVE  Working(m, b + 1, 0, Tail(bs), A!WordSums(h, abcde), <<>>, A!WordSums(h, abcde))
<1>1. PICK all, n, block, after : /\ all = A!Blocks(m) /\ n = Len(all) /\ block = all[b + 1]
                                  /\ after = A!Rounds(h, block)
  OBVIOUS
<1>a. PICK e : e = A!WordSums(h, abcde)
  OBVIOUS
<1>2. /\ m \in Seq(Octets8) /\ b \in 0 .. n /\ BlocksLeft(bs, all, b, n) /\ h = A!Hashed(m)[b]
      /\ t \in 0 .. 80 /\ IsList(w, t)
      /\ b = n => t = 0
      /\ b < n => abcde = after[t].abcde
  BY <1>1, Zenon DEF Working
<1>3. n \in Nat
  BY <1>1, <1>2, BlocksAre, Zenon
<1>4. t \in Nat
  BY <1>2
<1>5. Len(w) = t
  BY <1>2, <1>4, ListLen, Zenon
<1>6. t = 80 /\ b < n /\ b \in 0 .. n - 1 /\ b + 1 \in 0 .. n
  <2>1. t = 80 /\ b \in 0 .. n /\ (b = n => t = 0)
    BY <1>2, <1>5, Zenon DEF AllDone
  <2> QED
    BY <1>3, <2>1
<1>7. BlocksLeft(Tail(bs), all, b + 1, n)
  BY <1>2, <1>3, <1>6, RestNext, Zenon
<1>8. e = OneBlock(h, block)
  BY <1>1, <1>2, <1>6, <1>a, Zenon DEF OneBlock
<1>9. e = A!Hashed(m)[b + 1]
  BY <1>1, <1>2, <1>6, <1>8, HashedAre, Zenon
<1>10. PICK next : next = all[(b + 1) + 1]
  OBVIOUS
<1>11. A!Rounds(e, next)[0] = NoRound(e)
  BY RoundsAre, Zenon
<1>12. A!Rounds(e, next)[0].words = <<>> /\ A!Rounds(e, next)[0].abcde = e
  BY <1>11 DEF NoRound
<1>13. 0 \in 0 .. 80 /\ IsList(<<>>, 0)
  BY DEF IsList
<1> QED
  BY <1>1, <1>2, <1>6, <1>7, <1>9, <1>a, <1>10, <1>12, <1>13, Zenon DEF Working

LEMMA DoneWorking ==
  ASSUME NEW m, NEW b, NEW t, NEW bs, NEW h, NEW w, NEW abcde,
         Working(m, b, t, bs, h, w, abcde), bs = <<>>
  PROVE  A!HashOctets(h) = A!SHA1(m)
<1>1. PICK n : n = Len(A!Blocks(m))
  OBVIOUS
<1>2. m \in Seq(Octets8) /\ b \in 0 .. n /\ BlocksLeft(bs, A!Blocks(m), b, n) /\ h = A!Hashed(m)[b]
  BY <1>1, Zenon DEF Working
<1>3. n \in Nat
  BY <1>1, <1>2, BlocksAre, Zenon
<1>4. b = n
  BY <1>2, <1>3, RestEnds, Zenon
<1> QED
  BY <1>1, <1>2, <1>4, Zenon DEF A!SHA1

(* Where the hash of the key that get_accept_key found has come to.        *)
NamesKey(n) == n \in DOMAIN headers /\ LowerCase[n] = "sec-websocket-key" /\ headers[n] # <<>>

HashInv ==
  /\ upgrade_at # "not called" => headers \in Requests
  /\ upgrade_at = "hash" =>
       \E n : NamesKey(n) /\ \E b, t : Working(headers[n] \o MagicString, b, t, blocks, hash, W, buffers)
  /\ upgrade_at = "upgraded" => \E n : NamesKey(n) /\ accept = A!Encoded(Digest[headers[n]])

LEMMA HashInit == WebSocketInit => HashInv
<1> SUFFICES ASSUME WebSocketInit PROVE HashInv
  OBVIOUS
<1>1. A!Init \/ NoRequest
  BY Zenon DEF WebSocketInit
<1>2. (upgrade_at = "request" /\ headers \in Requests) \/ upgrade_at = "not called"
  BY <1>1, Zenon DEF A!Init, NoRequest
<1>3. upgrade_at # "hash" /\ upgrade_at # "upgraded"
  BY <1>2
<1> QED
  BY <1>2, <1>3, Zenon DEF HashInv

LEMMA MessageType ==
  ASSUME headers \in Requests, NEW n, NamesKey(n)
  PROVE  headers[n] \o MagicString \in Seq(Octets8)
<1>1. headers[n] \in Seq(Octets8) /\ MagicString \in Seq(Octets8)
  BY RequestsAssumption, Zenon DEF NamesKey, Octets8
<1> QED
  BY <1>1

LEMMA FindKeeps ==
  ASSUME HashInv, NEW n \in DOMAIN headers, A!FindWebsocketKey(n) PROVE HashInv'
<1>1. /\ upgrade_at = "request" /\ upgrade_at' = "hash" /\ headers' = headers
      /\ blocks' = A!Blocks(headers[n] \o MagicString)
      /\ hash' = A!InitialH /\ W' = <<>> /\ buffers' = A!InitialH
  BY Zenon DEF A!FindWebsocketKey
<1>2. NamesKey(n)
  BY Zenon DEF A!FindWebsocketKey, A!KeyNames, NamesKey
<1>3. headers \in Requests
  BY <1>1 DEF HashInv
<1>4. PICK m : m = headers[n] \o MagicString
  OBVIOUS
<1>5. Working(m, 0, 0, A!Blocks(m), A!InitialH, <<>>, A!InitialH)
  BY <1>2, <1>3, <1>4, MessageType, StartWorking, Zenon
<1>6. Working(headers'[n] \o MagicString, 0, 0, blocks', hash', W', buffers')
  BY <1>1, <1>4, <1>5, Zenon
<1>7. NamesKey(n)'
  BY <1>1, <1>2, Zenon DEF NamesKey
<1>8. upgrade_at' # "upgraded"
  BY <1>1
<1> QED
  BY <1>1, <1>3, <1>6, <1>7, <1>8, Zenon DEF HashInv

LEMMA RoundKeeps == HashInv /\ A!Round => HashInv'
<1> SUFFICES ASSUME HashInv, A!Round PROVE HashInv'
  OBVIOUS
<1>1. /\ upgrade_at = "hash" /\ upgrade_at' = "hash" /\ headers' = headers
      /\ blocks # <<>> /\ blocks' = blocks /\ hash' = hash
      /\ W' = Append(W, A!NextWord(blocks[1], W))
      /\ buffers' = A!Mixed(Len(W), buffers, A!NextWord(blocks[1], W))
  BY Zenon DEF A!Round
<1>a. ~AllDone(W)
  <2>1. PICK l : l = Len(W)
    OBVIOUS
  <2>2. l < 80
    BY <2>1, Zenon DEF A!Round
  <2>3. l # 80
    BY <2>2
  <2> QED
    BY <2>1, <2>3, Zenon DEF AllDone
<1>2. PICK n, b, t : NamesKey(n) /\ Working(headers[n] \o MagicString, b, t, blocks, hash, W, buffers)
  BY <1>1, Zenon DEF HashInv
<1>3. Working(headers[n] \o MagicString, b, t + 1, blocks, hash, W', buffers')
  BY <1>1, <1>2, <1>a, RoundWorking
<1>4. NamesKey(n)'
  BY <1>1, <1>2, Zenon DEF NamesKey
<1>5. upgrade_at # "not called" /\ upgrade_at' # "upgraded"
  BY <1>1
<1> QED
  BY <1>1, <1>3, <1>4, <1>5, Zenon DEF HashInv

LEMMA EndBlockKeeps == HashInv /\ A!EndBlock => HashInv'
<1> SUFFICES ASSUME HashInv, A!EndBlock PROVE HashInv'
  OBVIOUS
<1>1. /\ upgrade_at = "hash" /\ upgrade_at' = "hash" /\ headers' = headers
      /\ AllDone(W) /\ blocks' = Tail(blocks) /\ hash' = A!WordSums(hash, buffers)
      /\ W' = <<>> /\ buffers' = A!WordSums(hash, buffers)
  BY Zenon DEF A!EndBlock, AllDone
<1>2. PICK n, b, t : NamesKey(n) /\ Working(headers[n] \o MagicString, b, t, blocks, hash, W, buffers)
  BY <1>1, Zenon DEF HashInv
<1>3. Working(headers[n] \o MagicString, b + 1, 0, blocks', hash', W', buffers')
  BY <1>1, <1>2, EndWorking
<1>4. NamesKey(n)'
  BY <1>1, <1>2, Zenon DEF NamesKey
<1>5. upgrade_at # "not called" /\ upgrade_at' # "upgraded"
  BY <1>1
<1> QED
  BY <1>1, <1>3, <1>4, <1>5, Zenon DEF HashInv

LEMMA AnswerKeeps == HashInv /\ A!Answer => HashInv'
<1> SUFFICES ASSUME HashInv, A!Answer PROVE HashInv'
  OBVIOUS
<1>1. /\ upgrade_at = "hash" /\ upgrade_at' = "upgraded" /\ headers' = headers
      /\ blocks = <<>> /\ accept' = A!Encoded(A!HashOctets(hash))
  BY Zenon DEF A!Answer
<1>2. PICK n, b, t : NamesKey(n) /\ Working(headers[n] \o MagicString, b, t, blocks, hash, W, buffers)
  BY <1>1, Zenon DEF HashInv
<1>3. upgrade_at # "not called" /\ upgrade_at' # "hash"
  BY <1>1
<1>4. headers \in Requests
  BY <1>3, Zenon DEF HashInv
<1>5. A!HashOctets(hash) = A!SHA1(headers[n] \o MagicString)
  BY <1>1, <1>2, DoneWorking, Zenon
<1>6. Digest[headers[n]] = A!SHA1(headers[n] \o MagicString)
  BY <1>2, <1>4, DigestAssumption, Zenon DEF NamesKey
<1>7. accept' = A!Encoded(Digest[headers[n]])
  BY <1>1, <1>5, <1>6, Zenon
<1>8. NamesKey(n)' /\ headers'[n] = headers[n]
  BY <1>1, <1>2, Zenon DEF NamesKey
<1> QED
  BY <1>1, <1>3, <1>4, <1>7, <1>8, Zenon DEF HashInv

LEMMA HashKept == HashInv /\ [WebSocketNext]_webSocketVars => HashInv'
<1> SUFFICES ASSUME HashInv, [WebSocketNext]_webSocketVars PROVE HashInv'
  OBVIOUS
<1>1. CASE Upgrade
  <2>1. ASSUME A!Plain PROVE HashInv'
    <3>1. upgrade_at = "request" /\ upgrade_at' = "plain" /\ headers' = headers
      BY <2>1, Zenon DEF A!Plain
    <3>2. upgrade_at # "not called" /\ upgrade_at' # "hash" /\ upgrade_at' # "upgraded"
      BY <3>1
    <3> QED
      BY <3>1, <3>2, Zenon DEF HashInv
  <2> QED
    BY <1>1, <2>1, FindKeeps, RoundKeeps, EndBlockKeeps, AnswerKeeps, Zenon DEF Upgrade, A!Next
<1>2. CASE UNCHANGED upgrading
  <2>1. /\ headers' = headers /\ upgrade_at' = upgrade_at /\ blocks' = blocks /\ hash' = hash
        /\ W' = W /\ buffers' = buffers /\ accept' = accept
    BY <1>2, Zenon DEF upgrading
  <2> QED
    BY <2>1, Zenon DEF HashInv, NamesKey
<1> QED
  BY <1>1, <1>2, Zenon DEF WebSocketNext, HashShort, Measure, Read, EncodeAll, webSocketVars

(* Both modules have the one encoding. *)
LEMMA OneEncoding ==
  ASSUME NEW s, NEW text
  PROVE  /\ A!Encoded(s) = E!Encoded(s)
         /\ A!IsBase64(text, s) <=> E!IsBase64(text, s)
BY DEF A!Encoded, E!Encoded, A!Group, E!Group, A!Digits, E!Digits, A!Equals, E!Equals,
       A!IsBase64, E!IsBase64, A!Bit, E!Bit, A!Weight, E!Weight

LEMMA HashInvDigest == HashInv => A!AcceptIsDigest
<1> SUFFICES ASSUME HashInv, upgrade_at = "upgraded"
             PROVE  \E n \in DOMAIN headers :
                      /\ LowerCase[n] = "sec-websocket-key" /\ headers[n] # <<>>
                      /\ A!IsBase64(accept, Digest[headers[n]])
  BY Zenon DEF A!AcceptIsDigest
<1>1. PICK n : NamesKey(n) /\ accept = A!Encoded(Digest[headers[n]])
  BY Zenon DEF HashInv
<1>2. upgrade_at # "not called"
  OBVIOUS
<1>3. headers \in Requests
  BY <1>2, Zenon DEF HashInv
<1>4. Digest[headers[n]] \in [1 .. 20 -> 0 .. 255]
  BY <1>1, <1>3, DigestAssumption, Zenon DEF NamesKey
<1>5. PICK d : d = Digest[headers[n]]
  OBVIOUS
<1>6. d \in Seq(Octets8)
  <2>1. PICK l : l = 20
    OBVIOUS
  <2>2. d \in [1 .. l -> Octets8]
    BY <1>4, <1>5, <2>1, Zenon DEF Octets8
  <2>3. l \in Nat
    BY <2>1
  <2> QED
    BY <2>2, <2>3, FunctionIsSeq, Zenon
<1>7. E!IsBase64(E!Encoded(d), d)
  BY <1>6, EncodedIsBase64, Zenon
<1>8. A!IsBase64(accept, d)
  BY <1>1, <1>5, <1>7, OneEncoding, Zenon
<1> QED
  BY <1>1, <1>5, <1>8, Zenon DEF NamesKey

(* Whatever the headers of a request are, get_accept_key is reached only   *)
(* by one that asks for an upgrade and names a key, and one that does is   *)
(* answered by a route only where "Upgrade" is spelt otherwise or a key is *)
(* empty; what the 101 carries is then the Base64 of the SHA-1 of a key    *)
(* it names, of any length, and the GUID; and both encoders write the      *)
(* Base64 of any octets (src/websocket_handler.cpp:134-272).               *)
THEOREM HandshakesRight == WebSocketSpec => []HandshakeRight
<1>1. WebSocketInit => UpgradeInv /\ HashInv /\ BothInv
  BY UpgradeInit, HashInit, BothInit, Zenon
<1>2. UpgradeInv /\ HashInv /\ BothInv /\ [WebSocketNext]_webSocketVars
        => UpgradeInv' /\ HashInv' /\ BothInv'
  BY UpgradeKept, HashKept, BothNext, Zenon
<1>3. UpgradeInv /\ HashInv /\ BothInv => HandshakeRight
  BY UpgradeInvAsked, HashInvDigest, BothInvEncodes, Zenon DEF HandshakeRight
<1> QED
  BY <1>1, <1>2, <1>3, PTL DEF WebSocketSpec

=============================================================================
