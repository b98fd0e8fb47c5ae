----------------------------- MODULE MCUtilities -----------------------------
(***************************************************************************)
(* What the servers share, for TLC: the SHA1 class, split_words,           *)
(* replace_all and Variant.  A behaviour is of one of them, the others are *)
(* not called in it.                                                       *)
(***************************************************************************)
EXTENDS MCSha1, FiniteSets

CONSTANTS
  Letters, Sep, NUL, MaxWord,       \* those of SplitWords
  TextChars, MaxString, MaxPattern, MaxSize,   \* those of ReplaceAll
  Objects, Types, Values, None      \* those of Variant

ASSUME SplitAssumption == Sep # NUL /\ MaxWord \in Nat

ASSUME ReplaceAssumption == MaxString \in Nat /\ MaxPattern \in Nat

(* None is no type and no member. *)
ASSUME VariantAssumption == /\ IsFiniteSet(Objects)
                            /\ None \notin Types
                            /\ None \notin Types \X Values

VARIABLES
  word, iter, word_str, ret, split_at,
  original, str, start_pos, from, to, copied, replace_at,
  alive, currentType, member, living, meant

S == INSTANCE SplitWords WITH Chars <- Letters, MaxLength <- MaxWord,
             str <- word_str, at <- split_at
R == INSTANCE ReplaceAll WITH Chars <- TextChars, MaxLength <- MaxString,
             at <- replace_at
V == INSTANCE Variant

NotSplitting == /\ word = <<>> /\ iter = 1 /\ word_str = <<>> /\ ret = <<>>
                /\ split_at = "idle"
NotReplacing == /\ original = <<>> /\ str = <<>> /\ start_pos = 1
                /\ from = <<>> /\ to = <<>> /\ copied = 0
                /\ replace_at = "idle"

splitting == <<word, iter, word_str, ret, split_at>>
replace == <<original, str, start_pos, from, to, copied, replace_at>>
variant == <<alive, currentType, member, living, meant>>
MCvars == <<called, vars, splitting, replace, variant>>

MCInit ==
  /\ called \in {"SHA1", "split_words", "replace_all", "Variant"}
  /\ Init
  /\ IF called = "split_words" THEN S!Init ELSE NotSplitting
  /\ IF called = "replace_all" THEN R!Init ELSE NotReplacing
  /\ V!Init

Hash == called = "SHA1" /\ Next /\ UNCHANGED <<called, splitting, replace, variant>>
Split == called = "split_words" /\ S!Next /\ UNCHANGED <<called, vars, replace, variant>>
ReplaceIn == called = "replace_all" /\ R!Next /\ UNCHANGED <<called, vars, splitting, variant>>
Vary == called = "Variant" /\ V!Next /\ UNCHANGED <<called, vars, splitting, replace>>

MCNext == Hash \/ Split \/ ReplaceIn \/ Vary

MCSafety == MCInit /\ [][MCNext]_MCvars

MCSpec == MCSafety /\ WF_replace(R!Next)

-----------------------------------------------------------------------------
(* split_words loses no word and makes no empty one, and replace_all       *)
(* replaces every occurrence once (string_utils.h:10-55).                  *)
StringsRight == S!WordsSoFar /\ R!ReplacedOnce

(* The loop of replace_all ends, unless it is asked to replace nothing     *)
(* (string_utils.h:13).                                                    *)
Terminates == R!Terminates

(* A Variant destroys what it constructed, once, and holds what was last   *)
(* stored in it, whichever copy threw (variant.h:39-148).                  *)
VariantsRight == V!Balanced /\ V!AsMeant
=============================================================================
