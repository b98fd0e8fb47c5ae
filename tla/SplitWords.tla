------------------------------ MODULE SplitWords ------------------------------
(***************************************************************************)
(* split_words (includes/string_utils.h:28-55), one turn of its loop a     *)
(* step.  It reads up to a NUL, which every std::string has at its end.    *)
(***************************************************************************)
EXTENDS Strings, SequencesExt

CONSTANTS
  Chars,      \* the characters of the words, the separator and NUL among them
  Sep,        \* sp
  NUL,        \* '\0'
  MaxLength   \* every string up to this length is tried

VARIABLES
  word, iter,   \* the string and the place in it, from 1
  str,          \* the word being read
  ret,          \* the words read
  at            \* "loop" or "done"

vars == <<word, iter, str, ret, at>>

CharAt(i) == IF i \in DOMAIN word THEN word[i] ELSE NUL

Mutant_Letter ==
  /\ at = "loop"
  /\ CharAt(iter) \notin {Sep, NUL}
  /\ str' = Append(str, CharAt(iter))
  /\ iter' = iter + 1
  /\ ret' = IF CharAt(iter + 1) = Sep THEN Append(ret, str') ELSE ret
  /\ UNCHANGED <<word, at>>

Letter ==
  /\ at = "loop"
  /\ CharAt(iter) \notin {Sep, NUL}
  /\ str' = Append(str, CharAt(iter))
  /\ iter' = iter + 1
  /\ UNCHANGED <<word, ret, at>>

(* A separator ends a word, if there is one. *)
Separator ==
  /\ at = "loop"
  /\ CharAt(iter) = Sep
  /\ ret' = IF str = <<>> THEN ret ELSE Append(ret, str)
  /\ str' = <<>>
  /\ iter' = iter + 1
  /\ UNCHANGED <<word, at>>

(* The NUL: the last word has no separator behind it. *)
End ==
  /\ at = "loop"
  /\ CharAt(iter) = NUL
  /\ ret' = IF str = <<>> THEN ret ELSE Append(ret, str)
  /\ at' = "done"
  /\ UNCHANGED <<word, iter, str>>

Init ==
  /\ word \in BoundedSeq(Chars, MaxLength)
  /\ iter = 1 /\ str = <<>> /\ ret = <<>>
  /\ at = "loop"

Next == Letter \/ Separator \/ End

Spec == Init /\ [][Next]_vars

-----------------------------------------------------------------------------
(* At every turn the words read are those of the part read, and at the end *)
(* those of all that is before the first NUL: no word is lost or empty,    *)
(* whatever separators lead, trail or repeat (string_utils.h:32-53).       *)
WordsSoFar ==
  IF at = "done" THEN ret = Words(SubSeq(word, 1, iter - 1), Sep)
  ELSE (IF str = <<>> THEN ret ELSE Append(ret, str))
         = Words(SubSeq(word, 1, iter - 1), Sep)
=============================================================================
