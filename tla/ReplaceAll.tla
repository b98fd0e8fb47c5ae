------------------------------ MODULE ReplaceAll ------------------------------
(***************************************************************************)
(* replace_all (includes/string_utils.h:10-18), one turn of its loop a     *)
(* step.  What has been put in is not searched again; with an empty "from" *)
(* the loop never runs out of places to insert at.                         *)
(***************************************************************************)
EXTENDS Integers, Sequences, SequencesExt

CONSTANTS
  Chars,
  MaxLength,   \* the longest string tried
  MaxPattern,  \* the longest "from" and "to" tried
  MaxSize      \* the longest std::string

VARIABLES
  original,    \* the argument, as it was
  str, start_pos,
  from, to,
  copied,      \* how much of the original is before start_pos
  at           \* "loop", "done", or "threw" (length_error)

vars == <<original, str, start_pos, from, to, copied, at>>

OccursAt(s, t, i) == i + Len(t) - 1 <= Len(s) /\ SubSeq(s, i, i + Len(t) - 1) = t

(* The first place from i on where t is in s, 0 if none. *)
Find(s, t, i) == SelectInSubSeq([k \in 1 .. Len(s) + 1 |-> k], i, Len(s) + 1,
                                LAMBDA k : OccursAt(s, t, k))

Found == Find(str, from, start_pos)

Mutant_Replace ==
  /\ at = "loop"
  /\ Found # 0
  /\ Len(str) - Len(from) + Len(to) <= MaxSize
  /\ str' = SubSeq(str, 1, Found - 1) \o to \o SubSeq(str, Found + Len(from), Len(str))
  /\ start_pos' = Found + 1
  /\ copied' = copied + (Found - start_pos) + Len(from)
  /\ UNCHANGED <<original, from, to, at>>

Mutant_Rescan ==
  /\ at = "loop"
  /\ Found # 0
  /\ Len(str) - Len(from) + Len(to) <= MaxSize
  /\ str' = SubSeq(str, 1, Found - 1) \o to \o SubSeq(str, Found + Len(from), Len(str))
  /\ start_pos' = Found
  /\ copied' = copied + (Found - start_pos) + Len(from)
  /\ UNCHANGED <<original, from, to, at>>

Replace ==
  /\ at = "loop"
  /\ Found # 0
  /\ Len(str) - Len(from) + Len(to) <= MaxSize
  /\ str' = SubSeq(str, 1, Found - 1) \o to \o SubSeq(str, Found + Len(from), Len(str))
  /\ start_pos' = Found + Len(to)
  /\ copied' = copied + (Found - start_pos) + Len(from)
  /\ UNCHANGED <<original, from, to, at>>

TooLong ==
  /\ at = "loop"
  /\ Found # 0
  /\ Len(str) - Len(from) + Len(to) > MaxSize
  /\ at' = "threw"
  /\ UNCHANGED <<original, str, start_pos, from, to, copied>>

NotFound ==
  /\ at = "loop"
  /\ Found = 0
  /\ at' = "done"
  /\ UNCHANGED <<original, str, start_pos, from, to, copied>>

Init ==
  /\ original \in BoundedSeq(Chars, MaxLength)
  /\ str = original /\ start_pos = 1
  /\ from \in BoundedSeq(Chars, MaxPattern)
  /\ to \in BoundedSeq(Chars, MaxPattern)
  /\ copied = 0
  /\ at = "loop"

Next == Replace \/ TooLong \/ NotFound

Spec == Init /\ [][Next]_vars /\ WF_vars(Next)

-----------------------------------------------------------------------------
(* The original with every occurrence replaced, leftmost first, from place *)
(* i on.                                                                   *)
Replaced(i) ==
  LET r[k \in 1 .. Len(original) + 1] ==
        IF k = Len(original) + 1 THEN <<>>
        ELSE IF OccursAt(original, from, k) THEN to \o r[k + Len(from)]
        ELSE <<original[k]>> \o r[k + 1]
  IN  r[i]

(* What is before start_pos is final, what is behind it is the rest of the *)
(* original, and at the end every occurrence is replaced once: inserted    *)
(* text is not searched, and none of the original is skipped               *)
(* (string_utils.h:13-16).                                                 *)
ReplacedOnce ==
  from # <<>> =>
    /\ SubSeq(str, start_pos, Len(str)) = SubSeq(original, copied + 1, Len(original))
    /\ SubSeq(str, 1, start_pos - 1) \o Replaced(copied + 1) = Replaced(1)
    /\ at = "done" => str = Replaced(1)

(* The loop ends, even where "to" contains "from".  Only with an empty     *)
(* "from" does it not end well: it grows the string beyond what can be     *)
(* held, or inserts nothing for ever.                                      *)
Terminates ==
  /\ (at = "loop" /\ from # <<>>) ~> (at = "done")
  /\ (at = "loop" /\ to # <<>>) ~> (at # "loop")
=============================================================================
