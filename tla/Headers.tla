------------------------------- MODULE Headers -------------------------------
(***************************************************************************)
(* parse_headers (src/http_handler.cpp:162-188).                           *)
(* The request is read line by line; a line with a colon is a header, and  *)
(* reading stops at an empty line, but the empty line of HTTP is CR LF and *)
(* is not empty to getline, so that the lines of a body are headers too.   *)
(*                                                                         *)
(* A character is one of a few that the parser tells apart; "x" stands for *)
(* every other.                                                            *)
(***************************************************************************)
EXTENDS Integers, Sequences, SequencesExt

CONSTANT Requests   \* what clients send

Chars == {"x", ":", "SP", "CR", "LF"}
Blanks == {"SP"}            \* " \t", which are treated alike

VARIABLES
  request,   \* the characters received
  rest,      \* the stream: what getline has not read
  headers,   \* the map filled so far, from names to values
  at         \* "first", "lines", "done", or "threw" (out_of_range)

vars == <<request, rest, headers, at>>

-----------------------------------------------------------------------------
(* std::string and std::getline *)

(* The first and the last place in s of a character outside S; npos is one *)
(* behind the end, and one before the start.                               *)
FirstNotOf(s, S) ==
  LET n == SelectInSeq(s, LAMBDA c : c \notin S) IN IF n = 0 THEN Len(s) + 1 ELSE n
LastNotOf(s, S) == SelectLastInSeq(s, LAMBDA c : c \notin S)

EraseLeading(s, S) == SubSeq(s, FirstNotOf(s, S), Len(s))
EraseTrailing(s, S) == SubSeq(s, 1, LastNotOf(s, S))

Find(s, c) == SelectInSeq(s, LAMBDA d : d = c)

LineEnd == IF Find(rest, "LF") = 0 THEN Len(rest) + 1 ELSE Find(rest, "LF")
Line == SubSeq(rest, 1, LineEnd - 1)
GetLine == rest' = SubSeq(rest, LineEnd + 1, Len(rest))

-----------------------------------------------------------------------------
Mutant_Value(line) ==
  LET v == EraseTrailing(EraseLeading(
             SubSeq(line, Find(line, ":") + 2, Len(line)), Blanks), Blanks)
  IN  EraseTrailing(EraseLeading(v, {"LF"}), {"LF"})

(* The value: what is behind the colon and one more character, stripped. *)
Value(line) ==
  LET v == EraseTrailing(EraseLeading(
             SubSeq(line, Find(line, ":") + 2, Len(line)), Blanks), Blanks)
  IN  EraseTrailing(EraseLeading(EraseLeading(v, {"CR"}), {"LF"}), {"CR", "LF"})

Name(line) == SubSeq(line, 1, Find(line, ":") - 1)

Put(name, value) == [n \in DOMAIN headers \cup {name} |->
                       IF n = name THEN value ELSE headers[n]]

(* The request line is skipped. *)
RequestLine ==
  /\ at = "first"
  /\ GetLine
  /\ at' = "lines"
  /\ UNCHANGED <<request, headers>>

Mutant_Header ==
  /\ at = "lines"
  /\ Find(Line, ":") \in 1 .. Len(Line) - 1
  /\ headers' = Put(SubSeq(Line, 1, Find(Line, ":")), Value(Line))
  /\ GetLine
  /\ UNCHANGED <<request, at>>

Header ==
  /\ at = "lines"
  /\ Find(Line, ":") \in 1 .. Len(Line) - 1
  /\ headers' = Put(Name(Line), Value(Line))
  /\ GetLine
  /\ UNCHANGED <<request, at>>

Mutant_EndsAtColon ==
  /\ at = "lines"
  /\ Find(Line, ":") # 0
  /\ Find(Line, ":") >= Len(Line) - 1
  /\ at' = "threw"
  /\ UNCHANGED <<request, rest, headers>>

(* substr(colonPos + 2) of a line that ends at its colon throws. *)
EndsAtColon ==
  /\ at = "lines"
  /\ Find(Line, ":") # 0
  /\ Find(Line, ":") = Len(Line)
  /\ at' = "threw"
  /\ UNCHANGED <<request, rest, headers>>

(* A line without a colon is passed over, that with the CR alone too. *)
NoHeader ==
  /\ at = "lines"
  /\ Line # <<>>
  /\ Find(Line, ":") = 0
  /\ GetLine
  /\ UNCHANGED <<request, headers, at>>

(* An empty line, or the end of the stream. *)
Finish ==
  /\ at = "lines"
  /\ Line = <<>>
  /\ at' = "done"
  /\ UNCHANGED <<request, rest, headers>>

Init ==
  /\ request \in Requests \ {<<>>}
  /\ rest = request
  /\ headers = [n \in {} |-> <<>>]
  /\ at = "first"

Next == RequestLine \/ Header \/ EndsAtColon \/ NoHeader \/ Finish

Spec == Init /\ [][Next]_vars

-----------------------------------------------------------------------------
(* What RFC 7230 makes of the lines, for comparison *)

Breaks == {i \in DOMAIN request : request[i] = "LF"}

(* Characters i to j of the request are one line, without its LF. *)
IsLine(i, j) == /\ i = 1 \/ (i - 1) \in Breaks
                /\ j = Len(request) \/ (j + 1) \in Breaks
                /\ \A k \in i .. j : k \notin Breaks

(* An empty line before place i ends the head of the request. *)
Ended(i) == \E k \in Breaks : k < i /\ (k - 1) \in Breaks

(* The exception of substr ends the process (no caller catches it): it is  *)
(* thrown exactly if some line behind the first, before a line that is     *)
(* empty without a CR, has its first colon as its last character: "Name:"  *)
(* with a bare LF or at the end of what was received (line 176).           *)
ThrowsAtBareColon ==
  at \in {"done", "threw"} =>
    ((at = "threw") <=>
       \E i \in 2 .. Len(request) : \E j \in i .. Len(request) :
         /\ IsLine(i, j)
         /\ ~Ended(i)
         /\ request[j] = ":"
         /\ \A k \in i .. (j - 1) : request[k] # ":")

(* No value can carry a line break into a response or end in the CR of its *)
(* line (lines 180 to 182).                                                *)
NoBreakInValues ==
  \A n \in DOMAIN headers :
    LET v == headers[n] IN
      /\ \A k \in DOMAIN v : v[k] # "LF"
      /\ v # <<>> => v[1] # "CR" /\ Last(v) # "CR"

(* Header lines written as clients write them, "name: value" and CR LF,    *)
(* are found under their name with their value: each such line behind the  *)
(* request line, unless a later line of the request repeats the name.      *)
UsualHeadersFound ==
  at = "done" =>
    \A i \in 2 .. Len(request) : \A j \in i .. Len(request) : \A c \in i .. j :
      (/\ IsLine(i, j) /\ ~Ended(i)
       /\ \A k \in i .. (c - 1) : request[k] = "x"
       /\ request[c] = ":" /\ c + 3 <= j
       /\ request[c + 1] = "SP" /\ request[j] = "CR"
       /\ \A k \in (c + 2) .. (j - 1) : request[k] = "x")
      => LET name == SubSeq(request, i, c - 1) IN
           /\ name \in DOMAIN headers
           /\ \/ headers[name] = SubSeq(request, c + 2, j - 1)
              \/ \E l \in (j + 1) .. (Len(request) - Len(name)) :
                   /\ l - 1 \in Breaks
                   /\ SubSeq(request, l, l + Len(name)) = Append(name, ":")
=============================================================================
