----------------------------- MODULE RequestLine -----------------------------
(***************************************************************************)
(* received_str (src/includes/io_utils.h:23-39) and what is taken from the *)
(* first line of a request: the verb, the URL with and without its query   *)
(* (src/http_handler.cpp:38-42, 130-150, 313-323).  The request is read by *)
(* one recv, into a buffer that is taken for a string.                     *)
(*                                                                         *)
(* A character is one of those the functions tell apart; three words and   *)
(* the version are one character each, "x" is every other.                 *)
(***************************************************************************)
EXTENDS Integers, Sequences, SequencesExt

CONSTANTS
  Requests,   \* what clients send
  Buffer      \* default_max_buffer

Verbs == <<"get", "post", "put">>    \* whatever their case
Version == "HTTP/1.1"
NUL == "NUL"
Chars == {"get", "post", "put", "x", "?", "SP", Version, NUL}

VARIABLES
  sent,      \* what the client sent
  data,      \* what recv found of it
  request,   \* str_request
  at,        \* "recv", "parse", "parsed", "nothing", "undefined"
  read       \* verb, request_verb, path and url

vars == <<sent, data, request, at, read>>

Find(s, c) == SelectInSeq(s, LAMBDA d : d = c)

-----------------------------------------------------------------------------
(* substr(pos, count): to the end when count is less than 0, for it is     *)
(* converted to an unsigned number.  Positions are counted from 1.         *)
Substr(s, pos, count) ==
  SubSeq(s, pos, IF count < 0 \/ pos + count > Len(s) THEN Len(s) ELSE pos + count - 1)

FirstSpace(s) == Find(s, "SP")
VersionAt(s) ==
  LET at_ == {i \in 1 .. Len(s) - 1 : s[i] = "SP" /\ s[i + 1] = Version}
  IN  IF at_ = {} THEN 0 ELSE CHOOSE i \in at_ : \A j \in at_ : i <= j

Mutant_ExtractUrlWithQueryParams(s) ==
  Substr(s, FirstSpace(s) + 1, VersionAt(s) - FirstSpace(s))

ExtractUrlWithQueryParams(s) ==
  Substr(s, FirstSpace(s) + 1, VersionAt(s) - (FirstSpace(s) + 1))

ExtractUrl(s) ==
  LET url == ExtractUrlWithQueryParams(s)
  IN  IF Find(url, "?") = 0 THEN url ELSE SubSeq(url, 1, Find(url, "?") - 1)

ExtractHttpVerb(s) == IF FirstSpace(s) = 0 THEN s ELSE SubSeq(s, 1, FirstSpace(s) - 1)

Mutant_ParseRequestVerb(s) ==
  IF Find(s, "put") # 0 THEN "put"
  ELSE IF Find(s, "post") # 0 THEN "post" ELSE "get"

(* The words are looked for in the whole request. *)
ParseRequestVerb(s) ==
  IF Find(s, "get") # 0 THEN "get"
  ELSE IF Find(s, "post") # 0 THEN "post"
  ELSE IF Find(s, "put") # 0 THEN "put" ELSE "get"

-----------------------------------------------------------------------------
(* recv finds some of what was sent.  A full buffer without a NUL has no  *)
(* end as a string, and what lies behind it is read.                       *)
Receive(n) ==
  /\ at = "recv"
  /\ data' = SubSeq(sent, 1, n)
  /\ LET end == Find(data', NUL) IN
       /\ at' = IF end = 1 THEN "nothing"
                ELSE IF end = 0 /\ n = Buffer THEN "undefined" ELSE "parse"
       /\ request' = IF end = 0 THEN data' ELSE SubSeq(data', 1, end - 1)
  /\ UNCHANGED <<sent, read>>

Parse ==
  /\ at = "parse"
  /\ read' = [str_verb        |-> ExtractHttpVerb(request),
              request_verb_id |-> ParseRequestVerb(request),
              path            |-> ExtractUrlWithQueryParams(request),
              url             |-> ExtractUrl(request)]
  /\ at' = "parsed"
  /\ UNCHANGED <<sent, data, request>>

Init ==
  /\ sent \in Requests \ {<<>>}
  /\ data = <<>>
  /\ request = <<>>
  /\ at = "recv"
  /\ read = <<>>

Next ==
  \/ \E n \in 1 .. Len(sent) : n <= Buffer /\ Receive(n)
  \/ Parse

Spec == Init /\ [][Next]_vars

-----------------------------------------------------------------------------
(* The first line, as RFC 7230 writes it: a method up to a, a target up to *)
(* b, and the version.                                                     *)
IsRequestLine(a, b) ==
  /\ 1 < a /\ a + 1 < b /\ b < Len(sent)
  /\ sent[a] = "SP" /\ sent[b] = "SP" /\ sent[b + 1] = Version
  /\ \A i \in 1 .. b - 1 : sent[i] \notin {NUL, Version} /\ (sent[i] = "SP" => i = a)

(* When the first line has arrived, its method and target are what is      *)
(* read, whatever follows it; when it has not, what is read of the target  *)
(* is as much as has arrived, and is answered as if it were all of it      *)
(* (lines 130 to 152).                                                     *)
TargetRead ==
  at = "parsed" =>
    \A a, b \in DOMAIN sent :
      IsRequestLine(a, b) =>
        IF Len(data) > b
          THEN /\ read.path = SubSeq(sent, a + 1, b - 1)
               /\ IsPrefix(read.url, read.path)
               /\ Find(read.url, "?") = 0
               /\ read.url # read.path => sent[a + Len(read.url) + 1] = "?"
               /\ read.str_verb = SubSeq(sent, 1, a - 1)
          ELSE Len(data) > a => read.path = SubSeq(data, a + 1, Len(data))

(* The verb is that of the first line unless an earlier one of get, post,  *)
(* put stands anywhere in what was received: a POST to /target or with a   *)
(* "Get" in its body is a Get (line 316).                                  *)
VerbMistakenOnlyByAnother ==
  at = "parsed" =>
    \A a, b \in DOMAIN sent : \A v \in DOMAIN Verbs :
      IsRequestLine(a, b) /\ a = 2 /\ sent[1] = Verbs[v] =>
        ((read.request_verb_id # Verbs[v]) <=>
           \E i \in 2 .. Len(request) : \E w \in 1 .. v - 1 : request[i] = Verbs[w])
=============================================================================
