------------------------------- MODULE MCHttp -------------------------------
(***************************************************************************)
(* The parts of the HTTP layer that work on one request, for TLC: the      *)
(* request line, the headers, the parameters, the route and the response.  *)
(* A behaviour is of one of them, the others are not called in it.         *)
(***************************************************************************)
EXTENDS Routing, SequencesExt

CONSTANTS
  MaxRequest, MaxLines,   \* bounds on the requests
  Heads,                  \* that parse_headers is tried on
  UrlChars, MaxUrl,       \* the characters of the URLs, and the bound on them
  Requests, Buffer,       \* those of RequestLine
  Sizes, Files, PathSize, Notice, MaxCalls   \* those of Response

ASSUME ResponseAssumption ==
  /\ Sizes \subseteq Nat /\ PathSize \in Nat /\ Notice \in Nat \ {0}
  /\ \A f \in Files : f.size \in Nat

VARIABLES
  called,                 \* what this behaviour is of
  request, rest, headers, headers_at,
  url, vars_left, ret, url_at,
  sent, data, str_request, line_at, read,
  api, handler_calls, named, copy, response_at, returned, wire

-----------------------------------------------------------------------------
(* Routes of every kind, as the programs of the repository register them,  *)
(* and URIs that tell them apart. *)
MCRoutePaths ==
  {"/", "/.*", "/a", "/[", "/<x:int>", "/<x:str>", "/<x:boolean>/b", "/<int>"}
MCUriPaths == {"/", "/a", "/7", "/true/b", "/7/b", "/z"}

MCWordsOf ==
  [p \in MCRoutePaths \cup MCUriPaths |->
     CASE p = "/"              -> <<>>
       [] p = "/.*"            -> <<".*">>
       [] p = "/a"             -> <<"a">>
       [] p = "/["             -> <<"[">>
       [] p = "/<x:int>"       -> <<"<x:int>">>
       [] p = "/<x:str>"       -> <<"<x:str>">>
       [] p = "/<x:boolean>/b" -> <<"<x:boolean>", "b">>
       [] p = "/<int>"         -> <<"<int>">>
       [] p = "/7"             -> <<"7">>
       [] p = "/true/b"        -> <<"true", "b">>
       [] p = "/7/b"           -> <<"7", "b">>
       [] p = "/z"             -> <<"z">>]

(* Every other route matches nothing but its own string. *)
MCMatches == [p \in MCRoutePaths |-> IF p = "/.*" THEN MCUriPaths ELSE {p}]

MCBadRegex == {"/["}

MCParamType ==
  [w \in {"<x:int>", "<x:str>", "<x:boolean>", "<int>"} |->
     CASE w = "<x:int>" -> "Integer"
       [] w = "<x:str>" -> "Str"
       [] w = "<x:boolean>" -> "Boolean"
       [] OTHER -> "InvalidUrlDatatype"]

MCWords == {"a", "b", "z", "7", "true", ".*", "["} \cup DOMAIN MCParamType

MCValueType ==
  [w \in MCWords |->
     CASE w = "7" -> "Integer" [] w = "true" -> "Boolean" [] OTHER -> "Str"]

(* Header lines that clients send, for requests of several. *)
MCLines == {
  <<"x", "CR", "LF">>,
  <<"x", ":", "SP", "x", "CR", "LF">>,
  <<"x", ":", "SP", "x", "x", "CR", "LF">>,
  <<"x", "x", ":", "SP", "x", "CR", "LF">>,
  <<"x", ":", "x", "LF">>,
  <<"x", ":", "CR", "LF">>,
  <<"x", ":", "LF">>,
  <<"CR", "LF">>,
  <<"LF">>,
  <<"x", ":", "SP", "SP", "x", "SP">> }

(* Every short text, and every request of a few of these lines. *)
MCHeads ==
  BoundedSeq({"x", ":", "SP", "CR", "LF"}, MaxRequest)
    \cup {FlattenSeq(ls) : ls \in BoundedSeq(MCLines, MaxLines)}

(* Request lines and what follows them, and any text. *)
MCRequests ==
  {m \o <<"SP">> \o t \o <<"SP", "HTTP/1.1">> \o r :
     m \in BoundedSeq({"get", "post", "put", "x"}, 1),
     t \in BoundedSeq({"x", "?", "get", "post"}, 3),
     r \in BoundedSeq({"x", "SP", "HTTP/1.1", "get", "put", "NUL"}, 2)}
  \cup BoundedSeq({"SP", "?", "HTTP/1.1", "get", "post", "x", "NUL"}, 4)

(* A file of each kind. *)
MCFiles == {
  [kind |-> "text", size |-> 2, newline |-> TRUE],
  [kind |-> "text", size |-> 1, newline |-> FALSE],
  [kind |-> "text", size |-> 0, newline |-> FALSE],
  [kind |-> "none", size |-> 0, newline |-> FALSE],
  [kind |-> "dir", size |-> 1, newline |-> FALSE],
  [kind |-> "dir", size |-> 0, newline |-> FALSE] }

-----------------------------------------------------------------------------
P == INSTANCE Headers WITH Requests <- Heads, at <- headers_at
U == INSTANCE UrlParams WITH Chars <- UrlChars, MaxLength <- MaxUrl, at <- url_at
L == INSTANCE RequestLine WITH request <- str_request, at <- line_at
R == INSTANCE Response WITH calls <- handler_calls, at <- response_at, sent <- returned

ASSUME HeadsAssumption == Heads \subseteq Seq(P!Chars)

ASSUME RequestsAssumption == Requests \subseteq Seq(L!Chars)

ASSUME UrlAssumption == {"?", ";", "="} \subseteq UrlChars

NoHeaders == /\ request = <<>> /\ rest = <<>> /\ headers = <<>>
             /\ headers_at = "idle"
NoUrl == url = <<>> /\ vars_left = <<>> /\ ret = <<>> /\ url_at = "idle"
NoRequest == /\ sent = <<>> /\ data = <<>> /\ str_request = <<>>
             /\ line_at = "idle" /\ read = <<>>
NoResponse == /\ api = "none" /\ handler_calls = <<>> /\ named = <<>> /\ copy = <<>>
              /\ response_at = "idle" /\ returned = "none" /\ wire = <<>>

parsing == <<request, rest, headers, headers_at>>
splitting == <<url, vars_left, ret, url_at>>
receiving == <<sent, data, str_request, line_at, read>>
responding == <<api, handler_calls, named, copy, response_at, returned, wire>>
MCvars == <<called, vars, parsing, splitting, receiving, responding>>

MCInit ==
  /\ called \in {"routes", "parse_headers", "parse_url_params", "request_line", "response"}
  /\ Init
  /\ IF called = "parse_headers" THEN P!Init ELSE NoHeaders
  /\ IF called = "parse_url_params" THEN U!Init ELSE NoUrl
  /\ IF called = "request_line" THEN L!Init ELSE NoRequest
  /\ IF called = "response" THEN R!Init ELSE NoResponse

Route == called = "routes" /\ Next
         /\ UNCHANGED <<called, parsing, splitting, receiving, responding>>
ParseHeaders == called = "parse_headers" /\ P!Next
                /\ UNCHANGED <<called, vars, splitting, receiving, responding>>
ParseUrl == called = "parse_url_params" /\ U!Next
            /\ UNCHANGED <<called, vars, parsing, receiving, responding>>
ReadLine == called = "request_line" /\ L!Next
            /\ UNCHANGED <<called, vars, parsing, splitting, responding>>
Respond == called = "response" /\ R!Next
           /\ UNCHANGED <<called, vars, parsing, splitting, receiving>>

MCNext == Route \/ ParseHeaders \/ ParseUrl \/ ReadLine \/ Respond

MCSpec == MCInit /\ [][MCNext]_MCvars

-----------------------------------------------------------------------------
(* What is taken from a request: headers as clients write them are found,  *)
(* without line breaks, and a line that ends at its colon throws           *)
(* (http_handler.cpp:162-188); parameters are found with their last value, *)
(* and one without a value is read past its vector (lines 190 to 205);     *)
(* target and verb are those of the first line if it has arrived and no    *)
(* other verb stands in the request (lines 130 to 150, 313 to 323).        *)
RequestRead ==
  /\ P!ThrowsAtBareColon /\ P!NoBreakInValues /\ P!UsualHeadersFound
  /\ U!UndefinedWithoutValue /\ U!LastValueFound
  /\ L!TargetRead /\ L!VerbMistakenOnlyByAnother

(* What becomes of a handler's response: exactly when its client gets the  *)
(* whole answer, when it waits for more, and when every call of the        *)
(* handler takes effect (lines 294 to 388, 435 to 473).                    *)
ResponseArrives ==
  R!WholeUnlessStale /\ R!WaitsOnlyWhenKept /\ R!NothingLostWithoutFork
=============================================================================
