------------------------------- MODULE Routing -------------------------------
(***************************************************************************)
(* The route map of http_server: add_route_handler and                     *)
(* query_endpoint_from_map (src/http_handler.cpp:488-548).  A query looks  *)
(* for the URI itself, then tries every route as a regular expression,     *)
(* then every route as a pattern with parameters; both loops go through    *)
(* the unordered_map in an order the program does not choose, here by      *)
(* taking any of the routes left.  (Both loops have the same order, but    *)
(* the second begins when the first has been through all of them.)         *)
(*                                                                         *)
(* A path is a name for a string.  What the strings are like (their words, *)
(* what they match as regular expressions) is given by constants.          *)
(***************************************************************************)
EXTENDS Integers, Sequences

CONSTANTS
  Root,         \* the path "/"
  RoutePaths,   \* paths routes are registered under
  UriPaths,     \* paths clients ask for
  Handlers,     \* callbacks
  PathWords,    \* what stands between slashes
  WordsOf,      \* WordsOf[p]: split_words(p, '/')
  Matches,      \* Matches[p]: the paths std::regex_match finds p to match
  BadRegex,     \* routes std::regex refuses with an exception
  ParamType,    \* ParamType[w]: the type a word that starts with '<' names
  ValueType,    \* ValueType[w]: the type a word has as a value
  MaxRoutes     \* bound on registrations

Types == {"Integer", "Str", "Boolean"}

ASSUME RoutesAssumption ==
  /\ Root \in RoutePaths \cap UriPaths
  /\ BadRegex \subseteq RoutePaths
  /\ \A p \in RoutePaths \cup UriPaths : WordsOf[p] \in Seq(PathWords)
  /\ \A w \in DOMAIN ParamType : ParamType[w] \in Types \cup {"InvalidUrlDatatype"}
  /\ \A w \in PathWords : ValueType[w] \in Types

VARIABLES
  calls,        \* the calls of add_route_handler so far
  routes_map,   \* routes_map_org: route to handler
  uri,          \* the argument of the query
  left,         \* the routes the loop has not been at
  at,           \* "up", "lookup", "regex", "pattern", "answered", "threw"
  res           \* the route and handler answered, <<>> for INVALID_HTTP_URI

vars == <<calls, routes_map, uri, left, at, res>>

Routes == DOMAIN routes_map

-----------------------------------------------------------------------------
(* validate_pattern_by_url: word by word, equal or a parameter whose type  *)
(* is that of the value.                                                   *)
Mutant_Fits(pattern, words) ==
  Len(pattern) = Len(words) /\ \E i \in DOMAIN words :
    \/ words[i] = pattern[i]
    \/ /\ pattern[i] \in DOMAIN ParamType
       /\ ParamType[pattern[i]] = ValueType[words[i]]

Fits(pattern, words) ==
  Len(pattern) = Len(words) /\ \A i \in DOMAIN words :
    \/ words[i] = pattern[i]
    \/ /\ pattern[i] \in DOMAIN ParamType
       /\ ParamType[pattern[i]] = ValueType[words[i]]

Mutant_Put(r, h) == [p \in Routes \cup {r} |-> IF p \in Routes THEN routes_map[p] ELSE h]

(* The assignment replaces; the insert behind it finds the key there.      *)
Put(r, h) == [p \in Routes \cup {r} |-> IF p = r THEN h ELSE routes_map[p]]

AddRouteHandler(r, h) ==
  /\ at = "up"
  /\ Len(calls) < MaxRoutes
  /\ calls' = Append(calls, <<r, h>>)
  /\ routes_map' = Put(r, h)
  /\ UNCHANGED <<uri, left, at, res>>

Query(u) ==
  /\ at = "up"
  /\ uri' = u
  /\ at' = "lookup"
  /\ UNCHANGED <<calls, routes_map, left, res>>

Answer(r) == res' = <<r, routes_map[r]>> /\ at' = "answered"

(* The comparison with "/" and the find that follows answer alike when the *)
(* route is there.                                                         *)
Found ==
  /\ at = "lookup"
  /\ uri \in Routes
  /\ Answer(uri)
  /\ UNCHANGED <<calls, routes_map, uri, left>>

(* "/" is compared with the routes and nothing else. *)
RootMissing ==
  /\ at = "lookup"
  /\ uri = Root /\ Root \notin Routes
  /\ at' = "answered"
  /\ UNCHANGED <<calls, routes_map, uri, left, res>>

NotFound ==
  /\ at = "lookup"
  /\ uri # Root /\ uri \notin Routes
  /\ left' = Routes
  /\ at' = "regex"
  /\ UNCHANGED <<calls, routes_map, uri, res>>

(* std::regex throws, and nothing up to main catches it. *)
RegexThrows(r) ==
  /\ at = "regex"
  /\ r \in BadRegex
  /\ at' = "threw"
  /\ UNCHANGED <<calls, routes_map, uri, left, res>>

RegexMatches(r) ==
  /\ at = "regex"
  /\ r \notin BadRegex /\ uri \in Matches[r]
  /\ Answer(r)
  /\ UNCHANGED <<calls, routes_map, uri, left>>

Mutant_RegexFails(r) ==
  /\ at = "regex"
  /\ uri \notin Matches[r]
  /\ left' = left \ {r}
  /\ UNCHANGED <<calls, routes_map, uri, at, res>>

RegexFails(r) ==
  /\ at = "regex"
  /\ r \notin BadRegex /\ uri \notin Matches[r]
  /\ left' = left \ {r}
  /\ UNCHANGED <<calls, routes_map, uri, at, res>>

NoRegex ==
  /\ at = "regex"
  /\ left = {}
  /\ left' = Routes
  /\ at' = "pattern"
  /\ UNCHANGED <<calls, routes_map, uri, res>>

PatternFits(r) ==
  /\ at = "pattern"
  /\ Fits(WordsOf[r], WordsOf[uri])
  /\ Answer(r)
  /\ UNCHANGED <<calls, routes_map, uri, left>>

PatternFails(r) ==
  /\ at = "pattern"
  /\ ~Fits(WordsOf[r], WordsOf[uri])
  /\ left' = left \ {r}
  /\ UNCHANGED <<calls, routes_map, uri, at, res>>

NoPattern ==
  /\ at = "pattern"
  /\ left = {}
  /\ at' = "answered"
  /\ UNCHANGED <<calls, routes_map, uri, left, res>>

Init ==
  /\ calls = <<>>
  /\ routes_map = [r \in {} |-> 0]
  /\ uri = Root
  /\ left = {}
  /\ at = "up"
  /\ res = <<>>

Next ==
  \/ \E r \in RoutePaths, h \in Handlers : AddRouteHandler(r, h)
  \/ \E u \in UriPaths : Query(u)
  \/ Found \/ RootMissing \/ NotFound
  \/ \E r \in left : \/ RegexThrows(r) \/ RegexMatches(r) \/ RegexFails(r)
                    \/ PatternFits(r) \/ PatternFails(r)
  \/ NoRegex \/ NoPattern

Spec == Init /\ [][Next]_vars

-----------------------------------------------------------------------------
(* What a route promises, without the loops: the routes that were ever     *)
(* registered, by how they answer for the URI. *)
Registered == {calls[i][1] : i \in DOMAIN calls}

ByRegex == {r \in Registered \ BadRegex : uri # Root /\ uri \in Matches[r]}
ByPattern ==
  {r \in Registered :
     /\ uri # Root
     /\ Len(WordsOf[r]) = Len(WordsOf[uri])
     /\ ~\E i \in DOMAIN WordsOf[r] :
          LET w == WordsOf[r][i]  v == WordsOf[uri][i] IN
            w # v /\ (w \notin DOMAIN ParamType \/ ParamType[w] # ValueType[v])}

Exact == Registered \cap {uri}

(* A query answers with the most specific kind of route there is: the URI  *)
(* itself, else one that matches as an expression, else a pattern whose    *)
(* parameters have the types of the values, and with no route only if none *)
(* of any kind is registered.  A parameter that names no type, such as the *)
(* <int> of main.cpp:54, fits nothing.  When one route of that kind is     *)
(* registered, the order of the map decides nothing.                       *)
BestRouteAnswers ==
  at = "answered" =>
    /\ Exact # {} => res # <<>> /\ res[1] \in Exact
    /\ Exact = {} /\ ByRegex # {} => res # <<>> /\ res[1] \in ByRegex
    /\ Exact = {} /\ ByRegex = {} /\ ByPattern # {} => res # <<>> /\ res[1] \in ByPattern
    /\ Exact = {} /\ ByRegex = {} /\ ByPattern = {} => res = <<>>

(* The handler answered is the one registered last under its route (the    *)
(* insert behind the assignment changes nothing, lines 490 and 491).       *)
LastHandlerWins ==
  res # <<>> =>
    \E i \in DOMAIN calls :
      /\ calls[i] = res
      /\ \A j \in i + 1 .. Len(calls) : calls[j][1] # res[1]

(* A route that is no regular expression does not fail where it is         *)
(* registered: it ends the process at some query that no route answers by  *)
(* name (line 526).  A query for "/" or for a registered path is never in  *)
(* danger, and one that matches no expression always is.                   *)
BadRouteKillsAtQuery ==
  /\ at = "threw" => /\ Registered \cap BadRegex # {}
                     /\ uri \notin Registered \cup {Root}
  /\ at = "answered" /\ uri \notin Registered \cup {Root} /\ ByRegex = {} =>
       Registered \cap BadRegex = {}

(* The three together: what a program that registers routes may rely on    *)
(* when a request comes (query_endpoint_from_map, lines 488 to 548).       *)
RoutesAnswer == BestRouteAnswers /\ LastHandlerWins /\ BadRouteKillsAtQuery
=============================================================================
