--------------------------- MODULE ProtocolProofs ---------------------------
(***************************************************************************)
(* Proofs about what is worked out of one request: the route of a URI, for *)
(* every set of routes and URIs, whatever they match, and any number of    *)
(* registrations; the response of a handler, for every sequence of its     *)
(* calls; and what is read of a request line, of the parameters of a URL   *)
(* and of the headers, for every text.                                     *)
(***************************************************************************)
EXTENDS MCHttp, StringLemmas

-----------------------------------------------------------------------------
(* The routes *)

(* The map holds what was registered, under each route the last handler. *)
LastOf(i) == \A j \in i + 1 .. Len(calls) : calls[j][1] # calls[i][1]

MapInv ==
  /\ calls \in Seq(RoutePaths \X Handlers)
  /\ \A i \in DOMAIN calls : calls[i][1] \in Routes
  /\ \A r \in Routes : \E i \in DOMAIN calls : calls[i] = <<r, routes_map[r]>> /\ LastOf(i)

(* What the loops have behind them did not answer. *)
LoopInv ==
  /\ at \in {"up", "lookup", "regex", "pattern", "answered", "threw"}
  /\ uri \in UriPaths
  /\ at \in {"up", "lookup", "regex", "pattern"} => res = <<>>
  /\ at \in {"regex", "pattern", "threw"} => uri \notin Routes /\ uri # Root
  /\ at \in {"regex", "pattern"} => left \subseteq Routes
  /\ at = "regex" =>
       \A r \in Routes : r \in left \/ (r \notin BadRegex /\ uri \notin Matches[r])
  /\ at = "pattern" =>
       \A r \in Routes : /\ r \notin BadRegex /\ uri \notin Matches[r]
                         /\ r \in left \/ ~Fits(WordsOf[r], WordsOf[uri])
  /\ at = "threw" => Routes \cap BadRegex # {} /\ res = <<>>

(* What the query answers, in terms of the map. *)
AnswerInv ==
  at = "answered" =>
    \/ /\ res = <<>>
       /\ uri \notin Routes
       /\ uri # Root =>
            \A r \in Routes : /\ r \notin BadRegex /\ uri \notin Matches[r]
                              /\ ~Fits(WordsOf[r], WordsOf[uri])
    \/ /\ uri \in Routes
       /\ res = <<uri, routes_map[uri]>>
    \/ \E q \in Routes :
         /\ res = <<q, routes_map[q]>>
         /\ uri \notin Routes /\ uri # Root
         /\ \/ q \notin BadRegex /\ uri \in Matches[q]
            \/ /\ \A r \in Routes : r \notin BadRegex /\ uri \notin Matches[r]
               /\ Fits(WordsOf[q], WordsOf[uri])

RoutesInv == MapInv /\ LoopInv /\ AnswerInv

-----------------------------------------------------------------------------
(* add_route_handler keeps the map in step with the calls. *)
LEMMA AddKeepsMap ==
  ASSUME MapInv, NEW r \in RoutePaths, NEW h \in Handlers, AddRouteHandler(r, h)
  PROVE  MapInv'
<1> DEFINE n == Len(calls) + 1
<1>1. /\ calls' = Append(calls, <<r, h>>)
      /\ calls' \in Seq(RoutePaths \X Handlers)
      /\ Len(calls') = n
      /\ DOMAIN calls' = 1 .. n
      /\ calls'[n] = <<r, h>>
      /\ \A i \in DOMAIN calls : i \in 1 .. Len(calls) /\ calls'[i] = calls[i]
      /\ Len(calls) \in Nat
  BY DEF MapInv, AddRouteHandler
<1>2. /\ Routes' = Routes \cup {r}
      /\ routes_map'[r] = h
      /\ \A p \in Routes : p # r => routes_map'[p] = routes_map[p]
  BY DEF AddRouteHandler, Put, Routes
<1> HIDE DEF n
<1>3. \A i \in DOMAIN calls' : calls'[i][1] \in Routes'
  <2> SUFFICES ASSUME NEW i \in 1 .. n PROVE calls'[i][1] \in Routes'
    BY <1>1
  <2>1. CASE i = n BY <2>1, <1>1, <1>2
  <2>2. CASE i # n
    <3>1. i \in DOMAIN calls BY <2>2, <1>1 DEF n, MapInv
    <3> QED BY <3>1, <1>1, <1>2 DEF MapInv
  <2> QED BY <2>1, <2>2
<1>4. ASSUME NEW p \in Routes'
      PROVE  \E i \in DOMAIN calls' :
               /\ calls'[i] = <<p, routes_map'[p]>>
               /\ \A j \in i + 1 .. Len(calls') : calls'[j][1] # calls'[i][1]
  <2>1. CASE p = r
    <3>1. n \in DOMAIN calls' /\ n + 1 .. Len(calls') = {} BY <1>1 DEF n
    <3> QED BY <3>1, <2>1, <1>1, <1>2
  <2>2. CASE p # r
    <3>1. p \in Routes BY <2>2, <1>2
    <3>2. PICK i \in DOMAIN calls : calls[i] = <<p, routes_map[p]>> /\ LastOf(i)
      BY <3>1 DEF MapInv
    <3>3. i \in DOMAIN calls' /\ calls'[i] = <<p, routes_map'[p]>>
      BY <3>1, <3>2, <2>2, <1>1, <1>2 DEF n
    <3>4. ASSUME NEW j \in i + 1 .. n PROVE calls'[j][1] # calls'[i][1]
      <4>1. CASE j = n BY <4>1, <1>1, <3>3, <2>2
      <4>2. CASE j # n
        <5>1. j \in i + 1 .. Len(calls) /\ j \in DOMAIN calls
          BY <4>2, <1>1 DEF n, MapInv
        <5> QED BY <5>1, <3>2, <3>3, <1>1 DEF LastOf
      <4> QED BY <4>1, <4>2
    <3> QED BY <3>3, <3>4, <1>1
  <2> QED BY <2>1, <2>2
<1> QED BY <1>1, <1>3, <1>4 DEF MapInv, LastOf

(* The steps of a query change neither. *)
LEMMA MapUnchanged ==
  ASSUME MapInv, UNCHANGED <<calls, routes_map>>
  PROVE  MapInv'
BY DEF MapInv, LastOf, Routes

(* One step of the lookup or of a loop. *)
LEMMA QueryKeeps ==
  ASSUME LoopInv, AnswerInv, UNCHANGED <<calls, routes_map>>,
         \/ \E u \in UriPaths : Query(u)
         \/ Found \/ RootMissing \/ NotFound
         \/ \E r \in left : \/ RegexThrows(r) \/ RegexMatches(r) \/ RegexFails(r)
                           \/ PatternFits(r) \/ PatternFails(r)
         \/ NoRegex \/ NoPattern
  PROVE  LoopInv' /\ AnswerInv'
<1> USE DEF LoopInv, AnswerInv, Routes
<1>1. ASSUME NEW u \in UriPaths, Query(u) PROVE LoopInv' /\ AnswerInv'
  BY <1>1 DEF Query
<1>2. CASE Found BY <1>2 DEF Found, Answer
<1>3. CASE RootMissing BY <1>3 DEF RootMissing
<1>4. CASE NotFound BY <1>4 DEF NotFound
<1>5. ASSUME NEW r \in left, RegexThrows(r) PROVE LoopInv' /\ AnswerInv'
  BY <1>5 DEF RegexThrows
<1>6. ASSUME NEW r \in left, RegexMatches(r) PROVE LoopInv' /\ AnswerInv'
  BY <1>6 DEF RegexMatches, Answer
<1>7. ASSUME NEW r \in left, RegexFails(r) PROVE LoopInv' /\ AnswerInv'
  BY <1>7 DEF RegexFails
<1>8. ASSUME NEW r \in left, PatternFits(r) PROVE LoopInv' /\ AnswerInv'
  BY <1>8 DEF PatternFits, Answer
<1>9. ASSUME NEW r \in left, PatternFails(r) PROVE LoopInv' /\ AnswerInv'
  BY <1>9 DEF PatternFails
<1>10. CASE NoRegex BY <1>10 DEF NoRegex
<1>11. CASE NoPattern BY <1>11 DEF NoPattern
<1> QED BY <1>1, <1>2, <1>3, <1>4, <1>5, <1>6, <1>7, <1>8, <1>9, <1>10, <1>11

(* RoutesInv is an inductive invariant. *)
THEOREM RoutesInvariance == Spec => []RoutesInv
<1>1. Init => RoutesInv
  BY RoutesAssumption DEF Init, RoutesInv, MapInv, LoopInv, AnswerInv, Routes
<1>2. RoutesInv /\ [Next]_vars => RoutesInv'
  <2> SUFFICES ASSUME RoutesInv, [Next]_vars PROVE RoutesInv'
    OBVIOUS
  <2>1. ASSUME NEW r \in RoutePaths, NEW h \in Handlers, AddRouteHandler(r, h) PROVE RoutesInv'
    <3>1. MapInv' BY <2>1, AddKeepsMap DEF RoutesInv
    <3>2. LoopInv' /\ AnswerInv' BY <2>1 DEF RoutesInv, AddRouteHandler, LoopInv, AnswerInv
    <3> QED BY <3>1, <3>2 DEF RoutesInv
  <2>2. CASE UNCHANGED vars
    <3>1. MapInv' BY <2>2, MapUnchanged DEF RoutesInv, vars
    <3>2. LoopInv' /\ AnswerInv'
      BY <2>2 DEF RoutesInv, vars, LoopInv, AnswerInv, Routes
    <3> QED BY <3>1, <3>2 DEF RoutesInv
  <2>3. ASSUME \/ \E u \in UriPaths : Query(u)
               \/ Found \/ RootMissing \/ NotFound
               \/ \E r \in left : \/ RegexThrows(r) \/ RegexMatches(r) \/ RegexFails(r)
                                 \/ PatternFits(r) \/ PatternFails(r)
               \/ NoRegex \/ NoPattern
        PROVE  RoutesInv'
    <3>1. UNCHANGED <<calls, routes_map>>
      BY <2>3 DEF Query, Found, RootMissing, NotFound, RegexThrows, RegexMatches, RegexFails,
                  PatternFits, PatternFails, NoRegex, NoPattern
    <3>2. MapInv' BY <3>1, MapUnchanged DEF RoutesInv
    <3>3. LoopInv' /\ AnswerInv' BY <2>3, <3>1, QueryKeeps DEF RoutesInv
    <3> QED BY <3>2, <3>3 DEF RoutesInv
  <2> QED BY <2>1, <2>2, <2>3 DEF Next
<1> QED BY <1>1, <1>2, PTL DEF Spec

-----------------------------------------------------------------------------
(* The routes of the map are the registered ones. *)
LEMMA RoutesAreRegistered ==
  ASSUME MapInv PROVE Routes = Registered /\ Routes \subseteq RoutePaths
<1>1. \A i \in DOMAIN calls : calls[i] \in RoutePaths \X Handlers
  BY DEF MapInv
<1>2. \A r \in Routes : \E i \in DOMAIN calls : calls[i][1] = r
  BY DEF MapInv
<1> QED BY <1>1, <1>2 DEF MapInv, Registered

(* The loop of validate_pattern_by_url does what ByPattern says. *)
LEMMA FitsIsByPattern ==
  ASSUME MapInv, uri \in UriPaths, uri # Root, NEW r \in Routes
  PROVE  Fits(WordsOf[r], WordsOf[uri]) <=> r \in ByPattern
<1>1. r \in Registered /\ r \in RoutePaths BY RoutesAreRegistered
<1>2. WordsOf[r] \in Seq(PathWords) /\ WordsOf[uri] \in Seq(PathWords)
  BY <1>1, RoutesAssumption
<1>3. Len(WordsOf[r]) = Len(WordsOf[uri]) => DOMAIN WordsOf[r] = DOMAIN WordsOf[uri]
  BY <1>2
<1> QED BY <1>1, <1>3, Zenon DEF Fits, ByPattern

(* For any routes: a query is answered by the URI itself, else by an       *)
(* expression, else by a pattern, and by none only if there is none        *)
(* (query_endpoint_from_map).                                              *)
THEOREM BestRoute == Spec => []BestRouteAnswers
<1>1. RoutesInv => BestRouteAnswers
  <2> SUFFICES ASSUME RoutesInv, at = "answered" PROVE BestRouteAnswers
    BY DEF BestRouteAnswers
  <2>0. uri \in UriPaths /\ MapInv /\ AnswerInv BY DEF RoutesInv, LoopInv
  <2>1. Routes = Registered BY <2>0, RoutesAreRegistered
  <2>2. Exact = Routes \cap {uri} BY <2>1 DEF Exact
  <2>3. uri # Root => \A r \in Routes : Fits(WordsOf[r], WordsOf[uri]) <=> r \in ByPattern
    BY <2>0, FitsIsByPattern
  <2>4. \A r : r \in ByRegex <=> uri # Root /\ r \in Routes /\ r \notin BadRegex /\ uri \in Matches[r]
    BY <2>1 DEF ByRegex
  <2>5. \A r : r \in ByPattern => uri # Root /\ r \in Routes
    BY <2>1 DEF ByPattern
  <2>6. CASE /\ res = <<>>
             /\ uri \notin Routes
             /\ uri # Root =>
                  \A r \in Routes : /\ r \notin BadRegex /\ uri \notin Matches[r]
                                    /\ ~Fits(WordsOf[r], WordsOf[uri])
    BY <2>2, <2>3, <2>4, <2>5, <2>6 DEF BestRouteAnswers
  <2>7. CASE uri \in Routes /\ res = <<uri, routes_map[uri]>>
    BY <2>2, <2>7 DEF BestRouteAnswers
  <2>8. ASSUME NEW q \in Routes,
               res = <<q, routes_map[q]>>,
               uri \notin Routes /\ uri # Root,
               \/ q \notin BadRegex /\ uri \in Matches[q]
               \/ /\ \A r \in Routes : r \notin BadRegex /\ uri \notin Matches[r]
                  /\ Fits(WordsOf[q], WordsOf[uri])
        PROVE  BestRouteAnswers
    <3>1. res # <<>> /\ res[1] = q BY <2>8
    <3>2. CASE q \notin BadRegex /\ uri \in Matches[q]
      BY <3>1, <3>2, <2>2, <2>4, <2>8 DEF BestRouteAnswers
    <3>3. CASE /\ \A r \in Routes : r \notin BadRegex /\ uri \notin Matches[r]
               /\ Fits(WordsOf[q], WordsOf[uri])
      BY <3>1, <3>3, <2>2, <2>3, <2>4, <2>8 DEF BestRouteAnswers
    <3> QED BY <2>8, <3>2, <3>3
  <2> QED BY <2>0, <2>6, <2>7, <2>8 DEF AnswerInv
<1> QED BY <1>1, RoutesInvariance, PTL

(* The handler is the last one registered under the route that answers     *)
(* (add_route_handler).                                                    *)
THEOREM LastHandler == Spec => []LastHandlerWins
<1>1. RoutesInv => LastHandlerWins
  <2> SUFFICES ASSUME RoutesInv, res # <<>>
               PROVE  \E i \in DOMAIN calls :
                        calls[i] = res /\ \A j \in i + 1 .. Len(calls) : calls[j][1] # res[1]
    BY DEF LastHandlerWins
  <2>1. at = "answered" BY DEF RoutesInv, LoopInv
  <2>2. PICK q \in Routes : res = <<q, routes_map[q]>> BY <2>1 DEF RoutesInv, AnswerInv
  <2>3. PICK i \in DOMAIN calls : calls[i] = <<q, routes_map[q]>> /\ LastOf(i)
    BY DEF RoutesInv, MapInv
  <2> QED BY <2>2, <2>3 DEF LastOf
<1> QED BY <1>1, RoutesInvariance, PTL

(* A route std::regex refuses ends the process at a query only, and at     *)
(* every one that neither a name nor an expression answers.                *)
THEOREM BadRouteKills == Spec => []BadRouteKillsAtQuery
<1>1. RoutesInv => BadRouteKillsAtQuery
  <2> SUFFICES ASSUME RoutesInv PROVE BadRouteKillsAtQuery
    OBVIOUS
  <2>1. Routes = Registered BY RoutesAreRegistered DEF RoutesInv
  <2>2. at = "threw" => /\ Registered \cap BadRegex # {}
                        /\ uri \notin Registered \cup {Root}
    BY <2>1 DEF RoutesInv, LoopInv
  <2>3. ASSUME at = "answered", uri \notin Registered \cup {Root}, ByRegex = {}
        PROVE  Registered \cap BadRegex = {}
    <3>1. \A r \in Routes : r \notin BadRegex => uri \notin Matches[r]
      BY <2>1, <2>3 DEF ByRegex
    <3> QED BY <3>1, <2>1, <2>3 DEF RoutesInv, AnswerInv
  <2> QED BY <2>2, <2>3 DEF BadRouteKillsAtQuery
<1> QED BY <1>1, RoutesInvariance, PTL

(* Whatever is registered and however the map is walked, all three hold of *)
(* every query (query_endpoint_from_map).                                  *)
THEOREM RoutesCorrect == Spec => []RoutesAnswer
<1>1. BestRouteAnswers /\ LastHandlerWins /\ BadRouteKillsAtQuery => RoutesAnswer
  BY Zenon DEF RoutesAnswer
<1> QED BY <1>1, BestRoute, LastHandler, BadRouteKills, PTL

-----------------------------------------------------------------------------
(* The response of a handler *)

LengthOps == {"set_body", "Content-Length"}
RenderOps == {"render_text_file", "render_html_file"}
BodyOps == {"set_body", "body"} \cup RenderOps
TypeOps == {"set_content_type", "render_html_file"}
Ops == LengthOps \cup BodyOps \cup TypeOps \cup {"close_fd"}

IsCall(c) ==
  /\ c[1] \in {"named", "copy"}
  /\ c[2] \in Ops
  /\ c[2] \in LengthOps \cup {"body"} => c[3] \in Sizes
  /\ c[2] \in RenderOps => c[3] \in Files

CallSet == {c \in {"named", "copy"} \X Ops \X (Sizes \cup Files \cup {R!None, FALSE}) : IsCall(c)}

SizeOf(c) == IF c[2] \in RenderOps THEN R!FileBody(c[3]) ELSE c[3]

Responses == [length : Sizes \cup {R!None}, type : BOOLEAN, body : Nat, close_fd : BOOLEAN]

(* The calls of E that are one of ops, and the last of them. *)
Those(cs, E, ops) == {i \in E : cs[i][2] \in ops}
Latest(S, i) == i \in S /\ \A j \in S : j <= i

LengthShown(cs, E, o) ==
  \/ Those(cs, E, LengthOps) = {} /\ o.length = R!None
  \/ \E i : Latest(Those(cs, E, LengthOps), i) /\ o.length = cs[i][3]

BodyShown(cs, E, o) ==
  \/ Those(cs, E, BodyOps) = {} /\ o.body = 0
  \/ \E i : Latest(Those(cs, E, BodyOps), i) /\ o.body = SizeOf(cs[i])

TypeShown(cs, E, o) == o.type <=> Those(cs, E, TypeOps) # {}
CloseShown(cs, E, o) == ~o.close_fd <=> Those(cs, E, {"close_fd"}) # {}

(* The object o shows what the calls of E have done to it, and no other. *)
Shows(cs, E, o) ==
  /\ o \in Responses
  /\ LengthShown(cs, E, o) /\ BodyShown(cs, E, o)
  /\ TypeShown(cs, E, o) /\ CloseShown(cs, E, o)

(* What is rendered is never empty. *)
LEMMA FileBodies == \A f \in Files : R!FileBody(f) \in Nat /\ R!FileBody(f) > 0
<1> SUFFICES ASSUME NEW f \in Files PROVE R!FileBody(f) \in Nat /\ R!FileBody(f) > 0
  OBVIOUS
<1>1. f.size \in Nat /\ PathSize \in Nat /\ Notice \in Nat /\ Notice > 0
  BY ResponseAssumption
<1>2. f.size > 0 => f.size * (PathSize + 2) \in Nat /\ f.size * (PathSize + 2) > 0
  <2>1. \A m, n \in Nat : m > 0 => m * (n + 2) \in Nat /\ m * (n + 2) > 0
    OBVIOUS
  <2> QED
    BY <1>1, <2>1, Zenon
<1>3. PICK area : area = f.size * (PathSize + 2)
  BY Zenon
<1>4. f.size > 0 => area \in Nat /\ area > 0
  BY <1>2, <1>3, Zenon
<1>5. R!FileBody(f) =
        CASE f.kind = "text" /\ f.size > 0 -> IF f.newline THEN f.size ELSE f.size + 1
          [] f.kind = "dir" /\ f.size > 0  -> area
          [] f.kind = "dir" /\ f.size = 0  -> Notice
          [] OTHER                         -> PathSize + 2
  BY <1>3, Zenon DEF R!FileBody
<1> QED
  BY <1>1, <1>4, <1>5

LEMMA CallSizes ==
  ASSUME NEW c \in CallSet
  PROVE  /\ c[2] \in LengthOps => c[3] \in Sizes
         /\ c[2] \in BodyOps => SizeOf(c) \in Nat
         /\ c[2] \in RenderOps => SizeOf(c) > 0
<1>1. IsCall(c)
  BY Zenon DEF CallSet
<1>2. c[2] \in RenderOps => c[3] \in Files
  BY <1>1, Zenon DEF IsCall
<1>3. c[2] \in LengthOps \cup {"body"} => c[3] \in Sizes
  BY <1>1, Zenon DEF IsCall
<1>4. c[2] \in BodyOps => c[2] \in RenderOps \/ c[2] \in LengthOps \cup {"body"}
  BY DEF BodyOps, LengthOps
<1>5. c[3] \in Sizes => c[3] \in Nat
  BY ResponseAssumption
<1>6. c[2] \in RenderOps => SizeOf(c) \in Nat /\ SizeOf(c) > 0
  BY <1>2, FileBodies, Zenon DEF SizeOf
<1>7. c[2] \notin RenderOps => SizeOf(c) = c[3]
  BY Zenon DEF SizeOf
<1> QED
  BY <1>3, <1>4, <1>5, <1>6, <1>7, Zenon

(* What one call does to the object it is made on. *)
LEMMA ApplyIs ==
  ASSUME NEW o \in Responses, NEW c \in CallSet, NEW p, p = R!Apply(o, c[2], c[3])
  PROVE  /\ p \in Responses
         /\ c[2] \in LengthOps => p.length = c[3]
         /\ c[2] \notin LengthOps => p.length = o.length
         /\ c[2] \in BodyOps => p.body = SizeOf(c)
         /\ c[2] \notin BodyOps => p.body = o.body
         /\ p.type <=> o.type \/ c[2] \in TypeOps
         /\ p.close_fd <=> o.close_fd /\ c[2] # "close_fd"
<1>1. c[2] \in Ops
  BY Zenon DEF CallSet, IsCall
<1>2. /\ c[2] \in LengthOps => c[3] \in Sizes
      /\ c[2] \in BodyOps => SizeOf(c) \in Nat
  BY CallSizes, Zenon
<1>3. c[2] = "set_body" => SizeOf(c) = c[3]
  BY DEF SizeOf, RenderOps
<1>4. c[2] = "body" => SizeOf(c) = c[3]
  BY DEF SizeOf, RenderOps
<1>5. c[2] \in RenderOps => SizeOf(c) = R!FileBody(c[3])
  BY Zenon DEF SizeOf
<1>6. PICK k, n, a, b : k = c[2] /\ n = c[3] /\ a = R!FileBody(c[3]) /\ b = SizeOf(c)
  BY Zenon
<1>7. p = CASE k = "set_body"         -> [o EXCEPT !.length = n, !.body = n]
            [] k = "set_content_type" -> [o EXCEPT !.type = TRUE]
            [] k = "render_text_file" -> [o EXCEPT !.body = a]
            [] k = "render_html_file" -> [o EXCEPT !.type = TRUE, !.body = a]
            [] k = "close_fd"         -> [o EXCEPT !.close_fd = FALSE]
            [] k = "body"             -> [o EXCEPT !.body = n]
            [] k = "Content-Length"   -> [o EXCEPT !.length = n]
  BY <1>6, Zenon DEF R!Apply
<1> DEFINE Right ==
         /\ p \in Responses
         /\ k \in LengthOps => p.length = n
         /\ k \notin LengthOps => p.length = o.length
         /\ k \in BodyOps => p.body = b
         /\ k \notin BodyOps => p.body = o.body
         /\ p.type <=> o.type \/ k \in TypeOps
         /\ p.close_fd <=> o.close_fd /\ k # "close_fd"
<1>8. /\ k \in Ops
      /\ k \in LengthOps => n \in Sizes
      /\ k \in BodyOps => b \in Nat
      /\ k \in {"set_body", "body"} => b = n
      /\ k \in RenderOps => b = a
  BY <1>1, <1>2, <1>3, <1>4, <1>5, <1>6, Zenon
<1>a. ASSUME k = "set_body"
      PROVE  Right
  <2>1. p = [o EXCEPT !.length = n, !.body = n]
    BY <1>7, <1>a
  <2> QED
    BY <1>8, <1>a, <2>1 DEF Responses, LengthOps, BodyOps, RenderOps, TypeOps
<1>b. ASSUME k = "set_content_type"
      PROVE  Right
  <2>1. p = [o EXCEPT !.type = TRUE]
    BY <1>7, <1>b
  <2> QED
    BY <1>8, <1>b, <2>1 DEF Responses, LengthOps, BodyOps, RenderOps, TypeOps
<1>c. ASSUME k = "render_text_file"
      PROVE  Right
  <2>1. p = [o EXCEPT !.body = a]
    BY <1>7, <1>c
  <2> QED
    BY <1>8, <1>c, <2>1 DEF Responses, LengthOps, BodyOps, RenderOps, TypeOps
<1>d. ASSUME k = "render_html_file"
      PROVE  Right
  <2>1. p = [o EXCEPT !.type = TRUE, !.body = a]
    BY <1>7, <1>d
  <2> QED
    BY <1>8, <1>d, <2>1 DEF Responses, LengthOps, BodyOps, RenderOps, TypeOps
<1>e. ASSUME k = "close_fd"
      PROVE  Right
  <2>1. p = [o EXCEPT !.close_fd = FALSE]
    BY <1>7, <1>e
  <2> QED
    BY <1>8, <1>e, <2>1 DEF Responses, LengthOps, BodyOps, RenderOps, TypeOps
<1>f. ASSUME k = "body"
      PROVE  Right
  <2>1. p = [o EXCEPT !.body = n]
    BY <1>7, <1>f
  <2> QED
    BY <1>8, <1>f, <2>1 DEF Responses, LengthOps, BodyOps, RenderOps, TypeOps
<1>g. ASSUME k = "Content-Length"
      PROVE  Right
  <2>1. p = [o EXCEPT !.length = n]
    BY <1>7, <1>g
  <2> QED
    BY <1>8, <1>g, <2>1 DEF Responses, LengthOps, BodyOps, RenderOps, TypeOps
<1>9. Right
  BY <1>8, <1>a, <1>b, <1>c, <1>d, <1>e, <1>f, <1>g
     DEF Ops, LengthOps, BodyOps, RenderOps, TypeOps
<1> QED
  BY <1>6, <1>9, Zenon

(* The calls known, and one call more. *)
LEMMA AppendIs ==
  ASSUME NEW cs \in Seq(CallSet), NEW c \in CallSet, NEW ds, ds = Append(cs, c)
  PROVE  /\ Len(cs) \in Nat /\ ds \in Seq(CallSet)
         /\ DOMAIN cs = 1 .. Len(cs) /\ DOMAIN ds = 1 .. Len(cs) + 1
         /\ ds[Len(cs) + 1] = c
         /\ \A i \in 1 .. Len(cs) : ds[i] = cs[i]
<1>1. /\ ds \in Seq(CallSet) /\ Len(ds) = Len(cs) + 1
      /\ \A i \in 1 .. Len(cs) : ds[i] = cs[i]
      /\ ds[Len(cs) + 1] = c
  BY AppendProperties
<1>2. Len(cs) \in Nat /\ DOMAIN cs = 1 .. Len(cs)
  BY LenProperties, Zenon
<1>3. DOMAIN ds = 1 .. Len(ds)
  BY <1>1, LenProperties, Zenon
<1> QED
  BY <1>1, <1>2, <1>3, Zenon

Longer(cs, ds, n) == \A i \in 1 .. n : ds[i] = cs[i]

LEMMA ThoseStay ==
  ASSUME NEW cs, NEW ds, NEW n, Longer(cs, ds, n), NEW E \in SUBSET (1 .. n), NEW ops
  PROVE  Those(ds, E, ops) = Those(cs, E, ops)
BY Zenon DEF Longer, Those

(* What an object shows does not change by calls on another. *)
LEMMA ShowsStill ==
  ASSUME NEW cs, NEW ds, NEW n, Longer(cs, ds, n), NEW E \in SUBSET (1 .. n), NEW o,
         Shows(cs, E, o)
  PROVE  Shows(ds, E, o)
<1>1. \A ops : Those(ds, E, ops) = Those(cs, E, ops)
  BY ThoseStay
<1>2. \A ops : \A i : Latest(Those(cs, E, ops), i) => ds[i] = cs[i]
  BY Zenon DEF Latest, Those, Longer
<1>3. LengthShown(ds, E, o)
  BY <1>1, <1>2, Zenon DEF Shows, LengthShown
<1>4. BodyShown(ds, E, o)
  BY <1>1, <1>2, Zenon DEF Shows, BodyShown
<1>5. TypeShown(ds, E, o) /\ CloseShown(ds, E, o)
  BY <1>1, Zenon DEF Shows, TypeShown, CloseShown
<1> QED
  BY <1>3, <1>4, <1>5, Zenon DEF Shows

(* With one call more, at n + 1. *)
More(E, n) == E \cup {n + 1}

LEMMA ThoseNext ==
  ASSUME NEW cs, NEW ds, NEW n \in Nat, Longer(cs, ds, n), NEW E \in SUBSET (1 .. n), NEW ops
  PROVE  /\ ds[n + 1][2] \in ops => /\ Latest(Those(ds, More(E, n), ops), n + 1)
                                    /\ Those(ds, More(E, n), ops) # {}
         /\ ds[n + 1][2] \notin ops =>
              Those(ds, More(E, n), ops) = Those(cs, E, ops)
<1>1. \A i \in More(E, n) : i \in Int /\ i <= n + 1
  BY DEF More
<1>2. \A i : i \in Those(ds, More(E, n), ops) <=>
               \/ i \in Those(cs, E, ops)
               \/ i = n + 1 /\ ds[n + 1][2] \in ops
  BY Zenon DEF Those, More, Longer
<1>3. ds[n + 1][2] \in ops => Latest(Those(ds, More(E, n), ops), n + 1)
  BY <1>1, <1>2, Zenon DEF Latest, Those
<1>4. ds[n + 1][2] \notin ops => Those(ds, More(E, n), ops) = Those(cs, E, ops)
  BY <1>2, Zenon
<1> QED
  BY <1>3, <1>4, Zenon DEF Latest

LEMMA ShowsNext ==
  ASSUME NEW cs, NEW ds, NEW n \in Nat, Longer(cs, ds, n), NEW E \in SUBSET (1 .. n),
         NEW o, Shows(cs, E, o), ds[n + 1] \in CallSet,
         NEW p, p = R!Apply(o, ds[n + 1][2], ds[n + 1][3])
  PROVE  Shows(ds, More(E, n), p)
<1> DEFINE k == ds[n + 1][2]
<1>0. o \in Responses
  BY Zenon DEF Shows
<1>1. /\ p \in Responses
      /\ k \in LengthOps => p.length = ds[n + 1][3]
      /\ k \notin LengthOps => p.length = o.length
      /\ k \in BodyOps => p.body = SizeOf(ds[n + 1])
      /\ k \notin BodyOps => p.body = o.body
      /\ p.type <=> o.type \/ k \in TypeOps
      /\ p.close_fd <=> o.close_fd /\ k # "close_fd"
  BY <1>0, ApplyIs
<1>2. \A ops : /\ k \in ops => /\ Latest(Those(ds, More(E, n), ops), n + 1)
                               /\ Those(ds, More(E, n), ops) # {}
               /\ k \notin ops => Those(ds, More(E, n), ops) = Those(cs, E, ops)
  BY ThoseNext
<1>3. \A ops : \A i : Latest(Those(cs, E, ops), i) => ds[i] = cs[i]
  BY Zenon DEF Latest, Those, Longer
<1> HIDE DEF k
<1>4. LengthShown(ds, More(E, n), p)
  <2>1. CASE k \in LengthOps
    BY <1>1, <1>2, <2>1, Zenon DEF LengthShown
  <2>2. CASE k \notin LengthOps
    BY <1>1, <1>2, <1>3, <2>2, Zenon DEF LengthShown, Shows
  <2> QED
    BY <2>1, <2>2, Zenon
<1>5. BodyShown(ds, More(E, n), p)
  <2>1. CASE k \in BodyOps
    BY <1>1, <1>2, <2>1, Zenon DEF BodyShown
  <2>2. CASE k \notin BodyOps
    BY <1>1, <1>2, <1>3, <2>2, Zenon DEF BodyShown, Shows
  <2> QED
    BY <2>1, <2>2, Zenon
<1>6. TypeShown(ds, More(E, n), p)
  <2>1. o.type <=> Those(cs, E, TypeOps) # {}
    BY Zenon DEF Shows, TypeShown
  <2>2. p.type <=> Those(ds, More(E, n), TypeOps) # {}
    <3>1. CASE k \in TypeOps
      BY <1>1, <1>2, <3>1, Zenon
    <3>2. CASE k \notin TypeOps
      <4>1. Those(ds, More(E, n), TypeOps) = Those(cs, E, TypeOps)
        BY <1>2, <3>2, Zenon
      <4> QED
        BY <1>1, <2>1, <3>2, <4>1, Zenon
    <3> QED
      BY <3>1, <3>2, Zenon
  <2> QED
    BY <2>2, Zenon DEF TypeShown
<1>7. CloseShown(ds, More(E, n), p)
  <2>1. ~o.close_fd <=> Those(cs, E, {"close_fd"}) # {}
    BY Zenon DEF Shows, CloseShown
  <2>2. k \in {"close_fd"} <=> k = "close_fd"
    OBVIOUS
  <2>3. ~p.close_fd <=> Those(ds, More(E, n), {"close_fd"}) # {}
    <3>1. CASE k \in {"close_fd"}
      BY <1>1, <1>2, <2>2, <3>1, Zenon
    <3>2. CASE k \notin {"close_fd"}
      <4>1. Those(ds, More(E, n), {"close_fd"}) = Those(cs, E, {"close_fd"})
        BY <1>2, <3>2, Zenon
      <4> QED
        BY <1>1, <2>1, <2>2, <3>2, <4>1, Zenon
    <3> QED
      BY <3>1, <3>2, Zenon
  <2> QED
    BY <2>3, Zenon DEF CloseShown
<1> QED
  BY <1>1, <1>4, <1>5, <1>6, <1>7, Zenon DEF Shows

-----------------------------------------------------------------------------
NamedIn(cs) == {i \in DOMAIN cs : cs[i][1] = "named"}

(* The calls a copy has seen: those before the chain it comes from, and    *)
(* those in it.                                                            *)
ChainIn(cs) == {i \in DOMAIN cs : i \in NamedIn(cs) \/ \A j \in NamedIn(cs) : j < i}

LEMMA IndicesNamed ==
  ASSUME NEW cs \in Seq(CallSet), NEW c \in CallSet, NEW ds, ds = Append(cs, c),
         c[1] = "named"
  PROVE  /\ NamedIn(ds) = More(NamedIn(cs), Len(cs))
         /\ ChainIn(ds) = NamedIn(ds)
         /\ Latest(NamedIn(ds), Len(cs) + 1)
<1>1. /\ Len(cs) \in Nat
      /\ DOMAIN cs = 1 .. Len(cs) /\ DOMAIN ds = 1 .. Len(cs) + 1
      /\ ds[Len(cs) + 1] = c
      /\ \A i \in 1 .. Len(cs) : ds[i] = cs[i]
  BY AppendIs
<1>2. \A i : i \in 1 .. Len(cs) + 1 <=> i \in 1 .. Len(cs) \/ i = Len(cs) + 1
  BY <1>1
<1>3. \A i \in 1 .. Len(cs) + 1 : i <= Len(cs) + 1 /\ ~(Len(cs) + 1 < i)
  BY <1>1
<1>4. \A i : i \in NamedIn(ds) <=> i \in NamedIn(cs) \/ i = Len(cs) + 1
  BY <1>1, <1>2, Zenon DEF NamedIn
<1>5. NamedIn(ds) = More(NamedIn(cs), Len(cs))
  BY <1>4, Zenon DEF More
<1>6. Latest(NamedIn(ds), Len(cs) + 1)
  BY <1>1, <1>3, <1>4, Zenon DEF Latest, NamedIn
<1>7. \A i : i \in ChainIn(ds) <=> i \in NamedIn(ds)
  BY <1>1, <1>3, <1>4, Zenon DEF ChainIn, NamedIn
<1>8. ChainIn(ds) = NamedIn(ds)
  BY <1>7, Zenon
<1> QED
  BY <1>5, <1>6, <1>8, Zenon

LEMMA IndicesCopy ==
  ASSUME NEW cs \in Seq(CallSet), NEW c \in CallSet, NEW ds, ds = Append(cs, c),
         c[1] = "copy"
  PROVE  /\ NamedIn(ds) = NamedIn(cs)
         /\ ChainIn(ds) = More(ChainIn(cs), Len(cs))
<1>1. /\ Len(cs) \in Nat
      /\ DOMAIN cs = 1 .. Len(cs) /\ DOMAIN ds = 1 .. Len(cs) + 1
      /\ ds[Len(cs) + 1] = c
      /\ \A i \in 1 .. Len(cs) : ds[i] = cs[i]
  BY AppendIs
<1>2. \A i : i \in 1 .. Len(cs) + 1 <=> i \in 1 .. Len(cs) \/ i = Len(cs) + 1
  BY <1>1
<1>3. \A i \in 1 .. Len(cs) : i < Len(cs) + 1
  BY <1>1
<1>4. ds[Len(cs) + 1][1] # "named"
  <2>1. "copy" # "named"
    OBVIOUS
  <2> QED
    BY <1>1, <2>1, Zenon
<1>5. \A i : i \in NamedIn(ds) <=> i \in NamedIn(cs)
  BY <1>1, <1>2, <1>4, Zenon DEF NamedIn
<1>6. NamedIn(ds) = NamedIn(cs)
  BY <1>5, Zenon
<1>7. \A j \in NamedIn(cs) : j < Len(cs) + 1
  BY <1>1, <1>3, Zenon DEF NamedIn
<1>8. \A i : i \in ChainIn(ds) <=> i \in ChainIn(cs) \/ i = Len(cs) + 1
  BY <1>1, <1>2, <1>6, <1>7, Zenon DEF ChainIn
<1>9. ChainIn(ds) = More(ChainIn(cs), Len(cs))
  BY <1>8, Zenon DEF More
<1> QED
  BY <1>6, <1>9, Zenon

-----------------------------------------------------------------------------
(* There is a copy to go on with: what the last call returned. *)
Chains == /\ api = "new" /\ handler_calls # <<>>
          /\ handler_calls[Len(handler_calls)][2] # "close_fd"

Working == response_at \in {"handler", "sent"}

CallsInv ==
  /\ handler_calls \in Seq(CallSet)
  /\ handler_calls # <<>> => \E m : Latest(NamedIn(handler_calls), m)

ShownInv ==
  Working => /\ Shows(handler_calls, NamedIn(handler_calls), named)
             /\ Chains => Shows(handler_calls, ChainIn(handler_calls), copy)

(* What was written is what was returned. *)
WireInv ==
  response_at = "sent" =>
    \/ returned = "named" /\ wire = R!Build(named)
    \/ returned = "copy" /\ Chains /\ wire = R!Build(copy)
    \/ /\ returned = "no_route" /\ api = "new"
       /\ wire = [length |-> R!None, ended |-> TRUE, body |-> 0, closed |-> TRUE]
    \/ /\ returned = "no_route" /\ api = "legacy"
       /\ \E n \in Sizes \ {0} :
            wire = [length |-> n, ended |-> TRUE, body |-> n + 2, closed |-> TRUE]

ResponseInv == CallsInv /\ ShownInv /\ WireInv

LEMMA Indices ==
  ASSUME NEW cs \in Seq(CallSet)
  PROVE  /\ Len(cs) \in Nat
         /\ NamedIn(cs) \in SUBSET (1 .. Len(cs))
         /\ ChainIn(cs) \in SUBSET (1 .. Len(cs))
<1>1. Len(cs) \in Nat /\ DOMAIN cs = 1 .. Len(cs)
  BY LenProperties, Zenon
<1> QED
  BY <1>1, Zenon DEF NamedIn, ChainIn

(* One call, on the variable or on the copy, and what each has seen then. *)
LEMMA NextCall ==
  ASSUME NEW cs \in Seq(CallSet), NEW c \in CallSet, NEW ds, ds = Append(cs, c)
  PROVE  /\ ds \in Seq(CallSet) /\ ds # <<>>
         /\ ds[Len(ds)] = c
         /\ Longer(cs, ds, Len(cs)) /\ ds[Len(cs) + 1] = c
<1>1. /\ Len(cs) \in Nat /\ ds \in Seq(CallSet)
      /\ DOMAIN ds = 1 .. Len(cs) + 1
      /\ ds[Len(cs) + 1] = c
      /\ \A i \in 1 .. Len(cs) : ds[i] = cs[i]
  BY AppendIs
<1>2. Len(ds) = Len(cs) + 1 /\ ds # <<>>
  BY AppendProperties
<1> QED
  BY <1>1, <1>2, Zenon DEF Longer

(* A call on the variable. *)
LEMMA NamedShows ==
  ASSUME CallsInv, NEW c \in CallSet, NEW ds, ds = Append(handler_calls, c), c[1] = "named",
         NEW o, Shows(handler_calls, NamedIn(handler_calls), o)
  PROVE  /\ ds \in Seq(CallSet) /\ \E m : Latest(NamedIn(ds), m)
         /\ ds # <<>> /\ ds[Len(ds)] = c
         /\ Shows(ds, NamedIn(ds), R!Apply(o, c[2], c[3]))
         /\ ChainIn(ds) = NamedIn(ds)
<1> DEFINE cs == handler_calls
<1>0. cs \in Seq(CallSet)
  BY Zenon DEF CallsInv
<1>1. /\ ds \in Seq(CallSet) /\ ds # <<>> /\ ds[Len(ds)] = c
      /\ Longer(cs, ds, Len(cs)) /\ ds[Len(cs) + 1] = c
  BY <1>0, NextCall
<1>2. /\ NamedIn(ds) = More(NamedIn(cs), Len(cs))
      /\ ChainIn(ds) = NamedIn(ds)
      /\ Latest(NamedIn(ds), Len(cs) + 1)
  BY <1>0, IndicesNamed
<1>3. Len(cs) \in Nat /\ NamedIn(cs) \in SUBSET (1 .. Len(cs))
  BY <1>0, Indices, Zenon
<1>4. PICK p : p = R!Apply(o, c[2], c[3])
  BY Zenon
<1>5. ds[Len(cs) + 1] \in CallSet /\ p = R!Apply(o, ds[Len(cs) + 1][2], ds[Len(cs) + 1][3])
  BY <1>1, <1>4, Zenon
<1> HIDE DEF cs
<1>6. Shows(ds, More(NamedIn(cs), Len(cs)), p)
  <2>1. Shows(cs, NamedIn(cs), o)
    BY Zenon DEF cs
  <2> QED
    BY <1>1, <1>3, <1>5, <2>1, ShowsNext
<1> QED
  BY <1>1, <1>2, <1>4, <1>6, Zenon

(* A call on the copy. *)
LEMMA CopyShows ==
  ASSUME CallsInv, NEW c \in CallSet, NEW ds, ds = Append(handler_calls, c), c[1] = "copy",
         handler_calls # <<>>,
         NEW o, Shows(handler_calls, ChainIn(handler_calls), o),
         NEW v, Shows(handler_calls, NamedIn(handler_calls), v)
  PROVE  /\ ds \in Seq(CallSet) /\ \E m : Latest(NamedIn(ds), m)
         /\ Shows(ds, NamedIn(ds), v)
         /\ Shows(ds, ChainIn(ds), R!Apply(o, c[2], c[3]))
<1> DEFINE cs == handler_calls
<1>0. cs \in Seq(CallSet) /\ \E m : Latest(NamedIn(cs), m)
  BY Zenon DEF CallsInv
<1>1. /\ ds \in Seq(CallSet)
      /\ Longer(cs, ds, Len(cs)) /\ ds[Len(cs) + 1] = c
  BY <1>0, NextCall
<1>2. /\ NamedIn(ds) = NamedIn(cs)
      /\ ChainIn(ds) = More(ChainIn(cs), Len(cs))
  BY <1>0, IndicesCopy
<1>3. /\ Len(cs) \in Nat /\ NamedIn(cs) \in SUBSET (1 .. Len(cs))
      /\ ChainIn(cs) \in SUBSET (1 .. Len(cs))
  BY <1>0, Indices, Zenon
<1>4. PICK p : p = R!Apply(o, c[2], c[3])
  BY Zenon
<1>5. ds[Len(cs) + 1] \in CallSet /\ p = R!Apply(o, ds[Len(cs) + 1][2], ds[Len(cs) + 1][3])
  BY <1>1, <1>4, Zenon
<1>6. Shows(cs, ChainIn(cs), o) /\ Shows(cs, NamedIn(cs), v)
  BY Zenon
<1> HIDE DEF cs
<1>7. Shows(ds, More(ChainIn(cs), Len(cs)), p)
  BY <1>1, <1>3, <1>5, <1>6, ShowsNext
<1>8. Shows(ds, NamedIn(cs), v)
  BY <1>1, <1>3, <1>6, ShowsStill
<1> QED
  BY <1>0, <1>1, <1>2, <1>4, <1>7, <1>8, Zenon

LEMMA CallsKnown ==
  /\ \A c \in R!NewCalls : \A w \in {"named", "copy"} :
       <<w, c[1], c[2]>> \in CallSet /\ c[1] # "close_fd"
  /\ \A c \in R!LegacyCalls : <<"named", c[1], c[2]>> \in CallSet
  /\ <<"named", "close_fd", FALSE>> \in CallSet
<1>1. ASSUME NEW w \in {"named", "copy"}, NEW k \in Ops,
             NEW n \in Sizes \cup Files \cup {R!None, FALSE},
             k \in LengthOps \cup {"body"} => n \in Sizes,
             k \in RenderOps => n \in Files
      PROVE  <<w, k, n>> \in CallSet
  <2>1. PICK c : c = <<w, k, n>>
    BY Zenon
  <2>2. c[1] = w /\ c[2] = k /\ c[3] = n
    BY <2>1
  <2>3. c \in {"named", "copy"} \X Ops \X (Sizes \cup Files \cup {R!None, FALSE})
    BY <2>1
  <2>4. IsCall(c)
    BY <1>1, <2>2, Zenon DEF IsCall
  <2> QED
    BY <2>1, <2>3, <2>4, Zenon DEF CallSet
<1>2. ASSUME NEW c \in R!NewCalls, NEW w \in {"named", "copy"}
      PROVE  <<w, c[1], c[2]>> \in CallSet /\ c[1] # "close_fd"
  <2>1. \/ c[1] = "set_body" /\ c[2] \in Sizes
        \/ c[1] = "set_content_type" /\ c[2] = R!None
        \/ c[1] \in {"render_text_file", "render_html_file"} /\ c[2] \in Files
    BY DEF R!NewCalls
  <2>2. /\ c[1] \in Ops /\ c[2] \in Sizes \cup Files \cup {R!None, FALSE}
        /\ c[1] \in LengthOps \cup {"body"} => c[2] \in Sizes
        /\ c[1] \in RenderOps => c[2] \in Files
        /\ c[1] # "close_fd"
    BY <2>1 DEF Ops, LengthOps, RenderOps, BodyOps, TypeOps
  <2> QED
    BY <1>1, <2>2, Zenon
<1>3. ASSUME NEW c \in R!LegacyCalls
      PROVE  <<"named", c[1], c[2]>> \in CallSet
  <2>1. c[1] \in {"body", "Content-Length"} /\ c[2] \in Sizes
    BY DEF R!LegacyCalls
  <2>2. /\ c[1] \in Ops /\ c[2] \in Sizes \cup Files \cup {R!None, FALSE}
        /\ c[1] \in LengthOps \cup {"body"} => c[2] \in Sizes
        /\ c[1] \in RenderOps => c[2] \in Files
        /\ "named" \in {"named", "copy"}
    BY <2>1 DEF Ops, LengthOps, RenderOps, BodyOps, TypeOps
  <2> QED
    BY <1>1, <2>2, Zenon
<1>4. <<"named", "close_fd", FALSE>> \in CallSet
  <2>1. /\ "close_fd" \in Ops /\ FALSE \in Sizes \cup Files \cup {R!None, FALSE}
        /\ "close_fd" \notin LengthOps \cup {"body"} /\ "close_fd" \notin RenderOps
        /\ "named" \in {"named", "copy"}
    BY DEF Ops, LengthOps, RenderOps, BodyOps, TypeOps
  <2> QED
    BY <1>1, <2>1, Zenon
<1> QED
  BY <1>2, <1>3, <1>4, Zenon

LEMMA CallNamedKeeps ==
  ASSUME ResponseInv, NEW c \in R!NewCalls, R!CallNamed(c[1], c[2])
  PROVE  ResponseInv'
<1>1. PICK k : k = <<"named", c[1], c[2]>>
  BY Zenon
<1>2. k \in CallSet /\ k[1] = "named" /\ k[2] = c[1] /\ k[3] = c[2]
  <2>1. k[1] = "named" /\ k[2] = c[1] /\ k[3] = c[2]
    BY <1>1
  <2> QED
    BY <1>1, <2>1, CallsKnown, Zenon
<1>3. /\ response_at = "handler" /\ response_at' = response_at
      /\ handler_calls' = Append(handler_calls, k)
      /\ named' = R!Apply(named, k[2], k[3]) /\ copy' = named'
  BY <1>1, <1>2, Zenon DEF R!CallNamed
<1>4. CallsInv /\ Shows(handler_calls, NamedIn(handler_calls), named)
  BY <1>3, Zenon DEF ResponseInv, ShownInv, Working
<1>5. /\ handler_calls' \in Seq(CallSet)
      /\ \E m : Latest(NamedIn(handler_calls'), m)
      /\ Shows(handler_calls', NamedIn(handler_calls'), R!Apply(named, k[2], k[3]))
      /\ ChainIn(handler_calls') = NamedIn(handler_calls')
  BY <1>2, <1>3, <1>4, NamedShows
<1>6. CallsInv'
  BY <1>5, Zenon DEF CallsInv, NamedIn
<1>7. ShownInv'
  BY <1>3, <1>5, Zenon DEF ShownInv, NamedIn, ChainIn, Shows
<1>8. WireInv'
  <2>1. response_at' # "sent"
    BY <1>3
  <2> QED
    BY <2>1, Zenon DEF WireInv
<1> QED
  BY <1>6, <1>7, <1>8, Zenon DEF ResponseInv

LEMMA CallCopyKeeps ==
  ASSUME ResponseInv, NEW c \in R!NewCalls, R!CallCopy(c[1], c[2])
  PROVE  ResponseInv'
<1>1. PICK k : k = <<"copy", c[1], c[2]>>
  BY Zenon
<1>2. k \in CallSet /\ k[1] = "copy" /\ k[2] = c[1] /\ k[3] = c[2]
  <2>1. k[1] = "copy" /\ k[2] = c[1] /\ k[3] = c[2]
    BY <1>1
  <2> QED
    BY <1>1, <2>1, CallsKnown, Zenon
<1>3. /\ response_at = "handler" /\ response_at' = response_at
      /\ handler_calls' = Append(handler_calls, k)
      /\ copy' = R!Apply(copy, k[2], k[3]) /\ named' = named
      /\ handler_calls # <<>> /\ Chains
  BY <1>1, <1>2, Zenon DEF R!CallCopy, R!Last, Chains
<1>4. /\ CallsInv
      /\ Shows(handler_calls, NamedIn(handler_calls), named)
      /\ Shows(handler_calls, ChainIn(handler_calls), copy)
  BY <1>3, Zenon DEF ResponseInv, ShownInv, Working
<1>5. /\ handler_calls' \in Seq(CallSet)
      /\ \E m : Latest(NamedIn(handler_calls'), m)
      /\ Shows(handler_calls', NamedIn(handler_calls'), named)
      /\ Shows(handler_calls', ChainIn(handler_calls'), R!Apply(copy, k[2], k[3]))
  BY <1>2, <1>3, <1>4, CopyShows
<1>6. CallsInv'
  BY <1>5, Zenon DEF CallsInv, NamedIn
<1>7. ShownInv'
  BY <1>3, <1>5, Zenon DEF ShownInv, NamedIn, ChainIn, Shows
<1>8. WireInv'
  <2>1. response_at' # "sent"
    BY <1>3
  <2> QED
    BY <2>1, Zenon DEF WireInv
<1> QED
  BY <1>6, <1>7, <1>8, Zenon DEF ResponseInv

(* An assignment to a member: the handler that makes it has no copy to go  *)
(* on with.                                                                *)
LEMMA AssignKeeps ==
  ASSUME ResponseInv, NEW op, NEW arg, R!Assign(op, arg),
         <<"named", op, arg>> \in CallSet, op = "close_fd" \/ api # "new"
  PROVE  ResponseInv'
<1>1. PICK k : k = <<"named", op, arg>>
  BY Zenon
<1>2. k \in CallSet /\ k[1] = "named" /\ k[2] = op /\ k[3] = arg
  <2>1. k[1] = "named" /\ k[2] = op /\ k[3] = arg
    BY <1>1
  <2> QED
    BY <1>1, <2>1, Zenon
<1>3. /\ response_at = "handler" /\ response_at' = response_at
      /\ handler_calls' = Append(handler_calls, k)
      /\ named' = R!Apply(named, k[2], k[3]) /\ api' = api
  BY <1>1, <1>2, Zenon DEF R!Assign
<1>4. CallsInv /\ Shows(handler_calls, NamedIn(handler_calls), named)
  BY <1>3, Zenon DEF ResponseInv, ShownInv, Working
<1>5. /\ handler_calls' \in Seq(CallSet)
      /\ \E m : Latest(NamedIn(handler_calls'), m)
      /\ handler_calls'[Len(handler_calls')] = k
      /\ Shows(handler_calls', NamedIn(handler_calls'), R!Apply(named, k[2], k[3]))
  BY <1>2, <1>3, <1>4, NamedShows
<1>6. CallsInv'
  BY <1>5, Zenon DEF CallsInv, NamedIn
<1>7. ~Chains'
  BY <1>2, <1>3, <1>5, Zenon DEF Chains
<1>8. ShownInv'
  BY <1>3, <1>5, <1>7, Zenon DEF ShownInv, NamedIn, Shows
<1>9. WireInv'
  <2>1. response_at' # "sent"
    BY <1>3
  <2> QED
    BY <2>1, Zenon DEF WireInv
<1> QED
  BY <1>6, <1>8, <1>9, Zenon DEF ResponseInv

LEMMA SameCalls ==
  ASSUME CallsInv, ShownInv, handler_calls' = handler_calls, named' = named, copy' = copy,
         api' = api, Working' => Working
  PROVE  CallsInv' /\ ShownInv'
BY Zenon DEF CallsInv, ShownInv, Chains, NamedIn, ChainIn, Shows

LEMMA ReturnKeeps ==
  ASSUME ResponseInv, NEW which \in {"named", "copy"}, R!Return(which)
  PROVE  ResponseInv'
<1>1. /\ handler_calls' = handler_calls /\ named' = named /\ copy' = copy /\ api' = api
      /\ response_at = "handler" /\ returned' = which
      /\ wire' = R!Build(R!Returned(which))
      /\ which = "copy" => Chains
  BY Zenon DEF R!Return, R!Last, Chains
<1>2. CallsInv' /\ ShownInv'
  <2>1. CallsInv /\ ShownInv /\ Working
    BY <1>1, Zenon DEF ResponseInv, Working
  <2> QED
    BY <1>1, <2>1, SameCalls, Zenon
<1>3. which = "named" => wire' = R!Build(named)
  BY <1>1, Zenon DEF R!Returned
<1>4. which = "copy" => wire' = R!Build(copy)
  <2>1. "copy" # "named"
    OBVIOUS
  <2> QED
    BY <1>1, <2>1, Zenon DEF R!Returned
<1>5. /\ which = "named" => R!Build(named)' = R!Build(named)
      /\ which = "copy" => R!Build(copy)' = R!Build(copy) /\ Chains'
  BY <1>1, Zenon DEF R!Build, Chains
<1>6. WireInv'
  BY <1>1, <1>3, <1>4, <1>5, Zenon DEF WireInv
<1> QED
  BY <1>2, <1>6, Zenon DEF ResponseInv

LEMMA NoRouteKeeps ==
  ASSUME ResponseInv, NEW n \in Sizes \ {0}, R!NoRoute(n), api \in {"new", "legacy"}
  PROVE  ResponseInv'
<1>1. /\ handler_calls' = handler_calls /\ named' = named /\ copy' = copy /\ api' = api
      /\ response_at = "handler" /\ returned' = "no_route"
      /\ wire' = IF api = "new"
                   THEN [length |-> R!None, ended |-> TRUE, body |-> 0, closed |-> TRUE]
                   ELSE [length |-> n, ended |-> TRUE, body |-> n + 2, closed |-> TRUE]
  BY Zenon DEF R!NoRoute
<1>2. CallsInv' /\ ShownInv'
  <2>1. CallsInv /\ ShownInv /\ Working
    BY <1>1, Zenon DEF ResponseInv, Working
  <2> QED
    BY <1>1, <2>1, SameCalls, Zenon
<1>3. api # "new" => api = "legacy"
  OBVIOUS
<1>4. WireInv'
  BY <1>1, <1>3, Zenon DEF WireInv
<1> QED
  BY <1>2, <1>4, Zenon DEF ResponseInv

LEMMA ResponseUnchanged == ResponseInv /\ UNCHANGED responding => ResponseInv'
<1> SUFFICES ASSUME ResponseInv, UNCHANGED responding PROVE ResponseInv'
  OBVIOUS
<1>1. /\ handler_calls' = handler_calls /\ named' = named /\ copy' = copy /\ api' = api
      /\ response_at' = response_at /\ returned' = returned /\ wire' = wire
  BY DEF responding
<1>2. CallsInv' /\ ShownInv'
  <2>1. CallsInv /\ ShownInv /\ (Working' => Working)
    BY <1>1, Zenon DEF ResponseInv, Working
  <2> QED
    BY <1>1, <2>1, SameCalls, Zenon
<1>3. WireInv'
  <2>1. WireInv
    BY Zenon DEF ResponseInv
  <2> QED
    BY <1>1, <2>1, Zenon DEF WireInv, R!Build, Chains
<1> QED
  BY <1>2, <1>3, Zenon DEF ResponseInv

(* A response is of one of the interfaces. *)
ApiInv == Working => api \in {"new", "legacy"}

LEMMA ResponseKeeps ==
  ResponseInv /\ ApiInv /\ (R!Next \/ UNCHANGED responding) => ResponseInv' /\ ApiInv'
<1> SUFFICES ASSUME ResponseInv, ApiInv, R!Next \/ UNCHANGED responding
             PROVE  ResponseInv' /\ ApiInv'
  OBVIOUS
<1>1. ASSUME NEW c \in R!NewCalls, R!CallNamed(c[1], c[2]) \/ R!CallCopy(c[1], c[2])
      PROVE  ResponseInv' /\ api' = api /\ Working
  <2>1. ResponseInv'
    BY <1>1, CallNamedKeeps, CallCopyKeeps, Zenon
  <2> QED
    BY <1>1, <2>1, Zenon DEF R!CallNamed, R!CallCopy, Working
<1>2. ASSUME api = "new", R!Assign("close_fd", FALSE)
      PROVE  ResponseInv' /\ api' = api /\ Working
  <2>1. ResponseInv'
    BY <1>2, CallsKnown, AssignKeeps, Zenon
  <2> QED
    BY <1>2, <2>1, Zenon DEF R!Assign, Working
<1>3. ASSUME NEW c \in R!LegacyCalls, api = "legacy", R!Assign(c[1], c[2])
      PROVE  ResponseInv' /\ api' = api /\ Working
  <2>1. api # "new"
    BY <1>3
  <2>2. ResponseInv'
    BY <1>3, <2>1, CallsKnown, AssignKeeps, Zenon
  <2> QED
    BY <1>3, <2>2, Zenon DEF R!Assign, Working
<1>4. ASSUME NEW which \in {"named", "copy"}, R!Return(which)
      PROVE  ResponseInv' /\ api' = api /\ Working
  <2>1. ResponseInv'
    BY <1>4, ReturnKeeps, Zenon
  <2> QED
    BY <1>4, <2>1, Zenon DEF R!Return, Working
<1>5. ASSUME NEW n \in Sizes \ {0}, R!NoRoute(n)
      PROVE  ResponseInv' /\ api' = api /\ Working
  <2>1. Working
    BY <1>5, Zenon DEF R!NoRoute, Working
  <2>2. ResponseInv'
    BY <1>5, <2>1, NoRouteKeeps, Zenon DEF ApiInv
  <2> QED
    BY <1>5, <2>1, <2>2, Zenon DEF R!NoRoute
<1>6. CASE R!Next
  <2>1. ResponseInv' /\ api' = api /\ Working
    BY <1>1, <1>2, <1>3, <1>4, <1>5, <1>6, Zenon DEF R!Next
  <2> QED
    BY <2>1, Zenon DEF ApiInv
<1>7. CASE UNCHANGED responding
  <2>1. api' = api /\ response_at' = response_at
    BY <1>7 DEF responding
  <2> QED
    BY <1>7, <2>1, ResponseUnchanged, Zenon DEF ApiInv, Working
<1> QED
  BY <1>6, <1>7, Zenon

LEMMA ResponseInitially == R!Init \/ NoResponse => ResponseInv /\ ApiInv
<1> SUFFICES ASSUME R!Init \/ NoResponse PROVE ResponseInv /\ ApiInv
  OBVIOUS
<1>1. handler_calls = <<>> /\ response_at # "sent"
  BY DEF R!Init, NoResponse
<1>2. CallsInv
  BY <1>1, EmptySeq, Zenon DEF CallsInv
<1>3. CASE R!Init
  <2>1. named = R!Fresh /\ api \in {"new", "legacy"}
    BY <1>3, Zenon DEF R!Init
  <2>2. NamedIn(<<>>) = {}
    BY DEF NamedIn
  <2>3. \A ops : Those(<<>>, {}, ops) = {}
    BY Zenon DEF Those
  <2>4. /\ R!Fresh \in Responses /\ R!Fresh.length = R!None /\ R!Fresh.body = 0
        /\ R!Fresh.type = FALSE /\ R!Fresh.close_fd = TRUE
    BY DEF R!Fresh, Responses
  <2>5. Shows(<<>>, {}, R!Fresh)
    BY <2>3, <2>4 DEF Shows, LengthShown, BodyShown, TypeShown, CloseShown
  <2>6. ShownInv
    BY <1>1, <2>1, <2>2, <2>5, Zenon DEF ShownInv, Chains
  <2> QED
    BY <1>1, <1>2, <2>1, <2>6, Zenon DEF ResponseInv, WireInv, ApiInv
<1>4. CASE NoResponse
  <2>1. ~Working
    BY <1>4 DEF NoResponse, Working
  <2> QED
    BY <1>1, <1>2, <2>1, Zenon DEF ResponseInv, WireInv, ShownInv, ApiInv
<1> QED
  BY <1>3, <1>4, Zenon

-----------------------------------------------------------------------------
(* What was answered, in the terms of Response. *)

LEMMA MaxIs ==
  ASSUME NEW S \in SUBSET Int, NEW i, Latest(S, i)
  PROVE  R!Max(S) = i
<1>1. i \in S /\ i \in Int /\ \A j \in S : j \in Int /\ i >= j
  BY DEF Latest
<1>2. ASSUME NEW x \in S, \A j \in S : x >= j
      PROVE  x = i
  <2>1. x >= i /\ i >= x /\ x \in Int
    BY <1>1, <1>2, Zenon
  <2> QED
    BY <1>1, <2>1
<1>3. R!Max(S) = CHOOSE x \in S : \A j \in S : x >= j
  BY Zenon DEF R!Max
<1> QED
  BY <1>1, <1>2, <1>3, Zenon

LEMMA EffectiveIs ==
  ASSUME CallsInv
  PROVE  /\ returned = "named" => R!Effective = NamedIn(handler_calls)
         /\ returned # "named" /\ handler_calls # <<>> => R!Effective = ChainIn(handler_calls)
<1>1. R!Named = NamedIn(handler_calls)
  BY Zenon DEF R!Named, NamedIn
<1>2. returned = "named" => R!Effective = NamedIn(handler_calls)
  BY <1>1, Zenon DEF R!Effective
<1>3. ASSUME returned # "named", handler_calls # <<>>
      PROVE  R!Effective = ChainIn(handler_calls)
  <2>1. handler_calls \in Seq(CallSet)
    BY Zenon DEF CallsInv
  <2>2. DOMAIN handler_calls = 1 .. Len(handler_calls) /\ Len(handler_calls) \in Nat
    BY <2>1, LenProperties, Zenon
  <2>3. NamedIn(handler_calls) \in SUBSET Int
    BY <2>2 DEF NamedIn
  <2>4. PICK m : Latest(NamedIn(handler_calls), m)
    BY <1>3, Zenon DEF CallsInv
  <2>5. R!Max(NamedIn(handler_calls)) = m
    BY <2>3, <2>4, MaxIs
  <2>6. m \in NamedIn(handler_calls) /\ \A j \in NamedIn(handler_calls) : j <= m
    BY <2>4, Zenon DEF Latest
  <2>7. \A i \in DOMAIN handler_calls :
          i > m <=> \A j \in NamedIn(handler_calls) : j < i
    BY <2>2, <2>3, <2>6
  <2>8. R!Effective = {i \in DOMAIN handler_calls : i \in NamedIn(handler_calls) \/ i > m}
    BY <1>1, <1>3, <2>5, Zenon DEF R!Effective
  <2>9. \A i : i \in R!Effective <=> i \in ChainIn(handler_calls)
    BY <2>7, <2>8, Zenon DEF ChainIn
  <2> QED
    BY <2>9, Zenon
<1> QED
  BY <1>2, <1>3, Zenon

(* What was returned shows the effective calls, and was written. *)
LEMMA SentShows ==
  ASSUME ResponseInv, response_at = "sent", returned # "no_route"
  PROVE  /\ handler_calls \in Seq(CallSet)
         /\ R!Effective \in SUBSET (1 .. Len(handler_calls))
         /\ Shows(handler_calls, R!Effective, R!Returned(returned))
         /\ wire = R!Build(R!Returned(returned))
         /\ returned \in {"named", "copy"}
         /\ returned = "copy" => handler_calls # <<>>
<1>1. CallsInv /\ Working
  BY Zenon DEF ResponseInv, Working
<1>2. handler_calls \in Seq(CallSet)
  BY <1>1, Zenon DEF CallsInv
<1>3. \/ returned = "named" /\ wire = R!Build(named)
      \/ returned = "copy" /\ Chains /\ wire = R!Build(copy)
  BY Zenon DEF ResponseInv, WireInv
<1>4. /\ Shows(handler_calls, NamedIn(handler_calls), named)
      /\ Chains => Shows(handler_calls, ChainIn(handler_calls), copy)
  BY <1>1, Zenon DEF ResponseInv, ShownInv
<1>5. /\ NamedIn(handler_calls) \in SUBSET (1 .. Len(handler_calls))
      /\ ChainIn(handler_calls) \in SUBSET (1 .. Len(handler_calls))
  BY <1>2, Indices, Zenon
<1>6. CASE returned = "named" /\ wire = R!Build(named)
  <2>1. R!Effective = NamedIn(handler_calls)
    BY <1>1, <1>6, EffectiveIs, Zenon
  <2>2. R!Returned(returned) = named
    BY <1>6, Zenon DEF R!Returned
  <2>3. returned # "copy"
    BY <1>6
  <2> QED
    BY <1>2, <1>4, <1>5, <1>6, <2>1, <2>2, <2>3, Zenon
<1>7. CASE returned = "copy" /\ Chains /\ wire = R!Build(copy)
  <2>1. returned # "named" /\ handler_calls # <<>>
    BY <1>7 DEF Chains
  <2>2. R!Effective = ChainIn(handler_calls)
    BY <1>1, <2>1, EffectiveIs, Zenon
  <2>3. R!Returned(returned) = copy
    BY <2>1, Zenon DEF R!Returned
  <2> QED
    BY <1>2, <1>4, <1>5, <1>7, <2>1, <2>2, <2>3, Zenon
<1> QED
  BY <1>3, <1>6, <1>7, Zenon

LEMMA BodyOpsAre == BodyOps = {"set_body", "body", "render_text_file", "render_html_file"}
  BY DEF BodyOps, RenderOps

LEMMA ThoseAre ==
  /\ R!Lengths = Those(handler_calls, R!Effective, LengthOps)
  /\ R!Bodies = Those(handler_calls, R!Effective, BodyOps)
<1>1. R!Lengths = Those(handler_calls, R!Effective, LengthOps)
  BY Zenon DEF R!Lengths, Those, LengthOps
<1>2. R!Bodies = Those(handler_calls, R!Effective, BodyOps)
  BY BodyOpsAre, Zenon DEF R!Bodies, Those
<1> QED
  BY <1>1, <1>2, Zenon

LEMMA SizesAre ==
  \A i : /\ R!SizeAt(i) = SizeOf(handler_calls[i])
         /\ R!IsRender(i) <=> handler_calls[i][2] \in RenderOps
<1> TAKE i
<1>1. R!IsRender(i) <=> handler_calls[i][2] \in RenderOps
  BY Zenon DEF R!IsRender, RenderOps
<1> QED
  BY <1>1, Zenon DEF R!SizeAt, SizeOf

(* The object returned, by the last calls that set its length and its body. *)
LEMMA ReturnedIs ==
  ASSUME ResponseInv, response_at = "sent", returned # "no_route",
         NEW o, o = R!Returned(returned)
  PROVE  /\ o \in Responses /\ wire = R!Build(o)
         /\ R!Lengths = {} => o.length = R!None
         /\ R!Lengths # {} => /\ o.length = handler_calls[R!Max(R!Lengths)][3]
                              /\ o.length \in Sizes
         /\ R!Bodies = {} => o.body = 0
         /\ R!Bodies # {} => /\ o.body = R!SizeAt(R!Max(R!Bodies))
                             /\ R!IsRender(R!Max(R!Bodies)) => o.body > 0
         /\ o.type <=> Those(handler_calls, R!Effective, TypeOps) # {}
         /\ ~o.close_fd <=> \E i \in R!Effective : handler_calls[i][2] = "close_fd"
<1> DEFINE cs == handler_calls
           E == R!Effective
<1>1. /\ cs \in Seq(CallSet) /\ E \in SUBSET (1 .. Len(cs))
      /\ Shows(cs, E, o) /\ wire = R!Build(o)
  BY SentShows, Zenon
<1>2. Len(cs) \in Nat /\ \A i \in 1 .. Len(cs) : cs[i] \in CallSet
  <2>1. Len(cs) \in Nat /\ DOMAIN cs = 1 .. Len(cs)
    BY <1>1, LenProperties, Zenon
  <2> QED
    BY <1>1, <2>1, ElementOfSeq, Zenon
<1>3. \A ops : Those(cs, E, ops) \in SUBSET Int
  <2>1. \A i \in 1 .. Len(cs) : i \in Int
    BY <1>2
  <2> QED
    BY <1>1, <2>1, Zenon DEF Those
<1>4. \A ops, i : i \in Those(cs, E, ops) => i \in 1 .. Len(cs) /\ cs[i][2] \in ops
  BY <1>1, Zenon DEF Those
<1>5. R!Lengths = Those(cs, E, LengthOps) /\ R!Bodies = Those(cs, E, BodyOps)
  BY ThoseAre, Zenon
<1>6. \/ R!Lengths = {} /\ o.length = R!None
      \/ /\ R!Lengths # {} /\ o.length = cs[R!Max(R!Lengths)][3]
         /\ o.length \in Sizes
  <2>1. CASE Those(cs, E, LengthOps) = {} /\ o.length = R!None
    BY <1>5, <2>1, Zenon
  <2>2. ASSUME NEW i, Latest(Those(cs, E, LengthOps), i), o.length = cs[i][3]
        PROVE  R!Lengths # {} /\ o.length = cs[R!Max(R!Lengths)][3] /\ o.length \in Sizes
    <3>1. R!Max(Those(cs, E, LengthOps)) = i
      BY <1>3, <2>2, MaxIs
    <3>2. i \in Those(cs, E, LengthOps)
      BY <2>2, Zenon DEF Latest
    <3>3. cs[i] \in CallSet /\ cs[i][2] \in LengthOps
      BY <1>2, <1>4, <3>2, Zenon
    <3>4. cs[i][3] \in Sizes
      BY <3>3, CallSizes, Zenon
    <3>5. Those(cs, E, LengthOps) # {}
      BY <3>2
    <3>6. R!Lengths # {} /\ R!Max(R!Lengths) = i
      BY <1>5, <3>1, <3>5
    <3> QED
      BY <2>2, <3>4, <3>6
  <2>3. LengthShown(cs, E, o)
    BY <1>1, Zenon DEF Shows
  <2> QED
    BY <2>1, <2>2, <2>3, Zenon DEF LengthShown
<1>7. \/ R!Bodies = {} /\ o.body = 0
      \/ /\ R!Bodies # {} /\ o.body = R!SizeAt(R!Max(R!Bodies))
         /\ R!IsRender(R!Max(R!Bodies)) => o.body > 0
  <2>1. CASE Those(cs, E, BodyOps) = {} /\ o.body = 0
    BY <1>5, <2>1, Zenon
  <2>2. ASSUME NEW i, Latest(Those(cs, E, BodyOps), i), o.body = SizeOf(cs[i])
        PROVE  /\ R!Bodies # {} /\ o.body = R!SizeAt(R!Max(R!Bodies))
               /\ R!IsRender(R!Max(R!Bodies)) => o.body > 0
    <3>1. R!Max(Those(cs, E, BodyOps)) = i
      BY <1>3, <2>2, MaxIs
    <3>2. i \in Those(cs, E, BodyOps)
      BY <2>2, Zenon DEF Latest
    <3>3. cs[i] \in CallSet
      BY <1>2, <1>4, <3>2, Zenon
    <3>4. cs[i][2] \in RenderOps => SizeOf(cs[i]) > 0
      BY <3>3, CallSizes, Zenon
    <3>5. Those(cs, E, BodyOps) # {}
      BY <3>2
    <3>6. R!Bodies # {} /\ R!Max(R!Bodies) = i
      BY <1>5, <3>1, <3>5
    <3>7. o.body = R!SizeAt(i) /\ (R!IsRender(i) => o.body > 0)
      BY <2>2, <3>4, SizesAre
    <3> QED
      BY <3>6, <3>7
  <2>3. BodyShown(cs, E, o)
    BY <1>1, Zenon DEF Shows
  <2> QED
    BY <2>1, <2>2, <2>3, Zenon DEF BodyShown
<1>8. ~o.close_fd <=> \E i \in E : cs[i][2] = "close_fd"
  <2>1. ~o.close_fd <=> Those(cs, E, {"close_fd"}) # {}
    BY <1>1, Zenon DEF Shows, CloseShown
  <2>2. Those(cs, E, {"close_fd"}) # {} <=> \E i \in E : cs[i][2] = "close_fd"
    BY DEF Those
  <2> QED
    BY <2>1, <2>2, Zenon
<1>9. o \in Responses /\ (o.type <=> Those(cs, E, TypeOps) # {})
  BY <1>1, Zenon DEF Shows, TypeShown
<1> QED
  BY <1>1, <1>6, <1>7, <1>8, <1>9, Zenon

-----------------------------------------------------------------------------
(* Where the client of an object that was written takes its answer to end. *)
LEMMA OutcomeIs ==
  ASSUME NEW o \in Responses, wire = R!Build(o)
  PROVE  /\ R!Outcome = "whole" <=>
              o.body > 0 /\ (o.length = R!None \/ o.length = o.body)
         /\ R!Outcome = "waiting" <=>
              ~o.close_fd /\ (o.body = 0 \/ o.length > o.body)
<1>1. /\ o.body \in Nat /\ o.close_fd \in BOOLEAN
      /\ o.length \in Nat \/ o.length = R!None
      /\ R!None = -1
  BY ResponseAssumption DEF Responses, R!None
<1>2. PICK b, n, m : b = o.body /\ n = o.length /\ m = IF n = -1 /\ b > 0 THEN b ELSE n
  BY Zenon
<1>3. /\ wire.length = m /\ wire.body = b
      /\ wire.ended <=> b > 0
      /\ wire.closed <=> o.close_fd
  BY <1>1, <1>2 DEF R!Build
<1>4. R!Outcome =
        IF ~wire.ended THEN R!Missing
        ELSE IF wire.length = R!None THEN IF wire.closed THEN "whole" ELSE "waiting"
        ELSE CASE wire.length = wire.body -> "whole"
               [] wire.length < wire.body -> "cut"
               [] OTHER                   -> R!Missing
  BY Zenon DEF R!Outcome
<1>5. PICK missing : missing = R!Missing
  BY Zenon
<1>6. missing # "whole" /\ (missing = "waiting" <=> ~o.close_fd)
  BY <1>1, <1>3, <1>5 DEF R!Missing
<1>7. b \in Nat /\ (n \in Nat \/ n = -1)
  BY <1>1, <1>2
<1>8. CASE b = 0
  <2>1. ~wire.ended /\ ~(b > 0)
    BY <1>3, <1>8
  <2>2. R!Outcome = missing
    BY <1>4, <1>5, <2>1, Zenon
  <2> QED
    BY <1>2, <1>6, <1>8, <2>1, <2>2, Zenon
<1>9. CASE b > 0
  <2>1. /\ m \in Nat /\ b \in Nat
        /\ m = b <=> n = -1 \/ n = b
        /\ m > b <=> n > b
    BY <1>2, <1>7, <1>9
  <2>2. wire.ended /\ wire.length # R!None /\ wire.length = m /\ wire.body = b
    BY <1>1, <1>3, <1>9, <2>1
  <2>3. R!Outcome = CASE wire.length = wire.body -> "whole"
                      [] wire.length < wire.body -> "cut"
                      [] OTHER                   -> R!Missing
    BY <1>4, <2>2, Zenon
  <2>4. R!Outcome = CASE m = b -> "whole" [] m < b -> "cut" [] OTHER -> R!Missing
    BY <2>2, <2>3, Zenon
  <2>5. /\ m = b => R!Outcome = "whole"
        /\ m < b => R!Outcome = "cut"
        /\ m > b => R!Outcome = missing
    BY <1>5, <2>1, <2>4
  <2>6. m = b \/ m < b \/ m > b
    BY <2>1
  <2>7. /\ m = b => ~(m > b) /\ ~(m < b)
        /\ m > b => ~(m = b)
        /\ m < b => ~(m > b) /\ ~(m = b)
        /\ b # 0
    BY <1>9, <2>1
  <2>8. "cut" # "whole" /\ "cut" # "waiting" /\ "whole" # "waiting"
    OBVIOUS
  <2>9. o.body > 0 /\ (o.length = -1 \/ o.length = o.body <=> m = b)
        /\ (o.length > o.body <=> m > b) /\ o.body # 0
    BY <1>2, <1>9, <2>1, <2>7, Zenon
  <2> QED
    BY <1>1, <1>6, <2>5, <2>6, <2>7, <2>8, <2>9, Zenon
<1> QED
  BY <1>7, <1>8, <1>9

(* Without a route there is no object. *)
LEMMA NoRouteOutcome ==
  ASSUME ResponseInv, response_at = "sent", returned = "no_route"
  PROVE  (R!Outcome = "whole" <=> api = "new") /\ R!Outcome # "waiting"
<1>1. \/ /\ api = "new"
         /\ wire = [length |-> R!None, ended |-> TRUE, body |-> 0, closed |-> TRUE]
      \/ /\ api = "legacy"
         /\ \E n \in Sizes \ {0} :
              wire = [length |-> n, ended |-> TRUE, body |-> n + 2, closed |-> TRUE]
  <2>1. returned # "named" /\ returned # "copy"
    OBVIOUS
  <2> QED
    BY <2>1, Zenon DEF ResponseInv, WireInv
<1>2. ASSUME api = "new",
             wire = [length |-> R!None, ended |-> TRUE, body |-> 0, closed |-> TRUE]
      PROVE  R!Outcome = "whole"
  BY <1>2 DEF R!Outcome
<1>3. ASSUME NEW n \in Sizes \ {0},
             wire = [length |-> n, ended |-> TRUE, body |-> n + 2, closed |-> TRUE]
      PROVE  R!Outcome = "cut"
  <2>1. n \in Nat /\ R!None = -1
    BY ResponseAssumption DEF R!None
  <2>2. n # R!None /\ n # n + 2 /\ n < n + 2
    BY <2>1
  <2>3. wire.ended /\ wire.length = n /\ wire.body = n + 2
    BY <1>3
  <2>4. R!Outcome = CASE wire.length = wire.body -> "whole"
                      [] wire.length < wire.body -> "cut"
                      [] OTHER                   -> R!Missing
    BY <2>2, <2>3, Zenon DEF R!Outcome
  <2>5. wire.length < wire.body /\ wire.length # wire.body
    BY <2>2, <2>3, Zenon
  <2> QED
    BY <2>4, <2>5
<1> QED
  BY <1>1, <1>2, <1>3

LEMMA WholeHolds == ResponseInv => R!WholeUnlessStale
<1> SUFFICES ASSUME ResponseInv, response_at = "sent"
             PROVE  (R!Outcome = "whole") <=>
                      IF returned = "no_route"
                        THEN api = "new"
                        ELSE /\ R!Bodies # {}
                             /\ R!SizeAt(R!Max(R!Bodies)) > 0 \/ R!IsRender(R!Max(R!Bodies))
                             /\ R!Lengths # {} =>
                                  handler_calls[R!Max(R!Lengths)][3]
                                    = R!SizeAt(R!Max(R!Bodies))
  BY Zenon DEF R!WholeUnlessStale
<1>1. CASE returned = "no_route"
  BY <1>1, NoRouteOutcome
<1>2. CASE returned # "no_route"
  <2>1. PICK o, size, asked : /\ o = R!Returned(returned)
                              /\ size = R!SizeAt(R!Max(R!Bodies))
                              /\ asked = handler_calls[R!Max(R!Lengths)][3]
    BY Zenon
  <2>2. /\ o \in Responses /\ wire = R!Build(o)
        /\ R!Lengths = {} => o.length = R!None
        /\ R!Lengths # {} => o.length = asked /\ o.length \in Sizes
        /\ R!Bodies = {} => o.body = 0
        /\ R!Bodies # {} => /\ o.body = size
                            /\ R!IsRender(R!Max(R!Bodies)) => o.body > 0
    BY <1>2, <2>1, ReturnedIs
  <2>3. R!Outcome = "whole" <=> o.body > 0 /\ (o.length = R!None \/ o.length = o.body)
    BY <2>2, OutcomeIs, Zenon
  <2>4. /\ o.body \in Nat /\ ~(0 > 0)
        /\ o.length \in Sizes => o.length # R!None
    BY <2>2, ResponseAssumption DEF Responses, R!None
  <2>5. R!Outcome = "whole" <=>
          /\ R!Bodies # {}
          /\ size > 0 \/ R!IsRender(R!Max(R!Bodies))
          /\ R!Lengths # {} => asked = size
    BY <2>2, <2>3, <2>4
  <2> QED
    BY <1>2, <2>1, <2>5, Zenon
<1> QED
  BY <1>1, <1>2, Zenon

LEMMA WaitsHolds == ResponseInv => R!WaitsOnlyWhenKept
<1> SUFFICES ASSUME ResponseInv, response_at = "sent"
             PROVE  (R!Outcome = "waiting") <=>
                      /\ returned # "no_route"
                      /\ \E i \in R!Effective : handler_calls[i][2] = "close_fd"
                      /\ \/ R!Bodies = {} \/ R!SizeAt(R!Max(R!Bodies)) = 0
                         \/ /\ R!Lengths # {}
                            /\ handler_calls[R!Max(R!Lengths)][3] > R!SizeAt(R!Max(R!Bodies))
  BY Zenon DEF R!WaitsOnlyWhenKept
<1>1. CASE returned = "no_route"
  BY <1>1, NoRouteOutcome, Zenon
<1>2. CASE returned # "no_route"
  <2>1. PICK o, size, asked : /\ o = R!Returned(returned)
                              /\ size = R!SizeAt(R!Max(R!Bodies))
                              /\ asked = handler_calls[R!Max(R!Lengths)][3]
    BY Zenon
  <2>2. /\ o \in Responses /\ wire = R!Build(o)
        /\ R!Lengths = {} => o.length = R!None
        /\ R!Lengths # {} => o.length = asked
        /\ R!Bodies = {} => o.body = 0
        /\ R!Bodies # {} => o.body = size
        /\ ~o.close_fd <=> \E i \in R!Effective : handler_calls[i][2] = "close_fd"
    BY <1>2, <2>1, ReturnedIs
  <2>3. R!Outcome = "waiting" <=> ~o.close_fd /\ (o.body = 0 \/ o.length > o.body)
    BY <2>2, OutcomeIs, Zenon
  <2>4. o.body \in Nat /\ ~(R!None > o.body)
    BY <2>2 DEF Responses, R!None
  <2>5. o.body = 0 \/ o.length > o.body <=>
          \/ R!Bodies = {} \/ size = 0
          \/ R!Lengths # {} /\ asked > size
    BY <2>2, <2>4, Zenon
  <2> QED
    BY <1>2, <2>1, <2>2, <2>3, <2>5, Zenon
<1> QED
  BY <1>1, <1>2, Zenon

LEMMA NothingLostHolds == ResponseInv => R!NothingLostWithoutFork
<1> DEFINE cs == handler_calls
           chained == {i \in DOMAIN cs : cs[i][1] = "copy"}
           asked == {i \in DOMAIN cs :
                       cs[i][2] \in {"set_body", "body", "render_text_file", "render_html_file"}}
<1>1. SUFFICES
        ASSUME ResponseInv, response_at = "sent", returned # "no_route",
               \/ returned = "named" /\ chained = {}
               \/ returned = "copy" /\ \A i \in chained : \A j \in i .. Len(cs) : cs[j][1] = "copy"
        PROVE  /\ asked # {} => wire.body = R!SizeAt(R!Max(asked))
               /\ R!Returned(returned).type <=>
                    \E i \in DOMAIN cs : cs[i][2] \in {"set_content_type", "render_html_file"}
  BY Zenon DEF R!NothingLostWithoutFork
<1>2. CallsInv /\ cs \in Seq(CallSet) /\ (returned = "copy" => cs # <<>>)
  <2>1. CallsInv
    BY <1>1, Zenon DEF ResponseInv
  <2>2. cs \in Seq(CallSet) /\ (returned = "copy" => cs # <<>>)
    BY <1>1, SentShows, Zenon
  <2> QED
    BY <2>1, <2>2, Zenon
<1>3. /\ Len(cs) \in Nat /\ DOMAIN cs = 1 .. Len(cs)
      /\ \A i \in DOMAIN cs : cs[i][1] \in {"named", "copy"}
  <2>1. Len(cs) \in Nat /\ DOMAIN cs = 1 .. Len(cs)
    BY <1>2, LenProperties, Zenon
  <2>2. \A c \in CallSet : c[1] \in {"named", "copy"}
    BY Zenon DEF CallSet, IsCall
  <2>3. \A i \in 1 .. Len(cs) : cs[i] \in CallSet
    BY <1>2, ElementOfSeq, Zenon
  <2> QED
    BY <2>1, <2>2, <2>3, Zenon
<1>4. R!Effective = DOMAIN cs
  <2>1. ASSUME returned = "named", chained = {}
        PROVE  R!Effective = DOMAIN cs
    <3>1. R!Effective = NamedIn(cs)
      BY <1>2, <2>1, EffectiveIs, Zenon
    <3>2. \A i \in DOMAIN cs : cs[i][1] = "named"
      BY <1>3, <2>1, Zenon
    <3>3. \A i : i \in NamedIn(cs) <=> i \in DOMAIN cs
      BY <3>2, Zenon DEF NamedIn
    <3> QED
      BY <3>1, <3>3, Zenon
  <2>2. ASSUME returned = "copy",
               \A i \in chained : \A j \in i .. Len(cs) : cs[j][1] = "copy"
        PROVE  R!Effective = DOMAIN cs
    <3>1. returned # "named" /\ "named" # "copy"
      BY <2>2
    <3>2. R!Effective = ChainIn(cs)
      BY <1>2, <2>2, <3>1, EffectiveIs, Zenon
    <3>3. ASSUME NEW i \in DOMAIN cs, i \notin NamedIn(cs), NEW j \in NamedIn(cs)
          PROVE  j < i
      <4>1. cs[i][1] = "copy"
        BY <1>3, <3>3, Zenon DEF NamedIn
      <4>2. \A k \in i .. Len(cs) : cs[k][1] = "copy"
        BY <2>2, <4>1, Zenon
      <4>3. j \in DOMAIN cs /\ cs[j][1] = "named"
        BY <3>3, Zenon DEF NamedIn
      <4>4. j \notin i .. Len(cs)
        BY <3>1, <4>2, <4>3, Zenon
      <4> QED
        BY <1>3, <4>3, <4>4
    <3>4. \A i : i \in ChainIn(cs) <=> i \in DOMAIN cs
      BY <3>3, Zenon DEF ChainIn
    <3> QED
      BY <3>2, <3>4, Zenon
  <2> QED
    BY <1>1, <2>1, <2>2, Zenon
<1>5. asked = R!Bodies
  BY <1>4, Zenon DEF R!Bodies
<1>6. PICK o : o = R!Returned(returned)
  BY Zenon
<1>7. /\ o \in Responses /\ wire = R!Build(o)
      /\ R!Bodies # {} => o.body = R!SizeAt(R!Max(R!Bodies))
      /\ o.type <=> Those(cs, R!Effective, TypeOps) # {}
  BY <1>1, <1>6, ReturnedIs
<1>8. wire.body = o.body
  BY <1>7 DEF R!Build
<1>9. Those(cs, R!Effective, TypeOps) # {} <=>
        \E i \in DOMAIN cs : cs[i][2] \in {"set_content_type", "render_html_file"}
  BY <1>4 DEF Those, TypeOps
<1> HIDE DEF asked
<1>10. asked # {} => wire.body = R!SizeAt(R!Max(asked))
  BY <1>5, <1>7, <1>8
<1> QED
  BY <1>6, <1>7, <1>9, <1>10, Zenon

(* What becomes of a handler's response, whatever it calls and in whatever *)
(* order: the client gets the whole answer exactly if the last body is     *)
(* not empty and the last Content-Length, if any was set, is its size; it  *)
(* waits exactly where the handler kept the connection open; and nothing   *)
(* is lost unless calls were made on a copy that was not returned          *)
(* (http_handler.cpp:294-388, 435-473).                                    *)
THEOREM ResponsesArrive == MCSpec => []ResponseArrives
<1>1. MCInit => ResponseInv /\ ApiInv
  BY ResponseInitially, Zenon DEF MCInit
<1>2. ResponseInv /\ ApiInv /\ [MCNext]_MCvars => (ResponseInv /\ ApiInv)'
  <2> SUFFICES ASSUME ResponseInv, ApiInv, [MCNext]_MCvars
               PROVE  ResponseInv' /\ ApiInv'
    OBVIOUS
  <2>1. ASSUME MCNext
        PROVE  R!Next \/ UNCHANGED responding
    BY <2>1, Zenon DEF MCNext, Route, ParseHeaders, ParseUrl, ReadLine, Respond
  <2>2. ASSUME UNCHANGED MCvars
        PROVE  UNCHANGED responding
    BY <2>2 DEF MCvars
  <2> QED
    BY <2>1, <2>2, ResponseKeeps, Zenon
<1>3. ResponseInv => ResponseArrives
  BY WholeHolds, WaitsHolds, NothingLostHolds, Zenon DEF ResponseArrives
<1> QED
  BY <1>1, <1>2, <1>3, PTL DEF MCSpec

-----------------------------------------------------------------------------
(* What is read of a request line *)

LEMMA FindIs == \A s, c : Len(s) \in Nat => FirstAt(s, c, L!Find(s, c))
<1> TAKE s, c
<1>1. L!Find(s, c) = Least({i \in 1 .. Len(s) : s[i] = c})
  BY Zenon DEF L!Find, L!SelectInSeq, L!Min, Least
<1> QED
  BY <1>1, FirstAtIs, Zenon

LEMMA VersionIs ==
  ASSUME NEW s, Len(s) \in Nat
  PROVE  \/ /\ L!VersionAt(s) = 0
            /\ \A i \in 1 .. Len(s) - 1 : ~(s[i] = "SP" /\ s[i + 1] = L!Version)
         \/ /\ L!VersionAt(s) \in 1 .. Len(s) - 1
            /\ s[L!VersionAt(s)] = "SP" /\ s[L!VersionAt(s) + 1] = L!Version
            /\ \A i \in 1 .. L!VersionAt(s) - 1 : ~(s[i] = "SP" /\ s[i + 1] = L!Version)
<1> DEFINE I == {i \in 1 .. Len(s) - 1 : s[i] = "SP" /\ s[i + 1] = L!Version}
<1>1. I \in SUBSET (1 .. Len(s))
  <2>1. \A i \in 1 .. Len(s) - 1 : i \in 1 .. Len(s)
    OBVIOUS
  <2> QED
    BY <2>1, Zenon
<1>2. L!VersionAt(s) = IF I = {} THEN 0 ELSE CHOOSE i \in I : \A j \in I : i <= j
  BY Zenon DEF L!VersionAt
<1>3. L!VersionAt(s) = Least(I)
  BY <1>2, Zenon DEF Least
<1>4. PICK k : k = L!VersionAt(s)
  BY Zenon
<1>5. (I = {} /\ k = 0) \/ (k \in I /\ \A y \in I : k <= y)
  BY <1>1, <1>3, <1>4, LeastIs
<1>6. CASE I = {} /\ k = 0
  BY <1>4, <1>6, Zenon
<1>7. CASE k \in I /\ \A y \in I : k <= y
  <2>1. \A i \in 1 .. k - 1 : i \in 1 .. Len(s) - 1 /\ ~(k <= i)
    BY <1>1, <1>7
  <2> QED
    BY <1>4, <1>7, <2>1, Zenon
<1> QED
  BY <1>5, <1>6, <1>7, Zenon

(* What has arrived in one recv, and what of it is taken for a string. *)
Arrived(n, e) ==
  /\ n \in 1 .. Len(sent) /\ e \in 1 .. n
  /\ data \in Seq(L!Chars) /\ Len(data) = n
  /\ \A i \in 1 .. n : data[i] = sent[i]
  /\ str_request \in Seq(L!Chars) /\ Len(str_request) = e
  /\ \A i \in 1 .. e : str_request[i] = sent[i] /\ sent[i] # L!NUL
  /\ e = n \/ sent[e + 1] = L!NUL

LineInv ==
  /\ line_at # "idle" => sent \in Seq(L!Chars)
  /\ line_at \in {"parse", "parsed"} => \E n, e : Arrived(n, e)
  /\ line_at = "parsed" =>
       read = [str_verb        |-> L!ExtractHttpVerb(str_request),
               request_verb_id |-> L!ParseRequestVerb(str_request),
               path            |-> L!ExtractUrlWithQueryParams(str_request),
               url             |-> L!ExtractUrl(str_request)]

LEMMA ReceiveKeeps ==
  ASSUME LineInv, NEW n \in 1 .. Len(sent), L!Receive(n)
  PROVE  LineInv'
<1>1. /\ line_at = "recv" /\ sent' = sent /\ data' = SubSeq(sent, 1, n)
      /\ line_at' = IF L!Find(data', L!NUL) = 1 THEN "nothing"
                    ELSE IF L!Find(data', L!NUL) = 0 /\ n = Buffer THEN "undefined"
                    ELSE "parse"
      /\ str_request' = IF L!Find(data', L!NUL) = 0 THEN data'
                        ELSE SubSeq(data', 1, L!Find(data', L!NUL) - 1)
  BY Zenon DEF L!Receive
<1>2. sent \in Seq(L!Chars)
  <2>1. line_at # "idle"
    BY <1>1
  <2> QED
    BY <2>1, Zenon DEF LineInv
<1>3. n \in 0 .. Len(sent) /\ n \in 1 .. n /\ n \in Nat
  BY <1>2
<1>4. data' \in Seq(L!Chars) /\ Len(data') = n /\ \A i \in 1 .. n : data'[i] = sent[i]
  <2>1. data' = SubSeq(sent, 1, n)
    BY <1>1, Zenon
  <2>2. PICK d : d = data'
    BY Zenon
  <2>3. d \in Seq(L!Chars) /\ Len(d) = n /\ \A i \in 1 .. n : d[i] = sent[i]
    BY <1>2, <1>3, <2>1, <2>2, PrefixIs
  <2> QED
    BY <2>2, <2>3, Zenon
<1>5. PICK k : k = L!Find(data', L!NUL)
  BY Zenon
<1>6. FirstAt(data', L!NUL, k)
  BY <1>3, <1>4, <1>5, FindIs, Zenon
<1>7. line_at' # "parsed"
  BY <1>1
<1>8. ASSUME line_at' = "parse"
      PROVE  \E m, e : Arrived(m, e)'
  <2>1. k # 1
    BY <1>1, <1>5, <1>8
  <2>2. CASE k = 0
    <3>1. str_request' = data'
      BY <1>1, <1>5, <2>2, Zenon
    <3>2. \A i \in 1 .. n : data'[i] # L!NUL
      <4>1. k \notin 1 .. Len(data')
        BY <1>3, <1>4, <2>2
      <4> QED
        BY <1>4, <1>6, <4>1, Zenon DEF FirstAt
    <3> QED
      BY <1>1, <1>3, <1>4, <3>1, <3>2, Zenon DEF Arrived
  <2>3. CASE k # 0
    <3>1. k \in 1 .. n /\ data'[k] = L!NUL /\ \A i \in 1 .. k - 1 : data'[i] # L!NUL
      BY <1>4, <1>6, <2>3, Zenon DEF FirstAt
    <3>2. PICK e : e = k - 1
      BY Zenon
    <3>3. e \in 1 .. n /\ e \in 0 .. n /\ e + 1 = k /\ \A i \in 1 .. e : i \in 1 .. n
      BY <1>3, <2>1, <3>1, <3>2
    <3>4. str_request' = SubSeq(data', 1, e)
      BY <1>1, <1>5, <2>3, <3>2, Zenon
    <3>5. /\ str_request' \in Seq(L!Chars) /\ Len(str_request') = e
          /\ \A i \in 1 .. e : str_request'[i] = data'[i]
      BY <1>4, <3>3, <3>4, PrefixIs, ZenonT(30)
    <3>6. \A i \in 1 .. e : str_request'[i] = sent[i] /\ sent[i] # L!NUL
      BY <1>4, <3>1, <3>2, <3>3, <3>5, Zenon
    <3>7. sent[e + 1] = L!NUL
      BY <1>4, <3>1, <3>3, Zenon
    <3>8. sent' = sent /\ n \in 1 .. Len(sent) /\ e \in 1 .. n
      BY <1>1, <3>3, Zenon
    <3>9. Arrived(n, e)'
      BY <1>4, <3>5, <3>6, <3>7, <3>8, Zenon DEF Arrived
    <3> QED
      BY <3>9, Zenon
  <2> QED
    BY <2>2, <2>3, Zenon
<1> QED
  BY <1>1, <1>2, <1>7, <1>8, Zenon DEF LineInv

LEMMA LineKeeps == LineInv /\ (L!Next \/ UNCHANGED receiving) => LineInv'
<1> SUFFICES ASSUME LineInv, L!Next \/ UNCHANGED receiving PROVE LineInv'
  OBVIOUS
<1>1. CASE L!Parse
  <2>1. /\ line_at = "parse" /\ line_at' = "parsed" /\ sent' = sent /\ data' = data
        /\ str_request' = str_request
        /\ read' = [str_verb        |-> L!ExtractHttpVerb(str_request),
                    request_verb_id |-> L!ParseRequestVerb(str_request),
                    path            |-> L!ExtractUrlWithQueryParams(str_request),
                    url             |-> L!ExtractUrl(str_request)]
    BY <1>1, Zenon DEF L!Parse
  <2>2. line_at # "idle"
    BY <2>1
  <2>3. line_at \in {"parse", "parsed"}
    BY <2>1
  <2>4. sent \in Seq(L!Chars) /\ \E n, e : Arrived(n, e)
    BY <2>2, <2>3, Zenon DEF LineInv
  <2>5. (\E n, e : Arrived(n, e))'
    BY <2>1, <2>4, Zenon DEF Arrived
  <2> QED
    BY <2>1, <2>4, <2>5, Zenon DEF LineInv
<1>2. CASE UNCHANGED receiving
  <2>1. /\ line_at' = line_at /\ sent' = sent /\ data' = data
        /\ str_request' = str_request /\ read' = read
    BY <1>2 DEF receiving
  <2>2. (\E n, e : Arrived(n, e)) => (\E n, e : Arrived(n, e))'
    BY <2>1, Zenon DEF Arrived
  <2> QED
    BY <2>1, <2>2, Zenon DEF LineInv
<1> QED
  BY <1>1, <1>2, ReceiveKeeps, Zenon DEF L!Next

LEMMA LineInitially == L!Init \/ NoRequest => LineInv
<1> SUFFICES ASSUME L!Init \/ NoRequest PROVE LineInv
  OBVIOUS
<1>1. CASE L!Init
  <2>1. sent \in Requests /\ line_at = "recv"
    BY <1>1 DEF L!Init
  <2>2. sent \in Seq(L!Chars)
    BY <2>1, RequestsAssumption, Zenon
  <2>3. line_at \notin {"parse", "parsed"} /\ line_at # "parsed"
    BY <2>1
  <2> QED
    BY <2>2, <2>3, Zenon DEF LineInv
<1>2. CASE NoRequest
  <2>1. line_at = "idle"
    BY <1>2, Zenon DEF NoRequest
  <2>2. line_at \notin {"parse", "parsed"} /\ line_at # "parsed"
    BY <2>1
  <2> QED
    BY <2>1, <2>2, Zenon DEF LineInv
<1> QED
  BY <1>1, <1>2, Zenon

(* Where the blank and the version stand in what was taken for a string,   *)
(* when the client sent a request line.                                    *)
LEMMA LineReaches ==
  ASSUME NEW n, NEW e, Arrived(n, e), sent \in Seq(L!Chars),
         NEW a \in DOMAIN sent, NEW b \in DOMAIN sent, L!IsRequestLine(a, b)
  PROVE  /\ Len(sent) \in Nat /\ a \in Nat /\ b \in Nat /\ n \in Nat /\ e \in Nat
         /\ 1 < a /\ a + 1 < b /\ b < Len(sent) /\ e >= 1 /\ e <= n /\ n <= Len(sent)
         /\ n > b => e > b
         /\ ~(n > b) => e = n
<1>1. /\ 1 < a /\ a + 1 < b /\ b < Len(sent)
      /\ sent[b] = "SP" /\ sent[b + 1] = L!Version
      /\ \A i \in 1 .. b - 1 : sent[i] \notin {L!NUL, L!Version}
  BY Zenon DEF L!IsRequestLine
<1>2. /\ n \in 1 .. Len(sent) /\ e \in 1 .. n
      /\ e = n \/ sent[e + 1] = L!NUL
  BY Zenon DEF Arrived
<1>3. Len(sent) \in Nat /\ DOMAIN sent = 1 .. Len(sent)
  BY LenProperties, Zenon
<1>4. L!NUL # "SP" /\ L!NUL # L!Version
  BY DEF L!NUL, L!Version
<1>5. \A i \in 1 .. b + 1 : sent[i] # L!NUL
  <2>1. \A i \in 1 .. b + 1 : i \in 1 .. b - 1 \/ i = b \/ i = b + 1
    BY <1>3
  <2>2. \A i \in 1 .. b - 1 : sent[i] # L!NUL
    BY <1>1, Zenon
  <2> QED
    BY <1>1, <1>4, <2>1, <2>2, Zenon
<1>6. e = n \/ e + 1 \notin 1 .. b + 1
  BY <1>2, <1>5, Zenon
<1> QED
  BY <1>1, <1>2, <1>3, <1>6

LEMMA SpaceIs ==
  ASSUME NEW n, NEW e, Arrived(n, e), sent \in Seq(L!Chars),
         NEW a \in DOMAIN sent, NEW b \in DOMAIN sent, L!IsRequestLine(a, b), a <= e
  PROVE  L!FirstSpace(str_request) = a
<1>0. /\ Len(sent) \in Nat /\ a \in Nat /\ b \in Nat /\ n \in Nat /\ e \in Nat
      /\ 1 < a /\ a + 1 < b
  BY LineReaches, Zenon
<1>1. /\ sent[a] = "SP"
      /\ \A i \in 1 .. b - 1 : sent[i] = "SP" => i = a
  BY Zenon DEF L!IsRequestLine
<1>2. /\ Len(str_request) = e
      /\ \A i \in 1 .. e : str_request[i] = sent[i]
  BY Zenon DEF Arrived
<1>3. a \in 1 .. e /\ \A i \in 1 .. a - 1 : i \in 1 .. e /\ i \in 1 .. b - 1 /\ i # a
  BY <1>0
<1>4. FirstAt(str_request, "SP", a)
  BY <1>1, <1>2, <1>3, Zenon DEF FirstAt
<1>5. FirstAt(str_request, "SP", L!Find(str_request, "SP"))
  BY <1>0, <1>2, FindIs, Zenon
<1>6. Len(str_request) \in Nat
  BY <1>0, <1>2, Zenon
<1> QED
  BY <1>4, <1>5, <1>6, FirstAtOne, Zenon DEF L!FirstSpace

LEMMA VersionStands ==
  ASSUME NEW n, NEW e, Arrived(n, e), sent \in Seq(L!Chars),
         NEW a \in DOMAIN sent, NEW b \in DOMAIN sent, L!IsRequestLine(a, b)
  PROVE  L!VersionAt(str_request) = IF e > b THEN b ELSE 0
<1>0. /\ Len(sent) \in Nat /\ a \in Nat /\ b \in Nat /\ n \in Nat /\ e \in Nat
      /\ 1 < a /\ a + 1 < b
  BY LineReaches, Zenon
<1>1. /\ sent[b] = "SP" /\ sent[b + 1] = L!Version
      /\ \A i \in 1 .. b - 1 : sent[i] # L!Version
  BY Zenon DEF L!IsRequestLine
<1>2. /\ Len(str_request) = e
      /\ \A i \in 1 .. e : str_request[i] = sent[i]
  BY Zenon DEF Arrived
<1>3. L!Version # "SP"
  BY DEF L!Version
<1>4. PICK v : v = L!VersionAt(str_request)
  BY Zenon
<1>5. \/ /\ v = 0
         /\ \A i \in 1 .. e - 1 : ~(str_request[i] = "SP" /\ str_request[i + 1] = L!Version)
      \/ /\ v \in 1 .. e - 1
         /\ str_request[v] = "SP" /\ str_request[v + 1] = L!Version
         /\ \A i \in 1 .. v - 1 : ~(str_request[i] = "SP" /\ str_request[i + 1] = L!Version)
  BY <1>0, <1>2, <1>4, VersionIs, Zenon
<1>6. \A i \in 1 .. b : sent[i] # L!Version
  <2>1. \A i \in 1 .. b : i \in 1 .. b - 1 \/ i = b
    BY <1>0
  <2> QED
    BY <1>1, <1>3, <2>1, Zenon
<1>7. ASSUME e > b
      PROVE  v = b
  <2>1. b \in 1 .. e - 1 /\ b \in 1 .. e /\ b + 1 \in 1 .. e
    BY <1>0, <1>7
  <2>2. str_request[b] = "SP" /\ str_request[b + 1] = L!Version
    BY <1>1, <1>2, <2>1, Zenon
  <2>3. /\ v \in 1 .. e - 1
        /\ str_request[v + 1] = L!Version
        /\ b \notin 1 .. v - 1
    BY <1>5, <2>1, <2>2, Zenon
  <2>4. v + 1 \in 1 .. e
    BY <1>0, <2>3
  <2>5. v + 1 \notin 1 .. b
    BY <1>2, <1>6, <2>3, <2>4, Zenon
  <2> QED
    BY <1>0, <2>3, <2>5
<1>8. ASSUME ~(e > b)
      PROVE  v = 0
  <2>1. ASSUME NEW i \in 1 .. e - 1
        PROVE  str_request[i + 1] # L!Version
    <3>1. i + 1 \in 1 .. e /\ i + 1 \in 1 .. b
      BY <1>0, <1>8
    <3> QED
      BY <1>2, <1>6, <3>1, Zenon
  <2> QED
    BY <1>5, <2>1, Zenon
<1> QED
  BY <1>4, <1>7, <1>8, Zenon

(* Texts of the same characters are the same. *)
LEMMA TextsEqual ==
  ASSUME NEW C, NEW s, NEW t, NEW a \in Int, NEW b \in Int,
         \A i \in a .. b : s[i] \in C /\ s[i] = t[i]
  PROVE  SamePart(s, a, b, t, a, b)
<1>1. \A i \in a .. b : i + (a - a) = i
  OBVIOUS
<1>2. SameSpan(a, b, a, b)
  BY DEF SameSpan
<1>3. Alike(C, s, a, b, t, a, b)
  BY <1>1, <1>2, Zenon DEF Alike
<1> QED
  BY <1>3, AlikeTexts, Zenon

LEMMA SubstrIs ==
  ASSUME NEW s, NEW p \in Int, NEW n \in Int, Len(s) \in Nat
  PROVE  /\ n < 0 => L!Substr(s, p, n) = SubSeq(s, p, Len(s))
         /\ ~(n < 0) /\ p + n <= Len(s) => L!Substr(s, p, n) = SubSeq(s, p, p + n - 1)
<1>1. p + n <= Len(s) => ~(p + n > Len(s))
  OBVIOUS
<1> QED
  BY <1>1, Zenon DEF L!Substr

LEMMA SpanFacts ==
  ASSUME NEW a \in Nat, NEW b \in Nat, NEW e \in Nat, a + 1 < b, b < e
  PROVE  /\ b - (a + 1) \in Int /\ a + 1 \in Int /\ ~(b - (a + 1) < 0)
         /\ a + 1 + (b - (a + 1)) <= e
         /\ a + 1 + (b - (a + 1)) - 1 = b - 1 /\ b - 1 \in Int
         /\ \A i \in a + 1 .. b - 1 : i \in 1 .. e
OBVIOUS

LEMMA PathIs ==
  ASSUME NEW n, NEW e, Arrived(n, e), sent \in Seq(L!Chars),
         NEW a \in DOMAIN sent, NEW b \in DOMAIN sent, L!IsRequestLine(a, b), a < e
  PROVE  L!ExtractUrlWithQueryParams(str_request) =
           IF e > b THEN SubSeq(sent, a + 1, b - 1) ELSE SubSeq(data, a + 1, Len(data))
<1>0. /\ Len(sent) \in Nat /\ a \in Nat /\ b \in Nat /\ n \in Nat /\ e \in Nat
      /\ 1 < a /\ a + 1 < b
      /\ ~(n > b) => e = n
      /\ n > b => e > b
      /\ e <= n
  BY LineReaches, Zenon
<1>1. a <= e
  BY <1>0
<1>2. /\ L!FirstSpace(str_request) = a
      /\ L!VersionAt(str_request) = IF e > b THEN b ELSE 0
  BY <1>1, SpaceIs, VersionStands, Zenon
<1>3. L!ExtractUrlWithQueryParams(str_request) =
        L!Substr(str_request, a + 1, (IF e > b THEN b ELSE 0) - (a + 1))
  BY <1>2, Zenon DEF L!ExtractUrlWithQueryParams
<1>4. /\ Len(str_request) = e /\ Len(data) = n
      /\ \A i \in 1 .. e : str_request[i] = sent[i] /\ str_request[i] \in L!Chars
      /\ \A i \in 1 .. n : data[i] = sent[i]
  <2>1. str_request \in Seq(L!Chars) /\ Len(str_request) = e
    BY Zenon DEF Arrived
  <2>2. \A i \in 1 .. e : str_request[i] \in L!Chars
    BY <2>1, ElementOfSeq, Zenon
  <2> QED
    BY <2>1, <2>2, Zenon DEF Arrived
<1>5. CASE e > b
  <2>1. /\ b - (a + 1) \in Int /\ a + 1 \in Int /\ ~(b - (a + 1) < 0)
        /\ a + 1 + (b - (a + 1)) <= e
        /\ a + 1 + (b - (a + 1)) - 1 = b - 1 /\ b - 1 \in Int
        /\ \A i \in a + 1 .. b - 1 : i \in 1 .. e
    <3>1. b < e
      BY <1>0, <1>5
    <3> QED
      BY <1>0, <3>1, SpanFacts, Zenon
  <2>2. L!Substr(str_request, a + 1, b - (a + 1)) = SubSeq(str_request, a + 1, b - 1)
    BY <1>0, <1>4, <2>1, SubstrIs, Zenon
  <2>3. SubSeq(str_request, a + 1, b - 1) = SubSeq(sent, a + 1, b - 1)
    <3>1. \A i \in a + 1 .. b - 1 : str_request[i] \in L!Chars /\ str_request[i] = sent[i]
      BY <1>4, <2>1, Zenon
    <3>2. SamePart(str_request, a + 1, b - 1, sent, a + 1, b - 1)
      BY <2>1, <3>1, TextsEqual, Zenon
    <3> QED
      BY <3>2, Zenon DEF SamePart
  <2> QED
    BY <1>3, <1>5, <2>2, <2>3, Zenon
<1>6. CASE ~(e > b)
  <2>1. e = n /\ 0 - (a + 1) \in Int /\ a + 1 \in Int /\ 0 - (a + 1) < 0 /\ e \in Int
        /\ \A i \in a + 1 .. e : i \in 1 .. e
    BY <1>0, <1>6
  <2>2. L!Substr(str_request, a + 1, 0 - (a + 1)) = SubSeq(str_request, a + 1, e)
    BY <1>0, <1>4, <2>1, SubstrIs, Zenon
  <2>3. SubSeq(str_request, a + 1, e) = SubSeq(data, a + 1, e)
    <3>1. \A i \in a + 1 .. e : str_request[i] \in L!Chars /\ str_request[i] = data[i]
      BY <1>4, <2>1, Zenon
    <3>2. SamePart(str_request, a + 1, e, data, a + 1, e)
      BY <2>1, <3>1, TextsEqual, Zenon
    <3> QED
      BY <3>2, Zenon DEF SamePart
  <2> QED
    BY <1>3, <1>4, <1>6, <2>1, <2>2, <2>3, Zenon
<1> QED
  BY <1>5, <1>6, Zenon

(* The URL without its query. *)
LEMMA UrlIs ==
  ASSUME NEW C, NEW s, NEW p \in Seq(C), p = L!ExtractUrlWithQueryParams(s),
         NEW u, u = L!ExtractUrl(s)
  PROVE  /\ L!IsPrefix(u, p)
         /\ L!Find(u, "?") = 0
         /\ u # p => Len(u) + 1 \in 1 .. Len(p) /\ p[Len(u) + 1] = "?"
<1>1. PICK q : q = L!Find(p, "?")
  BY Zenon
<1>2. u = IF q = 0 THEN p ELSE SubSeq(p, 1, q - 1)
  BY <1>1, Zenon DEF L!ExtractUrl
<1>3. Len(p) \in Nat
  BY LenProperties, Zenon
<1>4. FirstAt(p, "?", q)
  BY <1>1, <1>3, FindIs, Zenon
<1>5. CASE q = 0
  <2>1. u = p
    BY <1>2, <1>5, Zenon
  <2>2. Len(p) <= Len(p)
    BY <1>3
  <2> QED
    BY <1>1, <1>5, <2>1, <2>2, Zenon DEF L!IsPrefix
<1>6. CASE q # 0
  <2>1. q \in 1 .. Len(p) /\ p[q] = "?" /\ \A i \in 1 .. q - 1 : p[i] # "?"
    BY <1>4, <1>6, Zenon DEF FirstAt
  <2>2. PICK m : m = q - 1
    BY Zenon
  <2>3. m \in 0 .. Len(p) /\ m <= Len(p) /\ m + 1 = q /\ m \in Nat /\ 0 \notin 1 .. m
    BY <1>3, <2>1, <2>2
  <2>4. u = SubSeq(p, 1, m)
    BY <1>2, <1>6, <2>2, Zenon
  <2>5. u \in Seq(C) /\ Len(u) = m /\ \A i \in 1 .. m : u[i] = p[i]
    BY <2>3, <2>4, PrefixIs
  <2>6. SubSeq(u, 1, Len(u)) = u
    BY <2>5, SubSeqFull, Zenon
  <2>7. L!IsPrefix(u, p)
    BY <2>3, <2>4, <2>5, <2>6 DEF L!IsPrefix
  <2>8. FirstAt(u, "?", L!Find(u, "?"))
    BY <2>3, <2>5, FindIs, Zenon
  <2>9. L!Find(u, "?") = 0
    BY <2>1, <2>2, <2>5, <2>8, Zenon DEF FirstAt
  <2> QED
    BY <2>1, <2>3, <2>5, <2>7, <2>9, Zenon
<1> QED
  BY <1>5, <1>6, Zenon

LEMMA TargetHolds == LineInv => L!TargetRead
<1> SUFFICES ASSUME LineInv, line_at = "parsed",
                    NEW a \in DOMAIN sent, NEW b \in DOMAIN sent, L!IsRequestLine(a, b)
             PROVE  IF Len(data) > b
                      THEN /\ read.path = SubSeq(sent, a + 1, b - 1)
                           /\ L!IsPrefix(read.url, read.path)
                           /\ L!Find(read.url, "?") = 0
                           /\ read.url # read.path => sent[a + Len(read.url) + 1] = "?"
                           /\ read.str_verb = SubSeq(sent, 1, a - 1)
                      ELSE Len(data) > a => read.path = SubSeq(data, a + 1, Len(data))
  BY Zenon DEF L!TargetRead
<1>1. line_at # "idle" /\ line_at \in {"parse", "parsed"}
  OBVIOUS
<1>2. sent \in Seq(L!Chars)
  BY <1>1, Zenon DEF LineInv
<1>3. PICK n, e : Arrived(n, e)
  BY <1>1, Zenon DEF LineInv
<1>4. PICK p, u, w : /\ p = L!ExtractUrlWithQueryParams(str_request)
                     /\ u = L!ExtractUrl(str_request)
                     /\ w = L!ExtractHttpVerb(str_request)
  BY Zenon
<1>5. read.path = p /\ read.url = u /\ read.str_verb = w
  <2>1. read = [str_verb        |-> w,
                request_verb_id |-> L!ParseRequestVerb(str_request),
                path            |-> p,
                url             |-> u]
    BY <1>4, Zenon DEF LineInv
  <2> QED
    BY <2>1
<1>6. /\ Len(sent) \in Nat /\ a \in Nat /\ b \in Nat /\ n \in Nat /\ e \in Nat
      /\ 1 < a /\ a + 1 < b /\ b < Len(sent)
      /\ n > b => e > b
      /\ ~(n > b) => e = n
      /\ e <= n /\ n <= Len(sent)
  BY <1>2, <1>3, LineReaches, Zenon
<1>7. Len(data) = n
  BY <1>3, Zenon DEF Arrived
<1>8. CASE n > b
  <2>1. e > b /\ a < e /\ a <= e
    BY <1>6, <1>8
  <2>2. p = SubSeq(sent, a + 1, b - 1)
    BY <1>2, <1>3, <1>4, <2>1, PathIs, Zenon
  <2>3. /\ a + 1 \in Int /\ b - 1 \in Int /\ a - 1 \in Int /\ 1 \in Int
        /\ \A i \in a + 1 .. b - 1 : i \in 1 .. Len(sent)
        /\ \A i \in 1 .. a - 1 : i \in 1 .. Len(sent) /\ i \in 1 .. e
        /\ a + 1 <= b - 1 /\ a # 0
    BY <1>6, <2>1
  <2>4. \A i \in 1 .. Len(sent) : sent[i] \in L!Chars
    BY <1>2, ElementOfSeq, Zenon
  <2>5. p \in Seq(L!Chars)
    BY <2>2, <2>3, <2>4, TextType, Zenon
  <2>6. /\ L!IsPrefix(u, p)
        /\ L!Find(u, "?") = 0
        /\ u # p => Len(u) + 1 \in 1 .. Len(p) /\ p[Len(u) + 1] = "?"
    BY <1>4, <2>5, UrlIs
  <2>7. u # p => sent[a + Len(u) + 1] = "?"
    <3>1. \A i \in 1 .. (b - 1) - (a + 1) + 1 : p[i] = sent[a + 1 + i - 1]
      BY <2>2, <2>3, TextAt, Zenon
    <3>2. Len(p) = (b - 1) - (a + 1) + 1
      BY <2>2, <2>3, TextLen, Zenon
    <3>3. ASSUME u # p
          PROVE  sent[a + Len(u) + 1] = "?"
      <4>1. PICK k : k = Len(u) + 1
        BY Zenon
      <4>2. k \in 1 .. Len(p) /\ p[k] = "?"
        BY <2>6, <3>3, <4>1, Zenon
      <4>3. k \in Int /\ p[k] = sent[a + 1 + k - 1]
        BY <3>1, <3>2, <4>2
      <4>4. Len(u) + 1 = k /\ Len(u) \in Int
        <5>1. Len(u) \in Int
          BY <2>6 DEF L!IsPrefix
        <5> QED
          BY <4>1, <5>1
      <4>5. a + 1 + k - 1 = a + Len(u) + 1
        <5>1. \A x, y \in Int : x + 1 + (y + 1) - 1 = x + y + 1
          OBVIOUS
        <5>2. a \in Int
          BY <1>6
        <5> QED
          BY <4>4, <5>1, <5>2, Zenon
      <4> QED
        BY <4>2, <4>3, <4>5, Zenon
    <3> QED
      BY <3>3, Zenon
  <2>8. w = SubSeq(sent, 1, a - 1)
    <3>1. L!FirstSpace(str_request) = a
      BY <1>2, <1>3, <2>1, SpaceIs, Zenon
    <3>2. w = SubSeq(str_request, 1, a - 1)
      BY <1>4, <2>3, <3>1, Zenon DEF L!ExtractHttpVerb
    <3>3. \A i \in 1 .. e : sent[i] = str_request[i]
      BY <1>3, Zenon DEF Arrived
    <3>4. \A i \in 1 .. a - 1 : sent[i] \in L!Chars /\ sent[i] = str_request[i]
      BY <2>3, <2>4, <3>3, Zenon
    <3>5. SamePart(sent, 1, a - 1, str_request, 1, a - 1)
      BY <2>3, <3>4, TextsEqual, Zenon
    <3> QED
      BY <3>2, <3>5, Zenon DEF SamePart
  <2> QED
    BY <1>5, <1>7, <1>8, <2>2, <2>6, <2>7, <2>8, Zenon
<1>9. CASE ~(n > b)
  <2>1. ASSUME n > a
        PROVE  p = SubSeq(data, a + 1, Len(data))
    <3>1. a < e /\ ~(e > b)
      BY <1>6, <1>9, <2>1
    <3> QED
      BY <1>2, <1>3, <1>4, <3>1, PathIs, Zenon
  <2> QED
    BY <1>5, <1>7, <1>9, <2>1, Zenon
<1> QED
  BY <1>8, <1>9, Zenon

LEMMA VerbHolds == LineInv => L!VerbMistakenOnlyByAnother
<1> SUFFICES ASSUME LineInv, line_at = "parsed",
                    NEW a \in DOMAIN sent, NEW b \in DOMAIN sent, NEW v \in DOMAIN L!Verbs,
                    L!IsRequestLine(a, b), a = 2, sent[1] = L!Verbs[v]
             PROVE  (read.request_verb_id # L!Verbs[v]) <=>
                      \E i \in 2 .. Len(str_request) : \E w \in 1 .. v - 1 :
                        str_request[i] = L!Verbs[w]
  BY Zenon DEF L!VerbMistakenOnlyByAnother
<1>1. line_at # "idle" /\ line_at \in {"parse", "parsed"}
  OBVIOUS
<1>2. sent \in Seq(L!Chars)
  BY <1>1, Zenon DEF LineInv
<1>3. PICK n, e : Arrived(n, e)
  BY <1>1, Zenon DEF LineInv
<1>4. PICK r : r = L!ParseRequestVerb(str_request)
  BY Zenon
<1>5. read.request_verb_id = r
  <2>1. read = [str_verb        |-> L!ExtractHttpVerb(str_request),
                request_verb_id |-> r,
                path            |-> L!ExtractUrlWithQueryParams(str_request),
                url             |-> L!ExtractUrl(str_request)]
    BY <1>4, Zenon DEF LineInv
  <2> QED
    BY <2>1
<1>6. /\ Len(str_request) = e /\ e \in Nat /\ e >= 1
      /\ \A i \in 1 .. e : str_request[i] = sent[i]
  <2>1. e \in Nat /\ e >= 1
    BY <1>2, <1>3, LineReaches, Zenon
  <2> QED
    BY <1>3, <2>1, Zenon DEF Arrived
<1>7. 1 \in 1 .. e /\ str_request[1] = L!Verbs[v]
  BY <1>6
<1>8. \A c : L!Find(str_request, c) # 0 <=> \E i \in 1 .. e : str_request[i] = c
  <2> TAKE c
  <2>1. FirstAt(str_request, c, L!Find(str_request, c))
    BY <1>6, FindIs, Zenon
  <2>2. 0 \notin 1 .. e
    OBVIOUS
  <2> QED
    BY <1>6, <2>1, <2>2, Zenon DEF FirstAt
<1> DEFINE Has(c) == \E i \in 1 .. e : str_request[i] = c
<1>9. r = IF Has("get") THEN "get"
          ELSE IF Has("post") THEN "post"
          ELSE IF Has("put") THEN "put" ELSE "get"
  BY <1>4, <1>8, Zenon DEF L!ParseRequestVerb
<1>10. ASSUME NEW c, c # L!Verbs[v]
       PROVE  Has(c) <=> \E i \in 2 .. Len(str_request) : str_request[i] = c
  <2>1. \A i : i \in 1 .. e <=> i = 1 \/ i \in 2 .. e
    BY <1>6
  <2> QED
    BY <1>6, <1>7, <1>10, <2>1, Zenon
<1>11. Has(L!Verbs[v])
  BY <1>7, Zenon
<1>12. v \in 1 .. 3 /\ L!Verbs[1] = "get" /\ L!Verbs[2] = "post" /\ L!Verbs[3] = "put"
  BY DEF L!Verbs
<1> DEFINE Behind(c) == \E i \in 2 .. Len(str_request) : str_request[i] = c
<1>13. (\E i \in 2 .. Len(str_request) : \E w \in 1 .. v - 1 : str_request[i] = L!Verbs[w])
         <=> \E w \in 1 .. v - 1 : Behind(L!Verbs[w])
  BY Zenon
<1> HIDE DEF Has, Behind
<1>14. \A c : c # L!Verbs[v] => (Has(c) <=> Behind(c))
  BY <1>10, Zenon DEF Has, Behind
<1>15. CASE v = 1
  <2>1. 1 .. v - 1 = {} /\ r = "get"
    BY <1>9, <1>11, <1>12, <1>15
  <2> QED
    BY <1>5, <1>12, <1>13, <1>15, <2>1
<1>16. CASE v = 2
  <2>1. 1 .. v - 1 = {1}
    BY <1>16
  <2>2. r = IF Has("get") THEN "get" ELSE "post"
    BY <1>9, <1>11, <1>12, <1>16, Zenon
  <2>3. Has("get") <=> Behind("get")
    BY <1>12, <1>14, <1>16
  <2> QED
    BY <1>5, <1>12, <1>13, <1>16, <2>1, <2>2, <2>3
<1>17. CASE v = 3
  <2>1. 1 .. v - 1 = {1, 2}
    BY <1>17
  <2>2. r = IF Has("get") THEN "get" ELSE IF Has("post") THEN "post" ELSE "put"
    BY <1>9, <1>11, <1>12, <1>17, Zenon
  <2>3. (Has("get") <=> Behind("get")) /\ (Has("post") <=> Behind("post"))
    BY <1>12, <1>14, <1>17
  <2> QED
    BY <1>5, <1>12, <1>13, <1>17, <2>1, <2>2, <2>3
<1> QED
  BY <1>12, <1>15, <1>16, <1>17

-----------------------------------------------------------------------------
(* What is read of a URL *)

UrlQuery == SubSeq(url, U!QueryAt + 1, Len(url))
UrlVars == Words(UrlQuery, ";")
Pairs(n) == Words(UrlVars[n], "=")

LEMMA UrlWords == ASSUME NEW s, NEW sep PROVE U!Words(s, sep) = Words(s, sep)
BY Zenon DEF U!Words, Words, U!Runs, Runs, U!Cardinality, Cardinality

LEMMA QueryIs ==
  ASSUME url \in Seq(UrlChars)
  PROVE  /\ Len(url) \in Nat /\ DOMAIN url = 1 .. Len(url)
         /\ U!QueryAt \in 0 .. Len(url)
         /\ UrlQuery \in Seq(UrlChars)
         /\ Len(UrlQuery) = Len(url) - U!QueryAt
         /\ \A i \in 1 .. Len(UrlQuery) : UrlQuery[i] = url[U!QueryAt + i]
<1>1. Len(url) \in Nat /\ DOMAIN url = 1 .. Len(url)
  BY LenProperties, Zenon
<1>2. U!QueryAt = Least({i \in 1 .. Len(url) : url[i] = "?"})
  BY Zenon DEF U!QueryAt, U!SelectInSeq, U!Min, Least
<1>3. FirstAt(url, "?", U!QueryAt)
  BY <1>1, <1>2, FirstAtIs, Zenon
<1>4. PICK p : p = U!QueryAt
  BY Zenon
<1>5. p \in 0 .. Len(url)
  BY <1>1, <1>3, <1>4 DEF FirstAt
<1>6. PICK q : q = UrlQuery
  BY Zenon
<1>7. PICK c : c = p + 1
  BY Zenon
<1>8. /\ q \in Seq(UrlChars) /\ Len(q) = Len(url) - c + 1
      /\ \A i \in 1 .. Len(q) : q[i] = url[c + i - 1]
  <2>1. c \in 1 .. Len(url) + 1 /\ Len(url) \in c - 1 .. Len(url)
    BY <1>1, <1>5, <1>7
  <2>2. q = SubSeq(url, c, Len(url))
    BY <1>4, <1>6, <1>7, Zenon DEF UrlQuery
  <2> QED
    BY <2>1, <2>2, PartIs
<1>9. Len(q) = Len(url) - p /\ \A i \in 1 .. Len(q) : q[i] = url[p + i]
  <2>1. Len(url) - c + 1 = Len(url) - p
    BY <1>1, <1>5, <1>7
  <2>2. \A i \in 1 .. Len(q) : c + i - 1 = p + i
    BY <1>1, <1>5, <1>7
  <2> QED
    BY <1>8, <2>1, <2>2
<1> QED
  BY <1>1, <1>4, <1>5, <1>6, <1>8, <1>9, Zenon

(* A parameter is a run of the query, moved to its place in the URL. *)
LEMMA ParamIsRun ==
  ASSUME url \in Seq(UrlChars), U!QueryAt # 0,
         NEW a \in 1 .. Len(UrlQuery), NEW b \in 1 .. Len(UrlQuery)
  PROVE  U!IsParam(U!QueryAt + a, U!QueryAt + b) <=> IsRun(UrlQuery, ";", a, b)
<1>1. PICK p, q : p = U!QueryAt /\ q = UrlQuery
  BY Zenon
<1>2. /\ Len(url) \in Nat /\ p \in 1 .. Len(url) /\ Len(q) = Len(url) - p
      /\ \A i \in 1 .. Len(q) : q[i] = url[p + i]
      /\ a \in 1 .. Len(q) /\ b \in 1 .. Len(q)
  BY <1>1, QueryIs
<1>3. /\ p < p + a
      /\ p + a <= p + b <=> a <= b
      /\ p + a = p + 1 <=> a = 1
      /\ p + b = Len(url) <=> b = Len(q)
  BY <1>2
<1>4. /\ a # 1 => url[(p + a) - 1] = q[a - 1]
      /\ b # Len(q) => url[p + b + 1] = q[b + 1]
  <2>1. Len(q) \in Nat /\ p \in Nat
    BY <1>2
  <2>2. a # 1 => a - 1 \in 1 .. Len(q) /\ p + (a - 1) = (p + a) - 1
    BY <1>2, <2>1
  <2>3. b # Len(q) => b + 1 \in 1 .. Len(q) /\ p + (b + 1) = (p + b) + 1
    <3>1. \A m \in Nat : \A j \in 1 .. m : j # m => j + 1 \in 1 .. m
      OBVIOUS
    <3>2. p + (b + 1) = (p + b) + 1
      BY <1>2, <2>1
    <3> QED
      BY <1>2, <2>1, <3>1, <3>2, Zenon
  <2>4. a # 1 => url[(p + a) - 1] = q[a - 1]
    BY <1>2, <2>2
  <2> QED
    BY <1>2, <2>3, <2>4
<1>5. (\A k \in p + a .. p + b : url[k] # ";") <=> \A k \in a .. b : q[k] # ";"
  <2>1. \A k \in a .. b : p + k \in p + a .. p + b /\ k \in 1 .. Len(q)
    BY <1>2
  <2>2. \A k \in p + a .. p + b : k - p \in a .. b /\ p + (k - p) = k /\ k - p \in 1 .. Len(q)
    BY <1>2
  <2>3. ASSUME \A k \in p + a .. p + b : url[k] # ";", NEW k \in a .. b
        PROVE  q[k] # ";"
    BY <1>2, <2>1, <2>3, Zenon
  <2>4. ASSUME \A k \in a .. b : q[k] # ";", NEW k \in p + a .. p + b
        PROVE  url[k] # ";"
    <3>1. q[k - p] # ";" /\ q[k - p] = url[p + (k - p)] /\ p + (k - p) = k
      BY <1>2, <2>2, <2>4, Zenon
    <3> QED
      BY <3>1
  <2> QED
    BY <2>3, <2>4, Zenon
<1>6. U!IsParam(p + a, p + b) <=>
        /\ p # 0 /\ p < p + a /\ p + a <= p + b
        /\ p + a = p + 1 \/ url[(p + a) - 1] = ";"
        /\ p + b = Len(url) \/ url[p + b + 1] = ";"
        /\ \A k \in p + a .. p + b : url[k] # ";"
  BY <1>1, Zenon DEF U!IsParam
<1>7. IsRun(q, ";", a, b) <=>
        /\ a <= b
        /\ \A k \in a .. b : q[k] # ";"
        /\ a = 1 \/ q[a - 1] = ";"
        /\ b = Len(q) \/ q[b + 1] = ";"
  BY <1>2, Zenon DEF IsRun
<1>8. p # 0
  BY <1>1, Zenon
<1> QED
  BY <1>1, <1>3, <1>4, <1>5, <1>6, <1>7, <1>8

(* The vector of parameters: where each of them stands in the URL. *)
ParamList(p) ==
  /\ \A n \in 1 .. Len(UrlVars) :
       /\ p[n][1] \in 1 .. Len(url) /\ p[n][2] \in 1 .. Len(url)
       /\ U!IsParam(p[n][1], p[n][2])
       /\ UrlVars[n] = SubSeq(url, p[n][1], p[n][2])
  /\ \A i, j \in 1 .. Len(url) :
       U!IsParam(i, j) => \E n \in 1 .. Len(UrlVars) : p[n][1] = i /\ p[n][2] = j
  /\ \A m, n \in 1 .. Len(UrlVars) : m < n => p[m][2] < p[n][1]

VarRun(a, b) == IsRun(UrlQuery, ";", a, b)
VarRuns(r) == RunList(r, Len(UrlVars), UrlQuery, ";") /\ Spells(UrlVars, r, UrlQuery)
VarsSpelled == WordList(UrlVars, UrlQuery, ";")

LEMMA VarsAre ==
  ASSUME url \in Seq(UrlChars)
  PROVE  /\ UrlVars \in Seq(Seq(UrlChars)) /\ Len(UrlVars) \in Nat
         /\ \A n \in 1 .. Len(UrlVars) : UrlVars[n] \in Seq(UrlChars)
         /\ VarsSpelled
<1>1. UrlQuery \in Seq(UrlChars) /\ ";" \in UrlChars
  BY QueryIs, UrlAssumption
<1>2. UrlVars \in Seq(Seq(UrlChars)) /\ VarsSpelled
  BY <1>1, WordsAreList, Zenon DEF UrlVars, VarsSpelled
<1> QED
  BY <1>2

(* One parameter, in the query and in the URL. *)
LEMMA VarStands ==
  ASSUME url \in Seq(UrlChars), U!QueryAt # 0, NEW a, NEW b, VarRun(a, b)
  PROVE  /\ a \in Nat /\ b \in Nat
         /\ U!QueryAt + a \in 1 .. Len(url) /\ U!QueryAt + b \in 1 .. Len(url)
         /\ U!IsParam(U!QueryAt + a, U!QueryAt + b)
         /\ SamePart(UrlQuery, a, b, url, U!QueryAt + a, U!QueryAt + b)
<1>1. PICK p, q : p = U!QueryAt /\ q = UrlQuery
  BY Zenon
<1>2. a \in 1 .. Len(q) /\ b \in 1 .. Len(q) /\ a <= b
  BY <1>1, Zenon DEF VarRun, IsRun
<1>3. /\ Len(url) \in Nat /\ p \in 0 .. Len(url) /\ Len(q) = Len(url) - p
      /\ \A i \in 1 .. Len(q) : q[i] = url[p + i]
      /\ q \in Seq(UrlChars)
  BY <1>1, QueryIs, Zenon
<1>4. U!IsParam(p + a, p + b)
  BY <1>1, <1>2, ParamIsRun, Zenon DEF VarRun
<1>5. /\ a \in Nat /\ b \in Nat /\ p \in Nat
      /\ p + a \in 1 .. Len(url) /\ p + b \in 1 .. Len(url)
      /\ \A i \in a .. b : i \in 1 .. Len(q) /\ i + ((p + a) - a) = p + i
      /\ (p + b) - (p + a) = b - a
  BY <1>2, <1>3
<1>6. Alike(UrlChars, q, a, b, url, p + a, p + b)
  <2>1. a \in Int /\ b \in Int /\ p + a \in Int /\ p + b \in Int
    BY <1>5
  <2>2. SameSpan(a, b, p + a, p + b)
    BY <1>5, Zenon DEF SameSpan
  <2>3. ASSUME NEW i \in a .. b
        PROVE  q[i] \in UrlChars /\ q[i] = url[i + ((p + a) - a)]
    <3>1. i \in 1 .. Len(q) /\ i + ((p + a) - a) = p + i
      BY <1>5
    <3>2. q[i] \in UrlChars
      BY <1>3, <3>1, ElementOfSeq, Zenon
    <3> QED
      BY <1>3, <3>1, <3>2
  <2> QED
    BY <2>1, <2>2, <2>3, Zenon DEF Alike
<1>7. SamePart(q, a, b, url, p + a, p + b)
  BY <1>6, AlikeTexts, Zenon
<1> QED
  BY <1>1, <1>4, <1>5, <1>7, Zenon

LEMMA ParamsListed ==
  ASSUME url \in Seq(UrlChars), U!QueryAt # 0
  PROVE  \E p : ParamList(p)
<1>1. PICK r : VarRuns(r)
  BY VarsAre, Zenon DEF VarsSpelled, WordList, VarRuns
<1>2. PICK k, q : k = Len(UrlVars) /\ q = U!QueryAt
  BY Zenon
<1>3. k \in Nat /\ q \in Nat
  BY <1>2, VarsAre, QueryIs
<1> DEFINE p == [n \in 1 .. k |-> <<q + r[n][1], q + r[n][2]>>]
<1>4. ASSUME NEW n \in 1 .. k
      PROVE  /\ p[n][1] = q + r[n][1] /\ p[n][2] = q + r[n][2]
             /\ r[n][1] \in Nat /\ r[n][2] \in Nat
             /\ VarRun(r[n][1], r[n][2])
  <2>1. p[n] = <<q + r[n][1], q + r[n][2]>>
    BY Zenon
  <2>2. p[n][1] = q + r[n][1] /\ p[n][2] = q + r[n][2]
    BY <2>1
  <2>3. /\ r[n][1] \in Nat /\ r[n][2] \in Nat
        /\ VarRun(r[n][1], r[n][2])
    BY <1>1, <1>2, RunPlaces, Zenon DEF VarRuns, VarRun
  <2> QED
    BY <2>2, <2>3, Zenon
<1> HIDE DEF p
<1>5. ASSUME NEW n \in 1 .. k
      PROVE  /\ p[n][1] \in 1 .. Len(url) /\ p[n][2] \in 1 .. Len(url)
             /\ U!IsParam(p[n][1], p[n][2])
             /\ UrlVars[n] = SubSeq(url, p[n][1], p[n][2])
  <2>1. PICK a, b : a = r[n][1] /\ b = r[n][2]
    BY Zenon
  <2>2. p[n][1] = q + a /\ p[n][2] = q + b /\ VarRun(a, b)
    BY <1>4, <2>1, Zenon
  <2>3. n \in 1 .. Len(UrlVars)
    BY <1>2, Zenon
  <2>4. UrlVars[n] = SubSeq(UrlQuery, a, b)
    BY <1>1, <2>1, <2>3, Zenon DEF VarRuns, Spells
  <2>5. /\ q + a \in 1 .. Len(url) /\ q + b \in 1 .. Len(url)
        /\ U!IsParam(q + a, q + b)
        /\ SamePart(UrlQuery, a, b, url, q + a, q + b)
    BY <1>2, <2>2, VarStands, Zenon
  <2>6. SubSeq(UrlQuery, a, b) = SubSeq(url, q + a, q + b)
    BY <2>5, Zenon DEF SamePart
  <2>7. p[n][1] = q + a /\ p[n][2] = q + b
    BY <2>2, Zenon
  <2> QED
    BY <2>4, <2>5, <2>6, <2>7
<1>6. ASSUME NEW i \in 1 .. Len(url), NEW j \in 1 .. Len(url), U!IsParam(i, j)
      PROVE  \E n \in 1 .. k : p[n][1] = i /\ p[n][2] = j
  <2>1. q < i /\ i <= j
    BY <1>2, <1>6, Zenon DEF U!IsParam
  <2>2. Len(url) \in Nat /\ Len(UrlQuery) = Len(url) - q
    BY <1>2, QueryIs, Zenon
  <2>3. PICK a, b : a = i - q /\ b = j - q
    BY Zenon
  <2>4. /\ a \in 1 .. Len(UrlQuery) /\ b \in 1 .. Len(UrlQuery)
        /\ q + a = i /\ q + b = j
    BY <1>3, <2>1, <2>2, <2>3
  <2>5. U!IsParam(q + a, q + b)
    BY <1>6, <2>4
  <2>6. VarRun(a, b)
    BY <1>2, <2>4, <2>5, ParamIsRun, Zenon DEF VarRun
  <2>7. PICK n \in 1 .. k : r[n] = <<a, b>>
    BY <1>1, <1>2, <2>6, Zenon DEF VarRuns, VarRun, RunList
  <2>8. r[n][1] = a /\ r[n][2] = b
    BY <2>7
  <2> QED
    BY <1>4, <2>4, <2>8
<1>7. ASSUME NEW m \in 1 .. k, NEW n \in 1 .. k, m < n
      PROVE  p[m][2] < p[n][1]
  <2>1. PICK a, b, c, d : a = r[m][1] /\ b = r[m][2] /\ c = r[n][1] /\ d = r[n][2]
    BY Zenon
  <2>2. /\ p[m][2] = q + b /\ p[n][1] = q + c
        /\ VarRun(a, b) /\ VarRun(c, d)
        /\ a \in Nat /\ b \in Nat /\ c \in Nat
    BY <1>4, <2>1, Zenon
  <2>3. a < c
    BY <1>1, <1>2, <1>7, <2>1, Zenon DEF VarRuns, RunList
  <2>4. a <= c /\ a # c
    BY <2>2, <2>3
  <2>5. UrlQuery \in Seq(UrlChars)
    BY QueryIs, Zenon
  <2>6. ~(c <= b)
    BY <2>2, <2>4, <2>5, RunsApart, Zenon DEF VarRun
  <2> QED
    BY <1>3, <2>2, <2>6
<1>8. ParamList(p)
  BY <1>2, <1>5, <1>6, <1>7, ZenonT(30) DEF ParamList
<1> QED
  BY <1>8, Zenon

(* The pair that is made of a parameter. *)
VarAt(n, i, j) == UrlVars[n] = SubSeq(url, i, j)
IsPair(n, i, e, j) ==
  Pairs(n)[1] = SubSeq(url, i, e - 1) /\ Pairs(n)[2] = SubSeq(url, e + 1, j)

OneSign(i, j, e) ==
  i < e /\ e < j /\ url[e] = "=" /\ \A k \in i .. j : k # e => url[k] # "="

LEMMA PairsAre ==
  ASSUME url \in Seq(UrlChars), NEW n \in 1 .. Len(UrlVars),
         NEW i \in 1 .. Len(url), NEW j \in 1 .. Len(url), i <= j, VarAt(n, i, j)
  PROVE  /\ Len(Pairs(n)) \in Nat
         /\ Len(Pairs(n)) >= 2 <=> U!HasValue(i, j)
         /\ \A e \in 1 .. Len(url) : OneSign(i, j, e) => IsPair(n, i, e, j)
<1>1. PICK w : w = UrlVars[n]
  BY Zenon
<1>2. "=" \in UrlChars /\ Len(url) \in Nat
  BY UrlAssumption, QueryIs
<1>3. /\ w \in Seq(UrlChars) /\ Len(w) = j - i + 1
      /\ \A k \in 1 .. Len(w) : w[k] = url[i + k - 1]
  <2>1. i \in 1 .. Len(url) + 1 /\ j \in i - 1 .. Len(url)
    BY <1>2
  <2>2. w = SubSeq(url, i, j)
    BY <1>1, Zenon DEF VarAt
  <2> QED
    BY <2>1, <2>2, PartIs
<1>4. /\ \A k \in 1 .. Len(w) : i + k - 1 \in i .. j
      /\ \A k \in i .. j : k - i + 1 \in 1 .. Len(w) /\ i + (k - i + 1) - 1 = k
  BY <1>2, <1>3
<1>5. \A k \in i .. j : w[k - i + 1] = url[k]
  BY <1>3, <1>4
<1>6. Len(Pairs(n)) >= 2 <=> Separated(w, "=")
  <2>1. Pairs(n) = Words(w, "=")
    BY <1>1, Zenon DEF Pairs
  <2>2. Len(Words(w, "=")) >= 2 <=> Separated(w, "=")
    BY <1>2, <1>3, TwoWords, Zenon
  <2> QED
    BY <2>1, <2>2
<1>7. ASSUME NEW a \in 1 .. Len(w), NEW b \in 1 .. Len(w), NEW c \in 1 .. Len(w),
             a < b, b < c, w[b] = "=", w[a] # "=", w[c] # "="
      PROVE  U!HasValue(i, j)
  <2>1. i + a - 1 < i + b - 1 /\ i + b - 1 < i + c - 1
    BY <1>2, <1>3, <1>7
  <2>2. /\ i + a - 1 \in i .. j /\ i + b - 1 \in i .. j /\ i + c - 1 \in i .. j
        /\ url[i + a - 1] # "=" /\ url[i + b - 1] = "=" /\ url[i + c - 1] # "="
    BY <1>3, <1>4, <1>7
  <2> QED
    BY <2>1, <2>2, Zenon DEF U!HasValue
<1>8. ASSUME U!HasValue(i, j)
      PROVE  Separated(w, "=")
  <2>1. PICK a, b, c \in i .. j :
          a < b /\ b < c /\ url[b] = "=" /\ url[a] # "=" /\ url[c] # "="
    BY <1>8, Zenon DEF U!HasValue
  <2>2. a - i + 1 < b - i + 1 /\ b - i + 1 < c - i + 1
    BY <1>2, <2>1
  <2> QED
    BY <1>4, <1>5, <2>1, <2>2, ZenonT(30) DEF Separated
<1>9. Len(Pairs(n)) \in Nat
  <2>1. Pairs(n) \in Seq(Seq(UrlChars))
    BY <1>1, <1>2, <1>3, WordsAreList, Zenon DEF Pairs
  <2> QED
    BY <2>1, LenProperties, Zenon
<1>10. ASSUME NEW e \in 1 .. Len(url), i < e, e < j, url[e] = "=",
              \A k \in i .. j : k # e => url[k] # "="
       PROVE  /\ Pairs(n)[1] = SubSeq(url, i, e - 1)
              /\ Pairs(n)[2] = SubSeq(url, e + 1, j)
  <2>1. PICK d : d = e - i + 1
    BY Zenon
  <2>2. /\ d \in 2 .. Len(w) - 1 /\ e \in i .. j
        /\ \A k \in 1 .. Len(w) : k # d => i + k - 1 # e
    BY <1>2, <1>3, <1>10, <2>1
  <2>3. w[d] = "=" /\ \A k \in 1 .. Len(w) : k # d => w[k] # "="
    <3>1. w[d] = "="
      BY <1>5, <1>10, <2>1, <2>2
    <3>2. ASSUME NEW k \in 1 .. Len(w), k # d
          PROVE  w[k] # "="
      <4>1. w[k] = url[i + k - 1]
        BY <1>3, Zenon
      <4>2. i + k - 1 \in i .. j /\ i + k - 1 # e
        BY <1>4, <2>2, <3>2, Zenon
      <4>3. url[i + k - 1] # "="
        BY <1>10, <4>2, Zenon
      <4> QED
        BY <4>1, <4>3
    <3> QED
      BY <3>1, <3>2
  <2>4. /\ Pairs(n)[1] = SubSeq(w, 1, d - 1)
        /\ Pairs(n)[2] = SubSeq(w, d + 1, Len(w))
    BY <1>1, <1>2, <1>3, <2>2, <2>3, PairWords, ZenonT(30) DEF Pairs
  <2>5. ASSUME NEW x \in 1 .. Len(w), NEW y \in 0 .. Len(w)
        PROVE  SamePart(w, x, y, url, i + x - 1, i + y - 1)
    <3>1. /\ x \in Int /\ y \in Int /\ i + x - 1 \in Int /\ i + y - 1 \in Int
          /\ (i + y - 1) - (i + x - 1) = y - x
      BY <1>2
    <3>2. SameSpan(x, y, i + x - 1, i + y - 1)
      BY <3>1, Zenon DEF SameSpan
    <3>3. ASSUME NEW k \in x .. y
          PROVE  w[k] \in UrlChars /\ w[k] = url[k + ((i + x - 1) - x)]
      <4>0. i \in Int /\ x \in Int /\ y \in Int /\ Len(w) \in Int
        BY <1>2, <1>3
      <4>1. k \in 1 .. Len(w) /\ k + ((i + x - 1) - x) = i + k - 1
        BY <4>0
      <4>2. w[k] \in UrlChars
        BY <1>3, <4>1, ElementOfSeq, Zenon
      <4> QED
        BY <1>3, <4>1, <4>2
    <3>4. Alike(UrlChars, w, x, y, url, i + x - 1, i + y - 1)
      BY <3>1, <3>2, <3>3, Zenon DEF Alike
    <3> QED
      BY <3>4, AlikeTexts, Zenon
  <2>6. /\ 1 \in 1 .. Len(w) /\ d - 1 \in 0 .. Len(w)
        /\ i + 1 - 1 = i /\ i + (d - 1) - 1 = e - 1
        /\ d + 1 \in 1 .. Len(w) /\ Len(w) \in 0 .. Len(w)
        /\ i + (d + 1) - 1 = e + 1 /\ i + Len(w) - 1 = j
    BY <1>2, <1>3, <2>1, <2>2
  <2>7. /\ SubSeq(w, 1, d - 1) = SubSeq(url, i + 1 - 1, i + (d - 1) - 1)
        /\ SubSeq(w, d + 1, Len(w)) = SubSeq(url, i + (d + 1) - 1, i + Len(w) - 1)
    BY <2>5, <2>6, Zenon DEF SamePart
  <2> QED
    BY <2>4, <2>6, <2>7
<1> QED
  BY <1>6, <1>7, <1>8, <1>9, <1>10, Zenon DEF Separated, OneSign, IsPair

(* What has been read of the first k parameters: each had a name and a     *)
(* value, and the map has the value of the last of each name.              *)
NoneLater(n, k) == \A m \in n + 1 .. k : Pairs(m)[1] # Pairs(n)[1]

ReadTo(k) ==
  /\ \A n \in 1 .. k : Len(Pairs(n)) >= 2 /\ Pairs(n)[1] \in DOMAIN ret
  /\ \A n \in 1 .. k : NoneLater(n, k) => ret[Pairs(n)[1]] = Pairs(n)[2]

LeftFrom(k) ==
  /\ vars_left \in Seq(Seq(UrlChars)) /\ k + Len(vars_left) = Len(UrlVars)
  /\ \A i \in 1 .. Len(vars_left) : vars_left[i] = UrlVars[k + i]

Undefined(k) == Len(Pairs(k)) < 2

UrlInv ==
  /\ url_at # "idle" => url \in Seq(UrlChars)
  /\ url_at \in {"idle", "url", "loop", "done", "undefined"}
  /\ url_at = "loop" =>
       U!QueryAt # 0 /\ \E k \in 0 .. Len(UrlVars) : ReadTo(k) /\ LeftFrom(k)
  /\ url_at = "done" =>
       U!QueryAt = 0 \/ \E k \in 0 .. Len(UrlVars) : k = Len(UrlVars) /\ ReadTo(k)
  /\ url_at = "undefined" => U!QueryAt # 0 /\ \E k \in 1 .. Len(UrlVars) : Undefined(k)

LEMMA UrlInitially == U!Init \/ NoUrl => UrlInv
<1> SUFFICES ASSUME U!Init \/ NoUrl PROVE UrlInv
  OBVIOUS
<1>1. CASE U!Init
  <2>1. url \in U!BoundedSeq(UrlChars, MaxUrl) /\ url_at = "url"
    BY <1>1, Zenon DEF U!Init
  <2>2. url \in Seq(UrlChars)
    BY <2>1 DEF U!BoundedSeq, U!SeqOf
  <2> QED
    BY <2>1, <2>2 DEF UrlInv
<1>2. CASE NoUrl
  BY <1>2 DEF NoUrl, UrlInv
<1> QED
  BY <1>1, <1>2

LEMMA UrlStays ==
  ASSUME url' = url
  PROVE  /\ UrlVars' = UrlVars /\ U!QueryAt' = U!QueryAt
         /\ \A n : Pairs(n)' = Pairs(n)
<1>1. U!QueryAt' = U!QueryAt
  BY DEF U!QueryAt, U!SelectInSeq, U!Min
<1>2. UrlQuery' = UrlQuery
  BY <1>1, Zenon DEF UrlQuery
<1>3. UrlVars' = UrlVars
  BY <1>2, Zenon DEF UrlVars
<1>4. \A n : Pairs(n)' = Pairs(n)
  BY <1>3, Zenon DEF Pairs
<1> QED
  BY <1>1, <1>3, <1>4, Zenon

(* The step that reads the next parameter. *)
LEMMA NextPair ==
  ASSUME NEW k \in 0 .. Len(UrlVars), Len(UrlVars) \in Nat, url' = url,
         ReadTo(k), LeftFrom(k), vars_left # <<>>, Len(Pairs(k + 1)) >= 2,
         ret' = [n \in DOMAIN ret \cup {Pairs(k + 1)[1]} |->
                   IF n = Pairs(k + 1)[1] THEN Pairs(k + 1)[2] ELSE ret[n]],
         vars_left' = Tail(vars_left)
  PROVE  k + 1 \in 0 .. Len(UrlVars') /\ ReadTo(k + 1)' /\ LeftFrom(k + 1)'
<1>0. UrlVars' = UrlVars /\ \A n : Pairs(n)' = Pairs(n)
  BY UrlStays, Zenon
<1>1. /\ vars_left \in Seq(Seq(UrlChars)) /\ k + Len(vars_left) = Len(UrlVars)
      /\ \A i \in 1 .. Len(vars_left) : vars_left[i] = UrlVars[k + i]
  BY Zenon DEF LeftFrom
<1>2. /\ vars_left' \in Seq(Seq(UrlChars)) /\ Len(vars_left') = Len(vars_left) - 1
      /\ \A i \in 1 .. Len(vars_left') : vars_left'[i] = vars_left[i + 1]
      /\ Len(vars_left) >= 1
  BY <1>1
<1>3. k \in Nat /\ k + 1 <= Len(UrlVars)
  BY <1>1, <1>2
<1>4. LeftFrom(k + 1)'
  <2>1. k + 1 + Len(vars_left') = Len(UrlVars)
    BY <1>1, <1>2, <1>3
  <2>2. ASSUME NEW i \in 1 .. Len(vars_left')
        PROVE  vars_left'[i] = UrlVars[(k + 1) + i]
    <3>1. i + 1 \in 1 .. Len(vars_left) /\ k + (i + 1) = (k + 1) + i
      BY <1>1, <1>2, <1>3
    <3>2. vars_left'[i] = vars_left[i + 1]
      BY <1>2, Zenon
    <3>3. vars_left[i + 1] = UrlVars[k + (i + 1)]
      BY <1>1, <3>1, Zenon
    <3> QED
      BY <3>1, <3>2, <3>3
  <2> QED
    BY <1>0, <1>2, <2>1, <2>2 DEF LeftFrom
<1>5. /\ DOMAIN ret' = DOMAIN ret \cup {Pairs(k + 1)[1]}
      /\ \A n \in DOMAIN ret' :
           ret'[n] = IF n = Pairs(k + 1)[1] THEN Pairs(k + 1)[2] ELSE ret[n]
  OBVIOUS
<1>6. \A n \in 1 .. k + 1 : n \in 1 .. k \/ n = k + 1
  BY <1>3
<1>7. /\ \A n \in 1 .. k : Len(Pairs(n)) >= 2 /\ Pairs(n)[1] \in DOMAIN ret
      /\ \A n \in 1 .. k : NoneLater(n, k) => ret[Pairs(n)[1]] = Pairs(n)[2]
  BY Zenon DEF ReadTo
<1>8. \A n \in 1 .. k + 1 : Len(Pairs(n)) >= 2 /\ Pairs(n)[1] \in DOMAIN ret'
  BY <1>5, <1>6, <1>7, Zenon
<1>9. ASSUME NEW n \in 1 .. k + 1, NoneLater(n, k + 1)
      PROVE  ret'[Pairs(n)[1]] = Pairs(n)[2]
  <2>1. CASE n = k + 1
    BY <1>5, <1>8, <2>1, Zenon
  <2>2. CASE n \in 1 .. k
    <3>1. k + 1 \in n + 1 .. k + 1 /\ \A m \in n + 1 .. k : m \in n + 1 .. k + 1
      BY <1>3, <2>2
    <3>2. NoneLater(n, k) /\ Pairs(n)[1] # Pairs(k + 1)[1]
      BY <1>9, <3>1, Zenon DEF NoneLater
    <3>3. ret[Pairs(n)[1]] = Pairs(n)[2] /\ Pairs(n)[1] \in DOMAIN ret'
      BY <1>7, <1>8, <2>2, <3>2, Zenon
    <3>4. ret'[Pairs(n)[1]] = ret[Pairs(n)[1]]
      BY <1>5, <3>2, <3>3, Zenon
    <3> QED
      BY <3>3, <3>4
  <2> QED
    BY <1>6, <2>1, <2>2, Zenon
<1>10. ReadTo(k + 1)'
  <2>1. \A n : NoneLater(n, k + 1)' <=> NoneLater(n, k + 1)
    BY <1>0, Zenon DEF NoneLater
  <2>2. \A n \in 1 .. k + 1 : NoneLater(n, k + 1)' => ret'[Pairs(n)'[1]] = Pairs(n)'[2]
    BY <1>0, <1>9, <2>1, Zenon
  <2>3. \A n \in 1 .. k + 1 : Len(Pairs(n)') >= 2 /\ Pairs(n)'[1] \in DOMAIN ret'
    BY <1>0, <1>8, Zenon
  <2> QED
    BY <2>2, <2>3, Zenon DEF ReadTo
<1> QED
  BY <1>0, <1>3, <1>4, <1>10

LEMMA KeyPairsAre ==
  ASSUME NEW k, LeftFrom(k), k \in 0 .. Len(UrlVars), Len(UrlVars) \in Nat, vars_left # <<>>
  PROVE  U!KeyPairs = Pairs(k + 1) /\ k + 1 \in 1 .. Len(UrlVars)
<1>1. /\ vars_left \in Seq(Seq(UrlChars)) /\ k + Len(vars_left) = Len(UrlVars)
      /\ \A i \in 1 .. Len(vars_left) : vars_left[i] = UrlVars[k + i]
  BY Zenon DEF LeftFrom
<1>2. Len(vars_left) \in Nat /\ 1 \in 1 .. Len(vars_left)
  BY <1>1
<1>3. vars_left[1] = UrlVars[k + 1]
  BY <1>1, <1>2, Zenon
<1>4. U!KeyPairs = Pairs(k + 1)
  BY <1>3, UrlWords, Zenon DEF U!KeyPairs, Pairs
<1>5. k + 1 \in 1 .. Len(UrlVars)
  BY <1>1, <1>2
<1> QED
  BY <1>4, <1>5, Zenon

LEMMA SplitKeeps == UrlInv /\ U!Split => UrlInv'
<1> SUFFICES ASSUME UrlInv, U!Split PROVE UrlInv'
  OBVIOUS
<1>1. /\ url_at = "url" /\ url_at' = "loop" /\ url' = url /\ U!QueryAt # 0
      /\ vars_left' = U!Words(SubSeq(url, U!QueryAt + 1, Len(url)), ";")
  BY Zenon DEF U!Split
<1>2. url \in Seq(UrlChars)
  BY <1>1 DEF UrlInv
<1>3. vars_left' = UrlVars
  BY <1>1, UrlWords, Zenon DEF UrlVars, UrlQuery
<1>4. /\ UrlVars' = UrlVars /\ U!QueryAt' = U!QueryAt
      /\ \A n : Pairs(n)' = Pairs(n)
  BY <1>1, UrlStays, Zenon
<1>5. UrlVars \in Seq(Seq(UrlChars)) /\ Len(UrlVars) \in Nat
  BY <1>2, VarsAre, Zenon
<1>6. 1 .. 0 = {} /\ 0 \in 0 .. Len(UrlVars) /\ 0 + Len(UrlVars) = Len(UrlVars)
      /\ \A i \in 1 .. Len(UrlVars) : 0 + i = i
  BY <1>5
<1>7. ReadTo(0)'
  BY <1>6, Zenon DEF ReadTo
<1>8. LeftFrom(0)'
  BY <1>3, <1>4, <1>5, <1>6 DEF LeftFrom
<1>9. \E k \in 0 .. Len(UrlVars') : ReadTo(k)' /\ LeftFrom(k)'
  BY <1>4, <1>6, <1>7, <1>8, Zenon
<1> QED
  BY <1>1, <1>2, <1>4, <1>9 DEF UrlInv

LEMMA PairKeeps == UrlInv /\ U!Pair => UrlInv'
<1> SUFFICES ASSUME UrlInv, U!Pair PROVE UrlInv'
  OBVIOUS
<1>1. /\ url_at = "loop" /\ url_at' = url_at /\ url' = url
      /\ vars_left # <<>> /\ vars_left' = Tail(vars_left)
      /\ Len(U!KeyPairs) >= 2
      /\ ret' = [n \in DOMAIN ret \cup {U!KeyPairs[1]} |->
                   IF n = U!KeyPairs[1] THEN U!KeyPairs[2] ELSE ret[n]]
  BY Zenon DEF U!Pair
<1>2. url \in Seq(UrlChars) /\ U!QueryAt # 0
  BY <1>1 DEF UrlInv
<1>3. PICK k \in 0 .. Len(UrlVars) : ReadTo(k) /\ LeftFrom(k)
  BY <1>1, Zenon DEF UrlInv
<1>4. Len(UrlVars) \in Nat
  BY <1>2, VarsAre, Zenon
<1>5. U!KeyPairs = Pairs(k + 1)
  BY <1>1, <1>3, <1>4, KeyPairsAre, Zenon
<1>6. /\ Len(Pairs(k + 1)) >= 2
      /\ ret' = [n \in DOMAIN ret \cup {Pairs(k + 1)[1]} |->
                   IF n = Pairs(k + 1)[1] THEN Pairs(k + 1)[2] ELSE ret[n]]
  BY <1>1, <1>5
<1>7. \E j \in 0 .. Len(UrlVars') : ReadTo(j)' /\ LeftFrom(j)'
  BY <1>1, <1>3, <1>4, <1>6, NextPair, Zenon
<1>8. U!QueryAt' = U!QueryAt
  BY <1>1, UrlStays, Zenon
<1> QED
  BY <1>1, <1>2, <1>7, <1>8 DEF UrlInv

LEMMA LoopEnds == UrlInv /\ (U!NoPair \/ U!Finish) => UrlInv'
<1> SUFFICES ASSUME UrlInv, U!NoPair \/ U!Finish PROVE UrlInv'
  OBVIOUS
<1>1. /\ url_at = "loop" /\ url' = url /\ ret' = ret
      /\ \/ vars_left # <<>> /\ Len(U!KeyPairs) < 2 /\ url_at' = "undefined"
         \/ vars_left = <<>> /\ url_at' = "done"
  BY Zenon DEF U!NoPair, U!Finish
<1>2. url \in Seq(UrlChars) /\ U!QueryAt # 0
  BY <1>1 DEF UrlInv
<1>3. PICK k \in 0 .. Len(UrlVars) : ReadTo(k) /\ LeftFrom(k)
  BY <1>1, Zenon DEF UrlInv
<1>4. Len(UrlVars) \in Nat
  BY <1>2, VarsAre, Zenon
<1>5. /\ UrlVars' = UrlVars /\ U!QueryAt' = U!QueryAt
      /\ \A n : Pairs(n)' = Pairs(n)
  BY <1>1, UrlStays, Zenon
<1>6. CASE vars_left # <<>> /\ Len(U!KeyPairs) < 2 /\ url_at' = "undefined"
  <2>1. U!KeyPairs = Pairs(k + 1) /\ k + 1 \in 1 .. Len(UrlVars)
    BY <1>3, <1>4, <1>6, KeyPairsAre, Zenon
  <2>2. Undefined(k + 1)
    BY <1>6, <2>1 DEF Undefined
  <2>3. \E j \in 1 .. Len(UrlVars') : Undefined(j)'
    BY <1>5, <2>1, <2>2, Zenon DEF Undefined
  <2> QED
    BY <1>1, <1>2, <1>5, <1>6, <2>3 DEF UrlInv
<1>7. CASE vars_left = <<>> /\ url_at' = "done"
  <2>1. k + Len(vars_left) = Len(UrlVars) /\ k \in Nat
    BY <1>3, <1>4 DEF LeftFrom
  <2>2. k = Len(UrlVars)
    BY <1>7, <2>1
  <2>3. ReadTo(k)'
    BY <1>1, <1>3, <1>5, Zenon DEF ReadTo, NoneLater
  <2>4. \E j \in 0 .. Len(UrlVars') : j = Len(UrlVars') /\ ReadTo(j)'
    BY <1>5, <2>2, <2>3, Zenon
  <2> QED
    BY <1>1, <1>2, <1>7, <2>4 DEF UrlInv
<1> QED
  BY <1>1, <1>6, <1>7, Zenon

LEMMA UrlUnchanged == UrlInv /\ UNCHANGED splitting => UrlInv'
<1> SUFFICES ASSUME UrlInv, UNCHANGED splitting PROVE UrlInv'
  OBVIOUS
<1>1. url' = url /\ vars_left' = vars_left /\ ret' = ret /\ url_at' = url_at
  BY DEF splitting
<1>2. /\ UrlVars' = UrlVars /\ U!QueryAt' = U!QueryAt
      /\ \A n : Pairs(n)' = Pairs(n)
  BY <1>1, UrlStays, Zenon
<1>3. \A k : /\ ReadTo(k) => ReadTo(k)'
             /\ LeftFrom(k) => LeftFrom(k)'
             /\ Undefined(k) => Undefined(k)'
  BY <1>1, <1>2, Zenon DEF ReadTo, LeftFrom, Undefined, NoneLater
<1> QED
  BY <1>1, <1>2, <1>3, Zenon DEF UrlInv

LEMMA UrlKeeps == UrlInv /\ (U!Next \/ UNCHANGED splitting) => UrlInv'
<1>1. UrlInv /\ U!NoQuery => UrlInv'
  <2> SUFFICES ASSUME UrlInv, U!NoQuery PROVE UrlInv'
    OBVIOUS
  <2>1. url_at = "url" /\ url_at' = "done" /\ url' = url /\ U!QueryAt = 0
    BY Zenon DEF U!NoQuery
  <2>2. url \in Seq(UrlChars)
    BY <2>1 DEF UrlInv
  <2>3. U!QueryAt' = 0
    BY <2>1, UrlStays, Zenon
  <2> QED
    BY <2>1, <2>2, <2>3 DEF UrlInv
<1> QED
  BY <1>1, SplitKeeps, PairKeeps, LoopEnds, UrlUnchanged, Zenon DEF U!Next

LEMMA UndefinedHolds == UrlInv => U!UndefinedWithoutValue
<1> SUFFICES ASSUME UrlInv, url_at \in {"done", "undefined"}
             PROVE  url_at = "undefined" <=>
                      \E i, j \in DOMAIN url : U!IsParam(i, j) /\ ~U!HasValue(i, j)
  BY Zenon DEF U!UndefinedWithoutValue
<1>1. url \in Seq(UrlChars)
  BY DEF UrlInv
<1>2. DOMAIN url = 1 .. Len(url) /\ Len(UrlVars) \in Nat
  BY <1>1, QueryIs, VarsAre, Zenon
<1>3. CASE url_at = "done" /\ U!QueryAt = 0
  <2>1. \A i, j : ~U!IsParam(i, j)
    BY <1>3, Zenon DEF U!IsParam
  <2>2. url_at # "undefined"
    BY <1>3
  <2> QED
    BY <2>1, <2>2, Zenon
<1>4. CASE U!QueryAt # 0
  <2>1. PICK p : ParamList(p)
    BY <1>1, <1>4, ParamsListed, Zenon
  <2>2. ASSUME NEW n \in 1 .. Len(UrlVars)
        PROVE  /\ p[n][1] \in 1 .. Len(url) /\ p[n][2] \in 1 .. Len(url)
               /\ U!IsParam(p[n][1], p[n][2])
               /\ Undefined(n) <=> ~U!HasValue(p[n][1], p[n][2])
    <3>1. PICK i, j : i = p[n][1] /\ j = p[n][2]
      BY Zenon
    <3>2. /\ i \in 1 .. Len(url) /\ j \in 1 .. Len(url)
          /\ U!IsParam(i, j)
          /\ VarAt(n, i, j)
      BY <2>1, <3>1, Zenon DEF ParamList, VarAt
    <3>3. i <= j
      BY <3>2, Zenon DEF U!IsParam
    <3>4. Len(Pairs(n)) \in Nat /\ (Len(Pairs(n)) >= 2 <=> U!HasValue(i, j))
      BY <1>1, <3>2, <3>3, PairsAre, Zenon
    <3>5. Undefined(n) <=> ~(Len(Pairs(n)) >= 2)
      BY <3>4 DEF Undefined
    <3> QED
      BY <3>1, <3>2, <3>4, <3>5, Zenon
  <2>3. (\E n \in 1 .. Len(UrlVars) : Undefined(n)) <=>
          \E i, j \in DOMAIN url : U!IsParam(i, j) /\ ~U!HasValue(i, j)
    <3>1. ASSUME NEW i \in DOMAIN url, NEW j \in DOMAIN url, U!IsParam(i, j), ~U!HasValue(i, j)
          PROVE  \E n \in 1 .. Len(UrlVars) : Undefined(n)
      <4>1. i \in 1 .. Len(url) /\ j \in 1 .. Len(url)
        BY <1>2
      <4>2. PICK n \in 1 .. Len(UrlVars) : p[n][1] = i /\ p[n][2] = j
        BY <2>1, <3>1, <4>1, Zenon DEF ParamList
      <4> QED
        BY <2>2, <3>1, <4>2, Zenon
    <3> QED
      BY <1>2, <2>2, <3>1, Zenon
  <2>4. url_at = "undefined" => \E n \in 1 .. Len(UrlVars) : Undefined(n)
    BY Zenon DEF UrlInv
  <2>5. url_at = "done" => \A n \in 1 .. Len(UrlVars) : ~Undefined(n)
    <3> SUFFICES ASSUME url_at = "done", NEW n \in 1 .. Len(UrlVars) PROVE ~Undefined(n)
      OBVIOUS
    <3>1. ReadTo(Len(UrlVars))
      BY <1>4, Zenon DEF UrlInv
    <3>2. Len(Pairs(n)) >= 2 /\ Len(Pairs(n)) \in Nat
      <4>1. Len(Pairs(n)) >= 2
        BY <3>1, Zenon DEF ReadTo
      <4>2. Pairs(n) \in Seq(Seq(UrlChars))
        <5>1. UrlVars[n] \in Seq(UrlChars)
          BY <1>1, VarsAre, Zenon
        <5>2. "=" \in UrlChars
          BY UrlAssumption
        <5> QED
          BY <5>1, <5>2, WordsAreList, Zenon DEF Pairs
      <4> QED
        BY <4>1, <4>2, LenProperties, Zenon
    <3> QED
      BY <3>2 DEF Undefined
  <2> QED
    BY <2>3, <2>4, <2>5, Zenon
<1> QED
  BY <1>3, <1>4, Zenon DEF UrlInv

(* A value is found under a name, that of the parameter that ends at j or  *)
(* of a later one.                                                         *)
FoundUnder(name, value, j) ==
  /\ name \in DOMAIN ret
  /\ \/ ret[name] = value
     \/ \E l, m \in DOMAIN url :
          /\ j < l /\ U!IsParam(l, m)
          /\ U!Words(SubSeq(url, l, m), "=")[1] = name

LEMMA LastValueHolds == UrlInv => U!LastValueFound
<1> SUFFICES ASSUME UrlInv, url_at = "done",
                    NEW i \in DOMAIN url, NEW j \in DOMAIN url, NEW e \in DOMAIN url,
                    U!IsParam(i, j), OneSign(i, j, e)
             PROVE  FoundUnder(SubSeq(url, i, e - 1), SubSeq(url, e + 1, j), j)
  BY Zenon DEF U!LastValueFound, OneSign, FoundUnder
<1>0. PICK name, value : name = SubSeq(url, i, e - 1) /\ value = SubSeq(url, e + 1, j)
  BY Zenon
<1>1. url \in Seq(UrlChars)
  BY DEF UrlInv
<1>2. /\ DOMAIN url = 1 .. Len(url) /\ Len(UrlVars) \in Nat
      /\ i \in 1 .. Len(url) /\ j \in 1 .. Len(url) /\ e \in 1 .. Len(url)
  <2>1. DOMAIN url = 1 .. Len(url) /\ Len(UrlVars) \in Nat
    BY <1>1, QueryIs, VarsAre, Zenon
  <2> QED
    BY <2>1
<1>3. U!QueryAt # 0 /\ i <= j
  BY Zenon DEF U!IsParam
<1>4. PICK p : ParamList(p)
  BY <1>1, <1>3, ParamsListed, Zenon
<1>5. PICK last : last = Len(UrlVars)
  BY Zenon
<1>6. ReadTo(last)
  BY <1>3, <1>5, Zenon DEF UrlInv
<1>7. PICK n \in 1 .. last : p[n][1] = i /\ p[n][2] = j
  BY <1>2, <1>4, <1>5, Zenon DEF ParamList
<1>8. VarAt(n, i, j)
  <2>1. UrlVars[n] = SubSeq(url, p[n][1], p[n][2])
    BY <1>4, <1>5, Zenon DEF ParamList
  <2> QED
    BY <1>7, <2>1 DEF VarAt
<1>9. Pairs(n)[1] = name /\ Pairs(n)[2] = value
  <2>1. n \in 1 .. Len(UrlVars)
    BY <1>5, Zenon
  <2>2. IsPair(n, i, e, j)
    BY <1>1, <1>2, <1>3, <1>8, <2>1, PairsAre, Zenon
  <2> QED
    BY <1>0, <2>2 DEF IsPair
<1>10. name \in DOMAIN ret
  BY <1>6, <1>7, <1>9, Zenon DEF ReadTo
<1> DEFINE T == {m \in 1 .. last : Pairs(m)[1] = name}
<1>11. PICK m \in T : \A k \in T : k <= m
  <2>1. T \in SUBSET Int /\ last \in Int /\ \A k \in T : k <= last
    BY <1>2, <1>5
  <2>2. n \in T
    BY <1>7, <1>9, Zenon
  <2> HIDE DEF T
  <2> QED
    BY <2>1, <2>2, GreatestInt, Zenon
<1>12. m \in 1 .. last /\ Pairs(m)[1] = name
  BY <1>11, Zenon
<1>13. n \in T
  BY <1>7, <1>9, Zenon
<1>14. NoneLater(m, last)
  <2>1. \A k \in m + 1 .. last : k \in 1 .. last /\ ~(k <= m)
    BY <1>2, <1>5, <1>12
  <2>2. \A k \in m + 1 .. last : k \notin T
    BY <1>11, <2>1, Zenon
  <2>3. \A k \in m + 1 .. last : Pairs(k)[1] # name
    BY <2>1, <2>2, Zenon
  <2>4. ASSUME NEW k \in m + 1 .. last
        PROVE  Pairs(k)[1] # Pairs(m)[1]
    <3>1. Pairs(k)[1] # name
      BY <2>3, Zenon
    <3> QED
      BY <1>12, <3>1
  <2> QED
    BY <2>4, Zenon DEF NoneLater
<1>15. ret[Pairs(m)[1]] = Pairs(m)[2]
  BY <1>6, <1>12, <1>14, Zenon DEF ReadTo
<1>16. ASSUME m = n
       PROVE  FoundUnder(name, value, j)
  <2>1. ret[name] = value
    BY <1>9, <1>15, <1>16
  <2> QED
    BY <1>10, <2>1, Zenon DEF FoundUnder
<1>17. ASSUME m # n
       PROVE  FoundUnder(name, value, j)
  <2>1. n < m
    <3>1. n <= m
      BY <1>11, <1>13, Zenon
    <3> QED
      BY <1>2, <1>5, <1>12, <1>17, <3>1
  <2>2. PICK l, h : l = p[m][1] /\ h = p[m][2]
    BY Zenon
  <2>3. /\ l \in 1 .. Len(url) /\ h \in 1 .. Len(url)
        /\ U!IsParam(l, h)
        /\ UrlVars[m] = SubSeq(url, l, h)
    BY <1>4, <1>5, <1>12, <2>2, Zenon DEF ParamList
  <2>4. p[n][2] < p[m][1]
    BY <1>4, <1>5, <1>7, <1>12, <2>1, Zenon DEF ParamList
  <2>5. j < l
    BY <1>7, <2>2, <2>4
  <2>6. U!Words(SubSeq(url, l, h), "=") = Pairs(m)
    BY <2>3, UrlWords, Zenon DEF Pairs
  <2>7. U!Words(SubSeq(url, l, h), "=")[1] = name
    BY <1>12, <2>6
  <2>8. l \in DOMAIN url /\ h \in DOMAIN url
    BY <1>2, <2>3
  <2> QED
    BY <1>10, <2>3, <2>5, <2>7, <2>8, Zenon DEF FoundUnder
<1> QED
  BY <1>0, <1>16, <1>17, Zenon

-----------------------------------------------------------------------------
(* What is read of the headers *)

(* What EraseLeading and EraseTrailing leave of a text. *)
LEMMA LeadingIs ==
  ASSUME NEW C, NEW s \in Seq(C), NEW S
  PROVE  \E a \in 1 .. Len(s) + 1 :
           /\ P!EraseLeading(s, S) = SubSeq(s, a, Len(s))
           /\ a = Len(s) + 1 \/ s[a] \notin S
           /\ \A i \in 1 .. a - 1 : s[i] \in S
<1> DEFINE I == {i \in 1 .. Len(s) : s[i] \notin S}
<1>1. Len(s) \in Nat /\ I \in SUBSET (1 .. Len(s))
  OBVIOUS
<1>2. PICK n : n = Least(I)
  BY Zenon
<1>3. (I = {} /\ n = 0) \/ (n \in I /\ \A y \in I : n <= y)
  BY <1>1, <1>2, LeastIs
<1>4. PICK a : a = P!FirstNotOf(s, S)
  BY Zenon
<1>5. a = IF n = 0 THEN Len(s) + 1 ELSE n
  <2>1. P!FirstNotOf(s, S) = IF Least(I) = 0 THEN Len(s) + 1 ELSE Least(I)
    BY Zenon DEF P!FirstNotOf, P!SelectInSeq, P!Min, Least
  <2> HIDE DEF I
  <2> QED
    BY <1>2, <1>4, <2>1
<1>6. /\ a \in 1 .. Len(s) + 1
      /\ a = Len(s) + 1 \/ a \in I
      /\ \A i \in 1 .. a - 1 : i \in 1 .. Len(s) /\ i \notin I
  <2>1. CASE I = {} /\ n = 0
    BY <1>1, <1>5, <2>1
  <2>2. CASE n \in I /\ \A y \in I : n <= y
    <3>1. n \in 1 .. Len(s) /\ a = n
      BY <1>1, <1>5, <2>2
    <3>2. \A i \in 1 .. a - 1 : i \in 1 .. Len(s) /\ ~(n <= i)
      BY <1>1, <3>1
    <3>3. \A i \in 1 .. a - 1 : i \in 1 .. Len(s) /\ i \notin I
      BY <2>2, <3>2, Zenon
    <3>4. a \in 1 .. Len(s) + 1
      BY <1>1, <3>1
    <3> QED
      BY <2>2, <3>1, <3>3, <3>4, Zenon
  <2> QED
    BY <1>3, <2>1, <2>2, Zenon
<1>7. P!EraseLeading(s, S) = SubSeq(s, a, Len(s))
  BY <1>4, Zenon DEF P!EraseLeading
<1> QED
  BY <1>6, <1>7, Zenon

LEMMA TrailingIs ==
  ASSUME NEW C, NEW s \in Seq(C), NEW S
  PROVE  \E b \in 0 .. Len(s) :
           /\ P!EraseTrailing(s, S) = SubSeq(s, 1, b)
           /\ b = 0 \/ s[b] \notin S
           /\ \A i \in b + 1 .. Len(s) : s[i] \in S
<1> DEFINE I == {i \in 1 .. Len(s) : s[i] \notin S}
<1>1. Len(s) \in Nat /\ I \in SUBSET (1 .. Len(s))
  OBVIOUS
<1>2. PICK b : b = Greatest(I)
  BY Zenon
<1>3. (I = {} /\ b = 0) \/ (b \in I /\ \A y \in I : b >= y)
  BY <1>1, <1>2, GreatestIs
<1>4. b = P!LastNotOf(s, S)
  BY <1>2, Zenon DEF P!LastNotOf, P!SelectLastInSeq, P!Max, Greatest
<1>5. /\ b \in 0 .. Len(s)
      /\ b = 0 \/ b \in I
      /\ \A i \in b + 1 .. Len(s) : i \in 1 .. Len(s) /\ i \notin I
  <2>1. CASE I = {} /\ b = 0
    BY <1>1, <2>1
  <2>2. CASE b \in I /\ \A y \in I : b >= y
    <3>1. b \in 1 .. Len(s)
      BY <1>1, <2>2
    <3>2. b \in 0 .. Len(s) /\ \A i \in b + 1 .. Len(s) : i \in 1 .. Len(s) /\ ~(b >= i)
      BY <1>1, <3>1
    <3>3. \A i \in b + 1 .. Len(s) : i \in 1 .. Len(s) /\ i \notin I
      BY <2>2, <3>2, Zenon
    <3> QED
      BY <2>2, <3>2, <3>3, Zenon
  <2> QED
    BY <1>3, <2>1, <2>2, Zenon
<1>6. P!EraseTrailing(s, S) = SubSeq(s, 1, b)
  BY <1>4, Zenon DEF P!EraseTrailing
<1> QED
  BY <1>5, <1>6, Zenon

LEMMA LeadingErased ==
  ASSUME NEW C, NEW s \in Seq(C), NEW S, NEW t, t = P!EraseLeading(s, S)
  PROVE  /\ TakenOf(C, t, s)
         /\ t # <<>> => t[1] \notin S
         /\ s = <<>> \/ s[1] \notin S => t = s
<1>1. PICK a \in 1 .. Len(s) + 1 :
        /\ t = SubSeq(s, a, Len(s))
        /\ a = Len(s) + 1 \/ s[a] \notin S
        /\ \A i \in 1 .. a - 1 : s[i] \in S
  BY LeadingIs
<1>2. Len(s) \in Nat /\ Len(s) \in a - 1 .. Len(s)
  BY <1>1
<1>3. TakenOf(C, t, s)
  BY <1>1, <1>2, PartTaken
<1>4. /\ Len(t) = Len(s) - a + 1
      /\ \A i \in 1 .. Len(t) : t[i] = s[a + i - 1]
  BY <1>1, <1>2, PartIs
<1>5. t # <<>> => t[1] \notin S
  <2> SUFFICES ASSUME t # <<>> PROVE t[1] \notin S
    OBVIOUS
  <2>1. Len(t) # 0
    BY <1>3, EmptySeq DEF TakenOf
  <2>2. 1 \in 1 .. Len(t) /\ a # Len(s) + 1 /\ a + 1 - 1 = a
    BY <1>1, <1>2, <1>4, <2>1
  <2> QED
    BY <1>1, <1>4, <2>2
<1>6. s = <<>> \/ s[1] \notin S => t = s
  <2> SUFFICES ASSUME s = <<>> \/ s[1] \notin S PROVE t = s
    OBVIOUS
  <2>1. a = 1
    <3>1. CASE s = <<>>
      BY <1>1, <1>2, <3>1
    <3>2. CASE s[1] \notin S
      BY <1>1, <1>2, <3>2
    <3> QED
      BY <3>1, <3>2
  <2> QED
    BY <1>1, <2>1
<1> QED
  BY <1>3, <1>5, <1>6, Zenon

LEMMA TrailingErased ==
  ASSUME NEW C, NEW s \in Seq(C), NEW S, NEW t, t = P!EraseTrailing(s, S)
  PROVE  /\ TakenOf(C, t, s)
         /\ t # <<>> => t[Len(t)] \notin S /\ s # <<>> /\ t[1] = s[1]
         /\ s = <<>> \/ s[Len(s)] \notin S => t = s
         /\ Len(s) > 1 /\ s[Len(s)] \in S /\ s[Len(s) - 1] \notin S =>
              t = SubSeq(s, 1, Len(s) - 1)
<1>1. PICK b \in 0 .. Len(s) :
        /\ t = SubSeq(s, 1, b)
        /\ b = 0 \/ s[b] \notin S
        /\ \A i \in b + 1 .. Len(s) : s[i] \in S
  BY TrailingIs
<1>2. Len(s) \in Nat /\ 1 \in 1 .. Len(s) + 1 /\ b \in 1 - 1 .. Len(s)
  BY <1>1
<1>3. TakenOf(C, t, s)
  BY <1>1, <1>2, PartTaken
<1>4. Len(t) = b /\ \A i \in 1 .. b : t[i] = s[i]
  BY <1>1, PrefixIs
<1>5. t # <<>> => t[Len(t)] \notin S /\ s # <<>> /\ t[1] = s[1]
  <2> SUFFICES ASSUME t # <<>> PROVE t[Len(t)] \notin S /\ s # <<>> /\ t[1] = s[1]
    OBVIOUS
  <2>1. b # 0
    BY <1>3, <1>4, EmptySeq DEF TakenOf
  <2>2. 1 \in 1 .. b /\ b \in 1 .. b /\ Len(s) # 0
    BY <1>2, <2>1
  <2>3. s # <<>>
    BY <2>2
  <2> QED
    BY <1>1, <1>4, <2>1, <2>2, <2>3
<1>6. s = <<>> \/ s[Len(s)] \notin S => t = s
  <2> SUFFICES ASSUME s = <<>> \/ s[Len(s)] \notin S PROVE t = s
    OBVIOUS
  <2>1. b = Len(s)
    <3>1. b # Len(s) => Len(s) \in b + 1 .. Len(s)
      BY <1>2
    <3>2. s = <<>> => Len(s) = 0
      OBVIOUS
    <3> QED
      BY <1>1, <1>2, <3>1, <3>2
  <2> QED
    BY <1>1, <2>1
<1>7. ASSUME Len(s) > 1, s[Len(s)] \in S, s[Len(s) - 1] \notin S
      PROVE  t = SubSeq(s, 1, Len(s) - 1)
  <2>1. b # Len(s)
    BY <1>1, <1>2, <1>7
  <2>2. b # Len(s) - 1 => Len(s) - 1 \in b + 1 .. Len(s)
    BY <1>2, <1>7, <2>1
  <2>3. b = Len(s) - 1
    BY <1>1, <1>7, <2>2, Zenon
  <2> QED
    BY <1>1, <2>3
<1> QED
  BY <1>3, <1>5, <1>6, <1>7, Zenon

(* What is left as it is, and what only loses its last character. *)
LEMMA LeadingSame ==
  ASSUME NEW C, NEW s \in Seq(C), NEW S, s = <<>> \/ s[1] \notin S
  PROVE  P!EraseLeading(s, S) = s
<1>1. PICK t : t = P!EraseLeading(s, S)
  BY Zenon
<1>2. t = s
  BY <1>1, LeadingErased
<1> QED
  BY <1>1, <1>2

LEMMA TrailingSame ==
  ASSUME NEW C, NEW s \in Seq(C), NEW S, s = <<>> \/ s[Len(s)] \notin S
  PROVE  P!EraseTrailing(s, S) = s
<1>1. PICK t : t = P!EraseTrailing(s, S)
  BY Zenon
<1>2. t = s
  BY <1>1, TrailingErased
<1> QED
  BY <1>1, <1>2

LEMMA TrailingLess ==
  ASSUME NEW C, NEW s \in Seq(C), NEW S, Len(s) > 1, s[Len(s)] \in S, s[Len(s) - 1] \notin S
  PROVE  P!EraseTrailing(s, S) = SubSeq(s, 1, Len(s) - 1)
<1>1. PICK t : t = P!EraseTrailing(s, S)
  BY Zenon
<1>2. t = SubSeq(s, 1, Len(s) - 1)
  BY <1>1, TrailingErased
<1> QED
  BY <1>1, <1>2

NoLf(s) == \A i \in 1 .. Len(s) : s[i] # "LF"

LEMMA TakenNoLf ==
  ASSUME NEW C, NEW t, NEW s, TakenOf(C, t, s), NoLf(s)
  PROVE  NoLf(t)
<1> SUFFICES ASSUME NEW k \in 1 .. Len(t) PROVE t[k] # "LF"
  BY Zenon DEF NoLf
<1>1. PICK i \in 1 .. Len(s) : t[k] = s[i]
  BY Zenon DEF TakenOf
<1>2. s[i] # "LF"
  BY Zenon DEF NoLf
<1> QED
  BY <1>1, <1>2

LEMMA NoLfAtFirst ==
  ASSUME NEW C, NEW s \in Seq(C), NoLf(s)
  PROVE  s = <<>> \/ s[1] \notin {"LF"}
<1>1. s = <<>> \/ 1 \in 1 .. Len(s)
  OBVIOUS
<1>2. 1 \in 1 .. Len(s) => s[1] # "LF"
  BY Zenon DEF NoLf
<1> QED
  BY <1>1, <1>2

(* The stages of Value. *)
Trimmed(line, u) ==
  \E v, w : /\ v = P!EraseLeading(SubSeq(line, P!Find(line, ":") + 2, Len(line)), P!Blanks)
            /\ w = P!EraseTrailing(v, P!Blanks)
            /\ u = P!EraseLeading(w, {"CR"})

LEMMA ValueStages ==
  ASSUME NEW line
  PROVE  \E u : /\ Trimmed(line, u)
                /\ P!Value(line) = P!EraseTrailing(P!EraseLeading(u, {"LF"}), {"CR", "LF"})
BY Zenon DEF P!Value, Trimmed

LEMMA ValueKeeps ==
  ASSUME NEW C, NEW line \in Seq(C), NoLf(line), P!Find(line, ":") \in 1 .. Len(line) - 1,
         NEW value, value = P!Value(line)
  PROVE  /\ value \in Seq(C) /\ NoLf(value)
         /\ value # <<>> => value[1] # "CR" /\ value[Len(value)] # "CR"
<1>1. PICK u : /\ Trimmed(line, u)
               /\ value = P!EraseTrailing(P!EraseLeading(u, {"LF"}), {"CR", "LF"})
  BY ValueStages, Zenon
<1>2. PICK v, w : /\ v = P!EraseLeading(SubSeq(line, P!Find(line, ":") + 2, Len(line)), P!Blanks)
                  /\ w = P!EraseTrailing(v, P!Blanks)
                  /\ u = P!EraseLeading(w, {"CR"})
  BY <1>1, Zenon DEF Trimmed
<1>3. PICK r, k : r = SubSeq(line, k, Len(line)) /\ k = P!Find(line, ":") + 2
  BY Zenon
<1>4. TakenOf(C, r, line)
  <2>1. k \in 1 .. Len(line) + 1 /\ Len(line) \in k - 1 .. Len(line)
    BY <1>3
  <2> QED
    BY <1>3, <2>1, PartTaken
<1>5. v = P!EraseLeading(r, P!Blanks)
  BY <1>2, <1>3, Zenon
<1>6. TakenOf(C, v, r)
  <2>1. r \in Seq(C)
    BY <1>4, Zenon DEF TakenOf
  <2> QED
    BY <1>5, <2>1, LeadingErased, Zenon
<1>7. TakenOf(C, w, v)
  <2>1. v \in Seq(C)
    BY <1>6, Zenon DEF TakenOf
  <2> QED
    BY <1>2, <2>1, TrailingErased, Zenon
<1>8. TakenOf(C, u, w) /\ (u # <<>> => u[1] # "CR")
  <2>1. w \in Seq(C)
    BY <1>7, Zenon DEF TakenOf
  <2>2. TakenOf(C, u, w) /\ (u # <<>> => u[1] \notin {"CR"})
    BY <1>2, <2>1, LeadingErased, Zenon
  <2> QED
    BY <2>2
<1>9. u \in Seq(C) /\ NoLf(u)
  BY <1>4, <1>6, <1>7, <1>8, TakenNoLf, Zenon DEF TakenOf
<1>10. P!EraseLeading(u, {"LF"}) = u
  <2>1. u = <<>> \/ u[1] \notin {"LF"}
    BY <1>9, NoLfAtFirst, Zenon
  <2> QED
    BY <1>9, <2>1, LeadingSame, Zenon
<1>11. value = P!EraseTrailing(u, {"CR", "LF"})
  BY <1>1, <1>10
<1>12. /\ TakenOf(C, value, u)
       /\ value # <<>> => value[Len(value)] \notin {"CR", "LF"} /\ u # <<>> /\ value[1] = u[1]
  <2>1. PICK S : S = {"CR", "LF"}
    BY Zenon
  <2>2. value = P!EraseTrailing(u, S)
    BY <1>11, <2>1
  <2>3. TakenOf(C, value, u)
    BY <1>9, <2>2, TrailingErased, Zenon
  <2>4. value # <<>> => value[Len(value)] \notin S /\ u # <<>> /\ value[1] = u[1]
    BY <1>9, <2>2, TrailingErased
  <2> QED
    BY <2>1, <2>3, <2>4
<1>13. value \in Seq(C) /\ NoLf(value)
  BY <1>9, <1>12, TakenNoLf, Zenon DEF TakenOf
<1> QED
  BY <1>8, <1>12, <1>13

(* The value of a header written as clients write them. *)
LEMMA UsualValue ==
  ASSUME NEW C, NEW line \in Seq(C), NEW k, k = P!Find(line, ":"), k \in 1 .. Len(line),
         k + 3 <= Len(line), line[Len(line)] = "CR",
         \A i \in k + 2 .. Len(line) - 1 : line[i] = "x"
  PROVE  P!Value(line) = SubSeq(line, k + 2, Len(line) - 1)
<1>1. PICK n, m : n = Len(line) /\ m = k + 2
  BY Zenon
<1>2. n \in Nat /\ m \in 3 .. n - 1
  BY <1>1
<1>3. PICK r : r = SubSeq(line, m, n)
  BY Zenon
<1>4. /\ r \in Seq(C) /\ Len(r) = n - m + 1
      /\ \A i \in 1 .. Len(r) : r[i] = line[m + i - 1]
  <2>1. m \in 1 .. Len(line) + 1 /\ n \in m - 1 .. Len(line)
    BY <1>1, <1>2
  <2> QED
    BY <1>3, <2>1, PartIs
<1>5. /\ Len(r) > 1 /\ r # <<>>
      /\ r[1] = "x" /\ r[Len(r)] = "CR" /\ r[Len(r) - 1] = "x"
  <2>1. /\ Len(r) > 1 /\ 1 \in 1 .. Len(r) /\ Len(r) \in 1 .. Len(r)
        /\ Len(r) - 1 \in 1 .. Len(r)
        /\ m + 1 - 1 = m /\ m + Len(r) - 1 = n /\ m + (Len(r) - 1) - 1 = n - 1
        /\ m \in k + 2 .. n - 1 /\ n - 1 \in k + 2 .. n - 1
    <3>1. n \in Int /\ m \in Int /\ 3 <= m /\ m <= n - 1 /\ m = k + 2
      BY <1>1, <1>2
    <3>2. m \in k + 2 .. n - 1 /\ n - 1 \in k + 2 .. n - 1
      BY <3>1
    <3>3. PICK q : q = Len(r) /\ q = n - m + 1
      BY <1>4, Zenon
    <3>4. /\ q > 1 /\ 1 \in 1 .. q /\ q \in 1 .. q /\ q - 1 \in 1 .. q
          /\ m + 1 - 1 = m /\ m + q - 1 = n /\ m + (q - 1) - 1 = n - 1
      <4>1. n \in Int /\ m \in Int /\ 3 <= m /\ m <= n - 1 /\ q = n - m + 1
        BY <3>1, <3>3, Zenon
      <4> QED
        BY <4>1, LastPlaces
    <3> QED
      BY <3>2, <3>3, <3>4
  <2>2. r[1] = line[m] /\ r[Len(r)] = line[n] /\ r[Len(r) - 1] = line[n - 1]
    BY <1>4, <2>1
  <2>3. line[m] = "x" /\ line[n] = "CR" /\ line[n - 1] = "x"
    BY <1>1, <2>1
  <2>4. r # <<>>
    BY <2>1
  <2> QED
    BY <2>1, <2>2, <2>3, <2>4
<1>6. P!EraseLeading(r, P!Blanks) = r
  <2>1. r[1] \notin P!Blanks
    BY <1>5 DEF P!Blanks
  <2> QED
    BY <1>4, <2>1, LeadingSame, Zenon
<1>7. P!EraseTrailing(r, P!Blanks) = r
  <2>1. r[Len(r)] \notin P!Blanks
    BY <1>5 DEF P!Blanks
  <2> QED
    BY <1>4, <2>1, TrailingSame, Zenon
<1>8. P!EraseLeading(r, {"CR"}) = r
  <2>1. r[1] \notin {"CR"}
    BY <1>5
  <2> QED
    BY <1>4, <2>1, LeadingSame, Zenon
<1>9. P!EraseLeading(r, {"LF"}) = r
  <2>1. r[1] \notin {"LF"}
    BY <1>5
  <2> QED
    BY <1>4, <2>1, LeadingSame, Zenon
<1>10. P!EraseTrailing(r, {"CR", "LF"}) = SubSeq(r, 1, Len(r) - 1)
  <2>1. r[Len(r)] \in {"CR", "LF"} /\ r[Len(r) - 1] \notin {"CR", "LF"}
    BY <1>5
  <2> QED
    BY <1>4, <1>5, <2>1, TrailingLess, Zenon
<1>11. P!Value(line) = SubSeq(r, 1, Len(r) - 1)
  <2>1. SubSeq(line, P!Find(line, ":") + 2, Len(line)) = r
    BY <1>1, <1>3
  <2>2. P!Value(line) =
          P!EraseTrailing(P!EraseLeading(P!EraseLeading(
            P!EraseTrailing(P!EraseLeading(
              SubSeq(line, P!Find(line, ":") + 2, Len(line)), P!Blanks), P!Blanks),
            {"CR"}), {"LF"}), {"CR", "LF"})
    BY Zenon DEF P!Value
  <2> QED
    BY <1>6, <1>7, <1>8, <1>9, <1>10, <2>1, <2>2
<1>12. SamePart(r, 1, Len(r) - 1, line, m, n - 1)
  <2>1. /\ 1 \in Int /\ Len(r) - 1 \in Int /\ m \in Int /\ n - 1 \in Int
        /\ (n - 1) - m = (Len(r) - 1) - 1
    BY <1>2, <1>4
  <2>2. SameSpan(1, Len(r) - 1, m, n - 1)
    BY <2>1, Zenon DEF SameSpan
  <2>3. ASSUME NEW i \in 1 .. Len(r) - 1
        PROVE  r[i] \in C /\ r[i] = line[i + (m - 1)]
    <3>1. i \in 1 .. Len(r) /\ m + i - 1 = i + (m - 1)
      BY <1>2, <1>4
    <3>2. r[i] \in C
      BY <1>4, <3>1, ElementOfSeq, Zenon
    <3> QED
      BY <1>4, <3>1, <3>2
  <2> QED
    BY <2>1, <2>2, <2>3, AlikeTexts, Zenon DEF Alike
<1> QED
  BY <1>1, <1>11, <1>12 DEF SamePart

LEMMA CharIs == \A s, c : Len(s) \in Nat => FirstAt(s, c, P!Find(s, c))
<1> TAKE s, c
<1>1. P!Find(s, c) = Least({i \in 1 .. Len(s) : s[i] = c})
  BY Zenon DEF P!Find, P!SelectInSeq, P!Min, Least
<1> QED
  BY <1>1, FirstAtIs, Zenon

(* The line that is read next is of the places from p to e - 1; e is that  *)
(* of its LF, or one behind the request.                                   *)
HeadLine(p, e) ==
  /\ p \in 1 .. Len(request) + 1 /\ e \in p .. Len(request) + 1
  /\ \A i \in p .. e - 1 : request[i] # "LF"
  /\ e = Len(request) + 1 \/ request[e] = "LF"

LineAt(p, e) == P!Line = SubSeq(request, p, e - 1)

After(e) == IF e = Len(request) + 1 THEN e ELSE e + 1

LeftOf(p) == rest = SubSeq(request, p, Len(request))
NextLeft(p) == rest' = SubSeq(request, p, Len(request))

LEMMA LineIs ==
  ASSUME request \in Seq(P!Chars), NEW p \in 1 .. Len(request) + 1, LeftOf(p)
  PROVE  \E e : HeadLine(p, e) /\ LineAt(p, e) /\ (P!GetLine => NextLeft(After(e)))
<1>0. PICK n : n = Len(request)
  BY Zenon
<1>1. n \in Nat /\ p \in 1 .. n + 1 /\ n \in p - 1 .. Len(request)
  BY <1>0
<1>2. rest = SubSeq(request, p, n)
  BY <1>0 DEF LeftOf
<1>3. rest \in Seq(P!Chars) /\ Len(rest) = n - p + 1
  <2>1. Len(request) \in p - 1 .. Len(request)
    BY <1>0, <1>1
  <2> QED
    BY <1>0, <1>2, <2>1, PartIs
<1>4. PICK k : k = P!Find(rest, "LF")
  BY Zenon
<1>5. FirstAt(rest, "LF", k)
  BY <1>3, <1>4, CharIs
<1>6. FirstFrom(request, "LF", p, n, k)
  BY <1>1, <1>2, <1>5, FirstInPart
<1>6a. PICK m : m = Len(rest) /\ m \in Nat /\ m = (n - p) + 1
  BY <1>1, <1>3
<1>7. PICK E : E = IF k = 0 THEN Len(rest) + 1 ELSE k
  BY Zenon
<1>8. P!LineEnd = E
  BY <1>4, <1>7, Zenon DEF P!LineEnd
<1>9. PICK e : e = (p + E) - 1
  BY Zenon
<1>10. k # 0 => k \in 1 .. m
  BY <1>6, <1>6a DEF FirstFrom
<1>11. /\ E \in 1 .. Len(rest) + 1 /\ e \in p .. n + 1
       /\ E - 1 \in 1 - 1 .. Len(rest) /\ 1 \in 1 .. Len(rest) + 1
       /\ (p + 1) - 1 = p /\ (p + (E - 1)) - 1 = e - 1
  <2>1. p \in Int /\ n \in Int /\ m \in Int /\ 0 <= m /\ m = (n - p) + 1
    BY <1>1, <1>6a
  <2>2. E \in 1 .. m + 1
    <3>1. CASE k = 0
      <4>1. E = m + 1
        BY <1>6a, <1>7, <3>1
      <4> QED
        BY <2>1, <4>1
    <3>2. CASE k # 0
      <4>1. E = k /\ k \in 1 .. m
        BY <1>7, <1>10, <3>2
      <4> QED
        BY <2>1, <4>1
    <3> QED
      BY <3>1, <3>2
  <2>3. e \in p .. n + 1 /\ E - 1 \in 1 - 1 .. m /\ 1 \in 1 .. m + 1
    BY <1>9, <2>1, <2>2
  <2>4. (p + 1) - 1 = p /\ (p + (E - 1)) - 1 = e - 1
    BY <1>9, <2>1, <2>2
  <2> QED
    BY <1>6a, <2>2, <2>3, <2>4
<1>12. HeadLine(p, e)
  <2>1. CASE k = 0
    <3>1. e = n + 1 /\ e - 1 = n
      BY <1>1, <1>3, <1>7, <1>9, <2>1
    <3>2. \A i \in p .. e - 1 : request[i] # "LF"
      BY <1>1, <1>6, <2>1, <3>1 DEF FirstFrom
    <3> QED
      BY <1>0, <1>11, <3>1, <3>2 DEF HeadLine
  <2>2. CASE k # 0
    <3>1. e = (p + k) - 1 /\ (p + k) - 2 = e - 1
      BY <1>1, <1>7, <1>9, <1>10, <2>2
    <3>2. request[e] = "LF" /\ \A i \in p .. e - 1 : request[i] # "LF"
      BY <1>6, <2>2, <3>1 DEF FirstFrom
    <3> QED
      BY <1>0, <1>11, <3>2 DEF HeadLine
  <2> QED
    BY <2>1, <2>2
<1>13. LineAt(p, e)
  <2>1. SamePart(rest, 1, E - 1, request, (p + 1) - 1, (p + (E - 1)) - 1)
    BY <1>0, <1>1, <1>2, <1>11, PartOfPart
  <2>2. SubSeq(rest, 1, E - 1) = SubSeq(request, p, e - 1)
    BY <1>11, <2>1 DEF SamePart
  <2> QED
    BY <1>8, <2>2, Zenon DEF LineAt, P!Line
<1>14. ASSUME P!GetLine PROVE NextLeft(After(e))
  <2>1. rest' = SubSeq(rest, E + 1, Len(rest))
    BY <1>8, <1>14, Zenon DEF P!GetLine
  <2>2. CASE k = 0
    <3>1. E + 1 > Len(rest) /\ After(e) > Len(request)
      BY <1>0, <1>1, <1>3, <1>7, <1>9, <2>2 DEF After
    <3>2. rest' = <<>>
      <4>1. E + 1 \in Int /\ Len(rest) \in Int
        BY <1>3, <1>11
      <4>2. SubSeq(rest, E + 1, Len(rest)) = <<>>
        BY <1>3, <3>1, <4>1, SubSeqEmpty
      <4> QED
        BY <2>1, <4>2
    <3>3. SubSeq(request, After(e), Len(request)) = <<>>
      <4>1. After(e) \in Int /\ Len(request) \in Int
        BY <1>0, <1>1, <1>11 DEF After
      <4> QED
        BY <3>1, <4>1, SubSeqEmpty
    <3> QED
      BY <3>2, <3>3 DEF NextLeft
  <2>3. CASE k # 0
    <3>1. /\ E + 1 \in 1 .. Len(rest) + 1 /\ Len(rest) \in (E + 1) - 1 .. Len(rest)
          /\ (p + (E + 1)) - 1 = e + 1 /\ (p + Len(rest)) - 1 = n /\ e # n + 1
      <4>1. p \in Int /\ n \in Int /\ m \in Int /\ 0 <= m /\ m = (n - p) + 1
        BY <1>1, <1>6a
      <4>2. E \in 1 .. m
        BY <1>7, <1>10, <2>3
      <4>3. E + 1 \in 1 .. m + 1 /\ m \in (E + 1) - 1 .. m
        BY <4>1, <4>2
      <4>4. (p + (E + 1)) - 1 = e + 1 /\ (p + m) - 1 = n /\ e # n + 1
        BY <1>9, <4>1, <4>2
      <4> QED
        BY <1>6a, <4>3, <4>4
    <3>2. SamePart(rest, E + 1, Len(rest), request, (p + (E + 1)) - 1, (p + Len(rest)) - 1)
      BY <1>0, <1>1, <1>2, <3>1, PartOfPart
    <3>3. SubSeq(rest, E + 1, Len(rest)) = SubSeq(request, e + 1, n)
      BY <3>1, <3>2 DEF SamePart
    <3> QED
      BY <1>0, <2>1, <3>1, <3>3 DEF NextLeft, After
  <2> QED
    BY <2>2, <2>3
<1> QED
  BY <1>12, <1>13, <1>14, Zenon

(* Where lines start, and what has been read of those before place p. *)
Start(p) == /\ p \in 2 .. Len(request) + 1
            /\ p = Len(request) + 1 \/ p - 1 \in P!Breaks

Bare(l, j) == /\ P!IsLine(l, j) /\ ~P!Ended(l)
              /\ request[j] = ":" /\ \A k \in l .. (j - 1) : request[k] # ":"

NoneBare(p) == \A l \in 2 .. p - 1 : \A j \in l .. Len(request) : ~Bare(l, j)

NameOf(l, c) == SubSeq(request, l, c - 1)

HasColon(l, c, j) == /\ P!IsLine(l, j) /\ c \in l .. j
                     /\ request[c] = ":" /\ \A k \in l .. c - 1 : request[k] # ":"

Repeated(l, c, p) ==
  \E m \in l + 1 .. p - 1 : \E d \in m .. Len(request) :
    m - 1 \in P!Breaks /\ request[d] = ":" /\ NameOf(m, d) = NameOf(l, c)

KeptAs(l, c, j, p) ==
  /\ NameOf(l, c) \in DOMAIN headers
  /\ headers[NameOf(l, c)] = P!Value(SubSeq(request, l, j)) \/ Repeated(l, c, p)

FoundTo(p) ==
  \A l \in 2 .. p - 1 : \A j \in l .. Len(request), c \in l .. Len(request) :
    HasColon(l, c, j) => KeptAs(l, c, j, p)

LEMMA BreakIs ==
  ASSUME NEW C, request \in Seq(C)
  PROVE  \A k : k \in P!Breaks <=> k \in 1 .. Len(request) /\ request[k] = "LF"
<1>1. DOMAIN request = 1 .. Len(request)
  OBVIOUS
<1> QED
  BY <1>1, Zenon DEF P!Breaks

LEMMA OneLine ==
  ASSUME request \in Seq(P!Chars), NEW p, NEW e, Start(p), HeadLine(p, e),
         NEW l \in p .. After(e) - 1, NEW j \in l .. Len(request), P!IsLine(l, j)
  PROVE  l = p /\ j = e - 1
<1>0. PICK n : n = Len(request) /\ n \in Nat
  OBVIOUS
<1>1. /\ p \in 2 .. n + 1 /\ e \in p .. n + 1
      /\ \A i \in p .. e - 1 : request[i] # "LF"
      /\ e = n + 1 \/ request[e] = "LF"
  BY <1>0, Zenon DEF Start, HeadLine
<1>2. \A k : k \in P!Breaks <=> k \in 1 .. n /\ request[k] = "LF"
  BY <1>0, BreakIs, Zenon
<1>3. /\ l = 1 \/ (l - 1) \in P!Breaks
      /\ j = n \/ (j + 1) \in P!Breaks
      /\ \A k \in l .. j : k \notin P!Breaks
  BY <1>0, Zenon DEF P!IsLine
<1>4. l \in p .. e /\ j \in l .. n /\ e \in Int /\ p \in Int
  BY <1>0, <1>1 DEF After
<1>5. l = p
  <2>1. l # p => l # 1 /\ l - 1 \in p .. e - 1
    BY <1>1, <1>4
  <2>2. l - 1 \in p .. e - 1 => l - 1 \notin P!Breaks
    BY <1>1, <1>2
  <2> QED
    BY <1>3, <2>1, <2>2
<1>6. CASE e = n + 1
  <2>1. j # n => j + 1 \in p .. e - 1
    BY <1>0, <1>4, <1>5, <1>6
  <2>2. j + 1 \in p .. e - 1 => j + 1 \notin P!Breaks
    BY <1>1, <1>2
  <2>3. j = n
    BY <1>3, <2>1, <2>2, Zenon
  <2> QED
    BY <1>0, <1>5, <1>6, <2>3
<1>7. CASE e # n + 1
  <2>1. e \in P!Breaks /\ e <= n
    <3>1. e \in 1 .. n
      BY <1>0, <1>1, <1>7
    <3> QED
      BY <1>1, <1>2, <1>7, <3>1
  <2>2. e \notin l .. j
    BY <1>3, <2>1, Zenon
  <2>3. j + 1 <= e /\ j # n
    BY <1>0, <1>4, <1>5, <2>1, <2>2
  <2>4. j + 1 # e => j + 1 \in p .. e - 1
    BY <1>4, <1>5, <2>3
  <2>5. j + 1 \in p .. e - 1 => j + 1 \notin P!Breaks
    BY <1>1, <1>2
  <2>6. j + 1 = e
    BY <1>3, <2>3, <2>4, <2>5, Zenon
  <2> QED
    BY <1>4, <1>5, <2>6
<1> QED
  BY <1>6, <1>7, Zenon

LEMMA NextStart ==
  ASSUME request \in Seq(P!Chars), request # <<>>, NEW p, NEW e, p = 1 \/ Start(p),
         HeadLine(p, e)
  PROVE  Start(After(e)) /\ e \in p .. After(e) /\ After(e) - 1 \in e - 1 .. e
<1>0. PICK n : n = Len(request) /\ n \in Nat /\ n # 0
  BY EmptySeq
<1>1. e \in p .. n + 1 /\ p \in 1 .. n + 1 /\ (e = n + 1 \/ request[e] = "LF")
  BY <1>0, Zenon DEF HeadLine
<1>2. \A k : k \in P!Breaks <=> k \in 1 .. n /\ request[k] = "LF"
  BY <1>0, BreakIs, Zenon
<1>3. CASE e = n + 1
  BY <1>0, <1>1, <1>3 DEF Start, After
<1>4. CASE e # n + 1
  <2>1. e \in 1 .. n /\ e + 1 \in 2 .. n + 1 /\ (e + 1) - 1 = e
    BY <1>0, <1>1, <1>4
  <2>2. e \in P!Breaks
    BY <1>1, <1>2, <1>4, <2>1, Zenon
  <2>3. After(e) = e + 1
    BY <1>0, <1>4, Zenon DEF After
  <2>4. Start(e + 1)
    BY <1>0, <2>1, <2>2 DEF Start
  <2>5. e \in p .. e + 1 /\ (e + 1) - 1 \in e - 1 .. e
    BY <1>1, <2>1
  <2> QED
    BY <2>3, <2>4, <2>5
<1> QED
  BY <1>3, <1>4

LEMMA NotEnded ==
  ASSUME request \in Seq(P!Chars), NEW p, NEW e, HeadLine(p, e),
         p = 1 \/ (Start(p) /\ ~P!Ended(p) /\ e # p)
  PROVE  ~P!Ended(After(e))
<1>0. PICK n : n = Len(request) /\ n \in Nat
  OBVIOUS
<1>1. /\ p \in 1 .. n + 1 /\ e \in p .. n + 1
      /\ \A i \in p .. e - 1 : request[i] # "LF"
  BY <1>0, Zenon DEF HeadLine
<1>2. \A k : k \in P!Breaks <=> k \in 1 .. n /\ request[k] = "LF"
  BY <1>0, BreakIs, Zenon
<1> SUFFICES ASSUME NEW k \in P!Breaks, k < After(e), (k - 1) \in P!Breaks
             PROVE  FALSE
  BY Zenon DEF P!Ended
<1>3. k \in 1 .. n /\ request[k] = "LF" /\ k - 1 \in 1 .. n /\ request[k - 1] = "LF"
  BY <1>2
<1>4. k <= e
  <2>1. After(e) = e \/ After(e) = e + 1
    BY DEF After
  <2>2. k \in Int /\ e \in Int
    BY <1>1, <1>3
  <2> QED
    BY <2>1, <2>2
<1>5. k \in p .. e => k = e
  <2>1. k \in p .. e /\ k # e => k \in p .. e - 1
    BY <1>1, <1>3
  <2> QED
    BY <1>1, <1>3, <2>1
<1>6. CASE p = 1
  <2>1. k = e
    BY <1>1, <1>3, <1>4, <1>5, <1>6
  <2>2. k - 1 \in p .. e - 1
    BY <1>1, <1>3, <1>6, <2>1
  <2> QED
    BY <1>1, <1>3, <2>2
<1>7. CASE Start(p) /\ ~P!Ended(p) /\ e # p
  <2>1. ~(k < p)
    BY <1>7, Zenon DEF P!Ended
  <2>2. k = e
    BY <1>1, <1>3, <1>4, <1>5, <2>1
  <2>3. k - 1 \in p .. e - 1
    BY <1>1, <1>3, <1>7, <2>2
  <2> QED
    BY <1>1, <1>3, <2>3
<1> QED
  BY <1>6, <1>7

(* The map and the stream fit the lines before place p. *)
SoFar(p) == Start(p) /\ LeftOf(p) /\ ~P!Ended(p) /\ NoneBare(p) /\ FoundTo(p)

LEMMA RequestStays ==
  ASSUME request' = request
  PROVE  /\ \A p : Start(p)' <=> Start(p)
         /\ \A p : P!Ended(p)' <=> P!Ended(p)
         /\ \A l, j : Bare(l, j)' <=> Bare(l, j)
         /\ \A p : NoneBare(p)' <=> NoneBare(p)
         /\ \A l, c : NameOf(l, c)' = NameOf(l, c)
         /\ \A l, c, j : HasColon(l, c, j)' <=> HasColon(l, c, j)
         /\ \A l, c, p : Repeated(l, c, p)' <=> Repeated(l, c, p)
<1>1. P!Breaks' = P!Breaks
  BY DEF P!Breaks
<1>2. \A p : Start(p)' <=> Start(p)
  BY <1>1 DEF Start
<1>3. \A p : P!Ended(p)' <=> P!Ended(p)
  BY <1>1 DEF P!Ended
<1>4. \A l, j : P!IsLine(l, j)' <=> P!IsLine(l, j)
  BY <1>1 DEF P!IsLine
<1>5. \A l, j : Bare(l, j)' <=> Bare(l, j)
  BY <1>3, <1>4 DEF Bare
<1>6. \A p : NoneBare(p)' <=> NoneBare(p)
  BY <1>5 DEF NoneBare
<1>7. \A l, c : NameOf(l, c)' = NameOf(l, c)
  BY DEF NameOf
<1>8. \A l, c, j : HasColon(l, c, j)' <=> HasColon(l, c, j)
  BY <1>4 DEF HasColon
<1>9. \A l, c, p : Repeated(l, c, p)' <=> Repeated(l, c, p)
  BY <1>1, <1>7 DEF Repeated
<1> QED
  BY <1>2, <1>3, <1>5, <1>6, <1>7, <1>8, <1>9, Zenon

(* The first line is of no header. *)
LEMMA FirstLineRead ==
  ASSUME request \in Seq(P!Chars), request # <<>>, NEW e, HeadLine(1, e),
         request' = request, NEW q, q = After(e), NextLeft(q)
  PROVE  SoFar(q)'
<1>0. PICK n : n = Len(request) /\ n \in Nat
  OBVIOUS
<1>1. /\ e \in 1 .. n + 1
      /\ \A i \in 1 .. e - 1 : request[i] # "LF"
  BY <1>0, Zenon DEF HeadLine
<1>2. \A k : k \in P!Breaks <=> k \in 1 .. n /\ request[k] = "LF"
  BY <1>0, BreakIs, Zenon
<1>3. ASSUME NEW l \in 2 .. q - 1
      PROVE  \A j : ~P!IsLine(l, j)
  <2>1. l # 1 /\ l - 1 \in 1 .. e - 1
    BY <1>1 DEF After
  <2>2. l - 1 \notin P!Breaks
    BY <1>1, <1>2, <2>1, Zenon
  <2> QED
    BY <2>1, <2>2, Zenon DEF P!IsLine
<1>4. Start(q) /\ ~P!Ended(q)
  <2>1. PICK p : p = 1
    BY Zenon
  <2>2. Start(After(e)) /\ ~P!Ended(After(e))
    BY <2>1, NextStart, NotEnded
  <2> QED
    BY <2>2
<1>5. NoneBare(q)
  BY <1>3, Zenon DEF NoneBare, Bare
<1>6. LeftOf(q)'
  BY DEF LeftOf, NextLeft
<1>7. FoundTo(q)'
  <2>1. ASSUME NEW l \in 2 .. q - 1, NEW j, NEW c, HasColon(l, c, j)' PROVE FALSE
    <3>1. HasColon(l, c, j)
      BY <2>1, RequestStays, Zenon
    <3> QED
      BY <1>3, <3>1, Zenon DEF HasColon
  <2> QED
    BY <2>1, Zenon DEF FoundTo
<1>8. Start(q)' /\ ~P!Ended(q)' /\ NoneBare(q)'
  BY <1>4, <1>5, RequestStays, Zenon
<1> QED
  BY <1>6, <1>7, <1>8, Zenon DEF SoFar

(* What reading the line from p to e - 1 does to the map: the names it had *)
(* keep their values, but for the name of this line.                       *)
NamesKept(p, e) ==
  \A name \in DOMAIN headers :
    /\ name \in DOMAIN headers'
    /\ \/ headers'[name] = headers[name]
       \/ \E c \in p .. e - 1 : HasColon(p, c, e - 1) /\ name = NameOf(p, c)

NewFound(p, e) ==
  \A c : HasColon(p, c, e - 1) =>
    /\ NameOf(p, c) \in DOMAIN headers'
    /\ headers'[NameOf(p, c)] = P!Value(SubSeq(request, p, e - 1))

LEMMA NextLineRead ==
  ASSUME request \in Seq(P!Chars), request # <<>>, NEW p, NEW e, SoFar(p), HeadLine(p, e),
         e # p, request' = request, NEW q, q = After(e), NextLeft(q),
         ~Bare(p, e - 1), NamesKept(p, e), NewFound(p, e)
  PROVE  SoFar(q)'
<1>0. PICK n : n = Len(request) /\ n \in Nat
  OBVIOUS
<1>1. /\ p \in 2 .. n + 1 /\ e \in p .. n + 1 /\ (p = n + 1 \/ p - 1 \in P!Breaks)
      /\ p \in Int /\ e \in Int
  BY <1>0 DEF SoFar, Start, HeadLine
<1>2. p < e /\ p # n + 1 /\ p - 1 \in P!Breaks
  BY <1>0, <1>1
<1>3. q = e \/ q = e + 1
  BY DEF After
<1>4. /\ q \in Int /\ e <= q /\ p \in 2 .. q - 1
      /\ \A l \in 2 .. q - 1 : l \in 2 .. p - 1 \/ l \in p .. q - 1
  BY <1>1, <1>2, <1>3
<1>5. Start(p) /\ LeftOf(p) /\ ~P!Ended(p) /\ NoneBare(p) /\ FoundTo(p)
  BY Zenon DEF SoFar
<1>6. Start(q) /\ ~P!Ended(q)
  BY <1>5, NextStart, NotEnded
<1>7. NoneBare(q)
  <2>1. ASSUME NEW l \in 2 .. q - 1, NEW j \in l .. Len(request), Bare(l, j) PROVE FALSE
    <3>1. CASE l \in 2 .. p - 1
      BY <1>5, <2>1, <3>1, Zenon DEF NoneBare
    <3>2. CASE l \in p .. q - 1
      <4>1. P!IsLine(l, j)
        BY <2>1, Zenon DEF Bare
      <4>2. l = p /\ j = e - 1
        BY <1>5, <3>2, <4>1, OneLine
      <4> QED
        BY <2>1, <4>2
    <3> QED
      BY <1>4, <3>1, <3>2, Zenon
  <2> QED
    BY <2>1, Zenon DEF NoneBare
<1>8. LeftOf(q)'
  BY DEF LeftOf, NextLeft
<1>9. ASSUME NEW l \in 2 .. q - 1, NEW j \in l .. Len(request), NEW c \in l .. Len(request),
             HasColon(l, c, j)
      PROVE  /\ NameOf(l, c) \in DOMAIN headers'
             /\ headers'[NameOf(l, c)] = P!Value(SubSeq(request, l, j)) \/ Repeated(l, c, q)
  <2>1. CASE l \in 2 .. p - 1
    <3>1. KeptAs(l, c, j, p)
      BY <1>5, <1>9, <2>1, Zenon DEF FoundTo
    <3>2. Repeated(l, c, p) => Repeated(l, c, q)
      <4>1. \A m \in l + 1 .. p - 1 : m \in l + 1 .. q - 1
        BY <1>1, <1>4, <2>1
      <4> QED
        BY <4>1, Zenon DEF Repeated
    <3>3. ASSUME NEW d \in p .. e - 1, HasColon(p, d, e - 1), NameOf(l, c) = NameOf(p, d)
          PROVE  Repeated(l, c, q)
      <4>1. p \in l + 1 .. q - 1 /\ d \in p .. Len(request)
        BY <1>0, <1>1, <1>4, <2>1
      <4>2. request[d] = ":"
        BY <3>3, Zenon DEF HasColon
      <4> QED
        BY <1>2, <3>3, <4>1, <4>2, Zenon DEF Repeated
    <3>4. PICK name : name = NameOf(l, c)
      BY Zenon
    <3>5. /\ name \in DOMAIN headers
          /\ headers[name] = P!Value(SubSeq(request, l, j)) \/ Repeated(l, c, p)
      BY <3>1, <3>4 DEF KeptAs
    <3>6. /\ name \in DOMAIN headers'
          /\ \/ headers'[name] = headers[name]
             \/ \E d \in p .. e - 1 : HasColon(p, d, e - 1) /\ name = NameOf(p, d)
      BY <3>5, Zenon DEF NamesKept
    <3>7. CASE \E d \in p .. e - 1 : HasColon(p, d, e - 1) /\ name = NameOf(p, d)
      BY <3>3, <3>4, <3>6, <3>7
    <3>8. CASE headers'[name] = headers[name]
      BY <3>2, <3>4, <3>5, <3>6, <3>8
    <3> QED
      BY <3>6, <3>7, <3>8, Zenon
  <2>2. CASE l \in p .. q - 1
    <3>1. P!IsLine(l, j)
      BY <1>9, Zenon DEF HasColon
    <3>2. l = p /\ j = e - 1
      BY <1>5, <2>2, <3>1, OneLine
    <3>3. /\ NameOf(p, c) \in DOMAIN headers'
          /\ headers'[NameOf(p, c)] = P!Value(SubSeq(request, p, e - 1))
      BY <1>9, <3>2 DEF NewFound
    <3> QED
      BY <3>2, <3>3
  <2> QED
    BY <1>4, <2>1, <2>2, Zenon
<1>10. FoundTo(q)'
  <2> SUFFICES ASSUME NEW l \in 2 .. q - 1, NEW j \in l .. Len(request'),
                      NEW c \in l .. Len(request'), HasColon(l, c, j)'
               PROVE  KeptAs(l, c, j, q)'
    BY Zenon DEF FoundTo
  <2>1. HasColon(l, c, j) /\ j \in l .. Len(request) /\ c \in l .. Len(request)
    <3>1. HasColon(l, c, j)
      BY RequestStays, Zenon
    <3> QED
      BY <3>1
  <2>2. NameOf(l, c)' = NameOf(l, c) /\ (Repeated(l, c, q)' <=> Repeated(l, c, q))
    BY RequestStays, Zenon
  <2>3. /\ NameOf(l, c) \in DOMAIN headers'
        /\ headers'[NameOf(l, c)] = P!Value(SubSeq(request, l, j)) \/ Repeated(l, c, q)
    BY <1>9, <2>1, Zenon
  <2> QED
    BY <2>2, <2>3 DEF KeptAs
<1>11. Start(q)' /\ ~P!Ended(q)' /\ NoneBare(q)'
  BY <1>6, <1>7, RequestStays, Zenon
<1> QED
  BY <1>8, <1>10, <1>11, Zenon DEF SoFar

(* A line as a text, and what a header line puts into the map. *)
LEMMA LineText ==
  ASSUME request \in Seq(P!Chars), NEW p, NEW e, HeadLine(p, e),
         NEW line, line = SubSeq(request, p, e - 1)
  PROVE  line \in Seq(P!Chars) /\ Len(line) = e - p /\ NoLf(line)
<1>0. PICK n : n = Len(request) /\ n \in Nat
  OBVIOUS
<1>1. /\ p \in 1 .. n + 1 /\ e \in p .. n + 1
      /\ \A i \in p .. e - 1 : request[i] # "LF"
  BY <1>0, Zenon DEF HeadLine
<1>2. p \in 1 .. Len(request) + 1 /\ e - 1 \in p - 1 .. Len(request) /\ p \in Int /\ e \in Int
  BY <1>0, <1>1
<1>3. /\ line \in Seq(P!Chars) /\ Len(line) = (e - 1) - p + 1
      /\ \A i \in 1 .. Len(line) : line[i] = request[p + i - 1]
  BY <1>2, PartIs
<1>4. Len(line) = e - p
  BY <1>2, <1>3
<1>5. ASSUME NEW i \in 1 .. Len(line) PROVE line[i] # "LF"
  <2>1. p + i - 1 \in p .. e - 1
    BY <1>2, <1>4
  <2> QED
    BY <1>1, <1>3, <2>1
<1> QED
  BY <1>3, <1>4, <1>5, Zenon DEF NoLf

LEMMA LineColon ==
  ASSUME request \in Seq(P!Chars), NEW p, NEW e, HeadLine(p, e),
         NEW line, line = SubSeq(request, p, e - 1), NEW k, k = P!Find(line, ":")
  PROVE  FirstFrom(request, ":", p, e - 1, k)
<1>0. PICK n : n = Len(request) /\ n \in Nat
  OBVIOUS
<1>1. p \in 1 .. n + 1 /\ e \in p .. n + 1
  BY <1>0, Zenon DEF HeadLine
<1>2. p \in 1 .. Len(request) + 1 /\ e - 1 \in p - 1 .. Len(request)
  BY <1>0, <1>1
<1>3. line \in Seq(P!Chars) /\ Len(line) \in Nat
  <2>1. line \in Seq(P!Chars)
    BY LineText
  <2> QED
    BY <2>1
<1>4. FirstAt(line, ":", k)
  BY <1>3, CharIs
<1> QED
  BY <1>2, <1>4, FirstInPart

LEMMA LineName ==
  ASSUME request \in Seq(P!Chars), NEW p, NEW e, HeadLine(p, e),
         NEW line, line = SubSeq(request, p, e - 1),
         NEW k \in 1 .. Len(line), k = P!Find(line, ":"), NEW c, c = (p + k) - 1
  PROVE  P!Name(line) = NameOf(p, c)
<1>0. PICK n : n = Len(request) /\ n \in Nat
  OBVIOUS
<1>1. p \in 1 .. n + 1 /\ e \in p .. n + 1
  BY <1>0, Zenon DEF HeadLine
<1>2. p \in 1 .. Len(request) + 1 /\ e - 1 \in p - 1 .. Len(request)
  BY <1>0, <1>1
<1>3. line \in Seq(P!Chars) /\ Len(line) \in Nat
  <2>1. line \in Seq(P!Chars)
    BY LineText
  <2> QED
    BY <2>1
<1>4. 1 \in 1 .. Len(line) + 1 /\ k - 1 \in 1 - 1 .. Len(line)
  <2>1. PICK m : m = Len(line)
    BY Zenon
  <2>2. m \in Nat /\ k \in 1 .. m
    BY <1>3, <2>1
  <2>3. 1 \in 1 .. m + 1 /\ k - 1 \in 1 - 1 .. m
    BY <2>2
  <2> QED
    BY <2>1, <2>3
<1>5. SamePart(line, 1, k - 1, request, (p + 1) - 1, (p + (k - 1)) - 1)
  BY <1>2, <1>4, PartOfPart
<1>6. (p + 1) - 1 = p /\ (p + (k - 1)) - 1 = c - 1
  BY <1>2, <1>3
<1>7. SubSeq(line, 1, k - 1) = SubSeq(request, p, c - 1)
  BY <1>5, <1>6 DEF SamePart
<1> QED
  BY <1>7 DEF P!Name, NameOf

(* The one place a colon of the line stands first. *)
LEMMA ColonOnce ==
  ASSUME NEW p \in Int, NEW e \in Int, NEW k, FirstFrom(request, ":", p, e - 1, k),
         NEW c, HasColon(p, c, e - 1)
  PROVE  k # 0 /\ c = (p + k) - 1
<1>1. /\ c \in p .. e - 1 /\ request[c] = ":"
      /\ \A i \in p .. c - 1 : request[i] # ":"
  BY Zenon DEF HasColon
<1>2. k # 0
  BY <1>1 DEF FirstFrom
<1>3. /\ k \in 1 .. ((e - 1) - p) + 1 /\ request[(p + k) - 1] = ":"
      /\ \A i \in p .. (p + k) - 2 : request[i] # ":"
  BY <1>2 DEF FirstFrom
<1>4. k \in Int /\ c \in Int
  BY <1>1, <1>3
<1>5. c # (p + k) - 1 => c \in p .. (p + k) - 2 \/ (p + k) - 1 \in p .. c - 1
  BY <1>1, <1>3, <1>4
<1> QED
  BY <1>1, <1>2, <1>3, <1>5

(* A line of the request, from the place behind a line break to the next. *)
LEMMA LineStands ==
  ASSUME request \in Seq(P!Chars), NEW p, NEW e, Start(p), HeadLine(p, e), e # p
  PROVE  P!IsLine(p, e - 1) /\ p \in 2 .. Len(request) /\ e - 1 \in p .. Len(request)
<1>0. PICK n : n = Len(request) /\ n \in Nat
  OBVIOUS
<1>1. /\ p \in 2 .. n + 1 /\ e \in p .. n + 1 /\ (p = n + 1 \/ p - 1 \in P!Breaks)
      /\ \A i \in p .. e - 1 : request[i] # "LF"
      /\ e = n + 1 \/ request[e] = "LF"
  BY <1>0 DEF Start, HeadLine
<1>2. \A k : k \in P!Breaks <=> k \in 1 .. n /\ request[k] = "LF"
  BY <1>0, BreakIs, Zenon
<1>3. p \in 2 .. n /\ e - 1 \in p .. n /\ p # n + 1 /\ (e - 1) + 1 = e
  BY <1>0, <1>1
<1>4. e - 1 = n \/ (e - 1) + 1 \in P!Breaks
  <2>1. e # n + 1 => e \in 1 .. n
    BY <1>0, <1>1
  <2>2. e = n + 1 => e - 1 = n
    BY <1>0
  <2> QED
    BY <1>1, <1>2, <1>3, <2>1, <2>2
<1>5. \A k \in p .. e - 1 : k \notin P!Breaks
  BY <1>1, <1>2, Zenon
<1> QED
  BY <1>0, <1>1, <1>3, <1>4, <1>5 DEF P!IsLine

(* The value of a header. *)
Good(v) == /\ \A k \in DOMAIN v : v[k] # "LF"
           /\ v # <<>> => v[1] # "CR" /\ P!Last(v) # "CR"

LEMMA GoodValue ==
  ASSUME NEW line \in Seq(P!Chars), NoLf(line), P!Find(line, ":") \in 1 .. Len(line) - 1
  PROVE  Good(P!Value(line))
<1>1. PICK v : v = P!Value(line)
  BY Zenon
<1>2. /\ v \in Seq(P!Chars) /\ NoLf(v)
      /\ v # <<>> => v[1] # "CR" /\ v[Len(v)] # "CR"
  BY <1>1, ValueKeeps
<1>3. DOMAIN v = 1 .. Len(v)
  BY <1>2
<1>4. Good(v)
  BY <1>2, <1>3, Zenon DEF Good, NoLf, P!Last
<1> QED
  BY <1>1, <1>4

AtEnd(p) == p = Len(request) + 1 \/ request[p] = "LF"

HeadersInv ==
  /\ headers_at \in {"idle", "first", "lines", "done", "threw"}
  /\ headers_at # "idle" => request \in Seq(P!Chars) /\ request # <<>>
  /\ headers_at = "first" => LeftOf(1)
  /\ headers_at = "lines" => \E p : SoFar(p)
  /\ headers_at = "done" => \E p : SoFar(p) /\ AtEnd(p)
  /\ headers_at = "threw" =>
       \E l \in 2 .. Len(request) : \E j \in l .. Len(request) : Bare(l, j)
  /\ P!NoBreakInValues

LEMMA HeadersInitially == P!Init \/ NoHeaders => HeadersInv
<1> SUFFICES ASSUME P!Init \/ NoHeaders PROVE HeadersInv
  OBVIOUS
<1>1. CASE P!Init
  <2>1. /\ request \in Heads /\ request # <<>> /\ rest = request /\ headers_at = "first"
        /\ headers = [n \in {} |-> <<>>]
    BY <1>1 DEF P!Init
  <2>2. request \in Seq(P!Chars)
    BY <2>1, HeadsAssumption, Zenon
  <2>3. LeftOf(1)
    BY <2>1, <2>2, SubSeqFull, Zenon DEF LeftOf
  <2>4. P!NoBreakInValues
    BY <2>1 DEF P!NoBreakInValues
  <2> QED
    BY <2>1, <2>2, <2>3, <2>4 DEF HeadersInv
<1>2. CASE NoHeaders
  <2>1. headers = <<>> /\ headers_at = "idle"
    BY <1>2 DEF NoHeaders
  <2>2. P!NoBreakInValues
    BY <2>1 DEF P!NoBreakInValues
  <2> QED
    BY <2>1, <2>2 DEF HeadersInv
<1> QED
  BY <1>1, <1>2

(* What getline reads next: the line and where it is. *)
LineRead(p, e, line) ==
  /\ HeadLine(p, e) /\ P!Line = line /\ line = SubSeq(request, p, e - 1)
  /\ P!GetLine => NextLeft(After(e))

LEMMA NextLine ==
  ASSUME request \in Seq(P!Chars), NEW p, p = 1 \/ Start(p), LeftOf(p)
  PROVE  \E e, line : LineRead(p, e, line)
<1>0. PICK n : n = Len(request) /\ n \in Nat
  OBVIOUS
<1>1. p \in 1 .. n + 1
  BY <1>0 DEF Start
<1>2. PICK e : HeadLine(p, e) /\ LineAt(p, e) /\ (P!GetLine => NextLeft(After(e)))
  BY <1>0, <1>1, LineIs
<1>3. PICK line : P!Line = line /\ line = SubSeq(request, p, e - 1)
  BY <1>2, Zenon DEF LineAt
<1> QED
  BY <1>2, <1>3, Zenon DEF LineRead

(* An empty line has no characters to the next one. *)
LEMMA EmptyLine ==
  ASSUME request \in Seq(P!Chars), NEW p, NEW e, NEW line, LineRead(p, e, line)
  PROVE  /\ line \in Seq(P!Chars) /\ Len(line) = e - p /\ NoLf(line)
         /\ p \in Int /\ e \in Int /\ (e = p <=> line = <<>>)
<1>1. HeadLine(p, e) /\ line = SubSeq(request, p, e - 1)
  BY Zenon DEF LineRead
<1>2. line \in Seq(P!Chars) /\ Len(line) = e - p /\ NoLf(line)
  BY <1>1, LineText
<1>3. p \in Int /\ e \in Int
  <2>1. p \in 1 .. Len(request) + 1 /\ e \in p .. Len(request) + 1
    BY <1>1, Zenon DEF HeadLine
  <2> QED
    BY <2>1
<1>4. Len(line) = 0 <=> line = <<>>
  BY <1>2, EmptySeq
<1> QED
  BY <1>2, <1>3, <1>4

LEMMA HeadersRest ==
  ASSUME HeadersInv, request' = request, headers' = headers
  PROVE  P!NoBreakInValues'
<1>1. P!NoBreakInValues
  BY Zenon DEF HeadersInv
<1> QED
  BY <1>1 DEF P!NoBreakInValues

LEMMA FirstLineKeeps == HeadersInv /\ P!RequestLine => HeadersInv'
<1> SUFFICES ASSUME HeadersInv, P!RequestLine PROVE HeadersInv'
  OBVIOUS
<1>1. /\ headers_at = "first" /\ headers_at' = "lines" /\ P!GetLine
      /\ request' = request /\ headers' = headers
  BY DEF P!RequestLine
<1>2. request \in Seq(P!Chars) /\ request # <<>> /\ LeftOf(1)
  BY <1>1 DEF HeadersInv
<1>3. PICK p : p = 1
  BY Zenon
<1>4. PICK e, line : LineRead(p, e, line)
  BY <1>2, <1>3, NextLine
<1>5. PICK q : q = After(e) /\ HeadLine(1, e) /\ NextLeft(q)
  BY <1>1, <1>3, <1>4 DEF LineRead
<1>6. SoFar(q)'
  BY <1>1, <1>2, <1>5, FirstLineRead
<1>7. P!NoBreakInValues'
  BY <1>1, HeadersRest
<1> QED
  BY <1>1, <1>2, <1>6, <1>7 DEF HeadersInv

(* The line is that of a header, of one that throws, or of none. *)
LEMMA LinesState ==
  ASSUME HeadersInv, headers_at = "lines"
  PROVE  \E p, e, line : SoFar(p) /\ LineRead(p, e, line)
<1>1. request \in Seq(P!Chars) /\ \E p : SoFar(p)
  BY DEF HeadersInv
<1>2. PICK p : SoFar(p)
  BY <1>1, Zenon
<1>3. Start(p) /\ LeftOf(p)
  BY <1>2, Zenon DEF SoFar
<1>4. PICK e, line : LineRead(p, e, line)
  BY <1>1, <1>3, NextLine
<1> QED
  BY <1>2, <1>4, Zenon

LEMMA HeaderKeeps == HeadersInv /\ P!Header => HeadersInv'
<1> SUFFICES ASSUME HeadersInv, P!Header PROVE HeadersInv'
  OBVIOUS
<1>1. /\ headers_at = "lines" /\ headers_at' = headers_at /\ P!GetLine
      /\ request' = request
      /\ P!Find(P!Line, ":") \in 1 .. Len(P!Line) - 1
      /\ headers' = P!Put(P!Name(P!Line), P!Value(P!Line))
  BY DEF P!Header
<1>2. request \in Seq(P!Chars) /\ request # <<>>
  BY <1>1 DEF HeadersInv
<1>3. PICK p, e, line : SoFar(p) /\ LineRead(p, e, line)
  BY <1>1, LinesState
<1>4. PICK q : q = After(e) /\ HeadLine(p, e) /\ NextLeft(q) /\ P!Line = line
               /\ line = SubSeq(request, p, e - 1)
  BY <1>1, <1>3, Zenon DEF LineRead
<1>5. /\ line \in Seq(P!Chars) /\ Len(line) = e - p /\ NoLf(line)
      /\ p \in Int /\ e \in Int /\ (e = p <=> line = <<>>)
  BY <1>2, <1>3, EmptyLine
<1>6. PICK k : k = P!Find(line, ":")
  BY Zenon
<1>7. /\ k \in 1 .. Len(line) - 1 /\ k \in 1 .. Len(line) /\ e # p /\ k # 0
      /\ (p + k) - 1 # e - 1
  <2>1. k \in 1 .. Len(line) - 1
    BY <1>1, <1>4, <1>6
  <2>2. PICK m : m = Len(line) /\ m = e - p
    BY <1>5
  <2>3. k \in 1 .. m /\ e # p /\ k # 0 /\ (p + k) - 1 # e - 1
    BY <1>5, <2>1, <2>2
  <2> QED
    BY <2>1, <2>2, <2>3
<1>8. PICK c : c = (p + k) - 1
  BY Zenon
<1>9. P!Name(line) = NameOf(p, c)
  BY <1>2, <1>4, <1>6, <1>7, <1>8, LineName
<1>10. FirstFrom(request, ":", p, e - 1, k)
  BY <1>2, <1>4, <1>6, LineColon
<1>11. PICK name, value : name = NameOf(p, c) /\ value = P!Value(line)
  BY Zenon
<1>12. headers' = [x \in DOMAIN headers \cup {name} |-> IF x = name THEN value ELSE headers[x]]
  <2>1. headers' = P!Put(name, value)
    BY <1>1, <1>4, <1>9, <1>11
  <2> QED
    BY <2>1, Zenon DEF P!Put
<1>13. /\ DOMAIN headers' = DOMAIN headers \cup {name} /\ headers'[name] = value
       /\ \A x \in DOMAIN headers : x # name => headers'[x] = headers[x]
  BY <1>12
<1>14. HasColon(p, c, e - 1) /\ c \in p .. e - 1
  <2>1. /\ c \in p .. e - 1 /\ request[c] = ":"
        /\ \A i \in p .. (p + k) - 2 : request[i] # ":"
    BY <1>7, <1>8, <1>10 DEF FirstFrom
  <2>2. (p + k) - 2 = c - 1
    BY <1>5, <1>7, <1>8
  <2>3. \A i \in p .. c - 1 : request[i] # ":"
    BY <2>1, <2>2
  <2>4. P!IsLine(p, e - 1)
    <3>1. Start(p)
      BY <1>3, Zenon DEF SoFar
    <3> QED
      BY <1>2, <1>4, <1>7, <3>1, LineStands
  <2> QED
    BY <2>1, <2>3, <2>4, Zenon DEF HasColon
<1>15. ASSUME NEW d, HasColon(p, d, e - 1) PROVE d = c
  BY <1>5, <1>8, <1>10, <1>15, ColonOnce
<1>16. ~Bare(p, e - 1)
  <2>1. request[c] = ":" /\ c \in p .. (e - 1) - 1
    <3>1. c # e - 1 /\ c \in p .. e - 1
      BY <1>7, <1>8, <1>14
    <3>2. request[c] = ":"
      BY <1>14, Zenon DEF HasColon
    <3> QED
      BY <1>5, <3>1, <3>2
  <2> QED
    BY <2>1, Zenon DEF Bare
<1>17. NamesKept(p, e)
  <2>1. ASSUME NEW x \in DOMAIN headers
        PROVE  /\ x \in DOMAIN headers'
               /\ headers'[x] = headers[x] \/ x = NameOf(p, c)
    BY <1>11, <1>13, Zenon
  <2> QED
    BY <1>14, <2>1, Zenon DEF NamesKept
<1>18. NewFound(p, e)
  <2>1. name \in DOMAIN headers'
    BY <1>13
  <2>2. NameOf(p, c) \in DOMAIN headers'
        /\ headers'[NameOf(p, c)] = P!Value(SubSeq(request, p, e - 1))
    BY <1>4, <1>11, <1>13, <2>1
  <2> QED
    BY <1>15, <2>2 DEF NewFound
<1>19. SoFar(q)'
  BY <1>1, <1>2, <1>3, <1>4, <1>7, <1>16, <1>17, <1>18, NextLineRead
<1>20. P!NoBreakInValues'
  <2>1. Good(value)
    BY <1>1, <1>4, <1>5, <1>11, GoodValue
  <2>2. \A x \in DOMAIN headers : Good(headers[x])
    <3>1. P!NoBreakInValues
      BY Zenon DEF HeadersInv
    <3> QED
      BY <3>1, Zenon DEF P!NoBreakInValues, Good
  <2>3. ASSUME NEW x \in DOMAIN headers' PROVE Good(headers'[x])
    <3>1. CASE x = name
      BY <1>13, <2>1, <3>1
    <3>2. CASE x # name
      BY <1>13, <2>2, <3>2
    <3> QED
      BY <3>1, <3>2
  <2>4. P!NoBreakInValues' <=> \A x \in DOMAIN headers' : Good(headers'[x])
    BY Zenon DEF P!NoBreakInValues, Good
  <2> QED
    BY <2>3, <2>4, Zenon
<1>21. request' \in Seq(P!Chars) /\ request' # <<>> /\ headers_at' = "lines" /\ \E r : SoFar(r)'
  BY <1>1, <1>2, <1>19
<1> QED
  BY <1>20, <1>21 DEF HeadersInv

LEMMA EndsAtColonKeeps == HeadersInv /\ P!EndsAtColon => HeadersInv'
<1> SUFFICES ASSUME HeadersInv, P!EndsAtColon PROVE HeadersInv'
  OBVIOUS
<1>1. /\ headers_at = "lines" /\ headers_at' = "threw"
      /\ request' = request /\ headers' = headers
      /\ P!Find(P!Line, ":") # 0 /\ P!Find(P!Line, ":") = Len(P!Line)
  BY DEF P!EndsAtColon
<1>2. request \in Seq(P!Chars) /\ request # <<>>
  BY <1>1 DEF HeadersInv
<1>3. PICK p, e, line : SoFar(p) /\ LineRead(p, e, line)
  BY <1>1, LinesState
<1>4. HeadLine(p, e) /\ P!Line = line /\ line = SubSeq(request, p, e - 1)
  BY <1>3, Zenon DEF LineRead
<1>5. Len(line) = e - p /\ p \in Int /\ e \in Int
  BY <1>2, <1>3, EmptyLine
<1>6. PICK k : k = P!Find(line, ":") /\ k # 0 /\ k = e - p
  BY <1>1, <1>4, <1>5
<1>7. FirstFrom(request, ":", p, e - 1, k)
  BY <1>2, <1>4, <1>6, LineColon
<1>8. e # p /\ (p + k) - 1 = e - 1 /\ (p + k) - 2 = (e - 1) - 1
  BY <1>5, <1>6
<1>9. request[e - 1] = ":" /\ \A i \in p .. (e - 1) - 1 : request[i] # ":"
  BY <1>6, <1>7, <1>8 DEF FirstFrom
<1>10. Start(p) /\ ~P!Ended(p)
  BY <1>3, Zenon DEF SoFar
<1>11. P!IsLine(p, e - 1) /\ p \in 2 .. Len(request) /\ e - 1 \in p .. Len(request)
  BY <1>2, <1>4, <1>8, <1>10, LineStands
<1>12. Bare(p, e - 1)
  BY <1>9, <1>10, <1>11, Zenon DEF Bare
<1>13. \E l \in 2 .. Len(request) : \E j \in l .. Len(request) : Bare(l, j)'
  BY <1>1, <1>11, <1>12, RequestStays
<1>14. P!NoBreakInValues'
  BY <1>1, HeadersRest
<1> QED
  BY <1>1, <1>2, <1>13, <1>14 DEF HeadersInv

LEMMA NoHeaderKeeps == HeadersInv /\ P!NoHeader => HeadersInv'
<1> SUFFICES ASSUME HeadersInv, P!NoHeader PROVE HeadersInv'
  OBVIOUS
<1>1. /\ headers_at = "lines" /\ headers_at' = headers_at /\ P!GetLine
      /\ request' = request /\ headers' = headers
      /\ P!Line # <<>> /\ P!Find(P!Line, ":") = 0
  BY DEF P!NoHeader
<1>2. request \in Seq(P!Chars) /\ request # <<>>
  BY <1>1 DEF HeadersInv
<1>3. PICK p, e, line : SoFar(p) /\ LineRead(p, e, line)
  BY <1>1, LinesState
<1>4. PICK q : q = After(e) /\ HeadLine(p, e) /\ NextLeft(q) /\ P!Line = line
               /\ line = SubSeq(request, p, e - 1)
  BY <1>1, <1>3, Zenon DEF LineRead
<1>5. /\ p \in Int /\ e \in Int /\ (e = p <=> line = <<>>)
  BY <1>2, <1>3, EmptyLine
<1>6. PICK k : k = P!Find(line, ":") /\ k = 0
  BY <1>1, <1>4
<1>7. FirstFrom(request, ":", p, e - 1, k)
  BY <1>2, <1>4, <1>6, LineColon
<1>8. \A c : ~HasColon(p, c, e - 1)
  BY <1>5, <1>6, <1>7, ColonOnce
<1>9. e # p
  BY <1>1, <1>4, <1>5
<1>10. ~Bare(p, e - 1)
  <2>1. ASSUME Bare(p, e - 1) PROVE FALSE
    <3>1. e - 1 \in p .. Len(request)
      <4>1. Start(p)
        BY <1>3, Zenon DEF SoFar
      <4> QED
        BY <1>2, <1>4, <1>9, <4>1, LineStands
    <3>2. e - 1 \in p .. e - 1
      BY <1>5, <3>1
    <3>3. HasColon(p, e - 1, e - 1)
      BY <2>1, <3>2, Zenon DEF Bare, HasColon
    <3> QED
      BY <1>8, <3>3, Zenon
  <2> QED
    BY <2>1
<1>11. NamesKept(p, e) /\ NewFound(p, e)
  BY <1>1, <1>8 DEF NamesKept, NewFound
<1>12. SoFar(q)'
  BY <1>1, <1>2, <1>3, <1>4, <1>9, <1>10, <1>11, NextLineRead
<1>13. P!NoBreakInValues'
  BY <1>1, HeadersRest
<1> QED
  BY <1>1, <1>2, <1>12, <1>13 DEF HeadersInv

(* Nothing moves. *)
LEMMA SoFarStays ==
  ASSUME request' = request, rest' = rest, headers' = headers, NEW p
  PROVE  SoFar(p) => SoFar(p)' /\ (AtEnd(p) => AtEnd(p)')
<1>1. LeftOf(p)' <=> LeftOf(p)
  BY DEF LeftOf
<1>2. FoundTo(p) => FoundTo(p)'
  <2>1. \A l, c, j : KeptAs(l, c, j, p)' <=> KeptAs(l, c, j, p)
    <3>1. /\ \A l, c : NameOf(l, c)' = NameOf(l, c)
          /\ \A l, c : Repeated(l, c, p)' <=> Repeated(l, c, p)
      BY RequestStays, Zenon
    <3> QED
      BY <3>1 DEF KeptAs
  <2>2. \A l, c, j : HasColon(l, c, j)' <=> HasColon(l, c, j)
    BY RequestStays, Zenon
  <2> QED
    BY <2>1, <2>2 DEF FoundTo
<1>3. AtEnd(p)' <=> AtEnd(p)
  BY DEF AtEnd
<1> QED
  BY <1>1, <1>2, <1>3, RequestStays, Zenon DEF SoFar

LEMMA FinishKeeps == HeadersInv /\ P!Finish => HeadersInv'
<1> SUFFICES ASSUME HeadersInv, P!Finish PROVE HeadersInv'
  OBVIOUS
<1>1. /\ headers_at = "lines" /\ headers_at' = "done" /\ rest' = rest
      /\ request' = request /\ headers' = headers /\ P!Line = <<>>
  BY DEF P!Finish
<1>2. request \in Seq(P!Chars) /\ request # <<>>
  BY <1>1 DEF HeadersInv
<1>3. PICK p, e, line : SoFar(p) /\ LineRead(p, e, line)
  BY <1>1, LinesState
<1>4. HeadLine(p, e) /\ P!Line = line
  BY <1>3, Zenon DEF LineRead
<1>5. e = p <=> line = <<>>
  BY <1>2, <1>3, EmptyLine
<1>6. AtEnd(p)
  BY <1>1, <1>4, <1>5 DEF HeadLine, AtEnd
<1>7. SoFar(p)' /\ AtEnd(p)'
  BY <1>1, <1>3, <1>6, SoFarStays
<1>8. P!NoBreakInValues'
  BY <1>1, HeadersRest
<1> QED
  BY <1>1, <1>2, <1>7, <1>8 DEF HeadersInv

LEMMA HeadersKeep == HeadersInv /\ (P!Next \/ UNCHANGED parsing) => HeadersInv'
<1> SUFFICES ASSUME HeadersInv, P!Next \/ UNCHANGED parsing PROVE HeadersInv'
  OBVIOUS
<1>1. CASE UNCHANGED parsing
  <2>1. request' = request /\ rest' = rest /\ headers' = headers /\ headers_at' = headers_at
    BY <1>1 DEF parsing
  <2>2. headers_at = "lines" => \E p : SoFar(p)'
    BY <2>1, SoFarStays DEF HeadersInv
  <2>3. headers_at = "done" => \E p : SoFar(p)' /\ AtEnd(p)'
    BY <2>1, SoFarStays DEF HeadersInv
  <2>4. headers_at = "threw" =>
          \E l \in 2 .. Len(request) : \E j \in l .. Len(request) : Bare(l, j)'
    BY <2>1, RequestStays DEF HeadersInv
  <2>5. P!NoBreakInValues'
    BY <2>1, HeadersRest
  <2>6. headers_at = "first" => LeftOf(1)'
    BY <2>1 DEF HeadersInv, LeftOf
  <2> QED
    BY <2>1, <2>2, <2>3, <2>4, <2>5, <2>6 DEF HeadersInv
<1>2. CASE P!Next
  BY <1>2, FirstLineKeeps, HeaderKeeps, EndsAtColonKeeps, NoHeaderKeeps, FinishKeeps
     DEF P!Next
<1> QED
  BY <1>1, <1>2, Zenon

(* What has been read when the parser stops. *)
LEMMA AllRead ==
  ASSUME HeadersInv, headers_at = "done"
  PROVE  /\ request \in Seq(P!Chars)
         /\ \A l \in 2 .. Len(request) : \A j \in l .. Len(request) :
              ~Bare(l, j)
         /\ \A l \in 2 .. Len(request) : \A j \in l .. Len(request), c \in l .. Len(request) :
              HasColon(l, c, j) /\ ~P!Ended(l) => KeptAs(l, c, j, Len(request) + 1)
<1>1. request \in Seq(P!Chars) /\ \E p : SoFar(p) /\ AtEnd(p)
  BY DEF HeadersInv
<1>2. PICK p : SoFar(p) /\ AtEnd(p)
  BY <1>1, Zenon
<1>3. PICK n : n = Len(request) /\ n \in Nat
  BY <1>1
<1>4. /\ p \in 2 .. n + 1 /\ (p = n + 1 \/ p - 1 \in P!Breaks)
      /\ p = n + 1 \/ request[p] = "LF"
      /\ NoneBare(p) /\ FoundTo(p)
  BY <1>2, <1>3 DEF SoFar, AtEnd, Start
<1>5. \A k : k \in P!Breaks <=> k \in 1 .. n /\ request[k] = "LF"
  BY <1>1, <1>3, BreakIs
<1>6. ASSUME NEW l \in 2 .. n, NEW j \in l .. n, P!IsLine(l, j), ~P!Ended(l)
      PROVE  l \in 2 .. p - 1
  <2>1. CASE p = n + 1
    BY <1>3, <2>1
  <2>2. CASE p # n + 1
    <3>1. p \in P!Breaks /\ p - 1 \in P!Breaks
      <4>1. p \in 1 .. n
        BY <1>3, <1>4, <2>2
      <4> QED
        BY <1>4, <1>5, <2>2, <4>1, Zenon
    <3>2. ~(p < l)
      BY <1>6, <3>1, Zenon DEF P!Ended
    <3>3. l # p
      <4>1. l \in l .. j
        BY <1>3
      <4> QED
        BY <1>6, <3>1, <4>1, Zenon DEF P!IsLine
    <3> QED
      BY <1>3, <1>4, <3>2, <3>3
  <2> QED
    BY <2>1, <2>2, Zenon
<1>7. ASSUME NEW l \in 2 .. n, NEW j \in l .. n, Bare(l, j) PROVE FALSE
  <2>1. P!IsLine(l, j) /\ ~P!Ended(l)
    BY <1>7, Zenon DEF Bare
  <2>2. l \in 2 .. p - 1
    BY <1>6, <2>1, Zenon
  <2> QED
    BY <1>3, <1>4, <1>7, <2>2 DEF NoneBare
<1>8. ASSUME NEW l \in 2 .. n, NEW j \in l .. n, NEW c \in l .. n,
             HasColon(l, c, j), ~P!Ended(l)
      PROVE  KeptAs(l, c, j, n + 1)
  <2>1. P!IsLine(l, j)
    BY <1>8, Zenon DEF HasColon
  <2>2. l \in 2 .. p - 1
    BY <1>6, <1>8, <2>1, Zenon
  <2>3. KeptAs(l, c, j, p)
    BY <1>3, <1>4, <1>8, <2>2 DEF FoundTo
  <2>4. Repeated(l, c, p) => Repeated(l, c, n + 1)
    <3>1. \A m \in l + 1 .. p - 1 : m \in l + 1 .. (n + 1) - 1
      BY <1>3, <1>4
    <3> QED
      BY <3>1, Zenon DEF Repeated
  <2> QED
    BY <2>3, <2>4, Zenon DEF KeptAs
<1> QED
  BY <1>1, <1>3, <1>7, <1>8

LEMMA ThrowsHolds == HeadersInv => P!ThrowsAtBareColon
<1> SUFFICES ASSUME HeadersInv, headers_at \in {"done", "threw"}
             PROVE  (headers_at = "threw") <=>
                      \E l \in 2 .. Len(request) : \E j \in l .. Len(request) : Bare(l, j)
  BY Zenon DEF P!ThrowsAtBareColon, Bare
<1>1. CASE headers_at = "done"
  <2>1. headers_at # "threw"
    BY <1>1
  <2> QED
    BY <1>1, <2>1, AllRead, Zenon
<1>2. CASE headers_at = "threw"
  BY <1>2, Zenon DEF HeadersInv
<1> QED
  BY <1>1, <1>2

(* Three places of a line as clients write them. *)
UsualLine(i, j, c) ==
  /\ P!IsLine(i, j) /\ ~P!Ended(i)
  /\ \A k \in i .. (c - 1) : request[k] = "x"
  /\ request[c] = ":" /\ c + 3 <= j
  /\ request[c + 1] = "SP" /\ request[j] = "CR"
  /\ \A k \in (c + 2) .. (j - 1) : request[k] = "x"

LEMMA UsualColon ==
  ASSUME request \in Seq(P!Chars), NEW i \in 2 .. Len(request), NEW j \in i .. Len(request),
         NEW c \in i .. j, UsualLine(i, j, c)
  PROVE  HasColon(i, c, j) /\ c \in i .. Len(request)
<1>1. c \in i .. Len(request) /\ c \in i .. j
  OBVIOUS
<1>2. ASSUME NEW k \in i .. c - 1 PROVE request[k] # ":"
  <2>1. request[k] = "x"
    BY Zenon DEF UsualLine
  <2> QED
    BY <2>1
<1> QED
  BY <1>1, <1>2, Zenon DEF UsualLine, HasColon

LEMMA UsualRead ==
  ASSUME request \in Seq(P!Chars), NEW i \in 2 .. Len(request), NEW j \in i .. Len(request),
         NEW c \in i .. j, UsualLine(i, j, c), NEW line, line = SubSeq(request, i, j)
  PROVE  P!Value(line) = SubSeq(request, c + 2, j - 1)
<1>0. PICK n : n = Len(request) /\ n \in Nat
  OBVIOUS
<1>1. /\ i \in Int /\ j \in Int /\ c \in Int /\ 2 <= i /\ i <= c /\ c + 3 <= j /\ j <= n
      /\ i \in 1 .. Len(request) + 1 /\ j \in i - 1 .. Len(request)
  BY <1>0 DEF UsualLine
<1>2. /\ line \in Seq(P!Chars) /\ Len(line) = j - i + 1
      /\ \A k \in 1 .. Len(line) : line[k] = request[i + k - 1]
  BY <1>1, PartIs
<1>3. PICK k, m : k = (c - i) + 1 /\ m = Len(line) /\ m = (j - i) + 1
  BY <1>2
<1>4. k \in 1 .. m /\ k + 3 <= m /\ m \in 1 .. m /\ m \in Int /\ k \in Int
      /\ i + k - 1 = c /\ i + m - 1 = j
  BY <1>1, <1>3
<1>5. line[k] = ":" /\ line[m] = "CR"
  <2>1. line[k] = request[c] /\ line[m] = request[j]
    BY <1>2, <1>3, <1>4
  <2> QED
    BY <2>1 DEF UsualLine
<1>6. ASSUME NEW l \in k + 2 .. m - 1 PROVE line[l] = "x"
  <2>1. l \in 1 .. m /\ i + l - 1 \in c + 2 .. j - 1
    BY <1>1, <1>3, <1>4
  <2>2. line[l] = request[i + l - 1]
    BY <1>2, <1>3, <2>1
  <2> QED
    BY <2>1, <2>2 DEF UsualLine
<1>7. ASSUME NEW l \in 1 .. k - 1 PROVE line[l] # ":"
  <2>1. l \in 1 .. m /\ i + l - 1 \in i .. c - 1
    BY <1>1, <1>3, <1>4
  <2>2. line[l] = request[i + l - 1]
    BY <1>2, <1>3, <2>1
  <2>3. request[i + l - 1] = "x"
    BY <2>1, Zenon DEF UsualLine
  <2> QED
    BY <2>2, <2>3
<1>8. k = P!Find(line, ":")
  <2>1. FirstAt(line, ":", k)
    BY <1>3, <1>4, <1>5, <1>7 DEF FirstAt
  <2>2. Len(line) \in Nat
    BY <1>2
  <2> QED
    BY <2>1, <2>2, CharIs, FirstAtOne
<1>9. P!Value(line) = SubSeq(line, k + 2, Len(line) - 1)
  <2>1. k \in 1 .. Len(line) /\ k + 3 <= Len(line) /\ line[Len(line)] = "CR"
        /\ \A l \in k + 2 .. Len(line) - 1 : line[l] = "x"
    BY <1>3, <1>4, <1>5, <1>6
  <2> QED
    BY <1>2, <1>8, <2>1, UsualValue
<1>10. SamePart(line, k + 2, m - 1, request, (i + (k + 2)) - 1, (i + (m - 1)) - 1)
  <2>1. k + 2 \in 1 .. Len(line) + 1 /\ m - 1 \in (k + 2) - 1 .. Len(line)
    <3>1. k + 2 \in 1 .. m + 1 /\ m - 1 \in (k + 2) - 1 .. m
      BY <1>4
    <3> QED
      BY <1>3, <3>1
  <2> QED
    BY <1>1, <2>1, PartOfPart
<1>11. (i + (k + 2)) - 1 = c + 2 /\ (i + (m - 1)) - 1 = j - 1
  BY <1>1, <1>3
<1> QED
  BY <1>3, <1>9, <1>10, <1>11 DEF SamePart

Later(j, name) ==
  \E l \in (j + 1) .. (Len(request) - Len(name)) :
    /\ l - 1 \in P!Breaks
    /\ SubSeq(request, l, l + Len(name)) = Append(name, ":")

(* A name that is repeated is that of a later line. *)
LEMMA RepeatedLater ==
  ASSUME request \in Seq(P!Chars), NEW i \in 2 .. Len(request), NEW j \in i .. Len(request),
         NEW c \in i .. j, P!IsLine(i, j), Repeated(i, c, Len(request) + 1)
  PROVE  Later(j, NameOf(i, c))
<1> PICK name : name = NameOf(i, c)
  BY Zenon
<1>0. PICK n : n = Len(request) /\ n \in Nat
  OBVIOUS
<1>1. PICK m \in i + 1 .. n : \E d \in m .. Len(request) :
        m - 1 \in P!Breaks /\ request[d] = ":" /\ NameOf(m, d) = NameOf(i, c)
  <2>1. (n + 1) - 1 = n
    BY <1>0
  <2> QED
    BY <1>0, <2>1 DEF Repeated
<1>2. PICK d \in m .. Len(request) :
        m - 1 \in P!Breaks /\ request[d] = ":" /\ NameOf(m, d) = NameOf(i, c)
  BY <1>1, Zenon
<1>3. i \in Int /\ j \in Int /\ c \in Int /\ m \in Int /\ d \in Int /\ m <= d /\ d <= n /\ i < m
      /\ 2 <= i /\ i <= c /\ c <= n
  BY <1>0, <1>1
<1>4. m >= j + 1
  <2>1. m - 1 \in i .. j => m - 1 \notin P!Breaks
    BY Zenon DEF P!IsLine
  <2> QED
    BY <1>2, <1>3, <2>1
<1>5. name = SubSeq(request, m, d - 1) /\ name \in Seq(P!Chars) /\ Len(name) = d - m
  <2>1. name = SubSeq(request, m, d - 1)
    BY <1>2 DEF NameOf
  <2>2. m \in 1 .. Len(request) + 1 /\ d - 1 \in m - 1 .. Len(request)
    BY <1>0, <1>3
  <2>3. name \in Seq(P!Chars) /\ Len(name) = (d - 1) - m + 1
    BY <2>1, <2>2, PartIs
  <2> QED
    BY <1>3, <2>1, <2>3
<1>6. m + Len(name) = d /\ m \in (j + 1) .. (Len(request) - Len(name))
  BY <1>0, <1>3, <1>4, <1>5
<1>7. SubSeq(request, m, d) = Append(name, ":")
  <2>1. m \in 1 .. Len(request) + 1 /\ d \in m - 1 .. Len(request)
        /\ d - 1 \in m - 1 .. Len(request)
    BY <1>0, <1>3
  <2>2. PICK s : s = SubSeq(request, m, d)
    BY Zenon
  <2>3. /\ s \in Seq(P!Chars) /\ Len(s) = d - m + 1
        /\ \A x \in 1 .. Len(s) : s[x] = request[m + x - 1]
    BY <2>1, <2>2, PartIs
  <2>4. \A x \in 1 .. Len(name) : name[x] = request[m + x - 1]
    BY <1>5, <2>1, PartIs
  <2>5. PICK t : t = Append(name, ":")
    BY Zenon
  <2>6. ":" \in P!Chars
    BY DEF P!Chars
  <2>7. /\ t \in Seq(P!Chars) /\ Len(t) = Len(name) + 1 /\ t[Len(name) + 1] = ":"
        /\ \A x \in 1 .. Len(name) : t[x] = name[x]
    BY <1>5, <2>5, <2>6, OneMore
  <2>8. Len(s) = Len(t)
    BY <1>3, <1>5, <2>3, <2>7
  <2>9. ASSUME NEW x \in 1 .. Len(s) PROVE s[x] = t[x]
    <3>1. x \in 1 .. Len(name) \/ (x = Len(name) + 1 /\ m + x - 1 = d)
      BY <1>3, <1>5, <2>3
    <3>2. CASE x \in 1 .. Len(name)
      BY <2>3, <2>4, <2>7, <3>2
    <3>3. CASE x = Len(name) + 1 /\ m + x - 1 = d
      BY <1>2, <2>3, <2>7, <3>3
    <3> QED
      BY <3>1, <3>2, <3>3
  <2>10. s = t
    BY <2>3, <2>7, <2>8, <2>9, SeqEqual, Zenon
  <2> QED
    BY <2>2, <2>5, <2>10
<1>8. Later(j, name)
  BY <1>2, <1>6, <1>7 DEF Later
<1> QED
  BY <1>8

UsualFound(i, j, c) ==
  LET name == SubSeq(request, i, c - 1) IN
    /\ name \in DOMAIN headers
    /\ headers[name] = SubSeq(request, c + 2, j - 1) \/ Later(j, name)

LEMMA UsualHolds == HeadersInv => P!UsualHeadersFound
<1> SUFFICES ASSUME HeadersInv, headers_at = "done",
                    NEW i \in 2 .. Len(request), NEW j \in i .. Len(request), NEW c \in i .. j,
                    UsualLine(i, j, c)
             PROVE  UsualFound(i, j, c)
  BY Zenon DEF P!UsualHeadersFound, UsualLine, UsualFound, Later
<1> PICK name : name = SubSeq(request, i, c - 1)
  BY Zenon
<1>1. request \in Seq(P!Chars)
  BY AllRead, Zenon
<1>2. HasColon(i, c, j) /\ c \in i .. Len(request)
  BY <1>1, UsualColon
<1>3. P!IsLine(i, j) /\ ~P!Ended(i)
  BY Zenon DEF UsualLine
<1>4. KeptAs(i, c, j, Len(request) + 1)
  BY <1>2, <1>3, AllRead, Zenon
<1>5. name = NameOf(i, c)
  BY DEF NameOf
<1>6. /\ name \in DOMAIN headers
      /\ headers[name] = P!Value(SubSeq(request, i, j)) \/ Repeated(i, c, Len(request) + 1)
  BY <1>4, <1>5 DEF KeptAs
<1>7. PICK line : line = SubSeq(request, i, j)
  BY Zenon
<1>8. P!Value(line) = SubSeq(request, c + 2, j - 1)
  BY <1>1, <1>7, UsualRead
<1>9. CASE headers[name] = P!Value(SubSeq(request, i, j))
  BY <1>6, <1>7, <1>8, <1>9 DEF UsualFound
<1>10. CASE Repeated(i, c, Len(request) + 1)
  <2>1. Later(j, NameOf(i, c))
    BY <1>1, <1>3, <1>10, RepeatedLater, Zenon
  <2> QED
    BY <1>5, <1>6, <2>1 DEF UsualFound
<1> QED
  BY <1>6, <1>9, <1>10, Zenon

-----------------------------------------------------------------------------
(* What is read of one request, whatever clients send: "threw" is reached  *)
(* exactly if a line ends at its first colon, no value holds a line break, *)
(* headers written as clients write them are found, each with the last     *)
(* value of its name or a later line to explain why not                    *)
(* (http_handler.cpp:162-188); a parameter without a value is read past    *)
(* its vector, and otherwise each name has its last value (lines 190 to    *)
(* 205); target and verb are those of the first line if that has arrived   *)
(* and no other verb is found before them (lines 130 to 150, 313 to 323).  *)
THEOREM RequestsRead == MCSpec => []RequestRead
<1>1. MCInit => LineInv /\ UrlInv /\ HeadersInv
  BY LineInitially, UrlInitially, HeadersInitially, Zenon DEF MCInit
<1>2. LineInv /\ UrlInv /\ HeadersInv /\ [MCNext]_MCvars => (LineInv /\ UrlInv /\ HeadersInv)'
  <2> SUFFICES ASSUME LineInv, UrlInv, HeadersInv, [MCNext]_MCvars
               PROVE  LineInv' /\ UrlInv' /\ HeadersInv'
    OBVIOUS
  <2>1. ASSUME MCNext
        PROVE  /\ P!Next \/ UNCHANGED parsing
               /\ U!Next \/ UNCHANGED splitting
               /\ L!Next \/ UNCHANGED receiving
    BY <2>1, Zenon DEF MCNext, Route, ParseHeaders, ParseUrl, ReadLine, Respond
  <2>2. ASSUME UNCHANGED MCvars
        PROVE  UNCHANGED parsing /\ UNCHANGED splitting /\ UNCHANGED receiving
    BY <2>2 DEF MCvars
  <2>3. /\ P!Next \/ UNCHANGED parsing
        /\ U!Next \/ UNCHANGED splitting
        /\ L!Next \/ UNCHANGED receiving
    BY <2>1, <2>2, Zenon
  <2> QED
    BY <2>3, HeadersKeep, UrlKeeps, LineKeeps, Zenon
<1>3. LineInv /\ UrlInv /\ HeadersInv => RequestRead
  <2>1. HeadersInv => P!NoBreakInValues
    BY Zenon DEF HeadersInv
  <2> QED
    BY <2>1, ThrowsHolds, UsualHolds, UndefinedHolds, LastValueHolds, TargetHolds, VerbHolds,
       Zenon DEF RequestRead
<1> QED
  BY <1>1, <1>2, <1>3, PTL DEF MCSpec
=============================================================================
