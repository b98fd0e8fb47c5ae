------------------------------ MODULE Response ------------------------------
(***************************************************************************)
(* What a handler makes of its http_response, what is written for it and   *)
(* where its client takes the answer to end (src/http_handler.cpp:294-388, *)
(* 435-473; the legacy Response of simple_server_http.cpp).                *)
(*                                                                         *)
(* The calls of the new interface change the object they are called on     *)
(* and return a copy of it, on which the next call of a chain is made; the *)
(* legacy handlers assign to public members.  A body is its size.          *)
(***************************************************************************)
EXTENDS Integers, Sequences, SequencesExt, FiniteSetsExt

CONSTANTS
  Sizes,      \* sizes of bodies and values of a Content-Length
  Files,      \* records: kind "text", "none" or "dir"; size in octets or
              \* entries; newline, whether a text ends with one
  PathSize,   \* octets of a file's path, and of an entry of a directory
  Notice,     \* octets of "file could not be opened."
  MaxCalls    \* bound on the calls of a handler

None == -1

VARIABLES
  api,      \* "new" or "legacy"
  calls,    \* the handler's calls: <<object, operation, argument>>
  named,    \* the handler's response
  copy,     \* what the last call returned
  at,       \* "handler" or "sent"
  sent,     \* what the handler returned: "named", "copy", or "no_route"
  wire      \* what was written, and whether the connection was closed

vars == <<api, calls, named, copy, at, sent, wire>>

(* A default http_response; its status_code is never initialised, but any  *)
(* value is written as some status line.                                   *)
Mutant_Fresh == [length |-> None, type |-> FALSE, body |-> 0, close_fd |-> FALSE]

Fresh == [length |-> None, type |-> FALSE, body |-> 0, close_fd |-> TRUE]

-----------------------------------------------------------------------------
(* read_text_file ends every line with a newline, and where there is no    *)
(* text, list_dir answers the path itself unless it is a directory.  (What *)
(* snprintf makes of a std::string passed for its %s is undefined; that an *)
(* entry is not empty is all that is used.)                                *)
FileBody(f) ==
  CASE f.kind = "text" /\ f.size > 0 -> IF f.newline THEN f.size ELSE f.size + 1
    [] f.kind = "dir" /\ f.size > 0  -> f.size * (PathSize + 2)
    [] f.kind = "dir" /\ f.size = 0  -> Notice
    [] OTHER                         -> PathSize + 2

(* The object o after a call. *)
Mutant_Apply(o, op, arg) ==
  CASE op = "set_body"         -> [o EXCEPT !.length = IF @ = None THEN arg ELSE @, !.body = arg]
    [] op = "set_content_type" -> [o EXCEPT !.type = TRUE]
    [] op = "render_text_file" -> [o EXCEPT !.body = FileBody(arg)]
    [] op = "render_html_file" -> [o EXCEPT !.type = TRUE, !.body = FileBody(arg)]
    [] op = "close_fd"         -> [o EXCEPT !.close_fd = FALSE]
    [] op = "body"             -> [o EXCEPT !.body = arg]
    [] op = "Content-Length"   -> [o EXCEPT !.length = arg]

Apply(o, op, arg) ==
  CASE op = "set_body"         -> [o EXCEPT !.length = arg, !.body = arg]
    [] op = "set_content_type" -> [o EXCEPT !.type = TRUE]
    [] op = "render_text_file" -> [o EXCEPT !.body = FileBody(arg)]
    [] op = "render_html_file" -> [o EXCEPT !.type = TRUE, !.body = FileBody(arg)]
    [] op = "close_fd"         -> [o EXCEPT !.close_fd = FALSE]
    [] op = "body"             -> [o EXCEPT !.body = arg]
    [] op = "Content-Length"   -> [o EXCEPT !.length = arg]

NewCalls == ({"set_body"} \X Sizes) \cup {<<"set_content_type", None>>}
            \cup ({"render_text_file", "render_html_file"} \X Files)
LegacyCalls == {"body", "Content-Length"} \X Sizes

Mutant_CallNamed(op, arg) ==
  /\ at = "handler" /\ api = "new"
  /\ Len(calls) < MaxCalls
  /\ calls' = Append(calls, <<"named", op, arg>>)
  /\ copy' = Apply(named, op, arg)
  /\ UNCHANGED <<api, named, at, sent, wire>>

(* A setter called on the handler's variable. *)
CallNamed(op, arg) ==
  /\ at = "handler" /\ api = "new"
  /\ Len(calls) < MaxCalls
  /\ calls' = Append(calls, <<"named", op, arg>>)
  /\ named' = Apply(named, op, arg)
  /\ copy' = named'
  /\ UNCHANGED <<api, at, sent, wire>>

(* The next setter of a chain. *)
CallCopy(op, arg) ==
  /\ at = "handler" /\ api = "new"
  /\ calls # <<>> /\ Last(calls)[2] # "close_fd"
  /\ Len(calls) < MaxCalls
  /\ calls' = Append(calls, <<"copy", op, arg>>)
  /\ copy' = Apply(copy, op, arg)
  /\ UNCHANGED <<api, named, at, sent, wire>>

(* An assignment to a public member: close_fd, or those of the legacy one. *)
Assign(op, arg) ==
  /\ at = "handler"
  /\ Len(calls) < MaxCalls
  /\ calls' = Append(calls, <<"named", op, arg>>)
  /\ named' = Apply(named, op, arg)
  /\ UNCHANGED <<api, copy, at, sent, wire>>

(* build_http_response: without a body there is neither a length of its    *)
(* own nor the empty line that ends the headers.                           *)
Build(o) == [length |-> IF o.length = None /\ o.body > 0 THEN o.body ELSE o.length,
             ended  |-> o.body > 0,
             body   |-> o.body,
             closed |-> o.close_fd]

Returned(which) == IF which = "named" THEN named ELSE copy

Return(which) ==
  /\ at = "handler"
  /\ which = "copy" => calls # <<>> /\ Last(calls)[2] # "close_fd" /\ api = "new"
  /\ sent' = which
  /\ wire' = Build(Returned(which))
  /\ at' = "sent"
  /\ UNCHANGED <<api, calls, named, copy>>

(* No route: default_500_msg, which has no length and is ended by closing; *)
(* the legacy server writes a report of the request, announces its size    *)
(* and puts one empty line too many before it.                             *)
NoRoute(report) ==
  /\ at = "handler" /\ calls = <<>>
  /\ sent' = "no_route"
  /\ wire' = IF api = "new"
               THEN [length |-> None, ended |-> TRUE, body |-> 0, closed |-> TRUE]
               ELSE [length |-> report, ended |-> TRUE, body |-> report + 2, closed |-> TRUE]
  /\ at' = "sent"
  /\ UNCHANGED <<api, calls, named, copy>>

Init ==
  /\ api \in {"new", "legacy"}
  /\ calls = <<>>
  /\ named = Fresh
  /\ copy = Fresh
  /\ at = "handler"
  /\ sent = "none"
  /\ wire = [length |-> None, ended |-> FALSE, body |-> 0, closed |-> FALSE]

Next ==
  \/ \E c \in NewCalls : CallNamed(c[1], c[2]) \/ CallCopy(c[1], c[2])
  \/ api = "new" /\ Assign("close_fd", FALSE)
  \/ \E c \in LegacyCalls : api = "legacy" /\ Assign(c[1], c[2])
  \/ \E which \in {"named", "copy"} : Return(which)
  \/ \E n \in Sizes \ {0} : NoRoute(n)

Spec == Init /\ [][Next]_vars

-----------------------------------------------------------------------------
(* The client: where the answer ends for it (RFC 7230, section 3.3.3) *)

Missing == IF wire.closed THEN "broken" ELSE "waiting"

Outcome ==
  IF ~wire.ended THEN Missing
  ELSE IF wire.length = None THEN IF wire.closed THEN "whole" ELSE "waiting"
  ELSE CASE wire.length = wire.body -> "whole"
         [] wire.length < wire.body -> "cut"
         [] OTHER                   -> Missing

(* The calls whose effect what was returned has: those on the variable,    *)
(* or for a copy those before the chain it comes from and those in it.     *)
Named == {i \in DOMAIN calls : calls[i][1] = "named"}
Effective == IF sent = "named" THEN Named ELSE {i \in DOMAIN calls : i \in Named \/ i > Max(Named)}

Lengths == {i \in Effective : calls[i][2] \in {"set_body", "Content-Length"}}
Bodies == {i \in Effective :
             calls[i][2] \in {"set_body", "body", "render_text_file", "render_html_file"}}

IsRender(i) == calls[i][2] \in {"render_text_file", "render_html_file"}
SizeAt(i) == IF IsRender(i) THEN FileBody(calls[i][3]) ELSE calls[i][3]

(* The client gets the whole answer exactly if the last body is not empty  *)
(* or was rendered (a rendered body never is), and the last Content-Length *)
(* that was set, if any was, is its size: a render after a set_body keeps  *)
(* that of the earlier body (line 373), and an answer without a body never *)
(* ends (line 301).  Without a route the new server's client gets all, the *)
(* legacy server's loses the last two octets (simple_server_http.cpp:174). *)
WholeUnlessStale ==
  at = "sent" =>
    ((Outcome = "whole") <=>
       IF sent = "no_route"
         THEN api = "new"
         ELSE /\ Bodies # {}
              /\ SizeAt(Max(Bodies)) > 0 \/ IsRender(Max(Bodies))
              /\ Lengths # {} => calls[Max(Lengths)][3] = SizeAt(Max(Bodies)))

(* A client waits for more exactly where the handler kept the connection   *)
(* open and wrote no body or announced more than it wrote; everything else *)
(* the server ends by closing.                                             *)
WaitsOnlyWhenKept ==
  at = "sent" =>
    ((Outcome = "waiting") <=>
       /\ sent # "no_route"
       /\ \E i \in Effective : calls[i][2] = "close_fd"
       /\ \/ Bodies = {} \/ SizeAt(Max(Bodies)) = 0
          \/ Lengths # {} /\ calls[Max(Lengths)][3] > SizeAt(Max(Bodies)))

(* A handler that makes no chain of calls, or one chain last and returns   *)
(* what it returns, answers with the last body and the type it asked for.  *)
(* Otherwise the calls behind the first of a chain are lost with the copy  *)
(* (lines 348 to 388 return *this by value).                               *)
NothingLostWithoutFork ==
  LET chained == {i \in DOMAIN calls : calls[i][1] = "copy"}
      asked == {i \in DOMAIN calls :
                  calls[i][2] \in {"set_body", "body", "render_text_file", "render_html_file"}}
  IN  /\ at = "sent" /\ sent # "no_route"
      /\ \/ sent = "named" /\ chained = {}
         \/ sent = "copy" /\ \A i \in chained : \A j \in i .. Len(calls) : calls[j][1] = "copy"
      => /\ asked # {} => wire.body = SizeAt(Max(asked))
         /\ Returned(sent).type <=>
              \E i \in DOMAIN calls : calls[i][2] \in {"set_content_type", "render_html_file"}
=============================================================================
