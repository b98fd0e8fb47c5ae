------------------------------ MODULE UrlParams ------------------------------
(***************************************************************************)
(* parse_url_params (src/http_handler.cpp:190-205) on every short URL, one *)
(* parameter a step.  Parameters are separated by ';'; both keyPairs[0]    *)
(* and keyPairs[1] are read whatever split_words returned.                 *)
(***************************************************************************)
EXTENDS Strings, SequencesExt

CONSTANTS
  Chars,      \* the characters of a URL, "?", ";" and "=" among them
  MaxLength   \* every URL up to this length is tried

VARIABLES
  url,
  vars_left,   \* vars: the parameters still to be read
  ret,         \* the map filled so far
  at           \* "url", "loop", "done", or "undefined": keyPairs read past its end

vars == <<url, vars_left, ret, at>>

QueryAt == SelectInSeq(url, LAMBDA c : c = "?")

(* The part behind the first '?', split. *)
Split ==
  /\ at = "url"
  /\ QueryAt # 0
  /\ vars_left' = Words(SubSeq(url, QueryAt + 1, Len(url)), ";")
  /\ at' = "loop"
  /\ UNCHANGED <<url, ret>>

NoQuery ==
  /\ at = "url"
  /\ QueryAt = 0
  /\ at' = "done"
  /\ UNCHANGED <<url, vars_left, ret>>

KeyPairs == Words(vars_left[1], "=")

Mutant_Pair ==
  /\ at = "loop"
  /\ vars_left # <<>>
  /\ Len(KeyPairs) >= 2
  /\ ret' = [k \in DOMAIN ret \cup {KeyPairs[1]} |->
               IF k = KeyPairs[1] /\ k \notin DOMAIN ret THEN KeyPairs[2] ELSE ret[k]]
  /\ vars_left' = Tail(vars_left)
  /\ UNCHANGED <<url, at>>

Pair ==
  /\ at = "loop"
  /\ vars_left # <<>>
  /\ Len(KeyPairs) >= 2
  /\ ret' = [k \in DOMAIN ret \cup {KeyPairs[1]} |->
               IF k = KeyPairs[1] THEN KeyPairs[2] ELSE ret[k]]
  /\ vars_left' = Tail(vars_left)
  /\ UNCHANGED <<url, at>>

Mutant_NoPair ==
  /\ at = "loop"
  /\ vars_left # <<>>
  /\ Len(KeyPairs) # 2
  /\ at' = "undefined"
  /\ UNCHANGED <<url, vars_left, ret>>

(* The vector has no second element, or none at all. *)
NoPair ==
  /\ at = "loop"
  /\ vars_left # <<>>
  /\ Len(KeyPairs) < 2
  /\ at' = "undefined"
  /\ UNCHANGED <<url, vars_left, ret>>

Finish ==
  /\ at = "loop"
  /\ vars_left = <<>>
  /\ at' = "done"
  /\ UNCHANGED <<url, vars_left, ret>>

Init ==
  /\ url \in BoundedSeq(Chars, MaxLength)
  /\ vars_left = <<>>
  /\ ret = [k \in {} |-> <<>>]
  /\ at = "url"

Next == Split \/ NoQuery \/ Pair \/ NoPair \/ Finish

Spec == Init /\ [][Next]_vars

-----------------------------------------------------------------------------
(* Characters i to j of the URL are one parameter: behind the first '?',   *)
(* between separators.                                                     *)
IsParam(i, j) ==
  /\ QueryAt # 0 /\ QueryAt < i /\ i <= j
  /\ i = QueryAt + 1 \/ url[i - 1] = ";"
  /\ j = Len(url) \/ url[j + 1] = ";"
  /\ \A k \in i .. j : url[k] # ";"

(* Somewhere in i .. j there is a name, and a value somewhere behind an    *)
(* '=' that follows it.                                                    *)
HasValue(i, j) ==
  \E a, b, c \in i .. j : /\ a < b /\ b < c
                          /\ url[b] = "="
                          /\ url[a] # "=" /\ url[c] # "="

(* The vector of a parameter is read past its end exactly if a parameter   *)
(* has no value or no name, as "?x", "?x=" or "?=x" have; nothing but the  *)
(* query decides it (line 201).                                            *)
UndefinedWithoutValue ==
  at \in {"done", "undefined"} =>
    ((at = "undefined") <=>
       \E i, j \in DOMAIN url : IsParam(i, j) /\ ~HasValue(i, j))

(* Otherwise a parameter written name=value is found under its name with   *)
(* its value, and the last of those with one name wins.                    *)
LastValueFound ==
  at = "done" =>
    \A i, j, e \in DOMAIN url :
      (/\ IsParam(i, j) /\ i < e /\ e < j /\ url[e] = "="
       /\ \A k \in i .. j : k # e => url[k] # "=")
      => LET name == SubSeq(url, i, e - 1) IN
           /\ name \in DOMAIN ret
           /\ \/ ret[name] = SubSeq(url, e + 1, j)
              \/ \E l, m \in DOMAIN url :
                   /\ j < l /\ IsParam(l, m)
                   /\ Words(SubSeq(url, l, m), "=")[1] = name
=============================================================================
