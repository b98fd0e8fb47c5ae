------------------------------- MODULE Variant -------------------------------
(***************************************************************************)
(* Variant<T1, T2, T3> (src/includes/variant.h): objects that come and go  *)
(* at some places, are copied over one another, and hold a member of one   *)
(* of three types in the same storage.  The copy constructor of a member   *)
(* may throw, between the destructor of the old member and the new tag.    *)
(***************************************************************************)
EXTENDS Integers, FiniteSets

CONSTANTS
  Objects,   \* places a Variant can be at
  Types,     \* T1, T2, T3
  Values,    \* values of each type
  None       \* TYPE_NONE, and no member

VARIABLES
  alive,        \* the places with a Variant
  currentType,
  member,       \* the member in the storage: its type and value, or None
  living,       \* members constructed and not destroyed, by type
  meant         \* what the caller has last stored in each Variant

vars == <<alive, currentType, member, living, meant>>

TypeOf(m) == IF m = None THEN None ELSE m[1]

(* The calls of constructors (1) and destructors (-1) of a type. *)
Count(f, t, n) == IF t = None THEN f ELSE [f EXCEPT ![t] = @ + n]

(* The storage of v holds m, whose type is t; now is what living becomes. *)
Becomes(v, t, m, now) ==
  /\ currentType' = [currentType EXCEPT ![v] = t]
  /\ member' = [member EXCEPT ![v] = m]
  /\ living' = now

-----------------------------------------------------------------------------
Default(v) ==
  /\ v \notin alive
  /\ alive' = alive \cup {v}
  /\ Becomes(v, None, None, living)
  /\ meant' = [meant EXCEPT ![v] = None]

(* A constructor from a value, or from another Variant. *)
Construct(v, m) ==
  /\ v \notin alive
  /\ alive' = alive \cup {v}
  /\ Becomes(v, TypeOf(m), m, Count(living, TypeOf(m), 1))
  /\ meant' = [meant EXCEPT ![v] = m]

CopyConstruct(v, w) == w \in alive /\ Construct(v, member[w])

(* destroy() calls the destructor the tag names, whatever is there. *)
Destroyed(v) == Count(living, currentType[v], -1)

Mutant_Assign(v, w) ==
  /\ {v, w} \subseteq alive
  /\ IF v = w THEN UNCHANGED <<currentType, member, living>>
     ELSE Becomes(v, currentType[w], member[w], Count(living, currentType[w], 1))
  /\ meant' = [meant EXCEPT ![v] = meant[w]]
  /\ UNCHANGED alive

Mutant_AssignSelf(v, w) ==
  /\ {v, w} \subseteq alive
  /\ IF v = w THEN Becomes(v, None, None, Destroyed(v))
     ELSE Becomes(v, currentType[w], member[w], Count(Destroyed(v), currentType[w], 1))
  /\ meant' = [meant EXCEPT ![v] = meant[w]]
  /\ UNCHANGED alive

(* operator=: the old member goes first. *)
Assign(v, w) ==
  /\ {v, w} \subseteq alive
  /\ IF v = w THEN UNCHANGED <<currentType, member, living>>
     ELSE Becomes(v, currentType[w], member[w], Count(Destroyed(v), currentType[w], 1))
  /\ meant' = [meant EXCEPT ![v] = meant[w]]
  /\ UNCHANGED alive

(* The copy of w's member throws: v is empty, its old member is lost. *)
AssignThrows(v, w) ==
  /\ {v, w} \subseteq alive
  /\ v # w /\ currentType[w] # None
  /\ Becomes(v, None, None, Destroyed(v))
  /\ meant' = [meant EXCEPT ![v] = None]
  /\ UNCHANGED alive

(* get<T>() = x; with another tag get throws, and nothing changes. *)
Set(v, t, x) ==
  /\ v \in alive
  /\ currentType[v] = t
  /\ member' = [member EXCEPT ![v] = <<t, x>>]
  /\ meant' = [meant EXCEPT ![v] = <<t, x>>]
  /\ UNCHANGED <<alive, currentType, living>>

Destruct(v) ==
  /\ v \in alive
  /\ alive' = alive \ {v}
  /\ Becomes(v, None, None, Destroyed(v))
  /\ meant' = [meant EXCEPT ![v] = None]

(* A constructor whose member's copy throws leaves nothing behind: the     *)
(* destructor of an object that was not completed is not called.           *)

Init ==
  /\ alive = {}
  /\ currentType = [v \in Objects |-> None]
  /\ member = [v \in Objects |-> None]
  /\ living = [t \in Types |-> 0]
  /\ meant = [v \in Objects |-> None]

Next ==
  \E v \in Objects :
    \/ Default(v)
    \/ \E m \in Types \X Values : Construct(v, m)
    \/ \E w \in Objects : CopyConstruct(v, w) \/ Assign(v, w) \/ AssignThrows(v, w)
    \/ \E t \in Types, x \in Values : Set(v, t, x)
    \/ Destruct(v)

Spec == Init /\ [][Next]_vars

-----------------------------------------------------------------------------
(* Every member constructed is destroyed once, by its own destructor: at   *)
(* any time the members of a type that live are those of the Variants that *)
(* are there, whatever was assigned over them and whichever copy threw     *)
(* (includes/variant.h:39-49, 96-109).                                     *)
Balanced ==
  \A t \in Types :
    living[t] = Cardinality({v \in alive : member[v] # None /\ member[v][1] = t})

(* What get<T> reads is what the caller last stored there, the last member *)
(* copied over it or none if that copy threw; assignment to itself and     *)
(* what happens to the object it was copied from later change nothing      *)
(* (includes/variant.h:84-109, 127-137).                                   *)
AsMeant ==
  \A v \in alive : /\ member[v] = meant[v]
                   /\ currentType[v] = TypeOf(meant[v])
=============================================================================
