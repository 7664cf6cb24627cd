------------------------------- MODULE JsValues -------------------------------
(***************************************************************************)
(* What the options and requests are made of.  An object is a function     *)
(* from the names of its own properties; a property may be there with the  *)
(* value undefined, which a spread keeps and a read does not tell apart    *)
(* from one that is missing.                                               *)
(***************************************************************************)
EXTENDS Naturals

CONSTANTS
    Undefined,
    Wrong,          \* a value of a type or sign the place is not for: a negative
                    \* number, NaN, a list where an object should be, ...
    True, False     \* booleans, where an object may stand as well

ASSUME ValuesAssumption ==
    /\ Undefined \notin {Wrong, True, False} /\ Wrong \notin {True, False} /\ True # False
    /\ \A value \in {Undefined, Wrong, True, False} : value \notin Nat

\* object.name, object?.name
Read(object, name) == IF name \in DOMAIN object THEN object[name] ELSE Undefined

\* typeof value === 'object', of a value that is no number and no text
IsObject(value) == value \notin {Undefined, Wrong, True, False}

\* { ...base, ...given }, { ...base, ...(given || {}) }
Spread(base, given) ==
    IF ~IsObject(given) THEN base
    ELSE [x \in DOMAIN base \cup DOMAIN given |->
            IF x \in DOMAIN given THEN given[x] ELSE base[x]]

\* value || otherwise, where value is no number
Or(value, otherwise) == IF value \in {Undefined, False} THEN otherwise ELSE value

\* value || otherwise, where value may be a number: zero counts as none
OrPositive(value, otherwise) == IF value \in {Undefined, False, 0} THEN otherwise ELSE value

Truthy(value) == value \notin {Undefined, False}
=============================================================================
