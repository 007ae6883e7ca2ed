----------------------------- MODULE MetaStore -----------------------------
(***************************************************************************)
(* What the metadata plane of a session promises (spec.md sections 4.5 and *)
(* 6.5): an object id is fresh until it is created; an object is created   *)
(* transient, may be persisted, and once deleted never comes back under    *)
(* that id; an id handed out for a request that then failed is retired    *)
(* without an object.  A name is bound only to a persisted object, and may *)
(* be unbound.  Deleting an object does not touch the names index.        *)
(***************************************************************************)
CONSTANTS Objects, Names, NoObject

VARIABLES objects, binding

States == {"fresh", "transient", "persistent", "retired"}

Live == {o \in Objects : objects[o] \in {"transient", "persistent"}}

TypeOK ==
    /\ objects \in [Objects -> States]
    /\ binding \in [Names -> Objects \cup {NoObject}]

Init ==
    /\ objects = [o \in Objects |-> "fresh"]
    /\ binding = [n \in Names |-> NoObject]

Create(o) ==
    /\ objects[o] = "fresh"
    /\ objects' = [objects EXCEPT ![o] = "transient"]
    /\ UNCHANGED binding

Persist(o) ==
    /\ objects[o] = "transient"
    /\ objects' = [objects EXCEPT ![o] = "persistent"]
    /\ UNCHANGED binding

Delete(S) ==
    /\ S # {} /\ S \subseteq Live
    /\ objects' = [o \in Objects |-> IF o \in S THEN "retired" ELSE objects[o]]
    /\ UNCHANGED binding

Retire(o) ==
    /\ objects[o] = "fresh"
    /\ objects' = [objects EXCEPT ![o] = "retired"]
    /\ UNCHANGED binding

Bind(n, o) ==
    /\ objects[o] = "persistent"
    /\ binding' = [binding EXCEPT ![n] = o]
    /\ UNCHANGED objects

Unbind(n) ==
    /\ binding[n] # NoObject
    /\ binding' = [binding EXCEPT ![n] = NoObject]
    /\ UNCHANGED objects

Next ==
    \/ \E o \in Objects : Create(o) \/ Persist(o) \/ Retire(o)
    \/ \E S \in SUBSET Objects : Delete(S)
    \/ \E n \in Names : Unbind(n) \/ \E o \in Objects : Bind(n, o)

Spec == Init /\ [][Next]_<<objects, binding>>

====
