----------------------------- MODULE ObjectMap -----------------------------
(***************************************************************************)
(* What the create, update and delete commands promise, without files: a   *)
(* map from an entity type and an identifier to the fields of an object.   *)
(* Identifiers are unique across a hierarchy of types.  ObjectStore, which *)
(* models the files, implements this on a well laid out workspace.         *)
(***************************************************************************)
EXTENDS Naturals

CONSTANTS
    Types,
    HierarchyOf,   \* the types a type shares its identifiers with
    Keys,          \* Keys[t]: the identifiers an object of t may have
    Creatable,     \* Creatable[t]: the identifiers t has a place to write for
    Fields,        \* the values of an object
    Merge(_, _),   \* the value of an object when fields are merged into it
    Missing,       \* no such object
    Quiet          \* no command has run yet

ASSUME HierarchyAssumption ==
    /\ HierarchyOf \in [Types -> SUBSET Types]
    /\ \A t \in Types : t \in HierarchyOf[t]
    /\ \A t, u \in Types : u \in HierarchyOf[t] => HierarchyOf[u] = HierarchyOf[t]

(* A hierarchy has one kind of identifier.                                  *)
ASSUME KeysAssumption ==
    \A t \in Types : \A u \in HierarchyOf[t] : Keys[u] = Keys[t]

ASSUME MissingAssumption == Missing \notin Fields

ASSUME MergeAssumption == \A f, g \in Fields : Merge(f, g) \in Fields

VARIABLES
    objects,       \* the fields of every object there is
    fixed,         \* the objects no command may change
    reply          \* what the last command was, and whether it succeeded

mapVars == <<objects, fixed, reply>>

Refs == UNION {{t} \X Keys[t] : t \in Types}

(* A command, its payload (Missing when it has none, or was refused), and    *)
(* whether it succeeded.  "merge" is an update that merges.                  *)
Reply ==
    UNION {[op     : {"create", "update", "merge", "delete"},
            type   : {t},
            key    : Keys[t],
            fields : Fields \cup {Missing},
            ok     : BOOLEAN] : t \in Types}

Answer(op, t, k, f, ok) ==
    [op |-> op, type |-> t, key |-> k, fields |-> f, ok |-> ok]

(* The identifier belongs to an object of the hierarchy.                     *)
Taken(t, k) == \E u \in HierarchyOf[t] : objects[<<u, k>>] # Missing

(* The object is there and may be changed.                                  *)
Changeable(t, k) == objects[<<t, k>>] # Missing /\ <<t, k>> \notin fixed

(* No identifier names two objects of a hierarchy.                          *)
KeysUnique ==
    \A t \in Types : \A u \in HierarchyOf[t] : \A k \in Keys[t] :
        objects[<<t, k>>] # Missing /\ objects[<<u, k>>] # Missing => t = u

MapInit ==
    /\ objects \in [Refs -> Fields \cup {Missing}]
    /\ fixed \in SUBSET Refs
    /\ KeysUnique
    /\ reply = Quiet

Create(t, k, f) ==
    /\ reply' = Answer("create", t, k, f, TRUE)
    /\ ~Taken(t, k)
    /\ k \in Creatable[t]
    /\ objects' = [objects EXCEPT ![<<t, k>>] = f]
    /\ UNCHANGED fixed

Update(t, k, f) ==
    /\ reply' = Answer("update", t, k, f, TRUE)
    /\ Changeable(t, k)
    /\ objects' = [objects EXCEPT ![<<t, k>>] = f]
    /\ UNCHANGED fixed

MergeInto(t, k, f) ==
    /\ reply' = Answer("merge", t, k, f, TRUE)
    /\ Changeable(t, k)
    /\ objects' = [objects EXCEPT ![<<t, k>>] = Merge(@, f)]
    /\ UNCHANGED fixed

Delete(t, k) ==
    /\ reply' = Answer("delete", t, k, Missing, TRUE)
    /\ Changeable(t, k)
    /\ objects' = [objects EXCEPT ![<<t, k>>] = Missing]
    /\ UNCHANGED fixed

RefuseCreate(t, k) ==
    /\ reply' = Answer("create", t, k, Missing, FALSE)
    /\ Taken(t, k) \/ k \notin Creatable[t]
    /\ UNCHANGED <<objects, fixed>>

RefuseChange(op, t, k) ==
    /\ reply' = Answer(op, t, k, Missing, FALSE)
    /\ op \in {"update", "merge", "delete"}
    /\ ~Changeable(t, k)
    /\ UNCHANGED <<objects, fixed>>

MapNext ==
    \E t \in Types : \E k \in Keys[t] :
        \/ \E f \in Fields : Create(t, k, f) \/ Update(t, k, f) \/ MergeInto(t, k, f)
        \/ Delete(t, k)
        \/ RefuseCreate(t, k)
        \/ \E op \in {"update", "merge", "delete"} : RefuseChange(op, t, k)

MapSpec == MapInit /\ [][MapNext]_mapVars
---------------------------------------------------------------------------
MapTypeOK ==
    /\ objects \in [Refs -> Fields \cup {Missing}]
    /\ fixed \in SUBSET Refs
    /\ reply \in Reply \cup {Quiet}
=============================================================================
