-------------------------- MODULE MCStoreProcesses --------------------------
(* Two processes on a workspace of pets in files of their own (a1, a2),      *)
(* dogs, which are pets, in a list, and notes (note, and out, outside the     *)
(* root), which their files identify.                                       *)
EXTENDS StoreProcesses, TLC

CONSTANTS Pet, Dog, Note, i1, i2, a1, a2, list, note, out, nm, v, w, x

Family == [t \in Types |-> IF t = Note THEN {Note} ELSE {Pet, Dog}]
Assignable == [t \in Types |-> IF t = Pet THEN {Pet, Dog} ELSE {t}]

FileOrder == <<a1, a2, list, note, out>>
OwnFile == [i \in Ids |-> IF i = i1 THEN a1 ELSE a2]
Layout ==
    Pet  :> <<[kind |-> "glob", files |-> {a1, a2}, named |-> OwnFile]>> @@
    Dog  :> <<[kind |-> "plain", files |-> {list}, named |-> OwnFile]>> @@
    Note :> <<[kind |-> "glob", files |-> {note, out}, named |-> OwnFile]>>

NoInline == [t \in Types |-> <<>>]

(* Dogs derive a field from a path segment that their list does not have.     *)
NotAtList == [t \in Types |-> IF t = Dog THEN Paths \ {list} ELSE Paths]

(* The objects are sorted by their identifiers.                              *)
ById == [item \in Item |-> IF item.id = NoId THEN 3 ELSE IF item.id = i1 THEN 1 ELSE 2]

(* The value v is, or has in it, a list of items that is not sorted, and x is  *)
(* the same in order.                                                       *)
SortLists == [fields \in FieldMaps |->
                 [n \in Names |-> IF fields[n] = v THEN x ELSE fields[n]]]

Of(i, value) == [id |-> i, fields |-> nm :> value]
List(items) == [shape |-> "multi", type |-> Dog, items |-> items]

Nothing == [p \in Paths |-> IF p \in {note, out} THEN Single(Of(NoId, v)) ELSE Absent]
WithPets == [Nothing EXCEPT ![a1] = Single(Of(i1, v)), ![list] = List(<<Of(i2, v)>>)]
WithDogs == [Nothing EXCEPT ![list] = List(<<Of(i2, v), Of(i1, v), Of(i2, w)>>)]
Workspaces == {WithPets, WithDogs}

SomePayloads == {nm :> w}
SomeJobs ==
    {[op |-> "create", type |-> Pet, key |-> i] : i \in Ids}
    \cup {[op |-> "create", type |-> Dog, key |-> i1], [op |-> "delete", type |-> Pet, key |-> i1]}
    \cup {[op |-> op, type |-> Dog, key |-> i2] : op \in {"merge", "delete"}}
    \cup {[op |-> "update", type |-> Note, key |-> k] : k \in {note, out}}
(* The processes differ in nothing but their names.                          *)
SameProcesses == Permutations(Processes)

(* The hypotheses of the theorems about fmt, torn files and files of their own. *)
ASSUME SortsByIdentifierHere == SortsByIdentifier
ASSUME NothingTornHere == NothingTorn
ASSUME OrderlyHere == \E owner \in [Paths -> Ids \cup {NoId}] : Orderly(owner)
=============================================================================
