--------------------------- MODULE MCObjectStore ---------------------------
(* Instances of ObjectStore for TLC: a hierarchy of two types, Animal and    *)
(* its child Dog, and a $path type, Note, when it is among Types.            *)
EXTENDS ObjectStore, TLC

CONSTANTS Animal, Dog, Note, i1, i2, i3, i4, a1, a2, a4, d, doc, n, nm, v

Family ==
    [t \in Types |-> IF t = Note THEN {Note} ELSE {Animal, Dog}]

Assignable ==
    [t \in Types |-> IF t = Animal THEN {Animal, Dog} ELSE {t}]

(* Animals in files of their own, dogs in the list d, some of them in doc, which *)
(* a selector reads, a note in n.                                           *)
FileOrder == SelectSeq(<<a1, a2, a4, d, doc, n>>, LAMBDA p : p \in Paths)

(* The file of an identifier: two share one, three where there is no a2.     *)
OwnFile ==
    [i \in Ids |-> IF i = i4 THEN a4 ELSE IF i = i2 /\ a2 \in Paths THEN a2 ELSE a1]

Plain(p) == [kind |-> "plain", files |-> {p}, named |-> OwnFile]
Glob(files) == [kind |-> "glob", files |-> files, named |-> OwnFile]
Selector(p) == [kind |-> "selector", files |-> {p}, named |-> OwnFile]

Layout ==
    [t \in Types |-> IF t = Animal THEN <<Glob({OwnFile[i] : i \in Ids})>>
                     ELSE IF t = Dog THEN <<Selector(doc), Plain(d)>>
                     ELSE <<Glob({n})>>]

Full == nm :> v

InlineDog == [t \in Types |-> IF t = Dog THEN i3 :> Full ELSE <<>>]

Everywhere == [t \in Types |-> Paths]

(* Animals derive a field from a path segment that a4 does not have.         *)
NotAtA4 == [t \in Types |-> IF t = Animal THEN Paths \ {a4} ELSE Paths]

Of(i) == [id |-> i, fields |-> Full]
One(i) == [shape |-> "single", type |-> NoType, items |-> <<Of(i)>>]
List(t, items) == [shape |-> "multi", type |-> t, items |-> items]
Broken == [shape |-> "broken", type |-> NoType, items |-> <<>>]

(* A dog in doc, and nothing or two dogs in the list.                       *)
Orderly == [p \in Paths |-> IF p = doc THEN List(NoType, <<Of(i2)>>) ELSE Absent]
WithDogs == [Orderly EXCEPT ![d] = List(Dog, <<Of(i1), Of(i4)>>)]
OrderlyAnimals == {Orderly, WithDogs}

(* Anything in the animals' files, much in the others.                       *)
Repeated == List(NoType, <<Of(i4), Of(i1), Of(i4)>>)
Anything ==
    {Absent, Broken, One(i1), One(NoId), [One(i3) EXCEPT !.type = Dog],
     Repeated, List(Animal, <<>>)}
AnyDisk ==
    {workspace \in [Paths -> Anything] :
        /\ workspace[a4] \notin {Broken, List(Animal, <<>>)}
        /\ workspace[doc] \in {One(i1), Repeated}
        /\ workspace[n] \in {Absent, One(NoId)}}

(* The hypotheses of the theorems about the other objects.                   *)
ASSUME ApartHere == Unshared /\ CreatesApart

(* The hypotheses of the theorem about the map.                              *)
ASSUME InOrderHere ==
    InitialDisks = OrderlyAnimals =>
        /\ WellLaidOut
        /\ \A workspace \in InitialDisks : Tidy(workspace)
=============================================================================
