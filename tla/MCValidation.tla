---------------------------- MODULE MCValidation ----------------------------
(* An instance of Validation for TLC: pets in a file of their own, dogs in  *)
(* a list and in a file that a selector reads, and a person in the config.    *)
EXTENDS Validation, TLC

CONSTANTS Pet, Dog, Person, Note, a1, dl, doc, nf, i1, i2, nm, chip

Family == [t \in Types |-> IF t \in {Pet, Dog} THEN {Pet, Dog} ELSE {t}]
AssignableTypes == [t \in Types |-> IF t = Pet THEN {Pet, Dog} ELSE {t}]

NoFile == [i \in Ids |-> a1]
Plain(p) == [kind |-> "plain", files |-> {p}, named |-> NoFile]
Glob(files) == [kind |-> "glob", files |-> files, named |-> NoFile]
Selector(p) == [kind |-> "selector", files |-> {p}, named |-> NoFile]

Layout ==
    Pet :> <<Glob({a1})>> @@ Dog :> <<Selector(doc), Plain(dl)>>
    @@ Person :> <<>> @@ Note :> <<Glob({nf})>>
JoinedToRoot == [t \in Types |-> [k \in DOMAIN Layout[t] |-> Layout[t][k].files]]

Order == <<Dog, Note, Person, Pet>>
FileOrder == <<a1, dl, doc, nf>>

(* The identifier of a pet has a pattern.                                   *)
Patterns == [t \in Types |-> IF t = Pet THEN {i1} ELSE Keys[t]]

(* A friend is a pet or a person; a dog must have a chip of its own.      *)
Friend == [required |-> FALSE, unique |-> FALSE, accepts |-> Values,
           refs |-> {Pet, Person}, default |-> Unset]
Chip == [required |-> TRUE, unique |-> TRUE, accepts |-> {i2},
         refs |-> {}, default |-> i2]
Definitions ==
    Pet :> (nm :> Friend) @@ Dog :> (nm :> Friend @@ chip :> Chip)
    @@ Person :> <<>> @@ Note :> <<>>

With(f, c) == nm :> f @@ chip :> c
People == [t \in Types |-> IF t = Person THEN i2 :> With(Unset, Unset) ELSE <<>>]
NotesDerive == [t \in Types |-> Paths]

Of(i, f, c) == [id |-> i, fields |-> With(f, c)]
One(item) == [shape |-> "single", type |-> NoType, items |-> <<item>>]
List(items) == [shape |-> "multi", type |-> NoType, items |-> items]
Broken == [shape |-> "broken", type |-> NoType, items |-> <<>>]

Strays == {Absent, Broken, One(Of(i1, i2, Unset)), One(Of(i2, i1, Unset)),
            [One(Of(i1, Unset, Unset)) EXCEPT !.type = Dog], One(Of(NoId, Unset, Unset))}
Dogs == {Absent, List(<<>>), List(<<Of(i1, Unset, Unset)>>), List(<<Of(i1, i1, i2)>>),
         List(<<Of(i2, i1, i2), Of(i1, Unset, Unset)>>), List(<<Of(i2, Unset, i1)>>),
         List(<<Of(i1, Unset, i2), Of(i2, i1, i2)>>)}
SomeDogs == {Absent, List(<<>>), List(<<Of(i1, i2, Unset)>>), List(<<Of(i2, i1, i1)>>)}
Notes == {Absent, One(Of(NoId, Unset, Unset)), One(Of(NoId, Unset, i1)),
          One(Of(i1, Unset, Unset)), List(<<Of(i1, Unset, Unset)>>)}

SomeDisks ==
    {w \in [Paths -> Strays \cup Dogs \cup Notes] :
        w[a1] \in Strays /\ w[dl] \in Dogs /\ w[doc] \in SomeDogs /\ w[nf] \in Notes}

Writes == {Absent, List(<<Of(i1, i1, i2)>>)}

SomeOptions ==
    {[phases |-> Phases, failFast |-> FALSE], [phases |-> Phases, failFast |-> TRUE],
     [phases |-> {"schema"}, failFast |-> FALSE], [phases |-> {"references"}, failFast |-> TRUE]}

(* The hypotheses of the theorems about the verdict.                         *)
ASSUME VerdictHypotheses == RunsInRoot /\ FilesApart
=============================================================================
