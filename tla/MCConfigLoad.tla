---------------------------- MODULE MCConfigLoad ----------------------------
(* An instance of ConfigLoad for TLC: every way three files may include each *)
(* other, and every way three types in one file may extend each other.       *)
EXTENDS ConfigLoad, TLC

CONSTANTS main, sub, leaf, A, B, C, key, title, byKey

(* Fields: plain ones, references, and one derived from the path.            *)
Plain(f) == [name |-> f, type |-> <<Text>>, with |-> {}]
RefTo(t) == [name |-> title, type |-> t, with |-> {}]
Derived(f) == [name |-> f, type |-> <<Text>>, with |-> {"source"}]
Bad == [name |-> title, type |-> <<Text>>, with |-> {"repeated", "unique"}]

SomeType ==
    [extends |-> NoParent, identifier |-> byKey, fields |-> <<Plain(key)>>,
     schema |-> NoSchema, include |-> TRUE, data |-> FALSE]

MCFileOrder == <<leaf, main, sub>>
MCEntityOrder == <<A, B, C>>
MCIdentifiers == {byKey, PathId}
FieldOfIdentifier == byKey :> key @@ PathId :> PathId

(* Every include graph: each file has up to two include patterns.            *)
IncludeLists ==
    {<<>>} \cup {<<s>> : s \in SUBSET {sub, leaf}}
           \cup {<<{f}, {g}>> : f \in Files, g \in {sub, leaf}}

Names == {{}, {A}, {B}}

Documents ==
    {[current |-> TRUE, includes |-> inc, entities |-> [t \in names |-> SomeType]] :
        inc \in IncludeLists, names \in Names}

Graphs ==
    {w \in [Files -> Documents \cup {Unreadable}] :
        /\ w[main] # Unreadable /\ B \notin DOMAIN w[main].entities
        /\ w[leaf] # Unreadable => Len(w[leaf].includes) < 2}

(* A file of another version, wherever it is included.                       *)
OldVersion ==
    {[f \in Files |-> [current |-> f # old, includes |-> <<{sub}>>,
                       entities |-> [t \in {A} |-> SomeType]]] : old \in Files}

(* Every inheritance graph of three types in one file.                       *)
Shapes ==
    {[SomeType EXCEPT !.extends = t, !.identifier = i, !.fields = fs,
                      !.include = inc # "data", !.data = inc = "data"] :
        t \in {NoParent, A, B}, i \in {byKey, PathId, NoIdentifier},
        fs \in {<<Plain(key)>>, <<Plain(title)>>, <<Derived(title)>>},
        inc \in {"include", "data"}}

(* Types with a fault of their own, in an inheritance graph or not.          *)
Others ==
    {[SomeType EXCEPT !.extends = t, !.fields = fs] :
        t \in Entities, fs \in {<<>>, <<Bad>>, <<RefTo(<<A, B>>)>>, <<RefTo(<<A, Text>>)>>,
                                <<RefTo(<<A, A>>)>>, <<Plain(title), Derived(title)>>}}
    \cup {[SomeType EXCEPT !.fields = fs, !.schema = s, !.include = inc] :
        fs \in {<<>>, <<Plain(key)>>}, s \in {BadSchema, <<Plain(key)>>},
        inc \in BOOLEAN}

Alone(entities) ==
    [f \in Files |-> IF f = main THEN [current |-> TRUE, includes |-> <<>>,
                                       entities |-> entities]
                     ELSE Unreadable]

Inheritance ==
    {Alone(A :> a @@ B :> b @@ C :> c) :
        a \in {s \in Shapes : s.extends \in {NoParent, B}},
        b \in {s \in Shapes : s.extends \in {NoParent, A} /\ s.include},
        c \in {s \in Shapes : s.extends = B} \cup Others}
    \cup {Alone(B :> b @@ C :> c) : b \in Shapes, c \in Others}

AllWorkspaces == Graphs \cup OldVersion \cup Inheritance
=============================================================================
