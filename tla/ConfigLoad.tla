----------------------------- MODULE ConfigLoad -----------------------------
(***************************************************************************)
(* Loading the configuration (config.Load): the root file and the files it *)
(* includes are merged into one set of entity types, the inheritance       *)
(* between the types is checked, and each type is resolved against its     *)
(* parent.  One process does this, call by call; the loader's recursion is *)
(* a stack of frames, and an error anywhere ends the load.                 *)
(***************************************************************************)
EXTENDS Naturals, Sequences, FiniteSets, SequencesExt

CONSTANTS
    Files,         \* the configuration files there may be
    Root,          \* the one that is loaded
    FileOrder,     \* FileOrder[n]: the n-th file in the order of sort.Strings
    Entities,      \* the names of the entity types
    EntityOrder,   \* EntityOrder[n]: the n-th name in that order
    NoParent,      \* a type without "extends"
    FieldNames,    \* the names of the fields
    Identifiers,   \* identifier definitions: field, generated and pattern
    FieldOf,       \* FieldOf[i]: the field that identifier definition i names
    PathId,        \* the identifier definition "$path"
    NoIdentifier,  \* a type without "identifier"
    Text,          \* a primitive type of which a derived field may be
    Number,        \* one of which it may not be
    NoSchema,      \* a type without "json_schema"
    BadSchema,     \* a schema that cannot be loaded or converted
    Unreadable,    \* the content of a file that cannot be read or parsed
    NoMatch,       \* the match of an include pattern that matches no file
    Workspaces     \* the contents of the files a run starts with

ASSUME OrderAssumption ==
    /\ FileOrder \in Seq(Files) /\ Range(FileOrder) = Files
    /\ EntityOrder \in Seq(Entities) /\ Range(EntityOrder) = Entities

ASSUME NamesAssumption ==
    /\ Root \in Files /\ NoMatch \notin Files
    /\ NoParent \notin Entities
    /\ PathId \in Identifiers /\ NoIdentifier \notin Identifiers
    /\ FieldOf \in [Identifiers -> FieldNames \cup {PathId}]
    /\ \A i \in Identifiers : FieldOf[i] = PathId <=> i = PathId

(* rawFieldDefinition: its type, as the members of the union it may be, and  *)
(* which of its other keys are there.                                       *)
Field == [name : FieldNames,
          type : Seq(Entities \cup {Text, Number}),
          with : SUBSET {"repeated", "unique", "source", "default"}]

(* rawTypeSpec.  An identifier that is null is none; "fields" is a list, in  *)
(* which YAML lets a name occur twice.                                      *)
TypeSpec == [extends    : Entities \cup {NoParent},
             identifier : Identifiers \cup {NoIdentifier},
             fields     : Seq(Field),
             schema     : {NoSchema, BadSchema} \cup Seq(Field),
             include    : BOOLEAN,
             data       : BOOLEAN]

(* rawConfigDocument: whether the mergeway version is the current one, the   *)
(* files that each include matches, and the entities.                       *)
IsDocument(doc) ==
    /\ doc.current \in BOOLEAN
    /\ doc.includes \in Seq(SUBSET Files)
    /\ DOMAIN doc.entities \subseteq Entities
    /\ \A t \in DOMAIN doc.entities : doc.entities[t] \in TypeSpec

ASSUME WorkspacesAssumption ==
    /\ NoSchema \notin Seq(Field) /\ BadSchema \notin Seq(Field)
    /\ \A w \in Workspaces : \A f \in Files : w[f] = Unreadable \/ IsDocument(w[f])

VARIABLES
    files,         \* the content of every file
    phase,         \* what the load is doing, or how it ended
    frames,        \* the running calls of loadRecursive, innermost last
    cache,         \* the aggregates of the files that were loaded
    calls,         \* the running calls of visit or resolve, innermost last
    visited,       \* the types in state "done" of validateInheritanceCycles
    types          \* the resolved types

vars == <<files, phase, frames, cache, calls, visited, types>>

Phases == {"load", "visit", "resolve", "references", "done"}
Errors == {"include error", "inheritance error", "type error", "reference error"}

---------------------------------------------------------------------------
(* Includes.                                                                *)

(* What the loops over the includes of a document and over their sorted      *)
(* matches load: an include and the rank of a match; rank 0 is no match.      *)
Todo(doc) ==
    UNION {{<<n, rank>> : rank \in IF doc.includes[n] = {} THEN {0}
                                   ELSE {r \in DOMAIN FileOrder : FileOrder[r] \in doc.includes[n]}} :
           n \in DOMAIN doc.includes}

Match(place) == IF place[2] = 0 THEN NoMatch ELSE FileOrder[place[2]]

Foremost(todo) ==
    CHOOSE here \in todo : \A there \in todo :
        here[1] < there[1] \/ (here[1] = there[1] /\ here[2] <= there[2])

(* The entities of an aggregate: names with the files that define them.      *)
Defined(f) == {[name |-> t, source |-> f] : t \in DOMAIN files[f].entities}

NamesOf(agg) == {e.name : e \in agg}

Frame(f) == [file |-> f, todo |-> Todo(files[f]), agg |-> {}]

(* The file a call of loadRecursive calls itself for.                        *)
NextMatch(frame) == Match(Foremost(frame.todo))

Fail(error) ==
    /\ phase' = error
    /\ UNCHANGED <<files, frames, cache, calls, visited, types>>

(* aggregateConfig.merge into the caller's aggregate, as the caller goes on  *)
(* to its next match.                                                       *)
Merge(caller, agg) ==
    [caller EXCEPT !.todo = @ \ {Foremost(@)}, !.agg = @ \cup agg]

(* loadRecursive for a file that is in the cache.                            *)
UseCached ==
    /\ phase = "load" /\ Last(frames).todo # {}
    /\ LET caller == Last(frames)
           f      == NextMatch(caller)
       IN  /\ f \in DOMAIN cache
           /\ IF NamesOf(caller.agg) \cap NamesOf(cache[f]) # {}
              THEN Fail("include error")
              ELSE /\ frames' = Append(Front(frames), Merge(caller, cache[f]))
                   /\ UNCHANGED <<files, phase, cache, calls, visited, types>>

(* Mutant of OnStack: only a file that includes itself is a cycle.           *)
OnStack_CallerOnly(f) == Last(frames).file = f

OnStack(f) == \E n \in DOMAIN frames : frames[n].file = f

(* Mutant of EnterFile: the aggregate is put into the cache when it is made. *)
EnterFile_CachesEarly ==
    /\ phase = "load" /\ Last(frames).todo # {}
    /\ LET f == NextMatch(Last(frames))
       IN  /\ f \notin DOMAIN cache
           /\ IF f = NoMatch \/ OnStack(f) \/ files[f] = Unreadable
              THEN Fail("include error")
              ELSE /\ frames' = Append(frames, Frame(f))
                   /\ cache' = [g \in DOMAIN cache \cup {f} |->
                                   IF g = f THEN {} ELSE cache[g]]
                   /\ UNCHANGED <<files, phase, calls, visited, types>>

(* loadRecursive for another file, up to its first include.                  *)
EnterFile ==
    /\ phase = "load" /\ Last(frames).todo # {}
    /\ LET f == NextMatch(Last(frames))
       IN  /\ f \notin DOMAIN cache
           /\ IF f = NoMatch \/ OnStack(f) \/ files[f] = Unreadable
              THEN Fail("include error")
              ELSE /\ frames' = Append(frames, Frame(f))
                   /\ UNCHANGED <<files, phase, cache, calls, visited, types>>

(* addDocument, at the end of loadRecursive, and the caller's merge; the      *)
(* root's aggregate goes to normalizeAggregate, which looks at the parents.  *)
ReturnFile ==
    /\ phase = "load" /\ Last(frames).todo = {}
    /\ LET top    == Last(frames)
           own    == Defined(top.file)
           agg    == top.agg \cup own
           others == Front(frames)
       IN  IF \/ ~files[top.file].current
              \/ NamesOf(top.agg) \cap NamesOf(own) # {}
              \/ others # <<>> /\ NamesOf(Last(others).agg) \cap NamesOf(agg) # {}
           THEN Fail("include error")
           ELSE /\ cache' = [g \in DOMAIN cache \cup {top.file} |->
                                IF g = top.file THEN agg ELSE cache[g]]
                /\ frames' = IF others = <<>> THEN <<>>
                             ELSE Append(Front(others), Merge(Last(others), agg))
                /\ phase' = IF others = <<>> THEN "visit" ELSE phase
                /\ UNCHANGED <<files, calls, visited, types>>

---------------------------------------------------------------------------
(* Inheritance.                                                             *)

(* The aggregate of the root.                                               *)
Loaded == NamesOf(cache[Root])

SpecOf(t) ==
    LET e == CHOOSE e \in cache[Root] : e.name = t IN files[e.source].entities[t]

(* inheritanceGraph.                                                        *)
ParentOf(t) == SpecOf(t).extends
ChildrenOf(t) == {u \in Loaded : ParentOf(u) = t}

Orphan == \E t \in Loaded : ParentOf(t) \notin Loaded \cup {NoParent}

(* The first name, in their order, that is not yet done.                     *)
FirstNot(done) ==
    CHOOSE t \in Loaded \ done :
        \E n \in DOMAIN EntityOrder :
            EntityOrder[n] = t /\ \A m \in 1 .. (n - 1) : EntityOrder[m] \notin Loaded \ done

(* Mutant of Visit: a type that is being visited is taken for done.          *)
Visit_VisitingIsDone ==
    /\ phase = "visit"
    /\ IF Orphan THEN Fail("inheritance error")
       ELSE /\ visited # Loaded
            /\ LET next == IF calls = <<>> THEN FirstNot(visited)
                           ELSE ParentOf(Last(calls))
               IN  /\ next \notin visited \cup {NoParent}
                   /\ IF next \in Range(calls)
                      THEN /\ visited' = visited \cup {Last(calls)}
                           /\ calls' = Front(calls)
                           /\ UNCHANGED <<files, phase, frames, cache, types>>
                      ELSE /\ calls' = Append(calls, next)
                           /\ UNCHANGED <<files, phase, frames, cache, visited, types>>

(* buildInheritanceGraph refuses an unknown parent.  Then visit, of          *)
(* validateInheritanceCycles: its next call ...                             *)
Visit ==
    /\ phase = "visit"
    /\ IF Orphan THEN Fail("inheritance error")
       ELSE /\ visited # Loaded
            /\ LET next == IF calls = <<>> THEN FirstNot(visited)
                           ELSE ParentOf(Last(calls))
               IN  /\ next \notin visited \cup {NoParent}
                   /\ IF next \in Range(calls) THEN Fail("inheritance error")
                      ELSE /\ calls' = Append(calls, next)
                           /\ UNCHANGED <<files, phase, frames, cache, visited, types>>

(* ... and its return.                                                      *)
Visited ==
    /\ phase = "visit" /\ ~Orphan
    /\ calls # <<>>
    /\ ParentOf(Last(calls)) \in visited \cup {NoParent}
    /\ visited' = visited \cup {Last(calls)}
    /\ calls' = Front(calls)
    /\ UNCHANGED <<files, phase, frames, cache, types>>

AllVisited ==
    /\ phase = "visit" /\ ~Orphan
    /\ calls = <<>> /\ visited = Loaded
    /\ phase' = "resolve"
    /\ UNCHANGED <<files, frames, cache, calls, visited, types>>

---------------------------------------------------------------------------
(* Resolution.                                                              *)

(* normalizeFieldDefinition.                                                *)
FieldAccepted(f) ==
    /\ ~({"repeated", "unique"} \subseteq f.with)
    /\ "source" \in f.with => {"repeated", "default"} \cap f.with = {} /\ f.type # <<Number>>

(* The fields of a type itself: a later one of a name hides an earlier one.  *)
FieldMap(list) ==
    [name \in {list[n].name : n \in DOMAIN list} |->
        LET last == CHOOSE n \in DOMAIN list :
                        /\ list[n].name = name
                        /\ \A m \in DOMAIN list : list[m].name = name => m <= n
        IN  list[last]]

LocalFields(spec) == IF spec.schema = NoSchema THEN spec.fields ELSE spec.schema

IsDerived(f) == "source" \in f.with

NoDefinition == [ancestors |-> <<>>, identifier |-> NoIdentifier, fields |-> <<>>,
                 include |-> FALSE, data |-> FALSE]

(* Mutant of IdentifierAccepted: a root may do without one.                  *)
IdentifierAccepted_Optional(spec, identifier) ==
    spec.identifier \in {NoIdentifier, identifier}

(* normalizeIdentifierDefinition: a root has one, a child inherits it or      *)
(* repeats it.                                                              *)
IdentifierAccepted(spec, identifier) ==
    IF spec.extends = NoParent THEN spec.identifier # NoIdentifier
    ELSE spec.identifier \in {NoIdentifier, identifier}

(* Mutant of DataAccepted: the type's own identifier is asked.               *)
DataAccepted_OwnIdentifier(spec, identifier, hasChildren) ==
    /\ ~(spec.identifier = PathId /\ spec.data)
    /\ spec.include \/ spec.data \/ hasChildren

(* Objects come from somewhere, or from the children, and inline ones do not  *)
(* have a path for an identifier.                                           *)
DataAccepted(spec, identifier, hasChildren) ==
    /\ ~(identifier = PathId /\ spec.data)
    /\ spec.include \/ spec.data \/ hasChildren

(* The fields of a type itself, or its schema.                               *)
FieldsAccepted(spec, identifier, hasChildren) ==
    LET isRoot == spec.extends = NoParent
        local  == LocalFields(spec)
        own    == FieldMap(local)
    IN  /\ spec.schema # NoSchema => spec.fields = <<>> /\ isRoot /\ ~hasChildren
        /\ isRoot /\ spec.schema = NoSchema => spec.fields # <<>>
        /\ spec.schema # BadSchema
        /\ \A n \in DOMAIN local : FieldAccepted(local[n])
        /\ \A name \in DOMAIN own :
               IsDerived(own[name]) => ~spec.data /\ FieldOf[identifier] # name

(* mergeInheritedFields: no name twice, in the type or in an ancestor.  It   *)
(* does not look at a type without a parent.                                *)
FieldsMerge(spec, parent) ==
    spec.extends # NoParent =>
        LET local == LocalFields(spec)
        IN  \A n \in DOMAIN local :
                /\ local[n].name \notin DOMAIN parent.fields
                /\ \A m \in DOMAIN local : local[m].name = local[n].name => m = n

(* What normalizeTypeDefinition makes of an accepted type.                   *)
Definition(t, spec, parent, identifier) ==
    LET own == FieldMap(LocalFields(spec))
    IN  [ancestors  |-> IF spec.extends = NoParent THEN <<>>
                        ELSE Append(parent.ancestors, spec.extends),
         identifier |-> identifier,
         fields     |-> [name \in DOMAIN parent.fields \cup DOMAIN own |->
                            IF name \in DOMAIN own THEN own[name] ELSE parent.fields[name]],
         include    |-> spec.include,
         data       |-> spec.data]

(* Mutant of ParentDefinition: the parent as it is in the files.             *)
ParentDefinition_FromSpec(t) ==
    IF ParentOf(t) = NoParent THEN NoDefinition
    ELSE Definition(ParentOf(t), SpecOf(ParentOf(t)), NoDefinition,
                    types[ParentOf(t)].identifier)

ParentDefinition(t) == IF ParentOf(t) = NoParent THEN NoDefinition ELSE types[ParentOf(t)]

(* The next call of resolve goes to the parent first ...                     *)
CallResolve ==
    /\ phase = "resolve"
    /\ Loaded # DOMAIN types
    /\ LET next == IF calls = <<>> THEN FirstNot(DOMAIN types)
                   ELSE ParentOf(Last(calls))
       IN  /\ next \notin DOMAIN types \cup {NoParent}
           /\ calls' = Append(calls, next)
    /\ UNCHANGED <<files, phase, frames, cache, visited, types>>

(* ... and then to normalizeTypeDefinition.                                  *)
Resolve ==
    /\ phase = "resolve" /\ calls # <<>>
    /\ ParentOf(Last(calls)) \in DOMAIN types \cup {NoParent}
    /\ LET t      == Last(calls)
           spec   == SpecOf(t)
           parent == ParentDefinition(t)
           identifier  == IF spec.extends = NoParent THEN spec.identifier ELSE parent.identifier
           hasChildren == ChildrenOf(t) # {}
       IN  IF \/ ~IdentifierAccepted(spec, identifier)
              \/ ~DataAccepted(spec, identifier, hasChildren)
              \/ ~FieldsAccepted(spec, identifier, hasChildren)
              \/ ~FieldsMerge(spec, parent)
           THEN Fail("type error")
           ELSE /\ types' = [u \in DOMAIN types \cup {t} |->
                                IF u = t THEN Definition(t, spec, parent, identifier)
                                ELSE types[u]]
                /\ calls' = Front(calls)
                /\ UNCHANGED <<files, phase, frames, cache, visited>>

AllResolved ==
    /\ phase = "resolve" /\ calls = <<>> /\ DOMAIN types = Loaded
    /\ phase' = "references"
    /\ UNCHANGED <<files, frames, cache, calls, visited, types>>

(* parseReferenceTypes and the look-up of what it yields: a union has         *)
(* reference types only, each once.                                         *)
ReferencesAccepted(f) ==
    /\ Len(f.type) = 1 \/ Range(f.type) \cap {Text, Number} = {}
    /\ IsInjective(f.type)
    /\ Range(f.type) \subseteq Loaded \cup {Text, Number}

(* validateFieldReferences, over all types.                                  *)
CheckReferences ==
    /\ phase = "references"
    /\ IF \A t \in Loaded : \A name \in DOMAIN types[t].fields :
              ReferencesAccepted(types[t].fields[name])
       THEN /\ phase' = "done"
            /\ UNCHANGED <<files, frames, cache, calls, visited, types>>
       ELSE Fail("reference error")

---------------------------------------------------------------------------
(* A root that cannot be read fails at once, and is left out.                *)
Init ==
    /\ files \in Workspaces /\ files[Root] # Unreadable
    /\ phase = "load"
    /\ frames = <<Frame(Root)>>
    /\ cache = <<>>
    /\ calls = <<>>
    /\ visited = {}
    /\ types = <<>>

(* LoadWithOps has returned.                                                *)
Ended == phase \in Errors \cup {"done"} /\ UNCHANGED vars

Next ==
    \/ UseCached
    \/ EnterFile
    \/ ReturnFile
    \/ Visit
    \/ Visited
    \/ AllVisited
    \/ CallResolve
    \/ Resolve
    \/ AllResolved
    \/ CheckReferences
    \/ Ended

Spec == Init /\ [][Next]_vars

---------------------------------------------------------------------------
(* What one comes to from x by steps of a relation, given as a function from  *)
(* each to the set of its successors: the least set that has x and, with any  *)
(* of its members, the successors.                                          *)
Reached(step, x) ==
    {y \in DOMAIN step :
        \A S \in SUBSET DOMAIN step :
            x \in S /\ (\A z \in S : step[z] \subseteq S) => y \in S}

(* Config.IsA, on the loaded configuration: a walk up "extends".             *)
Extending == [t \in Loaded |-> {ParentOf(t)} \cap Loaded]

IsA(child, parent) == child \in Loaded /\ parent \in Reached(Extending, child)

(* Config.DescendantTypes and Config.AssignableTypes.                        *)
DescendantTypes(t) == {u \in Loaded \ {t} : IsA(u, t)}
AssignableTypes(t) == {t} \cup DescendantTypes(t)

---------------------------------------------------------------------------
(* Properties.                                                              *)

LoadTypeOK ==
    /\ phase \in Phases \cup Errors
    /\ \A n \in DOMAIN frames : frames[n].file \in Files
    /\ DOMAIN cache \subseteq Files
    /\ Range(calls) \cup visited \cup DOMAIN types \subseteq Entities
    /\ \A t \in DOMAIN types : types[t].identifier \in Identifiers

(* The files that f includes, directly and however indirectly.               *)
Including ==
    [f \in Files \cup {NoMatch} |->
        IF f = NoMatch \/ files[f] = Unreadable THEN {}
        ELSE {Match(place) : place \in Todo(files[f])}]

Closure(f) == Reached(Including, f)

(* The includes are in order: every file that is reached can be read, none   *)
(* includes itself however indirectly, and no entity is reached twice by     *)
(* different includes.                                                      *)
WellIncluded ==
    LET reached  == Closure(Root)
        names(f) == UNION {DOMAIN files[g].entities : g \in Closure(f)}
    IN  /\ NoMatch \notin reached
        /\ \A f \in reached : files[f] # Unreadable /\ files[f].current
        /\ \A f \in reached : \A g \in Including[f] : f \notin Closure(g)
        /\ \A f \in reached : \A here \in Todo(files[f]) :
               /\ names(Match(here)) \cap DOMAIN files[f].entities = {}
               /\ \A there \in Todo(files[f]) \ {here} :
                      names(Match(here)) \cap names(Match(there)) = {}

(* The cache and the stack accept exactly the includes that are in order,    *)
(* and then nothing that is reached is lost: a cycle is reported, and a file  *)
(* that two includes reach is an error if any entity comes from it.           *)
IncludesJudgedRight ==
    /\ phase = "include error" => ~WellIncluded
    /\ phase \in (Phases \ {"load"}) \cup (Errors \ {"include error"}) =>
           /\ WellIncluded
           /\ cache[Root] = UNION {Defined(f) : f \in Closure(Root)}

(* No call is nested in itself: the recursion of the loader, over files and  *)
(* over types that the user wrote, ends.                                    *)
RecursionEnds ==
    /\ \A n, m \in DOMAIN frames : frames[n].file = frames[m].file => n = m
    /\ \A n, m \in DOMAIN calls : calls[n] = calls[m] => n = m

(* Exactly the inheritance graphs with an unknown parent or a cycle are       *)
(* refused, whichever type the walk starts from.                             *)
InheritanceJudgedRight ==
    LET faulty == Orphan \/ \E t \in Loaded : ParentOf(t) # NoParent /\ IsA(ParentOf(t), t)
    IN  /\ phase = "inheritance error" => faulty
        /\ phase \in {"resolve", "references", "done"} => ~faulty

(* A type that is resolved has what it and its ancestors declare, each field *)
(* from one of them, in whatever order the types were come by.                *)
ResolvedAgainstAncestors ==
    \A t \in DOMAIN types :
        LET family == {u \in Loaded : IsA(t, u)}
        IN  /\ Range(types[t].ancestors) = family \ {t}
            /\ \A n \in DOMAIN types[t].ancestors : t \notin Range(types[types[t].ancestors[n]].ancestors)
            /\ DOMAIN types[t].fields =
                   UNION {DOMAIN FieldMap(LocalFields(SpecOf(u))) : u \in family}
            /\ \A name \in DOMAIN types[t].fields :
                   Cardinality({u \in family :
                       \E n \in DOMAIN LocalFields(SpecOf(u)) :
                           LocalFields(SpecOf(u))[n].name = name}) = 1

(* What the store relies on: the types of a hierarchy are identified in one  *)
(* way, a type identified by its path has no inline data, an identifier       *)
(* field is not derived, and the assignable types nest.                       *)
StoreMayRely ==
    phase = "done" =>
        \A t \in Loaded :
            /\ \A u \in AssignableTypes(t) :
                   /\ types[u].identifier = types[t].identifier
                   /\ AssignableTypes(u) \subseteq AssignableTypes(t)
            /\ types[t].identifier = PathId => ~types[t].data
            /\ \A name \in DOMAIN types[t].fields :
                   FieldOf[types[t].identifier] = name => ~IsDerived(types[t].fields[name])
=============================================================================
