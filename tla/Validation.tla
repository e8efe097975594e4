----------------------------- MODULE Validation -----------------------------
(***************************************************************************)
(* "mergeway-cli validate" and the validation within the LSP's reloads: it *)
(* reads the files of every type, then judges format, schema and           *)
(* references, each phase only when the one before found nothing.          *)
(*                                                                         *)
(* Validation has its own code for reading the files.  It is one process;  *)
(* others may write the files while it reads them.  The files are those of *)
(* ObjectStore, which is what the other commands make of them.             *)
(***************************************************************************)
EXTENDS ObjectStore

CONSTANTS
    TypeOrder,     \* TypeOrder[n]: the n-th type in the order of their names
    Joined,        \* Joined[t][n]: the files that t's n-th include matches
                   \* when it is joined to the root
    Matching,      \* Matching[t]: the identifiers that satisfy the pattern of
                   \* t's identifier
    FieldsOf,      \* FieldsOf[t]: the fields of t, inherited ones included,
                   \* with their definitions
    OptionSets,    \* the options a run may be called with
    Edits,         \* what another process may write into a file
    MaxEdits       \* a bound: how often it does

(* FieldDefinition.  "accepts" are the values that satisfy type, enum,        *)
(* pattern and format; "refs" are the types a reference may be to.           *)
FieldDefinition == [required : BOOLEAN,
                    unique   : BOOLEAN,
                    accepts  : SUBSET Values,
                    refs     : SUBSET Types,
                    default  : Values \cup {Unset}]

(* Options, once normalizePhases has put in all the phases for none.          *)
Phases == {"format", "schema", "references"}
Options == [phases : SUBSET Phases \ {{}}, failFast : BOOLEAN]

ASSUME ValidationAssumption ==
    /\ TypeOrder \in Seq(Types) /\ {TypeOrder[n] : n \in DOMAIN TypeOrder} = Types
    /\ \A n, m \in DOMAIN TypeOrder : TypeOrder[n] = TypeOrder[m] => n = m
    /\ \A t \in Types : DOMAIN Joined[t] = DOMAIN Includes[t]
    /\ \A t \in Types : Matching[t] \subseteq Keys[t]
    /\ \A t \in Types : FieldsOf[t] \in UNION {[ns -> FieldDefinition] : ns \in SUBSET Names}
    /\ OptionSets \subseteq Options
    /\ Edits \subseteq Files \cup {Absent}
    /\ MaxEdits \in Nat

(* Inline data is of objects of the type; a hierarchy has a topmost type.     *)
ASSUME ConfigAssumption ==
    \A t \in Types :
        /\ \A k \in DOMAIN Inline[t] : k \in Keys[t] /\ Inline[t][k] \in FieldMaps
        /\ \E root \in Types : HierarchyOf[t] = AssignableTo[root]

VARIABLES
    options,       \* the options of this run
    stage,         \* what the run does next
    todo,          \* the types whose files are still to be read
    raw,           \* the objects that were read
    left,          \* those the current phase has still to check
    index,         \* those the schema phase has found no error in
    seen,          \* the values of unique fields it has come by
    found,         \* the errors of the phase so far: sets, in order
    errors,        \* the errors that are reported
    edits,         \* how many writes there were
    atStart        \* the files when the run began

runVars == <<options, stage, todo, raw, left, index, seen, found, errors, atStart>>
vars == <<disk, reply, edits, runVars>>

Done(t) == t \notin todo

---------------------------------------------------------------------------
(* Format: collectObjects.                                                  *)

(* Where a file, an object of a file (its number there is the third), and     *)
(* the inline data are among what is read for t.                            *)
FilePlace(n, rank) == <<n, rank, 0>>
InlinePlace(t) == <<Len(Includes[t]) + 1, 0, 0>>

(* resolveIncludeMatches: the matches of each include, sorted.  (An include   *)
(* that is listed twice, which counts once, is not modelled.)                *)
MatchesOf(t) ==
    {m \in {FilePlace(n, rank) : n \in DOMAIN Includes[t], rank \in DOMAIN PathOrder} :
        FileAt(m) \in Joined[t][m[1]] /\ disk[FileAt(m)] # Absent}

(* parseDataFile succeeds.                                                   *)
Parses(t, m) ==
    LET f == disk[FileAt(m)]
    IN  IF Includes[t][m[1]].kind = "selector" THEN f.shape = "multi" /\ f.items # <<>>
        ELSE f.shape # "broken" /\ f.type \in {NoType, t}

(* parsedFile.Multi.                                                        *)
ParsedMulti(t, m) ==
    LET f == disk[FileAt(m)]
    IN  IF Includes[t][m[1]].kind = "selector" THEN Len(f.items) # 1 ELSE f.shape = "multi"

(* Mutant of Usable: a list is taken for a $path type as well.               *)
Usable_ListForPath(t, m) ==
    Parses(t, m) /\ (FileAt(m) \in DerivesAt[t] \/ disk[FileAt(m)].items = <<>>)

(* The file yields objects of t: each with its derived fields.               *)
Usable(t, m) ==
    /\ Parses(t, m)
    /\ ~(ParsedMulti(t, m) /\ t \in PathTypes)
    /\ FileAt(m) \in DerivesAt[t] \/ disk[FileAt(m)].items = <<>>

(* A file without a key in it: the object it yields has no data.             *)
NoData(f) ==
    /\ f.shape = "single" /\ f.type = NoType
    /\ f.items[1] = [id |-> NoId, fields |-> [n \in Names |-> Unset]]

(* Mutant of RawObject: a field that is called like one is the identifier.    *)
RawObject_ItemId(t, m, k) ==
    LET item == disk[FileAt(m)].items[k]
    IN  [type |-> t, at |-> <<m[1], m[2], k>>, key |-> item.id, fields |-> item.fields,
         empty |-> NoData(disk[FileAt(m)])]

(* rawObject: the key is what identifierForObject will make of it.           *)
RawObject(t, m, k) ==
    LET item == disk[FileAt(m)].items[k]
    IN  [type |-> t, at |-> <<m[1], m[2], k>>,
         key |-> IF t \in PathTypes THEN FileAt(m) ELSE item.id, fields |-> item.fields,
         empty |-> NoData(disk[FileAt(m)])]

(* The inline data, after the files; their order is left open.               *)
InlineObjects(t) ==
    {[type |-> t, at |-> InlinePlace(t), key |-> k, fields |-> Inline[t][k],
      empty |-> FALSE] : k \in DOMAIN Inline[t]}

(* loadTypeObjects.                                                         *)
ObjectsIn(t, m) ==
    {RawObject(t, m, k) : k \in IF Usable(t, m) THEN DOMAIN disk[FileAt(m)].items ELSE {}}

Error(phase, t, key, fault) == [phase |-> phase, type |-> t, key |-> key, fault |-> fault]

(* A file that parses but is of no use is labelled as a schema error.         *)
FileError(t, m) ==
    Error(IF Parses(t, m) THEN "schema" ELSE "format", t, FileAt(m), "file")

(* The order in which the objects, or the files, of one type are read.       *)
PlaceBefore(s, u) ==
    \/ s[1] < u[1]
    \/ s[1] = u[1] /\ s[2] < u[2]
    \/ s[1] = u[1] /\ s[2] = u[2] /\ s[3] < u[3]

(* One turn of the loop over the types, which goes over a map in any order.   *)
Collect(t) ==
    LET useless == {m \in MatchesOf(t) : ~Usable(t, m)}
        first   == {m \in useless : \A o \in useless : ~PlaceBefore(o, m)}
        errs(S) == {FileError(t, m) : m \in S}
    IN  /\ stage = "collect" /\ t \in todo
        /\ todo' = todo \ {t}
        /\ raw' = raw \cup InlineObjects(t) \cup UNION {ObjectsIn(t, m) : m \in MatchesOf(t)}
        /\ found' = IF useless = {} THEN found ELSE found \o <<errs(first), errs(useless)>>
        /\ UNCHANGED <<disk, reply, edits, options, stage, left, index, seen, errors, atStart>>

---------------------------------------------------------------------------
(* The end of a phase.                                                      *)

RunsPhase(p) ==
    p \in options.phases \/ (p = "schema" /\ "references" \in options.phases)

(* Errors end the run: with fail-fast, one of the first object that has any.  *)
(* They are reported if the phase was asked for.                             *)
Verdict(phase, errs, next) ==
    /\ IF errs = <<>>
       THEN stage' = next /\ UNCHANGED errors
       ELSE /\ stage' = "done"
            /\ \E first \in Head(errs) :
                   errors' = IF ~RunsPhase(phase) THEN {}
                             ELSE IF options.failFast THEN {first}
                             ELSE UNION {errs[n] : n \in DOMAIN errs}
    /\ left' = raw /\ found' = <<>>
    /\ UNCHANGED <<disk, reply, edits, options, todo, raw, index, seen, atStart>>

FormatVerdict ==
    /\ stage = "collect" /\ todo = {}
    /\ Verdict("format", found, "schema")

---------------------------------------------------------------------------
(* Schema: validateSchema.                                                  *)

TypeBefore(t, u) ==
    \E n, m \in DOMAIN TypeOrder : n < m /\ TypeOrder[n] = t /\ TypeOrder[m] = u

(* The loops go over the types by name, and over the objects as they were     *)
(* read.                                                                    *)
Earlier(o, obj) ==
    \/ TypeBefore(o.type, obj.type)
    \/ o.type = obj.type /\ PlaceBefore(o.at, obj.at)

(* The turn of obj, the first that is left, with the errors it has.          *)
Check(obj, errs) ==
    /\ \A o \in left : ~Earlier(o, obj)
    /\ left' = left \ {obj}
    /\ found' = IF errs = {} THEN found ELSE Append(found, errs)
    /\ UNCHANGED <<disk, reply, edits, options, stage, todo, raw, errors, atStart>>

(* validateField: a value that is not there is the default, or nothing.      *)
FieldFault(def, value) ==
    LET given == IF value = Unset THEN def.default ELSE value
    IN  IF given = Unset THEN def.required ELSE given \notin def.accepts

(* The unique values of an object.  A default does not count.                *)
UniqueValues(obj) ==
    {<<obj.type, n, obj.fields[n]>> : n \in {n \in DOMAIN FieldsOf[obj.type] :
        FieldsOf[obj.type][n].unique /\ obj.fields[n] # Unset}}

FieldErrors(obj) ==
    {Error("schema", obj.type, obj.key, n) : n \in {n \in DOMAIN FieldsOf[obj.type] :
        FieldFault(FieldsOf[obj.type][n], obj.fields[n])}}
    \cup {Error("schema", obj.type, obj.key, "unique") : value \in UniqueValues(obj) \cap seen}

(* Only an object without an error stands in the way of another with its      *)
(* identifier.                                                              *)
Duplicate(obj) == \E o \in index : o.type = obj.type /\ o.key = obj.key

(* What ends the check of an object before its fields are looked at.          *)
Refusal(obj) ==
    IF obj.empty THEN "empty"
    ELSE IF obj.key = NoId THEN "identifier"
    ELSE IF obj.key \notin Matching[obj.type] THEN "pattern"
    ELSE IF Duplicate(obj) THEN "duplicate"
    ELSE "none"

ObjectErrors(obj) ==
    IF Refusal(obj) # "none" THEN {Error("schema", obj.type, obj.key, Refusal(obj))}
    ELSE FieldErrors(obj)

(* One turn of validateTypeSchema.  An object with an error in its fields     *)
(* takes its unique values all the same.                                     *)
CheckObject(obj) ==
    /\ stage = "schema"
    /\ Check(obj, ObjectErrors(obj))
    /\ index' = IF ObjectErrors(obj) = {} THEN index \cup {obj} ELSE index
    /\ seen' = IF Refusal(obj) # "none" THEN seen ELSE seen \cup UniqueValues(obj)

(* obj.typeDef.Name and its Ancestors.                                       *)
AssignableFrom(t) == {u \in Types : t \in AssignableTo[u]}

(* Mutant of Conflicts: an object is put into the index of its own type only. *)
Conflicts_OwnIndexOnly(obj) ==
    \E o \in index :
        /\ o.key = obj.key
        /\ TypeBefore(o.type, obj.type)
        /\ o.type \in AssignableFrom(obj.type)

(* buildAssignableIndex: a type that comes before obj's in the order has an    *)
(* object with this identifier that obj's type, or an ancestor of it, can be  *)
(* assigned.                                                                *)
Conflicts(obj) ==
    \E o \in index :
        /\ o.key = obj.key
        /\ TypeBefore(o.type, obj.type)
        /\ AssignableFrom(obj.type) \cap AssignableFrom(o.type) # {}

(* The conflicts within the hierarchies come after the errors of the types.   *)
SchemaVerdict ==
    LET clashing == {obj \in index : Conflicts(obj)}
        first    == {obj \in clashing : \A o \in clashing : ~TypeBefore(o.type, obj.type)}
        errs(S)  == {Error("schema", obj.type, obj.key, "hierarchy") : obj \in S}
    IN  /\ stage = "schema" /\ left = {}
        /\ Verdict("schema",
                   IF clashing = {} THEN found ELSE found \o <<errs(first), errs(clashing)>>,
                   IF "references" \in options.phases THEN "references" ELSE "done")

---------------------------------------------------------------------------
(* References: validateReferences.                                          *)

(* schemaIndex.byAssignable[t][key] is not empty.                            *)
Assignable(t, key) == \E o \in index : o.type \in AssignableTo[t] /\ o.key = key

(* A reference that is there, and not a default, must be to an object of one  *)
(* of the types it may be to.                                               *)
ReferenceErrors(obj) ==
    {Error("references", obj.type, obj.key, n) : n \in {n \in DOMAIN FieldsOf[obj.type] :
        /\ FieldsOf[obj.type][n].refs # {} /\ obj.fields[n] # Unset
        /\ Cardinality({u \in FieldsOf[obj.type][n].refs : Assignable(u, obj.fields[n])}) # 1}}

CheckReferences(obj) ==
    /\ stage = "references"
    /\ Check(obj, ReferenceErrors(obj))
    /\ UNCHANGED <<index, seen>>

ReferenceVerdict ==
    /\ stage = "references" /\ left = {}
    /\ Verdict("references", found, "done")

---------------------------------------------------------------------------
(* Another process writes a file, before all of them are read.               *)
Edit ==
    /\ edits < MaxEdits /\ stage = "collect" /\ todo # {}
    /\ edits' = edits + 1
    /\ \E p \in Paths : \E content \in Edits :
           disk[p] # content /\ disk' = [disk EXCEPT ![p] = content]
    /\ UNCHANGED <<reply, runVars>>

ValidationInit ==
    /\ Init
    /\ options \in OptionSets
    /\ stage = "collect" /\ todo = Types
    /\ raw = {} /\ left = {} /\ index = {} /\ seen = {}
    /\ found = <<>> /\ errors = {}
    /\ edits = 0
    /\ atStart = disk

(* Validate has returned.                                                   *)
Returned == stage = "done" /\ UNCHANGED vars

ValidationNext ==
    \/ \E t \in Types : Collect(t)
    \/ FormatVerdict
    \/ \E obj \in left : CheckObject(obj)
    \/ SchemaVerdict
    \/ \E obj \in left : CheckReferences(obj)
    \/ ReferenceVerdict
    \/ Edit
    \/ Returned

ValidationSpec == ValidationInit /\ [][ValidationNext]_vars

---------------------------------------------------------------------------
(* Properties.                                                              *)

(* What the store makes of the files as they were when they were d.           *)
StoreAt(d) == INSTANCE ObjectStore WITH disk <- d

(* What was read are objects of the types; those in the index have an         *)
(* identifier of their type, and no two of a type the same; what is reported  *)
(* are errors of the phases, about the types.                               *)
ValidationTypeOK ==
    /\ stage \in {"collect", "schema", "references", "done"}
    /\ todo \subseteq Types
    /\ left \subseteq raw /\ index \subseteq raw
    /\ \A obj \in raw : obj.type \in Types /\ obj.key \in Keys[obj.type] \cup {NoId}
    /\ \A obj \in index : obj.key \in Keys[obj.type]
    /\ \A o, obj \in index : o.type = obj.type /\ o.key = obj.key => o = obj
    /\ \A e \in errors : e.phase \in Phases /\ e.type \in Types

(* Every file of the types can be read as objects.                           *)
FormatRight(d) ==
    \A t \in Types : \A s \in StoreAt(d)!Positions(t) :
        /\ s[3] # 0
        /\ StoreAt(d)!FileAt(s) \in DerivesAt[t]

(* Every object there is, inline or in a file: where it is, and the fields.   *)
ObjectsAt(d, t) ==
    {[type |-> t, at |-> s, key |-> StoreAt(d)!KeyAt(t, s),
      fields |-> StoreAt(d)!FoundAt(t, s).fields,
      empty |-> NoData(d[StoreAt(d)!FileAt(s)])] : s \in StoreAt(d)!Positions(t)}
    \cup InlineObjects(t)

SchemaRight(d) ==
    /\ \A t \in Types : \A u \in HierarchyOf[t] : \A a \in ObjectsAt(d, t), b \in ObjectsAt(d, u) :
           /\ ~a.empty /\ a.key \in Matching[t]
           /\ a.key = b.key => t = u /\ a.at = b.at
    /\ \A t \in Types : \A a \in ObjectsAt(d, t) :
           /\ \A n \in DOMAIN FieldsOf[t] : ~FieldFault(FieldsOf[t][n], a.fields[n])
           /\ \A b \in ObjectsAt(d, t) :
                  UniqueValues(a) \cap UniqueValues(b) # {} => a.at = b.at /\ a.key = b.key

ReferencesRight(d) ==
    \A t \in Types : \A a \in ObjectsAt(d, t) : \A n \in DOMAIN FieldsOf[t] :
        FieldsOf[t][n].refs # {} /\ a.fields[n] # Unset =>
            Cardinality({u \in FieldsOf[t][n].refs :
                \E v \in AssignableTo[u] : \E b \in ObjectsAt(d, v) : b.key = a.fields[n]}) = 1

(* A phase that was asked for finds a fault in the files d.                   *)
Faulty(d) ==
    \/ RunsPhase("format") /\ ~FormatRight(d)
    \/ RunsPhase("schema") /\ ~SchemaRight(d)
    \/ RunsPhase("references") /\ ~ReferencesRight(d)

(* The documentation has the file win where an identifier is both inline and  *)
(* in a file, and promises the phases that are asked for whatever is wrong in *)
(* the others.  The code reports the one as a duplicate, and is silent after  *)
(* a file that does not parse when format was not asked for.                 *)
DocsDiffer(d) ==
    \/ \E t \in Types : \E s \in StoreAt(d)!Positions(t) :
           StoreAt(d)!KeyAt(t, s) \in DOMAIN Inline[t]
    \/ ~FormatRight(d) /\ ~RunsPhase("format")

(* Where the documentation and the code agree, validation reports an error    *)
(* exactly when a phase that was asked for finds a fault, in any order of the *)
(* types, with fail-fast or without; when a file is written meanwhile, the    *)
(* verdict is the one for the files before or after.                         *)
VerdictOfOneMoment ==
    stage = "done" /\ ~DocsDiffer(atStart) /\ ~DocsDiffer(disk) =>
        IF errors # {} THEN Faulty(atStart) \/ Faulty(disk)
                       ELSE ~Faulty(atStart) \/ ~Faulty(disk)

(* After a clean run of all phases the store, which reads the files with code  *)
(* of its own, can list every type and get every object listed, and finds     *)
(* every reference in exactly one of its types.                              *)
StoreWorks(d) ==
    \A t \in Types :
        /\ StoreAt(d)!AllLoads(t)
        /\ \A e \in StoreAt(d)!AllEntries(t) :
               /\ StoreAt(d)!Get(t, e.key) = e.loc
               /\ \A n \in DOMAIN FieldsOf[e.loc.type] :
                      LET value == e.loc.fields[n]
                          refs  == FieldsOf[e.loc.type][n].refs
                      IN  refs # {} /\ value # Unset =>
                              Cardinality({u \in refs :
                                  StoreAt(d)!Get(u, value) # StoreAt(d)!NotFound}) = 1

CleanMeansStoreWorks ==
    stage = "done" /\ errors = {} /\ {"format", "references"} \subseteq options.phases =>
        StoreWorks(atStart) \/ StoreWorks(disk)

---------------------------------------------------------------------------
(* What the theorems about the verdict ask for.                              *)

(* The store and the validation look for the files in the same places: the    *)
(* command is run in the root of the workspace.                              *)
RunsInRoot == \A t \in Types : \A n \in DOMAIN Includes[t] : Joined[t][n] = Includes[t][n].files

(* No file is matched for two types.                                        *)
FilesApart ==
    \A t, u \in Types : t # u =>
        \A n \in DOMAIN Includes[t], m \in DOMAIN Includes[u] :
            Includes[t][n].files \cap Includes[u][m].files = {}

(* Nothing was written, or one file, of one type.                            *)
AtMostOneWrite == edits = 0 \/ (edits = 1 /\ FilesApart)
=============================================================================
