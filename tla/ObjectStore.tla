---------------------------- MODULE ObjectStore ----------------------------
(***************************************************************************)
(* The object store (data.Store) behind the list, get, create, update and  *)
(* delete commands: objects of the entity types, in files that the types'  *)
(* includes match, one object to a file or several under "items".          *)
(*                                                                         *)
(* A command is one process that reads the files, decides, and writes or   *)
(* removes at most one of them; here it runs alone, so it is one action.   *)
(* The files it finds were written by hand, in any shape.                  *)
(***************************************************************************)
EXTENDS Naturals, Sequences, FiniteSets

CONSTANTS
    Types,         \* the entity types of the configuration
    PathTypes,     \* the types with "identifier: $path"
    AssignableTo,  \* AssignableTo[t]: t and its descendants
    HierarchyOf,   \* HierarchyOf[t]: t's topmost ancestor and its descendants
    Includes,      \* Includes[t]: t's includes, in order
    Inline,        \* Inline[t]: t's inline data, identifier to fields
    DerivesAt,     \* DerivesAt[t]: the files whose path yields every field of
                   \* t that is derived from the path
    Ids,           \* the values of an identifier field
    NoId,          \* an object without a usable identifier
    Names,         \* the names of the other fields
    Values,        \* their values
    Unset,         \* a field an object, or a payload, does not have
    Paths,         \* the files
    PathOrder,     \* PathOrder[n]: the n-th file in the order of Glob
    InRoot,        \* the files inside the workspace root
    Absent,        \* no such file
    NoType,        \* a file without a "type" key
    InitialDisks,  \* the workspaces a run starts with
    Missing,       \* no object (in the abstract map)
    Quiet          \* no command has run yet

(* The fields of an object, or of a payload, other than its identifier.      *)
FieldMaps == [Names -> Values \cup {Unset}]

Item == [id : Ids \cup {NoId}, fields : FieldMaps]

(* fileContent, for any file: "single" is one object, "multi" has "items",   *)
(* "broken" does not parse.                                                 *)
Contents == [shape : {"single", "multi", "broken"},
             type  : Types \cup {NoType},
             items : Seq(Item)]

(* A file that is not a list holds one object.                               *)
Files == {f \in Contents : f.shape = "single" => Len(f.items) = 1}

Disks == [Paths -> Files \cup {Absent}]

(* IncludeDefinition: the files its path or pattern matches.  A glob also    *)
(* names the file of an identifier (replaceGlob of sanitizeFilename), which  *)
(* need not match the pattern and need not be another for every identifier.  *)
Include == [kind  : {"plain", "glob", "selector"},
            files : SUBSET Paths,
            named : [Ids -> Paths]]

(* What identifies an object: the path of its file for a $path type.         *)
Keys == [t \in Types |-> IF t \in PathTypes THEN Paths ELSE Ids]

ASSUME TypesAssumption ==
    /\ PathTypes \subseteq Types
    /\ AssignableTo \in [Types -> SUBSET Types]
    /\ HierarchyOf \in [Types -> SUBSET Types]
    /\ \A t \in Types : t \in AssignableTo[t] /\ AssignableTo[t] \subseteq HierarchyOf[t]
    /\ \A t, u \in Types : u \in HierarchyOf[t] =>
           /\ HierarchyOf[u] = HierarchyOf[t]
           /\ t \in PathTypes => u \in PathTypes

ASSUME LayoutAssumption ==
    /\ Includes \in [Types -> Seq(Include)]
    /\ \A t \in Types : \A n \in DOMAIN Includes[t] :
           Includes[t][n].kind = "plain" => \E p \in Paths : Includes[t][n].files = {p}
    /\ DerivesAt \in [Types -> SUBSET Paths]
    /\ InRoot \subseteq Paths
    /\ PathOrder \in Seq(Paths)
    /\ {PathOrder[n] : n \in DOMAIN PathOrder} = Paths

(* A $path type has no inline data.                                         *)
ASSUME InlineAssumption ==
    /\ DOMAIN Inline = Types
    /\ \A t \in PathTypes : DOMAIN Inline[t] = {}

ASSUME ValuesAssumption ==
    /\ NoType \notin Types
    /\ NoId \notin Ids \cup Paths
    /\ Absent \notin Contents
    /\ Missing \notin FieldMaps

ASSUME DisksAssumption == InitialDisks \subseteq Disks

VARIABLES
    disk,          \* the content of every file
    reply          \* what the last command was, and whether it succeeded

storeVars == <<disk, reply>>

(* "merge" is an update that merges; a refused command has no fields.        *)
Answer(op, t, k, fields, ok) ==
    [op |-> op, type |-> t, key |-> k, fields |-> fields, ok |-> ok]

---------------------------------------------------------------------------
(* Reading.                                                                 *)

(* loadFile, without a selector: it parses, and declares no other type.      *)
LoadsAs(t, f) == f.shape # "broken" /\ f.type \in {NoType, t}

(* loadFile, for an include.  A selector stands for "$.items[*]": it reads   *)
(* the items whatever the file's type, and must match some.                 *)
Loads(t, inc, f) ==
    IF inc.kind = "selector" THEN f.shape = "multi" /\ f.items # <<>>
                             ELSE LoadsAs(t, f)

(* Multi: several objects, or a list that may hold one.                      *)
Several(inc, f) == IF inc.kind = "selector" THEN Len(f.items) > 1
                                            ELSE f.shape = "multi"

(* The items of the file are objects of t: a $path type takes one from a     *)
(* file, not a list.                                                        *)
Readable(t, inc, f) == Loads(t, inc, f) /\ ~(t \in PathTypes /\ Several(inc, f))

(* The items of one file as the loops of findObjectInType and loadExactAll   *)
(* come by them for t: the include, the file by its rank, and the item.      *)
(* Item 0 is a file that stops the loop with an error before its first item. *)
ItemsAt(t, n, rank) ==
    LET inc == Includes[t][n]
        f   == disk[PathOrder[rank]]
    IN  IF PathOrder[rank] \notin inc.files \/ f = Absent THEN {}
        ELSE {<<n, rank, k>> : k \in IF Readable(t, inc, f) THEN 1 .. Len(f.items) ELSE {0}}

Positions(t) ==
    UNION {ItemsAt(t, n, rank) : n \in DOMAIN Includes[t], rank \in DOMAIN PathOrder}

Before(s, u) ==
    \/ s[1] < u[1]
    \/ s[1] = u[1] /\ s[2] < u[2]
    \/ s[1] = u[1] /\ s[2] = u[2] /\ s[3] <= u[3]

FirstOf(positions) == CHOOSE s \in positions : \A u \in positions : Before(s, u)

FileAt(s) == PathOrder[s[2]]

(* deriveIdentifierValue, for an item of the file at path; NoId is its error. *)
KeyOf(t, path, item) == IF t \in PathTypes THEN path ELSE item.id

KeyAt(t, s) ==
    IF s[3] = 0 THEN NoId ELSE KeyOf(t, FileAt(s), disk[FileAt(s)].items[s[3]])

(* objectLocation, or the absence of one, or an error.                       *)
NotFound == [status |-> "none"]
Unreadable == [status |-> "error"]

FoundAt(t, s) ==
    [status   |-> "found",
     type     |-> t,
     path     |-> FileAt(s),
     index    |-> s[3],
     fields   |-> disk[FileAt(s)].items[s[3]].fields,
     readOnly |-> Includes[t][s[1]].kind = "selector"]

FoundInline(t, k) == [status |-> "inline", type |-> t, fields |-> Inline[t][k]]

(* Mutant of FindInType: the inline data is asked first.                     *)
FindInType_InlineFirst(t, k) ==
    LET stops == {s \in Positions(t) : KeyAt(t, s) \in {k, NoId}}
        s     == FirstOf(stops)
    IN  IF k \in DOMAIN Inline[t] THEN FoundInline(t, k)
        ELSE IF stops = {} THEN NotFound
        ELSE IF KeyAt(t, s) = NoId THEN Unreadable ELSE FoundAt(t, s)

(* findObjectInType: the first object with the identifier, unless an object  *)
(* or a file that cannot be read comes before it.  Files go before inline    *)
(* data.                                                                    *)
FindInType(t, k) ==
    LET stops == {s \in Positions(t) : KeyAt(t, s) \in {k, NoId}}
        s     == FirstOf(stops)
    IN  IF stops # {}
        THEN IF KeyAt(t, s) = NoId THEN Unreadable ELSE FoundAt(t, s)
        ELSE IF k \in DOMAIN Inline[t] THEN FoundInline(t, k) ELSE NotFound

(* findObjectInTypes: an object found in two types is an error.              *)
FindInTypes(types, k) ==
    LET hits == {FindInType(t, k) : t \in types} \ {NotFound}
    IN  IF hits = {} THEN NotFound
        ELSE IF Unreadable \in hits \/ Cardinality(hits) > 1 THEN Unreadable
        ELSE CHOOSE loc \in hits : TRUE

(* Store.Get.                                                               *)
Get(t, k) ==
    LET loc == FindInTypes(AssignableTo[t], k)
    IN  IF loc.status = "found" /\ loc.path \notin DerivesAt[loc.type]
        THEN Unreadable ELSE loc

(* loadExactAll: every object in the files, then the inline ones whose       *)
(* identifier is not among them.  One unreadable object fails it all.        *)
ExactLoads(t) ==
    \A s \in Positions(t) : KeyAt(t, s) # NoId /\ FileAt(s) \in DerivesAt[t]

ExactEntries(t) ==
    LET inFiles == {KeyAt(t, s) : s \in Positions(t)}
    IN  {[key |-> KeyAt(t, s), loc |-> FoundAt(t, s)] : s \in Positions(t)}
        \cup {[key |-> k, loc |-> FoundInline(t, k)] : k \in (DOMAIN Inline[t]) \ inFiles}

(* loadAll: no identifier in two of the types.                               *)
AllLoads(t) ==
    /\ \A u \in AssignableTo[t] : ExactLoads(u)
    /\ \A e1, e2 \in UNION {ExactEntries(u) : u \in AssignableTo[t]} :
           e1.key = e2.key => e1.loc.type = e2.loc.type

AllEntries(t) == UNION {ExactEntries(u) : u \in AssignableTo[t]}

---------------------------------------------------------------------------
(* Writing: what a command writes, if anything, as a set of at most one      *)
(* [path, content]; Absent is the content of a file that is removed.         *)

(* The includes of t a command may write for, and the globs among them.      *)
WritableIncludes(t) == {n \in DOMAIN Includes[t] : Includes[t][n].kind # "selector"}

Globs(t) == {n \in WritableIncludes(t) : Includes[t][n].kind = "glob"}

Least(S) == CHOOSE n \in S : \A m \in S : n <= m

(* choosePathCreateTarget: the file the identifier names.                    *)
PathTargets(t, k) ==
    {[path |-> p, multi |-> FALSE] :
        p \in {p \in InRoot : p = k /\ \E n \in WritableIncludes(t) :
                                      p \in Includes[t][n].files}}

(* chooseCreateTarget: unless its identifiers are paths, a type writes a     *)
(* file of its own in the first glob, or else into the first plain file.     *)
CreateTargets(t, k) ==
    IF t \in PathTypes THEN PathTargets(t, k)
    ELSE IF WritableIncludes(t) = {} THEN {}
    ELSE IF Globs(t) # {}
    THEN {[path |-> Includes[t][Least(Globs(t))].named[k], multi |-> FALSE]}
    ELSE {[path |-> p, multi |-> TRUE] : p \in Includes[t][Least(WritableIncludes(t))].files}

Single(item) == [shape |-> "single", type |-> NoType, items |-> <<item>>]

(* Mutant of WithCreated: the list is appended to whatever the shape.        *)
WithCreated_AppendsAnyway(t, item, target) ==
    LET f == disk[target.path]
    IN  IF ~target.multi THEN Single(item)
        ELSE IF f = Absent THEN [shape |-> "multi", type |-> t, items |-> <<item>>]
        ELSE [f EXCEPT !.type = t, !.items = Append(@, item)]

(* The target of Create once the object is in it.  A single object in a file *)
(* that should hold several is written back without the new one.             *)
WithCreated(t, item, target) ==
    LET f == disk[target.path]
    IN  IF ~target.multi THEN Single(item)
        ELSE IF f = Absent THEN [shape |-> "multi", type |-> t, items |-> <<item>>]
        ELSE IF f.shape = "single" THEN [f EXCEPT !.type = t]
        ELSE [f EXCEPT !.type = t, !.items = Append(@, item)]

(* What Create stores: a $path type's identifier is not among the fields.    *)
Stored(t, k, fields) == [id |-> IF t \in PathTypes THEN NoId ELSE k, fields |-> fields]

(* Mutant of CreateWrites: the identifier is looked up in t alone.           *)
CreateWrites_OwnTypeOnly(t, k, fields) ==
    {[path |-> target.path, content |-> WithCreated(t, Stored(t, k, fields), target)] :
        target \in {target \in CreateTargets(t, k) :
            /\ FindInTypes({t}, k) = NotFound
            /\ disk[target.path] = Absent \/ LoadsAs(t, disk[target.path])}}

(* Store.Create.                                                            *)
CreateWrites(t, k, fields) ==
    {[path |-> target.path, content |-> WithCreated(t, Stored(t, k, fields), target)] :
        target \in {target \in CreateTargets(t, k) :
            /\ FindInTypes(HierarchyOf[t], k) = NotFound
            /\ disk[target.path] = Absent \/ LoadsAs(t, disk[target.path])}}

(* mergeMaps, for fields that are not maps themselves.                       *)
MergeMaps(old, new) == [n \in Names |-> IF new[n] = Unset THEN old[n] ELSE new[n]]

(* Mutant of Writable: the location is not compared with the root.           *)
Writable_Anywhere(t, loc) == loc.status = "found" /\ ~loc.readOnly

(* What Update and Delete may change.                                        *)
Writable(t, loc) ==
    /\ loc.status = "found"
    /\ ~loc.readOnly
    /\ t \in PathTypes => loc.path \in InRoot

(* The objects with identifier k that Update and Delete may change.          *)
Changeable(t, k) == {loc \in {FindInTypes({t}, k)} : Writable(t, loc)}

(* The object f.items[n] after an update.                                    *)
Updated(f, n, fields, merge) ==
    [f.items[n] EXCEPT !.fields = IF merge THEN MergeMaps(@, fields) ELSE fields]

(* Mutant of UpdateWrites: a file with several objects becomes one of its    *)
(* own.                                                                     *)
UpdateWrites_Splits(t, k, fields, merge) ==
    {[path    |-> loc.path,
      content |-> Single(Updated(disk[loc.path], loc.index, fields, merge))] :
        loc \in Changeable(t, k)}

WithUpdated(t, f, n, item) ==
    IF f.shape = "single" THEN Single(item) ELSE [f EXCEPT !.type = t, !.items[n] = item]

(* Store.Update.  The identifier stays; a single object loses its "type".    *)
UpdateWrites(t, k, fields, merge) ==
    {[path    |-> loc.path,
      content |-> WithUpdated(t, disk[loc.path], loc.index,
                              Updated(disk[loc.path], loc.index, fields, merge))] :
        loc \in Changeable(t, k)}

WithDeleted(t, f, n) ==
    [f EXCEPT !.type = t, !.items = SubSeq(@, 1, n - 1) \o SubSeq(@, n + 1, Len(@))]

(* Store.Delete.  The last object takes its file with it.                    *)
DeleteWrites(t, k) ==
    {[path    |-> loc.path,
      content |-> IF Len(disk[loc.path].items) = 1 THEN Absent
                  ELSE WithDeleted(t, disk[loc.path], loc.index)] :
        loc \in Changeable(t, k)}

---------------------------------------------------------------------------
Init ==
    /\ disk \in InitialDisks
    /\ reply = Quiet

Write(w) == disk' = [disk EXCEPT ![w.path] = w.content]

(* Create and Update answer with the derived fields, and fail after the      *)
(* write when the path does not yield them.                                 *)
Create(t, k) ==
    \E fields \in FieldMaps : \E w \in CreateWrites(t, k, fields) :
        /\ Write(w)
        /\ reply' = Answer("create", t, k, fields, w.path \in DerivesAt[t])

Update(t, k, merge) ==
    \E fields \in FieldMaps : \E w \in UpdateWrites(t, k, fields, merge) :
        /\ Write(w)
        /\ reply' = Answer(IF merge THEN "merge" ELSE "update", t, k, fields,
                            w.path \in DerivesAt[t])

Delete(t, k) ==
    \E w \in DeleteWrites(t, k) :
        /\ Write(w)
        /\ reply' = Answer("delete", t, k, Missing, TRUE)

(* The error returns before the write.                                      *)
RefuseCreate(t, k) ==
    /\ \A fields \in FieldMaps : CreateWrites(t, k, fields) = {}
    /\ reply' = Answer("create", t, k, Missing, FALSE)
    /\ UNCHANGED disk

RefuseChange(op, t, k) ==
    /\ op \in {"update", "merge", "delete"}
    /\ Changeable(t, k) = {}
    /\ reply' = Answer(op, t, k, Missing, FALSE)
    /\ UNCHANGED disk

Next ==
    \E t \in Types : \E k \in Keys[t] :
        \/ Create(t, k)
        \/ \E merge \in BOOLEAN : Update(t, k, merge)
        \/ Delete(t, k)
        \/ RefuseCreate(t, k)
        \/ \E op \in {"update", "merge", "delete"} : RefuseChange(op, t, k)

Spec == Init /\ [][Next]_storeVars

(* A command has run.                                                       *)
Ran == reply # Quiet

(* One command: what it does to any disk it may find.                        *)
OneCommandSpec == Init /\ [][~Ran /\ Next]_storeVars

---------------------------------------------------------------------------
(* The map the files stand for.                                             *)

Refs == UNION {{t} \X Keys[t] : t \in Types}

Objects ==
    [ref \in Refs |->
        LET loc == FindInType(ref[1], ref[2])
        IN  IF loc.status \in {"found", "inline"} THEN loc.fields ELSE Missing]

Fixed ==
    {ref \in Refs :
        LET loc == FindInType(ref[1], ref[2])
        IN  loc.status # "none" /\ ~Writable(ref[1], loc)}

Map == INSTANCE ObjectMap WITH
           Fields    <- FieldMaps,
           Merge     <- MergeMaps,
           Creatable <- [t \in Types |-> {k \in Keys[t] : CreateTargets(t, k) # {}}],
           objects   <- Objects,
           fixed     <- Fixed

---------------------------------------------------------------------------
(* Properties.                                                              *)

(* Whatever a command does, the files keep their shapes.                     *)
StoreTypeOK == disk \in Disks

(* On a well laid out workspace the commands are the map's operations:       *)
(* create adds exactly the new object, unless its identifier is taken in the *)
(* hierarchy, update and delete touch exactly the object they name, and a    *)
(* refusal is for one of the reasons the map gives.                          *)
ImplementsObjectMap == Map!MapSpec

(* Whatever is in the files: when list shows a type, get finds exactly the   *)
(* identifiers listed, and answers with one of the objects list counted.     *)
ListAgreesWithGet ==
    \A t \in Types : AllLoads(t) =>
        \A k \in Keys[t] :
            LET entries == {e.loc : e \in {e \in AllEntries(t) : e.key = k}}
            IN  IF entries = {} THEN Get(t, k) = NotFound ELSE Get(t, k) \in entries

(* Every object that could be found, but for <<t, k>>, is found where it was *)
(* and as it was.                                                           *)
OthersKept(t, k) ==
    \A u \in Types : \A j \in Keys[u] :
        LET before == FindInType(u, j)
            after  == FindInType(u, j)'
        IN  before.status = "found" /\ <<u, j>> # <<t, k>> =>
                /\ after.status = "found"
                /\ after.path = before.path
                /\ after.fields = before.fields

(* No file is matched by the includes of two types.                          *)
Unshared ==
    \A t, u \in Types : t # u =>
        \A m \in DOMAIN Includes[t], n \in DOMAIN Includes[u] :
            Includes[t][m].files \cap Includes[u][n].files = {}

(* No create is in a file that the includes of another type match.            *)
CreatesApart ==
    \A t, u \in Types : t # u =>
        \A k \in Keys[t] : \A target \in CreateTargets(t, k) :
            \A n \in DOMAIN Includes[u] : target.path \notin Includes[u][n].files

(* The identifiers of t that inline data leaves open.                        *)
Open(t) == Keys[t] \ UNION {DOMAIN Inline[u] : u \in HierarchyOf[t]}

(* A workspace laid out so that an object has one place: besides the two     *)
(* conditions above, a file that a selector reads is read by selectors only, *)
(* what create writes is matched by an include, derives every field, and is  *)
(* no other object's file, and inline data repeats no identifier.            *)
WellLaidOut ==
    /\ Unshared
    /\ CreatesApart
    /\ \A t \in Types :
          /\ \A m, n \in DOMAIN Includes[t] :
                Includes[t][m].files \cap Includes[t][n].files # {} =>
                    (Includes[t][m].kind = "selector" <=> Includes[t][n].kind = "selector")
          /\ \A n \in DOMAIN Includes[t] : Includes[t][n].files \subseteq DerivesAt[t]
          /\ \A k \in Open(t) : \A target \in CreateTargets(t, k) :
                /\ \E n \in WritableIncludes(t) : target.path \in Includes[t][n].files
                /\ ~target.multi =>
                      \A j \in Open(t) : target \in CreateTargets(t, j) => j = k
          /\ \A k \in DOMAIN Inline[t] : Inline[t][k] \in FieldMaps
          /\ \A u \in HierarchyOf[t] : t # u => DOMAIN Inline[t] \cap DOMAIN Inline[u] = {}

(* The file at path has f, whose i-th item is the object k of u.             *)
Held(u, path, f, i, k) ==
    /\ f # Absent
    /\ \E n \in DOMAIN Includes[u] : path \in Includes[u][n].files /\ Readable(u, Includes[u][n], f)
    /\ i \in 1 .. Len(f.items) /\ KeyOf(u, path, f.items[i]) = k

(* The files d are in order: every file of a type can be read and all its    *)
(* objects have identifiers, no identifier names two objects of a hierarchy, *)
(* in files or inline, and what create would write has the shape for it.     *)
Tidy(d) ==
    /\ d \in Disks
    /\ \A t \in Types : \A n \in DOMAIN Includes[t] : \A p \in Includes[t][n].files :
          d[p] # Absent =>
              /\ Readable(t, Includes[t][n], d[p])
              /\ \A i \in 1 .. Len(d[p].items) : KeyOf(t, p, d[p].items[i]) # NoId
    /\ \A t \in Types : \A u \in HierarchyOf[t] : \A k \in Keys[t] :
          \A p \in {p \in Paths : d[p] # Absent} : \A i \in 1 .. Len(d[p].items) :
              Held(t, p, d[p], i, k) =>
                  /\ k \notin DOMAIN Inline[u]
                  /\ \A q \in {q \in Paths : d[q] # Absent} : \A j \in 1 .. Len(d[q].items) :
                        Held(u, q, d[q], j, k) => u = t /\ q = p /\ j = i
    /\ \A t \in Types : \A k \in Open(t) : \A target \in CreateTargets(t, k) :
          d[target.path] # Absent =>
              IF target.multi THEN d[target.path].shape = "multi"
              ELSE \A i \in 1 .. Len(d[target.path].items) :
                       KeyOf(t, target.path, d[target.path].items[i]) = k

(* Whatever is in the files, when no two types share one: update and delete  *)
(* leave every other object alone, also those in the file they rewrite.      *)
ChangesKeepOthers ==
    [][Ran' /\ reply'.op # "create" => OthersKept(reply'.type, reply'.key)]_storeVars

(* The places where the hierarchy of t has an object with identifier k.      *)
Places(t, k) ==
    UNION {{<<u, FileAt(s), s[3]>> : s \in {s \in Positions(u) : KeyAt(u, s) = k}} :
               u \in HierarchyOf[t]}

AtMostOne(t, k) == \A place1, place2 \in Places(t, k) : place1 = place2

(* Whatever is in the files, when no two types share one or create in one:   *)
(* no command gives an identifier a second object in its hierarchy.          *)
NoNewDuplicates ==
    [][Ran' =>
           \A t \in Types : \A k \in Keys[t] : AtMostOne(t, k) => AtMostOne(t, k)']_storeVars

(* An object that was reported as created is there.  The code loses the      *)
(* object when its target is a file that holds a single one.                 *)
CreatedIsFound ==
    Ran /\ reply.op = "create" /\ reply.ok =>
        FindInType(reply.type, reply.key).status = "found"
=============================================================================
