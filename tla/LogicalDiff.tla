---------------------------- MODULE LogicalDiff ----------------------------
(***************************************************************************)
(* mergeway-diff: the objects of two snapshots of a git repository,        *)
(* compared by type and identifier, wherever their files are.  A snapshot  *)
(* is a commit, the working tree, or the working tree without what is      *)
(* staged: each file from the working tree if it has unstaged changes and  *)
(* from HEAD otherwise.                                                    *)
(*                                                                         *)
(* A run asks git for one thing after another, and reads the working tree  *)
(* file by file, while the user goes on editing, staging and committing.   *)
(* It keeps a revision as the text it was given, and git resolves it anew   *)
(* each time: HEAD, HEAD~1 and a branch move with every commit.            *)
(* The root is the top of the repository.  Loading one schema is one step. *)
(***************************************************************************)
EXTENDS Naturals, SequencesExt

CONSTANTS
    Types,         \* the names of entity types
    Ids,           \* the values of an identifier field
    NoId,          \* an object without a usable identifier
    Names,         \* the names of the other fields
    Values,        \* their values, lists
    Unset,         \* a field an object does not have
    Paths,         \* the files of the repository
    PathOrder,     \* PathOrder[n]: the n-th file by name
    Ignored,       \* the files .gitignore names
    MainConfig,    \* the file of the configuration
    Contents,      \* what the files contain
    Absent,        \* no such file
    NoType,        \* a file without a "type" key
    Commits,       \* Commits[rev]: the files of a commit
    Tip,           \* a revision that moves: HEAD, or the branch checked out
    Back,          \* another: HEAD~1
    Unknown,       \* an argument that is no revision
    Drafts,        \* Drafts[p]: what the user may write to p
    MaxEdits       \* a bound: how often the user changes the repository

(* What an include pattern matches, and whether a selector follows it.       *)
Include == [files : SUBSET Paths, selector : BOOLEAN]

(* diffSnapshotTypeSpec; "none" is a type without an identifier of its own.   *)
TypeSpec == [identifier : {"field", "path", "none"}, includes : SUBSET Include]

FieldMaps == [Names -> Values \cup {Unset}]

Trees == [Paths -> Contents \cup {Absent}]

(* A configuration file has the types it defines and the patterns it includes, *)
(* a data file one object or several; any file may be "broken".              *)
ASSUME ContentsAssumption ==
    \A c \in Contents :
        \/ /\ c.kind = "config" /\ DOMAIN c.types \subseteq Types
           /\ c.types \in [DOMAIN c.types -> TypeSpec]
           /\ c.includes \in Seq(SUBSET Paths)
        \/ /\ c.kind \in {"single", "multi"} /\ c.type \in Types \cup {NoType}
           /\ c.items \in Seq([id : Ids \cup {NoId}, fields : FieldMaps])
        \/ c.kind = "broken"

ASSUME RepositoryAssumption ==
    /\ \A rev \in DOMAIN Commits : Commits[rev] \in Trees
    /\ {Tip, Back, Unknown} \cap DOMAIN Commits = {}
    /\ Tip # Back /\ Unknown \notin {Tip, Back}
    /\ {PathOrder[n] : n \in DOMAIN PathOrder} = Paths
    /\ \A p \in Paths : Drafts[p] \subseteq Contents

VARIABLES
    head,          \* the files of the commit HEAD
    parent,        \* those of the commit before it
    index,         \* the staged files
    work,          \* the working tree
    edits,         \* how often the user has changed these
    pc,            \* what the run does next
    sides,         \* the two snapshots it compares
    schemas,       \* their schemas
    paths,         \* the data files to compare
    changed,       \* the right reader's list of files with unstaged changes
    files,         \* what has been read of each side
    result,        \* the entries of the diff, or its error
    touched        \* the files of the two snapshots that changed during the run

repository == <<head, parent, index, work, edits>>
run == <<pc, sides, schemas, paths, changed, files, result>>
vars == <<repository, run, touched>>

---------------------------------------------------------------------------
(* Snapshots: the reader.                                                   *)

(* SnapshotRef: "head", "revision", "full" or "unstaged".                    *)
Snapshot(kind, rev) == [kind |-> kind, revision |-> rev]

(* What git makes of a revision at this moment.                              *)
Resolved(rev) ==
    IF rev = Tip THEN head ELSE IF rev = Back THEN parent ELSE Commits[rev]

Tracked == {p \in Paths : index[p] # Absent}

(* Mutant of Changed: the untracked files are not asked for.                 *)
Changed_NoUntracked == {p \in Tracked : work[p] # index[p]}

(* newSnapshotReader: git diff, and git ls-files --others.                   *)
Changed ==
    {p \in Tracked : work[p] # index[p]}
    \cup {p \in Paths \ (Tracked \cup Ignored) : work[p] # Absent}

(* Mutant of Read: files that differ from HEAD come from the working tree.    *)
Read_SinceHead(s, list, p) ==
    CASE s.kind = "head" -> head[p]
      [] s.kind = "revision" -> Resolved(s.revision)[p]
      [] s.kind = "full" -> work[p]
      [] s.kind = "unstaged" -> IF p \notin Ignored THEN work[p] ELSE head[p]

(* Read, by a reader with that list of changed files.                        *)
Read(s, list, p) ==
    CASE s.kind = "head" -> head[p]
      [] s.kind = "revision" -> Resolved(s.revision)[p]
      [] s.kind = "full" -> work[p]
      [] s.kind = "unstaged" -> IF p \in list THEN work[p] ELSE head[p]

(* ListFiles: for both views of the working tree, the files that are there.   *)
ListFiles(s) ==
    CASE s.kind = "head" -> {p \in Paths : head[p] # Absent}
      [] s.kind = "revision" -> {p \in Paths : Resolved(s.revision)[p] # Absent}
      [] s.kind \in {"full", "unstaged"} -> {p \in Paths : work[p] # Absent}

InOrder(set) == SelectSeq(PathOrder, LAMBDA p : p \in set)

---------------------------------------------------------------------------
(* Schemas: the types of the configuration file and of those it includes.    *)

Failed == [ok |-> FALSE]
Loaded(types) == [ok |-> TRUE, types |-> types]

(* merge: no type is defined twice, also not by a file included twice.       *)
MergeTypes(one, other) ==
    IF ~one.ok \/ ~other.ok THEN Failed
    ELSE IF DOMAIN one.types \cap DOMAIN other.types # {} THEN Failed
    ELSE Loaded([t \in DOMAIN one.types \cup DOMAIN other.types |->
                    IF t \in DOMAIN one.types THEN one.types[t] ELSE other.types[t]])

(* What collect reads of a file: the types of its document, and the files that *)
(* its includes match.                                                      *)
Document(s, p) ==
    LET doc == Read(s, Changed, p)
    IN  IF doc = Absent THEN Failed
        ELSE IF doc.kind # "config" THEN Failed
        ELSE [ok      |-> TRUE,
              types   |-> doc.types,
              matches |-> FlattenSeq([n \in DOMAIN doc.includes |->
                              InOrder(ListFiles(s) \cap doc.includes[n])])]

(* collect: the document, then what it includes, none of it twice on one way  *)
(* down.                                                                    *)
Collect(documents) ==
    LET from[p \in Paths, stack \in SUBSET Paths] ==
            IF p \in stack \/ ~documents[p].ok THEN Failed
            ELSE FoldLeft(LAMBDA types, q : MergeTypes(types, from[q, stack \cup {p}]),
                          Loaded(documents[p].types), documents[p].matches)
    IN  from[MainConfig, {}]

(* loadSnapshotDiffSchema.  normalizeDiffSnapshotType wants an identifier of  *)
(* every type, also of one that inherits it.                                 *)
Schema(s) ==
    LET collected == Collect([p \in Paths |-> Document(s, p)])
    IN  IF collected.ok
           /\ \A t \in DOMAIN collected.types : collected.types[t].identifier # "none"
        THEN collected ELSE Failed

Patterns(schema) ==
    UNION {{inc.files : inc \in schema.types[t].includes} : t \in DOMAIN schema.types}

(* Mutant of DataPaths: the patterns are matched in the right snapshot only.  *)
DataPaths_RightOnly(left, right) ==
    ListFiles(right) \cap UNION (Patterns(Schema(left)) \cup Patterns(Schema(right)))

(* discoverDiffDataPaths: the patterns of both schemas, in both snapshots.    *)
DataPaths(left, right) ==
    (ListFiles(left) \cup ListFiles(right))
    \cap UNION (Patterns(Schema(left)) \cup Patterns(Schema(right)))

---------------------------------------------------------------------------
(* Logical databases: the objects of one snapshot.                           *)

(* parseIncludedSnapshotObjects.  A selector stands for "$.items[*]" and must *)
(* match something.                                                         *)
Parses(t, spec, inc, c) ==
    /\ c.kind \in {"single", "multi"}
    /\ IF inc.selector
       THEN c.kind = "multi" /\ c.items # <<>> /\ (spec.identifier = "path" => Len(c.items) = 1)
       ELSE c.type \in {NoType, t} /\ ~(spec.identifier = "path" /\ c.kind = "multi")

(* matchingSnapshotTypeIncludes: what is to be parsed of the files read.      *)
Matches(schema, content) ==
    {m \in [type : DOMAIN schema.types, path : DOMAIN content, include : Include] :
        /\ m.include \in schema.types[m.type].includes
        /\ m.path \in m.include.files
        /\ content[m.path] # Absent}

Parsed(schema, content) ==
    {m \in Matches(schema, content) :
        Parses(m.type, schema.types[m.type], m.include, content[m.path])}

(* The occurrences of objects: a match, and the item of its file.            *)
Occurrences(schema, content) ==
    UNION {{<<m, k>> : k \in DOMAIN content[m.path].items} : m \in Parsed(schema, content)}

(* deriveLogicalObjectID.                                                   *)
IdAt(schema, content, occ) ==
    IF schema.types[occ[1].type].identifier = "path" THEN occ[1].path
    ELSE content[occ[1].path].items[occ[2]].id

ObjectAt(schema, content, occ) ==
    [type   |-> occ[1].type,
     id     |-> IdAt(schema, content, occ),
     fields |-> content[occ[1].path].items[occ[2]].fields,
     source |-> <<occ[1].path, occ[1].include.selector>>]

(* Mutant of Database: the last one of two objects counts.                   *)
Database_LastWins(schema, content) ==
    LET occs == Occurrences(schema, content)
    IN  IF Parsed(schema, content) # Matches(schema, content) THEN Failed
        ELSE IF \E occ \in occs : IdAt(schema, content, occ) = NoId THEN Failed
        ELSE [ok |-> TRUE, objects |-> {ObjectAt(schema, content, occ) : occ \in occs}]

(* buildLogicalDatabase: one file that does not parse, one object without an  *)
(* identifier or with that of another one fails it all.                      *)
Database(schema, content) ==
    LET occs == Occurrences(schema, content)
    IN  IF Parsed(schema, content) # Matches(schema, content) THEN Failed
        ELSE IF \E occ \in occs : IdAt(schema, content, occ) = NoId THEN Failed
        ELSE IF \E occ, other \in occs :
                    /\ occ # other
                    /\ occ[1].type = other[1].type
                    /\ IdAt(schema, content, occ) = IdAt(schema, content, other)
             THEN Failed
        ELSE [ok |-> TRUE, objects |-> {ObjectAt(schema, content, occ) : occ \in occs}]

---------------------------------------------------------------------------
(* The comparison.                                                          *)

(* semanticValuesEqual: the order of a list does not count.                  *)
SameValue(one, other) ==
    /\ Len(one) = Len(other)
    /\ \A e \in ToSet(one) \cup ToSet(other) :
           Len(SelectSeq(one, LAMBDA x : x = e)) = Len(SelectSeq(other, LAMBDA x : x = e))

(* Mutant of FieldChanges: a field that is new is not seen.                  *)
FieldChanges_KnownOnly(old, new) ==
    {name \in Names :
        old[name] # Unset /\ (new[name] = Unset \/ ~SameValue(old[name], new[name]))}

(* diffObjectFields.                                                        *)
FieldChanges(old, new) ==
    {name \in Names :
        IF old[name] = Unset \/ new[name] = Unset THEN old[name] # new[name]
        ELSE ~SameValue(old[name], new[name])}

Key(obj) == <<obj.type, obj.id>>

Entry(kind, key, olds, news, changes) ==
    [kind |-> kind, key |-> key, old |-> olds, new |-> news, changes |-> changes]

(* Mutant of Entries: an object is one in a file.                            *)
Entries_BySource(left, right) ==
    {Entry("removed", Key(o), {o}, {}, {}) :
        o \in {o \in left : \A q \in right : Key(q) # Key(o) \/ q.source # o.source}}
    \cup {Entry("added", Key(o), {}, {o}, {}) :
        o \in {o \in right : \A q \in left : Key(q) # Key(o) \/ q.source # o.source}}
    \cup {Entry("modified", Key(pair[1]), {pair[1]}, {pair[2]},
                FieldChanges(pair[1].fields, pair[2].fields)) :
        pair \in {pair \in left \X right :
                     /\ Key(pair[1]) = Key(pair[2]) /\ pair[1].source = pair[2].source
                     /\ FieldChanges(pair[1].fields, pair[2].fields) # {}}}

(* diffLogicalDatabases: an object that has changed and moved is "modified".  *)
Entries(left, right) ==
    {Entry("removed", Key(o), {o}, {}, {}) :
        o \in {o \in left : \A q \in right : Key(q) # Key(o)}}
    \cup {Entry("added", Key(o), {}, {o}, {}) :
        o \in {o \in right : \A q \in left : Key(q) # Key(o)}}
    \cup {LET changes == FieldChanges(pair[1].fields, pair[2].fields)
          IN  Entry(IF changes # {} THEN "modified" ELSE "relocated",
                    Key(pair[1]), {pair[1]}, {pair[2]}, changes) :
        pair \in {pair \in left \X right :
                     /\ Key(pair[1]) = Key(pair[2])
                     /\ \/ FieldChanges(pair[1].fields, pair[2].fields) # {}
                        \/ pair[1].source # pair[2].source}}

---------------------------------------------------------------------------
(* The run.                                                                 *)

NoResult == [ok |-> TRUE, entries |-> {}]

Init ==
    /\ \E rev \in DOMAIN Commits : head = Commits[rev]
    /\ \E rev \in DOMAIN Commits : parent = Commits[rev]
    /\ \E rev \in DOMAIN Commits : index = Commits[rev]
    /\ work = index
    /\ edits = 0 /\ touched = {}
    /\ pc = "start"
    /\ sides = <<>> /\ schemas = <<>> /\ paths = {} /\ changed = {}
    /\ files = <<[p \in {} |-> Absent], [p \in {} |-> Absent]>>
    /\ result = NoResult

Fail ==
    /\ result' = Failed
    /\ pc' = "done"
    /\ UNCHANGED <<sides, schemas, paths, changed, files>>

(* resolveDiffSnapshots: with no revision, HEAD and the unstaged changes; with *)
(* one, it and the working tree; with two, these.  A revision is only found    *)
(* to be one.                                                               *)
Resolve(args) ==
    /\ pc = "start"
    /\ IF Unknown \in ToSet(args) THEN Fail
       ELSE /\ sides' = CASE Len(args) = 0 -> <<Snapshot("head", Unknown), Snapshot("unstaged", Unknown)>>
                          [] Len(args) = 1 -> <<Snapshot("revision", args[1]), Snapshot("full", Unknown)>>
                          [] Len(args) = 2 -> <<Snapshot("revision", args[1]), Snapshot("revision", args[2])>>
            /\ pc' = "schema"
            /\ UNCHANGED <<schemas, paths, changed, files, result>>
    /\ touched' = {}

(* loadDiffDataCorpora loads the two schemas ...                             *)
LoadSchema ==
    /\ pc = "schema"
    /\ LET schema == Schema(sides[Len(schemas) + 1])
       IN  IF ~schema.ok THEN Fail
           ELSE /\ schemas' = Append(schemas, schema)
                /\ pc' = IF Len(schemas) = 1 THEN "discover" ELSE "schema"
                /\ UNCHANGED <<sides, paths, changed, files, result>>

(* ... and, to discover the files, loads both again.                         *)
Discover ==
    /\ pc = "discover"
    /\ IF ~Schema(sides[1]).ok \/ ~Schema(sides[2]).ok THEN Fail
       ELSE /\ paths' = DataPaths(sides[1], sides[2])
            /\ pc' = "open"
            /\ UNCHANGED <<sides, schemas, changed, files, result>>

(* The side being read: the right one once all of the left one is there.      *)
Side == IF DOMAIN files[1] = paths THEN 2 ELSE 1

(* loadSnapshotDataCorpus for the next side ...                              *)
Open ==
    /\ pc = "open"
    /\ changed' = IF sides[Side].kind = "unstaged" THEN Changed ELSE {}
    /\ pc' = "read"
    /\ UNCHANGED <<sides, schemas, paths, files, result>>

Unread == paths \ DOMAIN files[Side]

(* The file is one for git, not for the working tree.                        *)
FromGit(s, list, p) ==
    s.kind \in {"head", "revision"} \/ (s.kind = "unstaged" /\ p \notin list)

Found(p) == Read(sides[Side], changed, p) # Absent

Take(p) ==
    /\ files' = [files EXCEPT ![Side] =
          [q \in DOMAIN @ \cup {p} |->
              IF q = p THEN Read(sides[Side], changed, p) ELSE @[q]]]
    /\ pc' = IF Side = 1 /\ Unread = {p} THEN "open" ELSE "read"

(* ... file by file.  Git is first asked whether a revision has the file ...   *)
ReadFile ==
    /\ pc = "read"
    /\ IF Unread = {}
       THEN pc' = "compare" /\ UNCHANGED files
       ELSE \E p \in Unread :
               /\ p = InOrder(Unread)[1]
               /\ IF FromGit(sides[Side], changed, p) /\ Found(p)
                  THEN pc' = "show" /\ UNCHANGED files
                  ELSE Take(p)
    /\ UNCHANGED <<sides, schemas, paths, changed, result>>

(* ... and then for its content, of what the revision is by then.             *)
ShowFile ==
    /\ pc = "show"
    /\ \E p \in Unread :
          /\ p = InOrder(Unread)[1]
          /\ IF Found(p)
             THEN Take(p) /\ UNCHANGED <<sides, schemas, paths, changed, result>>
             ELSE Fail

Compare ==
    /\ pc = "compare"
    /\ LET left  == Database(schemas[1], files[1])
           right == Database(schemas[2], files[2])
       IN  IF ~left.ok \/ ~right.ok THEN Fail
           ELSE /\ result' = [ok |-> TRUE, entries |-> Entries(left.objects, right.objects)]
                /\ pc' = "done"
                /\ UNCHANGED <<sides, schemas, paths, changed, files>>

Step == LoadSchema \/ Discover \/ Open \/ ReadFile \/ ShowFile \/ Compare

---------------------------------------------------------------------------
(* The repository.                                                          *)

(* The files that loading a schema may read: those that may hold a part of the *)
(* configuration, and what any part of it includes.                          *)
ConfigFiles ==
    {p \in Paths : \E c \in Drafts[p] \cup {Commits[rev][p] : rev \in DOMAIN Commits} :
        c # Absent /\ c.kind = "config"}
    \cup UNION UNION {ToSet(c.includes) : c \in {c \in Contents : c.kind = "config"}}

(* What the two snapshots are made from.                                     *)
Visible(p) ==
    LET kinds == {sides[n].kind : n \in DOMAIN sides}
        names == {sides[n].revision : n \in DOMAIN sides}
    IN  <<IF kinds \cap {"head", "unstaged"} # {} \/ Tip \in names
             THEN head[p] ELSE Absent,
          IF Back \in names THEN parent[p] ELSE Absent,
          IF "unstaged" \in kinds THEN index[p] ELSE Absent,
          IF kinds \cap {"full", "unstaged"} # {} THEN work[p] ELSE Absent>>

Edit(change) ==
    /\ edits < MaxEdits /\ pc # "done"
    /\ edits' = edits + 1
    /\ change
    /\ UNCHANGED run
    /\ touched' = touched \cup {p \in Paths : Visible(p)' # Visible(p)}

WriteFile(p, c) == c # work[p] /\ work' = [work EXCEPT ![p] = c]
                   /\ UNCHANGED <<head, parent, index>>

MoveFile(p, q) ==
    /\ work[p] # Absent /\ work[q] = Absent
    /\ work' = [work EXCEPT ![q] = work[p], ![p] = Absent]
    /\ UNCHANGED <<head, parent, index>>

Stage(p) ==
    /\ index[p] # work[p]
    /\ index' = [index EXCEPT ![p] = work[p]]
    /\ UNCHANGED <<head, parent, work>>

Commit ==
    /\ head # index
    /\ head' = index /\ parent' = head
    /\ UNCHANGED <<index, work>>

UserEdits ==
    \/ \E p \in Paths : \E c \in Drafts[p] \cup {Absent} : Edit(WriteFile(p, c))
    \/ \E p, q \in Paths \ ConfigFiles : Edit(MoveFile(p, q))
    \/ \E p \in Paths : Edit(Stage(p))
    \/ Edit(Commit)

Revisions == DOMAIN Commits \cup {Tip, Back, Unknown}

DiffRun ==
    \/ \E args \in {<<>>} \cup {<<l>> : l \in Revisions} \cup (Revisions \X Revisions) :
           Resolve(args) /\ UNCHANGED repository
    \/ Step /\ UNCHANGED <<repository, touched>>

Done == pc = "done"

Rest == Done /\ UNCHANGED vars

Next == DiffRun \/ UserEdits \/ Rest

Spec == Init /\ [][Next]_vars

---------------------------------------------------------------------------
(* Properties.                                                              *)

(* An object has one entry, and a run its two schemas and every file before it  *)
(* compares.                                                                *)
DiffTypeOK ==
    /\ {head, parent, index, work} \subseteq Trees
    /\ Len(sides) \in {0, 2} /\ Len(schemas) <= 2
    /\ pc \in {"open", "read", "show", "compare"} => Len(schemas) = 2
    /\ pc = "compare" => DOMAIN files[1] = paths /\ DOMAIN files[2] = paths
    /\ \A e \in IF result.ok THEN result.entries ELSE {} :
           \A f \in result.entries : f.key = e.key => f = e

(* The whole of a snapshot, as the documentation describes it, at this moment. *)
SnapshotOf(s) ==
    [p \in Paths |->
        CASE s.kind = "head" -> head[p]
          [] s.kind = "revision" -> Resolved(s.revision)[p]
          [] s.kind = "full" -> work[p]
          [] s.kind = "unstaged" ->
                 IF work[p] # index[p] /\ ~(index[p] = Absent /\ p \in Ignored)
                 THEN work[p] ELSE head[p]]

Snapshots == <<SnapshotOf(sides[1]), SnapshotOf(sides[2])>>

(* The objects of the snapshot on one side with that key.                    *)
Having(n, key) ==
    {ObjectAt(schemas[n], Snapshots[n], occ) :
        occ \in {occ \in Occurrences(schemas[n], Snapshots[n]) :
                    <<occ[1].type, IdAt(schemas[n], Snapshots[n], occ)>> = key}}

Kinds(key) == {e.kind : e \in {e \in result.entries : e.key = key}}

(* What a diff should say of an object, by its places on the two sides.       *)
Expected(old, new) ==
    IF old = {} /\ new = {} THEN {}
    ELSE IF old = {} THEN {"added"}
    ELSE IF new = {} THEN {"removed"}
    ELSE LET pairs == old \X new
         IN  IF \A pair \in pairs : FieldChanges(pair[1].fields, pair[2].fields) # {}
             THEN {"modified"}
             ELSE IF \A pair \in pairs : pair[1].source # pair[2].source
             THEN {"relocated"} ELSE {}

(* A diff is about the whole of the two snapshots, whichever files the schemas *)
(* of the two make it look at: every object of either is reported as what has *)
(* become of it, also when other files change while the diff reads.  A commit  *)
(* touches the files it changes if a side is HEAD, HEAD~1 or the branch; for   *)
(* two commits by their own names nothing is ever touched.                   *)
TruthAboutUntouched ==
    Done /\ Len(schemas) = 2 /\ touched \cap ConfigFiles = {} =>
        /\ touched = {} =>
               (result.ok <=> \A n \in {1, 2} : Database(schemas[n], Snapshots[n]).ok)
        /\ result.ok =>
               \A key \in Types \X (Ids \cup Paths) :
                   LET old == Having(1, key)
                       new == Having(2, key)
                       places == {o.source[1] : o \in old \cup new}
                   IN  touched = {} \/ (old # {} /\ new # {} /\ places \cap touched = {})
                       => Kinds(key) = Expected(old, new)

(* What is staged and has no unstaged changes beside is no difference to HEAD  *)
(* (as long as the configuration is the same throughout).                    *)
StagedIsInvisible ==
    /\ Done /\ sides # <<>> /\ touched = {}
    /\ sides[2].kind = "unstaged" /\ Changed = {}
    /\ \A p \in ConfigFiles : head[p] = work[p]
    => ~result.ok \/ result.entries = {}

(* The entries say all there is to say: the left objects with the entries     *)
(* applied are the right ones, but for the order of lists.                   *)
PatchRestores ==
    Done /\ sides # <<>> /\ result.ok =>
        LET left  == Database(schemas[1], files[1]).objects
            right == Database(schemas[2], files[2]).objects
            gone  == {e.key : e \in {e \in result.entries : e.kind = "removed"}}
            come  == {e.key : e \in {e \in result.entries : e.kind = "added"}}
            Set(key) == UNION {e.changes : e \in {e \in result.entries : e.key = key}}
        IN  /\ {Key(q) : q \in right} = ({Key(o) : o \in left} \ gone) \cup come
            /\ \A o \in left, q \in right : Key(o) = Key(q) =>
                   /\ \A name \in Names \ Set(Key(o)) :
                          \/ o.fields[name] = q.fields[name]
                          \/ /\ Unset \notin {o.fields[name], q.fields[name]}
                             /\ SameValue(o.fields[name], q.fields[name])
                   /\ o.source # q.source =>
                          \E e \in result.entries : e.key = Key(o) /\ e.old = {o} /\ e.new = {q}
=============================================================================
