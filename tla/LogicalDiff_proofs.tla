------------------------- MODULE LogicalDiff_proofs -------------------------
(* Proofs about LogicalDiff, for any repository, whatever its commits and    *)
(* its files contain, and without a bound on what the user does meanwhile.   *)
EXTENDS LogicalDiff, SequenceTheorems, TLAPS

---------------------------------------------------------------------------
(* The inductive invariants.                                                *)

(* No user makes configuration of a file that holds none.                    *)
NoConfig(c) == c = Absent \/ c.kind # "config"

TreeInv ==
    \A tree \in {head, parent, index, work} :
        tree \in Trees /\ \A p \in Paths \ ConfigFiles : NoConfig(tree[p])

Resolvable == DOMAIN Commits \cup {Tip, Back}

(* The pairs of snapshots that a run can compare.                            *)
SidePairs ==
    {<<Snapshot("head", Unknown), Snapshot("unstaged", Unknown)>>}
    \cup {<<Snapshot("revision", r), Snapshot("full", Unknown)>> : r \in Resolvable}
    \cup {<<Snapshot("revision", l), Snapshot("revision", r)>> : l, r \in Resolvable}

(* What the comparison makes of what has been read.                          *)
DatabaseOf(n) == Database(schemas[n], files[n])

Outcome ==
    IF ~DatabaseOf(1).ok \/ ~DatabaseOf(2).ok THEN Failed
    ELSE [ok |-> TRUE, entries |-> Entries(DatabaseOf(1).objects, DatabaseOf(2).objects)]

BothSchemas == Len(schemas) = 2

AllRead == DOMAIN files[1] = paths /\ DOMAIN files[2] = paths

(* The order of a run: two schemas, the files of the left side, the files of  *)
(* the right one, the comparison.                                           *)
RunInv ==
    /\ pc \in {"start", "schema", "discover", "open", "read", "show", "compare", "done"}
    /\ sides = <<>> => pc \in {"start", "done"} /\ schemas = <<>> /\ paths = {}
    /\ sides # <<>> => sides \in SidePairs /\ pc # "start"
    /\ \/ schemas = <<>>
       \/ Len(schemas) = 1 /\ schemas = <<schemas[1]>>
       \/ BothSchemas /\ schemas = <<schemas[1], schemas[2]>>
    /\ pc = "schema" => ~BothSchemas
    /\ pc \in {"discover", "open", "read", "show", "compare"} => BothSchemas
    /\ paths \subseteq Paths /\ DOMAIN files = 1 .. 2
    /\ DOMAIN files[1] \subseteq paths /\ DOMAIN files[2] \subseteq paths
    /\ DOMAIN files[1] = paths \/ DOMAIN files[2] = {}
    /\ pc \in {"start", "schema", "discover"} => paths = {}
    /\ pc = "compare" => AllRead

ResultInv ==
    /\ pc # "done" => result = NoResult
    /\ pc = "done" => \/ result = Failed
                      \/ BothSchemas /\ AllRead /\ result = Outcome /\ Outcome.ok

(* What has been read of a file that nobody touched is what its snapshot has, *)
(* and the file that git is about to show is there.                          *)
ReadInv ==
    /\ \A n \in {1, 2} : \A p \in DOMAIN files[n] \ touched :
           files[n][p] = SnapshotOf(sides[n])[p]
    /\ pc \in {"read", "show"} /\ sides[Side].kind = "unstaged" =>
           \A p \in Paths \ touched : p \in changed <=> p \in Changed
    /\ pc = "show" =>
           \A p \in Unread \ touched :
               p = InOrder(Unread)[1] => SnapshotOf(sides[Side])[p] # Absent

(* What may be in the files that the schemas include.                        *)
Wanted == UNION (Patterns(schemas[1]) \cup Patterns(schemas[2]))

SameConfig == touched \cap ConfigFiles = {}

(* As long as nobody touches the configuration, the schemas are those of the  *)
(* snapshots, what is read are the files they include, and, but for a commit   *)
(* that moves a revision, only the comparison can fail once both are loaded.   *)
SchemaInv ==
    SameConfig =>
        /\ \A n \in DOMAIN schemas : schemas[n] = Schema(sides[n]) /\ schemas[n].ok
        /\ BothSchemas /\ pc # "discover" =>
               \A p \in Paths \ touched :
                   p \in paths <=> p \in Wanted \cap (ListFiles(sides[1]) \cup ListFiles(sides[2]))
        /\ BothSchemas /\ pc = "done" =>
               (AllRead /\ result = Outcome) \/ (result = Failed /\ touched # {})

DiffInv == TreeInv /\ RunInv /\ ResultInv /\ ReadInv /\ SchemaInv

---------------------------------------------------------------------------
(* What a run can see of the repository.                                    *)

LEMMA SideKinds ==
    ASSUME sides \in SidePairs
    PROVE  /\ DOMAIN sides = {1, 2}
           /\ sides[1].kind \in {"head", "revision"}
           /\ sides[2].kind \in {"unstaged", "full", "revision"}
           /\ sides[2].kind = "unstaged" <=> sides[1].kind = "head"
           /\ \A n \in {1, 2} : sides[n].kind = "revision" => sides[n].revision \in Resolvable
<1>1. CASE sides = <<Snapshot("head", Unknown), Snapshot("unstaged", Unknown)>>
    BY <1>1 DEF Snapshot
<1>2. ASSUME NEW r \in Resolvable, sides = <<Snapshot("revision", r), Snapshot("full", Unknown)>>
      PROVE  /\ DOMAIN sides = {1, 2}
             /\ sides[1].kind = "revision" /\ sides[2].kind = "full"
             /\ sides[1].revision \in Resolvable
    BY <1>2 DEF Snapshot
<1>3. ASSUME NEW l \in Resolvable, NEW r \in Resolvable,
             sides = <<Snapshot("revision", l), Snapshot("revision", r)>>
      PROVE  /\ DOMAIN sides = {1, 2}
             /\ sides[1].kind = "revision" /\ sides[2].kind = "revision"
             /\ sides[1].revision \in Resolvable /\ sides[2].revision \in Resolvable
    BY <1>3 DEF Snapshot
<1> QED
    BY <1>1, <1>2, <1>3 DEF SidePairs

(* The trees that the snapshots are made from are all there is to see of a    *)
(* file.                                                                    *)
LEMMA VisibleIs ==
    ASSUME sides \in SidePairs, sides' = sides, NEW p \in Paths, Visible(p)' = Visible(p),
           NEW n \in {1, 2}
    PROVE  /\ sides[n].kind = "head" => head'[p] = head[p]
           /\ sides[n].kind = "full" => work'[p] = work[p]
           /\ sides[n].kind = "unstaged" =>
                  head'[p] = head[p] /\ index'[p] = index[p] /\ work'[p] = work[p]
           /\ sides[n].kind = "revision" =>
                  Resolved(sides[n].revision)'[p] = Resolved(sides[n].revision)[p]
<1>1. /\ {sides[m].kind : m \in DOMAIN sides} = {sides[1].kind, sides[2].kind}
      /\ {sides[m].revision : m \in DOMAIN sides} = {sides[1].revision, sides[2].revision}
    BY SideKinds
<1>2. sides[n].kind \in {sides[1].kind, sides[2].kind}
    OBVIOUS
<1> DEFINE kinds == {sides[1].kind, sides[2].kind}
           names == {sides[1].revision, sides[2].revision}
<1>3. /\ (IF kinds \cap {"head", "unstaged"} # {} \/ Tip \in names THEN head'[p] ELSE Absent)
          = (IF kinds \cap {"head", "unstaged"} # {} \/ Tip \in names THEN head[p] ELSE Absent)
      /\ (IF Back \in names THEN parent'[p] ELSE Absent)
          = (IF Back \in names THEN parent[p] ELSE Absent)
      /\ (IF "unstaged" \in kinds THEN index'[p] ELSE Absent)
          = (IF "unstaged" \in kinds THEN index[p] ELSE Absent)
      /\ (IF kinds \cap {"full", "unstaged"} # {} THEN work'[p] ELSE Absent)
          = (IF kinds \cap {"full", "unstaged"} # {} THEN work[p] ELSE Absent)
    BY <1>1 DEF Visible
<1>9. sides[n].revision \in names
    OBVIOUS
<1> HIDE DEF kinds, names
<1>4. sides[n].kind \in kinds
    BY <1>2 DEF kinds
<1>5. CASE sides[n].kind = "head"
  <2>1. kinds \cap {"head", "unstaged"} # {}
      BY <1>4, <1>5
  <2> QED
      BY <1>3, <1>5, <2>1
<1>6. CASE sides[n].kind = "full"
  <2>1. kinds \cap {"full", "unstaged"} # {}
      BY <1>4, <1>6
  <2> QED
      BY <1>3, <1>6, <2>1
<1>7. CASE sides[n].kind = "unstaged"
  <2>1. kinds \cap {"full", "unstaged"} # {} /\ kinds \cap {"head", "unstaged"} # {}
      BY <1>4, <1>7
  <2> QED
      BY <1>3, <1>4, <1>7, <2>1
<1>8. CASE sides[n].kind = "revision"
  <2>1. sides'[n].revision = sides[n].revision
      OBVIOUS
  <2>2. /\ Tip \in names => head'[p] = head[p]
        /\ Back \in names => parent'[p] = parent[p]
      BY <1>3
  <2> QED
      BY <1>8, <1>9, <2>1, <2>2 DEF Resolved
<1> QED
    BY <1>5, <1>6, <1>7, <1>8

LEMMA ChangedIs ==
    ASSUME NEW p \in Paths
    PROVE  p \in Changed <=> work[p] # index[p] /\ ~(index[p] = Absent /\ p \in Ignored)
BY DEF Changed, Tracked

(* A file read with an up to date list of changes is as in the snapshot.      *)
LEMMA ReadIsSnapshot ==
    ASSUME sides \in SidePairs, NEW n \in {1, 2}, NEW p \in Paths, NEW list,
           sides[n].kind = "unstaged" => (p \in list <=> p \in Changed)
    PROVE  Read(sides[n], list, p) = SnapshotOf(sides[n])[p]
BY SideKinds, ChangedIs DEF Read, SnapshotOf

(* A file of which nothing visible changes is read, listed and seen as before. *)
LEMMA UntouchedIsKept ==
    ASSUME sides \in SidePairs, sides' = sides, NEW p \in Paths, Visible(p)' = Visible(p),
           NEW n \in {1, 2}
    PROVE  /\ SnapshotOf(sides[n])'[p] = SnapshotOf(sides[n])[p]
           /\ sides[n].kind = "unstaged" => (p \in Changed' <=> p \in Changed)
           /\ p \in ListFiles(sides[n])' <=> p \in ListFiles(sides[n])
<1>1. sides[n].kind \in {"head", "revision", "unstaged", "full"} /\ sides'[n] = sides[n]
    BY SideKinds
<1>2. sides[n].kind = "unstaged" => (p \in Changed' <=> p \in Changed)
    BY VisibleIs DEF Changed, Tracked
<1>3. p \in ListFiles(sides[n])' <=> p \in ListFiles(sides[n])
    BY <1>1, VisibleIs DEF ListFiles
<1>4. SnapshotOf(sides[n])'[p] = SnapshotOf(sides[n])[p]
    BY <1>1, VisibleIs DEF SnapshotOf
<1> QED
    BY <1>2, <1>3, <1>4

---------------------------------------------------------------------------
(* The schemas.                                                             *)

LEMMA ReadIsInTrees ==
    ASSUME TreeInv, sides \in SidePairs, NEW n \in {1, 2}, NEW p \in Paths, NEW list
    PROVE  /\ Read(sides[n], list, p) \in Contents \cup {Absent}
           /\ p \notin ConfigFiles => NoConfig(Read(sides[n], list, p))
<1>1. \A tree \in {head, parent, index, work} :
          tree[p] \in Contents \cup {Absent} /\ (p \notin ConfigFiles => NoConfig(tree[p]))
    BY DEF TreeInv, Trees
<1>2. \A r \in DOMAIN Commits :
          Commits[r][p] \in Contents \cup {Absent} /\ (p \notin ConfigFiles => NoConfig(Commits[r][p]))
    BY RepositoryAssumption DEF Trees, ConfigFiles, NoConfig
<1>3. CASE sides[n].kind = "revision"
    BY <1>1, <1>2, <1>3, SideKinds DEF Read, Resolved, Resolvable
<1>4. CASE sides[n].kind \in {"head", "full", "unstaged"}
    BY <1>1, <1>4 DEF Read
<1> QED
    BY <1>3, <1>4, SideKinds

(* The document of a file with that content, where these files are listed.    *)
DocumentIn(doc, listed) ==
    IF doc = Absent THEN Failed
    ELSE IF doc.kind # "config" THEN Failed
    ELSE [ok      |-> TRUE,
          types   |-> doc.types,
          matches |-> FlattenSeq([n \in DOMAIN doc.includes |-> InOrder(listed \cap doc.includes[n])])]

LEMMA IncludesAreConfig ==
    ASSUME NEW doc \in Contents, doc.kind = "config", NEW n \in DOMAIN doc.includes
    PROVE  doc.includes[n] \subseteq ConfigFiles
<1>1. doc.includes[n] \in ToSet(doc.includes)
    BY DEF ToSet
<1>2. ToSet(doc.includes) \in {ToSet(c.includes) : c \in {c \in Contents : c.kind = "config"}}
    OBVIOUS
<1> QED
    BY <1>1, <1>2 DEF ConfigFiles

LEMMA ConfigInPaths == ConfigFiles \subseteq Paths
<1> SUFFICES ASSUME NEW p \in ConfigFiles PROVE p \in Paths
    OBVIOUS
<1>1. CASE p \in UNION UNION {ToSet(c.includes) : c \in {c \in Contents : c.kind = "config"}}
  <2>1. PICK c \in Contents : c.kind = "config" /\ \E matched \in ToSet(c.includes) : p \in matched
      BY <1>1
  <2>2. PICK n \in DOMAIN c.includes : p \in c.includes[n]
      BY <2>1 DEF ToSet
  <2>3. c.includes \in Seq(SUBSET Paths)
      BY <2>1, ContentsAssumption
  <2> QED
      BY <2>2, <2>3
<1> QED
    BY <1>1 DEF ConfigFiles

LEMMA SameMatches ==
    ASSUME NEW doc \in Contents \cup {Absent}, NEW one, NEW other,
           \A q \in ConfigFiles : q \in one <=> q \in other
    PROVE  DocumentIn(doc, one) = DocumentIn(doc, other)
<1>1. CASE doc = Absent \/ doc.kind # "config"
    BY <1>1 DEF DocumentIn
<1>2. CASE doc # Absent /\ doc.kind = "config"
  <2>1. \A n \in DOMAIN doc.includes : doc.includes[n] \subseteq ConfigFiles
      BY <1>2, IncludesAreConfig
  <2>2. \A n \in DOMAIN doc.includes : one \cap doc.includes[n] = other \cap doc.includes[n]
      BY <2>1
  <2>3. [n \in DOMAIN doc.includes |-> InOrder(one \cap doc.includes[n])]
        = [n \in DOMAIN doc.includes |-> InOrder(other \cap doc.includes[n])]
      BY <2>2
  <2> QED
      BY <1>2, <2>3 DEF DocumentIn
<1> QED
    BY <1>1, <1>2

LEMMA NoDocument ==
    ASSUME NEW doc, NoConfig(doc), NEW listed
    PROVE  DocumentIn(doc, listed) = Failed
BY DEF NoConfig, DocumentIn

SchemaFrom(documents) ==
    LET collected == Collect(documents)
    IN  IF collected.ok
           /\ \A t \in DOMAIN collected.types : collected.types[t].identifier # "none"
        THEN collected ELSE Failed

LEMMA SchemaIs ==
    ASSUME NEW s
    PROVE  Schema(s) = SchemaFrom([p \in Paths |-> DocumentIn(Read(s, Changed, p), ListFiles(s))])
BY DEF Schema, SchemaFrom, Document, DocumentIn

LEMMA SchemaIsThen ==
    ASSUME NEW s
    PROVE  Schema(s)' = SchemaFrom([p \in Paths |->
                            DocumentIn(Read(s, Changed, p)', ListFiles(s)')])
BY DEF Schema, SchemaFrom, Document, DocumentIn

ReadWell ==
    \A n \in {1, 2} : \A p \in Paths :
        /\ Read(sides[n], Changed, p) \in Contents \cup {Absent}
        /\ p \notin ConfigFiles => NoConfig(Read(sides[n], Changed, p))
        /\ Read(sides[n], Changed, p) = SnapshotOf(sides[n])[p]

Comparing == sides \in SidePairs

LEMMA ReadsWell == TreeInv /\ Comparing => ReadWell
BY ReadIsInTrees, ReadIsSnapshot DEF ReadWell, Comparing

(* A change of which no configuration file shows anything leaves the schemas. *)
LEMMA SchemaIsKept ==
    ASSUME TreeInv, TreeInv', sides \in SidePairs, sides' = sides,
           NEW n \in {1, 2}, \A p \in ConfigFiles : Visible(p)' = Visible(p)
    PROVE  Schema(sides[n])' = Schema(sides[n])
<1> DEFINE s == sides[n]
           now  == [p \in Paths |-> DocumentIn(Read(s, Changed, p), ListFiles(s))]
           then == [p \in Paths |-> DocumentIn(Read(s, Changed, p)', ListFiles(s)')]
<1>1. s' = s /\ ConfigFiles \subseteq Paths
    BY ConfigInPaths
<1>2. ReadWell /\ ReadWell'
  <2>1. Comparing /\ Comparing'
      BY DEF Comparing, SidePairs, Snapshot
  <2>2. TreeInv' /\ Comparing' => ReadWell'
      BY ReadsWell, PTL
  <2> QED
      BY <2>1, <2>2, ReadsWell
<1>3. ASSUME NEW p \in Paths
      PROVE  DocumentIn(Read(s, Changed, p), ListFiles(s))
             = DocumentIn(Read(s, Changed, p)', ListFiles(s)')
  <2>1. /\ Read(s, Changed, p) \in Contents \cup {Absent}
        /\ p \notin ConfigFiles => NoConfig(Read(s, Changed, p)) /\ NoConfig(Read(s, Changed, p)')
      BY <1>2 DEF ReadWell
  <2>2. CASE p \notin ConfigFiles
      BY <2>1, <2>2, NoDocument
  <2>3. CASE p \in ConfigFiles
    <3>1. Visible(p)' = Visible(p)
        BY <2>3
    <3>2. Read(s, Changed, p) = SnapshotOf(s)[p]
        BY ReadIsSnapshot
    <3>3. SnapshotOf(s)'[p] = SnapshotOf(s)[p]
        BY <3>1, UntouchedIsKept
    <3>5. Read(s, Changed, p)' = SnapshotOf(s)'[p]
        BY <1>2 DEF ReadWell
    <3>6. \A q \in ConfigFiles : q \in ListFiles(s) <=> q \in ListFiles(s)'
        BY <1>1, UntouchedIsKept
    <3> QED
        BY <2>1, <3>2, <3>3, <3>5, <3>6, SameMatches
  <2> QED
      BY <2>2, <2>3
<1>4. now = then
    BY <1>3
<1>5. Schema(s) = SchemaFrom(now) /\ Schema(s)' = SchemaFrom(then)
    BY SchemaIs, SchemaIsThen
<1> QED
    BY <1>4, <1>5

---------------------------------------------------------------------------
(* The objects of a snapshot, and those of the files that have been read.     *)

LEMMA MatchIs ==
    ASSUME NEW schema, NEW content, NEW m
    PROVE  m \in Matches(schema, content) <=>
               /\ m \in [type : DOMAIN schema.types, path : DOMAIN content, include : Include]
               /\ m.include \in schema.types[m.type].includes
               /\ m.path \in m.include.files
               /\ content[m.path] # Absent
BY DEF Matches

LEMMA ParsedIs ==
    ASSUME NEW schema, NEW content, NEW m
    PROVE  m \in Parsed(schema, content) <=>
               /\ m \in Matches(schema, content)
               /\ Parses(m.type, schema.types[m.type], m.include, content[m.path])
BY DEF Parsed

LEMMA OccurrenceIs ==
    ASSUME NEW schema, NEW content, NEW occ
    PROVE  occ \in Occurrences(schema, content) <=>
               \E m \in Parsed(schema, content) : \E k \in DOMAIN content[m.path].items : occ = <<m, k>>
BY DEF Occurrences

(* An occurrence in a file that is the same in both is one in both.          *)
LEMMA SameOccurrence ==
    ASSUME NEW schema, NEW one, NEW other, NEW occ \in Occurrences(schema, one),
           occ[1].path \in DOMAIN other, other[occ[1].path] = one[occ[1].path]
    PROVE  /\ occ \in Occurrences(schema, other)
           /\ IdAt(schema, other, occ) = IdAt(schema, one, occ)
           /\ ObjectAt(schema, other, occ) = ObjectAt(schema, one, occ)
<1>1. PICK m \in Parsed(schema, one) : \E k \in DOMAIN one[m.path].items : occ = <<m, k>>
    BY OccurrenceIs
<1>2. PICK k \in DOMAIN one[m.path].items : occ = <<m, k>>
    BY <1>1
<1>3. occ[1] = m /\ occ[2] = k
    BY <1>2
<1>4. m \in Matches(schema, one) /\ Parses(m.type, schema.types[m.type], m.include, one[m.path])
    BY ParsedIs
<1>5. m \in Matches(schema, other)
  <2>1. /\ m \in [type : DOMAIN schema.types, path : DOMAIN one, include : Include]
        /\ m.include \in schema.types[m.type].includes
        /\ m.path \in m.include.files
        /\ one[m.path] # Absent
      BY <1>4, MatchIs
  <2>2. m \in [type : DOMAIN schema.types, path : DOMAIN other, include : Include]
      BY <1>3, <2>1
  <2> QED
      BY <1>3, <2>1, <2>2, MatchIs
<1>6. m \in Parsed(schema, other)
    BY <1>3, <1>4, <1>5, ParsedIs
<1>7. occ \in Occurrences(schema, other)
    BY <1>2, <1>3, <1>6, OccurrenceIs
<1>8. IdAt(schema, other, occ) = IdAt(schema, one, occ)
    BY DEF IdAt
<1> QED
    BY <1>7, <1>8 DEF ObjectAt

(* All there is for a schema among these files is among those of them.       *)
Covers(schema, part, full) ==
    /\ DOMAIN part \subseteq DOMAIN full
    /\ \A p \in DOMAIN part : part[p] = full[p]
    /\ \A p \in DOMAIN full \ DOMAIN part :
           full[p] = Absent \/ p \notin UNION Patterns(schema)

(* What no include is for adds nothing to a database.                        *)
LEMMA SameDatabase ==
    ASSUME NEW schema, NEW full, NEW part, Covers(schema, part, full)
    PROVE  /\ Occurrences(schema, part) = Occurrences(schema, full)
           /\ Database(schema, part) = Database(schema, full)
           /\ \A occ \in Occurrences(schema, full) :
                  /\ IdAt(schema, part, occ) = IdAt(schema, full, occ)
                  /\ ObjectAt(schema, part, occ) = ObjectAt(schema, full, occ)
<1> USE DEF Covers
<1>1. ASSUME NEW m, m \in Matches(schema, full)
      PROVE  m.path \in DOMAIN part
  <2>1. /\ m.type \in DOMAIN schema.types /\ m.path \in DOMAIN full
        /\ m.include \in schema.types[m.type].includes
        /\ m.path \in m.include.files /\ full[m.path] # Absent
      BY <1>1, MatchIs
  <2>2. m.include.files \in {inc.files : inc \in schema.types[m.type].includes}
      BY <2>1
  <2>3. m.include.files \in Patterns(schema)
      BY <2>1, <2>2 DEF Patterns
  <2> QED
      BY <2>1, <2>3
<1>2. Matches(schema, part) = Matches(schema, full)
  <2>1. ASSUME NEW m, m \in Matches(schema, full) PROVE m \in Matches(schema, part)
    <3>1. /\ m \in [type : DOMAIN schema.types, path : DOMAIN full, include : Include]
          /\ m.include \in schema.types[m.type].includes
          /\ m.path \in m.include.files /\ full[m.path] # Absent /\ m.path \in DOMAIN part
        BY <1>1, <2>1, MatchIs
    <3>2. m \in [type : DOMAIN schema.types, path : DOMAIN part, include : Include]
        BY <3>1
    <3>3. part[m.path] # Absent
        BY <3>1
    <3> QED
        BY <3>1, <3>2, <3>3, MatchIs
  <2>2. ASSUME NEW m, m \in Matches(schema, part) PROVE m \in Matches(schema, full)
    <3>1. /\ m \in [type : DOMAIN schema.types, path : DOMAIN part, include : Include]
          /\ m.include \in schema.types[m.type].includes
          /\ m.path \in m.include.files /\ part[m.path] # Absent
        BY <2>2, MatchIs
    <3>2. m \in [type : DOMAIN schema.types, path : DOMAIN full, include : Include]
        BY <3>1
    <3>3. full[m.path] # Absent
        BY <3>1
    <3> QED
        BY <3>1, <3>2, <3>3, MatchIs
  <2> QED
      BY <2>1, <2>2
<1>3. \A m \in Matches(schema, full) : part[m.path] = full[m.path]
    BY <1>1
<1>4. Parsed(schema, part) = Parsed(schema, full)
    BY <1>2, <1>3 DEF Parsed
<1>5. \A m \in Parsed(schema, full) : m \in Matches(schema, full) /\ part[m.path] = full[m.path]
    BY <1>3, ParsedIs
<1>6. Occurrences(schema, part) = Occurrences(schema, full)
  <2>1. ASSUME NEW occ PROVE occ \in Occurrences(schema, part) <=> occ \in Occurrences(schema, full)
      BY <1>4, <1>5, OccurrenceIs
  <2> QED
      BY <2>1
<1>7. \A occ \in Occurrences(schema, full) : part[occ[1].path] = full[occ[1].path]
    BY <1>5, OccurrenceIs
<1>8. \A occ \in Occurrences(schema, full) : IdAt(schema, part, occ) = IdAt(schema, full, occ)
    BY <1>7 DEF IdAt
<1>9. \A occ \in Occurrences(schema, full) : ObjectAt(schema, part, occ) = ObjectAt(schema, full, occ)
    BY <1>7, <1>8 DEF ObjectAt
<1>10. {ObjectAt(schema, part, occ) : occ \in Occurrences(schema, part)}
       = {ObjectAt(schema, full, occ) : occ \in Occurrences(schema, full)}
    BY <1>6, <1>9
<1>11. Database(schema, part) = Database(schema, full)
    BY <1>2, <1>4, <1>6, <1>8, <1>10 DEF Database
<1> QED
    BY <1>6, <1>8, <1>9, <1>11

(* An object has one place in a database.                                    *)
Keyed(objs) == \A o, q \in objs : Key(o) = Key(q) => o = q

LEMMA DatabaseIs ==
    ASSUME NEW schema, NEW content, Database(schema, content).ok
    PROVE  /\ Database(schema, content).objects =
                  {ObjectAt(schema, content, occ) : occ \in Occurrences(schema, content)}
           /\ Keyed(Database(schema, content).objects)
<1> DEFINE occs == Occurrences(schema, content)
           objs == {ObjectAt(schema, content, occ) : occ \in occs}
           clash == \E occ, other \in occs :
                        /\ occ # other
                        /\ occ[1].type = other[1].type
                        /\ IdAt(schema, content, occ) = IdAt(schema, content, other)
<1>1. ~Failed.ok
    BY DEF Failed
<1>2. Database(schema, content) = [ok |-> TRUE, objects |-> objs] /\ ~clash
    BY <1>1 DEF Database
<1>3. Keyed(objs)
  <2> SUFFICES ASSUME NEW occ \in occs, NEW other \in occs,
                      Key(ObjectAt(schema, content, occ)) = Key(ObjectAt(schema, content, other))
               PROVE  ObjectAt(schema, content, occ) = ObjectAt(schema, content, other)
      BY DEF Keyed
  <2>1. /\ ObjectAt(schema, content, occ).type = occ[1].type
        /\ ObjectAt(schema, content, other).type = other[1].type
        /\ ObjectAt(schema, content, occ).id = IdAt(schema, content, occ)
        /\ ObjectAt(schema, content, other).id = IdAt(schema, content, other)
      BY DEF ObjectAt
  <2>2. /\ occ[1].type = other[1].type
        /\ IdAt(schema, content, occ) = IdAt(schema, content, other)
      BY <2>1 DEF Key
  <2>3. occ = other
      BY <1>2, <2>2
  <2> QED
      BY <2>3
<1> QED
    BY <1>2, <1>3

---------------------------------------------------------------------------
(* The entries.                                                             *)

Removed(o) == Entry("removed", Key(o), {o}, {}, {})
Added(o) == Entry("added", Key(o), {}, {o}, {})
Altered(o, q) ==
    LET changes == FieldChanges(o.fields, q.fields)
    IN  Entry(IF changes # {} THEN "modified" ELSE "relocated", Key(o), {o}, {q}, changes)

Differ(o, q) == FieldChanges(o.fields, q.fields) # {} \/ o.source # q.source

LEMMA EntryIs ==
    ASSUME NEW left, NEW right, NEW e
    PROVE  e \in Entries(left, right) <=>
               \/ \E o \in left : (\A q \in right : Key(q) # Key(o)) /\ e = Removed(o)
               \/ \E o \in right : (\A q \in left : Key(q) # Key(o)) /\ e = Added(o)
               \/ \E o \in left, q \in right : Key(o) = Key(q) /\ Differ(o, q) /\ e = Altered(o, q)
<1>1. ASSUME NEW pair, pair \in left \X right,
             Key(pair[1]) = Key(pair[2]),
             FieldChanges(pair[1].fields, pair[2].fields) # {} \/ pair[1].source # pair[2].source,
             e = Altered(pair[1], pair[2])
      PROVE  \E o \in left, q \in right : Key(o) = Key(q) /\ Differ(o, q) /\ e = Altered(o, q)
    BY <1>1 DEF Differ
<1>2. ASSUME NEW o \in left, NEW q \in right, Key(o) = Key(q), Differ(o, q), e = Altered(o, q)
      PROVE  \E pair \in left \X right :
                 /\ Key(pair[1]) = Key(pair[2])
                 /\ FieldChanges(pair[1].fields, pair[2].fields) # {} \/ pair[1].source # pair[2].source
                 /\ e = Altered(pair[1], pair[2])
  <2>1. <<o, q>> \in left \X right /\ <<o, q>>[1] = o /\ <<o, q>>[2] = q
      OBVIOUS
  <2> QED
      BY <1>2, <2>1 DEF Differ
<1> QED
    BY <1>1, <1>2 DEF Entries, Removed, Added, Altered

LEMMA EntryFields ==
    ASSUME NEW o, NEW q
    PROVE  /\ Removed(o).kind = "removed" /\ Removed(o).key = Key(o)
           /\ Added(o).kind = "added" /\ Added(o).key = Key(o)
           /\ Removed(o).changes = {} /\ Added(o).changes = {}
           /\ Altered(o, q).key = Key(o) /\ Altered(o, q).old = {o} /\ Altered(o, q).new = {q}
           /\ Altered(o, q).changes = FieldChanges(o.fields, q.fields)
           /\ Altered(o, q).kind =
                  IF FieldChanges(o.fields, q.fields) # {} THEN "modified" ELSE "relocated"
BY DEF Removed, Added, Altered, Entry

(* What an entry of a key says of the two sides.                             *)
LEMMA EntryCases ==
    ASSUME NEW left, NEW right, NEW e \in Entries(left, right)
    PROVE  \/ \E o \in left : /\ \A q \in right : Key(q) # Key(o)
                              /\ e = Removed(o) /\ e.key = Key(o) /\ e.kind = "removed"
           \/ \E o \in right : /\ \A q \in left : Key(q) # Key(o)
                               /\ e = Added(o) /\ e.key = Key(o) /\ e.kind = "added"
           \/ \E o \in left, q \in right :
                  /\ Key(o) = Key(q) /\ Differ(o, q)
                  /\ e = Altered(o, q) /\ e.key = Key(o) /\ e.kind \in {"modified", "relocated"}
<1>1. ASSUME NEW o \in left, \A q \in right : Key(q) # Key(o), e = Removed(o)
      PROVE  e.key = Key(o) /\ e.kind = "removed"
    BY <1>1, EntryFields
<1>2. ASSUME NEW o \in right, \A q \in left : Key(q) # Key(o), e = Added(o)
      PROVE  e.key = Key(o) /\ e.kind = "added"
    BY <1>2, EntryFields
<1>3. ASSUME NEW o \in left, NEW q \in right, e = Altered(o, q)
      PROVE  e.key = Key(o) /\ e.kind \in {"modified", "relocated"}
  <2>1. e.key = Key(o) /\ e.kind = IF FieldChanges(o.fields, q.fields) # {} THEN "modified" ELSE "relocated"
      BY <1>3, EntryFields
  <2> QED
      BY <2>1
<1>4. \/ \E o \in left : (\A q \in right : Key(q) # Key(o)) /\ e = Removed(o)
      \/ \E o \in right : (\A q \in left : Key(q) # Key(o)) /\ e = Added(o)
      \/ \E o \in left, q \in right : Key(o) = Key(q) /\ Differ(o, q) /\ e = Altered(o, q)
    BY EntryIs
<1>5. CASE \E o \in left : (\A q \in right : Key(q) # Key(o)) /\ e = Removed(o)
    BY <1>1, <1>5
<1>6. CASE \E o \in right : (\A q \in left : Key(q) # Key(o)) /\ e = Added(o)
    BY <1>2, <1>6
<1>7. CASE \E o \in left, q \in right : Key(o) = Key(q) /\ Differ(o, q) /\ e = Altered(o, q)
    BY <1>3, <1>7
<1> QED
    BY <1>4, <1>5, <1>6, <1>7

(* An object has one entry.                                                 *)
LEMMA EntriesKeyed ==
    ASSUME NEW left, NEW right, Keyed(left), Keyed(right),
           NEW e \in Entries(left, right), NEW f \in Entries(left, right), f.key = e.key
    PROVE  f = e
<1>1. ASSUME NEW x \in Entries(left, right)
      PROVE  \/ \E o \in left : (\A q \in right : Key(q) # Key(o)) /\ x = Removed(o) /\ x.key = Key(o)
             \/ \E o \in right : (\A q \in left : Key(q) # Key(o)) /\ x = Added(o) /\ x.key = Key(o)
             \/ \E o \in left, q \in right :
                    Key(o) = Key(q) /\ x = Altered(o, q) /\ x.key = Key(o)
    BY EntryCases
<1>2. CASE \E o \in left : (\A q \in right : Key(q) # Key(o)) /\ e = Removed(o) /\ e.key = Key(o)
    BY <1>1, <1>2 DEF Keyed
<1>3. CASE \E o \in right : (\A q \in left : Key(q) # Key(o)) /\ e = Added(o) /\ e.key = Key(o)
    BY <1>1, <1>3 DEF Keyed
<1>4. CASE \E o \in left, q \in right : Key(o) = Key(q) /\ e = Altered(o, q) /\ e.key = Key(o)
    BY <1>1, <1>4 DEF Keyed
<1> QED
    BY <1>1, <1>2, <1>3, <1>4

WithKey(objs, key) == {o \in objs : Key(o) = key}

KindsIn(entries, key) == {e.kind : e \in {e \in entries : e.key = key}}

(* The entry of an object says what has become of it.                        *)
LEMMA KindsAre ==
    ASSUME NEW left, NEW right, Keyed(left), Keyed(right), NEW key
    PROVE  KindsIn(Entries(left, right), key)
           = Expected(WithKey(left, key), WithKey(right, key))
<1> DEFINE old == {o \in left : Key(o) = key}
           new == {o \in right : Key(o) = key}
           said == {e \in Entries(left, right) : e.key = key}
           kinds == {e.kind : e \in said}
<1> SUFFICES kinds = Expected(old, new)
    BY DEF KindsIn, WithKey
<1>1. CASE old = {} /\ new = {}
  <2>1. \A e \in said : FALSE
      BY <1>1, EntryCases
  <2> QED
      BY <1>1, <2>1 DEF Expected
<1>2. CASE old = {} /\ new # {}
  <2>1. PICK q \in right : Key(q) = key
      BY <1>2
  <2>2. Added(q) \in Entries(left, right) /\ Added(q).key = key
      BY <1>2, <2>1, EntryIs, EntryFields
  <2>3. said = {Added(q)}
      BY <2>2, EntriesKeyed
  <2>4. Added(q).kind = "added"
      BY EntryFields
  <2>5. kinds = {"added"}
      BY <2>3, <2>4
  <2> QED
      BY <1>2, <2>5 DEF Expected
<1>3. CASE old # {} /\ new = {}
  <2>1. PICK o \in left : Key(o) = key
      BY <1>3
  <2>2. Removed(o) \in Entries(left, right) /\ Removed(o).key = key
      BY <1>3, <2>1, EntryIs, EntryFields
  <2>3. said = {Removed(o)}
      BY <2>2, EntriesKeyed
  <2>4. Removed(o).kind = "removed"
      BY EntryFields
  <2>5. kinds = {"removed"}
      BY <2>3, <2>4
  <2> QED
      BY <1>3, <2>5 DEF Expected
<1>4. CASE old # {} /\ new # {}
  <2>1. PICK o \in left, q \in right : Key(o) = key /\ Key(q) = key
      BY <1>4
  <2>2. old = {o} /\ new = {q}
      BY <2>1 DEF Keyed
  <2>3. old \X new = {<<o, q>>}
      BY <2>2
  <2>4. Expected(old, new) =
            IF FieldChanges(o.fields, q.fields) # {} THEN {"modified"}
            ELSE IF o.source # q.source THEN {"relocated"} ELSE {}
    <3>0. <<o, q>> \in old \X new /\ <<o, q>>[1] = o /\ <<o, q>>[2] = q
        BY <2>1
    <3>1. /\ (\A pair \in old \X new : FieldChanges(pair[1].fields, pair[2].fields) # {})
              <=> FieldChanges(o.fields, q.fields) # {}
          /\ (\A pair \in old \X new : pair[1].source # pair[2].source) <=> o.source # q.source
      <4> HIDE DEF old, new
      <4> QED
          BY <2>3, <3>0
    <3> HIDE DEF old, new
    <3> QED
        BY <1>4, <3>1 DEF Expected
  <2>5. CASE Differ(o, q)
    <3>1. Altered(o, q) \in Entries(left, right) /\ Altered(o, q).key = key
        BY <2>1, <2>5, EntryIs, EntryFields
    <3>2. said = {Altered(o, q)}
        BY <3>1, EntriesKeyed
    <3>3. kinds = {Altered(o, q).kind}
        BY <3>2
    <3>4. Altered(o, q).kind = IF FieldChanges(o.fields, q.fields) # {} THEN "modified" ELSE "relocated"
        BY EntryFields
    <3> QED
        BY <2>4, <2>5, <3>3, <3>4 DEF Differ
  <2>6. CASE ~Differ(o, q)
    <3>1. \A e \in said : FALSE
      <4> SUFFICES ASSUME NEW e \in Entries(left, right), e.key = key PROVE FALSE
          OBVIOUS
      <4>1. PICK x \in left, y \in right :
                Key(x) = Key(y) /\ Differ(x, y) /\ e = Altered(x, y) /\ e.key = Key(x)
          BY <2>1, EntryCases
      <4>2. x = o /\ y = q
          BY <2>1, <4>1 DEF Keyed
      <4> QED
          BY <2>6, <4>1, <4>2
    <3>2. kinds = {}
        BY <3>1
    <3> QED
        BY <2>4, <2>6, <3>2 DEF Differ
  <2> QED
      BY <2>5, <2>6
<1> QED
    BY <1>1, <1>2, <1>3, <1>4

(* The left objects with the entries applied are the right ones.             *)
Restored(left, right, entries) ==
    LET gone  == {e.key : e \in {e \in entries : e.kind = "removed"}}
        come  == {e.key : e \in {e \in entries : e.kind = "added"}}
        Set(key) == UNION {e.changes : e \in {e \in entries : e.key = key}}
    IN  /\ {Key(q) : q \in right} = ({Key(o) : o \in left} \ gone) \cup come
        /\ \A o \in left, q \in right : Key(o) = Key(q) =>
               /\ \A name \in Names \ Set(Key(o)) :
                      \/ o.fields[name] = q.fields[name]
                      \/ /\ Unset \notin {o.fields[name], q.fields[name]}
                         /\ SameValue(o.fields[name], q.fields[name])
               /\ o.source # q.source =>
                      \E e \in entries : e.key = Key(o) /\ e.old = {o} /\ e.new = {q}

LEMMA EntriesRestore ==
    ASSUME NEW left, NEW right, Keyed(left), Keyed(right), NEW entries, entries = Entries(left, right)
    PROVE  Restored(left, right, entries)
<1> DEFINE gone  == {e.key : e \in {e \in entries : e.kind = "removed"}}
           come  == {e.key : e \in {e \in entries : e.kind = "added"}}
           Set(key) == UNION {e.changes : e \in {e \in entries : e.key = key}}
<1>1. \A key : key \in gone <=> \E o \in left : Key(o) = key /\ \A q \in right : Key(q) # key
  <2>1. ASSUME NEW key, key \in gone
        PROVE  \E o \in left : Key(o) = key /\ \A q \in right : Key(q) # key
    <3>1. PICK e \in entries : e.kind = "removed" /\ e.key = key
        BY <2>1
    <3> QED
        BY <3>1, EntryCases
  <2>2. ASSUME NEW o \in left, \A q \in right : Key(q) # Key(o)
        PROVE  Key(o) \in gone
    <3>1. Removed(o) \in entries
        BY <2>2, EntryIs
    <3>2. Removed(o).kind = "removed" /\ Removed(o).key = Key(o)
        BY EntryFields
    <3> QED
        BY <3>1, <3>2
  <2> QED
      BY <2>1, <2>2
<1>2. \A key : key \in come <=> \E q \in right : Key(q) = key /\ \A o \in left : Key(o) # key
  <2>1. ASSUME NEW key, key \in come
        PROVE  \E q \in right : Key(q) = key /\ \A o \in left : Key(o) # key
    <3>1. PICK e \in entries : e.kind = "added" /\ e.key = key
        BY <2>1
    <3> QED
        BY <3>1, EntryCases
  <2>2. ASSUME NEW q \in right, \A o \in left : Key(o) # Key(q)
        PROVE  Key(q) \in come
    <3>1. Added(q) \in entries
        BY <2>2, EntryIs
    <3>2. Added(q).kind = "added" /\ Added(q).key = Key(q)
        BY EntryFields
    <3> QED
        BY <3>1, <3>2
  <2> QED
      BY <2>1, <2>2
<1>3. {Key(q) : q \in right} = ({Key(o) : o \in left} \ gone) \cup come
  <2> HIDE DEF gone, come
  <2> QED
      BY <1>1, <1>2
<1>4. ASSUME NEW o \in left, NEW q \in right, Key(o) = Key(q)
      PROVE  /\ \A name \in Names \ Set(Key(o)) :
                    \/ o.fields[name] = q.fields[name]
                    \/ /\ Unset \notin {o.fields[name], q.fields[name]}
                       /\ SameValue(o.fields[name], q.fields[name])
             /\ o.source # q.source =>
                    \E e \in entries : e.key = Key(o) /\ e.old = {o} /\ e.new = {q}
  <2>1. Differ(o, q) => Altered(o, q) \in entries
      BY <1>4, EntryIs
  <2>2. /\ Altered(o, q).key = Key(o) /\ Altered(o, q).old = {o} /\ Altered(o, q).new = {q}
        /\ Altered(o, q).changes = FieldChanges(o.fields, q.fields)
      BY EntryFields
  <2>3. FieldChanges(o.fields, q.fields) \subseteq Set(Key(o))
    <3>1. CASE FieldChanges(o.fields, q.fields) = {}
        BY <3>1
    <3>2. CASE FieldChanges(o.fields, q.fields) # {}
      <4>1. Altered(o, q) \in {e \in entries : e.key = Key(o)}
          BY <2>1, <2>2, <3>2 DEF Differ
      <4>2. Altered(o, q).changes \subseteq Set(Key(o))
          BY <4>1
      <4> QED
          BY <2>2, <4>2
    <3> QED
        BY <3>1, <3>2
  <2>4. ASSUME NEW name \in Names, name \notin FieldChanges(o.fields, q.fields)
        PROVE  \/ o.fields[name] = q.fields[name]
               \/ /\ Unset \notin {o.fields[name], q.fields[name]}
                  /\ SameValue(o.fields[name], q.fields[name])
      BY <2>4 DEF FieldChanges
  <2>5. o.source # q.source => Altered(o, q) \in entries
      BY <2>1 DEF Differ
  <2> HIDE DEF Set
  <2>6. \A name \in Names \ Set(Key(o)) : name \notin FieldChanges(o.fields, q.fields)
      BY <2>3
  <2>7. \A name \in Names \ Set(Key(o)) :
            \/ o.fields[name] = q.fields[name]
            \/ /\ Unset \notin {o.fields[name], q.fields[name]}
               /\ SameValue(o.fields[name], q.fields[name])
      BY <2>4, <2>6
  <2> QED
      BY <2>2, <2>5, <2>7
<1> HIDE DEF gone, come, Set
<1>5. /\ {Key(q) : q \in right} = ({Key(o) : o \in left} \ gone) \cup come
      /\ \A o \in left, q \in right : Key(o) = Key(q) =>
             /\ \A name \in Names \ Set(Key(o)) :
                    \/ o.fields[name] = q.fields[name]
                    \/ /\ Unset \notin {o.fields[name], q.fields[name]}
                       /\ SameValue(o.fields[name], q.fields[name])
             /\ o.source # q.source =>
                    \E e \in entries : e.key = Key(o) /\ e.old = {o} /\ e.new = {q}
    BY <1>3, <1>4
<1> QED
    BY <1>5 DEF gone, come, Set, Restored

(* A database does not differ from itself.                                   *)
LEMMA NoEntries ==
    ASSUME NEW objs, Keyed(objs)
    PROVE  Entries(objs, objs) = {}
<1>1. ASSUME NEW e \in Entries(objs, objs) PROVE FALSE
  <2>1. PICK o \in objs, q \in objs : Key(o) = Key(q) /\ Differ(o, q)
      BY EntryCases
  <2>2. o = q
      BY <2>1 DEF Keyed
  <2>3. FieldChanges(o.fields, o.fields) = {}
      BY DEF FieldChanges, SameValue
  <2> QED
      BY <2>1, <2>2, <2>3 DEF Differ
<1> QED
    BY <1>1

---------------------------------------------------------------------------
(* The steps.                                                               *)

LEMMA DiffStart == Init => DiffInv
<1> SUFFICES ASSUME Init PROVE DiffInv
    OBVIOUS
<1>1. TreeInv
  <2>1. ASSUME NEW tree, NEW rev \in DOMAIN Commits, tree = Commits[rev]
        PROVE  tree \in Trees /\ \A p \in Paths \ ConfigFiles : NoConfig(tree[p])
      BY <2>1, RepositoryAssumption DEF ConfigFiles, NoConfig
  <2>2. \A tree \in {head, parent, index} : \E rev \in DOMAIN Commits : tree = Commits[rev]
      BY DEF Init
  <2> QED
      BY <2>1, <2>2 DEF Init, TreeInv
<1>2. DOMAIN files = 1 .. 2 /\ DOMAIN files[1] = {} /\ DOMAIN files[2] = {}
    BY DEF Init
<1>3. RunInv /\ ResultInv /\ ReadInv
    BY <1>2 DEF Init, RunInv, ResultInv, ReadInv, AllRead
<1>4. SchemaInv
    BY DEF Init, SchemaInv, BothSchemas
<1> QED
    BY <1>1, <1>3, <1>4 DEF DiffInv

(* The user.                                                                *)
LEMMA UserKeepsTrees == TreeInv /\ UserEdits => TreeInv'
<1> SUFFICES ASSUME TreeInv, UserEdits PROVE TreeInv'
    OBVIOUS
<1>0. \A tree \in {head, parent, index, work} :
          /\ tree \in Trees
          /\ \A q \in Paths \ ConfigFiles : NoConfig(tree[q])
    BY DEF TreeInv
<1>1. ASSUME NEW p \in Paths, NEW c \in Drafts[p] \cup {Absent}, WriteFile(p, c)
      PROVE  TreeInv'
  <2>1. c \in Contents \cup {Absent} /\ (p \notin ConfigFiles => NoConfig(c))
      BY RepositoryAssumption DEF ConfigFiles, NoConfig
  <2>2. work' \in Trees
      BY <1>0, <1>1, <2>1 DEF WriteFile, Trees
  <2>3. \A q \in Paths \ ConfigFiles : NoConfig(work'[q])
      BY <1>0, <1>1, <2>1 DEF WriteFile, Trees
  <2> QED
      BY <1>0, <1>1, <2>2, <2>3 DEF WriteFile, TreeInv
<1>2. ASSUME NEW p \in Paths \ ConfigFiles, NEW q \in Paths \ ConfigFiles, MoveFile(p, q)
      PROVE  TreeInv'
  <2>1. work' \in Trees
      BY <1>0, <1>2 DEF MoveFile, Trees
  <2>2. \A r \in Paths \ ConfigFiles : NoConfig(work'[r])
    <3>1. NoConfig(Absent) /\ NoConfig(work[p])
        BY <1>0 DEF NoConfig
    <3> QED
        BY <1>0, <1>2, <3>1 DEF MoveFile, Trees
  <2> QED
      BY <1>0, <1>2, <2>1, <2>2 DEF MoveFile, TreeInv
<1>3. ASSUME NEW p \in Paths, Stage(p)
      PROVE  TreeInv'
  <2>1. index' \in Trees
      BY <1>0, <1>3 DEF Stage, Trees
  <2>2. \A r \in Paths \ ConfigFiles : NoConfig(index'[r])
      BY <1>0, <1>3 DEF Stage, Trees
  <2> QED
      BY <1>0, <1>3, <2>1, <2>2 DEF Stage, TreeInv
<1>4. CASE Commit
    BY <1>0, <1>4 DEF Commit, TreeInv
<1> QED
    BY <1>1, <1>2, <1>3, <1>4 DEF UserEdits, Edit

(* What an edit does to a run: what it touches is remembered.                *)
UserActs ==
    /\ UNCHANGED run /\ pc # "done"
    /\ touched' = touched \cup {p \in Paths : Visible(p)' # Visible(p)}

LEMMA UserIs == UserEdits => UserActs
BY DEF UserEdits, Edit, UserActs

LEMMA UserKeepsRun == RunInv /\ ResultInv /\ UserActs => RunInv' /\ ResultInv'
<1> SUFFICES ASSUME RunInv, ResultInv, UserActs PROVE RunInv' /\ ResultInv'
    OBVIOUS
<1>1. /\ pc' = pc /\ sides' = sides /\ schemas' = schemas /\ paths' = paths
      /\ files' = files /\ result' = result /\ pc # "done"
    BY DEF UserActs, run
<1>2. RunInv'
    BY <1>1 DEF RunInv, SidePairs, Snapshot, BothSchemas, AllRead
<1>3. ResultInv'
    BY <1>1 DEF ResultInv
<1> QED
    BY <1>2, <1>3

LEMMA UserKeepsReads == RunInv /\ ReadInv /\ UserActs => ReadInv'
<1> SUFFICES ASSUME RunInv, ReadInv, UserActs PROVE ReadInv'
    OBVIOUS
<1>1. /\ pc' = pc /\ sides' = sides /\ files' = files /\ changed' = changed /\ paths' = paths
      /\ touched \subseteq touched' /\ \A p \in Paths \ touched' : Visible(p)' = Visible(p)
    BY DEF UserActs, run
<1>2. ASSUME NEW n \in {1, 2}, NEW p \in DOMAIN files'[n] \ touched'
      PROVE  files'[n][p] = SnapshotOf(sides[n])'[p]
  <2>1. p \in DOMAIN files[n] \ touched /\ p \in Paths /\ DOMAIN files[n] \subseteq paths
      BY <1>1 DEF RunInv
  <2>2. sides \in SidePairs
      BY <2>1 DEF RunInv
  <2>3. SnapshotOf(sides[n])'[p] = SnapshotOf(sides[n])[p]
      BY <1>1, <2>1, <2>2, UntouchedIsKept
  <2> QED
      BY <1>1, <2>1, <2>3 DEF ReadInv
<1>3. ASSUME pc' \in {"read", "show"}, sides'[Side'].kind = "unstaged",
             NEW p \in Paths \ touched'
      PROVE  p \in changed' <=> p \in Changed'
  <2>1. sides \in SidePairs /\ Side' = Side /\ Side \in {1, 2}
      BY <1>1, <1>3 DEF RunInv, Side
  <2>2. p \in Changed' <=> p \in Changed
      BY <1>1, <1>3, <2>1, UntouchedIsKept
  <2>3. p \in changed <=> p \in Changed
      BY <1>1, <1>3, <2>1 DEF ReadInv
  <2> QED
      BY <1>1, <2>2, <2>3
<1>4. ASSUME pc' = "show", NEW p \in Unread' \ touched', p = InOrder(Unread')[1]
      PROVE  SnapshotOf(sides[Side])'[p] # Absent
  <2>1. /\ sides \in SidePairs /\ Side' = Side /\ Side \in {1, 2} /\ Unread' = Unread
        /\ p \in Paths
      BY <1>1, <1>4 DEF RunInv, Side, Unread
  <2>2. SnapshotOf(sides[Side])[p] # Absent
      BY <1>1, <1>4, <2>1 DEF ReadInv
  <2>3. \A n \in {1, 2} : SnapshotOf(sides[n])'[p] = SnapshotOf(sides[n])[p]
      BY <1>1, <1>4, <2>1, UntouchedIsKept
  <2> QED
      BY <2>1, <2>2, <2>3
<1> QED
    BY <1>2, <1>3, <1>4 DEF ReadInv

LEMMA UserKeepsSchemas ==
    TreeInv /\ TreeInv' /\ RunInv /\ SchemaInv /\ UserActs => SchemaInv'
<1> SUFFICES ASSUME TreeInv, TreeInv', RunInv, SchemaInv, UserActs,
                    touched' \cap ConfigFiles = {}
             PROVE  SchemaInv'
    BY DEF SchemaInv, SameConfig
<1>1. /\ pc' = pc /\ sides' = sides /\ schemas' = schemas /\ paths' = paths /\ files' = files
      /\ result' = result /\ pc # "done"
      /\ touched \subseteq touched' /\ \A p \in Paths \ touched' : Visible(p)' = Visible(p)
    BY DEF UserActs, run
<1>2. SameConfig /\ \A p \in ConfigFiles : Visible(p)' = Visible(p)
    BY <1>1, ConfigInPaths DEF SameConfig
<1>3. DOMAIN schemas \subseteq {1, 2} /\ (schemas # <<>> => sides \in SidePairs)
    BY DEF RunInv, BothSchemas
<1>4. ASSUME NEW n \in DOMAIN schemas'
      PROVE  schemas'[n] = Schema(sides[n])' /\ schemas'[n].ok
  <2>1. n \in {1, 2} /\ sides \in SidePairs
      BY <1>1, <1>3
  <2>2. Schema(sides[n])' = Schema(sides[n])
      BY <1>1, <1>2, <2>1, SchemaIsKept
  <2> QED
      BY <1>1, <1>2, <2>2 DEF SchemaInv
<1>5. ASSUME BothSchemas', pc' # "discover", NEW p \in Paths \ touched'
      PROVE  p \in paths' <=> p \in Wanted' \cap (ListFiles(sides[1])' \cup ListFiles(sides[2])')
  <2>1. sides \in SidePairs /\ Wanted' = Wanted /\ BothSchemas
      BY <1>1, <1>3, <1>5 DEF BothSchemas, Wanted, Patterns
  <2>2. \A n \in {1, 2} : p \in ListFiles(sides[n])' <=> p \in ListFiles(sides[n])
      BY <1>1, <1>5, <2>1, UntouchedIsKept
  <2>3. p \in paths <=> p \in Wanted \cap (ListFiles(sides[1]) \cup ListFiles(sides[2]))
      BY <1>1, <1>2, <1>5, <2>1 DEF SchemaInv
  <2> QED
      BY <1>1, <2>1, <2>2, <2>3
<1> QED
    BY <1>1, <1>4, <1>5 DEF SchemaInv

(* The steps of the run, beside which the repository is as it is.            *)
LEMMA SnapshotIsKept ==
    ASSUME UNCHANGED repository, sides' = sides, NEW n \in {1, 2}
    PROVE  /\ Changed' = Changed
           /\ SnapshotOf(sides[n])' = SnapshotOf(sides[n])
           /\ ListFiles(sides[n])' = ListFiles(sides[n])
           /\ Schema(sides[n])' = Schema(sides[n])
<1>1. /\ head' = head /\ parent' = parent /\ index' = index /\ work' = work
      /\ \A rev : Resolved(rev)' = Resolved(rev)
    BY DEF repository, Resolved
<1>2. Changed' = Changed
    BY <1>1 DEF Changed, Tracked
<1>3. SnapshotOf(sides[n])' = SnapshotOf(sides[n])
    BY <1>1 DEF SnapshotOf
<1>4. ListFiles(sides[n])' = ListFiles(sides[n])
    BY <1>1 DEF ListFiles
<1>5. \A p \in Paths : Read(sides[n], Changed, p)' = Read(sides[n], Changed, p)
    BY <1>1, <1>2 DEF Read
<1>6. Schema(sides[n])' = Schema(sides[n])
  <2>1. [p \in Paths |-> DocumentIn(Read(sides[n], Changed, p)', ListFiles(sides[n])')]
        = [p \in Paths |-> DocumentIn(Read(sides[n], Changed, p), ListFiles(sides[n]))]
      BY <1>4, <1>5
  <2> QED
      BY <2>1, SchemaIs, SchemaIsThen
<1> QED
    BY <1>2, <1>3, <1>4, <1>6

(* A run that fails shows that it does, and nothing else.                    *)
LEMMA FailEnds ==
    ASSUME RunInv, ResultInv, ReadInv, SchemaInv, UNCHANGED repository, touched' = touched, Fail,
           \/ ~BothSchemas \/ ~SameConfig
           \/ pc = "compare" /\ AllRead /\ Outcome = Failed
           \/ pc = "show" /\ touched # {}
    PROVE  RunInv' /\ ResultInv' /\ ReadInv' /\ SchemaInv'
<1>1. /\ result' = Failed /\ pc' = "done" /\ sides' = sides /\ schemas' = schemas
      /\ paths' = paths /\ changed' = changed /\ files' = files
    BY DEF Fail
<1>2. RunInv'
    BY <1>1 DEF RunInv, SidePairs, Snapshot, BothSchemas, AllRead
<1>3. ResultInv'
    BY <1>1 DEF ResultInv
<1>4. ReadInv'
  <2> SUFFICES ASSUME NEW n \in {1, 2}, NEW p \in DOMAIN files[n] \ touched
               PROVE  files[n][p] = SnapshotOf(sides[n])'[p]
      BY <1>1 DEF ReadInv
  <2> QED
      BY <1>1, SnapshotIsKept DEF ReadInv
<1>5. SchemaInv'
  <2> SUFFICES ASSUME SameConfig
               PROVE  SchemaInv'
      BY DEF SchemaInv, SameConfig
  <2>1. BothSchemas' = BothSchemas /\ AllRead' = AllRead /\ Outcome' = Outcome /\ Wanted' = Wanted
      BY <1>1 DEF BothSchemas, AllRead, Outcome, DatabaseOf, Wanted, Patterns
  <2>2. DOMAIN schemas \subseteq {1, 2}
      BY DEF RunInv, BothSchemas
  <2>3. ASSUME NEW n \in DOMAIN schemas'
        PROVE  schemas'[n] = Schema(sides[n])' /\ schemas'[n].ok
      BY <1>1, <2>2, SnapshotIsKept DEF SchemaInv
  <2>4. ASSUME BothSchemas, NEW p \in Paths \ touched
        PROVE  p \in paths <=> p \in Wanted \cap (ListFiles(sides[1])' \cup ListFiles(sides[2])')
      BY <1>1, <2>4, SnapshotIsKept DEF SchemaInv
  <2> QED
      BY <1>1, <2>1, <2>3, <2>4 DEF SchemaInv
<1> QED
    BY <1>2, <1>3, <1>4, <1>5

RunInvs == RunInv /\ ResultInv /\ ReadInv /\ SchemaInv

LEMMA ResolveKeeps ==
    ASSUME RunInvs, NEW args \in {<<>>} \cup {<<l>> : l \in Revisions} \cup (Revisions \X Revisions),
           Resolve(args)
    PROVE  RunInvs'
<1>1. /\ pc = "start" /\ sides = <<>> /\ schemas = <<>> /\ paths = {} /\ touched' = {}
      /\ DOMAIN files = 1 .. 2 /\ DOMAIN files[1] = {} /\ DOMAIN files[2] = {} /\ result = NoResult
    BY DEF Resolve, RunInvs, RunInv, ResultInv
<1>2. CASE Unknown \in ToSet(args)
  <2>1. /\ result' = Failed /\ pc' = "done" /\ sides' = sides /\ schemas' = schemas
        /\ paths' = paths /\ changed' = changed /\ files' = files
      BY <1>2 DEF Resolve, Fail
  <2>2. RunInv' /\ ResultInv' /\ ReadInv'
      BY <1>1, <2>1 DEF RunInv, ResultInv, ReadInv, AllRead
  <2>3. SchemaInv'
      BY <1>1, <2>1 DEF SchemaInv, BothSchemas
  <2> QED
      BY <2>2, <2>3 DEF RunInvs
<1>3. CASE Unknown \notin ToSet(args)
  <2>1. sides' \in SidePairs
    <3>1. sides' = CASE Len(args) = 0 -> <<Snapshot("head", Unknown), Snapshot("unstaged", Unknown)>>
                     [] Len(args) = 1 -> <<Snapshot("revision", args[1]), Snapshot("full", Unknown)>>
                     [] Len(args) = 2 -> <<Snapshot("revision", args[1]), Snapshot("revision", args[2])>>
        BY <1>3 DEF Resolve
    <3>2. CASE args = <<>>
      <4>1. sides' = <<Snapshot("head", Unknown), Snapshot("unstaged", Unknown)>>
          BY <3>1, <3>2
      <4> QED
          BY <4>1 DEF SidePairs
    <3>3. ASSUME NEW l \in Revisions, args = <<l>>
          PROVE  sides' \in SidePairs
      <4>1. sides' = <<Snapshot("revision", l), Snapshot("full", Unknown)>>
          BY <3>1, <3>3
      <4>2. l \in Resolvable
          BY <1>3, <3>3 DEF Revisions, Resolvable, ToSet
      <4> QED
          BY <4>1, <4>2 DEF SidePairs
    <3>4. ASSUME NEW l \in Revisions, NEW r \in Revisions, args = <<l, r>>
          PROVE  sides' \in SidePairs
      <4>1. sides' = <<Snapshot("revision", l), Snapshot("revision", r)>>
          BY <3>1, <3>4
      <4>2. l \in Resolvable /\ r \in Resolvable
          BY <1>3, <3>4 DEF Revisions, Resolvable, ToSet
      <4> QED
          BY <4>1, <4>2 DEF SidePairs
    <3> QED
        BY <3>2, <3>3, <3>4
  <2>2. /\ pc' = "schema" /\ schemas' = schemas /\ paths' = paths /\ files' = files /\ result' = result
      BY <1>3 DEF Resolve
  <2>3. sides' # <<>>
      BY <2>1 DEF SidePairs
  <2>4. RunInv' /\ ResultInv' /\ ReadInv'
      BY <1>1, <2>1, <2>2, <2>3 DEF RunInv, ResultInv, ReadInv, BothSchemas, SidePairs, Snapshot
  <2>5. SchemaInv'
      BY <1>1, <2>2 DEF SchemaInv, BothSchemas
  <2> QED
      BY <2>4, <2>5 DEF RunInvs
<1> QED
    BY <1>2, <1>3

LEMMA AppendToOne == ASSUME NEW x, NEW y PROVE Append(<<x>>, y) = <<x, y>>
<1>1. <<x>> \in Seq({x, y}) /\ Len(<<x>>) = 1
    OBVIOUS
<1>2. DOMAIN Append(<<x>>, y) = 1 .. 2 /\ Append(<<x>>, y)[1] = x /\ Append(<<x>>, y)[2] = y
    BY <1>1
<1>3. Append(<<x>>, y) \in Seq({x, y}) /\ Len(Append(<<x>>, y)) = 2
    BY <1>1
<1>4. <<x, y>> \in Seq({x, y}) /\ Len(<<x, y>>) = 2
    OBVIOUS
<1>5. \A i \in 1 .. 2 : Append(<<x>>, y)[i] = <<x, y>>[i]
    BY <1>2
<1> QED
    BY <1>3, <1>4, <1>5, SeqEqual

LEMMA LoadSchemaKeeps ==
    ASSUME RunInvs, LoadSchema, UNCHANGED <<repository, touched>>
    PROVE  RunInvs'
<1> DEFINE n == Len(schemas) + 1
           schema == Schema(sides[n])
<1>1. /\ pc = "schema" /\ ~BothSchemas /\ sides \in SidePairs /\ paths = {} /\ result = NoResult
      /\ DOMAIN files = 1 .. 2 /\ DOMAIN files[1] = {} /\ DOMAIN files[2] = {} /\ sides # <<>>
    BY DEF LoadSchema, RunInvs, RunInv, ResultInv
<1>2. schemas = <<>> \/ (Len(schemas) = 1 /\ schemas = <<schemas[1]>>)
    BY <1>1 DEF RunInvs, RunInv
<1>3. n \in {1, 2}
  <2>1. schemas = <<>> => n = 1
      OBVIOUS
  <2>2. Len(schemas) = 1 => n = 2
      OBVIOUS
  <2> QED
      BY <1>2, <2>1, <2>2
<1>4. CASE ~schema.ok
    BY <1>1, <1>4, FailEnds DEF LoadSchema, RunInvs
<1>5. CASE schema.ok
  <2>1. /\ schemas' = Append(schemas, schema)
        /\ pc' = IF Len(schemas) = 1 THEN "discover" ELSE "schema"
        /\ sides' = sides /\ paths' = paths /\ files' = files /\ result' = result /\ touched' = touched
      BY <1>5 DEF LoadSchema
  <2> HIDE DEF schema
  <2>2. \/ schemas = <<>> /\ schemas' = <<schema>> /\ pc' = "schema" /\ n = 1
        \/ schemas = <<schemas[1]>> /\ schemas' = <<schemas[1], schema>> /\ pc' = "discover" /\ n = 2
    <3>1. CASE schemas = <<>>
        BY <2>1, <3>1
    <3>2. CASE Len(schemas) = 1 /\ schemas = <<schemas[1]>>
      <4>1. Append(schemas, schema) = <<schemas[1], schema>>
          BY <3>2, AppendToOne
      <4> QED
          BY <2>1, <3>2, <4>1
    <3> QED
        BY <1>2, <3>1, <3>2
  <2>3. RunInv' /\ ResultInv'
      BY <1>1, <2>1, <2>2 DEF RunInv, ResultInv, BothSchemas, SidePairs, Snapshot
  <2>4. ReadInv'
      BY <1>1, <2>1, <2>2 DEF ReadInv
  <2>5. SchemaInv'
    <3> SUFFICES ASSUME SameConfig PROVE SchemaInv'
        BY <2>1 DEF SchemaInv, SameConfig
    <3>1. ASSUME NEW m \in DOMAIN schemas'
          PROVE  schemas'[m] = Schema(sides[m])' /\ schemas'[m].ok
      <4>1. m \in {1, 2}
          BY <2>2
      <4>2. Schema(sides[m])' = Schema(sides[m])
          BY <2>1, <4>1, SnapshotIsKept
      <4>3. CASE m = n
        <5>1. schemas'[m] = schema
            BY <2>2, <4>3
        <5> QED
            BY <1>5, <4>2, <4>3, <5>1 DEF schema
      <4>4. CASE m # n
        <5>1. schemas'[m] = schemas[m] /\ m \in DOMAIN schemas
            BY <2>2, <4>4
        <5> QED
            BY <4>2, <5>1 DEF RunInvs, SchemaInv
      <4> QED
          BY <4>3, <4>4
    <3>2. pc' # "done" /\ (BothSchemas' => pc' = "discover")
        BY <2>2 DEF BothSchemas
    <3> QED
        BY <3>1, <3>2 DEF SchemaInv
  <2> QED
      BY <2>3, <2>4, <2>5 DEF RunInvs
<1> QED
    BY <1>4, <1>5

LEMMA ListedInPaths == ASSUME NEW n \in {1, 2}, sides \in SidePairs PROVE ListFiles(sides[n]) \subseteq Paths
BY SideKinds DEF ListFiles

LEMMA DiscoverKeeps ==
    ASSUME RunInvs, Discover, UNCHANGED <<repository, touched>>
    PROVE  RunInvs'
<1>1. /\ pc = "discover" /\ BothSchemas /\ sides \in SidePairs /\ result = NoResult /\ paths = {}
      /\ DOMAIN files = 1 .. 2 /\ DOMAIN files[1] = {} /\ DOMAIN files[2] = {} /\ sides # <<>>
      /\ schemas = <<schemas[1], schemas[2]>>
    BY DEF Discover, RunInvs, RunInv, ResultInv, BothSchemas
<1>2. SameConfig =>
          \A n \in {1, 2} : schemas[n] = Schema(sides[n]) /\ schemas[n].ok
  <2>1. 1 \in DOMAIN schemas /\ 2 \in DOMAIN schemas
      BY <1>1
  <2> QED
      BY <2>1 DEF RunInvs, SchemaInv
<1>3. CASE ~Schema(sides[1]).ok \/ ~Schema(sides[2]).ok
  <2>1. ~SameConfig /\ Fail
      BY <1>2, <1>3 DEF Discover
  <2> QED
      BY <2>1, FailEnds DEF RunInvs
<1>4. CASE Schema(sides[1]).ok /\ Schema(sides[2]).ok
  <2>1. /\ paths' = DataPaths(sides[1], sides[2]) /\ pc' = "open" /\ sides' = sides
        /\ schemas' = schemas /\ files' = files /\ result' = result /\ touched' = touched
      BY <1>4 DEF Discover
  <2>2. paths' \subseteq Paths
    <3>1. DataPaths(sides[1], sides[2]) \subseteq ListFiles(sides[1]) \cup ListFiles(sides[2])
        BY DEF DataPaths
    <3> QED
        BY <1>1, <2>1, <3>1, ListedInPaths
  <2>3. RunInv' /\ ResultInv'
      BY <1>1, <2>1, <2>2 DEF RunInv, ResultInv, BothSchemas, SidePairs, Snapshot
  <2>4. ReadInv'
      BY <1>1, <2>1 DEF ReadInv
  <2>5. SchemaInv'
    <3> SUFFICES ASSUME SameConfig PROVE SchemaInv'
        BY <2>1 DEF SchemaInv, SameConfig
    <3>1. ASSUME NEW n \in DOMAIN schemas'
          PROVE  schemas'[n] = Schema(sides[n])' /\ schemas'[n].ok
      <4>1. n \in {1, 2}
          BY <1>1, <2>1
      <4>2. Schema(sides[n])' = Schema(sides[n])
          BY <2>1, <4>1, SnapshotIsKept
      <4> QED
          BY <1>2, <2>1, <4>1, <4>2
    <3>2. \A n \in {1, 2} : ListFiles(sides[n])' = ListFiles(sides[n])
        BY <2>1, SnapshotIsKept
    <3>3. Wanted' = UNION (Patterns(Schema(sides[1])) \cup Patterns(Schema(sides[2])))
        BY <1>2, <2>1 DEF Wanted, Patterns
    <3>4. paths' = (ListFiles(sides[1]) \cup ListFiles(sides[2])) \cap Wanted'
        BY <2>1, <3>3 DEF DataPaths
    <3>5. \A p \in Paths \ touched' :
              p \in paths' <=> p \in Wanted' \cap (ListFiles(sides[1])' \cup ListFiles(sides[2])')
        BY <3>2, <3>4
    <3> QED
        BY <2>1, <3>1, <3>5 DEF SchemaInv
  <2> QED
      BY <2>3, <2>4, <2>5 DEF RunInvs
<1> QED
    BY <1>3, <1>4

(* A step that leaves the schemas and the paths says nothing new about them.   *)
LEMMA SchemasStay ==
    ASSUME RunInvs, UNCHANGED <<repository, touched, sides, schemas, paths>>,
           pc # "discover", pc' # "done" \/ (AllRead' /\ result' = Outcome')
    PROVE  SchemaInv'
<1> SUFFICES ASSUME SameConfig PROVE SchemaInv'
    BY DEF SchemaInv, SameConfig
<1>1. DOMAIN schemas \subseteq {1, 2} /\ SchemaInv
    BY DEF RunInvs, RunInv, BothSchemas
<1>2. \A n \in {1, 2} : ListFiles(sides[n])' = ListFiles(sides[n]) /\ Schema(sides[n])' = Schema(sides[n])
    BY SnapshotIsKept
<1>3. ASSUME NEW n \in DOMAIN schemas'
      PROVE  schemas'[n] = Schema(sides[n])' /\ schemas'[n].ok
    BY <1>1, <1>2 DEF SchemaInv
<1>4. ASSUME BothSchemas, NEW p \in Paths \ touched
      PROVE  p \in paths <=> p \in Wanted \cap (ListFiles(sides[1])' \cup ListFiles(sides[2])')
    BY <1>1, <1>2, <1>4 DEF SchemaInv
<1>5. BothSchemas' = BothSchemas /\ Wanted' = Wanted
    BY DEF BothSchemas, Wanted, Patterns
<1> QED
    BY <1>3, <1>4, <1>5 DEF SchemaInv

LEMMA OpenKeeps ==
    ASSUME RunInvs, Open, UNCHANGED <<repository, touched>>
    PROVE  RunInvs'
<1>1. /\ pc = "open" /\ pc' = "read" /\ sides' = sides /\ schemas' = schemas /\ paths' = paths
      /\ files' = files /\ result' = result /\ touched' = touched
      /\ changed' = IF sides[Side].kind = "unstaged" THEN Changed ELSE {}
    BY DEF Open
<1>2. RunInv' /\ ResultInv'
    BY <1>1 DEF RunInvs, RunInv, ResultInv, BothSchemas, SidePairs, Snapshot, AllRead
<1>3. ReadInv'
  <2>1. Side' = Side /\ Changed' = Changed
      BY <1>1 DEF Side, Changed, Tracked, repository
  <2>2. ASSUME NEW n \in {1, 2}, NEW p \in DOMAIN files[n] \ touched
        PROVE  files[n][p] = SnapshotOf(sides[n])'[p]
      BY <1>1, SnapshotIsKept DEF RunInvs, ReadInv
  <2> QED
      BY <1>1, <2>1, <2>2 DEF ReadInv
<1>4. SchemaInv'
    BY <1>1, SchemasStay
<1> QED
    BY <1>2, <1>3, <1>4 DEF RunInvs

LEMMA TakeKeeps ==
    ASSUME RunInvs, pc \in {"read", "show"}, NEW p \in Unread, Take(p),
           UNCHANGED <<sides, schemas, paths, changed, result>>, UNCHANGED <<repository, touched>>
    PROVE  RunInvs'
<1> USE DEF Unread
<1>0. /\ sides' = sides /\ schemas' = schemas /\ paths' = paths /\ changed' = changed
      /\ result' = result /\ touched' = touched /\ Changed' = Changed
      /\ sides \in SidePairs /\ Side \in {1, 2} /\ paths \subseteq Paths /\ DOMAIN files = 1 .. 2
    BY DEF RunInvs, RunInv, Side, Changed, Tracked, repository
<1>1. /\ files' = [files EXCEPT ![Side] =
                     [q \in DOMAIN @ \cup {p} |->
                         IF q = p THEN Read(sides[Side], changed, p) ELSE @[q]]]
      /\ pc' = IF Side = 1 /\ Unread = {p} THEN "open" ELSE "read"
    BY DEF Take
<1>2. /\ DOMAIN files' = 1 .. 2 /\ DOMAIN files'[Side] = DOMAIN files[Side] \cup {p}
      /\ \A n \in {1, 2} : n # Side => files'[n] = files[n]
      /\ files'[Side][p] = Read(sides[Side], changed, p)
      /\ \A q \in DOMAIN files[Side] : q # p => files'[Side][q] = files[Side][q]
    BY <1>0, <1>1
<1>3. /\ p \in Paths /\ p \in paths /\ p \notin DOMAIN files[Side]
      /\ DOMAIN files[1] \subseteq paths /\ DOMAIN files[2] \subseteq paths
    BY <1>0 DEF RunInvs, RunInv
<1>4. /\ DOMAIN files'[1] \subseteq paths /\ DOMAIN files'[2] \subseteq paths
      /\ DOMAIN files'[1] = paths \/ DOMAIN files'[2] = {}
  <2>1. CASE Side = 1
    <3>1. DOMAIN files[2] = {} /\ files'[2] = files[2]
        BY <1>2, <2>1 DEF Side, RunInvs, RunInv
    <3> QED
        BY <1>2, <1>3, <2>1, <3>1
  <2>2. CASE Side = 2
    <3>1. DOMAIN files[1] = paths /\ files'[1] = files[1]
        BY <1>2, <2>2 DEF Side
    <3> QED
        BY <1>2, <1>3, <2>2, <3>1
  <2> QED
      BY <1>0, <2>1, <2>2
<1>5. pc' = "read" => Side' = Side
  <2>1. CASE Side = 2
    <3>1. DOMAIN files'[1] = paths'
        BY <1>0, <1>2, <2>1 DEF Side
    <3> QED
        BY <2>1, <3>1 DEF Side
  <2>2. CASE Side = 1
    <3>1. pc' = "read" => DOMAIN files'[1] # paths
      <4> SUFFICES ASSUME Unread # {p} PROVE DOMAIN files'[1] # paths
          BY <1>1, <2>2
      <4>1. PICK q \in Unread : q # p
          BY <1>0
      <4> QED
          BY <1>2, <2>2, <4>1
    <3> QED
        BY <1>0, <2>2, <3>1 DEF Side
  <2> QED
      BY <1>0, <2>1, <2>2
<1>6. pc' \in {"open", "read"}
    BY <1>1
<1>7. RunInv' /\ ResultInv'
  <2>1. BothSchemas /\ sides # <<>> /\ result = NoResult
      BY <1>0 DEF RunInvs, RunInv, ResultInv
  <2> QED
      BY <1>0, <1>2, <1>4, <1>6, <2>1 DEF RunInvs, RunInv, ResultInv, BothSchemas, SidePairs, Snapshot
<1>8. ReadInv'
  <2>1. \A n \in {1, 2} : SnapshotOf(sides[n])' = SnapshotOf(sides[n])
      BY <1>0, SnapshotIsKept
  <2>2. p \notin touched => Read(sides[Side], changed, p) = SnapshotOf(sides[Side])[p]
    <3>1. ASSUME p \notin touched, sides[Side].kind = "unstaged"
          PROVE  p \in changed <=> p \in Changed
        BY <1>0, <1>3, <3>1 DEF RunInvs, ReadInv
    <3> QED
        BY <1>0, <1>3, <3>1, ReadIsSnapshot
  <2>3. ASSUME NEW n \in {1, 2}, NEW q \in DOMAIN files'[n] \ touched
        PROVE  files'[n][q] = SnapshotOf(sides[n])[q]
    <3>1. CASE n # Side
        BY <1>2, <3>1 DEF RunInvs, ReadInv
    <3>2. CASE n = Side /\ q = p
        BY <1>2, <2>2, <3>2
    <3>3. CASE n = Side /\ q # p
        BY <1>2, <3>3 DEF RunInvs, ReadInv
    <3> QED
        BY <3>1, <3>2, <3>3
  <2>4. ASSUME pc' = "read", sides[Side].kind = "unstaged", NEW q \in Paths \ touched
        PROVE  q \in changed <=> q \in Changed
      BY <1>0, <2>4 DEF RunInvs, ReadInv
  <2> QED
      BY <1>0, <1>5, <1>6, <2>1, <2>3, <2>4 DEF ReadInv
<1> QED
    BY <1>0, <1>6, <1>7, <1>8, SchemasStay DEF RunInvs

LEMMA ReadFileKeeps ==
    ASSUME RunInvs, ReadFile, UNCHANGED <<repository, touched>>
    PROVE  RunInvs'
<1>1. /\ pc = "read" /\ sides' = sides /\ schemas' = schemas /\ paths' = paths /\ changed' = changed
      /\ result' = result /\ touched' = touched /\ Changed' = Changed
      /\ sides \in SidePairs /\ Side \in {1, 2} /\ paths \subseteq Paths /\ DOMAIN files = 1 .. 2
    BY DEF ReadFile, RunInvs, RunInv, Side, Changed, Tracked, repository
<1>2. CASE Unread = {}
  <2>1. pc' = "compare" /\ files' = files
      BY <1>2 DEF ReadFile
  <2>2. AllRead
    <3>1. Side = 2
        BY <1>1, <1>2 DEF Side, Unread, RunInvs, RunInv
    <3> QED
        BY <1>2, <3>1 DEF Side, Unread, AllRead, RunInvs, RunInv
  <2>3. RunInv' /\ ResultInv'
      BY <1>1, <2>1, <2>2 DEF RunInvs, RunInv, ResultInv, BothSchemas, SidePairs, Snapshot, AllRead
  <2>4. ReadInv'
    <3>1. ASSUME NEW n \in {1, 2}, NEW p \in DOMAIN files[n] \ touched
          PROVE  files[n][p] = SnapshotOf(sides[n])'[p]
        BY <1>1, SnapshotIsKept DEF RunInvs, ReadInv
    <3> QED
        BY <1>1, <2>1, <3>1 DEF ReadInv
  <2> QED
      BY <1>1, <2>1, <2>3, <2>4, SchemasStay DEF RunInvs
<1>3. ASSUME NEW p \in Unread, p = InOrder(Unread)[1], pc' = "show", files' = files,
             Found(p)
      PROVE  RunInvs'
  <2>1. RunInv' /\ ResultInv'
      BY <1>1, <1>3 DEF RunInvs, RunInv, ResultInv, BothSchemas, SidePairs, Snapshot, AllRead
  <2>2. \A n \in {1, 2} : SnapshotOf(sides[n])' = SnapshotOf(sides[n])
      BY <1>1, SnapshotIsKept
  <2>3. Side' = Side /\ Unread' = Unread
      BY <1>1, <1>3 DEF Side, Unread
  <2>4. ASSUME p \notin touched
        PROVE  SnapshotOf(sides[Side])[p] # Absent
    <3>1. p \in Paths /\ Read(sides[Side], changed, p) # Absent
        BY <1>1, <1>3 DEF Unread, Found
    <3>2. sides[Side].kind = "unstaged" => (p \in changed <=> p \in Changed)
        BY <1>1, <2>4, <3>1 DEF RunInvs, ReadInv
    <3> QED
        BY <1>1, <3>1, <3>2, ReadIsSnapshot
  <2>5. ReadInv'
    <3>1. ASSUME NEW n \in {1, 2}, NEW q \in DOMAIN files[n] \ touched
          PROVE  files[n][q] = SnapshotOf(sides[n])[q]
        BY DEF RunInvs, ReadInv
    <3>2. ASSUME sides[Side].kind = "unstaged", NEW q \in Paths \ touched
          PROVE  q \in changed <=> q \in Changed
        BY <1>1, <3>2 DEF RunInvs, ReadInv
    <3>3. \A q \in Unread \ touched :
              q = InOrder(Unread)[1] => SnapshotOf(sides[Side])[q] # Absent
        BY <1>3, <2>4
    <3> QED
        BY <1>1, <1>3, <2>2, <2>3, <3>1, <3>2, <3>3 DEF ReadInv
  <2> QED
      BY <1>1, <1>3, <2>1, <2>5, SchemasStay DEF RunInvs
<1>4. ASSUME NEW p \in Unread, Take(p)
      PROVE  RunInvs'
    BY <1>1, <1>4, TakeKeeps DEF ReadFile
<1> QED
    BY <1>1, <1>2, <1>3, <1>4 DEF ReadFile

LEMMA ShowFileKeeps ==
    ASSUME RunInvs, ShowFile, UNCHANGED <<repository, touched>>
    PROVE  RunInvs'
<1>1. pc = "show" /\ sides \in SidePairs /\ Side \in {1, 2} /\ paths \subseteq Paths
    BY DEF ShowFile, RunInvs, RunInv, Side
<1>2. PICK p \in Unread :
          /\ p = InOrder(Unread)[1]
          /\ IF Found(p)
             THEN Take(p) /\ UNCHANGED <<sides, schemas, paths, changed, result>>
             ELSE Fail
    BY DEF ShowFile
<1>3. CASE Found(p)
    BY <1>1, <1>2, <1>3, TakeKeeps
<1>4. CASE ~Found(p)
  <2>1. p \in Paths /\ Read(sides[Side], changed, p) = Absent
      BY <1>1, <1>4 DEF Unread, Found
  <2>2. p \in touched
    <3> SUFFICES ASSUME p \notin touched PROVE FALSE
        OBVIOUS
    <3>1. sides[Side].kind = "unstaged" => (p \in changed <=> p \in Changed)
        BY <1>1, <2>1 DEF RunInvs, ReadInv
    <3>2. SnapshotOf(sides[Side])[p] = Absent
        BY <1>1, <2>1, <3>1, ReadIsSnapshot
    <3> QED
        BY <1>1, <1>2, <3>2 DEF RunInvs, ReadInv
  <2>3. RunInv' /\ ResultInv' /\ ReadInv' /\ SchemaInv'
      BY <1>1, <1>2, <1>4, <2>2, FailEnds DEF RunInvs
  <2> QED
      BY <2>3 DEF RunInvs
<1> QED
    BY <1>3, <1>4

LEMMA CompareKeeps ==
    ASSUME RunInvs, Compare, UNCHANGED <<repository, touched>>
    PROVE  RunInvs'
<1>1. pc = "compare" /\ AllRead /\ BothSchemas
    BY DEF Compare, RunInvs, RunInv
<1>2. CASE ~DatabaseOf(1).ok \/ ~DatabaseOf(2).ok
  <2>1. Fail /\ Outcome = Failed
      BY <1>2 DEF Compare, DatabaseOf, Outcome
  <2> QED
      BY <1>1, <2>1, FailEnds DEF RunInvs
<1>3. CASE DatabaseOf(1).ok /\ DatabaseOf(2).ok
  <2>1. /\ result' = Outcome /\ pc' = "done" /\ sides' = sides /\ schemas' = schemas
        /\ paths' = paths /\ changed' = changed /\ files' = files /\ touched' = touched
      BY <1>3 DEF Compare, DatabaseOf, Outcome
  <2>2. Outcome' = Outcome /\ AllRead' /\ BothSchemas' /\ Outcome.ok
      BY <1>1, <1>3, <2>1 DEF Outcome, DatabaseOf, AllRead, BothSchemas
  <2>3. RunInv' /\ ResultInv'
      BY <1>1, <2>1, <2>2 DEF RunInvs, RunInv, ResultInv, BothSchemas, SidePairs, Snapshot, AllRead
  <2>4. ReadInv'
    <3>1. ASSUME NEW n \in {1, 2}, NEW p \in DOMAIN files[n] \ touched
          PROVE  files[n][p] = SnapshotOf(sides[n])'[p]
        BY <2>1, SnapshotIsKept DEF RunInvs, ReadInv
    <3> QED
        BY <2>1, <3>1 DEF ReadInv
  <2> QED
      BY <1>1, <2>1, <2>2, <2>3, <2>4, SchemasStay DEF RunInvs
<1> QED
    BY <1>2, <1>3


LEMMA DiffStep == DiffInv /\ [Next]_vars => DiffInv'
<1> SUFFICES ASSUME DiffInv, [Next]_vars PROVE DiffInv'
    OBVIOUS
<1>1. TreeInv /\ RunInv /\ ResultInv /\ ReadInv /\ SchemaInv /\ RunInvs
    BY DEF DiffInv, RunInvs
<1>2. UNCHANGED repository => TreeInv'
    BY <1>1 DEF repository, TreeInv
<1>3. CASE UserEdits
  <2>1. UserActs /\ TreeInv'
      BY <1>1, <1>3, UserIs, UserKeepsTrees
  <2>2. RunInv' /\ ResultInv' /\ ReadInv' /\ SchemaInv'
      BY <1>1, <2>1, UserKeepsRun, UserKeepsReads, UserKeepsSchemas
  <2> QED
      BY <2>1, <2>2 DEF DiffInv
<1>4. ASSUME NEW args \in {<<>>} \cup {<<l>> : l \in Revisions} \cup (Revisions \X Revisions),
             Resolve(args), UNCHANGED repository
      PROVE  DiffInv'
  <2>1. RunInvs'
      BY <1>1, <1>4, ResolveKeeps
  <2> QED
      BY <1>2, <1>4, <2>1 DEF DiffInv, RunInvs
<1>5. CASE Step /\ UNCHANGED <<repository, touched>>
  <2>1. RunInvs'
      BY <1>1, <1>5, LoadSchemaKeeps, DiscoverKeeps, OpenKeeps, ReadFileKeeps, ShowFileKeeps, CompareKeeps
         DEF Step
  <2> QED
      BY <1>2, <1>5, <2>1 DEF DiffInv, RunInvs
<1>6. CASE UNCHANGED vars
  <2>1. /\ UNCHANGED <<repository, touched>> /\ pc' = pc /\ sides' = sides /\ schemas' = schemas
        /\ paths' = paths /\ changed' = changed /\ files' = files /\ result' = result
      BY <1>6 DEF vars, run
  <2>2. RunInv' /\ ResultInv'
    <3>1. RunInv'
        BY <1>1, <2>1 DEF RunInv, SidePairs, Snapshot, BothSchemas, AllRead
    <3>2. /\ BothSchemas' = BothSchemas /\ AllRead' = AllRead /\ Outcome' = Outcome
          /\ NoResult' = NoResult
        BY <2>1 DEF BothSchemas, AllRead, Outcome, DatabaseOf, NoResult
    <3>3. ResultInv'
        BY <1>1, <2>1, <3>2 DEF ResultInv
    <3> QED
        BY <3>1, <3>3
  <2>3. ReadInv'
    <3>1. ASSUME NEW n \in {1, 2}, NEW p \in DOMAIN files[n] \ touched
          PROVE  files[n][p] = SnapshotOf(sides[n])'[p]
        BY <1>1, <2>1, SnapshotIsKept DEF ReadInv
    <3>2. Side' = Side /\ Changed' = Changed /\ Unread' = Unread
        BY <2>1 DEF Side, Unread, Changed, Tracked, repository
    <3>3. \A n \in {1, 2} : SnapshotOf(sides[n])' = SnapshotOf(sides[n])
        BY <2>1, SnapshotIsKept
    <3>4. Side \in {1, 2}
        BY DEF Side
    <3> QED
        BY <1>1, <2>1, <3>1, <3>2, <3>3, <3>4 DEF ReadInv
  <2>4. SchemaInv'
    <3> SUFFICES ASSUME SameConfig PROVE SchemaInv'
        BY <2>1 DEF SchemaInv, SameConfig
    <3>1. \A n \in {1, 2} : /\ ListFiles(sides[n])' = ListFiles(sides[n])
                            /\ Schema(sides[n])' = Schema(sides[n])
        BY <2>1, SnapshotIsKept
    <3>2. DOMAIN schemas \subseteq {1, 2}
        BY <1>1 DEF RunInv, BothSchemas
    <3>3. /\ BothSchemas' = BothSchemas /\ Wanted' = Wanted /\ AllRead' = AllRead
          /\ Outcome' = Outcome
        BY <2>1 DEF BothSchemas, Wanted, Patterns, AllRead, Outcome, DatabaseOf
    <3>4. ASSUME NEW n \in DOMAIN schemas'
          PROVE  schemas'[n] = Schema(sides[n])' /\ schemas'[n].ok
        BY <1>1, <2>1, <3>1, <3>2 DEF SchemaInv
    <3>5. ASSUME BothSchemas, pc # "discover", NEW p \in Paths \ touched
          PROVE  p \in paths <=> p \in Wanted \cap (ListFiles(sides[1])' \cup ListFiles(sides[2])')
        BY <1>1, <3>1, <3>5 DEF SchemaInv
    <3> QED
        BY <1>1, <2>1, <3>3, <3>4, <3>5 DEF SchemaInv
  <2> QED
      BY <1>2, <2>1, <2>2, <2>3, <2>4 DEF DiffInv
<1> QED
    BY <1>3, <1>4, <1>5, <1>6 DEF Next, DiffRun, Rest

LEMMA DiffInvariant == Spec => []DiffInv
BY DiffStart, DiffStep, PTL DEF Spec

---------------------------------------------------------------------------
(* The theorems.                                                            *)

LEMMA OutcomeKeyed ==
    ASSUME Outcome.ok, NEW e \in Outcome.entries, NEW f \in Outcome.entries, f.key = e.key
    PROVE  f = e
<1>1. ~Failed.ok
    BY DEF Failed
<1>2. /\ DatabaseOf(1).ok /\ DatabaseOf(2).ok
      /\ Outcome.entries = Entries(DatabaseOf(1).objects, DatabaseOf(2).objects)
    BY <1>1 DEF Outcome
<1>3. Keyed(DatabaseOf(1).objects) /\ Keyed(DatabaseOf(2).objects)
    BY <1>2, DatabaseIs DEF DatabaseOf
<1> QED
    BY <1>2, <1>3, EntriesKeyed

LEMMA TypeFromInv == DiffInv => DiffTypeOK
<1> SUFFICES ASSUME DiffInv PROVE DiffTypeOK
    OBVIOUS
<1>1. {head, parent, index, work} \subseteq Trees
    BY DEF DiffInv, TreeInv
<1>2. Len(sides) \in {0, 2}
  <2>1. CASE sides = <<>>
      BY <2>1
  <2>2. CASE sides # <<>>
    <3>1. sides \in SidePairs
        BY <2>2 DEF DiffInv, RunInv
    <3> QED
        BY <3>1 DEF SidePairs
  <2> QED
      BY <2>1, <2>2
<1>3. Len(schemas) <= 2
  <2>1. Len(<<>>) = 0
      OBVIOUS
  <2>2. schemas = <<>> \/ Len(schemas) = 1 \/ Len(schemas) = 2
      BY DEF DiffInv, RunInv, BothSchemas
  <2>3. Len(schemas) \in {0, 1, 2}
      BY <2>1, <2>2
  <2>4. \A n \in {0, 1, 2} : n <= 2
      OBVIOUS
  <2> QED
      BY <2>3, <2>4
<1>4. /\ pc \in {"open", "read", "show", "compare"} => Len(schemas) = 2
      /\ pc = "compare" => DOMAIN files[1] = paths /\ DOMAIN files[2] = paths
    BY DEF DiffInv, RunInv, BothSchemas, AllRead
<1>5. ASSUME NEW e \in IF result.ok THEN result.entries ELSE {}
      PROVE  \A f \in result.entries : f.key = e.key => f = e
  <2>1. result.ok /\ e \in result.entries
      BY <1>5
  <2>2. result # NoResult /\ result # Failed
      BY <2>1 DEF NoResult, Failed
  <2>3. result = Outcome /\ Outcome.ok
      BY <2>2 DEF DiffInv, ResultInv
  <2> QED
      BY <2>1, <2>3, OutcomeKeyed
<1> QED
    BY <1>1, <1>2, <1>3, <1>4, <1>5 DEF DiffTypeOK

(* A run reads its two schemas and every file before it compares, and a diff  *)
(* has one entry for an object: buildLogicalDatabase and diffLogicalDatabases. *)
THEOREM DiffIsTyped == Spec => []DiffTypeOK
<1>1. DiffInv => DiffTypeOK
    BY TypeFromInv
<1> QED
    BY <1>1, DiffInvariant, PTL

LEMMA RestoresFromInv == DiffInv => PatchRestores
<1> SUFFICES ASSUME DiffInv, Done, sides # <<>>, result.ok PROVE PatchRestores
    BY DEF PatchRestores
<1> DEFINE left == DatabaseOf(1).objects
           right == DatabaseOf(2).objects
<1>1. ~Failed.ok
    BY DEF Failed
<1>2. result = Outcome /\ Outcome.ok
    BY <1>1 DEF DiffInv, ResultInv, Done
<1>3. DatabaseOf(1).ok /\ DatabaseOf(2).ok /\ result.entries = Entries(left, right)
    BY <1>1, <1>2 DEF Outcome
<1>4. Keyed(left) /\ Keyed(right)
    BY <1>3, DatabaseIs DEF DatabaseOf
<1>5. /\ left = Database(schemas[1], files[1]).objects
      /\ right = Database(schemas[2], files[2]).objects
    BY DEF DatabaseOf
<1> HIDE DEF left, right
<1>6. Restored(left, right, result.entries)
    BY <1>3, <1>4, EntriesRestore
<1> QED
    BY <1>5, <1>6 DEF PatchRestores, Restored

(* The entries of a diff say all there is to say: applied to the left objects *)
(* they give the right ones, but for the order of lists (diffLogicalDatabases). *)
THEOREM DiffSaysAll == Spec => []PatchRestores
<1>1. DiffInv => PatchRestores
    BY RestoresFromInv
<1> QED
    BY <1>1, DiffInvariant, PTL


LEMMA DocumentsAgree ==
    ASSUME TreeInv, sides \in SidePairs,
           sides[2].kind = "unstaged", Changed = {}, \A p \in ConfigFiles : head[p] = work[p]
    PROVE  /\ Schema(sides[1]) = Schema(sides[2])
           /\ \A p \in Paths : SnapshotOf(sides[1])[p] = SnapshotOf(sides[2])[p]
<1> DEFINE one == sides[1]
           two == sides[2]
<1>1. one.kind = "head" /\ ConfigFiles \subseteq Paths
    BY SideKinds, ConfigInPaths
<1>2. \A p \in Paths : Read(one, Changed, p) = head[p] /\ Read(two, Changed, p) = head[p]
    BY <1>1 DEF Read
<1>3. \A p \in Paths : /\ Read(one, Changed, p) = SnapshotOf(one)[p]
                       /\ Read(two, Changed, p) = SnapshotOf(two)[p]
    BY ReadIsSnapshot
<1>4. \A p \in ConfigFiles : p \in ListFiles(one) <=> p \in ListFiles(two)
    BY <1>1 DEF ListFiles
<1>5. ASSUME NEW p \in Paths
      PROVE  DocumentIn(Read(one, Changed, p), ListFiles(one))
             = DocumentIn(Read(two, Changed, p), ListFiles(two))
  <2>1. Read(one, Changed, p) \in Contents \cup {Absent}
      BY ReadIsInTrees
  <2> QED
      BY <1>2, <1>4, <2>1, SameMatches
<1>6. [p \in Paths |-> DocumentIn(Read(one, Changed, p), ListFiles(one))]
      = [p \in Paths |-> DocumentIn(Read(two, Changed, p), ListFiles(two))]
    BY <1>5
<1>7. Schema(one) = Schema(two)
    BY <1>6, SchemaIs
<1> QED
    BY <1>2, <1>3, <1>7

LEMMA StagedFromInv == DiffInv => StagedIsInvisible
<1> SUFFICES ASSUME DiffInv, Done, sides # <<>>, touched = {},
                    sides[2].kind = "unstaged", Changed = {}, result.ok,
                    \A p \in ConfigFiles : head[p] = work[p]
             PROVE  result.entries = {}
    BY DEF StagedIsInvisible
<1>1. ~Failed.ok
    BY DEF Failed
<1>2. BothSchemas /\ AllRead /\ result = Outcome /\ Outcome.ok
    BY <1>1 DEF DiffInv, ResultInv, Done
<1>3. sides \in SidePairs /\ DOMAIN schemas = {1, 2}
    BY <1>2 DEF DiffInv, RunInv, BothSchemas
<1>4. /\ Schema(sides[1]) = Schema(sides[2])
      /\ \A p \in Paths : SnapshotOf(sides[1])[p] = SnapshotOf(sides[2])[p]
    BY <1>3, DocumentsAgree DEF DiffInv
<1>5. schemas[1] = schemas[2]
    BY <1>3, <1>4 DEF DiffInv, SchemaInv, SameConfig
<1>6. DOMAIN files[1] = DOMAIN files[2] /\ \A p \in DOMAIN files[2] : files[2][p] = files[1][p]
    BY <1>2, <1>4 DEF AllRead, DiffInv, ReadInv, RunInv
<1>7. DatabaseOf(2) = DatabaseOf(1)
  <2>1. Covers(schemas[1], files[2], files[1])
      BY <1>6 DEF Covers
  <2>2. Database(schemas[1], files[2]) = Database(schemas[1], files[1])
      BY <2>1, SameDatabase
  <2> QED
      BY <1>5, <2>2 DEF DatabaseOf
<1>8. DatabaseOf(1).ok /\ result.entries = Entries(DatabaseOf(1).objects, DatabaseOf(1).objects)
    BY <1>1, <1>2, <1>7 DEF Outcome
<1>9. Keyed(DatabaseOf(1).objects)
    BY <1>8, DatabaseIs DEF DatabaseOf
<1> QED
    BY <1>8, <1>9, NoEntries

(* What is staged, with no unstaged change beside it, is not in the diff with *)
(* HEAD: newSnapshotReader and Read take it from HEAD.                        *)
THEOREM DiffHidesStaged == Spec => []StagedIsInvisible
<1>1. DiffInv => StagedIsInvisible
    BY StagedFromInv
<1> QED
    BY <1>1, DiffInvariant, PTL

(* What has been read of one side, against the whole of its snapshot.         *)
Seen(n) ==
    /\ DOMAIN files[n] \subseteq Paths
    /\ \A p \in Paths \ touched :
           IF p \in DOMAIN files[n] THEN files[n][p] = Snapshots[n][p]
           ELSE Snapshots[n][p] = Absent \/ p \notin UNION Patterns(schemas[n])

LEMMA NotListed ==
    ASSUME sides \in SidePairs, NEW n \in {1, 2}, NEW p \in Paths,
           p \notin ListFiles(sides[1]) \cup ListFiles(sides[2])
    PROVE  SnapshotOf(sides[n])[p] = Absent
<1>1. CASE sides[n].kind \in {"head", "full", "revision"}
    BY <1>1 DEF ListFiles, SnapshotOf
<1>2. CASE sides[n].kind = "unstaged"
  <2>1. sides[1].kind = "head" /\ n = 2
      BY <1>2, SideKinds
  <2>2. head[p] = Absent /\ work[p] = Absent
      BY <1>2, <2>1 DEF ListFiles
  <2> QED
      BY <1>2, <2>2 DEF SnapshotOf
<1> QED
    BY <1>1, <1>2, SideKinds

LEMMA SeenIs ==
    ASSUME DiffInv, Done, BothSchemas, touched \cap ConfigFiles = {},
           result # Failed \/ touched = {}, NEW n \in {1, 2}
    PROVE  Seen(n) /\ result = Outcome
<1>1. sides \in SidePairs /\ paths \subseteq Paths
    BY DEF DiffInv, RunInv, BothSchemas
<1>2. /\ AllRead /\ result = Outcome
      /\ \A p \in Paths \ touched :
             p \in paths <=> p \in Wanted \cap (ListFiles(sides[1]) \cup ListFiles(sides[2]))
    BY DEF DiffInv, SchemaInv, SameConfig, Done
<1>3. DOMAIN files[n] = paths /\ Snapshots[n] = SnapshotOf(sides[n])
    BY <1>2 DEF AllRead, Snapshots
<1>4. ASSUME NEW p \in Paths \ touched
      PROVE  IF p \in DOMAIN files[n] THEN files[n][p] = Snapshots[n][p]
             ELSE Snapshots[n][p] = Absent \/ p \notin UNION Patterns(schemas[n])
  <2>1. CASE p \in paths
      BY <1>3, <2>1 DEF DiffInv, ReadInv
  <2>2. CASE p \notin paths
    <3>1. p \notin Wanted \/ p \notin ListFiles(sides[1]) \cup ListFiles(sides[2])
        BY <1>2, <2>2
    <3>2. UNION Patterns(schemas[n]) \subseteq Wanted
        BY DEF Wanted
    <3> QED
        BY <1>1, <1>3, <2>2, <3>1, <3>2, NotListed
  <2> QED
      BY <2>1, <2>2
<1> QED
    BY <1>1, <1>2, <1>3, <1>4 DEF Seen

LEMMA KeyIs ==
    ASSUME NEW schema, NEW content, NEW occ
    PROVE  /\ Key(ObjectAt(schema, content, occ)) = <<occ[1].type, IdAt(schema, content, occ)>>
           /\ ObjectAt(schema, content, occ).source[1] = occ[1].path
BY DEF Key, ObjectAt

LEMMA HavingIs ==
    ASSUME NEW n \in {1, 2}, Seen(n), DatabaseOf(n).ok, NEW key,
           touched = {} \/ (Having(n, key) # {} /\ \A o \in Having(n, key) : o.source[1] \notin touched)
    PROVE  Having(n, key) = WithKey(DatabaseOf(n).objects, key)
<1> DEFINE full == Snapshots[n]
           part == files[n]
           schema == schemas[n]
           objs == WithKey(DatabaseOf(n).objects, key)
<1>1. /\ DatabaseOf(n).objects = {ObjectAt(schema, part, occ) : occ \in Occurrences(schema, part)}
      /\ Keyed(DatabaseOf(n).objects)
    BY DatabaseIs DEF DatabaseOf
<1>2. DOMAIN full = Paths
    BY DEF Snapshots, SnapshotOf
<1>3. ASSUME NEW o
      PROVE  o \in Having(n, key) <=>
                 \E occ \in Occurrences(schema, full) : o = ObjectAt(schema, full, occ) /\ Key(o) = key
    BY KeyIs DEF Having
<1> USE DEF WithKey
<1>4. CASE touched = {}
  <2>1. /\ Occurrences(schema, part) = Occurrences(schema, full)
        /\ \A occ \in Occurrences(schema, full) :
               ObjectAt(schema, part, occ) = ObjectAt(schema, full, occ)
    <3>1. Covers(schema, part, full)
        BY <1>2, <1>4 DEF Seen, Covers
    <3> HIDE DEF full, part, schema
    <3> QED
        BY <3>1, SameDatabase
  <2>2. ASSUME NEW o PROVE o \in Having(n, key) <=> o \in objs
      BY <1>1, <1>3, <2>1
  <2> HIDE DEF objs
  <2>3. Having(n, key) = objs
      BY <2>2
  <2> QED
      BY <2>3 DEF objs
<1>5. CASE Having(n, key) # {} /\ \A o \in Having(n, key) : o.source[1] \notin touched
  <2>1. ASSUME NEW o \in Having(n, key) PROVE o \in objs
    <3>1. PICK occ \in Occurrences(schema, full) : o = ObjectAt(schema, full, occ) /\ Key(o) = key
        BY <1>3
    <3>2. occ[1].path \notin touched
        BY <1>5, <3>1, KeyIs
    <3>3. /\ occ[1].path \in DOMAIN full /\ full[occ[1].path] # Absent
          /\ occ[1].path \in UNION Patterns(schema)
      <4>1. PICK m \in Parsed(schema, full) : occ[1] = m
          BY OccurrenceIs
      <4>2. /\ m.type \in DOMAIN schema.types /\ m.path \in DOMAIN full
            /\ m.include \in schema.types[m.type].includes
            /\ m.path \in m.include.files /\ full[m.path] # Absent
          BY <4>1, ParsedIs, MatchIs
      <4>3. m.include.files \in {inc.files : inc \in schema.types[m.type].includes}
          BY <4>2
      <4>4. m.include.files \in Patterns(schema)
          BY <4>2, <4>3 DEF Patterns
      <4> QED
          BY <4>1, <4>2, <4>4
    <3>4. occ[1].path \in DOMAIN part /\ part[occ[1].path] = full[occ[1].path]
        BY <1>2, <3>2, <3>3 DEF Seen
    <3> HIDE DEF full, part, schema
    <3>5. occ \in Occurrences(schema, part) /\ ObjectAt(schema, part, occ) = o
        BY <3>1, <3>4, SameOccurrence
    <3> QED
        BY <1>1, <3>1, <3>5
  <2>2. \A o, q \in objs : o = q
      BY <1>1 DEF Keyed
  <2> HIDE DEF objs
  <2>3. Having(n, key) = objs
      BY <1>5, <2>1, <2>2
  <2> QED
      BY <2>3 DEF objs
<1> QED
    BY <1>4, <1>5

LEMMA TruthFromInv == DiffInv => TruthAboutUntouched
<1> SUFFICES ASSUME DiffInv, Done, Len(schemas) = 2, touched \cap ConfigFiles = {}
             PROVE  /\ touched = {} =>
                           (result.ok <=> \A n \in {1, 2} : Database(schemas[n], Snapshots[n]).ok)
                    /\ result.ok =>
                           \A key \in Types \X (Ids \cup Paths) :
                               LET old == Having(1, key)
                                   new == Having(2, key)
                                   places == {o.source[1] : o \in old \cup new}
                               IN  touched = {} \/ (old # {} /\ new # {} /\ places \cap touched = {})
                                   => Kinds(key) = Expected(old, new)
    BY DEF TruthAboutUntouched
<1>2. ~Failed.ok
    BY DEF Failed
<1>0. CASE touched # {} /\ result = Failed
    BY <1>0, <1>2
<1> SUFFICES ASSUME touched = {} \/ result # Failed
             PROVE  /\ touched = {} =>
                           (result.ok <=> \A n \in {1, 2} : Database(schemas[n], Snapshots[n]).ok)
                    /\ result.ok =>
                           \A key \in Types \X (Ids \cup Paths) :
                               LET old == Having(1, key)
                                   new == Having(2, key)
                                   places == {o.source[1] : o \in old \cup new}
                               IN  touched = {} \/ (old # {} /\ new # {} /\ places \cap touched = {})
                                   => Kinds(key) = Expected(old, new)
    BY <1>0
<1>1. Seen(1) /\ Seen(2) /\ result = Outcome
    BY SeenIs DEF BothSchemas
<1>3. ASSUME touched = {}
      PROVE  result.ok <=> \A n \in {1, 2} : Database(schemas[n], Snapshots[n]).ok
  <2>1. ASSUME NEW n \in {1, 2}
        PROVE  DatabaseOf(n) = Database(schemas[n], Snapshots[n])
    <3>1. Covers(schemas[n], files[n], Snapshots[n])
      <4>1. Seen(n) /\ DOMAIN Snapshots[n] = Paths
          BY <1>1 DEF Snapshots, SnapshotOf
      <4> QED
          BY <1>3, <4>1 DEF Seen, Covers
    <3> QED
        BY <3>1, SameDatabase DEF DatabaseOf
  <2>2. result.ok <=> DatabaseOf(1).ok /\ DatabaseOf(2).ok
      BY <1>1, <1>2 DEF Outcome
  <2> QED
      BY <2>1, <2>2
<1>4. ASSUME result.ok, NEW key,
             touched = {} \/ (/\ Having(1, key) # {} /\ Having(2, key) # {}
                              /\ {o.source[1] : o \in Having(1, key) \cup Having(2, key)} \cap touched = {})
      PROVE  Kinds(key) = Expected(Having(1, key), Having(2, key))
  <2> DEFINE left == DatabaseOf(1).objects
             right == DatabaseOf(2).objects
  <2>1. DatabaseOf(1).ok /\ DatabaseOf(2).ok /\ result.entries = Entries(left, right)
      BY <1>1, <1>2, <1>4 DEF Outcome
  <2>2. Keyed(left) /\ Keyed(right)
      BY <2>1, DatabaseIs DEF DatabaseOf
  <2>3. \A n \in {1, 2} :
            \/ touched = {}
            \/ Having(n, key) # {} /\ \A o \in Having(n, key) : o.source[1] \notin touched
      BY <1>4
  <2>4. Having(1, key) = WithKey(left, key)
      BY <1>1, <2>1, <2>3, HavingIs
  <2>5. Having(2, key) = WithKey(right, key)
      BY <1>1, <2>1, <2>3, HavingIs
  <2> HIDE DEF left, right
  <2>6. KindsIn(Entries(left, right), key) = Expected(WithKey(left, key), WithKey(right, key))
      BY <2>2, KindsAre
  <2> QED
      BY <2>1, <2>4, <2>5, <2>6 DEF Kinds, KindsIn
<1> QED
    BY <1>3, <1>4

(* A diff is about the whole of the two snapshots: it fails where one of them *)
(* is no database, and says of every object what has become of it, also when  *)
(* other files change while it reads (discoverDiffDataPaths, loadSnapshotDataCorpus, *)
(* diffLogicalDatabases).                                                   *)
THEOREM DiffTellsTheTruth == Spec => []TruthAboutUntouched
<1>1. DiffInv => TruthAboutUntouched
    BY TruthFromInv
<1> QED
    BY <1>1, DiffInvariant, PTL
=============================================================================
