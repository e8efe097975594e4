------------------------- MODULE Validation_proofs -------------------------
(* Proofs about Validation: what it says is what the files say, for every    *)
(* configuration and whatever the files hold.                               *)
EXTENDS Validation, FiniteSetTheorems, SequenceTheorems, TLAPS

---------------------------------------------------------------------------
(* The invariant.                                                           *)

RawObjects == [type : Types, at : Nat \X Nat \X Nat, key : Ids \cup Paths \cup {NoId},
            fields : FieldMaps, empty : BOOLEAN]

Faults == Names \cup {"file", "empty", "identifier", "pattern", "duplicate",
                     "unique", "hierarchy"}

Reports == [phase : Phases, type : Types, key : Ids \cup Paths \cup {NoId}, fault : Faults]

TypeInv ==
    /\ disk \in Disks /\ atStart \in Disks
    /\ options \in Options /\ edits \in Nat
    /\ raw \subseteq RawObjects /\ found \in Seq(SUBSET Reports) /\ errors \subseteq Reports
    /\ stage = "collect" => left = {} /\ index = {} /\ seen = {}
    /\ stage # "done" => errors = {}
    /\ ValidationTypeOK

AllObjects(d) == UNION {ObjectsAt(d, t) : t \in Types}

FormatRightFor(d, t) ==
    \A s \in StoreAt(d)!Positions(t) : s[3] # 0 /\ StoreAt(d)!FileAt(s) \in DerivesAt[t]

(* The files of t are the same.                                              *)
Agree(d, e, t) == \A n \in DOMAIN Includes[t] : \A p \in Includes[t][n].files : d[p] = e[p]

(* What the schema phase asks of an object, beside those of its type in S.    *)
Clashes(o, obj) ==
    /\ o # obj /\ o.type = obj.type
    /\ o.key = obj.key \/ UniqueValues(o) \cap UniqueValues(obj) # {}

FieldsRight(obj) ==
    \A n \in DOMAIN FieldsOf[obj.type] : ~FieldFault(FieldsOf[obj.type][n], obj.fields[n])

ObjectsRight(S) ==
    /\ \A obj \in S : ~obj.empty /\ obj.key \in Matching[obj.type] /\ FieldsRight(obj)
    /\ \A o, obj \in S : ~Clashes(o, obj)

HierarchiesRight(S) ==
    \A o, obj \in S : o.type \in HierarchyOf[obj.type] /\ o.key = obj.key => o.type = obj.type

LinksRight(S, obj) ==
    \A n \in DOMAIN FieldsOf[obj.type] :
        FieldsOf[obj.type][n].refs # {} /\ obj.fields[n] # Unset =>
            Cardinality({u \in FieldsOf[obj.type][n].refs :
                \E o \in S : o.type \in AssignableTo[u] /\ o.key = obj.fields[n]}) = 1

(* Each phase, for the files d.                                             *)
CollectInv(d) ==
    /\ \A t \in todo : Agree(d, disk, t)
    /\ found = <<>> <=> \A t \in Types \ todo : FormatRightFor(d, t)
    /\ found = <<>> => raw = UNION {ObjectsAt(d, t) : t \in Types \ todo}

SchemaInv ==
    /\ index \subseteq raw \ left
    /\ seen \subseteq UNION {UniqueValues(obj) : obj \in raw \ left}
    /\ IF found = <<>>
       THEN /\ index = raw \ left /\ ObjectsRight(raw \ left)
            /\ seen = UNION {UniqueValues(obj) : obj \in raw \ left}
       ELSE ~ObjectsRight(raw)

ReferencesInv ==
    /\ index = raw
    /\ found = <<>> <=> \A obj \in raw \ left : LinksRight(raw, obj)

(* The first phase that finds a fault is one that was asked for.              *)
Told(d) ==
    IF ~FormatRight(d) THEN RunsPhase("format")
    ELSE IF ~SchemaRight(d) THEN RunsPhase("schema")
    ELSE RunsPhase("references") /\ ~ReferencesRight(d)

MomentInv(d) ==
    /\ stage = "collect" => CollectInv(d)
    /\ stage \in {"schema", "references"} => FormatRight(d) /\ raw = AllObjects(d)
    /\ stage = "schema" => SchemaInv
    /\ stage = "references" => SchemaRight(d) /\ ReferencesInv /\ RunsPhase("references")
    /\ stage = "done" => (errors # {} <=> Told(d))

ValidationInv ==
    /\ TypeInv
    /\ edits = 0 => disk = atStart
    /\ AtMostOneWrite => \E d \in {atStart, disk} : MomentInv(d)

---------------------------------------------------------------------------
(* Reading.                                                                 *)

LEMMA IncludeFacts ==
    ASSUME NEW t \in Types, NEW n \in DOMAIN Includes[t]
    PROVE  /\ Includes[t][n] \in Include
           /\ DOMAIN Includes[t] = 1 .. Len(Includes[t]) /\ Len(Includes[t]) \in Nat
<1>1. Includes[t] \in Seq(Include)
    BY LayoutAssumption
<1> QED
    BY <1>1

LEMMA RankFacts ==
    ASSUME NEW rank \in DOMAIN PathOrder
    PROVE  PathOrder[rank] \in Paths /\ rank \in Nat \ {0}
BY LayoutAssumption

LEMMA FileFacts ==
    ASSUME NEW d \in Disks, NEW p \in Paths, d[p] # Absent
    PROVE  /\ d[p] \in Files
           /\ d[p].items \in Seq(Item)
           /\ d[p].type \in Types \cup {NoType}
           /\ DOMAIN d[p].items = 1 .. Len(d[p].items) /\ Len(d[p].items) \in Nat
<1>1. d[p] \in Files
    BY DEF Disks
<1>2. d[p] \in Contents
    BY <1>1 DEF Files
<1>3. d[p].items \in Seq(Item) /\ d[p].type \in Types \cup {NoType}
    BY <1>2 DEF Contents
<1> QED
    BY <1>1, <1>3

(* A match is a file that is there, of an include.                           *)
LEMMA MatchFacts ==
    ASSUME disk \in Disks, NEW t \in Types, NEW m \in MatchesOf(t)
    PROVE  /\ m[1] \in DOMAIN Includes[t] /\ m[2] \in DOMAIN PathOrder
           /\ m = FilePlace(m[1], m[2])
           /\ FileAt(m) \in Paths /\ disk[FileAt(m)] # Absent
           /\ RunsInRoot => FileAt(m) \in Includes[t][m[1]].files
<1>1. PICK n \in DOMAIN Includes[t], rank \in DOMAIN PathOrder : m = FilePlace(n, rank)
    BY DEF MatchesOf
<1>2. m[1] = n /\ m[2] = rank /\ FileAt(m) = PathOrder[rank]
    BY <1>1 DEF FilePlace, FileAt
<1>3. disk[FileAt(m)] # Absent /\ FileAt(m) \in Joined[t][m[1]]
    BY DEF MatchesOf
<1>4. RunsInRoot => FileAt(m) \in Includes[t][m[1]].files
    BY <1>2, <1>3 DEF RunsInRoot
<1> QED
    BY <1>1, <1>2, <1>3, <1>4, RankFacts

(* A file is of use to the validation when the store can read the objects    *)
(* of the type from it.                                                     *)
LEMMA UsableIsReadable ==
    ASSUME disk \in Disks, RunsInRoot, NEW t \in Types, NEW m \in MatchesOf(t)
    PROVE  Usable(t, m) <=>
               /\ StoreAt(disk)!Readable(t, Includes[t][m[1]], disk[FileAt(m)])
               /\ FileAt(m) \in DerivesAt[t] \/ disk[FileAt(m)].items = <<>>
<1> DEFINE f == disk[FileAt(m)]
           inc == Includes[t][m[1]]
<1>1. f.items \in Seq(Item)
    BY MatchFacts, FileFacts
<1>2. f.items # <<>> => (Len(f.items) # 1 <=> Len(f.items) > 1)
  <2>1. \A items \in Seq(Item) : items # <<>> => Len(items) \in Nat \ {0}
      OBVIOUS
  <2>2. \A n \in Nat \ {0} : n # 1 <=> n > 1
      OBVIOUS
  <2> QED
      BY <1>1, <2>1, <2>2, Zenon
<1>3. Parses(t, m) <=> StoreAt(disk)!Loads(t, inc, f)
    BY DEF Parses, StoreAt!Loads, StoreAt!LoadsAs
<1>4. Parses(t, m) => (ParsedMulti(t, m) <=> StoreAt(disk)!Several(inc, f))
  <2>1. CASE inc.kind = "selector"
    <3>1. ParsedMulti(t, m) <=> Len(f.items) # 1
        BY <2>1 DEF ParsedMulti
    <3>2. StoreAt(disk)!Several(inc, f) <=> Len(f.items) > 1
        BY <2>1 DEF StoreAt!Several
    <3>3. Parses(t, m) => f.items # <<>>
        BY <2>1 DEF Parses
    <3> QED
        BY <1>2, <3>1, <3>2, <3>3, Zenon
  <2>2. CASE inc.kind # "selector"
      BY <2>2 DEF Parses, ParsedMulti, StoreAt!Several
  <2> QED
      BY <2>1, <2>2
<1> QED
    BY <1>3, <1>4 DEF Usable, StoreAt!Readable

(* The items of one file, as the store comes by them.                        *)
LEMMA ItemsOfMatch ==
    ASSUME disk \in Disks, RunsInRoot, NEW t \in Types, NEW m \in MatchesOf(t)
    PROVE  StoreAt(disk)!ItemsAt(t, m[1], m[2]) =
               {<<m[1], m[2], k>> :
                   k \in IF StoreAt(disk)!Readable(t, Includes[t][m[1]], disk[FileAt(m)])
                         THEN 1 .. Len(disk[FileAt(m)].items) ELSE {0}}
BY MatchFacts DEF StoreAt!ItemsAt, FileAt

LEMMA NoMatchNoItems ==
    ASSUME disk \in Disks, RunsInRoot, NEW t \in Types,
           NEW n \in DOMAIN Includes[t], NEW rank \in DOMAIN PathOrder,
           FilePlace(n, rank) \notin MatchesOf(t)
    PROVE  StoreAt(disk)!ItemsAt(t, n, rank) = {}
<1>1. FileAt(FilePlace(n, rank)) = PathOrder[rank] /\ FilePlace(n, rank)[1] = n
    BY DEF FileAt, FilePlace
<1>2. PathOrder[rank] \notin Joined[t][n] \/ disk[PathOrder[rank]] = Absent
    BY <1>1 DEF MatchesOf
<1>3. PathOrder[rank] \notin Includes[t][n].files \/ disk[PathOrder[rank]] = Absent
    BY <1>2 DEF RunsInRoot
<1> QED
    BY <1>3 DEF StoreAt!ItemsAt

LEMMA PositionsAreMatches ==
    ASSUME disk \in Disks, RunsInRoot, NEW t \in Types
    PROVE  StoreAt(disk)!Positions(t) =
               UNION {StoreAt(disk)!ItemsAt(t, m[1], m[2]) : m \in MatchesOf(t)}
<1>1. ASSUME NEW s \in StoreAt(disk)!Positions(t)
      PROVE  s \in UNION {StoreAt(disk)!ItemsAt(t, m[1], m[2]) : m \in MatchesOf(t)}
  <2>1. PICK n \in DOMAIN Includes[t], rank \in DOMAIN PathOrder :
            s \in StoreAt(disk)!ItemsAt(t, n, rank)
      BY <1>1 DEF StoreAt!Positions
  <2>2. FilePlace(n, rank) \in MatchesOf(t)
      BY <2>1, NoMatchNoItems
  <2>3. FilePlace(n, rank)[1] = n /\ FilePlace(n, rank)[2] = rank
      BY DEF FilePlace
  <2> QED
      BY <2>1, <2>2, <2>3
<1>2. ASSUME NEW m \in MatchesOf(t)
      PROVE  StoreAt(disk)!ItemsAt(t, m[1], m[2]) \subseteq StoreAt(disk)!Positions(t)
    BY <1>2, MatchFacts DEF StoreAt!Positions
<1> QED
    BY <1>1, <1>2

LEMMA FormatIsRightForT ==
    ASSUME disk \in Disks, RunsInRoot, NEW t \in Types
    PROVE  {m \in MatchesOf(t) : ~Usable(t, m)} = {} <=> FormatRightFor(disk, t)
<1>1. ASSUME NEW m \in MatchesOf(t)
      PROVE  Usable(t, m) <=>
                 \A s \in StoreAt(disk)!ItemsAt(t, m[1], m[2]) :
                     s[3] # 0 /\ StoreAt(disk)!FileAt(s) \in DerivesAt[t]
  <2> DEFINE readable == StoreAt(disk)!Readable(t, Includes[t][m[1]], disk[FileAt(m)])
             ks == IF readable THEN 1 .. Len(disk[FileAt(m)].items) ELSE {0}
  <2>1. disk[FileAt(m)].items \in Seq(Item)
      BY <1>1, MatchFacts, FileFacts
  <2>2. (\A s \in StoreAt(disk)!ItemsAt(t, m[1], m[2]) :
             s[3] # 0 /\ StoreAt(disk)!FileAt(s) \in DerivesAt[t])
        <=> \A k \in ks : k # 0 /\ FileAt(m) \in DerivesAt[t]
    <3>1. StoreAt(disk)!ItemsAt(t, m[1], m[2]) = {<<m[1], m[2], k>> : k \in ks}
        BY <1>1, ItemsOfMatch
    <3>2. \A k : StoreAt(disk)!FileAt(<<m[1], m[2], k>>) = FileAt(m)
        BY DEF StoreAt!FileAt, FileAt
    <3>3. \A k : <<m[1], m[2], k>>[3] = k
        OBVIOUS
    <3> HIDE DEF ks
    <3> QED
        BY <3>1, <3>2, <3>3, Zenon
  <2>3. (\A k \in ks : k # 0 /\ FileAt(m) \in DerivesAt[t])
        <=> readable /\ (FileAt(m) \in DerivesAt[t] \/ disk[FileAt(m)].items = <<>>)
    <3>1. CASE readable
      <4>1. CASE disk[FileAt(m)].items = <<>>
          BY <3>1, <4>1
      <4>2. CASE disk[FileAt(m)].items # <<>>
        <5>1. 1 \in ks
            BY <2>1, <3>1, <4>2
        <5> QED
            BY <2>1, <3>1, <4>2, <5>1
      <4> QED
          BY <4>1, <4>2
    <3>2. CASE ~readable
        BY <3>2
    <3> QED
        BY <3>1, <3>2
  <2> QED
      BY <1>1, <2>2, <2>3, UsableIsReadable
<1> QED
    BY <1>1, PositionsAreMatches DEF FormatRightFor

(* The object at s, as the store comes by it.                                *)
ObjectAt(d, t, s) ==
    [type |-> t, at |-> s, key |-> StoreAt(d)!KeyAt(t, s),
     fields |-> StoreAt(d)!FoundAt(t, s).fields,
     empty |-> NoData(d[StoreAt(d)!FileAt(s)])]

LEMMA ReadObjectIsObjectAt ==
    ASSUME NEW t \in Types, NEW m, NEW k \in Nat \ {0}
    PROVE  RawObject(t, m, k) = ObjectAt(disk, t, <<m[1], m[2], k>>)
<1> DEFINE s == <<m[1], m[2], k>>
<1>1. s[3] = k /\ FileAt(s) = FileAt(m) /\ StoreAt(disk)!FileAt(s) = FileAt(m)
    BY DEF FileAt, StoreAt!FileAt
<1>2. StoreAt(disk)!KeyAt(t, s) =
          IF t \in PathTypes THEN FileAt(m) ELSE disk[FileAt(m)].items[k].id
    BY <1>1 DEF StoreAt!KeyAt, StoreAt!KeyOf
<1>3. StoreAt(disk)!FoundAt(t, s).fields = disk[FileAt(m)].items[k].fields
    BY <1>1 DEF StoreAt!FoundAt
<1>4. NoData(disk[StoreAt(disk)!FileAt(s)]) = NoData(disk[FileAt(m)])
    BY <1>1
<1> DEFINE key == IF t \in PathTypes THEN FileAt(m) ELSE disk[FileAt(m)].items[k].id
<1>5. RawObject(t, m, k) = [type |-> t, at |-> s, key |-> key,
                            fields |-> disk[FileAt(m)].items[k].fields,
                            empty |-> NoData(disk[FileAt(m)])]
    BY ZenonT(30) DEF RawObject
<1>6. ObjectAt(disk, t, s) = [type |-> t, at |-> s, key |-> key,
                              fields |-> disk[FileAt(m)].items[k].fields,
                              empty |-> NoData(disk[FileAt(m)])]
    BY ZenonT(30), <1>2, <1>3, <1>4 DEF ObjectAt
<1> QED
    BY <1>5, <1>6

LEMMA ReadObjectsAreObjectsAt ==
    ASSUME disk \in Disks, RunsInRoot, NEW t \in Types, FormatRightFor(disk, t)
    PROVE  InlineObjects(t) \cup UNION {ObjectsIn(t, m) : m \in MatchesOf(t)} = ObjectsAt(disk, t)
<1>1. ASSUME NEW m \in MatchesOf(t)
      PROVE  ObjectsIn(t, m) =
                 {ObjectAt(disk, t, s) : s \in StoreAt(disk)!ItemsAt(t, m[1], m[2])}
  <2> DEFINE ks == 1 .. Len(disk[FileAt(m)].items)
  <2>1. Usable(t, m)
      BY FormatIsRightForT
  <2>2. DOMAIN disk[FileAt(m)].items = ks /\ Len(disk[FileAt(m)].items) \in Nat
      BY MatchFacts, FileFacts
  <2>3. ObjectsIn(t, m) = {RawObject(t, m, k) : k \in ks}
      BY <2>1, <2>2 DEF ObjectsIn
  <2>4. StoreAt(disk)!ItemsAt(t, m[1], m[2]) = {<<m[1], m[2], k>> : k \in ks}
      BY <2>1, UsableIsReadable, ItemsOfMatch
  <2>5. \A k \in ks : RawObject(t, m, k) = ObjectAt(disk, t, <<m[1], m[2], k>>)
    <3>1. \A k \in ks : k \in Nat \ {0}
        BY <2>2
    <3> QED
        BY <3>1, ReadObjectIsObjectAt
  <2> HIDE DEF ks
  <2> QED
      BY <2>3, <2>4, <2>5
<1>2. UNION {ObjectsIn(t, m) : m \in MatchesOf(t)} =
          {ObjectAt(disk, t, s) : s \in StoreAt(disk)!Positions(t)}
    BY <1>1, PositionsAreMatches
<1> QED
    BY <1>2 DEF ObjectsAt, ObjectAt

(* What the store makes of the files of t depends on no other file.           *)
LEMMA ItemsAgree ==
    ASSUME NEW d, NEW e, NEW t \in Types, Agree(d, e, t),
           NEW n \in DOMAIN Includes[t], NEW rank \in DOMAIN PathOrder
    PROVE  StoreAt(d)!ItemsAt(t, n, rank) = StoreAt(e)!ItemsAt(t, n, rank)
<1>1. CASE PathOrder[rank] \notin Includes[t][n].files
    BY <1>1 DEF StoreAt!ItemsAt
<1>2. CASE PathOrder[rank] \in Includes[t][n].files
  <2>1. d[PathOrder[rank]] = e[PathOrder[rank]]
      BY <1>2 DEF Agree
  <2>2. StoreAt(d)!Readable(t, Includes[t][n], d[PathOrder[rank]])
        <=> StoreAt(e)!Readable(t, Includes[t][n], e[PathOrder[rank]])
      BY <2>1 DEF StoreAt!Readable, StoreAt!Loads, StoreAt!LoadsAs, StoreAt!Several
  <2> QED
      BY <2>1, <2>2 DEF StoreAt!ItemsAt
<1> QED
    BY <1>1, <1>2

LEMMA PositionFacts ==
    ASSUME NEW d, NEW t \in Types, NEW s \in StoreAt(d)!Positions(t)
    PROVE  /\ s[1] \in DOMAIN Includes[t] /\ s[2] \in DOMAIN PathOrder
           /\ s \in StoreAt(d)!ItemsAt(t, s[1], s[2])
           /\ StoreAt(d)!FileAt(s) = PathOrder[s[2]]
           /\ StoreAt(d)!FileAt(s) \in Includes[t][s[1]].files
           /\ d[PathOrder[s[2]]] # Absent
           /\ s[3] # 0 => s[3] \in 1 .. Len(d[PathOrder[s[2]]].items)
           /\ s = <<s[1], s[2], s[3]>>
<1>1. PICK n \in DOMAIN Includes[t], rank \in DOMAIN PathOrder :
          s \in StoreAt(d)!ItemsAt(t, n, rank)
    BY DEF StoreAt!Positions
<1>2. /\ PathOrder[rank] \in Includes[t][n].files /\ d[PathOrder[rank]] # Absent
      /\ \E k : /\ s = <<n, rank, k>>
                /\ k # 0 => k \in 1 .. Len(d[PathOrder[rank]].items)
    BY <1>1 DEF StoreAt!ItemsAt
<1> QED
    BY <1>1, <1>2 DEF StoreAt!FileAt

LEMMA PositionsAgree ==
    ASSUME NEW d, NEW e, NEW t \in Types, Agree(d, e, t)
    PROVE  /\ StoreAt(d)!Positions(t) = StoreAt(e)!Positions(t)
           /\ ObjectsAt(d, t) = ObjectsAt(e, t)
           /\ FormatRightFor(d, t) <=> FormatRightFor(e, t)
<1>1. StoreAt(d)!Positions(t) = StoreAt(e)!Positions(t)
    BY ItemsAgree DEF StoreAt!Positions
<1>2. ASSUME NEW s \in StoreAt(d)!Positions(t)
      PROVE  /\ StoreAt(d)!FileAt(s) = StoreAt(e)!FileAt(s)
             /\ ObjectAt(d, t, s) = ObjectAt(e, t, s)
  <2>1. StoreAt(d)!FileAt(s) = StoreAt(e)!FileAt(s)
      BY DEF StoreAt!FileAt
  <2>2. d[StoreAt(d)!FileAt(s)] = e[StoreAt(e)!FileAt(s)]
      BY <2>1, PositionFacts DEF Agree
  <2>3. StoreAt(d)!KeyAt(t, s) = StoreAt(e)!KeyAt(t, s)
      BY <2>1, <2>2 DEF StoreAt!KeyAt, StoreAt!KeyOf
  <2>4. StoreAt(d)!FoundAt(t, s).fields = StoreAt(e)!FoundAt(t, s).fields
      BY <2>1, <2>2 DEF StoreAt!FoundAt
  <2>5. NoData(d[StoreAt(d)!FileAt(s)]) = NoData(e[StoreAt(e)!FileAt(s)])
      BY <2>2
  <2> QED
      BY ZenonT(30), <2>1, <2>3, <2>4, <2>5 DEF ObjectAt
<1>3. ObjectsAt(d, t) = {ObjectAt(d, t, s) : s \in StoreAt(d)!Positions(t)} \cup InlineObjects(t)
    BY DEF ObjectsAt, ObjectAt
<1>4. ObjectsAt(e, t) = {ObjectAt(e, t, s) : s \in StoreAt(e)!Positions(t)} \cup InlineObjects(t)
    BY DEF ObjectsAt, ObjectAt
<1> QED
    BY <1>1, <1>2, <1>3, <1>4 DEF FormatRightFor

---------------------------------------------------------------------------
(* Types.                                                                   *)

LEMMA RawObjectTyped ==
    ASSUME disk \in Disks, NEW t \in Types, NEW m \in MatchesOf(t),
           NEW k \in DOMAIN disk[FileAt(m)].items
    PROVE  RawObject(t, m, k) \in RawObjects /\ RawObject(t, m, k).key \in Keys[t] \cup {NoId}
<1>1. disk[FileAt(m)].items[k] \in Item /\ k \in Nat
    BY MatchFacts, FileFacts
<1>2. /\ disk[FileAt(m)].items[k].id \in Ids \cup {NoId}
      /\ disk[FileAt(m)].items[k].fields \in FieldMaps
    BY <1>1 DEF Item
<1>3. m[1] \in Nat /\ m[2] \in Nat /\ FileAt(m) \in Paths
    BY MatchFacts, IncludeFacts, RankFacts
<1>4. <<m[1], m[2], k>> \in Nat \X Nat \X Nat
    BY <1>1, <1>3
<1> QED
    BY <1>2, <1>3, <1>4 DEF RawObject, RawObjects, Keys, NoData

LEMMA InlineObjectTyped ==
    ASSUME NEW t \in Types, NEW obj \in InlineObjects(t)
    PROVE  obj \in RawObjects /\ obj.type = t /\ obj.key \in Keys[t]
<1>1. PICK k \in DOMAIN Inline[t] :
          obj = [type |-> t, at |-> InlinePlace(t), key |-> k, fields |-> Inline[t][k],
                 empty |-> FALSE]
    BY DEF InlineObjects
<1>2. k \in Keys[t] /\ Inline[t][k] \in FieldMaps
    BY ConfigAssumption
<1>3. Len(Includes[t]) \in Nat
    BY LayoutAssumption
<1>4. InlinePlace(t) \in Nat \X Nat \X Nat
    BY <1>3 DEF InlinePlace
<1>5. k \in Ids \cup Paths
    BY <1>2 DEF Keys
<1> QED
    BY <1>1, <1>2, <1>4, <1>5 DEF RawObjects

LEMMA ReadTyped ==
    ASSUME disk \in Disks, NEW t \in Types,
           NEW obj \in InlineObjects(t) \cup UNION {ObjectsIn(t, m) : m \in MatchesOf(t)}
    PROVE  obj \in RawObjects /\ obj.type = t /\ obj.key \in Keys[t] \cup {NoId}
<1>1. CASE obj \in InlineObjects(t)
    BY <1>1, InlineObjectTyped
<1>2. CASE obj \in UNION {ObjectsIn(t, m) : m \in MatchesOf(t)}
  <2>1. PICK m \in MatchesOf(t) : obj \in ObjectsIn(t, m)
      BY <1>2
  <2>2. PICK k \in DOMAIN disk[FileAt(m)].items : obj = RawObject(t, m, k)
      BY <2>1 DEF ObjectsIn
  <2>3. obj.type = t
      BY <2>2 DEF RawObject
  <2> QED
      BY <2>2, <2>3, RawObjectTyped
<1> QED
    BY <1>1, <1>2

LEMMA FieldNames ==
    ASSUME NEW t \in Types
    PROVE  DOMAIN FieldsOf[t] \subseteq Names /\
           \A n \in DOMAIN FieldsOf[t] : FieldsOf[t][n] \in FieldDefinition
<1>1. PICK ns \in SUBSET Names : FieldsOf[t] \in [ns -> FieldDefinition]
    BY ValidationAssumption
<1> QED
    BY <1>1

LEMMA ErrorTyped ==
    ASSUME NEW phase \in Phases, NEW t \in Types, NEW key \in Ids \cup Paths \cup {NoId},
           NEW fault \in Faults
    PROVE  Error(phase, t, key, fault) \in Reports
BY DEF Error, Reports

LEMMA ObjectErrorsTyped ==
    ASSUME NEW obj \in RawObjects
    PROVE  ObjectErrors(obj) \subseteq Reports /\ ReferenceErrors(obj) \subseteq Reports
<1>1. obj.type \in Types /\ obj.key \in Ids \cup Paths \cup {NoId}
    BY DEF RawObjects
<1>2. \A n \in DOMAIN FieldsOf[obj.type] : n \in Faults
    BY <1>1, FieldNames DEF Faults
<1>3. "schema" \in Phases /\ "references" \in Phases
    BY DEF Phases
<1>4. /\ "unique" \in Faults
      /\ Refusal(obj) # "none" => Refusal(obj) \in Faults
    BY DEF Faults, Refusal
<1>5. FieldErrors(obj) \subseteq Reports
    BY <1>1, <1>2, <1>3, <1>4, ErrorTyped DEF FieldErrors
<1>6. ReferenceErrors(obj) \subseteq Reports
    BY <1>1, <1>2, <1>3, ErrorTyped DEF ReferenceErrors
<1> QED
    BY <1>1, <1>3, <1>4, <1>5, <1>6, ErrorTyped DEF ObjectErrors

LEMMA TwoMore ==
    ASSUME NEW S, NEW s \in Seq(S), NEW a \in S, NEW b \in S
    PROVE  s \o <<a, b>> \in Seq(S) /\ s \o <<a, b>> # <<>>
<1> DEFINE two == <<a, b>>
<1>1. two \in Seq(S) /\ two # <<>>
    OBVIOUS
<1> HIDE DEF two
<1>2. s \o two \in Seq(S)
    BY <1>1, ConcatProperties
<1>3. s \o two # <<>>
    BY <1>1, ConcatEqualIffEmpty
<1> QED
    BY <1>2, <1>3 DEF two

LEMMA TypeInvCollect ==
    ASSUME TypeInv, NEW t \in Types, Collect(t)
    PROVE  TypeInv'
<1> DEFINE new == InlineObjects(t) \cup UNION {ObjectsIn(t, m) : m \in MatchesOf(t)}
           useless == {m \in MatchesOf(t) : ~Usable(t, m)}
           first == {m \in useless : \A o \in useless : ~PlaceBefore(o, m)}
           errs(S) == {FileError(t, m) : m \in S}
<1>1. disk \in Disks /\ found \in Seq(SUBSET Reports)
    BY DEF TypeInv
<1>2. raw' = raw \cup new
    BY DEF Collect
<1>3. \A obj \in new : obj \in RawObjects /\ obj.type = t /\ obj.key \in Keys[t] \cup {NoId}
    BY <1>1, ReadTyped
<1>4. \A S \in SUBSET MatchesOf(t) : errs(S) \in SUBSET Reports
  <2>1. \A m \in MatchesOf(t) : FileAt(m) \in Paths
      BY <1>1, MatchFacts
  <2>2. "file" \in Faults /\ "schema" \in Phases /\ "format" \in Phases
      BY DEF Faults, Phases
  <2>3. \A m \in MatchesOf(t) : FileError(t, m) \in Reports
      BY <2>1, <2>2, ErrorTyped DEF FileError
  <2> QED
      BY <2>3
<1>5. found' = IF useless = {} THEN found ELSE found \o <<errs(first), errs(useless)>>
    BY DEF Collect
<1>6. found' \in Seq(SUBSET Reports)
  <2>1. errs(first) \in SUBSET Reports /\ errs(useless) \in SUBSET Reports
      BY <1>4
  <2> HIDE DEF errs, first, useless
  <2> QED
      BY <1>1, <1>5, <2>1, TwoMore, Zenon
<1> HIDE DEF new, errs, first, useless
<1>7. /\ raw' \subseteq RawObjects
      /\ \A obj \in raw' : obj.type \in Types /\ obj.key \in Keys[obj.type] \cup {NoId}
    BY <1>2, <1>3 DEF TypeInv, ValidationTypeOK
<1>8. UNCHANGED <<disk, options, stage, left, index, seen, errors, atStart, edits>> /\ todo' \subseteq todo
    BY DEF Collect
<1>9. left' = {} /\ index' = {} /\ seen' = {}
    BY <1>8 DEF Collect, TypeInv
<1> QED
    BY <1>6, <1>7, <1>8, <1>9 DEF TypeInv, ValidationTypeOK

LEMMA TypeInvVerdict ==
    ASSUME TypeInv, NEW phase, NEW errs \in Seq(SUBSET Reports),
           NEW next \in {"schema", "references", "done"}, Verdict(phase, errs, next),
           stage # "done"
    PROVE  TypeInv'
<1>1. UNCHANGED <<disk, options, edits, todo, raw, index, atStart>> /\ left' = raw /\ found' = <<>>
    BY DEF Verdict
<1>2. stage' \in {"schema", "references", "done"}
    BY DEF Verdict
<1>3. errors' \subseteq Reports
  <2>1. CASE errs = <<>>
      BY <2>1 DEF Verdict, TypeInv
  <2>2. CASE errs # <<>>
    <3>1. \A n \in DOMAIN errs : errs[n] \subseteq Reports
        BY ElementOfSeq
    <3>2. Head(errs) \subseteq Reports
        BY <2>2, HeadTailProperties
    <3> QED
        BY <2>2, <3>1, <3>2 DEF Verdict
  <2> QED
      BY <2>1, <2>2
<1>4. <<>> \in Seq(SUBSET Reports)
    OBVIOUS
<1>5. \A e \in errors' : e.phase \in Phases /\ e.type \in Types
    BY <1>3 DEF Reports
<1>6. stage' # "done" => errors' = {}
    BY DEF Verdict, TypeInv
<1> QED
    BY <1>1, <1>2, <1>3, <1>4, <1>5, <1>6 DEF TypeInv, ValidationTypeOK

LEMMA TypeInvCheck ==
    ASSUME TypeInv, NEW obj \in left, NEW errs \in SUBSET Reports, Check(obj, errs),
           stage # "collect", index' \subseteq index \cup {obj},
           index' # index => obj.key # NoId /\ ~Duplicate(obj)
    PROVE  TypeInv'
<1>1. UNCHANGED <<disk, options, stage, todo, raw, errors, atStart, edits>> /\ left' \subseteq left
    BY DEF Check
<1>2. found' \in Seq(SUBSET Reports)
    BY AppendProperties DEF Check, TypeInv
<1>3. index' \subseteq raw /\ \A o \in index' : o.key \in Keys[o.type]
  <2>1. obj \in raw /\ (index' # index => obj.key \in Keys[obj.type])
      BY DEF TypeInv, ValidationTypeOK
  <2> QED
      BY <2>1 DEF TypeInv, ValidationTypeOK
<1>4. \A o, p \in index' : o.type = p.type /\ o.key = p.key => o = p
    BY DEF TypeInv, ValidationTypeOK, Duplicate
<1> QED
    BY <1>1, <1>2, <1>3, <1>4 DEF TypeInv, ValidationTypeOK

LEMMA RawIsTyped ==
    ASSUME TypeInv, NEW obj \in left
    PROVE  obj \in raw /\ obj \in RawObjects
BY DEF TypeInv, ValidationTypeOK

LEMMA TypeInvSchemaVerdict ==
    ASSUME TypeInv, SchemaVerdict
    PROVE  TypeInv'
<1> DEFINE clashing == {obj \in index : Conflicts(obj)}
           first == {obj \in clashing : \A o \in clashing : ~TypeBefore(o.type, obj.type)}
           errs(S) == {Error("schema", obj.type, obj.key, "hierarchy") : obj \in S}
           all == IF clashing = {} THEN found ELSE found \o <<errs(first), errs(clashing)>>
<1>1. \A S \in SUBSET index : errs(S) \in SUBSET Reports
  <2>1. \A obj \in index : obj.type \in Types /\ obj.key \in Ids \cup Paths \cup {NoId}
      BY DEF TypeInv, ValidationTypeOK, RawObjects
  <2>2. "schema" \in Phases /\ "hierarchy" \in Faults
      BY DEF Phases, Faults
  <2>3. \A obj \in index : Error("schema", obj.type, obj.key, "hierarchy") \in Reports
      BY <2>1, <2>2, ErrorTyped
  <2> QED
      BY <2>3
<1>2. errs(first) \in SUBSET Reports /\ errs(clashing) \in SUBSET Reports
    BY <1>1
<1>3. stage # "done" /\
      Verdict("schema", all,
              IF "references" \in options.phases THEN "references" ELSE "done")
    BY DEF SchemaVerdict
<1> HIDE DEF clashing, first, errs
<1>4. all \in Seq(SUBSET Reports)
    BY <1>2, TwoMore DEF TypeInv
<1> HIDE DEF all
<1> QED
    BY <1>3, <1>4, TypeInvVerdict

LEMMA TypeInvEdit ==
    ASSUME TypeInv, Edit
    PROVE  TypeInv' /\ UNCHANGED runVars
<1>1. PICK p \in Paths, content \in Edits : disk' = [disk EXCEPT ![p] = content]
    BY DEF Edit
<1>2. disk' \in Disks
    BY <1>1, ValidationAssumption DEF TypeInv, Disks
<1>3. UNCHANGED runVars /\ edits' \in Nat
    BY DEF Edit, TypeInv
<1> QED
    BY <1>2, <1>3 DEF TypeInv, ValidationTypeOK, runVars

LEMMA TypeInvInit == ValidationInit => TypeInv
<1> SUFFICES ASSUME ValidationInit PROVE TypeInv
    OBVIOUS
<1>1. disk \in Disks /\ options \in Options
    BY DisksAssumption, ValidationAssumption DEF ValidationInit, Init
<1>2. <<>> \in Seq(SUBSET Reports)
    OBVIOUS
<1> QED
    BY <1>1, <1>2 DEF ValidationInit, TypeInv, ValidationTypeOK

LEMMA TypeInvStep == TypeInv /\ [ValidationNext]_vars => TypeInv'
<1> SUFFICES ASSUME TypeInv, [ValidationNext]_vars PROVE TypeInv'
    OBVIOUS
<1>1. ASSUME NEW t \in Types, Collect(t) PROVE TypeInv'
    BY <1>1, TypeInvCollect
<1>2. CASE FormatVerdict
    BY <1>2, TypeInvVerdict DEF FormatVerdict, TypeInv
<1>3. ASSUME NEW obj \in left, CheckObject(obj) PROVE TypeInv'
  <2>1. ObjectErrors(obj) \in SUBSET Reports
      BY RawIsTyped, ObjectErrorsTyped
  <2>2. index' \subseteq index \cup {obj}
      BY <1>3 DEF CheckObject
  <2>3. index' # index => obj.key # NoId /\ ~Duplicate(obj)
      BY <1>3 DEF CheckObject, ObjectErrors, Refusal
  <2>4. stage # "collect" /\ Check(obj, ObjectErrors(obj))
      BY <1>3 DEF CheckObject
  <2> QED
      BY <2>1, <2>2, <2>3, <2>4, TypeInvCheck
<1>4. CASE SchemaVerdict
    BY <1>4, TypeInvSchemaVerdict
<1>5. ASSUME NEW obj \in left, CheckReferences(obj) PROVE TypeInv'
  <2>1. ReferenceErrors(obj) \in SUBSET Reports
      BY RawIsTyped, ObjectErrorsTyped
  <2>2. stage # "collect" /\ Check(obj, ReferenceErrors(obj)) /\ index' = index
      BY <1>5 DEF CheckReferences
  <2> QED
      BY <2>1, <2>2, TypeInvCheck
<1>6. CASE ReferenceVerdict
    BY <1>6, TypeInvVerdict DEF ReferenceVerdict, TypeInv
<1>7. CASE Edit
    BY <1>7, TypeInvEdit
<1>8. CASE UNCHANGED vars
    BY <1>8 DEF vars, runVars, TypeInv, ValidationTypeOK
<1> QED
    BY <1>1, <1>2, <1>3, <1>4, <1>5, <1>6, <1>7, <1>8 DEF ValidationNext, Returned

(* What was read are objects of the types, the index holds at most one object *)
(* of a type with an identifier, and only errors about the types are         *)
(* reported.                                                                *)
THEOREM ValidationIsTyped == ValidationSpec => []ValidationTypeOK
<1>1. TypeInv => ValidationTypeOK
    BY DEF TypeInv
<1> QED
    BY <1>1, TypeInvInit, TypeInvStep, PTL DEF ValidationSpec

---------------------------------------------------------------------------
(* What is right about the objects of the files.                             *)

LEMMA TypesOfHierarchy ==
    ASSUME NEW t \in Types
    PROVE  /\ t \in HierarchyOf[t] /\ HierarchyOf[t] \subseteq Types
           /\ t \in AssignableTo[t] /\ AssignableTo[t] \subseteq HierarchyOf[t]
           /\ \A u \in HierarchyOf[t] : HierarchyOf[u] = HierarchyOf[t]
BY TypesAssumption

LEMMA ObjectsAtFacts ==
    ASSUME NEW d, NEW t \in Types
    PROVE  /\ \A o \in ObjectsAt(d, t) : o.type = t
           /\ \A o, p \in ObjectsAt(d, t) : o.at = p.at /\ o.key = p.key => o = p
<1> DEFINE inFiles == {ObjectAt(d, t, s) : s \in StoreAt(d)!Positions(t)}
<1>1. ObjectsAt(d, t) = inFiles \cup InlineObjects(t)
    BY DEF ObjectsAt, ObjectAt
<1>2. \A o \in inFiles : o.type = t /\ o.at[1] \in DOMAIN Includes[t]
    BY PositionFacts DEF ObjectAt
<1>3. \A o, p \in inFiles : o.at = p.at => o = p
    BY DEF ObjectAt
<1>4. \A o \in InlineObjects(t) : o.type = t /\ o.at[1] = Len(Includes[t]) + 1
    BY DEF InlineObjects, InlinePlace
<1>5. ASSUME NEW o \in InlineObjects(t), NEW p \in InlineObjects(t), o.key = p.key
      PROVE  o = p
  <2>1. PICK k \in DOMAIN Inline[t] :
            o = [type |-> t, at |-> InlinePlace(t), key |-> k, fields |-> Inline[t][k],
                 empty |-> FALSE]
      BY DEF InlineObjects
  <2>2. PICK l \in DOMAIN Inline[t] :
            p = [type |-> t, at |-> InlinePlace(t), key |-> l, fields |-> Inline[t][l],
                 empty |-> FALSE]
      BY DEF InlineObjects
  <2>3. o.key = k /\ p.key = l
      BY <2>1, <2>2
  <2> QED
      BY <1>5, <2>1, <2>2, <2>3
<1>6. Len(Includes[t]) + 1 \notin DOMAIN Includes[t]
    BY LayoutAssumption
<1>7. \A o \in inFiles, p \in InlineObjects(t) : o.at # p.at
    BY <1>2, <1>4, <1>6
<1> HIDE DEF inFiles
<1> QED
    BY <1>1, <1>2, <1>3, <1>4, <1>5, <1>7

LEMMA AllObjectsFacts ==
    ASSUME NEW d
    PROVE  /\ \A o \in AllObjects(d) : o.type \in Types /\ o \in ObjectsAt(d, o.type)
           /\ \A t \in Types : \A o \in ObjectsAt(d, t) : o \in AllObjects(d) /\ o.type = t
BY ObjectsAtFacts DEF AllObjects

LEMMA SchemaRightOfObjects ==
    ASSUME NEW d
    PROVE  SchemaRight(d) <=> ObjectsRight(AllObjects(d)) /\ HierarchiesRight(AllObjects(d))
<1> DEFINE All == AllObjects(d)
<1>1. ASSUME SchemaRight(d) PROVE ObjectsRight(All) /\ HierarchiesRight(All)
  <2>1. ASSUME NEW o \in All, NEW obj \in All, o.type \in HierarchyOf[obj.type]
        PROVE  /\ ~obj.empty /\ obj.key \in Matching[obj.type]
               /\ o.key = obj.key => o.type = obj.type /\ o.at = obj.at
      BY <1>1, <2>1, AllObjectsFacts DEF SchemaRight
  <2>2. ASSUME NEW obj \in All PROVE ~obj.empty /\ obj.key \in Matching[obj.type] /\ FieldsRight(obj)
    <3>1. ~obj.empty /\ obj.key \in Matching[obj.type]
        BY <2>1, <2>2, AllObjectsFacts, TypesOfHierarchy
    <3>2. FieldsRight(obj)
        BY <1>1, <2>2, AllObjectsFacts DEF SchemaRight, FieldsRight
    <3> QED
        BY <3>1, <3>2
  <2>3. ASSUME NEW o \in All, NEW obj \in All, Clashes(o, obj) PROVE FALSE
    <3>1. o.type = obj.type /\ o.type \in Types /\ o \in ObjectsAt(d, obj.type)
          /\ obj \in ObjectsAt(d, obj.type) /\ o # obj
        BY <2>3, AllObjectsFacts DEF Clashes
    <3>2. o.type \in HierarchyOf[obj.type]
        BY <3>1, TypesOfHierarchy
    <3>3. CASE o.key = obj.key
        BY <2>1, <3>1, <3>2, <3>3, ObjectsAtFacts
    <3>4. CASE UniqueValues(o) \cap UniqueValues(obj) # {}
      <4>1. o.at = obj.at /\ o.key = obj.key
          BY <1>1, <3>1, <3>4 DEF SchemaRight
      <4> QED
          BY <3>1, <4>1, ObjectsAtFacts
    <3> QED
        BY <2>3, <3>3, <3>4 DEF Clashes
  <2> HIDE DEF All
  <2> QED
      BY <2>1, <2>2, <2>3 DEF ObjectsRight, HierarchiesRight
<1>2. ASSUME ObjectsRight(All), HierarchiesRight(All) PROVE SchemaRight(d)
  <2>1. ASSUME NEW t \in Types, NEW u \in HierarchyOf[t],
               NEW a \in ObjectsAt(d, t), NEW b \in ObjectsAt(d, u)
        PROVE  ~a.empty /\ a.key \in Matching[t] /\ (a.key = b.key => t = u /\ a.at = b.at)
    <3>1. u \in Types
        BY <2>1, TypesOfHierarchy
    <3>2. a \in All /\ b \in All /\ a.type = t /\ b.type = u
        BY <2>1, <3>1, AllObjectsFacts
    <3>3. a.key = b.key => t = u
        BY <1>2, <2>1, <3>2 DEF HierarchiesRight
    <3>4. a.key = b.key => a = b
        BY <1>2, <3>2, <3>3 DEF ObjectsRight, Clashes
    <3> QED
        BY <1>2, <3>2, <3>3, <3>4 DEF ObjectsRight
  <2>2. ASSUME NEW t \in Types, NEW a \in ObjectsAt(d, t)
        PROVE  /\ \A n \in DOMAIN FieldsOf[t] : ~FieldFault(FieldsOf[t][n], a.fields[n])
               /\ \A b \in ObjectsAt(d, t) :
                      UniqueValues(a) \cap UniqueValues(b) # {} => a.at = b.at /\ a.key = b.key
    <3>1. a \in All /\ a.type = t /\ \A b \in ObjectsAt(d, t) : b \in All /\ b.type = t
        BY <2>2, AllObjectsFacts
    <3> HIDE DEF All
    <3> QED
        BY <1>2, <3>1 DEF ObjectsRight, FieldsRight, Clashes
  <2> QED
      BY <2>1, <2>2 DEF SchemaRight
<1> QED
    BY <1>1, <1>2

LEMMA ReferencesRightOfObjects ==
    ASSUME NEW d
    PROVE  ReferencesRight(d) <=> \A obj \in AllObjects(d) : LinksRight(AllObjects(d), obj)
<1> DEFINE All == AllObjects(d)
<1>1. ASSUME NEW u \in Types, NEW x
      PROVE  (\E v \in AssignableTo[u] : \E b \in ObjectsAt(d, v) : b.key = x)
             <=> \E o \in All : o.type \in AssignableTo[u] /\ o.key = x
  <2>1. AssignableTo[u] \subseteq Types
      BY TypesOfHierarchy
  <2> QED
      BY <2>1, AllObjectsFacts
<1>2. ASSUME NEW t \in Types, NEW a \in ObjectsAt(d, t), NEW n \in DOMAIN FieldsOf[t]
      PROVE  {u \in FieldsOf[t][n].refs :
                  \E v \in AssignableTo[u] : \E b \in ObjectsAt(d, v) : b.key = a.fields[n]}
             = {u \in FieldsOf[t][n].refs :
                  \E o \in All : o.type \in AssignableTo[u] /\ o.key = a.fields[n]}
  <2>1. FieldsOf[t][n].refs \subseteq Types
      BY <1>2, FieldNames DEF FieldDefinition
  <2> HIDE DEF All
  <2> QED
      BY <1>1, <2>1
<1>3. ASSUME NEW t \in Types, NEW a \in ObjectsAt(d, t)
      PROVE  LinksRight(All, a) <=>
                 \A n \in DOMAIN FieldsOf[t] :
                     FieldsOf[t][n].refs # {} /\ a.fields[n] # Unset =>
                         Cardinality({u \in FieldsOf[t][n].refs :
                             \E v \in AssignableTo[u] : \E b \in ObjectsAt(d, v) :
                                 b.key = a.fields[n]}) = 1
  <2>1. a.type = t
      BY <1>3, ObjectsAtFacts
  <2> HIDE DEF All
  <2> QED
      BY <1>2, <2>1 DEF LinksRight
<1>4. ReferencesRight(d) <=> \A t \in Types : \A a \in ObjectsAt(d, t) : LinksRight(All, a)
  <2> HIDE DEF All
  <2> QED
      BY <1>3 DEF ReferencesRight
<1> QED
    BY <1>4, AllObjectsFacts

---------------------------------------------------------------------------
(* The phases.                                                              *)

LEMMA FormatRightOfTypes ==
    ASSUME NEW d
    PROVE  FormatRight(d) <=> \A t \in Types : FormatRightFor(d, t)
BY DEF FormatRight, FormatRightFor

(* A phase that found an error ends the run, and reports one if it was asked  *)
(* for; one that found none leaves the errors as they are.                   *)
LEMMA VerdictErrors ==
    ASSUME NEW phase, NEW errs, NEW next, Verdict(phase, errs, next),
           errs # <<>> => errs \in Seq(SUBSET Reports)
    PROVE  /\ errs # <<>> => stage' = "done" /\ (errors' # {} <=> RunsPhase(phase))
           /\ errs = <<>> => stage' = next /\ errors' = errors
<1>1. CASE errs = <<>>
    BY <1>1 DEF Verdict
<1>2. CASE errs # <<>>
  <2>1. PICK first \in Head(errs) :
            errors' = IF ~RunsPhase(phase) THEN {}
                      ELSE IF options.failFast THEN {first}
                      ELSE UNION {errs[n] : n \in DOMAIN errs}
      BY <1>2 DEF Verdict
  <2>2. Head(errs) = errs[1] /\ 1 \in DOMAIN errs
      BY <1>2
  <2>3. first \in UNION {errs[n] : n \in DOMAIN errs}
      BY <2>1, <2>2
  <2>4. stage' = "done"
      BY <1>2 DEF Verdict
  <2> QED
      BY <1>2, <2>1, <2>3, <2>4
<1> QED
    BY <1>1, <1>2

LEMMA ToldSame ==
    ASSUME NEW d, UNCHANGED options
    PROVE  (Told(d)' <=> Told(d)) /\ \A p : RunsPhase(p)' <=> RunsPhase(p)
BY DEF Told, RunsPhase

LEMMA CollectKeepsMoment ==
    ASSUME TypeInv, RunsInRoot, NEW d, MomentInv(d), NEW t \in Types, Collect(t)
    PROVE  MomentInv(d)'
<1> DEFINE useless == {m \in MatchesOf(t) : ~Usable(t, m)}
           first == {m \in useless : \A o \in useless : ~PlaceBefore(o, m)}
           errs(S) == {FileError(t, m) : m \in S}
           new == InlineObjects(t) \cup UNION {ObjectsIn(t, m) : m \in MatchesOf(t)}
<1>1. /\ stage = "collect" /\ stage' = "collect" /\ t \in todo /\ todo' = todo \ {t}
      /\ disk' = disk /\ raw' = raw \cup new
    BY DEF Collect
<1>2. CollectInv(d) /\ disk \in Disks /\ todo \subseteq Types /\ found \in Seq(SUBSET Reports)
    BY <1>1 DEF MomentInv, TypeInv, ValidationTypeOK
<1>3. Agree(d, disk, t)
    BY <1>1, <1>2 DEF CollectInv
<1>4. useless = {} <=> FormatRightFor(d, t)
    BY <1>2, <1>3, FormatIsRightForT, PositionsAgree
<1>5. found' = <<>> <=> found = <<>> /\ FormatRightFor(d, t)
  <2>1. found' = IF useless = {} THEN found ELSE found \o <<errs(first), errs(useless)>>
      BY DEF Collect
  <2>2. found \o <<errs(first), errs(useless)>> # <<>>
    <3> HIDE DEF errs, first, useless
    <3> QED
        BY <1>2
  <2> HIDE DEF errs, first, useless
  <2> QED
      BY <1>4, <2>1, <2>2
<1>6. Types \ todo' = (Types \ todo) \cup {t}
    BY <1>1, <1>2
<1>7. FormatRightFor(d, t) => new = ObjectsAt(d, t)
    BY <1>2, <1>3, PositionsAgree, ReadObjectsAreObjectsAt
<1> HIDE DEF new, errs, first, useless
<1>8. CollectInv(d)'
  <2>1. \A u \in todo' : Agree(d, disk', u)
      BY <1>1, <1>2 DEF CollectInv
  <2>2. found' = <<>> <=> \A u \in Types \ todo' : FormatRightFor(d, u)
      BY <1>2, <1>5, <1>6 DEF CollectInv
  <2>3. found' = <<>> => raw' = UNION {ObjectsAt(d, u) : u \in Types \ todo'}
      BY <1>1, <1>2, <1>5, <1>6, <1>7 DEF CollectInv
  <2> QED
      BY <2>1, <2>2, <2>3 DEF CollectInv
<1> QED
    BY <1>1, <1>8 DEF MomentInv

LEMMA FormatVerdictKeepsMoment ==
    ASSUME TypeInv, NEW d, MomentInv(d), FormatVerdict
    PROVE  MomentInv(d)'
<1>1. /\ stage = "collect" /\ todo = {} /\ Verdict("format", found, "schema")
      /\ left' = raw /\ found' = <<>> /\ UNCHANGED <<raw, index, seen, options>>
    BY DEF FormatVerdict, Verdict
<1>2. CollectInv(d) /\ index = {} /\ seen = {} /\ found \in Seq(SUBSET Reports)
    BY <1>1 DEF MomentInv, TypeInv
<1>3. found = <<>> <=> FormatRight(d)
    BY <1>1, <1>2, FormatRightOfTypes DEF CollectInv
<1>4. CASE found = <<>>
  <2>1. stage' = "schema"
      BY <1>1, <1>2, <1>4, VerdictErrors
  <2>2. raw = AllObjects(d)
      BY <1>1, <1>2, <1>4 DEF CollectInv, AllObjects
  <2>3. SchemaInv'
    <3>1. raw' \ left' = {}
        BY <1>1
    <3> QED
        BY <1>1, <1>2, <3>1 DEF SchemaInv, ObjectsRight
  <2> QED
      BY <1>1, <1>3, <1>4, <2>1, <2>2, <2>3 DEF MomentInv
<1>5. CASE found # <<>>
  <2>1. stage' = "done" /\ (errors' # {} <=> RunsPhase("format"))
      BY <1>1, <1>2, <1>5, VerdictErrors
  <2>2. Told(d) <=> RunsPhase("format")
      BY <1>3, <1>5 DEF Told
  <2>3. Told(d)' <=> Told(d)
      BY <1>1, ToldSame
  <2> QED
      BY <2>1, <2>2, <2>3 DEF MomentInv
<1> QED
    BY <1>4, <1>5

LEMMA MatchingFacts == \A t \in Types : Matching[t] \subseteq Keys[t] /\ NoId \notin Keys[t]
BY ValidationAssumption, ValuesAssumption DEF Keys

LEMMA CheckObjectKeepsSchema ==
    ASSUME TypeInv, SchemaInv, NEW obj \in left, CheckObject(obj)
    PROVE  SchemaInv'
<1> DEFINE S == raw \ left
           errs == ObjectErrors(obj)
<1>1. /\ left' = left \ {obj} /\ raw' = raw
      /\ found' = IF errs = {} THEN found ELSE Append(found, errs)
      /\ index' = IF errs = {} THEN index \cup {obj} ELSE index
      /\ seen' = IF Refusal(obj) # "none" THEN seen ELSE seen \cup UniqueValues(obj)
    BY DEF CheckObject, Check
<1>2. obj \in raw /\ found \in Seq(SUBSET Reports) /\ obj \notin S
    BY DEF TypeInv, ValidationTypeOK
<1>3. raw' \ left' = S \cup {obj}
    BY <1>1, <1>2
<1>4. index \subseteq S /\ seen \subseteq UNION {UniqueValues(o) : o \in S}
    BY DEF SchemaInv
<1>5. index' \subseteq S \cup {obj} /\
      seen' \subseteq UNION {UniqueValues(o) : o \in S \cup {obj}}
    BY <1>1, <1>4
<1> HIDE DEF S, errs
<1>6. CASE errs = {}
  <2>1. /\ Refusal(obj) = "none" /\ FieldErrors(obj) = {}
        /\ ~obj.empty /\ obj.key \in Matching[obj.type] /\ ~Duplicate(obj)
      BY <1>6 DEF errs, ObjectErrors, Refusal
  <2>2. FieldsRight(obj) /\ UniqueValues(obj) \cap seen = {}
      BY <2>1 DEF FieldErrors, FieldsRight
  <2>3. CASE found = <<>>
    <3>1. /\ index = S /\ ObjectsRight(S)
          /\ seen = UNION {UniqueValues(o) : o \in S}
        BY <2>3 DEF SchemaInv, S
    <3>2. \A o \in S : ~Clashes(o, obj) /\ ~Clashes(obj, o)
        BY <2>1, <2>2, <3>1 DEF Clashes, Duplicate
    <3>3. ObjectsRight(S \cup {obj})
        BY <2>1, <2>2, <3>1, <3>2 DEF ObjectsRight, Clashes
    <3>4. /\ index' = S \cup {obj} /\ found' = <<>>
          /\ seen' = UNION {UniqueValues(o) : o \in S \cup {obj}}
        BY <1>1, <1>6, <2>1, <2>3, <3>1
    <3> QED
        BY <1>3, <1>5, <3>3, <3>4 DEF SchemaInv
  <2>4. CASE found # <<>>
    <3>1. ~ObjectsRight(raw) /\ found' # <<>>
        BY <1>1, <1>6, <2>4 DEF SchemaInv
    <3> QED
        BY <1>1, <1>3, <1>5, <3>1 DEF SchemaInv
  <2> QED
      BY <2>3, <2>4
<1>7. CASE errs # {}
  <2>1. found' # <<>>
      BY <1>1, <1>2, <1>7
  <2>2. ~ObjectsRight(raw)
    <3>1. CASE obj.empty \/ obj.key \notin Matching[obj.type]
        BY <1>2, <3>1 DEF ObjectsRight
    <3>2. CASE Duplicate(obj)
      <4>1. PICK o \in index : o.type = obj.type /\ o.key = obj.key
          BY <3>2 DEF Duplicate
      <4>2. o \in raw /\ Clashes(o, obj)
          BY <1>2, <1>4, <4>1 DEF Clashes, S
      <4> QED
          BY <1>2, <4>2 DEF ObjectsRight
    <3>3. CASE ~obj.empty /\ obj.key \in Matching[obj.type] /\ ~Duplicate(obj)
      <4>0. obj.key # NoId
          BY <1>2, <3>3, MatchingFacts DEF TypeInv, RawObjects
      <4>1. FieldErrors(obj) # {}
          BY <1>7, <3>3, <4>0 DEF errs, ObjectErrors, Refusal
      <4>2. CASE ~FieldsRight(obj)
          BY <1>2, <4>2 DEF ObjectsRight
      <4>3. CASE FieldsRight(obj)
        <5>1. PICK value \in UniqueValues(obj) : value \in seen
            BY <4>1, <4>3 DEF FieldErrors, FieldsRight
        <5>2. PICK o \in S : value \in UniqueValues(o)
            BY <1>4, <5>1
        <5>3. o.type = obj.type
            BY <5>1, <5>2 DEF UniqueValues
        <5>4. o \in raw /\ Clashes(o, obj)
            BY <1>2, <5>1, <5>2, <5>3 DEF Clashes, S
        <5> QED
            BY <1>2, <5>4 DEF ObjectsRight
      <4> QED
          BY <4>2, <4>3
    <3> QED
        BY <3>1, <3>2, <3>3
  <2> QED
      BY <1>1, <1>3, <1>5, <2>1, <2>2 DEF SchemaInv
<1> QED
    BY <1>6, <1>7

(* The conflicts that are found are those within a hierarchy: two types of it *)
(* share its topmost type, and one of them comes before the other.           *)
LEMMA ConflictsAreOfHierarchies ==
    ASSUME TypeInv
    PROVE  {obj \in index : Conflicts(obj)} = {} <=> HierarchiesRight(index)
<1>1. \A o \in index : o.type \in Types
    BY DEF TypeInv, ValidationTypeOK
<1>2. ASSUME NEW o \in index, NEW obj \in index, HierarchiesRight(index)
      PROVE  ~(/\ o.key = obj.key /\ TypeBefore(o.type, obj.type)
               /\ AssignableFrom(obj.type) \cap AssignableFrom(o.type) # {})
  <2> SUFFICES ASSUME o.key = obj.key, TypeBefore(o.type, obj.type),
                      NEW r \in AssignableFrom(obj.type) \cap AssignableFrom(o.type)
               PROVE  FALSE
      OBVIOUS
  <2>1. r \in Types /\ o.type \in AssignableTo[r] /\ obj.type \in AssignableTo[r]
      BY DEF AssignableFrom
  <2>2. HierarchyOf[o.type] = HierarchyOf[r] /\ HierarchyOf[obj.type] = HierarchyOf[r]
        /\ o.type \in HierarchyOf[r]
      BY <2>1, TypesOfHierarchy
  <2>3. o.type = obj.type
      BY <1>2, <2>2 DEF HierarchiesRight
  <2>4. PICK n, m \in DOMAIN TypeOrder : n < m /\ TypeOrder[n] = TypeOrder[m]
      BY <2>3 DEF TypeBefore
  <2> QED
      BY <2>4, ValidationAssumption
<1>3. ASSUME NEW o \in index, NEW obj \in index, o.type \in HierarchyOf[obj.type],
             o.key = obj.key, o.type # obj.type
      PROVE  Conflicts(obj) \/ Conflicts(o)
  <2>1. PICK r \in Types : HierarchyOf[obj.type] = AssignableTo[r]
      BY <1>1, ConfigAssumption
  <2>2. r \in AssignableFrom(obj.type) \cap AssignableFrom(o.type)
      BY <1>1, <1>3, <2>1, TypesOfHierarchy DEF AssignableFrom
  <2>3. TypeBefore(o.type, obj.type) \/ TypeBefore(obj.type, o.type)
    <3>1. PICK n \in DOMAIN TypeOrder : TypeOrder[n] = o.type
        BY <1>1, ValidationAssumption
    <3>2. PICK m \in DOMAIN TypeOrder : TypeOrder[m] = obj.type
        BY <1>1, ValidationAssumption
    <3>3. n < m \/ m < n
        BY <1>3, <3>1, <3>2, ValidationAssumption
    <3> QED
        BY <3>1, <3>2, <3>3 DEF TypeBefore
  <2> QED
      BY <1>3, <2>2, <2>3 DEF Conflicts
<1>4. HierarchiesRight(index) => \A obj \in index : ~Conflicts(obj)
    BY <1>2 DEF Conflicts
<1>5. ~HierarchiesRight(index) => \E obj \in index : Conflicts(obj)
    BY <1>3 DEF HierarchiesRight
<1> QED
    BY <1>4, <1>5

LEMMA SchemaVerdictKeepsMoment ==
    ASSUME TypeInv, NEW d, MomentInv(d), SchemaVerdict
    PROVE  MomentInv(d)'
<1> DEFINE clashing == {obj \in index : Conflicts(obj)}
           first == {obj \in clashing : \A o \in clashing : ~TypeBefore(o.type, obj.type)}
           errs(S) == {Error("schema", obj.type, obj.key, "hierarchy") : obj \in S}
           all == IF clashing = {} THEN found ELSE found \o <<errs(first), errs(clashing)>>
           next == IF "references" \in options.phases THEN "references" ELSE "done"
<1>1. /\ stage = "schema" /\ left = {} /\ Verdict("schema", all, next)
      /\ left' = raw /\ found' = <<>> /\ UNCHANGED <<raw, index, seen, options>>
    BY DEF SchemaVerdict, Verdict
<1>2. /\ FormatRight(d) /\ raw = AllObjects(d) /\ SchemaInv
      /\ found \in Seq(SUBSET Reports) /\ errors = {}
    BY <1>1 DEF MomentInv, TypeInv
<1>3. raw \ left = raw
    BY <1>1
<1>4. all \in Seq(SUBSET Reports) /\ (all = <<>> <=> found = <<>> /\ clashing = {})
  <2>1. \A S \in SUBSET index : errs(S) \in SUBSET Reports
    <3>1. \A obj \in index : obj.type \in Types /\ obj.key \in Ids \cup Paths \cup {NoId}
        BY DEF TypeInv, ValidationTypeOK, RawObjects
    <3>2. "schema" \in Phases /\ "hierarchy" \in Faults
        BY DEF Phases, Faults
    <3>3. \A obj \in index : Error("schema", obj.type, obj.key, "hierarchy") \in Reports
        BY <3>1, <3>2, ErrorTyped
    <3> QED
        BY <3>3
  <2>2. errs(first) \in SUBSET Reports /\ errs(clashing) \in SUBSET Reports
      BY <2>1
  <2> HIDE DEF errs, first, clashing
  <2>3. found \o <<errs(first), errs(clashing)>> \in Seq(SUBSET Reports)
        /\ found \o <<errs(first), errs(clashing)>> # <<>>
      BY <1>2, <2>2, TwoMore
  <2> QED
      BY <1>2, <2>3
<1>5. all = <<>> <=> SchemaRight(d)
  <2>1. CASE found = <<>>
    <3>1. index = raw /\ ObjectsRight(raw)
        BY <1>2, <1>3, <2>1 DEF SchemaInv
    <3>2. clashing = {} <=> HierarchiesRight(raw)
        BY <3>1, ConflictsAreOfHierarchies
    <3> HIDE DEF all, clashing
    <3> QED
        BY <1>2, <1>4, <2>1, <3>1, <3>2, SchemaRightOfObjects
  <2>2. CASE found # <<>>
    <3>1. ~ObjectsRight(raw)
        BY <1>2, <2>2 DEF SchemaInv
    <3> HIDE DEF all, clashing
    <3> QED
        BY <1>2, <1>4, <2>2, <3>1, SchemaRightOfObjects
  <2> QED
      BY <2>1, <2>2
<1>6. CASE all = <<>> /\ "references" \in options.phases
  <2>1. stage' = "references"
      BY <1>1, <1>4, <1>6, VerdictErrors
  <2>2. index' = raw' /\ raw' \ left' = {}
    <3>1. index = raw
        BY <1>2, <1>3, <1>4, <1>6 DEF SchemaInv
    <3> QED
        BY <1>1, <3>1
  <2>3. RunsPhase("references")'
      BY <1>1, <1>6 DEF RunsPhase
  <2>4. ReferencesInv'
      BY <1>1, <2>2 DEF ReferencesInv
  <2> QED
      BY <1>1, <1>2, <1>5, <1>6, <2>1, <2>3, <2>4 DEF MomentInv
<1>7. CASE all = <<>> /\ "references" \notin options.phases
  <2>1. stage' = "done" /\ errors' = {}
      BY <1>1, <1>2, <1>4, <1>7, VerdictErrors
  <2>2. ~Told(d)
      BY <1>2, <1>5, <1>7 DEF Told, RunsPhase
  <2> QED
      BY <1>1, <2>1, <2>2, ToldSame DEF MomentInv
<1>8. CASE all # <<>>
  <2>1. stage' = "done" /\ (errors' # {} <=> RunsPhase("schema"))
      BY <1>1, <1>4, <1>8, VerdictErrors
  <2>2. Told(d) <=> RunsPhase("schema")
      BY <1>2, <1>5, <1>8 DEF Told
  <2> QED
      BY <1>1, <2>1, <2>2, ToldSame DEF MomentInv
<1> QED
    BY <1>6, <1>7, <1>8

LEMMA NoReferenceErrors ==
    ASSUME NEW obj, index = raw
    PROVE  ReferenceErrors(obj) = {} <=> LinksRight(raw, obj)
BY DEF ReferenceErrors, LinksRight, Assignable

LEMMA CheckReferencesKeepsMoment ==
    ASSUME TypeInv, NEW d, MomentInv(d), NEW obj \in left, CheckReferences(obj)
    PROVE  MomentInv(d)'
<1> DEFINE errs == ReferenceErrors(obj)
<1>1. /\ stage = "references" /\ stage' = "references" /\ left' = left \ {obj}
      /\ found' = IF errs = {} THEN found ELSE Append(found, errs)
      /\ UNCHANGED <<raw, index, options>>
    BY DEF CheckReferences, Check
<1>2. /\ FormatRight(d) /\ raw = AllObjects(d) /\ SchemaRight(d) /\ ReferencesInv
      /\ RunsPhase("references") /\ found \in Seq(SUBSET Reports) /\ obj \in raw
    BY <1>1 DEF MomentInv, TypeInv, ValidationTypeOK
<1>3. errs = {} <=> LinksRight(raw, obj)
    BY <1>2, NoReferenceErrors DEF ReferencesInv
<1> HIDE DEF errs
<1>4. found' = <<>> <=> found = <<>> /\ errs = {}
    BY <1>1, <1>2
<1>5. raw' \ left' = (raw \ left) \cup {obj}
    BY <1>1, <1>2
<1>6. ReferencesInv'
    BY <1>1, <1>2, <1>3, <1>4, <1>5 DEF ReferencesInv
<1> QED
    BY <1>1, <1>2, <1>6, ToldSame DEF MomentInv

LEMMA ReferenceVerdictKeepsMoment ==
    ASSUME TypeInv, NEW d, MomentInv(d), ReferenceVerdict
    PROVE  MomentInv(d)'
<1>1. /\ stage = "references" /\ left = {} /\ Verdict("references", found, "done")
      /\ UNCHANGED options
    BY DEF ReferenceVerdict, Verdict
<1>2. /\ FormatRight(d) /\ raw = AllObjects(d) /\ SchemaRight(d) /\ ReferencesInv
      /\ RunsPhase("references") /\ found \in Seq(SUBSET Reports) /\ errors = {}
    BY <1>1 DEF MomentInv, TypeInv
<1>3. found = <<>> <=> ReferencesRight(d)
    BY <1>1, <1>2, ReferencesRightOfObjects DEF ReferencesInv
<1>4. stage' = "done" /\ (errors' # {} <=> found # <<>>)
    BY <1>1, <1>2, VerdictErrors
<1>5. Told(d) <=> found # <<>>
    BY <1>2, <1>3 DEF Told
<1> QED
    BY <1>1, <1>4, <1>5, ToldSame DEF MomentInv

---------------------------------------------------------------------------
(* One moment.                                                              *)

(* A write leaves the moment of the run as it is, if it is to a file that was  *)
(* read for a type; if not, the run is one of the files after the write.      *)
LEMMA EditKeepsMoment ==
    ASSUME TypeInv, edits = 0, disk = atStart, FilesApart, MomentInv(disk), Edit
    PROVE  \E d \in {atStart', disk'} : MomentInv(d)'
<1>1. PICK p \in Paths, content \in Edits : disk' = [disk EXCEPT ![p] = content]
    BY DEF Edit
<1>2. /\ stage = "collect" /\ stage' = "collect" /\ atStart' = atStart
      /\ UNCHANGED <<todo, found, raw>>
    BY DEF Edit, runVars
<1>3. CollectInv(disk) /\ todo \subseteq Types
    BY <1>2 DEF MomentInv, TypeInv, ValidationTypeOK
<1>4. PICK after : after = disk'
    OBVIOUS
<1>5. \A q : q # p => after[q] = disk[q]
    BY <1>1, <1>4 DEF TypeInv, Disks
<1>6. CASE \A t \in todo : \A n \in DOMAIN Includes[t] : p \notin Includes[t][n].files
  <2>1. \A t \in todo : Agree(disk, after, t)
      BY <1>5, <1>6 DEF Agree
  <2> QED
      BY <1>2, <1>3, <1>4, <2>1 DEF CollectInv, MomentInv
<1>7. CASE \E t \in todo : \E n \in DOMAIN Includes[t] : p \in Includes[t][n].files
  <2>1. \A t \in Types \ todo : \A n \in DOMAIN Includes[t] : p \notin Includes[t][n].files
      BY <1>3, <1>7 DEF FilesApart
  <2>2. \A t \in Types \ todo : Agree(disk, after, t)
      BY <1>5, <2>1 DEF Agree
  <2>3. \A t \in Types \ todo :
            /\ FormatRightFor(disk, t) <=> FormatRightFor(after, t)
            /\ ObjectsAt(disk, t) = ObjectsAt(after, t)
      BY <2>2, PositionsAgree
  <2> QED
      BY <1>2, <1>3, <1>4, <2>3 DEF CollectInv, MomentInv, Agree
<1> QED
    BY <1>6, <1>7

LEMMA MomentStep ==
    ASSUME RunsInRoot, TypeInv, NEW d, MomentInv(d), [ValidationNext]_vars, ~Edit
    PROVE  MomentInv(d)'
<1>1. ASSUME NEW t \in Types, Collect(t) PROVE MomentInv(d)'
    BY <1>1, CollectKeepsMoment
<1>2. CASE FormatVerdict
    BY <1>2, FormatVerdictKeepsMoment
<1>3. ASSUME NEW obj \in left, CheckObject(obj) PROVE MomentInv(d)'
  <2>1. stage = "schema" /\ stage' = "schema" /\ UNCHANGED <<raw, errors, options>>
      BY <1>3 DEF CheckObject, Check
  <2>2. SchemaInv'
      BY <1>3, <2>1, CheckObjectKeepsSchema DEF MomentInv
  <2> QED
      BY <2>1, <2>2 DEF MomentInv
<1>4. CASE SchemaVerdict
    BY <1>4, SchemaVerdictKeepsMoment
<1>5. ASSUME NEW obj \in left, CheckReferences(obj) PROVE MomentInv(d)'
    BY <1>5, CheckReferencesKeepsMoment
<1>6. CASE ReferenceVerdict
    BY <1>6, ReferenceVerdictKeepsMoment
<1>7. CASE UNCHANGED vars
  <2>1. UNCHANGED <<disk, options, stage, todo, raw, left, index, seen, found, errors>>
      BY <1>7 DEF vars, runVars
  <2> QED
      BY <2>1, ToldSame DEF MomentInv, CollectInv, SchemaInv, ReferencesInv
<1> QED
    BY <1>1, <1>2, <1>3, <1>4, <1>5, <1>6, <1>7 DEF ValidationNext, Returned

LEMMA WritesStep ==
    ASSUME [ValidationNext]_vars, ~Edit
    PROVE  UNCHANGED <<disk, edits, atStart>>
BY DEF ValidationNext, vars, runVars, Collect, FormatVerdict, Verdict, CheckObject, Check,
       SchemaVerdict, CheckReferences, ReferenceVerdict, Returned

LEMMA ValidationInvInit == ValidationInit => ValidationInv
<1> SUFFICES ASSUME ValidationInit PROVE ValidationInv
    OBVIOUS
<1>1. stage = "collect" /\ disk = atStart /\ todo = Types /\ raw = {} /\ found = <<>>
    BY DEF ValidationInit
<1>2. CollectInv(disk)
    BY <1>1 DEF CollectInv, Agree
<1>3. MomentInv(disk)
    BY <1>1, <1>2 DEF MomentInv
<1> QED
    BY <1>1, <1>3, TypeInvInit DEF ValidationInv

LEMMA ValidationInvStep ==
    ASSUME RunsInRoot, ValidationInv, [ValidationNext]_vars
    PROVE  ValidationInv'
<1>1. TypeInv /\ TypeInv'
    BY TypeInvStep DEF ValidationInv
<1>2. CASE ~Edit
  <2>1. UNCHANGED <<disk, edits, atStart>>
      BY <1>2, WritesStep
  <2>2. AtMostOneWrite' => \E d \in {atStart', disk'} : MomentInv(d)'
    <3> SUFFICES ASSUME AtMostOneWrite' PROVE \E d \in {atStart', disk'} : MomentInv(d)'
        OBVIOUS
    <3>1. AtMostOneWrite
        BY <2>1 DEF AtMostOneWrite
    <3>2. PICK d \in {atStart, disk} : MomentInv(d)
        BY <3>1 DEF ValidationInv
    <3>3. MomentInv(d)'
        BY <1>1, <1>2, <3>2, MomentStep
    <3> QED
        BY <2>1, <3>2, <3>3
  <2> QED
      BY <1>1, <2>1, <2>2 DEF ValidationInv
<1>3. CASE Edit
  <2>1. edits' = edits + 1 /\ edits \in Nat /\ edits' # 0
      BY <1>1, <1>3 DEF Edit, TypeInv
  <2>2. ASSUME AtMostOneWrite' PROVE \E d \in {atStart', disk'} : MomentInv(d)'
    <3>1. edits = 0 /\ FilesApart
        BY <2>1, <2>2 DEF AtMostOneWrite
    <3>2. disk = atStart /\ MomentInv(disk)
        BY <3>1 DEF ValidationInv, AtMostOneWrite
    <3> QED
        BY <1>1, <1>3, <3>1, <3>2, EditKeepsMoment
  <2> QED
      BY <1>1, <2>1, <2>2 DEF ValidationInv
<1> QED
    BY <1>2, <1>3

(* In the root of the workspace, where the documentation does not ask for     *)
(* something else, validation reports an error exactly when a phase that was  *)
(* asked for finds a fault, whatever the files hold and in whatever order the *)
(* types are read: for the files as they are when nothing is written          *)
(* meanwhile, and for those before or after a write when no file belongs to   *)
(* two types.                                                               *)
THEOREM VerdictIsOfOneMoment ==
    ASSUME RunsInRoot
    PROVE  ValidationSpec => [](AtMostOneWrite => VerdictOfOneMoment)
<1>1. ValidationInv => (AtMostOneWrite => VerdictOfOneMoment)
  <2> SUFFICES ASSUME ValidationInv, AtMostOneWrite, stage = "done",
                      ~DocsDiffer(atStart), ~DocsDiffer(disk)
               PROVE  IF errors # {} THEN Faulty(atStart) \/ Faulty(disk)
                                     ELSE ~Faulty(atStart) \/ ~Faulty(disk)
      BY DEF VerdictOfOneMoment
  <2>1. PICK d \in {atStart, disk} : MomentInv(d)
      BY DEF ValidationInv
  <2>2. ~DocsDiffer(d)
      OBVIOUS
  <2>3. RunsPhase("references") => RunsPhase("schema")
      BY DEF RunsPhase
  <2>4. Told(d) <=> Faulty(d)
      BY <2>2, <2>3 DEF Told, Faulty, DocsDiffer
  <2> QED
      BY <2>1, <2>4 DEF MomentInv
<1>2. ValidationInv /\ [ValidationNext]_vars => ValidationInv'
    BY ValidationInvStep
<1> QED
    BY <1>1, <1>2, ValidationInvInit, PTL DEF ValidationSpec

---------------------------------------------------------------------------
(* What the store makes of files in which validation finds no fault.         *)

Right(d) == FormatRight(d) /\ SchemaRight(d) /\ ReferencesRight(d)

HasObject(d, t, k) == \E o \in ObjectsAt(d, t) : o.key = k

LEMMA RightPositions ==
    ASSUME NEW d \in Disks, Right(d), NEW t \in Types, NEW s \in StoreAt(d)!Positions(t)
    PROVE  /\ s[3] \in Nat \ {0} /\ s[1] \in Nat /\ s[2] \in Nat
           /\ StoreAt(d)!FileAt(s) \in DerivesAt[t]
           /\ StoreAt(d)!KeyAt(t, s) # NoId
           /\ ObjectAt(d, t, s) \in ObjectsAt(d, t)
<1>1. s[3] # 0 /\ StoreAt(d)!FileAt(s) \in DerivesAt[t]
    BY DEF Right, FormatRight
<1>2. s[1] \in Nat /\ s[2] \in Nat
    BY PositionFacts, IncludeFacts, RankFacts
<1>3. s[3] \in Nat
  <2>1. PathOrder[s[2]] \in Paths /\ d[PathOrder[s[2]]] # Absent
      BY PositionFacts, RankFacts
  <2>2. Len(d[PathOrder[s[2]]].items) \in Nat
      BY <2>1, FileFacts
  <2>3. s[3] \in 1 .. Len(d[PathOrder[s[2]]].items)
      BY <1>1, PositionFacts
  <2> QED
      BY <2>2, <2>3
<1>4. ObjectAt(d, t, s) \in ObjectsAt(d, t)
    BY DEF ObjectsAt, ObjectAt
<1>5. StoreAt(d)!KeyAt(t, s) # NoId
  <2>1. ObjectAt(d, t, s).key \in Matching[t]
      BY <1>4, TypesOfHierarchy DEF Right, SchemaRight
  <2> QED
      BY <2>1, MatchingFacts DEF ObjectAt
<1> QED
    BY <1>1, <1>2, <1>3, <1>4, <1>5

(* No identifier twice within a hierarchy.                                   *)
LEMMA RightKeys ==
    ASSUME NEW d \in Disks, Right(d), NEW t \in Types, NEW u \in HierarchyOf[t],
           NEW a \in ObjectsAt(d, t), NEW b \in ObjectsAt(d, u), a.key = b.key
    PROVE  t = u /\ a.at = b.at
BY DEF Right, SchemaRight

LEMMA InlineIsObject ==
    ASSUME NEW d, NEW t \in Types, NEW k \in DOMAIN Inline[t]
    PROVE  \E o \in ObjectsAt(d, t) :
               o = [type |-> t, at |-> InlinePlace(t), key |-> k, fields |-> Inline[t][k],
                    empty |-> FALSE]
BY DEF ObjectsAt, InlineObjects

LEMMA NoObjectNotFound ==
    ASSUME NEW d \in Disks, Right(d), NEW t \in Types, NEW k, ~HasObject(d, t, k)
    PROVE  StoreAt(d)!FindInType(t, k) = StoreAt(d)!NotFound
<1>1. {s \in StoreAt(d)!Positions(t) : StoreAt(d)!KeyAt(t, s) \in {k, NoId}} = {}
  <2> SUFFICES ASSUME NEW s \in StoreAt(d)!Positions(t), StoreAt(d)!KeyAt(t, s) \in {k, NoId}
               PROVE  FALSE
      OBVIOUS
  <2>1. ObjectAt(d, t, s) \in ObjectsAt(d, t) /\ ObjectAt(d, t, s).key = k
      BY RightPositions DEF ObjectAt
  <2> QED
      BY <2>1 DEF HasObject
<1>2. k \notin DOMAIN Inline[t]
    BY InlineIsObject DEF HasObject
<1> QED
    BY <1>1, <1>2 DEF StoreAt!FindInType

(* What loadExactAll lists, findObjectInType finds.                          *)
LEMMA FindsEntry ==
    ASSUME NEW d \in Disks, Right(d), NEW t \in Types, NEW e \in StoreAt(d)!ExactEntries(t)
    PROVE  /\ StoreAt(d)!FindInType(t, e.key) = e.loc
           /\ e.loc.type = t
           /\ e.loc.status \in {"found", "inline"}
           /\ e.loc.status = "found" => e.loc.path \in DerivesAt[t]
           /\ \E o \in ObjectsAt(d, t) : o.key = e.key /\ o.fields = e.loc.fields
<1> DEFINE P == StoreAt(d)!Positions(t)
           stops == {s \in P : StoreAt(d)!KeyAt(t, s) \in {e.key, NoId}}
           inFiles == {StoreAt(d)!KeyAt(t, s) : s \in P}
<1>1. CASE e \in {[key |-> StoreAt(d)!KeyAt(t, s), loc |-> StoreAt(d)!FoundAt(t, s)] : s \in P}
  <2>1. PICK s \in P : e = [key |-> StoreAt(d)!KeyAt(t, s), loc |-> StoreAt(d)!FoundAt(t, s)]
      BY <1>1
  <2>2. e.key = StoreAt(d)!KeyAt(t, s) /\ e.loc = StoreAt(d)!FoundAt(t, s)
      BY <2>1
  <2>3. stops = {s}
    <3>1. ASSUME NEW r \in stops PROVE r = s
      <4>1. StoreAt(d)!KeyAt(t, r) = StoreAt(d)!KeyAt(t, s)
          BY <2>2, <3>1, RightPositions
      <4>2. /\ ObjectAt(d, t, r) \in ObjectsAt(d, t) /\ ObjectAt(d, t, s) \in ObjectsAt(d, t)
            /\ ObjectAt(d, t, r).key = ObjectAt(d, t, s).key
          BY <3>1, <4>1, RightPositions DEF ObjectAt
      <4>3. ObjectAt(d, t, r).at = ObjectAt(d, t, s).at
          BY <4>2, RightKeys, TypesOfHierarchy
      <4> QED
          BY <4>3 DEF ObjectAt
    <3> QED
        BY <2>2, <3>1
  <2>4. StoreAt(d)!FirstOf(stops) = s
    <3>1. StoreAt(d)!Before(s, s)
        BY RightPositions DEF StoreAt!Before
    <3> QED
        BY <2>3, <3>1 DEF StoreAt!FirstOf
  <2>5. StoreAt(d)!KeyAt(t, s) # NoId /\ StoreAt(d)!FileAt(s) \in DerivesAt[t]
        /\ ObjectAt(d, t, s) \in ObjectsAt(d, t)
      BY RightPositions
  <2>6. StoreAt(d)!FindInType(t, e.key) = StoreAt(d)!FoundAt(t, s)
    <3>1. stops # {}
        BY <2>3
    <3> QED
        BY <2>4, <2>5, <3>1 DEF StoreAt!FindInType
  <2>7. /\ StoreAt(d)!FoundAt(t, s).type = t /\ StoreAt(d)!FoundAt(t, s).status = "found"
        /\ StoreAt(d)!FoundAt(t, s).path = StoreAt(d)!FileAt(s)
      BY DEF StoreAt!FoundAt
  <2>8. /\ ObjectAt(d, t, s).key = e.key
        /\ ObjectAt(d, t, s).fields = e.loc.fields
      BY <2>2 DEF ObjectAt
  <2> QED
      BY <2>2, <2>5, <2>6, <2>7, <2>8
<1>2. CASE e \in {[key |-> k, loc |-> StoreAt(d)!FoundInline(t, k)] :
                      k \in (DOMAIN Inline[t]) \ inFiles}
  <2>1. e.key \in DOMAIN Inline[t] /\ e.key \notin inFiles
        /\ e.loc = StoreAt(d)!FoundInline(t, e.key)
      BY <1>2
  <2>2. stops = {}
      BY <2>1, RightPositions
  <2>3. StoreAt(d)!FindInType(t, e.key) = StoreAt(d)!FoundInline(t, e.key)
      BY <2>1, <2>2 DEF StoreAt!FindInType
  <2>4. \E o \in ObjectsAt(d, t) : o.key = e.key /\ o.fields = Inline[t][e.key]
      BY <2>1, InlineIsObject
  <2> QED
      BY <2>1, <2>3, <2>4 DEF StoreAt!FoundInline
<1> QED
    BY <1>1, <1>2 DEF StoreAt!ExactEntries

(* Every object is listed, or another with its identifier.                   *)
LEMMA ObjectHasEntry ==
    ASSUME NEW d, NEW t \in Types, NEW k, HasObject(d, t, k)
    PROVE  \E e \in StoreAt(d)!ExactEntries(t) : e.key = k
<1>1. PICK o \in ObjectsAt(d, t) : o.key = k
    BY DEF HasObject
<1>2. CASE \E s \in StoreAt(d)!Positions(t) : StoreAt(d)!KeyAt(t, s) = k
  <2>1. PICK s \in StoreAt(d)!Positions(t) : StoreAt(d)!KeyAt(t, s) = k
      BY <1>2
  <2>2. [key |-> StoreAt(d)!KeyAt(t, s), loc |-> StoreAt(d)!FoundAt(t, s)]
            \in StoreAt(d)!ExactEntries(t)
      BY DEF StoreAt!ExactEntries
  <2> QED
      BY <2>1, <2>2
<1>3. CASE ~\E s \in StoreAt(d)!Positions(t) : StoreAt(d)!KeyAt(t, s) = k
  <2>1. o \in InlineObjects(t)
      BY <1>1, <1>3 DEF ObjectsAt
  <2>2. k \in DOMAIN Inline[t]
      BY <1>1, <2>1 DEF InlineObjects
  <2>3. k \notin {StoreAt(d)!KeyAt(t, s) : s \in StoreAt(d)!Positions(t)}
      BY <1>3
  <2>4. [key |-> k, loc |-> StoreAt(d)!FoundInline(t, k)] \in StoreAt(d)!ExactEntries(t)
      BY <2>2, <2>3 DEF StoreAt!ExactEntries
  <2> QED
      BY <2>4
<1> QED
    BY <1>2, <1>3

LEMMA OneHitIsFound ==
    ASSUME NEW d, NEW types, NEW k, NEW loc, loc # StoreAt(d)!Unreadable,
           {StoreAt(d)!FindInType(t, k) : t \in types} \ {StoreAt(d)!NotFound} = {loc}
    PROVE  StoreAt(d)!FindInTypes(types, k) = loc
<1>1. StoreAt(d)!Cardinality({loc}) = Cardinality({loc})
    BY DEF StoreAt!Cardinality, Cardinality
<1>2. Cardinality({loc}) = 1
    BY FS_Singleton
<1> QED
    BY <1>1, <1>2 DEF StoreAt!FindInTypes

LEMMA GetsEntry ==
    ASSUME NEW d \in Disks, Right(d), NEW t \in Types, NEW u \in AssignableTo[t],
           NEW e \in StoreAt(d)!ExactEntries(u)
    PROVE  StoreAt(d)!Get(t, e.key) = e.loc /\ e.loc # StoreAt(d)!NotFound
<1>1. u \in Types /\ AssignableTo[t] \subseteq HierarchyOf[u] /\ HierarchyOf[u] \subseteq Types
    BY TypesOfHierarchy
<1>2. /\ StoreAt(d)!FindInType(u, e.key) = e.loc /\ e.loc.type = u
      /\ e.loc.status \in {"found", "inline"}
      /\ e.loc.status = "found" => e.loc.path \in DerivesAt[u]
    BY <1>1, FindsEntry
<1>3. ASSUME NEW v \in AssignableTo[t], v # u
      PROVE  StoreAt(d)!FindInType(v, e.key) = StoreAt(d)!NotFound
  <2>1. ~HasObject(d, v, e.key)
    <3>1. PICK o \in ObjectsAt(d, u) : o.key = e.key
        BY <1>1, FindsEntry
    <3>2. v \in HierarchyOf[u] /\ v \in Types
        BY <1>1, <1>3
    <3> QED
        BY <1>1, <1>3, <3>1, <3>2, RightKeys DEF HasObject
  <2> QED
      BY <1>1, <1>3, <2>1, NoObjectNotFound
<1>4. e.loc # StoreAt(d)!NotFound /\ e.loc # StoreAt(d)!Unreadable
    BY <1>2 DEF StoreAt!NotFound, StoreAt!Unreadable
<1> DEFINE hits == {StoreAt(d)!FindInType(v, e.key) : v \in AssignableTo[t]}
                       \ {StoreAt(d)!NotFound}
<1>5. hits = {e.loc}
    BY <1>2, <1>3, <1>4
<1>6. StoreAt(d)!FindInTypes(AssignableTo[t], e.key) = e.loc
    BY <1>4, <1>5, OneHitIsFound
<1> QED
    BY <1>2, <1>4, <1>6 DEF StoreAt!Get

LEMMA GetsWhatThereIs ==
    ASSUME NEW d \in Disks, Right(d), NEW t \in Types, NEW k
    PROVE  StoreAt(d)!Get(t, k) # StoreAt(d)!NotFound
           <=> \E v \in AssignableTo[t] : HasObject(d, v, k)
<1>1. AssignableTo[t] \subseteq Types
    BY TypesOfHierarchy
<1>2. CASE \E v \in AssignableTo[t] : HasObject(d, v, k)
  <2>1. PICK v \in AssignableTo[t] : HasObject(d, v, k)
      BY <1>2
  <2>2. PICK e \in StoreAt(d)!ExactEntries(v) : e.key = k
      BY <1>1, <2>1, ObjectHasEntry
  <2> QED
      BY <1>2, <2>2, GetsEntry
<1>3. CASE ~\E v \in AssignableTo[t] : HasObject(d, v, k)
  <2>1. \A v \in AssignableTo[t] : StoreAt(d)!FindInType(v, k) = StoreAt(d)!NotFound
      BY <1>1, <1>3, NoObjectNotFound
  <2>2. StoreAt(d)!FindInTypes(AssignableTo[t], k) = StoreAt(d)!NotFound
      BY <2>1 DEF StoreAt!FindInTypes
  <2>3. StoreAt(d)!Get(t, k) = StoreAt(d)!NotFound
      BY <2>2 DEF StoreAt!Get, StoreAt!NotFound
  <2> QED
      BY <1>3, <2>3
<1> QED
    BY <1>2, <1>3

LEMMA RightMeansStoreWorks ==
    ASSUME NEW d \in Disks, Right(d)
    PROVE  StoreWorks(d)
<1> SUFFICES ASSUME NEW t \in Types
             PROVE  /\ StoreAt(d)!AllLoads(t)
                    /\ \A e \in StoreAt(d)!AllEntries(t) :
                           /\ StoreAt(d)!Get(t, e.key) = e.loc
                           /\ \A n \in DOMAIN FieldsOf[e.loc.type] :
                                  LET value == e.loc.fields[n]
                                      refs  == FieldsOf[e.loc.type][n].refs
                                  IN  refs # {} /\ value # Unset =>
                                          Cardinality({u \in refs :
                                              StoreAt(d)!Get(u, value) # StoreAt(d)!NotFound}) = 1
    BY DEF StoreWorks
<1>1. \A u \in AssignableTo[t] : u \in Types /\ AssignableTo[t] \subseteq HierarchyOf[u]
    BY TypesOfHierarchy
<1>2. StoreAt(d)!AllLoads(t)
  <2>1. \A u \in AssignableTo[t] : StoreAt(d)!ExactLoads(u)
      BY <1>1, RightPositions DEF StoreAt!ExactLoads
  <2>2. ASSUME NEW u1 \in AssignableTo[t], NEW u2 \in AssignableTo[t],
               NEW e1 \in StoreAt(d)!ExactEntries(u1), NEW e2 \in StoreAt(d)!ExactEntries(u2),
               e1.key = e2.key
        PROVE  e1.loc.type = e2.loc.type
    <3>1. PICK o1 \in ObjectsAt(d, u1) : o1.key = e1.key
        BY <1>1, FindsEntry
    <3>2. PICK o2 \in ObjectsAt(d, u2) : o2.key = e2.key
        BY <1>1, FindsEntry
    <3>3. u1 = u2
        BY <1>1, <2>2, <3>1, <3>2, RightKeys
    <3> QED
        BY <1>1, <3>3, FindsEntry
  <2> QED
      BY <2>1, <2>2 DEF StoreAt!AllLoads
<1>3. ASSUME NEW e \in StoreAt(d)!AllEntries(t)
      PROVE  /\ StoreAt(d)!Get(t, e.key) = e.loc
             /\ \A n \in DOMAIN FieldsOf[e.loc.type] :
                    LET value == e.loc.fields[n]
                        refs  == FieldsOf[e.loc.type][n].refs
                    IN  refs # {} /\ value # Unset =>
                            Cardinality({u \in refs :
                                StoreAt(d)!Get(u, value) # StoreAt(d)!NotFound}) = 1
  <2>1. PICK u \in AssignableTo[t] : e \in StoreAt(d)!ExactEntries(u)
      BY DEF StoreAt!AllEntries
  <2>2. StoreAt(d)!Get(t, e.key) = e.loc
      BY <2>1, GetsEntry
  <2>3. u \in Types /\ e.loc.type = u
      BY <1>1, <2>1, FindsEntry
  <2>4. PICK o \in ObjectsAt(d, u) : o.fields = e.loc.fields
      BY <2>1, <2>3, FindsEntry
  <2>5. ASSUME NEW n \in DOMAIN FieldsOf[u], FieldsOf[u][n].refs # {}, e.loc.fields[n] # Unset
        PROVE  Cardinality({v \in FieldsOf[u][n].refs :
                   StoreAt(d)!Get(v, e.loc.fields[n]) # StoreAt(d)!NotFound}) = 1
    <3>1. FieldsOf[u][n].refs \subseteq Types
        BY <2>3, <2>5, FieldNames DEF FieldDefinition
    <3>2. {v \in FieldsOf[u][n].refs :
               StoreAt(d)!Get(v, e.loc.fields[n]) # StoreAt(d)!NotFound}
          = {v \in FieldsOf[u][n].refs :
                 \E w \in AssignableTo[v] : \E b \in ObjectsAt(d, w) : b.key = o.fields[n]}
        BY <2>4, <3>1, GetsWhatThereIs DEF HasObject
    <3>3. Cardinality({v \in FieldsOf[u][n].refs :
              \E w \in AssignableTo[v] : \E b \in ObjectsAt(d, w) : b.key = o.fields[n]}) = 1
        BY <2>3, <2>4, <2>5 DEF Right, ReferencesRight
    <3> QED
        BY <3>2, <3>3
  <2> QED
      BY <2>2, <2>3, <2>5
<1> QED
    BY <1>2, <1>3

(* After a clean run of all phases the store, which reads the files with code *)
(* of its own, lists every type, gets every object it lists, and finds every  *)
(* reference in exactly one of its types.                                    *)
THEOREM CleanRunMeansStoreWorks ==
    ASSUME RunsInRoot
    PROVE  ValidationSpec => [](AtMostOneWrite => CleanMeansStoreWorks)
<1>1. ValidationInv => (AtMostOneWrite => CleanMeansStoreWorks)
  <2> SUFFICES ASSUME ValidationInv, AtMostOneWrite, stage = "done", errors = {},
                      {"format", "references"} \subseteq options.phases
               PROVE  StoreWorks(atStart) \/ StoreWorks(disk)
      BY DEF CleanMeansStoreWorks
  <2>1. PICK d \in {atStart, disk} : MomentInv(d)
      BY DEF ValidationInv
  <2>2. d \in Disks
      BY <2>1 DEF ValidationInv, TypeInv
  <2>3. Right(d)
      BY <2>1 DEF MomentInv, Told, RunsPhase, Right
  <2> QED
      BY <2>1, <2>2, <2>3, RightMeansStoreWorks
<1>2. ValidationInv /\ [ValidationNext]_vars => ValidationInv'
    BY ValidationInvStep
<1> QED
    BY <1>1, <1>2, ValidationInvInit, PTL DEF ValidationSpec
=============================================================================
