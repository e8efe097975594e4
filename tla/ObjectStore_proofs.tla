------------------------- MODULE ObjectStore_proofs -------------------------
(* Proofs about ObjectStore, for any types, layout and files: what a look-up *)
(* finds, that writes keep the files' shapes, that list agrees with get, that *)
(* changes keep other objects, that nothing makes a duplicate, and that the  *)
(* commands implement the operations of the map.                            *)
EXTENDS ObjectStore, WellFoundedInduction, TLAPS, FiniteSetTheorems, SequenceTheorems

(* A nonempty set of numbers has a least element: induction in a form the     *)
(* provers can use.                                                         *)
LEMMA HasLeast ==
    ASSUME NEW S \in SUBSET Nat, S # {}
    PROVE  \E n \in S : \A m \in S : n <= m
<1> DEFINE R == {pair \in Nat \X Nat : pair[1] < pair[2]}
<1>1. IsWellFoundedOn(R, Nat)
    BY NatLessThanWellFounded DEF OpToRel
<1>2. \A m, n \in Nat : <<m, n>> \in R <=> m < n
    OBVIOUS
<1> HIDE DEF R
<1>3. PICK n \in S : \A m \in S : <<m, n>> \notin R
    BY <1>1, WFMin
<1>4. \A m \in S : ~(m < n)
    BY <1>2, <1>3
<1> QED
    BY <1>4

(***************************************************************************)
(* Positions.                                                              *)
(***************************************************************************)
Triples == Nat \X Nat \X Nat

(* Of any positions there is a first.                                        *)
LEMMA FirstOfIsFirst ==
    ASSUME NEW positions \in SUBSET Triples, positions # {}
    PROVE  /\ FirstOf(positions) \in positions
           /\ \A u \in positions : Before(FirstOf(positions), u)
<1> USE DEF Triples
<1>1. PICK a \in {s[1] : s \in positions} : \A b \in {s[1] : s \in positions} : a <= b
  <2>1. {s[1] : s \in positions} # {} /\ {s[1] : s \in positions} \in SUBSET Nat
      OBVIOUS
  <2> QED
      BY <2>1, HasLeast
<1> DEFINE P == {s \in positions : s[1] = a}
<1>2. PICK b \in {s[2] : s \in P} : \A c \in {s[2] : s \in P} : b <= c
  <2>1. {s[2] : s \in P} # {} /\ {s[2] : s \in P} \in SUBSET Nat
      BY <1>1
  <2> QED
      BY <2>1, HasLeast
<1> DEFINE Q == {s \in P : s[2] = b}
<1>3. PICK c \in {s[3] : s \in Q} : \A d \in {s[3] : s \in Q} : c <= d
  <2>1. {s[3] : s \in Q} # {} /\ {s[3] : s \in Q} \in SUBSET Nat
      BY <1>2
  <2> QED
      BY <2>1, HasLeast
<1>4. PICK s \in Q : s[3] = c
    BY <1>3
<1>5. ASSUME NEW u \in positions
      PROVE  Before(s, u)
  <2>1. s[1] = a /\ s[2] = b /\ s[3] = c /\ a \in Nat /\ b \in Nat /\ c \in Nat
      BY <1>4
  <2>2. u[1] \in Nat /\ u[2] \in Nat /\ u[3] \in Nat /\ a <= u[1]
      BY <1>1
  <2>3. u[1] = a => b <= u[2]
      BY <1>2
  <2>4. u[1] = a /\ u[2] = b => c <= u[3]
      BY <1>3
  <2> QED
      BY <2>1, <2>2, <2>3, <2>4 DEF Before
<1>6. \E x \in positions : \A u \in positions : Before(x, u)
    BY <1>4, <1>5
<1> QED
    BY <1>6 DEF FirstOf

(* Two positions of which each comes before the other are one.               *)
LEMMA BeforeIsStrict ==
    ASSUME NEW s \in Triples, NEW u \in Triples, Before(s, u), Before(u, s)
    PROVE  s = u
BY DEF Triples, Before

(* What is at a position of t: an include, one of its files, which is there, *)
(* and, unless the file stops the search, one of the objects in it.          *)
LEMMA PositionIsInAFile ==
    ASSUME StoreTypeOK, NEW t \in Types, NEW s \in Positions(t)
    PROVE  /\ s \in Triples
           /\ s[1] \in DOMAIN Includes[t] /\ Includes[t][s[1]] \in Include
           /\ FileAt(s) \in Paths /\ FileAt(s) \in Includes[t][s[1]].files
           /\ disk[FileAt(s)] \in Files
           /\ s[3] # 0 => /\ s[3] \in 1 .. Len(disk[FileAt(s)].items)
                          /\ Loads(t, Includes[t][s[1]], disk[FileAt(s)])
                          /\ ~(t \in PathTypes /\ Several(Includes[t][s[1]], disk[FileAt(s)]))
<1>1. PICK n \in DOMAIN Includes[t], rank \in DOMAIN PathOrder : s \in ItemsAt(t, n, rank)
    BY DEF Positions
<1>2. /\ n \in Nat /\ rank \in Nat /\ PathOrder[rank] \in Paths
      /\ Includes[t][n] \in Include
    BY LayoutAssumption
<1> DEFINE inc == Includes[t][n]
           f   == disk[PathOrder[rank]]
           readable == Loads(t, inc, f) /\ ~(t \in PathTypes /\ Several(inc, f))
<1>3. PathOrder[rank] \in inc.files /\ f # Absent
    BY <1>1 DEF ItemsAt
<1>4. PICK i \in IF readable THEN 1 .. Len(f.items) ELSE {0} : s = <<n, rank, i>>
    BY <1>1, <1>3 DEF ItemsAt, Readable
<1>5. f \in Files /\ Len(f.items) \in Nat
    BY <1>2, <1>3 DEF StoreTypeOK, Disks, Files, Contents
<1>6. s[1] = n /\ s[2] = rank /\ s[3] = i /\ FileAt(s) = PathOrder[rank]
    BY <1>4 DEF FileAt
<1>7. i \in Nat /\ (i # 0 => readable /\ i \in 1 .. Len(f.items))
    BY <1>5
<1> HIDE DEF readable
<1>8. s \in Triples
    BY <1>2, <1>4, <1>7 DEF Triples
<1> QED
    BY <1>1, <1>2, <1>3, <1>5, <1>6, <1>7, <1>8 DEF readable

(* And every object of a file that can be read has a position.               *)
LEMMA ObjectHasPosition ==
    ASSUME NEW t \in Types, NEW n \in DOMAIN Includes[t], NEW rank \in DOMAIN PathOrder,
           PathOrder[rank] \in Includes[t][n].files, disk[PathOrder[rank]] # Absent
    PROVE  \/ \A i \in 1 .. Len(disk[PathOrder[rank]].items) : <<n, rank, i>> \in Positions(t)
           \/ <<n, rank, 0>> \in Positions(t)
<1> DEFINE f == disk[PathOrder[rank]]
           readable == Loads(t, Includes[t][n], f) /\ ~(t \in PathTypes /\ Several(Includes[t][n], f))
           places == IF readable THEN 1 .. Len(f.items) ELSE {0}
<1>1. ItemsAt(t, n, rank) = {<<n, rank, i>> : i \in places}
    BY DEF ItemsAt, Readable
<1>2. ItemsAt(t, n, rank) \subseteq Positions(t)
    BY DEF Positions
<1>3. \A i \in places : <<n, rank, i>> \in Positions(t)
    BY <1>1, <1>2
<1> QED
    BY <1>3

(* A look-up in one type answers with the first object that has the          *)
(* identifier, and with nothing only if there is none.                       *)
LEMMA FindInTypeIsFirst ==
    ASSUME StoreTypeOK, NEW t \in Types, NEW k
    PROVE  LET stops == {s \in Positions(t) : KeyAt(t, s) \in {k, NoId}}
           IN  \/ /\ stops # {} /\ FirstOf(stops) \in stops
                  /\ \A u \in stops : Before(FirstOf(stops), u)
                  /\ FindInType(t, k) = IF KeyAt(t, FirstOf(stops)) = NoId THEN Unreadable
                                        ELSE FoundAt(t, FirstOf(stops))
               \/ /\ stops = {}
                  /\ FindInType(t, k) = IF k \in DOMAIN Inline[t] THEN FoundInline(t, k)
                                        ELSE NotFound
<1> DEFINE stops == {s \in Positions(t) : KeyAt(t, s) \in {k, NoId}}
<1>1. stops \in SUBSET Triples
    BY PositionIsInAFile
<1>2. CASE stops # {}
    BY <1>1, <1>2, FirstOfIsFirst DEF FindInType
<1>3. CASE stops = {}
    BY <1>3 DEF FindInType
<1> QED
    BY <1>2, <1>3

LEMMA FoundHasPosition ==
    ASSUME StoreTypeOK, NEW t \in Types, NEW k, FindInType(t, k).status = "found"
    PROVE  \E s \in Positions(t) :
               /\ FindInType(t, k) = FoundAt(t, s)
               /\ KeyAt(t, s) = k /\ k # NoId
               /\ \A u \in Positions(t) : KeyAt(t, u) \in {k, NoId} => Before(s, u)
<1> DEFINE stops == {s \in Positions(t) : KeyAt(t, s) \in {k, NoId}}
<1>1. CASE /\ stops # {} /\ FirstOf(stops) \in stops
           /\ \A u \in stops : Before(FirstOf(stops), u)
           /\ FindInType(t, k) = IF KeyAt(t, FirstOf(stops)) = NoId THEN Unreadable
                                 ELSE FoundAt(t, FirstOf(stops))
    BY <1>1 DEF Unreadable
<1>2. CASE /\ stops = {}
           /\ FindInType(t, k) = IF k \in DOMAIN Inline[t] THEN FoundInline(t, k) ELSE NotFound
    BY <1>2 DEF FoundInline, NotFound
<1> QED
    BY <1>1, <1>2, FindInTypeIsFirst

(***************************************************************************)
(* Writes.                                                                 *)
(***************************************************************************)

(* An object that may be changed is in a file of the type, which can be      *)
(* read, and, if the type's identifiers are paths, in the root.              *)
LEMMA ChangeableIsInAFile ==
    ASSUME StoreTypeOK, NEW t \in Types, NEW k, NEW loc \in Changeable(t, k)
    PROVE  /\ loc = FindInType(t, k)
           /\ loc.path \in Paths /\ disk[loc.path] \in Files
           /\ disk[loc.path].shape # "broken"
           /\ loc.index \in 1 .. Len(disk[loc.path].items)
           /\ k = IF t \in PathTypes THEN loc.path ELSE disk[loc.path].items[loc.index].id
           /\ \E n \in DOMAIN Includes[t] : loc.path \in Includes[t][n].files
           /\ t \in PathTypes => loc.path \in InRoot
<1> DEFINE hits == {FindInType(u, k) : u \in {t}} \ {NotFound}
<1>1. loc = FindInTypes({t}, k) /\ loc.status = "found" /\ ~loc.readOnly
      /\ (t \in PathTypes => loc.path \in InRoot)
    BY DEF Changeable, Writable
<1>2. loc \in hits
    BY <1>1 DEF FindInTypes, NotFound, Unreadable
<1>3. loc = FindInType(t, k)
    BY <1>2
<1>4. PICK s \in Positions(t) : loc = FoundAt(t, s) /\ KeyAt(t, s) = k /\ k # NoId
    BY <1>1, <1>3, FoundHasPosition
<1>5. s[3] # 0
    BY <1>4 DEF KeyAt
<1>6. loc.path = FileAt(s) /\ loc.index = s[3] /\ Includes[t][s[1]].kind # "selector"
  <2>1. /\ FoundAt(t, s).path = FileAt(s) /\ FoundAt(t, s).index = s[3]
        /\ FoundAt(t, s).readOnly = (Includes[t][s[1]].kind = "selector")
      BY DEF FoundAt
  <2>2. ~FoundAt(t, s).readOnly
      BY <1>1, <1>4
  <2> QED
      BY <1>4, <2>1, <2>2
<1>7. k = IF t \in PathTypes THEN FileAt(s) ELSE disk[FileAt(s)].items[s[3]].id
    BY <1>4, <1>5 DEF KeyAt, KeyOf
<1>8. disk[FileAt(s)].shape # "broken"
    BY <1>5, <1>6, PositionIsInAFile DEF Loads, LoadsAs
<1> QED
    BY <1>1, <1>3, <1>5, <1>6, <1>7, <1>8, PositionIsInAFile

LEMMA LeastIsLeast ==
    ASSUME NEW S \in SUBSET Nat, S # {}
    PROVE  Least(S) \in S /\ \A m \in S : Least(S) <= m
<1>1. \E n \in S : \A m \in S : n <= m
    BY HasLeast
<1> QED
    BY <1>1 DEF Least

(* What create may write is a file, in the root if the type's identifiers    *)
(* are paths.                                                               *)
LEMMA CreateTargetIsAFile ==
    ASSUME NEW t \in Types, NEW k \in Keys[t], NEW target \in CreateTargets(t, k)
    PROVE  /\ target.path \in Paths
           /\ t \in PathTypes => target.path \in InRoot /\ target.path = k
<1>1. CASE t \in PathTypes
    BY <1>1, LayoutAssumption DEF CreateTargets, PathTargets
<1>2. CASE t \notin PathTypes /\ Globs(t) # {}
  <2>1. Globs(t) \in SUBSET Nat /\ Globs(t) \subseteq DOMAIN Includes[t]
      BY LayoutAssumption DEF Globs, WritableIncludes
  <2>2. Includes[t][Least(Globs(t))] \in Include
      BY <1>2, <2>1, LeastIsLeast, LayoutAssumption
  <2>3. target = [path |-> Includes[t][Least(Globs(t))].named[k], multi |-> FALSE]
      BY <1>2 DEF CreateTargets, Globs
  <2>4. k \in Ids
      BY <1>2 DEF Keys
  <2> QED
      BY <1>2, <2>2, <2>3, <2>4 DEF Include
<1>3. CASE t \notin PathTypes /\ Globs(t) = {}
  <2>1. WritableIncludes(t) # {}
      BY <1>3 DEF CreateTargets
  <2>2. WritableIncludes(t) \in SUBSET Nat /\ WritableIncludes(t) \subseteq DOMAIN Includes[t]
      BY LayoutAssumption DEF WritableIncludes
  <2>3. Includes[t][Least(WritableIncludes(t))] \in Include
      BY <2>1, <2>2, LeastIsLeast, LayoutAssumption
  <2>4. PICK p \in Includes[t][Least(WritableIncludes(t))].files :
            target = [path |-> p, multi |-> TRUE]
      BY <1>3, <2>1 DEF CreateTargets
  <2> QED
      BY <1>3, <2>3, <2>4 DEF Include
<1> QED
    BY <1>1, <1>2, <1>3

(* What a command that is given these fields writes: a file of a type, or    *)
(* one object, with the fields, or with those merged into others.            *)
Written(fields, f) ==
    /\ f \in Files /\ f.shape # "broken"
    /\ \/ f.type \in Types
       \/ \E item \in Item :
              /\ f = Single(item)
              /\ \/ item.fields = fields
                 \/ \E old \in FieldMaps : item.fields = MergeMaps(old, fields)

LEMMA SingleIsAFile == ASSUME NEW item \in Item PROVE Single(item) \in Files
BY DEF Single, Files, Contents

LEMMA CreateWritesAFile ==
    ASSUME StoreTypeOK, NEW t \in Types, NEW k \in Keys[t], NEW fields \in FieldMaps,
           NEW target \in CreateTargets(t, k),
           disk[target.path] = Absent \/ LoadsAs(t, disk[target.path])
    PROVE  Written(fields, WithCreated(t, Stored(t, k, fields), target))
<1> DEFINE f    == disk[target.path]
           item == Stored(t, k, fields)
<1>1. f \in Files \cup {Absent}
    BY CreateTargetIsAFile DEF StoreTypeOK, Disks
<1>2. item \in Item /\ item.fields = fields
    BY DEF Stored, Item, Keys
<1>3. CASE ~target.multi
    BY <1>2, <1>3, SingleIsAFile DEF WithCreated, Written, Single
<1>4. CASE target.multi /\ f = Absent
  <2>1. WithCreated(t, item, target) = [shape |-> "multi", type |-> t, items |-> <<item>>]
      BY <1>4 DEF WithCreated
  <2> QED
      BY <1>2, <2>1 DEF Written, Files, Contents
<1>5. CASE target.multi /\ f # Absent /\ f.shape = "single"
  <2>1. WithCreated(t, item, target) = [f EXCEPT !.type = t]
      BY <1>5 DEF WithCreated
  <2> QED
      BY <1>1, <1>5, <2>1 DEF Written, Files, Contents
<1>6. CASE target.multi /\ f # Absent /\ f.shape # "single"
  <2>1. WithCreated(t, item, target) = [f EXCEPT !.type = t, !.items = Append(@, item)]
      BY <1>6 DEF WithCreated
  <2>2. f.shape = "multi"
      BY <1>1, <1>6 DEF LoadsAs, Files, Contents
  <2>3. Append(f.items, item) \in Seq(Item)
      BY <1>1, <1>2, <1>6 DEF Files, Contents
  <2> QED
      BY <1>1, <1>6, <2>1, <2>2, <2>3 DEF Written, Files, Contents
<1> QED
    BY <1>3, <1>4, <1>5, <1>6

LEMMA UpdateWritesAFile ==
    ASSUME StoreTypeOK, NEW t \in Types, NEW k, NEW fields \in FieldMaps, NEW merge \in BOOLEAN,
           NEW w \in UpdateWrites(t, k, fields, merge)
    PROVE  /\ w.path \in Paths /\ Written(fields, w.content)
           /\ t \in PathTypes => w.path \in InRoot
<1>1. PICK loc \in Changeable(t, k) :
          w = [path    |-> loc.path,
               content |-> WithUpdated(t, disk[loc.path], loc.index,
                                       Updated(disk[loc.path], loc.index, fields, merge))]
    BY DEF UpdateWrites
<1> DEFINE f    == disk[loc.path]
           old  == f.items[loc.index]
           item == Updated(f, loc.index, fields, merge)
<1>2. /\ loc.path \in Paths /\ f \in Files /\ f.shape # "broken"
      /\ loc.index \in 1 .. Len(f.items)
      /\ t \in PathTypes => loc.path \in InRoot
    BY ChangeableIsInAFile
<1>3. old \in Item
    BY <1>2 DEF Files, Contents
<1>4. /\ old.id \in Ids \cup {NoId} /\ old.fields \in FieldMaps
      /\ MergeMaps(old.fields, fields) \in FieldMaps
    BY <1>3 DEF Item, MergeMaps, FieldMaps
<1>5. /\ item \in Item
      /\ item.fields = IF merge THEN MergeMaps(old.fields, fields) ELSE fields
    BY <1>3, <1>4 DEF Item, Updated
<1> HIDE DEF item
<1>6. CASE f.shape = "single"
  <2>1. w.path = loc.path /\ w.content = Single(item)
      BY <1>1, <1>6 DEF item, WithUpdated
  <2>2. item.fields = fields \/ \E x \in FieldMaps : item.fields = MergeMaps(x, fields)
      BY <1>4, <1>5
  <2>3. Single(item) \in Files /\ Single(item).shape # "broken"
      BY <1>5, SingleIsAFile DEF Single
  <2> QED
      BY <1>2, <1>5, <2>1, <2>2, <2>3 DEF Written
<1>7. CASE f.shape # "single"
  <2>1. w.content = [f EXCEPT !.type = t, !.items[loc.index] = item]
      BY <1>1, <1>7 DEF item, WithUpdated
  <2>2. [f.items EXCEPT ![loc.index] = item] \in Seq(Item)
      BY <1>2, <1>5 DEF Files, Contents
  <2> QED
      BY <1>1, <1>2, <1>7, <2>1, <2>2 DEF Written, Files, Contents
<1> QED
    BY <1>6, <1>7

LEMMA DeleteWritesAFile ==
    ASSUME StoreTypeOK, NEW t \in Types, NEW k, NEW w \in DeleteWrites(t, k)
    PROVE  /\ w.path \in Paths
           /\ \/ w.content = Absent
              \/ w.content \in Files /\ w.content.shape # "broken" /\ w.content.type \in Types
           /\ t \in PathTypes => w.path \in InRoot
<1>1. PICK loc \in Changeable(t, k) :
          w = [path    |-> loc.path,
               content |-> IF Len(disk[loc.path].items) = 1 THEN Absent
                           ELSE WithDeleted(t, disk[loc.path], loc.index)]
    BY DEF DeleteWrites
<1> DEFINE f == disk[loc.path]
           rest == SubSeq(f.items, 1, loc.index - 1) \o SubSeq(f.items, loc.index + 1, Len(f.items))
<1>2. /\ loc.path \in Paths /\ f \in Files /\ f.shape # "broken"
      /\ loc.index \in 1 .. Len(f.items)
      /\ t \in PathTypes => loc.path \in InRoot
    BY ChangeableIsInAFile
<1>3. CASE Len(f.items) = 1
    BY <1>1, <1>2, <1>3
<1>4. CASE Len(f.items) # 1
  <2>1. w.content = [f EXCEPT !.type = t, !.items = rest]
      BY <1>1, <1>4 DEF WithDeleted
  <2>2. rest \in Seq(Item)
    <3>1. f.items \in Seq(Item) /\ Len(f.items) \in Nat
        BY <1>2 DEF Files, Contents
    <3>2. SubSeq(f.items, 1, loc.index - 1) \in Seq(Item)
        BY <1>2, <3>1
    <3>3. SubSeq(f.items, loc.index + 1, Len(f.items)) \in Seq(Item)
        BY <1>2, <3>1
    <3> QED
        BY <3>2, <3>3
  <2> QED
      BY <1>1, <1>2, <1>4, <2>1, <2>2 DEF Files, Contents
<1> QED
    BY <1>3, <1>4

LEMMA StoreStep == StoreTypeOK /\ [Next]_storeVars => StoreTypeOK'
<1> SUFFICES ASSUME StoreTypeOK, Next \/ UNCHANGED storeVars PROVE StoreTypeOK'
    OBVIOUS
<1>1. ASSUME NEW w, w.path \in Paths, w.content = Absent \/ w.content \in Files, Write(w)
      PROVE  StoreTypeOK'
    BY <1>1 DEF Write, StoreTypeOK, Disks
<1>2. ASSUME NEW t \in Types, NEW k \in Keys[t], Create(t, k)
      PROVE  StoreTypeOK'
  <2>1. PICK fields \in FieldMaps : \E w \in CreateWrites(t, k, fields) : Write(w)
      BY <1>2 DEF Create
  <2>2. PICK w \in CreateWrites(t, k, fields) : Write(w)
      BY <2>1
  <2>3. PICK target \in CreateTargets(t, k) :
            /\ disk[target.path] = Absent \/ LoadsAs(t, disk[target.path])
            /\ w = [path    |-> target.path,
                    content |-> WithCreated(t, Stored(t, k, fields), target)]
      BY DEF CreateWrites
  <2>4. w.path \in Paths /\ w.content \in Files
      BY <2>3, CreateTargetIsAFile, CreateWritesAFile DEF Written
  <2> QED
      BY <1>1, <2>2, <2>4
<1>3. ASSUME NEW t \in Types, NEW k \in Keys[t], NEW merge \in BOOLEAN, Update(t, k, merge)
      PROVE  StoreTypeOK'
  <2>1. PICK fields \in FieldMaps : \E w \in UpdateWrites(t, k, fields, merge) : Write(w)
      BY <1>3 DEF Update
  <2>2. PICK w \in UpdateWrites(t, k, fields, merge) : Write(w)
      BY <2>1
  <2> QED
      BY <1>1, <2>2, UpdateWritesAFile DEF Written
<1>4. ASSUME NEW t \in Types, NEW k \in Keys[t], Delete(t, k)
      PROVE  StoreTypeOK'
  <2>1. PICK w \in DeleteWrites(t, k) : Write(w)
      BY <1>4 DEF Delete
  <2> QED
      BY <1>1, <2>1, DeleteWritesAFile
<1>5. ASSUME UNCHANGED disk
      PROVE  StoreTypeOK'
    BY <1>5 DEF StoreTypeOK
<1> QED
    BY <1>2, <1>3, <1>4, <1>5 DEF Next, RefuseCreate, RefuseChange, storeVars

(* Whatever the commands do, every file keeps the shape a command expects.   *)
THEOREM StoreTypeCorrect == Spec => []StoreTypeOK
<1>1. Init => StoreTypeOK
    BY DisksAssumption DEF Init, StoreTypeOK
<1> QED
    BY <1>1, StoreStep, PTL DEF Spec

(***************************************************************************)
(* List and get.                                                           *)
(***************************************************************************)

(* When a type can be listed, a look-up in it finds one of the objects the   *)
(* list has with that identifier, or there is none.                          *)
LEMMA FindAgreesWithEntries ==
    ASSUME StoreTypeOK, NEW u \in Types, ExactLoads(u), NEW k
    PROVE  LET loc     == FindInType(u, k)
               entries == {e \in ExactEntries(u) : e.key = k}
           IN  \/ loc = NotFound /\ entries = {}
               \/ /\ \E e \in entries : e.loc = loc
                  /\ loc.type = u /\ loc.status \in {"found", "inline"}
                  /\ loc.status = "found" => loc.path \in DerivesAt[u]
<1> DEFINE stops   == {s \in Positions(u) : KeyAt(u, s) \in {k, NoId}}
           loc     == FindInType(u, k)
           files   == {[key |-> KeyAt(u, s), loc |-> FoundAt(u, s)] : s \in Positions(u)}
           inFiles == {KeyAt(u, s) : s \in Positions(u)}
           inline  == {[key |-> j, loc |-> FoundInline(u, j)] :
                          j \in (DOMAIN Inline[u]) \ inFiles}
           s == FirstOf(stops)
<1>1. ExactEntries(u) = files \cup inline
    BY DEF ExactEntries
<1>2. \A p \in Positions(u) : KeyAt(u, p) # NoId /\ FileAt(p) \in DerivesAt[u]
    BY DEF ExactLoads
<1>3. CASE stops # {}
  <2>1. s \in stops /\ loc = IF KeyAt(u, s) = NoId THEN Unreadable ELSE FoundAt(u, s)
      BY <1>3, FindInTypeIsFirst
  <2> HIDE DEF s, loc
  <2>2. s \in Positions(u) /\ KeyAt(u, s) = k /\ loc = FoundAt(u, s)
      BY <1>2, <2>1
  <2>3. [key |-> k, loc |-> loc] \in ExactEntries(u)
      BY <1>1, <2>2
  <2>4. loc.type = u /\ loc.status = "found" /\ loc.path = FileAt(s)
      BY <2>2 DEF FoundAt
  <2>5. FileAt(s) \in DerivesAt[u]
      BY <1>2, <2>2
  <2>6. \E e \in {e \in ExactEntries(u) : e.key = k} : e.loc = loc
    <3> DEFINE e == [key |-> k, loc |-> loc]
    <3>1. e.key = k /\ e.loc = loc /\ e \in ExactEntries(u)
        BY <2>3
    <3> QED
        BY <3>1
  <2> QED
      BY <2>4, <2>5, <2>6 DEF loc
<1>4. CASE stops = {}
  <2>1. loc = IF k \in DOMAIN Inline[u] THEN FoundInline(u, k) ELSE NotFound
      BY <1>4, FindInTypeIsFirst
  <2> HIDE DEF loc
  <2>2. k \notin inFiles
      BY <1>4
  <2>3. CASE k \in DOMAIN Inline[u]
    <3> DEFINE e == [key |-> k, loc |-> loc]
    <3>1. loc = FoundInline(u, k) /\ loc.type = u /\ loc.status = "inline"
        BY <2>1, <2>3 DEF FoundInline
    <3>2. e.key = k /\ e.loc = loc /\ e \in ExactEntries(u)
        BY <1>1, <2>2, <2>3, <3>1
    <3>3. \E d \in {d \in ExactEntries(u) : d.key = k} : d.loc = loc
        BY <3>2
    <3> QED
        BY <3>1, <3>3 DEF loc
  <2>4. CASE k \notin DOMAIN Inline[u]
    <3>1. loc = NotFound
        BY <2>1, <2>4
    <3>2. \A e \in files : e.key # k
        BY <2>2
    <3>3. \A e \in inline : e.key # k
        BY <2>4
    <3> QED
        BY <1>1, <3>1, <3>2, <3>3 DEF loc
  <2> QED
      BY <2>3, <2>4
<1> QED
    BY <1>3, <1>4

LEMMA GetAgrees ==
    ASSUME StoreTypeOK, NEW t \in Types, AllLoads(t), NEW k
    PROVE  LET entries == {e.loc : e \in {e \in AllEntries(t) : e.key = k}}
           IN  IF entries = {} THEN Get(t, k) = NotFound ELSE Get(t, k) \in entries
<1> DEFINE types   == AssignableTo[t]
           entries == {e.loc : e \in {e \in AllEntries(t) : e.key = k}}
           hits    == {FindInType(u, k) : u \in types} \ {NotFound}
           OfType(u) == {e \in ExactEntries(u) : e.key = k}
<1>1. types \subseteq Types /\ \A u \in types : ExactLoads(u)
    BY TypesAssumption DEF AllLoads
<1>2. ASSUME NEW u \in types
      PROVE  \/ FindInType(u, k) = NotFound /\ OfType(u) = {}
             \/ /\ \E e \in OfType(u) : e.loc = FindInType(u, k)
                /\ FindInType(u, k).type = u /\ FindInType(u, k).status \in {"found", "inline"}
                /\ FindInType(u, k).status = "found" => FindInType(u, k).path \in DerivesAt[u]
    BY <1>1, FindAgreesWithEntries
<1>3. \A u \in types : \A e \in OfType(u) : e \in AllEntries(t) /\ e.key = k /\ e.loc \in entries
    BY DEF AllEntries
<1>4. \A x \in entries : \E u \in types : \E e \in OfType(u) : e.loc = x
    BY DEF AllEntries
<1>5. \A e1, e2 \in AllEntries(t) : e1.key = e2.key => e1.loc.type = e2.loc.type
    BY DEF AllLoads, AllEntries
<1>6. CASE entries = {}
  <2>1. hits = {}
    <3>1. \A u \in types : FindInType(u, k) = NotFound
        BY <1>2, <1>3, <1>6
    <3> QED
        BY <3>1
  <2>2. FindInTypes(types, k) = NotFound
      BY <2>1 DEF FindInTypes
  <2>3. Get(t, k) = NotFound
      BY <2>2 DEF Get, NotFound
  <2> QED
      BY <1>6, <2>3
<1>7. CASE entries # {}
  <2>1. PICK u \in types : OfType(u) # {}
      BY <1>4, <1>7
  <2> DEFINE loc == FindInType(u, k)
  <2>2. PICK e \in OfType(u) : e.loc = loc
      BY <1>2, <2>1
  <2>3. /\ loc.type = u /\ loc.status \in {"found", "inline"}
        /\ loc.status = "found" => loc.path \in DerivesAt[u]
      BY <1>2, <2>1
  <2>4. loc \in entries /\ loc # NotFound /\ loc # Unreadable
      BY <1>3, <2>2, <2>3 DEF NotFound, Unreadable
  <2>5. ASSUME NEW v \in types, FindInType(v, k) # NotFound
        PROVE  v = u
    <3>1. PICK d \in OfType(v) : d.loc = FindInType(v, k) /\ FindInType(v, k).type = v
        BY <1>2, <2>5
    <3>2. d.loc.type = e.loc.type
        BY <1>3, <1>5, <2>2
    <3> QED
        BY <2>2, <2>3, <3>1, <3>2
  <2>6. hits = {loc}
      BY <2>4, <2>5
  <2>7. Cardinality(hits) = 1
      BY <2>6, FS_Singleton
  <2> HIDE DEF loc
  <2>8. FindInTypes(types, k) = loc
      BY <2>4, <2>6, <2>7 DEF FindInTypes
  <2>9. Get(t, k) = loc
      BY <2>3, <2>8 DEF Get
  <2> QED
      BY <1>7, <2>4, <2>9
<1> QED
    BY <1>6, <1>7

(* Whatever is in the files, and however often they have been changed: when  *)
(* list shows a type, get finds what it shows, and nothing else.             *)
THEOREM ListAgrees == Spec => []ListAgreesWithGet
<1>1. StoreTypeOK => ListAgreesWithGet
    BY GetAgrees DEF ListAgreesWithGet
<1> QED
    BY <1>1, StoreTypeCorrect, PTL

(***************************************************************************)
(* A file is rewritten, or removed.  An object that a look-up finds is     *)
(* found again if the file can be read as before, and the first of its     *)
(* items with the identifier is still that object.                         *)
(***************************************************************************)
LEMMA FirstStop ==
    ASSUME NEW positions \in SUBSET Triples, NEW s \in positions,
           \A u \in positions : Before(s, u)
    PROVE  FirstOf(positions) = s
<1>1. FirstOf(positions) \in positions /\ \A u \in positions : Before(FirstOf(positions), u)
    BY FirstOfIsFirst
<1> QED
    BY <1>1, BeforeIsStrict

Slots(t, inc, f) == IF Readable(t, inc, f) THEN 1 .. Len(f.items) ELSE {0}

LEMMA PositionsAre ==
    ASSUME NEW t, NEW s
    PROVE  s \in Positions(t) <=>
               \E n \in DOMAIN Includes[t], rank \in DOMAIN PathOrder :
                   /\ PathOrder[rank] \in Includes[t][n].files /\ disk[PathOrder[rank]] # Absent
                   /\ \E i \in Slots(t, Includes[t][n], disk[PathOrder[rank]]) : s = <<n, rank, i>>
<1>1. \A n, rank : ItemsAt(t, n, rank) =
          IF PathOrder[rank] \notin Includes[t][n].files \/ disk[PathOrder[rank]] = Absent THEN {}
          ELSE {<<n, rank, i>> : i \in Slots(t, Includes[t][n], disk[PathOrder[rank]])}
    BY DEF ItemsAt, Slots, Readable
<1>2. \A n, rank : s \in ItemsAt(t, n, rank) <=>
          /\ PathOrder[rank] \in Includes[t][n].files /\ disk[PathOrder[rank]] # Absent
          /\ \E i \in Slots(t, Includes[t][n], disk[PathOrder[rank]]) : s = <<n, rank, i>>
    BY <1>1
<1> QED
    BY <1>2 DEF Positions

LEMMA PositionsAreThen ==
    ASSUME NEW t, NEW s
    PROVE  s \in Positions(t)' <=>
               \E n \in DOMAIN Includes[t], rank \in DOMAIN PathOrder :
                   /\ PathOrder[rank] \in Includes[t][n].files /\ disk'[PathOrder[rank]] # Absent
                   /\ \E i \in Slots(t, Includes[t][n], disk'[PathOrder[rank]]) : s = <<n, rank, i>>
<1>1. \A n, rank : ItemsAt(t, n, rank)' =
          IF PathOrder[rank] \notin Includes[t][n].files \/ disk'[PathOrder[rank]] = Absent THEN {}
          ELSE {<<n, rank, i>> : i \in Slots(t, Includes[t][n], disk'[PathOrder[rank]])}
    BY DEF ItemsAt, Slots, Readable
<1>2. \A n, rank : s \in ItemsAt(t, n, rank)' <=>
          /\ PathOrder[rank] \in Includes[t][n].files /\ disk'[PathOrder[rank]] # Absent
          /\ \E i \in Slots(t, Includes[t][n], disk'[PathOrder[rank]]) : s = <<n, rank, i>>
    BY <1>1
<1> QED
    BY <1>2 DEF Positions

(* A look-up for k comes to a file: it stops at an item, or goes on.          *)
StopsAt(t, path, f, k) ==
    {i \in 1 .. Len(f.items) : KeyOf(t, path, f.items[i]) \in {k, NoId}}

Leads(t, path, f, i, k) ==
    /\ i \in StopsAt(t, path, f, k) /\ KeyOf(t, path, f.items[i]) = k
    /\ \A j \in StopsAt(t, path, f, k) : i <= j

Keeps(t, path, f, g, k) ==
    /\ \A i : Leads(t, path, f, i, k) =>
           \E j : Leads(t, path, g, j, k) /\ g.items[j].fields = f.items[i].fields
    /\ StopsAt(t, path, f, k) = {} => StopsAt(t, path, g, k) = {}

(* The same, but for what becomes of the fields.                             *)
KeepsAs(t, path, f, g, k, new) ==
    /\ \A i : Leads(t, path, f, i, k) =>
           \E j : Leads(t, path, g, j, k) /\ g.items[j].fields = new[f.items[i].fields]
    /\ StopsAt(t, path, f, k) = {} => StopsAt(t, path, g, k) = {}

LEMMA KeyAtIs ==
    /\ \A t, n, rank, i : KeyAt(t, <<n, rank, i>>) =
           IF i = 0 THEN NoId
           ELSE KeyOf(t, PathOrder[rank], disk[PathOrder[rank]].items[i])
    /\ \A t, n, rank, i : KeyAt(t, <<n, rank, i>>)' =
           IF i = 0 THEN NoId
           ELSE KeyOf(t, PathOrder[rank], disk'[PathOrder[rank]].items[i])
BY DEF KeyAt, FileAt, KeyOf

Stops(t, k) == {s \in Positions(t) : KeyAt(t, s) \in {k, NoId}}

LEMMA KeptByRewriteAs ==
    ASSUME StoreTypeOK, StoreTypeOK', NEW t \in Types, NEW k, NEW path \in Paths, NEW new,
           disk[path] # Absent, NEW g \in Files \cup {Absent}, disk' = [disk EXCEPT ![path] = g],
           \A n \in DOMAIN Includes[t] :
               path \in Includes[t][n].files /\ Readable(t, Includes[t][n], disk[path]) =>
                   IF g = Absent THEN StopsAt(t, path, disk[path], k) = {}
                   ELSE Readable(t, Includes[t][n], g) /\ KeepsAs(t, path, disk[path], g, k, new),
           FindInType(t, k).status = "found"
    PROVE  /\ FindInType(t, k)'.status = "found"
           /\ FindInType(t, k)'.path = FindInType(t, k).path
           /\ FindInType(t, k)'.fields =
                  IF FindInType(t, k).path = path THEN new[FindInType(t, k).fields]
                  ELSE FindInType(t, k).fields
<1> DEFINE f == disk[path]
<1>1. PICK s \in Positions(t) :
          /\ FindInType(t, k) = FoundAt(t, s)
          /\ KeyAt(t, s) = k /\ k # NoId
          /\ \A u \in Positions(t) : KeyAt(t, u) \in {k, NoId} => Before(s, u)
    BY FoundHasPosition
<1>2. PICK a \in DOMAIN Includes[t], b \in DOMAIN PathOrder :
          /\ PathOrder[b] \in Includes[t][a].files /\ disk[PathOrder[b]] # Absent
          /\ \E i \in Slots(t, Includes[t][a], disk[PathOrder[b]]) : s = <<a, b, i>>
    BY <1>1, PositionsAre
<1>3. PICK c \in Slots(t, Includes[t][a], disk[PathOrder[b]]) : s = <<a, b, c>>
    BY <1>2
<1>4. c # 0
    BY <1>1, <1>3, KeyAtIs
<1>5. a \in Nat /\ b \in Nat /\ PathOrder[b] \in Paths
    BY LayoutAssumption
<1>6. f \in Files /\ Len(f.items) \in Nat
    BY DEF StoreTypeOK, Disks, Files, Contents
<1>7. disk'[path] = g /\ \A other \in Paths : other # path => disk'[other] = disk[other]
    BY ValuesAssumption DEF StoreTypeOK, Disks, Files
<1>8. /\ Readable(t, Includes[t][a], disk[PathOrder[b]])
      /\ c \in 1 .. Len(disk[PathOrder[b]].items)
    BY <1>3, <1>4 DEF Slots
<1>9. ASSUME NEW i \in StopsAt(t, PathOrder[b], disk[PathOrder[b]], k)
      PROVE  c <= i
  <2>1. <<a, b, i>> \in Positions(t)
      BY <1>2, <1>8, PositionsAre DEF Slots, StopsAt
  <2>2. i # 0 /\ KeyAt(t, <<a, b, i>>) \in {k, NoId}
      BY KeyAtIs DEF StopsAt
  <2>3. Before(<<a, b, c>>, <<a, b, i>>)
      BY <1>1, <1>3, <2>1, <2>2
  <2> QED
      BY <1>5, <2>3 DEF Before
<1>10. Leads(t, PathOrder[b], disk[PathOrder[b]], c, k)
    BY <1>1, <1>3, <1>4, <1>8, <1>9, KeyAtIs DEF Leads, StopsAt
(* The place of the object afterwards.                                       *)
<1>11. PICK d : /\ Readable(t, Includes[t][a], disk'[PathOrder[b]])
                /\ Leads(t, PathOrder[b], disk'[PathOrder[b]], d, k)
                /\ disk'[PathOrder[b]].items[d].fields =
                       IF PathOrder[b] = path THEN new[disk[PathOrder[b]].items[c].fields]
                       ELSE disk[PathOrder[b]].items[c].fields
  <2>1. CASE PathOrder[b] # path
      BY <1>5, <1>7, <1>8, <1>10, <2>1
  <2>2. CASE PathOrder[b] = path
    <3>1. g # Absent
        BY <1>2, <1>8, <1>10, <2>2 DEF Leads
    <3> QED
        BY <1>2, <1>7, <1>8, <1>10, <2>2, <3>1 DEF KeepsAs
  <2> QED
      BY <2>1, <2>2
<1>12. d # 0 /\ d \in Nat /\ d \in 1 .. Len(disk'[PathOrder[b]].items)
    BY <1>11 DEF Leads, StopsAt
<1>13. disk'[PathOrder[b]] # Absent
  <2>1. CASE PathOrder[b] = path /\ g = Absent
      BY <1>2, <1>8, <1>10, <2>1 DEF Leads
  <2> QED
      BY <1>2, <1>5, <1>7, <2>1
<1>14. <<a, b, d>> \in Positions(t)'
    BY <1>2, <1>11, <1>12, <1>13, PositionsAreThen DEF Slots
<1>15. KeyAt(t, <<a, b, d>>)' = k
    BY <1>11, <1>12, KeyAtIs DEF Leads
<1>16. ASSUME NEW u \in Positions(t)', KeyAt(t, u)' \in {k, NoId}
       PROVE  Before(<<a, b, d>>, u) /\ u \in Triples
  <2>1. PICK n \in DOMAIN Includes[t], rank \in DOMAIN PathOrder :
            /\ PathOrder[rank] \in Includes[t][n].files /\ disk'[PathOrder[rank]] # Absent
            /\ \E i \in Slots(t, Includes[t][n], disk'[PathOrder[rank]]) : u = <<n, rank, i>>
      BY PositionsAreThen
  <2>2. PICK i \in Slots(t, Includes[t][n], disk'[PathOrder[rank]]) : u = <<n, rank, i>>
      BY <2>1
  <2>3. n \in Nat /\ rank \in Nat /\ PathOrder[rank] \in Paths
      BY LayoutAssumption
  <2>4. i \in Nat
    <3>1. disk'[PathOrder[rank]] \in Files
        BY <2>1, <2>3 DEF StoreTypeOK, Disks
    <3>2. Len(disk'[PathOrder[rank]].items) \in Nat
        BY <3>1 DEF Files, Contents
    <3> QED
        BY <3>2 DEF Slots
  <2>5. u \in Triples
      BY <2>2, <2>3, <2>4 DEF Triples
  <2>6. i = 0 \/ i \in StopsAt(t, PathOrder[rank], disk'[PathOrder[rank]], k)
      BY <1>16, <2>2, KeyAtIs DEF Slots, StopsAt
  <2>7. ASSUME NEW j, <<n, rank, j>> \in Positions(t), KeyAt(t, <<n, rank, j>>) \in {k, NoId},
               n # a \/ rank # b
        PROVE  Before(<<a, b, d>>, u)
    <3>1. Before(<<a, b, c>>, <<n, rank, j>>)
        BY <1>1, <1>3, <2>7
    <3> QED
        BY <1>5, <2>2, <2>3, <2>7, <3>1 DEF Before
  <2>8. CASE n = a /\ rank = b
    <3>1. i # 0
        BY <1>11, <2>2, <2>8 DEF Slots
    <3>2. d <= i
        BY <1>11, <2>6, <2>8, <3>1 DEF Leads
    <3> QED
        BY <2>2, <2>5, <2>8, <3>2 DEF Before
  <2>9. CASE (n # a \/ rank # b) /\ PathOrder[rank] # path
    <3>1. disk'[PathOrder[rank]] = disk[PathOrder[rank]]
        BY <1>7, <2>3, <2>9
    <3>2. u \in Positions(t)
        BY <2>1, <2>2, <3>1, PositionsAre
    <3>3. KeyAt(t, u) \in {k, NoId}
        BY <1>16, <2>2, <3>1, KeyAtIs
    <3> QED
        BY <2>2, <2>5, <2>7, <2>9, <3>2, <3>3
  <2>10. CASE (n # a \/ rank # b) /\ PathOrder[rank] = path
    <3>1. CASE ~Readable(t, Includes[t][n], f)
      <4>1. <<n, rank, 0>> \in Positions(t)
          BY <2>1, <2>10, <3>1, PositionsAre DEF Slots
      <4>2. KeyAt(t, <<n, rank, 0>>) = NoId
          BY KeyAtIs
      <4> QED
          BY <2>5, <2>7, <2>10, <4>1, <4>2
    <3>2. CASE Readable(t, Includes[t][n], f)
      <4>1. Readable(t, Includes[t][n], g) /\ KeepsAs(t, path, f, g, k, new)
          BY <1>7, <2>1, <2>10, <3>2
      <4>2. i # 0
          BY <1>7, <2>2, <2>10, <4>1 DEF Slots
      <4>3. PICK j : j \in StopsAt(t, path, f, k)
          BY <1>7, <2>6, <2>10, <4>1, <4>2 DEF KeepsAs
      <4>4. j # 0 /\ <<n, rank, j>> \in Positions(t)
          BY <2>1, <2>10, <3>2, <4>3, PositionsAre DEF StopsAt, Slots
      <4>5. KeyAt(t, <<n, rank, j>>) \in {k, NoId}
          BY <2>10, <4>3, <4>4, KeyAtIs DEF StopsAt
      <4> QED
          BY <2>5, <2>7, <2>10, <4>4, <4>5
    <3> QED
        BY <3>1, <3>2
  <2> QED
      BY <2>5, <2>8, <2>9, <2>10
<1>17. \A u : u \in Stops(t, k)' <=> u \in Positions(t)' /\ KeyAt(t, u)' \in {k, NoId}
    BY DEF Stops
<1>18. FindInType(t, k)' =
           IF Stops(t, k)' # {}
           THEN IF KeyAt(t, FirstOf(Stops(t, k)))' = NoId THEN Unreadable
                ELSE FoundAt(t, FirstOf(Stops(t, k)))'
           ELSE IF k \in DOMAIN Inline[t] THEN FoundInline(t, k) ELSE NotFound
    BY DEF FindInType, Stops, FoundInline, NotFound, Unreadable
<1>19. FirstOf(Stops(t, k))' = <<a, b, d>> /\ Stops(t, k)' # {}
  <2>1. /\ Stops(t, k)' \in SUBSET Triples /\ <<a, b, d>> \in Stops(t, k)'
        /\ \A u \in Stops(t, k)' : Before(<<a, b, d>>, u)
      BY <1>14, <1>15, <1>16, <1>17
  <2>2. FirstOf(Stops(t, k)') = <<a, b, d>>
      BY <2>1, FirstStop
  <2> QED
      BY <2>1, <2>2
<1>20. FindInType(t, k)' = FoundAt(t, <<a, b, d>>)'
    BY <1>1, <1>15, <1>18, <1>19
<1>21. /\ FoundAt(t, <<a, b, d>>)'.status = "found"
       /\ FoundAt(t, <<a, b, d>>)'.path = PathOrder[b]
       /\ FoundAt(t, <<a, b, d>>)'.fields = disk'[PathOrder[b]].items[d].fields
    BY DEF FoundAt, FileAt
<1>22. /\ FoundAt(t, s).path = PathOrder[b]
       /\ FoundAt(t, s).fields = disk[PathOrder[b]].items[c].fields
    BY <1>3 DEF FoundAt, FileAt
<1> QED
    BY <1>1, <1>11, <1>20, <1>21, <1>22

(* Where the fields stay too.                                                *)
LEMMA KeptByRewrite ==
    ASSUME StoreTypeOK, StoreTypeOK', NEW t \in Types, NEW k, NEW path \in Paths,
           disk[path] # Absent, NEW g \in Files \cup {Absent}, disk' = [disk EXCEPT ![path] = g],
           \A n \in DOMAIN Includes[t] :
               path \in Includes[t][n].files /\ Readable(t, Includes[t][n], disk[path]) =>
                   IF g = Absent THEN StopsAt(t, path, disk[path], k) = {}
                   ELSE Readable(t, Includes[t][n], g) /\ Keeps(t, path, disk[path], g, k),
           FindInType(t, k).status = "found"
    PROVE  /\ FindInType(t, k)'.status = "found"
           /\ FindInType(t, k)'.path = FindInType(t, k).path
           /\ FindInType(t, k)'.fields = FindInType(t, k).fields
<1> DEFINE same == [fields \in FieldMaps |-> fields]
<1>1. disk[path].items \in Seq(Item)
    BY DEF StoreTypeOK, Disks, Files, Contents
<1>2. \A i \in 1 .. Len(disk[path].items) : disk[path].items[i].fields \in FieldMaps
  <2>1. \A i \in 1 .. Len(disk[path].items) : disk[path].items[i] \in Item
      BY <1>1
  <2> QED
      BY <2>1 DEF Item
<1>3. Keeps(t, path, disk[path], g, k) => KeepsAs(t, path, disk[path], g, k, same)
    BY <1>2 DEF Keeps, KeepsAs, Leads, StopsAt
<1>4. FindInType(t, k).fields \in FieldMaps
  <2>1. PICK s \in Positions(t) : FindInType(t, k) = FoundAt(t, s) /\ KeyAt(t, s) = k /\ k # NoId
      BY FoundHasPosition
  <2>2. PICK n \in DOMAIN Includes[t], rank \in DOMAIN PathOrder :
            /\ PathOrder[rank] \in Includes[t][n].files /\ disk[PathOrder[rank]] # Absent
            /\ \E i \in Slots(t, Includes[t][n], disk[PathOrder[rank]]) : s = <<n, rank, i>>
      BY <2>1, PositionsAre
  <2>3. PICK i \in Slots(t, Includes[t][n], disk[PathOrder[rank]]) : s = <<n, rank, i>>
      BY <2>2
  <2>4. i # 0
      BY <2>1, <2>3, KeyAtIs
  <2>5. PathOrder[rank] \in Paths
      BY LayoutAssumption
  <2>6. disk[PathOrder[rank]].items \in Seq(Item) /\ i \in 1 .. Len(disk[PathOrder[rank]].items)
      BY <2>2, <2>3, <2>4, <2>5 DEF Slots, StoreTypeOK, Disks, Files, Contents
  <2>7. FindInType(t, k).fields = disk[PathOrder[rank]].items[i].fields
      BY <2>1, <2>3 DEF FoundAt, FileAt
  <2>8. disk[PathOrder[rank]].items[i] \in Item
      BY <2>6
  <2> QED
      BY <2>7, <2>8 DEF Item
<1>5. same[FindInType(t, k).fields] = FindInType(t, k).fields
    BY <1>4
<1> HIDE DEF same
<1> QED
    BY <1>3, <1>5, KeptByRewriteAs

(* A list without its idx-th item.                                           *)
LEMMA ItemRemoved ==
    ASSUME NEW items \in Seq(Item), NEW idx \in 1 .. Len(items)
    PROVE  LET rest == SubSeq(items, 1, idx - 1) \o SubSeq(items, idx + 1, Len(items))
           IN  /\ Len(rest) = Len(items) - 1
               /\ \A i \in 1 .. Len(items) - 1 :
                      rest[i] = items[IF i < idx THEN i ELSE i + 1]
<1> DEFINE before == SubSeq(items, 1, idx - 1)
           after  == SubSeq(items, idx + 1, Len(items))
           rest   == before \o after
<1>1. Len(items) \in Nat /\ idx \in Nat /\ 1 <= idx /\ idx <= Len(items)
    OBVIOUS
<1>2. /\ before \in Seq(Item) /\ Len(before) = idx - 1
      /\ \A i \in 1 .. idx - 1 : before[i] = items[i]
    BY <1>1
<1>3. /\ after \in Seq(Item) /\ Len(after) = Len(items) - idx
      /\ \A i \in 1 .. Len(items) - idx : after[i] = items[idx + i]
    BY <1>1
<1> HIDE DEF before, after
<1>4. Len(rest) = Len(items) - 1
  <2>1. Len(rest) = Len(before) + Len(after)
      BY <1>2, <1>3, ConcatProperties
  <2> QED
      BY <1>1, <1>2, <1>3, <2>1
<1>5. \A i \in 1 .. Len(items) - 1 :
          rest[i] = IF i <= idx - 1 THEN before[i] ELSE after[i - (idx - 1)]
    BY <1>1, <1>2, <1>3
<1>6. ASSUME NEW i \in 1 .. Len(items) - 1
      PROVE  rest[i] = items[IF i < idx THEN i ELSE i + 1]
  <2>1. CASE i < idx
    <3>1. i \in 1 .. idx - 1 /\ i <= idx - 1
        BY <1>1, <2>1
    <3>2. rest[i] = before[i]
        BY <1>5, <3>1
    <3> QED
        BY <1>2, <2>1, <3>1, <3>2
  <2>2. CASE ~(i < idx)
    <3>1. i - (idx - 1) \in 1 .. Len(items) - idx /\ idx + (i - (idx - 1)) = i + 1
        BY <1>1, <2>2
    <3>2. ~(i <= idx - 1)
        BY <1>1, <2>2
    <3>3. rest[i] = after[i - (idx - 1)]
        BY <1>5, <3>2
    <3> QED
        BY <1>3, <2>2, <3>1, <3>3
  <2> QED
      BY <2>1, <2>2
<1> QED
    BY <1>4, <1>6 DEF before, after

(* The other objects in a file when one is changed ...                       *)
LEMMA UpdateKeeps ==
    ASSUME NEW t \in Types, NEW path, NEW f \in Files, NEW idx \in 1 .. Len(f.items),
           NEW item \in Item, item.id = f.items[idx].id,
           KeyOf(t, path, f.items[idx]) # NoId, NEW j, j # KeyOf(t, path, f.items[idx]),
           NEW inc, Readable(t, inc, f)
    PROVE  /\ Readable(t, inc, WithUpdated(t, f, idx, item))
           /\ Keeps(t, path, f, WithUpdated(t, f, idx, item), j)
<1> DEFINE g == WithUpdated(t, f, idx, item)
<1>1. Len(f.items) \in Nat /\ f.items \in Seq(Item)
    BY DEF Files, Contents
<1>2. CASE f.shape = "single"
  <2>1. g = Single(item)
      BY <1>2 DEF WithUpdated
  <2>2. g.shape = "single" /\ g.type = NoType /\ g.items[1] = item /\ Len(g.items) = 1
      BY <2>1 DEF Single
  <2> HIDE DEF g
  <2>3. Len(f.items) = 1 /\ idx = 1
    <3>1. Len(f.items) = 1
        BY <1>2 DEF Files
    <3> QED
        BY <3>1
  <2>4. Readable(t, inc, g)
      BY <1>2, <2>2 DEF Readable, Loads, LoadsAs, Several
  <2>5. StopsAt(t, path, f, j) = {} /\ StopsAt(t, path, g, j) = {}
      BY <2>2, <2>3 DEF StopsAt, KeyOf
  <2> QED
      BY <2>4, <2>5 DEF Keeps, Leads, g
<1>3. CASE f.shape # "single"
  <2>1. g = [f EXCEPT !.type = t, !.items[idx] = item]
      BY <1>3 DEF WithUpdated
  <2>2. /\ g.shape = f.shape /\ g.type = t /\ g.items = [f.items EXCEPT ![idx] = item]
      BY <2>1 DEF Files, Contents
  <2> HIDE DEF g
  <2>3. /\ Len(g.items) = Len(f.items) /\ g.items[idx] = item
        /\ \A i \in 1 .. Len(f.items) : i # idx => g.items[i] = f.items[i]
        /\ f.items # <<>> /\ g.items # <<>>
      BY <1>1, <2>2
  <2>4. Readable(t, inc, g)
      BY <2>2, <2>3 DEF Readable, Loads, LoadsAs, Several
  <2>5. \A i \in 1 .. Len(f.items) : KeyOf(t, path, g.items[i]) = KeyOf(t, path, f.items[i])
      BY <2>3 DEF KeyOf
  <2>6. StopsAt(t, path, g, j) = StopsAt(t, path, f, j)
      BY <2>3, <2>5 DEF StopsAt
  <2>7. ASSUME NEW i, Leads(t, path, f, i, j)
        PROVE  Leads(t, path, g, i, j) /\ g.items[i].fields = f.items[i].fields
    <3>1. i \in 1 .. Len(f.items) /\ i # idx
        BY <2>7 DEF Leads, StopsAt
    <3> QED
        BY <2>3, <2>5, <2>6, <2>7, <3>1 DEF Leads
  <2> QED
      BY <2>4, <2>6, <2>7 DEF Keeps, g
<1> QED
    BY <1>2, <1>3

(* ... and when one is removed.                                              *)
LEMMA DeleteKeeps ==
    ASSUME NEW t \in Types, NEW path, NEW f \in Files, NEW idx \in 1 .. Len(f.items),
           Len(f.items) # 1,
           KeyOf(t, path, f.items[idx]) # NoId, NEW j, j # KeyOf(t, path, f.items[idx]),
           NEW inc, Readable(t, inc, f)
    PROVE  /\ Readable(t, inc, WithDeleted(t, f, idx))
           /\ Keeps(t, path, f, WithDeleted(t, f, idx), j)
<1> DEFINE g == WithDeleted(t, f, idx)
<1>1. Len(f.items) \in Nat /\ f.items \in Seq(Item) /\ f.shape # "single"
    BY DEF Files, Contents
<1>2. /\ g.shape = f.shape /\ g.type = t
      /\ g.items = SubSeq(f.items, 1, idx - 1) \o SubSeq(f.items, idx + 1, Len(f.items))
    BY DEF Files, Contents, WithDeleted
<1> HIDE DEF g
<1>3. /\ Len(g.items) = Len(f.items) - 1
      /\ \A i \in 1 .. Len(f.items) - 1 :
             g.items[i] = f.items[IF i < idx THEN i ELSE i + 1]
    BY <1>1, <1>2, ItemRemoved
<1>4. Len(f.items) >= 2 /\ Len(g.items) # 0 /\ g.items # <<>> /\ Len(f.items) > Len(g.items)
  <2>1. Len(f.items) >= 2
    <3>1. \A n \in Nat : \A i \in 1 .. n : n # 1 => n >= 2
        OBVIOUS
    <3> QED
        BY <1>1, <3>1
  <2>2. Len(g.items) >= 1
      BY <1>1, <1>3, <2>1
  <2> QED
      BY <1>1, <1>3, <2>1, <2>2
<1>5. Readable(t, inc, g)
  <2>1. Loads(t, inc, g)
      BY <1>2, <1>4 DEF Readable, Loads, LoadsAs
  <2>2. Len(g.items) > 1 => Len(f.items) > 1
      BY <1>1, <1>3
  <2>3. Several(inc, g) => Several(inc, f)
      BY <1>2, <2>2 DEF Several
  <2> QED
      BY <2>1, <2>3 DEF Readable
<1>6. idx \notin StopsAt(t, path, f, j)
    BY DEF StopsAt
<1>7. \A i \in 1 .. Len(f.items) - 1 :
          i \in StopsAt(t, path, g, j) <=>
              (IF i < idx THEN i ELSE i + 1) \in StopsAt(t, path, f, j)
  <2> SUFFICES ASSUME NEW i \in 1 .. Len(f.items) - 1
               PROVE  i \in StopsAt(t, path, g, j) <=>
                          (IF i < idx THEN i ELSE i + 1) \in StopsAt(t, path, f, j)
      OBVIOUS
  <2> DEFINE m == IF i < idx THEN i ELSE i + 1
  <2>1. m \in 1 .. Len(f.items) /\ i \in 1 .. Len(g.items) /\ g.items[i] = f.items[m]
      BY <1>1, <1>3
  <2> HIDE DEF m
  <2>2. i \in StopsAt(t, path, g, j) <=> m \in StopsAt(t, path, f, j)
      BY <2>1 DEF StopsAt
  <2> QED
      BY <2>2 DEF m
<1>8. ASSUME NEW i, Leads(t, path, f, i, j)
      PROVE  \E n : Leads(t, path, g, n, j) /\ g.items[n].fields = f.items[i].fields
  <2> DEFINE n == IF i < idx THEN i ELSE i - 1
  <2>1. i \in 1 .. Len(f.items) /\ i # idx /\ i \in StopsAt(t, path, f, j)
      BY <1>6, <1>8 DEF Leads, StopsAt
  <2>2. n \in 1 .. Len(f.items) - 1 /\ (IF n < idx THEN n ELSE n + 1) = i
      BY <1>1, <2>1
  <2> HIDE DEF n
  <2>3. n \in StopsAt(t, path, g, j) /\ g.items[n] = f.items[i]
      BY <1>3, <1>7, <2>1, <2>2
  <2>4. ASSUME NEW m \in StopsAt(t, path, g, j)
        PROVE  n <= m
    <3>1. m \in 1 .. Len(f.items) - 1
        BY <1>3, <2>4 DEF StopsAt
    <3>2. i <= IF m < idx THEN m ELSE m + 1
        BY <1>7, <1>8, <2>4, <3>1 DEF Leads
    <3> QED
        BY <1>1, <2>1, <2>2, <3>1, <3>2
  <2>5. Leads(t, path, g, n, j)
      BY <1>8, <2>3, <2>4 DEF Leads, StopsAt
  <2> QED
      BY <2>3, <2>5
<1>9. StopsAt(t, path, f, j) = {} => StopsAt(t, path, g, j) = {}
    BY <1>3, <1>7 DEF StopsAt
<1> QED
    BY <1>5, <1>8, <1>9 DEF Keeps, g

LEMMA DeletedIsAFile ==
    ASSUME NEW t \in Types, NEW f \in Files, NEW idx \in 1 .. Len(f.items), Len(f.items) # 1
    PROVE  WithDeleted(t, f, idx) \in Files
<1> DEFINE rest == SubSeq(f.items, 1, idx - 1) \o SubSeq(f.items, idx + 1, Len(f.items))
<1>1. f.items \in Seq(Item) /\ Len(f.items) \in Nat
    BY DEF Files, Contents
<1>2. rest \in Seq(Item)
  <2>1. SubSeq(f.items, 1, idx - 1) \in Seq(Item)
      BY <1>1
  <2>2. SubSeq(f.items, idx + 1, Len(f.items)) \in Seq(Item)
      BY <1>1
  <2> QED
      BY <2>1, <2>2
<1> HIDE DEF rest
<1>3. WithDeleted(t, f, idx) = [f EXCEPT !.type = t, !.items = rest]
    BY DEF WithDeleted, rest
<1>4. f.shape # "single"
    BY DEF Files
<1> QED
    BY <1>2, <1>3, <1>4 DEF Files, Contents

(* An update, or a deletion, is a change of one object that was found.       *)
LEMMA DeletionIs ==
    ASSUME StoreTypeOK, NEW t \in Types, NEW k, NEW w \in DeleteWrites(t, k)
    PROVE  \E loc \in Changeable(t, k) :
               /\ w.path = loc.path
               /\ \/ Len(disk[loc.path].items) = 1 /\ w.content = Absent
                  \/ /\ Len(disk[loc.path].items) # 1
                     /\ w.content = WithDeleted(t, disk[loc.path], loc.index)
                     /\ w.content \in Files
<1>1. PICK loc \in Changeable(t, k) :
          w = [path    |-> loc.path,
               content |-> IF Len(disk[loc.path].items) = 1 THEN Absent
                           ELSE WithDeleted(t, disk[loc.path], loc.index)]
    BY DEF DeleteWrites
<1>2. /\ w.path = loc.path
      /\ w.content = IF Len(disk[loc.path].items) = 1 THEN Absent
                     ELSE WithDeleted(t, disk[loc.path], loc.index)
    BY <1>1
<1>3. disk[loc.path] \in Files /\ loc.index \in 1 .. Len(disk[loc.path].items)
    BY ChangeableIsInAFile
<1>4. Len(disk[loc.path].items) # 1 => WithDeleted(t, disk[loc.path], loc.index) \in Files
    BY <1>3, DeletedIsAFile
<1> QED
    BY <1>2, <1>4

LEMMA UpdateIs ==
    ASSUME StoreTypeOK, NEW t \in Types, NEW k, NEW fields \in FieldMaps, NEW merge \in BOOLEAN,
           NEW w \in UpdateWrites(t, k, fields, merge)
    PROVE  \E loc \in Changeable(t, k), item \in Item :
               /\ w.path = loc.path
               /\ item.id = disk[loc.path].items[loc.index].id
               /\ w.content = WithUpdated(t, disk[loc.path], loc.index, item)
               /\ w.content \in Files
<1>1. PICK loc \in Changeable(t, k) :
          w = [path    |-> loc.path,
               content |-> WithUpdated(t, disk[loc.path], loc.index,
                                       Updated(disk[loc.path], loc.index, fields, merge))]
    BY DEF UpdateWrites
<1> DEFINE f    == disk[loc.path]
           old  == f.items[loc.index]
           item == Updated(f, loc.index, fields, merge)
<1>2. f \in Files /\ loc.index \in 1 .. Len(f.items)
    BY ChangeableIsInAFile
<1>3. old \in Item
    BY <1>2 DEF Files, Contents
<1>4. old.fields \in FieldMaps /\ MergeMaps(old.fields, fields) \in FieldMaps
    BY <1>3 DEF Item, MergeMaps, FieldMaps
<1>5. item \in Item /\ item.id = old.id
    BY <1>3, <1>4 DEF Item, Updated
<1>6. w.path = loc.path /\ w.content = WithUpdated(t, f, loc.index, item)
    BY <1>1
<1>7. w.content \in Files
    BY UpdateWritesAFile DEF Written
<1> HIDE DEF item
<1> QED
    BY <1>5, <1>6, <1>7

(* The rewrite at one place: what it does to a look-up for another object.   *)
LEMMA OthersKeptBy ==
    ASSUME Unshared, StoreTypeOK, StoreTypeOK', NEW t \in Types, NEW k, NEW path \in Paths,
           disk[path] # Absent, NEW g \in Files \cup {Absent}, disk' = [disk EXCEPT ![path] = g],
           \E n \in DOMAIN Includes[t] : path \in Includes[t][n].files,
           \A j, inc : j # k /\ Readable(t, inc, disk[path]) =>
               IF g = Absent THEN StopsAt(t, path, disk[path], j) = {}
               ELSE Readable(t, inc, g) /\ Keeps(t, path, disk[path], g, j)
    PROVE  OthersKept(t, k)
<1> SUFFICES ASSUME NEW u \in Types, NEW j \in Keys[u], FindInType(u, j).status = "found",
                    <<u, j>> # <<t, k>>
             PROVE  /\ FindInType(u, j)'.status = "found"
                    /\ FindInType(u, j)'.path = FindInType(u, j).path
                    /\ FindInType(u, j)'.fields = FindInType(u, j).fields
    BY DEF OthersKept
<1>1. CASE u = t
    BY <1>1, KeptByRewrite
<1>2. CASE u # t
  <2>1. \A n \in DOMAIN Includes[u] : path \notin Includes[u][n].files
      BY <1>2 DEF Unshared
  <2> QED
      BY <2>1, KeptByRewrite
<1> QED
    BY <1>1, <1>2

LEMMA DeletionKeepsOthers ==
    ASSUME Unshared, StoreTypeOK, StoreTypeOK', NEW t \in Types, NEW k,
           NEW w \in DeleteWrites(t, k), Write(w)
    PROVE  OthersKept(t, k)
<1>1. PICK loc \in Changeable(t, k) :
          /\ w.path = loc.path
          /\ \/ Len(disk[loc.path].items) = 1 /\ w.content = Absent
             \/ /\ Len(disk[loc.path].items) # 1
                /\ w.content = WithDeleted(t, disk[loc.path], loc.index)
                /\ w.content \in Files
    BY DeletionIs
<1> DEFINE path == loc.path
           f    == disk[path]
           idx  == loc.index
           g    == w.content
<1>2. /\ path \in Paths /\ f \in Files /\ idx \in 1 .. Len(f.items)
      /\ k = KeyOf(t, path, f.items[idx])
      /\ \E n \in DOMAIN Includes[t] : path \in Includes[t][n].files
    BY ChangeableIsInAFile DEF KeyOf
<1>3. k # NoId
  <2>1. FindInType(t, k).status = "found"
      BY ChangeableIsInAFile DEF Changeable, Writable
  <2> QED
      BY <2>1, FoundHasPosition
<1>4. g \in Files \cup {Absent} /\ disk' = [disk EXCEPT ![path] = g] /\ f # Absent
    BY <1>1, <1>2, ValuesAssumption DEF Write, Files
<1>5. \/ Len(f.items) = 1 /\ g = Absent
      \/ Len(f.items) # 1 /\ g = WithDeleted(t, f, idx) /\ g # Absent
    BY <1>1, ValuesAssumption DEF Files
<1> HIDE DEF path, f, idx, g
<1>6. ASSUME NEW j, NEW inc, j # k, Readable(t, inc, f)
      PROVE  IF g = Absent THEN StopsAt(t, path, f, j) = {}
             ELSE Readable(t, inc, g) /\ Keeps(t, path, f, g, j)
  <2>1. CASE Len(f.items) = 1 /\ g = Absent
    <3>1. idx = 1
        BY <1>2, <2>1
    <3>2. StopsAt(t, path, f, j) = {}
        BY <1>2, <1>3, <1>6, <2>1, <3>1 DEF StopsAt
    <3> QED
        BY <2>1, <3>2
  <2>2. CASE Len(f.items) # 1 /\ g = WithDeleted(t, f, idx) /\ g # Absent
    <3>1. /\ Readable(t, inc, WithDeleted(t, f, idx))
          /\ Keeps(t, path, f, WithDeleted(t, f, idx), j)
        BY <1>2, <1>3, <1>6, <2>2, DeleteKeeps
    <3> QED
        BY <2>2, <3>1
  <2> QED
      BY <1>5, <2>1, <2>2
<1>7. \A j, inc : j # k /\ Readable(t, inc, disk[path]) =>
          IF g = Absent THEN StopsAt(t, path, disk[path], j) = {}
          ELSE Readable(t, inc, g) /\ Keeps(t, path, disk[path], g, j)
    BY <1>4, <1>6 DEF f
<1>8. disk[path] # Absent
    BY <1>4 DEF f
<1> QED
    BY <1>2, <1>4, <1>7, <1>8, OthersKeptBy

LEMMA UpdateKeepsOthers ==
    ASSUME Unshared, StoreTypeOK, StoreTypeOK', NEW t \in Types, NEW k,
           NEW fields \in FieldMaps, NEW merge \in BOOLEAN,
           NEW w \in UpdateWrites(t, k, fields, merge), Write(w)
    PROVE  OthersKept(t, k)
<1>1. PICK loc \in Changeable(t, k), item \in Item :
          /\ w.path = loc.path
          /\ item.id = disk[loc.path].items[loc.index].id
          /\ w.content = WithUpdated(t, disk[loc.path], loc.index, item)
          /\ w.content \in Files
    BY UpdateIs
<1> DEFINE path == loc.path
           f    == disk[path]
           idx  == loc.index
           g    == w.content
<1>2. /\ path \in Paths /\ f \in Files /\ idx \in 1 .. Len(f.items)
      /\ k = KeyOf(t, path, f.items[idx])
      /\ \E n \in DOMAIN Includes[t] : path \in Includes[t][n].files
    BY ChangeableIsInAFile DEF KeyOf
<1>3. k # NoId
  <2>1. FindInType(t, k).status = "found"
      BY ChangeableIsInAFile DEF Changeable, Writable
  <2> QED
      BY <2>1, FoundHasPosition
<1>4. g \in Files /\ disk' = [disk EXCEPT ![path] = g] /\ f # Absent /\ g # Absent
    BY <1>1, <1>2, ValuesAssumption DEF Write, Files
<1>5. item.id = f.items[idx].id /\ g = WithUpdated(t, f, idx, item)
    BY <1>1
<1> HIDE DEF path, f, idx, g
<1>6. ASSUME NEW j, NEW inc, j # k, Readable(t, inc, f)
      PROVE  Readable(t, inc, g) /\ Keeps(t, path, f, g, j)
  <2>1. /\ Readable(t, inc, WithUpdated(t, f, idx, item))
        /\ Keeps(t, path, f, WithUpdated(t, f, idx, item), j)
      BY <1>2, <1>3, <1>5, <1>6, UpdateKeeps
  <2> QED
      BY <1>5, <2>1
<1>7. \A j, inc : j # k /\ Readable(t, inc, disk[path]) =>
          IF g = Absent THEN StopsAt(t, path, disk[path], j) = {}
          ELSE Readable(t, inc, g) /\ Keeps(t, path, disk[path], g, j)
    BY <1>4, <1>6 DEF f
<1>8. disk[path] # Absent
    BY <1>4 DEF f
<1> QED
    BY <1>2, <1>4, <1>7, <1>8, OthersKeptBy

(* Whatever is in the files, when no two types share one, update and delete  *)
(* leave every other object that could be found where it was and as it was,  *)
(* also those in the file that they rewrite.                                 *)
THEOREM ChangesKeep == ASSUME Unshared PROVE Spec => ChangesKeepOthers
<1>1. StoreTypeOK /\ [Next]_storeVars =>
          [Ran' /\ reply'.op # "create" => OthersKept(reply'.type, reply'.key)]_storeVars
  <2> SUFFICES ASSUME StoreTypeOK, Next, reply'.op # "create"
               PROVE  OthersKept(reply'.type, reply'.key)
      OBVIOUS
  <2>1. StoreTypeOK'
      BY StoreStep
  <2> PICK t \in Types : \E k \in Keys[t] :
            \/ Create(t, k)
            \/ \E merge \in BOOLEAN : Update(t, k, merge)
            \/ Delete(t, k)
            \/ RefuseCreate(t, k)
            \/ \E op \in {"update", "merge", "delete"} : RefuseChange(op, t, k)
      BY DEF Next
  <2>2. PICK k \in Keys[t] :
            \/ Create(t, k)
            \/ \E merge \in BOOLEAN : Update(t, k, merge)
            \/ Delete(t, k)
            \/ RefuseCreate(t, k)
            \/ \E op \in {"update", "merge", "delete"} : RefuseChange(op, t, k)
      OBVIOUS
  <2>3. ~Create(t, k) /\ ~RefuseCreate(t, k)
      BY DEF Create, RefuseCreate, Answer
  <2>4. reply'.type = t /\ reply'.key = k
      BY <2>2, <2>3 DEF Update, Delete, RefuseChange, Answer
  <2>5. ASSUME UNCHANGED disk
        PROVE  OthersKept(t, k)
    <3>1. \A u : Positions(u)' = Positions(u)
        BY <2>5 DEF Positions, ItemsAt
    <3>2. \A u, s : KeyAt(u, s)' = KeyAt(u, s)
        BY <2>5 DEF KeyAt, FileAt
    <3>3. \A u, s : FoundAt(u, s)' = FoundAt(u, s)
        BY <2>5 DEF FoundAt, FileAt
    <3>4. \A u, j : FindInType(u, j)' = FindInType(u, j)
        BY <3>1, <3>2, <3>3 DEF FindInType, FoundInline, NotFound, Unreadable
    <3> QED
        BY <3>4 DEF OthersKept
  <2>6. ASSUME NEW merge \in BOOLEAN, Update(t, k, merge)
        PROVE  OthersKept(t, k)
    <3>1. PICK fields \in FieldMaps : \E w \in UpdateWrites(t, k, fields, merge) : Write(w)
        BY <2>6 DEF Update
    <3>2. PICK w \in UpdateWrites(t, k, fields, merge) : Write(w)
        BY <3>1
    <3> QED
        BY <2>1, <3>2, UpdateKeepsOthers
  <2>7. ASSUME Delete(t, k)
        PROVE  OthersKept(t, k)
    <3>1. PICK w \in DeleteWrites(t, k) : Write(w)
        BY <2>7 DEF Delete
    <3> QED
        BY <2>1, <3>1, DeletionKeepsOthers
  <2>8. OthersKept(t, k)
      BY <2>2, <2>3, <2>5, <2>6, <2>7 DEF RefuseChange
  <2> QED
      BY <2>4, <2>8 DEF OthersKept
<1> QED
    BY <1>1, StoreTypeCorrect, PTL DEF Spec, ChangesKeepOthers

(***************************************************************************)
(* Identifiers.  An object is held by a type at a place in a file; a       *)
(* rewritten file that holds, of an identifier, no two objects where it    *)
(* held one before leaves at most one in the hierarchy if there was one.   *)
(***************************************************************************)
(* An object is at a position.                                               *)
LEMMA HeldHasPosition ==
    ASSUME StoreTypeOK, NEW t \in Types, NEW p \in Paths, NEW i, NEW k, Held(t, p, disk[p], i, k)
    PROVE  \E s \in Positions(t) : KeyAt(t, s) = k /\ FileAt(s) = p /\ s[3] = i
<1>1. PICK n \in DOMAIN Includes[t] :
          p \in Includes[t][n].files /\ Readable(t, Includes[t][n], disk[p])
    BY DEF Held
<1>2. PICK rank \in DOMAIN PathOrder : PathOrder[rank] = p
    BY LayoutAssumption
<1>3. Len(disk[p].items) \in Nat /\ disk[p] # Absent
    BY DEF Held, StoreTypeOK, Disks, Files, Contents
<1>4. i \in Slots(t, Includes[t][n], disk[p]) /\ i # 0 /\ KeyOf(t, p, disk[p].items[i]) = k
    BY <1>1, <1>3 DEF Held, Slots
<1>5. <<n, rank, i>> \in Positions(t)
    BY <1>1, <1>2, <1>3, <1>4, PositionsAre
<1>6. KeyAt(t, <<n, rank, i>>) = k
    BY <1>2, <1>4, KeyAtIs
<1>7. FileAt(<<n, rank, i>>) = p /\ <<n, rank, i>>[3] = i
    BY <1>2 DEF FileAt
<1> QED
    BY <1>5, <1>6, <1>7

LEMMA PlacesAre ==
    ASSUME StoreTypeOK, NEW t \in Types, NEW k, k # NoId, NEW x
    PROVE  x \in Places(t, k) <=>
               \E u \in HierarchyOf[t], path \in Paths : \E i :
                   x = <<u, path, i>> /\ Held(u, path, disk[path], i, k)
<1>1. x \in Places(t, k) <=>
          \E u \in HierarchyOf[t] : \E s \in Positions(u) :
              KeyAt(u, s) = k /\ x = <<u, FileAt(s), s[3]>>
    BY DEF Places
<1>2. ASSUME NEW u \in HierarchyOf[t], NEW s \in Positions(u), KeyAt(u, s) = k
      PROVE  FileAt(s) \in Paths /\ Held(u, FileAt(s), disk[FileAt(s)], s[3], k)
  <2>1. PICK n \in DOMAIN Includes[u], rank \in DOMAIN PathOrder :
            /\ PathOrder[rank] \in Includes[u][n].files /\ disk[PathOrder[rank]] # Absent
            /\ \E i \in Slots(u, Includes[u][n], disk[PathOrder[rank]]) : s = <<n, rank, i>>
      BY <1>2, PositionsAre
  <2>2. PICK i \in Slots(u, Includes[u][n], disk[PathOrder[rank]]) : s = <<n, rank, i>>
      BY <2>1
  <2>3. s[3] = i /\ FileAt(s) = PathOrder[rank] /\ PathOrder[rank] \in Paths
      BY <2>2, LayoutAssumption DEF FileAt
  <2>4. i # 0 /\ KeyOf(u, PathOrder[rank], disk[PathOrder[rank]].items[i]) = k
      BY <1>2, <2>2, KeyAtIs
  <2>5. i \in 1 .. Len(disk[PathOrder[rank]].items) /\ Readable(u, Includes[u][n], disk[PathOrder[rank]])
      BY <2>4 DEF Slots
  <2> QED
      BY <2>1, <2>3, <2>4, <2>5 DEF Held
<1>3. ASSUME NEW u \in HierarchyOf[t], NEW path \in Paths, NEW i, Held(u, path, disk[path], i, k)
      PROVE  \E s \in Positions(u) : KeyAt(u, s) = k /\ FileAt(s) = path /\ s[3] = i
  <2>1. u \in Types
      BY TypesAssumption
  <2> QED
      BY <1>3, <2>1, HeldHasPosition
<1>4. ASSUME x \in Places(t, k)
      PROVE  \E u \in HierarchyOf[t], path \in Paths : \E i :
                 x = <<u, path, i>> /\ Held(u, path, disk[path], i, k)
    BY <1>1, <1>2, <1>4
<1>5. ASSUME NEW u \in HierarchyOf[t], NEW path \in Paths, NEW i,
             x = <<u, path, i>>, Held(u, path, disk[path], i, k)
      PROVE  x \in Places(t, k)
    BY <1>1, <1>3, <1>5
<1> QED
    BY <1>4, <1>5

HeldPlaces(t, k) ==
    \A x : x \in Places(t, k) <=>
               \E u \in HierarchyOf[t], path \in Paths : \E i :
                   x = <<u, path, i>> /\ Held(u, path, disk[path], i, k)

LEMMA PlacesAreHeld ==
    ASSUME NEW t \in Types, NEW k, k # NoId
    PROVE  StoreTypeOK => HeldPlaces(t, k)
BY PlacesAre DEF HeldPlaces

LEMMA PlacesAreHeldThen ==
    ASSUME NEW t \in Types, NEW k, k # NoId
    PROVE  StoreTypeOK' => HeldPlaces(t, k)'
<1>1. StoreTypeOK => HeldPlaces(t, k)
    BY PlacesAreHeld
<1> QED
    BY <1>1, PTL

LEMMA KeysAreIds == ASSUME NEW t \in Types, NEW k \in Keys[t] PROVE k # NoId
BY ValuesAssumption DEF Keys

(* For two objects that a file shall hold it held two.                       *)
HoldsNoMore(t, path, f, g, k) ==
    \A u \in HierarchyOf[t] : \A i, j : Held(u, path, g, i, k) /\ Held(u, path, g, j, k) =>
        \E a, b : /\ Held(u, path, f, a, k) /\ Held(u, path, f, b, k)
                  /\ a = b => i = j

LEMMA NoMore ==
    ASSUME Unshared, StoreTypeOK, StoreTypeOK', NEW path \in Paths,
           NEW g \in Files \cup {Absent}, disk' = [disk EXCEPT ![path] = g],
           NEW t \in Types, NEW k, k # NoId,
           HoldsNoMore(t, path, disk[path], g, k), AtMostOne(t, k)
    PROVE  AtMostOne(t, k)'
<1> SUFFICES ASSUME NEW x \in Places(t, k)', NEW y \in Places(t, k)'
             PROVE  x = y
    BY DEF AtMostOne
<1>1. HeldPlaces(t, k) /\ HeldPlaces(t, k)'
    BY PlacesAreHeld, PlacesAreHeldThen
<1>2. disk'[path] = g /\ \A other \in Paths : other # path => disk'[other] = disk[other]
    BY DEF StoreTypeOK, Disks
<1>3. PICK u \in HierarchyOf[t], p \in Paths : \E i : x = <<u, p, i>> /\ Held(u, p, disk'[p], i, k)
    BY <1>1 DEF HeldPlaces
<1>4. PICK i : x = <<u, p, i>> /\ Held(u, p, disk'[p], i, k)
    BY <1>3
<1>5. PICK v \in HierarchyOf[t], q \in Paths : \E j : y = <<v, q, j>> /\ Held(v, q, disk'[q], j, k)
    BY <1>1 DEF HeldPlaces
<1>6. PICK j : y = <<v, q, j>> /\ Held(v, q, disk'[q], j, k)
    BY <1>5
<1>7. \E a : Held(u, p, disk[p], a, k) /\ (p # path => a = i)
    BY <1>2, <1>4 DEF HoldsNoMore
<1>8. \E b : Held(v, q, disk[q], b, k) /\ (q # path => b = j)
    BY <1>2, <1>6 DEF HoldsNoMore
<1>9. \A a, b : Held(u, p, disk[p], a, k) /\ Held(v, q, disk[q], b, k) =>
          u = v /\ p = q /\ a = b
  <2> SUFFICES ASSUME NEW a, NEW b, Held(u, p, disk[p], a, k), Held(v, q, disk[q], b, k)
               PROVE  u = v /\ p = q /\ a = b
      OBVIOUS
  <2>1. <<u, p, a>> \in Places(t, k) /\ <<v, q, b>> \in Places(t, k)
      BY <1>1 DEF HeldPlaces
  <2>2. <<u, p, a>> = <<v, q, b>>
      BY <2>1 DEF AtMostOne
  <2> QED
      BY <2>2
<1>10. u = v /\ p = q
    BY <1>7, <1>8, <1>9
<1>11. i = j
  <2>1. CASE p # path
      BY <1>7, <1>8, <1>9, <1>10, <2>1
  <2>2. CASE p = path
      BY <1>2, <1>4, <1>6, <1>9, <1>10, <2>2 DEF HoldsNoMore
  <2> QED
      BY <2>1, <2>2
<1> QED
    BY <1>4, <1>6, <1>10, <1>11

(* What the file that a command rewrites holds.                              *)
LEMMA ChangeableLoads ==
    ASSUME StoreTypeOK, NEW t \in Types, NEW k, NEW loc \in Changeable(t, k)
    PROVE  /\ LoadsAs(t, disk[loc.path])
           /\ t \in PathTypes => disk[loc.path].shape # "multi"
<1>1. loc = FindInType(t, k) /\ loc.status = "found" /\ ~loc.readOnly
    BY ChangeableIsInAFile DEF Changeable, Writable
<1>2. PICK s \in Positions(t) : loc = FoundAt(t, s) /\ KeyAt(t, s) = k /\ k # NoId
    BY <1>1, FoundHasPosition
<1>3. s[3] # 0
    BY <1>2 DEF KeyAt
<1>4. /\ FoundAt(t, s).path = FileAt(s)
      /\ FoundAt(t, s).readOnly = (Includes[t][s[1]].kind = "selector")
    BY DEF FoundAt
<1>5. Includes[t][s[1]].kind # "selector"
    BY <1>1, <1>2, <1>4
<1> QED
    BY <1>2, <1>3, <1>4, <1>5, PositionIsInAFile DEF Loads, Several

LEMMA UpdateHolds ==
    ASSUME NEW t \in Types, NEW path, NEW f \in Files, f # Absent, LoadsAs(t, f),
           NEW idx \in 1 .. Len(f.items), NEW item \in Item, item.id = f.items[idx].id,
           NEW i, NEW k, Held(t, path, WithUpdated(t, f, idx, item), i, k)
    PROVE  Held(t, path, f, i, k)
<1> DEFINE g == WithUpdated(t, f, idx, item)
<1>1. Len(f.items) \in Nat /\ f.items \in Seq(Item)
    BY DEF Files, Contents
<1>2. CASE f.shape = "single"
  <2>1. g = Single(item)
      BY <1>2 DEF WithUpdated
  <2>2. g.shape = "single" /\ g.type = NoType /\ g.items[1] = item /\ Len(g.items) = 1
      BY <2>1 DEF Single
  <2>3. Held(t, path, g, i, k)
      OBVIOUS
  <2> HIDE DEF g
  <2>4. Len(f.items) = 1 /\ idx = 1
    <3>1. Len(f.items) = 1
        BY <1>2 DEF Files
    <3> QED
        BY <3>1
  <2>5. \A inc : Readable(t, inc, g) => Readable(t, inc, f)
      BY <1>2, <2>2 DEF Readable, Loads, LoadsAs, Several
  <2> QED
      BY <2>2, <2>3, <2>4, <2>5 DEF Held, KeyOf
<1>3. CASE f.shape # "single"
  <2>1. g = [f EXCEPT !.type = t, !.items[idx] = item]
      BY <1>3 DEF WithUpdated
  <2>2. g.shape = f.shape /\ g.type = t /\ g.items = [f.items EXCEPT ![idx] = item]
      BY <2>1 DEF Files, Contents
  <2>3. Held(t, path, g, i, k)
      OBVIOUS
  <2> HIDE DEF g
  <2>4. /\ Len(g.items) = Len(f.items) /\ g.items[idx] = item
        /\ \A n \in 1 .. Len(f.items) : n # idx => g.items[n] = f.items[n]
        /\ f.items # <<>>
      BY <1>1, <2>2
  <2>5. \A inc : Readable(t, inc, g) => Readable(t, inc, f)
      BY <2>2, <2>4 DEF Readable, Loads, LoadsAs, Several
  <2>6. \A n \in 1 .. Len(f.items) : KeyOf(t, path, g.items[n]) = KeyOf(t, path, f.items[n])
      BY <2>4 DEF KeyOf
  <2> QED
      BY <2>3, <2>4, <2>5, <2>6 DEF Held
<1> QED
    BY <1>2, <1>3

LEMMA DeleteHolds ==
    ASSUME NEW t \in Types, NEW path, NEW f \in Files, f # Absent, LoadsAs(t, f),
           t \in PathTypes => f.shape # "multi",
           NEW idx \in 1 .. Len(f.items), Len(f.items) # 1,
           NEW i, NEW k, Held(t, path, WithDeleted(t, f, idx), i, k)
    PROVE  /\ i \in 1 .. Len(f.items) - 1
           /\ Held(t, path, f, IF i < idx THEN i ELSE i + 1, k)
<1> DEFINE g == WithDeleted(t, f, idx)
           m == IF i < idx THEN i ELSE i + 1
<1>1. Len(f.items) \in Nat /\ f.items \in Seq(Item) /\ f.shape = "multi" /\ t \notin PathTypes
    BY DEF Files, Contents, LoadsAs
<1>2. /\ g.shape = f.shape /\ g.type = t
      /\ g.items = SubSeq(f.items, 1, idx - 1) \o SubSeq(f.items, idx + 1, Len(f.items))
    BY DEF Files, Contents, WithDeleted
<1>3. Held(t, path, g, i, k)
    OBVIOUS
<1> HIDE DEF g
<1>4. /\ Len(g.items) = Len(f.items) - 1
      /\ \A n \in 1 .. Len(f.items) - 1 : g.items[n] = f.items[IF n < idx THEN n ELSE n + 1]
    BY <1>1, <1>2, ItemRemoved
<1>5. \A inc : Readable(t, inc, g) => Readable(t, inc, f)
    BY <1>1, <1>2 DEF Readable, Loads, LoadsAs
<1>6. i \in 1 .. Len(f.items) - 1 /\ g.items[i] = f.items[m] /\ m \in 1 .. Len(f.items)
    BY <1>1, <1>3, <1>4 DEF Held
<1> HIDE DEF m
<1>7. Held(t, path, f, m, k)
    BY <1>3, <1>5, <1>6 DEF Held
<1> QED
    BY <1>6, <1>7 DEF m

(* A created object is the last in its file, the others were there.          *)
LEMMA CreateHolds ==
    ASSUME StoreTypeOK, NEW t \in Types, NEW k \in Keys[t], NEW fields \in FieldMaps,
           NEW target \in CreateTargets(t, k),
           disk[target.path] = Absent \/ LoadsAs(t, disk[target.path]),
           NEW i, NEW j, Held(t, target.path, WithCreated(t, Stored(t, k, fields), target), i, j)
    PROVE  \/ Held(t, target.path, disk[target.path], i, j)
           \/ j = k /\ i = Len(WithCreated(t, Stored(t, k, fields), target).items)
<1> DEFINE path == target.path
           f    == disk[path]
           item == Stored(t, k, fields)
           g    == WithCreated(t, item, target)
<1>1. f \in Files \cup {Absent}
    BY CreateTargetIsAFile DEF StoreTypeOK, Disks
<1>2. KeyOf(t, path, item) = k
    BY CreateTargetIsAFile DEF KeyOf, Stored
<1>3. item \in Item
    BY DEF Stored, Item, Keys
<1>4. target.multi => t \notin PathTypes
    BY DEF CreateTargets, PathTargets
<1>5. Held(t, path, g, i, j) /\ (f = Absent \/ LoadsAs(t, f))
    OBVIOUS
<1>6. CASE ~target.multi
  <2>1. g = Single(item)
      BY <1>6 DEF WithCreated
  <2>2. Len(g.items) = 1 /\ g.items[1] = item
      BY <2>1 DEF Single
  <2> QED
      BY <1>2, <1>5, <2>2 DEF Held
<1>7. CASE target.multi /\ f = Absent
  <2>1. g = [shape |-> "multi", type |-> t, items |-> <<item>>]
      BY <1>7 DEF WithCreated
  <2>2. Len(g.items) = 1 /\ g.items[1] = item
      BY <2>1
  <2> QED
      BY <1>2, <1>5, <2>2 DEF Held
<1>8. CASE target.multi /\ f # Absent /\ f.shape = "single"
  <2>1. g = [f EXCEPT !.type = t]
      BY <1>8 DEF WithCreated
  <2>2. g.items = f.items /\ g.shape = "single"
      BY <1>1, <1>8, <2>1 DEF Files, Contents
  <2> HIDE DEF g, f, path
  <2>3. \A inc : Readable(t, inc, g) => Readable(t, inc, f)
      BY <1>4, <1>5, <1>8, <2>2 DEF Readable, Loads
  <2> QED
      BY <1>5, <1>8, <2>2, <2>3 DEF Held, f, g, path
<1>9. CASE target.multi /\ f # Absent /\ f.shape # "single"
  <2>1. g = [f EXCEPT !.type = t, !.items = Append(@, item)]
      BY <1>9 DEF WithCreated
  <2>2. f.shape = "multi" /\ f.items \in Seq(Item) /\ Len(f.items) \in Nat
      BY <1>1, <1>5, <1>9 DEF LoadsAs, Files, Contents
  <2>3. g.items = Append(f.items, item) /\ g.shape = "multi"
      BY <1>1, <1>9, <2>1, <2>2 DEF Files, Contents
  <2> HIDE DEF g, item, f, path
  <2>4. /\ Len(g.items) = Len(f.items) + 1
        /\ \A n \in 1 .. Len(f.items) : g.items[n] = f.items[n]
      BY <1>3, <2>2, <2>3
  <2>5. g.items[Len(f.items) + 1] = item
      BY <1>3, <2>2, <2>3
  <2>6. CASE i = Len(g.items)
      BY <1>2, <1>5, <2>4, <2>5, <2>6 DEF Held, g, item
  <2>7. CASE i # Len(g.items)
    <3>1. i \in 1 .. Len(f.items) /\ KeyOf(t, path, f.items[i]) = j
        BY <1>5, <2>2, <2>4, <2>7 DEF Held
    <3>2. f.items # <<>>
        BY <2>2, <3>1
    <3>3. \A inc : Readable(t, inc, g) => Readable(t, inc, f)
        BY <1>4, <1>5, <1>9, <2>2, <3>2 DEF Readable, Loads
    <3>4. Held(t, path, f, i, j)
        BY <1>5, <1>9, <3>1, <3>3 DEF Held
    <3> QED
        BY <3>4 DEF f, path
  <2> QED
      BY <2>6, <2>7
<1> QED
    BY <1>6, <1>7, <1>8, <1>9

LEMMA NoneFound ==
    ASSUME NEW types, NEW k, FindInTypes(types, k) = NotFound
    PROVE  \A u \in types : FindInType(u, k) = NotFound
<1> DEFINE hits == {FindInType(u, k) : u \in types} \ {NotFound}
<1>1. CASE hits = {}
    BY <1>1
<1>2. CASE hits # {}
  <2>1. \/ FindInTypes(types, k) = Unreadable
        \/ FindInTypes(types, k) \in hits
      BY <1>2 DEF FindInTypes
  <2> QED
      BY <2>1 DEF NotFound, Unreadable
<1> QED
    BY <1>1, <1>2

(* Where create is not refused, the identifier is nowhere in the hierarchy.   *)
LEMMA NowhereYet ==
    ASSUME StoreTypeOK, NEW t \in Types, NEW k, FindInTypes(HierarchyOf[t], k) = NotFound,
           NEW t2 \in Types, t \in HierarchyOf[t2]
    PROVE  Places(t2, k) = {}
<1>1. HierarchyOf[t2] = HierarchyOf[t] /\ HierarchyOf[t] \subseteq Types
    BY TypesAssumption
<1>2. \A u \in HierarchyOf[t] : FindInType(u, k) = NotFound
    BY NoneFound
<1>3. ASSUME NEW u \in HierarchyOf[t], NEW s \in Positions(u), KeyAt(u, s) = k
      PROVE  FALSE
  <2> DEFINE stops == {x \in Positions(u) : KeyAt(u, x) \in {k, NoId}}
  <2>1. stops # {} /\ u \in Types
      BY <1>1, <1>3
  <2>2. FindInType(u, k) = IF KeyAt(u, FirstOf(stops)) = NoId THEN Unreadable
                           ELSE FoundAt(u, FirstOf(stops))
      BY <2>1, FindInTypeIsFirst
  <2>3. FindInType(u, k) # NotFound
      BY <2>2 DEF Unreadable, NotFound, FoundAt
  <2> QED
      BY <1>2, <2>3
<1> QED
    BY <1>1, <1>3 DEF Places

LEMMA CreateAddsOne ==
    ASSUME Unshared, CreatesApart, StoreTypeOK, StoreTypeOK',
           NEW t \in Types, NEW k \in Keys[t], NEW fields \in FieldMaps,
           NEW w \in CreateWrites(t, k, fields), Write(w),
           NEW t2 \in Types, NEW k2 \in Keys[t2], AtMostOne(t2, k2)
    PROVE  AtMostOne(t2, k2)'
<1>1. PICK target \in CreateTargets(t, k) :
          /\ FindInTypes(HierarchyOf[t], k) = NotFound
          /\ disk[target.path] = Absent \/ LoadsAs(t, disk[target.path])
          /\ w = [path    |-> target.path,
                  content |-> WithCreated(t, Stored(t, k, fields), target)]
    BY DEF CreateWrites
<1> DEFINE path == target.path
           g    == WithCreated(t, Stored(t, k, fields), target)
<1>2. path \in Paths /\ disk' = [disk EXCEPT ![path] = g] /\ g \in Files \cup {Absent}
    BY <1>1, CreateTargetIsAFile, CreateWritesAFile DEF Write, Written
<1>3. \A u \in Types : \A f, i, j : Held(u, path, f, i, j) => u = t
    BY DEF CreatesApart, Held
<1>4. k # NoId /\ k2 # NoId /\ HierarchyOf[t2] \subseteq Types
    BY KeysAreIds, TypesAssumption
<1>5. \A i, j : Held(t, path, g, i, j) =>
          Held(t, path, disk[path], i, j) \/ (j = k /\ i = Len(g.items))
    BY <1>1, CreateHolds
<1> HIDE DEF path, g
<1>6. CASE k2 # k \/ t \notin HierarchyOf[t2]
  <2>1. ASSUME NEW u \in HierarchyOf[t2], NEW i, Held(u, path, g, i, k2)
        PROVE  Held(u, path, disk[path], i, k2)
      BY <1>3, <1>4, <1>5, <1>6, <2>1
  <2>2. HoldsNoMore(t2, path, disk[path], g, k2)
      BY <2>1 DEF HoldsNoMore
  <2> QED
      BY <1>2, <1>4, <2>2, NoMore
<1>7. CASE k2 = k /\ t \in HierarchyOf[t2]
  <2>1. Places(t2, k) = {}
      BY <1>1, <1>7, NowhereYet
  <2>2. HeldPlaces(t2, k) /\ HeldPlaces(t2, k)'
      BY <1>4, PlacesAreHeld, PlacesAreHeldThen
  <2>3. disk'[path] = g /\ \A other \in Paths : other # path => disk'[other] = disk[other]
      BY <1>2 DEF StoreTypeOK, Disks
  <2>4. \A u \in HierarchyOf[t2], p \in Paths : \A i : ~Held(u, p, disk[p], i, k)
      BY <2>1, <2>2 DEF HeldPlaces
  <2>5. ASSUME NEW x \in Places(t2, k)'
        PROVE  x = <<t, path, Len(g.items)>>
    <3>1. PICK u \in HierarchyOf[t2], p \in Paths : \E i : x = <<u, p, i>> /\ Held(u, p, disk'[p], i, k)
        BY <2>2 DEF HeldPlaces
    <3>2. PICK i : x = <<u, p, i>> /\ Held(u, p, disk'[p], i, k)
        BY <3>1
    <3>3. p = path /\ Held(u, path, g, i, k)
        BY <2>3, <2>4, <3>2
    <3>4. u = t
        BY <1>3, <1>4, <3>3
    <3>5. i = Len(g.items)
        BY <1>2, <1>5, <2>4, <3>3, <3>4
    <3> QED
        BY <3>2, <3>3, <3>4, <3>5
  <2> QED
      BY <1>7, <2>5 DEF AtMostOne
<1> QED
    BY <1>6, <1>7

LEMMA UpdateAddsNone ==
    ASSUME Unshared, StoreTypeOK, StoreTypeOK', NEW t \in Types, NEW k,
           NEW fields \in FieldMaps, NEW merge \in BOOLEAN,
           NEW w \in UpdateWrites(t, k, fields, merge), Write(w),
           NEW t2 \in Types, NEW k2 \in Keys[t2], AtMostOne(t2, k2)
    PROVE  AtMostOne(t2, k2)'
<1>1. PICK loc \in Changeable(t, k), item \in Item :
          /\ w.path = loc.path
          /\ item.id = disk[loc.path].items[loc.index].id
          /\ w.content = WithUpdated(t, disk[loc.path], loc.index, item)
          /\ w.content \in Files
    BY UpdateIs
<1> DEFINE path == loc.path
           f    == disk[path]
           g    == w.content
<1>2. /\ path \in Paths /\ f \in Files /\ loc.index \in 1 .. Len(f.items)
      /\ \E n \in DOMAIN Includes[t] : path \in Includes[t][n].files
    BY ChangeableIsInAFile
<1>3. disk' = [disk EXCEPT ![path] = g] /\ g \in Files \cup {Absent} /\ f # Absent
    BY <1>1, <1>2, ValuesAssumption DEF Write, Files
<1>4. LoadsAs(t, f)
    BY ChangeableLoads
<1>5. \A u \in Types : \A i, j, x : Held(u, path, x, i, j) => u = t
    BY <1>2 DEF Unshared, Held
<1>6. k2 # NoId /\ HierarchyOf[t2] \subseteq Types
    BY KeysAreIds, TypesAssumption
<1>7. item.id = f.items[loc.index].id /\ g = WithUpdated(t, f, loc.index, item)
    BY <1>1
<1> HIDE DEF path, f, g
<1>8. ASSUME NEW i, Held(t, path, WithUpdated(t, f, loc.index, item), i, k2)
      PROVE  Held(t, path, f, i, k2)
    BY <1>2, <1>3, <1>4, <1>7, <1>8, UpdateHolds
<1>9. ASSUME NEW u \in HierarchyOf[t2], NEW i, Held(u, path, g, i, k2)
      PROVE  Held(u, path, disk[path], i, k2)
    BY <1>5, <1>6, <1>7, <1>8, <1>9 DEF f
<1>10. HoldsNoMore(t2, path, disk[path], g, k2)
    BY <1>9 DEF HoldsNoMore
<1>11. path \in Paths /\ k2 # NoId
    BY <1>2, <1>6
<1> QED
    BY <1>3, <1>10, <1>11, NoMore

LEMMA DeletionAddsNone ==
    ASSUME Unshared, StoreTypeOK, StoreTypeOK', NEW t \in Types, NEW k,
           NEW w \in DeleteWrites(t, k), Write(w),
           NEW t2 \in Types, NEW k2 \in Keys[t2], AtMostOne(t2, k2)
    PROVE  AtMostOne(t2, k2)'
<1>1. PICK loc \in Changeable(t, k) :
          /\ w.path = loc.path
          /\ \/ Len(disk[loc.path].items) = 1 /\ w.content = Absent
             \/ /\ Len(disk[loc.path].items) # 1
                /\ w.content = WithDeleted(t, disk[loc.path], loc.index)
                /\ w.content \in Files
    BY DeletionIs
<1> DEFINE path == loc.path
           f    == disk[path]
           idx  == loc.index
           g    == w.content
<1>2. /\ path \in Paths /\ f \in Files /\ idx \in 1 .. Len(f.items)
      /\ \E n \in DOMAIN Includes[t] : path \in Includes[t][n].files
    BY ChangeableIsInAFile
<1>3. disk' = [disk EXCEPT ![path] = g] /\ g \in Files \cup {Absent} /\ f # Absent
    BY <1>1, <1>2, ValuesAssumption DEF Write, Files
<1>4. LoadsAs(t, f) /\ (t \in PathTypes => f.shape # "multi")
    BY ChangeableLoads
<1>5. \A u \in Types : \A i, j, x : Held(u, path, x, i, j) => u = t
    BY <1>2 DEF Unshared, Held
<1>6. k2 # NoId /\ HierarchyOf[t2] \subseteq Types
    BY KeysAreIds, TypesAssumption
<1>7. g = Absent \/ (Len(f.items) # 1 /\ g = WithDeleted(t, f, idx))
    BY <1>1
<1>8. idx \in Nat
    BY <1>2
<1> HIDE DEF path, f, g, idx
<1>9. ASSUME NEW i, Held(t, path, g, i, k2)
      PROVE  i \in Nat /\ Held(t, path, f, IF i < idx THEN i ELSE i + 1, k2)
  <2>1. Len(f.items) # 1 /\ g = WithDeleted(t, f, idx)
      BY <1>7, <1>9 DEF Held
  <2>2. Held(t, path, WithDeleted(t, f, idx), i, k2)
      BY <1>9, <2>1
  <2>3. i \in 1 .. Len(f.items) - 1 /\ Held(t, path, f, IF i < idx THEN i ELSE i + 1, k2)
      BY <1>2, <1>3, <1>4, <2>1, <2>2, DeleteHolds
  <2> QED
      BY <2>3
<1>10. ASSUME NEW u \in HierarchyOf[t2], NEW i, NEW j, Held(u, path, g, i, k2), Held(u, path, g, j, k2)
       PROVE  \E a, b : /\ Held(u, path, disk[path], a, k2) /\ Held(u, path, disk[path], b, k2)
                        /\ a = b => i = j
  <2> DEFINE a == IF i < idx THEN i ELSE i + 1
             b == IF j < idx THEN j ELSE j + 1
  <2>1. u = t
      BY <1>5, <1>6, <1>10
  <2>2. Held(u, path, f, a, k2) /\ Held(u, path, f, b, k2) /\ i \in Nat /\ j \in Nat
      BY <1>9, <1>10, <2>1
  <2>3. a = b => i = j
      BY <1>8, <2>2
  <2> HIDE DEF a, b
  <2> QED
      BY <2>2, <2>3 DEF f
<1>11. HoldsNoMore(t2, path, disk[path], g, k2)
    BY <1>10 DEF HoldsNoMore
<1>12. path \in Paths /\ k2 # NoId
    BY <1>2, <1>6
<1> QED
    BY <1>3, <1>11, <1>12, NoMore

(* Whatever is in the files, when no two types share one or create in one,   *)
(* no command gives an identifier a second object in its hierarchy.          *)
THEOREM NoDuplicates == ASSUME Unshared, CreatesApart PROVE Spec => NoNewDuplicates
<1>1. StoreTypeOK /\ [Next]_storeVars =>
          [Ran' => \A t \in Types : \A k \in Keys[t] :
                       AtMostOne(t, k) => AtMostOne(t, k)']_storeVars
  <2> SUFFICES ASSUME StoreTypeOK, Next,
                      NEW t2 \in Types, NEW k2 \in Keys[t2], AtMostOne(t2, k2)
               PROVE  AtMostOne(t2, k2)'
      OBVIOUS
  <2>1. StoreTypeOK'
      BY StoreStep
  <2> PICK t \in Types : \E k \in Keys[t] :
            \/ Create(t, k)
            \/ \E merge \in BOOLEAN : Update(t, k, merge)
            \/ Delete(t, k)
            \/ RefuseCreate(t, k)
            \/ \E op \in {"update", "merge", "delete"} : RefuseChange(op, t, k)
      BY DEF Next
  <2>2. PICK k \in Keys[t] :
            \/ Create(t, k)
            \/ \E merge \in BOOLEAN : Update(t, k, merge)
            \/ Delete(t, k)
            \/ RefuseCreate(t, k)
            \/ \E op \in {"update", "merge", "delete"} : RefuseChange(op, t, k)
      OBVIOUS
  <2>3. ASSUME Create(t, k)
        PROVE  AtMostOne(t2, k2)'
    <3>1. PICK fields \in FieldMaps : \E w \in CreateWrites(t, k, fields) : Write(w)
        BY <2>3 DEF Create
    <3>2. PICK w \in CreateWrites(t, k, fields) : Write(w)
        BY <3>1
    <3> QED
        BY <2>1, <3>2, CreateAddsOne
  <2>4. ASSUME NEW merge \in BOOLEAN, Update(t, k, merge)
        PROVE  AtMostOne(t2, k2)'
    <3>1. PICK fields \in FieldMaps : \E w \in UpdateWrites(t, k, fields, merge) : Write(w)
        BY <2>4 DEF Update
    <3>2. PICK w \in UpdateWrites(t, k, fields, merge) : Write(w)
        BY <3>1
    <3> QED
        BY <2>1, <3>2, UpdateAddsNone
  <2>5. ASSUME Delete(t, k)
        PROVE  AtMostOne(t2, k2)'
    <3>1. PICK w \in DeleteWrites(t, k) : Write(w)
        BY <2>5 DEF Delete
    <3> QED
        BY <2>1, <3>1, DeletionAddsNone
  <2>6. ASSUME UNCHANGED disk
        PROVE  AtMostOne(t2, k2)'
    <3>1. HeldPlaces(t2, k2) /\ HeldPlaces(t2, k2)'
        BY <2>1, KeysAreIds, PlacesAreHeld, PlacesAreHeldThen
    <3>2. \A x : x \in Places(t2, k2)' <=> x \in Places(t2, k2)
        BY <2>6, <3>1 DEF HeldPlaces
    <3> QED
        BY <3>2 DEF AtMostOne
  <2> QED
      BY <2>2, <2>3, <2>4, <2>5, <2>6 DEF RefuseCreate, RefuseChange
<1> QED
    BY <1>1, StoreTypeCorrect, PTL DEF Spec, NoNewDuplicates

(***************************************************************************)
(* The map.  Where the files are in order, a look-up finds the one object  *)
(* there is, and what it finds is the map's; a command that rewrites a     *)
(* file changes that object only, and leaves the files in order.           *)
(***************************************************************************)
LEMMA TidyReads ==
    ASSUME NEW d, Tidy(d), NEW t \in Types, NEW n \in DOMAIN Includes[t], NEW p \in Includes[t][n].files,
           d[p] # Absent
    PROVE  /\ Readable(t, Includes[t][n], d[p])
           /\ \A i \in 1 .. Len(d[p].items) : KeyOf(t, p, d[p].items[i]) # NoId
BY DEF Tidy

LEMMA TidyHasOne ==
    ASSUME NEW d, Tidy(d), NEW t \in Types, NEW k \in Keys[t],
           NEW p \in Paths, NEW i, Held(t, p, d[p], i, k)
    PROVE  \A u \in HierarchyOf[t] :
               /\ k \notin DOMAIN Inline[u]
               /\ \A q \in Paths : \A j : Held(u, q, d[q], j, k) => u = t /\ q = p /\ j = i
<1> SUFFICES ASSUME NEW u \in HierarchyOf[t]
             PROVE  /\ k \notin DOMAIN Inline[u]
                    /\ \A q \in Paths : \A j : Held(u, q, d[q], j, k) => u = t /\ q = p /\ j = i
    OBVIOUS
<1>1. d[p] # Absent /\ i \in 1 .. Len(d[p].items)
    BY DEF Held
<1>2. \A q \in Paths : \A j : Held(u, q, d[q], j, k) => d[q] # Absent /\ j \in 1 .. Len(d[q].items)
    BY DEF Held
<1>3. /\ k \notin DOMAIN Inline[u]
      /\ \A q \in {q \in Paths : d[q] # Absent} : \A j \in 1 .. Len(d[q].items) :
            Held(u, q, d[q], j, k) => u = t /\ q = p /\ j = i
    BY <1>1 DEF Tidy
<1> QED
    BY <1>2, <1>3

(* In files that are in order a position holds an object.                    *)
LEMMA PositionHolds ==
    ASSUME Tidy(disk), NEW t \in Types, NEW s \in Positions(t)
    PROVE  /\ KeyAt(t, s) # NoId
           /\ FileAt(s) \in Paths /\ Held(t, FileAt(s), disk[FileAt(s)], s[3], KeyAt(t, s))
           /\ s[1] \in DOMAIN Includes[t] /\ FileAt(s) \in Includes[t][s[1]].files
<1>1. PICK n \in DOMAIN Includes[t], rank \in DOMAIN PathOrder :
          /\ PathOrder[rank] \in Includes[t][n].files /\ disk[PathOrder[rank]] # Absent
          /\ \E i \in Slots(t, Includes[t][n], disk[PathOrder[rank]]) : s = <<n, rank, i>>
    BY PositionsAre
<1>2. PICK i \in Slots(t, Includes[t][n], disk[PathOrder[rank]]) : s = <<n, rank, i>>
    BY <1>1
<1> DEFINE p == PathOrder[rank]
<1>3. Readable(t, Includes[t][n], disk[p]) /\ \A m \in 1 .. Len(disk[p].items) : KeyOf(t, p, disk[p].items[m]) # NoId
    BY <1>1, TidyReads
<1>4. p \in Paths /\ disk[p] \in Files
    BY <1>1, LayoutAssumption DEF Tidy, Disks
<1>5. i \in 1 .. Len(disk[p].items) /\ i # 0
    BY <1>3, <1>4 DEF Slots, Files, Contents
<1>6. KeyAt(t, s) = KeyOf(t, p, disk[p].items[i])
    BY <1>2, <1>5, KeyAtIs
<1>7. FileAt(s) = p /\ s[3] = i /\ s[1] = n
    BY <1>2 DEF FileAt
<1> HIDE DEF p
<1>8. Held(t, p, disk[p], i, KeyAt(t, s))
    BY <1>1, <1>3, <1>5, <1>6 DEF Held, p
<1> QED
    BY <1>1, <1>3, <1>4, <1>5, <1>6, <1>7, <1>8 DEF p

(* The objects no command may change: those a selector reads, and those of a *)
(* $path type outside the root.                                             *)
Locked(t, p) ==
    \/ \E n \in DOMAIN Includes[t] : p \in Includes[t][n].files /\ Includes[t][n].kind = "selector"
    \/ t \in PathTypes /\ p \notin InRoot

(* A look-up finds the object there is ...                                   *)
LEMMA FoundWhere ==
    ASSUME WellLaidOut, Tidy(disk), NEW t \in Types, NEW k \in Keys[t],
           NEW p \in Paths, NEW i, Held(t, p, disk[p], i, k)
    PROVE  /\ FindInType(t, k).status = "found"
           /\ FindInType(t, k).path = p /\ FindInType(t, k).index = i
           /\ FindInType(t, k).fields = disk[p].items[i].fields
           /\ Writable(t, FindInType(t, k)) <=> ~Locked(t, p)
<1>0. \A q \in Paths : \A j : Held(t, q, disk[q], j, k) => q = p /\ j = i
  <2>1. t \in HierarchyOf[t]
      BY TypesAssumption
  <2>2. \A u \in HierarchyOf[t] : \A q \in Paths : \A j :
            Held(u, q, disk[q], j, k) => u = t /\ q = p /\ j = i
      BY TidyHasOne
  <2> QED
      BY <2>1, <2>2
<1> DEFINE stops == {s \in Positions(t) : KeyAt(t, s) \in {k, NoId}}
           first == FirstOf(stops)
<1>1. StoreTypeOK
    BY DEF Tidy, StoreTypeOK
<1>2. stops # {}
    BY <1>1, HeldHasPosition
<1>3. first \in stops /\ FindInType(t, k) = IF KeyAt(t, first) = NoId THEN Unreadable ELSE FoundAt(t, first)
    BY <1>1, <1>2, FindInTypeIsFirst
<1> HIDE DEF first
<1>4. /\ KeyAt(t, first) = k /\ KeyAt(t, first) # NoId
      /\ FileAt(first) \in Paths /\ Held(t, FileAt(first), disk[FileAt(first)], first[3], k)
      /\ first[1] \in DOMAIN Includes[t] /\ FileAt(first) \in Includes[t][first[1]].files
    BY <1>3, PositionHolds
<1>6. FileAt(first) = p /\ first[3] = i
    BY <1>0, <1>4
<1>7. FindInType(t, k) = FoundAt(t, first)
    BY <1>3, <1>4
<1>8. /\ FoundAt(t, first).status = "found" /\ FoundAt(t, first).path = p
      /\ FoundAt(t, first).index = i /\ FoundAt(t, first).fields = disk[p].items[i].fields
      /\ FoundAt(t, first).readOnly = (Includes[t][first[1]].kind = "selector")
    BY <1>6 DEF FoundAt
<1>9. \A m, n \in DOMAIN Includes[t] :
          p \in Includes[t][m].files /\ p \in Includes[t][n].files =>
              (Includes[t][m].kind = "selector" <=> Includes[t][n].kind = "selector")
  <2> SUFFICES ASSUME NEW m \in DOMAIN Includes[t], NEW n \in DOMAIN Includes[t],
                      p \in Includes[t][m].files, p \in Includes[t][n].files
               PROVE  Includes[t][m].kind = "selector" <=> Includes[t][n].kind = "selector"
      OBVIOUS
  <2>1. Includes[t][m].files \cap Includes[t][n].files # {}
      OBVIOUS
  <2> QED
      BY <2>1 DEF WellLaidOut
<1>10. Includes[t][first[1]].kind = "selector" <=>
           \E n \in DOMAIN Includes[t] : p \in Includes[t][n].files /\ Includes[t][n].kind = "selector"
    BY <1>4, <1>6, <1>9
<1>11. Writable(t, FindInType(t, k)) <=>
           ~(Includes[t][first[1]].kind = "selector") /\ (t \in PathTypes => p \in InRoot)
    BY <1>7, <1>8 DEF Writable
<1> QED
    BY <1>7, <1>8, <1>10, <1>11 DEF Locked

(* ... and, when there is none in the files, the inline one or nothing.      *)
LEMMA NotFoundWhere ==
    ASSUME Tidy(disk), NEW t \in Types, NEW k,
           \A p \in Paths : \A i : ~Held(t, p, disk[p], i, k)
    PROVE  FindInType(t, k) = IF k \in DOMAIN Inline[t] THEN FoundInline(t, k) ELSE NotFound
<1> DEFINE stops == {s \in Positions(t) : KeyAt(t, s) \in {k, NoId}}
<1>1. StoreTypeOK
    BY DEF Tidy, StoreTypeOK
<1>2. stops = {}
    BY PositionHolds
<1> QED
    BY <1>1, <1>2, FindInTypeIsFirst

(* The file at path has f, with an object k of t that has these fields.      *)
Has(t, path, f, k, fields) == \E i : Held(t, path, f, i, k) /\ f.items[i].fields = fields

LEMMA RefsAre ==
    /\ \A ref \in Refs : \E t \in Types : \E k \in Keys[t] : ref = <<t, k>>
    /\ \A t \in Types : \A k \in Keys[t] : <<t, k>> \in Refs
BY DEF Refs

(* What the map has of an object, from what the files have.                  *)
Mapped(t, k) ==
    /\ \A p \in Paths : \A fields : Has(t, p, disk[p], k, fields) =>
           Objects[<<t, k>>] = fields /\ (<<t, k>> \in Fixed <=> Locked(t, p))
    /\ (\A p \in Paths : \A fields : ~Has(t, p, disk[p], k, fields)) =>
           IF k \in DOMAIN Inline[t]
           THEN Objects[<<t, k>>] = Inline[t][k] /\ <<t, k>> \in Fixed
           ELSE Objects[<<t, k>>] = Missing /\ <<t, k>> \notin Fixed

LEMMA ObjectIs ==
    ASSUME NEW t \in Types, NEW k \in Keys[t]
    PROVE  /\ Objects[<<t, k>>] = IF FindInType(t, k).status \in {"found", "inline"}
                                  THEN FindInType(t, k).fields ELSE Missing
           /\ <<t, k>> \in Fixed <=> /\ FindInType(t, k).status # "none"
                                     /\ ~Writable(t, FindInType(t, k))
<1>1. <<t, k>> \in Refs
    BY RefsAre
<1> QED
    BY <1>1 DEF Objects, Fixed

LEMMA MappedNow ==
    ASSUME WellLaidOut, NEW t \in Types, NEW k \in Keys[t]
    PROVE  Tidy(disk) => Mapped(t, k)
<1> SUFFICES ASSUME Tidy(disk)
             PROVE  Mapped(t, k)
    OBVIOUS
<1>1. ASSUME NEW p \in Paths, NEW fields, Has(t, p, disk[p], k, fields)
      PROVE  Objects[<<t, k>>] = fields /\ (<<t, k>> \in Fixed <=> Locked(t, p))
  <2>1. PICK i : Held(t, p, disk[p], i, k) /\ disk[p].items[i].fields = fields
      BY <1>1 DEF Has
  <2>2. /\ FindInType(t, k).status = "found" /\ FindInType(t, k).fields = fields
        /\ Writable(t, FindInType(t, k)) <=> ~Locked(t, p)
      BY <2>1, FoundWhere
  <2> QED
      BY <2>2, ObjectIs
<1>2. ASSUME \A p \in Paths : \A fields : ~Has(t, p, disk[p], k, fields)
      PROVE  IF k \in DOMAIN Inline[t]
             THEN Objects[<<t, k>>] = Inline[t][k] /\ <<t, k>> \in Fixed
             ELSE Objects[<<t, k>>] = Missing /\ <<t, k>> \notin Fixed
  <2>1. \A p \in Paths : \A i : ~Held(t, p, disk[p], i, k)
      BY <1>2 DEF Has
  <2>2. FindInType(t, k) = IF k \in DOMAIN Inline[t] THEN FoundInline(t, k) ELSE NotFound
      BY <2>1, NotFoundWhere
  <2>3. CASE k \in DOMAIN Inline[t]
    <3>1. FindInType(t, k).status = "inline" /\ FindInType(t, k).fields = Inline[t][k]
        BY <2>2, <2>3 DEF FoundInline
    <3> QED
        BY <2>3, <3>1, ObjectIs DEF Writable
  <2>4. CASE k \notin DOMAIN Inline[t]
    <3>1. FindInType(t, k).status = "none"
        BY <2>2, <2>4 DEF NotFound
    <3> QED
        BY <2>4, <3>1, ObjectIs
  <2> QED
      BY <2>3, <2>4
<1> QED
    BY <1>1, <1>2 DEF Mapped

LEMMA MappedThen ==
    ASSUME WellLaidOut, NEW t \in Types, NEW k \in Keys[t]
    PROVE  Tidy(disk)' => Mapped(t, k)'
<1>1. Tidy(disk) => Mapped(t, k)
    BY MappedNow
<1> QED
    BY <1>1, PTL

LEMMA ObjectsSet ==
    ASSUME NEW t \in Types, NEW k \in Keys[t], NEW fields,
           \A u \in Types : \A j \in Keys[u] :
               <<u, j>> # <<t, k>> => Objects'[<<u, j>>] = Objects[<<u, j>>],
           Objects'[<<t, k>>] = fields
    PROVE  Objects' = [Objects EXCEPT ![<<t, k>>] = fields]
<1>1. /\ Objects = [ref \in Refs |-> Objects[ref]]
      /\ Objects' = [ref \in Refs |-> Objects'[ref]]
    BY DEF Objects
<1>2. \A ref \in Refs : ref # <<t, k>> => Objects'[ref] = Objects[ref]
    BY RefsAre
<1> QED
    BY <1>1, <1>2

(* A file of t is rewritten, and nothing changes but, perhaps, the object k. *)
LEMMA OneObjectChanges ==
    ASSUME WellLaidOut, Tidy(disk), Tidy(disk)',
           NEW path \in Paths, NEW g, disk' = [disk EXCEPT ![path] = g],
           NEW t \in Types, NEW k \in Keys[t],
           \A u \in Types : \A f, j, fields : Has(u, path, f, j, fields) => u = t,
           \A j \in Keys[t] : j # k =>
               \A fields : Has(t, path, g, j, fields) <=> Has(t, path, disk[path], j, fields),
           \A p \in Paths : p # path => \A fields : ~Has(t, p, disk[p], k, fields),
           k \notin DOMAIN Inline[t], ~Locked(t, path)
    PROVE  /\ \A u \in Types : \A j \in Keys[u] :
                 <<u, j>> # <<t, k>> => Objects'[<<u, j>>] = Objects[<<u, j>>]
           /\ Fixed' = Fixed
           /\ \A fields : Has(t, path, g, k, fields) => Objects'[<<t, k>>] = fields
           /\ (\A fields : ~Has(t, path, g, k, fields)) => Objects'[<<t, k>>] = Missing
<1>1. disk'[path] = g /\ \A p \in Paths : p # path => disk'[p] = disk[p]
    BY DEF Tidy, Disks
<1>2. ASSUME NEW u \in Types, NEW j \in Keys[u], <<u, j>> # <<t, k>>
      PROVE  /\ Objects'[<<u, j>>] = Objects[<<u, j>>]
             /\ <<u, j>> \in Fixed' <=> <<u, j>> \in Fixed
  <2>1. Mapped(u, j) /\ Mapped(u, j)'
      BY MappedNow, MappedThen
  <2>2. \A p \in Paths : \A fields : Has(u, p, disk'[p], j, fields) <=> Has(u, p, disk[p], j, fields)
    <3> SUFFICES ASSUME NEW p \in Paths, NEW fields
                 PROVE  Has(u, p, disk'[p], j, fields) <=> Has(u, p, disk[p], j, fields)
        OBVIOUS
    <3>1. CASE p # path
        BY <1>1, <3>1
    <3>2. CASE p = path /\ u # t
        BY <3>2
    <3>3. CASE p = path /\ u = t
        BY <1>1, <1>2, <3>3
    <3> QED
        BY <3>1, <3>2, <3>3
  <2>3. CASE \E p \in Paths : \E fields : Has(u, p, disk[p], j, fields)
      BY <2>1, <2>2, <2>3 DEF Mapped
  <2>4. CASE \A p \in Paths : \A fields : ~Has(u, p, disk[p], j, fields)
    <3>1. \A p \in Paths : \A fields : ~Has(u, p, disk'[p], j, fields)
        BY <2>2, <2>4
    <3> QED
        BY <2>1, <2>4, <3>1 DEF Mapped
  <2> QED
      BY <2>3, <2>4
<1>3. Mapped(t, k) /\ Mapped(t, k)'
    BY MappedNow, MappedThen
<1>4. \A p \in Paths : p # path => \A fields : ~Has(t, p, disk'[p], k, fields)
    BY <1>1
<1>5. /\ \A fields : Has(t, path, g, k, fields) => Objects'[<<t, k>>] = fields
      /\ (\A fields : ~Has(t, path, g, k, fields)) => Objects'[<<t, k>>] = Missing
      /\ <<t, k>> \notin Fixed'
  <2>1. CASE \E fields : Has(t, path, g, k, fields)
      BY <1>1, <1>3, <2>1 DEF Mapped
  <2>2. CASE \A fields : ~Has(t, path, g, k, fields)
    <3>1. \A p \in Paths : \A fields : ~Has(t, p, disk'[p], k, fields)
        BY <1>1, <1>4, <2>2
    <3> QED
        BY <1>3, <2>2, <3>1 DEF Mapped
  <2> QED
      BY <2>1, <2>2
<1>6. <<t, k>> \notin Fixed
  <2>1. CASE \E fields : Has(t, path, disk[path], k, fields)
      BY <1>3, <2>1 DEF Mapped
  <2>2. CASE \A fields : ~Has(t, path, disk[path], k, fields)
    <3>1. \A p \in Paths : \A fields : ~Has(t, p, disk[p], k, fields)
        BY <2>2
    <3> QED
        BY <1>3, <3>1 DEF Mapped
  <2> QED
      BY <2>1, <2>2
<1>7. Fixed' = Fixed
  <2>1. Fixed \subseteq Refs /\ Fixed' \subseteq Refs
      BY DEF Fixed
  <2>2. \A ref \in Refs : ref \in Fixed' <=> ref \in Fixed
      BY <1>2, <1>5, <1>6, RefsAre
  <2> QED
      BY <2>1, <2>2
<1> QED
    BY <1>2, <1>5, <1>7

(* No identifier names two objects, as the two ways to say it agree.         *)
LEMMA TidyIsUnique ==
    ASSUME Tidy(disk), NEW t \in Types, NEW k \in Keys[t]
    PROVE  AtMostOne(t, k)
<1>1. HeldPlaces(t, k)
    BY KeysAreIds, PlacesAreHeld DEF Tidy, StoreTypeOK
<1>2. \A u \in HierarchyOf[t] : u \in Types /\ HierarchyOf[u] = HierarchyOf[t] /\ Keys[u] = Keys[t]
    BY TypesAssumption DEF Keys
<1> SUFFICES ASSUME NEW x \in Places(t, k), NEW y \in Places(t, k)
             PROVE  x = y
    BY DEF AtMostOne
<1>3. PICK u \in HierarchyOf[t], p \in Paths : \E i : x = <<u, p, i>> /\ Held(u, p, disk[p], i, k)
    BY <1>1 DEF HeldPlaces
<1>4. PICK i : x = <<u, p, i>> /\ Held(u, p, disk[p], i, k)
    BY <1>3
<1>5. PICK w \in HierarchyOf[t], q \in Paths : \E j : y = <<w, q, j>> /\ Held(w, q, disk[q], j, k)
    BY <1>1 DEF HeldPlaces
<1>6. PICK j : y = <<w, q, j>> /\ Held(w, q, disk[q], j, k)
    BY <1>5
<1>7. u \in Types /\ k \in Keys[u] /\ w \in HierarchyOf[u]
    BY <1>2
<1>8. w = u /\ q = p /\ j = i
    BY <1>4, <1>6, <1>7, TidyHasOne
<1> QED
    BY <1>4, <1>6, <1>8

LEMMA UniqueThen ==
    ASSUME StoreTypeOK', NEW t \in Types, NEW k \in Keys[t], AtMostOne(t, k)',
           NEW p \in Paths, NEW i, Held(t, p, disk'[p], i, k)
    PROVE  \A u \in HierarchyOf[t] : \A q \in Paths : \A j :
               Held(u, q, disk'[q], j, k) => u = t /\ q = p /\ j = i
<1>1. HeldPlaces(t, k)'
    BY KeysAreIds, PlacesAreHeldThen
<1>2. t \in HierarchyOf[t]
    BY TypesAssumption
<1> SUFFICES ASSUME NEW u \in HierarchyOf[t], NEW q \in Paths, NEW j, Held(u, q, disk'[q], j, k)
             PROVE  u = t /\ q = p /\ j = i
    OBVIOUS
<1>3. <<t, p, i>> \in Places(t, k)' /\ <<u, q, j>> \in Places(t, k)'
    BY <1>1, <1>2 DEF HeldPlaces
<1>4. <<t, p, i>> = <<u, q, j>>
    BY <1>3 DEF AtMostOne
<1> QED
    BY <1>4

LEMMA OpenAreKeys == ASSUME NEW t \in Types, NEW k \in Open(t) PROVE k \in Keys[t]
BY DEF Open

(* A rewritten file leaves the files in order if what is in it is.           *)
LEMMA TidyAfter ==
    ASSUME WellLaidOut, Tidy(disk), NEW path \in Paths, NEW g \in Files \cup {Absent},
           disk' = [disk EXCEPT ![path] = g], NEW t \in Types,
           \A u \in Types : \A n \in DOMAIN Includes[u] : path \in Includes[u][n].files => u = t,
           \A u \in Types : \A k \in Keys[u] : AtMostOne(u, k)',
           g # Absent => \A n \in DOMAIN Includes[t] : path \in Includes[t][n].files =>
               /\ Readable(t, Includes[t][n], g)
               /\ \A i \in 1 .. Len(g.items) : KeyOf(t, path, g.items[i]) # NoId,
           \A k \in Keys[t] : \A i : Held(t, path, g, i, k) =>
               \A u \in HierarchyOf[t] : k \notin DOMAIN Inline[u],
           g # Absent => \A k \in Open(t) : \A target \in CreateTargets(t, k) : target.path = path =>
               IF target.multi THEN g.shape = "multi"
               ELSE \A i \in 1 .. Len(g.items) : KeyOf(t, path, g.items[i]) = k
    PROVE  Tidy(disk)'
<1>1. disk'[path] = g /\ \A p \in Paths : p # path => disk'[p] = disk[p]
    BY DEF Tidy, Disks
<1>2. disk' \in Disks
    BY DEF Tidy, Disks
<1>3. \A u \in Types : \A i, k, f : Held(u, path, f, i, k) => u = t
    BY DEF Held
<1>4. ASSUME NEW u \in Types, NEW n \in DOMAIN Includes[u], NEW p \in Includes[u][n].files,
             disk'[p] # Absent
      PROVE  /\ Readable(u, Includes[u][n], disk'[p])
             /\ \A i \in 1 .. Len(disk'[p].items) : KeyOf(u, p, disk'[p].items[i]) # NoId
  <2>0. Includes[u][n] \in Include
      BY LayoutAssumption
  <2>1. p \in Paths
      BY <2>0 DEF Include
  <2>2. CASE p = path
    <3>1. u = t
        BY <2>2
    <3>2. disk'[p] = g
        BY <1>1, <2>2
    <3> QED
        BY <1>4, <2>2, <3>1, <3>2
  <2>3. CASE p # path
    <3>1. disk'[p] = disk[p]
        BY <1>1, <2>1, <2>3
    <3> QED
        BY <1>4, <3>1, TidyReads
  <2> QED
      BY <2>2, <2>3
<1>5. ASSUME NEW u \in Types, NEW v \in HierarchyOf[u], NEW k \in Keys[u],
             NEW p \in Paths, NEW i, Held(u, p, disk'[p], i, k)
      PROVE  /\ k \notin DOMAIN Inline[v]
             /\ \A q \in Paths : \A j : Held(v, q, disk'[q], j, k) => v = u /\ q = p /\ j = i
  <2>1. StoreTypeOK'
      BY <1>2 DEF StoreTypeOK
  <2>2. AtMostOne(u, k)'
      OBVIOUS
  <2>3. \A q \in Paths : \A j : Held(v, q, disk'[q], j, k) => v = u /\ q = p /\ j = i
      BY <1>5, <2>1, <2>2, UniqueThen
  <2>4. CASE p = path
    <3>1. u = t
        BY <1>3, <1>5, <2>4
    <3>2. Held(t, path, g, i, k)
        BY <1>1, <1>5, <2>4, <3>1
    <3> QED
        BY <2>3, <3>1, <3>2
  <2>5. CASE p # path
    <3>1. Held(u, p, disk[p], i, k)
        BY <1>1, <1>5, <2>5
    <3>2. \A x \in HierarchyOf[u] : k \notin DOMAIN Inline[x]
        BY <3>1, TidyHasOne
    <3> QED
        BY <2>3, <3>2
  <2> QED
      BY <2>4, <2>5
<1>6. ASSUME NEW u \in Types, NEW k \in Open(u), NEW target \in CreateTargets(u, k),
             disk'[target.path] # Absent
      PROVE  IF target.multi THEN disk'[target.path].shape = "multi"
             ELSE \A i \in 1 .. Len(disk'[target.path].items) :
                      KeyOf(u, target.path, disk'[target.path].items[i]) = k
  <2>1. target.path \in Paths
      BY OpenAreKeys, CreateTargetIsAFile
  <2>2. CASE target.path = path
    <3>1. PICK n \in WritableIncludes(u) : path \in Includes[u][n].files
        BY <2>2 DEF WellLaidOut
    <3>2. u = t
        BY <3>1 DEF WritableIncludes
    <3>3. disk'[target.path] = g /\ g # Absent
        BY <1>1, <1>6, <2>2
    <3> QED
        BY <2>2, <3>2, <3>3
  <2>3. CASE target.path # path
    <3>1. disk'[target.path] = disk[target.path]
        BY <1>1, <2>1, <2>3
    <3> QED
        BY <1>6, <3>1 DEF Tidy
  <2> QED
      BY <2>2, <2>3
<1>7. ASSUME NEW u \in Types, NEW v \in HierarchyOf[u], NEW k \in Keys[u],
             NEW p \in {p \in Paths : disk'[p] # Absent}, NEW i \in 1 .. Len(disk'[p].items),
             Held(u, p, disk'[p], i, k)
      PROVE  /\ k \notin DOMAIN Inline[v]
             /\ \A q \in {q \in Paths : disk'[q] # Absent} : \A j \in 1 .. Len(disk'[q].items) :
                   Held(v, q, disk'[q], j, k) => v = u /\ q = p /\ j = i
  <2>1. p \in Paths
      OBVIOUS
  <2> QED
      BY <1>5, <1>7, <2>1
<1> QED
    BY <1>2, <1>4, <1>6, <1>7 DEF Tidy

(* The object a command may change: the only one of its name, and the map's. *)
IsTheObject(t, k, loc) ==
    /\ loc.path \in Paths /\ disk[loc.path] \in Files /\ disk[loc.path] # Absent
    /\ LoadsAs(t, disk[loc.path]) /\ (t \in PathTypes => disk[loc.path].shape # "multi")
    /\ loc.index \in 1 .. Len(disk[loc.path].items)
    /\ KeyOf(t, loc.path, disk[loc.path].items[loc.index]) = k /\ k # NoId
    /\ \A p \in Paths : \A i : Held(t, p, disk[p], i, k) <=> p = loc.path /\ i = loc.index
    /\ \A u \in Types : \A n \in DOMAIN Includes[u] : loc.path \in Includes[u][n].files => u = t
    /\ \A u \in HierarchyOf[t] : k \notin DOMAIN Inline[u]
    /\ ~Locked(t, loc.path) /\ loc.path \in DerivesAt[t]
    /\ Objects[<<t, k>>] = disk[loc.path].items[loc.index].fields
    /\ Objects[<<t, k>>] # Missing /\ <<t, k>> \notin Fixed

LEMMA ChangeableIs ==
    ASSUME WellLaidOut, Tidy(disk), NEW t \in Types, NEW k \in Keys[t], NEW loc \in Changeable(t, k)
    PROVE  IsTheObject(t, k, loc)
<1> DEFINE path == loc.path
           f    == disk[path]
<1>1. StoreTypeOK
    BY DEF Tidy, StoreTypeOK
<1>2. /\ loc = FindInType(t, k)
      /\ path \in Paths /\ f \in Files
      /\ loc.index \in 1 .. Len(f.items)
      /\ k = IF t \in PathTypes THEN path ELSE f.items[loc.index].id
      /\ \E n \in DOMAIN Includes[t] : path \in Includes[t][n].files
    BY <1>1, ChangeableIsInAFile
<1>3. f # Absent
    BY <1>2, ValuesAssumption DEF Files
<1>4. LoadsAs(t, f) /\ (t \in PathTypes => f.shape # "multi")
    BY <1>1, ChangeableLoads
<1>5. PICK n \in DOMAIN Includes[t] : path \in Includes[t][n].files
    BY <1>2
<1>6. KeyOf(t, path, f.items[loc.index]) = k /\ k # NoId
    BY <1>2, KeysAreIds DEF KeyOf
<1>7. Readable(t, Includes[t][n], f)
    BY <1>3, <1>5, TidyReads
<1>8. Held(t, path, f, loc.index, k)
    BY <1>2, <1>3, <1>5, <1>6, <1>7 DEF Held
<1>9. \A u \in HierarchyOf[t] :
          /\ k \notin DOMAIN Inline[u]
          /\ \A q \in Paths : \A j : Held(u, q, disk[q], j, k) => u = t /\ q = path /\ j = loc.index
    BY <1>2, <1>8, TidyHasOne
<1>10. t \in HierarchyOf[t]
    BY TypesAssumption
<1>11. \A p \in Paths : \A i : Held(t, p, disk[p], i, k) <=> p = path /\ i = loc.index
    BY <1>8, <1>9, <1>10
<1>12. \A u \in Types : \A m \in DOMAIN Includes[u] : path \in Includes[u][m].files => u = t
    BY <1>5 DEF WellLaidOut, Unshared
<1>13. Writable(t, loc)
    BY DEF Changeable
<1>14. ~Locked(t, path)
    BY <1>2, <1>8, <1>13, FoundWhere
<1>15. path \in DerivesAt[t]
    BY <1>5 DEF WellLaidOut
<1>16. Objects[<<t, k>>] = f.items[loc.index].fields /\ <<t, k>> \notin Fixed
  <2>1. Mapped(t, k)
      BY MappedNow
  <2>2. Has(t, path, disk[path], k, f.items[loc.index].fields)
      BY <1>8 DEF Has
  <2> QED
      BY <1>2, <1>14, <2>1, <2>2 DEF Mapped
<1>17. f.items[loc.index].fields # Missing
  <2>1. f.items \in Seq(Item)
      BY <1>2 DEF Files, Contents
  <2> HIDE DEF f
  <2>2. f.items[loc.index] \in Item
      BY <1>2, <2>1
  <2>3. f.items[loc.index].fields \in FieldMaps
      BY <2>2 DEF Item
  <2> QED
      BY <2>3, ValuesAssumption
<1> QED
    BY <1>2, <1>3, <1>4, <1>6, <1>9, <1>11, <1>12, <1>14, <1>15, <1>16, <1>17
    DEF IsTheObject

(* An update changes the fields of its object.                               *)
HasUpdated(t, path, f, g, idx, item) ==
    /\ Len(g.items) = Len(f.items) /\ g.shape = f.shape
    /\ g.items[idx] = item
    /\ \A i \in 1 .. Len(f.items) : i # idx => g.items[i] = f.items[i]
    /\ \A i \in 1 .. Len(f.items) : KeyOf(t, path, g.items[i]) = KeyOf(t, path, f.items[i])
    /\ \A inc : Readable(t, inc, f) => Readable(t, inc, g)
    /\ g # Absent => \A i, j : Held(t, path, g, i, j) <=> Held(t, path, f, i, j)

LEMMA UpdateHas ==
    ASSUME NEW t \in Types, NEW path, NEW f \in Files, f # Absent, LoadsAs(t, f),
           NEW idx \in 1 .. Len(f.items), NEW item \in Item, item.id = f.items[idx].id,
           KeyOf(t, path, f.items[idx]) # NoId
    PROVE  HasUpdated(t, path, f, WithUpdated(t, f, idx, item), idx, item)
<1> DEFINE g == WithUpdated(t, f, idx, item)
<1>1. Len(f.items) \in Nat /\ f.items \in Seq(Item)
    BY DEF Files, Contents
<1>2. /\ Len(g.items) = Len(f.items) /\ g.shape = f.shape
      /\ g.items[idx] = item
      /\ \A i \in 1 .. Len(f.items) : i # idx => g.items[i] = f.items[i]
  <2>1. CASE f.shape = "single"
    <3>1. Len(f.items) = 1
        BY <2>1 DEF Files
    <3>2. idx = 1
        BY <3>1
    <3> QED
        BY <2>1, <3>1, <3>2 DEF WithUpdated, Single
  <2>2. CASE f.shape # "single"
    <3>1. g = [f EXCEPT !.type = t, !.items[idx] = item]
        BY <2>2 DEF WithUpdated
    <3>2. g.shape = f.shape /\ g.items = [f.items EXCEPT ![idx] = item]
        BY <3>1 DEF Files, Contents
    <3> HIDE DEF g
    <3> QED
        BY <1>1, <3>2
  <2> QED
      BY <2>1, <2>2
<1>3. \A i \in 1 .. Len(f.items) : KeyOf(t, path, g.items[i]) = KeyOf(t, path, f.items[i])
    BY <1>2 DEF KeyOf
<1>4. NoId # KeyOf(t, path, f.items[idx])
    OBVIOUS
<1>5. \A inc : Readable(t, inc, f) => Readable(t, inc, g)
    BY <1>4, UpdateKeeps
<1>6. \A i, j : Held(t, path, g, i, j) => Held(t, path, f, i, j)
    BY UpdateHolds
<1> HIDE DEF g
<1>7. ASSUME g # Absent, NEW i, NEW j, Held(t, path, f, i, j)
      PROVE  Held(t, path, g, i, j)
  <2>1. PICK n \in DOMAIN Includes[t] : path \in Includes[t][n].files /\ Readable(t, Includes[t][n], f)
      BY <1>7 DEF Held
  <2>2. Readable(t, Includes[t][n], g)
      BY <1>5, <2>1
  <2>3. i \in 1 .. Len(g.items) /\ KeyOf(t, path, g.items[i]) = j
      BY <1>2, <1>3, <1>7 DEF Held
  <2> QED
      BY <1>7, <2>1, <2>2, <2>3 DEF Held
<1> QED
    BY <1>2, <1>3, <1>5, <1>6, <1>7 DEF g, HasUpdated

(* The object after an update, or a merge.                                   *)
Revised(old, fields, merge) == IF merge THEN MergeMaps(old, fields) ELSE fields

LEMMA UpdatesOneObject ==
    ASSUME WellLaidOut, Tidy(disk), NEW t \in Types, NEW k \in Keys[t],
           NEW fields \in FieldMaps, NEW merge \in BOOLEAN,
           NEW w \in UpdateWrites(t, k, fields, merge), Write(w)
    PROVE  /\ Tidy(disk)'
           /\ Objects[<<t, k>>] # Missing /\ <<t, k>> \notin Fixed
           /\ Objects' = [Objects EXCEPT ![<<t, k>>] = Revised(Objects[<<t, k>>], fields, merge)]
           /\ Fixed' = Fixed
           /\ w.path \in DerivesAt[t]
<1>1. PICK loc \in Changeable(t, k) :
          w = [path    |-> loc.path,
               content |-> WithUpdated(t, disk[loc.path], loc.index,
                                       Updated(disk[loc.path], loc.index, fields, merge))]
    BY DEF UpdateWrites
<1> DEFINE path == loc.path
           f    == disk[path]
           idx  == loc.index
           item == Updated(f, idx, fields, merge)
           g    == WithUpdated(t, f, idx, item)
<1>2. /\ path \in Paths /\ f \in Files /\ f # Absent
      /\ LoadsAs(t, f) /\ idx \in 1 .. Len(f.items)
      /\ KeyOf(t, path, f.items[idx]) = k /\ k # NoId
      /\ \A p \in Paths : \A i : Held(t, p, disk[p], i, k) <=> p = path /\ i = idx
      /\ \A u \in Types : \A n \in DOMAIN Includes[u] : path \in Includes[u][n].files => u = t
      /\ \A u \in HierarchyOf[t] : k \notin DOMAIN Inline[u]
      /\ ~Locked(t, path) /\ path \in DerivesAt[t]
      /\ Objects[<<t, k>>] = f.items[idx].fields
      /\ Objects[<<t, k>>] # Missing /\ <<t, k>> \notin Fixed
  <2>1. IsTheObject(t, k, loc)
      BY ChangeableIs
  <2> QED
      BY <2>1 DEF IsTheObject
<1>3. StoreTypeOK
    BY DEF Tidy, StoreTypeOK
<1>4. g \in Files /\ w.path = path /\ w.content = g
    BY <1>1, <1>3, UpdateWritesAFile DEF Written
<1>5. g # Absent
    BY <1>4, ValuesAssumption DEF Files
<1>6. disk' = [disk EXCEPT ![path] = g]
    BY <1>4 DEF Write
<1>7. f.items[idx] \in Item
  <2>1. f.items \in Seq(Item)
      BY <1>2 DEF Files, Contents
  <2> HIDE DEF f
  <2> QED
      BY <1>2, <2>1
<1>8. /\ item \in Item /\ item.id = f.items[idx].id
      /\ item.fields = Revised(Objects[<<t, k>>], fields, merge)
  <2> DEFINE old == f.items[idx]
  <2>1. old \in Item /\ old.fields = Objects[<<t, k>>]
      BY <1>2, <1>7
  <2>2. item = [old EXCEPT !.fields = IF merge THEN MergeMaps(@, fields) ELSE fields]
      BY DEF Updated
  <2>3. MergeMaps(old.fields, fields) \in FieldMaps
      BY <2>1 DEF MergeMaps, Item, FieldMaps
  <2> HIDE DEF old, item
  <2>4. item \in Item /\ item.id = old.id /\ item.fields = IF merge THEN MergeMaps(old.fields, fields) ELSE fields
      BY <2>1, <2>2, <2>3 DEF Item
  <2> QED
      BY <2>1, <2>4 DEF Revised, old
<1> HIDE DEF item, f, path, idx
<1>9. /\ Len(g.items) = Len(f.items) /\ g.shape = f.shape
      /\ g.items[idx] = item
      /\ \A i \in 1 .. Len(f.items) : i # idx => g.items[i] = f.items[i]
      /\ \A i \in 1 .. Len(f.items) : KeyOf(t, path, g.items[i]) = KeyOf(t, path, f.items[i])
      /\ \A inc : Readable(t, inc, f) => Readable(t, inc, g)
      /\ \A i, j : Held(t, path, g, i, j) <=> Held(t, path, f, i, j)
  <2>1. HasUpdated(t, path, f, g, idx, item)
      BY <1>2, <1>8, UpdateHas
  <2> QED
      BY <1>5, <2>1 DEF HasUpdated
<1> HIDE DEF g
<1>10. StoreTypeOK'
    BY <1>2, <1>3, <1>4, <1>6 DEF StoreTypeOK, Disks
<1>11. Tidy(disk)'
  <2>1. \A u \in Types : \A j \in Keys[u] : AtMostOne(u, j)'
    <3>1. Unshared
        BY DEF WellLaidOut
    <3>2. \A u \in Types : \A j \in Keys[u] : AtMostOne(u, j)
        BY TidyIsUnique
    <3> QED
        BY <1>3, <1>10, <3>1, <3>2, UpdateAddsNone
  <2>2. \A n \in DOMAIN Includes[t] : path \in Includes[t][n].files =>
            /\ Readable(t, Includes[t][n], f)
            /\ \A i \in 1 .. Len(f.items) : KeyOf(t, path, f.items[i]) # NoId
      BY <1>2, TidyReads DEF f
  <2>3. \A n \in DOMAIN Includes[t] : path \in Includes[t][n].files =>
            /\ Readable(t, Includes[t][n], g)
            /\ \A i \in 1 .. Len(g.items) : KeyOf(t, path, g.items[i]) # NoId
      BY <1>9, <2>2
  <2>4. \A j \in Keys[t] : \A i : Held(t, path, g, i, j) =>
            \A u \in HierarchyOf[t] : j \notin DOMAIN Inline[u]
    <3>1. \A j \in Keys[t] : \A i : Held(t, path, f, i, j) =>
              \A u \in HierarchyOf[t] : j \notin DOMAIN Inline[u]
        BY <1>2, TidyHasOne DEF f
    <3> QED
        BY <1>9, <3>1
  <2>5. \A j \in Open(t) : \A target \in CreateTargets(t, j) : target.path = path =>
            IF target.multi THEN g.shape = "multi"
            ELSE \A i \in 1 .. Len(g.items) : KeyOf(t, path, g.items[i]) = j
    <3>1. \A j \in Open(t) : \A target \in CreateTargets(t, j) : target.path = path =>
              IF target.multi THEN f.shape = "multi"
              ELSE \A i \in 1 .. Len(f.items) : KeyOf(t, path, f.items[i]) = j
        BY <1>2 DEF Tidy, f
    <3> QED
        BY <1>9, <3>1
  <2>6. g \in Files \cup {Absent}
      BY <1>4
  <2> QED
      BY <1>2, <1>6, <2>1, <2>3, <2>4, <2>5, <2>6, TidyAfter
<1>12. /\ \A u \in Types : \A j \in Keys[u] :
              <<u, j>> # <<t, k>> => Objects'[<<u, j>>] = Objects[<<u, j>>]
       /\ Fixed' = Fixed
       /\ \A x : Has(t, path, g, k, x) => Objects'[<<t, k>>] = x
  <2>1. \A u \in Types : \A c, j, x : Has(u, path, c, j, x) => u = t
      BY <1>2 DEF Has, Held
  <2>2. \A j \in Keys[t] : j # k => \A x : Has(t, path, g, j, x) <=> Has(t, path, disk[path], j, x)
    <3> SUFFICES ASSUME NEW j \in Keys[t], j # k, NEW x
                 PROVE  Has(t, path, g, j, x) <=> Has(t, path, f, j, x)
        BY DEF f
    <3>1. \A i : Held(t, path, f, i, j) => i \in 1 .. Len(f.items) /\ i # idx
        BY <1>2 DEF Held, f
    <3>2. \A i : Held(t, path, f, i, j) => g.items[i] = f.items[i]
        BY <1>9, <3>1
    <3> QED
        BY <1>9, <3>2 DEF Has
  <2>3. \A p \in Paths : p # path => \A x : ~Has(t, p, disk[p], k, x)
      BY <1>2 DEF Has
  <2>4. k \notin DOMAIN Inline[t]
      BY <1>2, TypesAssumption
  <2>5. path \in Paths /\ ~Locked(t, path)
      BY <1>2
  <2> QED
      BY <1>6, <1>11, <2>1, <2>2, <2>3, <2>4, <2>5, OneObjectChanges
<1>13. Objects'[<<t, k>>] = Revised(Objects[<<t, k>>], fields, merge)
  <2>1. Held(t, path, f, idx, k)
      BY <1>2 DEF f
  <2>2. Has(t, path, g, k, item.fields)
      BY <1>9, <2>1 DEF Has
  <2> QED
      BY <1>8, <1>12, <2>2
<1>14. Objects' = [Objects EXCEPT ![<<t, k>>] = Revised(Objects[<<t, k>>], fields, merge)]
    BY <1>12, <1>13, ObjectsSet
<1> QED
    BY <1>2, <1>4, <1>11, <1>12, <1>14

(* A deletion removes its object, or the file with it.                       *)
HasDeleted(t, path, f, g, idx) ==
    /\ g.shape = f.shape
    /\ \A i \in 1 .. Len(g.items) : \E m \in 1 .. Len(f.items) : g.items[i] = f.items[m]
    /\ \A inc : Readable(t, inc, f) => Readable(t, inc, g)
    /\ \A i, j : Held(t, path, g, i, j) =>
           \E m : m # idx /\ Held(t, path, f, m, j) /\ g.items[i] = f.items[m]
    /\ g # Absent => \A m, j : m # idx /\ Held(t, path, f, m, j) =>
           \E i : Held(t, path, g, i, j) /\ g.items[i] = f.items[m]

LEMMA DeleteHas ==
    ASSUME NEW t \in Types, NEW path, NEW f \in Files, f # Absent, LoadsAs(t, f),
           t \in PathTypes => f.shape # "multi",
           NEW idx \in 1 .. Len(f.items), Len(f.items) # 1, KeyOf(t, path, f.items[idx]) # NoId
    PROVE  HasDeleted(t, path, f, WithDeleted(t, f, idx), idx)
<1> DEFINE g == WithDeleted(t, f, idx)
<1>1. Len(f.items) \in Nat /\ f.items \in Seq(Item) /\ idx \in Nat
    BY DEF Files, Contents
<1>2. /\ g.shape = f.shape
      /\ g.items = SubSeq(f.items, 1, idx - 1) \o SubSeq(f.items, idx + 1, Len(f.items))
    BY DEF Files, Contents, WithDeleted
<1>3. \A i, j : Held(t, path, g, i, j) =>
          /\ i \in 1 .. Len(f.items) - 1
          /\ Held(t, path, f, IF i < idx THEN i ELSE i + 1, j)
    BY DeleteHolds
<1>4. NoId # KeyOf(t, path, f.items[idx])
    OBVIOUS
<1>5. \A inc : Readable(t, inc, f) => Readable(t, inc, g)
    BY <1>4, DeleteKeeps
<1> HIDE DEF g
<1>6. /\ Len(g.items) = Len(f.items) - 1
      /\ \A n \in 1 .. Len(f.items) - 1 : g.items[n] = f.items[IF n < idx THEN n ELSE n + 1]
    BY <1>1, <1>2, ItemRemoved
<1>7. \A i \in 1 .. Len(g.items) : \E m \in 1 .. Len(f.items) : g.items[i] = f.items[m]
  <2> SUFFICES ASSUME NEW i \in 1 .. Len(g.items)
               PROVE  \E m \in 1 .. Len(f.items) : g.items[i] = f.items[m]
      OBVIOUS
  <2>1. (IF i < idx THEN i ELSE i + 1) \in 1 .. Len(f.items) /\ i \in 1 .. Len(f.items) - 1
      BY <1>1, <1>6
  <2> QED
      BY <1>6, <2>1
<1>8. ASSUME NEW i, NEW j, Held(t, path, g, i, j)
      PROVE  \E m : m # idx /\ Held(t, path, f, m, j) /\ g.items[i] = f.items[m]
  <2> DEFINE m == IF i < idx THEN i ELSE i + 1
  <2>1. i \in 1 .. Len(f.items) - 1 /\ Held(t, path, f, m, j)
      BY <1>3, <1>8
  <2>2. m # idx
      BY <1>1, <2>1
  <2>3. g.items[i] = f.items[m]
      BY <1>6, <2>1
  <2> QED
      BY <2>1, <2>2, <2>3
<1>9. ASSUME g # Absent, NEW m, NEW j, m # idx, Held(t, path, f, m, j)
      PROVE  \E i : Held(t, path, g, i, j) /\ g.items[i] = f.items[m]
  <2> DEFINE i == IF m < idx THEN m ELSE m - 1
  <2>1. m \in 1 .. Len(f.items) /\ KeyOf(t, path, f.items[m]) = j
      BY <1>9 DEF Held
  <2>2. i \in 1 .. Len(f.items) - 1 /\ (IF i < idx THEN i ELSE i + 1) = m
      BY <1>1, <1>9, <2>1
  <2> HIDE DEF i
  <2>3. g.items[i] = f.items[m] /\ i \in 1 .. Len(g.items)
      BY <1>6, <2>2
  <2>4. PICK n \in DOMAIN Includes[t] : path \in Includes[t][n].files /\ Readable(t, Includes[t][n], f)
      BY <1>9 DEF Held
  <2>5. Readable(t, Includes[t][n], g)
      BY <1>5, <2>4
  <2>6. Held(t, path, g, i, j)
      BY <1>9, <2>1, <2>3, <2>4, <2>5 DEF Held
  <2> QED
      BY <2>3, <2>6
<1> QED
    BY <1>2, <1>5, <1>7, <1>8, <1>9 DEF g, HasDeleted

LEMMA DeletesOneObject ==
    ASSUME WellLaidOut, Tidy(disk), NEW t \in Types, NEW k \in Keys[t],
           NEW w \in DeleteWrites(t, k), Write(w)
    PROVE  /\ Tidy(disk)'
           /\ Objects[<<t, k>>] # Missing /\ <<t, k>> \notin Fixed
           /\ Objects' = [Objects EXCEPT ![<<t, k>>] = Missing]
           /\ Fixed' = Fixed
<1>1. StoreTypeOK
    BY DEF Tidy, StoreTypeOK
<1>2. PICK loc \in Changeable(t, k) :
          /\ w.path = loc.path
          /\ \/ Len(disk[loc.path].items) = 1 /\ w.content = Absent
             \/ /\ Len(disk[loc.path].items) # 1
                /\ w.content = WithDeleted(t, disk[loc.path], loc.index)
                /\ w.content \in Files
    BY <1>1, DeletionIs
<1> DEFINE path == loc.path
           f    == disk[path]
           idx  == loc.index
           g    == w.content
<1>3. /\ path \in Paths /\ f \in Files /\ f # Absent
      /\ LoadsAs(t, f) /\ (t \in PathTypes => f.shape # "multi") /\ idx \in 1 .. Len(f.items)
      /\ KeyOf(t, path, f.items[idx]) = k /\ k # NoId
      /\ \A p \in Paths : \A i : Held(t, p, disk[p], i, k) <=> p = path /\ i = idx
      /\ \A u \in Types : \A n \in DOMAIN Includes[u] : path \in Includes[u][n].files => u = t
      /\ \A u \in HierarchyOf[t] : k \notin DOMAIN Inline[u]
      /\ ~Locked(t, path)
      /\ Objects[<<t, k>>] # Missing /\ <<t, k>> \notin Fixed
  <2>1. IsTheObject(t, k, loc)
      BY ChangeableIs
  <2> QED
      BY <2>1 DEF IsTheObject
<1>4. g = Absent \/ (g \in Files /\ HasDeleted(t, path, f, g, idx))
  <2>1. CASE g = Absent
      BY <2>1
  <2>2. CASE Len(f.items) # 1 /\ g = WithDeleted(t, f, idx) /\ g \in Files
    <3>1. HasDeleted(t, path, f, WithDeleted(t, f, idx), idx)
        BY <1>3, <2>2, DeleteHas
    <3> QED
        BY <2>2, <3>1
  <2> QED
      BY <1>2, <2>1, <2>2
<1>5. g = Absent => Len(f.items) = 1
    BY <1>2, ValuesAssumption DEF Files
<1>6. g \in Files \cup {Absent} /\ disk' = [disk EXCEPT ![path] = g]
    BY <1>2, <1>4 DEF Write
<1> HIDE DEF path, f, idx, g
<1>7. ASSUME NEW i, NEW j, Held(t, path, g, i, j)
      PROVE  \E m : m # idx /\ Held(t, path, f, m, j) /\ g.items[i] = f.items[m]
  <2>1. g # Absent
      BY <1>7 DEF Held
  <2> QED
      BY <1>4, <1>7, <2>1 DEF HasDeleted
<1>8. ASSUME NEW m, NEW j, m # idx, Held(t, path, f, m, j)
      PROVE  \E i : Held(t, path, g, i, j) /\ g.items[i] = f.items[m]
  <2>1. m \in 1 .. Len(f.items)
      BY <1>8 DEF Held
  <2>2. g # Absent
    <3>1. idx \in 1 .. Len(f.items)
        BY <1>3
    <3>2. ASSUME Len(f.items) = 1
          PROVE  FALSE
      <4>1. m \in 1 .. 1 /\ idx \in 1 .. 1
          BY <2>1, <3>1, <3>2
      <4>2. \A x \in 1 .. 1 : x = 1
          OBVIOUS
      <4>3. m = idx
          BY <4>1, <4>2
      <4> QED
          BY <1>8, <4>3
    <3> QED
        BY <1>5, <3>2
  <2> QED
      BY <1>4, <1>8, <2>2 DEF HasDeleted
<1>9. \A i : Held(t, path, f, i, k) <=> i = idx
  <2>1. path \in Paths /\ \A p \in Paths : \A i : Held(t, p, disk[p], i, k) <=> p = path /\ i = idx
      BY <1>3
  <2>2. \A i : Held(t, path, disk[path], i, k) <=> path = path /\ i = idx
      BY <2>1
  <2> QED
      BY <2>2 DEF f
<1>10. StoreTypeOK'
    BY <1>1, <1>3, <1>6 DEF StoreTypeOK, Disks
<1>11. Tidy(disk)'
  <2>1. \A u \in Types : \A j \in Keys[u] : AtMostOne(u, j)'
    <3>1. Unshared
        BY DEF WellLaidOut
    <3>2. \A u \in Types : \A j \in Keys[u] : AtMostOne(u, j)
        BY TidyIsUnique
    <3> QED
        BY <1>1, <1>10, <3>1, <3>2, DeletionAddsNone
  <2>2. \A n \in DOMAIN Includes[t] : path \in Includes[t][n].files =>
            /\ Readable(t, Includes[t][n], f)
            /\ \A i \in 1 .. Len(f.items) : KeyOf(t, path, f.items[i]) # NoId
      BY <1>3, TidyReads DEF f
  <2>3. g # Absent => \A n \in DOMAIN Includes[t] : path \in Includes[t][n].files =>
            /\ Readable(t, Includes[t][n], g)
            /\ \A i \in 1 .. Len(g.items) : KeyOf(t, path, g.items[i]) # NoId
      BY <1>4, <2>2 DEF HasDeleted
  <2>4. \A j \in Keys[t] : \A i : Held(t, path, g, i, j) =>
            \A u \in HierarchyOf[t] : j \notin DOMAIN Inline[u]
    <3>1. \A j \in Keys[t] : \A i : Held(t, path, f, i, j) =>
              \A u \in HierarchyOf[t] : j \notin DOMAIN Inline[u]
        BY <1>3, TidyHasOne DEF f
    <3> QED
        BY <1>7, <3>1
  <2>5. g # Absent => \A j \in Open(t) : \A target \in CreateTargets(t, j) : target.path = path =>
            IF target.multi THEN g.shape = "multi"
            ELSE \A i \in 1 .. Len(g.items) : KeyOf(t, path, g.items[i]) = j
    <3>1. \A j \in Open(t) : \A target \in CreateTargets(t, j) : target.path = path =>
              IF target.multi THEN f.shape = "multi"
              ELSE \A i \in 1 .. Len(f.items) : KeyOf(t, path, f.items[i]) = j
        BY <1>3 DEF Tidy, f
    <3> QED
        BY <1>4, <3>1 DEF HasDeleted
  <2> QED
      BY <1>3, <1>6, <2>1, <2>3, <2>4, <2>5, TidyAfter
<1>12. /\ \A u \in Types : \A j \in Keys[u] :
              <<u, j>> # <<t, k>> => Objects'[<<u, j>>] = Objects[<<u, j>>]
       /\ Fixed' = Fixed
       /\ Objects'[<<t, k>>] = Missing
  <2>1. \A u \in Types : \A c, j, x : Has(u, path, c, j, x) => u = t
      BY <1>3 DEF Has, Held
  <2>2. \A j \in Keys[t] : j # k => \A x : Has(t, path, g, j, x) <=> Has(t, path, disk[path], j, x)
    <3> SUFFICES ASSUME NEW j \in Keys[t], j # k, NEW x
                 PROVE  Has(t, path, g, j, x) <=> Has(t, path, f, j, x)
        BY DEF f
    <3>1. \A i : Held(t, path, f, i, j) => i # idx
        BY <1>3 DEF Held, f
    <3>2. Has(t, path, g, j, x) => Has(t, path, f, j, x)
        BY <1>7 DEF Has
    <3>3. Has(t, path, f, j, x) => Has(t, path, g, j, x)
        BY <1>8, <3>1 DEF Has
    <3> QED
        BY <3>2, <3>3
  <2>3. \A p \in Paths : p # path => \A x : ~Has(t, p, disk[p], k, x)
      BY <1>3 DEF Has
  <2>4. k \notin DOMAIN Inline[t]
      BY <1>3, TypesAssumption
  <2>5. path \in Paths /\ ~Locked(t, path)
      BY <1>3
  <2>6. \A x : ~Has(t, path, g, k, x)
      BY <1>7, <1>9 DEF Has
  <2> QED
      BY <1>6, <1>11, <2>1, <2>2, <2>3, <2>4, <2>5, <2>6, OneObjectChanges
<1>13. Objects' = [Objects EXCEPT ![<<t, k>>] = Missing]
    BY <1>12, ObjectsSet
<1> QED
    BY <1>3, <1>11, <1>12, <1>13

(* The map has no object where the look-up finds none, and only there.       *)
LEMMA MissingIsNotFound ==
    ASSUME WellLaidOut, Tidy(disk), NEW u \in Types, NEW k \in Keys[u]
    PROVE  /\ FindInType(u, k) = NotFound =>
                 /\ \A p \in Paths : \A i : ~Held(u, p, disk[p], i, k)
                 /\ k \notin DOMAIN Inline[u]
                 /\ Objects[<<u, k>>] = Missing
           /\ Objects[<<u, k>>] = Missing => FindInType(u, k) = NotFound
<1>1. CASE \E p \in Paths : \E i : Held(u, p, disk[p], i, k)
  <2>1. PICK p \in Paths : \E i : Held(u, p, disk[p], i, k)
      BY <1>1
  <2>2. PICK i : Held(u, p, disk[p], i, k)
      BY <2>1
  <2>3. FindInType(u, k).status = "found" /\ FindInType(u, k).fields = disk[p].items[i].fields
      BY <2>2, FoundWhere
  <2>4. Objects[<<u, k>>] = disk[p].items[i].fields
      BY <2>3, ObjectIs
  <2>5. disk[p].items[i].fields \in FieldMaps
    <3>1. disk[p] \in Files /\ i \in 1 .. Len(disk[p].items)
        BY <2>2 DEF Held, Tidy, Disks
    <3>2. disk[p].items \in Seq(Item)
        BY <3>1 DEF Files, Contents
    <3>3. disk[p].items[i] \in Item
        BY <3>1, <3>2
    <3> QED
        BY <3>3 DEF Item
  <2>6. FindInType(u, k) # NotFound
      BY <2>3 DEF NotFound
  <2> QED
      BY <2>4, <2>5, <2>6, ValuesAssumption
<1>2. CASE \A p \in Paths : \A i : ~Held(u, p, disk[p], i, k)
  <2>1. FindInType(u, k) = IF k \in DOMAIN Inline[u] THEN FoundInline(u, k) ELSE NotFound
      BY <1>2, NotFoundWhere
  <2>2. CASE k \in DOMAIN Inline[u]
    <3>1. FindInType(u, k).status = "inline" /\ FindInType(u, k).fields = Inline[u][k]
        BY <2>1, <2>2 DEF FoundInline
    <3>2. Objects[<<u, k>>] = Inline[u][k]
        BY <3>1, ObjectIs
    <3>3. Inline[u][k] \in FieldMaps
        BY <2>2 DEF WellLaidOut
    <3>4. FindInType(u, k) # NotFound
        BY <3>1 DEF NotFound
    <3> QED
        BY <3>2, <3>3, <3>4, ValuesAssumption
  <2>3. CASE k \notin DOMAIN Inline[u]
    <3>1. FindInType(u, k) = NotFound /\ FindInType(u, k).status = "none"
        BY <2>1, <2>3 DEF NotFound
    <3>2. Objects[<<u, k>>] = Missing
        BY <3>1, ObjectIs
    <3> QED
        BY <1>2, <2>3, <3>1, <3>2
  <2> QED
      BY <2>2, <2>3
<1> QED
    BY <1>1, <1>2

(* What create may write is the type's, and no other object's file.          *)
IsItsTarget(t, k, target) ==
    /\ target.path \in Paths
    /\ \A u \in Types : \A n \in DOMAIN Includes[u] : target.path \in Includes[u][n].files => u = t
    /\ \A n \in DOMAIN Includes[t] : target.path \in Includes[t][n].files => Includes[t][n].kind # "selector"
    /\ \E n \in DOMAIN Includes[t] : target.path \in Includes[t][n].files
    /\ ~Locked(t, target.path) /\ target.path \in DerivesAt[t]
    /\ target.multi => t \notin PathTypes
    /\ target.multi \in BOOLEAN
    /\ \A j \in Open(t) : \A other \in CreateTargets(t, j) : other.path = target.path =>
           /\ other.multi = target.multi
           /\ ~target.multi => j = k

LEMMA TargetIs ==
    ASSUME WellLaidOut, NEW t \in Types, NEW k \in Open(t), NEW target \in CreateTargets(t, k)
    PROVE  IsItsTarget(t, k, target)
<1> DEFINE path  == target.path
           lists == t \notin PathTypes /\ Globs(t) = {}
<1>1. k \in Keys[t]
    BY OpenAreKeys
<1>2. path \in Paths /\ (t \in PathTypes => path \in InRoot)
    BY <1>1, CreateTargetIsAFile
<1>3. \A j : \A other \in CreateTargets(t, j) : other = [path |-> other.path, multi |-> lists]
  <2> SUFFICES ASSUME NEW j, NEW other \in CreateTargets(t, j)
               PROVE  other = [path |-> other.path, multi |-> lists]
      OBVIOUS
  <2>1. CASE t \in PathTypes
    <3>1. PICK p : other = [path |-> p, multi |-> FALSE]
        BY <2>1 DEF CreateTargets, PathTargets
    <3> QED
        BY <2>1, <3>1
  <2>2. CASE t \notin PathTypes /\ Globs(t) # {}
    <3>1. PICK p : other = [path |-> p, multi |-> FALSE]
        BY <2>2 DEF CreateTargets
    <3> QED
        BY <2>2, <3>1
  <2>3. CASE t \notin PathTypes /\ Globs(t) = {}
    <3>1. PICK p : other = [path |-> p, multi |-> TRUE]
        BY <2>3 DEF CreateTargets
    <3> QED
        BY <2>3, <3>1
  <2> QED
      BY <2>1, <2>2, <2>3
<1>4. PICK n \in WritableIncludes(t) : path \in Includes[t][n].files
    BY DEF WellLaidOut
<1>5. n \in DOMAIN Includes[t] /\ Includes[t][n].kind # "selector"
    BY <1>4 DEF WritableIncludes
<1>6. ASSUME NEW m \in DOMAIN Includes[t], path \in Includes[t][m].files
      PROVE  Includes[t][m].kind # "selector"
  <2>1. Includes[t][m].files \cap Includes[t][n].files # {}
      BY <1>4, <1>6
  <2> QED
      BY <1>5, <2>1 DEF WellLaidOut
<1>7. \A u \in Types : \A m \in DOMAIN Includes[u] : path \in Includes[u][m].files => u = t
    BY <1>1 DEF WellLaidOut, CreatesApart
<1>8. ~Locked(t, path)
    BY <1>2, <1>6 DEF Locked
<1>9. path \in DerivesAt[t]
    BY <1>4, <1>5 DEF WellLaidOut
<1>10. target = [path |-> path, multi |-> lists]
    BY <1>3
<1> HIDE DEF lists, path
<1>11. target.path = path /\ target.multi = lists
    BY <1>10
<1>12. ASSUME NEW j \in Open(t), NEW other \in CreateTargets(t, j), other.path = path
       PROVE  other.multi = lists /\ (~lists => j = k)
  <2>1. other = [path |-> path, multi |-> lists]
      BY <1>3, <1>12
  <2>2. other.multi = lists
      BY <2>1
  <2>3. other = target
      BY <1>10, <2>1
  <2>4. ~target.multi => \A i \in Open(t) : target \in CreateTargets(t, i) => i = k
      BY DEF WellLaidOut
  <2>5. ~lists => j = k
      BY <1>11, <2>3, <2>4
  <2> QED
      BY <2>2, <2>5
<1>13. lists \in BOOLEAN /\ (lists => t \notin PathTypes)
    BY DEF lists
<1> QED
    BY <1>2, <1>4, <1>5, <1>6, <1>7, <1>8, <1>9, <1>11, <1>12, <1>13 DEF IsItsTarget

(* A creation adds its object to a file that has no such object.             *)
HasCreated(t, path, f, g, k, fields, multi) ==
    /\ g \in Files /\ LoadsAs(t, g) /\ (t \in PathTypes => g.shape # "multi")
    /\ \A i \in 1 .. Len(g.items) : KeyOf(t, path, g.items[i]) # NoId
    /\ \A i, j : Held(t, path, g, i, j) =>
           j = k \/ (Held(t, path, f, i, j) /\ g.items[i] = f.items[i])
    /\ \A i, j : Held(t, path, f, i, j) => Held(t, path, g, i, j) /\ g.items[i] = f.items[i]
    /\ Has(t, path, g, k, fields)
    /\ IF multi THEN g.shape = "multi"
       ELSE \A i \in 1 .. Len(g.items) : KeyOf(t, path, g.items[i]) = k

(* A new file, or one whose objects, if any, would be the new one.           *)
LEMMA CreateAlone ==
    ASSUME NEW t \in Types, NEW k, NEW path, NEW fields, NEW f, NEW g \in Files, NEW item, k # NoId,
           KeyOf(t, path, item) = k, item.fields = fields, g.items = <<item>>,
           LoadsAs(t, g), t \in PathTypes => g.shape # "multi",
           \E n \in DOMAIN Includes[t] : path \in Includes[t][n].files,
           \A n \in DOMAIN Includes[t] : path \in Includes[t][n].files => Includes[t][n].kind # "selector",
           \A i, j : ~Held(t, path, f, i, j),
           NEW multi \in BOOLEAN, multi => g.shape = "multi"
    PROVE  HasCreated(t, path, f, g, k, fields, multi)
<1>1. g # Absent
    BY ValuesAssumption DEF Files
<1>2. Len(g.items) = 1 /\ g.items[1] = item
    OBVIOUS
<1>3. \A i \in 1 .. Len(g.items) : i = 1
    BY <1>2
<1>4. \A i \in 1 .. Len(g.items) : KeyOf(t, path, g.items[i]) = k
    BY <1>2, <1>3
<1>5. PICK n \in DOMAIN Includes[t] : path \in Includes[t][n].files
    OBVIOUS
<1>6. Readable(t, Includes[t][n], g)
    BY <1>5 DEF Readable, Loads, Several
<1>7. Held(t, path, g, 1, k)
    BY <1>1, <1>2, <1>5, <1>6 DEF Held
<1>8. Has(t, path, g, k, fields)
    BY <1>2, <1>7 DEF Has
<1>9. \A i, j : Held(t, path, g, i, j) => j = k
    BY <1>4 DEF Held
<1> QED
    BY <1>4, <1>8, <1>9 DEF HasCreated

(* One more object in a list.                                                *)
LEMMA CreateAppends ==
    ASSUME NEW t \in Types, t \notin PathTypes, NEW k, NEW path, NEW fields, NEW f \in Files, NEW g \in Files,
           NEW item \in Item, k # NoId, KeyOf(t, path, item) = k, item.fields = fields,
           f.shape = "multi", LoadsAs(t, f), f # Absent,
           g.shape = "multi", g.type = t, g.items = Append(f.items, item),
           \A i \in 1 .. Len(f.items) : KeyOf(t, path, f.items[i]) # NoId,
           \E n \in DOMAIN Includes[t] : path \in Includes[t][n].files,
           \A n \in DOMAIN Includes[t] : path \in Includes[t][n].files => Includes[t][n].kind # "selector"
    PROVE  HasCreated(t, path, f, g, k, fields, TRUE)
<1>1. g # Absent /\ f.items \in Seq(Item) /\ Len(f.items) \in Nat
    BY ValuesAssumption DEF Files, Contents
<1>2. /\ Len(g.items) = Len(f.items) + 1 /\ g.items[Len(f.items) + 1] = item
      /\ \A i \in 1 .. Len(f.items) : g.items[i] = f.items[i]
    BY <1>1
<1>3. LoadsAs(t, g)
    BY DEF LoadsAs
<1>4. \A n \in DOMAIN Includes[t] : path \in Includes[t][n].files =>
          Readable(t, Includes[t][n], g) /\ Readable(t, Includes[t][n], f)
    BY <1>3 DEF Readable, Loads
<1>5. \A i \in 1 .. Len(g.items) : i \in 1 .. Len(f.items) \/ i = Len(f.items) + 1
    BY <1>1, <1>2
<1>6. \A i \in 1 .. Len(g.items) : KeyOf(t, path, g.items[i]) # NoId
    BY <1>2, <1>5
<1>7. ASSUME NEW i, NEW j, Held(t, path, g, i, j)
      PROVE  j = k \/ (Held(t, path, f, i, j) /\ g.items[i] = f.items[i])
  <2>1. i \in 1 .. Len(g.items) /\ KeyOf(t, path, g.items[i]) = j
      BY <1>7 DEF Held
  <2>2. CASE i = Len(f.items) + 1
      BY <1>2, <2>1, <2>2
  <2>3. CASE i \in 1 .. Len(f.items)
      BY <1>2, <1>4, <2>1, <2>3 DEF Held
  <2> QED
      BY <1>5, <2>1, <2>2, <2>3
<1>8. ASSUME NEW i, NEW j, Held(t, path, f, i, j)
      PROVE  Held(t, path, g, i, j) /\ g.items[i] = f.items[i]
  <2>1. i \in 1 .. Len(f.items) /\ KeyOf(t, path, f.items[i]) = j
      BY <1>8 DEF Held
  <2>2. i \in 1 .. Len(g.items) /\ g.items[i] = f.items[i]
      BY <1>1, <1>2, <2>1
  <2> QED
      BY <1>1, <1>4, <2>1, <2>2 DEF Held
<1>9. Has(t, path, g, k, fields)
  <2>1. Len(f.items) + 1 \in 1 .. Len(g.items)
      BY <1>1, <1>2
  <2>2. Held(t, path, g, Len(f.items) + 1, k)
      BY <1>1, <1>2, <1>4, <2>1 DEF Held
  <2> QED
      BY <1>2, <2>2 DEF Has
<1> QED
    BY <1>3, <1>6, <1>7, <1>8, <1>9 DEF HasCreated

LEMMA CreateHas ==
    ASSUME WellLaidOut, Tidy(disk), NEW t \in Types, NEW k \in Open(t), NEW fields \in FieldMaps,
           NEW target \in CreateTargets(t, k), IsItsTarget(t, k, target),
           \A i : ~Held(t, target.path, disk[target.path], i, k)
    PROVE  HasCreated(t, target.path, disk[target.path],
                      WithCreated(t, Stored(t, k, fields), target), k, fields, target.multi)
<1> DEFINE path == target.path
           f    == disk[path]
           item == Stored(t, k, fields)
           g    == WithCreated(t, item, target)
<1>1. k \in Keys[t] /\ k # NoId
    BY OpenAreKeys, KeysAreIds
<1>2. KeyOf(t, path, item) = k /\ item.fields = fields
    BY <1>1, CreateTargetIsAFile DEF KeyOf, Stored
<1>3. item \in Item
    BY <1>1 DEF Stored, Item, Keys
<1>4. /\ path \in Paths
      /\ \E n \in DOMAIN Includes[t] : path \in Includes[t][n].files
      /\ \A n \in DOMAIN Includes[t] : path \in Includes[t][n].files => Includes[t][n].kind # "selector"
      /\ target.multi => t \notin PathTypes
      /\ target.multi \in BOOLEAN
    BY DEF IsItsTarget
<1>5. f \in Files \cup {Absent}
    BY <1>4 DEF Tidy, Disks
<1>6. f # Absent => \A n \in DOMAIN Includes[t] : path \in Includes[t][n].files =>
          /\ Readable(t, Includes[t][n], f)
          /\ \A i \in 1 .. Len(f.items) : KeyOf(t, path, f.items[i]) # NoId
    BY TidyReads
<1>7. f # Absent => IF target.multi THEN f.shape = "multi"
                    ELSE \A i \in 1 .. Len(f.items) : KeyOf(t, path, f.items[i]) = k
    BY DEF Tidy
<1> HIDE DEF item
<1>8. CASE target.multi /\ f # Absent
  <2>1. f.shape = "multi" /\ f \in Files
      BY <1>5, <1>7, <1>8
  <2>2. g = [f EXCEPT !.type = t, !.items = Append(@, item)]
      BY <1>8, <2>1 DEF WithCreated
  <2>3. f.items \in Seq(Item)
      BY <2>1 DEF Files, Contents
  <2>4. g.shape = "multi" /\ g.type = t /\ g.items = Append(f.items, item) /\ g \in Files
    <3>1. f = [shape |-> f.shape, type |-> f.type, items |-> f.items] /\ f.type \in Types \cup {NoType}
        BY <2>1 DEF Files, Contents
    <3> HIDE DEF f
    <3>2. g = [shape |-> "multi", type |-> t, items |-> Append(f.items, item)]
        BY <2>1, <2>2, <3>1
    <3>3. Append(f.items, item) \in Seq(Item)
        BY <1>3, <2>3
    <3> HIDE DEF g
    <3>4. g.shape = "multi" /\ g.type = t /\ g.items = Append(f.items, item)
        BY <3>2
    <3>5. g \in Files
        BY <3>2, <3>3 DEF Files, Contents
    <3> QED
        BY <3>4, <3>5
  <2>5. LoadsAs(t, f) /\ \A i \in 1 .. Len(f.items) : KeyOf(t, path, f.items[i]) # NoId
      BY <1>4, <1>6, <1>8 DEF Readable, Loads
  <2>6. target.multi = TRUE /\ t \notin PathTypes
      BY <1>4, <1>8
  <2> HIDE DEF f, g, path
  <2>7. HasCreated(t, path, f, g, k, fields, TRUE)
      BY <1>1, <1>2, <1>3, <1>4, <1>8, <2>1, <2>4, <2>5, <2>6, CreateAppends
  <2> QED
      BY <2>6, <2>7 DEF f, g, path, item
<1>9. CASE ~(target.multi /\ f # Absent)
  <2>1. \A i, j : ~Held(t, path, f, i, j)
    <3> SUFFICES ASSUME NEW i, NEW j, Held(t, path, f, i, j)
                 PROVE  FALSE
        OBVIOUS
    <3>1. f # Absent /\ i \in 1 .. Len(f.items) /\ KeyOf(t, path, f.items[i]) = j
        BY DEF Held
    <3>2. j = k
        BY <1>7, <1>9, <3>1
    <3> QED
        BY <3>2
  <2>2. g = IF target.multi THEN [shape |-> "multi", type |-> t, items |-> <<item>>] ELSE Single(item)
      BY <1>9 DEF WithCreated
  <2>3. /\ g \in Files /\ g.items = <<item>>
        /\ g.shape = IF target.multi THEN "multi" ELSE "single"
        /\ g.type \in {NoType, t}
    <3>1. CASE target.multi
        BY <1>3, <2>2, <3>1 DEF Files, Contents
    <3>2. CASE ~target.multi
        BY <1>3, <2>2, <3>2, SingleIsAFile DEF Single
    <3> QED
        BY <3>1, <3>2
  <2> HIDE DEF g
  <2>4. LoadsAs(t, g) /\ (t \in PathTypes => g.shape # "multi") /\ (target.multi => g.shape = "multi")
      BY <1>4, <2>3 DEF LoadsAs
  <2> HIDE DEF f, path
  <2>5. HasCreated(t, path, f, g, k, fields, target.multi)
      BY <1>1, <1>2, <1>4, <2>1, <2>3, <2>4, CreateAlone
  <2> QED
      BY <2>5 DEF f, g, path, item
<1> QED
    BY <1>8, <1>9

LEMMA CreatesOneObject ==
    ASSUME WellLaidOut, Tidy(disk), NEW t \in Types, NEW k \in Keys[t], NEW fields \in FieldMaps,
           NEW w \in CreateWrites(t, k, fields), Write(w)
    PROVE  /\ Tidy(disk)'
           /\ \A u \in HierarchyOf[t] : Objects[<<u, k>>] = Missing
           /\ CreateTargets(t, k) # {}
           /\ Objects' = [Objects EXCEPT ![<<t, k>>] = fields]
           /\ Fixed' = Fixed
           /\ w.path \in DerivesAt[t]
<1>1. PICK target \in CreateTargets(t, k) :
          /\ FindInTypes(HierarchyOf[t], k) = NotFound
          /\ disk[target.path] = Absent \/ LoadsAs(t, disk[target.path])
          /\ w = [path    |-> target.path,
                  content |-> WithCreated(t, Stored(t, k, fields), target)]
    BY DEF CreateWrites
<1> DEFINE path == target.path
           f    == disk[path]
           g    == WithCreated(t, Stored(t, k, fields), target)
<1>2. StoreTypeOK /\ Unshared /\ CreatesApart
    BY DEF Tidy, StoreTypeOK, WellLaidOut
<1>3. \A u \in HierarchyOf[t] : u \in Types /\ k \in Keys[u]
    BY TypesAssumption DEF Keys
<1>4. \A u \in HierarchyOf[t] :
          /\ \A p \in Paths : \A i : ~Held(u, p, disk[p], i, k)
          /\ k \notin DOMAIN Inline[u]
          /\ Objects[<<u, k>>] = Missing
  <2>1. \A u \in HierarchyOf[t] : FindInType(u, k) = NotFound
      BY <1>1, NoneFound
  <2> QED
      BY <1>3, <2>1, MissingIsNotFound
<1>5. t \in HierarchyOf[t]
    BY TypesAssumption
<1>6. k \in Open(t)
    BY <1>4 DEF Open
<1>7. IsItsTarget(t, k, target)
    BY <1>6, TargetIs
<1>8. /\ path \in Paths
      /\ \A u \in Types : \A n \in DOMAIN Includes[u] : path \in Includes[u][n].files => u = t
      /\ \A n \in DOMAIN Includes[t] : path \in Includes[t][n].files => Includes[t][n].kind # "selector"
      /\ ~Locked(t, path) /\ path \in DerivesAt[t]
      /\ target.multi \in BOOLEAN
      /\ \A j \in Open(t) : \A other \in CreateTargets(t, j) : other.path = path =>
             /\ other.multi = target.multi
             /\ ~target.multi => j = k
    BY <1>7 DEF IsItsTarget
<1>9. HasCreated(t, path, f, g, k, fields, target.multi)
  <2>1. \A i : ~Held(t, path, f, i, k)
      BY <1>4, <1>5, <1>8
  <2> QED
      BY <1>6, <1>7, <2>1, CreateHas
<1>10. w.path = path /\ disk' = [disk EXCEPT ![path] = g]
    BY <1>1 DEF Write
<1> HIDE DEF g, f, path
<1>11. /\ g \in Files /\ LoadsAs(t, g) /\ (t \in PathTypes => g.shape # "multi")
       /\ \A i \in 1 .. Len(g.items) : KeyOf(t, path, g.items[i]) # NoId
       /\ \A i, j : Held(t, path, g, i, j) =>
              j = k \/ (Held(t, path, f, i, j) /\ g.items[i] = f.items[i])
       /\ \A i, j : Held(t, path, f, i, j) => Held(t, path, g, i, j) /\ g.items[i] = f.items[i]
       /\ Has(t, path, g, k, fields)
       /\ IF target.multi THEN g.shape = "multi"
          ELSE \A i \in 1 .. Len(g.items) : KeyOf(t, path, g.items[i]) = k
    BY <1>9 DEF HasCreated
<1>12. StoreTypeOK'
    BY <1>2, <1>8, <1>10, <1>11 DEF StoreTypeOK, Disks
<1>13. Tidy(disk)'
  <2>1. \A u \in Types : \A j \in Keys[u] : AtMostOne(u, j)'
    <3>1. \A u \in Types : \A j \in Keys[u] : AtMostOne(u, j)
        BY TidyIsUnique
    <3> QED
        BY <1>2, <1>12, <3>1, CreateAddsOne
  <2>2. g # Absent => \A n \in DOMAIN Includes[t] : path \in Includes[t][n].files =>
            /\ Readable(t, Includes[t][n], g)
            /\ \A i \in 1 .. Len(g.items) : KeyOf(t, path, g.items[i]) # NoId
      BY <1>8, <1>11 DEF Readable, Loads, Several
  <2>3. \A j \in Keys[t] : \A i : Held(t, path, g, i, j) =>
            \A u \in HierarchyOf[t] : j \notin DOMAIN Inline[u]
    <3>1. \A j \in Keys[t] : \A i : Held(t, path, f, i, j) =>
              \A u \in HierarchyOf[t] : j \notin DOMAIN Inline[u]
        BY <1>8, TidyHasOne DEF f
    <3> QED
        BY <1>4, <1>11, <3>1
  <2>4. g # Absent => \A j \in Open(t) : \A other \in CreateTargets(t, j) : other.path = path =>
            IF other.multi THEN g.shape = "multi"
            ELSE \A i \in 1 .. Len(g.items) : KeyOf(t, path, g.items[i]) = j
    <3> SUFFICES ASSUME NEW j \in Open(t), NEW other \in CreateTargets(t, j), other.path = path
                 PROVE  IF other.multi THEN g.shape = "multi"
                        ELSE \A i \in 1 .. Len(g.items) : KeyOf(t, path, g.items[i]) = j
        OBVIOUS
    <3>1. other.multi = target.multi /\ (~target.multi => j = k)
        BY <1>8
    <3>2. CASE target.multi
        BY <1>11, <3>1, <3>2
    <3>3. CASE ~target.multi
        BY <1>11, <3>1, <3>3
    <3> QED
        BY <3>2, <3>3
  <2>5. g \in Files \cup {Absent} /\ path \in Paths
      BY <1>8, <1>11
  <2>6. \A u \in Types : \A n \in DOMAIN Includes[u] : path \in Includes[u][n].files => u = t
      BY <1>8
  <2> QED
      BY <1>10, <2>1, <2>2, <2>3, <2>4, <2>5, <2>6, TidyAfter
<1>14. /\ \A u \in Types : \A j \in Keys[u] :
              <<u, j>> # <<t, k>> => Objects'[<<u, j>>] = Objects[<<u, j>>]
       /\ Fixed' = Fixed
       /\ Objects'[<<t, k>>] = fields
  <2>1. \A u \in Types : \A c, j, x : Has(u, path, c, j, x) => u = t
      BY <1>8 DEF Has, Held
  <2>2. \A j \in Keys[t] : j # k => \A x : Has(t, path, g, j, x) <=> Has(t, path, disk[path], j, x)
    <3> SUFFICES ASSUME NEW j \in Keys[t], j # k, NEW x
                 PROVE  Has(t, path, g, j, x) <=> Has(t, path, f, j, x)
        BY DEF f
    <3>1. Has(t, path, g, j, x) => Has(t, path, f, j, x)
        BY <1>11 DEF Has
    <3>2. Has(t, path, f, j, x) => Has(t, path, g, j, x)
        BY <1>11 DEF Has
    <3> QED
        BY <3>1, <3>2
  <2>3. \A p \in Paths : p # path => \A x : ~Has(t, p, disk[p], k, x)
      BY <1>4, <1>5 DEF Has
  <2>4. k \notin DOMAIN Inline[t]
      BY <1>4, <1>5
  <2>5. path \in Paths /\ ~Locked(t, path) /\ Has(t, path, g, k, fields)
      BY <1>8, <1>11
  <2> QED
      BY <1>10, <1>13, <2>1, <2>2, <2>3, <2>4, <2>5, OneObjectChanges
<1>15. Objects' = [Objects EXCEPT ![<<t, k>>] = fields]
    BY <1>14, ObjectsSet
<1> QED
    BY <1>1, <1>4, <1>8, <1>10, <1>13, <1>14, <1>15

(* A create is refused for one of the map's reasons.                         *)
LEMMA CreateIsRefused ==
    ASSUME WellLaidOut, Tidy(disk), NEW t \in Types, NEW k \in Keys[t],
           \A fields \in FieldMaps : CreateWrites(t, k, fields) = {},
           \A u \in HierarchyOf[t] : Objects[<<u, k>>] = Missing
    PROVE  CreateTargets(t, k) = {}
<1> SUFFICES ASSUME NEW target \in CreateTargets(t, k)
             PROVE  FALSE
    OBVIOUS
<1>1. \A u \in HierarchyOf[t] : u \in Types /\ k \in Keys[u]
    BY TypesAssumption DEF Keys
<1>2. \A u \in HierarchyOf[t] : FindInType(u, k) = NotFound /\ k \notin DOMAIN Inline[u]
    BY <1>1, MissingIsNotFound
<1>3. FindInTypes(HierarchyOf[t], k) = NotFound
    BY <1>2 DEF FindInTypes
<1>4. k \in Open(t)
    BY <1>2 DEF Open
<1>5. PICK n \in DOMAIN Includes[t] :
          target.path \in Includes[t][n].files /\ Includes[t][n].kind # "selector"
    BY <1>4, TargetIs DEF IsItsTarget
<1>6. disk[target.path] = Absent \/ LoadsAs(t, disk[target.path])
    BY <1>5, TidyReads DEF Readable, Loads
<1>7. [name \in Names |-> Unset] \in FieldMaps
    BY DEF FieldMaps
<1>8. CreateWrites(t, k, [name \in Names |-> Unset]) # {}
    BY <1>3, <1>6 DEF CreateWrites
<1> QED
    BY <1>7, <1>8

(* And so is a change.                                                       *)
LEMMA ChangeIsRefused ==
    ASSUME NEW t \in Types, NEW k \in Keys[t], Changeable(t, k) = {}
    PROVE  Objects[<<t, k>>] = Missing \/ <<t, k>> \in Fixed
<1> DEFINE loc  == FindInType(t, k)
           hits == {FindInType(u, k) : u \in {t}} \ {NotFound}
<1> SUFFICES ASSUME Objects[<<t, k>>] # Missing, <<t, k>> \notin Fixed
             PROVE  FALSE
    OBVIOUS
<1>1. loc.status \in {"found", "inline"} /\ Writable(t, loc)
    BY ObjectIs
<1>2. loc # NotFound /\ loc # Unreadable
    BY <1>1 DEF NotFound, Unreadable
<1> HIDE DEF loc
<1>3. hits = {loc}
    BY <1>2 DEF loc
<1>4. Cardinality(hits) = 1
    BY <1>3, FS_Singleton
<1>5. FindInTypes({t}, k) = loc
    BY <1>2, <1>3, <1>4 DEF FindInTypes
<1> QED
    BY <1>1, <1>5 DEF Changeable

LEMMA PresentIs ==
    ASSUME WellLaidOut, Tidy(disk), NEW u \in Types, NEW k \in Keys[u], Objects[<<u, k>>] # Missing
    PROVE  /\ Objects[<<u, k>>] \in FieldMaps
           /\ \/ \E p \in Paths : \E i : Held(u, p, disk[p], i, k)
              \/ k \in DOMAIN Inline[u]
<1>1. CASE \E p \in Paths : \E i : Held(u, p, disk[p], i, k)
  <2>1. PICK p \in Paths : \E i : Held(u, p, disk[p], i, k)
      BY <1>1
  <2>2. PICK i : Held(u, p, disk[p], i, k)
      BY <2>1
  <2>3. Objects[<<u, k>>] = disk[p].items[i].fields
      BY <2>2, FoundWhere, ObjectIs
  <2>4. disk[p] \in Files /\ i \in 1 .. Len(disk[p].items)
      BY <2>2 DEF Held, Tidy, Disks
  <2>5. disk[p].items \in Seq(Item)
      BY <2>4 DEF Files, Contents
  <2>6. disk[p].items[i] \in Item
      BY <2>4, <2>5
  <2> QED
      BY <1>1, <2>3, <2>6 DEF Item
<1>2. CASE \A p \in Paths : \A i : ~Held(u, p, disk[p], i, k)
  <2>1. FindInType(u, k) = IF k \in DOMAIN Inline[u] THEN FoundInline(u, k) ELSE NotFound
      BY <1>2, NotFoundWhere
  <2>2. k \in DOMAIN Inline[u]
      BY <2>1, ObjectIs DEF NotFound
  <2>3. FindInType(u, k).status = "inline" /\ FindInType(u, k).fields = Inline[u][k]
      BY <2>1, <2>2 DEF FoundInline
  <2>4. Objects[<<u, k>>] = Inline[u][k]
      BY <2>3, ObjectIs
  <2> QED
      BY <2>2, <2>4 DEF WellLaidOut
<1> QED
    BY <1>1, <1>2

LEMMA MapStart ==
    ASSUME WellLaidOut, Tidy(disk), reply = Quiet
    PROVE  Map!MapInit
<1>1. Objects \in [Refs -> FieldMaps \cup {Missing}]
  <2>1. Objects = [ref \in Refs |-> Objects[ref]]
      BY DEF Objects
  <2>2. \A ref \in Refs : Objects[ref] \in FieldMaps \cup {Missing}
      BY RefsAre, PresentIs
  <2> QED
      BY <2>1, <2>2
<1>2. Fixed \subseteq Refs
    BY DEF Fixed
<1>3. ASSUME NEW t \in Types, NEW u \in HierarchyOf[t], NEW k \in Keys[t],
             Objects[<<t, k>>] # Missing, Objects[<<u, k>>] # Missing
      PROVE  t = u
  <2>1. u \in Types /\ k \in Keys[u] /\ t \in HierarchyOf[u]
      BY TypesAssumption DEF Keys
  <2>2. CASE \E p \in Paths : \E i : Held(t, p, disk[p], i, k)
    <3>1. k \notin DOMAIN Inline[u] /\ \A q \in Paths : \A j : Held(u, q, disk[q], j, k) => u = t
        BY <2>2, TidyHasOne
    <3> QED
        BY <1>3, <2>1, <3>1, PresentIs
  <2>3. CASE k \in DOMAIN Inline[t] /\ k \notin DOMAIN Inline[u]
    <3>1. PICK q \in Paths : \E j : Held(u, q, disk[q], j, k)
        BY <1>3, <2>1, <2>3, PresentIs
    <3>2. PICK j : Held(u, q, disk[q], j, k)
        BY <3>1
    <3>3. k \notin DOMAIN Inline[t]
        BY <2>1, <3>2, TidyHasOne
    <3> QED
        BY <2>3, <3>3
  <2>4. CASE k \in DOMAIN Inline[t] /\ k \in DOMAIN Inline[u]
      BY <2>4 DEF WellLaidOut
  <2> QED
      BY <1>3, <2>2, <2>3, <2>4, PresentIs
<1> QED
    BY <1>1, <1>2, <1>3 DEF Map!MapInit, Map!KeysUnique, Map!Refs, Refs

(* A look-up goes by the files.                                              *)
LEMMA FindUnchanged ==
    ASSUME UNCHANGED disk
    PROVE  \A t, k : UNCHANGED FindInType(t, k)
<1>1. \A t, n, rank : UNCHANGED ItemsAt(t, n, rank)
    BY DEF ItemsAt
<1>2. \A t : UNCHANGED Positions(t)
    BY <1>1 DEF Positions
<1>3. \A t, s : UNCHANGED KeyAt(t, s)
    BY DEF KeyAt
<1>4. \A t, s : UNCHANGED FoundAt(t, s)
    BY DEF FoundAt
<1> QED
    BY <1>2, <1>3, <1>4 DEF FindInType

LEMMA MapStep ==
    ASSUME WellLaidOut, Tidy(disk), Next
    PROVE  Tidy(disk)' /\ Map!MapNext
<1>1. PICK t \in Types : \E k \in Keys[t] :
          \/ Create(t, k)
          \/ \E merge \in BOOLEAN : Update(t, k, merge)
          \/ Delete(t, k)
          \/ RefuseCreate(t, k)
          \/ \E op \in {"update", "merge", "delete"} : RefuseChange(op, t, k)
    BY DEF Next
<1>2. PICK k \in Keys[t] :
          \/ Create(t, k)
          \/ \E merge \in BOOLEAN : Update(t, k, merge)
          \/ Delete(t, k)
          \/ RefuseCreate(t, k)
          \/ \E op \in {"update", "merge", "delete"} : RefuseChange(op, t, k)
    BY <1>1
<1>3. ASSUME Create(t, k)
      PROVE  Tidy(disk)' /\ \E fields \in FieldMaps : Map!Create(t, k, fields)
  <2>1. PICK fields \in FieldMaps : \E w \in CreateWrites(t, k, fields) :
            Write(w) /\ reply' = Answer("create", t, k, fields, w.path \in DerivesAt[t])
      BY <1>3 DEF Create
  <2>2. PICK w \in CreateWrites(t, k, fields) :
            Write(w) /\ reply' = Answer("create", t, k, fields, w.path \in DerivesAt[t])
      BY <2>1
  <2>3. /\ Tidy(disk)'
        /\ \A u \in HierarchyOf[t] : Objects[<<u, k>>] = Missing
        /\ CreateTargets(t, k) # {}
        /\ Objects' = [Objects EXCEPT ![<<t, k>>] = fields]
        /\ Fixed' = Fixed
        /\ w.path \in DerivesAt[t]
      BY <2>2, CreatesOneObject
  <2>4. reply' = Answer("create", t, k, fields, TRUE)
      BY <2>2, <2>3
  <2>5. Map!Create(t, k, fields)
      BY <2>3, <2>4 DEF Map!Create, Map!Taken, Map!Answer, Answer
  <2> QED
      BY <2>3, <2>5
<1>4. ASSUME NEW merge \in BOOLEAN, Update(t, k, merge)
      PROVE  /\ Tidy(disk)'
             /\ \E fields \in FieldMaps : Map!Update(t, k, fields) \/ Map!MergeInto(t, k, fields)
  <2>1. PICK fields \in FieldMaps : \E w \in UpdateWrites(t, k, fields, merge) :
            /\ Write(w)
            /\ reply' = Answer(IF merge THEN "merge" ELSE "update", t, k, fields, w.path \in DerivesAt[t])
      BY <1>4 DEF Update
  <2>2. PICK w \in UpdateWrites(t, k, fields, merge) :
            /\ Write(w)
            /\ reply' = Answer(IF merge THEN "merge" ELSE "update", t, k, fields, w.path \in DerivesAt[t])
      BY <2>1
  <2>3. /\ Tidy(disk)'
        /\ Objects[<<t, k>>] # Missing /\ <<t, k>> \notin Fixed
        /\ Objects' = [Objects EXCEPT ![<<t, k>>] = Revised(Objects[<<t, k>>], fields, merge)]
        /\ Fixed' = Fixed
        /\ w.path \in DerivesAt[t]
      BY <2>2, UpdatesOneObject
  <2>4. CASE merge
    <3>1. reply' = Answer("merge", t, k, fields, TRUE)
        BY <2>2, <2>3, <2>4
    <3>2. Objects' = [Objects EXCEPT ![<<t, k>>] = MergeMaps(@, fields)]
        BY <2>3, <2>4 DEF Revised
    <3>3. Map!MergeInto(t, k, fields)
        BY <2>3, <3>1, <3>2 DEF Map!MergeInto, Map!Changeable, Map!Answer, Answer
    <3> QED
        BY <2>3, <3>3
  <2>5. CASE ~merge
    <3>1. reply' = Answer("update", t, k, fields, TRUE)
        BY <2>2, <2>3, <2>5
    <3>2. Objects' = [Objects EXCEPT ![<<t, k>>] = fields]
        BY <2>3, <2>5 DEF Revised
    <3>3. Map!Update(t, k, fields)
        BY <2>3, <3>1, <3>2 DEF Map!Update, Map!Changeable, Map!Answer, Answer
    <3> QED
        BY <2>3, <3>3
  <2> QED
      BY <2>4, <2>5
<1>5. ASSUME Delete(t, k)
      PROVE  Tidy(disk)' /\ Map!Delete(t, k)
  <2>1. PICK w \in DeleteWrites(t, k) : Write(w) /\ reply' = Answer("delete", t, k, Missing, TRUE)
      BY <1>5 DEF Delete
  <2>2. /\ Tidy(disk)'
        /\ Objects[<<t, k>>] # Missing /\ <<t, k>> \notin Fixed
        /\ Objects' = [Objects EXCEPT ![<<t, k>>] = Missing]
        /\ Fixed' = Fixed
      BY <2>1, DeletesOneObject
  <2> QED
      BY <2>1, <2>2 DEF Map!Delete, Map!Changeable, Map!Answer, Answer
<1>6. ASSUME UNCHANGED disk
      PROVE  Tidy(disk)' /\ Objects' = Objects /\ Fixed' = Fixed
  <2>1. Tidy(disk)'
      BY <1>6
  <2>2. \A u, j : FindInType(u, j)' = FindInType(u, j)
      BY <1>6, FindUnchanged
  <2> QED
      BY <2>1, <2>2 DEF Objects, Fixed
<1>7. ASSUME RefuseCreate(t, k)
      PROVE  Tidy(disk)' /\ Map!RefuseCreate(t, k)
  <2>1. /\ \A fields \in FieldMaps : CreateWrites(t, k, fields) = {}
        /\ reply' = Answer("create", t, k, Missing, FALSE)
        /\ UNCHANGED disk
      BY <1>7 DEF RefuseCreate
  <2>2. Tidy(disk)' /\ Objects' = Objects /\ Fixed' = Fixed
      BY <1>6, <2>1
  <2>3. (\A u \in HierarchyOf[t] : Objects[<<u, k>>] = Missing) => CreateTargets(t, k) = {}
      BY <2>1, CreateIsRefused
  <2> QED
      BY <2>1, <2>2, <2>3 DEF Map!RefuseCreate, Map!Taken, Map!Answer, Answer
<1>8. ASSUME NEW op \in {"update", "merge", "delete"}, RefuseChange(op, t, k)
      PROVE  Tidy(disk)' /\ Map!RefuseChange(op, t, k)
  <2>1. /\ Changeable(t, k) = {}
        /\ reply' = Answer(op, t, k, Missing, FALSE)
        /\ UNCHANGED disk
      BY <1>8 DEF RefuseChange
  <2>2. Tidy(disk)' /\ Objects' = Objects /\ Fixed' = Fixed
      BY <1>6, <2>1
  <2>3. Objects[<<t, k>>] = Missing \/ <<t, k>> \in Fixed
      BY <2>1, ChangeIsRefused
  <2> QED
      BY <2>1, <2>2, <2>3 DEF Map!RefuseChange, Map!Changeable, Map!Answer, Answer
<1> QED
    BY <1>2, <1>3, <1>4, <1>5, <1>7, <1>8 DEF Map!MapNext

(* A command is the map's operation of its name: on a workspace that is laid *)
(* out and filled so that an object has one place, whatever its types and    *)
(* layout, however many commands have run.                                  *)
THEOREM StoreImplementsMap ==
    ASSUME WellLaidOut, \A d \in InitialDisks : Tidy(d)
    PROVE  Spec => ImplementsObjectMap
<1>1. Init => Tidy(disk) /\ Map!MapInit
    BY MapStart DEF Init
<1>2. Tidy(disk) /\ [Next]_storeVars => Tidy(disk)' /\ [Map!MapNext]_(Map!mapVars)
  <2> SUFFICES ASSUME Tidy(disk), [Next]_storeVars
               PROVE  Tidy(disk)' /\ [Map!MapNext]_(Map!mapVars)
      OBVIOUS
  <2>1. CASE Next
      BY <2>1, MapStep
  <2>2. CASE UNCHANGED storeVars
    <3>1. disk' = disk /\ reply' = reply
        BY <2>2 DEF storeVars
    <3>2. \A u, j : FindInType(u, j)' = FindInType(u, j)
        BY <3>1, FindUnchanged
    <3>3. Objects' = Objects /\ Fixed' = Fixed
        BY <3>2 DEF Objects, Fixed
    <3> QED
        BY <3>1, <3>3 DEF Map!mapVars
  <2> QED
      BY <2>1, <2>2
<1> QED
    BY <1>1, <1>2, PTL DEF Spec, ImplementsObjectMap, Map!MapSpec
=============================================================================
