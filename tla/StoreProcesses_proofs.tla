------------------------ MODULE StoreProcesses_proofs ------------------------
(* Proofs about StoreProcesses, for any workspace, any number of processes   *)
(* and any number of commands.                                              *)
EXTENDS StoreProcesses, ObjectStore_proofs

(***************************************************************************)
(* fmt's order of a list.                                                  *)
(***************************************************************************)
LEMMA RankIsANumber == ASSUME NEW item \in Item PROVE Rank(item) \in Nat
    BY ProcessesAssumption DEF Rank

(* Every item has a place of its own, so that every place is taken.          *)
LEMMA PlaceIsInjective ==
    ASSUME NEW items \in Seq(Item), NEW m \in DOMAIN items, NEW n \in DOMAIN items
    PROVE  /\ Place(items, n) \in DOMAIN items
           /\ Place(items, m) = Place(items, n) => m = n
           /\ Precedes(items, m, n) => Place(items, m) < Place(items, n)
<1> DEFINE D == 1 .. Len(items)
           Ahead(i) == {j \in D : j = i \/ Precedes(items, j, i)}
<1>1. Len(items) \in Nat /\ DOMAIN items = D /\ D \subseteq Nat
    OBVIOUS
<1>2. IsFiniteSet(D) /\ Cardinality(D) = Len(items)
  <2>1. /\ IsFiniteSet(D)
        /\ Cardinality(D) = IF 1 > Len(items) THEN 0 ELSE Len(items) - 1 + 1
      BY <1>1, FS_Interval
  <2> QED
      BY <1>1, <2>1
<1>3. \A i \in D : IsFiniteSet(Ahead(i)) /\ Cardinality(Ahead(i)) \in 1 .. Len(items)
  <2> SUFFICES ASSUME NEW i \in D
               PROVE  IsFiniteSet(Ahead(i)) /\ Cardinality(Ahead(i)) \in 1 .. Len(items)
      OBVIOUS
  <2>1. Ahead(i) \in SUBSET D /\ Ahead(i) # {}
      OBVIOUS
  <2> HIDE DEF Ahead
  <2>2. IsFiniteSet(Ahead(i)) /\ Cardinality(Ahead(i)) <= Len(items)
      BY <1>2, <2>1, FS_Subset
  <2>3. Cardinality(Ahead(i)) \in Nat /\ Cardinality(Ahead(i)) # 0
      BY <2>1, <2>2, FS_CardinalityType, FS_EmptySet
  <2> QED
      BY <1>1, <2>2, <2>3
<1>4. \A i \in D : Place(items, i) = Cardinality(Ahead(i))
    BY <1>1 DEF Place
<1>5. \A i \in D : Rank(items[i]) \in Nat
    BY <1>1, RankIsANumber
<1>6. ASSUME NEW i \in D, NEW j \in D, Precedes(items, i, j)
      PROVE  Place(items, i) < Place(items, j)
  <2>1. Ahead(i) \subseteq Ahead(j)
      BY <1>1, <1>5, <1>6 DEF Precedes
  <2>2. j \in Ahead(j) /\ j \notin Ahead(i)
      BY <1>1, <1>5, <1>6 DEF Precedes
  <2> HIDE DEF Ahead
  <2>3. Cardinality(Ahead(i)) < Cardinality(Ahead(j))
    <3>1. Cardinality(Ahead(i)) <= Cardinality(Ahead(j))
        BY <1>3, <2>1, FS_Subset
    <3>2. Cardinality(Ahead(i)) # Cardinality(Ahead(j))
        BY <1>3, <2>1, <2>2, FS_Subset
    <3>3. Cardinality(Ahead(i)) \in Nat /\ Cardinality(Ahead(j)) \in Nat
        BY <1>1, <1>3
    <3> QED
        BY <3>1, <3>2, <3>3
  <2> QED
      BY <1>4, <2>3
<1>7. m # n => Precedes(items, m, n) \/ Precedes(items, n, m)
    BY <1>1, <1>5 DEF Precedes
<1>8. Place(items, m) \in 1 .. Len(items) /\ Place(items, n) \in 1 .. Len(items)
    BY <1>1, <1>3, <1>4
<1> QED
    BY <1>1, <1>6, <1>7, <1>8

LEMMA SortedIsAList ==
    ASSUME NEW items \in Seq(Item)
    PROVE  /\ Sorted(items) \in Seq(Item) /\ Len(Sorted(items)) = Len(items)
           /\ \A m \in DOMAIN items : Sorted(items)[Place(items, m)] = items[m]
           /\ \A n \in DOMAIN items : \E m \in DOMAIN items : Place(items, m) = n
<1> DEFINE D == 1 .. Len(items)
           place == [n \in D |-> Place(items, n)]
<1>1. Len(items) \in Nat /\ DOMAIN items = D /\ IsFiniteSet(D)
    BY FS_Interval
<1>2. place \in Injection(D, D)
    BY <1>1, PlaceIsInjective DEF Injection, IsInjective
<1>3. place \in Surjection(D, D)
    BY <1>1, <1>2, FS_Injection
<1>4. \A n \in D : \E m \in D : Place(items, m) = n
    BY <1>3 DEF Surjection
<1>5. \A n \in D : Sorted(items)[n] \in Item
  <2> SUFFICES ASSUME NEW n \in D PROVE Sorted(items)[n] \in Item
      OBVIOUS
  <2> DEFINE from == CHOOSE m \in D : Place(items, m) = n
  <2>1. from \in D
      BY <1>4
  <2>2. Sorted(items)[n] = items[from]
      BY <1>1 DEF Sorted
  <2>3. \A m \in D : items[m] \in Item
      BY <1>1
  <2> HIDE DEF from
  <2> QED
      BY <2>1, <2>2, <2>3
<1>6. DOMAIN Sorted(items) = D /\ Sorted(items) = [n \in D |-> Sorted(items)[n]]
    BY <1>1 DEF Sorted
<1>7. \A m \in D : Sorted(items)[Place(items, m)] = items[m]
  <2> SUFFICES ASSUME NEW m \in D PROVE Sorted(items)[Place(items, m)] = items[m]
      OBVIOUS
  <2>1. (CHOOSE i \in D : Place(items, i) = Place(items, m)) = m
      BY <1>1, PlaceIsInjective
  <2> QED
      BY <1>1, <2>1, PlaceIsInjective DEF Sorted
<1>8. Sorted(items) \in Seq(Item) /\ Len(Sorted(items)) = Len(items)
    BY <1>1, <1>5, <1>6
<1> QED
    BY <1>1, <1>4, <1>7, <1>8

(***************************************************************************)
(* The inductive invariant.  A process writes only what it has planned     *)
(* to, and what it plans is a file that a command may find; with nothing   *)
(* but payloads that have fields, it is not one that reads as empty.       *)
(***************************************************************************)
Steps == {"idle", "find", "load", "truncate", "fill", "remove", "read", "rename"}

JobInv(p) ==
    /\ pc[p] = "idle" => job[p] = Idle
    /\ pc[p] \in {"find", "load", "truncate", "fill", "remove"} =>
           /\ job[p] \in CommandJobs /\ job[p].key \in Keys[job[p].type]
           /\ IF job[p].op = "delete" THEN job[p].fields = Missing ELSE job[p].fields \in Payloads
    /\ pc[p] = "load" => job[p].op = "create"
    /\ pc[p] \in {"read", "rename"} => job[p] \in FmtJobs
    /\ pc[p] = "rename" => job[p].op = "fmt"

Whole(f) ==
    /\ f \in Files /\ f.shape # "broken"
    /\ NoFields \notin Payloads => f # Empty

PlanInv(p) ==
    /\ pc[p] \in {"idle", "find", "load", "read"} => plan[p] = NoPlan
    /\ pc[p] \in {"truncate", "fill", "remove", "rename"} => plan[p].path \in Paths
    /\ pc[p] \in {"truncate", "fill", "rename"} => Whole(plan[p].content)
    /\ pc[p] = "remove" => plan[p].content = Absent
    /\ pc[p] = "rename" => plan[p].seen # Absent /\ plan[p].content = Formatted(plan[p].seen)
    /\ pc[p] \in {"truncate", "fill", "remove"} /\ job[p].type \in PathTypes =>
           plan[p].path \in InRoot

ProcTypes ==
    /\ StoreTypeOK
    /\ pc \in [Processes -> Steps]
    /\ DOMAIN job = Processes /\ DOMAIN plan = Processes
    /\ attached \subseteq {p \in Processes : pc[p] = "fill"}
    /\ \A p \in attached : disk[plan[p].path] # Absent

ProcInv == ProcTypes /\ \A p \in Processes : JobInv(p) /\ PlanInv(p)

LEMMA ProcInvInit == ProcInit => ProcInv
BY DisksAssumption
   DEF ProcInit, Init, ProcInv, ProcTypes, StoreTypeOK, Steps, JobInv, PlanInv

LEMMA ProcInvTypes == ProcInv => ProcTypeOK
<1> SUFFICES ASSUME ProcInv, NEW p \in Processes
             PROVE  /\ pc[p] = "idle" <=> job[p] = Idle
                    /\ pc[p] \in {"truncate", "fill", "remove", "rename"} <=> plan[p] # NoPlan
                    /\ pc[p] = "remove" <=> plan[p] # NoPlan /\ plan[p].content = Absent
    BY DEF ProcTypeOK, ProcInv, ProcTypes
<1>1. pc[p] \in Steps /\ JobInv(p) /\ PlanInv(p)
    BY DEF ProcInv, ProcTypes
<1>2. pc[p] = "idle" <=> job[p] = Idle
    BY <1>1, IdleAssumption DEF Steps, JobInv
<1>3. plan[p].path \in Paths => plan[p] # NoPlan
    BY IdleAssumption DEF NoPlan
<1>4. \A f : Whole(f) => f # Absent
    BY ValuesAssumption DEF Whole, Files
<1> QED
    BY <1>1, <1>2, <1>3, <1>4 DEF Steps, PlanInv

(* Of a process that does not move, nothing changes.                         *)
Still(q) == UNCHANGED <<pc[q], job[q], plan[q]>>

LEMMA StillProcesses ==
    ASSUME NEW q \in Processes, JobInv(q), PlanInv(q), Still(q)
    PROVE  JobInv(q)' /\ PlanInv(q)'
BY DEF Still, JobInv, PlanInv, Whole

(* What a command writes reads as empty only if it was given no fields.      *)
LEMMA WrittenIsWhole ==
    ASSUME NEW fields \in Payloads, NEW f, Written(fields, f)
    PROVE  Whole(f)
<1> SUFFICES ASSUME NoFields \notin Payloads, f = Empty PROVE FALSE
    BY DEF Written, Whole
<1>1. f.type = NoType /\ f.items[1] = [id |-> NoId, fields |-> NoFields]
    BY DEF Empty, NoObject, Single
<1>2. PICK item \in Item :
          /\ f = Single(item)
          /\ item.fields = fields \/ \E old \in FieldMaps : item.fields = MergeMaps(old, fields)
    BY <1>1, ValuesAssumption DEF Written
<1>3. item.fields = NoFields
    BY <1>1, <1>2 DEF Single
<1>4. PICK old \in FieldMaps : NoFields = MergeMaps(old, fields)
    BY <1>2, <1>3
<1>5. fields \in FieldMaps /\ \A n \in Names : fields[n] = Unset
    BY <1>4, ProcessesAssumption DEF NoFields, MergeMaps
<1>6. fields = NoFields
    BY <1>5 DEF FieldMaps, NoFields
<1> QED
    BY <1>6

LEMMA TypedIsWhole ==
    ASSUME NEW f \in Files, f.shape # "broken", f.type \in Types PROVE Whole(f)
BY ValuesAssumption DEF Whole, Empty, Single

(* The step of p leaves the processes well-formed.                           *)
StepOf(p) ==
    /\ pc' \in [Processes -> Steps] /\ DOMAIN job' = Processes /\ DOMAIN plan' = Processes
    /\ JobInv(p)' /\ PlanInv(p)'
    /\ \A q \in Processes \ {p} : Still(q)

LEMMA EndStep ==
    ASSUME ProcInv, NEW p \in Processes, EndFmt(p)
    PROVE  StepOf(p)
BY DEF EndFmt, ProcInv, ProcTypes, Steps, StepOf, Still, JobInv, PlanInv

LEMMA EndIsEndFmt == ASSUME NEW p, NEW fields, NEW ok, End(p, fields, ok) PROVE EndFmt(p)
BY DEF End, EndFmt

LEMMA StartCommandStep ==
    ASSUME ProcInv, NEW p \in Processes, StartCommand(p)
    PROVE  StepOf(p) /\ UNCHANGED disk
<1>1. PICK j \in Jobs :
          \E fields \in IF j.op = "delete" THEN {Missing} ELSE Payloads :
             /\ Start(p, [op |-> j.op, type |-> j.type, key |-> j.key, fields |-> fields])
             /\ pc' = [pc EXCEPT ![p] = "find"]
             /\ UNCHANGED <<disk, plan, attached, crashedAt, contested>>
    BY DEF StartCommand
<1>2. PICK fields \in IF j.op = "delete" THEN {Missing} ELSE Payloads :
          /\ Start(p, [op |-> j.op, type |-> j.type, key |-> j.key, fields |-> fields])
          /\ pc' = [pc EXCEPT ![p] = "find"]
          /\ UNCHANGED <<disk, plan, attached, crashedAt, contested>>
    BY <1>1
<1> DEFINE new == [op |-> j.op, type |-> j.type, key |-> j.key, fields |-> fields]
<1>3. /\ new \in CommandJobs /\ new.key \in Keys[new.type]
      /\ IF new.op = "delete" THEN new.fields = Missing ELSE new.fields \in Payloads
    BY ProcessesAssumption DEF CommandJobs, Keys
<1> HIDE DEF new
<1>4. /\ pc[p] = "idle" /\ job' = [job EXCEPT ![p] = new]
      /\ pc' = [pc EXCEPT ![p] = "find"] /\ UNCHANGED <<disk, plan>>
    BY <1>2 DEF Start, new
<1>5. job'[p] = new /\ pc'[p] = "find" /\ plan'[p] = NoPlan
    BY <1>4 DEF ProcInv, ProcTypes, PlanInv
<1>6. JobInv(p)' /\ PlanInv(p)'
    BY <1>3, <1>5 DEF JobInv, PlanInv
<1> QED
    BY <1>4, <1>6 DEF ProcInv, ProcTypes, Steps, StepOf, Still

(* A process that goes on to write what it plans.                            *)
LEMMA PlanStep ==
    ASSUME ProcInv, NEW p \in Processes, NEW new,
           new.path \in Paths, new.content = Absent \/ Whole(new.content),
           pc[p] \in {"find", "load"},
           job[p].type \in PathTypes => new.path \in InRoot,
           plan' = [plan EXCEPT ![p] = new],
           pc' = [pc EXCEPT ![p] = IF new.content = Absent THEN "remove" ELSE "truncate"],
           job' = job
    PROVE  StepOf(p)
<1> USE DEF ProcInv, ProcTypes
<1>1. plan'[p] = new /\ DOMAIN plan' = Processes
    OBVIOUS
<1>2. /\ pc' \in [Processes -> Steps]
      /\ pc'[p] = IF new.content = Absent THEN "remove" ELSE "truncate"
    BY ValuesAssumption DEF Steps, Whole, Files
<1>3. JobInv(p)'
    BY <1>2 DEF JobInv
<1>4. PlanInv(p)'
    BY <1>1, <1>2 DEF PlanInv
<1> QED
    BY <1>1, <1>2, <1>3, <1>4 DEF StepOf, Still

LEMMA LookForPlaceStep ==
    ASSUME ProcInv, NEW p \in Processes, LookForPlace(p)
    PROVE  StepOf(p) /\ UNCHANGED disk
<1>1. pc[p] = "find" /\ job[p].op = "create" /\ UNCHANGED disk
    BY DEF LookForPlace
<1>2. CASE pc' = [pc EXCEPT ![p] = "load"] /\ UNCHANGED <<job, plan>>
    BY <1>1, <1>2 DEF ProcInv, ProcTypes, JobInv, PlanInv, Steps, StepOf, Still
<1>3. CASE End(p, Missing, FALSE)
    BY <1>1, <1>3, EndIsEndFmt, EndStep
<1> QED
    BY <1>1, <1>2, <1>3 DEF LookForPlace

LEMMA LoadTargetStep ==
    ASSUME ProcInv, NEW p \in Processes, LoadTarget(p)
    PROVE  StepOf(p) /\ UNCHANGED disk
<1> DEFINE t == job[p].type
           k == job[p].key
<1>1. /\ pc[p] = "load" /\ UNCHANGED disk
      /\ t \in Types /\ k \in Keys[t] /\ job[p].fields \in Payloads
    BY DEF LoadTarget, ProcInv, JobInv, CommandJobs
<1>2. PICK target \in CreateTargets(t, k) :
          LET f == disk[target.path]
          IN  IF f # Absent /\ ~LoadsAs(t, f)
              THEN End(p, Missing, FALSE)
              ELSE /\ plan' = [plan EXCEPT ![p] =
                          [path    |-> target.path,
                           seen    |-> f,
                           content |-> WithCreated(t, Stored(t, k, job[p].fields), target)]]
                   /\ pc' = [pc EXCEPT ![p] = "truncate"]
                   /\ UNCHANGED <<reply, job, started>>
    BY DEF LoadTarget
<1> DEFINE f == disk[target.path]
           content == WithCreated(t, Stored(t, k, job[p].fields), target)
<1>3. CASE f # Absent /\ ~LoadsAs(t, f)
    BY <1>1, <1>2, <1>3, EndIsEndFmt, EndStep
<1>4. CASE ~(f # Absent /\ ~LoadsAs(t, f))
  <2>1. target.path \in Paths /\ (t \in PathTypes => target.path \in InRoot)
      BY <1>1, CreateTargetIsAFile
  <2>2. job[p].fields \in FieldMaps
      BY <1>1, ProcessesAssumption
  <2>3. Written(job[p].fields, content)
      BY <1>1, <1>4, <2>2, CreateWritesAFile DEF ProcInv, ProcTypes
  <2>4. Whole(content)
      BY <1>1, <2>3, WrittenIsWhole
  <2> DEFINE new == [path |-> target.path, seen |-> f, content |-> content]
  <2>5. new.path = target.path /\ new.content = content /\ content # Absent
      BY <2>4, ValuesAssumption DEF Whole, Files
  <2>6. /\ plan' = [plan EXCEPT ![p] = new] /\ job' = job
        /\ pc' = [pc EXCEPT ![p] = "truncate"]
      BY <1>2, <1>4
  <2> HIDE DEF content, f, new
  <2>7. StepOf(p)
      BY <1>1, <2>1, <2>4, <2>5, <2>6, PlanStep
  <2> QED
      BY <1>1, <2>7
<1> QED
    BY <1>3, <1>4

(* What update and delete plan is a file, in the root for a $path type.      *)
LEMMA ChangesAreWhole ==
    ASSUME StoreTypeOK, NEW j \in CommandJobs, j.op # "create",
           j.op # "delete" => j.fields \in Payloads, NEW w \in Changes(j)
    PROVE  /\ w.path \in Paths /\ (w.content = Absent \/ Whole(w.content))
           /\ j.type \in PathTypes => w.path \in InRoot
<1>1. j.type \in Types /\ j.op \in {"update", "merge", "delete"}
    BY DEF CommandJobs, Operations
<1>2. CASE j.op = "delete"
  <2>1. w \in DeleteWrites(j.type, j.key)
      BY <1>2 DEF Changes
  <2> QED
      BY <1>1, <2>1, DeleteWritesAFile, TypedIsWhole
<1>3. CASE j.op \in {"update", "merge"}
  <2>1. PICK merge \in BOOLEAN : w \in UpdateWrites(j.type, j.key, j.fields, merge)
      BY <1>3 DEF Changes
  <2>2. j.fields \in FieldMaps /\ j.fields \in Payloads
      BY <1>3, ProcessesAssumption
  <2> QED
      BY <1>1, <2>1, <2>2, UpdateWritesAFile, WrittenIsWhole
<1> QED
    BY <1>1, <1>2, <1>3

LEMMA FindObjectStep ==
    ASSUME ProcInv, NEW p \in Processes, FindObject(p)
    PROVE  StepOf(p) /\ UNCHANGED disk
<1>1. /\ pc[p] = "find" /\ job[p].op # "create" /\ UNCHANGED disk
      /\ job[p] \in CommandJobs /\ (job[p].op # "delete" => job[p].fields \in Payloads)
    BY DEF FindObject, ProcInv, JobInv
<1>2. CASE End(p, Missing, FALSE)
    BY <1>1, <1>2, EndIsEndFmt, EndStep
<1>3. ASSUME NEW w \in Changes(job[p]),
             plan' = [plan EXCEPT ![p] = [path |-> w.path, seen |-> disk[w.path],
                                          content |-> w.content]],
             pc' = [pc EXCEPT ![p] = IF w.content = Absent THEN "remove" ELSE "truncate"],
             UNCHANGED job
      PROVE  StepOf(p)
  <2> DEFINE new == [path |-> w.path, seen |-> disk[w.path], content |-> w.content]
  <2>1. /\ w.path \in Paths /\ (w.content = Absent \/ Whole(w.content))
        /\ job[p].type \in PathTypes => w.path \in InRoot
      BY <1>1, ChangesAreWhole DEF ProcInv, ProcTypes
  <2>2. new.path = w.path /\ new.content = w.content /\ plan' = [plan EXCEPT ![p] = new]
      BY <1>3
  <2> HIDE DEF new
  <2> QED
      BY <1>1, <1>3, <2>1, <2>2, PlanStep
<1> QED
    BY <1>1, <1>2, <1>3 DEF FindObject

(* Whatever is left of files has a shape.                                    *)
LEMMA BlendsAreItems ==
    ASSUME NEW item \in Item, NEW under \in Item, NEW g \in Blends(item, under)
    PROVE  g \in Item /\ g.id \in {item.id, under.id}
<1>1. PICK i \in {item.id, under.id}, those \in SUBSET Names :
          g = [id     |-> i,
               fields |-> [n \in Names |-> IF n \in those THEN item.fields[n] ELSE under.fields[n]]]
    BY DEF Blends
<1> DEFINE fields == [n \in Names |-> IF n \in those THEN item.fields[n] ELSE under.fields[n]]
<1>2. item.fields \in FieldMaps /\ under.fields \in FieldMaps
    BY DEF Item
<1>3. fields \in FieldMaps
    BY <1>2 DEF FieldMaps
<1>4. i \in Ids \cup {NoId}
    BY DEF Item
<1> QED
    BY <1>1, <1>3, <1>4 DEF Item

LEMMA NoObjectIsAnItem == NoObject \in Item /\ NoObject.id = NoId
BY DEF NoObject, Item, NoFields, FieldMaps

LEMMA EmptyIsAFile == Empty \in Files /\ CutOff \in Files
BY NoObjectIsAnItem, SingleIsAFile DEF Empty, CutOff, Files, Contents

LEMMA SingleHasItem ==
    ASSUME NEW f \in Files
    PROVE  /\ f.items \in Seq(Item) /\ Len(f.items) \in Nat /\ DOMAIN f.items = 1 .. Len(f.items)
           /\ f.shape = "single" => Len(f.items) = 1 /\ f.items[1] \in Item
<1>1. /\ f.items \in Seq(Item) /\ Len(f.items) \in Nat /\ DOMAIN f.items = 1 .. Len(f.items)
      /\ f.shape = "single" => Len(f.items) = 1
    BY DEF Files, Contents
<1> QED
    BY <1>1

LEMMA TornIsAFile ==
    ASSUME NEW f \in Files, f.shape # "broken", NEW torn \in Torn(f)
    PROVE  /\ torn \in Files
           /\ torn \in {Empty, CutOff} \/ torn.shape = f.shape
           /\ torn \notin {Empty, CutOff} /\ torn.shape = "single" =>
                  torn.items[1].id \in {NoId, f.items[1].id}
<1>1. CASE torn \in {Empty, CutOff}
    BY <1>1, EmptyIsAFile
<1>2. CASE f.shape = "multi" /\ torn \notin {Empty, CutOff}
  <2>1. PICK n \in DOMAIN f.items : \E item \in Blends(f.items[n], NoObject) :
            torn = [f EXCEPT !.type = NoType, !.items = Append(SubSeq(@, 1, n - 1), item)]
      BY <1>2 DEF Torn, TornLists
  <2>2. PICK item \in Blends(f.items[n], NoObject) :
            torn = [f EXCEPT !.type = NoType, !.items = Append(SubSeq(@, 1, n - 1), item)]
      BY <2>1
  <2>3. f.items \in Seq(Item) /\ n \in 1 .. Len(f.items) /\ Len(f.items) \in Nat
      BY SingleHasItem
  <2>4. item \in Item
      BY <2>3, BlendsAreItems, NoObjectIsAnItem
  <2>5. SubSeq(f.items, 1, n - 1) \in Seq(Item)
      BY <2>3
  <2>6. Append(SubSeq(f.items, 1, n - 1), item) \in Seq(Item)
      BY <2>4, <2>5
  <2> QED
      BY <1>2, <2>2, <2>6 DEF Files, Contents
<1>3. CASE f.shape = "single" /\ torn \notin {Empty, CutOff}
  <2>1. PICK item \in Blends(f.items[1], NoObject) : torn = Single(item)
      BY <1>3 DEF Torn
  <2>2. item \in Item /\ item.id \in {NoId, f.items[1].id}
      BY <1>3, SingleHasItem, BlendsAreItems, NoObjectIsAnItem
  <2>3. torn.shape = "single" /\ torn.items[1] = item
      BY <2>1 DEF Single
  <2> QED
      BY <1>3, <2>1, <2>2, <2>3, SingleIsAFile
<1> QED
    BY <1>1, <1>2, <1>3 DEF Files, Contents

LEMMA SplicedIsAFile ==
    ASSUME NEW f \in Files, NEW under \in Files, NEW g \in Spliced(f, under)
    PROVE  /\ g \in Files /\ g.shape = f.shape /\ g.shape = under.shape
           /\ g.shape = "single" => g.items[1].id \in {f.items[1].id, under.items[1].id}
<1>1. CASE f.shape = "single" /\ under.shape = "single"
  <2>1. PICK item \in Blends(f.items[1], under.items[1]) : g = Single(item)
      BY <1>1 DEF Spliced
  <2>2. item \in Item /\ item.id \in {f.items[1].id, under.items[1].id}
      BY <1>1, SingleHasItem, BlendsAreItems
  <2>3. g.shape = "single" /\ g.items[1] = item
      BY <2>1 DEF Single
  <2> QED
      BY <1>1, <2>1, <2>2, <2>3, SingleIsAFile
<1>2. CASE f.shape = "multi" /\ under.shape = "multi"
  <2> DEFINE joint(n, m) == [under EXCEPT !.items = SubSeq(f.items, 1, n) \o SubSeq(@, m, Len(@))]
  <2>0. Spliced(f, under) = {joint(n, m) : n \in DOMAIN f.items, m \in DOMAIN under.items}
      BY <1>2 DEF Spliced
  <2> HIDE DEF joint
  <2>1. PICK n \in DOMAIN f.items, m \in DOMAIN under.items : g = joint(n, m)
      BY <2>0
  <2>2. /\ f.items \in Seq(Item) /\ n \in 1 .. Len(f.items) /\ Len(f.items) \in Nat
        /\ under.items \in Seq(Item) /\ m \in 1 .. Len(under.items) /\ Len(under.items) \in Nat
      BY SingleHasItem
  <2>3. SubSeq(f.items, 1, n) \in Seq(Item) /\ SubSeq(under.items, m, Len(under.items)) \in Seq(Item)
      BY <2>2
  <2>4. SubSeq(f.items, 1, n) \o SubSeq(under.items, m, Len(under.items)) \in Seq(Item)
      BY <2>3
  <2> QED
      BY <1>2, <2>1, <2>4 DEF joint, Files, Contents
<1> QED
    BY <1>1, <1>2 DEF Spliced

LEMMA OverlaidIsAFile ==
    ASSUME NEW f \in Files, f.shape # "broken", NEW under \in Files,
           NEW g \in Overlaid(f, under) \cup PartlyOverlaid(f, under)
    PROVE  g \in Files
<1>1. g \in {f, under, CutOff} \cup Torn(f) \cup Spliced(f, under)
    BY DEF Overlaid, PartlyOverlaid
<1> QED
    BY <1>1, EmptyIsAFile, TornIsAFile, SplicedIsAFile

LEMMA WriteSteps ==
    ASSUME ProcInv, NEW p \in Processes, Truncate(p) \/ Fill(p) \/ RemoveFile(p) \/ FmtRename(p)
    PROVE  StepOf(p) /\ StoreTypeOK'
<1> USE DEF ProcInv, ProcTypes
<1>1. CASE Truncate(p)
  <2>1. Empty \in Files
      BY EmptyIsAFile
  <2>2. StoreTypeOK'
      BY <1>1, <2>1 DEF Truncate, StoreTypeOK, Disks
  <2>3. /\ pc[p] = "truncate" /\ pc' = [pc EXCEPT ![p] = "fill"]
        /\ UNCHANGED <<job, plan>>
      BY <1>1 DEF Truncate
  <2>4. StepOf(p)
      BY <2>3 DEF StepOf, Still, Steps, JobInv, PlanInv, Whole
  <2> QED
      BY <2>2, <2>4
<1>2. CASE Fill(p)
  <2>1. pc[p] = "fill" /\ plan[p].content \in Files /\ plan[p].path \in Paths
      BY <1>2 DEF Fill, PlanInv, Whole
  <2>2. StoreTypeOK'
    <3>1. CASE p \in attached
      <4>1. PICK f \in Overlaid(plan[p].content, disk[plan[p].path]) :
                disk' = [disk EXCEPT ![plan[p].path] = f]
          BY <1>2, <3>1 DEF Fill
      <4>2. disk[plan[p].path] \in Files /\ plan[p].content.shape # "broken"
          BY <2>1, <3>1 DEF StoreTypeOK, Disks, PlanInv, Whole
      <4>3. f \in Files
          BY <2>1, <4>2, OverlaidIsAFile
      <4> QED
          BY <4>1, <4>3 DEF StoreTypeOK, Disks
    <3>2. CASE p \notin attached
        BY <1>2, <3>2 DEF Fill, StoreTypeOK
    <3> QED
        BY <3>1, <3>2
  <2> QED
      BY <1>2, <2>2, EndIsEndFmt, EndStep DEF Fill
<1>3. CASE RemoveFile(p)
    BY <1>3, EndIsEndFmt, EndStep DEF RemoveFile, StoreTypeOK, Disks
<1>4. CASE FmtRename(p)
  <2>1. pc[p] = "rename" /\ plan[p].content \in Files /\ plan[p].path \in Paths
      BY <1>4 DEF FmtRename, PlanInv, Whole
  <2>2. StoreTypeOK'
      BY <1>4, <2>1 DEF FmtRename, StoreTypeOK, Disks
  <2>3. StepOf(p)
      BY <1>4, <2>1 DEF FmtRename, StepOf, Still, Steps, JobInv, PlanInv
  <2> QED
      BY <2>2, <2>3
<1> QED
    BY <1>1, <1>2, <1>3, <1>4

LEMMA StartFmtStep ==
    ASSUME ProcInv, NEW p \in Processes, NEW op \in {"fmt", "lint"}, StartFmt(p, op)
    PROVE  StepOf(p) /\ UNCHANGED disk
<1> USE DEF ProcInv, ProcTypes
<1>1. PICK named \in {Paths} \cup {{e.path} : e \in Tracked} :
          Start(p, [Kind(op) EXCEPT !.todo = named \cap {e.path : e \in Tracked}])
    BY DEF StartFmt
<1> DEFINE todo == named \cap {e.path : e \in Tracked}
           new  == [Kind(op) EXCEPT !.todo = todo]
<1>2. todo \in SUBSET Paths
    BY DEF Tracked
<1> HIDE DEF todo
<1>3. new \in FmtJobs
    BY <1>2 DEF Kind, FmtJobs
<1>4. /\ pc[p] = "idle" /\ job' = [job EXCEPT ![p] = new]
      /\ pc' = [pc EXCEPT ![p] = "read"] /\ UNCHANGED <<disk, plan>>
    BY <1>1 DEF StartFmt, Start, todo
<1> HIDE DEF new
<1>5. job'[p] = new /\ pc'[p] = "read" /\ plan'[p] = NoPlan
    BY <1>4 DEF PlanInv
<1>6. JobInv(p)' /\ PlanInv(p)'
    BY <1>3, <1>5 DEF JobInv, PlanInv
<1> QED
    BY <1>4, <1>6 DEF Steps, StepOf, Still

LEMMA FirstFileIsOne ==
    ASSUME NEW files \in SUBSET Paths, files # {} PROVE FirstFile(files) \in files
<1> DEFINE ranks == {n \in DOMAIN PathOrder : PathOrder[n] \in files}
<1>1. ranks \in SUBSET Nat /\ ranks # {}
    BY LayoutAssumption
<1>2. Least(ranks) \in ranks
    BY <1>1, LeastIsLeast
<1> QED
    BY <1>2 DEF FirstFile

(* What fmt does to a file.                                                  *)
LEMMA TidyItemsAre ==
    ASSUME NEW f \in Files
    PROVE  /\ TidyItems(f) \in Seq(Item) /\ Len(TidyItems(f)) = Len(f.items)
           /\ \A n \in 1 .. Len(f.items) :
                  /\ TidyItems(f)[n].id = f.items[n].id
                  /\ TidyItems(f)[n].fields = Tidied[f.items[n].fields]
<1>1. /\ f.items \in Seq(Item) /\ Len(f.items) \in Nat /\ DOMAIN f.items = 1 .. Len(f.items)
      /\ \A n \in 1 .. Len(f.items) : f.items[n] \in Item
    BY SingleHasItem
<1>2. \A item \in Item : /\ [item EXCEPT !.fields = Tidied[@]] \in Item
                         /\ [item EXCEPT !.fields = Tidied[@]].id = item.id
                         /\ [item EXCEPT !.fields = Tidied[@]].fields = Tidied[item.fields]
    BY ProcessesAssumption DEF Item
<1>3. TidyItems(f) = [n \in 1 .. Len(f.items) |-> [f.items[n] EXCEPT !.fields = Tidied[@]]]
    BY <1>1 DEF TidyItems
<1> QED
    BY <1>1, <1>2, <1>3

LEMMA FormattedIs ==
    ASSUME NEW f \in Files
    PROVE  /\ Formatted(f) \in Files
           /\ Formatted(f).shape = f.shape /\ Formatted(f).type = f.type
           /\ Formatted(f).items = IF f.shape = "multi" THEN Sorted(TidyItems(f)) ELSE TidyItems(f)
           /\ Len(Formatted(f).items) = Len(f.items)
<1> DEFINE items == IF f.shape = "multi" THEN Sorted(TidyItems(f)) ELSE TidyItems(f)
<1>1. items \in Seq(Item) /\ Len(items) = Len(f.items)
    BY TidyItemsAre, SortedIsAList
<1>2. Formatted(f) = [f EXCEPT !.items = items]
    BY DEF Formatted
<1> HIDE DEF items
<1>3. /\ Formatted(f) \in Contents /\ Formatted(f).items = items
      /\ Formatted(f).shape = f.shape /\ Formatted(f).type = f.type
    BY <1>1, <1>2 DEF Files, Contents
<1> QED
    BY <1>1, <1>3 DEF Files, items

(* What fmt writes is again a file that reads as something.                  *)
LEMMA FormattedIsWhole ==
    ASSUME NEW f \in Files, f.shape # "broken", f # Empty PROVE Whole(Formatted(f))
<1>1. Formatted(f) \in Files /\ Formatted(f).shape # "broken"
    BY FormattedIs
<1>2. ASSUME Formatted(f) = Empty PROVE FALSE
  <2>1. f.shape = "single" /\ f.type = NoType /\ Len(f.items) = 1
      BY <1>2, FormattedIs DEF Empty, Single
  <2>2. /\ f.items[1] \in Item /\ TidyItems(f)[1] = NoObject
        /\ TidyItems(f)[1].id = f.items[1].id /\ TidyItems(f)[1].fields = Tidied[f.items[1].fields]
      BY <1>2, <2>1, FormattedIs, TidyItemsAre, SingleHasItem DEF Empty, Single
  <2>3. f.items[1].id = NoId /\ Tidied[f.items[1].fields] = NoFields
      BY <2>2 DEF NoObject
  <2>4. f.items[1].fields \in FieldMaps
      BY <2>2 DEF Item
  <2>5. \A n \in Names : f.items[1].fields[n] = Unset
      BY <2>3, <2>4, ProcessesAssumption DEF NoFields
  <2>6. f.items[1].fields = NoFields
      BY <2>4, <2>5 DEF FieldMaps, NoFields
  <2>7. f.items[1] = NoObject
      BY <2>2, <2>3, <2>6 DEF Item, NoObject
  <2>8. f.items = <<NoObject>>
      BY <2>1, <2>7, SingleHasItem
  <2>9. f = Empty
      BY <2>1, <2>8 DEF Files, Contents, Empty, Single
  <2> QED
      BY <2>9
<1> QED
    BY <1>1, <1>2 DEF Whole

LEMMA FmtReadStep ==
    ASSUME ProcInv, NEW p \in Processes, FmtRead(p)
    PROVE  StepOf(p) /\ UNCHANGED disk
<1> USE DEF ProcInv, ProcTypes
<1> DEFINE path == FirstFile(job[p].todo)
           f    == disk[path]
           left == [job EXCEPT ![p].todo = @ \ {path}]
<1>1. pc[p] = "read" /\ job[p] \in FmtJobs /\ plan[p] = NoPlan /\ UNCHANGED disk
    BY DEF FmtRead, JobInv, PlanInv
<1>2. CASE EndFmt(p)
    BY <1>1, <1>2, EndStep
<1>3. ASSUME ~EndFmt(p)
      PROVE  StepOf(p)
  <2>1. /\ job[p].todo # {} /\ f # Absent /\ f.shape # "broken"
        /\ job' = left
        /\ \/ UNCHANGED <<pc, plan>>
           \/ /\ f # Empty /\ job[p].op = "fmt"
              /\ plan' = [plan EXCEPT ![p] = [path |-> path, seen |-> f, content |-> Formatted(f)]]
              /\ pc' = [pc EXCEPT ![p] = "rename"]
      BY <1>3 DEF FmtRead
  <2>2. path \in Paths /\ f \in Files
      BY <1>1, <2>1, FirstFileIsOne DEF FmtJobs, StoreTypeOK, Disks
  <2>3. job'[p] \in FmtJobs /\ job'[p].op = job[p].op /\ DOMAIN job' = Processes /\ \A q \in Processes \ {p} : job'[q] = job[q]
      BY <1>1, <2>1 DEF FmtJobs
  <2>4. CASE UNCHANGED <<pc, plan>>
      BY <1>1, <2>3, <2>4 DEF StepOf, Still, JobInv, PlanInv
  <2>5. ASSUME f # Empty, job[p].op = "fmt",
               plan' = [plan EXCEPT ![p] = [path |-> path, seen |-> f, content |-> Formatted(f)]],
               pc' = [pc EXCEPT ![p] = "rename"]
        PROVE  StepOf(p)
    <3>1. Whole(Formatted(f))
        BY <2>1, <2>2, <2>5, FormattedIsWhole
    <3> DEFINE new == [path |-> path, seen |-> f, content |-> Formatted(f)]
    <3>2. /\ new.path = path /\ new.seen = f /\ new.content = Formatted(f)
          /\ f # Absent /\ plan' = [plan EXCEPT ![p] = new]
        BY <2>1, <2>5
    <3> HIDE DEF new, path, f
    <3>3. plan'[p] = new /\ pc'[p] = "rename" /\ DOMAIN plan' = Processes /\ pc' \in [Processes -> Steps]
        BY <2>5, <3>2 DEF Steps
    <3>4. JobInv(p)' /\ PlanInv(p)'
        BY <2>2, <2>3, <2>5, <3>1, <3>2, <3>3 DEF JobInv, PlanInv
    <3> QED
        BY <2>3, <2>5, <3>2, <3>3, <3>4 DEF StepOf, Still
  <2> QED
      BY <2>1, <2>4, <2>5
<1> QED
    BY <1>1, <1>2, <1>3

LEMMA CrashStep ==
    ASSUME ProcInv, NEW p \in Processes, Crash(p)
    PROVE  StepOf(p) /\ StoreTypeOK'
<1> USE DEF ProcInv, ProcTypes
<1>1. StepOf(p)
    BY EndStep DEF Crash
<1>2. CASE p \in attached
  <2>1. /\ plan[p].content \in Files /\ plan[p].content.shape # "broken"
        /\ disk[plan[p].path] \in Files
      BY <1>2 DEF PlanInv, Whole, StoreTypeOK, Disks
  <2>2. PICK torn \in PartlyOverlaid(plan[p].content, disk[plan[p].path]) :
            disk' = [disk EXCEPT ![plan[p].path] = torn]
      BY <1>2 DEF Crash
  <2>3. torn \in Files
      BY <2>1, OverlaidIsAFile
  <2> QED
      BY <1>1, <2>2, <2>3 DEF StoreTypeOK, Disks
<1>3. CASE p \notin attached
    BY <1>1, <1>3 DEF Crash, StoreTypeOK
<1> QED
    BY <1>2, <1>3

(* Who fills a file that is still at its path: such a file is there.          *)
LEMMA AttachedStep ==
    ASSUME ProcInv, NEW p \in Processes, Command(p) \/ Fmt(p) \/ Crash(p), StepOf(p), StoreTypeOK'
    PROVE  /\ attached' \subseteq {q \in Processes : pc'[q] = "fill"}
           /\ \A q \in attached' : disk'[plan'[q].path] # Absent
<1> USE DEF ProcInv, ProcTypes
<1>1. \A q \in Processes \ {p} : pc'[q] = pc[q] /\ plan'[q] = plan[q]
    BY DEF StepOf, Still
<1>2. \A q \in attached : q \in Processes /\ pc[q] = "fill" /\ plan[q].path \in Paths
    BY DEF PlanInv
<1>3. CASE Truncate(p)
  <2>1. /\ pc'[p] = "fill" /\ attached' = attached \cup {p} /\ plan' = plan
        /\ plan[p].path \in Paths /\ disk' = [disk EXCEPT ![plan[p].path] = Empty]
      BY <1>3 DEF Truncate, PlanInv
  <2>2. Empty # Absent
      BY EmptyIsAFile, ValuesAssumption DEF Files
  <2>3. disk'[plan'[p].path] # Absent
      BY <2>1, <2>2 DEF StoreTypeOK, Disks
  <2>4. \A q \in attached : disk'[plan'[q].path] # Absent
      BY <1>2, <2>1, <2>2 DEF StoreTypeOK, Disks
  <2> QED
      BY <1>1, <1>2, <2>1, <2>3, <2>4
<1>4. CASE Fill(p) \/ Crash(p)
  <2>1. attached' = attached \ {p}
      BY <1>4 DEF Fill, Crash
  <2>2. \A path \in Paths : disk[path] # Absent => disk'[path] # Absent
    <3>1. CASE p \in attached
      <4>1. /\ disk[plan[p].path] \in Files /\ plan[p].path \in Paths
            /\ plan[p].content \in Files /\ plan[p].content.shape # "broken"
          BY <3>1 DEF PlanInv, Whole, StoreTypeOK, Disks
      <4>2. PICK f \in Overlaid(plan[p].content, disk[plan[p].path])
                       \cup PartlyOverlaid(plan[p].content, disk[plan[p].path]) :
                disk' = [disk EXCEPT ![plan[p].path] = f]
          BY <1>4, <3>1 DEF Fill, Crash
      <4>3. f # Absent
          BY <4>1, OverlaidIsAFile, ValuesAssumption DEF Files
      <4> QED
          BY <4>1, <4>2, <4>3 DEF StoreTypeOK, Disks
    <3>2. CASE p \notin attached
        BY <1>4, <3>2 DEF Fill, Crash
    <3> QED
        BY <3>1, <3>2
  <2> QED
      BY <1>1, <1>2, <2>1, <2>2
<1>5. CASE RemoveFile(p) \/ FmtRename(p)
  <2>1. /\ pc[p] # "fill" /\ attached' = attached \ Filling(plan[p].path)
        /\ \E f : disk' = [disk EXCEPT ![plan[p].path] = f]
      BY <1>5 DEF RemoveFile, FmtRename, Replaced
  <2>2. \A q \in attached' : q # p /\ plan[q].path # plan[p].path
      BY <1>2, <2>1 DEF Filling
  <2>3. \A q \in attached' : disk'[plan[q].path] = disk[plan[q].path]
      BY <1>2, <2>1, <2>2 DEF StoreTypeOK, Disks
  <2> QED
      BY <1>1, <1>2, <2>1, <2>2, <2>3
<1>6. ASSUME ~Truncate(p), ~Fill(p), ~Crash(p), ~RemoveFile(p), ~FmtRename(p)
      PROVE  pc[p] # "fill" /\ UNCHANGED <<disk, attached>>
    BY <1>6 DEF Command, Fmt, StartCommand, LookForPlace, LoadTarget, FindObject, StartFmt,
       FmtRead, Start
<1> QED
    BY <1>1, <1>2, <1>3, <1>4, <1>5, <1>6

LEMMA ProcInvStep == ProcInv /\ [ProcNext]_vars => ProcInv'
<1> SUFFICES ASSUME ProcInv, ProcNext \/ UNCHANGED vars PROVE ProcInv'
    OBVIOUS
<1>1. ASSUME NEW p \in Processes, Command(p) \/ Fmt(p) \/ Crash(p)
      PROVE  ProcInv'
  <2>1. StepOf(p) /\ StoreTypeOK'
    <3>1. ASSUME StepOf(p), UNCHANGED disk
          PROVE  StoreTypeOK'
        BY <3>1 DEF ProcInv, ProcTypes, StoreTypeOK
    <3> QED
        BY <1>1, <3>1, StartCommandStep, LookForPlaceStep, LoadTargetStep, FindObjectStep,
           WriteSteps, StartFmtStep, FmtReadStep, CrashStep DEF Command, Fmt
  <2>2. \A q \in Processes \ {p} : JobInv(q)' /\ PlanInv(q)'
      BY <2>1, StillProcesses DEF StepOf, ProcInv
  <2>3. /\ attached' \subseteq {q \in Processes : pc'[q] = "fill"}
        /\ \A q \in attached' : disk'[plan'[q].path] # Absent
      BY <1>1, <2>1, AttachedStep
  <2> QED
      BY <2>1, <2>2, <2>3 DEF StepOf, ProcInv, ProcTypes
<1>2. CASE UNCHANGED vars
  <2>1. \A q \in Processes : Still(q)
      BY <1>2 DEF vars, procVars, Still
  <2>2. ProcTypes'
      BY <1>2 DEF vars, procVars, ProcInv, ProcTypes, StoreTypeOK
  <2> QED
      BY <2>1, <2>2, StillProcesses DEF ProcInv
<1> QED
    BY <1>1, <1>2 DEF ProcNext

(* Processes keep to their steps, and the files, torn ones too, keep a shape *)
(* that a command may find.                                                 *)
THEOREM ProcTypeCorrect == ProcSpec => []ProcTypeOK
BY ProcInvInit, ProcInvStep, ProcInvTypes, PTL DEF ProcSpec

(***************************************************************************)
(* Writes.                                                                 *)
(***************************************************************************)

(* Who may change a file: a process that has planned to.                     *)
LEMMA WhoWrites ==
    ASSUME ProcInv, [ProcNext]_vars, NEW path \in Paths, disk'[path] # disk[path]
    PROVE  \E p \in Processes :
               /\ plan[p].path = path
               /\ pc[p] \in {"truncate", "fill", "remove", "rename"}
               /\ \/ Truncate(p) \/ Fill(p) \/ RemoveFile(p) \/ FmtRename(p)
                  \/ p \in attached /\ Crash(p)
               /\ Fill(p) => p \in attached
<1>1. disk' # disk
    OBVIOUS
<1>2. PICK p \in Processes : Command(p) \/ Fmt(p) \/ Crash(p)
    BY <1>1 DEF ProcNext, vars
<1>0. Fill(p) \/ Crash(p) => p \in attached
    BY <1>1 DEF Fill, Crash
<1>3. Truncate(p) \/ Fill(p) \/ RemoveFile(p) \/ FmtRename(p) \/ (p \in attached /\ Crash(p))
  <2>1. \A op \in {"fmt", "lint"} : ~StartFmt(p, op)
      BY <1>1, StartFmtStep
  <2>2. ~StartCommand(p) /\ ~LookForPlace(p) /\ ~LoadTarget(p) /\ ~FindObject(p) /\ ~FmtRead(p)
      BY <1>1, StartCommandStep, LookForPlaceStep, LoadTargetStep, FindObjectStep, FmtReadStep
  <2>3. CASE Command(p)
      BY <2>2, <2>3 DEF Command
  <2>4. CASE Fmt(p)
      BY <2>1, <2>2, <2>4 DEF Fmt
  <2> QED
      BY <1>0, <1>2, <2>3, <2>4
<1>4. /\ pc[p] \in {"truncate", "fill", "remove", "rename"}
      /\ \E f : disk' = [disk EXCEPT ![plan[p].path] = f]
    BY <1>0, <1>3 DEF Truncate, Fill, RemoveFile, FmtRename, Crash, ProcInv, ProcTypes
<1>5. plan[p].path = path
    BY <1>4 DEF ProcInv, ProcTypes, StoreTypeOK, Disks
<1> QED
    BY <1>0, <1>3, <1>4, <1>5

(* A file outside the root is never changed for a $path type, whatever       *)
(* becomes of the files between the steps of a command.                      *)
THEOREM PathTypesInRoot == ProcSpec => PathTypesStayInRoot
<1>1. ProcInv /\ [ProcNext]_vars =>
          [\A path \in Paths \ InRoot :
              disk'[path] # disk[path] =>
                  \E p \in Processes :
                      /\ plan[p].path = path
                      /\ job[p].type \notin PathTypes]_vars
  <2> SUFFICES ASSUME ProcInv, [ProcNext]_vars,
                      NEW path \in Paths \ InRoot, disk'[path] # disk[path]
               PROVE  \E p \in Processes :
                          plan[p].path = path /\ job[p].type \notin PathTypes
      OBVIOUS
  <2>1. PICK p \in Processes :
            plan[p].path = path /\ pc[p] \in {"truncate", "fill", "remove", "rename"}
      BY WhoWrites
  <2>2. CASE pc[p] \in {"truncate", "fill", "remove"}
      BY <2>1, <2>2 DEF ProcInv, PlanInv
  <2>3. CASE pc[p] = "rename"
    <3>1. job[p].type = NoType
        BY <2>3 DEF ProcInv, JobInv, FmtJobs
    <3> QED
        BY <2>1, <3>1, ValuesAssumption, TypesAssumption
  <2> QED
      BY <2>1, <2>2, <2>3
<1> QED
    BY <1>1, ProcInvInit, ProcInvStep, PTL DEF ProcSpec, PathTypesStayInRoot

(***************************************************************************)
(* Torn files.                                                             *)
(***************************************************************************)
(* What a step means for one file and for those that fill it.                *)
LEMMA FillingStep ==
    ASSUME ProcInv, NEW q \in Processes, Command(q) \/ Fmt(q) \/ Crash(q), NEW path \in Paths
    PROVE  \/ Truncate(q) /\ plan[q].path = path
           \/ (Fill(q) \/ Crash(q)) /\ q \in Filling(path)
           \/ (RemoveFile(q) \/ FmtRename(q)) /\ plan[q].path = path
           \/ /\ Filling(path)' = Filling(path) /\ disk'[path] = disk[path]
              /\ path \in crashedAt' <=> path \in crashedAt
              /\ path \in contested' <=> path \in contested
<1> USE DEF ProcInv, ProcTypes
<1> DEFINE Same == /\ Filling(path)' = Filling(path) /\ disk'[path] = disk[path]
                   /\ path \in crashedAt' <=> path \in crashedAt
                   /\ path \in contested' <=> path \in contested
<1>1. StepOf(q)
    BY StartCommandStep, LookForPlaceStep, LoadTargetStep, FindObjectStep,
       WriteSteps, StartFmtStep, FmtReadStep, CrashStep DEF Command, Fmt
<1>2. \A p \in Processes \ {q} : plan'[p] = plan[p]
    BY <1>1 DEF StepOf, Still
<1>3. \A p \in attached : p \in Processes /\ pc[p] = "fill"
    OBVIOUS
<1>4. disk \in [Paths -> Files \cup {Absent}]
    BY DEF StoreTypeOK, Disks
<1>5. CASE Truncate(q) /\ plan[q].path # path
  <2>1. /\ pc[q] = "truncate" /\ disk'[path] = disk[path] /\ attached' = attached \cup {q}
        /\ plan' = plan /\ crashedAt' = crashedAt \ {plan[q].path}
        /\ \/ contested' = contested \ {plan[q].path}
           \/ contested' = contested \cup {plan[q].path}
      BY <1>4, <1>5 DEF Truncate
  <2>2. Filling(path)' = Filling(path)
      BY <1>5, <2>1 DEF Filling
  <2> QED
      BY <1>5, <2>1, <2>2
<1>6. CASE (Fill(q) \/ Crash(q)) /\ q \notin Filling(path)
  <2>1. /\ attached' = attached \ {q} /\ contested' = contested
        /\ q \in attached => plan[q].path # path
      BY <1>6 DEF Fill, Crash, Filling
  <2>2. disk'[path] = disk[path] /\ (path \in crashedAt' <=> path \in crashedAt)
      BY <1>4, <1>6, <2>1 DEF Fill, Crash
  <2>3. Filling(path)' = Filling(path)
      BY <1>2, <1>3, <2>1 DEF Filling
  <2> QED
      BY <2>1, <2>2, <2>3
<1>7. CASE (RemoveFile(q) \/ FmtRename(q)) /\ plan[q].path # path
  <2>1. /\ pc[q] # "fill" /\ disk'[path] = disk[path]
        /\ attached' = attached \ Filling(plan[q].path)
        /\ crashedAt' = crashedAt \ {plan[q].path} /\ contested' = contested \ {plan[q].path}
      BY <1>4, <1>7 DEF RemoveFile, FmtRename, Replaced
  <2>2. Filling(path)' = Filling(path)
      BY <1>2, <1>3, <1>7, <2>1 DEF Filling
  <2> QED
      BY <1>7, <2>1, <2>2
<1>8. ASSUME ~Truncate(q), ~Fill(q), ~Crash(q), ~RemoveFile(q), ~FmtRename(q)
      PROVE  Same
  <2>1. pc[q] # "fill" /\ UNCHANGED <<disk, attached, crashedAt, contested>>
      BY <1>8 DEF Command, Fmt, StartCommand, LookForPlace, LoadTarget, FindObject, StartFmt,
         FmtRead, Start
  <2>2. Filling(path)' = Filling(path)
      BY <1>2, <1>3, <2>1 DEF Filling
  <2> QED
      BY <2>1, <2>2
<1> QED
    BY <1>5, <1>6, <1>7, <1>8

(* As long as one process has a file to itself, the file is empty until it    *)
(* fills it.                                                                *)
Alone ==
    \A path \in Paths :
        path \notin crashedAt \cup contested =>
            \A p \in Filling(path) : Filling(path) = {p} /\ disk[path] = Empty

LEMMA AloneStep == ProcInv /\ Alone /\ [ProcNext]_vars => Alone'
<1> SUFFICES ASSUME ProcInv, Alone, [ProcNext]_vars, NEW path \in Paths,
                    path \notin crashedAt' \cup contested', NEW p \in Filling(path)'
             PROVE  Filling(path)' = {p} /\ disk'[path] = Empty
    BY DEF Alone
<1>1. ASSUME NEW q \in Processes, Command(q) \/ Fmt(q) \/ Crash(q)
      PROVE  Filling(path)' = {p} /\ disk'[path] = Empty
  <2>1. CASE Truncate(q) /\ plan[q].path = path
    <3>1. disk'[path] = Empty
        BY <2>1 DEF Truncate, ProcInv, ProcTypes, StoreTypeOK, Disks
    <3>2. Filling(path) = {}
        BY <2>1 DEF Truncate
    <3>3. Filling(path)' = Filling(path) \cup {q}
        BY <2>1 DEF Truncate, Filling
    <3> QED
        BY <3>1, <3>2, <3>3
  <2>2. CASE (Fill(q) \/ Crash(q)) /\ q \in Filling(path)
    <3>1. path \notin crashedAt \cup contested
        BY <2>2 DEF Fill, Crash
    <3>2. Filling(path) = {q} /\ attached' = attached \ {q}
        BY <2>2, <3>1 DEF Alone, Fill, Crash
    <3>3. StepOf(q)
        BY <2>2, WriteSteps, CrashStep
    <3>4. p \in attached /\ p # q /\ plan'[p].path = path /\ p \in Processes
        BY <3>2 DEF Filling, ProcInv, ProcTypes
    <3>5. p \in Filling(path)
        BY <3>3, <3>4 DEF StepOf, Still, Filling
    <3> QED
        BY <3>2, <3>4, <3>5
  <2>3. CASE (RemoveFile(q) \/ FmtRename(q)) /\ plan[q].path = path
    <3>1. attached' = attached \ Filling(path) /\ pc[q] # "fill"
        BY <2>3 DEF RemoveFile, FmtRename, Replaced
    <3>2. StepOf(q)
        BY <2>3, WriteSteps
    <3>3. p \in attached /\ p \notin Filling(path) /\ plan'[p].path = path
          /\ p \in Processes /\ p # q
        BY <3>1 DEF Filling, ProcInv, ProcTypes
    <3>4. FALSE
        BY <3>2, <3>3 DEF StepOf, Still, Filling
    <3> QED
        BY <3>4
  <2>4. CASE /\ Filling(path)' = Filling(path) /\ disk'[path] = disk[path]
             /\ path \in crashedAt' <=> path \in crashedAt
             /\ path \in contested' <=> path \in contested
      BY <2>4 DEF Alone
  <2> QED
      BY <1>1, <2>1, <2>2, <2>3, <2>4, FillingStep
<1>2. CASE UNCHANGED vars
    BY <1>2 DEF vars, procVars, Filling, Alone
<1> QED
    BY <1>1, <1>2 DEF ProcNext

LEMMA TornStep ==
    ASSUME NothingTorn, ProcInv, Alone, TornOnlyByCommands, [ProcNext]_vars
    PROVE  TornOnlyByCommands'
<1> SUFFICES ASSUME NEW path \in Paths, disk'[path] \in {Empty, CutOff}
             PROVE  Filling(path)' # {} \/ path \in crashedAt' \cup contested'
    BY DEF TornOnlyByCommands
<1>1. \A f : Whole(f) => f \notin {Empty, CutOff}
    BY DEF NothingTorn, Whole, CutOff
<1>2. Absent \notin {Empty, CutOff}
    BY EmptyIsAFile, ValuesAssumption DEF Files
<1>3. disk \in [Paths -> Files \cup {Absent}]
    BY DEF ProcInv, ProcTypes, StoreTypeOK, Disks
<1>4. ASSUME NEW q \in Processes, Command(q) \/ Fmt(q) \/ Crash(q)
      PROVE  Filling(path)' # {} \/ path \in crashedAt' \cup contested'
  <2>1. CASE Truncate(q) /\ plan[q].path = path
    <3>1. q \in Filling(path)'
        BY <2>1 DEF Truncate, Filling
    <3> QED
        BY <3>1
  <2>2. CASE Fill(q) /\ q \in Filling(path)
    <3>1. CASE path \in crashedAt \cup contested
        BY <2>2, <3>1 DEF Fill
    <3>2. CASE path \notin crashedAt \cup contested
      <4>1. disk[path] = Empty /\ q \in attached /\ plan[q].path = path
          BY <2>2, <3>2 DEF Alone, Filling
      <4>2. PICK f \in Overlaid(plan[q].content, Empty) : disk' = [disk EXCEPT ![path] = f]
          BY <2>2, <4>1 DEF Fill
      <4>3. f = plan[q].content
          BY <4>2 DEF Overlaid
      <4>4. Whole(plan[q].content)
          BY <2>2 DEF Fill, ProcInv, PlanInv
      <4> QED
          BY <1>1, <1>3, <4>2, <4>3, <4>4
    <3> QED
        BY <3>1, <3>2
  <2>3. CASE Crash(q) /\ q \in Filling(path)
      BY <2>3 DEF Crash, Filling
  <2>4. CASE (RemoveFile(q) \/ FmtRename(q)) /\ plan[q].path = path
    <3>1. disk'[path] = Absent \/ Whole(disk'[path])
        BY <1>3, <2>4 DEF RemoveFile, FmtRename, ProcInv, PlanInv
    <3> QED
        BY <1>1, <1>2, <3>1
  <2>5. CASE /\ Filling(path)' = Filling(path) /\ disk'[path] = disk[path]
             /\ path \in crashedAt' <=> path \in crashedAt
             /\ path \in contested' <=> path \in contested
      BY <2>5 DEF TornOnlyByCommands
  <2> QED
      BY <1>4, <2>1, <2>2, <2>3, <2>4, <2>5, FillingStep
<1>5. CASE UNCHANGED vars
    BY <1>5 DEF vars, procVars, Filling, TornOnlyByCommands
<1> QED
    BY <1>4, <1>5 DEF ProcNext

(* A file is torn only while a command fills it, after one was killed at      *)
(* that, or after two were filling it at once; fmt never leaves a torn file.  *)
THEOREM TornByCommands ==
    ASSUME NothingTorn PROVE ProcSpec => []TornOnlyByCommands
<1>1. ProcInit => TornOnlyByCommands
    BY DEF ProcInit, Init, NothingTorn, TornOnlyByCommands
<1>2. ProcInit => Alone
    BY DEF ProcInit, Alone, Filling
<1> QED
    BY <1>1, <1>2, ProcInvInit, ProcInvStep, AloneStep, TornStep, PTL DEF ProcSpec

(***************************************************************************)
(* Commands nobody races.  What ObjectStore makes of the settled files is  *)
(* a matter of these files alone: while they stay, it does, and as long as *)
(* no file is being filled, it is what the command itself comes to.        *)
(***************************************************************************)
LEMMA SettledLookups ==
    ASSUME UNCHANGED Settled
    PROVE  /\ \A types, k : UNCHANGED Store!FindInTypes(types, k)
           /\ \A t, k : UNCHANGED Store!Changeable(t, k)
<1>1. \A t, n, rank : UNCHANGED Store!ItemsAt(t, n, rank)
    BY DEF Store!ItemsAt
<1>2. \A t : UNCHANGED Store!Positions(t)
    BY <1>1 DEF Store!Positions
<1>3. \A t, s : UNCHANGED Store!KeyAt(t, s)
    BY DEF Store!KeyAt
<1>4. \A t, s : UNCHANGED Store!FoundAt(t, s)
    BY DEF Store!FoundAt
<1>5. \A t, k : UNCHANGED Store!FindInType(t, k)
    BY <1>2, <1>3, <1>4 DEF Store!FindInType
<1>6. \A types, k : UNCHANGED Store!FindInTypes(types, k)
    BY <1>5 DEF Store!FindInTypes
<1> QED
    BY <1>6 DEF Store!Changeable

LEMMA SettledWrites ==
    ASSUME UNCHANGED Settled
    PROVE  /\ \A t, k, fields : UNCHANGED Store!CreateWrites(t, k, fields)
           /\ \A t, k, fields, merge : UNCHANGED Store!UpdateWrites(t, k, fields, merge)
           /\ \A t, k : UNCHANGED Store!DeleteWrites(t, k)
<1>1. \A t, item, target : UNCHANGED Store!WithCreated(t, item, target)
    BY DEF Store!WithCreated
<1>2. \A t, k, fields : UNCHANGED Store!CreateWrites(t, k, fields)
    BY <1>1, SettledLookups DEF Store!CreateWrites
<1>3. \A t, k, fields, merge : UNCHANGED Store!UpdateWrites(t, k, fields, merge)
    BY SettledLookups DEF Store!UpdateWrites
<1>4. \A t, k : UNCHANGED Store!DeleteWrites(t, k)
    BY SettledLookups DEF Store!DeleteWrites
<1> QED
    BY <1>2, <1>3, <1>4

LEMMA StoreConstants ==
    /\ \A t, inc, f : Store!Loads(t, inc, f) = Loads(t, inc, f)
    /\ \A t, f : Store!LoadsAs(t, f) = LoadsAs(t, f)
    /\ \A inc, f : Store!Several(inc, f) = Several(inc, f)
    /\ \A s : Store!FileAt(s) = FileAt(s)
    /\ \A positions : Store!FirstOf(positions) = FirstOf(positions)
    /\ \A t, k : Store!FoundInline(t, k) = FoundInline(t, k)
    /\ Store!NotFound = NotFound /\ Store!Unreadable = Unreadable
    /\ \A t, loc : Store!Writable(t, loc) = Writable(t, loc)
    /\ \A t, k : Store!CreateTargets(t, k) = CreateTargets(t, k)
    /\ \A t, k, fields : Store!Stored(t, k, fields) = Stored(t, k, fields)
    /\ \A item : Store!Single(item) = Single(item)
    /\ \A old, new : Store!MergeMaps(old, new) = MergeMaps(old, new)
    /\ Store!FieldMaps = FieldMaps
    /\ \A f, n, fields, merge : Store!Updated(f, n, fields, merge) = Updated(f, n, fields, merge)
    /\ \A t, f, n, item : Store!WithUpdated(t, f, n, item) = WithUpdated(t, f, n, item)
    /\ \A t, f, n : Store!WithDeleted(t, f, n) = WithDeleted(t, f, n)
    /\ \A S : Store!Cardinality(S) = Cardinality(S)
    /\ \A op, t, k, fields, ok : Store!Answer(op, t, k, fields, ok) = Answer(op, t, k, fields, ok)
<1>1. \A t, inc, f : Store!Loads(t, inc, f) = Loads(t, inc, f)
    BY DEF Store!Loads, Loads, Store!LoadsAs, LoadsAs
<1>2. \A t, f : Store!LoadsAs(t, f) = LoadsAs(t, f)
    BY DEF Store!LoadsAs, LoadsAs
<1>3. \A inc, f : Store!Several(inc, f) = Several(inc, f)
    BY DEF Store!Several, Several
<1>4. \A s : Store!FileAt(s) = FileAt(s)
    BY DEF Store!FileAt, FileAt
<1>5. \A positions : Store!FirstOf(positions) = FirstOf(positions)
    BY DEF Store!FirstOf, FirstOf, Store!Before, Before
<1>6. \A t, k : Store!FoundInline(t, k) = FoundInline(t, k)
    BY DEF Store!FoundInline, FoundInline
<1>7. Store!NotFound = NotFound /\ Store!Unreadable = Unreadable
    BY DEF Store!NotFound, NotFound, Store!Unreadable, Unreadable
<1>8. \A t, loc : Store!Writable(t, loc) = Writable(t, loc)
    BY DEF Store!Writable, Writable
<1>9. \A t, k : Store!CreateTargets(t, k) = CreateTargets(t, k)
    BY DEF Store!CreateTargets, CreateTargets, Store!PathTargets, PathTargets, Store!Globs,
       Globs, Store!WritableIncludes, WritableIncludes, Store!Least, Least
<1>10. \A t, k, fields : Store!Stored(t, k, fields) = Stored(t, k, fields)
    BY DEF Store!Stored, Stored
<1>11. \A item : Store!Single(item) = Single(item)
    BY DEF Store!Single, Single
<1>12. \A old, new : Store!MergeMaps(old, new) = MergeMaps(old, new)
    BY DEF Store!MergeMaps, MergeMaps
<1>13. Store!FieldMaps = FieldMaps
    BY DEF Store!FieldMaps, FieldMaps
<1>14. \A op, t, k, fields, ok : Store!Answer(op, t, k, fields, ok) = Answer(op, t, k, fields, ok)
    BY DEF Store!Answer, Answer
<1>15. \A f, n, fields, merge : Store!Updated(f, n, fields, merge) = Updated(f, n, fields, merge)
    BY <1>12 DEF Store!Updated, Updated
<1>16. \A t, f, n, item : Store!WithUpdated(t, f, n, item) = WithUpdated(t, f, n, item)
    BY <1>11 DEF Store!WithUpdated, WithUpdated
<1>17. \A S : Store!Cardinality(S) = Cardinality(S)
    BY DEF Store!Cardinality, Cardinality
<1>18. \A t, f, n : Store!WithDeleted(t, f, n) = WithDeleted(t, f, n)
    BY DEF Store!WithDeleted, WithDeleted
<1> QED
    BY <1>1, <1>2, <1>3, <1>4, <1>5, <1>6, <1>7, <1>8, <1>9, <1>10, <1>11, <1>12, <1>13, <1>14,
       <1>15, <1>16, <1>17, <1>18

LEMMA SettledIsDisk ==
    ASSUME Settled = disk
    PROVE  /\ \A types, k : Store!FindInTypes(types, k) = FindInTypes(types, k)
           /\ \A t, k : Store!Changeable(t, k) = Changeable(t, k)
           /\ \A t, k, fields : Store!CreateWrites(t, k, fields) = CreateWrites(t, k, fields)
           /\ \A t, k, fields, merge :
                  Store!UpdateWrites(t, k, fields, merge) = UpdateWrites(t, k, fields, merge)
           /\ \A t, k : Store!DeleteWrites(t, k) = DeleteWrites(t, k)
<1>1. \A t, n, rank : Store!ItemsAt(t, n, rank) = ItemsAt(t, n, rank)
    BY StoreConstants DEF Store!ItemsAt, ItemsAt, Store!Readable, Readable
<1>2. \A t : Store!Positions(t) = Positions(t)
    BY <1>1 DEF Store!Positions, Positions
<1>3. \A t, s : Store!KeyAt(t, s) = KeyAt(t, s)
    BY StoreConstants DEF Store!KeyAt, KeyAt, Store!KeyOf, KeyOf
<1>4. \A t, s : Store!FoundAt(t, s) = FoundAt(t, s)
    BY StoreConstants DEF Store!FoundAt, FoundAt
<1>5. \A t, k : Store!FindInType(t, k) = FindInType(t, k)
    BY <1>2, <1>3, <1>4, StoreConstants DEF Store!FindInType, FindInType
<1>6. \A types, k : Store!FindInTypes(types, k) = FindInTypes(types, k)
  <2> SUFFICES ASSUME NEW types, NEW k
               PROVE  Store!FindInTypes(types, k) = FindInTypes(types, k)
      OBVIOUS
  <2> DEFINE hits  == {FindInType(t, k) : t \in types} \ {NotFound}
             there == {Store!FindInType(t, k) : t \in types} \ {Store!NotFound}
  <2>1. there = hits
      BY <1>5, StoreConstants
  <2>2. FindInTypes(types, k) =
            IF hits = {} THEN NotFound
            ELSE IF Unreadable \in hits \/ Cardinality(hits) > 1 THEN Unreadable
            ELSE CHOOSE loc \in hits : TRUE
      BY DEF FindInTypes
  <2>3. Store!FindInTypes(types, k) =
            IF there = {} THEN Store!NotFound
            ELSE IF Store!Unreadable \in there \/ Store!Cardinality(there) > 1 THEN Store!Unreadable
            ELSE CHOOSE loc \in there : TRUE
      BY DEF Store!FindInTypes
  <2> HIDE DEF hits, there
  <2> QED
      BY <2>1, <2>2, <2>3, StoreConstants
<1>7. \A t, k : Store!Changeable(t, k) = Changeable(t, k)
    BY <1>6, StoreConstants DEF Store!Changeable, Changeable
<1>8. \A t, item, target : Store!WithCreated(t, item, target) = WithCreated(t, item, target)
    BY StoreConstants DEF Store!WithCreated, WithCreated
<1>9. \A t, k, fields : Store!CreateWrites(t, k, fields) = CreateWrites(t, k, fields)
    BY <1>6, <1>8, StoreConstants DEF Store!CreateWrites, CreateWrites
<1>10. \A t, k, fields, merge :
           Store!UpdateWrites(t, k, fields, merge) = UpdateWrites(t, k, fields, merge)
    BY <1>7, StoreConstants DEF Store!UpdateWrites, UpdateWrites
<1>11. \A t, k : Store!DeleteWrites(t, k) = DeleteWrites(t, k)
    BY <1>7, StoreConstants DEF Store!DeleteWrites, DeleteWrites
<1> QED
    BY <1>6, <1>7, <1>9, <1>10, <1>11

(* What the command of ObjectStore writes to the settled files.              *)
Planned(j) ==
    CASE j.op = "create" -> Store!CreateWrites(j.type, j.key, j.fields)
      [] j.op = "update" -> Store!UpdateWrites(j.type, j.key, j.fields, FALSE)
      [] j.op = "merge"  -> Store!UpdateWrites(j.type, j.key, j.fields, TRUE)
      [] j.op = "delete" -> Store!DeleteWrites(j.type, j.key)

LEMMA PlannedStays ==
    ASSUME NEW p \in Processes, UNCHANGED Settled, UNCHANGED job[p]
    PROVE  UNCHANGED Planned(job[p])
<1>1. \A j : UNCHANGED Planned(j)
    BY SettledWrites DEF Planned
<1> QED
    BY <1>1 DEF Planned

(* A process that runs and has not been overtaken: nobody else is filling a  *)
(* file, and it still stands by what it has looked up.                       *)
RaceInv(p) ==
    p \notin overtaken /\ pc[p] # "idle" =>
        /\ \A q \in Processes \ {p} : pc[q] # "fill"
        /\ pc[p] = "load" => Store!FindInTypes(HierarchyOf[job[p].type], job[p].key) = NotFound
        /\ pc[p] \in {"truncate", "fill", "remove"} =>
               /\ plan[p].seen = Settled[plan[p].path]
               /\ [path |-> plan[p].path, content |-> plan[p].content] \in Planned(job[p])
        /\ pc[p] = "fill" => p \in attached /\ disk[plan[p].path] = Empty
        /\ pc[p] = "remove" => job[p].op = "delete" /\ plan[p].seen # Absent

LEMMA NobodyFills ==
    ASSUME ProcInv, \A q \in Processes : pc[q] # "fill"
    PROVE  attached = {} /\ Settled = disk
<1>1. attached = {}
    BY DEF ProcInv, ProcTypes
<1>2. \A path : Filling(path) = {}
    BY <1>1 DEF Filling
<1> QED
    BY <1>1, <1>2 DEF Settled, ProcInv, ProcTypes, StoreTypeOK, Disks

LEMMA NobodyFillsThen ==
    ASSUME ProcInv', \A q \in Processes : pc'[q] # "fill"
    PROVE  attached' = {} /\ Settled' = [path \in Paths |-> disk'[path]]
<1>1. attached' = {}
    BY DEF ProcInv, ProcTypes
<1>2. \A path : Filling(path)' = {}
    BY <1>1 DEF Filling
<1> QED
    BY <1>1, <1>2 DEF Settled

LEMMA OneFills ==
    ASSUME ProcInv, NEW p \in attached, plan[p].path \in Paths,
           \A q \in Processes \ {p} : pc[q] # "fill"
    PROVE  Settled = [disk EXCEPT ![plan[p].path] = plan[p].seen]
<1>1. attached = {p}
    BY DEF ProcInv, ProcTypes
<1>2. \A path : Filling(path) = IF path = plan[p].path THEN {p} ELSE {}
    BY <1>1 DEF Filling
<1>3. Settled = [path \in Paths |-> IF path = plan[p].path THEN plan[p].seen ELSE disk[path]]
    BY <1>2 DEF Settled
<1> QED
    BY <1>3 DEF ProcInv, ProcTypes, StoreTypeOK, Disks

(* The step of another process, if it does not overtake p, leaves the files  *)
(* alone.                                                                   *)
LEMMA BesideStep ==
    ASSUME ProcInv, NEW p \in Processes, NEW q \in Processes \ {p}, RaceInv(p),
           Command(q) \/ Fmt(q) \/ Crash(q), p \notin overtaken', pc'[p] # "idle"
    PROVE  /\ p \notin overtaken /\ Still(p)
           /\ UNCHANGED <<disk, attached>> /\ pc'[q] # "fill"
           /\ \A r \in Processes \ {p} : pc'[r] # "fill"
<1>1. StepOf(q)
    BY StartCommandStep, LookForPlaceStep, LoadTargetStep, FindObjectStep,
       WriteSteps, StartFmtStep, FmtReadStep, CrashStep DEF Command, Fmt
<1>2. Still(p) /\ pc[p] # "idle"
    BY <1>1 DEF StepOf, Still
<1>3. p \notin Overtaking(q) => p \in overtaken'
    BY <1>2 DEF Overtaking
<1>4. p \in Overtaking(q)
    BY <1>2 DEF Overtaking
<1>5. overtaken' # Overtaking(q)
    BY <1>4
<1>6. p \notin overtaken
    BY <1>5 DEF Command, Fmt, StartCommand, LookForPlace, LoadTarget, FindObject, Truncate,
       Fill, RemoveFile, StartFmt, FmtRead, FmtRename, Crash, Start
<1>7. \A r \in Processes \ {p} : pc[r] # "fill"
    BY <1>2, <1>6 DEF RaceInv
<1>8. UNCHANGED <<disk, attached>>
  <2>1. q \notin attached
      BY <1>7 DEF ProcInv, ProcTypes
  <2> QED
      BY <1>5, <2>1 DEF Command, Fmt, StartCommand, LookForPlace, LoadTarget, FindObject, Truncate,
         Fill, RemoveFile, StartFmt, FmtRead, FmtRename, Crash
<1>9. pc'[q] # "fill"
    BY <1>5, <1>7 DEF ProcInv, ProcTypes, Command, Fmt, StartCommand, LookForPlace, LoadTarget,
       FindObject, Truncate, Fill, RemoveFile, StartFmt, FmtRead, FmtRename, Crash, End, EndFmt
<1>10. \A r \in Processes \ {p} : pc'[r] # "fill"
    BY <1>1, <1>7, <1>9 DEF StepOf, Still
<1> QED
    BY <1>2, <1>6, <1>8, <1>9, <1>10

LEMMA SettledStays ==
    ASSUME NEW p \in Processes, UNCHANGED <<disk, attached>>, Still(p), attached \subseteq {p}
    PROVE  UNCHANGED Settled
<1>1. \A path : UNCHANGED Filling(path)
    BY DEF Filling, Still
<1>2. \A path : Filling(path) # {} => Filling(path) = {p}
    BY DEF Filling
<1>3. Settled = [path \in Paths |-> IF Filling(path) = {} THEN disk[path] ELSE plan[p].seen]
    BY <1>2 DEF Settled
<1>4. Settled' = [path \in Paths |-> IF Filling(path)' = {} THEN disk'[path] ELSE plan'[p].seen]
    BY <1>1, <1>2 DEF Settled
<1>5. plan'[p].seen = plan[p].seen
    BY DEF Still
<1> QED
    BY <1>1, <1>3, <1>4, <1>5

(* A process that is not overtaken stands by what it found while the others  *)
(* take their steps.                                                        *)
LEMMA RaceInvBeside ==
    ASSUME ProcInv, NEW p \in Processes, NEW q \in Processes \ {p}, RaceInv(p),
           Command(q) \/ Fmt(q) \/ Crash(q)
    PROVE  RaceInv(p)'
<1> SUFFICES ASSUME p \notin overtaken', pc'[p] # "idle" PROVE RaceInv(p)'
    BY DEF RaceInv
<1>1. /\ p \notin overtaken /\ Still(p) /\ UNCHANGED <<disk, attached>>
      /\ \A r \in Processes \ {p} : pc'[r] # "fill"
    BY BesideStep
<1>2. pc'[p] = pc[p] /\ job'[p] = job[p] /\ plan'[p] = plan[p]
    BY <1>1 DEF Still
<1>3. UNCHANGED Settled
  <2>1. attached \subseteq {p}
      BY <1>1, <1>2 DEF RaceInv, ProcInv, ProcTypes
  <2> QED
      BY <1>1, <2>1, SettledStays
<1>4. UNCHANGED Planned(job[p])
    BY <1>2, <1>3, PlannedStays
<1>5. \A types, k : UNCHANGED Store!FindInTypes(types, k)
    BY <1>3, SettledLookups
<1>6. UNCHANGED Store!FindInTypes(HierarchyOf[job[p].type], job[p].key)
    BY <1>2, <1>5
<1> QED
    BY <1>1, <1>2, <1>3, <1>4, <1>6 DEF RaceInv

LEMMA OthersDoNotFill ==
    ASSUME NEW p \in Processes, StepOf(p), \A q \in Processes \ {p} : pc[q] # "fill"
    PROVE  \A q \in Processes \ {p} : pc'[q] # "fill"
BY DEF StepOf, Still

LEMMA RaceInvStart ==
    ASSUME ProcInv, NEW p \in Processes,
           StartCommand(p) \/ \E op \in {"fmt", "lint"} : StartFmt(p, op)
    PROVE  RaceInv(p)'
<1>1. StepOf(p)
    BY StartCommandStep, StartFmtStep
<1>2. /\ pc' = [pc EXCEPT ![p] = "find"] \/ pc' = [pc EXCEPT ![p] = "read"]
      /\ overtaken' = IF \E q \in Processes : pc[q] = "fill" THEN overtaken \cup {p}
                      ELSE overtaken \ {p}
    BY DEF StartCommand, StartFmt, Start
<1>3. pc'[p] \in {"find", "read"}
    BY <1>2 DEF ProcInv, ProcTypes
<1>4. p \notin overtaken' => \A q \in Processes : pc[q] # "fill"
    BY <1>2
<1> QED
    BY <1>1, <1>3, <1>4, OthersDoNotFill DEF RaceInv

LEMMA RaceInvLookForPlace ==
    ASSUME ProcInv, NEW p \in Processes, RaceInv(p), LookForPlace(p)
    PROVE  RaceInv(p)'
<1>1. pc[p] = "find" /\ UNCHANGED <<disk, attached, overtaken>> /\ StepOf(p)
    BY LookForPlaceStep DEF LookForPlace
<1>2. CASE End(p, Missing, FALSE)
    BY <1>2 DEF End, RaceInv, ProcInv, ProcTypes
<1>3. CASE /\ FindInTypes(HierarchyOf[job[p].type], job[p].key) = NotFound
           /\ pc' = [pc EXCEPT ![p] = "load"] /\ UNCHANGED <<job, plan>>
  <2> SUFFICES ASSUME p \notin overtaken PROVE RaceInv(p)'
      BY <1>1 DEF RaceInv
  <2>1. \A q \in Processes : pc[q] # "fill" /\ pc'[q] # "fill"
      BY <1>1, <1>3 DEF RaceInv, ProcInv, ProcTypes
  <2>2. attached = {} /\ Settled = disk
      BY <2>1, NobodyFills
  <2>3. UNCHANGED Settled
      BY <1>1, <1>3, <2>2 DEF Settled, Filling
  <2>4. Store!FindInTypes(HierarchyOf[job[p].type], job[p].key) = NotFound
      BY <1>3, <2>2, SettledIsDisk
  <2>5. \A types, k : UNCHANGED Store!FindInTypes(types, k)
      BY <2>3, SettledLookups
  <2>6. UNCHANGED Store!FindInTypes(HierarchyOf[job[p].type], job[p].key)
      BY <1>3, <2>5
  <2>7. pc'[p] = "load"
      BY <1>3 DEF ProcInv, ProcTypes
  <2> QED
      BY <2>1, <2>4, <2>6, <2>7 DEF RaceInv
<1> QED
    BY <1>2, <1>3 DEF LookForPlace

(* Nobody fills a file, and p plans what the command of ObjectStore writes.   *)
LEMMA RaceInvPlan ==
    ASSUME ProcInv, NEW p \in Processes, NEW w \in Planned(job[p]),
           pc[p] \in {"find", "load"}, p \notin overtaken, RaceInv(p),
           w = [path |-> w.path, content |-> w.content], w.path \in Paths,
           w.content = Absent => job[p].op = "delete" /\ disk[w.path] # Absent,
           plan'[p].path = w.path, plan'[p].seen = disk[w.path], plan'[p].content = w.content,
           pc' = [pc EXCEPT ![p] = IF w.content = Absent THEN "remove" ELSE "truncate"],
           UNCHANGED <<job, disk, attached>>
    PROVE  RaceInv(p)'
<1> USE DEF ProcInv, ProcTypes
<1>1. \A q \in Processes : pc[q] # "fill" /\ pc'[q] # "fill"
    BY DEF RaceInv
<1>2. attached = {} /\ Settled = disk
    BY <1>1, NobodyFills
<1>3. UNCHANGED Settled
    BY <1>2 DEF Settled, Filling
<1>4. UNCHANGED Planned(job[p])
    BY <1>3, PlannedStays
<1>5. pc'[p] # "load" /\ (pc'[p] = "remove" => w.content = Absent)
    OBVIOUS
<1>6. plan'[p].seen = Settled'[plan'[p].path]
    BY <1>2, <1>3
<1>7. [path |-> plan'[p].path, content |-> plan'[p].content] \in Planned(job[p])'
    BY <1>4
<1>8. pc'[p] = "remove" => job'[p].op = "delete" /\ plan'[p].seen # Absent
    BY <1>5
<1> QED
    BY <1>1, <1>5, <1>6, <1>7, <1>8 DEF RaceInv

LEMMA RaceInvEnd ==
    ASSUME ProcInv, NEW p \in Processes, EndFmt(p) PROVE RaceInv(p)'
BY DEF EndFmt, RaceInv, ProcInv, ProcTypes

LEMMA RaceInvLoadTarget ==
    ASSUME ProcInv, NEW p \in Processes, RaceInv(p), LoadTarget(p)
    PROVE  RaceInv(p)'
<1> DEFINE t == job[p].type
           k == job[p].key
<1>1. /\ pc[p] = "load" /\ UNCHANGED <<disk, attached, overtaken>>
      /\ t \in Types /\ k \in Keys[t] /\ job[p].op = "create" /\ job[p].fields \in FieldMaps
    BY ProcessesAssumption DEF LoadTarget, ProcInv, JobInv, CommandJobs
<1>2. PICK target \in CreateTargets(t, k) :
          LET f == disk[target.path]
          IN  IF f # Absent /\ ~LoadsAs(t, f)
              THEN End(p, Missing, FALSE)
              ELSE /\ plan' = [plan EXCEPT ![p] =
                          [path    |-> target.path,
                           seen    |-> f,
                           content |-> WithCreated(t, Stored(t, k, job[p].fields), target)]]
                   /\ pc' = [pc EXCEPT ![p] = "truncate"]
                   /\ UNCHANGED <<reply, job, started>>
    BY DEF LoadTarget
<1> DEFINE f == disk[target.path]
           content == WithCreated(t, Stored(t, k, job[p].fields), target)
<1>3. CASE f # Absent /\ ~LoadsAs(t, f)
    BY <1>2, <1>3, EndIsEndFmt, RaceInvEnd
<1>4. CASE ~(f # Absent /\ ~LoadsAs(t, f))
  <2> SUFFICES ASSUME p \notin overtaken PROVE RaceInv(p)'
      BY <1>1 DEF RaceInv
  <2>1. Settled = disk
    <3>1. \A q \in Processes : pc[q] # "fill"
        BY <1>1 DEF RaceInv
    <3> QED
        BY <3>1, NobodyFills DEF ProcInv, ProcTypes
  <2>2. FindInTypes(HierarchyOf[t], k) = NotFound
    <3>1. Store!FindInTypes(HierarchyOf[t], k) = NotFound
        BY <1>1 DEF RaceInv
    <3> QED
        BY <2>1, <3>1, SettledIsDisk
  <2>3. [path |-> target.path, content |-> content] \in CreateWrites(t, k, job[p].fields)
      BY <1>4, <2>2 DEF CreateWrites
  <2>4. Planned(job[p]) = CreateWrites(t, k, job[p].fields)
      BY <1>1, <2>1, SettledIsDisk DEF Planned
  <2>5. target.path \in Paths
      BY <1>1, CreateTargetIsAFile
  <2>6. content # Absent
    <3>1. Written(job[p].fields, content)
        BY <1>1, <1>4, CreateWritesAFile DEF ProcInv, ProcTypes
    <3> QED
        BY <3>1, ValuesAssumption DEF Written, Files
  <2> DEFINE w == [path |-> target.path, content |-> content]
  <2>7. /\ plan'[p].path = target.path /\ plan'[p].seen = f /\ plan'[p].content = content
        /\ pc' = [pc EXCEPT ![p] = "truncate"] /\ UNCHANGED <<job, disk, attached>>
    <3> DEFINE new == [path |-> target.path, seen |-> f, content |-> content]
    <3>1. /\ plan' = [plan EXCEPT ![p] = new]
          /\ pc' = [pc EXCEPT ![p] = "truncate"] /\ UNCHANGED <<job, disk, attached>>
        BY <1>1, <1>2, <1>4
    <3>2. new.path = target.path /\ new.seen = f /\ new.content = content
        OBVIOUS
    <3> HIDE DEF new, content, f
    <3> QED
        BY <3>1, <3>2 DEF ProcInv, ProcTypes
  <2>8. w.path = target.path /\ w.content = content /\ w = [path |-> w.path, content |-> w.content]
      OBVIOUS
  <2>9. w \in Planned(job[p])
      BY <2>3, <2>4
  <2> HIDE DEF w, content, t, k
  <2>10. pc' = [pc EXCEPT ![p] = IF w.content = Absent THEN "remove" ELSE "truncate"]
      BY <2>6, <2>7, <2>8
  <2> QED
      BY <1>1, <2>5, <2>6, <2>7, <2>8, <2>9, <2>10, RaceInvPlan
<1> QED
    BY <1>3, <1>4

(* A change that removes a file is a deletion, of an object that is there.   *)
LEMMA ChangeOfAFile ==
    ASSUME StoreTypeOK, NEW j \in CommandJobs, j.op # "create",
           j.op # "delete" => j.fields \in Payloads, NEW w \in Changes(j)
    PROVE  /\ w = [path |-> w.path, content |-> w.content]
           /\ w.content = Absent => j.op = "delete"
           /\ disk[w.path] # Absent
<1>1. j.type \in Types /\ j.op \in {"update", "merge", "delete"}
    BY DEF CommandJobs, Operations
<1>2. CASE j.op = "delete"
  <2>1. w \in DeleteWrites(j.type, j.key)
      BY <1>2 DEF Changes
  <2>2. PICK loc \in Changeable(j.type, j.key) :
            w = [path    |-> loc.path,
                 content |-> IF Len(disk[loc.path].items) = 1 THEN Absent
                             ELSE WithDeleted(j.type, disk[loc.path], loc.index)]
      BY <2>1 DEF DeleteWrites
  <2>3. disk[loc.path] \in Files
      BY <1>1, ChangeableIsInAFile
  <2> QED
      BY <1>2, <2>2, <2>3, ValuesAssumption DEF Files
<1>3. CASE j.op \in {"update", "merge"}
  <2>1. PICK merge \in BOOLEAN : w \in UpdateWrites(j.type, j.key, j.fields, merge)
      BY <1>3 DEF Changes
  <2>2. j.fields \in FieldMaps
      BY <1>3, ProcessesAssumption
  <2>3. Written(j.fields, w.content)
      BY <1>1, <2>1, <2>2, UpdateWritesAFile
  <2>4. PICK loc \in Changeable(j.type, j.key) :
            w = [path    |-> loc.path,
                 content |-> WithUpdated(j.type, disk[loc.path], loc.index,
                                 Updated(disk[loc.path], loc.index, j.fields, merge))]
      BY <2>1 DEF UpdateWrites
  <2>5. disk[loc.path] \in Files
      BY <1>1, ChangeableIsInAFile
  <2> QED
      BY <2>3, <2>4, <2>5, ValuesAssumption DEF Written, Files
<1> QED
    BY <1>1, <1>2, <1>3

LEMMA RaceInvFindObject ==
    ASSUME ProcInv, NEW p \in Processes, RaceInv(p), FindObject(p)
    PROVE  RaceInv(p)'
<1>1. /\ pc[p] = "find" /\ job[p].op # "create" /\ UNCHANGED <<disk, attached, overtaken>>
      /\ job[p] \in CommandJobs /\ (job[p].op # "delete" => job[p].fields \in Payloads)
    BY DEF FindObject, ProcInv, JobInv
<1>2. CASE End(p, Missing, FALSE)
    BY <1>2, EndIsEndFmt, RaceInvEnd
<1>3. ASSUME NEW w \in Changes(job[p]),
             plan' = [plan EXCEPT ![p] = [path |-> w.path, seen |-> disk[w.path],
                                          content |-> w.content]],
             pc' = [pc EXCEPT ![p] = IF w.content = Absent THEN "remove" ELSE "truncate"],
             UNCHANGED job
      PROVE  RaceInv(p)'
  <2> SUFFICES ASSUME p \notin overtaken PROVE RaceInv(p)'
      BY <1>1 DEF RaceInv
  <2>1. Settled = disk
    <3>1. \A q \in Processes : pc[q] # "fill"
        BY <1>1 DEF RaceInv
    <3> QED
        BY <3>1, NobodyFills DEF ProcInv, ProcTypes
  <2>2. Planned(job[p]) = Changes(job[p])
    <3>1. job[p].op \in {"update", "merge", "delete"}
        BY <1>1 DEF CommandJobs, Operations
    <3>2. CASE job[p].op = "update"
        BY <2>1, <3>2, SettledIsDisk DEF Planned, Changes
    <3>3. CASE job[p].op = "merge"
        BY <2>1, <3>3, SettledIsDisk DEF Planned, Changes
    <3>4. CASE job[p].op = "delete"
        BY <2>1, <3>4, SettledIsDisk DEF Planned, Changes
    <3> QED
        BY <3>1, <3>2, <3>3, <3>4
  <2>3. /\ w = [path |-> w.path, content |-> w.content]
        /\ w.content = Absent => job[p].op = "delete"
        /\ disk[w.path] # Absent /\ w.path \in Paths
      BY <1>1, <1>3, ChangeOfAFile, ChangesAreWhole DEF ProcInv, ProcTypes
  <2>4. plan'[p].path = w.path /\ plan'[p].seen = disk[w.path] /\ plan'[p].content = w.content
      BY <1>3 DEF ProcInv, ProcTypes
  <2>5. w \in Planned(job[p]) /\ UNCHANGED <<job, disk, attached>>
      BY <1>1, <1>3, <2>2
  <2> QED
      BY <1>1, <1>3, <2>3, <2>4, <2>5, RaceInvPlan
<1> QED
    BY <1>2, <1>3 DEF FindObject

LEMMA RaceInvTruncate ==
    ASSUME ProcInv, NEW p \in Processes, RaceInv(p), Truncate(p)
    PROVE  RaceInv(p)'
<1> DEFINE path == plan[p].path
<1>1. /\ pc[p] = "truncate" /\ path \in Paths /\ disk' = [disk EXCEPT ![path] = Empty]
      /\ pc' = [pc EXCEPT ![p] = "fill"] /\ UNCHANGED <<job, plan>>
      /\ attached' = attached \cup {p} /\ (p \in overtaken' <=> p \in overtaken)
    BY DEF Truncate, Overtaking, ProcInv, PlanInv
<1> SUFFICES ASSUME p \notin overtaken PROVE RaceInv(p)'
    BY <1>1 DEF RaceInv
<1>2. /\ \A q \in Processes : pc[q] # "fill"
      /\ \A q \in Processes \ {p} : pc'[q] # "fill"
      /\ pc'[p] = "fill"
    BY <1>1 DEF RaceInv, ProcInv, ProcTypes
<1>3. attached = {} /\ Settled = disk
    BY <1>2, NobodyFills
<1>4. plan[p].seen = disk[path]
    BY <1>1, <1>3 DEF RaceInv
<1>5. \A other : Filling(other)' = IF other = path THEN {p} ELSE {}
    BY <1>1, <1>3 DEF Filling
<1>6. Settled' = [other \in Paths |-> IF other = path THEN plan[p].seen ELSE disk'[other]]
    BY <1>1, <1>5 DEF Settled
<1>7. Settled' = disk
    BY <1>1, <1>4, <1>6 DEF ProcInv, ProcTypes, StoreTypeOK, Disks
<1>8. UNCHANGED Planned(job[p])
    BY <1>1, <1>3, <1>7, PlannedStays
<1>9. disk'[path] = Empty
    BY <1>1 DEF ProcInv, ProcTypes, StoreTypeOK, Disks
<1> QED
    BY <1>1, <1>2, <1>3, <1>7, <1>8, <1>9 DEF RaceInv

LEMMA RaceInvRest ==
    ASSUME ProcInv, NEW p \in Processes, RaceInv(p),
           Fill(p) \/ RemoveFile(p) \/ FmtRead(p) \/ FmtRename(p) \/ Crash(p)
    PROVE  RaceInv(p)'
<1>1. CASE EndFmt(p)
    BY <1>1, RaceInvEnd
<1>2. CASE ~EndFmt(p)
  <2>1. FmtRead(p) \/ FmtRename(p)
      BY <1>2, EndIsEndFmt DEF Fill, RemoveFile, Crash
  <2>2. pc[p] \in {"read", "rename"} /\ pc'[p] \in {"read", "rename"}
      BY <1>2, <2>1 DEF FmtRead, FmtRename, ProcInv, ProcTypes
  <2>3. p \in overtaken' <=> p \in overtaken
      BY <2>1 DEF FmtRead, FmtRename, Overtaking
  <2>4. StepOf(p)
      BY <2>1, FmtReadStep, WriteSteps
  <2>5. p \notin overtaken => \A q \in Processes \ {p} : pc'[q] # "fill"
      BY <2>2, <2>4, OthersDoNotFill DEF RaceInv
  <2> QED
      BY <2>2, <2>3, <2>5 DEF RaceInv
<1> QED
    BY <1>1, <1>2

Raceless == \A p \in Processes : RaceInv(p)

LEMMA RacelessInit == ProcInit => Raceless
BY DEF ProcInit, Raceless, RaceInv

LEMMA RacelessStep == ProcInv /\ Raceless /\ [ProcNext]_vars => Raceless'
<1> SUFFICES ASSUME ProcInv, Raceless, [ProcNext]_vars, NEW p \in Processes
             PROVE  RaceInv(p)'
    BY DEF Raceless
<1>1. RaceInv(p)
    BY DEF Raceless
<1>2. ASSUME NEW q \in Processes, Command(q) \/ Fmt(q) \/ Crash(q)
      PROVE  RaceInv(p)'
  <2>1. CASE q = p
      BY <1>1, <1>2, <2>1, RaceInvStart, RaceInvLookForPlace, RaceInvLoadTarget,
         RaceInvFindObject, RaceInvTruncate, RaceInvRest DEF Command, Fmt
  <2>2. CASE q # p
      BY <1>1, <1>2, <2>2, RaceInvBeside
  <2> QED
      BY <2>1, <2>2
<1>3. CASE UNCHANGED vars
  <2>1. UNCHANGED <<pc, job, plan, attached, overtaken, disk>>
      BY <1>3 DEF vars, procVars
  <2>2. UNCHANGED Settled
      BY <2>1 DEF Settled, Filling
  <2>3. UNCHANGED Planned(job[p])
      BY <2>1, <2>2, PlannedStays
  <2>4. \A types, k : UNCHANGED Store!FindInTypes(types, k)
      BY <2>2, SettledLookups
  <2>5. UNCHANGED Store!FindInTypes(HierarchyOf[job[p].type], job[p].key)
      BY <2>1, <2>4
  <2> QED
      BY <1>1, <2>1, <2>2, <2>3, <2>5 DEF RaceInv
<1> QED
    BY <1>2, <1>3 DEF ProcNext

(* Create has at most one target.                                            *)
LEMMA CreateTargetIsOne ==
    ASSUME NEW t \in Types, NEW k \in Keys[t],
           NEW target \in CreateTargets(t, k), NEW other \in CreateTargets(t, k)
    PROVE  other = target
<1>1. CASE t \in PathTypes
    BY <1>1 DEF CreateTargets, PathTargets
<1>2. CASE t \notin PathTypes /\ Globs(t) # {}
    BY <1>2 DEF CreateTargets
<1>3. CASE t \notin PathTypes /\ Globs(t) = {}
  <2> DEFINE n == Least(WritableIncludes(t))
  <2>1. /\ WritableIncludes(t) # {}
        /\ CreateTargets(t, k) = {[path |-> p, multi |-> TRUE] : p \in Includes[t][n].files}
      BY <1>3 DEF CreateTargets
  <2>2. WritableIncludes(t) \in SUBSET Nat
      BY LayoutAssumption DEF WritableIncludes
  <2>3. n \in WritableIncludes(t) /\ n \notin Globs(t)
      BY <1>3, <2>1, <2>2, LeastIsLeast
  <2>4. Includes[t] \in Seq(Include) /\ n \in DOMAIN Includes[t]
      BY <2>3, LayoutAssumption DEF WritableIncludes
  <2>5. Includes[t][n] \in Include
      BY <2>4
  <2>6. Includes[t][n].kind = "plain"
      BY <2>3, <2>5 DEF WritableIncludes, Globs, Include
  <2>7. PICK p \in Paths : Includes[t][n].files = {p}
      BY <2>4, <2>6, LayoutAssumption
  <2> QED
      BY <2>1, <2>7
<1> QED
    BY <1>1, <1>2, <1>3

(* What ObjectStore does in one step for the command j.                      *)
AtOnce(j) ==
    CASE j.op = "create" -> Store!Create(j.type, j.key) \/ Store!RefuseCreate(j.type, j.key)
      [] j.op = "update" -> Store!Update(j.type, j.key, FALSE) \/ Store!RefuseChange(j.op, j.type, j.key)
      [] j.op = "merge"  -> Store!Update(j.type, j.key, TRUE) \/ Store!RefuseChange(j.op, j.type, j.key)
      [] j.op = "delete" -> Store!Delete(j.type, j.key) \/ Store!RefuseChange(j.op, j.type, j.key)

(* A command that ends without having written.                               *)
LEMMA RefusedAtOnce ==
    ASSUME ProcInv, Raceless, NEW p \in Processes, pc[p] \in {"find", "load"}, p \notin overtaken,
           UNCHANGED <<disk, attached>>, End(p, Missing, FALSE),
           job[p].op = "create" =>
               \A fields \in FieldMaps : CreateWrites(job[p].type, job[p].key, fields) = {},
           job[p].op # "create" => Changeable(job[p].type, job[p].key) = {}
    PROVE  AtOnce(job[p])
<1> DEFINE t == job[p].type
           k == job[p].key
<1>1. \A q \in Processes : pc[q] # "fill" /\ pc'[q] # "fill"
    BY DEF Raceless, RaceInv, End, ProcInv, ProcTypes
<1>2. attached = {} /\ Settled = disk
    BY <1>1, NobodyFills
<1>3. UNCHANGED Settled
    BY <1>2 DEF Settled, Filling
<1>4. reply' = Store!Answer(job[p].op, t, k, Missing, FALSE)
    BY StoreConstants DEF End
<1>5. job[p].op \in Operations
    BY DEF ProcInv, JobInv, CommandJobs
<1>6. CASE job[p].op = "create"
  <2>1. \A fields \in Store!FieldMaps : Store!CreateWrites(t, k, fields) = {}
      BY <1>2, <1>6, SettledIsDisk, StoreConstants
  <2>2. Store!RefuseCreate(t, k)
      BY <1>3, <1>4, <1>6, <2>1 DEF Store!RefuseCreate
  <2> QED
      BY <1>6, <2>2 DEF AtOnce
<1>7. CASE job[p].op # "create"
  <2>1. Store!Changeable(t, k) = {}
      BY <1>2, <1>7, SettledIsDisk
  <2>2. Store!RefuseChange(job[p].op, t, k)
      BY <1>3, <1>4, <1>5, <1>7, <2>1 DEF Store!RefuseChange, Operations
  <2> QED
      BY <1>5, <1>7, <2>2 DEF AtOnce, Operations
<1> QED
    BY <1>6, <1>7

(* A command that ends with what it has planned written.                     *)
LEMMA WrittenAtOnce ==
    ASSUME ProcInv, NEW j \in CommandJobs,
           IF j.op = "delete" THEN j.fields = Missing ELSE j.fields \in Payloads,
           NEW w \in Planned(j), Store!Write(w),
           reply' = IF j.op = "delete" THEN Answer(j.op, j.type, j.key, Missing, TRUE)
                    ELSE Answer(j.op, j.type, j.key, j.fields, w.path \in DerivesAt[j.type])
    PROVE  AtOnce(j)
<1>1. j.op \in Operations /\ (j.op # "delete" => j.fields \in Store!FieldMaps)
    BY ProcessesAssumption, StoreConstants DEF CommandJobs
<1>2. CASE j.op = "create"
  <2>1. /\ w \in Store!CreateWrites(j.type, j.key, j.fields)
        /\ reply' = Store!Answer("create", j.type, j.key, j.fields, w.path \in DerivesAt[j.type])
      BY <1>2, StoreConstants DEF Planned
  <2>2. Store!Create(j.type, j.key)
      BY <1>1, <1>2, <2>1 DEF Store!Create
  <2> QED
      BY <1>2, <2>2 DEF AtOnce
<1>3. CASE j.op = "update"
  <2>1. w \in Store!UpdateWrites(j.type, j.key, j.fields, FALSE)
      BY <1>3 DEF Planned
  <2>2. reply' = Store!Answer("update", j.type, j.key, j.fields, w.path \in DerivesAt[j.type])
      BY <1>3, StoreConstants
  <2>3. Store!Update(j.type, j.key, FALSE)
      BY <1>1, <1>3, <2>1, <2>2 DEF Store!Update
  <2> QED
      BY <1>3, <2>3 DEF AtOnce
<1>4. CASE j.op = "merge"
  <2>1. w \in Store!UpdateWrites(j.type, j.key, j.fields, TRUE)
      BY <1>4 DEF Planned
  <2>2. reply' = Store!Answer("merge", j.type, j.key, j.fields, w.path \in DerivesAt[j.type])
      BY <1>4, StoreConstants
  <2>3. Store!Update(j.type, j.key, TRUE)
      BY <1>1, <1>4, <2>1, <2>2 DEF Store!Update
  <2> QED
      BY <1>4, <2>3 DEF AtOnce
<1>5. CASE j.op = "delete"
  <2>1. /\ w \in Store!DeleteWrites(j.type, j.key)
        /\ reply' = Store!Answer("delete", j.type, j.key, Missing, TRUE)
      BY <1>5, StoreConstants DEF Planned
  <2>2. Store!Delete(j.type, j.key)
      BY <2>1 DEF Store!Delete
  <2> QED
      BY <1>5, <2>2 DEF AtOnce
<1> QED
    BY <1>1, <1>2, <1>3, <1>4, <1>5 DEF Operations

LEMMA LookForPlaceAtOnce ==
    ASSUME ProcInv, Raceless, NEW p \in Processes, LookForPlace(p), p \notin overtaken', pc'[p] = "idle"
    PROVE  AtOnce(job[p])
<1> DEFINE t == job[p].type
           k == job[p].key
<1>1. /\ pc[p] = "find" /\ job[p].op = "create" /\ UNCHANGED <<disk, attached, overtaken>>
    BY DEF LookForPlace
<1>2. /\ End(p, Missing, FALSE)
      /\ ~(FindInTypes(HierarchyOf[t], k) = NotFound /\ CreateTargets(t, k) # {})
    BY DEF LookForPlace, ProcInv, ProcTypes
<1>3. \A fields \in FieldMaps : CreateWrites(t, k, fields) = {}
    BY <1>2 DEF CreateWrites
<1> QED
    BY <1>1, <1>2, <1>3, RefusedAtOnce

LEMMA LoadTargetAtOnce ==
    ASSUME ProcInv, Raceless, NEW p \in Processes, LoadTarget(p), p \notin overtaken', pc'[p] = "idle"
    PROVE  AtOnce(job[p])
<1> DEFINE t == job[p].type
           k == job[p].key
<1>1. /\ pc[p] = "load" /\ job[p].op = "create" /\ UNCHANGED <<disk, attached, overtaken>>
      /\ t \in Types /\ k \in Keys[t]
    BY DEF LoadTarget, ProcInv, JobInv, CommandJobs
<1>2. PICK target \in CreateTargets(t, k) :
          /\ disk[target.path] # Absent /\ ~LoadsAs(t, disk[target.path])
          /\ End(p, Missing, FALSE)
    BY DEF LoadTarget, ProcInv, ProcTypes
<1>3. \A other \in CreateTargets(t, k) : other = target
    BY <1>1, CreateTargetIsOne
<1>4. \A fields \in FieldMaps : CreateWrites(t, k, fields) = {}
    BY <1>2, <1>3 DEF CreateWrites
<1> QED
    BY <1>1, <1>2, <1>4, RefusedAtOnce

LEMMA FindObjectAtOnce ==
    ASSUME ProcInv, Raceless, NEW p \in Processes, FindObject(p), p \notin overtaken', pc'[p] = "idle"
    PROVE  AtOnce(job[p])
<1> DEFINE t == job[p].type
           k == job[p].key
<1>1. /\ pc[p] = "find" /\ job[p].op # "create" /\ UNCHANGED <<disk, attached, overtaken>>
      /\ job[p].op \in Operations
    BY DEF FindObject, ProcInv, JobInv, CommandJobs
<1>2. End(p, Missing, FALSE) /\ Changes(job[p]) = {}
    BY DEF FindObject, ProcInv, ProcTypes
<1>3. Changeable(t, k) = {}
  <2>1. CASE job[p].op = "update"
    <3>1. UpdateWrites(t, k, job[p].fields, FALSE) = {}
        BY <1>2, <2>1 DEF Changes
    <3> QED
        BY <3>1 DEF UpdateWrites
  <2>2. CASE job[p].op = "merge"
    <3>1. UpdateWrites(t, k, job[p].fields, TRUE) = {}
        BY <1>2, <2>2 DEF Changes
    <3> QED
        BY <3>1 DEF UpdateWrites
  <2>3. CASE job[p].op = "delete"
    <3>1. DeleteWrites(t, k) = {}
        BY <1>2, <2>3 DEF Changes
    <3> QED
        BY <3>1 DEF DeleteWrites
  <2> QED
      BY <1>1, <2>1, <2>2, <2>3 DEF Operations
<1> QED
    BY <1>1, <1>2, <1>3, RefusedAtOnce

LEMMA FillAtOnce ==
    ASSUME ProcInv, ProcInv', Raceless, NEW p \in Processes, Fill(p), p \notin overtaken'
    PROVE  AtOnce(job[p])
<1> DEFINE path == plan[p].path
           w    == [path |-> path, content |-> plan[p].content]
<1>0. pc[p] = "fill" /\ p \notin overtaken /\ p \in attached /\ disk[path] = Empty
    BY DEF Fill, Overtaking, Raceless, RaceInv
<1>1. /\ pc[p] = "fill" /\ path \in Paths /\ p \notin overtaken
      /\ disk' = [disk EXCEPT ![path] = plan[p].content]
      /\ job[p] \in CommandJobs
      /\ IF job[p].op = "delete" THEN job[p].fields = Missing ELSE job[p].fields \in Payloads
    BY <1>0 DEF Fill, Overlaid, ProcInv, JobInv, PlanInv
<1>2. w \in Planned(job[p])
    BY <1>1 DEF Raceless, RaceInv
<1>3. /\ \A q \in Processes \ {p} : pc[q] # "fill"
      /\ \A q \in Processes : pc'[q] # "fill"
    BY <1>1 DEF Raceless, RaceInv, Fill, End, ProcInv, ProcTypes
<1>4. Settled = [disk EXCEPT ![path] = plan[p].seen]
    BY <1>0, <1>1, <1>3, OneFills
<1>5. Settled' = [other \in Paths |-> disk'[other]]
    BY <1>3, NobodyFillsThen
<1>6. Settled' = [Settled EXCEPT ![path] = plan[p].content]
    BY <1>1, <1>4, <1>5 DEF ProcInv, ProcTypes, StoreTypeOK, Disks
<1>7. Store!Write(w)
    BY <1>6 DEF Store!Write
<1>8. reply' = IF job[p].op = "delete" THEN Answer(job[p].op, job[p].type, job[p].key, Missing, TRUE)
               ELSE Answer(job[p].op, job[p].type, job[p].key, job[p].fields,
                           w.path \in DerivesAt[job[p].type])
  <2>1. CASE job[p].op = "delete"
      BY <1>1, <2>1 DEF Fill, End
  <2>2. CASE job[p].op # "delete"
      BY <2>2 DEF Fill, End
  <2> QED
      BY <2>1, <2>2
<1> HIDE DEF w
<1> QED
    BY <1>1, <1>2, <1>7, <1>8, WrittenAtOnce

LEMMA RemoveFileAtOnce ==
    ASSUME ProcInv, ProcInv', Raceless, NEW p \in Processes, RemoveFile(p), p \notin overtaken'
    PROVE  AtOnce(job[p])
<1> DEFINE path == plan[p].path
           w    == [path |-> path, content |-> Absent]
<1>1. /\ pc[p] = "remove" /\ path \in Paths /\ p \notin overtaken
      /\ plan[p].content = Absent /\ disk' = [disk EXCEPT ![path] = Absent]
      /\ job[p] \in CommandJobs
    BY DEF RemoveFile, Overtaking, ProcInv, JobInv, PlanInv
<1>2. /\ w \in Planned(job[p]) /\ job[p].op = "delete"
      /\ plan[p].seen = Settled[path] /\ plan[p].seen # Absent
    BY <1>1 DEF Raceless, RaceInv
<1>3. \A q \in Processes : pc[q] # "fill" /\ pc'[q] # "fill"
    BY <1>1 DEF Raceless, RaceInv, RemoveFile, End, ProcInv, ProcTypes
<1>4. Settled = disk
    BY <1>3, NobodyFills
<1>5. Settled' = [other \in Paths |-> disk'[other]]
    BY <1>3, NobodyFillsThen
<1>6. Settled' = [Settled EXCEPT ![path] = Absent]
    BY <1>1, <1>4, <1>5 DEF ProcInv, ProcTypes, StoreTypeOK, Disks
<1>7. Store!Write(w)
    BY <1>6 DEF Store!Write
<1>8. job[p].fields = Missing
    BY <1>1, <1>2 DEF ProcInv, JobInv
<1>9. reply' = Answer(job[p].op, job[p].type, job[p].key, Missing, TRUE)
    BY <1>2, <1>4 DEF RemoveFile, End
<1> HIDE DEF w
<1> QED
    BY <1>1, <1>2, <1>7, <1>8, <1>9, WrittenAtOnce

(* A command that no other process writes beside does in its many steps what *)
(* the command of ObjectStore does in one.                                  *)
THEOREM CommandsAreAtomic == ProcSpec => RacelessCommandsAreAtomic
<1>1. ProcInv /\ Raceless /\ [ProcNext]_vars =>
          [\A p \in Processes : Finishes(p) /\ p \notin overtaken' => AtOnce(job[p])]_vars
  <2> SUFFICES ASSUME ProcInv, Raceless, ProcNext,
                      NEW p \in Processes, Finishes(p), p \notin overtaken'
               PROVE  AtOnce(job[p])
      BY DEF Finishes, vars
  <2>1. PICK q \in Processes : Command(q) \/ Fmt(q) \/ Crash(q)
      BY DEF ProcNext
  <2>2. StepOf(q)
      BY <2>1, StartCommandStep, LookForPlaceStep, LoadTargetStep, FindObjectStep,
         WriteSteps, StartFmtStep, FmtReadStep, CrashStep DEF Command, Fmt
  <2>3. q = p
      BY <2>2 DEF StepOf, Still, Finishes
  <2>4. LookForPlace(p) \/ LoadTarget(p) \/ FindObject(p) \/ Fill(p) \/ RemoveFile(p)
      BY <2>1, <2>3 DEF Command, Fmt, Finishes, StartCommand, Start, Truncate, StartFmt,
         FmtRead, FmtRename, Crash
  <2>5. pc'[p] = "idle" /\ ProcInv'
      BY ProcInvStep DEF Finishes
  <2> QED
      BY <2>4, <2>5, LookForPlaceAtOnce, LoadTargetAtOnce, FindObjectAtOnce, FillAtOnce,
         RemoveFileAtOnce
<1>2. [\A p \in Processes : Finishes(p) /\ p \notin overtaken' => AtOnce(job[p])]_vars =>
          [\A p \in Processes :
              Finishes(p) /\ p \notin overtaken' =>
                  LET j == job[p]
                  IN  CASE j.op = "create" -> Store!Create(j.type, j.key) \/ Store!RefuseCreate(j.type, j.key)
                        [] j.op = "update" -> Store!Update(j.type, j.key, FALSE) \/ Store!RefuseChange(j.op, j.type, j.key)
                        [] j.op = "merge"  -> Store!Update(j.type, j.key, TRUE) \/ Store!RefuseChange(j.op, j.type, j.key)
                        [] j.op = "delete" -> Store!Delete(j.type, j.key) \/ Store!RefuseChange(j.op, j.type, j.key)]_vars
    BY DEF AtOnce
<1> QED
    BY <1>1, <1>2, ProcInvInit, ProcInvStep, RacelessInit, RacelessStep, PTL
       DEF ProcSpec, RacelessCommandsAreAtomic

(***************************************************************************)
(* Files of one object.  In an orderly workspace every file fits, now and  *)
(* when what is planned for it is written, and who writes to the file of   *)
(* an identifier was told to.                                              *)
(***************************************************************************)
PlanFits(owner, p) ==
    /\ pc[p] \in {"truncate", "fill", "rename"} => Fits(owner, plan[p].path, plan[p].content)
    /\ pc[p] \in {"truncate", "fill", "remove"} =>
           owner[plan[p].path] \in {NoId, job[p].key}

FilesFit(owner) ==
    \A path \in Paths : disk[path] # Absent => Fits(owner, path, disk[path])

OwnInv(owner) == FilesFit(owner) /\ \A p \in Processes : PlanFits(owner, p)

(* What create plans fits.                                                   *)
LEMMA CreationFits ==
    ASSUME NEW owner, Orderly(owner), StoreTypeOK, FilesFit(owner),
           NEW t \in Types, NEW k \in Keys[t], NEW fields,
           NEW target \in CreateTargets(t, k),
           disk[target.path] = Absent \/ LoadsAs(t, disk[target.path])
    PROVE  /\ Fits(owner, target.path, WithCreated(t, Stored(t, k, fields), target))
           /\ owner[target.path] \in {NoId, k}
<1> DEFINE f    == disk[target.path]
           item == Stored(t, k, fields)
<1>1. /\ target.path \in Paths /\ f \in Files \cup {Absent}
      /\ f # Absent => Fits(owner, target.path, f)
    BY CreateTargetIsAFile DEF StoreTypeOK, Disks, FilesFit
<1>2. CASE t \in PathTypes
  <2>1. ~target.multi /\ owner[target.path] = NoId
      BY <1>2 DEF CreateTargets, PathTargets, WritableIncludes, Orderly
  <2>2. WithCreated(t, item, target) = Single(item) /\ item.id = NoId
      BY <1>2, <2>1 DEF WithCreated, Stored
  <2>3. Single(item).shape = "single" /\ Single(item).items[1] = item
      BY DEF Single
  <2> QED
      BY <2>1, <2>2, <2>3 DEF Fits
<1>3. CASE t \notin PathTypes
  <2>1. k \in Ids /\ item.id = k
      BY <1>3 DEF Keys, Stored
  <2>2. owner[target.path] = IF target.multi THEN NoId ELSE k
      BY <1>3, <2>1 DEF Orderly
  <2>3. CASE ~target.multi
    <3>1. WithCreated(t, item, target) = Single(item)
        BY <2>3 DEF WithCreated
    <3>2. Single(item).shape = "single" /\ Single(item).items[1] = item
        BY DEF Single
    <3> QED
        BY <2>1, <2>2, <2>3, <3>1, <3>2 DEF Fits
  <2>4. CASE target.multi /\ f = Absent
    <3>1. WithCreated(t, item, target).shape = "multi"
        BY <2>4 DEF WithCreated
    <3> QED
        BY <2>2, <2>4, <3>1 DEF Fits
  <2>5. CASE target.multi /\ f # Absent /\ f.shape = "single"
    <3>1. WithCreated(t, item, target) = [f EXCEPT !.type = t]
        BY <2>5 DEF WithCreated
    <3> QED
        BY <1>1, <2>2, <2>5, <3>1 DEF Fits, Files, Contents
  <2>6. CASE target.multi /\ f # Absent /\ f.shape # "single"
    <3>1. WithCreated(t, item, target) = [f EXCEPT !.type = t, !.items = Append(@, item)]
        BY <2>6 DEF WithCreated
    <3>2. WithCreated(t, item, target).shape = f.shape
        BY <1>1, <2>6, <3>1 DEF Files, Contents
    <3> QED
        BY <2>2, <2>6, <3>2 DEF Fits
  <2> QED
      BY <2>3, <2>4, <2>5, <2>6
<1> QED
    BY <1>2, <1>3

(* The file of an object that may be changed belongs to it, or to no object.  *)
LEMMA ChangeableFits ==
    ASSUME NEW owner, Orderly(owner), StoreTypeOK, FilesFit(owner),
           NEW t \in Types, NEW k \in Keys[t], NEW loc \in Changeable(t, k)
    PROVE  /\ loc.path \in Paths /\ disk[loc.path] \in Files
           /\ loc.index \in 1 .. Len(disk[loc.path].items)
           /\ Fits(owner, loc.path, disk[loc.path])
           /\ owner[loc.path] \in {NoId, k}
<1> DEFINE f == disk[loc.path]
<1>1. /\ loc.path \in Paths /\ f \in Files /\ f.shape # "broken"
      /\ loc.index \in 1 .. Len(f.items)
      /\ k = IF t \in PathTypes THEN loc.path ELSE f.items[loc.index].id
      /\ \E n \in DOMAIN Includes[t] : loc.path \in Includes[t][n].files
    BY ChangeableIsInAFile
<1>2. Fits(owner, loc.path, f)
    BY <1>1, ValuesAssumption DEF FilesFit, Files
<1>3. CASE t \in PathTypes
    BY <1>1, <1>2, <1>3 DEF Orderly
<1>4. CASE t \notin PathTypes /\ f.shape = "single"
  <2>1. k \in Ids /\ loc.index = 1
      BY <1>1, <1>4 DEF Keys, Files
  <2> QED
      BY <1>1, <1>2, <1>4, <2>1, ValuesAssumption DEF Fits
<1>5. CASE f.shape = "multi"
    BY <1>1, <1>2, <1>5 DEF Fits
<1> QED
    BY <1>1, <1>2, <1>3, <1>4, <1>5 DEF Files, Contents

LEMMA UpdateFits ==
    ASSUME NEW owner, Orderly(owner), StoreTypeOK, FilesFit(owner),
           NEW t \in Types, NEW k \in Keys[t], NEW fields, NEW merge \in BOOLEAN,
           NEW w \in UpdateWrites(t, k, fields, merge)
    PROVE  Fits(owner, w.path, w.content) /\ owner[w.path] \in {NoId, k}
<1>1. PICK loc \in Changeable(t, k) :
          w = [path    |-> loc.path,
               content |-> WithUpdated(t, disk[loc.path], loc.index,
                                       Updated(disk[loc.path], loc.index, fields, merge))]
    BY DEF UpdateWrites
<1> DEFINE f    == disk[loc.path]
           item == Updated(f, loc.index, fields, merge)
<1>2. /\ w.path = loc.path /\ w.content = WithUpdated(t, f, loc.index, item)
      /\ f \in Files /\ loc.index \in 1 .. Len(f.items)
      /\ Fits(owner, loc.path, f) /\ owner[loc.path] \in {NoId, k}
    BY <1>1, ChangeableFits
<1>3. f.items[loc.index] \in Item
    BY <1>2 DEF Files, Contents
<1>4. item.id = f.items[loc.index].id
    BY <1>3 DEF Updated, Item
<1> HIDE DEF item
<1>5. CASE f.shape = "single"
  <2>1. loc.index = 1
    <3>1. Len(f.items) = 1
        BY <1>2, <1>5 DEF Files
    <3> QED
        BY <1>2, <3>1
  <2>2. w.content = Single(item)
      BY <1>2, <1>5 DEF WithUpdated
  <2>3. w.content.shape = "single" /\ w.content.items[1] = item
      BY <2>2 DEF Single
  <2> QED
      BY <1>2, <1>4, <1>5, <2>1, <2>3 DEF Fits
<1>6. CASE f.shape # "single"
  <2>1. w.content = [f EXCEPT !.type = t, !.items[loc.index] = item]
      BY <1>2, <1>6 DEF WithUpdated
  <2>2. w.content.shape = f.shape
      BY <1>2, <2>1 DEF Files, Contents
  <2> QED
      BY <1>2, <1>6, <2>2 DEF Fits
<1> QED
    BY <1>5, <1>6

LEMMA DeleteFits ==
    ASSUME NEW owner, Orderly(owner), StoreTypeOK, FilesFit(owner),
           NEW t \in Types, NEW k \in Keys[t], NEW w \in DeleteWrites(t, k)
    PROVE  /\ w.content # Absent => Fits(owner, w.path, w.content)
           /\ owner[w.path] \in {NoId, k}
<1>1. PICK loc \in Changeable(t, k) :
          w = [path    |-> loc.path,
               content |-> IF Len(disk[loc.path].items) = 1 THEN Absent
                           ELSE WithDeleted(t, disk[loc.path], loc.index)]
    BY DEF DeleteWrites
<1> DEFINE f    == disk[loc.path]
           rest == SubSeq(f.items, 1, loc.index - 1) \o SubSeq(f.items, loc.index + 1, Len(f.items))
<1>2. /\ f \in Files /\ Fits(owner, loc.path, f) /\ owner[loc.path] \in {NoId, k}
    BY ChangeableFits
<1>3. CASE Len(f.items) = 1
    BY <1>1, <1>2, <1>3
<1>4. CASE Len(f.items) # 1
  <2>1. w.path = loc.path /\ w.content = [f EXCEPT !.type = t, !.items = rest]
      BY <1>1, <1>4 DEF WithDeleted
  <2> HIDE DEF rest
  <2>2. w.content.shape = f.shape /\ f.shape # "single"
      BY <1>2, <1>4, <2>1 DEF Files, Contents
  <2> QED
      BY <1>2, <2>1, <2>2 DEF Fits
<1> QED
    BY <1>3, <1>4

(* A process that is about to write what fits.                               *)
LEMMA OwnPlan ==
    ASSUME ProcInv, NEW p \in Processes, NEW owner, NEW path, NEW content,
           plan'[p].path = path, plan'[p].content = content,
           pc'[p] \in {"truncate", "remove"}, pc'[p] = "truncate" => content # Absent,
           UNCHANGED job, content # Absent => Fits(owner, path, content),
           owner[path] \in {NoId, job[p].key}
    PROVE  PlanFits(owner, p)'
BY DEF PlanFits, Fits

LEMMA OwnFind ==
    ASSUME NEW owner, Orderly(owner), ProcInv, OwnInv(owner), NEW p \in Processes,
           LoadTarget(p) \/ FindObject(p)
    PROVE  PlanFits(owner, p)'
<1> DEFINE t == job[p].type
           k == job[p].key
<1>1. /\ job[p] \in CommandJobs /\ t \in Types /\ k \in Keys[t]
      /\ job[p].op \in Operations /\ (job[p].op # "delete" => job[p].fields \in Payloads)
      /\ StoreTypeOK /\ FilesFit(owner)
    BY DEF LoadTarget, FindObject, ProcInv, ProcTypes, JobInv, CommandJobs, OwnInv
<1>2. CASE EndFmt(p)
    BY <1>2 DEF EndFmt, ProcInv, ProcTypes, PlanFits
<1>3. CASE LoadTarget(p) /\ ~EndFmt(p)
  <2>1. PICK target \in CreateTargets(t, k) :
            /\ ~(disk[target.path] # Absent /\ ~LoadsAs(t, disk[target.path]))
            /\ plan' = [plan EXCEPT ![p] =
                   [path    |-> target.path,
                    seen    |-> disk[target.path],
                    content |-> WithCreated(t, Stored(t, k, job[p].fields), target)]]
            /\ pc' = [pc EXCEPT ![p] = "truncate"]
            /\ UNCHANGED job
      BY <1>3, EndIsEndFmt DEF LoadTarget
  <2> DEFINE content == WithCreated(t, Stored(t, k, job[p].fields), target)
             new     == [path |-> target.path, seen |-> disk[target.path], content |-> content]
  <2>2. /\ Fits(owner, target.path, content) /\ owner[target.path] \in {NoId, k}
      BY <1>1, <2>1, CreationFits
  <2>3. /\ plan' = [plan EXCEPT ![p] = new] /\ new.path = target.path /\ new.content = content
      BY <2>1
  <2>4. Written(job[p].fields, content)
      BY <1>1, <1>3, <2>1, CreateWritesAFile, ProcessesAssumption DEF ProcInv, JobInv, LoadTarget
  <2>5. content # Absent
      BY <2>4, ValuesAssumption DEF Written, Files
  <2> HIDE DEF new, content
  <2>6. /\ plan'[p].path = target.path /\ plan'[p].content = content /\ pc'[p] = "truncate"
      BY <2>1, <2>3 DEF ProcInv, ProcTypes
  <2> QED
      BY <2>1, <2>2, <2>5, <2>6, OwnPlan
<1>4. CASE FindObject(p) /\ ~EndFmt(p)
  <2>1. PICK w \in Changes(job[p]) :
            /\ plan' = [plan EXCEPT ![p] = [path |-> w.path, seen |-> disk[w.path],
                                            content |-> w.content]]
            /\ pc' = [pc EXCEPT ![p] = IF w.content = Absent THEN "remove" ELSE "truncate"]
            /\ UNCHANGED job
      BY <1>4, EndIsEndFmt DEF FindObject
  <2>2. job[p].op \in {"update", "merge", "delete"}
      BY <1>1, <1>4 DEF FindObject, Operations
  <2>3. /\ w.content # Absent => Fits(owner, w.path, w.content)
        /\ owner[w.path] \in {NoId, k}
    <3>1. CASE job[p].op = "delete"
      <4>1. w \in DeleteWrites(t, k)
          BY <3>1 DEF Changes
      <4> QED
          BY <1>1, <4>1, DeleteFits
    <3>2. CASE job[p].op = "update"
      <4>1. w \in UpdateWrites(t, k, job[p].fields, FALSE)
          BY <3>2 DEF Changes
      <4> QED
          BY <1>1, <4>1, UpdateFits
    <3>3. CASE job[p].op = "merge"
      <4>1. w \in UpdateWrites(t, k, job[p].fields, TRUE)
          BY <3>3 DEF Changes
      <4> QED
          BY <1>1, <4>1, UpdateFits
    <3> QED
        BY <2>2, <3>1, <3>2, <3>3
  <2>4. plan'[p].path = w.path /\ plan'[p].content = w.content
      BY <2>1 DEF ProcInv, ProcTypes
  <2>5. pc'[p] = IF w.content = Absent THEN "remove" ELSE "truncate"
      BY <2>1 DEF ProcInv, ProcTypes
  <2> QED
      BY <2>1, <2>3, <2>4, <2>5, OwnPlan
<1> QED
    BY <1>2, <1>3, <1>4

(* The steps that read, and those that do not write.                         *)
LEMMA OwnRest ==
    ASSUME NEW owner, ProcInv, OwnInv(owner), NEW p \in Processes,
           \/ StartCommand(p) \/ LookForPlace(p) \/ Truncate(p) \/ Fill(p) \/ RemoveFile(p)
           \/ (\E op \in {"fmt", "lint"} : StartFmt(p, op)) \/ FmtRename(p) \/ Crash(p)
    PROVE  PlanFits(owner, p)'
<1>1. CASE Truncate(p)
  <2>1. /\ pc[p] = "truncate" /\ pc'[p] = "fill" /\ UNCHANGED <<job, plan>>
        /\ PlanFits(owner, p)
      BY <1>1 DEF Truncate, ProcInv, ProcTypes, OwnInv
  <2> QED
      BY <2>1 DEF PlanFits, Fits
<1>2. CASE ~Truncate(p)
  <2>1. pc'[p] \in {"idle", "find", "load", "read"}
      BY <1>2 DEF StartCommand, LookForPlace, Fill, RemoveFile, StartFmt, FmtRename, Crash,
         End, EndFmt, ProcInv, ProcTypes
  <2> QED
      BY <2>1 DEF PlanFits
<1> QED
    BY <1>1, <1>2

LEMMA FormattedFits ==
    ASSUME NEW owner, NEW path, NEW f \in Files, Fits(owner, path, f)
    PROVE  Fits(owner, path, Formatted(f))
<1>1. CASE f.shape # "single"
    BY <1>1, FormattedIs DEF Fits
<1>2. CASE f.shape = "single"
  <2>0. 1 \in 1 .. Len(f.items)
      BY <1>2, SingleHasItem
  <2>1. Formatted(f).items = TidyItems(f) /\ 1 \in 1 .. Len(f.items) /\ Formatted(f).shape = "single"
      BY <1>2, <2>0, FormattedIs
  <2>2. Formatted(f).items[1].id = f.items[1].id
      BY <2>1, TidyItemsAre
  <2> QED
      BY <1>2, <2>1, <2>2 DEF Fits
<1> QED
    BY <1>1, <1>2

LEMMA OwnFmtRead ==
    ASSUME NEW owner, ProcInv, OwnInv(owner), NEW p \in Processes, FmtRead(p)
    PROVE  PlanFits(owner, p)'
<1> DEFINE path == FirstFile(job[p].todo)
           f    == disk[path]
<1>1. CASE pc'[p] # "rename"
  <2>1. pc'[p] \in {"idle", "read"}
      BY <1>1 DEF FmtRead, EndFmt, ProcInv, ProcTypes
  <2> QED
      BY <2>1 DEF PlanFits
<1>2. CASE pc'[p] = "rename"
  <2>1. /\ pc[p] = "read" /\ job[p].todo # {} /\ f # Absent
        /\ plan' = [plan EXCEPT ![p] = [path |-> path, seen |-> f, content |-> Formatted(f)]]
      BY <1>2 DEF FmtRead, EndFmt, ProcInv, ProcTypes
  <2>2. path \in Paths
      BY <2>1, FirstFileIsOne DEF ProcInv, JobInv, FmtJobs
  <2>3. f \in Files /\ Fits(owner, path, f)
      BY <2>1, <2>2 DEF ProcInv, ProcTypes, StoreTypeOK, Disks, OwnInv, FilesFit
  <2>4. Fits(owner, path, Formatted(f))
      BY <2>3, FormattedFits
  <2> DEFINE new == [path |-> path, seen |-> f, content |-> Formatted(f)]
  <2>5. /\ plan' = [plan EXCEPT ![p] = new]
        /\ new.path = path /\ new.seen = f /\ new.content = Formatted(f)
      BY <2>1
  <2> HIDE DEF new, f, path
  <2>6. plan'[p].path = path /\ plan'[p].seen = f /\ plan'[p].content = Formatted(f)
      BY <2>5 DEF ProcInv, ProcTypes
  <2> QED
      BY <1>2, <2>4, <2>6 DEF PlanFits, Fits
<1> QED
    BY <1>1, <1>2

(* So does what is left of files that fit.                                   *)
LEMMA LeftFits ==
    ASSUME NEW owner, NEW path, NEW f \in Files, f.shape # "broken", NEW under \in Files,
           Fits(owner, path, f), Fits(owner, path, under),
           NEW g \in Overlaid(f, under) \cup PartlyOverlaid(f, under)
    PROVE  Fits(owner, path, g)
<1>1. Fits(owner, path, Empty) /\ Fits(owner, path, CutOff)
    BY DEF Fits, Empty, NoObject, CutOff, Single
<1>2. CASE g \in Torn(f)
    BY <1>1, <1>2, TornIsAFile DEF Fits
<1>3. CASE g \in Spliced(f, under)
    BY <1>3, SplicedIsAFile DEF Fits
<1> QED
    BY <1>1, <1>2, <1>3 DEF Overlaid, PartlyOverlaid

LEMMA OwnInvInit == ASSUME NEW owner, Orderly(owner) PROVE ProcInit => OwnInv(owner)
BY DEF Orderly, ProcInit, Init, OwnInv, FilesFit, PlanFits

(* What a step writes fits.                                                  *)
LEMMA OwnWrites ==
    ASSUME NEW owner, ProcInv, OwnInv(owner), [ProcNext]_vars
    PROVE  FilesFit(owner)'
<1> SUFFICES ASSUME NEW path \in Paths, disk'[path] # Absent
             PROVE  Fits(owner, path, disk'[path])
    BY DEF FilesFit, Fits
<1>1. CASE disk'[path] = disk[path]
    BY <1>1 DEF OwnInv, FilesFit
<1>2. CASE disk'[path] # disk[path]
  <2>1. PICK p \in Processes :
            /\ plan[p].path = path
            /\ pc[p] \in {"truncate", "fill", "remove", "rename"}
            /\ \/ Truncate(p) \/ Fill(p) \/ RemoveFile(p) \/ FmtRename(p)
               \/ p \in attached /\ Crash(p)
            /\ Fill(p) => p \in attached
      BY <1>2, WhoWrites
  <2>2. path \in DOMAIN disk
      BY DEF ProcInv, ProcTypes, StoreTypeOK, Disks
  <2>3. CASE Truncate(p)
    <3>1. disk'[path] = Empty
        BY <2>1, <2>2, <2>3 DEF Truncate
    <3> QED
        BY <3>1 DEF Fits, Empty, NoObject, Single
  <2>4. CASE FmtRename(p)
    <3>1. disk'[path] = plan[p].content /\ pc[p] = "rename"
        BY <2>1, <2>2, <2>4 DEF FmtRename
    <3> QED
        BY <2>1, <3>1 DEF OwnInv, PlanFits
  <2>5. CASE RemoveFile(p)
      BY <2>1, <2>2, <2>5 DEF RemoveFile
  <2>6. CASE Fill(p) \/ (p \in attached /\ Crash(p))
    <3>1. p \in attached /\ pc[p] = "fill"
        BY <2>1, <2>6 DEF ProcInv, ProcTypes
    <3>2. PICK f \in Overlaid(plan[p].content, disk[path]) \cup PartlyOverlaid(plan[p].content, disk[path]) :
              disk' = [disk EXCEPT ![path] = f]
        BY <2>1, <2>6, <3>1 DEF Fill, Crash
    <3>3. /\ plan[p].content \in Files /\ plan[p].content.shape # "broken"
          /\ Fits(owner, path, plan[p].content)
        BY <2>1, <3>1 DEF ProcInv, PlanInv, Whole, OwnInv, PlanFits
    <3>4. disk[path] \in Files /\ Fits(owner, path, disk[path])
        BY <2>1, <3>1 DEF ProcInv, ProcTypes, StoreTypeOK, Disks, OwnInv, FilesFit
    <3>5. Fits(owner, path, f)
        BY <3>2, <3>3, <3>4, LeftFits
    <3> QED
        BY <2>2, <3>2, <3>5
  <2> QED
      BY <2>1, <2>3, <2>4, <2>5, <2>6
<1> QED
    BY <1>1, <1>2

LEMMA OwnInvStep ==
    ASSUME NEW owner, Orderly(owner)
    PROVE  ProcInv /\ OwnInv(owner) /\ [ProcNext]_vars => OwnInv(owner)'
<1> SUFFICES ASSUME ProcInv, OwnInv(owner), [ProcNext]_vars, NEW p \in Processes
             PROVE  PlanFits(owner, p)'
    BY OwnWrites DEF OwnInv
<1>1. ASSUME Still(p) PROVE PlanFits(owner, p)'
    BY <1>1 DEF OwnInv, Still, PlanFits, Fits
<1>2. ASSUME NEW q \in Processes, Command(q) \/ Fmt(q) \/ Crash(q)
      PROVE  PlanFits(owner, p)'
  <2>1. StepOf(q)
      BY <1>2, StartCommandStep, LookForPlaceStep, LoadTargetStep, FindObjectStep,
         WriteSteps, StartFmtStep, FmtReadStep, CrashStep DEF Command, Fmt
  <2>2. CASE q = p
      BY <1>2, <2>2, OwnFind, OwnRest, OwnFmtRead DEF Command, Fmt
  <2>3. CASE q # p
      BY <1>1, <2>1, <2>3 DEF StepOf
  <2> QED
      BY <2>2, <2>3
<1>3. CASE UNCHANGED vars
    BY <1>1, <1>3 DEF vars, procVars, Still
<1> QED
    BY <1>2, <1>3 DEF ProcNext

(* In an orderly workspace, an object in a file of its own is safe from the  *)
(* commands on other objects, however they race and wherever they are        *)
(* killed, and from fmt as long as nobody changes the file meanwhile.        *)
THEOREM OwnFilesAreKept ==
    ASSUME NEW owner, Orderly(owner) PROVE ProcSpec => OwnFilesKept
<1>1. ProcInv /\ OwnInv(owner) /\ [ProcNext]_vars =>
          [\A path \in Paths :
              LET f == disk[path]
              IN  /\ f # Absent /\ f.shape = "single" /\ f.items[1].id # NoId
                  /\ disk'[path] # f
                  => \E p \in Processes :
                         /\ plan[p].path = path
                         /\ \/ /\ job[p].op = "fmt"
                               /\ plan[p].seen # f \/ disk'[path] = Formatted(f)
                            \/ job[p].key = f.items[1].id]_vars
  <2> SUFFICES ASSUME ProcInv, OwnInv(owner), [ProcNext]_vars, NEW path \in Paths,
                      disk[path] # Absent, disk[path].shape = "single",
                      disk[path].items[1].id # NoId, disk'[path] # disk[path]
               PROVE  \E p \in Processes :
                          /\ plan[p].path = path
                          /\ \/ /\ job[p].op = "fmt"
                                /\ plan[p].seen # disk[path] \/ disk'[path] = Formatted(disk[path])
                             \/ job[p].key = disk[path].items[1].id
      OBVIOUS
  <2>1. PICK p \in Processes :
            /\ plan[p].path = path
            /\ pc[p] \in {"truncate", "fill", "remove", "rename"}
            /\ \/ Truncate(p) \/ Fill(p) \/ RemoveFile(p) \/ FmtRename(p)
               \/ p \in attached /\ Crash(p)
      BY WhoWrites
  <2>2. disk[path].items[1].id = owner[path] /\ owner[path] # NoId
      BY DEF OwnInv, FilesFit, Fits
  <2>3. CASE pc[p] \in {"truncate", "fill", "remove"}
      BY <2>1, <2>2, <2>3 DEF OwnInv, PlanFits
  <2>4. CASE pc[p] = "rename"
    <3>1. FmtRename(p)
        BY <2>1, <2>4 DEF Truncate, Fill, RemoveFile, ProcInv, ProcTypes
    <3>2. disk'[path] = Formatted(plan[p].seen)
        BY <2>1, <2>4, <3>1 DEF FmtRename, ProcInv, PlanInv, ProcTypes, StoreTypeOK, Disks
    <3>3. plan[p].seen # disk[path] \/ disk'[path] = Formatted(disk[path])
        BY <3>2
    <3>4. job[p].op = "fmt"
        BY <2>4 DEF ProcInv, JobInv
    <3> QED
        BY <2>1, <3>3, <3>4
  <2> QED
      BY <2>1, <2>3, <2>4
<1> QED
    BY <1>1, ProcInvInit, ProcInvStep, OwnInvInit, OwnInvStep, PTL DEF ProcSpec, OwnFilesKept

(***************************************************************************)
(* fmt and the objects.  In its new order a list still has the first       *)
(* object with an identifier before every other one with it, and before    *)
(* every object without one.                                               *)
(***************************************************************************)
LEMMA FormattedKeeps ==
    ASSUME SortsByIdentifier,
           NEW t \in Types, NEW path, NEW f \in Files, NEW inc, NEW k, k # NoId,
           Readable(t, inc, f)
    PROVE  Readable(t, inc, Formatted(f)) /\ KeepsAs(t, path, f, Formatted(f), k, Tidied)
<1> DEFINE g    == Formatted(f)
           tidy == TidyItems(f)
<1>0. /\ f.items \in Seq(Item) /\ Len(f.items) \in Nat /\ DOMAIN f.items = 1 .. Len(f.items)
      /\ tidy \in Seq(Item) /\ Len(tidy) = Len(f.items) /\ DOMAIN tidy = 1 .. Len(f.items)
      /\ \A m \in 1 .. Len(f.items) :
             tidy[m].id = f.items[m].id /\ tidy[m].fields = Tidied[f.items[m].fields]
      /\ g.shape = f.shape /\ g.type = f.type /\ Len(g.items) = Len(f.items)
    BY TidyItemsAre, SingleHasItem, FormattedIs
<1>1. CASE f.shape # "multi"
  <2>1. g.items = tidy
      BY <1>1, FormattedIs
  <2> HIDE DEF g, tidy
  <2>2. g.items # <<>> <=> f.items # <<>>
      BY <1>0, <2>1
  <2>3. Readable(t, inc, g)
      BY <1>0, <2>1, <2>2 DEF Readable, Loads, LoadsAs, Several
  <2>4. StopsAt(t, path, g, k) = StopsAt(t, path, f, k)
      BY <1>0, <2>1 DEF StopsAt, KeyOf
  <2>5. \A i : Leads(t, path, f, i, k) => Leads(t, path, g, i, k)
      BY <1>0, <2>1, <2>4 DEF Leads, StopsAt, KeyOf
  <2>6. \A i : Leads(t, path, f, i, k) => g.items[i].fields = Tidied[f.items[i].fields]
      BY <1>0, <2>1 DEF Leads, StopsAt
  <2> QED
      BY <2>3, <2>4, <2>5, <2>6 DEF KeepsAs, g
<1>2. CASE f.shape = "multi"
  <2>1. /\ f.items \in Seq(Item) /\ Len(f.items) \in Nat /\ DOMAIN f.items = 1 .. Len(f.items)
        /\ tidy \in Seq(Item) /\ Len(tidy) = Len(f.items) /\ DOMAIN tidy = 1 .. Len(f.items)
      BY <1>0
  <2>2. g.shape = f.shape /\ g.type = f.type /\ g.items = Sorted(tidy)
      BY <1>0, <1>2, FormattedIs
  <2> HIDE DEF g, tidy
  <2>3. /\ Len(g.items) = Len(f.items) /\ g.items \in Seq(Item)
        /\ \A m \in 1 .. Len(f.items) : g.items[Place(tidy, m)] = tidy[m]
        /\ \A n \in 1 .. Len(f.items) : \E m \in 1 .. Len(f.items) : Place(tidy, m) = n
        /\ \A m \in 1 .. Len(f.items) : Place(tidy, m) \in 1 .. Len(f.items)
    <3>1. g.items \in Seq(Item) /\ Len(g.items) = Len(f.items)
        BY <2>1, <2>2, SortedIsAList
    <3>2. \A m \in 1 .. Len(f.items) : g.items[Place(tidy, m)] = tidy[m]
        BY <2>1, <2>2, SortedIsAList
    <3>3. \A n \in 1 .. Len(f.items) : \E m \in 1 .. Len(f.items) : Place(tidy, m) = n
        BY <2>1, SortedIsAList
    <3>4. \A m \in 1 .. Len(f.items) : Place(tidy, m) \in 1 .. Len(f.items)
        BY <2>1, PlaceIsInjective
    <3> QED
        BY <3>1, <3>2, <3>3, <3>4
  <2>4. f.items # <<>> => g.items # <<>>
      BY <2>1, <2>3
  <2>5. Readable(t, inc, g)
      BY <2>2, <2>3, <2>4 DEF Readable, Loads, LoadsAs, Several
  <2>6. \A m \in 1 .. Len(f.items) :
            m \in StopsAt(t, path, f, k) <=> Place(tidy, m) \in StopsAt(t, path, g, k)
      BY <1>0, <2>3 DEF StopsAt, KeyOf
  <2>7. \A n \in StopsAt(t, path, g, k) :
            \E m \in StopsAt(t, path, f, k) : Place(tidy, m) = n
      BY <2>3, <2>6 DEF StopsAt
  <2>8. ASSUME NEW i, Leads(t, path, f, i, k)
        PROVE  Leads(t, path, g, Place(tidy, i), k)
    <3>1. i \in 1 .. Len(f.items) /\ i \in StopsAt(t, path, f, k) /\ KeyOf(t, path, f.items[i]) = k
        BY <2>8 DEF Leads, StopsAt
    <3>2. KeyOf(t, path, g.items[Place(tidy, i)]) = k
        BY <1>0, <2>3, <3>1 DEF KeyOf
    <3>3. ASSUME NEW m \in StopsAt(t, path, f, k)
          PROVE  Place(tidy, i) <= Place(tidy, m)
      <4>1. m \in 1 .. Len(f.items) /\ i <= m /\ KeyOf(t, path, f.items[m]) \in {k, NoId}
          BY <2>8, <3>3 DEF Leads, StopsAt
      <4>2. CASE m = i
          BY <2>3, <3>1, <4>2
      <4>3. CASE m # i
        <5>1. i < m /\ Len(f.items) > 1
            BY <2>1, <3>1, <4>1, <4>3
        <5>2. t \notin PathTypes
            BY <1>2, <5>1 DEF Readable, Several
        <5>3. f.items[i].id = k /\ f.items[m].id \in {k, NoId}
            BY <3>1, <4>1, <5>2 DEF KeyOf
        <5>4. /\ tidy[i] \in Item /\ tidy[m] \in Item
              /\ tidy[i].id = k /\ tidy[m].id \in {k, NoId}
            BY <1>0, <2>1, <3>1, <4>1, <5>3
        <5>5. Precedes(tidy, i, m)
            BY <5>1, <5>4 DEF Precedes, SortsByIdentifier
        <5>6. Place(tidy, i) < Place(tidy, m)
            BY <2>1, <3>1, <4>1, <5>5, PlaceIsInjective
        <5> QED
            BY <2>3, <3>1, <4>1, <5>6
      <4> QED
          BY <4>2, <4>3
    <3> QED
        BY <2>6, <2>7, <3>1, <3>2, <3>3 DEF Leads
  <2>9. StopsAt(t, path, f, k) = {} => StopsAt(t, path, g, k) = {}
      BY <2>7
  <2>10. \A i : Leads(t, path, f, i, k) =>
                 g.items[Place(tidy, i)].fields = Tidied[f.items[i].fields]
      BY <1>0, <2>3 DEF Leads, StopsAt
  <2> QED
      BY <2>5, <2>8, <2>9, <2>10 DEF KeepsAs, g
<1> QED
    BY <1>1, <1>2

(* fmt changes nothing of an object that can be found, in a file nobody else    *)
(* changes, but the order of the lists called items in it, where it sorts by   *)
(* the identifier.                                                          *)
THEOREM FmtKeeps ==
    ASSUME SortsByIdentifier
    PROVE  ProcSpec => FmtKeepsObjects
<1>1. ProcInv /\ [ProcNext]_vars =>
          [\A p \in Processes :
              /\ pc[p] = "rename" /\ pc'[p] = "read"
              /\ disk[plan[p].path] = plan[p].seen /\ disk' # disk
              => \A t \in Types : \A k \in Keys[t] :
                      LET was == FindInType(t, k)
                          is  == FindInType(t, k)'
                      IN  was.status = "found" =>
                              /\ is.status = "found" /\ is.path = was.path
                              /\ is.fields = IF was.path = plan[p].path THEN Tidied[was.fields]
                                             ELSE was.fields]_vars
  <2> SUFFICES ASSUME ProcInv, ProcNext, NEW p \in Processes,
                      pc[p] = "rename", pc'[p] = "read", disk[plan[p].path] = plan[p].seen,
                      NEW t \in Types, NEW k \in Keys[t], FindInType(t, k).status = "found"
               PROVE  /\ FindInType(t, k)'.status = "found"
                      /\ FindInType(t, k)'.path = FindInType(t, k).path
                      /\ FindInType(t, k)'.fields =
                             IF FindInType(t, k).path = plan[p].path
                             THEN Tidied[FindInType(t, k).fields] ELSE FindInType(t, k).fields
      OBVIOUS
  <2>1. PICK q \in Processes : Command(q) \/ Fmt(q) \/ Crash(q)
      BY DEF ProcNext
  <2>2. q = p
    <3>1. StepOf(q)
        BY <2>1, StartCommandStep, LookForPlaceStep, LoadTargetStep, FindObjectStep,
           WriteSteps, StartFmtStep, FmtReadStep, CrashStep DEF Command, Fmt
    <3> QED
        BY <3>1 DEF StepOf, Still
  <2>3. FmtRename(p)
      BY <2>1, <2>2 DEF Command, Fmt, StartCommand, StartFmt, Start, LookForPlace, LoadTarget,
         FindObject, Truncate, Fill, RemoveFile, FmtRead, Crash, EndFmt, ProcInv, ProcTypes
  <2> DEFINE path == plan[p].path
             g    == plan[p].content
  <2>4. /\ path \in Paths /\ g \in Files /\ disk[path] # Absent /\ g = Formatted(disk[path])
        /\ StoreTypeOK
      BY DEF ProcInv, ProcTypes, PlanInv, Whole
  <2>5. disk' = [disk EXCEPT ![path] = g]
      BY <2>3 DEF FmtRename
  <2>6. StoreTypeOK'
      BY ProcInvStep DEF ProcInv, ProcTypes
  <2>7. disk[path] \in Files /\ g # Absent
      BY <2>4, ValuesAssumption DEF StoreTypeOK, Disks, Files
  <2>8. k # NoId
      BY <2>4, FoundHasPosition
  <2> HIDE DEF path, g
  <2>9. ASSUME NEW inc, Readable(t, inc, disk[path])
        PROVE  Readable(t, inc, g) /\ KeepsAs(t, path, disk[path], g, k, Tidied)
    <3>1. Readable(t, inc, Formatted(disk[path]))
          /\ KeepsAs(t, path, disk[path], Formatted(disk[path]), k, Tidied)
        BY <2>7, <2>8, <2>9, FormattedKeeps
    <3> QED
        BY <2>4, <3>1
  <2>10. /\ FindInType(t, k)'.status = "found"
         /\ FindInType(t, k)'.path = FindInType(t, k).path
         /\ FindInType(t, k)'.fields =
                IF FindInType(t, k).path = path
                THEN Tidied[FindInType(t, k).fields] ELSE FindInType(t, k).fields
      BY <2>4, <2>5, <2>6, <2>7, <2>9, KeptByRewriteAs
  <2> QED
      BY <2>10 DEF path
<1> QED
    BY <1>1, ProcInvInit, ProcInvStep, PTL DEF ProcSpec, FmtKeepsObjects
=============================================================================
