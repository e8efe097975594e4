--------------------------- MODULE StoreProcesses ---------------------------
(***************************************************************************)
(* Commands that run at the same time, each a process of its own, on the   *)
(* files of ObjectStore: create, update and delete, and fmt, which rewrites *)
(* the data files in their canonical form.  Nothing is locked.             *)
(*                                                                         *)
(* A command looks its object up (one step here), create then reads the    *)
(* file it has chosen once more, and os.WriteFile first truncates the file *)
(* and then writes from its beginning, over what another process may have  *)
(* written there meanwhile; a process may be killed in between.  fmt writes *)
(* a temporary file and renames it.                                        *)
(***************************************************************************)
EXTENDS ObjectStore

CONSTANTS
    Processes,
    Jobs,          \* the commands that may be run: [op, type, key]
    Payloads,      \* the fields a create or an update may be given
    SortRank,      \* SortRank[item]: where fmt's sort puts an item of a list
    Tidied,        \* Tidied[fields]: the fields with the lists in them that are
                   \* called items sorted too, however deep they are
    Idle,          \* the job of a process that runs no command
    MaxCommands    \* a bound: how many commands are started

Operations == {"create", "update", "merge", "delete"}

ASSUME ProcessesAssumption ==
    /\ Payloads \subseteq FieldMaps
    /\ SortRank \in [Item -> Nat]
    /\ Tidied \in [FieldMaps -> FieldMaps]
    /\ \A fields \in FieldMaps, n \in Names : Tidied[fields][n] = Unset <=> fields[n] = Unset
    /\ \A j \in Jobs : j.op \in Operations /\ j.type \in Types /\ j.key \in Keys[j.type]
    /\ MaxCommands \in Nat

(* What a process may run: a command, or fmt with the files it has still to   *)
(* look at.                                                                 *)
CommandJobs ==
    [op : Operations, type : Types, key : Ids \cup Paths, fields : FieldMaps \cup {Missing}]

FmtJobs ==
    [op : {"fmt", "lint"}, type : {NoType}, key : {NoId}, fields : {Missing}, todo : SUBSET Paths]

ASSUME IdleAssumption == Idle \notin CommandJobs \cup FmtJobs \cup Paths

VARIABLES
    pc,            \* pc[p]: what process p does next
    job,           \* job[p]: the command p runs
    plan,          \* plan[p]: the file p is about to write, what it was when
                   \* p read it, and what it shall be
    attached,      \* the processes that fill a file which is still at its path
    overtaken,     \* the processes beside which another one wrote a file
    crashedAt,     \* the files that a process was killed at filling
    contested,     \* the files that two processes were filling at once
    started        \* how many commands were started

procVars == <<pc, job, plan, attached, overtaken, crashedAt, contested, started>>
vars == <<disk, reply, procVars>>

NoPlan == [path |-> Idle, seen |-> Absent, content |-> Absent]

NoFields == [n \in Names |-> Unset]

(* A YAML file of no bytes, which reads as an object without fields, and one  *)
(* that does not parse, as when it ends in the middle of a line.             *)
NoObject == [id |-> NoId, fields |-> NoFields]
Empty == Single(NoObject)
CutOff == [shape |-> "broken", type |-> NoType, items |-> <<>>]

(* What may be read where some lines of item are there and some of under.     *)
Blends(item, under) ==
    {[id     |-> i,
      fields |-> [n \in Names |-> IF n \in those THEN item.fields[n] ELSE under.fields[n]]] :
        i \in {item.id, under.id}, those \in SUBSET Names}

(* What may be there of a file that is not written to its end: also the first *)
(* items of a list, the last of them or the one object not whole.             *)
TornLists(f) ==
    UNION {{[f EXCEPT !.type = NoType, !.items = Append(SubSeq(@, 1, n - 1), item)] :
               item \in Blends(f.items[n], NoObject)} : n \in DOMAIN f.items}

Torn(f) ==
    {Empty, CutOff} \cup
    IF f.shape = "multi" THEN TornLists(f)
    ELSE {Single(item) : item \in Blends(f.items[1], NoObject)}

(* Two files of one shape of which the first has been written over the other, *)
(* up to its end or not.                                                    *)
Spliced(f, under) ==
    CASE f.shape = "single" /\ under.shape = "single" ->
            {Single(item) : item \in Blends(f.items[1], under.items[1])}
      [] f.shape = "multi" /\ under.shape = "multi" ->
            {[under EXCEPT !.items = SubSeq(f.items, 1, n) \o SubSeq(@, m, Len(@))] :
                n \in DOMAIN f.items, m \in DOMAIN under.items}
      [] OTHER -> {}

(* What f leaves when it is written over a file: the end of a longer one stays *)
(* behind it, as fields f does not have, or as lines that make no sense there. *)
Overlaid(f, under) ==
    IF under = Empty THEN {f}
    ELSE {f, CutOff} \cup
         {g \in Spliced(f, under) :
             /\ f.shape = "single" /\ g.items[1].id = f.items[1].id
             /\ \A n \in Names : f.items[1].fields[n] # Unset =>
                    g.items[1].fields[n] = f.items[1].fields[n]}

(* ... and when the process is killed at it.                                 *)
PartlyOverlaid(f, under) ==
    IF under = Empty THEN Torn(f)
    ELSE {under, CutOff} \cup (Torn(f) \ {Empty}) \cup Spliced(f, under)

(* The processes that fill the file that is at path.                          *)
Filling(path) == {p \in attached : plan[p].path = path}

(* The file at path is another one, or gone: who fills the old one does so in  *)
(* vain, and what was wrong with it is past.                                 *)
Replaced(path) ==
    /\ attached' = attached \ Filling(path)
    /\ crashedAt' = crashedAt \ {path}
    /\ contested' = contested \ {path}

(* What a step of p that writes means for the others.                        *)
Overtaking(p) == overtaken \cup {q \in Processes \ {p} : pc[q] # "idle"}

---------------------------------------------------------------------------
(* Commands: data.Store.                                                    *)

(* A command ends, and its process; one that is refused has no fields.        *)
End(p, fields, ok) ==
    /\ pc' = [pc EXCEPT ![p] = "idle"]
    /\ job' = [job EXCEPT ![p] = Idle]
    /\ plan' = [plan EXCEPT ![p] = NoPlan]
    /\ reply' = Answer(job[p].op, job[p].type, job[p].key, fields, ok)
    /\ UNCHANGED started

Start(p, j) ==
    /\ pc[p] = "idle" /\ started < MaxCommands
    /\ reply' = Quiet
    /\ started' = started + 1
    /\ job' = [job EXCEPT ![p] = j]
    /\ overtaken' = IF \E q \in Processes : pc[q] = "fill" THEN overtaken \cup {p}
                    ELSE overtaken \ {p}

StartCommand(p) ==
    \E j \in Jobs :
        \E fields \in IF j.op = "delete" THEN {Missing} ELSE Payloads :
            /\ Start(p, [op |-> j.op, type |-> j.type, key |-> j.key, fields |-> fields])
            /\ pc' = [pc EXCEPT ![p] = "find"]
            /\ UNCHANGED <<disk, plan, attached, crashedAt, contested>>

(* Create, up to chooseCreateTarget.                                         *)
LookForPlace(p) ==
    LET t == job[p].type
        k == job[p].key
        targets == CreateTargets(t, k)
    IN  /\ pc[p] = "find" /\ job[p].op = "create"
        /\ IF FindInTypes(HierarchyOf[t], k) = NotFound /\ targets # {}
           THEN /\ pc' = [pc EXCEPT ![p] = "load"]
                /\ UNCHANGED <<reply, job, plan, started>>
           ELSE End(p, Missing, FALSE)
        /\ UNCHANGED <<disk, attached, overtaken, crashedAt, contested>>

(* Create reads its target, after the look-up and whatever happened since.    *)
LoadTarget(p) ==
    /\ pc[p] = "load"
    /\ \E target \in CreateTargets(job[p].type, job[p].key) :
        LET f == disk[target.path]
            t == job[p].type
        IN  IF f # Absent /\ ~LoadsAs(t, f)
            THEN End(p, Missing, FALSE)
            ELSE /\ plan' = [plan EXCEPT ![p] =
                        [path    |-> target.path,
                         seen    |-> f,
                         content |-> WithCreated(t, Stored(t, job[p].key, job[p].fields), target)]]
                 /\ pc' = [pc EXCEPT ![p] = "truncate"]
                 /\ UNCHANGED <<reply, job, started>>
    /\ UNCHANGED <<disk, attached, overtaken, crashedAt, contested>>

(* What Update and Delete will write, from the file the look-up has read.     *)
Changes(j) ==
    CASE j.op = "update" -> UpdateWrites(j.type, j.key, j.fields, FALSE)
      [] j.op = "merge"  -> UpdateWrites(j.type, j.key, j.fields, TRUE)
      [] j.op = "delete" -> DeleteWrites(j.type, j.key)

FindObject(p) ==
    /\ pc[p] = "find" /\ job[p].op # "create"
    /\ IF Changes(job[p]) = {} THEN End(p, Missing, FALSE)
       ELSE \E w \in Changes(job[p]) :
               /\ plan' = [plan EXCEPT ![p] = [path |-> w.path, seen |-> disk[w.path],
                                               content |-> w.content]]
               /\ pc' = [pc EXCEPT ![p] = IF w.content = Absent THEN "remove" ELSE "truncate"]
               /\ UNCHANGED <<reply, job, started>>
    /\ UNCHANGED <<disk, attached, overtaken, crashedAt, contested>>

(* os.WriteFile opens the file ...                                          *)
Truncate(p) ==
    LET path == plan[p].path
    IN  /\ pc[p] = "truncate"
        /\ disk' = [disk EXCEPT ![path] = Empty]
        /\ pc' = [pc EXCEPT ![p] = "fill"]
        /\ attached' = attached \cup {p}
        /\ crashedAt' = crashedAt \ {path}
        /\ contested' = IF Filling(path) = {} THEN contested \ {path} ELSE contested \cup {path}
        /\ overtaken' = Overtaking(p)
        /\ UNCHANGED <<reply, job, plan, started>>

(* ... and writes from its beginning, whatever another command has written    *)
(* since, or to a file that is no more.  Only delete answers without the       *)
(* derived fields.                                                          *)
Fill(p) ==
    /\ pc[p] = "fill"
    /\ IF p \in attached
       THEN \E f \in Overlaid(plan[p].content, disk[plan[p].path]) :
                disk' = [disk EXCEPT ![plan[p].path] = f]
       ELSE UNCHANGED disk
    /\ attached' = attached \ {p}
    /\ overtaken' = Overtaking(p)
    /\ End(p, job[p].fields,
           job[p].op = "delete" \/ plan[p].path \in DerivesAt[job[p].type])
    /\ UNCHANGED <<crashedAt, contested>>

(* Mutant of RemoveFile: the file stays, without the object.                     *)
RemoveFile_Truncates(p) ==
    /\ pc[p] = "remove"
    /\ disk' = [disk EXCEPT ![plan[p].path] = Empty]
    /\ Replaced(plan[p].path)
    /\ overtaken' = Overtaking(p)
    /\ End(p, Missing, disk[plan[p].path] # Absent)

(* removeFile, which fails when the file has gone.                           *)
RemoveFile(p) ==
    /\ pc[p] = "remove"
    /\ disk' = [disk EXCEPT ![plan[p].path] = Absent]
    /\ Replaced(plan[p].path)
    /\ overtaken' = Overtaking(p)
    /\ End(p, Missing, disk[plan[p].path] # Absent)

---------------------------------------------------------------------------
(* fmt.                                                                     *)

(* configuredFileSet: the files of the includes, with their types.            *)
Tracked ==
    {e \in [path : Paths, type : Types] :
        /\ disk[e.path] # Absent
        /\ \E n \in DOMAIN Includes[e.type] : e.path \in Includes[e.type][n].files}

Kind(op) == [op |-> op, type |-> NoType, key |-> NoId, fields |-> Missing, todo |-> {}]

(* fmt takes all the files, or one that is named (or several; it makes no      *)
(* difference); a file of two types is an error.  "lint" stands for --lint    *)
(* and --stdout, which write none of them.                                   *)
StartFmt(p, op) ==
    /\ \E named \in {Paths} \cup {{e.path} : e \in Tracked} :
           Start(p, [Kind(op) EXCEPT !.todo = named \cap {e.path : e \in Tracked}])
    /\ \A e1, e2 \in Tracked : e1.path = e2.path => e1.type = e2.type
    /\ pc' = [pc EXCEPT ![p] = "read"]
    /\ UNCHANGED <<disk, plan, attached, crashedAt, contested>>

(* The order of the items of a list: by the first scalar field that is called  *)
(* id, name, slug or key, those without one last, and otherwise as they were.  *)
Rank(item) == SortRank[item]

Precedes(items, m, n) ==
    \/ Rank(items[m]) < Rank(items[n])
    \/ Rank(items[m]) = Rank(items[n]) /\ m < n

(* Mutant of Place: the sort is not stable.                                  *)
Place_Unstable(items, n) ==
    Cardinality({m \in DOMAIN items :
                    \/ Rank(items[m]) < Rank(items[n])
                    \/ Rank(items[m]) = Rank(items[n]) /\ m >= n})

Place(items, n) == Cardinality({m \in DOMAIN items : m = n \/ Precedes(items, m, n)})

Sorted(items) == [n \in DOMAIN items |-> items[CHOOSE m \in DOMAIN items : Place(items, m) = n]]

(* applyOnDocument: the lists called items, those in the objects first.        *)
TidyItems(f) == [n \in DOMAIN f.items |-> [f.items[n] EXCEPT !.fields = Tidied[@]]]

Formatted(f) ==
    [f EXCEPT !.items = IF f.shape = "multi" THEN Sorted(TidyItems(f)) ELSE TidyItems(f)]

(* fmt has come to its end, or to an error.                                  *)
EndFmt(p) ==
    /\ pc' = [pc EXCEPT ![p] = "idle"]
    /\ job' = [job EXCEPT ![p] = Idle]
    /\ plan' = [plan EXCEPT ![p] = NoPlan]

FirstFile(files) == PathOrder[Least({n \in DOMAIN PathOrder : PathOrder[n] \in files})]

(* FormatFile for the next file.  One whose items are in order may still be   *)
(* laid out in another way; an empty one never changes.                      *)
FmtRead(p) ==
    /\ pc[p] = "read"
    /\ IF job[p].todo = {} THEN EndFmt(p)
       ELSE LET path == FirstFile(job[p].todo)
                f    == disk[path]
                next == [job EXCEPT ![p].todo = @ \ {path}]
            IN  IF f = Absent \/ f.shape = "broken" THEN EndFmt(p)
                ELSE \/ /\ Formatted(f) = f \/ job[p].op = "lint"
                        /\ job' = next
                        /\ UNCHANGED <<pc, plan>>
                     \/ /\ f # Empty /\ job[p].op = "fmt"
                        /\ job' = next
                        /\ plan' = [plan EXCEPT ![p] = [path |-> path, seen |-> f,
                                                        content |-> Formatted(f)]]
                        /\ pc' = [pc EXCEPT ![p] = "rename"]
    /\ UNCHANGED <<disk, reply, attached, overtaken, crashedAt, contested, started>>

(* Mutant of FmtRename: the file itself is written, which may stop half-way.  *)
FmtRename_InPlace(p) ==
    /\ pc[p] = "rename"
    /\ \E c \in {Empty, plan[p].content} : disk' = [disk EXCEPT ![plan[p].path] = c]
    /\ overtaken' = Overtaking(p)
    /\ pc' = [pc EXCEPT ![p] = "read"]
    /\ plan' = [plan EXCEPT ![p] = NoPlan]
    /\ Replaced(plan[p].path)
    /\ UNCHANGED <<reply, job, started>>

(* writeAtomic: the file is there again even if it was removed meanwhile.     *)
FmtRename(p) ==
    /\ pc[p] = "rename"
    /\ disk' = [disk EXCEPT ![plan[p].path] = plan[p].content]
    /\ overtaken' = Overtaking(p)
    /\ pc' = [pc EXCEPT ![p] = "read"]
    /\ plan' = [plan EXCEPT ![p] = NoPlan]
    /\ Replaced(plan[p].path)
    /\ UNCHANGED <<reply, job, started>>

---------------------------------------------------------------------------
(* A process is killed.                                                     *)
Crash(p) ==
    /\ pc[p] # "idle"
    /\ IF p \in attached
       THEN /\ \E torn \in PartlyOverlaid(plan[p].content, disk[plan[p].path]) :
                   disk' = [disk EXCEPT ![plan[p].path] = torn]
            /\ crashedAt' = crashedAt \cup {plan[p].path}
            /\ overtaken' = Overtaking(p)
       ELSE UNCHANGED <<disk, crashedAt, overtaken>>
    /\ attached' = attached \ {p}
    /\ EndFmt(p)
    /\ UNCHANGED <<reply, contested, started>>

ProcInit ==
    /\ Init
    /\ pc = [p \in Processes |-> "idle"]
    /\ job = [p \in Processes |-> Idle]
    /\ plan = [p \in Processes |-> NoPlan]
    /\ attached = {} /\ overtaken = {} /\ crashedAt = {} /\ contested = {}
    /\ started = 0

Command(p) ==
    \/ StartCommand(p)
    \/ LookForPlace(p)
    \/ LoadTarget(p)
    \/ FindObject(p)
    \/ Truncate(p)
    \/ Fill(p)
    \/ RemoveFile(p)

Fmt(p) ==
    \/ \E op \in {"fmt", "lint"} : StartFmt(p, op)
    \/ FmtRead(p)
    \/ FmtRename(p)

ProcNext == \E p \in Processes : Command(p) \/ Fmt(p) \/ Crash(p)

ProcSpec == ProcInit /\ [][ProcNext]_vars

---------------------------------------------------------------------------
(* Properties.                                                              *)

(* A torn file is still one of the shapes a command expects.                  *)
ProcTypeOK ==
    /\ StoreTypeOK
    /\ \A p \in Processes :
           /\ pc[p] = "idle" <=> job[p] = Idle
           /\ pc[p] \in {"truncate", "fill", "remove", "rename"} <=> plan[p] # NoPlan
           /\ pc[p] = "remove" <=> plan[p] # NoPlan /\ plan[p].content = Absent
    /\ attached \subseteq {p \in Processes : pc[p] = "fill"}

(* The files without the ones that are just being filled.                    *)
Settled ==
    [path \in Paths |-> IF Filling(path) = {} THEN disk[path]
                        ELSE plan[CHOOSE p \in Filling(path) : TRUE].seen]

Store == INSTANCE ObjectStore WITH disk <- Settled

(* The command p runs comes to its end.                                      *)
Finishes(p) == pc[p] \in {"find", "load", "fill", "remove"} /\ pc'[p] = "idle" /\ reply' # reply

(* A command that no other process writes beside does in its many steps what  *)
(* the command of ObjectStore does in one, and so all that is shown of that.  *)
RacelessCommandsAreAtomic ==
    [][\A p \in Processes :
          Finishes(p) /\ p \notin overtaken' =>
              LET j == job[p]
              IN  CASE j.op = "create" -> Store!Create(j.type, j.key) \/ Store!RefuseCreate(j.type, j.key)
                    [] j.op = "update" -> Store!Update(j.type, j.key, FALSE) \/ Store!RefuseChange(j.op, j.type, j.key)
                    [] j.op = "merge"  -> Store!Update(j.type, j.key, TRUE) \/ Store!RefuseChange(j.op, j.type, j.key)
                    [] j.op = "delete" -> Store!Delete(j.type, j.key) \/ Store!RefuseChange(j.op, j.type, j.key)]_vars

(* What OwnFilesKept needs of a workspace: a file is a list, or belongs to the *)
(* one identifier (owner) that create would use it for, and holds no other;    *)
(* the files of $path types have no identifiers in them.                      *)
Fits(owner, path, f) ==
    /\ f.shape = "single" => f.items[1].id \in {NoId, owner[path]}
    /\ f.shape = "multi" => owner[path] = NoId

Orderly(owner) ==
    /\ owner \in [Paths -> Ids \cup {NoId}]
    /\ \A t \in Types \ PathTypes : \A k \in Ids : \A target \in CreateTargets(t, k) :
           owner[target.path] = IF target.multi THEN NoId ELSE k
    /\ \A t \in PathTypes : \A n \in DOMAIN Includes[t] :
           \A path \in Includes[t][n].files : owner[path] = NoId
    /\ \A d \in InitialDisks : \A path \in Paths :
           d[path] # Absent => Fits(owner, path, d[path])

(* In an orderly workspace, an object in a file of its own is safe from the    *)
(* commands on other objects, however they race and wherever they are killed,  *)
(* and fmt puts it in order and no more, as long as nobody changes the file    *)
(* meanwhile.                                                               *)
OwnFilesKept ==
    [][\A path \in Paths :
          LET f == disk[path]
          IN  /\ f # Absent /\ f.shape = "single" /\ f.items[1].id # NoId
              /\ disk'[path] # f
              => \E p \in Processes :
                     /\ plan[p].path = path
                     /\ \/ /\ job[p].op = "fmt"
                           /\ plan[p].seen # f \/ disk'[path] = Formatted(f)
                        \/ job[p].key = f.items[1].id]_vars

(* What TornOnlyByCommands needs: no file is torn to begin with, and no command *)
(* is given a payload with which a $path type would write an empty one.       *)
NothingTorn ==
    /\ NoFields \notin Payloads
    /\ \A d \in InitialDisks : \A path \in Paths : d[path] \notin {Empty, CutOff}

(* A file that was not torn is only so while a command fills it, once one was   *)
(* killed at that, or if two were filling it at once: then even with nobody    *)
(* killed and both done it may not parse.  fmt never tears a file, and what    *)
(* was torn is mended by the next command that writes it alone, or by fmt.     *)
TornOnlyByCommands ==
    \A path \in Paths :
        disk[path] \in {Empty, CutOff} =>
            Filling(path) # {} \/ path \in crashedAt \cup contested

(* What FmtKeepsObjects needs: the field fmt sorts by is the identifier.  With  *)
(* another identifier field, fmt may put an item that does not load, or another *)
(* one of the same identifier, before the one that was found.                *)
SortsByIdentifier ==
    \A item, other \in Item :
        item.id # NoId =>
            /\ other.id = item.id => Rank(item) = Rank(other)
            /\ other.id = NoId => Rank(item) < Rank(other)

(* Where fmt sorts by the identifier, every object that can be found before it  *)
(* is found in the same file after it, and nothing of it has changed but the   *)
(* order of the lists called items in it; an object in another file not even   *)
(* that.  (In a file that somebody changes meanwhile, the change is lost.)      *)
FmtKeepsObjects ==
    [][\A p \in Processes :
          /\ pc[p] = "rename" /\ pc'[p] = "read"
          /\ disk[plan[p].path] = plan[p].seen /\ disk' # disk
          => \A t \in Types : \A k \in Keys[t] :
                  LET was == FindInType(t, k)
                      is  == FindInType(t, k)'
                  IN  was.status = "found" =>
                          /\ is.status = "found" /\ is.path = was.path
                          /\ is.fields = IF was.path = plan[p].path THEN Tidied[was.fields]
                                         ELSE was.fields]_vars

(* A file outside the workspace is never changed for a $path type, whatever    *)
(* becomes of the files between the steps of a command; but fmt rewrites it.  *)
PathTypesStayInRoot ==
    [][\A path \in Paths \ InRoot :
          disk'[path] # disk[path] =>
              \E p \in Processes :
                  /\ plan[p].path = path
                  /\ job[p].type \notin PathTypes]_vars
=============================================================================
