-------------------------- MODULE OverlayRuntime --------------------------
(***************************************************************************)
(* The overlay runtime of the language server (workspace.Runtime): the     *)
(* open editor buffers, the debounce timer, and the reloads that recompute *)
(* every root from the buffers laid over the files on disk.                *)
(*                                                                         *)
(* A reload is a goroutine of its own: time.AfterFunc starts one when the  *)
(* timer fires, FlushReload runs one on the caller's thread.  It takes the *)
(* runtime's mutex twice, to clone the buffers and to install its result,  *)
(* and computes in between without it, so reloads overlap each other and   *)
(* the edits.  An action below is what happens in one critical section, or *)
(* in one call of the computation between two of them.                     *)
(***************************************************************************)
EXTENDS Naturals, FiniteSets

CONSTANTS
    Roots,       \* the roots OpenRoots detected (base.Roots), fixed for the run
    Paths,       \* the files that matter: config entries and data files
    ConfigOf,    \* ConfigOf[r]: the config entry file of root r
    SchemaFiles, \* the JSON Schema files the configurations refer to
    Texts,       \* what a file or a buffer may hold
    Configs,     \* the configurations a load may return
    SourcesOf,   \* SourcesOf[cfg]: the config files cfg was put together from
    ConfigAt,    \* ConfigAt[r][view]: what config.LoadWithOps answers
    LoadsAt,     \* LoadsAt[r][cfg][view]: LoadWithConfigAndOps succeeds
    ReportAt,    \* ReportAt[r][cfg][view]: the files validation complains of
    Timers,      \* the goroutines time.AfterFunc may have running at once
    Main,        \* the thread that calls DidOpen ... FlushReload
    Closed,      \* no buffer: the path has no entry in Runtime.documents
    Absent,      \* no such file on disk
    Nil,         \* no root, no configuration
    StartDisks,  \* bound on the files the server may find when it starts
    MaxEdits,    \* bound on buffer changes in a run
    MaxWrites    \* bound on writes to the disk by other processes

Threads == Timers \cup {Main}

Document == [version : Nat, text : Texts]

(* What the loaders see: the text of every file, or that there is none.      *)
Views == [Paths -> Texts \cup {Absent}]

(* A config load that fails, with the files its error text names.            *)
Failure == [mentions : SUBSET Paths]

ASSUME RootsAssumption == ConfigOf \in [Roots -> Paths] /\ SchemaFiles \subseteq Paths

(* The loaders are modules of their own (ConfigLoad, ObjectStore, Validation) *)
(* and any functions here: an answer may depend on every file, open or not.  *)
ASSUME LoadersAssumption ==
    /\ SourcesOf \in [Configs -> SUBSET Paths]
    /\ ConfigAt \in [Roots -> [Views -> Configs \cup Failure]]
    /\ LoadsAt \in [Roots -> [Configs -> [Views -> BOOLEAN]]]
    /\ ReportAt \in [Roots -> [Configs -> [Views -> SUBSET Paths]]]

ASSUME ThreadsAssumption == Main \notin Timers

ASSUME SentinelsAssumption ==
    /\ Closed \notin Document
    /\ Absent \notin Texts
    /\ Nil \notin Roots /\ Nil \notin Configs
    /\ Configs \cap Failure = {}

ASSUME BoundsAssumption ==
    /\ StartDisks \subseteq {f \in Views : \A r \in Roots : f[ConfigOf[r]] # Absent}
    /\ MaxEdits \in Nat /\ MaxWrites \in Nat

VARIABLES
    documents,   \* the open buffers, Closed for a path that is not open
    disk,        \* the files, written by other processes only
    configFiles, \* RootIndex.ConfigFiles of each root, fixed by OpenRoots
    timer,       \* "none" (nil), "armed", or "fired": firing does not reset it
    roots,       \* the installed RootRuntime of each root
    pc,          \* where each thread is in reload
    cloned,      \* the buffers each running reload has cloned
    todo,        \* the roots each running reload has still to compute
    at,          \* the root each running reload is computing
    next,        \* the RootRuntimes each running reload has computed
    held,        \* what each file has held since each thread's call began
    edits,       \* ghost: how many buffer changes there have been
    stamp,       \* ghost: the value of edits when each running reload cloned
    newest,      \* ghost: the highest stamp any reload has cloned
    installed,   \* ghost: the highest stamp any reload has installed
    overtaken,   \* ghost: the running reloads that saw another one install
    writes       \* ghost: how many writes to the disk there have been

vars == <<documents, disk, configFiles, timer, roots, pc, cloned, todo, at, next,
          held, edits, stamp, newest, installed, overtaken, writes>>

Documents == [Paths -> Document \cup {Closed}]

(* RootRuntime: a workspace or nil, an error or nil with the config files it *)
(* names, and a report or nil with its Config and the files it complains of. *)
(* The buffers it was computed from and their stamp are ghosts.              *)
RootRuntime == [workspace  : BOOLEAN,
                loadErr    : BOOLEAN,
                mentions   : SUBSET Paths,
                validated  : BOOLEAN,
                config     : Configs \cup {Nil},
                complaints : SUBSET Paths,
                basis      : Documents,
                stamp      : Nat]

NoDocuments == [p \in Paths |-> Closed]

(* The threads between the two critical sections of reload.                 *)
Computing == {t \in Threads : pc[t] \in {"config", "load", "validate"}}

(* The entry next has for a root that is not computed yet.                   *)
Blank == [workspace |-> FALSE, loadErr |-> FALSE, mentions |-> {},
          validated |-> FALSE, config |-> Nil, complaints |-> {},
          basis |-> NoDocuments, stamp |-> 0]

---------------------------------------------------------------------------
(* What the loaders see.                                                    *)

(* overlayOps.ReadFile: an open buffer hides the file on disk, and for       *)
(* overlayOps.Glob it is there even when the file is not.  A JSON Schema is  *)
(* read by os.ReadFile, past the overlay.                                    *)
ReadFile(docs, files, p) ==
    IF docs[p] # Closed /\ p \notin SchemaFiles THEN docs[p].text ELSE files[p]

View(docs, files) == [p \in Paths |-> ReadFile(docs, files, p)]

(* What a call that reads file after file may see of a disk that changes      *)
(* meanwhile: of every file something it has held since the call began.      *)
Seen(t) == {files \in Views : \A p \in Paths : files[p] \in held[t][p]}

NothingHeld == [p \in Paths |-> {}]

(* A call ends, and the thread's next one begins, with the disk as it is.    *)
BeginCall(t) == held' = [held EXCEPT ![t] = [p \in Paths |-> {disk[p]}]]

---------------------------------------------------------------------------
(* OpenRoots found a config entry for every root; NewRuntime keeps whatever *)
(* workspace it could load, without error or report.                        *)
OnDisk(r) == ConfigAt[r][View(NoDocuments, disk)]

Detected(r) ==
    [Blank EXCEPT !.workspace = /\ OnDisk(r) \in Configs
                                /\ LoadsAt[r][OnDisk(r)][View(NoDocuments, disk)]]

(* buildRootIndex, and buildFallbackRootIndex when the config does not load. *)
IndexedFiles(r) ==
    {ConfigOf[r]} \cup IF OnDisk(r) \in Configs THEN SourcesOf[OnDisk(r)] ELSE {}

Init ==
    /\ disk \in StartDisks
    /\ configFiles = [r \in Roots |-> IndexedFiles(r)]
    /\ documents = NoDocuments
    /\ timer = "none"
    /\ roots = [r \in Roots |-> Detected(r)]
    /\ pc = [t \in Threads |-> "idle"]
    /\ cloned = [t \in Threads |-> NoDocuments]
    /\ todo = [t \in Threads |-> {}]
    /\ at = [t \in Threads |-> Nil]
    /\ next = [t \in Threads |-> [r \in Roots |-> Blank]]
    /\ held = [t \in Threads |-> NothingHeld]
    /\ stamp = [t \in Threads |-> 0]
    /\ edits = 0 /\ newest = 0 /\ installed = 0 /\ writes = 0
    /\ overtaken = {}

(* Mutant of ScheduleReload: a new timer only when there is none, although   *)
(* firing does not reset the field.                                         *)
ScheduleReload_IfNil == timer' = IF timer = "none" THEN "armed" ELSE timer

(* scheduleReloadLocked: stop the old timer, start a new one.  Stopping     *)
(* does nothing to the goroutine of a timer that has fired.                 *)
ScheduleReload == timer' = "armed"

(* A buffer change: the new entry and the new timer in one critical section. *)
(* The client numbers its versions upwards; edits + 1 stands for the number. *)
EditBuffer(p, doc) ==
    /\ pc[Main] = "idle"
    /\ edits < MaxEdits
    /\ documents' = [documents EXCEPT ![p] = doc]
    /\ ScheduleReload
    /\ edits' = edits + 1
    /\ UNCHANGED <<disk, configFiles, roots, pc, cloned, todo, at, next, held,
                   stamp, newest, installed, overtaken, writes>>

DidOpen(p, text) ==
    EditBuffer(p, [version |-> edits + 1, text |-> text])

(* DidChange of a path that is not open is an error and changes nothing.     *)
DidChange(p, text) ==
    /\ documents[p] # Closed
    /\ EditBuffer(p, [version |-> edits + 1, text |-> text])

(* Mutant of DidClose: the buffer is blanked instead of removed.             *)
DidClose_Blanks(p) == EditBuffer(p, [version |-> edits + 1, text |-> Absent])

(* DidClose of a path that is not open schedules a reload all the same.      *)
DidClose(p) == EditBuffer(p, Closed)

(* Another process (an editor saving, the CLI, git) writes or removes p.     *)
WriteDisk(p, text) ==
    /\ writes < MaxWrites
    /\ disk[p] # text
    /\ disk' = [disk EXCEPT ![p] = text]
    /\ writes' = writes + 1
    /\ held' = [t \in Threads |->
                   IF t \in Computing THEN [held[t] EXCEPT ![p] = @ \cup {text}]
                                     ELSE held[t]]
    /\ UNCHANGED <<documents, configFiles, timer, roots, pc, cloned, todo, at, next,
                   edits, stamp, newest, installed, overtaken>>

---------------------------------------------------------------------------
(* A thread's way through reload.                                           *)

(* FlushReload stops the timer; reload then runs on the same thread.        *)
FlushReload ==
    /\ pc[Main] = "idle"
    /\ timer' = "none"
    /\ pc' = [pc EXCEPT ![Main] = "begin"]
    /\ UNCHANGED <<documents, disk, configFiles, roots, cloned, todo, at, next, held,
                   edits, stamp, newest, installed, overtaken, writes>>

(* The timer fires and starts a goroutine that calls reload.                *)
TimerFires(t) ==
    /\ timer = "armed"
    /\ pc[t] = "idle"
    /\ timer' = "fired"
    /\ pc' = [pc EXCEPT ![t] = "begin"]
    /\ UNCHANGED <<documents, disk, configFiles, roots, cloned, todo, at, next, held,
                   edits, stamp, newest, installed, overtaken, writes>>

(* reload, first critical section.                                          *)
CloneDocuments(t) ==
    /\ pc[t] = "begin"
    /\ pc' = [pc EXCEPT ![t] = "config"]
    /\ cloned' = [cloned EXCEPT ![t] = documents]
    /\ todo' = [todo EXCEPT ![t] = Roots]
    /\ stamp' = [stamp EXCEPT ![t] = edits]
    /\ newest' = edits
    /\ BeginCall(t)
    /\ UNCHANGED <<documents, disk, configFiles, timer, roots, at, next,
                   edits, installed, overtaken, writes>>

(* The root a reload computes next: base.Roots is sorted once and for all,   *)
(* so that every reload takes the roots in the same order.                  *)
FirstOf(left) == CHOOSE r \in left : TRUE

(* What a RootRuntime becomes with the answer of the config load.            *)
WithConfig(runtime, answer) ==
    IF answer \in Configs THEN [runtime EXCEPT !.config = answer]
    ELSE [runtime EXCEPT !.loadErr = TRUE, !.mentions = answer.mentions]

(* Mutant of LoadRootConfig: a root whose config fails starts over from the  *)
(* base root set.                                                           *)
LoadRootConfig_FromBase(t, r) ==
    /\ pc[t] = "config"
    /\ todo[t] # {} /\ r = FirstOf(todo[t])
    /\ \E files \in Seen(t) :
           LET answer == ConfigAt[r][View(cloned[t], files)]
               loads == answer \in Configs
           IN  /\ pc' = [pc EXCEPT ![t] = IF loads THEN "load" ELSE "config"]
               /\ at' = [at EXCEPT ![t] = IF loads THEN r ELSE Nil]
               /\ next' = [next EXCEPT ![t][r] = WithConfig(
                              [Blank EXCEPT !.basis = IF loads THEN cloned[t] ELSE @,
                                            !.stamp = IF loads THEN stamp[t] ELSE @],
                              answer)]
    /\ todo' = [todo EXCEPT ![t] = @ \ {r}]
    /\ BeginCall(t)
    /\ UNCHANGED <<documents, disk, configFiles, timer, roots, cloned,
                   edits, stamp, newest, installed, overtaken, writes>>

(* loadRootConfig.  On an error the root keeps its index and gets nothing   *)
(* but the error.                                                           *)
LoadRootConfig(t, r) ==
    /\ pc[t] = "config"
    /\ todo[t] # {} /\ r = FirstOf(todo[t])
    /\ \E files \in Seen(t) :
           LET answer == ConfigAt[r][View(cloned[t], files)]
               loads == answer \in Configs
           IN  /\ pc' = [pc EXCEPT ![t] = IF loads THEN "load" ELSE "config"]
               /\ at' = [at EXCEPT ![t] = IF loads THEN r ELSE Nil]
               /\ next' = [next EXCEPT ![t][r] = WithConfig(
                              [Blank EXCEPT !.basis = cloned[t], !.stamp = stamp[t]],
                              answer)]
    /\ todo' = [todo EXCEPT ![t] = @ \ {r}]
    /\ BeginCall(t)
    /\ UNCHANGED <<documents, disk, configFiles, timer, roots, cloned,
                   edits, stamp, newest, installed, overtaken, writes>>

(* LoadWithConfigAndOps for the root at hand, with the config just loaded.   *)
LoadWorkspace(t) ==
    /\ pc[t] = "load"
    /\ pc' = [pc EXCEPT ![t] = "validate"]
    /\ \E files \in Seen(t) :
           LET loads == LoadsAt[at[t]][next[t][at[t]].config][View(cloned[t], files)]
           IN  next' = [next EXCEPT ![t][at[t]] =
                           [@ EXCEPT !.workspace = loads, !.loadErr = ~loads]]
    /\ BeginCall(t)
    /\ UNCHANGED <<documents, disk, configFiles, timer, roots, cloned, todo, at,
                   edits, stamp, newest, installed, overtaken, writes>>

(* Mutant of ValidateRoot: the runtime's live buffers are asked, not the     *)
(* clone.                                                                   *)
ValidateRoot_Live(t) ==
    /\ pc[t] = "validate"
    /\ pc' = [pc EXCEPT ![t] = "config"]
    /\ \E files \in Seen(t) :
           LET report == ReportAt[at[t]][next[t][at[t]].config][View(documents, files)]
           IN  next' = [next EXCEPT ![t][at[t]] =
                           [@ EXCEPT !.validated = TRUE, !.complaints = report]]
    /\ at' = [at EXCEPT ![t] = Nil]
    /\ BeginCall(t)
    /\ UNCHANGED <<documents, disk, configFiles, timer, roots, cloned, todo,
                   edits, stamp, newest, installed, overtaken, writes>>

(* ValidateWithConfigAndOps for the root at hand, which reads the files     *)
(* again.  Its own error needs a nil config or a root filepath.Abs rejects:  *)
(* neither can be here.  The workspace it loads for the report is not used.  *)
ValidateRoot(t) ==
    /\ pc[t] = "validate"
    /\ pc' = [pc EXCEPT ![t] = "config"]
    /\ \E files \in Seen(t) :
           LET report == ReportAt[at[t]][next[t][at[t]].config][View(cloned[t], files)]
           IN  next' = [next EXCEPT ![t][at[t]] =
                           [@ EXCEPT !.validated = TRUE, !.complaints = report]]
    /\ at' = [at EXCEPT ![t] = Nil]
    /\ BeginCall(t)
    /\ UNCHANGED <<documents, disk, configFiles, timer, roots, cloned, todo,
                   edits, stamp, newest, installed, overtaken, writes>>

(* Mutant of Install: a root whose config fails keeps its old runtime.       *)
Install_KeepsOnError(t) ==
    /\ pc[t] = "config"
    /\ todo[t] = {}
    /\ pc' = [pc EXCEPT ![t] = "hook"]
    /\ roots' = [r \in Roots |-> IF next[t][r].validated THEN next[t][r] ELSE roots[r]]
    /\ cloned' = [cloned EXCEPT ![t] = NoDocuments]
    /\ next' = [next EXCEPT ![t] = [r \in Roots |-> Blank]]
    /\ held' = [held EXCEPT ![t] = NothingHeld]
    /\ stamp' = [stamp EXCEPT ![t] = 0]
    /\ installed' = IF installed < stamp[t] THEN stamp[t] ELSE installed
    /\ overtaken' = (overtaken \cup Computing) \ {t}
    /\ UNCHANGED <<documents, disk, configFiles, timer, todo, at,
                   edits, newest, writes>>

(* reload, second critical section: every root is replaced.                 *)
Install(t) ==
    /\ pc[t] = "config"
    /\ todo[t] = {}
    /\ pc' = [pc EXCEPT ![t] = "hook"]
    /\ roots' = next[t]
    /\ cloned' = [cloned EXCEPT ![t] = NoDocuments]
    /\ next' = [next EXCEPT ![t] = [r \in Roots |-> Blank]]
    /\ held' = [held EXCEPT ![t] = NothingHeld]
    /\ stamp' = [stamp EXCEPT ![t] = 0]
    /\ installed' = IF installed < stamp[t] THEN stamp[t] ELSE installed
    /\ overtaken' = (overtaken \cup Computing) \ {t}
    /\ UNCHANGED <<documents, disk, configFiles, timer, todo, at,
                   edits, newest, writes>>

(* The reload hook has returned; it runs without the mutex.                 *)
HookReturns(t) ==
    /\ pc[t] = "hook"
    /\ pc' = [pc EXCEPT ![t] = "idle"]
    /\ UNCHANGED <<documents, disk, configFiles, timer, roots, cloned, todo, at, next,
                   held, edits, stamp, newest, installed, overtaken, writes>>

---------------------------------------------------------------------------
Edit ==
    \E p \in Paths :
        \/ \E text \in Texts : DidOpen(p, text) \/ DidChange(p, text)
        \/ DidClose(p)

ReloadStep(t) ==
    \/ CloneDocuments(t)
    \/ \E r \in Roots : LoadRootConfig(t, r)
    \/ LoadWorkspace(t)
    \/ ValidateRoot(t)
    \/ Install(t)

Next ==
    \/ Edit
    \/ \E p \in Paths, text \in Texts \cup {Absent} : WriteDisk(p, text)
    \/ FlushReload
    \/ \E t \in Timers : TimerFires(t)
    \/ \E t \in Threads : ReloadStep(t) \/ HookReturns(t)

Spec == Init /\ [][Next]_vars
---------------------------------------------------------------------------
(* Properties.                                                              *)

TypeOK ==
    /\ documents \in Documents
    /\ disk \in Views
    /\ configFiles \in [Roots -> SUBSET Paths]
    /\ timer \in {"none", "armed", "fired"}
    /\ roots \in [Roots -> RootRuntime]
    /\ pc \in [Threads -> {"idle", "begin", "config", "load", "validate", "hook"}]
    /\ cloned \in [Threads -> Documents]
    /\ todo \in [Threads -> SUBSET Roots]
    /\ at \in [Threads -> Roots \cup {Nil}]
    /\ next \in [Threads -> [Roots -> RootRuntime]]
    /\ held \in [Threads -> [Paths -> SUBSET (Texts \cup {Absent})]]
    /\ stamp \in [Threads -> Nat]
    /\ edits \in Nat /\ newest \in Nat /\ installed \in Nat /\ writes \in Nat
    /\ overtaken \subseteq Threads

(* No edit is lost by the debounce: as long as the result of the last edit  *)
(* has not been installed, the timer will fire, or a reload is about to     *)
(* clone, or the newest buffers are being computed.  DidOpen, DidChange and *)
(* DidClose, the timer that is stopped by one thread while it fires, and    *)
(* FlushReload, which drops the timer, must all preserve this.              *)
NoLostEdit ==
    installed < edits =>
        \/ timer = "armed"
        \/ \E t \in Threads : pc[t] = "begin"
        \/ \E t \in Computing : stamp[t] = newest /\ newest > installed

(* Whoever looks at the roots, between any two critical sections, sees the  *)
(* work of one reload: all the roots were computed from the same buffers,   *)
(* however many reloads overlap.                                            *)
RootsAgree ==
    \A r1, r2 \in Roots :
        /\ roots[r1].stamp = roots[r2].stamp
        /\ roots[r1].basis = roots[r2].basis

(* What the loaders may see of some buffers: every open file's own text.     *)
ViewsOf(docs) ==
    {v \in Views : \A p \in Paths \ SchemaFiles :
                       docs[p] # Closed => v[p] = docs[p].text}

(* The answers a root may get from some buffers, each call for itself.       *)
Answers(docs, runtime, r) ==
    \/ /\ runtime.config = Nil /\ runtime.loadErr /\ ~runtime.validated
       /\ \E v \in ViewsOf(docs) : ConfigAt[r][v] = [mentions |-> runtime.mentions]
    \/ /\ runtime.config # Nil /\ runtime.validated
       /\ \E v \in ViewsOf(docs) : ConfigAt[r][v] = runtime.config
       /\ \E v \in ViewsOf(docs) : LoadsAt[r][runtime.config][v] = ~runtime.loadErr
       /\ \E v \in ViewsOf(docs) : ReportAt[r][runtime.config][v] = runtime.complaints

(* What is installed for a root is an answer for the buffers it was computed *)
(* from, config, workspace and report alike: the disk, whatever it holds and *)
(* whoever writes it meanwhile, decides only about the files that were not   *)
(* open when the reload began, and about JSON Schemas.                       *)
OverlayHidesDisk ==
    \A r \in Roots : roots[r].validated \/ roots[r].loadErr =>
        Answers(roots[r].basis, roots[r], r)

(* A root goes back to older buffers only at the hands of a reload that     *)
(* another one has overtaken: reloads that do not overlap install in order. *)
RegressOnlyIfOvertaken ==
    [][\A r \in Roots : roots'[r].stamp < roots[r].stamp =>
           \E t \in overtaken : pc[t] = "config" /\ pc'[t] = "hook"]_vars

(* Once the client pauses, what it has typed gets installed: no reload      *)
(* waits for another, and no stopped timer takes an edit with it.           *)
EveryEditIsInstalled ==
    \A n \in 1 .. MaxEdits : (edits >= n) ~> (installed >= n)

(* Nothing is pending or running any more.                                  *)
Quiescent == timer # "armed" /\ \A t \in Threads : pc[t] = "idle"

(* At rest the roots show the buffers as they are.  The code does not       *)
(* guarantee this: a reload that is overtaken installs its older result     *)
(* last, and nothing recomputes it until the next edit.                     *)
RootsTrackBuffers ==
    Quiescent => \A r \in Roots : installed > 0 => roots[r].basis = documents
=============================================================================
