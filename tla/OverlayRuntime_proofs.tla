----------------------- MODULE OverlayRuntime_proofs -----------------------
(* Proofs about OverlayRuntime, for any roots, files, texts and number of    *)
(* goroutines, and without a bound on edits or writes to the disk.           *)
EXTENDS OverlayRuntime, TLAPS

(***************************************************************************)
(* Type correctness.  A reload that loads or validates is at a root.       *)
(***************************************************************************)
AtRoot ==
    \A t \in Threads : pc[t] \in {"load", "validate"} =>
        at[t] \in Roots /\ next[t][at[t]].config \in Configs

TypeInv == TypeOK /\ AtRoot

LEMMA BlankTyped ==
    /\ Blank \in RootRuntime /\ NoDocuments \in Documents
    /\ NothingHeld \in [Paths -> SUBSET (Texts \cup {Absent})]
BY DEF Blank, RootRuntime, NoDocuments, Documents, NothingHeld

(* What a loader sees when it reads some buffers over some files.            *)
LEMMA ViewOfBuffers ==
    ASSUME NEW docs \in Documents, NEW files \in Views
    PROVE  View(docs, files) \in Views /\ View(docs, files) \in ViewsOf(docs)
<1>1. \A p \in Paths : ReadFile(docs, files, p) \in Texts \cup {Absent}
    BY DEF ReadFile, Documents, Document, Views
<1>2. View(docs, files) \in Views
    BY <1>1 DEF View, Views
<1> QED
    BY <1>2 DEF View, ViewsOf, ReadFile

LEMMA SeenTyped ==
    ASSUME TypeInv, NEW t \in Threads, NEW files \in Seen(t)
    PROVE  /\ files \in Views
           /\ View(cloned[t], files) \in Views
           /\ View(cloned[t], files) \in ViewsOf(cloned[t])
BY ViewOfBuffers DEF Seen, TypeInv, TypeOK

LEMMA BeginCallTyped ==
    ASSUME TypeInv, NEW t \in Threads, BeginCall(t)
    PROVE  held' \in [Threads -> [Paths -> SUBSET (Texts \cup {Absent})]]
<1>1. [p \in Paths |-> {disk[p]}] \in [Paths -> SUBSET (Texts \cup {Absent})]
    BY DEF TypeInv, TypeOK, Views
<1> QED
    BY <1>1 DEF BeginCall, TypeInv, TypeOK

LEMMA WithConfigTyped ==
    ASSUME NEW runtime \in RootRuntime, NEW answer \in Configs \cup Failure
    PROVE  WithConfig(runtime, answer) \in RootRuntime
BY DEF WithConfig, RootRuntime, Failure

LEMMA DetectedTyped ==
    ASSUME disk \in Views, NEW r \in Roots
    PROVE  /\ Detected(r) \in RootRuntime /\ Detected(r).stamp = 0
           /\ Detected(r).basis = NoDocuments
           /\ ~Detected(r).validated /\ ~Detected(r).loadErr
           /\ IndexedFiles(r) \subseteq Paths
<1> DEFINE view == View(NoDocuments, disk)
           has == /\ OnDisk(r) \in Configs
                  /\ LoadsAt[r][OnDisk(r)][view]
<1>1. view \in Views
    BY BlankTyped, ViewOfBuffers
<1>2. has \in BOOLEAN
    BY <1>1, LoadersAssumption
<1>3. Detected(r) = [Blank EXCEPT !.workspace = has]
    BY DEF Detected
<1> HIDE DEF has
<1>4. IndexedFiles(r) \subseteq Paths
    BY RootsAssumption, LoadersAssumption DEF IndexedFiles
<1> QED
    BY <1>2, <1>3, <1>4, BlankTyped DEF Blank, RootRuntime

LEMMA TypeInvInit == Init => TypeInv
<1> SUFFICES ASSUME Init PROVE TypeInv
    OBVIOUS
<1>1. disk \in Views
    BY BoundsAssumption DEF Init
<1>2. roots \in [Roots -> RootRuntime] /\ configFiles \in [Roots -> SUBSET Paths]
    BY <1>1, DetectedTyped DEF Init
<1>3. documents \in Documents
    BY BlankTyped DEF Init
<1>4. /\ next \in [Threads -> [Roots -> RootRuntime]] /\ cloned \in [Threads -> Documents]
      /\ held \in [Threads -> [Paths -> SUBSET (Texts \cup {Absent})]]
    BY BlankTyped DEF Init
<1> QED
    BY <1>1, <1>2, <1>3, <1>4 DEF Init, TypeInv, TypeOK, AtRoot

(* What an edit of a buffer may put in its place.                           *)
LEMMA EditBufferTyped ==
    ASSUME TypeInv, NEW p \in Paths, NEW doc \in Document \cup {Closed}, EditBuffer(p, doc)
    PROVE  TypeInv'
BY DEF EditBuffer, ScheduleReload, TypeInv, TypeOK, AtRoot, Documents

LEMMA EditTyped ==
    ASSUME TypeInv, Edit
    PROVE  /\ TypeInv'
           /\ \E p \in Paths, doc \in Document \cup {Closed} : EditBuffer(p, doc)
<1>1. \E p \in Paths, doc \in Document \cup {Closed} : EditBuffer(p, doc)
  <2>1. PICK p \in Paths :
            \/ \E text \in Texts : DidOpen(p, text) \/ DidChange(p, text)
            \/ DidClose(p)
      BY DEF Edit
  <2>2. \A text \in Texts : [version |-> edits + 1, text |-> text] \in Document
      BY DEF Document, TypeInv, TypeOK
  <2> QED
      BY <2>1, <2>2 DEF DidOpen, DidChange, DidClose
<1> QED
    BY <1>1, EditBufferTyped

(* What the three calls do, without the disk: the answer is a loader's for a *)
(* view of the buffers the thread has cloned.                               *)
ConfigEffect(t, r, v, answer) ==
    /\ v \in Views /\ v \in ViewsOf(cloned[t]) /\ answer = ConfigAt[r][v]
    /\ pc' = [pc EXCEPT ![t] = IF answer \in Configs THEN "load" ELSE "config"]
    /\ at' = [at EXCEPT ![t] = IF answer \in Configs THEN r ELSE Nil]
    /\ next' = [next EXCEPT ![t][r] = WithConfig(
                   [Blank EXCEPT !.basis = cloned[t], !.stamp = stamp[t]], answer)]

LoadEffect(t, v, loads) ==
    /\ v \in ViewsOf(cloned[t]) /\ loads = LoadsAt[at[t]][next[t][at[t]].config][v]
    /\ next' = [next EXCEPT ![t][at[t]] =
                   [@ EXCEPT !.workspace = loads, !.loadErr = ~loads]]

ValidateEffect(t, v, report) ==
    /\ v \in ViewsOf(cloned[t]) /\ report = ReportAt[at[t]][next[t][at[t]].config][v]
    /\ next' = [next EXCEPT ![t][at[t]] =
                   [@ EXCEPT !.validated = TRUE, !.complaints = report]]

LEMMA ConfigStep ==
    ASSUME TypeInv, NEW t \in Threads, NEW r \in Roots, LoadRootConfig(t, r)
    PROVE  \E v \in Views : \E answer \in Configs \cup Failure :
               ConfigEffect(t, r, v, answer)
<1>1. PICK files \in Seen(t) :
          LET answer == ConfigAt[r][View(cloned[t], files)]
              loads == answer \in Configs
          IN  /\ pc' = [pc EXCEPT ![t] = IF loads THEN "load" ELSE "config"]
              /\ at' = [at EXCEPT ![t] = IF loads THEN r ELSE Nil]
              /\ next' = [next EXCEPT ![t][r] = WithConfig(
                             [Blank EXCEPT !.basis = cloned[t], !.stamp = stamp[t]], answer)]
    BY DEF LoadRootConfig
<1> DEFINE v == View(cloned[t], files)
<1>2. v \in Views /\ v \in ViewsOf(cloned[t])
    BY SeenTyped
<1>3. ConfigAt[r][v] \in Configs \cup Failure
    BY <1>2, LoadersAssumption
<1>4. ConfigEffect(t, r, v, ConfigAt[r][v])
    BY <1>1, <1>2 DEF ConfigEffect
<1> QED
    BY <1>2, <1>3, <1>4

LEMMA LoadStep ==
    ASSUME TypeInv, NEW t \in Threads, LoadWorkspace(t)
    PROVE  /\ at[t] \in Roots /\ next[t][at[t]].config \in Configs
           /\ \E v \in Views : \E loads \in BOOLEAN : LoadEffect(t, v, loads)
<1>1. at[t] \in Roots /\ next[t][at[t]].config \in Configs
    BY DEF LoadWorkspace, TypeInv, AtRoot
<1>2. PICK files \in Seen(t) :
          LET loads == LoadsAt[at[t]][next[t][at[t]].config][View(cloned[t], files)]
          IN  next' = [next EXCEPT ![t][at[t]] =
                          [@ EXCEPT !.workspace = loads, !.loadErr = ~loads]]
    BY DEF LoadWorkspace
<1>3. View(cloned[t], files) \in Views /\ View(cloned[t], files) \in ViewsOf(cloned[t])
    BY SeenTyped
<1>4. LoadsAt[at[t]][next[t][at[t]].config][View(cloned[t], files)] \in BOOLEAN
    BY <1>1, <1>3, LoadersAssumption
<1>5. LoadEffect(t, View(cloned[t], files),
                 LoadsAt[at[t]][next[t][at[t]].config][View(cloned[t], files)])
    BY <1>2, <1>3 DEF LoadEffect
<1> QED
    BY <1>1, <1>3, <1>4, <1>5

LEMMA ValidateStep ==
    ASSUME TypeInv, NEW t \in Threads, ValidateRoot(t)
    PROVE  /\ at[t] \in Roots /\ next[t][at[t]].config \in Configs
           /\ \E v \in Views : \E report \in SUBSET Paths : ValidateEffect(t, v, report)
<1>1. at[t] \in Roots /\ next[t][at[t]].config \in Configs
    BY DEF ValidateRoot, TypeInv, AtRoot
<1>2. PICK files \in Seen(t) :
          LET report == ReportAt[at[t]][next[t][at[t]].config][View(cloned[t], files)]
          IN  next' = [next EXCEPT ![t][at[t]] =
                          [@ EXCEPT !.validated = TRUE, !.complaints = report]]
    BY DEF ValidateRoot
<1>3. View(cloned[t], files) \in Views /\ View(cloned[t], files) \in ViewsOf(cloned[t])
    BY SeenTyped
<1>4. ReportAt[at[t]][next[t][at[t]].config][View(cloned[t], files)] \in SUBSET Paths
    BY <1>1, <1>3, LoadersAssumption
<1>5. ValidateEffect(t, View(cloned[t], files),
                 ReportAt[at[t]][next[t][at[t]].config][View(cloned[t], files)])
    BY <1>2, <1>3 DEF ValidateEffect
<1> QED
    BY <1>1, <1>3, <1>4, <1>5

LEMMA LoadRootConfigTyped ==
    ASSUME TypeInv, NEW t \in Threads, NEW r \in Roots, LoadRootConfig(t, r)
    PROVE  TypeInv'
<1>0. PICK v \in Views, answer \in Configs \cup Failure : ConfigEffect(t, r, v, answer)
    BY ConfigStep
<1>1. /\ pc' = [pc EXCEPT ![t] = IF answer \in Configs THEN "load" ELSE "config"]
      /\ at' = [at EXCEPT ![t] = IF answer \in Configs THEN r ELSE Nil]
      /\ next' = [next EXCEPT ![t][r] = WithConfig(
                     [Blank EXCEPT !.basis = cloned[t], !.stamp = stamp[t]], answer)]
    BY <1>0 DEF ConfigEffect
<1> DEFINE start == [Blank EXCEPT !.basis = cloned[t], !.stamp = stamp[t]]
           runtime == WithConfig(start, answer)
<1>2. start \in RootRuntime
    BY BlankTyped DEF Blank, RootRuntime, TypeInv, TypeOK
<1> HIDE DEF start
<1>3. runtime \in RootRuntime /\ (answer \in Configs => runtime.config = answer)
    BY <1>2, WithConfigTyped DEF WithConfig, RootRuntime
<1>4. next' = [next EXCEPT ![t][r] = runtime]
    BY <1>1 DEF start
<1> HIDE DEF runtime
<1>5. next' \in [Threads -> [Roots -> RootRuntime]]
    BY <1>3, <1>4 DEF TypeInv, TypeOK
<1>6. held' \in [Threads -> [Paths -> SUBSET (Texts \cup {Absent})]]
    BY BeginCallTyped DEF LoadRootConfig
<1>7. TypeOK'
    BY <1>1, <1>5, <1>6 DEF LoadRootConfig, TypeInv, TypeOK
<1>8. ASSUME NEW u \in Threads, pc'[u] \in {"load", "validate"}
      PROVE  at'[u] \in Roots /\ next'[u][at'[u]].config \in Configs
  <2>1. CASE u = t
      BY <1>1, <1>3, <1>4, <1>8, <2>1 DEF TypeInv, TypeOK
  <2>2. CASE u # t
      BY <1>1, <1>4, <1>8, <2>2 DEF TypeInv, TypeOK, AtRoot
  <2> QED
      BY <2>1, <2>2
<1> QED
    BY <1>7, <1>8 DEF TypeInv, AtRoot

(* A call that fills in the entry of the root at hand.                       *)
LEMMA EntryTyped ==
    ASSUME TypeInv, NEW t \in Threads, at[t] \in Roots,
           NEW runtime \in RootRuntime, runtime.config = next[t][at[t]].config,
           next' = [next EXCEPT ![t][at[t]] = runtime]
    PROVE  /\ next' \in [Threads -> [Roots -> RootRuntime]]
           /\ \A u \in Threads, q \in Roots : next'[u][q].config = next[u][q].config
BY DEF TypeInv, TypeOK

LEMMA LoadWorkspaceTyped ==
    ASSUME TypeInv, NEW t \in Threads, LoadWorkspace(t)
    PROVE  TypeInv'
<1>1. PICK v \in Views, loads \in BOOLEAN : LoadEffect(t, v, loads)
    BY LoadStep
<1> DEFINE runtime == [next[t][at[t]] EXCEPT !.workspace = loads, !.loadErr = ~loads]
<1>2. at[t] \in Roots /\ next[t][at[t]].config \in Configs
    BY LoadStep
<1>3. next[t][at[t]] \in RootRuntime
    BY <1>2 DEF TypeInv, TypeOK
<1>4. runtime \in RootRuntime /\ runtime.config = next[t][at[t]].config
    BY <1>3 DEF RootRuntime
<1>5. next' = [next EXCEPT ![t][at[t]] = runtime]
    BY <1>1, <1>2 DEF LoadEffect, TypeInv, TypeOK
<1> HIDE DEF runtime
<1>6. /\ next' \in [Threads -> [Roots -> RootRuntime]]
      /\ \A u \in Threads, q \in Roots : next'[u][q].config = next[u][q].config
    BY <1>2, <1>4, <1>5, EntryTyped
<1>7. held' \in [Threads -> [Paths -> SUBSET (Texts \cup {Absent})]]
    BY BeginCallTyped DEF LoadWorkspace
<1>8. TypeOK'
    BY <1>6, <1>7 DEF LoadWorkspace, TypeInv, TypeOK
<1>9. at' = at /\ pc' = [pc EXCEPT ![t] = "validate"]
    BY DEF LoadWorkspace
<1>10. AtRoot'
  <2> SUFFICES ASSUME NEW u \in Threads, pc'[u] \in {"load", "validate"}
               PROVE  at[u] \in Roots /\ next'[u][at[u]].config \in Configs
      BY <1>9 DEF AtRoot
  <2>1. at[u] \in Roots /\ next[u][at[u]].config \in Configs
      BY <1>2, <1>9 DEF TypeInv, TypeOK, AtRoot
  <2> QED
      BY <1>6, <2>1
<1> QED
    BY <1>8, <1>10 DEF TypeInv

LEMMA ValidateRootTyped ==
    ASSUME TypeInv, NEW t \in Threads, ValidateRoot(t)
    PROVE  TypeInv'
<1>1. PICK v \in Views, report \in SUBSET Paths : ValidateEffect(t, v, report)
    BY ValidateStep
<1> DEFINE runtime == [next[t][at[t]] EXCEPT !.validated = TRUE, !.complaints = report]
<1>2. at[t] \in Roots /\ next[t][at[t]].config \in Configs
    BY ValidateStep
<1>3. next[t][at[t]] \in RootRuntime
    BY <1>2 DEF TypeInv, TypeOK
<1>4. runtime \in RootRuntime /\ runtime.config = next[t][at[t]].config
    BY <1>3 DEF RootRuntime
<1>5. next' = [next EXCEPT ![t][at[t]] = runtime]
    BY <1>1, <1>2 DEF ValidateEffect, TypeInv, TypeOK
<1> HIDE DEF runtime
<1>6. /\ next' \in [Threads -> [Roots -> RootRuntime]]
      /\ \A u \in Threads, q \in Roots : next'[u][q].config = next[u][q].config
    BY <1>2, <1>4, <1>5, EntryTyped
<1>7. held' \in [Threads -> [Paths -> SUBSET (Texts \cup {Absent})]]
    BY BeginCallTyped DEF ValidateRoot
<1>8. TypeOK'
    BY <1>6, <1>7 DEF ValidateRoot, TypeInv, TypeOK
<1>9. AtRoot'
    BY <1>2, <1>6 DEF ValidateRoot, TypeInv, TypeOK, AtRoot
<1> QED
    BY <1>8, <1>9 DEF TypeInv

LEMMA InstallTyped ==
    ASSUME TypeInv, NEW t \in Threads, Install(t)
    PROVE  TypeInv'
<1>1. roots' \in [Roots -> RootRuntime]
    BY DEF Install, TypeInv, TypeOK
<1>2. /\ next' \in [Threads -> [Roots -> RootRuntime]]
      /\ cloned' \in [Threads -> Documents]
      /\ held' \in [Threads -> [Paths -> SUBSET (Texts \cup {Absent})]]
    BY BlankTyped DEF Install, TypeInv, TypeOK
<1>3. installed' \in Nat /\ stamp' \in [Threads -> Nat] /\ overtaken' \subseteq Threads
    BY DEF Install, TypeInv, TypeOK, Computing
<1> QED
    BY <1>1, <1>2, <1>3 DEF Install, TypeInv, TypeOK, AtRoot

LEMMA TypeInvStep == TypeInv /\ [Next]_vars => TypeInv'
<1> SUFFICES ASSUME TypeInv, [Next]_vars PROVE TypeInv'
    OBVIOUS
<1>1. CASE Edit
    BY <1>1, EditTyped
<1>2. ASSUME NEW p \in Paths, NEW text \in Texts \cup {Absent}, WriteDisk(p, text)
      PROVE  TypeInv'
  <2>1. held' \in [Threads -> [Paths -> SUBSET (Texts \cup {Absent})]]
      BY <1>2 DEF WriteDisk, TypeInv, TypeOK
  <2> QED
      BY <1>2, <2>1 DEF WriteDisk, TypeInv, TypeOK, AtRoot, Views
<1>3. CASE FlushReload
    BY <1>3 DEF FlushReload, TypeInv, TypeOK, AtRoot, Threads
<1>4. ASSUME NEW t \in Timers, TimerFires(t)
      PROVE  TypeInv'
    BY <1>4 DEF TimerFires, TypeInv, TypeOK, AtRoot, Threads
<1>5. ASSUME NEW t \in Threads, CloneDocuments(t)
      PROVE  TypeInv'
    BY <1>5, BeginCallTyped DEF CloneDocuments, TypeInv, TypeOK, AtRoot
<1>6. ASSUME NEW t \in Threads, HookReturns(t)
      PROVE  TypeInv'
    BY <1>6 DEF HookReturns, TypeInv, TypeOK, AtRoot
<1>7. CASE UNCHANGED vars
    BY <1>7 DEF vars, TypeInv, TypeOK, AtRoot
<1> QED
    BY <1>1, <1>2, <1>3, <1>4, <1>5, <1>6, <1>7, LoadRootConfigTyped, LoadWorkspaceTyped,
       ValidateRootTyped, InstallTyped DEF Next, ReloadStep

(* Every variable keeps its type; in particular no buffer is ever anything   *)
(* but open with a version and a text, or closed, and no reload puts into a  *)
(* root what is not a RootRuntime.                                          *)
THEOREM TypeCorrect == Spec => []TypeOK
<1>1. TypeInv => TypeOK
    BY DEF TypeInv
<1> QED
    BY <1>1, TypeInvInit, TypeInvStep, PTL DEF Spec

(***************************************************************************)
(* No edit is lost.  The ghost clocks are ordered, the edits nobody has    *)
(* cloned will be, and the newest buffers that were cloned and are not     *)
(* installed are being computed.                                           *)
(***************************************************************************)
ClocksOrdered ==
    /\ installed <= newest /\ newest <= edits
    /\ \A t \in Threads : stamp[t] <= newest

EditsPending ==
    newest < edits => timer = "armed" \/ \E t \in Threads : pc[t] = "begin"

NewestComputed ==
    installed < newest => \E t \in Computing : stamp[t] = newest

PendingInv == ClocksOrdered /\ EditsPending /\ NewestComputed

LEMMA PendingInvInit == Init => PendingInv
BY DEF Init, PendingInv, ClocksOrdered, EditsPending, NewestComputed

LEMMA InstallPending ==
    ASSUME TypeInv, PendingInv, NEW t \in Threads, Install(t)
    PROVE  PendingInv'
<1> USE DEF TypeInv, TypeOK, PendingInv
<1>1. /\ installed' = IF installed < stamp[t] THEN stamp[t] ELSE installed
      /\ installed' \in Nat /\ newest' = newest /\ edits' = edits
    BY DEF Install
<1>2. \A u \in Threads : stamp'[u] = IF u = t THEN 0 ELSE stamp[u]
    BY DEF Install
<1>3. ClocksOrdered'
    BY <1>1, <1>2 DEF ClocksOrdered
<1>4. EditsPending'
    BY DEF Install, EditsPending
<1>5. NewestComputed'
  <2> SUFFICES ASSUME installed' < newest' PROVE (\E u \in Computing : stamp[u] = newest)'
      BY DEF NewestComputed
  <2>1. PICK u \in Computing : stamp[u] = newest
      BY <1>1 DEF NewestComputed, ClocksOrdered
  <2>2. u # t
      BY <1>1, <2>1
  <2>3. u \in Computing'
      BY <2>1, <2>2 DEF Install, Computing
  <2> QED
      BY <1>1, <1>2, <2>1, <2>2, <2>3 DEF Computing
<1> QED
    BY <1>3, <1>4, <1>5

LEMMA PendingInvStep == TypeInv /\ PendingInv /\ [Next]_vars => PendingInv'
<1> SUFFICES ASSUME TypeInv, PendingInv, [Next]_vars PROVE PendingInv'
    OBVIOUS
<1> USE DEF TypeInv, TypeOK, PendingInv, ClocksOrdered, EditsPending, NewestComputed
<1>1. CASE Edit
  <2>1. PICK p \in Paths, doc \in Document \cup {Closed} : EditBuffer(p, doc)
      BY <1>1, EditTyped
  <2> QED
      BY <2>1 DEF EditBuffer, ScheduleReload, Computing
<1>2. ASSUME NEW p \in Paths, NEW text \in Texts \cup {Absent}, WriteDisk(p, text)
      PROVE  PendingInv'
    BY <1>2 DEF WriteDisk, Computing
<1>3. CASE FlushReload
    BY <1>3 DEF FlushReload, Computing, Threads
<1>4. ASSUME NEW t \in Timers, TimerFires(t)
      PROVE  PendingInv'
    BY <1>4 DEF TimerFires, Computing, Threads
<1>5. ASSUME NEW t \in Threads, CloneDocuments(t)
      PROVE  PendingInv'
  <2>1. t \in Computing' /\ stamp'[t] = newest'
      BY <1>5 DEF CloneDocuments, Computing
  <2> QED
      BY <1>5, <2>1 DEF CloneDocuments
<1>6. ASSUME NEW t \in Threads, NEW r \in Roots, LoadRootConfig(t, r)
      PROVE  PendingInv'
  <2>1. Computing' = Computing
      BY <1>6 DEF LoadRootConfig, Computing
  <2> QED
      BY <1>6, <2>1 DEF LoadRootConfig
<1>7. ASSUME NEW t \in Threads, LoadWorkspace(t) \/ ValidateRoot(t)
      PROVE  PendingInv'
  <2>1. /\ Computing' = Computing /\ UNCHANGED <<timer, edits, newest, installed, stamp>>
        /\ \A u \in Threads : pc[u] = "begin" => pc'[u] = "begin"
      BY <1>7 DEF LoadWorkspace, ValidateRoot, Computing
  <2> QED
      BY <2>1 DEF Computing
<1>8. ASSUME NEW t \in Threads, HookReturns(t)
      PROVE  PendingInv'
  <2>1. Computing' = Computing
      BY <1>8 DEF HookReturns, Computing
  <2> QED
      BY <1>8, <2>1 DEF HookReturns
<1>9. CASE UNCHANGED vars
    BY <1>9 DEF vars, Computing
<1> QED
    BY <1>1, <1>2, <1>3, <1>4, <1>5, <1>6, <1>7, <1>8, <1>9, InstallPending
    DEF Next, ReloadStep

(* The debounce loses no edit: until the result of the last one is           *)
(* installed, a timer or a reload is on its way to it.                       *)
THEOREM LosesNoEdit == Spec => []NoLostEdit
<1>1. TypeInv /\ PendingInv => NoLostEdit
    BY DEF TypeInv, TypeOK, PendingInv, ClocksOrdered, EditsPending, NewestComputed,
           NoLostEdit
<1> QED
    BY <1>1, TypeInvInit, TypeInvStep, PendingInvInit, PendingInvStep, PTL DEF Spec

(***************************************************************************)
(* The roots agree.  What a reload has computed so far, it has computed    *)
(* from the buffers it cloned.                                             *)
(***************************************************************************)
ComputedFromClone ==
    \A t \in Computing : \A r \in Roots \ todo[t] :
        next[t][r].stamp = stamp[t] /\ next[t][r].basis = cloned[t]

AgreeInv == ComputedFromClone /\ RootsAgree

LEMMA AgreeInvInit == Init => AgreeInv
<1> SUFFICES ASSUME Init PROVE AgreeInv
    OBVIOUS
<1>1. disk \in Views
    BY BoundsAssumption DEF Init
<1>2. \A r \in Roots : roots[r].stamp = 0 /\ roots[r].basis = NoDocuments
    BY <1>1, DetectedTyped DEF Init
<1> QED
    BY <1>2 DEF Init, AgreeInv, ComputedFromClone, RootsAgree, Computing

(* What a step on the runtime of one root leaves alone.                      *)
LEMMA AnswerKeepsBasis ==
    ASSUME TypeInv, NEW t \in Threads, LoadWorkspace(t) \/ ValidateRoot(t)
    PROVE  /\ UNCHANGED <<roots, cloned, todo, stamp>>
           /\ Computing' = Computing
           /\ \A u \in Threads, r \in Roots :
                  /\ next'[u][r].stamp = next[u][r].stamp
                  /\ next'[u][r].basis = next[u][r].basis
<1>1. UNCHANGED <<roots, cloned, todo, stamp>> /\ Computing' = Computing
    BY DEF LoadWorkspace, ValidateRoot, Computing, TypeInv, TypeOK
<1>2. ASSUME NEW u \in Threads, NEW r \in Roots
      PROVE  next'[u][r].stamp = next[u][r].stamp /\ next'[u][r].basis = next[u][r].basis
  <2>1. next[u][r] \in RootRuntime
      BY DEF TypeInv, TypeOK
  <2>2. CASE LoadWorkspace(t)
    <3>1. PICK v \in Views, loads \in BOOLEAN : LoadEffect(t, v, loads)
        BY <2>2, LoadStep
    <3> QED
        BY <2>1, <3>1 DEF LoadEffect, TypeInv, TypeOK, RootRuntime
  <2>3. CASE ValidateRoot(t)
    <3>1. PICK v \in Views, report \in SUBSET Paths : ValidateEffect(t, v, report)
        BY <2>3, ValidateStep
    <3> QED
        BY <2>1, <3>1 DEF ValidateEffect, TypeInv, TypeOK, RootRuntime
  <2> QED
      BY <2>2, <2>3
<1> QED
    BY <1>1, <1>2

(* What loading the configuration of one root does to the entries of next.   *)
LEMMA ConfigEntry ==
    ASSUME TypeInv, NEW t \in Threads, NEW r \in Roots, LoadRootConfig(t, r)
    PROVE  /\ UNCHANGED <<documents, disk, roots, cloned, stamp, overtaken>>
           /\ Computing' = Computing /\ r \in todo[t]
           /\ todo' = [todo EXCEPT ![t] = @ \ {r}]
           /\ next'[t][r].stamp = stamp[t] /\ next'[t][r].basis = cloned[t]
           /\ \A u \in Threads, q \in Roots :
                  <<u, q>> # <<t, r>> => next'[u][q] = next[u][q]
<1>0. PICK v \in Views, answer \in Configs \cup Failure : ConfigEffect(t, r, v, answer)
    BY ConfigStep
<1>1. /\ pc' = [pc EXCEPT ![t] = IF answer \in Configs THEN "load" ELSE "config"]
      /\ next' = [next EXCEPT ![t][r] = WithConfig(
                     [Blank EXCEPT !.basis = cloned[t], !.stamp = stamp[t]], answer)]
    BY <1>0 DEF ConfigEffect
<1> DEFINE runtime == WithConfig([Blank EXCEPT !.basis = cloned[t], !.stamp = stamp[t]],
                                 answer)
<1>2. runtime.stamp = stamp[t] /\ runtime.basis = cloned[t]
    BY DEF Blank, WithConfig
<1> HIDE DEF runtime
<1>3. next'[t][r] = runtime
    BY <1>1 DEF TypeInv, TypeOK, runtime
<1>4. \A u \in Threads, q \in Roots : <<u, q>> # <<t, r>> => next'[u][q] = next[u][q]
    BY <1>1 DEF TypeInv, TypeOK
<1>5. Computing' = Computing
    BY <1>1 DEF LoadRootConfig, Computing, TypeInv, TypeOK
<1>6. r \in todo[t]
    BY DEF LoadRootConfig, FirstOf
<1> QED
    BY <1>2, <1>3, <1>4, <1>5, <1>6 DEF LoadRootConfig

LEMMA InstallAgrees ==
    ASSUME TypeInv, AgreeInv, NEW t \in Threads, Install(t)
    PROVE  AgreeInv'
<1> USE DEF TypeInv, TypeOK, AgreeInv
<1>1. t \in Computing /\ todo[t] = {} /\ roots' = next[t]
    BY DEF Install, Computing
<1>2. RootsAgree'
    BY <1>1 DEF ComputedFromClone, RootsAgree
<1>3. \A u \in Computing' :
          /\ u \in Computing /\ todo'[u] = todo[u]
          /\ next'[u] = next[u] /\ stamp'[u] = stamp[u] /\ cloned'[u] = cloned[u]
    BY DEF Install, Computing
<1> QED
    BY <1>2, <1>3 DEF ComputedFromClone

LEMMA AgreeInvStep == TypeInv /\ AgreeInv /\ [Next]_vars => AgreeInv'
<1> SUFFICES ASSUME TypeInv, AgreeInv, [Next]_vars PROVE AgreeInv'
    OBVIOUS
<1> USE DEF TypeInv, TypeOK, AgreeInv
<1>1. CASE UNCHANGED <<roots, cloned, todo, next, stamp>> /\ Computing' = Computing
    BY <1>1 DEF ComputedFromClone, RootsAgree
<1>2. CASE Edit
  <2>1. PICK p \in Paths, doc \in Document \cup {Closed} : EditBuffer(p, doc)
      BY <1>2, EditTyped
  <2> QED
      BY <1>1, <2>1 DEF EditBuffer, Computing
<1>3. ASSUME NEW p \in Paths, NEW text \in Texts \cup {Absent}, WriteDisk(p, text)
      PROVE  AgreeInv'
    BY <1>1, <1>3 DEF WriteDisk, Computing
<1>4. CASE FlushReload
    BY <1>1, <1>4 DEF FlushReload, Computing, Threads
<1>5. ASSUME NEW t \in Timers, TimerFires(t)
      PROVE  AgreeInv'
    BY <1>1, <1>5 DEF TimerFires, Computing, Threads
<1>6. ASSUME NEW t \in Threads, HookReturns(t)
      PROVE  AgreeInv'
    BY <1>1, <1>6 DEF HookReturns, Computing
<1>7. ASSUME NEW t \in Threads, CloneDocuments(t)
      PROVE  AgreeInv'
  <2>1. todo'[t] = Roots /\ UNCHANGED <<roots, next>>
      BY <1>7 DEF CloneDocuments
  <2>2. \A u \in Computing' : u # t =>
            /\ u \in Computing /\ todo'[u] = todo[u]
            /\ stamp'[u] = stamp[u] /\ cloned'[u] = cloned[u]
      BY <1>7 DEF CloneDocuments, Computing
  <2> QED
      BY <2>1, <2>2 DEF ComputedFromClone, RootsAgree
<1>8. ASSUME NEW t \in Threads, NEW r \in Roots, LoadRootConfig(t, r)
      PROVE  AgreeInv'
  <2>1. /\ UNCHANGED <<roots, cloned, stamp>> /\ Computing' = Computing
        /\ todo' = [todo EXCEPT ![t] = @ \ {r}]
        /\ next'[t][r].stamp = stamp[t] /\ next'[t][r].basis = cloned[t]
        /\ \A u \in Threads, q \in Roots :
               <<u, q>> # <<t, r>> => next'[u][q] = next[u][q]
      BY <1>8, ConfigEntry
  <2>2. ASSUME NEW u \in Computing', NEW q \in Roots \ todo'[u]
        PROVE  (next[u][q].stamp = stamp[u] /\ next[u][q].basis = cloned[u])'
    <3>1. CASE u = t /\ q = r
        BY <2>1, <3>1
    <3>2. CASE <<u, q>> # <<t, r>>
      <4>1. u \in Threads /\ u \in Computing /\ q \in Roots \ todo[u]
          BY <2>1, <3>2 DEF Computing
      <4>2. next'[u][q] = next[u][q]
          BY <2>1, <3>2, <4>1
      <4> QED
          BY <2>1, <4>1, <4>2 DEF ComputedFromClone
    <3> QED
        BY <3>1, <3>2
  <2> QED
      BY <2>1, <2>2 DEF ComputedFromClone, RootsAgree
<1>9. ASSUME NEW t \in Threads, LoadWorkspace(t) \/ ValidateRoot(t)
      PROVE  AgreeInv'
  <2>1. /\ UNCHANGED <<roots, cloned, todo, stamp>> /\ Computing' = Computing
        /\ \A u \in Threads, r \in Roots :
               /\ next'[u][r].stamp = next[u][r].stamp
               /\ next'[u][r].basis = next[u][r].basis
      BY <1>9, AnswerKeepsBasis
  <2>2. \A u \in Computing : u \in Threads
      BY DEF Computing
  <2> QED
      BY <2>1, <2>2 DEF ComputedFromClone, RootsAgree
<1>10. CASE UNCHANGED vars
    BY <1>1, <1>10 DEF vars, Computing
<1> QED
    BY <1>2, <1>3, <1>4, <1>5, <1>6, <1>7, <1>8, <1>9, <1>10, InstallAgrees
    DEF Next, ReloadStep

(* Whoever looks at the roots sees the work of one reload, however many of   *)
(* them overlap.                                                            *)
THEOREM RootsAlwaysAgree == Spec => []RootsAgree
<1>1. AgreeInv => RootsAgree
    BY DEF AgreeInv
<1> QED
    BY <1>1, TypeInvInit, TypeInvStep, AgreeInvInit, AgreeInvStep, PTL DEF Spec

(***************************************************************************)
(* Reloads that do not overlap install in order.  A running reload that    *)
(* nobody has overtaken is not behind any installed root.                  *)
(***************************************************************************)
RootsInPast == \A r \in Roots : roots[r].stamp <= newest

AheadOfRoots ==
    \A t \in Computing \ overtaken : \A r \in Roots : roots[r].stamp <= stamp[t]

OrderInv == RootsInPast /\ AheadOfRoots

LEMMA OrderInvInit == Init => OrderInv
<1> SUFFICES ASSUME Init PROVE OrderInv
    OBVIOUS
<1>1. \A r \in Roots : roots[r].stamp = 0
  <2>1. disk \in Views
      BY BoundsAssumption DEF Init
  <2> QED
      BY <2>1, DetectedTyped DEF Init
<1> QED
    BY <1>1 DEF Init, OrderInv, RootsInPast, AheadOfRoots, Computing

(* Only an installation changes the roots.                                   *)
LEMMA OnlyInstallChangesRoots ==
    ASSUME TypeInv, [Next]_vars
    PROVE  \/ UNCHANGED roots
           \/ \E t \in Threads : Install(t)
<1>1. CASE Edit
  <2>1. PICK p \in Paths, doc \in Document \cup {Closed} : EditBuffer(p, doc)
      BY <1>1, EditTyped
  <2> QED
      BY <2>1 DEF EditBuffer
<1> QED
    BY <1>1 DEF Next, ReloadStep, WriteDisk, FlushReload, TimerFires, CloneDocuments,
       LoadRootConfig, LoadWorkspace, ValidateRoot, HookReturns, vars

LEMMA InstallOrdered ==
    ASSUME TypeInv, PendingInv, AgreeInv, OrderInv, NEW t \in Threads, Install(t)
    PROVE  OrderInv'
<1> USE DEF TypeInv, TypeOK
<1>1. t \in Computing /\ todo[t] = {} /\ roots' = next[t] /\ newest' = newest
    BY DEF Install, Computing
<1>2. \A r \in Roots : roots'[r].stamp = stamp[t]
    BY <1>1 DEF AgreeInv, ComputedFromClone
<1>3. RootsInPast'
    BY <1>1, <1>2 DEF PendingInv, ClocksOrdered, RootsInPast
<1>4. \A u \in Computing' : u \in overtaken'
    BY DEF Install, Computing
<1> QED
    BY <1>3, <1>4 DEF OrderInv, AheadOfRoots

LEMMA CloneOrdered ==
    ASSUME TypeInv, PendingInv, OrderInv, NEW t \in Threads, CloneDocuments(t)
    PROVE  OrderInv'
<1> USE DEF TypeInv, TypeOK
<1>1. /\ UNCHANGED <<roots, overtaken>> /\ newest' = edits
      /\ stamp' = [stamp EXCEPT ![t] = edits]
    BY DEF CloneDocuments
<1>2. \A r \in Roots : roots[r].stamp \in Nat /\ roots[r].stamp <= edits
    BY DEF RootRuntime, OrderInv, RootsInPast, PendingInv, ClocksOrdered
<1>3. \A u \in Computing' : u # t => u \in Computing
    BY DEF CloneDocuments, Computing
<1>4. \A u \in Computing' \ overtaken' : \A r \in Roots : roots'[r].stamp <= stamp'[u]
  <2> SUFFICES ASSUME NEW u \in Computing' \ overtaken', NEW r \in Roots
               PROVE  roots'[r].stamp <= stamp'[u]
      OBVIOUS
  <2>1. u \in Threads
      BY DEF Computing
  <2>2. CASE u = t
      BY <1>1, <1>2, <2>2
  <2>3. CASE u # t
      BY <1>1, <1>3, <2>1, <2>3 DEF OrderInv, AheadOfRoots
  <2> QED
      BY <2>2, <2>3
<1> QED
    BY <1>1, <1>2, <1>4 DEF OrderInv, RootsInPast, AheadOfRoots

LEMMA OrderInvStep ==
    TypeInv /\ PendingInv /\ AgreeInv /\ OrderInv /\ [Next]_vars => OrderInv'
<1> SUFFICES ASSUME TypeInv, PendingInv, AgreeInv, OrderInv, [Next]_vars PROVE OrderInv'
    OBVIOUS
<1> USE DEF TypeInv, TypeOK
<1>1. CASE UNCHANGED <<roots, stamp, newest, overtaken>> /\ Computing' = Computing
    BY <1>1 DEF OrderInv, RootsInPast, AheadOfRoots
<1>2. CASE Edit
  <2>1. PICK p \in Paths, doc \in Document \cup {Closed} : EditBuffer(p, doc)
      BY <1>2, EditTyped
  <2> QED
      BY <1>1, <2>1 DEF EditBuffer, Computing
<1>3. ASSUME NEW p \in Paths, NEW text \in Texts \cup {Absent}, WriteDisk(p, text)
      PROVE  OrderInv'
    BY <1>1, <1>3 DEF WriteDisk, Computing
<1>4. CASE FlushReload
    BY <1>1, <1>4 DEF FlushReload, Computing, Threads
<1>5. ASSUME NEW t \in Timers, TimerFires(t)
      PROVE  OrderInv'
    BY <1>1, <1>5 DEF TimerFires, Computing, Threads
<1>6. ASSUME NEW t \in Threads, HookReturns(t)
      PROVE  OrderInv'
    BY <1>1, <1>6 DEF HookReturns, Computing
<1>7. ASSUME NEW t \in Threads, NEW r \in Roots, LoadRootConfig(t, r)
      PROVE  OrderInv'
    BY <1>1, <1>7 DEF LoadRootConfig, Computing
<1>8. ASSUME NEW t \in Threads, LoadWorkspace(t) \/ ValidateRoot(t)
      PROVE  OrderInv'
    BY <1>1, <1>8 DEF LoadWorkspace, ValidateRoot, Computing
<1>9. CASE UNCHANGED vars
    BY <1>1, <1>9 DEF vars, Computing
<1> QED
    BY <1>2, <1>3, <1>4, <1>5, <1>6, <1>7, <1>8, <1>9, CloneOrdered, InstallOrdered
    DEF Next, ReloadStep

(* A root goes back to older buffers only at the hands of a reload that      *)
(* another one has overtaken.                                               *)
THEOREM RegressesOnlyIfOvertaken == Spec => RegressOnlyIfOvertaken
<1> DEFINE Regress == \A r \in Roots : roots'[r].stamp < roots[r].stamp =>
                          \E t \in overtaken : pc[t] = "config" /\ pc'[t] = "hook"
<1>1. TypeInv /\ AgreeInv /\ OrderInv /\ [Next]_vars => [Regress]_vars
  <2> SUFFICES ASSUME TypeInv, AgreeInv, OrderInv, [Next]_vars,
                      NEW r \in Roots, roots'[r].stamp < roots[r].stamp
               PROVE  \E t \in overtaken : pc[t] = "config" /\ pc'[t] = "hook"
      OBVIOUS
  <2>1. roots[r].stamp \in Nat
      BY DEF TypeInv, TypeOK, RootRuntime
  <2>2. PICK t \in Threads : Install(t)
      BY <2>1, OnlyInstallChangesRoots
  <2>3. t \in Computing /\ pc[t] = "config" /\ pc'[t] = "hook"
      BY <2>2 DEF Install, Computing, TypeInv, TypeOK
  <2>4. roots'[r].stamp = stamp[t]
      BY <2>2, <2>3 DEF Install, AgreeInv, ComputedFromClone
  <2>5. t \in overtaken
      BY <2>1, <2>3, <2>4 DEF OrderInv, AheadOfRoots, TypeInv, TypeOK
  <2> QED
      BY <2>3, <2>5
<1> QED
    BY <1>1, TypeInvInit, TypeInvStep, PendingInvInit, PendingInvStep,
       AgreeInvInit, AgreeInvStep, OrderInvInit, OrderInvStep, PTL
    DEF Spec, RegressOnlyIfOvertaken

(***************************************************************************)
(* Open buffers hide the disk.  Every call of a reload so far has answered *)
(* for the buffers it cloned; Answers collects them when a root is done.   *)
(***************************************************************************)
ConfigAnswered(docs, runtime, r) ==
    /\ ~runtime.validated /\ runtime.config \in Configs
    /\ \E v \in ViewsOf(docs) : ConfigAt[r][v] = runtime.config

LoadAnswered(docs, runtime, r) ==
    /\ ConfigAnswered(docs, runtime, r)
    /\ \E v \in ViewsOf(docs) : LoadsAt[r][runtime.config][v] = ~runtime.loadErr

Answered(t, r) ==
    CASE at[t] = r /\ pc[t] = "load"     -> ConfigAnswered(cloned[t], next[t][r], r)
      [] at[t] = r /\ pc[t] = "validate" -> LoadAnswered(cloned[t], next[t][r], r)
      [] OTHER                           -> Answers(cloned[t], next[t][r], r)

ComputedAnswers ==
    /\ \A t \in Computing : \A r \in Roots \ todo[t] : Answered(t, r)
    /\ \A t \in Threads : pc[t] \in {"load", "validate"} => at[t] \in Roots \ todo[t]
    /\ \A t \in Threads : pc[t] = "config" => at[t] = Nil

HidesInv == ComputedAnswers /\ OverlayHidesDisk

LEMMA HidesInvInit == Init => HidesInv
<1> SUFFICES ASSUME Init PROVE HidesInv
    OBVIOUS
<1>1. disk \in Views
    BY BoundsAssumption DEF Init
<1>2. \A r \in Roots : ~roots[r].validated /\ ~roots[r].loadErr
    BY <1>1, DetectedTyped DEF Init
<1> QED
    BY <1>2 DEF Init, HidesInv, ComputedAnswers, Computing, OverlayHidesDisk

(* A thread that does not move keeps its answers.                           *)
LEMMA OthersAnswered ==
    ASSUME NEW u \in Threads, NEW r \in Roots, Answered(u, r),
           pc'[u] = pc[u], at'[u] = at[u], cloned'[u] = cloned[u],
           next'[u][r] = next[u][r]
    PROVE  Answered(u, r)'
BY DEF Answered, ConfigAnswered, LoadAnswered, Answers

(* A root the thread is not at, before and after, keeps its answer.          *)
LEMMA AwayAnswered ==
    ASSUME NEW u \in Threads, NEW r \in Roots, Answered(u, r),
           at[u] # r, at'[u] # r, cloned'[u] = cloned[u],
           next'[u][r] = next[u][r]
    PROVE  Answered(u, r)'
BY DEF Answered, Answers

(* What holds when only the thread t has moved, at the root r.               *)
LEMMA OneThreadAnswered ==
    ASSUME TypeInv, HidesInv, NEW t \in Threads, NEW r \in Roots,
           t \in Computing, Computing' = Computing, UNCHANGED <<roots, cloned>>,
           todo' = [todo EXCEPT ![t] = @ \ {r}],
           at[t] \in {r, Nil}, at'[t] \in {r, Nil},
           pc'[t] \in {"load", "validate"} => at'[t] = r,
           pc'[t] = "config" => at'[t] = Nil,
           \A u \in Threads : u # t => pc'[u] = pc[u] /\ at'[u] = at[u],
           \A u \in Threads, q \in Roots : ~(u = t /\ q = r) => next'[u][q] = next[u][q],
           Answered(t, r)'
    PROVE  HidesInv'
<1> USE DEF TypeInv, TypeOK
<1>1. ASSUME NEW u \in Computing', NEW q \in Roots \ todo'[u]
      PROVE  Answered(u, q)'
  <2>1. u \in Threads /\ u \in Computing
      BY DEF Computing
  <2>2. CASE u # t
    <3>1. Answered(u, q) /\ pc'[u] = pc[u] /\ at'[u] = at[u]
        BY <2>1, <2>2 DEF HidesInv, ComputedAnswers
    <3>2. cloned'[u] = cloned[u] /\ next'[u][q] = next[u][q]
        BY <2>1, <2>2
    <3> QED
        BY <2>1, <3>1, <3>2, OthersAnswered
  <2>3. CASE u = t /\ q # r
    <3>1. Answered(t, q) /\ next'[t][q] = next[t][q]
        BY <2>3 DEF HidesInv, ComputedAnswers
    <3>2. at[t] # q /\ at'[t] # q
        BY <2>3, SentinelsAssumption
    <3> QED
        BY <2>3, <3>1, <3>2, AwayAnswered
  <2>4. CASE u = t /\ q = r
      BY <2>4
  <2> QED
      BY <2>2, <2>3, <2>4
<1>2. ASSUME NEW u \in Threads, pc'[u] \in {"load", "validate"}
      PROVE  at'[u] \in Roots \ todo'[u]
    BY <1>2 DEF HidesInv, ComputedAnswers
<1>3. ASSUME NEW u \in Threads, pc'[u] = "config"
      PROVE  at'[u] = Nil
    BY <1>3 DEF HidesInv, ComputedAnswers
<1> QED
    BY <1>1, <1>2, <1>3 DEF HidesInv, ComputedAnswers, OverlayHidesDisk, Answers, ViewsOf

LEMMA LoadRootConfigAnswers ==
    ASSUME TypeInv, HidesInv, NEW t \in Threads, NEW r \in Roots, LoadRootConfig(t, r)
    PROVE  HidesInv'
<1> USE DEF TypeInv, TypeOK
<1>0. PICK v \in Views, answer \in Configs \cup Failure : ConfigEffect(t, r, v, answer)
    BY ConfigStep
<1>1. /\ v \in ViewsOf(cloned[t]) /\ answer = ConfigAt[r][v]
      /\ pc' = [pc EXCEPT ![t] = IF answer \in Configs THEN "load" ELSE "config"]
      /\ at' = [at EXCEPT ![t] = IF answer \in Configs THEN r ELSE Nil]
      /\ next' = [next EXCEPT ![t][r] = WithConfig(
                     [Blank EXCEPT !.basis = cloned[t], !.stamp = stamp[t]], answer)]
    BY <1>0 DEF ConfigEffect
<1>2. /\ UNCHANGED <<roots, cloned>> /\ Computing' = Computing
      /\ todo' = [todo EXCEPT ![t] = @ \ {r}]
      /\ \A u \in Threads, q \in Roots :
             <<u, q>> # <<t, r>> => next'[u][q] = next[u][q]
    BY ConfigEntry
<1>3. pc[t] = "config" /\ t \in Computing /\ at[t] = Nil
    BY DEF LoadRootConfig, Computing, HidesInv, ComputedAnswers
<1>4. Answered(t, r)'
  <2> DEFINE start == [Blank EXCEPT !.basis = cloned[t], !.stamp = stamp[t]]
  <2>1. next'[t][r] = WithConfig(start, answer)
      BY <1>1
  <2>2. CASE answer \in Configs
    <3>1. pc'[t] = "load" /\ at'[t] = r
        BY <1>1, <2>2
    <3>2. ~next'[t][r].validated /\ next'[t][r].config = answer
        BY <2>1, <2>2 DEF WithConfig, Blank
    <3>3. ConfigAnswered(cloned[t], next[t][r], r)'
        BY <1>1, <1>2, <2>2, <3>2 DEF ConfigAnswered, ViewsOf
    <3> QED
        BY <3>1, <3>3 DEF Answered
  <2>3. CASE answer \notin Configs
    <3>1. pc'[t] = "config" /\ at'[t] = Nil /\ answer \in Failure
        BY <1>1, <2>3
    <3>2. /\ ~next'[t][r].validated /\ next'[t][r].config = Nil /\ next'[t][r].loadErr
          /\ next'[t][r].mentions = answer.mentions
        BY <2>1, <2>3 DEF WithConfig, Blank
    <3>3. answer = [mentions |-> answer.mentions]
        BY <3>1 DEF Failure
    <3>4. Answers(cloned[t], next[t][r], r)'
        BY <1>1, <1>2, <3>2, <3>3 DEF Answers, ViewsOf
    <3> QED
        BY <3>1, <3>4 DEF Answered
  <2> QED
      BY <2>2, <2>3
<1> QED
    BY <1>1, <1>2, <1>3, <1>4, OneThreadAnswered

LEMMA LoadWorkspaceAnswers ==
    ASSUME TypeInv, HidesInv, NEW t \in Threads, NEW r \in Roots, r = at[t],
           LoadWorkspace(t)
    PROVE  HidesInv'
<1> USE DEF TypeInv, TypeOK
<1>1. /\ r \in Roots /\ r \in Roots \ todo[t] /\ next[t][r].config \in Configs
      /\ pc[t] = "load" /\ t \in Computing
    BY LoadStep DEF LoadWorkspace, Computing, HidesInv, ComputedAnswers
<1>0. PICK v \in Views, loads \in BOOLEAN : LoadEffect(t, v, loads)
    BY LoadStep
<1>2. /\ v \in ViewsOf(cloned[t]) /\ loads = LoadsAt[r][next[t][r].config][v]
      /\ next' = [next EXCEPT ![t][r] =
                     [@ EXCEPT !.workspace = loads, !.loadErr = ~loads]]
    BY <1>0 DEF LoadEffect
<1>3. /\ UNCHANGED <<roots, cloned, todo>> /\ Computing' = Computing
      /\ pc'[t] = "validate" /\ at' = at
      /\ \A u \in Threads : u # t => pc'[u] = pc[u]
    BY AnswerKeepsBasis DEF LoadWorkspace
<1>4. ConfigAnswered(cloned[t], next[t][r], r)
    BY <1>1 DEF HidesInv, ComputedAnswers, Answered
<1>5. next[t][r] \in RootRuntime
    BY <1>1
<1>6. /\ next'[t][r].validated = next[t][r].validated
      /\ next'[t][r].config = next[t][r].config
      /\ next'[t][r].loadErr = ~loads
    BY <1>1, <1>2, <1>5 DEF RootRuntime
<1>7. LoadAnswered(cloned[t], next[t][r], r)'
  <2>1. LoadAnswered(cloned[t], next'[t][r], r)
    <3>1. LoadsAt[r][next'[t][r].config][v] = ~next'[t][r].loadErr
        BY <1>2, <1>6
    <3>2. ConfigAnswered(cloned[t], next'[t][r], r)
        BY <1>4, <1>6 DEF ConfigAnswered
    <3> QED
        BY <1>2, <3>1, <3>2 DEF LoadAnswered
  <2> QED
      BY <1>3, <2>1 DEF LoadAnswered, ConfigAnswered, ViewsOf
<1>8. Answered(t, r)'
    BY <1>3, <1>7 DEF Answered
<1>9. \A u \in Threads, q \in Roots : ~(u = t /\ q = r) => next'[u][q] = next[u][q]
    BY <1>2
<1>10. todo' = [todo EXCEPT ![t] = @ \ {r}]
    BY <1>1, <1>3
<1>11. at[t] \in {r, Nil} /\ at'[t] \in {r, Nil} /\ at'[t] = r /\ pc'[t] # "config"
    BY <1>3
<1>12. \A u \in Threads : u # t => pc'[u] = pc[u] /\ at'[u] = at[u]
    BY <1>3
<1> QED
    BY <1>1, <1>3, <1>8, <1>9, <1>10, <1>11, <1>12, OneThreadAnswered

LEMMA ValidateRootAnswers ==
    ASSUME TypeInv, HidesInv, NEW t \in Threads, NEW r \in Roots, r = at[t],
           ValidateRoot(t)
    PROVE  HidesInv'
<1> USE DEF TypeInv, TypeOK
<1>1. /\ r \in Roots \ todo[t] /\ next[t][r].config \in Configs
      /\ pc[t] = "validate" /\ t \in Computing
    BY ValidateStep DEF ValidateRoot, Computing, HidesInv, ComputedAnswers
<1>0. PICK v \in Views, report \in SUBSET Paths : ValidateEffect(t, v, report)
    BY ValidateStep
<1>2. /\ v \in ViewsOf(cloned[t]) /\ report = ReportAt[r][next[t][r].config][v]
      /\ next' = [next EXCEPT ![t][r] =
                     [@ EXCEPT !.validated = TRUE, !.complaints = report]]
    BY <1>0 DEF ValidateEffect
<1>3. /\ UNCHANGED <<roots, cloned, todo>> /\ Computing' = Computing
      /\ pc'[t] = "config" /\ at'[t] = Nil
      /\ \A u \in Threads : u # t => pc'[u] = pc[u] /\ at'[u] = at[u]
    BY AnswerKeepsBasis DEF ValidateRoot
<1>4. LoadAnswered(cloned[t], next[t][r], r)
    BY <1>1 DEF HidesInv, ComputedAnswers, Answered
<1>5. next[t][r] \in RootRuntime
    OBVIOUS
<1>6. /\ next'[t][r].validated = TRUE /\ next'[t][r].complaints = report
      /\ next'[t][r].config = next[t][r].config
      /\ next'[t][r].loadErr = next[t][r].loadErr
    BY <1>1, <1>2, <1>5 DEF RootRuntime
<1>7. next[t][r].config # Nil
    BY <1>1, SentinelsAssumption
<1>8. Answers(cloned[t], next[t][r], r)'
  <2> DEFINE cfg == next'[t][r].config
  <2>1. v \in ViewsOf(cloned'[t]) /\ ReportAt[r][cfg][v] = next'[t][r].complaints
      BY <1>2, <1>3, <1>6
  <2>2. cfg # Nil /\ next'[t][r].validated
      BY <1>6, <1>7
  <2>3. \E w \in ViewsOf(cloned'[t]) : ConfigAt[r][w] = cfg
      BY <1>3, <1>4, <1>6 DEF LoadAnswered, ConfigAnswered
  <2>4. \E w \in ViewsOf(cloned'[t]) : LoadsAt[r][cfg][w] = ~next'[t][r].loadErr
      BY <1>3, <1>4, <1>6 DEF LoadAnswered
  <2>5. Answers(cloned'[t], next'[t][r], r)
      BY <2>1, <2>2, <2>3, <2>4 DEF Answers
  <2> QED
      BY <2>5, Zenon DEF Answers, ViewsOf
<1>9. Answered(t, r)'
    BY <1>3, <1>8 DEF Answered
<1>10. \A u \in Threads, q \in Roots : ~(u = t /\ q = r) => next'[u][q] = next[u][q]
    BY <1>2
<1>11. todo' = [todo EXCEPT ![t] = @ \ {r}]
    BY <1>1, <1>3
<1>12. /\ at[t] \in {r, Nil} /\ at'[t] \in {r, Nil} /\ at'[t] = Nil
       /\ pc'[t] \notin {"load", "validate"}
    BY <1>3
<1>13. \A u \in Threads : u # t => pc'[u] = pc[u] /\ at'[u] = at[u]
    BY <1>3
<1>14. t \in Computing /\ Computing' = Computing /\ UNCHANGED <<roots, cloned>>
    BY <1>1, <1>3
<1> HIDE DEF TypeInv, TypeOK
<1> QED
    BY <1>9, <1>10, <1>11, <1>12, <1>13, <1>14, OneThreadAnswered

LEMMA InstallHides ==
    ASSUME TypeInv, AgreeInv, HidesInv, NEW t \in Threads, Install(t)
    PROVE  HidesInv'
<1> USE DEF TypeInv, TypeOK
<1>1. /\ t \in Computing /\ todo[t] = {} /\ roots' = next[t]
      /\ pc[t] = "config" /\ UNCHANGED <<todo, at>>
    BY DEF Install, Computing
<1>2. \A r \in Roots : Answers(cloned[t], next[t][r], r) /\ roots'[r].basis = cloned[t]
    BY <1>1 DEF AgreeInv, ComputedFromClone, HidesInv, ComputedAnswers, Answered
<1>3. OverlayHidesDisk'
  <2>1. \A r \in Roots : Answers(roots'[r].basis, roots'[r], r)
      BY <1>1, <1>2
  <2> QED
      BY <2>1 DEF OverlayHidesDisk, Answers, ViewsOf
<1>4. \A u \in Threads : u # t => /\ pc'[u] = pc[u] /\ cloned'[u] = cloned[u]
                                  /\ next'[u] = next[u]
    BY DEF Install
<1>5. pc'[t] = "hook"
    BY DEF Install
<1>6. ASSUME NEW u \in Computing', NEW r \in Roots \ todo'[u]
      PROVE  Answered(u, r)'
  <2>1. u \in Threads /\ u # t /\ u \in Computing
      BY <1>4, <1>5 DEF Computing
  <2>2. Answered(u, r)
      BY <1>1, <2>1 DEF HidesInv, ComputedAnswers
  <2> QED
      BY <1>1, <1>4, <2>1, <2>2, OthersAnswered
<1>7. ASSUME NEW u \in Threads
      PROVE  /\ pc'[u] \in {"load", "validate"} => at'[u] \in Roots \ todo'[u]
             /\ pc'[u] = "config" => at'[u] = Nil
    BY <1>1, <1>4, <1>5 DEF HidesInv, ComputedAnswers
<1> QED
    BY <1>3, <1>6, <1>7 DEF HidesInv, ComputedAnswers

(* Outside its computation a thread is at no root: it starts at none.        *)
IdleAtNone == \A t \in Threads : pc[t] \in {"idle", "begin", "hook", "config"} => at[t] = Nil

LEMMA IdleAtNoneStep ==
    ASSUME TypeInv, IdleAtNone, [Next]_vars
    PROVE  IdleAtNone'
<1> USE DEF TypeInv, TypeOK
<1>1. CASE Edit
  <2>1. PICK p \in Paths, doc \in Document \cup {Closed} : EditBuffer(p, doc)
      BY <1>1, EditTyped
  <2> QED
      BY <2>1 DEF EditBuffer, IdleAtNone
<1>2. ASSUME NEW p \in Paths, NEW text \in Texts \cup {Absent}, WriteDisk(p, text)
      PROVE  IdleAtNone'
    BY <1>2 DEF WriteDisk, IdleAtNone
<1>3. CASE FlushReload
    BY <1>3 DEF FlushReload, IdleAtNone, Threads
<1>4. ASSUME NEW t \in Timers, TimerFires(t)
      PROVE  IdleAtNone'
    BY <1>4 DEF TimerFires, IdleAtNone, Threads
<1>5. ASSUME NEW t \in Threads, HookReturns(t)
      PROVE  IdleAtNone'
    BY <1>5 DEF HookReturns, IdleAtNone
<1>6. ASSUME NEW t \in Threads, CloneDocuments(t)
      PROVE  IdleAtNone'
    BY <1>6 DEF CloneDocuments, IdleAtNone
<1>7. ASSUME NEW t \in Threads, NEW r \in Roots, LoadRootConfig(t, r)
      PROVE  IdleAtNone'
  <2>1. PICK v \in Views, answer \in Configs \cup Failure : ConfigEffect(t, r, v, answer)
      BY <1>7, ConfigStep
  <2> QED
      BY <2>1 DEF ConfigEffect, IdleAtNone
<1>8. ASSUME NEW t \in Threads, LoadWorkspace(t) \/ ValidateRoot(t) \/ Install(t)
      PROVE  IdleAtNone'
    BY <1>8 DEF LoadWorkspace, ValidateRoot, Install, IdleAtNone
<1>9. CASE UNCHANGED vars
    BY <1>9 DEF vars, IdleAtNone
<1> QED
    BY <1>1, <1>2, <1>3, <1>4, <1>5, <1>6, <1>7, <1>8, <1>9 DEF Next, ReloadStep

LEMMA CloneAnswers ==
    ASSUME TypeInv, HidesInv, IdleAtNone, NEW t \in Threads, CloneDocuments(t)
    PROVE  HidesInv'
<1> USE DEF TypeInv, TypeOK
<1>1. /\ UNCHANGED <<roots, at, next>> /\ todo'[t] = Roots /\ pc'[t] = "config"
      /\ at[t] = Nil
      /\ \A u \in Threads : u # t => /\ pc'[u] = pc[u] /\ cloned'[u] = cloned[u]
                                     /\ todo'[u] = todo[u]
    BY DEF CloneDocuments, IdleAtNone
<1>2. ASSUME NEW u \in Computing', NEW r \in Roots \ todo'[u]
      PROVE  Answered(u, r)'
  <2>1. u \in Threads /\ u # t /\ u \in Computing
      BY <1>1, <1>2 DEF Computing
  <2>2. Answered(u, r)
      BY <1>1, <1>2, <2>1 DEF HidesInv, ComputedAnswers
  <2> QED
      BY <1>1, <2>1, <2>2, OthersAnswered
<1>3. ASSUME NEW u \in Threads
      PROVE  /\ pc'[u] \in {"load", "validate"} => at'[u] \in Roots \ todo'[u]
             /\ pc'[u] = "config" => at'[u] = Nil
    BY <1>1, <1>3 DEF HidesInv, ComputedAnswers
<1> QED
    BY <1>1, <1>2, <1>3 DEF HidesInv, ComputedAnswers, OverlayHidesDisk, Answers, ViewsOf

(* A step that starts or ends no computation leaves the answers alone.       *)
LEMMA OutsideKeepsAnswers ==
    ASSUME TypeInv, HidesInv, UNCHANGED <<roots, cloned, todo, at, next>>,
           NEW t \in Threads, pc[t] \in {"idle", "hook"},
           pc'[t] \in {"idle", "hook", "begin"},
           \A u \in Threads : u # t => pc'[u] = pc[u]
    PROVE  HidesInv'
<1>1. \A u \in Threads : pc'[u] \in {"config", "load", "validate"} => u # t
    OBVIOUS
<1>2. \A u \in Computing' : u \in Computing /\ u \in Threads /\ pc'[u] = pc[u]
    BY <1>1 DEF Computing
<1>3. ASSUME NEW u \in Computing', NEW r \in Roots \ todo'[u]
      PROVE  Answered(u, r)'
    BY <1>2, <1>3, OthersAnswered DEF HidesInv, ComputedAnswers
<1>4. ASSUME NEW u \in Threads
      PROVE  /\ pc'[u] \in {"load", "validate"} => at'[u] \in Roots \ todo'[u]
             /\ pc'[u] = "config" => at'[u] = Nil
    BY <1>1, <1>4 DEF HidesInv, ComputedAnswers
<1> QED
    BY <1>3, <1>4 DEF HidesInv, ComputedAnswers, OverlayHidesDisk, Answers, ViewsOf

LEMMA HidesInvStep ==
    TypeInv /\ AgreeInv /\ IdleAtNone /\ HidesInv /\ [Next]_vars => HidesInv'
<1> SUFFICES ASSUME TypeInv, AgreeInv, IdleAtNone, HidesInv, [Next]_vars PROVE HidesInv'
    OBVIOUS
<1> USE DEF TypeInv, TypeOK
<1>1. CASE UNCHANGED <<roots, pc, cloned, todo, at, next>>
    BY <1>1 DEF HidesInv, ComputedAnswers, OverlayHidesDisk, Answered, ConfigAnswered,
       LoadAnswered, Answers, ViewsOf, Computing
<1>2. CASE Edit
  <2>1. PICK p \in Paths, doc \in Document \cup {Closed} : EditBuffer(p, doc)
      BY <1>2, EditTyped
  <2> QED
      BY <1>1, <2>1 DEF EditBuffer
<1>3. ASSUME NEW p \in Paths, NEW text \in Texts \cup {Absent}, WriteDisk(p, text)
      PROVE  HidesInv'
    BY <1>1, <1>3 DEF WriteDisk
<1>4. CASE FlushReload
    BY <1>4, OutsideKeepsAnswers DEF FlushReload, Threads
<1>5. ASSUME NEW t \in Timers, TimerFires(t)
      PROVE  HidesInv'
    BY <1>5, OutsideKeepsAnswers DEF TimerFires, Threads
<1>6. ASSUME NEW t \in Threads, HookReturns(t)
      PROVE  HidesInv'
    BY <1>6, OutsideKeepsAnswers DEF HookReturns
<1>7. ASSUME NEW t \in Threads, LoadWorkspace(t) \/ ValidateRoot(t)
      PROVE  HidesInv'
  <2>1. at[t] \in Roots
      BY <1>7 DEF AtRoot, LoadWorkspace, ValidateRoot
  <2> QED
      BY <1>7, <2>1, LoadWorkspaceAnswers, ValidateRootAnswers
<1>8. CASE UNCHANGED vars
    BY <1>1, <1>8 DEF vars
<1> QED
    BY <1>2, <1>3, <1>4, <1>5, <1>6, <1>7, <1>8, CloneAnswers, InstallHides,
       LoadRootConfigAnswers
    DEF Next, ReloadStep

(* What is installed for a root is an answer for its buffers, whatever the   *)
(* loaders compute, whatever is on disk and whoever writes it meanwhile.     *)
THEOREM OpenBuffersHideDisk == Spec => []OverlayHidesDisk
<1>1. HidesInv => OverlayHidesDisk
    BY DEF HidesInv
<1>2. Init => IdleAtNone
    BY DEF Init, IdleAtNone
<1>3. TypeInv /\ IdleAtNone /\ [Next]_vars => IdleAtNone'
    BY IdleAtNoneStep
<1> QED
    BY <1>1, <1>2, <1>3, TypeInvInit, TypeInvStep, AgreeInvInit, AgreeInvStep,
       HidesInvInit, HidesInvStep, PTL
    DEF Spec
=============================================================================
