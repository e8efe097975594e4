-------------------------- MODULE LspServer_proofs --------------------------
(* Proofs about LspServer, for any roots, files, texts and number of         *)
(* goroutines: the server does to its runtime only what OverlayRuntime says, *)
(* and what the client is shown is right.                                   *)
EXTENDS LspServer, OverlayRuntime_proofs

(***************************************************************************)
(* Refinement.  Every step of the server is a step of the runtime, or      *)
(* leaves the runtime as it is.                                            *)
(***************************************************************************)
LEMMA ServerStep == [LspNext]_allVars => [Next]_vars
<1> SUFFICES ASSUME LspNext \/ UNCHANGED allVars PROVE [Next]_vars
    OBVIOUS
<1>1. CASE Initialize \/ HandleShutdown \/ ConnectionLost \/ ReadFails
    BY <1>1 DEF Initialize, HandleShutdown, ConnectionLost, ReadFails
<1>2. ASSUME NEW hasParams \in BOOLEAN, HandleExit(hasParams)
      PROVE  UNCHANGED vars
    BY <1>2 DEF HandleExit
<1>3. CASE FirstReload
    BY <1>3 DEF FirstReload, Next
<1>4. CASE HandleEdit
    BY <1>4 DEF HandleEdit, Next
<1>5. CASE DiskChanges
    BY <1>5 DEF DiskChanges, Next
<1>6. CASE Runtime
    BY <1>6 DEF Runtime, Next
<1>7. ASSUME NEW t \in Threads, PublishStep(t)
      PROVE  [Next]_vars
  <2>1. CASE HookReturns(t)
      BY <2>1 DEF Next
  <2> QED
      BY <1>7, <2>1 DEF PublishStep, TakeSnapshot, LockPublish, SendDiagnostics,
         ClearDiagnostics, PublishDone, PublishFails, ReturnFromHook
<1>8. CASE UNCHANGED allVars
    BY <1>8 DEF allVars
<1> QED
    BY <1>1, <1>2, <1>3, <1>4, <1>5, <1>6, <1>7, <1>8 DEF LspNext

(* The language server implements the runtime: nothing it does, neither the  *)
(* messages it handles nor what it publishes from the reload hook, makes the *)
(* runtime do what DidOpen ... FlushReload and reload alone would not.       *)
THEOREM ServerImplementsRuntime == LspSpec => Spec
<1>1. LspInit => Init
    BY DEF LspInit
<1> QED
    BY <1>1, ServerStep, PTL DEF LspSpec, Spec

(* So the server loses no edit either, whatever becomes of the session and   *)
(* of the connection.                                                       *)
THEOREM ServerLosesNoEdit == LspSpec => []NoLostEdit
BY ServerImplementsRuntime, LosesNoEdit, PTL

(***************************************************************************)
(* Type correctness.                                                       *)
(***************************************************************************)
LspTypeInv == LspTypeOK /\ TypeInv

LEMMA CollectTyped ==
    TypeInv => Collect(roots, documents) \in [Paths -> Message]
<1> SUFFICES ASSUME TypeInv, NEW p \in Paths
             PROVE  VersionOf(documents, p) \in Nat
    BY DEF Collect, Message
<1>1. documents[p] \in Document \cup {Closed}
    BY DEF TypeInv, TypeOK, Documents
<1> QED
    BY <1>1 DEF VersionOf, Document

LEMMA SilentTyped == Silent \in Message /\ NoParams \in [Paths -> Message]
BY DEF Silent, Message, NoParams

LEMMA LspTypeInvInit == LspInit => LspTypeInv
BY TypeInvInit, SilentTyped DEF LspInit, LspTypeInv, LspTypeOK, TypeInv

LEMMA PublishStepTyped ==
    ASSUME LspTypeInv, TypeInv', NEW t \in Threads, PublishStep(t)
    PROVE  LspTypeInv'
<1> USE DEF LspTypeInv, LspTypeOK
<1> TypeOK'
    BY DEF TypeInv
<1>1. CASE TakeSnapshot(t)
    BY <1>1, CollectTyped DEF TakeSnapshot
<1>2. CASE LockPublish(t)
    BY <1>2 DEF LockPublish, Blamed
<1>3. ASSUME NEW p \in Paths, SendDiagnostics(t, p)
      PROVE  LspTypeInv'
    BY <1>3 DEF SendDiagnostics
<1>4. ASSUME NEW p \in Paths, ClearDiagnostics(t, p)
      PROVE  LspTypeInv'
  <2>1. params[t][p] \in Message
      OBVIOUS
  <2>2. [params[t][p] EXCEPT !.about = {}] \in Message
      BY <2>1 DEF Message
  <2> QED
      BY <1>4, <2>2 DEF ClearDiagnostics
<1>5. ASSUME ReturnFromHook(t), batch' \in [Paths -> Message]
      PROVE  LspTypeInv'
    BY <1>5, SilentTyped DEF ReturnFromHook
<1>6. CASE PublishDone(t) \/ PublishFails(t)
    BY <1>5, <1>6 DEF PublishDone, PublishFails
<1> QED
    BY <1>1, <1>2, <1>3, <1>4, <1>6 DEF PublishStep

LEMMA LspTypeInvStep == LspTypeInv /\ [LspNext]_allVars => LspTypeInv'
<1> SUFFICES ASSUME LspTypeInv, [LspNext]_allVars PROVE LspTypeInv'
    OBVIOUS
<1> TypeInv' /\ TypeOK'
    BY ServerStep, TypeInvStep DEF LspTypeInv, TypeInv
<1>1. CASE \E t \in Threads : PublishStep(t)
    BY <1>1, PublishStepTyped
<1> USE DEF LspTypeInv, LspTypeOK
<1>2. CASE Initialize \/ FirstReload
    BY <1>2 DEF Initialize, FirstReload
<1>3. CASE HandleShutdown \/ ReadFails \/ ConnectionLost
    BY <1>3 DEF HandleShutdown, ReadFails, ConnectionLost
<1>4. ASSUME NEW hasParams \in BOOLEAN, HandleExit(hasParams)
      PROVE  LspTypeInv'
    BY <1>4 DEF HandleExit
<1>5. CASE HandleEdit \/ DiskChanges
    BY <1>5 DEF HandleEdit, DiskChanges, lspVars
<1>6. CASE Runtime
    BY <1>6 DEF Runtime
<1>7. CASE UNCHANGED allVars
    BY <1>7 DEF allVars, lspVars
<1> QED
    BY <1>1, <1>2, <1>3, <1>4, <1>5, <1>6, <1>7 DEF LspNext

(* Every variable of the server keeps its type: the client is never shown    *)
(* anything but a message with a version and roots that speak of the file,   *)
(* and the exit code is 0 or 1, on every path through the lifecycle.         *)
THEOREM LspTypeCorrect == LspSpec => []LspTypeOK
<1>1. LspTypeInv => LspTypeOK
    BY DEF LspTypeInv
<1> QED
    BY <1>1, LspTypeInvInit, LspTypeInvStep, PTL DEF LspSpec

(***************************************************************************)
(* Publishing.  publishMu is held by exactly the hook that sends, so what  *)
(* that hook has sent of its messages is what the client shows of them.    *)
(***************************************************************************)
Sending(t) == phase[t] = "sending"

HoldsMu ==
    /\ \A t \in Threads : Sending(t) <=> publishMu = t
    /\ \A t \in Threads : phase[t] # "idle" => pc[t] = "hook"

SentSoFar ==
    \A t \in Threads : Sending(t) =>
        /\ left[t] \subseteq Blamed(params[t])
        /\ \A p \in Blamed(params[t]) \ left[t] : shown[p] = params[t][p]

PublishInv ==
    HoldsMu /\ SentSoFar /\ PublishedPathsExact /\ ClientShowsOneSnapshot

LEMMA PublishInvInit == LspInit => PublishInv
BY NoThreadAssumption
DEF LspInit, PublishInv, HoldsMu, Sending, SentSoFar, PublishedPathsExact,
    ClientShowsOneSnapshot, Blamed, NoParams, Silent

(* What the rest of the server leaves alone.                                 *)
LEMMA OthersDoNotPublish ==
    ASSUME LspTypeInv, [LspNext]_allVars, ~ \E t \in Threads : PublishStep(t)
    PROVE  /\ UNCHANGED <<phase, params, left, publishMu, publishedPaths, shown, batch>>
           /\ conn' \in {conn, "down"}
           /\ \A t \in Threads : pc[t] = "hook" => pc'[t] = "hook"
<1> USE DEF LspTypeInv, TypeInv, TypeOK
<1>1. CASE Initialize \/ HandleShutdown \/ ConnectionLost \/ ReadFails
    BY <1>1 DEF Initialize, HandleShutdown, ConnectionLost, ReadFails, vars
<1>2. ASSUME NEW hasParams \in BOOLEAN, HandleExit(hasParams)
      PROVE  UNCHANGED <<pc, conn, phase, params, left, publishMu, publishedPaths,
                         shown, batch>>
    BY <1>2 DEF HandleExit, vars
<1>3. CASE FirstReload
    BY <1>3 DEF FirstReload, FlushReload
<1>4. CASE HandleEdit
  <2>1. PICK p \in Paths, doc \in Document \cup {Closed} : EditBuffer(p, doc)
      BY <1>4, EditTyped DEF HandleEdit
  <2> QED
      BY <1>4, <2>1 DEF HandleEdit, EditBuffer, lspVars
<1>5. CASE DiskChanges
    BY <1>5 DEF DiskChanges, WriteDisk, lspVars
<1>6. CASE Runtime
  <2>1. ASSUME NEW u \in Timers, TimerFires(u)
        PROVE  \A t \in Threads : pc[t] = "hook" => pc'[t] = "hook"
      BY <2>1 DEF TimerFires
  <2>2. ASSUME NEW u \in Threads, ReloadStep(u)
        PROVE  \A t \in Threads : pc[t] = "hook" => pc'[t] = "hook"
      BY <2>2 DEF ReloadStep, CloneDocuments, LoadRootConfig, LoadWorkspace,
         ValidateRoot, Install
  <2> QED
      BY <1>6, <2>1, <2>2 DEF Runtime
<1>7. CASE UNCHANGED allVars
    BY <1>7 DEF allVars, vars, lspVars
<1> QED
    BY <1>1, <1>2, <1>3, <1>4, <1>5, <1>6, <1>7 DEF LspNext

LEMMA SendPublishes ==
    ASSUME LspTypeInv, PublishInv, NEW t \in Threads, NEW p \in Paths,
           SendDiagnostics(t, p) \/ ClearDiagnostics(t, p)
    PROVE  PublishInv'
<1> USE DEF LspTypeInv, LspTypeOK
<1>1. /\ UNCHANGED <<pc, phase, params, publishMu, batch>>
      /\ Sending(t) /\ publishMu = t /\ publishMu # Nil
    BY NoThreadAssumption
    DEF SendDiagnostics, ClearDiagnostics, vars, PublishInv, HoldsMu, Sending
<1>2. \A u \in Threads : Sending(u) => u = t
    BY <1>1 DEF PublishInv, HoldsMu
<1>3. \A q \in Paths : q # p => shown'[q] = shown[q]
    BY DEF SendDiagnostics, ClearDiagnostics
<1>4. \/ /\ p \in left[t] /\ p \in Blamed(params[t])
         /\ shown'[p] = params[t][p] /\ shown'[p].about # {}
         /\ left'[t] = left[t] \ {p} /\ publishedPaths' = publishedPaths \cup {p}
      \/ /\ left[t] = {} /\ p \notin Blamed(params[t])
         /\ shown'[p].about = {}
         /\ left'[t] = left[t] /\ publishedPaths' = publishedPaths \ {p}
  <2>1. CASE SendDiagnostics(t, p)
      BY <1>1, <2>1 DEF SendDiagnostics, PublishInv, SentSoFar, Blamed
  <2>2. CASE ClearDiagnostics(t, p)
    <3>1. params[t][p] \in Message
        OBVIOUS
    <3> QED
        BY <2>2, <3>1 DEF ClearDiagnostics, Message
  <2> QED
      BY <2>1, <2>2
<1>5. SentSoFar'
  <2>1. /\ left[t] \subseteq Blamed(params[t])
        /\ \A q \in Blamed(params[t]) \ left[t] : shown[q] = params[t][q]
      BY <1>1 DEF PublishInv, SentSoFar
  <2>2. /\ left'[t] \subseteq Blamed(params[t])
        /\ \A q \in Blamed(params[t]) \ left'[t] : shown'[q] = params[t][q]
      BY <1>3, <1>4, <2>1 DEF Blamed
  <2>3. \A u \in Threads : Sending(u)' => u = t
      BY <1>1, <1>2 DEF Sending
  <2>4. Blamed(params[t])' = Blamed(params'[t]) /\ params'[t] = params[t]
      BY <1>1
  <2> QED
      BY <2>2, <2>3, <2>4 DEF SentSoFar
<1>6. PublishedPathsExact'
    BY <1>3, <1>4 DEF PublishInv, PublishedPathsExact, Blamed
<1> QED
    BY <1>1, <1>5, <1>6 DEF PublishInv, HoldsMu, Sending, ClientShowsOneSnapshot

(* A publisher that is done has shown the whole of its snapshot; one whose   *)
(* write failed has lost the connection.                                    *)
LEMMA ReturnPublishes ==
    ASSUME LspTypeInv, PublishInv, NEW t \in Threads, PublishDone(t) \/ PublishFails(t)
    PROVE  PublishInv'
<1> USE DEF LspTypeInv, LspTypeOK
<1>1. /\ Sending(t) /\ publishMu = t /\ ReturnFromHook(t)
      /\ UNCHANGED <<conn, shown, publishedPaths>>
      /\ publishMu' = Nil
    BY DEF PublishDone, PublishFails, ReturnFromHook, Sending, PublishInv, HoldsMu
<1>2. \A u \in Threads : phase'[u] = IF u = t THEN "idle" ELSE phase[u]
    BY <1>1 DEF ReturnFromHook
<1>3. \A u \in Threads : u # t => pc'[u] = pc[u]
    BY <1>1 DEF ReturnFromHook, HookReturns, TypeOK
<1>4. \A u \in Threads : ~Sending(u)'
    BY <1>1, <1>2 DEF PublishInv, HoldsMu, Sending
<1>5. HoldsMu' /\ SentSoFar'
    BY <1>1, <1>2, <1>3, <1>4, NoThreadAssumption
    DEF PublishInv, HoldsMu, Sending, SentSoFar
<1>6. PublishedPathsExact'
    BY <1>1 DEF PublishInv, PublishedPathsExact, Blamed
<1>7. ClientShowsOneSnapshot'
  <2>1. CASE PublishDone(t)
    <3>1. /\ left[t] = {} /\ publishedPaths \subseteq Blamed(params[t])
          /\ batch' = params[t]
        BY <2>1 DEF PublishDone
    <3>2. \A p \in Blamed(params[t]) : shown[p] = params[t][p]
        BY <1>1, <3>1 DEF PublishInv, SentSoFar
    <3>3. \A p \in Paths \ Blamed(params[t]) : shown[p].about = {} /\ params[t][p].about = {}
        BY <3>1 DEF PublishInv, PublishedPathsExact, Blamed
    <3> QED
        BY <1>1, <3>1, <3>2, <3>3 DEF ClientShowsOneSnapshot, Blamed
  <2>2. CASE PublishFails(t)
      BY <1>1, <2>2 DEF PublishFails, ClientShowsOneSnapshot
  <2> QED
      BY <2>1, <2>2
<1> QED
    BY <1>5, <1>6, <1>7 DEF PublishInv

LEMMA PublishInvStep == LspTypeInv /\ PublishInv /\ [LspNext]_allVars => PublishInv'
<1> SUFFICES ASSUME LspTypeInv, PublishInv, [LspNext]_allVars PROVE PublishInv'
    OBVIOUS
<1> USE DEF LspTypeInv, LspTypeOK
<1>1. CASE ~ \E t \in Threads : PublishStep(t)
    BY <1>1, OthersDoNotPublish
    DEF PublishInv, HoldsMu, Sending, SentSoFar, PublishedPathsExact,
        ClientShowsOneSnapshot, Blamed
<1>2. ASSUME NEW t \in Threads, TakeSnapshot(t)
      PROVE  PublishInv'
    BY <1>2
    DEF TakeSnapshot, vars, PublishInv, HoldsMu, Sending, SentSoFar,
        PublishedPathsExact, ClientShowsOneSnapshot, Blamed
<1>3. ASSUME NEW t \in Threads, LockPublish(t)
      PROVE  PublishInv'
    BY <1>3, NoThreadAssumption
    DEF LockPublish, vars, PublishInv, HoldsMu, Sending, SentSoFar,
        PublishedPathsExact, ClientShowsOneSnapshot, Blamed
<1> QED
    BY <1>1, <1>2, <1>3, SendPublishes, ReturnPublishes DEF PublishStep

(* publishedPaths is exactly what the client shows, at every step of every   *)
(* publisher and after a write that failed in the middle.                    *)
THEOREM PublishedPathsAreExact == LspSpec => []PublishedPathsExact
<1>1. PublishInv => PublishedPathsExact
    BY DEF PublishInv
<1> QED
    BY <1>1, LspTypeInvInit, LspTypeInvStep, PublishInvInit, PublishInvStep, PTL DEF LspSpec

(* However many reloads overlap, the client shows the whole of one snapshot  *)
(* whenever nobody is sending, because publishMu is held for a whole batch.  *)
THEOREM ClientAlwaysShowsOneSnapshot == LspSpec => []ClientShowsOneSnapshot
<1>1. PublishInv => ClientShowsOneSnapshot
    BY DEF PublishInv
<1> QED
    BY <1>1, LspTypeInvInit, LspTypeInvStep, PublishInvInit, PublishInvStep, PTL DEF LspSpec

(***************************************************************************)
(* Convergence.  As long as reloads have not overlapped and the files have *)
(* stayed as they were, at most one reload is running, and unless an edit  *)
(* waits for the timer or a reload for its first critical section, what is *)
(* computed, installed, collected and shown is right for the buffers as    *)
(* they are.                                                               *)
(***************************************************************************)
BeforeServing ==
    session \in {"new", "opened"} =>
        timer = "none" /\ \A t \in Threads : pc[t] = "idle"

Undisturbed == session = "serving" /\ ~overlapped /\ writes = 0

OneReload ==
    \A t, u \in Threads : pc[t] # "idle" /\ pc[u] # "idle" => t = u

(* What the config load answers for the buffers docs over the files.         *)
Answer(docs, r) == ConfigAt[r][View(docs, disk)]

(* The runtime of r says what the buffers docs and the files deserve.        *)
RightFor(runtime, docs, r) ==
    IF Answer(docs, r) \in Configs
    THEN /\ runtime.validated
         /\ runtime.complaints = ReportAt[r][Answer(docs, r)][View(docs, disk)]
    ELSE /\ ~runtime.validated /\ runtime.loadErr
         /\ runtime.mentions = Answer(docs, r).mentions

ConfigRight(runtime, docs, r) ==
    Answer(docs, r) \in Configs /\ runtime.config = Answer(docs, r)

(* t is computing r: it has loaded the config, and not yet validated.        *)
Underway(t, r) == pc[t] \in {"load", "validate"} /\ at[t] = r

ComputesRight ==
    \A t \in Computing : \A r \in Roots \ todo[t] :
        IF Underway(t, r) THEN ConfigRight(next[t][r], cloned[t], r)
                          ELSE RightFor(next[t][r], cloned[t], r)

(* Every call that is running sees the files as they are.                    *)
SeesDisk == \A t \in Computing, p \in Paths : held[t][p] = {disk[p]}

(* Nothing has changed since the last reload cloned the buffers.             *)
UpToDate == timer # "armed" /\ \A t \in Threads : pc[t] # "begin"

ClonesCurrent == \A t \in Computing : cloned[t] = documents

RootsCurrent ==
    Computing = {} => \A r \in Roots : RightFor(roots[r], documents, r)

CollectsCurrent ==
    \A t \in Threads : phase[t] # "idle" => params[t] = Collect(roots, documents)

ShowsCurrent ==
    conn = "up" /\ (\A t \in Threads : pc[t] = "idle") =>
        batch = Collect(roots, documents)

SerialInv ==
    /\ BeforeServing
    /\ Undisturbed =>
           /\ OneReload
           /\ ComputesRight /\ SeesDisk
           /\ UpToDate => ClonesCurrent /\ RootsCurrent /\ CollectsCurrent /\ ShowsCurrent

ServerInv ==
    LspTypeInv /\ AgreeInv /\ IdleAtNone /\ HidesInv /\ PublishInv /\ SerialInv

LEMMA SerialInvInit == LspInit => SerialInv
BY DEF LspInit, Init, SerialInv, BeforeServing, Undisturbed

(* What is collected depends on the roots, the buffers and the index alone.  *)
LEMMA CollectSame ==
    ASSUME UNCHANGED <<roots, documents, configFiles>>
    PROVE  Collect(roots, documents)' = Collect(roots, documents)
<1>1. \A r \in Roots : Located(r, roots[r].mentions)' = Located(r, roots[r].mentions)
    BY DEF Located
<1>2. \A r \in Roots, p \in Paths : Blames(roots[r], r, p)' = Blames(roots[r], r, p)
    BY <1>1 DEF Blames
<1>3. \A p \in Paths : {r \in Roots : Blames(roots[r], r, p)}' =
                        {r \in Roots : Blames(roots[r], r, p)}
    BY <1>2
<1> QED
    BY <1>3 DEF Collect

(* A step that leaves the runtime alone, and what has been collected.        *)
LEMMA RuntimeAlone ==
    ASSUME SerialInv, UNCHANGED vars, UNCHANGED <<params, batch, overlapped>>,
           conn' \in {conn, "down"},
           \/ session' = session \/ session' = "stopped"
           \/ session = "new" /\ session' = "opened",
           \A t \in Threads : phase'[t] # "idle" => phase[t] # "idle"
    PROVE  SerialInv'
<1>1. BeforeServing' /\ (Undisturbed' => Undisturbed) /\ (UpToDate' <=> UpToDate)
    BY DEF vars, SerialInv, BeforeServing, Undisturbed, UpToDate
<1>2. UNCHANGED <<OneReload, ComputesRight, SeesDisk, ClonesCurrent, RootsCurrent>>
    BY DEF vars, OneReload, ComputesRight, SeesDisk, ClonesCurrent, RootsCurrent,
       Computing, Underway, ConfigRight, RightFor, Answer, View, ReadFile
<1>3. (CollectsCurrent => CollectsCurrent') /\ (ShowsCurrent => ShowsCurrent')
    BY CollectSame DEF vars, CollectsCurrent, ShowsCurrent
<1> QED
    BY <1>1, <1>2, <1>3 DEF SerialInv

(* A reload that has only just been asked for.                               *)
LEMMA AskedFor ==
    ASSUME LspTypeInv, SerialInv, UNCHANGED <<disk, cloned, todo, at, next, held>>,
           BeforeServing', ~UpToDate',
           \A t \in Computing' : pc'[t] = pc[t],
           Undisturbed' => OneReload' /\ (Undisturbed \/ Computing' = {})
    PROVE  SerialInv'
<1>1. Computing' \subseteq Computing
    BY DEF Computing
<1>2. ASSUME ComputesRight PROVE ComputesRight'
    BY <1>1, <1>2 DEF ComputesRight, Underway, ConfigRight, RightFor, Answer, View,
       ReadFile
<1>3. SeesDisk => SeesDisk'
    BY <1>1 DEF SeesDisk
<1>4. Computing' = {} => ComputesRight' /\ SeesDisk'
    BY DEF ComputesRight, SeesDisk
<1> QED
    BY <1>2, <1>3, <1>4 DEF SerialInv

(* While only one reload may run, the one that computes is the only one that *)
(* is anywhere, and no hook has anything collected.                          *)
LEMMA OnlyReload ==
    ASSUME LspTypeInv, PublishInv, OneReload, NEW t \in Threads, pc[t] \notin {"idle", "hook"}
    PROVE  /\ \A u \in Threads : u # t => pc[u] = "idle"
           /\ \A u \in Threads : phase[u] = "idle"
           /\ Computing \subseteq {t}
BY DEF OneReload, PublishInv, HoldsMu, Computing

LEMMA CloneSerial ==
    ASSUME ServerInv, Undisturbed, NEW t \in Threads, CloneDocuments(t),
           UNCHANGED <<phase, params, batch, conn>>
    PROVE  /\ ComputesRight' /\ ClonesCurrent' /\ RootsCurrent'
           /\ CollectsCurrent' /\ ShowsCurrent'
<1> USE DEF ServerInv, LspTypeInv, TypeInv, TypeOK
<1>1. /\ pc[t] = "begin" /\ pc'[t] = "config"
      /\ cloned'[t] = documents' /\ todo'[t] = Roots
      /\ \A u \in Threads : u # t => pc'[u] = pc[u]
    BY DEF CloneDocuments
<1>2. /\ \A u \in Threads : u # t => pc[u] = "idle"
      /\ \A u \in Threads : phase[u] = "idle"
    BY <1>1, OnlyReload DEF SerialInv
<1>3. Computing' = {t}
    BY <1>1, <1>2 DEF Computing
<1> QED
    BY <1>1, <1>2, <1>3 DEF ComputesRight, ClonesCurrent, RootsCurrent, CollectsCurrent,
       ShowsCurrent

(* Nobody writes the disk, so a call sees the files as they are.             *)
LEMMA SeenNow ==
    ASSUME LspTypeInv, SeesDisk, NEW t \in Computing, NEW files \in Seen(t)
    PROVE  files = disk
<1>1. t \in Threads /\ files \in Views /\ disk \in Views
    BY DEF Computing, Seen, LspTypeInv, TypeInv, TypeOK
<1>2. \A p \in Paths : files[p] = disk[p]
    BY <1>1 DEF SeesDisk, Seen
<1> QED
    BY <1>1, <1>2 DEF Views

LEMMA ReloadSeesDisk ==
    ASSUME LspTypeInv, SeesDisk, NEW t \in Threads, ReloadStep(t)
    PROVE  SeesDisk'
<1> USE DEF LspTypeInv, TypeInv, TypeOK
<1>1. /\ disk' = disk
      /\ \A u \in Threads : u # t => pc'[u] = pc[u] /\ held'[u] = held[u]
    BY DEF ReloadStep, CloneDocuments, LoadRootConfig, LoadWorkspace, ValidateRoot,
       Install, BeginCall
<1>2. \/ held'[t] = [p \in Paths |-> {disk[p]}]
      \/ pc'[t] = "hook"
    BY DEF ReloadStep, CloneDocuments, LoadRootConfig, LoadWorkspace, ValidateRoot,
       Install, BeginCall
<1>3. ASSUME NEW u \in Computing', NEW p \in Paths
      PROVE  held'[u][p] = {disk'[p]}
  <2>1. CASE u = t
      BY <1>1, <1>2, <1>3, <2>1 DEF Computing
  <2>2. CASE u # t
      BY <1>1, <1>3, <2>2 DEF Computing, SeesDisk
  <2> QED
      BY <2>1, <2>2
<1> QED
    BY <1>3 DEF SeesDisk

(* What one step of the computation keeps: all but the answer at hand.       *)
LEMMA ComputeSerial ==
    ASSUME ServerInv, Undisturbed, NEW t \in Threads,
           pc[t] \in {"config", "load", "validate"},
           pc'[t] \in {"config", "load", "validate"},
           \A u \in Threads : u # t => pc'[u] = pc[u],
           UNCHANGED <<documents, disk, timer, roots, cloned, phase, params, batch, conn>>,
           \A r \in Roots \ todo'[t] :
               IF Underway(t, r)' THEN ConfigRight(next'[t][r], cloned[t], r)
                                  ELSE RightFor(next'[t][r], cloned[t], r)
    PROVE  /\ ComputesRight'
           /\ UpToDate' => ClonesCurrent' /\ RootsCurrent' /\ CollectsCurrent' /\ ShowsCurrent'
<1> USE DEF ServerInv
<1>1. /\ \A u \in Threads : u # t => pc[u] = "idle"
      /\ \A u \in Threads : phase[u] = "idle"
    BY OnlyReload DEF SerialInv
<1>2. Computing = {t} /\ Computing' = {t}
    BY <1>1 DEF Computing
<1>3. ComputesRight'
  <2>1. \A r \in Roots \ todo'[t] :
            IF Underway(t, r)' THEN ConfigRight(next[t][r], cloned[t], r)'
                               ELSE RightFor(next[t][r], cloned[t], r)'
      BY DEF ConfigRight, RightFor, Answer, View, ReadFile
  <2> QED
      BY <1>2, <2>1 DEF ComputesRight, Underway
<1>4. ASSUME UpToDate' PROVE ClonesCurrent'
  <2>1. UpToDate
      BY <1>4 DEF UpToDate
  <2> QED
      BY <1>2, <2>1 DEF SerialInv, ClonesCurrent
<1> QED
    BY <1>1, <1>2, <1>3, <1>4 DEF RootsCurrent, CollectsCurrent, ShowsCurrent

LEMMA LoadRootConfigSerial ==
    ASSUME ServerInv, Undisturbed, NEW t \in Threads, NEW r \in Roots, LoadRootConfig(t, r),
           UNCHANGED <<phase, params, batch, conn>>
    PROVE  /\ ComputesRight'
           /\ UpToDate' => ClonesCurrent' /\ RootsCurrent' /\ CollectsCurrent' /\ ShowsCurrent'
<1> DEFINE answer == Answer(cloned[t], r)
           start == [Blank EXCEPT !.basis = cloned[t], !.stamp = stamp[t]]
<1>1. /\ UNCHANGED <<documents, disk, timer, roots, cloned>>
      /\ todo'[t] = todo[t] \ {r}
      /\ \A q \in Roots : q # r => next'[t][q] = next[t][q]
  <2>1. UNCHANGED <<documents, disk, timer, roots, cloned>> /\ todo'[t] = todo[t] \ {r}
      BY DEF LoadRootConfig, ServerInv, LspTypeInv, TypeInv, TypeOK
  <2>2. TypeInv
      BY DEF ServerInv, LspTypeInv
  <2>3. \A u \in Threads, q \in Roots : <<u, q>> # <<t, r>> => next'[u][q] = next[u][q]
      BY <2>2, ConfigEntry
  <2> QED
      BY <2>1, <2>3
<1> USE DEF ServerInv, LspTypeInv, TypeInv, TypeOK
<1>2. pc[t] = "config" /\ t \in Computing
    BY DEF LoadRootConfig, Computing
<1>3. PICK files \in Seen(t) :
          LET a == ConfigAt[r][View(cloned[t], files)]
              loads == a \in Configs
          IN  /\ pc' = [pc EXCEPT ![t] = IF loads THEN "load" ELSE "config"]
              /\ at' = [at EXCEPT ![t] = IF loads THEN r ELSE Nil]
              /\ next' = [next EXCEPT ![t][r] = WithConfig(
                             [Blank EXCEPT !.basis = cloned[t], !.stamp = stamp[t]], a)]
    BY DEF LoadRootConfig
<1>4. files = disk
    BY <1>2, SeenNow DEF SerialInv
<1>5. /\ pc' = [pc EXCEPT ![t] = IF answer \in Configs THEN "load" ELSE "config"]
      /\ at' = [at EXCEPT ![t] = IF answer \in Configs THEN r ELSE Nil]
      /\ next'[t][r] = WithConfig(start, answer)
    BY <1>3, <1>4 DEF Answer
<1>6. IF answer \in Configs
      THEN pc'[t] = "load" /\ at'[t] = r /\ next'[t][r].config = answer
      ELSE /\ pc'[t] = "config" /\ at'[t] = Nil /\ ~next'[t][r].validated
           /\ next'[t][r].loadErr /\ next'[t][r].mentions = answer.mentions
    BY <1>5 DEF WithConfig, Blank
<1>7. \A q \in Roots \ todo[t] : RightFor(next[t][q], cloned[t], q)
    BY <1>2 DEF SerialInv, ComputesRight, Underway
<1>8. ASSUME NEW q \in Roots \ todo'[t]
      PROVE  IF Underway(t, q)' THEN ConfigRight(next'[t][q], cloned[t], q)
                                ELSE RightFor(next'[t][q], cloned[t], q)
  <2>1. CASE q = r
    <3>1. CASE answer \in Configs
        BY <1>6, <2>1, <3>1 DEF Underway, ConfigRight
    <3>2. CASE answer \notin Configs
        BY <1>6, <2>1, <3>2 DEF Underway, RightFor
    <3> QED
        BY <3>1, <3>2
  <2>2. CASE q # r
    <3>1. ~Underway(t, q)'
        BY <1>6, <2>2, SentinelsAssumption DEF Underway
    <3> QED
        BY <1>1, <1>7, <2>2, <3>1
  <2> QED
      BY <2>1, <2>2
<1>9. pc'[t] \in {"config", "load"} /\ \A u \in Threads : u # t => pc'[u] = pc[u]
    BY <1>5
<1> QED
    BY <1>1, <1>2, <1>8, <1>9, ComputeSerial

LEMMA AnswerSerial ==
    ASSUME ServerInv, Undisturbed, NEW t \in Threads, NEW r \in Roots, r = at[t],
           LoadWorkspace(t) \/ ValidateRoot(t), UNCHANGED <<phase, params, batch, conn>>
    PROVE  /\ ComputesRight'
           /\ UpToDate' => ClonesCurrent' /\ RootsCurrent' /\ CollectsCurrent' /\ ShowsCurrent'
<1> USE DEF ServerInv, LspTypeInv, TypeInv, TypeOK
<1>1. /\ UNCHANGED <<documents, disk, timer, roots, cloned, todo>>
      /\ t \in Computing /\ pc[t] \in {"load", "validate"}
      /\ pc'[t] \in {"config", "validate"}
      /\ \A u \in Threads : u # t => pc'[u] = pc[u]
    BY DEF LoadWorkspace, ValidateRoot, Computing
<1>2. r \in Roots \ todo[t] /\ ConfigRight(next[t][r], cloned[t], r)
    BY <1>1 DEF HidesInv, ComputedAnswers, SerialInv, ComputesRight, Underway
<1>3. \A q \in Roots : q # r => next'[t][q] = next[t][q]
  <2>1. CASE LoadWorkspace(t)
    <3>1. PICK v \in Views, loads \in BOOLEAN : LoadEffect(t, v, loads)
        BY <2>1, LoadStep
    <3> QED
        BY <3>1 DEF LoadEffect
  <2>2. CASE ValidateRoot(t)
    <3>1. PICK v \in Views, report \in SUBSET Paths : ValidateEffect(t, v, report)
        BY <2>2, ValidateStep
    <3> QED
        BY <3>1 DEF ValidateEffect
  <2> QED
      BY <2>1, <2>2
<1>4. \A q \in Roots \ todo[t] : q # r => RightFor(next[t][q], cloned[t], q)
    BY <1>1 DEF SerialInv, ComputesRight, Underway
<1>5. next[t][r] \in RootRuntime
    BY <1>2
<1>6. IF Underway(t, r)' THEN ConfigRight(next'[t][r], cloned[t], r)
                         ELSE RightFor(next'[t][r], cloned[t], r)
  <2>1. CASE LoadWorkspace(t)
    <3>1. PICK v \in Views, loads \in BOOLEAN : LoadEffect(t, v, loads)
        BY <2>1, LoadStep
    <3>2. next'[t][r].config = next[t][r].config
        BY <1>5, <3>1 DEF LoadEffect, RootRuntime
    <3>3. pc'[t] = "validate" /\ at'[t] = r /\ next'[t][r].config = next[t][r].config
        BY <2>1, <3>2 DEF LoadWorkspace
    <3> QED
        BY <1>2, <3>3 DEF Underway, ConfigRight
  <2>2. CASE ValidateRoot(t)
    <3>1. PICK files \in Seen(t) :
              next' = [next EXCEPT ![t][r] = [@ EXCEPT
                  !.validated = TRUE,
                  !.complaints = ReportAt[r][next[t][r].config][View(cloned[t], files)]]]
        BY <2>2 DEF ValidateRoot
    <3>2. files = disk
        BY <1>1, <3>1, SeenNow DEF SerialInv
    <3>3. /\ next'[t][r].validated
          /\ next'[t][r].complaints =
                 ReportAt[r][Answer(cloned[t], r)][View(cloned[t], disk)]
        BY <1>2, <1>5, <3>1, <3>2 DEF RootRuntime, ConfigRight
    <3>4. pc'[t] = "config"
        BY <2>2 DEF ValidateRoot
    <3> QED
        BY <1>2, <3>3, <3>4 DEF RightFor, ConfigRight, Underway
  <2> QED
      BY <2>1, <2>2
<1>7. \A q \in Roots : q # r => ~Underway(t, q)'
    BY <1>1 DEF LoadWorkspace, ValidateRoot, Underway
<1>8. ASSUME NEW q \in Roots \ todo'[t]
      PROVE  IF Underway(t, q)' THEN ConfigRight(next'[t][q], cloned[t], q)
                                ELSE RightFor(next'[t][q], cloned[t], q)
  <2>1. CASE q = r
      BY <1>6, <2>1
  <2>2. CASE q # r
      BY <1>1, <1>3, <1>4, <1>7, <2>2
  <2> QED
      BY <2>1, <2>2
<1> QED
    BY <1>1, <1>8, ComputeSerial

LEMMA InstallSerial ==
    ASSUME ServerInv, Undisturbed, NEW t \in Threads, Install(t),
           UNCHANGED <<phase, params, batch, conn>>
    PROVE  /\ ComputesRight'
           /\ UpToDate' => ClonesCurrent' /\ RootsCurrent' /\ CollectsCurrent' /\ ShowsCurrent'
<1> USE DEF ServerInv, LspTypeInv, TypeInv, TypeOK
<1>1. /\ t \in Computing /\ pc[t] = "config" /\ todo[t] = {} /\ pc'[t] = "hook"
      /\ roots' = next[t] /\ UNCHANGED <<documents, disk, timer>>
      /\ \A u \in Threads : u # t => pc'[u] = pc[u]
    BY DEF Install, Computing
<1>2. /\ \A u \in Threads : u # t => pc[u] = "idle"
      /\ \A u \in Threads : phase[u] = "idle"
    BY <1>1, OnlyReload DEF SerialInv
<1>3. Computing' = {}
    BY <1>1, <1>2 DEF Computing
<1>4. \A r \in Roots : RightFor(next[t][r], cloned[t], r)
    BY <1>1 DEF SerialInv, ComputesRight, Underway
<1>5. ASSUME UpToDate' PROVE RootsCurrent'
  <2>1. UpToDate /\ cloned[t] = documents
      BY <1>1, <1>5 DEF UpToDate, SerialInv, ClonesCurrent
  <2> QED
      BY <1>1, <1>4, <2>1 DEF RootsCurrent, RightFor, Answer, View, ReadFile
<1> QED
    BY <1>1, <1>2, <1>3, <1>5 DEF ComputesRight, ClonesCurrent, CollectsCurrent, ShowsCurrent

LEMMA RuntimeSerial ==
    ASSUME ServerInv, Runtime PROVE SerialInv'
<1> USE DEF ServerInv, LspTypeInv, TypeInv, TypeOK
<1>1. UNCHANGED <<session, phase, params, batch, conn>>
    BY DEF Runtime
<1>2. BeforeServing'
    BY <1>1 DEF Runtime, SerialInv, BeforeServing, TimerFires, ReloadStep, CloneDocuments,
       LoadRootConfig, LoadWorkspace, ValidateRoot, Install, Threads
<1>3. UNCHANGED <<disk, writes>>
    BY DEF Runtime, TimerFires, ReloadStep, CloneDocuments, LoadRootConfig, LoadWorkspace,
       ValidateRoot, Install
<1>4. Undisturbed' => Undisturbed /\ OneReload'
    BY <1>1, <1>3 DEF Runtime, Undisturbed, OneReload
<1>5. ASSUME NEW t \in Timers, TimerFires(t)
      PROVE  SerialInv'
  <2>1. t \in Threads /\ pc'[t] = "begin" /\ ~UpToDate'
      BY <1>5 DEF TimerFires, UpToDate, Threads
  <2>2. UNCHANGED <<disk, cloned, todo, at, next, held>>
      BY <1>5 DEF TimerFires
  <2>3. \A u \in Computing' : pc'[u] = pc[u]
      BY <1>5, <2>1 DEF TimerFires, Computing
  <2> QED
      BY <1>2, <1>4, <2>1, <2>2, <2>3, AskedFor
<1>6. ASSUME NEW t \in Threads, ReloadStep(t), Undisturbed
      PROVE  /\ ComputesRight'
             /\ UpToDate' => ClonesCurrent' /\ RootsCurrent' /\ CollectsCurrent' /\ ShowsCurrent'
  <2>1. CASE CloneDocuments(t)
      BY <1>1, <1>6, <2>1, CloneSerial
  <2>2. CASE Install(t)
      BY <1>1, <1>6, <2>2, InstallSerial
  <2>3. CASE LoadWorkspace(t) \/ ValidateRoot(t)
    <3>1. at[t] \in Roots
        BY <2>3 DEF AtRoot, LoadWorkspace, ValidateRoot
    <3> QED
        BY <1>1, <1>6, <2>3, <3>1, AnswerSerial
  <2>4. ASSUME NEW r \in Roots, LoadRootConfig(t, r)
        PROVE  /\ ComputesRight'
               /\ UpToDate' => ClonesCurrent' /\ RootsCurrent' /\ CollectsCurrent'
                               /\ ShowsCurrent'
      BY <1>1, <1>6, <2>4, LoadRootConfigSerial
  <2> QED
      BY <1>6, <2>1, <2>2, <2>3, <2>4 DEF ReloadStep
<1>7. ASSUME NEW t \in Threads, ReloadStep(t)
      PROVE  SerialInv'
    BY <1>2, <1>4, <1>6, <1>7, ReloadSeesDisk DEF SerialInv
<1> QED
    BY <1>5, <1>7 DEF Runtime

(* A hook that takes its snapshot finds roots that are current, and one that *)
(* returns has shown what it had collected.                                  *)
LEMMA PublishSerial ==
    ASSUME ServerInv, NEW t \in Threads, PublishStep(t) PROVE SerialInv'
<1> USE DEF ServerInv, LspTypeInv, LspTypeOK, TypeInv, TypeOK
<1>1. CASE LockPublish(t)
    BY <1>1, RuntimeAlone DEF LockPublish
<1>2. ASSUME NEW p \in Paths, SendDiagnostics(t, p) \/ ClearDiagnostics(t, p)
      PROVE  SerialInv'
    BY <1>2, RuntimeAlone DEF SendDiagnostics, ClearDiagnostics
<1>3. CASE TakeSnapshot(t)
  <2>1. /\ UNCHANGED vars /\ UNCHANGED <<session, conn, batch, overlapped>>
        /\ pc[t] = "hook" /\ params'[t] = Collect(roots, documents)
        /\ \A u \in Threads : u # t => phase'[u] = phase[u] /\ params'[u] = params[u]
      BY <1>3 DEF TakeSnapshot
  <2>2. BeforeServing' /\ (Undisturbed' => Undisturbed) /\ (UpToDate' => UpToDate)
      BY <2>1 DEF vars, SerialInv, BeforeServing, Undisturbed, UpToDate
  <2>3. UNCHANGED <<OneReload, ComputesRight, SeesDisk, ClonesCurrent, RootsCurrent>>
      BY <2>1 DEF vars, OneReload, ComputesRight, SeesDisk, ClonesCurrent, RootsCurrent,
         Computing, Underway, ConfigRight, RightFor, Answer, View, ReadFile
  <2>4. (CollectsCurrent => CollectsCurrent') /\ (ShowsCurrent => ShowsCurrent')
      BY <2>1, CollectSame DEF vars, CollectsCurrent, ShowsCurrent
  <2> QED
      BY <2>2, <2>3, <2>4 DEF SerialInv
<1>4. CASE PublishDone(t) \/ PublishFails(t)
  <2>1. /\ UNCHANGED <<documents, disk, timer, roots, cloned, todo, at, next, held>>
        /\ UNCHANGED <<configFiles, writes, session, conn, overlapped>>
        /\ pc[t] = "hook" /\ pc'[t] = "idle" /\ phase'[t] = "idle" /\ phase[t] = "sending"
        /\ \A u \in Threads : u # t => /\ pc'[u] = pc[u] /\ phase'[u] = phase[u]
                                       /\ params'[u] = params[u]
      BY <1>4 DEF PublishDone, PublishFails, ReturnFromHook, HookReturns
  <2>2. BeforeServing' /\ (Undisturbed' => Undisturbed) /\ (UpToDate' => UpToDate)
      BY <2>1 DEF SerialInv, BeforeServing, Undisturbed, UpToDate
  <2>3. Computing' = Computing /\ (OneReload => OneReload')
      BY <2>1 DEF Computing, OneReload
  <2>4. \A u \in Computing : u # t
      BY <2>1 DEF Computing
  <2>5. (ComputesRight => ComputesRight') /\ (SeesDisk => SeesDisk')
    <3>1. SeesDisk => SeesDisk'
        BY <2>1, <2>3, <2>4 DEF SeesDisk
    <3>2. \A u \in Computing : pc'[u] = pc[u]
        BY <2>1, <2>4 DEF Computing
    <3>3. ComputesRight => ComputesRight'
      <4>1. ASSUME NEW u \in Computing, NEW r \in Roots \ todo[u], ComputesRight
            PROVE  IF Underway(u, r)' THEN ConfigRight(next[u][r], cloned[u], r)'
                                      ELSE RightFor(next[u][r], cloned[u], r)'
        <5>1. Underway(u, r)' = Underway(u, r)
            BY <2>1, <3>2 DEF Underway
        <5>2. ConfigRight(next[u][r], cloned[u], r) => ConfigRight(next[u][r], cloned[u], r)'
            BY <2>1 DEF ConfigRight, Answer, View, ReadFile
        <5>3. RightFor(next[u][r], cloned[u], r) => RightFor(next[u][r], cloned[u], r)'
            BY <2>1 DEF RightFor, Answer, View, ReadFile
        <5> QED
            BY <4>1, <5>1, <5>2, <5>3 DEF ComputesRight
      <4> QED
          BY <2>1, <2>3, <4>1 DEF ComputesRight
    <3> QED
        BY <3>1, <3>3
  <2>6. (ClonesCurrent => ClonesCurrent') /\ (RootsCurrent => RootsCurrent')
      BY <2>1, <2>3 DEF ClonesCurrent, RootsCurrent, RightFor, Answer, View, ReadFile
  <2>7. CollectsCurrent => CollectsCurrent'
      BY <2>1, CollectSame DEF CollectsCurrent
  <2>8. CollectsCurrent => ShowsCurrent'
      BY <1>4, <2>1, CollectSame
      DEF CollectsCurrent, ShowsCurrent, PublishDone, PublishFails
  <2> QED
      BY <2>2, <2>3, <2>5, <2>6, <2>7, <2>8 DEF SerialInv
<1> QED
    BY <1>1, <1>2, <1>3, <1>4 DEF PublishStep

LEMMA SerialInvStep == ServerInv /\ [LspNext]_allVars => SerialInv'
<1> SUFFICES ASSUME ServerInv, [LspNext]_allVars PROVE SerialInv'
    OBVIOUS
<1> USE DEF ServerInv, LspTypeInv, LspTypeOK, TypeInv, TypeOK
<1>1. CASE Initialize \/ HandleShutdown \/ ConnectionLost \/ ReadFails
    BY <1>1, RuntimeAlone DEF Initialize, HandleShutdown, ConnectionLost, ReadFails
<1>2. ASSUME NEW hasParams \in BOOLEAN, HandleExit(hasParams)
      PROVE  SerialInv'
    BY <1>2, RuntimeAlone DEF HandleExit
<1>3. CASE FirstReload
  <2>1. \A t \in Threads : pc[t] = "idle" /\ pc'[t] = IF t = Main THEN "begin" ELSE "idle"
      BY <1>3 DEF FirstReload, FlushReload, SerialInv, BeforeServing
  <2>2. BeforeServing' /\ OneReload' /\ Computing' = {} /\ ~UpToDate'
      BY <1>3, <2>1 DEF FirstReload, BeforeServing, OneReload, Computing, UpToDate, Threads
  <2> QED
      BY <1>3, <2>2, AskedFor DEF FirstReload, FlushReload
<1>4. CASE HandleEdit
  <2>1. PICK p \in Paths, doc \in Document \cup {Closed} : EditBuffer(p, doc)
      BY <1>4, EditTyped DEF HandleEdit
  <2>2. /\ UNCHANGED <<disk, pc, cloned, todo, at, next, held>>
        /\ UNCHANGED <<writes, session, overlapped>>
        /\ session = "serving" /\ timer' = "armed"
      BY <1>4, <2>1 DEF HandleEdit, EditBuffer, ScheduleReload, lspVars
  <2>3. BeforeServing' /\ ~UpToDate' /\ (Undisturbed' => Undisturbed /\ OneReload')
      BY <2>2 DEF SerialInv, BeforeServing, UpToDate, Undisturbed, OneReload
  <2> QED
      BY <2>2, <2>3, AskedFor
<1>5. CASE DiskChanges
  <2>1. writes' = writes + 1 /\ UNCHANGED <<session, timer, pc>>
      BY <1>5 DEF DiskChanges, WriteDisk, lspVars
  <2> QED
      BY <2>1 DEF SerialInv, BeforeServing, Undisturbed
<1>6. CASE UNCHANGED allVars
    BY <1>6, RuntimeAlone DEF allVars, lspVars
<1> QED
    BY <1>1, <1>2, <1>3, <1>4, <1>5, <1>6, RuntimeSerial, PublishSerial DEF LspNext

LEMMA ServerInvInit == LspInit => ServerInv
<1>1. Init => IdleAtNone
    BY DEF Init, IdleAtNone
<1> QED
    BY <1>1, LspTypeInvInit, AgreeInvInit, HidesInvInit, PublishInvInit, SerialInvInit
    DEF LspInit, ServerInv

LEMMA ServerInvStep == ServerInv /\ [LspNext]_allVars => ServerInv'
BY LspTypeInvStep, ServerStep, AgreeInvStep, IdleAtNoneStep, HidesInvStep, PublishInvStep,
   SerialInvStep
DEF ServerInv, LspTypeInv

(* When the runtime rests, reloads have never overlapped and nobody wrote    *)
(* the disk, the client shows what validation says about the buffers as they *)
(* are: the debounce timer, the reload and the hook lose nothing in between. *)
THEOREM ServerConverges == LspSpec => []ConvergesWithoutOverlap
<1>1. ServerInv => ConvergesWithoutOverlap
  <2> SUFFICES ASSUME ServerInv, session = "serving", Quiescent, conn = "up",
                      ~overlapped, writes = 0, NEW p \in Paths
               PROVE  /\ shown[p].about = {r \in Roots : p \in CurrentlyBlamed(r)}
                      /\ shown[p].about # {} => shown[p].version = VersionOf(documents, p)
      BY DEF ConvergesWithoutOverlap
  <2>1. /\ \A t \in Threads : pc[t] = "idle"
        /\ Computing = {} /\ UpToDate /\ Undisturbed
      BY DEF Quiescent, Computing, UpToDate, Undisturbed
  <2>2. publishMu = Nil
      BY <2>1 DEF ServerInv, PublishInv, HoldsMu, Sending, LspTypeInv, LspTypeOK
  <2>3. batch[p] = [version |-> VersionOf(documents, p),
                    about   |-> {r \in Roots : Blames(roots[r], r, p)}]
      BY <2>1 DEF ServerInv, SerialInv, ShowsCurrent, Collect
  <2>4. ASSUME NEW r \in Roots
        PROVE  Blames(roots[r], r, p) <=> p \in CurrentlyBlamed(r)
    <3>1. RightFor(roots[r], documents, r)
        BY <2>1 DEF ServerInv, SerialInv, RootsCurrent
    <3> QED
        BY <3>1 DEF RightFor, Answer, Blames, CurrentlyBlamed
  <2>5. /\ shown[p].about = batch[p].about
        /\ batch[p].about # {} => shown[p] = batch[p]
      BY <2>2 DEF ServerInv, PublishInv, ClientShowsOneSnapshot
  <2> QED
      BY <2>3, <2>4, <2>5
<1> QED
    BY <1>1, ServerInvInit, ServerInvStep, PTL DEF LspSpec
=============================================================================
