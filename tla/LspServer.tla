----------------------------- MODULE LspServer -----------------------------
(***************************************************************************)
(* The language server around the overlay runtime: the lifecycle messages, *)
(* handled one at a time by Run's loop on the thread Main, and the reload  *)
(* hook, which publishes diagnostics on the thread that ran the reload.    *)
(*                                                                         *)
(* publishWorkspaceDiagnostics takes a snapshot of the runtime, turns it   *)
(* into one message per file, and only then takes publishMu and sends: the *)
(* hooks of overlapping reloads may send in another order than they looked.*)
(***************************************************************************)
EXTENDS OverlayRuntime

(* Nil also stands for no thread.                                           *)
ASSUME NoThreadAssumption == Nil \notin Threads

VARIABLES
    session,     \* "new", "opened" (OpenRoots has run), "serving", "stopped"
    shutdownRequested,
    exitCode,
    conn,        \* the transport: "up" or "down"; a failed write stays failed
    phase,       \* where each thread is in its reload hook
    params,      \* the message per file each hook has collected
    left,        \* the files each hook has still to send
    publishMu,   \* the thread that holds publishMu, Nil when it is free
    publishedPaths,
    shown,       \* the client's last message per file
    batch,       \* ghost: the messages of the last hook that sent them all
    overlapped   \* ghost: two reloads have been running at once

lspVars == <<session, shutdownRequested, exitCode, conn, phase, params, left,
             publishMu, publishedPaths, shown, batch, overlapped>>

allVars == <<vars, lspVars>>

(* A PublishDiagnosticsParams: the document version it claims, 0 for none,   *)
(* and the roots that have something to say about the file.                  *)
Message == [version : Nat, about : SUBSET Roots]

(* documentVersion.                                                         *)
VersionOf(docs, p) == IF docs[p] # Closed THEN docs[p].version ELSE 0

(* resolveLoadErrorPath: a config file of the index that the error text      *)
(* names, or else the config entry.                                         *)
Located(r, mentions) ==
    LET named == configFiles[r] \cap mentions
    IN  IF named = {} THEN ConfigOf[r] ELSE CHOOSE p \in named : TRUE

(* Mutant of Blames: a root without a report is skipped.                     *)
Blames_ReportOnly(runtime, r, p) == runtime.validated /\ p \in runtime.complaints

(* collectRootDiagnostics: a report's complaints; the load error only when   *)
(* there is no report.                                                      *)
Blames(runtime, r, p) ==
    IF runtime.validated THEN p \in runtime.complaints
                         ELSE runtime.loadErr /\ p = Located(r, runtime.mentions)

(* collectSnapshotDiagnostics.                                              *)
Collect(runtimes, docs) ==
    [p \in Paths |->
        [version |-> VersionOf(docs, p),
         about   |-> {r \in Roots : Blames(runtimes[r], r, p)}]]

Silent == [version |-> 0, about |-> {}]

NoParams == [p \in Paths |-> Silent]

(* The files a message is sent for, and those only a clear can be sent for.  *)
Blamed(messages) == {p \in Paths : messages[p].about # {}}

LspInit ==
    /\ Init
    /\ session = "new"
    /\ shutdownRequested = FALSE
    /\ exitCode = 1
    /\ conn = "up"
    /\ phase = [t \in Threads |-> "idle"]
    /\ params = [t \in Threads |-> NoParams]
    /\ left = [t \in Threads |-> {}]
    /\ publishMu = Nil
    /\ publishedPaths = {}
    /\ shown = NoParams
    /\ batch = NoParams
    /\ overlapped = FALSE

---------------------------------------------------------------------------
(* Run's loop, one message at a time.                                       *)

(* The loop reads the next message when the last handler has returned.      *)
Reading == session \in {"new", "serving"} /\ pc[Main] = "idle"

(* handleInitialize up to the unlock.  It answers "already initialized" to   *)
(* a second call, and leaves the session new when OpenRoots fails.           *)
Initialize ==
    /\ Reading
    /\ session = "new"
    /\ session' = "opened"
    /\ shutdownRequested' = FALSE
    /\ exitCode' = 1
    /\ UNCHANGED <<vars, conn, phase, params, left, publishMu, publishedPaths,
                   shown, batch, overlapped>>

(* The rest of handleInitialize: reload and publish before replying.        *)
FirstReload ==
    /\ session = "opened"
    /\ session' = "serving"
    /\ FlushReload
    /\ UNCHANGED <<shutdownRequested, exitCode, conn, phase, params, left,
                   publishMu, publishedPaths, shown, batch, overlapped>>

(* handleDidOpen, handleDidChange, handleDidClose ask only for a runtime:    *)
(* they go on changing buffers after a shutdown request.                     *)
HandleEdit ==
    /\ Reading
    /\ session = "serving"
    /\ Edit
    /\ UNCHANGED lspVars

(* Run returns when the reply cannot be written.                             *)
HandleShutdown ==
    /\ Reading
    /\ session = "serving"
    /\ shutdownRequested' = TRUE
    /\ session' = IF conn = "up" THEN session ELSE "stopped"
    /\ UNCHANGED <<vars, exitCode, conn, phase, params, left,
                   publishMu, publishedPaths, shown, batch, overlapped>>

(* Mutant of HandleExit: an exit code of its own for bad params.             *)
HandleExit_Usage(hasParams) ==
    /\ Reading
    /\ session' = "stopped"
    /\ exitCode' = IF hasParams THEN 2
                   ELSE IF shutdownRequested THEN 0 ELSE 1
    /\ UNCHANGED <<vars, shutdownRequested, conn, phase, params, left,
                   publishMu, publishedPaths, shown, batch, overlapped>>

(* An exit with params stops the server as well, with the exit code it had.  *)
HandleExit(hasParams) ==
    /\ Reading
    /\ session' = "stopped"
    /\ exitCode' = IF hasParams THEN exitCode
                   ELSE IF shutdownRequested THEN 0 ELSE 1
    /\ UNCHANGED <<vars, shutdownRequested, conn, phase, params, left,
                   publishMu, publishedPaths, shown, batch, overlapped>>

(* The client goes away: writes fail from now on, and Run returns when it    *)
(* reads next.                                                               *)
ConnectionLost ==
    /\ conn = "up"
    /\ conn' = "down"
    /\ UNCHANGED <<vars, session, shutdownRequested, exitCode, phase, params,
                   left, publishMu, publishedPaths, shown, batch, overlapped>>

ReadFails ==
    /\ Reading
    /\ conn = "down"
    /\ session' = "stopped"
    /\ UNCHANGED <<vars, shutdownRequested, exitCode, conn, phase, params,
                   left, publishMu, publishedPaths, shown, batch, overlapped>>

(* The files may change while the server runs; what they were before it      *)
(* started is in the initial state.                                          *)
DiskChanges ==
    /\ session # "new"
    /\ \E p \in Paths, text \in Texts \cup {Absent} : WriteDisk(p, text)
    /\ UNCHANGED lspVars

Runtime ==
    /\ \/ \E t \in Timers : TimerFires(t)
       \/ \E t \in Threads : ReloadStep(t)
    /\ UNCHANGED <<session, shutdownRequested, exitCode, conn, phase, params,
                   left, publishMu, publishedPaths, shown, batch>>
    /\ overlapped' = \/ overlapped
                     \/ \E t, u \in Threads : t # u /\ pc'[t] # "idle" /\ pc'[u] # "idle"

---------------------------------------------------------------------------
(* The reload hook: publishWorkspaceDiagnostics.                            *)

(* Snapshot, under the runtime's mutex, and collect, without any.           *)
TakeSnapshot(t) ==
    /\ pc[t] = "hook"
    /\ phase[t] = "idle"
    /\ phase' = [phase EXCEPT ![t] = "collected"]
    /\ params' = [params EXCEPT ![t] = Collect(roots, documents)]
    /\ UNCHANGED <<vars, session, shutdownRequested, exitCode, conn, left,
                   publishMu, publishedPaths, shown, batch, overlapped>>

(* Mutant of LockPublish: publishMu is not waited for.                       *)
LockPublish_NoWait(t) ==
    /\ phase[t] = "collected"
    /\ publishMu' = t
    /\ phase' = [phase EXCEPT ![t] = "sending"]
    /\ left' = [left EXCEPT ![t] = Blamed(params[t])]
    /\ UNCHANGED <<vars, session, shutdownRequested, exitCode, conn, params,
                   publishedPaths, shown, batch, overlapped>>

LockPublish(t) ==
    /\ phase[t] = "collected"
    /\ publishMu = Nil
    /\ publishMu' = t
    /\ phase' = [phase EXCEPT ![t] = "sending"]
    /\ left' = [left EXCEPT ![t] = Blamed(params[t])]
    /\ UNCHANGED <<vars, session, shutdownRequested, exitCode, conn, params,
                   publishedPaths, shown, batch, overlapped>>

(* One iteration of the first loop: send, then remember the file.           *)
SendDiagnostics(t, p) ==
    /\ phase[t] = "sending"
    /\ p \in left[t]
    /\ conn = "up"
    /\ shown' = [shown EXCEPT ![p] = params[t][p]]
    /\ publishedPaths' = publishedPaths \cup {p}
    /\ left' = [left EXCEPT ![t] = @ \ {p}]
    /\ UNCHANGED <<vars, session, shutdownRequested, exitCode, conn, phase,
                   params, publishMu, batch, overlapped>>

(* Mutant of ClearDiagnostics: the file is cleared and not forgotten.        *)
ClearDiagnostics_Keeps(t, p) ==
    /\ phase[t] = "sending"
    /\ left[t] = {}
    /\ p \in publishedPaths \ Blamed(params[t])
    /\ conn = "up"
    /\ shown' = [shown EXCEPT ![p] = [params[t][p] EXCEPT !.about = {}]]
    /\ UNCHANGED <<vars, session, shutdownRequested, exitCode, conn, phase,
                   params, left, publishMu, publishedPaths, batch, overlapped>>

(* One iteration of the second loop: clear a file that was published and     *)
(* has nothing to its name any more.                                         *)
ClearDiagnostics(t, p) ==
    /\ phase[t] = "sending"
    /\ left[t] = {}
    /\ p \in publishedPaths \ Blamed(params[t])
    /\ conn = "up"
    /\ shown' = [shown EXCEPT ![p] = [params[t][p] EXCEPT !.about = {}]]
    /\ publishedPaths' = publishedPaths \ {p}
    /\ UNCHANGED <<vars, session, shutdownRequested, exitCode, conn, phase,
                   params, left, publishMu, batch, overlapped>>

(* Mutant of ReturnFromHook: no unlock.                                      *)
ReturnFromHook_KeepsLock(t) ==
    /\ HookReturns(t)
    /\ phase' = [phase EXCEPT ![t] = "idle"]
    /\ params' = [params EXCEPT ![t] = NoParams]
    /\ left' = [left EXCEPT ![t] = {}]
    /\ UNCHANGED <<session, shutdownRequested, exitCode, conn, publishMu,
                   publishedPaths, shown, overlapped>>

(* The deferred unlock, and the return from the hook and from reload.       *)
ReturnFromHook(t) ==
    /\ HookReturns(t)
    /\ publishMu' = Nil
    /\ phase' = [phase EXCEPT ![t] = "idle"]
    /\ params' = [params EXCEPT ![t] = NoParams]
    /\ left' = [left EXCEPT ![t] = {}]
    /\ UNCHANGED <<session, shutdownRequested, exitCode, conn, publishedPaths,
                   shown, overlapped>>

PublishDone(t) ==
    /\ phase[t] = "sending"
    /\ left[t] = {}
    /\ publishedPaths \subseteq Blamed(params[t])
    /\ batch' = params[t]
    /\ ReturnFromHook(t)

(* A write fails: the rest of both loops is skipped, the error is logged.   *)
PublishFails(t) ==
    /\ phase[t] = "sending"
    /\ conn = "down"
    /\ left[t] # {} \/ ~(publishedPaths \subseteq Blamed(params[t]))
    /\ UNCHANGED batch
    /\ ReturnFromHook(t)

PublishStep(t) ==
    \/ TakeSnapshot(t)
    \/ LockPublish(t)
    \/ \E p \in Paths : SendDiagnostics(t, p) \/ ClearDiagnostics(t, p)
    \/ PublishDone(t)
    \/ PublishFails(t)

LspNext ==
    \/ Initialize
    \/ FirstReload
    \/ HandleEdit
    \/ HandleShutdown
    \/ \E hasParams \in BOOLEAN : HandleExit(hasParams)
    \/ ConnectionLost
    \/ ReadFails
    \/ DiskChanges
    \/ Runtime
    \/ \E t \in Threads : PublishStep(t)

(* The runtime's timers and goroutines are scheduled, and Run's loop goes on  *)
(* with the handler it is in.  Weak fairness is enough for publishMu: only   *)
(* finitely many publishers can take it first.                               *)
LspFairness ==
    /\ WF_allVars(FirstReload)
    /\ WF_allVars(\E t \in Timers : TimerFires(t) /\ Runtime)
    /\ \A t \in Threads : WF_allVars(ReloadStep(t) /\ Runtime)
    /\ \A t \in Threads : WF_allVars(PublishStep(t))

LspSpec == LspInit /\ [][LspNext]_allVars

LspFairSpec == LspSpec /\ LspFairness

---------------------------------------------------------------------------
(* Properties.                                                              *)

LspTypeOK ==
    /\ TypeOK
    /\ session \in {"new", "opened", "serving", "stopped"}
    /\ shutdownRequested \in BOOLEAN
    /\ exitCode \in {0, 1}
    /\ conn \in {"up", "down"}
    /\ phase \in [Threads -> {"idle", "collected", "sending"}]
    /\ params \in [Threads -> [Paths -> Message]]
    /\ left \in [Threads -> SUBSET Paths]
    /\ publishMu \in Threads \cup {Nil}
    /\ publishedPaths \subseteq Paths
    /\ shown \in [Paths -> Message]
    /\ batch \in [Paths -> Message]
    /\ overlapped \in BOOLEAN

(* publishedPaths is exactly the set of files the client shows something     *)
(* for, at every step of every publisher and after a write that failed in    *)
(* the middle: no message is left on the screen that nobody will clear.      *)
PublishedPathsExact == publishedPaths = Blamed(shown)

(* Between publishers the client shows the whole of one snapshot: never a    *)
(* mixture of two, and never a file's message from a snapshot before it.     *)
ClientShowsOneSnapshot ==
    publishMu = Nil /\ conn = "up" =>
        \A p \in Paths : shown[p].about = batch[p].about
                         /\ (batch[p].about # {} => shown[p] = batch[p])

(* The answer for the buffers and the files as they are.                    *)
CurrentlyBlamed(r) ==
    LET view == View(documents, disk)
        answer == ConfigAt[r][view]
    IN  IF answer \in Configs THEN ReportAt[r][answer][view]
                              ELSE {Located(r, answer.mentions)}

(* When the runtime rests, reloads have never overlapped and nobody wrote    *)
(* the disk behind the server's back, the client shows what validation says  *)
(* about the buffers as they are, with the versions the client sent.         *)
ConvergesWithoutOverlap ==
    /\ session = "serving" /\ Quiescent /\ conn = "up"
    /\ ~overlapped /\ writes = 0
    => \A p \in Paths :
           /\ shown[p].about = {r \in Roots : p \in CurrentlyBlamed(r)}
           /\ shown[p].about # {} => shown[p].version = VersionOf(documents, p)

(* Every edit reaches the client: once the server serves, it comes to rest   *)
(* with the result of every edit published, or the session or the connection *)
(* ends.                                                                     *)
ServerComesToRest ==
    [](session = "serving" =>
          <>(\/ Quiescent /\ installed = edits
             \/ session = "stopped" \/ conn = "down"))
=============================================================================
