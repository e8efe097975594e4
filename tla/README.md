# TLA+ models of mergeway-cli

mergeway-cli keeps small databases in YAML and JSON files: a configuration
declares entity types, includes say which files hold their objects, and the
tools list, change, validate, compare and serve them. This directory models the
parts of the program where the order of steps, the shape of the files or the
interleaving of threads and processes decides whether the result is right.

Modules are checked with TLC on the instances below, and the safety properties
that matter most are proved with TLAPS for all instances.

## The system

| Component | State | Operations | Interacts with |
|---|---|---|---|
| overlay runtime, `internal/workspace/overlays.go` | open buffers, debounce timer, one `RootRuntime` per root | `DidOpen`, `DidChange`, `DidClose`, `FlushReload`, `reload` on timer goroutines, `Snapshot` | reads files through an overlay; calls the reload hook |
| LSP server, `internal/lsp/server.go` | `initialized`, `shutdownRequested`, exit code, the runtime | one message at a time from `Run`'s loop | the runtime; the client |
| LSP diagnostics, `internal/lsp/diagnostics.go` | `publishMu`, `publishedPaths` | `publishWorkspaceDiagnostics`, as reload hook | snapshot of the runtime; writes to the client |
| LSP requests, `internal/lsp/{semantic,navigation,code_actions}.go` | none | completion, hover, definition, ... | read one root of the runtime |
| workspace, `internal/workspace/{roots,service}.go` | the roots and the files they own, an index | `OpenRoots`, load, validate | config loader, store, validation |
| object store, `internal/data` | none but the files | list, get, create, update, delete | config types; the file system |
| config, `internal/config` | cache and stack of one load | recursive includes, merge, inheritance, JSON schema import | the file system |
| validation, `internal/validation` | objects and indexes of one run | format, schema and reference phases | the same files as the store, by its own loader |
| diff, `internal/diff`, `internal/diffcmd` | two snapshots | load from git or the working tree, compare objects | git, its own schema loader, the working tree |
| MCP, `internal/mcp`, `internal/mcpcmd` | root and allow-list | read-only tools, HTTP server with shutdown | workspace service |
| formatter and `fmt`, `internal/format`, `internal/cli/fmt.go` | none | rewrites files in canonical order | file system |
| other commands, `internal/cli` | none | init, config, entity, export, gen-erd, list-files, validate | all of the above |

What makes each of them correct, and hard:

- **Overlay runtime.** Timers cannot be taken back once they have fired, reloads
  overlap, and each reads the disk several times while it changes. No edit may
  be lost, roots must show one set of buffers, open buffers must hide the disk.
- **LSP server and diagnostics.** Hooks of overlapping reloads publish through
  one connection that may fail in the middle. What the client shows must be
  clearable, must be one snapshot, and must in the end be the truth.
- **Object store.** There is no index and no lock: every command walks the
  includes, files have been written by hand, other processes write them too,
  and a process may be killed between truncating a file and filling it.
  Commands must behave like operations on a map, whatever is in the files.
- **Config.** A cached recursion over files and a memoised one over types, both
  written by the user; diamonds and cycles must be judged right, and what the
  store takes for granted of a hierarchy must follow.
- **Validation.** A second reader of the same files, with an order of types that
  Go leaves open in its first phase; what it accepts the store must be able to
  load, and what it refuses must be wrong.
- **Diff.** The unstaged view lays a working tree over a commit file by file,
  with two schemas, while the user goes on working.
- **MCP.** Several reads in one call, files changing in between, an allow-list
  that must hold whatever happens to the configuration, and a shutdown that
  races running calls.
- **`fmt`.** Many files one after the other, written back from what was read
  before.

## Modules

| Module | What it is |
|---|---|
| `OverlayRuntime` | the runtime and its reloads: state, actions, properties |
| `OverlayRuntime_proofs` | five theorems about it |
| `LspServer` | extends `OverlayRuntime` with the message loop and the publishing hook |
| `LspServer_proofs` | six theorems about it, on top of `OverlayRuntime_proofs` |
| `ObjectMap` | what the store's commands promise: a map, no files |
| `ObjectStore` | the store on files of any shape, a command at a time; implements `ObjectMap` |
| `ObjectStore_proofs` | five theorems about it, the refinement among them, and what its operators find, keep and write |
| `StoreProcesses` | extends `ObjectStore`: several processes, commands and `fmt` step by step, crashes |
| `StoreProcesses_proofs` | six theorems about it, on top of `ObjectStore_proofs` |
| `ConfigLoad` | the loader: include recursion, inheritance graph, resolution of types |
| `ConfigLoad_proofs` | six theorems about it, all its properties |
| `Validation` | extends `ObjectStore`: the three phases over the files the store reads |
| `Validation_proofs` | three theorems about it, all its properties |
| `LogicalDiff` | the diff, over a git repository that changes meanwhile |
| `LogicalDiff_proofs` | four theorems about it, all its properties |
| `McpService` | extends `ObjectMap`: calls of the MCP server, and its shutdown |
| `McpService_proofs` | two theorems about `ObjectMap` and four about `McpService` |
| `MC...` | for each of these (but `ObjectMap`, whose commands run in `McpService`), the instances for TLC |

### OverlayRuntime

A thread is the one that calls the runtime (`Main`) or a goroutine of
`time.AfterFunc` (`Timers`; as many may run at once as the constant has
elements). `pc` says where it is in `reload`:

| Action | Code |
|---|---|
| `DidOpen`, `DidChange`, `DidClose` | the methods; entry and timer change in one critical section |
| `FlushReload` | stops the timer; `Main` then goes through `reload` like any other thread |
| `TimerFires` | the goroutine starts; the field `timer` stays set, as in the code |
| `CloneDocuments` | first critical section of `reload` |
| `LoadRootConfig`, `LoadWorkspace`, `ValidateRoot` | the three calls per root, each of which reads the disk anew |
| `Install` | second critical section |
| `HookReturns` | the hook, if any, and the return |
| `WriteDisk` | another process |

The loaders are not modelled here but taken as any functions of what they see of
all the files (`View`): `ConfigAt` is the configuration or the error of a config
load, with the files it was put together from (`SourcesOf`) or that its error
names, `LoadsAt` whether the workspace loads with that configuration, `ReportAt`
the files validation complains of. So an included configuration, a file that
does not parse and ends validation, or an object that another file refers to,
each on disk only, decides about an answer as it does in the code. A call reads one
file after another: `held` has what each file has held since the call began, and
the call may see any of these of each file (`Seen`). Two reads of one file in one
call see the same. JSON schemas (`SchemaFiles`) are read by `os.ReadFile`, past the
overlay. `ValidateWithConfigAndOps` can return an error of its own only for a nil
configuration or a root that `filepath.Abs` rejects, which `reload` never passes; the
workspace that it loads is not used. Ghost variables (`edits`, `stamp`,
`newest`, `installed`, `overtaken`, and `basis` and `stamp` in a
`RootRuntime`) say which buffers a result came from; no guard of the code
reads them. `StartDisks`, `MaxEdits` and `MaxWrites` bound a run.

### LspServer

`Run`'s loop handles a message only when the handler before it has returned,
which `Reading` states. `Initialize` and `FirstReload` are the two halves of
`handleInitialize`. The reload hook is `TakeSnapshot` (no lock), `LockPublish`,
`SendDiagnostics` and `ClearDiagnostics` (one file each, in any order, as Go
ranges over a map), then `PublishDone`, or `PublishFails` when a write fails.
A message carries the version of the buffer as it was when the snapshot was
taken. A load error is put at a config file that its text names, or else at the config
entry (`Located`). The client is the variable `shown`. The connection can be lost at any
time. A handler that needs a runtime is not enabled without one: the code
answers with an error and changes nothing.

### ObjectStore and ObjectMap

The disk maps a path to a file that does not parse, a single object, or a list.
Reading is a set of operators: `Positions` orders the items of all includes the
way the loops meet them, `FindInType` is the first that matches or the first
that fails, `AllEntries` and `AllLoads` are `list`. Writing is three operators,
`CreateWrites`, `UpdateWrites` and `DeleteWrites`, which give the path and the
new content, or nothing when the code returns an error before the write. A
command is one action. Kept on purpose: a file named after an identifier is
overwritten whatever is in it, a single object where a list is expected is
written back unchanged, updates drop the `type` of a single object, the error
for derived fields comes after the write. Properties are about objects: of a list
file a write keeps the type and the items, and other keys beside them, which the
code loses (`fileio.go:132`), are not in the model. Nor is the check that each item a
selector finds has the type of the include (`fileio.go:91`); such a file would fail to
load.

`ObjectMap` has no files. Under the refinement mapping an object is in the map
when `FindInType` finds it, and it is fixed when no command may change it
(inline, read by a selector, outside the root for a `$path` type, shadowed by
an error).
`reply` records the command with its payload, so that the refinement says which
fields an object must have afterwards, and not only that some object changed.

### StoreProcesses

Every process runs one command after another, each with a program counter `pc`
and a `plan`: the file it is about to write, what it has seen there and what it
will write. The operators of `ObjectStore` say what a command reads and writes;
this module says when.

| Action | Code |
|---|---|
| `StartCommand` | a command line is run |
| `LookForPlace`, `LoadTarget` | `Create`: the look-up in the hierarchy and the choice of a file; then that file is read again |
| `FindObject` | `Update` and `Delete` up to the write |
| `Truncate`, `Fill` | the two halves of `os.WriteFile` |
| `RemoveFile` | `removeFile` |
| `StartFmt`, `FmtRead`, `FmtRename` | `fmt`: the files tracked, then for each the read and the rename of `writeAtomic` |
| `Crash` | the process is killed; a file being filled is left torn |

`fmt` sorts the items of a list by the first field called `id`, `name`, `slug`
or `key`, whatever field identifies the type; `SortRank` is that order. Its files
are a set gone through in the order of `PathOrder`, and a place in the sorted list
(`Place`) is the number of items that go before.

It also sorts every other list that is called `items`, however deep in the fields of
an object; `Tidied` is what becomes of fields.

A process that has truncated a file is `attached` to it until it has written, or
until the path gets another file or none, in which case it writes to a file nobody
sees. What it writes begins at the first byte. If another command has written there
since, the end of the longer text stays behind the shorter one: `Overlaid` is what
may come of it, the new file alone, one that does not parse, or an object with fields of
the other. A torn file, in `Torn`, is empty, cut off in the middle of a line, a
list up to an item that may have lost fields, or such an object, because YAML reads
all but one of these; `PartlyOverlaid` is what a kill leaves of a file that another
command has written. `overtaken`, `crashedAt` and `contested` are ghosts: which
commands another process wrote beside, where a process was killed, and where two
were filling a file at once.

Not modelled: a value or a key that is cut in its middle and still reads as one,
which is a field value that nobody wrote; two texts that run together in one line; a
write that fails for want of space; and the temporary file of `fmt`, which stands
beside the data while it is written and may match a glob.

### ConfigLoad

`frames` is the stack of running calls of `loadRecursive`, `cache` its cache,
`calls` the stack of `visit` and then of `resolve`. `UseCached`, `EnterFile` and
`ReturnFile` are the branches of `loadRecursive`; `Visit`, `Visited` and
`AllVisited` are `validateInheritanceCycles`, `CallResolve` and `Resolve` the
recursion around `normalizeTypeDefinition`, `CheckReferences` the last pass.
The recursion over files and over types is thus the model's own behaviour, and
what it computes is compared with closures that are defined without it
(`WellIncluded`, `IsA`): `Reached` is the least set that has a file or a type
and, with any member, what that includes or extends. What a frame has still to
load is a set of places, each an include and the rank of a match among the
names in their order; the loops take the foremost one (`Foremost`).

### Validation

`stage` is the phase. `Collect` reads the files of any type that is left, since
the code ranges over a map there. `CheckObject` and `CheckReferences` judge one
object a step, the foremost of those that are `left` (`Earlier`): the types go by
name, the objects of one as they were read. `raw` are the objects that were
collected, each with its type and its place, `index` those in which the schema phase
has found no error, `seen` the values of unique fields. `FormatVerdict`,
`SchemaVerdict` and `ReferenceVerdict` are the ends of the phases, with what
fail-fast and the choice of phases make of them. Another process may write a file
between the types (`Edit`); `atStart` is a ghost with the files as they were. What
the phases find is compared with a declarative reading of the same files
(`FormatRight`, `SchemaRight`, `ReferencesRight`), and with `ObjectStore`,
instantiated on them. An object without data (`NoData`), without an identifier, with one that
is not in `Matching`, or with one that is taken is refused before its fields are looked
at (`Refusal`). Two errors of one field with the same message, such as those of a
repeated reference, are one. Not modelled: an include that is listed twice, a write
between two files of one type, and a file that vanishes after it was listed, which
the code reports as an error of the run.

### LogicalDiff

`head`, `parent`, `index` and `work` are the trees of the repository. A run is `Resolve`,
which only checks that the arguments are revisions and keeps their text,
`LoadSchema` twice, `Discover` (which loads both schemas again), then per side
`Open`, which asks git for the list of changed files, and for one file after
another `ReadFile` and, if git has it, `ShowFile` (`git cat-file -e` and `git show`),
and `Compare`. Between any two of these the user writes, moves, stages and
commits. Every git call resolves a revision anew (`Resolved`): `Tip`, that is HEAD or the
branch, and `Back`, HEAD~1, are other commits after a commit, and `ShowFile` fails if the
file is gone by then. Names of commits stay what they are. `touched` is a ghost: the files of the two snapshots
that changed during the run. `Document` is what the schema collector reads of a
file, `Collect` its recursion over what the documents include, down from the
configuration file. `ConfigFiles` are the files that this may read.

Loading one schema is a step, and so are the two git calls of `Open`. A branch that is
deleted during the run is left out, and so are names that git quotes (`core.quotePath`),
two patterns of one type that match a file twice, which the code reports as a
collision, and the type check of each item that a selector finds.

### McpService

A call is `Connect`, `Ask`, `LoadConfig`, `LoadType` (the workspace load, which goes
through all types, hidden ones too, and for each through the types that may stand for it,
only to see that they load and have no identifier twice), `Choose` and `ReadType` per
type asked for, the types going by name. A configuration is a record of its
types, the family of each, the types a definition names and the files its
includes match; `cfg` is the one a call has loaded, and the call reads by it whatever
becomes of the configuration. `named` are the types that an answer names: those of
the objects, the ancestors, descendants and reference types in the definition of
`entity_show`, or those that the text of an error may name. The server is `ServeFails`,
`Cancel`, `Drained` and `Deadline`: the branches of `runHTTP`. Objects are changed by
the commands of `ObjectMap`, the configuration and the files by `EditConfig` and
`EditFiles`. `quiet` is a ghost: nothing has changed since the call loaded the
configuration.

A command here is a process that has all includes, so that it may change objects that
the configuration of a call does not match. Reading the files of one type is a step. The
inline data of a configuration does not change, and connections that `Shutdown` waits for
without a request of their own (kept alive, or in the backlog) are left out, as is
`files_list`.

Definitions whose comment begins with "Mutant of" are plausible bugs. No
specification uses them; each is put in the place of the definition it names to
see that a property notices.

## Runs

| Run | Instance | Shows |
|---|---|---|
| `OverlayRuntime_roots` | 2 roots sharing a data file, one including the configuration of the other, 2 threads, 2 edits, 1 write | `TypeOK`, `RootsAgree`, `OverlayHidesDisk`, `RegressOnlyIfOvertaken` |
| `OverlayRuntime_stale` | 1 root, 3 threads, 2 edits | violates `RootsTrackBuffers` |
| `LspServer_publish` | 1 root; its entry, an included config, a JSON schema and a data file; 3 threads, 2 edits | `LspTypeOK`, `PublishedPathsExact`, `ClientShowsOneSnapshot`, `ConvergesWithoutOverlap` |
| `LspServer_rest` | 1 root, 1 file, 3 threads, 2 edits, 1 write | `NoLostEdit`; under fairness `ServerComesToRest` and `EveryEditIsInstalled` |
| `ObjectStore_refines` | 2 types: glob, list, selector, inline; 4 identifiers, three of them with a file of their own; commands without bound | `ImplementsObjectMap` |
| `ObjectStore_anydisk` | 3 types, one with `$path`; one command on each of 980 workspaces | `ListAgreesWithGet`, `ChangesKeepOthers`, `NoNewDuplicates` |
| `ObjectStore_lost` | the same | violates `CreatedIsFound` |
| `StoreProcesses` | 2 processes, 3 commands or runs of `fmt`, 5 files, one of them outside the root, and a file where a derived field fails | `ProcTypeOK`, `RacelessCommandsAreAtomic`, `OwnFilesKept`, `TornOnlyByCommands`, `FmtKeepsObjects`, `PathTypesStayInRoot` |
| `ConfigLoad` | every include graph of 3 files with up to two patterns each; every inheritance graph of 3 types in it, with faulty types beside | `LoadTypeOK`, `IncludesJudgedRight`, `RecursionEnds`, `InheritanceJudgedRight`, `ResolvedAgainstAncestors`, `StoreMayRely` |
| `Validation` | 4 types, 4 files of every shape, 4 choices of phases, 1 write by another process | `ValidationTypeOK`, `VerdictOfOneMoment`, `CleanMeansStoreWorks` |
| `LogicalDiff` | 2 commits as HEAD, HEAD~1 and index in every combination, 5 files (2 of the configuration), every combination of revisions, 2 changes by the user | `DiffTypeOK`, `TruthAboutUntouched`, `StagedIsInvisible`, `PatchRestores` |
| `McpService` | a call of any tool and a connection without one, 3 types, 2 of them allowed, 3 configurations, 2 changes | `McpTypeOK`, `AnswersStayVisible`, `QuietAnswersAreSnapshots`; under fairness `StopsWhenTold` |

What the deeper ones say:

- `OverlayHidesDisk` says that what is installed for a root is an answer for the
  buffers that the reload cloned: each of its calls answered as for some files that
  agree with every open buffer. The disk decides about the files that were not open
  (`ConfigAt` and its like are arbitrary functions of them), and about JSON schemas.
- `RacelessCommandsAreAtomic` is a refinement in the small: a command that no
  other process writes beside does in its many steps exactly what the one step
  of `ObjectStore` does, so that what is shown of that module holds for real
  commands. `OwnFilesKept` says what races and crashes cannot cost: an object in
  a file of its own is safe from commands on other objects, and `fmt` puts it in
  order and no more. `TornOnlyByCommands` says what a torn file takes: a command that is
  filling it, a kill, or two commands that filled it at once.
- `FmtKeepsObjects` says that an object that can be found is found in the same file
  after `fmt`, with its fields, but for the order of lists called `items` in them.
- `IncludesJudgedRight` and `InheritanceJudgedRight` say that the two recursions
  refuse exactly the ill-formed graphs, `StoreMayRely` that a configuration which
  loads has what the constants of `ObjectStore` assume of it.
- `VerdictOfOneMoment` is soundness and completeness of validation at once, where the
  documentation and the code agree (`DocsDiffer` says where they do not), and
  `CleanMeansStoreWorks` the agreement of two readers written apart.
- `TruthAboutUntouched` says that the diff reports every object of either
  snapshot as what has become of it, if need be beside files that change, by the
  user's hand or because a commit moves HEAD or the branch;
  `PatchRestores` that its entries lose nothing.
- `QuietAnswersAreSnapshots` says that a call beside which nothing changes from its
  load of the configuration on answers with the workspace as it is, and fails
  exactly when what it asks for is not there, is hidden, or does not load. A shorter time
  is not enough: the store of a call takes the includes from the configuration that it
  has loaded.
- `AnswersStayVisible` says that no answer has an object of a hidden type, though
  every call loads these too, and that an answer for everything has all that is
  allowed. It is about objects: the text of an error, and the definition of an allowed
  type, may name hidden ones.

**Bounds.** Every race of the runtime needs at most two reloads beside the one
that settles things; three threads and two edits have them all. Two texts per
file are enough to tell a result from its predecessor. What a bad or a missing file
does depends on the others: an included configuration fails the roots that include it, a
data file hides the complaints about references. Timers may be exchanged with each
other, and so may the processes of `StoreProcesses`, which the symmetry sets use. The
server finds a good workspace in `OverlayRuntime_roots` and `LspServer_rest`, and one of
several in the others; the theorems are about any. The store's
workspaces have every kind of include, both shapes, a file that does not parse,
one that declares another type, an empty list, an object without identifier and
repeated identifiers. A command reads nothing but the disk, so one command on
any disk (`OneCommandSpec`) says what any sequence does; `ObjectStore_refines`
runs sequences without bound on the finitely many workspaces that can be
reached. Races in `StoreProcesses` are between two writers of one file, with a
third command to see what they left. In `ConfigLoad` three files make the
smallest diamond and the cycles of each length, three types a chain with a
grandparent. `Validation` has pairs of types in each relation (same, parent and
child, unrelated, `$path`). A single write makes a run see the files as they were or as
they are; after two it may have seen what they never were, and nothing is
claimed of it. `LogicalDiff` begins with any of its commits staged, so that two more changes
reach every difference between commit, index and working tree, moves half staged, and a
commit during the run. One call is enough for `McpService`, as calls share nothing but what
they read; the connection beside it is one that a shutdown waits for.

**Deadlock.** It is checked where the program can always go on, and in
`ConfigLoad`, `Validation` and `LogicalDiff`, whose runs end in a state that
says so (`Ended`, `Returned`, `Rest`): every run reaches it. It is not checked
in the LSP runs and `McpService`, where the server stops, nor in
`OneCommandSpec` and `StoreProcesses`, where the processes end after their
commands.

**Fairness.** `LspFairSpec` asks that an expired timer fires, that every
goroutine in `reload` and its hook is scheduled, which is what the Go runtime
gives, and that `Run` continues the handler it is in; nothing is asked of edits,
the disk or callers of `FlushReload`. Weak fairness is enough for `publishMu`:
only finitely many publishers can overtake. `McpSpec` asks only that `Shutdown`
notices that its connections or its five seconds have ended; calls may take any
time. `Cancel` happens in a program that cancels the context it passes in;
`main.go` passes one that is never done, and is stopped by a signal.

**What the code does not do.** Two runs end in a counterexample, and
`PROJECT.json` quotes the text that each contradicts.

- `RootsTrackBuffers`: a reload that cloned old buffers can install after one
  that cloned new ones. Nothing recomputes the roots until the next edit.
- `CreatedIsFound`: creating into a list file that holds a single object
  reports success and writes the single object back without the new one.

The following were met on the way. They are in the models, as the code has them,
and the properties are stated so as to exclude exactly these; or, where it says
so, they are outside the models.

- *Language server.* The snapshot is taken before `publishMu`, so that the older
  of two may be sent last. Diagnostics computed from an old buffer can carry the
  version of the new one (`diagnostics.go:111`, against the comment at
  `overlays.go:47`).
- *Store.* `create` overwrites the file named after its identifier even if
  another object has been put there by hand. A derived field that does not fit
  the path fails `create` and `update` after the write. Only `$path` types are
  kept inside the root (`store_ops.go:369`, against the command references
  `create.md:43` and `delete.md:44`).
- *Processes.* Two commands on one list file: the second write loses what the
  first changed. If both have truncated it before either writes, the file may hold
  the end of one text behind the other and not parse, with both commands reporting
  success (`TornOnlyByCommands` names the case). `fmt` sorts lists that are called `items`
  in the fields of an object too. `fmt` undoes a change made between its read and its rename, and
  brings a removed file back. `fmt` keeps the first YAML document of a file only
  (outside the model). As `fmt` does not sort by the identifier of the type, it
  can change which of two objects of one identifier is found, or put an object
  that does not load before the others; `FmtKeepsObjects` is for workspaces in
  which `id`, `name`, `slug` or `key` comes first and is the identifier
  (`SortsByIdentifier`).
- *Config.* The check that a field derived from the path goes with no inline
  data looks at a type's own fields: a child with inline data inherits such a
  field unnoticed (`normalize.go:258`, against `schema-spec.md:182`).
- *Validation.* An object that is both inline and in a file is reported as a
  duplicate although `schema-spec.md:216` says that the file wins. With
  `--phase schema` alone, format errors are not shown and end the run
  (`validate.go:38`, against `cli-behavior.md:62`). `VerdictOfOneMoment` excludes both
  (`DocsDiffer`): it neither calls them right nor wrong. References in defaults and within object properties are
  not checked. An absolute include is joined to the root (`collect.go:151`); the
  store takes it as it is. An empty file of a type with derived fields ends in a
  write to a nil map (outside the model).
- *Diff.* The unstaged view lists the working tree but reads files without
  unstaged changes from HEAD (`diff_data_loader.go:217`, against `diff.md:32`):
  what is staged is left out only as far as the listing agrees. A move that is
  half staged shows one object in two files, which is an error. A commit during a run
  moves HEAD and the branch under it, and one side may mix two commits
  (`diff_snapshots.go:74`). The
  root is taken for the top of the repository.
- *MCP.* A type that is not allowed and does not load fails every call, with an error
  that names it. An export during a change may mix two moments (`server.go:138` speaks
  of a snapshot), and a call that loaded the configuration before an edit of the includes
  answers by the old ones.

## Proofs

Every theorem is for all values of the constants: any number of threads,
processes, calls, roots, files, types, identifiers and payloads. The theorems
assume what the modules' named assumptions say of the constants, and some of
them one more hypothesis, which is an operator of the module with a comment on
what it asks for; the MC modules `ASSUME` each of these, so that TLC evaluates it
on the instance.

### The runtime and the language server

`OverlayRuntime_proofs`; the invariants build on each other:

| Theorem | Inductive invariant | Why it is needed |
|---|---|---|
| `TypeCorrect` | `TypeInv` = `TypeOK` and a thread that loads or validates is at a root | `next[t][at[t]]` is updated there |
| `LosesNoEdit` | `PendingInv`: stamps never exceed `newest`, `newest` never `edits`; when they differ a timer is armed or a reload begins; the newest result is being computed or installed | `NoLostEdit` says nothing of a thread that is overtaken |
| `RootsAlwaysAgree` | `AgreeInv`: what a reload has computed so far carries the buffers it cloned | `Install` takes all of it at once |
| `RegressesOnlyIfOvertaken` | `OrderInv`: a running reload that nobody has overtaken is not behind any root | gives the action property at `Install` |
| `OpenBuffersHideDisk` | `HidesInv`: every call of a running reload has answered as for some files that agree with the cloned buffers, for the roots computed so far and the one underway | each call sees a mixture of its own of what the files have held, and the loaders may be any functions of it |

`LspServer_proofs` begins with the refinement `ServerImplementsRuntime`: a step of
the server is a step of the runtime or leaves it alone. So whatever is proved of
the runtime holds of the server (`ServerLosesNoEdit`), and `AgreeInv` and `HidesInv`
may be used in the rest:

| Theorem | Inductive invariant | Why it is needed |
|---|---|---|
| `LspTypeCorrect` | `LspTypeInv` | |
| `PublishedPathsAreExact`, `ClientAlwaysShowsOneSnapshot` | `PublishInv`: `publishMu` is held by exactly the hook that sends (`HoldsMu`), and the client shows what that hook has sent so far (`SentSoFar`) | a publication is many steps and may fail at each |
| `ServerConverges` | `SerialInv`: as long as no reloads overlapped and nobody wrote the disk, at most one reload runs, and what it computes is right for the buffers it cloned; unless an edit waits for a reload, what was cloned, installed, collected and shown is right for the buffers as they are | an edit may arrive at any step; the chain from buffer to client has four links, each of which may be the stale one |

### The store

`ObjectStore_proofs` are about what the operators do on any disk. `FirstOfIsFirst`
is where induction comes in: of any positions there is a first, by a least element
in each coordinate (`HasLeast`).

| Theorem | Argument |
|---|---|
| `StoreTypeCorrect` | what is written is a file of one of the shapes, for each of the three operators that write |
| `ListAgrees` | a look-up stops at the first position with the key or without one; if list loads there is none without, so both see the same objects. It holds of every disk, no invariant is needed |
| `ChangesKeep` | the rewriting of one file keeps an object if it keeps, for each identifier, the first item that stops the look-up (`Keeps`, `KeptByRewrite`); update and delete do (`UpdateKeeps`, `DeleteKeeps`). Assumes `Unshared`: no two types have a file in common |
| `NoDuplicates` | the places of an identifier correspond to items of files (`Held`), update and delete add none, and create adds one only if there was none in the hierarchy. Assumes `Unshared` and `CreatesApart`: what a glob names for an identifier is not a file of another type |
| `StoreImplementsMap` | every command on a disk that is `Tidy` is an action of `ObjectMap` or changes nothing, and leaves the disk `Tidy` (`OrderStep`). A look-up in a tidy workspace finds the object's one place or none (`FoundWhere`), so that `objects` and `fixed` can be read off the files; a rewriting that changes one item changes one object (`OneObjectChanges`). Assumes `WellLaidOut`, and that the workspace is tidy to begin with |

`Tidy` says of the files: those of a type can be read and their items have
identifiers; no identifier has two objects in a hierarchy, in files or inline;
what `create` would write to is a list, or holds no other object. `WellLaidOut`
says of the configuration, besides the two conditions above, that a file read by a
selector is read by selectors only, that inline data repeats no identifier in a
hierarchy, and that what `create` writes is matched by an include, derives every
field and is no other identifier's file. On other layouts the store is not a map:
a created object may not be found (`CreatedIsFound`), an error in one file hides
the objects behind it, and two identifiers that make the same file name overwrite
each other. `MCObjectStore` assumes both of the instance that `ObjectStore_refines`
runs, so TLC evaluates them there.

Without `CreatesApart` the claim of `NoDuplicates` is false: a glob's file name for an identifier
need not match the glob, but may match the include of another type, where the
object then counts. That came out of the proof; the instance of the run satisfies
it. So did two errors in earlier forms of the model, in what a refused command and
a delete answer.

`StoreProcesses_proofs` have one inductive invariant, `ProcInv`: a process that is
about to write has a plan, the plan's content is a whole file of one of the shapes,
a plan of `fmt` is the formatted copy of what it has seen, and a plan for a `$path`
type is inside the root. On top of it:

| Theorem | Beyond `ProcInv` | Assumes |
|---|---|---|
| `ProcTypeCorrect` | | |
| `PathTypesInRoot` | a write is to the file of a plan, and a plan is made where the root was checked | |
| `TornByCommands` | a whole content is not torn, so a torn file was left by `Truncate`, by `Crash`, or by a `Fill` over what another command had written since (`contested`) | `NothingTorn`: no file is torn to begin with, no payload is empty |
| `CommandsAreAtomic` | `RaceInv`: the plan of a process beside which nobody wrote is what the command of `ObjectStore` would write on the files as they were before its own `Truncate` (`Settled`) | |
| `OwnFilesAreKept` | `OwnInv`: every file, and every planned content, holds only the identifier the file is for; two such files laid over each other do, too | `Orderly`: which file is whose does not depend on the history |
| `FmtKeeps` | every item has one place in the sorted list (`PlaceIsInjective`, by counting), and of the items a look-up may stop at the first stays the first, with its fields tidied (`FormattedKeeps`) | `SortsByIdentifier` |

### The configuration

`ConfigLoad_proofs` shows every property of the run, for any files, whatever they
include, and any types, whatever they extend. Nothing is assumed but that the
orders of names list all of them and that documents are of their types. A set
that is closed under a relation has what is reached from its members
(`ReachedByClosed`): the closures are least closed sets, and this is the induction
the proofs need.

| Theorem | Inductive invariant | Why it is needed |
|---|---|---|
| `IncludesAreJudgedRight` | `LoadInv`: the cache is closed under inclusion, what is in it is in order and its aggregate has what is reached (`CacheInv`); a frame has merged what its file includes at the places it has been to, and every frame is reached from those below it (`StackInv`) | the verdict is about everything the root reaches, a step about one file. A cycle is found on the stack because what is in the cache cannot reach a running file |
| `TheRecursionEnds`, `InheritanceIsJudgedRight` | `WalkInv`: the calls lead from a type to its ancestors, the visited types have visited parents and are not their own ancestors | a cycle is refused where it closes, which may be far from where the walk began |
| `LoadTypeCorrect`, `ResolvedFromAncestors`, `TheStoreMayRely` | `TypesInv`: a resolved type has all its ancestors resolved, one identifier with them, its ancestors and fields are those of its family, and no field comes from two of them | what the store relies on is about ancestors, `Resolve` sees the parent |

### The map and the MCP service

The first two theorems of `McpService_proofs` are about `ObjectMap`: type correctness and that identifiers stay unique
within a hierarchy, for any hierarchies; it needs that types of one hierarchy
share it (`HierarchyAssumption`) and have the same identifiers
(`KeysAssumption`). `TheStoreMayRely` of `ConfigLoad_proofs` is what justifies
these two.

The others begin with the refinement `ServiceOnlyReads`: for the map, all
that calls and server do is stuttering. The inductive invariant is `McpInv`, which says of
each call, by where it is:

| Part | Says | Why it is needed |
|---|---|---|
| `Waiting`, `Loading` | what has been loaded are types of the configuration of the call, those of one family at a time; if nothing has changed since, it is still the configuration, and what is loaded parses | a broken file of any type, asked for or not, must be met, and nothing else may fail the load |
| `Reading` | what is read and what is left are the types asked for, none refused; if nothing has changed, what is read is still there | an answer is put together from reads at different moments |
| `Done` | an answer with objects is one for types that were asked for and not refused | |

With nothing changed no load fails for an identifier in two types, because the map has
none (`MapKeysUnique`, in `FamilyApart`). From `McpInv` come `McpTypeCorrect`, `AnswersAreVisible`
and `QuietAnswersSnapshot`, which compares an answer with what the configuration and the objects
are at that moment (`Answerable`).

### The diff

`LogicalDiff_proofs` shows every property of the run, for any repository, any
configurations and any number of changes by the user. Nothing is assumed but
that contents have the shape of a configuration or of data, and that the names
are ordered. The inductive invariant is `DiffInv`:

| Part | Says | Why it is needed |
|---|---|---|
| `TreeInv` | the four trees are files with contents, and a file outside `ConfigFiles` never holds configuration | a write by the user to a data file must not change a schema |
| `RunInv` | the order of a run: two schemas, the left files, the right files | the comparison needs all of them |
| `ResultInv` | a run that is done has failed, or its result is what the comparison makes of the schemas and files it has (`Outcome`) | `DiffTypeOK` and `PatchRestores` follow from it |
| `ReadInv` | what has been read of a file that nobody touched is what the snapshot has, the list of changed files is right for it, and git has the file it is about to show | the list is asked for once per side, the files are read one by one after that, each by two git calls |
| `SchemaInv` | as long as nobody touches the configuration, the schemas are those of the snapshots, the paths are the files they include, and only the comparison can fail, or `ShowFile` after a commit | the schemas are loaded twice, and the files are looked for on both sides at once |

`DiffTellsTheTruth` then compares a database of the files that were read with one
of the whole snapshot: what no include is for adds nothing (`SameDatabase`), and an
object of a file that is the same in both is the same object (`SameOccurrence`). That
an object has at most one place on a side makes its entry unique (`EntriesKeyed`) and
right (`KindsAre`). For `DiffHidesStaged` the two schemas must be equal: they are
collected from the same documents (`SchemaIs`, `DocumentsAgree`). What the recursion of `Collect`
computes is never needed, only what it depends on; whether it judges includes
right is a question that `ConfigLoad` answers for the loader of the other tools, and
TLC for this one on the instance.

### Validation

`Validation_proofs` shows every property of the run, for any configuration, any
files and any options. `ValidationIsTyped` needs no more than the assumptions on the
constants. The theorems on the verdict assume `RunsInRoot`, that validation and store
look for the files in the same places, and are about runs with `AtMostOneWrite`: none,
or one to a file that is read for one type only (`FilesApart`). With two writes, or one
to a file of two types, validation may put together what the files never were, and the
claim is false. The verdict itself is claimed where the documentation and the code agree
(`DocsDiffer`); what the code tells of the rest is `Told`, in the proofs.

The inductive invariant is `ValidationInv`: the types, and a moment `d`, the start or
now, of which everything the run has found is true (`MomentInv`). A run that sees no
write is about both; a write decides which of them it is, by whether the file was
read before (`EditKeepsMoment`).

| Part of `MomentInv` | Says | Why it is needed |
|---|---|---|
| `CollectInv` | the files that are still to be read are those of `d`; there is no error exactly if those of the types read so far are in order, and then the objects are theirs | the write may come between any two types, in any order |
| `SchemaInv` | without an error so far, the index and the values seen are those of all objects that were checked, and these are right among themselves; with one, the whole is not right | an object with an error does not stand in the way of the next one of its identifier, but its unique values do |
| `ReferencesInv` | the index has all objects; there is no error exactly if what was checked refers to one object each | |

It rests on three lemmas that compare what is written twice. The two readers agree
on which files are in order and on the objects in them (`FormatIsRightForT`,
`ReadObjectsAreObjectsAt`). Looking for a conflict only among the types that come
before, through the indexes of ancestors, finds every repeated identifier of a
hierarchy (`ConflictsAreOfHierarchies`); that needs a topmost type in each hierarchy
(`ConfigAssumption`) and that no two types have one name. And in files without a
fault the store lists, gets and resolves everything (`RightMeansStoreWorks`); this
says nothing of a run and is where a look-up that stops at the first bad item is
shown to have none before it. `CleanRunMeansStoreWorks` puts it together with
the invariant.

### Only model-checked

Liveness (`ServerComesToRest`, `EveryEditIsInstalled`, `StopsWhenTold`) is out of the
prover's reach, like `ENABLED`. Every invariant and every other action property that
a passing run checks is a theorem. What the recursive definitions compute is
checked on the instances only; the proofs use what they depend on.

## Not modelled

- The answers to completion, hover, definition and the other LSP requests, code
  actions, and the positions of diagnostics in a file: functions of one root of
  a snapshot, with no state of their own.
- JSON schema import beyond whether it succeeds and which fields it yields
  (`BadSchema`); its recursive `$ref` is listed as a hazard.
- The order of keys and the layout that `fmt` gives a file. That it reorders the
  lists called `items`, at any depth, and which files it writes, is in `StoreProcesses`.
- The output of commands and of the diff; export, gen-erd, list-files, init,
  config lint and the entity commands, which read once and print.
- The stdio transport of the MCP server, which ends with its input, and
  `files_list`, which reads no object.
- The content of fields is a value out of a small set; nested maps, which
  `mergeMaps` merges recursively, are one level deep, and a merge within a
  nested map is not told from its replacement.
- Other tools that write into the root, except where `WriteDisk`, `Edit`,
  `EditFiles` and the user of `LogicalDiff` stand for them.

## Plan

What the runs check is proved as far as the prover goes. What is left is to model
more: validation a file at a time, with a file that vanishes between listing and
reading; the answers of the language server to requests during a reload; and the
conversion of JSON schemas.
