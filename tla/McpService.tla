----------------------------- MODULE McpService -----------------------------
(***************************************************************************)
(* The MCP server over HTTP: read-only tools over the objects of the       *)
(* workspace, for the entity types of an allow-list.                       *)
(*                                                                         *)
(* Every call loads the configuration and then the whole workspace anew,   *)
(* hidden types included, only to see that they load, and then reads the   *)
(* types it was asked for, one after the other, where the configuration it *)
(* has loaded says.  Meanwhile commands change the objects, as in          *)
(* ObjectMap, and the user edits the configuration and the data files.     *)
(* Calls run side by side; nothing is locked.  Reading the files of one    *)
(* type is one step.  files_list, which reads no object, is left out.      *)
(***************************************************************************)
EXTENDS ObjectMap, Sequences, FiniteSets

CONSTANTS
    Calls,         \* the calls clients make
    Requests,      \* Requests[c]: what call c may ask for: [tool, want, key]
    TypeOrder,     \* TypeOrder[n]: the n-th type by name
    Allowed,       \* the allow-list; when empty, all types are allowed
    Configs,       \* the configurations the user may write
    Unloadable,    \* one that does not load, and that of a call without one
    NoRequest,     \* a call that has not been made
    MaxChanges     \* a bound: how often objects, configuration and files change

(* "entity_list", "entity_show", "object_list", "object_get" or              *)
(* "repository_export"; an export of no types is one of all.                 *)
ASSUME RequestsAssumption ==
    /\ \A r \in UNION {Requests[c] : c \in Calls} :
           /\ r.want \subseteq Types
           /\ r.tool \notin {"entity_list", "repository_export"} => Cardinality(r.want) = 1
           /\ r.tool = "object_get" => \A t \in r.want : r.key \in Keys[t]
    /\ TypeOrder \in Seq(Types)
    /\ {TypeOrder[n] : n \in DOMAIN TypeOrder} = Types
    /\ Allowed \subseteq Types

(* The types of a configuration; the type itself and those that extend it;   *)
(* the types that the definition of a type names; and the identifiers in the  *)
(* files that its includes match.                                           *)
ASSUME ConfigsAssumption ==
    \A v \in Configs :
        /\ v # Unloadable
        /\ v.types \subseteq Types
        /\ \A t \in v.types :
               /\ t \in v.family[t] /\ v.family[t] \subseteq v.types \cap HierarchyOf[t]
               /\ v.family[t] \subseteq v.mentions[t] /\ v.mentions[t] \subseteq v.types
               /\ v.included[t] \subseteq Keys[t]

VARIABLES
    config,        \* the configuration
    broken,        \* the objects in whose files there is something that does not parse
    pc,            \* pc[c]: what call c does next
    request,       \* what it was asked
    cfg,           \* the configuration it has loaded
    todo,          \* the types it has still to load, or to read
    seen,          \* the identifiers it has seen in the family it is loading
    got,           \* what it has read of each type for its answer
    named,         \* the types that its answer names, or may name if it is an error
    ok,            \* whether it has answered without an error
    quiet,         \* nothing has changed since it loaded the configuration
    server,        \* "serving", "draining" or "stopped"
    changes        \* how much has changed

callVars == <<pc, request, cfg, todo, seen, got, named, ok, quiet>>
dataVars == <<objects, fixed, reply, config, broken, changes>>
vars == <<dataVars, callVars, server>>

---------------------------------------------------------------------------
(* isEntityAllowed.                                                         *)
IsEntityAllowed(t) == Allowed = {} \/ t \in Allowed

VisibleEntityNames(types) == {t \in types : IsEntityAllowed(t)}

(* Types are gone through by name.                                          *)
FirstByName(types) ==
    TypeOrder[CHOOSE n \in DOMAIN TypeOrder :
                 /\ TypeOrder[n] \in types
                 /\ \A m \in 1 .. (n - 1) : TypeOrder[m] \notin types]

(* Mutant of ObjectsOf: the objects of the hierarchy are listed too.          *)
ObjectsOf_Family(v, t) ==
    [k \in {k \in v.included[t] : \E u \in v.family[t] : objects[<<u, k>>] # Missing} |->
        objects[<<CHOOSE u \in v.family[t] : objects[<<u, k>>] # Missing, k>>]]

(* loadExactAll: the objects of the type itself, in the files its includes     *)
(* match.                                                                   *)
ObjectsOf(v, t) ==
    [k \in {k \in v.included[t] : objects[<<t, k>>] # Missing} |-> objects[<<t, k>>]]

(* One of the files of t does not parse.                                     *)
BrokenIn(v, t) == \E k \in v.included[t] : <<t, k>> \in broken

NothingRead == [t \in {} |-> Missing]

(* The server has loaded the configuration once, to check the allow-list.     *)
McpInit ==
    /\ MapInit /\ fixed = {}
    /\ config \in {v \in Configs : Allowed \subseteq v.types} /\ broken = {}
    /\ pc = [c \in Calls |-> "none"]
    /\ request = [c \in Calls |-> NoRequest]
    /\ cfg = [c \in Calls |-> Unloadable]
    /\ todo = [c \in Calls |-> {}]
    /\ seen = [c \in Calls |-> NothingRead]
    /\ got = [c \in Calls |-> NothingRead]
    /\ named = [c \in Calls |-> {}]
    /\ ok = [c \in Calls |-> FALSE]
    /\ quiet = [c \in Calls |-> FALSE]
    /\ server = "serving"
    /\ changes = 0

---------------------------------------------------------------------------
(* A call.                                                                  *)

(* A connection, on which a request will come; not after the listener is     *)
(* closed.                                                                  *)
Connect(c) ==
    /\ pc[c] = "none" /\ server = "serving"
    /\ pc' = [pc EXCEPT ![c] = "connected"]
    /\ UNCHANGED <<dataVars, request, cfg, todo, seen, got, named, ok, quiet, server>>

Ask(c) ==
    /\ pc[c] = "connected"
    /\ \E r \in Requests[c] : request' = [request EXCEPT ![c] = r]
    /\ pc' = [pc EXCEPT ![c] = "config"]
    /\ UNCHANGED <<dataVars, cfg, todo, seen, got, named, ok, quiet, server>>

(* An answer that names these types; that of an error is its text.            *)
Answered(c, success, types) ==
    /\ pc' = [pc EXCEPT ![c] = "answered"]
    /\ ok' = [ok EXCEPT ![c] = success]
    /\ named' = [named EXCEPT ![c] = types]
    /\ todo' = [todo EXCEPT ![c] = {}]

Failed(c, types) ==
    /\ Answered(c, FALSE, types)
    /\ got' = [got EXCEPT ![c] = NothingRead]

(* loadState: config.Load, which may complain of any type ...                *)
LoadConfig(c) ==
    /\ pc[c] = "config"
    /\ quiet' = [quiet EXCEPT ![c] = TRUE]
    /\ IF config = Unloadable
       THEN Failed(c, Types) /\ UNCHANGED cfg
       ELSE /\ cfg' = [cfg EXCEPT ![c] = config]
            /\ todo' = [todo EXCEPT ![c] = config.types]
            /\ pc' = [pc EXCEPT ![c] = "load"]
            /\ UNCHANGED <<got, named, ok>>
    /\ UNCHANGED <<dataVars, request, seen, server>>

(* ... and workspace.Load, which for every type, also one that is not allowed,  *)
(* loads those that may stand for it, it first, and wants no identifier in two *)
(* of them.                                                                 *)
LoadType(c) ==
    /\ pc[c] = "load" /\ todo[c] # {}
    /\ LET t     == FirstByName(todo[c])
           rest  == cfg[c].family[t] \ DOMAIN seen[c]
           u     == IF t \in rest THEN t ELSE FirstByName(rest)
           keys  == DOMAIN ObjectsOf(cfg[c], u)
           twice == {w \in DOMAIN seen[c] : seen[c][w] \cap keys # {}}
       IN  IF BrokenIn(cfg[c], u)
           THEN Failed(c, {t, u}) /\ UNCHANGED seen
           ELSE IF twice # {}
           THEN Failed(c, {t, u} \cup twice) /\ UNCHANGED seen
           ELSE /\ IF rest = {u}
                   THEN /\ todo' = [todo EXCEPT ![c] = @ \ {t}]
                        /\ seen' = [seen EXCEPT ![c] = NothingRead]
                   ELSE /\ seen' = [seen EXCEPT ![c] =
                              [w \in DOMAIN @ \cup {u} |-> IF w = u THEN keys ELSE @[w]]]
                        /\ UNCHANGED todo
                /\ UNCHANGED <<pc, got, named, ok>>
    /\ UNCHANGED <<dataVars, request, cfg, quiet, server>>

(* resolveRequestedEntities and requireVisibleEntity, when they are errors.   *)
Refused(c) == \E t \in request[c].want : t \notin cfg[c].types \/ ~IsEntityAllowed(t)

(* Mutant of Requested: the allow-list is taken as it is.                    *)
Requested_AllowList(c) ==
    IF request[c].want # {} THEN request[c].want
    ELSE IF Allowed = {} THEN cfg[c].types ELSE Allowed

(* Mutant of Requested: an export of everything forgets the allow-list.       *)
Requested_Everything(c) ==
    IF request[c].want = {} THEN cfg[c].types ELSE request[c].want

(* Their answer.                                                            *)
Requested(c) ==
    IF request[c].want = {} THEN VisibleEntityNames(cfg[c].types) ELSE request[c].want

(* EntityList and EntityShow need no more than the configuration; the         *)
(* definition of a type names its ancestors, its descendants and the types    *)
(* that its fields refer to.  A refusal names what was asked for.             *)
Choose(c) ==
    /\ pc[c] = "load" /\ todo[c] = {}
    /\ IF Refused(c)
       THEN Failed(c, request[c].want)
       ELSE IF request[c].tool = "entity_show"
       THEN Answered(c, TRUE, UNION {cfg[c].mentions[t] : t \in Requested(c)}) /\ UNCHANGED got
       ELSE IF request[c].tool = "entity_list" \/ Requested(c) = {}
       THEN Answered(c, TRUE, Requested(c)) /\ UNCHANGED got
       ELSE /\ todo' = [todo EXCEPT ![c] = Requested(c)]
            /\ pc' = [pc EXCEPT ![c] = "read"]
            /\ UNCHANGED <<got, named, ok>>
    /\ UNCHANGED <<dataVars, request, cfg, seen, quiet, server>>

(* What the call wants of the objects of t as they are.                      *)
Wanted(c, t) ==
    LET there == ObjectsOf(cfg[c], t)
    IN  IF request[c].tool = "object_get"
        THEN [k \in {request[c].key} \cap DOMAIN there |-> there[k]]
        ELSE there

(* ObjectList, ObjectGet and RepositoryExport, which fails when one of its     *)
(* types does.  ObjectGet may find nothing, or the object before it comes to a *)
(* file that does not parse.                                                *)
ReadType(c) ==
    /\ pc[c] = "read"
    /\ LET t      == FirstByName(todo[c])
           wanted == Wanted(c, t)
           get    == request[c].tool = "object_get"
       IN  \/ /\ BrokenIn(cfg[c], t) \/ (get /\ DOMAIN wanted = {})
              /\ Failed(c, {t})
           \/ /\ IF get THEN DOMAIN wanted # {} /\ <<t, request[c].key>> \notin broken
                  ELSE ~BrokenIn(cfg[c], t)
              /\ got' = [got EXCEPT ![c] =
                     [u \in DOMAIN @ \cup {t} |-> IF u = t THEN wanted ELSE @[u]]]
              /\ IF todo[c] = {t} THEN Answered(c, TRUE, DOMAIN got'[c])
                 ELSE todo' = [todo EXCEPT ![c] = @ \ {t}] /\ UNCHANGED <<pc, named, ok>>
    /\ UNCHANGED <<dataVars, request, cfg, seen, quiet, server>>

(* The client is gone.                                                      *)
Disconnect(c) ==
    /\ pc[c] = "connected"
    /\ pc' = [pc EXCEPT ![c] = "closed"]
    /\ UNCHANGED <<dataVars, request, cfg, todo, seen, got, named, ok, quiet, server>>

Call(c) ==
    \/ Connect(c)
    \/ Ask(c)
    \/ LoadConfig(c)
    \/ LoadType(c)
    \/ Choose(c)
    \/ ReadType(c)
    \/ Disconnect(c)

---------------------------------------------------------------------------
(* The server: runHTTP.                                                     *)

Open == {c \in Calls : pc[c] \notin {"none", "answered", "closed"}}

(* Run returns, with an error or without one.                                *)
Return == server' = "stopped" /\ UNCHANGED <<dataVars, callVars>>

(* Serve comes back with an error of the listener.                           *)
ServeFails == server = "serving" /\ Return

(* ctx is done: Shutdown closes the listener ...                             *)
Cancel ==
    /\ server = "serving"
    /\ server' = "draining"
    /\ UNCHANGED <<dataVars, callVars>>

(* ... waits for the connections ...                                        *)
Drained == server = "draining" /\ Open = {} /\ Return

(* Mutant of Deadline: Shutdown has no deadline.                             *)
Deadline_Never == FALSE /\ UNCHANGED vars

(* ... for five seconds.                                                    *)
Deadline == server = "draining" /\ Open # {} /\ Return

Server == ServeFails \/ Cancel \/ Drained \/ Deadline

---------------------------------------------------------------------------
(* The rest of the world.                                                   *)

Change ==
    /\ changes < MaxChanges
    /\ changes' = changes + 1
    /\ quiet' = [c \in Calls |-> FALSE]
    /\ UNCHANGED <<pc, request, cfg, todo, seen, got, named, ok, server>>

(* A process that has loaded a configuration with all the includes.           *)
Command == Change /\ MapNext /\ UNCHANGED <<config, broken>>

EditConfig ==
    /\ Change
    /\ config' \in (Configs \cup {Unloadable}) \ {config}
    /\ UNCHANGED <<mapVars, broken>>

EditFiles ==
    /\ Change
    /\ \E ref \in Refs :
           broken' = IF ref \in broken THEN broken \ {ref} ELSE broken \cup {ref}
    /\ UNCHANGED <<mapVars, config>>

World == Command \/ EditConfig \/ EditFiles

McpNext == (\E c \in Calls : Call(c)) \/ Server \/ World

(* The timer of the shutdown runs, and the scheduler does; a call may take    *)
(* any time.                                                                *)
McpSpec == McpInit /\ [][McpNext]_vars /\ WF_vars(Drained) /\ WF_vars(Deadline)

---------------------------------------------------------------------------
(* Properties.                                                              *)

(* A call reads only types of the configuration it has loaded, however the    *)
(* allow-list, which was checked when the server started, compares with it.  *)
McpTypeOK ==
    /\ MapTypeOK
    /\ \A c \in Calls :
           /\ cfg[c] # Unloadable =>
                  DOMAIN got[c] \cup DOMAIN seen[c] \cup todo[c] \subseteq cfg[c].types
           /\ cfg[c] = Unloadable => DOMAIN got[c] \cup todo[c] = {}
           /\ pc[c] = "read" => todo[c] # {}
           /\ ok[c] => pc[c] = "answered"

(* No answer has an object of a type that is not allowed, though every call   *)
(* loads these too.  Only the definition that entity_show gives of an allowed *)
(* type, and the text of an error, may name them.  An answer for everything is *)
(* one for all that are allowed, by the configuration of that call.           *)
AnswersStayVisible ==
    \A c \in Calls :
        /\ \A t \in DOMAIN got[c] : IsEntityAllowed(t)
        /\ ok[c] /\ request[c].tool # "entity_show" => \A t \in named[c] : IsEntityAllowed(t)
        /\ ok[c] /\ request[c].want = {} => named[c] = VisibleEntityNames(cfg[c].types)

(* The identifiers of the objects in the files that the includes of t match.  *)
There(t) == {k \in config.included[t] : objects[<<t, k>>] # Missing}

(* The configuration loads and everything in it; what is asked for is there   *)
(* and allowed.                                                             *)
Answerable(c) ==
    /\ config # Unloadable
    /\ \A t \in config.types : ~BrokenIn(config, t)
    /\ \A t \in request[c].want :
           /\ t \in config.types /\ IsEntityAllowed(t)
           /\ request[c].tool = "object_get" => request[c].key \in There(t)

(* If nothing changes from the moment on at which it loads the configuration,  *)
(* a call fails only for a reason that is still there, and otherwise answers   *)
(* with the objects as they are, each under its own type.  It takes all of     *)
(* that time: an edit of the includes after it makes the answer one of the    *)
(* includes before, and an export may mix two moments.                       *)
QuietAnswersAreSnapshots ==
    [][\A c \in Calls :
          pc'[c] = "answered" /\ pc[c] # "answered" /\ quiet'[c] =>
              /\ ok'[c] <=> Answerable(c)
              /\ \A t \in DOMAIN got'[c] :
                     /\ DOMAIN got'[c][t] =
                            IF request[c].tool = "object_get" THEN {request[c].key} ELSE There(t)
                     /\ \A k \in DOMAIN got'[c][t] : got'[c][t][k] = objects[<<t, k>>]]_vars

(* A server that is told to stop stops, whatever its calls do.                *)
StopsWhenTold == server = "draining" ~> server = "stopped"
=============================================================================
