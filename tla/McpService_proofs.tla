-------------------------- MODULE McpService_proofs --------------------------
(* Proofs about ObjectMap, for any types, identifiers and fields, and about  *)
(* McpService, for any calls and allow-list besides, and without a bound on   *)
(* what changes meanwhile.                                                  *)
EXTENDS McpService, FiniteSetTheorems, WellFoundedInduction, TLAPS

(* A nonempty set of numbers has a least element: induction in a form the     *)
(* provers can use.                                                         *)
LEMMA HasLeast ==
    ASSUME NEW S \in SUBSET Nat, S # {}
    PROVE  \E n \in S : \A m \in S : n <= m
<1> DEFINE R == {pair \in Nat \X Nat : pair[1] < pair[2]}
<1>1. IsWellFoundedOn(R, Nat)
    BY NatLessThanWellFounded DEF OpToRel
<1>2. \A m, n \in Nat : <<m, n>> \in R <=> m < n
    OBVIOUS
<1> HIDE DEF R
<1>3. PICK n \in S : \A m \in S : <<m, n>> \notin R
    BY <1>1, WFMin
<1>4. \A m \in S : ~(m < n)
    BY <1>2, <1>3
<1> QED
    BY <1>4

---------------------------------------------------------------------------
(* The map.                                                                 *)

(* A reference of a type of t's hierarchy.                                   *)
LEMMA HierarchyRefs ==
    ASSUME NEW t \in Types, NEW u \in HierarchyOf[t], NEW k \in Keys[t]
    PROVE  u \in Types /\ k \in Keys[u] /\ t \in HierarchyOf[u]
                       /\ <<t, k>> \in Refs /\ <<u, k>> \in Refs
<1>1. u \in Types /\ HierarchyOf[u] = HierarchyOf[t]
    BY HierarchyAssumption
<1>2. k \in Keys[u] /\ t \in HierarchyOf[u]
    BY <1>1, HierarchyAssumption, KeysAssumption
<1> QED
    BY <1>1, <1>2 DEF Refs

LEMMA MapTypeStep == MapTypeOK /\ [MapNext]_mapVars => MapTypeOK'
<1> SUFFICES ASSUME MapTypeOK, [MapNext]_mapVars PROVE MapTypeOK'
  OBVIOUS
<1>1. ASSUME NEW t \in Types, NEW k \in Keys[t], NEW op \in {"create", "update", "merge", "delete"},
             NEW f \in Fields \cup {Missing}, NEW done \in BOOLEAN
      PROVE  Answer(op, t, k, f, done) \in Reply
  BY DEF Answer, Reply
<1>2. ASSUME NEW t \in Types, NEW k \in Keys[t], NEW f \in Fields, Create(t, k, f)
      PROVE  MapTypeOK'
  BY <1>1, <1>2 DEF MapTypeOK, Create
<1>3. ASSUME NEW t \in Types, NEW k \in Keys[t], NEW f \in Fields,
             Update(t, k, f) \/ MergeInto(t, k, f)
      PROVE  MapTypeOK'
  <2>1. <<t, k>> \in Refs
      BY DEF Refs
  <2>2. objects[<<t, k>>] \in Fields
      BY <1>3, <2>1 DEF MapTypeOK, Update, MergeInto, Changeable
  <2>3. Merge(objects[<<t, k>>], f) \in Fields
      BY <2>2, MergeAssumption
  <2>4. CASE Update(t, k, f)
      BY <1>1, <2>4 DEF MapTypeOK, Update
  <2>5. CASE MergeInto(t, k, f)
      BY <1>1, <2>1, <2>3, <2>5 DEF MapTypeOK, MergeInto
  <2> QED
      BY <1>3, <2>4, <2>5
<1>4. ASSUME NEW t \in Types, NEW k \in Keys[t], Delete(t, k)
      PROVE  MapTypeOK'
  BY <1>1, <1>4 DEF MapTypeOK, Delete
<1>5. ASSUME NEW t \in Types, NEW k \in Keys[t], RefuseCreate(t, k)
      PROVE  MapTypeOK'
  BY <1>1, <1>5 DEF MapTypeOK, RefuseCreate
<1>6. ASSUME NEW t \in Types, NEW k \in Keys[t], NEW op \in {"update", "merge", "delete"},
             RefuseChange(op, t, k)
      PROVE  MapTypeOK'
  BY <1>1, <1>6 DEF MapTypeOK, RefuseChange
<1>7. CASE UNCHANGED mapVars
  BY <1>7 DEF MapTypeOK, mapVars
<1> QED
  BY <1>2, <1>3, <1>4, <1>5, <1>6, <1>7 DEF MapNext

(* The variables keep their types: the commands of the map write fields, or  *)
(* remove them, under references that exist.                                 *)
THEOREM MapTypeCorrect == MapSpec => []MapTypeOK
<1>1. MapInit => MapTypeOK
    BY DEF MapInit, MapTypeOK
<1> QED
    BY <1>1, MapTypeStep, PTL DEF MapSpec

LEMMA KeysUniqueStep ==
    MapTypeOK /\ KeysUnique /\ [MapNext]_mapVars => KeysUnique'
<1> SUFFICES ASSUME MapTypeOK, KeysUnique, [MapNext]_mapVars,
                    NEW t \in Types, NEW u \in HierarchyOf[t], NEW k \in Keys[t],
                    (objects[<<t, k>>] # Missing)', (objects[<<u, k>>] # Missing)'
             PROVE  t = u
  BY DEF KeysUnique
<1>1. /\ u \in Types /\ k \in Keys[u] /\ t \in HierarchyOf[u]
      /\ <<t, k>> \in Refs /\ <<u, k>> \in Refs
  BY HierarchyRefs
<1>2. CASE \A ref \in Refs : objects'[ref] # Missing => objects[ref] # Missing
  BY <1>1, <1>2 DEF KeysUnique
<1>3. ASSUME NEW w \in Types, NEW j \in Keys[w], NEW f \in Fields, Create(w, j, f)
      PROVE  t = u
  <2>1. \A ref \in Refs : ref # <<w, j>> => objects'[ref] = objects[ref]
      BY <1>3 DEF Create, MapTypeOK
  <2>2. CASE <<t, k>> # <<w, j>> /\ <<u, k>> # <<w, j>>
      BY <1>1, <2>1, <2>2 DEF KeysUnique
  <2>3. CASE <<t, k>> = <<w, j>>
      BY <1>1, <1>3, <2>1, <2>3 DEF Create, Taken
  <2>4. CASE <<u, k>> = <<w, j>>
      BY <1>1, <1>3, <2>1, <2>4 DEF Create, Taken
  <2> QED
      BY <2>2, <2>3, <2>4
<1>4. ASSUME NEW w \in Types, NEW j \in Keys[w], NEW f \in Fields,
             Update(w, j, f) \/ MergeInto(w, j, f)
      PROVE  t = u
  BY <1>2, <1>4 DEF Update, MergeInto, Changeable, MapTypeOK
<1>5. ASSUME NEW w \in Types, NEW j \in Keys[w], Delete(w, j)
      PROVE  t = u
  BY <1>2, <1>5 DEF Delete, MapTypeOK
<1>6. CASE UNCHANGED objects
  BY <1>2, <1>6
<1> QED
  BY <1>3, <1>4, <1>5, <1>6 DEF MapNext, RefuseCreate, RefuseChange, mapVars

(* No identifier ever names two objects of a hierarchy: create looks in all  *)
(* of it, and no other command adds an object.                               *)
THEOREM MapKeysUnique == MapSpec => []KeysUnique
<1>1. MapInit => KeysUnique
    BY DEF MapInit
<1> QED
    BY <1>1, KeysUniqueStep, MapTypeCorrect, PTL DEF MapSpec

---------------------------------------------------------------------------
(* The service.                                                             *)

(* There is a first type by name in every nonempty set of types.             *)
LEMMA FirstByNameIsOne ==
    ASSUME NEW types \in SUBSET Types, types # {}
    PROVE  FirstByName(types) \in types
<1> DEFINE ranks == {n \in DOMAIN TypeOrder : TypeOrder[n] \in types}
           First(n) == /\ TypeOrder[n] \in types
                       /\ \A m \in 1 .. (n - 1) : TypeOrder[m] \notin types
<1>1. ranks \in SUBSET Nat /\ ranks # {}
    BY RequestsAssumption
<1>2. PICK n \in ranks : \A m \in ranks : n <= m
    BY <1>1, HasLeast
<1>3. \A m \in 1 .. (n - 1) : m \in DOMAIN TypeOrder /\ m < n
    BY <1>2, RequestsAssumption
<1>4. \A m \in 1 .. (n - 1) : TypeOrder[m] \notin types
  <2> SUFFICES ASSUME NEW m \in 1 .. (n - 1), TypeOrder[m] \in types PROVE FALSE
      OBVIOUS
  <2>1. n <= m /\ m < n /\ n \in Nat /\ m \in Nat
      BY <1>1, <1>2, <1>3
  <2> QED
      BY <2>1
<1>5. n \in DOMAIN TypeOrder /\ First(n)
    BY <1>2, <1>4
<1> QED
    BY <1>5 DEF FirstByName

(***************************************************************************)
(* Refinement.  To the objects the service does nothing, and the rest of   *)
(* the world what the commands do.                                         *)
(***************************************************************************)
LEMMA McpMapStep == [McpNext]_vars => [MapNext]_mapVars
<1> SUFFICES ASSUME McpNext \/ UNCHANGED vars PROVE [MapNext]_mapVars
    OBVIOUS
<1>1. ASSUME NEW c \in Calls, Call(c)
      PROVE  UNCHANGED mapVars
    BY <1>1 DEF Call, Connect, Ask, LoadConfig, LoadType, Choose, ReadType, Disconnect,
       dataVars, mapVars
<1>2. CASE Server
    BY <1>2 DEF Server, ServeFails, Cancel, Drained, Deadline, Return, dataVars, mapVars
<1>3. CASE World
    BY <1>3 DEF World, Command, EditConfig, EditFiles, mapVars
<1>4. CASE UNCHANGED vars
    BY <1>4 DEF vars, dataVars, mapVars
<1> QED
    BY <1>1, <1>2, <1>3, <1>4 DEF McpNext

(* While the service runs, the objects change only as the commands of        *)
(* ObjectMap change them: its tools are read-only.                           *)
THEOREM ServiceOnlyReads == McpSpec => MapSpec
<1>1. McpInit => MapInit
    BY DEF McpInit
<1> QED
    BY <1>1, McpMapStep, PTL DEF McpSpec, MapSpec

(***************************************************************************)
(* One call at a time.  What a call has read, and has still to read, is    *)
(* what it was asked for among the types of the configuration it loaded;   *)
(* and as long as nothing has changed since it loaded that, what it has    *)
(* loaded parses and what it has read is still there.                      *)
(***************************************************************************)
Steps == {"none", "connected", "config", "load", "read", "answered", "closed"}

CallTypes ==
    /\ pc \in [Calls -> Steps]
    /\ DOMAIN request = Calls /\ DOMAIN got = Calls
    /\ DOMAIN seen = Calls /\ DOMAIN named = Calls
    /\ cfg \in [Calls -> Configs \cup {Unloadable}]
    /\ config \in Configs \cup {Unloadable}
    /\ todo \in [Calls -> SUBSET Types]
    /\ ok \in [Calls -> BOOLEAN]
    /\ quiet \in [Calls -> BOOLEAN]

(* A call that has not loaded a configuration yet, or never will.             *)
Waiting(c) ==
    /\ DOMAIN got[c] = {} /\ DOMAIN seen[c] = {} /\ todo[c] = {}
    /\ ~ok[c] /\ ~quiet[c] /\ cfg[c] = Unloadable

(* A call that goes through the types, and through the family of the first.    *)
Loading(c) ==
    /\ cfg[c] \in Configs /\ todo[c] \subseteq cfg[c].types
    /\ DOMAIN got[c] = {} /\ ~ok[c]
    /\ todo[c] = {} => DOMAIN seen[c] = {}
    /\ todo[c] # {} =>
           /\ DOMAIN seen[c] \subseteq cfg[c].family[FirstByName(todo[c])]
           /\ cfg[c].family[FirstByName(todo[c])] \ DOMAIN seen[c] # {}
    /\ quiet[c] =>
           /\ cfg[c] = config
           /\ \A t \in config.types \ todo[c] : ~BrokenIn(config, t)
           /\ \A w \in DOMAIN seen[c] :
                  ~BrokenIn(config, w) /\ seen[c][w] = DOMAIN ObjectsOf(config, w)

(* A call that reads what it was asked for.                                  *)
Reading(c) ==
    /\ cfg[c] \in Configs /\ ~Refused(c) /\ request[c].tool # "entity_show"
    /\ todo[c] # {} /\ DOMAIN got[c] \cup todo[c] = Requested(c)
    /\ DOMAIN seen[c] = {} /\ ~ok[c]
    /\ quiet[c] =>
           /\ cfg[c] = config
           /\ \A t \in config.types : ~BrokenIn(config, t)
           /\ \A t \in DOMAIN got[c] :
                  /\ got[c][t] = Wanted(c, t)
                  /\ request[c].tool = "object_get" => request[c].key \in DOMAIN got[c][t]

(* A call that has answered.                                                *)
Done(c) ==
    /\ todo[c] = {}
    /\ cfg[c] \in Configs => DOMAIN seen[c] \subseteq cfg[c].types
    /\ DOMAIN got[c] # {} \/ ok[c] =>
           cfg[c] \in Configs /\ ~Refused(c) /\ DOMAIN got[c] \subseteq Requested(c)
    /\ ok[c] /\ request[c].tool # "entity_show" => named[c] = Requested(c)

CallInv(c) ==
    /\ pc[c] \in {"none", "connected", "config", "closed"} => Waiting(c)
    /\ pc[c] = "load" => Loading(c)
    /\ pc[c] = "read" => Reading(c)
    /\ pc[c] = "answered" => Done(c)
    /\ pc[c] \notin {"none", "connected", "closed"} => request[c] \in Requests[c]

McpInv == CallTypes /\ MapTypeOK /\ KeysUnique /\ \A c \in Calls : CallInv(c)

LEMMA McpInvInit == McpInit => McpInv
BY DEF McpInit, MapInit, McpInv, CallTypes, Steps, MapTypeOK, CallInv, Waiting, NothingRead

(* A request that is not refused is for types of the configuration, all of   *)
(* them allowed.                                                            *)
LEMMA RequestedVisible ==
    ASSUME NEW c \in Calls, ~Refused(c)
    PROVE  Requested(c) \subseteq cfg[c].types /\ \A t \in Requested(c) : IsEntityAllowed(t)
BY DEF Refused, Requested, VisibleEntityNames

(* Only a list or an export may be of no type in particular.                  *)
LEMMA NamesAType ==
    ASSUME NEW c \in Calls, request[c] \in Requests[c],
           request[c].tool \in {"entity_show", "object_get", "object_list"}
    PROVE  request[c].want # {}
<1>1. request[c] \in UNION {Requests[d] : d \in Calls}
    OBVIOUS
<1>2. Cardinality(request[c].want) = 1
    BY <1>1, RequestsAssumption
<1> QED
    BY <1>2, FS_EmptySet

(* The types of a configuration and their families.                          *)
LEMMA FamilyFacts ==
    ASSUME NEW v \in Configs, NEW t \in v.types
    PROVE  /\ v.types \subseteq Types /\ v # Unloadable
           /\ t \in v.family[t] /\ v.family[t] \subseteq v.types
           /\ v.family[t] \subseteq HierarchyOf[t] /\ v.included[t] \subseteq Keys[t]
BY ConfigsAssumption

(* Two types of a family share no identifier.                                *)
LEMMA FamilyApart ==
    ASSUME KeysUnique, NEW v \in Configs, NEW t \in v.types,
           NEW u \in v.family[t], NEW w \in v.family[t],
           DOMAIN ObjectsOf(v, u) \cap DOMAIN ObjectsOf(v, w) # {}
    PROVE  u = w
<1>1. /\ t \in Types /\ u \in v.types /\ w \in v.types /\ u \in Types /\ w \in Types
      /\ u \in HierarchyOf[t] /\ w \in HierarchyOf[t]
    BY FamilyFacts
<1>2. w \in HierarchyOf[u]
    BY <1>1, HierarchyAssumption
<1>3. PICK k \in DOMAIN ObjectsOf(v, u) : k \in DOMAIN ObjectsOf(v, w)
    OBVIOUS
<1>4. k \in v.included[u] /\ objects[<<u, k>>] # Missing /\ objects[<<w, k>>] # Missing
    BY <1>3 DEF ObjectsOf
<1>5. k \in Keys[u]
    BY <1>1, <1>4, FamilyFacts
<1> QED
    BY <1>1, <1>2, <1>4, <1>5 DEF KeysUnique

(* Of a call that does not move, nothing changes.                            *)
Resting(c) ==
    UNCHANGED <<objects, broken, config, pc[c], request[c], cfg[c], todo[c], seen[c],
                got[c], named[c], ok[c], quiet[c]>>

LEMMA SameFirst ==
    ASSUME NEW c \in Calls, todo'[c] = todo[c]
    PROVE  FirstByName(todo[c])' = FirstByName(todo[c])
BY DEF FirstByName

LEMMA RestingCalls ==
    ASSUME NEW c \in Calls, CallInv(c), Resting(c) PROVE CallInv(c)'
<1>1. Refused(c)' = Refused(c) /\ Requested(c)' = Requested(c)
    BY DEF Resting, Refused, Requested
<1>2. \A t : Wanted(c, t)' = Wanted(c, t)
    BY DEF Resting, Wanted, ObjectsOf
<1>3. \A t : /\ BrokenIn(config, t)' = BrokenIn(config, t)
             /\ ObjectsOf(config, t)' = ObjectsOf(config, t)
    BY DEF Resting, BrokenIn, ObjectsOf
<1>4. FirstByName(todo[c])' = FirstByName(todo[c])
    BY SameFirst DEF Resting
<1>5. Waiting(c)' = Waiting(c)
    BY DEF Resting, Waiting
<1>6. Loading(c) => Loading(c)'
    BY <1>3, <1>4 DEF Resting, Loading
<1>7. Reading(c) => Reading(c)'
    BY <1>1, <1>2, <1>3 DEF Resting, Reading
<1>8. Done(c) => Done(c)'
    BY <1>1 DEF Resting, Done
<1> QED
    BY <1>5, <1>6, <1>7, <1>8 DEF Resting, CallInv

(* What an answer owes when nothing has changed.                             *)
Right(c) ==
    quiet'[c] =>
        /\ ok'[c] <=> Answerable(c)
        /\ \A t \in DOMAIN got'[c] :
               /\ DOMAIN got'[c][t] =
                      IF request[c].tool = "object_get" THEN {request[c].key} ELSE There(t)
               /\ \A k \in DOMAIN got'[c][t] : got'[c][t][k] = objects[<<t, k>>]

LEMMA ConnectAsk ==
    ASSUME McpInv, NEW c \in Calls, Connect(c) \/ Ask(c) \/ Disconnect(c)
    PROVE  /\ CallTypes' /\ CallInv(c)' /\ \A d \in Calls \ {c} : Resting(d)
           /\ pc'[c] # "answered"
<1> USE DEF McpInv, CallTypes, dataVars
<1>1. CallTypes' /\ \A d \in Calls \ {c} : Resting(d)
    BY DEF Connect, Ask, Disconnect, Resting, Steps
<1>2. /\ UNCHANGED <<got, seen, todo, cfg, ok, quiet>>
      /\ pc[c] \in {"none", "connected"} /\ pc'[c] \in {"connected", "config", "closed"}
      /\ pc'[c] = "config" => request'[c] \in Requests[c]
    BY DEF Connect, Ask, Disconnect
<1>3. Waiting(c)'
    BY <1>2 DEF CallInv, Waiting
<1> QED
    BY <1>1, <1>2, <1>3 DEF CallInv

(* An answer that is an error has read nothing, and moves no other call.      *)
LEMMA FailedCalls ==
    ASSUME McpInv, NEW c \in Calls, NEW types, Failed(c, types)
    PROVE  pc'[c] = "answered" /\ ~ok'[c] /\ todo'[c] = {} /\ DOMAIN got'[c] = {}
BY DEF McpInv, CallTypes, Failed, Answered, NothingRead

LEMMA FailedOthers ==
    ASSUME McpInv, NEW c \in Calls, NEW types, Failed(c, types),
           UNCHANGED <<objects, broken, config, request, cfg, seen>>,
           quiet' = quiet \/ quiet' = [quiet EXCEPT ![c] = TRUE]
    PROVE  CallTypes' /\ \A d \in Calls \ {c} : Resting(d)
<1> USE DEF McpInv, CallTypes
<1>1. /\ pc' = [pc EXCEPT ![c] = "answered"] /\ ok' = [ok EXCEPT ![c] = FALSE]
      /\ todo' = [todo EXCEPT ![c] = {}] /\ named' = [named EXCEPT ![c] = types]
      /\ got' = [got EXCEPT ![c] = NothingRead]
    BY DEF Failed, Answered
<1>2. pc' \in [Calls -> Steps]
    BY <1>1 DEF Steps
<1>3. /\ ok' \in [Calls -> BOOLEAN] /\ quiet' \in [Calls -> BOOLEAN]
      /\ todo' \in [Calls -> SUBSET Types]
    BY <1>1
<1>4. DOMAIN got' = Calls /\ DOMAIN named' = Calls
    BY <1>1
<1>5. ASSUME NEW d \in Calls \ {c}
      PROVE  Resting(d)
  <2>1. pc'[d] = pc[d] /\ ok'[d] = ok[d] /\ todo'[d] = todo[d] /\ quiet'[d] = quiet[d]
      BY <1>1
  <2>2. named'[d] = named[d] /\ got'[d] = got[d]
      BY <1>1
  <2> QED
      BY <2>1, <2>2 DEF Resting
<1> QED
    BY <1>2, <1>3, <1>4, <1>5

LEMMA LoadConfigStep ==
    ASSUME McpInv, NEW c \in Calls, LoadConfig(c)
    PROVE  /\ CallTypes' /\ CallInv(c)' /\ \A d \in Calls \ {c} : Resting(d)
           /\ pc'[c] = "answered" => Right(c)
<1> USE DEF McpInv, CallTypes
<1>1. /\ UNCHANGED <<objects, broken, config, request, seen>> /\ Waiting(c)
      /\ quiet' = [quiet EXCEPT ![c] = TRUE] /\ request[c] \in Requests[c]
    BY DEF LoadConfig, CallInv, dataVars
<1>2. CASE config = Unloadable
  <2>1. Failed(c, Types) /\ UNCHANGED cfg
      BY <1>2 DEF LoadConfig
  <2>2. CallTypes' /\ \A d \in Calls \ {c} : Resting(d)
      BY <1>1, <2>1, FailedOthers
  <2>3. pc'[c] = "answered" /\ ~ok'[c] /\ todo'[c] = {} /\ DOMAIN got'[c] = {}
      BY <2>1, FailedCalls
  <2>4. Done(c)'
      BY <1>1, <2>1, <2>3 DEF Done, Waiting
  <2>5. Right(c)
      BY <1>2, <2>3 DEF Right, Answerable
  <2> QED
      BY <1>1, <2>2, <2>3, <2>4, <2>5 DEF CallInv
<1>3. CASE config # Unloadable
  <2>1. /\ config \in Configs /\ config.types \subseteq Types
        /\ \A t \in config.types : t \in config.family[t]
      BY <1>3, ConfigsAssumption
  <2>2. /\ cfg' = [cfg EXCEPT ![c] = config] /\ todo' = [todo EXCEPT ![c] = config.types]
        /\ pc' = [pc EXCEPT ![c] = "load"] /\ UNCHANGED <<got, named, ok>>
      BY <1>3 DEF LoadConfig
  <2>3. CallTypes' /\ \A d \in Calls \ {c} : Resting(d)
      BY <1>1, <2>1, <2>2 DEF Resting, Steps
  <2>4. /\ cfg'[c] = config /\ todo'[c] = config.types /\ pc'[c] = "load"
        /\ config' = config /\ DOMAIN seen'[c] = {} /\ DOMAIN got'[c] = {} /\ ~ok'[c]
      BY <1>1, <2>2 DEF Waiting
  <2>5. todo'[c] # {} => FirstByName(todo[c])' \in todo'[c]
      BY <2>1, <2>4, FirstByNameIsOne
  <2>6. Loading(c)'
      BY <2>1, <2>4, <2>5 DEF Loading
  <2> QED
      BY <1>1, <2>3, <2>4, <2>6 DEF CallInv
<1> QED
    BY <1>2, <1>3

(* The type that LoadType reads is of the family of the first that is left.    *)
LEMMA NextOfFamily ==
    ASSUME McpInv, NEW c \in Calls, pc[c] = "load", todo[c] # {}
    PROVE  LET t    == FirstByName(todo[c])
               rest == cfg[c].family[t] \ DOMAIN seen[c]
               u    == IF t \in rest THEN t ELSE FirstByName(rest)
           IN  /\ t \in todo[c] /\ t \in cfg[c].types
               /\ u \in cfg[c].family[t] /\ u \notin DOMAIN seen[c] /\ u \in cfg[c].types
<1> DEFINE t == FirstByName(todo[c])
           rest == cfg[c].family[t] \ DOMAIN seen[c]
<1>1. Loading(c) /\ todo[c] \subseteq Types
    BY DEF McpInv, CallTypes, CallInv
<1>2. t \in todo[c]
    BY <1>1, FirstByNameIsOne
<1>3. cfg[c] \in Configs /\ t \in cfg[c].types /\ rest # {}
    BY <1>1, <1>2 DEF Loading
<1>4. cfg[c].family[t] \subseteq cfg[c].types /\ cfg[c].types \subseteq Types
    BY <1>3, FamilyFacts
<1>5. FirstByName(rest) \in rest
    BY <1>3, <1>4, FirstByNameIsOne
<1> QED
    BY <1>2, <1>3, <1>4, <1>5

LEMMA LoadTypeStep ==
    ASSUME McpInv, NEW c \in Calls, LoadType(c)
    PROVE  /\ CallTypes' /\ CallInv(c)' /\ \A d \in Calls \ {c} : Resting(d)
           /\ pc'[c] = "answered" => Right(c)
<1> USE DEF McpInv, CallTypes
<1> DEFINE t == FirstByName(todo[c])
           rest == cfg[c].family[t] \ DOMAIN seen[c]
           u == IF t \in rest THEN t ELSE FirstByName(rest)
           keys == DOMAIN ObjectsOf(cfg[c], u)
           twice == {w \in DOMAIN seen[c] : seen[c][w] \cap keys # {}}
           more == [w \in DOMAIN seen[c] \cup {u} |-> IF w = u THEN keys ELSE seen[c][w]]
<1>1. /\ UNCHANGED <<objects, broken, config, request, cfg, quiet>>
      /\ pc[c] = "load" /\ todo[c] # {} /\ Loading(c) /\ request[c] \in Requests[c]
    BY DEF LoadType, CallInv, dataVars
<1>2. /\ t \in todo[c] /\ t \in cfg[c].types
      /\ u \in cfg[c].family[t] /\ u \notin DOMAIN seen[c] /\ u \in cfg[c].types
    BY <1>1, NextOfFamily
<1>3. /\ cfg[c] \in Configs /\ DOMAIN seen[c] \subseteq cfg[c].family[t]
      /\ cfg[c].family[t] \subseteq cfg[c].types /\ t \in cfg[c].family[t]
    BY <1>1, <1>2, FamilyFacts DEF Loading
<1>4. \/ BrokenIn(cfg[c], u) /\ Failed(c, {t, u}) /\ UNCHANGED seen
      \/ ~BrokenIn(cfg[c], u) /\ twice # {} /\ Failed(c, {t, u} \cup twice) /\ UNCHANGED seen
      \/ /\ ~BrokenIn(cfg[c], u) /\ rest = {u}
         /\ todo' = [todo EXCEPT ![c] = @ \ {t}]
         /\ seen' = [seen EXCEPT ![c] = NothingRead] /\ UNCHANGED <<pc, got, named, ok>>
      \/ /\ ~BrokenIn(cfg[c], u) /\ rest # {u} /\ UNCHANGED todo
         /\ seen' = [seen EXCEPT ![c] = more] /\ UNCHANGED <<pc, got, named, ok>>
    BY DEF LoadType
<1> HIDE DEF t, rest, u, keys, twice, more
<1>5. ASSUME NEW types, Failed(c, types), UNCHANGED seen, BrokenIn(cfg[c], u) \/ twice # {}
      PROVE  /\ CallTypes' /\ CallInv(c)' /\ \A d \in Calls \ {c} : Resting(d)
             /\ pc'[c] = "answered" => Right(c)
  <2>1. CallTypes' /\ \A d \in Calls \ {c} : Resting(d)
      BY <1>1, <1>5, FailedOthers
  <2>2. pc'[c] = "answered" /\ ~ok'[c] /\ todo'[c] = {} /\ DOMAIN got'[c] = {}
      BY <1>5, FailedCalls
  <2>3. Done(c)'
      BY <1>1, <1>3, <1>5, <2>2 DEF Done
  <2>4. quiet[c] => BrokenIn(config, u) /\ u \in config.types
    <3> SUFFICES ASSUME quiet[c], ~BrokenIn(config, u) PROVE FALSE
        BY <1>1, <1>2 DEF Loading
    <3>1. cfg[c] = config
        BY <1>1 DEF Loading
    <3>2. PICK w \in DOMAIN seen[c] : seen[c][w] \cap keys # {}
        BY <1>5, <3>1 DEF twice
    <3>3. seen[c][w] = DOMAIN ObjectsOf(cfg[c], w)
        BY <1>1, <3>1 DEF Loading
    <3>4. w \in cfg[c].family[t] /\ w # u
        BY <1>2, <1>3
    <3> QED
        BY <1>2, <1>3, <3>2, <3>3, <3>4, FamilyApart DEF keys
  <2>5. Right(c)
      BY <1>1, <2>2, <2>4 DEF Right, Answerable
  <2> QED
      BY <1>1, <2>1, <2>2, <2>3, <2>5 DEF CallInv
<1>6. CASE /\ ~BrokenIn(cfg[c], u) /\ rest = {u}
           /\ todo' = [todo EXCEPT ![c] = @ \ {t}]
           /\ seen' = [seen EXCEPT ![c] = NothingRead] /\ UNCHANGED <<pc, got, named, ok>>
  <2>1. CallTypes' /\ \A d \in Calls \ {c} : Resting(d)
      BY <1>1, <1>6 DEF Resting
  <2>2. DOMAIN seen'[c] = {} /\ todo'[c] = todo[c] \ {t} /\ todo'[c] \subseteq Types
      BY <1>6 DEF NothingRead
  <2>3. todo'[c] # {} => FirstByName(todo[c])' \in todo'[c]
      BY <2>2, FirstByNameIsOne
  <2>4. todo'[c] # {} => FirstByName(todo[c])' \in cfg[c].family[FirstByName(todo[c])']
      BY <1>1, <2>2, <2>3, FamilyFacts DEF Loading
  <2>5. quiet[c] => ~BrokenIn(config, t)
      BY <1>1, <1>3, <1>6 DEF Loading, rest
  <2>6. \A w : BrokenIn(config, w)' = BrokenIn(config, w)
      BY <1>1 DEF BrokenIn
  <2>7. quiet[c] => \A w \in config.types \ todo'[c] : ~BrokenIn(config, w)'
      BY <1>1, <2>2, <2>5, <2>6 DEF Loading
  <2>8. Loading(c)'
      BY <1>1, <1>6, <2>2, <2>3, <2>4, <2>7 DEF Loading
  <2> QED
      BY <1>1, <1>6, <2>1, <2>8 DEF CallInv
<1>7. CASE /\ ~BrokenIn(cfg[c], u) /\ rest # {u} /\ UNCHANGED todo
           /\ seen' = [seen EXCEPT ![c] = more] /\ UNCHANGED <<pc, got, named, ok>>
  <2>1. CallTypes' /\ \A d \in Calls \ {c} : Resting(d)
      BY <1>1, <1>7 DEF Resting
  <2>2. /\ seen'[c] = more /\ DOMAIN more = DOMAIN seen[c] \cup {u}
        /\ more[u] = keys /\ \A w \in DOMAIN seen[c] : more[w] = seen[c][w]
      BY <1>2, <1>7 DEF more
  <2>3. FirstByName(todo[c])' = t
      BY <1>7, SameFirst DEF t
  <2>4. /\ DOMAIN seen'[c] \subseteq cfg[c].family[t]
        /\ cfg[c].family[t] \ DOMAIN seen'[c] # {}
    <3>1. u \in rest
        BY <1>2 DEF rest
    <3> QED
        BY <1>2, <1>3, <1>7, <2>2, <3>1 DEF rest
  <2>5. \A w : /\ BrokenIn(config, w)' = BrokenIn(config, w)
               /\ ObjectsOf(config, w)' = ObjectsOf(config, w)
      BY <1>1 DEF BrokenIn, ObjectsOf
  <2>6. quiet[c] => \A w \in DOMAIN seen'[c] :
            ~BrokenIn(config, w)' /\ seen'[c][w] = DOMAIN ObjectsOf(config, w)'
      BY <1>1, <1>7, <2>2, <2>5 DEF Loading, keys
  <2>7. Loading(c)'
      BY <1>1, <1>7, <2>3, <2>4, <2>5, <2>6 DEF Loading
  <2> QED
      BY <1>1, <1>7, <2>1, <2>7 DEF CallInv
<1> QED
    BY <1>4, <1>5, <1>6, <1>7

LEMMA ChooseStep ==
    ASSUME McpInv, NEW c \in Calls, Choose(c)
    PROVE  /\ CallTypes' /\ CallInv(c)' /\ \A d \in Calls \ {c} : Resting(d)
           /\ pc'[c] = "answered" => Right(c)
<1> USE DEF McpInv, CallTypes
<1>1. /\ UNCHANGED <<objects, broken, config, request, cfg, seen, quiet>>
      /\ pc[c] = "load" /\ todo[c] = {} /\ Loading(c) /\ request[c] \in Requests[c]
    BY DEF Choose, CallInv, dataVars
<1>2. Refused(c)' = Refused(c) /\ Requested(c)' = Requested(c)
    BY <1>1 DEF Refused, Requested
<1>3. /\ cfg[c] \in Configs /\ DOMAIN got[c] = {} /\ DOMAIN seen[c] = {} /\ ~ok[c]
      /\ quiet[c] => cfg[c] = config /\ \A t \in config.types : ~BrokenIn(config, t)
      /\ cfg[c] # Unloadable
    BY <1>1, ConfigsAssumption DEF Loading
<1>4. CASE Refused(c)
  <2>1. Failed(c, request[c].want)
      BY <1>4 DEF Choose
  <2>2. CallTypes' /\ \A d \in Calls \ {c} : Resting(d)
      BY <1>1, <2>1, FailedOthers
  <2>3. pc'[c] = "answered" /\ ~ok'[c] /\ todo'[c] = {} /\ DOMAIN got'[c] = {}
      BY <2>1, FailedCalls
  <2>4. Done(c)'
      BY <1>1, <1>3, <2>3 DEF Done
  <2>5. Right(c)
      BY <1>1, <1>3, <1>4, <2>3 DEF Right, Answerable, Refused
  <2> QED
      BY <1>1, <2>2, <2>3, <2>4, <2>5 DEF CallInv
<1>5. ASSUME ~Refused(c), NEW types, Answered(c, TRUE, types), UNCHANGED got,
             request[c].tool # "entity_show" => types = Requested(c),
             request[c].tool = "object_get" => request[c].want = {}
      PROVE  /\ CallTypes' /\ CallInv(c)' /\ \A d \in Calls \ {c} : Resting(d)
             /\ pc'[c] = "answered" => Right(c)
  <2>1. CallTypes' /\ \A d \in Calls \ {c} : Resting(d)
      BY <1>1, <1>5 DEF Answered, Resting, Steps
  <2>2. pc'[c] = "answered" /\ ok'[c] /\ todo'[c] = {} /\ named'[c] = types /\ got'[c] = got[c]
      BY <1>5 DEF Answered
  <2>3. Done(c)'
      BY <1>1, <1>2, <1>3, <1>5, <2>2 DEF Done
  <2>4. Right(c)
      BY <1>1, <1>3, <1>5, <2>2 DEF Right, Answerable, Refused
  <2> QED
      BY <1>1, <2>1, <2>2, <2>3, <2>4 DEF CallInv
<1>6. CASE ~Refused(c) /\ request[c].tool = "entity_show"
  <2>1. Answered(c, TRUE, UNION {cfg[c].mentions[t] : t \in Requested(c)}) /\ UNCHANGED got
      BY <1>6 DEF Choose
  <2> QED
      BY <1>5, <1>6, <2>1
<1>7. CASE /\ ~Refused(c) /\ request[c].tool # "entity_show"
           /\ request[c].tool = "entity_list" \/ Requested(c) = {}
  <2>1. Answered(c, TRUE, Requested(c)) /\ UNCHANGED got
      BY <1>7 DEF Choose
  <2>2. request[c].tool = "object_get" => request[c].want = {}
      BY <1>7 DEF Requested
  <2> QED
      BY <1>5, <1>7, <2>1, <2>2
<1>8. CASE /\ ~Refused(c) /\ request[c].tool # "entity_show"
           /\ ~(request[c].tool = "entity_list" \/ Requested(c) = {})
  <2>1. /\ todo' = [todo EXCEPT ![c] = Requested(c)] /\ pc' = [pc EXCEPT ![c] = "read"]
        /\ UNCHANGED <<got, named, ok>>
      BY <1>8 DEF Choose
  <2>2. Requested(c) \subseteq Types
      BY <1>3, <1>8, RequestedVisible, ConfigsAssumption
  <2>3. CallTypes' /\ \A d \in Calls \ {c} : Resting(d)
      BY <1>1, <2>1, <2>2 DEF Resting, Steps
  <2>4. \A t : BrokenIn(config, t)' = BrokenIn(config, t)
      BY <1>1 DEF BrokenIn
  <2>5. todo'[c] = Requested(c) /\ pc'[c] = "read" /\ got'[c] = got[c] /\ ~ok'[c]
      BY <1>3, <2>1
  <2>6. Reading(c)'
      BY <1>1, <1>2, <1>3, <1>8, <2>4, <2>5 DEF Reading
  <2> QED
      BY <1>1, <2>3, <2>5, <2>6 DEF CallInv
<1> QED
    BY <1>4, <1>6, <1>7, <1>8

(* What a call wants of the objects as they are.                             *)
LEMMA WantedIsThere ==
    ASSUME NEW c \in Calls, NEW t, cfg[c] = config
    PROVE  /\ DOMAIN Wanted(c, t) =
                  IF request[c].tool = "object_get" THEN {request[c].key} \cap There(t)
                  ELSE There(t)
           /\ \A k \in DOMAIN Wanted(c, t) : Wanted(c, t)[k] = objects[<<t, k>>]
BY DEF Wanted, ObjectsOf, There

(* What reading one more type makes of what has been read.                   *)
LEMMA ReadMore ==
    ASSUME McpInv, NEW c \in Calls, ReadType(c)
    PROVE  LET t == FirstByName(todo[c])
           IN  /\ t \in todo[c] /\ t \in Requested(c)
               /\ \/ /\ Failed(c, {t})
                     /\ \/ BrokenIn(cfg[c], t)
                        \/ request[c].tool = "object_get" /\ DOMAIN Wanted(c, t) = {}
                  \/ /\ DOMAIN got'[c] = DOMAIN got[c] \cup {t}
                     /\ got'[c][t] = Wanted(c, t)
                     /\ \A w \in DOMAIN got[c] : w # t => got'[c][w] = got[c][w]
                     /\ DOMAIN got' = Calls /\ \A d \in Calls \ {c} : got'[d] = got[d]
                     /\ request[c].tool = "object_get" => DOMAIN Wanted(c, t) # {}
                     /\ \/ todo[c] = {t} /\ Answered(c, TRUE, DOMAIN got'[c])
                        \/ /\ todo[c] # {t} /\ todo' = [todo EXCEPT ![c] = @ \ {t}]
                           /\ UNCHANGED <<pc, named, ok>>
<1> USE DEF McpInv, CallTypes
<1> DEFINE t == FirstByName(todo[c])
           read == [w \in DOMAIN got[c] \cup {t} |-> IF w = t THEN Wanted(c, t) ELSE got[c][w]]
<1>1. /\ pc[c] = "read" /\ todo[c] # {} /\ todo[c] \subseteq Types
      /\ DOMAIN got[c] \cup todo[c] = Requested(c)
    BY DEF ReadType, CallInv, Reading
<1>2. t \in todo[c]
    BY <1>1, FirstByNameIsOne
<1>3. \/ /\ Failed(c, {t})
         /\ \/ BrokenIn(cfg[c], t)
            \/ request[c].tool = "object_get" /\ DOMAIN Wanted(c, t) = {}
      \/ /\ got' = [got EXCEPT ![c] = read]
         /\ request[c].tool = "object_get" => DOMAIN Wanted(c, t) # {}
         /\ \/ todo[c] = {t} /\ Answered(c, TRUE, DOMAIN got'[c])
            \/ /\ todo[c] # {t} /\ todo' = [todo EXCEPT ![c] = @ \ {t}]
               /\ UNCHANGED <<pc, named, ok>>
    BY DEF ReadType
<1>4. CASE got' = [got EXCEPT ![c] = read]
  <2>1. got'[c] = read /\ DOMAIN got' = Calls /\ \A d \in Calls \ {c} : got'[d] = got[d]
      BY <1>4
  <2>2. /\ DOMAIN read = DOMAIN got[c] \cup {t} /\ read[t] = Wanted(c, t)
        /\ \A w \in DOMAIN got[c] : w # t => read[w] = got[c][w]
      OBVIOUS
  <2> HIDE DEF read, t
  <2> QED
      BY <1>1, <1>2, <1>3, <2>1, <2>2 DEF t
<1> HIDE DEF t, read
<1> QED
    BY <1>1, <1>2, <1>3, <1>4 DEF t

LEMMA ReadStep ==
    ASSUME McpInv, NEW c \in Calls, ReadType(c)
    PROVE  /\ CallTypes' /\ CallInv(c)' /\ \A d \in Calls \ {c} : Resting(d)
           /\ pc'[c] = "answered" => Right(c)
<1> USE DEF McpInv, CallTypes
<1> DEFINE t == FirstByName(todo[c])
<1>1. /\ UNCHANGED <<objects, broken, config, request, cfg, seen, quiet>>
      /\ pc[c] = "read" /\ Reading(c) /\ request[c] \in Requests[c]
    BY DEF ReadType, CallInv, dataVars
<1>2. Refused(c)' = Refused(c) /\ Requested(c)' = Requested(c)
    BY <1>1 DEF Refused, Requested
<1>3. /\ cfg[c] \in Configs /\ ~Refused(c) /\ request[c].tool # "entity_show"
      /\ DOMAIN got[c] \cup todo[c] = Requested(c) /\ DOMAIN seen[c] = {} /\ ~ok[c]
      /\ quiet[c] =>
             /\ cfg[c] = config /\ config # Unloadable
             /\ \A w \in config.types : ~BrokenIn(config, w)
             /\ \A w \in DOMAIN got[c] :
                    /\ got[c][w] = Wanted(c, w)
                    /\ request[c].tool = "object_get" => request[c].key \in DOMAIN got[c][w]
    BY <1>1, ConfigsAssumption DEF Reading
<1>4. t \in todo[c] /\ t \in Requested(c)
    BY ReadMore
<1> HIDE DEF t
<1>5. t \in cfg[c].types /\ \A w \in Requested(c) : w \in cfg[c].types /\ IsEntityAllowed(w)
    BY <1>3, <1>4, RequestedVisible
<1>6. CASE /\ Failed(c, {t})
           /\ \/ BrokenIn(cfg[c], t)
              \/ request[c].tool = "object_get" /\ DOMAIN Wanted(c, t) = {}
  <2>1. CallTypes' /\ \A d \in Calls \ {c} : Resting(d)
      BY <1>1, <1>6, FailedOthers
  <2>2. pc'[c] = "answered" /\ ~ok'[c] /\ todo'[c] = {} /\ DOMAIN got'[c] = {}
      BY <1>6, FailedCalls
  <2>3. Done(c)'
      BY <1>1, <1>3, <2>2 DEF Done
  <2>4. quiet[c] => ~Answerable(c)
    <3> SUFFICES ASSUME quiet[c], request[c].tool = "object_get", DOMAIN Wanted(c, t) = {}
                 PROVE  ~Answerable(c)
        BY <1>3, <1>5, <1>6
    <3>1. request[c].want # {}
        BY <1>1, NamesAType
    <3>2. t \in request[c].want
        BY <1>4, <3>1 DEF Requested
    <3>3. request[c].key \notin There(t)
        BY <1>3, WantedIsThere
    <3> QED
        BY <3>2, <3>3 DEF Answerable
  <2>5. Right(c)
      BY <1>1, <2>2, <2>4 DEF Right
  <2> QED
      BY <1>1, <2>1, <2>2, <2>3, <2>5 DEF CallInv
<1>7. CASE /\ DOMAIN got'[c] = DOMAIN got[c] \cup {t}
           /\ got'[c][t] = Wanted(c, t)
           /\ \A w \in DOMAIN got[c] : w # t => got'[c][w] = got[c][w]
           /\ DOMAIN got' = Calls /\ \A d \in Calls \ {c} : got'[d] = got[d]
           /\ request[c].tool = "object_get" => DOMAIN Wanted(c, t) # {}
           /\ \/ todo[c] = {t} /\ Answered(c, TRUE, DOMAIN got'[c])
              \/ /\ todo[c] # {t} /\ todo' = [todo EXCEPT ![c] = @ \ {t}]
                 /\ UNCHANGED <<pc, named, ok>>
  <2>1. CallTypes' /\ \A d \in Calls \ {c} : Resting(d)
    <3>1. CASE todo[c] = {t} /\ Answered(c, TRUE, DOMAIN got'[c])
        BY <1>1, <1>7, <3>1 DEF Answered, Resting, Steps
    <3>2. CASE todo' = [todo EXCEPT ![c] = @ \ {t}] /\ UNCHANGED <<pc, named, ok>>
        BY <1>1, <1>7, <3>2 DEF Resting
    <3> QED
        BY <1>7, <3>1, <3>2
  <2>2. quiet[c] => \A w \in DOMAIN got'[c] :
            /\ got'[c][w] = Wanted(c, w)
            /\ request[c].tool = "object_get" => request[c].key \in DOMAIN got'[c][w]
    <3> SUFFICES ASSUME quiet[c], NEW w \in DOMAIN got'[c]
                 PROVE  /\ got'[c][w] = Wanted(c, w)
                        /\ request[c].tool = "object_get" =>
                               request[c].key \in DOMAIN got'[c][w]
        OBVIOUS
    <3>1. CASE w = t
      <4>1. /\ DOMAIN Wanted(c, t) =
                   IF request[c].tool = "object_get" THEN {request[c].key} \cap There(t)
                   ELSE There(t)
          BY <1>3, WantedIsThere
      <4>2. request[c].tool = "object_get" => request[c].key \in DOMAIN Wanted(c, t)
          BY <1>7, <4>1
      <4> QED
          BY <1>7, <3>1, <4>2
    <3>2. CASE w # t
      <4>1. w \in DOMAIN got[c] /\ got'[c][w] = got[c][w]
          BY <1>7, <3>2
      <4> QED
          BY <1>3, <4>1
    <3> QED
        BY <3>1, <3>2
  <2>3. CASE todo[c] = {t} /\ Answered(c, TRUE, DOMAIN got'[c])
    <3>1. /\ DOMAIN got'[c] = Requested(c) /\ pc'[c] = "answered" /\ ok'[c]
          /\ todo'[c] = {} /\ named'[c] = DOMAIN got'[c]
        BY <1>3, <1>7, <2>3 DEF Answered
    <3>2. Done(c)'
        BY <1>1, <1>2, <1>3, <3>1 DEF Done
    <3>3. quiet[c] => \A w \in DOMAIN got'[c] :
              /\ DOMAIN got'[c][w] =
                     IF request[c].tool = "object_get" THEN {request[c].key} ELSE There(w)
              /\ \A k \in DOMAIN got'[c][w] : got'[c][w][k] = objects[<<w, k>>]
              /\ request[c].tool = "object_get" => request[c].key \in There(w)
      <4> SUFFICES ASSUME quiet[c], NEW w \in DOMAIN got'[c]
                   PROVE  /\ DOMAIN got'[c][w] =
                                 IF request[c].tool = "object_get" THEN {request[c].key}
                                 ELSE There(w)
                          /\ \A k \in DOMAIN got'[c][w] : got'[c][w][k] = objects[<<w, k>>]
                          /\ request[c].tool = "object_get" => request[c].key \in There(w)
          OBVIOUS
      <4>1. /\ got'[c][w] = Wanted(c, w)
            /\ request[c].tool = "object_get" => request[c].key \in DOMAIN Wanted(c, w)
          BY <2>2
      <4>2. /\ DOMAIN Wanted(c, w) =
                   IF request[c].tool = "object_get" THEN {request[c].key} \cap There(w)
                   ELSE There(w)
            /\ \A k \in DOMAIN Wanted(c, w) : Wanted(c, w)[k] = objects[<<w, k>>]
          BY <1>3, WantedIsThere
      <4>3. request[c].tool = "object_get" => request[c].key \in There(w)
          BY <4>1, <4>2
      <4> QED
          BY <4>1, <4>2, <4>3
    <3>4. request[c].want \subseteq Requested(c)
        BY DEF Requested
    <3>5. quiet[c] => Answerable(c)
        BY <1>3, <1>5, <3>1, <3>3, <3>4 DEF Answerable
    <3>6. Right(c)
        BY <1>1, <3>1, <3>3, <3>5 DEF Right
    <3> QED
        BY <1>1, <2>1, <3>1, <3>2, <3>6 DEF CallInv
  <2>4. CASE /\ todo[c] # {t} /\ todo' = [todo EXCEPT ![c] = @ \ {t}]
             /\ UNCHANGED <<pc, named, ok>>
    <3>1. /\ todo'[c] # {} /\ DOMAIN got'[c] \cup todo'[c] = Requested(c)
          /\ pc'[c] = "read" /\ ~ok'[c]
        BY <1>1, <1>3, <1>4, <1>7, <2>4
    <3>2. \A w : /\ Wanted(c, w)' = Wanted(c, w)
                 /\ BrokenIn(config, w)' = BrokenIn(config, w)
        BY <1>1 DEF Wanted, ObjectsOf, BrokenIn
    <3>3. Reading(c)'
        BY <1>1, <1>2, <1>3, <2>2, <3>1, <3>2 DEF Reading
    <3> QED
        BY <1>1, <2>1, <3>1, <3>3 DEF CallInv
  <2> QED
      BY <1>7, <2>3, <2>4
<1>8. \/ /\ Failed(c, {t})
         /\ \/ BrokenIn(cfg[c], t)
            \/ request[c].tool = "object_get" /\ DOMAIN Wanted(c, t) = {}
      \/ /\ DOMAIN got'[c] = DOMAIN got[c] \cup {t}
         /\ got'[c][t] = Wanted(c, t)
         /\ \A w \in DOMAIN got[c] : w # t => got'[c][w] = got[c][w]
         /\ DOMAIN got' = Calls /\ \A d \in Calls \ {c} : got'[d] = got[d]
         /\ request[c].tool = "object_get" => DOMAIN Wanted(c, t) # {}
         /\ \/ todo[c] = {t} /\ Answered(c, TRUE, DOMAIN got'[c])
            \/ /\ todo[c] # {t} /\ todo' = [todo EXCEPT ![c] = @ \ {t}]
               /\ UNCHANGED <<pc, named, ok>>
    BY ReadMore DEF t
<1> QED
    BY <1>6, <1>7, <1>8

LEMMA CallStep ==
    ASSUME McpInv, NEW c \in Calls, Call(c)
    PROVE  /\ CallTypes' /\ CallInv(c)' /\ \A d \in Calls \ {c} : Resting(d)
           /\ pc'[c] = "answered" => Right(c)
BY ConnectAsk, LoadConfigStep, LoadTypeStep, ChooseStep, ReadStep DEF Call

LEMMA McpInvStep == McpInv /\ [McpNext]_vars => McpInv'
<1> SUFFICES ASSUME McpInv, McpNext \/ UNCHANGED vars PROVE McpInv'
    OBVIOUS
<1>1. MapTypeOK' /\ KeysUnique'
    BY McpMapStep, MapTypeStep, KeysUniqueStep DEF McpInv
<1>2. ASSUME NEW c \in Calls, Call(c)
      PROVE  CallTypes' /\ \A d \in Calls : CallInv(d)'
  <2>1. CallTypes' /\ CallInv(c)' /\ \A d \in Calls \ {c} : Resting(d)
      BY <1>2, CallStep
  <2> QED
      BY <2>1, RestingCalls DEF McpInv
<1>3. CASE Server \/ UNCHANGED vars
  <2>1. UNCHANGED <<dataVars, callVars>>
      BY <1>3 DEF Server, ServeFails, Cancel, Drained, Deadline, Return, vars
  <2>2. CallTypes' /\ \A d \in Calls : Resting(d)
      BY <2>1 DEF dataVars, callVars, McpInv, CallTypes, Resting
  <2> QED
      BY <1>1, <2>2, RestingCalls DEF McpInv
<1>4. CASE World
  <2>1. /\ UNCHANGED <<pc, request, cfg, todo, seen, got, named, ok>>
        /\ quiet' = [c \in Calls |-> FALSE]
        /\ config' = config \/ config' \in Configs \cup {Unloadable}
      BY <1>4 DEF World, Command, EditConfig, EditFiles, Change
  <2>2. CallTypes'
      BY <2>1 DEF McpInv, CallTypes
  <2>3. ASSUME NEW c \in Calls
        PROVE  CallInv(c)'
    <3>1. Refused(c)' = Refused(c) /\ Requested(c)' = Requested(c)
        BY <2>1 DEF Refused, Requested
    <3>2. FirstByName(todo[c])' = FirstByName(todo[c])
        BY <2>1, SameFirst
    <3>3. CallInv(c) /\ ~quiet'[c]
        BY <2>1 DEF McpInv
    <3>4. (Waiting(c) => Waiting(c)') /\ (Done(c) => Done(c)')
        BY <2>1, <3>1, <3>3 DEF Waiting, Done
    <3>5. (Loading(c) => Loading(c)') /\ (Reading(c) => Reading(c)')
        BY <2>1, <3>1, <3>2, <3>3 DEF Loading, Reading
    <3> QED
        BY <2>1, <3>3, <3>4, <3>5 DEF CallInv
  <2> QED
      BY <1>1, <2>2, <2>3 DEF McpInv
<1> QED
    BY <1>1, <1>2, <1>3, <1>4 DEF McpNext, McpInv

(* A call loads and reads only types of the configuration it has loaded, and  *)
(* comes to an answer only through them.                                     *)
THEOREM McpTypeCorrect == McpSpec => []McpTypeOK
<1>1. ASSUME McpInv, NEW c \in Calls
      PROVE  /\ cfg[c] # Unloadable =>
                    DOMAIN got[c] \cup DOMAIN seen[c] \cup todo[c] \subseteq cfg[c].types
             /\ cfg[c] = Unloadable => DOMAIN got[c] \cup todo[c] = {}
             /\ pc[c] = "read" => todo[c] # {}
             /\ ok[c] => pc[c] = "answered"
  <2> USE <1>1 DEF McpInv, CallTypes, CallInv
  <2>1. cfg[c] \in Configs \/ cfg[c] = Unloadable
      OBVIOUS
  <2>2. \A v \in Configs : v # Unloadable
      BY ConfigsAssumption
  <2>3. CASE pc[c] \in {"none", "connected", "config", "closed"}
      BY <2>3 DEF Waiting
  <2>4. CASE pc[c] = "load"
    <3>1. todo[c] # {} => FirstByName(todo[c]) \in todo[c]
        BY FirstByNameIsOne
    <3>2. /\ cfg[c] \in Configs /\ todo[c] \subseteq cfg[c].types /\ DOMAIN got[c] = {} /\ ~ok[c]
          /\ todo[c] = {} => DOMAIN seen[c] = {}
          /\ todo[c] # {} => DOMAIN seen[c] \subseteq cfg[c].family[FirstByName(todo[c])]
        BY <2>4 DEF Loading
    <3>3. todo[c] # {} => cfg[c].family[FirstByName(todo[c])] \subseteq cfg[c].types
        BY <3>1, <3>2, FamilyFacts
    <3> QED
        BY <2>2, <2>4, <3>2, <3>3
  <2>5. CASE pc[c] = "read"
      BY <2>2, <2>5, RequestedVisible DEF Reading
  <2>6. CASE pc[c] = "answered"
      BY <2>1, <2>2, <2>6, RequestedVisible DEF Done
  <2> QED
      BY <2>3, <2>4, <2>5, <2>6 DEF Steps
<1>2. McpInv => McpTypeOK
    BY <1>1 DEF McpInv, McpTypeOK
<1> QED
    BY <1>2, McpInvInit, McpInvStep, PTL DEF McpSpec

(* No answer has an object of a type that is not allowed, whatever the        *)
(* configuration has become since the allow-list was checked; an answer for   *)
(* everything is for all the types that are.  Every call loads hidden types    *)
(* too, and an error may name them.                                          *)
THEOREM AnswersAreVisible == McpSpec => []AnswersStayVisible
<1>1. ASSUME McpInv, NEW c \in Calls
      PROVE  /\ \A t \in DOMAIN got[c] : IsEntityAllowed(t)
             /\ ok[c] /\ request[c].tool # "entity_show" =>
                    \A t \in named[c] : IsEntityAllowed(t)
             /\ ok[c] /\ request[c].want = {} => named[c] = VisibleEntityNames(cfg[c].types)
  <2> USE <1>1 DEF McpInv, CallTypes, CallInv
  <2>1. CASE pc[c] \in {"none", "connected", "config", "closed", "load"}
      BY <2>1 DEF Waiting, Loading
  <2>2. CASE pc[c] = "read"
      BY <2>2, RequestedVisible DEF Reading
  <2>3. CASE pc[c] = "answered"
    <3>1. Done(c) /\ request[c] \in Requests[c]
        BY <2>3
    <3>2. request[c].want = {} => request[c].tool # "entity_show"
        BY <3>1, NamesAType
    <3>3. request[c].want = {} => Requested(c) = VisibleEntityNames(cfg[c].types)
        BY DEF Requested
    <3> QED
        BY <3>1, <3>2, <3>3, RequestedVisible DEF Done
  <2> QED
      BY <2>1, <2>2, <2>3 DEF Steps
<1>2. McpInv => AnswersStayVisible
    BY <1>1 DEF AnswersStayVisible
<1> QED
    BY <1>2, McpInvInit, McpInvStep, PTL DEF McpSpec

(* If nothing changes from the moment on at which a call loads the            *)
(* configuration, it fails exactly when what it is asked for cannot be        *)
(* answered, and answers with the objects there are, each under its own type. *)
THEOREM QuietAnswersSnapshot == McpSpec => QuietAnswersAreSnapshots
<1>1. ASSUME McpInv, [McpNext]_vars, NEW c \in Calls,
             pc'[c] = "answered", pc[c] # "answered"
      PROVE  Right(c)
  <2>1. PICK d \in Calls : Call(d)
    <3>1. pc' # pc
        BY <1>1
    <3>2. McpNext
        BY <1>1, <3>1 DEF vars, callVars
    <3> QED
        BY <3>1, <3>2 DEF McpNext, Server, ServeFails, Cancel, Drained, Deadline, Return,
           callVars, World, Command, EditConfig, EditFiles, Change
  <2>2. d = c
      BY <1>1, <2>1, CallStep DEF Resting
  <2> QED
      BY <1>1, <2>1, <2>2, CallStep
<1>2. McpInv /\ [McpNext]_vars =>
      [\A c \in Calls :
          pc'[c] = "answered" /\ pc[c] # "answered" /\ quiet'[c] =>
              /\ ok'[c] <=> Answerable(c)
              /\ \A t \in DOMAIN got'[c] :
                     /\ DOMAIN got'[c][t] =
                            IF request[c].tool = "object_get" THEN {request[c].key} ELSE There(t)
                     /\ \A k \in DOMAIN got'[c][t] : got'[c][t][k] = objects[<<t, k>>]]_vars
    BY <1>1, Zenon DEF Right
<1> QED
    BY <1>2, McpInvInit, McpInvStep, PTL DEF McpSpec, QuietAnswersAreSnapshots
=============================================================================
