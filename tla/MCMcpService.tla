---------------------------- MODULE MCMcpService ----------------------------
(* A type that is allowed and one that extends it and is not, and a third    *)
(* type beside them, to which the first refers; one client that makes any of   *)
(* the calls, and one that connects and asks for nothing.                    *)
EXTENDS McpService, TLC

CONSTANTS Pet, Dog, Tag, k1, v, c1, c2

Family == [t \in Types |-> IF t = Tag THEN {Tag} ELSE {Pet, Dog}]
SameKeys == [t \in Types |-> {k1}]
Places == [t \in Types |-> IF t = Tag THEN {} ELSE {k1}]
NewWins(old, new) == new
ByName == <<Dog, Pet, Tag>>

(* The user may drop the includes of Pet, or the type.                        *)
Whole ==
    [types    |-> Types,
     family   |-> Pet :> {Pet, Dog} @@ Dog :> {Dog} @@ Tag :> {Tag},
     mentions |-> Pet :> Types @@ Dog :> {Pet, Dog} @@ Tag :> {Tag},
     included |-> SameKeys]
Narrow == [Whole EXCEPT !.included[Pet] = {}]
Fewer ==
    [types    |-> {Dog, Tag},
     family   |-> Dog :> {Dog} @@ Tag :> {Tag},
     mentions |-> Dog :> {Dog} @@ Tag :> {Tag},
     included |-> SameKeys]
Versions == {Whole, Narrow, Fewer}

SomeRequests ==
    c1 :> {[tool |-> "repository_export", want |-> {}, key |-> k1],
           [tool |-> "object_list", want |-> {Dog}, key |-> k1],
           [tool |-> "object_get", want |-> {Pet}, key |-> k1],
           [tool |-> "entity_show", want |-> {Pet}, key |-> k1],
           [tool |-> "entity_list", want |-> {}, key |-> k1]} @@
    c2 :> {}
=============================================================================
