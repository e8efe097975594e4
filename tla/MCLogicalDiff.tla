--------------------------- MODULE MCLogicalDiff ---------------------------
(* A repository with two commits: pets in pets1 and pets2, by identifier, and *)
(* a tag, which its file identifies and a selector finds in it.  The type Tag *)
(* is defined in another file, part, which the older commit does not have.   *)
EXTENDS LogicalDiff, TLC

CONSTANTS Pet, Tag, i1, i2, nm, e1, e2, mainfile, part, pets1, pets2, tagfile, older, newer

Files == <<mainfile, part, pets1, pets2, tagfile>>

Lists == {<<e1, e2>>, <<e2, e1>>, <<e1>>}

Of(i, value) == [id |-> i, fields |-> nm :> value]
One(i, value) == [kind |-> "single", type |-> NoType, items |-> <<Of(i, value)>>]
Many(items) == [kind |-> "multi", type |-> NoType, items |-> items]
Two == Many(<<Of(i1, <<e1, e2>>), Of(i2, Unset)>>)
Label(value) == Many(<<Of(NoId, value)>>)

MainDoc ==
    [kind |-> "config", includes |-> << {part} >>,
     types |-> Pet :> [identifier |-> "field",
                       includes |-> {[files |-> {pets1, pets2}, selector |-> FALSE]}]]
PartDoc(ident) ==
    [kind |-> "config", includes |-> <<>>,
     types |-> Tag :> [identifier |-> ident,
                       includes |-> {[files |-> {tagfile}, selector |-> TRUE]}]]

AllContents ==
    {MainDoc, PartDoc("path"), PartDoc("none"), Two, [kind |-> "broken"]}
    \cup {One(i, value) : i \in Ids, value \in Lists}
    \cup {Label(value) : value \in Lists}

History ==
    older :> (mainfile :> MainDoc @@ pets1 :> One(i1, <<e1, e2>>)
              @@ [p \in {part, pets2, tagfile} |-> Absent]) @@
    newer :> (mainfile :> MainDoc @@ part :> PartDoc("path") @@ pets1 :> Two
              @@ pets2 :> Absent @@ tagfile :> Label(<<e1>>))

Writes ==
    mainfile :> {} @@ part :> {PartDoc("none")} @@
    pets1 :> {One(i1, <<e2, e1>>), One(i1, <<e1>>)} @@
    pets2 :> {One(i2, <<e1>>), [kind |-> "broken"]} @@
    tagfile :> {Label(<<e1, e2>>)}
=============================================================================
