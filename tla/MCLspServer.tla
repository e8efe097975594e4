---------------------------- MODULE MCLspServer ----------------------------
(* Instances of LspServer for TLC.                                          *)
EXTENDS LspServer, TLC

CONSTANTS r1, c1, i, s, d, g1, g2, cfg

EntryOf == r1 :> c1

(* One root whose entry c1 includes the config file i.  Validation reports   *)
(* a fault in i's inline data, and one in the data file d only when i has    *)
(* none; the schema s, when it is bad, fails the load with an error that     *)
(* names no file of the index.                                              *)
Sources == cfg :> {c1, i} \cap Paths

Bad(v, p) == p \in Paths /\ v[p] = "bad"

AnswerOfConfig ==
    r1 :> [v \in Views |->
              IF v[c1] # "good" THEN [mentions |-> {c1}]
              ELSE IF Bad(v, i) THEN [mentions |-> {i}]
              ELSE IF Bad(v, s) THEN [mentions |-> {}] ELSE cfg]

AlwaysLoads == r1 :> (cfg :> [v \in Views |-> TRUE])

(* An object inline in c1 refers to the one in d.                            *)
Report ==
    r1 :> (cfg :> [v \in Views |->
        IF d \notin Paths THEN {}
        ELSE IF v[d] = "bad" THEN {d} ELSE IF v[d] = Absent THEN {c1} ELSE {}])

(* What the server finds when it starts.                                     *)
SomeDisks ==
    {f \in Views : /\ f[c1] = "good" /\ f[i] # Absent
                   /\ f[s] # Absent /\ f[d] # "bad"}

GoodDisk == {[p \in Paths |-> IF p = d THEN Absent ELSE "good"]}

TimerSymmetry == Permutations(Timers)
=============================================================================
