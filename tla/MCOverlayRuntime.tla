------------------------- MODULE MCOverlayRuntime -------------------------
(* Instances of OverlayRuntime for TLC.                                     *)
EXTENDS OverlayRuntime, TLC

CONSTANTS r1, r2, c1, c2, d, g1, g2, both, own, cfg

(* Two workspaces, one within the other: r1's entry c1 includes r2's entry   *)
(* c2.  An object inline in c2 refers to the one in the data file d, which   *)
(* both roots read.                                                         *)
TwoRootsConfig == r1 :> c1 @@ r2 :> c2

TwoRootsSources == both :> {c1, c2} @@ own :> {c2}

(* A pattern that includes nothing is named with the file it stands in.      *)
TwoRootsConfigAt ==
    r1 :> [v \in Views |->
              IF v[c1] # "good" \/ v[c2] = Absent THEN [mentions |-> {c1}]
              ELSE IF v[c2] # "good" THEN [mentions |-> {c2}] ELSE both] @@
    r2 :> [v \in Views |->
              IF v[c2] = "good" THEN own ELSE [mentions |-> {c2}]]

TwoRootsLoadsAt ==
    [r \in Roots |-> [k \in Configs |-> [v \in Views |-> v[d] # "bad"]]]

(* A file that does not parse ends validation before the references.        *)
TwoRootsReportAt ==
    [r \in Roots |-> [k \in Configs |-> [v \in Views |->
        CASE v[d] = "bad" -> {d} [] v[d] = Absent -> {c2} [] OTHER -> {}]]]

(* A workspace in order, but for its data.                                   *)
TwoRootsDisks == {[p \in Paths |-> IF p = d THEN Absent ELSE "good"]}

(* One root with one data file: "bad" is a fault in either.                  *)
OneRootConfig == r1 :> c1

OneRootSources == cfg :> {c1}

OneRootConfigAt ==
    r1 :> [v \in Views |-> IF v[c1] = "good" THEN cfg ELSE [mentions |-> {c1}]]

OneRootLoadsAt == r1 :> (cfg :> [v \in Views |-> TRUE])

OneRootReportAt ==
    r1 :> (cfg :> [v \in Views |-> IF v[d] = "bad" THEN {d} ELSE {}])

OneRootDisks == {f \in Views : f[c1] # Absent}

TimerSymmetry == Permutations(Timers)
=============================================================================
