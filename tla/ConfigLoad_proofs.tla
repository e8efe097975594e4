------------------------- MODULE ConfigLoad_proofs -------------------------
(* Proofs about ConfigLoad, for any files, whatever they include, and any    *)
(* types, whatever they extend.                                             *)
EXTENDS ConfigLoad, WellFoundedInduction, TLAPS, FiniteSetTheorems, SequenceTheorems

(* A nonempty set of numbers has a least element: induction in a form the     *)
(* provers can use.                                                         *)
LEMMA HasLeast ==
    ASSUME NEW S \in SUBSET Nat, S # {}
    PROVE  \E n \in S : \A m \in S : n <= m
<1> DEFINE R == {pair \in Nat \X Nat : pair[1] < pair[2]}
<1>1. IsWellFoundedOn(R, Nat)
    BY NatLessThanWellFounded DEF OpToRel
<1>2. \A m, n \in Nat : <<m, n>> \in R <=> m < n
    OBVIOUS
<1> HIDE DEF R
<1>3. PICK n \in S : \A m \in S : <<m, n>> \notin R
    BY <1>1, WFMin
<1>4. \A m \in S : ~(m < n)
    BY <1>2, <1>3
<1> QED
    BY <1>4

(***************************************************************************)
(* What is reached by the steps of a relation.                             *)
(***************************************************************************)
Steps(step) == \A x \in DOMAIN step : step[x] \subseteq DOMAIN step

(* A set that no step leaves.                                               *)
Closed(step, S) == S \subseteq DOMAIN step /\ \A x \in S : step[x] \subseteq S

LEMMA ReachedByClosed ==
    ASSUME NEW step, NEW x, NEW S, Closed(step, S), x \in S
    PROVE  Reached(step, x) \subseteq S
BY DEF Reached, Closed

LEMMA ReachedSelf ==
    ASSUME NEW step, NEW x \in DOMAIN step
    PROVE  x \in Reached(step, x)
BY DEF Reached

LEMMA ReachedClosed ==
    ASSUME NEW step, Steps(step), NEW x
    PROVE  Closed(step, Reached(step, x))
BY DEF Reached, Closed, Steps

LEMMA ReachedTransitive ==
    ASSUME NEW step, Steps(step), NEW x, NEW y \in Reached(step, x)
    PROVE  Reached(step, y) \subseteq Reached(step, x)
BY ReachedClosed, ReachedByClosed

(* What x reaches is x and what its successors reach.                        *)
LEMMA ReachedUnfolds ==
    ASSUME NEW step, Steps(step), NEW x \in DOMAIN step
    PROVE  Reached(step, x) = {x} \cup (UNION {Reached(step, y) : y \in step[x]})
<1> DEFINE S == {x} \cup (UNION {Reached(step, y) : y \in step[x]})
<1>1. \A y \in step[x] : y \in DOMAIN step /\ y \in Reached(step, y) /\ Closed(step, Reached(step, y))
    BY ReachedSelf, ReachedClosed DEF Steps
<1>2. Closed(step, S)
    BY <1>1 DEF Closed
<1>3. Reached(step, x) \subseteq S
    BY <1>2, ReachedByClosed
<1>4. x \in Reached(step, x) /\ step[x] \subseteq Reached(step, x)
    BY ReachedSelf, ReachedClosed DEF Closed
<1>5. S \subseteq Reached(step, x)
    BY <1>4, ReachedTransitive
<1> QED
    BY <1>3, <1>5

(***************************************************************************)
(* The places of a document's includes, and the order of names.            *)
(***************************************************************************)
LEMMA ForemostIsOne ==
    ASSUME NEW todo \in SUBSET (Nat \X Nat), todo # {}
    PROVE  Foremost(todo) \in todo
<1>1. PICK a \in {p[1] : p \in todo} : \A b \in {p[1] : p \in todo} : a <= b
  <2>1. {p[1] : p \in todo} # {} /\ {p[1] : p \in todo} \in SUBSET Nat
      OBVIOUS
  <2> QED
      BY <2>1, HasLeast
<1> DEFINE P == {p \in todo : p[1] = a}
<1>2. PICK b \in {p[2] : p \in P} : \A c \in {p[2] : p \in P} : b <= c
  <2>1. {p[2] : p \in P} # {} /\ {p[2] : p \in P} \in SUBSET Nat
      BY <1>1
  <2> QED
      BY <2>1, HasLeast
<1>3. PICK here \in todo : here[1] = a /\ here[2] = b
    BY <1>2
<1>4. \A there \in todo : here[1] < there[1] \/ (here[1] = there[1] /\ here[2] <= there[2])
  <2> TAKE there \in todo
  <2>1. a \in Nat /\ b \in Nat /\ there[1] \in Nat /\ there[2] \in Nat /\ a <= there[1]
      BY <1>1, <1>2
  <2>2. there[1] = a => b <= there[2]
      BY <1>2
  <2> QED
      BY <1>3, <2>1, <2>2
<1> QED
    BY <1>4 DEF Foremost

(* A stack that loses its last element, and one whose last is replaced.      *)
LEMMA FrontShortens ==
    ASSUME NEW S, NEW s \in Seq(S), s # <<>>
    PROVE  /\ Front(s) \in Seq(S) /\ Len(Front(s)) = Len(s) - 1
           /\ \A n \in 1 .. (Len(s) - 1) : Front(s)[n] = s[n]
           /\ Last(s) = s[Len(s)] /\ Len(s) \in Nat \ {0} /\ Last(s) \in S
<1>1. Len(s) \in Nat \ {0} /\ \A n \in 1 .. Len(s) : s[n] \in S
    OBVIOUS
<1> DEFINE short == SubSeq(s, 1, Len(s) - 1)
<1>2. /\ short \in Seq(S)
      /\ Len(short) = IF 1 <= Len(s) - 1 THEN Len(s) - 1 - 1 + 1 ELSE 0
      /\ \A n \in 1 .. (Len(s) - 1 - 1 + 1) : short[n] = s[1 + n - 1]
    BY <1>1, SubSeqProperties
<1>3. Front(s) = short
    BY DEF Front
<1> HIDE DEF short
<1>5. Len(short) = Len(s) - 1 /\ \A n \in 1 .. (Len(s) - 1) : short[n] = s[n]
  <2>1. Len(short) = Len(s) - 1
    <3>1. \A n \in Nat \ {0} : (IF 1 <= n - 1 THEN n - 1 - 1 + 1 ELSE 0) = n - 1
        OBVIOUS
    <3> QED
        BY <1>1, <1>2, <3>1
  <2>2. ASSUME NEW n \in 1 .. (Len(s) - 1) PROVE short[n] = s[n]
    <3>1. n \in 1 .. (Len(s) - 1 - 1 + 1) /\ 1 + n - 1 = n
        BY <1>1
    <3> QED
        BY <1>2, <3>1
  <2> QED
      BY <2>1, <2>2
<1>4. Last(s) = s[Len(s)] /\ Last(s) \in S
    BY <1>1 DEF Last
<1> QED
    BY <1>1, <1>2, <1>3, <1>4, <1>5

LEMMA ReplaceLast ==
    ASSUME NEW S, NEW s \in Seq(S), s # <<>>, NEW e \in S
    PROVE  /\ Append(Front(s), e) \in Seq(S)
           /\ Len(Append(Front(s), e)) = Len(s)
           /\ Append(Front(s), e)[Len(s)] = e
           /\ \A n \in 1 .. (Len(s) - 1) : Append(Front(s), e)[n] = s[n]
BY FrontShortens

(***************************************************************************)
(* The files.  They stay as they are, and so does what they include.       *)
(***************************************************************************)
FilesOK == \A f \in Files : files[f] = Unreadable \/ IsDocument(files[f])

LEMMA FilesStay ==
    [Next]_vars => files' = files
BY DEF Next, vars, Fail, UseCached, EnterFile, ReturnFile, Visit, Visited, AllVisited,
   CallResolve, Resolve, AllResolved, CheckReferences, Ended

LEMMA IncludingStays ==
    ASSUME files' = files
    PROVE  /\ Including' = Including
           /\ \A f : Closure(f)' = Closure(f)
           /\ \A f : Defined(f)' = Defined(f)
           /\ WellIncluded' = WellIncluded
           /\ FilesOK' = FilesOK
<1>1. Including' = Including
    BY DEF Including
<1>2. \A f : Closure(f)' = Closure(f)
    BY <1>1 DEF Closure, Reached
<1>3. \A f : Defined(f)' = Defined(f)
    BY DEF Defined
<1>4. WellIncluded' = WellIncluded
    BY <1>1, <1>2 DEF WellIncluded
<1> QED
    BY <1>1, <1>2, <1>3, <1>4 DEF FilesOK

LEMMA PlacesAreFiles ==
    ASSUME NEW doc, IsDocument(doc)
    PROVE  /\ Todo(doc) \in SUBSET (Nat \X Nat)
           /\ \A place \in Todo(doc) : Match(place) \in Files \cup {NoMatch}
<1>1. DOMAIN FileOrder \subseteq Nat /\ \A n \in DOMAIN FileOrder : FileOrder[n] \in Files
    BY OrderAssumption
<1>2. DOMAIN doc.includes \subseteq Nat
    BY DEF IsDocument
<1> QED
    BY <1>1, <1>2 DEF Todo, Match

LEMMA IncludingSteps ==
    ASSUME FilesOK
    PROVE  /\ DOMAIN Including = Files \cup {NoMatch}
           /\ Steps(Including)
           /\ \A f \in Files : files[f] # Unreadable =>
                  Including[f] = {Match(place) : place \in Todo(files[f])}
<1>1. \A f \in Files : files[f] # Unreadable =>
          Including[f] = {Match(place) : place \in Todo(files[f])}
    BY NamesAssumption DEF Including
<1>2. ASSUME NEW f \in Files \cup {NoMatch}
      PROVE  Including[f] \subseteq Files \cup {NoMatch}
  <2>1. CASE f = NoMatch \/ files[f] = Unreadable
      BY <2>1 DEF Including
  <2>2. CASE f # NoMatch /\ files[f] # Unreadable
      BY <1>1, <2>2, PlacesAreFiles DEF FilesOK
  <2> QED
      BY <2>1, <2>2
<1> QED
    BY <1>1, <1>2 DEF Including, Steps

LEMMA NamesOfDefined == \A f : NamesOf(Defined(f)) = DOMAIN files[f].entities
<1> TAKE f
<1>1. ASSUME NEW t \in DOMAIN files[f].entities
      PROVE  t \in NamesOf(Defined(f))
  <2>1. [name |-> t, source |-> f] \in Defined(f)
      BY DEF Defined
  <2>2. [name |-> t, source |-> f].name = t
      OBVIOUS
  <2> QED
      BY <2>1, <2>2 DEF NamesOf
<1>2. ASSUME NEW t \in NamesOf(Defined(f))
      PROVE  t \in DOMAIN files[f].entities
    BY <1>2 DEF NamesOf, Defined
<1> QED
    BY <1>1, <1>2

LEMMA NamesOfUnion == \A a, b : NamesOf(a \cup b) = NamesOf(a) \cup NamesOf(b)
BY DEF NamesOf

(***************************************************************************)
(* The cache c and the stack s.  A file that is in the cache has been      *)
(* judged: it, and what it reaches, is in order, and its aggregate has     *)
(* what is reached.                                                        *)
(***************************************************************************)
Judged(f, c) ==
    /\ files[f] # Unreadable /\ files[f].current
    /\ Including[f] \subseteq DOMAIN c
    /\ c[f] = UNION {Defined(g) : g \in Closure(f)}
    /\ \A g \in Including[f] : f \notin Closure(g)
    /\ \A here \in Todo(files[f]) :
           /\ NamesOf(c[Match(here)]) \cap DOMAIN files[f].entities = {}
           /\ \A there \in Todo(files[f]) \ {here} :
                  NamesOf(c[Match(here)]) \cap NamesOf(c[Match(there)]) = {}

CacheInv(c) == DOMAIN c \subseteq Files /\ \A f \in DOMAIN c : Judged(f, c)

(* A frame has merged what its file includes at the places it has been to.   *)
FrameType == [file : Files, todo : SUBSET (Nat \X Nat), agg : SUBSET [name : Entities, source : Files]]

Past(frame) == Todo(files[frame.file]) \ frame.todo

FrameInv(frame, c) ==
    /\ files[frame.file] # Unreadable
    /\ frame.file \notin DOMAIN c
    /\ frame.todo \subseteq Todo(files[frame.file])
    /\ \A place \in Past(frame) : Match(place) \in DOMAIN c
    /\ frame.agg = UNION {c[Match(place)] : place \in Past(frame)}
    /\ \A here, there \in Past(frame) :
           here # there => NamesOf(c[Match(here)]) \cap NamesOf(c[Match(there)]) = {}

(* Every frame but the last waits for the next, which is reached from it.    *)
StackInv(s, c) ==
    /\ s \in Seq(FrameType)
    /\ \A n \in 1 .. Len(s) : FrameInv(s[n], c)
    /\ \A n \in 1 .. (Len(s) - 1) : s[n].todo # {} /\ s[n + 1].file = NextMatch(s[n])
    /\ \A m, n \in 1 .. Len(s) : m <= n => s[n].file \in Closure(s[m].file)
    /\ \A m, n \in 1 .. Len(s) : s[m].file = s[n].file => m = n
    /\ s # <<>> => s[1].file = Root

LoadInv ==
    /\ FilesOK
    /\ CacheInv(cache)
    /\ StackInv(frames, cache)
    /\ phase = "load" => frames # <<>>
    /\ phase \notin {"load", "include error"} => Root \in DOMAIN cache
    /\ phase = "include error" => ~WellIncluded

(* The files of the cache are closed under inclusion.                        *)
LEMMA CacheIsClosed ==
    ASSUME FilesOK, CacheInv(cache)
    PROVE  /\ \A f \in DOMAIN cache : Closure(f) \subseteq DOMAIN cache
           /\ \A f \in DOMAIN cache : \A g \in Closure(f) :
                  Judged(g, cache) /\ Closure(g) \subseteq Closure(f)
<1>1. Closed(Including, DOMAIN cache)
    BY IncludingSteps DEF CacheInv, Judged, Closed
<1>2. \A f \in DOMAIN cache : Closure(f) \subseteq DOMAIN cache
    BY <1>1, ReachedByClosed DEF Closure
<1>3. ASSUME NEW f \in DOMAIN cache, NEW g \in Closure(f)
      PROVE  Judged(g, cache) /\ Closure(g) \subseteq Closure(f)
  <2>1. Judged(g, cache)
      BY <1>2 DEF CacheInv
  <2>2. Closure(g) \subseteq Closure(f)
      BY IncludingSteps, ReachedTransitive DEF Closure
  <2> QED
      BY <2>1, <2>2
<1> QED
    BY <1>2, <1>3

(* The names of an aggregate in the cache are those of the files reached.    *)
LEMMA CachedNames ==
    ASSUME FilesOK, CacheInv(cache), NEW f \in DOMAIN cache
    PROVE  NamesOf(cache[f]) = UNION {DOMAIN files[g].entities : g \in Closure(f)}
<1>1. cache[f] = UNION {Defined(g) : g \in Closure(f)}
    BY DEF CacheInv, Judged
<1>2. \A t : t \in NamesOf(cache[f]) <=> \E g \in Closure(f) : t \in NamesOf(Defined(g))
    BY <1>1 DEF NamesOf
<1>3. \A t : t \in NamesOf(cache[f]) <=> \E g \in Closure(f) : t \in DOMAIN files[g].entities
    BY <1>2, NamesOfDefined
<1> QED
    BY <1>3

(* So a root that is in the cache is well included.                          *)
LEMMA JudgedRoot ==
    ASSUME FilesOK, CacheInv(cache), Root \in DOMAIN cache
    PROVE  WellIncluded /\ cache[Root] = UNION {Defined(f) : f \in Closure(Root)}
<1> DEFINE names(f) == UNION {DOMAIN files[g].entities : g \in Closure(f)}
<1>1. Closure(Root) \subseteq DOMAIN cache /\ NoMatch \notin DOMAIN cache
    BY CacheIsClosed, NamesAssumption DEF CacheInv
<1>2. \A f \in Closure(Root) : Judged(f, cache)
    BY <1>1 DEF CacheInv
<1>3. \A f \in Closure(Root) : \A here \in Todo(files[f]) : Match(here) \in DOMAIN cache
  <2> TAKE f \in Closure(Root)
  <2>1. f \in Files /\ files[f] # Unreadable /\ Including[f] \subseteq DOMAIN cache
      BY <1>1, <1>2 DEF CacheInv, Judged
  <2> QED
      BY <2>1, IncludingSteps
<1>4. \A f \in DOMAIN cache : NamesOf(cache[f]) = names(f)
    BY CachedNames
<1> HIDE DEF names
<1>5. \A f \in Closure(Root) : \A here \in Todo(files[f]) :
          /\ names(Match(here)) \cap DOMAIN files[f].entities = {}
          /\ \A there \in Todo(files[f]) \ {here} : names(Match(here)) \cap names(Match(there)) = {}
    BY <1>2, <1>3, <1>4 DEF Judged
<1> QED
    BY <1>1, <1>2, <1>5 DEF WellIncluded, Judged, CacheInv, names

(* The innermost file, and the file it includes next, are reached from the   *)
(* root.                                                                    *)
LEMMA TopIsReached ==
    ASSUME LoadInv, frames # <<>>
    PROVE  /\ Len(frames) \in Nat \ {0} /\ Last(frames) = frames[Len(frames)]
           /\ Last(frames) \in FrameType /\ FrameInv(Last(frames), cache)
           /\ Last(frames).file \in Closure(Root)
           /\ Including[Last(frames).file] = {Match(place) : place \in Todo(files[Last(frames).file])}
           /\ Todo(files[Last(frames).file]) \in SUBSET (Nat \X Nat)
           /\ \A place \in Todo(files[Last(frames).file]) : Match(place) \in Closure(Root)
<1>1. frames \in Seq(FrameType) /\ FilesOK
    BY DEF LoadInv, StackInv
<1>2. Len(frames) \in Nat \ {0} /\ Last(frames) = frames[Len(frames)] /\ Last(frames) \in FrameType
    BY <1>1, FrontShortens
<1> DEFINE top == Last(frames)
<1>3. FrameInv(top, cache) /\ top.file \in Closure(frames[1].file) /\ frames[1].file = Root
  <2>1. 1 \in 1 .. Len(frames) /\ Len(frames) \in 1 .. Len(frames) /\ 1 <= Len(frames)
      BY <1>2
  <2>2. StackInv(frames, cache)
      BY DEF LoadInv
  <2>3. frames[Len(frames)].file \in Closure(frames[1].file)
      BY <2>1, <2>2 DEF StackInv
  <2>4. FrameInv(frames[Len(frames)], cache) /\ frames[1].file = Root
      BY <2>1, <2>2 DEF StackInv
  <2> QED
      BY <1>2, <2>3, <2>4
<1>4. top.file \in Files /\ files[top.file] # Unreadable /\ IsDocument(files[top.file])
    BY <1>1, <1>2, <1>3 DEF FrameInv, FrameType, FilesOK
<1>5. Including[top.file] = {Match(place) : place \in Todo(files[top.file])}
    BY <1>1, <1>4, IncludingSteps
<1>6. Todo(files[top.file]) \in SUBSET (Nat \X Nat)
    BY <1>4, PlacesAreFiles
<1>7. Closed(Including, Closure(Root))
    BY <1>1, IncludingSteps, ReachedClosed DEF Closure
<1>8. \A place \in Todo(files[top.file]) : Match(place) \in Closure(Root)
    BY <1>3, <1>5, <1>7 DEF Closed
<1> QED
    BY <1>2, <1>3, <1>5, <1>6, <1>8

LEMMA NextIsReached ==
    ASSUME LoadInv, frames # <<>>, Last(frames).todo # {}
    PROVE  /\ Foremost(Last(frames).todo) \in Last(frames).todo
           /\ Last(frames).todo \subseteq Todo(files[Last(frames).file])
           /\ NextMatch(Last(frames)) = Match(Foremost(Last(frames).todo))
           /\ NextMatch(Last(frames)) \in Including[Last(frames).file]
           /\ NextMatch(Last(frames)) \in Closure(Root)
<1>1. Last(frames).todo \subseteq Todo(files[Last(frames).file])
    BY TopIsReached DEF FrameInv
<1>2. Foremost(Last(frames).todo) \in Last(frames).todo
    BY <1>1, TopIsReached, ForemostIsOne
<1> QED
    BY <1>1, <1>2, TopIsReached DEF NextMatch

(* A clash of names in an aggregate is one of two places that are reached.   *)
LEMMA ClashIsFault ==
    ASSUME LoadInv, NEW f \in Closure(Root), f \in Files, files[f] # Unreadable,
           NEW here \in Todo(files[f]), Match(here) \in DOMAIN cache,
           \/ NamesOf(cache[Match(here)]) \cap DOMAIN files[f].entities # {}
           \/ \E there \in Todo(files[f]) \ {here} :
                  /\ Match(there) \in DOMAIN cache
                  /\ NamesOf(cache[Match(here)]) \cap NamesOf(cache[Match(there)]) # {}
    PROVE  ~WellIncluded
<1> DEFINE names(g) == UNION {DOMAIN files[h].entities : h \in Closure(g)}
<1>1. \A g \in DOMAIN cache : NamesOf(cache[g]) = names(g)
    BY CachedNames DEF LoadInv
<1> HIDE DEF names
<1>2. \/ names(Match(here)) \cap DOMAIN files[f].entities # {}
      \/ \E there \in Todo(files[f]) \ {here} : names(Match(here)) \cap names(Match(there)) # {}
    BY <1>1
<1> QED
    BY <1>2 DEF WellIncluded, names

(* A frame that has merged all its includes and its own entities has what    *)
(* is reached from its file.                                                *)
LEMMA AggregateOfTop ==
    ASSUME LoadInv, frames # <<>>, Last(frames).todo = {}
    PROVE  /\ Past(Last(frames)) = Todo(files[Last(frames).file])
           /\ Including[Last(frames).file] \subseteq DOMAIN cache
           /\ \A g \in Including[Last(frames).file] : Last(frames).file \notin Closure(g)
           /\ Last(frames).agg \cup Defined(Last(frames).file)
                  = UNION {Defined(g) : g \in Closure(Last(frames).file)}
           /\ NamesOf(Last(frames).agg \cup Defined(Last(frames).file))
                  = UNION {DOMAIN files[g].entities : g \in Closure(Last(frames).file)}
<1> DEFINE f == Last(frames).file
<1>1. FrameInv(Last(frames), cache) /\ Including[f] = {Match(place) : place \in Todo(files[f])}
    BY TopIsReached
<1>2. f \in Files /\ FilesOK /\ CacheInv(cache)
    BY TopIsReached DEF FrameType, LoadInv
<1>3. Past(Last(frames)) = Todo(files[f])
    BY DEF Past
<1>4. Including[f] \subseteq DOMAIN cache
    BY <1>1, <1>3 DEF FrameInv
<1>5. \A g \in Including[f] : f \notin Closure(g)
    BY <1>1, <1>2, <1>4, CacheIsClosed DEF FrameInv
<1>6. Closure(f) = {f} \cup (UNION {Closure(g) : g \in Including[f]})
    BY <1>2, IncludingSteps, ReachedUnfolds DEF Closure
<1>7. \A g \in Including[f] : cache[g] = UNION {Defined(h) : h \in Closure(g)}
    BY <1>2, <1>4 DEF CacheInv, Judged
<1>8. Last(frames).agg = UNION {cache[g] : g \in Including[f]}
  <2>1. Last(frames).agg = UNION {cache[Match(place)] : place \in Todo(files[f])}
      BY <1>1, <1>3 DEF FrameInv
  <2> QED
      BY <1>1, <2>1
<1>9. Last(frames).agg \cup Defined(f) = UNION {Defined(g) : g \in Closure(f)}
  <2> HIDE DEF f
  <2>1. (UNION {cache[g] : g \in Including[f]}) \cup Defined(f) = UNION {Defined(g) : g \in Closure(f)}
      BY <1>6, <1>7
  <2> QED
      BY <1>8, <2>1
<1>10. NamesOf(UNION {Defined(g) : g \in Closure(f)}) = UNION {DOMAIN files[g].entities : g \in Closure(f)}
  <2> HIDE DEF f
  <2>1. \A t : t \in NamesOf(UNION {Defined(g) : g \in Closure(f)})
                   <=> \E g \in Closure(f) : t \in NamesOf(Defined(g))
      BY DEF NamesOf
  <2>2. \A t : t \in NamesOf(UNION {Defined(g) : g \in Closure(f)})
                   <=> \E g \in Closure(f) : t \in DOMAIN files[g].entities
      BY <2>1, NamesOfDefined
  <2> QED
      BY <2>2
<1> QED
    BY <1>3, <1>4, <1>5, <1>9, <1>10

(* The files stay, so the invariant of the next state is about its cache and *)
(* its stack.                                                               *)
LEMMA LoadInvNext ==
    ASSUME files' = files, FilesOK, CacheInv(cache'), StackInv(frames', cache'),
           phase' = "load" => frames' # <<>>,
           phase' \notin {"load", "include error"} => Root \in DOMAIN cache',
           phase' = "include error" => ~WellIncluded
    PROVE  LoadInv'
<1>1. /\ Including' = Including
      /\ \A f : Closure(f)' = Closure(f)
      /\ \A f : Defined(f)' = Defined(f)
      /\ WellIncluded' = WellIncluded
      /\ FilesOK' = FilesOK
    BY IncludingStays
<1>2. CacheInv(cache)'
  <2>1. DOMAIN cache' \subseteq Files
      BY DEF CacheInv
  <2>2. ASSUME NEW f \in DOMAIN cache' PROVE Judged(f, cache)'
    <3>1. Judged(f, cache')
        BY DEF CacheInv
    <3> QED
        BY <1>1, <3>1 DEF Judged
  <2> QED
      BY <2>1, <2>2 DEF CacheInv
<1>3. StackInv(frames, cache)'
  <2>1. ASSUME NEW n \in 1 .. Len(frames') PROVE FrameInv(frames[n], cache)'
    <3>1. FrameInv(frames'[n], cache')
        BY DEF StackInv
    <3> QED
        BY <3>1 DEF FrameInv, Past
  <2> QED
      BY <1>1, <2>1 DEF StackInv
<1> QED
    BY <1>1, <1>2, <1>3 DEF LoadInv

LEMMA LoadStays ==
    ASSUME LoadInv, UNCHANGED <<files, frames, cache>>,
           \/ phase' = phase
           \/ phase' = "include error" /\ ~WellIncluded
           \/ {phase, phase'} \cap {"load", "include error"} = {}
    PROVE  LoadInv'
BY LoadInvNext DEF LoadInv

LEMMA LoadInit ==
    Init => LoadInv
<1> SUFFICES ASSUME Init PROVE LoadInv
    OBVIOUS
<1>1. FilesOK /\ Root \in Files /\ IsDocument(files[Root]) /\ files[Root] # Unreadable
    BY WorkspacesAssumption, NamesAssumption DEF Init, FilesOK
<1>2. CacheInv(cache)
    BY DEF Init, CacheInv
<1>3. Todo(files[Root]) \in SUBSET (Nat \X Nat)
    BY <1>1, PlacesAreFiles
<1>4. frames = <<Frame(Root)>> /\ Frame(Root) \in FrameType /\ Frame(Root).file = Root
    BY <1>1, <1>3 DEF Init, Frame, FrameType
<1>5. FrameInv(Frame(Root), cache)
    BY <1>1 DEF FrameInv, Past, Frame, Init
<1>6. Root \in Closure(Root)
    BY <1>1, IncludingSteps, ReachedSelf DEF Closure
<1>7. StackInv(frames, cache)
    BY <1>4, <1>5, <1>6 DEF StackInv
<1> QED
    BY <1>1, <1>2, <1>4, <1>7 DEF Init, LoadInv

(* The stack when the innermost frame is replaced by one that has merged the *)
(* aggregate of one more place, which is in the cache c by then.             *)
LEMMA MergeKeepsFrame ==
    ASSUME FilesOK, NEW c, NEW frame \in FrameType, FrameInv(frame, c), frame.todo # {},
           frame.file \in Files,
           NextMatch(frame) \in DOMAIN c, c[NextMatch(frame)] \in SUBSET [name : Entities, source : Files],
           NamesOf(frame.agg) \cap NamesOf(c[NextMatch(frame)]) = {}
    PROVE  /\ Merge(frame, c[NextMatch(frame)]) \in FrameType
           /\ FrameInv(Merge(frame, c[NextMatch(frame)]), c)
           /\ Merge(frame, c[NextMatch(frame)]).file = frame.file
<1> DEFINE f == NextMatch(frame)
           new == Merge(frame, c[f])
           place == Foremost(frame.todo)
<1>1. /\ frame.todo \in SUBSET (Nat \X Nat) /\ frame.agg \in SUBSET [name : Entities, source : Files]
      /\ frame = [file |-> frame.file, todo |-> frame.todo, agg |-> frame.agg]
    BY DEF FrameType
<1>2. place \in frame.todo /\ Match(place) = f
    BY <1>1, ForemostIsOne DEF NextMatch
<1>3. new = [file |-> frame.file, todo |-> frame.todo \ {place}, agg |-> frame.agg \cup c[f]]
  <2> DEFINE todo == frame.todo \ {place}
             agg  == frame.agg \cup c[f]
  <2>1. new = [[frame EXCEPT !.todo = todo] EXCEPT !.agg = agg]
      BY DEF Merge
  <2> HIDE DEF new, todo, agg
  <2>2. new = [file |-> frame.file, todo |-> todo, agg |-> agg]
      BY <1>1, <2>1
  <2> QED
      BY <2>2 DEF todo, agg
<1>4. new.file = frame.file /\ new.todo = frame.todo \ {place} /\ new.agg = frame.agg \cup c[f]
    BY <1>3
<1>5. new \in FrameType
    BY <1>1, <1>3 DEF FrameType
<1>6. place \in Todo(files[frame.file]) /\ Past(new) = Past(frame) \cup {place}
    BY <1>2, <1>4 DEF Past, FrameInv
<1> HIDE DEF new, place, f
<1>7. new.agg = UNION {c[Match(p)] : p \in Past(new)}
  <2>1. frame.agg = UNION {c[Match(p)] : p \in Past(frame)}
      BY DEF FrameInv
  <2> QED
      BY <1>2, <1>4, <1>6, <2>1
<1>8. ASSUME NEW p \in Past(frame)
      PROVE  NamesOf(c[Match(p)]) \cap NamesOf(c[f]) = {}
  <2>1. c[Match(p)] \subseteq frame.agg
      BY DEF FrameInv
  <2> QED
      BY <2>1 DEF NamesOf, f
<1>9. \A here, there \in Past(new) :
           here # there => NamesOf(c[Match(here)]) \cap NamesOf(c[Match(there)]) = {}
  <2>1. \A here, there \in Past(frame) :
           here # there => NamesOf(c[Match(here)]) \cap NamesOf(c[Match(there)]) = {}
      BY DEF FrameInv
  <2> QED
      BY <1>2, <1>6, <1>8, <2>1
<1>10. \A p \in Past(new) : Match(p) \in DOMAIN c
    BY <1>2, <1>6 DEF FrameInv, f
<1>11. FrameInv(new, c)
    BY <1>4, <1>7, <1>9, <1>10 DEF FrameInv
<1> QED
    BY <1>4, <1>5, <1>11 DEF new, f

LEMMA StackReplace ==
    ASSUME NEW c, NEW s, StackInv(s, c), s # <<>>,
           NEW e \in FrameType, FrameInv(e, c), e.file = Last(s).file
    PROVE  StackInv(Append(Front(s), e), c)
<1> DEFINE r == Append(Front(s), e)
<1>1. /\ r \in Seq(FrameType) /\ Len(r) = Len(s) /\ Len(s) \in Nat \ {0}
      /\ r[Len(s)] = e /\ \A n \in 1 .. (Len(s) - 1) : r[n] = s[n]
      /\ Last(s) = s[Len(s)]
  <2>1. s \in Seq(FrameType)
      BY DEF StackInv
  <2> QED
      BY <2>1, ReplaceLast, FrontShortens
<1> HIDE DEF r
<1>2. \A n \in 1 .. Len(s) : n \in 1 .. (Len(s) - 1) \/ n = Len(s)
    BY <1>1
<1>3. \A n \in 1 .. Len(s) : r[n].file = s[n].file
    BY <1>1, <1>2
<1>4. \A n \in 1 .. Len(r) : FrameInv(r[n], c)
    BY <1>1, <1>2 DEF StackInv
<1>5. \A n \in 1 .. (Len(r) - 1) : r[n].todo # {} /\ r[n + 1].file = NextMatch(r[n])
  <2> TAKE n \in 1 .. (Len(r) - 1)
  <2>1. n \in 1 .. (Len(s) - 1) /\ n + 1 \in 1 .. Len(s)
      BY <1>1
  <2>2. s[n].todo # {} /\ s[n + 1].file = NextMatch(s[n])
      BY <2>1 DEF StackInv
  <2> QED
      BY <1>1, <1>3, <2>1, <2>2
<1>6. /\ \A m, n \in 1 .. Len(r) : m <= n => r[n].file \in Closure(r[m].file)
      /\ \A m, n \in 1 .. Len(r) : r[m].file = r[n].file => m = n
    BY <1>1, <1>3 DEF StackInv
<1>7. r # <<>> => r[1].file = Root
  <2>1. 1 \in 1 .. Len(s)
      BY <1>1
  <2> QED
      BY <1>3, <2>1 DEF StackInv
<1> QED
    BY <1>1, <1>4, <1>5, <1>6, <1>7 DEF StackInv, r

LEMMA StackFront ==
    ASSUME NEW c, NEW s, StackInv(s, c), s # <<>>
    PROVE  StackInv(Front(s), c)
<1> DEFINE r == Front(s)
<1>1. /\ r \in Seq(FrameType) /\ Len(r) = Len(s) - 1 /\ Len(s) \in Nat \ {0}
      /\ \A n \in 1 .. (Len(s) - 1) : r[n] = s[n]
  <2>1. s \in Seq(FrameType)
      BY DEF StackInv
  <2> QED
      BY <2>1, FrontShortens
<1> HIDE DEF r
<1>2. \A n \in 1 .. Len(r) : n \in 1 .. Len(s) /\ r[n] = s[n]
    BY <1>1
<1>3. \A n \in 1 .. (Len(r) - 1) : n \in 1 .. (Len(s) - 1) /\ n + 1 \in 1 .. Len(r)
    BY <1>1
<1>4. \A n \in 1 .. (Len(r) - 1) : r[n].todo # {} /\ r[n + 1].file = NextMatch(r[n])
  <2> TAKE n \in 1 .. (Len(r) - 1)
  <2>1. s[n].todo # {} /\ s[n + 1].file = NextMatch(s[n])
      BY <1>3 DEF StackInv
  <2>2. r[n] = s[n] /\ r[n + 1] = s[n + 1]
      BY <1>2, <1>3, <1>1
  <2> QED
      BY <2>1, <2>2
<1>5. r # <<>> => r[1].file = Root
  <2>1. ASSUME r # <<>> PROVE 1 \in 1 .. Len(r)
      BY <1>1, <2>1
  <2>2. s # <<>> => s[1].file = Root
      BY DEF StackInv
  <2> QED
      BY <1>2, <2>1, <2>2
<1>6. \A n \in 1 .. Len(r) : FrameInv(r[n], c)
    BY <1>2 DEF StackInv
<1>7. /\ \A m, n \in 1 .. Len(r) : m <= n => r[n].file \in Closure(r[m].file)
      /\ \A m, n \in 1 .. Len(r) : r[m].file = r[n].file => m = n
    BY <1>2 DEF StackInv
<1> QED
    BY <1>1, <1>4, <1>5, <1>6, <1>7 DEF StackInv, r

(* The cache c with the aggregate of one more file.                         *)
With(c, f, agg) == [g \in DOMAIN c \cup {f} |-> IF g = f THEN agg ELSE c[g]]

LEMMA StackAndCache ==
    ASSUME NEW c, NEW s, StackInv(s, c), NEW f, NEW agg, f \notin DOMAIN c,
           \A n \in 1 .. Len(s) : s[n].file # f
    PROVE  StackInv(s, With(c, f, agg))
<1> DEFINE d == With(c, f, agg)
<1>1. DOMAIN d = DOMAIN c \cup {f} /\ \A g \in DOMAIN c : d[g] = c[g]
    BY DEF With
<1> HIDE DEF d
<1>2. ASSUME NEW n \in 1 .. Len(s) PROVE FrameInv(s[n], d)
  <2>1. FrameInv(s[n], c) /\ s[n].file # f
      BY DEF StackInv
  <2>2. \A place \in Past(s[n]) : Match(place) \in DOMAIN c /\ d[Match(place)] = c[Match(place)]
      BY <1>1, <2>1 DEF FrameInv
  <2>3. s[n].agg = UNION {d[Match(place)] : place \in Past(s[n])}
      BY <2>1, <2>2 DEF FrameInv
  <2> QED
      BY <1>1, <2>1, <2>2, <2>3 DEF FrameInv
<1> QED
    BY <1>2 DEF StackInv, d

LEMMA CacheWith ==
    ASSUME NEW c, CacheInv(c), NEW f \in Files, f \notin DOMAIN c, NEW agg,
           Judged(f, With(c, f, agg)), FilesOK
    PROVE  CacheInv(With(c, f, agg))
<1> DEFINE d == With(c, f, agg)
<1>1. DOMAIN d = DOMAIN c \cup {f} /\ \A g \in DOMAIN c : d[g] = c[g]
    BY DEF With
<1> HIDE DEF d
<1>2. ASSUME NEW g \in DOMAIN c PROVE Judged(g, d)
  <2>1. Judged(g, c) /\ g \in Files
      BY DEF CacheInv
  <2>2. Including[g] = {Match(place) : place \in Todo(files[g])}
      BY <2>1, IncludingSteps DEF Judged
  <2>3. \A place \in Todo(files[g]) : Match(place) \in DOMAIN c /\ d[Match(place)] = c[Match(place)]
      BY <1>1, <2>1, <2>2 DEF Judged
  <2> QED
      BY <1>1, <2>1, <2>3 DEF Judged
<1> QED
    BY <1>1, <1>2 DEF CacheInv, d

LEMMA AggregateType ==
    ASSUME FilesOK, NEW f \in Files, files[f] # Unreadable
    PROVE  Defined(f) \in SUBSET [name : Entities, source : Files]
BY DEF FilesOK, IsDocument, Defined

LEMMA CachedType ==
    ASSUME FilesOK, CacheInv(cache), NEW f \in DOMAIN cache
    PROVE  cache[f] \in SUBSET [name : Entities, source : Files]
<1>1. cache[f] = UNION {Defined(g) : g \in Closure(f)}
    BY DEF CacheInv, Judged
<1>2. \A g \in Closure(f) : g \in Files /\ files[g] # Unreadable
    BY CacheIsClosed DEF CacheInv, Judged
<1> QED
    BY <1>1, <1>2, AggregateType

(***************************************************************************)
(* The steps of the loader.                                                *)
(***************************************************************************)
LEMMA UseCachedKeeps ==
    ASSUME LoadInv, UseCached
    PROVE  LoadInv'
<1> DEFINE top == Last(frames)
           f   == NextMatch(top)
<1>1. phase = "load" /\ frames # <<>> /\ top.todo # {} /\ f \in DOMAIN cache
    BY DEF UseCached, LoadInv
<1>2. /\ FrameInv(top, cache) /\ top \in FrameType /\ top.file \in Closure(Root)
      /\ top.file \in Files /\ files[top.file] # Unreadable
    BY <1>1, TopIsReached DEF FrameType, FrameInv
<1>3. FilesOK /\ CacheInv(cache) /\ StackInv(frames, cache)
    BY DEF LoadInv
<1>4. Foremost(top.todo) \in top.todo /\ top.todo \subseteq Todo(files[top.file]) /\ f = Match(Foremost(top.todo))
    BY <1>1, NextIsReached
<1>5. CASE NamesOf(top.agg) \cap NamesOf(cache[f]) # {}
  <2>1. PICK place \in Past(top) : NamesOf(cache[Match(place)]) \cap NamesOf(cache[f]) # {}
    <3>1. top.agg = UNION {cache[Match(place)] : place \in Past(top)}
        BY <1>2 DEF FrameInv
    <3> QED
        BY <1>5, <3>1 DEF NamesOf
  <2>2. place \in Todo(files[top.file]) /\ place # Foremost(top.todo) /\ Match(place) \in DOMAIN cache
    BY <1>2, <1>4, <2>1 DEF Past, FrameInv
  <2>3. ~WellIncluded
    BY <1>1, <1>2, <1>4, <2>1, <2>2, ClashIsFault
  <2>4. phase' = "include error" /\ UNCHANGED <<files, frames, cache>>
    BY <1>5 DEF UseCached, Fail
  <2> QED
    BY <2>3, <2>4, LoadStays
<1>6. CASE NamesOf(top.agg) \cap NamesOf(cache[f]) = {}
  <2> DEFINE new == Merge(top, cache[f])
  <2>1. new \in FrameType /\ FrameInv(new, cache) /\ new.file = top.file
      BY <1>1, <1>2, <1>3, <1>6, CachedType, MergeKeepsFrame
  <2>2. frames' = Append(Front(frames), new) /\ UNCHANGED <<files, phase, cache>>
      BY <1>6 DEF UseCached
  <2> HIDE DEF new
  <2>3. StackInv(frames', cache)
      BY <1>1, <1>3, <2>1, <2>2, StackReplace
  <2>4. frames' # <<>>
    <3>1. Len(frames') = Len(frames) /\ Len(frames) # 0
        BY <1>1, <1>2, <1>3, <2>1, <2>2, ReplaceLast, TopIsReached DEF StackInv
    <3> QED
        BY <3>1
  <2> QED
      BY <1>1, <1>3, <2>2, <2>3, <2>4, LoadInvNext
<1> QED
    BY <1>5, <1>6

LEMMA EnterFileKeeps ==
    ASSUME LoadInv, EnterFile
    PROVE  LoadInv'
<1> DEFINE top == Last(frames)
           f   == NextMatch(top)
<1>1. phase = "load" /\ frames # <<>> /\ top.todo # {} /\ f \notin DOMAIN cache
    BY DEF EnterFile, LoadInv
<1>2. /\ Len(frames) \in Nat \ {0} /\ top = frames[Len(frames)]
      /\ FrameInv(top, cache) /\ top.file \in Closure(Root) /\ top.file \in Files
    BY <1>1, TopIsReached DEF FrameType
<1>3. FilesOK /\ CacheInv(cache) /\ StackInv(frames, cache)
    BY DEF LoadInv
<1>4. f \in Including[top.file] /\ f \in Closure(Root) /\ f \in Files \cup {NoMatch}
    BY <1>1, <1>3, NextIsReached, IncludingSteps DEF Closure, Reached
<1>5. CASE f = NoMatch \/ OnStack(f) \/ files[f] = Unreadable
  <2>1. ~WellIncluded
    <3>1. CASE f = NoMatch \/ files[f] = Unreadable
        BY <1>4, <3>1 DEF WellIncluded
    <3>2. CASE OnStack(f)
      <4>1. PICK m \in 1 .. Len(frames) : frames[m].file = f
          BY <3>2, <1>3 DEF OnStack, StackInv
      <4>2. Len(frames) \in 1 .. Len(frames) /\ m <= Len(frames)
          BY <1>2
      <4>3. top.file \in Closure(f)
          BY <1>2, <1>3, <4>1, <4>2 DEF StackInv
      <4> QED
          BY <1>2, <1>4, <4>3 DEF WellIncluded
    <3> QED
        BY <1>5, <3>1, <3>2
  <2>2. phase' = "include error" /\ UNCHANGED <<files, frames, cache>>
      BY <1>5 DEF EnterFile, Fail
  <2> QED
      BY <2>1, <2>2, LoadStays
<1>6. CASE ~(f = NoMatch \/ OnStack(f) \/ files[f] = Unreadable)
  <2> DEFINE new == Frame(f)
             s   == Append(frames, new)
  <2>1. f \in Files /\ IsDocument(files[f]) /\ files[f] # Unreadable
      BY <1>3, <1>4, <1>6 DEF FilesOK
  <2>2. new = [file |-> f, todo |-> Todo(files[f]), agg |-> {}] /\ new \in FrameType
      BY <2>1, PlacesAreFiles DEF Frame, FrameType
  <2>3. FrameInv(new, cache)
      BY <1>1, <2>1, <2>2 DEF FrameInv, Past
  <2> HIDE DEF new
  <2>4. /\ s \in Seq(FrameType) /\ Len(s) = Len(frames) + 1 /\ s[Len(frames) + 1] = new
        /\ \A n \in 1 .. Len(frames) : s[n] = frames[n]
        /\ \A n \in 1 .. (Len(frames) + 1) : n \in 1 .. Len(frames) \/ n = Len(frames) + 1
      BY <1>2, <1>3, <2>2 DEF StackInv
  <2>5. frames' = s /\ UNCHANGED <<files, phase, cache>>
      BY <1>6 DEF EnterFile, new
  <2> HIDE DEF s
  <2>6. \A n \in 1 .. Len(frames) : frames[n].file # f /\ f \in Closure(frames[n].file)
    <3> TAKE n \in 1 .. Len(frames)
    <3>1. frames[n].file # f
        BY <1>3, <1>6 DEF OnStack, StackInv
    <3>2. Len(frames) \in 1 .. Len(frames) /\ n <= Len(frames)
        BY <1>2
    <3>3. top.file \in Closure(frames[n].file)
        BY <1>2, <1>3, <3>2 DEF StackInv
    <3>4. f \in Closure(frames[n].file)
        BY <1>3, <1>4, <3>3, IncludingSteps, ReachedClosed DEF Closure, Closed
    <3> QED
        BY <3>1, <3>4
  <2>7. f \in Closure(f)
      BY <2>1, <1>3, IncludingSteps, ReachedSelf DEF Closure
  <2>8. \A m, n \in 1 .. Len(s) : m <= n => s[n].file \in Closure(s[m].file)
    <3> TAKE m, n \in 1 .. Len(s)
    <3>1. CASE n \in 1 .. Len(frames)
      <4>1. m <= n => m \in 1 .. Len(frames)
          BY <1>2, <2>4, <3>1
      <4> QED
          BY <1>3, <2>4, <3>1, <4>1 DEF StackInv
    <3>2. CASE n = Len(frames) + 1
        BY <2>2, <2>4, <2>6, <2>7, <3>2
    <3> QED
        BY <2>4, <3>1, <3>2
  <2>9. \A m, n \in 1 .. Len(s) : s[m].file = s[n].file => m = n
    <3>1. new.file = f
        BY <2>2
    <3>2. \A m, n \in 1 .. Len(frames) : frames[m].file = frames[n].file => m = n
        BY <1>3 DEF StackInv
    <3> QED
        BY <2>4, <2>6, <3>1, <3>2
  <2>10. \A n \in 1 .. (Len(s) - 1) : s[n].todo # {} /\ s[n + 1].file = NextMatch(s[n])
    <3> TAKE n \in 1 .. (Len(s) - 1)
    <3>1. \/ n \in 1 .. (Len(frames) - 1) /\ n + 1 \in 1 .. Len(frames) /\ n \in 1 .. Len(frames)
          \/ n = Len(frames) /\ n \in 1 .. Len(frames)
        BY <1>2, <2>4
    <3>2. CASE n \in 1 .. (Len(frames) - 1) /\ n + 1 \in 1 .. Len(frames) /\ n \in 1 .. Len(frames)
        BY <1>3, <2>4, <3>2 DEF StackInv
    <3>3. CASE n = Len(frames) /\ n \in 1 .. Len(frames)
        BY <1>1, <1>2, <2>2, <2>4, <3>3
    <3> QED
        BY <3>1, <3>2, <3>3
  <2>11. \A n \in 1 .. Len(s) : FrameInv(s[n], cache)
      BY <1>3, <2>3, <2>4 DEF StackInv
  <2>12. s # <<>> /\ s[1].file = Root
    <3>1. 1 \in 1 .. Len(frames) /\ Len(s) # 0
        BY <1>2, <2>4
    <3> QED
        BY <1>1, <1>3, <2>4, <3>1 DEF StackInv
  <2>13. StackInv(s, cache)
      BY <2>4, <2>8, <2>9, <2>10, <2>11, <2>12 DEF StackInv
  <2> QED
      BY <1>1, <1>3, <2>5, <2>12, <2>13, LoadInvNext
<1> QED
    BY <1>5, <1>6

LEMMA ReturnFileKeeps ==
    ASSUME LoadInv, ReturnFile
    PROVE  LoadInv'
<1> DEFINE top    == Last(frames)
           f      == top.file
           own    == Defined(f)
           agg    == top.agg \cup own
           others == Front(frames)
           d      == With(cache, f, agg)
           caller == Last(others)
           bad    == \/ ~files[f].current
                     \/ NamesOf(top.agg) \cap NamesOf(own) # {}
                     \/ others # <<>> /\ NamesOf(caller.agg) \cap NamesOf(agg) # {}
<1>1. phase = "load" /\ frames # <<>> /\ top.todo = {}
    BY DEF ReturnFile, LoadInv
<1>2. FilesOK /\ CacheInv(cache) /\ StackInv(frames, cache) /\ frames \in Seq(FrameType)
    BY DEF LoadInv, StackInv
<1>3. /\ Len(frames) \in Nat \ {0} /\ top = frames[Len(frames)] /\ top \in FrameType
      /\ others \in Seq(FrameType) /\ Len(others) = Len(frames) - 1
      /\ \A n \in 1 .. (Len(frames) - 1) : others[n] = frames[n]
    BY <1>1, <1>2, FrontShortens
<1>4. /\ FrameInv(top, cache) /\ f \in Closure(Root) /\ f \in Files /\ files[f] # Unreadable
      /\ f \notin DOMAIN cache
      /\ Including[f] = {Match(place) : place \in Todo(files[f])}
    BY <1>1, TopIsReached DEF FrameType, FrameInv
<1>5. /\ Past(top) = Todo(files[f]) /\ Including[f] \subseteq DOMAIN cache
      /\ \A g \in Including[f] : f \notin Closure(g)
      /\ agg = UNION {Defined(g) : g \in Closure(f)}
      /\ NamesOf(agg) = UNION {DOMAIN files[g].entities : g \in Closure(f)}
    BY <1>1, AggregateOfTop
<1>6. agg \in SUBSET [name : Entities, source : Files]
    BY <1>2, <1>3, <1>4, AggregateType DEF FrameType
<1>7. StackInv(others, cache) /\ \A n \in 1 .. Len(others) : others[n].file # f
  <2>1. StackInv(others, cache)
      BY <1>1, <1>2, StackFront
  <2>2. ASSUME NEW n \in 1 .. Len(others) PROVE others[n].file # f
    <3>1. n \in 1 .. Len(frames) /\ Len(frames) \in 1 .. Len(frames) /\ n # Len(frames) /\ others[n] = frames[n]
        BY <1>3
    <3> QED
        BY <1>2, <1>3, <3>1 DEF StackInv
  <2> QED
      BY <2>1, <2>2
<1>8. others # <<>> =>
          /\ Len(others) \in Nat \ {0} /\ caller = others[Len(others)] /\ caller \in FrameType
          /\ FrameInv(caller, cache) /\ caller.todo # {} /\ f = NextMatch(caller)
          /\ caller.file \in Closure(Root) /\ caller.file \in Files /\ files[caller.file] # Unreadable
  <2> SUFFICES ASSUME others # <<>>
               PROVE  /\ Len(others) \in Nat \ {0} /\ caller = others[Len(others)] /\ caller \in FrameType
                      /\ FrameInv(caller, cache) /\ caller.todo # {} /\ f = NextMatch(caller)
                      /\ caller.file \in Closure(Root) /\ caller.file \in Files /\ files[caller.file] # Unreadable
      OBVIOUS
  <2>1. Len(others) \in Nat \ {0} /\ caller = others[Len(others)] /\ caller \in FrameType
      BY <1>3, FrontShortens
  <2>2. /\ Len(others) \in 1 .. (Len(frames) - 1) /\ Len(others) + 1 = Len(frames)
        /\ 1 \in 1 .. Len(others) /\ Len(others) \in 1 .. Len(others) /\ 1 <= Len(others)
      BY <1>3, <2>1
  <2>3. caller.todo # {} /\ f = NextMatch(caller)
      BY <1>2, <1>3, <2>1, <2>2 DEF StackInv
  <2>4. FrameInv(caller, cache) /\ caller.file \in Closure(Root)
      BY <1>7, <2>1, <2>2 DEF StackInv
  <2> QED
      BY <2>1, <2>3, <2>4 DEF FrameInv, FrameType
<1>9. CASE bad
  <2>1. ~WellIncluded
    <3>1. CASE ~files[f].current
        BY <1>4, <3>1 DEF WellIncluded
    <3>2. CASE NamesOf(top.agg) \cap NamesOf(own) # {}
      <4>1. NamesOf(own) = DOMAIN files[f].entities
          BY NamesOfDefined
      <4>2. top.agg = UNION {cache[Match(place)] : place \in Past(top)}
          BY <1>4 DEF FrameInv
      <4>3. PICK place \in Past(top) : NamesOf(cache[Match(place)]) \cap DOMAIN files[f].entities # {}
          BY <3>2, <4>1, <4>2 DEF NamesOf
      <4>4. Match(place) \in DOMAIN cache /\ place \in Todo(files[f])
          BY <1>4, <1>5 DEF FrameInv
      <4> QED
          BY <1>4, <4>3, <4>4, ClashIsFault
    <3>3. CASE others # <<>> /\ NamesOf(caller.agg) \cap NamesOf(agg) # {}
      <4> DEFINE here == Foremost(caller.todo)
      <4>1. here \in caller.todo /\ caller.todo \subseteq Todo(files[caller.file]) /\ Match(here) = f
        <5>1. caller.todo \in SUBSET (Nat \X Nat)
            BY <1>8, <3>3 DEF FrameType
        <5>2. here \in caller.todo
            BY <5>1, <1>8, <3>3, ForemostIsOne
        <5> QED
            BY <1>8, <3>3, <5>2 DEF FrameInv, NextMatch
      <4>2. caller.agg = UNION {cache[Match(place)] : place \in Past(caller)}
          BY <1>8, <3>3 DEF FrameInv
      <4>3. PICK there \in Past(caller) : NamesOf(cache[Match(there)]) \cap NamesOf(agg) # {}
          BY <3>3, <4>2 DEF NamesOf
      <4>4. there \in Todo(files[caller.file]) /\ there # here /\ Match(there) \in DOMAIN cache
          BY <1>8, <3>3, <4>1 DEF FrameInv, Past
      <4>5. NamesOf(cache[Match(there)]) = UNION {DOMAIN files[g].entities : g \in Closure(Match(there))}
          BY <1>2, <4>4, CachedNames
      <4> DEFINE names(g) == UNION {DOMAIN files[h].entities : h \in Closure(g)}
      <4>6. names(Match(there)) \cap names(Match(here)) # {}
          BY <1>5, <4>1, <4>3, <4>5
      <4> HIDE DEF here
      <4> QED
          BY <1>8, <3>3, <4>1, <4>4, <4>6 DEF WellIncluded
    <3> QED
        BY <1>9, <3>1, <3>2, <3>3
  <2>2. phase' = "include error" /\ UNCHANGED <<files, frames, cache>>
      BY <1>9 DEF ReturnFile, Fail
  <2> QED
      BY <2>1, <2>2, LoadStays
<1>10. CASE ~bad
  <2>1. /\ cache' = d /\ files' = files
        /\ others = <<>> => frames' = <<>> /\ phase' = "visit"
        /\ others # <<>> => frames' = Append(Front(others), Merge(caller, agg)) /\ phase' = phase
      BY <1>10 DEF ReturnFile, With
  <2>2. DOMAIN d = DOMAIN cache \cup {f} /\ d[f] = agg /\ \A g \in DOMAIN cache : d[g] = cache[g]
      BY <1>4 DEF With
  <2>3. Judged(f, d)
    <3>1. \A place \in Todo(files[f]) : Match(place) \in DOMAIN cache /\ d[Match(place)] = cache[Match(place)]
        BY <1>4, <1>5, <2>2
    <3>2. \A here \in Todo(files[f]) :
              /\ NamesOf(cache[Match(here)]) \subseteq NamesOf(top.agg)
              /\ \A there \in Todo(files[f]) \ {here} :
                     NamesOf(cache[Match(here)]) \cap NamesOf(cache[Match(there)]) = {}
      <4>1. top.agg = UNION {cache[Match(place)] : place \in Todo(files[f])}
          BY <1>4, <1>5 DEF FrameInv
      <4>2. \A here \in Todo(files[f]) : NamesOf(cache[Match(here)]) \subseteq NamesOf(top.agg)
          BY <4>1 DEF NamesOf
      <4>3. \A here, there \in Todo(files[f]) :
                here # there => NamesOf(cache[Match(here)]) \cap NamesOf(cache[Match(there)]) = {}
          BY <1>4, <1>5 DEF FrameInv
      <4> QED
          BY <4>2, <4>3
    <3>3. NamesOf(own) = DOMAIN files[f].entities
        BY NamesOfDefined
    <3>4. files[f].current /\ NamesOf(top.agg) \cap NamesOf(own) = {}
        BY <1>10
    <3> HIDE DEF d, agg, own, top, f
    <3>5. \A here \in Todo(files[f]) :
              /\ NamesOf(d[Match(here)]) \cap DOMAIN files[f].entities = {}
              /\ \A there \in Todo(files[f]) \ {here} :
                     NamesOf(d[Match(here)]) \cap NamesOf(d[Match(there)]) = {}
        BY <3>1, <3>2, <3>3, <3>4
    <3>6. Including[f] \subseteq DOMAIN d /\ d[f] = UNION {Defined(g) : g \in Closure(f)}
        BY <1>5, <2>2
    <3> QED
        BY <1>4, <1>5, <3>4, <3>5, <3>6 DEF Judged
  <2>4. CacheInv(d)
      BY <1>2, <1>4, <2>3, CacheWith
  <2>5. StackInv(others, d)
      BY <1>4, <1>7, StackAndCache
  <2>6. CASE others = <<>>
    <3>1. Len(frames) = 1
        BY <1>3, <2>6
    <3>2. Root \in DOMAIN d
        BY <1>2, <1>3, <2>2, <3>1 DEF StackInv
    <3>3. StackInv(frames', cache')
        BY <2>1, <2>5, <2>6
    <3>4. CacheInv(cache')
        BY <2>1, <2>4
    <3>5. phase' = "visit" /\ files' = files /\ Root \in DOMAIN cache'
        BY <2>1, <2>6, <3>2
    <3> HIDE DEF d, agg, own, top, f, others, bad
    <3> QED
        BY <1>2, <3>3, <3>4, <3>5, LoadInvNext
  <2>7. CASE others # <<>>
    <3> DEFINE new == Merge(caller, agg)
    <3>1. FrameInv(caller, d)
      <4>1. Len(others) \in 1 .. Len(others)
          BY <1>8, <2>7
      <4> QED
          BY <1>8, <2>5, <2>7, <4>1 DEF StackInv
    <3>2. NamesOf(caller.agg) \cap NamesOf(agg) = {}
        BY <1>10, <2>7
    <3>3. new \in FrameType /\ FrameInv(new, d) /\ new.file = caller.file
      <4>1. /\ d[NextMatch(caller)] = agg /\ NextMatch(caller) \in DOMAIN d
            /\ caller \in FrameType /\ caller.todo # {} /\ caller.file \in Files
          BY <1>8, <2>2, <2>7
      <4> HIDE DEF d, agg, own, top, f, others, bad, caller
      <4> QED
          BY <1>2, <1>6, <3>1, <3>2, <4>1, MergeKeepsFrame
    <3>4. frames' = Append(Front(others), new) /\ phase' = "load" /\ cache' = d /\ files' = files
        BY <1>1, <2>1, <2>7
    <3> HIDE DEF d, agg, own, top, f, new, bad
    <3>5. StackInv(Append(Front(others), new), d)
        BY <2>5, <2>7, <3>3, StackReplace
    <3>6. Append(Front(others), new) # <<>>
      <4>1. Len(Append(Front(others), new)) = Len(others) /\ Len(others) # 0
          BY <1>3, <1>8, <2>7, <3>3, ReplaceLast
      <4> QED
          BY <4>1
    <3> QED
        BY <1>2, <2>4, <3>4, <3>5, <3>6, LoadInvNext
  <2> QED
      BY <2>6, <2>7
<1> QED
    BY <1>9, <1>10

LEMMA LoadStep ==
    LoadInv /\ [Next]_vars => LoadInv'
<1> SUFFICES ASSUME LoadInv, [Next]_vars PROVE LoadInv'
    OBVIOUS
<1>1. CASE UseCached
    BY <1>1, UseCachedKeeps
<1>2. CASE EnterFile
    BY <1>2, EnterFileKeeps
<1>3. CASE ReturnFile
    BY <1>3, ReturnFileKeeps
<1>4. CASE Visit \/ Visited \/ AllVisited \/ CallResolve
    BY <1>4, LoadStays DEF Visit, Visited, AllVisited, CallResolve, Fail
<1>5. CASE Resolve \/ AllResolved \/ CheckReferences
    BY <1>5, LoadStays DEF Resolve, AllResolved, CheckReferences, Fail
<1>6. CASE Ended \/ UNCHANGED vars
    BY <1>6, LoadStays DEF Ended, vars
<1> QED
    BY <1>1, <1>2, <1>3, <1>4, <1>5, <1>6 DEF Next

(* The load judges the includes right: it fails with an include error only   *)
(* if they are not in order, and if it goes on then they are, and the        *)
(* entities of every file that is reached are there.                         *)
THEOREM IncludesAreJudgedRight == Spec => []IncludesJudgedRight
<1>1. LoadInv => IncludesJudgedRight
  <2> SUFFICES ASSUME LoadInv PROVE IncludesJudgedRight
      OBVIOUS
  <2>1. \A p \in (Phases \ {"load"}) \cup (Errors \ {"include error"}) : p \notin {"load", "include error"}
      BY DEF Phases, Errors
  <2> QED
      BY <2>1, JudgedRoot DEF LoadInv, IncludesJudgedRight
<1> QED
    BY <1>1, LoadInit, LoadStep, PTL DEF Spec

(***************************************************************************)
(* The types that were loaded.  They and what they extend stay.            *)
(***************************************************************************)
IsLoaded == phase \notin {"load", "include error"}

LEMMA LoadedStays ==
    ASSUME UNCHANGED <<files, cache>>
    PROVE  /\ Loaded' = Loaded /\ Extending' = Extending /\ Orphan' = Orphan
           /\ \A t : SpecOf(t)' = SpecOf(t) /\ ParentOf(t)' = ParentOf(t)
           /\ \A t : ChildrenOf(t)' = ChildrenOf(t)
           /\ \A t, u : IsA(t, u)' = IsA(t, u)
<1>1. Loaded' = Loaded
    BY DEF Loaded
<1>2. \A t : SpecOf(t)' = SpecOf(t)
    BY DEF SpecOf
<1>3. \A t : ParentOf(t)' = ParentOf(t)
    BY <1>2 DEF ParentOf
<1>4. Orphan' = Orphan /\ \A t : ChildrenOf(t)' = ChildrenOf(t)
    BY <1>1, <1>3 DEF Orphan, ChildrenOf
<1>5. Extending' = Extending
    BY <1>1, <1>3 DEF Extending
<1>6. \A t, u : IsA(t, u)' = IsA(t, u)
    BY <1>1, <1>5 DEF IsA
<1> QED
    BY <1>1, <1>2, <1>3, <1>4, <1>5, <1>6

LEMMA LoadedSpecs ==
    ASSUME LoadInv, IsLoaded
    PROVE  /\ Loaded \subseteq Entities
           /\ \A t \in Loaded : SpecOf(t) \in TypeSpec
           /\ \A t \in Loaded : ParentOf(t) \in Entities \cup {NoParent}
<1>1. FilesOK /\ CacheInv(cache) /\ Root \in DOMAIN cache
    BY DEF LoadInv, IsLoaded
<1>2. cache[Root] \in SUBSET [name : Entities, source : Files]
    BY <1>1, CachedType
<1>3. \A e \in cache[Root] : e.name \in Entities /\ files[e.source].entities[e.name] \in TypeSpec
  <2> TAKE e \in cache[Root]
  <2>1. cache[Root] = UNION {Defined(f) : f \in Closure(Root)}
      BY <1>1, JudgedRoot
  <2>2. PICK f \in Closure(Root) : e \in Defined(f)
      BY <2>1
  <2>3. f \in Files /\ files[f] # Unreadable
      BY <1>1, CacheIsClosed DEF CacheInv, Judged
  <2>4. IsDocument(files[f]) /\ e.source = f /\ e.name \in DOMAIN files[f].entities
      BY <1>1, <2>2, <2>3 DEF FilesOK, Defined
  <2> QED
      BY <2>4 DEF IsDocument
<1>4. Loaded \subseteq Entities
    BY <1>2 DEF Loaded, NamesOf
<1>5. \A t \in Loaded : SpecOf(t) \in TypeSpec
  <2> TAKE t \in Loaded
  <2>1. \E e \in cache[Root] : e.name = t
      BY DEF Loaded, NamesOf
  <2> QED
      BY <1>3, <2>1 DEF SpecOf
<1> QED
    BY <1>4, <1>5 DEF ParentOf, TypeSpec

LEMMA ExtendingSteps ==
    /\ DOMAIN Extending = Loaded /\ Steps(Extending)
    /\ \A t \in Loaded : IsA(t, t)
    /\ \A t, u : IsA(t, u) => t \in Loaded /\ u \in Loaded
    /\ \A t, u : IsA(t, u) /\ ParentOf(u) \in Loaded => IsA(t, ParentOf(u))
    /\ \A t, u, v : IsA(t, u) /\ IsA(u, v) => IsA(t, v)
    /\ \A t \in Loaded : \A u : IsA(t, u) <=>
           u = t \/ (ParentOf(t) \in Loaded /\ IsA(ParentOf(t), u))
<1>1. DOMAIN Extending = Loaded /\ Steps(Extending)
    BY DEF Extending, Steps
<1>2. \A t \in Loaded : IsA(t, t)
    BY <1>1, ReachedSelf DEF IsA
<1>3. \A t, u : IsA(t, u) => t \in Loaded /\ u \in Loaded
    BY <1>1 DEF IsA, Reached
<1>4. \A t, u : IsA(t, u) /\ ParentOf(u) \in Loaded => IsA(t, ParentOf(u))
  <2> TAKE t, u
  <2> SUFFICES ASSUME IsA(t, u), ParentOf(u) \in Loaded PROVE IsA(t, ParentOf(u))
      OBVIOUS
  <2>1. Closed(Extending, Reached(Extending, t))
      BY <1>1, ReachedClosed
  <2>2. ParentOf(u) \in Extending[u]
      BY <1>3 DEF Extending
  <2> QED
      BY <2>1, <2>2 DEF Closed, IsA
<1>5. \A t, u, v : IsA(t, u) /\ IsA(u, v) => IsA(t, v)
    BY <1>1, ReachedTransitive DEF IsA
<1>6. ASSUME NEW t \in Loaded, NEW u
      PROVE  IsA(t, u) <=> u = t \/ (ParentOf(t) \in Loaded /\ IsA(ParentOf(t), u))
  <2>1. Reached(Extending, t) = {t} \cup (UNION {Reached(Extending, v) : v \in Extending[t]})
      BY <1>1, ReachedUnfolds
  <2>2. Extending[t] = {ParentOf(t)} \cap Loaded
      BY DEF Extending
  <2> QED
      BY <2>1, <2>2 DEF IsA
<1> QED
    BY <1>1, <1>2, <1>3, <1>4, <1>5, <1>6

(* A set of types that has the parents of its members has their ancestors.   *)
LEMMA AncestorsWithin ==
    ASSUME NEW S \in SUBSET Loaded,
           \A t \in S : ParentOf(t) \in Loaded => ParentOf(t) \in S,
           NEW t \in S, NEW u, IsA(t, u)
    PROVE  u \in S
<1>1. Closed(Extending, S)
    BY DEF Closed, Extending
<1> QED
    BY <1>1, ReachedByClosed DEF IsA

(* There is a next type as long as one is left.                              *)
LEMMA FirstIsLeft ==
    ASSUME LoadInv, IsLoaded, NEW done, Loaded \ done # {}
    PROVE  FirstNot(done) \in Loaded \ done
<1> DEFINE left == {n \in DOMAIN EntityOrder : EntityOrder[n] \in Loaded \ done}
<1>1. left \in SUBSET Nat /\ DOMAIN EntityOrder = 1 .. Len(EntityOrder) /\ Len(EntityOrder) \in Nat
    BY OrderAssumption
<1>2. left # {}
  <2>1. PICK t \in Loaded \ done : t \in Entities
      BY LoadedSpecs
  <2>2. \E n \in DOMAIN EntityOrder : EntityOrder[n] = t
      BY <2>1, OrderAssumption DEF Range
  <2> QED
      BY <2>1, <2>2
<1>3. PICK n \in left : \A m \in left : n <= m
    BY <1>1, <1>2, HasLeast
<1>4. \A m \in 1 .. (n - 1) : EntityOrder[m] \notin Loaded \ done
    BY <1>1, <1>3
<1>5. \E t \in Loaded \ done : \E k \in DOMAIN EntityOrder :
          EntityOrder[k] = t /\ \A m \in 1 .. (k - 1) : EntityOrder[m] \notin Loaded \ done
    BY <1>3, <1>4
<1> QED
    BY <1>5 DEF FirstNot

(***************************************************************************)
(* The walks over the types.  The calls s lead from a type to its          *)
(* ancestors, and none is nested in itself.                                *)
(***************************************************************************)
Faulty == Orphan \/ \E t \in Loaded : ParentOf(t) # NoParent /\ IsA(ParentOf(t), t)

CallsInv(s) ==
    /\ s \in Seq(Loaded)
    /\ \A m, n \in 1 .. Len(s) : m <= n => IsA(s[m], s[n])
    /\ \A m, n \in 1 .. Len(s) : s[m] = s[n] => m = n

(* The types v that were visited: their parents are, and they are not their   *)
(* own ancestors.                                                           *)
VisitedInv(v) ==
    /\ v \subseteq Loaded
    /\ \A t \in v : ParentOf(t) \in v \cup {NoParent}
    /\ \A t \in v : ParentOf(t) # NoParent => ~IsA(ParentOf(t), t)

WalkInv ==
    /\ ~IsLoaded => calls = <<>> /\ visited = {} /\ types = <<>>
    /\ IsLoaded => CallsInv(calls)
    /\ phase \in {"visit", "inheritance error"} =>
           /\ types = <<>> /\ VisitedInv(visited)
           /\ \A n \in 1 .. Len(calls) : calls[n] \notin visited
    /\ phase = "inheritance error" => Faulty
    /\ phase \in {"resolve", "type error", "references", "reference error", "done"} =>
           ~Faulty /\ visited = Loaded
    /\ DOMAIN types \subseteq Loaded
    /\ \A n \in 1 .. Len(calls) : calls[n] \notin DOMAIN types
    /\ phase \in {"references", "reference error", "done"} => DOMAIN types = Loaded
    /\ phase \in Phases \cup Errors

LEMMA WalkFramesStay ==
    ASSUME UNCHANGED <<files, cache>>
    PROVE  /\ Faulty' = Faulty
           /\ CallsInv(calls') => CallsInv(calls)'
           /\ VisitedInv(visited') => VisitedInv(visited)'
BY LoadedStays DEF Faulty, CallsInv, VisitedInv

LEMMA CallsPop ==
    ASSUME LoadInv, IsLoaded, CallsInv(calls), calls # <<>>
    PROVE  /\ CallsInv(Front(calls)) /\ Last(calls) \in Loaded
           /\ Last(calls) = calls[Len(calls)] /\ Len(calls) \in 1 .. Len(calls)
           /\ \A n \in 1 .. Len(Front(calls)) :
                  n \in 1 .. Len(calls) /\ Front(calls)[n] = calls[n] /\ calls[n] # Last(calls)
<1>1. calls \in Seq(Loaded)
    BY DEF CallsInv
<1> DEFINE r == Front(calls)
<1>2. /\ r \in Seq(Loaded) /\ Len(r) = Len(calls) - 1 /\ Len(calls) \in Nat \ {0}
      /\ \A n \in 1 .. (Len(calls) - 1) : r[n] = calls[n]
      /\ Last(calls) = calls[Len(calls)] /\ Last(calls) \in Loaded
    BY <1>1, FrontShortens
<1> HIDE DEF r
<1>3. /\ Len(calls) \in 1 .. Len(calls)
      /\ \A n \in 1 .. Len(r) : n \in 1 .. Len(calls) /\ r[n] = calls[n] /\ n # Len(calls)
    BY <1>2
<1>4. \A n \in 1 .. Len(r) : calls[n] # Last(calls)
    BY <1>2, <1>3 DEF CallsInv
<1>5. CallsInv(r)
    BY <1>2, <1>3 DEF CallsInv
<1> QED
    BY <1>2, <1>3, <1>4, <1>5 DEF r

LEMMA CallsPush ==
    ASSUME LoadInv, IsLoaded, CallsInv(calls), NEW t \in Loaded,
           \A n \in 1 .. Len(calls) : calls[n] # t,
           calls # <<>> => t = ParentOf(Last(calls))
    PROVE  /\ CallsInv(Append(calls, t))
           /\ \A n \in 1 .. Len(Append(calls, t)) :
                  Append(calls, t)[n] = t \/ (n \in 1 .. Len(calls) /\ Append(calls, t)[n] = calls[n])
<1> DEFINE s == Append(calls, t)
<1>1. /\ s \in Seq(Loaded) /\ Len(s) = Len(calls) + 1 /\ s[Len(calls) + 1] = t
      /\ \A n \in 1 .. Len(calls) : s[n] = calls[n]
      /\ Len(calls) \in Nat
      /\ \A n \in 1 .. (Len(calls) + 1) : n \in 1 .. Len(calls) \/ n = Len(calls) + 1
    BY DEF CallsInv
<1> HIDE DEF s
<1>2. \A n \in 1 .. Len(calls) : IsA(calls[n], t)
  <2> TAKE n \in 1 .. Len(calls)
  <2>1. calls # <<>>
      OBVIOUS
  <2>2. Last(calls) = calls[Len(calls)] /\ Len(calls) \in 1 .. Len(calls) /\ n <= Len(calls)
      BY <2>1, CallsPop, <1>1
  <2>3. IsA(calls[n], Last(calls)) /\ t = ParentOf(Last(calls))
      BY <2>1, <2>2 DEF CallsInv
  <2> QED
      BY <2>3, ExtendingSteps
<1>3. \A m, n \in 1 .. Len(s) : m <= n => IsA(s[m], s[n])
  <2> TAKE m, n \in 1 .. Len(s)
  <2>1. CASE n \in 1 .. Len(calls)
    <3>1. m <= n => m \in 1 .. Len(calls)
        BY <1>1, <2>1
    <3> QED
        BY <1>1, <2>1, <3>1 DEF CallsInv
  <2>2. CASE n = Len(calls) + 1
      BY <1>1, <1>2, <2>2, ExtendingSteps
  <2> QED
      BY <1>1, <2>1, <2>2
<1>4. \A m, n \in 1 .. Len(s) : s[m] = s[n] => m = n
    BY <1>1 DEF CallsInv
<1>5. CallsInv(s)
    BY <1>1, <1>3, <1>4 DEF CallsInv
<1> QED
    BY <1>1, <1>5 DEF s

LEMMA WalkInit ==
    Init => WalkInv
BY DEF Init, WalkInv, IsLoaded, Phases, Errors

(* A step that leaves the files, the cache, the calls and the types alone.   *)
LEMMA WalkStays ==
    ASSUME LoadInv, WalkInv, UNCHANGED <<files, cache, calls, visited, types>>,
           \/ phase' = phase
           \/ phase' = "include error" /\ ~IsLoaded
           \/ phase = "visit" /\ phase' = "inheritance error" /\ Faulty
           \/ phase = "visit" /\ phase' = "resolve" /\ ~Faulty /\ visited = Loaded
           \/ phase = "resolve" /\ phase' = "type error"
           \/ phase = "resolve" /\ phase' = "references" /\ DOMAIN types = Loaded
           \/ phase = "references" /\ phase' \in {"done", "reference error"}
    PROVE  WalkInv'
<1>1. Loaded' = Loaded
    BY LoadedStays
<1>2. Faulty' = Faulty
    BY WalkFramesStay
<1>3. CallsInv(calls) => CallsInv(calls)'
    BY WalkFramesStay
<1>4. VisitedInv(visited) => VisitedInv(visited)'
    BY WalkFramesStay
<1> QED
    BY <1>1, <1>2, <1>3, <1>4 DEF WalkInv, IsLoaded, Phases, Errors

LEMMA EmptyStack ==
    ASSUME NEW s, s = <<>>
    PROVE  /\ DOMAIN s = {} /\ \A S : s \in Seq(S)
           /\ \A n \in 1 .. Len(s) : FALSE
<1>1. DOMAIN s = {} /\ \A S : s \in Seq(S)
    OBVIOUS
<1>2. Len(s) = 0
    OBVIOUS
<1>3. \A n \in 1 .. 0 : FALSE
    OBVIOUS
<1> QED
    BY <1>1, <1>2, <1>3

LEMMA ReturnFileWalks ==
    ASSUME LoadInv, WalkInv, phase = "load", UNCHANGED <<calls, visited, types>>,
           phase' \in {"load", "include error", "visit"}
    PROVE  WalkInv'
<1>1. calls = <<>> /\ visited = {} /\ types = <<>>
    BY DEF WalkInv, IsLoaded
<1>2. calls' = <<>> /\ visited' = {} /\ types' = <<>>
    BY <1>1
<1>3. \A n \in 1 .. Len(calls') : FALSE
    BY <1>2, EmptyStack
<1>4. calls' \in Seq(Loaded')
    BY <1>2, EmptyStack
<1>5. CallsInv(calls)'
    BY <1>3, <1>4 DEF CallsInv
<1>6. VisitedInv(visited)'
    BY <1>2 DEF VisitedInv
<1>7. DOMAIN types' = {}
    BY <1>2, EmptyStack
<1> QED
    BY <1>2, <1>3, <1>5, <1>6, <1>7 DEF WalkInv, IsLoaded, Phases, Errors

LEMMA VisitWalks ==
    ASSUME LoadInv, WalkInv, Visit
    PROVE  WalkInv'
<1>1. phase = "visit" /\ IsLoaded
    BY DEF Visit, IsLoaded
<1>2. /\ CallsInv(calls) /\ VisitedInv(visited) /\ types = <<>>
      /\ \A n \in 1 .. Len(calls) : calls[n] \notin visited
    BY <1>1 DEF WalkInv
<1>3. CASE Orphan
    BY <1>1, <1>3, WalkStays DEF Visit, Fail, Faulty
<1>4. CASE ~Orphan
  <2> DEFINE next == IF calls = <<>> THEN FirstNot(visited) ELSE ParentOf(Last(calls))
  <2>1. visited # Loaded /\ next \notin visited \cup {NoParent}
      BY <1>4 DEF Visit
  <2>2. next \in Loaded
    <3>1. CASE calls = <<>>
      <4>1. Loaded \ visited # {}
          BY <1>2, <2>1 DEF VisitedInv
      <4> QED
          BY <1>1, <3>1, <4>1, FirstIsLeft
    <3>2. CASE calls # <<>>
        BY <1>1, <1>2, <1>4, <2>1, <3>2, CallsPop DEF Orphan
    <3> QED
        BY <3>1, <3>2
  <2> HIDE DEF next
  <2>3. CASE next \in Range(calls)
    <3>1. PICK m \in 1 .. Len(calls) : calls[m] = next
        BY <1>2, <2>3 DEF Range, CallsInv
    <3>2. calls # <<>>
        BY <3>1
    <3>3. Last(calls) = calls[Len(calls)] /\ Len(calls) \in 1 .. Len(calls) /\ Last(calls) \in Loaded
        BY <1>1, <1>2, <3>2, CallsPop
    <3>4. IsA(next, Last(calls))
      <4>1. m <= Len(calls)
          BY <3>1, <3>3
      <4> QED
          BY <1>2, <3>1, <3>3, <4>1 DEF CallsInv
    <3>5. ParentOf(Last(calls)) = next /\ next # NoParent
        BY <2>1, <3>2 DEF next
    <3>6. Faulty
        BY <3>3, <3>4, <3>5 DEF Faulty
    <3>7. phase' = "inheritance error" /\ UNCHANGED <<files, cache, calls, visited, types>>
        BY <1>4, <2>3 DEF Visit, Fail, next
    <3> QED
        BY <1>1, <3>6, <3>7, WalkStays
  <2>4. CASE next \notin Range(calls)
    <3>1. calls' = Append(calls, next) /\ UNCHANGED <<files, phase, cache, visited, types>>
        BY <1>4, <2>4 DEF Visit, next
    <3>2. \A n \in 1 .. Len(calls) : calls[n] # next
        BY <1>2, <2>4 DEF Range, CallsInv
    <3>3. calls # <<>> => next = ParentOf(Last(calls))
        BY DEF next
    <3>4. /\ CallsInv(calls')
          /\ \A n \in 1 .. Len(calls') : calls'[n] = next \/ (n \in 1 .. Len(calls) /\ calls'[n] = calls[n])
        BY <1>1, <1>2, <2>2, <3>1, <3>2, <3>3, CallsPush
    <3>5. \A n \in 1 .. Len(calls') : calls'[n] \notin visited
        BY <1>2, <2>1, <3>4
    <3>6. CallsInv(calls)' /\ VisitedInv(visited)'
        BY <1>2, <3>1, <3>4, WalkFramesStay
    <3> QED
        BY <1>1, <1>2, <3>1, <3>5, <3>6 DEF WalkInv, IsLoaded, Phases
  <2> QED
      BY <2>3, <2>4
<1> QED
    BY <1>3, <1>4

LEMMA VisitedWalks ==
    ASSUME LoadInv, WalkInv, Visited
    PROVE  WalkInv'
<1> DEFINE t == Last(calls)
<1>1. /\ phase = "visit" /\ IsLoaded /\ calls # <<>>
      /\ ParentOf(t) \in visited \cup {NoParent}
      /\ visited' = visited \cup {t} /\ calls' = Front(calls)
      /\ UNCHANGED <<files, phase, cache, types>>
    BY DEF Visited, IsLoaded
<1>2. /\ CallsInv(calls) /\ VisitedInv(visited) /\ types = <<>>
      /\ \A n \in 1 .. Len(calls) : calls[n] \notin visited
    BY <1>1 DEF WalkInv
<1>3. /\ CallsInv(calls') /\ t \in Loaded /\ t \notin visited
      /\ \A n \in 1 .. Len(calls') : calls'[n] \notin visited'
    BY <1>1, <1>2, CallsPop
<1>4. ParentOf(t) # NoParent => ~IsA(ParentOf(t), t)
  <2>1. \A u \in visited : ParentOf(u) \in Loaded => ParentOf(u) \in visited
    <3>1. NoParent \notin Loaded
        BY <1>1, LoadedSpecs, NamesAssumption
    <3> QED
        BY <1>2, <3>1 DEF VisitedInv
  <2> QED
      BY <1>1, <1>2, <1>3, <2>1, AncestorsWithin DEF VisitedInv
<1>5. VisitedInv(visited')
    BY <1>1, <1>2, <1>3, <1>4 DEF VisitedInv
<1>6. CallsInv(calls)' /\ VisitedInv(visited)'
    BY <1>1, <1>3, <1>5, WalkFramesStay
<1> QED
    BY <1>1, <1>2, <1>3, <1>6 DEF WalkInv, IsLoaded, Phases

LEMMA AllVisitedWalks ==
    ASSUME LoadInv, WalkInv, AllVisited
    PROVE  WalkInv'
<1>1. VisitedInv(visited) /\ visited = Loaded /\ ~Orphan
    BY DEF WalkInv, AllVisited
<1>2. ~Faulty
    BY <1>1 DEF VisitedInv, Faulty
<1>3. phase = "visit" /\ phase' = "resolve" /\ UNCHANGED <<files, cache, calls, visited, types>>
    BY DEF AllVisited
<1> QED
    BY <1>1, <1>2, <1>3, WalkStays

LEMMA CallResolveWalks ==
    ASSUME LoadInv, WalkInv, CallResolve
    PROVE  WalkInv'
<1> DEFINE next == IF calls = <<>> THEN FirstNot(DOMAIN types) ELSE ParentOf(Last(calls))
<1>1. /\ phase = "resolve" /\ IsLoaded /\ Loaded # DOMAIN types
      /\ next \notin DOMAIN types \cup {NoParent}
      /\ calls' = Append(calls, next) /\ UNCHANGED <<files, phase, cache, visited, types>>
    BY DEF CallResolve, IsLoaded
<1>2. /\ CallsInv(calls) /\ ~Faulty /\ visited = Loaded /\ DOMAIN types \subseteq Loaded
      /\ \A n \in 1 .. Len(calls) : calls[n] \notin DOMAIN types
    BY <1>1 DEF WalkInv
<1>3. next \in Loaded
  <2>1. CASE calls = <<>>
    <3>1. Loaded \ DOMAIN types # {}
        BY <1>1, <1>2
    <3> QED
        BY <1>1, <2>1, <3>1, FirstIsLeft
  <2>2. CASE calls # <<>>
      BY <1>1, <1>2, <2>2, CallsPop DEF Faulty, Orphan
  <2> QED
      BY <2>1, <2>2
<1>4. calls # <<>> => next = ParentOf(Last(calls))
    OBVIOUS
<1> HIDE DEF next
<1>5. ASSUME NEW n \in 1 .. Len(calls) PROVE calls[n] # next
  <2>1. calls # <<>>
      OBVIOUS
  <2>2. Last(calls) = calls[Len(calls)] /\ Len(calls) \in 1 .. Len(calls) /\ Last(calls) \in Loaded
      BY <1>1, <1>2, <2>1, CallsPop
  <2>3. n <= Len(calls)
      BY <2>2
  <2>4. IsA(calls[n], Last(calls))
      BY <1>2, <2>2, <2>3 DEF CallsInv
  <2> QED
      BY <1>1, <1>2, <1>4, <2>1, <2>2, <2>4 DEF Faulty
<1>6. /\ CallsInv(calls')
      /\ \A n \in 1 .. Len(calls') : calls'[n] = next \/ (n \in 1 .. Len(calls) /\ calls'[n] = calls[n])
    BY <1>1, <1>2, <1>3, <1>4, <1>5, CallsPush
<1>7. \A n \in 1 .. Len(calls') : calls'[n] \notin DOMAIN types
    BY <1>1, <1>2, <1>6
<1>8. CallsInv(calls)' /\ Faulty' = Faulty /\ Loaded' = Loaded
    BY <1>1, <1>6, WalkFramesStay, LoadedStays
<1> QED
    BY <1>1, <1>2, <1>7, <1>8 DEF WalkInv, IsLoaded, Phases

LEMMA ResolveWalks ==
    ASSUME LoadInv, WalkInv, Resolve
    PROVE  WalkInv'
<1> DEFINE t == Last(calls)
<1>1. phase = "resolve" /\ IsLoaded /\ calls # <<>>
    BY DEF Resolve, IsLoaded
<1>2. /\ CallsInv(calls) /\ ~Faulty /\ visited = Loaded /\ DOMAIN types \subseteq Loaded
      /\ \A n \in 1 .. Len(calls) : calls[n] \notin DOMAIN types
    BY <1>1 DEF WalkInv
<1>3. CASE phase' = "type error" /\ UNCHANGED <<files, frames, cache, calls, visited, types>>
    BY <1>1, <1>3, WalkStays
<1>4. CASE /\ DOMAIN types' = DOMAIN types \cup {t} /\ calls' = Front(calls)
           /\ UNCHANGED <<files, phase, frames, cache, visited>>
  <2>1. /\ CallsInv(calls') /\ t \in Loaded
        /\ \A n \in 1 .. Len(calls') : calls'[n] \notin DOMAIN types'
      BY <1>1, <1>2, <1>4, CallsPop
  <2>2. CallsInv(calls)' /\ Faulty' = Faulty /\ Loaded' = Loaded
      BY <1>4, <2>1, WalkFramesStay, LoadedStays
  <2> QED
      BY <1>1, <1>2, <1>4, <2>1, <2>2 DEF WalkInv, IsLoaded, Phases
<1> QED
    BY <1>3, <1>4 DEF Resolve, Fail

LEMMA WalkStep ==
    LoadInv /\ WalkInv /\ [Next]_vars => WalkInv'
<1> SUFFICES ASSUME LoadInv, WalkInv, [Next]_vars PROVE WalkInv'
    OBVIOUS
<1>1. CASE UseCached \/ EnterFile \/ ReturnFile
    BY <1>1, ReturnFileWalks DEF UseCached, EnterFile, ReturnFile, Fail
<1>2. CASE Visit
    BY <1>2, VisitWalks
<1>3. CASE Visited
    BY <1>3, VisitedWalks
<1>4. CASE AllVisited
    BY <1>4, AllVisitedWalks
<1>5. CASE CallResolve
    BY <1>5, CallResolveWalks
<1>6. CASE Resolve
    BY <1>6, ResolveWalks
<1>7. CASE AllResolved \/ CheckReferences
    BY <1>7, WalkStays DEF AllResolved, CheckReferences, Fail
<1>8. CASE Ended \/ UNCHANGED vars
    BY <1>8, WalkStays DEF Ended, vars
<1> QED
    BY <1>1, <1>2, <1>3, <1>4, <1>5, <1>6, <1>7, <1>8 DEF Next

(* No file is loaded within its own load and no type visited or resolved     *)
(* within its own: the recursion ends whatever includes and parents the user *)
(* wrote.                                                                   *)
THEOREM TheRecursionEnds == Spec => []RecursionEnds
<1>1. LoadInv /\ WalkInv => RecursionEnds
  <2> SUFFICES ASSUME LoadInv, WalkInv PROVE RecursionEnds
      OBVIOUS
  <2>1. \A n, m \in DOMAIN frames : frames[n].file = frames[m].file => n = m
    <3>1. frames \in Seq(FrameType)
        BY DEF LoadInv, StackInv
    <3>2. DOMAIN frames = 1 .. Len(frames)
        BY <3>1
    <3> QED
        BY <3>2 DEF LoadInv, StackInv
  <2>2. \A n, m \in DOMAIN calls : calls[n] = calls[m] => n = m
    <3>1. CASE calls = <<>>
        BY <3>1
    <3>2. CASE CallsInv(calls)
      <4>1. DOMAIN calls = 1 .. Len(calls)
          BY <3>2 DEF CallsInv
      <4> QED
          BY <3>2, <4>1 DEF CallsInv
    <3> QED
        BY <3>1, <3>2 DEF WalkInv
  <2> QED
      BY <2>1, <2>2 DEF RecursionEnds
<1> QED
    BY <1>1, LoadInit, LoadStep, WalkInit, WalkStep, PTL DEF Spec

(* The types are refused for their inheritance exactly if one extends an      *)
(* unknown type or itself, however indirectly.                               *)
THEOREM InheritanceIsJudgedRight == Spec => []InheritanceJudgedRight
<1>1. WalkInv => InheritanceJudgedRight
    BY DEF WalkInv, InheritanceJudgedRight, Faulty
<1> QED
    BY <1>1, LoadInit, LoadStep, WalkInit, WalkStep, PTL DEF Spec

(***************************************************************************)
(* The resolved types d.  A type is resolved after its parent, so what     *)
(* holds of a type and its ancestors is kept from the parent to the child. *)
(***************************************************************************)
Family(t) == {u \in Loaded : IsA(t, u)}

(* The names of the fields that a type declares itself.                      *)
Own(t) == {LocalFields(SpecOf(t))[n].name : n \in DOMAIN LocalFields(SpecOf(t))}

TypeInv(t, d) ==
    /\ Family(t) \subseteq DOMAIN d
    /\ d[t].identifier \in Identifiers
    /\ \A u \in Family(t) : d[u].identifier = d[t].identifier
    /\ d[t].ancestors \in Seq(Loaded) /\ Range(d[t].ancestors) = Family(t) \ {t}
    /\ DOMAIN d[t].fields = UNION {Own(u) : u \in Family(t)}
    /\ \A u, v \in Family(t) : u # v => Own(u) \cap Own(v) = {}
    /\ d[t].identifier = PathId => ~d[t].data
    /\ \A name \in DOMAIN d[t].fields :
           FieldOf[d[t].identifier] = name => ~IsDerived(d[t].fields[name])

TypesInv(d) == \A t \in DOMAIN d : TypeInv(t, d)

LEMMA TypesStay ==
    ASSUME UNCHANGED <<files, cache>>, TypesInv(types')
    PROVE  TypesInv(types)'
<1>1. \A t : SpecOf(t)' = SpecOf(t)
    BY LoadedStays
<1>2. \A t : Own(t)' = Own(t)
    BY <1>1 DEF Own
<1>3. \A t : Family(t)' = Family(t)
    BY LoadedStays DEF Family
<1>4. Loaded' = Loaded
    BY LoadedStays
<1>5. ASSUME NEW t \in DOMAIN types' PROVE TypeInv(t, types)'
  <2>1. TypeInv(t, types')
      BY DEF TypesInv
  <2> QED
      BY <1>2, <1>3, <1>4, <2>1 DEF TypeInv
<1> QED
    BY <1>5 DEF TypesInv

(* The family of a type in a hierarchy without faults.                       *)
LEMMA FamilyUnfolds ==
    ASSUME LoadInv, IsLoaded, ~Faulty, NEW t \in Loaded
    PROVE  /\ t \in Family(t)
           /\ ParentOf(t) = NoParent => Family(t) = {t}
           /\ ParentOf(t) # NoParent =>
                  /\ ParentOf(t) \in Loaded /\ t \notin Family(ParentOf(t))
                  /\ Family(t) = {t} \cup Family(ParentOf(t))
                  /\ ParentOf(t) \in Family(ParentOf(t))
<1>1. NoParent \notin Loaded
    BY LoadedSpecs, NamesAssumption
<1>2. ParentOf(t) # NoParent => ParentOf(t) \in Loaded /\ ~IsA(ParentOf(t), t)
    BY DEF Faulty, Orphan
<1>3. \A u : IsA(t, u) <=> u = t \/ (ParentOf(t) \in Loaded /\ IsA(ParentOf(t), u))
    BY ExtendingSteps
<1>4. t \in Family(t) /\ (ParentOf(t) \in Loaded => ParentOf(t) \in Family(ParentOf(t)))
    BY ExtendingSteps DEF Family
<1> QED
    BY <1>1, <1>2, <1>3, <1>4 DEF Family

(* Two types are not each other's ancestors.                                 *)
LEMMA FamilyIsOrdered ==
    ASSUME LoadInv, IsLoaded, ~Faulty, NEW t \in Loaded, NEW u \in Family(t) \ {t}
    PROVE  t \notin Family(u)
<1>1. ParentOf(t) # NoParent /\ u \in Family(ParentOf(t)) /\ t \notin Family(ParentOf(t))
    BY FamilyUnfolds
<1>2. \A v, w, x : IsA(v, w) /\ IsA(w, x) => IsA(v, x)
    BY ExtendingSteps
<1> QED
    BY <1>1, <1>2 DEF Family

LEMMA AppendRange ==
    ASSUME NEW S, NEW s \in Seq(S), NEW e \in S
    PROVE  Append(s, e) \in Seq(S) /\ Range(Append(s, e)) = Range(s) \cup {e}
<1> DEFINE r == Append(s, e)
<1>1. /\ r \in Seq(S) /\ Len(r) = Len(s) + 1 /\ r[Len(s) + 1] = e
      /\ \A n \in 1 .. Len(s) : r[n] = s[n]
      /\ Len(s) \in Nat /\ DOMAIN s = 1 .. Len(s)
    OBVIOUS
<1> HIDE DEF r
<1>2. DOMAIN r = 1 .. (Len(s) + 1)
    BY <1>1
<1>3. /\ \A n \in 1 .. (Len(s) + 1) : n \in 1 .. Len(s) \/ n = Len(s) + 1
      /\ \A n \in 1 .. Len(s) : n \in 1 .. (Len(s) + 1)
      /\ Len(s) + 1 \in 1 .. (Len(s) + 1)
    BY <1>1
<1>4. Range(r) = Range(s) \cup {e}
    BY <1>1, <1>2, <1>3 DEF Range
<1> QED
    BY <1>1, <1>4 DEF r

LEMMA DefinitionParts ==
    ASSUME NEW t, NEW spec, NEW parent, NEW identifier, NEW x,
           x = Definition(t, spec, parent, identifier)
    PROVE  /\ x.identifier = identifier /\ x.data = spec.data
           /\ spec.extends = NoParent => x.ancestors = <<>>
           /\ spec.extends # NoParent => x.ancestors = Append(parent.ancestors, spec.extends)
           /\ DOMAIN x.fields = DOMAIN parent.fields \cup DOMAIN FieldMap(LocalFields(spec))
           /\ \A name \in DOMAIN FieldMap(LocalFields(spec)) :
                  x.fields[name] = FieldMap(LocalFields(spec))[name]
           /\ \A name \in DOMAIN parent.fields \ DOMAIN FieldMap(LocalFields(spec)) :
                  x.fields[name] = parent.fields[name]
<1> DEFINE own == FieldMap(LocalFields(spec))
           all == [name \in DOMAIN parent.fields \cup DOMAIN own |->
                      IF name \in DOMAIN own THEN own[name] ELSE parent.fields[name]]
           up  == IF spec.extends = NoParent THEN <<>> ELSE Append(parent.ancestors, spec.extends)
<1>1. x = [ancestors |-> up, identifier |-> identifier, fields |-> all,
           include |-> spec.include, data |-> spec.data]
    BY DEF Definition
<1> HIDE DEF own, all, up
<1>2. x.identifier = identifier /\ x.data = spec.data /\ x.ancestors = up /\ x.fields = all
    BY <1>1
<1> QED
    BY <1>2 DEF own, all, up

(* The type that Resolve adds.                                              *)
LEMMA ResolvedType ==
    ASSUME LoadInv, IsLoaded, ~Faulty, TypesInv(types), DOMAIN types \subseteq Loaded,
           NEW t \in Loaded, t \notin DOMAIN types,
           ParentOf(t) \in DOMAIN types \cup {NoParent},
           NEW identifier,
           identifier = IF SpecOf(t).extends = NoParent THEN SpecOf(t).identifier
                        ELSE ParentDefinition(t).identifier,
           NEW hasChildren,
           IdentifierAccepted(SpecOf(t), identifier),
           DataAccepted(SpecOf(t), identifier, hasChildren),
           FieldsAccepted(SpecOf(t), identifier, hasChildren),
           FieldsMerge(SpecOf(t), ParentDefinition(t)),
           NEW d, DOMAIN d = DOMAIN types \cup {t},
           \A u \in DOMAIN types : d[u] = types[u],
           d[t] = Definition(t, SpecOf(t), ParentDefinition(t), identifier)
    PROVE  TypeInv(t, d)
<1> DEFINE spec == SpecOf(t)
           p    == ParentOf(t)
           def  == ParentDefinition(t)
<1>1. /\ spec \in TypeSpec /\ p = spec.extends
      /\ FieldMap(LocalFields(spec)) = [name \in Own(t) |-> FieldMap(LocalFields(spec))[name]]
    BY LoadedSpecs DEF ParentOf, FieldMap, Own
<1> DEFINE own == FieldMap(LocalFields(spec))
<1>2. /\ d[t].identifier = identifier /\ d[t].data = spec.data
      /\ p = NoParent => d[t].ancestors = <<>>
      /\ p # NoParent => d[t].ancestors = Append(def.ancestors, p)
      /\ DOMAIN d[t].fields = DOMAIN def.fields \cup Own(t)
      /\ \A name \in Own(t) : d[t].fields[name] = own[name]
      /\ \A name \in DOMAIN def.fields \ Own(t) : d[t].fields[name] = def.fields[name]
  <2>1. DOMAIN own = Own(t)
      BY <1>1
  <2>2. d[t] = Definition(t, spec, def, identifier) /\ p = spec.extends
      BY <1>1
  <2> HIDE DEF spec, def, p
  <2> QED
      BY <2>1, <2>2, DefinitionParts
<1>3. /\ ~(identifier = PathId /\ spec.data)
      /\ \A name \in Own(t) : IsDerived(own[name]) => FieldOf[identifier] # name
  <2>1. DOMAIN own = Own(t)
      BY <1>1
  <2> QED
      BY <2>1 DEF DataAccepted, FieldsAccepted
<1> HIDE DEF own
<1>4. CASE p = NoParent
  <2>1. Family(t) = {t}
      BY <1>4, FamilyUnfolds
  <2>2. identifier \in Identifiers
      BY <1>1, <1>4 DEF IdentifierAccepted, TypeSpec
  <2>3. DOMAIN def.fields = {}
      BY <1>4, EmptyStack DEF ParentDefinition, NoDefinition
  <2>4. d[t].ancestors = <<>> /\ <<>> \in Seq(Loaded) /\ Range(<<>>) = {}
      BY <1>2, <1>4, EmptyStack DEF Range
  <2>5. /\ DOMAIN d[t].fields = Own(t)
        /\ \A name \in Own(t) : d[t].fields[name] = own[name]
      BY <1>2, <2>3
  <2>6. \A name \in DOMAIN d[t].fields :
            FieldOf[d[t].identifier] = name => ~IsDerived(d[t].fields[name])
      BY <1>2, <1>3, <2>5
  <2>7. UNION {Own(u) : u \in Family(t)} = Own(t) /\ Family(t) \subseteq DOMAIN d
      BY <2>1
  <2>8. \A u \in Family(t) : d[u].identifier = d[t].identifier
      BY <2>1
  <2>9. d[t].ancestors \in Seq(Loaded) /\ Range(d[t].ancestors) = Family(t) \ {t}
      BY <2>1, <2>4
  <2>10. \A u, v \in Family(t) : u # v => Own(u) \cap Own(v) = {}
      BY <2>1
  <2> QED
      BY <1>2, <1>3, <2>2, <2>5, <2>6, <2>7, <2>8, <2>9, <2>10 DEF TypeInv
<1>5. CASE p # NoParent
  <2>1. /\ p \in DOMAIN types /\ p \in Loaded /\ def = types[p] /\ TypeInv(p, types)
        /\ identifier = def.identifier /\ d[p] = types[p]
      BY <1>1, <1>5 DEF ParentDefinition, TypesInv
  <2>2. /\ t \notin Family(p) /\ Family(t) = {t} \cup Family(p) /\ p \in Family(p)
      BY <1>5, FamilyUnfolds
  <2>3. /\ Family(p) \subseteq DOMAIN types
        /\ identifier \in Identifiers
        /\ \A u \in Family(p) : d[u] = types[u] /\ types[u].identifier = identifier
        /\ def.ancestors \in Seq(Loaded) /\ Range(def.ancestors) = Family(p) \ {p}
        /\ DOMAIN def.fields = UNION {Own(u) : u \in Family(p)}
        /\ \A u, v \in Family(p) : u # v => Own(u) \cap Own(v) = {}
        /\ \A name \in DOMAIN def.fields :
               FieldOf[identifier] = name => ~IsDerived(def.fields[name])
      BY <2>1 DEF TypeInv
  <2>4. Own(t) \cap DOMAIN def.fields = {}
      BY <1>1, <1>5 DEF FieldsMerge, Own
  <2>5. Family(t) \subseteq DOMAIN d /\ \A u \in Family(t) : d[u].identifier = d[t].identifier
      BY <1>2, <2>2, <2>3
  <2>6. d[t].ancestors \in Seq(Loaded) /\ Range(d[t].ancestors) = Family(t) \ {t}
    <3>1. d[t].ancestors = Append(def.ancestors, p)
        BY <1>2, <1>5
    <3>2. d[t].ancestors \in Seq(Loaded) /\ Range(d[t].ancestors) = Range(def.ancestors) \cup {p}
      <4> DEFINE upper == def.ancestors
      <4>1. upper \in Seq(Loaded) /\ p \in Loaded /\ d[t].ancestors = Append(upper, p)
          BY <2>1, <2>3, <3>1
      <4> HIDE DEF p, upper
      <4>2. Append(upper, p) \in Seq(Loaded) /\ Range(Append(upper, p)) = Range(upper) \cup {p}
          BY <4>1, AppendRange
      <4> QED
          BY <4>1, <4>2 DEF upper
    <3> QED
        BY <2>2, <2>3, <3>2
  <2>7. DOMAIN d[t].fields = DOMAIN def.fields \cup Own(t)
      BY <1>2
  <2>8. DOMAIN d[t].fields = UNION {Own(u) : u \in Family(t)}
      BY <2>2, <2>3, <2>7
  <2>9. \A u, v \in Family(t) : u # v => Own(u) \cap Own(v) = {}
      BY <2>2, <2>3, <2>4
  <2>10. \A name \in DOMAIN d[t].fields :
             FieldOf[d[t].identifier] = name => ~IsDerived(d[t].fields[name])
    <3> TAKE name \in DOMAIN d[t].fields
    <3>1. CASE name \in Own(t)
        BY <1>2, <1>3, <3>1
    <3>2. CASE name \notin Own(t)
        BY <1>2, <2>3, <2>7, <3>2
    <3> QED
        BY <3>1, <3>2
  <2> QED
      BY <1>2, <1>3, <2>3, <2>5, <2>6, <2>8, <2>9, <2>10 DEF TypeInv
<1> QED
    BY <1>4, <1>5

(* The types that were there stay what they are.                            *)
LEMMA OldTypes ==
    ASSUME TypesInv(types), NEW d, DOMAIN types \subseteq DOMAIN d,
           \A u \in DOMAIN types : d[u] = types[u], NEW t \in DOMAIN types
    PROVE  TypeInv(t, d)
BY DEF TypesInv, TypeInv

LEMMA ResolveKeepsTypes ==
    ASSUME LoadInv, WalkInv, TypesInv(types), Resolve
    PROVE  TypesInv(types')
<1> DEFINE t           == Last(calls)
           spec        == SpecOf(t)
           parent      == ParentDefinition(t)
           identifier  == IF spec.extends = NoParent THEN spec.identifier ELSE parent.identifier
           hasChildren == ChildrenOf(t) # {}
           refused     == \/ ~IdentifierAccepted(spec, identifier)
                          \/ ~DataAccepted(spec, identifier, hasChildren)
                          \/ ~FieldsAccepted(spec, identifier, hasChildren)
                          \/ ~FieldsMerge(spec, parent)
<1>1. phase = "resolve" /\ IsLoaded /\ calls # <<>> /\ ParentOf(t) \in DOMAIN types \cup {NoParent}
    BY DEF Resolve, IsLoaded
<1>2. /\ CallsInv(calls) /\ ~Faulty /\ DOMAIN types \subseteq Loaded
      /\ \A n \in 1 .. Len(calls) : calls[n] \notin DOMAIN types
    BY <1>1 DEF WalkInv
<1>3. t \in Loaded /\ t \notin DOMAIN types
    BY <1>1, <1>2, CallsPop
<1>4. CASE refused
    BY <1>4 DEF Resolve, Fail
<1>5. CASE ~refused
  <2>1. types' = [u \in DOMAIN types \cup {t} |->
                     IF u = t THEN Definition(t, spec, parent, identifier) ELSE types[u]]
      BY <1>5 DEF Resolve
  <2>2. /\ DOMAIN types' = DOMAIN types \cup {t}
        /\ \A u \in DOMAIN types : types'[u] = types[u]
        /\ types'[t] = Definition(t, spec, parent, identifier)
    <3> HIDE DEF t, spec, parent, identifier
    <3> QED
        BY <1>3, <2>1
  <2>3. TypeInv(t, types')
      BY <1>1, <1>2, <1>3, <1>5, <2>2, ResolvedType
  <2>4. \A u \in DOMAIN types : TypeInv(u, types')
      BY <2>2, OldTypes
  <2> QED
      BY <2>2, <2>3, <2>4 DEF TypesInv
<1> QED
    BY <1>4, <1>5

LEMMA TypesInit ==
    Init => TypesInv(types)
<1> SUFFICES ASSUME Init PROVE TypesInv(types)
    OBVIOUS
<1>1. DOMAIN types = {}
    BY EmptyStack DEF Init
<1> QED
    BY <1>1 DEF TypesInv

LEMMA TypesStep ==
    LoadInv /\ WalkInv /\ TypesInv(types) /\ [Next]_vars => TypesInv(types)'
<1> SUFFICES ASSUME LoadInv, WalkInv, TypesInv(types), [Next]_vars PROVE TypesInv(types)'
    OBVIOUS
<1>1. CASE Resolve
  <2>1. UNCHANGED <<files, cache>>
      BY <1>1 DEF Resolve, Fail
  <2> QED
      BY <1>1, <2>1, ResolveKeepsTypes, TypesStay
<1>2. CASE ReturnFile
  <2>1. types = <<>> /\ types' = types
      BY <1>2 DEF ReturnFile, WalkInv, IsLoaded, Fail
  <2>2. DOMAIN types' = {}
      BY <2>1, EmptyStack
  <2> QED
      BY <2>2 DEF TypesInv
<1>3. CASE UNCHANGED <<files, cache, types>>
    BY <1>3, TypesStay
<1>4. UseCached \/ EnterFile \/ Visit \/ Visited \/ AllVisited \/ CallResolve \/ AllResolved
          \/ CheckReferences \/ Ended \/ UNCHANGED vars => UNCHANGED <<files, cache, types>>
    BY DEF UseCached, EnterFile, Visit, Visited, AllVisited, CallResolve, AllResolved,
       CheckReferences, Ended, Fail, vars
<1> QED
    BY <1>1, <1>2, <1>3, <1>4 DEF Next

(* The load is always in one of its phases, at files and types that there     *)
(* are, and every type that is resolved has an identifier.                   *)
THEOREM LoadTypeCorrect == Spec => []LoadTypeOK
<1>1. LoadInv /\ WalkInv /\ TypesInv(types) => LoadTypeOK
  <2> SUFFICES ASSUME LoadInv, WalkInv, TypesInv(types) PROVE LoadTypeOK
      OBVIOUS
  <2>1. phase \in Phases \cup Errors /\ DOMAIN cache \subseteq Files
      BY DEF WalkInv, LoadInv, CacheInv
  <2>2. \A n \in DOMAIN frames : frames[n].file \in Files
    <3>1. frames \in Seq(FrameType)
        BY DEF LoadInv, StackInv
    <3>2. \A n \in DOMAIN frames : frames[n] \in FrameType
        BY <3>1
    <3> QED
        BY <3>2 DEF FrameType
  <2>3. Range(calls) \cup visited \cup DOMAIN types \subseteq Entities
    <3>1. CASE ~IsLoaded
      <4>1. calls = <<>> /\ visited = {} /\ types = <<>>
          BY <3>1 DEF WalkInv
      <4> QED
          BY <4>1, EmptyStack DEF Range
    <3>2. CASE IsLoaded
      <4>1. Loaded \subseteq Entities
          BY <3>2, LoadedSpecs
      <4>2. Range(calls) \subseteq Loaded /\ DOMAIN types \subseteq Loaded
        <5>1. calls \in Seq(Loaded) /\ DOMAIN types \subseteq Loaded
            BY <3>2 DEF WalkInv, CallsInv
        <5>2. \A n \in DOMAIN calls : calls[n] \in Loaded
            BY <5>1
        <5> QED
            BY <5>1, <5>2 DEF Range
      <4>3. visited \subseteq Loaded
          BY <3>2 DEF WalkInv, VisitedInv, IsLoaded, Phases, Errors
      <4> QED
          BY <4>1, <4>2, <4>3
    <3> QED
        BY <3>1, <3>2
  <2>4. \A t \in DOMAIN types : types[t].identifier \in Identifiers
      BY DEF TypesInv, TypeInv
  <2> QED
      BY <2>1, <2>2, <2>3, <2>4 DEF LoadTypeOK
<1> QED
    BY <1>1, LoadInit, LoadStep, WalkInit, WalkStep, TypesInit, TypesStep, PTL DEF Spec

LEMMA ResolvedIsLoaded ==
    ASSUME WalkInv, NEW t \in DOMAIN types
    PROVE  IsLoaded /\ ~Faulty /\ t \in Loaded
<1>1. types # <<>>
    BY EmptyStack
<1>2. IsLoaded /\ phase \notin {"visit", "inheritance error"}
    BY <1>1 DEF WalkInv
<1>3. phase \in {"resolve", "type error", "references", "reference error", "done"}
    BY <1>2 DEF WalkInv, IsLoaded, Phases, Errors
<1> QED
    BY <1>2, <1>3 DEF WalkInv

(* A resolved type has what it and its ancestors declare: its ancestors are   *)
(* all of them and nothing else, no hierarchy is circular, and every field    *)
(* comes from exactly one of them.                                           *)
THEOREM ResolvedFromAncestors == Spec => []ResolvedAgainstAncestors
<1>1. LoadInv /\ WalkInv /\ TypesInv(types) => ResolvedAgainstAncestors
  <2> SUFFICES ASSUME LoadInv, WalkInv, TypesInv(types), NEW t \in DOMAIN types
               PROVE  /\ Range(types[t].ancestors) = Family(t) \ {t}
                      /\ \A n \in DOMAIN types[t].ancestors :
                             t \notin Range(types[types[t].ancestors[n]].ancestors)
                      /\ DOMAIN types[t].fields =
                             UNION {DOMAIN FieldMap(LocalFields(SpecOf(u))) : u \in Family(t)}
                      /\ \A name \in DOMAIN types[t].fields :
                             Cardinality({u \in Family(t) :
                                 \E n \in DOMAIN LocalFields(SpecOf(u)) :
                                     LocalFields(SpecOf(u))[n].name = name}) = 1
      BY DEF ResolvedAgainstAncestors, Family
  <2>1. IsLoaded /\ ~Faulty /\ t \in Loaded
      BY ResolvedIsLoaded
  <2>2. /\ Family(t) \subseteq DOMAIN types
        /\ Range(types[t].ancestors) = Family(t) \ {t}
        /\ DOMAIN types[t].fields = UNION {Own(u) : u \in Family(t)}
        /\ \A u, v \in Family(t) : u # v => Own(u) \cap Own(v) = {}
      BY DEF TypesInv, TypeInv
  <2>3. \A u : DOMAIN FieldMap(LocalFields(SpecOf(u))) = Own(u)
      BY DEF FieldMap, Own
  <2>4. ASSUME NEW n \in DOMAIN types[t].ancestors
        PROVE  t \notin Range(types[types[t].ancestors[n]].ancestors)
    <3> DEFINE u == types[t].ancestors[n]
    <3>1. u \in Family(t) \ {t}
        BY <2>2 DEF Range
    <3>2. Range(types[u].ancestors) = Family(u) \ {u}
        BY <2>2, <3>1 DEF TypesInv, TypeInv
    <3> HIDE DEF u
    <3>3. t \notin Family(u)
        BY <2>1, <3>1, FamilyIsOrdered
    <3> QED
        BY <3>2, <3>3 DEF u
  <2>5. ASSUME NEW name \in DOMAIN types[t].fields
        PROVE  Cardinality({u \in Family(t) :
                   \E n \in DOMAIN LocalFields(SpecOf(u)) : LocalFields(SpecOf(u))[n].name = name}) = 1
    <3> DEFINE by == {u \in Family(t) :
                   \E n \in DOMAIN LocalFields(SpecOf(u)) : LocalFields(SpecOf(u))[n].name = name}
    <3>1. by = {u \in Family(t) : name \in Own(u)}
        BY DEF Own
    <3> HIDE DEF by
    <3>2. PICK u \in Family(t) : name \in Own(u)
        BY <2>2
    <3>3. by = {u}
        BY <2>2, <3>1, <3>2
    <3>4. Cardinality(by) = 1
        BY <3>3, FS_Singleton
    <3> QED
        BY <3>4 DEF by
  <2> QED
      BY <2>2, <2>3, <2>4, <2>5
<1> QED
    BY <1>1, LoadInit, LoadStep, WalkInit, WalkStep, TypesInit, TypesStep, PTL DEF Spec

(* What the store takes for granted of a configuration that was loaded: one   *)
(* identifier for all types of a hierarchy, none of them a path where objects *)
(* are inline, none a derived field, and assignable types that nest.         *)
THEOREM TheStoreMayRely == Spec => []StoreMayRely
<1>1. LoadInv /\ WalkInv /\ TypesInv(types) => StoreMayRely
  <2> SUFFICES ASSUME LoadInv, WalkInv, TypesInv(types), phase = "done", NEW t \in Loaded
               PROVE  /\ \A u \in AssignableTypes(t) :
                             /\ types[u].identifier = types[t].identifier
                             /\ AssignableTypes(u) \subseteq AssignableTypes(t)
                      /\ types[t].identifier = PathId => ~types[t].data
                      /\ \A name \in DOMAIN types[t].fields :
                             FieldOf[types[t].identifier] = name => ~IsDerived(types[t].fields[name])
      BY DEF StoreMayRely
  <2>1. DOMAIN types = Loaded
      BY DEF WalkInv
  <2>2. \A u \in Loaded : TypeInv(u, types)
      BY <2>1 DEF TypesInv
  <2>3. \A u \in AssignableTypes(t) : u \in Loaded /\ IsA(u, t)
      BY ExtendingSteps DEF AssignableTypes, DescendantTypes
  <2>4. ASSUME NEW u \in AssignableTypes(t)
        PROVE  types[u].identifier = types[t].identifier /\ AssignableTypes(u) \subseteq AssignableTypes(t)
    <3>1. types[u].identifier = types[t].identifier
        BY <2>2, <2>3 DEF TypeInv, Family
    <3>2. \A v : IsA(v, u) => IsA(v, t)
        BY <2>3, ExtendingSteps
    <3> QED
        BY <2>3, <3>1, <3>2 DEF AssignableTypes, DescendantTypes
  <2> QED
      BY <2>2, <2>4 DEF TypeInv
<1> QED
    BY <1>1, LoadInit, LoadStep, WalkInit, WalkStep, TypesInit, TypesStep, PTL DEF Spec
=============================================================================
