--------------------------- MODULE PlannerProofs ----------------------------
(* Proofs about Planner, for every depth, every limit, all names and all   *)
(* answers of the model, names that coincide when they are joined included. *)
EXTENDS Planner, FiniteSetTheorems, WellFoundedInduction, TLAPS

USE LimitsAssumption

-----------------------------------------------------------------------------
(* Ids are sequences of segments, lineages sequences of ids.               *)
Ids == Seq(Segments)
Lineages == Seq(Ids)

LEMMA Joined ==
    ASSUME NEW a \in Ids, NEW b \in Ids
    PROVE  /\ a \o b \in Ids /\ Len(a) \in Nat /\ Len(b) \in Nat
           /\ Len(a \o b) = Len(a) + Len(b)
           /\ \A i \in 1..Len(b) : (a \o b)[Len(a) + i] = b[i]
BY DEF Ids

LEMMA JoinedToNothing ==
    ASSUME NEW a \in Ids
    PROVE  <<>> \in Ids /\ <<>> \o a = a
BY DEF Ids

LEMMA JoinedTwice ==
    ASSUME NEW a \in Ids, NEW b \in Ids, NEW c \in Ids
    PROVE  (a \o b) \o c = a \o (b \o c)
BY DEF Ids

LEMMA JoinedIsLonger ==
    ASSUME NEW a \in Ids, NEW b \in Ids \ {<<>>}
    PROVE  a \o b # a /\ a \o b # <<>>
<1>1. Len(b) \in Nat \ {0}
  BY DEF Ids
<1>2. Len(a \o b) = Len(a) + Len(b) /\ Len(a) \in Nat
  BY Joined
<1> QED
  BY <1>1, <1>2

LEMMA JoinedCancel ==
    ASSUME NEW p \in Ids, NEW a \in Ids, NEW b \in Ids, p \o a = p \o b
    PROVE  a = b
<1>0. /\ Len(p) \in Nat /\ Len(a) \in Nat /\ Len(b) \in Nat
      /\ Len(p \o a) = Len(p) + Len(a) /\ Len(p \o b) = Len(p) + Len(b)
      /\ \A i \in 1..Len(a) : (p \o a)[Len(p) + i] = a[i]
      /\ \A i \in 1..Len(b) : (p \o b)[Len(p) + i] = b[i]
  BY Joined
<1>1. Len(a) = Len(b)
  BY <1>0
<1>2. \A i \in 1..Len(a) : a[i] = b[i]
  BY <1>0, <1>1
<1> QED
  BY <1>0, <1>1, <1>2 DEF Ids

LEMMA ExtendsItself ==
    ASSUME NEW a \in Lineages
    PROVE  Extends(a, a)
BY DEF Extends, Lineages

LEMMA ExtendsOn ==
    ASSUME NEW a \in Lineages, NEW b \in Lineages, NEW c \in Lineages,
           Extends(a, b), Extends(b, c)
    PROVE  Extends(a, c)
BY DEF Extends, Lineages

LEMMA ExtendsSameLength ==
    ASSUME NEW a \in Lineages, NEW b \in Lineages, Extends(a, b), Len(a) <= Len(b)
    PROVE  a = b
BY DEF Extends, Lineages

(* Of two lineages that c extends, the longer extends the other.           *)
LEMMA ExtendsEither ==
    ASSUME NEW a \in Lineages, NEW b \in Lineages, NEW c \in Lineages,
           Extends(c, a), Extends(c, b), Len(b) <= Len(a)
    PROVE  Extends(a, b)
<1>1. Len(a) \in Nat /\ Len(b) \in Nat
  BY DEF Lineages
<1> QED
  BY <1>1 DEF Extends

LEMMA Appended ==
    ASSUME NEW of \in Lineages, NEW id \in Ids
    PROVE  /\ Append(of, id) \in Lineages /\ Len(of) \in Nat
           /\ Len(Append(of, id)) = Len(of) + 1
           /\ Extends(Append(of, id), of)
           /\ Append(of, id)[Len(of) + 1] = id
           /\ \A i \in 1..Len(of) : Append(of, id)[i] = of[i]
BY DEF Lineages, Extends

(* Tasks of one answer are told apart by their lineages.                   *)
LEMMA AppendedApart ==
    ASSUME NEW of \in Lineages, NEW a \in Ids, NEW b \in Ids,
           Extends(Append(of, a), Append(of, b))
    PROVE  a = b
<1>0. /\ Append(of, a) \in Lineages /\ Append(of, b) \in Lineages
      /\ Len(of) \in Nat /\ Len(Append(of, a)) = Len(of) + 1
      /\ Len(Append(of, b)) = Len(of) + 1
      /\ Append(of, a)[Len(of) + 1] = a /\ Append(of, b)[Len(of) + 1] = b
  BY Appended
<1>1. Append(of, a) = Append(of, b)
  <2>1. Len(Append(of, a)) <= Len(Append(of, b))
    BY <1>0
  <2> QED
    BY <1>0, <2>1, ExtendsSameLength
<1> QED
  BY <1>0, <1>1

(* Lineages that differ in their last name only: tasks of one answer.      *)
Siblings(a, b) ==
    /\ Len(a) > 0 /\ Len(a) = Len(b)
    /\ \A i \in 1..(Len(a) - 1) : a[i] = b[i]

LEMMA AppendedSiblings ==
    ASSUME NEW of \in Lineages, NEW a \in Ids, NEW b \in Ids
    PROVE  Siblings(Append(of, a), Append(of, b))
<1>1. /\ Len(of) \in Nat /\ Len(Append(of, a)) = Len(of) + 1
      /\ Len(Append(of, b)) = Len(of) + 1
      /\ \A i \in 1..Len(of) : Append(of, a)[i] = of[i] /\ Append(of, b)[i] = of[i]
  BY Appended
<1> QED
  BY <1>1 DEF Siblings

(* What extends a shorter lineage has siblings that extend it too.         *)
LEMMA SiblingsExtend ==
    ASSUME NEW a \in Lineages, NEW b \in Lineages, NEW p \in Lineages,
           Siblings(a, b), Extends(a, p) \/ Extends(b, p), Len(p) < Len(a)
    PROVE  Extends(a, p) /\ Extends(b, p)
<1>1. Len(a) \in Nat /\ Len(p) \in Nat
  BY DEF Lineages
<1>2. Len(p) <= Len(a) - 1 /\ Len(b) = Len(a)
  BY <1>1 DEF Siblings
<1>3. \A i \in 1..Len(p) : a[i] = b[i]
  BY <1>1, <1>2 DEF Siblings
<1> QED
  BY <1>1, <1>2, <1>3 DEF Extends

-----------------------------------------------------------------------------
(* Least and greatest. *)

(* A nonempty set of naturals has a least element.                         *)
LEMMA LeastNatural ==
    ASSUME NEW T \in SUBSET Nat, T # {}
    PROVE  \E m \in T : \A n \in T : m <= n
<1> DEFINE Below == {1..m : m \in T}
<1>1. IsWellFoundedOn(StrictSubsetOrdering(Nat), FiniteSubsetsOf(Nat))
  BY FS_StrictSubsetOrderingWellFounded
<1>2. Below \subseteq FiniteSubsetsOf(Nat) /\ Below # {}
  <2>1. \A m \in T : 1..m \in SUBSET Nat /\ IsFiniteSet(1..m)
    BY FS_Interval
  <2> QED
    BY <2>1 DEF FiniteSubsetsOf
<1>3. PICK x \in Below : \A y \in Below : ~(<<y, x>> \in StrictSubsetOrdering(Nat))
  <2> HIDE DEF Below
  <2> QED
    BY <1>1, <1>2, WFMin
<1>4. PICK m \in T : x = 1..m
  OBVIOUS
<1>5. ASSUME NEW n \in T, n < m PROVE FALSE
  <2>1. (1..n) \in SUBSET Nat /\ (1..m) \in SUBSET Nat
    OBVIOUS
  <2>2. (1..n) \subseteq (1..m) /\ m \in 1..m /\ m \notin 1..n
    BY <1>5
  <2>3. <<1..n, 1..m>> \in StrictSubsetOrdering(Nat)
    BY <2>1, <2>2 DEF StrictSubsetOrdering
  <2> QED
    BY <1>3, <1>4, <2>3
<1> QED
  BY <1>5

(* A nonempty family of subsets of a finite set has a minimal member.      *)
LEMMA MinimalSubset ==
    ASSUME NEW S, IsFiniteSet(S), NEW F, F \subseteq SUBSET S, F # {}
    PROVE  \E X \in F : \A Y \in F : Y \subseteq X => Y = X
<1>1. IsWellFoundedOn(StrictSubsetOrdering(S), FiniteSubsetsOf(S))
  BY FS_StrictSubsetOrderingWellFounded
<1>2. F \subseteq FiniteSubsetsOf(S)
  BY FS_Subset DEF FiniteSubsetsOf
<1>3. PICK X \in F : \A Y \in F : ~(<<Y, X>> \in StrictSubsetOrdering(S))
  BY <1>1, <1>2, WFMin
<1>4. ASSUME NEW Y \in F, Y \subseteq X, Y # X PROVE FALSE
  <2>1. <<Y, X>> \in (SUBSET S) \X (SUBSET S)
    OBVIOUS
  <2>2. <<Y, X>> \in StrictSubsetOrdering(S)
    BY <1>4, <2>1 DEF StrictSubsetOrdering
  <2> QED
    BY <1>3, <2>2
<1> QED
  BY <1>4

(* A nonempty finite set of naturals has a greatest element.               *)
LEMMA GreatestOfFinite ==
    ASSUME NEW T, T \subseteq Nat, T # {}, IsFiniteSet(T)
    PROVE  \E m \in T : \A n \in T : n <= m
<1> DEFINE Above == {{n \in T : n > m} : m \in T}
<1>1. Above \subseteq SUBSET T /\ Above # {}
  OBVIOUS
<1> HIDE DEF Above
<1>2. PICK X \in Above : \A Y \in Above : Y \subseteq X => Y = X
  <2>1. IsFiniteSet(T)
    OBVIOUS
  <2> QED
    BY ONLY <1>1, <2>1, MinimalSubset
<1> USE DEF Above
<1>3. PICK m \in T : X = {n \in T : n > m}
  OBVIOUS
<1>4. ASSUME NEW n \in T, n > m PROVE FALSE
  <2>0. \A i \in T : i > n => i > m
    BY <1>4
  <2> DEFINE Y == {i \in T : i > n}
  <2>1. Y \in Above
    OBVIOUS
  <2>2. ~(n > n) /\ n \in T
    OBVIOUS
  <2> HIDE DEF Above
  <2>3. Y \subseteq X
    BY <1>3, <2>0
  <2>4. n \in X /\ n \notin Y
    BY <1>3, <1>4, <2>2
  <2> QED
    BY <1>2, <2>1, <2>3, <2>4
<1> QED
  BY <1>4

-----------------------------------------------------------------------------
(* Graphs.                                                                 *)
Tasks == [of : Lineages, at : Nat, deps : SUBSET Ids, twice : SUBSET Ids,
          atomic : BOOLEAN, looksUp : Roles, joins : SUBSET Lineages]

IsGraph(d) ==
    /\ DOMAIN d \subseteq Ids \ {<<>>}
    /\ IsFiniteSet(DOMAIN d)
    /\ d \in [DOMAIN d -> Tasks]

LEMMA SizeOfGraph ==
    ASSUME NEW d, IsGraph(d)
    PROVE  Size(d) \in Nat
BY FS_CardinalityType DEF IsGraph, Size

LEMMA LastPlaceIsNatural ==
    ASSUME NEW d, IsGraph(d), DOMAIN d # {}
    PROVE  LastPlace(d) \in Nat
<1> DEFINE places == {d[id].at : id \in DOMAIN d}
           place == [id \in DOMAIN d |-> d[id].at]
<1>1. places \in SUBSET Nat /\ places # {}
  BY DEF IsGraph, Tasks
<1>2. place \in Surjection(DOMAIN d, places)
  BY DEF Surjection
<1>3. IsFiniteSet(places)
  <2> HIDE DEF place, places
  <2> QED
    BY <1>2, FS_Surjection DEF IsGraph
<1>4. \E n \in places : \A m \in places : m <= n
  <2> HIDE DEF places
  <2> QED
    BY <1>1, <1>3, GreatestOfFinite
<1>5. LastPlace(d) \in places
  BY <1>4 DEF LastPlace
<1> QED
  BY <1>1, <1>5

(* An acyclic graph has no nonempty set of tasks in which each is a        *)
(* dependency of another: in the smallest such set, the task that waits    *)
(* for none of them could be left out.                                     *)
LEMMA NoEndlessDescent ==
    ASSUME NEW d, IsGraph(d), Valid(d),
           NEW X \in SUBSET DOMAIN d,
           \A x \in X : \E y \in X : x \in d[y].deps
    PROVE  X = {}
<1> DEFINE F == {Y \in SUBSET DOMAIN d : Y # {} /\ \A x \in Y : \E y \in Y : x \in d[y].deps}
<1> SUFFICES ASSUME X # {} PROVE FALSE
  OBVIOUS
<1>1. F \subseteq SUBSET DOMAIN d /\ F # {}
  <2>1. X \in F
    OBVIOUS
  <2> QED
    BY <2>1
<1>2. PICK Y \in F : \A Z \in F : Z \subseteq Y => Z = Y
  <2> HIDE DEF F
  <2> QED
    BY <1>1, MinimalSubset DEF IsGraph
<1>3. PICK s \in Y : d[s].deps \cap Y = {}
  BY DEF Valid
<1>4. PICK t \in Y : s \in d[t].deps
  OBVIOUS
<1>5. t # s
  BY <1>3, <1>4
<1>6. Y \ {s} \in F
  <2>1. ASSUME NEW x \in Y \ {s}
        PROVE  \E y \in Y \ {s} : x \in d[y].deps
    <3>1. PICK y \in Y : x \in d[y].deps
      OBVIOUS
    <3>2. y # s
      BY <1>3, <3>1
    <3> QED
      BY <3>1, <3>2
  <2> QED
    BY <1>4, <1>5, <2>1
<1> QED
  BY <1>2, <1>6


LEMMA SizeGrows ==
    ASSUME NEW d, IsGraph(d), NEW e, IsGraph(e), NEW name \in Injection(DOMAIN d, DOMAIN e)
    PROVE  /\ Size(d) \in Nat /\ Size(e) \in Nat
           /\ Size(d) <= Size(e)
<1>1. Cardinality(DOMAIN d) <= Cardinality(DOMAIN e)
  BY FS_Injection DEF IsGraph
<1> QED
  BY <1>1, SizeOfGraph DEF Size

-----------------------------------------------------------------------------
(* What Parse makes of an answer for the task with the lineage of.         *)
Fresh(d, of) ==
    /\ IsGraph(d) /\ DOMAIN d # {}
    /\ \A id \in DOMAIN d : d[id].of = Append(of, id)

LEMMA ParsedIsFresh ==
    ASSUME NEW answer \in Seq(Item \cup {Unnamed}), NEW of \in Lineages
    PROVE  Fresh(Parse(answer, of), of)
<1> DEFINE top == Smaller(MaxSubtasks, Len(answer))
           kept == {i \in 1..top : answer[i] # Unnamed}
           Sames(name) == {i \in kept : answer[i].name = name}
           First(name) == CHOOSE i \in Sames(name) : \A k \in Sames(name) : i <= k
           Final(name) == answer[CHOOSE i \in Sames(name) : \A k \in Sames(name) : k <= i]
           task(id) == LET item == Final(id)
                       IN  [of |-> Append(of, id), at |-> First(id), deps |-> item.deps,
                            twice |-> item.twice \cap item.deps, atomic |-> item.atomic,
                            looksUp |-> item.looksUp, joins |-> {}]
<1>0. Names \subseteq Ids \ {<<>>} /\ <<"A">> \in Ids \ {<<>>}
  BY NamesAssumption DEF Ids
<1>1. top \in Nat /\ top <= Len(answer) /\ Len(answer) \in Nat
  BY DEF Smaller
<1>5. IsFiniteSet(1..top)
  BY <1>1, FS_Interval
<1>2. \A i \in kept : answer[i] \in Item /\ i \in Nat
  BY <1>1
<1>3. CASE kept = {}
  <2> DEFINE d == [id \in {<<"A">>} |->
                     [of |-> Append(of, id), at |-> 1, deps |-> {}, twice |-> {},
                      atomic |-> TRUE, looksUp |-> "answer", joins |-> {}]]
  <2>1. Parse(answer, of) = d
    BY <1>3 DEF Parse
  <2>2. Append(of, <<"A">>) \in Lineages
    BY <1>0, Appended
  <2>3. IsFiniteSet({<<"A">>})
    BY FS_Singleton
  <2>4. IsGraph(d)
    BY <1>0, <2>2, <2>3 DEF IsGraph, Tasks, Roles
  <2> QED
    BY <2>1, <2>4 DEF Fresh
<1>4. CASE kept # {}
  <2> DEFINE named == {answer[i].name : i \in kept}
             d == [id \in named |-> task(id)]
  <2>1. Parse(answer, of) = d
    BY <1>4 DEF Parse
  <2>2. IsFiniteSet(named) /\ named # {}
    <3>2. IsFiniteSet(kept)
      BY <1>5, FS_Subset
    <3> DEFINE name == [i \in kept |-> answer[i].name]
    <3>3. name \in Surjection(kept, named)
      BY DEF Surjection
    <3> HIDE DEF kept, named, name
    <3>4. IsFiniteSet(named)
      BY <3>2, <3>3, FS_Surjection
    <3> QED
      BY <1>4, <3>4 DEF named
  <2>3. ASSUME NEW id \in named
        PROVE  id \in Ids \ {<<>>} /\ task(id) \in Tasks /\ task(id).of = Append(of, id)
    <3>1. PICK i \in kept : id = answer[i].name
      OBVIOUS
    <3>2. id \in Ids \ {<<>>}
      BY <1>0, <1>2, <3>1 DEF Item
    <3>3. Sames(id) \in SUBSET Nat /\ Sames(id) # {} /\ Sames(id) \subseteq 1..top
      BY <1>2, <3>1
    <3>4. First(id) \in Sames(id)
      <4> HIDE DEF Sames
      <4>1. \E m \in Sames(id) : \A k \in Sames(id) : m <= k
        BY <3>3, LeastNatural
      <4> QED
        BY <4>1
    <3>5. Final(id) \in Item
      <4>1. IsFiniteSet(Sames(id))
        <5> HIDE DEF Sames, top
        <5> QED
          BY <1>5, <3>3, FS_Subset
      <4>2. \E m \in Sames(id) : \A k \in Sames(id) : k <= m
        <5> HIDE DEF Sames
        <5> QED
          BY <3>3, <4>1, GreatestOfFinite
      <4>3. PICK m \in Sames(id) : Final(id) = answer[m]
        BY <4>2
      <4> QED
        BY <1>2, <4>3
    <3>6. First(id) \in Nat
      BY <3>3, <3>4
    <3>7. Append(of, id) \in Lineages
      BY <3>2, Appended
    <3> HIDE DEF First, Final
    <3>8. /\ Final(id).deps \in SUBSET Ids
          /\ Final(id).twice \cap Final(id).deps \in SUBSET Ids
          /\ Final(id).atomic \in BOOLEAN /\ Final(id).looksUp \in Roles
      BY <1>0, <3>5 DEF Item
    <3>9. task(id) \in Tasks
      BY <3>6, <3>7, <3>8 DEF Tasks
    <3> QED
      BY <3>2, <3>9
  <2> HIDE DEF named, task
  <2>4. IsGraph(d)
    BY <2>2, <2>3 DEF IsGraph
  <2>5. Fresh(d, of)
    BY <2>2, <2>3, <2>4 DEF Fresh
  <2> QED
    BY <2>1, <2>5
<1> QED
  BY <1>3, <1>4

-----------------------------------------------------------------------------
(* What renaming, merging, folding and giving up make of graphs.           *)

(* The ids of the parts of p.                                              *)
Parts(p, sub) == {p \o x : x \in DOMAIN sub}

LEMMA PartsAreIds ==
    ASSUME NEW p \in Ids, NEW sub, IsGraph(sub)
    PROVE  /\ Parts(p, sub) \subseteq Ids \ {<<>>} /\ p \notin Parts(p, sub)
           /\ IsFiniteSet(Parts(p, sub))
           /\ \A x, y \in DOMAIN sub : p \o x = p \o y => x = y
<1>1. \A x \in DOMAIN sub : x \in Ids \ {<<>>}
  BY DEF IsGraph
<1>2. \A x \in DOMAIN sub : p \o x \in Ids \ {<<>>} /\ p \o x # p
  BY <1>1, Joined, JoinedIsLonger
<1>3. IsFiniteSet(Parts(p, sub))
  <2> DEFINE name == [x \in DOMAIN sub |-> p \o x]
  <2>1. name \in Surjection(DOMAIN sub, Parts(p, sub))
    BY DEF Surjection, Parts
  <2> HIDE DEF name
  <2> QED
    BY <2>1, FS_Surjection DEF IsGraph
<1> QED
  BY <1>1, <1>2, <1>3, JoinedCancel DEF Parts

(* Edges to tasks met before, or to the task itself, are renamed.          *)
RenamingOf(new, p, sub) ==
    /\ IsGraph(new)
    /\ DOMAIN new = Parts(p, sub)
    /\ \A x \in DOMAIN sub :
           /\ new[p \o x].of = sub[x].of /\ new[p \o x].at = sub[x].at
           /\ new[p \o x].atomic = sub[x].atomic
           /\ \A y \in sub[x].deps :
                  y \in DOMAIN sub /\ sub[y].at <= sub[x].at => p \o y \in new[p \o x].deps

LEMMA RenamedGraph ==
    ASSUME NEW p \in Ids, NEW sub, IsGraph(sub)
    PROVE  RenamingOf(Renamed(p, sub), p, sub)
<1> DEFINE new == Renamed(p, sub)
           New(x, n) == IF n \in DOMAIN sub /\ sub[n].at <= sub[x].at THEN p \o n ELSE n
           Again(x, n) == \/ n \in sub[x].twice
                          \/ \E m \in sub[x].deps \ {n} : New(x, m) = New(x, n)
           task(x) == [sub[x] EXCEPT !.deps = {New(x, n) : n \in @},
                                     !.twice = {New(x, n) :
                                                   n \in {m \in sub[x].deps : Again(x, m)}}]
<1>1. DOMAIN new = Parts(p, sub)
  BY DEF Renamed, Parts
<1>2. ASSUME NEW x \in DOMAIN sub
      PROVE  new[p \o x] = task(x)
  <2>1. \A id \in DOMAIN sub : p \o x = p \o id => id = x
    BY PartsAreIds
  <2>2. (CHOOSE id \in DOMAIN sub : p \o x = p \o id) = x
    BY <2>1
  <2>3. p \o x \in {p \o id : id \in DOMAIN sub}
    OBVIOUS
  <2> QED
    BY <2>2, <2>3 DEF Renamed
<1>3. ASSUME NEW x \in DOMAIN sub
      PROVE  /\ new[p \o x] \in Tasks
             /\ new[p \o x].of = sub[x].of /\ new[p \o x].at = sub[x].at
             /\ new[p \o x].atomic = sub[x].atomic
             /\ \A y \in sub[x].deps :
                    y \in DOMAIN sub /\ sub[y].at <= sub[x].at => p \o y \in new[p \o x].deps
  <2>1. sub[x] \in Tasks
    BY DEF IsGraph
  <2>2. \A n \in Ids : New(x, n) \in Ids
    BY Joined
  <2> DEFINE deps == {New(x, n) : n \in sub[x].deps}
             twice == {New(x, n) : n \in {m \in sub[x].deps : Again(x, m)}}
  <2>3. deps \in SUBSET Ids /\ twice \in SUBSET Ids
    BY <2>1, <2>2 DEF Tasks
  <2>4. \A y \in sub[x].deps : y \in DOMAIN sub /\ sub[y].at <= sub[x].at => p \o y \in deps
    OBVIOUS
  <2>5. new[p \o x] = [sub[x] EXCEPT !.deps = deps, !.twice = twice]
    BY <1>2
  <2> HIDE DEF deps, twice, new
  <2> QED
    BY <2>1, <2>3, <2>4, <2>5 DEF Tasks
<1>4. new = [id \in DOMAIN new |-> new[id]]
  BY DEF Renamed
<1> HIDE DEF new
<1>5. \A id \in DOMAIN new : \E x \in DOMAIN sub : id = p \o x
  BY <1>1 DEF Parts
<1>6. new \in [DOMAIN new -> Tasks]
  <2>1. \A id \in DOMAIN new : new[id] \in Tasks
    BY <1>3, <1>5
  <2> QED
    BY <1>4, <2>1
<1>7. IsGraph(new)
  BY <1>1, <1>6, PartsAreIds DEF IsGraph
<1>8. RenamingOf(new, p, sub)
  BY <1>1, <1>3, <1>7 DEF RenamingOf
<1> QED
  BY <1>8 DEF new

(* A merge keeps the tasks it does not overwrite, and appends the parts it *)
(* does not overwrite with. What waited for p waits for the leaves among   *)
(* the parts, and every other part is waited for by a part.                *)
MergeOf(M, d, p, sub) ==
    /\ IsGraph(M)
    /\ DOMAIN M = (DOMAIN d \ {p}) \cup Parts(p, sub)
    /\ \A id \in (DOMAIN d \ {p}) \ Parts(p, sub) :
           /\ M[id].of = d[id].of /\ M[id].at = d[id].at /\ M[id].atomic = d[id].atomic
           /\ d[id].deps \ {p} \subseteq M[id].deps
           /\ p \in d[id].deps =>
                  \A x \in DOMAIN sub :
                      \/ p \o x \in M[id].deps
                      \/ \E y \in DOMAIN sub : p \o x \in M[p \o y].deps
    /\ \E end \in Nat : \A x \in DOMAIN sub :
           /\ M[p \o x].of = sub[x].of /\ M[p \o x].atomic = sub[x].atomic
           /\ p \o x \notin DOMAIN d => M[p \o x].at = sub[x].at + end
           /\ \A y \in sub[x].deps :
                  y \in DOMAIN sub /\ sub[y].at <= sub[x].at => p \o y \in M[p \o x].deps

LEMMA MergedGraph ==
    ASSUME NEW d, IsGraph(d), NEW p \in DOMAIN d, NEW sub, IsGraph(sub)
    PROVE  MergeOf(Merge(d, p, sub), d, p, sub)
<1> DEFINE new == Renamed(p, sub)
           all == Replaced(d, p, new)
           M == Merge(d, p, sub)
           others == DOMAIN d \ {p}
           leaves == SubLeaves(new)
<1>0. p \in Ids /\ LastPlace(d) \in Nat
  BY LastPlaceIsNatural DEF IsGraph
<1>1. RenamingOf(new, p, sub) /\ p \notin Parts(p, sub)
  BY <1>0, RenamedGraph, PartsAreIds
<1>2. /\ IsGraph(new) /\ DOMAIN new = Parts(p, sub)
      /\ \A x \in DOMAIN sub : p \o x \in DOMAIN new
  BY <1>1 DEF RenamingOf, Parts
<1>3. leaves \in SUBSET Ids /\ \A id \in DOMAIN new \ leaves :
                                   \E o \in DOMAIN new : id \in new[o].deps
  BY <1>2 DEF SubLeaves, Dependencies, IsGraph
<1> HIDE DEF new
<1>4. /\ DOMAIN all = others \cup DOMAIN new
      /\ \A id \in DOMAIN all : all[id] =
             IF id \notin DOMAIN new THEN d[id]
             ELSE [new[id] EXCEPT !.at = IF id \in others THEN d[id].at ELSE @ + LastPlace(d)]
  BY DEF Replaced
<1>5. ASSUME NEW id \in DOMAIN new
      PROVE  /\ all[id] \in Tasks
             /\ all[id].of = new[id].of /\ all[id].atomic = new[id].atomic
             /\ all[id].deps = new[id].deps
             /\ id \notin others => all[id].at = new[id].at + LastPlace(d)
  <2> DEFINE at == IF id \in others THEN d[id].at ELSE new[id].at + LastPlace(d)
  <2>1. new[id] \in Tasks /\ at \in Nat
    BY <1>0, <1>2 DEF IsGraph, Tasks
  <2>2. all[id] = [new[id] EXCEPT !.at = at]
    BY <1>4
  <2>3. id \notin others => at = new[id].at + LastPlace(d)
    OBVIOUS
  <2> HIDE DEF all, at
  <2> QED
    BY <2>1, <2>2, <2>3 DEF Tasks
<1>6. \A id \in others \ DOMAIN new : all[id] = d[id] /\ all[id] \in Tasks
  BY <1>4 DEF IsGraph
<1>7. M = [id \in DOMAIN all |-> Rewired(all[id], p, leaves)]
  BY DEF Merge, new
<1> HIDE DEF all, M, leaves
<1>8. DOMAIN M = others \cup Parts(p, sub)
  BY <1>2, <1>4, <1>7
<1>9. ASSUME NEW id \in DOMAIN M
      PROVE  /\ M[id] \in Tasks
             /\ M[id].of = all[id].of /\ M[id].at = all[id].at /\ M[id].atomic = all[id].atomic
             /\ all[id].deps \ {p} \subseteq M[id].deps
             /\ p \in all[id].deps => leaves \subseteq M[id].deps
  <2>1. all[id] \in Tasks /\ M[id] = Rewired(all[id], p, leaves)
    BY <1>2, <1>5, <1>6, <1>7, <1>8
  <2>2. CASE p \notin all[id].deps
    BY <2>1, <2>2 DEF Rewired
  <2>3. CASE p \in all[id].deps
    <3> DEFINE deps == (IF p \in all[id].twice THEN all[id].deps ELSE all[id].deps \ {p})
                           \cup leaves
               twice == all[id].twice \ {p}
    <3>1. deps \in SUBSET Ids /\ twice \in SUBSET Ids
      BY <1>3, <2>1 DEF Tasks
    <3>2. all[id].deps \ {p} \subseteq deps /\ leaves \subseteq deps
      OBVIOUS
    <3>3. M[id] = [all[id] EXCEPT !.deps = deps, !.twice = twice]
      BY <2>1, <2>3 DEF Rewired
    <3> HIDE DEF deps, twice
    <3> QED
      BY <2>1, <3>1, <3>2, <3>3 DEF Tasks
  <2> QED
    BY <2>2, <2>3
<1>10. IsGraph(M)
  <2>1. M \in [DOMAIN M -> Tasks]
    BY <1>7, <1>9
  <2>2. IsFiniteSet(others) /\ IsFiniteSet(Parts(p, sub)) /\ Parts(p, sub) \subseteq Ids \ {<<>>}
    BY <1>0, PartsAreIds, FS_RemoveElement DEF IsGraph
  <2>3. IsFiniteSet(others \cup Parts(p, sub))
    BY <2>2, FS_Union
  <2> QED
    BY <1>8, <2>1, <2>2, <2>3 DEF IsGraph
<1>11. ASSUME NEW x \in DOMAIN sub
       PROVE  /\ M[p \o x].of = sub[x].of /\ M[p \o x].atomic = sub[x].atomic
              /\ p \o x \notin DOMAIN d => M[p \o x].at = sub[x].at + LastPlace(d)
              /\ new[p \o x].deps \ {p} \subseteq M[p \o x].deps
  <2>1. p \o x \in DOMAIN new /\ p \o x \in DOMAIN M
    BY <1>2, <1>8
  <2>2. new[p \o x].of = sub[x].of /\ new[p \o x].atomic = sub[x].atomic
        /\ new[p \o x].at = sub[x].at
    BY <1>1 DEF RenamingOf
  <2> QED
    BY <1>5, <1>9, <2>1, <2>2
<1>12. ASSUME NEW x \in DOMAIN sub, NEW y \in sub[x].deps,
              y \in DOMAIN sub, sub[y].at <= sub[x].at
       PROVE  p \o y \in M[p \o x].deps
  <2>1. p \o y \in new[p \o x].deps /\ p \o y # p
    BY <1>1, <1>2, <1>12 DEF RenamingOf
  <2> QED
    BY <1>11, <2>1
<1>13. ASSUME NEW id \in others \ Parts(p, sub)
       PROVE  /\ M[id].of = d[id].of /\ M[id].at = d[id].at /\ M[id].atomic = d[id].atomic
              /\ d[id].deps \ {p} \subseteq M[id].deps
              /\ p \in d[id].deps =>
                     \A x \in DOMAIN sub :
                         \/ p \o x \in M[id].deps
                         \/ \E y \in DOMAIN sub : p \o x \in M[p \o y].deps
  <2>1. id \in DOMAIN M /\ all[id] = d[id]
    BY <1>2, <1>6, <1>8
  <2>2. ASSUME p \in d[id].deps, NEW x \in DOMAIN sub
        PROVE  p \o x \in M[id].deps \/ \E y \in DOMAIN sub : p \o x \in M[p \o y].deps
    <3>1. CASE p \o x \in leaves
      BY <1>9, <2>1, <2>2, <3>1
    <3>2. CASE p \o x \notin leaves
      <4>1. PICK o \in DOMAIN new : p \o x \in new[o].deps
        BY <1>2, <1>3, <3>2
      <4>2. PICK y \in DOMAIN sub : o = p \o y
        BY <1>2 DEF Parts
      <4>3. p \o x # p
        BY <1>1, <1>2
      <4> QED
        BY <1>11, <4>1, <4>2, <4>3
    <3> QED
      BY <3>1, <3>2
  <2> QED
    BY <1>9, <2>1, <2>2
<1>14. /\ IsGraph(M)
       /\ DOMAIN M = (DOMAIN d \ {p}) \cup Parts(p, sub)
       /\ \A id \in (DOMAIN d \ {p}) \ Parts(p, sub) :
              /\ M[id].of = d[id].of /\ M[id].at = d[id].at /\ M[id].atomic = d[id].atomic
              /\ d[id].deps \ {p} \subseteq M[id].deps
              /\ p \in d[id].deps =>
                     \A x \in DOMAIN sub :
                         \/ p \o x \in M[id].deps
                         \/ \E y \in DOMAIN sub : p \o x \in M[p \o y].deps
       /\ \A x \in DOMAIN sub :
              /\ M[p \o x].of = sub[x].of /\ M[p \o x].atomic = sub[x].atomic
              /\ p \o x \notin DOMAIN d => M[p \o x].at = sub[x].at + LastPlace(d)
              /\ \A y \in sub[x].deps :
                     y \in DOMAIN sub /\ sub[y].at <= sub[x].at => p \o y \in M[p \o x].deps
  BY <1>8, <1>10, <1>11, <1>12, <1>13
<1>15. MergeOf(M, d, p, sub)
  BY <1>0, <1>14 DEF MergeOf
<1> QED
  BY <1>15 DEF M

(* Nothing of the parts is lost: there are as many tasks at least.         *)
LEMMA MergedSize ==
    ASSUME NEW d, IsGraph(d), NEW p \in DOMAIN d, NEW sub, IsGraph(sub)
    PROVE  /\ Size(sub) \in Nat /\ Size(Merge(d, p, sub)) \in Nat
           /\ Size(sub) <= Size(Merge(d, p, sub))
<1> DEFINE M == Merge(d, p, sub)
           name == [x \in DOMAIN sub |-> p \o x]
<1>1. IsGraph(M) /\ \A x \in DOMAIN sub : p \o x \in DOMAIN M
  <2>1. MergeOf(M, d, p, sub)
    BY MergedGraph
  <2> HIDE DEF M
  <2> QED
    BY <2>1 DEF MergeOf, Parts
<1>2. \A x, y \in DOMAIN sub : p \o x = p \o y => x = y
  <2>1. p \in Ids
    BY DEF IsGraph
  <2> QED
    BY <2>1, PartsAreIds
<1>3. name \in Injection(DOMAIN sub, DOMAIN M)
  BY <1>1, <1>2 DEF Injection, IsInjective
<1> HIDE DEF M, name
<1>4. Size(sub) \in Nat /\ Size(M) \in Nat /\ Size(sub) <= Size(M)
  BY <1>1, <1>3, SizeGrows
<1> QED
  BY <1>4 DEF M

(* A fold removes the edges to the folded task with it.                    *)
FoldOf(M, d, id) ==
    /\ IsGraph(M)
    /\ DOMAIN M = DOMAIN d \ {id}
    /\ \A o \in DOMAIN M :
           /\ M[o].of = d[o].of /\ M[o].at = d[o].at /\ M[o].atomic = d[o].atomic
           /\ M[o].deps = d[o].deps \ {id}
           /\ d[o].joins \subseteq M[o].joins
           /\ id \in d[o].deps => d[id].of \in M[o].joins

LEMMA FoldedGraph ==
    ASSUME NEW d, IsGraph(d), NEW id \in DOMAIN d
    PROVE  FoldOf(FoldAway(d, id), d, id)
<1> DEFINE M == FoldAway(d, id)
<1>1. M = [o \in DOMAIN d \ {id} |->
              IF id \in d[o].deps
              THEN [d[o] EXCEPT !.joins = @ \cup {d[id].of}, !.deps = @ \ {id},
                                !.twice = @ \ {id}]
              ELSE d[o]]
  BY DEF FoldAway, Consumers
<1>2. DOMAIN M = DOMAIN d \ {id}
  BY <1>1
<1>3. ASSUME NEW o \in DOMAIN M
      PROVE  /\ M[o] \in Tasks
             /\ M[o].of = d[o].of /\ M[o].at = d[o].at /\ M[o].atomic = d[o].atomic
             /\ M[o].deps = d[o].deps \ {id}
             /\ d[o].joins \subseteq M[o].joins
             /\ id \in d[o].deps => d[id].of \in M[o].joins
  <2>1. d[o] \in Tasks /\ d[id] \in Tasks
    BY <1>2 DEF IsGraph
  <2>2. CASE id \in d[o].deps
    <3> DEFINE joins == d[o].joins \cup {d[id].of}
               deps == d[o].deps \ {id}
               twice == d[o].twice \ {id}
    <3>1. M[o] = [d[o] EXCEPT !.joins = joins, !.deps = deps, !.twice = twice]
      BY <1>1, <1>2, <2>2
    <3>2. /\ joins \in SUBSET Lineages /\ deps \in SUBSET Ids /\ twice \in SUBSET Ids
          /\ d[o].joins \subseteq joins /\ d[id].of \in joins
      BY <2>1 DEF Tasks
    <3>3. deps = d[o].deps \ {id}
      OBVIOUS
    <3> HIDE DEF M, joins, deps, twice
    <3> QED
      BY <2>1, <3>1, <3>2, <3>3 DEF Tasks
  <2>3. CASE id \notin d[o].deps
    <3>1. M[o] = d[o]
      BY <1>1, <1>2, <2>3
    <3> HIDE DEF M
    <3> QED
      BY <2>1, <2>3, <3>1 DEF Tasks
  <2> QED
    BY <2>2, <2>3
<1>4. M = [o \in DOMAIN M |-> M[o]]
  BY <1>1
<1> HIDE DEF M
<1>5. IsGraph(M)
  <2>1. IsFiniteSet(DOMAIN M)
    BY <1>2, FS_RemoveElement DEF IsGraph
  <2>2. M \in [DOMAIN M -> Tasks]
    BY <1>3, <1>4
  <2> QED
    BY <1>2, <2>1, <2>2 DEF IsGraph
<1>6. FoldOf(M, d, id)
  BY <1>2, <1>3, <1>5 DEF FoldOf
<1> QED
  BY <1>6 DEF M

LEMMA AtomicGraph ==
    ASSUME NEW d, IsGraph(d)
    PROVE  LET M == AsAtomic(d)
           IN  /\ IsGraph(M) /\ DOMAIN M = DOMAIN d
               /\ \A id \in DOMAIN d :
                      /\ M[id].atomic /\ M[id].of = d[id].of
                      /\ M[id].deps = d[id].deps /\ M[id].at = d[id].at
<1> DEFINE M == AsAtomic(d)
<1>1. M = [id \in DOMAIN d |-> [d[id] EXCEPT !.atomic = TRUE]]
  BY DEF AsAtomic
<1>2. DOMAIN M = DOMAIN d
  BY <1>1
<1>3. ASSUME NEW id \in DOMAIN d
      PROVE  /\ M[id] \in Tasks
             /\ M[id].atomic /\ M[id].of = d[id].of
             /\ M[id].deps = d[id].deps /\ M[id].at = d[id].at
  <2>1. d[id] \in Tasks
    BY DEF IsGraph
  <2>2. M[id] = [d[id] EXCEPT !.atomic = TRUE]
    BY <1>1
  <2> HIDE DEF M
  <2> QED
    BY <2>1, <2>2 DEF Tasks
<1>4. M = [id \in DOMAIN M |-> M[id]]
  BY <1>1
<1> HIDE DEF M
<1>5. M \in [DOMAIN M -> Tasks]
  BY <1>2, <1>3, <1>4
<1>6. /\ IsGraph(M) /\ DOMAIN M = DOMAIN d
      /\ \A id \in DOMAIN d :
             /\ M[id].atomic /\ M[id].of = d[id].of
             /\ M[id].deps = d[id].deps /\ M[id].at = d[id].at
  BY <1>2, <1>3, <1>5 DEF IsGraph
<1> QED
  BY <1>6 DEF M

-----------------------------------------------------------------------------
(* The shape of the stack. *)
Graphs == {d \in UNION {[D -> Tasks] : D \in SUBSET Ids} : IsGraph(d)}

LEMMA GraphsAreGraphs == \A d : IsGraph(d) <=> d \in Graphs
BY DEF IsGraph, Graphs

Frames == [task : Ids, path : Ids, of : Lineages, dag : Graphs, listed : Graphs,
           todo : SUBSET Ids]
Wants == [id : Ids, of : Lineages, at : Nat, inputs : SUBSET Lineages]
Folds == [id : Ids, of : Lineages, deps : SUBSET Ids, joins : SUBSET Lineages]

(* What a call lists are the tasks of one answer, and what it has are parts *)
(* of these: no task of its graph is another's part, and one still to be   *)
(* decomposed has no parts yet.                                            *)
Within(f) ==
    /\ \A id \in DOMAIN f.listed : f.listed[id].of = Append(f.of, id)
    /\ \A id \in DOMAIN f.dag : /\ Extends(f.dag[id].of, f.of)
                                /\ Len(f.of) < Len(f.dag[id].of)
    /\ \A a, b \in DOMAIN f.dag : Extends(f.dag[a].of, f.dag[b].of) => a = b
    /\ \A p \in f.todo, id \in DOMAIN f.dag :
           Extends(f.dag[id].of, f.listed[p].of) => id = p /\ f.dag[id].of = f.listed[p].of

FrameShape(f, k) ==
    /\ Within(f)
    /\ f.todo \subseteq DOMAIN f.dag /\ f.todo \subseteq DOMAIN f.listed
    /\ f.todo # {} => k < MaxDepth /\ Size(f.dag) < MaxTotalNodes

(* Every task has an id and a lineage that an answer asked for.            *)
Grounded(f, W) ==
    /\ \A id \in DOMAIN f.dag : \E v \in W : v.id = f.path \o id /\ v.of = f.dag[id].of
    /\ AskedIn(f.listed, f.path, f.of) \subseteq W

(* A call expands a task that its caller has listed and still has to       *)
(* decompose, and everything it has is a part of that task.                *)
Nested(s) ==
    /\ s # <<>> => s[1].path = <<>> /\ s[1].of = <<>>
    /\ \A k \in 1..(Len(s) - 1) :
           /\ s[k + 1].task \in s[k].todo
           /\ s[k + 1].path = s[k].path \o s[k + 1].task
           /\ s[k + 1].of = s[k].listed[s[k + 1].task].of
    /\ \A j, k \in 1..Len(s) : j <= k => Extends(s[k].of, s[j].of)

Folding == {"fold", "delivered", "broken"}

Shape ==
    /\ stack \in Seq(Frames)
    /\ \A k \in 1..Len(stack) : FrameShape(stack[k], k) /\ Grounded(stack[k], wanted)
    /\ Nested(stack)
    /\ simple \in BOOLEAN
    /\ phase \in {"start", "expand", "refused"} \cup Folding
    /\ phase = "start" => stack = <<>> /\ wanted = {}
    /\ phase \in {"expand"} \cup Folding => stack # <<>>
    /\ phase = "expand" => \A k \in 1..Len(stack) : DOMAIN stack[k].dag # {}
    /\ phase \in Folding => Len(stack) = 1 /\ stack[1].todo = {}
    /\ phase \notin Folding => folded = {}
    /\ wanted \subseteq Wants
    /\ folded \subseteq Folds

LEMMA FramesHaveGraphs ==
    ASSUME NEW f \in Frames
    PROVE  /\ IsGraph(f.dag) /\ IsGraph(f.listed)
           /\ f.path \in Ids /\ f.task \in Ids /\ f.of \in Lineages
           /\ \A id \in DOMAIN f.dag : id \in Ids /\ f.dag[id].of \in Lineages
                                       /\ f.dag[id].at \in Nat
           /\ \A id \in DOMAIN f.listed : id \in Ids /\ f.listed[id].of \in Lineages
                                          /\ f.listed[id].at \in Nat
                                          /\ f.listed[id].deps \in SUBSET Ids
<1>1. IsGraph(f.dag) /\ IsGraph(f.listed)
  BY GraphsAreGraphs DEF Frames
<1> QED
  BY <1>1 DEF Frames, IsGraph, Tasks

LEMMA StackHasFrames ==
    ASSUME Shape, NEW k \in 1..Len(stack)
    PROVE  stack[k] \in Frames /\ FrameShape(stack[k], k) /\ Grounded(stack[k], wanted)
BY DEF Shape

-----------------------------------------------------------------------------
(* What a step does to the stack.                                          *)

(* f has the tasks of an answer as they are listed.                        *)
AsListed(f) ==
    /\ Fresh(f.listed, f.of) /\ Valid(f.listed)
    /\ DOMAIN f.dag = DOMAIN f.listed
    /\ \A id \in DOMAIN f.listed : /\ f.dag[id].of = f.listed[id].of
                                   /\ f.dag[id].deps = f.listed[id].deps
                                   /\ f.dag[id].at = f.listed[id].at

Opened(f) ==
    /\ f \in Frames /\ AsListed(f)
    /\ f.todo \subseteq DOMAIN f.dag /\ NonAtomic(f.dag) \subseteq f.todo
    /\ f.todo # {} => Len(stack) + 1 < MaxDepth /\ Size(f.dag) < MaxTotalNodes
    /\ stack = <<>> => f.path = <<>> /\ f.of = <<>>
    /\ stack # <<>> => /\ f.task \in Innermost.todo
                       /\ f.path = Innermost.path \o f.task
                       /\ f.of = Innermost.listed[f.task].of

Push(f) ==
    /\ Opened(f)
    /\ phase \in {"start", "expand"} /\ phase' = "expand"
    /\ stack' = Append(stack, f)
    /\ wanted' = wanted \cup AskedIn(f.listed, f.path, f.of)
    /\ UNCHANGED <<simple, folded>>

Return(g) ==
    LET k == Len(stack) - 1
    IN  /\ k \in Nat \ {0} /\ phase = "expand"
        /\ stack[k + 1].todo = {}
        /\ g \in Frames
        /\ g.path = stack[k].path /\ g.task = stack[k].task
        /\ g.of = stack[k].of /\ g.listed = stack[k].listed
        /\ g.dag = Merge(stack[k].dag, stack[k + 1].task, stack[k + 1].dag)
        /\ g.todo = IF Size(g.dag) >= MaxTotalNodes THEN {}
                    ELSE stack[k].todo \ {stack[k + 1].task}
        /\ stack' \in Seq(Frames) /\ Len(stack') = k
        /\ stack'[k] = g /\ \A i \in 1..(k - 1) : stack'[i] = stack[i]
        /\ UNCHANGED <<phase, simple, wanted, folded>>

FoldedTask(id) ==
    [id |-> id, of |-> Plan[id].of, deps |-> Plan[id].deps, joins |-> Plan[id].joins]

Fold(id) ==
    /\ phase = "fold"
    /\ id \in DOMAIN Plan /\ Consumers(Plan, id) # {}
    /\ stack' \in Seq(Frames) /\ Len(stack') = 1
    /\ stack'[1] = [stack[1] EXCEPT !.dag = FoldAway(Plan, id)]
    /\ folded' = folded \cup {FoldedTask(id)}
    /\ UNCHANGED <<phase, simple, wanted>>

Quiet ==
    /\ UNCHANGED <<simple, stack, wanted, folded>>
    /\ \/ phase' = phase
       \/ phase \notin Folding /\ phase' = "refused"
       \/ phase = "expand" /\ phase' = "fold" /\ Len(stack) = 1 /\ stack[1].todo = {}
       \/ phase = "fold" /\ phase' = "delivered" /\ Valid(Plan)
       \/ phase = "fold" /\ phase' = "broken"

LEMMA DecomposeSteps ==
    ASSUME Shape, phase \in {"start", "expand"},
           NEW task \in Ids, NEW path \in Ids, NEW of \in Lineages,
           stack = <<>> => path = <<>> /\ of = <<>>,
           stack # <<>> => /\ task \in Innermost.todo
                           /\ path = Innermost.path \o task
                           /\ of = Innermost.listed[task].of,
           Decompose(task, path, of)
    PROVE  (\E f : Push(f)) \/ Quiet
<1>1. Len(stack) \in 0..(MaxDepth - 1)
  <2>1. stack \in Seq(Frames) /\ Len(stack) \in Nat
    BY DEF Shape
  <2>2. CASE stack = <<>>
    BY <2>2
  <2>3. CASE stack # <<>>
    <3>1. Len(stack) \in 1..Len(stack)
      BY <2>1, <2>3
    <3>2. FrameShape(stack[Len(stack)], Len(stack)) /\ stack[Len(stack)].todo # {}
      BY <2>3, <3>1 DEF Shape, Innermost
    <3> QED
      BY <2>1, <3>2 DEF FrameShape
  <2> QED
    BY <2>2, <2>3
<1>2. PICK answer \in Answers[Len(stack)] :
          LET d == Parse(answer, of)
          IN  IF Valid(d)
              THEN /\ phase' = "expand"
                   /\ stack' = Append(stack, Frame(task, path, of, d, Len(stack)))
                   /\ wanted' = wanted \cup AskedIn(d, path, of)
                   /\ UNCHANGED <<simple, folded>>
              ELSE phase' = "refused" /\ UNCHANGED <<simple, stack, wanted, folded>>
  BY DEF Decompose
<1> DEFINE d == Parse(answer, of)
           f == Frame(task, path, of, d, Len(stack))
<1>3. Fresh(d, of)
  <2>1. answer \in Seq(Item \cup {Unnamed})
    BY <1>1, AnswersAssumption
  <2> QED
    BY <2>1, ParsedIsFresh
<1>4. CASE ~Valid(d)
  BY <1>2, <1>4 DEF Quiet, Folding
<1>5. CASE Valid(d)
  <2>1. /\ phase' = "expand"
        /\ stack' = Append(stack, f)
        /\ wanted' = wanted \cup AskedIn(d, path, of)
        /\ UNCHANGED <<simple, folded>>
    BY <1>2, <1>5
  <2> HIDE DEF d
  <2>2. IsGraph(d) /\ IsGraph(AsAtomic(d))
    BY <1>3, AtomicGraph DEF Fresh
  <2>3. AtLimit(d, Len(stack)) \/ Len(stack) + 1 < MaxDepth
    BY <1>1 DEF AtLimit, DepthLimit, Smaller
  <2>4. /\ f \in Frames /\ f.task = task /\ f.path = path /\ f.of = of /\ f.listed = d
        /\ DOMAIN f.dag = DOMAIN d
        /\ \A id \in DOMAIN d : /\ f.dag[id].deps = d[id].deps
                                /\ f.dag[id].of = d[id].of
                                /\ f.dag[id].at = d[id].at
        /\ f.todo \subseteq DOMAIN d /\ NonAtomic(f.dag) \subseteq f.todo
        /\ f.todo # {} => Len(stack) + 1 < MaxDepth /\ Size(f.dag) < MaxTotalNodes
    <3>1. CASE AtLimit(d, Len(stack))
      <4>1. f = [task |-> task, path |-> path, of |-> of, dag |-> AsAtomic(d), listed |-> d,
                 todo |-> {}]
        BY <3>1 DEF Frame
      <4>2. /\ f \in Frames /\ f.dag = AsAtomic(d) /\ f.todo = {} /\ f.task = task
            /\ f.path = path /\ f.of = of /\ f.listed = d
        BY <2>2, <4>1, GraphsAreGraphs DEF Frames
      <4>3. NonAtomic(AsAtomic(d)) = {}
        BY <2>2, AtomicGraph DEF NonAtomic
      <4> HIDE DEF f
      <4> QED
        BY <2>2, <4>2, <4>3, AtomicGraph
    <3>2. CASE ~AtLimit(d, Len(stack))
      <4>1. f = [task |-> task, path |-> path, of |-> of, dag |-> d, listed |-> d,
                 todo |-> NonAtomic(d)]
        BY <3>2 DEF Frame
      <4>2. NonAtomic(d) \subseteq DOMAIN d /\ NonAtomic(d) \in SUBSET Ids
        BY <2>2 DEF NonAtomic, IsGraph
      <4>3. Size(d) < MaxTotalNodes
        BY <2>2, <3>2, SizeOfGraph DEF AtLimit
      <4> QED
        BY <2>2, <2>3, <3>2, <4>1, <4>2, <4>3, GraphsAreGraphs DEF Frames
    <3> QED
      BY <3>1, <3>2
  <2> HIDE DEF f
  <2>5. AsListed(f)
    BY <1>3, <1>5, <2>4 DEF AsListed
  <2>6. Opened(f)
    BY <2>4, <2>5 DEF Opened
  <2> QED
    BY <2>1, <2>4, <2>6 DEF Push
<1> QED
  BY <1>4, <1>5

LEMMA MergeSteps ==
    ASSUME Shape, MergeSubDag
    PROVE  \E g : Return(g)
<1> DEFINE k == Len(stack) - 1
           d == Merge(stack[k].dag, Innermost.task, Innermost.dag)
           rest == IF Size(d) >= MaxTotalNodes THEN {} ELSE stack[k].todo \ {Innermost.task}
           g == [stack[k] EXCEPT !.dag = d, !.todo = rest]
<1>1. /\ phase = "expand" /\ Len(stack) > 1 /\ Innermost.todo = {}
      /\ stack' = [i \in 1..k |-> IF i = k THEN g ELSE stack[i]]
      /\ UNCHANGED <<phase, simple, wanted, folded>>
  BY DEF MergeSubDag
<1>2. k \in Nat \ {0} /\ k + 1 = Len(stack) /\ k \in 1..Len(stack) /\ k + 1 \in 1..Len(stack)
  BY <1>1 DEF Shape
<1>3. Innermost = stack[k + 1]
  BY <1>2 DEF Innermost
<1>4. /\ stack[k] \in Frames /\ IsGraph(stack[k].dag) /\ IsGraph(Innermost.dag)
      /\ stack[k].todo \subseteq DOMAIN stack[k].dag
  BY <1>2, <1>3, StackHasFrames, FramesHaveGraphs DEF FrameShape
<1>5. Innermost.task \in stack[k].todo
  <2>1. k \in 1..(Len(stack) - 1)
    BY <1>1, <1>2
  <2> QED
    BY <1>3, <2>1 DEF Shape, Nested
<1>6. IsGraph(d)
  BY <1>4, <1>5, MergedGraph DEF MergeOf
<1>7. d \in Graphs /\ rest \in SUBSET Ids
  BY <1>4, <1>6, GraphsAreGraphs DEF Frames
<1> HIDE DEF d, k
<1>8. /\ g \in Frames /\ g.dag = d /\ g.todo = rest
      /\ g.path = stack[k].path /\ g.task = stack[k].task
      /\ g.of = stack[k].of /\ g.listed = stack[k].listed
  BY <1>4, <1>7 DEF Frames
<1> HIDE DEF g, rest
<1>9. stack' \in Seq(Frames) /\ Len(stack') = k
      /\ stack'[k] = g /\ \A i \in 1..(k - 1) : stack'[i] = stack[i]
  <2>1. \A i \in 1..k : stack'[i] \in Frames /\ stack'[i] = IF i = k THEN g ELSE stack[i]
    BY <1>1, <1>2, <1>8, StackHasFrames
  <2>2. stack' \in [1..k -> Frames]
    BY <1>1, <2>1
  <2> QED
    BY <1>2, <2>1, <2>2
<1>10. g.todo = IF Size(g.dag) >= MaxTotalNodes THEN {}
                ELSE stack[k].todo \ {stack[k + 1].task}
  BY <1>3, <1>8 DEF rest
<1>11. g.dag = Merge(stack[k].dag, stack[k + 1].task, stack[k + 1].dag)
  BY <1>3, <1>8 DEF d
<1>12. Return(g)
  BY <1>1, <1>2, <1>3, <1>8, <1>9, <1>10, <1>11 DEF Return, k
<1> QED
  BY <1>12

LEMMA FoldSteps ==
    ASSUME Shape, FoldLookup
    PROVE  \E id : Fold(id)
<1>1. PICK id \in DOMAIN Plan :
          /\ Foldable(Plan, id)
          /\ stack' = [stack EXCEPT ![1].dag = FoldAway(@, id)]
          /\ folded' = folded \cup {FoldedTask(id)}
  BY DEF FoldLookup, FoldedTask
<1>2. phase = "fold" /\ UNCHANGED <<phase, simple, wanted>>
  BY DEF FoldLookup
<1>3. stack \in Seq(Frames) /\ Len(stack) = 1 /\ 1 \in 1..Len(stack)
  BY <1>2 DEF Shape, Folding
<1>4. stack[1] \in Frames /\ IsGraph(Plan)
  BY <1>3, StackHasFrames, FramesHaveGraphs DEF Plan
<1> DEFINE g == [stack[1] EXCEPT !.dag = FoldAway(Plan, id)]
<1>5. FoldAway(Plan, id) \in Graphs
  BY <1>4, FoldedGraph, GraphsAreGraphs DEF FoldOf
<1>6. g \in Frames
  BY <1>4, <1>5 DEF Frames
<1>7. stack' = [stack EXCEPT ![1] = g]
  BY <1>1 DEF Plan
<1> HIDE DEF g
<1>8. stack' \in Seq(Frames) /\ Len(stack') = 1 /\ stack'[1] = g
  <2>1. stack \in [1..Len(stack) -> Frames] /\ 1 \in 1..Len(stack)
    BY <1>3
  <2>2. stack' \in [1..Len(stack) -> Frames] /\ stack'[1] = g
    BY ONLY <1>6, <1>7, <2>1
  <2>3. \A n \in Nat : \A s \in [1..n -> Frames] : s \in Seq(Frames) /\ Len(s) = n
    OBVIOUS
  <2> QED
    BY <1>3, <2>2, <2>3
<1>9. Fold(id)
  BY <1>1, <1>2, <1>8 DEF Fold, Foldable, g
<1> QED
  BY <1>9

(* Whatever the planner does next, it is one of these.                     *)
LEMMA NextSteps ==
    ASSUME Shape, [Next]_vars
    PROVE  (\E f : Push(f)) \/ (\E g : Return(g)) \/ (\E id : Fold(id)) \/ Quiet
<1>1. CASE DecomposeQuestion
  <2>1. phase = "start" /\ stack = <<>> /\ <<>> \in Ids /\ <<>> \in Lineages
    BY <1>1 DEF DecomposeQuestion, Shape, Ids, Lineages
  <2> QED
    BY <1>1, <2>1, DecomposeSteps DEF DecomposeQuestion, Folding
<1>2. CASE DecomposeTask
  <2>1. PICK task \in Innermost.todo :
            Decompose(task, Innermost.path \o task, Innermost.listed[task].of)
    BY <1>2 DEF DecomposeTask
  <2>2. phase = "expand" /\ stack # <<>>
    BY <1>2 DEF DecomposeTask, Shape
  <2>3. Len(stack) \in 1..Len(stack)
    BY <2>2 DEF Shape
  <2>4. /\ Innermost.path \in Ids /\ task \in Ids /\ Innermost.listed[task].of \in Lineages
        /\ Innermost.path \o task \in Ids
    <3>1. Innermost \in Frames /\ Innermost.todo \subseteq DOMAIN Innermost.listed
      BY <2>3, StackHasFrames DEF Innermost, FrameShape
    <3>2. Innermost.path \in Ids /\ task \in Ids /\ Innermost.listed[task].of \in Lineages
      BY <3>1, FramesHaveGraphs
    <3> QED
      BY <3>2, Joined
  <2> QED
    BY <2>1, <2>2, <2>4, DecomposeSteps DEF Folding
<1>3. CASE MergeSubDag
  BY <1>3, MergeSteps
<1>4. CASE FoldLookup
  BY <1>4, FoldSteps
<1>5. CASE ExpansionDone
  BY <1>5 DEF ExpansionDone, Quiet, Innermost
<1>6. CASE Deliver
  BY <1>6 DEF Deliver, Quiet
<1>7. CASE Rest \/ UNCHANGED vars
  BY <1>7 DEF Rest, vars, Quiet
<1> QED
  BY <1>1, <1>2, <1>3, <1>4, <1>5, <1>6, <1>7 DEF Next

-----------------------------------------------------------------------------
(* The shape is kept.                                                      *)

LEMMA InitShape == Init => Shape
BY DEF Init, Shape, Nested, Folding

LEMMA AskedIsTyped ==
    ASSUME NEW f \in Frames, NEW id \in DOMAIN f.listed,
           f.listed[id].of = Append(f.of, id)
    PROVE  [id |-> f.path \o id, of |-> f.listed[id].of, at |-> f.listed[id].at,
            inputs |-> {Append(f.of, n) : n \in f.listed[id].deps}] \in Wants
<1>1. /\ f.path \in Ids /\ id \in Ids /\ f.of \in Lineages
      /\ f.listed[id].of \in Lineages /\ f.listed[id].at \in Nat
      /\ f.listed[id].deps \in SUBSET Ids
  BY FramesHaveGraphs
<1>2. f.path \o id \in Ids
  BY <1>1, Joined
<1>3. \A n \in f.listed[id].deps : Append(f.of, n) \in Lineages
  BY <1>1, Appended
<1>4. {Append(f.of, n) : n \in f.listed[id].deps} \in SUBSET Lineages
  BY <1>3
<1> QED
  BY <1>1, <1>2, <1>4 DEF Wants

LEMMA PushedStack ==
    ASSUME Shape, NEW f, Push(f)
    PROVE  /\ stack' \in Seq(Frames) /\ Len(stack') = Len(stack) + 1 /\ Len(stack) \in Nat
           /\ stack'[Len(stack) + 1] = f
           /\ \A k \in 1..Len(stack) : stack'[k] = stack[k] /\ k # Len(stack) + 1
           /\ \A k \in 1..Len(stack') : k \in 1..Len(stack) \/ k = Len(stack) + 1
<1>1. f \in Frames /\ stack' = Append(stack, f) /\ stack \in Seq(Frames)
  BY DEF Push, Opened, Shape
<1> QED
  BY <1>1

LEMMA PushedFrame ==
    ASSUME Shape, NEW f, Push(f)
    PROVE  /\ f \in Frames /\ FrameShape(f, Len(stack) + 1)
           /\ \A id \in DOMAIN f.dag : id \in DOMAIN f.listed /\ f.dag[id].of = Append(f.of, id)
           /\ \A id \in DOMAIN f.listed : f.listed[id].of = Append(f.of, id)
<1>1. /\ f \in Frames /\ AsListed(f) /\ f.todo \subseteq DOMAIN f.dag
      /\ f.todo # {} => Len(stack) + 1 < MaxDepth /\ Size(f.dag) < MaxTotalNodes
  BY DEF Push, Opened
<1>2. /\ DOMAIN f.dag = DOMAIN f.listed /\ DOMAIN f.dag # {}
      /\ \A id \in DOMAIN f.listed : /\ f.listed[id].of = Append(f.of, id)
                                     /\ f.dag[id].of = Append(f.of, id)
  BY <1>1 DEF AsListed, Fresh
<1>3. f.of \in Lineages /\ \A id \in DOMAIN f.dag : id \in Ids
  BY <1>1, FramesHaveGraphs
<1>4. \A id \in DOMAIN f.dag : /\ Extends(Append(f.of, id), f.of)
                               /\ Len(f.of) < Len(Append(f.of, id))
  BY <1>3, Appended
<1>5. \A a, b \in DOMAIN f.dag : Extends(Append(f.of, a), Append(f.of, b)) => a = b
  BY <1>3, AppendedApart
<1>6. Within(f)
  BY <1>1, <1>2, <1>4, <1>5 DEF Within
<1> QED
  BY <1>1, <1>2, <1>6 DEF FrameShape

LEMMA NestedPush ==
    ASSUME Shape, NEW f, Push(f)
    PROVE  Nested(stack')
<1> DEFINE n == Len(stack)
<1>1. /\ Len(stack') = n + 1 /\ n \in Nat /\ stack'[n + 1] = f
      /\ \A k \in 1..n : stack'[k] = stack[k] /\ k # n + 1
      /\ \A k \in 1..(n + 1) : k \in 1..n \/ k = n + 1
      /\ stack' # <<>>
  BY PushedStack
<1>2. f \in Frames /\ f.of \in Lineages
  BY PushedFrame, FramesHaveGraphs
<1>3. \A k \in 1..n : stack[k].of \in Lineages
  BY StackHasFrames, FramesHaveGraphs
<1>4. Nested(stack)
  BY DEF Shape
<1>5. CASE stack = <<>>
  <2>1. n = 0 /\ f.path = <<>> /\ f.of = <<>>
    BY <1>5 DEF Push, Opened
  <2>2. stack'[1].path = <<>> /\ stack'[1].of = <<>>
    BY <1>1, <2>1
  <2>3. \A j, k \in 1..Len(stack') : Extends(stack'[k].of, stack'[j].of)
    BY <1>1, <1>2, <2>1, ExtendsItself
  <2>4. 1..(Len(stack') - 1) = {}
    BY <1>1, <2>1
  <2> QED
    BY <2>2, <2>3, <2>4 DEF Nested
<1>6. CASE stack # <<>>
  <2>1. n \in 1..n /\ 1 \in 1..n
    BY <1>1, <1>6 DEF Shape
  <2>2. /\ f.task \in stack[n].todo /\ f.path = stack[n].path \o f.task
        /\ f.of = stack[n].listed[f.task].of
    BY <1>6 DEF Push, Opened, Innermost
  <2>3. stack'[1].path = <<>> /\ stack'[1].of = <<>>
    BY <1>1, <1>4, <1>6, <2>1 DEF Nested
  <2>4. ASSUME NEW k \in 1..(Len(stack') - 1)
        PROVE  /\ stack'[k + 1].task \in stack'[k].todo
               /\ stack'[k + 1].path = stack'[k].path \o stack'[k + 1].task
               /\ stack'[k + 1].of = stack'[k].listed[stack'[k + 1].task].of
    <3>1. CASE k = n
      BY <1>1, <2>1, <2>2, <3>1
    <3>2. CASE k # n
      <4>1. k \in 1..(n - 1) /\ k \in 1..n /\ k + 1 \in 1..n
        BY <1>1, <3>2
      <4> QED
        BY <1>1, <1>4, <4>1 DEF Nested
    <3> QED
      BY <3>1, <3>2
  <2>5. Extends(f.of, stack[n].of)
    <3>1. /\ stack[n] \in Frames /\ f.task \in DOMAIN stack[n].listed
          /\ stack[n].listed[f.task].of = Append(stack[n].of, f.task)
      BY <2>1, <2>2, StackHasFrames DEF FrameShape, Within
    <3> QED
      BY <2>2, <3>1, FramesHaveGraphs, Appended
  <2>6. ASSUME NEW j \in 1..Len(stack'), NEW k \in 1..Len(stack'), j <= k
        PROVE  Extends(stack'[k].of, stack'[j].of)
    <3>1. CASE k \in 1..n
      <4>1. j \in 1..n
        BY <1>1, <2>6, <3>1
      <4> QED
        BY <1>1, <1>4, <2>6, <3>1, <4>1 DEF Nested
    <3>2. CASE k = n + 1 /\ j = n + 1
      BY <1>1, <1>2, <3>2, ExtendsItself
    <3>3. CASE k = n + 1 /\ j \in 1..n
      <4>1. j <= n
        BY <3>3
      <4>2. Extends(stack[n].of, stack[j].of)
        BY <1>4, <2>1, <3>3, <4>1 DEF Nested
      <4>3. Extends(f.of, stack[j].of)
        BY <1>2, <1>3, <2>1, <2>5, <3>3, <4>2, ExtendsOn
      <4> QED
        BY <1>1, <3>3, <4>3
    <3> QED
      BY <1>1, <3>1, <3>2, <3>3
  <2> QED
    BY <2>3, <2>4, <2>6 DEF Nested
<1> QED
  BY <1>5, <1>6

LEMMA ShapePush ==
    ASSUME Shape, NEW f, Push(f)
    PROVE  Shape'
<1>1. Nested(stack')
  BY NestedPush
<1>2. \A k \in 1..Len(stack') : FrameShape(stack'[k], k)
  BY PushedStack, PushedFrame, StackHasFrames
<1>3. wanted' = wanted \cup AskedIn(f.listed, f.path, f.of)
  BY DEF Push
<1>4. wanted' \subseteq Wants
  <2>1. AskedIn(f.listed, f.path, f.of) \subseteq Wants
    BY PushedFrame, AskedIsTyped DEF AskedIn
  <2> QED
    BY <1>3, <2>1 DEF Shape
<1>5. \A k \in 1..Len(stack') : Grounded(stack'[k], wanted')
  <2>1. \A k \in 1..Len(stack) : Grounded(stack[k], wanted')
    BY <1>3, StackHasFrames DEF Grounded
  <2>2. Grounded(f, wanted')
    <3>1. ASSUME NEW id \in DOMAIN f.dag
          PROVE  \E v \in wanted' : v.id = f.path \o id /\ v.of = f.dag[id].of
      <4>1. id \in DOMAIN f.listed /\ f.dag[id].of = f.listed[id].of
        BY PushedFrame
      <4> DEFINE v == [id |-> f.path \o id, of |-> f.listed[id].of, at |-> f.listed[id].at,
                       inputs |-> {Append(f.of, n) : n \in f.listed[id].deps}]
      <4>2. v \in AskedIn(f.listed, f.path, f.of)
        BY <4>1 DEF AskedIn
      <4>3. v.id = f.path \o id /\ v.of = f.listed[id].of
        OBVIOUS
      <4> HIDE DEF v
      <4> QED
        BY <1>3, <4>1, <4>2, <4>3
    <3> QED
      BY <1>3, <3>1 DEF Grounded
  <2> QED
    BY <2>1, <2>2, PushedStack
<1>6. stack' \in Seq(Frames) /\ stack' # <<>>
  BY PushedStack
<1>7. \A k \in 1..Len(stack') : DOMAIN stack'[k].dag # {}
  <2>1. \A k \in 1..Len(stack) : DOMAIN stack[k].dag # {}
    <3>1. phase \in {"start", "expand", "refused"} /\ (phase = "start" => stack = <<>>)
      BY DEF Shape, Push
    <3>2. phase # "refused"
      BY DEF Push
    <3> QED
      BY <3>1, <3>2 DEF Shape
  <2>2. DOMAIN f.dag # {}
    BY DEF Push, Opened, AsListed, Fresh
  <2> QED
    BY <2>1, <2>2, PushedStack
<1> QED
  BY <1>1, <1>2, <1>4, <1>5, <1>6, <1>7 DEF Shape, Push, Folding

(* A call s for the task p of f returns, and f becomes g.                  *)
Returning(f, s, g, p) ==
    /\ f \in Frames /\ s \in Frames /\ g \in Frames
    /\ \E k \in Nat : FrameShape(f, k)
    /\ Within(s) /\ s.todo = {} /\ Grounded(f, wanted) /\ Grounded(s, wanted)
    /\ p \in f.todo
    /\ s.path = f.path \o p /\ s.of = f.listed[p].of
    /\ MergeOf(g.dag, f.dag, p, s.dag)
    /\ g.path = f.path /\ g.task = f.task /\ g.of = f.of /\ g.listed = f.listed
    /\ g.todo \subseteq f.todo \ {p}
    /\ g.todo # {} => Size(g.dag) < MaxTotalNodes

LEMMA ReturnReturns ==
    ASSUME Shape, NEW g, Return(g)
    PROVE  LET k == Len(stack) - 1
           IN  /\ k \in Nat \ {0} /\ k \in 1..Len(stack) /\ k + 1 \in 1..Len(stack)
               /\ Returning(stack[k], stack[k + 1], g, stack[k + 1].task)
               /\ \A i \in 1..Len(stack') : /\ i \in 1..Len(stack)
                                            /\ i = k \/ i \in 1..(k - 1)
               /\ stack'[k] = g /\ Len(stack') = k
<1> DEFINE k == Len(stack) - 1
           f == stack[k]
           s == stack[k + 1]
           p == s.task
<1>1. /\ k \in Nat \ {0} /\ g \in Frames /\ s.todo = {}
      /\ g.path = f.path /\ g.task = f.task /\ g.of = f.of /\ g.listed = f.listed
      /\ g.dag = Merge(f.dag, p, s.dag)
      /\ g.todo = IF Size(g.dag) >= MaxTotalNodes THEN {} ELSE f.todo \ {p}
      /\ stack'[k] = g /\ Len(stack') = k
  BY DEF Return
<1>2. /\ Len(stack) \in Nat /\ k \in 1..Len(stack) /\ k + 1 \in 1..Len(stack)
      /\ k \in 1..(Len(stack) - 1)
  BY <1>1 DEF Shape
<1>3. /\ f \in Frames /\ FrameShape(f, k) /\ Grounded(f, wanted)
      /\ s \in Frames /\ FrameShape(s, k + 1) /\ Grounded(s, wanted)
  BY <1>2, StackHasFrames
<1>4. p \in f.todo /\ s.path = f.path \o p /\ s.of = f.listed[p].of
  BY <1>2 DEF Shape, Nested
<1>5. p \in DOMAIN f.dag /\ IsGraph(f.dag) /\ IsGraph(s.dag)
  BY <1>3, <1>4, FramesHaveGraphs DEF FrameShape
<1>6. MergeOf(g.dag, f.dag, p, s.dag)
  BY <1>1, <1>5, MergedGraph
<1>7. Size(g.dag) \in Nat
  BY <1>6, SizeOfGraph DEF MergeOf
<1> HIDE DEF f, s, p
<1>8. Returning(f, s, g, p)
  <2>1. g.todo \subseteq f.todo \ {p} /\ (g.todo # {} => Size(g.dag) < MaxTotalNodes)
    BY <1>1, <1>7
  <2> QED
    BY <1>1, <1>3, <1>4, <1>6, <2>1 DEF Returning, FrameShape
<1>9. \A i \in 1..Len(stack') : i \in 1..Len(stack) /\ (i = k \/ i \in 1..(k - 1))
  BY <1>1, <1>2
<1> QED
  BY <1>1, <1>2, <1>8, <1>9 DEF f, s, p

(* The tasks of s are those of g that extend its lineage; no task of f but *)
(* p is a part of p, nor has p as a part.                                  *)
LEMMA ReturnedTasks ==
    ASSUME NEW f, NEW s, NEW g, NEW p, Returning(f, s, g, p)
    PROVE  /\ p \in DOMAIN f.dag /\ p \in DOMAIN f.listed /\ p \in Ids
           /\ f.of \in Lineages /\ s.of \in Lineages
           /\ s.of = Append(f.of, p) /\ Len(f.of) \in Nat /\ Len(s.of) = Len(f.of) + 1
           /\ \A x \in DOMAIN s.dag : /\ s.dag[x].of \in Lineages /\ x \in Ids /\ p \o x \in Ids
                                      /\ Extends(s.dag[x].of, s.of)
                                      /\ Len(s.of) < Len(s.dag[x].of)
                                      /\ Len(s.dag[x].of) \in Nat
                                      /\ p \o x \in DOMAIN g.dag
                                      /\ g.dag[p \o x].of = s.dag[x].of
           /\ \A id \in DOMAIN f.dag : /\ f.dag[id].of \in Lineages
                                       /\ Len(f.dag[id].of) \in Nat
                                       /\ Len(f.dag[id].of) >= Len(s.of)
           /\ \A id \in DOMAIN f.dag \ {p} : /\ ~Extends(f.dag[id].of, s.of)
                                             /\ ~Extends(s.of, f.dag[id].of)
<1>1. /\ f \in Frames /\ s \in Frames /\ Within(f) /\ Within(s)
      /\ f.todo \subseteq DOMAIN f.dag /\ f.todo \subseteq DOMAIN f.listed
      /\ p \in f.todo /\ s.of = f.listed[p].of
      /\ MergeOf(g.dag, f.dag, p, s.dag)
  BY DEF Returning, FrameShape
<1>2. /\ IsGraph(f.dag) /\ IsGraph(s.dag) /\ f.of \in Lineages /\ s.of \in Lineages
      /\ \A id \in DOMAIN f.dag : id \in Ids /\ f.dag[id].of \in Lineages
      /\ \A x \in DOMAIN s.dag : x \in Ids /\ s.dag[x].of \in Lineages
  BY <1>1, FramesHaveGraphs
<1>3. p \in DOMAIN f.dag /\ p \in DOMAIN f.listed /\ p \in Ids
  BY <1>1, <1>2
<1>4. s.of = Append(f.of, p)
  BY <1>1, <1>3 DEF Within
<1>5. Len(f.of) \in Nat /\ Len(s.of) = Len(f.of) + 1
  BY <1>2, <1>3, <1>4, Appended
<1>6. \A l \in Lineages : Len(l) \in Nat
  BY DEF Lineages
<1>7. ASSUME NEW x \in DOMAIN s.dag
      PROVE  /\ s.dag[x].of \in Lineages /\ x \in Ids /\ p \o x \in Ids
             /\ Extends(s.dag[x].of, s.of) /\ Len(s.of) < Len(s.dag[x].of)
             /\ Len(s.dag[x].of) \in Nat
             /\ p \o x \in DOMAIN g.dag /\ g.dag[p \o x].of = s.dag[x].of
  <2>1. p \o x \in DOMAIN g.dag /\ g.dag[p \o x].of = s.dag[x].of
    BY <1>1 DEF MergeOf, Parts
  <2> QED
    BY <1>1, <1>2, <1>3, <1>6, <2>1, Joined DEF Within
<1>8. \A id \in DOMAIN f.dag : Len(f.dag[id].of) \in Nat /\ Len(f.dag[id].of) >= Len(s.of)
  BY <1>1, <1>2, <1>5, <1>6 DEF Within
<1>9. ASSUME NEW id \in DOMAIN f.dag \ {p}
      PROVE  ~Extends(f.dag[id].of, s.of) /\ ~Extends(s.of, f.dag[id].of)
  <2>1. ~Extends(f.dag[id].of, s.of)
    BY <1>1 DEF Within
  <2>2. ASSUME Extends(s.of, f.dag[id].of) PROVE FALSE
    <3>1. Len(s.of) <= Len(f.dag[id].of)
      BY <1>5, <1>8
    <3>2. s.of = f.dag[id].of
      BY <1>2, <2>2, <3>1, ExtendsSameLength
    <3> QED
      BY <1>2, <2>1, <3>2, ExtendsItself
  <2> QED
    BY <2>1, <2>2
<1> QED
  BY <1>2, <1>3, <1>4, <1>5, <1>7, <1>8, <1>9

LEMMA ReturnedIds ==
    ASSUME NEW f, NEW s, NEW g, NEW p, Returning(f, s, g, p), NEW id \in DOMAIN g.dag
    PROVE  \/ \E x \in DOMAIN s.dag : id = p \o x
           \/ /\ id \in DOMAIN f.dag \ {p} /\ id \notin Parts(p, s.dag)
              /\ g.dag[id].of = f.dag[id].of
<1>1. MergeOf(g.dag, f.dag, p, s.dag)
  BY DEF Returning
<1>2. CASE id \in Parts(p, s.dag)
  BY <1>2 DEF Parts
<1>3. CASE id \notin Parts(p, s.dag)
  BY <1>1, <1>3 DEF MergeOf
<1> QED
  BY <1>2, <1>3

LEMMA ReturnedWithin ==
    ASSUME NEW f, NEW s, NEW g, NEW p, Returning(f, s, g, p)
    PROVE  Within(g)
<1>1. /\ p \in DOMAIN f.dag /\ p \in Ids
      /\ f.of \in Lineages /\ s.of \in Lineages
      /\ s.of = Append(f.of, p) /\ Len(f.of) \in Nat /\ Len(s.of) = Len(f.of) + 1
      /\ \A x \in DOMAIN s.dag : /\ s.dag[x].of \in Lineages
                                 /\ Extends(s.dag[x].of, s.of)
                                 /\ Len(s.of) < Len(s.dag[x].of) /\ Len(s.dag[x].of) \in Nat
                                 /\ p \o x \in DOMAIN g.dag
                                 /\ g.dag[p \o x].of = s.dag[x].of
      /\ \A id \in DOMAIN f.dag : /\ f.dag[id].of \in Lineages
                                  /\ Len(f.dag[id].of) \in Nat
                                  /\ Len(f.dag[id].of) >= Len(s.of)
      /\ \A id \in DOMAIN f.dag \ {p} : /\ ~Extends(f.dag[id].of, s.of)
                                        /\ ~Extends(s.of, f.dag[id].of)
  BY ReturnedTasks
<1>2. \A id \in DOMAIN g.dag : \/ \E x \in DOMAIN s.dag : id = p \o x
                               \/ /\ id \in DOMAIN f.dag \ {p}
                                  /\ g.dag[id].of = f.dag[id].of
  BY ReturnedIds
<1>3. /\ Within(f) /\ Within(s) /\ f \in Frames /\ p \in f.todo
      /\ g.of = f.of /\ g.listed = f.listed /\ g.todo \subseteq f.todo \ {p}
      /\ f.todo \subseteq DOMAIN f.listed
  BY DEF Returning, FrameShape
<1>5. Extends(s.of, f.of)
  BY <1>1, Appended
<1>6. ASSUME NEW id \in DOMAIN g.dag
      PROVE  Extends(g.dag[id].of, g.of) /\ Len(g.of) < Len(g.dag[id].of)
  <2>1. CASE \E x \in DOMAIN s.dag : id = p \o x
    <3>1. PICK x \in DOMAIN s.dag : id = p \o x
      BY <2>1
    <3>2. Extends(s.dag[x].of, f.of)
      BY <1>1, <1>5, ExtendsOn
    <3> QED
      BY <1>1, <1>3, <3>1, <3>2
  <2>2. CASE id \in DOMAIN f.dag \ {p} /\ g.dag[id].of = f.dag[id].of
    BY <1>3, <2>2 DEF Within
  <2> QED
    BY <1>2, <2>1, <2>2
<1>7. ASSUME NEW a \in DOMAIN g.dag, NEW b \in DOMAIN g.dag,
             Extends(g.dag[a].of, g.dag[b].of)
      PROVE  a = b
  <2>1. CASE (\E x \in DOMAIN s.dag : a = p \o x) /\ (\E y \in DOMAIN s.dag : b = p \o y)
    <3>1. PICK x \in DOMAIN s.dag, y \in DOMAIN s.dag : a = p \o x /\ b = p \o y
      BY <2>1
    <3>2. Extends(s.dag[x].of, s.dag[y].of)
      BY <1>1, <1>7, <3>1
    <3> QED
      BY <1>3, <3>1, <3>2 DEF Within
  <2>2. CASE (\E x \in DOMAIN s.dag : a = p \o x) /\ b \in DOMAIN f.dag \ {p}
                 /\ g.dag[b].of = f.dag[b].of
    <3>1. PICK x \in DOMAIN s.dag : a = p \o x
      BY <2>2
    <3>2. Extends(s.dag[x].of, f.dag[b].of) /\ Extends(s.dag[x].of, s.of)
          /\ Len(s.of) <= Len(f.dag[b].of)
      BY <1>1, <1>7, <2>2, <3>1
    <3>3. Extends(f.dag[b].of, s.of)
      BY <1>1, <2>2, <3>2, ExtendsEither
    <3> QED
      BY <1>1, <2>2, <3>3
  <2>3. CASE a \in DOMAIN f.dag \ {p} /\ g.dag[a].of = f.dag[a].of
                 /\ (\E y \in DOMAIN s.dag : b = p \o y)
    <3>1. PICK y \in DOMAIN s.dag : b = p \o y
      BY <2>3
    <3>2. Extends(f.dag[a].of, s.dag[y].of)
      BY <1>1, <1>7, <2>3, <3>1
    <3>3. Extends(f.dag[a].of, s.of)
      BY <1>1, <2>3, <3>2, ExtendsOn
    <3> QED
      BY <1>1, <2>3, <3>3
  <2>4. CASE a \in DOMAIN f.dag /\ g.dag[a].of = f.dag[a].of
                 /\ b \in DOMAIN f.dag /\ g.dag[b].of = f.dag[b].of
    BY <1>3, <1>7, <2>4 DEF Within
  <2> QED
    BY <1>2, <2>1, <2>2, <2>3, <2>4
<1>8. ASSUME NEW q \in g.todo, NEW id \in DOMAIN g.dag,
             Extends(g.dag[id].of, g.listed[q].of)
      PROVE  id = q /\ g.dag[id].of = g.listed[q].of
  <2>1. q \in f.todo /\ q # p /\ q \in DOMAIN f.listed /\ q \in Ids
        /\ f.listed[q].of = Append(f.of, q)
    BY <1>3, FramesHaveGraphs DEF Within
  <2>2. CASE \E x \in DOMAIN s.dag : id = p \o x
    <3>1. PICK x \in DOMAIN s.dag : id = p \o x
      BY <2>2
    <3>2. Append(f.of, q) \in Lineages /\ Len(Append(f.of, q)) = Len(s.of)
      BY <1>1, <2>1, Appended
    <3>3. /\ Extends(s.dag[x].of, Append(f.of, q)) /\ Extends(s.dag[x].of, s.of)
          /\ Len(s.of) <= Len(Append(f.of, q))
      BY <1>1, <1>3, <1>8, <2>1, <3>1, <3>2
    <3>4. Extends(Append(f.of, q), s.of)
      BY <1>1, <3>2, <3>3, ExtendsEither
    <3> QED
      BY <1>1, <2>1, <3>4, AppendedApart
  <2>3. CASE id \in DOMAIN f.dag /\ g.dag[id].of = f.dag[id].of
    BY <1>3, <1>8, <2>1, <2>3 DEF Within
  <2> QED
    BY <1>2, <2>2, <2>3
<1> QED
  BY <1>3, <1>6, <1>7, <1>8 DEF Within

LEMMA ShapeReturn ==
    ASSUME Shape, NEW g, Return(g)
    PROVE  Shape'
<1> DEFINE k == Len(stack) - 1
           f == stack[k]
           s == stack[k + 1]
           p == s.task
<1>1. /\ k \in Nat \ {0} /\ k \in 1..Len(stack) /\ k + 1 \in 1..Len(stack)
      /\ Returning(f, s, g, p)
      /\ \A i \in 1..Len(stack') : i \in 1..Len(stack) /\ (i = k \/ i \in 1..(k - 1))
      /\ stack'[k] = g /\ Len(stack') = k
  BY ReturnReturns
<1>2. /\ phase = "expand" /\ UNCHANGED <<phase, simple, wanted, folded>>
      /\ stack' \in Seq(Frames) /\ \A i \in 1..(k - 1) : stack'[i] = stack[i]
  BY DEF Return
<1>3. /\ FrameShape(f, k) /\ f \in Frames /\ s \in Frames /\ p \in f.todo
      /\ Grounded(f, wanted) /\ Grounded(s, wanted) /\ s.path = f.path \o p
      /\ g.path = f.path /\ g.task = f.task /\ g.of = f.of /\ g.listed = f.listed
      /\ g.todo \subseteq f.todo \ {p} /\ (g.todo # {} => Size(g.dag) < MaxTotalNodes)
      /\ MergeOf(g.dag, f.dag, p, s.dag)
  BY <1>1, StackHasFrames DEF Returning
<1> HIDE DEF f, s, p
<1>4. FrameShape(g, k)
  <2>1. f.todo \subseteq DOMAIN f.dag /\ f.todo \subseteq DOMAIN f.listed
        /\ (f.todo # {} => k < MaxDepth)
    BY <1>3 DEF FrameShape
  <2>2. DOMAIN f.dag \ {p} \subseteq DOMAIN g.dag
    BY <1>3 DEF MergeOf
  <2>3. Within(g)
    BY <1>1, ReturnedWithin
  <2> QED
    BY <1>3, <2>1, <2>2, <2>3 DEF FrameShape
<1>5. Grounded(g, wanted)
  <2>1. ASSUME NEW id \in DOMAIN g.dag
        PROVE  \E v \in wanted : v.id = g.path \o id /\ v.of = g.dag[id].of
    <3>1. CASE \E x \in DOMAIN s.dag : id = p \o x
      <4>1. PICK x \in DOMAIN s.dag : id = p \o x
        BY <3>1
      <4>2. PICK v \in wanted : v.id = s.path \o x /\ v.of = s.dag[x].of
        BY <1>3 DEF Grounded
      <4>3. p \in Ids /\ x \in Ids /\ f.path \in Ids /\ g.dag[p \o x].of = s.dag[x].of
        BY <1>1, <1>3, ReturnedTasks, FramesHaveGraphs
      <4>4. (f.path \o p) \o x = f.path \o (p \o x)
        BY <4>3, JoinedTwice
      <4> QED
        BY <1>3, <4>1, <4>2, <4>3, <4>4
    <3>2. CASE id \in DOMAIN f.dag \ {p} /\ g.dag[id].of = f.dag[id].of
      BY <1>3, <3>2 DEF Grounded
    <3>3. \/ \E x \in DOMAIN s.dag : id = p \o x
          \/ id \in DOMAIN f.dag \ {p} /\ g.dag[id].of = f.dag[id].of
      <4>1. Returning(f, s, g, p)
        BY <1>1
      <4> QED
        BY <4>1, ReturnedIds
    <3> QED
      BY <3>1, <3>2, <3>3
  <2> QED
    BY <1>3, <2>1 DEF Grounded
<1>6. Nested(stack')
  <2>1. Nested(stack)
    BY DEF Shape
  <2>2. \A i \in 1..Len(stack') :
            /\ i \in 1..Len(stack)
            /\ stack'[i].path = stack[i].path /\ stack'[i].task = stack[i].task
            /\ stack'[i].of = stack[i].of /\ stack'[i].listed = stack[i].listed
            /\ i < Len(stack') => stack'[i].todo = stack[i].todo
    <3>1. /\ stack'[k].path = stack[k].path /\ stack'[k].task = stack[k].task
          /\ stack'[k].of = stack[k].of /\ stack'[k].listed = stack[k].listed
      BY <1>1, <1>3 DEF f
    <3>2. ~(k < Len(stack'))
      BY <1>1
    <3> HIDE DEF k
    <3> QED
      BY <1>1, <1>2, <3>1, <3>2
  <2>3. stack'[1].path = <<>> /\ stack'[1].of = <<>>
    <3>1. stack # <<>> /\ 1 \in 1..Len(stack')
      BY <1>1
    <3> QED
      BY <2>1, <2>2, <3>1 DEF Nested
  <2>4. ASSUME NEW i \in 1..(Len(stack') - 1)
        PROVE  /\ stack'[i + 1].task \in stack'[i].todo
               /\ stack'[i + 1].path = stack'[i].path \o stack'[i + 1].task
               /\ stack'[i + 1].of = stack'[i].listed[stack'[i + 1].task].of
    <3>1. /\ i \in 1..(Len(stack) - 1) /\ i \in 1..Len(stack') /\ i + 1 \in 1..Len(stack')
          /\ i < Len(stack')
      BY <1>1
    <3> QED
      BY <2>1, <2>2, <3>1 DEF Nested
  <2>5. \A i, j \in 1..Len(stack') : i <= j => Extends(stack'[j].of, stack'[i].of)
    BY <2>1, <2>2 DEF Nested
  <2> QED
    BY <2>3, <2>4, <2>5 DEF Nested
<1>7. \A i \in 1..Len(stack') : FrameShape(stack'[i], i) /\ Grounded(stack'[i], wanted)
  BY <1>1, <1>2, <1>4, <1>5, StackHasFrames
<1>8. stack' # <<>> /\ stack' \in Seq(Frames)
  BY <1>1, <1>2
<1>9. \A i \in 1..Len(stack') : DOMAIN stack'[i].dag # {}
  <2>1. \A i \in 1..Len(stack) : DOMAIN stack[i].dag # {}
    BY <1>2 DEF Shape
  <2>2. DOMAIN g.dag # {}
    <3>1. PICK x \in DOMAIN s.dag : TRUE
      BY <1>1, <2>1 DEF s
    <3>2. p \o x \in Parts(p, s.dag)
      BY DEF Parts
    <3> QED
      BY <1>3, <3>2 DEF MergeOf
  <2> QED
    BY <1>1, <1>2, <2>1, <2>2
<1> QED
  BY <1>2, <1>6, <1>7, <1>8, <1>9 DEF Shape, Folding

(* A fold takes one task from the plan.                                    *)
LEMMA FoldedPlan ==
    ASSUME Shape, NEW id, Fold(id)
    PROVE  /\ Len(stack) = 1 /\ Len(stack') = 1 /\ 1 \in 1..Len(stack)
           /\ Plan = stack[1].dag /\ Plan' = stack'[1].dag /\ IsGraph(Plan)
           /\ id \in DOMAIN Plan /\ FoldOf(Plan', Plan, id)
           /\ stack'[1] \in Frames
           /\ stack[1].todo = {} /\ stack'[1].todo = {}
           /\ stack'[1].path = stack[1].path /\ stack'[1].task = stack[1].task
           /\ stack'[1].of = stack[1].of /\ stack'[1].listed = stack[1].listed
           /\ stack[1].path = <<>> /\ stack[1].of = <<>>
<1>1. Len(stack) = 1 /\ stack[1].todo = {} /\ 1 \in 1..Len(stack) /\ stack # <<>>
  BY DEF Fold, Shape, Folding
<1>2. stack[1] \in Frames /\ IsGraph(Plan) /\ Plan = stack[1].dag /\ Plan' = stack'[1].dag
  BY <1>1, StackHasFrames, FramesHaveGraphs DEF Plan
<1>3. stack'[1] = [stack[1] EXCEPT !.dag = FoldAway(Plan, id)] /\ id \in DOMAIN Plan
      /\ Len(stack') = 1 /\ stack' \in Seq(Frames)
  BY DEF Fold
<1>4. FoldOf(FoldAway(Plan, id), Plan, id)
  BY <1>2, <1>3, FoldedGraph
<1>5. /\ stack'[1].dag = FoldAway(Plan, id) /\ stack'[1].todo = stack[1].todo
      /\ stack'[1].path = stack[1].path /\ stack'[1].task = stack[1].task
      /\ stack'[1].of = stack[1].of /\ stack'[1].listed = stack[1].listed
  BY <1>2, <1>3 DEF Frames
<1>6. stack[1].path = <<>> /\ stack[1].of = <<>>
  BY <1>1 DEF Shape, Nested
<1>7. stack'[1] \in Frames
  BY <1>3
<1> QED
  BY <1>1, <1>2, <1>3, <1>4, <1>5, <1>6, <1>7

LEMMA ShapeFold ==
    ASSUME Shape, NEW id, Fold(id)
    PROVE  Shape'
<1> DEFINE M == Plan'
           f == stack[1]
           g == stack'[1]
<1>1. /\ Len(stack) = 1 /\ Len(stack') = 1 /\ 1 \in 1..Len(stack)
      /\ Plan = f.dag /\ M = g.dag /\ IsGraph(Plan)
      /\ id \in DOMAIN Plan /\ FoldOf(M, Plan, id)
      /\ g \in Frames /\ f.todo = {} /\ g.todo = {}
      /\ g.path = f.path /\ g.of = f.of /\ g.listed = f.listed
      /\ f.path = <<>> /\ f.of = <<>> /\ g = stack'[1]
  BY FoldedPlan
<1>2. /\ phase = "fold" /\ stack' \in Seq(Frames) /\ UNCHANGED <<phase, simple, wanted>>
      /\ folded' = folded \cup {FoldedTask(id)} /\ Consumers(Plan, id) # {}
  BY DEF Fold
<1>3. f \in Frames /\ FrameShape(f, 1) /\ Grounded(f, wanted)
  BY <1>1, StackHasFrames
<1>4. /\ IsGraph(M) /\ DOMAIN M = DOMAIN Plan \ {id}
      /\ \A o \in DOMAIN M : M[o].of = Plan[o].of
  BY <1>1 DEF FoldOf
<1>10. stack' # <<>>
  <2>1. Len(stack') = 1 /\ Len(<<>>) = 0
    BY <1>1
  <2> QED
    BY <2>1
<1> HIDE DEF M, f, g
<1>5. Within(g)
  <2>1. Within(f)
    BY <1>3 DEF FrameShape
  <2> QED
    BY <1>1, <1>4, <2>1 DEF Within
<1>6. FrameShape(g, 1)
  BY <1>1, <1>5 DEF FrameShape
<1>7. Grounded(g, wanted)
  BY <1>1, <1>3, <1>4 DEF Grounded
<1>8. Nested(stack')
  <2>1. stack' # <<>> /\ g.path = <<>> /\ g.of = <<>> /\ g = stack'[1]
    BY <1>1, <1>10
  <2>2. \A k \in 1..Len(stack') : k = 1
    BY <1>1
  <2>3. Extends(g.of, g.of)
    BY <1>1, FramesHaveGraphs, ExtendsItself
  <2>4. 1..(Len(stack') - 1) = {}
    BY <1>1
  <2> QED
    BY <2>1, <2>2, <2>3, <2>4 DEF Nested
<1>9. FoldedTask(id) \in Folds
  <2>1. Plan[id] \in Tasks /\ id \in Ids
    BY <1>1 DEF IsGraph
  <2> QED
    BY <2>1 DEF FoldedTask, Folds, Tasks
<1>11. \A k \in 1..Len(stack') : FrameShape(stack'[k], k) /\ Grounded(stack'[k], wanted)
  <2>1. \A k \in 1..Len(stack') : k = 1
    BY <1>1
  <2> QED
    BY <1>1, <1>6, <1>7, <2>1
<1> QED
  BY <1>1, <1>2, <1>8, <1>9, <1>10, <1>11 DEF Shape, Folding

LEMMA StepShape == Shape /\ [Next]_vars => Shape'
<1> SUFFICES ASSUME Shape, [Next]_vars PROVE Shape'
  OBVIOUS
<1>1. ASSUME Quiet PROVE Shape'
  BY <1>1 DEF Shape, Quiet, Folding
<1> QED
  BY <1>1, NextSteps, ShapePush, ShapeReturn, ShapeFold

(* Whatever the model answers: a call expands a task that its caller listed *)
(* and still has to decompose, so that no call is deeper than MaxDepth; the *)
(* tasks of a graph were asked for under its ids; and no task is in a graph *)
(* together with one of its parts (planner.py:430-487).                     *)
THEOREM CallsAreNested == Spec => []Shape
<1>1. Init => Shape
  BY InitShape
<1>2. Shape /\ [Next]_vars => Shape'
  BY StepShape
<1> QED
  BY <1>1, <1>2, PTL DEF Spec

-----------------------------------------------------------------------------
(* Open tasks are left at the node limit only. *)

(* Every open task is still to be decomposed, or the graph was full; what  *)
(* was folded since counts.                                                *)
OpenIsListed(f) ==
    \/ NonAtomic(f.dag) \subseteq f.todo
    \/ Size(f.dag) + Cardinality(folded) >= MaxTotalNodes

Counted ==
    /\ \A k \in 1..Len(stack) : OpenIsListed(stack[k])
    /\ IsFiniteSet(folded)
    /\ phase \in Folding => \A lookup \in folded : lookup.id \notin DOMAIN Plan

LEMMA InitCounted == Init => Counted
<1> SUFFICES ASSUME Init PROVE Counted
  OBVIOUS
<1>1. stack = <<>> /\ folded = {} /\ Len(<<>>) = 0 /\ phase = "start"
  BY DEF Init
<1>2. IsFiniteSet({})
  BY FS_EmptySet
<1> QED
  BY <1>1, <1>2 DEF Counted, Folding

LEMMA CountedPush ==
    ASSUME Shape, Counted, NEW f, Push(f)
    PROVE  Counted'
<1>1. NonAtomic(f.dag) \subseteq f.todo /\ folded' = folded /\ phase' \notin Folding
  BY DEF Push, Opened, Folding
<1>2. \A k \in 1..Len(stack') : stack'[k] = f \/ (k \in 1..Len(stack) /\ stack'[k] = stack[k])
  BY PushedStack
<1> QED
  BY <1>1, <1>2 DEF Counted, OpenIsListed

LEMMA CountedReturn ==
    ASSUME Shape, Counted, NEW g, Return(g)
    PROVE  Counted'
<1> DEFINE k == Len(stack) - 1
           f == stack[k]
           s == stack[k + 1]
           p == s.task
<1>1. /\ k \in 1..Len(stack) /\ k + 1 \in 1..Len(stack)
      /\ Returning(f, s, g, p)
      /\ \A i \in 1..Len(stack') : i \in 1..Len(stack) /\ (i = k \/ i \in 1..(k - 1))
      /\ stack'[k] = g
  BY ReturnReturns
<1>2. /\ phase = "expand" /\ UNCHANGED <<phase, folded>>
      /\ \A i \in 1..(k - 1) : stack'[i] = stack[i]
      /\ g.dag = Merge(f.dag, p, s.dag)
      /\ g.todo = IF Size(g.dag) >= MaxTotalNodes THEN {} ELSE f.todo \ {p}
  BY DEF Return
<1>3. folded = {} /\ Cardinality({}) = 0
  BY <1>2, FS_EmptySet DEF Shape, Folding
<1>4. OpenIsListed(f) /\ OpenIsListed(s)
  BY <1>1 DEF Counted
<1> HIDE DEF f, s, p
<1>5. /\ p \in f.todo /\ p \in DOMAIN f.dag /\ s.todo = {} /\ MergeOf(g.dag, f.dag, p, s.dag)
      /\ IsGraph(f.dag) /\ IsGraph(s.dag)
      /\ f.todo # {} => Size(f.dag) < MaxTotalNodes
  BY <1>1, FramesHaveGraphs DEF Returning, FrameShape
<1>6. Size(s.dag) \in Nat /\ Size(g.dag) \in Nat /\ Size(s.dag) <= Size(g.dag)
      /\ Size(f.dag) \in Nat
  BY <1>2, <1>5, MergedSize, SizeOfGraph
<1>7. NonAtomic(g.dag) \subseteq g.todo \/ Size(g.dag) + Cardinality(folded) >= MaxTotalNodes
  <2>1. CASE Size(g.dag) >= MaxTotalNodes
    BY <1>3, <1>6, <2>1
  <2>2. CASE ~(Size(g.dag) >= MaxTotalNodes)
    <3>1. NonAtomic(s.dag) = {}
      BY <1>3, <1>4, <1>5, <1>6, <2>2 DEF OpenIsListed
    <3>2. NonAtomic(f.dag) \subseteq f.todo
      BY <1>3, <1>4, <1>5, <1>6 DEF OpenIsListed
    <3>3. ASSUME NEW id \in NonAtomic(g.dag) PROVE id \in f.todo \ {p}
      <4>1. id \in DOMAIN g.dag /\ ~g.dag[id].atomic
        BY DEF NonAtomic
      <4>2. CASE id \in Parts(p, s.dag)
        <5>1. PICK x \in DOMAIN s.dag : id = p \o x
          BY <4>2 DEF Parts
        <5>2. g.dag[id].atomic = s.dag[x].atomic
          BY <1>5, <5>1 DEF MergeOf
        <5> QED
          BY <3>1, <4>1, <5>2 DEF NonAtomic
      <4>3. CASE id \notin Parts(p, s.dag)
        <5>1. id \in DOMAIN f.dag \ {p} /\ g.dag[id].atomic = f.dag[id].atomic
          BY <1>5, <4>1, <4>3 DEF MergeOf
        <5> QED
          BY <3>2, <4>1, <5>1 DEF NonAtomic
      <4> QED
        BY <4>2, <4>3
    <3> QED
      BY <1>2, <2>2, <3>3
  <2> QED
    BY <2>1, <2>2
<1>8. \A i \in 1..Len(stack') : \/ NonAtomic(stack'[i].dag) \subseteq stack'[i].todo
                                \/ Size(stack'[i].dag) + Cardinality(folded) >= MaxTotalNodes
  BY <1>1, <1>2, <1>7 DEF Counted, OpenIsListed
<1> QED
  BY <1>2, <1>8 DEF Counted, OpenIsListed, Folding

LEMMA CountedFold ==
    ASSUME Shape, Counted, NEW id, Fold(id)
    PROVE  Counted'
<1> DEFINE M == Plan'
<1>1. /\ Len(stack) = 1 /\ Len(stack') = 1 /\ 1 \in 1..Len(stack) /\ IsGraph(Plan)
      /\ stack[1].todo = {} /\ stack'[1].dag = M /\ stack[1].dag = Plan
      /\ stack'[1].todo = {} /\ id \in DOMAIN Plan /\ FoldOf(M, Plan, id)
  BY FoldedPlan
<1>2. /\ IsGraph(M) /\ DOMAIN M = DOMAIN Plan \ {id}
      /\ \A o \in DOMAIN M : M[o].atomic = Plan[o].atomic
  BY <1>1 DEF FoldOf
<1>3. phase = "fold" /\ phase' = phase /\ folded' = folded \cup {FoldedTask(id)}
  BY DEF Fold
<1>4. /\ IsFiniteSet(folded) /\ \A lookup \in folded : lookup.id \notin DOMAIN Plan
      /\ FoldedTask(id).id = id
  BY <1>3 DEF Counted, Folding, FoldedTask
<1>5. FoldedTask(id) \notin folded
  BY <1>1, <1>4
<1> HIDE DEF M
<1>6. /\ IsFiniteSet(folded') /\ Cardinality(folded') = Cardinality(folded) + 1
      /\ Cardinality(folded) \in Nat
  BY <1>3, <1>4, <1>5, FS_AddElement, FS_CardinalityType
<1>7. Size(M) = Size(Plan) - 1 /\ Size(Plan) \in Nat
  BY <1>1, <1>2, FS_RemoveElement, SizeOfGraph DEF Size, IsGraph
<1>8. \/ NonAtomic(M) \subseteq {}
      \/ Size(M) + Cardinality(folded') >= MaxTotalNodes
  <2>1. OpenIsListed(stack[1])
    BY <1>1 DEF Counted
  <2>2. CASE NonAtomic(Plan) \subseteq {}
    BY <1>2, <2>2 DEF NonAtomic
  <2>3. CASE Size(Plan) + Cardinality(folded) >= MaxTotalNodes
    BY <1>6, <1>7, <2>3
  <2> QED
    BY <1>1, <2>1, <2>2, <2>3 DEF OpenIsListed
<1>9. \A k \in 1..Len(stack') : k = 1
  BY <1>1
<1>10. \A lookup \in folded' : lookup.id \notin DOMAIN M
  BY <1>2, <1>3, <1>4
<1> QED
  BY <1>1, <1>6, <1>8, <1>9, <1>10 DEF Counted, OpenIsListed, M

LEMMA StepCounted ==
    ASSUME Shape, Counted, [Next]_vars
    PROVE  Counted'
<1>1. ASSUME Quiet PROVE Counted'
  <2>1. phase' \in Folding => phase \in Folding \/ folded = {}
    BY <1>1 DEF Quiet, Shape, Folding
  <2> QED
    BY <1>1, <2>1 DEF Counted, Quiet, OpenIsListed, Plan
<1> QED
  BY <1>1, NextSteps, CountedPush, CountedReturn, CountedFold

LEMMA CountedLimit ==
    ASSUME Shape, Counted
    PROVE  OpenOnlyAtLimit
<1> SUFFICES ASSUME phase = "delivered"
             PROVE  \/ \A id \in DOMAIN Plan : Plan[id].atomic
                    \/ Size(Plan) + Cardinality(folded) >= MaxTotalNodes
  BY DEF OpenOnlyAtLimit
<1>1. Len(stack) = 1 /\ stack[1].todo = {} /\ 1 \in 1..Len(stack)
  BY DEF Shape, Folding
<1>2. OpenIsListed(stack[1])
  BY <1>1 DEF Counted
<1>3. NonAtomic(Plan) = {} => \A id \in DOMAIN Plan : Plan[id].atomic
  BY DEF NonAtomic
<1> QED
  BY <1>1, <1>2, <1>3 DEF OpenIsListed, Plan

(* OpenOnlyAtLimit, for all answers: the scheduler meets a task that needs *)
(* further decomposition only in a plan that, with the tasks folded since, *)
(* holds MAX_TOTAL_NODES tasks (planner.py:436, 455).                      *)
THEOREM OpenTasksMeanLimit == Spec => []OpenOnlyAtLimit
<1>1. Init => Shape /\ Counted
  BY InitShape, InitCounted
<1>2. Shape /\ Counted /\ [Next]_vars => Shape' /\ Counted'
  BY StepShape, StepCounted
<1>3. Shape /\ Counted => OpenOnlyAtLimit
  BY CountedLimit
<1> QED
  BY <1>1, <1>2, <1>3, PTL DEF Spec

-----------------------------------------------------------------------------
(* No task is lost. *)
Retained(w) ==
    \/ \E k \in 1..Len(stack) : \E id \in DOMAIN stack[k].dag :
           Extends(stack[k].dag[id].of, w.of)
    \/ \E lookup \in folded : Extends(lookup.of, w.of)

(* What is asked for keeps a task in some graph, as long as no other task  *)
(* has the id of one of its parts. A folded table is joined.               *)
Kept ==
    /\ \A w \in wanted : Alone(w.of) => Retained(w)
    /\ phase \in Folding =>
           \A lookup \in folded : lookup.id \notin lookup.deps =>
               \E task \in InPlan \cup folded : lookup.of \in task.joins

LEMMA InitKept == Init => Kept
BY DEF Init, Kept, Folding

(* More answers leave fewer tasks alone.                                   *)
LEMMA AloneBefore ==
    ASSUME wanted \subseteq wanted', NEW of, Alone(of)'
    PROVE  Alone(of)
BY DEF Alone

LEMMA KeptPush ==
    ASSUME Shape, Kept, NEW f, Push(f)
    PROVE  Kept'
<1>1. /\ folded' = folded /\ phase' \notin Folding
      /\ wanted' = wanted \cup AskedIn(f.listed, f.path, f.of)
  BY DEF Push, Folding
<1>2. /\ Len(stack) \in Nat /\ Len(stack') = Len(stack) + 1
      /\ stack'[Len(stack) + 1] = f /\ \A k \in 1..Len(stack) : stack'[k] = stack[k]
  BY PushedStack
<1>3. 1..Len(stack) \subseteq 1..Len(stack') /\ Len(stack) + 1 \in 1..Len(stack')
  BY <1>2
<1>4. ASSUME NEW w \in wanted, Alone(w.of)' PROVE Retained(w)'
  <2>1. Retained(w)
    BY <1>1, <1>4, AloneBefore DEF Kept
  <2> QED
    BY <1>1, <1>2, <1>3, <2>1 DEF Retained
<1>5. ASSUME NEW w \in AskedIn(f.listed, f.path, f.of) PROVE Retained(w)'
  <2>1. PICK id \in DOMAIN f.listed : w.of = f.listed[id].of
    BY DEF AskedIn
  <2>2. /\ id \in DOMAIN f.dag /\ f.dag[id].of = f.listed[id].of
        /\ f.dag[id].of \in Lineages
    BY FramesHaveGraphs DEF Push, Opened, AsListed
  <2>3. Extends(f.dag[id].of, w.of)
    BY <2>1, <2>2, ExtendsItself
  <2> QED
    BY <1>2, <1>3, <2>2, <2>3 DEF Retained
<1> QED
  BY <1>1, <1>4, <1>5 DEF Kept

LEMMA KeptReturn ==
    ASSUME Shape, Kept, NEW g, Return(g)
    PROVE  Kept'
<1> DEFINE k == Len(stack) - 1
           f == stack[k]
           s == stack[k + 1]
           p == s.task
<1>1. /\ k \in Nat \ {0} /\ k \in 1..Len(stack) /\ k + 1 \in 1..Len(stack)
      /\ Returning(f, s, g, p)
      /\ Len(stack') = k /\ stack'[k] = g /\ Len(stack) = k + 1
  BY ReturnReturns DEF Shape
<1>2. /\ phase = "expand" /\ UNCHANGED <<phase, wanted, folded>>
      /\ \A i \in 1..(k - 1) : stack'[i] = stack[i]
  BY DEF Return
<1>3. DOMAIN s.dag # {}
  BY <1>1, <1>2 DEF Shape
<1>4. /\ wanted \subseteq Wants /\ s.path = f.path \o p
      /\ Grounded(f, wanted) /\ Grounded(s, wanted)
      /\ MergeOf(g.dag, f.dag, p, s.dag)
      /\ f \in Frames /\ s \in Frames
  BY <1>1 DEF Shape, Returning
<1> HIDE DEF f, s, p
<1>9. s.of = f.listed[p].of
  BY <1>1 DEF Returning
<1>5. /\ p \in DOMAIN f.dag /\ p \in DOMAIN f.listed /\ p \in Ids /\ s.of \in Lineages
      /\ \A x \in DOMAIN s.dag : /\ Extends(s.dag[x].of, s.of) /\ s.dag[x].of \in Lineages
                                 /\ x \in Ids /\ p \o x \in DOMAIN g.dag
                                 /\ g.dag[p \o x].of = s.dag[x].of
      /\ \A id \in DOMAIN f.dag : f.dag[id].of \in Lineages
  <2>1. Returning(f, s, g, p)
    BY <1>1
  <2> QED
    BY <2>1, ReturnedTasks
<1>6. f.path \in Ids
  BY <1>4, FramesHaveGraphs
<1>7. ASSUME NEW w \in wanted, Alone(w.of),
             NEW id \in DOMAIN f.dag, Extends(f.dag[id].of, w.of)
      PROVE  \E o \in DOMAIN g.dag : Extends(g.dag[o].of, w.of)
  <2>0. w.of \in Lineages
    BY <1>4 DEF Wants
  <2>1. PICK v \in wanted : v.id = f.path \o id /\ v.of = f.dag[id].of
    BY <1>4 DEF Grounded
  <2>2. CASE id = p
    <3>1. PICK u \in wanted : u.id = f.path \o p /\ u.of = s.of
      <4> DEFINE u == [id |-> f.path \o p, of |-> f.listed[p].of, at |-> f.listed[p].at,
                       inputs |-> {Append(f.of, n) : n \in f.listed[p].deps}]
      <4>1. u \in wanted /\ u.id = f.path \o p /\ u.of = f.listed[p].of
        BY <1>4, <1>5 DEF Grounded, AskedIn
      <4> HIDE DEF u
      <4> QED
        BY <1>5, <1>9, <4>1
    <3>2. u.of = v.of
      BY <1>7, <2>1, <2>2, <3>1 DEF Alone
    <3>3. PICK x \in DOMAIN s.dag : TRUE
      BY <1>3 DEF s
    <3>4. Extends(s.dag[x].of, w.of)
      BY <1>5, <1>7, <2>0, <2>1, <3>1, <3>2, ExtendsOn
    <3> QED
      BY <1>5, <3>4
  <2>3. CASE id \in Parts(p, s.dag)
    <3>1. PICK x \in DOMAIN s.dag : id = p \o x
      BY <2>3 DEF Parts
    <3>2. PICK u \in wanted : u.id = s.path \o x /\ u.of = s.dag[x].of
      BY <1>4 DEF Grounded
    <3>3. (f.path \o p) \o x = f.path \o (p \o x)
      BY <1>5, <1>6, JoinedTwice
    <3>5. u.id = v.id
      BY <1>4, <2>1, <3>1, <3>2, <3>3
    <3>4. u.of = v.of
      BY <1>7, <2>1, <3>2, <3>5 DEF Alone
    <3> QED
      BY <1>5, <1>7, <2>1, <3>1, <3>2, <3>4
  <2>4. CASE id # p /\ id \notin Parts(p, s.dag)
    BY <1>4, <1>7, <2>4 DEF MergeOf
  <2> QED
    BY <2>2, <2>3, <2>4
<1>8. ASSUME NEW w \in wanted, Alone(w.of) PROVE Retained(w)'
  <2>1. Retained(w)
    BY <1>8 DEF Kept
  <2>2. CASE \E lookup \in folded : Extends(lookup.of, w.of)
    BY <1>2, <2>2 DEF Retained
  <2>3. ASSUME NEW i \in 1..Len(stack), NEW id \in DOMAIN stack[i].dag,
               Extends(stack[i].dag[id].of, w.of)
        PROVE  Retained(w)'
    <3>1. CASE i \in 1..(k - 1)
      <4>1. i \in 1..Len(stack') /\ stack'[i] = stack[i]
        BY <1>1, <1>2, <3>1
      <4> QED
        BY <2>3, <4>1 DEF Retained
    <3>2. CASE i \in {k, k + 1}
      <4>1. \E o \in DOMAIN g.dag : Extends(g.dag[o].of, w.of)
        <5>1. CASE i = k
          BY <1>7, <1>8, <2>3, <5>1 DEF f
        <5>2. CASE i = k + 1
          BY <1>5, <2>3, <5>2 DEF s
        <5> QED
          BY <3>2, <5>1, <5>2
      <4>2. k \in 1..Len(stack') /\ stack'[k] = g
        BY <1>1
      <4> QED
        BY <4>1, <4>2 DEF Retained
    <3> QED
      BY <1>1, <3>1, <3>2
  <2> QED
    BY <2>1, <2>2, <2>3 DEF Retained
<1> QED
  BY <1>2, <1>8 DEF Kept, Folding, Alone

LEMMA KeptFold ==
    ASSUME Shape, Kept, NEW id, Fold(id)
    PROVE  Kept'
<1> DEFINE M == Plan'
           t == FoldedTask(id)
<1>1. /\ Len(stack) = 1 /\ Len(stack') = 1 /\ 1 \in 1..Len(stack)
      /\ stack[1].dag = Plan /\ stack'[1].dag = M
      /\ id \in DOMAIN Plan /\ FoldOf(M, Plan, id)
  BY FoldedPlan
<1>2. /\ DOMAIN M = DOMAIN Plan \ {id}
      /\ \A o \in DOMAIN M : /\ M[o].of = Plan[o].of /\ Plan[o].joins \subseteq M[o].joins
                             /\ id \in Plan[o].deps => Plan[id].of \in M[o].joins
  BY <1>1 DEF FoldOf
<1>3. /\ phase = "fold" /\ UNCHANGED <<phase, wanted>> /\ folded' = folded \cup {t}
      /\ Consumers(Plan, id) # {}
  BY DEF Fold
<1>4. t.id = id /\ t.of = Plan[id].of /\ t.deps = Plan[id].deps /\ t.joins = Plan[id].joins
  BY DEF FoldedTask
<1>5. InPlan = {Plan[o] : o \in DOMAIN Plan} /\ InPlan' = {M[o] : o \in DOMAIN M}
  BY DEF InPlan
<1> HIDE DEF M, t
<1>6. ASSUME NEW w \in wanted, Alone(w.of) PROVE Retained(w)'
  <2>1. Retained(w)
    BY <1>6 DEF Kept
  <2>2. CASE \E lookup \in folded : Extends(lookup.of, w.of)
    BY <1>3, <2>2 DEF Retained
  <2>3. ASSUME NEW o \in DOMAIN Plan, Extends(Plan[o].of, w.of) PROVE Retained(w)'
    <3>1. CASE o = id
      BY <1>3, <1>4, <2>3, <3>1 DEF Retained
    <3>2. CASE o # id
      <4>1. o \in DOMAIN M /\ M[o].of = Plan[o].of
        BY <1>2, <3>2
      <4>2. 1 \in 1..Len(stack') /\ stack'[1].dag = M
        BY <1>1
      <4> QED
        BY <2>3, <4>1, <4>2 DEF Retained
    <3> QED
      BY <3>1, <3>2
  <2>4. \A i \in 1..Len(stack) : stack[i].dag = Plan
    BY <1>1
  <2> QED
    BY <2>1, <2>2, <2>3, <2>4 DEF Retained
<1>7. ASSUME NEW lookup \in folded', lookup.id \notin lookup.deps
      PROVE  \E task \in InPlan' \cup folded' : lookup.of \in task.joins
  <2>1. CASE lookup = t
    <3>1. PICK o \in DOMAIN Plan : id \in Plan[o].deps
      BY <1>3 DEF Consumers
    <3>2. o # id
      BY <1>4, <1>7, <2>1, <3>1
    <3>3. o \in DOMAIN M /\ lookup.of \in M[o].joins
      BY <1>2, <1>4, <2>1, <3>1, <3>2
    <3> QED
      BY <1>5, <3>3
  <2>2. CASE lookup \in folded
    <3>1. PICK task \in InPlan \cup folded : lookup.of \in task.joins
      BY <1>3, <1>7, <2>2 DEF Kept, Folding
    <3>2. CASE task \in folded
      BY <1>3, <3>1, <3>2
    <3>3. CASE task \in InPlan
      <4>1. PICK o \in DOMAIN Plan : task = Plan[o]
        BY <1>5, <3>3
      <4>2. CASE o = id
        BY <1>3, <1>4, <3>1, <4>1, <4>2
      <4>3. CASE o # id
        BY <1>2, <1>5, <3>1, <4>1, <4>3
      <4> QED
        BY <4>2, <4>3
    <3> QED
      BY <3>1, <3>2, <3>3
  <2> QED
    BY <1>3, <2>1, <2>2
<1> QED
  BY <1>3, <1>6, <1>7 DEF Kept, Alone

LEMMA StepKept ==
    ASSUME Shape, Kept, [Next]_vars
    PROVE  Kept'
<1>1. ASSUME Quiet PROVE Kept'
  <2>1. UNCHANGED <<stack, wanted, folded>> /\ Plan' = Plan /\ InPlan' = InPlan
    BY <1>1 DEF Quiet, Plan, InPlan
  <2>2. phase' \in Folding => phase \in Folding \/ folded = {}
    BY <1>1 DEF Quiet, Shape, Folding
  <2> QED
    BY <2>1, <2>2 DEF Kept, Alone, Retained
<1> QED
  BY <1>1, NextSteps, KeptPush, KeptReturn, KeptFold

LEMMA KeptTasks ==
    ASSUME Shape, Kept
    PROVE  TasksKept
<1> SUFFICES ASSUME phase = "delivered" PROVE TasksKept
  BY DEF TasksKept
<1>1. Len(stack) = 1 /\ phase \in Folding /\ \A k \in 1..Len(stack) : stack[k].dag = Plan
  <2>1. Len(stack) = 1 /\ phase \in Folding
    BY DEF Shape, Folding
  <2>2. \A k \in 1..1 : k = 1
    OBVIOUS
  <2> QED
    BY <2>1, <2>2 DEF Plan
<1>2. ASSUME NEW w \in wanted, Alone(w.of)
      PROVE  \E task \in InPlan \cup folded : Extends(task.of, w.of)
  <2>1. Retained(w)
    BY <1>2 DEF Kept
  <2> QED
    BY <1>1, <2>1 DEF Retained, InPlan
<1> QED
  BY <1>1, <1>2 DEF Kept, TasksKept

(* TasksKept, for all answers: every sub-task the model asked for, unless  *)
(* the answers give the id of one of its parts to another task too, is in  *)
(* the delivered plan, whole or in parts, or was folded; and the table of a *)
(* folded lookup is joined, unless it waited for itself                    *)
(* (planner.py:409-423, 460-487).                                          *)
THEOREM TasksAreKept == Spec => []TasksKept
<1>1. Init => Shape /\ Kept
  BY InitShape, InitKept
<1>2. Shape /\ Kept /\ [Next]_vars => Shape' /\ Kept'
  BY StepShape, StepKept
<1>3. Shape /\ Kept => TasksKept
  BY KeptTasks
<1> QED
  BY <1>1, <1>2, <1>3, PTL DEF Spec


-----------------------------------------------------------------------------
(* No input is lost. *)

(* The inputs of a task are tasks of the same answer.                      *)
Requests ==
    \A w \in wanted : \A input \in w.inputs :
        Siblings(w.of, input) /\ \E v \in wanted : v.of = input

(* What a call still has to decompose has no parts yet, but for the task   *)
(* that is being decomposed.                                               *)
NotYet(k) ==
    \A p \in stack[k].todo :
        (k < Len(stack) => p # stack[k + 1].task) =>
            \A v \in wanted : Extends(v.of, stack[k].listed[p].of) =>
                v.of = stack[k].listed[p].of

(* What is said of the input of a task.                                    *)
Due(w, input) == Orderly(w) /\ Alone(w.of) /\ Alone(input)

PartOf(task, input) == Extends(task.of, input) /\ task.of # input

(* No lookup that input was expanded into took what it waited for along.   *)
Unbroken(input) == \A lookup \in folded : Extends(lookup.of, input) => lookup.deps = {}

(* The task id waits for the input, and from graph to graph is listed after *)
(* it; each part the input was expanded into is waited for by the task or  *)
(* by another part.                                                        *)
Linked(d, id, w, input) ==
    /\ \A part \in DOMAIN d : d[part].of = input =>
           /\ part \in d[id].deps
           /\ Len(w.of) = 1 \/ d[part].at < d[id].at
    /\ Unbroken(input) =>
           \A part \in DOMAIN d : PartOf(d[part], input) =>
               \/ part \in d[id].deps
               \/ \E other \in DOMAIN d : PartOf(d[other], input) /\ part \in d[other].deps

Wired(d) ==
    \A w \in wanted : \A input \in w.inputs : \A id \in DOMAIN d :
        d[id].of = w.of /\ Due(w, input) => Linked(d, id, w, input)

JoinsKept ==
    phase \in Folding =>
        \A lookup \in folded, w \in wanted, id \in DOMAIN Plan :
            Plan[id].of = w.of /\ lookup.of \in w.inputs /\ Due(w, lookup.of) =>
                lookup.of \in Plan[id].joins

Connected ==
    /\ Requests
    /\ \A k \in 1..Len(stack) : NotYet(k) /\ Wired(stack[k].dag)
    /\ JoinsKept
    /\ phase = "delivered" => Valid(Plan)

LEMMA InitConnected == Init => Connected
BY DEF Init, Connected, Requests, JoinsKept, Folding

LEMMA DueBefore ==
    ASSUME wanted \subseteq wanted', NEW w, NEW input, Due(w, input)'
    PROVE  Due(w, input)
BY DEF Due, Alone, Orderly, Expanded

(* What an answer asks for was not asked for before.                       *)
LEMMA AskedAnew ==
    ASSUME Shape, Connected, NEW f, Push(f), NEW v \in wanted, Extends(v.of, f.of)
    PROVE  v.of = f.of
<1>1. stack # <<>>
  BY DEF Shape, Push
<1>2. Len(stack) \in 1..Len(stack)
  BY <1>1 DEF Shape
<1>3. f.task \in stack[Len(stack)].todo /\ f.of = stack[Len(stack)].listed[f.task].of
  BY <1>1 DEF Push, Opened, Innermost
<1>4. NotYet(Len(stack)) /\ ~(Len(stack) < Len(stack))
  BY <1>2 DEF Connected
<1> QED
  BY <1>3, <1>4 DEF NotYet

LEMMA AskedTask ==
    ASSUME Shape, NEW f, Push(f), NEW w \in AskedIn(f.listed, f.path, f.of)
    PROVE  \E id \in DOMAIN f.listed :
               /\ id \in Ids /\ w.of = Append(f.of, id) /\ w.at = f.listed[id].at
               /\ w.inputs = {Append(f.of, n) : n \in f.listed[id].deps}
               /\ f.listed[id].deps \subseteq DOMAIN f.listed
               /\ w.of \in Lineages /\ Extends(w.of, f.of) /\ w.of # f.of
<1>1. /\ f \in Frames /\ f.of \in Lineages /\ Valid(f.listed)
      /\ \A id \in DOMAIN f.listed : f.listed[id].of = Append(f.of, id) /\ id \in Ids
  BY PushedFrame, FramesHaveGraphs DEF Push, Opened, AsListed
<1>2. PICK id \in DOMAIN f.listed :
          w = [id |-> f.path \o id, of |-> f.listed[id].of, at |-> f.listed[id].at,
               inputs |-> {Append(f.of, n) : n \in f.listed[id].deps}]
  BY DEF AskedIn
<1>3. /\ id \in Ids /\ w.of = Append(f.of, id) /\ w.at = f.listed[id].at
      /\ w.inputs = {Append(f.of, n) : n \in f.listed[id].deps}
  BY <1>1, <1>2
<1>6. /\ w.of \in Lineages /\ Extends(w.of, f.of) /\ Len(w.of) = Len(f.of) + 1
      /\ Len(f.of) \in Nat
  BY <1>1, <1>3, Appended
<1>4. w.of # f.of
  BY <1>6
<1>5. f.listed[id].deps \subseteq DOMAIN f.listed
  BY <1>1 DEF Valid, Dependencies
<1> QED
  BY <1>3, <1>4, <1>5, <1>6

LEMMA RequestsPush ==
    ASSUME Shape, Connected, NEW f, Push(f)
    PROVE  Requests'
<1>1. wanted' = wanted \cup AskedIn(f.listed, f.path, f.of)
  BY DEF Push
<1>2. ASSUME NEW w \in AskedIn(f.listed, f.path, f.of), NEW input \in w.inputs
      PROVE  Siblings(w.of, input) /\ \E v \in wanted' : v.of = input
  <2>1. PICK id \in DOMAIN f.listed :
            /\ id \in Ids /\ w.of = Append(f.of, id)
            /\ w.inputs = {Append(f.of, n) : n \in f.listed[id].deps}
            /\ f.listed[id].deps \subseteq DOMAIN f.listed
    BY AskedTask
  <2>2. PICK n \in DOMAIN f.listed : input = Append(f.of, n)
    BY <1>2, <2>1
  <2>3. f.of \in Lineages /\ n \in Ids /\ f.listed[n].of = Append(f.of, n)
    BY PushedFrame, FramesHaveGraphs
  <2> DEFINE v == [id |-> f.path \o n, of |-> f.listed[n].of, at |-> f.listed[n].at,
                   inputs |-> {Append(f.of, m) : m \in f.listed[n].deps}]
  <2>4. v \in AskedIn(f.listed, f.path, f.of) /\ v.of = Append(f.of, n)
    BY <2>3 DEF AskedIn
  <2> HIDE DEF v
  <2> QED
    BY <1>1, <2>1, <2>2, <2>3, <2>4, AppendedSiblings
<1> QED
  BY <1>1, <1>2 DEF Connected, Requests

LEMMA NotYetPush ==
    ASSUME Shape, Connected, NEW f, Push(f), NEW k \in 1..Len(stack')
    PROVE  NotYet(k)'
<1>1. /\ Len(stack') = Len(stack) + 1 /\ Len(stack) \in Nat
      /\ stack'[Len(stack) + 1] = f
      /\ \A i \in 1..Len(stack) : stack'[i] = stack[i]
      /\ k \in 1..Len(stack) \/ k = Len(stack) + 1
  BY PushedStack
<1>2. wanted' = wanted \cup AskedIn(f.listed, f.path, f.of)
  BY DEF Push
<1>3. /\ f \in Frames /\ f.of \in Lineages /\ f.todo \subseteq DOMAIN f.listed
      /\ \A id \in DOMAIN f.listed : f.listed[id].of = Append(f.of, id) /\ id \in Ids
  BY PushedFrame, FramesHaveGraphs DEF FrameShape
<1>4. CASE k = Len(stack) + 1
  <2> SUFFICES ASSUME NEW p \in f.todo, NEW v \in wanted', Extends(v.of, f.listed[p].of)
               PROVE  v.of = f.listed[p].of
    BY <1>1, <1>4 DEF NotYet
  <2>1. p \in Ids /\ f.listed[p].of = Append(f.of, p)
    BY <1>3
  <2>2. CASE v \in wanted
    <3>1. v.of \in Lineages
      BY <2>2 DEF Shape, Wants
    <3>2. /\ Append(f.of, p) \in Lineages /\ Extends(Append(f.of, p), f.of)
          /\ Len(Append(f.of, p)) = Len(f.of) + 1 /\ Len(f.of) \in Nat
      BY <1>3, <2>1, Appended
    <3>3. Extends(v.of, f.of)
      BY <1>3, <2>1, <3>1, <3>2, ExtendsOn
    <3>4. v.of = f.of
      BY <2>2, <3>3, AskedAnew
    <3> QED
      BY <2>1, <3>2, <3>4 DEF Extends
  <2>3. CASE v \in AskedIn(f.listed, f.path, f.of)
    <3>1. PICK id \in DOMAIN f.listed : id \in Ids /\ v.of = Append(f.of, id)
      BY <2>3, AskedTask
    <3> QED
      BY <1>3, <2>1, <3>1, AppendedApart
  <2> QED
    BY <1>2, <2>2, <2>3
<1>5. CASE k \in 1..Len(stack)
  <2>1. /\ k \in 1..(Len(stack') - 1) /\ k + 1 \in 1..Len(stack') /\ k < Len(stack')
        /\ k + 1 <= Len(stack') /\ Len(stack') \in 1..Len(stack') /\ stack'[k] = stack[k]
    BY <1>1, <1>5
  <2> DEFINE e == stack[k]
             task == stack'[k + 1].task
  <2>2. /\ task \in e.todo /\ stack'[k + 1].of = e.listed[task].of
        /\ Extends(f.of, stack'[k + 1].of)
    BY <1>1, <2>1, NestedPush DEF Nested
  <2>3. /\ e \in Frames /\ e.of \in Lineages /\ e.todo \subseteq DOMAIN e.listed
        /\ \A id \in DOMAIN e.listed : e.listed[id].of = Append(e.of, id) /\ id \in Ids
    BY <1>5, StackHasFrames, FramesHaveGraphs DEF FrameShape, Within
  <2>4. k < Len(stack) => stack'[k + 1] = stack[k + 1]
    BY <1>1, <1>5
  <2>5. NotYet(k)
    BY <1>5 DEF Connected
  <2> HIDE DEF task, e
  <2> SUFFICES ASSUME NEW p \in e.todo, p # task,
                      NEW v \in wanted', Extends(v.of, e.listed[p].of)
               PROVE  v.of = e.listed[p].of
    BY <2>1 DEF NotYet, e, task
  <2>6. CASE v \in wanted
    BY <2>4, <2>5, <2>6 DEF NotYet, e, task
  <2>7. CASE v \in AskedIn(f.listed, f.path, f.of)
    <3>1. v.of \in Lineages /\ Extends(v.of, f.of)
      BY <2>7, AskedTask
    <3>2. task \in Ids /\ p \in Ids /\ e.listed[task].of = Append(e.of, task)
          /\ e.listed[p].of = Append(e.of, p)
      BY <2>2, <2>3
    <3>3. /\ Append(e.of, task) \in Lineages /\ Append(e.of, p) \in Lineages
          /\ Len(Append(e.of, task)) = Len(e.of) + 1 /\ Len(Append(e.of, p)) = Len(e.of) + 1
          /\ Len(e.of) \in Nat
      BY <2>3, <3>2, Appended
    <3>4. Extends(v.of, Append(e.of, task)) /\ Extends(v.of, Append(e.of, p))
      <4>1. Extends(f.of, Append(e.of, task)) /\ Extends(v.of, Append(e.of, p))
        BY <2>2, <3>2
      <4> QED
        BY <1>3, <3>1, <3>3, <4>1, ExtendsOn
    <3>5. Extends(Append(e.of, task), Append(e.of, p))
      <4>1. Len(Append(e.of, p)) <= Len(Append(e.of, task))
        BY <3>3
      <4> QED
        BY <3>1, <3>3, <3>4, <4>1, ExtendsEither
    <3> QED
      BY <2>3, <3>2, <3>5, AppendedApart
  <2> QED
    BY <1>2, <2>6, <2>7
<1> QED
  BY <1>1, <1>4, <1>5

LEMMA WiredPush ==
    ASSUME Shape, Connected, NEW f, Push(f), NEW k \in 1..Len(stack')
    PROVE  Wired(stack[k].dag)'
<1>1. /\ stack'[Len(stack) + 1] = f
      /\ \A i \in 1..Len(stack) : stack'[i] = stack[i]
      /\ k \in 1..Len(stack) \/ k = Len(stack) + 1
  BY PushedStack
<1>2. /\ wanted' = wanted \cup AskedIn(f.listed, f.path, f.of) /\ wanted \subseteq wanted'
      /\ folded' = folded
  BY DEF Push
<1>3. /\ f \in Frames /\ f.of \in Lineages
      /\ \A id \in DOMAIN f.dag : id \in DOMAIN f.listed /\ f.dag[id].of = Append(f.of, id)
      /\ \A id \in DOMAIN f.listed : f.listed[id].of = Append(f.of, id) /\ id \in Ids
      /\ \A id \in DOMAIN f.listed : /\ f.dag[id].deps = f.listed[id].deps
                                     /\ f.dag[id].at = f.listed[id].at
  BY PushedFrame, FramesHaveGraphs DEF Push, Opened, AsListed
<1>4. CASE k \in 1..Len(stack)
  <2>0. PICK d : d = stack[k].dag /\ d = stack'[k].dag
    BY <1>1, <1>4
  <2>1. Wired(d) /\ \A id \in DOMAIN d : \E v \in wanted : v.of = d[id].of
    BY <1>4, <2>0, StackHasFrames DEF Connected, Grounded
  <2> SUFFICES ASSUME NEW w \in wanted', NEW input \in w.inputs, NEW id \in DOMAIN d,
                      d[id].of = w.of, Due(w, input)'
               PROVE  Linked(d, id, w, input)'
    BY <2>0 DEF Wired
  <2>2. w \in wanted
    <3>1. PICK v \in wanted : v.of = w.of
      BY <2>1
    <3>2. CASE w \in AskedIn(f.listed, f.path, f.of)
      BY <3>1, <3>2, AskedTask, AskedAnew
    <3> QED
      BY <1>2, <3>2
  <2>3. Linked(d, id, w, input)
    BY <1>2, <2>1, <2>2, DueBefore DEF Wired
  <2> QED
    BY <1>2, <2>3 DEF Linked, Unbroken
<1>5. CASE k = Len(stack) + 1
  <2>0. PICK d : d = f.dag /\ d = stack'[k].dag
    BY <1>1, <1>5
  <2> SUFFICES ASSUME NEW w \in wanted', NEW input \in w.inputs, NEW id \in DOMAIN d,
                      d[id].of = w.of, Due(w, input)'
               PROVE  Linked(d, id, w, input)'
    BY <2>0 DEF Wired
  <2>1. id \in Ids /\ w.of = Append(f.of, id)
    BY <1>3, <2>0
  <2>2. w \in AskedIn(f.listed, f.path, f.of)
    <3>1. Extends(w.of, f.of) /\ w.of # f.of
      <4>1. Extends(w.of, f.of) /\ Len(w.of) = Len(f.of) + 1 /\ Len(f.of) \in Nat
        BY <1>3, <2>1, Appended
      <4> QED
        BY <4>1
    <3> QED
      BY <1>2, <3>1, AskedAnew
  <2>3. PICK o \in DOMAIN f.listed :
            /\ o \in Ids /\ w.of = Append(f.of, o) /\ w.at = f.listed[o].at
            /\ w.inputs = {Append(f.of, n) : n \in f.listed[o].deps}
            /\ f.listed[o].deps \subseteq DOMAIN f.listed
    BY <2>2, AskedTask
  <2>4. o = id
    <3>1. Append(f.of, o) \in Lineages /\ Append(f.of, o) = Append(f.of, id)
      BY <1>3, <2>1, <2>3, Appended
    <3>2. Extends(Append(f.of, o), Append(f.of, id))
      BY <3>1, ExtendsItself
    <3> QED
      BY <1>3, <2>1, <2>3, <3>2, AppendedApart
  <2>5. PICK n \in DOMAIN f.listed : n \in f.listed[id].deps /\ input = Append(f.of, n)
    BY <2>3, <2>4
  <2>6. n \in Ids
    BY <1>3
  <2>7. \A part \in DOMAIN d : Extends(d[part].of, input) => part = n
    <3> SUFFICES ASSUME NEW part \in DOMAIN d, Extends(d[part].of, input) PROVE part = n
      OBVIOUS
    <3>1. part \in Ids /\ Extends(Append(f.of, part), Append(f.of, n))
      BY <1>3, <2>0, <2>5
    <3> QED
      BY <1>3, <2>6, <3>1, AppendedApart
  <2>8. ASSUME NEW part \in DOMAIN d, d[part].of = input
        PROVE  part \in d[id].deps /\ (Len(w.of) = 1 \/ d[part].at < d[id].at)
    <3>1. part = n
      <4>1. Extends(d[part].of, input)
        BY <1>3, <2>5, <2>6, <2>8, <2>0, Appended, ExtendsItself
      <4> QED
        BY <2>7, <4>1
    <3> DEFINE v == [id |-> f.path \o n, of |-> f.listed[n].of, at |-> f.listed[n].at,
                     inputs |-> {Append(f.of, m) : m \in f.listed[n].deps}]
    <3>2. v \in wanted' /\ v.of = input /\ v.at = f.listed[n].at
      BY <1>2, <1>3, <2>5 DEF AskedIn
    <3> HIDE DEF v
    <3>3. Len(w.of) = 1 \/ v.at < w.at
      BY <3>2 DEF Due, Orderly
    <3> QED
      BY <1>3, <2>3, <2>4, <2>5, <3>1, <2>0, <3>2, <3>3
  <2>9. ASSUME NEW part \in DOMAIN d, PartOf(d[part], input) PROVE FALSE
    <3>1. part = n
      BY <2>7, <2>9 DEF PartOf
    <3> QED
      BY <1>3, <2>5, <2>9, <2>0, <3>1 DEF PartOf
  <2> QED
    BY <2>8, <2>9 DEF Linked
<1> QED
  BY <1>1, <1>4, <1>5

LEMMA ConnectedPush ==
    ASSUME Shape, Connected, NEW f, Push(f)
    PROVE  Connected'
<1>1. phase' = "expand"
  BY DEF Push
<1> QED
  BY <1>1, RequestsPush, NotYetPush, WiredPush DEF Connected, JoinsKept, Folding

(* A task to which the answers give an id of its own is not overwritten by *)
(* a merge, and overwrites nothing, the task it replaces apart.            *)
LEMMA NotOverwritten ==
    ASSUME NEW f, NEW s, NEW g, NEW p, Returning(f, s, g, p), NEW of, Alone(of),
           NEW x \in DOMAIN s.dag,
           Extends(s.dag[x].of, of) \/ (p \o x \in DOMAIN f.dag /\ Extends(f.dag[p \o x].of, of))
    PROVE  p \o x \notin DOMAIN f.dag
<1> SUFFICES ASSUME p \o x \in DOMAIN f.dag PROVE FALSE
  OBVIOUS
<1>1. /\ Grounded(f, wanted) /\ Grounded(s, wanted) /\ s.path = f.path \o p
      /\ f \in Frames /\ s \in Frames
  BY DEF Returning
<1>2. PICK v \in wanted : v.id = f.path \o (p \o x) /\ v.of = f.dag[p \o x].of
  BY <1>1 DEF Grounded
<1>3. PICK u \in wanted : u.id = s.path \o x /\ u.of = s.dag[x].of
  BY <1>1 DEF Grounded
<1>4. p \in Ids /\ x \in Ids \ {<<>>} /\ f.path \in Ids /\ Extends(s.dag[x].of, s.of)
  <2>1. IsGraph(s.dag) /\ f.path \in Ids
    BY <1>1, FramesHaveGraphs
  <2> QED
    BY <2>1, ReturnedTasks DEF IsGraph
<1>5. (f.path \o p) \o x = f.path \o (p \o x)
  BY <1>4, JoinedTwice
<1>6. u.id = v.id
  BY <1>1, <1>2, <1>3, <1>5
<1>7. f.dag[p \o x].of = s.dag[x].of
  BY <1>2, <1>3, <1>6 DEF Alone
<1>8. p \o x # p
  BY <1>4, JoinedIsLonger
<1>9. ~Extends(f.dag[p \o x].of, s.of)
  <2>1. \A o \in DOMAIN f.dag \ {p} : ~Extends(f.dag[o].of, s.of)
    BY ReturnedTasks
  <2> QED
    BY <1>8, <2>1
<1> QED
  BY <1>4, <1>7, <1>9

(* If the task it replaces has an id of its own, that task is the one      *)
(* listed.                                                                 *)
LEMMA ReplacedIsListed ==
    ASSUME NEW f, NEW s, NEW g, NEW p, Returning(f, s, g, p), NEW of \in Lineages, Alone(of),
           Extends(f.dag[p].of, of) \/ Extends(s.of, of)
    PROVE  f.dag[p].of = s.of
<1>1. Grounded(f, wanted) /\ s.of = f.listed[p].of
  BY DEF Returning
<1>2. p \in DOMAIN f.dag /\ p \in DOMAIN f.listed
  BY ReturnedTasks
<1>3. PICK v \in wanted : v.id = f.path \o p /\ v.of = f.dag[p].of
  BY <1>1, <1>2 DEF Grounded
<1>4. PICK u \in wanted : u.id = f.path \o p /\ u.of = s.of
  <2> DEFINE u == [id |-> f.path \o p, of |-> f.listed[p].of, at |-> f.listed[p].at,
                   inputs |-> {Append(f.of, n) : n \in f.listed[p].deps}]
  <2>1. u \in wanted /\ u.id = f.path \o p /\ u.of = f.listed[p].of
    BY <1>1, <1>2 DEF Grounded, AskedIn
  <2> HIDE DEF u
  <2> QED
    BY <1>1, <2>1
<1> QED
  BY <1>3, <1>4 DEF Alone

(* A task of the returned graph gets its inputs: they were in that graph.  *)
LEMMA LinkedPart ==
    ASSUME Shape, Requests, NEW f, NEW s, NEW g, NEW p, Returning(f, s, g, p), Wired(s.dag),
           Grounded(g, wanted),
           NEW w \in wanted, NEW input \in w.inputs, Due(w, input),
           NEW x \in DOMAIN s.dag, s.dag[x].of = w.of
    PROVE  Linked(g.dag, p \o x, w, input)
<1>1. /\ f.of \in Lineages /\ s.of \in Lineages
      /\ Len(f.of) \in Nat /\ Len(s.of) = Len(f.of) + 1
      /\ \A y \in DOMAIN s.dag : /\ Extends(s.dag[y].of, s.of) /\ Len(s.of) < Len(s.dag[y].of)
                                 /\ s.dag[y].of \in Lineages
                                 /\ g.dag[p \o y].of = s.dag[y].of
      /\ \A o \in DOMAIN f.dag \ {p} : ~Extends(f.dag[o].of, s.of)
  BY ReturnedTasks
<1>2. w.of \in Lineages /\ input \in Lineages
  BY DEF Shape, Wants
<1>3. Siblings(w.of, input) /\ \E v \in wanted : v.of = input
  BY DEF Requests
<1>4. Len(w.of) \in Nat /\ Len(w.of) # 1 /\ Len(s.of) < Len(w.of) /\ Extends(w.of, s.of)
  <2>1. Len(w.of) \in Nat
    BY <1>2 DEF Lineages
  <2>2. Len(s.of) < Len(w.of) /\ Extends(w.of, s.of)
    BY <1>1
  <2>3. Len(f.of) \in Nat /\ Len(s.of) = Len(f.of) + 1
    BY <1>1
  <2>4. \A m, n, l \in Nat : m = n + 1 /\ m < l => l # 1
    OBVIOUS
  <2>5. Len(s.of) \in Nat
    BY <2>3
  <2> QED
    BY <2>1, <2>2, <2>3, <2>4, <2>5
<1>5. Extends(input, s.of)
  BY <1>1, <1>2, <1>3, <1>4, SiblingsExtend
<1>6. ~Expanded(input)
  BY <1>3, <1>4 DEF Due, Orderly
<1>7. Linked(s.dag, x, w, input)
  BY DEF Wired
<1>8. ASSUME NEW part \in DOMAIN g.dag, g.dag[part].of = input
      PROVE  part \in g.dag[p \o x].deps /\ g.dag[part].at < g.dag[p \o x].at
  <2>1. PICK y \in DOMAIN s.dag : part = p \o y
    <3>1. CASE part \in DOMAIN f.dag \ {p} /\ g.dag[part].of = f.dag[part].of
      BY <1>1, <1>5, <1>8, <3>1
    <3> QED
      BY <3>1, ReturnedIds
  <2>2. s.dag[y].of = input
    BY <1>1, <1>8, <2>1
  <2>3. y \in s.dag[x].deps /\ s.dag[y].at < s.dag[x].at
    BY <1>4, <1>7, <2>2 DEF Linked
  <2>4. p \o x \notin DOMAIN f.dag /\ p \o y \notin DOMAIN f.dag
    <3>1. Extends(s.dag[x].of, w.of) /\ Extends(s.dag[y].of, input)
      BY <1>2, <2>2, ExtendsItself
    <3> QED
      BY <3>1, NotOverwritten DEF Due
  <2>5. s.dag[x].at \in Nat /\ s.dag[y].at \in Nat
    <3>1. s \in Frames
      BY DEF Returning
    <3> QED
      BY <3>1, FramesHaveGraphs
  <2>6. PICK end \in Nat :
            /\ g.dag[p \o x].at = s.dag[x].at + end /\ g.dag[p \o y].at = s.dag[y].at + end
            /\ s.dag[y].at <= s.dag[x].at => p \o y \in g.dag[p \o x].deps
    <3>1. MergeOf(g.dag, f.dag, p, s.dag)
      BY DEF Returning
    <3> QED
      BY <2>3, <2>4, <3>1 DEF MergeOf
  <2> QED
    BY <2>1, <2>3, <2>5, <2>6
<1>9. ASSUME NEW part \in DOMAIN g.dag, PartOf(g.dag[part], input) PROVE FALSE
  <2>1. \E v \in wanted : v.of = g.dag[part].of
    BY DEF Grounded
  <2> QED
    BY <1>6, <1>9, <2>1 DEF PartOf, Expanded
<1> QED
  BY <1>8, <1>9 DEF Linked

(* A task that was there before waits for the parts of what it waited for. *)
LEMMA LinkedOther ==
    ASSUME Shape, Requests, NEW f, NEW s, NEW g, NEW p, Returning(f, s, g, p), Wired(f.dag),
           NEW w \in wanted, NEW input \in w.inputs, Due(w, input),
           NEW id \in DOMAIN f.dag \ {p}, id \notin Parts(p, s.dag), f.dag[id].of = w.of
    PROVE  Linked(g.dag, id, w, input)
<1>1. /\ f.of \in Lineages /\ s.of \in Lineages /\ p \in DOMAIN f.dag
      /\ Len(f.of) \in Nat /\ Len(s.of) = Len(f.of) + 1 /\ Len(s.of) \in Nat
      /\ \A y \in DOMAIN s.dag : /\ Extends(s.dag[y].of, s.of) /\ Len(s.of) < Len(s.dag[y].of)
                                 /\ s.dag[y].of \in Lineages
                                 /\ p \o y \in DOMAIN g.dag
                                 /\ g.dag[p \o y].of = s.dag[y].of
      /\ \A o \in DOMAIN f.dag : /\ f.dag[o].of \in Lineages
                                 /\ Len(s.of) <= Len(f.dag[o].of) /\ Len(f.dag[o].of) \in Nat
      /\ \A o \in DOMAIN f.dag \ {p} : ~Extends(f.dag[o].of, s.of)
  BY ReturnedTasks
<1>2. w.of \in Lineages /\ input \in Lineages
  BY DEF Shape, Wants
<1>3. Siblings(w.of, input)
  BY DEF Requests
<1>4. Len(input) = Len(w.of) /\ Len(w.of) \in Nat /\ Len(s.of) <= Len(input)
  BY <1>1, <1>3 DEF Siblings
<1>5. ~Extends(w.of, s.of)
  BY <1>1
<1>6. Linked(f.dag, id, w, input)
  BY DEF Wired
<1>7. /\ DOMAIN g.dag = (DOMAIN f.dag \ {p}) \cup Parts(p, s.dag)
      /\ \A o \in (DOMAIN f.dag \ {p}) \ Parts(p, s.dag) :
             /\ g.dag[o].of = f.dag[o].of /\ g.dag[o].at = f.dag[o].at
             /\ f.dag[o].deps \ {p} \subseteq g.dag[o].deps
             /\ p \in f.dag[o].deps =>
                    \A y \in DOMAIN s.dag :
                        \/ p \o y \in g.dag[o].deps
                        \/ \E z \in DOMAIN s.dag : p \o y \in g.dag[p \o z].deps
  BY DEF Returning, MergeOf
<1>8. ASSUME NEW part \in DOMAIN g.dag, g.dag[part].of = input
      PROVE  part \in g.dag[id].deps /\ (Len(w.of) = 1 \/ g.dag[part].at < g.dag[id].at)
  <2>1. CASE \E y \in DOMAIN s.dag : part = p \o y
    <3>1. PICK y \in DOMAIN s.dag : s.dag[y].of = input
      BY <1>1, <1>8, <2>1
    <3>2. Extends(input, s.of) /\ Len(s.of) < Len(w.of)
      BY <1>1, <1>4, <3>1
    <3> QED
      BY <1>1, <1>2, <1>3, <1>5, <3>2, SiblingsExtend
  <2>2. CASE /\ part \in DOMAIN f.dag \ {p} /\ part \notin Parts(p, s.dag)
             /\ g.dag[part].of = f.dag[part].of
    BY <1>6, <1>7, <1>8, <2>2 DEF Linked
  <2>3. \/ \E y \in DOMAIN s.dag : part = p \o y
        \/ /\ part \in DOMAIN f.dag \ {p} /\ part \notin Parts(p, s.dag)
           /\ g.dag[part].of = f.dag[part].of
    BY ReturnedIds
  <2> QED
    BY <2>1, <2>2, <2>3
<1>9. ASSUME Unbroken(input), NEW part \in DOMAIN g.dag, PartOf(g.dag[part], input)
      PROVE  \/ part \in g.dag[id].deps
             \/ \E other \in DOMAIN g.dag :
                    PartOf(g.dag[other], input) /\ part \in g.dag[other].deps
  <2>1. CASE \E y \in DOMAIN s.dag : part = p \o y
    <3>1. PICK y \in DOMAIN s.dag : part = p \o y
      BY <2>1
    <3>2. Extends(s.dag[y].of, input)
      BY <1>1, <1>9, <3>1 DEF PartOf
    <3>3. Extends(input, s.of)
      BY <1>1, <1>2, <1>4, <3>2, ExtendsEither
    <3>4. input = s.of
      <4>1. CASE Len(s.of) < Len(w.of)
        BY <1>1, <1>2, <1>3, <1>5, <3>3, <4>1, SiblingsExtend
      <4>2. CASE Len(input) <= Len(s.of)
        BY <1>1, <1>2, <3>3, <4>2, ExtendsSameLength
      <4> QED
        BY <1>1, <1>4, <4>1, <4>2
    <3>5. f.dag[p].of = input
      <4>1. Extends(s.of, input)
        BY <1>1, <3>4, ExtendsItself
      <4> QED
        BY <1>2, <3>4, <4>1, ReplacedIsListed DEF Due
    <3>6. p \in f.dag[id].deps
      BY <1>1, <1>6, <3>5 DEF Linked
    <3>7. \/ part \in g.dag[id].deps
          \/ \E z \in DOMAIN s.dag : part \in g.dag[p \o z].deps
      BY <1>7, <3>1, <3>6
    <3>8. \A z \in DOMAIN s.dag : PartOf(g.dag[p \o z], input) /\ p \o z \in DOMAIN g.dag
      BY <1>1, <3>4 DEF PartOf
    <3> QED
      BY <3>7, <3>8
  <2>2. CASE /\ part \in DOMAIN f.dag \ {p} /\ part \notin Parts(p, s.dag)
             /\ g.dag[part].of = f.dag[part].of
    <3>1. \/ part \in f.dag[id].deps
          \/ \E other \in DOMAIN f.dag : PartOf(f.dag[other], input) /\ part \in f.dag[other].deps
      BY <1>6, <1>9, <2>2 DEF Linked, PartOf
    <3>2. CASE part \in f.dag[id].deps
      BY <1>7, <2>2, <3>2
    <3>3. ASSUME NEW other \in DOMAIN f.dag, PartOf(f.dag[other], input),
                 part \in f.dag[other].deps
          PROVE  \E o \in DOMAIN g.dag : PartOf(g.dag[o], input) /\ part \in g.dag[o].deps
      <4>1. other # p
        <5> SUFFICES ASSUME other = p PROVE FALSE
          OBVIOUS
        <5>1. f.dag[p].of = s.of /\ Extends(s.of, input) /\ s.of # input
          BY <1>2, <3>3, ReplacedIsListed DEF PartOf, Due
        <5> QED
          BY <1>1, <1>2, <1>4, <5>1, ExtendsSameLength
      <4>2. other \notin Parts(p, s.dag)
        <5> SUFFICES ASSUME NEW x \in DOMAIN s.dag, other = p \o x PROVE FALSE
          BY DEF Parts
        <5> QED
          BY <3>3, NotOverwritten DEF PartOf, Due
      <4> QED
        BY <1>7, <2>2, <3>3, <4>1, <4>2 DEF PartOf
    <3> QED
      BY <3>1, <3>2, <3>3
  <2> QED
    BY <2>1, <2>2, ReturnedIds
<1> QED
  BY <1>8, <1>9 DEF Linked

LEMMA ConnectedReturn ==
    ASSUME Shape, Connected, NEW g, Return(g)
    PROVE  Connected'
<1> DEFINE k == Len(stack) - 1
<1>1. PICK f, s, p : f = stack[k] /\ s = stack[k + 1] /\ p = s.task
  OBVIOUS
<1>2. /\ k \in Nat \ {0} /\ k \in 1..Len(stack) /\ k + 1 \in 1..Len(stack)
      /\ Returning(f, s, g, p)
      /\ \A i \in 1..Len(stack') : i \in 1..Len(stack) /\ (i = k \/ i \in 1..(k - 1))
      /\ stack'[k] = g /\ Len(stack') = k /\ Len(stack) = k + 1
  BY <1>1, ReturnReturns DEF Shape
<1>3. /\ phase = "expand" /\ UNCHANGED <<phase, wanted, folded>>
      /\ \A i \in 1..(k - 1) : stack'[i] = stack[i]
      /\ g.task = f.task /\ g.listed = f.listed
  BY <1>1 DEF Return
<1>4. Shape' /\ Grounded(g, wanted)
  <2>1. Shape'
    BY ShapeReturn
  <2>2. k \in 1..Len(stack') /\ stack'[k] = g /\ wanted' = wanted
    BY <1>2, <1>3
  <2> QED
    BY <2>1, <2>2 DEF Shape
<1>5. Requests /\ Wired(f.dag) /\ Wired(s.dag) /\ NotYet(k)
  BY <1>1, <1>2 DEF Connected
<1>6. g.todo \subseteq f.todo \ {p}
  BY <1>2 DEF Returning
<1>7. Wired(g.dag)
  <2> SUFFICES ASSUME NEW w \in wanted, NEW input \in w.inputs, NEW id \in DOMAIN g.dag,
                      g.dag[id].of = w.of, Due(w, input)
               PROVE  Linked(g.dag, id, w, input)
    BY DEF Wired
  <2>1. CASE \E x \in DOMAIN s.dag : id = p \o x
    <3>1. PICK x \in DOMAIN s.dag : id = p \o x
      BY <2>1
    <3>2. s.dag[x].of = w.of
      BY <1>2, <3>1, ReturnedTasks
    <3> QED
      BY <1>2, <1>4, <1>5, <3>1, <3>2, LinkedPart
  <2>2. CASE /\ id \in DOMAIN f.dag \ {p} /\ id \notin Parts(p, s.dag)
             /\ g.dag[id].of = f.dag[id].of
    BY <1>2, <1>5, <2>2, LinkedOther
  <2>3. \/ \E x \in DOMAIN s.dag : id = p \o x
        \/ /\ id \in DOMAIN f.dag \ {p} /\ id \notin Parts(p, s.dag)
           /\ g.dag[id].of = f.dag[id].of
    <3>1. Returning(f, s, g, p)
      BY <1>2
    <3> QED
      BY <3>1, ReturnedIds
  <2> QED
    BY <2>1, <2>2, <2>3
<1>10. \A w, input : Due(w, input)' <=> Due(w, input)
  BY <1>3 DEF Due, Alone, Orderly, Expanded
<1>8. ASSUME NEW i \in 1..Len(stack') PROVE NotYet(i)' /\ Wired(stack[i].dag)'
  <2>1. CASE i = k
    <3>1. NotYet(i)'
      <4> SUFFICES ASSUME NEW q \in g.todo, NEW v \in wanted, Extends(v.of, f.listed[q].of)
                   PROVE  v.of = f.listed[q].of
        BY <1>2, <1>3, <2>1 DEF NotYet
      <4> QED
        BY <1>1, <1>5, <1>6 DEF NotYet
    <3>2. Wired(stack[i].dag)'
      <4>1. stack'[i].dag = g.dag
        BY <1>2, <2>1
      <4>2. \A w, input, id : Linked(g.dag, id, w, input) => Linked(g.dag, id, w, input)'
        BY <1>3 DEF Linked, Unbroken
      <4> QED
        BY <1>3, <1>7, <1>10, <4>1, <4>2 DEF Wired
    <3> QED
      BY <3>1, <3>2
  <2>2. CASE i \in 1..(k - 1)
    <3>1. i \in 1..Len(stack) /\ stack'[i] = stack[i] /\ NotYet(i) /\ Wired(stack[i].dag)
      BY <1>2, <1>3, <2>2 DEF Connected
    <3>2. i < Len(stack) /\ i < Len(stack') /\ stack'[i + 1].task = stack[i + 1].task
      <4>1. i + 1 = k \/ i + 1 \in 1..(k - 1)
        BY <1>2, <2>2
      <4>2. i < Len(stack) /\ i < Len(stack')
        BY <1>2, <2>2
      <4>3. stack'[k].task = stack[k].task
        BY <1>1, <1>2, <1>3
      <4> HIDE DEF k
      <4> QED
        BY <1>3, <4>1, <4>2, <4>3
    <3>3. NotYet(i)'
      BY <1>3, <3>1, <3>2 DEF NotYet
    <3>4. Wired(stack[i].dag)'
      BY <1>3, <3>1 DEF Wired, Due, Linked, Unbroken, Alone, Orderly, Expanded
    <3> QED
      BY <3>3, <3>4
  <2> QED
    BY <1>2, <2>1, <2>2
<1>9. Requests'
  BY <1>3, <1>5 DEF Requests
<1> QED
  BY <1>3, <1>8, <1>9 DEF Connected, JoinsKept, Folding

LEMMA ConnectedFold ==
    ASSUME Shape, Connected, NEW id, Fold(id)
    PROVE  Connected'
<1>1. PICK d, M, t : d = Plan /\ M = Plan' /\ t = FoldedTask(id)
  OBVIOUS
<1>2. /\ Len(stack) = 1 /\ Len(stack') = 1 /\ 1 \in 1..Len(stack)
      /\ d = stack[1].dag /\ M = stack'[1].dag /\ IsGraph(d)
      /\ id \in DOMAIN d /\ FoldOf(M, d, id) /\ stack'[1].todo = {}
  BY <1>1, FoldedPlan
<1>3. /\ phase = "fold" /\ UNCHANGED <<phase, wanted>> /\ folded' = folded \cup {t}
      /\ t.of = d[id].of /\ t.deps = d[id].deps
  BY <1>1 DEF Fold, FoldedTask
<1>4. Requests /\ Wired(d) /\ JoinsKept /\ phase \in Folding
  BY <1>2, <1>3 DEF Connected, Folding
<1>5. /\ DOMAIN M = DOMAIN d \ {id}
      /\ \A o \in DOMAIN M : /\ M[o].of = d[o].of /\ M[o].at = d[o].at
                             /\ M[o].deps = d[o].deps \ {id}
                             /\ d[o].joins \subseteq M[o].joins
                             /\ id \in d[o].deps => d[id].of \in M[o].joins
  BY <1>2 DEF FoldOf
<1>6. \A w, input : Due(w, input)' <=> Due(w, input)
  BY <1>3 DEF Due, Alone, Orderly, Expanded
<1>7. ASSUME NEW w \in wanted, NEW input \in w.inputs, NEW o \in DOMAIN M,
             M[o].of = w.of, Due(w, input)
      PROVE  Linked(M, o, w, input)'
  <2>1. Linked(d, o, w, input)
    BY <1>4, <1>5, <1>7 DEF Wired
  <2>2. ASSUME NEW part \in DOMAIN M, M[part].of = input
        PROVE  part \in M[o].deps /\ (Len(w.of) = 1 \/ M[part].at < M[o].at)
    BY <1>5, <2>1, <2>2 DEF Linked
  <2>3. ASSUME Unbroken(input)', NEW part \in DOMAIN M, PartOf(M[part], input)
        PROVE  \/ part \in M[o].deps
               \/ \E other \in DOMAIN M : PartOf(M[other], input) /\ part \in M[other].deps
    <3>1. Unbroken(input) /\ (Extends(t.of, input) => t.deps = {})
      BY <1>3, <2>3 DEF Unbroken
    <3>2. \/ part \in d[o].deps
          \/ \E other \in DOMAIN d : PartOf(d[other], input) /\ part \in d[other].deps
      BY <1>5, <2>1, <2>3, <3>1 DEF Linked, PartOf
    <3>3. CASE part \in d[o].deps
      BY <1>5, <3>3
    <3>4. ASSUME NEW other \in DOMAIN d, PartOf(d[other], input), part \in d[other].deps
          PROVE  \E o2 \in DOMAIN M : PartOf(M[o2], input) /\ part \in M[o2].deps
      <4>1. other # id
        BY <1>3, <3>1, <3>4 DEF PartOf
      <4> QED
        BY <1>5, <3>4, <4>1 DEF PartOf
    <3> QED
      BY <3>2, <3>3, <3>4
  <2> QED
    BY <2>2, <2>3 DEF Linked
<1>8. ASSUME NEW lookup \in folded', NEW w \in wanted, NEW o \in DOMAIN M,
             M[o].of = w.of, lookup.of \in w.inputs, Due(w, lookup.of)
      PROVE  lookup.of \in M[o].joins
  <2>1. CASE lookup = t
    <3>1. Linked(d, o, w, lookup.of)
      BY <1>4, <1>5, <1>8 DEF Wired
    <3>2. id \in d[o].deps
      BY <1>2, <1>3, <2>1, <3>1 DEF Linked
    <3> QED
      BY <1>3, <1>5, <2>1, <3>2
  <2>2. CASE lookup \in folded
    BY <1>1, <1>4, <1>5, <1>8, <2>2 DEF JoinsKept
  <2> QED
    BY <1>3, <2>1, <2>2
<1>9. JoinsKept'
  BY <1>1, <1>3, <1>6, <1>8 DEF JoinsKept
<1>10. ASSUME NEW k \in 1..Len(stack') PROVE NotYet(k)' /\ Wired(stack[k].dag)'
  <2>1. k = 1
    BY <1>2
  <2>2. NotYet(k)'
    BY <1>2, <2>1 DEF NotYet
  <2>3. Wired(stack[k].dag)'
    BY <1>2, <1>3, <1>6, <1>7, <2>1 DEF Wired
  <2> QED
    BY <2>2, <2>3
<1>11. Requests'
  BY <1>3, <1>4 DEF Requests
<1> QED
  BY <1>3, <1>9, <1>10, <1>11 DEF Connected

LEMMA StepConnected ==
    ASSUME Shape, Connected, [Next]_vars
    PROVE  Connected'
<1>1. ASSUME Quiet PROVE Connected'
  <2>1. UNCHANGED <<stack, wanted, folded>> /\ Plan' = Plan
    BY <1>1 DEF Quiet, Plan
  <2>2. phase' \in Folding => phase \in Folding \/ folded = {}
    BY <1>1 DEF Quiet, Shape, Folding
  <2>3. phase' = "delivered" => Valid(Plan)
    BY <1>1 DEF Quiet, Connected, Folding
  <2>4. \A w, input : Due(w, input)' <=> Due(w, input)
    BY <2>1 DEF Due, Alone, Orderly, Expanded
  <2>5. Requests' /\ \A k \in 1..Len(stack') : NotYet(k)'
    BY <2>1 DEF Connected, Requests, NotYet
  <2>6. \A k \in 1..Len(stack') : Wired(stack[k].dag)'
    BY <2>1, <2>4 DEF Connected, Wired, Linked, Unbroken
  <2>7. JoinsKept'
    BY <2>1, <2>2, <2>4 DEF Connected, JoinsKept
  <2> QED
    BY <2>1, <2>3, <2>5, <2>6, <2>7 DEF Connected
<1> QED
  BY <1>1, NextSteps, ConnectedPush, ConnectedReturn, ConnectedFold

(* What a task waits for, it waits for through the parts of its input: in  *)
(* an acyclic plan no part is only waited for by parts that it does not    *)
(* wait for.                                                               *)
LEMMA KeptInputs ==
    ASSUME Shape, Connected
    PROVE  InputsKept
<1> SUFFICES ASSUME phase = "delivered", NEW w \in wanted, NEW id \in DOMAIN Plan,
                    NEW input \in w.inputs, Plan[id].of = w.of,
                    Orderly(w), Alone(w.of), Alone(input)
             PROVE  /\ \A lookup \in folded : lookup.of = input => input \in Plan[id].joins
                    /\ Unbroken(input) =>
                           \A part \in DOMAIN Plan :
                               Extends(Plan[part].of, input) => WaitsFor(Plan, id, part)
  BY DEF InputsKept, Unbroken
<1>1. Len(stack) = 1 /\ 1 \in 1..Len(stack) /\ phase \in Folding /\ Plan = stack[1].dag
  BY DEF Shape, Folding, Plan
<1>2. IsGraph(Plan) /\ Valid(Plan) /\ Wired(Plan) /\ JoinsKept /\ Due(w, input)
  BY <1>1, StackHasFrames, FramesHaveGraphs DEF Connected, Due
<1>3. Linked(Plan, id, w, input)
  BY <1>2 DEF Wired
<1>4. \A lookup \in folded : lookup.of = input => input \in Plan[id].joins
  BY <1>1, <1>2 DEF JoinsKept
<1>5. ASSUME Unbroken(input), NEW part \in DOMAIN Plan, Extends(Plan[part].of, input)
      PROVE  WaitsFor(Plan, id, part)
  <2> SUFFICES ASSUME NEW S \in SUBSET DOMAIN Plan, Plan[id].deps \subseteq S,
                      \A z \in S : Plan[z].deps \subseteq S
               PROVE  part \in S
    BY DEF WaitsFor
  <2> DEFINE X == {x \in DOMAIN Plan : PartOf(Plan[x], input) /\ x \notin S}
  <2>1. \A x \in X : \E y \in X : x \in Plan[y].deps
    BY <1>3, <1>5 DEF Linked
  <2>2. X = {}
    <3> HIDE DEF X
    <3>1. X \in SUBSET DOMAIN Plan
      BY DEF X
    <3> QED
      BY <1>2, <2>1, <3>1, NoEndlessDescent
  <2>3. CASE Plan[part].of = input
    BY <1>3, <2>3 DEF Linked
  <2>4. CASE Plan[part].of # input
    BY <1>5, <2>2, <2>4 DEF PartOf
  <2> QED
    BY <2>3, <2>4
<1> QED
  BY <1>4, <1>5

(* InputsKept, for all answers: a task of the plan joins or waits for all  *)
(* that its inputs became, unless ids coincide, or an edge may have been   *)
(* missed by the renaming (planner.py:460-487), or a folded lookup waited  *)
(* for something itself (planner.py:409-423).                              *)
THEOREM InputsAreKept == Spec => []InputsKept
<1>1. Init => Shape /\ Connected
  BY InitShape, InitConnected
<1>2. Shape /\ Connected /\ [Next]_vars => Shape' /\ Connected'
  BY StepShape, StepConnected
<1>3. Shape /\ Connected => InputsKept
  BY KeptInputs
<1> QED
  BY <1>1, <1>2, <1>3, PTL DEF Spec
=============================================================================
