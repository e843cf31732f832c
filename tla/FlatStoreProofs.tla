-------------------------- MODULE FlatStoreProofs ---------------------------
(***************************************************************************)
(* Proofs about FlatStore, for local and s3 destinations, any packages and *)
(* any keep_last, whatever fails, is lost, or is damaged from outside, and *)
(* wherever a run dies or a check looks.                                   *)
(*                                                                         *)
(* A set is kept while its marker and its packages are as the run left     *)
(* them.  The argument is that a set is displaced, that is, KeepLast sets  *)
(* newer than it are kept, before retention takes anything of it away, and *)
(* stays displaced although retention goes on to delete some of those.     *)
(***************************************************************************)
EXTENDS FlatStore, FiniteSetTheorems, WellFoundedInduction, TLAPS

Displaced(r) == Cardinality(Newer(r, KeptSets)) >= KeepLast

\* A run stores its objects in their order, and records each package before it
\* goes on to the next; the marker is last.
Storing == pc \in {"put", "send", "head", "publish", "sync", "record"}

RunInv ==
    /\ pc # "idle" => started \in Run /\ started \notin successful
    /\ \A r \in successful : r <= started
    /\ \A r \in Run : r > started => recorded[r] = {}
    /\ Storing => recorded[started] = {ObjectSeq[i] : i \in 1 .. at - 1}
    /\ pc = "sync" => Intact(Target)
    /\ pc = "record" => Intact(Target) /\ ObjectSeq[at] # "marker"
    /\ kind = "local" => pc \notin {"send", "head"}

\* A set has its marker only after all its packages were recorded.
SetsInv ==
    /\ \A r \in Completed : r <= started /\ recorded[r] = Part
    /\ pc \in {"put", "record"} \/ (InFlight /\ ObjectSeq[at] # "marker")
          => started \notin Completed
    /\ \A k \in Key : objects[k] = "rotten" => k \in damaged

HistoryInv ==
    \A r \in Run : \A p \in recorded[r] : Intact(<<r, p>>) \/ Displaced(r)

LocalInv == kind = "local" => \A r \in Marked : \A p \in Part : Intact(<<r, p>>)

\* The set that is being deleted is displaced, and what is left of it is listed.
Deleting(d) ==
    /\ Displaced(d)
    /\ \A k \in left : k[1] = d
    /\ \A k \in Present : k[1] = d => k \in left
    /\ Cardinality(Marked \ (expired \cup {d})) <= KeepLast

RetainInv ==
    /\ \A r \in expired : Displaced(r)
    /\ pc = "expire" => Cardinality(Marked \ expired) <= KeepLast
    /\ pc = "delete" => \E d \in Run : Deleting(d)
    /\ FewSetsRemain

\* A check looks at a run that is over; what it was right about stays so.
CheckInv ==
    /\ check.run # 0 => check.run \in successful
    /\ check.phase = "verify" =>
          check.run # 0 /\ check.todo \subseteq {check.run} \X recorded[check.run]
    /\ check.phase # "verify" => check.todo = {}
    /\ \A k \in check.sick : k[1] = check.run /\ check.run # 0
    /\ \A k \in check.sick :
          check.bad \/ (k \in check.todo /\ ~Passes(k, check.deep))
    /\ ~Prefixed /\ check.bad /\ ~check.unsure /\ check.run # 0 =>
          (\E k \in damaged : k[1] = check.run) \/ Displaced(check.run)

Inv ==
    /\ TypeOK
    /\ RunInv
    /\ SetsInv
    /\ HistoryInv
    /\ LocalInv
    /\ RetainInv
    /\ CheckInv

\* What a step may do to the kept sets: add the newest one, or drop one that is
\* displaced.
KeptStep ==
    \/ KeptSets' = KeptSets
    \/ /\ \A r \in KeptSets : r < started
       /\ started \in Run /\ KeptSets' = KeptSets \cup {started}
    \/ \E d \in Run : Displaced(d) /\ KeptSets' = KeptSets \ {d}
KeptSteps == [][KeptStep]_vars
-----------------------------------------------------------------------------
(* Sets of runs.                                                           *)

LEMMA RunsAreFinite ==
    /\ Run \subseteq Nat /\ IsFiniteSet(Run)
    /\ \A S \in SUBSET Run : IsFiniteSet(S) /\ Cardinality(S) \in Nat
<1>1. MaxRun \in Int /\ 1 \in Int
    BY FlatAssumption
<1>2. IsFiniteSet(Run)
    BY <1>1, FS_Interval DEF Run
<1>3. ASSUME NEW S \in SUBSET Run
      PROVE  IsFiniteSet(S) /\ Cardinality(S) \in Nat
    BY <1>2, FS_Subset, FS_CardinalityType
<1> QED
    BY <1>2, <1>3 DEF Run

LEMMA OldestRun ==
    ASSUME NEW S \in SUBSET Nat, IsFiniteSet(S), S # {}
    PROVE  \E x \in S : \A y \in S : x <= y
<1> DEFINE Below(x) == {y \in S : y <= x}
           T == {Below(x) : x \in S}
<1>1. T \subseteq FiniteSubsetsOf(S)
    <2> SUFFICES ASSUME NEW x \in S PROVE Below(x) \in FiniteSubsetsOf(S)
        OBVIOUS
    <2>1. Below(x) \in SUBSET S /\ IsFiniteSet(Below(x))
        BY FS_Subset
    <2> QED
        BY <2>1 DEF FiniteSubsetsOf
<1>2. T # {}
    OBVIOUS
<1>3. PICK A \in T : \A B \in T : <<B, A>> \notin StrictSubsetOrdering(S)
    <2> HIDE DEF T
    <2>1. IsWellFoundedOn(StrictSubsetOrdering(S), FiniteSubsetsOf(S))
        BY FS_StrictSubsetOrderingWellFounded
    <2> QED
        BY <1>1, <1>2, <2>1, WFMin
<1>4. PICK x \in S : A = Below(x)
    OBVIOUS
<1>5. ASSUME NEW y \in S, ~(x <= y)
      PROVE  FALSE
    <2>1. x \in Nat /\ y \in Nat /\ y < x /\ \A z \in S : z \in Nat
        BY <1>5
    <2>2. x \in Below(x) /\ x \notin Below(y)
        BY <2>1
    <2>3. ASSUME NEW z \in Below(y) PROVE z \in Below(x)
        BY <2>1
    <2>4. Below(y) \in T /\ Below(y) \in SUBSET S /\ A \in SUBSET S
        BY <1>4
    <2>5. Below(y) \subseteq A /\ Below(y) # A
        BY <1>4, <2>2, <2>3
    <2>6. <<Below(y), A>> \in StrictSubsetOrdering(S)
        BY <2>4, <2>5 DEF StrictSubsetOrdering
    <2> QED
        BY <1>3, <2>4, <2>6
<1> QED
    BY <1>5

LEMMA NewestRun ==
    ASSUME NEW S \in SUBSET Run, S # {}
    PROVE  \E s \in S : Newer(s, S) = {}
<1> DEFINE T == {MaxRun - s : s \in S}
<1>1. /\ MaxRun \in Nat
      /\ \A s \in S : s \in Nat /\ MaxRun - s \in 0 .. MaxRun /\ MaxRun - (MaxRun - s) = s
    BY FlatAssumption DEF Run
<1>2. T \in SUBSET (0 .. MaxRun) /\ T # {}
    BY <1>1
<1>3. T \in SUBSET Nat /\ IsFiniteSet(T)
    <2>1. IsFiniteSet(0 .. MaxRun)
        BY <1>1, FS_Interval
    <2> HIDE DEF T
    <2>2. T \subseteq Nat
        BY <1>2
    <2> QED
        BY <1>2, <2>1, <2>2, FS_Subset
<1>4. PICK x \in T : \A y \in T : x <= y
    BY <1>2, <1>3, OldestRun
<1>5. PICK s \in S : x = MaxRun - s
    OBVIOUS
<1>6. \A r \in S : MaxRun - s <= MaxRun - r
    BY <1>4, <1>5
<1>7. \A r \in S : ~(r > s)
    BY <1>1, <1>6
<1> QED
    BY <1>7 DEF Newer

LEMMA NewerGrows ==
    ASSUME NEW S \in SUBSET Run, NEW T \in SUBSET Run, S \subseteq T, NEW r \in Run
    PROVE  /\ Newer(r, S) \in SUBSET Run /\ Newer(r, S) \subseteq Newer(r, T)
           /\ Cardinality(Newer(r, S)) \in Nat /\ Cardinality(Newer(r, T)) \in Nat
           /\ Cardinality(Newer(r, S)) <= Cardinality(Newer(r, T))
<1>1. Newer(r, S) \in SUBSET Newer(r, T) /\ Newer(r, T) \in SUBSET Run
    BY DEF Newer
<1>2. Newer(r, S) \in SUBSET Run
    BY <1>1
<1> QED
    BY <1>1, <1>2, RunsAreFinite, FS_Subset

\* Where an older run goes, newer ones go as well.
LEMMA OlderHasMore ==
    ASSUME NEW S \in SUBSET Run, NEW r \in Run, NEW s \in Run, r <= s
    PROVE  Cardinality(Newer(s, S)) <= Cardinality(Newer(r, S))
<1>1. Newer(s, S) \in SUBSET Newer(r, S)
    <2>1. r \in Nat /\ s \in Nat /\ \A x \in S : x \in Nat
        BY RunsAreFinite
    <2>2. \A x \in S : x > s => x > r
        BY <2>1
    <2> QED
        BY <2>2 DEF Newer
<1>2. IsFiniteSet(Newer(r, S))
    BY RunsAreFinite DEF Newer
<1> QED
    BY <1>1, <1>2, FS_Subset

\* Dropping one that has KeepLast newer ones leaves KeepLast newer ones to
\* whichever had them.
LEMMA DropLeavesEnough ==
    ASSUME NEW S \in SUBSET Run, NEW d \in Run, NEW r \in Run,
           Cardinality(Newer(d, S)) >= KeepLast, Cardinality(Newer(r, S)) >= KeepLast
    PROVE  Cardinality(Newer(r, S \ {d})) >= KeepLast
<1>1. r \in Nat /\ d \in Nat /\ \A s \in S : s \in Nat
    BY RunsAreFinite
<1>2. CASE r >= d
    <2>1. Newer(r, S \ {d}) = Newer(r, S)
        BY <1>1, <1>2 DEF Newer
    <2> QED
        BY <2>1
<1>3. CASE r < d
    <2>1. Newer(d, S) \in SUBSET Newer(r, S \ {d})
        <3>1. \A x \in S : x > d => x > r /\ x # d
            BY <1>1, <1>3
        <3> QED
            BY <3>1 DEF Newer
    <2>2. Newer(r, S \ {d}) \in SUBSET Run /\ Newer(d, S) \in SUBSET Run
        BY DEF Newer
    <2>3. Cardinality(Newer(d, S)) <= Cardinality(Newer(r, S \ {d}))
        BY <2>1, <2>2, RunsAreFinite, FS_Subset
    <2>4. KeepLast \in Nat
        BY FlatAssumption
    <2> QED
        BY <2>2, <2>3, <2>4, RunsAreFinite
<1> QED
    BY <1>1, <1>2, <1>3

\* A set of runs has at most KeepLast members with fewer than KeepLast newer ones.
LEMMA NewestAreFew ==
    ASSUME NEW S \in SUBSET Run
    PROVE  Cardinality({r \in S : ~(Cardinality(Newer(r, S)) >= KeepLast)}) <= KeepLast
<1> DEFINE T == {r \in S : ~(Cardinality(Newer(r, S)) >= KeepLast)}
<1>1. T \in SUBSET Run /\ IsFiniteSet(T) /\ KeepLast \in Nat
    BY RunsAreFinite, FlatAssumption
<1>2. CASE T = {}
    BY <1>1, <1>2, FS_EmptySet
<1>3. CASE T # {}
    <2>1. PICK m \in T : \A r \in T : m <= r
        BY <1>1, <1>3, RunsAreFinite, OldestRun
    <2>2. m \in Nat /\ \A r \in T : r \in Nat
        BY <1>1, RunsAreFinite
    <2>3. T \ {m} \in SUBSET Newer(m, S) /\ Newer(m, S) \in SUBSET Run
        <3>1. \A r \in T \ {m} : r > m /\ r \in S
            BY <2>1, <2>2
        <3> QED
            BY <3>1 DEF Newer
    <2>4. Cardinality(T \ {m}) <= Cardinality(Newer(m, S))
        BY <2>3, RunsAreFinite, FS_Subset
    <2>5. Cardinality(T \ {m}) = Cardinality(T) - 1
        BY <1>1, <2>1, FS_RemoveElement
    <2>6. Cardinality(T) \in Nat /\ Cardinality(Newer(m, S)) \in Nat
        BY <1>1, <2>3, RunsAreFinite
    <2>7. Cardinality(Newer(m, S)) < KeepLast
        BY <1>1, <2>1, <2>6
    <2> HIDE DEF T
    <2>8. Cardinality(T) <= KeepLast
        BY <1>1, <2>4, <2>5, <2>6, <2>7
    <2> QED
        BY <2>8 DEF T
<1> QED
    BY <1>2, <1>3

-----------------------------------------------------------------------------
(* Objects, keys and kept sets.                                            *)

\* The objects of a run are its packages, each once, and then the marker.
LEMMA ObjectsAre ==
    /\ DOMAIN ObjectSeq = 1 .. Len(PackageSeq) + 1 /\ Len(PackageSeq) \in Nat
    /\ \A i \in 1 .. Len(PackageSeq) : ObjectSeq[i] \in Part
    /\ ObjectSeq[Len(PackageSeq) + 1] = "marker"
    /\ \A i \in DOMAIN ObjectSeq : \A j \in DOMAIN ObjectSeq :
          ObjectSeq[i] = ObjectSeq[j] => i = j
    /\ {ObjectSeq[i] : i \in 1 .. Len(PackageSeq)} = Part
<1>1. PackageSeq \in Seq(Part) /\ "marker" \notin Part
    BY FlatAssumption
<1>2. /\ Len(PackageSeq) \in Nat /\ DOMAIN PackageSeq = 1 .. Len(PackageSeq)
      /\ \A i \in 1 .. Len(PackageSeq) : PackageSeq[i] \in Part
    BY <1>1
<1>3. /\ DOMAIN ObjectSeq = 1 .. Len(PackageSeq) + 1
      /\ \A i \in 1 .. Len(PackageSeq) : ObjectSeq[i] = PackageSeq[i]
      /\ ObjectSeq[Len(PackageSeq) + 1] = "marker"
    BY <1>1, <1>2 DEF ObjectSeq
<1>4. \A i \in DOMAIN PackageSeq : \A j \in DOMAIN PackageSeq :
          PackageSeq[i] = PackageSeq[j] => i = j
    BY FlatAssumption
<1>5. {ObjectSeq[i] : i \in 1 .. Len(PackageSeq)} = Part
    BY <1>2, <1>3 DEF Part
<1>6. ASSUME NEW i \in DOMAIN ObjectSeq, NEW j \in DOMAIN ObjectSeq,
             ObjectSeq[i] = ObjectSeq[j]
      PROVE  i = j
    BY <1>1, <1>2, <1>3, <1>4, <1>6
<1> QED
    BY <1>1, <1>2, <1>3, <1>5, <1>6

LEMMA LastIsMarker ==
    ASSUME at \in DOMAIN ObjectSeq
    PROVE  /\ at \in Nat /\ at >= 1
           /\ ObjectSeq[at] = "marker" <=> at = Len(PackageSeq) + 1
           /\ ObjectSeq[at] # "marker" =>
                 ObjectSeq[at] \in Part /\ at + 1 \in DOMAIN ObjectSeq
           /\ ObjectSeq[at] \in Part \cup {"marker"}
           /\ ObjectSeq[at] \notin {ObjectSeq[i] : i \in 1 .. at - 1}
           /\ ObjectSeq[at] = "marker" => {ObjectSeq[i] : i \in 1 .. at - 1} = Part
<1>1. at \in 1 .. Len(PackageSeq) + 1 /\ Len(PackageSeq) \in Nat /\ "marker" \notin Part
    BY ObjectsAre, FlatAssumption
<1>2. at # Len(PackageSeq) + 1 => at \in 1 .. Len(PackageSeq)
    BY <1>1
<1>3. ObjectSeq[at] = "marker" <=> at = Len(PackageSeq) + 1
    BY <1>1, <1>2, ObjectsAre
<1>4. ObjectSeq[at] \notin {ObjectSeq[i] : i \in 1 .. at - 1}
    BY <1>1, ObjectsAre
<1>5. at = Len(PackageSeq) + 1 => at - 1 = Len(PackageSeq)
    BY <1>1
<1> QED
    BY <1>1, <1>2, <1>3, <1>4, <1>5, ObjectsAre

LEMMA KeyIs ==
    /\ \A k \in Key : k[1] \in Run /\ k[2] \in Part \cup {"marker"} /\ k = <<k[1], k[2]>>
    /\ \A r \in Run : <<r, "marker">> \in Key /\ \A p \in Part : <<r, p>> \in Key
BY DEF Key

LEMMA KeptAre ==
    /\ KeptSets \in SUBSET Run /\ Completed \in SUBSET Run /\ Marked \in SUBSET Completed
    /\ KeptSets \subseteq Completed
BY DEF KeptSets, Completed, Complete, Marked

\* The run whose marker is under way; its set is not complete yet.
Flying == IF InFlight /\ ObjectSeq[at] = "marker" THEN {started} ELSE {}

LEMMA KeptIs ==
    ASSUME NEW r \in Run
    PROVE  r \in KeptSets <=>
               /\ Complete(r) /\ r \notin Flying /\ \A p \in Part : Intact(<<r, p>>)
BY DEF KeptSets, Completed, Flying, Target

LEMMA KeptIsPrimed ==
    ASSUME NEW r \in Run
    PROVE  r \in KeptSets' <=>
               /\ Complete(r)' /\ r \notin Flying'
               /\ \A p \in Part : Intact(<<r, p>>)'
BY DEF KeptSets, Completed, Flying, Target

LEMMA StaysDisplaced ==
    ASSUME KeptStep, NEW r \in Run, Displaced(r)
    PROVE  Displaced(r)'
<1>1. KeptSets \in SUBSET Run /\ KeptSets' \in SUBSET Run /\ KeepLast \in Nat
    BY FlatAssumption DEF KeptSets, Completed
<1>2. Cardinality(Newer(r, KeptSets)) >= KeepLast
    BY DEF Displaced
<1>3. CASE KeptSets \subseteq KeptSets'
    <2>1. Cardinality(Newer(r, KeptSets)) <= Cardinality(Newer(r, KeptSets'))
          /\ Cardinality(Newer(r, KeptSets)) \in Nat
          /\ Cardinality(Newer(r, KeptSets')) \in Nat
        BY <1>1, <1>3, NewerGrows
    <2>2. Cardinality(Newer(r, KeptSets')) >= KeepLast
        BY <1>1, <1>2, <2>1
    <2> QED
        BY <2>2 DEF Displaced
<1>4. ASSUME NEW d \in Run, Displaced(d), KeptSets' = KeptSets \ {d}
      PROVE  Displaced(r)'
    <2>1. Cardinality(Newer(d, KeptSets)) >= KeepLast
        BY <1>4 DEF Displaced
    <2>2. Cardinality(Newer(r, KeptSets \ {d})) >= KeepLast
        BY <1>1, <1>2, <2>1, DropLeavesEnough
    <2>3. Cardinality(Newer(r, KeptSets')) >= KeepLast
        BY <1>4, <2>2
    <2> QED
        BY <2>3 DEF Displaced
<1> QED
    BY <1>3, <1>4 DEF KeptStep

\* No set is newer than that of the last run.
LEMMA LastIsNotDisplaced ==
    ASSUME SetsInv, started \in Run
    PROVE  ~Displaced(started)
<1>1. \A r \in KeptSets : ~(r > started)
    <2>1. \A r \in KeptSets : r \in Nat /\ started \in Nat /\ r <= started
        BY KeptAre, RunsAreFinite DEF SetsInv
    <2> QED
        BY <2>1
<1>2. Newer(started, KeptSets) = {}
    BY <1>1 DEF Newer
<1>3. KeepLast \in Nat /\ KeepLast # 0 /\ Cardinality({}) = 0
    BY FlatAssumption, FS_EmptySet
<1>4. ~(Cardinality(Newer(started, KeptSets)) >= KeepLast)
    BY <1>2, <1>3
<1> QED
    BY <1>4 DEF Displaced

\* A set that is complete and not displaced has all its packages, so what is
\* displaced by complete sets is displaced by kept ones.
LEMMA DisplacedByComplete ==
    ASSUME SetsInv, HistoryInv, Flying = {}, NEW r \in Run,
           Cardinality(Newer(r, Marked)) >= KeepLast
    PROVE  Displaced(r)
<1>1. KeptSets \in SUBSET Run /\ Marked \in SUBSET Run /\ KeepLast \in Nat
    BY KeptAre, FlatAssumption
<1>2. CASE Newer(r, Marked) \subseteq KeptSets
    <2>1. Newer(r, Marked) \in SUBSET Newer(r, KeptSets)
        BY <1>2 DEF Newer
    <2>2. IsFiniteSet(Newer(r, KeptSets))
          /\ Cardinality(Newer(r, KeptSets)) \in Nat
          /\ Cardinality(Newer(r, Marked)) \in Nat
        BY <1>1, RunsAreFinite DEF Newer
    <2>3. Cardinality(Newer(r, Marked)) <= Cardinality(Newer(r, KeptSets))
        BY <2>1, <2>2, FS_Subset
    <2>4. Cardinality(Newer(r, KeptSets)) >= KeepLast
        BY <1>1, <2>2, <2>3
    <2> QED
        BY <2>4 DEF Displaced
<1>3. ASSUME NEW s \in Newer(r, Marked), s \notin KeptSets
      PROVE  Displaced(r)
    <2>1. s \in Run /\ s \in Marked /\ s > r /\ s \in Nat /\ r \in Nat
        BY <1>1, <1>3, RunsAreFinite DEF Newer
    <2>2. Complete(s) /\ recorded[s] = Part
        BY <2>1, KeptAre DEF SetsInv, Completed
    <2>3. PICK p \in Part : ~Intact(<<s, p>>)
        BY <1>3, <2>1, <2>2, KeptIs
    <2>4. Displaced(s)
        BY <2>1, <2>2, <2>3 DEF HistoryInv
    <2>5. Cardinality(Newer(s, KeptSets)) <= Cardinality(Newer(r, KeptSets))
        BY <1>1, <2>1, OlderHasMore
    <2>6. /\ Cardinality(Newer(s, KeptSets)) \in Nat
          /\ Cardinality(Newer(r, KeptSets)) \in Nat
        BY <1>1, RunsAreFinite DEF Newer
    <2>7. Cardinality(Newer(r, KeptSets)) >= KeepLast
        BY <1>1, <2>4, <2>5, <2>6 DEF Displaced
    <2> QED
        BY <2>7 DEF Displaced
<1> QED
    BY <1>2, <1>3

-----------------------------------------------------------------------------
(* Steps that leave the destination as it is.                              *)

SameStore == objects' = objects /\ damaged' = damaged

LEMMA SameStoreIs ==
    ASSUME SameStore
    PROVE  /\ Completed' = Completed /\ Marked' = Marked /\ Present' = Present
           /\ \A k : Intact(k)' <=> Intact(k)
           /\ \A r : Complete(r)' <=> Complete(r)
BY DEF SameStore, Completed, Complete, Marked, Present, Intact

LEMMA SameStoreKeeps ==
    ASSUME RunInv, SetsInv, SameStore,
           \/ Flying' = Flying
           \/ started' = started /\ (Flying' = {} \/ started \notin Completed)
    PROVE  KeptStep
<1>1. ASSUME NEW r \in Run, r \notin Completed \/ (r \in Flying' <=> r \in Flying)
      PROVE  r \in KeptSets' <=> r \in KeptSets
    <2>1. Complete(r) <=> r \in Completed
        BY DEF Completed
    <2> QED
        BY <1>1, <2>1, SameStoreIs, KeptIs, KeptIsPrimed
<1>2. KeptSets \subseteq Run /\ KeptSets' \subseteq Run
    BY DEF KeptSets, Completed
<1>3. Flying \subseteq {started} /\ Flying' \subseteq {started'}
    BY DEF Flying
<1>4. CASE Flying' = Flying \/ (started' = started /\ started \notin Completed)
    <2>1. \A r \in Run : r \in KeptSets' <=> r \in KeptSets
        BY <1>1, <1>3, <1>4
    <2> QED
        BY <1>2, <2>1 DEF KeptStep
<1>5. CASE Flying = {started} /\ Flying' = {} /\ started' = started
    <2>1. started \in Run
        BY <1>5 DEF Flying, InFlight, RunInv
    <2>2. started \notin KeptSets
        BY <1>5, <2>1, KeptIs
    <2>3. \A r \in KeptSets : r < started
        <3>1. \A r \in KeptSets : r \in Nat /\ r <= started /\ started \in Nat
            BY <2>1, KeptAre, RunsAreFinite DEF SetsInv
        <3> QED
            BY <2>2, <3>1
    <2>4. \A r \in Run : r # started => (r \in KeptSets' <=> r \in KeptSets)
        BY <1>1, <1>5
    <2>5. KeptSets' = KeptSets \/ KeptSets' = KeptSets \cup {started}
        BY <1>2, <2>1, <2>2, <2>4
    <2> QED
        BY <2>1, <2>3, <2>5 DEF KeptStep
<1> QED
    BY <1>3, <1>4, <1>5

LEMMA SameStoreHistory ==
    ASSUME TypeOK, SetsInv, HistoryInv, LocalInv, SameStore, KeptStep,
           recorded' = recorded, kind' = kind
    PROVE  /\ HistoryInv' /\ LocalInv'
           /\ \A k \in Key : objects'[k] = "rotten" => k \in damaged'
<1>1. HistoryInv'
    <2> SUFFICES ASSUME NEW r \in Run, NEW p \in recorded[r]
                 PROVE  Intact(<<r, p>>)' \/ Displaced(r)'
        BY DEF HistoryInv
    <2>1. Intact(<<r, p>>) \/ Displaced(r)
        BY DEF HistoryInv
    <2> QED
        BY <2>1, SameStoreIs, StaysDisplaced
<1>2. LocalInv'
    <2>1. \A r \in Marked : \A p \in Part : Intact(<<r, p>>) <=> Intact(<<r, p>>)'
        BY SameStoreIs
    <2>2. Marked' = Marked
        BY SameStoreIs
    <2> QED
        BY <2>1, <2>2 DEF LocalInv
<1>3. \A k \in Key : objects'[k] = "rotten" => k \in damaged'
    BY DEF SetsInv, SameStore
<1> QED
    BY <1>1, <1>2, <1>3

\* What a check was right about stays so while the objects of runs that are over
\* only get worse, and nothing is forgotten of them unless they are displaced.
LEMMA CheckStays ==
    ASSUME TypeOK, CheckInv, KeptStep, check' = check, successful \subseteq successful',
           \A r \in successful : recorded[r] \subseteq recorded'[r],
           \A k \in Key : k[1] \in successful =>
              \/ objects'[k] = objects[k]
              \/ objects[k] = "whole" \/ objects'[k] = "absent",
           \A k \in damaged : k[1] \in successful => k \in damaged' \/ Displaced(k[1])
    PROVE  CheckInv'
<1>1. check.run # 0 => check'.run \in successful'
    BY DEF CheckInv
<1>2. check.phase = "verify" =>
          check.run # 0 /\ check.todo \subseteq {check.run} \X recorded'[check.run]
    BY DEF CheckInv
<1>3. ASSUME NEW k \in check.sick
      PROVE  check.bad \/ (k \in check.todo /\ ~Passes(k, check.deep)')
    <2>1. k \in Key /\ k[1] \in successful
        BY DEF CheckInv, TypeOK
    <2>2. check.bad \/ (k \in check.todo /\ ~Passes(k, check.deep))
        BY DEF CheckInv
    <2> QED
        BY <2>1, <2>2 DEF Passes, LooksWhole
<1>4. ~Prefixed /\ check.bad /\ ~check.unsure /\ check.run # 0 =>
          (\E k \in damaged' : k[1] = check.run) \/ Displaced(check.run)'
    <2> SUFFICES ASSUME ~Prefixed /\ check.bad /\ ~check.unsure /\ check.run # 0
                 PROVE  (\E k \in damaged' : k[1] = check.run) \/ Displaced(check.run)'
        OBVIOUS
    <2>1. check.run \in successful /\ successful \subseteq Run
        BY DEF CheckInv, TypeOK
    <2>2. (\E k \in damaged : k[1] = check.run) \/ Displaced(check.run)
        BY DEF CheckInv
    <2>3. (\E k \in damaged' : k[1] = check.run) \/ Displaced(check.run)
        BY <2>1, <2>2
    <2>4. PICK r \in Run : r = check.run
        BY <2>1
    <2>5. Displaced(r) => Displaced(r)'
        BY StaysDisplaced
    <2> QED
        BY <2>3, <2>4, <2>5
<1> QED
    BY <1>1, <1>2, <1>3, <1>4 DEF CheckInv

\* A run starts with a new number: nothing is stored or recorded under it.
LEMMA BeginKeeps ==
    ASSUME Inv, Begin
    PROVE  Inv' /\ KeptStep
<1>1. /\ pc = "idle" /\ started < MaxRun /\ started' = started + 1 /\ pc' = "put"
      /\ at' = 1 /\ tries' = 0 /\ warned' = FALSE /\ kind' = kind /\ SameStore
      /\ successful' = successful /\ recorded' = recorded
      /\ expired' = expired /\ left' = left /\ check' = check
    BY DEF Begin, store, history, SameStore
<1>2. started \in Nat /\ started' \in Run /\ started' \in 0 .. MaxRun
    BY <1>1, FlatAssumption DEF Inv, TypeOK, Run
<1>3. KeptStep
    <2>1. Flying' = {} /\ Flying = {}
        BY <1>1 DEF Flying, InFlight
    <2> QED
        BY <1>1, <2>1, SameStoreKeeps DEF Inv
<1>4. TypeOK'
    <2>1. 0 \in 0 .. MaxAttempts - 1 /\ 1 \in DOMAIN ObjectSeq
        BY ObjectsAre, FlatAssumption
    <2> QED
        BY <1>1, <1>2, <2>1 DEF Inv, TypeOK, SameStore, ObjectSeq
<1>5. successful \subseteq Nat /\ Completed \subseteq Nat
    BY RunsAreFinite, KeptAre DEF Inv, TypeOK
<1>6. RunInv'
    <2>1. \A r \in successful : r <= started' /\ r # started'
        <3>1. \A r \in successful : r \in Nat /\ r <= started
            BY <1>5 DEF Inv, RunInv
        <3> QED
            BY <1>1, <1>2, <3>1
    <2>2. \A r \in Run : r > started' => recorded[r] = {}
        <3>1. \A r \in Run : r > started' => r > started
            BY <1>1, <1>2, RunsAreFinite
        <3> QED
            BY <3>1 DEF Inv, RunInv
    <2>3. recorded'[started'] = {ObjectSeq[i] : i \in 1 .. at' - 1}
        <3>1. started' > started
            BY <1>1, <1>2
        <3>2. recorded[started'] = {}
            BY <1>2, <3>1 DEF Inv, RunInv
        <3>3. 1 .. 1 - 1 = {}
            OBVIOUS
        <3> QED
            BY <1>1, <3>2, <3>3
    <2> QED
        BY <1>1, <1>2, <2>1, <2>2, <2>3 DEF RunInv, ObjectSeq
<1>7. SetsInv'
    <2>1. \A r \in Completed : r <= started' /\ r # started' /\ recorded[r] = Part
        BY <1>1, <1>2, <1>5 DEF Inv, SetsInv
    <2> QED
        BY <1>1, <2>1, SameStoreIs DEF SetsInv, Inv, SameStore
<1>8. HistoryInv' /\ LocalInv'
    BY <1>1, <1>3, SameStoreHistory DEF Inv
<1>9. RetainInv'
    BY <1>1, <1>3, StaysDisplaced DEF Inv, TypeOK, RetainInv, FewSetsRemain
<1>10. CheckInv'
    BY <1>1, <1>3, CheckStays DEF Inv, SameStore
<1> QED
    BY <1>3, <1>4, <1>6, <1>7, <1>8, <1>9, <1>10 DEF Inv

\* A run that is over, with or without success, leaves complete what has a marker.
LEMMA EndKeeps ==
    ASSUME Inv, pc # "idle", Ends, SameStore,
           successful' = successful \/ successful' = successful \cup {started}
    PROVE  Inv' /\ KeptStep
<1>1. /\ pc' = "idle" /\ at' = 1 /\ tries' = 0 /\ kind' = kind
      /\ expired' = {} /\ left' = {} /\ warned' = FALSE
      /\ started' = started /\ recorded' = recorded /\ check' = check
    BY DEF Ends
<1>2. started \in Run
    BY DEF Inv, RunInv
<1>3. KeptStep
    <2>1. Flying' = {}
        BY <1>1 DEF Flying, InFlight
    <2> QED
        BY <1>1, <2>1, SameStoreKeeps DEF Inv
<1>4. TypeOK'
    <2>1. 0 \in 0 .. MaxAttempts - 1 /\ 1 \in DOMAIN ObjectSeq
        BY ObjectsAre, FlatAssumption
    <2> QED
        BY <1>1, <1>2, <2>1 DEF Inv, TypeOK, SameStore, ObjectSeq
<1>5. RunInv'
    <2>1. started <= started
        BY <1>2, RunsAreFinite
    <2> QED
        BY <1>1, <2>1 DEF Inv, RunInv, Storing
<1>6. SetsInv'
    BY <1>1, SameStoreIs DEF Inv, SetsInv, InFlight, SameStore
<1>7. HistoryInv' /\ LocalInv'
    BY <1>1, <1>3, SameStoreHistory DEF Inv
<1>8. RetainInv'
    BY <1>1 DEF RetainInv, FewSetsRemain
<1>9. CheckInv'
    BY <1>1, <1>3, CheckStays DEF Inv, SameStore
<1> QED
    BY <1>3, <1>4, <1>5, <1>6, <1>7, <1>8, <1>9 DEF Inv

\* Steps of a run between its uploads, and retries.
LEMMA UploadGoesOn ==
    ASSUME Inv, Inspect \/ Verified \/ Sync, SameStore
    PROVE  Inv' /\ KeptStep
<1>1. /\ kind' = kind /\ started' = started /\ at' = at
      /\ successful' = successful /\ recorded' = recorded
      /\ expired' = expired /\ left' = left /\ warned' = warned /\ check' = check
    BY DEF Inspect, Verified, Sync, store, history, retainVars
<1>2. /\ pc \in {"put", "head", "sync"} /\ tries' \in 0 .. MaxAttempts - 1
      /\ pc' \in {"publish", "send", "list", "record"}
      /\ pc = "put" <=> pc' \in {"publish", "send"}
      /\ pc' = "send" => kind # "local"
      /\ pc' = "list" => ObjectSeq[at] = "marker"
      /\ pc' = "record" => ObjectSeq[at] # "marker"
    BY FlatAssumption DEF Inv, TypeOK, Inspect, Verified, Sync, Accepted
<1>3. started \in Run /\ ObjectSeq' = ObjectSeq
    BY <1>2 DEF Inv, RunInv, ObjectSeq
<1>4. KeptStep
    <2>1. CASE pc = "put"
        BY <1>1, <2>1, SameStoreKeeps DEF Inv, SetsInv
    <2>2. CASE pc # "put"
        <3>1. Flying' = {}
            BY <1>2, <2>2 DEF Flying, InFlight
        <3> QED
            BY <1>1, <3>1, SameStoreKeeps DEF Inv
    <2> QED
        BY <2>1, <2>2
<1>5. TypeOK'
    BY <1>1, <1>2, <1>3 DEF Inv, TypeOK, SameStore
<1>6. RunInv'
    <2>1. Storing
        BY <1>2 DEF Storing
    <2>2. Target \in Key
        BY <1>3, KeyIs, LastIsMarker DEF Target, Inv, TypeOK
    <2>3. pc' = "record" => Intact(Target)
        BY <1>2, <2>2 DEF Inv, RunInv, SetsInv, Verified, LooksWhole, Intact, Inspect, Sync
    <2>4. Intact(Target)' <=> Intact(Target)
        BY <1>1, <1>3 DEF Intact, Target, SameStore
    <2> QED
        BY <1>1, <1>2, <1>3, <2>1, <2>3, <2>4 DEF Inv, RunInv
<1>7. SetsInv'
    BY <1>1, <1>2, <1>3, SameStoreIs DEF Inv, SetsInv, InFlight, SameStore
<1>8. HistoryInv' /\ LocalInv'
    BY <1>1, <1>4, SameStoreHistory DEF Inv
<1>9. RetainInv'
    BY <1>1, <1>2, <1>4, StaysDisplaced DEF Inv, TypeOK, RetainInv, FewSetsRemain
<1>10. CheckInv'
    BY <1>1, <1>4, CheckStays DEF Inv, SameStore
<1> QED
    BY <1>4, <1>5, <1>6, <1>7, <1>8, <1>9, <1>10 DEF Inv

CheckType ==
    [phase : {"idle", "verify", "done"}, run : 0 .. MaxRun, deep : BOOLEAN,
     todo : SUBSET Key, bad : BOOLEAN, sick : SUBSET Key, unsure : BOOLEAN]

\* Nothing but the count of attempts or the check changes.
LEMMA AttemptKeeps ==
    ASSUME Inv, tries' \in 0 .. MaxAttempts - 1,
           UNCHANGED <<kind, store, history, started, pc, at, retainVars>>,
           check' = check \/ (KeptStep => check' \in CheckType /\ CheckInv')
    PROVE  Inv' /\ KeptStep
<1>1. /\ SameStore /\ kind' = kind /\ started' = started /\ pc' = pc /\ at' = at
      /\ successful' = successful /\ recorded' = recorded
      /\ expired' = expired /\ left' = left /\ warned' = warned
    BY DEF store, history, retainVars, SameStore
<1>2. Flying' = Flying /\ InFlight' = InFlight /\ ObjectSeq' = ObjectSeq
    BY <1>1 DEF Flying, InFlight, ObjectSeq
<1>3. KeptStep
    BY <1>2, <1>1, SameStoreKeeps DEF Inv
<1>4. TypeOK'
    BY <1>1, <1>2, <1>3 DEF Inv, TypeOK, SameStore, CheckType
<1>5. RunInv'
    BY <1>1, <1>2 DEF Inv, RunInv, Storing, Intact, Target, SameStore
<1>6. SetsInv'
    BY <1>1, <1>2, SameStoreIs DEF Inv, SetsInv, SameStore
<1>7. HistoryInv' /\ LocalInv'
    BY <1>1, <1>3, SameStoreHistory DEF Inv
<1>8. RetainInv'
    <2>1. \A r \in expired : Displaced(r)'
        BY <1>3, StaysDisplaced DEF Inv, RetainInv, TypeOK
    <2>2. ASSUME NEW d \in Run, Deleting(d) PROVE Deleting(d)'
        <3>1. Displaced(d)'
            BY <1>3, <2>2, StaysDisplaced DEF Deleting
        <3> QED
            BY <1>1, <2>2, <3>1, SameStoreIs DEF Deleting
    <2> QED
        BY <1>1, <2>1, <2>2, SameStoreIs DEF Inv, RetainInv, FewSetsRemain
<1>9. CheckInv'
    BY <1>1, <1>3, CheckStays DEF Inv, SameStore
<1> QED
    BY <1>3, <1>4, <1>5, <1>6, <1>7, <1>8, <1>9 DEF Inv

-----------------------------------------------------------------------------
(* Steps that store or remove the object under way.                        *)

\* A run over as far as retention and the next uploads are concerned.
LEMMA EndIs ==
    ASSUME TypeOK, Ends
    PROVE  /\ pc' = "idle" /\ at' = 1 /\ tries' \in 0 .. MaxAttempts - 1 /\ kind' = kind
           /\ expired' = {} /\ left' = {} /\ warned' = FALSE
           /\ started' = started /\ recorded' = recorded /\ check' = check
           /\ at' \in DOMAIN ObjectSeq
BY ObjectsAre, FlatAssumption DEF Ends

\* The object under way arrives: its package is not recorded yet, and its set is
\* not kept before its marker is confirmed or the run has ended.
LEMMA PutKeeps ==
    ASSUME Inv, pc \in {"send", "publish"}, Target \notin Present,
           NEW c \in {"whole", "short"}, kind = "local" => c = "whole",
           objects' = [objects EXCEPT ![Target] = c], damaged' = damaged,
           kind' = kind, started' = started, recorded' = recorded, check' = check,
           successful' = successful, expired' \subseteq expired,
           left' \subseteq left, warned' \in BOOLEAN, tries' \in 0 .. MaxAttempts - 1,
           \/ /\ at' = at /\ pc' \in {"send", "head", "sync"}
              /\ (pc' = "sync" => c = "whole") /\ (kind = "local" => pc' = "sync")
           \/ at' = 1 /\ pc' = "idle" /\ kind # "local"
    PROVE  Inv' /\ KeptStep
<1>1. /\ started \in Run /\ Target \in Key /\ Storing /\ InFlight
      /\ recorded[started] = {ObjectSeq[i] : i \in 1 .. at - 1}
      /\ ObjectSeq' = ObjectSeq
    BY LastIsMarker, KeyIs DEF Inv, RunInv, Storing, InFlight, Target, TypeOK, ObjectSeq
<1>2. /\ objects'[Target] = c /\ objects[Target] = "absent"
      /\ \A k \in Key : k # Target => objects'[k] = objects[k]
    BY <1>1 DEF Inv, TypeOK, Present
<1>3. \A k \in Key : Intact(k) => Intact(k)' \/ (k = Target /\ kind # "local")
    BY <1>2 DEF Intact
<1>4. \A k \in Key : k # Target => (Intact(k)' <=> Intact(k))
    BY <1>2 DEF Intact
<1>5. Present' = Present \cup {Target}
    BY <1>1, <1>2 DEF Present
<1>6. /\ ObjectSeq[at] # "marker" => Completed' = Completed /\ Marked' = Marked
      /\ Completed' \subseteq Completed \cup {started}
      /\ Completed \subseteq Completed' /\ Marked' \subseteq Marked \cup {started}
    <2>1. \A r \in Run : <<r, "marker">> = Target <=> r = started /\ ObjectSeq[at] = "marker"
        BY DEF Target
    <2>2. \A r \in Run : r \in Marked' <=>
              r \in Marked \/ (r = started /\ ObjectSeq[at] = "marker")
        BY <1>5, <2>1 DEF Marked
    <2>3. \A r \in Run : r \in Completed' <=>
              r \in Completed \/ (r = started /\ ObjectSeq[at] = "marker")
        BY <2>2 DEF Completed, Complete
    <2>4. Completed \subseteq Run /\ Marked \subseteq Run
          /\ Completed' \subseteq Run /\ Marked' \subseteq Run
        BY DEF Completed, Marked
    <2> QED
        BY <2>2, <2>3, <2>4
<1>7. recorded[started] = Part \/ ObjectSeq[at] # "marker"
    BY <1>1, LastIsMarker DEF Inv, TypeOK
<1>8. KeptStep
    <2>1. ASSUME NEW r \in Run, r # started
          PROVE  r \in KeptSets' <=> r \in KeptSets
        <3>1. r \notin Flying /\ r \notin Flying'
            BY <2>1 DEF Flying
        <3>2. \A p \in Part : Intact(<<r, p>>)' <=> Intact(<<r, p>>)
            BY <1>4, <2>1, KeyIs DEF Target
        <3>3. Complete(r)' <=> Complete(r)
            BY <1>6, <2>1 DEF Completed
        <3> QED
            BY <3>1, <3>2, <3>3, KeptIs, KeptIsPrimed
    <2>2. KeptSets \subseteq Run /\ KeptSets' \subseteq Run
        BY DEF KeptSets, Completed
    <2>3. started \notin KeptSets
        <3>1. CASE ObjectSeq[at] = "marker"
            BY <1>1, <3>1, KeptIs DEF Flying
        <3>2. CASE ObjectSeq[at] # "marker"
            BY <1>1, <3>2, KeptAre DEF Inv, SetsInv
        <3> QED
            BY <3>1, <3>2
    <2>4. KeptSets' = KeptSets \/ KeptSets' = KeptSets \cup {started}
        <3>1. CASE started \in KeptSets'
            <4>1. \A r \in Run : r \in KeptSets' <=> r \in KeptSets \cup {started}
                BY <2>1, <3>1
            <4> QED
                BY <1>1, <2>2, <4>1
        <3>2. CASE started \notin KeptSets'
            <4>1. \A r \in Run : r \in KeptSets' <=> r \in KeptSets
                BY <2>1, <2>3, <3>2
            <4> QED
                BY <2>2, <4>1
        <3> QED
            BY <3>1, <3>2
    <2>5. \A r \in KeptSets : r < started
        <3>1. \A r \in KeptSets : r \in Nat /\ r <= started /\ started \in Nat
            BY <1>1, KeptAre, RunsAreFinite DEF Inv, SetsInv
        <3> QED
            BY <2>3, <3>1
    <2> QED
        BY <1>1, <2>4, <2>5 DEF KeptStep
<1>9. TypeOK'
    <2>1. objects' \in [Key -> Content]
        BY DEF Inv, TypeOK, Content
    <2>2. at' \in DOMAIN ObjectSeq
        BY ObjectsAre DEF Inv, TypeOK
    <2> QED
        BY <1>1, <2>1, <2>2 DEF Inv, TypeOK
<1>10. RunInv'
    <2>1. pc' = "sync" => Intact(Target)'
        BY <1>1, <1>2 DEF Intact, Target
    <2>2. Storing' => at' = at
        BY DEF Storing
    <2> QED
        BY <1>1, <2>1, <2>2 DEF Inv, RunInv
<1>11. SetsInv'
    <2>1. started <= started
        BY <1>1, RunsAreFinite
    <2>2. \A r \in Completed' : r <= started /\ recorded[r] = Part
        BY <1>6, <1>7, <2>1 DEF Inv, SetsInv
    <2>3. \A k \in Key : objects'[k] = "rotten" => k \in damaged
        BY <1>2 DEF Inv, SetsInv
    <2>4. InFlight' /\ ObjectSeq[at'] # "marker" => started \notin Completed'
        BY <1>1, <1>6 DEF Inv, SetsInv, InFlight
    <2> QED
        BY <1>1, <2>2, <2>3, <2>4 DEF SetsInv
<1>12. HistoryInv'
    <2> SUFFICES ASSUME NEW r \in Run, NEW p \in recorded[r]
                 PROVE  Intact(<<r, p>>)' \/ Displaced(r)'
        BY DEF HistoryInv
    <2>1. p \in Part /\ <<r, p>> \in Key
        BY KeyIs DEF Inv, TypeOK
    <2>2. <<r, p>> # Target
        BY <1>1, LastIsMarker DEF Target, Inv, TypeOK
    <2>3. Intact(<<r, p>>) \/ Displaced(r)
        BY DEF Inv, HistoryInv
    <2> QED
        BY <1>4, <1>8, <2>1, <2>2, <2>3, StaysDisplaced
<1>13. LocalInv'
    <2> SUFFICES ASSUME kind = "local", NEW r \in Marked', NEW p \in Part
                 PROVE  Intact(<<r, p>>)'
        BY DEF LocalInv
    <2>1. <<r, p>> \in Key
        BY KeyIs DEF Marked
    <2>2. CASE r \in Marked
        BY <1>3, <2>1, <2>2 DEF Inv, LocalInv
    <2>3. CASE r \notin Marked
        <3>1. r = started /\ ObjectSeq[at] = "marker" /\ recorded[started] = Part
            BY <1>6, <1>7, <2>3
        <3>2. Intact(<<r, p>>)
            BY <1>1, <3>1, LastIsNotDisplaced DEF Inv, HistoryInv
        <3> QED
            BY <1>3, <2>1, <3>2
    <2> QED
        BY <2>2, <2>3
<1>14. RetainInv'
    BY <1>8, StaysDisplaced DEF Inv, TypeOK, RetainInv, FewSetsRemain
<1>15. CheckInv'
    <2>1. \A k \in Key : k[1] \in successful => objects'[k] = objects[k]
        <3>1. started \notin successful
            BY DEF Inv, RunInv
        <3> QED
            BY <1>2, <3>1 DEF Target
    <2> QED
        BY <1>8, <2>1, CheckStays DEF Inv
<1> QED
    BY <1>8, <1>9, <1>10, <1>11, <1>12, <1>13, <1>14, <1>15 DEF Inv

\* What could not be verified is removed: nobody counts on it yet.
LEMMA UnverifiedKeeps ==
    ASSUME Inv, Unverified
    PROVE  Inv' /\ KeptStep
<1>1. /\ pc = "head" /\ Ends /\ successful' = successful
      /\ SameStore \/ /\ objects' = [objects EXCEPT ![Target] = "absent"]
                      /\ damaged' = damaged \ {Target}
    BY DEF Unverified, Fails, SameStore, store
<1>2. CASE SameStore
    BY <1>1, <1>2, EndKeeps
<1>3. CASE /\ objects' = [objects EXCEPT ![Target] = "absent"]
           /\ damaged' = damaged \ {Target}
    <2>1. /\ pc' = "idle" /\ at' = 1 /\ tries' \in 0 .. MaxAttempts - 1 /\ kind' = kind
          /\ expired' = {} /\ left' = {} /\ warned' = FALSE
          /\ started' = started /\ recorded' = recorded /\ check' = check
          /\ at' \in DOMAIN ObjectSeq /\ ObjectSeq' = ObjectSeq
        BY <1>1, EndIs DEF Inv, ObjectSeq
    <2>2. /\ started \in Run /\ Target \in Key /\ Storing /\ InFlight /\ kind # "local"
          /\ recorded[started] = {ObjectSeq[i] : i \in 1 .. at - 1}
          /\ started \notin successful
        BY <1>1, LastIsMarker, KeyIs
           DEF Inv, RunInv, Storing, InFlight, Target, TypeOK
    <2>3. /\ objects'[Target] = "absent" /\ Target \notin damaged'
          /\ \A k \in Key : k # Target =>
                objects'[k] = objects[k] /\ (k \in damaged' <=> k \in damaged)
        BY <1>3, <2>2 DEF Inv, TypeOK
    <2>4. \A k \in Key : k # Target => (Intact(k)' <=> Intact(k))
        BY <2>3 DEF Intact
    <2>5. PICK s \in Run : s = started
        BY <2>2
    <2>6. /\ \A r \in Run : r # s => (Complete(r)' <=> Complete(r))
          /\ Complete(s)' => Complete(s)
          /\ Completed' \subseteq Completed
        <3>1. \A k \in Key : k \in Present' <=> k \in Present /\ k # Target
            BY <2>3 DEF Present
        <3>2. \A r \in Run : <<r, "marker">> \in Key /\
                  (r # s => <<r, "marker">> # Target)
            BY <2>5, KeyIs DEF Target
        <3>3. \A r \in Run : r \in Marked' => r \in Marked
            BY <3>1, <3>2 DEF Marked
        <3>4. \A r \in Run : r # s => (r \in Marked' <=> r \in Marked)
            BY <3>1, <3>2 DEF Marked
        <3>5. \A r \in Run : Complete(r)' => Complete(r)
            BY <1>3, <3>3 DEF Complete
        <3>6. \A r \in Run : r # s => (Complete(r)' <=> Complete(r))
            BY <2>3, <3>2, <3>4 DEF Complete
        <3>7. Completed' \subseteq Completed
            BY <3>5 DEF Completed
        <3> QED
            BY <3>5, <3>6, <3>7
    <2>7. s \notin KeptSets /\ s \notin KeptSets'
        <3>1. CASE ObjectSeq[at] = "marker"
            <4>1. <<s, "marker">> = Target
                BY <2>5, <3>1 DEF Target
            <4>2. ~Complete(s)'
                BY <2>3, <4>1 DEF Complete, Marked, Present
            <4>3. s \in Flying
                BY <2>2, <2>5, <3>1 DEF Flying
            <4> QED
                BY <4>2, <4>3, KeptIs, KeptIsPrimed
        <3>2. CASE ObjectSeq[at] # "marker"
            <4>1. s \notin Completed
                BY <2>2, <2>5, <3>2 DEF Inv, SetsInv
            <4> QED
                BY <2>6, <4>1 DEF KeptSets
        <3> QED
            BY <3>1, <3>2
    <2>8. KeptStep
        <3>1. ASSUME NEW r \in Run, r # s
              PROVE  r \in KeptSets' <=> r \in KeptSets
            <4>1. r \notin Flying /\ r \notin Flying'
                BY <2>1, <2>5, <3>1 DEF Flying
            <4>2. \A p \in Part : Intact(<<r, p>>)' <=> Intact(<<r, p>>)
                BY <2>4, <2>5, <3>1, KeyIs DEF Target
            <4> QED
                BY <2>6, <3>1, <4>1, <4>2, KeptIs, KeptIsPrimed
        <3>2. KeptSets \subseteq Run /\ KeptSets' \subseteq Run
            BY DEF KeptSets, Completed
        <3> QED
            BY <2>7, <3>1, <3>2 DEF KeptStep
    <2>9. TypeOK'
        <3>1. objects' \in [Key -> Content]
            BY <1>3 DEF Inv, TypeOK, Content
        <3> QED
            BY <1>1, <1>3, <2>1, <2>2, <3>1 DEF Inv, TypeOK
    <2>10. RunInv'
        BY <1>1, <2>1 DEF Inv, RunInv, Storing
    <2>11. SetsInv'
        <3>1. \A k \in Key : objects'[k] = "rotten" => k \in damaged'
            BY <2>3 DEF Inv, SetsInv
        <3> QED
            BY <2>1, <2>6, <3>1 DEF Inv, SetsInv, InFlight
    <2>12. HistoryInv'
        <3> SUFFICES ASSUME NEW r \in Run, NEW p \in recorded[r]
                     PROVE  Intact(<<r, p>>)' \/ Displaced(r)'
            BY <2>1 DEF HistoryInv
        <3>1. p \in Part /\ <<r, p>> \in Key
            BY KeyIs DEF Inv, TypeOK
        <3>2. <<r, p>> # Target
            BY <2>2, LastIsMarker DEF Target, Inv, TypeOK
        <3>3. Intact(<<r, p>>) \/ Displaced(r)
            BY DEF Inv, HistoryInv
        <3> QED
            BY <2>4, <2>8, <3>1, <3>2, <3>3, StaysDisplaced
    <2>13. LocalInv' /\ RetainInv'
        BY <2>1, <2>2 DEF LocalInv, RetainInv, FewSetsRemain
    <2>14. CheckInv'
        <3>1. \A k \in Key : k[1] \in successful => k # Target
            BY <2>2 DEF Target
        <3>2. damaged \subseteq Key
            BY DEF Inv, TypeOK
        <3> QED
            BY <1>1, <2>1, <2>3, <2>8, <3>1, <3>2, CheckStays DEF Inv
    <2> QED
        BY <2>8, <2>9, <2>10, <2>11, <2>12, <2>13, <2>14 DEF Inv
<1> QED
    BY <1>1, <1>2, <1>3

\* A verified package is put on record.
LEMMA RecordKeeps ==
    ASSUME Inv, Record
    PROVE  Inv' /\ KeptStep
<1>1. /\ pc = "record" /\ pc' = "put" /\ at' = at + 1 /\ SameStore /\ kind' = kind
      /\ recorded' = [recorded EXCEPT ![started] = @ \cup {ObjectSeq[at]}]
      /\ successful' = successful /\ started' = started /\ tries' = tries
      /\ expired' = expired /\ left' = left /\ warned' = warned /\ check' = check
      /\ ObjectSeq' = ObjectSeq
    BY DEF Record, store, retainVars, SameStore, ObjectSeq
<1>2. PICK s \in Run : s = started
    BY <1>1 DEF Inv, RunInv
<1>3. /\ s \notin successful /\ s \notin Completed /\ Intact(Target)
      /\ ObjectSeq[at] \in Part /\ at + 1 \in DOMAIN ObjectSeq /\ at \in Nat /\ at >= 1
      /\ recorded[s] = {ObjectSeq[i] : i \in 1 .. at - 1}
    BY <1>1, <1>2, LastIsMarker DEF Inv, RunInv, SetsInv, Storing, TypeOK
<1>4. /\ recorded'[s] = recorded[s] \cup {ObjectSeq[at]}
      /\ \A r \in Run : r # s => recorded'[r] = recorded[r]
    BY <1>1, <1>2 DEF Inv, TypeOK
<1>5. KeptStep
    BY <1>1, <1>2, <1>3, SameStoreKeeps DEF Inv
<1>6. TypeOK'
    BY <1>1, <1>3 DEF Inv, TypeOK, SameStore
<1>7. RunInv'
    <2>1. recorded'[s] = {ObjectSeq[i] : i \in 1 .. (at + 1) - 1}
        <3>1. 1 .. (at + 1) - 1 = (1 .. at - 1) \cup {at}
            BY <1>3
        <3> QED
            BY <1>3, <1>4, <3>1
    <2>2. \A r \in Run : r > s => recorded'[r] = {}
        <3>1. \A r \in Run : r > s => r # s
            BY RunsAreFinite
        <3> QED
            BY <1>2, <1>4, <3>1 DEF Inv, RunInv
    <2> QED
        BY <1>1, <1>2, <2>1, <2>2 DEF Inv, RunInv
<1>8. SetsInv'
    BY <1>1, <1>2, <1>3, <1>4, SameStoreIs, KeptAre DEF Inv, SetsInv, InFlight, SameStore
<1>9. HistoryInv'
    <2> SUFFICES ASSUME NEW r \in Run, NEW p \in recorded'[r]
                 PROVE  Intact(<<r, p>>)' \/ Displaced(r)'
        BY DEF HistoryInv
    <2>1. CASE p \in recorded[r]
        <3>1. Intact(<<r, p>>) \/ Displaced(r)
            BY <2>1 DEF Inv, HistoryInv
        <3> QED
            BY <1>1, <1>5, <3>1, SameStoreIs, StaysDisplaced
    <2>2. CASE p \notin recorded[r]
        <3>1. <<r, p>> = Target
            BY <1>2, <1>4, <2>2 DEF Target
        <3>2. Intact(<<r, p>>)
            BY <1>3, <3>1
        <3> QED
            BY <1>1, <3>2, SameStoreIs
    <2> QED
        BY <2>1, <2>2
<1>10. LocalInv'
    <2>1. \A r : \A p : Intact(<<r, p>>) => Intact(<<r, p>>)'
        BY <1>1, SameStoreIs
    <2>2. Marked' = Marked
        BY <1>1, SameStoreIs
    <2> QED
        BY <1>1, <2>1, <2>2 DEF Inv, LocalInv
<1>11. RetainInv'
    BY <1>1, <1>5, StaysDisplaced DEF Inv, TypeOK, RetainInv, FewSetsRemain
<1>12. CheckInv'
    <2>1. \A r \in successful : recorded[r] \subseteq recorded'[r]
        BY <1>4 DEF Inv, TypeOK
    <2> QED
        BY <1>1, <1>5, <2>1, CheckStays DEF Inv, SameStore
<1> QED
    BY <1>5, <1>6, <1>7, <1>8, <1>9, <1>10, <1>11, <1>12 DEF Inv

-----------------------------------------------------------------------------
(* Retention.                                                              *)

\* What the bookkeeping of retention leaves to show is RetainInv.
LEMMA RetainKeeps ==
    ASSUME Inv, SameStore, pc \in {"list", "expire", "delete"},
           pc' \in {"expire", "delete", "finish"},
           expired' \subseteq Run, left' \subseteq Key, warned' \in BOOLEAN,
           UNCHANGED <<kind, history, started, at, tries, check>>,
           KeptStep => RetainInv'
    PROVE  Inv' /\ KeptStep
<1>1. /\ kind' = kind /\ started' = started /\ at' = at /\ tries' = tries
      /\ successful' = successful /\ recorded' = recorded /\ check' = check
      /\ ObjectSeq' = ObjectSeq
    BY DEF history, ObjectSeq
<1>2. KeptStep
    <2>1. Flying' = {}
        BY DEF Flying, InFlight
    <2> QED
        BY <1>1, <2>1, SameStoreKeeps DEF Inv
<1>3. TypeOK'
    BY <1>1 DEF Inv, TypeOK, SameStore
<1>4. RunInv'
    BY <1>1 DEF Inv, RunInv, Storing
<1>5. SetsInv'
    BY <1>1, SameStoreIs DEF Inv, SetsInv, InFlight, SameStore
<1>6. HistoryInv' /\ LocalInv'
    BY <1>1, <1>2, SameStoreHistory DEF Inv
<1>7. CheckInv'
    BY <1>1, <1>2, CheckStays DEF Inv, SameStore
<1> QED
    BY <1>2, <1>3, <1>4, <1>5, <1>6, <1>7 DEF Inv

\* Sets that have KeepLast complete ones after them are displaced, and all others
\* are KeepLast at most.
LEMMA ListKeeps ==
    ASSUME Inv, ListSets
    PROVE  Inv' /\ KeptStep
<1>1. /\ pc = "list" /\ expired' = Expired /\ pc' = "expire" /\ SameStore
      /\ left' = left /\ warned' = warned
      /\ UNCHANGED <<kind, history, started, at, tries, check>>
    BY DEF ListSets, SameStore, store
<1>2. Expired \subseteq Marked /\ Marked \subseteq Run
    BY DEF Expired, Marked
<1>3. ASSUME NEW r \in Expired
      PROVE  Displaced(r)
    <2>1. r \in Run /\ Cardinality(Newer(r, Marked)) >= KeepLast
        BY <1>2, <1>3 DEF Expired
    <2>2. Flying = {}
        BY <1>1 DEF Flying, InFlight
    <2> QED
        BY <2>1, <2>2, DisplacedByComplete DEF Inv
<1>4. Cardinality(Marked \ Expired) <= KeepLast
    <2>1. Marked \ Expired = {r \in Marked : ~(Cardinality(Newer(r, Marked)) >= KeepLast)}
        BY DEF Expired
    <2> QED
        BY <1>2, <2>1, NewestAreFew
<1>5. ASSUME KeptStep
      PROVE  RetainInv'
    <2>1. \A r \in Expired : Displaced(r)'
        BY <1>2, <1>3, <1>5, StaysDisplaced
    <2> QED
        BY <1>1, <1>4, <2>1, SameStoreIs DEF RetainInv, FewSetsRemain
<1> QED
    BY <1>1, <1>2, <1>5, RetainKeeps DEF Inv, TypeOK

\* The oldest expired set is listed, to be deleted.
LEMMA DeleteSetKeeps ==
    ASSUME Inv, DeleteSet
    PROVE  Inv' /\ KeptStep
<1>1. PICK d \in expired : left' = {k \in Present : k[1] = d} /\ expired' = expired \ {d}
    BY DEF DeleteSet
<1>2. /\ pc = "expire" /\ pc' = "delete" /\ SameStore /\ warned' = warned
      /\ UNCHANGED <<kind, history, started, at, tries, check>>
    BY DEF DeleteSet, SameStore, store
<1>3. d \in Run /\ Displaced(d) /\ expired \subseteq Run /\ Present \subseteq Key
    BY DEF Inv, TypeOK, RetainInv, Present
<1>4. ASSUME KeptStep
      PROVE  RetainInv'
    <2>1. Displaced(d)'
        BY <1>3, <1>4, StaysDisplaced
    <2>2. expired' \cup {d} = expired
        BY <1>1
    <2>3. Cardinality(Marked \ expired) <= KeepLast
        BY <1>2 DEF Inv, RetainInv
    <2>4. Deleting(d)'
        BY <1>1, <1>2, <2>1, <2>2, <2>3, SameStoreIs DEF Deleting
    <2>5. \A r \in expired : Displaced(r)'
        BY <1>3, <1>4, StaysDisplaced DEF Inv, RetainInv
    <2> QED
        BY <1>1, <1>2, <1>3, <2>4, <2>5 DEF RetainInv, FewSetsRemain
<1> QED
    BY <1>1, <1>2, <1>3, <1>4, RetainKeeps DEF Inv, TypeOK

LEMMA WarnedKeeps ==
    ASSUME Inv, ListFails \/ DeleteFails
    PROVE  Inv' /\ KeptStep
<1>1. /\ pc \in {"list", "delete"} /\ warned' = TRUE /\ expired' = {} /\ left' = {}
      /\ pc' = "finish" /\ SameStore
      /\ UNCHANGED <<kind, history, started, at, tries, check>>
    BY DEF ListFails, DeleteFails, Warned, SameStore, store
<1>2. RetainInv'
    BY <1>1 DEF RetainInv, FewSetsRemain
<1> QED
    BY <1>1, <1>2, RetainKeeps

\* A set has no marker when nothing is left of it.
LEMMA SetDeletedKeeps ==
    ASSUME Inv, SetDeleted \/ Retained
    PROVE  Inv' /\ KeptStep
<1>1. /\ pc \in {"expire", "delete"} /\ SameStore
      /\ expired' = expired /\ left' = left /\ warned' = warned
      /\ UNCHANGED <<kind, history, started, at, tries, check>>
    BY DEF SetDeleted, Retained, SameStore, store, retainVars
<1>2. ASSUME KeptStep
      PROVE  RetainInv'
    <2>1. \A r \in expired : Displaced(r)'
        BY <1>2, StaysDisplaced DEF Inv, RetainInv, TypeOK
    <2>2. CASE SetDeleted
        <3>1. pc = "delete" /\ left = {} /\ pc' = "expire"
            BY <2>2 DEF SetDeleted
        <3>2. PICK d \in Run : Deleting(d)
            BY <3>1 DEF Inv, RetainInv
        <3>3. d \notin Marked
            BY <3>1, <3>2, KeyIs DEF Deleting, Marked
        <3>4. Marked \ (expired \cup {d}) = Marked \ expired
            BY <3>3
        <3>5. Cardinality(Marked \ expired) <= KeepLast
            BY <3>2, <3>4 DEF Deleting
        <3> QED
            BY <1>1, <2>1, <3>1, <3>5, SameStoreIs DEF RetainInv, FewSetsRemain
    <2>3. CASE Retained
        <3>1. pc = "expire" /\ expired = {} /\ pc' = "finish"
            BY <2>3 DEF Retained
        <3>2. Marked \ expired = Marked
            BY <3>1
        <3>3. Cardinality(Marked) <= KeepLast
            BY <3>1, <3>2 DEF Inv, RetainInv
        <3> QED
            BY <1>1, <2>1, <3>1, <3>3, SameStoreIs DEF RetainInv, FewSetsRemain
    <2> QED
        BY <2>2, <2>3
<1>3. pc' \in {"expire", "finish"}
    BY DEF SetDeleted, Retained
<1> QED
    BY <1>1, <1>2, <1>3, RetainKeeps DEF Inv, TypeOK

\* Objects that get worse in a set, or all of a damaged one: what was whole may
\* be gone, and no set becomes complete.
LEMMA MarkedShrinks ==
    ASSUME Marked' \subseteq Marked, NEW E
    PROVE  /\ Cardinality(Marked \ E) <= KeepLast => Cardinality(Marked' \ E) <= KeepLast
           /\ Cardinality(Marked) <= KeepLast => Cardinality(Marked') <= KeepLast
<1>1. Marked \in SUBSET Run /\ KeepLast \in Nat
    BY FlatAssumption DEF Marked
<1>2. /\ Marked \ E \in SUBSET Run /\ Marked' \ E \in SUBSET (Marked \ E)
      /\ Marked' \in SUBSET Marked
    BY <1>1
<1>3. /\ Cardinality(Marked' \ E) <= Cardinality(Marked \ E)
      /\ Cardinality(Marked') <= Cardinality(Marked)
    BY <1>1, <1>2, RunsAreFinite, FS_Subset
<1>4. /\ Cardinality(Marked' \ E) \in Nat /\ Cardinality(Marked \ E) \in Nat
      /\ Cardinality(Marked') \in Nat /\ Cardinality(Marked) \in Nat
    BY <1>1, <1>2, RunsAreFinite
<1> QED
    BY <1>1, <1>3, <1>4

\* An object of a displaced set goes: of a local one the marker first.
LEMMA DeleteObjectKeeps ==
    ASSUME Inv, DeleteObject
    PROVE  Inv' /\ KeptStep
<1>1. PICK k \in NextDeleted :
          /\ objects' = [objects EXCEPT ![k] = "absent"]
          /\ damaged' = damaged \ {k} /\ left' = left \ {k}
    BY DEF DeleteObject
<1>2. /\ pc = "delete" /\ kind' = kind /\ started' = started /\ pc' = pc /\ at' = at
      /\ tries' = tries /\ successful' = successful /\ recorded' = recorded
      /\ expired' = expired /\ warned' = warned /\ check' = check
      /\ ObjectSeq' = ObjectSeq
    BY DEF DeleteObject, history, runVars, ObjectSeq
<1>3. PICK d \in Run : Deleting(d)
    BY <1>2 DEF Inv, RetainInv
<1>4. /\ k \in left /\ k \in Key /\ k[1] = d /\ Displaced(d)
      /\ kind = "local" /\ k[2] # "marker" => \A l \in left : l[2] # "marker"
    BY <1>1, <1>3 DEF NextDeleted, Deleting, Inv, TypeOK
<1>5. /\ objects'[k] = "absent" /\ k \notin damaged'
      /\ \A l \in Key : l # k =>
            objects'[l] = objects[l] /\ (l \in damaged' <=> l \in damaged)
    BY <1>1, <1>4 DEF Inv, TypeOK
<1>6. /\ \A l \in Key : Intact(l)' => Intact(l)
      /\ \A l \in Key : l # k => (Intact(l)' <=> Intact(l))
      /\ Present' = Present \ {k}
    BY <1>5 DEF Intact, Present
<1>7. /\ Marked' \subseteq Marked /\ Completed' \subseteq Completed
      /\ \A r \in Run : Complete(r)' => Complete(r)
      /\ \A r \in Run : r # d => (Complete(r)' <=> Complete(r))
    <2>1. Marked' \subseteq Marked
        BY <1>6 DEF Marked
    <2>2. \A r \in Run : r # d => <<r, "marker">> # k /\ <<r, "marker">> \in Key
        BY <1>4, KeyIs
    <2>3. \A r \in Run : r # d => (r \in Marked' <=> r \in Marked)
        BY <1>6, <2>2 DEF Marked
    <2>4. \A r \in Run : Complete(r)' => Complete(r)
        BY <1>1, <2>1 DEF Complete
    <2>5. \A r \in Run : r # d => (Complete(r)' <=> Complete(r))
        BY <1>5, <2>2, <2>3 DEF Complete
    <2>6. Completed' \subseteq Completed
        BY <2>4 DEF Completed
    <2> QED
        BY <2>1, <2>4, <2>5, <2>6
<1>8. KeptStep
    <2>1. \A r \in Run : r \notin Flying /\ r \notin Flying'
        BY <1>2 DEF Flying, InFlight
    <2>2. ASSUME NEW r \in Run, r # d
          PROVE  r \in KeptSets' <=> r \in KeptSets
        <3>1. \A p \in Part : Intact(<<r, p>>)' <=> Intact(<<r, p>>)
            BY <1>4, <1>6, <2>2, KeyIs
        <3> QED
            BY <1>7, <2>1, <2>2, <3>1, KeptIs, KeptIsPrimed
    <2>3. d \in KeptSets' => d \in KeptSets
        <3>1. \A p \in Part : Intact(<<d, p>>)' => Intact(<<d, p>>)
            BY <1>6, KeyIs
        <3> QED
            BY <1>7, <2>1, <3>1, KeptIs, KeptIsPrimed
    <2>4. KeptSets \subseteq Run /\ KeptSets' \subseteq Run
        BY DEF KeptSets, Completed
    <2>5. CASE d \in KeptSets'
        <3>1. KeptSets' = KeptSets
            BY <2>2, <2>3, <2>4, <2>5
        <3> QED
            BY <3>1 DEF KeptStep
    <2>6. CASE d \notin KeptSets'
        <3>1. KeptSets' = KeptSets \ {d}
            BY <2>2, <2>4, <2>6
        <3> QED
            BY <1>4, <3>1 DEF KeptStep
    <2> QED
        BY <2>5, <2>6
<1>9. Displaced(d)' /\ \A r \in Run : Displaced(r) => Displaced(r)'
    BY <1>4, <1>8, StaysDisplaced
<1>10. TypeOK'
    <2>1. objects' \in [Key -> Content]
        BY <1>1 DEF Inv, TypeOK, Content
    <2> QED
        BY <1>1, <1>2, <2>1 DEF Inv, TypeOK
<1>11. RunInv'
    BY <1>2 DEF Inv, RunInv, Storing
<1>12. SetsInv'
    <2>1. \A l \in Key : objects'[l] = "rotten" => l \in damaged'
        BY <1>5 DEF Inv, SetsInv
    <2> QED
        BY <1>2, <1>7, <2>1 DEF Inv, SetsInv, InFlight
<1>13. HistoryInv'
    <2> SUFFICES ASSUME NEW r \in Run, NEW p \in recorded[r]
                 PROVE  Intact(<<r, p>>)' \/ Displaced(r)'
        BY <1>2 DEF HistoryInv
    <2>1. p \in Part /\ <<r, p>> \in Key
        BY KeyIs DEF Inv, TypeOK
    <2>2. Intact(<<r, p>>) \/ Displaced(r)
        BY DEF Inv, HistoryInv
    <2>3. r # d => <<r, p>> # k
        BY <1>4
    <2> QED
        BY <1>6, <1>9, <2>1, <2>2, <2>3
<1>14. LocalInv'
    <2> SUFFICES ASSUME kind = "local", NEW r \in Marked', NEW p \in Part
                 PROVE  Intact(<<r, p>>)'
        BY <1>2 DEF LocalInv
    <2>1. r \in Marked /\ r \in Run /\ <<r, p>> \in Key /\ Intact(<<r, p>>)
        BY <1>7, KeyIs DEF Marked, Inv, LocalInv
    <2>2. <<r, p>> # k
        <3> SUFFICES ASSUME <<r, p>> = k PROVE FALSE
            OBVIOUS
        <3>1. r = d /\ k[2] # "marker"
            BY <1>4, FlatAssumption
        <3>2. <<d, "marker">> \in Present
            BY <2>1, <3>1 DEF Marked
        <3>3. <<d, "marker">> \in left
            BY <1>3, <3>2 DEF Deleting
        <3> QED
            BY <1>4, <3>1, <3>3
    <2> QED
        BY <1>6, <2>1, <2>2
<1>15. RetainInv'
    <2>1. Deleting(d)'
        <3>1. Cardinality(Marked \ (expired \cup {d})) <= KeepLast
            BY <1>3 DEF Deleting
        <3>2. Cardinality(Marked' \ (expired \cup {d})) <= KeepLast
            BY <1>7, <3>1, MarkedShrinks
        <3>3. \A l \in left' : l[1] = d
            BY <1>1, <1>3 DEF Deleting
        <3>4. \A l \in Present' : l[1] = d => l \in left'
            BY <1>1, <1>3, <1>6 DEF Deleting
        <3> QED
            BY <1>2, <1>9, <3>2, <3>3, <3>4 DEF Deleting
    <2> QED
        BY <1>2, <1>9, <2>1 DEF Inv, TypeOK, RetainInv, FewSetsRemain
<1>16. CheckInv'
    <2>1. \A l \in Key : objects'[l] = objects[l] \/ objects'[l] = "absent"
        BY <1>5
    <2>2. \A l \in damaged : l \in damaged' \/ Displaced(l[1])
        BY <1>4, <1>5 DEF Inv, TypeOK
    <2> QED
        BY <1>2, <1>8, <2>1, <2>2, CheckStays DEF Inv
<1> QED
    BY <1>8, <1>10, <1>11, <1>12, <1>13, <1>14, <1>15, <1>16 DEF Inv

-----------------------------------------------------------------------------
(* Damage, and checks.                                                     *)

LEMMA DamageKeeps ==
    ASSUME Inv, Damage
    PROVE  Inv' /\ KeptStep
<1>1. PICK k \in Present : \E c \in Content \ {"whole"} :
          /\ objects[k] = "whole" /\ ~(InFlight /\ k = Target)
          /\ objects' = [objects EXCEPT ![k] = c] /\ damaged' = damaged \cup {k}
    BY DEF Damage
<1>2. PICK c \in Content \ {"whole"} :
          /\ objects[k] = "whole" /\ ~(InFlight /\ k = Target)
          /\ objects' = [objects EXCEPT ![k] = c] /\ damaged' = damaged \cup {k}
    BY <1>1
<1>3. /\ kind' = kind /\ started' = started /\ pc' = pc /\ at' = at
      /\ tries' = tries /\ successful' = successful /\ recorded' = recorded
      /\ expired' = expired /\ left' = left /\ warned' = warned /\ check' = check
      /\ ObjectSeq' = ObjectSeq /\ InFlight' = InFlight
    BY DEF Damage, history, runVars, retainVars, ObjectSeq, InFlight
<1>4. /\ k \in Key /\ k \in damaged' /\ objects'[k] = c
      /\ \A l \in Key : l # k =>
            objects'[l] = objects[l] /\ (l \in damaged' <=> l \in damaged)
    BY <1>2 DEF Inv, TypeOK, Present
<1>5. /\ \A l \in Key : Intact(l)' <=> Intact(l)
      /\ Present' \subseteq Present
      /\ \A l \in Present : l \in Present' \/ l = k
    BY <1>2, <1>4 DEF Intact, Present
<1>6. /\ Marked' \subseteq Marked /\ Completed' = Completed
      /\ \A r \in Run : Complete(r)' <=> Complete(r)
    <2>1. Marked' \subseteq Marked
        BY <1>5 DEF Marked
    <2>2. ASSUME NEW r \in Run
          PROVE  Complete(r)' <=> Complete(r)
        <3>1. <<r, "marker">> \in Key
            BY KeyIs
        <3>2. CASE <<r, "marker">> = k
            <4>1. r \in Marked
                BY <3>2 DEF Marked
            <4> QED
                BY <1>4, <3>2, <4>1 DEF Complete
        <3>3. CASE <<r, "marker">> # k
            <4>1. r \in Marked' <=> r \in Marked
                BY <1>5, <3>3 DEF Marked
            <4> QED
                BY <1>4, <3>1, <3>3, <4>1 DEF Complete
        <3> QED
            BY <3>2, <3>3
    <2>3. Completed' = Completed
        BY <2>2 DEF Completed
    <2> QED
        BY <2>1, <2>2, <2>3
<1>7. KeptStep
    <2>1. Flying' = Flying
        BY <1>3 DEF Flying
    <2>2. ASSUME NEW r \in Run
          PROVE  r \in KeptSets' <=> r \in KeptSets
        <3>1. \A p \in Part : Intact(<<r, p>>)' <=> Intact(<<r, p>>)
            BY <1>5, KeyIs
        <3> QED
            BY <1>6, <2>1, <3>1, KeptIs, KeptIsPrimed
    <2>3. KeptSets \subseteq Run /\ KeptSets' \subseteq Run
        BY DEF KeptSets, Completed
    <2> QED
        BY <2>2, <2>3 DEF KeptStep
<1>8. \A r \in Run : Displaced(r) => Displaced(r)'
    BY <1>7, StaysDisplaced
<1>9. TypeOK'
    <2>1. objects' \in [Key -> Content]
        BY <1>2 DEF Inv, TypeOK
    <2> QED
        BY <1>2, <1>3, <1>4, <2>1 DEF Inv, TypeOK
<1>10. RunInv'
    <2>1. started \in Run => Target \in Key
        BY LastIsMarker, KeyIs DEF Inv, TypeOK, Target
    <2>2. Target' = Target
        BY <1>3 DEF Target
    <2>3. started \in Run /\ Intact(Target) => Intact(Target)'
        BY <1>4, <2>1, <2>2 DEF Intact
    <2> QED
        BY <1>3, <2>3 DEF Inv, RunInv, Storing
<1>11. SetsInv'
    <2>1. \A l \in Key : objects'[l] = "rotten" => l \in damaged'
        BY <1>4 DEF Inv, SetsInv
    <2> QED
        BY <1>3, <1>6, <2>1 DEF Inv, SetsInv
<1>12. HistoryInv'
    <2> SUFFICES ASSUME NEW r \in Run, NEW p \in recorded[r]
                 PROVE  Intact(<<r, p>>)' \/ Displaced(r)'
        BY <1>3 DEF HistoryInv
    <2>1. <<r, p>> \in Key
        BY KeyIs DEF Inv, TypeOK
    <2> QED
        BY <1>5, <1>8, <2>1 DEF Inv, HistoryInv
<1>13. LocalInv'
    <2> SUFFICES ASSUME kind = "local", NEW r \in Marked', NEW p \in Part
                 PROVE  Intact(<<r, p>>)'
        BY <1>3 DEF LocalInv
    <2>1. r \in Marked /\ <<r, p>> \in Key /\ Intact(<<r, p>>)
        BY <1>6, KeyIs DEF Marked, Inv, LocalInv
    <2> QED
        BY <1>5, <2>1
<1>14. RetainInv'
    <2>1. pc = "expire" => Cardinality(Marked' \ expired) <= KeepLast
        BY <1>6, MarkedShrinks DEF Inv, RetainInv
    <2>2. ASSUME NEW d \in Run, Deleting(d)
          PROVE  Deleting(d)'
        <3>1. Cardinality(Marked' \ (expired \cup {d})) <= KeepLast
            BY <1>6, <2>2, MarkedShrinks DEF Deleting
        <3> QED
            BY <1>3, <1>5, <1>8, <2>2, <3>1 DEF Deleting
    <2>3. FewSetsRemain'
        BY <1>3, <1>6, MarkedShrinks DEF Inv, RetainInv, FewSetsRemain
    <2>4. \A r \in expired : Displaced(r)'
        BY <1>8 DEF Inv, TypeOK, RetainInv
    <2> QED
        BY <1>3, <2>1, <2>2, <2>3, <2>4 DEF Inv, RetainInv
<1>15. CheckInv'
    <2>1. \A l \in Key : objects'[l] = objects[l] \/ objects[l] = "whole"
        BY <1>2, <1>4
    <2>2. damaged \subseteq damaged'
        BY <1>2
    <2> QED
        BY <1>3, <1>7, <2>1, <2>2, CheckStays DEF Inv
<1> QED
    BY <1>7, <1>9, <1>10, <1>11, <1>12, <1>13, <1>14, <1>15 DEF Inv

\* A check begins with what is on record of the newest successful run.
LEMMA CheckBeginKeeps ==
    ASSUME Inv, CheckBegin
    PROVE  check' \in CheckType /\ CheckInv'
<1>1. objects' = objects /\ damaged' = damaged /\ successful' = successful
      /\ recorded' = recorded
    BY DEF CheckBegin, store, history
<1>0. NoCheck \in CheckType
    BY FlatAssumption DEF NoCheck, CheckType
<1>2. CASE successful = {}
    <2>1. PICK deep \in BOOLEAN :
              check' = [NoCheck EXCEPT !.phase = "done", !.bad = TRUE, !.deep = deep]
        BY <1>2 DEF CheckBegin
    <2>2. /\ check'.phase = "done" /\ check'.run = 0 /\ check'.todo = {}
          /\ check'.sick = {}
        BY <2>1 DEF NoCheck
    <2>3. check' \in CheckType
        BY <1>0, <2>1 DEF CheckType
    <2> QED
        BY <2>2, <2>3 DEF CheckInv
<1>3. CASE successful # {}
    <2> DEFINE r == CHOOSE s \in successful : Newer(s, successful) = {}
               keys == {r} \X recorded[r]
    <2>1. r \in successful /\ r \in Run /\ recorded[r] \subseteq Part
        BY <1>3, NewestRun DEF Inv, TypeOK
    <2>2. PICK deep \in BOOLEAN :
              check' = [NoCheck EXCEPT !.phase = "verify", !.run = r,
                           !.deep = deep, !.todo = keys,
                           !.sick = {k \in keys : objects[k] # "whole" /\
                                          (deep \/ objects[k] # "rotten")}]
        BY <1>3 DEF CheckBegin
    <2>3. /\ check'.phase = "verify" /\ check'.run = r /\ check'.todo = keys
          /\ check'.deep = deep /\ check'.bad = FALSE /\ check'.unsure = FALSE
          /\ check'.sick = {k \in keys : objects[k] # "whole" /\
                                 (deep \/ objects[k] # "rotten")}
        BY <2>2 DEF NoCheck
    <2>4. keys \subseteq Key /\ r \in 0 .. MaxRun /\ r # 0
        <3> HIDE DEF r
        <3>1. r \in 0 .. MaxRun /\ r # 0
            BY <2>1, FlatAssumption DEF Run
        <3>2. \A p \in recorded[r] : <<r, p>> \in Key
            BY <2>1, KeyIs
        <3> QED
            BY <3>1, <3>2
    <2>5. check' \in CheckType
        <3>1. {k \in keys : objects[k] # "whole" /\ (deep \/ objects[k] # "rotten")}
                  \in SUBSET Key
            BY <2>4
        <3> HIDE DEF r, keys
        <3> QED
            BY <1>0, <2>2, <2>4, <3>1 DEF CheckType
    <2>6. \A k \in check'.sick : k \in keys /\ k[1] = r /\ ~Passes(k, deep)'
        BY <1>1, <2>3 DEF Passes, LooksWhole
    <2> HIDE DEF r, keys
    <2>7. keys = {check'.run} \X recorded'[check'.run]
        BY <1>1, <2>3 DEF keys
    <2>8. \A k \in check'.sick : k \in check'.todo /\ ~Passes(k, check.deep)'
        BY <1>1, <2>3, <2>6 DEF Passes, LooksWhole
    <2>9. /\ check'.run # 0 => check'.run \in successful'
          /\ check'.run # 0 /\ check'.phase = "verify" /\ ~check'.bad
          /\ check'.todo = keys
          /\ \A k \in check'.sick : k[1] = check'.run
        BY <1>1, <2>1, <2>3, <2>4, <2>6
    <2> QED
        BY <2>5, <2>7, <2>8, <2>9 DEF CheckInv
<1> QED
    BY <1>2, <1>3

\* A package that does not pass is damaged, or belongs to a displaced run.
LEMMA VerifyKeeps ==
    ASSUME Inv, NEW k \in check.todo, VerifyPackage(k), KeptStep
    PROVE  check' \in CheckType /\ CheckInv'
<1>1. /\ objects' = objects /\ damaged' = damaged /\ successful' = successful
      /\ recorded' = recorded /\ kind' = kind /\ check.phase = "verify"
    BY DEF VerifyPackage, store, history
<1>2. check \in CheckType
    BY DEF Inv, TypeOK, CheckType
<1>3. /\ check'.phase = "verify" /\ check'.run = check.run /\ check'.deep = check.deep
      /\ check'.sick = check.sick /\ check'.todo = check.todo \ {k}
      /\ check' \in CheckType
    <2>1. CASE check' = [check EXCEPT !.todo = @ \ {k}, !.bad = TRUE, !.unsure = TRUE]
        BY <1>1, <1>2, <2>1 DEF CheckType
    <2>2. CASE check' = [check EXCEPT !.todo = @ \ {k},
                           !.bad = @ \/ ~FindsRecorded \/ ~Passes(k, check.deep)]
        <3>1. PICK bad \in BOOLEAN :
                  bad = (check.bad \/ ~FindsRecorded \/ ~Passes(k, check.deep))
            OBVIOUS
        <3>2. check' = [check EXCEPT !.todo = @ \ {k}, !.bad = bad]
            BY <2>2, <3>1, Zenon
        <3> QED
            BY <1>1, <1>2, <3>2 DEF CheckType
    <2> QED
        BY <2>1, <2>2 DEF VerifyPackage
<1>4. \/ check'.unsure /\ check'.bad
      \/ /\ check'.unsure <=> check.unsure
         /\ check'.bad <=> check.bad \/ ~FindsRecorded \/ ~Passes(k, check.deep)
    <2>1. CASE check' = [check EXCEPT !.todo = @ \ {k}, !.bad = TRUE, !.unsure = TRUE]
        BY <1>2, <2>1 DEF CheckType
    <2>2. CASE check' = [check EXCEPT !.todo = @ \ {k},
                           !.bad = @ \/ ~FindsRecorded \/ ~Passes(k, check.deep)]
        <3>1. PICK bad \in BOOLEAN :
                  bad = (check.bad \/ ~FindsRecorded \/ ~Passes(k, check.deep))
            OBVIOUS
        <3>2. check' = [check EXCEPT !.todo = @ \ {k}, !.bad = bad]
            BY <2>2, <3>1, Zenon
        <3>3. check'.unsure = check.unsure /\ check'.bad = bad
            BY <1>2, <3>2 DEF CheckType
        <3> QED
            BY <3>1, <3>3
    <2> QED
        BY <2>1, <2>2 DEF VerifyPackage
<1>5. /\ check.run \in successful /\ check.run \in Run /\ check.run # 0
      /\ check.todo \subseteq {check.run} \X recorded[check.run]
    BY <1>1 DEF Inv, TypeOK, CheckInv
<1>6. ASSUME NEW l \in check.sick
      PROVE  check'.bad \/ (l \in check'.todo /\ ~Passes(l, check.deep)')
    <2>1. check.bad \/ (l \in check.todo /\ ~Passes(l, check.deep))
        BY DEF Inv, CheckInv
    <2>2. Passes(l, check.deep)' <=> Passes(l, check.deep)
        BY <1>1, <1>3 DEF Passes, LooksWhole
    <2> QED
        BY <1>3, <1>4, <2>1, <2>2
<1>7. ASSUME ~Prefixed, check'.bad, ~check'.unsure
      PROVE  (\E l \in damaged' : l[1] = check.run) \/ Displaced(check.run)
    <2>1. CASE check.bad
        <3>1. ~check.unsure
            BY <1>4, <1>7
        <3> QED
            BY <1>1, <1>5, <1>7, <2>1, <3>1 DEF Inv, CheckInv
    <2>2. CASE ~check.bad
        <3>1. ~Passes(k, check.deep)
            BY <1>4, <1>7, <2>2 DEF FindsRecorded
        <3>2. objects[k] # "whole"
            BY <3>1 DEF Passes
        <3>3. PICK p \in recorded[check.run] : k = <<check.run, p>>
            BY <1>5
        <3>4. Intact(k) \/ Displaced(check.run)
            BY <1>5, <3>3 DEF Inv, HistoryInv
        <3>5. k[1] = check.run
            BY <3>3
        <3> QED
            BY <1>1, <3>2, <3>4, <3>5 DEF Intact
    <2> QED
        BY <2>1, <2>2
<1>8. PICK r \in Run : r = check.run
    BY <1>5
<1>9. Displaced(r) => Displaced(r)'
    BY StaysDisplaced
<1>10. ~Prefixed /\ check'.bad /\ ~check'.unsure =>
           (\E l \in damaged' : l[1] = r) \/ Displaced(r)'
    BY <1>7, <1>8, <1>9
<1>11. ~Prefixed /\ check'.bad /\ ~check'.unsure /\ check'.run # 0 =>
           (\E l \in damaged' : l[1] = check'.run) \/ Displaced(check.run)'
    BY <1>3, <1>8, <1>10
<1>12. \A l \in check'.sick : l[1] = check'.run /\ check'.run # 0
    BY <1>3, <1>5 DEF Inv, CheckInv
<1>13. \A l \in check'.sick :
           check'.bad \/ (l \in check'.todo /\ ~Passes(l, check.deep)')
    BY <1>3, <1>6
<1> QED
    BY <1>1, <1>3, <1>5, <1>11, <1>12, <1>13 DEF CheckInv

LEMMA CheckKeeps ==
    ASSUME Inv, CheckNext
    PROVE  Inv' /\ KeptStep
<1>1. UNCHANGED <<kind, store, history, started, pc, at, retainVars>> /\ tries' = tries
    BY DEF CheckNext, CheckBegin, VerifyPackage, CheckEnd, runVars
<1>2. tries' \in 0 .. MaxAttempts - 1
    BY <1>1 DEF Inv, TypeOK
<1>3. ASSUME CheckEnd, KeptStep
      PROVE  check' \in CheckType /\ CheckInv'
    <2>1. /\ check.phase = "verify" /\ check.todo = {}
          /\ check' = [check EXCEPT !.phase = "done"]
        BY <1>3 DEF CheckEnd
    <2>2. /\ check' \in CheckType /\ check'.phase = "done" /\ check'.run = check.run
          /\ check'.todo = check.todo /\ check'.sick = check.sick
          /\ check'.bad = check.bad /\ check'.unsure = check.unsure
        BY <2>1 DEF Inv, TypeOK, CheckType
    <2>3. \A k \in check.sick : check.bad
        BY <2>1 DEF Inv, CheckInv
    <2>4. check.run # 0 => check.run \in Run
        BY DEF Inv, TypeOK, CheckInv
    <2>5. \A r \in Run : r = check.run => (Displaced(r) => Displaced(r)')
        BY <1>3, StaysDisplaced
    <2>6. damaged' = damaged /\ successful' = successful
        BY <1>1 DEF store, history
    <2>7. ~Prefixed /\ check'.bad /\ ~check'.unsure /\ check'.run # 0 =>
              (\E k \in damaged' : k[1] = check'.run) \/ Displaced(check.run)'
        <3> SUFFICES ASSUME ~Prefixed /\ check.bad /\ ~check.unsure /\ check.run # 0
                     PROVE  (\E k \in damaged : k[1] = check.run)
                            \/ Displaced(check.run)'
            BY <2>2, <2>6
        <3>1. PICK r \in Run : r = check.run
            BY <2>4
        <3>2. (\E k \in damaged : k[1] = check.run) \/ Displaced(r)
            BY <3>1 DEF Inv, CheckInv
        <3>3. (\E k \in damaged : k[1] = check.run) \/ Displaced(r)'
            BY <1>3, <3>2, StaysDisplaced
        <3> QED
            BY <2>2, <3>1, <3>3
    <2> QED
        BY <2>1, <2>2, <2>3, <2>6, <2>7 DEF Inv, CheckInv
<1>4. CASE CheckBegin
    BY <1>1, <1>2, <1>4, CheckBeginKeeps, AttemptKeeps
<1>5. CASE \E k \in check.todo : VerifyPackage(k)
    <2>1. PICK k \in check.todo : VerifyPackage(k)
        BY <1>5
    <2>2. KeptStep => check' \in CheckType /\ CheckInv'
        BY <2>1, VerifyKeeps
    <2> QED
        BY <1>1, <1>2, <2>2, AttemptKeeps
<1>6. CASE CheckEnd
    BY <1>1, <1>2, <1>3, <1>6, AttemptKeeps
<1> QED
    BY <1>4, <1>5, <1>6 DEF CheckNext

-----------------------------------------------------------------------------
(* The theorems.                                                           *)

\* The uploads of s3: a lost request may or may not have stored the object.
LEMMA SendKeeps ==
    ASSUME Inv, Send \/ SendIsLost \/ SendCollides \/ Publish
    PROVE  Inv' /\ KeptStep
<1>1. tries \in 0 .. MaxAttempts - 1 /\ warned \in BOOLEAN /\ ObjectSeq' = ObjectSeq
    BY DEF Inv, TypeOK, ObjectSeq
<1>2. CASE Send
    <2>1. PICK c \in Received : objects' = [objects EXCEPT ![Target] = c]
        BY <1>2 DEF Send
    <2>2. c \in {"whole", "short"}
        BY DEF Received
    <2>3. /\ pc = "send" /\ Target \notin Present /\ pc' = "head" /\ kind # "local"
          /\ damaged' = damaged /\ kind' = kind /\ started' = started
          /\ recorded' = recorded /\ check' = check /\ successful' = successful
          /\ expired' = expired /\ left' = left /\ warned' = warned
          /\ tries' = tries /\ at' = at
        BY <1>2 DEF Send, history, retainVars, Inv, RunInv
    <2> QED
        BY <1>1, <2>1, <2>2, <2>3, PutKeeps
<1>3. CASE Publish
    <2>1. /\ pc = "publish" /\ Target \notin Present /\ pc' = "sync"
          /\ damaged' = damaged /\ kind' = kind /\ started' = started
          /\ recorded' = recorded /\ check' = check /\ successful' = successful
          /\ expired' = expired /\ left' = left /\ warned' = warned
          /\ tries' = tries /\ at' = at
          /\ objects' = [objects EXCEPT ![Target] = "whole"]
        BY <1>3 DEF Publish, history, retainVars
    <2>2. PICK c \in {"whole", "short"} :
              c = "whole" /\ objects' = [objects EXCEPT ![Target] = c]
        BY <2>1
    <2> QED
        BY <1>1, <2>1, <2>2, PutKeeps
<1>4. CASE SendCollides
    BY <1>4, EndKeeps DEF SendCollides, Fails, SameStore, store
<1>5. CASE SendIsLost
    <2>1. pc = "send" /\ damaged' = damaged /\ kind # "local"
        BY <1>5 DEF SendIsLost, Inv, RunInv
    <2>2. \/ objects' = objects
          \/ /\ Target \notin Present
             /\ \E c \in Received : objects' = [objects EXCEPT ![Target] = c]
        BY <1>5 DEF SendIsLost
    <2>3. \/ /\ tries + 1 < MaxAttempts /\ tries' = tries + 1
             /\ UNCHANGED <<kind, history, started, pc, at, retainVars, check>>
          \/ Ends /\ successful' = successful
        BY <1>5 DEF SendIsLost, Fails
    <2>4. tries + 1 < MaxAttempts => tries + 1 \in 0 .. MaxAttempts - 1
        BY <1>1, FlatAssumption
    <2>5. CASE objects' = objects
        <3>1. SameStore
            BY <2>1, <2>5 DEF SameStore
        <3>2. CASE Ends /\ successful' = successful
            BY <2>1, <3>1, <3>2, EndKeeps
        <3>3. CASE /\ tries + 1 < MaxAttempts /\ tries' = tries + 1
                   /\ UNCHANGED <<kind, history, started, pc, at, retainVars, check>>
            BY <2>1, <2>4, <2>5, <3>3, AttemptKeeps DEF store
        <3> QED
            BY <2>3, <3>2, <3>3
    <2>6. CASE /\ Target \notin Present
               /\ \E c \in Received : objects' = [objects EXCEPT ![Target] = c]
        <3>1. PICK c \in {"whole", "short"} : objects' = [objects EXCEPT ![Target] = c]
            BY <2>6 DEF Received
        <3>2. CASE Ends /\ successful' = successful
            <4>1. /\ pc' = "idle" /\ at' = 1 /\ kind' = kind /\ started' = started
                  /\ recorded' = recorded /\ check' = check /\ expired' = {}
                  /\ left' = {} /\ warned' = FALSE /\ tries' \in 0 .. MaxAttempts - 1
                BY <3>2, EndIs DEF Inv
            <4> QED
                BY <2>1, <2>6, <3>1, <3>2, <4>1, PutKeeps
        <3>3. CASE /\ tries + 1 < MaxAttempts /\ tries' = tries + 1
                   /\ UNCHANGED <<kind, history, started, pc, at, retainVars, check>>
            <4>1. /\ pc' = "send" /\ at' = at /\ kind' = kind /\ started' = started
                  /\ recorded' = recorded /\ check' = check /\ expired' = expired
                  /\ left' = left /\ warned' = warned /\ successful' = successful
                  /\ tries' \in 0 .. MaxAttempts - 1
                BY <2>1, <2>4, <3>3 DEF history, retainVars
            <4> QED
                BY <1>1, <2>1, <2>6, <3>1, <4>1, PutKeeps
        <3> QED
            BY <2>3, <3>2, <3>3
    <2> QED
        BY <2>2, <2>5, <2>6
<1> QED
    BY <1>2, <1>3, <1>4, <1>5

LEMMA InitFlat == Init => Inv /\ KeptSets = {}
<1> SUFFICES ASSUME Init PROVE Inv /\ KeptSets = {}
    OBVIOUS
<1>1. /\ kind \in Kinds /\ objects = [k \in Key |-> "absent"] /\ damaged = {}
      /\ successful = {} /\ recorded = [r \in Run |-> {}]
      /\ started = 0 /\ pc = "idle" /\ at = 1 /\ tries = 0
      /\ expired = {} /\ left = {} /\ warned = FALSE /\ check = NoCheck
    BY DEF Init
<1>2. NoCheck \in CheckType /\ 0 \in 0 .. MaxRun /\ 0 \in 0 .. MaxAttempts - 1
    BY FlatAssumption DEF NoCheck, CheckType
<1>3. TypeOK
    <2>1. objects \in [Key -> Content] /\ recorded \in [Run -> SUBSET Part]
        BY <1>1 DEF Content
    <2>2. at \in DOMAIN ObjectSeq
        BY <1>1, ObjectsAre
    <2> QED
        BY <1>1, <1>2, <2>1, <2>2 DEF TypeOK, CheckType
<1>4. Marked = {} /\ Completed = {} /\ KeptSets = {}
    BY <1>1, KeyIs DEF KeptSets, Completed, Complete, Marked, Present
<1>5. RunInv
    BY <1>1 DEF RunInv, Storing
<1>6. SetsInv /\ LocalInv
    BY <1>1, <1>4 DEF SetsInv, LocalInv, InFlight
<1>7. HistoryInv /\ RetainInv
    BY <1>1 DEF HistoryInv, RetainInv, FewSetsRemain
<1>8. CheckInv
    BY <1>1 DEF CheckInv, NoCheck
<1> QED
    BY <1>3, <1>4, <1>5, <1>6, <1>7, <1>8 DEF Inv

LEMMA NextFlat == Inv /\ [Next]_vars => Inv' /\ KeptStep
<1> SUFFICES ASSUME Inv, [Next]_vars PROVE Inv' /\ KeptStep
    OBVIOUS
<1>1. CASE Begin
    BY <1>1, BeginKeeps
<1>2. CASE Inspect \/ Verified \/ Sync
    BY <1>2, UploadGoesOn DEF Inspect, Verified, Sync, SameStore, store
<1>3. CASE InspectFails \/ PublishFails \/ SyncFails \/ RecordFails \/ Crash
    BY <1>3, EndKeeps
       DEF InspectFails, PublishFails, SyncFails, RecordFails, Crash, Fails, SameStore, store
<1>4. CASE Finish
    BY <1>4, EndKeeps DEF Finish, SameStore, store
<1>5. CASE Send \/ SendCollides \/ SendIsLost \/ Publish
    BY <1>5, SendKeeps
<1>6. CASE Unverified \/ Record
    BY <1>6, UnverifiedKeeps, RecordKeeps
<1>7. CASE RetainNext
    BY <1>7, ListKeeps, DeleteSetKeeps, DeleteObjectKeeps, WarnedKeeps, SetDeletedKeeps
       DEF RetainNext
<1>8. CASE CheckNext
    BY <1>8, CheckKeeps
<1>9. CASE Damage
    BY <1>9, DamageKeeps
<1>10. CASE UNCHANGED vars
    <2>1. /\ UNCHANGED <<kind, store, history, started, pc, at, retainVars>>
          /\ check' = check /\ tries' = tries
        BY <1>10 DEF vars, runVars
    <2>2. tries' \in 0 .. MaxAttempts - 1
        BY <2>1 DEF Inv, TypeOK
    <2> QED
        BY <2>1, <2>2, AttemptKeeps
<1> QED
    BY <1>1, <1>2, <1>3, <1>4, <1>5, <1>6, <1>7, <1>8, <1>9, <1>10 DEF Next, StoreNext

\* The destination, the history, the run and the check are always as Inv says.
THEOREM FlatStoreInvariance == Spec => []Inv
<1>1. Init => Inv
    BY InitFlat
<1>2. Inv /\ [Next]_vars => Inv'
    BY NextFlat
<1> QED
    BY <1>1, <1>2, PTL DEF Spec

\* Types of the destination (Store.put, Delete), its history and a check of it.
THEOREM FlatStoreTypes == Spec => []TypeOK
<1>1. Inv => TypeOK
    BY DEF Inv
<1> QED
    BY <1>1, FlatStoreInvariance, PTL

\* Whatever is displaced is so by complete sets.
LEMMA CompleteDisplace ==
    ASSUME NEW r \in Run, Displaced(r)
    PROVE  Cardinality(Newer(r, Completed)) >= KeepLast
<1>1. KeptSets \in SUBSET Run /\ Completed \in SUBSET Run /\ KeptSets \subseteq Completed
    BY KeptAre
<1>2. /\ Cardinality(Newer(r, KeptSets)) <= Cardinality(Newer(r, Completed))
      /\ Cardinality(Newer(r, KeptSets)) \in Nat
      /\ Cardinality(Newer(r, Completed)) \in Nat /\ KeepLast \in Nat
    BY <1>1, NewerGrows, FlatAssumption
<1> QED
    BY <1>2 DEF Displaced

\* A completion marker says that the set is complete (storeCompletionMarker,
\* ListBackupSets): of local sets always, of those of a bucket while they are
\* among the newest KeepLast.
THEOREM MarkersTellTheTruth == Spec => []MarkersNeverLie
<1>1. ASSUME Inv PROVE MarkersNeverLie
    <2> SUFFICES ASSUME NEW r \in Marked, NEW p \in Part,
                        kind = "local" \/ Cardinality(Newer(r, Completed)) < KeepLast
                 PROVE  Intact(<<r, p>>)
        BY DEF MarkersNeverLie
    <2>1. CASE kind = "local"
        BY <1>1, <2>1 DEF Inv, LocalInv
    <2>2. CASE Cardinality(Newer(r, Completed)) < KeepLast
        <3>1. r \in Run /\ recorded[r] = Part
            BY <1>1, KeptAre DEF Inv, SetsInv
        <3>2. Cardinality(Newer(r, Completed)) \in Nat /\ KeepLast \in Nat
            BY <3>1, KeptAre, NewerGrows, FlatAssumption
        <3>3. ~Displaced(r)
            BY <2>2, <3>1, <3>2, CompleteDisplace
        <3> QED
            BY <1>1, <3>1, <3>3 DEF Inv, HistoryInv
    <2> QED
        BY <2>1, <2>2
<1> QED
    BY <1>1, FlatStoreInvariance, PTL

\* What CreatePackage has put on record is stored, until KeepLast later sets are
\* complete.
THEOREM HistoryIsStored == Spec => []HistoryMatchesStorage
<1>1. ASSUME Inv PROVE HistoryMatchesStorage
    BY <1>1, CompleteDisplace DEF Inv, HistoryInv, HistoryMatchesStorage
<1> QED
    BY <1>1, FlatStoreInvariance, PTL

\* retention.Apply leaves KeepLast complete sets at most, or a warning.
THEOREM RetentionLeavesFew == Spec => []FewSetsRemain
<1>1. Inv => FewSetsRemain
    BY DEF Inv, RetainInv
<1> QED
    BY <1>1, FlatStoreInvariance, PTL

\* `backup check` of a destination whose storage document has no prefix alarms
\* only with a reason, and finds what was wrong when it began.
THEOREM VerdictsAreRight ==
    ASSUME Prefixed = FALSE
    PROVE  Spec => []CheckTellsTruth
<1>1. ASSUME Inv PROVE CheckTellsTruth
    <2>1. DamageIsFound
        BY <1>1 DEF Inv, CheckInv, DamageIsFound
    <2>2. AlarmsAreReal
        <3> SUFFICES ASSUME check.phase = "done", check.bad, check.run # 0, ~check.unsure,
                            ~(\E k \in damaged : k[1] = check.run)
                     PROVE  Cardinality(Newer(check.run, Completed)) >= KeepLast
            BY DEF AlarmsAreReal
        <3>1. check.run \in Run
            BY <1>1 DEF Inv, TypeOK, CheckInv
        <3>2. Displaced(check.run)
            BY <1>1 DEF Inv, CheckInv
        <3> QED
            BY <3>1, <3>2, CompleteDisplace
    <2> QED
        BY <2>1, <2>2 DEF CheckTellsTruth
<1> QED
    BY <1>1, FlatStoreInvariance, PTL

-----------------------------------------------------------------------------
(* Recovery points.                                                        *)

Point(r) == [tag |-> "site", time |-> r]
PointsOf(S) == {Point(r) : r \in S}

\* The newer recovery points are those of the newer sets, and as many.
LEMMA NewerPoints ==
    ASSUME NEW S \in SUBSET Run, NEW d \in Run
    PROVE  /\ Points!Newer(Point(d), PointsOf(S)) = PointsOf(Newer(d, S))
           /\ Cardinality(PointsOf(Newer(d, S))) = Cardinality(Newer(d, S))
<1>1. Points!Newer(Point(d), PointsOf(S)) = PointsOf(Newer(d, S))
    BY DEF Points!Newer, Point, PointsOf, Newer
<1>2. Cardinality(PointsOf(Newer(d, S))) = Cardinality(Newer(d, S))
    <2> DEFINE A == Newer(d, S)
               f == [r \in A |-> Point(r)]
    <2>1. IsFiniteSet(A)
        BY RunsAreFinite DEF Newer
    <2>2. f \in Bijection(A, PointsOf(A))
        BY DEF Bijection, Injection, Surjection, IsInjective, PointsOf, Point
    <2> QED
        BY <2>1, <2>2, FS_Bijection DEF ExistsBijection
<1> QED
    BY <1>1, <1>2

\* Cardinality means the same in either module.
LEMMA SameCardinality == \A S : Points!Cardinality(S) = Cardinality(S)
BY Zenon DEF Points!Cardinality, Cardinality

LEMMA StepIsPoints ==
    ASSUME KeptStep
    PROVE  [Points!PointsNext]_({[tag |-> "site", time |-> r] : r \in KeptSets})
<1> DEFINE points == PointsOf(KeptSets)
           pointsAfter == PointsOf(KeptSets')
<1>1. CASE KeptSets' = KeptSets
    BY <1>1
<1>2. CASE /\ \A r \in KeptSets : r < started
           /\ started \in Run /\ KeptSets' = KeptSets \cup {started}
    <2>1. PICK s \in Run : s = started
        BY <1>2
    <2>2. Point(s) \in pointsAfter /\ pointsAfter = points \cup {Point(s)}
        BY <1>2, <2>1 DEF PointsOf
    <2>3. \A t \in points : t.time < Point(s).time
        BY <1>2, <2>1 DEF PointsOf, Point
    <2>4. \E t \in pointsAfter :
              (\A u \in points : u.time < t.time) /\ pointsAfter = points \cup {t}
        BY <2>2, <2>3
    <2>5. Points!Add
        BY <2>4 DEF Points!Add, PointsOf, Point
    <2> QED
        BY <2>5 DEF Points!PointsNext
<1>3. ASSUME NEW d \in Run, Displaced(d), KeptSets' = KeptSets \ {d}, d \in KeptSets
      PROVE  Points!Drop
    <2>1. Point(d) \in points /\ pointsAfter = points \ {Point(d)}
        BY <1>3 DEF PointsOf, Point
    <2>2. KeptSets' \in SUBSET Run /\ Displaced(d)'
        BY <1>3, StaysDisplaced DEF KeptSets, Completed
    <2>3. Cardinality(Newer(d, KeptSets')) >= KeepLast
        BY <2>2 DEF Displaced
    <2>4. Cardinality(Points!Newer(Point(d), pointsAfter)) >= KeepLast
        BY <2>2, <2>3, NewerPoints
    <2>5. \E s \in points :
              pointsAfter = points \ {s}
              /\ Cardinality(Points!Newer(s, pointsAfter)) >= KeepLast
        BY <2>1, <2>4
    <2>6. \E s \in points :
              pointsAfter = points \ {s}
              /\ Points!Cardinality(Points!Newer(s, pointsAfter)) >= KeepLast
        BY <2>5, SameCardinality
    <2> QED
        BY <2>6 DEF Points!Drop, PointsOf, Point
<1>4. ASSUME NEW d \in Run, d \notin KeptSets, KeptSets' = KeptSets \ {d}
      PROVE  KeptSets' = KeptSets
    BY <1>4
<1> QED
    BY <1>1, <1>2, <1>3, <1>4 DEF KeptStep, Points!PointsNext

\* Complete sets are recovery points: a run adds the newest, and retention drops
\* one only while KeepLast newer ones are kept, object by object, whatever fails
\* (Store.put and Store.Delete implement RecoveryPoints).
THEOREM DestinationKeepsPoints == Spec => KeepsRecoveryPoints
<1>1. Init => Points!PointsInit
    BY InitFlat DEF Points!PointsInit
<1>2. Inv /\ [Next]_vars =>
          [Points!PointsNext]_({[tag |-> "site", time |-> r] : r \in KeptSets})
    BY NextFlat, StepIsPoints
<1> QED
    BY <1>1, <1>2, FlatStoreInvariance, PTL DEF Spec, KeepsRecoveryPoints, Points!PointsSpec
=============================================================================
