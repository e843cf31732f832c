------------------------ MODULE ArchiveRestoreProofs ------------------------
(***************************************************************************)
(* Proofs about ArchiveRestore, for any directory and contents, whichever  *)
(* entries change and whenever they do, whatever cannot be read, and       *)
(* wherever a backup or a restore fails.                                   *)
(*                                                                         *)
(* What a snapshot says of an entry is right as long as the entry has the  *)
(* stamp the snapshot has: every tree the archiver has ever made is honest *)
(* in that sense, although some of its nodes were read while the entry     *)
(* changed.  A walk leaves no entry out that was there when it began and   *)
(* has not changed since.                                                  *)
(***************************************************************************)
EXTENDS ArchiveRestore, FiniteSetTheorems, WellFoundedInduction, TLAPS

\* A node that has the stamp of its entry has its contents, and no node is from
\* the future.
Honest(tree) ==
    \A n \in DOMAIN tree :
        /\ tree[n].stamp <= source[n].stamp
        /\ tree[n].stamp = source[n].stamp => tree[n].content = source[n].content

\* Of an entry unchanged since b, a tree has what it is, and leaves out only what
\* does not exist or is in the given set.
Current(tree, out, b) ==
    \A n \in Name : source[n].stamp <= b =>
        /\ n \in DOMAIN tree => tree[n].stamp = source[n].stamp
        /\ Exists(n) => n \in DOMAIN tree \cup out

Stamps == \A n \in Name : source[n].stamp <= clock

WalkInv ==
    /\ began <= clock
    /\ Honest(old) /\ Honest(nodes)
    /\ wpc = "idle" => nodes = NoNodes /\ skipped = {}
    /\ wpc # "idle" => Current(nodes, skipped \cup todo, began)
    /\ wpc = "read" =>
          /\ todo # {} /\ info <= source[Next1].stamp
          /\ source[Next1].stamp <= began => info = source[Next1].stamp
    /\ unmodified =>
          skipped = {} /\ \A n \in DOMAIN nodes : n \in DOMAIN old /\ nodes[n] = old[n]

LatestInv ==
    latest # None =>
        /\ latest.began <= clock
        /\ Honest(latest.tree)
        /\ Current(latest.tree, latest.skipped, latest.began)

\* The restore works on the newest snapshot; what is not staged is in place.
Missing == {n \in replaced : target[n] = Gone}
InPlace ==
    \A n \in Name \ touched :
        /\ n \in DOMAIN snap.tree \ staged => target[n] = snap.tree[n].content
        /\ n \notin DOMAIN snap.tree => target[n] \in {Gone, Foreign}

MoveInv ==
    /\ rpc # "idle" => snap = latest /\ latest # None /\ staged \subseteq DOMAIN snap.tree
    /\ rpc \in {"idle", "open"} => conflicts = {}
    /\ rpc \in {"idle", "open", "confirm"} => replaced = {}
    /\ rpc = "idle" => \A n \in Name : target[n] \in {Gone, Foreign}
    /\ rpc = "idle" => touched = {}
    /\ rpc \in {"open", "confirm"} => staged = DOMAIN snap.tree
    /\ rpc \in {"confirm", "move", "rename"} =>
          staged \cap InTarget \subseteq conflicts \cup late
    /\ rpc = "move" /\ ~merged => staged = DOMAIN snap.tree
    /\ rpc = "rename" => merged /\ staged # {}
    /\ ~merged => replaced = {}
    /\ rpc \in {"open", "confirm", "move", "rename", "done"} => InPlace
    /\ rpc = "done" => staged = {}
    /\ rpc \in {"move", "done"} => Missing = {}
    /\ rpc = "rename" => Missing \subseteq {First(staged)}
    /\ \E n \in Name \cup {Gone} : Missing \subseteq {n}

Inv ==
    /\ TypeOK
    /\ Stamps
    /\ WalkInv
    /\ LatestInv
    /\ MoveInv
    /\ OnlyConfirmedReplaced
-----------------------------------------------------------------------------
(* Trees, and the least of a set of names.                                 *)

LEMMA Least ==
    ASSUME NEW S, S \subseteq Name, S # {}
    PROVE  \E n \in S : \A m \in S : n <= m
<1> DEFINE Below(x) == {y \in S : y <= x}
           T == {Below(x) : x \in S}
<1>1. S \subseteq Nat /\ IsFiniteSet(S)
    BY WalkAssumption, FS_Subset
<1>2. T \subseteq FiniteSubsetsOf(S)
    <2> SUFFICES ASSUME NEW x \in S PROVE Below(x) \in FiniteSubsetsOf(S)
        OBVIOUS
    <2>1. Below(x) \in SUBSET S /\ IsFiniteSet(Below(x))
        BY <1>1, FS_Subset
    <2> QED
        BY <2>1 DEF FiniteSubsetsOf
<1>3. T # {}
    OBVIOUS
<1>4. PICK A \in T : \A B \in T : <<B, A>> \notin StrictSubsetOrdering(S)
    <2> HIDE DEF T
    <2>1. IsWellFoundedOn(StrictSubsetOrdering(S), FiniteSubsetsOf(S))
        BY FS_StrictSubsetOrderingWellFounded
    <2> QED
        BY <1>2, <1>3, <2>1, WFMin
<1>5. PICK x \in S : A = Below(x)
    OBVIOUS
<1>6. ASSUME NEW y \in S, ~(x <= y)
      PROVE  FALSE
    <2>1. x \in Nat /\ y \in Nat /\ y < x /\ \A z \in S : z \in Nat
        BY <1>1, <1>6
    <2>2. x \in Below(x) /\ x \notin Below(y)
        BY <2>1
    <2>3. ASSUME NEW z \in Below(y) PROVE z \in Below(x)
        BY <2>1
    <2>4. Below(y) \in T /\ Below(y) \in SUBSET S /\ A \in SUBSET S
        BY <1>5
    <2>5. Below(y) \subseteq A /\ Below(y) # A
        BY <1>5, <2>2, <2>3
    <2>6. <<Below(y), A>> \in StrictSubsetOrdering(S)
        BY <2>4, <2>5 DEF StrictSubsetOrdering
    <2> QED
        BY <1>4, <2>4, <2>6
<1> QED
    BY <1>6

LEMMA Next1InTodo ==
    ASSUME todo \subseteq Name, todo # {}
    PROVE  Next1 \in todo
BY Least DEF Next1

LEMMA FirstIsStaged ==
    ASSUME NEW S, S \subseteq Name, S # {}
    PROVE  First(S) \in S
BY Least DEF First

LEMMA TreeIs ==
    ASSUME NEW tree \in Tree
    PROVE  /\ DOMAIN tree \subseteq Name
           /\ tree \in [DOMAIN tree -> Node]
           /\ \A n \in DOMAIN tree : tree[n].stamp \in Stamp /\ tree[n].content \in Data
<1>1. PICK S \in SUBSET Name : tree \in [S -> Node]
    BY DEF Tree
<1>2. \A n \in S : tree[n] \in Node
    BY <1>1
<1> QED
    BY <1>1, <1>2 DEF Node

LEMMA IsTree ==
    ASSUME NEW S \in SUBSET Name, NEW tree \in [S -> Node]
    PROVE  tree \in Tree
BY DEF Tree

LEMMA NoNodesIsTree == NoNodes \in Tree /\ DOMAIN NoNodes = {}
<1>1. NoNodes \in [{} -> Node] /\ DOMAIN NoNodes = {}
    BY DEF NoNodes
<1> QED
    BY <1>1, IsTree

LEMMA WithNodeIs ==
    ASSUME NEW tree \in Tree, NEW n \in Name, NEW node \in Node
    PROVE  /\ WithNode(tree, n, node) \in Tree
           /\ DOMAIN WithNode(tree, n, node) = DOMAIN tree \cup {n}
           /\ WithNode(tree, n, node)[n] = node
           /\ \A m \in DOMAIN tree : m # n => WithNode(tree, n, node)[m] = tree[m]
<1>1. DOMAIN tree \cup {n} \in SUBSET Name /\ \A m \in DOMAIN tree : tree[m] \in Node
    BY TreeIs
<1>2. WithNode(tree, n, node) \in [DOMAIN tree \cup {n} -> Node]
    BY <1>1 DEF WithNode
<1>3. WithNode(tree, n, node) \in Tree
    BY <1>1, <1>2, IsTree
<1> QED
    BY <1>3 DEF WithNode

-----------------------------------------------------------------------------
(* The walk.                                                               *)

\* What Inv says of the directory and the archiver.
SourceOK == ArchiveTypeOK /\ Stamps /\ WalkInv /\ LatestInv

\* The types that the arithmetic needs.
LEMMA SourceTypes ==
    ASSUME ArchiveTypeOK
    PROVE  /\ clock \in Nat /\ began \in Nat /\ info \in Nat
           /\ \A n \in Name : source[n].stamp \in Nat
                              /\ source[n].content \in Content \cup {Gone}
           /\ \A n \in DOMAIN old : n \in Name /\ old[n].stamp \in Nat
           /\ \A n \in DOMAIN nodes : n \in Name /\ nodes[n].stamp \in Nat
           /\ latest # None => latest \in SnapshotType /\ latest.began \in Nat
                               /\ latest.tree \in Tree
<1>1. Stamp \subseteq Nat
    BY WalkAssumption DEF Stamp
<1>2. /\ old \in Tree /\ nodes \in Tree
      /\ latest # None => latest \in SnapshotType
    BY DEF ArchiveTypeOK
<1>3. /\ \A n \in DOMAIN old : n \in Name /\ old[n].stamp \in Nat
      /\ \A n \in DOMAIN nodes : n \in Name /\ nodes[n].stamp \in Nat
    BY <1>1, <1>2, TreeIs
<1>4. latest # None => latest.began \in Nat /\ latest.tree \in Tree
    BY <1>1, <1>2 DEF SnapshotType
<1>5. \A n \in Name : source[n].stamp \in Nat /\ source[n].content \in Content \cup {Gone}
    BY <1>1 DEF ArchiveTypeOK
<1> QED
    BY <1>1, <1>2, <1>3, <1>4, <1>5 DEF ArchiveTypeOK

LEMMA ChangeKeepsSource ==
    ASSUME SourceOK, NEW n \in Name, Change(n)
    PROVE  SourceOK'
<1>1. /\ clock < MaxClock /\ clock' = clock + 1 /\ latest' = latest
      /\ wpc' = wpc /\ began' = began /\ old' = old /\ todo' = todo /\ info' = info
      /\ nodes' = nodes /\ unmodified' = unmodified /\ skipped' = skipped
    BY DEF Change, walkVars
<1>2. PICK c \in Content \cup {Gone} :
          source' = [source EXCEPT ![n] = [stamp |-> clock + 1, content |-> c]]
    BY DEF Change
<1>3. /\ source \in [Name -> [stamp : Stamp, content : Content \cup {Gone}]]
      /\ clock \in Stamp
    BY DEF SourceOK, ArchiveTypeOK
<1>4. clock + 1 \in Stamp
    BY <1>1, <1>3, WalkAssumption DEF Stamp
<1>5. /\ source' \in [Name -> [stamp : Stamp, content : Content \cup {Gone}]]
      /\ source'[n].stamp = clock + 1
      /\ \A m \in Name : m # n => source'[m] = source[m]
    BY <1>2, <1>3, <1>4
<1>6. ArchiveTypeOK'
    BY <1>1, <1>4, <1>5 DEF SourceOK, ArchiveTypeOK
<1>7. /\ clock \in Nat /\ began \in Nat
      /\ \A m \in Name : source[m].stamp \in Nat /\ source[m].stamp <= clock
    BY SourceTypes DEF SourceOK, Stamps
<1>8. Stamps'
    BY <1>1, <1>5, <1>7 DEF Stamps
<1>9. ASSUME NEW tree, Honest(tree),
             \A m \in DOMAIN tree : m \in Name /\ tree[m].stamp \in Nat
      PROVE  Honest(tree)'
    <2> SUFFICES ASSUME NEW m \in DOMAIN tree
                 PROVE  /\ tree[m].stamp <= source'[m].stamp
                        /\ tree[m].stamp = source'[m].stamp =>
                              tree[m].content = source'[m].content
        BY DEF Honest
    <2>1. tree[m].stamp <= source[m].stamp /\ m \in Name /\ tree[m].stamp \in Nat
        BY <1>9 DEF Honest
    <2>2. CASE m = n
        BY <1>5, <1>7, <2>1, <2>2
    <2>3. CASE m # n
        BY <1>5, <1>9, <2>1, <2>3 DEF Honest
    <2> QED
        BY <2>2, <2>3
<1>10. ASSUME NEW tree, NEW out, NEW b \in Nat, b <= clock, Current(tree, out, b)
       PROVE  Current(tree, out, b)'
    <2> SUFFICES ASSUME NEW m \in Name, source'[m].stamp <= b
                 PROVE  /\ m \in DOMAIN tree => tree[m].stamp = source'[m].stamp
                        /\ Exists(m)' => m \in DOMAIN tree \cup out
        BY DEF Current
    <2>1. m # n
        BY <1>5, <1>7, <1>10
    <2> QED
        BY <1>5, <1>10, <2>1 DEF Current, Exists
<1>11. WalkInv'
    <2>1. Honest(old)' /\ Honest(nodes)'
        <3>1. Honest(old) /\ Honest(nodes)
            BY DEF SourceOK, WalkInv
        <3>2. /\ \A m \in DOMAIN old : m \in Name /\ old[m].stamp \in Nat
              /\ \A m \in DOMAIN nodes : m \in Name /\ nodes[m].stamp \in Nat
            BY SourceTypes DEF SourceOK
        <3> QED
            BY <1>1, <1>9, <3>1, <3>2
    <2>2. wpc # "idle" => Current(nodes, skipped \cup todo, began)'
        <3>1. SUFFICES ASSUME wpc # "idle" PROVE Current(nodes, skipped \cup todo, began)'
            OBVIOUS
        <3>2. Current(nodes, skipped \cup todo, began) /\ began <= clock
            BY <3>1 DEF SourceOK, WalkInv
        <3>3. PICK x, y, z : x = nodes /\ y = skipped \cup todo /\ z = began
            OBVIOUS
        <3>4. Current(x, y, z)'
            BY <1>7, <1>10, <3>2, <3>3
        <3> QED
            BY <1>1, <3>3, <3>4 DEF Current
    <2>3. wpc = "read" =>
              /\ todo # {} /\ info <= source'[Next1].stamp
              /\ source'[Next1].stamp <= began => info = source'[Next1].stamp
        <3> SUFFICES ASSUME wpc = "read"
                     PROVE  /\ todo # {} /\ info <= source'[Next1].stamp
                            /\ source'[Next1].stamp <= began => info = source'[Next1].stamp
            OBVIOUS
        <3>1. /\ todo # {} /\ info <= source[Next1].stamp /\ began <= clock
              /\ source[Next1].stamp <= began => info = source[Next1].stamp
            BY DEF SourceOK, WalkInv
        <3>2. Next1 \in Name
            BY <3>1, Next1InTodo DEF SourceOK, ArchiveTypeOK
        <3>3. info \in Nat
            BY SourceTypes DEF SourceOK
        <3>4. CASE Next1 = n
            BY <1>5, <1>7, <3>1, <3>2, <3>3, <3>4
        <3>5. CASE Next1 # n
            BY <1>5, <3>1, <3>2, <3>5
        <3> QED
            BY <3>4, <3>5
    <2>4. Next1' = Next1
        BY <1>1 DEF Next1
    <2> QED
        BY <1>1, <1>7, <2>1, <2>2, <2>3, <2>4 DEF SourceOK, WalkInv
<1>12. LatestInv'
    <2> SUFFICES ASSUME latest # None
                 PROVE  /\ latest.began <= clock + 1
                        /\ Honest(latest.tree)'
                        /\ Current(latest.tree, latest.skipped, latest.began)'
        BY <1>1 DEF LatestInv
    <2>1. /\ latest.began <= clock /\ Honest(latest.tree)
          /\ Current(latest.tree, latest.skipped, latest.began)
        BY DEF SourceOK, LatestInv
    <2>2. latest.began \in Nat /\ latest.tree \in Tree
        BY SourceTypes DEF SourceOK
    <2>3. PICK x, y, z : x = latest.tree /\ y = latest.skipped /\ z = latest.began
        OBVIOUS
    <2>4. \A m \in DOMAIN x : m \in Name /\ x[m].stamp \in Nat
        BY <2>2, <2>3, TreeIs, WalkAssumption DEF Stamp
    <2>5. Honest(x)' /\ Current(x, y, z)'
        BY <1>9, <1>10, <2>1, <2>2, <2>3, <2>4
    <2>6. Honest(latest.tree)' /\ Current(latest.tree, latest.skipped, latest.began)'
        BY <1>1, <2>3, <2>5 DEF Honest, Current
    <2> QED
        BY <1>7, <2>1, <2>2, <2>6
<1> QED
    BY <1>6, <1>8, <1>11, <1>12 DEF SourceOK

\* The directory and the newest snapshot stay as they are.
LEMMA SourceStays ==
    ASSUME SourceOK, source' = source, clock' = clock, latest' = latest
    PROVE  Stamps' /\ LatestInv'
<1>1. Stamps'
    BY DEF SourceOK, Stamps
<1>2. LatestInv'
    BY DEF SourceOK, LatestInv, Honest, Current, Exists
<1> QED
    BY <1>1, <1>2

LEMMA BeginKeepsSource ==
    ASSUME SourceOK, BeginWalk
    PROVE  SourceOK'
<1>1. /\ wpc' = "visit" /\ began' = clock /\ todo' = Existing
      /\ old' = (IF latest = None THEN NoNodes ELSE latest.tree) \/ old' = NoNodes
      /\ wpc = "idle" /\ source' = source /\ clock' = clock /\ latest' = latest
      /\ info' = info /\ nodes' = nodes /\ unmodified' = unmodified /\ skipped' = skipped
    BY DEF BeginWalk
<1>2. old' \in Tree
    BY <1>1, NoNodesIsTree, SourceTypes DEF SourceOK
<1>3. ArchiveTypeOK'
    BY <1>1, <1>2 DEF SourceOK, ArchiveTypeOK, Existing
<1>4. Honest(old)'
    <2>1. CASE old' = NoNodes
        BY <2>1, NoNodesIsTree DEF Honest
    <2>2. CASE latest # None /\ old' = latest.tree
        BY <1>1, <2>2 DEF SourceOK, LatestInv, Honest
    <2> QED
        BY <1>1, <2>1, <2>2
<1>5. nodes = NoNodes /\ DOMAIN nodes = {} /\ skipped = {}
    BY <1>1, NoNodesIsTree DEF SourceOK, WalkInv
<1>6. Current(nodes, skipped \cup todo, began)'
    BY <1>1, <1>5 DEF Current, Existing, Exists
<1>7. WalkInv'
    <2>1. clock \in Nat
        BY SourceTypes DEF SourceOK
    <2> QED
        BY <1>1, <1>4, <1>5, <1>6, <2>1 DEF WalkInv, Honest
<1> QED
    BY <1>1, <1>3, <1>7, SourceStays DEF SourceOK

\* The next entry is kept as a node that has its stamp if nothing changed it since
\* the walk began.
LEMMA KeepKeepsSource ==
    ASSUME SourceOK, wpc # "idle", todo # {}, NEW node \in Node, NEW same \in BOOLEAN,
           Keep(Next1, node, same),
           node.stamp <= source[Next1].stamp,
           node.stamp = source[Next1].stamp => node.content = source[Next1].content,
           source[Next1].stamp <= began => node.stamp = source[Next1].stamp,
           same => Next1 \in DOMAIN old /\ node = old[Next1]
    PROVE  SourceOK'
<1> DEFINE n == Next1
<1>1. /\ nodes' = WithNode(nodes, n, node) /\ unmodified' = (unmodified /\ same)
      /\ todo' = todo \ {n} /\ wpc' = "visit" /\ info' = 0
      /\ source' = source /\ clock' = clock /\ latest' = latest
      /\ began' = began /\ old' = old /\ skipped' = skipped
    BY DEF Keep
<1>2. n \in todo /\ n \in Name
    BY Next1InTodo DEF SourceOK, ArchiveTypeOK
<1>3. nodes \in Tree
    BY DEF SourceOK, ArchiveTypeOK
<1>4. /\ nodes' \in Tree /\ DOMAIN nodes' = DOMAIN nodes \cup {n} /\ nodes'[n] = node
      /\ \A m \in DOMAIN nodes : m # n => nodes'[m] = nodes[m]
    BY <1>1, <1>2, <1>3, WithNodeIs
<1>5. ArchiveTypeOK'
    <2>1. 0 \in Stamp
        BY WalkAssumption DEF Stamp
    <2>2. unmodified' \in BOOLEAN
        BY <1>1 DEF SourceOK, ArchiveTypeOK
    <2>3. todo' \subseteq Name
        BY <1>1 DEF SourceOK, ArchiveTypeOK
    <2> QED
        BY <1>1, <1>4, <2>1, <2>2, <2>3 DEF SourceOK, ArchiveTypeOK
<1>6. /\ began <= clock /\ Honest(old) /\ Honest(nodes)
      /\ Current(nodes, skipped \cup todo, began)
      /\ unmodified => skipped = {} /\
            \A m \in DOMAIN nodes : m \in DOMAIN old /\ nodes[m] = old[m]
    BY DEF SourceOK, WalkInv
<1>7. Honest(nodes)'
    BY <1>1, <1>4, <1>6 DEF Honest
<1>8. Current(nodes, skipped \cup todo, began)'
    BY <1>1, <1>4, <1>6 DEF Current, Exists
<1>9. Honest(old)'
    BY <1>1, <1>6 DEF Honest
<1>10. WalkInv'
    BY <1>1, <1>4, <1>6, <1>7, <1>8, <1>9 DEF WalkInv
<1> QED
    BY <1>1, <1>5, <1>10, SourceStays DEF SourceOK

LEMMA SkipKeepsSource ==
    ASSUME SourceOK, wpc # "idle", todo # {}, Skip(Next1)
    PROVE  SourceOK'
<1> DEFINE n == Next1
<1>1. /\ skipped' = skipped \cup {n} /\ unmodified' = FALSE
      /\ todo' = todo \ {n} /\ wpc' = "visit" /\ info' = 0
      /\ source' = source /\ clock' = clock /\ latest' = latest
      /\ began' = began /\ old' = old /\ nodes' = nodes
    BY DEF Skip
<1>2. n \in todo /\ n \in Name
    BY Next1InTodo DEF SourceOK, ArchiveTypeOK
<1>3. ArchiveTypeOK'
    <2>1. 0 \in Stamp
        BY WalkAssumption DEF Stamp
    <2>2. skipped' \subseteq Name /\ todo' \subseteq Name
        BY <1>1, <1>2 DEF SourceOK, ArchiveTypeOK
    <2> QED
        BY <1>1, <2>1, <2>2 DEF SourceOK, ArchiveTypeOK
<1>4. /\ began <= clock /\ Honest(old) /\ Honest(nodes)
      /\ Current(nodes, skipped \cup todo, began)
    BY DEF SourceOK, WalkInv
<1>5. skipped' \cup todo' = skipped \cup todo
    BY <1>1, <1>2
<1>6. Current(nodes, skipped \cup todo, began)'
    BY <1>1, <1>4, <1>5 DEF Current, Exists
<1>7. WalkInv'
    BY <1>1, <1>4, <1>6 DEF WalkInv, Honest
<1> QED
    BY <1>1, <1>3, <1>7, SourceStays DEF SourceOK

LEMMA VisitKeepsSource ==
    ASSUME SourceOK, VisitUnmodified \/ VisitModified \/ VisitSkips
    PROVE  SourceOK'
<1>1. wpc = "visit" /\ todo # {}
    BY DEF VisitUnmodified, VisitModified, VisitSkips
<1>2. Next1 \in todo /\ Next1 \in Name
    BY <1>1, Next1InTodo DEF SourceOK, ArchiveTypeOK
<1>3. source[Next1].stamp \in Nat /\ source[Next1].stamp \in Stamp
    BY <1>2, SourceTypes DEF SourceOK, ArchiveTypeOK
<1>4. CASE VisitUnmodified
    <2>1. /\ Next1 \in DOMAIN old /\ old[Next1].stamp = source[Next1].stamp
          /\ Keep(Next1, old[Next1], TRUE)
        BY <1>4 DEF VisitUnmodified, SameMetadata
    <2>2. old[Next1] \in Node
        BY <2>1, TreeIs DEF SourceOK, ArchiveTypeOK
    <2>3. old[Next1].content = source[Next1].content
        BY <2>1 DEF SourceOK, WalkInv, Honest
    <2>4. PICK node \in Node : node = old[Next1]
        BY <2>2
    <2>5. /\ node.stamp <= source[Next1].stamp
          /\ node.stamp = source[Next1].stamp /\ node.content = source[Next1].content
        BY <1>3, <2>1, <2>3, <2>4
    <2>6. Keep(Next1, node, TRUE)
        BY <2>1, <2>4, Zenon
    <2> QED
        BY <1>1, <2>1, <2>4, <2>5, <2>6, KeepKeepsSource
<1>5. CASE VisitModified
    <2>1. /\ info' = source[Next1].stamp /\ wpc' = "read"
          /\ source' = source /\ clock' = clock /\ latest' = latest
          /\ began' = began /\ old' = old /\ todo' = todo /\ nodes' = nodes
          /\ unmodified' = unmodified /\ skipped' = skipped
        BY <1>5 DEF VisitModified
    <2>2. ArchiveTypeOK'
        BY <1>3, <2>1 DEF SourceOK, ArchiveTypeOK
    <2>3. Next1' = Next1
        BY <2>1 DEF Next1
    <2>4. Current(nodes, skipped \cup todo, began)'
        BY <1>1, <2>1 DEF SourceOK, WalkInv, Current, Exists
    <2>5. WalkInv'
        BY <1>1, <1>3, <2>1, <2>3, <2>4 DEF SourceOK, WalkInv, Honest
    <2> QED
        BY <2>1, <2>2, <2>5, SourceStays DEF SourceOK
<1>6. CASE VisitSkips
    BY <1>1, <1>6, SkipKeepsSource DEF VisitSkips
<1> QED
    BY <1>4, <1>5, <1>6

\* What is read of an entry is what it holds, unless it has changed since Lstat,
\* and then it has another stamp.
LEMMA ReadKeepsSource ==
    ASSUME SourceOK, Read \/ ReadSkips
    PROVE  SourceOK'
<1>1. wpc = "read"
    BY DEF Read, ReadSkips
<1>2. /\ todo # {} /\ info <= source[Next1].stamp
      /\ source[Next1].stamp <= began => info = source[Next1].stamp
    BY <1>1 DEF SourceOK, WalkInv
<1>3. Next1 \in Name
    BY <1>2, Next1InTodo DEF SourceOK, ArchiveTypeOK
<1>4. CASE Read
    <2>1. PICK c \in {source[Next1].content} \cup
                     (IF source[Next1].stamp # info THEN {Torn} ELSE {}) :
              Keep(Next1, [stamp |-> info, content |-> c], FALSE)
        BY <1>4 DEF Read, Metadata
    <2>2. [stamp |-> info, content |-> c] \in Node
        <3>1. source[Next1].content \in Content
            BY <1>3, <1>4 DEF Read, Exists, SourceOK, ArchiveTypeOK
        <3>2. c \in Data
            BY <2>1, <3>1 DEF Data
        <3> QED
            BY <3>2 DEF Node, SourceOK, ArchiveTypeOK
    <2> DEFINE node == [stamp |-> info, content |-> c]
    <2>3. /\ node.stamp = info
          /\ node.stamp = source[Next1].stamp => node.content = source[Next1].content
        BY <2>1
    <2> HIDE DEF node
    <2>4. node \in Node /\ Keep(Next1, node, FALSE)
        BY <2>1, <2>2 DEF node
    <2> QED
        BY <1>1, <1>2, <2>3, <2>4, KeepKeepsSource
<1>5. CASE ReadSkips
    BY <1>1, <1>2, <1>5, SkipKeepsSource DEF ReadSkips
<1> QED
    BY <1>4, <1>5

\* The walk's state is forgotten.
LEMMA LeaveKeepsWalk ==
    ASSUME SourceOK, Leave
    PROVE  WalkInv'
<1>1. /\ wpc' = "idle" /\ began' = 0 /\ old' = NoNodes /\ todo' = {} /\ info' = 0
      /\ nodes' = NoNodes /\ unmodified' = TRUE /\ skipped' = {} /\ clock' = clock
    BY DEF Leave
<1>2. clock \in Nat
    BY SourceTypes DEF SourceOK
<1>3. Honest(old)' /\ Honest(nodes)'
    BY <1>1, NoNodesIsTree DEF Honest
<1> QED
    BY <1>1, <1>2, <1>3, NoNodesIsTree DEF WalkInv

\* A tree that is unmodified is the parent's, so either of them may be taken.
LEMMA UnmodifiedIsOld ==
    ASSUME SourceOK, Unmodified
    PROVE  old = nodes
<1>1. /\ DOMAIN old = DOMAIN nodes
      /\ \A m \in DOMAIN nodes : nodes[m] = old[m]
    BY DEF SourceOK, WalkInv, Unmodified
<1>2. old \in [DOMAIN old -> Node] /\ nodes \in [DOMAIN nodes -> Node]
    BY TreeIs DEF SourceOK, ArchiveTypeOK
<1> QED
    BY <1>1, <1>2

LEMMA LeaveKeepsType ==
    ASSUME ArchiveTypeOK, Leave, latest' \in SnapshotType \cup {None}
    PROVE  ArchiveTypeOK'
BY NoNodesIsTree, WalkAssumption DEF ArchiveTypeOK, Leave, Stamp

LEMMA SnapshotKeepsSource ==
    ASSUME SourceOK, Snapshot \/ AbortWalk
    PROVE  SourceOK'
<1>1. Leave /\ source' = source /\ clock' = clock
    BY DEF Snapshot, AbortWalk, Leave
<1>2. CASE Snapshot
    <2>1. /\ wpc = "visit" /\ todo = {}
          /\ latest' = [tree |-> nodes, skipped |-> skipped, began |-> began]
        BY <1>2, UnmodifiedIsOld DEF Snapshot
    <2>2. latest' \in SnapshotType
        BY <2>1 DEF SnapshotType, SourceOK, ArchiveTypeOK
    <2>3. /\ latest'.tree = nodes /\ latest'.skipped = skipped /\ latest'.began = began
        BY <2>1
    <2>4. Honest(nodes) /\ Current(nodes, skipped, began) /\ began <= clock
        <3>1. skipped \cup todo = skipped
            BY <2>1
        <3> QED
            BY <2>1, <3>1 DEF SourceOK, WalkInv
    <2>5. LatestInv'
        BY <1>1, <2>3, <2>4 DEF LatestInv, Honest, Current, Exists
    <2>6. Stamps'
        BY <1>1 DEF SourceOK, Stamps
    <2> QED
        BY <1>1, <2>2, <2>5, <2>6, LeaveKeepsType, LeaveKeepsWalk DEF SourceOK
<1>3. CASE AbortWalk
    <2>1. latest' = latest /\ latest \in SnapshotType \cup {None}
        BY <1>3 DEF AbortWalk, SourceOK, ArchiveTypeOK
    <2> QED
        BY <1>1, <2>1, SourceStays, LeaveKeepsType, LeaveKeepsWalk DEF SourceOK
<1> QED
    BY <1>2, <1>3

LEMMA WalkKeepsSource ==
    ASSUME SourceOK, WalkStep
    PROVE  SourceOK'
BY BeginKeepsSource, VisitKeepsSource, ReadKeepsSource, SnapshotKeepsSource DEF WalkStep

LEMMA InitSource == ArchiveInit => SourceOK
<1> SUFFICES ASSUME ArchiveInit PROVE SourceOK
    OBVIOUS
<1>1. 0 \in Stamp /\ 0 \in Nat
    BY WalkAssumption DEF Stamp
<1>2. ArchiveTypeOK
    BY <1>1, NoNodesIsTree DEF ArchiveInit, ArchiveTypeOK
<1>3. Stamps /\ LatestInv
    BY DEF ArchiveInit, Stamps, LatestInv
<1>4. WalkInv
    BY NoNodesIsTree DEF ArchiveInit, WalkInv, Honest
<1> QED
    BY <1>2, <1>3, <1>4 DEF SourceOK
-----------------------------------------------------------------------------
(* The restore.                                                            *)

RestoreOK == RestoreTypeOK /\ MoveInv /\ OnlyConfirmedReplaced

\* What is restored: a tree of contents, none of which stands for no entry.
LEMMA SnapIs ==
    ASSUME ArchiveTypeOK, latest # None
    PROVE  /\ latest \in SnapshotType /\ latest.tree \in Tree
           /\ DOMAIN latest.tree \subseteq Name
           /\ \A n \in DOMAIN latest.tree :
                 latest.tree[n].content \in Data /\ latest.tree[n].content # Gone
<1>1. latest \in SnapshotType
    BY DEF ArchiveTypeOK
<1>2. latest.tree \in Tree
    BY <1>1 DEF SnapshotType
<1>3. Gone \notin Data
    BY WalkAssumption DEF Data
<1> QED
    BY <1>1, <1>2, <1>3, TreeIs

\* While the restore runs, it is the newest snapshot's tree.
LEMMA SnapIsLatest ==
    ASSUME ArchiveTypeOK, RestoreOK, rpc # "idle"
    PROVE  /\ snap = latest /\ snap.tree \in Tree /\ staged \subseteq DOMAIN snap.tree
           /\ DOMAIN snap.tree \subseteq Name
           /\ \A n \in DOMAIN snap.tree :
                 snap.tree[n].content \in Data /\ snap.tree[n].content # Gone
<1>1. snap = latest /\ latest # None /\ staged \subseteq DOMAIN snap.tree
    BY DEF RestoreOK, MoveInv
<1> QED
    BY <1>1, SnapIs

LEMMA StageKeepsRestore ==
    ASSUME SourceOK, RestoreOK, Stage, latest' = latest
    PROVE  RestoreOK'
<1>1. /\ rpc = "idle" /\ latest # None /\ snap' = latest
      /\ staged' = DOMAIN latest.tree /\ rpc' = "open" /\ target' = target
      /\ exists' = exists /\ conflicts' = conflicts /\ merged' = merged
      /\ replaced' = replaced /\ touched' = touched /\ late' = late
    BY DEF Stage
<1>2. latest \in SnapshotType /\ DOMAIN latest.tree \subseteq Name
    BY <1>1, SnapIs DEF SourceOK
<1>3. RestoreTypeOK'
    BY <1>1, <1>2 DEF RestoreOK, RestoreTypeOK
<1>4. replaced = {} /\ conflicts = {} /\ \A n \in Name : target[n] \in {Gone, Foreign}
    BY <1>1 DEF RestoreOK, MoveInv
<1>5. InPlace' /\ Missing' = {}
    BY <1>1, <1>4 DEF InPlace, Missing
<1>6. MoveInv'
    BY <1>1, <1>4, <1>5 DEF MoveInv
<1> QED
    BY <1>1, <1>3, <1>4, <1>6 DEF RestoreOK, OnlyConfirmedReplaced

\* Giving up leaves the target as it is.
LEMMA GivesUpKeepsRestore ==
    ASSUME RestoreOK, rpc # "idle", GivesUp, latest' = latest,
           target' = target, exists' = exists, replaced' = replaced
    PROVE  RestoreOK'
<1>1. /\ rpc' = "failed" /\ staged' = {} /\ snap' = snap
      /\ conflicts' = conflicts /\ merged' = merged /\ touched' = touched /\ late' = late
    BY DEF GivesUp
<1>2. RestoreTypeOK'
    BY <1>1 DEF RestoreOK, RestoreTypeOK
<1>3. Missing' = Missing
    BY DEF Missing
<1>4. MoveInv'
    BY <1>1, <1>3 DEF RestoreOK, MoveInv
<1> QED
    BY <1>1, <1>2, <1>4 DEF RestoreOK, OnlyConfirmedReplaced

\* The conflicts are what is staged and in the target at that moment.
LEMMA CollectKeepsRestore ==
    ASSUME RestoreOK, Collect \/ Confirm \/ Restored, latest' = latest
    PROVE  RestoreOK'
<1>1. /\ target' = target /\ exists' = exists /\ snap' = snap /\ staged' = staged
      /\ replaced' = replaced /\ touched' = touched
    BY DEF Collect, Confirm, Restored, fixed
<1>2. Missing' = Missing /\ InPlace' = InPlace /\ InTarget' = InTarget
    BY <1>1 DEF Missing, InPlace, InTarget
<1>3. CASE Collect
    <2>1. /\ rpc = "open" /\ merged' = exists /\ conflicts' = staged \cap InTarget
          /\ late' = {} /\ rpc' = "confirm"
        BY <1>3 DEF Collect
    <2>2. RestoreTypeOK'
        BY <1>1, <2>1 DEF RestoreOK, RestoreTypeOK
    <2>3. MoveInv'
        BY <1>1, <1>2, <2>1 DEF RestoreOK, MoveInv
    <2>4. replaced = {}
        BY <2>1 DEF RestoreOK, MoveInv
    <2> QED
        BY <1>1, <2>2, <2>3, <2>4 DEF RestoreOK, OnlyConfirmedReplaced
<1>4. CASE Confirm
    <2>1. /\ rpc = "confirm" /\ rpc' = "move"
          /\ conflicts' = conflicts /\ merged' = merged /\ late' = late
        BY <1>4 DEF Confirm, fixed
    <2>2. Missing = {}
        BY <2>1 DEF RestoreOK, MoveInv, Missing
    <2> QED
        BY <1>1, <1>2, <2>1, <2>2
           DEF RestoreOK, RestoreTypeOK, MoveInv, OnlyConfirmedReplaced
<1>5. CASE Restored
    <2>1. /\ rpc = "move" /\ staged = {} /\ rpc' = "done"
          /\ conflicts' = conflicts /\ merged' = merged /\ late' = late
        BY <1>5 DEF Restored, fixed
    <2> QED
        BY <1>1, <1>2, <2>1
           DEF RestoreOK, RestoreTypeOK, MoveInv, OnlyConfirmedReplaced
<1> QED
    BY <1>3, <1>4, <1>5

LEMMA MoveWholeKeepsRestore ==
    ASSUME ArchiveTypeOK, RestoreOK, MoveWhole, latest' = latest
    PROVE  RestoreOK'
<1>1. /\ rpc = "move" /\ ~merged /\ exists' = TRUE /\ staged' = {} /\ rpc' = "done"
      /\ snap' = snap /\ conflicts' = conflicts /\ merged' = merged
      /\ replaced' = replaced /\ touched' = touched /\ late' = late
    BY DEF MoveWhole, fixed
<1>2. target' = [n \in Name |->
                   IF n \in staged THEN snap.tree[n].content ELSE Gone]
    BY DEF MoveWhole
<1>3. staged = DOMAIN snap.tree /\ replaced = {}
    BY <1>1 DEF RestoreOK, MoveInv
<1>4. \A n \in staged : snap.tree[n].content \in Data
    BY <1>1, <1>3, SnapIsLatest
<1>5. RestoreTypeOK'
    BY <1>1, <1>2, <1>4 DEF RestoreOK, RestoreTypeOK
<1>6. InPlace'
    BY <1>1, <1>2, <1>3, SnapIsLatest DEF InPlace
<1>7. Missing' = {}
    BY <1>1, <1>3 DEF Missing
<1>8. MoveInv'
    BY <1>1, <1>6, <1>7 DEF RestoreOK, MoveInv
<1> QED
    BY <1>1, <1>5, <1>8 DEF RestoreOK, OnlyConfirmedReplaced

\* What is removed was staged, and so was confirmed or is late; it is the only
\* entry that is missing until its rename.
LEMMA RemoveKeepsRestore ==
    ASSUME ArchiveTypeOK, RestoreOK, Remove, latest' = latest
    PROVE  RestoreOK'
<1>1. PICK n \in staged : n = First(staged)
    <2>1. staged # {} /\ staged \subseteq Name
        BY DEF Remove, RestoreOK, RestoreTypeOK
    <2> QED
        BY <2>1, FirstIsStaged
<1>2. /\ rpc = "move" /\ merged /\ rpc' = "rename" /\ exists' = exists
      /\ staged' = staged /\ snap' = snap /\ conflicts' = conflicts
      /\ merged' = merged /\ touched' = touched /\ late' = late
      /\ target' = [target EXCEPT ![n] = Gone]
      /\ replaced' = replaced \cup ({n} \cap InTarget)
    BY <1>1 DEF Remove, fixed
<1>3. /\ n \in Name /\ n \in DOMAIN snap.tree /\ staged \subseteq Name
      /\ target \in [Name -> Data \cup {Gone, Foreign}]
    BY <1>1, <1>2, SnapIsLatest DEF RestoreOK, RestoreTypeOK
<1>4. target'[n] = Gone /\ \A m \in Name : m # n => target'[m] = target[m]
    BY <1>2, <1>3
<1>5. RestoreTypeOK'
    BY <1>2, <1>3 DEF RestoreOK, RestoreTypeOK
<1>6. replaced \subseteq Name /\ replaced' \subseteq replaced \cup {n}
    BY <1>2 DEF RestoreOK, RestoreTypeOK
<1>7. Missing' \subseteq {n}
    <2>1. Missing = {}
        BY <1>2 DEF RestoreOK, MoveInv
    <2> QED
        BY <1>4, <1>6, <2>1 DEF Missing
<1>8. InPlace'
    <2>1. InPlace
        BY <1>2 DEF RestoreOK, MoveInv
    <2> QED
        BY <1>1, <1>2, <1>3, <1>4, <2>1 DEF InPlace
<1>9. InTarget' \subseteq InTarget
    BY <1>4 DEF InTarget
<1>10. staged \cap InTarget \subseteq conflicts \cup late
    BY <1>2 DEF RestoreOK, MoveInv
<1>11. First(staged)' = n
    BY <1>1, <1>2 DEF First
<1>12. MoveInv'
    BY <1>1, <1>2, <1>3, <1>7, <1>8, <1>9, <1>10, <1>11 DEF RestoreOK, MoveInv
<1>13. OnlyConfirmedReplaced'
    BY <1>1, <1>2, <1>10 DEF RestoreOK, OnlyConfirmedReplaced
<1> QED
    BY <1>5, <1>12, <1>13 DEF RestoreOK

LEMMA RenameKeepsRestore ==
    ASSUME ArchiveTypeOK, RestoreOK, Rename, latest' = latest
    PROVE  RestoreOK'
<1>1. rpc = "rename" /\ merged /\ staged # {} /\ staged \subseteq Name
    BY DEF Rename, RestoreOK, MoveInv, RestoreTypeOK
<1>2. PICK n \in staged : n = First(staged)
    BY <1>1, FirstIsStaged
<1>3. /\ rpc' = "move" /\ exists' = exists /\ staged' = staged \ {n}
      /\ snap' = snap /\ conflicts' = conflicts
      /\ merged' = merged /\ touched' = touched /\ late' = late
      /\ target' = [target EXCEPT ![n] = snap.tree[n].content]
      /\ replaced' = replaced \cup ({n} \cap InTarget)
    BY <1>2 DEF Rename, fixed
<1>4. /\ n \in Name /\ n \in DOMAIN snap.tree
      /\ target \in [Name -> Data \cup {Gone, Foreign}]
      /\ snap.tree[n].content \in Data /\ snap.tree[n].content # Gone
    BY <1>1, <1>2, SnapIsLatest DEF RestoreOK, RestoreTypeOK
<1>5. /\ target'[n] = snap.tree[n].content
      /\ \A m \in Name : m # n => target'[m] = target[m]
    BY <1>3, <1>4
<1>6. RestoreTypeOK'
    BY <1>1, <1>3, <1>4 DEF RestoreOK, RestoreTypeOK
<1>7. replaced \subseteq Name /\ replaced' \subseteq replaced \cup {n}
    BY <1>3 DEF RestoreOK, RestoreTypeOK
<1>8. Missing' = {}
    <2>1. Missing \subseteq {n}
        BY <1>1, <1>2 DEF RestoreOK, MoveInv
    <2> QED
        BY <1>4, <1>5, <1>7, <2>1 DEF Missing
<1>9. InPlace'
    <2>1. InPlace
        BY <1>1 DEF RestoreOK, MoveInv
    <2> QED
        BY <1>3, <1>4, <1>5, <2>1, SnapIsLatest DEF InPlace
<1>10. InTarget' \subseteq InTarget \cup {n}
    BY <1>5 DEF InTarget
<1>11. staged \cap InTarget \subseteq conflicts \cup late
    BY <1>1 DEF RestoreOK, MoveInv
<1>12. snap = latest /\ latest # None /\ staged \subseteq DOMAIN snap.tree
    BY <1>1 DEF RestoreOK, MoveInv
<1>13. MoveInv'
    BY <1>1, <1>3, <1>8, <1>9, <1>10, <1>11, <1>12 DEF MoveInv
<1>14. OnlyConfirmedReplaced'
    BY <1>2, <1>3, <1>11 DEF RestoreOK, OnlyConfirmedReplaced
<1> QED
    BY <1>6, <1>13, <1>14 DEF RestoreOK

\* What the owner writes is late, and it is there.
LEMMA TouchKeepsRestore ==
    ASSUME RestoreOK, NEW n \in Name, Touch(n), latest' = latest
    PROVE  RestoreOK'
<1>1. /\ rpc \in {"open", "confirm", "move", "rename"} /\ rpc' = rpc
      /\ exists' = TRUE /\ staged' = staged /\ snap' = snap
      /\ conflicts' = conflicts /\ merged' = merged /\ replaced' = replaced
      /\ touched' = touched \cup {n} /\ late' = late \cup {n}
      /\ target' = [target EXCEPT ![n] = Foreign]
    BY DEF Touch, fixed, RestoreOK, RestoreTypeOK
<1>2. /\ target'[n] = Foreign /\ Foreign # Gone
      /\ \A m \in Name : m # n => target'[m] = target[m]
    BY <1>1, RestoreAssumption DEF RestoreOK, RestoreTypeOK
<1>3. RestoreTypeOK'
    BY <1>1 DEF RestoreOK, RestoreTypeOK
<1>4. Missing' \subseteq Missing
    BY <1>1, <1>2 DEF Missing, RestoreOK, RestoreTypeOK
<1>5. InPlace'
    <2>1. InPlace
        BY <1>1 DEF RestoreOK, MoveInv
    <2> QED
        BY <1>1, <1>2, <2>1 DEF InPlace
<1>6. InTarget' \subseteq InTarget \cup {n}
    BY <1>2 DEF InTarget
<1>7. First(staged)' = First(staged)
    BY <1>1 DEF First
<1>8. MoveInv'
    BY <1>1, <1>4, <1>5, <1>6, <1>7 DEF RestoreOK, MoveInv
<1> QED
    BY <1>1, <1>3, <1>8 DEF RestoreOK, OnlyConfirmedReplaced

LEMMA RestoreKeepsRestore ==
    ASSUME SourceOK, RestoreOK, RestoreNext, latest' = latest
    PROVE  RestoreOK'
<1>0. ArchiveTypeOK
    BY DEF SourceOK
<1>1. CASE Stage
    BY <1>1, StageKeepsRestore
<1>2. CASE StageFails \/ Decline \/ MoveWholeFails \/ MoveFails
    BY <1>2, GivesUpKeepsRestore DEF StageFails, Decline, MoveWholeFails, MoveFails
<1>3. CASE Collect \/ Confirm \/ Restored
    BY <1>3, CollectKeepsRestore
<1>4. CASE MoveWhole \/ Remove \/ Rename
    BY <1>0, <1>4, MoveWholeKeepsRestore, RemoveKeepsRestore, RenameKeepsRestore
<1>5. CASE \E n \in Name : Touch(n)
    BY <1>5, TouchKeepsRestore
<1> QED
    BY <1>1, <1>2, <1>3, <1>4, <1>5 DEF RestoreNext, RestoreStep

-----------------------------------------------------------------------------
(* The theorems.                                                           *)

LEMMA InitInv == Init => Inv
<1> SUFFICES ASSUME Init PROVE Inv
    OBVIOUS
<1>1. SourceOK
    BY InitSource DEF Init
<1>2. /\ target \in [Name -> {Foreign, Gone}] /\ exists \in BOOLEAN
      /\ rpc = "idle" /\ snap = None /\ staged = {} /\ conflicts = {}
      /\ merged = FALSE /\ replaced = {} /\ touched = {} /\ late = {}
    BY DEF Init, RestoreInit
<1>3. RestoreTypeOK
    BY <1>2 DEF RestoreTypeOK
<1>4. MoveInv /\ OnlyConfirmedReplaced
    BY <1>2 DEF MoveInv, OnlyConfirmedReplaced, Missing
<1> QED
    BY <1>1, <1>3, <1>4 DEF Inv, SourceOK, TypeOK

LEMMA NextInv == Inv /\ [Next]_vars => Inv'
<1> SUFFICES ASSUME Inv, [Next]_vars PROVE Inv'
    OBVIOUS
<1>1. SourceOK /\ RestoreOK
    BY DEF Inv, TypeOK, SourceOK, RestoreOK
<1>2. ASSUME latest' = latest \/ rpc = "idle", UNCHANGED restoreVars
      PROVE  RestoreOK'
    <2>1. /\ target' = target /\ exists' = exists /\ rpc' = rpc /\ snap' = snap
          /\ staged' = staged /\ conflicts' = conflicts /\ merged' = merged
          /\ replaced' = replaced /\ touched' = touched /\ late' = late
        BY <1>2 DEF restoreVars
    <2>2. Missing' = Missing /\ InPlace' = InPlace /\ InTarget' = InTarget
        BY <2>1 DEF Missing, InPlace, InTarget
    <2>3. MoveInv'
        BY <1>1, <1>2, <2>1, <2>2 DEF RestoreOK, MoveInv
    <2>4. RestoreTypeOK'
        BY <1>1, <2>1 DEF RestoreOK, RestoreTypeOK
    <2> QED
        BY <1>1, <2>1, <2>3, <2>4 DEF RestoreOK, OnlyConfirmedReplaced
<1>3. ASSUME UNCHANGED archiveVars
      PROVE  SourceOK' /\ latest' = latest
    BY <1>1, <1>3 DEF archiveVars, walkVars, SourceOK, ArchiveTypeOK, Stamps, WalkInv,
        LatestInv, Honest, Current, Exists, Next1
<1>4. CASE Backup /\ UNCHANGED restoreVars
    <2>1. SourceOK'
        BY <1>1, <1>4, WalkKeepsSource DEF Backup
    <2>2. RestoreOK'
        BY <1>2, <1>4 DEF Backup
    <2> QED
        BY <2>1, <2>2 DEF Inv, TypeOK, SourceOK, RestoreOK
<1>5. CASE Restore /\ UNCHANGED archiveVars
    <2>1. SourceOK' /\ latest' = latest
        BY <1>3, <1>5
    <2>2. RestoreOK'
        BY <1>1, <1>5, <2>1, RestoreKeepsRestore DEF Restore
    <2> QED
        BY <2>1, <2>2 DEF Inv, TypeOK, SourceOK, RestoreOK
<1>6. ASSUME NEW n \in Name, Change(n), UNCHANGED restoreVars
      PROVE  Inv'
    <2>1. SourceOK'
        BY <1>1, <1>6, ChangeKeepsSource
    <2>2. latest' = latest
        BY <1>6 DEF Change
    <2>3. RestoreOK'
        BY <1>2, <1>6, <2>2
    <2> QED
        BY <2>1, <2>3 DEF Inv, TypeOK, SourceOK, RestoreOK
<1>7. CASE UNCHANGED vars
    <2>1. UNCHANGED archiveVars /\ UNCHANGED restoreVars
        BY <1>7 DEF vars
    <2>2. SourceOK' /\ RestoreOK'
        BY <1>2, <1>3, <2>1
    <2> QED
        BY <2>2 DEF Inv, TypeOK, SourceOK, RestoreOK
<1> QED
    BY <1>4, <1>5, <1>6, <1>7 DEF Next

\* The directory, the archiver, its snapshots, the restore and its target are
\* always as Inv says.
THEOREM ArchiveRestoreInvariance == Spec => []Inv
<1>1. Init => Inv
    BY InitInv
<1>2. Inv /\ [Next]_vars => Inv'
    BY NextInv
<1> QED
    BY <1>1, <1>2, PTL DEF Spec

\* Types of the archiver (Archiver.archive, tree.go) and the restorer.
THEOREM ArchiveRestoreTypes == Spec => []TypeOK
<1>1. Inv => TypeOK
    BY DEF Inv
<1> QED
    BY <1>1, ArchiveRestoreInvariance, PTL

\* What a snapshot says of an entry that nobody has changed since its walk began
\* is right, however many parents its nodes were carried over from, and whatever
\* any of those walks met.
THEOREM SnapshotsAreCurrent == Spec => []SnapshotIsCurrent
<1>1. ASSUME Inv PROVE SnapshotIsCurrent
    <2> SUFFICES ASSUME latest # None, NEW n \in Name, Still(n, latest)
                 PROVE  /\ n \in DOMAIN latest.tree => latest.tree[n] = source[n]
                        /\ Exists(n) => n \in DOMAIN latest.tree \cup latest.skipped
        BY DEF SnapshotIsCurrent
    <2>1. Honest(latest.tree) /\ Current(latest.tree, latest.skipped, latest.began)
        BY <1>1 DEF Inv, LatestInv
    <2>2. source[n].stamp <= latest.began
        BY DEF Still
    <2>3. Exists(n) => n \in DOMAIN latest.tree \cup latest.skipped
        BY <2>1, <2>2 DEF Current
    <2>4. ASSUME n \in DOMAIN latest.tree
          PROVE  latest.tree[n] = source[n]
        <3>1. /\ latest.tree[n].stamp = source[n].stamp
              /\ latest.tree[n].content = source[n].content
            BY <2>1, <2>2, <2>4 DEF Current, Honest
        <3>2. latest.tree[n] \in Node
            BY <1>1, <2>4, SnapIs, TreeIs DEF Inv, TypeOK
        <3>3. source[n] \in [stamp : Stamp, content : Content \cup {Gone}]
            BY <1>1 DEF Inv, TypeOK, ArchiveTypeOK
        <3> QED
            BY <3>1, <3>2, <3>3 DEF Node
    <2> QED
        BY <2>3, <2>4
<1> QED
    BY <1>1, ArchiveRestoreInvariance, PTL

\* Only what was confirmed, or came after the question, is replaced.
THEOREM ConfirmedBeforeReplaced == Spec => []OnlyConfirmedReplaced
<1>1. Inv => OnlyConfirmedReplaced
    BY DEF Inv
<1> QED
    BY <1>1, ArchiveRestoreInvariance, PTL

\* Wherever a restore stops, at most one entry of the target is gone and not yet
\* replaced.
THEOREM AtMostOneMissing == Spec => []OneEntryMissing
<1>1. ASSUME Inv PROVE OneEntryMissing
    <2>1. PICK n \in Name \cup {Gone} : Missing \subseteq {n}
        BY <1>1 DEF Inv, MoveInv
    <2>2. Missing = {} \/ Missing = {n}
        BY <2>1
    <2>3. Cardinality(Missing) = 0 \/ Cardinality(Missing) = 1
        BY <2>2, FS_EmptySet, FS_Singleton
    <2> QED
        BY <2>3 DEF OneEntryMissing, Missing
<1> QED
    BY <1>1, ArchiveRestoreInvariance, PTL

\* From one directory to another: what has not changed since the snapshot was
\* begun and could be read is restored as it is.
THEOREM RestoresGiveTheSource == Spec => []RestoreGivesSource
<1>1. ASSUME Inv PROVE RestoreGivesSource
    <2> SUFFICES ASSUME rpc = "done", NEW n \in Name \ (snap.skipped \cup touched),
                        Still(n, snap)
                 PROVE  IF Exists(n) THEN target[n] = source[n].content
                        ELSE target[n] \in {Gone, Foreign}
        BY DEF RestoreGivesSource
    <2>1. snap = latest /\ latest # None /\ staged = {} /\ InPlace
        BY <1>1 DEF Inv, MoveInv
    <2>2. Honest(snap.tree) /\ Current(snap.tree, snap.skipped, snap.began)
        BY <1>1, <2>1 DEF Inv, LatestInv
    <2>3. source[n].stamp <= snap.began
        BY DEF Still
    <2>4. n \in DOMAIN snap.tree =>
              target[n] = snap.tree[n].content /\ snap.tree[n].content = source[n].content
        BY <2>1, <2>2, <2>3 DEF InPlace, Honest, Current
    <2>5. n \in DOMAIN snap.tree => snap.tree[n].content # Gone
        BY <1>1, <2>1, SnapIs DEF Inv, TypeOK
    <2>6. Exists(n) <=> n \in DOMAIN snap.tree
        BY <2>2, <2>3, <2>4, <2>5 DEF Current, Exists
    <2> QED
        BY <2>1, <2>4, <2>6 DEF InPlace
<1> QED
    BY <1>1, ArchiveRestoreInvariance, PTL
=============================================================================
