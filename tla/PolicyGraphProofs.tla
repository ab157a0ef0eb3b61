-------------------------- MODULE PolicyGraphProofs --------------------------
(***************************************************************************)
(* The depth-first search of validator.py finds a cycle exactly if there   *)
(* is one, and a graph it finds valid has no endless chain, for all        *)
(* policies: the order in which the calls return is a rank that falls      *)
(* along every edge, unless a cycle was reported.                          *)
(***************************************************************************)
EXTENDS PolicyGraph, SequenceTheorems, WellFoundedInduction, TLAPS

Shape ==
    /\ corpus \in Corpora /\ pc \in {"dfs", "valid", "invalid"}
    /\ visited \subseteq Nodes /\ path \in Seq(visited)
    /\ \A i, j \in 1 .. Len(path) : path[i] = path[j] => i = j
    /\ todo \in [Text -> SUBSET Nodes]
    /\ returned \in Nat /\ rank \in [Text -> Nat]
    /\ chain \in Seq(Event)

Ranked == \A n \in Text : rank[n] <= returned

TodoFromEdges == \A n \in Text : todo[n] \subseteq Neighbours(n)

PathAlongEdges == \A i \in 1 .. Len(path) - 1 : path[i + 1] \in Neighbours(path[i])

FinishedLeavesNothing == \A n \in visited \ OnPath : todo[n] = {}

\* The call of dfs for m was made from the call for n, and neither has returned.
CalledFrom(n, m) == \E i \in 1 .. Len(path) - 1 : n = path[i] /\ m = path[i + 1]

\* A neighbour n has done with was seen; if its call has not returned it is the
\* call n waits for, and if both have returned, m returned first.
Explored ==
    \A n \in visited : \A m \in Neighbours(n) \ todo[n] :
        /\ m \in visited
        /\ m \in OnPath => cycles # {} \/ CalledFrom(n, m)
        /\ n \notin OnPath /\ m \notin OnPath => cycles # {} \/ rank[m] < rank[n]

Verdict ==
    /\ pc = "dfs" => chain = <<>>
    /\ pc # "dfs" => path = <<>> /\ Nodes \subseteq visited
    /\ pc = "valid" => cycles = {}

ChainDescends ==
    pc = "valid" /\ Honest =>
        \A i, j \in 1 .. Len(chain) : i < j => rank[chain[j]] < rank[chain[i]]

SearchInv ==
    Shape /\ Ranked /\ TodoFromEdges /\ PathAlongEdges /\ FinishedLeavesNothing /\ Explored

CyclesAreSequences == cycles \subseteq Seq(Nodes)

IInv == SearchInv /\ CyclesAreSequences /\ CyclesReal /\ Verdict /\ ChainDescends

-----------------------------------------------------------------------------
(* The graph is a function of the policies, which never change.            *)

LEMMA GraphStays ==
    corpus' = corpus =>
        /\ Loaded' = Loaded /\ Edges' = Edges /\ Nodes' = Nodes
        /\ Unsatisfied' = Unsatisfied /\ Honest' = Honest
        /\ \A n : Neighbours(n)' = Neighbours(n)
BY DEF Loaded, Edges, Nodes, Unsatisfied, Honest, Neighbours, Requires, Provides, Required,
       Provided, DeclaredRequires, Emits

LEMMA GraphTypes ==
    ASSUME corpus \in Corpora
    PROVE  /\ corpus \subseteq Policy /\ Loaded \subseteq Policy
           /\ Edges \subseteq Text \X Event
           /\ Nodes \subseteq Text
           /\ \A n : Neighbours(n) \subseteq Nodes
           /\ \A n : Neighbours(n) # {} => n \in Nodes
<1>1. corpus \subseteq Policy /\ Loaded \subseteq Policy
  BY GraphAssumption DEF Loaded
<1>2. \A p \in Loaded : Requires(p) \subseteq Text /\ Provides(p) \subseteq Event
  BY <1>1, GraphAssumption DEF Requires, DeclaredRequires, Provides, Policy
<1>3. Edges \subseteq Text \X Event
  BY <1>2 DEF Edges
<1>4. Nodes \subseteq Text
  BY <1>3, GraphAssumption DEF Nodes
<1>5. \A n, m : m \in Neighbours(n) => <<n, m>> \in Edges
  BY DEF Neighbours
<1>6. \A n, m : <<n, m>> \in Edges => n \in Nodes /\ m \in Nodes
  BY DEF Nodes
<1>7. QED
  BY <1>1, <1>3, <1>4, <1>5, <1>6

\* Entering a node puts it at the end of the path.
LEMMA Entered ==
    ASSUME Shape, NEW n \in Nodes, n \notin visited, Enter(n)
    PROVE  /\ path' \in Seq(visited') /\ Len(path') = Len(path) + 1
           /\ Len(path) \in Nat
           /\ path'[Len(path) + 1] = n
           /\ \A i \in 1 .. Len(path) : path'[i] = path[i] /\ path[i] \in visited
           /\ OnPath' = OnPath \cup {n}
           /\ \A i, j \in 1 .. Len(path') : path'[i] = path'[j] => i = j
<1>1. path \in Seq(visited) /\ path \in Seq(visited') /\ n \in visited' /\ path' = Append(path, n)
  <2>1. visited \subseteq visited'
    BY DEF Enter
  <2>2. QED
    BY <2>1, SeqMonotonic DEF Shape, Enter
<1>2. /\ path' \in Seq(visited') /\ Len(path') = Len(path) + 1 /\ Len(path) \in Nat
      /\ path'[Len(path) + 1] = n
      /\ \A i \in 1 .. Len(path) : path'[i] = path[i] /\ path[i] \in visited
  BY <1>1
<1>3. OnPath' = OnPath \cup {n}
  BY <1>2 DEF OnPath
<1>4. \A i, j \in 1 .. Len(path') : path'[i] = path'[j] => i = j
  BY <1>2 DEF Shape
<1>5. QED
  BY <1>2, <1>3, <1>4

\* The node on top of the path is one that was visited and is on the path.
LEMMA TopOfPath ==
    ASSUME Shape, path # <<>>
    PROVE  /\ Len(path) \in Nat /\ Len(path) > 0 /\ Top = path[Len(path)]
           /\ Top \in visited /\ Top \in OnPath
           /\ \A i \in 1 .. Len(path) : path[i] \in visited
<1>1. path \in Seq(visited)
  BY DEF Shape
<1>2. Len(path) \in Nat /\ Len(path) > 0 /\ \A i \in 1 .. Len(path) : path[i] \in visited
  BY <1>1
<1>3. QED
  BY <1>2 DEF Top, OnPath

-----------------------------------------------------------------------------
(* The steps of the search.                                                *)

LEMMA InitEstablishes == Init => IInv
<1> SUFFICES ASSUME Init PROVE IInv
  OBVIOUS
<1>1. Nodes \subseteq Text
  BY GraphTypes DEF Init
<1>2. Shape
  BY EmptySeq DEF Init, Shape
<1>3. OnPath = {}
  BY DEF Init, OnPath
<1>4. QED
  BY <1>2, <1>3 DEF Init, IInv, SearchInv, Ranked, TodoFromEdges, PathAlongEdges,
     FinishedLeavesNothing, Explored, CyclesReal, CyclesAreSequences, Verdict, ChainDescends

LEMMA CallRootStep ==
    ASSUME SearchInv, NEW n \in Text, CallRoot(n)
    PROVE  SearchInv'
<1> USE DEF SearchInv
<1>1. /\ n \in Nodes /\ n \notin visited /\ Enter(n) /\ path = <<>> /\ corpus' = corpus
      /\ corpus \in Corpora /\ visited' = visited \cup {n}
      /\ todo' = [todo EXCEPT ![n] = Neighbours(n)]
      /\ UNCHANGED <<pc, cycles, rank, returned, chain>>
  BY DEF CallRoot, Enter, Shape
<1>2. /\ Nodes' = Nodes /\ \A k : Neighbours(k)' = Neighbours(k)
      /\ Nodes \subseteq Text /\ \A k : Neighbours(k) \subseteq Nodes
  BY <1>1, GraphStays, GraphTypes
<1>3. /\ path' \in Seq(visited') /\ Len(path) = 0 /\ Len(path') = 1
      /\ OnPath = {} /\ OnPath' = {n}
      /\ \A i, j \in 1 .. Len(path') : path'[i] = path'[j] => i = j
  BY <1>1, Entered DEF OnPath
<1>4. todo \in [Text -> SUBSET Nodes]
  BY DEF Shape
<1>5. Shape'
  BY <1>1, <1>2, <1>3, <1>4 DEF Shape
<1>6. Ranked' /\ TodoFromEdges' /\ PathAlongEdges'
  BY <1>1, <1>2, <1>3, <1>4 DEF Ranked, TodoFromEdges, PathAlongEdges
<1>7. FinishedLeavesNothing'
  BY <1>1, <1>2, <1>3, <1>4 DEF FinishedLeavesNothing, Shape
<1>8. Explored'
  <2> SUFFICES ASSUME NEW k \in visited', NEW m \in Neighbours(k)' \ todo'[k]
               PROVE  /\ m \in visited'
                      /\ m \in OnPath' => cycles' # {} \/ CalledFrom(k, m)'
                      /\ k \notin OnPath' /\ m \notin OnPath' => cycles' # {} \/ rank'[m] < rank'[k]
    BY DEF Explored
  <2>1. k # n /\ k \in visited /\ m \in Neighbours(k) \ todo[k]
    BY <1>1, <1>2, <1>4
  <2>2. m \in visited /\ m # n
    BY <2>1, <1>1 DEF Explored
  <2>3. QED
    BY <2>1, <2>2, <1>1, <1>3 DEF Explored
<1>9. QED
  BY <1>5, <1>6, <1>7, <1>8

LEMMA CallNeighbourStep ==
    ASSUME SearchInv, NEW n \in Text, CallNeighbour(n)
    PROVE  SearchInv'
<1> USE DEF SearchInv
<1>1. /\ path # <<>> /\ n \in todo[Top] /\ n \notin visited /\ Enter(n) /\ corpus' = corpus
      /\ corpus \in Corpora /\ visited' = visited \cup {n}
      /\ todo' = [todo EXCEPT ![Top] = @ \ {n}, ![n] = Neighbours(n)]
      /\ UNCHANGED <<pc, cycles, rank, returned, chain>>
  BY DEF CallNeighbour, Enter, Shape
<1>2. /\ Nodes' = Nodes /\ \A k : Neighbours(k)' = Neighbours(k)
      /\ Nodes \subseteq Text /\ \A k : Neighbours(k) \subseteq Nodes
  BY <1>1, GraphStays, GraphTypes
<1>3. /\ Len(path) \in Nat /\ Len(path) > 0 /\ Top = path[Len(path)]
      /\ Top \in visited /\ Top \in OnPath /\ Top \in Text /\ Top # n
  BY <1>1, <1>2, TopOfPath DEF Shape
<1>4. todo \in [Text -> SUBSET Nodes] /\ n \in Nodes /\ n \in Neighbours(Top)
  BY <1>1, <1>3 DEF Shape, TodoFromEdges
<1>5. /\ path' \in Seq(visited') /\ Len(path') = Len(path) + 1
      /\ path'[Len(path) + 1] = n
      /\ \A i \in 1 .. Len(path) : path'[i] = path[i] /\ path[i] \in visited
      /\ OnPath' = OnPath \cup {n}
      /\ \A i, j \in 1 .. Len(path') : path'[i] = path'[j] => i = j
  BY <1>1, <1>4, Entered
<1>6. /\ todo'[n] = Neighbours(n) /\ todo'[Top] = todo[Top] \ {n}
      /\ \A k \in Text \ {n, Top} : todo'[k] = todo[k]
      /\ todo' \in [Text -> SUBSET Nodes]
  BY <1>1, <1>2, <1>3, <1>4
<1>7. Shape'
  BY <1>1, <1>2, <1>4, <1>5, <1>6 DEF Shape
<1>8. Ranked' /\ TodoFromEdges'
  BY <1>1, <1>2, <1>3, <1>6 DEF Ranked, TodoFromEdges
<1>9. PathAlongEdges'
  <2>1. \A i \in 1 .. Len(path) - 1 : path'[i + 1] \in Neighbours(path'[i])
    BY <1>3, <1>5 DEF PathAlongEdges
  <2>2. path'[Len(path) + 1] \in Neighbours(path'[Len(path)])
    BY <1>3, <1>4, <1>5
  <2>3. QED
    BY <2>1, <2>2, <1>2, <1>3, <1>5 DEF PathAlongEdges
<1>10. FinishedLeavesNothing'
  BY <1>1, <1>2, <1>3, <1>5, <1>6 DEF FinishedLeavesNothing, Shape
<1>11. Explored'
  <2> SUFFICES ASSUME NEW k \in visited', NEW m \in Neighbours(k)' \ todo'[k]
               PROVE  /\ m \in visited'
                      /\ m \in OnPath' => cycles' # {} \/ CalledFrom(k, m)'
                      /\ k \notin OnPath' /\ m \notin OnPath' => cycles' # {} \/ rank'[m] < rank'[k]
    BY DEF Explored
  <2>1. k # n /\ k \in visited /\ k \in Text /\ m \in Neighbours(k)
    BY <1>1, <1>2, <1>6 DEF Shape
  <2>2. CASE k = Top /\ m = n
    <3>1. CalledFrom(k, m)'
      BY <2>2, <1>3, <1>5 DEF CalledFrom
    <3>2. QED
      BY <3>1, <2>2, <1>1, <1>5
  <2>3. CASE ~(k = Top /\ m = n)
    <3>1. m \notin todo[k]
      BY <2>1, <2>3, <1>6
    <3>2. m \in visited /\ m # n
      BY <3>1, <2>1, <1>1 DEF Explored
    <3>3. CalledFrom(k, m) => CalledFrom(k, m)'
      BY <1>3, <1>5 DEF CalledFrom
    <3>4. QED
      BY <3>1, <3>2, <3>3, <2>1, <1>1, <1>5 DEF Explored
  <2>4. QED
    BY <2>2, <2>3
<1>12. QED
  BY <1>7, <1>8, <1>9, <1>10, <1>11

\* Both ways to pass over a neighbour only take it off the list.
LEMMA PassedOver ==
    ASSUME SearchInv, path # <<>>, NEW n \in todo[Top], n \in visited,
           todo' = [todo EXCEPT ![Top] = @ \ {n}],
           n \in OnPath => cycles' # {}, cycles # {} => cycles' # {},
           UNCHANGED <<corpus, pc, visited, path, rank, returned, chain>>
    PROVE  SearchInv'
<1> USE DEF SearchInv
<1>1. /\ Nodes' = Nodes /\ (\A k : Neighbours(k)' = Neighbours(k)) /\ OnPath' = OnPath
      /\ Nodes \subseteq Text
  BY GraphStays, GraphTypes DEF Shape, OnPath
<1>2. Top \in visited /\ Top \in OnPath /\ Top \in Text /\ todo \in [Text -> SUBSET Nodes]
  BY <1>1, TopOfPath DEF Shape
<1>3. /\ todo'[Top] = todo[Top] \ {n}
      /\ \A k \in Text \ {Top} : todo'[k] = todo[k]
      /\ todo' \in [Text -> SUBSET Nodes]
  BY <1>2
<1>4. Shape'
  BY <1>1, <1>3 DEF Shape
<1>5. Ranked' /\ TodoFromEdges' /\ PathAlongEdges'
  BY <1>1, <1>2, <1>3 DEF Ranked, TodoFromEdges, PathAlongEdges
<1>6. FinishedLeavesNothing'
  BY <1>1, <1>2, <1>3 DEF FinishedLeavesNothing, Shape
<1>7. Explored'
  <2> SUFFICES ASSUME NEW k \in visited, NEW m \in Neighbours(k) \ todo'[k]
               PROVE  /\ m \in visited
                      /\ m \in OnPath => cycles' # {} \/ CalledFrom(k, m)
                      /\ k \notin OnPath /\ m \notin OnPath => cycles' # {} \/ rank[m] < rank[k]
    BY <1>1 DEF Explored, CalledFrom
  <2>1. CASE k = Top /\ m = n
    BY <2>1, <1>2
  <2>2. CASE ~(k = Top /\ m = n)
    <3>1. m \notin todo[k] /\ k \in Text
      BY <2>2, <1>1, <1>2, <1>3 DEF Shape
    <3>2. QED
      BY <3>1 DEF Explored
  <2>3. QED
    BY <2>1, <2>2
<1>8. QED
  BY <1>4, <1>5, <1>6, <1>7

LEMMA BackEdgeStep ==
    ASSUME SearchInv, NEW n \in Text, BackEdge(n)
    PROVE  SearchInv'
<1>1. n \in visited
  BY DEF BackEdge, OnPath, SearchInv, Shape
<1>2. cycles' # {}
  BY DEF BackEdge
<1>3. QED
  BY <1>1, <1>2, PassedOver DEF BackEdge

LEMMA SeenBeforeStep ==
    ASSUME SearchInv, NEW n \in Text, SeenBefore(n)
    PROVE  SearchInv'
BY PassedOver DEF SeenBefore

LEMMA ReturnStep ==
    ASSUME SearchInv, Return
    PROVE  SearchInv'
<1> USE DEF SearchInv
<1>1. /\ path # <<>> /\ todo[Top] = {} /\ returned' = returned + 1 /\ corpus' = corpus
      /\ rank' = [rank EXCEPT ![Top] = returned + 1]
      /\ path' = SubSeq(path, 1, Len(path) - 1)
      /\ UNCHANGED <<pc, visited, todo, cycles, chain>>
  BY DEF Return
<1>2. /\ Nodes' = Nodes /\ (\A k : Neighbours(k)' = Neighbours(k)) /\ Nodes \subseteq Text
  BY <1>1, GraphStays, GraphTypes DEF Shape
<1>3. /\ Len(path) \in Nat /\ Len(path) > 0 /\ Top = path[Len(path)]
      /\ Top \in visited /\ Top \in Text
      /\ \A i \in 1 .. Len(path) : path[i] \in visited
  BY <1>1, <1>2, TopOfPath DEF Shape
<1>4. /\ path' \in Seq(visited) /\ Len(path') = Len(path) - 1
      /\ \A i \in 1 .. Len(path) - 1 : path'[i] = path[i]
  <2>1. path \in Seq(visited)
    BY DEF Shape
  <2>2. \A i \in 1 .. Len(path) - 1 : path[i] \in visited
    BY <1>3
  <2> DEFINE n == Len(path) - 1
             p == SubSeq(path, 1, n)
  <2>3. n \in Int /\ 1 \in Int /\ n \in Nat /\ \A i \in 1 .. n : path[i] \in visited
    BY <2>2, <1>3
  <2>4. /\ p \in Seq(visited)
        /\ Len(p) = IF 1 <= n THEN n - 1 + 1 ELSE 0
        /\ \A i \in 1 .. n - 1 + 1 : p[i] = path[1 + i - 1]
    BY <2>3, SubSeqProperties
  <2>5. path' = p
    BY <1>1
  <2>6. n = Len(path) - 1
    OBVIOUS
  <2> HIDE DEF n, p
  <2>7. Len(p) = n /\ \A i \in 1 .. n : p[i] = path[i]
    BY <2>3, <2>4
  <2>8. QED
    BY <2>4, <2>5, <2>6, <2>7
<1>0. \A i, j \in 1 .. Len(path) : path[i] = path[j] => i = j
  BY DEF Shape
<1>5. OnPath' = OnPath \ {Top} /\ Top \in OnPath
  <2>1. OnPath' = {path[i] : i \in 1 .. Len(path) - 1}
    BY <1>4 DEF OnPath
  <2>2. \A i \in 1 .. Len(path) - 1 : i \in 1 .. Len(path) /\ i # Len(path)
    BY <1>3
  <2>3. \A i \in 1 .. Len(path) : i # Len(path) => i \in 1 .. Len(path) - 1
    BY <1>3
  <2>4. Len(path) \in 1 .. Len(path)
    BY <1>3
  <2>5. Top = path[Len(path)]
    BY DEF Top
  <2>6. \A i \in 1 .. Len(path) - 1 : path[i] # Top
    BY <2>2, <2>4, <2>5, <1>0
  <2>7. \A k : k \in OnPath <=> \E i \in 1 .. Len(path) : k = path[i]
    BY DEF OnPath
  <2>8. \A k : k \in OnPath' <=> \E i \in 1 .. Len(path) - 1 : k = path[i]
    BY <2>1
  <2>9. \A k : k \in OnPath' <=> k \in OnPath /\ k # Top
    BY <2>2, <2>3, <2>5, <2>6, <2>7, <2>8
  <2>10. QED
    BY <2>4, <2>5, <2>7, <2>9
<1>6. /\ rank'[Top] = returned + 1 /\ \A k \in Text \ {Top} : rank'[k] = rank[k]
      /\ rank' \in [Text -> Nat] /\ returned \in Nat
  BY <1>1, <1>3 DEF Shape
<1>7. Shape'
  <2>1. \A i, j \in 1 .. Len(path') : path'[i] = path'[j] => i = j
    BY <1>0, <1>3, <1>4
  <2>2. returned' \in Nat /\ rank' \in [Text -> Nat]
    BY <1>1, <1>6
  <2>3. QED
    BY <2>1, <2>2, <1>1, <1>2, <1>4 DEF Shape
<1>8. Ranked'
  BY <1>1, <1>6 DEF Ranked, Shape
<1>9. TodoFromEdges' /\ PathAlongEdges' /\ FinishedLeavesNothing'
  BY <1>1, <1>2, <1>3, <1>4, <1>5
  DEF TodoFromEdges, PathAlongEdges, FinishedLeavesNothing
<1>10. Explored'
  <2> SUFFICES ASSUME NEW k \in visited, NEW m \in Neighbours(k) \ todo[k]
               PROVE  /\ m \in visited
                      /\ m \in OnPath' => cycles # {} \/ CalledFrom(k, m)'
                      /\ k \notin OnPath' /\ m \notin OnPath' => cycles # {} \/ rank'[m] < rank'[k]
    BY <1>1, <1>2 DEF Explored
  <2>1. k \in Text /\ m \in Text /\ m \in visited
    BY <1>2 DEF Explored, Shape
  <2>2. ASSUME m \in OnPath', cycles = {} PROVE CalledFrom(k, m)'
    <3>1. m \in OnPath /\ m # Top
      BY <2>2, <1>5
    <3>2. PICK i \in 1 .. Len(path) - 1 : k = path[i] /\ m = path[i + 1]
      BY <3>1, <2>2 DEF Explored, CalledFrom
    <3>3. i + 1 # Len(path)
      BY <3>1, <3>2, <1>3
    <3>4. QED
      BY <3>2, <3>3, <1>3, <1>4 DEF CalledFrom
  <2>3. ASSUME k \notin OnPath', m \notin OnPath', cycles = {} PROVE rank'[m] < rank'[k]
    <3>1. CASE k = Top
      <4>1. m \notin OnPath
        <5> SUFFICES ASSUME m \in OnPath PROVE FALSE
          OBVIOUS
        <5>1. PICK i \in 1 .. Len(path) - 1 : k = path[i] /\ m = path[i + 1]
          BY <2>3 DEF Explored, CalledFrom
        <5>2. i \in 1 .. Len(path) /\ Len(path) \in 1 .. Len(path) /\ path[i] = path[Len(path)]
          BY <5>1, <3>1, <1>3
        <5>4. i = Len(path)
          BY <5>2, <1>0
        <5>5. QED
          BY <5>1, <5>4, <1>3
      <4>2. m # Top /\ rank[m] <= returned
        BY <4>1, <1>5, <2>1 DEF Ranked
      <4>3. QED
        BY <4>2, <3>1, <1>6, <2>1 DEF Shape
    <3>2. CASE k # Top
      <4>1. k \notin OnPath /\ (m \in OnPath => CalledFrom(k, m))
        BY <3>2, <2>3, <1>5 DEF Explored
      <4>2. m \notin OnPath
        BY <4>1, <1>3 DEF CalledFrom, OnPath
      <4>3. rank[m] < rank[k] /\ m # Top
        BY <4>1, <4>2, <2>3, <1>5 DEF Explored
      <4>4. QED
        BY <4>3, <3>2, <1>6, <2>1
    <3>3. QED
      BY <3>1, <3>2
  <2>4. QED
    BY <2>1, <2>2, <2>3
<1>11. QED
  BY <1>7, <1>8, <1>9, <1>10

LEMMA SearchKept ==
    ASSUME SearchInv, [Next]_vars
    PROVE  SearchInv'
<1>1. CASE UNCHANGED <<corpus, search>> /\ chain' \in Seq(Event) /\ pc' \in {"dfs", "valid", "invalid"}
  <2>1. /\ Nodes' = Nodes /\ (\A k : Neighbours(k)' = Neighbours(k)) /\ OnPath' = OnPath
    BY <1>1, GraphStays DEF search, OnPath
  <2>2. QED
    <3>1. UNCHANGED <<path, visited, todo, rank, returned, cycles>>
      BY <1>1 DEF search
    <3>2. \A k, m : CalledFrom(k, m)' <=> CalledFrom(k, m)
      BY <3>1 DEF CalledFrom
    <3>3. Shape' /\ Ranked' /\ TodoFromEdges' /\ PathAlongEdges'
      BY <1>1, <2>1, <3>1 DEF SearchInv, Shape, Ranked, TodoFromEdges, PathAlongEdges
    <3>4. FinishedLeavesNothing' /\ Explored'
      BY <2>1, <3>1, <3>2 DEF SearchInv, FinishedLeavesNothing, Explored
    <3> QED
      BY <3>3, <3>4 DEF SearchInv
<1>2. ASSUME NEW n \in Text, CallRoot(n) \/ CallNeighbour(n) \/ BackEdge(n) \/ SeenBefore(n)
      PROVE  SearchInv'
  BY <1>2, CallRootStep, CallNeighbourStep, BackEdgeStep, SeenBeforeStep
<1>3. ASSUME Return PROVE SearchInv'
  BY <1>3, ReturnStep
<1>4. ASSUME Validate PROVE SearchInv'
  BY <1>1, <1>4 DEF Validate, SearchInv, Shape
<1>5. ASSUME NEW e \in Event, Publish(e) PROVE SearchInv'
  <2>1. <<e>> \in Seq(Event)
    OBVIOUS
  <2>2. QED
    BY <1>1, <1>5, <2>1 DEF Publish, SearchInv, Shape
<1>6. ASSUME NEW p \in corpus, NEW e \in Event, Answer(p, e) PROVE SearchInv'
  <2>1. chain' \in Seq(Event)
    BY <1>6 DEF Answer, SearchInv, Shape
  <2>2. QED
    BY <1>1, <1>6, <2>1 DEF Answer, SearchInv, Shape
<1>7. ASSUME UNCHANGED vars PROVE SearchInv'
  BY <1>1, <1>7 DEF vars, search, SearchInv, Shape
<1>8. QED
  BY <1>2, <1>3, <1>4, <1>5, <1>6, <1>7 DEF Next, Search

\* A back edge closes the part of the path that begins at the node met again.
LEMMA LoopIsCycle ==
    ASSUME SearchInv, path # <<>>, NEW m \in todo[Top] \cap OnPath
    PROVE  /\ LoopFrom(m) \in Seq(Nodes)
           /\ Len(LoopFrom(m)) > 1 /\ LoopFrom(m)[1] = LoopFrom(m)[Len(LoopFrom(m))]
           /\ \A i \in 1 .. Len(LoopFrom(m)) - 1 :
                  <<LoopFrom(m)[i], LoopFrom(m)[i + 1]>> \in Edges
<1> DEFINE start == CHOOSE i \in 1 .. Len(path) : path[i] = m
           p == SubSeq(path, start, Len(path))
           l == Append(p, m)
<1>1. /\ Len(path) \in Nat /\ Len(path) > 0 /\ Top = path[Len(path)]
      /\ \A i \in 1 .. Len(path) : path[i] \in visited
      /\ Top \in visited /\ visited \subseteq Nodes
  BY TopOfPath DEF SearchInv, Shape
<1>2. start \in 1 .. Len(path) /\ path[start] = m
  BY DEF OnPath
<1>3. m \in visited
  BY <1>1, <1>2
<1>4. /\ start \in Int /\ Len(path) \in Int
      /\ \A i \in start .. Len(path) : path[i] \in visited
  BY <1>1, <1>2
<1>5. LoopFrom(m) = l
  BY DEF LoopFrom
<1> HIDE DEF start
<1>6. /\ p \in Seq(visited) /\ Len(p) = IF start <= Len(path) THEN Len(path) - start + 1 ELSE 0
      /\ \A i \in 1 .. Len(path) - start + 1 : p[i] = path[start + i - 1]
  BY <1>4, SubSeqProperties
<1> HIDE DEF p
<1>7. Len(p) = Len(path) - start + 1 /\ Len(p) \in Nat /\ Len(p) >= 1
  BY <1>1, <1>2, <1>6
<1>8. l \in Seq(visited) /\ Len(l) = Len(p) + 1 /\ l[Len(p) + 1] = m /\ \A i \in 1 .. Len(p) : l[i] = p[i]
  BY <1>3, <1>6, <1>7, AppendProperties
<1> HIDE DEF l
<1>9. l[1] = m
  BY <1>1, <1>2, <1>6, <1>7, <1>8
<1>10. \A n : \A k \in Neighbours(n) : <<n, k>> \in Edges
  BY DEF Neighbours
<1>11. ASSUME NEW i \in 1 .. Len(p) PROVE <<l[i], l[i + 1]>> \in Edges
  <2>1. l[i] = path[start + i - 1] /\ start + i - 1 \in 1 .. Len(path)
    BY <1>1, <1>2, <1>6, <1>7, <1>8
  <2>2. CASE i = Len(p)
    <3>0. start + i - 1 = Len(path)
      BY <2>2, <1>1, <1>2, <1>7
    <3>1. l[i] = Top /\ l[i + 1] = m
      BY <2>1, <2>2, <3>0, <1>1, <1>8
    <3>2. m \in Neighbours(Top)
      BY <1>1, GraphTypes DEF SearchInv, TodoFromEdges, Shape
    <3>3. QED
      BY <3>1, <3>2, <1>10
  <2>3. CASE i # Len(p)
    <3>1. i + 1 \in 1 .. Len(p) /\ i + 1 \in 1 .. Len(path) - start + 1
      BY <2>3, <1>7
    <3>2. l[i + 1] = path[start + (i + 1) - 1]
      BY <3>1, <1>6, <1>8
    <3>3. start + i - 1 \in 1 .. Len(path) - 1 /\ start + (i + 1) - 1 = (start + i - 1) + 1
      BY <2>1, <2>3, <1>1, <1>2, <1>7
    <3>4. path[(start + i - 1) + 1] \in Neighbours(path[start + i - 1])
      BY <3>3 DEF SearchInv, PathAlongEdges
    <3>5. QED
      BY <3>2, <3>3, <3>4, <2>1, <1>10
  <2>4. QED
    BY <2>2, <2>3
<1>12. l \in Seq(Nodes)
  BY <1>1, <1>8, SeqMonotonic
<1>13. QED
  BY <1>5, <1>7, <1>8, <1>9, <1>11, <1>12

LEMMA CyclesKept ==
    ASSUME SearchInv, CyclesAreSequences, CyclesReal, [Next]_vars
    PROVE  CyclesAreSequences' /\ CyclesReal'
<1>1. CASE UNCHANGED <<corpus, cycles>>
  BY <1>1, GraphStays DEF CyclesReal, CyclesAreSequences
<1>2. ASSUME NEW n \in Text, BackEdge(n) PROVE CyclesAreSequences' /\ CyclesReal'
  <2>1. /\ cycles' = cycles \cup {LoopFrom(n)} /\ path # <<>> /\ n \in todo[Top] \cap OnPath
        /\ Edges' = Edges /\ Nodes' = Nodes
    BY <1>2, GraphStays DEF BackEdge
  <2>2. QED
    BY <2>1, LoopIsCycle DEF CyclesReal, CyclesAreSequences
<1>3. QED
  BY <1>1, <1>2 DEF Next, Search, CallRoot, CallNeighbour, SeenBefore, Return, Validate, Publish,
     Answer, vars, search

-----------------------------------------------------------------------------
(* The verdict.                                                            *)

LEMMA VerdictKept ==
    ASSUME SearchInv, Verdict, [Next]_vars
    PROVE  Verdict'
<1>1. Nodes' = Nodes
  BY GraphStays DEF Next, Search, CallRoot, CallNeighbour, BackEdge, SeenBefore, Return, Validate,
     Publish, Answer, vars, search
<1>2. QED
  BY <1>1 DEF Verdict, SearchInv, Shape, Next, Search, CallRoot, CallNeighbour, BackEdge, SeenBefore,
     Return, Validate, Publish, Answer, vars, search

\* When the search is over without a cycle, the rank falls along every edge.
LEMMA RankFalls ==
    ASSUME SearchInv, Verdict, pc # "dfs", cycles = {}
    PROVE  \A n \in Nodes : \A m \in Neighbours(n) : rank[m] < rank[n]
<1>1. OnPath = {} /\ Nodes \subseteq visited
  BY DEF Verdict, OnPath
<1>2. \A n \in Nodes : todo[n] = {}
  BY <1>1 DEF SearchInv, FinishedLeavesNothing
<1>3. QED
  BY <1>1, <1>2 DEF SearchInv, Explored

LEMMA ChainKept ==
    ASSUME SearchInv, Verdict, ChainDescends, [Next]_vars
    PROVE  ChainDescends'
<1>1. CASE pc' = pc /\ UNCHANGED <<corpus, rank, chain>>
  BY <1>1, GraphStays DEF ChainDescends
<1>2. CASE pc = "dfs" /\ chain' = chain
  BY <1>2 DEF ChainDescends, Verdict
<1>3. ASSUME NEW e \in Event, Publish(e) PROVE ChainDescends'
  <2>1. Len(chain') = 1
    BY <1>3 DEF Publish
  <2>2. QED
    BY <2>1 DEF ChainDescends
<1>4. ASSUME NEW p \in corpus, NEW e \in Event, Answer(p, e) PROVE ChainDescends'
  <2> SUFFICES ASSUME pc = "valid", Honest,
                      NEW i \in 1 .. Len(chain'), NEW j \in 1 .. Len(chain'), i < j
               PROVE  rank[chain'[j]] < rank[chain'[i]]
    BY <1>4, GraphStays DEF ChainDescends, Answer, search
  <2> DEFINE last == chain[Len(chain)]
  <2>1. /\ chain \in Seq(Event) /\ chain # <<>> /\ chain' = Append(chain, e)
        /\ p \in Loaded /\ last \in Matched[p.trigger] /\ e \in Emits(p)
    BY <1>4 DEF Answer, SearchInv, Shape
  <2>2. /\ Len(chain) \in Nat /\ Len(chain) > 0 /\ Len(chain') = Len(chain) + 1
        /\ chain'[Len(chain) + 1] = e
        /\ \A k \in 1 .. Len(chain) : chain'[k] = chain[k] /\ chain[k] \in Event
    BY <2>1
  <2>3. last \in Requires(p) /\ e \in Provides(p)
    BY <2>1 DEF Honest
  <2>4. <<last, e>> \in Edges
    BY <2>1, <2>3 DEF Edges
  <2>5. e \in Text /\ last \in Text /\ e \in Neighbours(last) /\ last \in Nodes
    BY <2>2, <2>4, GraphAssumption DEF Neighbours, Nodes
  <2>6. rank[e] < rank[last]
    BY <2>5, RankFalls DEF Verdict
  <2>7. \A k \in 1 .. Len(chain) : rank[chain[k]] \in Nat
    BY <2>2, GraphAssumption DEF SearchInv, Shape
  <2>8. CASE j <= Len(chain)
    BY <2>2, <2>8 DEF ChainDescends
  <2>9. CASE j = Len(chain) + 1
    <3>1. i \in 1 .. Len(chain) /\ Len(chain) \in 1 .. Len(chain)
      BY <2>2, <2>9
    <3>2. rank[last] <= rank[chain[i]]
      BY <3>1, <2>7, <2>2 DEF ChainDescends
    <3>3. rank[e] \in Nat /\ rank[last] \in Nat /\ rank[chain[i]] \in Nat
      BY <3>1, <2>5, <2>7 DEF SearchInv, Shape
    <3>4. chain'[j] = e /\ chain'[i] = chain[i]
      BY <2>2, <2>9, <3>1
    <3>5. QED
      BY <3>2, <3>3, <3>4, <2>6
  <2>10. QED
    BY <2>2, <2>8, <2>9
<1>5. QED
  BY <1>1, <1>2, <1>3, <1>4 DEF Next, Search, CallRoot, CallNeighbour, BackEdge, SeenBefore,
     Return, Validate, vars, search

-----------------------------------------------------------------------------
(* The theorems.                                                           *)

\* The search keeps its invariant, for all policies and all orders in which
\* Python's sets hand out the nodes and the neighbours.
THEOREM Invariance == Spec => []IInv
<1>1. Init => IInv
  BY InitEstablishes
<1>2. IInv /\ [Next]_vars => IInv'
  BY SearchKept, CyclesKept, VerdictKept, ChainKept DEF IInv
<1>3. QED
  BY <1>1, <1>2, PTL DEF Spec

\* Types, and no node is entered twice.
THEOREM TypeCorrectness == Spec => []TypeOK
<1>1. IInv => TypeOK
  <2> SUFFICES ASSUME IInv PROVE TypeOK
    OBVIOUS
  <2>1. corpus \subseteq Policy
    BY GraphTypes DEF IInv, SearchInv, Shape
  <2>2. rank \in [Text -> 0 .. returned]
    BY DEF IInv, SearchInv, Shape, Ranked
  <2>3. QED
    BY <2>1, <2>2 DEF IInv, SearchInv, CyclesAreSequences, Shape, TypeOK
<1>2. QED
  BY <1>1, Invariance, PTL

\* Every reported cycle is a cycle of the declared graph.
THEOREM Soundness == Spec => []CyclesReal
<1>1. IInv => CyclesReal
  BY DEF IInv
<1>2. QED
  BY <1>1, Invariance, PTL

\* A set of nodes with a neighbour each in the set has one whose rank is least;
\* its neighbour's would have to be less.
LEMMA RankedIsAcyclic ==
    ASSUME SearchInv, Verdict, pc # "dfs", cycles = {}
    PROVE  ~Cyclic
<1> SUFFICES ASSUME NEW S \in SUBSET Nodes, S # {}, \A n \in S : Neighbours(n) \cap S # {}
             PROVE  FALSE
  BY DEF Cyclic
<1> DEFINE ranks == {rank[n] : n \in S}
<1>1. ranks \subseteq Nat /\ ranks # {}
  BY GraphTypes DEF SearchInv, Shape
<1>2. PICK r \in ranks : \A q \in ranks : <<q, r>> \notin OpToRel(<, Nat)
  BY <1>1, NatLessThanWellFounded, WFMin
<1>3. \A q \in ranks : ~(q < r)
  BY <1>1, <1>2 DEF OpToRel
<1>4. PICK n \in S : r = rank[n]
  OBVIOUS
<1>5. PICK m \in S : m \in Neighbours(n)
  OBVIOUS
<1>6. rank[m] < rank[n]
  BY <1>5, RankFalls
<1>7. QED
  BY <1>3, <1>4, <1>6

LEMMA ReportedIsCyclic ==
    ASSUME corpus \in Corpora, CyclesReal, CyclesAreSequences, cycles # {}
    PROVE  Cyclic
<1>1. PICK c \in cycles : TRUE
  OBVIOUS
<1>2. /\ c \in Seq(Nodes) /\ Len(c) \in Nat /\ Len(c) > 1 /\ c[1] = c[Len(c)]
      /\ \A i \in 1 .. Len(c) - 1 : <<c[i], c[i + 1]>> \in Edges
  BY <1>1 DEF CyclesReal, CyclesAreSequences
<1> DEFINE S == {c[i] : i \in 1 .. Len(c)}
<1>3. S \subseteq Nodes /\ S # {}
  BY <1>2
<1>4. ASSUME NEW i \in 1 .. Len(c) - 1 PROVE c[i + 1] \in Neighbours(c[i]) \cap S
  <2>1. i + 1 \in 1 .. Len(c)
    BY <1>2
  <2>2. <<c[i], c[i + 1]>> \in Edges
    BY <1>2
  <2>3. c[i + 1] \in Text
    BY <1>2, <2>1, GraphTypes
  <2>4. QED
    BY <2>1, <2>2, <2>3 DEF Neighbours
<1>5. ASSUME NEW i \in 1 .. Len(c) PROVE Neighbours(c[i]) \cap S # {}
  <2>1. CASE i # Len(c)
    <3>1. i \in 1 .. Len(c) - 1
      BY <2>1, <1>2
    <3>2. QED
      BY <3>1, <1>4
  <2>2. CASE i = Len(c)
    <3>1. 1 \in 1 .. Len(c) - 1 /\ c[i] = c[1]
      BY <2>2, <1>2
    <3>2. QED
      BY <3>1, <1>4
  <2>3. QED
    BY <2>1, <2>2
<1>6. \A n \in S : Neighbours(n) \cap S # {}
  BY <1>5
<1>7. QED
  BY <1>3, <1>6 DEF Cyclic

\* The search reports a cycle exactly if the declared graph has one.
THEOREM Completeness == Spec => []NoCycleMissed
<1>1. IInv => NoCycleMissed
  BY RankedIsAcyclic, ReportedIsCyclic DEF IInv, NoCycleMissed, SearchInv, Shape
<1>2. QED
  BY <1>1, Invariance, PTL

\* With honest declarations and a valid graph no chain of events repeats itself:
\* the rank falls with every answer.
THEOREM ChainsEnd == Spec => []ValidatedChainsEnd
<1>1. IInv => ValidatedChainsEnd
  <2> SUFFICES ASSUME IInv, pc = "valid", Honest,
                      NEW i \in 1 .. Len(chain), NEW j \in 1 .. Len(chain),
                      chain[i] = chain[j], i # j
               PROVE  FALSE
    BY DEF ValidatedChainsEnd
  <2>1. Len(chain) \in Nat /\ \A k \in 1 .. Len(chain) : chain[k] \in Event
    BY DEF IInv, SearchInv, Shape
  <2>2. rank[chain[i]] \in Nat
    BY <2>1, GraphAssumption DEF IInv, SearchInv, Shape
  <2>3. CASE i < j
    BY <2>2, <2>3 DEF IInv, ChainDescends
  <2>4. CASE j < i
    BY <2>2, <2>4 DEF IInv, ChainDescends
  <2>5. QED
    BY <2>3, <2>4
<1>2. QED
  BY <1>1, Invariance, PTL
=============================================================================
