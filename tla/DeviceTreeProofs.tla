-------------------------- MODULE DeviceTreeProofs --------------------------
(***************************************************************************)
(* Proofs about DeviceTree for every set of device ids, so for vectors of  *)
(* any length.                                                             *)
(***************************************************************************)
EXTENDS DeviceTree, FiniteSetTheorems, SequenceTheorems, TLAPS

(* A device is in the tree once.  add_child looks at all nodes before it    *)
(* adds one; the inductive invariant says that erasing does not duplicate.  *)
UniqueIds == \A i, j \in DOMAIN nodes : nodes[i].id = nodes[j].id => i = j

IInv == TypeOK /\ UniqueIds

-----------------------------------------------------------------------------
(* What the operations do to the vector.                                    *)

(* A node is added behind the others. *)
LEMMA AddedNode ==
    ASSUME TypeOK, UniqueIds, NEW n \in Node, ~Has(n.id), nodes' = Append(nodes, n)
    PROVE  nodes' \in Seq(Node) /\ UniqueIds'
<1>1. /\ nodes' \in Seq(Node) /\ DOMAIN nodes' = 1..(Len(nodes) + 1) /\ DOMAIN nodes = 1..Len(nodes)
      /\ Len(nodes) \in Nat
      /\ \A i \in 1..Len(nodes) : nodes'[i] = nodes[i]
      /\ nodes'[Len(nodes) + 1] = n
    BY AppendProperties, LenProperties DEF TypeOK
<1>2. ASSUME NEW i \in DOMAIN nodes', NEW j \in DOMAIN nodes', nodes'[i].id = nodes'[j].id
      PROVE  i = j
    BY <1>1, <1>2 DEF Has, UniqueIds
<1> QED
    BY <1>1, <1>2 DEF UniqueIds

(* A node is erased: the nodes behind it move one place to the front. *)
LEMMA RemovedNode ==
    ASSUME TypeOK, UniqueIds, NEW i \in DOMAIN nodes, nodes' = RemoveAt(nodes, i)
    PROVE  nodes' \in Seq(Node) /\ UniqueIds'
<1> DEFINE front == SubSeq(nodes, 1, i - 1)
           back == SubSeq(nodes, i + 1, Len(nodes))
           old(k) == IF k < i THEN k ELSE k + 1
<1>1. nodes \in Seq(Node) /\ Len(nodes) \in Nat /\ DOMAIN nodes = 1..Len(nodes) /\ i \in 1..Len(nodes)
    BY LenProperties DEF TypeOK
<1>2. \A k \in 1..Len(nodes) : nodes[k] \in Node
    BY <1>1, ElementOfSeq
<1>3. /\ front \in Seq(Node) /\ Len(front) = i - 1
      /\ \A k \in 1..(i - 1) : front[k] = nodes[k]
    BY <1>1, <1>2, SubSeqProperties
<1>4. /\ back \in Seq(Node) /\ Len(back) = Len(nodes) - i
      /\ \A k \in 1..(Len(nodes) - i) : back[k] = nodes[k + i]
  <2>1. ASSUME NEW k \in (i + 1)..Len(nodes) PROVE nodes[k] \in Node
      BY <1>1, <1>2
  <2>2. /\ back \in Seq(Node)
        /\ Len(back) = IF i + 1 <= Len(nodes) THEN Len(nodes) - (i + 1) + 1 ELSE 0
        /\ \A k \in 1..(Len(nodes) - (i + 1) + 1) : back[k] = nodes[(i + 1) + k - 1]
      BY <1>1, <2>1, SubSeqProperties
  <2> QED
      BY <1>1, <2>2
<1> HIDE DEF front, back
<1>5. nodes' = front \o back
    BY DEF RemoveAt, front, back
<1>6. /\ nodes' \in Seq(Node) /\ Len(nodes') = Len(nodes) - 1
      /\ \A k \in 1..(i - 1) : nodes'[k] = nodes[k]
      /\ \A k \in i..(Len(nodes) - 1) : nodes'[k] = nodes[k + 1]
  <2>1. /\ nodes' \in Seq(Node) /\ Len(nodes') = Len(front) + Len(back)
        /\ \A k \in 1..(Len(front) + Len(back)) :
              nodes'[k] = IF k <= Len(front) THEN front[k] ELSE back[k - Len(front)]
      BY <1>3, <1>4, <1>5, ConcatProperties
  <2>2. Len(front) + Len(back) = Len(nodes) - 1
      BY <1>1, <1>3, <1>4
  <2>3. ASSUME NEW k \in 1..(i - 1) PROVE nodes'[k] = nodes[k]
      BY <1>1, <1>3, <2>1, <2>2
  <2>4. ASSUME NEW k \in i..(Len(nodes) - 1) PROVE nodes'[k] = nodes[k + 1]
    <3>1. k - (i - 1) \in 1..(Len(nodes) - i) /\ (k - (i - 1)) + i = k + 1
        BY <1>1, <2>4
    <3>2. nodes'[k] = back[k - (i - 1)]
        BY <1>1, <1>3, <2>1, <2>2, <2>4
    <3> QED
        BY <1>4, <3>1, <3>2
  <2> QED
      BY <2>1, <2>2, <2>3, <2>4
<1>7. ASSUME NEW k \in DOMAIN nodes' PROVE old(k) \in DOMAIN nodes /\ nodes'[k] = nodes[old(k)]
  <2>1. k \in 1..(Len(nodes) - 1)
      BY <1>6, LenProperties
  <2>2. CASE k < i
    <3>1. k \in 1..(i - 1) /\ k \in 1..Len(nodes)
        BY <1>1, <2>1, <2>2
    <3> QED
        BY <1>1, <1>6, <2>2, <3>1
  <2>3. CASE k >= i
    <3>1. k \in i..(Len(nodes) - 1) /\ k + 1 \in 1..Len(nodes) /\ ~(k < i)
        BY <1>1, <2>1, <2>3
    <3> QED
        BY <1>1, <1>6, <3>1
  <2> QED
      BY <1>1, <2>1, <2>2, <2>3
<1>8. ASSUME NEW k \in DOMAIN nodes', NEW m \in DOMAIN nodes', nodes'[k].id = nodes'[m].id PROVE k = m
  <2>1. old(k) = old(m)
      BY <1>7, <1>8 DEF UniqueIds
  <2>2. k \in Nat /\ m \in Nat
      BY <1>6, LenProperties
  <2> QED
      BY <1>1, <2>1, <2>2
<1> QED
    BY <1>6, <1>8 DEF UniqueIds

(* The numbers up to n. *)
LEMMA FirstNumbers ==
    ASSUME NEW n \in Nat
    PROVE  IsFiniteSet(1..n) /\ Cardinality(1..n) = n
<1>1. 1 \in Int /\ n \in Int
    OBVIOUS
<1>2. IsFiniteSet(1..n) /\ Cardinality(1..n) = IF 1 > n THEN 0 ELSE n - 1 + 1
    BY <1>1, FS_Interval
<1> QED
    BY <1>2

(* The places of the nodes that remove(p) keeps, and of those it erases. *)
Staying(p) == {i \in DOMAIN nodes : nodes[i].parent # p}
Leaving(p) == {i \in DOMAIN nodes : nodes[i].parent = p}

(* The places are finitely many, and each is of one of the two kinds. *)
LEMMA Places ==
    ASSUME TypeOK, NEW p
    PROVE  /\ IsFiniteSet(Staying(p)) /\ IsFiniteSet(Leaving(p))
           /\ Cardinality(Staying(p)) \in Nat
           /\ Cardinality(Leaving(p)) = Len(nodes) - Cardinality(Staying(p))
<1>1. Len(nodes) \in Nat /\ DOMAIN nodes = 1..Len(nodes)
    BY LenProperties DEF TypeOK
<1>2. IsFiniteSet(DOMAIN nodes) /\ Cardinality(DOMAIN nodes) = Len(nodes)
    BY <1>1, FirstNumbers
<1>3. Staying(p) \subseteq DOMAIN nodes /\ Leaving(p) = DOMAIN nodes \ Staying(p)
      /\ DOMAIN nodes \cap Staying(p) = Staying(p)
    BY DEF Staying, Leaving
<1>4. IsFiniteSet(Staying(p))
    BY <1>2, <1>3, FS_Subset
<1>5. IsFiniteSet(Leaving(p)) /\ Cardinality(Leaving(p)) = Cardinality(DOMAIN nodes) - Cardinality(Staying(p))
    BY <1>2, <1>3, FS_Difference
<1> QED
    BY <1>2, <1>4, <1>5, FS_CardinalityType

(* The nodes that stay are moved to the front, each of them once. *)
LEMMA KeptNodes ==
    ASSUME TypeOK, UniqueIds, NEW p, remove(p)
    PROVE  /\ nodes' \in Seq(Node) /\ Len(nodes') = Cardinality(Staying(p))
           /\ \A m \in DOMAIN nodes' : \E i \in Staying(p) : nodes'[m] = nodes[i]
           /\ \A i \in Staying(p) : \E m \in DOMAIN nodes' : nodes'[m] = nodes[i]
           /\ UniqueIds'
<1> DEFINE k == Cardinality(Staying(p))
<1>1. PICK from \in [1..k -> Staying(p)] :
          /\ \A i, j \in DOMAIN from : i < j => from[i] < from[j]
          /\ nodes' = [i \in DOMAIN from |-> nodes[from[i]]]
    BY DEF remove, Staying
<1>2. k \in Nat /\ IsFiniteSet(Staying(p)) /\ Staying(p) \subseteq Nat
  <2>1. k \in Nat /\ IsFiniteSet(Staying(p))
      BY Places
  <2>2. DOMAIN nodes \subseteq Nat
      BY LenProperties DEF TypeOK
  <2> QED
      BY <2>1, <2>2 DEF Staying
<1>3. from \in Injection(1..k, Staying(p))
  <2>1. ASSUME NEW i \in 1..k, NEW j \in 1..k, from[i] = from[j] PROVE i = j
    <3>1. from[i] \in Nat /\ from[j] \in Nat
        BY <1>2
    <3> QED
        BY <1>1, <1>2, <2>1, <3>1
  <2> QED
      BY <2>1 DEF Injection, IsInjective
<1>4. from \in Surjection(1..k, Staying(p))
  <2>1. Cardinality(1..k) = k
      BY <1>2, FirstNumbers
  <2> QED
      BY <1>2, <1>3, <2>1, FS_Injection
<1>5. /\ nodes' \in [1..k -> Node] /\ DOMAIN nodes' = 1..k
      /\ \A m \in 1..k : nodes'[m] = nodes[from[m]]
  <2>1. \A i \in DOMAIN nodes : nodes[i] \in Node
      BY LenProperties, ElementOfSeq DEF TypeOK
  <2> QED
      BY <1>1, <2>1 DEF Staying
<1>6. nodes' \in Seq(Node) /\ Len(nodes') = k
  <2>1. nodes' \in Seq(Node)
      BY <1>2, <1>5, SeqDef
  <2> QED
      BY <1>2, <1>5, <2>1, LenProperties
<1>7. \A i \in Staying(p) : \E m \in 1..k : from[m] = i
    BY <1>4 DEF Surjection
<1>8. UniqueIds'
  <2>1. ASSUME NEW i \in 1..k, NEW j \in 1..k, nodes'[i].id = nodes'[j].id PROVE i = j
    <3>1. from[i] = from[j]
        BY <1>1, <1>5, <2>1 DEF UniqueIds, Staying
    <3> QED
        BY <1>3, <3>1 DEF Injection, IsInjective
  <2> QED
      BY <1>5, <2>1 DEF UniqueIds
<1> QED
    BY <1>1, <1>5, <1>6, <1>7, <1>8

-----------------------------------------------------------------------------
(* The initial state satisfies the inductive invariant. *)
LEMMA InitIInv == Init => IInv
BY EmptySeq DEF Init, IInv, TypeOK, UniqueIds

(* Every step keeps the inductive invariant. *)
LEMMA StepIInv == IInv /\ [Next]_vars => IInv'
<1> SUFFICES ASSUME TypeOK, UniqueIds, [Next]_vars PROVE TypeOK' /\ UniqueIds'
    BY DEF IInv
<1>1. ASSUME NEW p \in Ids, NEW d \in Ids, NEW func \in BOOLEAN, add_child(p, d, func)
      PROVE  TypeOK' /\ UniqueIds'
  <2>1. CASE Has(d)
      BY <1>1, <2>1 DEF add_child, vars, TypeOK, UniqueIds
  <2>2. CASE ~Has(d)
    <3> DEFINE n == [parent |-> p, id |-> d, func |-> func]
    <3>1. n \in Node /\ n.id = d
        BY DEF Node
    <3>2. nodes' = Append(nodes, n) /\ called' = called \ {d} /\ owed' = owed \ {d}
        BY <1>1, <2>2 DEF add_child
    <3> HIDE DEF n
    <3>3. nodes' \in Seq(Node) /\ UniqueIds'
        BY <2>2, <3>1, <3>2, AddedNode
    <3> QED
        BY <3>2, <3>3 DEF TypeOK
  <2> QED
      BY <2>1, <2>2
<1>2. ASSUME NEW p \in Ids, NEW d \in Ids, remove_child(p, d) PROVE TypeOK' /\ UniqueIds'
  <2>1. PICK i \in DOMAIN nodes : nodes' = RemoveAt(nodes, i) /\ UNCHANGED <<called, owed>>
      BY <1>2 DEF remove_child
  <2> QED
      BY <2>1, RemovedNode DEF TypeOK
<1>3. ASSUME NEW p \in Ids, remove(p) PROVE TypeOK' /\ UniqueIds'
  <2>1. nodes' \in Seq(Node) /\ UniqueIds'
      BY <1>3, KeptNodes
  <2>2. \A i \in DOMAIN nodes : nodes[i].id \in Ids
    <3>1. \A i \in DOMAIN nodes : nodes[i] \in Node
        BY LenProperties, ElementOfSeq DEF TypeOK
    <3> QED
        BY <3>1 DEF Node
  <2>3. called' \subseteq owed' /\ owed' \subseteq Ids
      BY <1>3, <2>2 DEF remove, TypeOK
  <2> QED
      BY <2>1, <2>3 DEF TypeOK
<1>4. CASE UNCHANGED vars
    BY <1>4 DEF vars, TypeOK, UniqueIds
<1> QED
    BY <1>1, <1>2, <1>3, <1>4 DEF Next

(* The inductive invariant holds in every reachable state. *)
THEOREM Invariance == Spec => []IInv
<1>1. QED
    BY InitIInv, StepIInv, PTL DEF Spec

(* Type correctness: only devices that are owed a call are called. *)
THEOREM TypeCorrect == Spec => []TypeOK
<1>1. IInv => TypeOK
    BY DEF IInv
<1>2. QED
    BY <1>1, Invariance, PTL

(* What parent returns for a device that is at some place of the vector. *)
LEMMA ParentOf ==
    ASSUME TypeOK, UniqueIds, NEW i \in DOMAIN nodes
    PROVE  parent(nodes[i].id) = {nodes[i].parent}
<1>1. ASSUME NEW k \in 1..(i - 1) PROVE nodes[k].id # nodes[i].id
    BY LenProperties DEF TypeOK, UniqueIds
<1> QED
    BY <1>1 DEF parent, UniqueIds

(* The two queries agree about every device, in a vector of any length. *)
THEOREM TreeIsConsistent == Spec => []QueriesAgree
<1>1. IInv => QueriesAgree
  <2> SUFFICES ASSUME IInv, NEW p \in Ids, NEW d \in Ids
               PROVE  d \in all_children(p) <=> parent(d) = {p}
      BY DEF QueriesAgree
  <2>1. ASSUME NEW i \in DOMAIN nodes PROVE parent(nodes[i].id) = {nodes[i].parent}
      BY ParentOf DEF IInv
  <2>2. ASSUME d \in all_children(p) PROVE parent(d) = {p}
      BY <2>1, <2>2 DEF all_children
  <2>3. ASSUME parent(d) = {p} PROVE d \in all_children(p)
      BY <2>3 DEF parent, all_children
  <2> QED
      BY <2>2, <2>3
<1>2. QED
    BY <1>1, Invariance, PTL

-----------------------------------------------------------------------------
(* The callbacks.                                                           *)

(* A parent has as many children as nodes are erased with it. *)
LEMMA ChildrenAreNodes ==
    ASSUME TypeOK, UniqueIds, NEW p
    PROVE  Cardinality(all_children(p)) = Cardinality(Leaving(p))
<1> DEFINE f == [i \in Leaving(p) |-> nodes[i].id]
<1>1. f \in Bijection(Leaving(p), all_children(p))
    BY DEF Bijection, Injection, Surjection, IsInjective, UniqueIds, Leaving, all_children
<1>2. ExistsBijection(Leaving(p), all_children(p))
    BY <1>1 DEF ExistsBijection
<1> QED
    BY <1>2, Places, FS_Bijection

(* No other operation has a call to make. *)
LEMMA OnlyRemoveCalls ==
    ASSUME [Next]_vars
    PROVE  (owed' \subseteq owed /\ called' \subseteq called) \/ \E p \in Ids : remove(p)
BY DEF Next, vars, add_child, remove_child

(* A callback that runs tells the truth. *)
THEOREM CallbacksAreTrue == Spec => CallbackMeansParentRemoved
<1>1. IInv /\ [Next]_vars =>
        [\A d \in called' \ called :
            \E p \in parent(d) :
                /\ all_children(p)' = {}
                /\ Cardinality(all_children(p)) = Len(nodes) - Len(nodes')]_vars
  <2> SUFFICES ASSUME TypeOK, UniqueIds, [Next]_vars, NEW d \in called' \ called
               PROVE  \E p \in parent(d) :
                         /\ all_children(p)' = {}
                         /\ Cardinality(all_children(p)) = Len(nodes) - Len(nodes')
      BY DEF IInv
  <2>1. PICK p \in Ids : remove(p)
      BY OnlyRemoveCalls
  <2>2. PICK i \in DOMAIN nodes : nodes[i].parent = p /\ nodes[i].id = d
      BY <2>1 DEF remove
  <2>3. p \in parent(d)
      BY <2>2, ParentOf
  <2>4. all_children(p)' = {}
    <3>1. \A m \in DOMAIN nodes' : \E k \in Staying(p) : nodes'[m] = nodes[k]
        BY <2>1, KeptNodes
    <3>2. \A m \in DOMAIN nodes' : nodes'[m].parent # p
        BY <3>1 DEF Staying
    <3> QED
        BY <3>2 DEF all_children
  <2>5. Cardinality(all_children(p)) = Len(nodes) - Len(nodes')
      BY <2>1, KeptNodes, ChildrenAreNodes, Places
  <2> QED
      BY <2>3, <2>4, <2>5
<1>2. QED
    BY <1>1, Invariance, PTL DEF Spec, CallbackMeansParentRemoved

(* A callback is lost only under a node that stays: were all the nodes that *)
(* stay in front of it, its place would be beyond the new end.              *)
THEOREM LossIsExplained == Spec => LostOnlyUnderKept
<1>1. IInv /\ [Next]_vars =>
        [\A d \in (owed' \ owed) \ called' :
            \E i, j \in DOMAIN nodes : i < j /\ nodes[i].id = d /\ Contains(nodes', nodes[j])]_vars
  <2> SUFFICES ASSUME TypeOK, UniqueIds, [Next]_vars, NEW d \in (owed' \ owed) \ called'
               PROVE  \E i, j \in DOMAIN nodes :
                         i < j /\ nodes[i].id = d /\ Contains(nodes', nodes[j])
      BY DEF IInv
  <2>1. PICK p \in Ids : remove(p)
      BY OnlyRemoveCalls
  <2>2. PICK i \in DOMAIN nodes :
            nodes[i].parent = p /\ nodes[i].id = d /\ ~(i > Len(nodes'))
    <3> DEFINE removed == {k \in DOMAIN nodes : nodes[k].parent = p /\ nodes[k].func}
    <3>1. /\ called' = called \cup {nodes[k].id : k \in {m \in removed : m > Len(nodes')}}
          /\ owed' = owed \cup {nodes[k].id : k \in removed}
        BY <2>1 DEF remove
    <3>2. PICK k \in removed : d = nodes[k].id
        BY <3>1
    <3>3. ~(k > Len(nodes'))
        BY <3>1, <3>2
    <3> QED
        BY <3>2, <3>3
  <2>3. i \in Nat \ {0} /\ DOMAIN nodes \subseteq Nat \ {0}
      BY LenProperties DEF TypeOK
  <2>4. i <= Cardinality(Staying(p)) /\ Cardinality(Staying(p)) \in Nat
      BY <2>1, <2>2, <2>3, KeptNodes, Places
  <2>5. PICK j \in Staying(p) : i < j
    <3>1. SUFFICES ASSUME \A j \in Staying(p) : ~(i < j) PROVE FALSE
        OBVIOUS
    <3>2. i \notin Staying(p)
        BY <2>2 DEF Staying
    <3>3. Staying(p) \subseteq 1..(i - 1)
        BY <2>3, <3>1, <3>2 DEF Staying
    <3>4. IsFiniteSet(1..(i - 1)) /\ Cardinality(1..(i - 1)) = i - 1
      <4>1. i - 1 \in Nat
          BY <2>3
      <4> QED
          BY <4>1, FirstNumbers
    <3>5. Cardinality(Staying(p)) <= i - 1
        BY <3>3, <3>4, FS_Subset
    <3> QED
        BY <2>3, <2>4, <3>5
  <2>6. Contains(nodes', nodes[j])
    <3>1. \E m \in DOMAIN nodes' : nodes'[m] = nodes[j]
        BY <2>1, KeptNodes
    <3>2. DOMAIN nodes' = 1..Len(nodes')
        BY <2>1, KeptNodes, LenProperties
    <3> QED
        BY <3>1, <3>2 DEF Contains
  <2> QED
      BY <2>2, <2>5, <2>6 DEF Staying
<1>2. QED
    BY <1>1, Invariance, PTL DEF Spec, LostOnlyUnderKept

=============================================================================
