-------------------------- MODULE DeviceSyncProofs --------------------------
(***************************************************************************)
(* Proofs about DeviceSync for every set of devices with any number of     *)
(* parts, all their values, and any number of coroutines in flight.        *)
(***************************************************************************)
EXTENDS DeviceSync, SequenceTheorems, TLAPS

(* The variables are functions of the devices and of the parts. *)
Shape ==
    /\ hw = [d \in Devices |-> hw[d]] /\ seen = [d \in Devices |-> seen[d]]
    /\ status = [d \in Devices |-> status[d]] /\ create = [d \in Devices |-> create[d]]
    /\ syncs = [d \in Devices |-> syncs[d]]
    /\ ha = [p \in Parts |-> ha[p]] /\ link = [p \in Parts |-> link[p]]
    /\ cause = [p \in Parts |-> cause[p]]

MadePhases == {"up", "down", "config", "stuck"}

(* async_create has come to a part only when it is through with the parts  *)
(* before it.                                                               *)
CreateInv ==
    \A d \in Devices : status[d] = "creating" =>
        \A i \in 1..(create[d] - 1) : link[PartsOf[d][i]] \in MadePhases \cup {"failed"}

(* A listed device has been created with all its parts. *)
ListedInv ==
    \A d \in Devices : status[d] = "listed" =>
        \A i \in 1..Len(PartsOf[d]) : link[PartsOf[d][i]] \in MadePhases

(* The coroutines s of the device d are going to publish the state of p. *)
Covers(s, d, p) ==
    \E k \in DOMAIN s : \E i \in s[k]..Len(PartsOf[d]) : PartsOf[d][i] = p

(* The broker has what p shows of the value v. *)
IsShown(p, v) == Shown[p][v] = "undefined" \/ ha[p] = Shown[p][v]

(* What makes StalenessExplained inductive: while nothing is in flight and *)
(* nothing was missed, the broker has what the poller remembers, also when *)
(* the hardware has moved on.  It does not depend on the device's being in *)
(* the list yet.                                                            *)
SeenInv ==
    \A p \in Parts \ Silent :
        link[p] = "up" /\ cause[p] = "none" /\ ~Covers(syncs[DeviceOf[p]], DeviceOf[p], p)
            => IsShown(p, seen[DeviceOf[p]])

IInv == TypeOK /\ Shape /\ CreateInv /\ ListedInv /\ SeenInv

-----------------------------------------------------------------------------
(* The devices and their parts.                                             *)

(* The parts of a device are a sequence of one or more. *)
LEMMA PartsSeq ==
    ASSUME NEW d \in Devices
    PROVE  /\ PartsOf[d] \in Seq(ToSet(PartsOf[d]))
           /\ DOMAIN PartsOf[d] = 1..Len(PartsOf[d])
           /\ Len(PartsOf[d]) \in Nat \ {0}
           /\ \A i, j \in 1..Len(PartsOf[d]) : PartsOf[d][i] = PartsOf[d][j] => i = j
<1> DEFINE s == PartsOf[d]
           S == ToSet(PartsOf[d])
<1>1. s \in Seq(S) /\ s # <<>> /\ \A i, j \in DOMAIN s : s[i] = s[j] => i = j
    BY PartsAssumption DEF IsInjective
<1> HIDE DEF s, S
<1>2. Len(s) \in Nat /\ DOMAIN s = 1..Len(s) /\ Len(s) # 0
    BY <1>1, LenProperties, EmptySeq
<1> QED
    BY <1>1, <1>2 DEF s, S

(* The parts of a device are parts, of this device only. *)
LEMMA DeviceOfPart ==
    ASSUME NEW d \in Devices, NEW i \in 1..Len(PartsOf[d])
    PROVE  PartsOf[d][i] \in Parts /\ DeviceOf[PartsOf[d][i]] = d
<1> DEFINE p == PartsOf[d][i]
<1>1. p \in ToSet(PartsOf[d])
    BY PartsSeq DEF ToSet
<1> HIDE DEF p
<1>2. p \in Parts
    BY <1>1 DEF Parts
<1>3. \A e \in Devices : p \in ToSet(PartsOf[e]) => e = d
    BY <1>1, PartsAssumption
<1>4. (CHOOSE e \in Devices : p \in ToSet(PartsOf[e])) = d
    BY <1>1, <1>3
<1> QED
    BY <1>2, <1>4 DEF DeviceOf, p

(* Every part has its place in its device. *)
LEMMA PlaceOfPart ==
    ASSUME NEW p \in Parts
    PROVE  DeviceOf[p] \in Devices /\ \E i \in 1..Len(PartsOf[DeviceOf[p]]) : PartsOf[DeviceOf[p]][i] = p
<1>1. PICK d \in Devices : p \in ToSet(PartsOf[d])
    BY DEF Parts
<1>2. PICK i \in 1..Len(PartsOf[d]) : PartsOf[d][i] = p
    BY <1>1, PartsSeq DEF ToSet
<1>3. DeviceOf[p] = d
    BY <1>2, DeviceOfPart
<1> QED
    BY <1>2, <1>3

(* The set of the parts of a device. *)
LEMMA PartsSet ==
    ASSUME NEW d \in Devices
    PROVE  /\ \A p \in ToSet(PartsOf[d]) : p \in Parts /\ DeviceOf[p] = d
           /\ \A p \in Parts : p \in ToSet(PartsOf[d]) <=> DeviceOf[p] = d
<1>1. \A p \in ToSet(PartsOf[d]) : p \in Parts /\ DeviceOf[p] = d
    BY PartsSeq, DeviceOfPart DEF ToSet
<1>2. ASSUME NEW p \in Parts, DeviceOf[p] = d PROVE p \in ToSet(PartsOf[d])
    BY <1>2, PlaceOfPart, PartsSeq DEF ToSet
<1> QED
    BY <1>1, <1>2

-----------------------------------------------------------------------------
(* The coroutines of a device, each at one of n parts.                      *)

(* A function of the first numbers is a sequence. *)
LEMMA FunctionIsSeq ==
    ASSUME NEW S, NEW n \in Nat, NEW f \in [1..n -> S]
    PROVE  f \in Seq(S) /\ Len(f) = n
<1>1. f \in Seq(S)
    BY SeqDef
<1>2. DOMAIN f = 1..n /\ DOMAIN f = 1..Len(f) /\ Len(f) \in Nat
    BY <1>1, LenProperties
<1>3. \A i \in Int : i \in 1..Len(f) <=> i \in 1..n
    BY <1>2
<1>4. Len(f) <= n /\ n <= Len(f)
    BY <1>2, <1>3
<1> QED
    BY <1>1, <1>2, <1>4

(* r, a sequence of elements of S, has what s has at other places than k.   *)
ShorterBy(r, s, k, S) ==
    /\ r \in Seq(S)
    /\ Len(r) = Len(s) - 1
    /\ \A m \in DOMAIN s \ {k} : \E i \in DOMAIN r : r[i] = s[m]

(* One of them ends, and the others stay as they are. *)
LEMMA RemovedOne ==
    ASSUME NEW S, NEW s \in Seq(S), NEW k \in DOMAIN s
    PROVE  ShorterBy(RemoveAt(s, k), s, k, S)
<1> DEFINE front == SubSeq(s, 1, k - 1)
           back == SubSeq(s, k + 1, Len(s))
           r == front \o back
<1>1. Len(s) \in Nat /\ DOMAIN s = 1..Len(s) /\ k \in 1..Len(s) /\ \A i \in 1..Len(s) : s[i] \in S
    BY LenProperties, ElementOfSeq
<1>2. front \in Seq(S) /\ Len(front) = k - 1 /\ \A i \in 1..(k - 1) : front[i] = s[i]
    BY <1>1, SubSeqProperties
<1>3. /\ back \in Seq(S) /\ Len(back) = Len(s) - k
      /\ \A i \in 1..(Len(s) - k) : back[i] = s[i + k]
  <2>1. ASSUME NEW i \in (k + 1)..Len(s) PROVE s[i] \in S
      BY <1>1
  <2>2. /\ back \in Seq(S)
        /\ Len(back) = IF k + 1 <= Len(s) THEN Len(s) - (k + 1) + 1 ELSE 0
        /\ \A i \in 1..(Len(s) - (k + 1) + 1) : back[i] = s[(k + 1) + i - 1]
      BY <1>1, <2>1, SubSeqProperties
  <2> HIDE DEF back
  <2>3. Len(back) = Len(s) - k
      BY <1>1, <2>2
  <2>4. ASSUME NEW i \in 1..(Len(s) - k) PROVE back[i] = s[i + k]
    <3>1. i \in 1..(Len(s) - (k + 1) + 1) /\ (k + 1) + i - 1 = i + k
        BY <1>1
    <3>2. back[i] = s[(k + 1) + i - 1]
        BY <2>2, <3>1
    <3> QED
        BY <3>1, <3>2
  <2> QED
      BY <2>2, <2>3, <2>4
<1> HIDE DEF front, back
<1>4. /\ r \in Seq(S) /\ Len(r) = Len(front) + Len(back)
      /\ \A i \in 1..(Len(front) + Len(back)) :
            r[i] = IF i <= Len(front) THEN front[i] ELSE back[i - Len(front)]
    BY <1>2, <1>3, ConcatProperties
<1> HIDE DEF r
<1>5. Len(r) = Len(s) - 1 /\ DOMAIN r = 1..(Len(s) - 1)
    BY <1>1, <1>2, <1>3, <1>4, LenProperties
<1>6. ASSUME NEW m \in DOMAIN s \ {k} PROVE \E i \in DOMAIN r : r[i] = s[m]
  <2>1. CASE m < k
    <3>1. m \in 1..(k - 1) /\ m \in 1..(Len(s) - 1) /\ m \in 1..(Len(front) + Len(back)) /\ m <= Len(front)
        BY <1>1, <1>2, <1>3, <2>1
    <3>2. r[m] = s[m]
        BY <1>2, <1>4, <3>1
    <3> QED
        BY <1>5, <3>1, <3>2
  <2>2. CASE m > k
    <3>1. /\ m - 1 \in 1..(Len(s) - 1) /\ m - 1 \in 1..(Len(front) + Len(back)) /\ ~(m - 1 <= Len(front))
          /\ m - k \in 1..(Len(s) - k) /\ (m - 1) - Len(front) = m - k /\ (m - k) + k = m
      <4>1. Len(s) \in Nat /\ m \in 1..Len(s) /\ k \in 1..Len(s)
          BY <1>1
      <4>2. Len(front) = k - 1 /\ Len(front) + Len(back) = Len(s) - 1
          BY <1>2, <1>3, <4>1
      <4>3. m - 1 \in 1..(Len(s) - 1) /\ m - k \in 1..(Len(s) - k) /\ (m - k) + k = m
          BY <2>2, <4>1
      <4>4. ~(m - 1 <= Len(front)) /\ (m - 1) - Len(front) = m - k
        <5>1. m \in Int /\ k \in Int
            BY <4>1
        <5> QED
            BY <2>2, <4>2, <5>1
      <4> QED
          BY <4>2, <4>3, <4>4
    <3>2. r[m - 1] = back[m - k] /\ back[m - k] = s[m]
        BY <1>3, <1>4, <3>1
    <3> QED
        BY <1>5, <3>1, <3>2
  <2> QED
      BY <1>1, <2>1, <2>2
<1>7. RemoveAt(s, k) = r
    BY DEF RemoveAt, front, back, r
<1> QED
    BY <1>4, <1>5, <1>6, <1>7 DEF ShorterBy

(* A new coroutine begins with the first part: it covers all of them.       *)
LEMMA CoverAll ==
    ASSUME NEW d \in Devices, NEW s \in Seq(1..Len(PartsOf[d]))
    PROVE  /\ Append(s, 1) \in Seq(1..Len(PartsOf[d])) /\ Len(Append(s, 1)) = Len(s) + 1
           /\ \A i \in 1..Len(PartsOf[d]) : Covers(Append(s, 1), d, PartsOf[d][i])
<1> DEFINE n == Len(PartsOf[d])
           r == Append(s, 1)
<1>1. n \in Nat \ {0} /\ 1 \in 1..n
    BY PartsSeq
<1> HIDE DEF n
<1>2. s \in Seq(1..n) /\ Len(s) \in Nat
    BY LenProperties DEF n
<1>3. /\ r \in Seq(1..n) /\ Len(r) = Len(s) + 1 /\ r[Len(s) + 1] = 1
      /\ DOMAIN r = 1..(Len(s) + 1)
    BY <1>1, <1>2, AppendProperties, LenProperties
<1>4. Len(s) + 1 \in DOMAIN r
    BY <1>2, <1>3
<1> HIDE DEF r
<1>5. ASSUME NEW i \in 1..n PROVE Covers(r, d, PartsOf[d][i])
    BY <1>3, <1>4, <1>5 DEF Covers, n
<1> QED
    BY <1>3, <1>5 DEF r, n

(* A coroutine that is through with its part goes on or ends: the parts     *)
(* that it covers are the same but for that one.                            *)
LEMMA CoverRest ==
    ASSUME NEW d \in Devices, NEW s \in Seq(1..Len(PartsOf[d])), NEW k \in DOMAIN s, NEW r,
           r = IF s[k] < Len(PartsOf[d]) THEN [s EXCEPT ![k] = @ + 1] ELSE RemoveAt(s, k)
    PROVE  /\ r \in Seq(1..Len(PartsOf[d])) /\ Len(r) <= Len(s)
           /\ \A i \in 1..Len(PartsOf[d]) :
                 i # s[k] /\ Covers(s, d, PartsOf[d][i]) => Covers(r, d, PartsOf[d][i])
<1> DEFINE n == Len(PartsOf[d])
<1>1. n \in Nat \ {0} /\ \A i, j \in 1..n : PartsOf[d][i] = PartsOf[d][j] => i = j
    BY PartsSeq
<1> HIDE DEF n
<1>2. /\ s \in Seq(1..n) /\ Len(s) \in Nat /\ DOMAIN s = 1..Len(s) /\ k \in DOMAIN s
      /\ \A m \in DOMAIN s : s[m] \in 1..n
    BY LenProperties, ElementOfSeq DEF n
<1>3. r = IF s[k] < n THEN [s EXCEPT ![k] = @ + 1] ELSE RemoveAt(s, k)
    BY DEF n
<1>4. /\ r \in Seq(1..n) /\ Len(r) <= Len(s)
      /\ \A m \in DOMAIN s \ {k} : \E i \in DOMAIN r : r[i] = s[m]
      /\ s[k] < n => \E i \in DOMAIN r : r[i] = s[k] + 1
  <2>1. CASE s[k] < n
    <3>1. s[k] + 1 \in 1..n
        BY <1>1, <1>2, <2>1
    <3>2. r = [s EXCEPT ![k] = s[k] + 1]
        BY <1>3, <2>1
    <3>3. r \in Seq(1..n) /\ Len(r) = Len(s)
      <4>1. r \in [1..Len(s) -> 1..n] /\ Len(s) \in Nat
          BY <1>2, <3>1, <3>2
      <4>2. PICK S : S = 1..n
          OBVIOUS
      <4>3. PICK m \in Nat : m = Len(s)
          BY <4>1
      <4>4. r \in [1..m -> S]
          BY <4>1, <4>2, <4>3
      <4>5. r \in Seq(S) /\ Len(r) = m
          BY <4>4, FunctionIsSeq
      <4> QED
          BY <4>2, <4>3, <4>5
    <3>4. DOMAIN r = DOMAIN s /\ r[k] = s[k] + 1 /\ \A m \in DOMAIN s \ {k} : r[m] = s[m]
        BY <1>2, <3>1, <3>2
    <3> QED
        BY <1>2, <3>3, <3>4
  <2>2. CASE ~(s[k] < n)
    <3>1. r = RemoveAt(s, k)
        BY <1>3, <2>2
    <3>2. /\ r \in Seq(1..n) /\ Len(r) = Len(s) - 1
          /\ \A m \in DOMAIN s \ {k} : \E i \in DOMAIN r : r[i] = s[m]
      <4>1. PICK S : S = 1..n
          OBVIOUS
      <4>2. s \in Seq(S) /\ k \in DOMAIN s
          BY <1>2, <4>1
      <4>3. ShorterBy(r, s, k, S)
          BY <3>1, <4>2, RemovedOne
      <4> QED
          BY <4>1, <4>3 DEF ShorterBy
    <3>3. Len(r) <= Len(s)
      <4>1. Len(s) \in Nat /\ Len(r) = Len(s) - 1
          BY <1>2, <3>2
      <4> QED
          BY <4>1
    <3> QED
        BY <2>2, <3>2, <3>3
  <2> QED
      BY <2>1, <2>2
<1>5. ASSUME NEW i \in 1..n, i # s[k], Covers(s, d, PartsOf[d][i]) PROVE Covers(r, d, PartsOf[d][i])
  <2>1. PICK m \in DOMAIN s : \E j \in s[m]..n : PartsOf[d][j] = PartsOf[d][i]
      BY <1>5 DEF Covers, n
  <2>2. i \in s[m]..n
    <3>1. PICK j \in s[m]..n : PartsOf[d][j] = PartsOf[d][i]
        BY <2>1
    <3>2. s[m] \in 1..n /\ j \in 1..n
        BY <1>1, <1>2, <3>1
    <3> QED
        BY <1>1, <3>1, <3>2
  <2>3. CASE m = k
    <3>1. s[k] < n /\ i \in (s[k] + 1)..n
        BY <1>1, <1>2, <1>5, <2>2, <2>3
    <3> QED
        BY <1>4, <3>1 DEF Covers, n
  <2>4. CASE m # k
      BY <1>4, <2>2, <2>4 DEF Covers, n
  <2> QED
      BY <2>3, <2>4
<1> QED
    BY <1>4, <1>5 DEF n

-----------------------------------------------------------------------------
(* The steps.                                                               *)

(* The type invariant, about each device and each part. *)
DevicesTyped ==
    \A d \in Devices :
        /\ hw[d] \in Values[d] /\ seen[d] \in Values[d] \cup {InitialSeen[d]}
        /\ status[d] \in {"absent", "creating", "listed", "failed"}
        /\ create[d] \in 1..Len(PartsOf[d])
        /\ syncs[d] \in Seq(1..Len(PartsOf[d])) /\ Len(syncs[d]) <= MaxSyncs

PartsTyped ==
    \A p \in Parts :
        /\ link[p] \in Phases
        /\ p \notin Silent => ha[p] \in PublishedBy(p) \cup {"nothing"}
        /\ cause[p] \in {"none", "dropped", "unpolled"}

(* ... before and after a step. *)
LEMMA Typed ==
    /\ TypeOK <=> DevicesTyped /\ PartsTyped /\ dead \in BOOLEAN
    /\ TypeOK' <=> DevicesTyped' /\ PartsTyped' /\ dead' \in BOOLEAN
BY DEF TypeOK, DevicesTyped, PartsTyped, Entity!TypeOK, Entity!Phases, Phases

Over == MadePhases \cup {"failed"}

(* Nothing but the entity of p has moved. *)
Moved(p) ==
    /\ link' = [q \in Parts |-> link'[q]]
    /\ link'[p] \in Phases
    /\ \A q \in Parts \ {p} : link'[q] = link[q]

(* The entity of p moves. *)
LEMMA MovesOne ==
    ASSUME Shape, NEW p \in Parts, Moves(p)
    PROVE  Moved(p)
<1>1. PICK phase \in Phases : link' = [link EXCEPT ![p] = phase]
    BY DEF Moves
<1>2. link = [q \in Parts |-> link[q]]
    BY DEF Shape
<1>3. link' = [q \in Parts |-> IF q = p THEN phase ELSE link[q]]
    BY <1>1, <1>2
<1> QED
    BY <1>3 DEF Moved

(* The state of p has been read and, if it reaches the broker, published.   *)
SyncedAt(p) ==
    /\ ha' = [q \in Parts |-> ha'[q]]
    /\ cause' = [q \in Parts |-> cause'[q]]
    /\ \A q \in Parts \ {p} : ha'[q] = ha[q] /\ cause'[q] = cause[q]
    /\ p \notin Silent => ha'[p] \in PublishedBy(p) \cup {"nothing"}
    /\ cause'[p] \in {"none", "unpolled"}
    /\ p \notin Silent /\ Entity(p)!Reaches /\ cause'[p] = "none" =>
           \/ Shown[p][seen[DeviceOf[p]]] = "undefined"
           \/ ha'[p] = Shown[p][seen[DeviceOf[p]]]

LEMMA SyncEffect ==
    ASSUME Shape, DevicesTyped, PartsTyped, NEW p \in Parts, async_sync_state(p)
    PROVE  SyncedAt(p)
<1> DEFINE d == DeviceOf[p]
<1>1. ha = [q \in Parts |-> ha[q]] /\ cause = [q \in Parts |-> cause[q]]
    BY DEF Shape
<1>2. d \in Devices /\ hw[d] \in Values[d]
    BY PlaceOfPart DEF DevicesTyped
<1>3. /\ cause' = [q \in Parts |-> cause'[q]]
      /\ \A q \in Parts \ {p} : cause'[q] = cause[q]
      /\ cause'[p] = IF hw[d] = seen[d] THEN "none" ELSE "unpolled"
  <2>1. cause' = [cause EXCEPT ![p] = IF hw[d] = seen[d] THEN "none" ELSE "unpolled"]
      BY DEF async_sync_state, ReadOf
  <2> DEFINE c == IF hw[d] = seen[d] THEN "none" ELSE "unpolled"
  <2> HIDE DEF c
  <2>2. cause' = [q \in Parts |-> IF q = p THEN c ELSE cause[q]]
      BY <1>1, <2>1 DEF c
  <2>3. /\ cause' = [q \in Parts |-> cause'[q]]
        /\ \A q \in Parts \ {p} : cause'[q] = cause[q]
        /\ cause'[p] = c
      BY <2>2
  <2> QED
      BY <2>3 DEF c
<1>4. CASE p \notin Silent /\ state(p) # "undefined" /\ Entity(p)!Reaches
  <2>1. ha' = [ha EXCEPT ![p] = state(p)]
      BY <1>4 DEF async_sync_state
  <2>2. /\ ha' = [q \in Parts |-> ha'[q]] /\ ha'[p] = state(p)
        /\ \A q \in Parts \ {p} : ha'[q] = ha[q]
      BY <1>1, <2>1
  <2>3. state(p) = Shown[p][hw[d]] /\ state(p) \in PublishedBy(p)
      BY <1>2, <1>4 DEF state, PublishedBy
  <2>4. cause'[p] = "none" => ha'[p] = Shown[p][seen[d]]
      BY <1>3, <2>2, <2>3
  <2> HIDE DEF d
  <2> QED
      BY <1>3, <2>2, <2>3, <2>4 DEF SyncedAt, d
<1>5. CASE ~(p \notin Silent /\ state(p) # "undefined" /\ Entity(p)!Reaches)
  <2>1. ha' = ha
      BY <1>5 DEF async_sync_state
  <2>2. p \notin Silent /\ Entity(p)!Reaches /\ cause'[p] = "none" => Shown[p][seen[d]] = "undefined"
      BY <1>3, <1>5 DEF state
  <2>3. p \notin Silent => ha'[p] \in PublishedBy(p) \cup {"nothing"}
      BY <2>1 DEF PartsTyped
  <2> QED
      BY <1>1, <1>3, <2>1, <2>2, <2>3 DEF SyncedAt
<1> QED
    BY <1>4, <1>5

(* No part is ever unmade. *)
LEMMA PartsKept ==
    ASSUME IInv, UNCHANGED <<status, create>>,
           \A q \in Parts : /\ link[q] \in MadePhases => link'[q] \in MadePhases
                            /\ link[q] \in Over => link'[q] \in Over
    PROVE  CreateInv' /\ ListedInv'
<1>1. \A d \in Devices : \A i \in 1..(create[d] - 1) : PartsOf[d][i] \in Parts
  <2>1. ASSUME NEW d \in Devices, NEW i \in 1..(create[d] - 1) PROVE i \in 1..Len(PartsOf[d])
      BY PartsSeq, Typed DEF IInv, DevicesTyped
  <2> QED
      BY <2>1, DeviceOfPart
<1>2. CreateInv'
    BY <1>1 DEF IInv, CreateInv, Over
<1>3. ListedInv'
    BY DeviceOfPart DEF IInv, ListedInv
<1> QED
    BY <1>2, <1>3

(* An entity moves without publishing its state, to a place where it is not *)
(* used.                                                                    *)
LEMMA QuietStep ==
    ASSUME IInv, NEW p \in Parts, Moved(p), link'[p] # "up",
           link[p] \in MadePhases => link'[p] \in MadePhases,
           link[p] \in Over => link'[p] \in Over,
           UNCHANGED <<hw, seen, ha, status, create, syncs, dead, cause>>
    PROVE  IInv'
<1> USE DEF IInv
<1>1. /\ link' = [q \in Parts |-> link'[q]] /\ link'[p] \in Phases
      /\ \A q \in Parts \ {p} : link'[q] = link[q]
    BY DEF Moved
<1>2. TypeOK'
    BY <1>1, Typed DEF DevicesTyped, PartsTyped, PublishedBy
<1>3. Shape'
    BY <1>1 DEF Shape
<1>4. \A q \in Parts : /\ link[q] \in MadePhases => link'[q] \in MadePhases
                       /\ link[q] \in Over => link'[q] \in Over
    BY <1>1
<1>5. CreateInv' /\ ListedInv'
    BY <1>4, PartsKept
<1>6. SeenInv'
    BY <1>1 DEF SeenInv, IsShown, Covers
<1> QED
    BY <1>2, <1>3, <1>5, <1>6

(* An entity has been configured: it is used, with the state published, or  *)
(* it has lost its session.                                                 *)
LEMMA ConfiguredStep ==
    ASSUME IInv, NEW p \in Parts, Moved(p), SyncedAt(p), link'[p] \in {"up", "down"},
           link'[p] = "up" => Entity(p)!Reaches,
           UNCHANGED <<hw, seen, status, create, syncs, dead>>
    PROVE  IInv'
<1> USE DEF IInv
<1>1. /\ link' = [q \in Parts |-> link'[q]] /\ link'[p] \in Phases
      /\ \A q \in Parts \ {p} : link'[q] = link[q]
    BY DEF Moved
<1>2. TypeOK'
  <2>1. DevicesTyped'
      BY Typed DEF DevicesTyped
  <2>2. PartsTyped'
      BY <1>1, Typed DEF PartsTyped, SyncedAt, PublishedBy
  <2> QED
      BY <2>1, <2>2, Typed
<1>3. Shape'
    BY <1>1 DEF Shape, SyncedAt
<1>4. \A q \in Parts : /\ link[q] \in MadePhases => link'[q] \in MadePhases
                       /\ link[q] \in Over => link'[q] \in Over
    BY <1>1 DEF MadePhases, Over
<1>5. CreateInv' /\ ListedInv'
    BY <1>4, PartsKept
<1>6. SeenInv'
  <2> SUFFICES ASSUME NEW q \in Parts \ Silent, link'[q] = "up", cause'[q] = "none",
                      ~Covers(syncs[DeviceOf[q]], DeviceOf[q], q)
               PROVE  \/ Shown[q][seen[DeviceOf[q]]] = "undefined"
                      \/ ha'[q] = Shown[q][seen[DeviceOf[q]]]
      BY DEF SeenInv, IsShown, Covers
  <2>1. CASE q = p
      BY <2>1 DEF SyncedAt
  <2>2. CASE q # p
    <3>1. link[q] = "up" /\ cause[q] = "none" /\ ha'[q] = ha[q]
        BY <1>1, <2>2 DEF SyncedAt
    <3> QED
        BY <3>1 DEF SeenInv, IsShown
  <2> QED
      BY <2>1, <2>2
<1> QED
    BY <1>2, <1>3, <1>5, <1>6

(* A poller publishes an event: what it remembers is going to be published. *)
LEMMA PollStep ==
    ASSUME IInv, NEW d \in Devices, Poll(d)
    PROVE  IInv'
<1> USE DEF IInv
<1>1. /\ seen' = [seen EXCEPT ![d] = hw[d]]
      /\ cause' = [p \in Parts |-> IF p \in ToSet(PartsOf[d]) THEN "none" ELSE cause[p]]
      /\ syncs' = [syncs EXCEPT ![d] = Append(syncs[d], 1)]
      /\ Len(syncs[d]) < MaxSyncs
      /\ UNCHANGED <<hw, ha, link, status, create, dead>>
    BY DEF Poll, Remember
<1>2. DevicesTyped /\ PartsTyped /\ dead \in BOOLEAN
    BY Typed
<1>3. /\ seen' = [e \in Devices |-> seen'[e]] /\ seen'[d] = hw[d]
      /\ syncs' = [e \in Devices |-> syncs'[e]] /\ syncs'[d] = Append(syncs[d], 1)
      /\ \A e \in Devices \ {d} : seen'[e] = seen[e] /\ syncs'[e] = syncs[e]
  <2>1. seen = [e \in Devices |-> seen[e]] /\ syncs = [e \in Devices |-> syncs[e]]
      BY DEF Shape
  <2> QED
      BY <1>1, <2>1
<1>4. /\ syncs'[d] \in Seq(1..Len(PartsOf[d])) /\ Len(syncs'[d]) <= MaxSyncs
      /\ \A i \in 1..Len(PartsOf[d]) : Covers(syncs'[d], d, PartsOf[d][i])
  <2>1. syncs[d] \in Seq(1..Len(PartsOf[d]))
      BY <1>2 DEF DevicesTyped
  <2>2. Len(syncs[d]) \in Nat
      BY <2>1, LenProperties
  <2>3. /\ syncs'[d] \in Seq(1..Len(PartsOf[d])) /\ Len(syncs'[d]) = Len(syncs[d]) + 1
        /\ \A i \in 1..Len(PartsOf[d]) : Covers(syncs'[d], d, PartsOf[d][i])
      BY <1>3, <2>1, CoverAll
  <2> QED
      BY <1>1, <2>2, <2>3, MaxSyncsAssumption
<1>5. TypeOK'
  <2>1. DevicesTyped'
      BY <1>1, <1>2, <1>3, <1>4 DEF DevicesTyped
  <2>2. PartsTyped'
      BY <1>1, <1>2 DEF PartsTyped, PublishedBy
  <2> QED
      BY <1>1, <1>2, <2>1, <2>2, Typed
<1>6. Shape'
    BY <1>1, <1>3 DEF Shape
<1>7. CreateInv' /\ ListedInv'
    BY <1>1, PartsKept
<1>8. SeenInv'
  <2> SUFFICES ASSUME NEW p \in Parts \ Silent, link'[p] = "up", cause'[p] = "none",
                      ~Covers(syncs'[DeviceOf[p]], DeviceOf[p], p)
               PROVE  IsShown(p, seen[DeviceOf[p]]) /\ seen'[DeviceOf[p]] = seen[DeviceOf[p]]
      BY <1>1 DEF SeenInv, IsShown, Covers
  <2>1. DeviceOf[p] # d
      BY <1>4, PlaceOfPart
  <2>2. /\ p \notin ToSet(PartsOf[d]) /\ DeviceOf[p] \in Devices
        /\ syncs'[DeviceOf[p]] = syncs[DeviceOf[p]] /\ seen'[DeviceOf[p]] = seen[DeviceOf[p]]
      BY <1>3, <2>1, PartsSet, PlaceOfPart
  <2>3. cause[p] = "none" /\ link[p] = "up"
      BY <1>1, <2>2
  <2> QED
      BY <2>2, <2>3 DEF SeenInv
<1> QED
    BY <1>5, <1>6, <1>7, <1>8

(* An event is dropped: the parts that it was for and that are in use have  *)
(* a cause.                                                                 *)
LEMMA DroppedStep ==
    ASSUME IInv, NEW d \in Devices, NEW k \in DOMAIN syncs[d], StateChangedDropped(d, k)
    PROVE  IInv'
<1> USE DEF IInv
<1>1. /\ syncs' = [syncs EXCEPT ![d] = RemoveAt(syncs[d], k)]
      /\ cause' = [p \in Parts |-> IF p \in ReadByCreate(d) THEN "dropped" ELSE cause[p]]
      /\ UNCHANGED <<hw, seen, ha, link, status, create, dead>>
    BY DEF StateChangedDropped
<1>2. DevicesTyped /\ PartsTyped /\ dead \in BOOLEAN
    BY Typed
<1>3. /\ syncs' = [e \in Devices |-> syncs'[e]] /\ syncs'[d] = RemoveAt(syncs[d], k)
      /\ \A e \in Devices \ {d} : syncs'[e] = syncs[e]
  <2>1. syncs = [e \in Devices |-> syncs[e]]
      BY DEF Shape
  <2> QED
      BY <1>1, <2>1
<1>4. syncs'[d] \in Seq(1..Len(PartsOf[d])) /\ Len(syncs'[d]) <= MaxSyncs
  <2>1. PICK S : S = 1..Len(PartsOf[d])
      OBVIOUS
  <2>2. syncs[d] \in Seq(S) /\ Len(syncs[d]) <= MaxSyncs
      BY <1>2, <2>1 DEF DevicesTyped
  <2>3. ShorterBy(syncs'[d], syncs[d], k, S)
      BY <1>3, <2>2, RemovedOne
  <2>4. syncs'[d] \in Seq(S) /\ Len(syncs'[d]) = Len(syncs[d]) - 1
      BY <2>3 DEF ShorterBy
  <2>5. Len(syncs[d]) \in Nat
      BY <2>2, LenProperties
  <2>6. Len(syncs'[d]) <= MaxSyncs
      BY <2>2, <2>4, <2>5, MaxSyncsAssumption
  <2> QED
      BY <2>1, <2>4, <2>6
<1>5. TypeOK'
  <2>1. DevicesTyped'
      BY <1>1, <1>2, <1>3, <1>4 DEF DevicesTyped
  <2>2. PartsTyped'
      BY <1>1, <1>2 DEF PartsTyped, PublishedBy
  <2> QED
      BY <1>1, <1>2, <2>1, <2>2, Typed
<1>6. Shape'
    BY <1>1, <1>3 DEF Shape
<1>7. CreateInv' /\ ListedInv'
    BY <1>1, PartsKept
<1>8. SeenInv'
  <2> SUFFICES ASSUME NEW p \in Parts \ Silent, link'[p] = "up", cause'[p] = "none",
                      ~Covers(syncs'[DeviceOf[p]], DeviceOf[p], p)
               PROVE  IsShown(p, seen[DeviceOf[p]])
      BY <1>1 DEF SeenInv, IsShown, Covers
  <2>1. link[p] = "up" /\ Entity(p)!Made
      BY <1>1 DEF Entity!Made
  <2>2. p \notin ReadByCreate(d) /\ cause[p] = "none"
      BY <1>1
  <2>3. DeviceOf[p] # d
      BY <2>1, <2>2, PartsSet DEF ReadByCreate
  <2>4. syncs'[DeviceOf[p]] = syncs[DeviceOf[p]]
      BY <1>3, <2>3, PlaceOfPart
  <2> QED
      BY <2>1, <2>2, <2>4 DEF SeenInv
<1> QED
    BY <1>5, <1>6, <1>7, <1>8

(* A coroutine publishes the state of a part and goes on. *)
LEMMA SyncStep ==
    ASSUME IInv, NEW d \in Devices, NEW k \in DOMAIN syncs[d], StateChangedSync(d, k)
    PROVE  IInv'
<1> USE DEF IInv
<1>1. DevicesTyped /\ PartsTyped /\ dead \in BOOLEAN
    BY Typed
<1>2. syncs[d] \in Seq(1..Len(PartsOf[d])) /\ syncs[d][k] \in 1..Len(PartsOf[d])
    BY <1>1, ElementOfSeq, LenProperties DEF DevicesTyped
<1>3. PICK i \in 1..Len(PartsOf[d]) : i = syncs[d][k]
    BY <1>2
<1>4. PICK p \in Parts : p = PartsOf[d][i] /\ DeviceOf[p] = d
    BY DeviceOfPart
<1>5. SyncedAt(p) /\ UNCHANGED <<hw, seen, link, status, create, dead>>
    BY <1>1, <1>3, <1>4, SyncEffect DEF StateChangedSync
<1>6. /\ syncs' = [e \in Devices |-> syncs'[e]]
      /\ syncs'[d] = IF syncs[d][k] < Len(PartsOf[d]) THEN [syncs[d] EXCEPT ![k] = @ + 1]
                     ELSE RemoveAt(syncs[d], k)
      /\ \A e \in Devices \ {d} : syncs'[e] = syncs[e]
  <2>1. syncs = [e \in Devices |-> syncs[e]]
      BY DEF Shape
  <2>2. CASE syncs[d][k] < Len(PartsOf[d])
    <3>1. syncs' = [syncs EXCEPT ![d] = [syncs[d] EXCEPT ![k] = syncs[d][k] + 1]]
        BY <2>2 DEF StateChangedSync
    <3> QED
        BY <2>1, <2>2, <3>1
  <2>3. CASE ~(syncs[d][k] < Len(PartsOf[d]))
    <3>1. syncs' = [syncs EXCEPT ![d] = RemoveAt(syncs[d], k)]
        BY <2>3 DEF StateChangedSync
    <3> QED
        BY <2>1, <2>3, <3>1
  <2> QED
      BY <2>2, <2>3
<1>7. /\ syncs'[d] \in Seq(1..Len(PartsOf[d])) /\ Len(syncs'[d]) <= Len(syncs[d])
      /\ \A j \in 1..Len(PartsOf[d]) :
            j # syncs[d][k] /\ Covers(syncs[d], d, PartsOf[d][j]) => Covers(syncs'[d], d, PartsOf[d][j])
    BY <1>2, <1>6, CoverRest
<1>8. TypeOK'
  <2>1. Len(syncs'[d]) <= MaxSyncs
    <3>1. Len(syncs'[d]) \in Nat /\ Len(syncs[d]) \in Nat /\ Len(syncs[d]) <= MaxSyncs
        BY <1>1, <1>2, <1>7, LenProperties DEF DevicesTyped
    <3> QED
        BY <1>7, <3>1, MaxSyncsAssumption
  <2>2. DevicesTyped'
      BY <1>1, <1>5, <1>6, <1>7, <2>1 DEF DevicesTyped
  <2>3. PartsTyped'
      BY <1>1, <1>5 DEF PartsTyped, SyncedAt, PublishedBy
  <2> QED
      BY <1>1, <1>5, <2>2, <2>3, Typed
<1>9. Shape'
    BY <1>5, <1>6 DEF Shape, SyncedAt
<1>10. CreateInv' /\ ListedInv'
    BY <1>5, PartsKept
<1>11. SeenInv'
  <2> SUFFICES ASSUME NEW q \in Parts \ Silent, link[q] = "up", cause'[q] = "none",
                      ~Covers(syncs'[DeviceOf[q]], DeviceOf[q], q)
               PROVE  \/ Shown[q][seen[DeviceOf[q]]] = "undefined"
                      \/ ha'[q] = Shown[q][seen[DeviceOf[q]]]
      BY <1>5 DEF SeenInv, IsShown, Covers
  <2>1. CASE q = p
    <3>1. Entity(p)!Reaches
        BY <2>1 DEF Entity!Reaches
    <3> QED
        BY <1>5, <2>1, <3>1 DEF SyncedAt
  <2>2. CASE q # p
    <3>1. cause[q] = "none" /\ ha'[q] = ha[q]
        BY <1>5, <2>2 DEF SyncedAt
    <3>2. ~Covers(syncs[DeviceOf[q]], DeviceOf[q], q)
      <4>1. CASE DeviceOf[q] = d
        <5>1. PICK j \in 1..Len(PartsOf[d]) : PartsOf[d][j] = q
            BY <4>1, PlaceOfPart
        <5>2. j # syncs[d][k]
            BY <1>3, <1>4, <2>2, <5>1
        <5> QED
            BY <1>7, <4>1, <5>1, <5>2
      <4>2. CASE DeviceOf[q] # d
          BY <1>6, <4>2, PlaceOfPart
      <4> QED
          BY <4>1, <4>2
    <3> QED
        BY <3>1, <3>2 DEF SeenInv, IsShown
  <2> QED
      BY <2>1, <2>2
<1> QED
    BY <1>8, <1>9, <1>10, <1>11

(* async_create goes on with the next part, or is over: a device is listed  *)
(* only after its last part, and if none has failed.                        *)
LEMMA CreateNextStep ==
    ASSUME IInv, NEW d \in Devices, CreateNext(d)
    PROVE  IInv'
<1> USE DEF IInv
<1>1. DevicesTyped /\ PartsTyped /\ dead \in BOOLEAN
    BY Typed
<1>2. UNCHANGED <<hw, seen, ha, link, syncs, cause>>
    BY DEF CreateNext
<1>3. status[d] = "creating" /\ link[PartsOf[d][create[d]]] \in Over
  <2>1. PICK p \in Parts : Creating(p) /\ DeviceOf[p] = d /\ (Entity(p)!Made \/ link[p] = "failed")
      BY DEF CreateNext, InitOver
  <2>2. link[p] \in Over
      BY <2>1 DEF Entity!Made, Over, MadePhases
  <2> QED
      BY <2>1, <2>2 DEF Creating
<1>4. /\ create[d] \in 1..Len(PartsOf[d]) /\ Len(PartsOf[d]) \in Nat \ {0}
      /\ \A i \in 1..create[d] : link[PartsOf[d][i]] \in Over
  <2>1. create[d] \in 1..Len(PartsOf[d]) /\ Len(PartsOf[d]) \in Nat \ {0}
      BY <1>1, PartsSeq DEF DevicesTyped
  <2>2. ASSUME NEW i \in 1..create[d] PROVE link[PartsOf[d][i]] \in Over
    <3>1. i = create[d] \/ i \in 1..(create[d] - 1)
        BY <2>1
    <3> QED
        BY <1>3, <3>1 DEF CreateInv, Over
  <2> QED
      BY <2>1, <2>2
<1>5. status = [e \in Devices |-> status[e]] /\ create = [e \in Devices |-> create[e]]
    BY DEF Shape
<1>6. CASE create' = [create EXCEPT ![d] = @ + 1] /\ create[d] # Len(PartsOf[d])
           /\ UNCHANGED <<status, dead>>
  <2>1. /\ create' = [e \in Devices |-> create'[e]] /\ create'[d] = create[d] + 1
        /\ \A e \in Devices \ {d} : create'[e] = create[e]
      BY <1>5, <1>6
  <2>2. create'[d] \in 1..Len(PartsOf[d]) /\ create'[d] - 1 = create[d]
      BY <1>4, <1>6, <2>1
  <2>3. TypeOK'
    <3>1. DevicesTyped'
        BY <1>1, <1>2, <1>6, <2>1, <2>2 DEF DevicesTyped
    <3>2. PartsTyped'
        BY <1>1, <1>2 DEF PartsTyped, PublishedBy
    <3> QED
        BY <1>1, <1>6, <3>1, <3>2, Typed
  <2>4. Shape'
      BY <1>2, <1>6, <2>1 DEF Shape
  <2>5. CreateInv'
    <3> SUFFICES ASSUME NEW e \in Devices, status[e] = "creating", NEW i \in 1..(create'[e] - 1)
                 PROVE  link[PartsOf[e][i]] \in Over
        BY <1>2, <1>6 DEF CreateInv, Over
    <3> QED
        BY <1>4, <2>1, <2>2 DEF CreateInv, Over
  <2>6. ListedInv' /\ SeenInv'
      BY <1>2, <1>6 DEF ListedInv, SeenInv, IsShown, Covers
  <2> QED
      BY <2>3, <2>4, <2>5, <2>6
<1>7. ASSUME NEW v \in {"listed", "failed"}, status' = [status EXCEPT ![d] = v], create' = create,
             dead' \in BOOLEAN,
             v = "listed" => \A i \in 1..Len(PartsOf[d]) : link[PartsOf[d][i]] \in MadePhases
      PROVE  IInv'
  <2>1. /\ status' = [e \in Devices |-> status'[e]] /\ status'[d] = v
        /\ \A e \in Devices \ {d} : status'[e] = status[e]
      BY <1>5, <1>7
  <2>2. TypeOK'
    <3>1. DevicesTyped'
        BY <1>1, <1>2, <1>7, <2>1 DEF DevicesTyped
    <3>2. PartsTyped'
        BY <1>1, <1>2 DEF PartsTyped, PublishedBy
    <3> QED
        BY <1>7, <3>1, <3>2, Typed
  <2>3. Shape'
      BY <1>2, <1>7, <2>1 DEF Shape
  <2>4. CreateInv'
      BY <1>2, <1>7, <2>1 DEF CreateInv
  <2>5. ListedInv'
      BY <1>2, <1>7, <2>1 DEF ListedInv
  <2>6. SeenInv'
      BY <1>2, <1>7 DEF SeenInv, IsShown, Covers
  <2> QED
      BY <2>2, <2>3, <2>4, <2>5, <2>6
<1> DEFINE failed == \E p \in ToSet(PartsOf[d]) : link[p] = "failed"
           last == create[d] = Len(PartsOf[d])
           decided == last \/ (failed /\ create[d] + 1 = Len(PartsOf[d]))
<1>8. \/ ~decided /\ create' = [create EXCEPT ![d] = @ + 1] /\ UNCHANGED <<status, dead>>
      \/ decided /\ ~failed /\ status' = [status EXCEPT ![d] = "listed"] /\ UNCHANGED <<create, dead>>
      \/ decided /\ status' = [status EXCEPT ![d] = "failed"] /\ dead' = (d = Board) /\ UNCHANGED create
    BY DEF CreateNext
<1>9. CASE ~decided /\ create' = [create EXCEPT ![d] = @ + 1] /\ UNCHANGED <<status, dead>>
    BY <1>6, <1>9
<1>10. CASE decided /\ ~failed /\ status' = [status EXCEPT ![d] = "listed"] /\ UNCHANGED <<create, dead>>
  <2>1. last
      BY <1>10
  <2>2. ASSUME NEW i \in 1..Len(PartsOf[d]) PROVE link[PartsOf[d][i]] \in MadePhases
    <3>1. PartsOf[d][i] \in ToSet(PartsOf[d])
        BY PartsSeq DEF ToSet
    <3>2. link[PartsOf[d][i]] \in Over /\ link[PartsOf[d][i]] # "failed"
        BY <1>4, <1>10, <2>1, <3>1
    <3> QED
        BY <3>2 DEF Over
  <2> QED
      BY <1>1, <1>7, <1>10, <2>2
<1>11. CASE decided /\ status' = [status EXCEPT ![d] = "failed"] /\ dead' = (d = Board) /\ UNCHANGED create
  <2>1. dead' \in BOOLEAN
      BY <1>11
  <2> HIDE DEF IInv
  <2> QED
      BY <1>7, <1>11, <2>1
<1> HIDE DEF failed, last, decided
<1> QED
    BY <1>8, <1>9, <1>10, <1>11

(* The hardware changes, or a poller throws: the pollers remember the same. *)
LEMMA OutsideStep ==
    ASSUME IInv, (\E d \in Devices : HardwareChanges(d)) \/ PollThrows \/ UNCHANGED vars
    PROVE  IInv'
<1> USE DEF IInv
<1>1. UNCHANGED <<seen, ha, link, status, create, syncs, cause>>
    BY DEF HardwareChanges, PollThrows, vars
<1>2. /\ hw' = [e \in Devices |-> hw'[e]]
      /\ \A e \in Devices : hw'[e] \in Values[e]
      /\ dead' \in BOOLEAN
  <2>1. DevicesTyped /\ dead \in BOOLEAN /\ hw = [e \in Devices |-> hw[e]]
      BY Typed DEF Shape
  <2>2. ASSUME NEW d \in Devices, HardwareChanges(d)
        PROVE  hw' = [e \in Devices |-> hw'[e]] /\ \A e \in Devices : hw'[e] \in Values[e]
    <3>1. PICK v \in Values[d] : hw' = [hw EXCEPT ![d] = v]
        BY <2>2 DEF HardwareChanges
    <3>2. hw' = [e \in Devices |-> IF e = d THEN v ELSE hw[e]]
        BY <2>1, <3>1
    <3> QED
        BY <2>1, <3>2 DEF DevicesTyped
  <2>3. ASSUME hw' = hw
        PROVE  hw' = [e \in Devices |-> hw'[e]] /\ \A e \in Devices : hw'[e] \in Values[e]
      BY <2>1, <2>3 DEF DevicesTyped
  <2>4. dead' \in BOOLEAN
      BY <2>1 DEF HardwareChanges, PollThrows, vars
  <2> QED
      BY <2>2, <2>3, <2>4 DEF PollThrows, vars
<1>3. TypeOK'
    BY <1>1, <1>2, Typed DEF DevicesTyped, PartsTyped, PublishedBy
<1>4. Shape'
    BY <1>1, <1>2 DEF Shape
<1>5. CreateInv' /\ ListedInv'
    BY <1>1, PartsKept
<1>6. SeenInv'
    BY <1>1 DEF SeenInv, IsShown, Covers
<1> QED
    BY <1>3, <1>4, <1>5, <1>6

(* The steps in which only an entity moves. *)
LEMMA EntityStep ==
    ASSUME IInv, NEW p \in Parts,
           CreateConnected(p) \/ CreateFails(p) \/ Reconnected(p) \/ ReconfigureFails(p) \/ SessionLost(p)
    PROVE  IInv'
<1>1. Moved(p) /\ UNCHANGED <<hw, seen, ha, status, create, syncs, dead, cause>>
    BY MovesOne DEF IInv, CreateConnected, CreateFails, Reconnected, ReconfigureFails, SessionLost
<1>2. \/ Entity(p)!Connect \/ Entity(p)!GiveUp \/ Entity(p)!Reopen \/ Entity(p)!GetStuck
      \/ Entity(p)!Lose
    BY DEF CreateConnected, CreateFails, Reconnected, ReconfigureFails, SessionLost
<1>3. link'[p] # "up" /\ (link[p] \in MadePhases => link'[p] \in MadePhases)
      /\ (link[p] \in Over => link'[p] \in Over)
    BY <1>2 DEF Entity!Connect, Entity!GiveUp, Entity!Reopen, Entity!GetStuck, Entity!Lose,
                MadePhases, Over
<1> QED
    BY <1>1, <1>3, QuietStep

(* The steps in which an entity has been configured. *)
LEMMA FinishStep ==
    ASSUME IInv, NEW p \in Parts, CreateSynced(p) \/ Reconfigured(p)
    PROVE  IInv'
<1>1. /\ Moved(p) /\ SyncedAt(p)
      /\ UNCHANGED <<hw, seen, status, create, syncs, dead>>
    BY MovesOne, SyncEffect, Typed DEF IInv, CreateSynced, Reconfigured
<1>2. Entity(p)!FinishInit \/ Entity(p)!FinishAgain
    BY DEF CreateSynced, Reconfigured
<1>3. link'[p] \in {"up", "down"} /\ (link'[p] = "up" => Entity(p)!Reaches)
    BY <1>2 DEF Entity!FinishInit, Entity!FinishAgain, Entity!Reaches
<1> QED
    BY <1>1, <1>3, ConfiguredStep

(* The inductive invariant holds in the initial state. *)
LEMMA InitIInv == Init => IInv
<1> SUFFICES ASSUME Init PROVE IInv
    OBVIOUS
<1>1. /\ hw \in [Devices -> UNION {Values[d] : d \in Devices}] /\ \A d \in Devices : hw[d] \in Values[d]
      /\ seen = [d \in Devices |-> InitialSeen[d]]
      /\ ha = [p \in Parts |-> "nothing"] /\ link = [p \in Parts |-> "none"]
      /\ status \in [Devices -> {"absent", "creating"}]
      /\ create = [d \in Devices |-> 1] /\ syncs = [d \in Devices |-> <<>>]
      /\ dead = FALSE /\ cause = [p \in Parts |-> "none"]
    BY DEF Init
<1>2. TypeOK
  <2>1. DevicesTyped
    <3>1. \A d \in Devices : <<>> \in Seq(1..Len(PartsOf[d])) /\ Len(<<>>) <= MaxSyncs
        BY EmptySeq, MaxSyncsAssumption
    <3>2. \A d \in Devices : 1 \in 1..Len(PartsOf[d])
        BY PartsSeq
    <3> QED
        BY <1>1, <3>1, <3>2 DEF DevicesTyped
  <2>2. PartsTyped
      BY <1>1 DEF PartsTyped, Phases
  <2> QED
      BY <1>1, <2>1, <2>2, Typed
<1>3. Shape
    BY <1>1 DEF Shape
<1>4. CreateInv /\ ListedInv
    BY <1>1 DEF CreateInv, ListedInv
<1>5. SeenInv
    BY <1>1 DEF SeenInv
<1> QED
    BY <1>2, <1>3, <1>4, <1>5 DEF IInv

(* Every step keeps the inductive invariant. *)
LEMMA StepIInv == IInv /\ [Next]_vars => IInv'
<1> SUFFICES ASSUME IInv, [Next]_vars PROVE IInv'
    OBVIOUS
<1>1. ASSUME NEW d \in Devices, Poll(d) PROVE IInv'
    BY <1>1, PollStep
<1>2. ASSUME NEW d \in Devices, StateChanged(d) PROVE IInv'
    BY <1>2, DroppedStep, SyncStep DEF StateChanged
<1>3. ASSUME NEW d \in Devices, Create(d) PROVE IInv'
  <2>1. ASSUME NEW p \in ToSet(PartsOf[d]), CreateConnected(p) \/ CreateSynced(p) \/ CreateFails(p)
        PROVE  IInv'
      BY <2>1, PartsSet, EntityStep, FinishStep
  <2> QED
      BY <1>3, <2>1, CreateNextStep DEF Create
<1>4. ASSUME NEW p \in Parts, Run(p) \/ SessionLost(p) PROVE IInv'
    BY <1>4, EntityStep, FinishStep DEF Run
<1>5. CASE (\E d \in Devices : HardwareChanges(d)) \/ PollThrows \/ UNCHANGED vars
    BY <1>5, OutsideStep
<1> QED
    BY <1>1, <1>2, <1>3, <1>4, <1>5 DEF Next

-----------------------------------------------------------------------------
(* The theorems.                                                            *)

(* The inductive invariant holds in every reachable state. *)
THEOREM Invariance == Spec => []IInv
<1>1. QED
    BY InitIInv, StepIInv, PTL DEF Spec

(* Type correctness. *)
THEOREM TypeCorrect == Spec => []TypeOK
<1>1. IInv => TypeOK
    BY DEF IInv
<1>2. QED
    BY <1>1, Invariance, PTL

(* A device is listed only with all its parts, however many. *)
THEOREM ListedDevicesAreComplete == Spec => []ListedIsComplete
<1>1. IInv => ListedIsComplete
  <2> SUFFICES ASSUME IInv, NEW d \in Devices, status[d] = "listed", NEW p \in ToSet(PartsOf[d])
               PROVE  Entity(p)!Made
      BY DEF ListedIsComplete
  <2>1. PICK i \in 1..Len(PartsOf[d]) : p = PartsOf[d][i]
      BY PartsSeq DEF ToSet
  <2>2. link[p] \in MadePhases
      BY <2>1 DEF IInv, ListedInv
  <2> QED
      BY <2>2 DEF MadePhases, Entity!Made
<1>2. QED
    BY <1>1, Invariance, PTL

(* What the broker shows is the state of the hardware, or the reason why it *)
(* is not is one of the four.                                               *)
THEOREM EveryStalenessIsExplained == Spec => []StalenessExplained
<1>1. IInv => StalenessExplained
  <2> SUFFICES ASSUME IInv, NEW p \in Parts, InUse(p), Stale(p),
                      ~(hw[DeviceOf[p]] # seen[DeviceOf[p]]), ~(cause[p] # "none")
               PROVE  SyncPending(p)
      BY DEF StalenessExplained
  <2> DEFINE d == DeviceOf[p]
  <2>1. /\ d \in Devices /\ link[p] = "up" /\ p \notin Silent /\ Shown[p][seen[d]] # "undefined"
        /\ ha[p] # Shown[p][seen[d]]
      BY PlaceOfPart DEF InUse, Stale, state
  <2>2. Covers(syncs[d], d, p)
      BY <2>1 DEF IInv, SeenInv, IsShown
  <2>3. PICK k \in DOMAIN syncs[d] : \E i \in syncs[d][k]..Len(PartsOf[d]) : PartsOf[d][i] = p
      BY <2>2 DEF Covers
  <2>4. syncs[d][k] \in 1..Len(PartsOf[d]) /\ Len(PartsOf[d]) \in Nat
    <3>1. syncs[d] \in Seq(1..Len(PartsOf[d]))
        BY <2>1, Typed DEF IInv, DevicesTyped
    <3> QED
        BY <2>1, <3>1, ElementOfSeq, LenProperties, PartsSeq
  <2>5. PartsOf[d][syncs[d][k]] = p \/ \E i \in (syncs[d][k] + 1)..Len(PartsOf[d]) : PartsOf[d][i] = p
    <3>1. PICK i \in syncs[d][k]..Len(PartsOf[d]) : PartsOf[d][i] = p
        BY <2>3
    <3>2. i = syncs[d][k] \/ i \in (syncs[d][k] + 1)..Len(PartsOf[d])
        BY <2>4
    <3> QED
        BY <3>1, <3>2
  <2> QED
      BY <2>5 DEF SyncPending
<1>2. QED
    BY <1>1, Invariance, PTL

=============================================================================
