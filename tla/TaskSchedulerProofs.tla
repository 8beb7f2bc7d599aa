------------------------- MODULE TaskSchedulerProofs ------------------------
(***************************************************************************)
(* Proofs about TaskScheduler for every set of tasks, every period, clock  *)
(* and calendar, and timestamps of every precision.                        *)
(***************************************************************************)
EXTENDS TaskScheduler, TLAPS

(* What must be true of the store in the middle of its operations, so that *)
(* a crash at any moment leaves a file that the next start can be trusted  *)
(* with, or one that it refuses.                                           *)

(* What a process has that is not running, or runs its constructor. *)
ProcessInv ==
    /\ proc # "on" => op = NoOp /\ active = Empty /\ cached = Empty /\ dirty = {}
    /\ proc = "init" => file = "torn"
    /\ file = "absent" => proc \in {"off", "refused"}
    /\ file = "absent" \/ proc = "init" => promise = Empty

(* The task whose change of the cache is about to be saved. *)
Pending == IF op.phase \in {"remove", "add"} THEN {op.task} ELSE {}

(* The cache and the file say the same of t. *)
Agree(t) ==
    /\ t \in DOMAIN cached <=> t \in DOMAIN disk
    /\ t \in DOMAIN cached => cached[t] = disk[t]

(* While the process works the file is torn only in the middle of a save,  *)
(* or because one failed; a whole file agrees with the cache except for    *)
(* the tasks whose save failed or has not begun.                           *)
FileInv ==
    proc = "on" =>
        /\ op.phase \in {"removing", "adding"} => file = "torn"
        /\ file = "torn" => op.phase \in {"removing", "adding"} \/ dirty # {}
        /\ file = "whole" => \A t \in Strict \ (dirty \cup Pending) : Agree(t)

(* The strict task that is being added. *)
Adding == IF op = NoOp THEN {} ELSE {op.task}

(* A task that was ever active is missing in the cache only while it is    *)
(* being added, or because it was lost; in the file also after a save that *)
(* failed, and between its removal and its addition.                       *)
KnownInv ==
    /\ DOMAIN promise \subseteq Strict
    /\ proc = "on" =>
          /\ DOMAIN promise \ lost \subseteq DOMAIN cached \cup Adding
          /\ Strict \cap DOMAIN active \subseteq DOMAIN cached \ dirty
    /\ file = "whole" => DOMAIN promise \ lost \subseteq DOMAIN disk \cup dirty \cup Cut

(* e is the time of the day of t, except for what a timestamp has cut off. *)
InTime(t, e) ==
    \E offset \in {zone.before, zone.after}, cut \in 0..(Precision - 1) :
        (e + cut + offset) % Day = At[t]

(* The promise that was made for t has the timestamp of e. *)
Keeps(t, e) ==
    t \in DOMAIN promise \ lost =>
        to_timestamp(e) = to_timestamp(promise[t]) /\ e <= promise[t]

(* An expiry that t may get. *)
Good(t, e) == Keeps(t, e) /\ (t \in Everyday => InTime(t, e))

(* What the timestamp s in the store is for t. *)
GoodStamp(t, s) ==
    from_timestamp(s) \in Expiries /\ Good(t, from_timestamp(s))

StampsInv ==
    /\ \A t \in DOMAIN cached : GoodStamp(t, cached[t])
    /\ file = "whole" => \A t \in DOMAIN disk : GoodStamp(t, disk[t])

(* The operation holds an expiry that its task may get, before a restart   *)
(* and after it.                                                           *)
OpInv ==
    op # NoOp =>
        /\ op.task \notin DOMAIN active
        /\ Good(op.task, op.expiry)
        /\ GoodStamp(op.task, to_timestamp(op.expiry))
        /\ op.phase \in {"add", "adding"} =>
              op.task \in DOMAIN cached /\ cached[op.task] = to_timestamp(op.expiry)

ActiveInv == \A t \in Everyday \cap DOMAIN active : InTime(t, active[t])

IInv ==
    /\ TypeOK /\ ProcessInv /\ FileInv /\ KnownInv /\ StampsInv /\ OpInv /\ ActiveInv

-----------------------------------------------------------------------------
(* Arithmetic.                                                              *)

(* Division with remainder. *)
LEMMA Division ==
    ASSUME NEW a \in Int, NEW d \in Nat \ {0}
    PROVE  a \div d \in Int /\ a % d \in 0..(d - 1) /\ a = d * (a \div d) + (a % d)
<1>1. a \div d \in Int /\ a % d \in 0..(d - 1)
    OBVIOUS
<1>2. d \in Int /\ d > 0
    OBVIOUS
<1>3. a = d * (a \div d) + (a % d)
    BY <1>2
<1> QED
    BY <1>1, <1>3

(* Quotient and remainder are unique. *)
LEMMA Remainder ==
    ASSUME NEW q \in Int, NEW d \in Nat \ {0}, NEW r \in 0..(d - 1)
    PROVE  (d * q + r) % d = r /\ (d * q + r) \div d = q
OBVIOUS

(* A whole number of days later it is the same time of the day. *)
LEMMA DaysLater ==
    ASSUME NEW a \in Int, NEW d \in Nat \ {0}, NEW k \in Int
    PROVE  (a + k * d) % d = a % d
<1> DEFINE q == a \div d
           r == a % d
<1>1. q \in Int /\ r \in 0..(d - 1) /\ a = d * q + r
    BY Division
<1> HIDE DEF q, r
<1>2. a + k * d = d * (q + k) + r /\ q + k \in Int
    BY <1>1
<1>3. (a + k * d) % d = r /\ a % d = r
    BY <1>1, <1>2, Remainder
<1> QED
    BY <1>3

(* The last expiry that a task may get. *)
LEMMA ExpiriesDef ==
    /\ Days * Day \in Nat /\ Days * Day >= Day
    /\ \A e \in Int : e \in Expiries <=> (0 <= e /\ e <= MaxTime + Period + 2 * Day + Days * Day)
    /\ Expiries \subseteq Nat
<1>1. Day \in Nat \ {0} /\ Days \in Nat \ {0} /\ MaxTime \in Nat /\ Period \in Nat
    BY CalendarAssumption, PeriodAssumption
<1>2. Days * Day \in Nat /\ Days * Day >= Day
    BY <1>1
<1> DEFINE more == Days * Day
<1> HIDE DEF more
<1>3. /\ \A e \in Int : e \in 0..(MaxTime + Period + 2 * Day + more)
                           <=> (0 <= e /\ e <= MaxTime + Period + 2 * Day + more)
      /\ 0..(MaxTime + Period + 2 * Day + more) \subseteq Nat
    BY <1>1, <1>2 DEF more
<1> QED
    BY <1>2, <1>3 DEF Expiries, more

(* What a timestamp does to an expiry. *)
LEMMA Truncation ==
    ASSUME NEW e \in Nat
    PROVE  /\ to_timestamp(e) \in Nat /\ to_timestamp(e) <= e
           /\ from_timestamp(to_timestamp(e)) \in Nat
           /\ e - from_timestamp(to_timestamp(e)) \in 0..(Precision - 1)
<1> DEFINE q == e \div Precision
           r == e % Precision
<1>1. Precision \in Nat \ {0}
    BY PrecisionAssumption
<1>2. q \in Int /\ r \in 0..(Precision - 1) /\ e = Precision * q + r
    BY <1>1, Division
<1>3. q \in Nat
    BY <1>1
<1> HIDE DEF q, r
<1>4. q * Precision = Precision * q /\ Precision * q \in Nat /\ q <= Precision * q
    BY <1>1, <1>2, <1>3
<1>5. q <= e /\ e - q * Precision = r /\ q * Precision \in Nat
    BY <1>1, <1>2, <1>3, <1>4
<1>6. to_timestamp(e) = q /\ from_timestamp(to_timestamp(e)) = q * Precision
    BY DEF to_timestamp, from_timestamp, q
<1> QED
    BY <1>2, <1>3, <1>5, <1>6

(* What is read from the store is stored again as it was. *)
LEMMA StoredAgain ==
    ASSUME NEW s \in Nat
    PROVE  to_timestamp(from_timestamp(s)) = s
<1>1. (Precision * s + 0) \div Precision = s /\ s * Precision = Precision * s + 0
    BY PrecisionAssumption, Remainder
<1> QED
    BY <1>1 DEF to_timestamp, from_timestamp

(* Two expiries with the same timestamp are less than a unit apart. *)
LEMMA SameTimestamp ==
    ASSUME NEW e \in Nat, NEW p \in Nat, to_timestamp(e) = to_timestamp(p), e <= p
    PROVE  p - e \in 0..(Precision - 1)
<1>1. /\ e - from_timestamp(to_timestamp(e)) \in 0..(Precision - 1)
      /\ p - from_timestamp(to_timestamp(p)) \in 0..(Precision - 1)
      /\ from_timestamp(to_timestamp(e)) \in Nat
    BY Truncation
<1> DEFINE f == from_timestamp(to_timestamp(e))
<1>2. e - f \in 0..(Precision - 1) /\ p - f \in 0..(Precision - 1) /\ f \in Nat
    BY <1>1
<1> HIDE DEF f
<1> QED
    BY <1>2, PrecisionAssumption

-----------------------------------------------------------------------------
(* Maps from tasks to times.                                                *)

(* What the elements of Times are. *)
LEMMA TimesDef ==
    ASSUME NEW f \in Times
    PROVE  DOMAIN f \subseteq Tasks /\ \A t \in DOMAIN f : f[t] \in Expiries
BY DEF Times

(* No task has a time. *)
LEMMA EmptyTimes == Empty \in Times /\ DOMAIN Empty = {}
<1>1. DOMAIN Empty = {} /\ Empty \in [{} -> Expiries]
    BY DEF Empty
<1> QED
    BY <1>1 DEF Times

(* g is f with the time e for t. *)
Extends(g, f, t, e) ==
    /\ g \in Times
    /\ DOMAIN g = DOMAIN f \cup {t}
    /\ g[t] = e
    /\ \A u \in DOMAIN f \ {t} : g[u] = f[u]

(* A task gets a time. *)
LEMMA WithTimes ==
    ASSUME NEW f \in Times, NEW t \in Tasks, NEW e \in Expiries
    PROVE  Extends(With(f, t, e), f, t, e)
<1>1. With(f, t, e) \in [DOMAIN f \cup {t} -> Expiries] /\ DOMAIN f \cup {t} \subseteq Tasks
    BY TimesDef DEF With
<1>2. With(f, t, e) \in Times
    BY <1>1 DEF Times
<1> QED
    BY <1>1, <1>2 DEF With, Extends

(* A task loses its time. *)
LEMMA WithoutTimes ==
    ASSUME NEW f \in Times, NEW t
    PROVE  /\ Without(f, t) \in Times
           /\ DOMAIN Without(f, t) = DOMAIN f \ {t}
           /\ \A u \in DOMAIN f \ {t} : Without(f, t)[u] = f[u]
<1>1. Without(f, t) \in [DOMAIN f \ {t} -> Expiries] /\ DOMAIN f \ {t} \subseteq Tasks
    BY TimesDef DEF Without, Restrict
<1> QED
    BY <1>1 DEF Without, Restrict, Times

(* What op may be. *)
LEMMA OpKinds ==
    ASSUME TypeOK
    PROVE  /\ op.phase \in Phases \cup {"none"}
           /\ op = NoOp <=> op.phase = "none"
           /\ op # NoOp => op.task \in Strict /\ op.task \in Tasks /\ op.expiry \in Expiries
<1>1. CASE op = NoOp
    BY <1>1 DEF NoOp
<1>2. CASE op \in [phase : Phases, task : Strict, expiry : Expiries]
  <2>1. op.phase \in Phases /\ op.task \in Strict /\ op.expiry \in Expiries
      BY <1>2
  <2>2. op # NoOp
      BY <2>1 DEF NoOp, Phases
  <2>3. op.phase # "none"
      BY <2>1 DEF Phases
  <2> QED
      BY <2>1, <2>2, <2>3, TasksAssumption
<1> QED
    BY <1>1, <1>2 DEF TypeOK

-----------------------------------------------------------------------------
(* The calendar.                                                            *)

(* The constants of the calendar, and the zone. *)
LEMMA Calendar ==
    ASSUME TypeOK
    PROVE  /\ now \in Nat /\ now <= MaxTime /\ MaxTime \in Nat
           /\ Day \in Nat \ {0} /\ Days \in Nat \ {0} /\ Period \in Nat \ {0}
           /\ \A t \in Everyday : At[t] \in 0..(Day - 1)
           /\ zone.change \in Int
           /\ zone.before \in (1 - Day)..(Day - 1) /\ zone.after \in (1 - Day)..(Day - 1)
<1>1. Day \in Nat \ {0} /\ Days \in Nat \ {0} /\ Period \in Nat \ {0} /\ MaxTime \in Nat
      /\ \A t \in Everyday : At[t] \in 0..(Day - 1)
    BY CalendarAssumption, PeriodAssumption
<1>2. now \in 0..MaxTime /\ zone \in Zones
    BY DEF TypeOK
<1>3. zone \in [change : Int, before : (1 - Day)..(Day - 1), after : (1 - Day)..(Day - 1)]
    BY <1>2, CalendarAssumption
<1> QED
    BY <1>1, <1>2, <1>3

(* The offset is one of the two of the zone. *)
LEMMA OffsetIsOne == \A s : OffsetAt(s) \in {zone.before, zone.after}
BY DEF OffsetAt

(* A date begins at a multiple of a day, not more than a day ago. *)
LEMMA Midnight ==
    ASSUME NEW s \in Int
    PROVE  \E q \in Int : DateOf(s) = q * Day /\ s - Day < DateOf(s) /\ DateOf(s) <= s
<1> DEFINE q == s \div Day
           r == s % Day
<1>1. Day \in Nat \ {0}
    BY CalendarAssumption
<1>2. q \in Int /\ r \in 0..(Day - 1) /\ s = Day * q + r
    BY <1>1, Division
<1>3. DateOf(s) = s - r
    BY DEF DateOf
<1> HIDE DEF q, r
<1>4. DateOf(s) = q * Day /\ s - Day < DateOf(s) /\ DateOf(s) <= s
    BY <1>1, <1>2, <1>3
<1> QED
    BY <1>2, <1>4

(* What parse_time finds is at the time of the day in the zone. *)
LEMMA ParsedTime ==
    ASSUME TypeOK, NEW t \in Everyday, NEW s \in parse_time(At[t])
    PROVE  s \in Int /\ s + OffsetAt(s) = DateOf(now) + At[t]
<1> DEFINE local == DateOf(now) + At[t]
<1>1. s \in {i \in (local - Day)..(local + Day) : i + OffsetAt(i) = local}
    BY DEF parse_time
<1> QED
    BY <1>1

(* A new expiry of an everyday task is at its time exactly, and not before  *)
(* now.                                                                     *)
LEMMA EverydayExpiryIsTime ==
    ASSUME TypeOK, NEW t \in Everyday, NEW e \in EverydayExpiry(t)
    PROVE  /\ e \in Expiries
           /\ \E offset \in {zone.before, zone.after} : (e + offset) % Day = At[t]
<1>1. PICK s \in parse_time(At[t]) : e = IF now > s THEN s + Days * Day ELSE s
    BY DEF EverydayExpiry
<1>2. s \in Int /\ s + OffsetAt(s) = DateOf(now) + At[t]
    BY <1>1, ParsedTime
<1>3. PICK q \in Int : DateOf(now) = q * Day /\ now - Day < DateOf(now) /\ DateOf(now) <= now
    BY Calendar, Midnight
<1> DEFINE offset == OffsetAt(s)
           more == Days * Day
<1>4. offset \in {zone.before, zone.after} /\ offset \in (1 - Day)..(Day - 1)
    BY OffsetIsOne, Calendar
<1>5. more \in Nat /\ more >= Day /\ Day \in Nat \ {0} /\ At[t] \in 0..(Day - 1) /\ now \in Nat
      /\ DateOf(now) \in Int /\ now <= MaxTime /\ MaxTime \in Nat /\ Period \in Nat /\ Days \in Nat
    BY Calendar, ExpiriesDef, <1>3
<1>6. e \in Int /\ 0 <= e /\ e <= MaxTime + Period + 2 * Day + more
  <2> HIDE DEF offset, more
  <2>1. s + offset = DateOf(now) + At[t]
      BY <1>2 DEF offset
  <2>2. e = IF now > s THEN s + more ELSE s
      BY <1>1 DEF more
  <2> QED
      BY <1>2, <1>3, <1>4, <1>5, <2>1, <2>2
<1>7. e \in Expiries
    BY <1>6, ExpiriesDef
<1>8. (s + offset) % Day = At[t]
  <2>1. s + offset = Day * q + At[t]
      BY <1>2, <1>3, <1>5
  <2> HIDE DEF offset
  <2> QED
      BY <2>1, <1>5, Remainder
<1>9. (e + offset) % Day = At[t]
  <2>1. s + offset \in Int
      BY <1>2, <1>4, <1>5
  <2>2. ((s + offset) + Days * Day) % Day = (s + offset) % Day
    <3> HIDE DEF offset
    <3> QED
        BY <1>5, <2>1, DaysLater
  <2> HIDE DEF offset
  <2>3. CASE now > s
    <3>1. e + offset = (s + offset) + more
      <4> HIDE DEF more
      <4>1. e = s + more
          BY <1>1, <2>3 DEF more
      <4> QED
          BY <1>2, <1>4, <1>5, <4>1
    <3> QED
        BY <1>8, <2>2, <3>1
  <2>4. CASE ~(now > s)
      BY <1>1, <1>8, <2>4
  <2> QED
      BY <2>3, <2>4
<1> QED
    BY <1>4, <1>7, <1>9

(* A task that is exactly in time is so before and after it is stored. *)
LEMMA ExactIsInTime ==
    ASSUME TypeOK, NEW t \in Everyday, NEW e \in Nat, NEW offset \in {zone.before, zone.after},
           (e + offset) % Day = At[t]
    PROVE  InTime(t, e) /\ InTime(t, from_timestamp(to_timestamp(e)))
<1> DEFINE f == from_timestamp(to_timestamp(e))
<1>1. f \in Nat /\ e - f \in 0..(Precision - 1)
    BY Truncation
<1>2. offset \in Int
    BY Calendar
<1> HIDE DEF f
<1>3. 0 \in 0..(Precision - 1) /\ e + 0 + offset = e + offset
    BY PrecisionAssumption, <1>2
<1>4. f + (e - f) + offset = e + offset
    BY <1>1, <1>2
<1>5. InTime(t, e)
    BY <1>3 DEF InTime
<1>6. InTime(t, f)
    BY <1>1, <1>4 DEF InTime
<1> QED
    BY <1>5, <1>6 DEF f

(* What the constructor of a task computes. *)
LEMMA NewExpiry ==
    ASSUME TypeOK, NEW t \in Tasks, NEW e \in configure_expiry(t)
    PROVE  /\ e \in Expiries
           /\ t \in Everyday => InTime(t, e) /\ InTime(t, from_timestamp(to_timestamp(e)))
<1>1. CASE t \in Generic
  <2>1. e = now + Period
      BY <1>1 DEF configure_expiry, RepeatedExpiry
  <2>2. e \in Expiries
    <3> DEFINE more == Days * Day
    <3>1. more \in Nat /\ Day \in Nat
        BY ExpiriesDef, Calendar
    <3> HIDE DEF more
    <3>2. e \in Int /\ 0 <= e /\ e <= MaxTime + Period + 2 * Day + more
        BY <2>1, <3>1, Calendar
    <3> QED
        BY <3>2, ExpiriesDef DEF more
  <2> QED
      BY <1>1, <2>2, TasksAssumption
<1>2. CASE t \notin Generic
  <2>1. t \in Everyday /\ e \in EverydayExpiry(t)
      BY <1>2 DEF configure_expiry, Tasks
  <2>2. e \in Expiries /\ e \in Nat
      BY <2>1, EverydayExpiryIsTime, ExpiriesDef
  <2> QED
      BY <2>1, <2>2, EverydayExpiryIsTime, ExactIsInTime
<1> QED
    BY <1>1, <1>2

(* The next expiry of an everyday task keeps its time of the day. *)
LEMMA NextDay ==
    ASSUME TypeOK, NEW t \in Everyday, NEW e \in Nat, InTime(t, e)
    PROVE  InTime(t, e + Days * Day)
<1>1. PICK offset \in {zone.before, zone.after}, cut \in 0..(Precision - 1) :
          (e + cut + offset) % Day = At[t]
    BY DEF InTime
<1>2. offset \in Int /\ cut \in Int /\ Days * Day \in Int /\ Days \in Int /\ Day \in Nat \ {0}
    BY Calendar, ExpiriesDef, PrecisionAssumption
<1>3. ((e + cut + offset) + Days * Day) % Day = At[t]
  <2>1. e + cut + offset \in Int
      BY <1>2
  <2> QED
      BY <1>1, <1>2, <2>1, DaysLater
<1>4. (e + Days * Day) + cut + offset = (e + cut + offset) + Days * Day
  <2> DEFINE more == Days * Day
  <2>1. more \in Int
      BY <1>2
  <2> HIDE DEF more
  <2>2. (e + more) + cut + offset = (e + cut + offset) + more
      BY <1>2, <2>1
  <2> QED
      BY <2>2 DEF more
<1> QED
    BY <1>3, <1>4 DEF InTime

-----------------------------------------------------------------------------
(* The operations.                                                          *)

(* What is good stays good while the zone and the promises stay, and only   *)
(* more promises are given up.                                              *)
LEMMA GoodStays ==
    ASSUME zone' = zone, promise' = promise, lost \subseteq lost'
    PROVE  /\ \A t, e : Good(t, e) => Good(t, e)'
           /\ \A t, s : GoodStamp(t, s) => GoodStamp(t, s)'
           /\ \A t, e : InTime(t, e) => InTime(t, e)'
<1>1. ASSUME NEW t, NEW e, InTime(t, e) PROVE InTime(t, e)'
    BY <1>1 DEF InTime
<1>2. ASSUME NEW t, NEW e, Good(t, e) PROVE Good(t, e)'
  <2>1. Keeps(t, e)'
      BY <1>2 DEF Good, Keeps
  <2> QED
      BY <1>1, <1>2, <2>1 DEF Good
<1>3. ASSUME NEW t, NEW s, GoodStamp(t, s) PROVE GoodStamp(t, s)'
    BY <1>2, <1>3 DEF GoodStamp
<1> QED
    BY <1>1, <1>2, <1>3

(* A timestamp, and what it is read as, are no later than the expiry. *)
LEMMA StampOfExpiry ==
    ASSUME TypeOK, NEW e \in Expiries
    PROVE  to_timestamp(e) \in Expiries /\ from_timestamp(to_timestamp(e)) \in Expiries
<1>1. e \in Nat
    BY ExpiriesDef
<1> DEFINE last == MaxTime + Period + 2 * Day + Days * Day
           stamp == to_timestamp(e)
           back == from_timestamp(to_timestamp(e))
<1>2. e <= last /\ last \in Int
    BY <1>1, ExpiriesDef, Calendar
<1>3. stamp \in Nat /\ stamp <= e /\ back \in Nat /\ e - back \in 0..(Precision - 1)
    BY <1>1, Truncation
<1> HIDE DEF last, stamp, back
<1>4. stamp \in Int /\ 0 <= stamp /\ stamp <= last /\ back \in Int /\ 0 <= back /\ back <= last
    BY <1>1, <1>2, <1>3, PrecisionAssumption
<1> QED
    BY <1>4, ExpiriesDef DEF last, stamp, back

(* The inductive invariant holds in the initial state. *)
LEMMA InitIInv == Init => IInv
<1> SUFFICES ASSUME Init PROVE IInv
    OBVIOUS
<1>1. /\ now = 0 /\ zone \in Zones /\ proc = "off" /\ file = "absent" /\ op = NoOp
      /\ dirty = {} /\ lost = {}
      /\ active = Empty /\ cached = Empty /\ disk = Empty /\ promise = Empty
    BY DEF Init
<1>2. TypeOK
    BY <1>1, EmptyTimes, PeriodAssumption DEF TypeOK
<1>3. ProcessInv /\ FileInv
    BY <1>1 DEF ProcessInv, FileInv
<1>4. KnownInv
    BY <1>1, EmptyTimes DEF KnownInv
<1>5. StampsInv
    BY <1>1, EmptyTimes DEF StampsInv
<1>6. OpInv /\ ActiveInv
    BY <1>1, EmptyTimes DEF OpInv, ActiveInv
<1> QED
    BY <1>2, <1>3, <1>4, <1>5, <1>6 DEF IInv

(* The start of the process: the file is created or read, or it is refused. *)
LEMMA StartStep ==
    ASSUME IInv, CreateFile \/ FileCreated \/ LoadFile
    PROVE  IInv'
<1> USE DEF IInv
<1>1. /\ UNCHANGED <<now, zone, active, op, promise, lost>>
      /\ op = NoOp /\ active = Empty /\ cached = Empty /\ dirty = {} /\ dirty' = {}
      /\ proc \in {"off", "init"} /\ proc' \in {"init", "on", "refused"}
    BY DEF CreateFile, FileCreated, LoadFile, Truncate, Write, historyVars, ProcessInv
<1>2. /\ cached' = Empty \/ (cached' = disk /\ disk' = disk /\ file = "whole" /\ LoadFile)
      /\ disk' = disk \/ disk' = Empty
      /\ file' \in {"absent", "torn", "whole"}
      /\ proc' # "on" => cached' = Empty
      /\ file' = "absent" => file = "absent" /\ proc' = "refused"
      /\ proc' = "init" => file' = "torn" /\ file = "absent"
      /\ proc' = "on" => file' = "whole" /\ disk' = cached'
      /\ file' = "whole" =>
            \/ disk' = disk /\ file = "whole"
            \/ disk' = Empty /\ promise = Empty
    BY <1>1 DEF CreateFile, FileCreated, LoadFile, Truncate, Write, TypeOK, ProcessInv
<1>3. TypeOK'
    BY <1>1, <1>2, EmptyTimes DEF TypeOK
<1>4. ProcessInv'
    BY <1>1, <1>2 DEF ProcessInv
<1>5. FileInv'
    BY <1>1, <1>2, OpKinds DEF FileInv, Agree, NoOp
<1>6. KnownInv'
  <2>1. Cut' = Cut /\ Adding' = {} /\ Cut = {}
      BY <1>1 DEF Cut, Adding, NoOp
  <2> QED
      BY <1>1, <1>2, <2>1, EmptyTimes DEF KnownInv
<1>7. StampsInv'
  <2>1. \A t, s : GoodStamp(t, s) => GoodStamp(t, s)'
      BY <1>1, GoodStays
  <2>2. (file = "whole" => \A t \in DOMAIN disk : GoodStamp(t, disk[t]))'
      BY <1>1, <1>2, <2>1, EmptyTimes DEF StampsInv
  <2>3. (\A t \in DOMAIN cached : GoodStamp(t, cached[t]))'
      BY <1>1, <1>2, <2>1, <2>2, EmptyTimes DEF StampsInv
  <2> QED
      BY <2>2, <2>3 DEF StampsInv
<1>8. OpInv' /\ ActiveInv'
    BY <1>1, EmptyTimes DEF OpInv, ActiveInv
<1> QED
    BY <1>3, <1>4, <1>5, <1>6, <1>7, <1>8

(* Time passes, and the process dies. *)
LEMMA TickStep ==
    ASSUME IInv, Tick
    PROVE  IInv'
<1> USE DEF IInv
<1>1. /\ now' = now + 1 /\ now < MaxTime
      /\ UNCHANGED <<zone, proc, active, cached, file, disk, op, promise, dirty, lost>>
    BY DEF Tick, historyVars
<1>2. TypeOK'
    BY <1>1, PeriodAssumption DEF TypeOK
<1>3. ProcessInv' /\ FileInv' /\ KnownInv'
    BY <1>1 DEF ProcessInv, FileInv, KnownInv, Adding, Agree, Pending, Cut
<1>4. StampsInv' /\ OpInv' /\ ActiveInv'
    BY <1>1, GoodStays DEF StampsInv, OpInv, ActiveInv
<1> QED
    BY <1>2, <1>3, <1>4

(* What a crash leaves is whole and known, or will be refused. *)
LEMMA CrashStep ==
    ASSUME IInv, Crash
    PROVE  IInv'
<1> USE DEF IInv
<1>1. /\ proc # "off" /\ proc' = "off" /\ active' = Empty /\ cached' = Empty /\ op' = NoOp
      /\ dirty' = {} /\ lost' = lost \cup dirty \cup Cut
      /\ UNCHANGED <<now, zone, file, disk, promise>>
    BY DEF Crash
<1>2. Cut \subseteq Strict
  <2>1. op.phase \in {"removed", "add"} => op # NoOp
      BY DEF NoOp
  <2> QED
      BY <2>1, OpKinds DEF Cut
<1>3. TypeOK'
    BY <1>1, <1>2, EmptyTimes DEF TypeOK
<1>4. ProcessInv' /\ FileInv'
    BY <1>1 DEF ProcessInv, FileInv
<1>5. KnownInv'
    BY <1>1 DEF KnownInv
<1>6. StampsInv'
  <2>1. \A t, s : GoodStamp(t, s) => GoodStamp(t, s)'
      BY <1>1, GoodStays
  <2> QED
      BY <1>1, <2>1, EmptyTimes DEF StampsInv
<1>7. OpInv' /\ ActiveInv'
    BY <1>1, EmptyTimes DEF OpInv, ActiveInv
<1> QED
    BY <1>3, <1>4, <1>5, <1>6, <1>7

(* A task gets a new expiry, and nothing else happens. *)
LEMMA ActiveStep ==
    ASSUME IInv, proc = "on", op = NoOp, NEW t \in Tasks, NEW e \in Expiries,
           t \in Strict => t \in DOMAIN active,
           t \in Everyday => InTime(t, e),
           active' = With(active, t, e),
           UNCHANGED <<now, zone, proc, cached, file, disk, op, promise, dirty, lost>>
    PROVE  IInv'
<1> USE DEF IInv
<1>1. /\ active' \in Times /\ DOMAIN active' = DOMAIN active \cup {t}
      /\ active'[t] = e /\ \A u \in DOMAIN active \ {t} : active'[u] = active[u]
  <2>1. active \in Times
      BY DEF TypeOK
  <2>2. Extends(active', active, t, e)
      BY <2>1, WithTimes
  <2> QED
      BY <2>2 DEF Extends
<1>2. TypeOK'
    BY <1>1 DEF TypeOK
<1>3. ProcessInv' /\ FileInv' /\ KnownInv'
    BY <1>1 DEF ProcessInv, FileInv, KnownInv, Adding, Agree, Pending, Cut
<1>4. /\ \A u, s : GoodStamp(u, s) => GoodStamp(u, s)'
      /\ \A u, s : InTime(u, s) => InTime(u, s)'
    BY GoodStays
<1>5. StampsInv' /\ OpInv'
    BY <1>4 DEF StampsInv, OpInv
<1>6. ActiveInv'
    BY <1>1, <1>4 DEF ActiveInv
<1> QED
    BY <1>2, <1>3, <1>5, <1>6

(* A task is put into the cache. *)
LEMMA StoreStep ==
    ASSUME IInv, proc = "on", NEW t \in Strict, NEW e \in Expiries,
           op = NoOp \/ (op.phase = "removed" /\ op.task = t),
           t \notin DOMAIN active, Good(t, e), GoodStamp(t, to_timestamp(e)),
           DOMAIN promise \ lost \subseteq DOMAIN cached \cup {t},
           StoreTask(t, e),
           UNCHANGED <<now, zone, proc, active, promise, dirty, lost>>
    PROVE  IInv'
<1> USE DEF IInv
<1>1. /\ op' = [phase |-> "add", task |-> t, expiry |-> e]
      /\ cached' = With(cached, t, to_timestamp(e))
      /\ file' = file /\ disk' = disk
    BY DEF StoreTask
<1>2. to_timestamp(e) \in Expiries
    BY StampOfExpiry
<1>3. /\ cached' \in Times /\ DOMAIN cached' = DOMAIN cached \cup {t}
      /\ cached'[t] = to_timestamp(e) /\ \A u \in DOMAIN cached \ {t} : cached'[u] = cached[u]
  <2>1. cached \in Times /\ t \in Tasks
      BY TasksAssumption DEF TypeOK
  <2>2. Extends(cached', cached, t, to_timestamp(e))
      BY <1>1, <1>2, <2>1, WithTimes
  <2> QED
      BY <2>2 DEF Extends
<1>4. op' # NoOp /\ op'.phase = "add" /\ op'.task = t /\ op'.expiry = e
    BY <1>1 DEF NoOp
<1>5. /\ op.phase \in {"none", "removed"}
      /\ Pending = {} /\ Pending' = {t} /\ Cut' = {t} /\ Cut \subseteq {t}
    BY <1>4 DEF NoOp, Pending, Cut
<1>6. TypeOK'
  <2>1. op' \in [phase : Phases, task : Strict, expiry : Expiries]
      BY <1>1 DEF Phases
  <2> QED
      BY <1>1, <1>3, <2>1 DEF TypeOK
<1>7. ProcessInv'
    BY <1>1 DEF ProcessInv
<1>8. FileInv'
  <2>1. file = "whole" => \A u \in Strict \ (dirty \cup {t}) : Agree(u)'
      BY <1>1, <1>3, <1>5 DEF FileInv, Agree
  <2> QED
      BY <1>1, <1>4, <1>5, <2>1 DEF FileInv
<1>9. KnownInv'
    BY <1>1, <1>3, <1>4, <1>5 DEF KnownInv, Adding
<1>10. /\ \A u, s : Good(u, s) => Good(u, s)'
       /\ \A u, s : GoodStamp(u, s) => GoodStamp(u, s)'
       /\ \A u, s : InTime(u, s) => InTime(u, s)'
    BY GoodStays
<1>11. StampsInv'
    BY <1>1, <1>3, <1>10 DEF StampsInv
<1>12. OpInv'
    BY <1>1, <1>3, <1>4, <1>10 DEF OpInv
<1>13. ActiveInv'
    BY <1>10 DEF ActiveInv
<1> QED
    BY <1>6, <1>7, <1>8, <1>9, <1>11, <1>12, <1>13

(* A new task: a stored one goes through AddStored. *)
LEMMA AddStep ==
    ASSUME IInv, NEW t \in Tasks, AddTask(t) \/ AddNew(t)
    PROVE  IInv'
<1> USE DEF IInv
<1>1. /\ CanAdd(t) /\ proc = "on" /\ op = NoOp /\ t \notin DOMAIN active
      /\ UNCHANGED <<now, zone, proc, promise, dirty, lost>>
    BY DEF AddTask, AddNew, CanAdd, historyVars
<1>2. ASSUME AddTask(t) PROVE IInv'
  <2>1. PICK e \in configure_expiry(t) : active' = With(active, t, e)
      BY <1>2 DEF AddTask
  <2>2. e \in Expiries /\ (t \in Everyday => InTime(t, e))
      BY <2>1, NewExpiry
  <2>3. t \notin Strict /\ UNCHANGED <<now, zone, proc, cached, file, disk, op, promise, dirty, lost>>
      BY <1>2 DEF AddTask, historyVars
  <2> HIDE DEF IInv
  <2> QED
      BY <1>1, <2>1, <2>2, <2>3, ActiveStep
<1>3. ASSUME AddNew(t) PROVE IInv'
  <2>1. PICK e \in configure_expiry(t) : StoreTask(t, e)
      BY <1>3 DEF AddNew
  <2>2. /\ e \in Expiries
        /\ t \in Everyday => InTime(t, e) /\ InTime(t, from_timestamp(to_timestamp(e)))
      BY <2>1, NewExpiry
  <2>3. t \in Strict /\ t \notin DOMAIN cached /\ active' = active
      BY <1>3 DEF AddNew, find
  <2>4. DOMAIN promise \ lost \subseteq DOMAIN cached /\ t \notin DOMAIN promise \ lost
      BY <1>1, <2>3 DEF KnownInv, Adding
  <2>5. Good(t, e)
      BY <2>2, <2>4 DEF Good, Keeps
  <2>6. GoodStamp(t, to_timestamp(e))
    <3>1. from_timestamp(to_timestamp(e)) \in Expiries
        BY <2>2, StampOfExpiry
    <3> QED
        BY <2>2, <2>4, <3>1 DEF GoodStamp, Good, Keeps
  <2> HIDE DEF IInv
  <2> QED
      BY <1>1, <2>1, <2>2, <2>3, <2>4, <2>5, <2>6, StoreStep
<1> QED
    BY <1>2, <1>3

(* A stored task takes its expiry from the store.                           *)
LEMMA TakeStep ==
    ASSUME IInv, NEW t \in Tasks, AddStored(t)
    PROVE  IInv'
<1> USE DEF IInv
<1>1. /\ proc = "on" /\ op = NoOp /\ t \notin DOMAIN active /\ t \in Strict
      /\ cached' = Without(cached, t)
      /\ UNCHANGED <<now, zone, proc, active, file, disk, promise, dirty, lost>>
    BY DEF AddStored, CanAdd, historyVars
<1>2. PICK stamp \in find(t) :
          op' = [phase |-> "remove", task |-> t, expiry |-> from_timestamp(stamp)]
    BY DEF AddStored
<1>3. t \in DOMAIN cached /\ stamp = cached[t]
    BY DEF find
<1>4. GoodStamp(t, stamp) /\ stamp \in Nat
    BY <1>3, TimesDef, ExpiriesDef DEF StampsInv, TypeOK
<1> DEFINE e == from_timestamp(stamp)
<1>5. e \in Expiries /\ Good(t, e) /\ to_timestamp(e) = stamp
    BY <1>4, StoredAgain DEF GoodStamp
<1>6. op' # NoOp /\ op'.phase = "remove" /\ op'.task = t /\ op'.expiry = e
    BY <1>2 DEF NoOp
<1>7. /\ cached' \in Times /\ DOMAIN cached' = DOMAIN cached \ {t}
      /\ \A u \in DOMAIN cached \ {t} : cached'[u] = cached[u]
  <2>1. cached \in Times
      BY DEF TypeOK
  <2> QED
      BY <1>1, <2>1, WithoutTimes
<1> HIDE DEF e
<1>8. TypeOK'
  <2>1. op' \in [phase : Phases, task : Strict, expiry : Expiries]
      BY <1>1, <1>2, <1>5 DEF e, Phases
  <2> QED
      BY <1>1, <1>7, <2>1 DEF TypeOK
<1>9. ProcessInv'
    BY <1>1 DEF ProcessInv
<1>10. Pending = {} /\ Pending' = {t} /\ Cut = {} /\ Cut' = {} /\ op.phase = "none"
    BY <1>1, <1>6 DEF Pending, Cut, NoOp
<1>11. FileInv'
  <2>1. file = "whole" => \A u \in Strict \ (dirty \cup {t}) : Agree(u)'
      BY <1>1, <1>7, <1>10 DEF FileInv, Agree
  <2> QED
      BY <1>1, <1>6, <1>10, <2>1 DEF FileInv
<1>12. KnownInv'
    BY <1>1, <1>6, <1>7, <1>10 DEF KnownInv, Adding
<1>13. /\ \A u, s : Good(u, s) => Good(u, s)'
       /\ \A u, s : GoodStamp(u, s) => GoodStamp(u, s)'
       /\ \A u, s : InTime(u, s) => InTime(u, s)'
    BY <1>1, GoodStays
<1>14. StampsInv'
    BY <1>1, <1>7, <1>13 DEF StampsInv
<1>15. OpInv'
    BY <1>1, <1>4, <1>5, <1>6, <1>13 DEF OpInv
<1>16. ActiveInv'
    BY <1>1, <1>13 DEF ActiveInv
<1> QED
    BY <1>8, <1>9, <1>11, <1>12, <1>14, <1>15, <1>16

(* The next phase of an operation: the file is opened, or the store without *)
(* the task is written.                                                     *)
LEMMA PhaseStep ==
    ASSUME IInv, OpenFile \/ Removed
    PROVE  IInv'
<1> USE DEF IInv
<1>1. UNCHANGED <<now, zone, proc, active, cached, promise, lost>>
    BY DEF OpenFile, Removed
<1>2. /\ op.phase \in {"remove", "add", "removing"} /\ op # NoOp
      /\ op \in [phase : Phases, task : Strict, expiry : Expiries]
  <2>1. op.phase \in {"remove", "add", "removing"}
      BY DEF OpenFile, Removed
  <2> QED
      BY <2>1, OpKinds DEF TypeOK, Phases
<1>3. proc = "on"
    BY <1>2 DEF ProcessInv
<1>4. \/ OpenFile /\ op.phase = "remove" /\ op' = [op EXCEPT !.phase = "removing"]
      \/ OpenFile /\ op.phase = "add" /\ op' = [op EXCEPT !.phase = "adding"]
      \/ Removed /\ op.phase = "removing" /\ op' = [op EXCEPT !.phase = "removed"]
    BY DEF OpenFile, Removed
<1>5. /\ op' \in [phase : Phases, task : Strict, expiry : Expiries]
      /\ op' # NoOp /\ op'.task = op.task /\ op'.expiry = op.expiry
    BY <1>2, <1>4 DEF NoOp, Phases
<1>6. \/ op.phase = "remove" /\ op'.phase = "removing"
      \/ op.phase = "add" /\ op'.phase = "adding"
      \/ op.phase = "removing" /\ op'.phase = "removed" /\ Removed
    BY <1>2, <1>4
<1>7. \/ file' = "torn" /\ disk' = Empty /\ dirty' = dirty /\ op'.phase \in {"removing", "adding"}
      \/ file' = "whole" /\ disk' = cached /\ dirty' = {} /\ op'.phase = "removed"
  <2>1. CASE OpenFile
    <3>1. op'.phase \in {"removing", "adding"}
        BY <1>2, <2>1 DEF OpenFile, NoOp
    <3> QED
        BY <2>1, <3>1 DEF OpenFile, Truncate
  <2>2. CASE Removed
    <3>1. op'.phase = "removed"
        BY <1>2, <2>2 DEF Removed
    <3> QED
        BY <2>2, <3>1 DEF Removed, Write
  <2> QED
      BY <1>4, <2>1, <2>2
<1>8. TypeOK'
    BY <1>1, <1>5, <1>7, EmptyTimes DEF TypeOK
<1>9. ProcessInv'
    BY <1>1, <1>3, <1>7 DEF ProcessInv
<1>10. FileInv'
    BY <1>1, <1>7 DEF FileInv, Agree
<1>11. KnownInv'
  <2>1. Adding' = Adding /\ Adding = {op.task}
      BY <1>2, <1>5 DEF Adding
  <2>2. file' = "whole" => Cut' = {op.task}
      BY <1>5, <1>7 DEF Cut
  <2> QED
      BY <1>1, <1>3, <1>7, <2>1, <2>2 DEF KnownInv
<1>12. /\ \A u, s : Good(u, s) => Good(u, s)'
       /\ \A u, s : GoodStamp(u, s) => GoodStamp(u, s)'
       /\ \A u, s : InTime(u, s) => InTime(u, s)'
    BY <1>1, GoodStays
<1>13. StampsInv'
    BY <1>1, <1>7, <1>12 DEF StampsInv
<1>14. OpInv'
    BY <1>1, <1>2, <1>5, <1>6, <1>12 DEF OpInv
<1>15. ActiveInv'
    BY <1>1, <1>12 DEF ActiveInv
<1> QED
    BY <1>8, <1>9, <1>10, <1>11, <1>13, <1>14, <1>15

(* A save fails: what it leaves is told by dirty and lost. *)
LEMMA ThrowStep ==
    ASSUME IInv, OpenFails \/ WriteFails \/ LoadFails
    PROVE  IInv'
<1> USE DEF IInv
<1>1. /\ UNCHANGED <<now, zone, proc, active, cached, promise>>
      /\ op' = NoOp
      /\ lost' = IF op.phase \in {"remove", "removing"} THEN lost \cup {op.task} ELSE lost
      /\ op.phase \in {"remove", "removing", "add", "adding"}
    BY DEF OpenFails, WriteFails, LoadFails, Throw
<1>2. /\ op # NoOp /\ op.task \in Strict /\ lost \subseteq lost' /\ lost' \subseteq lost \cup {op.task}
      /\ op.phase \in {"remove", "removing"} => lost' = lost \cup {op.task}
    BY <1>1, OpKinds DEF NoOp
<1>3. \/ dirty' = dirty \cup {op.task} /\ UNCHANGED <<file, disk>>
      \/ dirty' = {} /\ file' = "whole" /\ disk' = cached
    BY DEF OpenFails, WriteFails, LoadFails, Write
<1>4. proc = "on" /\ op.task \notin DOMAIN active
    BY <1>2 DEF ProcessInv, OpInv
<1>5. TypeOK'
    BY <1>1, <1>2, <1>3 DEF TypeOK
<1>6. ProcessInv'
    BY <1>1, <1>3, <1>4 DEF ProcessInv
<1>7. op'.phase = "none" /\ Pending' = {} /\ Cut' = {} /\ Adding' = {} /\ Adding = {op.task}
      /\ Pending \subseteq {op.task} /\ Cut \subseteq {op.task}
    BY <1>1, <1>2 DEF Pending, Cut, Adding, NoOp
<1>8. FileInv'
    BY <1>1, <1>3, <1>4, <1>7 DEF FileInv, Agree
<1>9. KnownInv'
  <2>1. DOMAIN promise' \ lost' \subseteq DOMAIN cached'
    <3>1. CASE op.phase \in {"remove", "removing"}
        BY <1>1, <1>2, <1>4, <1>7, <3>1 DEF KnownInv
    <3>2. CASE op.phase \in {"add", "adding"}
        BY <1>1, <1>2, <1>4, <1>7, <3>2 DEF KnownInv, OpInv
    <3> QED
        BY <1>1, <3>1, <3>2
  <2>2. Strict \cap DOMAIN active' \subseteq DOMAIN cached' \ dirty'
      BY <1>1, <1>3, <1>4 DEF KnownInv
  <2>3. file' = "whole" => DOMAIN promise' \ lost' \subseteq DOMAIN disk' \cup dirty'
      BY <1>1, <1>2, <1>3, <1>7, <2>1 DEF KnownInv
  <2>4. DOMAIN promise' \subseteq Strict
      BY <1>1 DEF KnownInv
  <2> QED
      BY <2>1, <2>2, <2>3, <2>4 DEF KnownInv
<1>10. /\ \A u, s : GoodStamp(u, s) => GoodStamp(u, s)'
       /\ \A u, s : InTime(u, s) => InTime(u, s)'
    BY <1>1, <1>2, GoodStays
<1>11. StampsInv'
    BY <1>1, <1>3, <1>10 DEF StampsInv
<1>12. OpInv' /\ ActiveInv'
    BY <1>1, <1>10 DEF OpInv, ActiveInv
<1> QED
    BY <1>5, <1>6, <1>8, <1>9, <1>11, <1>12

(* ... and the task is stored again.                                        *)
LEMMA StoredAgainStep ==
    ASSUME IInv, AddRemoved
    PROVE  IInv'
<1>1. /\ op.phase = "removed" /\ StoreTask(op.task, op.expiry)
      /\ UNCHANGED <<now, zone, proc, active, promise, dirty, lost>>
    BY DEF AddRemoved, historyVars
<1>2. op # NoOp /\ op.task \in Strict /\ op.expiry \in Expiries
    BY <1>1, OpKinds DEF IInv
<1>3. /\ proc = "on" /\ op.task \notin DOMAIN active /\ Good(op.task, op.expiry)
      /\ GoodStamp(op.task, to_timestamp(op.expiry))
    BY <1>2 DEF IInv, ProcessInv, OpInv
<1>4. DOMAIN promise \ lost \subseteq DOMAIN cached \cup {op.task}
    BY <1>2, <1>3 DEF IInv, KnownInv, Adding
<1> QED
    BY <1>1, <1>2, <1>3, <1>4, StoreStep

(* What is promised is kept in the store: the first activation of a task    *)
(* promises the expiry whose timestamp has been stored.                     *)
LEMMA ActivateStep ==
    ASSUME IInv, Activate
    PROVE  IInv'
<1> USE DEF IInv
<1> PICK t, e : t = op.task /\ e = op.expiry
    OBVIOUS
<1>1. /\ op.phase = "adding" /\ op' = NoOp
      /\ file' = "whole" /\ disk' = cached /\ dirty' = {}
      /\ active' = With(active, t, e)
      /\ promise' = IF t \in DOMAIN promise \ lost THEN promise ELSE With(promise, t, e)
      /\ lost' = lost \ {t}
      /\ UNCHANGED <<now, zone, proc, cached>>
    BY DEF Activate, Promise, Write
<1>2. op # NoOp /\ t \in Strict /\ t \in Tasks /\ e \in Expiries
    BY <1>1, OpKinds
<1>3. /\ proc = "on" /\ t \notin DOMAIN active /\ t \in DOMAIN cached /\ cached[t] = to_timestamp(e)
      /\ Good(t, e) /\ GoodStamp(t, to_timestamp(e))
    BY <1>1, <1>2 DEF ProcessInv, OpInv
<1>4. active \in Times /\ promise \in Times /\ cached \in Times
    BY DEF TypeOK
<1>5. /\ active' \in Times /\ DOMAIN active' = DOMAIN active \cup {t}
      /\ active'[t] = e /\ \A u \in DOMAIN active \ {t} : active'[u] = active[u]
  <2>1. Extends(active', active, t, e)
      BY <1>1, <1>2, <1>4, WithTimes
  <2> QED
      BY <2>1 DEF Extends
<1>6. /\ promise' \in Times /\ DOMAIN promise' = DOMAIN promise \cup {t}
      /\ \A u \in DOMAIN promise \ {t} : promise'[u] = promise[u]
      /\ t \in DOMAIN promise \ lost => promise'[t] = promise[t]
      /\ t \notin DOMAIN promise \ lost => promise'[t] = e
  <2>1. CASE t \in DOMAIN promise \ lost
      BY <1>1, <1>4, <2>1
  <2>2. CASE t \notin DOMAIN promise \ lost
    <3>1. promise' = With(promise, t, e)
        BY <1>1, <2>2
    <3>2. Extends(promise', promise, t, e)
        BY <1>2, <1>4, <3>1, WithTimes
    <3> QED
        BY <2>2, <3>2 DEF Extends
  <2> QED
      BY <2>1, <2>2
<1>7. TypeOK'
    BY <1>1, <1>4, <1>5, <1>6 DEF TypeOK
<1>8. ProcessInv' /\ FileInv'
    BY <1>1, <1>3 DEF ProcessInv, FileInv, Agree, NoOp
<1>9. KnownInv'
  <2>1. DOMAIN promise' \subseteq Strict
      BY <1>2, <1>6 DEF KnownInv
  <2>2. DOMAIN promise' \ lost' \subseteq DOMAIN cached'
      BY <1>1, <1>2, <1>3, <1>6 DEF KnownInv, Adding
  <2>3. Strict \cap DOMAIN active' \subseteq DOMAIN cached' \ dirty'
      BY <1>1, <1>3, <1>5 DEF KnownInv
  <2> QED
      BY <1>1, <2>1, <2>2, <2>3 DEF KnownInv
<1>10. \A u, s : InTime(u, s) => InTime(u, s)'
    BY <1>1 DEF InTime
<1>11. \A u : u # t => \A s : GoodStamp(u, s) => GoodStamp(u, s)'
    BY <1>1, <1>6, <1>10 DEF GoodStamp, Good, Keeps
<1>12. GoodStamp(t, to_timestamp(e))'
  <2> DEFINE stamp == to_timestamp(e)
             back == from_timestamp(stamp)
  <2>1. e \in Nat /\ stamp \in Nat /\ back \in Nat /\ back <= e /\ to_timestamp(back) = stamp
    <3>1. e \in Nat /\ stamp \in Nat /\ back \in Nat /\ e - back \in 0..(Precision - 1)
        BY <1>2, ExpiriesDef, Truncation
    <3>2. to_timestamp(back) = stamp
        BY <3>1, StoredAgain
    <3> HIDE DEF stamp, back
    <3>3. back <= e
        BY <3>1, PrecisionAssumption
    <3> QED
        BY <3>1, <3>2, <3>3
  <2>2. back \in Expiries /\ Good(t, back)
      BY <1>3 DEF GoodStamp
  <2> HIDE DEF back
  <2>3. Keeps(t, back)'
      BY <1>1, <1>6, <2>1, <2>2 DEF Good, Keeps
  <2>4. t \in Everyday => InTime(t, back)'
      BY <1>10, <2>2 DEF Good
  <2> QED
      BY <2>2, <2>3, <2>4 DEF GoodStamp, Good, back
<1>13. StampsInv'
  <2>1. \A u \in DOMAIN cached : GoodStamp(u, cached[u])'
      BY <1>1, <1>3, <1>11, <1>12 DEF StampsInv
  <2> QED
      BY <1>1, <2>1 DEF StampsInv
<1>14. OpInv'
    BY <1>1 DEF OpInv
<1>15. ActiveInv'
    BY <1>3, <1>5, <1>10 DEF ActiveInv, Good
<1> QED
    BY <1>7, <1>8, <1>9, <1>13, <1>14, <1>15

(* The handler of a task runs, and its timer is set again. *)
LEMMA FireStep ==
    ASSUME IInv, NEW t \in Tasks, FireRepeated(t) \/ FireEveryday(t)
    PROVE  IInv'
<1>1. /\ proc = "on" /\ op = NoOp /\ t \in DOMAIN active /\ active[t] <= now
      /\ UNCHANGED <<now, zone, proc, cached, file, disk, op, promise, dirty, lost>>
    BY DEF FireRepeated, FireEveryday, Due, historyVars
<1>2. TypeOK /\ active \in Times /\ active[t] \in Expiries /\ active[t] \in Nat
    BY <1>1, TimesDef, ExpiriesDef DEF IInv, TypeOK
<1>3. ASSUME NEW e, active' = [active EXCEPT ![t] = e] PROVE active' = With(active, t, e)
  <2>1. DOMAIN active \cup {t} = DOMAIN active /\ active \in [DOMAIN active -> Expiries]
      BY <1>1, <1>2 DEF Times
  <2> QED
      BY <1>3, <2>1 DEF With
<1>4. ASSUME FireRepeated(t) PROVE IInv'
  <2>1. t \in Generic /\ active' = With(active, t, RepeatedExpiry)
      BY <1>3, <1>4 DEF FireRepeated
  <2>2. RepeatedExpiry \in Expiries /\ (t \in Everyday => InTime(t, RepeatedExpiry))
      BY <1>2, <2>1, NewExpiry DEF configure_expiry
  <2> QED
      BY <1>1, <2>1, <2>2, ActiveStep
<1>5. ASSUME FireEveryday(t) PROVE IInv'
  <2> DEFINE e == active[t] + Days * Day
  <2>1. t \in Everyday /\ active' = With(active, t, e)
      BY <1>3, <1>5 DEF FireEveryday
  <2>2. InTime(t, e)
      BY <1>1, <1>2, <2>1, NextDay DEF IInv, ActiveInv
  <2>3. e \in Expiries
    <3> DEFINE more == Days * Day
    <3>1. /\ active[t] \in Nat /\ active[t] <= now /\ now <= MaxTime /\ more \in Nat
          /\ MaxTime \in Nat /\ now \in Nat /\ Period \in Nat /\ Day \in Nat
        BY <1>1, <1>2, Calendar, ExpiriesDef
    <3> HIDE DEF more
    <3>2. active[t] + more \in Int /\ 0 <= active[t] + more
          /\ active[t] + more <= MaxTime + Period + 2 * Day + more
        BY <3>1
    <3> QED
        BY <3>2, ExpiriesDef DEF more
  <2> HIDE DEF e
  <2> QED
      BY <1>1, <2>1, <2>2, <2>3, ActiveStep
<1> QED
    BY <1>4, <1>5

(* Every step keeps the inductive invariant. *)
LEMMA StepIInv == IInv /\ [Next]_vars => IInv'
<1> SUFFICES ASSUME IInv, [Next]_vars PROVE IInv'
    OBVIOUS
<1>1. CASE CreateFile \/ FileCreated \/ LoadFile
    BY <1>1, StartStep
<1>2. ASSUME NEW t \in Tasks, AddTask(t) \/ AddNew(t) PROVE IInv'
    BY <1>2, AddStep
<1>3. ASSUME NEW t \in Tasks, AddStored(t) PROVE IInv'
    BY <1>3, TakeStep
<1>4. ASSUME NEW t \in Tasks, FireRepeated(t) \/ FireEveryday(t) PROVE IInv'
    BY <1>4, FireStep
<1>5. CASE OpenFile \/ Removed \/ AddRemoved \/ Activate
    BY <1>5, PhaseStep, StoredAgainStep, ActivateStep
<1>6. CASE OpenFails \/ WriteFails \/ LoadFails
    BY <1>6, ThrowStep
<1>7. CASE Tick \/ Crash
    BY <1>7, TickStep, CrashStep
<1>8. CASE UNCHANGED vars
  <2>1. UNCHANGED <<now, zone, proc, active, cached, file, disk, op, promise, dirty, lost>>
      BY <1>8 DEF vars
  <2>2. \A t, e : Good(t, e) => Good(t, e)'
      BY <2>1, GoodStays
  <2>3. StampsInv' /\ OpInv' /\ ActiveInv'
      BY <2>1, GoodStays DEF IInv, StampsInv, OpInv, ActiveInv
  <2> QED
      BY <2>1, <2>3 DEF IInv, TypeOK, ProcessInv, FileInv, KnownInv, Adding, Agree, Pending, Cut
<1> QED
    BY <1>1, <1>2, <1>3, <1>4, <1>5, <1>6, <1>7, <1>8 DEF Next

-----------------------------------------------------------------------------
(* The theorems.                                                            *)

(* The inductive invariant holds in every reachable state. *)
THEOREM Invariance == Spec => []IInv
<1>1. QED
    BY InitIInv, StepIInv, PTL DEF Spec

(* Type correctness. *)
THEOREM TypeCorrect == Spec => []TypeOK
<1>1. IInv => TypeOK
    BY DEF IInv
<1>2. QED
    BY <1>1, Invariance, PTL

(* Between operations cache and file agree, up to the failed saves, and    *)
(* every active strict task is in the file if that is whole.                *)
THEOREM StoreIsAlwaysDurable == Spec => []StoreIsDurable
<1>1. IInv => StoreIsDurable
  <2> SUFFICES ASSUME IInv, proc = "on", op = NoOp
               PROVE  /\ file = "whole" \/ dirty # {}
                      /\ file = "whole" => \A t \in Strict \ dirty : Agree(t)
                      /\ Strict \cap DOMAIN active \subseteq DOMAIN cached \ dirty
      BY DEF StoreIsDurable, Agree
  <2>1. op.phase = "none" /\ Pending = {} /\ file \in {"absent", "torn", "whole"} /\ file # "absent"
      BY DEF NoOp, Pending, IInv, TypeOK, ProcessInv
  <2> QED
      BY <2>1 DEF IInv, FileInv, KnownInv
<1>2. QED
    BY <1>1, Invariance, PTL

(* No failed save and no crash at any moment makes the scheduler forget a   *)
(* task, except the one whose removal threw, or that was between its        *)
(* removal and its addition.                                                *)
THEOREM NothingIsForgotten == Spec => []NothingForgotten
<1>1. IInv => NothingForgotten
    BY DEF IInv, KnownInv, Adding, NothingForgotten
<1>2. QED
    BY <1>1, Invariance, PTL

(* The timestamps cut off less than a unit, once, over any number of        *)
(* restarts and for every precision.                                        *)
THEOREM ExpiryIsKept == Spec => RestartKeepsExpiry
<1>1. IInv /\ [Next]_vars =>
        [\A t \in (DOMAIN active' \ DOMAIN active) \cap (DOMAIN promise \ lost) :
             promise[t] - active'[t] \in 0..(Precision - 1)]_vars
  <2> SUFFICES ASSUME IInv, Next,
                      NEW t \in (DOMAIN active' \ DOMAIN active) \cap (DOMAIN promise \ lost)
               PROVE  promise[t] - active'[t] \in 0..(Precision - 1)
      BY DEF vars
  <2>1. t \in Strict /\ active \in Times
      BY DEF IInv, KnownInv, TypeOK
  <2>2. Activate
    <3>1. ASSUME NEW u \in Tasks, AddTask(u) PROVE FALSE
      <4>1. u \notin Strict /\ \E e : active' = With(active, u, e)
          BY <3>1 DEF AddTask
      <4>2. DOMAIN active' = DOMAIN active \cup {u}
          BY <4>1 DEF With
      <4> QED
          BY <2>1, <4>1, <4>2
    <3>2. ASSUME NEW u \in Tasks, FireRepeated(u) \/ FireEveryday(u) PROVE FALSE
        BY <3>2 DEF FireRepeated, FireEveryday
    <3>3. ASSUME NEW u \in Tasks, AddStored(u) \/ AddNew(u) PROVE FALSE
        BY <3>3 DEF AddStored, AddNew
    <3>4. ASSUME CreateFile \/ FileCreated \/ LoadFile \/ Removed \/ AddRemoved \/ Tick PROVE FALSE
        BY <3>4 DEF CreateFile, FileCreated, LoadFile, Removed, AddRemoved, Tick
    <3>6. ASSUME OpenFile \/ OpenFails \/ WriteFails \/ LoadFails PROVE FALSE
        BY <3>6 DEF OpenFile, OpenFails, WriteFails, LoadFails, Throw
    <3>5. ASSUME Crash PROVE FALSE
        BY <3>5, EmptyTimes DEF Crash
    <3> QED
        BY <3>1, <3>2, <3>3, <3>4, <3>5, <3>6 DEF Next
  <2>3. op.phase = "adding" /\ active' = With(active, op.task, op.expiry)
      BY <2>2 DEF Activate
  <2>4. op # NoOp /\ op.task \in Tasks /\ op.expiry \in Expiries
      BY <2>3, OpKinds DEF IInv
  <2>5. t = op.task /\ active'[t] = op.expiry
    <3>1. Extends(active', active, op.task, op.expiry)
        BY <2>1, <2>3, <2>4, WithTimes
    <3> QED
        BY <2>1, <3>1 DEF Extends
  <2>6. to_timestamp(op.expiry) = to_timestamp(promise[t]) /\ op.expiry <= promise[t]
      BY <2>4, <2>5 DEF IInv, OpInv, Good, Keeps
  <2>7. op.expiry \in Nat /\ promise[t] \in Nat
      BY <2>4, TimesDef, ExpiriesDef DEF IInv, TypeOK
  <2> QED
      BY <2>5, <2>6, <2>7, SameTimestamp
<1>2. QED
    BY <1>1, Invariance, PTL DEF Spec, RestartKeepsExpiry

(* An everyday task drifts by less than a unit, however long it runs.       *)
THEOREM EverydayStaysInTime == Spec => []EverydayAtItsTime
<1>1. IInv => EverydayAtItsTime
    BY DEF IInv, ActiveInv, InTime, EverydayAtItsTime
<1>2. QED
    BY <1>1, Invariance, PTL

-----------------------------------------------------------------------------
(* The expiry of a new everyday task.                                       *)

(* A fresh expiry has been computed in this step. *)
LEMMA FreshIsNew ==
    ASSUME IInv, Next, NEW t \in Everyday, NEW e \in Expiries, Fresh(t, e)
    PROVE  e \in EverydayExpiry(t)
<1>1. t \in Tasks /\ t \notin Generic /\ active \in Times /\ TypeOK
    BY TasksAssumption DEF Tasks, IInv, TypeOK
<1>2. configure_expiry(t) = EverydayExpiry(t)
    BY <1>1 DEF configure_expiry
<1>3. CASE t \notin Strict /\ t \in DOMAIN active' \ DOMAIN active /\ e = active'[t]
  <2>1. PICK u \in Tasks : AddTask(u)
    <3>1. ASSUME NEW u \in Tasks, FireRepeated(u) \/ FireEveryday(u) PROVE FALSE
        BY <1>3, <3>1 DEF FireRepeated, FireEveryday
    <3>2. ASSUME NEW u \in Tasks, AddStored(u) \/ AddNew(u) PROVE FALSE
        BY <1>3, <3>2 DEF AddStored, AddNew
    <3>3. ASSUME CreateFile \/ FileCreated \/ LoadFile \/ Removed \/ AddRemoved \/ Tick PROVE FALSE
        BY <1>3, <3>3 DEF CreateFile, FileCreated, LoadFile, Removed, AddRemoved, Tick
    <3>6. ASSUME OpenFile \/ OpenFails \/ WriteFails \/ LoadFails PROVE FALSE
        BY <1>3, <3>6 DEF OpenFile, OpenFails, WriteFails, LoadFails, Throw
    <3>4. ASSUME Crash PROVE FALSE
        BY <1>3, <3>4, EmptyTimes DEF Crash
    <3>5. ASSUME Activate PROVE FALSE
      <4>1. op.phase = "adding" /\ active' = With(active, op.task, op.expiry)
          BY <3>5 DEF Activate
      <4>2. op # NoOp /\ op.task \in Strict
          BY <1>1, <4>1, OpKinds
      <4>3. DOMAIN active' = DOMAIN active \cup {op.task}
          BY <4>1 DEF With
      <4> QED
          BY <1>3, <4>2, <4>3
    <3> QED
        BY <3>1, <3>2, <3>3, <3>4, <3>5, <3>6 DEF Next
  <2>2. PICK d \in configure_expiry(u) : active' = With(active, u, d)
      BY <2>1 DEF AddTask
  <2>3. Extends(active', active, u, d)
    <3>1. d \in Expiries
        BY <1>1, NewExpiry
    <3> QED
        BY <1>1, <2>2, <3>1, WithTimes
  <2>4. u = t /\ e = d
      BY <1>3, <2>3 DEF Extends
  <2> QED
      BY <1>2, <2>2, <2>4
<1>4. CASE op = NoOp /\ op' # NoOp /\ op'.phase = "add" /\ op'.task = t /\ e = op'.expiry
  <2>1. op.phase = "none"
      BY <1>4 DEF NoOp
  <2>2. PICK u \in Tasks : AddNew(u)
    <3>1. ASSUME NEW u \in Tasks, FireRepeated(u) \/ FireEveryday(u) \/ AddTask(u) PROVE FALSE
        BY <1>4, <3>1 DEF FireRepeated, FireEveryday, AddTask
    <3>2. ASSUME NEW u \in Tasks, AddStored(u) PROVE FALSE
      <4>1. op'.phase = "remove"
          BY <3>2 DEF AddStored
      <4> QED
          BY <1>4, <4>1
    <3>3. ASSUME CreateFile \/ FileCreated \/ LoadFile \/ Tick \/ Crash PROVE FALSE
        BY <1>4, <3>3 DEF CreateFile, FileCreated, LoadFile, Tick, Crash
    <3>4. ASSUME OpenFile \/ Removed \/ AddRemoved \/ Activate PROVE FALSE
        BY <2>1, <3>4 DEF OpenFile, Removed, AddRemoved, Activate
    <3>5. ASSUME OpenFails \/ WriteFails \/ LoadFails PROVE FALSE
        BY <2>1, <3>5 DEF OpenFails, WriteFails, LoadFails
    <3> QED
        BY <3>1, <3>2, <3>3, <3>4, <3>5 DEF Next
  <2>3. PICK d \in configure_expiry(u) : op' = [phase |-> "add", task |-> u, expiry |-> d]
      BY <2>2 DEF AddNew, StoreTask
  <2>4. u = t /\ e = d
      BY <1>4, <2>3
  <2> QED
      BY <1>2, <2>3, <2>4
<1> QED
    BY <1>3, <1>4 DEF Fresh

(* In a quiet zone the offset of now is that of every instant around it. *)
LEMMA QuietOffset ==
    ASSUME TypeOK, QuietZone, NEW s \in Int, now - 2 * Day <= s, s <= now + 2 * Day
    PROVE  OffsetAt(s) = OffsetAt(now)
BY Calendar DEF QuietZone, OffsetAt

(* Dates that are a whole number of days, and less than two, apart. *)
LEMMA DaysApart ==
    ASSUME NEW d \in Nat \ {0}, NEW p \in Int, NEW q \in Int,
           p * d - q * d < 2 * d, q * d - p * d < 2 * d
    PROVE  p - q \in {-1, 0, 1} /\ p * d - q * d = (p - q) * d
<1> DEFINE k == p - q
<1>1. k \in Int /\ p * d - q * d = k * d
    OBVIOUS
<1> HIDE DEF k
<1>2. k * d < 2 * d /\ -(2 * d) < k * d
    BY <1>1
<1>3. k < 2 /\ -2 < k
    BY <1>1, <1>2
<1> QED
    BY <1>1, <1>3 DEF k

(* A new expiry, compared with the next time that it is time in the zone. *)
LEMMA NewExpiryIsNext ==
    ASSUME TypeOK, NEW t \in Everyday, NEW e \in EverydayExpiry(t), QuietZone
    PROVE  \/ e = NextAt(t)
           \/ /\ DateOf(now + OffsetAt(now)) # DateOf(now)
              /\ (e - NextAt(t)) % Day = 0
              /\ e \in (now - Day)..(NextAt(t) + Days * Day)
<1>1. PICK s \in parse_time(At[t]) : e = IF now > s THEN s + Days * Day ELSE s
    BY DEF EverydayExpiry
<1> DEFINE off == OffsetAt(now)
           more == Days * Day
           today == DateOf(now + off) + At[t] - off
<1>2. PICK q \in Int : DateOf(now) = q * Day /\ now - Day < DateOf(now) /\ DateOf(now) <= now
    BY Calendar, Midnight
<1>3. off \in (1 - Day)..(Day - 1) /\ Day \in Nat \ {0} /\ now \in Nat /\ At[t] \in 0..(Day - 1)
      /\ more \in Nat /\ more >= Day /\ Days \in Nat
    BY Calendar, OffsetIsOne, ExpiriesDef
<1>4. PICK p \in Int : DateOf(now + off) = p * Day /\ (now + off) - Day < DateOf(now + off)
                       /\ DateOf(now + off) <= now + off
  <2>1. now + off \in Int
      BY <1>3
  <2> QED
      BY <2>1, Midnight
<1>5. s \in Int /\ s = DateOf(now) + At[t] - off
  <2>1. s \in Int /\ s + OffsetAt(s) = DateOf(now) + At[t]
      BY <1>1, ParsedTime
  <2>2. OffsetAt(s) \in (1 - Day)..(Day - 1)
      BY OffsetIsOne, Calendar
  <2>3. DateOf(now) \in Int
      BY <1>2, <1>3
  <2>4. now - 2 * Day <= s /\ s <= now + 2 * Day
      BY <1>2, <1>3, <2>1, <2>2, <2>3
  <2>5. OffsetAt(s) = off
      BY <2>1, <2>4, QuietOffset
  <2> HIDE DEF off
  <2> QED
      BY <1>3, <2>1, <2>3, <2>5
<1>6. NextAt(t) = IF now > today THEN today + more ELSE today
    BY DEF NextAt
<1> DEFINE d0 == DateOf(now)
           d1 == DateOf(now + off)
           k == p - q
<1>7. k \in {-1, 0, 1} /\ d1 - d0 = k * Day /\ d0 \in Int /\ d1 \in Int
  <2>1. d0 \in Int /\ d1 \in Int /\ d0 = q * Day /\ d1 = p * Day
      BY <1>2, <1>3, <1>4
  <2>2. d1 - d0 < 2 * Day /\ d0 - d1 < 2 * Day
    <3> HIDE DEF off, d0, d1
    <3>1. now - Day < d0 /\ d0 <= now /\ (now + off) - Day < d1 /\ d1 <= now + off
        BY <1>2, <1>4 DEF d0, d1
    <3> QED
        BY <1>3, <2>1, <3>1
  <2>3. p * Day - q * Day < 2 * Day /\ q * Day - p * Day < 2 * Day
      BY <2>1, <2>2
  <2> QED
      BY <1>3, <2>1, <2>3, DaysApart
<1>8. /\ s = d0 + At[t] - off /\ today = d1 + At[t] - off /\ now - Day < d0 /\ d0 <= now
      /\ e = IF now > s THEN s + more ELSE s
      /\ k = 0 => d1 = d0
      /\ k = 1 => d1 = d0 + Day
      /\ k = -1 => d1 = d0 - Day
    BY <1>1, <1>2, <1>3, <1>5, <1>7
<1>9. CASE k = 0
    BY <1>6, <1>8, <1>9
<1>10. CASE k # 0
  <2> DEFINE n == NextAt(t)
  <2>0. n = IF now > today THEN today + more ELSE today
      BY <1>6
  <2> HIDE DEF off, more, d0, d1, k, today, n
  <2>1. e \in Int /\ n \in Int /\ today \in Int
      BY <1>3, <1>5, <1>7, <1>8, <2>0
  <2>2. d1 # d0
      BY <1>3, <1>7, <1>8, <1>10
  <2>3. e \in (now - Day)..(n + more)
      BY <1>3, <1>5, <1>7, <1>8, <1>10, <2>0, <2>1
  <2>4. \/ e - n = -(k * Day)
        \/ e - n = more - k * Day
        \/ e - n = -more - k * Day
      BY <1>3, <1>5, <1>7, <1>8, <1>10, <2>0, <2>1
  <2>5. \E m \in Int : e - n = 0 + m * Day
    <3>1. k \in Int /\ Days \in Int
        BY <1>3, <1>7
    <3>2. -(k * Day) = 0 + (-k) * Day /\ -k \in Int
        BY <1>3, <3>1
    <3>3. Days * Day - k * Day = 0 + (Days - k) * Day /\ Days - k \in Int
        BY <1>3, <3>1
    <3>4. -(Days * Day) - k * Day = 0 + (-Days - k) * Day /\ -Days - k \in Int
        BY <1>3, <3>1
    <3> QED
        BY <2>4, <3>2, <3>3, <3>4 DEF more
  <2>6. (e - n) % Day = 0
    <3>1. PICK m \in Int : e - n = 0 + m * Day
        BY <2>5
    <3>2. (0 + m * Day) % Day = 0 % Day
        BY <1>3, DaysLater
    <3>3. 0 % Day = 0
        BY <1>3
    <3> QED
        BY <3>1, <3>2, <3>3
  <2> QED
      BY <2>2, <2>3, <2>6 DEF off, more, d0, d1, n
<1> QED
    BY <1>7, <1>9, <1>10

(* A new everyday task runs the next time that it is time, up to whole days *)
(* around the moment when the zone has another date than UTC.               *)
THEOREM FreshExpiryIsTheNext == Spec => FreshExpiryIsNext
<1>1. IInv /\ [Next]_vars =>
        [\A t \in Everyday, e \in Expiries :
           Fresh(t, e) /\ QuietZone =>
               \/ e = NextAt(t)
               \/ /\ DateOf(now + OffsetAt(now)) # DateOf(now)
                  /\ (e - NextAt(t)) % Day = 0
                  /\ e \in (now - Day)..(NextAt(t) + Days * Day)]_vars
  <2> SUFFICES ASSUME IInv, Next, NEW t \in Everyday, NEW e \in Expiries, Fresh(t, e), QuietZone
               PROVE  \/ e = NextAt(t)
                      \/ /\ DateOf(now + OffsetAt(now)) # DateOf(now)
                         /\ (e - NextAt(t)) % Day = 0
                         /\ e \in (now - Day)..(NextAt(t) + Days * Day)
      OBVIOUS
  <2>1. e \in EverydayExpiry(t) /\ TypeOK
      BY FreshIsNew DEF IInv
  <2> QED
      BY <2>1, NewExpiryIsNext
<1>2. QED
    BY <1>1, Invariance, PTL DEF Spec, FreshExpiryIsNext

=============================================================================
