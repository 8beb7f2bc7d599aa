---------------------------- MODULE TaskScheduler ---------------------------
(***************************************************************************)
(* Scheduler and FileTaskStore (common/scheduler): repeated tasks, and the *)
(* file that lets a task added with Execution::Strict keep its expiry over *)
(* a restart.                                                              *)
(*                                                                         *)
(* The calls are synchronous, but the process may die in the middle of one *)
(* (power loss, abort), and each save of the file may fail in three ways   *)
(* after the cache has been changed: the file cannot be opened, or what is *)
(* written does not reach it, or it cannot be read back.  Then every()     *)
(* throws to its caller, and the process may go on.  An action is what     *)
(* happens between two such moments.                                       *)
(***************************************************************************)
EXTENDS Integers, FiniteSets, Functions

CONSTANTS
    Generic,    \* ids of GenericRepeatedTasks
    Everyday,   \* ids of EverydayAtTasks
    Strict,     \* those of them that are added with Execution::Strict
    Period,     \* the duration of a GenericRepeatedTask, in ticks of the clock
    Day,        \* the ticks of a day
    Days,       \* DaysAt::days of an EverydayAtTask
    At,         \* At[t]: DaysAt::at, in ticks since midnight in its time zone
    Zones,      \* the time zones: a change of the clocks, and the ticks by
                \* which local time is ahead of UTC before it and after it
    Precision,  \* datetime::Precision_t: ticks in a unit of a timestamp
    MaxTime     \* bound: the clock stops here

Tasks == Generic \cup Everyday

ASSUME TasksAssumption == Generic \cap Everyday = {} /\ Strict \subseteq Tasks
ASSUME PeriodAssumption == Period \in Nat \ {0} /\ MaxTime \in Nat
ASSUME PrecisionAssumption == Precision \in Nat \ {0}
ASSUME CalendarAssumption ==
    /\ Day \in Nat \ {0} /\ Days \in Nat \ {0}
    /\ At \in [Everyday -> 0..(Day - 1)]
    /\ Zones \subseteq [change : Int, before : (1 - Day)..(Day - 1), after : (1 - Day)..(Day - 1)]

VARIABLES
    now,      \* the system clock
    zone,     \* the time zone that the everyday tasks are given in
    proc,     \* the process: "off", "init" (in the constructor), "on", "refused"
    active,   \* active_tasks_: the expiry of each active task
    cached,   \* cached_tasks_: the timestamp of each stored task
    file,     \* the file: "absent", "torn" (truncated, not written), "whole"
    disk,     \* what the file holds (nothing unless it is whole)
    op,       \* the strict task that is being added, and how far
    promise,  \* history: the expiry under which a strict task was first active
              \* (since it was last lost)
    dirty,    \* history: the tasks whose change of the cache was not saved,
              \* since the last save that did not fail
    lost      \* history: strict tasks taken out of the store and not put back

historyVars == <<promise, dirty, lost>>
vars == <<now, zone, proc, active, cached, file, disk, op, promise, dirty, lost>>

NoOp == [phase |-> "none"]
(* A strict task is removed from the cache, the file is open, the removal  *)
(* is saved; it is added to the cache, the file is open.                   *)
Phases == {"remove", "removing", "removed", "add", "adding"}
Expiries == 0..(MaxTime + Period + 2 * Day + Days * Day)
Times == UNION {[D -> Expiries] : D \in SUBSET Tasks}
Empty == [t \in {} |-> 0]
Without(f, t) == Restrict(f, DOMAIN f \ {t})
With(f, t, e) == [u \in DOMAIN f \cup {t} |-> IF u = t THEN e ELSE f[u]]

TypeOK ==
    /\ now \in 0..MaxTime
    /\ zone \in Zones
    /\ proc \in {"off", "init", "on", "refused"}
    /\ active \in Times /\ cached \in Times /\ disk \in Times
    /\ file \in {"absent", "torn", "whole"}
    /\ op = NoOp \/ op \in [phase : Phases, task : Strict, expiry : Expiries]
    /\ promise \in Times
    /\ dirty \subseteq Strict /\ lost \subseteq Strict

Init ==
    /\ now = 0
    /\ zone \in Zones
    /\ proc = "off"
    /\ active = Empty /\ cached = Empty /\ disk = Empty
    /\ file = "absent"
    /\ op = NoOp
    /\ promise = Empty
    /\ dirty = {} /\ lost = {}

-----------------------------------------------------------------------------
(* A timestamp counts whole units; the rest is cut off. *)
to_timestamp(e) == e \div Precision

from_timestamp(stamp) == stamp * Precision

(* FileTaskStore. *)

(* find() of the cache. *)
find(t) == {cached[u] : u \in DOMAIN cached \cap {t}}

(* std::fstream opens the file with ios::out: it is empty from here on. *)
Truncate == file' = "torn" /\ disk' = Empty /\ UNCHANGED dirty

(* ... until the serialized cache is flushed into it; load() reads it back. *)
Write == file' = "whole" /\ disk' = cached /\ dirty' = {}

(* The constructor creates a file that is missing, and stores [] in it; the *)
(* file may be there and yet not open a second time.                        *)
CreateFile ==
    /\ proc = "off"
    /\ file = "absent"
    /\ cached' = Empty
    /\ \/ proc' = "init" /\ Truncate
       \/ proc' = "refused" /\ (Truncate \/ UNCHANGED <<file, disk, dirty>>)
    /\ UNCHANGED <<now, zone, active, op, promise, lost>>

(* If it cannot be written, or not be read back, the constructor throws. *)
FileCreated ==
    /\ proc = "init"
    /\ \/ proc' = "on" /\ Write
       \/ proc' = "refused" /\ (Write \/ UNCHANGED <<file, disk, dirty>>)
    /\ UNCHANGED <<now, zone, active, cached, op, promise, lost>>

(* Mutant: an empty file is taken for an empty list. *)
LoadFile_Lenient ==
    /\ proc = "off"
    /\ file # "absent"
    /\ proc' = "on"
    /\ cached' = IF file = "whole" THEN disk ELSE Empty
    /\ UNCHANGED <<now, zone, active, file, disk, op, historyVars>>

(* load(): an empty or cut off file is no JSON document, and the            *)
(* constructor throws; so it does if the file cannot be opened.             *)
LoadFile ==
    /\ proc = "off"
    /\ file # "absent"
    /\ \/ file = "whole" /\ proc' = "on" /\ cached' = disk
       \/ proc' = "refused" /\ UNCHANGED cached
    /\ UNCHANGED <<now, zone, active, file, disk, op, historyVars>>

-----------------------------------------------------------------------------
(* Scheduler::add_task.                                                     *)

(* GenericRepeatedTask::configure_expiry. *)
RepeatedExpiry == now + Period

(* Local time in the zone is ahead of UTC by the offset. *)
OffsetAt(s) == IF s < zone.change THEN zone.before ELSE zone.after

DateOf(s) == s - (s % Day)

(* parse_time: the date of now in UTC with the time of the day in the zone. *)
(* The clocks may make such a local time happen twice or not at all: then   *)
(* zoned_time throws.                                                       *)
parse_time(at) ==
    LET local == DateOf(now) + at
        instants == {s \in (local - Day)..(local + Day) : s + OffsetAt(s) = local}
    IN  IF Cardinality(instants) = 1 THEN instants ELSE {}

(* Mutant: a time that has passed is not moved to another day. *)
EverydayExpiry_Today(t) == parse_time(At[t])

(* EverydayAtTask::configure_expiry. *)
EverydayExpiry(t) ==
    {IF now > s THEN s + Days * Day ELSE s : s \in parse_time(At[t])}

(* The expiry that the constructor of a task computes, if it returns. *)
configure_expiry(t) == IF t \in Generic THEN {RepeatedExpiry} ELSE EverydayExpiry(t)

CanAdd(t) == proc = "on" /\ op = NoOp /\ t \notin DOMAIN active /\ now < MaxTime

(* Not strict: the task is only activated. *)
AddTask(t) ==
    /\ CanAdd(t)
    /\ t \notin Strict
    /\ \E e \in configure_expiry(t) : active' = With(active, t, e)
    /\ UNCHANGED <<now, zone, proc, cached, file, disk, op, historyVars>>

(* Mutant: the saved expiry is not taken over. *)
AddStored_Fresh(t) ==
    /\ CanAdd(t)
    /\ t \in Strict /\ find(t) # {}
    /\ \E e \in configure_expiry(t) : op' = [phase |-> "remove", task |-> t, expiry |-> e]
    /\ cached' = Without(cached, t)
    /\ UNCHANGED <<now, zone, proc, active, file, disk, historyVars>>

(* process_strict_policy_task: a task that is stored takes the expiry from  *)
(* the store and is removed there ...  Its own expiry has been computed     *)
(* before, and may have thrown.                                             *)
AddStored(t) ==
    /\ CanAdd(t)
    /\ t \in Strict /\ find(t) # {}
    /\ configure_expiry(t) # {}
    /\ \E stamp \in find(t) :
          op' = [phase |-> "remove", task |-> t, expiry |-> from_timestamp(stamp)]
    /\ cached' = Without(cached, t)
    /\ UNCHANGED <<now, zone, proc, active, file, disk, historyVars>>

(* add_task_to_store: in the cache first. *)
StoreTask(t, e) ==
    /\ op' = [phase |-> "add", task |-> t, expiry |-> e]
    /\ cached' = With(cached, t, to_timestamp(e))
    /\ UNCHANGED <<file, disk>>

(* ... and the task is added again.  A task that is not stored starts here. *)
AddRemoved ==
    /\ op.phase = "removed"
    /\ StoreTask(op.task, op.expiry)
    /\ UNCHANGED <<now, zone, proc, active, historyVars>>

(* Mutant: the policy is not looked at. *)
AddNew_AnyPolicy(t) ==
    /\ CanAdd(t)
    /\ find(t) = {}
    /\ \E e \in configure_expiry(t) : StoreTask(t, e)
    /\ UNCHANGED <<now, zone, proc, active, historyVars>>

AddNew(t) ==
    /\ CanAdd(t)
    /\ t \in Strict /\ find(t) = {}
    /\ \E e \in configure_expiry(t) : StoreTask(t, e)
    /\ UNCHANGED <<now, zone, proc, active, historyVars>>

(* remove() and add() have changed the cache, and store() opens the file. *)
OpenFile ==
    /\ op.phase \in {"remove", "add"}
    /\ op' = [op EXCEPT !.phase = IF op.phase = "remove" THEN "removing" ELSE "adding"]
    /\ Truncate
    /\ UNCHANGED <<now, zone, proc, active, cached, promise, lost>>

(* The cache without the task is written and read back. *)
Removed ==
    /\ op.phase = "removing"
    /\ op' = [op EXCEPT !.phase = "removed"]
    /\ Write
    /\ UNCHANGED <<now, zone, proc, active, cached, promise, lost>>

(* The first expiry of a task is what every later activation has to keep. *)
Promise(t, e) ==
    /\ promise' = IF t \in DOMAIN promise \ lost THEN promise ELSE With(promise, t, e)
    /\ lost' = lost \ {t}

(* The cache with the task is written and read back: the task is activated. *)
Activate ==
    /\ op.phase = "adding"
    /\ Write
    /\ active' = With(active, op.task, op.expiry)
    /\ Promise(op.task, op.expiry)
    /\ op' = NoOp
    /\ UNCHANGED <<now, zone, proc, cached>>

(* store() or load() throws: the task is not activated, and what has been   *)
(* done to the cache stays.                                                 *)
Throw ==
    /\ op' = NoOp
    /\ lost' = IF op.phase \in {"remove", "removing"} THEN lost \cup {op.task} ELSE lost
    /\ UNCHANGED <<now, zone, proc, active, cached, promise>>

(* Mutant: a file that cannot be opened is passed over in silence; load()   *)
(* reads the old one.                                                       *)
OpenFails_Silent ==
    /\ op.phase = "add" /\ file = "whole"
    /\ cached' = disk
    /\ active' = With(active, op.task, op.expiry)
    /\ Promise(op.task, op.expiry)
    /\ op' = NoOp
    /\ UNCHANGED <<now, zone, proc, file, disk, dirty>>

(* The file cannot be opened for writing: it stays as it is. *)
OpenFails ==
    /\ op.phase \in {"remove", "add"}
    /\ Throw
    /\ dirty' = dirty \cup {op.task}
    /\ UNCHANGED <<file, disk>>

(* The write fails (a full disk), which store() does not look at: load()    *)
(* finds an empty or cut off file.                                          *)
WriteFails ==
    /\ op.phase \in {"removing", "adding"}
    /\ Throw
    /\ dirty' = dirty \cup {op.task}
    /\ UNCHANGED <<file, disk>>

(* The file is written, and load() cannot open it. *)
LoadFails ==
    /\ op.phase \in {"removing", "adding"}
    /\ Throw
    /\ Write

-----------------------------------------------------------------------------
(* The timer of an active task has expired: its handler runs, and the timer *)
(* is set again.  The store is not touched.                                 *)
Due(t) ==
    /\ proc = "on" /\ op = NoOp
    /\ t \in DOMAIN active /\ active[t] <= now /\ now < MaxTime

(* GenericRepeatedTask: a period from now. *)
FireRepeated(t) ==
    /\ t \in Generic
    /\ Due(t)
    /\ active' = [active EXCEPT ![t] = RepeatedExpiry]
    /\ UNCHANGED <<now, zone, proc, cached, file, disk, op, historyVars>>

(* Mutant: the next expiry is counted from the moment the handler ran. *)
FireEveryday_FromNow(t) ==
    /\ t \in Everyday
    /\ Due(t)
    /\ active' = [active EXCEPT ![t] = now + Days * Day]
    /\ UNCHANGED <<now, zone, proc, cached, file, disk, op, historyVars>>

(* EverydayAtTask: some days of 24 hours after the last expiry, also if     *)
(* that has passed.                                                         *)
FireEveryday(t) ==
    /\ t \in Everyday
    /\ Due(t)
    /\ active' = [active EXCEPT ![t] = @ + Days * Day]
    /\ UNCHANGED <<now, zone, proc, cached, file, disk, op, historyVars>>

(* External: time passes, also while the process is off. *)
Tick ==
    /\ now < MaxTime
    /\ now' = now + 1
    /\ UNCHANGED <<zone, proc, active, cached, file, disk, op, historyVars>>

(* The task that a crash of this moment leaves in no file. *)
Cut == IF op.phase \in {"removed", "add"} THEN {op.task} ELSE {}

(* The process ends, in the middle of an operation or not. *)
Crash ==
    /\ proc # "off"
    /\ proc' = "off"
    /\ active' = Empty /\ cached' = Empty
    /\ op' = NoOp
    /\ dirty' = {} /\ lost' = lost \cup dirty \cup Cut
    /\ UNCHANGED <<now, zone, file, disk, promise>>

Next ==
    \/ CreateFile \/ FileCreated \/ LoadFile
    \/ \E t \in Tasks : AddTask(t) \/ AddStored(t) \/ AddNew(t)
                       \/ FireRepeated(t) \/ FireEveryday(t)
    \/ OpenFile \/ Removed \/ AddRemoved \/ Activate
    \/ OpenFails \/ WriteFails \/ LoadFails
    \/ Tick \/ Crash

Spec == Init /\ [][Next]_vars

-----------------------------------------------------------------------------
(* Properties.                                                              *)

(* While the process works and no task is being added, the file holds what  *)
(* the cache holds, up to the tasks whose last save failed; only such a     *)
(* failure leaves it torn.  An active strict task is never one of them: a   *)
(* crash at such a moment loses nothing that is active, and the caller of   *)
(* every() has been told of everything else by an exception.                *)
StoreIsDurable ==
    proc = "on" /\ op = NoOp =>
        /\ file = "whole" \/ dirty # {}
        /\ file = "whole" =>
              \A t \in Strict \ dirty :
                  /\ t \in DOMAIN cached <=> t \in DOMAIN disk
                  /\ t \in DOMAIN cached => cached[t] = disk[t]
        /\ Strict \cap DOMAIN active \subseteq DOMAIN cached \ dirty

(* A scheduler that has started knows every strict task that was ever       *)
(* active, whatever failed or crashed, with two exceptions: the store threw *)
(* when the task was to be removed, so that it is out of the cache for good *)
(* and for the process that goes on; or the process died when the task was  *)
(* out of the file, after its removal was saved, and before its addition    *)
(* was (which the store may have refused).  A damaged file is refused, not  *)
(* taken for an empty one.                                                  *)
NothingForgotten ==
    proc = "on" /\ op = NoOp => DOMAIN promise \ lost \subseteq DOMAIN cached

(* A strict task is activated with the expiry it had the first time, over   *)
(* any number of restarts and failed saves (and although it has run since   *)
(* then), unless it was lost in one of the two ways of NothingForgotten:    *)
(* then it starts anew.  What the timestamps cut off is less than a unit    *)
(* and does not add up: the task is never later.                            *)
RestartKeepsExpiry ==
    [][\A t \in (DOMAIN active' \ DOMAIN active) \cap (DOMAIN promise \ lost) :
         promise[t] - active'[t] \in 0..(Precision - 1)]_vars

(* The expiry of an everyday task is fresh in a step. *)
Fresh(t, e) ==
    \/ t \notin Strict /\ t \in DOMAIN active' \ DOMAIN active /\ e = active'[t]
    \/ op = NoOp /\ op' # NoOp /\ op'.phase = "add" /\ op'.task = t /\ e = op'.expiry

(* When the task is to run next, for somebody who lives in the zone. *)
NextAt(t) ==
    LET today == DateOf(now + OffsetAt(now)) + At[t] - OffsetAt(now) IN
    IF now > today THEN today + Days * Day ELSE today

(* The clocks do not change in the days around now. *)
QuietZone == OffsetAt(now - 2 * Day) = OffsetAt(now + 2 * Day)

(* A new everyday task expires the next time that it is its time of the day *)
(* in its time zone.  Only while the zone has another date than UTC it may  *)
(* be wrong, by whole days: it then runs at once, or skips a day.           *)
FreshExpiryIsNext ==
    [][\A t \in Everyday, e \in Expiries :
         Fresh(t, e) /\ QuietZone =>
             \/ e = NextAt(t)
             \/ /\ DateOf(now + OffsetAt(now)) # DateOf(now)
                /\ (e - NextAt(t)) % Day = 0
                /\ e \in (now - Day)..(NextAt(t) + Days * Day)]_vars

(* An everyday task keeps its time of the day, however late its handler     *)
(* runs and however often it is stored and restored: what it can lose is    *)
(* one unit of a timestamp, and the change of the clocks, which the 24-hour *)
(* steps do not follow.                                                     *)
EverydayAtItsTime ==
    \A t \in Everyday \cap DOMAIN active :
        \E offset \in {zone.before, zone.after}, cut \in 0..(Precision - 1) :
            (active[t] + cut + offset) % Day = At[t]

=============================================================================
