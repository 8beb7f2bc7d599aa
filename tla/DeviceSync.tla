----------------------------- MODULE DeviceSync -----------------------------
(***************************************************************************)
(* How the state of the hardware reaches Home Assistant: the pollers       *)
(* (poller/), the event bus (common/event) and the event handlers          *)
(* (home_assistant_adapter/event) with the devices they create.            *)
(*                                                                         *)
(* A device is a hatch, a temperature sensor or the main board.  A part of *)
(* a device is what has an entity of its own: a hatch and a sensor have    *)
(* one part, the main board has its indicators and, last, the restart      *)
(* button.  The entity of a part is an EntityLink, which EntityAdapter     *)
(* implements.                                                             *)
(***************************************************************************)
EXTENDS Integers, Sequences, SequencesExt

CONSTANTS
    Devices, Board,  \* the devices, and which of them is the main board
    PartsOf,         \* PartsOf[d]: the parts of d in the order of creation
    Silent,          \* parts whose adapter has no state()
    Values,          \* Values[d]: what the driver of d may report
    Shown,           \* Shown[p][v]: what p shows of the value v of its device
    InitialSeen,     \* InitialSeen[d]: what hash_ or cached_temp_ starts as
    MaxSyncs         \* bound: event coroutines of one device in flight

Parts == UNION {ToSet(PartsOf[d]) : d \in Devices}
DeviceOf == [p \in Parts |-> CHOOSE d \in Devices : p \in ToSet(PartsOf[d])]
PublishedBy(p) == {Shown[p][v] : v \in Values[DeviceOf[p]]} \ {"undefined"}

ASSUME PartsAssumption ==
    /\ \A d \in Devices :
          PartsOf[d] \in Seq(ToSet(PartsOf[d])) \ {<<>>} /\ IsInjective(PartsOf[d])
    /\ \A d, e \in Devices : d # e => ToSet(PartsOf[d]) \cap ToSet(PartsOf[e]) = {}
    /\ \A d \in Devices \ {Board} : Len(PartsOf[d]) = 1
    /\ \A p \in Silent : Board \in Devices /\ p = Last(PartsOf[Board])

ASSUME ShownAssumption ==
    \A p \in Parts \ Silent : Values[DeviceOf[p]] \subseteq DOMAIN Shown[p]

ASSUME MaxSyncsAssumption == MaxSyncs \in Nat

VARIABLES
    hw,       \* hw[d]: what the driver reports
    seen,     \* seen[d]: what the poller remembers
    ha,       \* ha[p]: the retained state at the broker
    link,     \* link[p]: the entity of p, see EntityLink
    status,   \* status[d]: is the device in its event handler's list
    create,   \* create[d]: the part that async_create is creating
    syncs,    \* syncs[d]: StateChanged coroutines, each by its next part
    dead,     \* the process has been aborted
    cause     \* history: why p's last update may be missing at the broker

vars == <<hw, seen, ha, link, status, create, syncs, dead, cause>>

Entity(p) == INSTANCE EntityLink WITH link <- link[p]

Phases == {"none", "init", "initdown", "failed", "up", "down", "config", "stuck"}

(* The entity of p moves, by a step of EntityLink; the others do not. *)
Moves(p) == \E phase \in Phases : link' = [link EXCEPT ![p] = phase]

(* async_create of p's device has come to p. *)
Creating(p) ==
    LET d == DeviceOf[p] IN status[d] = "creating" /\ PartsOf[d][create[d]] = p

Listed(p) == status[DeviceOf[p]] = "listed"

TypeOK ==
    /\ \A d \in Devices :
          /\ hw[d] \in Values[d]
          /\ seen[d] \in Values[d] \cup {InitialSeen[d]}
          /\ status[d] \in {"absent", "creating", "listed", "failed"}
          /\ create[d] \in 1..Len(PartsOf[d])
          /\ syncs[d] \in Seq(1..Len(PartsOf[d]))
          /\ Len(syncs[d]) <= MaxSyncs
    /\ \A p \in Parts :
          /\ Entity(p)!TypeOK
          /\ p \notin Silent => ha[p] \in PublishedBy(p) \cup {"nothing"}
          /\ cause[p] \in {"none", "dropped", "unpolled"}
    /\ dead \in BOOLEAN

(* main_board_init has registered the devices, started their pollers and    *)
(* published DeviceCreated for each; it does not suspend in between.  A     *)
(* device that the platform description does not list is absent.            *)
Init ==
    /\ hw \in {f \in [Devices -> UNION {Values[d] : d \in Devices}] :
                 \A d \in Devices : f[d] \in Values[d]}
    /\ seen = [d \in Devices |-> InitialSeen[d]]
    /\ ha = [p \in Parts |-> "nothing"]
    /\ link = [p \in Parts |-> "none"]
    /\ status \in [Devices -> {"absent", "creating"}]
    /\ create = [d \in Devices |-> 1]
    /\ syncs = [d \in Devices |-> <<>>]
    /\ dead = FALSE
    /\ cause = [p \in Parts |-> "none"]

-----------------------------------------------------------------------------
(* state() of the adapter: what Home Assistant does not know is             *)
(* CoverState::Undefined, a temperature is rounded, an indicator is on when *)
(* the led that they share has its colour.                                  *)
state(p) == Shown[p][hw[DeviceOf[p]]]

(* history: the value read is the one that the poller remembers, or not. *)
ReadOf(p) ==
    cause' = [cause EXCEPT ![p] = IF hw[DeviceOf[p]] = seen[DeviceOf[p]] THEN "none" ELSE "unpolled"]

(* Mutant: the check for CoverState::Undefined is missing. *)
async_sync_state_Undefined(p) ==
    /\ ha' = IF p \notin Silent /\ Entity(p)!Reaches
             THEN [ha EXCEPT ![p] = state(p)] ELSE ha
    /\ ReadOf(p)

(* EntityAdapter::async_sync_state of part p: the state is read and, if it  *)
(* is one that Home Assistant knows, published.  The publishes of an entity *)
(* are written in the order in which they are begun, so that nothing comes  *)
(* between the two.                                                         *)
async_sync_state(p) ==
    /\ ha' = IF p \notin Silent /\ state(p) # "undefined" /\ Entity(p)!Reaches
             THEN [ha EXCEPT ![p] = state(p)] ELSE ha
    /\ ReadOf(p)

-----------------------------------------------------------------------------
(* The pollers.                                                             *)

(* current_hash() or current_temp() differs from what is remembered. *)
Changed(d) == hw[d] # seen[d]

(* The new value replaces the remembered one. *)
Remember(d) ==
    /\ seen' = [seen EXCEPT ![d] = hw[d]]
    /\ cause' = [p \in Parts |-> IF p \in ToSet(PartsOf[d]) THEN "none" ELSE cause[p]]

(* Mutant: the poller remembers the value, but the event is lost. *)
Poll_Quiet(d) ==
    /\ status[d] # "absent" /\ Changed(d)
    /\ Remember(d)
    /\ UNCHANGED <<hw, ha, link, status, create, syncs, dead>>

(* A poller wakes up and finds that something has changed: it remembers the *)
(* new value and publishes DeviceStateChanged, for which the bus spawns a   *)
(* coroutine.  Without a change it does nothing.                            *)
Poll(d) ==
    /\ status[d] # "absent" /\ Changed(d)
    /\ Len(syncs[d]) < MaxSyncs
    /\ Remember(d)
    /\ syncs' = [syncs EXCEPT ![d] = Append(@, 1)]
    /\ UNCHANGED <<hw, ha, link, status, create, dead>>

(* Reading the device throws in a poller. *)
PollThrows == dead' = TRUE
    /\ UNCHANGED <<hw, seen, ha, link, status, create, syncs, cause>>

-----------------------------------------------------------------------------
(* operator()(DeviceStateChanged_t).                                        *)

(* The parts of d whose state async_create has already read. *)
ReadByCreate(d) == {p \in ToSet(PartsOf[d]) : Entity(p)!Made}

(* The device is not in the list yet, or never will be. *)
StateChangedDropped(d, k) ==
    /\ syncs[d][k] = 1
    /\ status[d] # "listed"
    /\ syncs' = [syncs EXCEPT ![d] = RemoveAt(@, k)]
    /\ cause' = [p \in Parts |-> IF p \in ReadByCreate(d) THEN "dropped" ELSE cause[p]]
    /\ UNCHANGED <<hw, seen, ha, link, status, create, dead>>

(* Mutant: only the first entity of the device is synchronized. *)
StateChangedSync_First(d, k) ==
    /\ status[d] = "listed"
    /\ async_sync_state(PartsOf[d][syncs[d][k]])
    /\ syncs' = [syncs EXCEPT ![d] = RemoveAt(@, k)]
    /\ UNCHANGED <<hw, seen, link, status, create, dead>>

(* The entities of the device are synchronized one after the other, with a  *)
(* suspension after each publish.                                           *)
StateChangedSync(d, k) ==
    /\ status[d] = "listed"
    /\ async_sync_state(PartsOf[d][syncs[d][k]])
    /\ syncs' = IF syncs[d][k] < Len(PartsOf[d])
                THEN [syncs EXCEPT ![d][k] = @ + 1]
                ELSE [syncs EXCEPT ![d] = RemoveAt(@, k)]
    /\ UNCHANGED <<hw, seen, link, status, create, dead>>

-----------------------------------------------------------------------------
(* operator()(DeviceCreated_t) and async_create.                            *)

(* async_init of the next part connects. *)
CreateConnected(p) ==
    /\ Creating(p)
    /\ Moves(p) /\ Entity(p)!Connect
    /\ UNCHANGED <<hw, seen, ha, status, create, syncs, dead, cause>>

(* ... and ends with reading the state and publishing it, without looking   *)
(* at errors.                                                               *)
CreateSynced(p) ==
    /\ Creating(p)
    /\ Moves(p) /\ Entity(p)!FinishInit
    /\ async_sync_state(p)
    /\ UNCHANGED <<hw, seen, status, create, syncs, dead>>

(* async_init returns false. *)
CreateFails(p) ==
    /\ Creating(p)
    /\ Moves(p) /\ Entity(p)!GiveUp
    /\ UNCHANGED <<hw, seen, ha, status, create, syncs, dead, cause>>

(* async_init of the part that is being created is over. *)
InitOver(d) ==
    \E p \in Parts : Creating(p) /\ DeviceOf[p] = d /\ (Entity(p)!Made \/ link[p] = "failed")

(* Mutant: the main board is kept whatever has failed. *)
CreateNext_Keeps(d) ==
    /\ InitOver(d)
    /\ IF create[d] < Len(PartsOf[d])
       THEN create' = [create EXCEPT ![d] = @ + 1] /\ UNCHANGED status
       ELSE status' = [status EXCEPT ![d] = "listed"] /\ UNCHANGED create
    /\ UNCHANGED <<hw, seen, ha, link, syncs, dead, cause>>

(* The coroutine resumes after async_init: it goes on with the next part or *)
(* puts the device into the list and spawns async_run.  A hatch or a sensor *)
(* that failed is forgotten.  A main board of which a part failed is an     *)
(* exception: before the restart button if it was an indicator, after it    *)
(* otherwise.                                                               *)
CreateNext(d) ==
    LET failed == \E p \in ToSet(PartsOf[d]) : link[p] = "failed"
        last == create[d] = Len(PartsOf[d])
        decided == last \/ (failed /\ create[d] + 1 = Len(PartsOf[d]))
    IN
    /\ InitOver(d)
    /\ \/ /\ ~decided
          /\ create' = [create EXCEPT ![d] = @ + 1]
          /\ UNCHANGED <<status, dead>>
       \/ /\ decided /\ ~failed
          /\ status' = [status EXCEPT ![d] = "listed"]
          /\ UNCHANGED <<create, dead>>
       \/ /\ decided /\ failed
          /\ status' = [status EXCEPT ![d] = "failed"]
          /\ dead' = (d = Board)
          /\ UNCHANGED create
    /\ UNCHANGED <<hw, seen, ha, link, syncs, cause>>

-----------------------------------------------------------------------------
(* EntityAdapter::async_run of part p.  Before the device is listed nobody  *)
(* receives, so that nobody notices a loss.                                 *)

Reconnected(p) ==
    /\ Listed(p)
    /\ Moves(p) /\ Entity(p)!Reopen
    /\ UNCHANGED <<hw, seen, ha, status, create, syncs, dead, cause>>

(* Mutant: the state is not published again after a reconnect. *)
Reconfigured_NoSync(p) ==
    /\ Listed(p)
    /\ Moves(p) /\ Entity(p)!FinishAgain
    /\ UNCHANGED <<hw, seen, ha, status, create, syncs, dead, cause>>

Reconfigured(p) ==
    /\ Listed(p)
    /\ Moves(p) /\ Entity(p)!FinishAgain
    /\ async_sync_state(p)
    /\ UNCHANGED <<hw, seen, status, create, syncs, dead>>

ReconfigureFails(p) ==
    /\ Listed(p)
    /\ Moves(p) /\ Entity(p)!GetStuck
    /\ UNCHANGED <<hw, seen, ha, status, create, syncs, dead, cause>>

-----------------------------------------------------------------------------
(* External. *)
HardwareChanges(d) ==
    /\ status[d] # "absent"
    /\ \E v \in Values[d] \ {hw[d]} : hw' = [hw EXCEPT ![d] = v]
    /\ UNCHANGED <<seen, ha, link, status, create, syncs, dead, cause>>

SessionLost(p) ==
    /\ Moves(p) /\ Entity(p)!Lose
    /\ UNCHANGED <<hw, seen, ha, status, create, syncs, dead, cause>>

StateChanged(d) ==
    \E k \in DOMAIN syncs[d] : StateChangedDropped(d, k) \/ StateChangedSync(d, k)

Create(d) ==
    \/ \E p \in ToSet(PartsOf[d]) : CreateConnected(p) \/ CreateSynced(p) \/ CreateFails(p)
    \/ CreateNext(d)

Run(p) == Reconnected(p) \/ Reconfigured(p) \/ ReconfigureFails(p)

Next ==
    /\ ~dead
    /\ \/ \E d \in Devices :
             Poll(d) \/ StateChanged(d) \/ Create(d) \/ HardwareChanges(d)
       \/ PollThrows
       \/ \E p \in Parts : Run(p) \/ SessionLost(p)

Spec == Init /\ [][Next]_vars

(* The poll timers fire, and the coroutines that are spawned run: a publish *)
(* is written or fails.  Nothing is assumed of async_create and async_run,  *)
(* whose calls may wait for the broker for ever.                            *)
Fairness ==
    \A d \in Devices :
        WF_vars(~dead /\ Poll(d)) /\ WF_vars(~dead /\ StateChanged(d))

FairSpec == Spec /\ Fairness

-----------------------------------------------------------------------------
(* Properties.                                                              *)

Stale(p) == p \notin Silent /\ state(p) # "undefined" /\ ha[p] # state(p)

InUse(p) == Listed(p) /\ link[p] = "up" /\ ~dead

(* A coroutine that is going to publish p's state is in flight. *)
SyncPending(p) ==
    LET d == DeviceOf[p] IN
    \E k \in DOMAIN syncs[d] : PartsOf[d][syncs[d][k]] = p
        \/ \E i \in (syncs[d][k] + 1)..Len(PartsOf[d]) : PartsOf[d][i] = p

(* On a configured session the broker shows the state of the hardware, or   *)
(* the poller will see the difference, or a coroutine that publishes it is  *)
(* in flight, or one of the two holes of the scheme is the cause: an event  *)
(* was dropped between the read of the state by async_create and push_back, *)
(* or the last read was of a state that the poller has never seen (the      *)
(* hardware went back to the remembered state before the next poll).        *)
StalenessExplained ==
    \A p \in Parts :
        InUse(p) /\ Stale(p) =>
            \/ hw[DeviceOf[p]] # seen[DeviceOf[p]]
            \/ SyncPending(p)
            \/ cause[p] # "none"

(* The main board is only used when each of its indicators and its button   *)
(* have been created.                                                       *)
ListedIsComplete ==
    \A d \in Devices : status[d] = "listed" =>
        \A p \in ToSet(PartsOf[d]) : Entity(p)!Made

(* A state that Home Assistant does not show is shown in the end, on a      *)
(* session that lasts and except for the two holes, even if the hardware    *)
(* never comes to rest.                                                     *)
StateIsShown ==
    \A p \in Parts \ Silent :
        (InUse(p) /\ Stale(p)) ~> (~InUse(p) \/ ~Stale(p) \/ cause[p] # "none")

=============================================================================
