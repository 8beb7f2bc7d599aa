------------------------------ MODULE Platform ------------------------------
(***************************************************************************)
(* Start-up (app/main.cpp, main_board_init.hpp, main_board/platform,       *)
(* device/device_register.hpp): the devices named in the platform          *)
(* description are found, registered, polled and announced, while the      *)
(* event handlers that were announced to already look them up.             *)
(*                                                                         *)
(* main_board_init does not suspend, but co_spawn starts a coroutine at    *)
(* once when it is called on the thread of the io_context, so the handlers *)
(* of an event may run up to their first suspension inside publish.  Here  *)
(* they may run between any two of its steps.                              *)
(***************************************************************************)
EXTENDS Integers, Sequences, SequencesExt, FiniteSets

CONSTANT Descriptions   \* the platform description files, sequences of entries

Types == {"MainBoard", "Hatch", "TempSensor"}

(* An entry: the driver it asks for; whether it has all its attributes,     *)
(* misses a sysfs_path (of one led, for the indicator), or has something of *)
(* the wrong shape; and whether the paths that it has exist.                *)
Entry == [compatible : {"rgb_indicator", "hatch2sr", "ds18b20", "cpu_temp", "other"},
          form : {"good", "partial", "malformed"},
          present : BOOLEAN]

ASSUME DescriptionsAssumption == Descriptions \subseteq Seq(Entry)

VARIABLES
    desc,        \* the description
    pc,          \* where main_board_init is
    at,          \* the next entry
    indicators,  \* PlatformBuilder: the board has its four indicators
    loaders,     \* PlatformBuilder: the generic devices to load
    device_id,   \* handle: what the loader has returned
    next_id,     \* the counter of new_id()
    inventory,   \* inventory[D]: ids in Inventory<D>
    identities,  \* hw_identity_store: the ids it holds
    nodes,       \* the device tree
    pollers,     \* PollingService: the devices that are polled
    created,     \* DeviceCreated coroutines that have not started
    creating,    \* DeviceCreated coroutines that wait for the broker
    listed,      \* devices that their event handlers hold
    forgotten,   \* history: devices whose handler could not create them
    suspended,   \* devices of which an entity reconnects for ever
    dead         \* why the process was aborted, "no" while it runs

builderVars == <<desc, pc, at, indicators, loaders, device_id>>
registryVars == <<next_id, inventory, identities, nodes, pollers>>
handlerVars == <<created, creating, listed, forgotten, suspended>>
vars == <<builderVars, registryVars, handlerVars, dead>>

Ids == 1..(Len(desc) + 1)
Device == [type : Types, id : Ids]

Tree == INSTANCE DeviceTree WITH Ids <- Nat, called <- {}, owed <- {}

TypeOK ==
    /\ desc \in Descriptions
    /\ pc \in {"open", "setup", "load", "child", "announce", "done"}
    /\ at \in 1..(Len(desc) + 1)
    /\ indicators \in BOOLEAN
    /\ loaders \in Seq(Range(desc))
    /\ next_id \in 1..(Len(desc) + 2)
    /\ device_id \in 0..(next_id - 1)
    /\ inventory \in [Types -> SUBSET (1..(next_id - 1))]
    /\ identities \subseteq inventory["MainBoard"]
    /\ nodes \in Seq(Tree!Node)
    /\ \A set \in {pollers, created, creating, listed, forgotten, suspended} : set \subseteq Device
    /\ dead \in {"no", "description", "hardware", "client", "board",
                 "identity", "device", "duplicate"}

(* home_assistant_init has subscribed the handlers; nothing has run yet.    *)
Init ==
    /\ desc \in Descriptions
    /\ pc = "open"
    /\ at = 1
    /\ indicators = FALSE
    /\ loaders = <<>>
    /\ next_id = 1 /\ device_id = 0
    /\ inventory = [D \in Types |-> {}]
    /\ identities = {}
    /\ nodes = <<>>
    /\ pollers = {}
    /\ created = {} /\ creating = {} /\ listed = {} /\ forgotten = {} /\ suspended = {}
    /\ dead = "no"

(* An exception: the rest of the coroutine is not run, main() aborts.       *)
Throw(why) ==
    /\ dead' = why
    /\ UNCHANGED <<builderVars, registryVars, handlerVars>>

-----------------------------------------------------------------------------
(* PlatformDeviceDiscovery, an entry at a time.                             *)

(* The file exists and is JSON, or there is an exception. *)
pdtree_load ==
    /\ pc = "open"
    /\ \/ /\ pc' = "setup"
          /\ UNCHANGED <<desc, at, indicators, loaders, device_id>>
          /\ UNCHANGED <<registryVars, handlerVars, dead>>
       \/ Throw("description")

(* The leds are opened here, also when one of the three is missing and the  *)
(* provider returns false.  Four indicators share one led.                  *)
RGBIndicatorLoad(entry) ==
    /\ \/ ~entry.present /\ dead' = "hardware" /\ UNCHANGED indicators
       \/ entry.present /\ indicators' = (indicators \/ entry.form = "good") /\ UNCHANGED dead
    /\ UNCHANGED loaders

(* The three generic providers leave a loader; the path is not looked at.   *)
HatchLoad(entry) ==
    /\ loaders' = Append(loaders, entry)
    /\ UNCHANGED <<indicators, dead>>

DS18B20Load(entry) ==
    /\ loaders' = Append(loaders, entry)
    /\ UNCHANGED <<indicators, dead>>

CPUTempSensorLoad(entry) ==
    /\ loaders' = Append(loaders, entry)
    /\ UNCHANGED <<indicators, dead>>

(* A driver that nobody provides and an attribute of the wrong shape are    *)
(* exceptions; a provider that misses the sysfs_path returns false, which   *)
(* setup ignores.                                                           *)
setup ==
    /\ pc = "setup"
    /\ at <= Len(desc)
    /\ LET entry == desc[at] IN
       \/ /\ entry.compatible = "other" \/ entry.form = "malformed"
          /\ dead' = "description"
          /\ UNCHANGED <<indicators, loaders>>
       \/ /\ entry.compatible = "rgb_indicator" /\ entry.form # "malformed"
          /\ RGBIndicatorLoad(entry)
       \/ /\ entry.compatible \notin {"other", "rgb_indicator"} /\ entry.form = "partial"
          /\ UNCHANGED <<indicators, loaders, dead>>
       \/ /\ entry.form = "good"
          /\ \/ entry.compatible = "hatch2sr" /\ HatchLoad(entry)
             \/ entry.compatible = "ds18b20" /\ DS18B20Load(entry)
             \/ entry.compatible = "cpu_temp" /\ CPUTempSensorLoad(entry)
    /\ at' = at + 1
    /\ UNCHANGED <<desc, pc, device_id, registryVars, handlerVars>>

-----------------------------------------------------------------------------
(* Registration and announcement.                                           *)

(* Mutant: pre-increment. *)
new_id_PreIncrement(D) == next_id + 1

(* One counter for the devices of every type. *)
new_id(D) == next_id

register_device(D) ==
    /\ inventory' = [inventory EXCEPT ![D] = @ \cup {new_id(D)}]
    /\ next_id' = next_id + 1

add_poller(D, id) == pollers' = pollers \cup {[type |-> D, id |-> id]}

(* The condition under which it throws instead. *)
polled(id) == \E dev \in pollers : dev.id = id

(* The event types home_assistant_init subscribes a handler for. *)
Subscribed == Types

(* Mutant: the handler is captured by value. *)
capture_fwd_Decays == "value"

(* What a subscription keeps of its handler, which home_assistant_init      *)
(* passes as an lvalue: a tuple with a reference to it.                     *)
capture_fwd == "reference"

(* The slot moves from the tuple whenever an event comes.  A reference is   *)
(* the same afterwards; of a value the first event of the type leaves an    *)
(* empty handler.                                                           *)
HandlerHeld(D) == capture_fwd = "reference" \/ inventory[D] = {}

(* AsyncEventBus::publish: a coroutine per handler. *)
publish(D, id) ==
    created' = IF D \in Subscribed /\ HandlerHeld(D)
               THEN created \cup {[type |-> D, id |-> id]} ELSE created

(* MainBoard::hardware_identity: a file that is missing has a default. *)
hardware_identity(id) == identities' = identities \cup {id}

(* main_board_init, when the board has been built. *)
RegisterBoard ==
    /\ register_device("MainBoard")
    /\ hardware_identity(new_id("MainBoard"))
    /\ add_poller("MainBoard", new_id("MainBoard"))
    /\ publish("MainBoard", new_id("MainBoard"))
    /\ UNCHANGED nodes

(* set_indicator_state writes to the led, if the indicator exists. *)
SetIndicatorThrows == indicators /\ Throw("hardware")

(* The constructor of MainBoard switches the status indicator off and on.   *)
BuildBoard ==
    /\ pc = "setup"
    /\ at > Len(desc)
    /\ \/ /\ RegisterBoard
          /\ pc' = "load"
          /\ UNCHANGED <<desc, at, indicators, loaders, device_id>>
          /\ UNCHANGED <<creating, listed, forgotten, suspended, dead>>
       \/ SetIndicatorThrows

TypeOf(entry) == IF entry.compatible = "hatch2sr" THEN "Hatch" ELSE "TempSensor"

(* loader.load(): the device is registered and polled.  Its first poll comes*)
(* after an interval, so nothing can happen between the two.                *)
load(D) ==
    /\ register_device(D)
    /\ add_poller(D, new_id(D))
    /\ device_id' = new_id(D)
    /\ UNCHANGED <<nodes, created>>

(* dtree_.add_child(board_id_, device_id). *)
PutBelowBoard ==
    /\ LET board == CHOOSE b \in inventory["MainBoard"] : TRUE
       IN  Tree!add_child(board, device_id, FALSE)
    /\ UNCHANGED <<device_id, next_id, inventory, pollers, created>>

Announce(D) ==
    /\ publish(D, device_id)
    /\ UNCHANGED <<device_id, next_id, inventory, pollers, nodes>>

GoOn(where) == pc' = where /\ UNCHANGED loaders

NextLoader == pc' = "load" /\ loaders' = Tail(loaders)

(* Mutants: the device is announced before it is put below the board, or is *)
(* never put there.                                                         *)
handle_AnnouncesFirst(D) ==
    \/ pc = "load" /\ load(D) /\ GoOn("announce")
    \/ pc = "announce" /\ Announce(D) /\ GoOn("child")
    \/ pc = "child" /\ PutBelowBoard /\ NextLoader

handle_NoChild(D) ==
    \/ pc = "load" /\ load(D) /\ GoOn("announce")
    \/ pc = "announce" /\ Announce(D) /\ NextLoader

(* DefaultGenericDeviceLoadingStrategy::handle, a call at a time. *)
handle(D) ==
    \/ pc = "load" /\ load(D) /\ GoOn("child")
    \/ pc = "child" /\ PutBelowBoard /\ GoOn("announce")
    \/ pc = "announce" /\ Announce(D) /\ NextLoader

(* The generic devices in turn. *)
LoadDevice ==
    /\ loaders # <<>>
    /\ pc = "load" => Head(loaders).present /\ ~polled(new_id(TypeOf(Head(loaders))))
    /\ handle(TypeOf(Head(loaders)))
    /\ UNCHANGED <<desc, at, indicators, identities, creating, listed, forgotten, suspended, dead>>

(* A path that does not exist is an exception, after the board and the      *)
(* devices before it have been announced.                                   *)
LoadThrows ==
    /\ pc = "load"
    /\ loaders # <<>>
    /\ \/ ~Head(loaders).present /\ Throw("hardware")
       \/ /\ Head(loaders).present
          /\ polled(new_id(TypeOf(Head(loaders))))
          /\ Throw("duplicate")

Loaded ==
    /\ pc = "load"
    /\ loaders = <<>>
    /\ pc' = "done"
    /\ UNCHANGED <<desc, at, indicators, loaders, device_id, registryVars, handlerVars, dead>>

-----------------------------------------------------------------------------
(* The coroutines that are started.                                         *)

(* DeviceIdentityProvider: of the device, or of its parent. *)
identity(id) == ({id} \cup Tree!parent(id)) \cap identities

(* MainBoard::indicator_state # NotAvailable, for all four types or none.   *)
indicators_available(id) == id \in inventory["MainBoard"] /\ indicators

(* operator()(DeviceCreated_t) up to the wait for the broker.               *)
StartCreating(dev) ==
    \/ identity(dev.id) = {} /\ Throw("identity")
    \/ /\ identity(dev.id) # {}
       /\ created' = created \ {dev}
       /\ creating' = creating \cup {dev}
       /\ UNCHANGED <<builderVars, registryVars, listed, forgotten, suspended, dead>>

HatchCreated(dev) == dev.type = "Hatch" /\ StartCreating(dev)

TempSensorCreated(dev) == dev.type = "TempSensor" /\ StartCreating(dev)

(* Mutant: a board without indicators is created. *)
MainBoardCreated_NoIndicators(dev) ==
    /\ dev.type = "MainBoard"
    /\ \/ dev.id \notin inventory["MainBoard"] /\ Throw("device")
       \/ dev.id \in inventory["MainBoard"] /\ StartCreating(dev)

(* There is one board, with all its indicators: without them async_create   *)
(* gives up at once, which is an exception in the handler.                  *)
MainBoardCreated(dev) ==
    /\ dev.type = "MainBoard"
    /\ \/ (\E d \in listed : d.type = "MainBoard") /\ Throw("duplicate")
       \/ dev.id \notin inventory["MainBoard"] /\ Throw("device")
       \/ ~indicators_available(dev.id) /\ Throw("board")
       \/ indicators_available(dev.id) /\ StartCreating(dev)

(* The coroutine that creates dev ends, or is suspended for ever. *)
Decided(dev) ==
    /\ creating' = creating \ {dev}
    /\ UNCHANGED <<builderVars, registryVars, created, dead>>

(* The entities of the device are initialized (see EntityAdapter), which    *)
(* reads its state.  That waits for the broker, so main_board_init has      *)
(* ended.  A hatch or sensor that fails is forgotten.  The client of an     *)
(* entity that loses its session meanwhile may throw, or fall into nested   *)
(* reconnects without end.                                                  *)
Created(dev) ==
    /\ pc = "done"
    /\ \/ dev.id \notin inventory[dev.type] /\ Throw("device")
       \/ Throw("hardware") \/ Throw("client")
       \/ /\ dev.id \in inventory[dev.type]
          /\ Decided(dev)
          /\ listed' = listed \cup {dev} /\ UNCHANGED <<forgotten, suspended>>
       \/ dev.type = "MainBoard" /\ Throw("board")
       \/ /\ dev.type # "MainBoard"
          /\ Decided(dev)
          /\ forgotten' = forgotten \cup {dev} /\ UNCHANGED <<listed, suspended>>
       \/ /\ Decided(dev)
          /\ suspended' = suspended \cup {dev} /\ UNCHANGED <<listed, forgotten>>

(* If there is an end of the reconnects, it is an exception. *)
SuspendedThrows(dev) == Throw("client")

(* The poll of a device, once the io_context runs again: it is looked up in *)
(* the inventory of the poller's type, and read.                            *)
PollThrows(dev) ==
    /\ pc = "done"
    /\ IF dev.id \in inventory[dev.type] THEN Throw("hardware") ELSE Throw("device")

Handle(dev) == HatchCreated(dev) \/ TempSensorCreated(dev) \/ MainBoardCreated(dev)

main_board_init == pdtree_load \/ setup \/ BuildBoard \/ LoadDevice \/ LoadThrows \/ Loaded

Next ==
    /\ dead = "no"
    /\ \/ main_board_init
       \/ \E dev \in created : Handle(dev)
       \/ \E dev \in creating : Created(dev)
       \/ \E dev \in suspended : SuspendedThrows(dev)
       \/ \E dev \in pollers : PollThrows(dev)

Spec == Init /\ [][Next]_vars

(* main_board_init runs to its end, and the coroutines it starts are run.   *)
(* Creating a device ends or falls into a nested reconnect (InitDecides of  *)
(* EntityAdapter), of which no end is assumed.                              *)
FairSpec ==
    /\ Spec
    /\ WF_vars(dead = "no" /\ main_board_init)
    /\ WF_vars(dead = "no" /\ \E dev \in created : Handle(dev))
    /\ WF_vars(dead = "no" /\ \E dev \in creating : Created(dev))

-----------------------------------------------------------------------------
(* Properties.                                                              *)

(* However the handlers run between the steps of main_board_init, no look-up*)
(* fails: what is announced has an identity of its own or through its       *)
(* parent, what is polled or created is in the inventory of its type, and   *)
(* no id is polled twice.  Each of these failures would end the process.    *)
LookupsSucceed == dead \notin {"identity", "device", "duplicate"}

(* Every registered device is polled, has an id that no device of any type  *)
(* shares, and is below the one board, whose identity it has, before it is  *)
(* announced.                                                               *)
RegisteredIsWired ==
    \A D \in Types : \A id \in inventory[D] :
        /\ {dev \in pollers : dev.id = id} = {[type |-> D, id |-> id]}
        /\ (pc = "child" => id # device_id) => identity(id) = inventory["MainBoard"]

(* Every entry that describes a device completely ends in one: its handler  *)
(* holds it, has tried to create it, or is still at it because a client has *)
(* fallen into nested reconnects, unless the process dies.                  *)
DescribedIsDecided ==
    <>(\/ dead # "no"
       \/ Cardinality(listed \cup forgotten \cup suspended) =
              1 + Len(SelectSeq(desc, LAMBDA entry :
                          entry.form = "good" /\ entry.compatible # "rgb_indicator")))

(* An indicator that misses an attribute is skipped by setup with a debug   *)
(* message, but no process goes on without indicators: the handler of the   *)
(* board ends it.                                                           *)
MissingIndicatorIsFatal == (pc = "done" /\ ~indicators) ~> dead # "no"

=============================================================================
