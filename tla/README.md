# hhctrl-mgmt: TLA+ models, checks and proofs

hhctrl-mgmt is the management process of a home-automation controller: it
discovers the devices of its main board from a description file, polls them
through sysfs, and shows each of them to Home Assistant as one or more MQTT
entities. It is one Boost.Asio `io_context` on one thread; all concurrency is
that of coroutines, which interleave at their `co_await`s. An exception that
leaves a coroutine is rethrown by `common::coro::rethrow`, leaves
`io_context::run()` and makes `main()` call `std::abort()`.

Paths below are relative to `src/src/`.

## 1. Inventory

| component | state | operations | correct when |
|---|---|---|---|
| MQTT client, `home_assistant_v2/.../async_mqtt_client.hpp` | `connected_`, `reconnect_.attempt` and timer, the endpoint | `async_connect`, `async_receive`, `async_publish`, `async_subscribe`, `try_reconnect` | a lost session is reported once, a new one is never silent, attempts are counted exactly, failures are codes |
| error mapping, `error.hpp` | none | `map_error_code` | every failure has a code |
| entities, `entity.hpp`, `cover.hpp`, `button.hpp`, `sensor.hpp`, `binary_sensor.hpp` | topics, `pending_puback_` | `async_configure` (publish config, PUBACK, subscribe, SUBACK), `async_set_availability`, `async_set_state`, `async_receive` | available means configured, subscribed, with a will |
| entity adapter, `entity_adapter.hpp` | entity, handlers | `async_init` (retries), `async_run`, `async_configure`, `async_sync_state`, error handlers | initialisation decides; an entity comes back after a lost session |
| devices, `home_assistant_adapter/device/` | their adapters | `async_create`, `async_run`, `async_sync_state` | a board is used only complete |
| event handlers, `home_assistant_adapter/event/` | lists of devices | DeviceCreated, DeviceStateChanged, (DeviceRemoved: never published) | every change reaches the entity |
| event bus, `common/event/` | handlers by event type | `subscribe`, `publish` (one coroutine per handler) | every event reaches every handler, not only the first |
| pollers, `poller/` | the last value (a hash, a temperature) | `PollingService::start_poller`, one poller per device | a change is noticed; what is remembered was published |
| device tree, `devicetree.hpp`, `main_board/devicetree.cpp` | vector of nodes with callbacks | `add_child`, `remove_child`, `remove`, `parent`, `all_children` | one parent per device; callbacks run when, and only when, a parent goes |
| scheduler, `common/scheduler/` | active tasks, the store's cache, its file | `every`, `add_task`, strict policy, `FileTaskStore`, tasks that re-arm | a strict task survives a crash with its expiry; an everyday task runs at its time of the day |
| registry and identities, `device_register.hpp`, `inventory.hpp`, `device_identity_provider.hpp` | id counter, inventory per device type, identity store | register, get, identity of a device or of its parent | every id in use resolves |
| platform and start-up, `platform/`, `main_board_init.hpp`, `home_assistant.cpp` | builder, loaders | discovery, board, identity, pollers, announcements, in that order | handlers find what they look up |
| drivers, `main_board/sysfs_*.cpp`, `device/rgb_indicator.cpp`, `sysfs.hpp` | none; the files | `brightness`, `set_brightness`, `state`, `set_state`, `status`, `value`, `read_attr`, `write_attr` | what is read of several files is one state of the device; no write shows what is not so |
| configuration, logging, command dispatcher, mappers | see section 7 | | |

How they interact. A poller that sees a new value publishes
`DeviceStateChanged`; the bus spawns a coroutine that looks the device up in the
list of its event handler and calls `async_sync_state` of its entities, through
the same MQTT client on which the entity's own coroutine (the *runner*:
`async_init`, then `async_run`) waits for packets. Home Assistant's commands
arrive there and act on the hardware. The broker keeps retained configuration,
availability and state per entity, and publishes the entity's will when it
loses the session.

What is hard. The runner and the event coroutines share one client, its
`connected_` flag and the stream of acknowledgements. Reconnecting is a loop in
`async_receive` that calls `async_connect`, whose wait for the CONNACK may enter
the same loop again. A lost session is noticed late by either side. Devices are
created asynchronously while they are already polled. The task store is a file
that is truncated and then written, and each of the steps may fail after the
cache has been changed. Four indicators share one led, which is three
files that other programs may write. PROJECT.json lists each hazard at its line.

## 2. Modules

| module | models | composed with |
|---|---|---|
| `MqttSession` | the client's promise to an entity: armed, up, unreported, dead | |
| `MqttClient` | `async_mqtt_client.hpp`, `error.hpp` | implements `MqttSession` |
| `EntityLink` | what an entity is to its device: does a publish reach the broker, when does it publish by itself | |
| `EntityAdapter` | `entity_adapter.hpp`, `entity.hpp` and the entity types, one entity with its broker | instantiates `MqttSession`, its steps are that module's steps joined with the adapter's; implements `EntityLink` |
| `DeviceSync` | pollers, bus, event handlers, device creation | instantiates one `EntityLink` for each part of a device, whose steps it joins with its own |
| `Drivers` | `sysfs_*.cpp`, `rgb_indicator.cpp`, `sysfs.hpp` under the pollers | what it means that `DeviceSync` reads a device in one step |
| `DeviceTree` | `devicetree.cpp` | |
| `Platform` | start-up: `main_board_init.hpp`, `platform/`, `device_register.hpp`, `inventory.hpp`, `device_identity_provider.hpp` | instantiates `DeviceTree` on its own nodes; where it ends is the initial state of `DeviceSync` |
| `TaskScheduler` | `common/scheduler` | |
| `MC*` | instances for TLC | |
| `MqttClientProofs`, `EntityAdapterProofs`, `DeviceSyncProofs`, `PlatformProofs`, `DeviceTreeProofs`, `TaskSchedulerProofs`, `DriversProofs` | theorems about the module each is named after | |

The chain from the socket to the state that Home Assistant shows is
`MqttClient` => `MqttSession` <- `EntityAdapter` => `EntityLink` <- `DeviceSync`,
where `=>` is a refinement, checked by TLC and proved (`Implementation` of
`MqttClientProofs` and of `EntityAdapterProofs`), and `<-` reads "is built on".

### MqttClient

An action is what the code does between two `co_await`s. `pc` is where the
runner is suspended (`resolve`, `tcp`, `sendcon`, `conack` are the phases of
`async_connect`; `backoff` is the reconnect timer; `recv` the read of
`async_receive`; `idle` between two calls). `frame` says who called the running
`try_reconnect`: nobody, `async_receive` (`direct`), or an `async_connect` that
lost its CONNACK (`nested`). A nested call's result goes through
`map_error_code` a second time, where `Reconnected` and `Disconnected` have no
mapping; so no frame below a nested one is ever resumed, and one value stands
for any depth of nesting. `link` is the socket: `open` is a TCP connection
without a session, `broken` one whose loss neither side has read yet. Errors are
the numbers the code switches on, because the double mapping works on numbers
(the mapped `NoService` = 2 is again `ENOENT` = 2, the other codes throw).
`unreported` and `tries` are history variables for the properties.
`ConnectionLost` is the network. asio itself, name resolution and the broker are
external and modelled by the results the code distinguishes.

### EntityAdapter

The runner's `pc` walks through `async_init` and `async_configure` (`connect`,
`retry`, `config`, `config_ack`, `subscribe`, `sub_ack`, `settle` for the wait of
one second, `online`, `sync`) into `run`. `nested` is a call of the client that
lost its CONNACK on a client that was connected before: it has entered
`try_reconnect`, which counts its attempts anew each time, so it may stay there for
ever, and if it ends it throws. `inbox` holds what has arrived and was
not yet read; a PUBACK in it carries no identifier, because the code does not
look at it. The broker is `bsession` (will armed), `subscribed`, `config`,
`avail`. `SyncState` is an event handler that publishes on the same client;
`Command`, `ConnectionLost` and `BrokerNotices` are Home Assistant, the network
and the broker's keep-alive. JSON and topics are abstracted to the kind of
message; a command payload is one the mapper knows (`good`) or not (`bad`). The
four entity types have an operator each for what they publish and receive: a
cover publishes no undefined state and throws on an unknown payload, a button
has no state and restarts the board, the sensors have no commands.

### EntityLink

`link` is the phase an entity is in for the device that owns it: `none`, `init`
and `initdown` inside `async_init`, `failed` when that has returned false, then
`up`, `down`, `config` (configuring again on a new session) and `stuck` (a
working session after a configuration that failed). The mapping is `Phase` of
`EntityAdapter`.

### DeviceSync

`hw`, `seen` and `ha` are the state of the hardware, of the poller's memory and
of the broker. `status` is the place of the device in its handler's list,
`create` the part that `async_create` has come to, `link[p]` the entity of part
`p`, `syncs` the `DeviceStateChanged` coroutines in flight, each with the part it
publishes next. Reading a state and publishing it is one step: what is begun to
be published is written in the order in which it was begun (the client's queue), so
a change of the hardware or a loss of the session in between has the same outcome
as one right after. `Shown[p][v]` is what the adapter's `state()` makes of the value
`v`: a hatch between open and closed is `undefined`, which is polled and not
published, two temperatures may be rounded to the same text, an indicator is on
when the led has its colour. `cause` records which of two known holes was met
(section 4). The three device types are one module because their event handlers
differ only in what this describes, and in that a main board that cannot be
created is an exception.

### Drivers

The one thread is at boot (`writes` are the file writes that the constructor of
the board still has to make), idle, in a poll of the board (`got` and `states`
are what it has read so far, twelve reads in all), hung, or dead. Between any two
file accesses another program may write to the led (`LedChanges`), and a device
with a single file may show another text (`TextChanges`). A file that cannot be
opened is an exception; a write that fails is not noticed; a read that fails
after the open never ends, since `read_attr` waits for `eofbit` and the failure
sets `badbit`. `alone` and `calm` are histories for the properties.

### DeviceTree

`nodes` is the vector. The callbacks are run by the destructor of an element,
so `remove` follows what `std::erase_if` does: elements that stay are
move-assigned over the removed ones, and only the tail is destroyed. Which
element goes where is an increasing map `from` of the new places to the old
places that stay; there is exactly one. `owed` and `called` are histories. The program passes no callback, the class and its
interface allow one.

### Platform

`desc` is the description, a sequence of entries; an entry has the driver it
asks for, its form (complete, without a path, of the wrong shape) and whether the
path exists. `main_board_init` is one coroutine that does not suspend, but
`co_spawn` on the thread of the `io_context` starts a coroutine at once, so the
handlers of an event may run up to their first suspension inside `publish`; its
steps are cut at each event and at each call of `handle` (`load` registers the
device and starts its poller, `child` puts it below the board, `announce` publishes
DeviceCreated), and handlers may run between any two, which allows more than the
code does. `device_id` is what `load` has returned.
`created` and `creating` are the DeviceCreated coroutines before and after that
suspension, `listed` and `forgotten` how they ended, `suspended` those of which an
entity has fallen into nested reconnects. What waits for the broker
or for a poll timer goes on only when the `io_context` runs again, after
start-up. `capture_fwd` is what a subscription holds of its handler, a reference,
since `home_assistant_init` passes lvalues. `dead` says which exception ended the
process.

### TaskScheduler

A strict task that is added goes through the phases of `op`: taken out of the
cache (`remove`), file open and empty (`removing`), removal written and read back
(`removed`), put into the cache (`add`), file open (`adding`). `Crash` may come
between any two. A save fails in three ways, all after the cache was changed, and
`every()` throws to a caller that may go on: the file cannot be opened and stays as
it is (`OpenFails`), the unchecked write does not reach it and `load()` throws on
what is there (`WriteFails`), or it is written and cannot be read back
(`LoadFails`). `dirty` are the tasks whose change of the cache was not saved,
until a later save succeeds. `promise` remembers the expiry with which a strict
task first became active, `lost` the tasks whose removal threw, or that were in no
file when the process died; a task leaves `lost` when it is activated anew. Time is a small integer clock in UTC, `Day` ticks a day. `zone` is the
time zone that the everyday tasks name: an offset before and one after a change
of the clocks. `parse_time` combines the UTC date of `now` with the time of day
and looks for the instants with that local time in the zone; the code throws in
the constructor of the task if there are none or two, which changes nothing. A timestamp in the store counts units of `Precision` ticks (the
code's milliseconds), and what does not fill a unit is cut off.

## 3. Runs

| run | configuration | bounds | shows |
|---|---|---|---|
| `client` | `MCMqttClient.cfg` | runner and one publisher, 2 attempts, 5 errors of which ECONNRESET has no mapping | types, announced sessions, exact counter, giving up after exactly the configured attempts, the fatal nested reconnect, that the client implements `MqttSession`, where the process may die, and, with fairness, that a loss is reported |
| `client_publish` | `MCMqttClientPublish.cfg` | | violation: a publish is accepted while the client reconnects after it lost a session |
| `client_connect` | `MCMqttClientConnect.cfg` | a host that is down | violation: a failing connect ends the process |
| `adapter` | `MCEntityAdapter.cfg` | every entity type, 3 attempts (10 in the code), 3 unread packets of others | availability is truthful, initialisation, the will and the configuration do their work, and the entity implements `EntityLink` |
| `adapter_properly` | `MCEntityAdapterProperly.cfg` | | violation: "configured properly" of an unavailable entity |
| `adapter_suback` | `MCEntityAdapterSuback.cfg` | | violation: a SUBACK is reported missing that has arrived |
| `sync` | `MCDeviceSync.cfg` | a hatch, a sensor, or a board of one indicator and the button; three values each, 2 coroutines | staleness has only the named causes, and ends |
| `sync_board` | `MCDeviceSyncBoard.cfg` | a board of two indicators and the button, 2 coroutines | the same with parts that are created and synchronized in turn; a listed board is complete |
| `platform` | `MCPlatform.cfg` | every description of up to three entries of eleven kinds | look-ups during start-up succeed, registered devices are wired, described ones are decided, a missing indicator is fatal |
| `tree` | `MCDeviceTree.cfg` | three devices, every sequence of calls | queries agree, callbacks are truthful, and are lost only under a node that stays |
| `drivers` | `MCDrivers.cfg` | the led with two levels in each colour, or one of the three single-file devices with every kind of text | no false alarm at boot, the status is shown, an undisturbed poll is true, everything torn or bad is corrected |
| `scheduler` | `MCTaskScheduler.cfg` | a strict task of either type and an everyday task that is not strict, times of the day 0 and 3 of 5, five time zones, clock one tick beyond the first day, two ticks in a unit of a timestamp | the store after crashes and failing saves at any point; the calendar of everyday tasks |

Why the bounds are enough. Two attempts distinguish the first, a middle and the
last turn of the reconnect loop, and the theorems of section 5 remove the bound.
The inbox of an entity holds at most two packets of its own; three more by
others allow every order of acknowledgements and commands around them. Two
indicators give a first, a middle and a last part. Three entries hold an
indicator and two generic devices in every order, or two that fail differently.
Three attempts of `async_init` are a first, a middle and a last one. Three devices give parents,
children and a removal that moves a node over another. The clock lets every
task become due, run, and be found overdue after a restart, and passes midnight in
each zone; the offsets of two ticks of five make the dates of UTC and of the zone
differ before and after the time of the task, and the two changes of the clocks fall
on the time of a task, which then does not exist or exists twice. The devices of
`sync` and `drivers` share nothing but the thread, so each behaviour has one. Two
levels of a colour tell the four indicators, the dark led and three other colours
apart; a third level was checked once and takes three minutes. Deadlock is checked for
`tree` and `scheduler`; the others may stop, when the process is dead or an
entity has failed.

Fairness. `MqttClient`: resolving, connecting, writing and timers complete by
themselves; the CONNECT is answered or the connection is lost, which the code
needs since it has no timeout there; `async_run` always returns to
`async_receive`, and what had arrived on a lost connection is finite, so its
error is read in the end (strong fairness of these two, because packets may be
read in between). `EntityAdapter`: weak fairness of the runner, whose every wait
is a timer or a call of the client, and of the broker's keep-alive: a call
returns, throws, or falls into a nested reconnect, and nothing is assumed of the
last (`InitDecides` names it as an outcome, as `LossReported` does for the client).
`DeviceSync`: poll timers fire and the coroutines of an event run; nothing is
assumed of `async_create` and `async_run`, which may wait for the broker for ever. `Drivers`: the thread runs, and an expired timer is served (strong fairness:
the thread may be busy with another poll in between, but the queue of the
`io_context` is served in order). `Platform`: `main_board_init` runs to its end, spawned coroutines run, and
creating a device ends or is `suspended` in a nested reconnect, which is
`InitDecides` of `EntityAdapter`; `DescribedIsDecided` counts the suspended. Nothing is assumed about outcomes.

## 4. What was found

Four runs state what a test, a log line or a comment says, and fail:

- `connected_` is set by a CONNACK and never reset, so `async_publish` lets
  packets through while the client reconnects after a loss, against the test "Client cannot
  publish when it is disconnected" (which only tries a client that never
  connected).
- `map_error_code` throws for EHOSTUNREACH, ECONNRESET and every other errno it
  does not list: a broker host that is switched off ends the process.
- `async_configure` reports success after the session was lost in its
  one-second wait.
- A PUBACK of a state publish can be taken for that of the configuration; a second
  PUBACK (the configuration's own, or in the trace another of the state) then stands
  where the SUBACK is expected, the configuration fails although it was
  acknowledged, and the entity stays unavailable on a working session until the next loss.

Weaknesses the passing properties name as their exceptions:

- `DeviceTree::remove` erases with `std::erase_if`, which assigns nodes that stay
  over nodes that go: the callback of such a node is destroyed without being run,
  so whether a device learns that its parent has gone depends on the order of all
  additions (`LostOnlyUnderKept`).
- A new everyday task takes the date of UTC: while its zone has another date it
  runs at once, or a day late (`FreshExpiryIsNext`). Its 24-hour steps do not
  follow a change of the clocks (`EverydayAtItsTime`).
- A temperature file without `t=` is reported as 0 degrees, and its checksum
  verdict is not looked at; a file that fails while it is read hangs the process
  (`CalmIsReported`, whose exceptions these are).

- A `DeviceStateChanged` that arrives between the read of the state by
  `async_create` and the `push_back` into the handler's list is dropped, and the
  poller does not repeat it (`cause = "dropped"`).
- A state that was published by a reconnect but never polled, followed by a
  return to the polled state before the next poll, leaves the broker with the
  state in between (`cause = "unpolled"`).
- An indicator that misses one of its leds is skipped by discovery with a debug
  message, and its board is the reason for an abort later
  (`MissingIndicatorIsFatal`); if another of its paths does not exist the process
  ends at once instead. A generic device whose path is missing ends the
  process after the board has been announced.
- A CONNACK lost during a reconnect makes the process abort even when the
  nested reconnect succeeds (`NestedReconnectNeverReturns`). Each nested reconnect
  counts its attempts anew, so before that the caller may wait without bound
  (`LossReported`, `InitDecides` and `DescribedIsDecided` exempt exactly this).
- The store keeps the first expiry of a strict task for ever, so the task is
  overdue at each restart (`RestartKeepsExpiry`), and a crash while the file is
  written makes every later start fail (`LoadFile` refuses).
- A save that throws leaves the cache changed and the file not: cache and file
  differ while the process goes on, a file torn by a full disk stays so until a save
  succeeds (`StoreIsDurable`, up to `dirty`). If it was the removal of a task that
  is being added again, the task is out of the cache, and a retry gives it a fresh
  expiry; a crash after the removal was saved has the same effect
  (`NothingForgotten` and `RestartKeepsExpiry`, up to `lost`).

## 5. Proofs

Each of seven modules has a module of theorems. All are proved for every value of
the constants under the named assumptions of the module, which say only what the
constants are: attempts and bounds are numbers, the parts of a device are a
sequence without repetition and belong to one device, a description is a sequence
of entries, offsets of a zone are less than a day, the levels of a led include 0
and 255. The runs evaluate these assumptions on their instances.

Every safety property and both refinements that a passing run checks are
theorems. Each module has `TypeCorrect` and an inductive invariant `IInv`, shown
in `Invariance`; TLC checked each `IInv` on the instance of the run before it was
proved. A proof has one lemma for each action; the action properties are then
shown for one step from `IInv`. Below, why the properties alone are not
inductive, and what is added.

**MqttClientProofs** (`SessionsAreAnnounced`, `CounterIsExact`, `GivesUpLate`,
`NestedIsFatal`, `AbortsOnlyAroundConack`, `Implementation`), for every
`MaxAttempts`, set of tasks and set of positive error numbers. A CONNACK sets up a
session in whatever frame the connect runs, so one must know that a connect is
only started when the runner has been told of the loss, or under a
`try_reconnect`; and the counter is only in step with `tries` if each frame starts
it. `ControlInv` adds exactly this: which frames go with which `pc`, that a
running `try_reconnect` implies `connected` and a counter in `1..MaxAttempts`,
that outside one `tries` is 0, and that with a session, or with an unreported
loss, the runner is idle or receiving and its last result is not one after which
the adapter connects. `Implementation` maps `armed <- connected`,
`up <- link = "session" /\ ~aborted`, `dead <- aborted`.

**EntityAdapterProofs** (`AvailabilityIsTruthful`, `NoSessionIsForgotten`,
`Implementation`), for every set of entity types, number of attempts and number of
unread packets of others. That an online entity is subscribed depends on what is
in the inbox: `ConfigureInv` says, for each phase of `async_configure` on a
session that is up, what the broker has, and that no SUBACK is unread before the
SUBSCRIBE of that session was sent; so a SUBACK that is read proves the
subscription, also when the PUBACKs are mistaken for each other (section 4).
`SessionInv` ties the client's session to the broker's, whose loss withdraws the
availability; `RunnerInv` says where the runner is without a session. The
refinement of `EntityLink` goes through a table of what `Phase` is before and
after each action.

**DeviceSyncProofs** (`ListedDevicesAreComplete`, `EveryStalenessIsExplained`),
for any devices, numbers of parts, values, renderings `Shown` and coroutines in
flight. `StalenessExplained` speaks of the hardware, of which a step of the
network knows nothing. `SeenInv` is what is kept: on a configured session without
a coroutine on its way and without a hole, the broker has what the *poller
remembers*, whether or not the hardware has moved on and whether or not the
device is in the list yet. With `hw = seen` that is the property. `CreateInv` and
`ListedInv` say how far the parts have come while and after `async_create`.

**PlatformProofs** (`NoLookupFails`, `WiredOnRegistration`), for descriptions of
any length. A handler finds its identity through the tree, a poller its device
through the inventory: the invariant says that the board is device 1 and the only
identity (`BoardInv`), that node `i` of the tree is device `i + 1` below it
(`ChildrenInv`, up to `LastBelow`: the device in `child` is not there yet), that
what is being handled is the device registered last (`HandlingInv`), that the
pollers are the inventories, which are disjoint (`PolledInv`), that only polled
devices are announced, after they were put below the board, and once
(`AnnouncedInv`, up to `LastAnnounced`),
and that loaders and registered devices together never exceed the entries and the
board (`CountInv`), which bounds the ids.

**DeviceTreeProofs** (`TreeIsConsistent`, `CallbacksAreTrue`, `LossIsExplained`),
for any set of ids. The invariant is that no id is in the vector twice. The work is in
the erasing: the increasing map reaches every place that stays exactly once
(`KeptNodes`, by counting), so ids stay unique and nothing that stays is lost; and
were all the nodes that stay in front of a removed one, its place would be beyond
the new end and its callback would run.

**TaskSchedulerProofs** (`StoreIsAlwaysDurable`, `NothingIsForgotten`,
`ExpiryIsKept`, `EverydayStaysInTime`, `FreshExpiryIsTheNext`), for all tasks,
periods, days, time zones and precisions of a timestamp, whatever saves fail and
wherever the process dies. The properties hold between operations; a crash or a
failing save comes within one, and the process goes on after the latter. `FileInv`
says that a torn file is in the middle of a save or the work of one that failed,
and that a whole one agrees with the cache but for `dirty` and the task of `op`;
`KnownInv` which tasks cache and file know at every phase (that a task is missing
in the cache only while it is removed or because it is lost, and in the file also
when it is dirty); `StampsInv` and `OpInv` that every timestamp, in the cache, in
the file and in the operation under way, gives back an expiry its task may have.
That the cut of a timestamp does not add up is the lemma `StoredAgain`; the
calendar rests on division with remainder (`Midnight`, `QuietOffset`,
`DaysApart`).

**DriversProofs** (`BootRaisesNoAlarm`, `BootEndsWithStatus`,
`QuietPollReadsOnce`), for any levels of the led and any temperatures. `BootInv`:
the writes left are the last of the six, and an undisturbed led has what the
others have written, red first. `PollInv`: what an undisturbed poll has read is
what the led still shows, so that twelve reads amount to one; a poll starts with
nothing read.

Only model-checked: `LossReported`, `InitDecides`, `EndShowsUnavailable`,
`ConfigureMakesAvailable`, `StateIsShown`, `CalmIsReported`, `DescribedIsDecided`,
`MissingIndicatorIsFatal`. All are liveness under fairness, which is out of the
prover's reach. The four violations are counterexamples of TLC.

## 6. Plan

Done, in the order of importance: `MqttSession`, `MqttClient` with its proofs,
`EntityAdapter`, `DeviceSync`, `DeviceTree`, `TaskScheduler`, `Platform`; then
`EntityLink` between the adapter and the devices, the calendar of `TaskScheduler`,
and `Drivers`; then the proofs of these modules.

Next:

1. The safety half of the liveness properties, as theorems: what a fair behaviour
   that never reaches its goal would have to keep true (for `StateIsShown` that a
   stale part without a hole has a coroutine or a poll that is due; for
   `DescribedIsDecided` that every complete entry is a loader, a device or
   decided).
2. That the state in which `Platform` ends is an initial state of `DeviceSync`, as a theorem.
3. A composition of two entities over one process, where the death of one takes
   down the other.

## 7. Not modelled

- The write that a hatch command makes: it changes the hardware only, and can
  fail like any `write_attr`. A driver that throws under a command or a poll is
  the action `PollThrows` and the throwing disjuncts of `EntityAdapter`.
- Configuration and logging: read or set up once, before anything runs.
- Command dispatcher: not used by the program. The mappers of `common/utils` and
  the property names of `entity_config.hpp`: compile-time tables and text.
- `DeviceRemoved` and `deregister_device`: nothing publishes or calls them.
- The mqtt_cpp endpoint: its packet identifiers and keep-alive are external. The
  exhaustion of identifiers, which `acquire_packet_id` does not handle, is not
  reached.
- A read error of the task file (not at its end): `FileTaskStore::load()` loops
  until `eof`, which a failed read never sets, so the process hangs; `LoadFails` is
  the exception of a file that cannot be opened.
- A will that the broker publishes for a dead session after the same client has
  opened a new one: a connect with the same client identifier takes the old
  session over, so its will comes first.
- A local time that the change of the clocks skips or repeats makes the
  constructor of an everyday task throw. The task is not added (`configure_expiry`
  is empty); no property is about the exception, and `FreshExpiryIsNext` is claimed
  of quiet zones only (`QuietZone`).
- What a failed write of a led leaves behind, beyond that it is not noticed: the
  properties of `Drivers` about what is shown exempt it.
- The lifetime of the lambda captures in the event bus: they die when the slot
  returns, and the coroutine is past their last use by then only because `publish`
  is called on the thread of the `io_context`.
