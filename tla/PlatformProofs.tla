--------------------------- MODULE PlatformProofs ---------------------------
(***************************************************************************)
(* Proofs about Platform for every set of platform descriptions of any     *)
(* length.                                                                 *)
(***************************************************************************)
EXTENDS Platform, SequenceTheorems, TLAPS

Dev(D, id) == [type |-> D, id |-> id]

Building == pc \in {"open", "setup"}

(* A device has been loaded and is not announced yet. *)
Handling == pc \in {"child", "announce"}

(* The last id that is the board or below it, and the last one announced. *)
LastBelow == IF pc = "child" THEN next_id - 2 ELSE next_id - 1
LastAnnounced == IF Handling THEN next_id - 2 ELSE next_id - 1

(* Nothing is registered before the board has been built. *)
EmptyInv ==
    Building =>
        /\ next_id = 1 /\ inventory = [D \in Types |-> {}] /\ identities = {} /\ nodes = <<>>
        /\ pollers = {}

(* The board is the first device, and the only one with an identity. *)
BoardInv == ~Building => next_id > 1 /\ inventory["MainBoard"] = {1} /\ identities = {1}

(* There are never more devices than entries, and the board; the loader of  *)
(* a device is only dropped when it has been announced.                     *)
CountInv ==
    /\ Building => Len(loaders) < at
    /\ ~Building => LastAnnounced + Len(loaders) <= Len(desc) + 1

(* What is being handled is the device that was registered last. *)
HandlingInv ==
    Handling =>
        /\ loaders # <<>> /\ next_id > 2 /\ device_id = next_id - 1
        /\ Dev(TypeOf(Head(loaders)), device_id) \in pollers

(* The devices of a type are polled as such, and no id has two types. *)
PolledInv ==
    /\ \A D \in Types, id \in 1..(next_id - 1) : id \in inventory[D] <=> Dev(D, id) \in pollers
    /\ \A dev \in pollers : dev.id \in inventory[dev.type]
    /\ \A D, E \in Types : D # E => inventory[D] \cap inventory[E] = {}

(* The other devices are below the board, in the order of their ids. *)
ChildrenInv ==
    ~Building =>
        /\ Len(nodes) = LastBelow - 1
        /\ \A i \in 1..(LastBelow - 1) : nodes[i] = [parent |-> 1, id |-> i + 1, func |-> FALSE]

(* Only devices that are polled are announced, after they were put below    *)
(* the board, and each of them once.                                        *)
AnnouncedInv ==
    /\ created \cup creating \cup listed \cup forgotten \cup suspended
           \subseteq {dev \in pollers : dev.id <= LastAnnounced}
    /\ created \cap (creating \cup listed) = {}

IInv ==
    /\ TypeOK /\ EmptyInv /\ BoardInv /\ CountInv /\ HandlingInv /\ PolledInv /\ ChildrenInv
    /\ AnnouncedInv /\ LookupsSucceed

-----------------------------------------------------------------------------
(* An entry of the description is in the set of entries, and so are the     *)
(* entries that were kept for loading.                                      *)
LEMMA Entries ==
    ASSUME TypeOK
    PROVE  /\ desc \in Seq(Entry)
           /\ Len(desc) \in Nat
           /\ \A i \in 1..Len(desc) : desc[i] \in Range(desc)
           /\ Range(desc) \subseteq Entry
<1>1. desc \in Seq(Entry)
    BY DescriptionsAssumption DEF TypeOK
<1>2. Len(desc) \in Nat /\ DOMAIN desc = 1..Len(desc)
    BY <1>1
<1> QED  BY <1>1, <1>2 DEF Range

(* The counter, and how far devices are below the board and announced. *)
LEMMA Lasts ==
    ASSUME IInv, ~Building
    PROVE  /\ next_id \in Nat /\ next_id > 1 /\ Len(desc) \in Nat
           /\ LastBelow \in {next_id - 1, next_id - 2} /\ LastBelow >= 1
           /\ LastAnnounced \in {next_id - 1, next_id - 2} /\ LastAnnounced <= LastBelow
           /\ pc # "child" => LastBelow = next_id - 1
           /\ ~Handling => LastAnnounced = next_id - 1
BY Entries DEF IInv, TypeOK, BoardInv, HandlingInv, Handling, LastBelow, LastAnnounced

(* Whoever is below the board is shown under its identity: the board        *)
(* itself, and every other device through its parent.                       *)
LEMMA IdentityOfTheBoard ==
    ASSUME IInv, ~Building, NEW id \in 1..LastBelow
    PROVE  identity(id) = {1}
<1> PICK n : n = LastBelow
    OBVIOUS
<1>1. n \in Nat /\ n >= 1 /\ identities = {1} /\ id \in 1..n
    BY Lasts DEF IInv, BoardInv
<1>2. CASE id = 1
    BY <1>1, <1>2 DEF identity
<1>3. CASE id > 1
    <2>1. /\ nodes \in Seq(Tree!Node)
          /\ Len(nodes) = n - 1
          /\ \A i \in 1..(n - 1) : nodes[i] = [parent |-> 1, id |-> i + 1, func |-> FALSE]
        BY DEF IInv, TypeOK, ChildrenInv
    <2>2. DOMAIN nodes = 1..(n - 1)
        BY <2>1
    <2>3. PICK j \in 1..(n - 1) : j + 1 = id
        <3>1. id - 1 \in 1..(n - 1) /\ (id - 1) + 1 = id
            BY <1>1, <1>3
        <3> QED  BY <3>1
    <2>4. \A k \in 1..(n - 1) : nodes[k].id = k + 1 /\ nodes[k].parent = 1
        BY <2>1
    <2>5. \A k \in 1..(j - 1) : nodes[k].id # id
        BY <2>3, <2>4, <1>1
    <2>6. 1 \in Tree!parent(id)
        BY <2>2, <2>3, <2>4, <2>5 DEF Tree!parent
    <2> QED  BY <2>6, <1>1 DEF identity
<1> QED  BY <1>1, <1>2, <1>3

(* What is polled is registered. *)
LEMMA AnnouncedIsRegistered ==
    ASSUME IInv, NEW dev \in pollers
    PROVE  /\ dev \in Device /\ dev = Dev(dev.type, dev.id)
           /\ dev.type \in Types /\ dev.id \in 1..(next_id - 1)
           /\ dev.id \in inventory[dev.type]
           /\ ~Building
           /\ dev.type = "MainBoard" => dev.id = 1
<1>1. dev \in Device /\ ~Building
    BY DEF IInv, TypeOK, EmptyInv
<1>2. dev = Dev(dev.type, dev.id) /\ dev.type \in Types
    BY <1>1 DEF Device, Dev
<1>3. dev.id \in inventory[dev.type]
    BY DEF IInv, PolledInv
<1>4. inventory[dev.type] \subseteq 1..(next_id - 1)
    BY <1>2 DEF IInv, TypeOK
<1> QED  BY <1>1, <1>2, <1>3, <1>4 DEF IInv, BoardInv

-----------------------------------------------------------------------------
(* An exception other than that of a failed look-up only stops the process. *)
LEMMA ThrowStep ==
    ASSUME IInv, NEW why \in {"description", "hardware", "client", "board"}, Throw(why)
    PROVE  IInv'
<1>1. TypeOK'
    BY DEF IInv, TypeOK, Throw, builderVars, registryVars, handlerVars, Device, Ids
<1>2. EmptyInv' /\ BoardInv' /\ CountInv' /\ HandlingInv'
    BY DEF IInv, EmptyInv, BoardInv, CountInv, HandlingInv, Building, Handling, LastAnnounced,
           Throw, builderVars, registryVars
<1>3. PolledInv' /\ ChildrenInv' /\ AnnouncedInv' /\ LookupsSucceed'
    BY DEF IInv, PolledInv, ChildrenInv, AnnouncedInv, LookupsSucceed, Building, Handling,
           LastBelow, LastAnnounced, Throw, builderVars, registryVars, handlerVars
<1> QED  BY <1>1, <1>2, <1>3 DEF IInv

LEMMA InitStep == Init => IInv
<1> SUFFICES ASSUME Init PROVE IInv
    OBVIOUS
<1>1. Len(desc) \in Nat
    BY DescriptionsAssumption DEF Init
<1>2. TypeOK
    <2>1. loaders \in Seq(Range(desc)) /\ nodes \in Seq(Tree!Node)
        BY DEF Init
    <2>2. at \in 1..(Len(desc) + 1) /\ next_id \in 1..(Len(desc) + 2) /\ device_id \in 0..(next_id - 1)
        BY <1>1 DEF Init
    <2>4. /\ desc \in Descriptions /\ pc \in {"open", "setup", "load", "child", "announce", "done"}
          /\ indicators \in BOOLEAN
        BY DEF Init
    <2>3. /\ inventory \in [Types -> SUBSET (1..(next_id - 1))]
          /\ identities \subseteq inventory["MainBoard"]
          /\ \A set \in {pollers, created, creating, listed, forgotten, suspended} :
                set \subseteq Device
          /\ dead \in {"no", "description", "hardware", "client", "board",
                       "identity", "device", "duplicate"}
        BY DEF Init
    <2> QED  BY <2>1, <2>2, <2>3, <2>4 DEF TypeOK
<1>3. EmptyInv /\ BoardInv /\ CountInv /\ HandlingInv
    BY DEF Init, EmptyInv, BoardInv, CountInv, HandlingInv, Building, Handling
<1>4. PolledInv /\ ChildrenInv /\ AnnouncedInv /\ LookupsSucceed
    BY DEF Init, PolledInv, ChildrenInv, AnnouncedInv, LookupsSucceed, Building
<1> QED  BY <1>2, <1>3, <1>4 DEF IInv

(* A step before the board is built: only the builder changes. *)
LEMMA BuilderStep ==
    ASSUME IInv, Building, Building', UNCHANGED <<desc, device_id, registryVars, handlerVars>>,
           at' \in 1..(Len(desc) + 1), loaders' \in Seq(Range(desc)), indicators' \in BOOLEAN,
           Len(loaders') < at', dead' \in {"no", "description", "hardware"}
    PROVE  IInv'
<1>1. TypeOK'
    BY DEF IInv, TypeOK, registryVars, handlerVars, Device, Ids, Building
<1>2. EmptyInv' /\ BoardInv' /\ CountInv' /\ HandlingInv'
    BY DEF IInv, EmptyInv, BoardInv, CountInv, HandlingInv, registryVars, Building, Handling
<1>3. PolledInv' /\ ChildrenInv' /\ LookupsSucceed'
    BY DEF IInv, PolledInv, ChildrenInv, LookupsSucceed, registryVars, Building
<1>4. AnnouncedInv'
    BY DEF IInv, EmptyInv, AnnouncedInv, registryVars, handlerVars
<1> QED  BY <1>1, <1>2, <1>3, <1>4 DEF IInv

LEMMA pdtree_loadStep ==
    ASSUME IInv, dead = "no", pdtree_load
    PROVE  IInv'
<1>1. CASE Throw("description")
    BY <1>1, ThrowStep
<1>2. CASE /\ pc' = "setup"
           /\ UNCHANGED <<desc, at, indicators, loaders, device_id, registryVars, handlerVars, dead>>
    BY <1>2, BuilderStep DEF IInv, TypeOK, CountInv, Building, pdtree_load
<1> QED  BY <1>1, <1>2 DEF pdtree_load

LEMMA setupStep ==
    ASSUME IInv, dead = "no", setup
    PROVE  IInv'
<1>1. /\ Building /\ Building' /\ UNCHANGED <<desc, device_id, registryVars, handlerVars>>
      /\ at' = at + 1 /\ at \in 1..Len(desc)
    BY Entries DEF IInv, TypeOK, setup, Building
<1>2. desc[at] \in Range(desc) /\ Len(desc) \in Nat
    BY <1>1, Entries DEF IInv
<1>3. loaders \in Seq(Range(desc)) /\ Len(loaders) \in Nat /\ Len(loaders) < at
    BY <1>1 DEF IInv, TypeOK, CountInv
<1>4. /\ dead' \in {"no", "description", "hardware"}
      /\ indicators' \in BOOLEAN
      /\ loaders' = loaders \/ loaders' = Append(loaders, desc[at])
    BY DEF setup, IInv, TypeOK, RGBIndicatorLoad, HatchLoad, DS18B20Load, CPUTempSensorLoad
<1>5. loaders' \in Seq(Range(desc)) /\ Len(loaders') <= Len(loaders) + 1
    BY <1>2, <1>3, <1>4
<1>6. Len(loaders') \in Nat /\ Len(loaders') < at' /\ at' \in 1..(Len(desc) + 1)
    BY <1>1, <1>2, <1>3, <1>5
<1> QED  BY <1>1, <1>4, <1>5, <1>6, BuilderStep

-----------------------------------------------------------------------------
(* A device of type D is registered with the next id and polled. *)
Registers(D) ==
    /\ inventory' = [inventory EXCEPT ![D] = @ \cup {next_id}]
    /\ next_id' = next_id + 1
    /\ pollers' = pollers \cup {Dev(D, next_id)}
    /\ desc' = desc

(* The inventories and the pollers then still agree. *)
LEMMA RegistersStep ==
    ASSUME IInv, NEW D \in Types, Registers(D), next_id <= Len(desc) + 1
    PROVE  /\ next_id' \in 1..(Len(desc) + 2)
           /\ inventory' \in [Types -> SUBSET (1..next_id)]
           /\ Device' = Device /\ pollers' \subseteq Device
           /\ Dev(D, next_id) \in Device
           /\ PolledInv'
<1> PICK n : n = next_id
    OBVIOUS
<1> PICK dev : dev = Dev(D, n)
    OBVIOUS
<1>1. /\ n \in Nat /\ n \in 1..(Len(desc) + 1) /\ Len(desc) \in Nat /\ n - 1 + 1 = n
      /\ 1..(n - 1) \subseteq 1..n /\ (1..n) \ (1..(n - 1)) = {n} /\ n \notin 1..(n - 1)
    BY Entries DEF IInv, TypeOK
<1>2. /\ inventory' = [inventory EXCEPT ![D] = @ \cup {n}]
      /\ next_id' = n + 1 /\ next_id' - 1 = n
      /\ pollers' = pollers \cup {dev} /\ desc' = desc
    BY <1>1 DEF Registers
<1>3. inventory \in [Types -> SUBSET (1..(n - 1))]
    BY DEF IInv, TypeOK
<1>4. Device' = Device /\ dev \in Device /\ dev.type = D /\ dev.id = n
    BY <1>1, <1>2 DEF Device, Ids, Dev
<1>5. inventory' \in [Types -> SUBSET (1..n)]
    BY <1>1, <1>2, <1>3
<1>6. pollers' \subseteq Device
    BY <1>2, <1>4 DEF IInv, TypeOK
<1>7. \A d \in pollers : d.id \in 1..(n - 1) /\ d.type \in Types /\ d.id \in inventory[d.type]
    BY AnnouncedIsRegistered
<1>8. PolledInv'
    <2>1. \A E \in Types : inventory'[E] = IF E = D THEN inventory[D] \cup {n} ELSE inventory[E]
        BY <1>2, <1>3
    <2>2. ASSUME NEW E \in Types, NEW id \in 1..n
          PROVE  id \in inventory'[E] <=> Dev(E, id) \in pollers'
        <3>1. CASE id = n
            <4>1. id \notin inventory[E] /\ Dev(E, id) \notin pollers
                BY <1>1, <1>3, <1>7, <3>1 DEF Dev
            <4>2. Dev(E, id) = dev <=> E = D
                BY <3>1 DEF Dev
            <4> QED  BY <2>1, <4>1, <4>2, <1>2, <3>1
        <3>2. CASE id # n
            <4>1. id \in inventory[E] <=> Dev(E, id) \in pollers
                BY <1>1, <3>2 DEF IInv, PolledInv
            <4>2. Dev(E, id) # dev
                BY <3>2 DEF Dev
            <4> QED  BY <2>1, <4>1, <4>2, <1>2, <3>2
        <3> QED  BY <3>1, <3>2
    <2>3. \A d \in pollers' : d.id \in inventory'[d.type]
        BY <2>1, <1>2, <1>4, <1>7
    <2>4. \A E, F \in Types : E # F => inventory'[E] \cap inventory'[F] = {}
        <3> SUFFICES ASSUME NEW E \in Types, NEW F \in Types, E # F,
                            NEW id \in inventory'[E] \cap inventory'[F]
                     PROVE  FALSE
            OBVIOUS
        <3>1. inventory[E] \cap inventory[F] = {} /\ n \notin inventory[E] /\ n \notin inventory[F]
            BY <1>1, <1>3 DEF IInv, PolledInv
        <3> QED  BY <2>1, <3>1
    <2> QED  BY <2>2, <2>3, <2>4, <1>2 DEF PolledInv
<1> QED  BY <1>1, <1>2, <1>4, <1>5, <1>6, <1>8

LEMMA BuildBoardStep ==
    ASSUME IInv, dead = "no", BuildBoard
    PROVE  IInv'
<1>1. CASE SetIndicatorThrows
    BY <1>1, ThrowStep DEF SetIndicatorThrows
<1>2. CASE /\ RegisterBoard
           /\ pc' = "load"
           /\ UNCHANGED <<desc, at, indicators, loaders, device_id>>
           /\ UNCHANGED <<creating, listed, forgotten, suspended, dead>>
    <2> DEFINE dev == Dev("MainBoard", 1)
    <2>1. /\ Building /\ next_id = 1 /\ inventory = [D \in Types |-> {}] /\ identities = {}
          /\ nodes = <<>> /\ pollers = {} /\ "MainBoard" \in Types
        BY DEF BuildBoard, Building, IInv, EmptyInv, Types
    <2>2. Registers("MainBoard") /\ identities' = {1} /\ UNCHANGED nodes /\ created' = created \cup {dev}
        BY <1>2, <2>1 DEF RegisterBoard, register_device, hardware_identity, add_poller, publish,
                          new_id, Registers, Dev, Subscribed, HandlerHeld, capture_fwd
    <2>3. /\ Len(desc) \in Nat /\ Len(loaders) \in Nat /\ at \in Nat
          /\ Len(loaders) < at /\ at <= Len(desc) + 1
        BY Entries, <2>1 DEF IInv, TypeOK, CountInv
    <2>4. /\ next_id' \in 1..(Len(desc) + 2)
          /\ inventory' \in [Types -> SUBSET (1..next_id)]
          /\ Device' = Device /\ pollers' \subseteq Device /\ dev \in Device
          /\ PolledInv'
        BY <2>1, <2>2, <2>3, RegistersStep
    <2>5. /\ next_id' = 2 /\ next_id' - 1 = next_id /\ inventory'["MainBoard"] = {1}
          /\ ~Building' /\ ~Handling' /\ LastBelow' = 1 /\ LastAnnounced' = 1
        BY <1>2, <2>1, <2>2 DEF Registers, Building, Handling, LastBelow, LastAnnounced
    <2>6. TypeOK'
        <3>1. \A set \in {pollers, created, creating, listed, forgotten, suspended}' :
                 set \subseteq Device
            BY <1>2, <2>2, <2>4 DEF IInv, TypeOK
        <3>2. device_id' \in 0..(next_id' - 1)
            BY <1>2, <2>1, <2>5 DEF IInv, TypeOK
        <3> QED  BY <1>2, <2>2, <2>4, <2>5, <3>1, <3>2 DEF IInv, TypeOK
    <2>7. EmptyInv' /\ BoardInv' /\ HandlingInv' /\ LookupsSucceed'
        BY <1>2, <2>2, <2>5 DEF EmptyInv, BoardInv, HandlingInv, LookupsSucceed, IInv
    <2>8. CountInv'
        BY <1>2, <2>3, <2>5 DEF CountInv
    <2>9. ChildrenInv'
        BY <2>1, <2>2, <2>5 DEF ChildrenInv
    <2>10. AnnouncedInv'
        <3>1. pollers' = {dev} /\ dev.id = 1
            BY <2>1, <2>2 DEF Registers, Dev
        <3>2. /\ created = {} /\ creating = {} /\ listed = {} /\ forgotten = {} /\ suspended = {}
            BY <2>1 DEF IInv, AnnouncedInv
        <3> QED  BY <1>2, <2>2, <2>5, <3>1, <3>2 DEF AnnouncedInv
    <2> QED  BY <2>4, <2>6, <2>7, <2>8, <2>9, <2>10 DEF IInv
<1> QED  BY <1>1, <1>2 DEF BuildBoard

-----------------------------------------------------------------------------
(* The steps of handle.                                                     *)

(* What they all start from. *)
LEMMA Loading ==
    ASSUME IInv, LoadDevice
    PROVE  /\ ~Building /\ TypeOf(Head(loaders)) \in Types \ {"MainBoard"} /\ "MainBoard" \in Types
           /\ loaders \in Seq(Range(desc)) /\ Len(loaders) \in Nat /\ Len(loaders) > 0
           /\ LastAnnounced + Len(loaders) <= Len(desc) + 1
           /\ UNCHANGED <<desc, at, indicators, identities>>
           /\ UNCHANGED <<creating, listed, forgotten, suspended, dead>>
<1>1. ~Building
    BY DEF LoadDevice, handle, Building
<1>2. TypeOf(Head(loaders)) \in Types \ {"MainBoard"} /\ "MainBoard" \in Types
    BY DEF TypeOf, Types
<1>3. loaders \in Seq(Range(desc)) /\ loaders # <<>>
    BY DEF IInv, TypeOK, LoadDevice
<1>4. Len(loaders) \in Nat /\ Len(loaders) > 0
    BY <1>3
<1> QED  BY <1>1, <1>2, <1>3, <1>4 DEF IInv, CountInv, LoadDevice

(* loader.load(): the device is registered and polled, nothing more. *)
LEMMA LoadStep ==
    ASSUME IInv, LoadDevice, pc = "load",
           load(TypeOf(Head(loaders))), GoOn("child")
    PROVE  IInv'
<1> PICK n : n = next_id
    OBVIOUS
<1> PICK D : D = TypeOf(Head(loaders))
    OBVIOUS
<1>1. n \in Nat /\ n > 1 /\ Len(desc) \in Nat /\ LastBelow = n - 1 /\ LastAnnounced = n - 1
    BY Loading, Lasts DEF Handling
<1>2. /\ Registers(D) /\ device_id' = n /\ pc' = "child" /\ UNCHANGED <<nodes, created, loaders>>
    BY Loading DEF load, GoOn, register_device, add_poller, new_id, Registers, Dev
<1>3. /\ n + 1 \in 1..(Len(desc) + 2) /\ n <= Len(desc) + 1 /\ (n + 1) - 2 = n - 1 /\ (n + 1) - 1 = n
    BY <1>1, Loading
<1>4. /\ next_id' = n + 1 /\ ~Building' /\ Handling' /\ LastBelow' = n - 1 /\ LastAnnounced' = n - 1
    BY <1>2, <1>3 DEF Registers, Building, Handling, LastBelow, LastAnnounced
<1>5. /\ inventory' \in [Types -> SUBSET (1..n)]
      /\ Device' = Device /\ pollers' \subseteq Device
      /\ PolledInv'
    BY <1>2, <1>3, Loading, RegistersStep
<1>6. TypeOK'
    <2>1. \A set \in {pollers, created, creating, listed, forgotten, suspended}' : set \subseteq Device
        BY <1>2, <1>5, Loading DEF IInv, TypeOK
    <2>2. device_id' \in 0..(next_id' - 1) /\ next_id' \in 1..(Len(desc) + 2) /\ next_id' - 1 = n
        BY <1>1, <1>2, <1>3, <1>4
    <2>3. inventory'["MainBoard"] = inventory["MainBoard"]
        BY <1>2, Loading DEF Registers, IInv, TypeOK
    <2> QED  BY <1>2, <1>5, <2>1, <2>2, <2>3, Loading DEF IInv, TypeOK
<1>7. BoardInv'
    <2>1. inventory'["MainBoard"] = inventory["MainBoard"]
        BY <1>2, Loading DEF Registers, IInv, TypeOK
    <2> QED  BY <1>1, <1>4, <2>1, Loading DEF IInv, BoardInv
<1>8. EmptyInv' /\ LookupsSucceed'
    BY <1>4, Loading DEF EmptyInv, LookupsSucceed, IInv
<1>9. CountInv'
    BY <1>1, <1>2, <1>4, Loading DEF CountInv
<1>10. HandlingInv'
    <2>1. Dev(D, n) \in pollers' /\ n + 1 > 2
        BY <1>1, <1>2 DEF Registers
    <2>2. loaders' # <<>> /\ TypeOf(Head(loaders))' = D
        BY <1>2 DEF LoadDevice, TypeOf
    <2> QED  BY <1>2, <1>3, <1>4, <2>1, <2>2 DEF HandlingInv
<1>11. ChildrenInv'
    BY <1>1, <1>2, <1>4, Loading DEF IInv, ChildrenInv
<1>12. AnnouncedInv'
    <2>1. pollers \subseteq pollers'
        BY <1>2 DEF Registers
    <2> QED  BY <1>1, <1>2, <1>4, <2>1, Loading DEF IInv, AnnouncedInv
<1> QED  BY <1>5, <1>6, <1>7, <1>8, <1>9, <1>10, <1>11, <1>12 DEF IInv

(* The device goes to the end of the tree, below the board. *)
LEMMA ChildStep ==
    ASSUME IInv, LoadDevice, pc = "child", PutBelowBoard, GoOn("announce")
    PROVE  IInv'
<1> PICK n : n = device_id
    OBVIOUS
<1> DEFINE node == [parent |-> 1, id |-> n, func |-> FALSE]
<1>1. /\ n \in Nat /\ n > 1 /\ next_id = n + 1 /\ LastBelow = n - 1 /\ LastAnnounced = n - 1
    <2>1. next_id \in Nat /\ next_id > 2 /\ n = next_id - 1
        BY Loading, Lasts DEF IInv, HandlingInv, Handling
    <2> QED  BY <2>1 DEF LastBelow, LastAnnounced, Handling
<1>2. /\ pc' = "announce" /\ UNCHANGED <<loaders, device_id, next_id, inventory, pollers, created>>
      /\ Tree!add_child(1, n, FALSE)
    <2>1. inventory["MainBoard"] = {1}
        BY Loading DEF IInv, BoardInv
    <2>2. (CHOOSE b \in inventory["MainBoard"] : TRUE) = 1
        BY <2>1
    <2> QED  BY <2>2 DEF PutBelowBoard, GoOn
<1>3. /\ nodes \in Seq(Tree!Node) /\ Len(nodes) = n - 2
      /\ \A i \in 1..(n - 2) : nodes[i] = [parent |-> 1, id |-> i + 1, func |-> FALSE]
    <2>1. (n - 1) - 1 = n - 2
        BY <1>1
    <2> QED  BY <1>1, <2>1, Loading DEF IInv, TypeOK, ChildrenInv
<1>4. nodes' = Append(nodes, node)
    <2>1. DOMAIN nodes = 1..(n - 2)
        BY <1>1, <1>3
    <2>2. \A i \in 1..(n - 2) : nodes[i].id = i + 1
        BY <1>3
    <2>3. ~Tree!Has(n)
        BY <1>1, <2>1, <2>2 DEF Tree!Has
    <2> QED  BY <1>2, <2>3 DEF Tree!add_child
<1>5. node \in Tree!Node /\ nodes' \in Seq(Tree!Node) /\ Len(nodes') = n - 1
    BY <1>1, <1>3, <1>4 DEF Tree!Node
<1>6. ~Building' /\ Handling' /\ LastBelow' = n /\ LastAnnounced' = n - 1
    BY <1>1, <1>2 DEF Building, Handling, LastBelow, LastAnnounced
<1>7. TypeOK'
    BY <1>2, <1>5, Loading DEF IInv, TypeOK, Device, Ids
<1>8. EmptyInv' /\ BoardInv' /\ CountInv'
    BY <1>1, <1>2, <1>6, Loading DEF IInv, EmptyInv, BoardInv, CountInv
<1>9. HandlingInv' /\ PolledInv' /\ AnnouncedInv' /\ LookupsSucceed'
    BY <1>1, <1>2, <1>6, Loading
       DEF IInv, HandlingInv, Handling, PolledInv, AnnouncedInv, LookupsSucceed, TypeOf
<1>10. ChildrenInv'
    <2>1. ASSUME NEW i \in 1..(n - 1)
          PROVE  nodes'[i] = [parent |-> 1, id |-> i + 1, func |-> FALSE]
        <3>1. CASE i = n - 1
            BY <1>1, <1>3, <1>4, <3>1
        <3>2. CASE i \in 1..(n - 2)
            <4>1. nodes'[i] = nodes[i]
                BY <1>1, <1>3, <1>4, <3>2
            <4> QED  BY <1>3, <3>2, <4>1
        <3> QED  BY <1>1, <3>1, <3>2
    <2> QED  BY <1>5, <1>6, <2>1 DEF ChildrenInv
<1> QED  BY <1>7, <1>8, <1>9, <1>10 DEF IInv

(* It is announced, and the next loader is taken. *)
LEMMA AnnounceStep ==
    ASSUME IInv, LoadDevice, pc = "announce", Announce(TypeOf(Head(loaders))), NextLoader
    PROVE  IInv'
<1> PICK n : n = device_id
    OBVIOUS
<1> PICK dev : dev = Dev(TypeOf(Head(loaders)), n)
    OBVIOUS
<1>1. /\ n \in Nat /\ n > 1 /\ next_id = n + 1 /\ LastBelow = n /\ LastAnnounced = n - 1
      /\ dev \in pollers
    <2>1. next_id \in Nat /\ next_id > 2 /\ n = next_id - 1 /\ dev \in pollers
        BY Loading, Lasts DEF IInv, HandlingInv, Handling
    <2> QED  BY <2>1 DEF LastBelow, LastAnnounced, Handling
<1>2. /\ pc' = "load" /\ UNCHANGED <<device_id, next_id, inventory, pollers, nodes>>
      /\ loaders' = Tail(loaders) /\ created' = created \cup {dev}
    BY Loading DEF Announce, NextLoader, publish, Subscribed, HandlerHeld, capture_fwd, Dev
<1>3. /\ ~Building' /\ ~Handling' /\ LastBelow' = n /\ LastAnnounced' = n
    BY <1>1, <1>2 DEF Building, Handling, LastBelow, LastAnnounced
<1>4. loaders' \in Seq(Range(desc)) /\ Len(loaders') = Len(loaders) - 1
    BY <1>2, Loading
<1>5. dev.id = n /\ dev \in Device
    BY <1>1 DEF Dev, IInv, TypeOK
<1>6. TypeOK'
    <2>1. \A set \in {pollers, created, creating, listed, forgotten, suspended}' : set \subseteq Device
        BY <1>2, <1>5, Loading DEF IInv, TypeOK
    <2>2. Device' = Device
        BY Loading DEF Device, Ids
    <2> QED  BY <1>2, <1>4, <2>1, <2>2, Loading DEF IInv, TypeOK
<1>7. EmptyInv' /\ BoardInv' /\ HandlingInv' /\ PolledInv' /\ LookupsSucceed'
    BY <1>2, <1>3, Loading DEF IInv, EmptyInv, BoardInv, HandlingInv, PolledInv, LookupsSucceed
<1>8. CountInv'
    <2>1. Len(desc) \in Nat
        BY Loading, Lasts
    <2> QED  BY <1>1, <1>3, <1>4, <2>1, Loading DEF CountInv
<1>9. ChildrenInv'
    BY <1>1, <1>2, <1>3, Loading DEF IInv, ChildrenInv
<1>10. AnnouncedInv'
    <2>1. \A d \in created \cup creating \cup listed \cup forgotten \cup suspended :
             d \in pollers /\ d.id <= n - 1
        BY <1>1 DEF IInv, AnnouncedInv
    <2>2. \A d \in pollers : d.id \in Nat
        BY AnnouncedIsRegistered, Loading, Lasts
    <2>3. \A d \in created \cup creating \cup listed \cup forgotten \cup suspended :
             d \in pollers /\ d.id <= n /\ d # dev
        BY <1>1, <1>5, <2>1, <2>2
    <2>4. created \cap (creating \cup listed) = {}
        BY DEF IInv, AnnouncedInv
    <2>5. dev \in {d \in pollers : d.id <= n}
        BY <1>1, <1>5
    <2> QED  BY <1>2, <1>3, <2>3, <2>4, <2>5, Loading DEF AnnouncedInv
<1> QED  BY <1>6, <1>7, <1>8, <1>9, <1>10 DEF IInv

LEMMA LoadDeviceStep ==
    ASSUME IInv, LoadDevice
    PROVE  IInv'
BY LoadStep, ChildStep, AnnounceStep DEF LoadDevice, handle

(* No id is polled before it has been given out. *)
LEMMA LoadThrowsStep ==
    ASSUME IInv, dead = "no", LoadThrows
    PROVE  IInv'
<1>1. CASE Throw("hardware")
    BY <1>1, ThrowStep
<1>2. CASE polled(new_id(TypeOf(Head(loaders))))
    <2>1. \A dev \in pollers : dev.id \in 1..(next_id - 1)
        BY AnnouncedIsRegistered
    <2>2. next_id \in Int
        BY Entries DEF IInv, TypeOK
    <2> QED  BY <1>2, <2>1, <2>2 DEF polled, new_id
<1> QED  BY <1>1, <1>2 DEF LoadThrows

LEMMA LoadedStep ==
    ASSUME IInv, dead = "no", Loaded
    PROVE  IInv'
<1>1. /\ ~Building /\ ~Building' /\ ~Handling /\ ~Handling' /\ pc' = "done" /\ pc = "load"
      /\ UNCHANGED <<desc, at, indicators, loaders, device_id, registryVars, handlerVars, dead>>
    BY DEF Loaded, Building, Handling
<1>2. TypeOK'
    BY <1>1 DEF IInv, TypeOK, registryVars, handlerVars, Device, Ids
<1>3. EmptyInv' /\ BoardInv' /\ HandlingInv'
    BY <1>1 DEF IInv, EmptyInv, BoardInv, HandlingInv, registryVars
<1>4. LastBelow' = LastBelow /\ LastAnnounced' = LastAnnounced
    BY <1>1 DEF LastBelow, LastAnnounced, registryVars
<1>5. CountInv' /\ PolledInv' /\ ChildrenInv' /\ AnnouncedInv' /\ LookupsSucceed'
    BY <1>1, <1>4 DEF IInv, CountInv, PolledInv, ChildrenInv, AnnouncedInv, LookupsSucceed,
                      registryVars, handlerVars
<1> QED  BY <1>2, <1>3, <1>5 DEF IInv

-----------------------------------------------------------------------------
(* A step of a handler: only what the handlers hold changes. *)
LEMMA HandlerStep ==
    ASSUME IInv, ~Building, UNCHANGED <<builderVars, registryVars, dead>>,
           created' \subseteq created,
           creating' \cup listed' \cup forgotten' \cup suspended'
               \subseteq {dev \in pollers : dev.id <= LastAnnounced},
           created' \cap (creating' \cup listed') = {}
    PROVE  IInv'
<1>1. TypeOK'
    BY DEF IInv, TypeOK, builderVars, registryVars, Device, Ids
<1>2. LastBelow' = LastBelow /\ LastAnnounced' = LastAnnounced /\ Handling' = Handling
    BY DEF LastBelow, LastAnnounced, Handling, builderVars, registryVars
<1>3. EmptyInv' /\ BoardInv' /\ CountInv' /\ HandlingInv'
    BY <1>2 DEF IInv, EmptyInv, BoardInv, CountInv, HandlingInv, builderVars, registryVars, Building
<1>4. PolledInv' /\ ChildrenInv' /\ LookupsSucceed'
    BY <1>2 DEF IInv, PolledInv, ChildrenInv, LookupsSucceed, builderVars, registryVars, Building
<1>5. AnnouncedInv'
    BY <1>2 DEF IInv, AnnouncedInv, registryVars
<1> QED  BY <1>1, <1>3, <1>4, <1>5 DEF IInv

LEMMA StartCreatingStep ==
    ASSUME IInv, NEW dev \in created, StartCreating(dev)
    PROVE  IInv'
<1>1. dev \in pollers /\ dev.id <= LastAnnounced /\ created \cap (creating \cup listed) = {}
    BY DEF IInv, AnnouncedInv
<1>2. ~Building /\ dev.id \in 1..(next_id - 1)
    BY <1>1, AnnouncedIsRegistered
<1>3. dev.id \in 1..LastBelow
    BY <1>1, <1>2, Lasts
<1>4. identity(dev.id) = {1}
    BY <1>2, <1>3, IdentityOfTheBoard
<1>5. /\ created' = created \ {dev} /\ creating' = creating \cup {dev}
      /\ UNCHANGED <<builderVars, registryVars, listed, forgotten, suspended, dead>>
    BY <1>4 DEF StartCreating
<1> QED  BY <1>1, <1>2, <1>5, HandlerStep DEF IInv, AnnouncedInv

(* The board that is announced is in the inventory, and is not yet held.    *)
LEMMA HandleStep ==
    ASSUME IInv, dead = "no", NEW dev \in created, Handle(dev)
    PROVE  IInv'
<1>1. CASE StartCreating(dev)
    BY <1>1, StartCreatingStep
<1>2. CASE Throw("board")
    BY <1>2, ThrowStep
<1>3. CASE MainBoardCreated(dev) /\ ~StartCreating(dev) /\ ~Throw("board")
    <2>1. dev \in pollers /\ listed \subseteq pollers /\ dev \notin listed
        BY DEF IInv, AnnouncedInv
    <2>2. dev.type = "MainBoard"
        BY <1>3 DEF MainBoardCreated
    <2>3. dev = Dev("MainBoard", 1) /\ dev.id \in inventory["MainBoard"]
        BY <2>1, <2>2, AnnouncedIsRegistered
    <2>4. \A d \in listed : d.type = "MainBoard" => d = Dev("MainBoard", 1)
        BY <2>1, AnnouncedIsRegistered
    <2> QED  BY <1>3, <2>1, <2>3, <2>4 DEF MainBoardCreated
<1> QED  BY <1>1, <1>2, <1>3 DEF Handle, HatchCreated, TempSensorCreated

LEMMA CreatedStep ==
    ASSUME IInv, dead = "no", NEW dev \in creating, Created(dev)
    PROVE  IInv'
<1>1. dev \in pollers /\ dev.id <= LastAnnounced /\ dev \notin created
    BY DEF IInv, AnnouncedInv
<1>2. ~Building /\ dev.id \in inventory[dev.type]
    BY <1>1, AnnouncedIsRegistered
<1>3. CASE Throw("hardware") \/ Throw("client") \/ Throw("board")
    BY <1>3, ThrowStep
<1>4. CASE Decided(dev) /\ listed' = listed \cup {dev} /\ UNCHANGED <<forgotten, suspended>>
    BY <1>1, <1>2, <1>4, HandlerStep DEF Decided, IInv, AnnouncedInv
<1>5. CASE Decided(dev) /\ forgotten' = forgotten \cup {dev} /\ UNCHANGED <<listed, suspended>>
    BY <1>1, <1>2, <1>5, HandlerStep DEF Decided, IInv, AnnouncedInv
<1>6. CASE Decided(dev) /\ suspended' = suspended \cup {dev} /\ UNCHANGED <<listed, forgotten>>
    BY <1>1, <1>2, <1>6, HandlerStep DEF Decided, IInv, AnnouncedInv
<1> QED  BY <1>2, <1>3, <1>4, <1>5, <1>6 DEF Created

LEMMA PollThrowsStep ==
    ASSUME IInv, dead = "no", NEW dev \in pollers, PollThrows(dev)
    PROVE  IInv'
BY ThrowStep, AnnouncedIsRegistered DEF PollThrows

LEMMA NextStep == IInv /\ [Next]_vars => IInv'
<1> SUFFICES ASSUME IInv, [Next]_vars PROVE IInv'
    OBVIOUS
<1>1. CASE UNCHANGED vars
    <2>1. TypeOK'
        BY <1>1 DEF IInv, TypeOK, vars, builderVars, registryVars, handlerVars, Device, Ids
    <2>2. EmptyInv' /\ BoardInv' /\ CountInv' /\ HandlingInv'
        BY <1>1 DEF IInv, EmptyInv, BoardInv, CountInv, HandlingInv, Building, Handling,
                    LastAnnounced, vars, builderVars, registryVars
    <2>3. PolledInv' /\ ChildrenInv' /\ AnnouncedInv' /\ LookupsSucceed'
        BY <1>1 DEF IInv, PolledInv, ChildrenInv, AnnouncedInv, LookupsSucceed, Building, Handling,
                    LastBelow, LastAnnounced, vars, builderVars, registryVars, handlerVars
    <2> QED  BY <2>1, <2>2, <2>3 DEF IInv
<1>2. ASSUME NEW dev \in suspended, SuspendedThrows(dev)
      PROVE  IInv'
    BY <1>2, ThrowStep DEF SuspendedThrows
<1>3. CASE Next
    BY <1>2, <1>3, pdtree_loadStep, setupStep, BuildBoardStep, LoadDeviceStep, LoadThrowsStep,
       LoadedStep, HandleStep, CreatedStep, PollThrowsStep DEF Next, main_board_init
<1> QED  BY <1>1, <1>3

-----------------------------------------------------------------------------
(* The inductive invariant holds in every state of a start-up with any      *)
(* description: the counter, the inventories, the tree and the pollers stay *)
(* in step while the handlers of earlier devices run.                       *)
THEOREM Invariance == Spec => []IInv
BY InitStep, NextStep, PTL DEF Spec

(* The state of the builder, the registries and the handlers has its type;  *)
(* in particular no id exceeds the number of described devices and the      *)
(* board (new_id, register_device).                                         *)
THEOREM TypeCorrect == Spec => []TypeOK
<1>1. IInv => TypeOK
    BY DEF IInv
<1> QED  BY Invariance, <1>1, PTL

(* However the handlers interleave with main_board_init, and however many   *)
(* devices are described, no look-up of an identity or of a device fails    *)
(* and no id is polled twice.                                               *)
THEOREM NoLookupFails == Spec => []LookupsSucceed
<1>1. IInv => LookupsSucceed
    BY DEF IInv
<1> QED  BY Invariance, <1>1, PTL

(* Every registered device has exactly one poller, of its type, and has the *)
(* identity of the one board as soon as handle has put it into the tree,    *)
(* which is before it is announced.                                         *)
THEOREM WiredOnRegistration == Spec => []RegisteredIsWired
<1>1. ASSUME IInv PROVE RegisteredIsWired
    <2> SUFFICES ASSUME NEW D \in Types, NEW id \in inventory[D]
                 PROVE  /\ {dev \in pollers : dev.id = id} = {[type |-> D, id |-> id]}
                        /\ (pc = "child" => id # device_id) => identity(id) = inventory["MainBoard"]
        BY DEF RegisteredIsWired
    <2>1. id \in 1..(next_id - 1)
        BY <1>1 DEF IInv, TypeOK
    <2>2. Dev(D, id) \in pollers
        BY <1>1, <2>1 DEF IInv, PolledInv
    <2>3. ~Building
        BY <1>1, <2>2 DEF IInv, EmptyInv
    <2>4. ASSUME pc = "child" => id # device_id
          PROVE  identity(id) = inventory["MainBoard"]
        <3>1. pc = "child" => device_id = next_id - 1 /\ LastBelow = next_id - 2
            BY <1>1 DEF IInv, HandlingInv, Handling, LastBelow
        <3>2. id \in 1..LastBelow
            BY <1>1, <2>1, <2>3, <2>4, <3>1, Lasts
        <3> QED  BY <1>1, <2>3, <3>2, IdentityOfTheBoard DEF IInv, BoardInv
    <2>5. ASSUME NEW dev \in pollers, dev.id = id
          PROVE  dev = Dev(D, id)
        <3>1. dev = Dev(dev.type, id) /\ dev.type \in Types /\ id \in inventory[dev.type]
            BY <1>1, <2>5, AnnouncedIsRegistered
        <3>2. dev.type = D
            BY <1>1, <3>1 DEF IInv, PolledInv
        <3> QED  BY <3>1, <3>2
    <2> QED  BY <2>2, <2>4, <2>5 DEF Dev
<1> QED  BY Invariance, <1>1, PTL

=============================================================================
