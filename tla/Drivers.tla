------------------------------- MODULE Drivers -------------------------------
(***************************************************************************)
(* The drivers of the devices (main_board/sysfs_*.cpp,                     *)
(* device/rgb_indicator.cpp): what the pollers learn of hardware that is a *)
(* set of sysfs files.  A file is opened, read or written, and closed by   *)
(* each call, so other programs and the hardware itself come in between:   *)
(* the colour of the led, three files that four indicators share, is       *)
(* neither written nor read at once.                                       *)
(*                                                                         *)
(* DeviceSync takes the state of a device for one value that is read in    *)
(* one step; this module shows what that amounts to.                       *)
(***************************************************************************)
EXTENDS Integers, Sequences, SequencesExt

CONSTANTS
    Levels,       \* what the brightness of a led may be
    Temperatures  \* what a temperature sensor may measure, as text

ASSUME LevelsAssumption == Levels \subseteq Nat /\ {0, 255} \subseteq Levels
ASSUME TemperaturesAssumption ==
    "0" \in Temperatures /\ {"no number", "no t="} \cap Temperatures = {}

VARIABLES
    attached,    \* what the platform has: devices with a single file, and
                 \* the indicators of the board
    led,         \* led[c]: the brightness file of colour c
    text,        \* text[d]: the file of a device that has a single one
    thread,      \* what the only thread is doing: "boot", "idle", "poll" (of
                 \* the board), "hung" in read_attr, "dead" by an exception
    writes,      \* boot: the writes that are left
    got,         \* poll: the levels read for the current indicator
    states,      \* poll: the indicator states so far
    remembered,  \* remembered[d]: hash_ or cached_temp_ of d's poller; that of
                 \* the board stands for the indicators that are on
    alone,       \* history: no other program wrote to the led, and no write
                 \* of ours failed, since the boot or the poll began
    calm         \* history: the hardware has stopped to change

vars == <<attached, led, text, thread, writes, got, states, remembered, alone, calm>>

Colours == <<"red", "green", "blue">>
Indicators == <<"Fault", "Maintenance", "Warning", "Status">>

RGB(r, g, b) == [red |-> r, green |-> g, blue |-> b]

IndicatorMapping == [Status |-> RGB(0, 255, 0), Warning |-> RGB(255, 255, 0),
                     Maintenance |-> RGB(0, 0, 255), Fault |-> RGB(255, 0, 0)]

(* The texts of the hatch driver, and what the others may find: a number,   *)
(* no number where there should be one, or (ds18b20) no "t=".               *)
StatusMapping == [Open |-> "open", Closed |-> "closed", Faulty |-> "faulty",
                  ChangingPosition |-> "changing_position", Undefined |-> "undefined"]

Texts == [hatch |-> Range(StatusMapping) \cup {"other"},
          ds18b20 |-> Temperatures \cup {"no number", "no t="},
          cpu_temp |-> Temperatures \cup {"no number"}]

Single == DOMAIN Texts
Attachable == Single \cup {"board"}

TypeOK ==
    /\ attached \subseteq Attachable
    /\ led \in [ToSet(Colours) -> Levels]
    /\ \A d \in Single : text[d] \in Texts[d]
    /\ thread \in {"boot", "idle", "poll", "hung", "dead"}
    /\ writes \in Seq(ToSet(Colours) \X {0, 255})
    /\ got \in Seq(Levels) /\ Len(got) < 3
    /\ states \in Seq({"On", "Off"}) /\ Len(states) < 4
    /\ remembered.board \in {{"zero"}} \cup SUBSET ToSet(Indicators)
    /\ remembered.hatch \in DOMAIN StatusMapping
    /\ remembered.ds18b20 \in Temperatures /\ remembered.cpu_temp \in Temperatures
    /\ alone \in BOOLEAN /\ calm \in BOOLEAN

-----------------------------------------------------------------------------
(* Writing.                                                                 *)

(* Mutant: in the opposite order. *)
set_brightness_Reversed(value) ==
    [i \in 1..3 |-> <<Colours[4 - i], value[Colours[4 - i]]>>]

(* SysfsRGBLed::set_brightness: the writes it makes, in this order. *)
set_brightness(value) == [i \in 1..3 |-> <<Colours[i], value[Colours[i]]>>]

(* RGBIndicator::set_state. *)
set_state(type, state) ==
    set_brightness(IF state = "On" THEN IndicatorMapping[type] ELSE RGB(0, 0, 0))

(* Mutant: the two calls are swapped. *)
BootWrites_OffLast == set_state("Status", "On") \o set_state("Status", "Off")

(* The constructor of MainBoard, if it is given indicators. *)
BootWrites == set_state("Status", "Off") \o set_state("Status", "On")

Init ==
    /\ attached \in SUBSET Attachable
    /\ led \in [ToSet(Colours) -> Levels]
    /\ text \in [hatch : Texts.hatch, ds18b20 : Texts.ds18b20, cpu_temp : Texts.cpu_temp]
    /\ thread = IF "board" \in attached THEN "boot" ELSE "idle"
    /\ writes = IF "board" \in attached THEN BootWrites ELSE <<>>
    /\ got = <<>> /\ states = <<>>
    /\ remembered = [board |-> {"zero"}, hatch |-> "Undefined", ds18b20 |-> "0", cpu_temp |-> "0"]
    /\ alone = TRUE
    /\ calm = FALSE

(* An exception in the only thread; main() aborts.  Files come and go with  *)
(* the hardware.                                                            *)
Throw ==
    /\ ~calm
    /\ thread' = "dead"
    /\ UNCHANGED <<attached, led, text, writes, got, states, remembered, alone, calm>>

(* write_attr: a file that cannot be opened is an exception; what becomes   *)
(* of the write is not looked at.                                           *)
write_attr ==
    /\ thread = "boot"
    /\ \/ /\ \/ /\ led' = [led EXCEPT ![Head(writes)[1]] = Head(writes)[2]]
                /\ UNCHANGED alone
             \/ ~calm /\ alone' = FALSE /\ UNCHANGED led
          /\ writes' = Tail(writes)
          /\ thread' = IF Len(writes) = 1 THEN "idle" ELSE "boot"
          /\ UNCHANGED <<attached, text, got, states, remembered, calm>>
       \/ Throw

-----------------------------------------------------------------------------
(* Reading.                                                                 *)

(* read_attr of a file that opens but gives an error when it is read: the   *)
(* loop waits for the end of the file, which never comes.                   *)
ReadNeverEnds ==
    /\ ~calm
    /\ thread' = "hung"
    /\ UNCHANGED <<attached, led, text, writes, got, states, remembered, alone, calm>>

(* Mutant: one colour is not compared. *)
state_NoBlue(type, levels) ==
    IF \A i \in 1..2 : levels[i] = IndicatorMapping[type][Colours[i]] THEN "On" ELSE "Off"

(* RGBIndicator::state, from the three levels that were read. *)
state(type, levels) ==
    IF \A i \in 1..3 : levels[i] = IndicatorMapping[type][Colours[i]] THEN "On" ELSE "Off"

(* The timer of the main board's poller; a board without indicators reads   *)
(* no file.                                                                 *)
StartPoll ==
    /\ "board" \in attached
    /\ thread = "idle"
    /\ thread' = "poll"
    /\ alone' = TRUE
    /\ UNCHANGED <<attached, led, text, writes, got, states, remembered, calm>>

(* Mutant: a poller that has seen the board once does not update. *)
update_Once(found) ==
    IF remembered.board = {"zero"} THEN remembered' = [remembered EXCEPT !.board = found]
    ELSE UNCHANGED remembered

(* MainBoardPoller::update, if the hash differs. *)
update(found) == remembered' = [remembered EXCEPT !.board = found]

(* SysfsLed::brightness of the next colour: current_hash asks for the four  *)
(* states in turn, each of which reads the three files again.               *)
brightness ==
    LET levels == Append(got, led[Colours[Len(got) + 1]])
        found == Append(states, state(Indicators[Len(states) + 1], levels))
    IN
    /\ thread = "poll"
    /\ \/ /\ Len(levels) < 3
          /\ got' = levels
          /\ UNCHANGED <<states, thread, remembered>>
       \/ /\ Len(levels) = 3 /\ Len(found) < 4
          /\ got' = <<>> /\ states' = found
          /\ UNCHANGED <<thread, remembered>>
       \/ /\ Len(levels) = 3 /\ Len(found) = 4
          /\ got' = <<>> /\ states' = <<>>
          /\ thread' = "idle"
          /\ update({Indicators[i] : i \in {j \in 1..4 : found[j] = "On"}})
    /\ UNCHANGED <<attached, led, text, writes, alone, calm>>

(* The text of a brightness file is no number, the file cannot be opened,   *)
(* or it cannot be read.                                                    *)
BrightnessFails == thread = "poll" /\ (Throw \/ ReadNeverEnds)

(* Mutant: a text that is not in the table is not an error. *)
status_Unchecked(t) == {IF \E s \in DOMAIN StatusMapping : StatusMapping[s] = t
                        THEN CHOOSE s \in DOMAIN StatusMapping : StatusMapping[s] = t ELSE t}

(* SysfsHatch::status: the state with this text; none is an exception. *)
status(t) == {s \in DOMAIN StatusMapping : StatusMapping[s] = t}

(* SysfsDS18B20::value: without "t=" it is 0 degrees. *)
ds18b20_value(t) == IF t = "no t=" THEN {"0"} ELSE {t} \cap Temperatures

(* SysfsCPUTempSensor::value. *)
cpu_temp_value(t) == {t} \cap Temperatures

value(d) ==
    LET t == text[d] IN
    IF d = "hatch" THEN status(t) ELSE IF d = "ds18b20" THEN ds18b20_value(t) ELSE cpu_temp_value(t)

(* The timer of another poller: a single read. *)
Poll(d) ==
    /\ thread = "idle"
    /\ \/ /\ \E v \in value(d) : remembered' = [remembered EXCEPT ![d] = v]
          /\ UNCHANGED <<attached, led, text, thread, writes, got, states, alone, calm>>
       \/ /\ value(d) = {}
          /\ thread' = "dead"
          /\ UNCHANGED <<attached, led, text, writes, got, states, remembered, alone, calm>>
       \/ Throw
       \/ ReadNeverEnds

-----------------------------------------------------------------------------
(* External: the hardware, and other programs. *)
LedChanges ==
    /\ "board" \in attached
    /\ ~calm
    /\ \E c \in ToSet(Colours), l \in Levels : l # led[c] /\ led' = [led EXCEPT ![c] = l]
    /\ alone' = FALSE
    /\ UNCHANGED <<attached, text, thread, writes, got, states, remembered, calm>>

TextChanges(d) ==
    /\ ~calm
    /\ \E t \in Texts[d] \ {text[d]} : text' = [text EXCEPT ![d] = t]
    /\ UNCHANGED <<attached, led, thread, writes, got, states, remembered, alone, calm>>

CalmsDown ==
    /\ ~calm
    /\ calm' = TRUE
    /\ UNCHANGED <<attached, led, text, thread, writes, got, states, remembered, alone>>

Next ==
    \/ write_attr
    \/ StartPoll \/ brightness \/ BrightnessFails
    \/ \E d \in attached \cap Single : Poll(d) \/ TextChanges(d)
    \/ LedChanges \/ CalmsDown

(* The thread runs; an expired timer is put into the queue of the           *)
(* io_context, which is served in order.                                    *)
Fairness ==
    /\ WF_vars(write_attr)
    /\ WF_vars(brightness)
    /\ SF_vars(StartPoll)
    /\ \A d \in Single : SF_vars(d \in attached /\ Poll(d))

Spec == Init /\ [][Next]_vars /\ Fairness

-----------------------------------------------------------------------------
(* Properties.                                                              *)

Lit(type) == led = IndicatorMapping[type]

(* What a poller would remember if it saw the hardware in one step. *)
Truth == {t \in ToSet(Indicators) : Lit(t)}

(* Switching the status indicator off and on, which are six writes, never   *)
(* shows a warning or a fault that was not shown before, whatever colour    *)
(* the led had: red goes first.  Other programs, and writes that fail, are  *)
(* excepted.                                                                *)
NoFalseAlarm ==
    [][\A type \in {"Fault", "Warning"} : thread = "boot" /\ alone' /\ Lit(type)' => Lit(type)]_vars

(* When the constructor of the board has returned, the led shows the status *)
(* and nothing else, unless another program or a failed write interfered.   *)
StartShowsStatus ==
    [][thread = "boot" /\ thread' = "idle" /\ alone' => Truth' = {"Status"}]_vars

(* A poll of twelve reads that no other program disturbs finds what the led *)
(* shows, and at most one indicator that is on.                             *)
QuietPollIsTrue ==
    [][thread = "poll" /\ thread' = "idle" /\ alone =>
         remembered'.board = Truth /\ \A t, u \in remembered'.board : t = u]_vars

(* What the files of a device stand for. *)
Reading(d) ==
    IF d = "board" THEN {Truth}
    ELSE IF d = "hatch" THEN {s \in DOMAIN StatusMapping : StatusMapping[s] = text.hatch}
    ELSE {IF text[d] \in Temperatures THEN text[d] ELSE "0"}

(* Whatever a torn read or a bad text has made the pollers remember, it is  *)
(* corrected once the hardware comes to rest, as long as the process lives. *)
(* The exception is a ds18b20 without a temperature, which is 0 degrees.    *)
CalmIsReported ==
    calm ~> \/ thread \in {"dead", "hung"}
            \/ []\A d \in attached : remembered[d] \in Reading(d)

=============================================================================
