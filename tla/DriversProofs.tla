---------------------------- MODULE DriversProofs ----------------------------
(***************************************************************************)
(* Proofs about Drivers for every set of brightness levels and of          *)
(* temperatures.                                                           *)
(***************************************************************************)
EXTENDS Drivers, SequenceTheorems, TLAPS

(* The files and what the pollers remember are records. *)
Shape ==
    /\ text \in [hatch : Texts.hatch, ds18b20 : Texts.ds18b20, cpu_temp : Texts.cpu_temp]
    /\ remembered \in [board : {{"zero"}} \cup SUBSET ToSet(Indicators),
                       hatch : DOMAIN StatusMapping,
                       ds18b20 : Temperatures, cpu_temp : Temperatures]

(* How many of the six writes of the boot have been made. *)
Written == 6 - Len(writes)

(* The writes that are left are the last ones of the six, and unless        *)
(* somebody interfered the led has what the others have written.            *)
BootInv ==
    thread = "boot" =>
        /\ Len(writes) \in 1..6
        /\ \A i \in 1..Len(writes) : writes[i] = BootWrites[i + Written]
        /\ alone =>
            /\ Written >= 1 => led["red"] = 0
            /\ Written >= 2 => led["green"] = IF Written < 5 THEN 0 ELSE 255
            /\ Written >= 3 => led["blue"] = 0

(* A poll starts from nothing; what it has read so far is still so, unless  *)
(* another program interfered.                                              *)
PollInv ==
    /\ thread \in {"boot", "idle"} => got = <<>> /\ states = <<>>
    /\ thread = "poll" /\ alone =>
        /\ \A i \in 1..Len(got) : got[i] = led[Colours[i]]
        /\ \A j \in 1..Len(states) : states[j] = IF Lit(Indicators[j]) THEN "On" ELSE "Off"

IInv == TypeOK /\ Shape /\ BootInv /\ PollInv

-----------------------------------------------------------------------------
(* The tables, written out. *)
LEMMA ColourNames ==
    /\ ToSet(Colours) = {"red", "green", "blue"}
    /\ Colours[1] = "red" /\ Colours[2] = "green" /\ Colours[3] = "blue"
BY DEF Colours, ToSet

LEMMA IndicatorNames ==
    /\ ToSet(Indicators) = {"Fault", "Maintenance", "Warning", "Status"}
    /\ \A j \in 1..4 : Indicators[j] \in ToSet(Indicators)
    /\ \A t \in ToSet(Indicators) : \E j \in 1..4 : Indicators[j] = t
BY DEF Indicators, ToSet

LEMMA SingleNames ==
    /\ Single = {"hatch", "ds18b20", "cpu_temp"}
    /\ Texts["hatch"] = Texts.hatch
    /\ Texts["ds18b20"] = Texts.ds18b20
    /\ Texts["cpu_temp"] = Texts.cpu_temp
BY DEF Single, Texts

LEMMA IndicatorColours ==
    /\ IndicatorMapping["Status"] = RGB(0, 255, 0)
    /\ IndicatorMapping["Warning"] = RGB(255, 255, 0)
    /\ IndicatorMapping["Maintenance"] = RGB(0, 0, 255)
    /\ IndicatorMapping["Fault"] = RGB(255, 0, 0)
BY DEF IndicatorMapping

(* No two indicators have the same colour. *)
LEMMA ColoursDiffer ==
    ASSUME NEW t \in ToSet(Indicators), NEW u \in ToSet(Indicators),
           IndicatorMapping[t] = IndicatorMapping[u]
    PROVE  t = u
<1>1. \A r, g, b : RGB(r, g, b)["red"] = r /\ RGB(r, g, b)["green"] = g
    BY DEF RGB
<1> DEFINE red == [n \in ToSet(Indicators) |-> IndicatorMapping[n]["red"]]
           green == [n \in ToSet(Indicators) |-> IndicatorMapping[n]["green"]]
<1>2. /\ red["Status"] = 0 /\ green["Status"] = 255
      /\ red["Warning"] = 255 /\ green["Warning"] = 255
      /\ red["Maintenance"] = 0 /\ green["Maintenance"] = 0
      /\ red["Fault"] = 255 /\ green["Fault"] = 0
    BY <1>1, IndicatorNames, IndicatorColours
<1>3. red[t] = red[u] /\ green[t] = green[u]
    OBVIOUS
<1> HIDE DEF red, green
<1> QED  BY <1>2, <1>3, IndicatorNames

(* The led shows a colour when its three files have the levels of it. *)
LEMMA ShowsColour ==
    ASSUME NEW l \in [ToSet(Colours) -> Levels], NEW r, NEW g, NEW b
    PROVE  l = RGB(r, g, b) <=> l["red"] = r /\ l["green"] = g /\ l["blue"] = b
<1>1. /\ RGB(r, g, b)["red"] = r /\ RGB(r, g, b)["green"] = g /\ RGB(r, g, b)["blue"] = b
      /\ RGB(r, g, b) = [c \in {"red", "green", "blue"} |-> RGB(r, g, b)[c]]
    BY DEF RGB
<1>2. l = [c \in {"red", "green", "blue"} |-> l[c]]
    BY ColourNames
<1> QED  BY <1>1, <1>2

LEMMA TwoTriples ==
    ASSUME NEW S, NEW a \in S, NEW b \in S, NEW c \in S, NEW d \in S, NEW e \in S, NEW f \in S,
           NEW s, s = <<a, b, c>> \o <<d, e, f>>
    PROVE  /\ s \in Seq(S) /\ Len(s) = 6
           /\ s[1] = a /\ s[2] = b /\ s[3] = c /\ s[4] = d /\ s[5] = e /\ s[6] = f
<1> PICK t, u : t = <<a, b, c>> /\ u = <<d, e, f>>
    OBVIOUS
<1>1. t \in Seq(S) /\ Len(t) = 3 /\ t[1] = a /\ t[2] = b /\ t[3] = c
    OBVIOUS
<1>2. u \in Seq(S) /\ Len(u) = 3 /\ u[1] = d /\ u[2] = e /\ u[3] = f
    OBVIOUS
<1>3. /\ s \in Seq(S) /\ Len(s) = 3 + 3
      /\ \A i \in 1..(3 + 3) : s[i] = IF i <= 3 THEN t[i] ELSE u[i - 3]
    BY <1>1, <1>2, ConcatProperties
<1> QED  BY <1>1, <1>2, <1>3

(* The six writes of the constructor of the board. *)
LEMMA SixWrites ==
    /\ BootWrites \in Seq(ToSet(Colours) \X {0, 255}) /\ Len(BootWrites) = 6
    /\ BootWrites[1] = <<"red", 0>> /\ BootWrites[2] = <<"green", 0>>
    /\ BootWrites[3] = <<"blue", 0>> /\ BootWrites[4] = <<"red", 0>>
    /\ BootWrites[5] = <<"green", 255>> /\ BootWrites[6] = <<"blue", 0>>
<1>1. ASSUME NEW r, NEW g, NEW b
      PROVE  set_brightness(RGB(r, g, b)) = << <<"red", r>>, <<"green", g>>, <<"blue", b>> >>
    <2> PICK v : v = RGB(r, g, b)
        OBVIOUS
    <2>1. v["red"] = r /\ v["green"] = g /\ v["blue"] = b
        BY DEF RGB
    <2> PICK S : S = 1..3
        OBVIOUS
    <2> PICK t : t = << <<"red", r>>, <<"green", g>>, <<"blue", b>> >>
        OBVIOUS
    <2>2. t = [i \in S |-> t[i]] /\ t[1] = <<"red", r>> /\ t[2] = <<"green", g>> /\ t[3] = <<"blue", b>>
        OBVIOUS
    <2>3. \A i \in S : t[i] = <<Colours[i], v[Colours[i]]>>
        BY <2>1, <2>2, ColourNames
    <2>4. t = [i \in S |-> <<Colours[i], v[Colours[i]]>>]
        BY <2>2, <2>3
    <2> QED  BY <2>4 DEF set_brightness
<1>2. set_state("Status", "Off") = << <<"red", 0>>, <<"green", 0>>, <<"blue", 0>> >>
    BY <1>1 DEF set_state
<1>3. set_state("Status", "On") = << <<"red", 0>>, <<"green", 255>>, <<"blue", 0>> >>
    BY <1>1, IndicatorColours DEF set_state
<1> PICK S : S = ToSet(Colours) \X {0, 255}
    OBVIOUS
<1>4. <<"red", 0>> \in S /\ <<"green", 0>> \in S /\ <<"blue", 0>> \in S /\ <<"green", 255>> \in S
    BY ColourNames
<1>5. PICK r \in S, g \in S, b \in S, h \in S :
          r = <<"red", 0>> /\ g = <<"green", 0>> /\ b = <<"blue", 0>> /\ h = <<"green", 255>>
    BY <1>4
<1>6. BootWrites = <<r, g, b>> \o <<r, h, b>>
    BY <1>2, <1>3, <1>5 DEF BootWrites
<1> QED  BY <1>5, <1>6, TwoTriples

(* What RGBIndicator::state makes of the three levels of the led. *)
LEMMA StateIsLit ==
    ASSUME led \in [ToSet(Colours) -> Levels], NEW type \in ToSet(Indicators), NEW levels,
           \A i \in 1..3 : levels[i] = led[Colours[i]]
    PROVE  state(type, levels) = IF Lit(type) THEN "On" ELSE "Off"
<1>1. \E r, g, b : IndicatorMapping[type] = RGB(r, g, b)
    BY IndicatorNames, IndicatorColours
<1>2. PICK r, g, b : IndicatorMapping[type] = RGB(r, g, b)
    BY <1>1
<1>3. RGB(r, g, b)["red"] = r /\ RGB(r, g, b)["green"] = g /\ RGB(r, g, b)["blue"] = b
    BY DEF RGB
<1>4. Lit(type) <=> led["red"] = r /\ led["green"] = g /\ led["blue"] = b
    BY <1>2, ShowsColour DEF Lit
<1>5. (\A i \in 1..3 : levels[i] = IndicatorMapping[type][Colours[i]])
          <=> led["red"] = r /\ led["green"] = g /\ led["blue"] = b
    BY <1>2, <1>3, ColourNames
<1> QED  BY <1>4, <1>5 DEF state

-----------------------------------------------------------------------------
(* The first state, and the steps. *)
LEMMA InitStep == Init => IInv
<1> SUFFICES ASSUME Init PROVE IInv
    OBVIOUS
<1>1. Shape
    BY TemperaturesAssumption DEF Init, Shape, StatusMapping
<1>2. writes \in Seq(ToSet(Colours) \X {0, 255})
    BY SixWrites DEF Init
<1>3. \A d \in Single : text[d] \in Texts[d]
    BY <1>1, SingleNames DEF Shape
<1>4. /\ attached \subseteq Attachable /\ led \in [ToSet(Colours) -> Levels]
      /\ thread \in {"boot", "idle", "poll", "hung", "dead"}
    BY DEF Init
<1>5. /\ remembered.board \in {{"zero"}} \cup SUBSET ToSet(Indicators)
      /\ remembered.hatch \in DOMAIN StatusMapping
      /\ remembered.ds18b20 \in Temperatures /\ remembered.cpu_temp \in Temperatures
    BY <1>1 DEF Shape
<1>6. /\ got \in Seq(Levels) /\ Len(got) < 3
      /\ states \in Seq({"On", "Off"}) /\ Len(states) < 4
    BY DEF Init
<1>7. alone \in BOOLEAN /\ calm \in BOOLEAN
    BY DEF Init
<1>8. TypeOK
    BY <1>2, <1>3, <1>4, <1>5, <1>6, <1>7 DEF TypeOK
<1>9. BootInv
    <2> SUFFICES ASSUME thread = "boot" PROVE BootInv
        BY DEF BootInv
    <2>1. writes = BootWrites
        BY DEF Init
    <2>2. Len(writes) = 6 /\ Written = 0
        BY <2>1, SixWrites DEF Written
    <2>3. \A i \in 1..Len(writes) : writes[i] = BootWrites[i + Written]
        BY <2>1, <2>2
    <2> QED  BY <2>2, <2>3 DEF BootInv
<1>10. PollInv
    BY DEF Init, PollInv
<1> QED  BY <1>1, <1>8, <1>9, <1>10 DEF IInv

(* A thread that has stopped leaves everything as it is. *)
LEMMA StopStep ==
    ASSUME IInv, thread' \in {"dead", "hung"},
           UNCHANGED <<attached, led, text, writes, got, states, remembered, alone, calm>>
    PROVE  IInv'
<1>1. TypeOK' /\ Shape'
    BY DEF IInv, TypeOK, Shape
<1>2. BootInv' /\ PollInv'
    BY DEF IInv, BootInv, PollInv
<1> QED  BY <1>1, <1>2 DEF IInv

(* What the led shows after the next write, if nobody interferes. *)
LEMMA WriteShows ==
    ASSUME IInv, thread = "boot", alone,
           led' = [led EXCEPT ![Head(writes)[1]] = Head(writes)[2]]
    PROVE  /\ led'["red"] = 0
           /\ Written + 1 >= 2 => led'["green"] = IF Written + 1 < 5 THEN 0 ELSE 255
           /\ Written + 1 >= 3 => led'["blue"] = 0
<1> PICK m : m = Len(writes)
    OBVIOUS
<1>1. /\ writes \in Seq(ToSet(Colours) \X {0, 255}) /\ m \in 1..6 /\ Written = 6 - m
      /\ led \in [ToSet(Colours) -> Levels]
    BY DEF IInv, TypeOK, BootInv, Written
<1>2. /\ Written >= 1 => led["red"] = 0
      /\ Written >= 2 => led["green"] = IF Written < 5 THEN 0 ELSE 255
      /\ Written >= 3 => led["blue"] = 0
    BY DEF IInv, BootInv
<1>3. Head(writes) = BootWrites[7 - m]
    <2>1. writes[1] = BootWrites[1 + (6 - m)]
        BY <1>1 DEF IInv, BootInv, Written
    <2>2. Head(writes) = writes[1] /\ 1 + (6 - m) = 7 - m
        BY <1>1
    <2> QED  BY <2>1, <2>2
<1>4. \A c \in {"red", "green", "blue"} :
          led'[c] = IF c = Head(writes)[1] THEN Head(writes)[2] ELSE led[c]
    BY <1>1, ColourNames
<1>5. m \in {1, 2, 3, 4, 5, 6}
    BY <1>1
<1>6. CASE m = 6
    BY <1>1, <1>2, <1>3, <1>4, <1>6, SixWrites
<1>7. CASE m = 5
    BY <1>1, <1>2, <1>3, <1>4, <1>7, SixWrites
<1>8. CASE m = 4
    BY <1>1, <1>2, <1>3, <1>4, <1>8, SixWrites
<1>9. CASE m = 3
    BY <1>1, <1>2, <1>3, <1>4, <1>9, SixWrites
<1>10. CASE m = 2
    BY <1>1, <1>2, <1>3, <1>4, <1>10, SixWrites
<1>11. CASE m = 1
    BY <1>1, <1>2, <1>3, <1>4, <1>11, SixWrites
<1> QED  BY <1>5, <1>6, <1>7, <1>8, <1>9, <1>10, <1>11

LEMMA write_attrStep ==
    ASSUME IInv, write_attr
    PROVE  IInv'
<1>1. CASE Throw
    BY <1>1, StopStep DEF Throw
<1>2. CASE /\ \/ /\ led' = [led EXCEPT ![Head(writes)[1]] = Head(writes)[2]]
                 /\ UNCHANGED alone
              \/ ~calm /\ alone' = FALSE /\ UNCHANGED led
           /\ writes' = Tail(writes)
           /\ thread' = IF Len(writes) = 1 THEN "idle" ELSE "boot"
           /\ UNCHANGED <<attached, text, got, states, remembered, calm>>
    <2> PICK S : S = ToSet(Colours) \X {0, 255}
        OBVIOUS
    <2> PICK m : m = Len(writes)
        OBVIOUS
    <2>1. /\ thread = "boot" /\ got = <<>> /\ states = <<>>
          /\ writes \in Seq(S) /\ m \in 1..6
          /\ \A i \in 1..m : writes[i] = BootWrites[i + (6 - m)]
          /\ led \in [ToSet(Colours) -> Levels]
        BY DEF write_attr, IInv, TypeOK, BootInv, PollInv, Written
    <2>2. /\ writes' \in Seq(S) /\ Len(writes') = m - 1 /\ Head(writes) = writes[1]
          /\ \A i \in 1..(m - 1) : writes'[i] = writes[i + 1]
        BY <1>2, <2>1
    <2>3. Head(writes) \in S /\ Head(writes) = BootWrites[7 - m]
        BY <2>1, <2>2
    <2>4. Head(writes)[1] \in ToSet(Colours) /\ Head(writes)[2] \in Levels
        BY <2>3, LevelsAssumption
    <2>5. led' \in [ToSet(Colours) -> Levels]
        BY <1>2, <2>1, <2>4
    <2>6. alone' \in BOOLEAN /\ (alone' => alone)
        <3>1. alone \in BOOLEAN
            BY DEF IInv, TypeOK
        <3>2. alone' = alone \/ alone' = FALSE
            BY <1>2
        <3>3. CASE alone' = alone
            BY <3>1, <3>3
        <3>4. CASE alone' = FALSE
            BY <3>4
        <3> QED  BY <3>2, <3>3, <3>4
    <2>7. TypeOK' /\ Shape'
        <3>1. thread' \in {"boot", "idle", "poll", "hung", "dead"}
            BY <1>2
        <3> QED  BY <1>2, <2>2, <2>5, <2>6, <3>1 DEF IInv, TypeOK, Shape
    <2>8. PollInv'
        BY <1>2, <2>1 DEF PollInv
    <2>9. BootInv'
        <3> SUFFICES ASSUME thread' = "boot" PROVE BootInv'
            BY DEF BootInv
        <3>4. m # 1
            BY <1>2
        <3>5. Written' = 6 - (m - 1)
            BY <2>2 DEF Written
        <3>6. m \in 1..6
            BY <2>1
        <3>7. 6 - (m - 1) = 7 - m /\ m - 1 \in 1..6
            BY <3>4, <3>6
        <3>1. Written' = 7 - m /\ Len(writes') \in 1..6
            BY <2>2, <3>5, <3>7
        <3>2. \A i \in 1..Len(writes') : writes'[i] = BootWrites[i + Written']
            <4> SUFFICES ASSUME NEW i \in 1..(m - 1) PROVE writes'[i] = BootWrites[i + (7 - m)]
                BY <2>2, <3>1
            <4>1. i + 1 \in 1..m /\ (i + 1) + (6 - m) = i + (7 - m)
                BY <2>1
            <4>2. writes[i + 1] = BootWrites[(i + 1) + (6 - m)]
                BY <2>1, <4>1
            <4> QED  BY <2>2, <4>1, <4>2
        <3>3. ASSUME alone'
              PROVE  /\ Written' >= 1 => led'["red"] = 0
                     /\ Written' >= 2 => led'["green"] = IF Written' < 5 THEN 0 ELSE 255
                     /\ Written' >= 3 => led'["blue"] = 0
            <4>1. /\ led' = [led EXCEPT ![Head(writes)[1]] = Head(writes)[2]]
                  /\ alone
                BY <1>2, <2>6, <3>3
            <4>2. Written' = Written + 1
                BY <2>1, <3>5 DEF Written
            <4> QED  BY <2>1, <4>1, <4>2, WriteShows
        <3> QED  BY <3>1, <3>2, <3>3 DEF BootInv
    <2> QED  BY <2>7, <2>8, <2>9 DEF IInv
<1> QED  BY <1>1, <1>2 DEF write_attr

LEMMA StartPollStep ==
    ASSUME IInv, StartPoll
    PROVE  IInv'
<1>1. /\ got = <<>> /\ states = <<>> /\ thread' = "poll" /\ alone' = TRUE
      /\ UNCHANGED <<attached, led, text, writes, got, states, remembered, calm>>
    BY DEF StartPoll, IInv, PollInv
<1>2. TypeOK'
    <2>1. alone' \in BOOLEAN /\ thread' \in {"boot", "idle", "poll", "hung", "dead"}
        BY <1>1
    <2> QED  BY <1>1, <2>1 DEF IInv, TypeOK
<1>3. Shape' /\ BootInv' /\ PollInv'
    BY <1>1 DEF IInv, Shape, BootInv, PollInv
<1> QED  BY <1>2, <1>3 DEF IInv

(* A poller other than that of the board has read its file.                 *)
LEMMA ValueHasType ==
    ASSUME IInv
    PROVE  /\ value("hatch") \subseteq DOMAIN StatusMapping
           /\ value("ds18b20") \subseteq Temperatures
           /\ value("cpu_temp") \subseteq Temperatures
<1>1. value("hatch") \subseteq DOMAIN StatusMapping
    BY DEF value, status
<1>2. value("ds18b20") \subseteq Temperatures
    BY TemperaturesAssumption DEF value, ds18b20_value
<1>3. value("cpu_temp") \subseteq Temperatures
    BY DEF value, cpu_temp_value
<1> QED  BY <1>1, <1>2, <1>3

LEMMA PollStep ==
    ASSUME IInv, NEW d \in Single, Poll(d)
    PROVE  IInv'
<1>1. CASE \/ Throw
           \/ ReadNeverEnds
           \/ /\ thread' = "dead"
              /\ UNCHANGED <<attached, led, text, writes, got, states, remembered, alone, calm>>
    BY <1>1, StopStep DEF Throw, ReadNeverEnds
<1>2. ASSUME NEW v \in value(d), remembered' = [remembered EXCEPT ![d] = v],
             UNCHANGED <<attached, led, text, thread, writes, got, states, alone, calm>>
      PROVE  IInv'
    <2>1. Shape'
        <3>1. /\ remembered \in [board : {{"zero"}} \cup SUBSET ToSet(Indicators),
                                 hatch : DOMAIN StatusMapping,
                                 ds18b20 : Temperatures, cpu_temp : Temperatures]
              /\ UNCHANGED text
            BY <1>2 DEF IInv, Shape
        <3>2. CASE d = "hatch"
            BY <1>2, <3>1, <3>2, ValueHasType DEF IInv, Shape
        <3>3. CASE d = "ds18b20"
            BY <1>2, <3>1, <3>3, ValueHasType DEF IInv, Shape
        <3>4. CASE d = "cpu_temp"
            BY <1>2, <3>1, <3>4, ValueHasType DEF IInv, Shape
        <3> QED  BY <3>2, <3>3, <3>4, SingleNames
    <2>2. TypeOK'
        <3>1. /\ remembered'.board \in {{"zero"}} \cup SUBSET ToSet(Indicators)
              /\ remembered'.hatch \in DOMAIN StatusMapping
              /\ remembered'.ds18b20 \in Temperatures /\ remembered'.cpu_temp \in Temperatures
            BY <2>1 DEF Shape
        <3> QED  BY <1>2, <3>1 DEF IInv, TypeOK
    <2>3. BootInv' /\ PollInv'
        BY <1>2 DEF IInv, BootInv, PollInv, Written, Lit
    <2> QED  BY <2>1, <2>2, <2>3 DEF IInv
<1> QED  BY <1>1, <1>2 DEF Poll

(* Another program writes to the led. *)
LEMMA LedChangesStep ==
    ASSUME IInv, LedChanges
    PROVE  IInv'
<1>1. PICK c \in ToSet(Colours), l \in Levels : led' = [led EXCEPT ![c] = l]
    BY DEF LedChanges
<1>2. /\ alone' = FALSE
      /\ UNCHANGED <<attached, text, thread, writes, got, states, remembered, calm>>
    BY DEF LedChanges
<1>3. led' \in [ToSet(Colours) -> Levels] /\ alone' \in BOOLEAN
    BY <1>1, <1>2 DEF IInv, TypeOK
<1>4. TypeOK'
    BY <1>2, <1>3 DEF IInv, TypeOK
<1>5. Shape'
    BY <1>2 DEF IInv, Shape
<1>6. BootInv'
    BY <1>2 DEF IInv, BootInv, Written
<1>7. PollInv'
    BY <1>2 DEF IInv, PollInv
<1> QED  BY <1>4, <1>5, <1>6, <1>7 DEF IInv

LEMMA TextChangesStep ==
    ASSUME IInv, NEW d \in Single, TextChanges(d)
    PROVE  IInv'
<1>1. PICK t \in Texts[d] : text' = [text EXCEPT ![d] = t]
    BY DEF TextChanges
<1>2. UNCHANGED <<attached, led, thread, writes, got, states, remembered, alone, calm>>
    BY DEF TextChanges
<1>3. Shape'
    <2>1. text \in [hatch : Texts.hatch, ds18b20 : Texts.ds18b20, cpu_temp : Texts.cpu_temp]
        BY DEF IInv, Shape
    <2>2. text' \in [hatch : Texts.hatch, ds18b20 : Texts.ds18b20, cpu_temp : Texts.cpu_temp]
        BY <1>1, <2>1, SingleNames
    <2> QED  BY <1>2, <2>2 DEF IInv, Shape
<1>4. TypeOK'
    <2>1. \A e \in Single : text'[e] \in Texts[e]
        BY <1>3, SingleNames DEF Shape
    <2> QED  BY <1>2, <2>1 DEF IInv, TypeOK
<1>5. BootInv' /\ PollInv'
    BY <1>2 DEF IInv, BootInv, PollInv, Written, Lit
<1> QED  BY <1>3, <1>4, <1>5 DEF IInv

LEMMA CalmsDownStep ==
    ASSUME IInv, CalmsDown
    PROVE  IInv'
<1>1. /\ calm' = TRUE
      /\ UNCHANGED <<attached, led, text, thread, writes, got, states, remembered, alone>>
    BY DEF CalmsDown
<1>2. calm' \in BOOLEAN
    BY <1>1
<1>3. TypeOK' /\ Shape'
    BY <1>1, <1>2 DEF IInv, TypeOK, Shape
<1>4. BootInv' /\ PollInv'
    BY <1>1 DEF IInv, BootInv, PollInv, Written, Lit
<1> QED  BY <1>3, <1>4 DEF IInv

-----------------------------------------------------------------------------
(* The poll of the board: the levels and the states with the next read.     *)
NextLevels == Append(got, led[Colours[Len(got) + 1]])
NextStates == Append(states, state(Indicators[Len(states) + 1], NextLevels))

OnNow == {Indicators[i] : i \in {j \in 1..4 : NextStates[j] = "On"}}

LEMMA brightnessCases ==
    ASSUME brightness
    PROVE  /\ thread = "poll"
           /\ \/ /\ Len(NextLevels) < 3
                 /\ got' = NextLevels
                 /\ UNCHANGED <<states, thread, remembered>>
              \/ /\ Len(NextLevels) = 3 /\ Len(NextStates) < 4
                 /\ got' = <<>> /\ states' = NextStates
                 /\ UNCHANGED <<thread, remembered>>
              \/ /\ Len(NextLevels) = 3 /\ Len(NextStates) = 4
                 /\ got' = <<>> /\ states' = <<>>
                 /\ thread' = "idle"
                 /\ remembered' = [remembered EXCEPT !.board = OnNow]
           /\ UNCHANGED <<attached, led, text, writes, alone, calm>>
BY DEF brightness, NextLevels, NextStates, OnNow, update

(* Unless somebody interferes, they are the levels and states of the led.   *)
LEMMA ReadSoFar ==
    ASSUME IInv, thread = "poll"
    PROVE  /\ NextLevels \in Seq(Levels) /\ Len(NextLevels) \in 1..3
           /\ NextStates \in Seq({"On", "Off"}) /\ Len(NextStates) \in 1..4
           /\ alone => \A i \in 1..Len(NextLevels) : NextLevels[i] = led[Colours[i]]
           /\ alone /\ Len(NextLevels) = 3 =>
                  \A j \in 1..Len(NextStates) :
                      NextStates[j] = IF Lit(Indicators[j]) THEN "On" ELSE "Off"
<1> PICK g, k : g = Len(got) /\ k = Len(states)
    OBVIOUS
<1>1. /\ got \in Seq(Levels) /\ g \in 0..2
      /\ states \in Seq({"On", "Off"}) /\ k \in 0..3
      /\ led \in [ToSet(Colours) -> Levels]
    BY DEF IInv, TypeOK
<1> PICK l : l = led[Colours[g + 1]]
    OBVIOUS
<1>8. g + 1 \in {1, 2, 3} /\ k + 1 \in 1..4
    <2>1. g \in 0..2 /\ k \in 0..3
        BY <1>1
    <2>2. \A n \in 0..2 : n + 1 \in {1, 2, 3}
        OBVIOUS
    <2>3. \A n \in 0..3 : n + 1 \in 1..4
        OBVIOUS
    <2> QED  BY <2>1, <2>2, <2>3, Zenon
<1>2. l \in Levels
    <2>1. \A n \in {1, 2, 3} : Colours[n] \in ToSet(Colours)
        BY ColourNames
    <2> QED  BY <1>1, <1>8, <2>1
<1>3. /\ NextLevels \in Seq(Levels) /\ Len(NextLevels) = g + 1
      /\ NextLevels[g + 1] = l
      /\ \A i \in 1..g : NextLevels[i] = got[i]
    BY <1>1, <1>2 DEF NextLevels
<1> PICK s : s = state(Indicators[k + 1], NextLevels)
    OBVIOUS
<1>4. s \in {"On", "Off"}
    BY DEF state
<1>5. /\ NextStates \in Seq({"On", "Off"}) /\ Len(NextStates) = k + 1
      /\ NextStates[k + 1] = s
      /\ \A j \in 1..k : NextStates[j] = states[j]
    BY <1>1, <1>4 DEF NextStates
<1>6. ASSUME alone
      PROVE  \A i \in 1..(g + 1) : NextLevels[i] = led[Colours[i]]
    <2>1. \A i \in 1..g : got[i] = led[Colours[i]]
        BY <1>6 DEF IInv, PollInv
    <2> QED  BY <1>1, <1>3, <2>1
<1>7. ASSUME alone, g + 1 = 3
      PROVE  \A j \in 1..(k + 1) : NextStates[j] = IF Lit(Indicators[j]) THEN "On" ELSE "Off"
    <2>1. \A j \in 1..k : states[j] = IF Lit(Indicators[j]) THEN "On" ELSE "Off"
        BY <1>7 DEF IInv, PollInv
    <2>2. Indicators[k + 1] \in ToSet(Indicators)
        BY <1>8, IndicatorNames
    <2>3. \A i \in 1..3 : NextLevels[i] = led[Colours[i]]
        BY <1>6, <1>7
    <2>4. s = IF Lit(Indicators[k + 1]) THEN "On" ELSE "Off"
        BY <1>1, <2>2, <2>3, StateIsLit
    <2> QED  BY <1>1, <1>5, <2>1, <2>4
<1>9. Len(NextLevels) \in 1..3 /\ Len(NextStates) \in 1..4
    BY <1>3, <1>5, <1>8
<1> QED  BY <1>3, <1>5, <1>6, <1>7, <1>9

LEMMA brightnessStep ==
    ASSUME IInv, brightness
    PROVE  IInv'
<1>1. /\ NextLevels \in Seq(Levels) /\ Len(NextLevels) \in 1..3
      /\ NextStates \in Seq({"On", "Off"}) /\ Len(NextStates) \in 1..4
      /\ alone => \A i \in 1..Len(NextLevels) : NextLevels[i] = led[Colours[i]]
      /\ alone /\ Len(NextLevels) = 3 =>
             \A j \in 1..Len(NextStates) :
                 NextStates[j] = IF Lit(Indicators[j]) THEN "On" ELSE "Off"
    BY brightnessCases, ReadSoFar
<1>2. UNCHANGED <<attached, led, text, writes, alone, calm>> /\ thread = "poll"
    BY brightnessCases
<1>3. CASE /\ Len(NextLevels) < 3
           /\ got' = NextLevels
           /\ UNCHANGED <<states, thread, remembered>>
    <2>1. TypeOK' /\ Shape'
        BY <1>1, <1>2, <1>3 DEF IInv, TypeOK, Shape
    <2>2. BootInv'
        BY <1>2, <1>3 DEF BootInv
    <2>3. PollInv'
        BY <1>1, <1>2, <1>3 DEF IInv, PollInv, Lit
    <2> QED  BY <2>1, <2>2, <2>3 DEF IInv
<1>4. CASE /\ Len(NextLevels) = 3 /\ Len(NextStates) < 4
           /\ got' = <<>> /\ states' = NextStates
           /\ UNCHANGED <<thread, remembered>>
    <2>1. TypeOK' /\ Shape'
        BY <1>1, <1>2, <1>4 DEF IInv, TypeOK, Shape
    <2>2. BootInv'
        BY <1>2, <1>4 DEF BootInv
    <2>3. PollInv'
        BY <1>1, <1>2, <1>4 DEF IInv, PollInv, Lit
    <2> QED  BY <2>1, <2>2, <2>3 DEF IInv
<1>5. CASE /\ Len(NextLevels) = 3 /\ Len(NextStates) = 4
           /\ got' = <<>> /\ states' = <<>>
           /\ thread' = "idle"
           /\ remembered' = [remembered EXCEPT !.board = OnNow]
    <2>1. OnNow \in SUBSET ToSet(Indicators)
        BY IndicatorNames DEF OnNow
    <2>2. Shape'
        BY <1>2, <1>5, <2>1 DEF IInv, Shape
    <2>3. TypeOK'
        <3>1. /\ remembered'.board \in {{"zero"}} \cup SUBSET ToSet(Indicators)
              /\ remembered'.hatch \in DOMAIN StatusMapping
              /\ remembered'.ds18b20 \in Temperatures /\ remembered'.cpu_temp \in Temperatures
            BY <2>2 DEF Shape
        <3>2. got' \in Seq(Levels) /\ Len(got') < 3 /\ states' \in Seq({"On", "Off"}) /\ Len(states') < 4
            BY <1>5
        <3> QED  BY <1>2, <1>5, <3>1, <3>2 DEF IInv, TypeOK
    <2>4. BootInv' /\ PollInv'
        BY <1>2, <1>5 DEF BootInv, PollInv
    <2> QED  BY <2>2, <2>3, <2>4 DEF IInv
<1> QED  BY <1>3, <1>4, <1>5, brightnessCases

LEMMA NextStep == IInv /\ [Next]_vars => IInv'
<1> SUFFICES ASSUME IInv, [Next]_vars PROVE IInv'
    OBVIOUS
<1>1. CASE UNCHANGED vars
    BY <1>1 DEF IInv, TypeOK, Shape, BootInv, PollInv, Written, Lit, vars
<1>2. CASE BrightnessFails
    BY <1>2, StopStep DEF BrightnessFails, Throw, ReadNeverEnds
<1>3. CASE Next /\ ~BrightnessFails
    BY <1>3, write_attrStep, StartPollStep, brightnessStep, PollStep, TextChangesStep,
       LedChangesStep, CalmsDownStep DEF Next
<1> QED  BY <1>1, <1>2, <1>3

-----------------------------------------------------------------------------
(* The inductive invariant holds in every state, whatever the hardware and  *)
(* other programs do.                                                       *)
THEOREM Invariance == Spec => []IInv
BY InitStep, NextStep, PTL DEF Spec

(* The files, the boot, the poll and what the pollers remember have their   *)
(* types: the writes of the constructor stay within the three files, a poll *)
(* never reads a fourth colour or a fifth indicator, and no text makes a    *)
(* poller remember what is no state or temperature.                         *)
THEOREM TypeCorrect == Spec => []TypeOK
<1>1. IInv => TypeOK
    BY DEF IInv
<1> QED  BY Invariance, <1>1, PTL

(* A step of the boot that nobody disturbs, and what it leaves of the led.  *)
LEMMA BootStep ==
    ASSUME IInv, thread = "boot", alone', [Next]_vars
    PROVE  \/ led' = led /\ thread' # "idle"
           \/ /\ led'["red"] = 0
              /\ led' \in [ToSet(Colours) -> Levels]
              /\ thread' = "idle" => led'["green"] = 255 /\ led'["blue"] = 0
<1>1. CASE write_attr
    <2>1. CASE Throw
        BY <2>1 DEF Throw
    <2>2. CASE ~Throw
        <3>1. /\ led' = [led EXCEPT ![Head(writes)[1]] = Head(writes)[2]]
              /\ UNCHANGED alone
              /\ thread' = IF Len(writes) = 1 THEN "idle" ELSE "boot"
            BY <1>1, <2>2 DEF write_attr
        <3>2. alone
            BY <3>1
        <3>3. /\ led'["red"] = 0
              /\ Written + 1 >= 2 => led'["green"] = IF Written + 1 < 5 THEN 0 ELSE 255
              /\ Written + 1 >= 3 => led'["blue"] = 0
            BY <3>1, <3>2, WriteShows
        <3>4. ASSUME thread' = "idle" PROVE Written = 5
            <4>1. Len(writes) = 1
                BY <3>1, <3>4
            <4> QED  BY <4>1 DEF Written
        <3>5. led' \in [ToSet(Colours) -> Levels]
            BY <1>1, write_attrStep DEF IInv, TypeOK
        <3> QED  BY <3>3, <3>4, <3>5
    <2> QED  BY <2>1, <2>2
<1>2. CASE UNCHANGED <<led, thread>>
    BY <1>2
<1>3. CASE Next /\ ~write_attr
    <2>1. \/ \E d \in attached \cap Single : TextChanges(d)
          \/ CalmsDown
        BY <1>3 DEF Next, StartPoll, brightness, BrightnessFails, Poll, LedChanges
    <2> QED  BY <1>2, <2>1 DEF TextChanges, CalmsDown
<1>4. CASE UNCHANGED vars
    BY <1>2, <1>4 DEF vars
<1> QED  BY <1>1, <1>3, <1>4

(* Switching the status indicator off and on shows no warning and no fault  *)
(* that was not shown before, whatever levels the led can have.             *)
THEOREM BootRaisesNoAlarm == Spec => NoFalseAlarm
<1>1. ASSUME IInv, [Next]_vars, NEW type \in {"Fault", "Warning"},
             thread = "boot", alone', Lit(type)'
      PROVE  Lit(type)
    <2>1. CASE led' = led
        BY <1>1, <2>1 DEF Lit
    <2>2. CASE led'["red"] = 0 /\ led' \in [ToSet(Colours) -> Levels]
        <3>1. led' = IndicatorMapping[type]
            BY <1>1 DEF Lit
        <3>2. led'["red"] = 255
            <4>1. CASE type = "Fault"
                BY <2>2, <3>1, <4>1, IndicatorColours, ShowsColour
            <4>2. CASE type = "Warning"
                BY <2>2, <3>1, <4>2, IndicatorColours, ShowsColour
            <4> QED  BY <1>1, <4>1, <4>2
        <3> QED  BY <2>2, <3>2
    <2> QED  BY <1>1, <2>1, <2>2, BootStep
<1>2. IInv /\ [Next]_vars =>
          \A type \in {"Fault", "Warning"} :
              thread = "boot" /\ alone' /\ Lit(type)' => Lit(type)
    BY <1>1
<1> QED  BY Invariance, <1>2, PTL DEF Spec, NoFalseAlarm

(* When the constructor of the board returns, the led shows the status and  *)
(* nothing else.                                                            *)
THEOREM BootEndsWithStatus == Spec => StartShowsStatus
<1>1. ASSUME IInv, [Next]_vars, thread = "boot", thread' = "idle", alone'
      PROVE  Truth' = {"Status"}
    <2>1. /\ led'["red"] = 0 /\ led'["green"] = 255 /\ led'["blue"] = 0
          /\ led' \in [ToSet(Colours) -> Levels]
        BY <1>1, BootStep
    <2>2. \A t \in ToSet(Indicators) : led' = IndicatorMapping[t] <=> t = "Status"
        BY <2>1, IndicatorNames, IndicatorColours, ShowsColour
    <2>3. "Status" \in ToSet(Indicators)
        BY IndicatorNames
    <2> QED  BY <2>2, <2>3 DEF Truth, Lit
<1>2. IInv /\ [Next]_vars =>
          (thread = "boot" /\ thread' = "idle" /\ alone' => Truth' = {"Status"})
    BY <1>1
<1> QED  BY Invariance, <1>2, PTL DEF Spec, StartShowsStatus

(* The twelve reads of a poll that nobody disturbs amount to one: it finds  *)
(* exactly what the led shows.                                              *)
THEOREM QuietPollReadsOnce == Spec => QuietPollIsTrue
<1>1. ASSUME IInv, [Next]_vars, thread = "poll", thread' = "idle", alone
      PROVE  remembered'.board = Truth /\ \A t, u \in remembered'.board : t = u
    <2>1. brightness
        BY <1>1 DEF Next, vars, write_attr, StartPoll, BrightnessFails, Throw, ReadNeverEnds, Poll,
                    TextChanges, LedChanges, CalmsDown
    <2>2. /\ Len(NextLevels) = 3 /\ Len(NextStates) = 4
          /\ remembered' = [remembered EXCEPT !.board = OnNow]
        BY <1>1, <2>1, brightnessCases
    <2>3. remembered'.board = OnNow
        BY <1>1, <2>2 DEF IInv, Shape
    <2>4. \A j \in 1..4 : NextStates[j] = IF Lit(Indicators[j]) THEN "On" ELSE "Off"
        BY <1>1, <2>2, ReadSoFar
    <2>5. OnNow = Truth
        BY <2>4, IndicatorNames DEF OnNow, Truth
    <2>6. led \in [ToSet(Colours) -> Levels]
        BY <1>1 DEF IInv, TypeOK
    <2>7. ASSUME NEW t \in Truth, NEW u \in Truth
          PROVE  t = u
        <3>1. /\ t \in ToSet(Indicators) /\ u \in ToSet(Indicators)
              /\ led = IndicatorMapping[t] /\ led = IndicatorMapping[u]
            BY DEF Truth, Lit
        <3>2. IndicatorMapping[t] = IndicatorMapping[u]
            BY <3>1
        <3> QED  BY <3>1, <3>2, ColoursDiffer
    <2> QED  BY <2>3, <2>5, <2>7
<1>2. IInv /\ [Next]_vars =>
          (thread = "poll" /\ thread' = "idle" /\ alone =>
              remembered'.board = Truth /\ \A t, u \in remembered'.board : t = u)
    BY <1>1
<1> QED  BY Invariance, <1>2, PTL DEF Spec, QuietPollIsTrue

=============================================================================
