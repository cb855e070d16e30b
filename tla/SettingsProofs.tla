---------------------------- MODULE SettingsProofs -----------------------------
(***************************************************************************)
(* For every set of words a master may write or flash may hold: the limits *)
(* in the rows of the table are what the code that uses the words needs.   *)
(***************************************************************************)
EXTENDS SettingsProps, TLAPS

Words == [EESaved -> Value]
InLimits(s) == \A r \in EESaved : Limit_Check(r, s[r])

\* The firmware runs on words that boot has found inside their limits, whatever
\* has been written since.
IInv ==
    /\ saved \in Words
    /\ Running => \E s \in Words, usb \in BOOLEAN : InLimits(s) /\ device \in Taken(s, usb)

--------------------------------------------------------------------------------
(* The invariant *)

LEMMA WordsAreNumbers == \A w \in Word : w \in Int
  <1> DEFINE last == 65535
  <1>1. last \in Int /\ Word = 0..last
    BY DEF Word
  <1> HIDE DEF last
  <1> QED  BY <1>1

LEMMA DefaultsAreWords == Defaults \in Words
  <1>1. \A r \in EESaved : Default[r] \in Value
    BY DefaultAssumption, PermissionAssumption
  <1> QED  BY <1>1 DEF Defaults, Words

\* Boot keeps a word inside its limits and replaces any other by its default.
LEMMA RepairedFits ==
    ASSUME NEW s \in Words
    PROVE  Repaired(s) \in Words /\ InLimits(Repaired(s))
  <1>1. \A r \in EESaved : /\ r \in Reg /\ s[r] \in Value /\ Default[r] \in Value
                           /\ Default[r] \in Allowed[r]
    BY DefaultAssumption, PermissionAssumption DEF Words
  <1> QED  BY <1>1 DEF Repaired, Words, InLimits, Limit_Check

LEMMA Starts == Init => IInv
  <1> SUFFICES ASSUME Init PROVE saved \in Words /\ ~Running
    BY DEF IInv
  <1>1. Defaults \in Words
    BY DefaultsAreWords
  <1>2. ASSUME NEW r \in Touched, NEW w \in Tried[r]
        PROVE  [Defaults EXCEPT ![r] = w] \in Words
    BY <1>1, TriedAssumption DEF Words
  <1> QED  BY <1>1, <1>2 DEF Init, Running

LEMMA Inductive == IInv /\ [Next]_vars => IInv'
  <1> SUFFICES ASSUME IInv, [Next]_vars PROVE IInv'
    OBVIOUS
  <1>1. ASSUME NEW r \in Touched, NEW w \in Tried[r], Write(r, w)
        PROVE  IInv'
    <2>1. saved' \in Words
      BY <1>1, TriedAssumption DEF Write, IInv, Words
    <2> QED  BY <1>1, <2>1 DEF Write, IInv, Running
  <1>2. CASE Factory
    BY <1>2, DefaultsAreWords DEF Factory, IInv, Running
  <1>3. ASSUME NEW usb \in BOOLEAN, Boot(usb)
        PROVE  IInv'
    <2>1. saved' \in Words /\ InLimits(saved') /\ device' \in Taken(saved', usb)
      BY <1>3, RepairedFits DEF Boot, IInv
    <2> QED  BY <2>1 DEF IInv
  <1>4. CASE PowerOff
    BY <1>4 DEF PowerOff, IInv, Running
  <1>5. CASE UNCHANGED vars
    BY <1>5 DEF vars, IInv, Running
  <1> QED  BY <1>1, <1>2, <1>3, <1>4, <1>5 DEF Next

--------------------------------------------------------------------------------
(* The rows of the table *)

\* What the limits say of the words that are used.
LEMMA Rows ==
    ASSUME NEW s \in Words, InLimits(s)
    PROVE  /\ \A r \in EESaved : s[r] \in Word
           /\ 11 <= s[Reg_Zigbee_Set_Channel] /\ s[Reg_Zigbee_Set_Channel] <= 26
           /\ -40 <= int16(s[Reg_NTC_Start_Temperature])
           /\ int16(s[Reg_NTC_Start_Temperature]) <= 20
           /\ 1 <= s[Reg_NTC_Step_Temperature] /\ s[Reg_NTC_Step_Temperature] <= 5
           /\ 0 <= s[Reg_NTC_Temper_Number_Step]
           /\ s[Reg_NTC_Temper_Number_Step] <= SIZE_NTC_TABLE
  <1>1. ASSUME NEW r \in EESaved
        PROVE  s[r] \in Word /\ Passes(r, s[r])
    <2>1. r \in Reg /\ s[r] \in Value /\ s[r] \in Allowed[r]
      BY PermissionAssumption DEF Words, InLimits, Limit_Check
    <2> QED  BY <2>1, SensorAssumption
  <1>2. ASSUME NEW lim \in Limits, lim.reg \in EESaved
        PROVE  Within(lim, s[lim.reg])
    BY <1>1, <1>2 DEF Passes
  <1>3. /\ Reg_Zigbee_Set_Channel \in EESaved /\ Reg_NTC_Start_Temperature \in EESaved
        /\ Reg_NTC_Step_Temperature \in EESaved /\ Reg_NTC_Temper_Number_Step \in EESaved
    BY SensorAssumption DEF SensorSaved, Reg_Zigbee_Set_Channel, Reg_NTC_Start_Temperature,
          Reg_NTC_Step_Temperature, Reg_NTC_Temper_Number_Step
  <1>4. ASSUME NEW r \in EESaved, NEW min, NEW max, Unsigned(r, min, max) \in Limits
        PROVE  min <= s[r] /\ s[r] <= max
    BY <1>2, <1>4 DEF Unsigned, Within
  <1>5. ASSUME NEW r \in EESaved, NEW min, NEW max, Signed(r, min, max) \in Limits
        PROVE  min <= int16(s[r]) /\ int16(s[r]) <= max
    BY <1>2, <1>5 DEF Signed, Within
  <1>6. 11 <= s[Reg_Zigbee_Set_Channel] /\ s[Reg_Zigbee_Set_Channel] <= 26
    BY <1>3, <1>4 DEF Limits
  <1>7. /\ -40 <= int16(s[Reg_NTC_Start_Temperature])
        /\ int16(s[Reg_NTC_Start_Temperature]) <= 20
    BY <1>3, <1>5 DEF Limits
  <1>8. 1 <= s[Reg_NTC_Step_Temperature] /\ s[Reg_NTC_Step_Temperature] <= 5
    BY <1>3, <1>4 DEF Limits
  <1>9. /\ 0 <= s[Reg_NTC_Temper_Number_Step]
        /\ s[Reg_NTC_Temper_Number_Step] <= SIZE_NTC_TABLE
    BY <1>3, <1>4 DEF Limits
  <1> QED  BY <1>1, <1>6, <1>7, <1>8, <1>9

\* The parameters of the thermistor's table.
LEMMA TableParameters ==
    ASSUME IInv, Running
    PROVE  /\ device.ntc.number \in 0..SIZE_NTC_TABLE
           /\ device.ntc.step \in 1..5
           /\ device.ntc.start \in -40..20
  <1>1. PICK s \in Words : InLimits(s) /\ \E usb \in BOOLEAN : device \in Taken(s, usb)
    BY DEF IInv
  <1>2. device.ntc = NTC_Data(s)
    BY <1>1 DEF Taken
  <1>3. /\ s[Reg_NTC_Start_Temperature] \in Word /\ s[Reg_NTC_Step_Temperature] \in Word
        /\ s[Reg_NTC_Temper_Number_Step] \in Word
    BY <1>1, Rows, SensorAssumption DEF SensorSaved, Reg_NTC_Start_Temperature,
          Reg_NTC_Step_Temperature, Reg_NTC_Temper_Number_Step
  <1> DEFINE start == s[Reg_NTC_Start_Temperature]
             step == s[Reg_NTC_Step_Temperature]
             number == s[Reg_NTC_Temper_Number_Step]
  <1>4. /\ -40 <= int16(start) /\ int16(start) <= 20
        /\ 1 <= step /\ step <= 5 /\ 0 <= number /\ number <= SIZE_NTC_TABLE
    BY <1>1, Rows
  <1>5. start \in Int /\ step \in Int /\ number \in Int
    <2>1. \A w \in Word : w \in Int
      BY WordsAreNumbers
    <2> QED  BY <1>3, <2>1
  <1>6. device.ntc = [start |-> int16(start), step |-> int16(step), number |-> number]
    BY <1>2 DEF NTC_Data
  <1> HIDE DEF start, step, number
  <1>7. int16(step) \in 1..5 /\ int16(start) \in -40..20
    BY <1>4, <1>5 DEF int16
  <1>8. number \in 0..SIZE_NTC_TABLE
    BY <1>4, <1>5 DEF SIZE_NTC_TABLE
  <1> QED  BY <1>6, <1>7, <1>8

--------------------------------------------------------------------------------
(* Arithmetic of 16 bits *)

\* Converting to unsigned and back changes nothing that fits.
LEMMA SignedAndBack ==
    ASSUME NEW v \in Int, -32768 <= v, v <= 32767
    PROVE  int16(uint16(v)) = v
  <1>1. CASE v < 0
    <2>1. v % 65536 = v + 65536
      BY <1>1, SMT
    <2> QED  BY <1>1, <2>1 DEF int16, uint16
  <1>2. CASE v >= 0
    <2>1. v % 65536 = v
      BY <1>2, SMT
    <2> QED  BY <1>2, <2>1 DEF int16, uint16
  <1> QED  BY <1>1, <1>2

LEMMA UnsignedAndBack ==
    ASSUME NEW v \in Int
    PROVE  uint16(int16(uint16(v))) = uint16(v)
  <1> DEFINE u == v % 65536
  <1>1. u \in Int /\ 0 <= u /\ u < 65536
    BY SMT
  <1> HIDE DEF u
  <1>2. \A w \in Int : 0 <= w /\ w < 65536 => w % 65536 = w
    BY SMT
  <1>3. \A w \in Int : w < 0 /\ w >= -65536 => w % 65536 = w + 65536
    BY SMT
  <1>4. u % 65536 = u
    BY <1>1, <1>2
  <1>5. (u - 65536) % 65536 = u
    <2>1. u - 65536 \in Int /\ u - 65536 < 0 /\ u - 65536 >= -65536
      BY <1>1
    <2> QED  BY <1>1, <1>3, <2>1
  <1> QED  BY <1>4, <1>5 DEF int16, uint16, u

\* Two places have two numbers.
LEMMA SlotsDiffer ==
    ASSUME NEW p \in 0..255, NEW a \in 0..15, NEW q \in 0..255, NEW b \in 0..15,
           q # p \/ b # a
    PROVE  /\ Slot(p, a) \in Nat /\ Slot(q, b) \in Nat
           /\ Slot(p, a) < Slot(q, b) \/ Slot(q, b) < Slot(p, a)
  <1>1. Slot(p, a) = a + 16 * p /\ Slot(q, b) = b + 16 * q
    BY DEF Slot, MAX_SENSOR_IN_ROUTER
  <1>2. /\ p \in Int /\ 0 <= p /\ a \in Int /\ 0 <= a /\ a < 16
        /\ q \in Int /\ 0 <= q /\ b \in Int /\ 0 <= b /\ b < 16
    OBVIOUS
  <1>3. a + 16 * p # b + 16 * q
    BY <1>2
  <1> QED  BY <1>1, <1>2, <1>3

\* A temperature of the table is never taken for a label.
LEMMA PublishedTemperature ==
    ASSUME NEW t \in -40..850
    PROVE  /\ t <= 327 => Published(t) = 100 * t
           /\ uint16(Published(t)) \notin Label
  <1>1. uint16(t) = IF t < 0 THEN t + 65536 ELSE t
    BY SMT DEF uint16
  <1>2. uint16(t) \div 4096 # 7
    BY <1>1, SMT
  <1>3. Published(t) = int16(uint16(100 * t))
    <2>1. t * 100 = 100 * t
      OBVIOUS
    <2> QED  BY <1>2, <2>1 DEF Published
  <1>4. t <= 327 => Published(t) = 100 * t
    BY <1>3, SignedAndBack
  <1>5. uint16(Published(t)) = (100 * t) % 65536
    BY <1>3, UnsignedAndBack DEF uint16
  <1>6. (100 * t) % 65536 = IF t < 0 THEN 100 * t + 65536
                            ELSE IF 100 * t < 65536 THEN 100 * t ELSE 100 * t - 65536
    BY SMT
  <1>7. (100 * t) % 65536 \notin Label
    BY <1>6, SMT DEF Label
  <1> QED  BY <1>4, <1>5, <1>7

--------------------------------------------------------------------------------
(* What the limits guarantee *)

\* Boot never lets a number of steps or a step through that would overrun or
\* flatten the table (io_adc.c:79, measure_NTC.c:44).
THEOREM TableAlwaysFits == Spec => []TableFits
  <1>1. IInv => TableFits
    BY TableParameters DEF TableFits
  <1> QED  BY <1>1, Starts, Inductive, PTL DEF Spec

\* The mask has exactly one channel of the band (main.c:473).
THEOREM ChannelAlwaysUsable == Spec => []ChannelUsable
  <1>1. IInv => ChannelUsable
    <2> SUFFICES ASSUME IInv, Running PROVE \E c \in 11..26 : device.mask = {c}
      BY DEF ChannelUsable
    <2>1. PICK s \in Words : InLimits(s) /\ \E usb \in BOOLEAN : device \in Taken(s, usb)
      BY DEF IInv
    <2>2. device.mask = Channel_Mask(s)
      BY <2>1 DEF Taken
    <2> DEFINE c == s[Reg_Zigbee_Set_Channel]
    <2>3. c \in Word /\ 11 <= c /\ c <= 26
      BY <2>1, Rows, SensorAssumption DEF SensorSaved, Reg_Zigbee_Set_Channel
    <2>4. device.mask = IF c < 32 THEN {c} ELSE {}
      BY <2>2 DEF Channel_Mask
    <2> HIDE DEF c
    <2>5. c \in 11..26 /\ c < 32
      BY <2>3 DEF Word
    <2> QED  BY <2>4, <2>5
  <1> QED  BY <1>1, Starts, Inductive, PTL DEF Spec

\* Sensors of one installation start to join at different times (main.c:490).
THEOREM AlwaysStartApart == Spec => []StartsApart
  <1>1. IInv => StartsApart
    <2> SUFFICES ASSUME IInv, Running, device.delay > 0, device.at \in Installed,
                        NEW panel \in Value, NEW point \in 0..(MAX_SENSOR_IN_ROUTER - 1),
                        <<panel, point>> \in Installed \ {device.at}
                 PROVE  LET other == Delay(device.wait, panel, point)
                        IN  \/ other >= device.delay + TIME_BETWEEN_NEXT_CONNECTION
                            \/ device.delay >= other + TIME_BETWEEN_NEXT_CONNECTION
      BY DEF StartsApart
    <2>1. PICK s \in Words, usb \in BOOLEAN : InLimits(s) /\ device \in Taken(s, usb)
      BY DEF IInv
    <2> DEFINE wait == s[Reg_Zigbee_Wait_Time_S]
               mypanel == s[Reg_Zigbee_Addr_0_N_Panel]
               mypoint == s[Reg_Zigbee_Addr_1_N_Sens_Point]
    <2>2. wait \in Word /\ mypanel \in Word /\ mypoint \in Word
      BY <2>1, Rows, SensorAssumption DEF SensorSaved, Reg_Zigbee_Wait_Time_S,
            Reg_Zigbee_Addr_0_N_Panel, Reg_Zigbee_Addr_1_N_Sens_Point
    <2>3. /\ device.wait = wait /\ device.at = <<mypanel, mypoint>>
          /\ device.delay \in IF usb THEN {0} ELSE Delays(wait, mypanel, mypoint)
      BY <2>1 DEF Taken
    <2> HIDE DEF wait, mypanel, mypoint
    <2>4. device.delay = Delay(wait, mypanel, mypoint)
      BY <2>3 DEF Delays
    <2>5. /\ mypanel \in 0..255 /\ mypoint \in 0..15
          /\ panel \in 0..255 /\ point \in 0..15
          /\ panel # mypanel \/ point # mypoint
      BY <2>3 DEF Installed, MAX_SENSOR_IN_ROUTER
    <2> DEFINE mine == Slot(mypanel, mypoint)
               slot == Slot(panel, point)
    <2>6. mine \in Nat /\ slot \in Nat /\ (mine < slot \/ slot < mine)
      BY <2>5, SlotsDiffer
    <2>7. /\ device.delay = 25 + 2 * wait + 10 * mine
          /\ Delay(device.wait, panel, point) = 25 + 2 * wait + 10 * slot
      BY <2>3, <2>4 DEF Delay, DELAY_POWER_TEST, TIME_BETWEEN_NEXT_CONNECTION
    <2> HIDE DEF mine, slot
    <2>8. wait \in Int
      <3>1. \A w \in Word : w \in Int
        BY WordsAreNumbers
      <3> QED  BY <2>2, <3>1
    <2> QED  BY <2>6, <2>7, <2>8 DEF TIME_BETWEEN_NEXT_CONNECTION
  <1> QED  BY <1>1, Starts, Inductive, PTL DEF Spec

\* With every setting that boot lets through, a published temperature reads back
\* as itself and never as a label (main.c:394).
THEOREM AlwaysReadsBack == Spec => []PublishedReadsBack
  <1>1. ASSUME IInv, Running, NEW k \in 0..device.ntc.number
        PROVE  device.ntc.start + k * device.ntc.step \in -40..850
    <2>1. /\ k \in 0..SIZE_NTC_TABLE
          /\ device.ntc.step \in 1..5 /\ device.ntc.start \in -40..20
      BY <1>1, TableParameters DEF SIZE_NTC_TABLE
    <2>2. k * device.ntc.step \in 0..830
      <3>1. ASSUME NEW n \in 0..166, NEW m \in 1..5 PROVE n * m \in 0..830
        <4>1. m = 1 \/ m = 2 \/ m = 3 \/ m = 4 \/ m = 5
          OBVIOUS
        <4>2. n * 1 \in 0..830 /\ n * 2 \in 0..830 /\ n * 3 \in 0..830
              /\ n * 4 \in 0..830 /\ n * 5 \in 0..830
          OBVIOUS
        <4> QED  BY <4>1, <4>2
      <3>2. k \in 0..166
        BY <2>1 DEF SIZE_NTC_TABLE
      <3> QED  BY <2>1, <3>1, <3>2
    <2> DEFINE rise == k * device.ntc.step
    <2>3. rise \in 0..830
      BY <2>2
    <2> HIDE DEF rise
    <2>4. \A n \in -40..20 : n + rise \in -40..850
      BY <2>3
    <2> QED  BY <2>1, <2>4 DEF rise
  <1>2. \A w \in Label : Published(w) = w
    BY SMT DEF Label, Published, uint16
  <1>3. IInv => PublishedReadsBack
    BY <1>1, <1>2, PublishedTemperature DEF PublishedReadsBack
  <1> QED  BY <1>3, Starts, Inductive, PTL DEF Spec
================================================================================
