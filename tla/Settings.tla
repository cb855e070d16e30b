-------------------------------- MODULE Settings --------------------------------
(***************************************************************************)
(* What the sensor does with its settings (src/main.c, src/io_adc.c): the  *)
(* words a master has written are taken at boot as the thermistor's table, *)
(* the radio channel, the address and the delay before joining, and each   *)
(* temperature becomes an attribute.  How a write reaches flash is the     *)
(* subject of ModbusUsb; here it is one step.                              *)
(*                                                                         *)
(* Delays are counted in half seconds.                                     *)
(***************************************************************************)
EXTENDS RegisterTable, SensorTable, FiniteSets

CONSTANTS
    Tried,          \* Tried[r]: the words a master writes to r
    MaxChanged,     \* so many registers differ from their defaults at a time
    FactoryAddress, \* the address in FICR
    Off             \* of a device without power

Touched == DOMAIN Tried
ASSUME TriedAssumption ==
    /\ Touched \subseteq EESaved
    /\ \A r \in Touched : Tried[r] \subseteq Value
ASSUME MaxChangedAssumption == MaxChanged \in Nat
\* The words are 16 bits wide, and the table is the sensor's.
ASSUME SensorAssumption ==
    /\ RegLast = Reg_End /\ Value \subseteq Word
    /\ EESaved = SensorSaved /\ Writable = SensorWritable
    /\ Allowed = [r \in Reg |-> {w \in Value : Passes(r, w)}]

MAX_SENSOR_IN_ROUTER == 16
INT_SLOTS == 429494         \* 5000 times more does not fit an int
DELAY_POWER_TEST == 25      \* DELAY_FOR_POWER_TEST_MS + DELAY_AFTER_POWER_TEST_MS
TIME_BETWEEN_NEXT_CONNECTION == 10

VARIABLES
    saved,      \* the settings in flash, which RAM shows
    device      \* what the running firmware has taken from them, or Off

vars == <<saved, device>>

--------------------------------------------------------------------------------
\* Settings in use

\* io_adc_init: the parameters of calculate_table_NTC.
NTC_Data(s) ==
    [start |-> int16(s[Reg_NTC_Start_Temperature]),
     step |-> int16(s[Reg_NTC_Step_Temperature]),
     number |-> s[Reg_NTC_Temper_Number_Step]]

\* 1UL << channel, as the set of its bits; shifting by 32 or more is undefined,
\* and this processor shifts everything out.
Channel_Mask(s) ==
    IF s[Reg_Zigbee_Set_Channel] < 32 THEN {s[Reg_Zigbee_Set_Channel]} ELSE {}

Bit(w, i) == (w \div 2^i) % 2 = 1

\* address_and_code_init.
Ieee_Addr(s) ==
    IF Bit(s[Reg_Zigbee_Set_Mode], 0)
    THEN FactoryAddress
    ELSE [i \in 0..7 |-> s[Reg_Zigbee_Addr_0_N_Panel + i] % 256]

\* Mutant: a panel counts like a point.
Bug_NoRouters(panel, point) == panel + point

Slot(panel, point) == point + MAX_SENSOR_IN_ROUTER * panel

\* The sleeps of main before zigbee_enable.
Delay(wait, panel, point) ==
    DELAY_POWER_TEST + 2 * wait
    + TIME_BETWEEN_NEXT_CONNECTION * Slot(panel, point)

\* Mutant: a label is multiplied like a temperature.
Bug_TimesHundred(t) == int16(uint16(t * 100))

\* com_task: value_temp for a temperature or a label.
Published(t) ==
    IF uint16(t) \div 4096 = 7 THEN t ELSE int16(uint16(t * 100))

\* Without a host on USB the start is delayed; a product that overflows the
\* int, which is undefined, may come out as no delay.
Delays(wait, panel, point) ==
    {Delay(wait, panel, point)}
    \cup (IF Slot(panel, point) > INT_SLOTS THEN {0} ELSE {})

Taken(s, usb) ==
    LET wait == s[Reg_Zigbee_Wait_Time_S]
        panel == s[Reg_Zigbee_Addr_0_N_Panel]
        point == s[Reg_Zigbee_Addr_1_N_Sens_Point]
    IN  [ntc : {NTC_Data(s)}, mask : {Channel_Mask(s)}, ieee : {Ieee_Addr(s)},
         at : {<<panel, point>>}, wait : {wait},
         delay : IF usb THEN {0} ELSE Delays(wait, panel, point)]

--------------------------------------------------------------------------------

\* Mutant: boot trusts what flash holds.
Bug_Trusting(s) == s

\* mh_Buf_Init.
Repaired(s) ==
    [r \in EESaved |-> IF Limit_Check(r, s[r]) THEN s[r] ELSE Default[r]]

Defaults == [r \in EESaved |-> Default[r]]
Changed(s) == {r \in EESaved : s[r] # Default[r]}

\* Flash is new, or an older firmware with other limits has left a word there.
Init ==
    /\ \/ saved = Defaults
       \/ \E r \in Touched : \E w \in Tried[r] : saved = [Defaults EXCEPT ![r] = w]
    /\ device = Off

\* A Modbus write that is accepted and saved.
Write(r, w) ==
    /\ device # Off
    /\ Limit_Check_in_Request(r, w) = MBE_NONE
    /\ saved' = [saved EXCEPT ![r] = w]
    /\ Cardinality(Changed(saved')) <= MaxChanged
    /\ UNCHANGED device

\* mh_Factory.
Factory ==
    /\ device # Off
    /\ saved' = Defaults
    /\ UNCHANGED device

\* main, with or without a host on USB.
Boot(usb) ==
    /\ device = Off
    /\ saved' = Repaired(saved)
    /\ device' \in Taken(saved', usb)

PowerOff == device # Off /\ device' = Off /\ UNCHANGED saved

Next ==
    \/ \E r \in Touched : \E w \in Tried[r] : Write(r, w)
    \/ Factory
    \/ \E usb \in BOOLEAN : Boot(usb)
    \/ PowerOff

Spec == Init /\ [][Next]_vars
================================================================================
