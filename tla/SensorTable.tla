------------------------------ MODULE SensorTable ------------------------------
(***************************************************************************)
(* The rows of MAIN_BUF_TABLE (src/modbus_x_macros.h): the values that the *)
(* constants of RegisterTable have in the sensor.  A number without a row  *)
(* is read-only and holds 0.                                               *)
(***************************************************************************)
EXTENDS Integers

Word == 0..65535
uint16(v) == v % 65536
int16(w) == IF w < 32768 THEN w ELSE w - 65536

Reg_Send_Command == 29
Reg_Zigbee_Set_Mode == 40
Reg_Zigbee_Set_Channel == 41
Reg_Zigbee_Wait_Time_S == 42
Reg_Zigbee_Timeout == 47
Reg_Zigbee_Addr_0_N_Panel == 70
Reg_Zigbee_Addr_1_N_Sens_Point == 71
Reg_Zigbee_Code_0 == 80
Reg_NTC_R2_Value_W1 == 90
Reg_NTC_Start_Temperature == 96
Reg_NTC_Step_Temperature == 97
Reg_NTC_Temper_Number_Step == 98
Reg_End == 119

SIZE_NTC_TABLE == 166

SensorSaved ==
    {Reg_Zigbee_Set_Mode, Reg_Zigbee_Set_Channel, Reg_Zigbee_Wait_Time_S,
     Reg_Zigbee_Timeout} \cup 70..77 \cup 80..87 \cup 90..98
SensorWritable == SensorSaved \cup {Reg_Send_Command}

--------------------------------------------------------------------------------

Unsigned(r, min, max) == [reg |-> r, min |-> min, max |-> max, signed |-> FALSE]
Signed(r, min, max) == [reg |-> r, min |-> min, max |-> max, signed |-> TRUE]

\* Mutant: the row of the channel has lost its LIM_UNSIGN.
Bug_ChannelUnlimited ==
    { Unsigned(Reg_Zigbee_Timeout, 1, 14),
      Signed(Reg_NTC_Start_Temperature, -40, 20),
      Unsigned(Reg_NTC_Step_Temperature, 1, 5),
      Unsigned(Reg_NTC_Temper_Number_Step, 0, SIZE_NTC_TABLE) }

\* The rows with a limit bit.  The others have Min and Max columns that nothing
\* looks at; no row has both bits (LIM_MASK).
Limits ==
    { Unsigned(Reg_Zigbee_Set_Channel, 11, 26),
      Unsigned(Reg_Zigbee_Timeout, 1, 14),
      Signed(Reg_NTC_Start_Temperature, -40, 20),
      Unsigned(Reg_NTC_Step_Temperature, 1, 5),
      Unsigned(Reg_NTC_Temper_Number_Step, 0, SIZE_NTC_TABLE) }

Within(l, w) ==
    LET v == IF l.signed THEN int16(w) ELSE w
    IN  l.min <= v /\ v <= l.max
Passes(r, w) == \A l \in Limits : l.reg = r => Within(l, w)

Address == <<0, 1, 244, 206, 71, 202, 54, 91>>
Code == <<258, 772, 1286, 1800, 2314, 2828, 3342, 3857>>
Ntc == <<50000, 0, 20000, 0, 3950, 25, uint16(-10), 1, 136>>

DefaultOf(r) ==
    CASE r = Reg_Zigbee_Set_Mode    -> 2
      [] r = Reg_Zigbee_Set_Channel -> 16
      [] r = Reg_Zigbee_Wait_Time_S -> 10
      [] r = Reg_Zigbee_Timeout     -> 6
      [] r \in 70..77               -> Address[r - 69]
      [] r \in 80..87               -> Code[r - 79]
      [] r \in 90..98               -> Ntc[r - 89]
      [] OTHER                      -> 0
================================================================================
