------------------------------- MODULE MCSettings -------------------------------
(***************************************************************************)
(* The sensor's own table, and for TLC words around the limits.            *)
(***************************************************************************)
EXTENDS SettingsProps, TLC

MCValue ==
    {DefaultOf(r) : r \in 0..Reg_End}
    \cup {1, 2, 3, 5, 6, 10, 11, 15, 20, 21, 26, 27, 166, 167, 255, 256,
          32768, 65495, 65496, 65535}
MCAllowed == [r \in 0..Reg_End |-> {w \in MCValue : Passes(r, w)}]
MCDefault == [r \in 0..Reg_End |-> DefaultOf(r)]

MCTried ==
       Reg_Zigbee_Set_Mode :> {3}
    @@ Reg_Zigbee_Set_Channel :> {10, 11, 26, 27, 65535}
    @@ Reg_Zigbee_Wait_Time_S :> {0}
    @@ Reg_Zigbee_Addr_0_N_Panel :> {255, 65535}
    @@ Reg_Zigbee_Addr_1_N_Sens_Point :> {0, 15}
    @@ Reg_NTC_Start_Temperature :> {20, 21, 65495, 65496}
    @@ Reg_NTC_Step_Temperature :> {0, 5, 6}
    @@ Reg_NTC_Temper_Number_Step :> {0, 166, 167}

MCFactoryAddress == [i \in 0..7 |-> 0]
================================================================================
