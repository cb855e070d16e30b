-------------------------------- MODULE ModbusUsb ------------------------------
(***************************************************************************)
(* The Modbus slave of the sensor and the threads that share its           *)
(* registers: src/modbus_hard.c, the command part of com_task in           *)
(* src/main.c, and the Modbus library they call (modbus.c, modbus_reg.c,   *)
(* user_mem.c, whose source is interleaved in zephyr.lst).                 *)
(*                                                                         *)
(* Four activities run: the USB work queue (uart_usb_interrupt_handler),   *)
(* the Modbus thread (mh_task_Modbus), com_task (command_control and       *)
(* mh_Factory), and main (mh_Buf_Init at boot).  All of them but main are  *)
(* cooperative threads, so an action is everything a thread does from one  *)
(* wait to the next.  The device may be reset between any two actions.     *)
(***************************************************************************)
EXTENDS NvsStore, CdcAcm

CONSTANTS
    Reg_Send_Command,
    CODE_RESET_TO_DEFAULT,  \* the code of mh_Factory
    RestartCodes            \* CODE_RESTART, CODE_HARD_RESET_STACK

\* A request, as FrameParse tells them apart.  val[r] is the word the frame
\* carries for register r.  "BadLength" is a request whose length or byte count
\* does not fit its function, "Other" an unknown function.
Function == {"Read", "WriteOne", "WriteMany", "BadLength", "Other"}
Frame == [fn : Function, broadcast : BOOLEAN, start : Nat, count : Nat,
          val : [Reg -> Value]]

ASSUME RequestAssumption ==
    /\ Request \subseteq Frame
    /\ \A f \in Request : f.fn = "WriteOne" => f.count = 1
    /\ \A f \in Request : f.fn = "WriteMany" => f.count > 0
ASSUME CommandAssumption ==
    /\ Reg_Send_Command \in Writable \ EESaved
    /\ 0 \notin RestartCodes \cup {CODE_RESET_TO_DEFAULT}
    /\ CODE_RESET_TO_DEFAULT \notin RestartCodes

VARIABLES
    mb_state,                   \* MB_USB.MB_data.mb_state
    p_mb_buff,                  \* the live contents of USB_MB_Buf
    mh_queue,                   \* how often MB_USB is in the queue
    eep_state,                  \* MB_USB.MB_data.eep_state
    eep_start_save, eep_indx,   \* the block mh_Write_Eeprom saves
    mb_pc,                      \* where mh_task_Modbus waits
    com_pc,                     \* where com_task waits
    boot                        \* where main is with mh_Buf_Init

mbVars == <<mb_state, p_mb_buff, mh_queue, eep_state, eep_start_save, eep_indx>>
pcVars == <<mb_pc, com_pc, boot>>
vars == <<ram, nvsVars, cdcVars, mbVars, pcVars>>

Reply == [exc : Exception, data : UNION {[S -> Value] : S \in SUBSET Reg}]

\* What the callback leaves in an empty or spoilt buffer is no reply.
ASSUME BufferAssumption == {NoData, Garbled} \cap Reply = {}

TypeOK ==
    /\ NvsTypeOK
    /\ CdcTypeOK
    /\ mb_state \in {"STATE_IDLE", "STATE_PARS", "STATE_SEND"}
    /\ p_mb_buff \in Request \cup {Garbled, NoData} \cup Reply
    /\ mh_queue \in 0..1
    /\ eep_state \in {"EEP_FREE", "EEP_SAVE"}
    /\ eep_start_save \in Nat /\ eep_indx \in Nat
    /\ mb_pc \in {"start", "queue_get", "nvs_write", "sleep"}
    /\ com_pc \in {"sleep", "mh_Factory"}
    /\ boot \in {"start", "mh_Buf_Init", "done"}

--------------------------------------------------------------------------------
\* Reset and boot

\* Everything in RAM as the C runtime leaves it.
MemoryCleared ==
    /\ ram' = [r \in Reg |-> 0]
    /\ mb_state' = "STATE_IDLE" /\ p_mb_buff' = NoData /\ mh_queue' = 0
    /\ eep_state' = "EEP_FREE" /\ eep_start_save' = 0 /\ eep_indx' = 0
    /\ mb_pc' = "start" /\ com_pc' = "sleep" /\ boot' = "start"

Init ==
    /\ NvsInit
    /\ CdcInit
    /\ ram = [r \in Reg |-> 0]
    /\ mb_state = "STATE_IDLE" /\ p_mb_buff = NoData /\ mh_queue = 0
    /\ eep_state = "EEP_FREE" /\ eep_start_save = 0 /\ eep_indx = 0
    /\ mb_pc = "start" /\ com_pc = "sleep" /\ boot = "start"

\* A reset: power, the watchdog, or sys_reboot in any thread.
Reset == MemoryCleared /\ Nvs_Reset /\ CdcReset

\* Mutant: the first boot's defaults are loaded at every boot.
Bug_AlwaysDefault == [r \in EESaved |-> Default[r]]

\* What mh_Buf_Init leaves in RAM: the stored value, or the default when there
\* is none or the stored one is outside the limits.
Loaded ==
    [r \in EESaved |->
        IF stored[r] # NotFound /\ Limit_Check(r, stored[r])
        THEN stored[r] ELSE Default[r]]

\* main runs the loop of mh_Buf_Init over the registers of S.
BufInitFrom(S, img) ==
    /\ stored' = img
    /\ ram' = Assigned(S, Loaded, img)
    /\ Loop("MAIN", S, Loaded, img, "none")
    /\ boot' = IF Dirty(S, Loaded, img) = {} THEN "done" ELSE "mh_Buf_Init"
    /\ UNCHANGED <<cdcVars, mbVars, mb_pc, com_pc>>

mh_Buf_Init == boot = "start" /\ BufInitFrom(EESaved, stored)

mh_Buf_Init_Written ==
    /\ boot = "mh_Buf_Init" /\ Writing("MAIN")
    /\ \E img \in Outcome("MAIN") :
          BufInitFrom({r \in EESaved : r > job["MAIN"].reg}, img)

--------------------------------------------------------------------------------
\* The callback of the USB serial port

\* Mutants: one of the two halves of the check is forgotten.
Bug_IdleIgnoresReply == eep_state = "EEP_FREE"
Bug_IdleIgnoresSave == mb_state = "STATE_IDLE"

All_Idle_Check == eep_state = "EEP_FREE" /\ mb_state = "STATE_IDLE"

\* The handler takes the received bytes as a frame.
Accepts == rx_ready /\ rx_ring # Short /\ All_Idle_Check

\* The handler hands the reply to the port, which ignores it while suspended.
Sends == tx_irq_ena /\ tx_ready /\ mb_state = "STATE_SEND"

\* One turn of the handler's loop: it reads what there is, keeps it or drops
\* it, then sends.
uart_usb_interrupt_handler ==
    /\ cb_work /\ IrqPending
    /\ rx_ring' = IF rx_ready THEN NoData ELSE rx_ring
    /\ rx_ready' = FALSE
    /\ p_mb_buff' = CASE Accepts -> rx_ring
                      [] ~Accepts /\ Sends -> NoData
                      [] OTHER -> p_mb_buff
    /\ mb_state' = CASE Accepts -> "STATE_PARS"
                     [] ~Accepts /\ Sends -> "STATE_IDLE"
                     [] OTHER -> mb_state
    /\ mh_queue' = IF Accepts THEN mh_queue + 1 ELSE mh_queue
    /\ tx_ready' = (tx_ready /\ (~Sends \/ suspended))
    /\ tx_irq_ena' = (tx_irq_ena /\ ~Sends)
    /\ UNCHANGED <<rx_irq_ena, configured, suspended, cb_work>>
    /\ UNCHANGED <<ram, nvsVars, eep_state, eep_start_save, eep_indx, pcVars>>

\* Nothing is pending: the callback returns.
uart_usb_interrupt_return ==
    /\ cb_work /\ ~IrqPending
    /\ cb_work' = FALSE
    /\ UNCHANGED <<rx_ring, rx_ready, tx_ready, rx_irq_ena, tx_irq_ena,
                   configured, suspended>>
    /\ UNCHANGED <<ram, nvsVars, mbVars, pcVars>>

--------------------------------------------------------------------------------
\* FrameParse

Block(f) == f.start..(f.start + f.count - 1)
Writes(f) == f.fn \in {"WriteOne", "WriteMany"}
OutOfRange(f) == f.start > RegLast \/ f.start + f.count - 1 > RegLast

\* Mutant: only the first register of a block is checked.
Bug_ChecksFirstOnly(f) ==
    {r \in {f.start} : Limit_Check_in_Request(r, f.val[r]) # MBE_NONE}

\* The registers of a write that may not take their value.
Refused(f) == {r \in Block(f) : Limit_Check_in_Request(r, f.val[r]) # MBE_NONE}

ExceptionOf(f) ==
    CASE f.fn = "Other" -> MBE_ILLEGAL_FUNCTION
      [] f.fn = "BadLength" -> MBE_ILLEGAL_DATA_VALUE
      [] f.fn \in {"Read", "WriteOne", "WriteMany"} /\ OutOfRange(f) ->
            MBE_ILLEGAL_DATA_ADDRESS
      [] Writes(f) /\ ~OutOfRange(f) /\ Refused(f) # {} ->
            Limit_Check_in_Request(First(Refused(f)), f.val[First(Refused(f))])
      [] OTHER -> MBE_NONE

Done(f) == ExceptionOf(f) = MBE_NONE

\* Mutant: a block is written up to the first register that is refused.
Bug_WritesWhileChecking(f) ==
    [r \in Reg |->
        IF /\ Writes(f) /\ ~OutOfRange(f) /\ r \in Block(f)
           /\ \A q \in Refused(f) : r < q
        THEN f.val[r] ELSE ram[r]]

\* RAM after the request: all of a block or nothing.
WrittenRam(f) ==
    [r \in Reg |-> IF Writes(f) /\ Done(f) /\ r \in Block(f) THEN f.val[r] ELSE ram[r]]

\* The block is noted before the limits are checked; an exception frees it.
NotesBlock(f) ==
    /\ Writes(f) /\ ~OutOfRange(f)
    /\ Eeprom_Check_in_Request(f.start, f.count) = "EEP_SAVE"
Saves(f) == NotesBlock(f) /\ Done(f)

ReplyTo(f) ==
    [exc  |-> ExceptionOf(f),
     data |-> [r \in IF f.fn = "Read" /\ Done(f) THEN Block(f) ELSE {} |-> ram[r]]]

--------------------------------------------------------------------------------
\* The Modbus thread

\* Callback set, and after two seconds the receiver enabled.
mh_task_Modbus_start ==
    /\ boot = "done" /\ mb_pc = "start"
    /\ mb_pc' = "queue_get"
    /\ rx_irq_ena' = TRUE
    /\ cb_work' = (cb_work \/ rx_ready)
    /\ UNCHANGED <<rx_ring, rx_ready, tx_ready, tx_irq_ena, configured, suspended>>
    /\ UNCHANGED <<ram, nvsVars, mbVars, com_pc, boot>>

InvalidFrame == p_mb_buff \notin Request \/ eep_state # "EEP_FREE"

MBparsing_Invalid ==
    /\ mb_pc = "queue_get" /\ mh_queue > 0
    /\ InvalidFrame
    /\ mh_queue' = mh_queue - 1
    /\ mb_state' = "STATE_IDLE"
    /\ p_mb_buff' = NoData
    /\ UNCHANGED <<ram, nvsVars, cdcVars, eep_state, eep_start_save, eep_indx, pcVars>>

\* Mutant: the transmitter is enabled but the callback is not queued.
Bug_EnableOnly == tx_irq_ena' = TRUE /\ cb_work' = cb_work

\* uart_irq_tx_enable
mh_USB_Transmit_Start ==
    /\ tx_irq_ena' = TRUE
    /\ cb_work' = (cb_work \/ tx_ready)

\* mh_Write_Eeprom runs over the registers of S, with RAM as mem.
WriteEepromFrom(S, mem, img, lock) ==
    /\ Loop("MB", S, mem, img, lock)
    /\ mb_pc' = IF Dirty(S, mem, img) = {} THEN "sleep" ELSE "nvs_write"

\* A valid frame: the reply is started, then the registers are saved.
MBparsing(f) ==
    /\ mb_pc = "queue_get" /\ mh_queue > 0
    /\ ~InvalidFrame /\ f = p_mb_buff
    /\ mh_queue' = mh_queue - 1
    /\ ram' = WrittenRam(f)
    /\ eep_state' = IF Saves(f) THEN "EEP_SAVE" ELSE "EEP_FREE"
    /\ eep_start_save' = IF NotesBlock(f) THEN f.start ELSE eep_start_save
    /\ eep_indx' = IF NotesBlock(f) THEN f.count ELSE eep_indx
    /\ mb_state' = IF f.broadcast THEN "STATE_IDLE" ELSE "STATE_SEND"
    /\ p_mb_buff' = IF f.broadcast THEN NoData ELSE ReplyTo(f)
    /\ IF f.broadcast THEN UNCHANGED <<tx_irq_ena, cb_work>> ELSE mh_USB_Transmit_Start
    /\ IF Saves(f)
       THEN WriteEepromFrom(Block(f) \cap EESaved, WrittenRam(f), stored, nvs_lock)
       ELSE UNCHANGED <<nvs_lock, job, missed, mb_pc>>
    /\ UNCHANGED <<stored, com_pc, boot>>
    /\ UNCHANGED <<rx_ring, rx_ready, tx_ready, rx_irq_ena, configured, suspended>>

\* Mutant: the last register of the block is not saved.
Bug_WindowStopsShort == eep_start_save..(eep_start_save + eep_indx - 2)

Window == eep_start_save..(eep_start_save + eep_indx - 1)

\* A flash write of the Modbus thread ends; the loop goes on.
mh_Write_Eeprom_Written ==
    /\ mb_pc = "nvs_write" /\ Writing("MB")
    /\ \E img \in Outcome("MB") :
          /\ stored' = img
          /\ WriteEepromFrom({r \in Window \cap EESaved : r > job["MB"].reg},
                             ram, img, Released("MB"))
    /\ UNCHANGED <<ram, cdcVars, mbVars, com_pc, boot>>

\* Mutant: the slave listens again but the save is never marked as over.
Bug_StaysInSave ==
    /\ mb_pc = "sleep"
    /\ mb_pc' = "queue_get"
    /\ UNCHANGED <<ram, nvsVars, cdcVars, com_pc, boot>>
    /\ UNCHANGED mbVars

\* DELAY_AFTER_EEPROM_WRITE_MS has passed.
mh_Write_Eeprom_return ==
    /\ mb_pc = "sleep"
    /\ eep_state' = "EEP_FREE"
    /\ mb_pc' = "queue_get"
    /\ UNCHANGED <<ram, nvsVars, cdcVars, com_pc, boot>>
    /\ UNCHANGED <<mb_state, p_mb_buff, mh_queue, eep_start_save, eep_indx>>

--------------------------------------------------------------------------------
\* com_task

\* mh_Factory runs over the registers of S; when it returns the command is
\* cleared, whatever it is by then.
FactoryFrom(S, img, lock) ==
    LET over == Dirty(S, Default, img) = {}
        swept == Assigned(S, Default, img)
    IN  /\ stored' = img
        /\ Loop("COM", S, Default, img, lock)
        /\ ram' = IF over THEN [swept EXCEPT ![Reg_Send_Command] = 0] ELSE swept
        /\ com_pc' = IF over THEN "sleep" ELSE "mh_Factory"
        /\ UNCHANGED <<cdcVars, mbVars, mb_pc, boot>>

Command == ram[Reg_Send_Command]
CommandSeen == boot = "done" /\ com_pc = "sleep" /\ Command # 0

mh_Factory == CommandSeen /\ Command = CODE_RESET_TO_DEFAULT
              /\ FactoryFrom(EESaved, stored, nvs_lock)

mh_Factory_Written ==
    /\ com_pc = "mh_Factory" /\ Writing("COM")
    /\ \E img \in Outcome("COM") :
          FactoryFrom({r \in EESaved : r > job["COM"].reg}, img, Released("COM"))

command_control_restart == CommandSeen /\ Command \in RestartCodes /\ Reset

\* The commands to the Zigbee stack, and unknown ones.
command_control_other ==
    /\ CommandSeen
    /\ Command \notin RestartCodes \cup {CODE_RESET_TO_DEFAULT}
    /\ ram' = [ram EXCEPT ![Reg_Send_Command] = 0]
    /\ UNCHANGED <<nvsVars, cdcVars, mbVars, pcVars>>

--------------------------------------------------------------------------------

\* nvs_lock is handed to a thread that waited for it.
Nvs_Lock_Granted(t) == Nvs_Locked(t) /\ UNCHANGED <<cdcVars, mbVars, pcVars>>

Main == mh_Buf_Init \/ mh_Buf_Init_Written
UsbWorkQueue == uart_usb_interrupt_handler \/ uart_usb_interrupt_return
ModbusThread ==
    \/ mh_task_Modbus_start
    \/ MBparsing_Invalid
    \/ \E f \in Request : MBparsing(f)
    \/ Nvs_Lock_Granted("MB")
    \/ mh_Write_Eeprom_Written
    \/ mh_Write_Eeprom_return
ComTask ==
    \/ mh_Factory
    \/ Nvs_Lock_Granted("COM")
    \/ mh_Factory_Written
    \/ command_control_restart
    \/ command_control_other

\* The USB stack is up once main has passed mh_Buf_Init.
UsbBus == boot = "done" /\ Bus /\ UNCHANGED <<ram, nvsVars, mbVars, pcVars>>

Next == Main \/ UsbWorkQueue \/ ModbusThread \/ ComTask \/ UsbBus \/ Reset

Spec == Init /\ [][Next]_vars

\* Every thread that can run does, and a flash write ends: its driver gives up
\* after FLASH_TIMEOUT_MS.  Nothing is assumed of the host, nor of resets.
Fairness ==
    /\ WF_vars(Main) /\ WF_vars(UsbWorkQueue)
    /\ WF_vars(ModbusThread) /\ WF_vars(ComTask)

FairSpec == Spec /\ Fairness
================================================================================
