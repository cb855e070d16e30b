----------------------------- MODULE ModbusUsbProps ----------------------------
(***************************************************************************)
(* What the slave of ModbusUsb guarantees.                                 *)
(***************************************************************************)
EXTENDS ModbusUsb

\* The transmitter is enabled only while a reply waits to be sent.  Otherwise
\* uart_irq_is_pending stays true with nothing to do, and the loop of
\* uart_usb_interrupt_handler never ends.
TxOnlyWhileSending == tx_irq_ena => mb_state = "STATE_SEND"

\* The single MB_USB node is in mh_queue exactly while its buffer holds a frame
\* that was accepted and not yet parsed, and a reply waits unspoilt in the same
\* buffer: the callback appends the node and overwrites the buffer only when
\* MBparsing and the transmitter are both through with them.
OneTransaction ==
    /\ mb_state = "STATE_PARS" <=> mh_queue = 1
    /\ mb_state = "STATE_PARS" => p_mb_buff \in Request \cup {Garbled}
    /\ mb_state = "STATE_SEND" => p_mb_buff \in Reply

\* While mh_Write_Eeprom waits, in flash or in its final delay, no frame is taken:
\* mb_state is back to idle long before, so only eep_state keeps the callback out.
SaveExclusive ==
    mb_pc \in {"nvs_write", "sleep"} => eep_state = "EEP_SAVE" /\ mh_queue = 0

\* Whenever the handler's loop has something to do the callback is on the work
\* queue: no received frame and no reply waits for an event that already passed.
NoLostWakeup == IrqPending => cb_work

\* Once mh_Buf_Init is over every saved register is inside its limits, whatever
\* an older firmware left in flash and whatever a block write carries.
LimitsHold == boot = "done" => \A r \in EESaved : Limit_Check(r, ram[r])

\* The register is still to be saved by a loop that is under way.
Pending(r) ==
    \/ mb_pc = "nvs_write" /\ r \in Window /\ r >= job["MB"].reg
    \/ com_pc = "mh_Factory" /\ r = job["COM"].reg

\* With a flash that works, RAM and flash agree on every saved register that no
\* loop is still saving, so a reset brings back what the master reads.  The one
\* exception is a register whose last nvs_write returned early because its datum
\* equalled an entry which another thread's write was about to replace (missed):
\* mh_Factory and mh_Write_Eeprom may overlap, and nvs_write compares before it
\* takes the lock.
SavedUnlessMissed ==
    boot = "done" =>
        \A r \in EESaved \ missed : Pending(r) \/ stored[r] = ram[r]

\* An exception reply leaves every register as it was and asks for no save: in a
\* block write all the registers are checked before the first is written.
ExceptionIsPure ==
    [][p_mb_buff' \in Reply /\ p_mb_buff' # p_mb_buff /\ p_mb_buff'.exc # MBE_NONE
        => ram' = ram /\ eep_state' = "EEP_FREE"]_vars

\* mh_Buf_Init, cut by any number of resets, never replaces a stored value that
\* is inside the limits of its register.
BootKeepsGoodValues ==
    [][boot # "done" =>
        \A r \in EESaved :
            stored[r] \in Allowed[r] => stored'[r] = stored[r]]_vars

\* The slave as its master sees it: at most one request, one reply and one save
\* outstanding; requests take effect at once, within permissions and limits; a
\* changed saved register is always followed by a save.
Transaction == INSTANCE SlaveTransaction WITH
    up   <- boot = "done",
    bank <- ram,
    owes <- (IF mb_state = "STATE_PARS" THEN {"request"} ELSE {})
            \cup (IF mb_state = "STATE_SEND" THEN {"reply"} ELSE {})
            \cup (IF eep_state = "EEP_SAVE" THEN {"save"} ELSE {})

\* Every step of the threads, the port and the flash is a step of the
\* transaction or leaves it alone.
ImplementsTransaction == Transaction!Spec

\* A save ends and the slave takes requests again, although it may wait for
\* nvs_lock behind mh_Factory and its flash writes may be given up.
SaveEnds == eep_state = "EEP_SAVE" ~> eep_state = "EEP_FREE"

\* com_task carries out and clears every command, even when mh_Factory has to
\* wait for nvs_lock behind a save of the Modbus thread.  This is a com_task that
\* has set up the watchdog; one that could not has returned (main.c:352-387).
CommandCleared == Command # 0 ~> Command = 0

\* A frame that was accepted, good or not, brings the slave back to idle, unless
\* the reply is held up because the host has not taken the previous one or the
\* port was reset.
SlaveReturns ==
    mb_state = "STATE_PARS" ~>
        \/ All_Idle_Check
        \/ mb_state = "STATE_SEND" /\ ~tx_ready
================================================================================
