--------------------------------- MODULE CdcAcm --------------------------------
(***************************************************************************)
(* The USB serial port under the Modbus slave: the part of Zephyr's        *)
(* cdc_acm.c that decides when uart_usb_interrupt_handler runs and what it *)
(* finds (read in msd_zigbee_52840/zephyr/zephyr.lst).                     *)
(*                                                                         *)
(* The receive ring buffer holds at most one thing here: what one read of  *)
(* the handler returns.  The handler takes no account of frame boundaries, *)
(* so a second frame that arrives before the first is read makes both one  *)
(* chunk whose CRC is wrong (the residue of the first frame is 0, and the  *)
(* CRC of the second starts from 0xFFFF): Garbled.                         *)
(***************************************************************************)
CONSTANTS
    Request,    \* the Modbus requests a master may send
    NoData,     \* the ring buffer is empty
    Garbled,    \* at least MB_FRAME_MIN bytes that are no frame
    Short       \* fewer than MB_FRAME_MIN bytes

ASSUME ChunkAssumption ==
    /\ {NoData, Garbled, Short} \cap Request = {}
    /\ NoData # Garbled /\ NoData # Short /\ Garbled # Short

Chunk == Request \cup {Garbled, Short}

VARIABLES
    rx_ring,                    \* rx_ringbuf
    rx_ready, tx_ready,         \* the two readiness flags of the driver
    rx_irq_ena, tx_irq_ena,     \* the two enable flags the application sets
    configured, suspended,      \* the state of the USB interface
    cb_work                     \* the callback is on the USB work queue

cdcVars == <<rx_ring, rx_ready, tx_ready, rx_irq_ena, tx_irq_ena,
             configured, suspended, cb_work>>

CdcTypeOK ==
    /\ rx_ring \in Chunk \cup {NoData}
    /\ {rx_ready, tx_ready, rx_irq_ena, tx_irq_ena} \subseteq BOOLEAN
    /\ {configured, suspended, cb_work} \subseteq BOOLEAN

\* After a reset nothing of the port survives.
CdcInit ==
    /\ rx_ring = NoData
    /\ rx_ready = FALSE /\ tx_ready = FALSE
    /\ rx_irq_ena = FALSE /\ tx_irq_ena = FALSE
    /\ configured = FALSE /\ suspended = FALSE
    /\ cb_work = FALSE

CdcReset ==
    /\ rx_ring' = NoData
    /\ rx_ready' = FALSE /\ tx_ready' = FALSE
    /\ rx_irq_ena' = FALSE /\ tx_irq_ena' = FALSE
    /\ configured' = FALSE /\ suspended' = FALSE
    /\ cb_work' = FALSE

\* uart_irq_is_pending: the condition of the handler's loop.
IrqPending == (tx_ready /\ tx_irq_ena) \/ (rx_ready /\ rx_irq_ena)

--------------------------------------------------------------------------------
\* The USB bus

\* A packet arrives from the host.
cdc_acm_read_cb(chunk) ==
    /\ configured /\ ~suspended
    /\ rx_ring' = IF rx_ring = NoData THEN chunk ELSE Garbled
    /\ rx_ready' = TRUE
    /\ cb_work' = (cb_work \/ rx_irq_ena)
    /\ UNCHANGED <<tx_ready, rx_irq_ena, tx_irq_ena, configured, suspended>>

\* The host has taken the data of the last fill.
cdc_acm_write_cb ==
    /\ configured /\ ~suspended /\ ~tx_ready
    /\ tx_ready' = TRUE
    /\ cb_work' = (cb_work \/ tx_irq_ena)
    /\ UNCHANGED <<rx_ring, rx_ready, rx_irq_ena, tx_irq_ena, configured, suspended>>

\* USB_DC_CONFIGURED; a suspended bus resumes before it carries a request.
BusConfigured ==
    /\ ~configured /\ ~suspended
    /\ configured' = TRUE
    /\ tx_ready' = TRUE
    /\ cb_work' = (cb_work \/ (~tx_ready /\ tx_irq_ena))
    /\ UNCHANGED <<rx_ring, rx_ready, rx_irq_ena, tx_irq_ena, suspended>>

\* USB_DC_RESET and USB_DC_DISCONNECTED: the flags go, the ring buffer, the
\* enable flags and the queued work stay.
cdc_acm_reset_port ==
    /\ configured \/ suspended
    /\ configured' = FALSE /\ suspended' = FALSE
    /\ rx_ready' = FALSE /\ tx_ready' = FALSE
    /\ UNCHANGED <<rx_ring, rx_irq_ena, tx_irq_ena, cb_work>>

\* USB_DC_SUSPEND
BusSuspended ==
    /\ ~suspended
    /\ suspended' = TRUE
    /\ UNCHANGED <<rx_ring, rx_ready, tx_ready, rx_irq_ena, tx_irq_ena,
                   configured, cb_work>>

\* USB_DC_RESUME
BusResumed ==
    /\ suspended
    /\ suspended' = FALSE
    /\ UNCHANGED <<rx_ring, rx_ready, tx_ready, rx_irq_ena, tx_irq_ena,
                   configured, cb_work>>

Bus ==
    \/ \E chunk \in Chunk : cdc_acm_read_cb(chunk)
    \/ cdc_acm_write_cb
    \/ BusConfigured \/ cdc_acm_reset_port
    \/ BusSuspended \/ BusResumed
================================================================================
