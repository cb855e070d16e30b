---------------------------- MODULE ZigbeeJoinProps ----------------------------
(***************************************************************************)
(* What joining and recovery promise (module ZigbeeJoin).                  *)
(***************************************************************************)
EXTENDS ZigbeeJoin

\* zi_reboot cancels before it sets: whatever signals arrive, and however late
\* their requests are processed, at most one reconnect alarm is set.
OneReconnectAlarm ==
    \A s, t \in alarms["Recon_timer_cb"] : s = t

\* zb_app_cb_msgq never overflows: zigbee_schedule_alarm would return
\* RET_OVERFLOW and ZB_ERROR_CHECK would reset the device.  That com_task may call
\* user_input_indicate inside the ZBOSS thread's own call is included.
QueueFits == Len(rejoin.requests) <= QueueLength

\* Register 20, read by the Modbus master, tells whether the device is joined as
\* soon as no signal waits, across leaves, resets and failed attempts.
StatusAgrees == signals = <<>> => (connect_status <=> joined)

\* The reconnect alarm erases a stored network only after the rejoin procedure
\* has given up on it: DELAY_TOTAL_ZI_RECONNECT_MS is longer than
\* ZB_DEV_REJOIN_TIMEOUT_MS.  The one exception is a procedure that
\* CODE_CONNECT_BUTTON has restarted, which sets no new alarm.
EraseOnlyAfterGivingUp ==
    [][Recon_timer_cb_erase /\ nvram => (asked \/ rejoin.wait_for_user_input)]_vars

\* A device that is not joined never stops trying: after any history of
\* commands, leaves and USB events it is joined, searches, or starts again.  Only
\* a user who resets it over and over keeps it waiting, as each LEAVE sets the
\* reconnect alarm anew while the rejoin procedure waits for input.
KeepsTrying ==
    \/ []<><<command_control_reset_zigbee>>_vars
    \/ []<>(joined \/ bdb = "steering" \/ ~enabled)
================================================================================
