------------------------------ MODULE ZigbeeJoin ------------------------------
(***************************************************************************)
(* How the device joins its Zigbee network and recovers it (src/main.c     *)
(* 162-272, 311-342, 455-494) on top of the rejoin procedure of            *)
(* zigbee_app_utils.c and the request queue of zb_nrf_platform.c, which    *)
(* are read in the listing msd_zigbee_52840/zephyr/zephyr.lst.             *)
(*                                                                         *)
(* The ZBOSS thread runs signals, alarms and scheduled callbacks one at a  *)
(* time.  Application code never sets an alarm itself: it puts a request   *)
(* into zb_app_cb_msgq, which the ZBOSS thread empties later.  The ZBOSS   *)
(* stack itself is a binary library; it is modelled by what it reports.    *)
(*                                                                         *)
(* The ZBOSS thread is preemptible (priority 3), com_task is cooperative   *)
(* (-1): a call of com_task is one step, and it may come in the middle of  *)
(* a ZBOSS callback.  Inside user_input_indicate that shows, as the check  *)
(* of a flag and its setting lie apart, so the ZBOSS thread's call has     *)
(* two steps there.  In any other callback a call of com_task has the      *)
(* effect of one before or after: no other callback reads the flag it      *)
(* sets; one that reads joined twice found FALSE first, which com_task     *)
(* does not change; wait_for_user_input has one new value at most; and     *)
(* the place of its request among those of the callback does not matter,   *)
(* as no alarm that is set or cancelled concerns it.                       *)
(*                                                                         *)
(* Time passes in ticks.  The rejoin procedure waits 1, 2, 4, ... ticks    *)
(* between attempts; all delays are constants of the same unit.            *)
(***************************************************************************)
EXTENDS Integers, Sequences

CONSTANTS
    RejoinTimeout,       \* ZB_DEV_REJOIN_TIMEOUT_MS
    ReconnectDelay,      \* DELAY_TOTAL_ZI_RECONNECT_MS
    REJOIN_INTERVAL_MAX, \* REJOIN_INTERVAL_MAX_S
    SteeringTime,        \* bound: ticks that one commissioning may take
    QueueLength          \* CONFIG_ZIGBEE_APP_CB_QUEUE_LENGTH

ASSUME DelayAssumption ==
    /\ RejoinTimeout \in Nat \ {0}
    /\ ReconnectDelay \in Nat /\ ReconnectDelay > RejoinTimeout   \* main.h:37
    /\ REJOIN_INTERVAL_MAX \in Nat \ {0}
    /\ SteeringTime \in Nat
ASSUME QueueAssumption == QueueLength \in Nat \ {0}

VARIABLES
    enabled,      \* main has called zigbee_enable
    usb_state,    \* the last status usb_cb was called with
    joined,       \* ZB_JOINED()
    nvram,        \* the stack's nvram holds a network
    bdb,          \* the commissioning under way in the stack
    bdbLeft,      \* ticks it may still take
    signals,      \* signals the stack has raised, oldest first
    alarms,       \* alarms[f]: ticks until the calls of f that are set
    restarts,     \* calls of start_network_rejoin_ED that wait
    indicating,   \* the ZBOSS thread is in user_input_indicate, between the
                  \* check of the flags and the request
    ahead,        \* signals that were queued before zb_app_cb_process was
    draining,     \* zb_app_cb_process is between two requests
    stack_initialised,
    rejoin,       \* static variables of zigbee_app_utils.c, and zb_app_cb_msgq
    zigbee_conf_state_save,
    connect_status, \* MBbuf_main[Reg_Zigbee_Connect_Status]
    com_sleeping, \* com_task has looked at the command register in this tick
    asked         \* history: CODE_CONNECT_BUTTON has restarted the rejoin
                  \* procedure since the reconnect alarm was last set

stack == <<joined, nvram, bdb, bdbLeft, signals>>
app == <<stack_initialised, rejoin, zigbee_conf_state_save, connect_status>>
zboss == <<ahead, draining, indicating>>
vars == <<enabled, usb_state, stack, alarms, restarts, zboss, app, com_sleeping, asked>>

Callback == {"Recon_timer_cb", "stop_network_rejoin", "start_network_steering",
             "rejoin_the_network"}
\* "OTHER": any signal that the application only passes on, as CAN_SLEEP.
Signal == {"SKIP_STARTUP", "FIRST_START", "REBOOT", "STEERING", "LEAVE", "OTHER"}
UsbStatus == {"CONFIGURED", "OTHER"}

\* Requests to the ZBOSS thread.  The only callback without a delay is
\* start_network_rejoin_ED.
Cancel(f) == [op |-> "cancel", func |-> f, after |-> 0]
Alarm(f, t) == [op |-> "alarm", func |-> f, after |-> t]
Call == [op |-> "call", func |-> "start_network_rejoin_ED", after |-> 0]
Request == [op : {"cancel", "alarm"}, func : Callback, after : Nat] \cup {Call}

--------------------------------------------------------------------------------
\* Starting the device: RAM has its initial values, nvram is what it was.

Rejoin0 == [started |-> FALSE, in_progress |-> FALSE, attempt_cnt |-> 0,
            wait_for_user_input |-> FALSE, start_scheduled |-> FALSE,
            requests |-> <<>>]

Init ==
    /\ enabled = FALSE
    /\ usb_state = "OTHER"
    /\ joined = FALSE
    /\ nvram \in BOOLEAN
    /\ bdb = "idle" /\ bdbLeft = 0
    /\ signals = <<>>
    /\ alarms = [f \in Callback |-> {}]
    /\ restarts = 0
    /\ ahead = 0 /\ draining = FALSE /\ indicating = FALSE
    /\ stack_initialised = FALSE
    /\ rejoin = Rejoin0
    /\ zigbee_conf_state_save = FALSE
    /\ connect_status = FALSE
    /\ com_sleeping = FALSE
    /\ asked = FALSE

\* sys_reboot, or a reset from outside; kept says what nvram holds then.
Restart(kept) ==
    /\ enabled' = FALSE
    /\ usb_state' = "OTHER"
    /\ joined' = FALSE
    /\ nvram' = kept
    /\ bdb' = "idle" /\ bdbLeft' = 0
    /\ signals' = <<>>
    /\ alarms' = [f \in Callback |-> {}]
    /\ restarts' = 0
    /\ ahead' = 0 /\ draining' = FALSE /\ indicating' = FALSE
    /\ stack_initialised' = FALSE
    /\ rejoin' = Rejoin0
    /\ zigbee_conf_state_save' = FALSE
    /\ connect_status' = FALSE
    /\ com_sleeping' = FALSE
    /\ asked' = FALSE

--------------------------------------------------------------------------------
\* zigbee_app_utils.c.  Each operator maps the static variables to what the
\* function leaves in them.  zigbee_schedule_alarm_cancel only queues a request
\* and returns RET_OK, so stop_network_rejoin never sets
\* is_rejoin_stop_requested while the queue has room (QueueFits).

Interval(n) == IF 2^n > REJOIN_INTERVAL_MAX THEN REJOIN_INTERVAL_MAX ELSE 2^n

start_network_rejoin(r) ==
    IF joined \/ ~stack_initialised \/ r.wait_for_user_input
    THEN r
    ELSE IF r.started
    THEN [r EXCEPT !.in_progress = FALSE]
    ELSE [r EXCEPT !.in_progress = FALSE,
                   !.started = TRUE,
                   !.attempt_cnt = 0,
                   !.wait_for_user_input = FALSE,
                   !.start_scheduled = FALSE,
                   !.requests = Append(@, Alarm("stop_network_rejoin", RejoinTimeout))]

\* Mutant: giving up is not noted, so no user input is waited for.
Bug_GivesUpSilently(r, was_scheduled) ==
    [r EXCEPT !.wait_for_user_input = FALSE,
              !.started = FALSE,
              !.requests = @ \o <<Cancel("start_network_steering"),
                                  Cancel("stop_network_rejoin")>>]

stop_network_rejoin(r, was_scheduled) ==
    [r EXCEPT !.wait_for_user_input = was_scheduled,
              !.started = FALSE,
              !.requests = Append(IF r.started
                                  THEN Append(@, Cancel("start_network_steering"))
                                  ELSE @,
                                  Cancel("stop_network_rejoin"))]

NextAttempt(n) == IF 2^n > REJOIN_INTERVAL_MAX THEN n ELSE n + 1

rejoin_the_network(r) ==
    IF stack_initialised /\ r.started /\ ~r.in_progress
    THEN [r EXCEPT !.attempt_cnt = NextAttempt(@),
                   !.in_progress = TRUE,
                   !.requests = Append(@, Alarm("start_network_steering",
                                                Interval(r.attempt_cnt)))]
    ELSE r

start_network_rejoin_ED(r) ==
    IF ~joined /\ r.wait_for_user_input
    THEN LET s == start_network_rejoin([r EXCEPT !.wait_for_user_input = FALSE])
         IN  [s EXCEPT !.requests = Append(@, Alarm("rejoin_the_network", 1)),
                       !.start_scheduled = FALSE]
    ELSE [r EXCEPT !.start_scheduled = FALSE]

\* user_input_indicate: its check, what follows the check, and both in one step.
MayIndicate(r) == r.wait_for_user_input /\ ~r.start_scheduled

Indicated(r) == [r EXCEPT !.requests = Append(@, Call), !.start_scheduled = TRUE]

user_input_indicate(r) == IF MayIndicate(r) THEN Indicated(r) ELSE r

--------------------------------------------------------------------------------
\* main.c.

\* Mutant: the alarm that is already set stays set.
Bug_NoCancel(r) == [r EXCEPT !.requests = Append(@, Alarm("Recon_timer_cb", ReconnectDelay))]

\* Mutant: the alarm does not wait for the rejoin procedure to give up.
Bug_Impatient(r) ==
    [r EXCEPT !.requests = @ \o <<Cancel("Recon_timer_cb"), Alarm("Recon_timer_cb", 1)>>]

zi_reboot(r) ==
    [r EXCEPT !.requests = Append(Append(@, Cancel("Recon_timer_cb")),
                                  Alarm("Recon_timer_cb", ReconnectDelay))]

\* The part of zboss_signal_handler that is main's own: zigbee_status_update.
Restarts(sig) == sig \in {"REBOOT", "STEERING", "LEAVE"}

\* Mutant: a LEAVE is reported like any signal that went well.
Bug_ReportsSuccess(sig, ok) == IF Restarts(sig) THEN ok ELSE connect_status

StatusAfter(sig, ok) ==
    IF Restarts(sig) THEN sig # "LEAVE" /\ ok ELSE connect_status

zigbee_status_update(sig, ok) ==
    /\ zigbee_conf_state_save' = (zigbee_conf_state_save \/ sig \in {"REBOOT", "LEAVE"})
    /\ connect_status' = StatusAfter(sig, ok)

zigbee_default_signal_handler(r, sig, ok) ==
    CASE sig \in {"REBOOT", "STEERING"} /\ ok ->
            rejoin_the_network(stop_network_rejoin(r, FALSE))
      [] \/ sig \in {"REBOOT", "STEERING"} /\ ~ok
         \/ sig \in {"FIRST_START", "LEAVE"} /\ ok ->
            rejoin_the_network(start_network_rejoin(r))
      [] OTHER -> rejoin_the_network(r)

\* The ZBOSS thread can run another callback.
ZbossFree == ~draining /\ ~indicating

\* The first request put into an empty queue submits zb_app_cb_work, whose work
\* queue pre-empts the ZBOSS thread and schedules zb_app_cb_process behind the
\* callbacks that already wait.
Requests(r) ==
    /\ rejoin' = r
    /\ ahead' = IF rejoin.requests # <<>> THEN ahead
                ELSE IF r.requests # <<>> THEN Len(signals) ELSE 0

zboss_signal_handler ==
    /\ ZbossFree /\ signals # <<>>
    /\ rejoin.requests # <<>> => ahead > 0
    /\ LET sig == Head(signals).sig
           ok  == Head(signals).ok
       IN  /\ zigbee_status_update(sig, ok)
           /\ rejoin' = zigbee_default_signal_handler(
                            IF Restarts(sig) THEN zi_reboot(rejoin) ELSE rejoin, sig, ok)
           /\ ahead' = IF rejoin.requests # <<>> THEN ahead - 1
                       ELSE IF rejoin'.requests # <<>> THEN Len(signals) - 1 ELSE 0
           /\ IF sig = "SKIP_STARTUP"
              THEN stack_initialised' = TRUE /\ bdb' = "starting" /\ bdbLeft' = SteeringTime
              ELSE UNCHANGED <<stack_initialised, bdb, bdbLeft>>
    /\ signals' = Tail(signals)
    /\ UNCHANGED <<enabled, usb_state, joined, nvram, alarms, restarts, draining, indicating,
                   com_sleeping, asked>>

\* An alarm of f is due and the ZBOSS thread takes it.
Due(f) ==
    /\ ZbossFree /\ 0 \in alarms[f]
    /\ alarms' = [alarms EXCEPT ![f] = @ \ {0}]

ErasesNetwork == zigbee_conf_state_save /\ usb_state # "CONFIGURED"

Recon_timer_cb_erase ==
    /\ ZbossFree /\ 0 \in alarms["Recon_timer_cb"]
    /\ ~joined /\ ErasesNetwork
    /\ Restart(FALSE)

Recon_timer_cb_connect ==
    /\ Due("Recon_timer_cb")
    /\ ~joined /\ ~ErasesNetwork
    /\ indicating' = MayIndicate(rejoin)
    /\ UNCHANGED <<enabled, usb_state, stack, restarts, ahead, draining, app, com_sleeping, asked>>

\* The rest of its user_input_indicate; com_task may have called it meanwhile.
Recon_timer_cb_indicates ==
    /\ indicating /\ indicating' = FALSE
    /\ Requests(Indicated(rejoin))
    /\ UNCHANGED <<enabled, usb_state, stack, alarms, restarts, draining, stack_initialised,
                   zigbee_conf_state_save, connect_status, com_sleeping, asked>>

Recon_timer_cb_joined ==
    /\ Due("Recon_timer_cb")
    /\ joined
    /\ UNCHANGED <<enabled, usb_state, stack, restarts, zboss, app, com_sleeping, asked>>

\* The other callbacks, of the library.
stop_network_rejoin_alarm ==
    /\ Due("stop_network_rejoin")
    /\ Requests(stop_network_rejoin(rejoin, TRUE))
    /\ UNCHANGED <<enabled, usb_state, stack, restarts, draining, indicating, stack_initialised,
                   zigbee_conf_state_save, connect_status, com_sleeping, asked>>

rejoin_the_network_alarm ==
    /\ Due("rejoin_the_network")
    /\ Requests(rejoin_the_network(rejoin))
    /\ UNCHANGED <<enabled, usb_state, stack, restarts, draining, indicating, stack_initialised,
                   zigbee_conf_state_save, connect_status, com_sleeping, asked>>

start_network_rejoin_ED_callback ==
    /\ ZbossFree /\ restarts > 0
    /\ restarts' = restarts - 1
    /\ Requests(start_network_rejoin_ED(rejoin))
    /\ UNCHANGED <<enabled, usb_state, stack, alarms, draining, indicating, stack_initialised,
                   zigbee_conf_state_save, connect_status, com_sleeping, asked>>

\* bdb_start_top_level_commissioning refuses while one is under way.
start_network_steering ==
    /\ Due("start_network_steering")
    /\ IF bdb = "idle"
       THEN bdb' = "steering" /\ bdbLeft' = SteeringTime
       ELSE UNCHANGED <<bdb, bdbLeft>>
    /\ UNCHANGED <<enabled, usb_state, joined, nvram, signals, restarts, zboss, app,
                   com_sleeping, asked>>

\* zb_app_cb_process takes the requests one by one until none is left; com_task
\* may add one meanwhile.
Bug_KeepsAlarm(q) ==
    IF q.op = "alarm" THEN [alarms EXCEPT ![q.func] = @ \cup {q.after}] ELSE alarms

AlarmsAfter(q) ==
    CASE q.op = "cancel" -> [alarms EXCEPT ![q.func] = {}]
      [] q.op = "alarm"  -> [alarms EXCEPT ![q.func] = @ \cup {q.after}]
      [] q.op = "call"   -> alarms

zb_app_cb_process ==
    /\ rejoin.requests # <<>> /\ ahead = 0 /\ ~indicating
    /\ alarms' = AlarmsAfter(Head(rejoin.requests))
    /\ restarts' = IF Head(rejoin.requests) = Call THEN restarts + 1 ELSE restarts
    /\ rejoin' = [rejoin EXCEPT !.requests = Tail(@)]
    /\ draining' = (Tail(rejoin.requests) # <<>>)
    /\ asked' = (asked /\ Head(rejoin.requests) # Alarm("Recon_timer_cb", ReconnectDelay))
    /\ UNCHANGED <<enabled, usb_state, stack, ahead, indicating, stack_initialised,
                   zigbee_conf_state_save, connect_status, com_sleeping>>

--------------------------------------------------------------------------------
\* main, com_task and the USB callback.

main_zigbee_enable ==
    /\ ~enabled
    /\ enabled' = TRUE
    /\ signals' = <<[sig |-> "SKIP_STARTUP", ok |-> TRUE]>>
    /\ UNCHANGED <<usb_state, joined, nvram, bdb, bdbLeft, alarms, restarts, zboss, app,
                   com_sleeping, asked>>

usb_cb(cb_status) ==
    /\ usb_state' = cb_status
    /\ UNCHANGED <<enabled, stack, alarms, restarts, zboss, app, com_sleeping, asked>>

\* command_control runs once every 3 s: at most one command between two ticks.
Command == ~com_sleeping /\ com_sleeping' = TRUE

command_control_connect ==
    /\ Command
    /\ Requests(user_input_indicate(rejoin))
    /\ asked' = (asked \/ rejoin' # rejoin)
    /\ UNCHANGED <<enabled, usb_state, stack, alarms, restarts, draining, indicating,
                   stack_initialised, zigbee_conf_state_save, connect_status>>

\* zb_bdb_reset_via_local_action: a joined device leaves and says so; one that is
\* not joined only drops its data, and may say so.
command_control_reset_zigbee ==
    /\ Command /\ stack_initialised
    /\ joined' = FALSE /\ nvram' = FALSE
    /\ \/ signals' = Append(signals, [sig |-> "LEAVE", ok |-> TRUE])
       \/ ~joined /\ UNCHANGED signals
    /\ UNCHANGED <<enabled, usb_state, bdb, bdbLeft, alarms, restarts, zboss, app, asked>>

\* CODE_RESTART, and every reset from outside.
command_control_restart == Restart(nvram)

\* CODE_HARD_RESET_STACK.
command_control_hard_reset == ~com_sleeping /\ Restart(FALSE)

--------------------------------------------------------------------------------
\* What the ZBOSS stack does and reports.

Raise(sig, ok) == signals' = Append(signals, [sig |-> sig, ok |-> ok])

\* Bound: a radio exchange takes longer than the handler, so the network causes
\* no signal while another one waits; com_task may.
Radio == signals = <<>>

\* The stack runs in the ZBOSS thread, between two callbacks.
StackStarted ==
    /\ ZbossFree
    /\ bdb = "starting"
    /\ IF nvram
       THEN \E ok \in BOOLEAN : joined' = ok /\ Raise("REBOOT", ok)
       ELSE UNCHANGED joined /\ Raise("FIRST_START", TRUE)
    /\ bdb' = "idle" /\ bdbLeft' = 0
    /\ UNCHANGED <<enabled, usb_state, nvram, alarms, restarts, zboss, app, com_sleeping, asked>>

SteeringEnded ==
    /\ ZbossFree /\ Radio
    /\ bdb = "steering"
    /\ \E ok \in BOOLEAN :
          /\ joined => ok
          /\ joined' = ok /\ nvram' = (nvram \/ ok)
          /\ Raise("STEERING", ok)
    /\ bdb' = "idle" /\ bdbLeft' = 0
    /\ UNCHANGED <<enabled, usb_state, alarms, restarts, zboss, app, com_sleeping, asked>>

\* The coordinator makes the device leave.
NetworkLeave ==
    /\ ZbossFree /\ Radio
    /\ joined
    /\ joined' = FALSE /\ nvram' = FALSE
    /\ Raise("LEAVE", TRUE)
    /\ UNCHANGED <<enabled, usb_state, bdb, bdbLeft, alarms, restarts, zboss, app,
                   com_sleeping, asked>>

\* Any other signal, any number of times.  Its status is not looked at.  Until the
\* stack has started it would do nothing: nothing is searched for before
\* com_task's LEAVE, and an attempt is under way behind it.
OtherSignal ==
    /\ ZbossFree /\ Radio
    /\ stack_initialised /\ bdb # "starting"
    /\ Raise("OTHER", TRUE)
    /\ UNCHANGED <<enabled, usb_state, joined, nvram, bdb, bdbLeft, alarms, restarts, zboss, app,
                   com_sleeping, asked>>

\* A tick passes when the ZBOSS thread has nothing left to do and a
\* commissioning still has time.
Tick ==
    /\ enabled
    /\ signals = <<>> /\ rejoin.requests = <<>>
    /\ restarts = 0 /\ ~indicating
    /\ \A f \in Callback : 0 \notin alarms[f]
    /\ bdb # "idle" => bdbLeft > 0
    /\ alarms' = [f \in Callback |-> {t - 1 : t \in alarms[f]}]
    /\ bdbLeft' = IF bdb = "idle" THEN 0 ELSE bdbLeft - 1
    /\ com_sleeping' = FALSE
    /\ UNCHANGED <<enabled, usb_state, joined, nvram, bdb, signals, restarts, zboss, app, asked>>

--------------------------------------------------------------------------------
Recon_timer_cb ==
    \/ Recon_timer_cb_erase
    \/ Recon_timer_cb_connect
    \/ Recon_timer_cb_indicates
    \/ Recon_timer_cb_joined

DueCallback ==
    \/ Recon_timer_cb
    \/ stop_network_rejoin_alarm
    \/ rejoin_the_network_alarm
    \/ start_network_rejoin_ED_callback
    \/ start_network_steering
    \/ zb_app_cb_process

Zboss == zboss_signal_handler \/ DueCallback

Stack == StackStarted \/ SteeringEnded

com_task ==
    \/ command_control_connect
    \/ command_control_reset_zigbee
    \/ command_control_restart
    \/ command_control_hard_reset

Environment == NetworkLeave \/ OtherSignal \/ \E s \in UsbStatus : usb_cb(s)

Next == main_zigbee_enable \/ Zboss \/ Stack \/ com_task \/ Environment \/ Tick

Spec == Init /\ [][Next]_vars

\* The threads run, the stack answers, time passes; nothing is assumed of
\* commands, of the USB host and of the network.  Fairness is strong where other
\* signals come in between: ZBOSS keeps its callbacks in a queue, so signals do
\* not put off one that is due for ever, and no tick holds infinitely many.
Fairness ==
    /\ WF_vars(main_zigbee_enable)
    /\ WF_vars(zboss_signal_handler)
    /\ SF_vars(DueCallback)
    /\ SF_vars(Stack)
    /\ SF_vars(Tick)

FairSpec == Spec /\ Fairness
================================================================================
