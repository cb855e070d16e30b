--------------------------- MODULE ZigbeeJoinProofs ---------------------------
(***************************************************************************)
(* For all delays and any queue length: at most one reconnect alarm is     *)
(* set, the connection status tells the truth when no signal waits, and a  *)
(* stored network is erased only after the search for it was given up. For *)
(* all delays of which the time to give up exceeds an attempt by more than *)
(* two ticks: ten requests are room enough.                                *)
(*                                                                         *)
(* One alarm: a request that sets the reconnect alarm stands right behind  *)
(* the one that cancels it, or is first in the queue with none set.        *)
(*                                                                         *)
(* Status: the youngest signal that waits determines what the status will  *)
(* be, and agrees with the stack.                                          *)
(*                                                                         *)
(* Erasing: while a device searches for a stored network, the alarm that   *)
(* gives up is set, or is still in the queue, before any reconnect alarm.  *)
(*                                                                         *)
(* Room: what can still be added before the queue is emptied depends on    *)
(* the signals that wait and on the alarms that are due. The alarms that   *)
(* add most, the one that gives up and the reconnect alarm, are never due  *)
(* together, because an attempt that ends sets the latter anew. A restart  *)
(* is asked for twice, by com_task in the middle of the reconnect alarm's  *)
(* call, only while at most one signal waits.                              *)
(***************************************************************************)
EXTENDS ZigbeeJoinProps, SequenceTheorems, TLAPS

\* The delays that the code asks for; nothing cancels the attempt that follows a
\* restart by the user.
Known(x) ==
    /\ x.op = "cancel" => x.func # "rejoin_the_network"
    /\ x.op = "alarm" =>
          /\ x.func = "Recon_timer_cb" => x.after = ReconnectDelay
          /\ x.func = "stop_network_rejoin" => x.after = RejoinTimeout
IRequest == {x \in [op : {"cancel", "alarm"}, func : Callback, after : Int] : Known(x)} \cup {Call}
IRejoin == [started : BOOLEAN, in_progress : BOOLEAN, attempt_cnt : Nat,
            wait_for_user_input : BOOLEAN, start_scheduled : BOOLEAN,
            requests : Seq(IRequest)]

SetsRecon(x) == x.op = "alarm" /\ x.func = "Recon_timer_cb"
CancelsRecon(x) == x.op = "cancel" /\ x.func = "Recon_timer_cb"

\* Every request in q that sets the reconnect alarm finds none set; set is what
\* is set before q is processed.
Guarded(q, set) ==
    \A i \in 1..Len(q) :
        SetsRecon(q[i]) => \/ i = 1 /\ set = {}
                           \/ i > 1 /\ CancelsRecon(q[i - 1])

Sound(r, set) == r \in IRejoin /\ Guarded(r.requests, set)

AlarmInv ==
    /\ Sound(rejoin, alarms["Recon_timer_cb"])
    /\ alarms \in [Callback -> SUBSET Int]
    /\ OneReconnectAlarm

--------------------------------------------------------------------------------
\* Appending to the queue.

\* A request for another callback guards nothing and needs no guard.
LEMMA AppendOther ==
    ASSUME NEW q \in Seq(IRequest), NEW set, Guarded(q, set),
           NEW x \in IRequest, ~SetsRecon(x)
    PROVE  Append(q, x) \in Seq(IRequest) /\ Guarded(Append(q, x), set)
  <1>1. Append(q, x) \in Seq(IRequest) /\ Len(Append(q, x)) = Len(q) + 1
    OBVIOUS
  <1>2. \A i \in 1..Len(q) : Append(q, x)[i] = q[i]
    OBVIOUS
  <1>3. Append(q, x)[Len(q) + 1] = x
    OBVIOUS
  <1>4. Len(q) \in Nat
    OBVIOUS
  <1>5. ASSUME NEW i \in 1..(Len(q) + 1), SetsRecon(Append(q, x)[i])
        PROVE  \/ i = 1 /\ set = {}
               \/ i > 1 /\ CancelsRecon(Append(q, x)[i - 1])
    <2>1. i \in 1..Len(q)
      BY <1>3, <1>4, <1>5
    <2>2. SetsRecon(q[i])
      BY <1>2, <1>5, <2>1
    <2>3. i > 1 => i - 1 \in 1..Len(q)
      BY <2>1, <1>4
    <2> QED  BY <2>1, <2>2, <2>3, <1>2 DEF Guarded
  <1> QED  BY <1>1, <1>5 DEF Guarded

\* zi_reboot's pair of requests keeps the queue guarded.
LEMMA AppendPair ==
    ASSUME NEW q \in Seq(IRequest), NEW set, Guarded(q, set)
    PROVE  LET p == Append(Append(q, Cancel("Recon_timer_cb")),
                           Alarm("Recon_timer_cb", ReconnectDelay))
           IN  p \in Seq(IRequest) /\ Guarded(p, set)
  <1> DEFINE c == Cancel("Recon_timer_cb")
             a == Alarm("Recon_timer_cb", ReconnectDelay)
             q1 == Append(q, c)
             p == Append(q1, a)
  <1>1. c \in IRequest /\ a \in IRequest /\ ~SetsRecon(c) /\ CancelsRecon(c)
    BY DelayAssumption DEF Cancel, Alarm, IRequest, Known, Callback, SetsRecon, CancelsRecon
  <1>2. q1 \in Seq(IRequest) /\ Guarded(q1, set)
    BY <1>1, AppendOther
  <1> HIDE DEF c, a
  <1>3. Len(q1) = Len(q) + 1 /\ Len(q) \in Nat /\ q1[Len(q1)] = c
    OBVIOUS
  <1>4. CancelsRecon(q1[Len(q1)]) /\ Len(q1) >= 1 /\ Len(q1) \in Nat
    BY <1>1, <1>3
  <1> HIDE DEF q1
  <1>5. /\ p \in Seq(IRequest) /\ Len(p) = Len(q1) + 1
        /\ \A i \in 1..Len(q1) : p[i] = q1[i]
    BY <1>1, <1>2
  <1> HIDE DEF p
  <1>6. ASSUME NEW i \in 1..Len(p), SetsRecon(p[i])
        PROVE  \/ i = 1 /\ set = {}
               \/ i > 1 /\ CancelsRecon(p[i - 1])
    <2>1. CASE i = Len(q1) + 1
      <3>1. i - 1 = Len(q1) /\ i - 1 \in 1..Len(q1) /\ i > 1
        BY <2>1, <1>4
      <3> QED  BY <3>1, <1>4, <1>5
    <2>2. CASE i # Len(q1) + 1
      <3>1. i \in 1..Len(q1) /\ (i > 1 => i - 1 \in 1..Len(q1))
        BY <2>2, <1>4, <1>5
      <3> QED  BY <3>1, <1>2, <1>5, <1>6 DEF Guarded
    <2> QED  BY <2>1, <2>2
  <1>7. p \in Seq(IRequest) /\ Guarded(p, set)
    BY <1>5, <1>6 DEF Guarded
  <1> QED  BY <1>7 DEF p, q1, c, a

--------------------------------------------------------------------------------
\* The functions of zigbee_app_utils.c and zi_reboot keep a sound queue sound.

LEMMA RequestTypes ==
    ASSUME NEW f \in Callback, NEW t \in Int
    PROVE  /\ f # "rejoin_the_network" => Cancel(f) \in IRequest
           /\ Known(Alarm(f, t)) => Alarm(f, t) \in IRequest
           /\ f \notin {"Recon_timer_cb", "stop_network_rejoin"} => Known(Alarm(f, t))
           /\ Known(Alarm("stop_network_rejoin", RejoinTimeout))
           /\ ~SetsRecon(Cancel(f))
           /\ f # "Recon_timer_cb" => ~SetsRecon(Alarm(f, t))
  BY DEF Cancel, Alarm, IRequest, Known, SetsRecon

LEMMA DelayTypes ==
    /\ RejoinTimeout \in Int /\ ReconnectDelay \in Int
    /\ \A n \in Nat : Interval(n) \in Int /\ NextAttempt(n) \in Nat
  <1>1. \A n \in Nat : 2^n \in Int
    BY SMT
  <1> QED  BY <1>1, DelayAssumption DEF Interval, NextAttempt

LEMMA StartSound ==
    ASSUME NEW r, NEW set, Sound(r, set)
    PROVE  Sound(start_network_rejoin(r), set)
  <1> DEFINE x == Alarm("stop_network_rejoin", RejoinTimeout)
  <1>1. x \in IRequest /\ ~SetsRecon(x)
    BY RequestTypes, DelayTypes DEF Callback
  <1> HIDE DEF x
  <1>2. Append(r.requests, x) \in Seq(IRequest) /\ Guarded(Append(r.requests, x), set)
    BY <1>1, AppendOther DEF Sound, IRejoin
  <1> QED  BY <1>2 DEF Sound, IRejoin, start_network_rejoin, x

LEMMA StopSound ==
    ASSUME NEW r, NEW set, Sound(r, set), NEW w \in BOOLEAN
    PROVE  Sound(stop_network_rejoin(r, w), set)
  <1> DEFINE x == Cancel("start_network_steering")
             y == Cancel("stop_network_rejoin")
             q == IF r.started THEN Append(r.requests, x) ELSE r.requests
  <1>1. /\ x \in IRequest /\ ~SetsRecon(x)
        /\ y \in IRequest /\ ~SetsRecon(y)
    BY RequestTypes DEF Callback
  <1> HIDE DEF x, y
  <1>2. q \in Seq(IRequest) /\ Guarded(q, set)
    BY <1>1, AppendOther DEF Sound, IRejoin
  <1> HIDE DEF q
  <1>3. Append(q, y) \in Seq(IRequest) /\ Guarded(Append(q, y), set)
    BY <1>1, <1>2, AppendOther
  <1>4. stop_network_rejoin(r, w) = [r EXCEPT !.wait_for_user_input = w,
                                              !.started = FALSE,
                                              !.requests = Append(q, y)]
    BY DEF stop_network_rejoin, q, x, y
  <1> QED  BY <1>3, <1>4 DEF Sound, IRejoin

LEMMA RejoinSound ==
    ASSUME NEW r, NEW set, Sound(r, set)
    PROVE  Sound(rejoin_the_network(r), set)
  <1> DEFINE x == Alarm("start_network_steering", Interval(r.attempt_cnt))
  <1>1. r.attempt_cnt \in Nat
    BY DEF Sound, IRejoin
  <1>2. NextAttempt(r.attempt_cnt) \in Nat /\ x \in IRequest /\ ~SetsRecon(x)
    BY <1>1, RequestTypes, DelayTypes DEF Callback
  <1> HIDE DEF x
  <1>3. Append(r.requests, x) \in Seq(IRequest) /\ Guarded(Append(r.requests, x), set)
    BY <1>2, AppendOther DEF Sound, IRejoin
  <1> QED  BY <1>2, <1>3 DEF Sound, IRejoin, rejoin_the_network, x

LEMMA UserInputSound ==
    ASSUME NEW r, NEW set, Sound(r, set)
    PROVE  Sound(Indicated(r), set) /\ Sound(user_input_indicate(r), set)
  <1>1. Call \in IRequest /\ ~SetsRecon(Call)
    BY DEF Call, IRequest, SetsRecon
  <1>2. Append(r.requests, Call) \in Seq(IRequest) /\ Guarded(Append(r.requests, Call), set)
    BY <1>1, AppendOther DEF Sound, IRejoin
  <1>3. Sound(Indicated(r), set)
    BY <1>2 DEF Sound, IRejoin, Indicated
  <1> QED  BY <1>3 DEF user_input_indicate

LEMMA EDSound ==
    ASSUME NEW r, NEW set, Sound(r, set)
    PROVE  Sound(start_network_rejoin_ED(r), set)
  <1> DEFINE x == Alarm("rejoin_the_network", 1)
             s == start_network_rejoin([r EXCEPT !.wait_for_user_input = FALSE])
  <1>1. x \in IRequest /\ ~SetsRecon(x)
    BY RequestTypes DEF Callback
  <1>2. Sound([r EXCEPT !.wait_for_user_input = FALSE], set)
    BY DEF Sound, IRejoin
  <1>3. Sound(s, set)
    BY <1>2, StartSound
  <1> HIDE DEF x, s
  <1>4. Append(s.requests, x) \in Seq(IRequest) /\ Guarded(Append(s.requests, x), set)
    BY <1>1, <1>3, AppendOther DEF Sound, IRejoin
  <1>5. Sound([s EXCEPT !.requests = Append(@, x), !.start_scheduled = FALSE], set)
    BY <1>3, <1>4 DEF Sound, IRejoin
  <1>6. Sound([r EXCEPT !.start_scheduled = FALSE], set)
    BY DEF Sound, IRejoin
  <1> QED  BY <1>5, <1>6 DEF start_network_rejoin_ED, s, x

LEMMA RebootSound ==
    ASSUME NEW r, NEW set, Sound(r, set)
    PROVE  Sound(zi_reboot(r), set)
  <1> DEFINE p == Append(Append(r.requests, Cancel("Recon_timer_cb")),
                         Alarm("Recon_timer_cb", ReconnectDelay))
  <1>1. p \in Seq(IRequest) /\ Guarded(p, set)
    BY AppendPair, DelayTypes DEF Sound, IRejoin
  <1>2. zi_reboot(r) = [r EXCEPT !.requests = p]
    BY DEF zi_reboot
  <1> HIDE DEF p
  <1> QED  BY <1>1, <1>2 DEF Sound, IRejoin

LEMMA HandlerSound ==
    ASSUME NEW r, NEW set, Sound(r, set), NEW sig, NEW ok
    PROVE  Sound(zigbee_default_signal_handler(r, sig, ok), set)
  <1>1. Sound(rejoin_the_network(stop_network_rejoin(r, FALSE)), set)
    BY StopSound, RejoinSound
  <1>2. Sound(rejoin_the_network(start_network_rejoin(r)), set)
    BY StartSound, RejoinSound
  <1>3. Sound(rejoin_the_network(r), set)
    BY RejoinSound
  <1> QED  BY <1>1, <1>2, <1>3 DEF zigbee_default_signal_handler

--------------------------------------------------------------------------------
\* One reconnect alarm.

LEMMA ResetAlarmInv ==
    ASSUME rejoin' = Rejoin0, alarms' = [f \in Callback |-> {}]
    PROVE  AlarmInv'
  BY DEF AlarmInv, Sound, Guarded, Rejoin0, IRejoin, OneReconnectAlarm, Callback

\* An alarm that is taken frees nothing that a queued request relies on.
LEMMA DueAlarmInv ==
    ASSUME AlarmInv, NEW f \in Callback, Due(f),
           Sound(rejoin', alarms["Recon_timer_cb"])
    PROVE  AlarmInv'
  <1>1. alarms' \in [Callback -> SUBSET Int]
    BY DEF AlarmInv, Due
  <1>2. alarms'["Recon_timer_cb"] \subseteq alarms["Recon_timer_cb"]
    BY DEF AlarmInv, Due, Callback
  <1>3. OneReconnectAlarm'
    BY <1>2 DEF AlarmInv, OneReconnectAlarm
  <1>4. Sound(rejoin', alarms'["Recon_timer_cb"])
    BY <1>2 DEF Sound, Guarded
  <1> QED  BY <1>1, <1>3, <1>4 DEF AlarmInv

LEMMA SameAlarmInv ==
    ASSUME AlarmInv, UNCHANGED alarms, Sound(rejoin', alarms["Recon_timer_cb"])
    PROVE  AlarmInv'
  BY DEF AlarmInv, OneReconnectAlarm

\* Processing the oldest request.
LEMMA ProcessAlarmInv ==
    ASSUME AlarmInv, zb_app_cb_process
    PROVE  AlarmInv'
  <1> DEFINE q == rejoin.requests
             x == Head(q)
             R == "Recon_timer_cb"
  <1>1. /\ q \in Seq(IRequest) /\ q # <<>> /\ Guarded(q, alarms[R])
        /\ rejoin \in IRejoin /\ alarms \in [Callback -> SUBSET Int]
        /\ rejoin' = [rejoin EXCEPT !.requests = Tail(q)]
        /\ alarms' = AlarmsAfter(x)
    BY DEF AlarmInv, Sound, IRejoin, zb_app_cb_process
  <1>2. /\ x = q[1] /\ x \in IRequest /\ Len(q) >= 1 /\ Len(q) \in Nat
        /\ Tail(q) \in Seq(IRequest) /\ Len(Tail(q)) = Len(q) - 1
        /\ \A i \in 1..(Len(q) - 1) : Tail(q)[i] = q[i + 1]
    BY <1>1
  <1>3. rejoin' \in IRejoin /\ rejoin'.requests = Tail(q)
    BY <1>1, <1>2 DEF IRejoin
  <1>4. alarms' \in [Callback -> SUBSET Int]
    BY <1>1, <1>2 DEF AlarmsAfter, IRequest, Call
  <1>5. SetsRecon(x) => alarms[R] = {}
    BY <1>1, <1>2 DEF Guarded
  <1>6. CancelsRecon(x) => alarms'[R] = {}
    BY <1>1 DEF CancelsRecon, AlarmsAfter, Callback
  <1>7. ~SetsRecon(x) => alarms'[R] \subseteq alarms[R]
    BY <1>1, <1>2 DEF SetsRecon, AlarmsAfter, IRequest, Callback, Call
  <1>8. OneReconnectAlarm'
    <2>1. CASE SetsRecon(x)
      BY <1>1, <1>2, <1>5, <2>1
         DEF SetsRecon, AlarmsAfter, IRequest, Callback, OneReconnectAlarm, Call
    <2>2. CASE ~SetsRecon(x)
      BY <1>7, <2>2 DEF AlarmInv, OneReconnectAlarm
    <2> QED  BY <2>1, <2>2
  <1>9. ASSUME NEW i \in 1..Len(Tail(q)), SetsRecon(Tail(q)[i])
        PROVE  \/ i = 1 /\ alarms'[R] = {}
               \/ i > 1 /\ CancelsRecon(Tail(q)[i - 1])
    <2>1. /\ i + 1 \in 1..Len(q) /\ i + 1 > 1 /\ i + 1 # 1 /\ (i + 1) - 1 = i
          /\ Tail(q)[i] = q[i + 1]
      BY <1>2
    <2>2. CancelsRecon(q[i])
      BY <1>1, <1>9, <2>1 DEF Guarded
    <2>3. CASE i = 1
      BY <1>2, <1>6, <2>2, <2>3
    <2>4. CASE i > 1
      <3>1. i - 1 \in 1..(Len(q) - 1) /\ (i - 1) + 1 = i
        BY <1>2, <2>4
      <3> QED  BY <1>2, <2>2, <2>4, <3>1
    <2> QED  BY <2>3, <2>4
  <1>10. Guarded(Tail(q), alarms'[R])
    BY <1>9 DEF Guarded
  <1> QED  BY <1>3, <1>4, <1>8, <1>10 DEF AlarmInv, Sound

LEMMA AlarmInvStep ==
    ASSUME AlarmInv, [Next]_vars
    PROVE  AlarmInv'
  <1> USE DEF Callback
  <1> DEFINE set == alarms["Recon_timer_cb"]
  <1>s. Sound(rejoin, set)
    BY DEF AlarmInv
  <1>1. CASE zboss_signal_handler
    <2>1. PICK sig, ok : rejoin' = zigbee_default_signal_handler(
                             IF Restarts(sig) THEN zi_reboot(rejoin) ELSE rejoin, sig, ok)
      BY <1>1 DEF zboss_signal_handler
    <2>2. Sound(rejoin', set)
      BY <1>s, <2>1, RebootSound, HandlerSound
    <2> QED  BY <1>1, <2>2, SameAlarmInv DEF zboss_signal_handler
  <1>2. CASE Recon_timer_cb_erase
    BY <1>2, ResetAlarmInv DEF Recon_timer_cb_erase, Restart
  <1>3. CASE Recon_timer_cb_connect
    BY <1>3, <1>s, DueAlarmInv DEF Recon_timer_cb_connect, app
  <1>4. CASE Recon_timer_cb_joined
    BY <1>4, <1>s, DueAlarmInv DEF Recon_timer_cb_joined, app
  <1>5. CASE stop_network_rejoin_alarm
    BY <1>5, <1>s, StopSound, DueAlarmInv DEF stop_network_rejoin_alarm, Requests
  <1>6. CASE rejoin_the_network_alarm
    BY <1>6, <1>s, RejoinSound, DueAlarmInv DEF rejoin_the_network_alarm, Requests
  <1>7. CASE start_network_rejoin_ED_callback
    BY <1>7, <1>s, EDSound, SameAlarmInv DEF start_network_rejoin_ED_callback, Requests
  <1>8. CASE start_network_steering
    BY <1>8, <1>s, DueAlarmInv DEF start_network_steering, app
  <1>9. CASE zb_app_cb_process
    BY <1>9, ProcessAlarmInv
  <1>10. CASE command_control_connect \/ Recon_timer_cb_indicates
    BY <1>10, <1>s, UserInputSound, SameAlarmInv
       DEF command_control_connect, Recon_timer_cb_indicates, Requests
  <1>11. CASE command_control_restart \/ command_control_hard_reset
    BY <1>11, ResetAlarmInv DEF command_control_restart, command_control_hard_reset, Restart
  <1>12. CASE main_zigbee_enable \/ command_control_reset_zigbee \/ Stack \/ Environment
    <2>1. UNCHANGED <<alarms, rejoin>>
      BY <1>12 DEF main_zigbee_enable, command_control_reset_zigbee, Stack, StackStarted,
                   SteeringEnded, Environment, NetworkLeave, OtherSignal, usb_cb, app
    <2> QED  BY <1>s, <2>1, SameAlarmInv
  <1>13. CASE Tick
    <2>1. UNCHANGED rejoin /\ alarms' = [f \in Callback |-> {t - 1 : t \in alarms[f]}]
      BY <1>13 DEF Tick, app
    <2>2. alarms' \in [Callback -> SUBSET Int]
      BY <2>1 DEF AlarmInv
    <2>3. alarms'["Recon_timer_cb"] = {t - 1 : t \in set}
      BY <2>1
    <2>4. OneReconnectAlarm'
      BY <2>3 DEF AlarmInv, OneReconnectAlarm
    <2>5. set = {} => alarms'["Recon_timer_cb"] = {}
      BY <2>3
    <2> QED  BY <2>1, <2>2, <2>4, <2>5, <1>s DEF AlarmInv, Sound, Guarded
  <1>14. CASE UNCHANGED vars
    BY <1>14, <1>s, SameAlarmInv DEF vars, app
  <1> QED  BY <1>1, <1>2, <1>3, <1>4, <1>5, <1>6, <1>7, <1>8, <1>9, <1>10, <1>11,
              <1>12, <1>13, <1>14 DEF Next, Zboss, DueCallback, com_task, Recon_timer_cb

LEMMA InitAlarm == Init => AlarmInv
  BY DEF Init, AlarmInv, Sound, Guarded, Rejoin0, IRejoin, OneReconnectAlarm, Callback

\* However many signals ask for it, and however late their requests are
\* processed, at most one reconnect alarm is set (zi_reboot).
THEOREM OneReconnectAlarmAlways == Spec => []OneReconnectAlarm
  <1>1. Init => AlarmInv
    BY InitAlarm
  <1>2. AlarmInv /\ [Next]_vars => AlarmInv'
    BY AlarmInvStep
  <1>3. AlarmInv => OneReconnectAlarm
    BY DEF AlarmInv
  <1> QED  BY <1>1, <1>2, <1>3, PTL DEF Spec
--------------------------------------------------------------------------------
\* The connection status.

ASignal == [sig : Signal, ok : BOOLEAN]

\* Not joined and never reported as joined; what waits will not change that.
OnlyLeaves ==
    /\ ~joined /\ ~connect_status
    /\ \A i \in 1..Len(signals) : Restarts(signals[i].sig) => signals[i].sig = "LEAVE"

\* What the youngest signal reports is so.
YoungestAgrees(s) ==
    IF Restarts(s.sig) THEN joined <=> s.sig # "LEAVE" /\ s.ok
    ELSE OnlyLeaves \/ (Len(signals) = 1 /\ (connect_status <=> joined))

\* Before SKIP_STARTUP is handled nothing has happened.
Cold ==
    /\ signals # <<>> => enabled /\ signals = <<[sig |-> "SKIP_STARTUP", ok |-> TRUE]>>
    /\ alarms = [f \in Callback |-> {}]
    /\ restarts = 0 /\ ~indicating
    /\ rejoin = Rejoin0 /\ bdb = "idle"
    /\ ~joined /\ ~connect_status

StatusInv ==
    /\ signals \in Seq(ASignal) /\ joined \in BOOLEAN /\ connect_status \in BOOLEAN
    /\ ~stack_initialised => Cold
    /\ stack_initialised => /\ enabled
                            /\ \A i \in 1..Len(signals) : signals[i].sig # "SKIP_STARTUP"
    /\ bdb = "starting" => stack_initialised /\ OnlyLeaves
    /\ signals # <<>> => YoungestAgrees(signals[Len(signals)])
    /\ StatusAgrees

LEMMA StatusReset ==
    ASSUME NEW kept, Restart(kept)
    PROVE  StatusInv'
  <1>1. /\ signals' = <<>> /\ ~joined' /\ ~connect_status' /\ joined' \in BOOLEAN
        /\ connect_status' \in BOOLEAN /\ bdb' = "idle" /\ ~stack_initialised'
    BY DEF Restart
  <1>2. Cold'
    BY DEF Restart, Cold
  <1>3. signals' \in Seq(ASignal)
    BY <1>1
  <1>4. StatusAgrees'
    BY <1>1 DEF StatusAgrees
  <1> QED  BY <1>1, <1>2, <1>3, <1>4 DEF StatusInv

\* A step of the stack that raises s with the device as s says.
LEMMA StatusRaise ==
    ASSUME StatusInv, stack_initialised, stack_initialised', enabled',
           NEW s \in ASignal, s.sig # "SKIP_STARTUP",
           signals' = Append(signals, s), joined' \in BOOLEAN,
           UNCHANGED connect_status, YoungestAgrees(s)',
           bdb' = "starting" => OnlyLeaves'
    PROVE  StatusInv'
  <1>1. /\ signals' \in Seq(ASignal) /\ signals' # <<>>
        /\ Len(signals') = Len(signals) + 1 /\ Len(signals) \in Nat
        /\ signals'[Len(signals')] = s
        /\ \A i \in 1..Len(signals) : signals'[i] = signals[i]
    BY DEF StatusInv
  <1>2. \A i \in 1..Len(signals') : signals'[i].sig # "SKIP_STARTUP"
    <2> TAKE i \in 1..Len(signals')
    <2>1. i \in 1..Len(signals) \/ i = Len(signals')
      BY <1>1
    <2> QED  BY <1>1, <2>1 DEF StatusInv
  <1> QED  BY <1>1, <1>2 DEF StatusInv, StatusAgrees, YoungestAgrees, OnlyLeaves

LEMMA StatusSame ==
    ASSUME StatusInv, stack_initialised, UNCHANGED <<signals, joined, connect_status, stack_initialised, enabled>>,
           bdb' = "starting" => bdb = "starting"
    PROVE  StatusInv'
  BY DEF StatusInv, StatusAgrees, YoungestAgrees, OnlyLeaves

LEMMA HandlerStatus ==
    ASSUME StatusInv, zboss_signal_handler
    PROVE  StatusInv'
  <1> DEFINE s == Head(signals)
             n == Len(signals)
  <1>1. /\ signals # <<>> /\ signals \in Seq(ASignal) /\ signals' = Tail(signals)
        /\ connect_status' = StatusAfter(s.sig, s.ok)
        /\ UNCHANGED <<joined, enabled>>
    BY DEF zboss_signal_handler, zigbee_status_update, StatusInv
  <1>2. /\ n \in Nat /\ n >= 1 /\ s = signals[1] /\ s \in ASignal
        /\ Tail(signals) \in Seq(ASignal) /\ Len(Tail(signals)) = n - 1
        /\ \A i \in 1..(n - 1) : Tail(signals)[i] = signals[i + 1]
    BY <1>1
  <1>n. signals' = <<>> <=> n = 1
    <2>1. signals' # <<>> => Len(signals') # 0
      BY <1>1, <1>2, EmptySeq
    <2>2. signals' = <<>> => Len(signals') = 0
      BY EmptySeq
    <2> QED  BY <1>1, <1>2, <2>1, <2>2
  <1>3. connect_status' \in BOOLEAN
    BY <1>1, <1>2 DEF StatusAfter, Restarts, ASignal, StatusInv
  <1>4. OnlyLeaves => OnlyLeaves'
    <2> SUFFICES ASSUME OnlyLeaves PROVE OnlyLeaves'
      OBVIOUS
    <2>1. ~connect_status'
      <3>1. Restarts(s.sig) => s.sig = "LEAVE"
        BY <1>2 DEF OnlyLeaves
      <3>2. ~StatusAfter(s.sig, s.ok)
        BY <3>1 DEF OnlyLeaves, StatusAfter
      <3> QED  BY <1>1, <3>2
    <2>2. \A i \in 1..(n - 1) : Restarts(signals[i + 1].sig) => signals[i + 1].sig = "LEAVE"
      BY <1>2 DEF OnlyLeaves
    <2> QED  BY <1>1, <1>2, <2>1, <2>2 DEF OnlyLeaves
  <1>5. CASE s.sig = "SKIP_STARTUP"
    <2>1. ~stack_initialised
      BY <1>2, <1>5 DEF StatusInv
    <2>2. Cold /\ n = 1 /\ enabled
      BY <1>1, <2>1 DEF StatusInv, Cold
    <2>3. stack_initialised' /\ signals' = <<>> /\ OnlyLeaves
      BY <1>1, <1>2, <1>5, <2>2 DEF zboss_signal_handler, Cold, OnlyLeaves, Restarts
    <2>4. OnlyLeaves'
      BY <1>4, <2>3
    <2>5. StatusAgrees' /\ joined' \in BOOLEAN
      BY <1>1, <2>4 DEF StatusAgrees, OnlyLeaves, StatusInv
    <2>6. \A i \in 1..Len(signals') : signals'[i].sig # "SKIP_STARTUP"
      BY <2>3
    <2> QED  BY <1>1, <1>2, <1>3, <2>2, <2>3, <2>4, <2>5, <2>6 DEF StatusInv
  <1>6. CASE s.sig # "SKIP_STARTUP"
    <2>1. stack_initialised /\ UNCHANGED <<stack_initialised, bdb>>
      BY <1>1, <1>2, <1>6 DEF zboss_signal_handler, StatusInv, Cold
    <2>2. \A i \in 1..Len(signals') : signals'[i].sig # "SKIP_STARTUP"
      BY <1>1, <1>2, <2>1 DEF StatusInv
    <2>3. YoungestAgrees(signals[n])
      BY <1>1 DEF StatusInv
    <2>4. signals' # <<>> => YoungestAgrees(signals[Len(signals)])'
      <3> SUFFICES ASSUME n # 1 PROVE YoungestAgrees(signals[Len(signals)])'
        BY <1>n
      <3>1. signals'[Len(signals')] = signals[n]
        BY <1>1, <1>2
      <3>2. CASE Restarts(signals[n].sig)
        BY <1>1, <2>3, <3>1, <3>2 DEF YoungestAgrees, StatusInv
      <3>3. CASE ~Restarts(signals[n].sig)
        BY <1>2, <1>4, <2>3, <3>1, <3>3 DEF YoungestAgrees
      <3> QED  BY <3>2, <3>3
    <2>5. StatusAgrees'
      <3> SUFFICES ASSUME n = 1 PROVE connect_status' <=> joined'
        BY <1>n DEF StatusAgrees
      <3>1. YoungestAgrees(s)
        BY <1>2, <2>3
      <3> QED  BY <1>1, <3>1 DEF YoungestAgrees, StatusAfter, OnlyLeaves
    <2> QED  BY <1>1, <1>2, <1>3, <1>4, <2>1, <2>2, <2>4, <2>5 DEF StatusInv
  <1> QED  BY <1>5, <1>6

\* An element of a sequence is the one appended last or was there before.
LEMMA AppendIndex ==
    ASSUME NEW q \in Seq(ASignal), NEW s \in ASignal, NEW p, p = Append(q, s)
    PROVE  \A i \in 1..Len(p) : p[i] = s \/ (i \in 1..Len(q) /\ p[i] = q[i])
  <1>1. /\ Len(q) \in Nat /\ Len(p) = Len(q) + 1
        /\ p[Len(q) + 1] = s
        /\ \A j \in 1..Len(q) : p[j] = q[j]
    OBVIOUS
  <1> TAKE i \in 1..Len(p)
  <1>2. CASE i = Len(q) + 1
    <2>1. p[i] = p[Len(q) + 1]
      BY <1>2
    <2> QED  BY <1>1, <2>1
  <1>3. CASE i # Len(q) + 1
    <2>1. i \in 1..Len(q)
      BY <1>1, <1>3
    <2> QED  BY <1>1, <2>1
  <1> QED  BY <1>2, <1>3

LEMMA StatusInvStep ==
    ASSUME StatusInv, [Next]_vars
    PROVE  StatusInv'
  <1> USE DEF Callback
  <1>1. CASE zboss_signal_handler
    BY <1>1, HandlerStatus
  <1>2. CASE Recon_timer_cb_erase \/ command_control_restart \/ command_control_hard_reset
    BY <1>2, StatusReset DEF Recon_timer_cb_erase, command_control_restart,
                             command_control_hard_reset
  <1>3. CASE \/ Recon_timer_cb_connect \/ Recon_timer_cb_joined \/ Recon_timer_cb_indicates
            \/ stop_network_rejoin_alarm \/ rejoin_the_network_alarm
            \/ start_network_rejoin_ED_callback \/ start_network_steering
    <2>1. (\E f \in Callback : Due(f)) \/ restarts > 0 \/ indicating
      BY <1>3 DEF Recon_timer_cb_connect, Recon_timer_cb_joined, stop_network_rejoin_alarm,
                  rejoin_the_network_alarm, start_network_rejoin_ED_callback,
                  start_network_steering, Recon_timer_cb_indicates
    <2>2. stack_initialised
      BY <2>1 DEF StatusInv, Cold, Due
    <2>3. /\ UNCHANGED <<signals, joined, connect_status, stack_initialised, enabled>>
          /\ bdb' = "starting" => bdb = "starting"
      BY <1>3 DEF Recon_timer_cb_connect, Recon_timer_cb_joined, stop_network_rejoin_alarm,
                  rejoin_the_network_alarm, start_network_rejoin_ED_callback,
                  start_network_steering, Recon_timer_cb_indicates, stack, app
    <2> QED  BY <2>2, <2>3, StatusSame
  <1>4. CASE zb_app_cb_process
    <2>1. stack_initialised
      BY <1>4 DEF zb_app_cb_process, StatusInv, Cold, Rejoin0
    <2> QED  BY <1>4, <2>1, StatusSame DEF zb_app_cb_process, stack
  <1>5. CASE command_control_connect
    <2>1. /\ UNCHANGED <<signals, joined, connect_status, stack_initialised, enabled, bdb, alarms,
                         restarts, indicating>>
          /\ rejoin' = user_input_indicate(rejoin)
      BY <1>5 DEF command_control_connect, Requests, stack
    <2>2. CASE stack_initialised
      BY <2>1, <2>2, StatusSame
    <2>3. CASE ~stack_initialised
      <3>1. Cold /\ UNCHANGED rejoin
        BY <2>1, <2>3 DEF StatusInv, Cold, Rejoin0, user_input_indicate, MayIndicate
      <3> QED  BY <2>1, <2>3, <3>1 DEF StatusInv, Cold, StatusAgrees, YoungestAgrees, OnlyLeaves
    <2> QED  BY <2>2, <2>3
  <1>6. CASE command_control_reset_zigbee
    <2> DEFINE s == [sig |-> "LEAVE", ok |-> TRUE]
    <2>1. /\ stack_initialised /\ ~joined' /\ joined' \in BOOLEAN
          /\ UNCHANGED <<connect_status, stack_initialised, enabled, bdb>>
      BY <1>6 DEF command_control_reset_zigbee, app
    <2>2. CASE signals' = Append(signals, s)
      <3>1. s \in ASignal /\ s.sig = "LEAVE"
        BY DEF ASignal, Signal
      <3>2. YoungestAgrees(s)'
        BY <2>1 DEF YoungestAgrees, Restarts
      <3>3. OnlyLeaves => OnlyLeaves'
        <4>1. signals \in Seq(ASignal)
          BY DEF StatusInv
        <4>2. \A i \in 1..Len(signals') :
                 signals'[i] = s \/ (i \in 1..Len(signals) /\ signals'[i] = signals[i])
          BY <2>2, <3>1, <4>1, AppendIndex
        <4> QED  BY <2>1, <3>1, <4>2 DEF OnlyLeaves
      <3> HIDE DEF s
      <3>4. enabled' /\ stack_initialised' /\ (bdb' = "starting" => OnlyLeaves')
        BY <2>1, <3>3 DEF StatusInv
      <3> QED  BY <2>1, <2>2, <3>1, <3>2, <3>4, StatusRaise
    <2>3. CASE ~joined /\ UNCHANGED signals
      BY <2>1, <2>3, StatusSame DEF StatusInv
    <2> QED  BY <1>6, <2>2, <2>3 DEF command_control_reset_zigbee
  <1>7. CASE StackStarted \/ SteeringEnded \/ NetworkLeave \/ OtherSignal
    <2>1. /\ stack_initialised /\ enabled /\ joined' \in BOOLEAN
          /\ UNCHANGED <<connect_status, stack_initialised, enabled>>
      BY <1>7 DEF StackStarted, SteeringEnded, NetworkLeave, OtherSignal, StatusInv, Cold, app
    <2>2. PICK s \in ASignal : /\ s.sig # "SKIP_STARTUP"
                               /\ signals' = Append(signals, s)
                               /\ YoungestAgrees(s)'
                               /\ bdb' # "starting"
      <3>1. CASE SteeringEnded
        <4>1. PICK ok \in BOOLEAN : Raise("STEERING", ok) /\ joined' = ok /\ bdb' = "idle"
          BY <3>1 DEF SteeringEnded
        <4> DEFINE s == [sig |-> "STEERING", ok |-> ok]
        <4>2. s \in ASignal /\ s.sig # "SKIP_STARTUP" /\ signals' = Append(signals, s)
          BY <4>1 DEF Raise, ASignal, Signal
        <4>3. YoungestAgrees(s)'
          BY <4>1 DEF YoungestAgrees, Restarts
        <4>4. bdb' # "starting"
          BY <4>1
        <4> QED  BY <4>2, <4>3, <4>4
      <3>2. CASE NetworkLeave
        <4>1. /\ Raise("LEAVE", TRUE) /\ ~joined' /\ UNCHANGED bdb
              /\ bdb # "starting"
          BY <3>2 DEF NetworkLeave, StatusInv, OnlyLeaves
        <4> DEFINE s == [sig |-> "LEAVE", ok |-> TRUE]
        <4>2. s \in ASignal /\ s.sig # "SKIP_STARTUP" /\ signals' = Append(signals, s)
          BY <4>1 DEF Raise, ASignal, Signal
        <4>3. YoungestAgrees(s)'
          BY <4>1 DEF YoungestAgrees, Restarts
        <4>4. bdb' # "starting"
          BY <4>1
        <4> QED  BY <4>2, <4>3, <4>4
      <3>3. CASE StackStarted /\ nvram
        <4>1. PICK ok \in BOOLEAN : Raise("REBOOT", ok) /\ joined' = ok /\ bdb' = "idle"
          BY <3>3 DEF StackStarted
        <4> DEFINE s == [sig |-> "REBOOT", ok |-> ok]
        <4>2. s \in ASignal /\ s.sig # "SKIP_STARTUP" /\ signals' = Append(signals, s)
          BY <4>1 DEF Raise, ASignal, Signal
        <4>3. YoungestAgrees(s)'
          BY <4>1 DEF YoungestAgrees, Restarts
        <4>4. bdb' # "starting"
          BY <4>1
        <4> QED  BY <4>2, <4>3, <4>4
      <3>4. CASE StackStarted /\ ~nvram
        <4> DEFINE s == [sig |-> "FIRST_START", ok |-> TRUE]
        <4>1. /\ signals' = Append(signals, s) /\ UNCHANGED <<joined, connect_status>>
              /\ bdb' = "idle" /\ OnlyLeaves
          BY <3>4 DEF StackStarted, StatusInv, Raise, app
        <4>2. s \in ASignal /\ ~Restarts(s.sig)
          BY DEF ASignal, Signal, Restarts
        <4>3. signals \in Seq(ASignal)
          BY DEF StatusInv
        <4>4. \A i \in 1..Len(signals') :
                 signals'[i] = s \/ (i \in 1..Len(signals) /\ signals'[i] = signals[i])
          BY <4>1, <4>2, <4>3, AppendIndex
        <4>5. OnlyLeaves'
          BY <4>1, <4>2, <4>4 DEF OnlyLeaves
        <4>6. YoungestAgrees(s)' /\ s.sig # "SKIP_STARTUP" /\ bdb' # "starting"
          BY <4>1, <4>2, <4>5 DEF YoungestAgrees
        <4> QED  BY <4>1, <4>2, <4>6
      <3>5. CASE OtherSignal
        <4> DEFINE s == [sig |-> "OTHER", ok |-> TRUE]
        <4>1. /\ signals' = Append(signals, s) /\ signals = <<>>
              /\ UNCHANGED <<joined, connect_status, bdb>> /\ bdb # "starting"
          BY <3>5 DEF OtherSignal, Radio, Raise, app
        <4>2. s \in ASignal /\ ~Restarts(s.sig) /\ s.sig # "SKIP_STARTUP"
          BY DEF ASignal, Signal, Restarts
        <4>3. Len(signals') = 1 /\ (connect_status <=> joined)
          BY <4>1 DEF StatusInv, StatusAgrees
        <4>4. YoungestAgrees(s)'
          BY <4>1, <4>2, <4>3 DEF YoungestAgrees
        <4> QED  BY <4>1, <4>2, <4>4
      <3> QED  BY <1>7, <3>1, <3>2, <3>3, <3>4, <3>5
    <2> QED  BY <2>1, <2>2, StatusRaise
  <1>8. CASE main_zigbee_enable
    <2>1. /\ ~stack_initialised /\ Cold /\ signals' = <<[sig |-> "SKIP_STARTUP", ok |-> TRUE]>>
          /\ enabled'
          /\ UNCHANGED <<joined, connect_status, bdb, stack_initialised, alarms, rejoin,
                         restarts, indicating>>
      BY <1>8 DEF main_zigbee_enable, StatusInv, app, zboss
    <2>2. Cold'
      BY <2>1 DEF Cold
    <2>3. signals' \in Seq(ASignal) /\ signals' # <<>> /\ Len(signals') = 1
          /\ signals'[1].sig = "SKIP_STARTUP"
      BY <2>1 DEF ASignal, Signal
    <2>4. OnlyLeaves'
      BY <2>1, <2>3 DEF OnlyLeaves, Cold, Restarts
    <2>5. YoungestAgrees(signals[Len(signals)])'
      BY <2>3, <2>4 DEF YoungestAgrees, Restarts
    <2> QED  BY <2>1, <2>2, <2>3, <2>4, <2>5 DEF StatusInv, StatusAgrees, Cold
  <1>9. CASE (\E s \in UsbStatus : usb_cb(s)) \/ Tick \/ UNCHANGED vars
    <2>1. /\ UNCHANGED <<signals, joined, connect_status, stack_initialised, enabled, bdb, rejoin,
                         restarts, indicating>>
          /\ alarms = [f \in Callback |-> {}] => UNCHANGED alarms
      <3>1. CASE \E s \in UsbStatus : usb_cb(s)
        BY <3>1 DEF usb_cb, stack, app, zboss
      <3>2. CASE Tick
        BY <3>2 DEF Tick, stack, app, zboss
      <3>3. CASE UNCHANGED vars
        BY <3>3 DEF vars, stack, app, zboss
      <3> QED  BY <1>9, <3>1, <3>2, <3>3
    <2>2. CASE stack_initialised
      BY <2>1, <2>2, StatusSame
    <2>3. CASE ~stack_initialised
      <3>1. Cold /\ UNCHANGED alarms
        BY <2>1, <2>3 DEF StatusInv, Cold
      <3> QED  BY <2>1, <2>3, <3>1 DEF StatusInv, Cold, StatusAgrees, YoungestAgrees, OnlyLeaves
    <2> QED  BY <2>2, <2>3
  <1> QED  BY <1>1, <1>2, <1>3, <1>4, <1>5, <1>6, <1>7, <1>8, <1>9
           DEF Next, Zboss, DueCallback, com_task, Recon_timer_cb, Stack, Environment

LEMMA InitStatus == Init => StatusInv
  <1> SUFFICES ASSUME Init PROVE StatusInv
    OBVIOUS
  <1>1. Cold
    BY DEF Init, Cold
  <1>2. /\ signals = <<>> /\ joined = FALSE /\ connect_status = FALSE
        /\ stack_initialised = FALSE /\ bdb = "idle"
    BY DEF Init
  <1>3. signals \in Seq(ASignal)
    BY <1>2
  <1> QED  BY <1>1, <1>2, <1>3 DEF StatusInv, StatusAgrees

\* When no signal waits, register 20 says whether the device is joined
\* (zigbee_status_update).
THEOREM StatusAlwaysAgrees == Spec => []StatusAgrees
  <1>1. Init => StatusInv
    BY InitStatus
  <1>2. StatusInv /\ [Next]_vars => StatusInv'
    BY StatusInvStep
  <1>3. StatusInv => StatusAgrees
    BY DEF StatusInv
  <1> QED  BY <1>1, <1>2, <1>3, PTL DEF Spec
--------------------------------------------------------------------------------
\* Erasing a stored network.
\*
\* A device that has a network stored and is not joined has not been joined since
\* it was started.  While it searches, an alarm that gives up is set, or will be,
\* and is due before any reconnect alarm.

Sets(x, f) == x.op = "alarm" /\ x.func = f
GivesUp(x) == Sets(x, "stop_network_rejoin")
Tries(x) == x = Call
GoesOn(x) == x.op = "cancel" /\ x.func = "stop_network_rejoin"

\* The queue q leaves the alarm that gives up as it is; q sets it, and leaves it.
Kept(q) == \A k \in 1..Len(q) : ~GoesOn(q[k])
Queued(q) == \E k \in 1..Len(q) : /\ GivesUp(q[k])
                                  /\ \A j \in 1..Len(q) : j > k => ~GoesOn(q[j])
Armed(q, set) == (set # {} /\ Kept(q)) \/ Queued(q)
Before(q, set, t) == (Kept(q) /\ \E s \in set : s < t) \/ (Queued(q) /\ t = ReconnectDelay)

\* The user's restart is not asked for; one is on its way outside of the queue.
NoTry(q) == \A k \in 1..Len(q) : ~Tries(q[k])
Restarting == restarts > 0 \/ indicating

Idle(r) == ~r.started /\ ~r.wait_for_user_input

Pursuit(r, set) == r.started => ~r.wait_for_user_input /\ Armed(r.requests, set)

Later(r, set, recon, restarting) ==
    /\ restarting \/ ~NoTry(r.requests) => \A t \in recon : t = ReconnectDelay
    /\ ~r.wait_for_user_input => \A t \in recon : Before(r.requests, set, t)

Stored == nvram /\ ~joined
FailuresOnly ==
    \A k \in 1..Len(signals) :
        Restarts(signals[k].sig) => signals[k].sig # "LEAVE" /\ ~signals[k].ok

NoAlarms == [f \in Callback |-> {}]
EraseInv ==
    /\ \A s \in alarms["stop_network_rejoin"] : 0 <= s /\ s <= RejoinTimeout
    /\ indicating => rejoin.wait_for_user_input
    /\ Stored =>
          /\ FailuresOnly
          /\ Pursuit(rejoin, alarms["stop_network_rejoin"])
          /\ Idle(rejoin) => rejoin.requests = <<>> /\ alarms = NoAlarms
          /\ ~asked => Later(rejoin, alarms["stop_network_rejoin"], alarms["Recon_timer_cb"],
                             Restarting)

\* What a request at the end of the queue changes.
LEMMA AppendKeeps ==
    ASSUME NEW q \in Seq(IRequest), NEW x \in IRequest
    PROVE  LET p == Append(q, x)
           IN  /\ p \in Seq(IRequest)
               /\ Kept(q) /\ ~GoesOn(x) => Kept(p)
               /\ Queued(q) /\ ~GoesOn(x) => Queued(p)
               /\ GivesUp(x) => Queued(p)
               /\ NoTry(q) /\ ~Tries(x) => NoTry(p)
  <1> DEFINE p == Append(q, x)
             n == Len(q)
  <1>1. /\ p \in Seq(IRequest) /\ Len(p) = n + 1 /\ n \in Nat
        /\ p[n + 1] = x
        /\ \A k \in 1..n : p[k] = q[k]
    OBVIOUS
  <1> HIDE DEF p, n
  <1>2. \A k \in 1..Len(p) : k = n + 1 \/ k \in 1..n
    BY <1>1
  <1>3. \A k \in 1..n : k \in 1..Len(p) /\ k # n + 1
    BY <1>1
  <1>4. n + 1 \in 1..Len(p)
    BY <1>1
  <1>5. Kept(q) /\ ~GoesOn(x) => Kept(p)
    BY <1>1, <1>2 DEF Kept, n
  <1>6. Queued(q) /\ ~GoesOn(x) => Queued(p)
    <2> SUFFICES ASSUME Queued(q), ~GoesOn(x) PROVE Queued(p)
      OBVIOUS
    <2>1. PICK k \in 1..n : GivesUp(q[k]) /\ \A j \in 1..n : j > k => ~GoesOn(q[j])
      BY DEF Queued, n
    <2>2. k \in 1..Len(p) /\ GivesUp(p[k])
      BY <1>1, <1>3, <2>1
    <2>3. \A j \in 1..Len(p) : j > k => ~GoesOn(p[j])
      BY <1>1, <1>2, <2>1
    <2> QED  BY <2>2, <2>3 DEF Queued
  <1>7. GivesUp(x) => Queued(p)
    <2>1. \A j \in 1..Len(p) : ~(j > n + 1)
      BY <1>1
    <2> QED  BY <1>1, <1>4, <2>1 DEF Queued
  <1>8. NoTry(q) /\ ~Tries(x) => NoTry(p)
    BY <1>1, <1>2 DEF NoTry, n
  <1> QED  BY <1>1, <1>5, <1>6, <1>7, <1>8 DEF p

\* What is left when the oldest request is taken.
LEMMA TailKeeps ==
    ASSUME NEW q \in Seq(IRequest), q # <<>>
    PROVE  LET p == Tail(q)
               x == Head(q)
           IN  /\ Kept(q) => Kept(p) /\ ~GoesOn(x)
               /\ Queued(q) /\ ~GivesUp(x) => Queued(p)
               /\ Queued(q) /\ GivesUp(x) => Kept(p) \/ Queued(p)
               /\ NoTry(q) => NoTry(p) /\ ~Tries(x)
  <1> DEFINE p == Tail(q)
             x == Head(q)
             n == Len(q)
  <1>1. /\ n \in Nat /\ n >= 1 /\ Len(p) = n - 1 /\ x = q[1]
        /\ \A k \in 1..Len(p) : p[k] = q[k + 1]
    OBVIOUS
  <1> HIDE DEF p, x, n
  <1>2. \A k \in 1..Len(p) : k + 1 \in 1..n /\ k + 1 # 1
    BY <1>1
  <1>3. 1 \in 1..n
    BY <1>1
  <1>4. \A k \in 1..n : k # 1 => k - 1 \in 1..Len(p) /\ (k - 1) + 1 = k
    BY <1>1
  <1>5. Kept(q) => Kept(p) /\ ~GoesOn(x)
    BY <1>1, <1>2, <1>3 DEF Kept, n
  <1>6. ASSUME Queued(q) PROVE Queued(p) \/ (GivesUp(x) /\ Kept(p))
    <2>1. PICK k \in 1..n : GivesUp(q[k]) /\ \A j \in 1..n : j > k => ~GoesOn(q[j])
      BY <1>6 DEF Queued, n
    <2>2. CASE k = 1
      <3>1. \A j \in 1..Len(p) : ~GoesOn(p[j])
        BY <1>1, <1>2, <2>1, <2>2
      <3> QED  BY <1>1, <2>1, <2>2, <3>1 DEF Kept
    <2>3. CASE k # 1
      <3>1. k - 1 \in 1..Len(p) /\ GivesUp(p[k - 1])
        BY <1>1, <1>4, <2>1, <2>3
      <3>2. \A j \in 1..Len(p) : j > k - 1 => ~GoesOn(p[j])
        BY <1>1, <1>2, <2>1
      <3> QED  BY <3>1, <3>2 DEF Queued
    <2> QED  BY <2>2, <2>3
  <1>7. NoTry(q) => NoTry(p) /\ ~Tries(x)
    BY <1>1, <1>2, <1>3 DEF NoTry, n
  <1> QED  BY <1>5, <1>6, <1>7 DEF p, x

--------------------------------------------------------------------------------
\* The functions of zigbee_app_utils.c and zi_reboot in the pursuit.

LEMMA NewRequestKinds ==
    /\ LET x == Cancel("Recon_timer_cb") IN x \in IRequest /\ ~GoesOn(x) /\ ~Tries(x)
    /\ LET x == Alarm("Recon_timer_cb", ReconnectDelay)
       IN  x \in IRequest /\ ~GoesOn(x) /\ ~Tries(x)
    /\ LET x == Cancel("start_network_steering") IN x \in IRequest /\ ~GoesOn(x) /\ ~Tries(x)
    /\ LET x == Cancel("stop_network_rejoin") IN x \in IRequest /\ ~Tries(x)
    /\ LET x == Alarm("stop_network_rejoin", RejoinTimeout)
       IN  x \in IRequest /\ ~GoesOn(x) /\ ~Tries(x) /\ GivesUp(x)
    /\ LET x == Alarm("rejoin_the_network", 1) IN x \in IRequest /\ ~GoesOn(x) /\ ~Tries(x)
    /\ Call \in IRequest /\ ~GoesOn(Call)
    /\ \A n \in Nat : LET x == Alarm("start_network_steering", Interval(n))
                      IN  x \in IRequest /\ ~GoesOn(x) /\ ~Tries(x)
  <1> USE DEF IRequest, Known, Callback, Cancel, Alarm, Call, GoesOn, Tries, Sets, GivesUp
  <1>1. RejoinTimeout \in Int /\ ReconnectDelay \in Int
    BY DelayTypes
  <1>2. \A n \in Nat : LET x == Alarm("start_network_steering", Interval(n))
                       IN  x \in IRequest /\ ~GoesOn(x) /\ ~Tries(x)
    <2> TAKE n \in Nat
    <2> DEFINE d == Interval(n)
    <2>1. d \in Int
      BY DelayTypes
    <2> HIDE DEF d
    <2>2. LET x == Alarm("start_network_steering", d) IN x \in IRequest /\ ~GoesOn(x) /\ ~Tries(x)
      BY <2>1
    <2> QED  BY <2>2 DEF d
  <1>3. LET x == Cancel("Recon_timer_cb") IN x \in IRequest /\ ~GoesOn(x) /\ ~Tries(x)
    OBVIOUS
  <1>4. LET x == Alarm("Recon_timer_cb", ReconnectDelay)
        IN  x \in IRequest /\ ~GoesOn(x) /\ ~Tries(x)
    BY <1>1
  <1>5. LET x == Cancel("start_network_steering") IN x \in IRequest /\ ~GoesOn(x) /\ ~Tries(x)
    OBVIOUS
  <1>6. LET x == Cancel("stop_network_rejoin") IN x \in IRequest /\ ~Tries(x)
    OBVIOUS
  <1>7. LET x == Alarm("stop_network_rejoin", RejoinTimeout)
        IN  x \in IRequest /\ ~GoesOn(x) /\ ~Tries(x) /\ GivesUp(x)
    BY <1>1
  <1>8. LET x == Alarm("rejoin_the_network", 1) IN x \in IRequest /\ ~GoesOn(x) /\ ~Tries(x)
    OBVIOUS
  <1>9. Call \in IRequest /\ ~GoesOn(Call)
    OBVIOUS
  <1> QED  BY <1>2, <1>3, <1>4, <1>5, <1>6, <1>7, <1>8, <1>9

\* A request that concerns neither alarm changes nothing.
LEMMA OtherRequest ==
    ASSUME NEW r \in IRejoin, NEW s \in IRejoin, NEW set, NEW recon, NEW b,
           NEW x \in IRequest, ~GoesOn(x), ~Tries(x),
           s.requests = Append(r.requests, x),
           s.started = r.started, s.wait_for_user_input = r.wait_for_user_input
    PROVE  /\ Pursuit(r, set) => Pursuit(s, set)
           /\ Later(r, set, recon, b) => Later(s, set, recon, b)
           /\ Idle(s) <=> Idle(r)
  <1>1. r.requests \in Seq(IRequest)
    BY DEF IRejoin
  <1>2. /\ Kept(r.requests) => Kept(s.requests)
        /\ Queued(r.requests) => Queued(s.requests)
        /\ NoTry(r.requests) => NoTry(s.requests)
    BY <1>1, AppendKeeps
  <1> QED  BY <1>2 DEF Pursuit, Later, Idle, Armed, Before

LEMMA RejoinPursues ==
    ASSUME NEW r \in IRejoin, NEW set, NEW recon, NEW b
    PROVE  LET s == rejoin_the_network(r)
           IN  /\ s \in IRejoin
               /\ Pursuit(r, set) => Pursuit(s, set)
               /\ Later(r, set, recon, b) => Later(s, set, recon, b)
               /\ Idle(s) <=> Idle(r)
               /\ Idle(r) => s = r
  <1> DEFINE s == rejoin_the_network(r)
             x == Alarm("start_network_steering", Interval(r.attempt_cnt))
  <1>1. CASE stack_initialised /\ r.started /\ ~r.in_progress
    <2>1. r.attempt_cnt \in Nat /\ NextAttempt(r.attempt_cnt) \in Nat
      BY DelayTypes DEF IRejoin
    <2>2. x \in IRequest /\ ~GoesOn(x) /\ ~Tries(x)
      BY <2>1, NewRequestKinds
    <2> HIDE DEF x
    <2>3. s = [r EXCEPT !.attempt_cnt = NextAttempt(@), !.in_progress = TRUE,
                        !.requests = Append(@, x)]
      BY <1>1 DEF rejoin_the_network, x
    <2>4. Append(r.requests, x) \in Seq(IRequest)
      BY <2>2 DEF IRejoin
    <2> HIDE DEF s
    <2>5. /\ s \in IRejoin /\ s.requests = Append(r.requests, x)
          /\ s.started = r.started /\ s.wait_for_user_input = r.wait_for_user_input
      BY <2>1, <2>3, <2>4 DEF IRejoin
    <2>6. /\ Pursuit(r, set) => Pursuit(s, set)
          /\ Later(r, set, recon, b) => Later(s, set, recon, b)
          /\ Idle(s) <=> Idle(r)
      BY <2>2, <2>5, OtherRequest
    <2> QED  BY <1>1, <2>5, <2>6 DEF Idle, s
  <1>2. CASE ~(stack_initialised /\ r.started /\ ~r.in_progress)
    BY <1>2 DEF rejoin_the_network
  <1> QED  BY <1>1, <1>2

LEMMA StartPursues ==
    ASSUME NEW r \in IRejoin, NEW set, NEW recon, NEW b,
           stack_initialised, ~joined, Pursuit(r, set)
    PROVE  LET s == start_network_rejoin(r)
           IN  /\ s \in IRejoin /\ ~Idle(s)
               /\ Pursuit(s, set)
               /\ Later(r, set, recon, b) /\ (Idle(r) => recon = {}) => Later(s, set, recon, b)
  <1> DEFINE s == start_network_rejoin(r)
             x == Alarm("stop_network_rejoin", RejoinTimeout)
  <1>1. CASE r.wait_for_user_input
    BY <1>1 DEF start_network_rejoin, Idle
  <1>2. CASE ~r.wait_for_user_input /\ r.started
    <2>1. s = [r EXCEPT !.in_progress = FALSE]
      BY <1>2 DEF start_network_rejoin
    <2> HIDE DEF s
    <2>2. /\ s \in IRejoin /\ s.requests = r.requests
          /\ s.started = r.started /\ s.wait_for_user_input = r.wait_for_user_input
      BY <2>1 DEF IRejoin
    <2> QED  BY <1>2, <2>2 DEF Pursuit, Later, Idle, s
  <1>3. CASE ~r.wait_for_user_input /\ ~r.started
    <2>1. x \in IRequest /\ ~GoesOn(x) /\ ~Tries(x) /\ GivesUp(x)
      BY NewRequestKinds
    <2> HIDE DEF x
    <2>2. s = [r EXCEPT !.in_progress = FALSE, !.started = TRUE, !.attempt_cnt = 0,
                        !.wait_for_user_input = FALSE, !.start_scheduled = FALSE,
                        !.requests = Append(@, x)]
      BY <1>3 DEF start_network_rejoin, x
    <2>3. r.requests \in Seq(IRequest) /\ Append(r.requests, x) \in Seq(IRequest)
      BY <2>1 DEF IRejoin
    <2> HIDE DEF s
    <2>4. /\ s \in IRejoin /\ s.requests = Append(r.requests, x)
          /\ s.started /\ ~s.wait_for_user_input
      BY <2>2, <2>3 DEF IRejoin
    <2>6. Queued(s.requests)
      BY <2>1, <2>3, <2>4, AppendKeeps
    <2>7. Pursuit(s, set)
      BY <2>4, <2>6 DEF Pursuit, Armed
    <2>8. Idle(r) /\ (recon = {} => Later(s, set, recon, b))
      BY <1>3 DEF Idle, Later
    <2> QED  BY <2>4, <2>7, <2>8 DEF Idle, s
  <1> QED  BY <1>1, <1>2, <1>3 DEF IRejoin

LEMMA RebootPursues ==
    ASSUME NEW r \in IRejoin, NEW set, NEW recon, NEW b, Pursuit(r, set)
    PROVE  LET s == zi_reboot(r)
           IN  /\ s \in IRejoin /\ Pursuit(s, set) /\ (Idle(s) <=> Idle(r))
               /\ Later(r, set, recon, b) => Later(s, set, recon, b)
  <1> DEFINE x == Cancel("Recon_timer_cb")
             y == Alarm("Recon_timer_cb", ReconnectDelay)
             t == [r EXCEPT !.requests = Append(@, x)]
             s == [t EXCEPT !.requests = Append(@, y)]
  <1>1. /\ x \in IRequest /\ ~GoesOn(x) /\ ~Tries(x)
        /\ y \in IRequest /\ ~GoesOn(y) /\ ~Tries(y)
    BY NewRequestKinds
  <1>2. zi_reboot(r) = s
    BY DEF zi_reboot, IRejoin
  <1> HIDE DEF x, y
  <1>3. Append(r.requests, x) \in Seq(IRequest)
    BY <1>1 DEF IRejoin
  <1>4. /\ t \in IRejoin /\ t.requests = Append(r.requests, x)
        /\ t.started = r.started /\ t.wait_for_user_input = r.wait_for_user_input
    BY <1>3 DEF IRejoin
  <1>5. /\ Pursuit(t, set)
        /\ Later(r, set, recon, b) => Later(t, set, recon, b)
        /\ Idle(t) <=> Idle(r)
    BY <1>1, <1>4, OtherRequest
  <1> HIDE DEF t
  <1>6. Append(t.requests, y) \in Seq(IRequest)
    BY <1>1, <1>4 DEF IRejoin
  <1>7. /\ s \in IRejoin /\ s.requests = Append(t.requests, y)
        /\ s.started = t.started /\ s.wait_for_user_input = t.wait_for_user_input
    BY <1>4, <1>6 DEF IRejoin
  <1> HIDE DEF s
  <1>8. /\ Pursuit(s, set)
        /\ Later(t, set, recon, b) => Later(s, set, recon, b)
        /\ Idle(s) <=> Idle(t)
    BY <1>1, <1>4, <1>5, <1>7, OtherRequest
  <1> QED  BY <1>2, <1>5, <1>7, <1>8

\* The user's request, by the button or by the reconnect alarm.
LEMMA UserInputPursues ==
    ASSUME NEW r \in IRejoin, NEW set, NEW recon, NEW b, Pursuit(r, set)
    PROVE  LET s == Indicated(r)
           IN  /\ Pursuit(s, set)
               /\ s.started = r.started /\ s.wait_for_user_input = r.wait_for_user_input
               /\ Later(r, set, recon, TRUE) => Later(s, set, recon, b)
  <1> DEFINE s == Indicated(r)
  <1>1. Call \in IRequest /\ ~GoesOn(Call) /\ r.requests \in Seq(IRequest)
    BY NewRequestKinds DEF IRejoin
  <1>2. /\ s.requests = Append(r.requests, Call)
        /\ s.started = r.started /\ s.wait_for_user_input = r.wait_for_user_input
    BY DEF Indicated, IRejoin
  <1> HIDE DEF s
  <1>3. /\ Kept(r.requests) => Kept(s.requests)
        /\ Queued(r.requests) => Queued(s.requests)
    BY <1>1, <1>2, AppendKeeps
  <1> QED  BY <1>2, <1>3 DEF Pursuit, Later, Armed, Before, s

\* The procedure gives up.
LEMMA StopPursues ==
    ASSUME NEW r \in IRejoin, NEW set, NEW set2, NEW recon, NEW b, Pursuit(r, set)
    PROVE  LET s == stop_network_rejoin(r, TRUE)
           IN  /\ Pursuit(s, set2) /\ ~Idle(s)
               /\ Later(r, set, recon, b) => Later(s, set2, recon, b)
  <1> DEFINE x == Cancel("start_network_steering")
             y == Cancel("stop_network_rejoin")
             q == IF r.started THEN Append(r.requests, x) ELSE r.requests
             s == stop_network_rejoin(r, TRUE)
  <1>1. /\ x \in IRequest /\ ~GoesOn(x) /\ ~Tries(x)
        /\ y \in IRequest /\ ~Tries(y)
    BY NewRequestKinds
  <1>2. s = [r EXCEPT !.wait_for_user_input = TRUE, !.started = FALSE,
                      !.requests = Append(q, y)]
    BY DEF stop_network_rejoin
  <1> HIDE DEF x, y, s
  <1>3. r.requests \in Seq(IRequest)
    BY DEF IRejoin
  <1>4. /\ q \in Seq(IRequest)
        /\ NoTry(r.requests) => NoTry(q)
    BY <1>1, <1>3, AppendKeeps
  <1> HIDE DEF q
  <1>5. /\ s.requests = Append(q, y) /\ ~s.started /\ s.wait_for_user_input
    BY <1>2 DEF IRejoin
  <1>6. NoTry(r.requests) => NoTry(s.requests)
    BY <1>1, <1>4, <1>5, AppendKeeps
  <1> QED  BY <1>5, <1>6 DEF Pursuit, Later, Idle, s

\* The user's restart: the alarm that gives up is asked for again.
LEMMA EDPursues ==
    ASSUME NEW r \in IRejoin, NEW set, NEW recon, NEW b, Pursuit(r, set),
           stack_initialised, ~joined
    PROVE  LET s == start_network_rejoin_ED(r)
           IN  /\ Pursuit(s, set) /\ (Idle(s) => Idle(r))
               /\ Later(r, set, recon, TRUE) => Later(s, set, recon, b)
  <1> DEFINE s == start_network_rejoin_ED(r)
  <1>1. CASE r.wait_for_user_input
    <2> DEFINE x == Alarm("stop_network_rejoin", RejoinTimeout)
               y == Alarm("rejoin_the_network", 1)
               q == Append(r.requests, x)
    <2>1. /\ x \in IRequest /\ ~GoesOn(x) /\ GivesUp(x)
          /\ y \in IRequest /\ ~GoesOn(y)
      BY NewRequestKinds
    <2>2. ~r.started /\ r.requests \in Seq(IRequest)
      BY <1>1 DEF Pursuit, IRejoin
    <2>3. s.requests = Append(q, y) /\ s.started /\ ~s.wait_for_user_input
      BY <1>1, <2>2 DEF start_network_rejoin_ED, start_network_rejoin, IRejoin
    <2> HIDE DEF x, y, s
    <2>4. q \in Seq(IRequest) /\ Queued(q)
      BY <2>1, <2>2, AppendKeeps
    <2> HIDE DEF q
    <2>5. Queued(s.requests)
      BY <2>1, <2>3, <2>4, AppendKeeps
    <2>6. Pursuit(s, set) /\ ~Idle(s)
      BY <2>3, <2>5 DEF Pursuit, Armed, Idle
    <2>7. Later(r, set, recon, TRUE) => Later(s, set, recon, b)
      BY <2>3, <2>5 DEF Later, Before
    <2> QED  BY <2>6, <2>7 DEF s
  <1>2. CASE ~r.wait_for_user_input
    <2>1. s = [r EXCEPT !.start_scheduled = FALSE]
      BY <1>2 DEF start_network_rejoin_ED
    <2> HIDE DEF s
    <2>2. /\ s.requests = r.requests
          /\ s.started = r.started /\ s.wait_for_user_input = r.wait_for_user_input
      BY <2>1 DEF IRejoin
    <2> QED  BY <2>2 DEF Pursuit, Later, Idle, s
  <1> QED  BY <1>1, <1>2

--------------------------------------------------------------------------------
\* Erasing: the steps.

LEMMA EraseReset ==
    ASSUME NEW kept, Restart(kept)
    PROVE  EraseInv'
  <1>1. /\ signals' = <<>> /\ rejoin' = Rejoin0 /\ alarms' = NoAlarms
    BY DEF Restart, NoAlarms
  <1>2. FailuresOnly'
    BY <1>1 DEF FailuresOnly
  <1>3. \A f \in Callback : alarms'[f] = {}
    BY <1>1 DEF NoAlarms
  <1>4. Pursuit(rejoin', {}) /\ Later(rejoin', {}, {}, Restarting')
    BY <1>1 DEF Pursuit, Later, Rejoin0
  <1>5. rejoin'.requests = <<>> /\ ~indicating'
    BY <1>1 DEF Rejoin0, Restart
  <1> QED  BY <1>1, <1>2, <1>3, <1>4, <1>5 DEF EraseInv, Callback, NoAlarms

\* While the network is stored the ZBOSS thread keeps the rest.
LEMMA EraseKept ==
    ASSUME EraseInv, Stored' => Stored,
           \A s \in alarms'["stop_network_rejoin"] : 0 <= s /\ s <= RejoinTimeout,
           indicating' => rejoin'.wait_for_user_input,
           Stored => FailuresOnly',
           Stored =>
             /\ Pursuit(rejoin', alarms'["stop_network_rejoin"])
             /\ Idle(rejoin') => rejoin'.requests = <<>> /\ alarms' = NoAlarms
             /\ ~asked' => Later(rejoin', alarms'["stop_network_rejoin"],
                                 alarms'["Recon_timer_cb"], Restarting')
    PROVE  EraseInv'
  BY DEF EraseInv, NoAlarms

\* An alarm that is due: the procedure is not idle.
LEMMA DueErase ==
    ASSUME AlarmInv, EraseInv, Stored, NEW f \in Callback, 0 \in alarms[f]
    PROVE  ~Idle(rejoin)
  <1>1. alarms # NoAlarms
    BY DEF NoAlarms
  <1> QED  BY <1>1 DEF EraseInv

\* The alarm that gives up is set for RejoinTimeout at most.
LEMMA StopTimes ==
    ASSUME AlarmInv, EraseInv, NEW s \in alarms["stop_network_rejoin"]
    PROVE  s \in Int /\ 0 <= s /\ s <= RejoinTimeout /\ s < ReconnectDelay
  <1>1. s \in Int
    BY DEF AlarmInv, Callback
  <1> QED  BY <1>1, DelayAssumption DEF EraseInv

LEMMA HandlerErase ==
    ASSUME AlarmInv, StatusInv, EraseInv, zboss_signal_handler
    PROVE  EraseInv'
  <1> DEFINE set == alarms["stop_network_rejoin"]
             recon == alarms["Recon_timer_cb"]
             sig == Head(signals).sig
             ok == Head(signals).ok
             r == IF Restarts(sig) THEN zi_reboot(rejoin) ELSE rejoin
  <1>1. /\ signals # <<>> /\ signals \in Seq(ASignal) /\ signals' = Tail(signals)
        /\ rejoin' = zigbee_default_signal_handler(r, sig, ok)
        /\ UNCHANGED <<joined, nvram, alarms, asked, restarts, indicating>> /\ ~indicating
    BY DEF zboss_signal_handler, ZbossFree, StatusInv
  <1>2. /\ Head(signals) = signals[1] /\ 1 \in 1..Len(signals) /\ signals[1] \in ASignal
        /\ Len(Tail(signals)) = Len(signals) - 1 /\ Len(signals) \in Nat
        /\ \A k \in 1..Len(Tail(signals)) : Tail(signals)[k] = signals[k + 1]
    BY <1>1
  <1>3. ASSUME Stored PROVE FailuresOnly'
    <2>1. \A k \in 1..Len(Tail(signals)) : k + 1 \in 1..Len(signals)
      BY <1>2
    <2> QED  BY <1>1, <1>2, <1>3, <2>1 DEF EraseInv, FailuresOnly
  <1>4. ASSUME Stored
        PROVE  /\ Pursuit(rejoin', set)
               /\ Idle(rejoin') => rejoin'.requests = <<>> /\ alarms = NoAlarms
               /\ ~asked => Later(rejoin', set, recon, Restarting)
    <2>1. /\ rejoin \in IRejoin /\ Pursuit(rejoin, set)
          /\ Idle(rejoin) => rejoin.requests = <<>> /\ alarms = NoAlarms
          /\ ~asked => Later(rejoin, set, recon, Restarting)
      BY <1>4 DEF EraseInv, AlarmInv, Sound
    <2>2. Restarts(sig) => sig # "LEAVE" /\ ~ok
      BY <1>2, <1>4 DEF EraseInv, FailuresOnly
    <2>3. /\ r \in IRejoin /\ Pursuit(r, set) /\ (Idle(r) <=> Idle(rejoin))
          /\ Later(rejoin, set, recon, Restarting) => Later(r, set, recon, Restarting)
      BY <2>1, RebootPursues
    <2>4. ~Restarts(sig) => r = rejoin
      OBVIOUS
    <2>5. Idle(r) => recon = {}
      BY <2>1, <2>3 DEF NoAlarms, Callback
    <2> HIDE DEF r, sig, ok
    <2>6. CASE rejoin' = rejoin_the_network(start_network_rejoin(r)) /\ stack_initialised
      <3> DEFINE s == start_network_rejoin(r)
      <3>1. s \in IRejoin /\ ~Idle(s) /\ Pursuit(s, set)
            /\ (Later(r, set, recon, Restarting) => Later(s, set, recon, Restarting))
        BY <1>4, <2>3, <2>5, <2>6, StartPursues DEF Stored
      <3> HIDE DEF s
      <3>2. /\ Pursuit(rejoin', set) /\ ~Idle(rejoin')
            /\ Later(s, set, recon, Restarting) => Later(rejoin', set, recon, Restarting)
        BY <2>6, <3>1, RejoinPursues DEF s
      <3> QED  BY <2>1, <2>3, <3>1, <3>2
    <2>7. CASE rejoin' = rejoin_the_network(r) /\ ~Restarts(sig)
      <3>1. /\ Pursuit(rejoin', set) /\ (Idle(rejoin') <=> Idle(rejoin))
            /\ Later(rejoin, set, recon, Restarting) => Later(rejoin', set, recon, Restarting)
            /\ Idle(rejoin) => rejoin' = rejoin
        BY <2>1, <2>4, <2>7, RejoinPursues
      <3> QED  BY <2>1, <3>1
    <2>8. stack_initialised \/ sig = "SKIP_STARTUP"
      BY <1>1, <1>2 DEF StatusInv, Cold, sig
    <2>9. \/ rejoin' = rejoin_the_network(start_network_rejoin(r))
          \/ rejoin' = rejoin_the_network(r) /\ ~Restarts(sig)
      BY <1>1, <2>2 DEF zigbee_default_signal_handler, Restarts
    <2>10. sig = "SKIP_STARTUP" => rejoin' = rejoin_the_network(r) /\ ~Restarts(sig)
      BY <1>1 DEF zigbee_default_signal_handler, Restarts
    <2> QED  BY <2>6, <2>7, <2>8, <2>9, <2>10
  <1>5. (Stored' => Stored) /\ \A s \in alarms'["stop_network_rejoin"] : 0 <= s /\ s <= RejoinTimeout
    BY <1>1 DEF Stored, EraseInv
  <1> QED  BY <1>1, <1>3, <1>4, <1>5, EraseKept DEF Restarting

LEMMA ProcessErase ==
    ASSUME AlarmInv, EraseInv, zb_app_cb_process
    PROVE  EraseInv'
  <1> DEFINE set == alarms["stop_network_rejoin"]
             recon == alarms["Recon_timer_cb"]
             q == rejoin.requests
             x == Head(q)
             p == Tail(q)
  <1>1. /\ q \in Seq(IRequest) /\ q # <<>> /\ x \in IRequest /\ rejoin \in IRejoin
        /\ alarms \in [Callback -> SUBSET Int] /\ Guarded(q, recon)
        /\ rejoin' = [rejoin EXCEPT !.requests = p] /\ alarms' = AlarmsAfter(x)
        /\ asked' = (asked /\ x # Alarm("Recon_timer_cb", ReconnectDelay))
        /\ UNCHANGED <<joined, nvram, signals, indicating>> /\ ~indicating
        /\ restarts' = IF Tries(x) THEN restarts + 1 ELSE restarts
    BY DEF zb_app_cb_process, AlarmInv, Sound, IRejoin, Tries, stack
  <1>2. /\ rejoin'.requests = p /\ rejoin'.started = rejoin.started
        /\ rejoin'.wait_for_user_input = rejoin.wait_for_user_input
    BY <1>1 DEF IRejoin
  <1>3. x = q[1] /\ 1 \in 1..Len(q)
    BY <1>1
  <1>4. /\ Kept(q) => Kept(p) /\ ~GoesOn(x)
        /\ Queued(q) /\ ~GivesUp(x) => Queued(p)
        /\ Queued(q) /\ GivesUp(x) => Kept(p) \/ Queued(p)
        /\ NoTry(q) => NoTry(p) /\ ~Tries(x)
    BY <1>1, TailKeeps
  <1>5. SetsRecon(x) => recon = {}
    BY <1>1, <1>3 DEF Guarded
  <1> HIDE DEF q, x, p
  <1> DEFINE set2 == alarms'["stop_network_rejoin"]
             recon2 == alarms'["Recon_timer_cb"]
             b == Restarting
             b2 == Restarting'
  <1>6. /\ GivesUp(x) => set2 = set \cup {RejoinTimeout}
        /\ ~GivesUp(x) /\ ~GoesOn(x) => set2 = set
        /\ GoesOn(x) => set2 = {}
    BY <1>1 DEF AlarmsAfter, GivesUp, GoesOn, Sets, IRequest, Known, Callback, Call
  <1>7. b2 \/ ~NoTry(p) => b \/ ~NoTry(q)
    BY <1>1, <1>4 DEF Restarting
  <1>8. /\ SetsRecon(x) => recon2 = recon \cup {ReconnectDelay}
        /\ ~SetsRecon(x) => recon2 \subseteq recon
    BY <1>1 DEF AlarmsAfter, SetsRecon, IRequest, Known, Callback, Call
  <1>9. SetsRecon(x) => ~GivesUp(x) /\ ~GoesOn(x)
    BY DEF SetsRecon, GivesUp, GoesOn, Sets
  <1>10. x = Alarm("Recon_timer_cb", ReconnectDelay) => SetsRecon(x)
    BY DEF Alarm, SetsRecon
  <1> HIDE DEF set2, recon2, b, b2
  <1>11. ASSUME NEW s \in set2 PROVE 0 <= s /\ s <= RejoinTimeout
    BY <1>6, <1>11, DelayAssumption DEF EraseInv
  <1>12. ASSUME Stored
         PROVE  /\ Pursuit(rejoin', set2) /\ ~Idle(rejoin')
                /\ ~asked' => Later(rejoin', set2, recon2, b2)
    <2>1. /\ Pursuit(rejoin, set) /\ ~Idle(rejoin)
          /\ ~asked => Later(rejoin, set, recon, b)
      BY <1>1, <1>12 DEF EraseInv, q, b
    <2>2. RejoinTimeout \in Int /\ ReconnectDelay \in Int /\ RejoinTimeout < ReconnectDelay
      BY DelayAssumption
    <2>3. Armed(q, set) => Armed(p, set2)
      BY <1>4, <1>6 DEF Armed
    <2>6. Pursuit(rejoin', set2)
      BY <1>2, <2>1, <2>3 DEF Pursuit, q
    <2>7. ~Idle(rejoin')
      BY <1>2, <2>1 DEF Idle
    <2>8. ASSUME ~asked', SetsRecon(x) PROVE Later(rejoin', set2, recon2, b2)
      <3>1. recon2 = {ReconnectDelay} /\ set2 = set
        BY <1>5, <1>6, <1>8, <1>9, <2>8
      <3>2. ASSUME ~rejoin'.wait_for_user_input PROVE Before(p, set2, ReconnectDelay)
        <4>1. Armed(p, set2)
          BY <1>2, <2>1, <2>3, <3>2 DEF Pursuit, Idle, q
        <4>2. \A s \in set2 : s < ReconnectDelay
          BY <1>1, <2>2, <3>1, StopTimes
        <4> QED  BY <4>1, <4>2 DEF Armed, Before
      <3> QED  BY <1>2, <3>1, <3>2 DEF Later
    <2>9. ASSUME ~asked', ~SetsRecon(x) PROVE Later(rejoin', set2, recon2, b2)
      <3>1. Later(rejoin, set, recon, b) /\ recon2 \subseteq recon
        BY <1>1, <1>8, <1>10, <2>1, <2>9
      <3>2. ASSUME NEW t, Before(q, set, t), ~GoesOn(x) PROVE Before(p, set2, t)
        BY <1>4, <1>6, <2>2, <3>2 DEF Before
      <3>3. ASSUME NEW t, Before(q, set, t), GoesOn(x) PROVE Before(p, set2, t)
        <4>1. Queued(q) /\ t = ReconnectDelay /\ ~GivesUp(x)
          BY <1>4, <3>3 DEF Before, GoesOn, GivesUp, Sets
        <4> QED  BY <1>4, <4>1 DEF Before
      <3> QED  BY <1>2, <1>7, <3>1, <3>2, <3>3 DEF Later, q
    <2> QED  BY <2>6, <2>7, <2>8, <2>9
  <1>13. (Stored' => Stored) /\ (Stored => FailuresOnly')
    BY <1>1 DEF Stored, EraseInv, FailuresOnly
  <1> QED  BY <1>1, <1>11, <1>12, <1>13, EraseKept DEF set2, recon2, b2

LEMMA TickErase ==
    ASSUME AlarmInv, EraseInv, Tick
    PROVE  EraseInv'
  <1> DEFINE set == alarms["stop_network_rejoin"]
             recon == alarms["Recon_timer_cb"]
             Sooner(a) == {t - 1 : t \in a}
  <1>1. /\ rejoin.requests = <<>> /\ \A f \in Callback : 0 \notin alarms[f]
        /\ alarms' = [f \in Callback |-> Sooner(alarms[f])]
        /\ UNCHANGED <<rejoin, joined, nvram, signals, asked, restarts, indicating>>
        /\ ~indicating /\ ~Restarting
    BY DEF Tick, app, zboss, Restarting
  <1>2. /\ alarms'["stop_network_rejoin"] = Sooner(set)
        /\ alarms'["Recon_timer_cb"] = Sooner(recon)
        /\ 0 \notin set
    BY <1>1 DEF Callback
  <1>3. \A s \in Sooner(set) : 0 <= s /\ s <= RejoinTimeout
    <2> SUFFICES ASSUME NEW s \in set PROVE 0 <= s - 1 /\ s - 1 <= RejoinTimeout
      OBVIOUS
    <2>1. s # 0
      BY <1>2
    <2> QED  BY <2>1, StopTimes, DelayAssumption
  <1>4. ASSUME Stored
        PROVE  /\ Pursuit(rejoin, Sooner(set))
               /\ Idle(rejoin) => rejoin.requests = <<>> /\ alarms' = NoAlarms
               /\ ~asked => Later(rejoin, Sooner(set), Sooner(recon), Restarting)
    <2>1. /\ Pursuit(rejoin, set)
          /\ Idle(rejoin) => alarms = NoAlarms
          /\ ~asked => Later(rejoin, set, recon, Restarting)
      BY <1>4 DEF EraseInv
    <2>2. ~Queued(rejoin.requests) /\ NoTry(rejoin.requests)
      BY <1>1 DEF Queued, NoTry
    <2>5. Pursuit(rejoin, Sooner(set))
      BY <2>1, <2>2 DEF Pursuit, Armed
    <2>6. Idle(rejoin) => alarms' = NoAlarms
      <3> SUFFICES ASSUME Idle(rejoin) PROVE alarms' = NoAlarms
        OBVIOUS
      <3>1. \A f \in Callback : Sooner(alarms[f]) = {}
        BY <2>1 DEF NoAlarms
      <3> QED  BY <1>1, <3>1 DEF NoAlarms
    <2>7. ASSUME ~asked, ~rejoin.wait_for_user_input, NEW t \in recon
          PROVE  Before(rejoin.requests, Sooner(set), t - 1)
      <3>1. PICK s \in set : s < t /\ Kept(rejoin.requests)
        BY <2>1, <2>2, <2>7 DEF Later, Before
      <3>2. s \in Int /\ t \in Int
        BY StopTimes DEF AlarmInv, Callback
      <3>3. s - 1 \in Sooner(set) /\ s - 1 < t - 1
        BY <3>1, <3>2
      <3> QED  BY <3>1, <3>3 DEF Before
    <2>8. ~asked => Later(rejoin, Sooner(set), Sooner(recon), Restarting)
      BY <1>1, <2>2, <2>7 DEF Later
    <2> QED  BY <1>1, <2>5, <2>6, <2>8
  <1>5. (Stored' => Stored) /\ (Stored => FailuresOnly')
    BY <1>1 DEF Stored, EraseInv, FailuresOnly
  <1> HIDE DEF Sooner
  <1> QED  BY <1>1, <1>2, <1>3, <1>4, <1>5, EraseKept DEF Restarting

\* A signal of a failure leaves only failures.
LEMMA RaiseErase ==
    ASSUME StatusInv, EraseInv, NEW s \in ASignal, signals' = Append(signals, s),
           Stored' => Stored /\ (Restarts(s.sig) => s.sig # "LEAVE" /\ ~s.ok),
           UNCHANGED <<rejoin, alarms, asked, restarts, indicating>>
    PROVE  EraseInv'
  <1>1. ASSUME Stored' PROVE FailuresOnly'
    <2>1. signals \in Seq(ASignal)
      BY DEF StatusInv
    <2>2. \A k \in 1..Len(signals') :
             signals'[k] = s \/ (k \in 1..Len(signals) /\ signals'[k] = signals[k])
      BY <2>1, AppendIndex
    <2> QED  BY <1>1, <2>2 DEF EraseInv, FailuresOnly
  <1> QED  BY <1>1 DEF EraseInv, NoAlarms, Restarting

LEMMA SameErase ==
    ASSUME EraseInv, UNCHANGED <<rejoin, alarms, asked, signals, restarts, indicating>>, Stored' => Stored
    PROVE  EraseInv'
  BY DEF EraseInv, FailuresOnly, NoAlarms, Restarting

LEMMA EraseInvStep ==
    ASSUME AlarmInv, StatusInv, EraseInv, [Next]_vars
    PROVE  EraseInv'
  <1> USE DEF Callback
  <1> DEFINE set == alarms["stop_network_rejoin"]
             recon == alarms["Recon_timer_cb"]
  <1>t. /\ rejoin \in IRejoin /\ alarms \in [Callback -> SUBSET Int]
        /\ \A s \in set : 0 <= s /\ s <= RejoinTimeout
    BY DEF AlarmInv, Sound, EraseInv
  <1>s. ASSUME Stored
        PROVE  /\ Pursuit(rejoin, set) /\ FailuresOnly /\ ~joined
               /\ ~asked => Later(rejoin, set, recon, Restarting)
    BY <1>s DEF EraseInv, Stored
  \* What taking an alarm that is due leaves of the three.
  <1>d. ASSUME NEW f \in Callback, Due(f)
        PROVE  /\ alarms'["stop_network_rejoin"] =
                     IF f = "stop_network_rejoin" THEN set \ {0} ELSE set
               /\ alarms'["Recon_timer_cb"] =
                     IF f = "Recon_timer_cb" THEN recon \ {0} ELSE recon
               /\ 0 \in alarms[f] /\ ~indicating
               /\ \A s \in alarms'["stop_network_rejoin"] : 0 <= s /\ s <= RejoinTimeout
               /\ Stored => ~Idle(rejoin)
    <2>1. /\ alarms' = [alarms EXCEPT ![f] = @ \ {0}] /\ 0 \in alarms[f] /\ ~indicating
      BY <1>d DEF Due, ZbossFree
    <2>2. /\ alarms'["stop_network_rejoin"] =
                     IF f = "stop_network_rejoin" THEN set \ {0} ELSE set
          /\ alarms'["Recon_timer_cb"] =
                     IF f = "Recon_timer_cb" THEN recon \ {0} ELSE recon
      BY <1>t, <2>1
    <2>3. \A s \in alarms'["stop_network_rejoin"] : 0 <= s /\ s <= RejoinTimeout
      BY <1>t, <2>2
    <2>4. Stored => ~Idle(rejoin)
      BY <2>1, DueErase
    <2> QED  BY <2>1, <2>2, <2>3, <2>4
  <1>1. CASE zboss_signal_handler
    BY <1>1, HandlerErase
  <1>2. CASE Recon_timer_cb_erase \/ command_control_restart \/ command_control_hard_reset
    BY <1>2, EraseReset DEF Recon_timer_cb_erase, command_control_restart,
                            command_control_hard_reset
  <1>3. CASE Recon_timer_cb_connect
    <2>1. /\ Due("Recon_timer_cb") /\ indicating' = MayIndicate(rejoin)
          /\ UNCHANGED <<rejoin, joined, nvram, signals, asked>>
      BY <1>3 DEF Recon_timer_cb_connect, stack, app
    <2>2. recon \ {0} = {}
      BY <2>1 DEF Due, AlarmInv, OneReconnectAlarm
    <2>3. ASSUME Stored
          PROVE  /\ Pursuit(rejoin', set) /\ ~Idle(rejoin')
                 /\ Later(rejoin', set, {}, Restarting')
      BY <1>s, <1>d, <2>1, <2>3 DEF Later
    <2>4. (Stored' => Stored) /\ (Stored => FailuresOnly')
      BY <1>s, <2>1 DEF Stored, FailuresOnly
    <2>5. /\ alarms'["stop_network_rejoin"] = set
          /\ alarms'["Recon_timer_cb"] = {}
          /\ \A s \in alarms'["stop_network_rejoin"] : 0 <= s /\ s <= RejoinTimeout
      BY <1>d, <2>1, <2>2
    <2>6. indicating' => rejoin'.wait_for_user_input
      BY <2>1 DEF MayIndicate
    <2> QED  BY <2>3, <2>4, <2>5, <2>6, EraseKept
  <1>4. CASE Recon_timer_cb_joined
    <2>1. Due("Recon_timer_cb") /\ joined /\ UNCHANGED <<joined, indicating>>
      BY <1>4 DEF Recon_timer_cb_joined, stack, zboss
    <2>2. ~Stored' /\ ~indicating' /\ \A s \in alarms'["stop_network_rejoin"] : 0 <= s /\ s <= RejoinTimeout
      BY <1>d, <2>1 DEF Stored
    <2> QED  BY <2>2 DEF EraseInv
  <1>5. CASE stop_network_rejoin_alarm
    <2>1. /\ Due("stop_network_rejoin") /\ rejoin' = stop_network_rejoin(rejoin, TRUE)
          /\ UNCHANGED <<joined, nvram, signals, asked, restarts, indicating>>
      BY <1>5 DEF stop_network_rejoin_alarm, Requests, stack
    <2> DEFINE set2 == set \ {0}
    <2>2. ASSUME Stored
          PROVE  /\ Pursuit(rejoin', set2) /\ ~Idle(rejoin')
                 /\ ~asked => Later(rejoin', set2, recon, Restarting)
      <3>1. Pursuit(rejoin, set) /\ (~asked => Later(rejoin, set, recon, Restarting))
        BY <1>s, <2>2
      <3> QED  BY <1>t, <2>1, <3>1, StopPursues
    <2>3. (Stored' => Stored) /\ (Stored => FailuresOnly')
      BY <1>s, <2>1 DEF Stored, FailuresOnly
    <2>4. /\ alarms'["stop_network_rejoin"] = set2
          /\ alarms'["Recon_timer_cb"] = recon
          /\ \A s \in alarms'["stop_network_rejoin"] : 0 <= s /\ s <= RejoinTimeout
      BY <1>d, <2>1
    <2> QED  BY <1>d, <2>1, <2>2, <2>3, <2>4, EraseKept DEF Restarting
  <1>6. CASE rejoin_the_network_alarm \/ start_network_steering
    <2>1. PICK f \in {"rejoin_the_network", "start_network_steering"} : Due(f)
      BY <1>6 DEF rejoin_the_network_alarm, start_network_steering
    <2>2. /\ rejoin' = rejoin_the_network(rejoin) \/ rejoin' = rejoin
          /\ UNCHANGED <<joined, nvram, signals, asked, restarts, indicating>>
      BY <1>6 DEF rejoin_the_network_alarm, start_network_steering, Requests, stack, app, zboss
    <2>3. ASSUME Stored
          PROVE  /\ Pursuit(rejoin', set) /\ ~Idle(rejoin')
                 /\ ~asked => Later(rejoin', set, recon, Restarting)
      <3>1. ~Idle(rejoin) /\ Pursuit(rejoin, set) /\ (~asked => Later(rejoin, set, recon, Restarting))
        BY <1>s, <1>d, <2>1, <2>3
      <3> QED  BY <1>t, <2>2, <3>1, RejoinPursues
    <2>4. (Stored' => Stored) /\ (Stored => FailuresOnly')
      BY <1>s, <2>2 DEF Stored, FailuresOnly
    <2>5. /\ alarms'["stop_network_rejoin"] = set
          /\ alarms'["Recon_timer_cb"] = recon
          /\ \A s \in alarms'["stop_network_rejoin"] : 0 <= s /\ s <= RejoinTimeout
      BY <1>d, <2>1
    <2> QED  BY <1>d, <2>1, <2>2, <2>3, <2>4, <2>5, EraseKept DEF Restarting
  <1>7. CASE start_network_rejoin_ED_callback
    <2>1. /\ restarts > 0 /\ ~indicating /\ rejoin' = start_network_rejoin_ED(rejoin)
          /\ UNCHANGED <<joined, nvram, signals, asked, alarms, indicating>>
      BY <1>7 DEF start_network_rejoin_ED_callback, ZbossFree, Requests, stack
    <2>2. stack_initialised
      BY <2>1 DEF StatusInv, Cold
    <2>3. ASSUME Stored
          PROVE  /\ Pursuit(rejoin', set)
                 /\ Idle(rejoin') => rejoin'.requests = <<>> /\ alarms' = NoAlarms
                 /\ ~asked => Later(rejoin', set, recon, Restarting')
      <3>1. /\ Pursuit(rejoin, set) /\ ~joined
            /\ ~asked => Later(rejoin, set, recon, TRUE)
        BY <1>s, <2>1, <2>3 DEF Restarting, Later
      <3>2. /\ Pursuit(rejoin', set) /\ (Idle(rejoin') => Idle(rejoin))
            /\ Later(rejoin, set, recon, TRUE) => Later(rejoin', set, recon, Restarting')
        BY <1>t, <2>1, <2>2, <3>1, EDPursues
      <3>3. Idle(rejoin) => rejoin' = [rejoin EXCEPT !.start_scheduled = FALSE]
        BY <2>1 DEF Idle, start_network_rejoin_ED
      <3>4. Idle(rejoin) => rejoin'.requests = rejoin.requests
        BY <1>t, <3>3 DEF IRejoin
      <3>5. Idle(rejoin) => rejoin.requests = <<>> /\ alarms = NoAlarms
        BY <2>3 DEF EraseInv
      <3> QED  BY <2>1, <3>1, <3>2, <3>4, <3>5
    <2>4. (Stored' => Stored) /\ (Stored => FailuresOnly')
      BY <1>s, <2>1 DEF Stored, FailuresOnly
    <2> QED  BY <1>t, <2>1, <2>3, <2>4, EraseKept
  <1>8. CASE zb_app_cb_process
    BY <1>8, ProcessErase
  <1>9. CASE command_control_connect
    <2>1. /\ rejoin' = user_input_indicate(rejoin) /\ UNCHANGED alarms
          /\ asked' = (asked \/ rejoin' # rejoin)
          /\ UNCHANGED <<joined, nvram, signals, restarts, indicating>>
      BY <1>9 DEF command_control_connect, Requests, stack
    <2>2. Stored' => Stored
      BY <2>1 DEF Stored
    <2>3. CASE rejoin' = rejoin
      BY <2>1, <2>2, <2>3 DEF EraseInv, FailuresOnly, NoAlarms, Restarting
    <2>4. CASE rejoin' # rejoin
      <3>0. rejoin' = Indicated(rejoin) /\ rejoin.wait_for_user_input
        BY <2>1, <2>4 DEF user_input_indicate, MayIndicate
      <3>5. rejoin'.wait_for_user_input
        BY <1>t, <3>0 DEF Indicated, IRejoin
      <3>1. ASSUME Stored
            PROVE  Pursuit(rejoin', set) /\ ~Idle(rejoin')
        BY <1>t, <1>s, <3>0, <3>1, <3>5, UserInputPursues DEF Idle
      <3>2. Stored => FailuresOnly'
        BY <1>s, <2>1 DEF FailuresOnly
      <3>3. asked'
        BY <2>1, <2>4
      <3>4. \A s \in alarms'["stop_network_rejoin"] : 0 <= s /\ s <= RejoinTimeout
        BY <1>t, <2>1
      <3> QED  BY <2>1, <2>2, <3>1, <3>2, <3>3, <3>4, <3>5, EraseKept
    <2> QED  BY <2>3, <2>4
  <1>10. CASE command_control_reset_zigbee \/ NetworkLeave
    <2>1. ~nvram' /\ UNCHANGED <<alarms, indicating, rejoin>>
      BY <1>10 DEF command_control_reset_zigbee, NetworkLeave, zboss, app
    <2> QED  BY <1>t, <2>1 DEF EraseInv, Stored
  <1>11. CASE main_zigbee_enable
    <2>1. /\ signals' = <<[sig |-> "SKIP_STARTUP", ok |-> TRUE]>>
          /\ UNCHANGED <<rejoin, alarms, asked, joined, nvram, restarts, indicating>>
      BY <1>11 DEF main_zigbee_enable, app, zboss
    <2>2. FailuresOnly'
      BY <2>1 DEF FailuresOnly, Restarts
    <2> QED  BY <2>1, <2>2 DEF EraseInv, Stored, NoAlarms, Restarting
  <1>12. CASE StackStarted
    <2>1. ~joined /\ UNCHANGED <<rejoin, alarms, asked, nvram, restarts, indicating>>
      BY <1>12 DEF StackStarted, StatusInv, OnlyLeaves, app, zboss
    <2>2. PICK s \in ASignal :
             /\ signals' = Append(signals, s)
             /\ Stored' => Stored /\ (Restarts(s.sig) => s.sig # "LEAVE" /\ ~s.ok)
      <3>1. CASE nvram
        <4>1. PICK ok \in BOOLEAN : Raise("REBOOT", ok) /\ joined' = ok
          BY <1>12, <3>1 DEF StackStarted
        <4> DEFINE s == [sig |-> "REBOOT", ok |-> ok]
        <4>2. s \in ASignal /\ signals' = Append(signals, s) /\ s.sig # "LEAVE" /\ s.ok = ok
          BY <4>1 DEF Raise, ASignal, Signal
        <4> HIDE DEF s
        <4> QED  BY <2>1, <4>1, <4>2 DEF Stored
      <3>2. CASE ~nvram
        <4> DEFINE s == [sig |-> "FIRST_START", ok |-> TRUE]
        <4>1. s \in ASignal /\ signals' = Append(signals, s) /\ ~Restarts(s.sig)
          BY <1>12, <3>2 DEF StackStarted, Raise, ASignal, Signal, Restarts
        <4> HIDE DEF s
        <4> QED  BY <2>1, <3>2, <4>1 DEF Stored
      <3> QED  BY <3>1, <3>2
    <2> QED  BY <2>1, <2>2, RaiseErase
  <1>13. CASE SteeringEnded
    <2>1. PICK ok \in BOOLEAN : /\ joined => ok
                                /\ joined' = ok /\ nvram' = (nvram \/ ok)
                                /\ Raise("STEERING", ok)
                                /\ UNCHANGED <<rejoin, alarms, asked, restarts, indicating>>
      BY <1>13 DEF SteeringEnded, app, zboss
    <2> DEFINE s == [sig |-> "STEERING", ok |-> ok]
    <2>2. s \in ASignal /\ signals' = Append(signals, s) /\ s.sig # "LEAVE" /\ s.ok = ok
      BY <2>1 DEF Raise, ASignal, Signal
    <2> HIDE DEF s
    <2>3. Stored' => Stored /\ ~ok
      BY <2>1 DEF Stored
    <2> QED  BY <2>1, <2>2, <2>3, RaiseErase
  <1>14. CASE Tick
    BY <1>14, TickErase
  <1>15. CASE (\E s \in UsbStatus : usb_cb(s)) \/ UNCHANGED vars
    <2>1. UNCHANGED <<rejoin, alarms, asked, signals, joined, nvram, restarts, indicating>>
      BY <1>15 DEF usb_cb, vars, stack, app, zboss
    <2> QED  BY <2>1, SameErase DEF Stored
  <1>16. CASE OtherSignal
    <2> DEFINE s == [sig |-> "OTHER", ok |-> TRUE]
    <2>1. /\ s \in ASignal /\ signals' = Append(signals, s) /\ ~Restarts(s.sig)
          /\ UNCHANGED <<rejoin, alarms, asked, joined, nvram, restarts, indicating>>
      BY <1>16 DEF OtherSignal, Raise, ASignal, Signal, Restarts, app, zboss
    <2> HIDE DEF s
    <2> QED  BY <2>1, RaiseErase DEF Stored
  <1>17. CASE Recon_timer_cb_indicates
    <2>1. /\ indicating /\ ~indicating' /\ rejoin' = Indicated(rejoin)
          /\ UNCHANGED <<joined, nvram, signals, alarms, asked>>
      BY <1>17 DEF Recon_timer_cb_indicates, Requests, stack
    <2>2. ASSUME Stored
          PROVE  /\ Pursuit(rejoin', set) /\ ~Idle(rejoin')
                 /\ ~asked => Later(rejoin', set, recon, Restarting')
      <3>1. /\ Pursuit(rejoin, set) /\ rejoin.wait_for_user_input
            /\ ~asked => Later(rejoin, set, recon, TRUE)
        BY <1>s, <2>1, <2>2 DEF Restarting, Later, EraseInv
      <3>2. /\ Pursuit(rejoin', set) /\ rejoin'.wait_for_user_input = rejoin.wait_for_user_input
            /\ Later(rejoin, set, recon, TRUE) => Later(rejoin', set, recon, Restarting')
        BY <1>t, <2>1, <3>1, UserInputPursues
      <3> QED  BY <3>1, <3>2 DEF Idle
    <2>3. (Stored' => Stored) /\ (Stored => FailuresOnly')
      BY <1>s, <2>1 DEF Stored, FailuresOnly
    <2> QED  BY <1>t, <2>1, <2>2, <2>3, EraseKept
  <1> QED  BY <1>1, <1>2, <1>3, <1>4, <1>5, <1>6, <1>7, <1>8, <1>9, <1>10, <1>11,
              <1>12, <1>13, <1>14, <1>15, <1>16, <1>17
           DEF Next, Zboss, DueCallback, com_task, Recon_timer_cb, Stack, Environment

\* A stored network is erased only after the rejoin procedure has given up on it, or
\* after CODE_CONNECT_BUTTON has restarted it: for all delays of which the reconnect
\* delay is the longer one (Recon_timer_cb, main.c:180).
THEOREM EraseAlwaysAfterGivingUp == Spec => EraseOnlyAfterGivingUp
  <1>1. Init => AlarmInv
    BY InitAlarm
  <1>2. Init => StatusInv
    BY InitStatus
  <1>3. Init => EraseInv
    <2> SUFFICES ASSUME Init PROVE EraseInv
      OBVIOUS
    <2>1. signals = <<>> /\ rejoin = Rejoin0 /\ alarms = NoAlarms /\ ~indicating
      BY DEF Init, NoAlarms
    <2>2. FailuresOnly /\ \A f \in Callback : alarms[f] = {}
      BY <2>1 DEF FailuresOnly, NoAlarms
    <2>3. /\ Pursuit(rejoin, {}) /\ Later(rejoin, {}, {}, Restarting) /\ rejoin.requests = <<>>
      BY <2>1 DEF Pursuit, Later, Rejoin0
    <2> QED  BY <2>1, <2>2, <2>3 DEF EraseInv, Callback
  <1>4. AlarmInv /\ StatusInv /\ EraseInv /\ [Next]_vars
           => (AlarmInv /\ StatusInv /\ EraseInv)'
    BY AlarmInvStep, StatusInvStep, EraseInvStep
  <1>5. AlarmInv /\ StatusInv /\ EraseInv /\ Recon_timer_cb_erase /\ nvram
           => asked \/ rejoin.wait_for_user_input
    <2> SUFFICES ASSUME AlarmInv, StatusInv, EraseInv, Recon_timer_cb_erase, nvram,
                        ~asked, ~rejoin.wait_for_user_input
                 PROVE  FALSE
      OBVIOUS
    <2>1. Stored /\ 0 \in alarms["Recon_timer_cb"]
      BY DEF Recon_timer_cb_erase, Stored
    <2>2. Before(rejoin.requests, alarms["stop_network_rejoin"], 0)
      BY <2>1 DEF EraseInv, Later
    <2>3. ~(0 = ReconnectDelay) /\ \A s \in alarms["stop_network_rejoin"] : ~(s < 0)
      BY StopTimes, DelayAssumption
    <2> QED  BY <2>2, <2>3 DEF Before
  <1>6. AlarmInv /\ StatusInv /\ EraseInv /\ [Next]_vars =>
           [Recon_timer_cb_erase /\ nvram => (asked \/ rejoin.wait_for_user_input)]_vars
    BY <1>5
  <1> QED  BY <1>1, <1>2, <1>3, <1>4, <1>6, PTL DEF Spec, EraseOnlyAfterGivingUp
--------------------------------------------------------------------------------
\* The room in the queue.
\*
\* What the queue will hold before it is emptied depends on what will be set once
\* it has been: Pending(q, set, f) are the alarms of f that are set when q has been
\* processed and set was set before.

Cancels(x, f) == x.op = "cancel" /\ x.func = f
Spares(q, i, f) == \A j \in 1..Len(q) : j > i => ~Cancels(q[j], f)
Pending(q, set, f) ==
    {t \in set[f] : Spares(q, 0, f)}
        \cup {q[i].after : i \in {k \in 1..Len(q) : Sets(q[k], f) /\ Spares(q, k, f)}}

\* The request at the end of the queue has the last word.
LastWord(q, x, p, set, f) ==
    /\ Sets(x, f) => Pending(p, set, f) = Pending(q, set, f) \cup {x.after}
    /\ Cancels(x, f) => Pending(p, set, f) = {}
    /\ ~Sets(x, f) /\ ~Cancels(x, f) => Pending(p, set, f) = Pending(q, set, f)

LEMMA AppendPending ==
    ASSUME NEW q \in Seq(IRequest), NEW x \in IRequest, NEW set, NEW f,
           NEW p, p = Append(q, x)
    PROVE  LastWord(q, x, p, set, f)
  <1> DEFINE n == Len(q)
  <1>1. /\ Len(p) = n + 1 /\ n \in Nat
        /\ p[n + 1] = x
        /\ \A k \in 1..n : p[k] = q[k]
    OBVIOUS
  <1> HIDE DEF n
  <1>2. \A k \in 1..Len(p) : k = n + 1 \/ k \in 1..n
    BY <1>1
  <1>3. \A k \in 1..n : k \in 1..Len(p)
    BY <1>1
  <1>4. n + 1 \in 1..Len(p) /\ (\A k \in 1..n : n + 1 > k) /\ n + 1 > 0
    BY <1>1
  <1>5. ASSUME Cancels(x, f)
        PROVE  Pending(p, set, f) = {}
    <2>1. ~Spares(p, 0, f) /\ \A k \in 1..n : ~Spares(p, k, f)
      BY <1>1, <1>4, <1>5 DEF Spares
    <2>2. ~Sets(p[n + 1], f)
      BY <1>1, <1>5 DEF Sets, Cancels
    <2> QED  BY <1>2, <2>1, <2>2 DEF Pending
  <1>6. ASSUME ~Cancels(x, f)
        PROVE  /\ Spares(p, 0, f) <=> Spares(q, 0, f)
               /\ \A k \in 1..n : Spares(p, k, f) <=> Spares(q, k, f)
               /\ Spares(p, n + 1, f)
    <2>1. \A k \in 0..n : Spares(p, k, f) <=> Spares(q, k, f)
      BY <1>1, <1>2, <1>3, <1>6 DEF Spares, n
    <2>2. 0 \in 0..n /\ \A k \in 1..n : k \in 0..n
      BY <1>1
    <2>3. Spares(p, n + 1, f)
      BY <1>1 DEF Spares
    <2> QED  BY <2>1, <2>2, <2>3
  <1>7. ASSUME ~Cancels(x, f), ~Sets(x, f)
        PROVE  Pending(p, set, f) = Pending(q, set, f)
    <2>1. {k \in 1..Len(p) : Sets(p[k], f) /\ Spares(p, k, f)}
             = {k \in 1..n : Sets(q[k], f) /\ Spares(q, k, f)}
      BY <1>1, <1>2, <1>3, <1>6, <1>7
    <2> QED  BY <1>1, <1>6, <1>7, <2>1 DEF Pending, n
  <1>8. ASSUME Sets(x, f)
        PROVE  Pending(p, set, f) = Pending(q, set, f) \cup {x.after}
    <2>1. ~Cancels(x, f)
      BY <1>8 DEF Sets, Cancels
    <2>2. {k \in 1..Len(p) : Sets(p[k], f) /\ Spares(p, k, f)}
             = {k \in 1..n : Sets(q[k], f) /\ Spares(q, k, f)} \cup {n + 1}
      BY <1>1, <1>2, <1>3, <1>4, <1>6, <1>8, <2>1
    <2> QED  BY <1>1, <1>6, <2>1, <2>2 DEF Pending, n
  <1> QED  BY <1>5, <1>7, <1>8 DEF LastWord

\* Processing the oldest request changes nothing of what will be set.
LEMMA TailPending ==
    ASSUME NEW q \in Seq(IRequest), q # <<>>, alarms \in [Callback -> SUBSET Int],
           NEW set, set = AlarmsAfter(Head(q)), NEW f \in Callback
    PROVE  Pending(Tail(q), set, f) = Pending(q, alarms, f)
  <1> DEFINE p == Tail(q)
             x == Head(q)
             n == Len(q)
  <1>1. /\ n \in Nat /\ n >= 1 /\ Len(p) = n - 1 /\ x = q[1] /\ x \in IRequest
        /\ \A k \in 1..Len(p) : p[k] = q[k + 1]
    OBVIOUS
  <1>s. set = AlarmsAfter(x)
    OBVIOUS
  <1> HIDE DEF p, x, n
  <1>2. \A k \in 1..Len(p) : k + 1 \in 1..n
    BY <1>1
  <1>3. 1 \in 1..n
    BY <1>1
  <1>4. \A k \in 1..n : k # 1 => k - 1 \in 1..Len(p) /\ (k - 1) + 1 = k
    BY <1>1
  <1>5. \A k \in 0..Len(p) : Spares(p, k, f) <=> Spares(q, k + 1, f)
    <2> TAKE k \in 0..Len(p)
    <2>1. ASSUME Spares(p, k, f), NEW j \in 1..n, j > k + 1
          PROVE  ~Cancels(q[j], f)
      <3>1. j - 1 \in 1..Len(p) /\ (j - 1) + 1 = j /\ j - 1 > k
        BY <1>1, <2>1
      <3> QED  BY <1>1, <2>1, <3>1 DEF Spares
    <2>2. ASSUME Spares(q, k + 1, f), NEW j \in 1..Len(p), j > k
          PROVE  ~Cancels(p[j], f)
      <3>1. j + 1 \in 1..n /\ j + 1 > k + 1
        BY <1>1, <2>2
      <3> QED  BY <1>1, <2>2, <3>1 DEF Spares, n
    <2> QED  BY <2>1, <2>2 DEF Spares, n
  <1>6. Spares(q, 0, f) <=> ~Cancels(x, f) /\ Spares(q, 1, f)
    <2>1. \A j \in 1..n : (j > 0 <=> j = 1 \/ j > 1) /\ ~(1 > 1)
      BY <1>1
    <2> QED  BY <1>1, <1>3, <2>1 DEF Spares, n
  <1>7. Spares(p, 0, f) <=> Spares(q, 1, f)
    BY <1>1, <1>5
  <1>8. {p[i].after : i \in {k \in 1..Len(p) : Sets(p[k], f) /\ Spares(p, k, f)}}
           = {q[i].after : i \in {k \in 1..n : k # 1 /\ Sets(q[k], f) /\ Spares(q, k, f)}}
    <2> DEFINE A == {k \in 1..Len(p) : Sets(p[k], f) /\ Spares(p, k, f)}
               B == {k \in 1..n : k # 1 /\ Sets(q[k], f) /\ Spares(q, k, f)}
    <2>1. \A k \in A : k + 1 \in B /\ p[k].after = q[k + 1].after
      BY <1>1, <1>2, <1>5
    <2>2. ASSUME NEW k \in B PROVE k - 1 \in A /\ p[k - 1].after = q[k].after
      <3>1. k - 1 \in 1..Len(p) /\ (k - 1) + 1 = k
        BY <1>4
      <3>2. k - 1 \in 0..Len(p)
        BY <1>1, <3>1
      <3>3. p[k - 1] = q[k]
        BY <1>1, <3>1
      <3>4. Spares(p, k - 1, f)
        BY <1>5, <3>1, <3>2
      <3> QED  BY <3>1, <3>3, <3>4
    <2> HIDE DEF A, B
    <2>3. {p[i].after : i \in A} = {q[i].after : i \in B}
      BY <2>1, <2>2
    <2> QED  BY <2>3 DEF A, B
  <1> DEFINE B == {q[i].after : i \in {k \in 1..n : k # 1 /\ Sets(q[k], f) /\ Spares(q, k, f)}}
  <1>9. Pending(q, alarms, f)
           = {t \in alarms[f] : Spares(q, 0, f)} \cup B
                \cup (IF Sets(x, f) /\ Spares(q, 1, f) THEN {x.after} ELSE {})
    BY <1>1, <1>3 DEF Pending, n
  <1>10. Pending(p, set, f) = {t \in set[f] : Spares(q, 1, f)} \cup B
    BY <1>7, <1>8 DEF Pending
  <1> HIDE DEF B
  <1>11. set[f] = IF Cancels(x, f) THEN {}
                  ELSE IF Sets(x, f) THEN alarms[f] \cup {x.after} ELSE alarms[f]
    <2>1. CASE x = Call
      BY <1>s, <2>1 DEF AlarmsAfter, Cancels, Sets, Call
    <2>2. CASE x.op = "cancel"
      BY <1>s, <2>2 DEF AlarmsAfter, Cancels, Sets
    <2>3. CASE x.op = "alarm"
      BY <1>s, <2>3 DEF AlarmsAfter, Cancels, Sets
    <2> QED  BY <1>1, <2>1, <2>2, <2>3 DEF IRequest
  <1>12. ~(Cancels(x, f) /\ Sets(x, f))
    BY DEF Cancels, Sets
  <1>13. Pending(p, set, f) = Pending(q, alarms, f)
    BY <1>6, <1>9, <1>10, <1>11, <1>12
  <1> QED  BY <1>13 DEF p

\* Nothing is queued; an alarm is taken; an alarm that no request cancels.
LEMMA EmptyPending ==
    ASSUME NEW set, NEW f
    PROVE  Pending(<<>>, set, f) = set[f]
  <1>1. Len(<<>>) = 0
    OBVIOUS
  <1>2. \A k \in 1..Len(<<>>) : FALSE
    BY <1>1
  <1>3. Spares(<<>>, 0, f)
    BY <1>2 DEF Spares
  <1>4. {k \in 1..Len(<<>>) : Sets(<<>>[k], f) /\ Spares(<<>>, k, f)} = {}
    BY <1>2
  <1> QED  BY <1>3, <1>4 DEF Pending

LEMMA LessPending ==
    ASSUME NEW q, NEW set, NEW less, NEW f
    PROVE  /\ less[f] = set[f] => Pending(q, less, f) = Pending(q, set, f)
           /\ less[f] \subseteq set[f] => Pending(q, less, f) \subseteq Pending(q, set, f)
           /\ less[f] = set[f] \ {0} => Pending(q, set, f) \ {0} \subseteq Pending(q, less, f)
  BY DEF Pending

LEMMA KeptPending ==
    ASSUME NEW q \in Seq(IRequest), NEW set
    PROVE  set["rejoin_the_network"] \subseteq Pending(q, set, "rejoin_the_network")
  <1>1. \A k \in 1..Len(q) : q[k] \in IRequest
    OBVIOUS
  <1>2. Spares(q, 0, "rejoin_the_network")
    BY <1>1 DEF Spares, Cancels, IRequest, Known, Call
  <1> QED  BY <1>2 DEF Pending
--------------------------------------------------------------------------------
\* What each function adds to the queue.

SameBut(q, p, set, fs) == \A f \in Callback \ fs : Pending(p, set, f) = Pending(q, set, f)
SameTries(q, p) == NoTry(q) => NoTry(p)

\* One request more.
OneMore(q, x, p, set) ==
    /\ p \in Seq(IRequest) /\ p # <<>> /\ Len(p) = Len(q) + 1
    /\ ~Tries(x) => SameTries(q, p)
    /\ \A f \in Callback : LastWord(q, x, p, set, f)

LEMMA AppendMore ==
    ASSUME NEW q \in Seq(IRequest), NEW x \in IRequest, NEW p, p = Append(q, x), NEW set
    PROVE  OneMore(q, x, p, set)
  <1>1. p \in Seq(IRequest) /\ p # <<>> /\ Len(p) = Len(q) + 1
    OBVIOUS
  <1>2. ~Tries(x) => SameTries(q, p)
    BY AppendKeeps DEF SameTries
  <1>4. \A f \in Callback : LastWord(q, x, p, set, f)
    BY AppendPending
  <1> QED  BY <1>1, <1>2, <1>4 DEF OneMore

LEMMA RebootAdds ==
    ASSUME NEW r \in IRejoin, NEW set, NEW s, s = zi_reboot(r)
    PROVE  /\ s \in IRejoin /\ s.requests # <<>>
           /\ s.started = r.started /\ s.wait_for_user_input = r.wait_for_user_input
           /\ s.start_scheduled = r.start_scheduled
           /\ Len(s.requests) = Len(r.requests) + 2
           /\ Pending(s.requests, set, "Recon_timer_cb") = {ReconnectDelay}
           /\ SameBut(r.requests, s.requests, set, {"Recon_timer_cb"})
           /\ SameTries(r.requests, s.requests)
  <1> DEFINE R == "Recon_timer_cb"
             x == Cancel(R)
             y == Alarm(R, ReconnectDelay)
             q == r.requests
             p == Append(q, x)
             o == Append(p, y)
  <1>1. q \in Seq(IRequest)
    BY DEF IRejoin
  <1>2. x \in IRequest /\ y \in IRequest /\ ~Tries(x) /\ ~Tries(y)
    BY DelayTypes DEF Cancel, Alarm, IRequest, Known, Callback, Call, Tries, Sets
  <1>3. /\ Cancels(x, R) /\ Sets(y, R) /\ y.after = ReconnectDelay
        /\ \A f \in Callback \ {R} : /\ ~Sets(x, f) /\ ~Cancels(x, f)
                                     /\ ~Sets(y, f) /\ ~Cancels(y, f)
    BY DEF Cancel, Alarm, Cancels, Sets
  <1>4. /\ s = [r EXCEPT !.requests = o]
    BY DEF zi_reboot
  <1> HIDE DEF x, y
  <1>5. OneMore(q, x, p, set)
    BY <1>1, <1>2, AppendMore
  <1>6. p \in Seq(IRequest)
    BY <1>5 DEF OneMore
  <1>7. OneMore(p, y, o, set)
    BY <1>2, <1>6, AppendMore
  <1> HIDE DEF p, o
  <1>8. Pending(o, set, R) = {ReconnectDelay}
    BY <1>3, <1>5, <1>7 DEF OneMore, LastWord, Callback
  <1>9. SameBut(q, o, set, {R})
    BY <1>3, <1>5, <1>7 DEF OneMore, LastWord, SameBut
  <1>10. SameTries(q, o) /\ o # <<>> /\ o \in Seq(IRequest)
    BY <1>2, <1>5, <1>7 DEF OneMore, SameTries
  <1>11. Len(o) = Len(q) + 2
    <2>1. Len(q) \in Nat /\ Len(p) = Len(q) + 1 /\ Len(o) = Len(p) + 1
      BY <1>1, <1>5, <1>7 DEF OneMore
    <2> QED  BY <2>1
  <1>12. /\ s.requests = o /\ s.started = r.started /\ s.start_scheduled = r.start_scheduled
         /\ s.wait_for_user_input = r.wait_for_user_input /\ s \in IRejoin
    BY <1>4, <1>10 DEF IRejoin
  <1> QED  BY <1>8, <1>9, <1>10, <1>11, <1>12

LEMMA StopAdds ==
    ASSUME NEW r \in IRejoin, NEW set, NEW w \in BOOLEAN, NEW s, s = stop_network_rejoin(r, w)
    PROVE  /\ s \in IRejoin /\ s.requests # <<>>
           /\ ~s.started /\ s.wait_for_user_input = w
           /\ s.start_scheduled = r.start_scheduled
           /\ Len(s.requests) = Len(r.requests) + (IF r.started THEN 2 ELSE 1)
           /\ Pending(s.requests, set, "stop_network_rejoin") = {}
           /\ SameBut(r.requests, s.requests, set, {"stop_network_rejoin", "start_network_steering"})
           /\ SameTries(r.requests, s.requests)
  <1> DEFINE S == "stop_network_rejoin"
             T == "start_network_steering"
             x == Cancel(T)
             y == Cancel(S)
             q == r.requests
             p1 == Append(q, x)
             p == IF r.started THEN p1 ELSE q
             o == Append(p, y)
  <1>1. q \in Seq(IRequest) /\ r.started \in BOOLEAN
    BY DEF IRejoin
  <1>2. x \in IRequest /\ y \in IRequest /\ ~Tries(x) /\ ~Tries(y)
    BY DelayTypes DEF Cancel, IRequest, Known, Callback, Call, Tries, Sets
  <1>3. /\ Cancels(y, S)
        /\ \A f \in Callback \ {S, T} : /\ ~Sets(x, f) /\ ~Cancels(x, f)
                                        /\ ~Sets(y, f) /\ ~Cancels(y, f)
    BY DEF Cancel, Cancels, Sets
  <1>4. s = [r EXCEPT !.wait_for_user_input = w, !.started = FALSE, !.requests = o]
    BY DEF stop_network_rejoin
  <1> HIDE DEF x, y
  <1>5. OneMore(q, x, p1, set)
    BY <1>1, <1>2, AppendMore
  <1> HIDE DEF p1
  <1>6. p \in Seq(IRequest) /\ SameTries(q, p)
    BY <1>1, <1>2, <1>5 DEF OneMore, SameTries
  <1>7. SameBut(q, p, set, {S, T})
    BY <1>3, <1>5 DEF OneMore, LastWord, SameBut
  <1>8. Len(p) = Len(q) + (IF r.started THEN 1 ELSE 0) /\ Len(q) \in Nat
    <2>1. Len(p1) = Len(q) + 1 /\ Len(q) \in Nat
      BY <1>1, <1>5 DEF OneMore
    <2>2. IF r.started THEN p = p1 ELSE p = q
      OBVIOUS
    <2> HIDE DEF p, q
    <2> QED  BY <2>1, <2>2
  <1>9. OneMore(p, y, o, set)
    BY <1>2, <1>6, AppendMore
  <1> HIDE DEF p, o
  <1>10. Pending(o, set, S) = {}
    BY <1>3, <1>9 DEF OneMore, LastWord, Callback
  <1>11. SameBut(q, o, set, {S, T})
    BY <1>3, <1>7, <1>9 DEF OneMore, LastWord, SameBut
  <1>12. SameTries(q, o) /\ o # <<>> /\ o \in Seq(IRequest)
    BY <1>2, <1>6, <1>9 DEF OneMore, SameTries
  <1>13. Len(o) = Len(q) + (IF r.started THEN 2 ELSE 1)
    <2>1. Len(o) = Len(p) + 1
      BY <1>9 DEF OneMore
    <2> HIDE DEF q
    <2> QED  BY <1>8, <2>1
  <1>14. /\ s.requests = o /\ ~s.started /\ s.wait_for_user_input = w
         /\ s.start_scheduled = r.start_scheduled /\ s \in IRejoin
    BY <1>4, <1>12 DEF IRejoin
  <1> QED  BY <1>10, <1>11, <1>12, <1>13, <1>14

Starts(r) == ~joined /\ stack_initialised /\ ~r.wait_for_user_input /\ ~r.started

LEMMA StartAdds ==
    ASSUME NEW r \in IRejoin, NEW set, NEW s, s = start_network_rejoin(r)
    PROVE  /\ s \in IRejoin
           /\ s.wait_for_user_input = r.wait_for_user_input
           /\ s.started = (r.started \/ Starts(r))
           /\ s.start_scheduled = (r.start_scheduled /\ ~Starts(r))
           /\ Starts(r) => ~s.in_progress /\ s.attempt_cnt = 0 /\ s.requests # <<>>
           /\ Len(s.requests) = Len(r.requests) + (IF Starts(r) THEN 1 ELSE 0)
           /\ Pending(s.requests, set, "stop_network_rejoin") =
                 Pending(r.requests, set, "stop_network_rejoin")
                    \cup (IF Starts(r) THEN {RejoinTimeout} ELSE {})
           /\ SameBut(r.requests, s.requests, set, {"stop_network_rejoin"})
           /\ SameTries(r.requests, s.requests)
  <1> DEFINE S == "stop_network_rejoin"
             x == Alarm(S, RejoinTimeout)
             q == r.requests
             p == Append(q, x)
  <1>1. /\ q \in Seq(IRequest) /\ r.started \in BOOLEAN /\ r.start_scheduled \in BOOLEAN
        /\ r.wait_for_user_input \in BOOLEAN
    BY DEF IRejoin
  <1>2. x \in IRequest /\ ~Tries(x)
    BY DelayTypes DEF Alarm, IRequest, Known, Callback, Call, Tries, Sets
  <1>3. /\ Sets(x, S) /\ x.after = RejoinTimeout
        /\ \A f \in Callback \ {S} : ~Sets(x, f) /\ ~Cancels(x, f)
    BY DEF Alarm, Cancels, Sets
  <1>4. CASE ~Starts(r)
    <2>1. \/ s = r
          \/ s = [r EXCEPT !.in_progress = FALSE]
      BY <1>1, <1>4 DEF start_network_rejoin, Starts
    <2>2. /\ s.requests = q /\ s.started = r.started /\ s.start_scheduled = r.start_scheduled
          /\ s.wait_for_user_input = r.wait_for_user_input /\ s \in IRejoin
      BY <2>1 DEF IRejoin
    <2>3. Len(q) \in Nat
      BY <1>1
    <2> QED  BY <1>1, <1>4, <2>2, <2>3 DEF SameTries, SameBut
  <1>5. CASE Starts(r)
    <2>1. s = [r EXCEPT !.in_progress = FALSE, !.started = TRUE, !.attempt_cnt = 0,
                        !.wait_for_user_input = FALSE, !.start_scheduled = FALSE,
                        !.requests = p]
      BY <1>5 DEF start_network_rejoin, Starts
    <2> HIDE DEF x
    <2>2. OneMore(q, x, p, set)
      BY <1>1, <1>2, AppendMore
    <2> HIDE DEF p
    <2>3. Pending(p, set, S) = Pending(q, set, S) \cup {RejoinTimeout}
      BY <1>3, <2>2 DEF OneMore, LastWord, Callback
    <2>4. SameBut(q, p, set, {S})
      BY <1>3, <2>2 DEF OneMore, LastWord, SameBut
    <2>5. p \in Seq(IRequest) /\ p # <<>> /\ Len(p) = Len(q) + 1 /\ SameTries(q, p)
      BY <1>2, <2>2 DEF OneMore
    <2>6. /\ s.requests = p /\ s.started = TRUE /\ s.start_scheduled = FALSE
          /\ s.wait_for_user_input = FALSE /\ ~s.in_progress /\ s.attempt_cnt = 0
      BY <2>1 DEF IRejoin
    <2>7. s \in IRejoin
      <3>1. s = [started |-> TRUE, in_progress |-> FALSE, attempt_cnt |-> 0,
                 wait_for_user_input |-> FALSE, start_scheduled |-> FALSE, requests |-> p]
        BY <2>1 DEF IRejoin
      <3> QED  BY <2>5, <3>1 DEF IRejoin
    <2> QED  BY <1>1, <1>5, <2>3, <2>4, <2>5, <2>6, <2>7 DEF Starts
  <1> QED  BY <1>4, <1>5

LEMMA TryAdds ==
    ASSUME NEW r \in IRejoin, NEW set, NEW s, s = rejoin_the_network(r)
    PROVE  /\ s \in IRejoin
           /\ s.wait_for_user_input = r.wait_for_user_input
           /\ s.started = r.started /\ s.start_scheduled = r.start_scheduled
           /\ \/ s = r
              \/ /\ r.started /\ s.requests # <<>>
                 /\ Len(s.requests) = Len(r.requests) + 1
                 /\ Pending(s.requests, set, "start_network_steering") =
                       Pending(r.requests, set, "start_network_steering")
                          \cup {Interval(r.attempt_cnt)}
           /\ Len(s.requests) >= Len(r.requests)
           /\ Len(s.requests) <= Len(r.requests) + (IF r.started THEN 1 ELSE 0)
           /\ SameBut(r.requests, s.requests, set, {"start_network_steering"})
           /\ SameTries(r.requests, s.requests)
  <1> DEFINE T == "start_network_steering"
             x == Alarm(T, Interval(r.attempt_cnt))
             q == r.requests
             p == Append(q, x)
  <1>1. q \in Seq(IRequest) /\ r.attempt_cnt \in Nat /\ r.started \in BOOLEAN /\ Len(q) \in Nat
    BY DEF IRejoin
  <1>2. x \in IRequest /\ ~Tries(x) /\ NextAttempt(r.attempt_cnt) \in Nat
    BY <1>1, DelayTypes DEF Alarm, IRequest, Known, Callback, Call, Tries, Sets
  <1>3. /\ Sets(x, T) /\ x.after = Interval(r.attempt_cnt)
        /\ \A f \in Callback \ {T} : ~Sets(x, f) /\ ~Cancels(x, f)
    BY DEF Alarm, Cancels, Sets
  <1>4. CASE s = r
    <2>1. SameTries(r.requests, s.requests)
      BY <1>4 DEF SameTries
    <2>2. Len(q) >= Len(q) /\ Len(q) <= Len(q) + (IF r.started THEN 1 ELSE 0)
      <3>1. Len(q) \in Nat
        BY <1>1
      <3> HIDE DEF q
      <3> QED  BY <3>1
    <2>3. SameBut(r.requests, s.requests, set, {T})
      BY <1>4 DEF SameBut
    <2> HIDE DEF p, x
    <2> QED  BY <1>4, <2>1, <2>2, <2>3
  <1>5. CASE s # r
    <2>1. /\ r.started
          /\ s = [r EXCEPT !.attempt_cnt = NextAttempt(@), !.in_progress = TRUE,
                           !.requests = p]
      BY <1>5 DEF rejoin_the_network
    <2> HIDE DEF x
    <2>2. OneMore(q, x, p, set)
      BY <1>1, <1>2, AppendMore
    <2> HIDE DEF p
    <2>3. Pending(p, set, T) = Pending(q, set, T) \cup {Interval(r.attempt_cnt)}
      BY <1>3, <2>2 DEF OneMore, LastWord, Callback
    <2>4. SameBut(q, p, set, {T})
      BY <1>3, <2>2 DEF OneMore, LastWord, SameBut
    <2>5. p \in Seq(IRequest) /\ p # <<>> /\ Len(p) = Len(q) + 1 /\ SameTries(q, p)
      BY <1>2, <2>2 DEF OneMore
    <2>6. /\ s.requests = p /\ s.started = r.started
          /\ s.start_scheduled = r.start_scheduled
          /\ s.wait_for_user_input = r.wait_for_user_input /\ s \in IRejoin
      BY <1>2, <2>1, <2>5 DEF IRejoin
    <2>7. /\ Len(s.requests) = Len(q) + 1 /\ Len(s.requests) >= Len(q)
          /\ Len(s.requests) <= Len(q) + (IF r.started THEN 1 ELSE 0)
      BY <1>1, <2>1, <2>5, <2>6
    <2> QED  BY <2>1, <2>3, <2>4, <2>5, <2>6, <2>7
  <1> QED  BY <1>4, <1>5

LEMMA IndicateAdds ==
    ASSUME NEW r \in IRejoin, NEW set, NEW s, s = Indicated(r)
    PROVE  /\ s \in IRejoin
           /\ s.wait_for_user_input = r.wait_for_user_input /\ s.started = r.started
           /\ s.start_scheduled
           /\ s.in_progress = r.in_progress /\ s.attempt_cnt = r.attempt_cnt
           /\ Len(s.requests) = Len(r.requests) + 1 /\ s.requests # <<>>
           /\ SameBut(r.requests, s.requests, set, {})
  <1> DEFINE x == Call
             q == r.requests
             p == Append(q, x)
  <1>1. q \in Seq(IRequest)
    BY DEF IRejoin
  <1>2. x \in IRequest /\ Tries(x)
    BY DEF IRequest, Tries
  <1>3. \A f \in Callback : ~Sets(x, f) /\ ~Cancels(x, f)
    BY DEF Call, Cancels, Sets
  <1>4. s = [r EXCEPT !.requests = p, !.start_scheduled = TRUE]
    BY DEF Indicated
  <1> HIDE DEF x
  <1>5. OneMore(q, x, p, set)
    BY <1>1, <1>2, AppendMore
  <1> HIDE DEF p
  <1>6. SameBut(q, p, set, {})
    BY <1>3, <1>5 DEF OneMore, LastWord, SameBut
  <1>7. p \in Seq(IRequest) /\ Len(p) = Len(q) + 1 /\ p # <<>>
    BY <1>5 DEF OneMore
  <1>8. /\ s.requests = p /\ s.started = r.started /\ s.start_scheduled = TRUE
        /\ s.wait_for_user_input = r.wait_for_user_input
        /\ s.in_progress = r.in_progress /\ s.attempt_cnt = r.attempt_cnt /\ s \in IRejoin
    BY <1>4, <1>7 DEF IRejoin
  <1> QED  BY <1>6, <1>7, <1>8

Restarted(r) == ~joined /\ r.wait_for_user_input

LEMMA RestartAdds ==
    ASSUME NEW r \in IRejoin, stack_initialised, r.wait_for_user_input => ~r.started,
           NEW set, NEW s, s = start_network_rejoin_ED(r)
    PROVE  /\ s \in IRejoin
           /\ s.wait_for_user_input = (r.wait_for_user_input /\ ~Restarted(r))
           /\ s.started = (r.started \/ Restarted(r))
           /\ ~s.start_scheduled
           /\ Restarted(r) => ~s.in_progress /\ s.attempt_cnt = 0
           /\ ~Restarted(r) => s.in_progress = r.in_progress /\ s.attempt_cnt = r.attempt_cnt
           /\ Len(s.requests) = Len(r.requests) + (IF Restarted(r) THEN 2 ELSE 0)
           /\ Pending(s.requests, set, "stop_network_rejoin") =
                 Pending(r.requests, set, "stop_network_rejoin")
                    \cup (IF Restarted(r) THEN {RejoinTimeout} ELSE {})
           /\ Pending(s.requests, set, "rejoin_the_network") =
                 Pending(r.requests, set, "rejoin_the_network")
                    \cup (IF Restarted(r) THEN {1} ELSE {})
           /\ SameBut(r.requests, s.requests, set, {"stop_network_rejoin", "rejoin_the_network"})
           /\ SameTries(r.requests, s.requests)
           /\ s.requests = r.requests \/ s.requests # <<>>
  <1> DEFINE J == "rejoin_the_network"
             S == "stop_network_rejoin"
             x == Alarm(J, 1)
             q == r.requests
             r0 == [r EXCEPT !.wait_for_user_input = FALSE]
             r1 == start_network_rejoin(r0)
             p == r1.requests
             o == Append(p, x)
  <1>1. /\ q \in Seq(IRequest) /\ r.start_scheduled \in BOOLEAN
        /\ r.wait_for_user_input \in BOOLEAN /\ r.started \in BOOLEAN
    BY DEF IRejoin
  <1>2. x \in IRequest /\ ~Tries(x)
    BY DEF Alarm, IRequest, Known, Callback, Call, Tries, Sets
  <1>3. /\ Sets(x, J) /\ x.after = 1
        /\ \A f \in Callback \ {J} : ~Sets(x, f) /\ ~Cancels(x, f)
    BY DEF Alarm, Cancels, Sets
  <1>4. CASE ~Restarted(r)
    <2>1. s = [r EXCEPT !.start_scheduled = FALSE]
      BY <1>4 DEF start_network_rejoin_ED, Restarted
    <2>2. /\ s.requests = q /\ s.started = r.started /\ s.start_scheduled = FALSE
          /\ s.wait_for_user_input = r.wait_for_user_input
          /\ s.in_progress = r.in_progress /\ s.attempt_cnt = r.attempt_cnt /\ s \in IRejoin
      BY <2>1 DEF IRejoin
    <2>3. Len(q) \in Nat
      BY <1>1
    <2> HIDE DEF o, p, r1, r0, x, q
    <2>4. Len(q) = Len(q) + (IF Restarted(r) THEN 2 ELSE 0)
      BY <1>4, <2>3
    <2>5. SameTries(q, q) /\ SameBut(q, q, set, {S, J})
      BY DEF SameTries, SameBut
    <2> QED  BY <1>1, <1>4, <2>2, <2>4, <2>5 DEF q
  <1>5. CASE Restarted(r)
    <2>1. s = [r1 EXCEPT !.requests = o, !.start_scheduled = FALSE]
      BY <1>5 DEF start_network_rejoin_ED, Restarted
    <2>2. r0 \in IRejoin /\ ~r0.started /\ ~r0.wait_for_user_input /\ r0.requests = q
      BY <1>5 DEF IRejoin, Restarted
    <2> HIDE DEF r0
    <2>3. Starts(r0)
      BY <1>5, <2>2 DEF Starts, Restarted
    <2>4. r1 \in IRejoin
      BY <2>2, StartAdds
    <2>5. /\ r1.wait_for_user_input = r0.wait_for_user_input
          /\ r1.started = (r0.started \/ Starts(r0))
          /\ ~r1.in_progress /\ r1.attempt_cnt = 0
      BY <2>2, <2>3, StartAdds
    <2>6. Len(p) = Len(r0.requests) + (IF Starts(r0) THEN 1 ELSE 0)
      BY <2>2, StartAdds
    <2>7. /\ Pending(p, set, S) = Pending(r0.requests, set, S)
                                     \cup (IF Starts(r0) THEN {RejoinTimeout} ELSE {})
          /\ SameBut(r0.requests, p, set, {S})
      <3>1. Pending(p, set, S) = Pending(r0.requests, set, S)
                                     \cup (IF Starts(r0) THEN {RejoinTimeout} ELSE {})
        BY <2>2, StartAdds, Zenon
      <3>2. SameBut(r0.requests, p, set, {S})
        BY <2>2, StartAdds, Zenon
      <3> QED  BY <3>1, <3>2
    <2>8. SameTries(r0.requests, p)
      BY <2>2, StartAdds
    <2> HIDE DEF r1
    <2>9. p \in Seq(IRequest)
      BY <2>4 DEF IRejoin
    <2> HIDE DEF p, x
    <2>10. OneMore(p, x, o, set)
      BY <1>2, <2>9, AppendMore
    <2> HIDE DEF o
    <2>11. /\ Pending(o, set, J) = Pending(q, set, J) \cup {1}
           /\ Pending(o, set, S) = Pending(q, set, S) \cup {RejoinTimeout}
           /\ SameBut(q, o, set, {S, J})
      BY <1>3, <2>2, <2>3, <2>7, <2>10 DEF OneMore, LastWord, Callback, SameBut
    <2>12. o \in Seq(IRequest) /\ o # <<>> /\ SameTries(q, o)
      BY <1>2, <2>2, <2>8, <2>10 DEF OneMore, SameTries
    <2>13. Len(o) = Len(q) + 2
      <3>1. Len(q) \in Nat /\ Len(p) = Len(q) + 1 /\ Len(o) = Len(p) + 1
        BY <1>1, <2>2, <2>3, <2>6, <2>10 DEF OneMore
      <3> QED  BY <3>1
    <2>14. s.requests = o /\ s.start_scheduled = FALSE /\ s \in IRejoin
      BY <2>1, <2>4, <2>12 DEF IRejoin
    <2>15. /\ s.started = TRUE /\ s.wait_for_user_input = FALSE /\ ~s.in_progress
           /\ s.attempt_cnt = 0
      <3>1. s.started \in BOOLEAN /\ s.wait_for_user_input \in BOOLEAN
        BY <2>14 DEF IRejoin
      <3>2. /\ s.started = r1.started /\ s.wait_for_user_input = r1.wait_for_user_input
            /\ s.in_progress = r1.in_progress /\ s.attempt_cnt = r1.attempt_cnt
        BY <2>1, <2>4 DEF IRejoin
      <3> QED  BY <2>2, <2>3, <2>5, <3>1, <3>2
    <2> QED  BY <1>1, <1>5, <2>11, <2>12, <2>13, <2>14, <2>15
  <1> QED  BY <1>4, <1>5

\* The search is kept up or begun, and an attempt made.
LEMMA SearchAdds ==
    ASSUME NEW r \in IRejoin, NEW set, NEW s, s = rejoin_the_network(start_network_rejoin(r))
    PROVE  /\ s \in IRejoin
           /\ s.wait_for_user_input = r.wait_for_user_input
           /\ s.started = (r.started \/ Starts(r))
           /\ s.start_scheduled = (r.start_scheduled /\ ~Starts(r))
           /\ Len(s.requests) >= Len(r.requests)
           /\ Len(s.requests) <= Len(r.requests) + (IF Starts(r) THEN 2 ELSE IF r.started THEN 1 ELSE 0)
           /\ Pending(s.requests, set, "stop_network_rejoin") =
                 Pending(r.requests, set, "stop_network_rejoin")
                    \cup (IF Starts(r) THEN {RejoinTimeout} ELSE {})
           /\ SameBut(r.requests, s.requests, set, {"stop_network_rejoin", "start_network_steering"})
           /\ SameTries(r.requests, s.requests)
  <1> DEFINE t == start_network_rejoin(r)
  <1>1. t \in IRejoin
    BY StartAdds
  <1>2. /\ t.wait_for_user_input = r.wait_for_user_input
        /\ t.started = (r.started \/ Starts(r))
        /\ t.start_scheduled = (r.start_scheduled /\ ~Starts(r))
    BY StartAdds
  <1>3. Len(t.requests) = Len(r.requests) + (IF Starts(r) THEN 1 ELSE 0)
    BY StartAdds
  <1>4. /\ Pending(t.requests, set, "stop_network_rejoin") =
              Pending(r.requests, set, "stop_network_rejoin")
                 \cup (IF Starts(r) THEN {RejoinTimeout} ELSE {})
        /\ SameBut(r.requests, t.requests, set, {"stop_network_rejoin"})
        /\ SameTries(r.requests, t.requests)
    BY StartAdds
  <1>5. s = rejoin_the_network(t)
    OBVIOUS
  <1> HIDE DEF t
  <1>6. /\ s \in IRejoin
        /\ s.wait_for_user_input = t.wait_for_user_input
        /\ s.started = t.started /\ s.start_scheduled = t.start_scheduled
    BY <1>1, <1>5, TryAdds
  <1>7. /\ Len(s.requests) >= Len(t.requests)
        /\ Len(s.requests) <= Len(t.requests) + (IF t.started THEN 1 ELSE 0)
    BY <1>1, <1>5, TryAdds
  <1>8. /\ SameBut(t.requests, s.requests, set, {"start_network_steering"})
        /\ SameTries(t.requests, s.requests)
    <2>1. SameBut(t.requests, s.requests, set, {"start_network_steering"})
      BY <1>1, <1>5, TryAdds, Zenon
    <2>2. SameTries(t.requests, s.requests)
      BY <1>1, <1>5, TryAdds, Zenon
    <2> QED  BY <2>1, <2>2
  <1>9. Len(r.requests) \in Nat /\ Len(s.requests) \in Nat /\ Len(t.requests) \in Nat
    BY <1>1, <1>6 DEF IRejoin
  <1>10. /\ Len(s.requests) >= Len(r.requests)
         /\ Len(s.requests) <= Len(r.requests) + (IF Starts(r) THEN 2 ELSE IF r.started THEN 1 ELSE 0)
    <2> DEFINE a == Len(r.requests)
               b == Len(t.requests)
               c == Len(s.requests)
    <2>1. /\ a \in Nat /\ b \in Nat /\ c \in Nat
          /\ b = a + (IF Starts(r) THEN 1 ELSE 0)
          /\ c >= b /\ c <= b + (IF t.started THEN 1 ELSE 0)
      BY <1>3, <1>7, <1>9
    <2> HIDE DEF a, b, c
    <2>2. t.started => r.started \/ Starts(r)
      BY <1>2
    <2>3. c >= a /\ c <= a + (IF Starts(r) THEN 2 ELSE IF r.started THEN 1 ELSE 0)
      <3>1. CASE Starts(r)
        BY <2>1, <3>1
      <3>2. CASE ~Starts(r) /\ t.started
        BY <2>1, <2>2, <3>2
      <3>3. CASE ~Starts(r) /\ ~t.started
        BY <2>1, <3>3
      <3> QED  BY <3>1, <3>2, <3>3
    <2> QED  BY <2>3 DEF a, c
  <1>11. /\ Pending(s.requests, set, "stop_network_rejoin") =
              Pending(r.requests, set, "stop_network_rejoin")
                 \cup (IF Starts(r) THEN {RejoinTimeout} ELSE {})
         /\ SameBut(r.requests, s.requests, set, {"stop_network_rejoin", "start_network_steering"})
    BY <1>4, <1>8 DEF Callback, SameBut
  <1>12. SameTries(r.requests, s.requests)
    BY <1>4, <1>8 DEF SameTries
  <1> QED  BY <1>2, <1>6, <1>10, <1>11, <1>12

\* REBOOT and STEERING that went well; LEAVE, and the two that failed.
LEMMA AnswerAdds ==
    ASSUME NEW r \in IRejoin, NEW set, NEW s,
           s = rejoin_the_network(stop_network_rejoin(zi_reboot(r), FALSE))
    PROVE  /\ s \in IRejoin /\ s.requests # <<>>
           /\ ~s.started /\ ~s.wait_for_user_input
           /\ Len(s.requests) = Len(r.requests) + (IF r.started THEN 4 ELSE 3)
           /\ Pending(s.requests, set, "Recon_timer_cb") = {ReconnectDelay}
           /\ Pending(s.requests, set, "stop_network_rejoin") = {}
           /\ Pending(s.requests, set, "rejoin_the_network") =
                 Pending(r.requests, set, "rejoin_the_network")
           /\ SameTries(r.requests, s.requests)
  <1> DEFINE t == zi_reboot(r)
             u == stop_network_rejoin(t, FALSE)
  <1>1. t \in IRejoin /\ t.started = r.started
    BY RebootAdds
  <1>2. Len(t.requests) = Len(r.requests) + 2
    BY RebootAdds
  <1>3. Pending(t.requests, set, "Recon_timer_cb") = {ReconnectDelay}
    BY RebootAdds
  <1>4. SameBut(r.requests, t.requests, set, {"Recon_timer_cb"})
    BY RebootAdds
  <1>5. SameTries(r.requests, t.requests)
    BY RebootAdds
  <1>u. u = stop_network_rejoin(t, FALSE) /\ s = rejoin_the_network(u)
    OBVIOUS
  <1> HIDE DEF t, u
  <1>6. u \in IRejoin /\ u.requests # <<>> /\ ~u.started /\ u.wait_for_user_input = FALSE
    BY <1>1, <1>u, StopAdds
  <1>7. Len(u.requests) = Len(t.requests) + (IF t.started THEN 2 ELSE 1)
    BY <1>1, <1>u, StopAdds
  <1>8. Pending(u.requests, set, "stop_network_rejoin") = {}
    BY <1>1, <1>u, StopAdds
  <1>9. SameBut(t.requests, u.requests, set, {"stop_network_rejoin", "start_network_steering"})
    BY <1>1, <1>u, StopAdds
  <1>10. SameTries(t.requests, u.requests)
    BY <1>1, <1>u, StopAdds
  <1>11. s = u
    BY <1>6, <1>u DEF rejoin_the_network
  <1>12. /\ Pending(u.requests, set, "Recon_timer_cb") = {ReconnectDelay}
         /\ Pending(u.requests, set, "rejoin_the_network") =
                 Pending(r.requests, set, "rejoin_the_network")
    BY <1>3, <1>4, <1>9 DEF SameBut, Callback
  <1>13. Len(u.requests) = Len(r.requests) + (IF r.started THEN 4 ELSE 3)
    <2> DEFINE a == Len(r.requests)
               b == Len(t.requests)
               c == Len(u.requests)
    <2>1. a \in Nat /\ b = a + 2 /\ c = b + (IF r.started THEN 2 ELSE 1)
      BY <1>1, <1>2, <1>7 DEF IRejoin
    <2> HIDE DEF a, b, c
    <2>2. c = a + (IF r.started THEN 4 ELSE 3)
      BY <2>1
    <2> QED  BY <2>2 DEF a, c
  <1>14. SameTries(r.requests, u.requests)
    BY <1>5, <1>10 DEF SameTries
  <1> QED  BY <1>6, <1>8, <1>11, <1>12, <1>13, <1>14

LEMMA FailureAdds ==
    ASSUME NEW r \in IRejoin, NEW set, NEW s,
           s = rejoin_the_network(start_network_rejoin(zi_reboot(r)))
    PROVE  /\ s \in IRejoin /\ s.requests # <<>>
           /\ s.wait_for_user_input = r.wait_for_user_input
           /\ s.started = (r.started \/ Starts(r))
           /\ s.start_scheduled = (r.start_scheduled /\ ~Starts(r))
           /\ Len(s.requests) <= Len(r.requests) + (IF Starts(r) THEN 4 ELSE IF r.started THEN 3 ELSE 2)
           /\ Pending(s.requests, set, "Recon_timer_cb") = {ReconnectDelay}
           /\ Pending(s.requests, set, "stop_network_rejoin") =
                 Pending(r.requests, set, "stop_network_rejoin")
                    \cup (IF Starts(r) THEN {RejoinTimeout} ELSE {})
           /\ Pending(s.requests, set, "rejoin_the_network") =
                 Pending(r.requests, set, "rejoin_the_network")
           /\ SameTries(r.requests, s.requests)
  <1> DEFINE t == zi_reboot(r)
             S == "stop_network_rejoin"
  <1>1. /\ t \in IRejoin /\ t.started = r.started /\ t.start_scheduled = r.start_scheduled
        /\ t.wait_for_user_input = r.wait_for_user_input
    BY RebootAdds
  <1>2. Len(t.requests) = Len(r.requests) + 2
    BY RebootAdds
  <1>3. Pending(t.requests, set, "Recon_timer_cb") = {ReconnectDelay}
    BY RebootAdds
  <1>4. SameBut(r.requests, t.requests, set, {"Recon_timer_cb"})
    BY RebootAdds
  <1>5. SameTries(r.requests, t.requests)
    BY RebootAdds
  <1>u. s = rejoin_the_network(start_network_rejoin(t))
    OBVIOUS
  <1> HIDE DEF t
  <1>6. Starts(t) <=> Starts(r)
    BY <1>1 DEF Starts
  <1>7. s \in IRejoin
    BY <1>1, <1>u, SearchAdds
  <1>8. /\ s.wait_for_user_input = t.wait_for_user_input
        /\ s.started = (t.started \/ Starts(t))
        /\ s.start_scheduled = (t.start_scheduled /\ ~Starts(t))
    BY <1>1, <1>u, SearchAdds
  <1>9. /\ Len(s.requests) >= Len(t.requests)
        /\ Len(s.requests) <= Len(t.requests) + (IF Starts(t) THEN 2 ELSE IF t.started THEN 1 ELSE 0)
    BY <1>1, <1>u, SearchAdds
  <1>10. Pending(s.requests, set, S) =
            Pending(t.requests, set, S) \cup (IF Starts(t) THEN {RejoinTimeout} ELSE {})
    BY <1>1, <1>u, SearchAdds
  <1>11. SameBut(t.requests, s.requests, set, {"stop_network_rejoin", "start_network_steering"})
    BY <1>1, <1>u, SearchAdds
  <1>12. SameTries(t.requests, s.requests)
    BY <1>1, <1>u, SearchAdds
  <1>13. /\ Pending(s.requests, set, "Recon_timer_cb") = {ReconnectDelay}
         /\ Pending(s.requests, set, S) =
                 Pending(r.requests, set, S) \cup (IF Starts(r) THEN {RejoinTimeout} ELSE {})
         /\ Pending(s.requests, set, "rejoin_the_network") =
                 Pending(r.requests, set, "rejoin_the_network")
    BY <1>3, <1>4, <1>6, <1>10, <1>11 DEF SameBut, Callback
  <1>14. /\ Len(s.requests) <= Len(r.requests)
                                  + (IF Starts(r) THEN 4 ELSE IF r.started THEN 3 ELSE 2)
         /\ Len(s.requests) > 0
    <2> DEFINE a == Len(r.requests)
               b == Len(t.requests)
               c == Len(s.requests)
    <2>1. /\ a \in Nat /\ c \in Nat /\ b = a + 2 /\ c >= b
          /\ c <= b + (IF Starts(r) THEN 2 ELSE IF r.started THEN 1 ELSE 0)
      BY <1>1, <1>2, <1>6, <1>7, <1>9 DEF IRejoin
    <2> HIDE DEF a, b, c
    <2>2. c <= a + (IF Starts(r) THEN 4 ELSE IF r.started THEN 3 ELSE 2) /\ c > 0
      BY <2>1
    <2> QED  BY <2>2 DEF a, c
  <1>15. s.requests # <<>>
    BY <1>14, EmptySeq
  <1>16. SameTries(r.requests, s.requests)
    BY <1>5, <1>12 DEF SameTries
  <1>17. /\ s.started = (r.started \/ Starts(r))
         /\ s.start_scheduled = (r.start_scheduled /\ ~Starts(r))
    BY <1>1, <1>6, <1>8
  <1> QED  BY <1>1, <1>7, <1>8, <1>13, <1>14, <1>15, <1>16, <1>17
--------------------------------------------------------------------------------
\* The signals that wait.  The network raises one when none waits; com_task, which
\* resets the device at most once between two ticks, and the start of the stack can
\* put one behind it.

Answers(s) == s.sig \in {"REBOOT", "STEERING"} /\ s.ok
Raised(sig) == \E i \in 1..Len(signals) : signals[i].sig = sig

WaitingInv ==
    /\ Len(signals) <= 2
    /\ Len(signals) = 2 => com_sleeping /\ ~Answers(signals[2])
    /\ bdb = "starting" /\ signals # <<>> =>
          Len(signals) = 1 /\ ~nvram /\ com_sleeping /\ signals[1].sig = "LEAVE"
    /\ \A i \in 1..Len(signals) : signals[i].sig \in {"LEAVE", "FIRST_START"} => signals[i].ok
    /\ Raised("FIRST_START") =>
          \A i \in 1..Len(signals) : signals[i].sig \in {"LEAVE", "FIRST_START"}
    /\ bdbLeft \in 0..SteeringTime

LEMMA WaitingNone ==
    ASSUME signals' = <<>>, bdbLeft' \in 0..SteeringTime
    PROVE  WaitingInv'
  <1>1. Len(signals') = 0 /\ \A i \in 1..Len(signals') : FALSE
    OBVIOUS
  <1> QED  BY <1>1 DEF WaitingInv, Raised

LEMMA WaitingSame ==
    ASSUME WaitingInv, UNCHANGED signals, bdbLeft' \in 0..SteeringTime,
           com_sleeping => com_sleeping', nvram' => nvram,
           bdb' = "starting" => bdb = "starting"
    PROVE  WaitingInv'
  BY DEF WaitingInv, Raised

\* One signal behind at most one other.
LEMMA WaitingRaise ==
    ASSUME WaitingInv, signals \in Seq(ASignal), NEW s \in ASignal,
           signals' = Append(signals, s), bdbLeft' \in 0..SteeringTime,
           signals # <<>> => /\ Len(signals) = 1 /\ com_sleeping' /\ ~Answers(s)
                             /\ s.sig \in {"LEAVE", "FIRST_START"}
                             /\ s.sig = "FIRST_START" => signals[1].sig = "LEAVE",
           s.sig \in {"LEAVE", "FIRST_START"} => s.ok,
           bdb' = "starting" => signals = <<>> /\ ~nvram' /\ com_sleeping' /\ s.sig = "LEAVE"
    PROVE  WaitingInv'
  <1>1. CASE signals = <<>>
    <2>1. Len(signals') = 1 /\ signals'[1] = s /\ \A i \in 1..Len(signals') : i = 1
      BY <1>1
    <2> QED  BY <1>1, <2>1 DEF WaitingInv, Raised
  <1>2. CASE signals # <<>>
    <2>0. /\ Len(signals) = 1 /\ Len(signals') = Len(signals) + 1
          /\ signals'[Len(signals) + 1] = s
          /\ \A i \in 1..Len(signals) : signals'[i] = signals[i]
      BY <1>2
    <2>1. /\ Len(signals') = 2 /\ signals'[2] = s /\ signals'[1] = signals[1]
          /\ \A i \in 1..Len(signals') : i = 1 \/ i = 2
          /\ 1 \in 1..Len(signals)
      BY <2>0
    <2>2. signals[1].sig \in {"LEAVE", "FIRST_START"} => signals[1].ok
      BY <2>1 DEF WaitingInv
    <2>3. Raised("FIRST_START")' => signals[1].sig \in {"LEAVE", "FIRST_START"}
      BY <1>2, <2>1 DEF WaitingInv, Raised
    <2>4. \A i \in 1..Len(signals') : signals'[i].sig \in {"LEAVE", "FIRST_START"} => signals'[i].ok
      BY <1>2, <2>1, <2>2
    <2>5. Raised("FIRST_START")' =>
             \A i \in 1..Len(signals') : signals'[i].sig \in {"LEAVE", "FIRST_START"}
      BY <1>2, <2>1, <2>3
    <2> QED  BY <1>2, <2>1, <2>4, <2>5 DEF WaitingInv
  <1> QED  BY <1>1, <1>2

LEMMA WaitingHandler ==
    ASSUME WaitingInv, StatusInv, zboss_signal_handler
    PROVE  WaitingInv'
  <1> USE DelayAssumption
  <1>1. /\ signals # <<>> /\ signals \in Seq(ASignal) /\ signals' = Tail(signals)
        /\ UNCHANGED <<nvram, com_sleeping>>
    BY DEF zboss_signal_handler, StatusInv
  <1>2. bdbLeft' \in 0..SteeringTime
    BY DEF zboss_signal_handler, WaitingInv
  <1>a. Len(signals) <= 2 /\ Len(signals) \in Nat /\ Len(signals) # 0
    <2>1. Len(signals) \in Nat /\ Len(signals) # 0
      BY <1>1, EmptySeq
    <2> QED  BY <2>1 DEF WaitingInv
  <1>b. /\ Len(signals') = Len(signals) - 1
        /\ \A i \in 1..Len(signals') : signals'[i] = signals[i + 1]
    BY <1>1
  <1>3. /\ Len(signals) \in 1..2 /\ Len(signals') = Len(signals) - 1
        /\ \A i \in 1..Len(signals') : i + 1 \in 1..Len(signals) /\ signals'[i] = signals[i + 1]
    BY <1>a, <1>b
  <1>4. CASE Len(signals) = 1
    <2>1. signals' = <<>>
      BY <1>1, <1>4
    <2> QED  BY <1>2, <2>1, WaitingNone
  <1>5. CASE Len(signals) = 2
    <2>1. bdb' # "starting"
      <3>1. bdb # "starting"
        BY <1>1, <1>5 DEF WaitingInv
      <3>2. Head(signals).sig # "SKIP_STARTUP"
        <4>1. Head(signals) = signals[1] /\ 1 \in 1..Len(signals) /\ Len(signals) # 1
          BY <1>1, <1>5
        <4>2. stack_initialised
          <5>1. Len(<<[sig |-> "SKIP_STARTUP", ok |-> TRUE]>>) = 1
            OBVIOUS
          <5> QED  BY <1>1, <4>1, <5>1 DEF StatusInv, Cold
        <4> QED  BY <4>1, <4>2 DEF StatusInv
      <3> QED  BY <3>1, <3>2 DEF zboss_signal_handler
    <2>2. Len(signals') = 1
      BY <1>3, <1>5
    <2>3. \A i \in 1..Len(signals') : signals'[i].sig \in {"LEAVE", "FIRST_START"} => signals'[i].ok
      BY <1>3 DEF WaitingInv
    <2>4. Raised("FIRST_START")' =>
             \A i \in 1..Len(signals') : signals'[i].sig \in {"LEAVE", "FIRST_START"}
      BY <1>3 DEF WaitingInv, Raised
    <2> QED  BY <1>2, <2>1, <2>2, <2>3, <2>4 DEF WaitingInv
  <1> QED  BY <1>3, <1>4, <1>5

LEMMA WaitingInvStep ==
    ASSUME WaitingInv, StatusInv, [Next]_vars
    PROVE  WaitingInv'
  <1> USE DelayAssumption
  <1>0. 0 \in 0..SteeringTime /\ SteeringTime \in 0..SteeringTime /\ signals \in Seq(ASignal)
    BY DEF StatusInv
  <1>1. CASE zboss_signal_handler
    BY <1>1, WaitingHandler
  <1>2. CASE Recon_timer_cb_erase \/ command_control_restart \/ command_control_hard_reset
    <2>1. signals' = <<>> /\ bdbLeft' = 0
      BY <1>2 DEF Recon_timer_cb_erase, command_control_restart, command_control_hard_reset, Restart
    <2> QED  BY <1>0, <2>1, WaitingNone
  <1>3. CASE \/ Recon_timer_cb_connect \/ Recon_timer_cb_joined \/ Recon_timer_cb_indicates
            \/ stop_network_rejoin_alarm \/ rejoin_the_network_alarm
            \/ start_network_rejoin_ED_callback \/ zb_app_cb_process
            \/ (\E s \in UsbStatus : usb_cb(s)) \/ UNCHANGED vars
    <2>1. UNCHANGED <<signals, bdb, bdbLeft, com_sleeping, nvram>>
      BY <1>3 DEF Recon_timer_cb_connect, Recon_timer_cb_joined, stop_network_rejoin_alarm,
                  rejoin_the_network_alarm, start_network_rejoin_ED_callback,
                  Recon_timer_cb_indicates, zb_app_cb_process, usb_cb, vars, stack
    <2>2. bdbLeft' \in 0..SteeringTime
      BY <2>1 DEF WaitingInv
    <2> QED  BY <2>1, <2>2, WaitingSame
  <1>4. CASE command_control_connect
    <2>1. UNCHANGED <<signals, bdb, bdbLeft, nvram>> /\ com_sleeping'
      BY <1>4 DEF command_control_connect, Command, stack
    <2>2. bdbLeft' \in 0..SteeringTime
      BY <2>1 DEF WaitingInv
    <2> QED  BY <2>1, <2>2, WaitingSame
  <1>5. CASE start_network_steering
    <2>1. UNCHANGED <<signals, com_sleeping, nvram>>
      BY <1>5 DEF start_network_steering
    <2>2. bdbLeft' \in 0..SteeringTime /\ (bdb' = "starting" => bdb = "starting")
      BY <1>0, <1>5 DEF start_network_steering, WaitingInv
    <2> QED  BY <2>1, <2>2, WaitingSame
  <1>6. CASE command_control_reset_zigbee
    <2>1. ~com_sleeping /\ com_sleeping' /\ ~nvram' /\ UNCHANGED <<bdb, bdbLeft>>
      BY <1>6 DEF command_control_reset_zigbee, Command
    <2>2. bdbLeft' \in 0..SteeringTime
      BY <2>1 DEF WaitingInv
    <2>3. CASE UNCHANGED signals
      BY <2>1, <2>2, <2>3, WaitingSame
    <2>4. CASE signals' = Append(signals, [sig |-> "LEAVE", ok |-> TRUE])
      <3> DEFINE s == [sig |-> "LEAVE", ok |-> TRUE]
      <3>1. s \in ASignal /\ s.sig = "LEAVE" /\ s.ok /\ ~Answers(s)
        BY DEF ASignal, Signal, Answers
      <3> HIDE DEF s
      <3>2. signals # <<>> => Len(signals) = 1
        <4> DEFINE n == Len(signals)
        <4>1. n \in Nat /\ (signals # <<>> => n # 0)
          BY <1>0, EmptySeq
        <4>2. n # 2 /\ n <= 2
          BY <2>1 DEF WaitingInv
        <4> HIDE DEF n
        <4>3. signals # <<>> => n = 1
          BY <4>1, <4>2
        <4> QED  BY <4>3 DEF n
      <3>3. bdb' = "starting" => signals = <<>>
        BY <2>1 DEF WaitingInv
      <3>4. signals' = Append(signals, s)
        BY <2>4 DEF s
      <3> QED  BY <1>0, <2>1, <2>2, <3>1, <3>2, <3>3, <3>4, WaitingRaise
    <2> QED  BY <1>6, <2>3, <2>4 DEF command_control_reset_zigbee
  <1>7. CASE StackStarted \/ SteeringEnded \/ NetworkLeave \/ OtherSignal
    <2>1. PICK s \in ASignal :
             /\ signals' = Append(signals, s)
             /\ bdb' # "starting" /\ bdbLeft' \in 0..SteeringTime /\ UNCHANGED com_sleeping
             /\ s.sig \in {"LEAVE", "FIRST_START"} => s.ok
             /\ signals # <<>> => /\ Len(signals) = 1 /\ com_sleeping /\ ~Answers(s)
                                  /\ s.sig = "FIRST_START" /\ signals[1].sig = "LEAVE"
      <3>1. CASE SteeringEnded
        <4>1. PICK ok \in BOOLEAN : Raise("STEERING", ok) /\ bdb' = "idle" /\ bdbLeft' = 0
          BY <3>1 DEF SteeringEnded
        <4> DEFINE s == [sig |-> "STEERING", ok |-> ok]
        <4>2. s \in ASignal /\ s.sig = "STEERING" /\ signals' = Append(signals, s)
          BY <4>1 DEF Raise, ASignal, Signal
        <4> HIDE DEF s
        <4>3. signals = <<>> /\ UNCHANGED com_sleeping
          BY <3>1 DEF SteeringEnded, Radio
        <4> QED  BY <1>0, <4>1, <4>2, <4>3
      <3>2. CASE NetworkLeave
        <4>1. /\ Raise("LEAVE", TRUE) /\ UNCHANGED <<bdb, bdbLeft, com_sleeping>>
              /\ bdb # "starting" /\ signals = <<>>
          BY <3>2 DEF NetworkLeave, StatusInv, OnlyLeaves, Radio
        <4> DEFINE s == [sig |-> "LEAVE", ok |-> TRUE]
        <4>2. s \in ASignal /\ s.ok /\ signals' = Append(signals, s)
          BY <4>1 DEF Raise, ASignal, Signal
        <4> HIDE DEF s
        <4> QED  BY <4>1, <4>2 DEF WaitingInv
      <3>3. CASE StackStarted /\ nvram
        <4>1. PICK ok \in BOOLEAN : Raise("REBOOT", ok) /\ bdb' = "idle" /\ bdbLeft' = 0
          BY <3>3 DEF StackStarted
        <4> DEFINE s == [sig |-> "REBOOT", ok |-> ok]
        <4>2. s \in ASignal /\ s.sig = "REBOOT" /\ signals' = Append(signals, s)
          BY <4>1 DEF Raise, ASignal, Signal
        <4> HIDE DEF s
        <4>3. signals = <<>> /\ UNCHANGED com_sleeping
          BY <3>3 DEF StackStarted, WaitingInv
        <4> QED  BY <1>0, <4>1, <4>2, <4>3
      <3>4. CASE StackStarted /\ ~nvram
        <4> DEFINE s == [sig |-> "FIRST_START", ok |-> TRUE]
        <4>1. s \in ASignal /\ s.sig = "FIRST_START" /\ s.ok /\ ~Answers(s)
          BY DEF ASignal, Signal, Answers
        <4>2. signals' = Append(signals, s) /\ bdb' = "idle" /\ bdbLeft' = 0
          BY <3>4 DEF StackStarted, Raise
        <4> HIDE DEF s
        <4>3. /\ signals # <<>> => Len(signals) = 1 /\ com_sleeping /\ signals[1].sig = "LEAVE"
              /\ UNCHANGED com_sleeping
          BY <3>4 DEF StackStarted, WaitingInv
        <4> QED  BY <1>0, <4>1, <4>2, <4>3
      <3>5. CASE OtherSignal
        <4>1. /\ Raise("OTHER", TRUE) /\ UNCHANGED <<bdb, bdbLeft, com_sleeping>>
              /\ bdb # "starting" /\ signals = <<>>
          BY <3>5 DEF OtherSignal, Radio
        <4> DEFINE s == [sig |-> "OTHER", ok |-> TRUE]
        <4>2. s \in ASignal /\ s.ok /\ signals' = Append(signals, s)
          BY <4>1 DEF Raise, ASignal, Signal
        <4> HIDE DEF s
        <4> QED  BY <4>1, <4>2 DEF WaitingInv
      <3> QED  BY <1>7, <3>1, <3>2, <3>3, <3>4, <3>5
    <2> QED  BY <1>0, <2>1, WaitingRaise
  <1>8. CASE main_zigbee_enable
    <2>1. /\ Cold /\ signals' = <<[sig |-> "SKIP_STARTUP", ok |-> TRUE]>>
          /\ UNCHANGED <<bdb, bdbLeft>>
      BY <1>8 DEF main_zigbee_enable, StatusInv
    <2>2. /\ Len(signals') = 1 /\ signals'[1].sig = "SKIP_STARTUP"
          /\ \A i \in 1..Len(signals') : i = 1
      BY <2>1
    <2> QED  BY <2>1, <2>2 DEF WaitingInv, Raised, Cold
  <1>9. CASE Tick
    <2>1. signals' = <<>> /\ bdbLeft' \in 0..SteeringTime
      BY <1>9 DEF Tick, WaitingInv
    <2> QED  BY <2>1, WaitingNone
  <1> QED  BY <1>1, <1>2, <1>3, <1>4, <1>5, <1>6, <1>7, <1>8, <1>9
           DEF Next, Zboss, DueCallback, com_task, Recon_timer_cb, Stack, Environment

Commissioning == bdb \in {"idle", "starting", "steering"}

LEMMA CommissioningStep ==
    ASSUME Commissioning, [Next]_vars
    PROVE  Commissioning'
  BY DEF Commissioning, Next, Zboss, DueCallback, com_task, Stack, Environment, vars, stack,
         zboss_signal_handler, Recon_timer_cb, Recon_timer_cb_erase, Recon_timer_cb_connect,
         Recon_timer_cb_joined, Recon_timer_cb_indicates, stop_network_rejoin_alarm, rejoin_the_network_alarm,
         start_network_rejoin_ED_callback, start_network_steering, zb_app_cb_process,
         command_control_connect, command_control_reset_zigbee, command_control_restart,
         command_control_hard_reset, Restart, main_zigbee_enable, usb_cb, StackStarted,
         SteeringEnded, NetworkLeave, OtherSignal, Tick
--------------------------------------------------------------------------------
\* What will be set, and what that leaves possible.

Will(f) == Pending(rejoin.requests, alarms, f)
Now(f) == 0 \in alarms[f]
Tried == ~NoTry(rejoin.requests) \/ Restarting

\* A search has an alarm that gives up, nothing else has one.  When it comes, no
\* other callback that adds requests is due.
PlanInv ==
    /\ rejoin.wait_for_user_input =>
          /\ ~rejoin.started /\ ~Now("stop_network_rejoin")
          /\ Will("rejoin_the_network") = {}
    /\ ~rejoin.started => Will("stop_network_rejoin") = {}
    /\ \A p \in Will("stop_network_rejoin") : p <= RejoinTimeout
    /\ \A u \in Will("rejoin_the_network") :
          u \in {0, 1} /\ \A p \in Will("stop_network_rejoin") : u < p
    /\ Now("stop_network_rejoin") =>
          ~Now("Recon_timer_cb") /\ Will("rejoin_the_network") = {} /\ ~Tried

\* The stack is not yet started, or has only just been.
Early == ~stack_initialised \/ bdb = "starting" \/ Raised("FIRST_START")
GivesUpFirst == \A p \in Will("stop_network_rejoin"), c \in Will("Recon_timer_cb") : c > p

EarlyInv ==
    Early =>
       /\ ~rejoin.wait_for_user_input /\ ~Tried /\ ~joined
       /\ Will("rejoin_the_network") = {}
       /\ ~Now("stop_network_rejoin")
       /\ ~rejoin.started => Will("Recon_timer_cb") = {}
       /\ GivesUpFirst
       /\ bdb = "starting" => \A p \in Will("stop_network_rejoin") : p > bdbLeft

\* An attempt will end, and set the reconnect alarm anew, before the search is
\* given up in p ticks.
Chase(p) ==
    \/ Raised("STEERING")
    \/ bdb = "steering" /\ bdbLeft < p
    \/ \E v \in Will("start_network_steering") : 0 <= v /\ v + SteeringTime < p
    \/ /\ ~rejoin.in_progress /\ rejoin.attempt_cnt = 0
       /\ \E u \in Will("rejoin_the_network") : u + 1 + SteeringTime < p

ChaseInv ==
    \A p \in Will("stop_network_rejoin"), c \in Will("Recon_timer_cb") : c > p \/ Chase(p)

ScheduleInv == PlanInv /\ EarlyInv /\ ChaseInv

\* The reconnect alarm, the attempt after a restart and the search do not meet.
Quick == SteeringTime + 2 < RejoinTimeout

\* Nothing is set and nothing is searched for.
LEMMA ScheduleNothing ==
    ASSUME rejoin' = Rejoin0, alarms' = [f \in Callback |-> {}], ~joined',
           restarts' = 0, ~indicating'
    PROVE  ScheduleInv'
  <1>1. \A f \in Callback : Will(f)' = {}
    <2> TAKE f \in Callback
    <2>1. Pending(<<>>, alarms', f) = alarms'[f]
      BY EmptyPending
    <2> QED  BY <2>1 DEF Will, Rejoin0
  <1>2. \A f \in Callback : alarms'[f] = {}
    OBVIOUS
  <1>3. NoTry(rejoin'.requests)
    BY DEF NoTry, Rejoin0
  <1>4. /\ ~Now("stop_network_rejoin")'
        /\ Will("stop_network_rejoin")' = {} /\ Will("rejoin_the_network")' = {}
        /\ Will("Recon_timer_cb")' = {}
    BY <1>1, <1>2 DEF Callback, Now
  <1>5. ~rejoin'.wait_for_user_input /\ ~rejoin'.started
    BY DEF Rejoin0
  <1>6. ~Tried'
    BY <1>3 DEF Tried, Restarting
  <1>7. PlanInv'
    BY <1>4, <1>5, <1>6 DEF PlanInv
  <1>8. EarlyInv'
    BY <1>4, <1>5, <1>6 DEF EarlyInv, GivesUpFirst
  <1> QED  BY <1>4, <1>7, <1>8 DEF ScheduleInv, ChaseInv

LEMMA ScheduleReset ==
    ASSUME NEW kept, Restart(kept)
    PROVE  ScheduleInv'
  BY ScheduleNothing DEF Restart

\* Steps that start and end no search.
LEMMA PlanShrinks ==
    ASSUME PlanInv,
           rejoin'.started = rejoin.started,
           rejoin'.wait_for_user_input = rejoin.wait_for_user_input,
           Will("stop_network_rejoin")' \subseteq Will("stop_network_rejoin"),
           Will("rejoin_the_network")' \subseteq Will("rejoin_the_network"),
           Now("stop_network_rejoin")' => Now("stop_network_rejoin"),
           Now("Recon_timer_cb")' => Now("Recon_timer_cb"),
           Tried' => Tried \/ rejoin.wait_for_user_input
    PROVE  PlanInv'
  <1>1. \/ Will("stop_network_rejoin")' = {}
        \/ rejoin.started
    BY DEF PlanInv
  <1>2. Will("rejoin_the_network") = {} => Will("rejoin_the_network")' = {}
    OBVIOUS
  <1>3. rejoin.wait_for_user_input =>
          /\ ~rejoin'.started /\ ~Now("stop_network_rejoin")'
          /\ Will("rejoin_the_network")' = {}
    BY <1>2 DEF PlanInv
  <1>4. /\ \A p \in Will("stop_network_rejoin")' : p <= RejoinTimeout
        /\ \A u \in Will("rejoin_the_network")' :
              u \in {0, 1} /\ \A p \in Will("stop_network_rejoin")' : u < p
    BY DEF PlanInv
  <1>5. Now("stop_network_rejoin")' =>
          ~Now("Recon_timer_cb")' /\ Will("rejoin_the_network")' = {} /\ ~Tried'
    BY <1>2 DEF PlanInv
  <1> QED  BY <1>1, <1>3, <1>4, <1>5 DEF PlanInv

LEMMA EarlyShrinks ==
    ASSUME EarlyInv, Early' => Early,
           rejoin'.started = rejoin.started,
           rejoin'.wait_for_user_input = rejoin.wait_for_user_input,
           Will("stop_network_rejoin")' \subseteq Will("stop_network_rejoin"),
           Will("rejoin_the_network")' \subseteq Will("rejoin_the_network"),
           Will("Recon_timer_cb")' \subseteq Will("Recon_timer_cb"),
           Now("stop_network_rejoin")' => Now("stop_network_rejoin"),
           Tried' => Tried \/ rejoin.wait_for_user_input,
           Early' => (joined' => joined),
           bdb' = "starting" => bdb = "starting" /\ UNCHANGED bdbLeft
    PROVE  EarlyInv'
  <1> SUFFICES ASSUME Early' PROVE EarlyInv'
    BY DEF EarlyInv
  <1>1. Early
    OBVIOUS
  <1>2. /\ ~rejoin'.wait_for_user_input /\ ~Tried' /\ ~joined'
        /\ ~Now("stop_network_rejoin")'
    BY <1>1 DEF EarlyInv
  <1>3. /\ Will("rejoin_the_network")' = {}
        /\ ~rejoin'.started => Will("Recon_timer_cb")' = {}
    BY <1>1 DEF EarlyInv
  <1>4. GivesUpFirst'
    BY <1>1 DEF EarlyInv, GivesUpFirst
  <1>5. bdb' = "starting" => \A p \in Will("stop_network_rejoin")' : p > bdbLeft'
    BY <1>1 DEF EarlyInv
  <1> QED  BY <1>2, <1>3, <1>4, <1>5 DEF EarlyInv

LEMMA ChaseShrinks ==
    ASSUME ChaseInv,
           Will("stop_network_rejoin")' \subseteq Will("stop_network_rejoin"),
           Will("Recon_timer_cb")' \subseteq Will("Recon_timer_cb"),
           \A p \in Will("stop_network_rejoin")', c \in Will("Recon_timer_cb")' :
              Chase(p) => c > p \/ Chase(p)'
    PROVE  ChaseInv'
  BY DEF ChaseInv

\* Steps that leave the queue and the alarms alone.
LEMMA ScheduleSame ==
    ASSUME ScheduleInv, UNCHANGED <<rejoin, alarms, restarts, indicating>>,
           Early' => Early, Early' => (joined' => joined),
           bdb' = "starting" => bdb = "starting" /\ UNCHANGED bdbLeft,
           \A p \in Will("stop_network_rejoin"), c \in Will("Recon_timer_cb") :
              Chase(p) => c > p \/ Chase(p)'
    PROVE  ScheduleInv'
  <1>1. \A f \in Callback : Will(f)' = Will(f) /\ (Now(f)' <=> Now(f))
    BY DEF Will, Now
  <1>2. /\ Will("stop_network_rejoin")' = Will("stop_network_rejoin")
        /\ Will("Recon_timer_cb")' = Will("Recon_timer_cb")
        /\ Will("rejoin_the_network")' = Will("rejoin_the_network")
        /\ Now("stop_network_rejoin")' => Now("stop_network_rejoin")
        /\ Now("Recon_timer_cb")' => Now("Recon_timer_cb")
    BY <1>1 DEF Callback
  <1>3. Tried' <=> Tried
    BY DEF Tried, Restarting
  <1>5. PlanInv'
    BY <1>2, <1>3, PlanShrinks DEF ScheduleInv
  <1>6. EarlyInv'
    BY <1>2, <1>3, EarlyShrinks DEF ScheduleInv
  <1>7. ChaseInv'
    BY <1>2, ChaseShrinks DEF ScheduleInv
  <1> QED  BY <1>5, <1>6, <1>7 DEF ScheduleInv

\* A signal at the end of the queue of signals.
LEMMA RaisedMore ==
    ASSUME NEW s \in ASignal, signals \in Seq(ASignal), signals' = Append(signals, s), NEW sig
    PROVE  Raised(sig)' <=> Raised(sig) \/ s.sig = sig
  <1>1. /\ Len(signals') = Len(signals) + 1 /\ Len(signals) \in Nat
        /\ signals'[Len(signals) + 1] = s
        /\ \A i \in 1..Len(signals) : signals'[i] = signals[i] /\ i \in 1..Len(signals')
        /\ Len(signals) + 1 \in 1..Len(signals')
    BY AppendProperties
  <1>2. \A i \in 1..Len(signals') :
           signals'[i] = s \/ (i \in 1..Len(signals) /\ signals'[i] = signals[i])
    BY AppendIndex
  <1> QED  BY <1>1, <1>2 DEF Raised

LEMMA ScheduleSignals ==
    ASSUME ScheduleInv, StatusInv, WaitingInv,
           \/ main_zigbee_enable \/ command_control_reset_zigbee \/ Stack \/ Environment
           \/ UNCHANGED vars
    PROVE  ScheduleInv'
  <1>0. signals \in Seq(ASignal) /\ (Early => GivesUpFirst /\ ~joined)
    BY DEF StatusInv, ScheduleInv, EarlyInv
  <1>1. CASE main_zigbee_enable
    <2>1. /\ UNCHANGED <<rejoin, alarms, restarts, indicating, stack_initialised, bdb, bdbLeft,
                         joined>>
          /\ ~stack_initialised
      BY <1>1 DEF main_zigbee_enable, app, zboss, StatusInv
    <2>2. Early /\ Early'
      BY <2>1 DEF Early
    <2>3. bdb' = "starting" => bdb = "starting"
      BY <2>1
    <2> QED  BY <1>0, <2>1, <2>2, <2>3, ScheduleSame DEF GivesUpFirst
  <1>2. CASE command_control_reset_zigbee
    <2> DEFINE s == [sig |-> "LEAVE", ok |-> TRUE]
    <2>1. /\ UNCHANGED <<rejoin, alarms, restarts, indicating, stack_initialised, bdb, bdbLeft>>
          /\ ~joined'
          /\ signals' = Append(signals, s) \/ UNCHANGED signals
      BY <1>2 DEF command_control_reset_zigbee, app, zboss
    <2>2. s \in ASignal /\ s.sig = "LEAVE"
      BY DEF ASignal, Signal
    <2> HIDE DEF s
    <2>3. /\ Raised("FIRST_START")' <=> Raised("FIRST_START")
          /\ Raised("STEERING") => Raised("STEERING")'
      <3>1. CASE signals' = Append(signals, s)
        BY <1>0, <2>2, <3>1, RaisedMore
      <3>2. CASE UNCHANGED signals
        BY <3>2 DEF Raised
      <3> QED  BY <2>1, <3>1, <3>2
    <2>4. Early' => Early
      BY <2>1, <2>3 DEF Early
    <2>5. \A p \in Will("stop_network_rejoin") : Chase(p) => Chase(p)'
      BY <2>1, <2>3 DEF Chase, Will
    <2> QED  BY <2>1, <2>4, <2>5, ScheduleSame
  <1>3. CASE StackStarted
    <2>1. /\ UNCHANGED <<rejoin, alarms, restarts, indicating, stack_initialised>> /\ bdb' = "idle"
          /\ bdb = "starting" /\ Early
      BY <1>3 DEF StackStarted, app, zboss, Early
    <2>2. Early' => UNCHANGED joined
      <3>1. CASE nvram
        <4>1. PICK ok \in BOOLEAN : Raise("REBOOT", ok)
          BY <1>3, <3>1 DEF StackStarted
        <4> DEFINE s == [sig |-> "REBOOT", ok |-> ok]
        <4>2. s \in ASignal /\ s.sig = "REBOOT" /\ signals' = Append(signals, s)
          BY <4>1 DEF Raise, ASignal, Signal
        <4> HIDE DEF s
        <4>3. ~Raised("FIRST_START")
          BY <2>1, <3>1 DEF WaitingInv, Raised
        <4>4. ~Raised("FIRST_START")'
          BY <1>0, <4>2, <4>3, RaisedMore
        <4>5. stack_initialised'
          BY <2>1 DEF StatusInv
        <4> QED  BY <2>1, <4>4, <4>5 DEF Early
      <3>2. CASE ~nvram
        BY <1>3, <3>2 DEF StackStarted
      <3> QED  BY <3>1, <3>2
    <2> QED  BY <1>0, <2>1, <2>2, ScheduleSame DEF GivesUpFirst
  <1>4. CASE SteeringEnded
    <2>1. PICK ok \in BOOLEAN : Raise("STEERING", ok)
      BY <1>4 DEF SteeringEnded
    <2> DEFINE s == [sig |-> "STEERING", ok |-> ok]
    <2>2. s \in ASignal /\ s.sig = "STEERING" /\ signals' = Append(signals, s)
      BY <2>1 DEF Raise, ASignal, Signal
    <2> HIDE DEF s
    <2>3. /\ UNCHANGED <<rejoin, alarms, restarts, indicating, stack_initialised>> /\ bdb' = "idle" /\ bdb = "steering"
          /\ signals = <<>>
      BY <1>4 DEF SteeringEnded, app, zboss, Radio
    <2>4. stack_initialised
      BY <2>3 DEF StatusInv, Cold
    <2>5. Raised("STEERING")' /\ ~Raised("FIRST_START")'
      <3>1. ~Raised("FIRST_START")
        BY <2>3 DEF Raised
      <3> QED  BY <1>0, <2>2, <3>1, RaisedMore
    <2>6. ~Early'
      BY <2>3, <2>4, <2>5 DEF Early
    <2>7. \A p \in Will("stop_network_rejoin") : Chase(p)'
      BY <2>5 DEF Chase
    <2> QED  BY <2>3, <2>6, <2>7, ScheduleSame
  <1>5. CASE NetworkLeave
    <2> DEFINE s == [sig |-> "LEAVE", ok |-> TRUE]
    <2>1. /\ UNCHANGED <<rejoin, alarms, restarts, indicating, stack_initialised, bdb, bdbLeft>>
          /\ ~joined'
          /\ signals' = Append(signals, s)
      BY <1>5 DEF NetworkLeave, app, zboss, Raise
    <2>2. s \in ASignal /\ s.sig = "LEAVE"
      BY DEF ASignal, Signal
    <2> HIDE DEF s
    <2>3. /\ Raised("FIRST_START")' <=> Raised("FIRST_START")
          /\ Raised("STEERING") => Raised("STEERING")'
      BY <1>0, <2>1, <2>2, RaisedMore
    <2>4. Early' => Early
      BY <2>1, <2>3 DEF Early
    <2>5. \A p \in Will("stop_network_rejoin") : Chase(p) => Chase(p)'
      BY <2>1, <2>3 DEF Chase, Will
    <2> QED  BY <2>1, <2>4, <2>5, ScheduleSame
  <1>6. CASE (\E s \in UsbStatus : usb_cb(s)) \/ UNCHANGED vars
    <2>1. UNCHANGED <<rejoin, alarms, restarts, indicating, stack_initialised, bdb, bdbLeft, joined,
                      signals>>
      BY <1>6 DEF usb_cb, vars, stack, app, zboss
    <2>2. Early' => Early
      BY <2>1 DEF Early, Raised
    <2>3. \A p \in Will("stop_network_rejoin") : Chase(p) => Chase(p)'
      BY <2>1 DEF Chase, Will, Raised
    <2> QED  BY <2>1, <2>2, <2>3, ScheduleSame
  <1>7. CASE OtherSignal
    <2> DEFINE s == [sig |-> "OTHER", ok |-> TRUE]
    <2>1. /\ UNCHANGED <<rejoin, alarms, restarts, indicating, stack_initialised, bdb, bdbLeft,
                         joined>>
          /\ signals' = Append(signals, s)
      BY <1>7 DEF OtherSignal, app, zboss, Raise
    <2>2. s \in ASignal /\ s.sig = "OTHER"
      BY DEF ASignal, Signal
    <2> HIDE DEF s
    <2>3. /\ Raised("FIRST_START")' <=> Raised("FIRST_START")
          /\ Raised("STEERING") => Raised("STEERING")'
      BY <1>0, <2>1, <2>2, RaisedMore
    <2>4. Early' => Early
      BY <2>1, <2>3 DEF Early
    <2>5. \A p \in Will("stop_network_rejoin") : Chase(p) => Chase(p)'
      BY <2>1, <2>3 DEF Chase, Will
    <2> QED  BY <2>1, <2>4, <2>5, ScheduleSame
  <1> QED  BY <1>1, <1>2, <1>3, <1>4, <1>5, <1>6, <1>7 DEF Stack, Environment

\* zb_app_cb_process only carries out what will be set.
LEMMA ScheduleProcess ==
    ASSUME ScheduleInv, AlarmInv, zb_app_cb_process
    PROVE  ScheduleInv'
  <1> DEFINE q == rejoin.requests
             x == Head(q)
  <1>1. /\ q # <<>> /\ q \in Seq(IRequest) /\ rejoin \in IRejoin
        /\ alarms \in [Callback -> SUBSET Int]
        /\ alarms' = AlarmsAfter(x) /\ rejoin' = [rejoin EXCEPT !.requests = Tail(q)]
        /\ restarts' = (IF x = Call THEN restarts + 1 ELSE restarts)
        /\ UNCHANGED <<signals, stack_initialised, bdb, bdbLeft, joined, indicating>>
    BY DEF zb_app_cb_process, AlarmInv, Sound, IRejoin, stack
  <1>2. x \in IRequest
    BY <1>1
  <1>3. /\ rejoin'.requests = Tail(q) /\ rejoin'.started = rejoin.started
        /\ rejoin'.wait_for_user_input = rejoin.wait_for_user_input
        /\ rejoin'.start_scheduled = rejoin.start_scheduled
        /\ rejoin'.in_progress = rejoin.in_progress /\ rejoin'.attempt_cnt = rejoin.attempt_cnt
    BY <1>1 DEF IRejoin
  <1>4. \A f \in Callback : Will(f)' = Will(f)
    BY <1>1, <1>3, TailPending DEF Will
  <1>5. NoTry(q) => NoTry(Tail(q)) /\ ~Tries(x)
    BY <1>1, TailKeeps
  <1>7. /\ Now("stop_network_rejoin")' => Now("stop_network_rejoin")
        /\ Now("Recon_timer_cb")' => Now("Recon_timer_cb")
    BY <1>1, <1>2, DelayAssumption DEF AlarmsAfter, IRequest, Known, Now, Callback, Call
  <1> HIDE DEF q, x
  <1>9. Tried' => Tried
    BY <1>1, <1>3, <1>5 DEF Tried, Restarting, Tries, q
  <1>10. /\ Will("stop_network_rejoin")' = Will("stop_network_rejoin")
         /\ Will("rejoin_the_network")' = Will("rejoin_the_network")
         /\ Will("Recon_timer_cb")' = Will("Recon_timer_cb")
         /\ Will("start_network_steering")' = Will("start_network_steering")
    BY <1>4 DEF Callback
  <1>12. PlanInv'
    BY <1>3, <1>7, <1>9, <1>10, PlanShrinks DEF ScheduleInv
  <1>13. Early' => Early
    BY <1>1 DEF Early, Raised
  <1>14. EarlyInv'
    BY <1>1, <1>3, <1>7, <1>9, <1>10, <1>13, EarlyShrinks DEF ScheduleInv
  <1>15. \A p \in Will("stop_network_rejoin") : Chase(p) => Chase(p)'
    BY <1>1, <1>3, <1>10 DEF Chase, Raised
  <1>16. ChaseInv'
    BY <1>10, <1>15, ChaseShrinks DEF ScheduleInv
  <1> QED  BY <1>12, <1>14, <1>16 DEF ScheduleInv

\* What will be set is a number of ticks.
LEMMA WillInts ==
    ASSUME AlarmInv, NEW f \in Callback
    PROVE  Will(f) \subseteq Int
  <1>1. /\ rejoin.requests \in Seq(IRequest) /\ alarms[f] \subseteq Int
    BY DEF AlarmInv, Sound, IRejoin
  <1>2. \A i \in 1..Len(rejoin.requests) : rejoin.requests[i].after \in Int
    BY <1>1 DEF IRequest, Call
  <1> QED  BY <1>1, <1>2 DEF Will, Pending

\* An alarm is taken.
LEMMA DueWill ==
    ASSUME alarms \in [Callback -> SUBSET Int], NEW f \in Callback, Due(f)
    PROVE  \A g \in Callback :
              /\ alarms'[g] = (IF g = f THEN alarms[g] \ {0} ELSE alarms[g])
              /\ Now(g)' => Now(g)
              /\ Now(f) /\ ~Now(f)'
              /\ Pending(rejoin.requests, alarms', g) \subseteq Will(g)
              /\ g # f => Pending(rejoin.requests, alarms', g) = Will(g)
              /\ g = f => Will(g) \ {0} \subseteq Pending(rejoin.requests, alarms', g)
  <1> TAKE g \in Callback
  <1>1. \A h \in Callback : alarms'[h] = (IF h = f THEN alarms[h] \ {0} ELSE alarms[h])
    BY DEF Due
  <1>2. /\ Now(g)' => Now(g)
        /\ Now(f) /\ ~Now(f)'
    BY <1>1 DEF Now, Due
  <1>3. /\ g # f => alarms'[g] = alarms[g]
        /\ alarms'[g] \subseteq alarms[g]
        /\ g = f => alarms'[g] = alarms[g] \ {0}
    BY <1>1
  <1>4. Pending(rejoin.requests, alarms', g) \subseteq Will(g)
    BY <1>3, LessPending DEF Will
  <1>5. g # f => Pending(rejoin.requests, alarms', g) = Will(g)
    BY <1>3, LessPending DEF Will
  <1>6. g = f => Will(g) \ {0} \subseteq Pending(rejoin.requests, alarms', g)
    BY <1>3, LessPending DEF Will
  <1> QED  BY <1>1, <1>2, <1>4, <1>5, <1>6

\* The user, or the reconnect alarm, asks for a restart of the search.
LEMMA ScheduleInput ==
    ASSUME ScheduleInv, AlarmInv, command_control_connect \/ Recon_timer_cb_indicates
    PROVE  ScheduleInv'
  <1> DEFINE q == rejoin.requests
  <1>1. /\ rejoin \in IRejoin
        /\ UNCHANGED <<alarms, signals, stack_initialised, bdb, bdbLeft, joined, restarts>>
    BY DEF AlarmInv, Sound, command_control_connect, Recon_timer_cb_indicates, stack
  <1>2. \/ rejoin' = rejoin /\ UNCHANGED indicating
        \/ /\ rejoin' = Indicated(rejoin)
           /\ Tried' => Tried \/ rejoin.wait_for_user_input
    BY DEF command_control_connect, Recon_timer_cb_indicates, Requests, user_input_indicate,
           MayIndicate, Tried, Restarting
  <1>3. /\ rejoin'.wait_for_user_input = rejoin.wait_for_user_input
        /\ rejoin'.started = rejoin.started
        /\ rejoin'.in_progress = rejoin.in_progress /\ rejoin'.attempt_cnt = rejoin.attempt_cnt
    BY <1>1, <1>2, IndicateAdds
  <1>4. SameBut(q, rejoin'.requests, alarms, {})
    <2>1. CASE rejoin' = rejoin
      BY <2>1 DEF SameBut
    <2>2. CASE rejoin' = Indicated(rejoin)
      BY <1>1, <2>2, IndicateAdds
    <2> QED  BY <1>2, <2>1, <2>2
  <1> HIDE DEF q
  <1>5. \A g \in Callback : Will(g)' = Will(g) /\ (Now(g)' <=> Now(g))
    BY <1>1, <1>4 DEF SameBut, Will, Now, q
  <1>6. /\ Will("stop_network_rejoin")' = Will("stop_network_rejoin")
        /\ Will("rejoin_the_network")' = Will("rejoin_the_network")
        /\ Will("start_network_steering")' = Will("start_network_steering")
        /\ Will("Recon_timer_cb")' = Will("Recon_timer_cb")
        /\ Now("stop_network_rejoin")' => Now("stop_network_rejoin")
        /\ Now("Recon_timer_cb")' => Now("Recon_timer_cb")
    BY <1>5 DEF Callback
  <1>7. Tried' => Tried \/ rejoin.wait_for_user_input
    BY <1>1, <1>2 DEF Tried, Restarting
  <1>8. PlanInv'
    BY <1>3, <1>6, <1>7, PlanShrinks DEF ScheduleInv
  <1>9. Early' => Early
    BY <1>1 DEF Early, Raised
  <1>10. EarlyInv'
    BY <1>1, <1>3, <1>6, <1>7, <1>9, EarlyShrinks DEF ScheduleInv
  <1>11. \A p \in Will("stop_network_rejoin") : Chase(p) => Chase(p)'
    BY <1>1, <1>3, <1>6 DEF Chase, Raised
  <1>12. ChaseInv'
    BY <1>6, <1>11, ChaseShrinks DEF ScheduleInv
  <1> QED  BY <1>8, <1>10, <1>12 DEF ScheduleInv

\* The reconnect alarm is taken; an attempt begins in the stack.
LEMMA ScheduleSteering ==
    ASSUME ScheduleInv, AlarmInv, WaitingInv, Commissioning,
           Recon_timer_cb_connect \/ Recon_timer_cb_joined \/ start_network_steering
    PROVE  ScheduleInv'
  <1> DEFINE q == rejoin.requests
             T == "start_network_steering"
  <1>1. /\ alarms \in [Callback -> SUBSET Int] /\ bdbLeft \in 0..SteeringTime
        /\ SteeringTime \in Nat
    BY DelayAssumption DEF AlarmInv, WaitingInv
  <1>2. /\ UNCHANGED <<rejoin, signals, joined, stack_initialised, restarts>>
        /\ indicating' => indicating \/ rejoin.wait_for_user_input
        /\ bdb' = "starting" => bdb = "starting" /\ UNCHANGED bdbLeft
        /\ \/ Due("Recon_timer_cb") /\ UNCHANGED <<bdb, bdbLeft>>
           \/ /\ Due(T)
              /\ IF bdb = "idle" THEN bdb' = "steering" /\ bdbLeft' = SteeringTime
                                 ELSE UNCHANGED <<bdb, bdbLeft>>
    <2>1. CASE Recon_timer_cb_connect
      BY <2>1 DEF Recon_timer_cb_connect, MayIndicate, stack, app
    <2>2. CASE Recon_timer_cb_joined
      BY <2>2 DEF Recon_timer_cb_joined, stack, app, zboss
    <2>3. CASE start_network_steering
      BY <2>3 DEF start_network_steering, app, zboss
    <2> QED  BY <2>1, <2>2, <2>3
  <1>3. \A g \in Callback :
           /\ g \notin {"Recon_timer_cb", T} => alarms'[g] = alarms[g]
           /\ Now(g)' => Now(g)
           /\ Will(g)' \subseteq Will(g)
           /\ g \notin {"Recon_timer_cb", T} => Will(g)' = Will(g)
           /\ g = T => Will(g) \ {0} \subseteq Will(g)'
    <2>1. CASE Due("Recon_timer_cb")
      BY <1>1, <1>2, <2>1, DueWill DEF Callback, Will
    <2>2. CASE Due(T)
      BY <1>1, <1>2, <2>2, DueWill DEF Callback, Will
    <2> QED  BY <1>2, <2>1, <2>2
  <1>4. /\ Will("stop_network_rejoin")' = Will("stop_network_rejoin")
        /\ Will("rejoin_the_network")' = Will("rejoin_the_network")
        /\ Will(T) \ {0} \subseteq Will(T)'
        /\ Will("Recon_timer_cb")' \subseteq Will("Recon_timer_cb")
        /\ Now("stop_network_rejoin")' => Now("stop_network_rejoin")
        /\ Now("Recon_timer_cb")' => Now("Recon_timer_cb")
    BY <1>3 DEF Callback
  <1>5. Tried' => Tried \/ rejoin.wait_for_user_input
    BY <1>2 DEF Tried, Restarting
  <1>7. PlanInv'
    BY <1>2, <1>4, <1>5, PlanShrinks DEF ScheduleInv
  <1>8. Early' => Early
    BY <1>2 DEF Early, Raised
  <1>9. EarlyInv'
    BY <1>2, <1>4, <1>5, <1>8, EarlyShrinks DEF ScheduleInv
  <1>10. ASSUME NEW p \in Will("stop_network_rejoin")', NEW c \in Will("Recon_timer_cb")', Chase(p)
         PROVE  c > p \/ Chase(p)'
    <2>1. CASE Raised("STEERING")
      BY <1>2, <2>1 DEF Chase, Raised
    <2>2. CASE bdb = "steering" /\ bdbLeft < p
      BY <1>2, <2>2 DEF Chase
    <2>3. CASE /\ ~rejoin.in_progress /\ rejoin.attempt_cnt = 0
               /\ \E u \in Will("rejoin_the_network") : u + 1 + SteeringTime < p
      BY <1>2, <1>4, <2>3 DEF Chase
    <2>4. ASSUME NEW v \in Will(T), 0 <= v, v + SteeringTime < p
          PROVE  c > p \/ Chase(p)'
      <3>1. CASE v \in Will(T)'
        BY <2>4, <3>1 DEF Chase
      <3>2. CASE v \notin Will(T)'
        <4>1. v = 0
          BY <1>4, <3>2
        <4>2. ~(Due("Recon_timer_cb") /\ UNCHANGED <<bdb, bdbLeft>>)
          <5> SUFFICES ASSUME Due("Recon_timer_cb") PROVE Will(T)' = Will(T)
            BY <3>2
          <5> QED  BY <1>1, <1>2, DueWill DEF Callback, Will
        <4>3. IF bdb = "idle" THEN bdb' = "steering" /\ bdbLeft' = SteeringTime
                              ELSE UNCHANGED <<bdb, bdbLeft>>
          BY <1>2, <4>2
        <4>4. CASE bdb = "idle"
          BY <1>1, <2>4, <4>1, <4>3, <4>4 DEF Chase
        <4>5. CASE bdb = "steering"
          <5>1. SteeringTime < p
            BY <1>1, <2>4, <4>1
          <5>2. bdbLeft < p
            <6>1. p \in Int
              BY <1>4, WillInts DEF Callback
            <6> QED  BY <1>1, <5>1, <6>1
          <5> QED  BY <4>3, <4>5, <5>2 DEF Chase
        <4>6. CASE bdb \notin {"idle", "steering"}
          <5>1. bdb = "starting"
            BY <4>6 DEF Commissioning
          <5> QED  BY <1>4, <5>1 DEF ScheduleInv, EarlyInv, Early, GivesUpFirst
        <4> QED  BY <4>4, <4>5, <4>6
      <3> QED  BY <3>1, <3>2
    <2> QED  BY <1>10, <2>1, <2>2, <2>3, <2>4 DEF Chase
  <1>11. ChaseInv'
    BY <1>4, <1>10, ChaseShrinks DEF ScheduleInv
  <1> QED  BY <1>7, <1>9, <1>11 DEF ScheduleInv

\* An attempt: the one that a restart asks for, or behind a signal.
LEMMA ScheduleAttempt ==
    ASSUME ScheduleInv, AlarmInv, StatusInv, rejoin' = rejoin_the_network(rejoin),
           Due("rejoin_the_network") \/ UNCHANGED alarms,
           UNCHANGED <<stack_initialised, bdb, bdbLeft, joined, restarts, indicating>>,
           Early' => Early, Raised("STEERING") => Raised("STEERING")'
    PROVE  ScheduleInv'
  <1> DEFINE q == rejoin.requests
             J == "rejoin_the_network"
             T == "start_network_steering"
  <1>1. /\ rejoin \in IRejoin /\ alarms \in [Callback -> SUBSET Int]
        /\ rejoin' = rejoin_the_network(rejoin)
        /\ UNCHANGED <<stack_initialised, bdb, bdbLeft, joined>>
    BY DEF AlarmInv, Sound
  <1>2. \A g \in Callback :
           /\ g # J => alarms'[g] = alarms[g]
           /\ Now(g)' => Now(g)
           /\ Pending(q, alarms', g) \subseteq Will(g)
           /\ g # J => Pending(q, alarms', g) = Will(g)
    <2>1. CASE Due(J)
      BY <1>1, <2>1, DueWill DEF Callback
    <2>2. CASE UNCHANGED alarms
      BY <2>2 DEF Will, Now
    <2> QED  BY <2>1, <2>2
  <1>3. /\ rejoin'.wait_for_user_input = rejoin.wait_for_user_input
        /\ rejoin'.started = rejoin.started /\ rejoin'.start_scheduled = rejoin.start_scheduled
    BY <1>1, TryAdds
  <1>4. SameBut(q, rejoin'.requests, alarms', {T})
    BY <1>1, TryAdds
  <1>5. SameTries(q, rejoin'.requests)
    BY <1>1, TryAdds
  <1>6. \/ rejoin' = rejoin
        \/ Pending(rejoin'.requests, alarms', T) =
              Pending(q, alarms', T) \cup {Interval(rejoin.attempt_cnt)}
    BY <1>1, TryAdds
  <1> HIDE DEF q
  <1>7. \A g \in Callback \ {T} : Will(g)' = Pending(q, alarms', g)
    BY <1>4 DEF SameBut, Will
  <1>8. /\ Will("stop_network_rejoin")' = Will("stop_network_rejoin")
        /\ Will(J)' \subseteq Will(J)
        /\ Will("Recon_timer_cb")' = Will("Recon_timer_cb")
        /\ Now("stop_network_rejoin")' => Now("stop_network_rejoin")
        /\ Now("Recon_timer_cb")' => Now("Recon_timer_cb")
    BY <1>2, <1>7 DEF Callback
  <1>9. /\ Will(T) \subseteq Will(T)'
        /\ rejoin' # rejoin => Interval(rejoin.attempt_cnt) \in Will(T)'
    <2>1. Pending(q, alarms', T) = Will(T)
      BY <1>2 DEF Callback
    <2>2. Will(T)' = Pending(rejoin'.requests, alarms', T)
      BY DEF Will
    <2>3. rejoin' = rejoin => rejoin'.requests = q
      BY DEF q
    <2> QED  BY <1>6, <2>1, <2>2, <2>3
  <1>10. Tried' => Tried
    BY <1>5 DEF Tried, Restarting, SameTries, q
  <1>12. PlanInv'
    BY <1>3, <1>8, <1>10, PlanShrinks DEF ScheduleInv
  <1>13. Early' => Early
    OBVIOUS
  <1>14. EarlyInv'
    BY <1>1, <1>3, <1>8, <1>10, <1>13, EarlyShrinks DEF ScheduleInv
  <1>15. ASSUME NEW p \in Will("stop_network_rejoin"), Chase(p)
         PROVE  Chase(p)'
    <2>1. CASE Raised("STEERING") \/ (bdb = "steering" /\ bdbLeft < p)
      BY <1>1, <2>1 DEF Chase
    <2>2. CASE \E v \in Will(T) : 0 <= v /\ v + SteeringTime < p
      BY <1>9, <2>2 DEF Chase
    <2>3. ASSUME ~rejoin.in_progress, rejoin.attempt_cnt = 0,
                 NEW u \in Will(J), u + 1 + SteeringTime < p
          PROVE  Chase(p)'
      <3>1. rejoin.started
        BY DEF ScheduleInv, PlanInv
      <3>2. stack_initialised
        BY <3>1 DEF StatusInv, Cold, Rejoin0
      <3>3. rejoin' # rejoin
        <4>1. rejoin'.in_progress = TRUE
          BY <1>1, <2>3, <3>1, <3>2 DEF rejoin_the_network, IRejoin
        <4> QED  BY <2>3, <4>1
      <3>4. Interval(rejoin.attempt_cnt) = 1
        <4>1. 2^0 = 1
          BY SMT
        <4>2. ~(1 > REJOIN_INTERVAL_MAX)
          BY DelayAssumption
        <4> QED  BY <2>3, <4>1, <4>2 DEF Interval
      <3>5. u \in {0, 1} /\ p \in Int /\ SteeringTime \in Nat
        BY WillInts, DelayAssumption DEF ScheduleInv, PlanInv, Callback
      <3>6. 0 <= 1 /\ 1 + SteeringTime < p
        BY <2>3, <3>5
      <3>7. 1 \in Will(T)'
        BY <1>9, <3>3, <3>4
      <3> QED  BY <3>6, <3>7 DEF Chase
    <2> QED  BY <1>15, <2>1, <2>2, <2>3 DEF Chase
  <1>16. ChaseInv'
    BY <1>8, <1>15, ChaseShrinks DEF ScheduleInv
  <1> QED  BY <1>12, <1>14, <1>16 DEF ScheduleInv

\* The search is given up.
LEMMA ScheduleStop ==
    ASSUME ScheduleInv, AlarmInv, stop_network_rejoin_alarm
    PROVE  ScheduleInv'
  <1> DEFINE q == rejoin.requests
             S == "stop_network_rejoin"
  <1>1. /\ rejoin \in IRejoin /\ alarms \in [Callback -> SUBSET Int]
        /\ Due(S) /\ rejoin' = stop_network_rejoin(rejoin, TRUE)
        /\ UNCHANGED <<signals, stack_initialised, bdb, bdbLeft, joined, restarts, indicating>>
    BY DEF AlarmInv, Sound, stop_network_rejoin_alarm, Requests, stack
  <1>2. \A g \in Callback :
           /\ g # S => alarms'[g] = alarms[g] /\ Pending(q, alarms', g) = Will(g)
           /\ Now(S) /\ ~Now(S)'
    BY <1>1, DueWill DEF Callback
  <1>3. rejoin'.wait_for_user_input = TRUE /\ ~rejoin'.started
    BY <1>1, StopAdds
  <1>4. Pending(rejoin'.requests, alarms', S) = {}
    BY <1>1, StopAdds
  <1>5. SameBut(q, rejoin'.requests, alarms', {"stop_network_rejoin", "start_network_steering"})
    BY <1>1, StopAdds
  <1>6. SameTries(q, rejoin'.requests)
    BY <1>1, StopAdds
  <1> HIDE DEF q
  <1>7. /\ Will(S)' = {}
        /\ Will("rejoin_the_network")' = Will("rejoin_the_network")
        /\ Now(S) /\ ~Now(S)'
    BY <1>2, <1>4, <1>5 DEF SameBut, Will, Callback
  <1>8. Will("rejoin_the_network") = {} /\ ~Tried /\ ~Early
    BY <1>7 DEF ScheduleInv, PlanInv, EarlyInv
  <1>9. ~Tried'
    BY <1>1, <1>6, <1>8 DEF Tried, Restarting, SameTries, q
  <1>10. PlanInv'
    BY <1>3, <1>7, <1>8, <1>9 DEF PlanInv
  <1>11. EarlyInv'
    BY <1>1, <1>8 DEF EarlyInv, Early, Raised
  <1>12. ChaseInv'
    BY <1>7 DEF ChaseInv
  <1> QED  BY <1>10, <1>11, <1>12 DEF ScheduleInv

\* A search that was given up is restarted.
LEMMA ScheduleRestart ==
    ASSUME Quick, ScheduleInv, AlarmInv, StatusInv, start_network_rejoin_ED_callback
    PROVE  ScheduleInv'
  <1> DEFINE q == rejoin.requests
             S == "stop_network_rejoin"
             J == "rejoin_the_network"
  <1>1. /\ rejoin \in IRejoin /\ alarms \in [Callback -> SUBSET Int]
        /\ restarts > 0 /\ restarts' = restarts - 1
        /\ rejoin' = start_network_rejoin_ED(rejoin)
        /\ UNCHANGED <<alarms, signals, stack_initialised, bdb, bdbLeft, joined, indicating>>
    BY DEF AlarmInv, Sound, start_network_rejoin_ED_callback, Requests, stack
  <1>4. stack_initialised
    BY <1>1 DEF StatusInv, Cold
  <1>5. rejoin.wait_for_user_input => ~rejoin.started
    BY DEF ScheduleInv, PlanInv
  <1>6. /\ rejoin'.wait_for_user_input = (rejoin.wait_for_user_input /\ ~Restarted(rejoin))
        /\ rejoin'.started = (rejoin.started \/ Restarted(rejoin))
        /\ ~rejoin'.start_scheduled
    BY <1>1, <1>4, <1>5, RestartAdds
  <1>7. /\ Restarted(rejoin) => ~rejoin'.in_progress /\ rejoin'.attempt_cnt = 0
        /\ ~Restarted(rejoin) => /\ rejoin'.in_progress = rejoin.in_progress
                                 /\ rejoin'.attempt_cnt = rejoin.attempt_cnt
    BY <1>1, <1>4, <1>5, RestartAdds
  <1>8. Pending(rejoin'.requests, alarms, S) =
           Pending(q, alarms, S) \cup (IF Restarted(rejoin) THEN {RejoinTimeout} ELSE {})
    BY <1>1, <1>4, <1>5, RestartAdds
  <1>9. Pending(rejoin'.requests, alarms, J) =
           Pending(q, alarms, J) \cup (IF Restarted(rejoin) THEN {1} ELSE {})
    BY <1>1, <1>4, <1>5, RestartAdds
  <1>10. SameBut(q, rejoin'.requests, alarms, {"stop_network_rejoin", "rejoin_the_network"})
    BY <1>1, <1>4, <1>5, RestartAdds
  <1>11. SameTries(q, rejoin'.requests)
    BY <1>1, <1>4, <1>5, RestartAdds
  <1> HIDE DEF q
  <1>12. /\ Will(S)' = Will(S) \cup (IF Restarted(rejoin) THEN {RejoinTimeout} ELSE {})
         /\ Will(J)' = Will(J) \cup (IF Restarted(rejoin) THEN {1} ELSE {})
         /\ Will("Recon_timer_cb")' = Will("Recon_timer_cb")
         /\ Will("start_network_steering")' = Will("start_network_steering")
    BY <1>1, <1>8, <1>9, <1>10 DEF SameBut, Will, Callback, q
  <1>13. /\ Now(S)' => Now(S)
         /\ Now("Recon_timer_cb")' => Now("Recon_timer_cb")
    BY <1>1 DEF Now
  <1>14. Tried' => Tried
    BY <1>1, <1>11 DEF Tried, Restarting, SameTries, q
  <1>15. Early' => Early
    BY <1>1 DEF Early, Raised
  <1>16. CASE ~Restarted(rejoin)
    <2>1. /\ rejoin'.wait_for_user_input = rejoin.wait_for_user_input
          /\ rejoin'.started = rejoin.started
      BY <1>1, <1>6, <1>16 DEF IRejoin
    <2>2. Will(S)' = Will(S) /\ Will(J)' = Will(J)
      BY <1>12, <1>16
    <2>3. PlanInv'
      BY <1>12, <1>13, <1>14, <2>1, <2>2, PlanShrinks DEF ScheduleInv
    <2>4. EarlyInv'
      BY <1>1, <1>12, <1>13, <1>14, <1>15, <2>1, <2>2, EarlyShrinks DEF ScheduleInv
    <2>5. \A p \in Will(S) : Chase(p) => Chase(p)'
      BY <1>1, <1>7, <1>12, <1>16, <2>2 DEF Chase, Raised
    <2>6. ChaseInv'
      BY <1>12, <2>2, <2>5, ChaseShrinks DEF ScheduleInv
    <2> QED  BY <2>3, <2>4, <2>6 DEF ScheduleInv
  <1>17. CASE Restarted(rejoin)
    <2>1. /\ rejoin.wait_for_user_input /\ ~Now(S) /\ Will(J) = {} /\ Will(S) = {} /\ ~Early
      BY <1>17 DEF Restarted, ScheduleInv, PlanInv, EarlyInv
    <2>2. Will(S)' = {RejoinTimeout} /\ Will(J)' = {1} /\ ~Now(S)'
      BY <1>12, <1>13, <1>17, <2>1
    <2>3. /\ rejoin'.started /\ ~rejoin'.wait_for_user_input
          /\ ~rejoin'.in_progress /\ rejoin'.attempt_cnt = 0
      BY <1>6, <1>7, <1>17
    <2>4. 1 < RejoinTimeout /\ RejoinTimeout <= RejoinTimeout /\ 1 + 1 + SteeringTime < RejoinTimeout
      BY DelayAssumption DEF Quick
    <2>5. PlanInv'
      BY <2>2, <2>3, <2>4 DEF PlanInv
    <2>6. EarlyInv'
      BY <1>15, <2>1 DEF EarlyInv
    <2>7. ChaseInv'
      BY <2>2, <2>3, <2>4 DEF ChaseInv, Chase
    <2> QED  BY <2>5, <2>6, <2>7 DEF ScheduleInv
  <1> QED  BY <1>16, <1>17

\* A signal keeps the search up, or begins one.
LEMMA ScheduleSearch ==
    ASSUME Quick, ScheduleInv, AlarmInv, WaitingInv, stack_initialised,
           UNCHANGED <<alarms, restarts, indicating, stack_initialised, joined, bdb, bdbLeft>>,
           rejoin'.wait_for_user_input = rejoin.wait_for_user_input,
           rejoin'.started = (rejoin.started \/ Starts(rejoin)),
           Will("stop_network_rejoin")' =
              Will("stop_network_rejoin") \cup (IF Starts(rejoin) THEN {RejoinTimeout} ELSE {}),
           Will("rejoin_the_network")' = Will("rejoin_the_network"),
           SameTries(rejoin.requests, rejoin'.requests),
           Early' => Early,
           \/ Will("Recon_timer_cb")' = {ReconnectDelay}
           \/ /\ Will("Recon_timer_cb")' = Will("Recon_timer_cb")
              /\ Early /\ bdb # "starting"
    PROVE  ScheduleInv'
  <1> DEFINE S == "stop_network_rejoin"
             J == "rejoin_the_network"
             C == "Recon_timer_cb"
  <1>1. /\ Now(S)' <=> Now(S)
        /\ Now(C)' <=> Now(C)
    BY DEF Now
  <1>2. Tried' => Tried
    BY DEF Tried, Restarting, SameTries
  <1>3. /\ SteeringTime \in Nat /\ RejoinTimeout \in Nat /\ ReconnectDelay \in Nat
        /\ RejoinTimeout > SteeringTime + 2 /\ ReconnectDelay > RejoinTimeout
        /\ bdbLeft \in 0..SteeringTime
    BY DelayAssumption DEF Quick, WaitingInv
  <1>4. Will(S) \subseteq Int /\ \A p \in Will(S) : p <= RejoinTimeout
    BY WillInts DEF Callback, ScheduleInv, PlanInv
  <1>5. \A p \in Will(S)' : p \in Int /\ p <= RejoinTimeout /\ (p \in Will(S) \/ p = RejoinTimeout)
    BY <1>3, <1>4
  <1>6. rejoin.started \in BOOLEAN
    BY DEF AlarmInv, Sound, IRejoin
  <1>7. PlanInv'
    <2>1. rejoin'.wait_for_user_input =>
             ~rejoin'.started /\ ~Now(S)' /\ Will(J)' = {}
      BY <1>1, <1>6 DEF Starts, ScheduleInv, PlanInv
    <2>2. ~rejoin'.started => Will(S)' = {}
      BY <1>6 DEF ScheduleInv, PlanInv
    <2>3. \A u \in Will(J)' : u \in {0, 1} /\ \A p \in Will(S)' : u < p
      BY <1>3, <1>5 DEF ScheduleInv, PlanInv
    <2>4. Now(S)' => ~Now(C)' /\ Will(J)' = {} /\ ~Tried'
      BY <1>1, <1>2 DEF ScheduleInv, PlanInv
    <2> QED  BY <1>5, <2>1, <2>2, <2>3, <2>4 DEF PlanInv
  <1>8. ASSUME Early
        PROVE  /\ ~rejoin.wait_for_user_input /\ ~Tried' /\ ~joined' /\ Will(J)' = {}
               /\ ~Now(S)' /\ rejoin'.started /\ GivesUpFirst'
    <2>1. /\ ~rejoin.wait_for_user_input /\ ~Tried' /\ ~joined' /\ ~joined /\ Will(J)' = {}
          /\ ~Now(S)'
      BY <1>1, <1>2, <1>8 DEF ScheduleInv, EarlyInv
    <2>2. rejoin'.started
      BY <1>6, <2>1 DEF Starts
    <2>3. GivesUpFirst'
      <3>1. CASE Will(C)' = {ReconnectDelay}
        BY <1>3, <1>5, <3>1 DEF GivesUpFirst
      <3>2. CASE Will(C)' = Will(C)
        <4>1. CASE Starts(rejoin)
          <5>1. Will(C) = {}
            BY <1>8, <4>1 DEF ScheduleInv, EarlyInv, Starts
          <5> QED  BY <3>2, <5>1 DEF GivesUpFirst
        <4>2. CASE ~Starts(rejoin)
          BY <1>8, <3>2, <4>2 DEF ScheduleInv, EarlyInv, GivesUpFirst
        <4> QED  BY <4>1, <4>2
      <3> QED  BY <3>1, <3>2
    <2> QED  BY <2>1, <2>2, <2>3
  <1>9. EarlyInv'
    <2> SUFFICES ASSUME Early' PROVE EarlyInv'
      BY DEF EarlyInv
    <2>1. bdb' = "starting" => \A p \in Will(S)' : p > bdbLeft'
      BY <1>3, <1>5 DEF ScheduleInv, EarlyInv, Early
    <2> QED  BY <1>8, <2>1 DEF EarlyInv
  <1>10. ChaseInv'
    <2>1. CASE Will(C)' = {ReconnectDelay}
      BY <1>3, <1>5, <2>1 DEF ChaseInv
    <2>2. CASE Early
      BY <1>8, <2>2 DEF ChaseInv, GivesUpFirst
    <2> QED  BY <2>1, <2>2
  <1> QED  BY <1>7, <1>9, <1>10 DEF ScheduleInv

\* The oldest signal is taken.
LEMMA RaisedLess ==
    ASSUME signals \in Seq(ASignal), signals # <<>>, signals' = Tail(signals), NEW sig
    PROVE  Raised(sig)' => Raised(sig)
  <1>1. \A i \in 1..Len(Tail(signals)) : Tail(signals)[i] = signals[i + 1] /\ i + 1 \in 1..Len(signals)
    OBVIOUS
  <1> QED  BY <1>1 DEF Raised

LEMMA RaisedKept ==
    ASSUME signals \in Seq(ASignal), signals # <<>>, signals' = Tail(signals),
           NEW sig, Head(signals).sig # sig
    PROVE  Raised(sig) => Raised(sig)'
  <1> SUFFICES ASSUME NEW i \in 1..Len(signals), signals[i].sig = sig
               PROVE  Raised(sig)'
    BY DEF Raised
  <1>1. i # 1
    OBVIOUS
  <1>2. i - 1 \in 1..Len(Tail(signals)) /\ Tail(signals)[i - 1] = signals[i]
    BY <1>1
  <1> QED  BY <1>2 DEF Raised

LEMMA ScheduleHandler ==
    ASSUME Quick, ScheduleInv, AlarmInv, StatusInv, WaitingInv, zboss_signal_handler
    PROVE  ScheduleInv'
  <1> DEFINE sig == Head(signals).sig
             ok == Head(signals).ok
             S == "stop_network_rejoin"
             J == "rejoin_the_network"
             C == "Recon_timer_cb"
  <1>1. /\ rejoin \in IRejoin /\ signals \in Seq(ASignal) /\ signals # <<>>
        /\ signals' = Tail(signals)
        /\ UNCHANGED <<alarms, joined, restarts, indicating>>
        /\ rejoin' = zigbee_default_signal_handler(
                            IF Restarts(sig) THEN zi_reboot(rejoin) ELSE rejoin, sig, ok)
    BY DEF zboss_signal_handler, AlarmInv, Sound, StatusInv, zboss
  <1>2. /\ Head(signals) = signals[1] /\ 1 \in 1..Len(signals)
        /\ sig \in Signal /\ ok \in BOOLEAN
    <2>1. Head(signals) = signals[1] /\ 1 \in 1..Len(signals) /\ Head(signals) \in ASignal
      BY <1>1
    <2> QED  BY <2>1 DEF ASignal
  <1>3. IF sig = "SKIP_STARTUP"
        THEN ~stack_initialised
        ELSE stack_initialised /\ UNCHANGED <<stack_initialised, bdb, bdbLeft>>
    <2>1. sig = "SKIP_STARTUP" => ~stack_initialised
      BY <1>2 DEF StatusInv
    <2>2. ~stack_initialised => sig = "SKIP_STARTUP"
      BY <1>1 DEF StatusInv, Cold
    <2> QED  BY <2>1, <2>2 DEF zboss_signal_handler
  <1>4. sig \in {"LEAVE", "FIRST_START"} => ok
    BY <1>2 DEF WaitingInv
  <1>5. Raised("FIRST_START") => sig \in {"LEAVE", "FIRST_START"}
    BY <1>2 DEF WaitingInv
  <1>6. bdb = "starting" => sig = "LEAVE"
    BY <1>1, <1>2 DEF WaitingInv
  <1>7. sig = "FIRST_START" => Raised("FIRST_START")
    BY <1>2 DEF Raised
  <1> HIDE DEF sig, ok
  <1>8. sig # "SKIP_STARTUP" => (Early' => Early)
    BY <1>1, <1>3, RaisedLess DEF Early
  <1>9. CASE sig = "SKIP_STARTUP"
    <2>1. Cold
      BY <1>3, <1>9 DEF StatusInv
    <2>2. rejoin' = rejoin
      BY <1>1, <1>3, <1>9 DEF Restarts, zigbee_default_signal_handler, rejoin_the_network
    <2> QED  BY <1>1, <2>1, <2>2, ScheduleNothing DEF Cold
  <1>10. CASE sig \in {"REBOOT", "STEERING"} /\ ok
    <2>1. rejoin' = rejoin_the_network(stop_network_rejoin(zi_reboot(rejoin), FALSE))
      BY <1>1, <1>10 DEF Restarts, zigbee_default_signal_handler
    <2>2. ~Early'
      <3>1. stack_initialised' /\ bdb' # "starting"
        BY <1>3, <1>6, <1>10
      <3>2. ~Raised("FIRST_START")'
        BY <1>1, <1>5, <1>10, RaisedLess
      <3> QED  BY <3>1, <3>2 DEF Early
    <2>3. ~rejoin'.started /\ ~rejoin'.wait_for_user_input
      BY <1>1, <2>1, AnswerAdds
    <2>4. Will(S)' = {} /\ Will(J)' = Will(J)
      <3>1. Pending(rejoin'.requests, alarms, S) = {}
        BY <1>1, <2>1, AnswerAdds
      <3>2. Pending(rejoin'.requests, alarms, J) = Pending(rejoin.requests, alarms, J)
        BY <1>1, <2>1, AnswerAdds
      <3> QED  BY <1>1, <3>1, <3>2 DEF Will
    <2>5. SameTries(rejoin.requests, rejoin'.requests)
      BY <1>1, <2>1, AnswerAdds
    <2>6. Tried' => Tried
      BY <1>1, <2>5 DEF Tried, Restarting, SameTries
    <2>7. (Now(S)' <=> Now(S)) /\ (Now(C)' <=> Now(C))
      BY <1>1 DEF Now
    <2>8. PlanInv'
      BY <2>3, <2>4, <2>6, <2>7 DEF ScheduleInv, PlanInv
    <2> QED  BY <2>2, <2>4, <2>8 DEF ScheduleInv, EarlyInv, ChaseInv
  <1>11. CASE (sig \in {"REBOOT", "STEERING"} /\ ~ok) \/ sig = "LEAVE"
    <2>1. rejoin' = rejoin_the_network(start_network_rejoin(zi_reboot(rejoin)))
      BY <1>1, <1>4, <1>11 DEF Restarts, zigbee_default_signal_handler
    <2>2. /\ rejoin'.wait_for_user_input = rejoin.wait_for_user_input
          /\ rejoin'.started = (rejoin.started \/ Starts(rejoin))
      BY <1>1, <2>1, FailureAdds
    <2>3. SameTries(rejoin.requests, rejoin'.requests)
      BY <1>1, <2>1, FailureAdds
    <2>4. /\ Will(C)' = {ReconnectDelay} /\ Will(J)' = Will(J)
          /\ Will(S)' = Will(S) \cup (IF Starts(rejoin) THEN {RejoinTimeout} ELSE {})
      <3>0. rejoin \in IRejoin
        BY <1>1
      <3>1. Pending(rejoin'.requests, alarms, C) = {ReconnectDelay}
        BY <2>1, <3>0, FailureAdds
      <3>2. Pending(rejoin'.requests, alarms, J) = Pending(rejoin.requests, alarms, J)
        BY <2>1, <3>0, FailureAdds
      <3>3. Pending(rejoin'.requests, alarms, S) =
               Pending(rejoin.requests, alarms, S)
                  \cup (IF Starts(rejoin) THEN {RejoinTimeout} ELSE {})
        BY <2>1, <3>0, FailureAdds
      <3> QED  BY <1>1, <3>1, <3>2, <3>3 DEF Will
    <2> QED  BY <1>1, <1>3, <1>8, <1>11, <2>2, <2>3, <2>4, ScheduleSearch
  <1>12. CASE sig = "FIRST_START"
    <2>1. rejoin' = rejoin_the_network(start_network_rejoin(rejoin))
      BY <1>1, <1>4, <1>12 DEF Restarts, zigbee_default_signal_handler
    <2>2. /\ rejoin'.wait_for_user_input = rejoin.wait_for_user_input
          /\ rejoin'.started = (rejoin.started \/ Starts(rejoin))
      BY <1>1, <2>1, SearchAdds
    <2>3. SameTries(rejoin.requests, rejoin'.requests)
      BY <1>1, <2>1, SearchAdds
    <2>4. /\ Will(C)' = Will(C) /\ Will(J)' = Will(J)
          /\ Will(S)' = Will(S) \cup (IF Starts(rejoin) THEN {RejoinTimeout} ELSE {})
      <3>1. SameBut(rejoin.requests, rejoin'.requests, alarms,
                    {"stop_network_rejoin", "start_network_steering"})
        BY <1>1, <2>1, SearchAdds
      <3>2. Pending(rejoin'.requests, alarms, S) =
               Pending(rejoin.requests, alarms, S)
                  \cup (IF Starts(rejoin) THEN {RejoinTimeout} ELSE {})
        BY <1>1, <2>1, SearchAdds
      <3> QED  BY <1>1, <3>1, <3>2 DEF Will, SameBut, Callback
    <2>5. Early /\ bdb # "starting"
      BY <1>6, <1>7, <1>12 DEF Early
    <2> QED  BY <1>1, <1>3, <1>8, <1>12, <2>2, <2>3, <2>4, <2>5, ScheduleSearch
  <1>13. CASE sig = "OTHER"
    <2>1. rejoin' = rejoin_the_network(rejoin)
      BY <1>1, <1>13 DEF Restarts, zigbee_default_signal_handler
    <2>2. Raised("STEERING") => Raised("STEERING")'
      BY <1>1, <1>13, RaisedKept DEF sig
    <2> QED  BY <1>1, <1>3, <1>8, <1>13, <2>1, <2>2, ScheduleAttempt
  <1> QED  BY <1>2, <1>9, <1>10, <1>11, <1>12, <1>13 DEF Signal

\* Time passes only when nothing is queued, so that what will be set is what is set.
LEMMA TickWill ==
    ASSUME AlarmInv, Tick, NEW f \in Callback
    PROVE  /\ Will(f) = alarms[f] /\ 0 \notin Will(f)
           /\ Will(f)' = {t - 1 : t \in Will(f)}
           /\ Now(f)' <=> 1 \in Will(f)
           /\ Will(f) \subseteq Int
  <1>1. rejoin.requests = <<>> /\ rejoin' = rejoin /\ alarms'[f] = {t - 1 : t \in alarms[f]}
    BY DEF Tick, app
  <1>2. Will(f) = alarms[f]
    BY <1>1, EmptyPending DEF Will
  <1>3. Will(f)' = alarms'[f]
    <2>1. Pending(<<>>, alarms', f) = alarms'[f]
      BY EmptyPending
    <2> QED  BY <1>1, <2>1 DEF Will
  <1>4. Will(f) \subseteq Int
    BY WillInts
  <1>5. Now(f)' <=> 1 \in Will(f)
    <2>1. \A t \in alarms[f] : t - 1 = 0 <=> t = 1
      BY <1>2, <1>4
    <2> QED  BY <1>1, <1>2, <2>1 DEF Now
  <1> QED  BY <1>1, <1>2, <1>3, <1>4, <1>5 DEF Tick

LEMMA ScheduleTick ==
    ASSUME ScheduleInv, AlarmInv, StatusInv, WaitingInv, Tick
    PROVE  ScheduleInv'
  <1> DEFINE S == "stop_network_rejoin"
             J == "rejoin_the_network"
             C == "Recon_timer_cb"
             T == "start_network_steering"
  <1>1. /\ rejoin' = rejoin /\ signals = <<>> /\ rejoin.requests = <<>>
        /\ UNCHANGED <<joined, signals, stack_initialised, bdb>>
        /\ bdb # "idle" => bdbLeft > 0 /\ bdbLeft' = bdbLeft - 1
        /\ bdbLeft \in Int /\ SteeringTime \in Nat
    BY DelayAssumption DEF Tick, app, WaitingInv
  <1>2. \A sig : ~Raised(sig)
    BY <1>1 DEF Raised
  <1>3. \A f \in Callback :
           /\ Will(f) = alarms[f] /\ 0 \notin Will(f)
           /\ Will(f)' = {t - 1 : t \in Will(f)}
           /\ Now(f)' <=> 1 \in Will(f)
           /\ Will(f) \subseteq Int
    BY TickWill
  <1>s. /\ 0 \notin Will(S) /\ Will(S)' = {t - 1 : t \in Will(S)}
        /\ Now(S)' <=> 1 \in Will(S)
        /\ Will(S) \subseteq Int
    BY <1>3 DEF Callback
  <1>j. /\ 0 \notin Will(J) /\ Will(J)' = {t - 1 : t \in Will(J)} /\ Will(J) \subseteq Int
    BY <1>3 DEF Callback
  <1>c. /\ Will(C)' = {t - 1 : t \in Will(C)} /\ Will(C) \subseteq Int
        /\ Now(C)' <=> 1 \in Will(C)
    BY <1>3 DEF Callback
  <1>t. /\ 0 \notin Will(T) /\ Will(T)' = {t - 1 : t \in Will(T)} /\ Will(T) \subseteq Int
    BY <1>3 DEF Callback
  <1>4. ~Tried'
    <2>1. NoTry(rejoin.requests)
      BY <1>1 DEF NoTry
    <2> QED  BY <1>1, <2>1 DEF Tried, Restarting, Tick, zboss
  <1>5. \A u \in Will(J) : u = 1 /\ \A p \in Will(S) : u < p
    BY <1>j DEF ScheduleInv, PlanInv
  <1>6. ~Chase(1)
    <2>1. ~(bdb = "steering" /\ bdbLeft < 1)
      BY <1>1
    <2>2. ~\E v \in Will(T) : 0 <= v /\ v + SteeringTime < 1
      BY <1>1, <1>t
    <2>3. ~\E u \in Will(J) : u + 1 + SteeringTime < 1
      BY <1>1, <1>5
    <2> QED  BY <1>2, <2>1, <2>2, <2>3 DEF Chase
  <1>7. PlanInv'
    <2>1. ~rejoin.started => Will(S)' = {} /\ ~Now(S)'
      BY <1>s DEF ScheduleInv, PlanInv
    <2>2. rejoin'.wait_for_user_input => ~rejoin'.started /\ ~Now(S)' /\ Will(J)' = {}
      BY <1>1, <1>j, <2>1 DEF ScheduleInv, PlanInv
    <2>3. \A p \in Will(S)' : p <= RejoinTimeout
      <3>1. \A p \in Will(S) : p - 1 <= RejoinTimeout
        BY <1>s, DelayAssumption DEF ScheduleInv, PlanInv
      <3> QED  BY <1>s, <3>1
    <2>4. \A u \in Will(J)' : u \in {0, 1} /\ \A p \in Will(S)' : u < p
      <3>1. \A u \in Will(J) : u - 1 = 0 /\ \A p \in Will(S) : u - 1 < p - 1
        BY <1>5, <1>s, <1>j
      <3> QED  BY <1>s, <1>j, <3>1
    <2>5. Now(S)' => ~Now(C)' /\ Will(J)' = {}
      <3> SUFFICES ASSUME 1 \in Will(S) PROVE 1 \notin Will(C) /\ Will(J) = {}
        BY <1>s, <1>j, <1>c
      <3>1. Will(J) = {}
        BY <1>5
      <3>2. 1 \notin Will(C)
        BY <1>6 DEF ScheduleInv, ChaseInv
      <3> QED  BY <3>1, <3>2
    <2> QED  BY <1>1, <1>4, <2>1, <2>2, <2>3, <2>4, <2>5 DEF PlanInv
  <1>8. EarlyInv'
    <2> SUFFICES ASSUME Early' PROVE EarlyInv'
      BY DEF EarlyInv
    <2>1. Early
      BY <1>1 DEF Early, Raised
    <2>2. ~stack_initialised \/ bdb = "starting"
      BY <1>2, <2>1 DEF Early
    <2>3. Will(J)' = {} /\ (~rejoin'.started => Will(C)' = {})
          /\ ~rejoin'.wait_for_user_input /\ ~joined'
      BY <1>1, <1>j, <1>c, <2>1 DEF ScheduleInv, EarlyInv
    <2>4. 1 \notin Will(S)
      <3>1. CASE ~stack_initialised
        BY <1>3, <3>1 DEF StatusInv, Cold, Callback
      <3>2. CASE bdb = "starting"
        BY <1>1, <2>1, <3>2 DEF ScheduleInv, EarlyInv
      <3> QED  BY <2>2, <3>1, <3>2
    <2>5. GivesUpFirst'
      <3>1. \A p \in Will(S), c \in Will(C) : c - 1 > p - 1
        BY <1>s, <1>c, <2>1 DEF ScheduleInv, EarlyInv, GivesUpFirst
      <3> QED  BY <1>s, <1>c, <3>1 DEF GivesUpFirst
    <2>6. bdb' = "starting" => \A p \in Will(S)' : p > bdbLeft'
      <3>1. bdb = "starting" => \A p \in Will(S) : p - 1 > bdbLeft - 1
        BY <1>1, <1>s, <2>1 DEF ScheduleInv, EarlyInv
      <3> QED  BY <1>1, <1>s, <3>1
    <2> QED  BY <1>4, <1>s, <2>3, <2>4, <2>5, <2>6 DEF EarlyInv
  <1>9. ASSUME NEW p \in Will(S), Chase(p)
        PROVE  Chase(p - 1)'
    <2>0. p \in Int
      BY <1>s
    <2>1. CASE bdb = "steering" /\ bdbLeft < p
      BY <1>1, <2>0, <2>1 DEF Chase
    <2>2. ASSUME NEW v \in Will(T), 0 <= v, v + SteeringTime < p
          PROVE  Chase(p - 1)'
      <3>1. v - 1 \in Will(T)' /\ 0 <= v - 1 /\ (v - 1) + SteeringTime < p - 1
        BY <1>1, <1>t, <2>0, <2>2
      <3> QED  BY <3>1 DEF Chase
    <2>3. ASSUME ~rejoin.in_progress, rejoin.attempt_cnt = 0,
                 NEW u \in Will(J), u + 1 + SteeringTime < p
          PROVE  Chase(p - 1)'
      <3>1. u - 1 \in Will(J)' /\ (u - 1) + 1 + SteeringTime < p - 1
        BY <1>1, <1>j, <2>0, <2>3
      <3> QED  BY <1>1, <2>3, <3>1 DEF Chase
    <2> QED  BY <1>2, <1>9, <2>1, <2>2, <2>3 DEF Chase
  <1>10. ChaseInv'
    <2>1. \A p \in Will(S), c \in Will(C) : c - 1 > p - 1 \/ Chase(p - 1)'
      BY <1>s, <1>c, <1>9 DEF ScheduleInv, ChaseInv
    <2> QED  BY <1>s, <1>c, <2>1 DEF ChaseInv
  <1> QED  BY <1>7, <1>8, <1>10 DEF ScheduleInv

LEMMA ScheduleInvStep ==
    ASSUME Quick, ScheduleInv, AlarmInv, StatusInv, WaitingInv, Commissioning, [Next]_vars
    PROVE  ScheduleInv'
  <1>1. CASE zboss_signal_handler
    BY <1>1, ScheduleHandler
  <1>2. CASE Recon_timer_cb_erase \/ command_control_restart \/ command_control_hard_reset
    BY <1>2, ScheduleReset
       DEF Recon_timer_cb_erase, command_control_restart, command_control_hard_reset
  <1>3. CASE Recon_timer_cb_indicates \/ command_control_connect
    BY <1>3, ScheduleInput
  <1>4. CASE Recon_timer_cb_connect \/ Recon_timer_cb_joined \/ start_network_steering
    BY <1>4, ScheduleSteering
  <1>5. CASE rejoin_the_network_alarm
    <2>1. /\ Due("rejoin_the_network") /\ rejoin' = rejoin_the_network(rejoin)
          /\ UNCHANGED <<signals, stack_initialised, bdb, bdbLeft, joined, restarts, indicating>>
      BY <1>5 DEF rejoin_the_network_alarm, Requests, stack
    <2>2. (Early' => Early) /\ (Raised("STEERING") => Raised("STEERING")')
      BY <2>1 DEF Early, Raised
    <2> QED  BY <2>1, <2>2, ScheduleAttempt
  <1>6. CASE stop_network_rejoin_alarm
    BY <1>6, ScheduleStop
  <1>7. CASE start_network_rejoin_ED_callback
    BY <1>7, ScheduleRestart
  <1>8. CASE zb_app_cb_process
    BY <1>8, ScheduleProcess
  <1>9. CASE Tick
    BY <1>9, ScheduleTick
  <1>10. CASE \/ main_zigbee_enable \/ command_control_reset_zigbee \/ Stack \/ Environment
              \/ UNCHANGED vars
    BY <1>10, ScheduleSignals
  <1> QED  BY <1>1, <1>2, <1>3, <1>4, <1>5, <1>6, <1>7, <1>8, <1>9, <1>10
           DEF Next, Zboss, DueCallback, com_task, Recon_timer_cb
--------------------------------------------------------------------------------
\* Asking for a restart.
\*
\* While com_task may still ask in this tick, or two signals wait, the reconnect
\* alarm is not due when a restart has been asked for.
Spare == ~com_sleeping \/ Len(signals) = 2

AskInv ==
    /\ indicating =>
          rejoin.wait_for_user_input /\ ~draining /\ ~Now("Recon_timer_cb")
    /\ Spare =>
          /\ Now("Recon_timer_cb") => ~Tried
          /\ indicating => NoTry(rejoin.requests) /\ ~(restarts > 0)

LEMMA AskKept ==
    ASSUME AskInv, Spare' => Spare, Now("Recon_timer_cb")' => Now("Recon_timer_cb"),
           Tried' => Tried, ~indicating'
    PROVE  AskInv'
  BY DEF AskInv

LEMMA AskSame ==
    ASSUME AskInv, UNCHANGED <<rejoin, alarms, restarts, indicating, draining>>,
           Spare' => Spare \/ ~Tried
    PROVE  AskInv'
  <1>1. (Now("Recon_timer_cb")' <=> Now("Recon_timer_cb")) /\ (Tried' <=> Tried)
    BY DEF Now, Tried, Restarting
  <1>2. ~Tried => ~indicating
    BY DEF Tried, Restarting
  <1> QED  BY <1>1, <1>2 DEF AskInv

\* No handler of a signal asks.
LEMMA HandlerTries ==
    ASSUME AlarmInv, StatusInv, WaitingInv, zboss_signal_handler
    PROVE  SameTries(rejoin.requests, rejoin'.requests)
  <1> DEFINE sig == Head(signals).sig
             ok == Head(signals).ok
  <1>1. /\ rejoin \in IRejoin /\ signals \in Seq(ASignal) /\ signals # <<>>
        /\ rejoin' = zigbee_default_signal_handler(
                            IF Restarts(sig) THEN zi_reboot(rejoin) ELSE rejoin, sig, ok)
    BY DEF zboss_signal_handler, AlarmInv, Sound, StatusInv
  <1>2. /\ Head(signals) = signals[1] /\ 1 \in 1..Len(signals)
        /\ sig \in Signal /\ ok \in BOOLEAN
    <2>1. Head(signals) = signals[1] /\ 1 \in 1..Len(signals) /\ Head(signals) \in ASignal
      BY <1>1
    <2> QED  BY <2>1 DEF ASignal
  <1>3. sig \in {"LEAVE", "FIRST_START"} => ok
    BY <1>2 DEF WaitingInv
  <1> HIDE DEF sig, ok
  <1>4. CASE sig \in {"REBOOT", "STEERING"} /\ ok
    <2>1. rejoin' = rejoin_the_network(stop_network_rejoin(zi_reboot(rejoin), FALSE))
      BY <1>1, <1>4 DEF Restarts, zigbee_default_signal_handler
    <2> QED  BY <1>1, <2>1, AnswerAdds
  <1>5. CASE (sig \in {"REBOOT", "STEERING"} /\ ~ok) \/ sig = "LEAVE"
    <2>1. rejoin' = rejoin_the_network(start_network_rejoin(zi_reboot(rejoin)))
      BY <1>1, <1>3, <1>5 DEF Restarts, zigbee_default_signal_handler
    <2> QED  BY <1>1, <2>1, FailureAdds
  <1>6. CASE sig = "FIRST_START"
    <2>1. rejoin' = rejoin_the_network(start_network_rejoin(rejoin))
      BY <1>1, <1>3, <1>6 DEF Restarts, zigbee_default_signal_handler
    <2> QED  BY <1>1, <2>1, SearchAdds
  <1>7. CASE sig \in {"SKIP_STARTUP", "OTHER"}
    <2>1. rejoin' = rejoin_the_network(rejoin)
      BY <1>1, <1>7 DEF Restarts, zigbee_default_signal_handler
    <2> QED  BY <1>1, <2>1, TryAdds
  <1> QED  BY <1>2, <1>4, <1>5, <1>6, <1>7 DEF Signal

\* The callbacks of the ZBOSS thread: none of them asks.
LEMMA AskZboss ==
    ASSUME AskInv, AlarmInv, StatusInv, WaitingInv, ScheduleInv,
           \/ zboss_signal_handler \/ Recon_timer_cb_joined \/ stop_network_rejoin_alarm
           \/ rejoin_the_network_alarm \/ start_network_rejoin_ED_callback
           \/ start_network_steering \/ zb_app_cb_process
    PROVE  AskInv'
  <1> DEFINE C == "Recon_timer_cb"
             q == rejoin.requests
  <1>0. /\ rejoin \in IRejoin /\ alarms \in [Callback -> SUBSET Int]
        /\ signals \in Seq(ASignal) /\ Len(signals) <= 2 /\ Len(signals) \in Nat
    BY DEF AlarmInv, Sound, StatusInv, WaitingInv
  <1>1. /\ UNCHANGED com_sleeping /\ ~indicating'
        /\ UNCHANGED signals \/ zboss_signal_handler
    <2>1. CASE zboss_signal_handler
      BY <2>1 DEF zboss_signal_handler, ZbossFree
    <2>2. CASE Recon_timer_cb_joined \/ start_network_steering
      BY <2>2 DEF Recon_timer_cb_joined, start_network_steering, Due, ZbossFree, stack, zboss
    <2>3. CASE stop_network_rejoin_alarm
      BY <2>3 DEF stop_network_rejoin_alarm, Due, ZbossFree, stack
    <2>6. CASE rejoin_the_network_alarm
      BY <2>6 DEF rejoin_the_network_alarm, Due, ZbossFree, stack
    <2>4. CASE start_network_rejoin_ED_callback
      BY <2>4 DEF start_network_rejoin_ED_callback, ZbossFree, stack
    <2>5. CASE zb_app_cb_process
      BY <2>5 DEF zb_app_cb_process, stack
    <2> QED  BY <2>1, <2>2, <2>3, <2>4, <2>5, <2>6
  <1>2. Spare' => Spare
    <2>1. CASE UNCHANGED signals
      BY <1>1, <2>1 DEF Spare
    <2>2. CASE zboss_signal_handler
      <3>1. signals # <<>> /\ signals' = Tail(signals)
        BY <2>2 DEF zboss_signal_handler
      <3> DEFINE n == Len(signals)
                 m == Len(signals')
      <3>2. m = n - 1 /\ n \in Nat /\ n <= 2
        BY <1>0, <3>1
      <3> HIDE DEF n, m
      <3>3. m # 2
        BY <3>2
      <3> QED  BY <1>1, <3>3 DEF Spare, m
    <2> QED  BY <1>1, <2>1, <2>2
  <1>3. CASE zboss_signal_handler
    <2>1. SameTries(q, rejoin'.requests)
      BY <1>3, HandlerTries
    <2>2. UNCHANGED <<alarms, restarts, indicating>>
      BY <1>3 DEF zboss_signal_handler
    <2>3. Tried' => Tried
      BY <2>1, <2>2 DEF Tried, Restarting, SameTries
    <2> QED  BY <1>1, <1>2, <2>2, <2>3, AskKept DEF Now
  <1>4. CASE Recon_timer_cb_joined \/ start_network_steering
    <2>1. /\ UNCHANGED <<rejoin, restarts>>
          /\ Due(C) \/ Due("start_network_steering")
      BY <1>4 DEF Recon_timer_cb_joined, start_network_steering, app
    <2>2. Now(C)' => Now(C)
      BY <1>0, <2>1, DueWill DEF Callback
    <2>3. Tried' => Tried
      BY <1>1, <2>1 DEF Tried, Restarting
    <2> QED  BY <1>1, <1>2, <2>2, <2>3, AskKept
  <1>5. CASE stop_network_rejoin_alarm
    <2>1. /\ rejoin' = stop_network_rejoin(rejoin, TRUE) /\ UNCHANGED restarts
          /\ Due("stop_network_rejoin")
      BY <1>5 DEF stop_network_rejoin_alarm, Requests
    <2>2. SameTries(q, rejoin'.requests)
      BY <1>0, <2>1, StopAdds
    <2>3. Now(C)' => Now(C)
      BY <1>0, <2>1, DueWill DEF Callback
    <2>4. Tried' => Tried
      BY <1>1, <2>1, <2>2 DEF Tried, Restarting, SameTries
    <2> QED  BY <1>1, <1>2, <2>3, <2>4, AskKept
  <1>6. CASE rejoin_the_network_alarm
    <2>1. /\ rejoin' = rejoin_the_network(rejoin) /\ UNCHANGED restarts
          /\ Due("rejoin_the_network")
      BY <1>6 DEF rejoin_the_network_alarm, Requests
    <2>2. SameTries(q, rejoin'.requests)
      BY <1>0, <2>1, TryAdds
    <2>3. Now(C)' => Now(C)
      BY <1>0, <2>1, DueWill DEF Callback
    <2>4. Tried' => Tried
      BY <1>1, <2>1, <2>2 DEF Tried, Restarting, SameTries
    <2> QED  BY <1>1, <1>2, <2>3, <2>4, AskKept
  <1>7. CASE start_network_rejoin_ED_callback
    <2>1. /\ rejoin' = start_network_rejoin_ED(rejoin) /\ UNCHANGED alarms
          /\ restarts > 0
      BY <1>7 DEF start_network_rejoin_ED_callback, Requests
    <2>2. Tried
      BY <2>1 DEF Tried, Restarting
    <2> QED  BY <1>1, <1>2, <2>1, <2>2, AskKept DEF Now
  <1>8. CASE zb_app_cb_process
    <2>1. /\ q # <<>> /\ q \in Seq(IRequest) /\ alarms' = AlarmsAfter(Head(q))
          /\ rejoin'.requests = Tail(q)
          /\ restarts' = (IF Head(q) = Call THEN restarts + 1 ELSE restarts)
      BY <1>0, <1>8 DEF zb_app_cb_process, IRejoin
    <2>2. Head(q) \in IRequest
      BY <2>1
    <2>3. Now(C)' => Now(C)
      BY <1>0, <2>1, <2>2, DelayAssumption DEF AlarmsAfter, IRequest, Known, Now, Callback, Call
    <2>4. NoTry(q) => NoTry(Tail(q)) /\ ~Tries(Head(q))
      BY <2>1, TailKeeps
    <2>5. Tried' => Tried
      BY <1>1, <2>1, <2>4 DEF Tried, Restarting, Tries
    <2> QED  BY <1>1, <1>2, <2>3, <2>5, AskKept
  <1> QED  BY <1>3, <1>4, <1>5, <1>6, <1>7, <1>8

LEMMA AskInvStep ==
    ASSUME AskInv, AlarmInv, StatusInv, WaitingInv, ScheduleInv, [Next]_vars
    PROVE  AskInv'
  <1> DEFINE C == "Recon_timer_cb"
  <1>0. /\ rejoin \in IRejoin /\ alarms \in [Callback -> SUBSET Int]
        /\ signals \in Seq(ASignal) /\ (Len(signals) = 2 => com_sleeping)
    BY DEF AlarmInv, Sound, StatusInv, WaitingInv
  <1>1. CASE \/ zboss_signal_handler \/ Recon_timer_cb_joined \/ stop_network_rejoin_alarm
             \/ rejoin_the_network_alarm \/ start_network_rejoin_ED_callback
             \/ start_network_steering \/ zb_app_cb_process
    BY <1>1, AskZboss
  <1>2. CASE Recon_timer_cb_erase \/ command_control_restart \/ command_control_hard_reset
    <2>1. alarms' = [f \in Callback |-> {}] /\ ~indicating'
      BY <1>2 DEF Recon_timer_cb_erase, command_control_restart, command_control_hard_reset, Restart
    <2>2. ~Now(C)'
      BY <2>1 DEF Now, Callback
    <2> QED  BY <2>1, <2>2 DEF AskInv
  <1>3. CASE Recon_timer_cb_connect
    <2>1. /\ Due(C) /\ UNCHANGED <<rejoin, signals, com_sleeping, restarts, draining>> /\ ~draining
          /\ indicating' => rejoin.wait_for_user_input
      BY <1>3 DEF Recon_timer_cb_connect, MayIndicate, Due, ZbossFree, stack, app
    <2>2. Now(C) /\ ~Now(C)'
      BY <1>0, <2>1, DueWill DEF Callback
    <2>3. Spare' => NoTry(rejoin.requests) /\ ~(restarts > 0)
      BY <2>1, <2>2 DEF Spare, AskInv, Tried, Restarting
    <2> QED  BY <2>1, <2>2, <2>3 DEF AskInv
  <1>4. CASE Recon_timer_cb_indicates
    <2>1. indicating /\ ~indicating' /\ UNCHANGED alarms
      BY <1>4 DEF Recon_timer_cb_indicates
    <2>2. ~Now(C)'
      BY <2>1 DEF AskInv, Now
    <2> QED  BY <2>1, <2>2 DEF AskInv
  <1>5. CASE command_control_connect
    <2>1. /\ ~com_sleeping /\ com_sleeping' /\ UNCHANGED <<signals, alarms, indicating, draining>>
      BY <1>5 DEF command_control_connect, Command, stack
    <2>2. ~Spare'
      BY <1>0, <2>1 DEF Spare
    <2>3. rejoin'.wait_for_user_input = rejoin.wait_for_user_input
      <3>1. rejoin' = rejoin \/ rejoin' = Indicated(rejoin)
        BY <1>5 DEF command_control_connect, Requests, user_input_indicate
      <3> QED  BY <1>0, <3>1, IndicateAdds
    <2> QED  BY <2>1, <2>2, <2>3 DEF AskInv, Now
  <1>6. CASE command_control_reset_zigbee
    <2>1. UNCHANGED <<rejoin, alarms, restarts, indicating, draining>> /\ ~com_sleeping
      BY <1>6 DEF command_control_reset_zigbee, Command, app, zboss
    <2> QED  BY <2>1, AskSame DEF Spare
  <1>7. CASE StackStarted
    <2>1. UNCHANGED <<rejoin, alarms, restarts, indicating, draining>> /\ bdb = "starting"
      BY <1>7 DEF StackStarted, app, zboss
    <2>2. ~Tried
      BY <2>1 DEF ScheduleInv, EarlyInv, Early
    <2> QED  BY <2>1, <2>2, AskSame
  <1>8. CASE SteeringEnded \/ NetworkLeave \/ OtherSignal \/ main_zigbee_enable
    <2>1. UNCHANGED <<rejoin, alarms, restarts, indicating, draining, com_sleeping>>
      BY <1>8 DEF SteeringEnded, NetworkLeave, OtherSignal, main_zigbee_enable, app, zboss
    <2>2. PICK s : signals' = <<s>>
      <3>1. CASE main_zigbee_enable
        BY <3>1 DEF main_zigbee_enable
      <3>2. ASSUME NEW s, signals = <<>>, signals' = Append(signals, s)
            PROVE  signals' = <<s>>
        BY <3>2
      <3> QED  BY <1>8, <3>1, <3>2 DEF SteeringEnded, NetworkLeave, OtherSignal, Radio, Raise
    <2>3. Len(signals') # 2
      BY <2>2
    <2> QED  BY <2>1, <2>3, AskSame DEF Spare
  <1>9. CASE (\E s \in UsbStatus : usb_cb(s)) \/ UNCHANGED vars
    <2>1. UNCHANGED <<rejoin, alarms, restarts, indicating, draining, com_sleeping, signals>>
      BY <1>9 DEF usb_cb, vars, stack, app, zboss
    <2> QED  BY <2>1, AskSame DEF Spare
  <1>10. CASE Tick
    <2>1. /\ rejoin.requests = <<>> /\ restarts = 0 /\ ~indicating
          /\ UNCHANGED <<rejoin, restarts, indicating>>
      BY <1>10 DEF Tick, app, zboss
    <2>2. NoTry(rejoin.requests)
      BY <2>1 DEF NoTry
    <2>3. ~Tried' /\ ~indicating'
      BY <2>1, <2>2 DEF Tried, Restarting
    <2> QED  BY <2>3 DEF AskInv
  <1> QED  BY <1>1, <1>2, <1>3, <1>4, <1>5, <1>6, <1>7, <1>8, <1>9, <1>10
           DEF Next, Zboss, DueCallback, com_task, Recon_timer_cb, Stack, Environment
--------------------------------------------------------------------------------
\* The room that is needed.

One(b) == IF b THEN 1 ELSE 0

\* How many requests the signals before zb_app_cb_process can still cause: n of
\* them, the first an answer that ends the search or not.
Searching(n, answered) ==
    IF n = 0 THEN 0 ELSE IF n = 1 THEN (IF answered THEN 4 ELSE 3) ELSE (IF answered THEN 8 ELSE 6)
Resting(n, answered) ==
    IF n = 0 THEN 0 ELSE IF n = 1 THEN (IF answered THEN 3 ELSE 4) ELSE 7
GivenUp(n, answered) ==
    IF n = 0 THEN 0 ELSE IF n = 1 THEN (IF answered THEN 3 ELSE 2) ELSE (IF answered THEN 7 ELSE 4)

Waiting == IF rejoin.requests = <<>> THEN Len(signals) ELSE ahead
Answered == signals # <<>> /\ Answers(signals[1])

FromSignals ==
    IF rejoin.started THEN Searching(Waiting, Answered)
    ELSE IF ~rejoin.wait_for_user_input THEN Resting(Waiting, Answered)
    ELSE IF restarts > 0 THEN 2 + Searching(Waiting, Answered)
    ELSE GivenUp(Waiting, Answered)

FromAlarms ==
    2 * One(Now("stop_network_rejoin")) + One(Now("rejoin_the_network"))
        + One(Now("Recon_timer_cb") /\ rejoin.wait_for_user_input) + One(indicating)

AtMost == Len(rejoin.requests) + FromSignals + FromAlarms + One(~com_sleeping)

RoomInv ==
    IF draining
    THEN ahead = 0 /\ rejoin.requests # <<>> /\ Len(rejoin.requests) + One(~com_sleeping) <= 10
    ELSE /\ ahead \in 0..Len(signals)
         /\ rejoin.requests = <<>> => ahead = 0
         /\ rejoin.requests # <<>> => AtMost <= 10

\* The work that is known when the queue is empty fits.
LEMMA EmptyFits ==
    ASSUME rejoin.requests = <<>>, PlanInv, AskInv, WaitingInv, signals \in Seq(ASignal)
    PROVE  AtMost <= 10
  <1> DEFINE n == Len(signals)
             S == "stop_network_rejoin"
             J == "rejoin_the_network"
             C == "Recon_timer_cb"
  <1>1. n \in 0..2 /\ (n = 2 => com_sleeping)
    <2>1. n \in Nat /\ n <= 2
      BY DEF WaitingInv
    <2>2. n = 2 => com_sleeping
      BY DEF WaitingInv
    <2> HIDE DEF n
    <2> QED  BY <2>1, <2>2
  <1>2. \A f \in Callback : Will(f) = alarms[f]
    BY EmptyPending DEF Will
  <1>3. ~(Now(S) /\ Now(J))
    BY <1>2 DEF PlanInv, Now, Callback
  <1>4. rejoin.wait_for_user_input =>
           ~rejoin.started /\ ~Now(S) /\ ~Now(J)
    BY <1>2 DEF PlanInv, Now, Callback
  <1>w. indicating => rejoin.wait_for_user_input
    BY DEF AskInv
  <1>t. n = 2 /\ restarts > 0 => ~Now(C) /\ ~indicating
    BY DEF AskInv, Spare, Tried, Restarting
  <1>5. Waiting = n /\ Len(rejoin.requests) = 0
    BY DEF Waiting
  <1> HIDE DEF n
  <1>6. CASE rejoin.started
    BY <1>1, <1>3, <1>4, <1>5, <1>6, <1>w DEF AtMost, FromSignals, FromAlarms, One, Searching
  <1>7. CASE ~rejoin.started /\ ~rejoin.wait_for_user_input
    BY <1>1, <1>3, <1>5, <1>7, <1>w DEF AtMost, FromSignals, FromAlarms, One, Resting
  <1>8. CASE rejoin.wait_for_user_input /\ restarts > 0
    BY <1>1, <1>4, <1>5, <1>8, <1>t DEF AtMost, FromSignals, FromAlarms, One, Searching
  <1>9. CASE rejoin.wait_for_user_input /\ ~(restarts > 0)
    BY <1>1, <1>4, <1>5, <1>9 DEF AtMost, FromSignals, FromAlarms, One, GivenUp
  <1> QED  BY <1>6, <1>7, <1>8, <1>9

LEMMA Fits ==
    ASSUME RoomInv, ~draining, AlarmInv, StatusInv, WaitingInv, ScheduleInv, AskInv
    PROVE  /\ AtMost <= 10 /\ Waiting \in 0..2 /\ Waiting <= Len(signals)
           /\ Len(rejoin.requests) \in Nat /\ Len(signals) \in 0..2
           /\ ahead \in 0..Len(signals)
           /\ rejoin.requests = <<>> => ahead = 0
  <1>1. rejoin.requests \in Seq(IRequest) /\ signals \in Seq(ASignal)
    BY DEF AlarmInv, Sound, IRejoin, StatusInv
  <1> DEFINE n == Len(signals)
  <1>2. n \in 0..2 /\ Len(rejoin.requests) \in Nat
    <2>1. n \in Nat /\ n <= 2 /\ Len(rejoin.requests) \in Nat
      BY <1>1 DEF WaitingInv
    <2> HIDE DEF n
    <2> QED  BY <2>1
  <1>3. ahead \in 0..n /\ (rejoin.requests = <<>> => ahead = 0)
    BY DEF RoomInv
  <1>4. Waiting \in 0..2 /\ Waiting <= n
    <2>1. Waiting = IF rejoin.requests = <<>> THEN n ELSE ahead
      BY DEF Waiting
    <2> HIDE DEF n
    <2> QED  BY <1>2, <1>3, <2>1
  <1>5. AtMost <= 10
    BY <1>1, EmptyFits DEF RoomInv, ScheduleInv
  <1> QED  BY <1>2, <1>3, <1>4, <1>5

\* A callback of the ZBOSS thread or of com_task that may add requests.
LEMMA RoomRequests ==
    ASSUME RoomInv, ~draining, ~draining', AlarmInv, StatusInv, WaitingInv, ScheduleInv, AskInv,
           NEW r \in IRejoin, Requests(r), UNCHANGED signals,
           r.requests = rejoin.requests \/ r.requests # <<>>,
           rejoin'.requests # <<>> /\ Waiting' = Waiting => AtMost' <= 10
    PROVE  RoomInv'
  <1>1. /\ AtMost <= 10 /\ Len(signals) \in 0..2 /\ ahead \in 0..Len(signals)
        /\ rejoin.requests = <<>> => ahead = 0
    BY Fits
  <1>2. rejoin' = r
    BY DEF Requests
  <1>3. CASE r.requests = <<>>
    <2>1. rejoin.requests = <<>>
      BY <1>3
    <2>2. ahead' = 0
      BY <1>2, <1>3, <2>1 DEF Requests
    <2>3. 0 \in 0..Len(signals')
      BY <1>1
    <2> QED  BY <1>2, <1>3, <2>2, <2>3 DEF RoomInv
  <1>4. CASE r.requests # <<>>
    <2>1. ahead' = Waiting
      BY <1>4 DEF Requests, Waiting
    <2>2. Waiting' = ahead'
      BY <1>2, <1>4 DEF Waiting
    <2>3. Waiting \in 0..Len(signals)
      BY <1>1 DEF Waiting
    <2>4. AtMost' <= 10
      BY <1>2, <1>4, <2>1, <2>2
    <2> QED  BY <1>2, <1>4, <2>1, <2>3, <2>4 DEF RoomInv
  <1> QED  BY <1>3, <1>4

\* Steps that add no request.
LEMMA RoomSame ==
    ASSUME RoomInv, AlarmInv, StatusInv, WaitingInv, ScheduleInv, AskInv,
           UNCHANGED <<rejoin, ahead, draining, restarts>>,
           com_sleeping => com_sleeping',
           FromAlarms' <= FromAlarms,
           Len(signals') \in Nat, Len(signals') >= Len(signals),
           signals # <<>> => signals' # <<>> /\ signals'[1] = signals[1]
    PROVE  RoomInv'
  <1>1. One(~com_sleeping') \in Nat /\ One(~com_sleeping') <= One(~com_sleeping)
        /\ One(~com_sleeping) \in Nat
    BY DEF One
  <1>2. CASE draining
    <2> DEFINE n == Len(rejoin.requests)
    <2>1. n \in Nat
      BY DEF AlarmInv, Sound, IRejoin
    <2>2. n + One(~com_sleeping) <= 10
      BY <1>2 DEF RoomInv
    <2> HIDE DEF n
    <2>3. n + One(~com_sleeping') <= 10
      BY <1>1, <2>1, <2>2
    <2> USE DEF n
    <2> QED  BY <1>2, <2>3 DEF RoomInv
  <1>3. CASE ~draining
    <2>1. /\ AtMost <= 10 /\ Waiting \in 0..2
          /\ Len(rejoin.requests) \in Nat /\ Len(signals) \in 0..2
          /\ ahead \in 0..Len(signals)
          /\ rejoin.requests = <<>> => ahead = 0
      BY <1>3, Fits
    <2>2. ahead' \in 0..Len(signals')
      <3> DEFINE m == Len(signals)
                 m1 == Len(signals')
      <3>1. m \in 0..2 /\ m1 \in Nat /\ m1 >= m /\ ahead \in 0..m
        BY <2>1
      <3> HIDE DEF m, m1
      <3>2. ahead \in 0..m1
        BY <3>1
      <3> QED  BY <3>2 DEF m1
    <2>3. rejoin.requests # <<>> => AtMost' <= 10
      <3> SUFFICES ASSUME rejoin.requests # <<>> PROVE AtMost' <= 10
        OBVIOUS
      <3>1. Waiting = ahead /\ Waiting' = ahead
        BY DEF Waiting
      <3>2. ahead = 0 \/ (Answered' <=> Answered)
        <4>1. ahead # 0 => signals # <<>>
          BY <2>1
        <4> QED  BY <4>1 DEF Answered
      <3>3. /\ Searching(ahead, Answered') = Searching(ahead, Answered)
            /\ Resting(ahead, Answered') = Resting(ahead, Answered)
            /\ GivenUp(ahead, Answered') = GivenUp(ahead, Answered)
        BY <3>2 DEF Searching, Resting, GivenUp
      <3>4. FromSignals' = FromSignals
        BY <3>1, <3>3 DEF FromSignals
      <3>5. FromSignals \in Nat
        BY <2>1 DEF FromSignals, Searching, Resting, GivenUp
      <3>6. FromAlarms' \in Nat /\ FromAlarms \in Nat /\ FromAlarms' <= FromAlarms
        BY DEF FromAlarms, One
      <3> DEFINE n == Len(rejoin.requests)
      <3>7. /\ AtMost = n + FromSignals + FromAlarms + One(~com_sleeping)
            /\ AtMost' = n + FromSignals + FromAlarms' + One(~com_sleeping')
            /\ n \in Nat
        BY <2>1, <3>4 DEF AtMost
      <3> HIDE DEF n
      <3> QED  BY <1>1, <2>1, <3>5, <3>6, <3>7
    <2> QED  BY <1>3, <2>1, <2>2, <2>3 DEF RoomInv
  <1> QED  BY <1>2, <1>3

LEMMA RoomSignals ==
    ASSUME RoomInv, AlarmInv, StatusInv, WaitingInv, ScheduleInv, AskInv,
           \/ main_zigbee_enable \/ command_control_reset_zigbee \/ Stack \/ Environment
           \/ Recon_timer_cb_connect \/ Recon_timer_cb_joined \/ start_network_steering \/ UNCHANGED vars
    PROVE  RoomInv'
  <1>0. alarms \in [Callback -> SUBSET Int] /\ signals \in Seq(ASignal)
    BY DEF AlarmInv, StatusInv
  <1>1. /\ UNCHANGED <<rejoin, ahead, draining, restarts>>
        /\ com_sleeping' = TRUE \/ UNCHANGED com_sleeping
        /\ \/ UNCHANGED <<alarms, indicating>>
           \/ Due("start_network_steering") /\ UNCHANGED indicating
           \/ Due("Recon_timer_cb") /\ (indicating' => rejoin.wait_for_user_input)
    <2>1. CASE main_zigbee_enable
      BY <2>1 DEF main_zigbee_enable, app, zboss
    <2>2. CASE command_control_reset_zigbee
      BY <2>2 DEF command_control_reset_zigbee, Command, app, zboss
    <2>3. CASE StackStarted
      BY <2>3 DEF StackStarted, app, zboss
    <2>4. CASE SteeringEnded
      BY <2>4 DEF SteeringEnded, app, zboss
    <2>5. CASE NetworkLeave
      BY <2>5 DEF NetworkLeave, app, zboss
    <2>6. CASE OtherSignal
      BY <2>6 DEF OtherSignal, app, zboss
    <2>7. CASE (\E u \in UsbStatus : usb_cb(u)) \/ UNCHANGED vars
      BY <2>7 DEF usb_cb, vars, app, zboss
    <2>8. CASE Recon_timer_cb_connect
      BY <2>8 DEF Recon_timer_cb_connect, MayIndicate, app
    <2>9. CASE Recon_timer_cb_joined
      <3>1. /\ UNCHANGED <<rejoin, ahead, draining, restarts, com_sleeping, indicating>>
            /\ Due("Recon_timer_cb")
        BY <2>9 DEF Recon_timer_cb_joined, app, zboss
      <3> QED  BY <3>1 DEF Due, ZbossFree
    <2>10. CASE start_network_steering
      BY <2>10 DEF start_network_steering, app, zboss
    <2> QED  BY <2>1, <2>2, <2>3, <2>4, <2>5, <2>6, <2>7, <2>8, <2>9, <2>10
             DEF Stack, Environment
  <1>2. FromAlarms' <= FromAlarms
    <2>1. CASE UNCHANGED <<alarms, indicating>>
      BY <1>1, <2>1 DEF FromAlarms, Now, One
    <2>2. CASE Due("start_network_steering") /\ UNCHANGED indicating
      <3>1. \A g \in Callback : Now(g)' => Now(g)
        BY <1>0, <2>2, DueWill DEF Callback
      <3>2. /\ Now("stop_network_rejoin")' => Now("stop_network_rejoin")
            /\ Now("rejoin_the_network")' => Now("rejoin_the_network")
            /\ Now("Recon_timer_cb")' => Now("Recon_timer_cb")
        BY <3>1 DEF Callback
      <3> QED  BY <1>1, <2>2, <3>2 DEF FromAlarms, One
    <2>3. CASE Due("Recon_timer_cb") /\ (indicating' => rejoin.wait_for_user_input)
      <3>1. \A g \in Callback : Now(g)' => Now(g)
        BY <1>0, <2>3, DueWill DEF Callback
      <3>2. Now("Recon_timer_cb") /\ ~Now("Recon_timer_cb")' /\ ~indicating
        BY <1>0, <2>3, DueWill DEF Callback, Due, ZbossFree
      <3>3. /\ Now("stop_network_rejoin")' => Now("stop_network_rejoin")
            /\ Now("rejoin_the_network")' => Now("rejoin_the_network")
        BY <3>1 DEF Callback
      <3> QED  BY <1>1, <2>3, <3>2, <3>3 DEF FromAlarms, One
    <2> QED  BY <1>1, <2>1, <2>2, <2>3
  <1>3. signals \in Seq(ASignal)
    BY DEF StatusInv
  <1>4. /\ Len(signals') \in Nat /\ Len(signals') >= Len(signals)
        /\ signals # <<>> => signals' # <<>> /\ signals'[1] = signals[1]
    <2>1. CASE UNCHANGED signals
      BY <1>3, <2>1
    <2>2. ASSUME NEW s, signals' = Append(signals, s)
          PROVE  /\ Len(signals') \in Nat /\ Len(signals') >= Len(signals)
                 /\ signals # <<>> => signals' # <<>> /\ signals'[1] = signals[1]
      BY <1>3, <2>2
    <2>3. CASE main_zigbee_enable
      <3>1. signals = <<>>
        BY <2>3 DEF main_zigbee_enable, StatusInv, Cold
      <3> DEFINE s == [sig |-> "SKIP_STARTUP", ok |-> TRUE]
      <3>2. signals' = <<s>>
        BY <2>3 DEF main_zigbee_enable
      <3> HIDE DEF s
      <3>3. Len(signals') = 1 /\ Len(signals) = 0
        BY <3>1, <3>2
      <3> QED  BY <3>1, <3>3
    <2> QED  BY <2>1, <2>2, <2>3
             DEF command_control_reset_zigbee, Stack, StackStarted, SteeringEnded, Raise,
                 Environment, NetworkLeave, OtherSignal, usb_cb, Recon_timer_cb_connect,
                 Recon_timer_cb_joined, start_network_steering, vars, stack
  <1> QED  BY <1>1, <1>2, <1>4, RoomSame

\* The reconnect alarm, or CODE_CONNECT_BUTTON, asks for a restart of the search.
LEMMA RoomInput ==
    ASSUME RoomInv, AlarmInv, StatusInv, WaitingInv, ScheduleInv, AskInv,
           Recon_timer_cb_indicates \/ command_control_connect
    PROVE  RoomInv'
  <1> DEFINE r == rejoin'
             n == Len(rejoin.requests)
             m == Len(r.requests)
  <1>1. /\ rejoin \in IRejoin /\ Requests(r)
        /\ UNCHANGED <<alarms, signals, draining, restarts>>
        /\ r = rejoin \/ r = Indicated(rejoin)
    BY DEF AlarmInv, Sound, Recon_timer_cb_indicates, command_control_connect, Requests,
           user_input_indicate, stack
  <1>2. \/ /\ indicating /\ ~indicating' /\ UNCHANGED com_sleeping
        \/ /\ ~com_sleeping /\ com_sleeping' = TRUE /\ UNCHANGED indicating
    BY DEF Recon_timer_cb_indicates, command_control_connect, Command
  <1>3. r \in IRejoin /\ m <= n + 1 /\ m \in Nat /\ n \in Nat
    <2>1. n \in Nat
      BY <1>1 DEF IRejoin
    <2>2. CASE r = rejoin
      <3>1. m = n
        BY <2>2
      <3> HIDE DEF m, n
      <3> QED  BY <1>1, <2>1, <2>2, <3>1
    <2>3. CASE r = Indicated(rejoin)
      <3>1. r \in IRejoin /\ m = n + 1
        BY <1>1, <2>3, IndicateAdds
      <3> HIDE DEF m, n
      <3> QED  BY <2>1, <3>1
    <2> QED  BY <1>1, <2>2, <2>3
  <1>4. /\ r.started = rejoin.started /\ r.wait_for_user_input = rejoin.wait_for_user_input
        /\ r.requests = rejoin.requests \/ r.requests # <<>>
    BY <1>1, IndicateAdds
  <1>5. One(indicating') + One(~com_sleeping') + 1 = One(indicating) + One(~com_sleeping)
    BY <1>2 DEF One
  <1>6. CASE ~draining
    <2>1. AtMost <= 10 /\ Waiting \in 0..2
      BY <1>6, Fits
    <2>2. ASSUME Waiting' = Waiting PROVE AtMost' <= 10
      <3>1. FromSignals' = FromSignals
        BY <1>1, <1>4, <2>2 DEF FromSignals, Answered
      <3>2. FromSignals \in Nat
        BY <2>1 DEF FromSignals, Searching, Resting, GivenUp
      <3> DEFINE fa == 2 * One(Now("stop_network_rejoin")) + One(Now("rejoin_the_network"))
                          + One(Now("Recon_timer_cb") /\ rejoin.wait_for_user_input)
                 fi == One(indicating)
                 fi1 == One(indicating')
      <3>3. FromAlarms = fa + fi /\ FromAlarms' = fa + fi1 /\ fa \in Nat
            /\ fi \in Nat /\ fi1 \in Nat
        BY <1>1, <1>4 DEF FromAlarms, One, Now
      <3>4. /\ AtMost' = m + FromSignals' + FromAlarms' + One(~com_sleeping')
            /\ AtMost = n + FromSignals + FromAlarms + One(~com_sleeping)
            /\ One(~com_sleeping') \in Nat /\ One(~com_sleeping) \in Nat
        BY DEF AtMost, One
      <3> DEFINE fs == FromSignals
                 cs == One(~com_sleeping)
                 cs1 == One(~com_sleeping')
                 a == AtMost
                 a1 == AtMost'
      <3>5. /\ m \in Nat /\ n \in Nat /\ a <= 10 /\ m <= n + 1
            /\ fs \in Nat /\ fa \in Nat /\ fi \in Nat /\ fi1 \in Nat /\ cs \in Nat /\ cs1 \in Nat
            /\ fi1 + cs1 + 1 = fi + cs
            /\ a1 = m + fs + (fa + fi1) + cs1
            /\ a = n + fs + (fa + fi) + cs
        BY <1>3, <1>5, <2>1, <3>1, <3>2, <3>3, <3>4
      <3> HIDE DEF m, n, fs, fa, fi, fi1, cs, cs1, a, a1
      <3>6. a1 <= 10
        BY <3>5
      <3> QED  BY <3>6 DEF a1
    <2> QED  BY <1>1, <1>3, <1>4, <1>6, <2>2, RoomRequests
  <1>7. CASE draining
    <2>1. ahead = 0 /\ rejoin.requests # <<>> /\ n + One(~com_sleeping) <= 10
      BY <1>7 DEF RoomInv
    <2>2. r.requests # <<>> /\ ahead' = 0
      BY <1>1, <1>4, <2>1 DEF Requests
    <2>3. One(~com_sleeping) = 1 /\ One(~com_sleeping') = 0
      BY <1>2, <1>7 DEF AskInv, One
    <2>4. m + One(~com_sleeping') <= 10
      <3> HIDE DEF m, n
      <3> QED  BY <1>3, <2>1, <2>3
    <2> QED  BY <1>1, <1>7, <2>2, <2>4 DEF RoomInv
  <1> QED  BY <1>6, <1>7

\* The attempt that a restart asks for.
LEMMA RoomAttempt ==
    ASSUME RoomInv, AlarmInv, StatusInv, WaitingInv, ScheduleInv, AskInv, rejoin_the_network_alarm
    PROVE  RoomInv'
  <1> DEFINE r == rejoin_the_network(rejoin)
             n == Len(rejoin.requests)
             m == Len(r.requests)
  <1>1. /\ rejoin \in IRejoin /\ Requests(r)
        /\ UNCHANGED <<signals, draining, com_sleeping, restarts, indicating>>
        /\ alarms \in [Callback -> SUBSET Int]
        /\ ~draining /\ Due("rejoin_the_network")
    BY DEF AlarmInv, Sound, rejoin_the_network_alarm, stack, Due, ZbossFree
  <1>2. rejoin' = r
    BY <1>1 DEF Requests
  <1>3. r \in IRejoin /\ m <= n + 1 /\ m \in Nat /\ n \in Nat
    <2>1. r \in IRejoin
      BY <1>1, TryAdds
    <2>2. m <= n + (IF rejoin.started THEN 1 ELSE 0)
      BY <1>1, TryAdds
    <2>3. m \in Nat /\ n \in Nat
      BY <1>1, <2>1 DEF IRejoin
    <2> HIDE DEF m, n
    <2> QED  BY <2>1, <2>2, <2>3
  <1>4. /\ r.started = rejoin.started /\ r.wait_for_user_input = rejoin.wait_for_user_input
    BY <1>1, TryAdds
  <1>5. r.requests = rejoin.requests \/ r.requests # <<>>
    <2>1. r = rejoin \/ r.requests # <<>>
      BY <1>1, TryAdds
    <2> QED  BY <2>1
  <1> HIDE DEF r
  <1>6. /\ rejoin'.started = rejoin.started
        /\ rejoin'.wait_for_user_input = rejoin.wait_for_user_input
    BY <1>2, <1>4
  <1>7. AtMost <= 10 /\ Waiting \in 0..2
    BY <1>1, Fits
  <1>8. \A g \in Callback \ {"rejoin_the_network"} : Now(g)' <=> Now(g)
    BY <1>1 DEF Due, Now
  <1>9. /\ Now("rejoin_the_network") /\ ~Now("rejoin_the_network")'
        /\ Now("stop_network_rejoin")' <=> Now("stop_network_rejoin")
        /\ Now("Recon_timer_cb")' <=> Now("Recon_timer_cb")
    BY <1>1, <1>8 DEF Due, Now, Callback
  <1>10. ASSUME Waiting' = Waiting PROVE AtMost' <= 10
    <2>1. FromSignals' = FromSignals
      BY <1>1, <1>6, <1>9, <1>10 DEF FromSignals, Answered
    <2>2. FromSignals \in Nat
      BY <1>7 DEF FromSignals, Searching, Resting, GivenUp
    <2>3. FromAlarms' \in Nat /\ FromAlarms \in Nat /\ FromAlarms' + 1 = FromAlarms
      BY <1>1, <1>6, <1>9 DEF FromAlarms, One
    <2>4. /\ One(~com_sleeping') \in Nat /\ One(~com_sleeping) \in Nat
          /\ One(~com_sleeping') <= One(~com_sleeping)
      BY <1>1 DEF One
    <2>5. /\ AtMost' = m + FromSignals' + FromAlarms' + One(~com_sleeping')
          /\ AtMost = n + FromSignals + FromAlarms + One(~com_sleeping)
      BY <1>2 DEF AtMost
    <2> DEFINE fs == FromSignals
               fs1 == FromSignals'
               fa == FromAlarms
               fa1 == FromAlarms'
               cs == One(~com_sleeping)
               cs1 == One(~com_sleeping')
               a == AtMost
               a1 == AtMost'
    <2>6. /\ m <= n + 1 /\ m \in Nat /\ n \in Nat
          /\ a <= 10 /\ fs \in Nat /\ fs1 = fs
          /\ fa \in Nat /\ fa1 \in Nat /\ fa1 + 1 = fa
          /\ cs \in Nat /\ cs1 \in Nat /\ cs1 <= cs
          /\ a1 = m + fs1 + fa1 + cs1
          /\ a = n + fs + fa + cs
      BY <1>3, <1>7, <2>1, <2>2, <2>3, <2>4, <2>5
    <2> HIDE DEF m, n, fs, fs1, fa, fa1, cs, cs1, a, a1
    <2>7. a1 <= 10
      BY <2>6
    <2> QED  BY <2>7 DEF a1
  <1> QED  BY <1>1, <1>3, <1>5, <1>10, RoomRequests

\* The search is given up.
LEMMA RoomStop ==
    ASSUME RoomInv, AlarmInv, StatusInv, WaitingInv, ScheduleInv, AskInv, stop_network_rejoin_alarm
    PROVE  RoomInv'
  <1> DEFINE r == stop_network_rejoin(rejoin, TRUE)
             n == Len(rejoin.requests)
             m == Len(r.requests)
             S == "stop_network_rejoin"
  <1>1. /\ rejoin \in IRejoin /\ Requests(r)
        /\ UNCHANGED <<signals, draining, com_sleeping, restarts, indicating>>
        /\ alarms \in [Callback -> SUBSET Int]
        /\ ~draining /\ Due(S)
    BY DEF AlarmInv, Sound, stop_network_rejoin_alarm, stack, Due, ZbossFree
  <1>2. rejoin' = r
    BY <1>1 DEF Requests
  <1>3. r \in IRejoin /\ m = n + (IF rejoin.started THEN 2 ELSE 1) /\ m \in Nat /\ n \in Nat
    <2>1. r \in IRejoin
      BY <1>1, StopAdds
    <2>2. m = n + (IF rejoin.started THEN 2 ELSE 1)
      BY <1>1, StopAdds
    <2>3. m \in Nat /\ n \in Nat
      <3> HIDE DEF r
      <3> QED  BY <1>1, <2>1 DEF IRejoin
    <2> QED  BY <2>1, <2>2, <2>3
  <1>4. ~r.started /\ r.wait_for_user_input = TRUE
    BY <1>1, StopAdds
  <1>5. r.requests # <<>>
    BY <1>1, StopAdds
  <1> HIDE DEF r
  <1>7. AtMost <= 10 /\ Waiting \in 0..2
    BY <1>1, Fits
  <1>a. \A g \in Callback \ {S} : Now(g)' <=> Now(g)
    BY <1>1 DEF Due, Now
  <1>8. Now(S) /\ ~Now(S)'
    BY <1>1 DEF Due, Now, Callback
  <1>9. /\ ~rejoin.wait_for_user_input /\ ~Now("Recon_timer_cb")
        /\ ~(restarts > 0) /\ ~indicating
    <2>1. ~rejoin.wait_for_user_input /\ ~Now("Recon_timer_cb") /\ ~Tried
      BY <1>8 DEF ScheduleInv, PlanInv
    <2> QED  BY <2>1 DEF Tried, Restarting
  <1>10. /\ ~Now("Recon_timer_cb")' /\ ~(restarts' > 0) /\ ~indicating'
         /\ Now("rejoin_the_network")' <=> Now("rejoin_the_network")
    BY <1>1, <1>a, <1>9 DEF Callback
  <1>11. ASSUME Waiting' = Waiting PROVE AtMost' <= 10
    <2> DEFINE k == Waiting
               u == Answered
    <2>1. FromSignals = IF rejoin.started THEN Searching(k, u) ELSE Resting(k, u)
      BY <1>9 DEF FromSignals
    <2>2. FromSignals' = GivenUp(k, u)
      <3>1. Answered' <=> u
        BY <1>1 DEF Answered
      <3>2. FromSignals' = GivenUp(k, Answered')
        BY <1>2, <1>4, <1>10, <1>11 DEF FromSignals
      <3> QED  BY <3>1, <3>2 DEF GivenUp
    <2>3. k \in 0..2
      BY <1>7
    <2> HIDE DEF k, u
    <2>4. /\ FromSignals \in Nat /\ FromSignals' \in Nat
          /\ FromSignals' + (IF rejoin.started THEN 2 ELSE 1) <= FromSignals + 2
      BY <2>1, <2>2, <2>3 DEF Searching, Resting, GivenUp
    <2>5. FromAlarms' \in Nat /\ FromAlarms \in Nat /\ FromAlarms' + 2 = FromAlarms
      BY <1>8, <1>9, <1>10 DEF FromAlarms, One
    <2>6. /\ One(~com_sleeping') \in Nat /\ One(~com_sleeping) \in Nat
          /\ One(~com_sleeping') <= One(~com_sleeping)
      BY <1>1 DEF One
    <2>7. /\ AtMost' = m + FromSignals' + FromAlarms' + One(~com_sleeping')
          /\ AtMost = n + FromSignals + FromAlarms + One(~com_sleeping)
      BY <1>2 DEF AtMost
    <2> DEFINE fs == FromSignals
               fs1 == FromSignals'
               fa == FromAlarms
               fa1 == FromAlarms'
               cs == One(~com_sleeping)
               cs1 == One(~com_sleeping')
               a == AtMost
               a1 == AtMost'
    <2>8. /\ m \in Nat /\ n \in Nat /\ a <= 10
          /\ m = n + (IF rejoin.started THEN 2 ELSE 1)
          /\ fs \in Nat /\ fs1 \in Nat /\ fs1 + (IF rejoin.started THEN 2 ELSE 1) <= fs + 2
          /\ fa \in Nat /\ fa1 \in Nat /\ fa1 + 2 = fa
          /\ cs \in Nat /\ cs1 \in Nat /\ cs1 <= cs
          /\ a1 = m + fs1 + fa1 + cs1
          /\ a = n + fs + fa + cs
      BY <1>3, <1>7, <2>4, <2>5, <2>6, <2>7
    <2> HIDE DEF m, n, fs, fs1, fa, fa1, cs, cs1, a, a1
    <2>9. a1 <= 10
      BY <2>8
    <2> QED  BY <2>9 DEF a1
  <1> QED  BY <1>1, <1>3, <1>5, <1>11, RoomRequests

\* A search that was given up is restarted.
LEMMA RoomRestart ==
    ASSUME RoomInv, AlarmInv, StatusInv, WaitingInv, ScheduleInv, AskInv, start_network_rejoin_ED_callback
    PROVE  RoomInv'
  <1> DEFINE r == start_network_rejoin_ED(rejoin)
             n == Len(rejoin.requests)
             m == Len(r.requests)
  <1>1. /\ rejoin \in IRejoin /\ Requests(r)
        /\ UNCHANGED <<alarms, signals, draining, com_sleeping, indicating>>
        /\ ~draining /\ restarts > 0
    BY DEF AlarmInv, Sound, start_network_rejoin_ED_callback, stack, ZbossFree
  <1>2. rejoin' = r
    BY <1>1 DEF Requests
  <1>a. stack_initialised
    BY <1>1 DEF StatusInv, Cold
  <1>b. rejoin.wait_for_user_input => ~rejoin.started
    BY DEF ScheduleInv, PlanInv
  <1>3. r \in IRejoin /\ m = n + (IF Restarted(rejoin) THEN 2 ELSE 0) /\ m \in Nat /\ n \in Nat
    <2>1. r \in IRejoin
      BY <1>1, <1>a, <1>b, RestartAdds
    <2>2. m = n + (IF Restarted(rejoin) THEN 2 ELSE 0)
      BY <1>1, <1>a, <1>b, RestartAdds
    <2>3. m \in Nat /\ n \in Nat
      BY <1>1, <2>1 DEF IRejoin
    <2> QED  BY <2>1, <2>2, <2>3
  <1>4. /\ r.wait_for_user_input = (rejoin.wait_for_user_input /\ ~Restarted(rejoin))
        /\ r.started = (rejoin.started \/ Restarted(rejoin))
    BY <1>1, <1>a, <1>b, RestartAdds
  <1>5. r.requests = rejoin.requests \/ r.requests # <<>>
    BY <1>1, <1>a, <1>b, RestartAdds
  <1> HIDE DEF r
  <1>7. AtMost <= 10 /\ Waiting \in 0..2
    BY <1>1, Fits
  <1>9. /\ Now("stop_network_rejoin")' <=> Now("stop_network_rejoin")
        /\ Now("Recon_timer_cb")' <=> Now("Recon_timer_cb")
        /\ Now("rejoin_the_network")' <=> Now("rejoin_the_network")
    BY <1>1 DEF Now
  <1>12. ASSUME Waiting' = Waiting PROVE AtMost' <= 10
    <2> DEFINE k == Waiting
               u == Answered
    <2>1. FromSignals = IF rejoin.started THEN Searching(k, u)
                        ELSE IF ~rejoin.wait_for_user_input THEN Resting(k, u)
                        ELSE 2 + Searching(k, u)
      BY <1>1 DEF FromSignals
    <2>2. FromSignals' = IF rejoin'.started THEN Searching(k, u)
                         ELSE IF ~rejoin'.wait_for_user_input THEN Resting(k, u)
                         ELSE IF restarts' > 0 THEN 2 + Searching(k, u) ELSE GivenUp(k, u)
      <3>1. Answered' <=> u
        BY <1>1 DEF Answered
      <3>2. FromSignals' =
               IF rejoin'.started THEN Searching(k, Answered')
               ELSE IF ~rejoin'.wait_for_user_input THEN Resting(k, Answered')
               ELSE IF restarts' > 0 THEN 2 + Searching(k, Answered') ELSE GivenUp(k, Answered')
        BY <1>12 DEF FromSignals
      <3> QED  BY <3>1, <3>2 DEF GivenUp, Searching, Resting
    <2>3. k \in 0..2
      BY <1>7
    <2> HIDE DEF k, u
    <2>4. /\ FromSignals \in Nat /\ FromSignals' \in Nat
          /\ FromSignals' + (IF Restarted(rejoin) THEN 2 ELSE 0) <= FromSignals
      <3>1. CASE Restarted(rejoin)
        <4>1. rejoin'.started /\ ~rejoin.started /\ rejoin.wait_for_user_input
          BY <1>2, <1>4, <1>b, <3>1 DEF Restarted
        <4>2. FromSignals' = Searching(k, u) /\ FromSignals = 2 + Searching(k, u)
          BY <2>1, <2>2, <4>1
        <4>3. Searching(k, u) \in Nat
          BY <2>3 DEF Searching
        <4> QED  BY <3>1, <4>2, <4>3
      <3>2. CASE ~Restarted(rejoin) /\ rejoin.wait_for_user_input
        <4>1. ~rejoin'.started /\ ~rejoin.started /\ rejoin'.wait_for_user_input
          BY <1>2, <1>4, <1>b, <3>2
        <4>2. /\ FromSignals' \in {GivenUp(k, u), 2 + Searching(k, u)}
              /\ FromSignals = 2 + Searching(k, u)
          BY <2>1, <2>2, <3>2, <4>1
        <4>3. /\ GivenUp(k, u) \in Nat /\ Searching(k, u) \in Nat
              /\ GivenUp(k, u) <= 2 + Searching(k, u)
          BY <2>3 DEF GivenUp, Searching
        <4> QED  BY <3>2, <4>2, <4>3
      <3>3. CASE ~Restarted(rejoin) /\ ~rejoin.wait_for_user_input
        <4>1. (rejoin'.started <=> rejoin.started) /\ ~rejoin'.wait_for_user_input
          BY <1>2, <1>4, <3>3
        <4>2. FromSignals' = FromSignals
          BY <2>1, <2>2, <3>3, <4>1
        <4>3. FromSignals \in Nat
          BY <2>1, <2>3, <3>3 DEF Searching, Resting
        <4> QED  BY <3>3, <4>2, <4>3
      <3> QED  BY <3>1, <3>2, <3>3
    <2>5. FromAlarms' \in Nat /\ FromAlarms \in Nat /\ FromAlarms' <= FromAlarms
      <3>1. rejoin'.wait_for_user_input => rejoin.wait_for_user_input
        BY <1>2, <1>4
      <3> QED  BY <1>1, <1>9, <3>1 DEF FromAlarms, One
    <2>6. /\ One(~com_sleeping') \in Nat /\ One(~com_sleeping) \in Nat
          /\ One(~com_sleeping') <= One(~com_sleeping)
      BY <1>1 DEF One
    <2>7. /\ AtMost' = m + FromSignals' + FromAlarms' + One(~com_sleeping')
          /\ AtMost = n + FromSignals + FromAlarms + One(~com_sleeping)
      BY <1>2 DEF AtMost
    <2> DEFINE fs == FromSignals
               fs1 == FromSignals'
               fa == FromAlarms
               fa1 == FromAlarms'
               cs == One(~com_sleeping)
               cs1 == One(~com_sleeping')
               a == AtMost
               a1 == AtMost'
    <2>8. /\ m \in Nat /\ n \in Nat /\ a <= 10
          /\ m = n + (IF Restarted(rejoin) THEN 2 ELSE 0)
          /\ fs \in Nat /\ fs1 \in Nat /\ fa \in Nat /\ fa1 \in Nat
          /\ fs1 + (IF Restarted(rejoin) THEN 2 ELSE 0) <= fs
          /\ fa1 <= fa
          /\ cs \in Nat /\ cs1 \in Nat /\ cs1 <= cs
          /\ a1 = m + fs1 + fa1 + cs1
          /\ a = n + fs + fa + cs
      BY <1>3, <1>7, <2>4, <2>5, <2>6, <2>7
    <2> HIDE DEF m, n, fs, fs1, fa, fa1, cs, cs1, a, a1
    <2>9. a1 <= 10
      BY <2>8
    <2> QED  BY <2>9 DEF a1
  <1> QED  BY <1>1, <1>3, <1>5, <1>12, RoomRequests

\* zb_app_cb_process empties the queue; no other callback comes between.
LEMMA RoomProcess ==
    ASSUME RoomInv, AlarmInv, StatusInv, WaitingInv, ScheduleInv, AskInv, zb_app_cb_process
    PROVE  RoomInv'
  <1> DEFINE q == rejoin.requests
             p == Tail(q)
             n == Len(q)
             cs == One(~com_sleeping)
  <1>1. /\ q # <<>> /\ q \in Seq(IRequest) /\ rejoin \in IRejoin /\ ahead = 0
        /\ rejoin' = [rejoin EXCEPT !.requests = p] /\ draining' = (p # <<>>)
        /\ UNCHANGED <<signals, ahead, com_sleeping>>
    BY DEF zb_app_cb_process, AlarmInv, Sound, IRejoin, stack
  <1>2. n \in Nat /\ Len(p) = n - 1 /\ Len(signals) \in Nat
    BY <1>1 DEF StatusInv
  <1>3. rejoin'.requests = p
    BY <1>1 DEF IRejoin
  <1>4. cs \in Nat /\ One(~com_sleeping') = cs
    BY <1>1 DEF One
  <1>5. n + cs <= 10
    <2>1. CASE draining
      BY <2>1 DEF RoomInv
    <2>2. CASE ~draining
      <3> DEFINE fs == FromSignals
                 fa == FromAlarms
                 a == AtMost
      <3>1. a <= 10 /\ Waiting \in 0..2
        BY <2>2, Fits
      <3>2. fs \in Nat /\ fa \in Nat
        BY <3>1 DEF FromSignals, Searching, Resting, GivenUp, FromAlarms, One
      <3>3. a = n + fs + fa + cs
        BY DEF AtMost
      <3> HIDE DEF n, fs, fa, cs, a
      <3> QED  BY <1>2, <1>4, <3>1, <3>2, <3>3
    <2> QED  BY <2>1, <2>2
  <1>6. Len(p) + One(~com_sleeping') <= 10
    <2> DEFINE m == Len(p)
               cs1 == One(~com_sleeping')
    <2>1. m = n - 1 /\ cs1 = cs
      BY <1>2, <1>4
    <2> HIDE DEF m, n, cs, cs1
    <2>2. m + cs1 <= 10
      BY <1>2, <1>4, <1>5, <2>1
    <2> QED  BY <2>2 DEF m, cs1
  <1>7. 0 \in 0..Len(signals)
    BY <1>2
  <1> HIDE DEF p
  <1> QED  BY <1>1, <1>3, <1>6, <1>7 DEF RoomInv

\* A signal is handled: one less waits, and what is left answers nothing.
LEMMA RoomHandled ==
    ASSUME RoomInv, AlarmInv, StatusInv, WaitingInv, ScheduleInv, AskInv, zboss_signal_handler,
           rejoin.requests # <<>> => rejoin'.requests # <<>>,
           rejoin'.requests # <<>> /\ Waiting \in 1..2 /\ Waiting' = Waiting - 1 /\ ~Answered'
              => AtMost' <= 10
    PROVE  RoomInv'
  <1> DEFINE k == Len(signals)
             k1 == Len(signals')
  <1>1. /\ ~draining /\ ~draining' /\ signals # <<>> /\ signals' = Tail(signals)
        /\ signals \in Seq(ASignal)
        /\ rejoin.requests # <<>> => ahead > 0
        /\ ahead' = IF rejoin.requests # <<>> THEN ahead - 1
                    ELSE IF rejoin'.requests # <<>> THEN k - 1 ELSE 0
    BY DEF zboss_signal_handler, ZbossFree, StatusInv
  <1>2. /\ k \in 1..2 /\ k1 = k - 1 /\ \A i \in 1..k1 : signals'[i] = signals[i + 1]
    <2>1. k \in Nat /\ k # 0 /\ k1 = k - 1 /\ \A i \in 1..k1 : signals'[i] = signals[i + 1]
      BY <1>1
    <2>2. k \in 0..2
      BY <1>1, Fits
    <2> HIDE DEF k, k1
    <2> QED  BY <2>1, <2>2
  <1>3. Waiting \in 0..2 /\ Waiting <= k /\ ahead \in 0..k
        /\ (rejoin.requests = <<>> => ahead = 0)
    BY <1>1, Fits
  <1>4. ~Answered'
    <2> SUFFICES ASSUME signals' # <<>> PROVE ~Answers(signals'[1])
      BY DEF Answered
    <2>1. k1 \in Nat /\ k1 # 0
      BY <1>1, EmptySeq
    <2> HIDE DEF k, k1
    <2>2. k = 2 /\ signals'[1] = signals[2]
      <3>1. k = 2 /\ 1 \in 1..k1 /\ 1 + 1 = 2
        BY <1>2, <2>1
      <3> QED  BY <1>2, <3>1
    <2> QED  BY <2>2 DEF WaitingInv, k
  <1>5. Waiting = IF rejoin.requests = <<>> THEN k ELSE ahead
    BY DEF Waiting
  <1>6. Waiting' = IF rejoin'.requests = <<>> THEN k1 ELSE ahead'
    BY DEF Waiting
  <1> HIDE DEF k, k1
  <1>7. ahead' \in 0..k1
    BY <1>1, <1>2, <1>3
  <1>8. rejoin'.requests # <<>> => Waiting \in 1..2 /\ Waiting' = Waiting - 1
    BY <1>1, <1>2, <1>3, <1>5, <1>6
  <1>9. rejoin'.requests # <<>> => AtMost' <= 10
    BY <1>4, <1>8
  <1>10. rejoin'.requests = <<>> => ahead' = 0
    BY <1>1
  <1> QED  BY <1>1, <1>7, <1>9, <1>10 DEF RoomInv, k1

LEMMA RoomHandler ==
    ASSUME RoomInv, AlarmInv, StatusInv, WaitingInv, ScheduleInv, AskInv, zboss_signal_handler
    PROVE  RoomInv'
  <1> DEFINE sig == Head(signals).sig
             ok == Head(signals).ok
             r == rejoin'
             n == Len(rejoin.requests)
             m == Len(r.requests)
             k == Waiting
  <1>1. /\ rejoin \in IRejoin /\ signals \in Seq(ASignal) /\ signals # <<>>
        /\ UNCHANGED <<alarms, com_sleeping, restarts, indicating>>
        /\ r = zigbee_default_signal_handler(
                            IF Restarts(sig) THEN zi_reboot(rejoin) ELSE rejoin, sig, ok)
        /\ ~draining
    BY DEF zboss_signal_handler, AlarmInv, Sound, StatusInv, ZbossFree
  <1>2. /\ Head(signals) = signals[1] /\ 1 \in 1..Len(signals)
        /\ sig \in Signal /\ ok \in BOOLEAN
    <2>1. Head(signals) = signals[1] /\ 1 \in 1..Len(signals) /\ Head(signals) \in ASignal
      BY <1>1
    <2> QED  BY <2>1 DEF ASignal
  <1>3. sig = "SKIP_STARTUP" <=> ~stack_initialised
    <2>1. sig = "SKIP_STARTUP" => ~stack_initialised
      BY <1>2 DEF StatusInv
    <2>2. ~stack_initialised => sig = "SKIP_STARTUP"
      BY <1>1 DEF StatusInv, Cold
    <2> QED  BY <2>1, <2>2
  <1>4. sig \in {"LEAVE", "FIRST_START"} => ok
    BY <1>2 DEF WaitingInv
  <1>5. Answered <=> (sig \in {"REBOOT", "STEERING"} /\ ok)
    BY <1>1, <1>2 DEF Answered, Answers
  <1>6. AtMost <= 10 /\ n \in Nat
    BY <1>1, Fits
  <1>7. \A f : Now(f)' <=> Now(f)
    BY <1>1 DEF Now
  <1>8. One(~com_sleeping) \in Nat /\ One(~com_sleeping') \in Nat
        /\ One(~com_sleeping') <= One(~com_sleeping)
    BY <1>1 DEF One
  <1>9. rejoin.wait_for_user_input => ~rejoin.started
    BY DEF ScheduleInv, PlanInv
  <1>10. FromSignals = IF rejoin.started THEN Searching(k, Answered)
                       ELSE IF ~rejoin.wait_for_user_input THEN Resting(k, Answered)
                       ELSE IF restarts > 0 THEN 2 + Searching(k, Answered) ELSE GivenUp(k, Answered)
    BY DEF FromSignals
  <1>11. ASSUME k \in 1..2, Waiting' = k - 1, ~Answered'
         PROVE  FromSignals' =
                   IF r.started THEN Searching(k - 1, FALSE)
                   ELSE IF ~r.wait_for_user_input THEN Resting(k - 1, FALSE)
                   ELSE IF restarts > 0 THEN 2 + Searching(k - 1, FALSE) ELSE GivenUp(k - 1, FALSE)
    <2>1. /\ Searching(k - 1, Answered') = Searching(k - 1, FALSE)
          /\ Resting(k - 1, Answered') = Resting(k - 1, FALSE)
          /\ GivenUp(k - 1, Answered') = GivenUp(k - 1, FALSE)
      BY <1>11 DEF Searching, Resting, GivenUp
    <2>2. FromSignals' =
                   IF r.started THEN Searching(k - 1, Answered')
                   ELSE IF ~r.wait_for_user_input THEN Resting(k - 1, Answered')
                   ELSE IF restarts' > 0 THEN 2 + Searching(k - 1, Answered')
                   ELSE GivenUp(k - 1, Answered')
      BY <1>11 DEF FromSignals
    <2> QED  BY <1>1, <2>1, <2>2
  <1>12. /\ AtMost = n + FromSignals + FromAlarms + One(~com_sleeping)
         /\ AtMost' = m + FromSignals' + FromAlarms' + One(~com_sleeping')
    BY DEF AtMost
  <1> HIDE DEF sig, ok, r
  <1>13. CASE sig = "SKIP_STARTUP"
    <2>1. rejoin = Rejoin0 /\ r = rejoin
      BY <1>1, <1>3, <1>13
         DEF Restarts, zigbee_default_signal_handler, rejoin_the_network, StatusInv, Cold
    <2> QED  BY <2>1, RoomHandled DEF Rejoin0, r
  <1>14. CASE sig \in {"REBOOT", "STEERING"} /\ ok
    <2>1. r = rejoin_the_network(stop_network_rejoin(zi_reboot(rejoin), FALSE))
      BY <1>1, <1>14 DEF Restarts, zigbee_default_signal_handler
    <2>2. r \in IRejoin /\ ~r.started /\ ~r.wait_for_user_input /\ r.requests # <<>>
      BY <1>1, <2>1, AnswerAdds
    <2>3. m = n + (IF rejoin.started THEN 4 ELSE 3)
      BY <1>1, <2>1, AnswerAdds
    <2>4. m \in Nat
      BY <2>2 DEF IRejoin
    <2>5. FromAlarms \in Nat /\ FromAlarms' \in Nat /\ FromAlarms' <= FromAlarms
      BY <1>1, <1>7, <2>2 DEF FromAlarms, One, r
    <2>6. ASSUME k \in 1..2, Waiting' = k - 1, ~Answered'
          PROVE  AtMost' <= 10
      <3> DEFINE fs == FromSignals
                 fs1 == FromSignals'
                 fa == FromAlarms
                 fa1 == FromAlarms'
                 cs == One(~com_sleeping)
                 cs1 == One(~com_sleeping')
                 a == AtMost
                 a1 == AtMost'
      <3>1. fs1 = Resting(k - 1, FALSE)
        BY <1>11, <2>2, <2>6
      <3>2. fs = IF rejoin.started THEN Searching(k, TRUE)
                 ELSE IF ~rejoin.wait_for_user_input THEN Resting(k, TRUE)
                 ELSE IF restarts > 0 THEN 2 + Searching(k, TRUE) ELSE GivenUp(k, TRUE)
        BY <1>5, <1>10, <1>14 DEF Searching, Resting, GivenUp
      <3>3. /\ m \in Nat /\ n \in Nat /\ a <= 10
            /\ m = n + (IF rejoin.started THEN 4 ELSE 3)
            /\ fa \in Nat /\ fa1 \in Nat /\ fa1 <= fa
            /\ cs \in Nat /\ cs1 \in Nat /\ cs1 <= cs
            /\ a1 = m + fs1 + fa1 + cs1
            /\ a = n + fs + fa + cs
        BY <1>6, <1>8, <1>12, <2>3, <2>4, <2>5
      <3> HIDE DEF m, n, k, fs, fs1, fa, fa1, cs, cs1, a, a1
      <3>4. /\ fs \in Nat /\ fs1 \in Nat
            /\ fs1 + (IF rejoin.started THEN 4 ELSE 3) <= fs
        BY <2>6, <3>1, <3>2 DEF Searching, Resting, GivenUp
      <3>5. a1 <= 10
        BY <3>3, <3>4
      <3> QED  BY <3>5 DEF a1
    <2> QED  BY <2>2, <2>6, RoomHandled DEF r
  <1>15. CASE ~(sig \in {"REBOOT", "STEERING"} /\ ok) /\ sig \notin {"SKIP_STARTUP", "OTHER"}
    <2>1. \/ r = rejoin_the_network(start_network_rejoin(zi_reboot(rejoin)))
          \/ r = rejoin_the_network(start_network_rejoin(rejoin))
      BY <1>1, <1>2, <1>4, <1>15 DEF Restarts, zigbee_default_signal_handler, Signal
    <2>2. /\ r \in IRejoin /\ r.wait_for_user_input = rejoin.wait_for_user_input
          /\ r.started = (rejoin.started \/ Starts(rejoin))
      BY <1>1, <2>1, FailureAdds, SearchAdds
    <2>3. m <= n + (IF Starts(rejoin) THEN 4 ELSE IF rejoin.started THEN 3 ELSE 2) /\ m \in Nat
      <3>1. m \in Nat
        BY <2>2 DEF IRejoin
      <3>2. CASE r = rejoin_the_network(start_network_rejoin(zi_reboot(rejoin)))
        BY <1>1, <3>1, <3>2, FailureAdds
      <3>3. CASE r = rejoin_the_network(start_network_rejoin(rejoin))
        <4>1. m <= n + (IF Starts(rejoin) THEN 2 ELSE IF rejoin.started THEN 1 ELSE 0)
          BY <1>1, <3>3, SearchAdds
        <4> HIDE DEF m, n
        <4> QED  BY <1>6, <3>1, <4>1
      <3> QED  BY <2>1, <3>2, <3>3
    <2>4. rejoin.requests # <<>> => r.requests # <<>>
      <3>1. CASE r = rejoin_the_network(start_network_rejoin(zi_reboot(rejoin)))
        BY <1>1, <3>1, FailureAdds
      <3>2. CASE r = rejoin_the_network(start_network_rejoin(rejoin))
        <4>1. m >= n
          BY <1>1, <3>2, SearchAdds
        <4>2. /\ rejoin.requests # <<>> => n # 0
              /\ r.requests = <<>> => m = 0
          BY <1>1, EmptySeq DEF IRejoin
        <4> HIDE DEF m, n
        <4> QED  BY <1>6, <4>1, <4>2
      <3> QED  BY <2>1, <3>1, <3>2
    <2>5. FromAlarms \in Nat /\ FromAlarms' \in Nat /\ FromAlarms' <= FromAlarms
      BY <1>1, <1>7, <2>2 DEF FromAlarms, One, r
    <2>6. ASSUME k \in 1..2, Waiting' = k - 1, ~Answered'
          PROVE  AtMost' <= 10
      <3> DEFINE fs == FromSignals
                 fs1 == FromSignals'
                 fa == FromAlarms
                 fa1 == FromAlarms'
                 cs == One(~com_sleeping)
                 cs1 == One(~com_sleeping')
                 a == AtMost
                 a1 == AtMost'
                 S == rejoin.started
                 W == rejoin.wait_for_user_input
                 B == Starts(rejoin)
      <3>1. fs1 = IF S \/ B THEN Searching(k - 1, FALSE)
                  ELSE IF ~W THEN Resting(k - 1, FALSE)
                  ELSE IF restarts > 0 THEN 2 + Searching(k - 1, FALSE) ELSE GivenUp(k - 1, FALSE)
        BY <1>11, <2>2, <2>6
      <3>2. fs = IF S THEN Searching(k, FALSE)
                 ELSE IF ~W THEN Resting(k, FALSE)
                 ELSE IF restarts > 0 THEN 2 + Searching(k, FALSE) ELSE GivenUp(k, FALSE)
        BY <1>5, <1>10, <1>15 DEF Searching, Resting, GivenUp
      <3>3. /\ m \in Nat /\ n \in Nat /\ a <= 10
            /\ m <= n + (IF B THEN 4 ELSE IF S THEN 3 ELSE 2)
            /\ fa \in Nat /\ fa1 \in Nat /\ fa1 <= fa
            /\ cs \in Nat /\ cs1 \in Nat /\ cs1 <= cs
            /\ a1 = m + fs1 + fa1 + cs1
            /\ a = n + fs + fa + cs
        BY <1>6, <1>8, <1>12, <2>3, <2>5
      <3>4. B => ~S /\ ~W
        BY DEF Starts
      <3> HIDE DEF m, n, k, fs, fs1, fa, fa1, cs, cs1, a, a1, S, W, B
      <3>5. /\ fs \in Nat /\ fs1 \in Nat
            /\ fs1 + (IF B THEN 4 ELSE IF S THEN 3 ELSE 2) <= fs
        <4>1. CASE k = 1
          BY <3>1, <3>2, <3>4, <4>1 DEF Searching, Resting, GivenUp
        <4>2. CASE k = 2
          BY <3>1, <3>2, <3>4, <4>2 DEF Searching, Resting, GivenUp
        <4> QED  BY <2>6, <4>1, <4>2
      <3>6. a1 <= 10
        BY <3>3, <3>5
      <3> QED  BY <3>6 DEF a1
    <2> QED  BY <2>4, <2>6, RoomHandled DEF r
  <1>16. CASE sig = "OTHER"
    <2>1. r = rejoin_the_network(rejoin)
      BY <1>1, <1>16 DEF Restarts, zigbee_default_signal_handler
    <2>2. /\ r \in IRejoin /\ r.wait_for_user_input = rejoin.wait_for_user_input
          /\ r.started = rejoin.started
          /\ r = rejoin \/ r.requests # <<>>
      BY <1>1, <2>1, TryAdds
    <2>3. m <= n + (IF rejoin.started THEN 1 ELSE 0) /\ m \in Nat
      <3>1. m <= n + (IF rejoin.started THEN 1 ELSE 0)
        BY <1>1, <2>1, TryAdds
      <3>2. m \in Nat
        BY <2>2 DEF IRejoin
      <3> QED  BY <3>1, <3>2
    <2>4. rejoin.requests # <<>> => r.requests # <<>>
      BY <2>2
    <2>5. FromAlarms \in Nat /\ FromAlarms' \in Nat /\ FromAlarms' <= FromAlarms
      BY <1>1, <1>7, <2>2 DEF FromAlarms, One, r
    <2>6. ASSUME k \in 1..2, Waiting' = k - 1, ~Answered'
          PROVE  AtMost' <= 10
      <3> DEFINE fs == FromSignals
                 fs1 == FromSignals'
                 fa == FromAlarms
                 fa1 == FromAlarms'
                 cs == One(~com_sleeping)
                 cs1 == One(~com_sleeping')
                 a == AtMost
                 a1 == AtMost'
                 S == rejoin.started
                 W == rejoin.wait_for_user_input
      <3>1. fs1 = IF S THEN Searching(k - 1, FALSE)
                  ELSE IF ~W THEN Resting(k - 1, FALSE)
                  ELSE IF restarts > 0 THEN 2 + Searching(k - 1, FALSE) ELSE GivenUp(k - 1, FALSE)
        BY <1>11, <2>2, <2>6
      <3>2. fs = IF S THEN Searching(k, FALSE)
                 ELSE IF ~W THEN Resting(k, FALSE)
                 ELSE IF restarts > 0 THEN 2 + Searching(k, FALSE) ELSE GivenUp(k, FALSE)
        BY <1>5, <1>10, <1>16 DEF Searching, Resting, GivenUp
      <3>3. /\ m \in Nat /\ n \in Nat /\ a <= 10
            /\ m <= n + (IF S THEN 1 ELSE 0)
            /\ fa \in Nat /\ fa1 \in Nat /\ fa1 <= fa
            /\ cs \in Nat /\ cs1 \in Nat /\ cs1 <= cs
            /\ a1 = m + fs1 + fa1 + cs1
            /\ a = n + fs + fa + cs
        BY <1>6, <1>8, <1>12, <2>3, <2>5
      <3> HIDE DEF m, n, k, fs, fs1, fa, fa1, cs, cs1, a, a1, S, W
      <3>4. fs \in Nat /\ fs1 \in Nat /\ fs1 + (IF S THEN 1 ELSE 0) <= fs
        <4>1. CASE k = 1
          BY <3>1, <3>2, <4>1 DEF Searching, Resting, GivenUp
        <4>2. CASE k = 2
          BY <3>1, <3>2, <4>2 DEF Searching, Resting, GivenUp
        <4> QED  BY <2>6, <4>1, <4>2
      <3>5. a1 <= 10
        BY <3>3, <3>4
      <3> QED  BY <3>5 DEF a1
    <2> QED  BY <2>4, <2>6, RoomHandled DEF r
  <1> QED  BY <1>13, <1>14, <1>15, <1>16

LEMMA RoomInvStep ==
    ASSUME RoomInv, AlarmInv, StatusInv, WaitingInv, ScheduleInv, AskInv, [Next]_vars
    PROVE  RoomInv'
  <1>1. CASE zboss_signal_handler
    BY <1>1, RoomHandler
  <1>2. CASE Recon_timer_cb_erase \/ command_control_restart \/ command_control_hard_reset
    <2>1. rejoin' = Rejoin0 /\ signals' = <<>> /\ ahead' = 0 /\ ~draining'
      BY <1>2 DEF Recon_timer_cb_erase, command_control_restart, command_control_hard_reset, Restart
    <2> QED  BY <2>1 DEF RoomInv, Rejoin0
  <1>3. CASE Recon_timer_cb_indicates \/ command_control_connect
    BY <1>3, RoomInput
  <1>4. CASE rejoin_the_network_alarm
    BY <1>4, RoomAttempt
  <1>5. CASE stop_network_rejoin_alarm
    BY <1>5, RoomStop
  <1>6. CASE start_network_rejoin_ED_callback
    BY <1>6, RoomRestart
  <1>7. CASE zb_app_cb_process
    BY <1>7, RoomProcess
  <1>8. CASE Tick
    <2>1. /\ rejoin.requests = <<>> /\ signals = <<>>
          /\ UNCHANGED <<rejoin, signals, ahead, draining>>
      BY <1>8 DEF Tick, app, zboss
    <2>2. ~draining /\ ahead = 0
      BY <2>1 DEF RoomInv
    <2> QED  BY <2>1, <2>2 DEF RoomInv
  <1>9. CASE \/ main_zigbee_enable \/ command_control_reset_zigbee \/ Stack \/ Environment
             \/ Recon_timer_cb_connect \/ Recon_timer_cb_joined \/ start_network_steering
             \/ UNCHANGED vars
    BY <1>9, RoomSignals
  <1> QED  BY <1>1, <1>2, <1>3, <1>4, <1>5, <1>6, <1>7, <1>8, <1>9
           DEF Next, Zboss, DueCallback, com_task, Recon_timer_cb

\* At most 10 requests wait.
LEMMA RoomEnough ==
    ASSUME RoomInv, AlarmInv, StatusInv, WaitingInv, ScheduleInv, AskInv
    PROVE  Len(rejoin.requests) <= 10
  <1> DEFINE n == Len(rejoin.requests)
             cs == One(~com_sleeping)
  <1>1. n \in Nat /\ cs \in Nat
    BY DEF AlarmInv, Sound, IRejoin, One
  <1>2. CASE draining
    <2>1. n + cs <= 10
      BY <1>2 DEF RoomInv
    <2> HIDE DEF n, cs
    <2>2. n <= 10
      BY <1>1, <2>1
    <2> QED  BY <2>2 DEF n
  <1>3. CASE ~draining
    <2> DEFINE fs == FromSignals
               fa == FromAlarms
               a == AtMost
    <2>1. a <= 10 /\ Waiting \in 0..2
      BY <1>3, Fits
    <2>2. fs \in Nat /\ fa \in Nat
      BY <2>1 DEF FromSignals, Searching, Resting, GivenUp, FromAlarms, One
    <2>3. a = n + fs + fa + cs
      BY DEF AtMost
    <2> HIDE DEF n, fs, fa, cs, a
    <2>4. n <= 10
      BY <1>1, <2>1, <2>2, <2>3
    <2> QED  BY <2>4 DEF n
  <1> QED  BY <1>2, <1>3

LEMMA InitRoom == Init => WaitingInv /\ Commissioning /\ ScheduleInv /\ AskInv /\ RoomInv
  <1> SUFFICES ASSUME Init PROVE WaitingInv /\ Commissioning /\ ScheduleInv /\ AskInv /\ RoomInv
    OBVIOUS
  <1>1. /\ rejoin = Rejoin0 /\ alarms = [f \in Callback |-> {}] /\ ~joined /\ signals = <<>>
        /\ bdb = "idle" /\ bdbLeft = 0 /\ ahead = 0 /\ ~draining
        /\ restarts = 0 /\ ~indicating
    BY DEF Init
  <1>2. Len(signals) = 0 /\ \A i \in 1..Len(signals) : FALSE
    BY <1>1
  <1>3. 0 \in 0..SteeringTime
    BY DelayAssumption
  <1>4. WaitingInv /\ Commissioning
    BY <1>1, <1>2, <1>3 DEF WaitingInv, Raised, Commissioning
  <1>5. \A f \in Callback : Will(f) = {} /\ alarms[f] = {}
    BY <1>1, EmptyPending DEF Will, Rejoin0
  <1>6. /\ ~Now("stop_network_rejoin") /\ ~Now("Recon_timer_cb")
        /\ Will("stop_network_rejoin") = {} /\ Will("rejoin_the_network") = {}
        /\ Will("Recon_timer_cb") = {}
    BY <1>5 DEF Callback, Now
  <1>7. NoTry(rejoin.requests) /\ ~rejoin.wait_for_user_input /\ ~rejoin.started
    BY <1>1 DEF NoTry, Rejoin0
  <1>8. ~Tried /\ AskInv
    BY <1>1, <1>6, <1>7 DEF Tried, Restarting, AskInv
  <1>9. ScheduleInv
    BY <1>1, <1>6, <1>7, <1>8 DEF ScheduleInv, PlanInv, EarlyInv, GivesUpFirst, ChaseInv
  <1>10. RoomInv
    BY <1>1, <1>2 DEF RoomInv, Rejoin0
  <1> QED  BY <1>4, <1>8, <1>9, <1>10

\* zb_app_cb_msgq never overflows (zigbee_schedule_callback), whenever com_task comes,
\* in the middle of user_input_indicate too, and whatever the user does; of the
\* network, that it raises a signal only when none waits (Radio).  It takes that an
\* attempt and the two delays around it are over before the search is given up,
\* which leaves the reconnect alarm behind.  The code's
\* CONFIG_ZIGBEE_APP_CB_QUEUE_LENGTH is 10.
THEOREM QueueAlwaysFits ==
    ASSUME SteeringTime + 2 < RejoinTimeout, QueueLength >= 10
    PROVE  Spec => []QueueFits
  <1> DEFINE Inv == AlarmInv /\ StatusInv /\ WaitingInv /\ Commissioning /\ ScheduleInv /\ AskInv /\ RoomInv
  <1>q. Quick
    BY DEF Quick
  <1>1. Init => Inv
    BY InitAlarm, InitStatus, InitRoom
  <1>2. Inv /\ [Next]_vars => Inv'
    BY <1>q, AlarmInvStep, StatusInvStep, WaitingInvStep, CommissioningStep, ScheduleInvStep,
       AskInvStep, RoomInvStep
  <1>3. Inv => QueueFits
    <2> SUFFICES ASSUME Inv PROVE QueueFits
      OBVIOUS
    <2> DEFINE n == Len(rejoin.requests)
    <2>1. n <= 10
      BY RoomEnough
    <2>2. n \in Nat
      BY DEF AlarmInv, Sound, IRejoin
    <2> HIDE DEF n
    <2>3. n <= QueueLength
      BY <2>1, <2>2, QueueAssumption
    <2> QED  BY <2>3 DEF QueueFits, n
  <1> QED  BY <1>1, <1>2, <1>3, PTL DEF Spec
================================================================================
