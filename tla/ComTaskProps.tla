----------------------------- MODULE ComTaskProps ------------------------------
(***************************************************************************)
(* What a reader of the Zigbee attribute may rely on, and when the         *)
(* watchdog bites.                                                         *)
(***************************************************************************)
EXTENDS ComTask

\* The types of the variables.
TypeOK ==
    /\ main \in {"init", "settle", "registered", "returned"} /\ mainTime \in 0..SettleTime
    /\ adc \in {"none", "sleep", "ended"} /\ adcTime \in 0..AdcPause
    /\ com \in {"start", "sleep", "command", "ended"} /\ comTime \in 0..Old
    /\ wdt \in {Off} \cup 0..WDT_MAX_WINDOW
    /\ ADC_Value_T \in {Never} \cup 0..Old
    /\ measure_value \in {Unset, NO_MEASURE, Never} \cup 0..Old
    /\ stray \in BOOLEAN

\* com_task publishes for the first time four seconds after the start, without
\* asking whether main is that far: main registers the attribute in time, unless
\* it has returned for lack of USB.
RegisteredFirst == stray => main = "returned"

\* The watchdog never bites a device that works: only one whose com_task has been
\* busy with a command for six seconds.
OnlyHangsExpire ==
    wdt = 0 => com = "command" /\ comTime >= WDT_MAX_WINDOW - Period

\* While both tasks run, a reader of the attribute sees a temperature measured
\* within the last ten seconds, however long a command takes: either the next one
\* is published or the watchdog restarts the device.
Fresh ==
    measure_value >= 0 /\ adc = "sleep" /\ com # "ended"
        => measure_value <= WDT_MAX_WINDOW + AdcPause

\* The initial 0 of ADC_Value_T is not published as a temperature before the ADC
\* task has measured: it can be seen only when there is no ADC task, or no longer.
ZeroOnlyWithoutAdc == measure_value = Never => adc # "sleep"

\* Once a measured temperature has been published, the placeholder and 0 do not
\* come back, except by a restart.
MeasuredStays ==
    [][measure_value >= 0 => measure_value' >= 0 \/ Restart]_vars

\* If the device stays up with USB, an ADC that works and a watchdog, then it
\* publishes again and again, even if commands may hang.
KeepsPublishing ==
    <>[](Registered /\ adc = "sleep" /\ com # "ended")
        => []<>(measure_value >= 0 /\ measure_value <= AdcPause)

\* What main.c says of every turn of com_task: "Get new temperature measured
\* value".  Just after publishing, there is a measurement since the last time.
NewValue ==
    com = "command" /\ comTime = 0 /\ Registered
        => ADC_Value_T \in 0..Period
================================================================================
