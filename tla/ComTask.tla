-------------------------------- MODULE ComTask --------------------------------
(***************************************************************************)
(* Publishing the temperature (src/main.c): com_task copies what the ADC   *)
(* task has measured into the Zigbee attribute every three seconds, then   *)
(* carries out a command, under a watchdog; main starts the ADC task and   *)
(* registers the attribute meanwhile.                                      *)
(*                                                                         *)
(* Time is counted in ticks of half a second.  Of a temperature only its   *)
(* age is kept, up to Old.  The tasks outrank main and each other only for *)
(* moments, so whoever is due acts before the next tick, in any order.     *)
(***************************************************************************)
EXTENDS Integers

CONSTANTS
    InitTime,   \* ticks main may take for flash and USB, up to io_adc_init
    Old         \* ages are told apart up to this bound

\* Mutants: seconds for milliseconds; com_task starts without a delay.
Bug_AdcSeconds == 20
Bug_AtOnce == 0

SettleTime == 4  \* k_sleep(K_MSEC(2000)) in main
StartTime == 2   \* the delay of K_THREAD_DEFINE(com_task_id, ...)
Period == 6      \* k_sleep(K_MSEC(3000)) in com_task
AdcDelay == 0    \* K_MSEC(10), the delay of the ADC task
AdcPause == 2    \* ADC_PAUSE_MS
WDT_MAX_WINDOW == 18

\* Loading and repairing some thirty registers takes less than two seconds.
ASSUME InitAssumption == InitTime \subseteq 0..3 /\ InitTime # {}
ASSUME OldAssumption == Old \in Nat /\ Old > 20

Never == -1          \* ADC_Value_T is still 0
NO_MEASURE == -2     \* TEMPERATURE_NO_MEASURE
Unset == -3          \* the attribute is still 0
Off == -1            \* the watchdog is not running

VARIABLES
    main, mainTime,  \* where main is, and the ticks until it goes on
    adc, adcTime,    \* the ADC task likewise
    com, comTime,    \* com_task; in a command, comTime is the time it has taken
    wdt,             \* ticks until the watchdog resets the device
    ADC_Value_T,     \* the age of its measurement
    measure_value,   \* the age of the measurement in the attribute
    stray            \* history: published before there was an attribute

mainVars == <<main, mainTime>>
adcVars == <<adc, adcTime, ADC_Value_T>>
comVars == <<com, comTime, wdt>>
vars == <<mainVars, adcVars, comVars, measure_value, stray>>

Init ==
    /\ main = "init" /\ mainTime \in InitTime
    /\ adc = "none" /\ adcTime = 0
    /\ com = "start" /\ comTime = StartTime
    /\ wdt = Off
    /\ ADC_Value_T = Never
    /\ measure_value = Unset
    /\ stray = FALSE

--------------------------------------------------------------------------------
\* main

Registered == main = "registered"

\* usb_enable and io_adc_init; without an ADC device there is no ADC task.
\* Without USB main returns.
io_adc_init ==
    /\ main = "init" /\ mainTime = 0
    /\ \/ /\ main' = "settle" /\ mainTime' = SettleTime
          /\ adc' \in {"none", "sleep"} /\ adcTime' = AdcDelay
       \/ /\ main' = "returned"
          /\ UNCHANGED <<mainTime, adc, adcTime>>
    /\ UNCHANGED <<ADC_Value_T, comVars, measure_value, stray>>

\* Mutant: the placeholder is written after the registration, with the delay of
\* the power test in between.
Bug_PlaceholderLate ==
    \/ /\ main = "settle" /\ mainTime = 0
       /\ main' = "registered" /\ mainTime' = SettleTime
       /\ UNCHANGED <<adcVars, comVars, measure_value, stray>>
    \/ /\ main = "registered" /\ mainTime = 1
       /\ measure_value' = NO_MEASURE /\ mainTime' = 0
       /\ UNCHANGED <<main, adcVars, comVars, stray>>

\* TEMPERATURE_NO_MEASURE, then ZB_AF_REGISTER_DEVICE_CTX.
main_register ==
    /\ main = "settle" /\ mainTime = 0
    /\ measure_value' = NO_MEASURE
    /\ main' = "registered"
    /\ UNCHANGED <<mainTime, adcVars, comVars, stray>>

--------------------------------------------------------------------------------
\* The ADC task, as module AdcTask has it, seen from here

io_adc_task ==
    /\ adc = "sleep" /\ adcTime = 0
    /\ ADC_Value_T' = 0
    /\ adcTime' = AdcPause
    /\ UNCHANGED <<adc, mainVars, comVars, measure_value, stray>>

io_adc_failed ==
    /\ adc = "sleep" /\ adcTime = 0
    /\ adc' = "ended"
    /\ UNCHANGED <<adcTime, ADC_Value_T, mainVars, comVars, measure_value, stray>>

--------------------------------------------------------------------------------
\* com_task

\* Mutant: the watchdog is installed and never set up.
Bug_NotSetUp == Off

\* wdt_setup and the first wdt_feed.
SetUp == WDT_MAX_WINDOW

\* If the watchdog cannot be set up, com_task returns.
com_task_start ==
    /\ com = "start" /\ comTime = 0
    /\ \/ com' = "sleep" /\ comTime' = Period /\ wdt' = SetUp
       \/ com' = "ended" /\ UNCHANGED <<comTime, wdt>>
    /\ UNCHANGED <<mainVars, adcVars, measure_value, stray>>

\* zb_zcl_set_attr_val looks for the attribute through the registered context;
\* without one it follows a null pointer.
zb_zcl_set_attr_val ==
    IF Registered
    THEN measure_value' = ADC_Value_T /\ UNCHANGED stray
    ELSE stray' = TRUE /\ UNCHANGED measure_value

com_task_publish ==
    /\ com = "sleep" /\ comTime = 0
    /\ zb_zcl_set_attr_val
    /\ com' = "command"
    /\ UNCHANGED <<comTime, wdt, mainVars, adcVars>>

\* Mutant: only the first turn feeds the watchdog.
Bug_FedOnce == wdt

\* wdt_feed.
Fed == WDT_MAX_WINDOW

\* command_control is back, at once or after mh_Factory has waited for flash.
com_task_loop ==
    /\ com = "command"
    /\ wdt' = Fed
    /\ com' = "sleep" /\ comTime' = Period
    /\ UNCHANGED <<mainVars, adcVars, measure_value, stray>>

--------------------------------------------------------------------------------
\* Time and resets

Due ==
    \/ main \in {"init", "settle"} /\ mainTime = 0
    \/ adc = "sleep" /\ adcTime = 0
    \/ com \in {"start", "sleep"} /\ comTime = 0
    \/ wdt = 0

Down(t) == IF t > 0 THEN t - 1 ELSE t
Older(age) == IF age \in 0..(Old - 1) THEN age + 1 ELSE age

Tick ==
    /\ ~Due
    /\ mainTime' = Down(mainTime)
    /\ adcTime' = Down(adcTime)
    /\ comTime' = CASE com \in {"start", "sleep"} -> comTime - 1
                    [] com = "command" /\ comTime < Old -> comTime + 1
                    [] OTHER -> comTime
    /\ wdt' = Down(wdt)
    /\ ADC_Value_T' = Older(ADC_Value_T)
    /\ measure_value' = Older(measure_value)
    /\ UNCHANGED <<main, adc, com, stray>>

\* The device starts again.
Restart ==
    /\ main' = "init" /\ mainTime' \in InitTime
    /\ adc' = "none" /\ adcTime' = 0
    /\ com' = "start" /\ comTime' = StartTime
    /\ wdt' = Off
    /\ ADC_Value_T' = Never
    /\ measure_value' = Unset
    /\ stray' = FALSE

watchdog == wdt = 0 /\ Restart

\* A command that restarts, the reconnect alarm, or loss of power.
Reset == Restart

Main == io_adc_init \/ main_register
Adc == io_adc_task \/ io_adc_failed
Com == com_task_start \/ com_task_publish

Next == Main \/ Adc \/ Com \/ com_task_loop \/ Tick \/ watchdog \/ Reset

Spec == Init /\ [][Next]_vars
\* Tasks that are due run and time passes.  That a command ends is not assumed.
FairSpec ==
    /\ Spec
    /\ WF_vars(Main) /\ WF_vars(Adc) /\ WF_vars(Com) /\ WF_vars(Tick) /\ WF_vars(watchdog)
================================================================================
