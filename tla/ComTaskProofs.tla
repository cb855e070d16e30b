----------------------------- MODULE ComTaskProofs -----------------------------
(***************************************************************************)
(* Proofs of the invariants of ComTaskProps, for any set of durations of   *)
(* main's initialisation below two seconds.                                *)
(***************************************************************************)
EXTENDS ComTaskProps, TLAPS

\* Ticks until com_task publishes for the first time, and until main registers.
UntilPublish == IF com = "start" THEN comTime + Period ELSE comTime
UntilRegister == IF main = "init" THEN mainTime + SettleTime ELSE mainTime

\* main wins the race to the first publication.
Race == main \in {"init", "settle"} =>
            /\ com \in {"start", "sleep", "ended"} /\ ~stray
            /\ com # "ended" => UntilRegister < UntilPublish

\* What is left of the watchdog's window in each phase of com_task.
Window ==
    CASE com = "sleep"   -> wdt = comTime + (WDT_MAX_WINDOW - Period)
      [] com = "command" -> wdt \in Nat /\ wdt + comTime = WDT_MAX_WINDOW - Period
      [] OTHER           -> wdt = Off

\* Nothing is measured before main has started the ADC task, and nothing is
\* published before main has registered.
Early ==
    /\ main \in {"init", "returned"} => adc = "none"
    /\ adc = "none" => ADC_Value_T = Never
    /\ main \in {"init", "settle"} => measure_value = Unset

\* How old the measurement and the attribute may be in each phase.
Ages ==
    /\ com = "start" => comTime <= StartTime /\ measure_value < 0
    /\ com = "sleep" => comTime <= Period
    /\ adc = "sleep" =>
          /\ ADC_Value_T \in {Never} \cup 0..(AdcPause - adcTime)
          /\ ADC_Value_T = Never => main = "settle" /\ mainTime = SettleTime /\ adcTime = 0
          /\ com = "command" => measure_value <= AdcPause + comTime
          /\ com = "sleep" => measure_value <= WDT_MAX_WINDOW + AdcPause - comTime

IInv == TypeOK /\ Race /\ Window /\ Early /\ Ages /\ RegisteredFirst /\ ZeroOnlyWithoutAdc

--------------------------------------------------------------------------------
LEMMA Ints == Old \in Nat /\ Old > 20
  BY OldAssumption

LEMMA Starts == Init => IInv
  <1> SUFFICES ASSUME Init PROVE IInv
    OBVIOUS
  <1> USE Ints DEF Init, StartTime, Period, SettleTime, WDT_MAX_WINDOW, AdcPause, Never,
                   NO_MEASURE, Unset, Off
  <1>1. mainTime \in 0..3
    BY InitAssumption
  <1>2. TypeOK
    <2>1. (mainTime \in 0..SettleTime /\ adcTime \in 0..AdcPause /\ comTime \in 0..Old)
      BY <1>1
    <2>2. (wdt \in {Off} \cup 0..WDT_MAX_WINDOW /\ ADC_Value_T \in {Never} \cup 0..Old)
      OBVIOUS
    <2>3. (measure_value \in {Unset, NO_MEASURE, Never} \cup 0..Old)
      OBVIOUS
    <2> QED  BY <2>1, <2>2, <2>3 DEF TypeOK
  <1>3. (Race /\ RegisteredFirst)
    <2>1. UntilRegister < UntilPublish
      BY <1>1 DEF UntilPublish, UntilRegister
    <2> QED  BY <2>1 DEF Race, RegisteredFirst
  <1>4. Window
    BY DEF Window
  <1>5. (Early /\ Ages /\ ZeroOnlyWithoutAdc)
    BY DEF Early, Ages, ZeroOnlyWithoutAdc
  <1> QED  BY <1>2, <1>3, <1>4, <1>5 DEF IInv

LEMMA RestartStep == Restart => IInv'
  <1> SUFFICES ASSUME Restart PROVE IInv'
    OBVIOUS
  <1> USE Ints DEF Restart, StartTime, Period, SettleTime, WDT_MAX_WINDOW, AdcPause, Never,
                   NO_MEASURE, Unset, Off
  <1>1. mainTime' \in 0..3
    BY InitAssumption
  <1>2. TypeOK'
    <2>1. (mainTime \in 0..SettleTime /\ adcTime \in 0..AdcPause /\ comTime \in 0..Old)'
      BY <1>1
    <2>2. (wdt \in {Off} \cup 0..WDT_MAX_WINDOW /\ ADC_Value_T \in {Never} \cup 0..Old)'
      OBVIOUS
    <2>3. (measure_value \in {Unset, NO_MEASURE, Never} \cup 0..Old)'
      OBVIOUS
    <2> QED  BY <2>1, <2>2, <2>3 DEF TypeOK
  <1>3. (Race /\ RegisteredFirst)'
    <2>1. UntilRegister' = mainTime' + 4 /\ UntilPublish' = 8
      BY DEF UntilPublish, UntilRegister
    <2>2. \A t \in 0..3 : t + 4 < 8
      OBVIOUS
    <2>3. UntilRegister' < UntilPublish'
      BY <1>1, <2>1, <2>2, Zenon
    <2> QED  BY <2>3 DEF Race, RegisteredFirst
  <1>4. Window'
    BY DEF Window
  <1>5. (Early /\ Ages /\ ZeroOnlyWithoutAdc)'
    BY DEF Early, Ages, ZeroOnlyWithoutAdc
  <1> QED  BY <1>2, <1>3, <1>4, <1>5 DEF IInv

LEMMA MainStep == IInv /\ Main => IInv'
  <1> SUFFICES ASSUME IInv, Main PROVE IInv'
    OBVIOUS
  <1> USE Ints DEF mainVars, adcVars, comVars, StartTime, Period, SettleTime, WDT_MAX_WINDOW,
                   AdcPause, AdcDelay, Never, NO_MEASURE, Unset, Off
  <1>1. TypeOK'
    BY DEF IInv, Main, io_adc_init, main_register, TypeOK, Ages
  <1>2. Race' /\ RegisteredFirst'
    BY DEF IInv, Main, io_adc_init, main_register, TypeOK, Race, RegisteredFirst,
           UntilPublish, UntilRegister
  <1>3. Window'
    BY DEF IInv, Main, io_adc_init, main_register, TypeOK, Window
  <1>4. CASE io_adc_init
    <2>1. main = "init" /\ mainTime = 0 /\ UNCHANGED <<ADC_Value_T, com, comTime, wdt, measure_value>>
          /\ adc \in {"none", "sleep", "ended"}
      BY <1>4 DEF io_adc_init, IInv, TypeOK
    <2>2. \/ main' = "settle" /\ mainTime' = SettleTime /\ adcTime' = 0 /\ adc' \in {"none", "sleep"}
          \/ main' = "returned" /\ mainTime' = mainTime /\ adc' = adc /\ adcTime' = adcTime
      BY <1>4 DEF io_adc_init
    <2>3. /\ ADC_Value_T = Never /\ measure_value = Unset /\ adc = "none"
          /\ com = "start" => comTime <= StartTime
          /\ com = "sleep" => comTime \in 0..Period
          /\ com = "command" => comTime \in 0..Old
      BY <2>1 DEF IInv, Early, Ages, TypeOK
    <2>4. (Early /\ ZeroOnlyWithoutAdc)'
      BY <2>1, <2>2, <2>3 DEF Early, ZeroOnlyWithoutAdc
    <2>5. Ages'
      BY <2>1, <2>2, <2>3 DEF Ages
    <2> QED  BY <1>1, <1>2, <1>3, <2>4, <2>5 DEF IInv
  <1>5. CASE main_register
    <2>1. /\ main = "settle" /\ mainTime = 0 /\ main' = "registered" /\ mainTime' = mainTime
          /\ measure_value' = NO_MEASURE
          /\ UNCHANGED <<adc, adcTime, ADC_Value_T, com, comTime, wdt>>
      BY <1>5 DEF main_register
    <2>2. (Early /\ ZeroOnlyWithoutAdc)'
      BY <2>1 DEF IInv, Early, ZeroOnlyWithoutAdc
    <2>3. adc = "sleep" => ADC_Value_T # Never
      BY <2>1 DEF IInv, Ages
    <2>4. Ages'
      BY <2>1, <2>3 DEF IInv, TypeOK, Ages
    <2> QED  BY <1>1, <1>2, <1>3, <2>2, <2>4 DEF IInv
  <1> QED  BY <1>1, <1>2, <1>3, <1>4, <1>5 DEF IInv, Main

LEMMA AdcStep == IInv /\ Adc => IInv'
  <1> SUFFICES ASSUME IInv, Adc PROVE IInv'
    OBVIOUS
  <1> USE Ints DEF mainVars, adcVars, comVars, StartTime, Period, SettleTime, WDT_MAX_WINDOW,
                   AdcPause, Never, NO_MEASURE, Unset, Off
  <1>1. TypeOK'
    BY DEF IInv, Adc, io_adc_task, io_adc_failed, TypeOK
  <1>2. Race' /\ RegisteredFirst' /\ Window'
    BY DEF IInv, Adc, io_adc_task, io_adc_failed, TypeOK, Race, RegisteredFirst,
           UntilPublish, UntilRegister, Window
  <1>3. (Early /\ Ages /\ ZeroOnlyWithoutAdc)'
    BY DEF IInv, Adc, io_adc_task, io_adc_failed, TypeOK, Early, Ages, ZeroOnlyWithoutAdc
  <1> QED  BY <1>1, <1>2, <1>3 DEF IInv

LEMMA ComStep == IInv /\ (Com \/ com_task_loop) => IInv'
  <1> SUFFICES ASSUME IInv, Com \/ com_task_loop PROVE IInv'
    OBVIOUS
  <1> USE Ints DEF mainVars, adcVars, comVars, StartTime, Period, SettleTime, WDT_MAX_WINDOW,
                   AdcPause, Never, NO_MEASURE, Unset, Off
  <1>1. CASE com_task_start
    BY <1>1 DEF IInv, com_task_start, SetUp, TypeOK, Race, RegisteredFirst, UntilPublish,
                UntilRegister, Window, Early, Ages, ZeroOnlyWithoutAdc
  <1>2. CASE com_task_publish
    <2>1. com = "sleep" /\ comTime = 0 /\ com' = "command" /\ comTime' = 0
          /\ UNCHANGED <<wdt, main, mainTime, adc, adcTime, ADC_Value_T>>
      BY <1>2 DEF com_task_publish, IInv, TypeOK
    <2>2. main \notin {"init", "settle"}
      BY <2>1 DEF IInv, Race, TypeOK, UntilPublish, UntilRegister
    <2>3. \/ main = "registered" /\ measure_value' = ADC_Value_T /\ stray' = stray
          \/ main = "returned" /\ measure_value' = measure_value /\ stray' = TRUE
      BY <1>2, <2>2 DEF com_task_publish, zb_zcl_set_attr_val, Registered, IInv, TypeOK
    <2>4. TypeOK' /\ Race' /\ Early'
      BY <2>1, <2>2, <2>3 DEF IInv, TypeOK, Race, Early
    <2>5. Window' /\ RegisteredFirst'
      BY <2>1, <2>3 DEF IInv, TypeOK, Window, RegisteredFirst
    <2>6. ASSUME adc = "sleep"
          PROVE  ADC_Value_T \in 0..AdcPause /\ measure_value' <= AdcPause
      <3>1. main = "registered"
        BY <2>3, <2>6 DEF IInv, Early
      <3>2. ADC_Value_T # Never /\ ADC_Value_T \in 0..(AdcPause - adcTime)
        BY <2>6, <3>1 DEF IInv, Ages
      <3> QED  BY <2>3, <3>1, <3>2 DEF IInv, TypeOK
    <2>7. (Ages /\ ZeroOnlyWithoutAdc)'
      BY <2>1, <2>2, <2>3, <2>6 DEF IInv, TypeOK, Ages, ZeroOnlyWithoutAdc
    <2> QED  BY <2>4, <2>5, <2>7 DEF IInv
  <1>3. CASE com_task_loop
    BY <1>3 DEF IInv, com_task_loop, Fed, TypeOK, Race, RegisteredFirst, UntilPublish,
                UntilRegister, Window, Early, Ages, ZeroOnlyWithoutAdc
  <1> QED  BY <1>1, <1>2, <1>3 DEF Com

LEMMA TickStep == IInv /\ Tick => IInv'
  <1> SUFFICES ASSUME IInv, Tick PROVE IInv'
    OBVIOUS
  <1> USE Ints DEF StartTime, Period, SettleTime, WDT_MAX_WINDOW, AdcPause, Never, NO_MEASURE,
                   Unset, Off
  <1>1. /\ UNCHANGED <<main, adc, com, stray>>
        /\ main \in {"init", "settle"} => mainTime > 0 /\ mainTime' = mainTime - 1
        /\ adc = "sleep" => adcTime > 0 /\ adcTime' = adcTime - 1
        /\ com \in {"start", "sleep"} => comTime > 0 /\ comTime' = comTime - 1
        /\ com = "command" => comTime' = comTime + 1
        /\ com = "ended" => comTime' = comTime
        /\ wdt # Off => wdt > 0 /\ wdt' = wdt - 1
        /\ wdt = Off => wdt' = Off
        /\ mainTime' \in 0..SettleTime /\ adcTime' \in 0..AdcPause
    BY DEF Tick, Due, Down, IInv, TypeOK, Window
  <1>2. /\ ADC_Value_T' \in {Never} \cup 0..Old
        /\ ADC_Value_T' <= ADC_Value_T + 1 /\ (ADC_Value_T = Never <=> ADC_Value_T' = Never)
        /\ measure_value' \in {Unset, NO_MEASURE, Never} \cup 0..Old
        /\ measure_value' <= measure_value + 1
        /\ measure_value < 0 => measure_value' = measure_value
        /\ measure_value >= 0 => measure_value' >= 0
    BY DEF Tick, Older, IInv, TypeOK
  <1>3. TypeOK'
    BY <1>1, <1>2 DEF IInv, TypeOK, Window
  <1>4. Race' /\ RegisteredFirst'
    BY <1>1 DEF IInv, TypeOK, Race, RegisteredFirst, UntilPublish, UntilRegister
  <1>5. Window'
    BY <1>1 DEF IInv, TypeOK, Window
  <1>6. (Early /\ ZeroOnlyWithoutAdc)'
    BY <1>1, <1>2 DEF IInv, TypeOK, Early, ZeroOnlyWithoutAdc
  <1>7. Ages'
    <2>1. (com = "start" => comTime <= StartTime /\ measure_value < 0)'
          /\ (com = "sleep" => comTime <= Period)'
      BY <1>1, <1>2 DEF IInv, TypeOK, Ages
    <2>2. ASSUME adc = "sleep"
          PROVE  /\ ADC_Value_T' \in {Never} \cup 0..(AdcPause - adcTime')
                 /\ ADC_Value_T' # Never
      BY <1>1, <1>2, <2>2 DEF IInv, TypeOK, Ages
    <2>3. ASSUME adc = "sleep"
          PROVE  /\ com = "command" => measure_value' <= AdcPause + comTime'
                 /\ com = "sleep" => measure_value' <= WDT_MAX_WINDOW + AdcPause - comTime'
      BY <1>1, <1>2, <2>3 DEF IInv, TypeOK, Ages
    <2> QED  BY <1>1, <2>1, <2>2, <2>3 DEF Ages
  <1> QED  BY <1>3, <1>4, <1>5, <1>6, <1>7 DEF IInv

LEMMA Inductive == IInv /\ [Next]_vars => IInv'
  <1> SUFFICES ASSUME IInv, [Next]_vars PROVE IInv'
    OBVIOUS
  <1>1. CASE UNCHANGED vars
    BY <1>1 DEF vars, mainVars, adcVars, comVars, IInv, TypeOK, Race, Window, Early, Ages,
                RegisteredFirst, ZeroOnlyWithoutAdc, UntilPublish, UntilRegister
  <1> QED  BY <1>1, MainStep, AdcStep, ComStep, TickStep, RestartStep DEF Next, watchdog, Reset

LEMMA Always == FairSpec => []IInv
  BY Starts, Inductive, PTL DEF FairSpec, Spec

\* Every variable keeps its type (main.c:347).
THEOREM TypeCorrect == FairSpec => []TypeOK
  <1>1. IInv => TypeOK
    BY DEF IInv
  <1> QED  BY <1>1, Always, PTL

\* The first publication waits for the registration without knowing of it
\* (main.c:402, main.c:107).
THEOREM RegistrationAlwaysFirst == FairSpec => []RegisteredFirst
  <1>1. IInv => RegisteredFirst
    BY DEF IInv
  <1> QED  BY <1>1, Always, PTL

\* The watchdog resets only a device that hangs in a command (main.c:390).
THEOREM OnlyHangsEverExpire == FairSpec => []OnlyHangsExpire
  <1>1. IInv => OnlyHangsExpire
    BY DEF IInv, TypeOK, Window, OnlyHangsExpire, WDT_MAX_WINDOW, Period, Off
  <1> QED  BY <1>1, Always, PTL

\* Nothing older than ten seconds is in the attribute while both tasks run
\* (main.c:391, io_adc.c:189).
THEOREM AlwaysFresh == FairSpec => []Fresh
  <1>1. IInv => Fresh
    BY Ints DEF IInv, TypeOK, Ages, Window, Fresh, WDT_MAX_WINDOW, Period, AdcPause, Off,
       NO_MEASURE, Never, Unset
  <1> QED  BY <1>1, Always, PTL

\* The 0 that ADC_Value_T starts with is not taken for a temperature before the
\* first measurement (main.c:394).
THEOREM ZeroAlwaysWithoutAdc == FairSpec => []ZeroOnlyWithoutAdc
  <1>1. IInv => ZeroOnlyWithoutAdc
    BY DEF IInv
  <1> QED  BY <1>1, Always, PTL

\* A published temperature was measured: ADC_Value_T is not the 0 it starts with.
Measured == measure_value >= 0 => ADC_Value_T >= 0

\* The placeholder goes into the attribute only before the first publication, and
\* com_task publishes nothing but measurements once it has published one.
LEMMA MeasuredStep ==
  ASSUME IInv, Measured, [Next]_vars
  PROVE  Measured' /\ (measure_value >= 0 => measure_value' >= 0 \/ Restart)
  <1> USE DEF Measured, mainVars, adcVars, comVars, Never, NO_MEASURE, Unset
  <1>1. CASE Main
    BY <1>1 DEF Main, io_adc_init, main_register, IInv, Early
  <1>2. CASE Adc
    BY <1>2 DEF Adc, io_adc_task, io_adc_failed
  <1>3. CASE Com
    BY <1>3 DEF Com, com_task_start, com_task_publish, zb_zcl_set_attr_val
  <1>4. CASE com_task_loop \/ UNCHANGED vars
    BY <1>4 DEF com_task_loop, vars
  <1>5. CASE Tick
    <2>1. /\ ADC_Value_T \in {Never} \cup 0..Old /\ ADC_Value_T' = Older(ADC_Value_T)
          /\ measure_value \in {Unset, NO_MEASURE, Never} \cup 0..Old
          /\ measure_value' = Older(measure_value)
      BY <1>5 DEF Tick, IInv, TypeOK
    <2> QED  BY <2>1, Ints DEF Older
  <1>6. CASE Restart
    BY <1>6 DEF Restart
  <1> QED  BY <1>1, <1>2, <1>3, <1>4, <1>5, <1>6 DEF Next, watchdog, Reset

\* The placeholder and the initial 0 do not come back behind a temperature that a
\* reader has seen (main.c:391, io_adc.c:189).
THEOREM MeasuredAlwaysStays == FairSpec => MeasuredStays
  <1>1. Init => Measured
    BY DEF Init, Measured, Unset
  <1>2. IInv /\ Measured /\ [Next]_vars => Measured'
    BY MeasuredStep
  <1>3. IInv /\ Measured /\ [Next]_vars =>
          [measure_value >= 0 => measure_value' >= 0 \/ Restart]_vars
    BY MeasuredStep
  <1> QED  BY <1>1, <1>2, <1>3, Always, PTL DEF FairSpec, Spec, MeasuredStays
================================================================================
