------------------------------ MODULE Thermistor ------------------------------
(***************************************************************************)
(* From an ADC code to a temperature (src/measure_NTC.c): the table is     *)
(* computed once at boot, then each filtered sample is looked up by        *)
(* bisection and interpolated.                                             *)
(*                                                                         *)
(* The floating-point formula that fills the table is abstracted to the    *)
(* set of curves it may produce.  Indices are uint8_t and entries          *)
(* uint16_t; a read beyond the table yields any entry.                     *)
(***************************************************************************)
EXTENDS Integers

CONSTANTS
    TemperatureTableSize, \* TEMPERATURE_TABLE_SIZE
    IndexRange,           \* 2^8, the values of temperature_table_index_type
    EntryRange,           \* 2^16, the values of temperature_table_entry_type
    Curve,                \* the tables the formula may produce
    NumberStep,           \* values of Reg_NTC_Temper_Number_Step
    StepTemperature,      \* values of Reg_NTC_Step_Temperature
    StartTemperature,     \* values of Reg_NTC_Start_Temperature
    Sample                \* filtered ADC codes, signed

Index == 0..(TemperatureTableSize - 1)
Entry == 0..(EntryRange - 1)

ASSUME TableAssumption ==
    /\ TemperatureTableSize \in Nat \ {0} /\ IndexRange \in Nat /\ EntryRange \in Nat \ {0}
    /\ TemperatureTableSize <= IndexRange
ASSUME DataAssumption ==
    /\ Curve \subseteq [Index -> Entry]
    /\ NumberStep \subseteq Nat
    /\ StepTemperature \subseteq Nat
    /\ StartTemperature \subseteq Int
    /\ Sample \subseteq Int
\* The sensor is an NTC: the code falls as the temperature rises.
ASSUME CurveAssumption ==
    \A c \in Curve : \A i, j \in Index : i <= j => c[i] >= c[j]

TEMPERATURE_UNDER == 28673 \* 0x7001
TEMPERATURE_OVER == 28674  \* 0x7002

VARIABLES
    pc,          \* "boot", "idle" or "search"
    NTC_Parametr,
    termo_table,
    sample,      \* the argument, before it becomes unsigned
    adcsum,      \* the argument of calc_temperature
    l, r,        \* its indices
    res,         \* its result
    outside,     \* history: a read went beyond the table
    prev         \* history: the conversion before this one

vars == <<pc, NTC_Parametr, termo_table, sample, adcsum, l, r, res, outside, prev>>

Init ==
    /\ pc = "boot"
    /\ NTC_Parametr = [number |-> 0, step |-> 0, start |-> 0]
    /\ termo_table = [i \in Index |-> 0]
    /\ sample = 0 /\ adcsum = 0
    /\ l = 0 /\ r = 0
    /\ res = TEMPERATURE_OVER
    /\ outside = FALSE
    /\ prev = [adcsum |-> 0, res |-> TEMPERATURE_OVER]

Clamped(n) == IF n > TemperatureTableSize THEN TemperatureTableSize ELSE n

calculate_table_NTC ==
    /\ pc = "boot"
    /\ \E n \in NumberStep, step \in StepTemperature, start \in StartTemperature :
          NTC_Parametr' = [number |-> Clamped(n), step |-> step, start |-> start]
    /\ \E c \in Curve :
          termo_table' = [i \in Index |-> IF i < NTC_Parametr'.number THEN c[i] ELSE 0]
    /\ pc' = "idle"
    /\ UNCHANGED <<sample, adcsum, l, r, res, outside, prev>>

\* Mutant: the number of entries is taken for the last index.
Bug_LastIsNumber == NTC_Parametr.number % IndexRange

\* (NTC_temper_number_step - 1) as a uint8_t.
LastIndex == (NTC_Parametr.number - 1) % IndexRange

\* TEMPERATURE_TABLE_READ: what reading entry i may yield.
Read(i) == IF i \in Index THEN {termo_table[i]} ELSE Entry

Temperature(i) == NTC_Parametr.step * i + NTC_Parametr.start

Return(value) ==
    /\ res' = value
    /\ pc' = "idle"

\* The part of calc_temperature before the loop.
calc_temperature(v) ==
    /\ pc = "idle"
    /\ sample' = v
    /\ adcsum' = v % EntryRange
    /\ prev' = [adcsum |-> adcsum, res |-> res]
    /\ outside' = (outside \/ LastIndex \notin Index)
    /\ l' = 0
    /\ r' = LastIndex
    /\ \E thigh \in Read(LastIndex) :
          \/ adcsum' < thigh /\ Return(TEMPERATURE_OVER)
          \/ adcsum' = thigh /\ Return(Temperature(LastIndex))
          \/ /\ adcsum' > thigh
             /\ \/ adcsum' > termo_table[0] /\ Return(TEMPERATURE_UNDER)
                \/ adcsum' = termo_table[0] /\ Return(Temperature(0))
                \/ adcsum' < termo_table[0] /\ pc' = "search" /\ UNCHANGED res
    /\ UNCHANGED <<NTC_Parametr, termo_table>>

Colder(mid) == adcsum > mid

\* Mutant: neighbours are bisected again.
Bug_NeverNarrow == r > l

Wide == r - l > 1

\* One turn of the loop.
Bisect ==
    /\ pc = "search" /\ Wide
    /\ LET m == (l + r) \div 2
       IN  IF Colder(termo_table[m]) THEN r' = m /\ UNCHANGED l
                                     ELSE l' = m /\ UNCHANGED r
    /\ UNCHANGED <<pc, NTC_Parametr, termo_table, sample, adcsum, res, outside, prev>>

\* Mutant: the division truncates.
Bug_Truncates(vd, dv) == (NTC_Parametr.step * dv) \div vd

\* Mutant: the distance is taken from the other entry.
Bug_FromTheTop(vd, dv) == (NTC_Parametr.step * (vd - dv) + vd \div 2) \div vd

\* Degrees below entry r of a code that is dv above it.
Interpolated(vd, dv) == (NTC_Parametr.step * dv + vd \div 2) \div vd

\* The part after the loop.
Interpolate ==
    /\ pc = "search" /\ ~Wide
    /\ LET vl == termo_table[l]
           vr == termo_table[r]
           vd == (vl - vr) % EntryRange
       IN  Return(IF adcsum >= vl THEN Temperature(l)
                  ELSE IF vd = 0 THEN Temperature(r)
                  ELSE Temperature(r) - Interpolated(vd, adcsum - vr))
    /\ UNCHANGED <<NTC_Parametr, termo_table, sample, adcsum, l, r, outside, prev>>

Next ==
    \/ calculate_table_NTC
    \/ \E v \in Sample : calc_temperature(v)
    \/ Bisect
    \/ Interpolate

Spec == Init /\ [][Next]_vars
\* The ADC task runs to the end of the conversion it has started.
FairSpec == Spec /\ WF_vars(Bisect \/ Interpolate)
================================================================================
