---------------------------- MODULE ThermistorProps ----------------------------
(***************************************************************************)
(* What the conversion of module Thermistor promises.                      *)
(***************************************************************************)
EXTENDS Thermistor

number == NTC_Parametr.number
Labels == {TEMPERATURE_OVER, TEMPERATURE_UNDER}

\* The types of the variables.  The number of entries never exceeds the table.
TypeOK ==
    /\ pc \in {"boot", "idle", "search"}
    /\ NTC_Parametr \in [number : 0..TemperatureTableSize, step : Nat, start : Int]
    /\ termo_table \in [Index -> Entry]
    /\ sample \in Int /\ adcsum \in Entry
    /\ l \in Nat /\ r \in Nat /\ res \in Int
    /\ outside \in BOOLEAN
    /\ prev \in [adcsum : Entry, res : Int]

\* The search never reads outside the computed entries; only an empty table
\* (number of steps 0, which its limits allow) is read beyond its end, once per
\* conversion and before the search.
ReadsInside ==
    /\ pc = "search" => l < r /\ r < number
    /\ outside => number = 0

\* While it searches, the code lies between the entries at l and r: whatever the
\* curve, the loop closes in on a pair of neighbours around the code.
Bracketed == pc = "search" => termo_table[r] < adcsum /\ adcsum <= termo_table[l]

\* A temperature is a label, or the nearest degree on the line between two
\* neighbouring entries around the code: no step of the table is off by one, and
\* rounding is to nearest.
Nearest(i, code, value) ==
    LET vd == termo_table[i] - termo_table[i + 1]
        dv == code - termo_table[i + 1]
        below == Temperature(i + 1) - value
    IN  /\ 0 <= dv /\ dv <= vd
        /\ 2 * (below * vd - NTC_Parametr.step * dv) <= vd
        /\ 2 * (NTC_Parametr.step * dv - below * vd) <= vd

OnTheCurve ==
    pc = "idle" /\ res \notin Labels /\ number > 1
        => \E i \in 0..(number - 2) : Nearest(i, adcsum, res)

\* A larger code is never a higher temperature, from one conversion to the next:
\* neither at the entries, where the exact cases and the interpolation meet, nor
\* on flat stretches of the table.
FallsWithCode ==
    pc = "idle" /\ number > 0 /\ res \notin Labels /\ prev.res \notin Labels
        => (prev.adcsum <= adcsum => prev.res >= res)

\* A conversion that has started ends.
Terminates == pc = "search" ~> pc = "idle"

\* What measure_NTC.h says of TEMPERATURE_OVER: the value returned if the sum of
\* the ADC results is less than the last value of the table.
OverBelowTable ==
    pc = "idle" /\ number > 0
        => (sample < termo_table[number - 1] => res = TEMPERATURE_OVER)
================================================================================
