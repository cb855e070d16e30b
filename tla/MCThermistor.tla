----------------------------- MODULE MCThermistor -----------------------------
(***************************************************************************)
(* The curves of Thermistor for TLC: all that do not rise, up to the       *)
(* number of ADC codes, as the resistance of an NTC falls with             *)
(* temperature.                                                            *)
(***************************************************************************)
EXTENDS ThermistorProps

CONSTANT Codes

MCIndex == 0..(TemperatureTableSize - 1)
MCCurve == {c \in [MCIndex -> 0..(Codes - 1)] :
               \A i, j \in MCIndex : i <= j => c[i] >= c[j]}
\* A single-ended input at 0 V may read as -1.
MCSignedSample == -1..(Codes - 1)
MCStart == {-2}
================================================================================
