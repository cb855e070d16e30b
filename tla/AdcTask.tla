-------------------------------- MODULE AdcTask --------------------------------
(***************************************************************************)
(* The measuring task (src/io_adc.c): nine samples are taken, a network of *)
(* comparisons finds their median, a first-order filter smooths it, and    *)
(* the result is converted and stored in ADC_Value_T and the Modbus        *)
(* register.  One failed read ends the task.                               *)
(*                                                                         *)
(* One channel, as in boards/nrf52840dk_nrf52840.overlay.  The conversion  *)
(* is module Thermistor's; here it is any function.                        *)
(***************************************************************************)
EXTENDS Integers, Sequences, FiniteSets

CONSTANTS
    Code,        \* ADC codes, signed
    Batch,       \* contents the driver may leave in sample_buffer
    Converted(_) \* calc_temperature: the conversion of a filtered code

Pixel == 0..8

ASSUME CodeAssumption == Code \subseteq Int
ASSUME BatchAssumption == Batch \subseteq [Pixel -> Code]
ASSUME ConversionAssumption == \A a, b \in Code : \A v \in a..b : Converted(v) \in Int

VARIABLES
    pc,                \* "none", "read", "sort", "sleep" or "ended"
    sample_buffer,
    p,                 \* the copy that io_getADCval sorts
    k,                 \* the next PIX_SORT, counted from 1
    first,             \* the first measurement is not filtered
    Adc_Filter_Value,
    ADC_Value_T,
    Reg_T_0_Channel,
    steady             \* history: see Steady

vars == <<pc, sample_buffer, p, k, first, Adc_Filter_Value, ADC_Value_T,
          Reg_T_0_Channel, steady>>

Init ==
    /\ pc = "none"
    /\ sample_buffer = [i \in Pixel |-> 0]
    /\ p = [i \in Pixel |-> 0]
    /\ k = 1
    /\ first = TRUE
    /\ Adc_Filter_Value = 0 /\ ADC_Value_T = 0 /\ Reg_T_0_Channel = 0
    /\ steady = Code \X Code

\* io_adc_init: without a device there is no task.
io_adc_init ==
    /\ pc = "none"
    /\ pc' = "read"
    /\ UNCHANGED <<sample_buffer, p, k, first, Adc_Filter_Value, ADC_Value_T,
                   Reg_T_0_Channel, steady>>

\* Of the intervals s, those that the greater part of batch b lies in.  The
\* history variable keeps the intervals this is true of in every batch so far.
Steady(s, b) == {ab \in s : Cardinality({i \in Pixel : ab[1] <= b[i] /\ b[i] <= ab[2]}) > 4}

\* adc_read has filled the buffer; io_getADCval copies it.
adc_read(b) ==
    /\ pc = "read"
    /\ sample_buffer' = b
    /\ p' = b
    /\ k' = 1
    /\ pc' = "sort"
    /\ steady' = Steady(steady, b)
    /\ UNCHANGED <<first, Adc_Filter_Value, ADC_Value_T, Reg_T_0_Channel>>

adc_read_failed ==
    /\ pc = "read"
    /\ pc' = "ended"
    /\ UNCHANGED <<sample_buffer, p, k, first, Adc_Filter_Value, ADC_Value_T,
                   Reg_T_0_Channel, steady>>

\* Mutant: the last comparison is left out.
Bug_OneShort ==
    << <<1, 2>>, <<4, 5>>, <<7, 8>>, <<0, 1>>, <<3, 4>>, <<6, 7>>, <<1, 2>>, <<4, 5>>,
       <<7, 8>>, <<0, 3>>, <<5, 8>>, <<4, 7>>, <<3, 6>>, <<1, 4>>, <<2, 5>>, <<4, 7>>,
       <<4, 2>>, <<6, 4>> >>

\* The pairs of the PIX_SORT calls, in order.
Network ==
    << <<1, 2>>, <<4, 5>>, <<7, 8>>,
       <<0, 1>>, <<3, 4>>, <<6, 7>>,
       <<1, 2>>, <<4, 5>>, <<7, 8>>,
       <<0, 3>>, <<5, 8>>, <<4, 7>>,
       <<3, 6>>, <<1, 4>>, <<2, 5>>,
       <<4, 7>>, <<4, 2>>, <<6, 4>>,
       <<4, 2>> >>

Swapped(a, b) == [p EXCEPT ![a] = p[b], ![b] = p[a]]

PIX_SORT ==
    /\ pc = "sort" /\ k <= Len(Network)
    /\ LET a == Network[k][1]
           b == Network[k][2]
       IN  p' = IF p[a] > p[b] THEN Swapped(a, b) ELSE p
    /\ k' = k + 1
    /\ UNCHANGED <<pc, sample_buffer, first, Adc_Filter_Value, ADC_Value_T,
                   Reg_T_0_Channel, steady>>

\* Mutants: the weights add up to three, the division rounds up.
Bug_Loses(v) == (Adc_Filter_Value * 2 + v) \div 4
Bug_RoundsUp(v) == (Adc_Filter_Value * 3 + v + 3) \div 4

\* Shifting right rounds down, below zero as well.
Filtered(v) == (Adc_Filter_Value * 3 + v) \div 4

\* The rest of a turn, once the median is found.
io_adc_task ==
    /\ pc = "sort" /\ k > Len(Network)
    /\ Adc_Filter_Value' = IF first THEN p[4] ELSE Filtered(p[4])
    /\ ADC_Value_T' = Converted(Adc_Filter_Value')
    /\ Reg_T_0_Channel' = ADC_Value_T'
    /\ first' = FALSE
    /\ pc' = "sleep"
    /\ UNCHANGED <<sample_buffer, p, k, steady>>

\* The end of k_sleep(ADC_PAUSE_MS).
Wake ==
    /\ pc = "sleep"
    /\ pc' = "read"
    /\ UNCHANGED <<sample_buffer, p, k, first, Adc_Filter_Value, ADC_Value_T,
                   Reg_T_0_Channel, steady>>

Read == adc_read_failed \/ \E b \in Batch : adc_read(b)

Next == io_adc_init \/ Read \/ PIX_SORT \/ io_adc_task \/ Wake

Spec == Init /\ [][Next]_vars
\* The task is cooperative and adc_read returns, with samples or an error.
FairSpec == Spec /\ WF_vars(Read) /\ WF_vars(PIX_SORT) /\ WF_vars(io_adc_task) /\ WF_vars(Wake)
================================================================================
