----------------------------- MODULE AdcTaskProps ------------------------------
(***************************************************************************)
(* What the measuring task of module AdcTask promises.                     *)
(***************************************************************************)
EXTENDS AdcTask

Sorted == pc = "sleep"

\* The network only rearranges the samples: none is lost and none is doubled.
Rearranged ==
    \A v \in Code : Cardinality({i \in Pixel : p[i] = v}) =
                    Cardinality({i \in Pixel : sample_buffer[i] = v})

\* The nineteen comparisons leave the median in the middle: at least five samples
\* are not above it and at least five are not below it.
FindsMedian ==
    /\ Rearranged
    /\ Sorted =>
          /\ Cardinality({i \in Pixel : sample_buffer[i] <= p[4]}) >= 5
          /\ Cardinality({i \in Pixel : sample_buffer[i] >= p[4]}) >= 5

\* Up to four wild samples of every nine have no effect: if in every batch since
\* the start five samples or more lay in an interval, so does the filtered value.
\* Neither the network nor the filter's rounding ever leaves it.
SpikesRejected ==
    Sorted => \A ab \in steady : ab[1] <= Adc_Filter_Value /\ Adc_Filter_Value <= ab[2]

Majority(v) == Cardinality({i \in Pixel : sample_buffer[i] = v}) > 4

\* Once the input is steady, the filter comes to rest within three codes below it:
\* rounding down never holds it further away, and never above.
Settles ==
    \A v \in Code :
        <>[]Majority(v) => <>[](pc = "ended" \/ Adc_Filter_Value \in (v - 3)..v)
================================================================================
