------------------------------- MODULE MCAdcTask -------------------------------
(***************************************************************************)
(* The batches of AdcTask for TLC: all that hold two different codes.  A   *)
(* network of comparisons that finds the median of all of these finds it   *)
(* for any codes (the 0-1 principle).                                      *)
(***************************************************************************)
EXTENDS AdcTaskProps

MCCode == {-3, 2}
MCBatch == [Pixel -> MCCode]
MCConverted(v) == 20 - v
================================================================================
