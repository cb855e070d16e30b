-------------------------------- MODULE MCEmfat --------------------------------
(***************************************************************************)
(* A disk with sectors of four bytes, so that the files have one, two and  *)
(* three clusters (3, 4-5 and 6-8) and the directory two sectors.          *)
(***************************************************************************)
EXTENDS EmfatProps

\* Both FATs, every data sector, and one before and two behind them.
MCProbed == {1, 63} \cup 64..(66 + 16)
================================================================================
