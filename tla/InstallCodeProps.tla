--------------------------- MODULE InstallCodeProps ---------------------------
(***************************************************************************)
(* What a coordinator needs of the install code: that the sensor has one,  *)
(* and that its checksum is the standard's.                                *)
(***************************************************************************)
EXTENDS InstallCode

\* Polynomials over the bits, as sets of exponents: products with a power of x,
\* sums, and the remainder by the generator of X.25, from the highest term down.
Times(p, n) == {e + n : e \in p}
Sum2(p, q) == (p \ q) \cup (q \ p)
Generator == {16, 12, 5, 0}
Without(d) == [p \in SUBSET Nat |-> IF d \in p THEN Sum2(p, Times(Generator, d - 16)) ELSE p]
Remainder(p, highest) ==
    LET Rest[n \in 0..(highest - 15)] ==
            IF n = 0 THEN p ELSE Without(highest + 1 - n)[Rest[n - 1]]
    IN  Rest[highest - 15]

\* The lowest bit of a byte is sent first.
Message(data) ==
    {e \in 0..(8 * Len(data) - 1) :
        LET n == 8 * Len(data) - 1 - e
        IN  (data[(n \div 8) + 1] \div 2^(n % 8)) % 2 = 1}

\* X.25: the remainder of the message, its first 16 bits inverted, inverted.
FrameCheck(data) ==
    LET first == Times(0..15, 8 * Len(data))
        rest == (0..15) \ Remainder(Sum2(Times(Message(data), 16), first),
                                        8 * Len(data) + 15)
    IN  {e \in 0..15 : 15 - e \in rest}

\* The checksum is the X.25 frame check sequence of the standard, by its
\* definition as a division of polynomials.
StandardChecksum ==
    Len(ic) = 18 =>
        Bits(ic[17] + 256 * ic[18]) = FrameCheck(SubSeq(ic, 1, ZB_CCM_KEY_SIZE))

\* With the mode that asks for it, the stack has an install code when main goes
\* on.  The result of zb_secur_ic_set is ignored and a refused code would leave
\* a device that never joins: the checksum must fit the copy, and be the
\* standard's, whatever is written to the registers while they are read.
CodeInstalled ==
    /\ pc = "done" /\ ic # <<>> => install_code = ic
    /\ StandardChecksum

\* A code read without a write in between is the one in the registers as it is
\* printed on a device, high bytes first; and the address is the registers'.
\* With writes it may be of two codes, a word of one and the next of the other.
CodeAsSet ==
    pc = "done" /\ writes = 0 =>
        /\ Mode(ZI_SET_MODE_BIT_SET_CODE) =>
              \A k \in 1..8 : reg[79 + k] = 256 * install_code[2 * k - 1] + install_code[2 * k]
        /\ \A k \in 1..8 :
              long_address[k] = IF Mode(ZI_SET_MODE_BIT_SET_FICR_ADDR)
                                THEN reg[59 + k] ELSE reg[69 + k] % 256
================================================================================
