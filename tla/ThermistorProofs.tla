--------------------------- MODULE ThermistorProofs ---------------------------
(***************************************************************************)
(* For every table, code and size: the search stays inside the table, it   *)
(* closes in on the entries around the code, and the result is the nearest *)
(* degree on the line between them.                                        *)
(***************************************************************************)
EXTENDS ThermistorProps, TLAPS

Falling ==
    \A i, j \in 0..(number - 1) : i <= j => termo_table[i] >= termo_table[j]

\* An empty table is never searched, as its entries are 0.
EmptyTable == number = 0 => termo_table[0] = 0

\* Nothing has been converted before the table is computed.
AtBoot == pc = "boot" => res \in Labels /\ ~outside

IInv == TypeOK /\ AtBoot /\ EmptyTable /\ ReadsInside /\ Bracketed /\ Falling /\ OnTheCurve

--------------------------------------------------------------------------------
\* Dividing with half the divisor added rounds to the nearest quotient.
LEMMA Rounding ==
    ASSUME NEW x \in Nat, NEW d \in Nat, d > 0, NEW q, q = (x + d \div 2) \div d
    PROVE  /\ q \in Int
           /\ 2 * (q * d - x) <= d
           /\ 2 * (x - q * d) <= d
  <1> DEFINE h == d \div 2
             a == x + h
  <1>1. h \in Nat /\ 2 * h <= d /\ d <= 2 * h + 1
    BY SMT
  <1> HIDE DEF h
  <1>2. a \in Nat
    BY <1>1
  <1> HIDE DEF a
  <1>3. \E m \in 0..(d - 1) : a \div d \in Int /\ a = d * (a \div d) + m
    BY <1>2, SMT
  <1>4. q = a \div d
    BY DEF a, h
  <1>5. PICK m \in 0..(d - 1) : q \in Int /\ a = d * q + m
    BY <1>3, <1>4
  <1>6. d * q = q * d /\ q * d \in Int
    BY <1>5
  <1> DEFINE p == q * d
  <1>7. p \in Int /\ a = p + m /\ m \in Int /\ 0 <= m /\ m <= d - 1
    BY <1>5, <1>6
  <1> HIDE DEF p
  <1>8. 2 * (p - x) <= d /\ 2 * (x - p) <= d
    BY <1>1, <1>7 DEF a
  <1> QED  BY <1>5, <1>8 DEF p

LEMMA LastIndexInside ==
    ASSUME TypeOK
    PROVE  /\ number \in 0..TemperatureTableSize
           /\ LastIndex \in Nat
           /\ number > 0 => LastIndex = number - 1 /\ LastIndex \in Index
  <1>1. number \in 0..TemperatureTableSize
    BY DEF TypeOK, number
  <1>2. /\ TemperatureTableSize \in Nat /\ IndexRange \in Nat /\ IndexRange > 0
        /\ TemperatureTableSize <= IndexRange
    BY TableAssumption
  <1>3. (number - 1) % IndexRange \in Nat
    BY <1>1, <1>2
  <1>4. number > 0 => (number - 1) % IndexRange = number - 1
    BY <1>1, <1>2
  <1> QED  BY <1>1, <1>2, <1>3, <1>4 DEF LastIndex, number, Index

LEMMA EntriesFacts ==
    ASSUME TypeOK
    PROVE  \A i \in Index : termo_table[i] \in Int /\ 0 <= termo_table[i]
                            /\ termo_table[i] < EntryRange
  BY TableAssumption DEF TypeOK, Entry

LEMMA TemperatureType ==
    ASSUME TypeOK, NEW i \in Int
    PROVE  /\ NTC_Parametr.step \in Nat /\ Temperature(i) \in Int
           /\ Temperature(i + 1) - Temperature(i) = NTC_Parametr.step
  <1> DEFINE st == NTC_Parametr.step
             b == NTC_Parametr.start
  <1>1. st \in Nat /\ b \in Int
    BY DEF TypeOK
  <1> HIDE DEF st, b
  <1>2. st * i \in Int /\ st * (i + 1) = st * i + st
    BY <1>1
  <1>3. (st * i + b) \in Int /\ (st * (i + 1) + b) - (st * i + b) = st
    BY <1>1, <1>2
  <1> QED  BY <1>1, <1>3 DEF Temperature, st, b

\* A code that meets entry i exactly.
LEMMA NearestAtTop ==
    ASSUME TypeOK, Falling, NEW i \in 0..(number - 2), number > 1,
           NEW code, code = termo_table[i], NEW value, value = Temperature(i)
    PROVE  Nearest(i, code, value)
  <1> DEFINE vd == termo_table[i] - termo_table[i + 1]
             st == NTC_Parametr.step
  <1>1. i \in Index /\ i + 1 \in Index /\ i \in 0..(number - 1) /\ i + 1 \in 0..(number - 1)
    BY TableAssumption DEF TypeOK, number, Index
  <1>2. vd \in Int /\ 0 <= vd
    BY <1>1, EntriesFacts DEF Falling
  <1>3. Temperature(i + 1) - value = st /\ st \in Nat
    BY <1>1, TemperatureType DEF Index
  <1>4. code - termo_table[i + 1] = vd
    OBVIOUS
  <1> HIDE DEF vd, st
  <1>5. st * vd \in Int
    BY <1>2, <1>3
  <1>6. 2 * (st * vd - st * vd) <= vd
    BY <1>2, <1>5
  <1> QED  BY <1>2, <1>3, <1>4, <1>6 DEF Nearest, vd, st

\* A code that meets the entry below.
LEMMA NearestAtBottom ==
    ASSUME TypeOK, Falling, NEW i \in 0..(number - 2), number > 1,
           NEW code, code = termo_table[i + 1], NEW value, value = Temperature(i + 1)
    PROVE  Nearest(i, code, value)
  <1> DEFINE vd == termo_table[i] - termo_table[i + 1]
             st == NTC_Parametr.step
  <1>1. i \in Index /\ i + 1 \in Index /\ i \in 0..(number - 1) /\ i + 1 \in 0..(number - 1)
    BY TableAssumption DEF TypeOK, number, Index
  <1>2. vd \in Int /\ 0 <= vd /\ code - termo_table[i + 1] = 0
    BY <1>1, EntriesFacts DEF Falling
  <1>3. Temperature(i + 1) - value = 0 /\ st \in Nat
    BY <1>1, TemperatureType DEF Index
  <1> HIDE DEF vd, st
  <1>4. 0 * vd = 0 /\ st * 0 = 0
    BY <1>2, <1>3
  <1> QED  BY <1>2, <1>3, <1>4 DEF Nearest, vd, st

\* A code between the two.
LEMMA NearestBetween ==
    ASSUME TypeOK, NEW i \in 0..(number - 2), number > 1,
           NEW code \in Entry, termo_table[i + 1] < code, code < termo_table[i],
           NEW value,
           value = Temperature(i + 1)
                 - Interpolated(termo_table[i] - termo_table[i + 1],
                                code - termo_table[i + 1])
    PROVE  Nearest(i, code, value)
  <1> DEFINE vd == termo_table[i] - termo_table[i + 1]
             dv == code - termo_table[i + 1]
             st == NTC_Parametr.step
             q == Interpolated(vd, dv)
  <1>1. i \in Index /\ i + 1 \in Index
    BY TableAssumption DEF TypeOK, number, Index
  <1>2. vd \in Nat /\ vd > 0 /\ dv \in Nat /\ 0 <= dv /\ dv <= vd
    BY <1>1, EntriesFacts DEF TypeOK, Entry
  <1>3. st \in Nat /\ Temperature(i + 1) \in Int
    BY <1>1, TemperatureType DEF Index
  <1>4. q = (st * dv + vd \div 2) \div vd
    BY DEF Interpolated
  <1>5. value = Temperature(i + 1) - q
    OBVIOUS
  <1> HIDE DEF vd, dv, st, q
  <1>6. st * dv \in Nat
    BY <1>2, <1>3
  <1>7. q \in Int /\ 2 * (q * vd - st * dv) <= vd /\ 2 * (st * dv - q * vd) <= vd
    BY <1>2, <1>4, <1>6, Rounding
  <1>8. Temperature(i + 1) - value = q
    BY <1>3, <1>5, <1>7
  <1> QED  BY <1>2, <1>7, <1>8 DEF Nearest, vd, dv, st

--------------------------------------------------------------------------------
\* Every step keeps the invariant.

LEMMA TableStep ==
    ASSUME IInv, calculate_table_NTC
    PROVE  IInv'
  <1>1. PICK n \in NumberStep, step \in StepTemperature, start \in StartTemperature :
          NTC_Parametr' = [number |-> Clamped(n), step |-> step, start |-> start]
    BY DEF calculate_table_NTC
  <1>2. PICK c \in Curve :
          termo_table' = [i \in Index |-> IF i < NTC_Parametr'.number THEN c[i] ELSE 0]
    BY DEF calculate_table_NTC
  <1>3. /\ pc' = "idle"
        /\ UNCHANGED <<sample, adcsum, l, r, res, outside, prev>>
    BY DEF calculate_table_NTC
  <1>4. n \in Nat /\ step \in Nat /\ start \in Int /\ c \in [Index -> Entry]
    BY DataAssumption
  <1>5. Clamped(n) \in 0..TemperatureTableSize
    BY <1>4, TableAssumption DEF Clamped
  <1>6. number' \in 0..TemperatureTableSize
    BY <1>1, <1>5 DEF number
  <1>7. TypeOK'
    <2>1. termo_table' \in [Index -> Entry]
      BY <1>2, <1>4, TableAssumption DEF Entry
    <2>2. NTC_Parametr' \in [number : 0..TemperatureTableSize, step : Nat, start : Int]
      BY <1>1, <1>4, <1>5
    <2> QED  BY <1>3, <2>1, <2>2 DEF TypeOK, IInv
  <1>8. \A i \in 0..(number' - 1) : i \in Index /\ termo_table'[i] = c[i]
    BY <1>2, <1>6, TableAssumption DEF Index, number
  <1>9. Falling'
    BY <1>8, CurveAssumption DEF Falling
  <1>10. EmptyTable'
    <2>1. 0 \in Index
      BY TableAssumption DEF Index
    <2> QED  BY <1>2, <2>1 DEF EmptyTable, number
  <1>11. res' \in Labels /\ ~outside'
    BY <1>3 DEF IInv, AtBoot, calculate_table_NTC
  <1> QED  BY <1>3, <1>7, <1>9, <1>10, <1>11
           DEF IInv, AtBoot, ReadsInside, Bracketed, OnTheCurve, Labels

\* The part before the loop.
LEMMA ConvertStep ==
    ASSUME IInv, NEW v \in Sample, calc_temperature(v)
    PROVE  IInv'
  <1>1. TypeOK /\ EmptyTable /\ Falling /\ ReadsInside
    BY DEF IInv
  <1>2. /\ sample' = v /\ adcsum' = v % EntryRange
        /\ prev' = [adcsum |-> adcsum, res |-> res]
        /\ outside' = (outside \/ LastIndex \notin Index)
        /\ l' = 0 /\ r' = LastIndex
        /\ UNCHANGED <<NTC_Parametr, termo_table>>
    BY DEF calc_temperature
  <1>3. /\ number \in 0..TemperatureTableSize /\ LastIndex \in Nat
        /\ number > 0 => LastIndex = number - 1 /\ LastIndex \in Index
    BY <1>1, LastIndexInside
  <1>4. v \in Int /\ adcsum' \in Entry
    BY <1>2, DataAssumption, TableAssumption DEF Entry
  <1>5. PICK thigh \in Read(LastIndex) :
          \/ adcsum' < thigh /\ Return(TEMPERATURE_OVER)
          \/ adcsum' = thigh /\ Return(Temperature(LastIndex))
          \/ /\ adcsum' > thigh
             /\ \/ adcsum' > termo_table[0] /\ Return(TEMPERATURE_UNDER)
                \/ adcsum' = termo_table[0] /\ Return(Temperature(0))
                \/ adcsum' < termo_table[0] /\ pc' = "search" /\ UNCHANGED res
    BY DEF calc_temperature
  <1>6. number > 0 => thigh = termo_table[number - 1]
    BY <1>3, <1>5 DEF Read
  <1>7. Temperature(LastIndex) \in Int /\ Temperature(0) \in Int
    BY <1>1, <1>3, TemperatureType
  <1>8. pc' \in {"idle", "search"} /\ res' \in Int
    BY <1>1, <1>5, <1>7 DEF Return, TypeOK, TEMPERATURE_OVER, TEMPERATURE_UNDER
  <1>9. TypeOK'
    BY <1>1, <1>2, <1>3, <1>4, <1>8 DEF TypeOK
  <1>10. (Falling /\ EmptyTable)'
    BY <1>1, <1>2 DEF Falling, EmptyTable, number
  <1>11. AtBoot'
    BY <1>8 DEF AtBoot
  <1>12. ASSUME pc' = "search"
         PROVE  /\ number > 0 /\ LastIndex = number - 1 /\ 0 < LastIndex
                /\ thigh < adcsum' /\ adcsum' < termo_table[0]
    <2>1. adcsum' > thigh /\ adcsum' < termo_table[0]
      BY <1>5, <1>12 DEF Return
    <2>2. number > 0
      BY <1>1, <1>3, <1>4, <2>1, TableAssumption DEF EmptyTable, Entry
    <2>3. number - 1 # 0
      <3> SUFFICES ASSUME number - 1 = 0 PROVE FALSE
        OBVIOUS
      <3>1. thigh = termo_table[0]
        BY <1>6, <2>2
      <3>2. 0 \in Index
        BY TableAssumption DEF Index
      <3> QED  BY <1>1, <1>4, <2>1, <3>1, <3>2, EntriesFacts DEF Entry
    <2> QED  BY <1>3, <2>1, <2>2, <2>3
  <1>13. ReadsInside'
    <2>1. outside' => number = 0
      <3>1. CASE outside
        BY <1>1, <3>1 DEF ReadsInside
      <3>2. CASE ~outside /\ LastIndex \notin Index
        BY <1>3, <3>2
      <3>3. CASE ~outside /\ LastIndex \in Index
        BY <1>2, <3>3
      <3> QED  BY <3>1, <3>2, <3>3
    <2> QED  BY <1>2, <1>3, <1>12, <2>1 DEF ReadsInside, number
  <1>14. Bracketed'
    <2> SUFFICES ASSUME pc' = "search"
                 PROVE  termo_table[LastIndex] < adcsum' /\ adcsum' <= termo_table[0]
      BY <1>2 DEF Bracketed
    <2>1. thigh = termo_table[LastIndex] /\ thigh < adcsum' /\ adcsum' < termo_table[0]
      BY <1>6, <1>12
    <2>2. 0 \in Index
      BY TableAssumption DEF Index
    <2> QED  BY <1>1, <1>4, <2>1, <2>2, EntriesFacts DEF Entry
  <1>15. OnTheCurve'
    <2> SUFFICES ASSUME pc' = "idle", res' \notin Labels, number > 1
                 PROVE  \E i \in 0..(number - 2) : Nearest(i, adcsum', res')
      BY <1>2 DEF OnTheCurve, number, Nearest, Temperature
    <2>1. CASE adcsum' = thigh /\ res' = Temperature(LastIndex)
      <3> DEFINE i == number - 2
      <3>1. i \in 0..(number - 2) /\ i + 1 = LastIndex /\ i + 1 = number - 1
        BY <1>3
      <3>2. adcsum' = termo_table[i + 1] /\ res' = Temperature(i + 1)
        BY <1>3, <1>6, <2>1, <3>1
      <3> HIDE DEF i
      <3> QED  BY <1>1, <3>1, <3>2, NearestAtBottom
    <2>2. CASE adcsum' = termo_table[0] /\ res' = Temperature(0)
      <3>1. 0 \in 0..(number - 2)
        BY <1>3
      <3> QED  BY <1>1, <2>2, <3>1, NearestAtTop
    <2> QED  BY <1>5, <2>1, <2>2 DEF Return, Labels
  <1> QED  BY <1>9, <1>10, <1>11, <1>13, <1>14, <1>15 DEF IInv

LEMMA BisectStep ==
    ASSUME IInv, Bisect
    PROVE  IInv'
  <1> DEFINE m == (l + r) \div 2
  <1>1. /\ TypeOK /\ pc = "search" /\ l < r /\ r < number /\ r - l > 1
        /\ termo_table[r] < adcsum /\ adcsum <= termo_table[l]
        /\ UNCHANGED <<pc, NTC_Parametr, termo_table, sample, adcsum, res, outside, prev>>
    BY DEF IInv, ReadsInside, Bracketed, Bisect, Wide
  <1>2. l \in Nat /\ r \in Nat /\ number \in 0..TemperatureTableSize
    BY <1>1, LastIndexInside DEF TypeOK
  <1>3. m \in Nat /\ l < m /\ m < r
    BY <1>1, <1>2
  <1>4. m \in Index
    BY <1>1, <1>2, <1>3, TableAssumption DEF Index
  <1>5. \/ r' = m /\ l' = l /\ adcsum > termo_table[m]
        \/ l' = m /\ r' = r /\ ~(adcsum > termo_table[m])
    BY DEF Bisect, Colder
  <1> HIDE DEF m
  <1>6. /\ l' \in Nat /\ r' \in Nat /\ l' < r' /\ r' < number
        /\ termo_table[r'] < adcsum /\ adcsum <= termo_table[l']
    BY <1>1, <1>2, <1>3, <1>4, <1>5, EntriesFacts DEF TypeOK, Entry
  <1>7. TypeOK'
    BY <1>1, <1>6 DEF TypeOK
  <1>8. ReadsInside' /\ Bracketed'
    BY <1>1, <1>6 DEF IInv, ReadsInside, Bracketed, number
  <1> QED  BY <1>1, <1>7, <1>8 DEF IInv, AtBoot, EmptyTable, Falling, OnTheCurve, number

\* When the search has narrowed down to two neighbours, the subtraction of their
\* entries does not wrap around.
LEMMA Narrowed ==
    ASSUME IInv, Interpolate
    PROVE  LET vd == termo_table[l] - termo_table[r]
               dv == adcsum - termo_table[r]
           IN  /\ TypeOK /\ Falling /\ pc = "search" /\ pc' = "idle"
               /\ UNCHANGED <<NTC_Parametr, termo_table, sample, adcsum, l, r, outside, prev>>
               /\ r = l + 1 /\ l \in 0..(number - 2) /\ number > 1
               /\ l \in Nat /\ l \in Index /\ r \in Index
               /\ adcsum \in Entry /\ adcsum \in Int
               /\ termo_table[l] \in Int /\ termo_table[r] \in Int
               /\ termo_table[r] < adcsum /\ adcsum <= termo_table[l]
               /\ vd \in Nat /\ vd > 0 /\ dv \in Nat
               /\ res' = IF adcsum >= termo_table[l] THEN Temperature(l)
                         ELSE Temperature(r) - Interpolated(vd, dv)
  <1> DEFINE vd == termo_table[l] - termo_table[r]
             dv == adcsum - termo_table[r]
  <1>1. /\ TypeOK /\ Falling /\ pc = "search" /\ l < r /\ r < number /\ ~(r - l > 1)
        /\ termo_table[r] < adcsum /\ adcsum <= termo_table[l]
        /\ pc' = "idle"
        /\ UNCHANGED <<NTC_Parametr, termo_table, sample, adcsum, l, r, outside, prev>>
    BY DEF IInv, ReadsInside, Bracketed, Interpolate, Wide, Return
  <1>2. /\ l \in Nat /\ r \in Nat /\ number \in 0..TemperatureTableSize
        /\ r = l + 1 /\ l \in 0..(number - 2) /\ number > 1
        /\ l \in Index /\ r \in Index
    BY <1>1, LastIndexInside, TableAssumption DEF TypeOK, Index
  <1>3. adcsum \in Entry /\ adcsum \in Int
    BY <1>1, TableAssumption DEF TypeOK, Entry
  <1>4. /\ termo_table[l] \in Int /\ termo_table[l] < EntryRange
        /\ termo_table[r] \in Int /\ 0 <= termo_table[r]
    BY <1>1, <1>2, EntriesFacts
  <1>5. vd \in Nat /\ vd > 0 /\ vd < EntryRange /\ vd % EntryRange = vd /\ dv \in Nat
    BY <1>1, <1>3, <1>4, TableAssumption
  <1>6. res' = IF adcsum >= termo_table[l] THEN Temperature(l)
               ELSE Temperature(r) - Interpolated(vd, dv)
    BY <1>5 DEF Interpolate, Return
  <1> QED  BY <1>1, <1>2, <1>3, <1>4, <1>5, <1>6

LEMMA InterpolateStep ==
    ASSUME IInv, Interpolate
    PROVE  IInv'
  <1> DEFINE vd == termo_table[l] - termo_table[r]
             dv == adcsum - termo_table[r]
  <1>1. /\ TypeOK /\ Falling /\ pc' = "idle"
        /\ termo_table[r] < adcsum /\ adcsum <= termo_table[l]
        /\ UNCHANGED <<NTC_Parametr, termo_table, sample, adcsum, l, r, outside, prev>>
    BY Narrowed
  <1>2. /\ r = l + 1 /\ l \in 0..(number - 2) /\ number > 1
        /\ l \in Nat /\ l \in Index /\ r \in Index
    BY Narrowed
  <1>3. adcsum \in Entry /\ adcsum \in Int
    BY Narrowed
  <1>4. termo_table[l] \in Int /\ termo_table[r] \in Int
    BY Narrowed
  <1>5. vd \in Nat /\ vd > 0 /\ dv \in Nat
    BY Narrowed
  <1>6. res' = IF adcsum >= termo_table[l] THEN Temperature(l)
               ELSE Temperature(r) - Interpolated(vd, dv)
    BY Narrowed
  <1>7. Nearest(l, adcsum, res') /\ res' \in Int
    <2>1. CASE adcsum = termo_table[l]
      <3>1. res' = Temperature(l)
        BY <1>4, <1>6, <2>1
      <3> QED  BY <1>1, <1>2, <2>1, <3>1, NearestAtTop, TemperatureType
    <2>2. CASE adcsum < termo_table[l]
      <3>1. res' = Temperature(l + 1) - Interpolated(termo_table[l] - termo_table[l + 1],
                                                    adcsum - termo_table[l + 1])
        BY <1>2, <1>3, <1>4, <1>6, <2>2
      <3>2. Nearest(l, adcsum, res')
        BY <1>1, <1>2, <1>3, <2>2, <3>1, NearestBetween
      <3>3. Interpolated(vd, dv) \in Int
        <4>1. dv \in Nat /\ NTC_Parametr.step \in Nat
          BY <1>1, <1>3, <1>4 DEF TypeOK
        <4> HIDE DEF vd, dv
        <4>2. NTC_Parametr.step * dv \in Nat
          BY <4>1
        <4> QED  BY <1>5, <4>2, Rounding DEF Interpolated
      <3>4. Temperature(r) \in Int
        BY <1>1, <1>2, TemperatureType
      <3> HIDE DEF vd, dv
      <3> QED  BY <1>2, <1>3, <1>4, <1>6, <2>2, <3>2, <3>3, <3>4
    <2> QED  BY <1>1, <1>3, <1>4, <2>1, <2>2
  <1> HIDE DEF vd, dv
  <1>8. TypeOK'
    BY <1>1, <1>7 DEF TypeOK
  <1>9. OnTheCurve'
    BY <1>1, <1>2, <1>7 DEF OnTheCurve, Nearest, Temperature, number
  <1> QED  BY <1>1, <1>8, <1>9 DEF IInv, AtBoot, EmptyTable, Falling, ReadsInside, Bracketed, number

LEMMA Inductive == IInv /\ [Next]_vars => IInv'
  <1> SUFFICES ASSUME IInv, [Next]_vars PROVE IInv'
    OBVIOUS
  <1>1. CASE UNCHANGED vars
    BY <1>1 DEF vars, IInv, TypeOK, AtBoot, EmptyTable, ReadsInside, Bracketed, Falling,
                OnTheCurve, Nearest, Temperature, number
  <1> QED  BY <1>1, TableStep, ConvertStep, BisectStep, InterpolateStep DEF Next

LEMMA Starts == Init => IInv
  <1> SUFFICES ASSUME Init PROVE IInv
    OBVIOUS
  <1>1. TypeOK
    <2>1. 0 \in Entry /\ 0 \in 0..TemperatureTableSize
      BY TableAssumption DEF Entry
    <2>2. NTC_Parametr \in [number : 0..TemperatureTableSize, step : Nat, start : Int]
      BY <2>1 DEF Init
    <2>3. termo_table \in [Index -> Entry]
      BY <2>1 DEF Init
    <2>4. res \in Int /\ prev \in [adcsum : Entry, res : Int]
      BY <2>1 DEF Init, TEMPERATURE_OVER
    <2> QED  BY <2>1, <2>2, <2>3, <2>4 DEF Init, TypeOK
  <1>2. pc = "boot" /\ res \in Labels /\ ~outside /\ number = 0 /\ 0 \in Index
        /\ \A i \in Index : termo_table[i] = 0
    BY TableAssumption DEF Init, Labels, Index, number
  <1> QED  BY <1>1, <1>2 DEF IInv, AtBoot, EmptyTable, Falling, ReadsInside, Bracketed, OnTheCurve

\* Every value calc_temperature can produce fits its type, and the table is never
\* taken to be larger than it is (measure_NTC.c:39).
THEOREM TypeCorrect == FairSpec => []TypeOK
  <1>1. IInv => TypeOK
    BY DEF IInv
  <1> QED  BY <1>1, Starts, Inductive, PTL DEF FairSpec, Spec

\* The loop reads only computed entries (measure_NTC.c:82).
THEOREM AlwaysReadsInside == FairSpec => []ReadsInside
  <1>1. IInv => ReadsInside
    BY DEF IInv
  <1> QED  BY <1>1, Starts, Inductive, PTL DEF FairSpec, Spec

\* The loop invariant of the bisection (measure_NTC.c:86).
THEOREM AlwaysBracketed == FairSpec => []Bracketed
  <1>1. IInv => Bracketed
    BY DEF IInv
  <1> QED  BY <1>1, Starts, Inductive, PTL DEF FairSpec, Spec

\* A temperature is the nearest degree on the line between two neighbouring
\* entries around the code (measure_NTC.c:105).
THEOREM AlwaysOnTheCurve == FairSpec => []OnTheCurve
  <1>1. IInv => OnTheCurve
    BY DEF IInv
  <1> QED  BY <1>1, Starts, Inductive, PTL DEF FairSpec, Spec

--------------------------------------------------------------------------------
(* From one conversion to the next *)

LEMMA ProductGrows ==
    ASSUME NEW d \in Nat, NEW a \in Int, NEW b \in Int, a <= b
    PROVE  d * a \in Int /\ d * b \in Int /\ d * a <= d * b
  <1>1. d * a \in Int /\ d * b \in Int /\ d * (b - a) \in Int
    BY SMT
  <1>2. d * (b - a) >= 0
    <2>1. b - a \in Nat
      OBVIOUS
    <2> QED  BY <2>1, SMT
  <1>3. d * (b - a) = d * b - d * a
    BY SMT
  <1> QED  BY <1>1, <1>2, <1>3

LEMMA Division ==
    ASSUME NEW x \in Nat, NEW d \in Nat, d > 0
    PROVE  /\ x \div d \in Int
           /\ \E m \in 0..(d - 1) : x = d * (x \div d) + m
  BY SMT

\* A larger dividend has no smaller quotient.
LEMMA QuotientGrows ==
    ASSUME NEW x \in Nat, NEW y \in Nat, NEW d \in Nat, d > 0, x <= y
    PROVE  x \div d \in Int /\ y \div d \in Int /\ x \div d <= y \div d
  <1>1. PICK m \in 0..(d - 1) : x \div d \in Int /\ x = d * (x \div d) + m
    BY Division
  <1>2. PICK n \in 0..(d - 1) : y \div d \in Int /\ y = d * (y \div d) + n
    BY Division
  <1> DEFINE p == x \div d
             q == y \div d
  <1>3. p \in Int /\ q \in Int /\ x = d * p + m /\ y = d * q + n
    BY <1>1, <1>2
  <1> HIDE DEF p, q
  <1>4. ASSUME q < p PROVE FALSE
    <2>1. q + 1 <= p /\ q + 1 \in Int
      BY <1>3, <1>4
    <2>2. d * (q + 1) <= d * p /\ d * (q + 1) \in Int /\ d * p \in Int /\ d * q \in Int
      BY <1>3, <2>1, ProductGrows
    <2>3. d * (q + 1) = d * q + d
      BY <1>3, SMT
    <2> QED  BY <1>3, <2>2, <2>3
  <1>5. p <= q
    BY <1>3, <1>4
  <1> QED  BY <1>3, <1>5 DEF p, q

\* The interpolation takes off no more than one step, none at the lower entry, and
\* more for a larger code.
LEMMA InterpolationGrows ==
    ASSUME TypeOK, NEW vd \in Nat, vd > 0,
           NEW x \in Nat, NEW y \in Nat, x <= y, y < vd
    PROVE  /\ Interpolated(vd, x) \in Int /\ Interpolated(vd, y) \in Int
           /\ 0 <= Interpolated(vd, x)
           /\ Interpolated(vd, x) <= Interpolated(vd, y)
           /\ Interpolated(vd, y) <= NTC_Parametr.step
  <1> DEFINE st == NTC_Parametr.step
             h == vd \div 2
             X == st * x + h
             Y == st * y + h
  <1>1. st \in Nat
    BY DEF TypeOK
  <1>2. h \in Nat /\ h < vd
    BY SMT
  <1> HIDE DEF st, h
  <1>3. st * x \in Int /\ st * y \in Int /\ st * x <= st * y /\ st * 0 <= st * x
    BY <1>1, ProductGrows
  <1>4. st * 0 = 0
    BY <1>1, SMT
  <1>5. X \in Nat /\ Y \in Nat /\ X <= Y
    BY <1>2, <1>3, <1>4
  <1> HIDE DEF X, Y
  <1>6. X \div vd \in Int /\ Y \div vd \in Int /\ X \div vd <= Y \div vd
    BY <1>5, QuotientGrows
  <1>7. st * y <= st * vd /\ st * vd \in Int
    BY <1>1, ProductGrows
  <1>8. Y < st * vd + vd
    BY <1>2, <1>3, <1>7 DEF Y
  <1>9. 0 <= X \div vd
    <2>1. PICK m \in 0..(vd - 1) : X = vd * (X \div vd) + m
      BY <1>5, Division
    <2> DEFINE q == X \div vd
    <2> HIDE DEF q
    <2>2. ASSUME q < 0 PROVE FALSE
      <3>1. q \in Int /\ q <= -1
        BY <1>6, <2>2 DEF q
      <3>2. vd * q <= vd * (-1) /\ vd * q \in Int
        BY <3>1, ProductGrows
      <3>3. vd * (-1) = -vd
        BY SMT
      <3> QED  BY <1>5, <2>1, <3>2, <3>3 DEF q
    <2> QED  BY <1>6, <2>2 DEF q
  <1>10. Y \div vd <= st
    <2>1. PICK m \in 0..(vd - 1) : Y = vd * (Y \div vd) + m
      BY <1>5, Division
    <2> DEFINE q == Y \div vd
    <2> HIDE DEF q
    <2>2. ASSUME st < q PROVE FALSE
      <3>1. q \in Int /\ st + 1 <= q /\ st + 1 \in Int
        BY <1>1, <1>6, <2>2 DEF q
      <3>2. vd * (st + 1) <= vd * q /\ vd * q \in Int /\ vd * (st + 1) \in Int
        BY <3>1, ProductGrows
      <3>3. vd * (st + 1) = st * vd + vd
        BY <1>1, SMT
      <3> QED  BY <1>5, <1>7, <1>8, <2>1, <3>2, <3>3 DEF q
    <2> QED  BY <1>1, <1>6, <2>2 DEF q
  <1> QED  BY <1>6, <1>9, <1>10 DEF Interpolated, X, Y, st, h

\* Entries further down the table belong to higher temperatures.
LEMMA TemperatureRises ==
    ASSUME TypeOK, NEW i \in Int, NEW j \in Int, i <= j
    PROVE  Temperature(i) \in Int /\ Temperature(j) \in Int /\ Temperature(i) <= Temperature(j)
  <1>1. NTC_Parametr.step \in Nat /\ NTC_Parametr.start \in Int
    BY DEF TypeOK
  <1>2. /\ NTC_Parametr.step * i <= NTC_Parametr.step * j
        /\ NTC_Parametr.step * i \in Int /\ NTC_Parametr.step * j \in Int
    BY <1>1, ProductGrows
  <1> QED  BY <1>1, <1>2 DEF Temperature

\* The code lies between entry i, which it may meet, and the entry below.
Between(i, code) == termo_table[i + 1] < code /\ code <= termo_table[i]

\* What the search returns for such a code.
Found(i, code) ==
    IF code = termo_table[i] THEN Temperature(i)
    ELSE Temperature(i + 1) - Interpolated(termo_table[i] - termo_table[i + 1],
                                           code - termo_table[i + 1])

\* The temperature of a code: at the last entry, at the first, or in the one pair
\* of neighbours that the search closes in on.
Converted(code, value) ==
    \/ code = termo_table[number - 1] /\ value = Temperature(number - 1)
    \/ /\ code > termo_table[number - 1]
       /\ code = termo_table[0] /\ value = Temperature(0)
    \/ \E i \in 0..(number - 2) :
          Between(i, code) /\ code < termo_table[0] /\ value = Found(i, code)

\* The search returns a temperature between those of the two neighbours.
LEMMA FoundBetween ==
    ASSUME TypeOK, NEW i \in 0..(number - 2), NEW code \in Entry, Between(i, code)
    PROVE  /\ Found(i, code) \in Int
           /\ Temperature(i) <= Found(i, code) /\ Found(i, code) <= Temperature(i + 1)
  <1> DEFINE vd == termo_table[i] - termo_table[i + 1]
             dv == code - termo_table[i + 1]
             q == Interpolated(vd, dv)
  <1>1. i \in Index /\ i + 1 \in Index /\ i \in Int /\ i + 1 \in Int
    BY TableAssumption DEF TypeOK, number, Index
  <1>2. /\ Temperature(i) \in Int /\ Temperature(i + 1) \in Int
        /\ NTC_Parametr.step \in Nat
        /\ Temperature(i + 1) - Temperature(i) = NTC_Parametr.step
    BY <1>1, TemperatureType
  <1>3. CASE code = termo_table[i]
    BY <1>2, <1>3 DEF Found
  <1>4. CASE code # termo_table[i]
    <2>1. vd \in Nat /\ vd > 0 /\ dv \in Nat /\ dv < vd
      BY <1>1, <1>4, EntriesFacts, TableAssumption DEF Between, Entry
    <2>2. Found(i, code) = Temperature(i + 1) - q
      BY <1>4 DEF Found
    <2> HIDE DEF vd, dv, q
    <2>3. q \in Int /\ 0 <= q /\ q <= NTC_Parametr.step
      BY <2>1, InterpolationGrows DEF q
    <2> QED  BY <1>2, <2>2, <2>3
  <1> QED  BY <1>3, <1>4

\* Within one pair of neighbours a larger code is not warmer.
LEMMA FoundFalls ==
    ASSUME TypeOK, NEW i \in 0..(number - 2), NEW a \in Entry, NEW b \in Entry, a <= b,
           Between(i, a), Between(i, b)
    PROVE  Found(i, a) >= Found(i, b)
  <1> DEFINE vd == termo_table[i] - termo_table[i + 1]
             x == a - termo_table[i + 1]
             y == b - termo_table[i + 1]
  <1>1. i \in Index /\ i + 1 \in Index /\ i \in Int /\ i + 1 \in Int
    BY TableAssumption DEF TypeOK, number, Index
  <1>2. a \in Int /\ b \in Int /\ termo_table[i] \in Int /\ termo_table[i + 1] \in Int
    BY <1>1, EntriesFacts, TableAssumption DEF Entry
  <1>3. CASE b = termo_table[i]
    <2>1. Found(i, b) = Temperature(i) /\ Temperature(i) \in Int
      BY <1>1, <1>3, TemperatureType DEF Found
    <2> QED  BY <2>1, FoundBetween
  <1>4. CASE b # termo_table[i]
    <2>1. a # termo_table[i] /\ b < termo_table[i]
      BY <1>2, <1>4 DEF Between
    <2>2. x \in Nat /\ y \in Nat /\ vd \in Nat /\ vd > 0 /\ x <= y /\ y < vd
      BY <1>2, <2>1 DEF Between
    <2>3. /\ Found(i, a) = Temperature(i + 1) - Interpolated(vd, x)
          /\ Found(i, b) = Temperature(i + 1) - Interpolated(vd, y)
      BY <1>4, <2>1 DEF Found
    <2> HIDE DEF vd, x, y
    <2>4. /\ Interpolated(vd, x) \in Int /\ Interpolated(vd, y) \in Int
          /\ Interpolated(vd, x) <= Interpolated(vd, y)
      BY <2>2, InterpolationGrows
    <2>5. Temperature(i + 1) \in Int
      BY <1>1, TemperatureType
    <2> QED  BY <2>3, <2>4, <2>5
  <1> QED  BY <1>3, <1>4

\* A larger code is not warmer anywhere in the table.
LEMMA ConvertedFalls ==
    ASSUME TypeOK, Falling, number > 0,
           NEW a \in Entry, NEW b \in Entry, a <= b,
           NEW va, NEW vb, Converted(a, va), Converted(b, vb)
    PROVE  va >= vb
  <1> DEFINE last == number - 1
  <1>1. number \in Nat /\ number <= TemperatureTableSize /\ last \in Nat
    BY TableAssumption DEF TypeOK, number
  <1>2. /\ \A i \in 0..last : i \in Index /\ i \in Int
        /\ \A i \in 0..(number - 2) : i \in 0..last /\ i + 1 \in 0..last
        /\ 0 \in 0..last /\ last \in 0..last
    BY <1>1, TableAssumption DEF Index
  <1>3. /\ \A i \in 0..last : termo_table[i] \in Int
        /\ a \in Int /\ b \in Int
        /\ \A i, j \in 0..last : i <= j => termo_table[i] >= termo_table[j]
    BY <1>2, EntriesFacts, TableAssumption DEF Entry, Falling
  <1>4. \A i, j \in 0..last : i <= j =>
            Temperature(i) \in Int /\ Temperature(j) \in Int /\ Temperature(i) <= Temperature(j)
    BY <1>2, TemperatureRises
  <1>5. ASSUME NEW i \in 0..(number - 2), NEW code \in Entry, Between(i, code)
        PROVE  /\ Found(i, code) \in Int /\ termo_table[last] < code
               /\ Temperature(0) <= Found(i, code) /\ Found(i, code) <= Temperature(last)
    <2>1. /\ Found(i, code) \in Int
          /\ Temperature(i) <= Found(i, code) /\ Found(i, code) <= Temperature(i + 1)
      BY <1>5, FoundBetween
    <2>2. i \in 0..last /\ i + 1 \in 0..last /\ 0 <= i /\ i + 1 <= last
      BY <1>1, <1>2
    <2>3. Temperature(0) <= Temperature(i) /\ Temperature(i + 1) <= Temperature(last)
          /\ Temperature(0) \in Int /\ Temperature(last) \in Int
          /\ Temperature(i) \in Int /\ Temperature(i + 1) \in Int
      BY <1>2, <1>4, <2>2
    <2>4. termo_table[i + 1] >= termo_table[last] /\ termo_table[i + 1] < code
      BY <1>2, <1>3, <1>5, <2>2 DEF Between
    <2>5. termo_table[last] < code
      BY <1>2, <1>3, <2>2, <2>4, TableAssumption DEF Entry
    <2> QED  BY <2>1, <2>3, <2>5
  <1>6. CASE b = termo_table[last] /\ vb = Temperature(last)
    BY <1>2, <1>3, <1>4, <1>5, <1>6 DEF Converted
  <1>7. CASE b > termo_table[last] /\ b = termo_table[0] /\ vb = Temperature(0)
    BY <1>2, <1>3, <1>4, <1>5, <1>7 DEF Converted
  <1>8. CASE \E i \in 0..(number - 2) :
                Between(i, b) /\ b < termo_table[0] /\ vb = Found(i, b)
    <2>1. PICK j \in 0..(number - 2) :
              Between(j, b) /\ b < termo_table[0] /\ vb = Found(j, b)
      BY <1>8
    <2>2. CASE a = termo_table[last] /\ va = Temperature(last)
      BY <1>2, <1>3, <1>4, <1>5, <2>1, <2>2
    <2>3. CASE a > termo_table[last] /\ a = termo_table[0] /\ va = Temperature(0)
      BY <1>2, <1>3, <2>1, <2>3
    <2>4. ASSUME NEW i \in 0..(number - 2), Between(i, a), va = Found(i, a)
          PROVE  va >= vb
      <3>1. i \in Int /\ j \in Int /\ i \in 0..last /\ j \in 0..last
            /\ i + 1 \in 0..last /\ j + 1 \in 0..last
        BY <1>2
      <3>2. i >= j
        <4>1. ASSUME i < j PROVE FALSE
          <5>1. i + 1 <= j
            BY <3>1, <4>1
          <5>2. termo_table[i + 1] >= termo_table[j]
            BY <1>3, <3>1, <5>1
          <5> QED  BY <1>3, <2>1, <2>4, <3>1, <5>2 DEF Between
        <4> QED  BY <3>1, <4>1
      <3>3. CASE i = j
        BY <2>1, <2>4, <3>3, FoundFalls
      <3>4. CASE i > j
        <4>1. j + 1 <= i
          BY <3>1, <3>4
        <4>2. /\ Temperature(j + 1) <= Temperature(i)
              /\ Temperature(j + 1) \in Int /\ Temperature(i) \in Int
          BY <1>4, <3>1, <4>1
        <4>3. Found(j, b) \in Int /\ Found(j, b) <= Temperature(j + 1)
          BY <2>1, FoundBetween
        <4>4. Found(i, a) \in Int /\ Temperature(i) <= Found(i, a)
          BY <2>4, FoundBetween
        <4> QED  BY <2>1, <2>4, <4>2, <4>3, <4>4
      <3> QED  BY <3>1, <3>2, <3>3, <3>4
    <2> QED  BY <2>2, <2>3, <2>4 DEF Converted
  <1> QED  BY <1>6, <1>7, <1>8 DEF Converted

\* The last result and the one before it are labels, or the temperatures of their
\* codes in the table.  While it searches, the code is below the first entry.
History ==
    /\ pc = "boot" => prev.res \in Labels
    /\ pc # "boot" /\ number > 0 /\ prev.res \notin Labels => Converted(prev.adcsum, prev.res)
    /\ pc = "idle" /\ number > 0 /\ res \notin Labels => Converted(adcsum, res)
    /\ pc = "search" => adcsum < termo_table[0]

LEMMA ConvertHistory ==
    ASSUME IInv, History, NEW v \in Sample, calc_temperature(v)
    PROVE  History'
  <1>1. TypeOK /\ pc = "idle"
    BY DEF IInv, calc_temperature
  <1>2. /\ adcsum' = v % EntryRange /\ prev' = [adcsum |-> adcsum, res |-> res]
        /\ UNCHANGED <<NTC_Parametr, termo_table>>
    BY DEF calc_temperature
  <1>3. number' = number
    BY <1>2 DEF number
  <1>4. PICK thigh \in Read(LastIndex) :
          \/ adcsum' < thigh /\ Return(TEMPERATURE_OVER)
          \/ adcsum' = thigh /\ Return(Temperature(LastIndex))
          \/ /\ adcsum' > thigh
             /\ \/ adcsum' > termo_table[0] /\ Return(TEMPERATURE_UNDER)
                \/ adcsum' = termo_table[0] /\ Return(Temperature(0))
                \/ adcsum' < termo_table[0] /\ pc' = "search" /\ UNCHANGED res
    BY DEF calc_temperature
  <1>5. number > 0 => LastIndex = number - 1 /\ thigh = termo_table[number - 1]
    BY <1>1, <1>4, LastIndexInside DEF Read
  <1>6. pc' # "boot"
    BY <1>4 DEF Return
  <1>7. number > 0 /\ prev'.res \notin Labels => Converted(prev'.adcsum, prev'.res)
    BY <1>1, <1>2 DEF History
  <1>8. pc' = "idle" /\ number > 0 /\ res' \notin Labels => Converted(adcsum', res')
    BY <1>4, <1>5 DEF Return, Labels, Converted
  <1>9. pc' = "search" => adcsum' < termo_table[0]
    BY <1>4 DEF Return
  <1>10. /\ Converted(adcsum, res)' <=> Converted(adcsum', res')
         /\ Converted(prev.adcsum, prev.res)' <=> Converted(prev'.adcsum, prev'.res)
    BY <1>2, <1>3 DEF Converted, Between, Found, Interpolated, Temperature, number
  <1> QED  BY <1>2, <1>3, <1>6, <1>7, <1>8, <1>9, <1>10 DEF History

LEMMA InterpolateHistory ==
    ASSUME IInv, History, Interpolate
    PROVE  History'
  <1>1. /\ pc = "search" /\ pc' = "idle"
        /\ UNCHANGED <<NTC_Parametr, termo_table, adcsum, prev>>
        /\ r = l + 1 /\ l \in 0..(number - 2) /\ l \in Nat
        /\ adcsum \in Int /\ termo_table[l] \in Int
        /\ termo_table[r] < adcsum /\ adcsum <= termo_table[l]
        /\ res' = IF adcsum >= termo_table[l] THEN Temperature(l)
                  ELSE Temperature(r) - Interpolated(termo_table[l] - termo_table[r],
                                                     adcsum - termo_table[r])
    BY Narrowed
  <1>2. Between(l, adcsum) /\ adcsum < termo_table[0]
    BY <1>1 DEF Between, History
  <1>3. adcsum >= termo_table[l] <=> adcsum = termo_table[l]
    BY <1>1
  <1>4. res' = Found(l, adcsum)
    BY <1>1, <1>3 DEF Found
  <1>5. Converted(adcsum, res')
    BY <1>1, <1>2, <1>4 DEF Converted
  <1>6. number > 0 /\ prev.res \notin Labels => Converted(prev.adcsum, prev.res)
    BY <1>1 DEF History
  <1>7. /\ number' = number
        /\ Converted(adcsum, res)' <=> Converted(adcsum, res')
        /\ Converted(prev.adcsum, prev.res)' <=> Converted(prev.adcsum, prev.res)
    BY <1>1 DEF Converted, Between, Found, Interpolated, Temperature, number
  <1> QED  BY <1>1, <1>5, <1>6, <1>7 DEF History

LEMMA HistoryStep == IInv /\ History /\ [Next]_vars => History'
  <1> SUFFICES ASSUME IInv, History, [Next]_vars PROVE History'
    OBVIOUS
  <1>1. CASE calculate_table_NTC
    BY <1>1 DEF calculate_table_NTC, History, IInv, AtBoot
  <1>2. CASE Bisect
    BY <1>2 DEF Bisect, History, Converted, Between, Found, Interpolated, Temperature, number
  <1>3. CASE UNCHANGED vars
    BY <1>3 DEF vars, History, Converted, Between, Found, Interpolated, Temperature, number
  <1> QED  BY <1>1, <1>2, <1>3, ConvertHistory, InterpolateHistory DEF Next

\* A larger code is never a higher temperature (measure_NTC.c:105): the exact
\* cases, the interpolation and its rounding agree at every entry.
THEOREM AlwaysFallsWithCode == FairSpec => []FallsWithCode
  <1>1. Init => History
    BY DEF Init, History, Labels, number
  <1>2. IInv /\ History => FallsWithCode
    <2> SUFFICES ASSUME IInv, History, pc = "idle", number > 0,
                        res \notin Labels, prev.res \notin Labels, prev.adcsum <= adcsum
                 PROVE  prev.res >= res
      BY DEF FallsWithCode
    <2>1. TypeOK /\ Falling /\ prev.adcsum \in Entry /\ adcsum \in Entry
      BY DEF IInv, TypeOK
    <2>2. Converted(prev.adcsum, prev.res) /\ Converted(adcsum, res)
      BY DEF History
    <2> QED  BY <2>1, <2>2, ConvertedFalls
  <1> QED  BY <1>1, <1>2, Starts, Inductive, HistoryStep, PTL DEF FairSpec, Spec
================================================================================
