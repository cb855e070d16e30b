---------------------------- MODULE AdcTaskProofs ------------------------------
(***************************************************************************)
(* For any codes: the nineteen comparisons leave the median in the middle, *)
(* and a minority of wild samples has no effect on the filtered value.     *)
(*                                                                         *)
(* The nine samples are seen as three rows <<0, 1, 2>>, <<3, 4, 5>> and    *)
(* <<6, 7, 8>>.  Nine comparisons sort the rows.  Seven more, within the   *)
(* columns, find the largest of the first column, the median of the        *)
(* second and the smallest of the third; the last three take the median of *)
(* those.                                                                  *)
(***************************************************************************)
EXTENDS AdcTaskProps, FiniteSetTheorems, FunctionTheorems, TLAPS

\* The types of the variables that the proofs rely on.
Types ==
    /\ pc \in {"none", "read", "sort", "sleep", "ended"}
    /\ sample_buffer \in [Pixel -> Int] /\ p \in [Pixel -> Int]
    /\ k \in 1..20
    /\ Adc_Filter_Value \in Int
    /\ steady \subseteq Code \X Code
    /\ pc = "sleep" => k = 20 /\ ~first

\* The array being sorted is the buffer in another order.
Shuffled ==
    \E f \in Bijection(Pixel, Pixel) : \A i \in Pixel : p[i] = sample_buffer[f[i]]

\* What is known of the positions before comparison j: p[a] <= p[b].
Order ==
    << {},
       {<<1, 2>>},
       {<<1, 2>>, <<4, 5>>},
       {<<1, 2>>, <<4, 5>>, <<7, 8>>},
       {<<0, 1>>, <<0, 2>>, <<4, 5>>, <<7, 8>>},
       {<<0, 1>>, <<0, 2>>, <<3, 4>>, <<3, 5>>, <<7, 8>>},
       {<<0, 1>>, <<0, 2>>, <<3, 4>>, <<3, 5>>, <<6, 7>>, <<6, 8>>},
       {<<0, 1>>, <<1, 2>>, <<3, 4>>, <<3, 5>>, <<6, 7>>, <<6, 8>>},
       {<<0, 1>>, <<1, 2>>, <<3, 4>>, <<4, 5>>, <<6, 7>>, <<6, 8>>},
       {<<0, 1>>, <<1, 2>>, <<3, 4>>, <<4, 5>>, <<6, 7>>, <<7, 8>>},
       {<<0, 3>>},
       {<<0, 3>>, <<5, 8>>},
       {<<0, 3>>, <<5, 8>>, <<4, 7>>},
       {<<0, 6>>, <<3, 6>>, <<5, 8>>, <<4, 7>>},
       {<<0, 6>>, <<3, 6>>, <<5, 8>>, <<1, 4>>, <<1, 7>>},
       {<<0, 6>>, <<3, 6>>, <<2, 5>>, <<2, 8>>, <<1, 4>>, <<1, 7>>},
       {<<0, 6>>, <<3, 6>>, <<2, 5>>, <<2, 8>>, <<1, 4>>, <<4, 7>>},
       {<<0, 6>>, <<3, 6>>, <<0, 2>>, <<3, 2>>, <<4, 2>>, <<1, 4>>, <<4, 7>>, <<6, 7>>,
        <<2, 5>>, <<2, 8>>},
       {<<0, 4>>, <<3, 4>>, <<1, 4>>, <<6, 4>>, <<0, 2>>, <<3, 2>>, <<1, 2>>, <<6, 2>>,
        <<4, 7>>, <<2, 5>>, <<2, 8>>},
       {<<0, 4>>, <<3, 4>>, <<1, 4>>, <<6, 4>>, <<4, 2>>, <<4, 7>>, <<4, 5>>, <<4, 8>>} >>

Ordered(j) == \A e \in Order[j] : p[e[1]] <= p[e[2]]

\* How many of three positions hold more than v.
Above(v, i) == IF p[i] > v THEN 1 ELSE 0
Column(v, a, b, c) == Above(v, a) + Above(v, b) + Above(v, c)

\* From the rows being sorted until the columns have been used: each column
\* holds no more large samples than the next.
Rising ==
    \A v \in Int : /\ Column(v, 0, 3, 6) <= Column(v, 1, 4, 7)
                   /\ Column(v, 1, 4, 7) <= Column(v, 2, 5, 8)

Sorting == Ordered(k) /\ (k \in 10..17 => Rising)

\* The greater part of the batch being sorted, and the filtered value, lie in
\* every interval of steady.
Inside ==
    /\ pc = "sort" => \A ab \in steady :
          Cardinality({i \in Pixel : ab[1] <= sample_buffer[i] /\ sample_buffer[i] <= ab[2]}) > 4
    /\ ~first => \A ab \in steady : ab[1] <= Adc_Filter_Value /\ Adc_Filter_Value <= ab[2]

IInv == Types /\ Shuffled /\ Sorting /\ Inside

--------------------------------------------------------------------------------
(* One comparison *)

LEMMA Pixels ==
    /\ 0 \in Pixel /\ 1 \in Pixel /\ 2 \in Pixel /\ 3 \in Pixel /\ 4 \in Pixel
    /\ 5 \in Pixel /\ 6 \in Pixel /\ 7 \in Pixel /\ 8 \in Pixel
    /\ \A i \in Pixel : i = 0 \/ i = 1 \/ i = 2 \/ i = 3 \/ i = 4 \/ i = 5 \/ i = 6
                        \/ i = 7 \/ i = 8
  BY DEF Pixel

LEMMA TypesKept ==
    ASSUME Types, [Next]_vars
    PROVE  Types'
  <1>1. Code \subseteq Int /\ \A b \in Batch : b \in [Pixel -> Int]
    BY CodeAssumption, BatchAssumption
  <1>2. CASE io_adc_init
    BY <1>2 DEF io_adc_init, Types
  <1>3. CASE adc_read_failed
    BY <1>3 DEF adc_read_failed, Types
  <1>4. ASSUME NEW b \in Batch, adc_read(b)
        PROVE  Types'
    <2>1. steady' \subseteq Code \X Code
      BY <1>4 DEF adc_read, Steady, Types
    <2> QED  BY <1>1, <1>4, <2>1 DEF adc_read, Types
  <1>5. CASE PIX_SORT
    <2>1. k \in 1..19
      <3>1. Len(Network) = 19
        BY DEF Network
      <3> QED  BY <1>5, <3>1 DEF PIX_SORT, Types
    <2>2. Network[k] \in Pixel \X Pixel
      BY <2>1 DEF Network, Pixel
    <2>3. p' \in [Pixel -> Int]
      <3>1. \A a, b \in Pixel : Swapped(a, b) \in [Pixel -> Int]
        BY DEF Types, Swapped
      <3> QED  BY <1>5, <2>2, <3>1 DEF PIX_SORT, Types
    <2> QED  BY <1>5, <2>1, <2>3 DEF PIX_SORT, Types
  <1>6. CASE io_adc_task
    <2>1. p[4] \in Int /\ k = 20
      <3>1. Len(Network) = 19
        BY DEF Network
      <3> QED  BY <1>6, <3>1, Pixels DEF io_adc_task, Types
    <2>2. Filtered(p[4]) \in Int
      BY <2>1 DEF Filtered, Types
    <2> QED  BY <1>6, <2>1, <2>2 DEF io_adc_task, Types
  <1>7. CASE Wake
    BY <1>7 DEF Wake, Types
  <1>8. CASE UNCHANGED vars
    BY <1>8 DEF vars, Types
  <1> QED  BY <1>2, <1>3, <1>4, <1>5, <1>6, <1>7, <1>8 DEF Next, Read

\* The two compared samples end up in order, the others stay.
LEMMA Compared ==
    ASSUME Types, PIX_SORT, NEW a \in Pixel, NEW b \in Pixel, a # b, Network[k] = <<a, b>>
    PROVE  /\ p' \in [Pixel -> Int] /\ k' = k + 1
           /\ \A i \in Pixel : p[i] \in Int /\ p'[i] \in Int
           /\ p'[a] <= p'[b]
           /\ \/ p'[a] = p[a] /\ p'[b] = p[b]
              \/ p'[a] = p[b] /\ p'[b] = p[a]
           /\ \A i \in Pixel : i # a /\ i # b => p'[i] = p[i]
  <1>1. p \in [Pixel -> Int] /\ p[a] \in Int /\ p[b] \in Int
    BY DEF Types
  <1>2. p' = IF p[a] > p[b] THEN Swapped(a, b) ELSE p
    BY DEF PIX_SORT
  <1>3. CASE p[a] > p[b]
    <2>1. p' = [p EXCEPT ![a] = p[b], ![b] = p[a]]
      BY <1>2, <1>3 DEF Swapped
    <2> QED  BY <1>1, <1>3, <2>1 DEF PIX_SORT
  <1>4. CASE ~(p[a] > p[b])
    BY <1>1, <1>2, <1>4 DEF PIX_SORT
  <1> QED  BY <1>3, <1>4

\* Comparisons 1 to 9: each row.
LEMMA SortsRows ==
    ASSUME Types, Ordered(k), PIX_SORT, k \in 1..9
    PROVE  Ordered(k)'
  <1>1. CASE k = 1
    <2>1. Network[k] = <<1, 2>>
      BY <1>1 DEF Network
    <2>2. k' = 2 /\ p'[1] <= p'[2]
      BY <1>1, <2>1, Compared, Pixels
    <2> QED  BY <2>2 DEF Ordered, Order
  <1>2. CASE k = 2
    <2>1. Network[k] = <<4, 5>> /\ p[1] <= p[2]
      BY <1>2 DEF Network, Ordered, Order
    <2>2. k' = 3 /\ p'[1] <= p'[2] /\ p'[4] <= p'[5]
      BY <1>2, <2>1, Compared, Pixels
    <2> QED  BY <2>2 DEF Ordered, Order
  <1>3. CASE k = 3
    <2>1. Network[k] = <<7, 8>> /\ p[1] <= p[2] /\ p[4] <= p[5]
      BY <1>3 DEF Network, Ordered, Order
    <2>2. k' = 4 /\ p'[1] <= p'[2] /\ p'[4] <= p'[5] /\ p'[7] <= p'[8]
      BY <1>3, <2>1, Compared, Pixels
    <2> QED  BY <2>2 DEF Ordered, Order
  <1>4. CASE k = 4
    <2>1. Network[k] = <<0, 1>> /\ p[1] <= p[2] /\ p[4] <= p[5] /\ p[7] <= p[8]
      BY <1>4 DEF Network, Ordered, Order
    <2>2. /\ k' = 5 /\ p'[0] <= p'[1] /\ p'[0] <= p'[2] /\ p'[4] <= p'[5]
          /\ p'[7] <= p'[8]
      BY <1>4, <2>1, Compared, Pixels
    <2> QED  BY <2>2 DEF Ordered, Order
  <1>5. CASE k = 5
    <2>1. /\ Network[k] = <<3, 4>> /\ p[0] <= p[1] /\ p[0] <= p[2] /\ p[4] <= p[5]
          /\ p[7] <= p[8]
      BY <1>5 DEF Network, Ordered, Order
    <2>2. /\ k' = 6 /\ p'[0] <= p'[1] /\ p'[0] <= p'[2] /\ p'[3] <= p'[4]
          /\ p'[3] <= p'[5] /\ p'[7] <= p'[8]
      BY <1>5, <2>1, Compared, Pixels
    <2> QED  BY <2>2 DEF Ordered, Order
  <1>6. CASE k = 6
    <2>1. /\ Network[k] = <<6, 7>> /\ p[0] <= p[1] /\ p[0] <= p[2] /\ p[3] <= p[4]
          /\ p[3] <= p[5] /\ p[7] <= p[8]
      BY <1>6 DEF Network, Ordered, Order
    <2>2. /\ k' = 7 /\ p'[0] <= p'[1] /\ p'[0] <= p'[2] /\ p'[3] <= p'[4]
          /\ p'[3] <= p'[5] /\ p'[6] <= p'[7] /\ p'[6] <= p'[8]
      BY <1>6, <2>1, Compared, Pixels
    <2> QED  BY <2>2 DEF Ordered, Order
  <1>7. CASE k = 7
    <2>1. /\ Network[k] = <<1, 2>> /\ p[0] <= p[1] /\ p[0] <= p[2] /\ p[3] <= p[4]
          /\ p[3] <= p[5] /\ p[6] <= p[7] /\ p[6] <= p[8]
      BY <1>7 DEF Network, Ordered, Order
    <2>2. /\ k' = 8 /\ p'[0] <= p'[1] /\ p'[1] <= p'[2] /\ p'[3] <= p'[4]
          /\ p'[3] <= p'[5] /\ p'[6] <= p'[7] /\ p'[6] <= p'[8]
      BY <1>7, <2>1, Compared, Pixels
    <2> QED  BY <2>2 DEF Ordered, Order
  <1>8. CASE k = 8
    <2>1. /\ Network[k] = <<4, 5>> /\ p[0] <= p[1] /\ p[1] <= p[2] /\ p[3] <= p[4]
          /\ p[3] <= p[5] /\ p[6] <= p[7] /\ p[6] <= p[8]
      BY <1>8 DEF Network, Ordered, Order
    <2>2. /\ k' = 9 /\ p'[0] <= p'[1] /\ p'[1] <= p'[2] /\ p'[3] <= p'[4]
          /\ p'[4] <= p'[5] /\ p'[6] <= p'[7] /\ p'[6] <= p'[8]
      BY <1>8, <2>1, Compared, Pixels
    <2> QED  BY <2>2 DEF Ordered, Order
  <1>9. CASE k = 9
    <2>1. /\ Network[k] = <<7, 8>> /\ p[0] <= p[1] /\ p[1] <= p[2] /\ p[3] <= p[4]
          /\ p[4] <= p[5] /\ p[6] <= p[7] /\ p[6] <= p[8]
      BY <1>9 DEF Network, Ordered, Order
    <2>2. /\ k' = 10 /\ p'[0] <= p'[1] /\ p'[1] <= p'[2] /\ p'[3] <= p'[4]
          /\ p'[4] <= p'[5] /\ p'[6] <= p'[7] /\ p'[7] <= p'[8]
      BY <1>9, <2>1, Compared, Pixels
    <2> QED  BY <2>2 DEF Ordered, Order
  <1> QED  BY <1>1, <1>2, <1>3, <1>4, <1>5, <1>6, <1>7, <1>8, <1>9

\* Comparisons 10 to 16: within the columns.
LEMMA SortsColumns ==
    ASSUME Types, Ordered(k), PIX_SORT, k \in 10..16
    PROVE  Ordered(k)'
  <1>1. CASE k = 10
    <2>1. /\ Network[k] = <<0, 3>> /\ p[0] <= p[1] /\ p[1] <= p[2] /\ p[3] <= p[4]
          /\ p[4] <= p[5] /\ p[6] <= p[7] /\ p[7] <= p[8]
      BY <1>1 DEF Network, Ordered, Order
    <2>2. k' = 11 /\ p'[0] <= p'[3]
      BY <1>1, <2>1, Compared, Pixels
    <2> QED  BY <2>2 DEF Ordered, Order
  <1>2. CASE k = 11
    <2>1. Network[k] = <<5, 8>> /\ p[0] <= p[3]
      BY <1>2 DEF Network, Ordered, Order
    <2>2. k' = 12 /\ p'[0] <= p'[3] /\ p'[5] <= p'[8]
      BY <1>2, <2>1, Compared, Pixels
    <2> QED  BY <2>2 DEF Ordered, Order
  <1>3. CASE k = 12
    <2>1. Network[k] = <<4, 7>> /\ p[0] <= p[3] /\ p[5] <= p[8]
      BY <1>3 DEF Network, Ordered, Order
    <2>2. k' = 13 /\ p'[0] <= p'[3] /\ p'[5] <= p'[8] /\ p'[4] <= p'[7]
      BY <1>3, <2>1, Compared, Pixels
    <2> QED  BY <2>2 DEF Ordered, Order
  <1>4. CASE k = 13
    <2>1. Network[k] = <<3, 6>> /\ p[0] <= p[3] /\ p[5] <= p[8] /\ p[4] <= p[7]
      BY <1>4 DEF Network, Ordered, Order
    <2>2. /\ k' = 14 /\ p'[0] <= p'[6] /\ p'[3] <= p'[6] /\ p'[5] <= p'[8]
          /\ p'[4] <= p'[7]
      BY <1>4, <2>1, Compared, Pixels
    <2> QED  BY <2>2 DEF Ordered, Order
  <1>5. CASE k = 14
    <2>1. /\ Network[k] = <<1, 4>> /\ p[0] <= p[6] /\ p[3] <= p[6] /\ p[5] <= p[8]
          /\ p[4] <= p[7]
      BY <1>5 DEF Network, Ordered, Order
    <2>2. /\ k' = 15 /\ p'[0] <= p'[6] /\ p'[3] <= p'[6] /\ p'[5] <= p'[8]
          /\ p'[1] <= p'[4] /\ p'[1] <= p'[7]
      BY <1>5, <2>1, Compared, Pixels
    <2> QED  BY <2>2 DEF Ordered, Order
  <1>6. CASE k = 15
    <2>1. /\ Network[k] = <<2, 5>> /\ p[0] <= p[6] /\ p[3] <= p[6] /\ p[5] <= p[8]
          /\ p[1] <= p[4] /\ p[1] <= p[7]
      BY <1>6 DEF Network, Ordered, Order
    <2>2. /\ k' = 16 /\ p'[0] <= p'[6] /\ p'[3] <= p'[6] /\ p'[2] <= p'[5]
          /\ p'[2] <= p'[8] /\ p'[1] <= p'[4] /\ p'[1] <= p'[7]
      BY <1>6, <2>1, Compared, Pixels
    <2> QED  BY <2>2 DEF Ordered, Order
  <1>7. CASE k = 16
    <2>1. /\ Network[k] = <<4, 7>> /\ p[0] <= p[6] /\ p[3] <= p[6] /\ p[2] <= p[5]
          /\ p[2] <= p[8] /\ p[1] <= p[4] /\ p[1] <= p[7]
      BY <1>7 DEF Network, Ordered, Order
    <2>2. /\ k' = 17 /\ p'[0] <= p'[6] /\ p'[3] <= p'[6] /\ p'[2] <= p'[5]
          /\ p'[2] <= p'[8] /\ p'[1] <= p'[4] /\ p'[4] <= p'[7]
      BY <1>7, <2>1, Compared, Pixels
    <2> QED  BY <2>2 DEF Ordered, Order
  <1> QED  BY <1>1, <1>2, <1>3, <1>4, <1>5, <1>6, <1>7

\* When the rows are sorted, each sample has one in the next column that is not
\* smaller.
LEMMA RowsRise ==
    ASSUME Types', Ordered(10)'
    PROVE  Rising'
  <1> SUFFICES ASSUME NEW v \in Int
               PROVE  /\ Column(v, 0, 3, 6)' <= Column(v, 1, 4, 7)'
                      /\ Column(v, 1, 4, 7)' <= Column(v, 2, 5, 8)'
    BY DEF Rising
  <1>1. \A i \in Pixel : p'[i] \in Int
    BY DEF Types
  <1>2. /\ p'[0] <= p'[1] /\ p'[1] <= p'[2] /\ p'[3] <= p'[4] /\ p'[4] <= p'[5]
        /\ p'[6] <= p'[7] /\ p'[7] <= p'[8]
    BY DEF Ordered, Order
  <1>3. \A i \in Pixel : Above(v, i)' \in {0, 1}
    BY DEF Above
  <1>4. \A i, j \in Pixel : p'[i] <= p'[j] => Above(v, i)' <= Above(v, j)'
    BY <1>1 DEF Above
  <1>5. /\ Above(v, 0)' <= Above(v, 1)' /\ Above(v, 1)' <= Above(v, 2)'
        /\ Above(v, 3)' <= Above(v, 4)' /\ Above(v, 4)' <= Above(v, 5)'
        /\ Above(v, 6)' <= Above(v, 7)' /\ Above(v, 7)' <= Above(v, 8)'
    BY <1>2, <1>4, Pixels
  <1> QED  BY <1>3, <1>5, Pixels DEF Column

\* A comparison within a column changes no column's number of large samples.
LEMMA ColumnsKeep ==
    ASSUME Types, Rising, PIX_SORT, k \in 10..16
    PROVE  Rising'
  <1> SUFFICES ASSUME NEW v \in Int
               PROVE  /\ Column(v, 0, 3, 6)' = Column(v, 0, 3, 6)
                      /\ Column(v, 1, 4, 7)' = Column(v, 1, 4, 7)
                      /\ Column(v, 2, 5, 8)' = Column(v, 2, 5, 8)
    BY DEF Rising
  <1>1. \A i \in Pixel : Above(v, i) \in {0, 1} /\ Above(v, i)' \in {0, 1}
    BY DEF Above
  <1>2. ASSUME NEW a \in Pixel, NEW b \in Pixel, a # b, Network[k] = <<a, b>>
        PROVE  /\ \/ Above(v, a)' = Above(v, a) /\ Above(v, b)' = Above(v, b)
                  \/ Above(v, a)' = Above(v, b) /\ Above(v, b)' = Above(v, a)
               /\ \A i \in Pixel : i # a /\ i # b => Above(v, i)' = Above(v, i)
    BY <1>2, Compared DEF Above
  <1>3. CASE k \in {10, 13}
    <2>1. Network[k] \in {<<0, 3>>, <<3, 6>>}
      BY <1>3 DEF Network
    <2> QED  BY <1>1, <1>2, <2>1, Pixels DEF Column
  <1>4. CASE k \in {11, 15}
    <2>1. Network[k] \in {<<5, 8>>, <<2, 5>>}
      BY <1>4 DEF Network
    <2> QED  BY <1>1, <1>2, <2>1, Pixels DEF Column
  <1>5. CASE k \in {12, 14, 16}
    <2>1. Network[k] \in {<<4, 7>>, <<1, 4>>}
      BY <1>5 DEF Network
    <2> QED  BY <1>1, <1>2, <2>1, Pixels DEF Column
  <1> QED  BY <1>3, <1>4, <1>5

\* What the columns know of each other when each has been used: of the first only
\* the largest can exceed the median of the second, of the third only the smallest
\* can be below it, and the extremes are in order.
Crossing ==
    /\ p[0] <= p[4] /\ p[3] <= p[4] /\ p[4] <= p[5] /\ p[4] <= p[8]
    /\ p[6] <= p[7] /\ p[1] <= p[2]

LEMMA ColumnsCross ==
    ASSUME Types, Ordered(17), Rising
    PROVE  Crossing
  <1>1. \A i \in Pixel : p[i] \in Int
    BY DEF Types
  <1>2. /\ p[0] <= p[6] /\ p[3] <= p[6] /\ p[2] <= p[5] /\ p[2] <= p[8]
        /\ p[1] <= p[4] /\ p[4] <= p[7]
    BY DEF Ordered, Order
  <1>3. \A v \in Int, i \in Pixel : Above(v, i) \in {0, 1} /\ (Above(v, i) = 1 <=> p[i] > v)
    BY DEF Above
  <1>4. p[0] <= p[4] /\ p[3] <= p[4]
    <2>1. Column(p[4], 0, 3, 6) <= Column(p[4], 1, 4, 7)
      BY <1>1, Pixels DEF Rising
    <2> QED  BY <1>1, <1>2, <1>3, <2>1, Pixels DEF Column
  <1>5. p[6] <= p[7]
    <2>1. Column(p[7], 0, 3, 6) <= Column(p[7], 1, 4, 7)
      BY <1>1, Pixels DEF Rising
    <2> QED  BY <1>1, <1>2, <1>3, <2>1, Pixels DEF Column
  <1>6. p[4] <= p[5] /\ p[4] <= p[8]
    <2>1. Column(p[4] - 1, 1, 4, 7) <= Column(p[4] - 1, 2, 5, 8)
      BY <1>1, Pixels DEF Rising
    <2>2. p[4] - 1 \in Int
      BY <1>1, Pixels
    <2> QED  BY <1>1, <1>2, <1>3, <2>1, <2>2, Pixels DEF Column
  <1>7. p[1] <= p[2]
    <2>1. Column(p[1] - 1, 1, 4, 7) <= Column(p[1] - 1, 2, 5, 8)
      BY <1>1, Pixels DEF Rising
    <2>2. p[1] - 1 \in Int
      BY <1>1, Pixels
    <2> QED  BY <1>1, <1>2, <1>3, <2>1, <2>2, Pixels DEF Column
  <1> QED  BY <1>4, <1>5, <1>6, <1>7 DEF Crossing

\* Comparisons 17 to 19: the middle of the three that the columns gave.
LEMMA SortsMiddle ==
    ASSUME Types, Ordered(k), PIX_SORT, k = 17 => Crossing, k \in 17..19
    PROVE  Ordered(k)'
  <1>1. CASE k = 17
    <2>1. /\ Network[k] = <<4, 2>> /\ p[0] <= p[6] /\ p[3] <= p[6] /\ p[2] <= p[5]
          /\ p[2] <= p[8] /\ p[1] <= p[4] /\ p[4] <= p[7] /\ p[0] <= p[4]
          /\ p[3] <= p[4] /\ p[4] <= p[5] /\ p[4] <= p[8] /\ p[6] <= p[7]
          /\ p[1] <= p[2]
      BY <1>1 DEF Network, Ordered, Order, Crossing
    <2>2. /\ k' = 18 /\ p'[0] <= p'[6] /\ p'[3] <= p'[6] /\ p'[0] <= p'[2]
          /\ p'[3] <= p'[2] /\ p'[4] <= p'[2] /\ p'[1] <= p'[4] /\ p'[4] <= p'[7]
          /\ p'[6] <= p'[7] /\ p'[2] <= p'[5] /\ p'[2] <= p'[8]
      BY <1>1, <2>1, Compared, Pixels
    <2> QED  BY <2>2 DEF Ordered, Order
  <1>2. CASE k = 18
    <2>1. /\ Network[k] = <<6, 4>> /\ p[0] <= p[6] /\ p[3] <= p[6] /\ p[0] <= p[2]
          /\ p[3] <= p[2] /\ p[4] <= p[2] /\ p[1] <= p[4] /\ p[4] <= p[7]
          /\ p[6] <= p[7] /\ p[2] <= p[5] /\ p[2] <= p[8]
      BY <1>2 DEF Network, Ordered, Order
    <2>2. /\ k' = 19 /\ p'[0] <= p'[4] /\ p'[3] <= p'[4] /\ p'[1] <= p'[4]
          /\ p'[6] <= p'[4] /\ p'[0] <= p'[2] /\ p'[3] <= p'[2] /\ p'[1] <= p'[2]
          /\ p'[6] <= p'[2] /\ p'[4] <= p'[7] /\ p'[2] <= p'[5] /\ p'[2] <= p'[8]
      BY <1>2, <2>1, Compared, Pixels
    <2> QED  BY <2>2 DEF Ordered, Order
  <1>3. CASE k = 19
    <2>1. /\ Network[k] = <<4, 2>> /\ p[0] <= p[4] /\ p[3] <= p[4] /\ p[1] <= p[4]
          /\ p[6] <= p[4] /\ p[0] <= p[2] /\ p[3] <= p[2] /\ p[1] <= p[2]
          /\ p[6] <= p[2] /\ p[4] <= p[7] /\ p[2] <= p[5] /\ p[2] <= p[8]
      BY <1>3 DEF Network, Ordered, Order
    <2>2. /\ k' = 20 /\ p'[0] <= p'[4] /\ p'[3] <= p'[4] /\ p'[1] <= p'[4]
          /\ p'[6] <= p'[4] /\ p'[4] <= p'[2] /\ p'[4] <= p'[7] /\ p'[4] <= p'[5]
          /\ p'[4] <= p'[8]
      BY <1>3, <2>1, Compared, Pixels
    <2> QED  BY <2>2 DEF Ordered, Order
  <1> QED  BY <1>1, <1>2, <1>3

LEMMA SortingKept ==
    ASSUME Types, Sorting, PIX_SORT
    PROVE  Sorting'
  <1>1. k' = k + 1 /\ k \in 1..19
    <2>1. Len(Network) = 19
      BY DEF Network
    <2> QED  BY <2>1 DEF PIX_SORT, Types
  <1>2. CASE k \in 1..9
    <2>1. Ordered(k)'
      BY <1>2, SortsRows DEF Sorting
    <2>2. ASSUME k' = 10 PROVE Rising'
      <3>1. Ordered(10)'
        BY <2>1, <2>2 DEF Ordered
      <3>2. Types'
        BY TypesKept DEF Next
      <3> QED  BY <3>1, <3>2, RowsRise
    <2> QED  BY <1>1, <1>2, <2>1, <2>2 DEF Sorting
  <1>3. CASE k \in 10..16
    BY <1>1, <1>3, SortsColumns, ColumnsKeep DEF Sorting
  <1>4. CASE k \in 17..19
    <2>1. k = 17 => Crossing
      BY ColumnsCross DEF Sorting
    <2> QED  BY <1>1, <1>4, <2>1, SortsMiddle DEF Sorting
  <1> QED  BY <1>1, <1>2, <1>3, <1>4

\* The median in the middle.
LEMMA Middle ==
    ASSUME Ordered(20)
    PROVE  /\ p[0] <= p[4] /\ p[1] <= p[4] /\ p[3] <= p[4] /\ p[6] <= p[4]
           /\ p[4] <= p[2] /\ p[4] <= p[5] /\ p[4] <= p[7] /\ p[4] <= p[8]
  BY DEF Ordered, Order

--------------------------------------------------------------------------------
(* Counting *)

LEMMA PixelsFinite ==
    IsFiniteSet(Pixel) /\ Cardinality(Pixel) = 9 /\ \A T \in SUBSET Pixel : IsFiniteSet(T)
  <1>1. 0 \in Int /\ 8 \in Int
    OBVIOUS
  <1>2. IsFiniteSet(0..8) /\ Cardinality(0..8) = IF 0 > 8 THEN 0 ELSE 8 - 0 + 1
    BY <1>1, FS_Interval
  <1>3. IsFiniteSet(Pixel) /\ Cardinality(Pixel) = 9
    BY <1>2 DEF Pixel
  <1> QED  BY <1>3, FS_Subset

\* As many samples of the buffer as of the array being sorted have a property.
LEMMA SameNumber ==
    ASSUME Types, Shuffled, NEW S
    PROVE  Cardinality({i \in Pixel : p[i] \in S})
         = Cardinality({i \in Pixel : sample_buffer[i] \in S})
  <1> DEFINE A == {i \in Pixel : p[i] \in S}
             B == {i \in Pixel : sample_buffer[i] \in S}
  <1>1. PICK f \in Bijection(Pixel, Pixel) : \A i \in Pixel : p[i] = sample_buffer[f[i]]
    BY DEF Shuffled
  <1>2. /\ f \in [Pixel -> Pixel]
        /\ \A i, j \in Pixel : f[i] = f[j] => i = j
        /\ \A j \in Pixel : \E i \in Pixel : f[i] = j
    BY Fun_BijectionProperties
  <1> DEFINE g == [i \in A |-> f[i]]
  <1>3. g \in [A -> B]
    BY <1>1, <1>2
  <1>4. \A i, j \in A : g[i] = g[j] => i = j
    BY <1>2
  <1>5. \A j \in B : \E i \in A : g[i] = j
    BY <1>1, <1>2
  <1>6. IsFiniteSet(A)
    BY PixelsFinite
  <1> HIDE DEF A, B, g
  <1>7. g \in Bijection(A, B)
    BY <1>3, <1>4, <1>5, Fun_IsBij
  <1>8. ExistsBijection(A, B)
    BY <1>7, Fun_ExistsBij
  <1>9. Cardinality(B) = Cardinality(A)
    BY <1>6, <1>8, FS_Bijection
  <1> QED  BY <1>9 DEF A, B

LEMMA OneMore ==
    ASSUME NEW S, NEW x, IsFiniteSet(S)
    PROVE  /\ IsFiniteSet(S \cup {x})
           /\ Cardinality(S) \in Nat /\ Cardinality(S \cup {x}) \in Nat
           /\ Cardinality(S \cup {x}) <= Cardinality(S) + 1
  <1>1. /\ IsFiniteSet(S \cup {x})
        /\ Cardinality(S \cup {x}) = IF x \in S THEN Cardinality(S) ELSE Cardinality(S) + 1
    BY FS_AddElement
  <1>2. Cardinality(S) \in Nat
    BY FS_CardinalityType
  <1> QED  BY <1>1, <1>2

LEMMA Four ==
    ASSUME NEW a, NEW b, NEW c, NEW d
    PROVE  /\ IsFiniteSet({a, b, c, d})
           /\ Cardinality({a, b, c, d}) \in Nat /\ Cardinality({a, b, c, d}) <= 4
  <1> DEFINE two == {a} \cup {b}
             three == two \cup {c}
             four == three \cup {d}
  <1>1. IsFiniteSet({a}) /\ Cardinality({a}) = 1
    BY FS_Singleton
  <1>2. {a, b, c, d} = four
    OBVIOUS
  <1>3. IsFiniteSet(two) /\ Cardinality(two) \in Nat /\ Cardinality(two) <= Cardinality({a}) + 1
    BY <1>1, OneMore
  <1> HIDE DEF two
  <1>4. IsFiniteSet(three) /\ Cardinality(three) \in Nat /\ Cardinality(three) <= Cardinality(two) + 1
    BY <1>3, OneMore
  <1> HIDE DEF three
  <1>5. IsFiniteSet(four) /\ Cardinality(four) \in Nat /\ Cardinality(four) <= Cardinality(three) + 1
    BY <1>4, OneMore
  <1> HIDE DEF four
  <1> QED  BY <1>1, <1>2, <1>3, <1>4, <1>5

\* The positions that the median is not above, and not below, with itself in the
\* middle.
Lower == {0, 1, 3, 6}
Upper == {2, 5, 7, 8}

LEMMA Halves ==
    ASSUME NEW H, H = Lower \/ H = Upper
    PROVE  IsFiniteSet(H) /\ Cardinality(H) \in Nat /\ Cardinality(H) <= 4
  <1>1. /\ IsFiniteSet({0, 1, 3, 6})
        /\ Cardinality({0, 1, 3, 6}) \in Nat /\ Cardinality({0, 1, 3, 6}) <= 4
    BY Four, Zenon
  <1>2. /\ IsFiniteSet({2, 5, 7, 8})
        /\ Cardinality({2, 5, 7, 8}) \in Nat /\ Cardinality({2, 5, 7, 8}) <= 4
    BY Four, Zenon
  <1> QED  BY <1>1, <1>2 DEF Lower, Upper

\* At most four positions are in a half, and at least five outside.
LEMMA Few ==
    ASSUME NEW H, H = Lower \/ H = Upper, NEW T \in SUBSET H
    PROVE  Cardinality(T) \in Nat /\ Cardinality(T) <= 4
  <1>1. IsFiniteSet(T) /\ Cardinality(T) <= Cardinality(H)
    BY Halves, FS_Subset
  <1>2. Cardinality(T) \in Nat
    BY <1>1, FS_CardinalityType
  <1> QED  BY <1>1, <1>2, Halves

LEMMA Many ==
    ASSUME NEW H, H = Lower \/ H = Upper, NEW T \in SUBSET Pixel, Pixel \ T \subseteq H
    PROVE  Cardinality(T) \in Nat /\ Cardinality(T) >= 5
  <1> DEFINE R == Pixel \ T
  <1>1. Cardinality(R) \in Nat /\ Cardinality(R) <= 4
    BY Few
  <1>2. IsFiniteSet(T) /\ IsFiniteSet(R) /\ T \cap R = {} /\ T \cup R = Pixel
    BY PixelsFinite
  <1>3. Cardinality(Pixel) = 9
    BY PixelsFinite
  <1>4. Cardinality(T \cup R) = Cardinality(T) + Cardinality(R) - Cardinality(T \cap R)
    BY <1>2, FS_Union
  <1>5. Cardinality(T \cap R) = 0 /\ Cardinality(T) \in Nat
    BY <1>2, FS_EmptySet, FS_CardinalityType
  <1> HIDE DEF R
  <1>6. 9 = Cardinality(T) + Cardinality(R) - 0
    BY <1>2, <1>3, <1>4, <1>5, Zenon
  <1> QED  BY <1>1, <1>5, <1>6

--------------------------------------------------------------------------------
(* The invariant *)

\* Every comparison is between two different positions.
LEMMA Positions ==
    ASSUME Types, PIX_SORT
    PROVE  \E a, b \in Pixel : a # b /\ Network[k] = <<a, b>>
  <1>1. k \in 1..19
    <2>1. Len(Network) = 19
      BY DEF Network
    <2> QED  BY <2>1 DEF PIX_SORT, Types
  <1>2. /\ Network[k] \in Pixel \X Pixel
        /\ Network[k][1] # Network[k][2]
    BY <1>1 DEF Network, Pixel
  <1> QED  BY <1>2

LEMMA ShuffledKept ==
    ASSUME Types, Shuffled, PIX_SORT
    PROVE  Shuffled'
  <1>1. PICK f \in Bijection(Pixel, Pixel) : \A i \in Pixel : p[i] = sample_buffer[f[i]]
    BY DEF Shuffled
  <1>2. /\ f \in [Pixel -> Pixel]
        /\ \A i, j \in Pixel : f[i] = f[j] => i = j
        /\ \A j \in Pixel : \E i \in Pixel : f[i] = j
    BY Fun_BijectionProperties
  <1>3. sample_buffer' = sample_buffer
    BY DEF PIX_SORT
  <1>4. PICK a, b \in Pixel : a # b /\ Network[k] = <<a, b>>
    BY Positions
  <1>5. CASE p'[a] = p[a] /\ p'[b] = p[b]
    <2>1. \A i \in Pixel : p'[i] = sample_buffer'[f[i]]
      BY <1>1, <1>3, <1>4, <1>5, Compared
    <2> QED  BY <2>1 DEF Shuffled
  <1>6. CASE p'[a] = p[b] /\ p'[b] = p[a]
    <2> DEFINE g == [f EXCEPT ![a] = f[b], ![b] = f[a]]
    <2>1. /\ g \in [Pixel -> Pixel] /\ g[a] = f[b] /\ g[b] = f[a]
          /\ \A i \in Pixel : i # a /\ i # b => g[i] = f[i]
      BY <1>2, <1>4
    <2> HIDE DEF g
    <2>2. \A i, j \in Pixel : g[i] = g[j] => i = j
      BY <1>2, <1>4, <2>1
    <2>3. \A j \in Pixel : \E i \in Pixel : g[i] = j
      <3> SUFFICES ASSUME NEW j \in Pixel PROVE \E i \in Pixel : g[i] = j
        OBVIOUS
      <3>1. PICK i \in Pixel : f[i] = j
        BY <1>2
      <3> QED  BY <1>4, <2>1, <3>1
    <2>4. g \in Bijection(Pixel, Pixel)
      BY <2>1, <2>2, <2>3, Fun_IsBij
    <2>5. \A i \in Pixel : p'[i] = sample_buffer'[g[i]]
      BY <1>1, <1>3, <1>4, <1>6, <2>1, Compared
    <2> QED  BY <2>4, <2>5 DEF Shuffled
  <1> QED  BY <1>4, <1>5, <1>6, Compared

\* The identity is an order.
LEMMA Identity == [i \in Pixel |-> i] \in Bijection(Pixel, Pixel)
  <1> DEFINE id == [i \in Pixel |-> i]
  <1>1. id \in [Pixel -> Pixel] /\ \A i \in Pixel : id[i] = i
    OBVIOUS
  <1> HIDE DEF id
  <1>2. id \in Bijection(Pixel, Pixel)
    BY <1>1, Fun_IsBij
  <1> QED  BY <1>2 DEF id

\* With the greater part of the batch in an interval, so is the median.
LEMMA MiddleInside ==
    ASSUME Types, Shuffled, Ordered(20), NEW a \in Int, NEW b \in Int,
           Cardinality({i \in Pixel : a <= sample_buffer[i] /\ sample_buffer[i] <= b}) > 4
    PROVE  a <= p[4] /\ p[4] <= b
  <1> DEFINE S == {v \in Int : a <= v /\ v <= b}
             T == {i \in Pixel : p[i] \in S}
  <1>1. /\ \A i \in Pixel : p[i] \in Int /\ sample_buffer[i] \in Int
        /\ p[4] \in Int
    BY Pixels DEF Types
  <1>2. {i \in Pixel : sample_buffer[i] \in S}
      = {i \in Pixel : a <= sample_buffer[i] /\ sample_buffer[i] <= b}
    BY <1>1
  <1>3. \A i \in T : i \in Pixel /\ a <= p[i] /\ p[i] <= b /\ p[i] \in Int
    OBVIOUS
  <1> HIDE DEF S
  <1>4. Cardinality(T) > 4
    BY <1>2, SameNumber
  <1> HIDE DEF T
  <1>5. ASSUME p[4] < a PROVE FALSE
    <2>1. T \in SUBSET Upper
      BY <1>1, <1>3, <1>5, Middle, Pixels DEF Upper
    <2>2. Cardinality(T) \in Nat /\ Cardinality(T) <= 4
      BY <2>1, Few
    <2> QED  BY <1>4, <2>2
  <1>6. ASSUME b < p[4] PROVE FALSE
    <2>1. T \in SUBSET Lower
      BY <1>1, <1>3, <1>6, Middle, Pixels DEF Lower
    <2>2. Cardinality(T) \in Nat /\ Cardinality(T) <= 4
      BY <2>1, Few
    <2> QED  BY <1>4, <2>2
  <1> QED  BY <1>1, <1>5, <1>6

\* Nor does the weighted mean leave the interval, when it is rounded down.
LEMMA FilterInside ==
    ASSUME Types, NEW v \in Int, NEW a \in Int, NEW b \in Int, a <= v, v <= b,
           a <= Adc_Filter_Value, Adc_Filter_Value <= b
    PROVE  a <= Filtered(v) /\ Filtered(v) <= b
  <1>1. Adc_Filter_Value \in Int
    BY DEF Types
  <1> QED  BY <1>1, SMT DEF Filtered

LEMMA InsideKept ==
    ASSUME IInv, [Next]_vars
    PROVE  Inside'
  <1>1. Types /\ Shuffled /\ Ordered(k) /\ Inside
    BY DEF IInv, Sorting
  <1>2. CASE io_adc_init
    BY <1>1, <1>2 DEF io_adc_init, Inside
  <1>3. CASE adc_read_failed
    BY <1>1, <1>3 DEF adc_read_failed, Inside
  <1>4. ASSUME NEW b \in Batch, adc_read(b)
        PROVE  Inside'
    BY <1>1, <1>4 DEF adc_read, Steady, Inside
  <1>5. CASE PIX_SORT
    BY <1>1, <1>5 DEF PIX_SORT, Inside
  <1>6. CASE io_adc_task
    <2>1. k = 20
      <3>1. Len(Network) = 19
        BY DEF Network
      <3> QED  BY <1>1, <1>6, <3>1 DEF io_adc_task, Types
    <2>2. /\ pc = "sort" /\ pc' = "sleep" /\ first' = FALSE /\ steady' = steady
          /\ Adc_Filter_Value' = IF first THEN p[4] ELSE Filtered(p[4])
      BY <1>6 DEF io_adc_task
    <2>3. ASSUME NEW ab \in steady
          PROVE  ab[1] <= Adc_Filter_Value' /\ Adc_Filter_Value' <= ab[2]
      <3>1. ab[1] \in Int /\ ab[2] \in Int /\ p[4] \in Int
        BY <1>1, CodeAssumption, Pixels DEF Types
      <3>2. ab[1] <= p[4] /\ p[4] <= ab[2]
        BY <1>1, <2>1, <2>2, <3>1, MiddleInside DEF Inside
      <3>3. CASE first
        BY <2>2, <3>2, <3>3
      <3>4. CASE ~first
        BY <1>1, <2>2, <3>1, <3>2, <3>4, FilterInside DEF Inside
      <3> QED  BY <3>3, <3>4
    <2> QED  BY <2>2, <2>3 DEF Inside
  <1>7. CASE Wake
    BY <1>1, <1>7 DEF Wake, Inside
  <1>8. CASE UNCHANGED vars
    BY <1>1, <1>8 DEF vars, Inside
  <1> QED  BY <1>2, <1>3, <1>4, <1>5, <1>6, <1>7, <1>8 DEF Next, Read

LEMMA Inductive == IInv /\ [Next]_vars => IInv'
  <1> SUFFICES ASSUME IInv, [Next]_vars PROVE IInv'
    OBVIOUS
  <1>1. Types' /\ Inside'
    BY TypesKept, InsideKept DEF IInv
  <1>2. CASE PIX_SORT
    BY <1>1, <1>2, ShuffledKept, SortingKept DEF IInv
  <1>3. ASSUME NEW b \in Batch, adc_read(b)
        PROVE  IInv'
    <2>1. p' = sample_buffer' /\ k' = 1
      BY <1>3 DEF adc_read
    <2>2. Shuffled'
      BY <2>1, Identity DEF Shuffled
    <2>3. Sorting'
      BY <2>1 DEF Sorting, Ordered, Order
    <2> QED  BY <1>1, <2>2, <2>3 DEF IInv
  <1>4. CASE UNCHANGED <<sample_buffer, p, k>>
    BY <1>1, <1>4 DEF IInv, Shuffled, Sorting, Ordered, Rising, Column, Above
  <1>5. PIX_SORT \/ (\E b \in Batch : adc_read(b)) \/ UNCHANGED <<sample_buffer, p, k>>
    BY DEF Next, Read, io_adc_init, adc_read_failed, io_adc_task, Wake, vars
  <1> QED  BY <1>2, <1>3, <1>4, <1>5

LEMMA Starts == Init => IInv
  <1> SUFFICES ASSUME Init PROVE IInv
    OBVIOUS
  <1>1. Types
    BY DEF Init, Types
  <1>2. Shuffled
    BY Identity DEF Init, Shuffled
  <1>3. Sorting
    BY DEF Init, Sorting, Ordered, Order
  <1>4. Inside
    BY DEF Init, Inside
  <1> QED  BY <1>1, <1>2, <1>3, <1>4 DEF IInv

--------------------------------------------------------------------------------
(* What the task promises *)

\* The nineteen comparisons find the median (io_adc.c:137).
THEOREM AlwaysFindsMedian == FairSpec => []FindsMedian
  <1>1. IInv => Rearranged
    <2> SUFFICES ASSUME IInv, NEW v \in Code
                 PROVE  Cardinality({i \in Pixel : p[i] = v}) =
                        Cardinality({i \in Pixel : sample_buffer[i] = v})
      BY DEF Rearranged
    <2>1. Cardinality({i \in Pixel : p[i] \in {v}})
        = Cardinality({i \in Pixel : sample_buffer[i] \in {v}})
      BY SameNumber DEF IInv
    <2>2. /\ {i \in Pixel : p[i] \in {v}} = {i \in Pixel : p[i] = v}
          /\ {i \in Pixel : sample_buffer[i] \in {v}} = {i \in Pixel : sample_buffer[i] = v}
      OBVIOUS
    <2> QED  BY <2>1, <2>2
  <1>2. IInv /\ Sorted =>
            /\ Cardinality({i \in Pixel : sample_buffer[i] <= p[4]}) >= 5
            /\ Cardinality({i \in Pixel : sample_buffer[i] >= p[4]}) >= 5
    <2> SUFFICES ASSUME IInv, Sorted
                 PROVE  /\ Cardinality({i \in Pixel : sample_buffer[i] <= p[4]}) >= 5
                        /\ Cardinality({i \in Pixel : sample_buffer[i] >= p[4]}) >= 5
      OBVIOUS
    <2>1. Types /\ Shuffled /\ Ordered(20)
      BY DEF IInv, Sorting, Sorted, Types
    <2>2. \A i \in Pixel : p[i] \in Int /\ sample_buffer[i] \in Int
      BY <2>1 DEF Types
    <2>3. Cardinality({i \in Pixel : sample_buffer[i] <= p[4]}) >= 5
      <3> DEFINE S == {v \in Int : v <= p[4]}
                 T == {i \in Pixel : p[i] \in S}
      <3>1. {i \in Pixel : sample_buffer[i] \in S} = {i \in Pixel : sample_buffer[i] <= p[4]}
        BY <2>2
      <3>2. T \in SUBSET Pixel /\ Pixel \ T \subseteq Upper
        BY <2>1, <2>2, Middle, Pixels DEF Upper
      <3> HIDE DEF S
      <3>3. Cardinality(T) = Cardinality({i \in Pixel : sample_buffer[i] \in S})
        BY <2>1, SameNumber
      <3> HIDE DEF T
      <3>4. Cardinality(T) >= 5
        BY <3>2, Many
      <3> QED  BY <3>1, <3>3, <3>4
    <2>4. Cardinality({i \in Pixel : sample_buffer[i] >= p[4]}) >= 5
      <3> DEFINE S == {v \in Int : v >= p[4]}
                 T == {i \in Pixel : p[i] \in S}
      <3>1. {i \in Pixel : sample_buffer[i] \in S} = {i \in Pixel : sample_buffer[i] >= p[4]}
        BY <2>2
      <3>2. T \in SUBSET Pixel /\ Pixel \ T \subseteq Lower
        BY <2>1, <2>2, Middle, Pixels DEF Lower
      <3> HIDE DEF S
      <3>3. Cardinality(T) = Cardinality({i \in Pixel : sample_buffer[i] \in S})
        BY <2>1, SameNumber
      <3> HIDE DEF T
      <3>4. Cardinality(T) >= 5
        BY <3>2, Many
      <3> QED  BY <3>1, <3>3, <3>4
    <2> QED  BY <2>3, <2>4
  <1>3. IInv => FindsMedian
    BY <1>1, <1>2 DEF FindsMedian
  <1> QED  BY <1>3, Starts, Inductive, PTL DEF FairSpec, Spec

\* A minority of wild samples has no effect, whatever the filter has seen
\* (io_adc.c:185).
THEOREM AlwaysRejectsSpikes == FairSpec => []SpikesRejected
  <1>1. IInv => SpikesRejected
    BY DEF IInv, Types, Inside, SpikesRejected, Sorted
  <1> QED  BY <1>1, Starts, Inductive, PTL DEF FairSpec, Spec
================================================================================
