------------------------------ MODULE EmfatProofs ------------------------------
(***************************************************************************)
(* For every size of the three files and every geometry: the FAT a host    *)
(* reads is a function of the files alone.  The clusters of the entries    *)
(* are consecutive (Layout), so at most one entry owns a cluster and       *)
(* find_entry finds it from wherever it starts (LookupFindsOwner); the     *)
(* loop over a sector therefore adds the right value in each turn (Loop).  *)
(* And a host that follows the disk copies each file: an answer is right   *)
(* for its sector (Answers), and the host's place in the chain and the     *)
(* bytes it has are those of the file (HostInv).                           *)
(***************************************************************************)
EXTENDS EmfatProps, TLAPS

Arrays ==
    /\ first_clust \in [Entry -> Int]
    /\ last_clust \in [Entry -> Int]
    /\ last_reserved \in [Entry -> Int]
    /\ clust \in Int /\ i \in 0..4

\* What emfat_init has laid out so far.
Layout ==
    /\ i = 0 => clust = 2
    /\ i > 0 => first_clust[0] = 2
    /\ \A e \in Entry : e < i => /\ first_clust[e] <= last_clust[e]
                                 /\ last_reserved[e] = last_clust[e]
    /\ \A e \in Entry : e > 0 /\ e < i => first_clust[e] = last_clust[e - 1] + 1
    /\ \A e \in Entry : e + 1 = i => clust = last_clust[e] + 1

Cursor ==
    /\ pc \in {"emfat_init", "idle", "read", "fat", "answered"}
    /\ pc # "emfat_init" => i = 4
    /\ last_entry \in Entry /\ sector \in Nat

Start == FatOf(sector) * FatValues

Loop ==
    pc = "fat" =>
        /\ le \in Entry
        /\ \E v \in Seq(Int) : data = [kind |-> "fat", values |-> v]
        /\ curr = Start + Len(data.values)
        /\ Start \in Int /\ curr \in Nat /\ curr >= 2

IInv == Arrays /\ Layout /\ Cursor /\ Loop /\ FatIsFixed

--------------------------------------------------------------------------------

\* An entry has at least one cluster.
LEMMA ClustersPositive ==
    ASSUME NEW e \in Entry
    PROVE  /\ Clusters(e, curr_size(e)) \in Nat \ {0}
           /\ max_size(e) = curr_size(e)
<1>1. \A n, m \in Nat : m > 0 => (n + m - 1) \div m \in Nat
    <2>1. \A a \in Nat, m \in Nat \ {0} : a \div m \in Nat
        BY SMT
    <2> TAKE n, m \in Nat
    <2> HAVE m > 0
    <2>2. n + m - 1 \in Nat /\ m \in Nat \ {0}
        OBVIOUS
    <2> QED BY <2>1, <2>2
<1>2. \A n \in Nat : AtLeastOne(n) \in Nat \ {0}
    BY DEF AtLeastOne
<1>3. \A a, b \in Nat \ {0} : a * b \in Nat \ {0}
    BY SMT
<1>4. CLUST \in Nat \ {0} /\ DirEntries * SECT_PER_CLUST \in Nat \ {0}
    BY <1>3, GeometryAssumption DEF CLUST
<1>5. curr_size(e) \in Nat
    BY SizeAssumption DEF curr_size, Entry
<1>6. SIZE_TO_NCLUST(curr_size(e)) \in Nat \ {0}
    <2>1. Ceil(curr_size(e), CLUST) \in Nat
        BY <1>1, <1>4, <1>5 DEF Ceil
    <2> QED BY <2>1, <1>2 DEF SIZE_TO_NCLUST
<1>7. RootClusters \in Nat \ {0}
    <2>1. Ceil(num_subentry, DirEntries * SECT_PER_CLUST) \in Nat
        BY <1>1, <1>4 DEF Ceil, num_subentry
    <2> QED BY <2>1, <1>2 DEF RootClusters
<1> QED BY <1>6, <1>7 DEF Clusters, max_size

\* With the layout finished, two entries do not share a cluster.
LEMMA OneOwner ==
    ASSUME Arrays, Layout, i = 4, NEW c \in Int,
           NEW e \in Owners(c), NEW f \in Owners(c)
    PROVE  e = f
<1>1. /\ first_clust[1] = last_clust[0] + 1 /\ first_clust[2] = last_clust[1] + 1
      /\ first_clust[3] = last_clust[2] + 1
    BY DEF Layout, Entry
<1>2. \A x \in Entry : first_clust[x] <= last_clust[x] /\ last_reserved[x] = last_clust[x]
    BY DEF Layout, Entry
<1>3. \A x \in Entry : first_clust[x] \in Int /\ last_clust[x] \in Int
    BY DEF Arrays
<1>4. e \in 0..3 /\ f \in 0..3 /\ IS_CLUST_OF(c, e) /\ IS_CLUST_OF(c, f)
    BY DEF Owners, Entry
<1> QED BY <1>1, <1>2, <1>3, <1>4 DEF IS_CLUST_OF, Entry

\* The clusters before clust are owned, the others are not.
LEMMA OwnedBelow ==
    ASSUME Arrays, Layout, i = 4, NEW c \in Int, c >= 2
    PROVE  Owners(c) = {} <=> c >= clust
<1>1. /\ first_clust[0] = 2 /\ first_clust[1] = last_clust[0] + 1
      /\ first_clust[2] = last_clust[1] + 1 /\ first_clust[3] = last_clust[2] + 1
      /\ clust = last_clust[3] + 1
    BY DEF Layout, Entry
<1>2. \A x \in Entry : first_clust[x] <= last_clust[x] /\ last_reserved[x] = last_clust[x]
    BY DEF Layout, Entry
<1>3. \A x \in Entry : first_clust[x] \in Int /\ last_clust[x] \in Int
    BY DEF Arrays
<1>4. ASSUME c < clust PROVE \E x \in Entry : IS_CLUST_OF(c, x)
    <2>1. \/ IS_CLUST_OF(c, 0) \/ IS_CLUST_OF(c, 1) \/ IS_CLUST_OF(c, 2) \/ IS_CLUST_OF(c, 3)
        BY <1>1, <1>2, <1>3, <1>4 DEF IS_CLUST_OF, Entry
    <2> QED BY <2>1 DEF Entry
<1>5. ASSUME NEW x \in Entry, IS_CLUST_OF(c, x) PROVE c < clust
    BY <1>1, <1>2, <1>3, <1>5 DEF IS_CLUST_OF, Entry
<1>6. clust \in Int
    BY DEF Arrays
<1> QED BY <1>4, <1>5, <1>6 DEF Owners

\* find_entry, from any entry, finds the owner if there is one.
LEMMA LookupFindsOwner ==
    ASSUME Arrays, Layout, i = 4, NEW c \in Int, c >= 2, NEW near \in Entry
    PROVE  IF Owners(c) = {} THEN Lookup(c, near) = NULL ELSE Lookup(c, near) \in Owners(c)
<1>1. CASE IS_CLUST_OF(c, near)
    BY <1>1 DEF Lookup, Owners
<1>2. CASE ~IS_CLUST_OF(c, near)
    <2> DEFINE back == {e \in Owners(c) : e <= near}
               ahead == {e \in Owners(c) : e >= near}
    <2>1. Lookup(c, near) =
              IF first_clust[near] > c
              THEN IF back = {} THEN NULL
                   ELSE CHOOSE e \in back : \A f \in back : f <= e
              ELSE IF ahead = {} THEN NULL
                   ELSE CHOOSE e \in ahead : \A f \in ahead : e <= f
        BY <1>2 DEF Lookup, find_entry
    <2>2. \A e \in Owners(c) : e \in Entry /\ e \in 0..3
        BY DEF Owners, Entry
    <2>3. \A e, f \in Owners(c) : e = f
        BY OneOwner
    <2>4. ASSUME first_clust[near] > c, NEW e \in Owners(c) PROVE e \in back
        <3>1. /\ first_clust[1] = last_clust[0] + 1 /\ first_clust[2] = last_clust[1] + 1
              /\ first_clust[3] = last_clust[2] + 1
            BY DEF Layout, Entry
        <3>2. \A x \in Entry : first_clust[x] <= last_clust[x]
            BY DEF Layout, Entry
        <3>3. \A x \in Entry : first_clust[x] \in Int /\ last_clust[x] \in Int
            BY DEF Arrays
        <3>4. first_clust[e] <= c /\ e \in 0..3 /\ near \in 0..3
            BY <2>2 DEF Owners, IS_CLUST_OF, Entry
        <3>5. e <= near
            BY <2>4, <3>1, <3>2, <3>3, <3>4 DEF Entry
        <3> QED BY <3>5
    <2>5. ASSUME ~(first_clust[near] > c), NEW e \in Owners(c) PROVE e \in ahead
        <3>1. /\ first_clust[1] = last_clust[0] + 1 /\ first_clust[2] = last_clust[1] + 1
              /\ first_clust[3] = last_clust[2] + 1
            BY DEF Layout, Entry
        <3>2. \A x \in Entry : first_clust[x] <= last_clust[x]
                               /\ last_reserved[x] = last_clust[x]
            BY DEF Layout, Entry
        <3>3. \A x \in Entry : first_clust[x] \in Int /\ last_clust[x] \in Int
            BY DEF Arrays
        <3>4. c <= last_clust[e] /\ e \in 0..3 /\ near \in 0..3
            BY <2>2, <3>2 DEF Owners, IS_CLUST_OF, Entry
        <3>5. e >= near
            BY <2>5, <3>1, <3>2, <3>3, <3>4 DEF Entry
        <3> QED BY <3>5
    <2>6. CASE Owners(c) = {}
        BY <2>1, <2>6
    <2>7. CASE Owners(c) # {}
        <3>1. PICK e : e \in Owners(c)
            BY <2>7
        <3>2. CASE first_clust[near] > c
            <4>1. back = {e}
                BY <2>3, <2>4, <3>1, <3>2
            <4>2. e <= e
                BY <2>2, <3>1
            <4> HIDE DEF back
            <4>3. (CHOOSE x \in back : \A f \in back : f <= x) = e
                BY <4>1, <4>2
            <4> QED BY <2>1, <2>7, <3>1, <3>2, <4>1, <4>3
        <3>3. CASE ~(first_clust[near] > c)
            <4>1. ahead = {e}
                BY <2>3, <2>5, <3>1, <3>3
            <4>2. e <= e
                BY <2>2, <3>1
            <4> HIDE DEF ahead
            <4>3. (CHOOSE x \in ahead : \A f \in ahead : x <= f) = e
                BY <4>1, <4>2
            <4> QED BY <2>1, <2>7, <3>1, <3>3, <4>1, <4>3
        <3> QED BY <3>2, <3>3
    <2> QED BY <2>6, <2>7
<1> QED BY <1>1, <1>2

\* The values that are no clusters are numbers too.
LEMMA ValuesAreNumbers ==
    {CLUST_EOF, CLUST_ROOT_END, CLUST_RESERVED, AllOnes} \subseteq Int
BY SMT DEF CLUST_EOF, CLUST_ROOT_END, CLUST_RESERVED, AllOnes

\* Each turn of the loop of read_fat_sector adds the right value.
LEMMA TurnAddsValue ==
    ASSUME Arrays, Layout, i = 4, NEW c \in Int, c >= 2, NEW near \in Entry
    PROVE  LET e == Lookup(c, near)
           IN  /\ e = NULL \/ e \in Entry
               /\ (IF e = NULL THEN CLUST_RESERVED ELSE ValueIn(e, c)) = FatValue(c)
               /\ FatValue(c) \in Int
<1> DEFINE e == Lookup(c, near)
<1>1. \A x \in Entry : /\ first_clust[x] <= last_clust[x]
                       /\ last_reserved[x] = last_clust[x]
                       /\ first_clust[x] \in Int /\ last_clust[x] \in Int
    BY DEF Layout, Arrays, Entry
<1>2. clust \in Int
    BY DEF Arrays
<1>3. FatValue(c) = IF \E x \in Entry : c = last_clust[x]
                    THEN CLUST_EOF
                    ELSE IF c < clust THEN c + 1 ELSE CLUST_RESERVED
    BY DEF FatValue
<1>4. ASSUME NEW x \in Entry, c = last_clust[x] PROVE x \in Owners(c)
    BY <1>1, <1>4 DEF Owners, IS_CLUST_OF
<1>5. CASE Owners(c) = {}
    <2>1. e = NULL
        BY <1>5, LookupFindsOwner
    <2>2. c >= clust
        BY <1>5, OwnedBelow
    <2>3. FatValue(c) = CLUST_RESERVED
        BY <1>2, <1>3, <1>4, <1>5, <2>2
    <2> QED BY <2>1, <2>3, ValuesAreNumbers
<1>6. CASE Owners(c) # {}
    <2>1. e \in Owners(c)
        BY <1>6, LookupFindsOwner
    <2>2. e \in Entry /\ e # NULL
        BY <2>1, NullAssumption DEF Owners, Entry
    <2>3. c < clust
        BY <1>2, <1>6, OwnedBelow
    <2>4. ASSUME NEW x \in Owners(c)
          PROVE  ValueIn(x, c) = FatValue(c) /\ FatValue(c) \in Int
        <3>1. x \in Entry /\ c <= last_clust[x] /\ last_clust[x] \in Int
            BY <1>1 DEF Owners, IS_CLUST_OF
        <3>2. ~(c > last_clust[x])
            BY <3>1
        <3>3. CASE c = last_clust[x]
            <4>1. FatValue(c) = CLUST_EOF
                BY <1>3, <3>1, <3>3
            <4> QED BY <3>3, <4>1, ValuesAreNumbers DEF ValueIn
        <3>4. CASE c # last_clust[x]
            <4>1. ~\E y \in Entry : c = last_clust[y]
                BY <1>4, <3>4, OneOwner
            <4>2. ValueIn(x, c) = c + 1
                BY <3>2, <3>4 DEF ValueIn
            <4> QED BY <1>3, <2>3, <4>1, <4>2
        <3> QED BY <3>3, <3>4
    <2> QED BY <2>1, <2>2, <2>4
<1> QED BY <1>5, <1>6

--------------------------------------------------------------------------------
\* The steps

LEMMA InitHolds == Init => IInv
<1> SUFFICES ASSUME Init PROVE IInv
    OBVIOUS
<1> USE DEF Init, DiskInit
<1>1. Arrays
    BY DEF Arrays, Root
<1>2. Layout
    BY DEF Layout, Root, Entry
<1>3. Cursor
    BY DEF Cursor, Root, Entry
<1>4. Loop /\ FatIsFixed
    BY DEF Loop, FatIsFixed
<1> QED BY <1>1, <1>2, <1>3, <1>4 DEF IInv

\* The layout is left alone, and no sector of a FAT is under way.
LEMMA OtherSteps ==
    ASSUME IInv, UNCHANGED layoutVars,
           last_entry' \in Entry, sector' \in Nat,
           pc' \in {"idle", "read", "answered"}, pc # "emfat_init" \/ i = 4,
           pc' = "answered" => data'.kind # "fat"
    PROVE  IInv'
<1>1. Arrays' /\ Layout'
    BY DEF IInv, Arrays, Layout, layoutVars
<1>2. Cursor'
    BY DEF IInv, Cursor, layoutVars
<1>3. Loop'
    BY DEF Loop
<1>4. FatIsFixed'
    BY DEF FatIsFixed
<1> QED BY <1>1, <1>2, <1>3, <1>4 DEF IInv

LEMMA InitEntryStep == IInv /\ emfat_init_entry => IInv'
<1> SUFFICES ASSUME IInv, emfat_init_entry PROVE IInv'
    OBVIOUS
<1>1. i \in Entry /\ pc = "emfat_init" /\ pc' = pc /\ i' = i + 1
    BY DEF emfat_init_entry
<1> DEFINE n == Clusters(i, curr_size(i))
<1>2. n \in Nat \ {0}
    BY <1>1, ClustersPositive
<1>3. /\ first_clust' = [first_clust EXCEPT ![i] = clust]
      /\ last_clust' = [last_clust EXCEPT ![i] = clust + n - 1]
      /\ last_reserved' = [last_reserved EXCEPT ![i] = clust + n - 1]
      /\ clust' = clust + n - 1 + 1
    BY <1>1, ClustersPositive DEF emfat_init_entry
<1> HIDE DEF n
<1>4. Arrays /\ Layout
    BY DEF IInv
<1>5. Arrays'
    BY <1>1, <1>2, <1>3, <1>4 DEF Arrays, Entry
<1>6. Layout'
    <2>1. i' > 0 => first_clust'[0] = 2
        BY <1>1, <1>3, <1>4 DEF Arrays, Layout, Entry
    <2>2. \A e \in Entry : e < i' => /\ first_clust'[e] <= last_clust'[e]
                                     /\ last_reserved'[e] = last_clust'[e]
        BY <1>1, <1>2, <1>3, <1>4 DEF Arrays, Layout, Entry
    <2>3. ASSUME NEW e \in Entry, e > 0, e < i'
          PROVE  first_clust'[e] = last_clust'[e - 1] + 1
        <3>1. CASE e = i
            <4>1. e - 1 \in Entry /\ (e - 1) + 1 = i /\ e - 1 # i
                BY <1>1, <2>3, <3>1 DEF Entry
            <4>2. clust = last_clust[e - 1] + 1
                BY <1>4, <4>1 DEF Layout
            <4> QED BY <1>1, <1>3, <1>4, <3>1, <4>1, <4>2 DEF Arrays
        <3>2. CASE e # i
            <4>1. e < i /\ e - 1 \in Entry /\ e - 1 # i
                BY <1>1, <2>3, <3>2 DEF Entry
            <4>2. first_clust[e] = last_clust[e - 1] + 1
                BY <1>4, <2>3, <4>1 DEF Layout
            <4> QED BY <1>1, <1>3, <1>4, <3>2, <4>1, <4>2 DEF Arrays
        <3> QED BY <3>1, <3>2
    <2>4. ASSUME NEW e \in Entry, e + 1 = i' PROVE clust' = last_clust'[e] + 1
        <3>1. e = i
            BY <1>1, <2>4 DEF Entry
        <3> QED BY <1>1, <1>2, <1>3, <1>4, <3>1 DEF Arrays
    <2>5. i' # 0
        BY <1>1 DEF Entry
    <2> QED BY <2>1, <2>2, <2>3, <2>4, <2>5 DEF Layout
<1>7. Cursor'
    BY <1>1 DEF IInv, Cursor, emfat_init_entry
<1>8. Loop' /\ FatIsFixed'
    BY <1>1 DEF Loop, FatIsFixed
<1> QED BY <1>5, <1>6, <1>7, <1>8 DEF IInv

\* What a turn of the loop is, in numbers.
LEMMA ValueStep == IInv /\ read_fat_sector_value => IInv'
<1> SUFFICES ASSUME IInv, read_fat_sector_value PROVE IInv'
    OBVIOUS
<1>1. /\ pc = "fat" /\ pc' = pc /\ UNCHANGED <<layoutVars, last_entry, sector>>
      /\ curr' = curr + 1
    BY DEF read_fat_sector_value
<1>2. Arrays /\ Layout /\ i = 4
    BY <1>1 DEF IInv, Cursor
<1>3. PICK v \in Seq(Int) : data = [kind |-> "fat", values |-> v]
    BY <1>1 DEF IInv, Loop
<1>4. /\ le \in Entry /\ curr = Start + Len(v)
      /\ Start \in Int /\ curr \in Nat /\ curr >= 2
    BY <1>1, <1>3 DEF IInv, Loop
<1> DEFINE e == Lookup(curr, le)
           x == IF e = NULL THEN CLUST_RESERVED ELSE ValueIn(e, curr)
<1>5. (e = NULL \/ e \in Entry) /\ x = FatValue(curr) /\ x \in Int
    BY <1>2, <1>4, TurnAddsValue
<1>6. le' = Kept(e) /\ data' = [data EXCEPT !.values = Append(@, x)]
    BY DEF read_fat_sector_value
<1> HIDE DEF e, x
<1>7. data' = [kind |-> "fat", values |-> Append(v, x)]
    BY <1>3, <1>6
<1>8. le' \in Entry
    BY <1>5, <1>6 DEF Kept, IInv, Cursor
<1>9. Start' = Start /\ FatOf(sector)' = FatOf(sector)
    BY <1>1 DEF Start, FatOf, fat2_lba, fat1_lba, fsinfo_lba, boot_lba,
                sect_per_fat, num_clust, layoutVars
<1>10. Append(v, x) \in Seq(Int) /\ Len(Append(v, x)) = Len(v) + 1 /\ Len(v) \in Nat
    BY <1>3, <1>5
<1>11. Arrays' /\ Layout'
    BY <1>1, <1>2 DEF Arrays, Layout, layoutVars
<1>12. Cursor'
    BY <1>1 DEF IInv, Cursor, layoutVars
<1>13. Loop'
    <2>1. curr' = Start' + Len(data'.values) /\ curr' \in Nat /\ curr' >= 2
        BY <1>1, <1>4, <1>7, <1>9, <1>10
    <2>2. \E w \in Seq(Int) : data' = [kind |-> "fat", values |-> w]
        BY <1>7, <1>10
    <2> QED BY <1>4, <1>8, <1>9, <2>1, <2>2 DEF Loop
<1>14. FatIsFixed'
    <2>1. \A c \in Int : FatValue(c)' = FatValue(c)
        BY <1>1 DEF FatValue, layoutVars
    <2>2. ASSUME NEW k \in 1..Len(Append(v, x))
          PROVE  Append(v, x)[k] = FatValue(Start + k - 1)
        <3>1. CASE k \in 1..Len(v)
            <4>1. v[k] = FatValue(Start + k - 1)
                BY <1>1, <1>3, <3>1 DEF IInv, FatIsFixed, Start
            <4> QED BY <1>3, <1>5, <3>1, <4>1
        <3>2. CASE k = Len(v) + 1
            <4>1. Append(v, x)[k] = x
                BY <1>3, <1>5, <3>2
            <4>2. Start + k - 1 = curr
                BY <1>4, <1>10, <3>2
            <4> QED BY <1>5, <4>1, <4>2
        <3> QED BY <1>10, <2>2, <3>1, <3>2
    <2>3. ASSUME NEW k \in 1..Len(Append(v, x))
          PROVE  Append(v, x)[k] = FatValue(Start + k - 1)'
        <3>1. Start + k - 1 \in Int
            BY <1>4, <1>10
        <3>2. FatValue(Start + k - 1)' = FatValue(Start + k - 1)
            BY <1>1, <1>9 DEF FatValue, layoutVars
        <3> QED BY <2>2, <3>2
    <2> QED BY <1>7, <1>9, <2>3 DEF FatIsFixed, Start
<1> QED BY <1>11, <1>12, <1>13, <1>14 DEF IInv

\* Where the two FATs lie.
LEMMA FatsBehindFsinfo ==
    ASSUME IInv, pc # "emfat_init"
    PROVE  /\ sect_per_fat \in Nat \ {0}
           /\ fat1_lba = 64 /\ fat2_lba = 64 + sect_per_fat
           /\ root_lba = fat2_lba + sect_per_fat
<1>1. num_clust \in Nat
    <2>1. Arrays /\ Layout /\ i = 4
        BY DEF IInv, Cursor
    <2>2. Owners(2) # {}
        <3>1. first_clust[0] = 2 /\ last_reserved[0] >= 2
            BY <2>1 DEF Arrays, Layout, Entry
        <3> QED BY <3>1 DEF Owners, IS_CLUST_OF, Entry
    <2>3. clust \in Int /\ clust > 2
        BY <2>1, <2>2, OwnedBelow DEF Arrays
    <2> QED BY <2>3 DEF num_clust
<1>2. Ceil(num_clust, FatValues) \in Nat
    <2>1. \A a \in Nat, m \in Nat \ {0} : a \div m \in Nat
        BY SMT
    <2>2. FatValues \in Nat \ {0} /\ num_clust + FatValues - 1 \in Nat
        BY <1>1, GeometryAssumption
    <2> QED BY <2>1, <2>2 DEF Ceil
<1>3. sect_per_fat \in Nat \ {0}
    BY <1>2 DEF sect_per_fat, AtLeastOne
<1> QED BY <1>3 DEF fat1_lba, fat2_lba, root_lba, fsinfo_lba, boot_lba

LEMMA InitDoneStep == IInv /\ emfat_init_done => IInv'
<1> SUFFICES ASSUME IInv, emfat_init_done PROVE IInv'
    OBVIOUS
<1>1. i = 4
    BY DEF emfat_init_done, IInv, Arrays, Entry
<1>2. last_entry' \in Entry /\ sector' \in Nat /\ pc' = "idle"
    BY DEF emfat_init_done, IInv, Cursor, Root, Entry
<1>3. UNCHANGED layoutVars
    BY DEF emfat_init_done
<1> QED BY <1>1, <1>2, <1>3, OtherSteps

\* A sector of data may find another entry, or none, and is none of the FAT.
LEMMA DataSectorStep ==
    ASSUME IInv, pc = "read", UNCHANGED <<layoutVars, sector>>,
           sector >= root_lba, read_data_sector(sector - root_lba)
    PROVE  IInv'
<1> DEFINE rel_ == sector - root_lba
           c == rel_ \div SECT_PER_CLUST + 2
           e == Lookup(c, last_entry)
<1>1. Arrays /\ Layout /\ i = 4 /\ last_entry \in Entry /\ sector \in Nat
    BY DEF IInv, Cursor
<1>2. c \in Int /\ c >= 2
    <2>1. \A a \in Nat, m \in Nat \ {0} : a \div m \in Nat
        BY SMT
    <2>2. rel_ \in Nat /\ SECT_PER_CLUST \in Nat \ {0}
        BY <1>1, FatsBehindFsinfo, GeometryAssumption
    <2>3. rel_ \div SECT_PER_CLUST \in Nat
        BY <2>1, <2>2
    <2> QED BY <2>3
<1>3. e = NULL \/ e \in Entry
    BY <1>1, <1>2, TurnAddsValue
<1>4. pc' = "answered" /\ last_entry' = Kept(e)
    BY DEF read_data_sector
<1>5. data'.kind # "fat"
    <2>1. \/ data' = [kind |-> "0xEFBEADDE"]
          \/ data' = fill_dir_sector(rel_ % SECT_PER_CLUST)
          \/ data' = readcb(e, (c - first_clust[e]) * CLUST + (rel_ % SECT_PER_CLUST) * SECT)
        BY DEF read_data_sector
    <2> HIDE DEF e, c, rel_
    <2> QED BY <2>1 DEF fill_dir_sector, readcb
<1> HIDE DEF e
<1>6. last_entry' \in Entry
    BY <1>1, <1>3, <1>4 DEF Kept
<1> QED BY <1>1, <1>4, <1>5, <1>6, OtherSteps

\* The loop starts with the two values that are not of clusters, or with none.
LEMMA FatSectorStep ==
    ASSUME IInv, pc = "read", UNCHANGED <<layoutVars, sector>>,
           FatOf(sector) \in Nat, read_fat_sector(FatOf(sector))
    PROVE  IInv'
<1> DEFINE n == FatOf(sector)
<1>1. Arrays' /\ Layout' /\ Cursor'
    BY DEF IInv, Arrays, Layout, Cursor, layoutVars, read_fat_sector
<1>2. Start' = Start /\ FatOf(sector)' = FatOf(sector)
    BY DEF Start, FatOf, fat2_lba, fat1_lba, fsinfo_lba, boot_lba,
           sect_per_fat, num_clust, layoutVars
<1>3. FatValues \in Nat /\ FatValues >= 2
    BY GeometryAssumption
<1>4. CASE n = 0
    <2>1. Start = 0
        BY <1>3, <1>4 DEF Start
    <2>2. /\ data' = [kind |-> "fat", values |-> <<CLUST_ROOT_END, AllOnes>>]
          /\ curr' = 2 /\ le' \in Entry
        BY <1>4 DEF read_fat_sector, IInv, Cursor
    <2>3. <<CLUST_ROOT_END, AllOnes>> \in Seq(Int) /\ Len(<<CLUST_ROOT_END, AllOnes>>) = 2
        BY ValuesAreNumbers
    <2>4. Loop'
        <3>1. \E v \in Seq(Int) : data' = [kind |-> "fat", values |-> v]
            BY <2>2, <2>3
        <3>2. /\ curr' = Start' + Len(data'.values)
              /\ Start' \in Int /\ curr' \in Nat /\ curr' >= 2
            BY <1>2, <2>1, <2>2, <2>3
        <3> QED BY <2>2, <3>1, <3>2 DEF Loop
    <2>5. FatIsFixed'
        <3>1. /\ FatValue(0)' = CLUST_ROOT_END /\ FatValue(1)' = AllOnes
            BY DEF FatValue
        <3>2. (FatOf(sector) * FatValues)' = 0
            BY <1>2, <2>1 DEF Start
        <3>3. ASSUME NEW k \in 1..2
              PROVE  data'.values[k] = FatValue(FatOf(sector) * FatValues + k - 1)'
            <4>1. CASE k = 1
                <5>1. (FatOf(sector) * FatValues + k - 1)' = 0
                    BY <3>2, <4>1
                <5>2. FatValue(FatOf(sector) * FatValues + k - 1)' = CLUST_ROOT_END
                    BY <5>1 DEF FatValue
                <5> QED BY <2>2, <4>1, <5>2
            <4>2. CASE k = 2
                <5>1. (FatOf(sector) * FatValues + k - 1)' = 1
                    BY <3>2, <4>2
                <5>2. FatValue(FatOf(sector) * FatValues + k - 1)' = AllOnes
                    BY <5>1 DEF FatValue
                <5> QED BY <2>2, <4>2, <5>2
            <4> QED BY <4>1, <4>2
        <3> QED BY <2>2, <2>3, <3>3 DEF FatIsFixed
    <2> QED BY <1>1, <2>4, <2>5 DEF IInv
<1>5. CASE n # 0
    <2>1. \A a, b \in Nat : a # 0 /\ b >= 2 => a * b \in Nat /\ a * b >= 2
        BY SMT
    <2>2. Start \in Nat /\ Start >= 2
        BY <1>3, <1>5, <2>1 DEF Start
    <2>3. /\ data' = [kind |-> "fat", values |-> <<>>]
          /\ curr' = Start /\ le' \in Entry
        BY <1>5 DEF read_fat_sector, IInv, Cursor, Start
    <2>4. Loop'
        <3>1. \E v \in Seq(Int) : data' = [kind |-> "fat", values |-> v]
            <4>1. <<>> \in Seq(Int)
                OBVIOUS
            <4> QED BY <2>3, <4>1
        <3>2. curr' = Start' + Len(data'.values) /\ Start' \in Int /\ curr' \in Nat
            BY <1>2, <2>2, <2>3
        <3> QED BY <1>2, <2>2, <2>3, <3>1, <3>2 DEF Loop
    <2>5. FatIsFixed'
        BY <2>3 DEF FatIsFixed
    <2> QED BY <1>1, <2>4, <2>5 DEF IInv
<1> QED BY <1>4, <1>5

LEMMA ReadStep == IInv /\ emfat_read => IInv'
<1> SUFFICES ASSUME IInv, emfat_read PROVE IInv'
    OBVIOUS
<1>1. pc = "read" /\ UNCHANGED <<layoutVars, sector>>
    BY DEF emfat_read
<1>2. sector \in Nat /\ last_entry \in Entry
    BY DEF IInv, Cursor
<1>3. ASSUME NEW d, d.kind # "fat", Plain(d) PROVE IInv'
    BY <1>1, <1>2, <1>3, OtherSteps DEF Plain
<1>4. CASE sector >= root_lba /\ read_data_sector(sector - root_lba)
    BY <1>1, <1>4, DataSectorStep
<1>5. CASE \/ Plain([kind |-> "mbr", StartLBA |-> boot_lba])
           \/ Plain([kind |-> "fsinfo"])
           \/ Plain([kind |-> "boot", sectors_per_fat |-> fat2_lba - fat1_lba])
           \/ Plain(Nothing)
    BY <1>3, <1>5 DEF Nothing
<1>6. CASE sector >= fat1_lba /\ sector < fat2_lba /\ read_fat_sector(sector - fat1_lba)
    <2>1. FatOf(sector) = sector - fat1_lba /\ FatOf(sector) \in Nat
        BY <1>1, <1>2, <1>6, FatsBehindFsinfo DEF FatOf
    <2> QED BY <1>1, <1>6, <2>1, FatSectorStep
<1>7. CASE sector >= fat2_lba /\ sector < root_lba /\ read_fat_sector(sector - fat2_lba)
    <2>1. FatOf(sector) = sector - fat2_lba /\ FatOf(sector) \in Nat
        BY <1>1, <1>2, <1>7, FatsBehindFsinfo DEF FatOf
    <2> QED BY <1>1, <1>7, <2>1, FatSectorStep
<1> QED BY <1>4, <1>5, <1>6, <1>7 DEF emfat_read

LEMMA FatEndStep == IInv /\ read_fat_sector_end => IInv'
<1> SUFFICES ASSUME IInv, read_fat_sector_end PROVE IInv'
    OBVIOUS
<1>1. pc = "fat" /\ pc' = "answered" /\ last_entry' = le
      /\ UNCHANGED <<layoutVars, sector, fatVars, data>>
    BY DEF read_fat_sector_end
<1>2. Arrays' /\ Layout' /\ Cursor' /\ Loop'
    BY <1>1 DEF IInv, Arrays, Layout, Cursor, Loop, layoutVars
<1>3. FatIsFixed'
    <2>1. FatIsFixed /\ data.kind = "fat" => \A k \in 1..Len(data.values) :
              data.values[k] = FatValue(FatOf(sector) * FatValues + k - 1)
        BY <1>1 DEF FatIsFixed
    <2>2. FatOf(sector)' = FatOf(sector)
        BY <1>1 DEF FatOf, fat2_lba, fat1_lba, fsinfo_lba, boot_lba,
                    sect_per_fat, num_clust, layoutVars
    <2>3. \A x : FatValue(x)' = FatValue(x)
        BY <1>1 DEF FatValue, layoutVars
    <2> QED BY <1>1, <2>1, <2>2, <2>3 DEF IInv, FatIsFixed, FatValue, layoutVars
<1> QED BY <1>2, <1>3 DEF IInv

LEMMA HostStep ==
    IInv /\ (Read \/ Probe \/ Dropped \/ Delivered) => IInv'
<1> SUFFICES ASSUME IInv, Read \/ Probe \/ Dropped \/ Delivered PROVE IInv'
    OBVIOUS
<1>1. last_entry \in Entry /\ sector \in Nat
    BY DEF IInv, Cursor
<1>2. ASSUME NEW s, disk_access_read(s) PROVE IInv'
    BY <1>1, <1>2, OtherSteps DEF disk_access_read
<1>3. CASE Returned
    BY <1>1, <1>3, OtherSteps DEF Returned
<1> QED BY <1>2, <1>3 DEF Read, Probe, Dropped, Delivered

LEMMA IdleStep == IInv /\ UNCHANGED diskVars => IInv'
<1> SUFFICES ASSUME IInv, UNCHANGED diskVars PROVE IInv'
    OBVIOUS
<1>1. Arrays' /\ Layout' /\ Cursor'
    BY DEF IInv, Arrays, Layout, Cursor, diskVars, layoutVars
<1>2. Start' = Start /\ FatOf(sector)' = FatOf(sector)
    BY DEF Start, FatOf, fat2_lba, fat1_lba, fsinfo_lba, boot_lba,
           sect_per_fat, num_clust, diskVars, layoutVars
<1>3. Loop'
    BY <1>2 DEF IInv, Loop, diskVars, fatVars
<1>4. FatIsFixed'
    BY <1>2 DEF IInv, FatIsFixed, FatValue, diskVars, layoutVars
<1> QED BY <1>1, <1>3, <1>4 DEF IInv

LEMMA Inductive == IInv /\ [Next]_vars => IInv'
<1> SUFFICES ASSUME IInv, [Next]_vars PROVE IInv'
    OBVIOUS
<1>1. CASE Disk
    BY <1>1, InitEntryStep, InitDoneStep, ReadStep, ValueStep, FatEndStep DEF Disk
<1>2. CASE Read \/ Probe \/ Dropped \/ Delivered
    BY <1>2, HostStep
<1>3. CASE NextFile \/ UNCHANGED vars
    BY <1>3, IdleStep DEF NextFile, vars
<1> QED BY <1>1, <1>2, <1>3 DEF Next

\* Whatever sectors a host has read before, in whatever order, a value of the
\* FAT that read_fat_sector makes is the one the clusters of the files give:
\* for every size of the files and every geometry.
THEOREM FatAlwaysFixed == Spec => []FatIsFixed
<1>1. Spec => []IInv
    BY InitHolds, Inductive, PTL DEF Spec
<1>2. IInv => FatIsFixed
    BY DEF IInv
<1> QED BY <1>1, <1>2, PTL

--------------------------------------------------------------------------------

\* A byte inside a file comes from inside an array.
LEMMA ByteInside ==
    ASSUME NEW f \in File, NEW p \in Nat, p < curr_size(f)
    PROVE  /\ Byte(f, p)[1] = "test_file" => Byte(f, p)[2] < TEST_SIZE
           /\ Byte(f, p)[1] = "ver_s" => Byte(f, p)[2] < Digits
<1>1. f \in 1..3 /\ Digits \in Nat \ {0} /\ ReadmeText \in Nat
    BY GeometryAssumption, SizeAssumption DEF File
<1>2. CASE f = 1
    BY <1>2 DEF Byte, Space
<1>3. CASE f = 2
    BY <1>1, <1>3 DEF Byte, Space, Dot
<1>4. CASE f = 3
    <2>1. p < TEST_SIZE
        BY <1>4 DEF curr_size
    <2> QED BY <1>4, <2>1 DEF Byte
<1> QED BY <1>1, <1>2, <1>3, <1>4

\* Every sector of a file, the last, half one too, and the ones behind it.
LEMMA SectorInside ==
    ASSUME NEW f \in File, NEW offset \in Nat,
           NEW k \in DOMAIN readcb(f, offset).bytes
    PROVE  LET b == readcb(f, offset).bytes[k]
           IN  /\ b[1] = "test_file" => b[2] < TEST_SIZE
               /\ b[1] = "ver_s" => b[2] < Digits
<1> DEFINE len == Length(curr_size(f), offset)
<1>1. SECT \in Nat \ {0} /\ curr_size(f) \in Nat
    BY GeometryAssumption, SizeAssumption DEF curr_size
<1>2. k \in 0..(SECT - 1)
    BY DEF readcb
<1>3. readcb(f, offset).bytes[k] = IF k < len THEN Byte(f, offset + k) ELSE Stale
    BY <1>2 DEF readcb
<1>4. CASE k < len
    <2>1. offset + k \in Nat /\ offset + k < curr_size(f)
        BY <1>1, <1>2, <1>4 DEF Length
    <2> QED BY <1>3, <1>4, <2>1, ByteInside
<1>5. CASE ~(k < len)
    BY <1>3, <1>5 DEF Stale
<1> QED BY <1>4, <1>5

\* The answer to a read is a whole sector of a file, or none of a file.
FromFile ==
    data.kind = "file" =>
        \E f \in File, offset \in Nat : data = readcb(f, offset)

LEMMA FromFileInside == FromFile => ReadsInside
<1> SUFFICES ASSUME FromFile, data.kind = "file", NEW k \in DOMAIN data.bytes
             PROVE  LET b == data.bytes[k]
                    IN  /\ b[1] = "test_file" => b[2] < TEST_SIZE
                        /\ b[1] = "ver_s" => b[2] < Digits
    BY DEF ReadsInside
<1>1. PICK f \in File, offset \in Nat : data = readcb(f, offset)
    BY DEF FromFile
<1> QED BY <1>1, SectorInside

\* What read_data_sector takes from a file is at an offset of the file.
LEMMA DataSectorFromFile ==
    ASSUME IInv, pc = "read", sector >= root_lba, read_data_sector(sector - root_lba)
    PROVE  FromFile'
<1> DEFINE rel_ == sector - root_lba
           c == rel_ \div SECT_PER_CLUST + 2
           inside == rel_ % SECT_PER_CLUST
           e == Lookup(c, last_entry)
           offset == (c - first_clust[e]) * CLUST + inside * SECT
<1>1. Arrays /\ Layout /\ i = 4 /\ last_entry \in Entry /\ sector \in Nat
    BY DEF IInv, Cursor
<1>2. c \in Int /\ c >= 2 /\ inside \in Nat
    <2>1. \A a \in Nat, m \in Nat \ {0} : a \div m \in Nat /\ a % m \in Nat
        BY SMT
    <2>2. rel_ \in Nat /\ SECT_PER_CLUST \in Nat \ {0}
        BY <1>1, FatsBehindFsinfo, GeometryAssumption
    <2>3. rel_ \div SECT_PER_CLUST \in Nat /\ inside \in Nat
        BY <2>1, <2>2
    <2> QED BY <2>3
<1>3. data' = IF e = NULL THEN [kind |-> "0xEFBEADDE"]
              ELSE IF e = Root THEN fill_dir_sector(inside)
              ELSE readcb(e, offset)
    BY DEF read_data_sector
<1>4. e = NULL \/ e \in Owners(c)
    BY <1>1, <1>2, LookupFindsOwner
<1>5. ASSUME e # NULL, e # Root PROVE e \in File /\ offset \in Nat
    <2>1. e \in Entry /\ first_clust[e] <= c /\ first_clust[e] \in Int
        BY <1>1, <1>4, <1>5 DEF Owners, IS_CLUST_OF, Arrays
    <2>2. \A a, b \in Nat : a * b \in Nat
        BY SMT
    <2>3. CLUST \in Nat /\ SECT \in Nat
        BY <2>2, GeometryAssumption DEF CLUST
    <2>4. c - first_clust[e] \in Nat
        BY <1>2, <2>1
    <2>5. offset \in Nat
        <3>1. (c - first_clust[e]) * CLUST \in Nat /\ inside * SECT \in Nat
            BY <1>2, <2>2, <2>3, <2>4
        <3> QED BY <3>1
    <2>6. e \in File
        BY <1>5, <2>1 DEF Entry, File, Root
    <2> QED BY <2>5, <2>6
<1> HIDE DEF e, c, inside, rel_, offset
<1>6. CASE e = NULL
    BY <1>3, <1>6 DEF FromFile
<1>7. CASE e # NULL /\ e = Root
    BY <1>3, <1>7 DEF FromFile, fill_dir_sector
<1>8. CASE e # NULL /\ e # Root
    <2>1. data' = readcb(e, offset) /\ e \in File /\ offset \in Nat
        BY <1>3, <1>5, <1>8
    <2>2. \E f \in File, o \in Nat : data' = readcb(f, o)
        BY <2>1
    <2> QED BY <2>2 DEF FromFile
<1> QED BY <1>6, <1>7, <1>8

LEMMA FromFileStep == IInv /\ FromFile /\ [Next]_vars => FromFile'
<1> SUFFICES ASSUME IInv, FromFile, [Next]_vars PROVE FromFile'
    OBVIOUS
<1>1. CASE UNCHANGED data
    BY <1>1 DEF FromFile
<1>2. ASSUME NEW d, d.kind # "file", data' = d PROVE FromFile'
    BY <1>2 DEF FromFile
<1>3. CASE emfat_read
    <2>1. pc = "read"
        BY <1>3 DEF emfat_read
    <2>2. CASE sector >= root_lba /\ read_data_sector(sector - root_lba)
        BY <2>1, <2>2, DataSectorFromFile
    <2>3. ASSUME NEW n, read_fat_sector(n) PROVE FromFile'
        BY <2>3 DEF read_fat_sector, FromFile
    <2>4. ASSUME NEW d, d.kind # "file", Plain(d) PROVE FromFile'
        BY <1>2, <2>4 DEF Plain
    <2> QED BY <1>3, <2>2, <2>3, <2>4 DEF emfat_read, Nothing
<1>4. CASE read_fat_sector_value
    <2>1. PICK v \in Seq(Int) : data = [kind |-> "fat", values |-> v]
        BY <1>4 DEF read_fat_sector_value, IInv, Loop
    <2>2. PICK x : data' = [data EXCEPT !.values = Append(@, x)]
        BY <1>4 DEF read_fat_sector_value
    <2>3. data' = [kind |-> "fat", values |-> Append(v, x)]
        BY <2>1, <2>2
    <2> QED BY <2>3 DEF FromFile
<1>5. CASE Returned
    BY <1>5 DEF Returned, FromFile, Nothing
<1>6. \/ UNCHANGED data \/ emfat_read \/ read_fat_sector_value \/ Returned
    BY DEF Next, vars, diskVars, Disk, emfat_init_entry, emfat_init_done,
           read_fat_sector_end, Read, Probe, disk_access_read, Dropped, Delivered,
           NextFile
<1> QED BY <1>1, <1>3, <1>4, <1>5, <1>6

\* The read procedures of app.c take no byte from behind test_file or behind the
\* digits of the version, for every size of the files and every sector a host
\* may ask for.
THEOREM AlwaysReadsInside == Spec => []ReadsInside
<1>1. Spec => []IInv
    BY InitHolds, Inductive, PTL DEF Spec
<1>2. Init => FromFile
    BY DEF Init, DiskInit, Nothing, FromFile
<1>3. Spec => []FromFile
    BY <1>1, <1>2, FromFileStep, PTL DEF Spec
<1> QED BY <1>3, FromFileInside, PTL
--------------------------------------------------------------------------------
(* The host *)

\* An entry has as many clusters as its size takes.
Extents ==
    \A e \in Entry : e < i =>
        last_clust[e] = first_clust[e] + Clusters(e, curr_size(e)) - 1

\* What read_data_sector makes of sector inside of cluster c, which is of entry e.
SectorIn(e, c, inside) ==
    IF e = Root THEN fill_dir_sector(inside)
    ELSE readcb(e, (c - first_clust[e]) * CLUST + inside * SECT)

ClusterOf(s) == (s - root_lba) \div SECT_PER_CLUST + 2
InsideOf(s) == (s - root_lba) % SECT_PER_CLUST

\* The number of a sector gives its contents.
RightAnswer(d) ==
    /\ sector = 0 => d = [kind |-> "mbr", StartLBA |-> boot_lba]
    /\ sector = boot_lba => d = [kind |-> "boot", sectors_per_fat |-> sect_per_fat]
    /\ fat1_lba <= sector /\ sector < root_lba => d.kind = "fat" /\ Len(d.values) = FatValues
    /\ sector >= root_lba => \A e \in Owners(ClusterOf(sector)) :
                                d = SectorIn(e, ClusterOf(sector), InsideOf(sector))

Answers ==
    /\ pc = "fat" => fat1_lba <= sector /\ sector < root_lba
    /\ pc = "answered" => RightAnswer(data)

\* What the host has learned of the volume is right.
Learned ==
    /\ phase \in {"mbr", "boot", "dir", "data", "fat", "done"} /\ file \in File
    /\ phase # "mbr" => pc # "emfat_init" /\ base = boot_lba
    /\ phase \notin {"mbr", "boot"} => spf = sect_per_fat

\* The sector under way is one that the host wants.
UnderWay ==
    walking /\ pc \in {"read", "fat", "answered"} => phase # "done" /\ sector \in Wanted

\* Where the host is in the directory, and in the clusters of its file.
First == first_clust[file]
Bytes == {Byte(f, p) : f \in File, p \in Nat}
Place ==
    /\ rel \in Int /\ 0 <= rel /\ rel < SECT_PER_CLUST
    /\ got \in Seq(Bytes)
    /\ phase \in {"mbr", "boot", "dir"} => entry = NoEntry /\ Len(got) = 0
    /\ phase \in {"mbr", "boot"} => rel = 0
    /\ phase = "dir" => rel * DirEntries <= file
    /\ phase \in {"data", "fat"} =>
          /\ entry = [clust |-> entry.clust, size |-> curr_size(file)]
          /\ entry.clust \in Int /\ First <= entry.clust /\ entry.clust <= last_clust[file]
          /\ Len(got) < curr_size(file)
    /\ phase = "data" => Len(got) = (entry.clust - First) * CLUST + rel * SECT
    /\ phase = "fat" => rel = 0 /\ Len(got) = (entry.clust - First + 1) * CLUST
    /\ phase = "done" => Len(got) = curr_size(file)

Copied == \A k \in 1..Len(got) : got[k] = Contents(file)[k]

HostInv == Learned /\ UnderWay /\ Place /\ Copied

LEMMA ExtentsStart == Init => Extents
BY DEF Init, DiskInit, Extents, Root, Entry

LEMMA ExtentsKept == IInv /\ Extents /\ [Next]_vars => Extents'
<1> SUFFICES ASSUME IInv, Extents, [Next]_vars PROVE Extents'
    OBVIOUS
<1>1. CASE UNCHANGED layoutVars
    BY <1>1 DEF Extents, layoutVars
<1>2. CASE emfat_init_entry
    <2>1. i \in Entry /\ i' = i + 1 /\ Arrays
        BY <1>2 DEF emfat_init_entry, IInv
    <2> DEFINE n == Clusters(i, curr_size(i))
    <2>2. n \in Nat \ {0}
        BY <2>1, ClustersPositive
    <2>3. /\ first_clust' = [first_clust EXCEPT ![i] = clust]
          /\ last_clust' = [last_clust EXCEPT ![i] = clust + n - 1]
        BY <1>2 DEF emfat_init_entry
    <2> SUFFICES ASSUME NEW e \in Entry, e < i'
                 PROVE  last_clust'[e] = first_clust'[e] + Clusters(e, curr_size(e)) - 1
        BY DEF Extents
    <2>4. CASE e = i
        BY <2>1, <2>3, <2>4 DEF Arrays
    <2>5. CASE e # i
        <3>1. e < i
            BY <2>1, <2>5 DEF Entry
        <3>2. last_clust[e] = first_clust[e] + Clusters(e, curr_size(e)) - 1
            BY <3>1 DEF Extents
        <3> HIDE DEF n
        <3> QED BY <2>1, <2>3, <2>5, <3>2 DEF Arrays
    <2> QED BY <2>4, <2>5
<1>3. UNCHANGED layoutVars \/ emfat_init_entry
    BY DEF Next, vars, diskVars, Disk, emfat_init_done, emfat_read, read_fat_sector_value,
           read_fat_sector_end, Read, Probe, disk_access_read, Dropped, Delivered,
           Returned, NextFile
<1> QED BY <1>1, <1>2, <1>3

\* The clusters of the layout, and their number.
LEMMA LaidOut ==
    ASSUME IInv, Extents, pc # "emfat_init"
    PROVE  /\ i = 4 /\ Arrays /\ Layout
           /\ num_clust = AllClusters
           /\ \A e \in Entry : /\ first_clust[e] \in Int /\ last_clust[e] \in Int
                               /\ 2 <= first_clust[e] /\ first_clust[e] <= last_clust[e]
                               /\ last_clust[e] < clust
                               /\ last_clust[e] = first_clust[e] + Clusters(e, curr_size(e)) - 1
<1>1. i = 4 /\ Arrays /\ Layout
    BY DEF IInv, Cursor
<1>2. \A e \in Entry : /\ first_clust[e] \in Int /\ last_clust[e] \in Int
                       /\ first_clust[e] <= last_clust[e]
                       /\ last_clust[e] = first_clust[e] + Clusters(e, curr_size(e)) - 1
    BY <1>1 DEF Arrays, Layout, Extents, Entry
<1>3. /\ first_clust[0] = 2 /\ first_clust[1] = last_clust[0] + 1
      /\ first_clust[2] = last_clust[1] + 1 /\ first_clust[3] = last_clust[2] + 1
      /\ clust = last_clust[3] + 1
    BY <1>1 DEF Layout, Entry
<1>4. \A e \in Entry : 2 <= first_clust[e] /\ last_clust[e] < clust
    BY <1>2, <1>3 DEF Entry
<1>5. /\ curr_size(0) = 0 /\ curr_size(1) = INDEX_SIZE
      /\ curr_size(2) = README_SIZE /\ curr_size(3) = TEST_SIZE
    BY DEF curr_size
<1>6. \A e \in Entry : Clusters(e, curr_size(e)) \in Nat
    BY ClustersPositive
<1>7. num_clust = AllClusters
    BY <1>2, <1>3, <1>5, <1>6 DEF num_clust, AllClusters, Entry
<1> QED BY <1>1, <1>2, <1>4, <1>7

\* The contents depend on the layout and the number alone.
LEMMA SameAnswer ==
    ASSUME UNCHANGED <<layoutVars, sector>>
    PROVE  /\ (fat1_lba <= sector /\ sector < root_lba) => (fat1_lba <= sector /\ sector < root_lba)'
           /\ RightAnswer(data') => RightAnswer(data)'
<1>1. fat1_lba' = fat1_lba /\ root_lba' = root_lba /\ sect_per_fat' = sect_per_fat
      /\ boot_lba' = boot_lba
    BY DEF fat1_lba, fat2_lba, root_lba, fsinfo_lba, boot_lba, sect_per_fat, num_clust, layoutVars
<1>2. /\ ClusterOf(sector)' = ClusterOf(sector) /\ InsideOf(sector)' = InsideOf(sector)
      /\ Owners(ClusterOf(sector))' = Owners(ClusterOf(sector))
    BY <1>1 DEF ClusterOf, InsideOf, Owners, IS_CLUST_OF, layoutVars
<1>3. \A e \in Entry : SectorIn(e, ClusterOf(sector), InsideOf(sector))'
                     = SectorIn(e, ClusterOf(sector), InsideOf(sector))
    BY <1>2 DEF SectorIn, fill_dir_sector, DirEntry, layoutVars
<1>4. \A e \in Owners(ClusterOf(sector)) : e \in Entry
    BY DEF Owners
<1>5. sector' = sector
    OBVIOUS
<1>6. ASSUME RightAnswer(data') PROVE RightAnswer(data)'
    <2>1. /\ sector' = 0 => data' = [kind |-> "mbr", StartLBA |-> boot_lba']
          /\ sector' = boot_lba' => data' = [kind |-> "boot", sectors_per_fat |-> sect_per_fat']
          /\ fat1_lba' <= sector' /\ sector' < root_lba'
                => data'.kind = "fat" /\ Len(data'.values) = FatValues
        BY <1>1, <1>5, <1>6 DEF RightAnswer
    <2>2. ASSUME sector' >= root_lba', NEW e \in Owners(ClusterOf(sector))'
          PROVE  data' = SectorIn(e, ClusterOf(sector), InsideOf(sector))'
        BY <1>1, <1>2, <1>3, <1>4, <1>5, <1>6, <2>2 DEF RightAnswer
    <2> QED BY <2>1, <2>2 DEF RightAnswer
<1> QED BY <1>1, <1>5, <1>6

\* What a data sector holds does not depend on the entry found last.
LEMMA DataAnswer ==
    ASSUME IInv, pc = "read", sector >= root_lba, read_data_sector(sector - root_lba)
    PROVE  RightAnswer(data')
<1> DEFINE c == ClusterOf(sector)
           e == Lookup(c, last_entry)
<1>1. Arrays /\ Layout /\ i = 4 /\ last_entry \in Entry /\ sector \in Nat
    BY DEF IInv, Cursor
<1>2. c \in Int /\ c >= 2
    <2>1. \A a \in Nat, m \in Nat \ {0} : a \div m \in Nat
        BY SMT
    <2>2. sector - root_lba \in Nat /\ SECT_PER_CLUST \in Nat \ {0}
        BY <1>1, FatsBehindFsinfo, GeometryAssumption
    <2>3. (sector - root_lba) \div SECT_PER_CLUST \in Nat
        BY <2>1, <2>2
    <2> QED BY <2>3 DEF ClusterOf
<1>3. ASSUME NEW f \in Owners(c) PROVE e = f
    <2>1. e \in Owners(c)
        BY <1>1, <1>2, <1>3, LookupFindsOwner
    <2> HIDE DEF e
    <2> QED BY <1>1, <1>2, <1>3, <2>1, OneOwner
<1>4. data' = IF e = NULL THEN [kind |-> "0xEFBEADDE"]
              ELSE IF e = Root THEN fill_dir_sector(InsideOf(sector))
              ELSE readcb(e, (c - first_clust[e]) * CLUST + InsideOf(sector) * SECT)
    BY DEF read_data_sector, ClusterOf, InsideOf
<1>5. ASSUME NEW f \in Owners(c) PROVE data' = SectorIn(f, c, InsideOf(sector))
    <2>1. f # NULL
        BY NullAssumption DEF Owners, Entry
    <2>2. e = f
        BY <1>3
    <2> HIDE DEF e, c
    <2> QED BY <1>4, <2>1, <2>2 DEF SectorIn
<1>6. sector # 0 /\ sector # boot_lba /\ ~(sector < root_lba)
    BY <1>1, FatsBehindFsinfo DEF boot_lba
<1> QED BY <1>5, <1>6 DEF RightAnswer

LEMMA ReadAnswers == IInv /\ emfat_read => Answers'
<1> SUFFICES ASSUME IInv, emfat_read PROVE Answers'
    OBVIOUS
<1>1. pc = "read" /\ UNCHANGED <<layoutVars, sector>> /\ sector \in Nat
    BY DEF emfat_read, IInv, Cursor
<1>2. /\ sect_per_fat \in Nat \ {0} /\ fat1_lba = 64 /\ fat2_lba = 64 + sect_per_fat
      /\ root_lba = fat2_lba + sect_per_fat /\ boot_lba = 62 /\ fsinfo_lba = 63
    BY <1>1, FatsBehindFsinfo DEF boot_lba, fsinfo_lba
<1>3. ASSUME pc' = "answered", RightAnswer(data') PROVE Answers'
    BY <1>1, <1>3, SameAnswer DEF Answers
<1>4. CASE sector >= root_lba /\ read_data_sector(sector - root_lba)
    <2>1. pc' = "answered"
        BY <1>4 DEF read_data_sector
    <2> QED BY <1>1, <1>3, <1>4, <2>1, DataAnswer
<1>5. CASE sector = 0 /\ Plain([kind |-> "mbr", StartLBA |-> boot_lba])
    BY <1>2, <1>3, <1>5 DEF Plain, RightAnswer
<1>6. CASE sector = fsinfo_lba /\ Plain([kind |-> "fsinfo"])
    BY <1>2, <1>3, <1>6 DEF Plain, RightAnswer
<1>7. CASE sector = boot_lba /\ Plain([kind |-> "boot", sectors_per_fat |-> fat2_lba - fat1_lba])
    <2>1. fat2_lba - fat1_lba = sect_per_fat
        BY <1>2
    <2> QED BY <1>2, <1>3, <1>7, <2>1 DEF Plain, RightAnswer
<1>8. ASSUME NEW n, sector >= fat1_lba, sector < root_lba, read_fat_sector(n) PROVE Answers'
    <2>1. pc' = "fat"
        BY <1>8 DEF read_fat_sector
    <2> QED BY <1>1, <1>8, <2>1, SameAnswer DEF Answers
<1>9. CASE sector > 0 /\ sector < boot_lba /\ Plain(Nothing)
    BY <1>1, <1>2, <1>3, <1>9 DEF Plain, RightAnswer
<1>10. fat2_lba > fat1_lba /\ fat2_lba < root_lba
    BY <1>2
<1>11. CASE sector >= fat1_lba /\ sector < fat2_lba /\ read_fat_sector(sector - fat1_lba)
    BY <1>1, <1>2, <1>8, <1>10, <1>11
<1>12. CASE sector >= fat2_lba /\ sector < root_lba /\ read_fat_sector(sector - fat2_lba)
    BY <1>1, <1>2, <1>8, <1>10, <1>12
<1> QED BY <1>4, <1>5, <1>6, <1>7, <1>9, <1>11, <1>12 DEF emfat_read

LEMMA AnswersKept == IInv /\ Answers /\ [Next]_vars => Answers'
<1> SUFFICES ASSUME IInv, Answers, [Next]_vars PROVE Answers'
    OBVIOUS
<1>1. CASE pc' \in {"emfat_init", "idle", "read"}
    BY <1>1 DEF Answers
<1>2. CASE emfat_read
    BY <1>2, ReadAnswers
<1>3. CASE read_fat_sector_value
    <2>1. pc = "fat" /\ pc' = "fat" /\ UNCHANGED <<layoutVars, sector>>
        BY <1>3 DEF read_fat_sector_value
    <2> QED BY <2>1, SameAnswer DEF Answers
<1>4. CASE read_fat_sector_end
    <2>1. pc = "fat" /\ pc' = "answered" /\ UNCHANGED <<layoutVars, sector, data>>
          /\ Len(data.values) = FatValues
        BY <1>4 DEF read_fat_sector_end
    <2>2. data.kind = "fat"
        BY <2>1 DEF IInv, Loop
    <2>3. sector # 0 /\ sector # boot_lba /\ ~(sector >= root_lba) /\ sector \in Nat
        BY <2>1, FatsBehindFsinfo DEF Answers, boot_lba, IInv, Cursor
    <2>4. RightAnswer(data')
        BY <2>1, <2>2, <2>3 DEF RightAnswer
    <2> QED BY <2>1, <2>4, SameAnswer DEF Answers
<1>5. CASE UNCHANGED diskVars
    <2>1. UNCHANGED <<layoutVars, sector>> /\ data' = data /\ pc' = pc
        BY <1>5 DEF diskVars
    <2> QED BY <2>1, SameAnswer DEF Answers
<1>6. \/ pc' \in {"emfat_init", "idle", "read"} \/ emfat_read \/ read_fat_sector_value
      \/ read_fat_sector_end \/ UNCHANGED diskVars
    BY DEF Next, vars, Disk, emfat_init_entry, emfat_init_done, Read, Probe,
           disk_access_read, Dropped, Delivered, Returned, NextFile
<1> QED BY <1>1, <1>2, <1>3, <1>4, <1>5, <1>6

--------------------------------------------------------------------------------
(* Numbers and bytes *)

LEMMA Division ==
    ASSUME NEW x \in Nat, NEW d \in Nat, d > 0
    PROVE  /\ x \div d \in Int /\ x % d \in Int /\ 0 <= x % d /\ x % d < d
           /\ x = d * (x \div d) + (x % d)
BY SMT

LEMMA ProductGrows ==
    ASSUME NEW d \in Nat, NEW a \in Int, NEW b \in Int, a <= b
    PROVE  d * a \in Int /\ d * b \in Int /\ d * a <= d * b
<1>1. d * a \in Int /\ d * b \in Int /\ d * (b - a) \in Int
    BY SMT
<1>2. d * (b - a) >= 0
    <2>1. b - a \in Nat
        OBVIOUS
    <2> QED BY <2>1, SMT
<1>3. d * (b - a) = d * b - d * a
    BY SMT
<1> QED BY <1>1, <1>2, <1>3

\* A product with more than one factor less is less by the divisor.
LEMMA QuotientBelow ==
    ASSUME NEW d \in Nat, d > 0, NEW a \in Int, NEW b \in Int, NEW r \in Int, 0 <= r,
           d * a + r < d * b
    PROVE  a < b
<1>1. ASSUME b <= a PROVE FALSE
    <2>1. d * b <= d * a /\ d * b \in Int /\ d * a \in Int
        BY <1>1, ProductGrows
    <2> QED BY <2>1
<1> QED BY <1>1

LEMMA UniqueQuotient ==
    ASSUME NEW d \in Nat, d > 0, NEW a \in Nat, NEW r \in Int, 0 <= r, r < d
    PROVE  /\ a * d + r \in Nat
           /\ (a * d + r) \div d = a /\ (a * d + r) % d = r
<1> DEFINE x == a * d + r
           q == x \div d
           s == x % d
<1>1. a * d = d * a /\ d * a \in Nat
    BY SMT
<1>2. x \in Nat /\ x = d * a + r
    BY <1>1
<1>3. /\ q \in Int /\ s \in Int /\ 0 <= s /\ s < d
      /\ x = d * q + s
    <2> HIDE DEF x
    <2> QED BY <1>2, Division
<1> HIDE DEF q, s, x
<1>4. \A b \in Int : d * (b + 1) = d * b + d /\ d * b \in Int
    BY SMT
<1>5. a < q + 1
    <2>1. d * (q + 1) = d * q + d /\ d * q \in Int
        BY <1>3, <1>4
    <2>2. d * a + r < d * (q + 1)
        BY <1>1, <1>2, <1>3, <2>1
    <2> QED BY <1>3, <2>2, QuotientBelow
<1>6. q < a + 1
    <2>1. d * (a + 1) = d * a + d /\ d * q \in Int
        BY <1>3, <1>4
    <2>2. d * q + s < d * (a + 1)
        BY <1>1, <1>2, <1>3, <2>1
    <2> QED BY <1>3, <2>2, QuotientBelow
<1>7. q = a
    BY <1>3, <1>5, <1>6
<1>8. s = r
    BY <1>1, <1>2, <1>3, <1>7
<1> QED BY <1>2, <1>7, <1>8 DEF x, q, s

\* So many pieces of size m hold n.
LEMMA CeilHolds ==
    ASSUME NEW n \in Nat, NEW m \in Nat \ {0}
    PROVE  Ceil(n, m) \in Int /\ n <= m * Ceil(n, m)
<1> DEFINE x == n + m - 1
           q == x \div m
           s == x % m
<1>1. x \in Nat /\ m > 0 /\ m \in Nat
    OBVIOUS
<1>2. q \in Int /\ s \in Int /\ s < m /\ x = m * q + s
    <2> HIDE DEF x
    <2> QED BY <1>1, Division
<1>3. Ceil(n, m) = q
    BY DEF Ceil
<1> HIDE DEF q, s
<1>4. m * q \in Int
    BY <1>2
<1>5. n <= m * q
    BY <1>2, <1>4
<1> QED BY <1>2, <1>3, <1>5

LEMMA Geometry ==
    /\ SECT \in Nat \ {0} /\ SECT_PER_CLUST \in Nat \ {0} /\ CLUST \in Nat \ {0}
    /\ FatValues \in Nat \ {0} /\ DirEntries \in Nat \ {0}
    /\ CLUST = SECT * SECT_PER_CLUST
    /\ \A f \in File : curr_size(f) \in Nat \ {0}
<1>1. \A a, b \in Nat \ {0} : a * b \in Nat \ {0}
    BY SMT
<1> QED BY <1>1, GeometryAssumption, SizeAssumption DEF CLUST, curr_size, File

LEMMA FunctionIsSeq ==
    ASSUME NEW n \in Nat, NEW S, NEW f \in [1..n -> S]
    PROVE  f \in Seq(S) /\ Len(f) = n
BY SMT

LEMMA Joined ==
    ASSUME NEW S, NEW s \in Seq(S), NEW t \in Seq(S)
    PROVE  /\ s \o t \in Seq(S) /\ Len(s) \in Nat /\ Len(t) \in Nat
           /\ Len(s \o t) = Len(s) + Len(t)
           /\ \A k \in 1..Len(s) : (s \o t)[k] = s[k]
           /\ \A k \in 1..Len(t) : (s \o t)[Len(s) + k] = t[k]
BY SMT

\* The readme is its text and the digits of the version, with a dot behind the first.
LEMMA ReadmeIs ==
    /\ Len(Written(2)) = ReadmeText + Digits + 1
    /\ \A k \in 1..(ReadmeText + Digits + 1) : Written(2)[k] = Byte(2, k - 1)
<1>1. ReadmeText \in Nat /\ Digits \in Nat /\ 1 <= Digits
    BY GeometryAssumption, SizeAssumption
<1> DEFINE a == Text("readme_file", 0, ReadmeText)
           b == Text("ver_s", 0, 1)
           c == Text("ver_s", 1, Digits)
<1> DEFINE S == {a[k] : k \in 1..ReadmeText} \cup {b[1]} \cup {c[k] : k \in 1..(Digits - 1)} \cup {Dot}
<1>2. /\ a \in [1..ReadmeText -> S]
      /\ \A k \in 1..ReadmeText : a[k] = <<"readme_file", k - 1>>
    BY <1>1 DEF Text
<1>3. b \in [1..1 -> S] /\ b[1] = <<"ver_s", 0>>
    BY DEF Text
<1>4. /\ c \in [1..(Digits - 1) -> S]
      /\ \A k \in 1..(Digits - 1) : c[k] = <<"ver_s", k>>
    BY <1>1 DEF Text
<1>5. Dot \in S
    OBVIOUS
<1>6. Written(2) = a \o b \o <<Dot>> \o c
    BY DEF Written
<1> HIDE DEF a, b, c, S
<1>12. /\ a \in Seq(S) /\ Len(a) = ReadmeText
       /\ b \in Seq(S) /\ Len(b) = 1
       /\ c \in Seq(S) /\ Len(c) = Digits - 1
       /\ <<Dot>> \in Seq(S)
    <2>1. a \in Seq(S) /\ Len(a) = ReadmeText
        BY <1>1, <1>2, FunctionIsSeq
    <2>2. b \in Seq(S) /\ Len(b) = 1
        BY <1>3, FunctionIsSeq
    <2>3. c \in Seq(S) /\ Len(c) = Digits - 1
        BY <1>1, <1>4, FunctionIsSeq
    <2>4. <<Dot>> \in Seq(S)
        BY <1>5
    <2> QED BY <2>1, <2>2, <2>3, <2>4
<1>13. <<Dot>>[1] = Dot /\ Len(<<Dot>>) = 1
    OBVIOUS
<1> DEFINE ab == a \o b
           d == <<Dot>>
<1>7. /\ ab \in Seq(S) /\ Len(ab) = ReadmeText + 1
      /\ \A k \in 1..ReadmeText : ab[k] = a[k]
      /\ ab[ReadmeText + 1] = b[1]
    <2>1. ab \in Seq(S) /\ Len(ab) = Len(a) + Len(b)
          /\ (\A k \in 1..Len(a) : ab[k] = a[k])
          /\ \A k \in 1..Len(b) : ab[Len(a) + k] = b[k]
        <3>1. a \in Seq(S) /\ b \in Seq(S)
            BY <1>12
        <3>2. ab \in Seq(S)
            BY <3>1, Joined
        <3>3. Len(ab) = Len(a) + Len(b)
            BY <3>1, Joined
        <3>4. \A k \in 1..Len(a) : ab[k] = a[k]
            BY <3>1, Joined
        <3>5. \A k \in 1..Len(b) : ab[Len(a) + k] = b[k]
            BY <3>1, Joined
        <3> QED BY <3>2, <3>3, <3>4, <3>5
    <2> HIDE DEF ab
    <2>2. 1 \in 1..Len(b)
        BY <1>12
    <2> QED BY <1>1, <1>12, <2>1, <2>2
<1> HIDE DEF ab
<1> DEFINE abd == ab \o d
<1>8. /\ abd \in Seq(S) /\ Len(abd) = ReadmeText + 2
      /\ \A k \in 1..(ReadmeText + 1) : abd[k] = ab[k]
      /\ abd[ReadmeText + 2] = Dot
    <2> HIDE DEF d
    <2>1. abd \in Seq(S) /\ Len(abd) = Len(ab) + Len(d)
          /\ (\A k \in 1..Len(ab) : abd[k] = ab[k])
          /\ \A k \in 1..Len(d) : abd[Len(ab) + k] = d[k]
        BY <1>7, <1>12, Joined DEF d
    <2> HIDE DEF abd
    <2>2. 1 \in 1..Len(d) /\ Len(d) = 1 /\ d[1] = Dot
        BY <1>13 DEF d
    <2>3. abd[Len(ab) + 1] = Dot
        BY <2>1, <2>2
    <2>4. Len(ab) + 1 = ReadmeText + 2 /\ Len(abd) = ReadmeText + 2
        BY <1>1, <1>7, <2>1, <2>2
    <2> QED BY <1>7, <2>1, <2>3, <2>4
<1> HIDE DEF abd
<1>9. /\ Len(abd \o c) = ReadmeText + Digits + 1
      /\ \A k \in 1..(ReadmeText + 2) : (abd \o c)[k] = abd[k]
      /\ \A k \in 1..(Digits - 1) : (abd \o c)[ReadmeText + 2 + k] = c[k]
    <2> DEFINE w == abd \o c
    <2>1. Len(w) = Len(abd) + Len(c)
          /\ (\A k \in 1..Len(abd) : w[k] = abd[k])
          /\ \A k \in 1..Len(c) : w[Len(abd) + k] = c[k]
        <3>1. abd \in Seq(S) /\ c \in Seq(S)
            BY <1>8, <1>12
        <3>2. Len(w) = Len(abd) + Len(c)
            BY <3>1, Joined
        <3>3. \A k \in 1..Len(abd) : w[k] = abd[k]
            BY <3>1, Joined
        <3>4. \A k \in 1..Len(c) : w[Len(abd) + k] = c[k]
            BY <3>1, Joined
        <3> QED BY <3>2, <3>3, <3>4
    <2> HIDE DEF w
    <2>2. Len(w) = ReadmeText + Digits + 1
        BY <1>1, <1>8, <1>12, <2>1
    <2> QED BY <1>8, <1>12, <2>1, <2>2 DEF w
<1>10. Written(2) = abd \o c
    BY <1>6 DEF ab, abd, d
<1>11. ASSUME NEW k \in 1..(ReadmeText + Digits + 1)
       PROVE  Written(2)[k] = Byte(2, k - 1)
    <2>1. CASE k <= ReadmeText
        <3>2. k \in 1..ReadmeText /\ k \in 1..(ReadmeText + 1) /\ k \in 1..(ReadmeText + 2)
            BY <1>1, <2>1
        <3>3. Written(2)[k] = a[k] /\ a[k] = <<"readme_file", k - 1>>
            BY <1>2, <1>7, <1>8, <1>9, <1>10, <3>2
        <3>1. Written(2)[k] = <<"readme_file", k - 1>>
            BY <3>3
        <3> QED BY <1>1, <2>1, <3>1 DEF Byte
    <2>2. CASE k = ReadmeText + 1
        <3>1. Written(2)[k] = <<"ver_s", 0>>
            BY <1>1, <1>3, <1>7, <1>8, <1>9, <1>10, <2>2
        <3> QED BY <1>1, <2>2, <3>1 DEF Byte
    <2>3. CASE k = ReadmeText + 2
        <3>1. Written(2)[k] = Dot
            BY <1>1, <1>8, <1>9, <1>10, <2>3
        <3> QED BY <1>1, <2>3, <3>1 DEF Byte
    <2>4. CASE k > ReadmeText + 2
        <3> DEFINE j == k - ReadmeText - 2
        <3>1. j \in 1..(Digits - 1) /\ k = ReadmeText + 2 + j
            BY <1>1, <2>4
        <3> HIDE DEF j
        <3>2. Written(2)[k] = <<"ver_s", j>>
            BY <1>4, <1>9, <1>10, <3>1
        <3>3. k - 1 - ReadmeText = j + 1
            BY <1>1, <3>1
        <3> QED BY <1>1, <2>4, <3>1, <3>2, <3>3 DEF Byte
    <2> QED BY <1>1, <2>1, <2>2, <2>3, <2>4
<1> QED BY <1>9, <1>10, <1>11

\* A procedure makes each byte from its place in the file.
LEMMA ByteIs ==
    ASSUME NEW f \in File, NEW p \in Nat, p < curr_size(f)
    PROVE  Byte(f, p) = Contents(f)[p + 1]
<1>1. /\ f \in 1..3 /\ IndexText \in Nat /\ ReadmeText \in Nat /\ Digits \in Nat
      /\ TEST_SIZE \in Nat /\ curr_size(f) \in Nat
    BY GeometryAssumption, SizeAssumption, Geometry DEF File
<1>2. Contents(f)[p + 1] = IF p + 1 <= Len(Written(f)) THEN Written(f)[p + 1] ELSE Space
    <2>1. p + 1 \in 1..curr_size(f)
        BY <1>1
    <2> QED BY <2>1 DEF Contents
<1>3. CASE f = 1
    <2>1. Written(f) = Text("index_file", 0, IndexText)
        BY <1>3 DEF Written
    <2>2. Len(Written(f)) = IndexText
          /\ \A k \in 1..IndexText : Written(f)[k] = <<"index_file", k - 1>>
        BY <1>1, <2>1 DEF Text
    <2> QED BY <1>1, <1>2, <1>3, <2>2 DEF Byte
<1>4. CASE f = 2
    <2>1. CASE p + 1 <= ReadmeText + Digits + 1
        BY <1>1, <1>2, <1>4, <2>1, ReadmeIs
    <2>2. CASE ~(p + 1 <= ReadmeText + Digits + 1)
        <3>1. Contents(f)[p + 1] = Space
            BY <1>1, <1>2, <1>4, <2>2, ReadmeIs
        <3>2. p - ReadmeText > Digits /\ p - ReadmeText > 1
            BY <1>1, <2>2, GeometryAssumption
        <3>3. Byte(2, p) = Space
            BY <1>1, <3>2 DEF Byte
        <3> QED BY <1>4, <3>1, <3>3
    <2> QED BY <2>1, <2>2
<1>5. CASE f = 3
    <2>1. Written(f) = Text("test_file", 0, TEST_SIZE) /\ p < TEST_SIZE
        BY <1>5 DEF Written, curr_size
    <2>2. Len(Written(f)) = TEST_SIZE
          /\ \A k \in 1..TEST_SIZE : Written(f)[k] = <<"test_file", k - 1>>
        BY <1>1, <2>1 DEF Text
    <2> QED BY <1>1, <1>2, <1>5, <2>1, <2>2 DEF Byte
<1> QED BY <1>1, <1>3, <1>4, <1>5

--------------------------------------------------------------------------------
(* Where the host finds things *)

\* A sector of a cluster that the host computes is that sector.
LEMMA WhereData ==
    ASSUME IInv, pc # "emfat_init", base = boot_lba, spf = sect_per_fat,
           NEW c \in Int, c >= 2, rel \in Int, 0 <= rel, rel < SECT_PER_CLUST
    PROVE  /\ SectorOf(c) \in Nat /\ SectorOf(c) >= root_lba
           /\ ClusterOf(SectorOf(c)) = c /\ InsideOf(SectorOf(c)) = rel
<1>1. root_lba \in Nat /\ root_lba = 64 + 2 * sect_per_fat
    BY FatsBehindFsinfo
<1> DEFINE n == (c - 2) * SECT_PER_CLUST
<1>2. /\ n + rel \in Nat
      /\ (n + rel) \div SECT_PER_CLUST = c - 2 /\ (n + rel) % SECT_PER_CLUST = rel
    <2>1. SECT_PER_CLUST \in Nat /\ SECT_PER_CLUST > 0 /\ c - 2 \in Nat
        BY Geometry
    <2> QED BY <2>1, UniqueQuotient
<1>3. n \in Int
    <2>1. \A a, b \in Int : a * b \in Int
        BY SMT
    <2> QED BY <2>1, Geometry
<1>4. SectorOf(c) = 62 + 2 + 2 * sect_per_fat + n + rel
    BY DEF SectorOf, DataStart, FatStart, boot_lba
<1> HIDE DEF n
<1>5. sect_per_fat \in Nat
    BY FatsBehindFsinfo
<1>6. SectorOf(c) - root_lba = n + rel /\ SectorOf(c) \in Nat /\ SectorOf(c) >= root_lba
    BY <1>1, <1>2, <1>3, <1>4, <1>5
<1> QED BY <1>2, <1>6 DEF ClusterOf, InsideOf

\* The FAT has a value for each cluster but possibly the last.
LEMMA FatLongEnough ==
    ASSUME IInv, Extents, pc # "emfat_init", NEW c \in Nat, c <= AllClusters
    PROVE  c \div FatValues \in Nat /\ c \div FatValues < sect_per_fat
<1> DEFINE q == c \div FatValues
           n == Ceil(AllClusters, FatValues)
<1>1. FatValues \in Nat \ {0} /\ FatValues \in Nat /\ FatValues > 0
    BY Geometry
<1>2. AllClusters \in Nat /\ num_clust = AllClusters
    <2>1. \A e \in Entry : Clusters(e, curr_size(e)) \in Nat
        BY ClustersPositive
    <2>2. AllClusters \in Nat
        BY <2>1 DEF AllClusters, curr_size, Entry
    <2> QED BY <2>2, LaidOut
<1>3. n \in Int /\ AllClusters <= FatValues * n
    BY <1>1, <1>2, CeilHolds
<1>4. FatValues * n = n * FatValues /\ FatValues * n \in Int
    BY <1>1, <1>3, SMT
<1>5. AllClusters # FatValues * n
    <2>1. ASSUME AllClusters = FatValues * n PROVE FALSE
        <3>1. n \in Nat
            <4>1. FatValues * 0 + 0 <= FatValues * n /\ FatValues * 0 = 0
                BY <1>1, <1>2, <2>1
            <4>2. CASE n < 0
                <5>1. FatValues * n <= FatValues * (-1) /\ FatValues * (-1) = -FatValues
                    BY <1>1, <1>3, <4>2, ProductGrows
                <5> QED BY <1>1, <1>2, <2>1, <5>1
            <4> QED BY <1>3, <4>2
        <3>2. (n * FatValues + 0) % FatValues = 0
            BY <1>1, <3>1, UniqueQuotient
        <3>3. n * FatValues + 0 = AllClusters
            BY <1>2, <1>4, <2>1
        <3> QED BY <3>2, <3>3, VolumeAssumption
    <2> QED BY <2>1
<1>6. q \in Int /\ c = FatValues * q + (c % FatValues) /\ c % FatValues \in Int /\ 0 <= c % FatValues
    BY <1>1, Division
<1>7. q \in Nat
    BY <1>1, SMT
<1> HIDE DEF q, n
<1>8. q < n
    <2>1. FatValues * q + (c % FatValues) < FatValues * n
        BY <1>2, <1>3, <1>4, <1>5, <1>6
    <2> QED BY <1>1, <1>3, <1>6, <2>1, QuotientBelow
<1>9. sect_per_fat >= n
    BY <1>2, <1>3 DEF sect_per_fat, AtLeastOne, n
<1>10. sect_per_fat \in Nat
    BY FatsBehindFsinfo
<1>11. q < sect_per_fat
    BY <1>3, <1>6, <1>8, <1>9, <1>10
<1> QED BY <1>7, <1>11 DEF q

\* The value of a cluster is in the sector that the host computes, in either FAT.
LEMMA WhereFat ==
    ASSUME IInv, Extents, pc # "emfat_init", base = boot_lba, spf = sect_per_fat,
           NEW c \in Nat, c <= AllClusters, NEW copy \in 0..1,
           sector = FatStart + copy * spf + c \div FatValues
    PROVE  /\ fat1_lba <= sector /\ sector < root_lba
           /\ FatOf(sector) * FatValues + (c % FatValues) = c
           /\ c % FatValues \in 0..(FatValues - 1)
<1> DEFINE q == c \div FatValues
<1>1. q \in Nat /\ q < sect_per_fat
    BY FatLongEnough
<1>2. /\ sect_per_fat \in Nat /\ fat1_lba = 64 /\ fat2_lba = 64 + sect_per_fat
      /\ root_lba = fat2_lba + sect_per_fat
    BY FatsBehindFsinfo
<1>3. /\ FatValues \in Nat /\ FatValues > 0
      /\ c % FatValues \in Int /\ 0 <= c % FatValues /\ c % FatValues < FatValues
      /\ c = FatValues * q + (c % FatValues)
    BY Geometry, Division
<1>4. sector = 64 + copy * sect_per_fat + q
    BY DEF FatStart, boot_lba
<1> HIDE DEF q
<1>5. copy = 0 \/ copy = 1
    OBVIOUS
<1>6. sector = IF copy = 0 THEN 64 + q ELSE 64 + sect_per_fat + q
    BY <1>1, <1>2, <1>4, <1>5
<1>7. fat1_lba <= sector /\ sector < root_lba /\ FatOf(sector) = q
    BY <1>1, <1>2, <1>5, <1>6 DEF FatOf
<1>8. q * FatValues = FatValues * q /\ FatValues * q \in Int
    BY <1>1, <1>3, SMT
<1>9. FatOf(sector) * FatValues + (c % FatValues) = c
    BY <1>3, <1>7, <1>8
<1> QED BY <1>3, <1>7, <1>9

\* Inside a file the value of a cluster is the next one, and no mark.
LEMMA ChainGoesOn ==
    ASSUME IInv, Extents, pc # "emfat_init", NEW f \in File, NEW c \in Int,
           first_clust[f] <= c, c < last_clust[f]
    PROVE  /\ c \in Nat /\ c <= AllClusters
           /\ FatValue(c) = c + 1 /\ c + 1 \notin NoCluster
<1>1. /\ f \in Entry /\ i = 4 /\ Arrays /\ Layout
      /\ num_clust = AllClusters
      /\ first_clust[f] \in Int /\ last_clust[f] \in Int
      /\ 2 <= first_clust[f] /\ last_clust[f] < clust
    BY LaidOut DEF File, Entry
<1>2. clust = AllClusters + 2 /\ clust \in Int
    BY <1>1 DEF num_clust, Arrays
<1>3. c \in Nat /\ 2 <= c /\ c <= AllClusters /\ c < clust
    <2>1. AllClusters \in Int
        BY <1>1, <1>2 DEF num_clust
    <2> QED BY <1>1, <1>2, <2>1
<1>4. \A e \in Entry : /\ first_clust[e] \in Int /\ last_clust[e] \in Int
                       /\ first_clust[e] <= last_clust[e] /\ last_reserved[e] = last_clust[e]
    BY <1>1 DEF Arrays, Layout, Entry
<1>5. ASSUME NEW e \in Entry, c = last_clust[e] PROVE FALSE
    <2>1. e \in Owners(c) /\ f \in Owners(c)
        BY <1>1, <1>4, <1>5 DEF Owners, IS_CLUST_OF
    <2>2. e = f
        BY <1>1, <2>1, OneOwner
    <2> QED BY <1>1, <1>5, <2>2
<1>6. FatValue(c) = c + 1
    BY <1>3, <1>5 DEF FatValue
<1>7. c + 1 \notin NoCluster
    <2>1. c + 1 < CLUST_ROOT_END
        <3>1. CLUST_ROOT_END \in Int
            BY ValuesAreNumbers
        <3>2. c + 1 < AllClusters + 2 /\ AllClusters + 2 < CLUST_ROOT_END /\ AllClusters \in Int
            BY <1>1, <1>2, <1>3, VolumeAssumption DEF num_clust
        <3> QED BY <1>3, <3>1, <3>2
    <2>2. c + 1 # CLUST_ROOT_END /\ c + 1 # CLUST_EOF
        <3> DEFINE v == c + 1
        <3>1. v \in Int /\ v < CLUST_ROOT_END
            BY <1>3, <2>1
        <3> HIDE DEF v
        <3>2. v # CLUST_ROOT_END /\ v # CLUST_EOF
            BY <3>1 DEF CLUST_ROOT_END, CLUST_EOF
        <3> QED BY <3>2 DEF v
    <2>3. c + 1 # CLUST_FREE /\ c + 1 # CLUST_RESERVED /\ c + 1 # AllOnes
        BY <1>3 DEF CLUST_FREE, CLUST_RESERVED, AllOnes
    <2> QED BY <2>2, <2>3 DEF NoCluster
<1> QED BY <1>3, <1>6, <1>7

\* A file with more bytes than its clusters so far hold has another cluster.
LEMMA AnotherCluster ==
    ASSUME IInv, Extents, pc # "emfat_init", NEW f \in File, NEW c \in Int,
           first_clust[f] <= c, c <= last_clust[f],
           (c - first_clust[f] + 1) * CLUST < curr_size(f)
    PROVE  c < last_clust[f]
<1> DEFINE n == Ceil(curr_size(f), CLUST)
           k == c - first_clust[f] + 1
<1>1. /\ f \in Entry /\ f # Root
      /\ first_clust[f] \in Int /\ last_clust[f] \in Int
      /\ last_clust[f] = first_clust[f] + Clusters(f, curr_size(f)) - 1
    BY LaidOut DEF File, Entry, Root
<1>2. CLUST \in Nat \ {0} /\ CLUST \in Nat /\ CLUST > 0 /\ curr_size(f) \in Nat
    BY Geometry
<1>3. n \in Int /\ curr_size(f) <= CLUST * n
    BY <1>2, CeilHolds
<1>4. k \in Int /\ k * CLUST = CLUST * k /\ CLUST * k \in Int /\ CLUST * n \in Int
    <2>1. k \in Int
        BY <1>1
    <2> HIDE DEF k, n
    <2> QED BY <1>2, <1>3, <2>1, SMT
<1>5. Clusters(f, curr_size(f)) >= n /\ Clusters(f, curr_size(f)) \in Int
    BY <1>1, <1>3 DEF Clusters, SIZE_TO_NCLUST, AtLeastOne
<1>6. k * CLUST < curr_size(f)
    OBVIOUS
<1> HIDE DEF k, n
<1>7. CLUST * k + 0 < CLUST * n
    BY <1>2, <1>3, <1>4, <1>6
<1>8. k < n
    BY <1>2, <1>3, <1>4, <1>7, QuotientBelow
<1> QED BY <1>1, <1>3, <1>5, <1>8 DEF k

--------------------------------------------------------------------------------
(* The host's steps *)

LEMMA HostStart == Init => HostInv
<1> SUFFICES ASSUME Init PROVE HostInv
    OBVIOUS
<1>1. got = <<>> /\ got \in Seq(Bytes) /\ Len(got) = 0
    BY DEF Init
<1>2. Learned /\ UnderWay /\ Copied
    BY <1>1 DEF Init, DiskInit, Learned, UnderWay, Copied
<1>3. Place
    BY <1>1, Geometry DEF Init, Place
<1> QED BY <1>2, <1>3 DEF HostInv

\* While the disk works, the host waits.
LEMMA HostWaits ==
    ASSUME IInv, HostInv, UNCHANGED hostVars, UNCHANGED layoutVars \/ phase = "mbr",
           pc # "emfat_init" => pc' # "emfat_init",
           pc' \in {"read", "fat", "answered"} =>
               pc \in {"read", "fat", "answered"} /\ sector' = sector
    PROVE  HostInv'
<1>1. UNCHANGED <<phase, walking, base, spf, file, entry, rel, got>>
    BY DEF hostVars
<1>2. Learned'
    <2>1. sect_per_fat' = sect_per_fat \/ phase = "mbr"
        BY DEF sect_per_fat, num_clust, layoutVars
    <2>2. boot_lba' = boot_lba
        BY DEF boot_lba
    <2> QED BY <1>1, <2>1, <2>2 DEF HostInv, Learned
<1>3. UnderWay'
    <2>1. Wanted' = Wanted
        BY <1>1 DEF Wanted, FatStart, SectorOf, DataStart
    <2> QED BY <1>1, <2>1 DEF HostInv, UnderWay
<1>4. Place'
    <2>1. CASE UNCHANGED layoutVars
        BY <1>1, <2>1 DEF HostInv, Place, First, layoutVars
    <2>2. CASE phase = "mbr"
        BY <1>1, <2>2 DEF HostInv, Place
    <2> QED BY <2>1, <2>2
<1>5. Copied'
    BY <1>1 DEF HostInv, Copied
<1> QED BY <1>2, <1>3, <1>4, <1>5 DEF HostInv

LEMMA DiskKeepsHost == IInv /\ HostInv /\ Disk /\ UNCHANGED hostVars => HostInv'
<1> SUFFICES ASSUME IInv, HostInv, Disk, UNCHANGED hostVars PROVE HostInv'
    OBVIOUS
<1>1. CASE emfat_init_entry
    <2>1. pc = "emfat_init" /\ pc' = pc
        BY <1>1 DEF emfat_init_entry
    <2>2. phase = "mbr"
        BY <2>1 DEF HostInv, Learned
    <2> QED BY <2>1, <2>2, HostWaits
<1>2. CASE emfat_init_done
    BY <1>2, HostWaits DEF emfat_init_done
<1>3. CASE emfat_read
    <2>1. pc = "read" /\ UNCHANGED <<layoutVars, sector>>
        BY <1>3 DEF emfat_read
    <2>2. pc' \in {"answered", "fat"}
        BY <1>3 DEF emfat_read, read_data_sector, read_fat_sector, Plain
    <2> QED BY <2>1, <2>2, HostWaits
<1>4. CASE read_fat_sector_value
    <2>1. pc = "fat" /\ UNCHANGED <<pc, layoutVars, sector>>
        BY <1>4 DEF read_fat_sector_value
    <2> QED BY <2>1, HostWaits
<1>5. CASE read_fat_sector_end
    <2>1. pc = "fat" /\ pc' = "answered" /\ UNCHANGED <<layoutVars, sector>>
        BY <1>5 DEF read_fat_sector_end
    <2> QED BY <2>1, HostWaits
<1> QED BY <1>1, <1>2, <1>3, <1>4, <1>5 DEF Disk

LEMMA ReadKeepsHost == IInv /\ HostInv /\ (Read \/ Probe) => HostInv'
<1> SUFFICES ASSUME IInv, HostInv, Read \/ Probe PROVE HostInv'
    OBVIOUS
<1>1. /\ UNCHANGED <<phase, base, spf, file, entry, rel, got>>
      /\ UNCHANGED layoutVars /\ pc' = "read"
      /\ walking' => phase # "done" /\ sector' \in Wanted
    BY DEF Read, Probe, disk_access_read
<1>2. Wanted' = Wanted
    BY <1>1 DEF Wanted, FatStart, SectorOf, DataStart
<1>3. Learned'
    <2>1. sect_per_fat' = sect_per_fat /\ boot_lba' = boot_lba
        BY <1>1 DEF sect_per_fat, num_clust, layoutVars, boot_lba
    <2> QED BY <1>1, <2>1 DEF HostInv, Learned
<1>4. UnderWay'
    BY <1>1, <1>2 DEF UnderWay
<1>5. Place' /\ Copied'
    BY <1>1 DEF HostInv, Place, Copied, First, layoutVars
<1> QED BY <1>3, <1>4, <1>5 DEF HostInv

LEMMA NextFileStarts == IInv /\ HostInv /\ NextFile => HostInv'
<1> SUFFICES ASSUME IInv, HostInv, NextFile PROVE HostInv'
    OBVIOUS
<1>1. /\ phase = "done" /\ pc = "idle" /\ pc' = "idle" /\ file' \in File
      /\ phase' = "dir" /\ entry' = NoEntry /\ rel' = 0 /\ got' = <<>>
      /\ UNCHANGED <<layoutVars, base, spf>>
    BY DEF NextFile, diskVars
<1>2. Learned'
    <2>1. sect_per_fat' = sect_per_fat /\ boot_lba' = boot_lba
        BY <1>1 DEF sect_per_fat, num_clust, layoutVars, boot_lba
    <2> QED BY <1>1, <2>1 DEF HostInv, Learned
<1>3. UnderWay'
    BY <1>1 DEF UnderWay
<1>4. got' \in Seq(Bytes') /\ Len(got') = 0
    BY <1>1
<1>5. Place'
    <2>1. rel' * DirEntries <= file'
        <3>1. 0 * DirEntries = 0
            BY Geometry
        <3>2. 0 <= file'
            BY <1>1 DEF File
        <3> QED BY <1>1, <3>1, <3>2
    <2>2. NoEntry' = NoEntry
        BY DEF NoEntry
    <2> QED BY <1>1, <1>4, <2>1, <2>2, Geometry DEF Place
<1>6. Copied'
    BY <1>4 DEF Copied
<1> QED BY <1>2, <1>3, <1>5, <1>6 DEF HostInv

\* A sector that the host asked for has arrived.
LEMMA Delivery ==
    ASSUME IInv, Answers, HostInv, Delivered
    PROVE  /\ pc = "answered" /\ phase # "done" /\ sector \in Wanted /\ RightAnswer(data)
           /\ pc' = "idle" /\ UNCHANGED layoutVars /\ UnderWay'
           /\ sect_per_fat' = sect_per_fat /\ boot_lba' = boot_lba
           /\ Usable => Takes
<1>1. /\ pc = "answered" /\ walking /\ pc' = "idle" /\ UNCHANGED layoutVars
    BY DEF Delivered, Returned
<1>2. phase # "done" /\ sector \in Wanted
    BY <1>1 DEF HostInv, UnderWay
<1>3. RightAnswer(data)
    BY <1>1 DEF Answers
<1>4. UnderWay'
    BY <1>1 DEF UnderWay
<1>5. sect_per_fat' = sect_per_fat /\ boot_lba' = boot_lba
    BY <1>1 DEF sect_per_fat, num_clust, layoutVars, boot_lba
<1>6. Usable => Takes
    BY DEF Delivered
<1> QED BY <1>1, <1>2, <1>3, <1>4, <1>5, <1>6

LEMMA MbrArrives ==
    ASSUME IInv, Answers, HostInv, Delivered, phase = "mbr"
    PROVE  HostInv'
<1>1. sector = 0
    BY Delivery DEF Wanted
<1>2. data = [kind |-> "mbr", StartLBA |-> boot_lba]
    BY <1>1, Delivery DEF RightAnswer
<1>3. Usable
    BY <1>2 DEF Usable
<1>4. TakesMbr
    BY <1>3, Delivery DEF Takes, TakesBoot, TakesDir, TakesData, TakesFat
<1>5. base' = boot_lba /\ phase' = "boot" /\ UNCHANGED <<spf, file, entry, rel, got>>
    BY <1>2, <1>4 DEF TakesMbr
<1>6. Learned'
    BY <1>5, Delivery DEF HostInv, Learned
<1>7. Place' /\ Copied'
    BY <1>5 DEF HostInv, Place, Copied, NoEntry
<1> QED BY <1>6, <1>7, Delivery DEF HostInv

LEMMA BootArrives ==
    ASSUME IInv, Answers, HostInv, Delivered, phase = "boot"
    PROVE  HostInv'
<1>1. sector = boot_lba /\ base = boot_lba
    BY Delivery DEF Wanted, HostInv, Learned
<1>2. data = [kind |-> "boot", sectors_per_fat |-> sect_per_fat]
    BY <1>1, Delivery DEF RightAnswer
<1>3. Usable
    BY <1>2 DEF Usable
<1>4. TakesBoot
    BY <1>3, Delivery DEF Takes, TakesMbr, TakesDir, TakesData, TakesFat
<1>5. spf' = sect_per_fat /\ phase' = "dir" /\ UNCHANGED <<base, file, entry, rel, got>>
    BY <1>2, <1>4 DEF TakesBoot
<1>6. Learned'
    BY <1>1, <1>5, Delivery DEF HostInv, Learned
<1>7. Place'
    <2>1. file \in 1..3 /\ rel = 0 /\ 0 * DirEntries = 0
        BY Geometry DEF HostInv, Learned, Place, File
    <2>2. rel' * DirEntries <= file'
        BY <1>5, <2>1
    <2> QED BY <1>5, <2>2 DEF HostInv, Place, NoEntry
<1>8. Copied'
    BY <1>5 DEF HostInv, Copied
<1> QED BY <1>6, <1>7, <1>8, Delivery DEF HostInv

\* The directory lists the file in the sector of its place, which is one of the
\* first cluster.
LEMMA Listed ==
    ASSUME NEW f \in File, NEW r \in Int, 0 <= r, r < SECT_PER_CLUST, r * DirEntries <= f
    PROVE  LET d == fill_dir_sector(r)
           IN  /\ d.kind = "dir"
               /\ \A x \in d.files : x.file = f => x = DirEntry(f)
               /\ f < (r + 1) * DirEntries => DirEntry(f) \in d.files
               /\ r + 1 = SECT_PER_CLUST => f < (r + 1) * DirEntries
<1> DEFINE n == r * DirEntries
<1>1. DirEntries \in Nat /\ DirEntries > 0 /\ f \in Int /\ 1 <= f /\ f <= 3
      /\ SECT_PER_CLUST \in Nat
    BY Geometry DEF File
<1>2. n \in Int /\ (r + 1) * DirEntries = n + DirEntries
    BY <1>1, SMT
<1>3. r = 0 => n = 0
    BY <1>1
<1>4. \A g \in File : DirEntry(g).file = g
    BY DEF DirEntry
<1>5. n <= f
    OBVIOUS
<1>6. r + 1 = SECT_PER_CLUST => f < n + DirEntries
    <2>1. ASSUME r + 1 = SECT_PER_CLUST PROVE n + DirEntries = DirEntries * SECT_PER_CLUST
        <3>1. (r + 1) * DirEntries = DirEntries * (r + 1)
            BY <1>1, SMT
        <3> QED BY <1>2, <2>1, <3>1
    <2>2. DirEntries * SECT_PER_CLUST >= 4 /\ n + DirEntries \in Int
        BY <1>1, <1>2, VolumeAssumption
    <2> HIDE DEF n
    <2> QED BY <1>1, <2>1, <2>2
<1> DEFINE files == fill_dir_sector(r).files
           listed == IF r = 0
                     THEN {g \in File : g <= DirEntries - 1}
                     ELSE {g \in File : n - 1 < g /\ g <= n - 1 + DirEntries}
<1>7. fill_dir_sector(r).kind = "dir" /\ files = {DirEntry(g) : g \in listed}
    BY DEF fill_dir_sector
<1>8. \A g \in listed : g \in File
    OBVIOUS
<1>9. f < n + DirEntries => f \in listed
    <2> HIDE DEF n
    <2> QED BY <1>1, <1>2, <1>3, <1>5
<1> HIDE DEF files, listed, n
<1>10. \A x \in files : x.file = f => x = DirEntry(f)
    BY <1>4, <1>7, <1>8
<1>11. f < n + DirEntries => DirEntry(f) \in files
    BY <1>7, <1>9
<1> QED BY <1>2, <1>6, <1>7, <1>10, <1>11 DEF files

LEMMA DirArrives ==
    ASSUME IInv, Extents, Answers, HostInv, Delivered, phase = "dir"
    PROVE  HostInv'
<1>1. /\ rel \in Int /\ 0 <= rel /\ rel < SECT_PER_CLUST /\ rel * DirEntries <= file
      /\ entry = NoEntry /\ Len(got) = 0 /\ got \in Seq(Bytes)
      /\ file \in File /\ base = boot_lba /\ spf = sect_per_fat /\ pc # "emfat_init"
    BY DEF HostInv, Place, Learned
<1>2. sector = SectorOf(2)
    BY <1>1, Delivery DEF Wanted, NoEntry
<1>3. /\ sector >= root_lba /\ ClusterOf(sector) = 2 /\ InsideOf(sector) = rel
    BY <1>1, <1>2, WhereData
<1>4. /\ Arrays /\ Layout /\ i = 4
      /\ \A e \in Entry : /\ first_clust[e] \in Int /\ last_clust[e] \in Int
                          /\ first_clust[e] <= last_clust[e]
    BY <1>1, LaidOut
<1>5. Root \in Owners(2)
    <2>1. first_clust[0] = 2 /\ last_reserved[0] = last_clust[0] /\ 2 <= last_clust[0]
        BY <1>4 DEF Layout, Entry
    <2> QED BY <2>1 DEF Owners, IS_CLUST_OF, Root, Entry
<1>6. data = fill_dir_sector(rel)
    BY <1>3, <1>5, Delivery DEF RightAnswer, SectorIn
<1>7. /\ data.kind = "dir"
      /\ \A x \in data.files : x.file = file => x = DirEntry(file)
      /\ file < (rel + 1) * DirEntries => DirEntry(file) \in data.files
      /\ rel + 1 = SECT_PER_CLUST => file < (rel + 1) * DirEntries
    BY <1>1, <1>6, Listed
<1>8. DirEntry(file).file = file /\ DirEntry(file).clust = First
      /\ DirEntry(file).size = curr_size(file)
    BY DEF DirEntry, First
<1>9. Usable
    <2>1. rel + 1 = SECT_PER_CLUST => \E d \in data.files : d.file = file
        BY <1>7, <1>8
    <2> QED BY <1>7, <2>1 DEF Usable
<1>10. TakesDir
    BY <1>9, Delivery DEF Takes, TakesMbr, TakesBoot, TakesData, TakesFat
<1>11. UNCHANGED <<base, spf, file, got>> /\ First' = First
       /\ last_clust' = last_clust
    BY <1>10, Delivery DEF TakesDir, First, layoutVars
<1>12. phase' \in {"dir", "data"}
    BY <1>10 DEF TakesDir
<1>13. Learned'
    BY <1>1, <1>11, <1>12, Delivery DEF Learned
<1>14. Copied'
    BY <1>1, <1>11 DEF Copied
<1>15. CASE \E d \in data.files :
               /\ d.file = file
               /\ entry' = [clust |-> d.clust, size |-> d.size]
               /\ phase' = "data" /\ rel' = 0
    <2>1. entry' = [clust |-> First, size |-> curr_size(file)] /\ phase' = "data" /\ rel' = 0
        BY <1>7, <1>8, <1>15
    <2>2. First \in Int /\ First <= last_clust[file] /\ file \in Entry
        BY <1>1, <1>4 DEF First, File, Entry
    <2>3. curr_size(file) \in Nat \ {0} /\ SECT_PER_CLUST > 0
        BY <1>1, Geometry
    <2>4. (First - First) * CLUST + 0 * SECT = 0
        BY <2>2, Geometry
    <2>5. curr_size(file)' = curr_size(file)
        BY <1>11 DEF curr_size
    <2> QED BY <1>1, <1>11, <1>13, <1>14, <2>1, <2>2, <2>3, <2>4, <2>5, Delivery
            DEF HostInv, Place, Bytes
<1>16. CASE /\ \A d \in data.files : d.file # file
            /\ rel + 1 < SECT_PER_CLUST /\ rel' = rel + 1
            /\ UNCHANGED <<phase, entry>>
    <2>1. ~(file < (rel + 1) * DirEntries)
        BY <1>7, <1>8, <1>16
    <2>2. (rel + 1) * DirEntries \in Int /\ file \in Int
        <3>1. \A a, b \in Int : a * b \in Int
            BY SMT
        <3> QED BY <1>1, <3>1, Geometry DEF File
    <2>3. rel' * DirEntries <= file'
        BY <1>11, <1>16, <2>1, <2>2
    <2> QED BY <1>1, <1>11, <1>13, <1>14, <1>16, <2>3, Delivery
            DEF HostInv, Place, NoEntry, Bytes
<1> QED BY <1>10, <1>15, <1>16 DEF TakesDir

LEMMA FatArrives ==
    ASSUME IInv, Extents, Answers, HostInv, Delivered, phase = "fat"
    PROVE  HostInv'
<1> DEFINE c == entry.clust
<1>1. /\ file \in File /\ base = boot_lba /\ spf = sect_per_fat /\ pc # "emfat_init"
      /\ entry = [clust |-> c, size |-> curr_size(file)]
      /\ c \in Int /\ First <= c /\ c <= last_clust[file]
      /\ Len(got) < curr_size(file) /\ got \in Seq(Bytes)
      /\ rel = 0 /\ Len(got) = (c - First + 1) * CLUST
    BY DEF HostInv, Place, Learned
<1> HIDE DEF c
<1>2. c < last_clust[file]
    BY <1>1, AnotherCluster DEF First
<1>3. c \in Nat /\ c <= AllClusters /\ FatValue(c) = c + 1 /\ c + 1 \notin NoCluster
    BY <1>1, <1>2, ChainGoesOn DEF First
<1>4. PICK copy \in 0..1 : sector = FatStart + copy * spf + c \div FatValues
    BY Delivery DEF Wanted, c
<1>5. /\ fat1_lba <= sector /\ sector < root_lba
      /\ FatOf(sector) * FatValues + (c % FatValues) = c
      /\ c % FatValues \in 0..(FatValues - 1)
    BY <1>1, <1>3, <1>4, WhereFat
<1> DEFINE k == (c % FatValues) + 1
<1>6. data.kind = "fat" /\ Len(data.values) = FatValues
    BY <1>5, Delivery DEF RightAnswer
<1>7. k \in 1..Len(data.values) /\ k - 1 = c % FatValues
    BY <1>5, <1>6, Geometry
<1>8. data.values[k] = FatValue(FatOf(sector) * FatValues + k - 1)
    BY <1>6, <1>7, Delivery DEF IInv, FatIsFixed
<1>9. FatOf(sector) * FatValues + k - 1 = c
    <2> DEFINE n == FatOf(sector) * FatValues
               m == c % FatValues
    <2>1. n \in Int
        <3>1. FatOf(sector) \in Int
            BY FatsBehindFsinfo, <1>1 DEF FatOf, IInv, Cursor
        <3>2. \A a, b \in Int : a * b \in Int
            BY SMT
        <3> QED BY <3>1, <3>2, Geometry
    <2>2. m \in Int /\ n + m = c
        BY <1>5
    <2> HIDE DEF n, m
    <2>3. n + (m + 1) - 1 = c
        BY <2>1, <2>2
    <2> QED BY <2>3 DEF n, m
<1>10. data.values[k] = c + 1
    BY <1>3, <1>8, <1>9
<1>11. Usable
    BY <1>3, <1>6, <1>10 DEF Usable, c
<1>12. TakesFat
    BY <1>11, Delivery DEF Takes, TakesMbr, TakesBoot, TakesDir, TakesData
<1>13. entry' = [entry EXCEPT !.clust = c + 1] /\ phase' = "data"
       /\ UNCHANGED <<base, spf, file, rel, got>>
    BY <1>10, <1>12 DEF TakesFat, c
<1>14. entry' = [clust |-> c + 1, size |-> curr_size(file)]
    BY <1>1, <1>13
<1>15. First' = First /\ last_clust' = last_clust /\ curr_size(file)' = curr_size(file)
       /\ First \in Int /\ last_clust[file] \in Int
    <2>1. file \in Entry
        BY <1>1 DEF File, Entry
    <2>2. First \in Int /\ last_clust[file] \in Int
        BY <1>1, <2>1, LaidOut DEF First
    <2> QED BY <1>13, <2>2, Delivery DEF First, layoutVars, curr_size
<1>16. Learned'
    BY <1>1, <1>13, Delivery DEF Learned
<1>17. Copied'
    BY <1>13 DEF HostInv, Copied
<1>18. Place'
    <2>1. Len(got) = (c + 1 - First) * CLUST + 0 * SECT
        <3>1. 0 * SECT = 0 /\ c + 1 - First = c - First + 1
            BY <1>1, <1>15, Geometry
        <3>2. (c - First + 1) * CLUST \in Int
            <4>1. \A a, b \in Int : a * b \in Int
                BY SMT
            <4>2. c - First + 1 \in Int
                BY <1>1, <1>15
            <4> QED BY <4>1, <4>2, Geometry
        <3> QED BY <1>1, <3>1, <3>2
    <2>2. entry'.clust = c + 1
        BY <1>14
    <2>3. First <= c + 1 /\ c + 1 <= last_clust[file] /\ c + 1 \in Int
        BY <1>1, <1>2, <1>15
    <2>4. Len(got') = (entry'.clust - First') * CLUST + rel' * SECT
        BY <1>1, <1>13, <1>15, <2>1, <2>2
    <2>5. /\ entry' = [clust |-> entry'.clust, size |-> curr_size(file)']
          /\ entry'.clust \in Int /\ First' <= entry'.clust /\ entry'.clust <= last_clust'[file']
          /\ Len(got') < curr_size(file)'
        BY <1>1, <1>13, <1>14, <1>15, <2>2, <2>3
    <2>6. got' \in Seq(Bytes') /\ rel' \in Int /\ 0 <= rel' /\ rel' < SECT_PER_CLUST
        BY <1>1, <1>13, Geometry DEF Bytes
    <2> QED BY <1>13, <2>4, <2>5, <2>6 DEF Place
<1> QED BY <1>16, <1>17, <1>18, Delivery DEF HostInv

\* What the host has, and the bytes of a sector behind it.
LEMMA GotGrows ==
    ASSUME NEW f \in File, NEW g \in Seq(Bytes), NEW n \in Nat,
           Len(g) + n <= curr_size(f), n <= SECT,
           n <= Length(curr_size(f), Len(g)),
           \A k \in 1..Len(g) : g[k] = Contents(f)[k]
    PROVE  LET t == [k \in 1..n |-> readcb(f, Len(g)).bytes[k - 1]]
           IN  /\ g \o t \in Seq(Bytes) /\ Len(g \o t) = Len(g) + n
               /\ \A k \in 1..Len(g \o t) : (g \o t)[k] = Contents(f)[k]
<1> DEFINE t == [k \in 1..n |-> readcb(f, Len(g)).bytes[k - 1]]
           off == Len(g)
<1>1. off \in Nat /\ SECT \in Nat /\ curr_size(f) \in Nat /\ off + n <= curr_size(f)
    BY Geometry
<1> HIDE DEF off
<1>2. ASSUME NEW k \in 1..n
      PROVE  t[k] = Byte(f, off + k - 1) /\ t[k] = Contents(f)[off + k] /\ t[k] \in Bytes
    <2>1. k - 1 \in 0..(SECT - 1) /\ k - 1 < Length(curr_size(f), off)
          /\ off + k - 1 \in Nat /\ off + k - 1 < curr_size(f)
          /\ off + (k - 1) = off + k - 1 /\ off + k - 1 + 1 = off + k
        <3>1. Length(curr_size(f), off) \in Int
            BY <1>1 DEF Length
        <3>2. n <= Length(curr_size(f), off)
            BY DEF off
        <3> QED BY <1>1, <3>1, <3>2
    <2>2. t[k] = readcb(f, off).bytes[k - 1]
        BY DEF off
    <2> HIDE DEF t
    <2>3. readcb(f, off).bytes[k - 1] = Byte(f, off + (k - 1))
        BY <2>1 DEF readcb
    <2>4. t[k] = Byte(f, off + k - 1)
        BY <2>1, <2>2, <2>3
    <2>5. Byte(f, off + k - 1) = Contents(f)[off + k - 1 + 1]
        BY <2>1, ByteIs
    <2>6. t[k] = Contents(f)[off + k]
        BY <2>1, <2>4, <2>5
    <2>7. t[k] \in Bytes
        BY <2>1, <2>4 DEF Bytes
    <2> QED BY <2>4, <2>6, <2>7
<1>3. t \in [1..n -> Bytes]
    BY <1>2
<1> HIDE DEF t
<1>4. t \in Seq(Bytes) /\ Len(t) = n
    BY <1>3, FunctionIsSeq
<1> DEFINE w == g \o t
<1>5. w \in Seq(Bytes)
    BY <1>4, Joined
<1>6. Len(w) = Len(g) + Len(t)
    BY <1>4, Joined
<1>7. \A k \in 1..Len(g) : w[k] = g[k]
    BY <1>4, Joined
<1>8. \A k \in 1..Len(t) : w[Len(g) + k] = t[k]
    BY <1>4, Joined
<1> HIDE DEF w
<1>9. Len(w) = off + n
    BY <1>4, <1>6 DEF off
<1>10. ASSUME NEW k \in 1..Len(w) PROVE w[k] = Contents(f)[k]
    <2>1. CASE k <= off
        <3>1. k \in 1..Len(g)
            BY <1>1, <2>1 DEF off
        <3> QED BY <1>7, <3>1
    <2>2. CASE ~(k <= off)
        <3> DEFINE j == k - off
        <3>1. j \in 1..n /\ k = off + j
            BY <1>1, <1>9, <2>2
        <3> HIDE DEF j
        <3>2. w[off + j] = t[j]
            BY <1>4, <1>8, <3>1 DEF off
        <3>3. t[j] = Contents(f)[off + j]
            BY <1>2, <3>1
        <3> QED BY <3>1, <3>2, <3>3
    <2> QED BY <2>1, <2>2
<1> QED BY <1>5, <1>9, <1>10 DEF w, t, off

LEMMA DataArrives ==
    ASSUME IInv, Extents, Answers, HostInv, Delivered, phase = "data"
    PROVE  HostInv'
<1> DEFINE c == entry.clust
           size == curr_size(file)
           off == Len(got)
           left == size - off
           n == IF left < SECT THEN left ELSE SECT
<1>1. /\ file \in File /\ base = boot_lba /\ spf = sect_per_fat /\ pc # "emfat_init"
      /\ entry = [clust |-> c, size |-> size]
      /\ c \in Int /\ First <= c /\ c <= last_clust[file]
      /\ off < size /\ got \in Seq(Bytes)
      /\ rel \in Int /\ 0 <= rel /\ rel < SECT_PER_CLUST
      /\ off = (c - First) * CLUST + rel * SECT
      /\ \A k \in 1..off : got[k] = Contents(file)[k]
    BY DEF HostInv, Place, Learned, Copied
<1>2. /\ file \in Entry /\ file # Root
      /\ First \in Int /\ 2 <= First /\ last_clust[file] \in Int
      /\ last_clust[file] = last_reserved[file]
    <2>1. file \in Entry /\ file # Root
        BY <1>1 DEF File, Entry, Root
    <2>2. i = 4 /\ Layout
        BY <1>1, LaidOut
    <2>3. last_clust[file] = last_reserved[file]
        BY <2>1, <2>2 DEF Layout, Entry
    <2> QED BY <1>1, <2>1, <2>3, LaidOut DEF First
<1>3. off \in Nat /\ size \in Nat /\ SECT \in Nat /\ SECT > 0
      /\ SECT_PER_CLUST \in Nat /\ CLUST = SECT * SECT_PER_CLUST /\ CLUST \in Nat
    BY <1>1, Geometry
<1>4. entry.clust = c /\ entry.size = size
    BY <1>1
<1> HIDE DEF c, size, off
<1>5. sector = SectorOf(c)
    BY Delivery DEF Wanted, c
<1>6. sector >= root_lba /\ ClusterOf(sector) = c /\ InsideOf(sector) = rel
    <2>1. c >= 2
        BY <1>1, <1>2
    <2> QED BY <1>1, <1>5, <2>1, WhereData
<1>7. file \in Owners(c)
    BY <1>1, <1>2 DEF Owners, IS_CLUST_OF, First
<1>8. data = readcb(file, off)
    <2>1. data = SectorIn(file, c, rel)
        BY <1>6, <1>7, Delivery DEF RightAnswer
    <2> QED BY <1>1, <1>2, <2>1 DEF SectorIn, First
<1>9. data.kind = "file" /\ Usable
    <2>1. data.kind = "file"
        BY <1>8 DEF readcb
    <2> QED BY <2>1 DEF Usable
<1>10. TakesData
    BY <1>9, Delivery DEF Takes, TakesMbr, TakesBoot, TakesDir, TakesFat
<1>11. /\ got' = got \o [k \in 1..n |-> data.bytes[k - 1]]
       /\ phase' = IF left <= SECT THEN "done"
                   ELSE IF rel + 1 < SECT_PER_CLUST THEN "data" ELSE "fat"
       /\ rel' = (rel + 1) % SECT_PER_CLUST
       /\ UNCHANGED <<base, spf, file, entry>>
    BY <1>4, <1>10 DEF TakesData, off
<1>12. n \in Nat /\ n <= SECT /\ off + n <= size /\ n <= Length(size, off)
    BY <1>1, <1>3 DEF Length
<1>13. /\ got' \in Seq(Bytes) /\ Len(got') = off + n
       /\ \A k \in 1..Len(got') : got'[k] = Contents(file)[k]
    <2> HIDE DEF n
    <2> DEFINE t == [k \in 1..n |-> readcb(file, off).bytes[k - 1]]
    <2>1. got' = got \o t
        BY <1>8, <1>11
    <2>2. /\ got \o t \in Seq(Bytes) /\ Len(got \o t) = off + n
          /\ \A k \in 1..Len(got \o t) : (got \o t)[k] = Contents(file)[k]
        BY <1>1, <1>12, GotGrows DEF off, size
    <2> HIDE DEF t
    <2> QED BY <2>1, <2>2
<1>14. First' = First /\ last_clust' = last_clust /\ curr_size(file)' = size
    BY <1>11, Delivery DEF First, layoutVars, curr_size, size
<1>15. Copied'
    <2>1. Contents(file)' = Contents(file)
        BY <1>11 DEF Contents, Written, curr_size
    <2> QED BY <1>11, <1>13, <2>1 DEF Copied
<1>16. phase' \in {"data", "fat", "done"}
    BY <1>11
<1>17. Learned'
    BY <1>1, <1>11, <1>16, Delivery DEF Learned
<1>18. entry' = [clust |-> c, size |-> curr_size(file)'] /\ entry'.clust = c
    BY <1>1, <1>11, <1>14
<1>19. 0 <= rel' /\ rel' < SECT_PER_CLUST /\ rel' \in Int
    <2>1. SECT_PER_CLUST > 0 /\ rel + 1 \in Nat
        BY <1>1, <1>3
    <2> HIDE DEF n, left
    <2>2. rel' = (rel + 1) % SECT_PER_CLUST
        BY <1>11
    <2> QED BY <1>3, <2>1, <2>2, Division
<1>27. /\ entry' = [clust |-> entry'.clust, size |-> curr_size(file)']
       /\ entry'.clust \in Int /\ First' <= entry'.clust /\ entry'.clust <= last_clust'[file']
    BY <1>1, <1>11, <1>14, <1>18
<1>28. got' \in Seq(Bytes')
    BY <1>13 DEF Bytes
<1> DEFINE before == (c - First) * CLUST
<1>20. before \in Int /\ rel * SECT \in Int
    <2>1. \A a, b \in Int : a * b \in Int
        BY SMT
    <2>2. c - First \in Int
        BY <1>1, <1>2
    <2> QED BY <1>1, <1>3, <2>1, <2>2
<1>21. (rel + 1) * SECT = rel * SECT + SECT
    BY <1>1, <1>3, SMT
<1>22. (c - First + 1) * CLUST = before + CLUST
    <2>1. \A a, b \in Int : (a + 1) * b = a * b + b
        BY SMT
    <2>2. c - First \in Int
        BY <1>1, <1>2
    <2> QED BY <1>3, <2>1, <2>2
<1> HIDE DEF before
<1>23. off = before + rel * SECT
    BY <1>1 DEF before
<1>24. CASE left <= SECT
    <2>1. left \in Int /\ off + left = size
        BY <1>3
    <2>2. n = left
        <3> HIDE DEF left
        <3> QED BY <1>3, <1>24, <2>1
    <2>3. phase' = "done"
        BY <1>11, <1>24
    <2> HIDE DEF n, left
    <2>4. Len(got') = size
        BY <1>13, <2>1, <2>2
    <2>5. Place'
        BY <1>14, <1>19, <1>28, <2>3, <2>4 DEF Place
    <2> QED BY <1>15, <1>17, <2>5, Delivery DEF HostInv
<1>25. CASE ~(left <= SECT) /\ rel + 1 < SECT_PER_CLUST
    <2>1. phase' = "data" /\ n = SECT /\ off + SECT < size
        BY <1>3, <1>11, <1>25
    <2>2. rel' = rel + 1
        <3>1. SECT_PER_CLUST > 0 /\ 0 \in Nat /\ 0 <= rel + 1 /\ rel + 1 \in Int
            BY <1>1, <1>3
        <3>2. (0 * SECT_PER_CLUST + (rel + 1)) % SECT_PER_CLUST = rel + 1
            BY <1>3, <1>25, <3>1, UniqueQuotient
        <3>3. 0 * SECT_PER_CLUST + (rel + 1) = rel + 1
            BY <1>3, <3>1
        <3> QED BY <1>11, <3>2, <3>3
    <2>3. Len(got') = before + (rel + 1) * SECT
        BY <1>3, <1>13, <1>20, <1>21, <1>23, <2>1
    <2>4. Len(got') < size
        BY <1>13, <2>1
    <2>5. Len(got') = (c - First) * CLUST + rel' * SECT
        BY <2>2, <2>3 DEF before
    <2>6. Len(got') < curr_size(file)'
        BY <1>14, <2>4
    <2>7. Len(got') = (entry'.clust - First') * CLUST + rel' * SECT
        BY <1>14, <1>18, <2>5
    <2>8. Place'
        BY <1>19, <1>27, <1>28, <2>1, <2>6, <2>7 DEF Place
    <2> QED BY <1>15, <1>17, <2>8, Delivery DEF HostInv
<1>26. CASE ~(left <= SECT) /\ ~(rel + 1 < SECT_PER_CLUST)
    <2>1. phase' = "fat" /\ n = SECT /\ off + SECT < size
        BY <1>3, <1>11, <1>26
    <2>2. rel + 1 = SECT_PER_CLUST
        BY <1>1, <1>3, <1>26
    <2>3. rel' = 0
        <3>1. (1 * SECT_PER_CLUST + 0) % SECT_PER_CLUST = 0
            BY <1>1, <1>3, UniqueQuotient
        <3>2. 1 * SECT_PER_CLUST + 0 = rel + 1
            BY <1>1, <1>3, <2>2
        <3> QED BY <1>11, <3>1, <3>2
    <2>4. (rel + 1) * SECT = CLUST
        <3>1. SECT_PER_CLUST * SECT = SECT * SECT_PER_CLUST
            BY <1>3, SMT
        <3> QED BY <1>3, <2>2, <3>1
    <2>5. Len(got') = before + CLUST
        <3>1. Len(got') = off + SECT
            BY <1>13, <2>1
        <3>2. rel * SECT + SECT = CLUST
            BY <1>21, <2>4
        <3> DEFINE x == rel * SECT
        <3>3. off = before + x /\ x + SECT = CLUST /\ x \in Int
            BY <1>20, <1>23, <3>2
        <3> HIDE DEF x
        <3>4. off + SECT = before + CLUST
            BY <1>3, <1>20, <3>3
        <3> QED BY <3>1, <3>4
    <2>6. Len(got') < curr_size(file)'
        BY <1>13, <1>14, <2>1
    <2>7. Len(got') = (entry'.clust - First' + 1) * CLUST
        BY <1>14, <1>18, <1>22, <2>5
    <2>8. Place'
        BY <1>19, <1>27, <1>28, <2>1, <2>3, <2>6, <2>7 DEF Place
    <2> QED BY <1>15, <1>17, <2>8, Delivery DEF HostInv
<1> QED BY <1>24, <1>25, <1>26

LEMMA HostKept == IInv /\ Extents /\ Answers /\ HostInv /\ [Next]_vars => HostInv'
<1> SUFFICES ASSUME IInv, Extents, Answers, HostInv, [Next]_vars PROVE HostInv'
    OBVIOUS
<1>1. CASE Disk /\ UNCHANGED hostVars
    BY <1>1, DiskKeepsHost
<1>2. CASE Read \/ Probe
    BY <1>2, ReadKeepsHost
<1>3. CASE Dropped
    BY <1>3, HostWaits DEF Dropped, Returned
<1>4. CASE Delivered
    <2>1. phase \in {"mbr", "boot", "dir", "data", "fat"}
        BY <1>4, Delivery DEF HostInv, Learned
    <2> QED BY <1>4, <2>1, MbrArrives, BootArrives, DirArrives, DataArrives, FatArrives
<1>5. CASE NextFile
    BY <1>5, NextFileStarts
<1>6. CASE UNCHANGED vars
    BY <1>6, HostWaits DEF vars, diskVars
<1> QED BY <1>1, <1>2, <1>3, <1>4, <1>5, <1>6 DEF Next

\* A host that follows the boot sector, the directory and either FAT copies each
\* file of the table whole and in order, whatever sectors it reads in between: for
\* every size of the files and every geometry whose FAT and root are long enough.
THEOREM FilesAlwaysArrive == Spec => []FilesArrive
<1>1. Spec => []IInv
    BY InitHolds, Inductive, PTL DEF Spec
<1>2. Spec => []Extents
    BY <1>1, ExtentsStart, ExtentsKept, PTL DEF Spec
<1>3. Init => Answers
    BY DEF Init, DiskInit, Answers
<1>4. Spec => []Answers
    BY <1>1, <1>3, AnswersKept, PTL DEF Spec
<1>5. Spec => []HostInv
    BY <1>1, <1>2, <1>4, HostStart, HostKept, PTL DEF Spec
<1>6. HostInv => FilesArrive
    <2> SUFFICES ASSUME HostInv PROVE FilesArrive
        OBVIOUS
    <2>1. phase # "broken"
        BY DEF HostInv, Learned
    <2>2. Len(got) <= curr_size(file) /\ (phase = "done" => Len(got) = curr_size(file))
        <3>1. Len(got) \in Nat /\ curr_size(file) \in Nat
            BY Geometry DEF HostInv, Place, Learned
        <3> QED BY <3>1 DEF HostInv, Place, Learned
    <2> QED BY <2>1, <2>2 DEF HostInv, Copied, FilesArrive
<1> QED BY <1>5, <1>6, PTL
================================================================================
