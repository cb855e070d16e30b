------------------------------- MODULE EmfatDisk -------------------------------
(***************************************************************************)
(* The sensor as a USB disk: a FAT32 volume of three files that exists     *)
(* only as the code that answers the reads of the host.  The emfat library *)
(* (its source is in zephyr.lst) lays the files out at start and makes     *)
(* each sector when it is read, with the help of the entry found last;     *)
(* src/app.c has the table of the files and the procedures that make their *)
(* bytes.                                                                  *)
(*                                                                         *)
(* A byte of a file is the pair of an array and a position in it.  Of a    *)
(* sector the fields that lead a host to the files are kept.               *)
(***************************************************************************)
EXTENDS Integers, Sequences

CONSTANTS
    SECT,               \* bytes of a sector
    SECT_PER_CLUST,
    FatValues,          \* values in a sector of the FAT
    DirEntries,         \* entries in a sector of a directory
    INDEX_SIZE, README_SIZE, TEST_SIZE,
    IndexText, ReadmeText,  \* lengths of index_file and readme_file
    Digits,             \* digits of VERSION
    NULL

ASSUME GeometryAssumption ==
    /\ {SECT, SECT_PER_CLUST, FatValues, DirEntries, Digits} \subseteq Nat \ {0}
    /\ FatValues > 1
ASSUME SizeAssumption ==
    /\ {INDEX_SIZE, README_SIZE, TEST_SIZE} \subseteq Nat \ {0}
    /\ IndexText \in 0..INDEX_SIZE
    /\ ReadmeText \in Nat /\ ReadmeText + Digits + 1 <= README_SIZE
ASSUME NullAssumption == NULL \notin 0..3

CLUST == SECT * SECT_PER_CLUST

\* The table entries[]: the root and the files in it, by their places.
Root == 0
File == 1..3
Entry == 0..3
curr_size(e) ==
    IF e = 1 THEN INDEX_SIZE ELSE IF e = 2 THEN README_SIZE
    ELSE IF e = 3 THEN TEST_SIZE ELSE 0
max_size(e) == curr_size(e)

VARIABLES
    pc,         \* "emfat_init", "idle", "read", "fat" in the loop, "answered"
    i, clust,   \* emfat_init: the entry and the cluster it has come to
    first_clust, last_clust, last_reserved,
    last_entry, \* the entry found last
    sector,     \* the one the host reads
    curr, le,   \* read_fat_sector
    data        \* the answer

layoutVars == <<i, clust, first_clust, last_clust, last_reserved>>
fatVars == <<curr, le>>
diskVars == <<pc, layoutVars, last_entry, sector, fatVars, data>>

Nothing == [kind |-> "zero"]

DiskInit ==
    /\ pc = "emfat_init" /\ i = Root /\ clust = 2
    /\ first_clust = [e \in Entry |-> 0]
    /\ last_clust = [e \in Entry |-> 0]
    /\ last_reserved = [e \in Entry |-> 0]
    /\ last_entry = Root /\ sector = 0
    /\ curr = 0 /\ le = Root /\ data = Nothing

--------------------------------------------------------------------------------
\* emfat_init

Ceil(n, m) == (n + m - 1) \div m
AtLeastOne(n) == IF n = 0 THEN 1 ELSE n

SIZE_TO_NCLUST(n) == AtLeastOne(Ceil(n, CLUST))

\* emfat_init_entries does not count the first entry of a directory.
num_subentry == 2
RootClusters == AtLeastOne(Ceil(num_subentry, DirEntries * SECT_PER_CLUST))

Clusters(e, size) == IF e = Root THEN RootClusters ELSE SIZE_TO_NCLUST(size)
AllClusters == Clusters(0, 0) + Clusters(1, INDEX_SIZE) + Clusters(2, README_SIZE)
               + Clusters(3, TEST_SIZE)

\* The clusters of one entry.
emfat_init_entry ==
    /\ pc = "emfat_init" /\ i \in Entry
    /\ LET last == clust + Clusters(i, curr_size(i)) - 1
           reserved == clust + Clusters(i, max_size(i)) - 1
       IN  /\ first_clust' = [first_clust EXCEPT ![i] = clust]
           /\ last_clust' = [last_clust EXCEPT ![i] = last]
           /\ last_reserved' = [last_reserved EXCEPT ![i] = reserved]
           /\ clust' = reserved + 1
    /\ i' = i + 1
    /\ UNCHANGED <<pc, last_entry, sector, fatVars, data>>

emfat_init_done ==
    /\ pc = "emfat_init" /\ i \notin Entry
    /\ pc' = "idle"
    /\ last_entry' = Root
    /\ UNCHANGED <<layoutVars, sector, fatVars, data>>

num_clust == clust - 2
sect_per_fat == AtLeastOne(Ceil(num_clust, FatValues))
boot_lba == 62
fsinfo_lba == boot_lba + 1
fat1_lba == fsinfo_lba + 1
fat2_lba == fat1_lba + sect_per_fat
root_lba == fat2_lba + sect_per_fat
disk_sectors == num_clust * SECT_PER_CLUST + root_lba

--------------------------------------------------------------------------------
\* The entry of a cluster

IS_CLUST_OF(c, e) == first_clust[e] <= c /\ c <= last_reserved[e]
Owners(c) == {e \in Entry : IS_CLUST_OF(c, e)}

\* Mutant: the search never goes back.
Bug_OnlyForward(c, nearest) ==
    IF \E e \in Owners(c) : e >= nearest
    THEN CHOOSE e \in Owners(c) : e >= nearest
    ELSE NULL

\* Backward from nearest when it lies behind the cluster, forward otherwise;
\* the first one that owns the cluster.
find_entry(c, nearest) ==
    LET back == {e \in Owners(c) : e <= nearest}
        ahead == {e \in Owners(c) : e >= nearest}
    IN  IF first_clust[nearest] > c
        THEN IF back = {} THEN NULL
             ELSE CHOOSE e \in back : \A f \in back : f <= e
        ELSE IF ahead = {} THEN NULL
             ELSE CHOOSE e \in ahead : \A f \in ahead : e <= f

Lookup(c, nearest) ==
    IF IS_CLUST_OF(c, nearest) THEN nearest ELSE find_entry(c, nearest)

\* Only an entry that was found is kept.
Kept(e) == IF e = NULL THEN last_entry ELSE e

--------------------------------------------------------------------------------
\* The procedures of src/app.c

Stale == <<"stale", 0>>
Space == <<" ", 0>>
Dot == <<".", 0>>

\* The readme is followed by the version, with a dot after its first digit.
Byte(f, p) ==
    LET cur == p - ReadmeText
    IN  IF f = 1 /\ p < IndexText                THEN <<"index_file", p>>
        ELSE IF f = 2 /\ cur < 0                 THEN <<"readme_file", p>>
        ELSE IF f = 2 /\ cur = 0                 THEN <<"ver_s", cur>>
        ELSE IF f = 2 /\ cur = 1                 THEN Dot
        ELSE IF f = 2 /\ cur > 1 /\ cur <= Digits THEN <<"ver_s", cur - 1>>
        ELSE IF f = 3                            THEN <<"test_file", p>>
        ELSE Space

\* Mutant: the end of the file is not looked for.
Bug_WholeSector(size, offset) == SECT

\* How many bytes a procedure writes.
Length(size, offset) ==
    IF offset > size THEN 0
    ELSE IF offset + SECT > size THEN size - offset
    ELSE SECT

\* What is not written stays from an earlier sector.
readcb(f, offset) ==
    LET len == Length(curr_size(f), offset)
    IN  [kind |-> "file",
         bytes |-> [k \in 0..(SECT - 1) |->
                      IF k < len THEN Byte(f, offset + k) ELSE Stale]]

--------------------------------------------------------------------------------
\* Sectors

DirEntry(f) == [file |-> f, clust |-> first_clust[f], size |-> curr_size(f)]

\* Mutant: the volume label is forgotten in the later sectors.
Bug_SkipsOne(rel) ==
    [kind |-> "dir",
     files |-> { DirEntry(f) : f \in
                   {g \in File : IF rel = 0 THEN g < DirEntries
                                 ELSE rel * DirEntries < g /\ g <= (rel + 1) * DirEntries} }]

\* The root directory: the label, then the files.
fill_dir_sector(rel) ==
    LET skipped == rel * DirEntries - 1
        listed == IF rel = 0
                  THEN {f \in File : f <= DirEntries - 1}
                  ELSE {f \in File : skipped < f /\ f <= skipped + DirEntries}
    IN  [kind |-> "dir", files |-> {DirEntry(f) : f \in listed}]

read_data_sector(rel) ==
    LET cluster == rel \div SECT_PER_CLUST + 2
        inside == rel % SECT_PER_CLUST
        e == Lookup(cluster, last_entry)
    IN  /\ pc' = "answered"
        /\ last_entry' = Kept(e)
        /\ data' = IF e = NULL THEN [kind |-> "0xEFBEADDE"]
                   ELSE IF e = Root THEN fill_dir_sector(inside)
                   ELSE readcb(e, (cluster - first_clust[e]) * CLUST + inside * SECT)
        /\ UNCHANGED fatVars

CLUST_FREE == 0
CLUST_RESERVED == 1
CLUST_EOF == 268435455
CLUST_ROOT_END == 268435448
AllOnes == -1

\* The first two values of the table are not of clusters.
read_fat_sector(index) ==
    /\ pc' = "fat"
    /\ le' = last_entry
    /\ curr' = IF index = 0 THEN 2 ELSE index * FatValues
    /\ data' = [kind |-> "fat",
                values |-> IF index = 0 THEN <<CLUST_ROOT_END, AllOnes>> ELSE <<>>]
    /\ UNCHANGED last_entry

ValueIn(e, c) ==
    IF c = last_clust[e] THEN CLUST_EOF
    ELSE IF e \in File /\ c > last_clust[e] THEN CLUST_FREE
    ELSE c + 1

\* One turn of the loop of read_fat_sector; after the last the entry is kept.
read_fat_sector_value ==
    /\ pc = "fat"
    /\ Len(data.values) < FatValues
    /\ LET e == Lookup(curr, le)
       IN  /\ le' = Kept(e)
           /\ data' = [data EXCEPT !.values =
                         Append(@, IF e = NULL THEN CLUST_RESERVED ELSE ValueIn(e, curr))]
    /\ curr' = curr + 1
    /\ UNCHANGED <<pc, layoutVars, last_entry, sector>>

read_fat_sector_end ==
    /\ pc = "fat"
    /\ Len(data.values) = FatValues
    /\ last_entry' = le
    /\ pc' = "answered"
    /\ UNCHANGED <<layoutVars, sector, fatVars, data>>

Plain(d) == pc' = "answered" /\ data' = d /\ UNCHANGED <<last_entry, fatVars>>

emfat_read ==
    /\ pc = "read"
    /\ \/ sector >= root_lba /\ read_data_sector(sector - root_lba)
       \/ sector = 0 /\ Plain([kind |-> "mbr", StartLBA |-> boot_lba])
       \/ sector = fsinfo_lba /\ Plain([kind |-> "fsinfo"])
       \/ sector = boot_lba
          /\ Plain([kind |-> "boot", sectors_per_fat |-> fat2_lba - fat1_lba])
       \/ sector >= fat1_lba /\ sector < fat2_lba /\ read_fat_sector(sector - fat1_lba)
       \/ sector >= fat2_lba /\ sector < root_lba /\ read_fat_sector(sector - fat2_lba)
       \/ sector > 0 /\ sector < boot_lba /\ Plain(Nothing)
    /\ UNCHANGED <<layoutVars, sector>>

Disk ==
    \/ emfat_init_entry \/ emfat_init_done
    \/ emfat_read \/ read_fat_sector_value \/ read_fat_sector_end

--------------------------------------------------------------------------------
\* The other side of the cable

\* The number of a sector is a uint32_t.
disk_access_read(s) ==
    /\ pc = "idle" /\ s \in Nat
    /\ pc' = "read" /\ sector' = s
    /\ UNCHANGED <<layoutVars, last_entry, fatVars, data>>

Returned ==
    /\ pc = "answered"
    /\ pc' = "idle" /\ data' = Nothing
    /\ UNCHANGED <<layoutVars, last_entry, sector, fatVars>>
================================================================================
