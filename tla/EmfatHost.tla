------------------------------- MODULE EmfatHost -------------------------------
(***************************************************************************)
(* A host that mounts the sensor's disk and copies its files, one after    *)
(* the other, as any FAT32 driver does: the partition table, the boot      *)
(* sector, the directory, then the data, along the chain in either FAT.    *)
(* Between two of its reads the host may read any other sector.            *)
(***************************************************************************)
EXTENDS EmfatDisk

CONSTANT Probed     \* the other sectors that are read

ASSUME ProbedAssumption == Probed \subseteq Nat
\* The label and the files are in the first cluster of the root, where this host
\* looks.  emfat_init sizes the FAT without its two reserved values: clusters that
\* fill a sector of values exactly would leave the last value a host needs behind
\* the FAT.  And the cluster numbers stay below the marks.
ASSUME VolumeAssumption ==
    /\ DirEntries * SECT_PER_CLUST >= 4
    /\ AllClusters % FatValues # 0
    /\ AllClusters + 2 < CLUST_ROOT_END

VARIABLES
    phase,              \* what the copying waits for
    walking,            \* whether the sector under way is read for it
    base, spf,          \* the boot sector, and the length of a FAT
    file, entry, rel,   \* the file, its directory entry, a sector in its cluster
    got                 \* the bytes so far

hostVars == <<phase, walking, base, spf, file, entry, rel, got>>
vars == <<diskVars, hostVars>>

NoEntry == [clust |-> 2, size |-> 0]

Init ==
    /\ DiskInit
    /\ phase = "mbr" /\ walking = FALSE
    /\ base = 0 /\ spf = 0
    /\ file \in File /\ entry = NoEntry /\ rel = 0 /\ got = <<>>

\* Two reserved sectors, then two FATs, then cluster 2.
FatStart == base + 2
DataStart == FatStart + 2 * spf
SectorOf(c) == DataStart + (c - 2) * SECT_PER_CLUST + rel

Wanted ==
    CASE phase = "mbr"  -> {0}
      [] phase = "boot" -> {base}
      [] phase = "fat"  -> {FatStart + copy * spf + entry.clust \div FatValues : copy \in 0..1}
      [] OTHER          -> {SectorOf(entry.clust)}

Read ==
    /\ phase \notin {"done", "broken"}
    /\ \E s \in Wanted : disk_access_read(s)
    /\ walking' = TRUE
    /\ UNCHANGED <<phase, base, spf, file, entry, rel, got>>

Probe ==
    /\ \E s \in Probed : disk_access_read(s)
    /\ walking' = FALSE
    /\ UNCHANGED <<phase, base, spf, file, entry, rel, got>>

Dropped == Returned /\ ~walking /\ UNCHANGED hostVars

NoCluster == {CLUST_FREE, CLUST_RESERVED, CLUST_EOF, CLUST_ROOT_END, AllOnes}

\* Whether the sector leads on.
Usable ==
    CASE phase = "dir"  -> /\ data.kind = "dir"
                           /\ rel + 1 = SECT_PER_CLUST => \E d \in data.files : d.file = file
      [] phase = "data" -> data.kind = "file"
      [] phase = "fat"  -> /\ data.kind = "fat"
                           /\ data.values[(entry.clust % FatValues) + 1] \notin NoCluster
      [] OTHER          -> data.kind = phase

TakesMbr ==
    /\ phase = "mbr" /\ data.kind = "mbr"
    /\ base' = data.StartLBA
    /\ phase' = "boot"
    /\ UNCHANGED <<spf, file, entry, rel, got>>

TakesBoot ==
    /\ phase = "boot" /\ data.kind = "boot"
    /\ spf' = data.sectors_per_fat
    /\ phase' = "dir"
    /\ UNCHANGED <<base, file, entry, rel, got>>

TakesDir ==
    /\ phase = "dir" /\ data.kind = "dir"
    /\ \/ \E d \in data.files :
            /\ d.file = file
            /\ entry' = [clust |-> d.clust, size |-> d.size]
            /\ phase' = "data" /\ rel' = 0
       \/ /\ \A d \in data.files : d.file # file
          /\ rel + 1 < SECT_PER_CLUST
          /\ rel' = rel + 1
          /\ UNCHANGED <<phase, entry>>
    /\ UNCHANGED <<base, spf, file, got>>

TakesData ==
    /\ phase = "data" /\ data.kind = "file"
    /\ LET left == entry.size - Len(got)
           n == IF left < SECT THEN left ELSE SECT
       IN  /\ got' = got \o [k \in 1..n |-> data.bytes[k - 1]]
           /\ phase' = IF left <= SECT THEN "done"
                       ELSE IF rel + 1 < SECT_PER_CLUST THEN "data" ELSE "fat"
           /\ rel' = (rel + 1) % SECT_PER_CLUST
    /\ UNCHANGED <<base, spf, file, entry>>

TakesFat ==
    /\ phase = "fat" /\ data.kind = "fat"
    /\ LET v == data.values[(entry.clust % FatValues) + 1]
       IN  /\ v \notin NoCluster
           /\ entry' = [entry EXCEPT !.clust = v]
    /\ phase' = "data"
    /\ UNCHANGED <<base, spf, file, rel, got>>

Takes == TakesMbr \/ TakesBoot \/ TakesDir \/ TakesData \/ TakesFat

\* A sector that leads nowhere ends the copying.
Delivered ==
    /\ Returned /\ walking
    /\ \/ Usable /\ Takes
       \/ ~Usable /\ phase' = "broken" /\ UNCHANGED <<base, spf, file, entry, rel, got>>
    /\ UNCHANGED walking

\* The next file, with the geometry known.
NextFile ==
    /\ phase = "done" /\ pc = "idle"
    /\ file' \in File
    /\ phase' = "dir" /\ entry' = NoEntry /\ rel' = 0 /\ got' = <<>>
    /\ UNCHANGED <<diskVars, walking, base, spf>>

Next ==
    \/ Disk /\ UNCHANGED hostVars
    \/ Read \/ Probe \/ Dropped \/ Delivered \/ NextFile

Spec == Init /\ [][Next]_vars
================================================================================
