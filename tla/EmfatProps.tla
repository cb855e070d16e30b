------------------------------- MODULE EmfatProps -------------------------------
(***************************************************************************)
(* What the emulated disk promises to a host.                              *)
(***************************************************************************)
EXTENDS EmfatHost

\* The file itself: the text, for the readme the version as "1.01", blanks up to
\* the size in the table.
Text(name, from, to) == [k \in 1..(to - from) |-> <<name, from + k - 1>>]
Written(f) ==
    CASE f = 1 -> Text("index_file", 0, IndexText)
      [] f = 2 -> Text("readme_file", 0, ReadmeText) \o Text("ver_s", 0, 1)
                  \o <<Dot>> \o Text("ver_s", 1, Digits)
      [] f = 3 -> Text("test_file", 0, TEST_SIZE)
Contents(f) ==
    [k \in 1..curr_size(f) |-> IF k <= Len(Written(f)) THEN Written(f)[k] ELSE Space]

\* A host finds each file of the table and copies it whole, in order and without
\* a byte of an earlier sector, whatever it reads in between and whichever of
\* the two FATs it follows.
FilesArrive ==
    /\ phase # "broken"
    /\ Len(got) <= curr_size(file)
    /\ \A k \in 1..Len(got) : got[k] = Contents(file)[k]
    /\ phase = "done" => Len(got) = curr_size(file)

\* What a value of the FAT should be, by the clusters alone.
FatValue(c) ==
    IF c = 0 THEN CLUST_ROOT_END
    ELSE IF c = 1 THEN AllOnes
    ELSE IF \E e \in Entry : c = last_clust[e] THEN CLUST_EOF
    ELSE IF c < clust THEN c + 1
    ELSE CLUST_RESERVED

\* The entry found last only makes the search shorter: the loop of
\* read_fat_sector, which starts from it and goes on from each entry to the
\* next, puts the same values into a sector of the FAT in every history.
FatOf(s) == IF s < fat2_lba THEN s - fat1_lba ELSE s - fat2_lba
FatIsFixed ==
    (pc \in {"fat", "answered"} /\ data.kind = "fat") =>
        \A k \in 1..Len(data.values) :
            data.values[k] = FatValue(FatOf(sector) * FatValues + k - 1)

\* The procedures of app.c never read past the end of an array.
ReadsInside ==
    data.kind = "file" =>
        \A k \in DOMAIN data.bytes :
            LET b == data.bytes[k]
            IN  /\ b[1] = "test_file" => b[2] < TEST_SIZE
                /\ b[1] = "ver_s" => b[2] < Digits
================================================================================
