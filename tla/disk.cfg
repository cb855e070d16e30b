SPECIFICATION Spec
CONSTANTS
    SECT = 4
    SECT_PER_CLUST = 2
    FatValues = 10
    DirEntries = 2
    INDEX_SIZE = 6
    README_SIZE = 12
    TEST_SIZE = 21
    IndexText = 5
    ReadmeText = 6
    Digits = 3
    NULL = NULL
    Probed <- MCProbed
INVARIANTS
    FilesArrive
    FatIsFixed
    ReadsInside
