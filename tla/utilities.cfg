\* Eleven keys in any order: deletions rotate at one height and go on above it; a
\* tree of twelve, from which they rotate at two.  Six elements over fragments of four
\* cells: three fragments, split and merged.
\* Three timers, one-shot or periodic, a tick late at most.
SPECIFICATION BenchSpec
CONSTANTS
    Msec = {0, 1, 2}
    Reentrant = {"set", "delete"}
    MaxSet = 3
    MaxRestart = 1
    MaxLag = 1
    TreeKeys = {1, 2, 3, 4, 5, 6, 7, 8, 9, 10, 11, 12}
    Widths = {0, 2, 5}
    Keys = {a, b, c}
    Data = {x, y}
    Iters = {1, 2, 3, 4}
    Sentinel = Sentinel
    FSize = 4
    MaxSize = 6
    Null = Null
INVARIANTS
    TreesAgree
    ArmedForFirst
    Balanced
    SearchesAgree
    RemovalKeepsPlace
    TreeAndListAgree
    ArrayAgrees
PROPERTIES
    NeverEarly
    OneShotsEnd
    ImplementsSet
    ImplementsMap
    ImplementsSequence
CHECK_DEADLOCK FALSE
