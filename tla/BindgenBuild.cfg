SPECIFICATION Spec
CONSTANTS
    a = a
    b = b
    c = c
    f1 = f1
    f2 = f2
    f3 = f3
    Absent = Absent
    Torn = Torn
    Item = {a, b, c}
    File = {f1, f2, f3}
    Crates <- MCCrates
    Produces <- MCProduces
    MaxRuns = 3
CHECK_DEADLOCK FALSE
INVARIANTS
    DoneMeansOnDisk
    OneTornFilePerSpoiledRun
    OnlyWholeCratesAreWritten
    ReportIsComplete
