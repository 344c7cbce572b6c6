SPECIFICATION Spec
CONSTANTS
    Processes = {p1, p2}
    Sessions = {s1, s2}
    Runs <- MCRuns
    MaxEntries = 4
    MaxAdds = 3
    MaxFaults = 1
SYMMETRY Symmetric
INVARIANTS
    LogSound ResumePaired ForkKeepsContext
PROPERTIES
    HistoryKept
CHECK_DEADLOCK FALSE
