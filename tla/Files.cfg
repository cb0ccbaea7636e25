CONSTANTS
    Kinds = {"service", "extension", "nested"}
    Importers = {r1, r2}
    Contents = {a, b}
    MaxKeep = 1
    MaxBackups = 2
    MaxFaults = 1
    MaxCrashes = 1
    MaxEdits = 1
    Paths = {p, q}
    Texts = {x, y}
    Sound = {x}
    Snappers = {r1, r2}
    MaxVersions = 2
    Radix = 2
    Width = 2
    MaxTaken = 4
    MaxWrites = 2
    Buffer = 1
    Memory = 2
    Megabyte = 1
    MaxSizeMB = 1
    MaxFiles = 1
    MaxLines = 5
    MaxTime = 2
    MaxLogFaults = 1
SYMMETRY Symmetry
SPECIFICATION Spec
CHECK_DEADLOCK FALSE
INVARIANTS
    TypeOK
    
    HistoryKeepsNewest
    
