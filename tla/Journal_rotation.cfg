\* Three backups of two rows each, and rows enough to fill them all and rotate twice
\* more.
CONSTANTS
    MaxBackups  = 3
    RowsPerFile = 2
    Tails       = {1, 3, 8}
    MaxRows     = 11
SPECIFICATION Spec
INVARIANTS
    DurableRowsStay
    ReadersSeeTheNewest
PROPERTIES
    IsRowLog
CHECK_DEADLOCK FALSE
