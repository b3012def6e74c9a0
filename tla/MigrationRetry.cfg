SPECIFICATION SpecMigrations
CONSTANTS
    RowKinds = {"twin e-mails"}
    MaxRows = 1
    MaxCommands = 1
INVARIANTS AbortedMigrationCanBeRerun
CHECK_DEADLOCK FALSE
