CONSTANTS
    TableSize = 2
    ConnectionIds = {0, 1, 2, 3}
SPECIFICATION Spec
INVARIANT OnlyTableEntriesAddressed
