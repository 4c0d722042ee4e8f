CONSTANTS
  NULL = NULL
  Items = {a, b}
  MaxItems = 5
SPECIFICATION FairSpec
INVARIANTS
  TypeOK
  ReaderSlotIsSettled
  SleeperConsumedAll
PROPERTIES
  StoreIsUncontended
  ImplementsChannel
  FlushedIsRead
