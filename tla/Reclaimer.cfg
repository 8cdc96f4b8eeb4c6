SPECIFICATION FairSpec
CONSTANTS
  NReaders = 1
  worker = worker
  client = client
  Owner = worker
  Others = {client}
  MaxTicket = 3
  Enabled = TRUE
  Consistent = FALSE
INVARIANTS TypeOK PinnedSafe ConsistentPair FreshSnapshot
PROPERTIES FreedOnce QuietCollectDrains PinCompletes
