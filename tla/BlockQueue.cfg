CONSTANTS
  LastBlock = 2
  BlockCount = 6
  Cap = 2
  Fresh <- AnyMemory
SPECIFICATION FairSpec
INVARIANTS TypeOK TailFreedOnlyInWindow QueueBounded StallNeedsDrift CompleteMeansApplied
PROPERTIES ImplementsFeed Termination
CHECK_DEADLOCK FALSE
