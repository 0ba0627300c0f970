SPECIFICATION FairSpec
CONSTANTS
  Threads = {1, 2}
  MaxCalls = 3
INVARIANTS RpcInv RepliesMatch InStep
PROPERTIES CallsEnd HandlerEnds
CHECK_DEADLOCK FALSE
