SPECIFICATION FairSpec
CONSTANTS
  MaxUsers = 2
  MaxConns = 2
  MaxLogs = 2
  MaxBreaks = 1
  MaxFails = 1
  SocketCap = 2
INVARIANTS TypeOK SubscribersLive ThreadOwnsClient StopsWithLastUser
PROPERTIES MutexReturned LoggerHeldUpByUnread
