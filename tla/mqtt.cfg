SPECIFICATION FairSpec
CONSTANTS
  Conns = {c1, c2, c3}
  Filters <- MCFilters
  Topics <- MCTopics
  MaxClients = 2
  MaxSubs = 2
  MaxFilters = 1
  MaxMessages = 4
  MaxPublished = 1
  c3 = c3
  Wishes <- MCWishes
  NoConn = NoConn
  NoFilter = NoFilter
  Letters = {"a", "b"}
  MaxFilter = 4
  MaxTopic = 3
INVARIANTS
  ServerTypeOK
  SubscriptionsAreOwned
PROPERTIES
  BrokerSpec
  DeadClientsLeave
