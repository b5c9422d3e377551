SPECIFICATION Spec
CONSTANTS
  Tasks <- TwoTasks
  Domains <- ThreeDomains
  PriorityOf <- MCPriorityOf
  Targets <- MCTargets
  Candidates <- MCTargets
  Compatible <- MCCompatible
  Handlers <- FirstDomainHandles
  MaxConcurrent = 1
  TaskRetryLimit = 1
  MaxAgents = 1
  LoadThreshold = 0
  StealBatchSize = 2
  EventsOnAssign = FALSE
  ExecutorOnSubmit = TRUE
  PluginsMayRefuse = TRUE
  Cancellable <- OneTask
  Disposable <- OneDomain
  Breakers = TRUE
  WorkStealing = TRUE
  DomainEvents = FALSE
  Retention = TRUE
  Coroutines <- TwoCoroutines
  AgentIds <- MCAgentIds
  MaxStarts = 2
INVARIANTS CounterWithinLimit LoadNotUnderstated
CHECK_DEADLOCK FALSE
