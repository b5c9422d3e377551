SPECIFICATION Spec
CONSTANTS
  Tasks <- ThreeTasks
  Domains <- MCDomains
  PriorityOf <- MCPriorityOf
  Targets <- MCTargets
  Candidates <- MCTargets
  Compatible <- MCCompatible
  Handlers <- AllHandlers
  MaxConcurrent = 1
  TaskRetryLimit = 1
  MaxAgents = 1
  LoadThreshold = 0
  StealBatchSize = 1
  EventsOnAssign = FALSE
  ExecutorOnSubmit = FALSE
  PluginsMayRefuse = FALSE
  Cancellable <- ThreeTasks
  Disposable <- NoDomains
  Breakers = FALSE
  WorkStealing = FALSE
  DomainEvents = FALSE
  Retention = FALSE
  Coroutines <- TwoCoroutines
  AgentIds <- MCAgentIds
  MaxStarts = 1
INVARIANT CapacityRespected
CHECK_DEADLOCK FALSE
