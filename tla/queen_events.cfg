SPECIFICATION Spec
CONSTANTS
  Tasks <- ThreeTasks
  Domains <- MCDomains
  PriorityOf <- MCPriorityOf
  Targets <- MCTargets
  Candidates <- MCTargets
  Compatible <- MCCompatible
  Handlers <- NoHandlers
  MaxConcurrent = 2
  TaskRetryLimit = 1
  MaxAgents = 0
  LoadThreshold = 0
  StealBatchSize = 1
  EventsOnAssign = TRUE
  ExecutorOnSubmit = FALSE
  PluginsMayRefuse = FALSE
  Cancellable <- ThreeTasks
  Disposable <- NoDomains
  Breakers = FALSE
  WorkStealing = FALSE
  DomainEvents = TRUE
  Retention = TRUE
  Coroutines <- ThreeCoroutines
  AgentIds <- MCAgentIds
  MaxStarts = 2
INVARIANTS CounterExact CapacityRespected NoTaskLost IndexesAgree RunningHasWorker
CHECK_DEADLOCK FALSE
