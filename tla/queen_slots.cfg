SPECIFICATION Spec
CONSTANTS
  Tasks <- ThreeTasks
  Domains <- MCDomains
  PriorityOf <- MCPriorityOf
  Targets <- MCTargets
  Candidates <- MCTargets
  Compatible <- MCCompatible
  Handlers <- NoHandlers
  MaxConcurrent = 1
  TaskRetryLimit = 1
  MaxAgents = 1
  LoadThreshold = 0
  StealBatchSize = 1
  EventsOnAssign = TRUE
  ExecutorOnSubmit = FALSE
  PluginsMayRefuse = FALSE
  Cancellable <- NoTasks
  Disposable <- NoDomains
  Breakers = TRUE
  WorkStealing = FALSE
  DomainEvents = FALSE
  Retention = FALSE
  Coroutines <- TwoCoroutines
  AgentIds <- MCAgentIds
  MaxStarts = 2
INVARIANT CounterExact
CHECK_DEADLOCK FALSE
