SPECIFICATION Spec
CONSTANTS
  Tasks <- TwoTasks
  Domains <- MCDomains
  PriorityOf <- MCPriorityOf
  Targets <- MCTargets
  Candidates <- MCTargets
  Compatible <- MCCompatible
  Handlers <- NoHandlers
  MaxConcurrent = 1
  TaskRetryLimit = 1
  MaxAgents = 1
  LoadThreshold = 0
  StealBatchSize = 1
  EventsOnAssign = TRUE
  ExecutorOnSubmit = FALSE
  PluginsMayRefuse = FALSE
  Cancellable <- NoTasks
  Disposable <- NoDomains
  Breakers = FALSE
  WorkStealing = FALSE
  DomainEvents = FALSE
  Retention = FALSE
  Coroutines <- TwoCoroutines
  AgentIds <- MCAgentIds
  MaxStarts = 4
INVARIANT RetriesLimited
CHECK_DEADLOCK FALSE
