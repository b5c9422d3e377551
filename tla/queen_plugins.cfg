SPECIFICATION FairSpec
CONSTANTS
  Tasks <- FourTasks
  Domains <- MCDomains
  PriorityOf <- MCPriorityOf
  Targets <- MCTargets
  Candidates <- MCTargets
  Compatible <- MCCompatible
  Handlers <- AllHandlers
  MaxConcurrent = 2
  TaskRetryLimit = 1
  MaxAgents = 1
  LoadThreshold = 0
  StealBatchSize = 1
  EventsOnAssign = FALSE
  ExecutorOnSubmit = FALSE
  PluginsMayRefuse = FALSE
  Cancellable <- NoTasks
  Disposable <- NoDomains
  Breakers = FALSE
  WorkStealing = FALSE
  DomainEvents = FALSE
  Retention = FALSE
  Coroutines <- TwoCoroutines
  AgentIds <- MCAgentIds
  MaxStarts = 1
INVARIANTS TypeOK CounterExact CapacityRespected NoTaskLost AgentsReleased IndexesAgree OldestFirst
PROPERTIES FinishedStaysFinished QueuedFinishes ImplementsService
CHECK_DEADLOCK FALSE
