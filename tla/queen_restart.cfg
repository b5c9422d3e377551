SPECIFICATION RSpec
CONSTANTS
  Tasks <- MCTasks
  Domains <- MCDomains
  PriorityOf <- MCPriorityOf
  Targets <- MCTargets
  Candidates <- MCTargets
  Compatible <- AnyDomain
  Handlers <- AnyDomain
  MaxConcurrent = 1
  TaskRetryLimit = 1
  MaxAgents = 1
  LoadThreshold = 0
  StealBatchSize = 1
  EventsOnAssign = FALSE
  ExecutorOnSubmit = FALSE
  PluginsMayRefuse = FALSE
  Cancellable <- MCTasks
  Disposable <- MCDomains
  Breakers = FALSE
  WorkStealing = FALSE
  DomainEvents = FALSE
  Retention = TRUE
  Coroutines <- MCCoroutines
  AgentIds <- MCAgentIds
  MaxStarts = 1
PROPERTY WaitingRestored
CHECK_DEADLOCK FALSE
