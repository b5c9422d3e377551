------------------------------ MODULE MCRestart ------------------------------
(* A small Queen that is shut down and restarted: two tasks of different   *)
(* priorities for one domain and one slot.                                 *)
EXTENDS QueenRestart

MCTasks == 1 .. 2
MCDomains == {1}
MCPriorityOf == [t \in MCTasks |-> t]
MCTargets == [t \in MCTasks |-> <<1>>]
AnyDomain == [t \in MCTasks |-> MCDomains]
MCCoroutines == 1 .. 2
MCAgentIds == 1 .. 4
=============================================================================
