------------------------------ MODULE MCQueen ------------------------------
(* Small instances of the Queen for TLC: tasks, domains and what each task *)
(* needs.  Task 2 is urgent and may go to either domain; the others share  *)
(* a priority and wait for domain 1, but domain 2 can do their type, so    *)
(* may steal them.                                                         *)
EXTENDS QueenService

TwoTasks == 1 .. 2
ThreeTasks == 1 .. 3
FourTasks == 1 .. 4
MCDomains == 1 .. 2
ThreeDomains == 1 .. 3
MCPriorityOf == [t \in Tasks |-> IF t = 2 THEN 0 ELSE 1]
MCTargets == [t \in Tasks |-> IF t = 2 THEN <<2, 1>> ELSE <<1>>]
MCCompatible == [t \in Tasks |-> Domains]
AllHandlers == [t \in Tasks |-> Domains]
NoHandlers == [t \in Tasks |-> {}]
FirstDomainHandles == [t \in Tasks |-> {1}]
TwoCoroutines == 1 .. 2
ThreeCoroutines == 1 .. 3
MCAgentIds == 1 .. 8
NoTasks == {}
OneTask == {1}
NoDomains == {}
OneDomain == {1}
=============================================================================
