SPECIFICATION FairSpec
CONSTANTS
    idle = idle
    init = init
    a = a
    b = b
    NoTask = NoTask
    Tasks <- MCTasks
    Idle = idle
    Resident = {idle}
    BootTasks <- MCBoot
    Priority <- MCPriority
    MaxCreate = 4
INVARIANTS OneRunningTask NoDeadEndYield
PROPERTIES IdleIsLastResort DeadStaysDead NoStarvation ImplementsCpu
