SPECIFICATION Spec
CONSTANTS
    aegisd = aegisd
    dashboard = dashboard
    Services <- MCServices
    ServiceMax = 2
    MaxRestarts = 2
    RestartWindow = 3
    BaseBackoff = 1
    MaxPid = 5
    MaxTick = 8
INVARIANTS OverBudgetStaysDown CountersMatchStates FailuresAreRecentExits
PROPERTIES BackoffRespected ShutdownStopsRestarts
SYMMETRY Symmetry
