CONSTANTS
    MainCfgs <- MCMainCfgs
    ShadowCfgs <- MCShadowCfgs
    MaxShadows = 2
    SchedValues <- MCSchedValues
    DefaultWorkers = 10
    MaxInstances = 6
    MaxReloads = 2
    DefaultAddr = 4
SPECIFICATION Spec
PROPERTY RejectedReloadChangesNothing
CHECK_DEADLOCK FALSE
