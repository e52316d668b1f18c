\* Commands of any kind at any of some ticks
SPECIFICATION Spec
CONSTANTS
    NChannel = 1
    NDie = 3
    Operation <- OperationDef
    DMA0 <- DMA0Def
    MEM <- MEMDef
    DMA1 <- DMA1Def
    Anti = 2
    ChClasses = {2, 4}
    DieClasses = {5, 10}
    Ticks = {0, 2, 4, 9}
    FlushTicks = {5}
    MaxCommands = 3
INVARIANTS Exclusive FreeIsFree
PROPERTIES SearchAdvances
CHECK_DEADLOCK FALSE
