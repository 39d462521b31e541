CONSTANTS
    ta = ta
    tb = tb
    Tasks <- MCTasks
    MaxDrivers <- MCMaxDrivers
SPECIFICATION Spec
INVARIANT NoLeakedDriver
