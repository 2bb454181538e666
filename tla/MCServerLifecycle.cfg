SPECIFICATION Spec
CONSTANTS
    c1 = c1
    c2 = c2
    Commands <- MCCommands
    MaxPid = 3
    Missing = Missing
    Blank = Blank
INVARIANTS PidFileNamesServer
PROPERTIES StopMeansStopped CommandsReturn
