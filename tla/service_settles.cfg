\* Every fault, and the run still ends.
SPECIFICATION FairSpec
CONSTANTS
    Run = {r1}
    Worker = {w1, w2}
    NoRun = NoRun
    MaxTries = 2
    FaultKinds = {"db", "k8s", "loss", "crash"}
    MaxFaults = 2
    Undeletable = {}

CHECK_DEADLOCK FALSE
PROPERTIES Settles NamespaceReclaimed
