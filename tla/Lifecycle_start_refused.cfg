SPECIFICATION Spec
CONSTANTS
    Callers = {c1}
    Threads = {t1, t2}
    NoThread = NoThread
    NoCaller = NoCaller
PROPERTIES
    StartRefusalMeansRunning
