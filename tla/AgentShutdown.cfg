SPECIFICATION FairSpec
CONSTANTS
    Signals = {SIGINT, SIGTERM}
    NoSignal = NoSignal
    Main = Main
    PThread = PThread
    FThread = FThread
    NoThread = NoThread
    NoCaller = NoCaller
INVARIANTS
    NoWorkerOutlivesMain
    StopAnswerTrue
PROPERTIES
    SignalEndsProgram
