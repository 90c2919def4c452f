SPECIFICATION Spec
CONSTANTS
    f1 = f1
    f2 = f2
    None = None
    Lost = Lost
    Timer = Timer
    Fds = {f1, f2}
    Signals = {}
    Idles = {}
    MaxEvents = 2
    NextMayGo = TRUE
    MaxEffects = 1
PROPERTY NotCalledOnceRemoved
CHECK_DEADLOCK FALSE
