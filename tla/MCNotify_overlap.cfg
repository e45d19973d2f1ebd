SPECIFICATION Spec
CONSTANTS
    None = None
    MaxChange = 1
    Class <- OneAdded
    Dispatcher = {"poll", "flush"}
    Digester = {}
    Cron = None
    DayLen = 2
    Quiet = {0}
    DigestTick = 1
    MaxAge = 2
    Faults = {}
    MaxCount = 3
INVARIANTS
    PushedAtMostOnce
