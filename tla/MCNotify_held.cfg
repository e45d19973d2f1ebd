SPECIFICATION Spec
CONSTANTS
    None = None
    MaxChange = 1
    Class <- OneAdded
    Dispatcher = {"flush"}
    Digester = {"job"}
    Cron = "job"
    DayLen = 2
    Quiet = {0}
    DigestTick = 1
    MaxAge = 2
    Faults = {}
    MaxCount = 2
PROPERTIES
    HeldIsNotClaimed
