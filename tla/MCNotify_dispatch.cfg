SPECIFICATION Spec
CONSTANTS
    None = None
    MaxChange = 2
    Class <- AlertClasses
    Dispatcher = {"poll", "flush"}
    Digester = {}
    Cron = None
    DayLen = 2
    Quiet = {0}
    DigestTick = 1
    MaxAge = 2
    Faults = {"send_fails", "lost_ack", "crash", "long_writer"}
    MaxCount = 3
INVARIANTS
    TypeOK
    PushesAccounted
PROPERTIES
    PushesAreOutbox
