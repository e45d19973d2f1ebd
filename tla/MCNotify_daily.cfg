SPECIFICATION FairSpec
CONSTANTS
    None = None
    MaxChange = 2
    Class <- DigestClasses
    Dispatcher = {}
    Digester = {"job", "admin"}
    Cron = "job"
    DayLen = 2
    Quiet = {0}
    DigestTick = 1
    MaxAge = 1
    Faults = {"mail_fails", "lost_ack", "crash"}
    MaxCount = 1
PROPERTIES
    DigestsAreOutbox
    EventuallyDigested
