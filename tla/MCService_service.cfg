SPECIFICATION Spec
CONSTANTS
    None = None
    Far = 99
    Item <- Items
    Collector = {"ticketmaster"}
    DayLen = 4
    MaxTime = 7
    MaxEdits = 2
    SaleFaults = {"send_fails", "lost_ack", "db_locked", "crash"}
    Keep = 2
    MaxNight = 6
INVARIANTS
    TypeOK
    AnnouncedIsNext
    AlertsCountSales
    BackupsKept
PROPERTIES
    AlertsAreOpenings
    WarningsAreOutbox
CHECK_DEADLOCK FALSE
