SPECIFICATION Spec
CONSTANTS
    None = None
    NoDate = None
    Raw <- ListRaws
    NormOf <- Norms
    Similar <- AlikeNorms
    DateWindow = 14
    MaxEvents = 3
    DayLen = 4
    Offset = 2
    MonthLen = 30
    RunsFor = 1
    LongRun = 14
    UpcomingDays = 14
    Nows <- Instants
    MaxLog = 3
    Watchlists <- WatchedOnes
    PageSize = 2
    GenreOf <- Genres
    NewFor = 8
    Requests <- AskedPages
INVARIANTS
    TypeOK
    OneCanonicalPerTitle
    LabelsOnce
    PagesJoin
    MergeKeepsTimes
    DashboardOnce
    ShowsOnce
    FiltersListSomething
    NewsIsListedOnce
    FeedMatchesDigest
    WatchedLeads
    AlertsAreNews
CHECK_DEADLOCK FALSE
