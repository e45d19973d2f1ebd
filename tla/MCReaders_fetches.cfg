SPECIFICATION Spec
CONSTANTS
    None = None
    Segments <- Twice
    Item = {1, 2, 3, 4}
    About <- Known
    Allow = {}
    Deny = {"barn"}
    ExcludeGenres = {}
    ExcludeCities = {}
    HorizonDays = 3
    WindowDays = 2
    MaxPages = 2
    PageSize = 1
    Cap = 2
    Retries = 1
    Dates = {1, 2}
    MaxChanges = 1
    Absent = Absent
    Post = {1, 2, 3, 4, 5, 6}
    PostAbout <- Posts
    PerPage = 1
    PageLimit = 5
    Grace = 2
    MaxBoardEdits = 4
    Missing = Missing
    StorePage <- Stores
    FilmPage <- FilmPages
    LeapDay = 60
INVARIANTS
    TypeOK
    WindowsAreComplete
    PagesAreComplete
    RunsKeepTheirDates
PROPERTIES
    FetchesEnd
