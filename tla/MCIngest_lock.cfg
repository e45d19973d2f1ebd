SPECIFICATION FairSpec
CONSTANTS
    None = None
    A = A
    AA = AA
    B = B
    Link = Link
    Support = Support
    Pic = Pic
    Title = {A, AA, B}
    Norm <- MCNorm
    Url = {"", Link}
    Tour = {Support}
    Image = {Pic}
    IndexField <- MCIndexField
    Collector = {c1, c2}
    Conditional = {c1}
    Key = {k1}
    Poller = {job, admin}
    Raw <- ListingRaws
    Threshold = 2
    MaxPolls = 3
    MaxTime = 0
INVARIANTS
    TypeOK
    BaselineIsOpening
    ContextFresh
PROPERTIES
    PollEnds
    PollsAreSerial
\* The number of polls is bounded, so the system stops.
CHECK_DEADLOCK FALSE
