SPECIFICATION Spec
CONSTANTS
    None = None
    A = A
    AA = AA
    B = B
    Link = Link
    Support = Support
    Pic = Pic
    Title = {A, AA, B}
    Norm <- MCNorm
    Url = {"", Link}
    Tour = {Support}
    Image = {Pic}
    IndexField <- MCIndexField
    Collector = {c1}
    Conditional = {}
    Key = {k1}
    Poller = {job}
    Raw <- ContentRaws
    Threshold = 2
    MaxPolls = 5
    MaxTime = 2
INVARIANTS
    FullReadsRemove
    LogReplays
    HashCoherent
PROPERTIES
    RemovalEarned
\* The number of polls is bounded, so the system stops.
CHECK_DEADLOCK FALSE
