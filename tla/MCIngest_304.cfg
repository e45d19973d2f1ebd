SPECIFICATION Spec
CONSTANTS
    None = None
    A = A
    AA = AA
    B = B
    Link = Link
    Support = Support
    Pic = Pic
    Title = {A, AA, B}
    Norm <- MCNorm
    Url = {"", Link}
    Tour = {Support}
    Image = {Pic}
    IndexField <- MCIndexField
    Collector = {c1}
    Conditional = {c1}
    Key = {k1, k2}
    Poller = {job}
    Raw <- ListingRaws
    Threshold = 2
    MaxPolls = 5
    MaxTime = 0
INVARIANTS
    AbsentIsRemoved
\* The number of polls is bounded, so the system stops.
CHECK_DEADLOCK FALSE
