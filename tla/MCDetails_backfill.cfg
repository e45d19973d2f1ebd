SPECIFICATION FairSpec
CONSTANTS
    None = None
    near = near
    undated = undated
    Key = {near, undated}
    Starts <- MCStarts
    Sale = {"on_sale"}
    Cap = 1
    Horizon = 0
    Threshold = 2
    MaxTime = 2
INVARIANTS
    TypeOK
    ValidatorIsStored
PROPERTIES
    BackfillEnds
