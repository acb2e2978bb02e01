SPECIFICATION Spec
CONSTANTS
    Users = {"ann"}
    Actions = {"download_success"}
    Within <- Ann
    Downloads = {"download_success"}
    Instants <- FewInstants
    Offsets <- FewOffsets
    All = "all"
    Filters <- OneFilter
    MaxRows = 3
    PageSize = 1
    MaxLoads = 2
INVARIANTS ReadsFollowLocalTime ScrollingMissesNothing
CHECK_DEADLOCK FALSE
