SPECIFICATION Spec
CONSTANTS
    Users = {"ann", "joanna"}
    Actions = {"download_success", "login_success"}
    Within <- Names
    Downloads = {"download_success"}
    Instants <- FewInstants
    Offsets <- FewOffsets
    All = "all"
    Filters <- TwoFilters
    MaxRows = 3
    PageSize = 1
    MaxLoads = 1
INVARIANT RecentIsOwn
CHECK_DEADLOCK FALSE
