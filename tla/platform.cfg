SPECIFICATION PlatformSpec
CONSTANTS
    Ids = {1, 2}
    MaxPeriod = 1
    GraceDays = 1
    None = None
    Statuses = {"ACTIVE"}
    PlanStatuses = {"ACTIVE"}
    Ops = {"create", "update", "cancel", "remove", "plan"}
    Toggled = {"sales", "sale_utilities"}
    Assignable <- OneKeyEach
    Areas <- FiveAreas
INVARIANTS EveryRouteHasItsCallers OrganizationsGoWhole
PROPERTIES DueIsExpired ExpiredIsResolved BooksAreKept
