SPECIFICATION HelperSpec
CONSTANTS
    Helpers <- MCHelpers
    RootLists <- MCRootLists
    CallLists <- MCCallLists
    MaxDepth = 3
    MaxHelpers = 4
INVARIANTS
    FollowsToDepth
CHECK_DEADLOCK FALSE
