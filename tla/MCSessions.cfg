SPECIFICATION SessionSpec
CONSTANTS
    Clients = {1}
    Calls = {1, 2, 3}
    Names = {"name"}
    Managers = {"stateful"}
CHECK_DEADLOCK FALSE
INVARIANT NoPanic
