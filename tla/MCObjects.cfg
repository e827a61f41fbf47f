SPECIFICATION MCSpec
CONSTANTS
    Threads = {t1, t2}
    Objs = {o1, o2, o3}
    Vars = {x, y}
    NumSlots = 2
    Nil = Nil
    Calls = {c1, c2, c3}
    Clients = {1}
    Names = {"name"}
    Managers = {"stateful", "stateless"}
SYMMETRY Symmetry
CHECK_DEADLOCK FALSE
INVARIANTS CountsExact NoUseAfterFree ReadsLive NoLeak RowsKept OpenSessionsKept CallsShareSession
PROPERTY RefusedRowUndone
