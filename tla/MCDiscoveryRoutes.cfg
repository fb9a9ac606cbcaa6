SPECIFICATION Spec
CONSTANTS
    Addresses = {8, 9}
    NoBoard = NoBoard
    Absent = Absent
    Names = {"Rlht"}
    Files <- ShippedId
    Boards <- GoodBoards
INVARIANT ConfiguredIdRoutes
CHECK_DEADLOCK FALSE
