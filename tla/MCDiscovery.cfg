SPECIFICATION FairSpec
CONSTANTS
    Addresses = {8, 9}
    NoBoard = NoBoard
    Absent = Absent
    Names = {"heater", "motor"}
    Files <- AllFiles
    Boards <- AllBoards
INVARIANTS TypeOK ServedXorMissing MissingForCause ServedAsFound
           EncodersNeverRefused
PROPERTY EventuallyPublished
CHECK_DEADLOCK FALSE
