SPECIFICATION Spec
CONSTANTS
    s1 = s1
    s2 = s2
    Stores <- MCStores
    Names = {1, 2}
    Times = {1, 2}
    Files = {"a"}
    Queries <- MCQueries
    PageSizes = {2}
    Unset = Unset
    MaxRuns = 3
    RowCounts = {3}
    MaxChanges = 1
SYMMETRY Symmetric
INVARIANTS
    NothingSkipped
    ShownRowsWereAccessible
    FinalPageIsComplete
    PagesAgree
CHECK_DEADLOCK FALSE
