\* Walks by cursor, forwards and backwards, and by page number, through a
\* collection, whose query may yield row 2 twice, and through a related
\* collection, while up to two rows are written.
SPECIFICATION Walk
CONSTANTS
    None = None
    FilterFields <- PolicyFilters
    SortColumns <- PolicySorts
    IncludePaths = {"tags"}
    DefaultSort <- ByScore
    TieBreaker <- IdAscending
    Nullable = {"category"}
    ColumnValues = {1, 2, 3, 4}
    Null = 5
    DefaultSize = 20
    MaxSize = 100
    MaxOffset = 1000
    Ids <- MCIds
    Rows <- MCRows
    Tables <- MCTables
    Requests <- IndexRequests
    Related <- RelatedRequests
    Joins <- MCJoins
    MaxWrites = 2
INVARIANTS CursorWalkExact QuietWalkComplete LinksConsistent ThereAndBack
PROPERTIES CursorAdvances
\* A walk is over when there is no link to follow.
CHECK_DEADLOCK FALSE
