\* Every Accept and Accept-Language header of up to three entries, every request
\* of up to four parameters, every route with every check passing or failing, and
\* documents: examples with their category and tags, while others relink them, and
\* nested include paths over resources that refer to one another.
SPECIFICATION Spec
CONSTANTS
    Controllers <- AllControllers
    Unparsed = Unparsed
    Open = Open
    MaxQuality = 2
    MediaRanges <- MCMediaRanges
    LanguageRanges <- MCLanguageRanges
    MaxEntries = 3
    None = None
    FilterFields <- PolicyFilters
    SortColumns <- PolicySorts
    IncludePaths = {"tags"}
    DefaultSort <- ByScore
    TieBreaker <- IdAscending
    Nullable = {"category"}
    ColumnValues = {1, 2}
    Null = 3
    DefaultSize = 3
    MaxSize = 5
    MaxOffset = 8
    Parameters <- MCParameters
    MaxParameters = 4
    Nil = Nil
    Objects = {"e1", "e2", "c1", "c2", "t1", "n1", "n2", "n3", "m1"}
    TypeOf <- MCTypeOf
    Relationships <- MCRelationships
    IncludeSets <- MCIncludeSets
    Graphs <- MCGraphs
    Relinked <- MCRelinked
    MaxWrites = 1
INVARIANTS HeadersHonoured AcceptedIsSound OrderIrrelevant NothingUnloadedRead FullLinkage AnswersTruthful GuardedFirst
\* Headers and parameters are bounded, a request is answered once, and a document
\* is built once.
CHECK_DEADLOCK FALSE
