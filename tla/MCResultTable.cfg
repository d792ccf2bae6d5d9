\* Two payloads, of three and two messages, pages of two rows, two requests.
SPECIFICATION Spec
CONSTANTS
    Files = {"a", "b"}
    RowsOf <- MCRowsOf
    Texts = {"", "2"}
    Shows <- MCShows
    PageSize = 2
    MaxPosts = 2
INVARIANTS
    TypeOK
    SelectedCanBeOutput
    OutputIsSelection
    OutputFromShownData
    DrawnBelongsToTable
    TreeLoopEnds
\* A loop over a tree's nodes may hang the page.
CHECK_DEADLOCK FALSE
