SPECIFICATION Spec
CONSTANTS
    Query <- MCQuery
    Insertion <- MCInsertion
    Change <- MCChange
    TableOf <- MCTableOf
    Mentions <- MCMentions
    Content <- MCContent
    Row = {r1, r2, r3}
    Cursor = {c1, c2}
    Limit = 2
SYMMETRY RowSymmetry
INVARIANTS
    TypeOK
    CacheCoherent
    RowsOwnedOnce
    CacheWithinLimit
    CursorReadsCurrent
