\* Two writers and a reader; four notes on pages of two.
CONSTANTS
    PageSize = 2
    MaxNotes = 4
    MaxClock = 1
    Writers = {w1, w2}
    Edits = {{"title"}, {"body"}}
    Foreign = {"unreadable", "NOT_FOUND"}
    MaxCalls = 2
SPECIFICATION Spec
INVARIANTS TypeOK OutcomeIsHonest ToldStaysTrue
INVARIANT PagingDegradesGracefully
SYMMETRY Interchangeable
CHECK_DEADLOCK FALSE
