\* A deletion that the API carried out and answered.
CONSTANTS
    PageSize = 2
    MaxNotes = 3
    MaxClock = 1
    Writers = {w1, w2}
    Edits = {{"title"}, {"body"}}
    Foreign = {"unreadable", "NOT_FOUND"}
    MaxCalls = 2
SPECIFICATION Spec
SYMMETRY Interchangeable
INVARIANT ApiAnswersDecode
CHECK_DEADLOCK FALSE
