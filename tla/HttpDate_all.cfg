SPECIFICATION Spec
CONSTANTS
    None = None
    I32Max = 4000
    Dates <- MCDates
CHECK_DEADLOCK FALSE
INVARIANTS TypeOK TimestampsFollowCalendar NotModifiedIffNotLater
