\* Two keys, periods 0 (no expiry) and 2, a clock of 3 units; the
\* 30 s empty-queue wait lies past the clock's end.
CONSTANTS
    Items = {1, 2}
    Takers = {m}
    Monitor = m
    NoItem = NoItem
    MaxTime = 3
    EmptyWait = 30
    Keys = {a, b}
    Periods = {0, 2}
    MaxSets = 3
    MaxRemoves = 1
SPECIFICATION Spec
INVARIANT TypeOK
PROPERTY DueItemEventuallyTaken
PROPERTY ExpiredEntryEventuallyRemoved
\* The clock and the call budgets are bounded: behaviours end with the
\* monitor blocked in Take (or returned after Close) and nothing left to do.
CHECK_DEADLOCK FALSE
