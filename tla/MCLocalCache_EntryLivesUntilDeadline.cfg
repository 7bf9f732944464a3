\* One key, periods 0 and 2: Set after monitorKey took the key's item, and
\* the late remove_expired that follows.
CONSTANTS
    Items = {1, 2}
    Takers = {m}
    Monitor = m
    NoItem = NoItem
    MaxTime = 3
    EmptyWait = 30
    Keys = {a}
    Periods = {0, 2}
    MaxSets = 2
    MaxRemoves = 1
SPECIFICATION Spec
INVARIANT EntryLivesUntilDeadline
CHECK_DEADLOCK FALSE
