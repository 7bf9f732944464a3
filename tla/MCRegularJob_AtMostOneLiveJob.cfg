\* Three jobs: an ExpiredCall whose goroutine's trailing tm.Stop() races
\* the caller's next two calls.
CONSTANTS
    MaxCtx = 3
    MaxTicks = 1
SPECIFICATION Spec
INVARIANT AtMostOneLiveJob
CHECK_DEADLOCK FALSE
