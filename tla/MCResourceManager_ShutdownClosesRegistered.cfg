\* A process without a web service: only a local cache registers its delay
\* queue (Add), then SIGTERM arrives.
CONSTANTS
    Registrants = {main}
    Plan <- MCCachePlan
    Resources = {"web", "queue", "conn"}
    Signals = {"TERM"}
    MaxSignals = 1
SPECIFICATION Spec
INVARIANT ShutdownClosesRegistered
\* Behaviours end with the registrations made and ListenSignal returned, or
\* blocked on a signal past the bound.
CHECK_DEADLOCK FALSE
