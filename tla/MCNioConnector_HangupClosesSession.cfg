\* A connector that connects again after its first session ended.
CONSTANTS
    HsIds = {1}
    MaxConnects = 2
    MaxAppClose = 0
SPECIFICATION Spec
PROPERTY HangupClosesSession
CHECK_DEADLOCK FALSE
