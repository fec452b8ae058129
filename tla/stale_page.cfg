\* One edit by another session: the inbound is switched off or on.
CONSTANTS
    MaxEdits = 1
    Large = FALSE
SPECIFICATION Spec
PROPERTY SeesEdits
CHECK_DEADLOCK FALSE
