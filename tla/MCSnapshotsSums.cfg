\* One pool; a run that reads the head before midnight, and the rows after it.
CONSTANTS
    MaxDay = 4
    MaxBlock = 4
SPECIFICATION Spec
INVARIANTS
    SumsAddUp
