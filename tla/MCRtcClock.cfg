SPECIFICATION ClockSpec
CONSTANTS
    Second = 4
    Overflow = 3
    Range = 5
    Slack = 1
INVARIANTS
    ClockTypeOK
    ClockRight
    ReadingRight
