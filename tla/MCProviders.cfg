SPECIFICATION Spec
CONSTANTS
    Popular <- MCPopular
    Letters <- MCLetters
    Lookalike <- MCLookalike
    Adjacent <- MCAdjacent
    Publications <- MCPublications
    Advisories <- MCAdvisories
    NoOne = NoOne
    NoRepo = NoRepo
    NoTime = NoTime
    Invalid = Invalid
    Newborn = 3
    Fresh = 1
    Dormant = 2
    Slack = 1
    MaxTime = 5
    MaxActivity = 3
INVARIANTS TakeoverSeen AlarmHasCause TypoHeld
CHECK_DEADLOCK FALSE
