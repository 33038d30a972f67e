CONSTANTS
    i1 = i1
    i2 = i2
    NoEntry = NoEntry
    Alert = {a1, a2}
    Integration = {i1, i2}
    SendResolved = {i1}
    Scenes <- LiveScenes
SPECIFICATION FairSpec
PROPERTIES ToldInTheEnd
