CONSTANTS
    a = a
    b = b
    c1 = c1
    c2 = c2
    Agents = {a, b}
    Contexts = {c1}
    MaxUnopened = 1
    SeenLimit = 3
    MaxHellos = 3
    MaxAnswers = 3
    MaxLives = 1
    MaxFailures = 0
    Downgraded = {}
SPECIFICATION FairSpec
PROPERTIES
    FreshHandshakeRecovers
CHECK_DEADLOCK FALSE
