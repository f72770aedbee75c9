CONSTANTS
    a = a
    b = b
    c1 = c1
    c2 = c2
    Agents = {a, b}
    Contexts = {c1}
    MaxUnopened = 4
    SeenLimit = 1024
    MaxHellos = 2
    MaxAnswers = 4
    MaxLives = 2
    MaxFailures = 0
    Downgraded = {}
SPECIFICATION Spec
INVARIANTS
    FreshHandshakeWorks
CHECK_DEADLOCK FALSE
