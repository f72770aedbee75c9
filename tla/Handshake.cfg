CONSTANTS
    a = a
    b = b
    c1 = c1
    c2 = c2
    Agents = {a, b}
    Contexts = {c1}
    MaxUnopened = 1
    SeenLimit = 1
    MaxHellos = 2
    MaxAnswers = 4
    MaxLives = 2
    MaxFailures = 1
    Downgraded = {c1}
SPECIFICATION Spec
SYMMETRY AgentSymmetry
INVARIANTS
    TypeOK
    UnopenedBounded
    OneSessionPerHello
    AnsweredOnce
    DowngradeIsFinal
    SessionsAgree
CHECK_DEADLOCK FALSE
