\* Two sessions, four messages or timeouts, three lines to the management socket.
SPECIFICATION MCSpec
CONSTANTS
    None = None
    NoRoute = NoRoute
    Dash = Dash
    Question = Question
    Empty = Empty
    Asked = {0, 1, 2, 3}
    Width = 2
    Keys <- SomeKeys
    Routes <- SomeRoutes
    Sessions = {s1, s2}
    Nlri = {k1}
    MaxEvents = 4
    MaxLines = 3
INVARIANTS
    ReportsAddUp
    ViewsAgree
PROPERTIES
    LinesAnswered
CHECK_DEADLOCK FALSE
