SPECIFICATION Spec
CONSTANTS
    c1 = c1
    c2 = c2
    Nobody = Nobody
    Files <- FourJokesOnly
    INIT_NUM_JOKES = 2
    Clients <- MCClients
    Messages <- MCMessages
    strlen <- Lengths
    strtol <- Numbers
    Punctuated <- Exclamations
    WhosThere <- Who
    SetupWho = "Who, who?"
    OPEN_MAX = 2
INVARIANTS
    ClosesSurvived
CHECK_DEADLOCK FALSE
