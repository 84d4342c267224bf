\* Requests of two browsers that log in, rotate, link, unlink and delete.
SPECIFICATION Spec
CONSTANTS
    Browsers = {11, 12, 13}
    Careful = {11}
    Seats = {11, 12}
    GitHubUsers = {1, 2}
    Requests = {1, 2, 3, 4}
    Plans <- MCPlans
INVARIANTS
    SessionsMatchAccounts
    EndedStaysEnded
    CarefulBrowserKeepsSession
    HonouredUnlessRevoked
CHECK_DEADLOCK FALSE
