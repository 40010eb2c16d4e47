SPECIFICATION MCSpec
CONSTANTS
    Uploads = {u1}
    Documents <- MCDocuments
    Options <- MCOptions
    Parsers = {c1, c2}
    NoDocument = NoDocument  NoUpload = NoUpload  NoAnswerYet = NoAnswerYet
    Clients = {c1, c2}
    Sessions = {s1, s2}
    Scrapes = {h1}
    MaxSessions = 1
    NoClient = NoClient  NoSession = NoSession  NoScrape = NoScrape
    Renders = {r1, r2}
    EngineIds = {j1, j2}
    MaxPages = 1
    NoJob = NoJob
INVARIANTS
    TakenOnce ToldSessionsOwned
PROPERTIES
    SessionsClose JobsSettle
CHECK_DEADLOCK FALSE
