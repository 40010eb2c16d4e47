SPECIFICATION FairSpec
CONSTANTS
    p1 = p1  p2 = p2  p3 = p3  r1 = r1
    Pages = {p1, p2, p3}
    Readers = {r1}
    PageSize = 1
    NoAnswer = NoAnswer
INVARIANTS
    DoneIsComplete NoDocumentTwice FinalAnswersExact
PROPERTIES
    JobAsPromised ReadersEnd
CHECK_DEADLOCK FALSE
