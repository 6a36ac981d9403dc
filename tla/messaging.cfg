\* A client and a caterer with a request in common, two messages.
SPECIFICATION Spec
CONSTANTS
    client = client
    caterer = caterer
    Users <- Both
    Staff = {}
    Related <- Pairs
    Messages = {1, 2}
    Workers = {1, 2}
    Fetches <- OneBrowser
    Kinds <- SomeKinds
    MaxRetries = 1
    MaxFaults = 1
    None = None
CHECK_DEADLOCK FALSE
INVARIANTS TypeOK AttachmentIsServed
PROPERTIES AnswerJoinsThread ShownWhileOpen MailGoesOut
