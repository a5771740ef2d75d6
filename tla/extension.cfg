SPECIFICATION GroupSpec
CONSTANTS
    host = host  ann = ann  h1 = h1  h2 = h2
    Kinds = {"scheduled"}
    Host = host
    Invited = {ann}
    Desks = {h1}
    Serves <- AnyOperation
    Lengths = {1}
    Edits <- NewStart
    MaxDeclines = 1
    Callers <- CrossingCallers
    Step = 1
    Ceiling = 2
    Extensions = 1
    Retries = 1
    Horizon = 2
    MaxLost = 0
PROPERTY ExtensionHonoured
CHECK_DEADLOCK FALSE
