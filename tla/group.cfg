SPECIFICATION FairGroupSpec
CONSTANTS
    host = host  ann = ann  h1 = h1  h2 = h2
    Kinds = {"scheduled", "instant"}
    Host = host
    Invited = {ann}
    Desks = {h1, h2}
    Serves <- CrossingDesks
    Lengths = {1, 2}
    Edits <- SomeEdits
    MaxDeclines = 1
    Callers <- CrossingCallers
    Step = 1
    Ceiling = 2
    Extensions = 1
    Retries = 1
    Horizon = 2
    MaxLost = 1
INVARIANTS GroupInv
PROPERTIES NeverReopened GroupRoomsEnd
CHECK_DEADLOCK FALSE
