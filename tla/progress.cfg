SPECIFICATION FairSpec
CONSTANTS
    Reviewers = {1, 2}
    Topical = {2}
    Owner = 8
    Admins = {9}
    DefaultReviews = 1
    AutoMatching = TRUE
    Capacity = 1
    FirstProfiles <- OneAway
    Restless = {1}
    RequiredChoices = {1}
    MaxVersion = 1
INVARIANTS ManuscriptStaysPrivate SweepIsIdempotent
PROPERTIES SeatsComeFree MatchableIsMatched
CHECK_DEADLOCK FALSE
