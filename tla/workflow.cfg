SPECIFICATION Spec
CONSTANTS
    Reviewers = {1, 2, 3}
    Topical = {2}
    Owner = 8
    Admins = {9}
    DefaultReviews = 2
    AutoMatching = TRUE
    Capacity = 1
    FirstProfiles <- Boards
    Restless = {}
    RequiredChoices = {1, 2}
    MaxVersion = 3
CONSTRAINT LongForOne
INVARIANTS TypeOK CorrectionTracksPaper WithdrawnIsClosed SeatsRespected StageIsTrue OneAssignmentEach NoStaleAssignment AppealTracksPaper AppealHasFreshReviewers PublishedWasReviewed
PROPERTIES PublicationAdvances WithdrawnIsFinal
CHECK_DEADLOCK FALSE
