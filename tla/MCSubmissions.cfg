\* Two openings, two requests, one edit: a retry in the same opening, and an
\* answer that comes back to the next one.
CONSTANTS
    MaxOpenings = 2
    MaxAttempts = 2
    MaxEdits = 1
SPECIFICATION Spec
INVARIANT SubmissionsTypeOK
INVARIANT DraftStoredOnce
INVARIANT ErrorsAreOfThisOpening
INVARIANT FreshListsAreTrue
INVARIANT SubmittedIsStored
PROPERTY LateAnswersKeepOut
CHECK_DEADLOCK FALSE
