CONSTANTS
  BufLen = 7 MaxSent = 3
  Hellos <- TwoHellos
  Text <- Serialize
  Value <- Whole_value
SPECIFICATION FairSpec
INVARIANTS TypeOK FoundInOrder AnswerIsForRequest
PROPERTY RequestAnswered
\* Connections end, and requests may stay unanswered.
CHECK_DEADLOCK FALSE
