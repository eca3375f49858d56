\* A program ended by an exception takes no more steps.
SPECIFICATION Spec
CHECK_DEADLOCK FALSE
CONSTANTS
  near = near
  far = far
  Topics <- MCTopics
  TopicFilters <- MCTopicFilters
  ObserverId = 1
  MaxIds = 2
  MaxMessages = 3
  MaxPending = 2
INVARIANTS
  RemapIsExact
PROPERTY AllOrNothing
