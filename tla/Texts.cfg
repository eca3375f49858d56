SPECIFICATION TextsSpec
CONSTANTS
  Letters = {"a", "b"}
  MaxTopic = 4
  MaxFilter = 5
  Names <- MCNames
  Durations <- MCDurations
INVARIANTS
  MatchIsStandard
  NamesSurviveAsFiles
  DurationReadsBack
CHECK_DEADLOCK FALSE
