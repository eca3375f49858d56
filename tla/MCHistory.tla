------------------------------- MODULE MCHistory -------------------------------
(* History with two topics; the texts of the filter are the empty one, which  *)
(* every topic contains, and one that only `near` contains.                   *)
EXTENDS History

CONSTANTS near, far

MCTopics == {near, far}
MCTopicFilters == {{near, far}, {near}}
================================================================================
