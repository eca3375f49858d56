---------------------------- MODULE MCSubscriptions ----------------------------
(* Subscriptions with two filters, the first of which matches the second, as *)
(* "a/#" matches "a/b".                                                      *)
EXTENDS Subscriptions

CONSTANTS wide, narrow

MCFilters == {wide, narrow}
MCMatches == {<<wide, wide>>, <<narrow, narrow>>, <<wide, narrow>>}
================================================================================
