----------------------------- MODULE MCProfiles -----------------------------
EXTENDS Profiles

MCNewName == <<"New profile", "New profile - 1">>
===============================================================================
