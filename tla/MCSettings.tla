------------------------------ MODULE MCSettings ------------------------------
EXTENDS SettingsForm

MCDefaults == <<"Default">>
MCNewNames == <<"New Layout", "New Layout - 1">>
MCTexts == {"New Layout"}
===============================================================================
