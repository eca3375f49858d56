------------------------------ MODULE MCLayouts ------------------------------
EXTENDS Layouts, TLC

MCDefaults == <<"Default">>
MCNewNames == <<"New Layout", "New Layout - 1">>
MCTexts == {"New Layout", "Work"}
MCSymmetry == Permutations(Tabs)
===============================================================================
