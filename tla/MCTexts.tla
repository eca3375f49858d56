------------------------------- MODULE MCTexts -------------------------------
EXTENDS Texts

\* A letter, a capital, a digit, and . / % space and two bytes of UTF-8.
MCBytes == {97, 70, 57, 46, 47, 37, 32, 195, 169}
\* Up to three of them, and ".index", "..index", ".index.a", ".index." and ".index.a.9".
MCNames ==
  LET index == <<46, 105, 110, 100, 101, 120>> IN
  StringsOf(MCBytes, 3)
    \cup {index, <<46>> \o index, index \o <<46, 97>>, index \o <<46>>,
          index \o <<46, 97, 46, 57>>}
MCDurations ==
  LET some == {0, 7, 70, 999, 1000, 1007, 1070, 59999, 60000, 61700, 3599999,
               3600000, 3661250, 90061001}
  IN some \cup {-d : d \in some}
===============================================================================
