-------------------------------- MODULE Texts --------------------------------
(***************************************************************************)
(* Functions of the program that compute a text, or with one, each with    *)
(* what it is to compute: which subscriptions a message is shown under     *)
(* (MQTT::Client::match), the name that is read back from the file a name  *)
(* is kept in (Common::Url, FsTree, Layouts), and the time between two     *)
(* messages (Helpers::durationToString).                                   *)
(*                                                                         *)
(* A state is one call and its result.                                     *)
(***************************************************************************)
EXTENDS Integers, Sequences, FiniteSets, SequencesExt, Order

CONSTANTS
  Letters,      \* of topics and filters, beside / + and #
  MaxTopic,     \* bound: characters of a topic
  MaxFilter,    \* bound: characters of a filter
  Names,        \* of messages, folders, profiles and layouts, as bytes
  Durations     \* milliseconds

ASSUME TextsAssumption ==
  /\ Letters \cap {"/", "+", "#"} = {}
  /\ MaxTopic \in Nat /\ MaxFilter \in Nat
  /\ Names \subseteq Seq(0..255) \ {<<>>} /\ Durations \subseteq Int

VARIABLES call, result

-------------------------------------------------------------------------------
(* Matching *)

StringsOf(chars, max) == UNION {[1..n -> chars] : n \in 1..max}

\* The parts between the slashes, also those that are empty.
Ends(s) == Ascending({i \in 1..Len(s) : s[i] = "/"} \cup {Len(s) + 1})
Levels(s) ==
  LET ends == Ends(s) IN
  [k \in 1..Len(ends) |-> SubSeq(s, IF k = 1 THEN 1 ELSE ends[k - 1] + 1, ends[k] - 1)]

Plus == <<"+">>
Hash == <<"#">>

TopicTexts == StringsOf(Letters \cup {"/"}, MaxTopic)
\* Filters that a broker accepts: + and # are whole levels, and # is the last.
LegalFilters == {s \in StringsOf(Letters \cup {"/", "+", "#"}, MaxFilter) :
              LET l == Levels(s) IN
              \A k \in 1..Len(l) :
                /\ Len(l[k]) = 1 \/ {"+", "#"} \cap ToSet(l[k]) = {}
                /\ l[k] = Hash => k = Len(l)}

\* The split of match drops empty levels.
split(s) ==
  LET levels == Levels(s) kept == Ascending({k \in 1..Len(levels) : levels[k] # <<>>})
  IN [k \in 1..Len(kept) |-> levels[kept[k]]]
HasPlus(filter) == "+" \in ToSet(filter)
EndsInHash(filter) == Last(filter) = "#"

\* Mutant: the level above the # is not matched by it.
matchBelow(filter, topic) ==
  \/ filter = topic
  \/ /\ ~HasPlus(filter) /\ EndsInHash(filter)
     /\ IsPrefix(Front(filter), topic)
  \/ /\ HasPlus(filter)
     /\ LET f == split(filter) t == split(topic) IN
        /\ Len(f) = Len(t) \/ EndsInHash(filter)
        /\ \A i \in 1..Len(f) :
             f[i] \in {Plus, Hash} \/ (Len(t) >= Len(f) /\ t[i] = f[i])

Root(filter) ==
  LET r == Front(filter) IN IF r # <<>> /\ Last(r) = "/" THEN Front(r) ELSE r
match(filter, topic) ==
  \/ filter = topic
  \/ ~HasPlus(filter) /\ EndsInHash(filter) /\ IsPrefix(Root(filter), topic)
  \/ /\ HasPlus(filter)
     /\ LET f == split(filter) t == split(topic) IN
        /\ Len(f) = Len(t) \/ EndsInHash(filter)
        /\ \A i \in 1..Len(f) :
             f[i] \in {Plus, Hash} \/ (Len(t) >= Len(f) /\ t[i] = f[i])

-------------------------------------------------------------------------------
(* File names *)

Percent == 37
Slash == 47
Dot == 46
Digits == 48..57
Capitals == 65..90
encodable(b) == b \notin Digits \cup Capitals \cup (97..122) \cup {45, 95, 44, Dot}
isHexChar(b) == b \in Digits \cup 65..70

HexChar(n) == IF n <= 9 THEN n + 48 ELSE n + 55
\* Mutant: the percent sign is let through.
encodeLoosely(name) ==
  FlattenSeq([i \in 1..Len(name) |->
    IF ~encodable(name[i]) \/ name[i] = Percent THEN <<name[i]>>
    ELSE <<Percent, HexChar(name[i] \div 16), HexChar(name[i] % 16)>>])
encode(name) ==
  FlattenSeq([i \in 1..Len(name) |->
    IF ~encodable(name[i]) THEN <<name[i]>>
    ELSE <<Percent, HexChar(name[i] \div 16), HexChar(name[i] % 16)>>])

\* What ends the program: std::length_error, or the exception of charToNibble.
Throws == <<-1>>
charToNibble(b) == IF b \in Digits THEN b - 48 ELSE b - 55
decode(file) ==
  LET escapes == {i \in 1..Len(file) : file[i] = Percent}
      kept == Ascending({i \in 1..Len(file) : {i - 1, i - 2} \cap escapes = {}})
  IN IF \A i \in escapes : i + 2 <= Len(file) /\ isHexChar(file[i + 1])
                           /\ isHexChar(file[i + 2])
     THEN [k \in 1..Len(kept) |->
            IF kept[k] \notin escapes THEN file[kept[k]]
            ELSE 16 * charToNibble(file[kept[k] + 1]) + charToNibble(file[kept[k] + 2])]
     ELSE Throws

\* std::filesystem: the name of a file without its last extension. A dot that it
\* begins with is none, nor are those of "..".
Extensions(file) == {i \in 2..Len(file) : file[i] = Dot}
stem(file) ==
  IF Extensions(file) = {} \/ file = <<Dot, Dot>> THEN file
  ELSE SubSeq(file, 1, Max(Extensions(file)) - 1)

FileKinds == {"message", "directory", "layout"}
Json == <<Dot, 106, 115, 111, 110>>
Index == <<Dot, 105, 110, 100, 101, 120>>
\* A message is a file, a folder and a profile a directory, of the encoded name.
FileOf(kind, name) == IF kind = "layout" THEN encode(name) \o Json ELSE encode(name)

\* What a directory does not list, and what loading it passes over.
Unlisted == <<-2>>
Passed(file) == file \in {<<Dot>>, <<Dot, Dot>>} \/ stem(file) = Index
\* The last extension of a directory belongs to its name, that of a file does not.
Load(kind, file) ==
  IF kind # "layout" /\ Passed(file) THEN Unlisted
  ELSE decode(IF kind = "directory" THEN file ELSE stem(file))

-------------------------------------------------------------------------------
(* Numbers *)

Magnitude(d) == IF d < 0 THEN -d ELSE d

\* "{:0<3}" fills up behind the digits.
PaddedBehind(n) == IF n < 10 THEN n * 100 ELSE IF n < 100 THEN n * 10 ELSE n
\* Mutant: the seconds are not less the minutes.
durationWithMinutesTwice(d) ==
  LET abs == Magnitude(d) ms == abs % 1000 seconds == (abs \div 1000) % 3600 IN
  [negative |-> d < 0, hours |-> abs \div 3600000, minutes |-> seconds \div 60,
   seconds |-> seconds, ms |-> IF abs < 1000 THEN ms ELSE PaddedBehind(ms)]
\* The digits that are read; below a second, those of the milliseconds.
durationToString(d) ==
  LET abs == Magnitude(d) ms == abs % 1000 seconds == (abs \div 1000) % 3600 IN
  [negative |-> d < 0, hours |-> abs \div 3600000, minutes |-> seconds \div 60,
   seconds |-> seconds % 60, ms |-> IF abs < 1000 THEN ms ELSE PaddedBehind(ms)]

-------------------------------------------------------------------------------
TextsInit == call = <<"none">> /\ result = <<>>

Match(filter, topic) ==
  call' = <<"match", filter, topic>> /\ result' = <<match(filter, topic)>>
SaveAndLoad(kind, name) ==
  LET file == FileOf(kind, name) IN
  call' = <<"file", kind, name>> /\ result' = <<file, Load(kind, file)>>
ShowDt(d) == call' = <<"dt", d>> /\ result' = <<durationToString(d)>>

TextsNext ==
  /\ call = <<"none">>
  /\ \/ \E d \in Durations : ShowDt(d)
     \/ \E kind \in FileKinds : \E name \in Names : SaveAndLoad(kind, name)
     \/ \E filter \in LegalFilters : \E topic \in TopicTexts : Match(filter, topic)

TextsSpec == TextsInit /\ [][TextsNext]_<<call, result>>

-------------------------------------------------------------------------------
(* What the functions are to compute *)

\* MQTT, 4.7.1: level by level, and # also for the level above it.
Standard(filter, topic) ==
  LET f == Levels(filter) t == Levels(topic) IN
  /\ \A i \in 1..Len(f) : f[i] = Hash \/ (i <= Len(t) /\ f[i] \in {Plus, t[i]})
  /\ Len(f) = Len(t) \/ (Last(f) = Hash /\ Len(t) >= Len(f) - 1)

\* A message is shown under the subscriptions whose filters match its topic, for
\* every filter and topic; but filters without + that end in # match as a prefix
\* of the text, and those with + pass over empty levels, and with a # at the end
\* misjudge topics that have fewer levels.
HasEmptyLevel(s) == <<>> \in ToSet(Levels(s))
MatchIsStandard ==
  call[1] = "match" /\ result[1] # Standard(call[2], call[3]) =>
    LET filter == call[2] topic == call[3] IN
    IF HasPlus(filter)
    THEN \/ HasEmptyLevel(filter) \/ HasEmptyLevel(topic)
         \/ EndsInHash(filter) /\ Len(Levels(topic)) < Len(Levels(filter))
    ELSE result[1] /\ EndsInHash(filter) /\ IsPrefix(Root(filter), topic)

\* Folders, profiles and layouts are found under the names they were saved under,
\* whatever characters these have, and messages under theirs up to the last dot:
\* loadLeaf takes it for that of an extension. But "." and ".." are not listed, nor
\* what is taken for the index of a folder. No name reaches into another directory
\* by a slash.
NamesSurviveAsFiles ==
  call[1] = "file" =>
    LET kind == call[2] name == call[3] IN
    /\ Slash \notin ToSet(result[1])
    /\ result[2] = IF kind # "layout" /\ Passed(name) THEN Unlisted
                   ELSE IF kind = "message" THEN stem(name) ELSE name

\* The digits shown are those of the time between two messages; but for full
\* seconds and less than a tenth, which is filled up at the wrong end.
DurationReadsBack ==
  call[1] = "dt" =>
    LET r == result[1] abs == Magnitude(call[2]) IN
    \/ /\ r.negative = (call[2] < 0) /\ r.minutes < 60 /\ r.seconds < 60
       /\ 3600000 * r.hours + 60000 * r.minutes + 1000 * r.seconds + r.ms = abs
    \/ abs >= 1000 /\ abs % 1000 \in 1..99
===============================================================================
