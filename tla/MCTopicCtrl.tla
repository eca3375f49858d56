----------------------------- MODULE MCTopicCtrl -----------------------------
EXTENDS TopicCtrl

MCSorted == <<"a", "ab", "b", "c">>
MCWithin ==
  [t \in Texts |->
    CASE t = "" -> AllTopics [] t = "a" -> {"a", "ab"} [] t = "b" -> {"ab", "b"}
      [] t = "#" -> {} [] OTHER -> {t}]
===============================================================================
