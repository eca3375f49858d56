-------------------------------- MODULE MCFsTree --------------------------------
(* FsTree with one name for new folders and two for new messages; the user may *)
(* also type a name whose extension load() drops.                             *)
EXTENDS FsTree

MCNames == {"folder", "message", "message-1", "message.x"}
MCStem == [n \in MCNames |-> IF n = "message.x" THEN "message" ELSE n]
MCNewFolder == <<"folder">>
MCNewLeaf == <<"message", "message-1">>
================================================================================
