--------------------------- MODULE MCFilesystemStore ---------------------------
(* A small instance of FilesystemStore: two results for one thread and one    *)
(* work item, so that every append finds another one's lines.                 *)
EXTENDS FilesystemStore

CONSTANTS a1, a2

MCIndexFiles == {"threads/t1", "work-items/w1"}

MCThreadFile == [a \in Artifacts |-> "threads/t1"]

MCWorkFile == [a \in Artifacts |-> "work-items/w1"]

===============================================================================
