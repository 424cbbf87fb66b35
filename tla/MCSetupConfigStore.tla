-------------------------- MODULE MCSetupConfigStore --------------------------
(***************************************************************************)
(* Bounds for the setup store: a short and a long configuration, and as    *)
(* many inodes as the two names and the disk can hold.                     *)
(***************************************************************************)
EXTENDS SetupConfigStore, TLC

Names == Permutations(Inodes) \cup Permutations(Writers)

TwoSizes == [c \in Configs |-> IF c = "short" THEN 1 ELSE 2]

===============================================================================
