------------------------------ MODULE SetupRegister ------------------------------
(***************************************************************************)
(* What the encrypted setup file promises: a register that is replaced as  *)
(* a whole.  A replacement reaches the disk sooner or later; a power loss  *)
(* before that brings back the value that had reached it, never anything   *)
(* else.  Saves that overlap leave it open what the register holds, until  *)
(* it is saved again.                                                      *)
(***************************************************************************)
CONSTANTS
    Configs,        \* encrypted configurations
    None,           \* no configuration was ever saved
    Unknown         \* nothing is promised of the value

VARIABLES
    value,          \* what a read returns
    durable         \* what a read returns after a power loss

Init ==
    /\ value = None
    /\ durable = None

Save(c) ==
    /\ value' = c
    /\ UNCHANGED durable

Contend ==
    /\ value' = Unknown
    /\ UNCHANGED durable

Flush ==
    /\ durable' = value
    /\ UNCHANGED value

PowerLoss ==
    /\ value' = durable
    /\ UNCHANGED durable

Next == Flush \/ PowerLoss \/ Contend \/ \E c \in Configs : Save(c)

Spec == Init /\ [][Next]_<<value, durable>>

===============================================================================
