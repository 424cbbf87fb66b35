----------------------------- MODULE MCGateRunner -----------------------------
(***************************************************************************)
(* Bounds for the gate runner: pipes of two units; a command that writes   *)
(* up to three units to a stream fills one and blocks.                     *)
(***************************************************************************)
EXTENDS GateRunner

BothStreams == {"stdout", "stderr"}

===============================================================================
