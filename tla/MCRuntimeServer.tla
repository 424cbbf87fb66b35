---------------------------- MODULE MCRuntimeServer ----------------------------
(***************************************************************************)
(* Bounds for the serving runtime.  A kubelet gives up after three missed  *)
(* probes; a gate may end before any is missed, after one or two, which    *)
(* add up over gates in a row, or outlast the kubelet's patience.          *)
(***************************************************************************)
EXTENDS RuntimeServer

TwoCommands == {"c1", "c2"}

ShortOrLong == {0, 1, 2, 3}

===============================================================================
