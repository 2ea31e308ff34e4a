---------------------------- MODULE MCSentinelIpc ----------------------------
(***************************************************************************)
(* Two-slot rings whose indices wrap at four.  Devices: a good one, and    *)
(* ones that fail bring-up at each of its checks.                          *)
(***************************************************************************)
EXTENDS SentinelIpc

Good == [console |-> TRUE, version_1 |-> TRUE, accepts |-> TRUE, max |-> 8, ready |-> TRUE, status |-> "reset"]

AllDevices ==
  {Good, [Good EXCEPT !.max = 2], [Good EXCEPT !.console = FALSE], [Good EXCEPT !.version_1 = FALSE],
   [Good EXCEPT !.accepts = FALSE], [Good EXCEPT !.max = 0], [Good EXCEPT !.ready = FALSE]}
=============================================================================
