---------------------------- MODULE MCPressureRun ----------------------------
(***************************************************************************)
(* The instance of the pressure runner that is checked: two scenarios, a   *)
(* capture of one byte and processes that write up to two.                 *)
(***************************************************************************)
EXTENDS PressureRun
=============================================================================
