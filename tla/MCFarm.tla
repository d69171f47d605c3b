-------------------------------- MODULE MCFarm --------------------------------
(***************************************************************************)
(* An instance of Farm for TLC, on the networks of MCRouting.              *)
(***************************************************************************)
EXTENDS MCRouting, Farm

\* SETUPs and MQTT commands; reports go on for ever.
Farming == [Nothing EXCEPT !["setups"] = 1, !["reports"] = -1, !["commands"] = 1]
===============================================================================
