--------------------------- MODULE MCNodeProcess ----------------------------
(***************************************************************************)
(* Every setting of a node, interrupted up to twice.                       *)
(***************************************************************************)
EXTENDS NodeProcess

AllSettings == SettingType
=============================================================================
