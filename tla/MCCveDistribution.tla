-------------------------- MODULE MCCveDistribution --------------------------
(***************************************************************************)
(* One CVE with a built-in pattern and one without. A pull reaches one     *)
(* unit of time back where the code takes seven days, so that four units   *)
(* hold a signature that is older.                                         *)
(***************************************************************************)
EXTENDS CveDistribution

CONSTANTS log4shell, other
MCCVEs == {log4shell, other}
MCHandcrafted == {log4shell}
MCSkews == {-1, 0, 1}
=============================================================================
