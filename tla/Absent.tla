------------------------------- MODULE Absent -------------------------------
(***************************************************************************)
(* The value of a database column that is NULL and of a field nobody has   *)
(* set, the same one in all modules that are composed.                     *)
(***************************************************************************)
CONSTANT None
=============================================================================
