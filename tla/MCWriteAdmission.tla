--------------------------- MODULE MCWriteAdmission ---------------------------
(* Small instances of WriteAdmission for TLC. *)
EXTENDS WriteAdmission

CONSTANTS w1, f1, f2, t1, t2, worker, admin
===============================================================================
