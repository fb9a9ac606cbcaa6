---------------------------- MODULE MCSetConfirm ----------------------------
(* SetConfirm for TLC.  The counter wraps just above the number of writes  *)
(* one call can make, so wrap-around within a call's records is reached.   *)
EXTENDS SetConfirm
=============================================================================
