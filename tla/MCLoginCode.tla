---------------------------- MODULE MCLoginCode ----------------------------
(* Small instances of LoginCode. *)
EXTENDS LoginCode
=============================================================================
