----------------------------- MODULE MCStorage -----------------------------
(***************************************************************************)
(* Storage for TLC: two values tell two chunks apart.                      *)
(***************************************************************************)
EXTENDS Storage

MCValues == {"old", "new"}
=============================================================================
