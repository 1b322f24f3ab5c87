--------------------------- MODULE MCMassStorage ---------------------------
(***************************************************************************)
(* MassStorage for TLC: the sets of commands its runs use.                 *)
(***************************************************************************)
EXTENDS MassStorage, TLC

DataCommands   == {READ, WRITE}
ReplyCommands  == {INQUIRY, MODE_SENSE}
ListedCommands == AllCommands \ {UNLISTED}

Symmetry == Permutations(Values) \union Permutations(Tags)
=============================================================================
