--------------------------- MODULE MCBullDispatch ---------------------------
(* BullDispatch on a small instance; its bounds are numbers in the         *)
(* configurations.                                                         *)
EXTENDS BullDispatch

=============================================================================
