----------------------------- MODULE MCTgCalls -----------------------------
(* Model values for checking TgCalls with TLC.                             *)
EXTENDS TgCalls

CONSTANTS i1, i2, i3

ThreeItems == {i1, i2, i3}
=============================================================================
