----------------------------- MODULE MCQuitSSA -----------------------------
(* Both passes on the functions of MCMemoryToRegister.                      *)
EXTENDS QuitSSA, MCMemoryToRegister
=============================================================================
