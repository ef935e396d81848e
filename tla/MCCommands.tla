------------------------------ MODULE MCCommands ------------------------------
(* Instance of Commands for TLC; its constants are given by the .cfg files.  *)
EXTENDS Commands
=============================================================================
