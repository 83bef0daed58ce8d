----------------------------- MODULE MCSession -----------------------------
(***************************************************************************)
(* A small instance of PluginThread, with the lines of MCPluginControl.    *)
(***************************************************************************)
EXTENDS PluginThread, MCPluginControl
=============================================================================
