--------------------------- MODULE MCDesktopShell ---------------------------
(* The model-checking instance of DesktopShell. *)
EXTENDS DesktopShell, TLC
=============================================================================
