----------------------------- MODULE MCConsole -----------------------------
(* Instances of Console for TLC. *)
EXTENDS Console

(* Some output while the screen is locked; then cls and terminal(), with   *)
(* one character for a line and one for the prompt.                        *)
MCScript == <<"lock_vga", "char", "newline", "unlock_vga",
              "cls", "char", "newline", "char", "tab_stop">>
=============================================================================
