----------------------------- MODULE FarmPassword -----------------------------
(* What the farm and its services both know of the farm password                  *)
(* (config.proxy.masterKey): a key, or none.                                      *)
EXTENDS Naturals

CONSTANTS
    Keys, Open,   \* the keys; no password, an open farm
    None          \* no process, no message, no registration

Passwords == Keys \cup {Open}
=============================================================================
