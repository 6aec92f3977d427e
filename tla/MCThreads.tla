----------------------------- MODULE MCThreads -----------------------------
(* Small instances of Threads for TLC.                                     *)
EXTENDS Threads, TLC

CONSTANTS walking, dialog

(* An actor's walk can be stopped by a script; a dialog ends by itself.    *)
BothConds == {walking, dialog}
Walking == {walking}
Dialog == {dialog}

=============================================================================
