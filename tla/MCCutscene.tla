----------------------------- MODULE MCCutscene -----------------------------
(* Small instances of Cutscene for TLC.                                    *)
EXTENDS Cutscene

=============================================================================
