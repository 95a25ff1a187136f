--------------------------- MODULE MCBackgroundJob ---------------------------
(* BackgroundJob with two callers, two jobs, and one extension each.         *)
EXTENDS BackgroundJob, TLC

CONSTANTS c1, c2

=============================================================================
