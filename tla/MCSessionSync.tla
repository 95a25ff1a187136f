---------------------------- MODULE MCSessionSync ----------------------------
(* SessionSync with two remote workspaces and a local one.                    *)
EXTENDS SessionSync

CONSTANTS a, b, l

=============================================================================
