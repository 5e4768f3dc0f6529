-------------------------- MODULE MCRuntimeEvents --------------------------
(* Two signals and a history of two envelopes, so that it expires soon.    *)
EXTENDS RuntimeEvents
=============================================================================
