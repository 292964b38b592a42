------------------------------- MODULE MCRuntime -------------------------------
(* Rings of one or two events, so that every ring can be full.             *)
EXTENDS Runtime
===============================================================================
