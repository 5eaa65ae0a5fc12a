---------------------------- MODULE MCServerPool ----------------------------
(* ServerPool with languages of which one has no configured server. *)
EXTENDS ServerPool, TLC

CONSTANTS go, rust, cobol
Three == {go, rust, cobol}
Two   == {go, rust}
=============================================================================
