------------------------------ MODULE MC_Calls ------------------------------
(***************************************************************************)
(* Two Process objects, one of which makes calls, a link, a table of five  *)
(* descriptors of which the programs name two, and the entry past its end. *)
(***************************************************************************)
EXTENDS SystemCalls

CONSTANTS p1, p2, p3, l1

MCOpenPaths   == {<<SLASH, PROC, SLASH, "..", SLASH, SLASH, PROC>>, <<"a_b">>}
MCLinkPaths   == {<<SLASH, SLASH, PROC, SLASH, "l">>, <<PROC, SLASH, "a_b">>}
MCLinkTargets == {<<SLASH, PROC, SLASH, ".">>}
MCCwdPaths    == {<<PROC, SLASH>>}
=============================================================================
