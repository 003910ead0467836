------------------------ MODULE MCSharedSessionFile ------------------------
(***************************************************************************)
(* An instance of SharedSessionFile for TLC: two calls of users, one test. *)
(***************************************************************************)
EXTENDS SharedSessionFile

CONSTANTS a, b, t, s1, s2, s3

MCCalls    == {a, b, t}
MCTests    == {t}
MCSessions == {s1, s2, s3}
=============================================================================
