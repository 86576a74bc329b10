-------------------------- MODULE MCSigningSession --------------------------
(* Small instances of SigningSession. *)
EXTENDS SigningSession

CONSTANTS s1, s2     \* session ids

OneSession  == {s1}
TwoSessions == {s1, s2}
BothCalls   == {"run", "api"}
RunOnly     == {"run"}
=============================================================================
