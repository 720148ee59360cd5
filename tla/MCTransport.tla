---------------------------- MODULE MCTransport -----------------------------
(***************************************************************************)
(* Instances of Transport for TLC.                                          *)
(***************************************************************************)
EXTENDS Transport

CONSTANTS a1, a2, a3, bad, name, loopback4, me

\* A node with a public and a local address, one without a public address that
\* announced a ListenAddr with a host in it, and a bootstrap node given by name.
MCEntries == {{a1, a2}, {a3, bad}}

MCRemotes(a) == IF a = name THEN {loopback4, LOOPBACK6} ELSE {a}
=============================================================================
