--------------------------- MODULE MCApdlContract ---------------------------
(***************************************************************************)
(* Two ECDSA keys and a string that is none, an int of five bits, deposits *)
(* on both sides of zero, of the salary and of the overflow, and a clock   *)
(* that passes the later of two deposit times.                             *)
(***************************************************************************)
EXTENDS ApdlContract

CONSTANTS hub, usr, junk, m1, m2

MCKey == {hub, usr, junk}
MCEcdsaKey == {hub, usr}
MCMessage == {m1, m2}
MCAmount == {-1, 0, 3, 15, 16, NotANumber}
MCDate == {1, 2, NotADate}
=============================================================================
