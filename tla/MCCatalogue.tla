---------------------------- MODULE MCCatalogue ----------------------------
(***************************************************************************)
(* Small instances of Catalogue.                                           *)
(***************************************************************************)
EXTENDS Catalogue, TLC

CONSTANTS chess, soccer

\* Pages before the first, after the last, and where an int of five bits wraps
\* around: 9 asks for offset 16, 17 for offset 32.
MCAddresses == {-1, 0, 2, 9, 17}
=============================================================================
