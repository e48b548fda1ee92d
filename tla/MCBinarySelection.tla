------------------------- MODULE MCBinarySelection -------------------------
(***************************************************************************)
(* Three paths, three versions, the middle one the minimum, and two        *)
(* replacements: enough for a candidate that disappears, one that gets     *)
(* better after it was inspected, and ties between paths.                  *)
(***************************************************************************)
EXTENDS BinarySelection

MCPaths == 1..3
MCVersions == 1..3
=============================================================================
