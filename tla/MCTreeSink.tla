------------------------------ MODULE MCTreeSink ------------------------------
(***************************************************************************)
(* Bound: parse errors, quirks mode and attributes do not touch the tree,  *)
(* so they are explored with all of it only while the arena has a free     *)
(* slot, and in the full arena alone.                                      *)
(***************************************************************************)
EXTENDS TreeSink

Plain == kept + suppressed = 0 /\ quirks = "NoQuirks" /\ \A n \in Slots : attrs[n] = NoAttrs
DataOrTree == len < MaxNodes \/ Plain
===============================================================================
