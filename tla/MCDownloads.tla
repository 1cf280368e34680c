---------------------------- MODULE MCDownloads ----------------------------
(***************************************************************************)
(* Downloads on small instances.                                           *)
(***************************************************************************)
EXTENDS Downloads

CONSTANTS f, g, long

\* Two names and one too long for an entry of the panel.
Names   == {f, g, long}
OneLong == {long}
OneName == {f}
NoLong  == {}
Sized   == {"sized"}
=============================================================================
