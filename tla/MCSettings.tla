----------------------------- MODULE MCSettings -----------------------------
(***************************************************************************)
(* Settings on small instances.                                            *)
(***************************************************************************)
EXTENDS Settings

\* Unknown, below a threshold the menu can reach, and above all of them.
Levels == {-1, 72, 90}

AFile == [theme |-> "blue", mode |-> "efficient", auto |-> TRUE,
          bat |-> 70, stor |-> 2]

Files == {NoFile, AFile}

BothEntries == AllEntries
=============================================================================
