----------------------------- MODULE MCStorage -----------------------------
(* Small worlds for the parts of Storage. *)
EXTENDS Storage, TLC

CONSTANTS t1, t2, n1, n2,      \* titles and entries of saves
          a, b, j,             \* chunks, and a wiped one
          c1, c2,              \* content ids
          fw, exfat,           \* firmware files
          i1, i2, y, r, z, k1, k2  \* units of tickets and keys

file(s) == [kind |-> "file", data |-> s]
none    == [kind |-> "none", data |-> <<>>]
dir     == [kind |-> "dir",  data |-> <<b>>]   \* a folder with something in it

MCTitle == {t1, t2}
MCName  == {n1, n2}
Full    == n1 :> file(<<a, b>>) @@ n2 :> dir
Small   == n1 :> file(<<b>>) @@ n2 :> none
Bare    == n1 :> none @@ n2 :> none
MCSaves0 == {t1 :> Full, t1 :> Small, t1 :> Bare @@ t2 :> Small}

\* Packages: one is shorter than its table says.
MCFiles ==
  {[sizes |-> <<1, 2>>, length |-> 5], [sizes |-> <<1, 2>>, length |-> 3],
   [sizes |-> <<0, 1>>, length |-> 9]}
MCIds    == {c1, c2}
MCTitles == {<<2, 1>>, <<0, 2, 1>>}

MCNands == {<<a, b>>, <<b, a>>}
MCParts == {fw, exfat}
MCFirmwares == {fw :> file(<<a, b>>) @@ exfat :> f : f \in {none, file(<<a>>)}}

MCId        == {i1, i2}
MCTickets   == {<<i1, y, r, r>>, <<i2, y, r, r>>, <<i1>>, <<>>}
MCPlainKeys == {<<k1, k2>>}
MCDec(s, q) == <<k1, k2>>

MCData == {<<a, b>>, <<b>>}
nca(t, h, g) == [ext |-> "nca", header |-> h, type |-> t, rights |-> g]
tik == [ext |-> "tik", header |-> FALSE, type |-> "none", rights |-> FALSE]
MCPackages ==
  {[named |-> TRUE, format |-> TRUE, files |-> fs] :
     fs \in {<<nca("program", TRUE, FALSE), nca("meta", TRUE, TRUE)>>,
             <<nca("program", TRUE, FALSE), nca("meta", TRUE, TRUE), tik>>,
             <<nca("program", FALSE, FALSE), nca("meta", TRUE, FALSE)>>}}
=============================================================================
