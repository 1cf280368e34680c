----------------------------- MODULE MCExplorer -----------------------------
(***************************************************************************)
(* Explorer on a card with a root of three entries and a folder of one.    *)
(***************************************************************************)
EXTENDS Explorer, TLC

ab == <<"a", "b">>
b  == <<"b">>
s  == <<"s", "u">>

SmallCard == (<<>> :> <<Entry(ab, FALSE), Entry(b, FALSE), Entry(s, TRUE)>>)
             @@ (<<s>> :> <<Entry(ab, FALSE)>>)

\* The root, and a folder that does not exist.
TwoStarts == {<<>>, <<<<"l", "o", "g">>>>}
=============================================================================
