----------------------------- MODULE MCServices -----------------------------
(* Small worlds for the parts of Services. *)
EXTENDS Services, TLC

CONSTANTS a, b, d, e, root,     \* things in a folder; also chunks, bytes, labels
          p, q,                 \* places
          u, v,                 \* addresses
          sys, plug, p1, p2,    \* rules and pins
          ab, long, cut,        \* labels and what becomes of them
          br, ot                \* types of applets

MCItem   == {a, b, d, e}
MCParent == a :> root @@ b :> root @@ d :> root @@ e :> d
MCTags   == a :> {"temp", "old"} @@ b :> {"shown"} @@ d :> {"dir"} @@ e :> {"part"}
MCSize   == a :> 2 @@ b :> 1 @@ d :> 0 @@ e :> 1

MCPath    == {p, q}
MCData    == {<<a, b>>, <<b>>}
MCProgram == {<<a, b>>, <<b, d>>}

MCUrl    == {u, v}
answer(k, s, t) == [kind |-> k, body |-> s, to |-> t]
MCAnswer ==
  {answer("plain", <<"h", a>>, u), answer("chunked", <<"h", a, b>>, u),
   answer("told", <<"h", a>>, u), answer("moved", <<"h", a>>, v),
   answer("twice", <<"h", a>>, v), answer("bare", <<a>>, u)}

MCRules == sys :> {"read"} @@ plug :> {"read", "execute"}
path(rs, c, r) == [rules |-> rs, critical |-> c, rom |-> r]
MCPaths ==
  {path({sys}, TRUE, FALSE), path({plug}, FALSE, FALSE), path({}, TRUE, FALSE), path({}, FALSE, TRUE)}
MCPins  == {p1, p2}

MCLabels     == {a, b, ab, long}
MCKept(l)    == IF l = long THEN cut ELSE l
MCTrimmed(l) == IF l = ab THEN a ELSE l

MCTypes      == {br, ot}
MCAppletData == {d}
MCByte       == {a, b}
MCNames      == {a, b}
MCButtons    == {"A", "B", "Up", "Down", "Left", "ZL"}
=============================================================================
