---------------------------- MODULE MCResolution ----------------------------
(* Files whose zones nest in either order, three levels deep, or are told  *)
(* apart by a final dot only; the same zone with another address, in other *)
(* letters or alone, or the root; and four files that are refused. Names   *)
(* inside and outside of the zones with up to three labels before them.    *)
EXTENDS Bootstrap

MCDomain(name, ip) == [name |-> name, ip |-> ip]
Zone == MCDomain(<<"o", "c">>, "i")
Moved == MCDomain(<<"o", "c">>, "j")
Capital == MCDomain(<<"O", "c">>, "i")
Dotted == MCDomain(<<"o", "c", "">>, "j")
Inner == MCDomain(<<"w", "o", "c">>, "i")
Outer == MCDomain(<<"c">>, "i")
Root == MCDomain(<<"">>, "i")

MCConfigs ==
  {<<Zone>>, <<Moved, Inner>>, <<Inner, Zone>>, <<Capital>>, <<Zone, Dotted>>,
   <<Inner, Outer, Root>>}
    \cup {<<>>, <<Zone, Capital>>, <<MCDomain(<<>>, "i")>>, <<MCDomain(<<"c">>, "")>>}
MCLabels == {"x", "w"}
MCFolded == [l \in {"O", "W"} |-> IF l = "O" THEN "o" ELSE "w"]
MCHosts ==
  {<<"c">>, <<"o", "d", "">>, <<"w", "o", "C">>, <<"x", "w", "O", "c", "">>}
    \cup {<<"x", "o", "c", "">>}
    \cup {<<a, b, "o", "c">> : a, b \in {"x", "W"}}
    \cup {<<"y", a, "w", "o", "c">> : a \in {"x", "z"}}
=============================================================================
