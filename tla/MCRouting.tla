----------------------------- MODULE MCRouting -----------------------------
EXTENDS Routing

MCCableOf(r) == IF r = "e" THEN "ET" ELSE "LT"
MCConfigs(r) == IF r = "e" THEN <<[range |-> <<1, 1>>, zone |-> "z"], [range |-> <<2, 2>>, zone |-> "y"]>>
                ELSE <<[range |-> <<3, 3>>, zone |-> "z"]>>
MCTuples(r) == IF r = "e" THEN {<<[range |-> <<4, 6>>, gone |-> FALSE]>>, <<[range |-> <<4, 6>>, gone |-> TRUE]>>}
               ELSE {<<>>}
MCChanges == {[op |-> "insert", range |-> <<5, 5>>, hop |-> "l", iface |-> "LT"],
              [op |-> "remove", range |-> <<4, 6>>],
              [op |-> "zone", zone |-> "x", range |-> <<4, 6>>],
              [op |-> "unzone", zone |-> "x"],
              [op |-> "local", range |-> <<2, 2>>]}

\* handle_rtmp inserts one tuple after another, and each removes what it overlaps: HandleRtmp says
\* what is left in the end.  Two routes were there; up to three tuples are heard.
Ranges == {<<i, j>> : i \in 1..3, j \in 1..3} \ {<<2, 1>>, <<3, 1>>, <<3, 2>>}
Heard == {<<>>} \cup UNION {[1..n -> [range : Ranges, gone : BOOLEAN]] : n \in 1..3}
ASSUME OneByOne ==
    LET old == {Route(<<1, 1>>, "l", "LT", "never"), Route(<<2, 3>>, "e", "ET", "live")}
        t == [EmptyTable EXCEPT !.routes = old]
        Insertion(acc, u) == Insert(acc, u.range, "e", CableOf("e"), "live")
    IN  \A ts \in Heard : HandleRtmp(t, "e", ts) = FoldLeft(Insertion, t, SelectSeq(ts, LAMBDA u : ~u.gone))
=============================================================================
