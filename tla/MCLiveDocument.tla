--------------------------- MODULE MCLiveDocument ---------------------------
\* A tab that may lose its connection, a piece typed and a piece wiped, a
\* restore and a compaction; the larger sets are for runs by hand.
EXTENDS LiveDocument

CONSTANTS t1, t2, e1, e2, x1, r1, k1

MCTabs == {t1, t2}
MCOneTab == {t1}
MCTyped == {e1, e2}
MCOneTyped == {e1}
MCClears == {x1}
MCRestores == {r1}
MCCompacts == {k1}
MCNone == {}
=============================================================================
