--------------------------- MODULE MCLiveTrading ---------------------------
(* Instances of LiveTrading for TLC.                                       *)
EXTENDS LiveTrading, TLC

CONSTANTS s1, s2, s3, gold, coin

\* s1 and s2 are signals on one symbol, s3 is on another.
MCSymbolOf == [s \in Signals |-> IF s = s3 THEN coin ELSE gold]
MCVolumeOf == [s \in Signals |-> 1]

Row(active, maxDaily, maxLoss, maxVolume, allowed) ==
  [active |-> active, maxDaily |-> maxDaily, maxLoss |-> maxLoss,
   maxVolume |-> maxVolume, allowed |-> allowed]

OneADay == Row(TRUE, 1, 50, 1, Symbols)
Roomy == Row(TRUE, Cardinality(Requests), 50, 1, Symbols)

\* Limits that never stop a request on their own: only the symbol does.
MCRoomy == {Roomy}
\* One trade a day, the default row, or none at all for every reason there is.
MCLimits == {OneADay, Row(FALSE, 0, 0, 0, {})}

Symmetry == Permutations(Requests)
=============================================================================
