------------------------- MODULE MCCollectorClient -------------------------
(* CollectorClient on a small instance.  MCCollectorClient.cfg: five       *)
(* events, the second as large as the budget and the fourth not encodable, *)
(* and a server limit that every request but the largest ones of a drain   *)
(* fits.  MCCollectorClientLimit.cfg: the budget and a reserve as the      *)
(* limit, no event larger than the reserve, and an event channel that      *)
(* holds more than the reserve.                                            *)
EXTENDS CollectorClient

MCUnencodable == {4}
MCSize == <<1, 2, 1, 1, 1>>
MCUnitSize == <<1, 1, 1, 1>>
=============================================================================
