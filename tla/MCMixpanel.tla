----------------------------- MODULE MCMixpanel -----------------------------
(***************************************************************************)
(* Small instances of Mixpanel: two threads, one dictionary to share.  The *)
(* people and group methods take the path of track().                      *)
(***************************************************************************)
EXTENDS Mixpanel

CONSTANTS t1, t2

MCAmount == [t \in {t1, t2} |-> IF t = t1 THEN 5 ELSE 7]

MCMethods == {"track", "alias", "people_track_charge"}

MCConfigured == {{"remote"}, {"local", "remote"}}
=============================================================================
