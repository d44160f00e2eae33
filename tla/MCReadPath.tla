----------------------------- MODULE MCReadPath -----------------------------
(***************************************************************************)
(* Histories in which keys are overwritten, deleted and written again, and *)
(* layouts with everything in a level, everything newer, and the entries   *)
(* of one key in four places.  K1 is a prefix of K2, and there is a        *)
(* shorter key between K2 and K3.                                          *)
(***************************************************************************)
EXTENDS ReadPath

K1 == <<1>>
K2 == <<1, 2>>
K3 == <<3>>
MCTargets == {K1, K2, K3}
Put(k) == [key |-> k, type |-> kTypeValue]
Delete(k) == [key |-> k, type |-> kTypeDeletion]
MCHistories == <<
    <<Put(K1), Put(K2), Put(K3), Put(K2), Delete(K2)>>,
    <<Put(K2), Put(K1), Delete(K1), Put(K2), Put(K1)>>,
    <<Put(K3), Delete(K2), Put(K1), Delete(K3), Put(K3)>>,
    <<Put(K2), Put(K2), Put(K2), Delete(K2), Put(K2)>>,
    <<Put(K1), Put(K3), Put(K2), Delete(K1), Delete(K3)>> >>
MCLayouts == << <<3, 4, 4>>, <<2, 3, 4>>, <<5, 5, 5>>, <<0, 4, 4>>, <<0, 5, 5>> >>
MCSnapshots == {3, 5}
MCLater == {Put(K2), Delete(K1)}
=============================================================================
