----------------------------- MODULE MCGateway -----------------------------
(* Model values for Gateway. *)
EXTENDS Gateway, TLC

CONSTANTS t1, t2, t3, t4, w1, w2

TwoTasks == {t1, t2}
FourTasks == {t1, t2, t3, t4}
OnlyMain == {Main}
OneWorker == {w1}
TwoWorkers == {w1, w2}
NoneUnencodable == {}
OneUnencodable == {t1}

\* Tasks are interchangeable unless the codec tells them apart.
GatewaySymmetry ==
    Permutations(Tasks \ Unencodable) \cup Permutations(Workers)
=============================================================================
