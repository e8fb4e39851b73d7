----------------------------- MODULE MCJobQueue -----------------------------
(* Small instances of JobQueue for TLC. *)
EXTENDS JobQueue, TLC

CONSTANTS j1, j2, w1, w2, s1, s2

OneJob == {j1}
TwoJobs == {j1, j2}
TwoWorkers == {w1, w2}
OneSlot == {s1}
TwoSlots == {s1, s2}

TwoAttempts == [j \in Jobs |-> 2]
FlatPriority == [j \in Jobs |-> 1]
UnevenAttempts == [j \in Jobs |-> IF j = j1 THEN 2 ELSE 1]
UnevenPriority == [j \in Jobs |-> IF j = j1 THEN 1 ELSE 2]
PartlyRegistered == [w \in Workers |-> IF w = w1 THEN {j1} ELSE Jobs]
AllRegistered == [w \in Workers |-> Jobs]
ShortLadder == <<1, 2>>
DelayChoices == {0, 1}
NoDelay == {0}
=============================================================================
