------------------------------ MODULE MCStorage ------------------------------
(* The self-test's file, and another, beside the update metadata.           *)
EXTENDS PersistentStorage, TLC

CONSTANTS selftest, conf, d1, d2, v1, v2

OneFile == {selftest}
TwoFiles == {selftest, conf}
OneValue == {d1}
TwoValues == {d1, d2}
UpTo5Or6 == (TRUE :> 5) @@ (FALSE :> 6)
UpTo5 == [cached \in BOOLEAN |-> 5]
UpTo8 == [cached \in BOOLEAN |-> 8]
BothModes == BOOLEAN
WithCache == {TRUE}
WithoutCache == {FALSE}
OneVersion == {v1}
TwoVersions == {v1, v2}
=============================================================================
