-------------------------- MODULE MCWatchedOutbox --------------------------
EXTENDS WatchedOutbox, TLC

CONSTANTS n1, n2
TwoNodes == {n1, n2}
OneBackOff == <<1>>
=============================================================================
