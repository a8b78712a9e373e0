----------------------------- MODULE MCMonitor -----------------------------
(* Instances of Monitor for TLC: the threads are interchangeable. *)
EXTENDS Monitor, TLC

CONSTANTS t1, t2, t3

TwoThreads == {t1, t2}
ThreeThreads == {t1, t2, t3}
OneHash == {1}
TwoHashes == {1, 2}
Waits == {"wait", "notify", "notifyAll"}
Exits == {"exit"}
AllOwned == {}
Symmetric == Permutations(Thread)
=============================================================================
