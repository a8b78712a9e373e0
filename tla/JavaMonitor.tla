---------------------------- MODULE JavaMonitor ----------------------------
(***************************************************************************)
(* What the lock of an object promises to Java code, whatever its          *)
(* representation: a re-entrant lock with one owner, a wait set whose       *)
(* members get back the recursion count they gave up, and an identity hash *)
(* that is chosen once.  Monitor implements it with lock words that are     *)
(* thin, fat or hash codes (runtime/monitor.cc, runtime/lock_word.h).       *)
(***************************************************************************)
EXTENDS Integers

CONSTANTS Thread, NoThread, Hash

NotWaiting == -1

VARIABLES owner,     \* the thread that holds the lock, or NoThread
          count,     \* how often it re-entered it
          given_up,  \* of a thread in wait(): the count it will get back
          hash       \* the identity hash code, 0 before it is chosen

vars == <<owner, count, given_up, hash>>

Init ==
  /\ owner = NoThread
  /\ count = 0
  /\ given_up = [t \in Thread |-> NotWaiting]
  /\ hash = 0

(* Only a thread that is not in wait() enters; a second entry is counted. *)
Enter(t) ==
  /\ given_up[t] = NotWaiting
  /\ \/ owner = NoThread /\ owner' = t /\ count' = 0
     \/ owner = t /\ owner' = t /\ count' = count + 1
  /\ UNCHANGED <<given_up, hash>>

Exit(t) ==
  /\ owner = t
  /\ IF count = 0 THEN owner' = NoThread /\ count' = 0
                  ELSE owner' = t /\ count' = count - 1
  /\ UNCHANGED <<given_up, hash>>

(* wait() gives the lock up entirely, and its return takes it back as it was. *)
Wait(t) ==
  /\ owner = t
  /\ owner' = NoThread
  /\ count' = 0
  /\ given_up' = [given_up EXCEPT ![t] = count]
  /\ UNCHANGED hash

WaitReturns(t) ==
  /\ given_up[t] # NotWaiting
  /\ owner = NoThread
  /\ owner' = t
  /\ count' = given_up[t]
  /\ given_up' = [given_up EXCEPT ![t] = NotWaiting]
  /\ UNCHANGED hash

ChooseHash(h) ==
  /\ hash = 0
  /\ hash' = h
  /\ UNCHANGED <<owner, count, given_up>>

Next ==
  \/ \E t \in Thread : Enter(t) \/ Exit(t) \/ Wait(t) \/ WaitReturns(t)
  \/ \E h \in Hash : ChooseHash(h)

Spec == Init /\ [][Next]_vars
=============================================================================
