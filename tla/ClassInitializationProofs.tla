---------------------- MODULE ClassInitializationProofs ----------------------
(***************************************************************************)
(* ClassInitialization for every set of threads and classes, every         *)
(* hierarchy and whatever classes the static initializers need.            *)
(*                                                                         *)
(* A thread holds a stack of calls, since superclasses are initialized     *)
(* first and a static initializer uses other classes.  The invariant says  *)
(* what a call, wherever it is in whichever thread's stack, may rely on.   *)
(* A step changes one thread's innermost call, so the lemmas first say how *)
(* each kind of step (going on, making a call, returning) leaves the other *)
(* calls alone, then what it does to each part of the invariant, and the   *)
(* lemma of an action says which kind it is.                               *)
(***************************************************************************)
EXTENDS ClassInitialization, TLAPS

----------------------------------------------------------------------------
(* Stacks of calls: sequences whose first element is the innermost call *)

LEMMA NoCalls ==
    ASSUME NEW S, NEW q \in Seq(S)
    PROVE  Len(q) \in Nat /\ (q = <<>> <=> Len(q) = 0)
  OBVIOUS

\* The depth of the call at an index of the stack.
LEMMA DepthOfCall ==
    ASSUME NEW S, NEW q \in Seq(S), NEW i \in DOMAIN q
    PROVE  \E k \in Nat : k \in 1 .. Len(q) /\ Len(q) + 1 - k = i
  <1>1. Len(q) + 1 - i \in Nat /\ Len(q) + 1 - i \in 1 .. Len(q) /\ Len(q) + 1 - (Len(q) + 1 - i) = i
    OBVIOUS
  <1> QED  BY <1>1, Zenon

LEMMA IndexOfCall ==
    ASSUME NEW l \in Nat, NEW k \in 1 .. l
    PROVE  l # 0
  OBVIOUS

LEMMA Predecessor ==
    ASSUME NEW n \in Nat, n >= 1 \/ n \in 1 .. n
    PROVE  \E m \in Nat : m + 1 = n
  <1>1. n - 1 \in Nat /\ (n - 1) + 1 = n
    OBVIOUS
  <1> QED  BY <1>1, Zenon

LEMMA TopOfStack ==
    ASSUME NEW S, NEW q \in Seq(S), q # <<>>
    PROVE  Head(q) = q[1] /\ q[1] \in S /\ Len(q) \in Nat /\ Len(q) >= 1
  OBVIOUS

\* A stack whose innermost call is another one.
LEMMA Replaced ==
    ASSUME NEW S, NEW q \in Seq(S), q # <<>>, NEW f \in S
    PROVE  /\ [q EXCEPT ![1] = f] \in Seq(S)
           /\ Len([q EXCEPT ![1] = f]) = Len(q)
           /\ [q EXCEPT ![1] = f][1] = f
           /\ \A i \in 2 .. Len(q) : [q EXCEPT ![1] = f][i] = q[i]
  OBVIOUS

\* A stack whose innermost call has returned.
LEMMA Popped ==
    ASSUME NEW S, NEW q \in Seq(S), q # <<>>
    PROVE  /\ Tail(q) \in Seq(S)
           /\ Len(Tail(q)) = Len(q) - 1
           /\ \A i \in 1 .. Len(q) - 1 : Tail(q)[i] = q[i + 1]
  OBVIOUS

\* A stack whose innermost call, now f, has called e.
LEMMA Pushed ==
    ASSUME NEW S, NEW q \in Seq(S), q # <<>>, NEW e \in S, NEW f \in S
    PROVE  /\ <<e, f>> \o Tail(q) \in Seq(S)
           /\ Len(<<e, f>> \o Tail(q)) = Len(q) + 1
           /\ (<<e, f>> \o Tail(q))[1] = e
           /\ (<<e, f>> \o Tail(q))[2] = f
           /\ \A i \in 3 .. Len(q) + 1 : (<<e, f>> \o Tail(q))[i] = q[i - 1]
  OBVIOUS

----------------------------------------------------------------------------
(* Class initialization *)

Pc == {"begin", "lock", "verified", "wait", "woken", "super", "superDone",
       "clinit", "used", "done", "failed", "body"}

\* The call is not yet in its class's <clinit>.
Early == Pc \ {"clinit", "used", "done", "failed"}

ClassFrame ==
    {f \in [op : {"init", "verify"}, class : Class, used : SUBSET Class, pc : Pc] :
        /\ f.pc \in Early => f.used = {}
        /\ f.op = "verify" /\ f.pc = "superDone" => Super[f.class] # None}

ClassTypes ==
    /\ status \in [Class -> {"Resolved", "Verifying", "Verified", "Initializing",
                             "Initialized", "Error"}]
    /\ clinit_thread \in [Class -> Initializer \cup {NoThread}]
    /\ lock \in [Class -> Initializer \cup {NoThread}]
    /\ uses \in [Class -> SUBSET Class]
    /\ stack \in [Initializer -> Seq(ClassFrame)]
    /\ success \in [Initializer -> BOOLEAN]
    /\ aborted \in BOOLEAN
    /\ clinit_runs \in [Class -> {0, 1}]

\* The k-th call of t, counted from the outermost.
At(stacks, t, k) == stacks[t][Len(stacks[t]) + 1 - k]

\* The call initializes its class; it has not run <clinit> yet; it verifies its
\* class; it holds the lock of c.
InClinit(f) ==
    f.op = "init" /\ f.pc \in {"super", "superDone", "clinit", "used", "done", "failed"}
NotRun(f) == f.op = "init" /\ f.pc \in {"super", "superDone"}
Verifying(f) == f.op = "verify" /\ f.pc \in {"super", "superDone", "body"}
HoldsLock(f, c) ==
    \/ f.op = "init" /\ f.pc = "verified" /\ f.class = c
    \/ f.op = "verify" /\ f.pc = "superDone" /\ Super[f.class] = c

\* The same of the k-th call of t and the class c.
Clinit(t, k, c) ==
    k \in 1 .. Len(stack[t]) /\ InClinit(At(stack, t, k)) /\ At(stack, t, k).class = c
Unrun(t, k, c) ==
    k \in 1 .. Len(stack[t]) /\ NotRun(At(stack, t, k)) /\ At(stack, t, k).class = c
Verifies(t, k, c) ==
    k \in 1 .. Len(stack[t]) /\ Verifying(At(stack, t, k)) /\ At(stack, t, k).class = c
Holds(t, k, c) == k \in 1 .. Len(stack[t]) /\ HoldsLock(At(stack, t, k), c)

ClinitInv ==
    /\ \A t \in Initializer, k \in Nat, c \in Class :
          Clinit(t, k, c) => status[c] = "Initializing" /\ clinit_thread[c] = t
    /\ \A t \in Initializer, j, k \in Nat, c \in Class :
          Clinit(t, j, c) /\ Clinit(t, k, c) => j = k
    /\ \A c \in Class : status[c] = "Initializing" =>
          \E t \in Initializer, k \in Nat : Clinit(t, k, c)

RunInv ==
    /\ \A c \in Class : status[c] \in {"Resolved", "Verifying", "Verified"} => clinit_runs[c] = 0
    /\ \A t \in Initializer, k \in Nat, c \in Class : Unrun(t, k, c) => clinit_runs[c] = 0

LockInv ==
    /\ \A t \in Initializer, k \in Nat, c \in Class : Holds(t, k, c) => lock[c] = t
    /\ \A t \in Initializer, j, k \in Nat, c \in Class :
          Holds(t, j, c) /\ Holds(t, k, c) => j = k

VerifyInv ==
    /\ \A t \in Initializer, k \in Nat, c \in Class :
          Verifies(t, k, c) => status[c] = "Verifying"
    /\ \A c \in Class : status[c] = "Verifying" =>
          \E t \in Initializer, k \in Nat : Verifies(t, k, c)

Calls(f, e) ==
    \/ f.op = "init" /\ f.pc = "verified" /\ e.op = "verify" /\ e.class = f.class
    \/ f.op = "init" /\ f.pc = "superDone" /\ e.op = "init" /\ e.class = Super[f.class]
    \/ f.op = "init" /\ f.pc = "used" /\ e.op = "init" 
    \/ f.op = "verify" /\ f.pc = "superDone" /\ e.op = "verify" /\ e.class = Super[f.class]

CallInv ==
    \A t \in Initializer :
        /\ stack[t] # <<>> => At(stack, t, 1).op = "init"
        /\ \A k \in 1 .. Len(stack[t]) - 1 : Calls(At(stack, t, k), At(stack, t, k + 1))

\* c is initialized, or one of the k outermost calls of t is initializing it.
ReadyAt(t, k, c) ==
    \/ status[c] = "Initialized"
    \/ \E j \in Nat : j <= k /\ Clinit(t, j, c)

ReadyClasses(t, k) == {c \in Class : ReadyAt(t, k, c)}

\* The class of the next call.
NextClass(t, k) == {c \in Class : k < Len(stack[t]) /\ At(stack, t, k + 1).class = c}

\* Where a static initializer has gone on, the classes it needed are in R, the
\* ready ones.  A class that it needs now, or its superclass, is in N, those of
\* the next call; or it is not ready because that has returned and failed.
Prepared(f, R, N, returned, ok) ==
    f.op = "init" =>
        /\ f.pc \in {"clinit", "used"} /\ Super[f.class] # None => Super[f.class] \in R
        /\ f.pc = "clinit" => f.used \subseteq R
        /\ f.pc = "used" => f.used \subseteq R \cup N \/ (returned /\ ~ok)
        /\ f.pc = "superDone" =>
              /\ Super[f.class] # None
              /\ returned /\ ok => Super[f.class] \in R

ReadyCall(t, k) ==
    Prepared(At(stack, t, k), ReadyClasses(t, k), NextClass(t, k), k = Len(stack[t]), success[t])

ReadyInv == \A t \in Initializer, k \in Nat : k \in 1 .. Len(stack[t]) => ReadyCall(t, k)

\* What the CHECKs rest on: the statuses that a call which waits for its class,
\* holds its lock or depends on its superclass can find.
CheckCall(t, k) ==
    LET f == At(stack, t, k) IN
    /\ f.op = "init" /\ f.pc = "superDone" /\ k = Len(stack[t]) /\ ~success[t] =>
          Super[f.class] \in Class /\ status[Super[f.class]] = "Error"
    /\ f.op = "init" /\ f.pc = "verified" =>
          status[f.class] # "Initialized" /\ (k = Len(stack[t]) => status[f.class] # "Resolved")
    /\ f.pc \in {"wait", "woken"} =>
          status[f.class] \in {"Initializing", "Initialized", "Error"}
    /\ f.op = "verify" /\ f.pc = "body" /\ Super[f.class] # None => IsVerified(Super[f.class])

CheckInv == \A t \in Initializer, k \in Nat : k \in 1 .. Len(stack[t]) => CheckCall(t, k)

ClassInv ==
    /\ ClassTypes /\ ClinitInv /\ RunInv /\ LockInv /\ VerifyInv /\ CallInv /\ ReadyInv
    /\ ~RacingFailures => CheckInv /\ ~aborted

\* The calls f and g are the same, but that a wait may be over.
Keeps(f, g) ==
    /\ g.op = f.op /\ g.class = f.class /\ g.used = f.used
    /\ g.pc = f.pc \/ (f.pc = "wait" /\ g.pc = "woken")

\* What a step of t leaves alone in stacks: all calls but t's innermost one.
Rest(stacks, t) ==
    /\ stacks \in [Initializer -> Seq(ClassFrame)]
    /\ \A u \in Initializer \ {t} : Len(stacks[u]) = Len(stack[u])
    /\ \A u \in Initializer : \A k \in 1 .. Len(stack[u]) :
          u # t \/ k < Len(stack[t]) => Keeps(At(stack, u, k), At(stacks, u, k))

\* t's innermost call becomes g; it becomes g and calls e; it returns; t, in no
\* call, calls e.
Goes(stacks, t, g) ==
    /\ Rest(stacks, t)
    /\ stack[t] # <<>> /\ Len(stacks[t]) = Len(stack[t])
    /\ At(stacks, t, Len(stack[t])) = g
Called(stacks, t, g, e) ==
    /\ Rest(stacks, t)
    /\ stack[t] # <<>> /\ Len(stacks[t]) = Len(stack[t]) + 1
    /\ At(stacks, t, Len(stack[t])) = g /\ At(stacks, t, Len(stack[t]) + 1) = e
Returns(stacks, t) ==
    /\ Rest(stacks, t)
    /\ stack[t] # <<>> /\ Len(stacks[t]) = Len(stack[t]) - 1
Enters(stacks, t, e) ==
    /\ Rest(stacks, t)
    /\ stack[t] = <<>> /\ Len(stacks[t]) = 1
    /\ At(stacks, t, 1) = e

LEMMA TopIsAt ==
    ASSUME ClassTypes, NEW t \in Initializer, stack[t] # <<>>
    PROVE  /\ Top(t) = At(stack, t, Len(stack[t])) /\ Top(t) = stack[t][1]
           /\ Top(t) \in ClassFrame
           /\ stack[t] \in Seq(ClassFrame)
           /\ Len(stack[t]) \in Nat /\ Len(stack[t]) >= 1
  <1>1. stack[t] \in Seq(ClassFrame)
    BY DEF ClassTypes
  <1>2. Head(stack[t]) = stack[t][1] /\ stack[t][1] \in ClassFrame
        /\ Len(stack[t]) \in Nat /\ Len(stack[t]) >= 1
    BY <1>1, TopOfStack
  <1>3. Len(stack[t]) + 1 - Len(stack[t]) = 1
    BY <1>2
  <1>4. At(stack, t, Len(stack[t])) = stack[t][1]
    BY <1>3, Zenon DEF At
  <1> QED  BY <1>1, <1>2, <1>4, Zenon DEF Top

LEMMA KeepsItself == \A f : Keeps(f, f)
  BY DEF Keeps

LEMMA GoToGoes ==
    ASSUME ClassTypes, NEW t \in Initializer, stack[t] # <<>>,
           NEW pc, [Top(t) EXCEPT !.pc = pc] \in ClassFrame
    PROVE  Goes(GoTo(t, pc), t, [Top(t) EXCEPT !.pc = pc])
  <1> DEFINE s == stack[t]
             g == [s[1] EXCEPT !.pc = pc]
             q == [s EXCEPT ![1] = g]
             T == GoTo(t, pc)
  <1>1. Top(t) = s[1] /\ s \in Seq(ClassFrame) /\ s # <<>> /\ Len(s) \in Nat /\ Len(s) >= 1
    BY TopIsAt
  <1>2. g \in ClassFrame
    BY <1>1
  <1>3. T = [stack EXCEPT ![t] = q]
    BY DEF GoTo
  <1> HIDE DEF g, T
  <1>4. q \in Seq(ClassFrame) /\ Len(q) = Len(s) /\ q[1] = g
        /\ \A i \in 2 .. Len(s) : q[i] = s[i]
    <2> HIDE DEF s
    <2> QED  BY <1>1, <1>2, Replaced
  <1> HIDE DEF q
  <1>5. T[t] = q /\ \A u \in Initializer \ {t} : T[u] = stack[u]
    BY <1>3 DEF ClassTypes
  <1>6. T \in [Initializer -> Seq(ClassFrame)]
    BY <1>3, <1>4 DEF ClassTypes
  <1>7. At(T, t, Len(s)) = g
    <2>1. Len(q) + 1 - Len(s) = 1
      BY <1>1, <1>4
    <2> QED  BY <1>4, <1>5, <2>1, Zenon DEF At
  <1>8. \A u \in Initializer \ {t} : \A k : At(T, u, k) = At(stack, u, k)
    BY <1>5 DEF At
  <1>9. ASSUME NEW k \in 1 .. Len(s), k < Len(s)
        PROVE  At(T, t, k) = At(stack, t, k)
    <2>1. Len(s) + 1 - k \in 2 .. Len(s)
      BY <1>1, <1>9
    <2> QED  BY <1>4, <1>5, <2>1, Zenon DEF At
  <1>10. Rest(T, t)
    BY <1>5, <1>6, <1>8, <1>9, KeepsItself DEF Rest
  <1> QED
    BY <1>1, <1>4, <1>5, <1>7, <1>10 DEF Goes, T, g

LEMMA ReturnReturns ==
    ASSUME ClassTypes, NEW t \in Initializer, stack[t] # <<>>
    PROVE  Returns(ReturnFromClass(t), t)
  <1> DEFINE s == stack[t]
             q == Tail(s)
             T == ReturnFromClass(t)
  <1>1. s \in Seq(ClassFrame) /\ s # <<>> /\ Len(s) \in Nat /\ Len(s) >= 1
    BY TopIsAt
  <1>3. T = [stack EXCEPT ![t] = q]
    BY DEF ReturnFromClass
  <1> HIDE DEF T
  <1>4. q \in Seq(ClassFrame) /\ Len(q) = Len(s) - 1
        /\ \A i \in 1 .. Len(s) - 1 : q[i] = s[i + 1]
    <2> HIDE DEF s
    <2> QED  BY <1>1, Popped
  <1> HIDE DEF q
  <1>5. T[t] = q /\ \A u \in Initializer \ {t} : T[u] = stack[u]
    BY <1>3 DEF ClassTypes
  <1>6. T \in [Initializer -> Seq(ClassFrame)]
    BY <1>3, <1>4 DEF ClassTypes
  <1>8. \A u \in Initializer \ {t} : \A k : At(T, u, k) = At(stack, u, k)
    BY <1>5 DEF At
  <1>9. ASSUME NEW k \in 1 .. Len(s), k < Len(s)
        PROVE  At(T, t, k) = At(stack, t, k)
    <2>1. Len(q) + 1 - k \in 1 .. Len(s) - 1 /\ Len(q) + 1 - k + 1 = Len(s) + 1 - k
      BY <1>1, <1>4, <1>9
    <2> QED  BY <1>4, <1>5, <2>1, Zenon DEF At
  <1>10. Rest(T, t)
    BY <1>5, <1>6, <1>8, <1>9, KeepsItself DEF Rest
  <1> QED
    BY <1>1, <1>4, <1>5, <1>10 DEF Returns, T

\* The stacks once t's innermost call has become g and has called e.
LEMMA PushCalls ==
    ASSUME ClassTypes, NEW t \in Initializer, stack[t] # <<>>,
           NEW g \in ClassFrame, NEW e \in ClassFrame
    PROVE  Called([stack EXCEPT ![t] = <<e, g>> \o Tail(@)], t, g, e)
  <1> DEFINE s == stack[t]
             q == <<e, g>> \o Tail(s)
             T == [stack EXCEPT ![t] = <<e, g>> \o Tail(@)]
  <1>1. s \in Seq(ClassFrame) /\ s # <<>> /\ Len(s) \in Nat /\ Len(s) >= 1
    BY TopIsAt
  <1>3. T = [stack EXCEPT ![t] = q]
    OBVIOUS
  <1> HIDE DEF T
  <1>4. q \in Seq(ClassFrame) /\ Len(q) = Len(s) + 1 /\ q[1] = e /\ q[2] = g
        /\ \A i \in 3 .. Len(s) + 1 : q[i] = s[i - 1]
    <2> HIDE DEF s
    <2> QED  BY <1>1, Pushed
  <1> HIDE DEF q
  <1>5. T[t] = q /\ \A u \in Initializer \ {t} : T[u] = stack[u]
    BY <1>3 DEF ClassTypes
  <1>6. T \in [Initializer -> Seq(ClassFrame)]
    BY <1>3, <1>4 DEF ClassTypes
  <1>7. At(T, t, Len(s)) = g /\ At(T, t, Len(s) + 1) = e
    <2>1. Len(q) + 1 - Len(s) = 2 /\ Len(q) + 1 - (Len(s) + 1) = 1
      BY <1>1, <1>4
    <2> QED  BY <1>4, <1>5, <2>1, Zenon DEF At
  <1>8. \A u \in Initializer \ {t} : \A k : At(T, u, k) = At(stack, u, k)
    BY <1>5 DEF At
  <1>9. ASSUME NEW k \in 1 .. Len(s), k < Len(s)
        PROVE  At(T, t, k) = At(stack, t, k)
    <2> DEFINE i == Len(q) + 1 - k
    <2>1. Len(q) = Len(s) + 1
      BY <1>4
    <2>2. i \in 3 .. Len(s) + 1 /\ i - 1 = Len(s) + 1 - k
      BY <1>1, <1>9, <2>1
    <2>3. q[i] = s[i - 1]
      BY <1>4, <2>2, Zenon
    <2> QED  BY <1>5, <2>2, <2>3, Zenon DEF At
  <1>10. Rest(T, t)
    BY <1>5, <1>6, <1>8, <1>9, KeepsItself DEF Rest
  <1> QED
    BY <1>1, <1>4, <1>5, <1>7, <1>10 DEF Called, T

LEMMA CallFromCalls ==
    ASSUME ClassTypes, NEW t \in Initializer, stack[t] # <<>>,
           NEW pc, [Top(t) EXCEPT !.pc = pc] \in ClassFrame,
           NEW op \in {"init", "verify"}, NEW c \in Class
    PROVE  Called(CallFrom(t, pc, op, c), t, [Top(t) EXCEPT !.pc = pc], CallClass(op, c))
  <1>1. CallClass(op, c) \in ClassFrame
    BY DEF CallClass, ClassFrame, Pc, Early
  <1>2. Top(t) = stack[t][1]
    BY TopIsAt
  <1>3. CallFrom(t, pc, op, c) =
           [stack EXCEPT ![t] = <<CallClass(op, c), [Top(t) EXCEPT !.pc = pc]>> \o Tail(@)]
    BY <1>2, Zenon DEF CallFrom
  <1>4. Called([stack EXCEPT ![t] = <<CallClass(op, c), [Top(t) EXCEPT !.pc = pc]>> \o Tail(@)],
               t, [Top(t) EXCEPT !.pc = pc], CallClass(op, c))
    BY <1>1, PushCalls, Zenon
  <1> QED  BY <1>3, <1>4, Zenon

\* EnsureInitialized is t's outermost call.
LEMMA FirstCallEnters ==
    ASSUME ClassTypes, NEW t \in Initializer, stack[t] = <<>>, NEW e \in ClassFrame
    PROVE  Enters([stack EXCEPT ![t] = <<e>>], t, e)
  <1> DEFINE T == [stack EXCEPT ![t] = <<e>>]
  <1>1. <<e>> \in Seq(ClassFrame) /\ Len(<<e>>) = 1 /\ <<e>>[1] = e
    OBVIOUS
  <1>2. T[t] = <<e>> /\ \A u \in Initializer \ {t} : T[u] = stack[u]
    BY DEF ClassTypes
  <1>3. T \in [Initializer -> Seq(ClassFrame)]
    BY <1>1 DEF ClassTypes
  <1> HIDE DEF T
  <1>4. At(T, t, 1) = e
    <2>1. Len(<<e>>) + 1 - 1 = 1
      BY <1>1
    <2> QED  BY <1>1, <1>2, <2>1, Zenon DEF At
  <1>5. \A u \in Initializer \ {t} : \A k : At(T, u, k) = At(stack, u, k)
    BY <1>2 DEF At
  <1>6. Len(stack[t]) = 0
    OBVIOUS
  <1>7. Rest(T, t)
    BY <1>2, <1>3, <1>5, <1>6, KeepsItself DEF Rest
  <1> QED
    BY <1>1, <1>2, <1>4, <1>7 DEF Enters, T

LEMMA NotifyKeeps ==
    ASSUME NEW T \in [Initializer -> Seq(ClassFrame)], NEW c \in Class
    PROVE  /\ Notify(T, c) \in [Initializer -> Seq(ClassFrame)]
           /\ \A u \in Initializer :
                /\ Len(Notify(T, c)[u]) = Len(T[u])
                /\ \A k \in 1 .. Len(T[u]) :
                      /\ Keeps(At(T, u, k), At(Notify(T, c), u, k))
                      /\ At(T, u, k).pc # "wait" => At(Notify(T, c), u, k) = At(T, u, k)
  <1> DEFINE N == Notify(T, c)
  <1>1. ASSUME NEW u \in Initializer
        PROVE  /\ N[u] \in Seq(ClassFrame) /\ Len(N[u]) = Len(T[u])
               /\ \A k \in 1 .. Len(T[u]) :
                      /\ Keeps(At(T, u, k), At(N, u, k))
                      /\ At(T, u, k).pc # "wait" => At(N, u, k) = At(T, u, k)
    <2> DEFINE s == T[u]
               g == [s[1] EXCEPT !.pc = "woken"]
               q == [s EXCEPT ![1] = g]
    <2>1. s \in Seq(ClassFrame)
      OBVIOUS
    <2>2. CASE s # <<>> /\ Head(s).class = c /\ Head(s).pc = "wait"
      <3>1. N[u] = q
        BY <2>2 DEF Notify
      <3>2. Head(s) = s[1] /\ s[1] \in ClassFrame /\ Len(s) \in Nat /\ Len(s) >= 1
        BY <2>1, <2>2, TopOfStack
      <3>3. g \in ClassFrame /\ Keeps(s[1], g) /\ s[1].pc = "wait"
        BY <2>2, <3>2 DEF ClassFrame, Keeps, Pc, Early
      <3> HIDE DEF g
      <3>4. q \in Seq(ClassFrame) /\ Len(q) = Len(s) /\ q[1] = g
            /\ \A i \in 2 .. Len(s) : q[i] = s[i]
        <4> HIDE DEF s
        <4> QED  BY <2>1, <2>2, <3>3, Replaced
      <3> HIDE DEF q, s, N
      <3>5. ASSUME NEW k \in 1 .. Len(s)
            PROVE  /\ Keeps(At(T, u, k), At(N, u, k))
                   /\ At(T, u, k).pc # "wait" => At(N, u, k) = At(T, u, k)
        <4>1. At(T, u, k) = s[Len(s) + 1 - k] /\ At(N, u, k) = q[Len(s) + 1 - k]
          BY <3>1, <3>4, Zenon DEF At, s
        <4>2. Len(s) + 1 - k = 1 \/ Len(s) + 1 - k \in 2 .. Len(s)
          BY <3>2
        <4> QED  BY <3>3, <3>4, <4>1, <4>2, KeepsItself, Zenon
      <3> QED  BY <3>1, <3>4, <3>5, Zenon DEF s
    <2>3. CASE ~(s # <<>> /\ Head(s).class = c /\ Head(s).pc = "wait")
      <3>1. N[u] = s
        BY <2>3 DEF Notify
      <3>2. \A k : At(N, u, k) = At(T, u, k)
        BY <3>1, Zenon DEF At
      <3> QED  BY <2>1, <3>1, <3>2, KeepsItself
    <2> QED  BY <2>2, <2>3
  <1>2. N = [u \in Initializer |-> N[u]]
    BY DEF Notify
  <1> HIDE DEF N
  <1>3. N \in [Initializer -> Seq(ClassFrame)]
    BY <1>1, <1>2
  <1> QED  BY <1>1, <1>3 DEF N

LEMMA KeepsTwice == \A f, g, h : Keeps(f, g) /\ Keeps(g, h) => Keeps(f, h)
  BY DEF Keeps

LEMMA NotifyRest ==
    ASSUME ClassTypes, NEW t \in Initializer, NEW T, Rest(T, t), NEW c \in Class,
           Len(T[t]) \in Nat, Len(T[t]) + 1 >= Len(stack[t])
    PROVE  Rest(Notify(T, c), t)
  <1> DEFINE N == Notify(T, c)
  <1>1. T \in [Initializer -> Seq(ClassFrame)]
    BY DEF Rest
  <1>2. /\ N \in [Initializer -> Seq(ClassFrame)]
        /\ \A u \in Initializer :
                /\ Len(N[u]) = Len(T[u])
                /\ \A k \in 1 .. Len(T[u]) : Keeps(At(T, u, k), At(N, u, k))
    BY <1>1, NotifyKeeps
  <1> HIDE DEF N
  <1>3. ASSUME NEW u \in Initializer, NEW k \in 1 .. Len(stack[u]),
               u # t \/ k < Len(stack[t])
        PROVE  Keeps(At(stack, u, k), At(N, u, k))
    <2>1. Len(stack[t]) \in Nat
      BY DEF ClassTypes
    <2>2. k \in 1 .. Len(T[u])
      BY <1>3, <2>1 DEF Rest
    <2>3. Keeps(At(stack, u, k), At(T, u, k))
      BY <1>3 DEF Rest
    <2> QED  BY <1>2, <2>2, <2>3, KeepsTwice, Zenon
  <1>4. \A u \in Initializer \ {t} : Len(N[u]) = Len(stack[u])
    BY <1>2 DEF Rest
  <1> QED  BY <1>2, <1>3, <1>4, Zenon DEF Rest, N

LEMMA NotifyReturns ==
    ASSUME ClassTypes, NEW t \in Initializer, NEW T, Returns(T, t), NEW c \in Class
    PROVE  Returns(Notify(T, c), t)
  <1>1. Len(T[t]) \in Nat /\ Len(T[t]) + 1 >= Len(stack[t])
    BY TopIsAt DEF Returns
  <1>2. Rest(Notify(T, c), t)
    BY <1>1, NotifyRest DEF Returns
  <1>3. Len(Notify(T, c)[t]) = Len(T[t])
    BY NotifyKeeps DEF Returns, Rest
  <1> QED  BY <1>2, <1>3 DEF Returns

LEMMA NotifyGoes ==
    ASSUME ClassTypes, NEW t \in Initializer, NEW T, NEW g, g.pc # "wait", Goes(T, t, g),
           NEW c \in Class
    PROVE  Goes(Notify(T, c), t, g)
  <1>1. Len(T[t]) \in Nat /\ Len(T[t]) + 1 >= Len(stack[t]) /\ Len(T[t]) >= 1
    BY TopIsAt DEF Goes
  <1>2. Rest(Notify(T, c), t)
    BY <1>1, NotifyRest DEF Goes
  <1>3. T \in [Initializer -> Seq(ClassFrame)]
    BY DEF Goes, Rest
  <1>4. Len(stack[t]) \in 1 .. Len(T[t])
    BY <1>1 DEF Goes
  <1>5. Len(Notify(T, c)[t]) = Len(T[t])
        /\ At(Notify(T, c), t, Len(stack[t])) = At(T, t, Len(stack[t]))
    BY <1>3, <1>4, NotifyKeeps DEF Goes
  <1> QED  BY <1>2, <1>5 DEF Goes

----------------------------------------------------------------------------
\* Which calls initialize, verify or lock a class is as before but for t's
\* innermost call before the step.
Others(t) ==
    \A u \in Initializer, k \in Nat, c \in Class :
        u # t \/ k # Len(stack[t]) =>
            /\ Clinit(u, k, c)' <=> Clinit(u, k, c)
            /\ Unrun(u, k, c)' <=> Unrun(u, k, c)
            /\ Verifies(u, k, c)' <=> Verifies(u, k, c)
            /\ Holds(u, k, c)' <=> Holds(u, k, c)

\* That call is now g; it is over.
Becomes(t, g) ==
    /\ Others(t)
    /\ \A k \in Nat, c \in Class :
        k = Len(stack[t]) =>
            /\ Clinit(t, k, c)' <=> InClinit(g) /\ g.class = c
            /\ Unrun(t, k, c)' <=> NotRun(g) /\ g.class = c
            /\ Verifies(t, k, c)' <=> Verifying(g) /\ g.class = c
            /\ Holds(t, k, c)' <=> HoldsLock(g, c)
Leaves(t) ==
    /\ Others(t)
    /\ \A k \in Nat, c \in Class :
        k = Len(stack[t]) =>
            ~Clinit(t, k, c)' /\ ~Unrun(t, k, c)' /\ ~Verifies(t, k, c)' /\ ~Holds(t, k, c)'

LEMMA Kept ==
    ASSUME NEW f, NEW g, Keeps(f, g)
    PROVE  /\ g.class = f.class
           /\ InClinit(g) <=> InClinit(f)
           /\ NotRun(g) <=> NotRun(f)
           /\ Verifying(g) <=> Verifying(f)
           /\ \A c : HoldsLock(g, c) <=> HoldsLock(f, c)
  BY DEF Keeps, InClinit, NotRun, Verifying, HoldsLock

LEMMA Untracked ==
    ASSUME NEW f, f.pc \in {"begin", "lock", "wait", "woken"}
    PROVE  ~InClinit(f) /\ ~NotRun(f) /\ ~Verifying(f) /\ \A c : ~HoldsLock(f, c)
  BY DEF InClinit, NotRun, Verifying, HoldsLock

LEMMA RestTracks ==
    ASSUME ClassTypes, NEW t \in Initializer, Rest(stack', t),
           Len(stack'[t]) \in Nat, Len(stack'[t]) + 1 >= Len(stack[t]),
           \A k \in 1 .. Len(stack'[t]) : k > Len(stack[t]) => At(stack', t, k).pc = "begin"
    PROVE  Others(t)
  <1> SUFFICES ASSUME NEW u \in Initializer, NEW k \in Nat, NEW c \in Class,
                      u # t \/ k # Len(stack[t])
               PROVE  /\ Clinit(u, k, c)' <=> Clinit(u, k, c)
                      /\ Unrun(u, k, c)' <=> Unrun(u, k, c)
                      /\ Verifies(u, k, c)' <=> Verifies(u, k, c)
                      /\ Holds(u, k, c)' <=> Holds(u, k, c)
    BY Zenon DEF Others
  <1> DEFINE f == At(stack, u, k)
             g == At(stack', u, k)
  <1>1. Len(stack[u]) \in Nat /\ Len(stack[t]) \in Nat
    BY DEF ClassTypes
  <1>2. CASE k \in 1 .. Len(stack[u])
    <2>1. u # t \/ k < Len(stack[t])
      BY <1>1, <1>2
    <2>2. Keeps(f, g)
      BY <1>2, <2>1 DEF Rest
    <2>3. k \in 1 .. Len(stack'[u])
      BY <1>1, <1>2, <2>1 DEF Rest
    <2> HIDE DEF f, g
    <2>4. /\ g.class = f.class
          /\ InClinit(g) <=> InClinit(f)
          /\ NotRun(g) <=> NotRun(f)
          /\ Verifying(g) <=> Verifying(f)
          /\ \A d : HoldsLock(g, d) <=> HoldsLock(f, d)
      BY <2>2, Kept
    <2> QED
      BY <1>2, <2>3, <2>4, Zenon DEF Clinit, Unrun, Verifies, Holds, f, g
  <1>3. CASE k \notin 1 .. Len(stack[u]) /\ k \in 1 .. Len(stack'[u])
    <2>1. u = t /\ k > Len(stack[t])
      BY <1>1, <1>3 DEF Rest
    <2>2. g.pc = "begin"
      BY <1>3, <2>1
    <2> HIDE DEF g
    <2>3. ~InClinit(g) /\ ~NotRun(g) /\ ~Verifying(g) /\ ~HoldsLock(g, c)
      BY <2>2, Untracked
    <2> QED
      BY <1>3, <2>3, Zenon DEF Clinit, Unrun, Verifies, Holds, g
  <1>4. CASE k \notin 1 .. Len(stack[u]) /\ k \notin 1 .. Len(stack'[u])
    BY <1>4, Zenon DEF Clinit, Unrun, Verifies, Holds
  <1> QED
    BY <1>2, <1>3, <1>4, Zenon

LEMMA ReachedTracks ==
    ASSUME ClassTypes, NEW t \in Initializer, stack[t] # <<>>, NEW g, Others(t),
           Len(stack'[t]) \in Nat, Len(stack'[t]) >= Len(stack[t]),
           At(stack', t, Len(stack[t])) = g
    PROVE  Becomes(t, g)
  <1>1. Len(stack[t]) \in 1 .. Len(stack'[t])
    BY TopIsAt
  <1> QED
    BY <1>1, Zenon DEF Becomes, Clinit, Unrun, Verifies, Holds

LEMMA GoesTracks ==
    ASSUME ClassTypes, NEW t \in Initializer, NEW g, Goes(stack', t, g)
    PROVE  Becomes(t, g)
  <1>1. stack[t] # <<>> /\ Len(stack[t]) \in Nat /\ Len(stack'[t]) = Len(stack[t])
    BY TopIsAt DEF Goes
  <1>2. Others(t)
    BY <1>1, RestTracks DEF Goes
  <1> QED
    BY <1>1, <1>2, ReachedTracks DEF Goes

LEMMA CalledTracks ==
    ASSUME ClassTypes, NEW t \in Initializer, NEW g, NEW e, Called(stack', t, g, e),
           e.pc = "begin"
    PROVE  Becomes(t, g)
  <1>1. stack[t] # <<>> /\ Len(stack[t]) \in Nat /\ Len(stack'[t]) = Len(stack[t]) + 1
    BY TopIsAt DEF Called
  <1>2. \A k \in 1 .. Len(stack'[t]) : k > Len(stack[t]) => k = Len(stack[t]) + 1
    BY <1>1
  <1>3. \A k \in 1 .. Len(stack'[t]) : k > Len(stack[t]) => At(stack', t, k).pc = "begin"
    BY <1>2, Zenon DEF Called
  <1>4. Len(stack'[t]) \in Nat /\ Len(stack'[t]) + 1 >= Len(stack[t])
        /\ Len(stack'[t]) >= Len(stack[t])
    BY <1>1
  <1>5. Others(t)
    BY <1>3, <1>4, RestTracks DEF Called
  <1> QED
    BY <1>1, <1>4, <1>5, ReachedTracks DEF Called

LEMMA ReturnsTracks ==
    ASSUME ClassTypes, NEW t \in Initializer, Returns(stack', t)
    PROVE  Leaves(t)
  <1>1. stack[t] # <<>> /\ Len(stack[t]) \in Nat /\ Len(stack[t]) >= 1
        /\ Len(stack'[t]) = Len(stack[t]) - 1
    BY TopIsAt DEF Returns
  <1>2. Others(t)
    BY <1>1, RestTracks DEF Returns
  <1>3. Len(stack[t]) \notin 1 .. Len(stack'[t])
    BY <1>1
  <1> QED
    BY <1>2, <1>3, Zenon DEF Leaves, Clinit, Unrun, Verifies, Holds

LEMMA EntersTracks ==
    ASSUME ClassTypes, NEW t \in Initializer, NEW e, Enters(stack', t, e), e.pc = "begin"
    PROVE  Leaves(t)
  <1>1. Len(stack[t]) = 0 /\ Len(stack'[t]) = 1
    BY DEF Enters
  <1>2. \A k \in 1 .. Len(stack'[t]) : k = 1
    BY <1>1
  <1>3. \A k \in 1 .. Len(stack'[t]) : k > Len(stack[t]) => At(stack', t, k).pc = "begin"
    BY <1>2, Zenon DEF Enters
  <1>4. Others(t)
    <2>1. Rest(stack', t)
      BY DEF Enters
    <2>2. Len(stack'[t]) \in Nat /\ Len(stack'[t]) + 1 >= Len(stack[t])
      BY <1>1
    <2> QED  BY <1>3, <2>1, <2>2, RestTracks
  <1>5. Len(stack[t]) \notin 1 .. Len(stack'[t])
    BY <1>1
  <1> QED
    BY <1>4, <1>5, Zenon DEF Leaves, Clinit, Unrun, Verifies, Holds

\* What t's innermost call does before the step.
LEMMA TopTracked ==
    ASSUME ClassTypes, NEW t \in Initializer, stack[t] # <<>>, NEW c \in Class
    PROVE  /\ Clinit(t, Len(stack[t]), c) <=> InClinit(Top(t)) /\ Top(t).class = c
           /\ Unrun(t, Len(stack[t]), c) <=> NotRun(Top(t)) /\ Top(t).class = c
           /\ Verifies(t, Len(stack[t]), c) <=> Verifying(Top(t)) /\ Top(t).class = c
           /\ Holds(t, Len(stack[t]), c) <=> HoldsLock(Top(t), c)
  <1>1. Top(t) = At(stack, t, Len(stack[t])) /\ Len(stack[t]) \in 1 .. Len(stack[t])
    BY TopIsAt
  <1> QED
    BY <1>1, Zenon DEF Clinit, Unrun, Verifies, Holds

SameClinits ==
    \A u \in Initializer, k \in Nat, c \in Class : Clinit(u, k, c)' <=> Clinit(u, k, c)
NoMoreUnrun ==
    \A u \in Initializer, k \in Nat, c \in Class : Unrun(u, k, c)' => Unrun(u, k, c)
SameVerifies ==
    \A u \in Initializer, k \in Nat, c \in Class : Verifies(u, k, c)' <=> Verifies(u, k, c)
NoMoreHolds ==
    \A u \in Initializer, k \in Nat, c \in Class : Holds(u, k, c)' => Holds(u, k, c)

LEMMA SameByBecoming ==
    ASSUME ClassTypes, NEW t \in Initializer, stack[t] # <<>>, NEW g, Becomes(t, g),
           g.class = Top(t).class
    PROVE  /\ (InClinit(g) <=> InClinit(Top(t))) => SameClinits
           /\ (NotRun(g) => NotRun(Top(t))) => NoMoreUnrun
           /\ (Verifying(g) <=> Verifying(Top(t))) => SameVerifies
           /\ (\A c \in Class : HoldsLock(g, c) => HoldsLock(Top(t), c)) => NoMoreHolds
  <1>1. Len(stack[t]) \in Nat
    BY TopIsAt
  <1>2. \A c \in Class :
            /\ Clinit(t, Len(stack[t]), c) <=> InClinit(Top(t)) /\ Top(t).class = c
            /\ Unrun(t, Len(stack[t]), c) <=> NotRun(Top(t)) /\ Top(t).class = c
            /\ Verifies(t, Len(stack[t]), c) <=> Verifying(Top(t)) /\ Top(t).class = c
            /\ Holds(t, Len(stack[t]), c) <=> HoldsLock(Top(t), c)
    BY TopTracked
  <1>3. ASSUME NEW u \in Initializer, NEW k \in Nat, NEW c \in Class
        PROVE  /\ (InClinit(g) <=> InClinit(Top(t))) => (Clinit(u, k, c)' <=> Clinit(u, k, c))
               /\ (NotRun(g) => NotRun(Top(t))) => (Unrun(u, k, c)' => Unrun(u, k, c))
               /\ (Verifying(g) <=> Verifying(Top(t))) =>
                     (Verifies(u, k, c)' <=> Verifies(u, k, c))
               /\ (HoldsLock(g, c) => HoldsLock(Top(t), c)) =>
                     (Holds(u, k, c)' => Holds(u, k, c))
    <2>1. CASE u # t \/ k # Len(stack[t])
      BY <2>1, Zenon DEF Becomes, Others
    <2>2. CASE u = t /\ k = Len(stack[t])
      BY <1>2, <2>2, Zenon DEF Becomes
    <2> QED  BY <2>1, <2>2, Zenon
  <1> QED
    BY <1>3, Zenon DEF SameClinits, NoMoreUnrun, SameVerifies, NoMoreHolds

LEMMA SameByLeaving ==
    ASSUME ClassTypes, NEW t \in Initializer, stack[t] # <<>>, Leaves(t)
    PROVE  /\ ~InClinit(Top(t)) => SameClinits
           /\ NoMoreUnrun
           /\ ~Verifying(Top(t)) => SameVerifies
           /\ NoMoreHolds
  <1>2. \A c \in Class :
            /\ Clinit(t, Len(stack[t]), c) <=> InClinit(Top(t)) /\ Top(t).class = c
            /\ Verifies(t, Len(stack[t]), c) <=> Verifying(Top(t)) /\ Top(t).class = c
    BY TopTracked
  <1>3. ASSUME NEW u \in Initializer, NEW k \in Nat, NEW c \in Class
        PROVE  /\ ~InClinit(Top(t)) => (Clinit(u, k, c)' <=> Clinit(u, k, c))
               /\ Unrun(u, k, c)' => Unrun(u, k, c)
               /\ ~Verifying(Top(t)) => (Verifies(u, k, c)' <=> Verifies(u, k, c))
               /\ Holds(u, k, c)' => Holds(u, k, c)
    <2>1. CASE u # t \/ k # Len(stack[t])
      BY <2>1, Zenon DEF Leaves, Others
    <2>2. CASE u = t /\ k = Len(stack[t])
      BY <1>2, <2>2, Zenon DEF Leaves
    <2> QED  BY <2>1, <2>2, Zenon
  <1> QED
    BY <1>3, Zenon DEF SameClinits, NoMoreUnrun, SameVerifies, NoMoreHolds

LEMMA SameByEntering ==
    ASSUME ClassTypes, NEW t \in Initializer, stack[t] = <<>>, Leaves(t)
    PROVE  SameClinits /\ NoMoreUnrun /\ SameVerifies /\ NoMoreHolds
  <1>1. \A k \in Nat : k \notin 1 .. Len(stack[t])
    OBVIOUS
  <1>3. ASSUME NEW u \in Initializer, NEW k \in Nat, NEW c \in Class
        PROVE  /\ Clinit(u, k, c)' <=> Clinit(u, k, c)
               /\ Unrun(u, k, c)' => Unrun(u, k, c)
               /\ Verifies(u, k, c)' <=> Verifies(u, k, c)
               /\ Holds(u, k, c)' => Holds(u, k, c)
    <2>1. CASE u # t \/ k # Len(stack[t])
      BY <2>1, Zenon DEF Leaves, Others
    <2>2. CASE u = t /\ k = Len(stack[t])
      BY <1>1, <2>2, Zenon DEF Leaves, Clinit, Verifies
    <2> QED  BY <2>1, <2>2, Zenon
  <1> QED
    BY <1>3, Zenon DEF SameClinits, NoMoreUnrun, SameVerifies, NoMoreHolds

LEMMA ClinitStays ==
    ASSUME ClinitInv, SameClinits, clinit_thread' = clinit_thread,
           \A c \in Class : status'[c] = "Initializing" <=> status[c] = "Initializing"
    PROVE  ClinitInv'
  <1>1. \A u \in Initializer, k \in Nat, c \in Class :
            Clinit(u, k, c)' => status'[c] = "Initializing" /\ clinit_thread'[c] = u
    BY ZenonT(40) DEF ClinitInv, SameClinits
  <1>2. \A u \in Initializer, j, k \in Nat, c \in Class :
            Clinit(u, j, c)' /\ Clinit(u, k, c)' => j = k
    BY ZenonT(40) DEF ClinitInv, SameClinits
  <1>3. \A c \in Class : status'[c] = "Initializing" =>
            \E u \in Initializer, k \in Nat : Clinit(u, k, c)'
    BY Zenon DEF ClinitInv, SameClinits
  <1> QED
    BY <1>1, <1>2, <1>3, Zenon DEF ClinitInv

LEMMA RunStays ==
    ASSUME RunInv, NoMoreUnrun, clinit_runs' = clinit_runs,
           \A c \in Class : status'[c] \in {"Resolved", "Verifying", "Verified"}
                            => status[c] \in {"Resolved", "Verifying", "Verified"}
    PROVE  RunInv'
  BY Zenon DEF RunInv, NoMoreUnrun

LEMMA LockStays ==
    ASSUME LockInv, NoMoreHolds, lock' = lock
    PROVE  LockInv'
  BY Zenon DEF LockInv, NoMoreHolds

LEMMA VerifyStays ==
    ASSUME VerifyInv, SameVerifies,
           \A c \in Class : status'[c] = "Verifying" <=> status[c] = "Verifying"
    PROVE  VerifyInv'
  BY Zenon DEF VerifyInv, SameVerifies

\* One call at a time holds a lock, and one initializes a class.
LEMMA OneHolder ==
    ASSUME LockInv, NEW t \in Initializer, NEW u \in Initializer, NEW j \in Nat, NEW k \in Nat,
           NEW c \in Class, Holds(t, j, c), Holds(u, k, c)
    PROVE  u = t /\ k = j
  <1>1. u = t
    BY Zenon DEF LockInv
  <1>2. Holds(t, k, c)
    BY <1>1, Zenon
  <1>3. k = j
    BY <1>2, Zenon DEF LockInv
  <1> QED  BY <1>1, <1>3

LEMMA OneClinit ==
    ASSUME ClinitInv, NEW t \in Initializer, NEW u \in Initializer, NEW j \in Nat, NEW k \in Nat,
           NEW c \in Class, Clinit(t, j, c), Clinit(u, k, c)
    PROVE  u = t /\ k = j
  <1>1. u = t
    BY Zenon DEF ClinitInv
  <1>2. Clinit(t, k, c)
    BY <1>1, Zenon
  <1>3. k = j
    BY <1>2, Zenon DEF ClinitInv
  <1> QED  BY <1>1, <1>3

LEMMA LockTaken ==
    ASSUME ClassTypes, LockInv, NEW t \in Initializer, NEW g, Becomes(t, g),
           NEW c \in Class, CanLock(c), Lock(t, c), \A d \in Class : HoldsLock(g, d) => d = c
    PROVE  LockInv'
  <1>1. NoThread \notin Initializer
    BY InitializerAssumption, ThreadAssumption
  <1>2. \A u \in Initializer, k \in Nat : ~Holds(u, k, c)
    BY <1>1, Zenon DEF LockInv, CanLock
  <1>3. lock'[c] = t /\ \A d \in Class : d # c => lock'[d] = lock[d]
    BY DEF Lock, ClassTypes
  <1>4. \A u \in Initializer, k \in Nat, d \in Class : Holds(u, k, d)' =>
            \/ d # c /\ Holds(u, k, d)
            \/ d = c /\ u = t /\ k = Len(stack[t])
    BY <1>2, Zenon DEF Becomes, Others
  <1> QED
    BY <1>3, <1>4, Zenon DEF LockInv

LEMMA LockReleased ==
    ASSUME ClassTypes, LockInv, NEW t \in Initializer, stack[t] # <<>>,
           NEW c \in Class, HoldsLock(Top(t), c), Unlock(c), Others(t),
           \A k \in Nat, d \in Class : k = Len(stack[t]) => ~Holds(t, k, d)'
    PROVE  LockInv'
  <1>1. Holds(t, Len(stack[t]), c) /\ Len(stack[t]) \in Nat
    BY TopTracked, TopIsAt
  <1>2. \A d \in Class : d # c => lock'[d] = lock[d]
    BY DEF Unlock, ClassTypes
  <1>3. ASSUME NEW u \in Initializer, NEW k \in Nat, NEW d \in Class, Holds(u, k, d)'
        PROVE  d # c /\ Holds(u, k, d)
    <2>1. u # t \/ k # Len(stack[t])
      BY <1>3, Zenon
    <2>2. Holds(u, k, d)
      BY <1>3, <2>1, Zenon DEF Others
    <2>3. ASSUME d = c PROVE FALSE
      <3>1. Holds(u, k, c)
        BY <2>2, <2>3, Zenon
      <3> QED  BY <1>1, <2>1, <3>1, OneHolder, Zenon
    <2> QED  BY <2>2, <2>3, Zenon
  <1> QED
    BY <1>2, <1>3, Zenon DEF LockInv

LEMMA UnrunIsClinit ==
    \A u \in Initializer, k \in Nat, c \in Class : Unrun(u, k, c) => Clinit(u, k, c)
  BY DEF Unrun, Clinit, NotRun, InClinit

\* RunClinit.
LEMMA ClinitRuns ==
    ASSUME ClassTypes, ClinitInv, RunInv, NEW t \in Initializer, stack[t] # <<>>,
           NEW c \in Class, Top(t).class = c, NotRun(Top(t)),
           NEW g, Becomes(t, g), ~NotRun(g),
           status' = status,
           clinit_runs' = [clinit_runs EXCEPT ![c] = IF @ = 0 THEN 1 ELSE 2]
    PROVE  RunInv' /\ clinit_runs' \in [Class -> {0, 1}]
  <1>1. PICK n \in Nat : n = Len(stack[t])
    BY TopIsAt
  <1>2. Unrun(t, n, c)
    BY <1>1, TopTracked
  <1>3. clinit_runs[c] = 0 /\ Clinit(t, n, c)
    BY <1>2, UnrunIsClinit, Zenon DEF RunInv
  <1>4. clinit_runs' \in [Class -> {0, 1}]
        /\ \A d \in Class : d # c => clinit_runs'[d] = clinit_runs[d]
    BY <1>3 DEF ClassTypes
  <1>5. ASSUME NEW u \in Initializer, NEW k \in Nat, NEW d \in Class, Unrun(u, k, d)'
        PROVE  d # c /\ Unrun(u, k, d)
    <2>1. u # t \/ k # n
      BY <1>1, <1>5, Zenon DEF Becomes
    <2>2. Unrun(u, k, d)
      BY <1>1, <1>5, <2>1, Zenon DEF Becomes, Others
    <2>3. Clinit(u, k, d)
      BY <2>2, UnrunIsClinit, Zenon
    <2>4. ASSUME d = c PROVE FALSE
      <3>1. Clinit(u, k, c)
        BY <2>3, <2>4, Zenon
      <3> QED  BY <1>3, <2>1, <3>1, OneClinit, Zenon
    <2> QED  BY <2>2, <2>4
  <1>6. status[c] = "Initializing"
    BY <1>3 DEF ClinitInv
  <1>7. \A d \in Class : status'[d] \in {"Resolved", "Verifying", "Verified"} =>
            d # c /\ status[d] \in {"Resolved", "Verifying", "Verified"}
    BY <1>6
  <1>8. \A d \in Class : status'[d] \in {"Resolved", "Verifying", "Verified"} =>
            clinit_runs'[d] = 0
    BY <1>4, <1>7 DEF RunInv
  <1>9. \A u \in Initializer, k \in Nat, d \in Class : Unrun(u, k, d)' => clinit_runs'[d] = 0
    BY <1>4, <1>5 DEF RunInv
  <1> QED  BY <1>4, <1>8, <1>9, Zenon DEF RunInv

\* BeginInitialization, by the thread that the class records.
LEMMA ClinitBegins ==
    ASSUME ClassTypes, ClinitInv, RunInv, NEW t \in Initializer, stack[t] # <<>>,
           NEW c \in Class, Top(t).class = c, ~InClinit(Top(t)), status[c] = "Verified",
           NEW g, Becomes(t, g), InClinit(g), g.class = c,
           status' = [status EXCEPT ![c] = "Initializing"],
           clinit_thread' = [clinit_thread EXCEPT ![c] = t],
           clinit_runs' = clinit_runs
    PROVE  ClinitInv' /\ RunInv'
  <1>1. PICK n \in Nat : n = Len(stack[t])
    BY TopIsAt
  <1>2. status'[c] = "Initializing" /\ clinit_thread'[c] = t
        /\ \A d \in Class : d # c =>
              status'[d] = status[d] /\ clinit_thread'[d] = clinit_thread[d]
    BY DEF ClassTypes
  <1>4. \A u \in Initializer, k \in Nat : ~Clinit(u, k, c)
    BY DEF ClinitInv
  <1>5. \A u \in Initializer, k \in Nat, d \in Class : Clinit(u, k, d)' =>
            \/ d # c /\ Clinit(u, k, d)
            \/ d = c /\ u = t /\ k = n
    BY <1>1, <1>4, ZenonT(40) DEF Becomes, Others
  <1>6. \A u \in Initializer, k \in Nat, d \in Class : Clinit(u, k, d) => Clinit(u, k, d)'
    <2> SUFFICES ASSUME NEW u \in Initializer, NEW k \in Nat, NEW d \in Class, Clinit(u, k, d)
                 PROVE  Clinit(u, k, d)'
      BY Zenon
    <2>1. u # t \/ k # Len(stack[t])
      BY TopTracked, Zenon
    <2> QED  BY <2>1, Zenon DEF Becomes, Others
  <1>7. Clinit(t, n, c)'
    BY <1>1, Zenon DEF Becomes
  <1>8. \A u \in Initializer, k \in Nat, d \in Class : 
            Clinit(u, k, d)' => status'[d] = "Initializing" /\ clinit_thread'[d] = u
    BY <1>2, <1>5 DEF ClinitInv
  <1>9. ASSUME NEW u \in Initializer, NEW j \in Nat, NEW k \in Nat, NEW d \in Class,
               Clinit(u, j, d)', Clinit(u, k, d)'
        PROVE  j = k
    <2>1. CASE d = c
      BY <1>5, <1>9, <2>1, Zenon
    <2>2. CASE d # c
      <3>1. Clinit(u, j, d) /\ Clinit(u, k, d)
        BY <1>5, <1>9, <2>2, Zenon
      <3> QED  BY <3>1, OneClinit, Zenon
    <2> QED  BY <2>1, <2>2
  <1>10. \A d \in Class : status'[d] = "Initializing" =>
            \E u \in Initializer, k \in Nat : Clinit(u, k, d)'
    BY <1>2, <1>6, <1>7 DEF ClinitInv
  <1>11. ClinitInv'
    BY <1>8, <1>9, <1>10, Zenon DEF ClinitInv
  <1>13. clinit_runs[c] = 0
    BY DEF RunInv
  <1>14. \A u \in Initializer, k \in Nat, d \in Class : Unrun(u, k, d)' =>
            d = c \/ Unrun(u, k, d)
    BY <1>1, Zenon DEF Becomes, Others
  <1>15. \A d \in Class : status'[d] \in {"Resolved", "Verifying", "Verified"} =>
            status[d] \in {"Resolved", "Verifying", "Verified"}
    BY <1>2
  <1>16. RunInv'
    BY <1>13, <1>14, <1>15, Zenon DEF RunInv
  <1> QED  BY <1>11, <1>16

\* FinishInitialization.
LEMMA ClinitEnds ==
    ASSUME ClassTypes, ClinitInv, RunInv, NEW t \in Initializer, stack[t] # <<>>,
           NEW c \in Class, Top(t).class = c, InClinit(Top(t)), Leaves(t),
           NEW new \in {"Initialized", "Error"}, status' = [status EXCEPT ![c] = new],
           clinit_thread' = clinit_thread, clinit_runs' = clinit_runs
    PROVE  ClinitInv' /\ RunInv'
  <1>1. PICK n \in Nat : n = Len(stack[t])
    BY TopIsAt
  <1>2. status'[c] = new /\ \A d \in Class : d # c => status'[d] = status[d]
    BY DEF ClassTypes
  <1>3. Clinit(t, n, c) /\ \A d \in Class : Clinit(t, n, d) => d = c
    BY <1>1, TopTracked
  <1>4. ASSUME NEW u \in Initializer, NEW k \in Nat, NEW d \in Class, Clinit(u, k, d)'
        PROVE  d # c /\ Clinit(u, k, d)
    <2>1. u # t \/ k # n
      BY <1>1, <1>4, Zenon DEF Leaves
    <2>2. Clinit(u, k, d)
      BY <1>1, <1>4, <2>1, Zenon DEF Leaves, Others
    <2>3. ASSUME d = c PROVE FALSE
      <3>1. Clinit(u, k, c)
        BY <2>2, <2>3, Zenon
      <3> QED  BY <1>3, <2>1, <3>1, OneClinit, Zenon
    <2> QED  BY <2>2, <2>3
  <1>5. ASSUME NEW u \in Initializer, NEW k \in Nat, NEW d \in Class, d # c, Clinit(u, k, d)
        PROVE  Clinit(u, k, d)'
    <2>1. u # t \/ k # n
      BY <1>3, <1>5, Zenon
    <2> QED  BY <1>1, <1>5, <2>1, Zenon DEF Leaves, Others
  <1>6. \A u \in Initializer, k \in Nat, d \in Class :
            Clinit(u, k, d)' => status'[d] = "Initializing" /\ clinit_thread'[d] = u
    BY <1>2, <1>4 DEF ClinitInv
  <1>7. \A u \in Initializer, j, k \in Nat, d \in Class :
            Clinit(u, j, d)' /\ Clinit(u, k, d)' => j = k
    BY <1>4, OneClinit, Zenon
  <1>8. \A d \in Class : status'[d] = "Initializing" =>
            \E u \in Initializer, k \in Nat : Clinit(u, k, d)'
    BY <1>2, <1>5 DEF ClinitInv
  <1>9. ClinitInv'
    BY <1>6, <1>7, <1>8, Zenon DEF ClinitInv
  <1>10. NoMoreUnrun
    BY SameByLeaving
  <1>11. \A d \in Class : status'[d] \in {"Resolved", "Verifying", "Verified"} =>
            status[d] \in {"Resolved", "Verifying", "Verified"}
    BY <1>2
  <1>12. RunInv'
    BY <1>10, <1>11, RunStays
  <1> QED  BY <1>9, <1>12

\* BeginVerification.
LEMMA VerifyBegins ==
    ASSUME ClassTypes, VerifyInv, NEW t \in Initializer, stack[t] # <<>>,
           NEW c \in Class, Top(t).class = c, ~Verifying(Top(t)), status[c] = "Resolved",
           NEW g, Becomes(t, g), Verifying(g), g.class = c,
           status' = [status EXCEPT ![c] = "Verifying"]
    PROVE  VerifyInv'
  <1>1. PICK n \in Nat : n = Len(stack[t])
    BY TopIsAt
  <1>2. status'[c] = "Verifying" /\ \A d \in Class : d # c => status'[d] = status[d]
    BY DEF ClassTypes
  <1>3. \A u \in Initializer, k \in Nat, d \in Class : Verifies(u, k, d)' =>
            d = c \/ Verifies(u, k, d)
    BY <1>1, Zenon DEF Becomes, Others
  <1>4. ASSUME NEW u \in Initializer, NEW k \in Nat, NEW d \in Class, Verifies(u, k, d)
        PROVE  Verifies(u, k, d)'
    <2>1. u # t \/ k # Len(stack[t])
      BY <1>4, TopTracked, Zenon
    <2> QED  BY <1>4, <2>1, Zenon DEF Becomes, Others
  <1>5. Verifies(t, n, c)'
    BY <1>1, Zenon DEF Becomes
  <1>6. \A u \in Initializer, k \in Nat, d \in Class :
            Verifies(u, k, d)' => status'[d] = "Verifying"
    BY <1>2, <1>3 DEF VerifyInv
  <1>7. \A d \in Class : status'[d] = "Verifying" =>
            \E u \in Initializer, k \in Nat : Verifies(u, k, d)'
    BY <1>2, <1>4, <1>5 DEF VerifyInv
  <1> QED  BY <1>6, <1>7, Zenon DEF VerifyInv

\* A call of VerifyClass is made under the lock of its class, by a call that
\* holds it.
LEMMA VerifierHasLock ==
    ASSUME ClassTypes, CallInv, NEW t \in Initializer, NEW k \in 1 .. Len(stack[t]),
           At(stack, t, k).op = "verify"
    PROVE  k - 1 \in 1 .. Len(stack[t]) /\ Holds(t, k - 1, At(stack, t, k).class)
  <1>1. Len(stack[t]) \in Nat /\ stack[t] # <<>>
    BY DEF ClassTypes
  <1>2. k # 1
    BY <1>1 DEF CallInv
  <1>3. k - 1 \in 1 .. Len(stack[t]) - 1 /\ k - 1 + 1 = k /\ k - 1 \in 1 .. Len(stack[t])
    BY <1>1, <1>2
  <1>4. Calls(At(stack, t, k - 1), At(stack, t, k))
    BY <1>3, Zenon DEF CallInv
  <1> QED
    BY <1>3, <1>4 DEF Calls, Holds, HoldsLock

LEMMA OneVerifier ==
    ASSUME ClassTypes, CallInv, LockInv, NEW t \in Initializer, NEW u \in Initializer,
           NEW j \in 1 .. Len(stack[t]), NEW k \in 1 .. Len(stack[u]),
           At(stack, t, j).op = "verify", At(stack, u, k).op = "verify",
           At(stack, t, j).class = At(stack, u, k).class, At(stack, t, j).class \in Class
    PROVE  t = u /\ j = k
  <1>1. j - 1 \in Nat /\ k - 1 \in Nat
        /\ Holds(t, j - 1, At(stack, t, j).class) /\ Holds(u, k - 1, At(stack, t, j).class)
    BY VerifierHasLock DEF ClassTypes
  <1>2. u = t /\ k - 1 = j - 1
    BY <1>1, OneHolder
  <1> QED  BY <1>2

\* SuperVerified and VerifyBody, where they return.
LEMMA VerifyEnds ==
    ASSUME ClassTypes, CallInv, LockInv, VerifyInv, NEW t \in Initializer, stack[t] # <<>>,
           NEW c \in Class, Top(t).class = c, Verifying(Top(t)), Leaves(t),
           NEW new, new # "Verifying", status' = [status EXCEPT ![c] = new]
    PROVE  VerifyInv'
  <1>1. PICK n \in Nat : n = Len(stack[t]) /\ n \in 1 .. Len(stack[t]) /\ Top(t) = At(stack, t, n)
    BY TopIsAt
  <1>2. status'[c] = new /\ \A d \in Class : d # c => status'[d] = status[d]
    BY DEF ClassTypes
  <1>3. \A d \in Class : Verifies(t, n, d) => d = c
    BY <1>1, TopTracked
  <1>4. ASSUME NEW u \in Initializer, NEW k \in Nat, NEW d \in Class, Verifies(u, k, d)'
        PROVE  d # c /\ Verifies(u, k, d)
    <2>1. u # t \/ k # n
      BY <1>1, <1>4, Zenon DEF Leaves
    <2>2. Verifies(u, k, d)
      BY <1>1, <1>4, <2>1, Zenon DEF Leaves, Others
    <2>3. ASSUME d = c PROVE FALSE
      <3>1. k \in 1 .. Len(stack[u]) /\ At(stack, u, k).op = "verify" /\ At(stack, u, k).class = c
        BY <2>2, <2>3 DEF Verifies, Verifying
      <3>2. At(stack, t, n).op = "verify" /\ At(stack, t, n).class = c
        BY <1>1 DEF Verifying
      <3> QED  BY <1>1, <2>1, <3>1, <3>2, OneVerifier, ZenonT(40)
    <2> QED  BY <2>2, <2>3
  <1>5. ASSUME NEW u \in Initializer, NEW k \in Nat, NEW d \in Class, d # c, Verifies(u, k, d)
        PROVE  Verifies(u, k, d)'
    <2>1. u # t \/ k # n
      BY <1>3, <1>5, Zenon
    <2> QED  BY <1>1, <1>5, <2>1, Zenon DEF Leaves, Others
  <1>6. \A u \in Initializer, k \in Nat, d \in Class :
            Verifies(u, k, d)' => status'[d] = "Verifying"
    BY <1>2, <1>4, ZenonT(40) DEF VerifyInv
  <1>7. \A d \in Class : status'[d] = "Verifying" =>
            \E u \in Initializer, k \in Nat : Verifies(u, k, d)'
    BY <1>2, <1>5, Zenon DEF VerifyInv
  <1> QED  BY <1>6, <1>7, Zenon DEF VerifyInv

----------------------------------------------------------------------------
\* Callers and the calls they have made.
LEMMA CallsKept ==
    ASSUME NEW f, NEW e, NEW f2, NEW e2, Calls(f, e), Keeps(f, f2),
           e2.op = e.op, e2.class = e.class
    PROVE  Calls(f2, e2)
  BY DEF Calls, Keeps

LEMMA SmallDepths ==
    /\ \A n \in Nat : 1 < n \/ n = 1 \/ n = 0
    /\ \A n, m \in Nat : n = 0 /\ m <= n + 1 /\ m # 0 => m = 1
    /\ \A n \in 1 .. 1 : n = 1
  OBVIOUS

LEMMA CallInvStep ==
    ASSUME ClassTypes, CallInv, NEW t \in Initializer, Rest(stack', t),
           NEW n \in Nat, n = Len(stack[t]), NEW m \in Nat, m = Len(stack'[t]),
           m + 1 >= n, m <= n + 1,
           n >= 1 /\ m >= n => /\ At(stack', t, n).op = At(stack, t, n).op
                               /\ At(stack', t, n).class = At(stack, t, n).class,
           n >= 1 /\ m = n + 1 => Calls(At(stack', t, n), At(stack', t, n + 1)),
           n = 0 /\ m = 1 => At(stack', t, 1).op = "init"
    PROVE  CallInv'
  <1> SUFFICES ASSUME NEW u \in Initializer
               PROVE  /\ stack'[u] # <<>> => At(stack', u, 1).op = "init"
                      /\ \A k \in 1 .. Len(stack'[u]) - 1 :
                            Calls(At(stack', u, k), At(stack', u, k + 1))
    BY Zenon DEF CallInv
  <1>1. stack[u] \in Seq(ClassFrame) /\ stack'[u] \in Seq(ClassFrame)
    BY DEF ClassTypes, Rest
  <1>2. \A k \in 1 .. Len(stack[u]) : (u # t \/ k < n) =>
            /\ Keeps(At(stack, u, k), At(stack', u, k))
            /\ At(stack', u, k).op = At(stack, u, k).op
            /\ At(stack', u, k).class = At(stack, u, k).class
    BY Zenon DEF Rest, Keeps
  <1>3. u # t => Len(stack'[u]) = Len(stack[u])
    BY DEF Rest
  <1>4. ASSUME stack'[u] # <<>> PROVE At(stack', u, 1).op = "init"
    <2>0. /\ Len(stack[u]) \in Nat /\ (stack[u] = <<>> <=> Len(stack[u]) = 0)
          /\ Len(stack'[u]) \in Nat /\ Len(stack'[u]) # 0
      BY <1>1, <1>4, NoCalls
    <2>1. CASE u # t \/ 1 < n
      <3>1. 1 \in 1 .. Len(stack[u]) /\ stack[u] # <<>>
        BY <1>3, <2>0, <2>1
      <3> QED  BY <1>2, <2>1, <3>1, Zenon DEF CallInv
    <2>2. CASE u = t /\ n = 1
      <3>1. m >= n /\ n >= 1 /\ stack[u] # <<>>
        BY <2>0, <2>2
      <3>2. At(stack', u, 1).op = At(stack, u, 1).op
        BY <2>2, <3>1
      <3> QED  BY <3>1, <3>2, Zenon DEF CallInv
    <2>3. CASE u = t /\ n = 0
      <3>1. m = 1
        BY <2>0, <2>3, SmallDepths, Zenon
      <3> QED  BY <2>3, <3>1, Zenon
    <2> QED  BY <2>1, <2>2, <2>3, SmallDepths, Zenon
  <1>5. ASSUME NEW k \in 1 .. Len(stack'[u]) - 1
        PROVE  Calls(At(stack', u, k), At(stack', u, k + 1))
    <2>0. Len(stack[u]) \in Nat /\ Len(stack'[u]) \in Nat
      BY <1>1
    <2>1. CASE u # t \/ k + 1 < n
      <3>1. k \in 1 .. Len(stack[u]) /\ k + 1 \in 1 .. Len(stack[u])
            /\ k \in 1 .. Len(stack[u]) - 1 /\ (u # t \/ k < n)
        BY <1>3, <2>0, <2>1
      <3>2. Calls(At(stack, u, k), At(stack, u, k + 1))
        BY <3>1, Zenon DEF CallInv
      <3>3. Keeps(At(stack, u, k), At(stack', u, k))
            /\ At(stack', u, k + 1).op = At(stack, u, k + 1).op
            /\ At(stack', u, k + 1).class = At(stack, u, k + 1).class
        BY <1>2, <2>1, <3>1, Zenon
      <3> QED  BY <3>2, <3>3, CallsKept, Zenon
    <2>2. CASE u = t /\ k + 1 = n
      <3>1. k \in 1 .. Len(stack[u]) /\ k \in 1 .. Len(stack[u]) - 1 /\ k < n /\ n >= 1 /\ m >= n
        BY <2>0, <2>2
      <3>2. Calls(At(stack, u, k), At(stack, u, k + 1))
        BY <3>1, Zenon DEF CallInv
      <3>3. Keeps(At(stack, u, k), At(stack', u, k))
        BY <1>2, <3>1, Zenon
      <3>4. At(stack', u, k + 1).op = At(stack, u, k + 1).op
            /\ At(stack', u, k + 1).class = At(stack, u, k + 1).class
        BY <2>2, <3>1
      <3> QED  BY <3>2, <3>3, <3>4, CallsKept, Zenon
    <2>3. CASE u = t /\ k + 1 > n
      <3>1. k = n /\ m = n + 1 /\ n >= 1
        BY <2>0, <2>3
      <3> QED  BY <2>3, <3>1
    <2>4. k + 1 < n \/ k + 1 = n \/ k + 1 > n
      BY <2>0
    <2> QED  BY <2>1, <2>2, <2>3, <2>4
  <1> QED  BY <1>4, <1>5

LEMMA CallInvGoes ==
    ASSUME ClassTypes, CallInv, NEW t \in Initializer, NEW g, Goes(stack', t, g),
           g.op = Top(t).op, g.class = Top(t).class
    PROVE  CallInv'
  <1>1. PICK n \in Nat : n = Len(stack[t]) /\ n >= 1 /\ Top(t) = At(stack, t, n)
    BY TopIsAt DEF Goes
  <1>2. Rest(stack', t) /\ n = Len(stack'[t]) /\ At(stack', t, n) = g
    BY <1>1, Zenon DEF Goes
  <1>3. n + 1 >= n /\ n <= n + 1 /\ n # n + 1 /\ n # 0
    BY <1>1
  <1> QED  BY <1>1, <1>2, <1>3, CallInvStep, Zenon

LEMMA CallInvCalled ==
    ASSUME ClassTypes, CallInv, NEW t \in Initializer, NEW g, NEW e, Called(stack', t, g, e),
           g.op = Top(t).op, g.class = Top(t).class, Calls(g, e)
    PROVE  CallInv'
  <1>1. PICK n \in Nat : n = Len(stack[t]) /\ n >= 1 /\ Top(t) = At(stack, t, n)
    BY TopIsAt DEF Called
  <1>2. Rest(stack', t) /\ n + 1 = Len(stack'[t]) /\ At(stack', t, n) = g
        /\ At(stack', t, n + 1) = e
    BY <1>1, Zenon DEF Called
  <1>3. n + 1 \in Nat /\ n + 1 + 1 >= n /\ n + 1 <= n + 1 /\ n # 0
    BY <1>1
  <1> QED  BY <1>1, <1>2, <1>3, CallInvStep, Zenon

LEMMA CallInvReturns ==
    ASSUME ClassTypes, CallInv, NEW t \in Initializer, Returns(stack', t)
    PROVE  CallInv'
  <1>1. PICK n \in Nat : n = Len(stack[t]) /\ n >= 1
    BY TopIsAt DEF Returns
  <1>2. Rest(stack', t) /\ n - 1 = Len(stack'[t])
    BY <1>1, Zenon DEF Returns
  <1>3. n - 1 \in Nat /\ n - 1 + 1 >= n /\ n - 1 <= n + 1 /\ ~(n - 1 >= n)
        /\ n - 1 # n + 1 /\ n # 0
    BY <1>1
  <1> QED  BY <1>1, <1>2, <1>3, CallInvStep, Zenon

LEMMA CallInvEnters ==
    ASSUME ClassTypes, CallInv, NEW t \in Initializer, NEW e, Enters(stack', t, e),
           e.op = "init"
    PROVE  CallInv'
  <1>1. Rest(stack', t) /\ 0 = Len(stack[t]) /\ 1 = Len(stack'[t]) /\ At(stack', t, 1) = e
    BY DEF Enters
  <1>2. 0 \in Nat /\ 1 \in Nat /\ 1 + 1 >= 0 /\ 1 <= 0 + 1 /\ ~(0 >= 1)
    OBVIOUS
  <1> QED  BY <1>1, <1>2, CallInvStep, Zenon

----------------------------------------------------------------------------
\* What steps do to the status of classes: the last two are final, the first is
\* never set again, and a class becomes initialized, or ceases to be verified,
\* only where FinishInitialization and BeginInitialization have it so.
StatusAdvances ==
    \A d \in Class :
        /\ status[d] = "Initialized" => status'[d] = "Initialized"
        /\ status[d] = "Error" => status'[d] = "Error"
        /\ status'[d] = "Resolved" => status[d] = "Resolved"
        /\ status[d] = "Initializing" => status'[d] \in {"Initializing", "Initialized", "Error"}
        /\ status'[d] = "Initialized" => status[d] = "Initialized" \/ CanLock(d)
        /\ IsVerified(d) => IsVerified(d)' \/ MayFail(d)

LEMMA StatusSame ==
    ASSUME status' = status
    PROVE  StatusAdvances
  BY DEF StatusAdvances, IsVerified

LEMMA StatusSet ==
    ASSUME ClassTypes, NEW c \in Class, NEW new, status' = [status EXCEPT ![c] = new],
           \/ status[c] = "Resolved" /\ new = "Verifying"
           \/ status[c] = "Verifying" /\ new \in {"Verified", "Error"}
           \/ status[c] = "Verified" /\ new = "Initializing"
           \/ status[c] = "Verified" /\ new = "Error" /\ MayFail(c)
           \/ status[c] = "Initializing" /\ new = "Initialized" /\ CanLock(c)
           \/ status[c] = "Initializing" /\ new = "Error" /\ MayFail(c)
    PROVE  StatusAdvances
  <1>1. status'[c] = new /\ \A d \in Class : d # c => status'[d] = status[d]
    BY DEF ClassTypes
  <1>2. ASSUME NEW d \in Class
        PROVE  /\ status[d] = "Initialized" => status'[d] = "Initialized"
               /\ status[d] = "Error" => status'[d] = "Error"
               /\ status'[d] = "Resolved" => status[d] = "Resolved"
               /\ status[d] = "Initializing" =>
                     status'[d] \in {"Initializing", "Initialized", "Error"}
               /\ status'[d] = "Initialized" => status[d] = "Initialized" \/ CanLock(d)
               /\ IsVerified(d) => IsVerified(d)' \/ MayFail(d)
    <2>1. CASE d # c
      BY <1>1, <2>1 DEF IsVerified
    <2>2. CASE d = c
      BY <1>1, <2>2 DEF IsVerified
    <2> QED  BY <2>1, <2>2
  <1> QED  BY <1>2, Zenon DEF StatusAdvances

LEMMA ReadyStays ==
    ASSUME ClassTypes, StatusAdvances, NEW t \in Initializer, Others(t),
           NEW u \in Initializer, NEW k \in Nat, NEW c \in Class, ReadyAt(u, k, c),
           u # t \/ k < Len(stack[t]) \/ SameClinits
    PROVE  ReadyAt(u, k, c)'
  <1>1. CASE status[c] = "Initialized"
    BY <1>1, Zenon DEF StatusAdvances, ReadyAt
  <1>2. CASE \E j \in Nat : j <= k /\ Clinit(u, j, c)
    <2>1. PICK j \in Nat : j <= k /\ Clinit(u, j, c)
      BY <1>2
    <2>2. CASE SameClinits
      <3>1. Clinit(u, j, c)'
        BY <2>1, <2>2, Zenon DEF SameClinits
      <3> QED  BY <2>1, <3>1, Zenon DEF ReadyAt
    <2>3. CASE u # t \/ k < Len(stack[t])
      <3>1. u # t \/ j # Len(stack[t])
        BY <2>1, <2>3
      <3>2. Clinit(u, j, c)'
        BY <2>1, <3>1, Zenon DEF Others
      <3> QED  BY <2>1, <3>2, Zenon DEF ReadyAt
    <2> QED  BY <2>2, <2>3
  <1> QED  BY <1>1, <1>2, Zenon DEF ReadyAt

LEMMA FrameClasses ==
    ASSUME ClassTypes, NEW t \in Initializer, NEW k \in 1 .. Len(stack[t])
    PROVE  /\ At(stack, t, k) \in ClassFrame
           /\ At(stack, t, k).class \in Class /\ At(stack, t, k).used \subseteq Class
           /\ Super[At(stack, t, k).class] # None => Super[At(stack, t, k).class] \in Class
  <1>1. stack[t] \in Seq(ClassFrame) /\ Len(stack[t]) + 1 - k \in 1 .. Len(stack[t])
    BY DEF ClassTypes
  <1>2. At(stack, t, k) \in ClassFrame
    BY <1>1 DEF At
  <1> QED
    BY <1>2, InitializerAssumption DEF ClassFrame

\* A call that the step leaves alone, whether or not it is now t's innermost
\* one: then the call of c that it made has returned.
LEMMA OldReady ==
    ASSUME ClassTypes, CallInv, StatusAdvances, NEW t \in Initializer,
           Rest(stack', t), Others(t),
           NEW n \in Nat, n = Len(stack[t]), NEW m \in Nat, m = Len(stack'[t]),
           m + 1 >= n, m <= n + 1,
           n >= 1 /\ m >= n => At(stack', t, n).class = Top(t).class,
           \A v \in Initializer : v # t => success'[v] = success[v],
           NEW c \in Class, n >= 1 => c = Top(t).class,
           m < n /\ Top(t).op = "init" /\ success'[t] => ReadyAt(t, m, c)',
           NEW u \in Initializer, NEW k \in Nat, k \in 1 .. Len(stack[u]),
           u # t \/ k < n, ReadyCall(u, k)
    PROVE  ReadyCall(u, k)'
  <1> DEFINE f == At(stack, u, k)
             h == At(stack', u, k)
             R == ReadyClasses(u, k)
             N == NextClass(u, k)
  <1>1. h.op = f.op /\ h.class = f.class /\ h.used = f.used
        /\ (h.pc \in {"clinit", "used", "superDone"} => h.pc = f.pc)
    <2>1. Keeps(f, h)
      BY Zenon DEF Rest
    <2> QED  BY <2>1 DEF Keeps
  <1>2. R \subseteq ReadyClasses(u, k)'
    BY ReadyStays DEF ReadyClasses
  <1>3. Len(stack[u]) \in Nat /\ (u = t => Top(t) = At(stack, t, n) /\ n >= 1)
    <2>1. Len(stack[u]) \in Nat /\ (stack[u] = <<>> <=> Len(stack[u]) = 0)
      BY NoCalls DEF ClassTypes
    <2>2. u = t => stack[t] # <<>>
      BY <2>1, IndexOfCall, Zenon
    <2> QED  BY <2>1, <2>2, TopIsAt
  <1>4. Prepared(f, R, N, k = Len(stack[u]), success[u])
    BY Zenon DEF ReadyCall
  <1>5. SUFFICES Prepared(h, ReadyClasses(u, k)', NextClass(u, k)', k = Len(stack'[u]), success'[u])
    BY Zenon DEF ReadyCall
  <1>6. CASE u # t \/ k < m
    <2>1. ASSUME k < Len(stack[u])
          PROVE  k < Len(stack'[u]) /\ At(stack', u, k + 1).class = At(stack, u, k + 1).class
      <3>1. k + 1 \in 1 .. Len(stack[u]) /\ k < Len(stack'[u])
        BY <1>3, <1>6, <2>1 DEF Rest
      <3>2. CASE u # t \/ k + 1 < n
        BY <3>1, <3>2 DEF Rest, Keeps
      <3>3. CASE u = t /\ k + 1 >= n
        <4>1. k + 1 = n /\ m >= n
          BY <1>3, <3>1, <3>3
        <4> QED  BY <1>3, <3>1, <3>3, <4>1, Zenon
      <3>4. k + 1 < n \/ k + 1 >= n
        BY <1>3
      <3> QED  BY <3>2, <3>3, <3>4, Zenon
    <2>2. N \subseteq NextClass(u, k)'
      BY <2>1 DEF NextClass
    <2>3. k = Len(stack'[u]) <=> k = Len(stack[u])
      BY <1>3, <1>6 DEF Rest
    <2>4. k = Len(stack[u]) => success'[u] = success[u]
      BY <1>3
    <2> HIDE DEF f, h, R, N
    <2> QED
      BY <1>1, <1>2, <1>4, <2>2, <2>3, <2>4 DEF Prepared
  <1>7. CASE u = t /\ k >= m
    <2>1. k = m /\ k + 1 = n /\ k \in 1 .. Len(stack[u]) - 1 /\ k # Len(stack[u])
      BY <1>3, <1>7
    <2>2. Calls(f, Top(t))
      BY <1>3, <1>7, <2>1, Zenon DEF CallInv
    <2>3. N \subseteq {c}
      BY <1>3, <1>7, <2>1 DEF NextClass
    <2>4. Top(t).op = "init" /\ success'[u] => c \in ReadyClasses(u, k)'
      BY <1>3, <1>7, <2>1 DEF ReadyClasses
    <2> HIDE DEF f, h, R, N
    <2>5. h.op = "init" /\ h.pc \in {"used", "superDone"} => Top(t).op = "init"
      BY <1>1, <2>2 DEF Calls
    <2>a. c = Top(t).class
      BY <1>3, <1>7, Zenon
    <2>6. h.op = "init" /\ h.pc = "superDone" => c = Super[h.class]
      BY <1>1, <2>2, <2>a DEF Calls
    <2>7. h.op = "init" =>
             /\ h.pc \in {"clinit", "used"} /\ Super[h.class] # None => Super[h.class] \in R
             /\ h.pc = "clinit" => h.used \subseteq R
             /\ h.pc = "used" => h.used \subseteq R \cup N
             /\ h.pc = "superDone" => Super[h.class] # None
      BY <1>1, <1>4, <2>1 DEF Prepared
    <2>8. h.op = "init" /\ h.pc = "used" /\ success'[u] =>
             h.used \subseteq ReadyClasses(u, k)'
      BY <1>2, <2>3, <2>4, <2>5, <2>7, Zenon
    <2>9. h.op = "init" /\ h.pc = "superDone" /\ success'[u] =>
             Super[h.class] \in ReadyClasses(u, k)'
      BY <2>4, <2>5, <2>6
    <2>10. k = Len(stack'[u])
      BY <1>7, <2>1
    <2> QED
      BY <1>2, <2>7, <2>8, <2>9, <2>10, Zenon DEF Prepared
  <1> QED  BY <1>3, <1>6, <1>7

LEMMA PlainIsPrepared ==
    ASSUME NEW f, f.pc \notin {"clinit", "used", "superDone"}, NEW R, NEW N, NEW b, NEW ok
    PROVE  Prepared(f, R, N, b, ok)
  BY DEF Prepared

LEMMA ReadyGoes ==
    ASSUME ClassTypes, CallInv, StatusAdvances, ReadyInv, NEW t \in Initializer,
           NEW g, Goes(stack', t, g), g.class = Top(t).class, success' = success,
           NEW n \in Nat, n = Len(stack[t]),
           Prepared(g, ReadyClasses(t, n)', {}, TRUE, success[t])
    PROVE  ReadyInv'
  <1>1. stack[t] # <<>> /\ n >= 1 /\ Rest(stack', t) /\ n = Len(stack'[t])
        /\ At(stack', t, n) = g /\ Top(t).class \in Class
    BY TopIsAt, Zenon DEF Goes, ClassFrame
  <1>2. Others(t)
    BY GoesTracks DEF Becomes
  <1>3. ASSUME NEW u \in Initializer, NEW k \in Nat, k \in 1 .. Len(stack'[u]),
               u # t \/ k # n
        PROVE  ReadyCall(u, k)'
    <2>1. k \in 1 .. Len(stack[u])
      BY <1>1, <1>3, Zenon DEF Rest
    <2>2. u # t \/ k < n
      BY <1>3, <2>1
    <2>3. ReadyCall(u, k)
      BY <2>1, Zenon DEF ReadyInv
    <2>4. n + 1 >= n /\ n <= n + 1 /\ ~(n < n)
      OBVIOUS
    <2> QED
      BY <1>1, <1>2, <2>1, <2>2, <2>3, <2>4, OldReady, Zenon
  <1>4. NextClass(t, n)' = {}
    BY <1>1 DEF NextClass
  <1>5. ReadyCall(t, n)'
    BY <1>1, <1>4, Zenon DEF ReadyCall
  <1> QED
    BY <1>3, <1>5, Zenon DEF ReadyInv

LEMMA ReadyCalled ==
    ASSUME ClassTypes, CallInv, StatusAdvances, ReadyInv, NEW t \in Initializer,
           NEW g, NEW e, Called(stack', t, g, e), g.class = Top(t).class, success' = success,
           e.pc = "begin", e.class \in Class,
           NEW n \in Nat, n = Len(stack[t]),
           Prepared(g, ReadyClasses(t, n)', {e.class}, FALSE, success[t])
    PROVE  ReadyInv'
  <1>1. stack[t] # <<>> /\ n >= 1 /\ Rest(stack', t) /\ n + 1 = Len(stack'[t])
        /\ At(stack', t, n) = g /\ At(stack', t, n + 1) = e /\ Top(t).class \in Class
    BY TopIsAt, Zenon DEF Called, ClassFrame
  <1>2. Others(t)
    BY CalledTracks, Zenon DEF Becomes
  <1>3. ASSUME NEW u \in Initializer, NEW k \in Nat, k \in 1 .. Len(stack'[u]),
               u # t \/ k < n
        PROVE  ReadyCall(u, k)'
    <2>1. k \in 1 .. Len(stack[u]) /\ (u # t \/ k < n)
      BY <1>1, <1>3 DEF Rest
    <2>2. ReadyCall(u, k)
      BY <2>1, Zenon DEF ReadyInv
    <2>3. n + 1 \in Nat /\ n + 1 + 1 >= n /\ n + 1 <= n + 1 /\ ~(n + 1 < n)
      OBVIOUS
    <2> QED
      BY <1>1, <1>2, <2>1, <2>2, <2>3, OldReady, Zenon
  <1>4. NextClass(t, n)' = {e.class}
    BY <1>1 DEF NextClass
  <1>5. ReadyCall(t, n)'
    <2>1. n # n + 1
      OBVIOUS
    <2> QED  BY <1>1, <1>4, <2>1, Zenon DEF ReadyCall
  <1>6. ASSUME NEW k \in Nat, k = n + 1
        PROVE  ReadyCall(t, k)'
    <2>1. At(stack', t, k).pc \notin {"clinit", "used", "superDone"}
      BY <1>1, <1>6
    <2> QED  BY <2>1, PlainIsPrepared, Zenon DEF ReadyCall
  <1>7. \A k \in Nat : k \in 1 .. Len(stack'[t]) => k < n \/ k = n \/ k = n + 1
    BY <1>1
  <1> QED
    BY <1>3, <1>5, <1>6, <1>7, Zenon DEF ReadyInv

\* The calls left when t's innermost one has returned were there before it.
LEMMA CallsLeft ==
    ASSUME NEW t \in Initializer, Rest(stack', t),
           NEW n \in Nat, n = Len(stack[t]), NEW m \in Nat, m + 1 = n, m = Len(stack'[t]),
           NEW u \in Initializer, NEW k \in Nat, k \in 1 .. Len(stack'[u])
    PROVE  k \in 1 .. Len(stack[u]) /\ (u # t \/ k < n)
  <1>1. u # t => Len(stack'[u]) = Len(stack[u])
    BY Zenon DEF Rest
  <1>2. CASE u = t
    <2>1. k \in 1 .. m
      BY <1>2, Zenon
    <2>2. k \in 1 .. n /\ k < n
      BY <2>1
    <2> QED  BY <1>2, <2>2, Zenon
  <1> QED  BY <1>1, <1>2, Zenon

LEMMA ReadyReturns ==
    ASSUME ClassTypes, CallInv, StatusAdvances, ReadyInv, NEW t \in Initializer,
           Returns(stack', t), \A v \in Initializer : v # t => success'[v] = success[v],
           NEW n \in Nat, n = Len(stack[t]), NEW m \in Nat, m + 1 = n,
           NEW c \in Class, c = Top(t).class,
           Top(t).op = "init" /\ success'[t] => ReadyAt(t, m, c)'
    PROVE  ReadyInv'
  <1>1. Rest(stack', t) /\ m = Len(stack'[t])
    BY TopIsAt DEF Returns
  <1>2. Others(t)
    BY ReturnsTracks DEF Leaves
  <1>3. ASSUME NEW u \in Initializer, NEW k \in Nat, k \in 1 .. Len(stack'[u])
        PROVE  ReadyCall(u, k)'
    <2>1. k \in 1 .. Len(stack[u]) /\ (u # t \/ k < n)
      BY <1>1, <1>3, CallsLeft, Zenon
    <2>2. ReadyCall(u, k)
      BY <2>1, Zenon DEF ReadyInv
    <2>3. m + 1 >= n /\ m <= n + 1 /\ m < n /\ ~(m >= n)
      OBVIOUS
    <2> QED
      BY <1>1, <1>2, <2>1, <2>2, <2>3, OldReady, Zenon
  <1> QED
    BY <1>3, Zenon DEF ReadyInv

LEMMA ReadyEnters ==
    ASSUME ClassTypes, CallInv, StatusAdvances, ReadyInv, NEW t \in Initializer,
           NEW e, Enters(stack', t, e), success' = success, e.pc = "begin", e.class \in Class
    PROVE  ReadyInv'
  <1>1. Rest(stack', t) /\ 0 = Len(stack[t]) /\ 1 = Len(stack'[t]) /\ At(stack', t, 1) = e
    BY DEF Enters
  <1>2. Others(t)
    BY EntersTracks DEF Leaves
  <1>3. ASSUME NEW u \in Initializer, NEW k \in Nat, k \in 1 .. Len(stack'[u]), u # t
        PROVE  ReadyCall(u, k)'
    <2>1. k \in 1 .. Len(stack[u])
      BY <1>1, <1>3, Zenon DEF Rest
    <2>2. ReadyCall(u, k)
      BY <2>1, Zenon DEF ReadyInv
    <2>3. 0 \in Nat /\ 1 \in Nat /\ 1 + 1 >= 0 /\ 1 <= 0 + 1 /\ ~(0 >= 1) /\ ~(1 < 0)
      OBVIOUS
    <2> QED
      BY <1>1, <1>2, <1>3, <2>1, <2>2, <2>3, OldReady, Zenon
  <1>4. ASSUME NEW k \in Nat, k \in 1 .. Len(stack'[t])
        PROVE  ReadyCall(t, k)'
    <2>0. k = 1
      BY <1>1, <1>4, SmallDepths, Zenon
    <2>1. At(stack', t, k).pc \notin {"clinit", "used", "superDone"}
      BY <1>1, <2>0
    <2> QED  BY <2>1, PlainIsPrepared, Zenon DEF ReadyCall
  <1> QED
    BY <1>3, <1>4, Zenon DEF ReadyInv

----------------------------------------------------------------------------
\* The same for what the CHECKs rest on.
LEMMA OldChecked ==
    ASSUME ClassTypes, CallInv, LockInv, StatusAdvances, ~RacingFailures,
           NEW t \in Initializer, Rest(stack', t),
           NEW n \in Nat, n = Len(stack[t]), NEW m \in Nat, m = Len(stack'[t]), m + 1 >= n,
           \A v \in Initializer : v # t => success'[v] = success[v],
           NEW c \in Class, n >= 1 => c = Top(t).class,
           m < n /\ Top(t).op = "init" /\ ~success'[t] => status'[c] = "Error",
           m < n /\ Top(t).op = "verify" => status'[c] # "Resolved",
           NEW u \in Initializer, NEW k \in Nat, k \in 1 .. Len(stack[u]),
           u # t \/ k < n, CheckCall(u, k)
    PROVE  CheckCall(u, k)'
  <1> DEFINE f == At(stack, u, k)
             h == At(stack', u, k)
  <1>1. h.op = f.op /\ h.class = f.class
        /\ (h.pc \in {"superDone", "verified", "body"} => h.pc = f.pc)
        /\ (h.pc \in {"wait", "woken"} => f.pc \in {"wait", "woken"})
    <2>1. Keeps(f, h)
      BY Zenon DEF Rest
    <2> QED  BY <2>1, Zenon DEF Keeps
  <1>2. f.class \in Class
    BY FrameClasses
  <1>3. Len(stack[u]) \in Nat /\ stack[u] # <<>>
        /\ (u = t => Top(t) = At(stack, t, n) /\ n >= 1 /\ c = Top(t).class)
    <2>1. Len(stack[u]) \in Nat /\ (stack[u] = <<>> <=> Len(stack[u]) = 0)
      BY NoCalls DEF ClassTypes
    <2>2. stack[u] # <<>>
      BY <2>1
    <2>3. u = t => Top(t) = At(stack, t, n) /\ n >= 1
      BY <2>2, TopIsAt
    <2> QED  BY <2>1, <2>2, <2>3, Zenon
  <1>4. ASSUME k = Len(stack'[u])
        PROVE  \/ u # t /\ k = Len(stack[u])
               \/ m < n /\ Calls(f, Top(t)) /\ u = t
    <2>1. CASE u # t
      BY <1>4, <2>1, Zenon DEF Rest
    <2>2. CASE u = t
      <3>1. k + 1 = n /\ m < n /\ k \in 1 .. Len(stack[u]) - 1
        BY <1>3, <1>4, <2>2
      <3> QED  BY <1>3, <2>2, <3>1, Zenon DEF CallInv
    <2> QED  BY <2>1, <2>2
  <1>5. NoThread \notin Initializer
    BY InitializerAssumption, ThreadAssumption
  <1>6. f.op = "init" /\ f.pc = "verified" => ~CanLock(f.class)
    <2> SUFFICES ASSUME f.op = "init", f.pc = "verified"
                 PROVE  ~CanLock(f.class)
      OBVIOUS
    <2>1. Holds(u, k, f.class)
      BY Zenon DEF Holds, HoldsLock
    <2> QED  BY <1>2, <1>5, <2>1, Zenon DEF LockInv, CanLock
  <1>7. f.op = "verify" /\ f.pc = "body" => ~MayFail(Super[f.class])
    <2> SUFFICES ASSUME f.op = "verify", f.pc = "body", k # Len(stack[u]) \/ MayFail(Super[f.class])
                 PROVE  FALSE
      BY SMTT(20)
    <2>1. CASE k # Len(stack[u])
      <3>1. k \in 1 .. Len(stack[u]) - 1
        BY <1>3, <2>1
      <3>2. Calls(f, At(stack, u, k + 1))
        BY <3>1, Zenon DEF CallInv
      <3> QED  BY <3>2 DEF Calls
    <2>2. CASE k = Len(stack[u]) /\ MayFail(Super[f.class])
      <3>1. Top(u) = f
        BY <1>3, <2>2, TopIsAt, Zenon
      <3> QED  BY <1>3, <2>2, <3>1, Zenon DEF MayFail
    <2> QED  BY <2>1, <2>2
  <1>8. ASSUME f.op = "verify", f.pc = "body", Super[f.class] # None,
               NEW s, s = Super[f.class]
        PROVE  IsVerified(s)'
    <2>1. s \in Class
      BY <1>8, FrameClasses, Zenon
    <2>2. IsVerified(s)
      BY <1>8, Zenon DEF CheckCall
    <2>3. ~MayFail(s)
      BY <1>7, <1>8, Zenon
    <2> QED  BY <2>1, <2>2, <2>3, Zenon DEF StatusAdvances
  <1>9. ASSUME f.op = "init", f.pc = "superDone", k = Len(stack'[u]), ~success'[u]
        PROVE  Super[f.class] \in Class /\ status'[Super[f.class]] = "Error"
    <2>1. CASE u # t /\ k = Len(stack[u])
      <3>1. Super[f.class] \in Class /\ status[Super[f.class]] = "Error"
        BY <1>9, <2>1, Zenon DEF CheckCall
      <3> QED  BY <3>1, Zenon DEF StatusAdvances
    <2>2. CASE m < n /\ Calls(f, Top(t)) /\ u = t
      <3>1. Top(t).op = "init" /\ Top(t).class = Super[f.class]
        BY <1>9, <2>2, Zenon DEF Calls
      <3> QED  BY <1>3, <1>9, <2>2, <3>1, Zenon
    <2> QED  BY <1>4, <1>9, <2>1, <2>2, Zenon
  <1>10. ASSUME f.op = "init", f.pc = "verified"
         PROVE  /\ status'[f.class] # "Initialized"
                /\ k = Len(stack'[u]) => status'[f.class] # "Resolved"
    <2>1. status[f.class] # "Initialized"
      BY <1>10, Zenon DEF CheckCall
    <2>2. status'[f.class] # "Initialized"
      BY <1>2, <1>6, <1>10, <2>1, Zenon DEF StatusAdvances
    <2>3. ASSUME k = Len(stack'[u]), status'[f.class] = "Resolved"
          PROVE  FALSE
      <3>1. status[f.class] = "Resolved"
        BY <1>2, <2>3, Zenon DEF StatusAdvances
      <3>2. CASE u # t /\ k = Len(stack[u])
        BY <1>10, <3>1, <3>2, Zenon DEF CheckCall
      <3>3. CASE m < n /\ Calls(f, Top(t)) /\ u = t
        <4>1. Top(t).op = "verify" /\ Top(t).class = f.class
          BY <1>10, <3>3 DEF Calls
        <4> QED  BY <1>3, <2>3, <3>3, <4>1, ZenonT(40)
      <3> QED  BY <1>4, <2>3, <3>2, <3>3, Zenon
    <2> QED  BY <2>2, <2>3, Zenon
  <1>11. ASSUME f.pc \in {"wait", "woken"}
         PROVE  status'[f.class] \in {"Initializing", "Initialized", "Error"}
    <2>1. status[f.class] \in {"Initializing", "Initialized", "Error"}
      BY <1>11, Zenon DEF CheckCall
    <2> QED  BY <1>2, <2>1, Zenon DEF StatusAdvances
  <1> HIDE DEF f, h
  <1>12. /\ h.op = "init" /\ h.pc = "superDone" /\ k = Len(stack'[u]) /\ ~success'[u] =>
              Super[h.class] \in Class /\ status'[Super[h.class]] = "Error"
         /\ h.op = "init" /\ h.pc = "verified" =>
              /\ status'[h.class] # "Initialized"
              /\ k = Len(stack'[u]) => status'[h.class] # "Resolved"
         /\ h.pc \in {"wait", "woken"} => status'[h.class] \in {"Initializing", "Initialized", "Error"}
    BY <1>1, <1>9, <1>10, <1>11
  <1>13. ASSUME h.op = "verify", h.pc = "body", Super[h.class] # None, NEW s, s = Super[h.class]
         PROVE  IsVerified(s)'
    BY <1>1, <1>8, <1>13, Zenon
  <1> QED  BY <1>12, <1>13, Zenon DEF CheckCall, h

LEMMA CheckGoes ==
    ASSUME ClassTypes, CallInv, LockInv, StatusAdvances, CheckInv, ~RacingFailures,
           NEW t \in Initializer, NEW g, Goes(stack', t, g), success' = success,
           NEW c \in Class, c = Top(t).class, c = g.class,
           g.op = "init" => g.pc # "superDone",
           g.op = "init" /\ g.pc = "verified" => status'[c] \notin {"Initialized", "Resolved"},
           g.pc \in {"wait", "woken"} => status'[c] \in {"Initializing", "Initialized", "Error"},
           g.op = "verify" /\ g.pc = "body" /\ Super[c] # None => IsVerified(Super[c])'
    PROVE  CheckInv'
  <1>0. PICK n \in Nat : n = Len(stack[t])
    BY TopIsAt DEF Goes
  <1>1. stack[t] # <<>> /\ n >= 1 /\ Rest(stack', t) /\ n = Len(stack'[t])
        /\ At(stack', t, n) = g
    BY <1>0, TopIsAt DEF Goes
  <1>3. ASSUME NEW u \in Initializer, NEW k \in Nat, k \in 1 .. Len(stack'[u]),
               u # t \/ k # n
        PROVE  CheckCall(u, k)'
    <2>1. k \in 1 .. Len(stack[u])
      BY <1>0, <1>1, <1>3, Zenon DEF Rest
    <2>2. u # t \/ k < n
      BY <1>0, <1>3, <2>1
    <2>3. CheckCall(u, k)
      BY <2>1, Zenon DEF CheckInv
    <2>4. n + 1 >= n /\ ~(n < n)
      OBVIOUS
    <2> QED
      BY <1>0, <1>1, <2>1, <2>2, <2>3, <2>4, OldChecked, Zenon
  <1>5. CheckCall(t, n)'
    BY <1>1 DEF CheckCall, IsVerified
  <1> QED
    BY <1>3, <1>5, Zenon DEF CheckInv

LEMMA CheckCalled ==
    ASSUME ClassTypes, CallInv, LockInv, StatusAdvances, CheckInv, ~RacingFailures,
           NEW t \in Initializer, NEW g, NEW e, Called(stack', t, g, e), success' = success,
           NEW c \in Class, c = Top(t).class, c = g.class,
           g.op = "init" /\ g.pc = "verified" => status'[c] # "Initialized",
           g.pc \notin {"wait", "woken", "body"}, e.pc = "begin"
    PROVE  CheckInv'
  <1>0. PICK n \in Nat : n = Len(stack[t])
    BY TopIsAt DEF Called
  <1>1. stack[t] # <<>> /\ n >= 1 /\ Rest(stack', t) /\ n + 1 = Len(stack'[t])
        /\ At(stack', t, n) = g /\ At(stack', t, n + 1) = e
    BY <1>0, TopIsAt DEF Called
  <1>3. ASSUME NEW u \in Initializer, NEW k \in Nat, k \in 1 .. Len(stack'[u]),
               u # t \/ k < n
        PROVE  CheckCall(u, k)'
    <2>1. k \in 1 .. Len(stack[u]) /\ (u # t \/ k < n)
      BY <1>0, <1>1, <1>3 DEF Rest
    <2>3. CheckCall(u, k)
      BY <2>1, Zenon DEF CheckInv
    <2>4. PICK m \in Nat : m = n + 1
      OBVIOUS
    <2>5. m + 1 >= n /\ ~(m < n)
      BY <2>4
    <2>6. m = Len(stack'[t])
      BY <1>1, <2>4, Zenon
    <2>7. /\ m < n /\ Top(t).op = "init" /\ ~success'[t] => status'[c] = "Error"
          /\ m < n /\ Top(t).op = "verify" => status'[c] # "Resolved"
          /\ n >= 1 => c = Top(t).class
          /\ \A v \in Initializer : v # t => success'[v] = success[v]
          /\ Rest(stack', t)
      BY <1>1, <2>5, Zenon
    <2> QED
      BY <1>0, <2>1, <2>3, <2>5, <2>6, <2>7, OldChecked, Zenon
  <1>4. n # n + 1
    BY SMTT(20)
  <1>5. CheckCall(t, n)'
    BY <1>1, <1>4, SMTT(20) DEF CheckCall
  <1>6. ASSUME NEW k \in Nat, k = n + 1
        PROVE  CheckCall(t, k)'
    BY <1>1, <1>6, SMTT(20) DEF CheckCall
  <1>7. \A k \in Nat : k \in 1 .. Len(stack'[t]) => k < n \/ k = n \/ k = n + 1
    BY <1>1
  <1> QED
    BY <1>3, <1>5, <1>6, <1>7, Zenon DEF CheckInv

LEMMA CheckReturns ==
    ASSUME ClassTypes, CallInv, LockInv, StatusAdvances, CheckInv, ~RacingFailures,
           NEW t \in Initializer, Returns(stack', t),
           \A v \in Initializer : v # t => success'[v] = success[v],
           NEW c \in Class, c = Top(t).class,
           Top(t).op = "init" /\ ~success'[t] => status'[c] = "Error",
           Top(t).op = "verify" => status'[c] # "Resolved"
    PROVE  CheckInv'
  <1>0. PICK n \in Nat : n = Len(stack[t]) /\ n >= 1
    BY TopIsAt DEF Returns
  <1>a. PICK m \in Nat : m + 1 = n
    BY <1>0, Predecessor, Zenon
  <1>1. Rest(stack', t) /\ m = Len(stack'[t])
    BY <1>0, <1>a, TopIsAt DEF Returns
  <1>3. ASSUME NEW u \in Initializer, NEW k \in Nat, k \in 1 .. Len(stack'[u])
        PROVE  CheckCall(u, k)'
    <2>1. k \in 1 .. Len(stack[u]) /\ (u # t \/ k < n)
      BY <1>0, <1>a, <1>1, <1>3, CallsLeft, Zenon
    <2>3. CheckCall(u, k)
      BY <2>1, Zenon DEF CheckInv
    <2>4. m + 1 >= n
      BY <1>a
    <2>5. /\ m < n /\ Top(t).op = "init" /\ ~success'[t] => status'[c] = "Error"
          /\ m < n /\ Top(t).op = "verify" => status'[c] # "Resolved"
          /\ n >= 1 => c = Top(t).class
      OBVIOUS
    <2> HIDE <1>a
    <2> QED
      BY <1>0, <1>1, <2>1, <2>3, <2>4, <2>5, OldChecked, ZenonT(60)
  <1> QED
    BY <1>3, Zenon DEF CheckInv

LEMMA CheckEnters ==
    ASSUME ClassTypes, CallInv, LockInv, StatusAdvances, CheckInv, ~RacingFailures,
           NEW t \in Initializer, NEW e, Enters(stack', t, e), success' = success,
           e.pc = "begin", NEW c \in Class
    PROVE  CheckInv'
  <1>1. Rest(stack', t) /\ 0 = Len(stack[t]) /\ 1 = Len(stack'[t]) /\ At(stack', t, 1) = e
    BY DEF Enters
  <1>3. ASSUME NEW u \in Initializer, NEW k \in Nat, k \in 1 .. Len(stack'[u]), u # t
        PROVE  CheckCall(u, k)'
    <2>1. k \in 1 .. Len(stack[u])
      BY <1>1, <1>3, Zenon DEF Rest
    <2>3. CheckCall(u, k)
      BY <2>1, Zenon DEF CheckInv
    <2>4. 0 \in Nat /\ 1 \in Nat /\ 1 + 1 >= 0 /\ ~(1 < 0) /\ ~(0 >= 1)
      OBVIOUS
    <2> QED
      BY <1>1, <1>3, <2>1, <2>3, <2>4, OldChecked, Zenon
  <1>4. ASSUME NEW k \in Nat, k \in 1 .. Len(stack'[t])
        PROVE  CheckCall(t, k)'
    <2>1. k = 1
      BY <1>1, <1>4, SmallDepths, Zenon
    <2> QED  BY <1>1, <2>1 DEF CheckCall
  <1> QED
    BY <1>3, <1>4, Zenon DEF CheckInv

----------------------------------------------------------------------------
\* The steps that leave every class's status as it is: t's innermost call goes
\* on, makes a call or returns.  What they do to locks and counts is left open.
Same == status' = status /\ clinit_thread' = clinit_thread /\ uses' = uses

LEMMA GoesOn ==
    ASSUME ClassInv, Same, LockInv', RunInv',
           lock' \in [Class -> Initializer \cup {NoThread}],
           clinit_runs' \in [Class -> {0, 1}],
           success' = success, aborted' = aborted,
           NEW t \in Initializer, NEW g, Goes(stack', t, g),
           NEW c \in Class, c = Top(t).class, c = g.class, g.op = Top(t).op,
           InClinit(g) <=> InClinit(Top(t)), Verifying(g) <=> Verifying(Top(t)),
           NEW n \in Nat, n = Len(stack[t]),
           Prepared(g, ReadyClasses(t, n), {}, TRUE, success[t]),
           g.op = "init" => g.pc # "superDone",
           ~RacingFailures =>
              /\ g.op = "init" /\ g.pc = "verified" => status[c] \notin {"Initialized", "Resolved"}
              /\ g.pc \in {"wait", "woken"} => status[c] \in {"Initializing", "Initialized", "Error"}
              /\ g.op = "verify" /\ g.pc = "body" /\ Super[c] # None => IsVerified(Super[c])
    PROVE  ClassInv'
  <1> USE DEF Same
  <1>1. ClassTypes /\ ClinitInv /\ LockInv /\ VerifyInv /\ CallInv /\ ReadyInv
    BY Zenon DEF ClassInv
  <1>2. Rest(stack', t) /\ stack[t] # <<>>
    BY Zenon DEF Goes
  <1>3. ClassTypes'
    BY <1>1, <1>2, Zenon DEF ClassTypes, Rest
  <1>4. Becomes(t, g)
    BY <1>1, GoesTracks, Zenon
  <1>5. SameClinits /\ SameVerifies
    BY <1>1, <1>2, <1>4, SameByBecoming, Zenon
  <1>6. ClinitInv'
    BY <1>1, <1>5, ClinitStays, Zenon
  <1>7. VerifyInv'
    BY <1>1, <1>5, VerifyStays, Zenon
  <1>8. CallInv'
    BY <1>1, CallInvGoes, Zenon
  <1>9. StatusAdvances
    BY StatusSame, Zenon
  <1>10. ReadyClasses(t, n)' = ReadyClasses(t, n)
    BY <1>5, Zenon DEF SameClinits, ReadyClasses, ReadyAt
  <1>11. ReadyInv'
    BY <1>1, <1>9, <1>10, ReadyGoes, ZenonT(40)
  <1>12. ASSUME ~RacingFailures
         PROVE  CheckInv' /\ ~aborted'
    <2>1. CheckInv /\ ~aborted
      BY <1>12, Zenon DEF ClassInv
    <2>2. /\ g.op = "init" /\ g.pc = "verified" => status'[c] \notin {"Initialized", "Resolved"}
          /\ g.pc \in {"wait", "woken"} => status'[c] \in {"Initializing", "Initialized", "Error"}
          /\ g.op = "verify" /\ g.pc = "body" /\ Super[c] # None => IsVerified(Super[c])'
      BY <1>12, Zenon DEF IsVerified
    <2>3. CheckInv'
      BY <1>1, <1>9, <1>12, <2>1, <2>2, CheckGoes, Zenon
    <2> QED  BY <2>1, <2>3, Zenon
  <1> QED
    BY <1>3, <1>6, <1>7, <1>8, <1>11, <1>12, Zenon DEF ClassInv

LEMMA MakesCall ==
    ASSUME ClassInv, Same, LockInv',
           lock' \in [Class -> Initializer \cup {NoThread}],
           clinit_runs' = clinit_runs, success' = success, aborted' = aborted,
           NEW t \in Initializer, NEW g, NEW e, Called(stack', t, g, e),
           NEW c \in Class, c = Top(t).class, c = g.class, g.op = Top(t).op,
           e.pc = "begin", e.class \in Class, Calls(g, e),
           InClinit(g) <=> InClinit(Top(t)), Verifying(g) <=> Verifying(Top(t)),
           NotRun(g) => NotRun(Top(t)),
           NEW n \in Nat, n = Len(stack[t]),
           Prepared(g, ReadyClasses(t, n), {e.class}, FALSE, success[t]),
           g.pc \in {"verified", "superDone", "used"},
           g.op = "init" /\ g.pc = "verified" => status[c] # "Initialized"
    PROVE  ClassInv'
  <1> USE DEF Same
  <1>1. ClassTypes /\ ClinitInv /\ LockInv /\ VerifyInv /\ CallInv /\ ReadyInv /\ RunInv
    BY ZenonT(20) DEF ClassInv
  <1>2. Rest(stack', t) /\ stack[t] # <<>>
    BY DEF Called
  <1>3. ClassTypes'
    BY <1>1, <1>2, Zenon DEF ClassTypes, Rest
  <1>4. Becomes(t, g)
    BY <1>1, CalledTracks, Zenon
  <1>5. SameClinits /\ SameVerifies /\ NoMoreUnrun
    BY <1>1, <1>2, <1>4, SameByBecoming, Zenon
  <1>6. ClinitInv'
    BY <1>1, <1>5, ClinitStays, Zenon
  <1>7. VerifyInv' /\ RunInv'
    BY <1>1, <1>5, VerifyStays, RunStays, Zenon
  <1>8. CallInv'
    BY <1>1, CallInvCalled, Zenon
  <1>9. StatusAdvances
    BY StatusSame, Zenon
  <1>10. ReadyClasses(t, n)' = ReadyClasses(t, n)
    BY <1>5, Zenon DEF SameClinits, ReadyClasses, ReadyAt
  <1>11. ReadyInv'
    BY <1>1, <1>9, <1>10, ReadyCalled, Zenon
  <1>12. ASSUME ~RacingFailures
         PROVE  CheckInv' /\ ~aborted'
    <2>1. CheckInv /\ ~aborted
      BY <1>12, ZenonT(40) DEF ClassInv
    <2>2. /\ g.op = "init" /\ g.pc = "verified" => status'[c] # "Initialized"
          /\ g.pc \notin {"wait", "woken", "body"}
      OBVIOUS
    <2>3. CheckInv'
      BY <1>1, <1>9, <1>12, <2>1, <2>2, CheckCalled, Zenon
    <2> QED  BY <2>1, <2>3, Zenon
  <1> QED
    BY <1>3, <1>6, <1>7, <1>8, <1>11, <1>12, ZenonT(40) DEF ClassInv

LEMMA CallReturns ==
    ASSUME ClassInv, StatusAdvances, ClinitInv', RunInv', LockInv', VerifyInv',
           status' \in [Class -> {"Resolved", "Verifying", "Verified", "Initializing",
                                  "Initialized", "Error"}],
           lock' \in [Class -> Initializer \cup {NoThread}],
           clinit_thread' = clinit_thread, uses' = uses, clinit_runs' = clinit_runs,
           NEW t \in Initializer, Returns(stack', t),
           NEW ok \in BOOLEAN, success' = [success EXCEPT ![t] = ok], aborted' \in BOOLEAN,
           NEW c \in Class, c = Top(t).class,
           NEW n \in Nat, n = Len(stack[t]), NEW m \in Nat, m + 1 = n,
           Top(t).op = "init" /\ ok => ReadyAt(t, m, c)',
           ~RacingFailures =>
              /\ Top(t).op = "init" /\ ~ok => status'[c] = "Error"
              /\ Top(t).op = "verify" => status'[c] # "Resolved"
              /\ ~aborted'
    PROVE  ClassInv'
  <1>1. ClassTypes /\ ClinitInv /\ LockInv /\ VerifyInv /\ CallInv /\ ReadyInv
    BY DEF ClassInv
  <1>2. Rest(stack', t) /\ stack[t] # <<>>
    BY DEF Returns
  <1>3. ClassTypes'
    BY <1>1, <1>2 DEF ClassTypes, Rest
  <1>4. success'[t] = ok /\ \A v \in Initializer : v # t => success'[v] = success[v]
    BY <1>1 DEF ClassTypes
  <1>5. CallInv'
    BY <1>1, CallInvReturns, Zenon
  <1>6. ReadyInv'
    BY <1>1, <1>4, ReadyReturns, Zenon
  <1>7. ASSUME ~RacingFailures
        PROVE  CheckInv' /\ ~aborted'
    <2>1. CheckInv
      BY <1>7, Zenon DEF ClassInv
    <2>2. CheckInv'
      BY <1>1, <1>4, <1>7, <2>1, CheckReturns, Zenon
    <2> QED  BY <1>7, <2>2, Zenon
  <1> QED
    BY <1>3, <1>5, <1>6, <1>7, Zenon DEF ClassInv

\* It returns, and neither initializes nor verifies its class.
LEMMA JustReturns ==
    ASSUME ClassInv, Same, LockInv',
           lock' \in [Class -> Initializer \cup {NoThread}], clinit_runs' = clinit_runs,
           NEW t \in Initializer, Returns(stack', t),
           NEW ok \in BOOLEAN, success' = [success EXCEPT ![t] = ok], aborted' \in BOOLEAN,
           NEW c \in Class, c = Top(t).class,
           ~InClinit(Top(t)), ~Verifying(Top(t)),
           Top(t).op = "init" /\ ok => status[c] = "Initialized"
                                       \/ (status[c] = "Initializing" /\ clinit_thread[c] = t),
           ~RacingFailures =>
              /\ Top(t).op = "init" /\ ~ok => status[c] = "Error"
              /\ Top(t).op = "verify" => status[c] # "Resolved"
              /\ ~aborted'
    PROVE  ClassInv'
  <1> USE DEF Same
  <1>1. ClassTypes /\ ClinitInv /\ LockInv /\ VerifyInv /\ CallInv /\ ReadyInv /\ RunInv
    BY DEF ClassInv
  <1>2. stack[t] # <<>>
    BY DEF Returns
  <1>3. Leaves(t)
    BY <1>1, ReturnsTracks, Zenon
  <1>4. SameClinits /\ SameVerifies /\ NoMoreUnrun
    BY <1>1, <1>2, <1>3, SameByLeaving, Zenon
  <1>5. ClinitInv' /\ VerifyInv' /\ RunInv'
    BY <1>1, <1>4, ClinitStays, VerifyStays, RunStays, Zenon
  <1>6. StatusAdvances
    BY StatusSame, Zenon
  <1>7. PICK n \in Nat : n = Len(stack[t]) /\ n >= 1
    BY <1>1, <1>2, TopIsAt
  <1>8. PICK m \in Nat : m + 1 = n
    BY <1>7, Predecessor, Zenon
  <1>9. ASSUME Top(t).op = "init", ok
        PROVE  ReadyAt(t, m, c)'
    <2>1. CASE status[c] = "Initialized"
      BY <2>1, Zenon DEF ReadyAt
    <2>2. CASE status[c] = "Initializing" /\ clinit_thread[c] = t
      <3>1. PICK u \in Initializer, j \in Nat : Clinit(u, j, c)
        BY <1>1, <2>2, Zenon DEF ClinitInv
      <3>2. u = t
        BY <1>1, <2>2, <3>1, Zenon DEF ClinitInv
      <3>3. ~Clinit(t, n, c)
        BY <1>1, <1>2, <1>7, TopTracked, Zenon
      <3>4. j # n
        BY <3>1, <3>2, <3>3, Zenon
      <3>5. j \in 1 .. n
        BY <1>7, <3>1, <3>2, Zenon DEF Clinit
      <3>6. j <= m
        BY <1>8, <3>4, <3>5
      <3>7. Clinit(t, j, c)'
        BY <1>4, <3>1, <3>2, Zenon DEF SameClinits
      <3> QED  BY <3>6, <3>7, Zenon DEF ReadyAt
    <2> QED  BY <1>9, <2>1, <2>2, Zenon
  <1>10. status' \in [Class -> {"Resolved", "Verifying", "Verified", "Initializing",
                                  "Initialized", "Error"}]
    BY <1>1 DEF ClassTypes
  <1>11. ~RacingFailures =>
              /\ Top(t).op = "init" /\ ~ok => status'[c] = "Error"
              /\ Top(t).op = "verify" => status'[c] # "Resolved"
              /\ ~aborted'
    OBVIOUS
  <1> QED
    BY <1>5, <1>6, <1>7, <1>8, <1>9, <1>10, <1>11, CallReturns, ZenonT(40)

\* It goes on once it has set the status of its class.
LEMMA AdvancesTo ==
    ASSUME ClassInv, StatusAdvances, ClinitInv', RunInv', LockInv', VerifyInv',
           status' \in [Class -> {"Resolved", "Verifying", "Verified", "Initializing",
                                  "Initialized", "Error"}],
           lock' \in [Class -> Initializer \cup {NoThread}],
           clinit_thread' \in [Class -> Initializer \cup {NoThread}],
           uses' = uses, clinit_runs' = clinit_runs, success' = success, aborted' = aborted,
           NEW t \in Initializer, NEW g, Goes(stack', t, g), g.pc = "super",
           NEW c \in Class, c = Top(t).class, c = g.class, g.op = Top(t).op
    PROVE  ClassInv'
  <1>1. ClassTypes /\ ClinitInv /\ LockInv /\ VerifyInv /\ CallInv /\ ReadyInv
    BY DEF ClassInv
  <1>2. Rest(stack', t) /\ stack[t] # <<>>
    BY SMTT(20) DEF Goes
  <1>3. ClassTypes'
    BY <1>1, <1>2 DEF ClassTypes, Rest
  <1>4. CallInv'
    BY <1>1, CallInvGoes, Zenon
  <1>5. PICK n \in Nat : n = Len(stack[t])
    BY <1>1, <1>2, TopIsAt, Zenon
  <1>6. g.pc \notin {"clinit", "used", "superDone", "verified", "wait", "woken", "body"}
    BY Zenon
  <1>7. Prepared(g, ReadyClasses(t, n)', {}, TRUE, success[t])
    BY <1>6, PlainIsPrepared, Zenon
  <1>8. ReadyInv'
    BY <1>1, <1>5, <1>7, ReadyGoes, Zenon
  <1>9. ASSUME ~RacingFailures
        PROVE  CheckInv' /\ ~aborted'
    <2>1. CheckInv /\ ~aborted
      BY <1>9, Zenon DEF ClassInv
    <2>2. CheckInv'
      BY <1>1, <1>6, <1>9, <2>1, CheckGoes, Zenon
    <2> QED  BY <2>1, <2>2, Zenon
  <1> QED
    BY <1>3, <1>4, <1>8, <1>9, Zenon DEF ClassInv

LEMMA GoesPlainly ==
    ASSUME ClassInv, Same, lock' = lock, clinit_runs' = clinit_runs,
           success' = success, aborted' = aborted,
           NEW t \in Initializer, NEW g, Goes(stack', t, g),
           NEW c \in Class, c = Top(t).class, c = g.class, g.op = Top(t).op,
           InClinit(g) <=> InClinit(Top(t)), Verifying(g) <=> Verifying(Top(t)),
           NotRun(g) => NotRun(Top(t)), \A d : ~HoldsLock(g, d),
           NEW n \in Nat, n = Len(stack[t]),
           Prepared(g, ReadyClasses(t, n), {}, TRUE, success[t]),
           g.op = "init" => g.pc # "superDone",
           ~RacingFailures =>
              /\ g.op = "init" /\ g.pc = "verified" => status[c] \notin {"Initialized", "Resolved"}
              /\ g.pc \in {"wait", "woken"} => status[c] \in {"Initializing", "Initialized", "Error"}
              /\ g.op = "verify" /\ g.pc = "body" /\ Super[c] # None => IsVerified(Super[c])
    PROVE  ClassInv'
  <1>1. ClassTypes /\ LockInv /\ RunInv
    BY DEF ClassInv
  <1>2. Becomes(t, g) /\ stack[t] # <<>>
    BY <1>1, GoesTracks, Zenon DEF Goes
  <1>3. NoMoreUnrun /\ NoMoreHolds
    BY <1>1, <1>2, SameByBecoming, Zenon
  <1>4. LockInv'
    BY <1>1, <1>3, LockStays, Zenon
  <1>5. RunInv'
    BY <1>1, <1>3, RunStays, Zenon DEF Same
  <1>6. lock' \in [Class -> Initializer \cup {NoThread}] /\ clinit_runs' \in [Class -> {0, 1}]
    BY <1>1, Zenon DEF ClassTypes
  <1> QED
    BY <1>4, <1>5, <1>6, GoesOn, ZenonT(40)

\* What a returning call does to locks.
LEMMA LocksOnReturn ==
    ASSUME ClassTypes, LockInv, NEW t \in Initializer, Returns(stack', t), NEW c \in Class,
           lock' = lock \/ (Unlock(c) /\ HoldsLock(Top(t), c))
    PROVE  LockInv' /\ lock' \in [Class -> Initializer \cup {NoThread}]
  <1>1. stack[t] # <<>> /\ Leaves(t)
    BY ReturnsTracks, Zenon DEF Returns
  <1>2. CASE lock' = lock
    <2>1. NoMoreHolds
      BY <1>1, SameByLeaving, Zenon
    <2> QED  BY <1>2, <2>1, LockStays DEF ClassTypes
  <1>3. CASE Unlock(c) /\ HoldsLock(Top(t), c)
    <2>1. lock' \in [Class -> Initializer \cup {NoThread}]
      BY <1>3 DEF Unlock, ClassTypes
    <2>2. LockInv'
      BY <1>1, <1>3, LockReleased, Zenon DEF Leaves
    <2> QED  BY <2>1, <2>2
  <1> QED  BY <1>2, <1>3

\* t's innermost call, once it is at pc.
LEMMA TopAtPc ==
    ASSUME ClassTypes, NEW t \in Initializer, stack[t] # <<>>,
           NEW pc \in Pc, pc \in Early => Top(t).pc \in Early,
           Top(t).op = "verify" /\ pc = "superDone" => Super[Top(t).class] # None,
           NEW g, g = [Top(t) EXCEPT !.pc = pc]
    PROVE  /\ g \in ClassFrame /\ g.pc = pc
           /\ g.op = Top(t).op /\ g.class = Top(t).class /\ g.used = Top(t).used
           /\ Top(t).class \in Class /\ Top(t).used \subseteq Class
           /\ Goes(GoTo(t, pc), t, g)
  <1>1. Top(t) \in ClassFrame
    BY TopIsAt
  <1>2. g \in ClassFrame /\ g.pc = pc /\ g.op = Top(t).op /\ g.class = Top(t).class
        /\ g.used = Top(t).used /\ Top(t).class \in Class /\ Top(t).used \subseteq Class
    BY <1>1 DEF ClassFrame
  <1>3. Goes(GoTo(t, pc), t, g)
    BY <1>2, GoToGoes, Zenon
  <1> QED  BY <1>2, <1>3, Zenon

LEMMA ClassesStart == ClassesInit => ClassInv
  <1> SUFFICES ASSUME ClassesInit
               PROVE  ClassInv
    OBVIOUS
  <1> USE DEF ClassesInit
  <1>1. ClassTypes
    <2>1. <<>> \in Seq(ClassFrame)
      OBVIOUS
    <2> QED  BY <2>1, InitializerAssumption, Zenon DEF ClassTypes
  <1>2. \A t \in Initializer, k \in Nat : k \notin 1 .. Len(stack[t])
    OBVIOUS
  <1>3. \A t \in Initializer, k \in Nat, c \in Class :
           ~Clinit(t, k, c) /\ ~Unrun(t, k, c) /\ ~Verifies(t, k, c) /\ ~Holds(t, k, c)
    BY <1>2, Zenon DEF Clinit, Unrun, Verifies, Holds
  <1>4. \A c \in Class : status[c] = "Resolved" /\ clinit_runs[c] = 0
    OBVIOUS
  <1>5. ClinitInv /\ RunInv /\ LockInv /\ VerifyInv
    BY <1>3, <1>4 DEF ClinitInv, RunInv, LockInv, VerifyInv
  <1>6. CallInv
    BY DEF CallInv
  <1>7. ReadyInv /\ CheckInv
    BY <1>2, Zenon DEF ReadyInv, CheckInv
  <1> QED
    BY <1>1, <1>5, <1>6, <1>7 DEF ClassInv

LEMMA EnsureInitializedStep ==
    ASSUME ClassInv, NEW t \in Initializer, NEW c \in Class, EnsureInitialized(t, c)
    PROVE  ClassInv'
  <1> DEFINE e == CallClass("init", c)
  <1>1. ClassTypes /\ ClinitInv /\ RunInv /\ LockInv /\ VerifyInv /\ CallInv /\ ReadyInv
    BY DEF ClassInv
  <1>2. /\ stack[t] = <<>> /\ stack' = [stack EXCEPT ![t] = <<e>>]
        /\ status' = status /\ clinit_thread' = clinit_thread /\ lock' = lock /\ uses' = uses
        /\ success' = success /\ aborted' = aborted /\ clinit_runs' = clinit_runs
    BY SMTT(20) DEF EnsureInitialized, classVars, inputVars
  <1>3. e \in ClassFrame /\ e.pc = "begin" /\ e.op = "init" /\ e.class = c
    BY DEF CallClass, ClassFrame, Pc, Early
  <1> HIDE DEF e
  <1>4. Enters(stack', t, e) /\ Rest(stack', t)
    BY <1>1, <1>2, <1>3, FirstCallEnters, Zenon DEF Enters
  <1>5. Leaves(t)
    BY <1>1, <1>3, <1>4, EntersTracks, Zenon
  <1>6. SameClinits /\ NoMoreUnrun /\ SameVerifies /\ NoMoreHolds
    BY <1>1, <1>2, <1>5, SameByEntering, Zenon
  <1>7. ClassTypes'
    BY <1>1, <1>2, <1>4 DEF ClassTypes, Rest
  <1>8. ClinitInv' /\ RunInv' /\ LockInv' /\ VerifyInv'
    BY <1>1, <1>2, <1>6, ClinitStays, RunStays, LockStays, VerifyStays, Zenon
  <1>9. CallInv'
    BY <1>1, <1>3, <1>4, CallInvEnters, Zenon
  <1>10. StatusAdvances
    BY <1>2, StatusSame
  <1>11. ReadyInv'
    BY <1>1, <1>2, <1>3, <1>4, <1>10, ReadyEnters, Zenon
  <1>12. ASSUME ~RacingFailures
         PROVE  CheckInv' /\ ~aborted'
    BY <1>1, <1>2, <1>3, <1>4, <1>10, <1>12, CheckEnters, Zenon DEF ClassInv
  <1> QED
    BY <1>7, <1>8, <1>9, <1>11, <1>12, Zenon DEF ClassInv

LEMMA CheckInitializedStep ==
    ASSUME ClassInv, NEW t \in Initializer, CheckInitialized(t)
    PROVE  ClassInv'
  <1>1. ClassTypes /\ LockInv
    BY DEF ClassInv
  <1>2. /\ stack[t] # <<>> /\ Top(t).op = "init" /\ Top(t).pc = "begin"
        /\ Same /\ lock' = lock /\ aborted' = aborted /\ clinit_runs' = clinit_runs
    BY Zenon DEF CheckInitialized, AtStep, classVars, inputVars, Same
  <1>3. ~InClinit(Top(t)) /\ ~Verifying(Top(t))
    BY <1>2 DEF InClinit, Verifying
  <1>4. PICK c \in Class : c = Top(t).class
    BY <1>1, <1>2, TopIsAt, Zenon DEF ClassFrame
  <1>5. CASE status[c] = "Initialized"
    <2>1. stack' = ReturnFromClass(t) /\ success' = [success EXCEPT ![t] = TRUE]
      BY <1>4, <1>5 DEF CheckInitialized, Returned
    <2>2. Returns(stack', t)
      BY <1>1, <1>2, <2>1, ReturnReturns, Zenon
    <2>3. LockInv' /\ lock' \in [Class -> Initializer \cup {NoThread}]
      BY <1>1, <1>2, <2>2, LocksOnReturn, Zenon
    <2>4. aborted' \in BOOLEAN /\ (~RacingFailures => ~aborted')
      BY <1>1, <1>2 DEF ClassTypes, ClassInv
    <2>5. TRUE \in BOOLEAN /\ Top(t).op # "verify"
      BY <1>2, Zenon
    <2> QED
      BY <1>2, <1>3, <1>4, <1>5, <2>1, <2>2, <2>3, <2>4, <2>5, JustReturns, ZenonT(40)
  <1>6. CASE status[c] # "Initialized"
    <2>1. stack' = GoTo(t, "lock") /\ success' = success
      BY <1>4, <1>6 DEF CheckInitialized
    <2>2. PICK g : g = [Top(t) EXCEPT !.pc = "lock"]
      BY Zenon
    <2>3. g.pc = "lock" /\ g.op = Top(t).op /\ g.class = Top(t).class /\ Goes(stack', t, g)
      <3>1. "lock" \in Pc /\ ("lock" \in Early => Top(t).pc \in Early)
        BY <1>2 DEF Pc, Early
      <3>2. "lock" # "superDone"
        OBVIOUS
      <3> QED
        BY <1>1, <1>2, <2>1, <2>2, <3>1, <3>2, TopAtPc, ZenonT(20)
    <2>4. PICK n \in Nat : n = Len(stack[t])
      BY <1>1, <1>2, TopIsAt
    <2>5. Prepared(g, ReadyClasses(t, n), {}, TRUE, success[t])
      BY <2>3, PlainIsPrepared, Zenon
    <2>6. ~InClinit(g) /\ ~Verifying(g) /\ ~NotRun(g) /\ \A d : ~HoldsLock(g, d)
      BY <2>3, Untracked
    <2>7. g.pc # "superDone" /\ g.pc # "verified" /\ g.pc # "body" /\ g.pc \notin {"wait", "woken"}
      BY <2>3
    <2> QED
      BY <1>2, <1>3, <1>4, <2>1, <2>3, <2>4, <2>5, <2>6, <2>7, GoesPlainly, ZenonT(40)
  <1> QED  BY <1>5, <1>6

LEMMA InitializerWakesEarlyStep ==
    ASSUME ClassInv, NEW t \in Initializer, InitializerWakesEarly(t)
    PROVE  ClassInv'
  <1>1. ClassTypes /\ LockInv
    BY DEF ClassInv
  <1>2. /\ stack[t] # <<>> /\ Top(t).op = "init" /\ Top(t).pc = "wait"
        /\ Same /\ lock' = lock /\ aborted' = aborted /\ clinit_runs' = clinit_runs
        /\ stack' = GoTo(t, "woken") /\ success' = success
    BY DEF InitializerWakesEarly, AtStep, classVars, inputVars, Same
  <1>3. ~InClinit(Top(t)) /\ ~Verifying(Top(t))
    BY <1>2 DEF InClinit, Verifying
  <1>4. PICK c \in Class : c = Top(t).class
    BY <1>1, <1>2, TopIsAt, Zenon DEF ClassFrame
  <1>5. PICK g : g = [Top(t) EXCEPT !.pc = "woken"]
    BY Zenon
  <1>6. g.pc = "woken" /\ g.op = Top(t).op /\ g.class = Top(t).class /\ Goes(stack', t, g)
    BY <1>1, <1>2, <1>5, TopAtPc DEF Pc, Early
  <1>7. PICK n \in Nat : n = Len(stack[t]) /\ n \in 1 .. Len(stack[t])
    BY <1>1, <1>2, TopIsAt
  <1>8. Prepared(g, ReadyClasses(t, n), {}, TRUE, success[t])
    BY <1>6, PlainIsPrepared, Zenon
  <1>9. ~InClinit(g) /\ ~Verifying(g) /\ ~NotRun(g) /\ \A d : ~HoldsLock(g, d)
    BY <1>6, Untracked
  <1>10. g.pc # "superDone" /\ g.pc # "verified" /\ g.pc # "body"
    BY <1>6, SMTT(20)
  <1>11. ~RacingFailures => status[c] \in {"Initializing", "Initialized", "Error"}
    <2>1. Top(t) = At(stack, t, n)
      BY <1>1, <1>2, <1>7, TopIsAt
    <2>2. ~RacingFailures => CheckCall(t, n)
      BY <1>7 DEF ClassInv, CheckInv
    <2> QED  BY <1>2, <1>4, <2>1, <2>2, SMTT(20) DEF CheckCall
  <1> QED
    BY <1>2, <1>3, <1>4, <1>6, <1>7, <1>8, <1>9, <1>10, <1>11, GoesPlainly, Zenon

\* Nothing changes but, where classes may fail under a verifier, that a CHECK
\* has failed.
LEMMA NothingElseChanges ==
    ASSUME ClassInv, UNCHANGED <<classVars, uses, stack, success, clinit_runs>>,
           aborted' \in BOOLEAN, ~RacingFailures => aborted' = aborted
    PROVE  ClassInv'
  <1>1. ClassTypes'
    BY DEF ClassInv, ClassTypes, classVars
  <1>2. ClinitInv' /\ RunInv' /\ LockInv' /\ VerifyInv'
    <2>1. \A t, k, c : Clinit(t, k, c)' = Clinit(t, k, c) /\ Unrun(t, k, c)' = Unrun(t, k, c)
      BY Zenon DEF Clinit, Unrun
    <2>2. ClinitInv'
      BY <2>1, Zenon DEF ClassInv, classVars, ClinitInv
    <2>3. RunInv'
      BY <2>1, Zenon DEF ClassInv, classVars, RunInv
    <2>4. LockInv' /\ VerifyInv'
      BY Zenon DEF ClassInv, classVars, LockInv, VerifyInv, Verifies, Holds
    <2> QED  BY <2>2, <2>3, <2>4, Zenon
  <1>3. CallInv' /\ ReadyInv'
    BY Zenon DEF ClassInv, classVars, CallInv, ReadyInv, ReadyCall, ReadyClasses, ReadyAt, NextClass, Clinit
  <1>4. ~RacingFailures => CheckInv' /\ ~aborted'
    BY ZenonT(40) DEF ClassInv, classVars, CheckInv, CheckCall, IsVerified
  <1> QED  BY <1>1, <1>2, <1>3, <1>4, SMTT(20) DEF ClassInv

\* What the invariant says of t's innermost call.
LEMMA TopChecked ==
    ASSUME ClassInv, NEW t \in Initializer, stack[t] # <<>>
    PROVE  \E n \in Nat : /\ n = Len(stack[t]) /\ n \in 1 .. Len(stack[t])
                          /\ Top(t) = At(stack, t, n)
                          /\ ReadyCall(t, n)
                          /\ ~RacingFailures => CheckCall(t, n)
  <1>1. ClassTypes
    BY DEF ClassInv
  <1>2. PICK n \in Nat : n = Len(stack[t]) /\ n \in 1 .. Len(stack[t])
    BY <1>1, TopIsAt
  <1>3. Top(t) = At(stack, t, n)
    BY <1>1, <1>2, TopIsAt
  <1>4. ReadyCall(t, n) /\ (~RacingFailures => CheckCall(t, n))
    BY <1>2, Zenon DEF ClassInv, ReadyInv, CheckInv
  <1> QED  BY <1>2, <1>3, <1>4, Zenon

LEMMA LockClassStep ==
    ASSUME ClassInv, NEW t \in Initializer, LockClass(t)
    PROVE  ClassInv'
  <1>1. ClassTypes /\ LockInv /\ RunInv
    BY SMTT(20) DEF ClassInv
  <1>2. /\ stack[t] # <<>> /\ Top(t).op = "init" /\ Top(t).pc = "lock"
        /\ Same /\ aborted' = aborted /\ clinit_runs' = clinit_runs
    BY DEF LockClass, AtStep, classVars, inputVars, Same
  <1>3. ~InClinit(Top(t)) /\ ~Verifying(Top(t)) /\ ~NotRun(Top(t))
    BY <1>2 DEF InClinit, Verifying, NotRun
  <1>4. PICK c \in Class : c = Top(t).class
    BY <1>1, <1>2, TopIsAt, Zenon DEF ClassFrame
  <1>5. PICK n \in Nat : n = Len(stack[t])
    BY <1>1, <1>2, TopIsAt
  <1>6. CASE status[c] \in {"Initialized", "Error"}
    <2>1. /\ stack' = ReturnFromClass(t) /\ lock' = lock
          /\ success' = [success EXCEPT ![t] = (status[c] = "Initialized")]
      BY <1>4, <1>6, Zenon DEF LockClass, Returned
    <2>2. Returns(stack', t)
      BY <1>1, <1>2, <2>1, ReturnReturns, Zenon
    <2>3. LockInv' /\ lock' \in [Class -> Initializer \cup {NoThread}]
      BY <1>1, <1>2, <2>1, <2>2, LocksOnReturn, Zenon
    <2>4. aborted' \in BOOLEAN /\ (~RacingFailures => ~aborted')
      BY <1>1, <1>2 DEF ClassTypes, ClassInv
    <2>5. (status[c] = "Initialized") \in BOOLEAN /\ Top(t).op # "verify"
          /\ (status[c] # "Initialized" => status[c] = "Error")
      BY <1>2, <1>6, Zenon
    <2> QED
      BY <1>2, <1>3, <1>4, <2>1, <2>2, <2>3, <2>4, <2>5, JustReturns, Zenon
  <1>7. CASE status[c] \notin {"Initialized", "Error"}
    <2>1. /\ CanLock(c) /\ Lock(t, c) /\ success' = success
          /\ stack' = IF IsVerified(c) THEN GoTo(t, "verified")
                      ELSE CallFrom(t, "verified", "verify", c)
      BY <1>4, <1>7 DEF LockClass
    <2>2. lock' \in [Class -> Initializer \cup {NoThread}]
      BY <1>1, <2>1 DEF ClassTypes, Lock
    <2>3. PICK g : g = [Top(t) EXCEPT !.pc = "verified"]
      BY Zenon
    <2>4. /\ g \in ClassFrame /\ g.pc = "verified" /\ g.op = Top(t).op /\ g.class = Top(t).class
          /\ Goes(GoTo(t, "verified"), t, g)
      <3>1. "verified" \in Pc /\ ("verified" \in Early => Top(t).pc \in Early)
        BY <1>2 DEF Pc, Early
      <3>2. "verified" # "superDone"
        OBVIOUS
      <3> QED
        BY <1>1, <1>2, <2>3, <3>1, <3>2, TopAtPc, ZenonT(20)
    <2>5. ~InClinit(g) /\ ~Verifying(g) /\ ~NotRun(g) /\ \A d \in Class : HoldsLock(g, d) => d = c
      BY <1>2, <1>4, <2>4, ZenonT(20) DEF InClinit, Verifying, NotRun, HoldsLock
    <2>6. \A N, b : Prepared(g, ReadyClasses(t, n), N, b, success[t])
      BY <2>4, PlainIsPrepared
    <2>7. g.pc # "superDone" /\ g.pc # "body" /\ g.pc \notin {"wait", "woken"}
          /\ g.pc \in {"verified", "superDone", "used"}
      BY <2>4
    <2>8. CASE IsVerified(c)
      <3>1. Goes(stack', t, g)
        BY <2>1, <2>4, <2>8
      <3>2. Becomes(t, g)
        BY <1>1, <3>1, GoesTracks, Zenon
      <3>3. LockInv'
        BY <1>1, <2>1, <2>5, <3>2, LockTaken, Zenon
      <3>4. NoMoreUnrun
        BY <1>1, <1>2, <2>4, <2>5, <3>2, SameByBecoming, Zenon
      <3>5. RunInv'
        BY <1>1, <1>2, <3>4, RunStays, Zenon DEF Same
      <3>6. status[c] \notin {"Initialized", "Resolved"}
        BY <1>7, <2>8 DEF IsVerified
      <3>7. clinit_runs' \in [Class -> {0, 1}]
        BY <1>1, <1>2 DEF ClassTypes
      <3> QED
        BY <1>2, <1>3, <1>4, <1>5, <2>1, <2>2, <2>4, <2>5, <2>6, <2>7, <3>1, <3>3, <3>5, <3>6,
           <3>7, GoesOn, ZenonT(40)
    <2>9. CASE ~IsVerified(c)
      <3> DEFINE e == CallClass("verify", c)
      <3>1. e.pc = "begin" /\ e.class = c /\ e.op = "verify"
        BY DEF CallClass
      <3>2. Called(stack', t, g, e)
        BY <1>1, <1>2, <2>1, <2>3, <2>4, <2>9, CallFromCalls, Zenon
      <3> HIDE DEF e
      <3>3. Becomes(t, g)
        BY <1>1, <3>1, <3>2, CalledTracks, ZenonT(40)
      <3>4. LockInv'
        BY <1>1, <2>1, <2>5, <3>3, LockTaken, Zenon
      <3>5. Calls(g, e)
        BY <1>2, <1>4, <2>4, <3>1 DEF Calls
      <3>6. status[c] # "Initialized"
        BY <1>7
      <3> QED
        BY <1>2, <1>3, <1>4, <1>5, <2>1, <2>2, <2>4, <2>5, <2>6, <2>7, <3>1, <3>2, <3>4, <3>5, <3>6,
           MakesCall, ZenonT(40)
    <2> QED  BY <2>8, <2>9, SMTT(20)
  <1> QED  BY <1>6, <1>7

LEMMA WaitForInitializeClassStep ==
    ASSUME ClassInv, NEW t \in Initializer, WaitForInitializeClass(t)
    PROVE  ClassInv'
  <1>1. ClassTypes /\ LockInv
    BY DEF ClassInv
  <1>2. /\ stack[t] # <<>> /\ Top(t).op = "init" /\ Top(t).pc = "woken"
        /\ Same /\ lock' = lock /\ clinit_runs' = clinit_runs
    BY DEF WaitForInitializeClass, AtStep, classVars, inputVars, Same
  <1>3. ~InClinit(Top(t)) /\ ~Verifying(Top(t))
    BY <1>2 DEF InClinit, Verifying
  <1>4. PICK c \in Class : c = Top(t).class
    BY <1>1, <1>2, TopIsAt, Zenon DEF ClassFrame
  <1>5. PICK n \in Nat : /\ n = Len(stack[t]) /\ Top(t) = At(stack, t, n)
                         /\ ~RacingFailures => CheckCall(t, n)
    BY <1>2, TopChecked
  <1>6. CASE status[c] = "Initializing"
    <2>1. stack' = GoTo(t, "wait") /\ success' = success /\ aborted' = aborted
      BY <1>4, <1>6 DEF WaitForInitializeClass
    <2>2. PICK g : g = [Top(t) EXCEPT !.pc = "wait"]
      BY Zenon
    <2>3. g.pc = "wait" /\ g.op = Top(t).op /\ g.class = Top(t).class /\ Goes(stack', t, g)
      BY <1>1, <1>2, <2>1, <2>2, TopAtPc DEF Pc, Early
    <2>4. Prepared(g, ReadyClasses(t, n), {}, TRUE, success[t])
      BY <2>3, PlainIsPrepared, ZenonT(40)
    <2>5. ~InClinit(g) /\ ~Verifying(g) /\ ~NotRun(g) /\ \A d : ~HoldsLock(g, d)
      BY <2>3, Untracked
    <2>6. g.pc # "superDone" /\ g.pc # "verified" /\ g.pc # "body"
          /\ status[c] \in {"Initializing", "Initialized", "Error"}
      BY <1>6, <2>3
    <2> QED
      BY <1>2, <1>3, <1>4, <1>5, <2>1, <2>3, <2>4, <2>5, <2>6, GoesPlainly, Zenon
  <1>7. CASE status[c] \in {"Error", "Initialized"}
    <2>1. /\ stack' = ReturnFromClass(t) /\ aborted' = aborted
          /\ success' = [success EXCEPT ![t] = (status[c] = "Initialized")]
      BY <1>4, <1>7 DEF WaitForInitializeClass, Returned
    <2>2. Returns(stack', t)
      BY <1>1, <1>2, <2>1, ReturnReturns, Zenon
    <2>3. LockInv' /\ lock' \in [Class -> Initializer \cup {NoThread}]
      BY <1>1, <1>2, <2>1, <2>2, LocksOnReturn, Zenon
    <2>4. aborted' \in BOOLEAN /\ (~RacingFailures => ~aborted')
      BY <1>1, <2>1 DEF ClassTypes, ClassInv
    <2>5. (status[c] = "Initialized") \in BOOLEAN /\ Top(t).op # "verify"
          /\ (status[c] # "Initialized" => status[c] = "Error")
      BY <1>2, <1>7
    <2> QED
      BY <1>2, <1>3, <1>4, <2>1, <2>2, <2>3, <2>4, <2>5, JustReturns, ZenonT(40)
  <1>8. CASE status[c] \notin {"Initializing", "Error", "Initialized"}
    <2>1. aborted' = TRUE /\ stack' = stack /\ success' = success
      BY <1>4, <1>8, ZenonT(20) DEF WaitForInitializeClass
    <2>2. RacingFailures
      BY <1>2, <1>4, <1>5, <1>8 DEF CheckCall
    <2> QED
      BY <1>2, <2>1, <2>2, NothingElseChanges DEF Same, classVars
  <1> QED  BY <1>6, <1>7, <1>8

LEMMA ClinitGoesOnStep ==
    ASSUME ClassInv, NEW t \in Initializer, ClinitGoesOn(t)
    PROVE  ClassInv'
  <1>1. ClassTypes
    BY DEF ClassInv
  <1>2. /\ stack[t] # <<>> /\ Top(t).op = "init" /\ Top(t).pc = "used"
        /\ Same /\ lock' = lock /\ clinit_runs' = clinit_runs /\ aborted' = aborted
        /\ success' = success
        /\ stack' = GoTo(t, IF success[t] THEN "clinit" ELSE "failed")
    BY Zenon DEF ClinitGoesOn, AtStep, classVars, inputVars, Same
  <1>3. InClinit(Top(t)) /\ ~Verifying(Top(t))
    BY <1>2 DEF InClinit, Verifying
  <1>4. PICK c \in Class : c = Top(t).class
    BY <1>1, <1>2, TopIsAt, Zenon DEF ClassFrame
  <1>5. PICK n \in Nat : /\ n = Len(stack[t]) /\ Top(t) = At(stack, t, n)
                         /\ ReadyCall(t, n)
    BY <1>2, TopChecked
  <1>6. PICK pc : pc = IF success[t] THEN "clinit" ELSE "failed"
    OBVIOUS
  <1>7. PICK g : g = [Top(t) EXCEPT !.pc = pc]
    BY Zenon
  <1>8. /\ g.pc = pc /\ g.op = Top(t).op /\ g.class = Top(t).class /\ g.used = Top(t).used
        /\ Goes(stack', t, g)
    <2>1. pc \in {"clinit", "failed"}
      BY <1>6
    <2> QED  BY <1>1, <1>2, <1>6, <1>7, <2>1, TopAtPc, SMTT(20) DEF Pc, Early
  <1>9. NextClass(t, n) = {}
    BY <1>5 DEF NextClass
  <1>10. Prepared(g, ReadyClasses(t, n), {}, TRUE, success[t])
    <2>1. Prepared(Top(t), ReadyClasses(t, n), {}, TRUE, success[t])
      BY <1>5, <1>9, Zenon DEF ReadyCall
    <2> QED  BY <1>2, <1>6, <1>8, <2>1, Zenon DEF Prepared
  <1>11. InClinit(g) /\ ~Verifying(g) /\ ~NotRun(g) /\ \A d : ~HoldsLock(g, d)
    BY <1>2, <1>6, <1>8, SMTT(20) DEF InClinit, Verifying, NotRun, HoldsLock
  <1>12. g.pc # "superDone" /\ g.pc # "verified" /\ g.pc # "body" /\ g.pc \notin {"wait", "woken"}
    BY <1>6, <1>8
  <1> QED
    BY <1>2, <1>3, <1>4, <1>5, <1>8, <1>10, <1>11, <1>12, GoesPlainly, Zenon

LEMMA ClinitReturnsStep ==
    ASSUME ClassInv, NEW t \in Initializer, ClinitReturns(t)
    PROVE  ClassInv'
  <1>1. ClassTypes
    BY DEF ClassInv
  <1>2. /\ stack[t] # <<>> /\ Top(t).op = "init" /\ Top(t).pc = "clinit"
        /\ Same /\ lock' = lock /\ clinit_runs' = clinit_runs /\ aborted' = aborted
        /\ success' = success
        /\ stack' = GoTo(t, IF flaw[Top(t).class] = "clinit" THEN "failed" ELSE "done")
    BY DEF ClinitReturns, AtStep, classVars, inputVars, Same
  <1>3. InClinit(Top(t)) /\ ~Verifying(Top(t))
    BY <1>2 DEF InClinit, Verifying
  <1>4. PICK c \in Class : c = Top(t).class
    BY <1>1, <1>2, TopIsAt, Zenon DEF ClassFrame
  <1>5. PICK n \in Nat : n = Len(stack[t])
    BY <1>2, TopChecked
  <1>6. PICK pc \in {"done", "failed"} : pc = IF flaw[Top(t).class] = "clinit" THEN "failed" ELSE "done"
    OBVIOUS
  <1>7. PICK g : g = [Top(t) EXCEPT !.pc = pc]
    BY Zenon
  <1>8. /\ g.pc = pc /\ g.op = Top(t).op /\ g.class = Top(t).class
        /\ Goes(stack', t, g)
    BY <1>1, <1>2, <1>6, <1>7, TopAtPc DEF Pc, Early
  <1>10. Prepared(g, ReadyClasses(t, n), {}, TRUE, success[t])
    BY <1>8, PlainIsPrepared, ZenonT(40)
  <1>11. InClinit(g) /\ ~Verifying(g) /\ ~NotRun(g) /\ \A d : ~HoldsLock(g, d)
    BY <1>2, <1>6, <1>8 DEF InClinit, Verifying, NotRun, HoldsLock
  <1>12. g.pc # "superDone" /\ g.pc # "verified" /\ g.pc # "body" /\ g.pc \notin {"wait", "woken"}
    BY <1>6, <1>8
  <1> QED
    BY <1>2, <1>3, <1>4, <1>5, <1>8, <1>10, <1>11, <1>12, GoesPlainly, Zenon

LEMMA ClinitUsesStep ==
    ASSUME ClassInv, NEW t \in Initializer, NEW u \in Class, ClinitUses(t, u)
    PROVE  ClassInv'
  <1> DEFINE e == CallClass("init", u)
             g == [Top(t) EXCEPT !.pc = "used", !.used = Top(t).used \cup {u}]
  <1>1. ClassTypes /\ LockInv
    BY DEF ClassInv
  <1>2. /\ stack[t] # <<>> /\ Top(t).op = "init" /\ Top(t).pc = "clinit"
        /\ Same /\ lock' = lock /\ clinit_runs' = clinit_runs /\ aborted' = aborted
        /\ success' = success
        /\ stack' = [stack EXCEPT ![t] = <<e, g>> \o Tail(@)]
    BY DEF ClinitUses, AtStep, classVars, inputVars, Same
  <1>3. InClinit(Top(t)) /\ ~Verifying(Top(t))
    BY <1>2 DEF InClinit, Verifying
  <1>4. PICK c \in Class : c = Top(t).class
    BY <1>1, <1>2, TopIsAt, Zenon DEF ClassFrame
  <1>5. PICK n \in Nat : /\ n = Len(stack[t]) /\ Top(t) = At(stack, t, n)
                         /\ ReadyCall(t, n)
    BY <1>2, TopChecked, ZenonT(20)
  <1>6. e \in ClassFrame /\ e.op = "init" /\ e.pc = "begin" /\ e.class = u
    BY DEF CallClass, ClassFrame, Pc, Early
  <1>7. /\ g \in ClassFrame /\ g.pc = "used" /\ g.op = Top(t).op /\ g.class = Top(t).class
        /\ g.used = Top(t).used \cup {u}
    BY <1>1, <1>2, TopIsAt, Zenon DEF ClassFrame, Pc, Early
  <1> HIDE DEF e, g
  <1>8. Called(stack', t, g, e)
    BY <1>1, <1>2, <1>6, <1>7, PushCalls, Zenon
  <1>9. Prepared(g, ReadyClasses(t, n), {e.class}, FALSE, success[t])
    <2>1. \E N, b : Prepared(Top(t), ReadyClasses(t, n), N, b, success[t])
      BY <1>5, Zenon DEF ReadyCall
    <2> QED  BY <1>2, <1>6, <1>7, <2>1, Zenon DEF Prepared
  <1>10. /\ InClinit(g) /\ ~Verifying(g) /\ ~NotRun(g) /\ \A d : ~HoldsLock(g, d)
         /\ Calls(g, e) /\ g.pc # "verified" /\ g.pc \in {"verified", "superDone", "used"}
    BY <1>2, <1>6, <1>7 DEF InClinit, Verifying, NotRun, HoldsLock, Calls
  <1>11. Becomes(t, g)
    BY <1>1, <1>6, <1>8, CalledTracks, Zenon
  <1>12. NoMoreHolds
    BY <1>1, <1>2, <1>7, <1>10, <1>11, SameByBecoming, Zenon
  <1>13. LockInv' /\ lock' \in [Class -> Initializer \cup {NoThread}]
    BY <1>1, <1>2, <1>12, LockStays DEF ClassTypes
  <1> QED
    BY <1>2, <1>3, <1>4, <1>5, <1>6, <1>7, <1>8, <1>9, <1>10, <1>13, MakesCall, ZenonT(40)

\* InitializeSuper and SuperInitialized, where the superclass is ready.
LEMMA RunClinitStep ==
    ASSUME ClassInv, NEW t \in Initializer, stack[t] # <<>>, NotRun(Top(t)),
           NEW c \in Class, c = Top(t).class, RunClinit(t, c),
           Same, lock' = lock, success' = success, aborted' = aborted,
           NEW n \in Nat, n = Len(stack[t]),
           Super[c] # None => Super[c] \in ReadyClasses(t, n)
    PROVE  ClassInv'
  <1>1. ClassTypes /\ LockInv /\ ClinitInv /\ RunInv
    BY DEF ClassInv
  <1>2. /\ stack' = GoTo(t, "clinit")
        /\ clinit_runs' = [clinit_runs EXCEPT ![c] = IF @ = 0 THEN 1 ELSE 2]
        /\ Top(t).op = "init" /\ Top(t).pc \in {"super", "superDone"}
    BY DEF RunClinit, NotRun
  <1>3. InClinit(Top(t)) /\ ~Verifying(Top(t)) /\ Top(t).used = {}
    BY <1>1, <1>2, TopIsAt, Zenon DEF InClinit, Verifying, ClassFrame, Pc, Early
  <1>4. PICK g : g = [Top(t) EXCEPT !.pc = "clinit"]
    BY Zenon
  <1>5. /\ g.pc = "clinit" /\ g.op = Top(t).op /\ g.class = Top(t).class /\ g.used = Top(t).used
        /\ Goes(stack', t, g)
    BY <1>1, <1>2, <1>4, TopAtPc DEF Pc, Early
  <1>6. Prepared(g, ReadyClasses(t, n), {}, TRUE, success[t])
    BY <1>3, <1>5, Zenon DEF Prepared
  <1>7. InClinit(g) /\ ~Verifying(g) /\ ~NotRun(g) /\ \A d : ~HoldsLock(g, d)
    BY <1>2, <1>5, Zenon DEF InClinit, Verifying, NotRun, HoldsLock
  <1>8. g.pc # "superDone" /\ g.pc # "verified" /\ g.pc # "body" /\ g.pc \notin {"wait", "woken"}
    BY <1>5, Zenon
  <1>9. Becomes(t, g)
    BY <1>1, <1>5, GoesTracks, Zenon
  <1>10. RunInv' /\ clinit_runs' \in [Class -> {0, 1}]
    BY <1>1, <1>2, <1>7, <1>9, ClinitRuns, Zenon DEF Same
  <1>11. NoMoreHolds
    BY <1>1, <1>5, <1>7, <1>9, SameByBecoming, ZenonT(40)
  <1>12. LockInv' /\ lock' \in [Class -> Initializer \cup {NoThread}]
    BY <1>1, <1>11, LockStays DEF ClassTypes
  <1> QED
    BY <1>3, <1>5, <1>6, <1>7, <1>8, <1>10, <1>12, GoesOn, ZenonT(40)

LEMMA InitializeSuperStep ==
    ASSUME ClassInv, NEW t \in Initializer, InitializeSuper(t)
    PROVE  ClassInv'
  <1>1. ClassTypes /\ LockInv
    BY DEF ClassInv
  <1>2. /\ stack[t] # <<>> /\ Top(t).op = "init" /\ Top(t).pc = "super"
        /\ Same /\ lock' = lock /\ aborted' = aborted /\ success' = success
    BY DEF InitializeSuper, AtStep, classVars, inputVars, Same
  <1>3. InClinit(Top(t)) /\ ~Verifying(Top(t)) /\ NotRun(Top(t))
    BY <1>2 DEF InClinit, Verifying, NotRun
  <1>4. PICK c \in Class : c = Top(t).class
    BY <1>1, <1>2, TopIsAt, Zenon DEF ClassFrame
  <1>5. PICK n \in Nat : n = Len(stack[t])
    BY <1>2, TopChecked
  <1>6. Super[c] # None => Super[c] \in Class
    BY InitializerAssumption
  <1>7. CASE Super[c] = None \/ status[Super[c]] = "Initialized"
    <2>1. RunClinit(t, c)
      BY <1>4, <1>7, Zenon DEF InitializeSuper
    <2>2. Super[c] # None => Super[c] \in ReadyClasses(t, n)
      BY <1>6, <1>7 DEF ReadyClasses, ReadyAt
    <2> QED
      BY <1>2, <1>3, <1>4, <1>5, <2>1, <2>2, RunClinitStep, Zenon
  <1>8. CASE ~(Super[c] = None \/ status[Super[c]] = "Initialized")
    <2> DEFINE e == CallClass("init", Super[c])
    <2>1. stack' = CallFrom(t, "superDone", "init", Super[c]) /\ clinit_runs' = clinit_runs
      BY <1>4, <1>8 DEF InitializeSuper
    <2>2. e.op = "init" /\ e.pc = "begin" /\ e.class = Super[c] /\ e.class \in Class
      BY <1>6, <1>8, Zenon DEF CallClass
    <2>3. PICK g : g = [Top(t) EXCEPT !.pc = "superDone"]
      BY Zenon
    <2>4. g \in ClassFrame /\ g.pc = "superDone" /\ g.op = Top(t).op /\ g.class = Top(t).class
      BY <1>1, <1>2, <2>3, TopAtPc DEF Pc, Early
    <2>5. Called(stack', t, g, e)
      BY <1>1, <1>2, <1>6, <1>8, <2>1, <2>3, <2>4, CallFromCalls, ZenonT(40)
    <2> HIDE DEF e
    <2>6. Prepared(g, ReadyClasses(t, n), {e.class}, FALSE, success[t])
      BY <1>2, <1>4, <1>8, <2>4, SMTT(20) DEF Prepared
    <2>7. /\ InClinit(g) /\ ~Verifying(g) /\ \A d : ~HoldsLock(g, d)
          /\ Calls(g, e) /\ g.pc # "verified" /\ g.pc \in {"verified", "superDone", "used"}
      BY <1>2, <1>4, <2>2, <2>4 DEF InClinit, Verifying, HoldsLock, Calls
    <2>8. Becomes(t, g)
      BY <1>1, <2>2, <2>5, CalledTracks, Zenon
    <2>9. NoMoreHolds
      BY <1>1, <1>2, <2>4, <2>7, <2>8, SameByBecoming, Zenon
    <2>10. LockInv' /\ lock' \in [Class -> Initializer \cup {NoThread}]
      BY <1>1, <1>2, <2>9, LockStays, SMTT(20) DEF ClassTypes
    <2> QED
      BY <1>2, <1>3, <1>4, <1>5, <2>1, <2>2, <2>4, <2>5, <2>6, <2>7, <2>10, MakesCall, ZenonT(40)
  <1> QED  BY <1>7, <1>8

LEMMA SuperInitializedStep ==
    ASSUME ClassInv, NEW t \in Initializer, SuperInitialized(t)
    PROVE  ClassInv'
  <1>1. ClassTypes
    BY DEF ClassInv
  <1>2. /\ stack[t] # <<>> /\ Top(t).op = "init" /\ Top(t).pc = "superDone"
        /\ Same /\ lock' = lock /\ success' = success
    BY DEF SuperInitialized, AtStep, classVars, inputVars, Same
  <1>3. InClinit(Top(t)) /\ ~Verifying(Top(t)) /\ NotRun(Top(t))
    BY <1>2 DEF InClinit, Verifying, NotRun
  <1>4. PICK c \in Class : c = Top(t).class
    BY <1>1, <1>2, TopIsAt, Zenon DEF ClassFrame
  <1>5. PICK n \in Nat : /\ n = Len(stack[t]) /\ Top(t) = At(stack, t, n)
                         /\ ReadyCall(t, n) /\ (~RacingFailures => CheckCall(t, n))
    BY <1>2, TopChecked
  <1>6. CASE success[t]
    <2>1. RunClinit(t, c) /\ aborted' = aborted
      BY <1>4, <1>6 DEF SuperInitialized
    <2>2. Super[c] \in ReadyClasses(t, n)
      BY <1>2, <1>4, <1>5, <1>6, Zenon DEF ReadyCall, Prepared
    <2> QED
      BY <1>2, <1>3, <1>4, <1>5, <2>1, <2>2, RunClinitStep, Zenon
  <1>7. CASE ~success[t] /\ status[Super[c]] = "Error"
    <2>1. stack' = GoTo(t, "failed") /\ aborted' = aborted /\ clinit_runs' = clinit_runs
      BY <1>4, <1>7 DEF SuperInitialized
    <2>2. PICK g : g = [Top(t) EXCEPT !.pc = "failed"]
      BY Zenon
    <2>3. g.pc = "failed" /\ g.op = Top(t).op /\ g.class = Top(t).class /\ Goes(stack', t, g)
      BY <1>1, <1>2, <2>1, <2>2, TopAtPc DEF Pc, Early
    <2>4. Prepared(g, ReadyClasses(t, n), {}, TRUE, success[t])
      BY <2>3, PlainIsPrepared, Zenon
    <2>5. InClinit(g) /\ ~Verifying(g) /\ ~NotRun(g) /\ \A d : ~HoldsLock(g, d)
      BY <1>2, <2>3, SMTT(20) DEF InClinit, Verifying, NotRun, HoldsLock
    <2>6. g.pc # "superDone" /\ g.pc # "verified" /\ g.pc # "body" /\ g.pc \notin {"wait", "woken"}
      BY <2>3
    <2> QED
      BY <1>2, <1>3, <1>4, <1>5, <2>1, <2>3, <2>4, <2>5, <2>6, GoesPlainly, Zenon
  <1>8. CASE ~success[t] /\ status[Super[c]] # "Error"
    <2>1. aborted' = TRUE /\ stack' = stack /\ clinit_runs' = clinit_runs
      BY <1>4, <1>8, ZenonT(20) DEF SuperInitialized
    <2>2. RacingFailures
      BY <1>2, <1>4, <1>5, <1>8 DEF CheckCall
    <2> QED
      BY <1>2, <2>1, <2>2, NothingElseChanges DEF Same, classVars
  <1> QED  BY <1>6, <1>7, <1>8

LEMMA FinishInitializationStep ==
    ASSUME ClassInv, NEW t \in Initializer, FinishInitialization(t)
    PROVE  ClassInv'
  <1>1. ClassTypes /\ LockInv /\ ClinitInv /\ RunInv /\ VerifyInv
    BY DEF ClassInv
  <1>2. /\ stack[t] # <<>> /\ Top(t).op = "init" /\ Top(t).pc \in {"done", "failed"}
        /\ lock' = lock /\ clinit_thread' = clinit_thread /\ uses' = uses /\ aborted' = aborted
        /\ clinit_runs' = clinit_runs
    BY Zenon DEF FinishInitialization, AtStep, inputVars
  <1>3. InClinit(Top(t)) /\ ~Verifying(Top(t))
    BY <1>2 DEF InClinit, Verifying
  <1>4. PICK c \in Class : c = Top(t).class
    BY <1>1, <1>2, TopIsAt, Zenon DEF ClassFrame
  <1>5. PICK n \in Nat : n = Len(stack[t]) /\ n \in 1 .. Len(stack[t])
    BY <1>2, TopChecked, Zenon
  <1>6. PICK ok \in BOOLEAN : ok = (Top(t).pc = "done")
    BY Zenon
  <1>7. PICK new \in {"Initialized", "Error"} : new = IF ok THEN "Initialized" ELSE "Error"
    BY <1>6
  <1>8. /\ CanLock(c) /\ (ok \/ MayFail(c))
        /\ status' = [status EXCEPT ![c] = new] /\ stack' = Notify(ReturnFromClass(t), c)
        /\ success' = [success EXCEPT ![t] = ok]
    BY <1>4, <1>6, <1>7, Zenon DEF FinishInitialization, SetStatus, Returned
  <1>9. Returns(stack', t)
    BY <1>1, <1>2, <1>8, ReturnReturns, NotifyReturns, Zenon
  <1>10. Leaves(t)
    BY <1>1, <1>9, ReturnsTracks, Zenon
  <1>11. status[c] = "Initializing"
    <2>1. Clinit(t, n, c)
      BY <1>1, <1>2, <1>3, <1>4, <1>5, TopTracked, Zenon
    <2> QED  BY <1>1, <2>1, Zenon DEF ClinitInv
  <1>12. ClinitInv' /\ RunInv'
    BY <1>1, <1>2, <1>3, <1>4, <1>8, <1>10, ClinitEnds, Zenon
  <1>13. SameVerifies
    BY <1>1, <1>2, <1>3, <1>10, SameByLeaving, Zenon
  <1>14. /\ \A d \in Class : status'[d] = "Verifying" <=> status[d] = "Verifying"
         /\ status'[c] = new
         /\ status' \in [Class -> {"Resolved", "Verifying", "Verified", "Initializing",
                                   "Initialized", "Error"}]
    BY <1>1, <1>8, <1>11 DEF ClassTypes
  <1>15. VerifyInv'
    BY <1>1, <1>13, <1>14, VerifyStays, Zenon
  <1>16. LockInv' /\ lock' \in [Class -> Initializer \cup {NoThread}]
    BY <1>1, <1>2, <1>9, LocksOnReturn, Zenon
  <1>17. StatusAdvances
    BY <1>1, <1>7, <1>8, <1>11, StatusSet, Zenon
  <1>18. PICK m \in Nat : m + 1 = n
    BY <1>5, Predecessor, Zenon
  <1>19. Top(t).op = "init" /\ ok => ReadyAt(t, m, c)'
    BY <1>7, <1>14, Zenon DEF ReadyAt
  <1>20. ~RacingFailures =>
            /\ Top(t).op = "init" /\ ~ok => status'[c] = "Error"
            /\ Top(t).op = "verify" => status'[c] # "Resolved"
            /\ ~aborted'
    BY <1>2, <1>7, <1>14, SMTT(20) DEF ClassInv
  <1>21. /\ aborted' \in BOOLEAN
         /\ success' = [success EXCEPT ![t] = ok]
         /\ status' \in [Class -> {"Resolved", "Verifying", "Verified", "Initializing",
                                   "Initialized", "Error"}]
    BY <1>1, <1>2, <1>8, <1>14, SMTT(20) DEF ClassTypes
  <1> QED
    BY <1>2, <1>4, <1>5, <1>9, <1>12, <1>15, <1>16, <1>17, <1>18, <1>19, <1>20, <1>21,
       CallReturns, ZenonT(30)

\* Who has locked a class to initialize it, after verification, finds that it
\* is not being verified: a verifier would be in a call below.
LEMMA NotBeingVerified ==
    ASSUME ClassInv, NEW t \in Initializer, NEW c \in Class, stack[t] # <<>>,
           HoldsLock(Top(t), c)
    PROVE  status[c] # "Verifying"
  <1> SUFFICES ASSUME status[c] = "Verifying"
               PROVE  FALSE
    OBVIOUS
  <1>1. ClassTypes /\ LockInv /\ CallInv /\ VerifyInv
    BY DEF ClassInv
  <1>2. PICK n \in Nat : n = Len(stack[t])
    BY TopChecked
  <1>3. Holds(t, n, c)
    BY <1>1, <1>2, TopTracked, Zenon
  <1>4. PICK u \in Initializer, k \in Nat : Verifies(u, k, c)
    BY <1>1, Zenon DEF VerifyInv
  <1>5. k \in 1 .. Len(stack[u]) /\ At(stack, u, k).op = "verify" /\ At(stack, u, k).class = c
    BY <1>4, ZenonT(20) DEF Verifies, Verifying
  <1>6. k - 1 \in 1 .. Len(stack[u]) /\ Holds(u, k - 1, c)
    BY <1>1, <1>5, VerifierHasLock, ZenonT(20)
  <1>7. k - 1 \in Nat
    BY <1>5, <1>6
  <1>8. u = t /\ k - 1 = n
    BY <1>1, <1>3, <1>6, <1>7, OneHolder, Zenon
  <1>9. k \in 1 .. n
    BY <1>2, <1>5, <1>8, Zenon
  <1> QED  BY <1>8, <1>9

\* BeginInitialization and SuperVerified release a lock as their call goes on.
LEMMA LocksOnGoing ==
    ASSUME ClassTypes, LockInv, NEW t \in Initializer, stack[t] # <<>>, NEW g, Becomes(t, g),
           NEW c \in Class, Unlock(c), HoldsLock(Top(t), c), \A d : ~HoldsLock(g, d)
    PROVE  LockInv' /\ lock' \in [Class -> Initializer \cup {NoThread}]
  <1>1. lock' \in [Class -> Initializer \cup {NoThread}]
    BY DEF Unlock, ClassTypes
  <1>2. Others(t) /\ \A k \in Nat, d \in Class : k = Len(stack[t]) => ~Holds(t, k, d)'
    BY Zenon DEF Becomes
  <1>3. LockInv'
    BY <1>2, LockReleased, Zenon
  <1> QED  BY <1>1, <1>3

LEMMA BeginInitializationStep ==
    ASSUME ClassInv, NEW t \in Initializer, BeginInitialization(t)
    PROVE  ClassInv'
  <1>1. ClassTypes /\ LockInv /\ ClinitInv /\ RunInv /\ VerifyInv
    BY DEF ClassInv
  <1>2. /\ stack[t] # <<>> /\ Top(t).op = "init" /\ Top(t).pc = "verified"
        /\ uses' = uses /\ clinit_runs' = clinit_runs
    BY Zenon DEF BeginInitialization, AtStep, inputVars
  <1>4. PICK c \in Class : c = Top(t).class
    BY <1>1, <1>2, TopIsAt, Zenon DEF ClassFrame
  <1>3. ~InClinit(Top(t)) /\ ~Verifying(Top(t)) /\ ~NotRun(Top(t)) /\ HoldsLock(Top(t), c)
    BY <1>2, <1>4, ZenonT(20) DEF InClinit, Verifying, NotRun, HoldsLock
  <1>5. PICK n \in Nat : /\ n = Len(stack[t]) /\ n \in 1 .. Len(stack[t])
                         /\ Top(t) = At(stack, t, n)
                         /\ ~RacingFailures => CheckCall(t, n)
    BY <1>2, TopChecked
  <1>6. Returns(ReturnFromClass(t), t) /\ Top(t).op # "verify"
    BY <1>1, <1>2, ReturnReturns
  <1>a. Unlock(c)
    BY <1>4, Zenon DEF BeginInitialization
  <1>7. CASE status[c] \notin {"Initializing", "Verified"}
    <2>1. /\ aborted' = (status[c] # "Error") /\ stack' = ReturnFromClass(t)
          /\ success' = [success EXCEPT ![t] = FALSE] /\ Same
      BY <1>2, <1>4, <1>7, Zenon DEF BeginInitialization, Returned, Same
    <2>2. LockInv' /\ lock' \in [Class -> Initializer \cup {NoThread}]
      BY <1>1, <1>3, <1>6, <1>a, <2>1, LocksOnReturn, ZenonT(40)
    <2>3. ASSUME ~RacingFailures
          PROVE  status[c] = "Error"
      <3>1. status[c] # "Initialized" /\ status[c] # "Resolved"
        BY <1>2, <1>4, <1>5, <2>3, ZenonT(40) DEF CheckCall
      <3>2. status[c] # "Verifying"
        BY <1>2, <1>3, NotBeingVerified
      <3> QED  BY <1>1, <1>7, <3>1, <3>2 DEF ClassTypes
    <2>4. aborted' \in BOOLEAN /\ (~RacingFailures => status[c] = "Error" /\ ~aborted')
      BY <2>1, <2>3, Zenon
    <2>5. FALSE \in BOOLEAN
      OBVIOUS
    <2> QED
      BY <1>2, <1>3, <1>4, <1>6, <2>1, <2>2, <2>4, <2>5, JustReturns, ZenonT(40)
  <1>8. CASE status[c] = "Initializing" /\ clinit_thread[c] = t
    <2>1. /\ stack' = ReturnFromClass(t) /\ aborted' = aborted
          /\ success' = [success EXCEPT ![t] = TRUE] /\ Same
      BY <1>2, <1>4, <1>8, Zenon DEF BeginInitialization, BeingInitialized, Returned, Same
    <2>2. LockInv' /\ lock' \in [Class -> Initializer \cup {NoThread}]
      BY <1>1, <1>3, <1>6, <1>a, <2>1, LocksOnReturn, ZenonT(40)
    <2>3. aborted' \in BOOLEAN /\ (~RacingFailures => ~aborted') /\ TRUE \in BOOLEAN
      BY <1>1, <2>1 DEF ClassTypes, ClassInv
    <2> QED
      BY <1>2, <1>3, <1>4, <1>6, <1>8, <2>1, <2>2, <2>3, JustReturns, ZenonT(40)
  <1>9. CASE status[c] = "Initializing" /\ clinit_thread[c] # t
    <2>1. stack' = GoTo(t, "wait") /\ aborted' = aborted /\ success' = success /\ Same
      BY <1>2, <1>4, <1>9, Zenon DEF BeginInitialization, BeingInitialized, Same
    <2>2. PICK g : g = [Top(t) EXCEPT !.pc = "wait"]
      BY Zenon
    <2>3. g.pc = "wait" /\ g.op = Top(t).op /\ g.class = Top(t).class /\ Goes(stack', t, g)
      <3>1. "wait" \in Pc /\ ("wait" \in Early => Top(t).pc \in Early)
        BY <1>2 DEF Pc, Early
      <3>2. "wait" # "superDone"
        OBVIOUS
      <3> QED
        BY <1>1, <1>2, <2>1, <2>2, <3>1, <3>2, TopAtPc, ZenonT(20)
    <2>4. Prepared(g, ReadyClasses(t, n), {}, TRUE, success[t])
      BY <2>3, PlainIsPrepared, Zenon
    <2>5. ~InClinit(g) /\ ~Verifying(g) /\ ~NotRun(g) /\ \A d : ~HoldsLock(g, d)
      BY <2>3, Untracked
    <2>6. g.pc # "superDone" /\ g.pc # "verified" /\ g.pc # "body"
          /\ status[c] \in {"Initializing", "Initialized", "Error"}
      BY <1>9, <2>3
    <2>7. Becomes(t, g)
      BY <1>1, <2>3, GoesTracks, Zenon
    <2>8. LockInv' /\ lock' \in [Class -> Initializer \cup {NoThread}]
      BY <1>1, <1>2, <1>3, <1>a, <2>5, <2>7, LocksOnGoing, Zenon
    <2>9. NoMoreUnrun
      BY <1>1, <1>2, <2>3, <2>5, <2>7, SameByBecoming, ZenonT(40)
    <2>10. RunInv' /\ clinit_runs' \in [Class -> {0, 1}]
      BY <1>1, <1>2, <2>1, <2>9, RunStays, SMTT(20) DEF Same, ClassTypes
    <2> QED
      BY <1>3, <1>4, <1>5, <2>1, <2>3, <2>4, <2>5, <2>6, <2>8, <2>10, GoesOn, ZenonT(40)
  <1>10. CASE status[c] = "Verified" /\ flaw[c] = "descriptors"
    <2>1. /\ stack' = Notify(ReturnFromClass(t), c) /\ aborted' = aborted /\ MayFail(c)
          /\ success' = [success EXCEPT ![t] = FALSE]
          /\ status' = [status EXCEPT ![c] = "Error"] /\ clinit_thread' = clinit_thread
      BY <1>2, <1>4, <1>10, Zenon DEF BeginInitialization, Returned, SetStatus
    <2>2. Returns(stack', t)
      BY <1>1, <1>6, <2>1, NotifyReturns, Zenon
    <2>3. LockInv' /\ lock' \in [Class -> Initializer \cup {NoThread}]
      BY <1>1, <1>3, <1>a, <2>2, LocksOnReturn, Zenon
    <2>4. Leaves(t)
      BY <1>1, <2>2, ReturnsTracks, Zenon
    <2>5. SameClinits /\ NoMoreUnrun /\ SameVerifies
      BY <1>1, <1>2, <1>3, <2>4, SameByLeaving, Zenon
    <2>6. /\ \A d \in Class : status'[d] = "Verifying" <=> status[d] = "Verifying"
          /\ \A d \in Class : status'[d] = "Initializing" <=> status[d] = "Initializing"
          /\ \A d \in Class : status'[d] \in {"Resolved", "Verifying", "Verified"}
                              => status[d] \in {"Resolved", "Verifying", "Verified"}
      BY <1>1, <1>10, <2>1 DEF ClassTypes
    <2>7. ClinitInv' /\ RunInv' /\ VerifyInv'
      BY <1>1, <1>2, <2>1, <2>5, <2>6, ClinitStays, RunStays, VerifyStays, ZenonT(40)
    <2>8. StatusAdvances
      BY <1>1, <1>10, <2>1, StatusSet, Zenon
    <2>9. PICK m \in Nat : m + 1 = n
      BY <1>5, Predecessor, Zenon
    <2>10. status' \in [Class -> {"Resolved", "Verifying", "Verified", "Initializing",
                                  "Initialized", "Error"}] /\ status'[c] = "Error"
      BY <1>1, <2>1, SMTT(20) DEF ClassTypes
    <2>11. aborted' \in BOOLEAN /\ (~RacingFailures => ~aborted') /\ FALSE \in BOOLEAN
      BY <1>1, <2>1 DEF ClassTypes, ClassInv
    <2> QED
      BY <1>2, <1>4, <1>5, <1>6, <2>1, <2>2, <2>3, <2>7, <2>8, <2>9, <2>10, <2>11, CallReturns,
         ZenonT(30)
  <1>11. CASE status[c] = "Verified" /\ flaw[c] # "descriptors"
    <2>1. /\ stack' = Notify(GoTo(t, "super"), c) /\ aborted' = aborted /\ success' = success
          /\ status' = [status EXCEPT ![c] = "Initializing"]
          /\ clinit_thread' = [clinit_thread EXCEPT ![c] = t]
      BY <1>2, <1>4, <1>11, Zenon DEF BeginInitialization, SetStatus
    <2>2. PICK g : g = [Top(t) EXCEPT !.pc = "super"]
      BY Zenon
    <2>3. /\ g.pc = "super" /\ g.op = Top(t).op /\ g.class = Top(t).class
          /\ Goes(GoTo(t, "super"), t, g) /\ g.pc # "wait"
      BY <1>1, <1>2, <2>2, TopAtPc DEF Pc, Early
    <2>4. Goes(stack', t, g)
      BY <1>1, <2>1, <2>3, NotifyGoes, Zenon
    <2>5. InClinit(g) /\ ~Verifying(g) /\ \A d : ~HoldsLock(g, d)
      BY <1>2, <2>3, Zenon DEF InClinit, Verifying, HoldsLock
    <2>6. Becomes(t, g)
      BY <1>1, <2>4, GoesTracks, Zenon
    <2>7. LockInv' /\ lock' \in [Class -> Initializer \cup {NoThread}]
      BY <1>1, <1>2, <1>3, <1>a, <2>5, <2>6, LocksOnGoing, Zenon
    <2>8. ClinitInv' /\ RunInv'
      BY <1>1, <1>2, <1>3, <1>4, <1>11, <2>1, <2>3, <2>5, <2>6, ClinitBegins, ZenonT(40)
    <2>9. SameVerifies
      BY <1>1, <1>2, <1>3, <2>3, <2>5, <2>6, SameByBecoming, ZenonT(40)
    <2>10. /\ \A d \in Class : status'[d] = "Verifying" <=> status[d] = "Verifying"
           /\ status' \in [Class -> {"Resolved", "Verifying", "Verified", "Initializing",
                                     "Initialized", "Error"}]
           /\ clinit_thread' \in [Class -> Initializer \cup {NoThread}]
      BY <1>1, <1>11, <2>1 DEF ClassTypes
    <2>11. VerifyInv'
      BY <1>1, <2>9, <2>10, VerifyStays, Zenon
    <2>12. StatusAdvances
      BY <1>1, <1>11, <2>1, StatusSet, Zenon
    <2> QED
      BY <1>2, <1>4, <2>1, <2>3, <2>4, <2>7, <2>8, <2>10, <2>11, <2>12, AdvancesTo, ZenonT(40)
  <1> QED  BY <1>7, <1>8, <1>9, <1>10, <1>11, Zenon

----------------------------------------------------------------------------
LEMMA BeginVerificationStep ==
    ASSUME ClassInv, NEW t \in Initializer, BeginVerification(t)
    PROVE  ClassInv'
  <1>1. ClassTypes /\ LockInv /\ ClinitInv /\ RunInv /\ VerifyInv /\ CallInv
    BY DEF ClassInv
  <1>2. /\ stack[t] # <<>> /\ Top(t).op = "verify" /\ Top(t).pc = "begin"
        /\ lock' = lock /\ clinit_thread' = clinit_thread /\ uses' = uses /\ success' = success
        /\ clinit_runs' = clinit_runs
    BY DEF BeginVerification, AtStep, inputVars
  <1>3. ~InClinit(Top(t)) /\ ~Verifying(Top(t)) /\ ~NotRun(Top(t)) /\ Top(t).op # "init"
    BY <1>2, Zenon DEF InClinit, Verifying, NotRun
  <1>4. PICK c \in Class : c = Top(t).class
    BY <1>1, <1>2, TopIsAt, ZenonT(40) DEF ClassFrame
  <1>5. PICK n \in Nat : /\ n = Len(stack[t]) /\ n \in 1 .. Len(stack[t])
                         /\ Top(t) = At(stack, t, n)
    BY <1>2, TopChecked
  <1>6. CASE IsVerified(c) \/ status[c] = "Error"
    <2>1. stack' = ReturnFromClass(t) /\ aborted' = aborted /\ Same
      BY <1>2, <1>4, <1>6 DEF BeginVerification, Same, IsVerified
    <2>2. Returns(stack', t)
      BY <1>1, <1>2, <2>1, ReturnReturns, Zenon
    <2>3. LockInv' /\ lock' \in [Class -> Initializer \cup {NoThread}]
      BY <1>1, <1>2, <1>4, <2>2, LocksOnReturn, Zenon
    <2>4. /\ aborted' \in BOOLEAN /\ (~RacingFailures => ~aborted')
          /\ success[t] \in BOOLEAN /\ success' = [success EXCEPT ![t] = success[t]]
          /\ status[c] # "Resolved"
      BY <1>1, <1>2, <1>6, <2>1, SMTT(20) DEF ClassTypes, ClassInv, IsVerified
    <2> QED
      BY <1>2, <1>3, <1>4, <2>1, <2>2, <2>3, <2>4, JustReturns, ZenonT(40)
  <1>7. CASE status[c] = "Resolved"
    <2>1. /\ stack' = Notify(GoTo(t, "super"), c) /\ aborted' = aborted
          /\ status' = [status EXCEPT ![c] = "Verifying"]
      BY <1>4, <1>7 DEF BeginVerification, SetStatus, IsVerified
    <2>2. PICK g : g = [Top(t) EXCEPT !.pc = "super"]
      BY Zenon
    <2>3. /\ g.pc = "super" /\ g.op = Top(t).op /\ g.class = Top(t).class
          /\ Goes(GoTo(t, "super"), t, g) /\ g.pc # "wait"
      BY <1>1, <1>2, <2>2, TopAtPc DEF Pc, Early
    <2>4. Goes(stack', t, g)
      BY <1>1, <1>4, <2>1, <2>3, NotifyGoes, ZenonT(40)
    <2>5. ~InClinit(g) /\ Verifying(g) /\ ~NotRun(g) /\ \A d : ~HoldsLock(g, d)
      BY <1>2, <2>3 DEF InClinit, Verifying, NotRun, HoldsLock
    <2>6. Becomes(t, g)
      BY <1>1, <2>4, GoesTracks, Zenon
    <2>7. SameClinits /\ NoMoreUnrun /\ NoMoreHolds
      BY <1>1, <1>2, <1>3, <2>3, <2>5, <2>6, SameByBecoming, ZenonT(40)
    <2>8. /\ \A d \in Class : status'[d] = "Initializing" <=> status[d] = "Initializing"
          /\ \A d \in Class : status'[d] \in {"Resolved", "Verifying", "Verified"}
                              => status[d] \in {"Resolved", "Verifying", "Verified"}
          /\ status' \in [Class -> {"Resolved", "Verifying", "Verified", "Initializing",
                                    "Initialized", "Error"}]
          /\ clinit_thread' \in [Class -> Initializer \cup {NoThread}]
          /\ lock' \in [Class -> Initializer \cup {NoThread}]
      BY <1>1, <1>2, <1>7, <2>1 DEF ClassTypes
    <2>9. ClinitInv' /\ RunInv' /\ LockInv'
      BY <1>1, <1>2, <2>7, <2>8, ClinitStays, RunStays, LockStays, Zenon
    <2>10. VerifyInv'
      BY <1>1, <1>2, <1>3, <1>4, <1>7, <2>1, <2>3, <2>5, <2>6, VerifyBegins, ZenonT(40)
    <2>11. StatusAdvances
      BY <1>1, <1>7, <2>1, StatusSet, Zenon
    <2> QED
      BY <1>2, <1>4, <2>1, <2>3, <2>4, <2>8, <2>9, <2>10, <2>11, AdvancesTo, ZenonT(40)
  <1>8. status[c] # "Verifying"
    <2> SUFFICES ASSUME status[c] = "Verifying"
                 PROVE  FALSE
      OBVIOUS
    <2>1. PICK u \in Initializer, k \in Nat : Verifies(u, k, c)
      BY <1>1, Zenon DEF VerifyInv
    <2>2. /\ k \in 1 .. Len(stack[u]) /\ At(stack, u, k).op = "verify"
          /\ At(stack, u, k).class = c
      BY <2>1, ZenonT(20) DEF Verifies, Verifying
    <2>3. u = t /\ k = n
      BY <1>1, <1>2, <1>4, <1>5, <2>2, OneVerifier
    <2>4. ~Verifies(t, n, c)
      BY <1>1, <1>2, <1>3, <1>5, TopTracked, Zenon
    <2> QED  BY <2>1, <2>3, <2>4, Zenon
  <1> QED
    BY <1>1, <1>6, <1>7, <1>8 DEF ClassTypes, IsVerified

LEMMA VerifySuperStep ==
    ASSUME ClassInv, NEW t \in Initializer, VerifySuper(t)
    PROVE  ClassInv'
  <1>1. ClassTypes /\ LockInv /\ RunInv
    BY DEF ClassInv
  <1>2. /\ stack[t] # <<>> /\ Top(t).op = "verify" /\ Top(t).pc = "super"
        /\ Same /\ aborted' = aborted /\ success' = success /\ clinit_runs' = clinit_runs
    BY Zenon DEF VerifySuper, AtStep, inputVars, Same
  <1>3. ~InClinit(Top(t)) /\ Verifying(Top(t)) /\ ~NotRun(Top(t)) /\ Top(t).op # "init"
    BY <1>2 DEF InClinit, Verifying, NotRun
  <1>4. PICK c \in Class : c = Top(t).class
    BY <1>1, <1>2, TopIsAt, Zenon DEF ClassFrame
  <1>5. PICK n \in Nat : n = Len(stack[t])
    BY <1>2, TopChecked
  <1>6. CASE Super[c] = None
    <2>1. stack' = GoTo(t, "body") /\ lock' = lock
      BY <1>4, <1>6, Zenon DEF VerifySuper
    <2>2. PICK g : g = [Top(t) EXCEPT !.pc = "body"]
      BY Zenon
    <2>3. g.pc = "body" /\ g.op = Top(t).op /\ g.class = Top(t).class /\ Goes(stack', t, g)
      BY <1>1, <1>2, <2>1, <2>2, TopAtPc, SMTT(20) DEF Pc, Early
    <2>4. Prepared(g, ReadyClasses(t, n), {}, TRUE, success[t])
      BY <2>3, PlainIsPrepared, Zenon
    <2>5. ~InClinit(g) /\ Verifying(g) /\ ~NotRun(g) /\ \A d : ~HoldsLock(g, d)
      BY <1>2, <2>3, Zenon DEF InClinit, Verifying, NotRun, HoldsLock
    <2>6. g.pc # "superDone" /\ g.pc # "verified" /\ g.pc \notin {"wait", "woken"}
      BY <2>3, Zenon
    <2> QED
      BY <1>2, <1>3, <1>4, <1>5, <1>6, <2>1, <2>3, <2>4, <2>5, <2>6, GoesPlainly, ZenonT(40)
  <1>7. CASE Super[c] # None
    <2>1. PICK s \in Class : s = Super[c]
      BY <1>7, InitializerAssumption
    <2>2. /\ CanLock(s) /\ Lock(t, s)
          /\ stack' = IF IsVerified(s) \/ status[s] = "Error" THEN GoTo(t, "superDone")
                      ELSE CallFrom(t, "superDone", "verify", s)
      BY <1>4, <1>7, <2>1, Zenon DEF VerifySuper
    <2>3. lock' \in [Class -> Initializer \cup {NoThread}]
      BY <1>1, <2>2 DEF ClassTypes, Lock
    <2>4. PICK g : g = [Top(t) EXCEPT !.pc = "superDone"]
      BY Zenon
    <2>5. /\ g \in ClassFrame /\ g.pc = "superDone" /\ g.op = Top(t).op
          /\ g.class = Top(t).class /\ Goes(GoTo(t, "superDone"), t, g)
      BY <1>1, <1>2, <1>4, <1>7, <2>4, TopAtPc DEF Pc, Early
    <2>6. ~InClinit(g) /\ Verifying(g) /\ ~NotRun(g) /\ \A d \in Class : HoldsLock(g, d) => d = s
      BY <1>2, <1>4, <2>1, <2>5, Zenon DEF InClinit, Verifying, NotRun, HoldsLock
    <2>7. \A N, b : Prepared(g, ReadyClasses(t, n), N, b, success[t])
      BY <1>2, <2>5, Zenon DEF Prepared
    <2>8. g.pc # "verified" /\ g.pc # "body" /\ g.pc \notin {"wait", "woken"}
          /\ g.pc \in {"verified", "superDone", "used"} /\ g.op # "init"
      BY <1>2, <2>5
    <2>9. CASE IsVerified(s) \/ status[s] = "Error"
      <3>1. Goes(stack', t, g)
        BY <2>2, <2>5, <2>9
      <3>2. Becomes(t, g)
        BY <1>1, <3>1, GoesTracks, Zenon
      <3>3. LockInv'
        BY <1>1, <2>2, <2>6, <3>2, LockTaken, Zenon
      <3>4. NoMoreUnrun
        BY <1>1, <1>2, <2>5, <2>6, <3>2, SameByBecoming, Zenon
      <3>5. RunInv' /\ clinit_runs' \in [Class -> {0, 1}]
        BY <1>1, <1>2, <3>4, RunStays DEF Same, ClassTypes
      <3> QED
        BY <1>2, <1>3, <1>4, <1>5, <2>3, <2>5, <2>6, <2>7, <2>8, <3>1, <3>3, <3>5, GoesOn, ZenonT(40)
    <2>10. CASE ~(IsVerified(s) \/ status[s] = "Error")
      <3> DEFINE e == CallClass("verify", s)
      <3>1. e.pc = "begin" /\ e.class = s /\ e.op = "verify"
        BY DEF CallClass
      <3>2. Called(stack', t, g, e)
        BY <1>1, <1>2, <2>2, <2>4, <2>5, <2>10, CallFromCalls, ZenonT(20)
      <3> HIDE DEF e
      <3>3. Becomes(t, g)
        BY <1>1, <3>1, <3>2, CalledTracks, Zenon
      <3>4. LockInv'
        BY <1>1, <2>2, <2>6, <3>3, LockTaken, Zenon
      <3>5. Calls(g, e)
        BY <1>2, <1>4, <2>1, <2>5, <3>1, Zenon DEF Calls
      <3> QED
        BY <1>2, <1>3, <1>4, <1>5, <2>3, <2>5, <2>6, <2>7, <2>8, <3>1, <3>2, <3>4, <3>5,
           MakesCall, ZenonT(40)
    <2> QED  BY <2>9, <2>10
  <1> QED  BY <1>6, <1>7

\* SuperVerified and VerifyBody, where they set the status and return.
LEMMA VerifyReturns ==
    ASSUME ClassInv, NEW t \in Initializer, stack[t] # <<>>, Top(t).op = "verify",
           Verifying(Top(t)), NEW c \in Class, c = Top(t).class,
           NEW new \in {"Verified", "Error"}, SetStatus(c, new, ReturnFromClass(t)),
           LockInv', lock' \in [Class -> Initializer \cup {NoThread}],
           clinit_thread' = clinit_thread, uses' = uses, success' = success,
           aborted' = aborted, clinit_runs' = clinit_runs
    PROVE  ClassInv'
  <1>1. ClassTypes /\ LockInv /\ ClinitInv /\ RunInv /\ VerifyInv /\ CallInv
    BY DEF ClassInv
  <1>2. ~InClinit(Top(t)) /\ Top(t).op # "init" /\ new # "Verifying"
    BY DEF InClinit
  <1>3. PICK n \in Nat : n = Len(stack[t]) /\ n \in 1 .. Len(stack[t])
    BY TopChecked
  <1>4. status' = [status EXCEPT ![c] = new] /\ stack' = Notify(ReturnFromClass(t), c)
    BY DEF SetStatus
  <1>5. Returns(stack', t)
    BY <1>1, <1>4, ReturnReturns, NotifyReturns, Zenon
  <1>6. Leaves(t)
    BY <1>1, <1>5, ReturnsTracks, Zenon
  <1>7. status[c] = "Verifying"
    <2>1. Verifies(t, n, c)
      BY <1>1, <1>3, TopTracked, Zenon
    <2> QED  BY <1>1, <2>1, Zenon DEF VerifyInv
  <1>8. SameClinits /\ NoMoreUnrun
    BY <1>1, <1>2, <1>6, SameByLeaving, Zenon
  <1>9. /\ \A d \in Class : status'[d] = "Initializing" <=> status[d] = "Initializing"
        /\ \A d \in Class : status'[d] \in {"Resolved", "Verifying", "Verified"}
                            => status[d] \in {"Resolved", "Verifying", "Verified"}
    BY <1>1, <1>4, <1>7 DEF ClassTypes
  <1>10. /\ status' \in [Class -> {"Resolved", "Verifying", "Verified", "Initializing",
                                   "Initialized", "Error"}]
         /\ status'[c] # "Resolved"
    BY <1>1, <1>4 DEF ClassTypes
  <1>11. ClinitInv' /\ RunInv'
    BY <1>1, <1>8, <1>9, ClinitStays, RunStays, Zenon
  <1>12. VerifyInv'
    BY <1>1, <1>2, <1>4, <1>6, VerifyEnds, Zenon
  <1>13. StatusAdvances
    BY <1>1, <1>4, <1>7, StatusSet, Zenon
  <1>14. PICK m \in Nat : m + 1 = n
    BY <1>3, Predecessor, Zenon
  <1>15. /\ success[t] \in BOOLEAN /\ success' = [success EXCEPT ![t] = success[t]]
         /\ aborted' \in BOOLEAN /\ (~RacingFailures => ~aborted')
    BY <1>1 DEF ClassTypes, ClassInv
  <1> QED
    BY <1>2, <1>3, <1>5, <1>10, <1>11, <1>12, <1>13, <1>14, <1>15, CallReturns, ZenonT(30)

LEMMA SuperVerifiedStep ==
    ASSUME ClassInv, NEW t \in Initializer, SuperVerified(t)
    PROVE  ClassInv'
  <1>1. ClassTypes /\ LockInv /\ RunInv
    BY DEF ClassInv
  <1>2. /\ stack[t] # <<>> /\ Top(t).op = "verify" /\ Top(t).pc = "superDone"
        /\ clinit_thread' = clinit_thread /\ uses' = uses /\ success' = success
        /\ aborted' = aborted /\ clinit_runs' = clinit_runs
    BY DEF SuperVerified, AtStep, inputVars
  <1>3. ~InClinit(Top(t)) /\ Verifying(Top(t)) /\ ~NotRun(Top(t)) /\ Top(t).op # "init"
    BY <1>2 DEF InClinit, Verifying, NotRun
  <1>4. PICK c \in Class : c = Top(t).class
    BY <1>1, <1>2, TopIsAt, Zenon DEF ClassFrame
  <1>5. PICK s \in Class : s = Super[c]
    <2>1. Super[c] # None
      BY <1>1, <1>2, <1>4, TopIsAt, ZenonT(40) DEF ClassFrame
    <2> QED  BY <2>1, InitializerAssumption
  <1>6. Unlock(s) /\ HoldsLock(Top(t), s)
    BY <1>2, <1>4, <1>5, SMTT(20) DEF SuperVerified, HoldsLock
  <1>7. PICK n \in Nat : n = Len(stack[t])
    BY <1>2, TopChecked
  <1>8. CASE IsVerified(s)
    <2>1. stack' = GoTo(t, "body") /\ Same
      BY <1>2, <1>4, <1>5, <1>8 DEF SuperVerified, Same
    <2>2. PICK g : g = [Top(t) EXCEPT !.pc = "body"]
      BY Zenon
    <2>3. g.pc = "body" /\ g.op = Top(t).op /\ g.class = Top(t).class /\ Goes(stack', t, g)
      BY <1>1, <1>2, <2>1, <2>2, TopAtPc DEF Pc, Early
    <2>4. Prepared(g, ReadyClasses(t, n), {}, TRUE, success[t])
      BY <2>3, PlainIsPrepared, Zenon
    <2>5. ~InClinit(g) /\ Verifying(g) /\ ~NotRun(g) /\ \A d : ~HoldsLock(g, d)
      BY <1>2, <2>3 DEF InClinit, Verifying, NotRun, HoldsLock
    <2>6. g.pc # "superDone" /\ g.pc # "verified" /\ g.pc \notin {"wait", "woken"}
      BY <2>3
    <2>7. Becomes(t, g)
      BY <1>1, <2>3, GoesTracks, Zenon
    <2>8. LockInv' /\ lock' \in [Class -> Initializer \cup {NoThread}]
      BY <1>1, <1>2, <1>6, <2>5, <2>7, LocksOnGoing, Zenon
    <2>9. NoMoreUnrun
      BY <1>1, <1>2, <2>3, <2>5, <2>7, SameByBecoming, Zenon
    <2>10. RunInv' /\ clinit_runs' \in [Class -> {0, 1}]
      BY <1>1, <1>2, <2>1, <2>9, RunStays DEF Same, ClassTypes
    <2> QED
      BY <1>2, <1>3, <1>4, <1>5, <1>7, <1>8, <2>1, <2>3, <2>4, <2>5, <2>6, <2>8, <2>10, GoesOn, ZenonT(40)
  <1>9. CASE ~IsVerified(s)
    <2>1. SetStatus(c, "Error", ReturnFromClass(t))
      BY <1>4, <1>5, <1>9 DEF SuperVerified
    <2>2. Returns(stack', t)
      BY <1>1, <1>2, <2>1, ReturnReturns, NotifyReturns, Zenon DEF SetStatus
    <2>3. LockInv' /\ lock' \in [Class -> Initializer \cup {NoThread}]
      BY <1>1, <1>6, <2>2, LocksOnReturn, Zenon
    <2> QED
      BY <1>2, <1>3, <1>4, <2>1, <2>3, VerifyReturns, ZenonT(40)
  <1> QED  BY <1>8, <1>9

LEMMA VerifyBodyStep ==
    ASSUME ClassInv, NEW t \in Initializer, VerifyBody(t)
    PROVE  ClassInv'
  <1>1. ClassTypes /\ LockInv
    BY DEF ClassInv
  <1>2. /\ stack[t] # <<>> /\ Top(t).op = "verify" /\ Top(t).pc = "body"
        /\ clinit_thread' = clinit_thread /\ uses' = uses /\ success' = success
        /\ lock' = lock /\ clinit_runs' = clinit_runs
    BY DEF VerifyBody, AtStep, inputVars
  <1>3. Verifying(Top(t))
    BY <1>2 DEF Verifying
  <1>4. PICK c \in Class : c = Top(t).class
    BY <1>1, <1>2, TopIsAt, Zenon DEF ClassFrame
  <1>5. PICK n \in Nat : /\ n = Len(stack[t]) /\ Top(t) = At(stack, t, n)
                         /\ ~RacingFailures => CheckCall(t, n)
    BY <1>2, TopChecked
  <1>6. ASSUME NEW new \in {"Verified", "Error"}, SetStatus(c, new, ReturnFromClass(t)),
               aborted' = aborted
        PROVE  ClassInv'
    <2>1. Returns(stack', t)
      BY <1>1, <1>2, <1>6, ReturnReturns, NotifyReturns, Zenon DEF SetStatus
    <2>2. LockInv' /\ lock' \in [Class -> Initializer \cup {NoThread}]
      BY <1>1, <1>2, <1>4, <2>1, LocksOnReturn, Zenon
    <2> QED
      BY <1>2, <1>3, <1>4, <1>6, <2>2, VerifyReturns, Zenon
  <1>7. CASE flaw[c] = "verify"
    <2>1. SetStatus(c, "Error", ReturnFromClass(t)) /\ aborted' = aborted
      BY <1>4, <1>7 DEF VerifyBody
    <2> QED  BY <1>6, <2>1
  <1>8. CASE flaw[c] # "verify" /\ (Super[c] = None \/ IsVerified(Super[c]))
    <2>1. SetStatus(c, "Verified", ReturnFromClass(t)) /\ aborted' = aborted
      BY <1>4, <1>8 DEF VerifyBody
    <2> QED  BY <1>6, <2>1
  <1>9. CASE flaw[c] # "verify" /\ ~(Super[c] = None \/ IsVerified(Super[c]))
    <2>1. aborted' = TRUE /\ stack' = stack /\ status' = status
      BY <1>4, <1>9 DEF VerifyBody
    <2>2. RacingFailures
      BY <1>2, <1>4, <1>5, <1>9, Zenon DEF CheckCall
    <2> QED
      BY <1>2, <2>1, <2>2, NothingElseChanges DEF classVars
  <1> QED  BY <1>7, <1>8, <1>9

----------------------------------------------------------------------------
LEMMA ClassesStepKeepsInv ==
    ASSUME ClassInv, [ClassesNext]_classInitVars
    PROVE  ClassInv'
  <1>1. ASSUME NEW t \in Initializer, InitializerStep(t)
        PROVE  ClassInv'
    BY <1>1, CheckInitializedStep, LockClassStep, BeginInitializationStep,
       WaitForInitializeClassStep, InitializeSuperStep, SuperInitializedStep, ClinitGoesOnStep,
       ClinitReturnsStep, FinishInitializationStep, BeginVerificationStep, VerifySuperStep,
       SuperVerifiedStep, VerifyBodyStep, ClinitUsesStep, ZenonT(40) DEF InitializerStep
  <1>2. CASE ClassesNext
    BY <1>1, <1>2, InitializerWakesEarlyStep, EnsureInitializedStep, Zenon DEF ClassesNext
  <1>3. CASE UNCHANGED classInitVars
    <2>1. UNCHANGED <<classVars, uses, stack, success, clinit_runs>> /\ aborted' = aborted
      BY <1>3 DEF classInitVars, inputVars
    <2>2. aborted \in BOOLEAN
      BY DEF ClassInv, ClassTypes
    <2> QED  BY <2>1, <2>2, NothingElseChanges, Zenon
  <1> QED  BY <1>2, <1>3

LEMMA InvGivesOrder == ClassInv => ClinitRunsInOrder
  <1> SUFFICES ASSUME ClassInv
               PROVE  ClinitRunsInOrder
    OBVIOUS
  <1>1. ClassTypes /\ ClinitInv /\ ReadyInv
    BY DEF ClassInv
  <1>2. \A c \in Class : clinit_runs[c] <= 1
    BY <1>1 DEF ClassTypes
  <1>3. ASSUME NEW t \in Initializer, NEW k \in Nat, NEW c \in Class, ReadyAt(t, k, c)
        PROVE  ReadyFor(t, c)
    BY <1>1, <1>3, Zenon DEF ReadyAt, ReadyFor, ClinitInv
  <1>4. ASSUME NEW t \in Initializer, NEW i \in DOMAIN stack[t], NEW f, f = stack[t][i],
               f.op = "init", f.pc = "clinit"
        PROVE  /\ clinit_thread[f.class] = t
               /\ Super[f.class] # None => ReadyFor(t, Super[f.class])
               /\ \A u \in f.used : ReadyFor(t, u)
    <2>0. stack[t] \in Seq(ClassFrame)
      BY <1>1, Zenon DEF ClassTypes
    <2>1. PICK k \in Nat : k \in 1 .. Len(stack[t]) /\ Len(stack[t]) + 1 - k = i
      BY <2>0, DepthOfCall, Zenon
    <2>2. f = At(stack, t, k)
      BY <1>4, <2>1, Zenon DEF At
    <2>3. f.class \in Class
      BY <1>1, <2>1, <2>2, FrameClasses, ZenonT(20)
    <2>4. Clinit(t, k, f.class)
      BY <1>4, <2>1, <2>2 DEF Clinit, InClinit
    <2>5. clinit_thread[f.class] = t
      <3>1. \A c \in Class : Clinit(t, k, c) => clinit_thread[c] = t
        BY <1>1, Zenon DEF ClinitInv
      <3> QED  BY <2>3, <2>4, <3>1, Zenon
    <2>6. ReadyCall(t, k)
      BY <1>1, <2>1, ZenonT(40) DEF ReadyInv
    <2>7. /\ Super[f.class] # None => Super[f.class] \in ReadyClasses(t, k)
          /\ f.used \subseteq ReadyClasses(t, k)
      BY <1>4, <2>2, <2>6 DEF ReadyCall, Prepared
    <2>8. \A c \in ReadyClasses(t, k) : ReadyFor(t, c)
      BY <1>3 DEF ReadyClasses
    <2> QED  BY <2>5, <2>7, <2>8
  <1> QED
    BY <1>2, <1>4, Zenon DEF ClinitRunsInOrder

\* Whatever threads need whatever classes, in whatever order, and however their
\* superclasses and static initializers depend on each other
\* (ClassLinker::InitializeClass), a static initializer runs at most once, in
\* the thread that the class records, and only goes on where the superclass and
\* the classes it needed are initialized or are being initialized below it.
THEOREM ClinitsRunInOrder == ClassesSpec => []ClinitRunsInOrder
  <1>1. ClassInv /\ [ClassesNext]_classInitVars => ClassInv'
    BY ClassesStepKeepsInv
  <1> QED
    BY <1>1, ClassesStart, InvGivesOrder, PTL DEF ClassesSpec

\* Where no class fails to be initialized between the release of its lock by
\* the verifier of a subclass and the end of that verification, no CHECK of
\* InitializeClass, WaitForInitializeClass or VerifyClass fails.
THEOREM ClassLinkerChecksHold ==
    ASSUME ~RacingFailures
    PROVE  ClassesSpec => []ClassChecksHold
  <1>1. ClassInv /\ [ClassesNext]_classInitVars => ClassInv'
    BY ClassesStepKeepsInv
  <1>2. ClassInv => ClassChecksHold
    BY DEF ClassInv, ClassChecksHold
  <1> QED
    BY <1>1, <1>2, ClassesStart, PTL DEF ClassesSpec
============================================================================
