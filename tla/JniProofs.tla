----------------------------- MODULE JniProofs -----------------------------
(***************************************************************************)
(* Proofs about the two components behind JNI: NativeLibraries and         *)
(* IndirectReferenceTable.                                                 *)
(***************************************************************************)
EXTENDS NativeLibraries, IndirectReferenceTable, TLAPS

(***************************************************************************)
(* NativeLibraries for every set of threads and libraries: nobody is told  *)
(* that a library is loaded whose JNI_OnLoad has not succeeded.            *)
(*                                                                         *)
(* A thread holds a stack of calls, since a JNI_OnLoad may load other      *)
(* libraries.  The invariant says what a call may rely on wherever it is   *)
(* in whichever thread's stack; a step changes one thread's innermost call *)
(* and leaves the others alone.                                            *)
(***************************************************************************)

(* A stack of calls is a sequence whose first element is the innermost one. *)

LEMMA TopOfStack ==
    ASSUME NEW S, NEW q \in Seq(S), q # <<>>
    PROVE  Head(q) = q[1] /\ q[1] \in S /\ Len(q) \in Nat /\ Len(q) >= 1
  OBVIOUS

\* A stack whose innermost call is another one.
LEMMA Replaced ==
    ASSUME NEW S, NEW q \in Seq(S), q # <<>>, NEW f \in S
    PROVE  /\ [q EXCEPT ![1] = f] \in Seq(S)
           /\ Len([q EXCEPT ![1] = f]) = Len(q)
           /\ [q EXCEPT ![1] = f][1] = f
           /\ \A i \in 2 .. Len(q) : [q EXCEPT ![1] = f][i] = q[i]
  OBVIOUS

\* A stack whose innermost call has returned.
LEMMA Popped ==
    ASSUME NEW S, NEW q \in Seq(S), q # <<>>
    PROVE  /\ Tail(q) \in Seq(S)
           /\ Len(Tail(q)) = Len(q) - 1
           /\ \A i \in 1 .. Len(q) - 1 : Tail(q)[i] = q[i + 1]
  OBVIOUS

\* A stack whose innermost call, now f, has called e.
LEMMA Pushed ==
    ASSUME NEW S, NEW q \in Seq(S), q # <<>>, NEW e \in S, NEW f \in S
    PROVE  /\ <<e, f>> \o Tail(q) \in Seq(S)
           /\ Len(<<e, f>> \o Tail(q)) = Len(q) + 1
           /\ (<<e, f>> \o Tail(q))[1] = e
           /\ (<<e, f>> \o Tail(q))[2] = f
           /\ \A i \in 3 .. Len(q) + 1 : (<<e, f>> \o Tail(q))[i] = q[i - 1]
  OBVIOUS


LoadFrame ==
    [path : Path, class_loader : ClassLoader, todo : SUBSET Path,
     pc : {"get", "dlopen", "put", "onLoad", "checkOnLoadResult", "asleep"}]

LibraryTypes ==
    /\ jni_on_load_thread_id \in [Path -> Loader \cup {NoThread}]
    /\ jni_on_load_result \in [Path -> {NotLoaded, "pending", "okay", "failed"}]
    /\ load_stack \in [Loader -> Seq(LoadFrame)]
    /\ on_load_runs \in [Path -> {0, 1}]

\* The i-th call of t is in JNI_OnLoad.
InOnLoad(t, i) == i \in 1 .. Len(load_stack[t]) /\ load_stack[t][i].pc = "onLoad"

\* JNI_OnLoad of a library that is not in libraries_ has not run.
NotLoadedNotRun ==
    \A p \in Path : jni_on_load_result[p] = NotLoaded => on_load_runs[p] = 0

\* A library names a thread only while it has no result.
NamedIsPending ==
    \A p \in Path : jni_on_load_thread_id[p] # NoThread => jni_on_load_result[p] = "pending"

\* The library whose JNI_OnLoad a thread is in has no result yet and names
\* that thread.
RunnerIsNamed ==
    \A t \in Loader : \A i \in Nat : InOnLoad(t, i) =>
        /\ jni_on_load_result[load_stack[t][i].path] = "pending"
        /\ jni_on_load_thread_id[load_stack[t][i].path] = t

\* A thread is not in the same JNI_OnLoad twice.
RunsAreDistinct ==
    \A t \in Loader : \A i, j \in Nat :
        InOnLoad(t, i) /\ InOnLoad(t, j) /\ load_stack[t][i].path = load_stack[t][j].path
        => i = j

LibraryInv ==
    /\ LibraryTypes
    /\ NotLoadedNotRun /\ NamedIsPending /\ RunnerIsNamed /\ RunsAreDistinct
    /\ OnLoadDecides

LEMMA LibrariesStart == LibrariesInit => LibraryInv
  <1> SUFFICES ASSUME LibrariesInit PROVE LibraryInv
    OBVIOUS
  <1>1. LibraryTypes
    BY LoaderAssumption DEF LibrariesInit, LibraryTypes
  <1>2. \A t \in Loader : \A i \in Nat : ~InOnLoad(t, i)
    BY DEF LibrariesInit, InOnLoad
  <1> QED
    BY <1>1, <1>2 DEF LibraryInv, LibrariesInit, NotLoadedNotRun, NamedIsPending,
       RunnerIsNamed, RunsAreDistinct, OnLoadDecides

\* A step of t's stack alone, in which no call gets into JNI_OnLoad: a call of
\* t that is in JNI_OnLoad afterwards was d places further down before.
StackMoves(t, d) ==
    /\ load_stack' \in [Loader -> Seq(LoadFrame)]
    /\ \A u \in Loader \ {t} : load_stack'[u] = load_stack[u]
    /\ \A i \in Nat : InOnLoad(t, i)' =>
          InOnLoad(t, i + d) /\ load_stack'[t][i].path = load_stack[t][i + d].path

LEMMA LoadGotoMoves ==
    ASSUME LibraryTypes, NEW t \in Loader, load_stack[t] # <<>>,
           NEW label \in {"dlopen", "put", "checkOnLoadResult", "asleep"},
           LoadGoto(t, label)
    PROVE  StackMoves(t, 0)
  <1> DEFINE f == [load_stack[t][1] EXCEPT !.pc = label]
             q == [load_stack[t] EXCEPT ![1] = f]
  <1>1. load_stack[t] \in Seq(LoadFrame) /\ load_stack[t][1] \in LoadFrame
    BY DEF LibraryTypes
  <1>2. f \in LoadFrame /\ f.pc # "onLoad"
    BY <1>1 DEF LoadFrame
  <1>3. load_stack' = [load_stack EXCEPT ![t] = q]
    BY DEF LoadGoto
  <1>4. q \in Seq(LoadFrame) /\ Len(q) = Len(load_stack[t]) /\ q[1] = f
        /\ \A i \in 2 .. Len(load_stack[t]) : q[i] = load_stack[t][i]
    <2> HIDE DEF f
    <2> QED  BY <1>1, <1>2, Replaced
  <1>5. load_stack'[t] = q /\ \A u \in Loader \ {t} : load_stack'[u] = load_stack[u]
    BY <1>3 DEF LibraryTypes
  <1>6. load_stack' \in [Loader -> Seq(LoadFrame)]
    BY <1>3, <1>4 DEF LibraryTypes
  <1>7. ASSUME NEW i \in Nat, InOnLoad(t, i)'
        PROVE  InOnLoad(t, i + 0) /\ load_stack'[t][i].path = load_stack[t][i + 0].path
    <2>1. i \in 1 .. Len(q) /\ q[i].pc = "onLoad" /\ i # 1
      BY <1>2, <1>4, <1>5, <1>7 DEF InOnLoad
    <2> QED
      BY <1>1, <1>4, <1>5, <2>1 DEF InOnLoad
  <1> QED
    BY <1>5, <1>6, <1>7 DEF StackMoves

LEMMA ReturnMoves ==
    ASSUME LibraryTypes, NEW t \in Loader, load_stack[t] # <<>>,
           load_stack' = [load_stack EXCEPT ![t] = Tail(@)]
    PROVE  StackMoves(t, 1)
  <1>1. load_stack[t] \in Seq(LoadFrame)
    BY DEF LibraryTypes
  <1>2. load_stack'[t] = Tail(load_stack[t])
        /\ \A u \in Loader \ {t} : load_stack'[u] = load_stack[u]
    BY DEF LibraryTypes
  <1>3. Tail(load_stack[t]) \in Seq(LoadFrame)
        /\ Len(Tail(load_stack[t])) = Len(load_stack[t]) - 1
        /\ \A i \in 1 .. Len(load_stack[t]) - 1 : Tail(load_stack[t])[i] = load_stack[t][i + 1]
    BY <1>1, Popped
  <1>4. load_stack' \in [Loader -> Seq(LoadFrame)]
    BY <1>3 DEF LibraryTypes
  <1>5. ASSUME NEW i \in Nat, InOnLoad(t, i)'
        PROVE  InOnLoad(t, i + 1) /\ load_stack'[t][i].path = load_stack[t][i + 1].path
    <2>1. i \in 1 .. Len(load_stack[t]) - 1 /\ load_stack'[t][i].pc = "onLoad"
      BY <1>1, <1>2, <1>3, <1>5, Zenon DEF InOnLoad
    <2>2. load_stack'[t][i] = load_stack[t][i + 1]
      BY <1>2, <1>3, <2>1, Zenon
    <2>3. i + 1 \in 1 .. Len(load_stack[t])
      BY <1>1, <2>1
    <2> QED
      BY <2>1, <2>2, <2>3 DEF InOnLoad
  <1> QED
    BY <1>2, <1>4, <1>5, Zenon DEF StackMoves

LEMMA OnLoadLoadsMoves ==
    ASSUME LibraryTypes, NEW t \in Loader, OnLoadLoads(t)
    PROVE  StackMoves(t, -1)
  <1> DEFINE s == load_stack[t]
  <1>0. s # <<>> /\ Head(s).pc = "onLoad"
    BY DEF OnLoadLoads, LoadAt
  <1>2. s \in Seq(LoadFrame) /\ Head(s) = s[1] /\ s[1] \in LoadFrame
    BY <1>0, TopOfStack DEF LibraryTypes
  <1>1. s # <<>> /\ s[1].pc = "onLoad"
    BY <1>0, <1>2
  <1>3. PICK p \in Head(s).todo : load_stack' = [load_stack EXCEPT
             ![t] = <<CallLoad(p, loader(t)),
                      [Head(s) EXCEPT !.todo = Head(s).todo \ {p}]>> \o Tail(@)]
    BY Zenon DEF OnLoadLoads
  <1> DEFINE e == CallLoad(p, loader(t))
             f == [Head(s) EXCEPT !.todo = Head(s).todo \ {p}]
             q == <<e, f>> \o Tail(s)
  <1>4. e \in LoadFrame /\ f \in LoadFrame /\ e.pc # "onLoad" /\ f.path = s[1].path
    BY <1>2, <1>3 DEF LoadFrame, CallLoad, loader
  <1>5. q \in Seq(LoadFrame) /\ Len(q) = Len(s) + 1 /\ q[1] = e /\ q[2] = f
        /\ \A i \in 3 .. Len(s) + 1 : q[i] = s[i - 1]
    <2> HIDE DEF e, f, s
    <2> QED  BY <1>1, <1>2, <1>4, Pushed
  <1>6. load_stack' = [load_stack EXCEPT ![t] = q]
    BY <1>3, Zenon
  <1> HIDE DEF q, e, f
  <1>7. load_stack'[t] = q /\ \A u \in Loader \ {t} : load_stack'[u] = load_stack[u]
    BY <1>6 DEF LibraryTypes
  <1>8. load_stack' \in [Loader -> Seq(LoadFrame)]
    BY <1>5, <1>6 DEF LibraryTypes
  <1>9. ASSUME NEW i \in Nat, InOnLoad(t, i)'
        PROVE  InOnLoad(t, i + (-1)) /\ load_stack'[t][i].path = s[i + (-1)].path
    <2>1. i \in 2 .. Len(s) + 1 /\ q[i].pc = "onLoad"
      BY <1>2, <1>4, <1>5, <1>7, <1>9 DEF InOnLoad
    <2>2. CASE i = 2
      BY <1>1, <1>2, <1>4, <1>5, <1>7, <2>2 DEF InOnLoad
    <2>3. CASE i # 2
      BY <1>2, <1>5, <1>7, <2>1, <2>3 DEF InOnLoad
    <2> QED
      BY <2>2, <2>3
  <1> QED
    BY <1>7, <1>8, <1>9 DEF StackMoves

\* Such a step, when it tells t of no library that t must not be told of,
\* keeps the invariant.
LEMMA MovesKeepLibraryInv ==
    ASSUME LibraryInv, NEW t \in Loader, NEW d \in {-1, 0, 1}, StackMoves(t, d),
           UNCHANGED <<libraryVars, on_load_runs>>,
           \A u \in Loader, p \in Path : <<u, p>> \in loaded' \ loaded =>
              \/ jni_on_load_result[p] = "okay"
              \/ jni_on_load_result[p] = "pending" /\ jni_on_load_thread_id[p] = u
    PROVE  LibraryInv'
  <1>1. UNCHANGED <<jni_on_load_result, jni_on_load_thread_id, on_load_runs>>
    BY DEF libraryVars
  <1>2. LibraryTypes' /\ NotLoadedNotRun' /\ NamedIsPending'
    BY <1>1 DEF LibraryInv, LibraryTypes, NotLoadedNotRun, NamedIsPending, StackMoves
  <1>3. \A u \in Loader \ {t} : \A i \in Nat :
            InOnLoad(u, i)' => InOnLoad(u, i) /\ load_stack'[u][i].path = load_stack[u][i].path
    BY DEF StackMoves, InOnLoad
  <1>4. \A i \in Nat : InOnLoad(t, i)' =>
            /\ i + d \in Nat /\ InOnLoad(t, i + d)
            /\ load_stack'[t][i].path = load_stack[t][i + d].path
    <2>1. \A i \in Nat : InOnLoad(t, i + d) => i + d \in Nat
      BY DEF InOnLoad
    <2> QED  BY <2>1 DEF StackMoves
  <1>5. RunnerIsNamed'
    <2> SUFFICES ASSUME NEW u \in Loader, NEW i \in Nat, InOnLoad(u, i)'
                 PROVE  /\ jni_on_load_result[load_stack'[u][i].path] = "pending"
                        /\ jni_on_load_thread_id[load_stack'[u][i].path] = u
      BY <1>1, Zenon DEF RunnerIsNamed
    <2>1. CASE u # t
      BY <1>3, <2>1 DEF LibraryInv, RunnerIsNamed
    <2>2. CASE u = t
      BY <1>4, <2>2 DEF LibraryInv, RunnerIsNamed
    <2> QED  BY <2>1, <2>2
  <1>6. ASSUME NEW u \in Loader, NEW i \in Nat, NEW j \in Nat,
               InOnLoad(u, i)', InOnLoad(u, j)',
               load_stack'[u][i].path = load_stack'[u][j].path
        PROVE  i = j
    <2>1. CASE u # t
      BY <1>3, <1>6, <2>1 DEF LibraryInv, RunsAreDistinct
    <2>2. CASE u = t
      <3>1. i + d = j + d
        BY <1>4, <1>6, <2>2 DEF LibraryInv, RunsAreDistinct
      <3> QED  BY <3>1
    <2> QED  BY <2>1, <2>2
  <1>7. RunsAreDistinct'
    BY <1>6, Zenon DEF RunsAreDistinct
  <1>8. OnLoadDecides'
    BY <1>1 DEF LibraryInv, OnLoadDecides
  <1> QED
    BY <1>2, <1>5, <1>7, <1>8 DEF LibraryInv

\* PutLibrary, where the library is not in libraries_ at the second look.
LEMMA PutKeepsLibraryInv ==
    ASSUME LibraryInv, NEW t \in Loader, PutLibrary(t),
           jni_on_load_result[path(t)] = NotLoaded
    PROVE  LibraryInv'
  <1> DEFINE s == load_stack[t]
             p == path(t)
             f == [s[1] EXCEPT !.pc = "onLoad", !.todo = Loads[p]]
             q == [s EXCEPT ![1] = f]
  <1>1. s # <<>> /\ s \in Seq(LoadFrame) /\ Head(s) = s[1] /\ s[1] \in LoadFrame
        /\ s[1].path = p /\ p \in Path
    <2>1. s # <<>> /\ s \in Seq(LoadFrame)
      BY DEF PutLibrary, LoadAt, LibraryInv, LibraryTypes
    <2>2. Head(s) = s[1] /\ s[1] \in LoadFrame
      BY <2>1, TopOfStack
    <2> QED  BY <2>1, <2>2 DEF path, LoadFrame
  <1>2. f \in LoadFrame /\ f.pc = "onLoad" /\ f.path = p
    BY <1>1, LoaderAssumption, Zenon DEF LoadFrame
  <1>3. q \in Seq(LoadFrame) /\ Len(q) = Len(s) /\ q[1] = f
        /\ \A i \in 2 .. Len(s) : q[i] = s[i]
    <2> HIDE DEF f, s
    <2> QED  BY <1>1, <1>2, Replaced
  <1>4. /\ jni_on_load_thread_id' = [jni_on_load_thread_id EXCEPT ![p] = t]
        /\ jni_on_load_result' = [jni_on_load_result EXCEPT ![p] = "pending"]
        /\ on_load_runs' = [on_load_runs EXCEPT ![p] = @ + 1]
        /\ loaded' = loaded
    BY DEF PutLibrary
  <1>5. load_stack' = [load_stack EXCEPT ![t] = q]
    BY Zenon DEF PutLibrary
  <1> HIDE DEF q, f, p
  <1>6. load_stack'[t] = q /\ \A u \in Loader \ {t} : load_stack'[u] = load_stack[u]
    BY <1>5 DEF LibraryInv, LibraryTypes
  <1>7. on_load_runs[p] = 0
    BY <1>1 DEF LibraryInv, NotLoadedNotRun, p
  <1>8. LibraryTypes'
    BY <1>1, <1>3, <1>4, <1>5, <1>7 DEF LibraryInv, LibraryTypes
  <1>9. NotLoadedNotRun' /\ NamedIsPending' /\ OnLoadDecides'
    <2>1. jni_on_load_result[p] = NotLoaded
      BY DEF p
    <2> QED
      BY <1>1, <1>4, <1>7, <2>1, LoaderAssumption
      DEF LibraryInv, LibraryTypes, NotLoadedNotRun, NamedIsPending, OnLoadDecides
  <1>10. \A u \in Loader : \A i \in Nat : InOnLoad(u, i) => load_stack[u][i].path # p
    BY LoaderAssumption DEF LibraryInv, RunnerIsNamed, p
  <1>11. \A u \in Loader : \A i \in Nat : InOnLoad(u, i)' =>
            \/ InOnLoad(u, i) /\ load_stack'[u][i] = load_stack[u][i]
            \/ u = t /\ i = 1 /\ load_stack'[u][i].path = p
    <2> SUFFICES ASSUME NEW u \in Loader, NEW i \in Nat, InOnLoad(u, i)'
                 PROVE  \/ InOnLoad(u, i) /\ load_stack'[u][i] = load_stack[u][i]
                        \/ u = t /\ i = 1 /\ load_stack'[u][i].path = p
      OBVIOUS
    <2>1. CASE u # t
      BY <1>6, <2>1 DEF InOnLoad
    <2>2. CASE u = t /\ i = 1
      BY <1>2, <1>3, <1>6, <2>2
    <2>3. CASE u = t /\ i # 1
      BY <1>1, <1>3, <1>6, <2>3 DEF InOnLoad
    <2> QED  BY <2>1, <2>2, <2>3
  <1>12. \A u \in Loader : \A i \in Nat : InOnLoad(u, i) => load_stack[u][i].path \in Path
    <2>1. \A u \in Loader : \A i \in Nat : InOnLoad(u, i) => load_stack[u][i] \in LoadFrame
      BY DEF LibraryInv, LibraryTypes, InOnLoad
    <2> QED  BY <2>1 DEF LoadFrame
  <1>13. RunnerIsNamed'
    <2> SUFFICES ASSUME NEW u \in Loader, NEW i \in Nat, InOnLoad(u, i)'
                 PROVE  /\ jni_on_load_result'[load_stack'[u][i].path] = "pending"
                        /\ jni_on_load_thread_id'[load_stack'[u][i].path] = u
      BY Zenon DEF RunnerIsNamed
    <2>1. CASE InOnLoad(u, i) /\ load_stack'[u][i] = load_stack[u][i]
      BY <1>4, <1>10, <1>12, <2>1 DEF LibraryInv, LibraryTypes, RunnerIsNamed
    <2>2. CASE u = t /\ i = 1 /\ load_stack'[u][i].path = p
      BY <1>1, <1>4, <2>2 DEF LibraryInv, LibraryTypes
    <2> QED  BY <1>11, <2>1, <2>2
  <1>14. RunsAreDistinct'
    <2> SUFFICES ASSUME NEW u \in Loader, NEW i \in Nat, NEW j \in Nat,
                        InOnLoad(u, i)', InOnLoad(u, j)',
                        load_stack'[u][i].path = load_stack'[u][j].path
                 PROVE  i = j
      BY Zenon DEF RunsAreDistinct
    <2> QED
      BY <1>10, <1>11 DEF LibraryInv, RunsAreDistinct
  <1> QED
    BY <1>8, <1>9, <1>13, <1>14 DEF LibraryInv

\* SetResult: the library gets its result, and waiters look at it again.
LEMMA SetResultKeepsLibraryInv ==
    ASSUME LibraryInv, NEW t \in Loader, SetResult(t)
    PROVE  LibraryInv'
  <1> DEFINE s == load_stack[t]
             p == path(t)
  <1>1. s # <<>> /\ s \in Seq(LoadFrame) /\ s[1] \in LoadFrame /\ s[1].pc = "onLoad"
        /\ s[1].path = p /\ p \in Path /\ Len(s) \in Nat /\ Len(s) >= 1
    <2>1. s # <<>> /\ s \in Seq(LoadFrame) /\ Head(s).pc = "onLoad"
      BY DEF SetResult, LoadAt, LibraryInv, LibraryTypes
    <2>2. Head(s) = s[1] /\ s[1] \in LoadFrame /\ Len(s) \in Nat /\ Len(s) >= 1
      BY <2>1, TopOfStack
    <2> QED  BY <2>1, <2>2 DEF path, LoadFrame
  <1>2. PICK ok \in BOOLEAN :
          /\ jni_on_load_result' =
                [jni_on_load_result EXCEPT ![p] = IF ok THEN "okay" ELSE "failed"]
          /\ load_stack' = [u \in Loader |->
                IF u = t THEN Tail(load_stack[t])
                ELSE IF LoadAt(u, "asleep") /\ path(u) = path(t)
                THEN [load_stack[u] EXCEPT ![1].pc = "checkOnLoadResult"]
                ELSE load_stack[u]]
          /\ loaded' = IF ok THEN loaded \cup {<<t, p>>}
                             ELSE loaded \ {<<t, p>>}
    BY Zenon DEF SetResult
  <1>3. jni_on_load_thread_id' = [jni_on_load_thread_id EXCEPT ![p] = NoThread]
        /\ on_load_runs' = on_load_runs
    BY DEF SetResult
  <1>4. Tail(s) \in Seq(LoadFrame) /\ Len(Tail(s)) = Len(s) - 1
        /\ \A i \in 1 .. Len(s) - 1 : Tail(s)[i] = s[i + 1]
    <2> HIDE DEF s
    <2> QED  BY <1>1, Popped
  <1>5. ASSUME NEW u \in Loader, u # t
        PROVE  /\ load_stack'[u] \in Seq(LoadFrame)
               /\ \A i \in Nat : InOnLoad(u, i)' =>
                     InOnLoad(u, i) /\ load_stack'[u][i] = load_stack[u][i]
    <2> DEFINE r == load_stack[u]
               g == [r[1] EXCEPT !.pc = "checkOnLoadResult"]
               q == [r EXCEPT ![1] = g]
    <2>1. r \in Seq(LoadFrame)
      BY DEF LibraryInv, LibraryTypes
    <2>2. CASE LoadAt(u, "asleep") /\ path(u) = path(t)
      <3>1. load_stack'[u] = q
        BY <1>2, <1>5, <2>2
      <3>2. r # <<>>
        BY <2>2 DEF LoadAt
      <3>3. r[1] \in LoadFrame /\ Len(r) \in Nat
        BY <2>1, <3>2, TopOfStack
      <3>4. g \in LoadFrame /\ g.pc # "onLoad"
        BY <3>3 DEF LoadFrame
      <3> HIDE DEF g
      <3>5. q \in Seq(LoadFrame) /\ Len(q) = Len(r) /\ q[1] = g
            /\ \A i \in 2 .. Len(r) : q[i] = r[i]
        <4> HIDE DEF r
        <4> QED  BY <2>1, <3>2, <3>4, Replaced
      <3> QED
        BY <3>1, <3>3, <3>4, <3>5 DEF InOnLoad
    <2>3. CASE ~(LoadAt(u, "asleep") /\ path(u) = path(t))
      <3>1. load_stack'[u] = load_stack[u]
        BY <1>2, <1>5, <2>3
      <3> QED  BY <2>1, <3>1 DEF InOnLoad
    <2> QED  BY <2>2, <2>3
  <1>6. load_stack'[t] = Tail(s)
    BY <1>2
  <1>7. LibraryTypes'
    <2>1. load_stack' = [u \in Loader |-> load_stack'[u]]
      BY <1>2
    <2>2. load_stack' \in [Loader -> Seq(LoadFrame)]
      BY <1>4, <1>5, <1>6, <2>1, Zenon
    <2> QED
      BY <1>1, <1>2, <1>3, <2>2 DEF LibraryInv, LibraryTypes
  <1>8. \A i \in Nat : InOnLoad(t, i)' =>
            i >= 1 /\ InOnLoad(t, i + 1) /\ load_stack'[t][i] = load_stack[t][i + 1]
    <2> SUFFICES ASSUME NEW i \in Nat, InOnLoad(t, i)'
                 PROVE  i >= 1 /\ InOnLoad(t, i + 1) /\ load_stack'[t][i] = load_stack[t][i + 1]
      OBVIOUS
    <2>1. i \in 1 .. Len(s) - 1 /\ Tail(s)[i].pc = "onLoad"
      BY <1>1, <1>4, <1>6 DEF InOnLoad
    <2>2. i + 1 \in 1 .. Len(s) /\ Tail(s)[i] = s[i + 1]
      BY <1>1, <1>4, <2>1
    <2> QED
      BY <1>6, <2>1, <2>2 DEF InOnLoad
  <1>9. InOnLoad(t, 1) /\ jni_on_load_result[p] = "pending" /\ jni_on_load_thread_id[p] = t
    <2>1. InOnLoad(t, 1)
      BY <1>1 DEF InOnLoad
    <2> HIDE DEF p
    <2> QED  BY <1>1, <2>1 DEF LibraryInv, RunnerIsNamed
  <1>10. \A u \in Loader : \A i \in Nat : InOnLoad(u, i)' => load_stack'[u][i].path # p
    <2> SUFFICES ASSUME NEW u \in Loader, NEW i \in Nat, InOnLoad(u, i)',
                        load_stack'[u][i].path = p
                 PROVE  FALSE
      OBVIOUS
    <2> HIDE DEF p
    <2>1. CASE u = t
      BY <1>1, <1>8, <1>9, <2>1 DEF LibraryInv, RunsAreDistinct
    <2>2. CASE u # t
      BY <1>5, <1>9, <2>2 DEF LibraryInv, RunnerIsNamed
    <2> QED  BY <2>1, <2>2
  <1> HIDE DEF p, s
  <1>11. \A u \in Loader : \A i \in Nat : InOnLoad(u, i)' => load_stack'[u][i].path \in Path
    <2>1. \A u \in Loader : \A i \in Nat : InOnLoad(u, i)' => load_stack'[u][i] \in LoadFrame
      BY <1>7 DEF LibraryTypes, InOnLoad
    <2> QED  BY <2>1 DEF LoadFrame
  <1>12. RunnerIsNamed'
    <2> SUFFICES ASSUME NEW u \in Loader, NEW i \in Nat, InOnLoad(u, i)'
                 PROVE  /\ jni_on_load_result'[load_stack'[u][i].path] = "pending"
                        /\ jni_on_load_thread_id'[load_stack'[u][i].path] = u
      BY Zenon DEF RunnerIsNamed
    <2>1. /\ jni_on_load_result[load_stack'[u][i].path] = "pending"
          /\ jni_on_load_thread_id[load_stack'[u][i].path] = u
      <3>1. CASE u = t
        BY <1>8, <3>1 DEF LibraryInv, RunnerIsNamed
      <3>2. CASE u # t
        BY <1>5, <3>2 DEF LibraryInv, RunnerIsNamed
      <3> QED  BY <3>1, <3>2
    <2> QED
      BY <1>2, <1>3, <1>10, <1>11, <2>1, Zenon DEF LibraryInv, LibraryTypes
  <1>13. RunsAreDistinct'
    <2> SUFFICES ASSUME NEW u \in Loader, NEW i \in Nat, NEW j \in Nat,
                        InOnLoad(u, i)', InOnLoad(u, j)',
                        load_stack'[u][i].path = load_stack'[u][j].path
                 PROVE  i = j
      BY Zenon DEF RunsAreDistinct
    <2>1. CASE u = t
      <3>1. i + 1 = j + 1
        BY <1>8, <2>1 DEF LibraryInv, RunsAreDistinct
      <3> QED  BY <3>1
    <2>2. CASE u # t
      BY <1>5, <2>2 DEF LibraryInv, RunsAreDistinct
    <2> QED  BY <2>1, <2>2
  <1>14. NotLoadedNotRun' /\ NamedIsPending'
    BY <1>1, <1>2, <1>3, <1>9, LoaderAssumption
    DEF LibraryInv, LibraryTypes, NotLoadedNotRun, NamedIsPending
  <1>15. OnLoadDecides'
    <2>1. \A q \in Path : on_load_runs'[q] <= 1
      BY <1>3 DEF LibraryInv, OnLoadDecides
    <2>2. ASSUME NEW u \in Loader, NEW q \in Path, <<u, q>> \in loaded'
          PROVE  \/ jni_on_load_result'[q] = "okay"
                 \/ jni_on_load_result'[q] = "pending" /\ jni_on_load_thread_id'[q] = u
      <3>1. CASE q # p
        BY <1>2, <1>3, <2>2, <3>1 DEF LibraryInv, LibraryTypes, OnLoadDecides
      <3>2. CASE q = p
        <4>1. u # t => <<u, q>> \in loaded
          BY <1>2, <2>2
        <4>2. u = t
          BY <1>9, <3>2, <4>1 DEF LibraryInv, OnLoadDecides
        <4> QED
          BY <1>1, <1>2, <2>2, <3>2, <4>2 DEF LibraryInv, LibraryTypes
      <3> QED  BY <3>1, <3>2
    <2> QED  BY <2>1, <2>2, Zenon DEF OnLoadDecides
  <1> QED
    BY <1>7, <1>12, <1>13, <1>14, <1>15 DEF LibraryInv

LEMMA LibraryStepKeepsInv ==
    ASSUME LibraryInv, LibrariesNext
    PROVE  LibraryInv'
  <1> USE DEF LibraryInv
  <1>1. ASSUME NEW t \in Loader, NEW p \in Path, NEW l \in ClassLoader,
               CallLoadNativeLibrary(t, p, l)
        PROVE  LibraryInv'
    <2> DEFINE e == CallLoad(p, l)
    <2>1. e \in LoadFrame /\ e.pc # "onLoad"
      BY DEF LoadFrame, CallLoad
    <2>2. load_stack' = [load_stack EXCEPT ![t] = <<e>>]
      BY <1>1 DEF CallLoadNativeLibrary
    <2> HIDE DEF e
    <2>3. <<e>> \in Seq(LoadFrame) /\ Len(<<e>>) = 1 /\ <<e>>[1] = e
      BY <2>1
    <2>4. load_stack' \in [Loader -> Seq(LoadFrame)] /\ load_stack'[t] = <<e>>
          /\ \A u \in Loader \ {t} : load_stack'[u] = load_stack[u]
      BY <2>2, <2>3 DEF LibraryTypes
    <2>5. \A i \in Nat : ~InOnLoad(t, i)'
      BY <2>1, <2>3, <2>4 DEF InOnLoad
    <2>6. StackMoves(t, 0)
      BY <2>4, <2>5 DEF StackMoves
    <2> QED
      BY <1>1, <2>6, MovesKeepLibraryInv DEF CallLoadNativeLibrary
  <1> SUFFICES ASSUME NEW t \in Loader, LoaderStep(t) \/ LoaderWakesEarly(t)
               PROVE  LibraryInv'
    BY <1>1, Zenon DEF LibrariesNext
  <1>2. load_stack[t] # <<>> /\ load_stack[t] \in Seq(LoadFrame) /\ path(t) \in Path
    <2>1. load_stack[t] # <<>> /\ load_stack[t] \in Seq(LoadFrame)
      BY Zenon DEF LibraryTypes, LoaderStep, LoaderWakesEarly, GetLibrary, Dlopen, PutLibrary,
             OnLoadLoads, SetResult, CheckOnLoadResult, LoadAt
    <2>2. Head(load_stack[t]) \in LoadFrame
      BY <2>1, TopOfStack
    <2> QED  BY <2>1, <2>2 DEF path, LoadFrame
  <1>3. ASSUME NEW label \in {"dlopen", "put", "checkOnLoadResult", "asleep"},
               LoadGoto(t, label), UNCHANGED <<libraryVars, on_load_runs, loaded>>
        PROVE  LibraryInv'
    <2>1. StackMoves(t, 0)
      BY <1>2, <1>3, LoadGotoMoves
    <2> QED  BY <1>3, <2>1, MovesKeepLibraryInv
  <1>4. ASSUME NEW ok \in BOOLEAN, ReturnFromLoad(t, ok),
               UNCHANGED <<libraryVars, on_load_runs>>,
               ok => \/ jni_on_load_result[path(t)] = "okay"
                     \/ /\ jni_on_load_result[path(t)] = "pending"
                        /\ jni_on_load_thread_id[path(t)] = t
        PROVE  LibraryInv'
    <2>1. StackMoves(t, 1)
      BY <1>2, <1>4, ReturnMoves, Zenon DEF ReturnFromLoad
    <2>2. \A u \in Loader, p \in Path : <<u, p>> \in loaded' \ loaded =>
              ok /\ u = t /\ p = path(t)
      BY <1>4 DEF ReturnFromLoad
    <2> QED  BY <1>4, <2>1, <2>2, MovesKeepLibraryInv
  <1>5. CASE GetLibrary(t)
    <2>1. \/ LoadGoto(t, "dlopen") /\ UNCHANGED loaded
          \/ LoadGoto(t, "checkOnLoadResult") /\ UNCHANGED loaded
          \/ ReturnFromLoad(t, FALSE)
      BY <1>5, Zenon DEF GetLibrary
    <2>2. UNCHANGED <<libraryVars, on_load_runs>>
      BY <1>5 DEF GetLibrary
    <2> QED  BY <1>3, <1>4, <2>1, <2>2, Zenon
  <1>6. CASE Dlopen(t)
    BY <1>3, <1>4, <1>6, Zenon DEF Dlopen
  <1>7. CASE PutLibrary(t)
    <2>1. CASE jni_on_load_result[path(t)] = NotLoaded
      BY <1>7, <2>1, PutKeepsLibraryInv
    <2>2. CASE jni_on_load_result[path(t)] # NotLoaded
      <3>1. LoadGoto(t, "checkOnLoadResult") /\ UNCHANGED <<libraryVars, on_load_runs, loaded>>
        BY <1>7, <2>2, Zenon DEF PutLibrary
      <3> QED  BY <1>3, <3>1
    <2> QED  BY <2>1, <2>2
  <1>8. CASE OnLoadLoads(t)
    <2>1. StackMoves(t, -1)
      BY <1>8, OnLoadLoadsMoves
    <2> QED  BY <1>8, <2>1, MovesKeepLibraryInv DEF OnLoadLoads
  <1>9. CASE SetResult(t)
    BY <1>9, SetResultKeepsLibraryInv
  <1>10. CASE CheckOnLoadResult(t)
    <2>1. UNCHANGED <<libraryVars, on_load_runs>>
      BY <1>10 DEF CheckOnLoadResult
    <2>2. CASE jni_on_load_thread_id[path(t)] = t
      <3>1. ReturnFromLoad(t, TRUE)
        BY <1>10, <2>2, Zenon DEF CheckOnLoadResult
      <3>2. t # NoThread
        BY LoaderAssumption, ThreadAssumption
      <3>3. jni_on_load_result[path(t)] = "pending"
        BY <1>2, <2>2, <3>2 DEF NamedIsPending
      <3> QED  BY <1>4, <2>1, <2>2, <3>1, <3>3, Zenon
    <2>3. CASE jni_on_load_thread_id[path(t)] # t
      <3>1. \/ LoadGoto(t, "asleep") /\ UNCHANGED loaded
            \/ ReturnFromLoad(t, jni_on_load_result[path(t)] = "okay")
        BY <1>10, <2>3 DEF CheckOnLoadResult
      <3> QED  BY <1>3, <1>4, <2>1, <3>1, Zenon
    <2> QED  BY <2>2, <2>3
  <1>11. CASE LoaderWakesEarly(t)
    BY <1>3, <1>11 DEF LoaderWakesEarly
  <1> QED
    BY <1>5, <1>6, <1>7, <1>8, <1>9, <1>10, <1>11, Zenon DEF LoaderStep

\* Whatever libraries threads load at once, and whatever libraries their
\* JNI_OnLoad functions load in turn (LoadNativeLibrary), JNI_OnLoad runs at
\* most once, and nobody is told that a library is loaded before its JNI_OnLoad
\* has succeeded, other than from within it.
THEOREM OnLoadIsDecisive == LibrariesSpec => []OnLoadDecides
  <1>1. LibraryInv /\ [LibrariesNext]_nativeLibraryVars => LibraryInv'
    <2>1. CASE LibrariesNext
      BY <2>1, LibraryStepKeepsInv, Zenon
    <2>2. CASE UNCHANGED nativeLibraryVars
      <3>1. /\ jni_on_load_thread_id' = jni_on_load_thread_id
            /\ jni_on_load_result' = jni_on_load_result
            /\ load_stack' = load_stack
            /\ on_load_runs' = on_load_runs
            /\ loaded' = loaded
        BY <2>2 DEF nativeLibraryVars, libraryVars
      <3>2. ASSUME LibraryTypes  PROVE LibraryTypes'
        BY <3>1, <3>2, Zenon DEF LibraryTypes
      <3>3. ASSUME NotLoadedNotRun, NamedIsPending  PROVE NotLoadedNotRun' /\ NamedIsPending'
        BY <3>1, <3>3, Zenon DEF NotLoadedNotRun, NamedIsPending
      <3>4. ASSUME RunnerIsNamed  PROVE RunnerIsNamed'
        BY <3>1, <3>4, Zenon DEF RunnerIsNamed, InOnLoad
      <3>5. ASSUME RunsAreDistinct  PROVE RunsAreDistinct'
        BY <3>1, <3>5, Zenon DEF RunsAreDistinct, InOnLoad
      <3>6. ASSUME OnLoadDecides  PROVE OnLoadDecides'
        BY <3>1, <3>6, Zenon DEF OnLoadDecides
      <3> QED
        BY <3>2, <3>3, <3>4, <3>5, <3>6, Zenon DEF LibraryInv
    <2> QED  BY <2>1, <2>2, Zenon
  <1>2. LibraryInv => OnLoadDecides
    BY Zenon DEF LibraryInv
  <1> QED
    BY <1>1, <1>2, LibrariesStart, PTL DEF LibrariesSpec

----------------------------------------------------------------------------
INSTANCE FiniteSetTheorems

(***************************************************************************)
(* IndirectReferenceTable for every size of the table, every set of        *)
(* objects and any depth of frames: RefsResolve.                           *)
(*                                                                         *)
(* The argument is about the stack of segment states: the current one, the *)
(* cookie of the current segment and the saved cookies.  Each counts the   *)
(* holes below its top exactly, as the table is now; tops do not grow      *)
(* towards the bottom of the stack; and the top entry of a segment that is *)
(* not empty is in use.  So a difference of two counts is a number of      *)
(* holes in one segment, an entry that is added or removed belongs to the  *)
(* current segment, and no count below it changes.  Good says this of a    *)
(* stack F of n states; there is one lemma for each operation on it.       *)
(***************************************************************************)
SegmentState == [topIndex : 0..max_entries, numHoles : Nat]
LiveRef == [iref : IndirectRef, obj : Object, depth : Nat]

HolesIn(ref, n) == {i \in 0..(n - 1) : ref[i] = Null}

Shape(F, n, ref, ser, L) ==
    /\ n \in Nat /\ n >= 2
    /\ F \in [1..n -> SegmentState]
    /\ ref \in [Index -> Object \cup {Null}]
    /\ ser \in [Index -> 0..(kIRTPrevCount - 1)]
    /\ L \subseteq LiveRef

Counted(F, n, ref) ==
    \A k \in 1..n : F[k].numHoles = Cardinality(HolesIn(ref, F[k].topIndex))

Nested(F, n, ref) ==
    /\ \A j, k \in 1..n : j <= k => F[k].topIndex <= F[j].topIndex
    /\ \A k \in 1..(n - 1) :
          F[k + 1].topIndex < F[k].topIndex => ref[F[k].topIndex - 1] # Null

Resolved(F, n, ref, ser, L) ==
    \A r \in L :
       /\ r.depth <= n - 2
       /\ r.iref.index < F[n - 1 - r.depth].topIndex
       /\ ser[r.iref.index] = r.iref.serial
       /\ ref[r.iref.index] = r.obj

Good(F, n, ref, ser, L) ==
    /\ Shape(F, n, ref, ser, L)
    /\ Counted(F, n, ref)
    /\ Nested(F, n, ref)
    /\ Resolved(F, n, ref, ser, L)

----------------------------------------------------------------------------
(* Counting holes *)

LEMMA HolesFinite ==
    ASSUME NEW ref, NEW n \in Nat
    PROVE  IsFiniteSet(HolesIn(ref, n)) /\ Cardinality(HolesIn(ref, n)) \in Nat
<1>1. IsFiniteSet(0..(n - 1))
    BY FS_Interval
<1>2. HolesIn(ref, n) \subseteq 0..(n - 1)
    BY DEF HolesIn
<1>. QED
    BY <1>1, <1>2, FS_Subset, FS_CardinalityType

\* More holes below a higher top: one of them is in between.
LEMMA HoleBetween ==
    ASSUME NEW ref, NEW m \in Nat, NEW n \in Nat, m <= n
    PROVE  /\ Cardinality(HolesIn(ref, m)) <= Cardinality(HolesIn(ref, n))
           /\ Cardinality(HolesIn(ref, m)) < Cardinality(HolesIn(ref, n))
                 <=> \E i \in m..(n - 1) : ref[i] = Null
<1>1. HolesIn(ref, m) \subseteq HolesIn(ref, n)
    BY DEF HolesIn
<1>2. /\ Cardinality(HolesIn(ref, m)) <= Cardinality(HolesIn(ref, n))
      /\ Cardinality(HolesIn(ref, m)) = Cardinality(HolesIn(ref, n))
            => HolesIn(ref, m) = HolesIn(ref, n)
    BY <1>1, HolesFinite, FS_Subset
<1>3. HolesIn(ref, m) = HolesIn(ref, n) <=> ~ \E i \in m..(n - 1) : ref[i] = Null
    BY DEF HolesIn
<1>4. Cardinality(HolesIn(ref, m)) \in Nat /\ Cardinality(HolesIn(ref, n)) \in Nat
    BY HolesFinite
<1>. QED
    BY <1>2, <1>3, <1>4

\* A run of holes right below a top.
LEMMA HolesInRun ==
    ASSUME NEW ref, NEW m \in Nat, NEW n \in Nat, m <= n,
           \A i \in m..(n - 1) : ref[i] = Null
    PROVE  Cardinality(HolesIn(ref, n)) = Cardinality(HolesIn(ref, m)) + (n - m)
<1>1. HolesIn(ref, n) = HolesIn(ref, m) \cup (m..(n - 1))
    BY DEF HolesIn
<1>2. HolesIn(ref, m) \cap (m..(n - 1)) = {}
    BY DEF HolesIn
<1>3. IsFiniteSet(m..(n - 1)) /\ Cardinality(m..(n - 1)) = n - m
    BY FS_Interval
<1>4. IsFiniteSet(HolesIn(ref, m)) /\ Cardinality(HolesIn(ref, m)) \in Nat
    BY HolesFinite
<1>5. Cardinality({}) = 0
    BY FS_EmptySet
<1>6. Cardinality(HolesIn(ref, m) \cup (m..(n - 1))) =
         Cardinality(HolesIn(ref, m)) + Cardinality(m..(n - 1))
            - Cardinality(HolesIn(ref, m) \cap (m..(n - 1)))
    BY <1>3, <1>4, FS_Union, Zenon
<1>7. Cardinality(HolesIn(ref, n)) =
         Cardinality(HolesIn(ref, m)) + (n - m) - 0
    BY <1>1, <1>2, <1>3, <1>5, <1>6, Zenon
<1>. QED
    BY <1>4, <1>7

----------------------------------------------------------------------------
(* The operations on the stack of segment states *)

LEMMA PushGood ==
    ASSUME NEW F, NEW n, NEW ref, NEW ser, NEW L, Good(F, n, ref, ser, L)
    PROVE  Good([k \in 1..(n + 1) |-> IF k = 1 THEN F[1] ELSE F[k - 1]],
                n + 1, ref, ser, L)
<1> DEFINE G == [k \in 1..(n + 1) |-> IF k = 1 THEN F[1] ELSE F[k - 1]]
<1> USE DEF Good
<1>1. Shape(G, n + 1, ref, ser, L)
    BY DEF Shape
<1>2. Counted(G, n + 1, ref)
    BY DEF Shape, Counted
<1>3. Nested(G, n + 1, ref)
    <2>1. n \in Nat /\ n >= 2 /\ \A k \in 1..n : F[k].topIndex \in Int
        BY DEF Shape, SegmentState
    <2>2. \A k \in 1..n : G[k + 1] = F[k]
        BY <2>1
    <2>3. G[1] = F[1]
        BY <2>1
    <2>4. \A k \in 1..(n + 1) : k = 1 \/ \E j \in 1..n : k = j + 1
        <3>1. \A k \in 2..(n + 1) : k - 1 \in 1..n /\ k = (k - 1) + 1
            BY <2>1
        <3>. QED
            BY <3>1, <2>1
    <2>5. ASSUME NEW j \in 1..(n + 1), NEW k \in 1..(n + 1), j <= k
          PROVE  G[k].topIndex <= G[j].topIndex
        BY <2>1, <2>2, <2>3, <2>4, <2>5 DEF Nested
    <2>6. ASSUME NEW k \in 1..n, G[k + 1].topIndex < G[k].topIndex
          PROVE  ref[G[k].topIndex - 1] # Null
        <3>1. CASE k = 1
            BY <3>1, <2>1, <2>2, <2>3, <2>6
        <3>2. CASE k # 1
            <4>1. k - 1 \in 1..(n - 1) /\ (k - 1) + 1 = k
                BY <3>2, <2>1
            <4>2. G[k + 1] = F[(k - 1) + 1] /\ G[k] = F[k - 1]
                BY <4>1, <3>2, <2>1
            <4>. QED
                BY <4>1, <4>2, <2>6, Zenon DEF Nested
        <3>. QED
            BY <3>1, <3>2, Zenon
    <2>7. 1..((n + 1) - 1) = 1..n
        BY <2>1
    <2> HIDE DEF G
    <2>. QED
        BY <2>5, <2>6, <2>7, Zenon DEF Nested
<1>4. Resolved(G, n + 1, ref, ser, L)
    BY DEF Shape, Resolved, LiveRef
<1>. QED
    BY <1>1, <1>2, <1>3, <1>4

LEMMA PopGood ==
    ASSUME NEW F, NEW n, NEW ref, NEW ser, NEW L, Good(F, n, ref, ser, L), n >= 3
    PROVE  Good([k \in 1..(n - 1) |-> F[k + 1]], n - 1, ref, ser,
                {r \in L : r.depth < n - 2})
<1> DEFINE G == [k \in 1..(n - 1) |-> F[k + 1]]
           M == {r \in L : r.depth < n - 2}
<1> USE DEF Good
<1>1. Shape(G, n - 1, ref, ser, M)
    BY DEF Shape
<1>2. Counted(G, n - 1, ref)
    BY DEF Shape, Counted
<1>3. Nested(G, n - 1, ref)
    BY DEF Shape, Nested
<1>4. Resolved(G, n - 1, ref, ser, M)
    <2> SUFFICES ASSUME NEW r \in M
                 PROVE  /\ r.depth <= (n - 1) - 2
                        /\ r.iref.index < G[(n - 1) - 1 - r.depth].topIndex
                        /\ ser[r.iref.index] = r.iref.serial
                        /\ ref[r.iref.index] = r.obj
        BY DEF Resolved
    <2>1. n \in Nat /\ r \in L /\ r.depth \in Nat /\ r.depth < n - 2
        BY DEF Shape, LiveRef
    <2>2. G[(n - 1) - 1 - r.depth] = F[n - 1 - r.depth]
        <3>1. (n - 1) - 1 - r.depth \in 1..(n - 1)
            BY <2>1
        <3>2. ((n - 1) - 1 - r.depth) + 1 = n - 1 - r.depth
            BY <2>1
        <3>. QED
            BY <3>1, <3>2
    <2>. QED
        BY <2>1, <2>2 DEF Resolved
<1>. QED
    BY <1>1, <1>2, <1>3, <1>4

----------------------------------------------------------------------------
\* Where Add puts an entry: a hole of the current segment below its top
\* entry, or the entry above the top.
Slot(F, ref, i) ==
    IF F[1].numHoles - F[2].numHoles > 0
    THEN /\ i <= F[1].topIndex - 2 /\ ref[i] = Null
         /\ \A j \in (i + 1)..(F[1].topIndex - 2) : ref[j] # Null
    ELSE i = F[1].topIndex

Filled(F) ==
    IF F[1].numHoles - F[2].numHoles > 0
    THEN [F[1] EXCEPT !.numHoles = @ - 1]
    ELSE [F[1] EXCEPT !.topIndex = @ + 1]

\* The counts tell the truth about holes of the current segment.
LEMMA SegmentHasHole ==
    ASSUME NEW F, NEW n, NEW ref, NEW ser, NEW L, Good(F, n, ref, ser, L)
    PROVE  /\ F[1] \in SegmentState /\ F[2] \in SegmentState
           /\ F[2].topIndex <= F[1].topIndex
           /\ F[1].numHoles - F[2].numHoles > 0 =>
                 /\ F[2].topIndex < F[1].topIndex
                 /\ ref[F[1].topIndex - 1] # Null
                 /\ \E i \in F[2].topIndex..(F[1].topIndex - 2) : ref[i] = Null
<1> USE DEF Good
<1>1. 1 \in 1..n /\ 2 \in 1..n /\ 1 \in 1..(n - 1) /\ n \in Nat
    BY DEF Shape
<1>2. F[1] \in SegmentState /\ F[2] \in SegmentState
    BY <1>1, Zenon DEF Shape
<1>3. F[2].topIndex <= F[1].topIndex
    BY <1>1 DEF Nested
<1>4. ASSUME F[1].numHoles - F[2].numHoles > 0
      PROVE  /\ F[2].topIndex < F[1].topIndex
             /\ ref[F[1].topIndex - 1] # Null
             /\ \E i \in F[2].topIndex..(F[1].topIndex - 2) : ref[i] = Null
    <2>1. /\ F[1].topIndex \in Nat /\ F[2].topIndex \in Nat
          /\ F[1].numHoles \in Nat /\ F[2].numHoles \in Nat
        BY <1>2 DEF SegmentState
    <2>2. /\ F[1].numHoles = Cardinality(HolesIn(ref, F[1].topIndex))
          /\ F[2].numHoles = Cardinality(HolesIn(ref, F[2].topIndex))
        BY <1>1, Zenon DEF Counted
    <2>3. Cardinality(HolesIn(ref, F[2].topIndex))
             < Cardinality(HolesIn(ref, F[1].topIndex))
        BY <2>1, <2>2, <1>4
    <2>4. PICK i \in F[2].topIndex..(F[1].topIndex - 1) : ref[i] = Null
        BY <2>1, <2>3, <1>3, HoleBetween, Zenon
    <2>5. F[2].topIndex < F[1].topIndex
        BY <2>1, <2>4
    <2>6. ref[F[1].topIndex - 1] # Null
        <3>1. F[1 + 1].topIndex < F[1].topIndex
            BY <2>5
        <3>. QED
            BY <3>1, <1>1, Zenon DEF Nested
    <2>7. i \in F[2].topIndex..(F[1].topIndex - 2)
        BY <2>1, <2>4, <2>6
    <2>. QED
        BY <2>4, <2>5, <2>6, <2>7, Zenon
<1>. QED
    BY <1>2, <1>3, <1>4

\* An assignment to an entry changes no hole below it.
LEMMA HolesBelowSame ==
    ASSUME NEW ref \in [Index -> Object \cup {Null}], NEW i \in Index, NEW x,
           NEW m \in Nat, m <= i, TableConstants
    PROVE  HolesIn([ref EXCEPT ![i] = x], m) = HolesIn(ref, m)
<1>1. \A j \in 0..(m - 1) : j \in Index /\ j # i
    BY DEF Index, TableConstants
<1>2. \A j \in 0..(m - 1) : [ref EXCEPT ![i] = x][j] = ref[j]
    BY <1>1, Zenon
<1>. QED
    BY <1>2 DEF HolesIn

\* What Good says of a state of the stack below the current one.
Below(F, n, ref, k) ==
    /\ k \in 1..n /\ F[k] \in SegmentState /\ F[k].topIndex \in Nat
    /\ F[k].topIndex <= F[2].topIndex
    /\ F[k].numHoles = Cardinality(HolesIn(ref, F[k].topIndex))
    /\ k # n /\ F[k + 1].topIndex < F[k].topIndex =>
          ref[F[k].topIndex - 1] # Null

\* Every state of the stack but the first survives an assignment to an entry
\* of the current segment.
LEMMA BelowCurrent ==
    ASSUME NEW F, NEW n, NEW ref, NEW ser, NEW L, Good(F, n, ref, ser, L),
           NEW i \in Index, F[2].topIndex <= i, NEW x, TableConstants
    PROVE  \A k \in 2..n : Below(F, n, [ref EXCEPT ![i] = x], k)
<1> SUFFICES ASSUME NEW k \in 2..n
             PROVE  Below(F, n, [ref EXCEPT ![i] = x], k)
    BY Zenon
<1> USE DEF Good
<1>1. n \in Nat /\ n >= 2 /\ 2 \in 1..n /\ k \in 1..n /\ 2 <= k
    BY DEF Shape
<1>2. /\ F[k] \in SegmentState /\ F[2] \in SegmentState
      /\ ref \in [Index -> Object \cup {Null}]
    BY <1>1, Zenon DEF Shape
<1>3. F[k].topIndex \in 0..max_entries /\ F[2].topIndex \in Nat
    BY <1>2, TableConstants DEF SegmentState, TableConstants
<1>4. F[k].topIndex <= F[2].topIndex
    BY <1>1 DEF Nested
<1>5. i \in Nat /\ max_entries \in Nat
    BY DEF Index, TableConstants
<1>6. F[k].topIndex <= i /\ F[k].topIndex \in Nat
    BY <1>3, <1>4, <1>5
<1>7. HolesIn([ref EXCEPT ![i] = x], F[k].topIndex) = HolesIn(ref, F[k].topIndex)
    BY <1>2, <1>6, HolesBelowSame, ZenonT(40)
<1>8. F[k].numHoles = Cardinality(HolesIn([ref EXCEPT ![i] = x], F[k].topIndex))
    BY <1>1, <1>7 DEF Counted
<1>9. ASSUME k # n, F[k + 1].topIndex < F[k].topIndex
      PROVE  [ref EXCEPT ![i] = x][F[k].topIndex - 1] # Null
    <2>1. k \in 1..(n - 1) /\ k + 1 \in 1..n
        BY <1>1, <1>9
    <2>2. ref[F[k].topIndex - 1] # Null
        BY <2>1, <1>9 DEF Nested
    <2>3. F[k + 1].topIndex \in Nat
        BY <2>1, <1>5 DEF Shape, SegmentState
    <2>4. F[k].topIndex - 1 \in Index /\ F[k].topIndex - 1 # i
        BY <2>3, <1>3, <1>5, <1>6, <1>9 DEF Index
    <2>. QED
        BY <2>2, <2>4, <1>2
<1>. QED
    BY <1>1, <1>2, <1>4, <1>6, <1>8, <1>9 DEF Below

\* What remains to be shown of a stack whose current state has changed along
\* with an entry of the current segment.
LEMMA NewCurrent ==
    ASSUME NEW F, NEW n, NEW ref, NEW ser, NEW L, Good(F, n, ref, ser, L),
           NEW i \in Index, F[2].topIndex <= i, NEW x \in Object \cup {Null},
           TableConstants,
           NEW s \in SegmentState, F[2].topIndex <= s.topIndex,
           s.numHoles = Cardinality(HolesIn([ref EXCEPT ![i] = x], s.topIndex)),
           F[2].topIndex < s.topIndex => [ref EXCEPT ![i] = x][s.topIndex - 1] # Null
    PROVE  /\ [F EXCEPT ![1] = s] \in [1..n -> SegmentState]
           /\ Counted([F EXCEPT ![1] = s], n, [ref EXCEPT ![i] = x])
           /\ Nested([F EXCEPT ![1] = s], n, [ref EXCEPT ![i] = x])
<1> DEFINE G == [F EXCEPT ![1] = s]
           new == [ref EXCEPT ![i] = x]
<1>1. n \in Nat /\ n >= 2 /\ F \in [1..n -> SegmentState]
    BY DEF Good, Shape
<1>2. G \in [1..n -> SegmentState] /\ G[1] = s /\ \A k \in 2..n : G[k] = F[k]
    BY <1>1
<1>3. \A k \in 1..n : k = 1 \/ k \in 2..n
    BY <1>1
<1>4. \A k \in 2..n : Below(F, n, new, k)
    BY BelowCurrent, Zenon
<1>5. s.topIndex \in Nat
    BY DEF SegmentState, TableConstants
<1> HIDE DEF G, new
<1>6. Counted(G, n, new)
    BY <1>2, <1>3, <1>4, Zenon DEF Counted, new, Below
<1>7. ASSUME NEW j \in 1..n, NEW k \in 1..n, j <= k
      PROVE  G[k].topIndex <= G[j].topIndex
    <2>1. CASE j = 1
        <3>1. 2 \in 2..n
            BY <1>1
        <3>. QED
            BY <2>1, <3>1, <1>2, <1>3, <1>4, <1>5 DEF Below
    <2>2. CASE j \in 2..n
        <3>1. k \in 2..n
            BY <2>2, <1>1, <1>7
        <3>2. F[k].topIndex <= F[j].topIndex
            BY <1>7 DEF Good, Nested
        <3>. QED
            BY <2>2, <3>1, <3>2, <1>2, Zenon
    <2>. QED
        BY <2>1, <2>2, <1>3, Zenon
<1>8. ASSUME NEW k \in 1..(n - 1), G[k + 1].topIndex < G[k].topIndex
      PROVE  new[G[k].topIndex - 1] # Null
    <2>1. k \in 1..n /\ k + 1 \in 2..n /\ k # n
        BY <1>1
    <2>2. CASE k = 1
        BY <2>1, <2>2, <1>2, <1>8 DEF new
    <2>3. CASE k \in 2..n
        BY <2>1, <2>3, <1>2, <1>4, <1>8, Zenon DEF Below
    <2>. QED
        BY <2>1, <2>2, <2>3, <1>3, Zenon
<1>. QED
    BY <1>2, <1>6, <1>7, <1>8, Zenon DEF Nested, G, new

LEMMA AddGood ==
    ASSUME NEW F, NEW n, NEW ref, NEW ser, NEW L, Good(F, n, ref, ser, L),
           TableConstants, NEW obj \in Object, NEW s \in 0..(kIRTPrevCount - 1),
           NEW i \in Index, Slot(F, ref, i), F[1].topIndex # max_entries
    PROVE  Good([F EXCEPT ![1] = Filled(F)], n,
                [ref EXCEPT ![i] = obj], [ser EXCEPT ![i] = s],
                L \cup {[iref |-> [index |-> i, serial |-> s],
                         obj |-> obj, depth |-> n - 2]})
<1> DEFINE G == [F EXCEPT ![1] = Filled(F)]
           new == [ref EXCEPT ![i] = obj]
           news == [ser EXCEPT ![i] = s]
           fresh == [iref |-> [index |-> i, serial |-> s],
                     obj |-> obj, depth |-> n - 2]
           hole == F[1].numHoles - F[2].numHoles > 0
<1>1. Shape(F, n, ref, ser, L) /\ Counted(F, n, ref) /\ Resolved(F, n, ref, ser, L)
    BY DEF Good
<1>2. n \in Nat /\ n >= 2 /\ 1 \in 1..n /\ 2 \in 1..n
    BY <1>1 DEF Shape
<1>3. /\ F[1] \in SegmentState /\ F[2] \in SegmentState
      /\ F[2].topIndex <= F[1].topIndex
      /\ hole => /\ F[2].topIndex < F[1].topIndex
                 /\ ref[F[1].topIndex - 1] # Null
                 /\ \E j \in F[2].topIndex..(F[1].topIndex - 2) : ref[j] = Null
    BY SegmentHasHole, Zenon
<1>4. /\ F[1].topIndex \in Nat /\ F[1].topIndex < max_entries /\ F[2].topIndex \in Nat
      /\ F[1].numHoles \in Nat /\ F[2].numHoles \in Nat
      /\ i \in Nat /\ max_entries \in Nat /\ Null \notin Object
    BY <1>3 DEF SegmentState, Index, TableConstants
<1>5. F[1].numHoles = Cardinality(HolesIn(ref, F[1].topIndex))
    BY <1>1, <1>2, Zenon DEF Counted
<1>6. ref \in [Index -> Object \cup {Null}] /\ ser \in [Index -> 0..(kIRTPrevCount - 1)]
    BY <1>1 DEF Shape
<1>7. new[i] = obj /\ \A j \in Index : j # i => new[j] = ref[j]
    BY <1>6, Zenon
<1>8. /\ F[2].topIndex <= i /\ i < Filled(F).topIndex
      /\ F[1].topIndex <= Filled(F).topIndex
      /\ Filled(F) \in SegmentState
      /\ Filled(F).numHoles = Cardinality(HolesIn(new, Filled(F).topIndex))
      /\ new[Filled(F).topIndex - 1] # Null
    <2>1. CASE hole
        <3>1. PICK j \in F[2].topIndex..(F[1].topIndex - 2) : ref[j] = Null
            BY <2>1, <1>3, Zenon
        <3>2. /\ i <= F[1].topIndex - 2 /\ ref[i] = Null
              /\ ~ (j \in (i + 1)..(F[1].topIndex - 2))
            BY <2>1, <3>1, Zenon DEF Slot
        <3>3. F[2].topIndex <= i
            BY <3>1, <3>2, <1>4
        <3>4. /\ Filled(F).topIndex = F[1].topIndex
              /\ Filled(F).numHoles = F[1].numHoles - 1
              /\ Filled(F) \in SegmentState
            BY <2>1, <1>3, <1>4 DEF Filled, SegmentState
        <3>5. HolesIn(new, F[1].topIndex) = HolesIn(ref, F[1].topIndex) \ {i}
            <4>1. \A k \in 0..(F[1].topIndex - 1) : k \in Index
                BY <1>4 DEF Index
            <4>. QED
                BY <4>1, <1>4, <1>7, Zenon DEF HolesIn
        <3>6. i \in HolesIn(ref, F[1].topIndex)
            BY <3>2, <1>4 DEF HolesIn
        <3>7. Cardinality(HolesIn(new, F[1].topIndex)) = F[1].numHoles - 1
            <4>1. IsFiniteSet(HolesIn(ref, F[1].topIndex))
                BY <1>4, HolesFinite
            <4>2. Cardinality(HolesIn(ref, F[1].topIndex) \ {i}) =
                     Cardinality(HolesIn(ref, F[1].topIndex)) - 1
                BY <4>1, <3>6, FS_RemoveElement, Zenon
            <4>. QED
                BY <4>2, <3>5, <1>5, Zenon
        <3>8. F[1].topIndex - 1 \in Index /\ F[1].topIndex - 1 # i
            BY <3>2, <3>3, <1>4 DEF Index
        <3>9. new[F[1].topIndex - 1] # Null
            BY <3>8, <2>1, <1>3, <1>7, Zenon
        <3>. QED
            BY <3>2, <3>3, <3>4, <3>7, <3>9, <1>4
    <2>2. CASE ~hole
        <3>1. i = F[1].topIndex
            BY <2>2 DEF Slot
        <3>2. /\ Filled(F).topIndex = F[1].topIndex + 1
              /\ Filled(F).numHoles = F[1].numHoles
              /\ Filled(F) \in SegmentState
            BY <2>2, <1>3, <1>4 DEF Filled, SegmentState
        <3>3. HolesIn(new, F[1].topIndex + 1) = HolesIn(ref, F[1].topIndex)
            <4>1. \A k \in 0..(F[1].topIndex - 1) : k \in Index /\ k # i
                BY <3>1, <1>4 DEF Index
            <4>2. new[F[1].topIndex] # Null
                BY <3>1, <1>4, <1>7
            <4>3. \A k \in 0..(F[1].topIndex - 1) : new[k] = ref[k]
                BY <4>1, <1>7, Zenon
            <4>4. 0..((F[1].topIndex + 1) - 1) = 0..(F[1].topIndex - 1) \cup {F[1].topIndex}
                BY <1>4
            <4>. QED
                BY <4>2, <4>3, <4>4, Zenon DEF HolesIn
        <3>4. new[(F[1].topIndex + 1) - 1] # Null
            BY <3>1, <1>4, <1>7
        <3>. QED
            BY <3>1, <3>2, <3>3, <3>4, <1>3, <1>4, <1>5
    <2>. QED
        BY <2>1, <2>2, Zenon
<1>9. F[2].topIndex <= Filled(F).topIndex
    BY <1>8, <1>3, <1>4 DEF SegmentState
<1>10. /\ G \in [1..n -> SegmentState]
       /\ Counted(G, n, new)
       /\ Nested(G, n, new)
    BY <1>8, <1>9, NewCurrent, Zenon
<1>11. Shape(G, n, new, news, L \cup {fresh})
    <2>1. new \in [Index -> Object \cup {Null}] /\ news \in [Index -> 0..(kIRTPrevCount - 1)]
        BY <1>6
    <2>2. fresh \in LiveRef
        BY <1>2 DEF LiveRef, IndirectRef
    <2>. QED
        BY <2>1, <2>2, <1>1, <1>10, Zenon DEF Shape
<1>12. G[1] = Filled(F) /\ \A k \in 2..n : G[k] = F[k]
    BY <1>1, <1>2 DEF Shape
<1>13. ASSUME NEW r \in L
       PROVE  /\ r.depth <= n - 2
              /\ r.iref.index < G[n - 1 - r.depth].topIndex
              /\ news[r.iref.index] = r.iref.serial
              /\ new[r.iref.index] = r.obj
    <2>1. /\ r.depth \in Nat /\ r.iref.index \in Index /\ r.obj \in Object
          /\ r.iref.index \in Nat
        BY <1>1 DEF Shape, LiveRef, IndirectRef, Index
    <2>2. /\ r.depth <= n - 2
          /\ r.iref.index < F[n - 1 - r.depth].topIndex
          /\ ser[r.iref.index] = r.iref.serial
          /\ ref[r.iref.index] = r.obj
        BY <1>1, Zenon DEF Resolved
    <2>3. n - 1 - r.depth \in 1..n /\ (n - 1 - r.depth = 1 \/ n - 1 - r.depth \in 2..n)
        BY <2>1, <2>2, <1>2
    <2>4. F[n - 1 - r.depth].topIndex \in Nat
          /\ F[n - 1 - r.depth].topIndex <= F[1].topIndex
        BY <2>3, <1>1, <1>2, <1>4 DEF Good, Nested, Shape, SegmentState
    <2>5. r.iref.index # i
        <3>1. CASE hole
            BY <3>1, <2>1, <2>2, <1>4, ZenonT(40) DEF Slot
        <3>2. CASE ~hole
            BY <3>2, <2>1, <2>2, <2>4, <1>4 DEF Slot
        <3>. QED
            BY <3>1, <3>2, Zenon
    <2>6. r.iref.index < G[n - 1 - r.depth].topIndex
        <3>1. CASE n - 1 - r.depth = 1
            <4>1. r.iref.index < F[1].topIndex
                BY <3>1, <2>2, Zenon
            <4>2. Filled(F).topIndex \in Nat
                BY <1>8, <1>4 DEF SegmentState
            <4>. QED
                BY <4>1, <4>2, <3>1, <2>1, <1>4, <1>8, <1>12
        <3>2. CASE n - 1 - r.depth \in 2..n
            BY <3>2, <2>2, <1>12, Zenon
        <3>. QED
            BY <3>1, <3>2, <2>3, Zenon
    <2>. QED
        BY <2>1, <2>2, <2>5, <2>6, <1>6, <1>7, Zenon
<1>14. /\ fresh.depth <= n - 2
       /\ fresh.iref.index < G[n - 1 - fresh.depth].topIndex
       /\ news[fresh.iref.index] = fresh.iref.serial
       /\ new[fresh.iref.index] = fresh.obj
    <2>1. n - 1 - (n - 2) = 1
        BY <1>2
    <2>. QED
        BY <2>1, <1>2, <1>6, <1>7, <1>8, <1>12
<1>15. Resolved(G, n, new, news, L \cup {fresh})
    BY <1>13, <1>14, Zenon DEF Resolved
<1>. QED
    BY <1>10, <1>11, <1>15 DEF Good

----------------------------------------------------------------------------
\* Where the loop of Remove stops.
Consumed(F, ref, m) ==
    LET holes == F[1].numHoles - F[2].numHoles IN
    /\ m \in F[2].topIndex..(F[1].topIndex - 1) /\ F[1].topIndex - 1 - m <= holes
    /\ \A j \in m..(F[1].topIndex - 2) : ref[j] = Null
    /\ m # F[2].topIndex /\ F[1].topIndex - 1 - m # holes => ref[m - 1] # Null

\* The state that Remove leaves behind.
Emptied(F, ref, i, s) ==
    IF i = F[1].topIndex - 1
    THEN \E m \in 0..max_entries :
            /\ Consumed(F, ref, m)
            /\ s = [topIndex |-> m,
                    numHoles |-> F[1].numHoles - (F[1].topIndex - 1 - m)]
    ELSE s = [F[1] EXCEPT !.numHoles = @ + 1]

\* The new current state counts its holes and its top entry is in use; only
\* holes and the removed entry are between the old and the new top.
LEMMA EmptiedState ==
    ASSUME NEW F, NEW n, NEW ref, NEW ser, NEW L, Good(F, n, ref, ser, L),
           TableConstants, NEW i \in Index, NEW s, Emptied(F, ref, i, s),
           F[2].topIndex <= i, i < F[1].topIndex, ref[i] # Null
    PROVE  /\ s \in SegmentState
           /\ F[2].topIndex <= s.topIndex
           /\ s.numHoles = Cardinality(HolesIn([ref EXCEPT ![i] = Null], s.topIndex))
           /\ F[2].topIndex < s.topIndex =>
                 [ref EXCEPT ![i] = Null][s.topIndex - 1] # Null
           /\ \A j \in s.topIndex..(F[1].topIndex - 1) : j = i \/ ref[j] = Null
<1> DEFINE new == [ref EXCEPT ![i] = Null]
<1>1. Shape(F, n, ref, ser, L) /\ Counted(F, n, ref) /\ Nested(F, n, ref)
    BY DEF Good
<1>2. n \in Nat /\ n >= 2 /\ 1 \in 1..n /\ 2 \in 1..n /\ 1 \in 1..(n - 1)
    BY <1>1 DEF Shape
<1>3. /\ F[1] \in SegmentState /\ F[2] \in SegmentState
      /\ F[2].topIndex <= F[1].topIndex
    BY SegmentHasHole, Zenon
<1>4. /\ F[1].topIndex \in Nat /\ F[1].topIndex <= max_entries /\ F[2].topIndex \in Nat
      /\ F[1].numHoles \in Nat /\ F[2].numHoles \in Nat
      /\ i \in Nat /\ max_entries \in Nat
    BY <1>3 DEF SegmentState, Index, TableConstants
<1>5. /\ F[1].numHoles = Cardinality(HolesIn(ref, F[1].topIndex))
      /\ F[2].numHoles = Cardinality(HolesIn(ref, F[2].topIndex))
    BY <1>1, <1>2 DEF Counted
<1>6. ref \in [Index -> Object \cup {Null}]
    BY <1>1, Zenon DEF Shape
<1>7. new[i] = Null /\ \A j \in Index : j # i => new[j] = ref[j]
    BY <1>6, Zenon
<1> HIDE DEF new
<1>8. CASE i # F[1].topIndex - 1
    <2>1. /\ s.topIndex = F[1].topIndex /\ s.numHoles = F[1].numHoles + 1
          /\ s \in SegmentState
        BY <1>8, <1>3, <1>4 DEF Emptied, SegmentState
    <2>2. HolesIn(new, F[1].topIndex) = HolesIn(ref, F[1].topIndex) \cup {i}
        <3>1. \A k \in 0..(F[1].topIndex - 1) : k \in Index
            BY <1>4 DEF Index
        <3>. QED
            BY <3>1, <1>4, <1>7 DEF HolesIn
    <2>3. i \notin HolesIn(ref, F[1].topIndex)
        BY Zenon DEF HolesIn
    <2>4. Cardinality(HolesIn(new, F[1].topIndex)) = F[1].numHoles + 1
        <3>1. IsFiniteSet(HolesIn(ref, F[1].topIndex))
            BY <1>4, HolesFinite
        <3>2. Cardinality(HolesIn(ref, F[1].topIndex) \cup {i}) =
                 Cardinality(HolesIn(ref, F[1].topIndex)) + 1
            BY <3>1, <2>3, FS_AddElement, Zenon
        <3>. QED
            BY <3>2, <2>2, <1>5, Zenon
    <2>5. F[2].topIndex < F[1].topIndex
        BY <1>4
    <2>6. ref[F[1].topIndex - 1] # Null
        <3>1. F[1 + 1].topIndex < F[1].topIndex
            BY <2>5
        <3>. QED
            BY <3>1, <1>1, <1>2, Zenon DEF Nested
    <2>7. new[F[1].topIndex - 1] # Null
        <3>1. F[1].topIndex - 1 \in Index
            BY <2>5, <1>4 DEF Index
        <3>. QED
            BY <3>1, <2>6, <1>7, <1>8, Zenon
    <2>8. F[1].topIndex..(F[1].topIndex - 1) = {}
        BY <1>4
    <2>. QED
        BY <2>1, <2>4, <2>5, <2>7, <2>8, <1>3, Zenon DEF new
<1>9. CASE i = F[1].topIndex - 1
    <2>1. PICK m \in 0..max_entries :
             /\ Consumed(F, ref, m)
             /\ s = [topIndex |-> m,
                     numHoles |-> F[1].numHoles - (F[1].topIndex - 1 - m)]
        BY <1>9, ZenonT(40) DEF Emptied
    <2>2. /\ m \in Nat /\ F[2].topIndex <= m /\ m <= F[1].topIndex - 1
          /\ F[1].topIndex - 1 - m <= F[1].numHoles - F[2].numHoles
          /\ \A j \in m..(F[1].topIndex - 2) : ref[j] = Null
          /\ m # F[2].topIndex
             /\ F[1].topIndex - 1 - m # F[1].numHoles - F[2].numHoles
                => ref[m - 1] # Null
        BY <2>1, <1>4 DEF Consumed
    <2>3. s.topIndex = m /\ s.numHoles = F[1].numHoles - (F[1].topIndex - 1 - m)
          /\ s \in SegmentState
        BY <2>1, <2>2, <1>4 DEF SegmentState
    <2>4. HolesIn(ref, F[1].topIndex) = HolesIn(ref, F[1].topIndex - 1)
        <3>1. 0..(F[1].topIndex - 1) = 0..((F[1].topIndex - 1) - 1) \cup {i}
            BY <1>4, <1>9
        <3>. QED
            BY <3>1, ZenonT(40) DEF HolesIn
    <2>5. Cardinality(HolesIn(ref, F[1].topIndex - 1)) =
             Cardinality(HolesIn(ref, m)) + ((F[1].topIndex - 1) - m)
        <3>1. F[1].topIndex - 1 \in Nat
            BY <2>2, <1>4
        <3>2. (F[1].topIndex - 1) - 1 = F[1].topIndex - 2
            BY <1>4
        <3>. QED
            BY <3>1, <3>2, <2>2, HolesInRun
    <2>6. Cardinality(HolesIn(ref, m)) \in Nat
        BY <2>2, HolesFinite, ZenonT(40)
    <2>7. Cardinality(HolesIn(ref, m)) = s.numHoles
        BY <2>2, <2>3, <2>4, <2>5, <2>6, <1>4, <1>5
    <2>8. HolesIn(new, m) = HolesIn(ref, m)
        <3>1. m <= i
            BY <2>2, <1>4, <1>9, ZenonT(40)
        <3>2. m \in Nat /\ ref \in [Index -> Object \cup {Null}] /\ i \in Index
            BY <2>2, <1>6
        <3>3. HolesIn([ref EXCEPT ![i] = Null], m) = HolesIn(ref, m)
            BY <3>1, <3>2, HolesBelowSame, ZenonT(40)
        <3>. QED
            BY <3>3, Zenon DEF new
    <2>9. ASSUME F[2].topIndex < m
          PROVE  new[m - 1] # Null
        <3>1. m - 1 \in Index /\ m - 1 # i /\ m - 1 \in F[2].topIndex..(m - 1)
            BY <2>2, <2>9, <1>4, <1>9 DEF Index
        <3>2. CASE F[1].topIndex - 1 - m # F[1].numHoles - F[2].numHoles
            BY <3>1, <3>2, <2>2, <2>9, <1>4, <1>7
        <3>3. CASE F[1].topIndex - 1 - m = F[1].numHoles - F[2].numHoles
            <4>1. s.numHoles = F[2].numHoles
                BY <3>3, <2>3, <1>4
            <4>2. ~ (Cardinality(HolesIn(ref, F[2].topIndex))
                        < Cardinality(HolesIn(ref, m)))
                BY <4>1, <2>7, <1>4, <1>5
            <4>3. ~ \E j \in F[2].topIndex..(m - 1) : ref[j] = Null
                BY <4>2, <2>2, <1>4, HoleBetween, ZenonT(40)
            <4>. QED
                BY <4>3, <3>1, <1>7, ZenonT(40)
        <3>. QED
            BY <3>2, <3>3
    <2>10. \A j \in m..(F[1].topIndex - 1) : j = i \/ ref[j] = Null
        BY <2>2, <1>4, <1>9
    <2>. QED
        BY <2>2, <2>3, <2>7, <2>8, <2>9, <2>10, Zenon DEF new
<1>. QED
    BY <1>8, <1>9, Zenon

LEMMA RemoveGood ==
    ASSUME NEW F, NEW n, NEW ref, NEW ser, NEW L, Good(F, n, ref, ser, L),
           TableConstants, NEW i \in Index, NEW s, Emptied(F, ref, i, s),
           F[2].topIndex <= i, i < F[1].topIndex, ref[i] # Null,
           NEW M \in SUBSET L, \A r \in M : r.iref # [index |-> i, serial |-> ser[i]]
    PROVE  Good([F EXCEPT ![1] = s], n, [ref EXCEPT ![i] = Null], ser, M)
<1> DEFINE G == [F EXCEPT ![1] = s]
           new == [ref EXCEPT ![i] = Null]
<1>1. Shape(F, n, ref, ser, L) /\ Resolved(F, n, ref, ser, L)
    BY Zenon DEF Good
<1>2. /\ s \in SegmentState
      /\ F[2].topIndex <= s.topIndex
      /\ s.numHoles = Cardinality(HolesIn([ref EXCEPT ![i] = Null], s.topIndex))
      /\ F[2].topIndex < s.topIndex =>
            [ref EXCEPT ![i] = Null][s.topIndex - 1] # Null
      /\ \A j \in s.topIndex..(F[1].topIndex - 1) : j = i \/ ref[j] = Null
    BY EmptiedState
<1>3. /\ G \in [1..n -> SegmentState]
      /\ Counted(G, n, new)
      /\ Nested(G, n, new)
    BY <1>2, NewCurrent, ZenonT(40)
<1>4. /\ n \in Nat /\ n >= 2 /\ F \in [1..n -> SegmentState] /\ 1 \in 1..n
      /\ ref \in [Index -> Object \cup {Null}]
    BY <1>1 DEF Shape
<1>5. Shape(G, n, new, ser, M)
    BY <1>1, <1>3, <1>4, Zenon DEF Shape
<1>6. G[1] = s /\ \A k \in 2..n : G[k] = F[k]
    BY <1>4
<1>7. ASSUME NEW r \in M
      PROVE  /\ r.depth <= n - 2
             /\ r.iref.index < G[n - 1 - r.depth].topIndex
             /\ ser[r.iref.index] = r.iref.serial
             /\ new[r.iref.index] = r.obj
    <2>1. /\ r.depth \in Nat /\ r.iref \in IndirectRef
          /\ r.iref.index \in Index /\ r.obj \in Object
          /\ r.iref.index \in Nat
        BY <1>1 DEF Shape, LiveRef, IndirectRef, Index
    <2>2. /\ r.depth <= n - 2
          /\ r.iref.index < F[n - 1 - r.depth].topIndex
          /\ ser[r.iref.index] = r.iref.serial
          /\ ref[r.iref.index] = r.obj
        BY <1>1, Zenon DEF Resolved
    <2>3. r.iref.index # i
        <3>1. r.iref = [index |-> r.iref.index, serial |-> r.iref.serial]
            BY <2>1, ZenonT(40) DEF IndirectRef
        <3>. QED
            BY <3>1, <2>2, Zenon
    <2>4. n - 1 - r.depth = 1 \/ n - 1 - r.depth \in 2..n
        BY <2>1, <2>2, <1>4
    <2>5. r.iref.index < G[n - 1 - r.depth].topIndex
        <3>1. CASE n - 1 - r.depth = 1
            <4>1. r.iref.index < F[1].topIndex
                BY <3>1, <2>2, Zenon
            <4>2. /\ s.topIndex \in Nat /\ F[1].topIndex \in Nat
                  /\ Null \notin Object
                BY <1>2, <1>4 DEF SegmentState, TableConstants
            <4>3. ~ (r.iref.index \in s.topIndex..(F[1].topIndex - 1))
                BY <4>2, <2>1, <2>2, <2>3, <1>2, Zenon
            <4>. QED
                BY <4>1, <4>2, <4>3, <3>1, <2>1, <1>6
        <3>2. CASE n - 1 - r.depth \in 2..n
            BY <3>2, <2>2, <1>6, Zenon
        <3>. QED
            BY <3>1, <3>2, <2>4, Zenon
    <2>. QED
        BY <2>1, <2>2, <2>3, <2>5, <1>4, Zenon
<1>. QED
    BY <1>3, <1>5, <1>7, Zenon DEF Good, Resolved

\* A sweep replaces references and makes no holes.
LEMMA SweepGood ==
    ASSUME NEW F, NEW n, NEW ref, NEW ser, NEW L, Good(F, n, ref, ser, L),
           TableConstants, NEW new \in [Index -> Object \cup {Null}],
           \A j \in Index : new[j] = Null <=> ref[j] = Null,
           NEW M \in SUBSET LiveRef,
           \A r \in M : \E q \in L : /\ r.iref = q.iref /\ r.depth = q.depth
                                     /\ r.obj = new[q.iref.index]
    PROVE  Good(F, n, new, ser, M)
<1>1. /\ Shape(F, n, ref, ser, L) /\ Counted(F, n, ref) /\ Nested(F, n, ref)
      /\ Resolved(F, n, ref, ser, L)
    BY Zenon DEF Good
<1>2. n \in Nat /\ n >= 2 /\ F \in [1..n -> SegmentState] /\ max_entries \in Nat
    BY <1>1, Zenon DEF Shape, TableConstants
<1>3. \A k \in 1..n : F[k].topIndex \in 0..max_entries
    BY <1>2, Zenon DEF SegmentState
<1>4. Shape(F, n, new, ser, M)
    BY <1>1, Zenon DEF Shape
<1>5. ASSUME NEW k \in 1..n
      PROVE  HolesIn(new, F[k].topIndex) = HolesIn(ref, F[k].topIndex)
    <2>1. \A j \in 0..(F[k].topIndex - 1) : j \in Index
        BY <1>2, <1>3 DEF Index
    <2>. QED
        BY <2>1, Zenon DEF HolesIn
<1>6. Counted(F, n, new)
    BY <1>1, <1>5, Zenon DEF Counted
<1>7. ASSUME NEW k \in 1..(n - 1), F[k + 1].topIndex < F[k].topIndex
      PROVE  new[F[k].topIndex - 1] # Null
    <2>1. k \in 1..n /\ k + 1 \in 1..n
        BY <1>2
    <2>2. F[k].topIndex - 1 \in Index
        BY <2>1, <1>2, <1>3, <1>7 DEF Index
    <2>. QED
        BY <2>2, <1>1, <1>7, Zenon DEF Nested
<1>8. Nested(F, n, new)
    BY <1>1, <1>7, Zenon DEF Nested
<1>9. Resolved(F, n, new, ser, M)
    BY <1>1, Zenon DEF Resolved
<1>. QED
    BY <1>4, <1>6, <1>8, <1>9, Zenon DEF Good

----------------------------------------------------------------------------
(* The inductive invariant *)

Frames ==
    [k \in 1..(Depth + 2) |->
        IF k = 1 THEN segment_state
        ELSE IF k = 2 THEN local_ref_cookie ELSE saved_cookies[k - 2]]

IInv ==
    /\ saved_cookies \in Seq(SegmentState)
    /\ Good(Frames, Depth + 2, reference, serial, live)

LEMMA FramesFacts ==
    ASSUME IInv
    PROVE  /\ Depth \in Nat
           /\ Frames[1] = segment_state /\ Frames[2] = local_ref_cookie
           /\ segment_state \in SegmentState /\ local_ref_cookie \in SegmentState
           /\ reference \in [Index -> Object \cup {Null}]
           /\ serial \in [Index -> 0..(kIRTPrevCount - 1)]
           /\ live \subseteq LiveRef
<1>1. Depth \in Nat
    BY DEF IInv, Depth
<1>2. Frames[1] = segment_state /\ Frames[2] = local_ref_cookie
    BY <1>1 DEF Frames
<1>3. Shape(Frames, Depth + 2, reference, serial, live)
    BY DEF IInv, Good
<1>4. 1 \in 1..(Depth + 2) /\ 2 \in 1..(Depth + 2)
    BY <1>1
<1>. QED
    BY <1>1, <1>2, <1>3, <1>4, Zenon DEF Shape

LEMMA InitIInv ==
    ASSUME TableConstants, TableInit
    PROVE  IInv
<1>1. Depth = 0 /\ saved_cookies \in Seq(SegmentState) /\ live = {}
    BY DEF TableInit, Depth
<1>2. max_entries \in Nat /\ kIRTPrevCount \in Nat \ {0}
    BY DEF TableConstants
<1>3. FirstSegment \in SegmentState
    BY <1>2 DEF FirstSegment, SegmentState
<1>4. Frames = [k \in 1..2 |-> FirstSegment]
    BY <1>1 DEF TableInit, Frames
<1>5. /\ reference \in [Index -> Object \cup {Null}]
      /\ serial \in [Index -> 0..(kIRTPrevCount - 1)]
    BY <1>2 DEF TableInit
<1>6. Shape(Frames, 2, reference, serial, live)
    BY <1>1, <1>3, <1>4, <1>5 DEF Shape
<1>7. HolesIn(reference, 0) = {} /\ Cardinality({}) = 0
    BY FS_EmptySet DEF HolesIn
<1>8. Counted(Frames, 2, reference)
    BY <1>4, <1>7, Zenon DEF Counted, FirstSegment
<1>9. Nested(Frames, 2, reference)
    BY <1>4 DEF Nested, FirstSegment
<1>10. Resolved(Frames, 2, reference, serial, live)
    BY <1>1 DEF Resolved
<1>. QED
    BY <1>1, <1>6, <1>8, <1>9, <1>10 DEF IInv, Good

\* The serial number of the next use of an entry.
LEMMA NextSerialType ==
    ASSUME TableConstants, NEW s \in 0..(kIRTPrevCount - 1)
    PROVE  NextSerial(s) \in 0..(kIRTPrevCount - 1)
BY DEF NextSerial, TableConstants

\* What Add does to any good stack of which it is given the first two states.
LEMMA AddStep ==
    ASSUME TableConstants, NEW F, NEW n, NEW L, NEW obj \in Object,
           Good(F, n, reference, serial, L), Add(obj, F[1], F[2], L, n - 2)
    PROVE  Good([F EXCEPT ![1] = segment_state'], n, reference', serial', live')
<1>1. PICK i \in Index :
         /\ Slot(F, reference, i)
         /\ serial' = [serial EXCEPT ![i] = NextSerial(serial[i])]
         /\ reference' = [reference EXCEPT ![i] = obj]
         /\ live' = L \cup
               {[iref |-> [index |-> i, serial |-> NextSerial(serial[i])],
                 obj |-> obj, depth |-> n - 2]}
    BY Zenon DEF Add, Slot, ScanStopsAt, IsHole
<1>2. segment_state' = Filled(F) /\ F[1].topIndex # max_entries
    BY DEF Add, Filled
<1>3. NextSerial(serial[i]) \in 0..(kIRTPrevCount - 1)
    BY NextSerialType, Zenon DEF Good, Shape
<1>. QED
    BY <1>1, <1>2, <1>3, AddGood, Zenon

\* The stack that PopFrame leaves, as a function and as the variables have it.
LEMMA PoppedFrames ==
    ASSUME TableConstants, IInv, RestoreCookies
    PROVE  /\ Depth \in Nat /\ Depth >= 1 /\ Depth' = Depth - 1
           /\ saved_cookies' \in Seq(SegmentState)
           /\ Good([k \in 1..(Depth + 1) |-> Frames[k + 1]], Depth + 1,
                   reference, serial, Survivors)
           /\ Frames' = [[k \in 1..(Depth + 1) |-> Frames[k + 1]]
                            EXCEPT ![1] = segment_state']
<1>1. saved_cookies \in Seq(SegmentState) /\ saved_cookies # <<>>
    BY DEF IInv, RestoreCookies
<1>2. Depth \in Nat /\ Depth >= 1
    BY <1>1 DEF Depth
<1>3. saved_cookies' = Tail(saved_cookies) /\ local_ref_cookie' = saved_cookies[1]
    BY <1>1 DEF RestoreCookies
<1>4. /\ saved_cookies' \in Seq(SegmentState) /\ Depth' = Depth - 1
      /\ \A k \in 1..(Depth - 1) : saved_cookies'[k] = saved_cookies[k + 1]
    BY <1>1, <1>3 DEF Depth
<1>5. Good([k \in 1..(Depth + 1) |-> Frames[k + 1]], Depth + 1,
           reference, serial, Survivors)
    <2>1. /\ Depth + 2 >= 3 /\ (Depth + 2) - 1 = Depth + 1
          /\ (Depth + 2) - 2 = Depth
        BY <1>2
    <2>2. Good(Frames, Depth + 2, reference, serial, live)
        BY DEF IInv
    <2>3. Good([k \in 1..((Depth + 2) - 1) |-> Frames[k + 1]], (Depth + 2) - 1,
               reference, serial, {r \in live : r.depth < (Depth + 2) - 2})
        BY <2>1, <2>2, PopGood, Zenon
    <2>. QED
        BY <2>1, <2>3, Zenon DEF Survivors
<1>6. Frames' = [k \in 1..(Depth + 1) |->
                   IF k = 1 THEN segment_state'
                   ELSE IF k = 2 THEN local_ref_cookie' ELSE saved_cookies'[k - 2]]
    BY <1>2, <1>4 DEF Frames
<1>7. \A k \in 2..(Depth + 1) : Frames'[k] = Frames[k + 1]
    <2> SUFFICES ASSUME NEW k \in 2..(Depth + 1)
                 PROVE  Frames'[k] = Frames[k + 1]
        OBVIOUS
    <2>1. k \in Nat /\ k + 1 \in 1..(Depth + 2) /\ k + 1 # 1 /\ k + 1 # 2
          /\ (k + 1) - 2 = k - 1 /\ k \in 1..(Depth + 1) /\ k # 1
        BY <1>2
    <2>2. Frames[k + 1] = saved_cookies[k - 1]
        BY <2>1, Zenon DEF Frames
    <2>3. CASE k = 2
        BY <2>1, <2>2, <2>3, <1>3, <1>6
    <2>4. CASE k # 2
        <3>1. k - 2 \in 1..(Depth - 1) /\ (k - 2) + 1 = k - 1
            BY <2>1, <2>4, <1>2
        <3>. QED
            BY <3>1, <2>1, <2>2, <2>4, <1>4, <1>6, Zenon
    <2>. QED
        BY <2>3, <2>4, Zenon
<1>8. Frames' = [[k \in 1..(Depth + 1) |-> Frames[k + 1]] EXCEPT ![1] = segment_state']
    <2>1. \A k \in 1..(Depth + 1) : k = 1 \/ k \in 2..(Depth + 1)
        BY <1>2
    <2>2. 1 \in 1..(Depth + 1)
        BY <1>2
    <2>. QED
        BY <2>1, <2>2, <1>6, <1>7, Zenon
<1>. QED
    BY <1>2, <1>4, <1>5, <1>8, Zenon

\* A reference in use yields its object.
LEMMA GetLive ==
    ASSUME TableConstants, IInv, NEW r \in live
    PROVE  Get(r.iref) = r.obj /\ r.obj \in Object
<1>1. /\ Depth \in Nat /\ Frames[1] = segment_state
      /\ segment_state \in SegmentState /\ live \subseteq LiveRef
    BY FramesFacts, Zenon
<1>2. /\ r.depth \in Nat /\ r.iref.index \in Nat /\ r.obj \in Object /\ Null \notin Object
    BY <1>1 DEF LiveRef, IndirectRef, Index, TableConstants
<1>3. /\ r.depth <= (Depth + 2) - 2
      /\ r.iref.index < Frames[(Depth + 2) - 1 - r.depth].topIndex
      /\ serial[r.iref.index] = r.iref.serial
      /\ reference[r.iref.index] = r.obj
    BY Zenon DEF IInv, Good, Resolved
<1>4. /\ (Depth + 2) - 1 - r.depth \in 1..(Depth + 2) /\ 1 \in 1..(Depth + 2)
      /\ 1 <= (Depth + 2) - 1 - r.depth
    BY <1>1, <1>2, <1>3
<1>5. Frames[(Depth + 2) - 1 - r.depth].topIndex <= Frames[1].topIndex
    BY <1>4, Zenon DEF IInv, Good, Nested
<1>6. Frames[(Depth + 2) - 1 - r.depth].topIndex \in Nat /\ Frames[1].topIndex \in Nat
    <2>1. Frames \in [1..(Depth + 2) -> SegmentState]
        BY DEF IInv, Good, Shape
    <2>2. \A s \in SegmentState : s.topIndex \in Nat
        BY DEF SegmentState, TableConstants
    <2>. QED
        BY <2>1, <2>2, <1>4, Zenon
<1>7. r.iref.index < topIndex /\ topIndex \in Nat
    BY <1>1, <1>2, <1>3, <1>5, <1>6 DEF topIndex
<1>. QED
    BY <1>2, <1>3, <1>7 DEF Get, IsHole

LEMMA NextIInv ==
    ASSUME TableConstants, IInv, [TableNext]_tableVars
    PROVE  IInv'
<1>1. /\ Depth \in Nat
      /\ Frames[1] = segment_state /\ Frames[2] = local_ref_cookie
      /\ segment_state \in SegmentState /\ local_ref_cookie \in SegmentState
      /\ reference \in [Index -> Object \cup {Null}]
      /\ serial \in [Index -> 0..(kIRTPrevCount - 1)]
      /\ live \subseteq LiveRef
    BY FramesFacts
<1>2. saved_cookies \in Seq(SegmentState) /\ Good(Frames, Depth + 2, reference, serial, live)
    BY DEF IInv
<1>3. ASSUME UNCHANGED <<local_ref_cookie, saved_cookies>>
      PROVE  /\ Depth' = Depth /\ saved_cookies' \in Seq(SegmentState)
             /\ Frames' = [Frames EXCEPT ![1] = segment_state']
    BY <1>1, <1>2, <1>3, Zenon DEF Frames, Depth
<1>4. ASSUME NEW obj \in Object, NewRef(obj)
      PROVE  IInv'
    <2>1. Add(obj, Frames[1], Frames[2], live, (Depth + 2) - 2)
        <3>1. (Depth + 2) - 2 = Depth
            BY <1>1
        <3>. QED
            BY <3>1, <1>1, <1>4, Zenon DEF NewRef
    <2>2. Good([Frames EXCEPT ![1] = segment_state'], Depth + 2, reference', serial', live')
        BY <2>1, <1>2, AddStep, Zenon
    <2>. QED
        BY <2>2, <1>3, <1>4, Zenon DEF NewRef, IInv
<1>5. ASSUME NEW iref \in IndirectRef, Remove(iref)
      PROVE  IInv'
    <2>1. /\ iref.index \in Index /\ iref = [index |-> iref.index, serial |-> serial[iref.index]]
          /\ Frames[2].topIndex <= iref.index /\ iref.index < Frames[1].topIndex
          /\ reference[iref.index] # Null
        <3>1. /\ iref.index \in Index
              /\ iref = [index |-> iref.index, serial |-> serial[iref.index]]
              /\ Frames[2].topIndex <= iref.index /\ iref.index < Frames[1].topIndex
              /\ iref.index # Frames[1].topIndex - 1 => reference[iref.index] # Null
            BY <1>1, <1>5, Zenon DEF Remove, Removable, IndirectRef, IsHole, topIndex,
                              bottomIndex, SegmentState, Index
        <3>2. Frames[1 + 1].topIndex < Frames[1].topIndex
            BY <3>1, <1>1 DEF SegmentState, Index
        <3>3. 1 \in 1..((Depth + 2) - 1)
            BY <1>1
        <3>4. reference[Frames[1].topIndex - 1] # Null
            BY <3>2, <3>3, <1>2, Zenon DEF Good, Nested
        <3>. QED
            BY <3>1, <3>4
    <2>2. Emptied(Frames, reference, iref.index, segment_state')
        BY <1>1, <1>5, Zenon DEF Remove, Emptied, Consumed, HolesConsumedTo, segmentHoles,
                          topIndex, bottomIndex, IsHole
    <2>3. live' \in SUBSET live /\ \A r \in live' : r.iref # iref
        BY <1>5 DEF Remove
    <2>4. Good([Frames EXCEPT ![1] = segment_state'], Depth + 2,
               [reference EXCEPT ![iref.index] = Null], serial, live')
        BY <2>1, <2>2, <2>3, <1>2, RemoveGood, Zenon
    <2>. QED
        BY <2>4, <1>3, <1>5, Zenon DEF Remove, IInv
<1>6. ASSUME PushFrame
      PROVE  IInv'
    <2>1. saved_cookies' = <<local_ref_cookie>> \o saved_cookies
        BY <1>6 DEF PushFrame
    <2>2. saved_cookies' \in Seq(SegmentState) /\ Len(saved_cookies') = Len(saved_cookies) + 1
        BY <2>1, <1>1, <1>2
    <2>3. /\ saved_cookies'[1] = local_ref_cookie
          /\ \A k \in 2..(Depth + 1) : saved_cookies'[k] = saved_cookies[k - 1]
        BY <2>1, <1>1, <1>2 DEF Depth
    <2>4. Depth' = Depth + 1 /\ Depth' + 2 = (Depth + 2) + 1
        BY <2>2, <1>1 DEF Depth
    <2>5. Frames' = [k \in 1..((Depth + 2) + 1) |->
                       IF k = 1 THEN Frames[1] ELSE Frames[k - 1]]
        <3>1. Frames' = [k \in 1..((Depth + 2) + 1) |->
                IF k = 1 THEN segment_state
                ELSE IF k = 2 THEN segment_state ELSE saved_cookies'[k - 2]]
            BY <2>4, <1>6, Zenon DEF Frames, PushFrame
        <3>2. ASSUME NEW k \in 1..((Depth + 2) + 1), k # 1, k # 2
              PROVE  saved_cookies'[k - 2] = Frames[k - 1]
            <4>1. CASE k = 3
                BY <4>1, <2>3, <1>1
            <4>2. CASE k # 3
                <5>1. /\ k - 2 \in 2..(Depth + 1) /\ (k - 2) - 1 = (k - 1) - 2
                      /\ k - 1 \in 1..(Depth + 2) /\ k - 1 # 1 /\ k - 1 # 2
                    BY <4>2, <3>2, <1>1
                <5>2. Frames[k - 1] = saved_cookies[(k - 1) - 2]
                    BY <5>1, Zenon DEF Frames
                <5>. QED
                    BY <5>1, <5>2, <2>3, Zenon
            <4>. QED
                BY <4>1, <4>2, Zenon
        <3>. QED
            BY <3>1, <3>2, <1>1
    <2>6. Good(Frames', (Depth + 2) + 1, reference, serial, live)
        BY <2>5, <1>2, PushGood
    <2>. QED
        BY <2>2, <2>4, <2>6, <1>6, Zenon DEF PushFrame, IInv
<1>7. ASSUME PopFrame
      PROVE  IInv'
    <2>1. RestoreCookies /\ segment_state' = local_ref_cookie
        BY <1>7, Zenon DEF PopFrame
    <2> DEFINE G == [k \in 1..(Depth + 1) |-> Frames[k + 1]]
    <2>2. /\ Depth' = Depth - 1 /\ saved_cookies' \in Seq(SegmentState)
          /\ Good(G, Depth + 1, reference, serial, Survivors)
          /\ Frames' = [G EXCEPT ![1] = segment_state']
        BY <2>1, PoppedFrames
    <2>3. Frames' = G
        <3>1. 1 \in 1..(Depth + 1)
            BY <1>1
        <3>2. G[1] = segment_state'
            BY <3>1, <2>1, <1>1
        <3>3. [G EXCEPT ![1] = G[1]] = G
            BY Zenon
        <3>. QED
            BY <3>2, <3>3, <2>2, Zenon
    <2>4. Depth' + 2 = Depth + 1
        BY <2>2, <1>1
    <2>. QED
        BY <2>2, <2>3, <2>4, <1>7, Zenon DEF PopFrame, IInv
<1>8. ASSUME NEW r \in live, PopLocalFrame(r)
      PROVE  IInv'
    <2>1. RestoreCookies
        BY <1>8, Zenon DEF PopLocalFrame
    <2> DEFINE G == [k \in 1..(Depth + 1) |-> Frames[k + 1]]
    <2>2. /\ Depth >= 1 /\ Depth' = Depth - 1 /\ saved_cookies' \in Seq(SegmentState)
          /\ Good(G, Depth + 1, reference, serial, Survivors)
          /\ Frames' = [G EXCEPT ![1] = segment_state']
        BY <2>1, PoppedFrames, Zenon
    <2>3. G[1] = local_ref_cookie /\ G[2] = Head(saved_cookies)
        <3>1. 1 \in 1..(Depth + 1) /\ 2 \in 1..(Depth + 1) /\ 3 \in 1..(Depth + 2)
            BY <2>2, <1>1
        <3>2. Frames[3] = saved_cookies[1]
            BY <3>1 DEF Frames
        <3>. QED
            BY <3>1, <3>2, <2>1, <1>1, <1>2 DEF RestoreCookies
    <2>4. Get(r.iref) \in Object
        BY GetLive, Zenon
    <2>5. (Depth + 1) - 2 = Depth - 1 /\ Depth' + 2 = Depth + 1
        BY <2>2, <1>1
    <2> HIDE DEF G
    <2>6. Add(Get(r.iref), G[1], G[2], Survivors, (Depth + 1) - 2)
        BY <2>3, <2>5, <1>8 DEF PopLocalFrame
    <2>7. Good([G EXCEPT ![1] = segment_state'], Depth + 1, reference', serial', live')
        BY <2>2, <2>4, <2>6, AddStep, Zenon
    <2>. QED
        BY <2>2, <2>5, <2>7, Zenon DEF IInv
<1>9. ASSUME NEW unmarked \in SUBSET (Object \ {ClearedJniWeakGlobal}),
             SweepJniWeakGlobals(unmarked)
      PROVE  IInv'
    <2> DEFINE Swept(o) == IF o \in unmarked THEN ClearedJniWeakGlobal ELSE o
    <2>1. /\ reference' = [i \in Index |-> IF i < topIndex THEN Swept(reference[i])
                                                           ELSE reference[i]]
          /\ live' = {[r EXCEPT !.obj = Swept(@)] : r \in live}
          /\ UNCHANGED <<serial, segment_state, local_ref_cookie, saved_cookies>>
        BY <1>9 DEF SweepJniWeakGlobals
    <2>2. Null \notin Object /\ ClearedJniWeakGlobal \in Object
        BY DEF TableConstants
    <2>3. /\ reference' \in [Index -> Object \cup {Null}]
          /\ \A j \in Index : reference'[j] = Null <=> reference[j] = Null
        BY <2>1, <2>2, <1>1, Zenon
    <2>4. ASSUME NEW q \in live
          PROVE  /\ q.iref.index \in Index /\ q.iref.index < topIndex
                 /\ reference[q.iref.index] = q.obj
        <3>1. q \in LiveRef /\ q.iref.index \in Index /\ q.obj \in Object
            BY <1>1, Zenon DEF LiveRef, IndirectRef
        <3>2. Get(q.iref) = q.obj
            BY GetLive, Zenon
        <3>3. segment_state.topIndex \in Nat /\ q.iref.index \in Nat
            BY <3>1, <1>1 DEF SegmentState, Index, TableConstants
        <3>. QED
            BY <3>1, <3>2, <3>3, <2>2 DEF Get, topIndex
    <2>5. /\ live' \in SUBSET LiveRef
          /\ \A r \in live' : \E q \in live : /\ r.iref = q.iref /\ r.depth = q.depth
                                              /\ r.obj = reference'[q.iref.index]
        <3>1. ASSUME NEW q \in live
              PROVE  LET r == [q EXCEPT !.obj = Swept(@)]
                     IN  /\ r \in LiveRef
                         /\ r.iref = q.iref /\ r.depth = q.depth
                         /\ r.obj = reference'[q.iref.index]
            <4>1. q \in LiveRef /\ q.obj \in Object
                BY <1>1 DEF LiveRef
            <4>2. Swept(q.obj) \in Object
                BY <4>1, <2>2
            <4>3. reference'[q.iref.index] = Swept(q.obj)
                BY <2>1, <2>4
            <4>. QED
                BY <4>1, <4>2, <4>3 DEF LiveRef
        <3>. QED
            BY <3>1, <2>1, ZenonT(40)
    <2>6. Good(Frames, Depth + 2, reference', serial, live')
        BY <2>3, <2>5, <1>2, SweepGood
    <2>7. Frames' = Frames /\ Depth' = Depth
        BY <2>1 DEF Frames, Depth
    <2>. QED
        BY <2>1, <2>6, <2>7, <1>2, Zenon DEF IInv
<1>10. ASSUME UNCHANGED tableVars
       PROVE  IInv'
    <2>1. Frames' = Frames /\ Depth' = Depth
        BY <1>10 DEF tableVars, Frames, Depth
    <2>. QED
        BY <2>1, <1>2, <1>10, Zenon DEF tableVars, IInv
<1>. QED
    BY <1>4, <1>5, <1>6, <1>7, <1>8, <1>9, <1>10, Zenon DEF TableNext

LEMMA IInvImplies ==
    ASSUME TableConstants, IInv
    PROVE  RefsResolve
<1>1. \A r \in live : Get(r.iref) = r.obj
    BY GetLive, Zenon
<1>2. segmentHoles > 0 => \E i \in bottomIndex..(topIndex - 2) : IsHole(i)
    <2>1. Frames[1] = segment_state /\ Frames[2] = local_ref_cookie
        BY FramesFacts
    <2>2. Good(Frames, Depth + 2, reference, serial, live)
        BY Zenon DEF IInv
    <2>3. Frames[1].numHoles - Frames[2].numHoles > 0 =>
             \E i \in Frames[2].topIndex..(Frames[1].topIndex - 2) : reference[i] = Null
        BY <2>2, SegmentHasHole
    <2>. QED
        BY <2>1, <2>3, Zenon DEF segmentHoles, bottomIndex, topIndex, IsHole
<1>. QED
    BY <1>1, <1>2 DEF RefsResolve

----------------------------------------------------------------------------
\* For every size of the table and depth of frames: a reference that was
\* neither deleted nor lost with its frame yields its object, and Add finds a
\* hole in its own segment whenever the counts say there is one.
THEOREM ReferencesResolve == TableSpec => []RefsResolve
<1> USE TableAssumption
<1>1. TableInit => IInv
    BY InitIInv
<1>2. IInv /\ [TableNext]_tableVars => IInv'
    BY NextIInv
<1>3. IInv => RefsResolve
    BY IInvImplies
<1>. QED
    BY <1>1, <1>2, <1>3, PTL DEF TableSpec

============================================================================
