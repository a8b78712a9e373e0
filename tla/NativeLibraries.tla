--------------------------- MODULE NativeLibraries ---------------------------
(***************************************************************************)
(* JavaVMExt::LoadNativeLibrary and SharedLibrary                          *)
(* (runtime/java_vm_ext.cc): threads load libraries by path; the first to  *)
(* do so runs the library's JNI_OnLoad, which may load libraries itself,   *)
(* and the others wait for its result.                                     *)
(*                                                                         *)
(* Everything under jni_libraries_lock_ or under a library's               *)
(* jni_on_load_lock_ is one step.  dlopen may fail.  A library without     *)
(* JNI_OnLoad is one whose JNI_OnLoad does nothing and succeeds.  The      *)
(* class loader override and the error messages are left out.              *)
(***************************************************************************)
EXTENDS Integers, Sequences, FiniteSets, Threads

CONSTANTS
    Loader,       \* the threads that load libraries
    Path,         \* the paths of libraries
    ClassLoader,
    NotLoaded,    \* what libraries_ has for a path it does not have
    Loads         \* the libraries that each one's JNI_OnLoad may load

ASSUME LoaderAssumption ==
    /\ Loader \subseteq Thread
    /\ Loads \in [Path -> SUBSET Path]
    /\ NotLoaded \notin {"pending", "okay", "failed"}

VARIABLES
    class_loader,           \* SharedLibrary::class_loader_, by path
    jni_on_load_thread_id,  \* jni_on_load_thread_id_
    jni_on_load_result,     \* jni_on_load_result_; NotLoaded: not in libraries_
    load_stack,             \* the calls of LoadNativeLibrary of each thread
    on_load_runs,           \* how often each JNI_OnLoad was called
    loaded                  \* <<t, p>>: LoadNativeLibrary(p) told t "true"

libraryVars == <<class_loader, jni_on_load_thread_id, jni_on_load_result>>
nativeLibraryVars == <<libraryVars, load_stack, on_load_runs, loaded>>

LibrariesInit ==
    /\ class_loader = [p \in Path |-> NotLoaded]
    /\ jni_on_load_thread_id = [p \in Path |-> NoThread]
    /\ jni_on_load_result = [p \in Path |-> NotLoaded]
    /\ load_stack = [t \in Loader |-> <<>>]
    /\ on_load_runs = [p \in Path |-> 0]
    /\ loaded = {}

\* The innermost call of a thread, the last of its stack.
LoadAt(t, label) == load_stack[t] # <<>> /\ Head(load_stack[t]).pc = label
path(t) == Head(load_stack[t]).path
loader(t) == Head(load_stack[t]).class_loader
LoadGoto(t, label) == load_stack' = [load_stack EXCEPT ![t][1].pc = label]

CallLoad(p, l) == [path |-> p, class_loader |-> l, pc |-> "get", todo |-> {}]

ReturnFromLoad(t, result) ==
    /\ load_stack' = [load_stack EXCEPT ![t] = Tail(@)]
    /\ loaded' = IF result THEN loaded \cup {<<t, path(t)>>} ELSE loaded

----------------------------------------------------------------------------
CallLoadNativeLibrary(t, p, l) ==
    /\ load_stack[t] = <<>>
    /\ load_stack' = [load_stack EXCEPT ![t] = <<CallLoad(p, l)>>]
    /\ UNCHANGED <<libraryVars, on_load_runs, loaded>>

\* The first look into libraries_.
GetLibrary(t) ==
    /\ LoadAt(t, "get")
    /\ CASE jni_on_load_result[path(t)] = NotLoaded ->
                LoadGoto(t, "dlopen") /\ UNCHANGED loaded
         [] /\ jni_on_load_result[path(t)] # NotLoaded
            /\ class_loader[path(t)] # loader(t) ->
                ReturnFromLoad(t, FALSE)
         [] OTHER ->
                LoadGoto(t, "checkOnLoadResult") /\ UNCHANGED loaded
    /\ UNCHANGED <<libraryVars, on_load_runs>>

Dlopen(t) ==
    /\ LoadAt(t, "dlopen")
    /\ \/ LoadGoto(t, "put") /\ UNCHANGED loaded
       \/ ReturnFromLoad(t, FALSE)
    /\ UNCHANGED <<libraryVars, on_load_runs>>

\* Mistaken variant: libraries_ is not looked at again.
PutLibrary_NoSecondLook(t) ==
    /\ LoadAt(t, "put")
    /\ class_loader' = [class_loader EXCEPT ![path(t)] = loader(t)]
    /\ jni_on_load_thread_id' = [jni_on_load_thread_id EXCEPT ![path(t)] = t]
    /\ jni_on_load_result' = [jni_on_load_result EXCEPT ![path(t)] = "pending"]
    /\ load_stack' = [load_stack EXCEPT
                         ![t][1] = [@ EXCEPT !.pc = "onLoad", !.todo = Loads[path(t)]]]
    /\ on_load_runs' = [on_load_runs EXCEPT ![path(t)] = @ + 1]
    /\ UNCHANGED loaded

\* The second look, which adds the library unless another thread has.  That
\* other thread's class loader is not compared.
PutLibrary(t) ==
    /\ LoadAt(t, "put")
    /\ IF jni_on_load_result[path(t)] = NotLoaded
       THEN /\ class_loader' = [class_loader EXCEPT ![path(t)] = loader(t)]
            /\ jni_on_load_thread_id' = [jni_on_load_thread_id EXCEPT ![path(t)] = t]
            /\ jni_on_load_result' = [jni_on_load_result EXCEPT ![path(t)] = "pending"]
            /\ load_stack' = [load_stack EXCEPT
                         ![t][1] = [@ EXCEPT !.pc = "onLoad", !.todo = Loads[path(t)]]]
            /\ on_load_runs' = [on_load_runs EXCEPT ![path(t)] = @ + 1]
       ELSE /\ LoadGoto(t, "checkOnLoadResult")
            /\ UNCHANGED <<libraryVars, on_load_runs>>
    /\ UNCHANGED loaded

\* JNI_OnLoad loads a library, with its own class loader ...
OnLoadLoads(t) ==
    /\ LoadAt(t, "onLoad")
    /\ LET f == Head(load_stack[t]) IN
       \E p \in f.todo :
          load_stack' = [load_stack EXCEPT
             ![t] = <<CallLoad(p, loader(t)), [f EXCEPT !.todo = f.todo \ {p}]>> \o Tail(@)]
    /\ UNCHANGED <<libraryVars, on_load_runs, loaded>>

\* ... and returns a version or an error: SetResult, whose broadcast wakes
\* those that wait.
SetResult(t) ==
    /\ LoadAt(t, "onLoad")
    /\ \E ok \in BOOLEAN :
          /\ jni_on_load_result' =
                [jni_on_load_result EXCEPT ![path(t)] = IF ok THEN "okay" ELSE "failed"]
          /\ load_stack' = [u \in Loader |->
                IF u = t THEN Tail(load_stack[t])
                ELSE IF LoadAt(u, "asleep") /\ path(u) = path(t)
                THEN [load_stack[u] EXCEPT ![1].pc = "checkOnLoadResult"]
                ELSE load_stack[u]]
          /\ loaded' = IF ok THEN loaded \cup {<<t, path(t)>>}
                             ELSE loaded \ {<<t, path(t)>>}
    /\ jni_on_load_thread_id' = [jni_on_load_thread_id EXCEPT ![path(t)] = NoThread]
    /\ UNCHANGED <<class_loader, on_load_runs>>

\* CheckOnLoadResult: a recursive call need not wait.
CheckOnLoadResult(t) ==
    /\ LoadAt(t, "checkOnLoadResult")
    /\ CASE jni_on_load_thread_id[path(t)] = t -> ReturnFromLoad(t, TRUE)
         [] /\ jni_on_load_thread_id[path(t)] # t
            /\ jni_on_load_result[path(t)] = "pending" ->
                LoadGoto(t, "asleep") /\ UNCHANGED loaded
         [] OTHER -> ReturnFromLoad(t, jni_on_load_result[path(t)] = "okay")
    /\ UNCHANGED <<libraryVars, on_load_runs>>

LoaderWakesEarly(t) ==
    /\ LoadAt(t, "asleep")
    /\ LoadGoto(t, "checkOnLoadResult")
    /\ UNCHANGED <<libraryVars, on_load_runs, loaded>>

----------------------------------------------------------------------------
LoaderStep(t) ==
    \/ GetLibrary(t) \/ Dlopen(t) \/ PutLibrary(t)
    \/ OnLoadLoads(t) \/ SetResult(t)
    \/ CheckOnLoadResult(t)

LibrariesNext ==
    \E t \in Loader :
       \/ \E p \in Path, l \in ClassLoader : CallLoadNativeLibrary(t, p, l)
       \/ LoaderStep(t)
       \/ LoaderWakesEarly(t)

LibrariesSpec == LibrariesInit /\ [][LibrariesNext]_nativeLibraryVars

\* JNI_OnLoad returns, and threads go on with a load they have begun.
LibrariesFairSpec == LibrariesSpec /\ \A t \in Loader : WF_nativeLibraryVars(LoaderStep(t))

----------------------------------------------------------------------------
\* Whatever threads load a library at once, its JNI_OnLoad runs once, and a
\* thread is told that the library is loaded only when JNI_OnLoad has
\* succeeded, or from within JNI_OnLoad (java_vm_ext.cc, CheckOnLoadResult:
\* "If the call has not yet finished in another thread, wait for it").
OnLoadDecides ==
    /\ \A p \in Path : on_load_runs[p] <= 1
    /\ \A t \in Loader, p \in Path : <<t, p>> \in loaded =>
          \/ jni_on_load_result[p] = "okay"
          \/ jni_on_load_result[p] = "pending" /\ jni_on_load_thread_id[p] = t

\* A thread is in LoadNativeLibrary.
Loading(t) == load_stack[t] # <<>>
==============================================================================
