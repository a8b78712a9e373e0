----------------------- MODULE IndirectReferenceTable -----------------------
(***************************************************************************)
(* IndirectReferenceTable (runtime/indirect_reference_table.cc): a table   *)
(* of object references that native code names by index and serial number. *)
(* A table of local references is cut into segments, one per native call   *)
(* or local frame (runtime/jni_env_ext.cc,                                 *)
(* entrypoints/quick/quick_jni_entrypoints.cc); the tables of global and   *)
(* weak global references have one segment, and the collector sweeps the   *)
(* weak globals (runtime/java_vm_ext.cc).  Operations are serial: a table  *)
(* is a thread's own, or its lock is held.                                 *)
(*                                                                         *)
(* Of the kIRTPrevCount references of an entry only the one at serial_ is  *)
(* ever read, so an entry is its serial number and that reference.  The    *)
(* kind bits of a reference are left out: one table is modelled.           *)
(***************************************************************************)
EXTENDS Integers, Sequences, FiniteSets

CONSTANTS
    Object,
    Null,
    ClearedJniWeakGlobal,  \* what a cleared weak global refers to
    max_entries,           \* max_entries_
    kIRTPrevCount,
    MaxFrames              \* bound on the depth of frames

TableConstants ==
    /\ Null \notin Object /\ ClearedJniWeakGlobal \in Object
    /\ max_entries \in Nat \ {0} /\ kIRTPrevCount \in Nat \ {0}
    /\ MaxFrames \in Nat

ASSUME TableAssumption == TableConstants

VARIABLES
    kind,              \* kind_
    serial,            \* table_[i].serial_
    reference,         \* *table_[i].GetReference()
    segment_state,     \* segment_state_.parts
    local_ref_cookie,  \* JNIEnvExt::local_ref_cookie
    saved_cookies,     \* the cookies of the frames below, the last first
    live               \* the references native code may use, per frame:
                       \* those Add returned less those it has deleted

tableVars == <<kind, serial, reference, segment_state, local_ref_cookie,
          saved_cookies, live>>

Index == 0..(max_entries - 1)
IndirectRef == [index : Index, serial : 0..(kIRTPrevCount - 1)]

\* IRT_FIRST_SEGMENT
FirstSegment == [topIndex |-> 0, numHoles |-> 0]

TableInit ==
    /\ kind \in {"local", "weak_global"}
    /\ serial = [i \in Index |-> 0]
    /\ reference = [i \in Index |-> Null]
    /\ segment_state = FirstSegment
    /\ local_ref_cookie = FirstSegment
    /\ saved_cookies = <<>>
    /\ live = {}

topIndex == segment_state.topIndex
bottomIndex == local_ref_cookie.topIndex
segmentHoles == segment_state.numHoles - local_ref_cookie.numHoles
Depth == Len(saved_cookies)

IsHole(i) == reference[i] = Null

\* Get (GetChecked, CheckEntry): the object, or nothing for a reference above
\* the top, to a hole, or of an earlier use of the entry.
Get(iref) ==
    IF \/ iref.index >= topIndex
       \/ IsHole(iref.index)
       \/ serial[iref.index] # iref.serial
    THEN Null ELSE reference[iref.index]

NextSerial(s) == IF s + 1 = kIRTPrevCount THEN 0 ELSE s + 1

----------------------------------------------------------------------------
(* Add *)

\* Where the downward scan of Add stops, which begins below the top entry: the
\* first hole it meets.
ScanStopsAt(i, top) ==
    /\ i <= top - 2 /\ IsHole(i)
    /\ \A j \in (i + 1)..(top - 2) : ~IsHole(j)

\* Add to the table in the given state, which is what PopFrame has restored
\* when PopLocalFrame adds its result.  A full table is fatal.
Add(obj, state, cookie, others, depth) ==
    LET hole == state.numHoles - cookie.numHoles > 0 IN
    /\ state.topIndex # max_entries
    /\ \E i \in Index :
          /\ IF hole THEN ScanStopsAt(i, state.topIndex) ELSE i = state.topIndex
          /\ serial' = [serial EXCEPT ![i] = NextSerial(@)]
          /\ reference' = [reference EXCEPT ![i] = obj]
          /\ live' = others \cup
                {[iref |-> [index |-> i, serial |-> NextSerial(serial[i])],
                  obj |-> obj, depth |-> depth]}
    /\ segment_state' =
          IF hole THEN [state EXCEPT !.numHoles = @ - 1]
                  ELSE [state EXCEPT !.topIndex = @ + 1]

\* NewLocalRef, AddGlobalRef, AddWeakGlobalRef.
NewRef(obj) ==
    /\ Add(obj, segment_state, local_ref_cookie, live, Depth)
    /\ UNCHANGED <<kind, local_ref_cookie, saved_cookies>>

----------------------------------------------------------------------------
(* Remove *)

\* Remove's early returns: the reference is of another segment, above the
\* top, deleted already (which is not asked of the top entry), or of an earlier
\* use of the entry.  Nothing changes.
Removable(iref) ==
    /\ iref.index >= bottomIndex
    /\ iref.index < topIndex
    /\ iref.index # topIndex - 1 => ~IsHole(iref.index)
    /\ serial[iref.index] = iref.serial

\* Where the loop of Remove, which begins below the removed top entry, stops:
\* it gives up holes of the segment until it meets an entry in use.
HolesConsumedTo(n) ==
    /\ n \in bottomIndex..(topIndex - 1) /\ topIndex - 1 - n <= segmentHoles
    /\ \A i \in n..(topIndex - 2) : IsHole(i)
    /\ n # bottomIndex /\ topIndex - 1 - n # segmentHoles => ~IsHole(n - 1)

\* Remove: DeleteLocalRef, DeleteGlobalRef, DeleteWeakGlobalRef.
Remove(iref) ==
    /\ Removable(iref)
    /\ reference' = [reference EXCEPT ![iref.index] = Null]
    /\ IF iref.index = topIndex - 1
       THEN \E n \in 0..max_entries :
               /\ HolesConsumedTo(n)
               /\ segment_state' =
                     [topIndex |-> n,
                      numHoles |-> segment_state.numHoles - (topIndex - 1 - n)]
       ELSE segment_state' = [segment_state EXCEPT !.numHoles = @ + 1]
    /\ live' = {r \in live : r.iref # iref}
    /\ UNCHANGED <<kind, serial, local_ref_cookie, saved_cookies>>

----------------------------------------------------------------------------
(* Frames *)

\* PushFrame, and JniMethodStart, which keeps the cookie in the caller's
\* frame.
PushFrame ==
    /\ kind = "local" /\ Depth < MaxFrames
    /\ saved_cookies' = <<local_ref_cookie>> \o saved_cookies
    /\ local_ref_cookie' = segment_state
    /\ UNCHANGED <<kind, serial, reference, segment_state, live>>

\* The references of the frames below.
Survivors == {r \in live : r.depth < Depth}

\* PopFrame, and PopLocalReferences of JniMethodEnd: entries above the new
\* top keep their references.
RestoreCookies ==
    /\ saved_cookies # <<>>
    /\ local_ref_cookie' = Head(saved_cookies)
    /\ saved_cookies' = Tail(saved_cookies)
    /\ UNCHANGED kind

\* Mistaken variant: the number of holes is not restored.
PopFrame_KeepsHoles ==
    /\ RestoreCookies
    /\ segment_state' = [segment_state EXCEPT !.topIndex = bottomIndex]
    /\ live' = Survivors
    /\ UNCHANGED <<serial, reference>>

PopFrame ==
    /\ RestoreCookies
    /\ segment_state' = local_ref_cookie
    /\ live' = Survivors
    /\ UNCHANGED <<serial, reference>>

\* PopLocalFrame with a result: it is decoded first and gets a reference in
\* the frame below.
PopLocalFrame(r) ==
    /\ RestoreCookies
    /\ Get(r.iref) # Null
    /\ Add(Get(r.iref), local_ref_cookie, Head(saved_cookies), Survivors,
           Depth - 1)

----------------------------------------------------------------------------
\* SweepJniWeakGlobals: the entries of unmarked objects get the object that
\* stands for a cleared weak global, and stay in use.
SweepJniWeakGlobals(unmarked) ==
    /\ kind = "weak_global"
    /\ LET Swept(o) == IF o \in unmarked THEN ClearedJniWeakGlobal ELSE o
       IN  /\ reference' = [i \in Index |->
                              IF i < topIndex THEN Swept(reference[i])
                                              ELSE reference[i]]
           /\ live' = {[r EXCEPT !.obj = Swept(@)] : r \in live}
    /\ UNCHANGED <<kind, serial, segment_state, local_ref_cookie, saved_cookies>>

TableNext ==
    \/ \E obj \in Object \ {ClearedJniWeakGlobal} : NewRef(obj)
    \/ \E iref \in IndirectRef : Remove(iref)
    \/ PushFrame
    \/ PopFrame
    \/ \E r \in live : PopLocalFrame(r)
    \/ \E unmarked \in SUBSET (Object \ {ClearedJniWeakGlobal}) :
          SweepJniWeakGlobals(unmarked)

TableSpec == TableInit /\ [][TableNext]_tableVars

----------------------------------------------------------------------------
\* A reference that has neither been deleted nor lost with its frame yields
\* the object it was made for, whatever was added, removed, pushed and popped
\* since; and Add, told by the counts that there is a hole, finds one in its
\* own segment (indirect_reference_table.cc, DCHECK_GE(pScan, table_ +
\* prevState.parts.topIndex)).
RefsResolve ==
    /\ \A r \in live : Get(r.iref) = r.obj
    /\ segmentHoles > 0 => \E i \in bottomIndex..(topIndex - 2) : IsHole(i)
=============================================================================
