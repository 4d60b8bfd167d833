---------------------------- MODULE StoreLifetime ----------------------------
(***************************************************************************)
(* How the ranks of a same-device thread group come to share one store,    *)
(* and how the store goes.  Ranks meet through names: a shared-memory file *)
(* of IsSameProcessChecker tells them whether they live in one process;    *)
(* then each opens or creates the store under the group's name - a segment *)
(* that counts its users and whose last user removes the file (kFile), or  *)
(* an object a per-process manager remembers by a weak pointer (kMemory,   *)
(* and the same-process half of kFile).  A kFile Reset() is a move to a    *)
(* segment with another name.                                              *)
(*                                                                         *)
(* Removing a name does not touch those who have the segment open: whoever *)
(* opens the name afterwards gets another segment, alone.  That, and a     *)
(* weak pointer that expires between two looks at it, is what this module  *)
(* is about.  The contents of the shared object are TensorStore's: one     *)
(* copy of them is enough as long as OneStore holds.                       *)
(***************************************************************************)
EXTENDS TensorStore

CONSTANTS MaxReset,  \* bound: Resets of the store
          None       \* no object: an empty pointer, a name nobody has created

ASSUME LifetimeAssumption == MaxReset \in Nat /\ Rank = 0..(WorldSize - 1)

\* A file by its Reset's number, mResetBaseFileName + "_Count_<n>"; 0 is the
\* constructor's, and the checker's file has a number of its own.
StoreName == 0..MaxReset
Checker   == MaxReset + 1

\* A segment or an object, told apart from the others of the same name.
Object(name) == {[name |-> name, nth |-> n] : n \in Rank}

ASSUME NoneAssumption == \A name \in StoreName \cup {Checker} : None \notin Object(name)

VARIABLES
    pid,          \* the process each rank lives in; it never changes
    life,         \* where the rank is in the life of its store
    file,         \* the segment a file name leads to
    checker,      \* IsSameProcessChecker::mMemory: the segment the rank opened
    entries,      \* what was constructed in the checker's segments
    storeType,    \* TensorStoreConfig::tensorStoreType the rank decided on
    mResetCount,  \* FileTensorStore::mResetCount
    mImplPtr,     \* the segment of FileTensorStore::mImplPtr
    spare,        \* of Impls: the one being made, or the one being destroyed
    refCount,     \* Impl::refCount, per segment
    mImplMap,     \* per process: what a store's name leads to, weakly
    holds         \* the in-process objects a rank has strong pointers to

lifeVars == <<pid, life, file, checker, entries, storeType, mResetCount,
              mImplPtr, spare, refCount, mImplMap, holds>>

LifeInit ==
    /\ life = [r \in Rank |-> "start"]
    /\ file = [n \in StoreName \cup {Checker} |-> None]
    /\ checker = [r \in Rank |-> None]
    /\ entries = {}
    /\ storeType = [r \in Rank |-> None]
    /\ mResetCount = [r \in Rank |-> 0]
    /\ mImplPtr = [r \in Rank |-> None]
    /\ spare = [r \in Rank |-> None]
    /\ refCount = [o \in UNION {Object(n) : n \in StoreName} |-> 0]
    /\ mImplMap = [r \in Rank |-> [n \in StoreName |-> None]]
    /\ holds = [r \in Rank |-> {}]

-----------------------------------------------------------------------------
Live(r, state) == ~aborted /\ life[r] = state
Become(r, state) == life' = [life EXCEPT ![r] = state]

\* open_or_create, which the operating system makes atomic: a new segment is
\* one nobody has open.
OpenSegments == {checker[u] : u \in Rank} \cup {mImplPtr[u] : u \in Rank} \cup {spare[u] : u \in Rank}
OpenOrCreate(name) ==
    IF file[name] = None THEN CHOOSE o \in Object(name) : o \notin OpenSegments ELSE file[name]

(* IsSameProcessChecker *)

\* Opens the file and writes this rank's process id into it.
OpenChecker(r) ==
    /\ Live(r, "start")
    /\ LET segment == OpenOrCreate(Checker)
       IN  /\ checker' = [checker EXCEPT ![r] = segment]
           /\ file' = [file EXCEPT ![Checker] = segment]
           /\ entries' = entries \cup {<<segment, "pid", r>>}
    /\ Become(r, "compare")
    /\ UNCHANGED <<storeVars, pid, storeType, mResetCount, mImplPtr, spare, refCount,
                   mImplMap, holds>>

HasPid(r, i) == <<checker[r], "pid", i>> \in entries

\* Mutant of Differs: a rank compares itself with the ranks before it only.
DiffersFromEarlier(r, i) == i < r /\ HasPid(r, i) /\ pid[i] # pid[r]

\* Rank i's entry is there and holds another process id.
Differs(r, i) == HasPid(r, i) /\ pid[i] # pid[r]

\* The loop waits for one rank after the other and stops at the first that
\* lives elsewhere; entries are never taken back, so it reads as one look.
Decide(r, type) ==
    /\ Live(r, "compare")
    /\ IF type = "kFile"
       THEN \E i \in Rank : Differs(r, i) /\ \A j \in Rank : j < i => HasPid(r, j)
       ELSE \A i \in Rank : HasPid(r, i) /\ ~Differs(r, i)
    /\ storeType' = [storeType EXCEPT ![r] = type]
    /\ Become(r, IF type = "kFile" THEN "open" ELSE "clean")
    /\ UNCHANGED <<storeVars, pid, file, checker, entries, mResetCount, mImplPtr, spare,
                   refCount, mImplMap, holds>>

\* The destructor, at the end of InitTensorStore.
LeaveChecker(r) ==
    /\ Live(r, "leave")
    /\ pc[r] = "idle"
    /\ entries' = entries \cup {<<checker[r], "barrier", r>>}
    /\ Become(r, "left")
    /\ UNCHANGED <<storeVars, pid, file, checker, storeType, mResetCount, mImplPtr, spare,
                   refCount, mImplMap, holds>>

RemoveChecker(r) ==
    /\ Live(r, "left")
    /\ \A i \in Rank : <<checker[r], "barrier", i>> \in entries
    /\ file' = [file EXCEPT ![Checker] = None]
    /\ checker' = [checker EXCEPT ![r] = None]
    /\ Become(r, "enter")
    /\ UNCHANGED <<storeVars, pid, entries, storeType, mResetCount, mImplPtr, spare,
                   refCount, mImplMap, holds>>

-----------------------------------------------------------------------------
(* The constructors *)

\* FileTensorStore::Impl opens its segment by the file's name: the
\* constructor's ...
OpenNamed(r, n) ==
    /\ spare' = [spare EXCEPT ![r] = OpenOrCreate(n)]
    /\ file' = [file EXCEPT ![n] = OpenOrCreate(n)]
    /\ mResetCount' = [mResetCount EXCEPT ![r] = n]
    /\ Become(r, "clean")
    /\ UNCHANGED <<storeVars, pid, checker, entries, storeType, mImplPtr, refCount,
                   mImplMap, holds>>

OpenSegment(r) == Live(r, "open") /\ OpenNamed(r, 0)

\* ... and, between Reset's two barriers, that of the next number.
NextFile(r) ==
    /\ Live(r, "running")
    /\ pc[r] = "clear"
    /\ storeType[r] = "kFile"
    /\ mResetCount[r] < MaxReset
    /\ OpenNamed(r, mResetCount[r] + 1)

SameProcess(r) == {u \in Rank : pid[u] = pid[r]}
Expired(r, o) == \A u \in SameProcess(r) : o \notin holds[u]

\* GetImpl of the in-process managers, first half: CleanExpiredEntries.  The
\* manager's mutex is held until the second half has run, which does not keep
\* others from letting go of an object in between.
CleanExpiredEntries(r) ==
    /\ Live(r, "clean")
    /\ \A u \in SameProcess(r) : life[u] # "lookup"
    /\ mImplMap' = [mImplMap EXCEPT ![pid[r]] =
            [n \in StoreName |-> IF @[n] # None /\ Expired(r, @[n]) THEN None ELSE @[n]]]
    /\ Become(r, "lookup")
    /\ UNCHANGED <<storeVars, pid, file, checker, entries, storeType, mResetCount, mImplPtr,
                   spare, refCount, holds>>

\* Second half: an entry that is still there is asserted to be alive.  A file
\* store's Impl then counts itself among the users of its segment and becomes
\* mImplPtr; in Reset the Impl that was there is destroyed next.
GetImpl(r) ==
    LET name  == mResetCount[r]
        found == mImplMap[pid[r]][name]
        impl  == IF found # None THEN found
                 ELSE CHOOSE o \in Object(name) : Expired(r, o)
    IN  /\ Live(r, "lookup")
        /\ \/ /\ found # None /\ Expired(r, found)
              /\ Abort
              /\ UNCHANGED lifeVars
           \/ /\ found = None \/ ~Expired(r, found)
              /\ mImplMap' = [mImplMap EXCEPT ![pid[r]][name] = impl]
              /\ holds' = [holds EXCEPT ![r] = @ \cup {impl}]
              /\ mImplPtr' = [mImplPtr EXCEPT ![r] = spare[r]]
              /\ spare' = [spare EXCEPT ![r] = mImplPtr[r]]
              /\ refCount' = [o \in DOMAIN refCount |->
                                IF o = spare[r] THEN refCount[o] + 1 ELSE refCount[o]]
              /\ Become(r, IF mImplPtr[r] = None THEN "built" ELSE "drop")
              /\ UNCHANGED <<storeVars, pid, file, checker, entries, storeType, mResetCount>>

\* MemoryTensorStore's constructor, and FileTensorStore's: both go on to Barrier().
ConstructStore(r) == Live(r, "built") /\ Construct(r) /\ Become(r, "init")
                     /\ UNCHANGED <<pid, file, checker, entries, storeType, mResetCount,
                                    mImplPtr, spare, refCount, mImplMap, holds>>

\* InitTensorStore calls barrier() once more, then the checker goes; and
\* GetThreadGroup calls Barrier() before it publishes the new group.
LifeBarrier(r) ==
    /\ ~aborted
    /\ \/ life[r] = "init" /\ Become(r, "leave")
       \/ life[r] = "enter" /\ Become(r, "running")
    /\ Barrier(r)
    /\ UNCHANGED <<pid, file, checker, entries, storeType, mResetCount,
                   mImplPtr, spare, refCount, mImplMap, holds>>

-----------------------------------------------------------------------------
(* Reset of a file store, between its two barriers, and destruction *)

\* The maps of the store the rank uses from now on are empty.
ResetContents(r) ==
    /\ \/ Live(r, "switched")
       \/ Live(r, "running") /\ storeType[r] = "kMemory"
    /\ ResetClear(r)
    /\ Become(r, "running")
    /\ UNCHANGED <<pid, file, checker, entries, storeType, mResetCount, mImplPtr, spare,
                   refCount, mImplMap, holds>>

\* ~ThreadGroup lets go of the store.
DestroyStore(r) ==
    /\ Live(r, "running")
    /\ pc[r] = "idle"
    /\ mImplPtr' = [mImplPtr EXCEPT ![r] = None]
    /\ spare' = [spare EXCEPT ![r] = mImplPtr[r]]
    /\ Become(r, IF storeType[r] = "kFile" THEN "drop" ELSE "release")
    /\ UNCHANGED <<storeVars, pid, file, checker, entries, storeType, mResetCount,
                   refCount, mImplMap, holds>>

\* ~Impl: under the mutex the user is discounted ...
DropUser(r) ==
    /\ Live(r, "drop")
    /\ refCount' = [refCount EXCEPT ![spare[r]] = @ - 1]
    /\ Become(r, IF refCount[spare[r]] = 1 THEN "remove" ELSE "release")
    /\ UNCHANGED <<storeVars, pid, file, checker, entries, storeType, mResetCount, mImplPtr,
                   spare, mImplMap, holds>>

\* ... and without it the last one removes the file of that name, whatever
\* the name leads to by now.  Then the members go: the rank keeps what belongs
\* to its current Impl.
FinishImpl(r) ==
    /\ \/ Live(r, "remove") /\ file' = [file EXCEPT ![spare[r].name] = None]
       \/ Live(r, "release") /\ UNCHANGED file
    /\ holds' = [holds EXCEPT ![r] =
            IF mImplPtr[r] = None THEN {} ELSE {o \in @ : o.name = mResetCount[r]}]
    /\ spare' = [spare EXCEPT ![r] = None]
    /\ Become(r, IF mImplPtr[r] = None THEN "gone" ELSE "switched")
    /\ UNCHANGED <<storeVars, pid, checker, entries, storeType, mResetCount, mImplPtr,
                   refCount, mImplMap>>

LifeStep(r) ==
    \/ OpenChecker(r)\/ (\E type \in {"kMemory", "kFile"} : Decide(r, type))
    \/ LeaveChecker(r) \/ RemoveChecker(r)
    \/ OpenSegment(r) \/ CleanExpiredEntries(r) \/ GetImpl(r)
    \/ ConstructStore(r) \/ LifeBarrier(r) \/ NextFile(r) \/ ResetContents(r)
    \/ DropUser(r) \/ FinishImpl(r)

-----------------------------------------------------------------------------
\* Ranks that have a complete store, by the number of Resets they have made.
Built(r) == life[r] \in {"built", "init", "leave", "left", "enter", "running", "switched"}

\* Ranks at the same Reset have the same store: of one kind, one segment, and
\* inside a process one object - although each opened it by name at a time of
\* its own, while others were removing names (file_tensor_store.cc:143) or
\* letting go of what the manager remembers (memory_tensor_store.cc:73).
OneStore ==
    \A r, u \in Rank :
        Built(r) /\ Built(u) /\ mResetCount[r] = mResetCount[u]
            => /\ storeType[r] = storeType[u]
               /\ mImplPtr[r] = mImplPtr[u]
               /\ pid[r] = pid[u] =>
                    {o \in holds[r] : o.name = mResetCount[r]} = {o \in holds[u] : o.name = mResetCount[u]}

\* Nothing is left behind in shared memory.
NoFileLeft == \A n \in DOMAIN file : file[n] = None

=============================================================================
