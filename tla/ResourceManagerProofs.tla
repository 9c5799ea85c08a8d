----------------------- MODULE ResourceManagerProofs -----------------------
(***************************************************************************)
(* Proofs about one entry of the resource manager's cache: ResourceCache   *)
(* and ResourceFutures, for any numbers of users, sources, tasks and       *)
(* changes.                                                                *)
(*                                                                         *)
(* The cache: an entry and its task belong together, so all who hold the   *)
(* resource hold the same object, and no future sleeps with its waker in   *)
(* an entry that has an answer.                                            *)
(*                                                                         *)
(* Futures with fallbacks and defaults keep all of that.  A default that   *)
(* was handed out is watched: the load whose error it stands in for has    *)
(* registered its watches on every source before the error is taken.       *)
(***************************************************************************)
EXTENDS ResourceFutures, FiniteSetTheorems, WellFoundedInduction, TLAPS

-----------------------------------------------------------------------------
(* The cache.                                                               *)

\* Whoever holds an object, a user or an update, holds the one of the entry.
EntryKnows ==
  /\ \A o \in Objects : Held(o) => entry.obj = o
  /\ entry.obj # None => entry.kind \in {"loaded", "value", "updating"}

\* An update that has begun to write has an object to write to.
WritersHold ==
  \A t \in Tasks : task[t].phase \in {"watch", "write", "finish"} => task[t].obj # None

IInv == TypeOK /\ EntryHasItsTask /\ EntryKnows /\ WritersHold

-----------------------------------------------------------------------------
(* The values that are chosen. *)

\* There is a first source if there is any.
LEMMA WinnerIsSource ==
  ASSUME NEW s \in Sources, Has(s)
  PROVE  Winner \in Sources /\ Has(Winner)
<1> DEFINE T == {r \in Sources : Has(r)}
<1> DEFINE R == OpToRel(<, Nat)
<1>1. T \subseteq Nat /\ T # {}
  BY CacheAssumption DEF Sources
<1>2. \E n \in T : \A m \in T : ~ (<<m, n>> \in R)
  <2> HIDE DEF T, R
  <2>1. IsWellFoundedOn(R, Nat)
    BY NatLessThanWellFounded DEF R
  <2>2. QED  BY <1>1, <2>1, WFMin
<1>3. PICK n \in T : \A m \in T : ~ (<<m, n>> \in R)
  BY <1>2
<1>4. \A m \in T : n <= m
  <2>1. \A m, q \in Nat : m < q => <<m, q>> \in R
    BY DEF OpToRel
  <2>2. QED
    <3> HIDE DEF T, R
    <3> SUFFICES ASSUME NEW m \in T PROVE n <= m
      OBVIOUS
    <3>1. m \in Nat /\ n \in Nat
      BY <1>1, <1>3
    <3>2. ~ (m < n)
      BY <1>3, <2>1, <3>1
    <3>3. QED  BY <3>1, <3>2
<1>5. QED  BY <1>3, <1>4 DEF Winner

\* A new object is not in use.
LEMMA NewObjectIsNew ==
  ASSUME TypeOK, EntryKnows
  PROVE  NewObject \in Objects /\ ~Alive(NewObject)
<1>1. PICK o, p \in Objects : o # p
  BY CacheAssumption
<1>2. \E q \in Objects : ~Alive(q)
  BY <1>1 DEF Alive, EntryKnows
<1>3. QED  BY <1>2 DEF NewObject

LEMMA NewTaskIsFree ==
  ASSUME NEW x \in Tasks, IsFree(x)
  PROVE  NewTask \in Tasks /\ IsFree(NewTask)
BY DEF NewTask
\* The record of a task, as TypeOK has it.
TaskRecord ==
  [phase : TaskPhases, at : Sources, src : Sources, data : Contents \cup {None},
   obj : Objects \cup {None}, awaits : Tasks \cup {None}, cancelled : BOOLEAN]

LEMMA FreeIsRecord == Free \in TaskRecord
BY CacheAssumption DEF Free, TaskRecord, TaskPhases, Sources

\* When a task is gone, the others are what they were, but for whom they
\* wait for.
LEMMA WithoutFacts ==
  ASSUME TypeOK, NEW t \in Tasks
  PROVE  /\ Without(t) \in [Tasks -> TaskRecord]
         /\ Without(t)[t] = Free
         /\ \A x \in Tasks \ {t} : /\ Without(t)[x].phase = task[x].phase
                                   /\ Without(t)[x].at = task[x].at
                                   /\ Without(t)[x].data = task[x].data
                                   /\ Without(t)[x].obj = task[x].obj
                                   /\ Without(t)[x].cancelled = task[x].cancelled
<1>1. \A x \in Tasks : task[x] \in TaskRecord
  BY DEF TypeOK, TaskRecord
<1>2. \A x \in Tasks : [task[x] EXCEPT !.awaits = None] \in TaskRecord
  BY <1>1 DEF TaskRecord
<1>3. QED  BY <1>1, <1>2, FreeIsRecord DEF Without, TaskRecord

LEMMA WokenType ==
  ASSUME TypeOK, NEW W
  PROVE  Woken(W) \in [Users -> {"idle", "woken", "waiting", "holds"}]
BY DEF TypeOK, Woken

\* What is true of a step that changes only one task.
LEMMA SetFacts ==
  ASSUME TypeOK, NEW t \in Tasks, NEW r \in TaskRecord, Set(t, r)
  PROVE  /\ task' \in [Tasks -> TaskRecord]
         /\ task'[t] = r
         /\ \A x \in Tasks \ {t} : task'[x] = task[x]
BY DEF TypeOK, Set, TaskRecord

-----------------------------------------------------------------------------
(* The invariant, without the types, is about the entry, the objects that  *)
(* are held, and three fields of the tasks.                                *)

Links == EntryHasItsTask /\ EntryKnows /\ WritersHold

\* A task that goes on keeps being a load or an update, and an object it
\* begins to hold is the one of the entry.
LEMMA StepOfTask ==
  ASSUME IInv, NEW t \in Tasks, task' \in [Tasks -> TaskRecord],
         UNCHANGED <<entry, held>>,
         \A x \in Tasks \ {t} : task'[x].phase = task[x].phase /\ task'[x].obj = task[x].obj
                               /\ task'[x].cancelled = task[x].cancelled,
         \/ /\ task'[t].cancelled = task[t].cancelled
            /\ IsFree(t)' <=> IsFree(t)
            /\ IsLoad(t)' <=> IsLoad(t)
            /\ task'[t].obj \in {task[t].obj, entry.obj}
            /\ task'[t].phase \in {"watch", "write", "finish"} => task'[t].obj # None
         \/ task[t].cancelled /\ task'[t] = Free
  PROVE  Links'
<1> USE DEF IInv
<1>1. \A x \in Tasks \ {t} : (IsFree(x)' <=> IsFree(x)) /\ (IsLoad(x)' <=> IsLoad(x))
  BY DEF IsFree, IsLoad
<1>2. entry.task # None => entry.task \in Tasks
  BY DEF TypeOK
<1>3. EntryHasItsTask'
  <2>1. CASE task[t].cancelled /\ task'[t] = Free
    <3>1. IsFree(t)' /\ entry.task # t
      BY <2>1, <1>2, CacheAssumption DEF IsFree, Free, EntryHasItsTask
    <3>2. QED  BY <3>1, <1>1, <1>2 DEF EntryHasItsTask
  <2>2. CASE ~ (task[t].cancelled /\ task'[t] = Free)
    BY <2>2, <1>1, <1>2 DEF EntryHasItsTask
  <2>3. QED  BY <2>1, <2>2
<1>4. EntryKnows'
  <2>1. task'[t].obj \in {task[t].obj, entry.obj, None}
    BY DEF Free
  <2>2. \A o \in Objects : Held(o)' => Held(o) \/ entry.obj = o
    BY <2>1, CacheAssumption DEF Held
  <2>3. QED  BY <2>2 DEF EntryKnows
<1>5. WritersHold'
  BY DEF WritersHold, Free
<1>6. QED  BY <1>3, <1>4, <1>5 DEF Links

\* Nothing changes for the invariant when neither the entry nor a task nor a
\* handle does.
LEMMA NothingLinked ==
  ASSUME Links, UNCHANGED <<entry, task, held>>
  PROVE  Links'
BY DEF Links, EntryHasItsTask, EntryKnows, WritersHold, IsFree, IsLoad, Held

\* When the task of the entry is gone, and the entry does not await a task,
\* the two still belong together.
LEMMA TaskGone ==
  ASSUME IInv, NEW t \in Tasks, ~IsFree(t), ~task[t].cancelled, task' = Without(t),
         entry'.task = None, entry'.kind \notin {"loading", "updating"}
  PROVE  /\ EntryHasItsTask' /\ WritersHold'
         /\ \A x \in Tasks, o \in Objects : task'[x].obj = o => task[x].obj = o
<1> USE DEF IInv
<1>1. \A x \in Tasks \ {t} : task'[x].phase = task[x].phase /\ task'[x].obj = task[x].obj
                           /\ task'[x].cancelled = task[x].cancelled
  BY WithoutFacts
<1>2. task'[t].phase = "free" /\ task'[t].obj = None
  BY WithoutFacts DEF Free
<1>3. EntryHasItsTask'
  BY <1>1, <1>2 DEF EntryHasItsTask, IsFree
<1>4. WritersHold'
  BY <1>1, <1>2 DEF WritersHold
<1>5. QED  BY <1>1, <1>2, <1>3, <1>4, CacheAssumption

\* An entry that is not good for a resource means that nobody holds one.
LEMMA NobodyHolds ==
  ASSUME IInv, ~Alive(entry.obj)
  PROVE  \A o \in Objects : ~Held(o)
BY CacheAssumption DEF IInv, EntryKnows, Alive

LEMMA TaskIsRecord ==
  ASSUME TypeOK, NEW t \in Tasks
  PROVE  task[t] \in TaskRecord
BY DEF TypeOK, TaskRecord

\* A cancelled task that is gone is missed by nobody.
LEMMA CancelledGone ==
  ASSUME IInv, NEW t \in Tasks, task[t].cancelled, task' = Without(t), UNCHANGED <<entry, held>>
  PROVE  task' \in [Tasks -> TaskRecord] /\ Links'
<1>1. /\ task' \in [Tasks -> TaskRecord] /\ task'[t] = Free
      /\ \A x \in Tasks \ {t} : task'[x].phase = task[x].phase /\ task'[x].obj = task[x].obj
                              /\ task'[x].cancelled = task[x].cancelled
  BY WithoutFacts DEF IInv
<1>2. Links'
  BY <1>1, StepOfTask
<1>3. QED  BY <1>1, <1>2

\* The types of what a load leaves behind.
LEMMA CompleteFacts ==
  ASSUME IInv, NEW t \in Tasks, NEW phase \in {"done", "failed"}, IsLoad(t),
         Complete(t, phase), UNCHANGED <<entry, held>>
  PROVE  /\ task' \in [Tasks -> TaskRecord]
         /\ future' \in [Users -> {"idle", "woken", "waiting", "holds"}]
         /\ Links'
<1> USE DEF IInv
<1>1. CASE task[t].cancelled
  <2>1. task' = Without(t) /\ UNCHANGED future
    BY <1>1 DEF Complete
  <2>2. QED  BY <1>1, <2>1, CancelledGone DEF TypeOK
<1>2. CASE ~task[t].cancelled
  <2> DEFINE r == [task[t] EXCEPT !.phase = phase]
  <2>1. Set(t, r) /\ future' = Woken(entry.wakers)
    BY <1>2 DEF Complete
  <2>2. r \in TaskRecord
    BY TaskIsRecord DEF TaskRecord, TaskPhases
  <2>3. /\ r.phase = phase /\ r.obj = task[t].obj /\ r.cancelled = task[t].cancelled
    BY TaskIsRecord DEF TaskRecord
  <2> HIDE DEF r
  <2>4. /\ task' \in [Tasks -> TaskRecord] /\ task'[t] = r
        /\ \A x \in Tasks \ {t} : task'[x] = task[x]
    BY <2>1, <2>2, SetFacts
  <2>5. (IsFree(t)' <=> IsFree(t)) /\ (IsLoad(t)' <=> IsLoad(t))
    BY <2>3, <2>4 DEF IsFree, IsLoad
  <2>6. Links'
    BY <2>3, <2>4, <2>5, StepOfTask
  <2>7. QED  BY <2>1, <2>4, <2>6, WokenType
<1>3. QED  BY <1>1, <1>2

\* A task that goes on to another phase of a load, or of an update.
LEMMA GoesOn ==
  ASSUME IInv, NEW t \in Tasks, NEW r \in TaskRecord, Set(t, r), UNCHANGED <<entry, held>>,
         r.cancelled = task[t].cancelled,
         r.obj \in {task[t].obj, entry.obj},
         \/ /\ task[t].phase \in {"loadFind", "loadMeta", "loadWatch", "loadParse"}
            /\ r.phase \in {"loadFind", "loadMeta", "loadWatch", "loadParse", "done", "failed"}
         \/ /\ task[t].phase \in {"await", "find", "meta", "fail", "commit", "watch", "write", "finish"}
            /\ r.phase \in {"await", "find", "meta", "fail", "commit", "watch", "write", "finish"},
         r.phase \in {"watch", "write", "finish"} => r.obj # None
  PROVE  task' \in [Tasks -> TaskRecord] /\ Links'
<1>1. /\ task' \in [Tasks -> TaskRecord] /\ task'[t] = r
      /\ \A x \in Tasks \ {t} : task'[x] = task[x]
  BY SetFacts DEF IInv
<1>2. (IsFree(t)' <=> IsFree(t)) /\ (IsLoad(t)' <=> IsLoad(t))
  BY <1>1 DEF IsFree, IsLoad
<1>3. Links'
  BY <1>1, <1>2, StepOfTask
<1>4. QED  BY <1>1, <1>3

-----------------------------------------------------------------------------
(* The steps of a task. *)

LEMMA TaskStepKeeps ==
  ASSUME IInv, NEW t \in Tasks, TaskStep(t)
  PROVE  TypeOK' /\ Links'
<1> USE DEF IInv
<1>0. task[t] \in TaskRecord /\ TypeOK
  BY TaskIsRecord
<1> USE DEF TaskPhases
<1>1. CASE FindData(t)
  <2> DEFINE load == task[t].phase = "loadFind"
             found == [task[t] EXCEPT !.data = content[task[t].at],
                                      !.phase = IF load THEN "loadMeta" ELSE "meta"]
             next == [task[t] EXCEPT !.at = task[t].at + 1]
             gaveUp == [task[t] EXCEPT !.phase = "fail"]
  <2>1. UNCHANGED <<sourceVars, watched, channel, meta, entry, value, held>>
    BY <1>1 DEF FindData
  <2>2. task' \in [Tasks -> TaskRecord] /\ Links'
        /\ future' \in [Users -> {"idle", "woken", "waiting", "holds"}]
    <3>1. CASE Has(task[t].at)
      <4>1. Set(t, found) /\ UNCHANGED future
        BY <1>1, <3>1 DEF FindData
      <4>2. found \in TaskRecord
        BY ZenonT(40), <1>0 DEF TaskRecord, TypeOK
      <4>3. /\ found.cancelled = task[t].cancelled /\ found.obj = task[t].obj
            /\ found.phase = IF load THEN "loadMeta" ELSE "meta"
            /\ load \/ task[t].phase = "find"
        BY <1>0, <1>1 DEF TaskRecord, FindData
      <4> HIDE DEF found
      <4>4. QED  BY <4>1, <4>2, <4>3, <2>1, GoesOn DEF TypeOK
    <3>2. CASE ~Has(task[t].at) /\ task[t].at < NumSources
      <4>1. Set(t, next) /\ UNCHANGED future
        BY <1>1, <3>2 DEF FindData
      <4>2. next \in TaskRecord
        <5>1. task[t].at \in Sources
          BY <1>0 DEF TaskRecord
        <5>2. task[t].at + 1 \in Sources
          BY <3>2, <5>1, CacheAssumption DEF Sources
        <5>3. QED  BY <1>0, <5>2 DEF TaskRecord
      <4>3. /\ next.cancelled = task[t].cancelled /\ next.obj = task[t].obj
            /\ next.phase = IF load THEN "loadFind" ELSE "find"
            /\ load \/ task[t].phase = "find"
        BY <1>0, <1>1 DEF TaskRecord, FindData
      <4> HIDE DEF next
      <4>4. QED  BY <4>1, <4>2, <4>3, <2>1, GoesOn DEF TypeOK
    <3>3. CASE ~Has(task[t].at) /\ ~ (task[t].at < NumSources) /\ load
      <4>1. Complete(t, "failed") /\ IsLoad(t)
        BY <1>1, <3>3 DEF FindData, IsLoad
      <4>2. QED  BY <4>1, <2>1, CompleteFacts
    <3>4. CASE ~Has(task[t].at) /\ ~ (task[t].at < NumSources) /\ ~load
      <4>1. Set(t, gaveUp) /\ UNCHANGED future /\ task[t].phase = "find"
        BY <1>1, <3>4 DEF FindData
      <4>2. gaveUp \in TaskRecord
        BY <1>0 DEF TaskRecord, TypeOK
      <4>3. /\ gaveUp.cancelled = task[t].cancelled /\ gaveUp.obj = task[t].obj
            /\ gaveUp.phase = "fail"
        BY <1>0 DEF TaskRecord
      <4> HIDE DEF gaveUp
      <4>4. QED  BY <4>1, <4>2, <4>3, <2>1, GoesOn DEF TypeOK
    <3>5. QED  BY <3>1, <3>2, <3>3, <3>4
  <2>3. QED  BY <2>1, <2>2 DEF TypeOK, TaskRecord, sourceVars
<1>2. CASE UpdateMetadata(t)
  <2> DEFINE r == [task[t] EXCEPT !.phase = IF @ = "loadMeta" THEN "loadWatch" ELSE "commit"]
  <2>1. /\ Set(t, r) /\ task[t].phase \in {"loadMeta", "meta"}
        /\ UNCHANGED <<sourceVars, watched, channel, entry, value, future, held>>
    BY <1>2 DEF UpdateMetadata
  <2>2. r \in TaskRecord
    BY <1>0 DEF TaskRecord
  <2>3. /\ r.cancelled = task[t].cancelled /\ r.obj = task[t].obj
        /\ r.phase = IF task[t].phase = "loadMeta" THEN "loadWatch" ELSE "commit"
    BY <1>0 DEF TaskRecord
  <2>4. task' \in [Tasks -> TaskRecord] /\ Links'
    <3> HIDE DEF r
    <3>1. QED  BY <2>1, <2>2, <2>3, GoesOn
  <2>5. meta' \in [hash : Contents \cup {None}, idx : 1..(NumSources + 1)]
    BY <1>0, <1>2, CacheAssumption DEF UpdateMetadata, TypeOK, TaskRecord, Sources
  <2>6. QED  BY <2>1, <2>4, <2>5 DEF TypeOK, TaskRecord, sourceVars
<1>3. CASE WatchLoaded(t)
  <2> DEFINE r == [task[t] EXCEPT !.phase = "loadParse"]
  <2>1. /\ Set(t, r) /\ task[t].phase = "loadWatch" /\ watched' = 1..task[t].at
        /\ UNCHANGED <<sourceVars, channel, meta, entry, value, future, held>>
    BY <1>3 DEF WatchLoaded
  <2>2. /\ r \in TaskRecord /\ r.phase = "loadParse"
        /\ r.cancelled = task[t].cancelled /\ r.obj = task[t].obj
    BY <1>0 DEF TaskRecord
  <2>3. task' \in [Tasks -> TaskRecord] /\ Links'
    <3> HIDE DEF r
    <3>1. QED  BY <2>1, <2>2, GoesOn
  <2>4. watched' \subseteq Sources
    BY <1>0, <2>1, CacheAssumption DEF TaskRecord, Sources
  <2>5. QED  BY <2>1, <2>3, <2>4 DEF TypeOK, TaskRecord, sourceVars
<1>4. CASE Parse(t)
  <2>1. /\ Complete(t, "done") /\ IsLoad(t)
        /\ UNCHANGED <<sourceVars, watched, channel, meta, entry, value, held>>
    BY <1>4 DEF Parse, IsLoad
  <2>2. QED  BY <2>1, CompleteFacts DEF TypeOK, TaskRecord, sourceVars
<1>5. CASE AwaitPrevious(t)
  <2> DEFINE r == [task[t] EXCEPT !.phase = "find"]
  <2>1. /\ Set(t, r) /\ task[t].phase = "await"
        /\ UNCHANGED <<sourceVars, watched, channel, meta, entry, value, future, held>>
    BY <1>5 DEF AwaitPrevious
  <2>2. /\ r \in TaskRecord /\ r.phase = "find"
        /\ r.cancelled = task[t].cancelled /\ r.obj = task[t].obj
    BY <1>0 DEF TaskRecord
  <2>3. task' \in [Tasks -> TaskRecord] /\ Links'
    <3> HIDE DEF r
    <3>1. QED  BY <2>1, <2>2, GoesOn
  <2>4. QED  BY <2>1, <2>3 DEF TypeOK, TaskRecord, sourceVars
<1>6. CASE Fail(t)
  <2> DEFINE e == Entered("value", entry.obj)
  <2>1. /\ task[t].phase = "fail" /\ ~task[t].cancelled /\ entry' = e /\ task' = Without(t)
        /\ future' = Woken(entry.wakers)
        /\ UNCHANGED <<sourceVars, watched, channel, meta, value, held>>
    BY <1>6 DEF Fail, End
  <2>2. e.kind = "value" /\ e.task = None /\ e.obj = entry.obj
    BY DEF Entered
  <2>3. /\ EntryHasItsTask' /\ WritersHold'
        /\ \A x \in Tasks, o \in Objects : task'[x].obj = o => task[x].obj = o
    BY <2>1, <2>2, TaskGone DEF IsFree
  <2>4. EntryKnows'
    BY <2>1, <2>2, <2>3 DEF EntryKnows, Held
  <2>5. QED  BY <1>0, <2>1, <2>3, <2>4, WithoutFacts, WokenType
                DEF TypeOK, TaskRecord, sourceVars, Links, Entered
<1>7. CASE Commit(t)
  <2>0. /\ task[t].phase = "commit" /\ ~task[t].cancelled
        /\ UNCHANGED <<sourceVars, watched, channel, meta, held>>
    BY <1>7 DEF Commit
  <2>1. CASE Alive(entry.obj)
    <3> DEFINE r == [task[t] EXCEPT !.phase = "watch", !.obj = entry.obj]
    <3>1. Set(t, r) /\ UNCHANGED <<entry, value, future>>
      BY <1>7, <2>1 DEF Commit
    <3>2. /\ r \in TaskRecord /\ r.phase = "watch" /\ r.obj = entry.obj
          /\ r.cancelled = task[t].cancelled
      BY <1>0 DEF TaskRecord, TypeOK
    <3>3. entry.obj # None
      BY <2>1 DEF Alive
    <3>4. task' \in [Tasks -> TaskRecord] /\ Links'
      <4> HIDE DEF r
      <4>1. QED  BY <2>0, <3>1, <3>2, <3>3, GoesOn
    <3>5. QED  BY <2>0, <3>1, <3>4 DEF TypeOK, TaskRecord, sourceVars
  <2>2. CASE ~Alive(entry.obj) /\ entry.wakers # {}
    <3> DEFINE e == Entered("loaded", NewObject)
    <3>1. /\ entry' = e /\ task' = Without(t) /\ future' = Woken(entry.wakers)
          /\ value' = [value EXCEPT ![NewObject] = task[t].data]
      BY <1>7, <2>2 DEF Commit, HandleExpired, End
    <3>2. e.kind = "loaded" /\ e.task = None /\ e.obj = NewObject
      BY DEF Entered
    <3>3. /\ EntryHasItsTask' /\ WritersHold'
          /\ \A x \in Tasks, o \in Objects : task'[x].obj = o => task[x].obj = o
      BY <2>0, <3>1, <3>2, TaskGone DEF IsFree
    <3>4. EntryKnows'
      <4>1. \A o \in Objects : ~Held(o)
        BY <2>2, NobodyHolds
      <4>2. \A o \in Objects : ~Held(o)'
        BY <2>0, <3>3, <4>1 DEF Held
      <4>3. QED  BY <3>1, <3>2, <4>2 DEF EntryKnows
    <3>5. NewObject \in Objects
      BY NewObjectIsNew
    <3>6. QED  BY <1>0, <2>0, <3>1, <3>3, <3>4, <3>5, WithoutFacts, WokenType
                  DEF TypeOK, TaskRecord, sourceVars, Links, Entered
  <2>3. CASE ~Alive(entry.obj) /\ entry.wakers = {}
    <3>1. /\ entry' = NoEntry /\ task' = Without(t) /\ future' = Woken(entry.wakers)
          /\ UNCHANGED value
      BY <1>7, <2>3 DEF Commit, HandleExpired, End
    <3>2. /\ EntryHasItsTask' /\ WritersHold'
          /\ \A x \in Tasks, o \in Objects : task'[x].obj = o => task[x].obj = o
      BY <2>0, <3>1, TaskGone DEF IsFree, NoEntry
    <3>3. EntryKnows'
      <4>1. \A o \in Objects : ~Held(o)
        BY <2>3, NobodyHolds
      <4>2. \A o \in Objects : ~Held(o)'
        BY <2>0, <3>2, <4>1 DEF Held
      <4>3. QED  BY <3>1, <4>2 DEF EntryKnows, NoEntry
    <3>4. QED  BY <1>0, <2>0, <3>1, <3>2, <3>3, WithoutFacts, WokenType
                  DEF TypeOK, TaskRecord, sourceVars, Links, NoEntry
  <2>4. QED  BY <2>1, <2>2, <2>3
<1>8. CASE WatchUpdated(t)
  <2> DEFINE r == [task[t] EXCEPT !.phase = "write"]
  <2>1. /\ Set(t, r) /\ task[t].phase = "watch" /\ watched' = 1..task[t].src
        /\ UNCHANGED <<sourceVars, channel, meta, entry, value, future, held>>
    BY <1>8 DEF WatchUpdated
  <2>2. /\ r \in TaskRecord /\ r.phase = "write"
        /\ r.cancelled = task[t].cancelled /\ r.obj = task[t].obj
    BY <1>0 DEF TaskRecord
  <2>3. task[t].obj # None
    BY <2>1 DEF WritersHold
  <2>4. task' \in [Tasks -> TaskRecord] /\ Links'
    <3> HIDE DEF r
    <3>1. QED  BY <2>1, <2>2, <2>3, GoesOn
  <2>5. watched' \subseteq Sources
    BY <1>0, <2>1, CacheAssumption DEF TaskRecord, Sources
  <2>6. QED  BY <2>1, <2>4, <2>5 DEF TypeOK, TaskRecord, sourceVars
<1>9. CASE Write(t)
  <2> DEFINE r == [task[t] EXCEPT !.phase = "finish"]
  <2>1. /\ Set(t, r) /\ task[t].phase = "write"
        /\ value' = [value EXCEPT ![task[t].obj] = task[t].data]
        /\ UNCHANGED <<sourceVars, watched, channel, meta, entry, future, held>>
    BY <1>9 DEF Write
  <2>2. /\ r \in TaskRecord /\ r.phase = "finish"
        /\ r.cancelled = task[t].cancelled /\ r.obj = task[t].obj
    BY <1>0 DEF TaskRecord
  <2>3. task[t].obj # None
    BY <2>1 DEF WritersHold
  <2>4. task' \in [Tasks -> TaskRecord] /\ Links'
    <3> HIDE DEF r
    <3>1. QED  BY <2>1, <2>2, <2>3, GoesOn
  <2>5. QED  BY <1>0, <2>1, <2>4 DEF TypeOK, TaskRecord, sourceVars
<1>10. CASE Finish(t)
  <2> DEFINE e == Entered(IF entry.wakers # {} THEN "loaded" ELSE "value", task[t].obj)
  <2>1. /\ task[t].phase = "finish" /\ ~task[t].cancelled /\ entry' = e /\ task' = Without(t)
        /\ future' = Woken(entry.wakers)
        /\ UNCHANGED <<sourceVars, watched, channel, meta, value, held>>
    BY <1>10 DEF Finish, End
  <2>2. e.kind \in {"loaded", "value"} /\ e.task = None /\ e.obj = task[t].obj
    BY DEF Entered
  <2>3. /\ EntryHasItsTask' /\ WritersHold'
        /\ \A x \in Tasks, o \in Objects : task'[x].obj = o => task[x].obj = o
    BY <2>1, <2>2, TaskGone DEF IsFree
  <2>4. task[t].obj = entry.obj
    <3>1. task[t].obj \in Objects
      BY <1>0, <2>1 DEF TaskRecord, WritersHold
    <3>2. Held(task[t].obj)
      BY DEF Held
    <3>3. QED  BY <3>1, <3>2 DEF EntryKnows
  <2>5. EntryKnows'
    BY <2>1, <2>2, <2>3, <2>4 DEF EntryKnows, Held
  <2>6. QED  BY <1>0, <2>1, <2>3, <2>5, WithoutFacts, WokenType
                DEF TypeOK, TaskRecord, sourceVars, Links, Entered
<1>11. CASE DropTask(t)
  <2>1. /\ task[t].cancelled /\ task' = Without(t)
        /\ UNCHANGED <<sourceVars, watched, channel, meta, entry, value, future, held>>
    BY <1>11 DEF DropTask
  <2>2. QED  BY <2>1, CancelledGone DEF TypeOK, TaskRecord, sourceVars
<1>12. QED
  BY <1>1, <1>2, <1>3, <1>4, <1>5, <1>6, <1>7, <1>8, <1>9, <1>10, <1>11 DEF TaskStep

-----------------------------------------------------------------------------
(* The sources and the update thread. *)

LEMMA ChangeKeeps ==
  ASSUME IInv, NEW s \in Sources, NEW c \in Contents \cup {None}, Change(s, c)
  PROVE  TypeOK' /\ Links'
<1> USE DEF IInv
<1>1. UNCHANGED <<watched, meta, entry, value, task, future, held>>
  BY DEF Change
<1>2. Links'
  BY <1>1, NothingLinked DEF Links
<1>3. content' \in [Sources -> Contents \cup {None}] /\ changes' \in 0..MaxChanges
  BY CacheAssumption DEF Change, TypeOK
<1>4. channel' \in Seq([src : Sources, hash : Contents \cup {None}])
  <2> DEFINE msg == [src |-> s, hash |-> c]
             M == [src : Sources, hash : Contents \cup {None}]
  <2>1. msg \in M
    OBVIOUS
  <2>2. channel \in Seq(M) /\ (channel' = channel \/ channel' = Append(channel, msg))
    BY DEF Change, TypeOK
  <2> HIDE DEF msg, M
  <2>3. channel' \in Seq(M)
    BY <2>1, <2>2
  <2>4. QED  BY <2>3 DEF M
<1>5. QED  BY <1>1, <1>2, <1>3, <1>4 DEF TypeOK

\* An update takes the place of the task of the entry, if there is one, which
\* is cancelled; it goes on with the object of the entry if it is held.
LEMMA StartUpdateKeeps ==
  ASSUME IInv, NEW idx \in Sources, StartUpdate(idx), UNCHANGED held
  PROVE  /\ task' \in [Tasks -> TaskRecord]
         /\ entry' \in [kind : {"none", "loading", "loaded", "value", "error", "updating"},
                        obj : Objects \cup {None}, task : Tasks \cup {None}, wakers : SUBSET Users]
         /\ future' \in [Users -> {"idle", "woken", "waiting", "holds"}]
         /\ Links'
<1> USE DEF IInv
<1> DEFINE gone == \/ entry.kind = "none" \/ entry.kind = "error"
                   \/ entry.kind = "value" /\ ~Alive(entry.obj)
<1>1. CASE gone
  <2>1. entry' = NoEntry /\ UNCHANGED <<task, future>>
    BY <1>1 DEF StartUpdate
  <2>2. entry.task = None
    BY <1>1 DEF EntryHasItsTask
  <2>3. EntryHasItsTask'
    BY <2>1, <2>2 DEF EntryHasItsTask, NoEntry, IsFree, IsLoad
  <2>4. \A o \in Objects : ~Held(o)
    BY <1>1, NobodyHolds, CacheAssumption DEF EntryKnows
  <2>5. EntryKnows'
    BY <2>1, <2>4 DEF EntryKnows, NoEntry, Held
  <2>6. WritersHold'
    BY <2>1 DEF WritersHold
  <2>7. QED  BY <2>1, <2>3, <2>5, <2>6 DEF TypeOK, TaskRecord, NoEntry, Links
<1>2. CASE ~gone
  <2>0. PICK t : t = NewTask
    OBVIOUS
  <2> DEFINE prev == entry.task
             first == Spawned(t, idx, IF entry.kind = "updating" THEN prev ELSE None)
  <2>1. /\ \E x \in Tasks : IsFree(x)
        /\ entry' = [kind |-> "updating", obj |-> Upgradable, task |-> t,
                     wakers |-> IF prev = None THEN {} ELSE entry.wakers]
        /\ task' = [x \in Tasks |-> IF x = t THEN first ELSE IF x = prev THEN Cancelled(x) ELSE task[x]]
        /\ future' = IF prev = None THEN future ELSE Woken(entry.wakers)
    BY <1>2, <2>0, Zenon DEF StartUpdate
  <2>2. t \in Tasks /\ IsFree(t)
    BY <2>0, <2>1, NewTaskIsFree
  <2>3. prev \in Tasks \cup {None}
    BY DEF TypeOK
  <2>4. /\ first \in TaskRecord /\ first.phase = "await" /\ first.obj = None
        /\ first.cancelled = FALSE
    BY <2>2, <2>3, FreeIsRecord, CacheAssumption DEF Spawned, TaskRecord, TaskPhases, Free
  <2>5. ASSUME NEW x \in Tasks
        PROVE  /\ Cancelled(x) \in TaskRecord
               /\ Cancelled(x).phase \in {task[x].phase, "free"}
               /\ Cancelled(x).phase = "free" \/ Cancelled(x).cancelled
               /\ Cancelled(x).obj \in {task[x].obj, None}
               /\ Cancelled(x).phase \in {"watch", "write", "finish"} => Cancelled(x).obj = task[x].obj
    BY TaskIsRecord, FreeIsRecord DEF Cancelled, TaskRecord, Free
  <2> HIDE DEF first
  <2>6. /\ task'[t] = first
        /\ \A x \in Tasks \ {t} : task'[x] = IF x = prev THEN Cancelled(x) ELSE task[x]
    BY <2>1, <2>2
  <2>7. task' \in [Tasks -> TaskRecord]
    BY <2>1, <2>4, <2>5, TaskIsRecord
  <2>8. EntryHasItsTask'
    <3>1. entry'.kind = "updating" /\ entry'.task = t /\ t # None
      BY <2>1, <2>2, CacheAssumption
    <3>2. ~IsFree(t)' /\ ~task'[t].cancelled /\ ~IsLoad(t)'
      BY <2>4, <2>6 DEF IsFree, IsLoad
    <3>3. ASSUME NEW x \in Tasks \ {t} PROVE IsFree(x)' \/ task'[x].cancelled
      BY <2>5, <2>6 DEF EntryHasItsTask, IsFree
    <3>4. QED  BY <3>1, <3>2, <3>3 DEF EntryHasItsTask
  <2>9. EntryKnows'
    <3>1. \A o \in Objects : Held(o)' => Held(o)
      BY <2>4, <2>5, <2>6, CacheAssumption DEF Held
    <3>2. entry'.kind = "updating" /\ entry'.obj = Upgradable
      BY <2>1
    <3>3. \A o \in Objects : Held(o) => Upgradable = o
      BY DEF EntryKnows, Upgradable
    <3>4. QED  BY <3>1, <3>2, <3>3 DEF EntryKnows
  <2>10. WritersHold'
    BY <2>4, <2>5, <2>6 DEF WritersHold
  <2>11. Upgradable \in Objects \cup {None}
    BY DEF Upgradable, TypeOK
  <2>12. QED
    BY <2>1, <2>2, <2>7, <2>8, <2>9, <2>10, <2>11, WokenType DEF TypeOK, Links
<1>3. QED  BY <1>1, <1>2

LEMMA ReceiveKeeps ==
  ASSUME IInv, Receive
  PROVE  TypeOK' /\ Links'
<1> USE DEF IInv
<1> DEFINE msg == Head(channel)
           M == [src : Sources, hash : Contents \cup {None}]
<1>1. channel \in Seq(M) /\ channel # <<>> /\ channel' = Tail(channel)
  BY DEF Receive, TypeOK
<1>2. msg \in M /\ channel' \in Seq(M)
  <2> HIDE DEF M
  <2>1. QED  BY <1>1
<1>3. UNCHANGED <<sourceVars, watched, value, held>>
  BY DEF Receive
<1>4. CASE Skipped(msg)
  <2>1. UNCHANGED <<meta, entry, task, future>>
    BY <1>4 DEF Receive
  <2>2. Links'
    BY <1>3, <2>1, NothingLinked DEF Links
  <2>3. QED  BY <1>2, <1>3, <2>1, <2>2 DEF TypeOK, sourceVars
<1>5. CASE ~Skipped(msg)
  <2>1. meta' = MetaAfter(msg) /\ StartUpdate(MetaAfter(msg).idx)
    BY <1>5 DEF Receive
  <2>2. MetaAfter(msg) \in [hash : Contents \cup {None}, idx : Sources]
    <3>1. CASE msg.hash = None
      <4>1. Winner \in Sources
        BY <1>5, <3>1, WinnerIsSource DEF Skipped
      <4>2. QED  BY <3>1, <4>1 DEF MetaAfter, TypeOK
    <3>2. CASE msg.hash # None
      BY <1>2, <3>2 DEF MetaAfter
    <3>3. QED  BY <3>1, <3>2
  <2>3. meta' \in [hash : Contents \cup {None}, idx : 1..(NumSources + 1)]
    BY <2>1, <2>2, CacheAssumption DEF Sources
  <2>4. /\ task' \in [Tasks -> TaskRecord]
        /\ entry' \in [kind : {"none", "loading", "loaded", "value", "error", "updating"},
                       obj : Objects \cup {None}, task : Tasks \cup {None}, wakers : SUBSET Users]
        /\ future' \in [Users -> {"idle", "woken", "waiting", "holds"}]
        /\ Links'
    BY <1>3, <2>1, <2>2, StartUpdateKeeps
  <2>5. QED  BY <1>2, <1>3, <2>3, <2>4 DEF TypeOK, TaskRecord, sourceVars
<1>6. QED  BY <1>4, <1>5

-----------------------------------------------------------------------------
(* The users. *)

\* The types of what the users' steps may change.
UserTypes ==
  /\ entry \in [kind : {"none", "loading", "loaded", "value", "error", "updating"},
                obj : Objects \cup {None}, task : Tasks \cup {None}, wakers : SUBSET Users]
  /\ value \in [Objects -> Contents \cup {None}]
  /\ task \in [Tasks -> TaskRecord]
  /\ future \in [Users -> {"idle", "woken", "waiting", "holds"}]
  /\ held \in [Users -> Objects \cup {None}]

\* The new wakers of an entry make no difference.
LEMMA OtherWakers ==
  ASSUME IInv, NEW W \in SUBSET Users, entry' = [entry EXCEPT !.wakers = W], UNCHANGED <<task, held>>
  PROVE  Links'
<1>1. entry'.kind = entry.kind /\ entry'.obj = entry.obj /\ entry'.task = entry.task
  BY DEF IInv, TypeOK
<1>2. QED
  BY <1>1 DEF IInv, Links, EntryHasItsTask, EntryKnows, WritersHold, IsFree, IsLoad, Held

LEMMA StartLoadKeeps ==
  ASSUME IInv, NEW u \in Users, NEW st \in {"woken", "waiting"}, StartLoad(u, st)
  PROVE  UserTypes' /\ Links'
<1> USE DEF IInv
<1>1. PICK t : t = NewTask
  OBVIOUS
<1> DEFINE r == [Free EXCEPT !.phase = "loadFind"]
<1>2. /\ entry.kind = "none" \/ (entry.kind = "value" /\ ~Alive(entry.obj))
      /\ entry' = [kind |-> "loading", obj |-> None, task |-> t, wakers |-> {u}]
      /\ Set(t, r) /\ future' = [future EXCEPT ![u] = st]
      /\ UNCHANGED <<value, held>>
  BY <1>1 DEF StartLoad
<1>3. t \in Tasks /\ IsFree(t) /\ t # None
  BY <1>1, NewTaskIsFree, CacheAssumption DEF StartLoad
<1>4. r \in TaskRecord /\ r.phase = "loadFind" /\ r.obj = None /\ r.cancelled = FALSE
  BY FreeIsRecord DEF TaskRecord, TaskPhases, Free
<1> HIDE DEF r
<1>5. /\ task' \in [Tasks -> TaskRecord] /\ task'[t] = r
      /\ \A x \in Tasks \ {t} : task'[x] = task[x]
  BY <1>2, <1>3, <1>4, SetFacts
<1>6. entry.task = None
  BY <1>2 DEF EntryHasItsTask
<1>7. EntryHasItsTask'
  <2>1. entry'.kind = "loading" /\ entry'.task = t
    BY <1>2
  <2>2. ~IsFree(t)' /\ ~task'[t].cancelled /\ IsLoad(t)'
    BY <1>4, <1>5 DEF IsFree, IsLoad
  <2>3. ASSUME NEW x \in Tasks \ {t} PROVE IsFree(x)' \/ task'[x].cancelled
    BY <1>3, <1>5, <1>6, CacheAssumption DEF EntryHasItsTask, IsFree
  <2>4. QED  BY <1>3, <2>1, <2>2, <2>3 DEF EntryHasItsTask
<1>8. EntryKnows'
  <2>1. \A o \in Objects : ~Held(o)
    BY <1>2, NobodyHolds, CacheAssumption DEF EntryKnows
  <2>2. \A o \in Objects : ~Held(o)'
    BY <1>2, <1>4, <1>5, <2>1, CacheAssumption DEF Held
  <2>3. QED  BY <1>2, <2>2 DEF EntryKnows
<1>9. WritersHold'
  BY <1>4, <1>5 DEF WritersHold
<1>10. QED
  BY <1>2, <1>3, <1>5, <1>7, <1>8, <1>9 DEF UserTypes, TypeOK, Links

LEMMA TakeResourceKeeps ==
  ASSUME IInv, NEW u \in Users, TakeResource(u)
  PROVE  UserTypes' /\ Links'
<1> USE DEF IInv
<1>1. CASE /\ entry.kind \in {"value", "updating", "loaded"} /\ Alive(entry.obj)
           /\ Hold(u, entry.obj)
           /\ entry' = IF entry.kind = "loaded" THEN Entered("value", entry.obj) ELSE entry
           /\ UNCHANGED <<value, task>>
  <2>1. /\ entry'.obj = entry.obj
        /\ entry'.kind = IF entry.kind = "loaded" THEN "value" ELSE entry.kind
        /\ entry'.task = entry.task
    BY <1>1 DEF Entered, EntryHasItsTask
  <2>2. EntryHasItsTask'
    BY <1>1, <2>1 DEF EntryHasItsTask, IsFree, IsLoad
  <2>3. EntryKnows'
    BY <1>1, <2>1 DEF EntryKnows, Hold, Held, TypeOK
  <2>4. WritersHold'
    BY <1>1 DEF WritersHold
  <2>5. QED
    BY <1>1, <2>2, <2>3, <2>4 DEF UserTypes, TypeOK, TaskRecord, Links, Entered, Hold
<1>2. CASE /\ entry.kind = "loading" /\ task[entry.task].phase = "done"
           /\ Hold(u, NewObject)
           /\ value' = [value EXCEPT ![NewObject] = task[entry.task].data]
           /\ entry' = Entered("value", NewObject)
           /\ task' = Without(entry.task)
  <2> DEFINE t == entry.task
  <2>1. t \in Tasks /\ ~IsFree(t) /\ ~task[t].cancelled
    BY <1>2 DEF EntryHasItsTask, TypeOK
  <2>2. entry'.kind = "value" /\ entry'.obj = NewObject /\ entry'.task = None
    BY <1>2 DEF Entered
  <2>3. PICK d : d = t
    OBVIOUS
  <2>4. /\ EntryHasItsTask' /\ WritersHold'
        /\ \A x \in Tasks, o \in Objects : task'[x].obj = o => task[x].obj = o
    BY <1>2, <2>1, <2>2, <2>3, TaskGone
  <2>5. PICK n \in Objects : n = NewObject
    BY NewObjectIsNew
  <2>6. EntryKnows'
    <3>1. \A o \in Objects : ~Held(o)
      BY <1>2, CacheAssumption DEF EntryKnows
    <3>2. held' = [held EXCEPT ![u] = n]
      BY <1>2, <2>5 DEF Hold
    <3>3. \A o \in Objects : Held(o)' => o = n
      BY <2>4, <3>1, <3>2 DEF Held, TypeOK
    <3>4. QED  BY <2>2, <2>5, <3>3 DEF EntryKnows
  <2>7. task' \in [Tasks -> TaskRecord]
    BY <1>2, <2>1, WithoutFacts
  <2>8. QED
    BY <1>2, <2>1, <2>4, <2>5, <2>6, <2>7, TaskIsRecord DEF UserTypes, TypeOK, TaskRecord, Links, Entered, Hold
<1>3. QED  BY <1>1, <1>2 DEF TakeResource

LEMMA TakeErrorKeeps ==
  ASSUME IInv, NEW u \in Users, TakeError(u)
  PROVE  UserTypes' /\ Links'
<1> USE DEF IInv
<1>1. future' = [future EXCEPT ![u] = "idle"] /\ UNCHANGED <<value, held>>
  BY DEF TakeError
<1>2. CASE entry.kind = "error" /\ UNCHANGED <<entry, task>>
  <2>1. Links'
    BY <1>1, <1>2, NothingLinked DEF Links
  <2>2. QED  BY <1>1, <1>2, <2>1 DEF UserTypes, TypeOK, TaskRecord
<1>3. CASE /\ entry.kind = "loading" /\ task[entry.task].phase = "failed"
           /\ entry' = Entered("error", None)
           /\ task' = Without(entry.task)
  <2>1. PICK t : t = entry.task
    OBVIOUS
  <2>2. t \in Tasks /\ ~IsFree(t) /\ ~task[t].cancelled
    BY <1>3, <2>1 DEF EntryHasItsTask, TypeOK
  <2>3. entry'.kind = "error" /\ entry'.obj = None /\ entry'.task = None
    BY <1>3 DEF Entered
  <2>4. /\ EntryHasItsTask' /\ WritersHold'
        /\ \A x \in Tasks, o \in Objects : task'[x].obj = o => task[x].obj = o
    BY <1>3, <2>1, <2>2, <2>3, TaskGone
  <2>5. EntryKnows'
    <3>1. \A o \in Objects : ~Held(o)
      BY <1>3, CacheAssumption DEF EntryKnows
    <3>2. \A o \in Objects : ~Held(o)'
      BY <1>1, <2>4, <3>1 DEF Held
    <3>3. QED  BY <2>3, <3>2 DEF EntryKnows
  <2>6. task' \in [Tasks -> TaskRecord]
    BY <1>3, <2>1, <2>2, WithoutFacts
  <2>7. QED
    BY <1>1, <1>3, <2>4, <2>5, <2>6 DEF UserTypes, TypeOK, Links, Entered
<1>4. QED  BY <1>2, <1>3 DEF TakeError

LEMMA UserStepKeeps ==
  ASSUME IInv, NEW u \in Users, Get(u) \/ Poll(u) \/ DropFuture(u) \/ Release(u)
  PROVE  TypeOK' /\ Links'
<1> USE DEF IInv
<1>1. UNCHANGED <<sourceVars, watched, channel, meta>>
  BY DEF Get, Poll, DropFuture, Release
<1>2. UserTypes' /\ Links'
  <2>1. CASE TakeResource(u)
    BY <2>1, TakeResourceKeeps
  <2>2. CASE TakeError(u)
    BY <2>2, TakeErrorKeeps
  <2>3. CASE StartLoad(u, "woken") \/ StartLoad(u, "waiting")
    BY <2>3, StartLoadKeeps
  <2>4. ASSUME NEW W \in SUBSET Users, NEW st \in {"idle", "woken", "waiting"},
               entry' = [entry EXCEPT !.wakers = W], future' = [future EXCEPT ![u] = st],
               UNCHANGED <<value, task, held>>
        PROVE  UserTypes' /\ Links'
    <3>1. Links'
      BY <2>4, OtherWakers
    <3>2. QED  BY <2>4, <3>1 DEF UserTypes, TypeOK, TaskRecord
  <2>5. CASE Get(u) /\ ~ (TakeResource(u) \/ TakeError(u) \/ StartLoad(u, "woken"))
    <3>1. /\ entry' = [entry EXCEPT !.wakers = entry.wakers \cup {u}]
          /\ future' = [future EXCEPT ![u] = "woken"]
          /\ UNCHANGED <<value, task, held>>
          /\ entry.wakers \cup {u} \in SUBSET Users
      BY <2>5 DEF Get, TypeOK
    <3>2. QED  BY <3>1, <2>4
  <2>6. CASE Poll(u) /\ ~ (TakeResource(u) \/ TakeError(u) \/ StartLoad(u, "waiting"))
    <3>1. future' = [future EXCEPT ![u] = "waiting"] /\ UNCHANGED <<entry, value, task, held>>
      BY <2>6 DEF Poll
    <3>2. entry' = [entry EXCEPT !.wakers = entry.wakers] /\ entry.wakers \in SUBSET Users
      BY <3>1 DEF TypeOK
    <3>3. QED  BY <3>1, <3>2, <2>4
  <2>7. CASE DropFuture(u)
    <3>1. /\ entry' = [entry EXCEPT !.wakers = entry.wakers \ {u}]
          /\ future' = [future EXCEPT ![u] = "idle"]
          /\ UNCHANGED <<value, task, held>>
          /\ entry.wakers \ {u} \in SUBSET Users
      BY <2>7 DEF DropFuture, TypeOK
    <3>2. QED  BY <3>1, <2>4
  <2>8. CASE Release(u)
    <3>1. /\ future' = [future EXCEPT ![u] = "idle"] /\ held' = [held EXCEPT ![u] = None]
          /\ UNCHANGED <<entry, value, task>>
      BY <2>8 DEF Release
    <3>2. EntryHasItsTask' /\ WritersHold'
      BY <3>1 DEF EntryHasItsTask, WritersHold, IsFree, IsLoad
    <3>3. EntryKnows'
      <4>1. \A o \in Objects : Held(o)' => Held(o)
        BY <3>1, CacheAssumption DEF Held, TypeOK
      <4>2. QED  BY <3>1, <4>1 DEF EntryKnows
    <3>4. QED  BY <3>1, <3>2, <3>3 DEF UserTypes, TypeOK, TaskRecord, Links
  <2>9. QED  BY <2>1, <2>2, <2>3, <2>5, <2>6, <2>7, <2>8
<1>3. QED  BY <1>1, <1>2 DEF UserTypes, TypeOK, TaskRecord, sourceVars

-----------------------------------------------------------------------------

LEMMA InitEstablishes ==
  ASSUME Init
  PROVE  IInv
<1>1. Winner \in Sources
  BY CacheAssumption, WinnerIsSource DEF Init, Has
<1>2. TypeOK
  <2>1. First[Winner] \in Contents \cup {None}
    BY <1>1, CacheAssumption
  <2>2. meta \in [hash : Contents \cup {None}, idx : 1..(NumSources + 1)]
    BY <1>1, <2>1, CacheAssumption DEF Init, Sources
  <2>3. watched \subseteq Sources
    BY <1>1, CacheAssumption DEF Init, Sources
  <2>4. Free \in TaskRecord
    BY FreeIsRecord
  <2>5. channel \in Seq([src : Sources, hash : Contents \cup {None}])
    BY DEF Init
  <2>6. QED  BY <2>2, <2>3, <2>4, <2>5, CacheAssumption DEF Init, TypeOK, NoEntry, TaskRecord
<1>3. EntryHasItsTask
  BY DEF Init, EntryHasItsTask, NoEntry, IsFree, Free
<1>4. EntryKnows /\ WritersHold
  BY CacheAssumption DEF Init, EntryKnows, WritersHold, NoEntry, Held, Free
<1>5. QED  BY <1>2, <1>3, <1>4 DEF IInv

LEMMA NextKeeps ==
  ASSUME IInv, [Next]_vars
  PROVE  IInv'
<1>1. CASE \E s \in Sources, c \in Contents \cup {None} : Change(s, c)
  BY <1>1, ChangeKeeps DEF IInv, Links
<1>2. CASE Receive
  BY <1>2, ReceiveKeeps DEF IInv, Links
<1>3. CASE \E t \in Tasks : TaskStep(t)
  BY <1>3, TaskStepKeeps DEF IInv, Links
<1>4. CASE \E u \in Users : Get(u) \/ Poll(u) \/ DropFuture(u) \/ Release(u)
  BY <1>4, UserStepKeeps DEF IInv, Links
<1>5. CASE UNCHANGED vars
  <2>1. Links'
    BY <1>5, NothingLinked DEF IInv, Links, vars
  <2>2. TypeOK'
    BY <1>5 DEF IInv, TypeOK, vars
  <2>3. QED  BY <2>1, <2>2 DEF IInv, Links
<1>6. QED  BY <1>1, <1>2, <1>3, <1>4, <1>5 DEF Next

\* The types, the bond of the entry and its task, that whoever holds an
\* object holds the one of the entry, and that an update that writes has one.
THEOREM InductiveInvariant == Spec => []IInv
<1>1. Init => IInv
  BY InitEstablishes
<1>2. IInv /\ [Next]_vars => IInv'
  BY NextKeeps
<1>3. QED  BY <1>1, <1>2, PTL DEF Spec

\* Every variable keeps its type (the fields of CacheGroup and CacheEntry in
\* load.rs).
THEOREM TypeCorrect == Spec => []TypeOK
<1>1. IInv => TypeOK
  BY DEF IInv
<1>2. QED  BY <1>1, InductiveInvariant, PTL

\* A loading entry has its load and an updating one its update, and every
\* other task is cancelled (load.rs, start_update and poll).
THEOREM OneTaskPerEntry == Spec => []EntryHasItsTask
<1>1. IInv => EntryHasItsTask
  BY DEF IInv
<1>2. QED  BY <1>1, InductiveInvariant, PTL

\* Only the object of the entry is in use.
LEMMA OneIsInUse ==
  ASSUME IInv
  PROVE  OneValue
<1> DEFINE A == {o \in Objects : Alive(o)}
<1>1. A \subseteq {entry.obj}
  BY DEF IInv, EntryKnows, Alive
<1>2. IsFiniteSet({entry.obj}) /\ Cardinality({entry.obj}) = 1
  BY FS_Singleton
<1>3. IsFiniteSet(A) /\ Cardinality(A) <= 1
  BY <1>1, <1>2, FS_Subset
<1>4. QED  BY <1>3 DEF OneValue

\* All who hold the resource hold the same object, through loads, updates,
\* drops and cancellations (load.rs, the weak reference of CacheEntryTyped).
THEOREM AllHoldOneObject == Spec => []OneValue
<1>1. QED  BY OneIsInUse, InductiveInvariant, PTL

-----------------------------------------------------------------------------
(* The futures.  IInv is all that RememberedAreWoken needs to be           *)
(* inductive: a step that gives an answer wakes the wakers or leaves none. *)

\* Nobody holds more than before, and the entry has no new object.
LEMMA NotReadyStays ==
  ASSUME IInv, NotReady,
         entry'.kind = entry.kind, entry'.obj = entry.obj, entry'.task = entry.task,
         \A u \in Users : held'[u] \in {held[u], None},
         \A x \in Tasks : task'[x].obj \in {task[x].obj, None},
         entry.kind = "loading" => task'[entry.task].phase \notin {"done", "failed"}
  PROVE  NotReady'
<1>1. CASE entry.kind = "loading"
  BY <1>1 DEF NotReady
<1>2. CASE entry.kind = "updating" /\ ~Alive(entry.obj)
  <2>1. entry.obj # None => ~Held(entry.obj)'
    BY <1>2 DEF Alive, Held
  <2>2. QED  BY <1>2, <2>1 DEF NotReady, Alive
<1>3. QED  BY <1>1, <1>2 DEF NotReady

\* The step of a task that gives no answer, or wakes the wakers.
LEMMA TaskStepWakes ==
  ASSUME IInv, RememberedAreWoken, NEW t \in Tasks, TaskStep(t)
  PROVE  RememberedAreWoken'
<1> USE DEF IInv
<1>0. TypeOK /\ task[t] \in TaskRecord /\ entry.wakers \in SUBSET Users
  BY TaskIsRecord DEF TypeOK
<1>1. ASSUME future' = Woken(entry.wakers), entry'.wakers \in {entry.wakers, {}}
      PROVE  RememberedAreWoken'
  BY <1>0, <1>1 DEF RememberedAreWoken, Woken
<1>2. ASSUME UNCHANGED <<entry, held, future>>,
             \A x \in Tasks : task'[x].obj \in {task[x].obj, None},
             entry.task = t => task'[t].phase \notin {"done", "failed"},
             \A x \in Tasks \ {t} : task'[x].phase = task[x].phase
      PROVE  RememberedAreWoken'
  <2>1. ASSUME NotReady PROVE NotReady'
    <3>1. entry.kind = "loading" => entry.task \in Tasks /\ task[entry.task].phase \notin {"done", "failed"}
      BY <2>1 DEF NotReady, EntryHasItsTask, TypeOK
    <3>2. QED  BY <1>2, <2>1, <3>1, NotReadyStays
  <2>2. QED  BY <1>2, <2>1 DEF RememberedAreWoken
<1>3. ASSUME NEW r \in TaskRecord, Set(t, r), UNCHANGED <<entry, held, future>>,
             r.obj = task[t].obj, r.phase \notin {"done", "failed"}
      PROVE  RememberedAreWoken'
  <2>1. task'[t] = r /\ \A x \in Tasks \ {t} : task'[x] = task[x]
    BY <1>0, <1>3, SetFacts
  <2>2. QED  BY <1>2, <1>3, <2>1
<1>4. ASSUME task[t].cancelled, task' = Without(t), UNCHANGED <<entry, held, future>>
      PROVE  RememberedAreWoken'
  <2>1. /\ task'[t].phase = "free" /\ task'[t].obj = None
        /\ \A x \in Tasks \ {t} : task'[x].phase = task[x].phase /\ task'[x].obj = task[x].obj
    BY <1>0, <1>4, WithoutFacts DEF Free
  <2>2. QED  BY <1>2, <1>4, <2>1
<1>5. ASSUME NEW phase, Complete(t, phase), UNCHANGED <<entry, held>>
      PROVE  RememberedAreWoken'
  BY <1>1, <1>4, <1>5 DEF Complete
<1>6. ASSUME NEW e, End(t, e), e.wakers = {}
      PROVE  RememberedAreWoken'
  BY <1>1, <1>6 DEF End
<1> USE DEF TaskPhases
<1>7. CASE FindData(t)
  <2> DEFINE load == task[t].phase = "loadFind"
             found == [task[t] EXCEPT !.data = content[task[t].at],
                                      !.phase = IF load THEN "loadMeta" ELSE "meta"]
             next == [task[t] EXCEPT !.at = task[t].at + 1]
             gaveUp == [task[t] EXCEPT !.phase = "fail"]
  <2>1. UNCHANGED <<entry, held>> /\ task[t].phase \in {"loadFind", "find"}
    BY <1>7 DEF FindData
  <2>2. CASE Has(task[t].at)
    <3>1. Set(t, found) /\ UNCHANGED future
      BY <1>7, <2>2 DEF FindData
    <3>2. found \in TaskRecord /\ found.obj = task[t].obj /\ found.phase \in {"loadMeta", "meta"}
      BY ZenonT(40), <1>0 DEF TaskRecord, TypeOK
    <3> HIDE DEF found
    <3>3. QED  BY <1>3, <2>1, <3>1, <3>2
  <2>3. CASE ~Has(task[t].at) /\ task[t].at < NumSources
    <3>1. Set(t, next) /\ UNCHANGED future
      BY <1>7, <2>3 DEF FindData
    <3>2. task[t].at + 1 \in Sources
      BY <1>0, <2>3, CacheAssumption DEF Sources, TaskRecord
    <3>3. next \in TaskRecord /\ next.obj = task[t].obj /\ next.phase = task[t].phase
      BY <1>0, <3>2 DEF TaskRecord
    <3> HIDE DEF next
    <3>4. QED  BY <1>3, <2>1, <3>1, <3>3
  <2>4. CASE ~Has(task[t].at) /\ ~ (task[t].at < NumSources) /\ load
    BY <1>5, <1>7, <2>1, <2>4 DEF FindData
  <2>5. CASE ~Has(task[t].at) /\ ~ (task[t].at < NumSources) /\ ~load
    <3>1. Set(t, gaveUp) /\ UNCHANGED future
      BY <1>7, <2>5 DEF FindData
    <3>2. gaveUp \in TaskRecord /\ gaveUp.obj = task[t].obj /\ gaveUp.phase = "fail"
      BY <1>0 DEF TaskRecord
    <3> HIDE DEF gaveUp
    <3>3. QED  BY <1>3, <2>1, <3>1, <3>2
  <2>6. QED  BY <2>2, <2>3, <2>4, <2>5
<1>8. CASE UpdateMetadata(t)
  <2> DEFINE r == [task[t] EXCEPT !.phase = IF @ = "loadMeta" THEN "loadWatch" ELSE "commit"]
  <2>1. Set(t, r) /\ UNCHANGED <<entry, held, future>>
    BY <1>8 DEF UpdateMetadata
  <2>2. r \in TaskRecord /\ r.obj = task[t].obj /\ r.phase \in {"loadWatch", "commit"}
    BY <1>0 DEF TaskRecord
  <2> HIDE DEF r
  <2>3. QED  BY <1>3, <2>1, <2>2
<1>9. ASSUME NEW phase \in {"loadParse", "find", "write", "finish"},
             Set(t, [task[t] EXCEPT !.phase = phase]), UNCHANGED <<entry, held, future>>
      PROVE  RememberedAreWoken'
  <2> DEFINE r == [task[t] EXCEPT !.phase = phase]
  <2>1. r \in TaskRecord /\ r.obj = task[t].obj /\ r.phase = phase /\ Set(t, r)
    BY <1>0, <1>9 DEF TaskRecord
  <2> HIDE DEF r
  <2>2. QED  BY <1>3, <1>9, <2>1
<1>10. CASE WatchLoaded(t)
  BY <1>9, <1>10 DEF WatchLoaded
<1>11. CASE Parse(t)
  BY <1>5, <1>11 DEF Parse
<1>12. CASE AwaitPrevious(t)
  BY <1>9, <1>12 DEF AwaitPrevious
<1>13. CASE Fail(t)
  BY <1>6, <1>13 DEF Fail, Entered
<1>14. CASE Commit(t)
  <2>1. CASE Alive(entry.obj)
    <3> DEFINE r == [task[t] EXCEPT !.phase = "watch", !.obj = entry.obj]
    <3>1. Set(t, r) /\ UNCHANGED <<entry, future>> /\ UNCHANGED held
      BY <1>14, <2>1 DEF Commit
    <3>2. entry.task = t /\ ~IsLoad(t)
      BY <1>0, <1>14 DEF Commit, EntryHasItsTask, IsFree, IsLoad
    <3>3. ~NotReady
      BY <2>1, <3>2 DEF NotReady, EntryHasItsTask
    <3>4. QED  BY <3>1, <3>3 DEF RememberedAreWoken
  <2>2. CASE ~Alive(entry.obj)
    BY <1>6, <1>14, <2>2 DEF Commit, HandleExpired, Entered, NoEntry
  <2>3. QED  BY <2>1, <2>2
<1>15. CASE WatchUpdated(t)
  BY <1>9, <1>15 DEF WatchUpdated
<1>16. CASE Write(t)
  BY <1>9, <1>16 DEF Write
<1>17. CASE Finish(t)
  BY <1>6, <1>17 DEF Finish, Entered
<1>18. CASE DropTask(t)
  BY <1>4, <1>18 DEF DropTask
<1>19. QED
  BY <1>7, <1>8, <1>10, <1>11, <1>12, <1>13, <1>14, <1>15, <1>16, <1>17, <1>18 DEF TaskStep

\* An update takes over the wakers of the task it cancels, and they are woken.
LEMMA ReceiveWakes ==
  ASSUME IInv, RememberedAreWoken, Receive
  PROVE  RememberedAreWoken'
<1>1. UNCHANGED held
  BY DEF Receive
<1>2. CASE UNCHANGED <<entry, task, future>>
  BY <1>1, <1>2 DEF RememberedAreWoken, NotReady, Alive, Held
<1>3. ASSUME NEW idx, StartUpdate(idx)
      PROVE  RememberedAreWoken'
  <2>1. CASE entry' = NoEntry
    BY <2>1 DEF NoEntry, RememberedAreWoken
  <2>2. CASE entry' # NoEntry
    <3>1. /\ entry'.wakers = IF entry.task = None THEN {} ELSE entry.wakers
          /\ future' = IF entry.task = None THEN future ELSE Woken(entry.wakers)
      BY <1>3, <2>2 DEF StartUpdate
    <3>2. entry.wakers \in SUBSET Users
      BY DEF IInv, TypeOK
    <3>3. QED  BY <3>1, <3>2 DEF Woken, RememberedAreWoken
  <2>3. QED  BY <2>1, <2>2
<1>4. QED  BY <1>2, <1>3 DEF Receive

\* The wakers of an entry that has an answer are awake, so they may stay.
LEMMA TakeResourceWakes ==
  ASSUME IInv, RememberedAreWoken, NEW u \in Users, TakeResource(u)
  PROVE  RememberedAreWoken'
<1>0. entry.wakers \in SUBSET Users /\ future \in [Users -> {"idle", "woken", "waiting", "holds"}]
  BY DEF IInv, TypeOK
<1>1. CASE entry.kind \in {"value", "updating", "loaded"} /\ Alive(entry.obj) /\ Hold(u, entry.obj)
           /\ entry' = IF entry.kind = "loaded" THEN Entered("value", entry.obj) ELSE entry
  <2>1. \A w \in entry.wakers : future[w] # "waiting"
    BY <1>1 DEF RememberedAreWoken, NotReady
  <2>2. entry'.wakers \subseteq entry.wakers
    BY <1>1 DEF Entered
  <2>3. QED  BY <1>0, <1>1, <2>1, <2>2 DEF Hold, RememberedAreWoken
<1>2. CASE entry' = Entered("value", NewObject)
  BY <1>2 DEF Entered, RememberedAreWoken
<1>3. QED  BY <1>1, <1>2 DEF TakeResource

LEMMA TakeErrorWakes ==
  ASSUME IInv, RememberedAreWoken, NEW u \in Users, TakeError(u)
  PROVE  RememberedAreWoken'
<1>0. entry.wakers \in SUBSET Users /\ future \in [Users -> {"idle", "woken", "waiting", "holds"}]
  BY DEF IInv, TypeOK
<1>1. future' = [future EXCEPT ![u] = "idle"]
  BY DEF TakeError
<1>2. CASE entry.kind = "error" /\ UNCHANGED <<entry, task>>
  BY <1>0, <1>1, <1>2 DEF RememberedAreWoken, NotReady
<1>3. CASE entry' = Entered("error", None)
  BY <1>3 DEF Entered, RememberedAreWoken
<1>4. QED  BY <1>2, <1>3 DEF TakeError

\* Other wakers, all of them awake or with nothing to be woken for.
LEMMA OtherWakersWake ==
  ASSUME IInv, UNCHANGED <<task, held>>, NEW W \in SUBSET Users, entry' = [entry EXCEPT !.wakers = W],
         \A w \in W : future'[w] = "waiting" => NotReady
  PROVE  RememberedAreWoken'
<1>1. entry'.wakers = W /\ entry'.kind = entry.kind /\ entry'.obj = entry.obj /\ entry'.task = entry.task
  BY DEF IInv, TypeOK
<1>2. NotReady' <=> NotReady
  BY <1>1 DEF NotReady, Alive, Held
<1>3. QED  BY <1>1, <1>2 DEF RememberedAreWoken

\* One future goes on and the entry stays: it may sleep if there is no answer.
LEMMA FutureGoesOn ==
  ASSUME IInv, RememberedAreWoken, UNCHANGED <<entry, task, held>>,
         NEW u \in Users, NEW st, future' = [future EXCEPT ![u] = st], st = "waiting" => NotReady
  PROVE  RememberedAreWoken'
<1>1. entry' = [entry EXCEPT !.wakers = entry.wakers] /\ entry.wakers \in SUBSET Users
  BY DEF IInv, TypeOK
<1>2. \A w \in entry.wakers : future'[w] = "waiting" => NotReady
  BY <1>1 DEF RememberedAreWoken, IInv, TypeOK
<1>3. QED  BY <1>1, <1>2, OtherWakersWake

\* A future leaves its waker, and will be polled.
LEMMA WakerIsLeft ==
  ASSUME IInv, RememberedAreWoken, NEW u \in Users, UNCHANGED <<task, held>>,
         entry' = [entry EXCEPT !.wakers = @ \cup {u}], future' = [future EXCEPT ![u] = "woken"]
  PROVE  RememberedAreWoken'
<1>1. entry.wakers \in SUBSET Users /\ future \in [Users -> {"idle", "woken", "waiting", "holds"}]
  BY DEF IInv, TypeOK
<1>2. \A w \in entry.wakers \cup {u} : future'[w] = "waiting" => NotReady
  BY <1>1 DEF RememberedAreWoken
<1>3. QED  BY <1>1, <1>2, OtherWakersWake

\* A user takes what there is, or waits for the entry's task.
LEMMA UserStepWakes ==
  ASSUME IInv, RememberedAreWoken, NEW u \in Users,
         Get(u) \/ Poll(u) \/ DropFuture(u) \/ Release(u)
  PROVE  RememberedAreWoken'
<1> USE DEF IInv
<1>0. /\ entry.wakers \in SUBSET Users /\ held \in [Users -> Objects \cup {None}]
      /\ future \in [Users -> {"idle", "woken", "waiting", "holds"}]
  BY DEF TypeOK
<1>1. ASSUME NEW st, StartLoad(u, st)
      PROVE  RememberedAreWoken'
  <2>1. PICK t : t = NewTask
    OBVIOUS
  <2>2. entry'.kind = "loading" /\ entry'.task = t /\ Set(t, [Free EXCEPT !.phase = "loadFind"])
    BY <1>1, <2>1 DEF StartLoad
  <2>3. t \in Tasks
    BY <1>1, <2>1, NewTaskIsFree DEF StartLoad
  <2>4. task'[t].phase = "loadFind"
    BY <2>2, <2>3 DEF Set, Free, TypeOK
  <2>5. QED  BY <2>2, <2>4 DEF RememberedAreWoken, NotReady
<1>2. CASE DropFuture(u)
  <2>1. /\ future' = [future EXCEPT ![u] = "idle"] /\ UNCHANGED <<task, held>>
        /\ entry' = [entry EXCEPT !.wakers = entry.wakers \ {u}]
    BY <1>2 DEF DropFuture
  <2>2. \A w \in entry.wakers \ {u} : future'[w] = "waiting" => NotReady
    BY <1>0, <2>1 DEF RememberedAreWoken
  <2>3. QED  BY <1>0, <2>1, <2>2, OtherWakersWake
<1>3. CASE Release(u)
  <2>1. /\ UNCHANGED <<entry, task>> /\ future' = [future EXCEPT ![u] = "idle"]
        /\ held' = [held EXCEPT ![u] = None]
    BY <1>3 DEF Release
  <2>2. NotReady => NotReady'
    <3>1. \A w \in Users : held'[w] \in {held[w], None}
      BY <1>0, <2>1
    <3>2. NotReady => (entry.kind = "loading" => task[entry.task].phase \notin {"done", "failed"})
      BY DEF NotReady
    <3>3. QED  BY <2>1, <3>1, <3>2, NotReadyStays
  <2>3. QED  BY <1>0, <2>1, <2>2 DEF RememberedAreWoken
<1>4. CASE Get(u)
  BY <1>1, <1>4, TakeResourceWakes, TakeErrorWakes, WakerIsLeft DEF Get
<1>5. CASE Poll(u)
  <2>1. CASE NotReady /\ future' = [future EXCEPT ![u] = "waiting"] /\ UNCHANGED <<entry, value, task, held>>
    BY <2>1, FutureGoesOn
  <2>2. QED  BY <1>1, <1>5, <2>1, TakeResourceWakes, TakeErrorWakes DEF Poll
<1>6. QED  BY <1>2, <1>3, <1>4, <1>5

\* No future sleeps with its waker in an entry that has an answer, whichever
\* task comes to give it, and however often the task is replaced (load.rs,
\* MultiWaker and CacheEntryTyped).
THEOREM NoFutureSleepsOn == Spec => []RememberedAreWoken
<1>1. Init => RememberedAreWoken
  BY DEF Init, NoEntry, RememberedAreWoken
<1>2. IInv /\ RememberedAreWoken /\ [Next]_vars => RememberedAreWoken'
  <2> SUFFICES ASSUME IInv, RememberedAreWoken, [Next]_vars PROVE RememberedAreWoken'
    OBVIOUS
  <2>1. CASE UNCHANGED <<entry, task, future, held>>
    BY <2>1 DEF RememberedAreWoken, NotReady, Alive, Held
  <2>2. CASE \E s \in Sources, c \in Contents \cup {None} : Change(s, c)
    BY <2>1, <2>2 DEF Change
  <2>3. CASE Receive
    BY <2>3, ReceiveWakes
  <2>4. CASE \E t \in Tasks : TaskStep(t)
    BY <2>4, TaskStepWakes
  <2>5. CASE \E u \in Users : Get(u) \/ Poll(u) \/ DropFuture(u) \/ Release(u)
    BY <2>5, UserStepWakes
  <2>6. QED  BY <2>1, <2>2, <2>3, <2>4, <2>5 DEF Next, vars
<1>3. QED  BY <1>1, <1>2, InductiveInvariant, PTL DEF Spec

-----------------------------------------------------------------------------
(* With fallbacks, a load may also begin in place of an error, and the     *)
(* future of a default be asked and polled; the rest is as before.         *)

\* An entry that a default is loaded into has nobody who holds its resource;
\* if it had a task, this had failed and is gone.
LEMMA StartDefaultKeeps ==
  ASSUME IInv, NEW u \in Users, NEW st \in {"woken", "waiting"}, NEW retry \in BOOLEAN,
         StartDefault(u, st, retry)
  PROVE  UserTypes' /\ Links' /\ RememberedAreWoken'
<1> USE DEF IInv
<1>1. PICK t : t = NewTask
  OBVIOUS
<1> DEFINE r == [Free EXCEPT !.phase = "loadWatch", !.at = NumSources, !.data = Default]
           rest == IF entry.task = None THEN task ELSE Without(entry.task)
<1>2. /\ Reloads(retry)
      /\ entry' = [kind |-> "loading", obj |-> None, task |-> t, wakers |-> {u}]
      /\ task' = [rest EXCEPT ![t] = r] /\ future' = [future EXCEPT ![u] = st]
      /\ UNCHANGED <<value, held>>
  BY <1>1 DEF StartDefault
<1>3. t \in Tasks /\ IsFree(t) /\ t # None
  BY <1>1, NewTaskIsFree, CacheAssumption DEF StartDefault
<1>4. r \in TaskRecord /\ r.phase = "loadWatch" /\ r.obj = None /\ r.cancelled = FALSE
  <2>1. NumSources \in Sources /\ Default \in Contents
    BY CacheAssumption, FallbacksAssumption DEF Sources
  <2>2. Free \in TaskRecord
    BY FreeIsRecord
  <2>3. QED  BY <2>1, <2>2 DEF TaskRecord, TaskPhases, Free
<1>5. /\ rest \in [Tasks -> TaskRecord]
      /\ \A x \in Tasks : \/ x = entry.task /\ rest[x] = Free
                          \/ /\ x # entry.task /\ rest[x].phase = task[x].phase
                             /\ rest[x].obj = task[x].obj /\ rest[x].cancelled = task[x].cancelled
  <2>1. CASE entry.task = None
    BY <2>1, CacheAssumption DEF TypeOK, TaskRecord
  <2>2. CASE entry.task # None
    <3>1. PICK d \in Tasks : d = entry.task
      BY <2>2 DEF TypeOK
    <3>2. rest = Without(d)
      BY <2>2, <3>1
    <3>3. QED  BY <3>1, <3>2, WithoutFacts
  <2>3. QED  BY <2>1, <2>2
<1> HIDE DEF r, rest
<1>6. /\ task' \in [Tasks -> TaskRecord] /\ task'[t] = r
      /\ \A x \in Tasks \ {t} : task'[x] = rest[x]
  BY <1>2, <1>3, <1>4, <1>5
<1>7. EntryHasItsTask'
  <2>1. entry'.kind = "loading" /\ entry'.task = t
    BY <1>2
  <2>2. ~IsFree(t)' /\ ~task'[t].cancelled /\ IsLoad(t)'
    BY <1>4, <1>6 DEF IsFree, IsLoad
  <2>3. ASSUME NEW x \in Tasks \ {t} PROVE IsFree(x)' \/ task'[x].cancelled
    BY <1>5, <1>6 DEF EntryHasItsTask, IsFree, Free
  <2>4. QED  BY <1>3, <2>1, <2>2, <2>3 DEF EntryHasItsTask
<1>8. EntryKnows'
  <2>1. \A o \in Objects : ~Held(o)
    BY <1>2, NobodyHolds, CacheAssumption DEF EntryKnows, Reloads
  <2>2. \A x \in Tasks : task'[x].obj \in {task[x].obj, None}
    BY <1>4, <1>5, <1>6 DEF Free
  <2>3. \A o \in Objects : ~Held(o)'
    BY <1>2, <2>1, <2>2, CacheAssumption DEF Held
  <2>4. QED  BY <1>2, <2>3 DEF EntryKnows
<1>9. WritersHold'
  BY <1>4, <1>5, <1>6 DEF WritersHold, Free
<1>10. RememberedAreWoken'
  BY <1>2, <1>4, <1>6 DEF RememberedAreWoken, NotReady
<1>11. QED
  BY <1>2, <1>3, <1>6, <1>7, <1>8, <1>9, <1>10 DEF UserTypes, TypeOK, Links

\* What the users' steps leave alone has the types it had.
LEMMA OnlyUserTypes ==
  ASSUME IInv, UNCHANGED <<sourceVars, watched, channel, meta>>, UserTypes'
  PROVE  TypeOK'
BY DEF IInv, UserTypes, TypeOK, TaskRecord, sourceVars

\* A future of which only the state changes.
LEMMA OnlyFuture ==
  ASSUME IInv, NEW u \in Users, NEW st \in {"idle", "woken", "waiting"},
         future' = [future EXCEPT ![u] = st], UNCHANGED <<entry, value, task, held>>
  PROVE  UserTypes' /\ Links'
<1>1. Links'
  BY NothingLinked DEF IInv, Links
<1>2. QED  BY <1>1 DEF IInv, UserTypes, TypeOK, TaskRecord

LEMMA FallbackKeeps ==
  ASSUME IInv, RememberedAreWoken, NEW u \in Users, UserStep(u)
  PROVE  IInv' /\ RememberedAreWoken'
<1>1. CASE GetPrimary(u) \/ PollPrimary(u) \/ DropAwaited(u) \/ ReleaseResource(u)
  <2>1. Get(u) \/ Poll(u) \/ DropFuture(u) \/ Release(u)
    BY <1>1 DEF GetPrimary, PollPrimary, DropAwaited, ReleaseResource
  <2>2. QED  BY <2>1, UserStepKeeps, UserStepWakes DEF IInv, Links
<1>2. CASE LoadDefault(u)
  <2>1. UNCHANGED <<sourceVars, watched, channel, meta>>
    BY <1>2 DEF LoadDefault
  <2>2. CASE TakeResource(u)
    BY <2>1, <2>2, TakeResourceKeeps, TakeResourceWakes, OnlyUserTypes DEF IInv, Links
  <2>3. CASE StartDefault(u, "woken", TRUE)
    BY <2>1, <2>3, StartDefaultKeeps, OnlyUserTypes DEF IInv, Links
  <2>4. CASE /\ entry' = [entry EXCEPT !.wakers = @ \cup {u}]
             /\ future' = [future EXCEPT ![u] = "woken"] /\ UNCHANGED <<value, task, held>>
    <3>1. /\ entry' = [entry EXCEPT !.wakers = entry.wakers \cup {u}]
          /\ entry.wakers \cup {u} \in SUBSET Users
      BY <2>4 DEF IInv, TypeOK
    <3>2. Links'
      BY <2>4, <3>1, OtherWakers
    <3>3. UserTypes'
      BY <2>4, <3>1 DEF IInv, UserTypes, TypeOK, TaskRecord
    <3>4. QED  BY <2>1, <2>4, <3>2, <3>3, WakerIsLeft, OnlyUserTypes DEF IInv, Links
  <2>5. QED  BY <1>2, <2>2, <2>3, <2>4 DEF LoadDefault
<1>3. CASE PollDefault(u)
  <2>1. UNCHANGED <<sourceVars, watched, channel, meta>>
    BY <1>3 DEF PollDefault
  <2>2. CASE TakeResource(u)
    BY <2>1, <2>2, TakeResourceKeeps, TakeResourceWakes, OnlyUserTypes DEF IInv, Links
  <2>3. CASE TakeError(u)
    BY <2>1, <2>3, TakeErrorKeeps, TakeErrorWakes, OnlyUserTypes DEF IInv, Links
  <2>4. CASE StartDefault(u, "waiting", FALSE)
    BY <2>1, <2>4, StartDefaultKeeps, OnlyUserTypes DEF IInv, Links
  <2>5. CASE /\ NotReady /\ future' = [future EXCEPT ![u] = "waiting"]
             /\ UNCHANGED <<entry, value, task, held>>
    BY <2>1, <2>5, OnlyFuture, FutureGoesOn, OnlyUserTypes DEF IInv, Links
  <2>6. QED  BY <1>3, <2>2, <2>3, <2>4, <2>5 DEF PollDefault
<1>4. CASE GetOther(u) \/ PollOther(u)
  <2>1. /\ UNCHANGED <<sourceVars, watched, channel, meta, entry, value, task, held>>
        /\ \/ future' = [future EXCEPT ![u] = "woken"]
           \/ future' = [future EXCEPT ![u] = "idle"]
    BY <1>4 DEF GetOther, PollOther
  <2>2. QED  BY <2>1, OnlyFuture, FutureGoesOn, OnlyUserTypes DEF IInv, Links
<1>5. CASE ReleaseOther(u)
  <2>1. UNCHANGED vars
    BY <1>5 DEF ReleaseOther
  <2>2. Links'
    BY <2>1, NothingLinked DEF IInv, Links, vars
  <2>3. QED  BY <2>1, <2>2 DEF IInv, Links, TypeOK, vars, RememberedAreWoken, NotReady, Alive, Held
<1>6. QED  BY <1>1, <1>2, <1>3, <1>4, <1>5 DEF UserStep

LEMMA FuturesNextKeeps ==
  ASSUME IInv, RememberedAreWoken, [FuturesNext]_futureVars
  PROVE  IInv' /\ RememberedAreWoken'
<1>1. CASE CacheStep
  <2>1. ASSUME NEW s \in Sources, NEW c \in (Contents \ {Default}) \cup {None}, Change(s, c)
        PROVE  IInv' /\ RememberedAreWoken'
    <3>1. UNCHANGED <<entry, task, future, held>>
      BY <2>1 DEF Change
    <3>2. RememberedAreWoken'
      BY <3>1 DEF RememberedAreWoken, NotReady, Alive, Held
    <3>3. QED  BY <2>1, <3>2, ChangeKeeps DEF IInv, Links
  <2>2. CASE Receive
    BY <2>2, ReceiveKeeps, ReceiveWakes DEF IInv, Links
  <2>3. CASE \E t \in Tasks : TaskStep(t)
    BY <2>3, TaskStepKeeps, TaskStepWakes DEF IInv, Links
  <2>4. QED  BY <1>1, <2>1, <2>2, <2>3 DEF CacheStep
<1>2. CASE \E u \in Users : UserStep(u)
  BY <1>2, FallbackKeeps
<1>3. CASE UNCHANGED futureVars
  <2>1. UNCHANGED vars
    BY <1>3 DEF futureVars
  <2>2. Links'
    BY <2>1, NothingLinked DEF IInv, Links, vars
  <2>3. QED  BY <2>1, <2>2 DEF IInv, Links, TypeOK, vars, RememberedAreWoken, NotReady, Alive, Held
<1>4. QED  BY <1>1, <1>2, <1>3 DEF FuturesNext

\* What holds of the cache holds of it with futures that have fallbacks, too:
\* the entry and its task, the one object, and the wakers (future.rs and
\* Cache::load_default).
THEOREM FallbacksKeepTheCache ==
  FuturesSpec => [](EntryHasItsTask /\ OneValue /\ RememberedAreWoken)
<1>1. FuturesInit => IInv /\ RememberedAreWoken
  <2>1. Init => RememberedAreWoken
    BY DEF Init, NoEntry, RememberedAreWoken
  <2>2. QED  BY <2>1, InitEstablishes DEF FuturesInit
<1>2. IInv /\ RememberedAreWoken /\ [FuturesNext]_futureVars => (IInv /\ RememberedAreWoken)'
  BY FuturesNextKeeps
<1>3. IInv => EntryHasItsTask /\ OneValue
  BY OneIsInUse DEF IInv
<1>4. QED  BY <1>1, <1>2, <1>3, PTL DEF FuturesSpec

-----------------------------------------------------------------------------
(* Defaults.  A default gets into an object by a load that has all sources *)
(* watch first; it leaves it by an update, which changes who watches just  *)
(* before it writes.  Between the two, that update is the reason why not   *)
(* all of them have to watch.                                              *)

SourcesLackDefault == \A s \in Sources : content[s] # Default

\* The loads of a default, from the last source on.
DefaultsLoad ==
  \A t \in Tasks : task[t].data = Default =>
    task[t].phase \in {"loadWatch", "loadParse", "done"} /\ task[t].at = NumSources

\* Since such a load had the sources watch, nobody else has had a say.
LoadsWatch ==
  \A t \in Tasks :
    (task[t].data = Default /\ task[t].phase \in {"loadParse", "done"} /\ ~task[t].cancelled /\ ~strayed)
      => watched = Sources

\* An update is about to write.
Writing(t) == task[t].phase = "write" /\ ~task[t].cancelled

StandInsWatched ==
  \A o \in Objects : (Alive(o) /\ value[o] = Default /\ ~strayed)
    => watched = Sources \/ \E t \in Tasks : Writing(t)

GiveWay ==
  /\ strayed \in BOOLEAN
  /\ SourcesLackDefault /\ DefaultsLoad /\ LoadsWatch /\ StandInsWatched

\* A task that has a default had it before, or has just begun to load it.
LikeBefore(t) ==
  task'[t].data = Default =>
    \/ task'[t].phase = "loadWatch" /\ task'[t].at = NumSources
    \/ /\ task[t].data = Default /\ task'[t].at = task[t].at
       /\ task'[t].phase = task[t].phase \/ (task[t].phase = "loadParse" /\ task'[t].phase = "done")
       /\ task[t].cancelled => task'[t].cancelled

\* A step that makes no stand-in, but for a load that had all sources watch,
\* and ends no update that is about to write.
LEMMA NoNewStandIn ==
  ASSUME GiveWay, UNCHANGED <<content, watched>>, strayed' \in BOOLEAN, ~strayed' => ~strayed,
         \A t \in Tasks : LikeBefore(t),
         \A t \in Tasks : (Writing(t) /\ ~strayed') => Writing(t)',
         \A o \in Objects : (Alive(o)' /\ value'[o] = Default /\ ~strayed')
           => (Alive(o) /\ value[o] = Default) \/ watched = Sources
  PROVE  GiveWay'
<1>1. SourcesLackDefault'
  BY DEF GiveWay, SourcesLackDefault
<1>2. DefaultsLoad'
  BY DEF GiveWay, DefaultsLoad, LikeBefore
<1>3. LoadsWatch'
  BY DEF GiveWay, LoadsWatch, LikeBefore
<1>4. StandInsWatched'
  BY DEF GiveWay, StandInsWatched
<1>5. QED  BY <1>1, <1>2, <1>3, <1>4 DEF GiveWay

\* The same objects are in use, or fewer.
LEMMA NoMoreAlive ==
  ASSUME entry'.kind = "loaded" => entry.kind = "loaded" /\ entry'.obj = entry.obj,
         \A u \in Users : held'[u] \in {held[u], None} \/ (held'[u] = entry.obj /\ Alive(entry.obj)),
         \A t \in Tasks : task'[t].obj \in {task[t].obj, None}
  PROVE  \A o : Alive(o)' => Alive(o)
BY DEF Alive, Held

\* Tasks of which one goes on, with data that is no default.
LEMMA OneGoesOn ==
  ASSUME IInv, GiveWay, NEW t \in Tasks, NEW r \in TaskRecord, Set(t, r),
         r.data = Default => /\ task[t].data = Default /\ r.at = task[t].at
                             /\ r.phase = "loadParse" => task[t].phase = "loadParse"
                             /\ r.phase = "done" => task[t].phase = "loadParse"
                             /\ r.phase \in {"loadParse", "done"}
                             /\ r.cancelled = task[t].cancelled,
         task[t].phase # "write"
  PROVE  /\ task'[t] = r
         /\ \A x \in Tasks : LikeBefore(x) /\ (Writing(x) => Writing(x)')
<1>1. task'[t] = r /\ \A x \in Tasks \ {t} : task'[x] = task[x]
  BY SetFacts DEF IInv
<1>2. \A x \in Tasks : LikeBefore(x)
  BY <1>1 DEF LikeBefore
<1>3. \A x \in Tasks : Writing(x) => Writing(x)'
  BY <1>1 DEF Writing
<1>4. QED  BY <1>1, <1>2, <1>3

\* Tasks of which one is gone that was not about to write.
LEMMA OneIsGone ==
  ASSUME IInv, GiveWay, NEW t \in Tasks, task' = Without(t), ~Writing(t)
  PROVE  /\ \A x \in Tasks : task'[x].obj \in {task[x].obj, None}
         /\ \A x \in Tasks : LikeBefore(x) /\ (Writing(x) => Writing(x)')
<1>1. task'[t] = Free /\ \A x \in Tasks \ {t} : /\ task'[x].phase = task[x].phase
                                                /\ task'[x].at = task[x].at
                                                /\ task'[x].data = task[x].data
                                                /\ task'[x].obj = task[x].obj
                                                /\ task'[x].cancelled = task[x].cancelled
  BY WithoutFacts DEF IInv
<1>2. Free.data # Default /\ Free.obj = None
  BY CacheAssumption, FallbacksAssumption DEF Free
<1>3. \A x \in Tasks : LikeBefore(x)
  BY <1>1, <1>2 DEF LikeBefore
<1>4. \A x \in Tasks : Writing(x) => Writing(x)'
  BY <1>1 DEF Writing
<1>5. \A x \in Tasks : task'[x].obj \in {task[x].obj, None}
  BY <1>1, <1>2
<1>6. QED  BY <1>3, <1>4, <1>5

\* Whoever is in use when a task, not the load of the entry, is there.
LEMMA UpdateHasEntry ==
  ASSUME IInv, NEW t \in Tasks, ~IsFree(t), ~task[t].cancelled
  PROVE  /\ entry.task = t
         /\ \A x \in Tasks \ {t} : IsFree(x) \/ task[x].cancelled
         /\ IsLoad(t) => \A o \in Objects : ~Alive(o)
<1>1. entry.task = t /\ \A x \in Tasks \ {t} : IsFree(x) \/ task[x].cancelled
  BY DEF IInv, EntryHasItsTask
<1>2. ASSUME IsLoad(t) PROVE \A o \in Objects : ~Alive(o)
  <2>1. entry.kind = "loading"
    BY <1>1, <1>2, CacheAssumption DEF IInv, EntryHasItsTask
  <2>2. QED  BY <2>1, CacheAssumption DEF IInv, EntryKnows, Alive
<1>3. QED  BY <1>1, <1>2

LEMMA TaskStepGivesWay ==
  ASSUME IInv, GiveWay, NEW t \in Tasks, TaskStep(t),
         strayed' = IF task[t].phase \in {"loadWatch", "watch"} THEN task[t].cancelled ELSE strayed
  PROVE  GiveWay'
<1> USE DEF IInv, TaskPhases
<1>0. /\ TypeOK /\ task[t] \in TaskRecord /\ strayed \in BOOLEAN
      /\ task[t].data = Default => task[t].phase \in {"loadWatch", "loadParse", "done"}
  BY TaskIsRecord DEF GiveWay, DefaultsLoad
<1> DEFINE steady == task[t].phase \notin {"loadWatch", "watch"} /\ UNCHANGED <<content, watched>>
<1>1. ASSUME steady, UNCHANGED <<entry, value, held>>, task[t].phase # "write",
             NEW r \in TaskRecord, Set(t, r), r.obj \in {task[t].obj, None}, r.data # Default
      PROVE  GiveWay'
  <2>1. task'[t] = r /\ \A x \in Tasks : LikeBefore(x) /\ (Writing(x) => Writing(x)')
    BY <1>1, OneGoesOn
  <2>2. \A x \in Tasks : task'[x].obj \in {task[x].obj, None}
    BY <1>0, <1>1, SetFacts
  <2>3. \A o : Alive(o)' => Alive(o)
    BY <1>1, <2>2, NoMoreAlive
  <2>4. QED  BY <1>0, <1>1, <2>1, <2>3, NoNewStandIn
<1>2. ASSUME steady, UNCHANGED <<entry, value, held>>, task[t].cancelled, task' = Without(t)
      PROVE  GiveWay'
  <2>1. /\ \A x \in Tasks : task'[x].obj \in {task[x].obj, None}
        /\ \A x \in Tasks : LikeBefore(x) /\ (Writing(x) => Writing(x)')
    BY <1>2, OneIsGone DEF Writing
  <2>2. \A o : Alive(o)' => Alive(o)
    BY <1>2, <2>1, NoMoreAlive
  <2>3. QED  BY <1>0, <1>2, <2>1, <2>2, NoNewStandIn
<1>3. ASSUME steady, NEW e, End(t, e), UNCHANGED held, task[t].phase # "write",
             \A o \in Objects : (Alive(o)' /\ value'[o] = Default) => Alive(o) /\ value[o] = Default
      PROVE  GiveWay'
  <2>1. \A x \in Tasks : LikeBefore(x) /\ (Writing(x) => Writing(x)')
    BY <1>3, OneIsGone DEF Writing, End
  <2>2. QED  BY <1>0, <1>3, <2>1, NoNewStandIn
<1>4. ASSUME NEW e, End(t, e), UNCHANGED held, task[t].phase # "write", e.kind = "loaded" => e.obj = task[t].obj
      PROVE  \A o : Alive(o)' => Alive(o)
  <2>1. \A x \in Tasks : task'[x].obj \in {task[x].obj, None}
    BY <1>4, OneIsGone DEF Writing, End
  <2>2. QED  BY <1>4, <2>1 DEF Alive, Held, End
<1>5. CASE FindData(t)
  <2> DEFINE load == task[t].phase = "loadFind"
             found == [task[t] EXCEPT !.data = content[task[t].at],
                                      !.phase = IF load THEN "loadMeta" ELSE "meta"]
             next == [task[t] EXCEPT !.at = task[t].at + 1]
             gaveUp == [task[t] EXCEPT !.phase = "fail"]
             over == [task[t] EXCEPT !.phase = "failed"]
  <2>1. /\ UNCHANGED <<sourceVars, watched, entry, value, held>>
        /\ task[t].phase \in {"loadFind", "find"} /\ task[t].at \in Sources
    BY <1>0, <1>5 DEF FindData, TaskRecord
  <2>2. steady
    BY <2>1 DEF sourceVars
  <2>3. CASE Has(task[t].at)
    <3>1. Set(t, found)
      BY <1>5, <2>3 DEF FindData
    <3>2. content[task[t].at] \in Contents \cup {None} /\ content[task[t].at] # Default
      BY <1>0, <2>1 DEF GiveWay, SourcesLackDefault, TypeOK
    <3>3. found \in TaskRecord /\ found.data # Default /\ found.obj = task[t].obj
      BY <1>0, <3>2 DEF TaskRecord
    <3> HIDE DEF found
    <3>4. QED  BY <1>1, <2>1, <2>2, <3>1, <3>3
  <2>4. CASE ~Has(task[t].at) /\ task[t].at < NumSources
    <3>1. Set(t, next)
      BY <1>5, <2>4 DEF FindData
    <3>2. task[t].at + 1 \in Sources
      BY <2>1, <2>4, CacheAssumption DEF Sources
    <3>3. next \in TaskRecord /\ next.data # Default /\ next.obj = task[t].obj
      BY <1>0, <2>1, <3>2 DEF TaskRecord
    <3> HIDE DEF next
    <3>4. QED  BY <1>1, <2>1, <2>2, <3>1, <3>3
  <2>5. CASE ~Has(task[t].at) /\ ~ (task[t].at < NumSources) /\ ~load
    <3>1. Set(t, gaveUp)
      BY <1>5, <2>5 DEF FindData
    <3>2. gaveUp \in TaskRecord /\ gaveUp.data # Default /\ gaveUp.obj = task[t].obj
      BY <1>0, <2>1 DEF TaskRecord
    <3> HIDE DEF gaveUp
    <3>3. QED  BY <1>1, <2>1, <2>2, <3>1, <3>2
  <2>6. CASE ~Has(task[t].at) /\ ~ (task[t].at < NumSources) /\ load
    <3>1. Complete(t, "failed")
      BY <1>5, <2>6 DEF FindData
    <3>2. CASE task[t].cancelled
      BY <1>2, <2>1, <2>2, <3>1, <3>2 DEF Complete
    <3>3. CASE ~task[t].cancelled
      <4>1. Set(t, over)
        BY <3>1, <3>3 DEF Complete
      <4>2. over \in TaskRecord /\ over.data # Default /\ over.obj = task[t].obj
        BY <1>0, <2>1 DEF TaskRecord
      <4> HIDE DEF over
      <4>3. QED  BY <1>1, <2>1, <2>2, <4>1, <4>2
    <3>4. QED  BY <3>2, <3>3
  <2>7. QED  BY <2>3, <2>4, <2>5, <2>6
<1>6. CASE UpdateMetadata(t)
  <2> DEFINE r == [task[t] EXCEPT !.phase = IF @ = "loadMeta" THEN "loadWatch" ELSE "commit"]
  <2>1. /\ Set(t, r) /\ UNCHANGED <<sourceVars, watched, entry, value, held>>
        /\ task[t].phase \in {"loadMeta", "meta"}
    BY <1>6 DEF UpdateMetadata
  <2>2. r \in TaskRecord /\ r.data # Default /\ r.obj = task[t].obj
    BY <1>0, <2>1 DEF TaskRecord
  <2> HIDE DEF r
  <2>3. QED  BY <1>1, <2>1, <2>2 DEF sourceVars
<1>7. CASE WatchLoaded(t)
  <2>1. /\ Set(t, [task[t] EXCEPT !.phase = "loadParse"]) /\ watched' = 1..task[t].at
        /\ UNCHANGED <<sourceVars, entry, value, held>> /\ task[t].phase = "loadWatch"
    BY <1>7 DEF WatchLoaded
  <2>2. /\ task'[t].phase = "loadParse" /\ task'[t].at = task[t].at /\ task'[t].data = task[t].data
        /\ task'[t].obj = task[t].obj /\ task'[t].cancelled = task[t].cancelled
        /\ \A x \in Tasks \ {t} : task'[x] = task[x]
    BY <1>0, <2>1 DEF Set, TypeOK, TaskRecord
  <2>3. SourcesLackDefault' /\ DefaultsLoad'
    BY <2>1, <2>2 DEF GiveWay, SourcesLackDefault, DefaultsLoad, sourceVars
  <2>4. (strayed' <=> task[t].cancelled) /\ strayed' \in BOOLEAN
    BY <1>0, <2>1 DEF TaskRecord
  <2>5. CASE task[t].cancelled
    BY <2>3, <2>4, <2>5 DEF GiveWay, LoadsWatch, StandInsWatched
  <2>6. CASE ~task[t].cancelled
    <3>1. /\ \A x \in Tasks \ {t} : IsFree(x) \/ task[x].cancelled
          /\ \A o \in Objects : ~Alive(o)
      BY <2>1, <2>6, UpdateHasEntry DEF IsFree, IsLoad
    <3>2. \A o : Alive(o)' => Alive(o)
      <4>1. \A x \in Tasks : task'[x].obj \in {task[x].obj, None}
        BY <2>2
      <4>2. QED  BY <2>1, <4>1, NoMoreAlive
    <3>3. StandInsWatched'
      BY <3>1, <3>2 DEF StandInsWatched
    <3>4. LoadsWatch'
      BY <2>1, <2>2, <3>1 DEF LoadsWatch, GiveWay, DefaultsLoad, IsFree, Sources
    <3>5. QED  BY <2>3, <2>4, <3>3, <3>4 DEF GiveWay
  <2>7. QED  BY <2>5, <2>6
<1>8. CASE Parse(t)
  <2> DEFINE r == [task[t] EXCEPT !.phase = "done"]
  <2>1. /\ Complete(t, "done") /\ UNCHANGED <<sourceVars, watched, entry, value, held>>
        /\ task[t].phase = "loadParse"
    BY <1>8 DEF Parse
  <2>2. CASE task[t].cancelled
    BY <1>2, <2>1, <2>2 DEF Complete, sourceVars
  <2>3. CASE ~task[t].cancelled
    <3>1. Set(t, r)
      BY <2>1, <2>3 DEF Complete
    <3>2. /\ r \in TaskRecord /\ r.phase = "done" /\ r.data = task[t].data /\ r.obj = task[t].obj
          /\ r.at = task[t].at /\ r.cancelled = task[t].cancelled
      BY <1>0 DEF TaskRecord
    <3> HIDE DEF r
    <3>3. \A x \in Tasks : LikeBefore(x) /\ (Writing(x) => Writing(x)')
      BY <2>1, <3>1, <3>2, OneGoesOn
    <3>4. \A x \in Tasks : task'[x].obj \in {task[x].obj, None}
      BY <1>0, <3>1, <3>2, SetFacts
    <3>5. \A o : Alive(o)' => Alive(o)
      BY <2>1, <3>4, NoMoreAlive
    <3>6. QED  BY <1>0, <2>1, <3>3, <3>5, NoNewStandIn DEF sourceVars
  <2>4. QED  BY <2>2, <2>3
<1>9. CASE AwaitPrevious(t)
  <2> DEFINE r == [task[t] EXCEPT !.phase = "find"]
  <2>1. /\ Set(t, r) /\ UNCHANGED <<sourceVars, watched, entry, value, held>> /\ task[t].phase = "await"
    BY <1>9 DEF AwaitPrevious
  <2>2. r \in TaskRecord /\ r.data # Default /\ r.obj = task[t].obj
    BY <1>0, <2>1 DEF TaskRecord
  <2> HIDE DEF r
  <2>3. QED  BY <1>1, <2>1, <2>2 DEF sourceVars
<1>10. CASE Fail(t)
  <2>1. /\ End(t, Entered("value", entry.obj)) /\ UNCHANGED <<sourceVars, watched, value, held>>
        /\ task[t].phase = "fail"
    BY <1>10 DEF Fail
  <2>2. \A o : Alive(o)' => Alive(o)
    BY <1>4, <2>1 DEF Entered
  <2>3. QED  BY <1>3, <2>1, <2>2 DEF sourceVars
<1>11. CASE Finish(t)
  <2>1. /\ End(t, Entered(IF entry.wakers # {} THEN "loaded" ELSE "value", task[t].obj))
        /\ UNCHANGED <<sourceVars, watched, value, held>> /\ task[t].phase = "finish"
    BY <1>11 DEF Finish
  <2>2. \A o : Alive(o)' => Alive(o)
    BY <1>4, <2>1 DEF Entered
  <2>3. QED  BY <1>3, <2>1, <2>2 DEF sourceVars
<1>12. CASE Commit(t)
  <2>0. /\ UNCHANGED <<sourceVars, watched, held>> /\ task[t].phase = "commit"
        /\ task[t].data # Default
    BY <1>0, <1>12 DEF Commit
  <2>1. CASE Alive(entry.obj)
    <3> DEFINE r == [task[t] EXCEPT !.phase = "watch", !.obj = entry.obj]
    <3>1. Set(t, r) /\ UNCHANGED <<entry, value>>
      BY <1>12, <2>1 DEF Commit
    <3>2. r \in TaskRecord /\ r.data # Default /\ r.obj = entry.obj
      BY <1>0, <2>0 DEF TaskRecord, TypeOK
    <3> HIDE DEF r
    <3>3. \A x \in Tasks : LikeBefore(x) /\ (Writing(x) => Writing(x)')
      BY <2>0, <3>1, <3>2, OneGoesOn
    <3>4. \A x \in Tasks : task'[x].obj \in {task[x].obj, entry.obj}
      BY <1>0, <3>1, <3>2, SetFacts
    <3>5. \A o \in Objects : Alive(o)' => Alive(o)
      BY <2>0, <2>1, <3>1, <3>4 DEF Alive, Held
    <3>6. QED  BY <1>0, <2>0, <3>1, <3>3, <3>5, NoNewStandIn DEF sourceVars
  <2>2. CASE ~Alive(entry.obj) /\ entry.wakers # {}
    <3>1. /\ value' = [value EXCEPT ![NewObject] = task[t].data]
          /\ End(t, Entered("loaded", NewObject))
      BY <1>12, <2>2 DEF Commit, HandleExpired
    <3>2. \A x \in Tasks : task'[x].obj \in {task[x].obj, None}
      BY <2>0, <3>1, OneIsGone DEF Writing, End
    <3>3. \A o \in Objects : ~Held(o)
      BY <2>2, NobodyHolds
    <3>4. \A o \in Objects : Alive(o)' => o = NewObject
      BY <2>0, <3>1, <3>2, <3>3 DEF Alive, Held, End, Entered
    <3>5. \A o \in Objects : Alive(o)' => value'[o] # Default
      BY <1>0, <2>0, <3>1, <3>4 DEF TypeOK
    <3>6. QED  BY <1>3, <2>0, <3>1, <3>5 DEF sourceVars
  <2>3. CASE ~Alive(entry.obj) /\ entry.wakers = {}
    <3>1. UNCHANGED value /\ End(t, NoEntry)
      BY <1>12, <2>3 DEF Commit, HandleExpired
    <3>2. \A o : Alive(o)' => Alive(o)
      BY <1>4, <2>0, <3>1 DEF NoEntry
    <3>3. QED  BY <1>3, <2>0, <3>1, <3>2 DEF sourceVars
  <2>4. QED  BY <2>1, <2>2, <2>3
<1>13. CASE WatchUpdated(t)
  <2>1. /\ Set(t, [task[t] EXCEPT !.phase = "write"]) /\ UNCHANGED sourceVars /\ task[t].phase = "watch"
    BY <1>13 DEF WatchUpdated
  <2>2. /\ task'[t].phase = "write" /\ task'[t].data = task[t].data
        /\ task'[t].cancelled = task[t].cancelled /\ task[t].data # Default
        /\ \A x \in Tasks \ {t} : task'[x] = task[x]
    BY <1>0, <2>1 DEF Set, TypeOK, TaskRecord
  <2>3. SourcesLackDefault' /\ DefaultsLoad'
    BY <2>1, <2>2 DEF GiveWay, SourcesLackDefault, DefaultsLoad, sourceVars
  <2>4. (strayed' <=> task[t].cancelled) /\ strayed' \in BOOLEAN
    BY <1>0, <2>1 DEF TaskRecord
  <2>5. CASE task[t].cancelled
    BY <2>3, <2>4, <2>5 DEF GiveWay, LoadsWatch, StandInsWatched
  <2>6. CASE ~task[t].cancelled
    <3>1. \A x \in Tasks \ {t} : IsFree(x) \/ task[x].cancelled
      BY <2>1, <2>6, UpdateHasEntry DEF IsFree
    <3>2. Writing(t)'
      BY <2>2, <2>6 DEF Writing
    <3>3. StandInsWatched'
      BY <3>2 DEF StandInsWatched
    <3>4. LoadsWatch'
      BY <2>2, <3>1 DEF LoadsWatch, IsFree
    <3>5. QED  BY <2>3, <2>4, <3>3, <3>4 DEF GiveWay
  <2>7. QED  BY <2>5, <2>6
<1>14. CASE Write(t)
  <2> DEFINE r == [task[t] EXCEPT !.phase = "finish"]
  <2>1. /\ value' = [value EXCEPT ![task[t].obj] = task[t].data] /\ Set(t, r)
        /\ UNCHANGED <<sourceVars, watched, entry, held>> /\ task[t].phase = "write"
    BY <1>14 DEF Write
  <2>2. r \in TaskRecord /\ r.phase = "finish" /\ r.data = task[t].data /\ r.obj = task[t].obj
    BY <1>0 DEF TaskRecord
  <2> HIDE DEF r
  <2>3. task'[t] = r /\ \A x \in Tasks \ {t} : task'[x] = task[x]
    BY <1>0, <2>1, <2>2, SetFacts
  <2>4. \A x \in Tasks : LikeBefore(x)
    BY <1>0, <2>1, <2>2, <2>3 DEF LikeBefore
  <2>5. \A o : Alive(o)' => Alive(o)
    <3>1. \A x \in Tasks : task'[x].obj \in {task[x].obj, None}
      BY <2>2, <2>3
    <3>2. QED  BY <2>1, <3>1, NoMoreAlive
  <2>6. \A o \in Objects : Alive(o)' => o = task[t].obj
    <3>1. task[t].obj \in Objects
      BY <1>0, <2>1 DEF TaskRecord, WritersHold
    <3>2. entry.obj = task[t].obj
      BY <3>1 DEF EntryKnows, Held
    <3>3. QED  BY <2>5, <3>2 DEF Alive, EntryKnows
  <2>7. \A o \in Objects : Alive(o)' => value'[o] # Default
    BY <1>0, <2>1, <2>6 DEF TypeOK
  <2>8. StandInsWatched'
    BY <2>7 DEF StandInsWatched
  <2>9. SourcesLackDefault' /\ DefaultsLoad' /\ LoadsWatch'
    BY <1>0, <2>1, <2>4
       DEF GiveWay, SourcesLackDefault, DefaultsLoad, LoadsWatch, LikeBefore, sourceVars
  <2>10. QED  BY <1>0, <2>1, <2>8, <2>9 DEF GiveWay
<1>15. CASE DropTask(t)
  BY <1>2, <1>15 DEF DropTask, sourceVars
<1>16. QED
  BY <1>5, <1>6, <1>7, <1>8, <1>9, <1>10, <1>11, <1>12, <1>13, <1>14, <1>15 DEF TaskStep

\* An update takes the place of another, which had registered watches but
\* not written yet, only if that is taken note of.
LEMMA ReceiveGivesWay ==
  ASSUME IInv, GiveWay, Receive, strayed' = (strayed \/ CutShort)
  PROVE  GiveWay'
<1> USE DEF IInv
<1>0. /\ strayed' \in BOOLEAN /\ ~strayed' => ~strayed /\ ~CutShort
      /\ UNCHANGED <<content, watched, value, held>>
  BY DEF GiveWay, Receive, sourceVars
<1>1. CASE UNCHANGED <<entry, task>>
  <2>1. \A x \in Tasks : LikeBefore(x) /\ (Writing(x) => Writing(x)')
    BY <1>1 DEF LikeBefore, Writing
  <2>2. \A o : Alive(o)' => Alive(o)
    BY <1>0, <1>1 DEF Alive, Held
  <2>3. QED  BY <1>0, <2>1, <2>2, NoNewStandIn
<1>2. ASSUME NEW idx, StartUpdate(idx)
      PROVE  GiveWay'
  <2>1. CASE entry' = NoEntry /\ UNCHANGED task
    <3>1. \A x \in Tasks : LikeBefore(x) /\ (Writing(x) => Writing(x)')
      BY <2>1 DEF LikeBefore, Writing
    <3>2. \A o : Alive(o)' => Alive(o)
      BY <1>0, <2>1 DEF Alive, Held, NoEntry
    <3>3. QED  BY <1>0, <3>1, <3>2, NoNewStandIn
  <2>2. CASE ~ (entry' = NoEntry /\ UNCHANGED task)
    <3>0. PICK t : t = NewTask
      OBVIOUS
    <3> DEFINE prev == entry.task
               first == Spawned(t, idx, IF entry.kind = "updating" THEN prev ELSE None)
    <3>1. /\ \E x \in Tasks : IsFree(x)
          /\ entry' = [kind |-> "updating", obj |-> Upgradable, task |-> t,
                       wakers |-> IF prev = None THEN {} ELSE entry.wakers]
          /\ task' = [x \in Tasks |-> IF x = t THEN first ELSE IF x = prev THEN Cancelled(x) ELSE task[x]]
      BY <1>2, <2>2, <3>0, Zenon DEF StartUpdate
    <3>2. t \in Tasks /\ IsFree(t)
      BY <3>0, <3>1, NewTaskIsFree
    <3>3. first.phase = "await" /\ first.data # Default /\ first.obj = None
      BY CacheAssumption, FallbacksAssumption DEF Spawned, Free
    <3>4. ASSUME NEW x \in Tasks
          PROVE  /\ Cancelled(x).data = Default => /\ task[x].data = Default
                                                   /\ Cancelled(x).at = task[x].at
                                                   /\ Cancelled(x).phase = task[x].phase
                                                   /\ Cancelled(x).cancelled
                 /\ Cancelled(x).obj \in {task[x].obj, None}
                 /\ task[x].phase = "write" => Cancelled(x).cancelled
      BY TaskIsRecord, CacheAssumption, FallbacksAssumption DEF Cancelled, TaskRecord, Free
    <3> HIDE DEF first
    <3>5. /\ task'[t] = first
          /\ \A x \in Tasks \ {t} : task'[x] = IF x = prev THEN Cancelled(x) ELSE task[x]
      BY <3>1, <3>2
    <3>6. \A x \in Tasks : LikeBefore(x)
      BY <3>3, <3>4, <3>5 DEF LikeBefore
    <3>7. ASSUME NEW x \in Tasks, Writing(x), ~strayed' PROVE Writing(x)'
      <4>1. x # t
        BY <3>2, <3>7 DEF Writing, IsFree
      <4>2. x # prev
        BY <1>0, <3>4, <3>5, <3>7, <4>1 DEF Writing, CutShort
      <4>3. QED  BY <3>5, <3>7, <4>1, <4>2 DEF Writing
    <3>8. \A o : Alive(o)' => Alive(o)
      <4>1. \A x \in Tasks : task'[x].obj \in {task[x].obj, None}
        BY <3>3, <3>4, <3>5
      <4>2. entry'.kind = "updating"
        BY <3>1
      <4>3. QED  BY <1>0, <4>1, <4>2, NoMoreAlive
    <3>9. QED  BY <1>0, <3>6, <3>7, <3>8, NoNewStandIn
  <2>3. QED  BY <2>1, <2>2
<1>3. QED  BY <1>1, <1>2 DEF Receive

\* What a user takes was there before, or was loaded.
LEMMA TakeGivesWay ==
  ASSUME IInv, GiveWay, NEW u \in Users, TakeResource(u) \/ TakeError(u),
         UNCHANGED <<content, watched, strayed>>
  PROVE  GiveWay'
<1> USE DEF IInv
<1>0. strayed' \in BOOLEAN /\ held \in [Users -> Objects \cup {None}]
  BY DEF GiveWay, TypeOK
<1>1. CASE TakeResource(u) /\ entry.kind # "loading"
  <2>1. /\ Alive(entry.obj) /\ Hold(u, entry.obj) /\ UNCHANGED <<value, task>>
        /\ entry'.kind = "loaded" => entry.kind = "loaded" /\ entry'.obj = entry.obj
    BY <1>1 DEF TakeResource, Entered
  <2>2. \A x \in Tasks : LikeBefore(x) /\ (Writing(x) => Writing(x)')
    BY <2>1 DEF LikeBefore, Writing
  <2>3. \A o : Alive(o)' => Alive(o)
    BY <1>0, <2>1, NoMoreAlive DEF Hold
  <2>4. QED  BY <1>0, <2>1, <2>2, <2>3, NoNewStandIn
<1>2. CASE entry.kind = "loading" /\ (TakeResource(u) \/ TakeError(u))
  <2>1. PICK t : t = entry.task
    OBVIOUS
  <2>2. /\ t \in Tasks /\ task' = Without(t) /\ task[t].phase \in {"done", "failed"}
        /\ ~task[t].cancelled
    BY <1>2, <2>1 DEF TakeResource, TakeError, EntryHasItsTask, TypeOK
  <2>3. /\ \A x \in Tasks : task'[x].obj \in {task[x].obj, None}
        /\ \A x \in Tasks : LikeBefore(x) /\ (Writing(x) => Writing(x)')
    BY <2>2, OneIsGone DEF Writing
  <2>4. \A o \in Objects : ~Alive(o)
    BY <2>2, UpdateHasEntry DEF IsFree, IsLoad
  <2>5. CASE TakeError(u)
    <3>1. UNCHANGED <<value, held>> /\ entry'.kind = "error"
      BY <1>2, <2>5 DEF TakeError, Entered
    <3>2. \A o : Alive(o)' => Alive(o)
      BY <2>3, <3>1, NoMoreAlive
    <3>3. QED  BY <1>0, <2>3, <2>4, <3>2, NoNewStandIn
  <2>6. CASE TakeResource(u)
    <3>1. PICK n \in Objects : n = NewObject
      BY NewObjectIsNew
    <3>2. /\ task[t].phase = "done" /\ held' = [held EXCEPT ![u] = n]
          /\ value' = [value EXCEPT ![n] = task[t].data]
          /\ entry'.kind = "value"
      BY <1>2, <2>1, <2>6, <3>1 DEF TakeResource, Hold, Entered
    <3>3. \A o \in Objects : Alive(o)' => o = n
      BY <1>0, <2>3, <2>4, <3>2 DEF Alive, Held
    <3>4. \A o \in Objects : (Alive(o)' /\ value'[o] = Default /\ ~strayed') => watched = Sources
      <4>1. value'[n] = task[t].data
        BY <3>2 DEF TypeOK
      <4>2. QED  BY <2>2, <3>2, <3>3, <4>1 DEF GiveWay, LoadsWatch
    <3>5. QED  BY <1>0, <2>3, <3>4, NoNewStandIn
  <2>7. QED  BY <1>2, <2>5, <2>6
<1>3. CASE TakeError(u) /\ entry.kind # "loading"
  <2>1. UNCHANGED <<entry, task, value, held>>
    BY <1>3 DEF TakeError
  <2>2. \A x \in Tasks : LikeBefore(x) /\ (Writing(x) => Writing(x)')
    BY <2>1 DEF LikeBefore, Writing
  <2>3. \A o : Alive(o)' => Alive(o)
    BY <2>1 DEF Alive, Held
  <2>4. QED  BY <1>0, <2>1, <2>2, <2>3, NoNewStandIn
<1>4. QED  BY <1>1, <1>2, <1>3

\* A load begins while nobody holds the resource, and a default's has all
\* sources watch next.
LEMMA StartGivesWay ==
  ASSUME IInv, GiveWay, NEW u \in Users, NEW st \in {"woken", "waiting"}, NEW retry \in BOOLEAN,
         StartLoad(u, st) \/ StartDefault(u, st, retry),
         UNCHANGED <<content, watched, strayed>>
  PROVE  GiveWay'
<1> USE DEF IInv
<1>0. strayed' \in BOOLEAN
  BY DEF GiveWay
<1>1. PICK t : t = NewTask
  OBVIOUS
<1> DEFINE rest == IF entry.task = None THEN task ELSE Without(entry.task)
           plain == [Free EXCEPT !.phase = "loadFind"]
           default == [Free EXCEPT !.phase = "loadWatch", !.at = NumSources, !.data = Default]
<1>2. /\ t \in Tasks /\ IsFree(t)
      /\ entry'.kind = "loading" /\ UNCHANGED <<value, held>>
      /\ entry.kind = "loading" => task[entry.task].phase = "failed"
      /\ entry.kind # "updating"
      /\ task' = [rest EXCEPT ![t] = plain] \/ task' = [rest EXCEPT ![t] = default]
  <2>1. CASE StartLoad(u, st)
    <3>1. entry.task = None
      BY <2>1 DEF StartLoad, EntryHasItsTask
    <3>2. QED  BY <1>1, <2>1, <3>1, NewTaskIsFree DEF StartLoad, Set
  <2>2. CASE StartDefault(u, st, retry)
    BY <1>1, <2>2, NewTaskIsFree DEF StartDefault, Reloads
  <2>3. QED  BY <2>1, <2>2
<1>3. /\ plain.data # Default /\ plain.obj = None /\ default.obj = None
      /\ default.phase = "loadWatch" /\ default.at = NumSources
  BY CacheAssumption, FallbacksAssumption DEF Free
<1> HIDE DEF plain, default
<1>4. /\ rest \in [Tasks -> TaskRecord]
      /\ \A x \in Tasks : \/ x = entry.task /\ rest[x] = Free
                          \/ /\ x # entry.task /\ rest[x].phase = task[x].phase
                             /\ rest[x].at = task[x].at /\ rest[x].data = task[x].data
                             /\ rest[x].obj = task[x].obj /\ rest[x].cancelled = task[x].cancelled
  <2>1. CASE entry.task = None
    BY <2>1, CacheAssumption DEF TypeOK, TaskRecord
  <2>2. CASE entry.task # None
    <3>1. PICK d \in Tasks : d = entry.task
      BY <2>2 DEF TypeOK
    <3>2. rest = Without(d)
      BY <2>2, <3>1
    <3>3. QED  BY <3>1, <3>2, WithoutFacts
  <2>3. QED  BY <2>1, <2>2
<1> HIDE DEF rest
<1>5. task'[t] \in {plain, default} /\ \A x \in Tasks \ {t} : task'[x] = rest[x]
  BY <1>2, <1>4
<1>6. Free.data # Default /\ Free.obj = None
  BY CacheAssumption, FallbacksAssumption DEF Free
<1>7. \A x \in Tasks : LikeBefore(x)
  BY <1>3, <1>4, <1>5, <1>6 DEF LikeBefore
<1>8. ASSUME NEW x \in Tasks, Writing(x) PROVE Writing(x)'
  <2>1. x # t /\ x # entry.task
    <3>1. entry.kind # "loading" => entry.task = None
      BY <1>2 DEF EntryHasItsTask
    <3>2. QED  BY <1>2, <1>8, <3>1, CacheAssumption DEF Writing, IsFree
  <2>2. QED  BY <1>4, <1>5, <1>8, <2>1 DEF Writing
<1>9. \A o : Alive(o)' => Alive(o)
  <2>1. \A x \in Tasks : task'[x].obj \in {task[x].obj, None}
    BY <1>3, <1>4, <1>5, <1>6
  <2>2. QED  BY <1>2, <2>1, NoMoreAlive
<1>10. QED  BY <1>0, <1>2, <1>7, <1>8, <1>9, NoNewStandIn

\* A user who waits, goes on to another adapter, or leaves.
LEMMA WaitGivesWay ==
  ASSUME IInv, GiveWay, UNCHANGED <<content, watched, strayed, value, task>>,
         entry'.kind = entry.kind, entry'.obj = entry.obj,
         \A u \in Users : held'[u] \in {held[u], None}
  PROVE  GiveWay'
<1>1. \A x \in Tasks : LikeBefore(x) /\ (Writing(x) => Writing(x)')
  BY DEF LikeBefore, Writing
<1>2. \A o : Alive(o)' => Alive(o)
  BY NoMoreAlive
<1>3. strayed' \in BOOLEAN
  BY DEF GiveWay
<1>4. QED  BY <1>1, <1>2, <1>3, NoNewStandIn

LEMMA UserStepGivesWay ==
  ASSUME IInv, GiveWay, NEW u \in Users, UserStep(u), UNCHANGED strayed
  PROVE  GiveWay'
<1>1. UNCHANGED <<content, watched>>
  BY DEF UserStep, GetPrimary, PollPrimary, LoadDefault, PollDefault, GetOther, PollOther,
         DropAwaited, ReleaseResource, ReleaseOther, Get, Poll, DropFuture, Release, sourceVars, vars
<1>2. CASE TakeResource(u) \/ TakeError(u)
  BY <1>1, <1>2, TakeGivesWay
<1>3. CASE StartLoad(u, "woken") \/ StartLoad(u, "waiting")
           \/ StartDefault(u, "woken", TRUE) \/ StartDefault(u, "waiting", FALSE)
  BY <1>1, <1>3, StartGivesWay
<1>4. CASE ~ (TakeResource(u) \/ TakeError(u) \/ StartLoad(u, "woken") \/ StartLoad(u, "waiting")
              \/ StartDefault(u, "woken", TRUE) \/ StartDefault(u, "waiting", FALSE))
  <2>1. /\ UNCHANGED <<value, task>> /\ entry'.kind = entry.kind /\ entry'.obj = entry.obj
        /\ \/ UNCHANGED held
           \/ held' = [held EXCEPT ![u] = None]
    BY <1>4 DEF UserStep, GetPrimary, PollPrimary, LoadDefault, PollDefault, GetOther, PollOther,
         DropAwaited, ReleaseResource, ReleaseOther, Get, Poll, DropFuture, Release, vars, IInv, TypeOK
  <2>2. \A w \in Users : held'[w] \in {held[w], None}
    BY <2>1 DEF IInv, TypeOK
  <2>3. QED  BY <1>1, <2>1, <2>2, WaitGivesWay
<1>5. QED  BY <1>2, <1>3, <1>4

\* The default of somebody who waits in vain for a source to have the
\* resource: while nothing is under way, all sources watch (load.rs,
\* load_default and start_load_task; resource/manager/future.rs).
THEOREM StandInsAreWatched == FuturesSpec => []DefaultsGiveWay
<1>1. FuturesInit => IInv /\ RememberedAreWoken /\ GiveWay
  <2> SUFFICES ASSUME FuturesInit PROVE IInv /\ RememberedAreWoken /\ GiveWay
    OBVIOUS
  <2>1. IInv /\ RememberedAreWoken
    BY InitEstablishes DEF FuturesInit, Init, NoEntry, RememberedAreWoken
  <2>2. Free.data # Default /\ Free.obj = None
    BY CacheAssumption, FallbacksAssumption DEF Free
  <2>3. SourcesLackDefault /\ DefaultsLoad /\ LoadsWatch
    BY <2>2, FallbacksAssumption DEF FuturesInit, Init, SourcesLackDefault, DefaultsLoad, LoadsWatch
  <2>4. \A o \in Objects : ~Alive(o)
    BY <2>2, CacheAssumption DEF FuturesInit, Init, NoEntry, Alive, Held
  <2>5. StandInsWatched /\ strayed \in BOOLEAN
    BY <2>4 DEF StandInsWatched, FuturesInit
  <2>6. QED  BY <2>1, <2>3, <2>5 DEF GiveWay
<1>2. IInv /\ RememberedAreWoken /\ GiveWay /\ [FuturesNext]_futureVars
        => (IInv /\ RememberedAreWoken /\ GiveWay)'
  <2> SUFFICES ASSUME IInv, RememberedAreWoken, GiveWay, [FuturesNext]_futureVars
               PROVE  (IInv /\ RememberedAreWoken /\ GiveWay)'
    OBVIOUS
  <2>1. (IInv /\ RememberedAreWoken)'
    BY FuturesNextKeeps
  <2>2. GiveWay'
    <3>1. ASSUME NEW s \in Sources, NEW c \in (Contents \ {Default}) \cup {None}, Change(s, c),
                 UNCHANGED strayed
          PROVE  GiveWay'
      <4>1. /\ UNCHANGED <<watched, entry, value, task, held>>
            /\ content' = [content EXCEPT ![s] = c]
        BY <3>1 DEF Change
      <4>2. SourcesLackDefault'
        BY <3>1, <4>1, CacheAssumption, FallbacksAssumption DEF SourcesLackDefault, GiveWay, IInv, TypeOK
      <4>3. QED
        BY <3>1, <4>1, <4>2
           DEF GiveWay, DefaultsLoad, LoadsWatch, StandInsWatched, Writing, Alive, Held
    <3>2. CASE Receive /\ strayed' = (strayed \/ CutShort)
      BY <3>2, ReceiveGivesWay
    <3>3. CASE \E t \in Tasks :
                 /\ TaskStep(t)
                 /\ strayed' = IF task[t].phase \in {"loadWatch", "watch"} THEN task[t].cancelled ELSE strayed
      BY <3>3, TaskStepGivesWay
    <3>4. CASE \E u \in Users : UserStep(u) /\ UNCHANGED strayed
      BY <3>4, UserStepGivesWay
    <3>5. CASE UNCHANGED futureVars
      BY <3>5, WaitGivesWay DEF futureVars, vars
    <3>6. QED  BY <3>1, <3>2, <3>3, <3>4, <3>5 DEF FuturesNext, CacheStep
  <2>3. QED  BY <2>1, <2>2
<1>3. IInv /\ GiveWay => DefaultsGiveWay
  <2> SUFFICES ASSUME IInv, GiveWay, NEW u \in Users, Settled, held[u] # None,
                      value[held[u]] = Default
               PROVE  watched = Sources \/ strayed
    BY DEF DefaultsGiveWay
  <2>1. held[u] \in Objects /\ Alive(held[u])
    BY DEF IInv, TypeOK, Alive, Held
  <2>2. \A t \in Tasks : ~Writing(t)
    BY DEF Settled, Writing, IsFree
  <2>3. QED  BY <2>1, <2>2 DEF GiveWay, StandInsWatched
<1>4. QED  BY <1>1, <1>2, <1>3, PTL DEF FuturesSpec
=============================================================================
