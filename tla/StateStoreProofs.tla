-------------------------- MODULE StateStoreProofs --------------------------
(***************************************************************************)
(* Proofs about StateStore, for any number of threads, processes, calls    *)
(* and faults: type correctness, that no file is ever found torn, and that *)
(* within one process every step is a step of AtomicStore and drops only   *)
(* what has been backed up.                                                *)
(***************************************************************************)
EXTENDS StateStore, TLAPS

Inside == {"again", "exists", "read", "backup", "open", "write", "replace", "release"}
Bound  == {"backup", "open", "write", "replace"}     \* mem[t] is what will be written

\* Whoever is inside holds the lock of its process, and the lock knows how often.
LockInv ==
    /\ \A t \in Threads : pc[t] \in Inside => lock[home[t]].owner = t
    /\ \A p \in Procs : \A t \in Threads : lock[p].owner = t => pc[t] \in Inside /\ home[t] = p
    /\ \A p \in Procs : lock[p].owner = None => lock[p].depth = 0
    /\ \A t \in Threads : pc[t] = "again" => lock[home[t]].depth = 1

\* What kind of call stands where.
CallInv ==
    \A t \in Threads :
        /\ pc[t] \in {"off", "idle"} <=> call[t].op = "none"
        /\ pc[t] = "again" => call[t].op = "append"
        /\ pc[t] = "exists" => call[t].op = "ensure"
        /\ pc[t] = "read" => call[t].op \in {"update", "append"}
        /\ pc[t] = "backup" => call[t].op = "update"
        /\ pc[t] = "release" <=> outcome[t] \in {"ok", "raised"}

\* A file that is no whole document reads as the default, and an open temporary
\* file belongs to a thread that is about to write it.
FileInv ==
    /\ \A f \in Files : /\ main[f].kind # "whole" => main[f].doc = Default(f)
                        /\ tmp[f].kind # "whole" => tmp[f].doc = Default(f)
    /\ \A f \in Files : \A t \in handles[f] : pc[t] = "write" /\ File(t) = f

\* A temporary file is torn only while it is open, unless a writer was cut off.
TornInv ==
    faults \cap {"disk", "kill"} = {} => \A f \in Files : tmp[f].kind = "torn" => handles[f] # {}

\* Within one process a writer replaces the file with its own document, ...
OwnInv ==
    OneProcess => \A t \in Threads : pc[t] = "replace" => tmp[File(t)] = FileOf("whole", mem[t])

\* ... which is the file as it is now with the fields of the call set.
FreshInv ==
    OneProcess /\ "unreadable" \notin faults =>
        \A t \in Threads : pc[t] \in Bound => mem[t] = Merged(main[File(t)].doc, call[t])

Invariant == TypeOK /\ LockInv /\ CallInv /\ FileInv /\ TornInv /\ NeverTorn /\ OwnInv /\ FreshInv

-----------------------------------------------------------------------------
(* The operators                                                           *)

\* Setting fields keeps the fields of a document.
LEMMA MergedType ==
  ASSUME NEW f \in Files, NEW doc \in [FieldsOf(f) -> Nat], NEW c, c.stamp \in Nat
  PROVE  Merged(doc, c) \in [FieldsOf(f) -> Nat]
  BY SMT DEF Merged

\* A call that sets nothing leaves a document as it is.
LEMMA MergedNothing ==
  ASSUME NEW f \in Files, NEW doc \in [FieldsOf(f) -> Nat], NEW c, c.fields = {}
  PROVE  Merged(doc, c) = doc
  BY SMT DEF Merged

\* The default document of a file has its fields.
LEMMA DefaultType == \A f \in Files : Default(f) \in [FieldsOf(f) -> Nat]
  BY SMT DEF Default

\* What is kept of the backups are backups.
LEMMA KeptType ==
  ASSUME NEW S, NEW s \in Seq(S)
  PROVE  Kept(s) \in Seq(S)
<1>1. CASE Len(s) > BackupKeep
  BY <1>1, StoreAssumption, SMT DEF Kept
<1>2. CASE ~(Len(s) > BackupKeep)
  BY <1>2 DEF Kept
<1> QED
  BY <1>1, <1>2

\* The call of a thread has the fields of its file.
LEMMA CallType ==
  ASSUME TypeOK, NEW t \in Threads
  PROVE  /\ File(t) \in Files /\ call[t].stamp \in Nat /\ home[t] \in Procs
         /\ call[t].op = "ensure" => call[t].fields = {}
         /\ call[t].op = "append" => File(t) = "SKILL.md"
         /\ call[t].op \in {"none", "update"} => File(t) = "STATE.md"
         /\ call[t].op \in {"none", "update", "append", "ensure"}
  BY StoreAssumption, SMT DEF TypeOK, CallsOf, File, Files

\* Leaving _ensure_files' first file goes on to the second one, in every other case
\* the call ends well.
LEMMA DoneFacts ==
  ASSUME TypeOK, NEW t \in Threads, NEW from, Done(t, from)
  PROVE  /\ pc[t] \in from
         /\ \A u \in Threads : u # t => /\ pc'[u] = pc[u] /\ call'[u] = call[u]
                                        /\ outcome'[u] = outcome[u]
         /\ \/ /\ pc'[t] = "exists" /\ outcome'[t] = outcome[t]
               /\ call[t].op = "ensure" /\ call'[t].op = "ensure" /\ call'[t].file = "SKILL.md"
            \/ /\ pc'[t] = "release" /\ outcome'[t] = "ok" /\ call'[t] = call[t]
         /\ pc' \in [Threads -> Places] /\ outcome' \in [Threads -> {None, "ok", "raised"}]
         /\ call' \in [Threads -> CallsOf({"none", "update"}, {"STATE.md"}, StateFields)
                              \cup CallsOf({"append"}, {"SKILL.md"}, Lessons)
                              \cup CallsOf({"ensure"}, Files, {})]
<1>1. CASE call[t].op = "ensure" /\ File(t) = "STATE.md"
  <2>1. pc[t] \in from /\ pc' = [pc EXCEPT ![t] = "exists"] /\ outcome' = outcome
        /\ call' = [call EXCEPT ![t] = [call[t] EXCEPT !.file = "SKILL.md"]]
    BY <1>1 DEF Done, Goes
  <2>2. call[t] \in CallsOf({"ensure"}, Files, {})
    BY <1>1, SMT DEF TypeOK, CallsOf
  <2>3. [call[t] EXCEPT !.file = "SKILL.md"] \in CallsOf({"ensure"}, Files, {})
    BY <2>2, SMT DEF CallsOf, Files
  <2>4. [call[t] EXCEPT !.file = "SKILL.md"].op = "ensure"
        /\ [call[t] EXCEPT !.file = "SKILL.md"].file = "SKILL.md"
    BY <1>1, <2>2, SMT DEF CallsOf
  <2> HIDE DEF CallsOf
  <2> QED
    BY <1>1, <2>1, <2>3, <2>4, SMT DEF TypeOK, Places
<1>2. CASE ~(call[t].op = "ensure" /\ File(t) = "STATE.md")
  <2>1. pc[t] \in from /\ pc' = [pc EXCEPT ![t] = "release"] /\ call' = call
        /\ outcome' = [outcome EXCEPT ![t] = "ok"]
    BY <1>2 DEF Done, Ends, Goes
  <2> QED
    BY <2>1, SMT DEF TypeOK, Places
<1> QED
  BY <1>1, <1>2

\* Only threads inside the lock have a document to write, one per process.
LEMMA OneWriter ==
  ASSUME TypeOK, LockInv, OneProcess, NEW t \in Threads, pc[t] \in Inside,
         NEW u \in Threads, pc[u] \in Inside
  PROVE  u = t
<1>1. home[t] = home[u] /\ home[t] \in Procs
  BY CallType DEF OneProcess
<1>2. lock[home[t]].owner = t /\ lock[home[u]].owner = u
  BY DEF LockInv
<1> QED
  BY <1>1, <1>2

-----------------------------------------------------------------------------
(* Every action keeps the invariant                                       *)

\* A new store only begins to look for its files.
LEMMA ConstructKeeps ==
  ASSUME Invariant, NEW t \in Threads, Construct(t)
  PROVE  Invariant'
<1>1. TypeOK'
  BY CallType, DefaultType, MergedType, StoreAssumption, SMTT(30)
     DEF Invariant, TypeOK, Construct, Goes, Calling, File, diskVars, faultVars, Places,
         FilesOf, CallsOf, Files, LockInv, CallInv
<1>2. LockInv'
  BY CallType, StoreAssumption, SMT
     DEF Invariant, TypeOK, Construct, Goes, Calling, File, diskVars, faultVars, LockInv,
         CallInv, Inside
<1>3. CallInv'
  BY CallType, StoreAssumption, SMT
     DEF Invariant, TypeOK, Construct, Goes, Calling, File, diskVars, faultVars, CallInv,
         LockInv, Inside, None
<1>4. FileInv'
  BY CallType, SMT
     DEF Invariant, TypeOK, Construct, Goes, Calling, File, diskVars, faultVars, FileInv,
         CallInv
<1>5. TornInv'
  BY CallType, SMT
     DEF Invariant, TypeOK, Construct, Goes, Calling, File, diskVars, faultVars, TornInv,
         FileInv
<1>6. NeverTorn'
  BY CallType, SMT
     DEF Invariant, TypeOK, Construct, Goes, Calling, File, diskVars, faultVars, NeverTorn,
         TornInv, OwnInv, OneProcess
<1>7. OwnInv'
  BY CallType, SMT
     DEF Invariant, TypeOK, Construct, Goes, Calling, File, diskVars, faultVars, OwnInv,
         OneProcess, LockInv, Inside
<1>8. FreshInv'
  BY CallType, MergedNothing, SMT
     DEF Invariant, TypeOK, Construct, Goes, Calling, File, diskVars, faultVars, FreshInv,
         OneProcess, LockInv, Inside, Bound, FileInv, CallInv
<1> QED
  BY <1>1, <1>2, <1>3, <1>4, <1>5, <1>6, <1>7, <1>8 DEF Invariant

\* A call that begins only waits for the lock.
LEMMA CallKeeps ==
  ASSUME Invariant, NEW t \in Threads, Call(t)
  PROVE  Invariant'
<1>1. TypeOK'
  BY CallType, DefaultType, MergedType, StoreAssumption, SMTT(30)
     DEF Invariant, TypeOK, Call, Goes, Calling, Accepts, File, diskVars, faultVars, Places,
         FilesOf, CallsOf, Files, LockInv, CallInv
<1>2. LockInv'
  BY CallType, StoreAssumption, SMT
     DEF Invariant, TypeOK, Call, Goes, Calling, Accepts, File, diskVars, faultVars, LockInv,
         CallInv, Inside
<1>3. CallInv'
  BY CallType, StoreAssumption, SMT
     DEF Invariant, TypeOK, Call, Goes, Calling, Accepts, File, diskVars, faultVars, CallInv,
         LockInv, Inside, None
<1>4. FileInv'
  BY CallType, SMT
     DEF Invariant, TypeOK, Call, Goes, Calling, Accepts, File, diskVars, faultVars, FileInv,
         CallInv
<1>5. TornInv'
  BY CallType, SMT
     DEF Invariant, TypeOK, Call, Goes, Calling, Accepts, File, diskVars, faultVars, TornInv,
         FileInv
<1>6. NeverTorn'
  BY CallType, SMT
     DEF Invariant, TypeOK, Call, Goes, Calling, Accepts, File, diskVars, faultVars, NeverTorn,
         TornInv, OwnInv, OneProcess
<1>7. OwnInv'
  BY CallType, SMT
     DEF Invariant, TypeOK, Call, Goes, Calling, Accepts, File, diskVars, faultVars, OwnInv,
         OneProcess, LockInv, Inside
<1>8. FreshInv'
  BY CallType, MergedNothing, SMT
     DEF Invariant, TypeOK, Call, Goes, Calling, Accepts, File, diskVars, faultVars, FreshInv,
         OneProcess, LockInv, Inside, Bound, FileInv, CallInv
<1> QED
  BY <1>1, <1>2, <1>3, <1>4, <1>5, <1>6, <1>7, <1>8 DEF Invariant

\* Only the owner of the lock enters it a second time.
LEMMA EnterKeeps ==
  ASSUME Invariant, NEW t \in Threads, Enter(t)
  PROVE  Invariant'
<1>1. TypeOK'
  <2>1. home[t] \in Procs /\ lock[home[t]].owner \in {None, t}
    BY CallType, SMT DEF Invariant, Enter, MayEnter
  <2>2. lock[home[t]].owner = t => pc[t] = "again"
    BY <2>1, SMT DEF Invariant, LockInv, Enter, Goes, Inside
  <2>3. lock[home[t]].depth \in 0..1
    BY <2>1, <2>2, SMT DEF Invariant, LockInv
  <2>4. [owner |-> t, depth |-> lock[home[t]].depth + 1] \in [owner : Threads \cup {None}, depth : 0..2]
    BY <2>3, SMT
  <2>5. lock' \in [Procs -> [owner : Threads \cup {None}, depth : 0..2]]
    BY <2>1, <2>4, SMT DEF Invariant, TypeOK, Enter
  <2>6. pc' \in [Threads -> Places]
    BY SMT DEF Invariant, TypeOK, Enter, Goes, Places
  <2>7. \A u \in Threads : pc'[u] \in Bound => pc[u] \in Bound
    BY SMT DEF Invariant, TypeOK, Enter, Goes, Bound
  <2> QED
    BY <2>5, <2>6, <2>7, SMT DEF Invariant, TypeOK, Enter, diskVars, faultVars, File, Bound
<1>2. LockInv'
  <2>1. lock' = [lock EXCEPT ![home[t]] = [owner |-> t, depth |-> lock[home[t]].depth + 1]]
    BY DEF Enter
  <2>2. lock'[home[t]].owner = t /\ lock'[home[t]].depth = lock[home[t]].depth + 1
        /\ \A p \in Procs : p # home[t] => lock'[p] = lock[p]
    BY <2>1, CallType, SMT DEF Invariant, TypeOK
  <2>3. pc'[t] \in Inside /\ home' = home /\ \A u \in Threads : u # t => pc'[u] = pc[u]
    BY SMT DEF Invariant, TypeOK, Enter, Goes, Inside
  <2>4. pc'[t] = "again" => pc[t] = "lock"
    BY CallType, SMT DEF Invariant, TypeOK, Enter, Goes, CallInv
  <2>5. pc[t] = "lock" => lock[home[t]].owner = None
    BY CallType, SMT DEF Invariant, LockInv, Enter, MayEnter, Inside
  <2>6. \A u \in Threads : u # t /\ home[u] = home[t] => pc[u] \notin Inside
    BY CallType, StoreAssumption, SMT DEF Invariant, LockInv, Enter, MayEnter
  <2>7. \A u \in Threads : home[u] \in Procs
    BY CallType DEF Invariant
  <2>8. \A u \in Threads : pc'[u] \in Inside => lock'[home'[u]].owner = u
    BY <2>2, <2>3, <2>6, <2>7, SMT DEF Invariant, LockInv
  <2>9. \A p \in Procs : \A u \in Threads : lock'[p].owner = u => pc'[u] \in Inside /\ home'[u] = p
    BY <2>2, <2>3, SMT DEF Invariant, LockInv
  <2>10. \A p \in Procs : lock'[p].owner = None => lock'[p].depth = 0
    <3>1. t # None
      BY StoreAssumption
    <3> QED
      BY <2>2, <3>1, SMT DEF Invariant, LockInv
  <2>11. \A u \in Threads : pc'[u] = "again" => lock'[home'[u]].depth = 1
    BY <2>2, <2>3, <2>4, <2>5, <2>6, <2>7, CallType, SMT DEF Invariant, LockInv, Inside
  <2> QED
    BY <2>8, <2>9, <2>10, <2>11 DEF LockInv
<1>3. CallInv'
  BY CallType, StoreAssumption, SMT
     DEF Invariant, TypeOK, Enter, Goes, MayEnter, File, diskVars, faultVars, CallInv, LockInv,
         Inside, None
<1>4. FileInv'
  BY CallType, SMT
     DEF Invariant, TypeOK, Enter, Goes, MayEnter, File, diskVars, faultVars, FileInv, CallInv
<1>5. TornInv'
  BY CallType, SMT
     DEF Invariant, TypeOK, Enter, Goes, MayEnter, File, diskVars, faultVars, TornInv, FileInv
<1>6. NeverTorn'
  BY CallType, SMT
     DEF Invariant, TypeOK, Enter, Goes, MayEnter, File, diskVars, faultVars, NeverTorn,
         TornInv, OwnInv, OneProcess
<1>7. OwnInv'
  BY CallType, SMT
     DEF Invariant, TypeOK, Enter, Goes, MayEnter, File, diskVars, faultVars, OwnInv,
         OneProcess, LockInv, Inside
<1>8. FreshInv'
  BY CallType, MergedNothing, SMT
     DEF Invariant, TypeOK, Enter, Goes, MayEnter, File, diskVars, faultVars, FreshInv,
         OneProcess, LockInv, Inside, Bound, FileInv, CallInv
<1> QED
  BY <1>1, <1>2, <1>3, <1>4, <1>5, <1>6, <1>7, <1>8 DEF Invariant

\* Leaving the lock gives it up whole, whoever entered it twice.
LEMMA ReleaseKeeps ==
  ASSUME Invariant, NEW t \in Threads, Release(t)
  PROVE  Invariant'
<1>1. TypeOK'
  BY CallType, DefaultType, MergedType, StoreAssumption, SMTT(30)
     DEF Invariant, TypeOK, Release, Goes, NoCall, Calling, File, diskVars, faultVars, Places,
         FilesOf, CallsOf, Files, LockInv, CallInv
<1>2. LockInv'
  BY CallType, StoreAssumption, SMT
     DEF Invariant, TypeOK, Release, Goes, NoCall, Calling, File, diskVars, faultVars, LockInv,
         CallInv, Inside
<1>3. CallInv'
  BY CallType, StoreAssumption, SMT
     DEF Invariant, TypeOK, Release, Goes, NoCall, Calling, File, diskVars, faultVars, CallInv,
         LockInv, Inside, None
<1>4. FileInv'
  BY CallType, SMT
     DEF Invariant, TypeOK, Release, Goes, NoCall, Calling, File, diskVars, faultVars, FileInv,
         CallInv
<1>5. TornInv'
  BY CallType, SMT
     DEF Invariant, TypeOK, Release, Goes, NoCall, Calling, File, diskVars, faultVars, TornInv,
         FileInv
<1>6. NeverTorn'
  BY CallType, SMT
     DEF Invariant, TypeOK, Release, Goes, NoCall, Calling, File, diskVars, faultVars,
         NeverTorn, TornInv, OwnInv, OneProcess
<1>7. OwnInv'
  BY CallType, SMT
     DEF Invariant, TypeOK, Release, Goes, NoCall, Calling, File, diskVars, faultVars, OwnInv,
         OneProcess, LockInv, Inside
<1>8. FreshInv'
  BY CallType, MergedNothing, SMT
     DEF Invariant, TypeOK, Release, Goes, NoCall, Calling, File, diskVars, faultVars,
         FreshInv, OneProcess, LockInv, Inside, Bound, FileInv, CallInv
<1> QED
  BY <1>1, <1>2, <1>3, <1>4, <1>5, <1>6, <1>7, <1>8 DEF Invariant

\* A file that exists is left alone.
LEMMA ExistsKeeps ==
  ASSUME Invariant, NEW t \in Threads, Exists(t)
  PROVE  Invariant'
<1>0. /\ pc[t] = "exists" /\ \A u \in Threads : u # t => /\ pc'[u] = pc[u] /\ call'[u] = call[u]
                                                      /\ outcome'[u] = outcome[u]
      /\ \/ /\ pc'[t] = "exists" /\ outcome'[t] = outcome[t]
            /\ call[t].op = "ensure" /\ call'[t].op = "ensure"
         \/ pc'[t] = "release" /\ outcome'[t] = "ok" /\ call'[t] = call[t]
  BY DoneFacts DEF Invariant, Exists
<1>1. TypeOK'
  <2>1. \A u \in Threads : pc'[u] \in Bound => u # t
    BY <1>0, SMT DEF Bound
  <2>2. \A u \in Threads : pc'[u] \in Bound => pc[u] \in Bound /\ File(u)' = File(u)
    BY <1>0, <2>1, SMT DEF File
  <2>3. mem' = mem /\ \A u \in Threads : pc'[u] \in Bound => mem'[u] \in [FieldsOf(File(u)') -> Nat]
    BY <2>2, SMT DEF Invariant, TypeOK, Exists, Bound
  <2> QED
    BY <2>3, DoneFacts, SMT DEF Invariant, TypeOK, Exists, diskVars, faultVars, Bound
<1>2. LockInv'
  BY <1>0, CallType, SMT DEF Invariant, Exists, LockInv, Inside
<1>3. CallInv'
  <2>1. pc'[t] \notin {"off", "idle", "again", "read", "backup"} /\ call[t].op # "none"
    BY <1>0, SMT DEF Invariant, CallInv
  <2> QED
    BY <1>0, <2>1, SMT DEF Invariant, CallInv
<1>4. FileInv'
  BY <1>0, SMT DEF Invariant, TypeOK, Exists, diskVars, FileInv, File
<1>5. TornInv'
  BY CallType, SMT
     DEF Invariant, TypeOK, Exists, Goes, Done, Ends, File, diskVars, faultVars, TornInv,
         FileInv
<1>6. NeverTorn'
  BY CallType, SMT
     DEF Invariant, TypeOK, Exists, Goes, Done, Ends, File, diskVars, faultVars, NeverTorn,
         TornInv, OwnInv, OneProcess
<1>7. OwnInv'
  <2>1. \A u \in Threads : pc'[u] = "replace" => pc[u] = "replace" /\ File(u)' = File(u)
    BY <1>0, SMT DEF File
  <2> QED
    BY <2>1, SMT DEF Invariant, Exists, diskVars, OwnInv, OneProcess, File
<1>8. FreshInv'
  <2>1. \A u \in Threads : pc'[u] \in Bound => pc[u] \in Bound /\ call'[u] = call[u]
    BY <1>0, SMT DEF Bound
  <2> QED
    BY <2>1, SMT DEF Invariant, Exists, diskVars, faultVars, FreshInv, OneProcess, File
<1> QED
  BY <1>1, <1>2, <1>3, <1>4, <1>5, <1>6, <1>7, <1>8 DEF Invariant

\* A missing file reads as the default, which is what is written.
LEMMA MissingKeeps ==
  ASSUME Invariant, NEW t \in Threads, Missing(t)
  PROVE  Invariant'
<1>1. TypeOK'
  BY CallType, DefaultType, MergedType, StoreAssumption, SMT
     DEF Invariant, TypeOK, Missing, Goes, File, diskVars, faultVars, Places, FilesOf, CallsOf,
         Files, LockInv, CallInv
<1>2. LockInv'
  BY CallType, StoreAssumption, SMT
     DEF Invariant, TypeOK, Missing, Goes, File, diskVars, faultVars, LockInv, CallInv, Inside
<1>3. CallInv'
  BY CallType, StoreAssumption, SMT
     DEF Invariant, TypeOK, Missing, Goes, File, diskVars, faultVars, CallInv, LockInv, Inside,
         None
<1>4. FileInv'
  BY CallType, SMT
     DEF Invariant, TypeOK, Missing, Goes, File, diskVars, faultVars, FileInv, CallInv
<1>5. TornInv'
  BY CallType, SMT
     DEF Invariant, TypeOK, Missing, Goes, File, diskVars, faultVars, TornInv, FileInv
<1>6. NeverTorn'
  BY CallType, SMT
     DEF Invariant, TypeOK, Missing, Goes, File, diskVars, faultVars, NeverTorn, TornInv,
         OwnInv, OneProcess
<1>7. OwnInv'
  BY CallType, SMT
     DEF Invariant, TypeOK, Missing, Goes, File, diskVars, faultVars, OwnInv, OneProcess,
         LockInv, Inside
<1>8. FreshInv'
  <2>1. File(t) \in Files /\ call[t].fields = {} /\ main[File(t)].doc = Default(File(t))
    BY CallType, SMT DEF Invariant, Missing, Goes, CallInv, FileInv
  <2>2. Merged(main[File(t)].doc, call[t]) = Default(File(t))
    BY <2>1, DefaultType, MergedNothing
  <2>3. mem'[t] = Default(File(t)) /\ \A u \in Threads : u # t => mem'[u] = mem[u] /\ pc'[u] = pc[u]
    BY SMT DEF Invariant, TypeOK, Missing, Goes
  <2>4. call' = call /\ main' = main /\ faults' = faults /\ OneProcess' = OneProcess
    BY DEF Missing, diskVars, faultVars, OneProcess
  <2>5. \A u \in Threads : Merged(main[File(u)].doc, call[u])' = Merged(main[File(u)].doc, call[u])
    BY <2>4 DEF File, Merged
  <2> QED
    BY <2>2, <2>3, <2>4, <2>5, SMT DEF Invariant, FreshInv
<1> QED
  BY <1>1, <1>2, <1>3, <1>4, <1>5, <1>6, <1>7, <1>8 DEF Invariant

\* What a call will write is the file as it is, with its own fields set.
LEMMA ReadKeeps ==
  ASSUME Invariant, NEW t \in Threads, Read(t)
  PROVE  Invariant'
<1>1. TypeOK'
  <2>1. File(t) \in Files /\ main[File(t)].doc \in [FieldsOf(File(t)) -> Nat]
    BY CallType, SMT DEF Invariant, TypeOK, FilesOf
  <2>2. mem'[t] \in [FieldsOf(File(t)) -> Nat] /\ \A u \in Threads : u # t => mem'[u] = mem[u]
    <3>1. Merged(main[File(t)].doc, call[t]) \in [FieldsOf(File(t)) -> Nat]
      BY <2>1, CallType, MergedType DEF Invariant
    <3>2. mem' = [mem EXCEPT ![t] = Merged(main[File(t)].doc, call[t])] /\ DOMAIN mem = Threads
      BY DEF Invariant, TypeOK, Read
    <3> QED
      BY <3>1, <3>2
  <2>3. lock' \in [Procs -> [owner : Threads \cup {None}, depth : 0..2]]
    <3>a. home[t] \in Procs
      BY CallType DEF Invariant
    <3>b. lock[home[t]] \in [owner : Threads \cup {None}, depth : 0..2]
      BY <3>a DEF Invariant, TypeOK
    <3>1. home[t] \in Procs /\ [lock[home[t]] EXCEPT !.depth = 1] \in [owner : Threads \cup {None}, depth : 0..2]
      BY <3>a, <3>b, SMT
    <3> QED
      BY <3>1, SMT DEF Invariant, TypeOK, Read, LeaveInner
  <2>4. \A u \in Threads : pc'[u] \in Bound => mem'[u] \in [FieldsOf(File(u)) -> Nat]
    BY <2>2, CallType, SMT DEF Invariant, TypeOK, CallInv, Read, Goes, Ends, Bound
  <2>5. pc' \in [Threads -> Places] /\ outcome' \in [Threads -> {None, "ok", "raised"}] /\ DOMAIN mem' = Threads
    BY SMT DEF Invariant, TypeOK, Read, Goes, Ends, Places
  <2>6. call' = call /\ \A u \in Threads : File(u)' = File(u)
    BY DEF Read, File
  <2> QED
    BY <2>3, <2>4, <2>5, <2>6, SMT DEF Invariant, TypeOK, Read, diskVars, faultVars, Bound
<1>2. LockInv'
  BY CallType, StoreAssumption, SMT
     DEF Invariant, TypeOK, Read, Goes, LeaveInner, File, diskVars, faultVars, LockInv,
         CallInv, Inside
<1>3. CallInv'
  BY CallType, StoreAssumption, SMT
     DEF Invariant, TypeOK, Read, Goes, LeaveInner, File, diskVars, faultVars, CallInv,
         LockInv, Inside, None
<1>4. FileInv'
  BY CallType, SMT
     DEF Invariant, TypeOK, Read, Goes, LeaveInner, File, diskVars, faultVars, FileInv, CallInv
<1>5. TornInv'
  BY CallType, SMT
     DEF Invariant, TypeOK, Read, Goes, LeaveInner, File, diskVars, faultVars, TornInv, FileInv
<1>6. NeverTorn'
  BY CallType, SMT
     DEF Invariant, TypeOK, Read, Goes, LeaveInner, File, diskVars, faultVars, NeverTorn,
         TornInv, OwnInv, OneProcess
<1>7. OwnInv'
  BY CallType, SMT
     DEF Invariant, TypeOK, Read, Goes, LeaveInner, File, diskVars, faultVars, OwnInv,
         OneProcess, LockInv, Inside
<1>8. FreshInv'
  BY CallType, MergedNothing, SMT
     DEF Invariant, TypeOK, Read, Goes, LeaveInner, File, diskVars, faultVars, FreshInv,
         OneProcess, LockInv, Inside, Bound, FileInv, CallInv
<1> QED
  BY <1>1, <1>2, <1>3, <1>4, <1>5, <1>6, <1>7, <1>8 DEF Invariant

\* A known lesson ends the call.
LEMMA ReadKnownKeeps ==
  ASSUME Invariant, NEW t \in Threads, ReadKnown(t)
  PROVE  Invariant'
<1>1. TypeOK'
  <2>2. mem' = mem
    BY DEF ReadKnown
  <2>3. lock' \in [Procs -> [owner : Threads \cup {None}, depth : 0..2]]
    <3>a. home[t] \in Procs
      BY CallType DEF Invariant
    <3>b. lock[home[t]] \in [owner : Threads \cup {None}, depth : 0..2]
      BY <3>a DEF Invariant, TypeOK
    <3>1. home[t] \in Procs /\ [lock[home[t]] EXCEPT !.depth = 1] \in [owner : Threads \cup {None}, depth : 0..2]
      BY <3>a, <3>b, SMT
    <3> QED
      BY <3>1, SMT DEF Invariant, TypeOK, ReadKnown, LeaveInner
  <2>4. \A u \in Threads : pc'[u] \in Bound => mem'[u] \in [FieldsOf(File(u)) -> Nat]
    BY <2>2, CallType, SMT DEF Invariant, TypeOK, CallInv, ReadKnown, Goes, Ends, Bound
  <2>5. pc' \in [Threads -> Places] /\ outcome' \in [Threads -> {None, "ok", "raised"}] /\ DOMAIN mem' = Threads
    BY SMT DEF Invariant, TypeOK, ReadKnown, Goes, Ends, Places
  <2>6. call' = call /\ \A u \in Threads : File(u)' = File(u)
    BY DEF ReadKnown, File
  <2> QED
    BY <2>2, <2>3, <2>4, <2>5, <2>6, SMT
       DEF Invariant, TypeOK, ReadKnown, diskVars, faultVars, Bound
<1>2. LockInv'
  BY CallType, StoreAssumption, SMT
     DEF Invariant, TypeOK, ReadKnown, Goes, Ends, LeaveInner, File, diskVars, faultVars,
         LockInv, CallInv, Inside
<1>3. CallInv'
  BY CallType, StoreAssumption, SMT
     DEF Invariant, TypeOK, ReadKnown, Goes, Ends, LeaveInner, File, diskVars, faultVars,
         CallInv, LockInv, Inside, None
<1>4. FileInv'
  BY CallType, SMT
     DEF Invariant, TypeOK, ReadKnown, Goes, Ends, LeaveInner, File, diskVars, faultVars,
         FileInv, CallInv
<1>5. TornInv'
  BY CallType, SMT
     DEF Invariant, TypeOK, ReadKnown, Goes, Ends, LeaveInner, File, diskVars, faultVars,
         TornInv, FileInv
<1>6. NeverTorn'
  BY CallType, SMT
     DEF Invariant, TypeOK, ReadKnown, Goes, Ends, LeaveInner, File, diskVars, faultVars,
         NeverTorn, TornInv, OwnInv, OneProcess
<1>7. OwnInv'
  BY CallType, SMT
     DEF Invariant, TypeOK, ReadKnown, Goes, Ends, LeaveInner, File, diskVars, faultVars,
         OwnInv, OneProcess, LockInv, Inside
<1>8. FreshInv'
  BY CallType, MergedNothing, SMT
     DEF Invariant, TypeOK, ReadKnown, Goes, Ends, LeaveInner, File, diskVars, faultVars,
         FreshInv, OneProcess, LockInv, Inside, Bound, FileInv, CallInv
<1> QED
  BY <1>1, <1>2, <1>3, <1>4, <1>5, <1>6, <1>7, <1>8 DEF Invariant

\* A file that is taken for empty is no fresh one.
LEMMA ReadFailsKeeps ==
  ASSUME Invariant, NEW t \in Threads, ReadFails(t)
  PROVE  Invariant'
<1>1. TypeOK'
  <2>1. File(t) \in Files /\ call[t].stamp \in Nat
    BY CallType DEF Invariant
  <2>2. /\ pc'[t] \in Bound => mem'[t] \in [FieldsOf(File(t)) -> Nat]
        /\ \A u \in Threads : u # t => mem'[u] = mem[u]
    BY <2>1, DefaultType, MergedType, SMT DEF Invariant, TypeOK, ReadFails, Ends, Goes, Bound
  <2>3. lock' \in [Procs -> [owner : Threads \cup {None}, depth : 0..2]]
    <3>a. home[t] \in Procs
      BY CallType DEF Invariant
    <3>b. lock[home[t]] \in [owner : Threads \cup {None}, depth : 0..2]
      BY <3>a DEF Invariant, TypeOK
    <3>1. home[t] \in Procs /\ [lock[home[t]] EXCEPT !.depth = 1] \in [owner : Threads \cup {None}, depth : 0..2]
      BY <3>a, <3>b, SMT
    <3> QED
      BY <3>1, SMT DEF Invariant, TypeOK, ReadFails, LeaveInner
  <2>4. \A u \in Threads : pc'[u] \in Bound => mem'[u] \in [FieldsOf(File(u)) -> Nat]
    BY <2>2, CallType, SMT DEF Invariant, TypeOK, CallInv, ReadFails, Goes, Ends, Bound
  <2>5. pc' \in [Threads -> Places] /\ outcome' \in [Threads -> {None, "ok", "raised"}] /\ DOMAIN mem' = Threads
    <3>1. CASE call[t].op = "update"
      <4>1. /\ pc' = [pc EXCEPT ![t] = "backup"] /\ outcome' = outcome
            /\ mem' = [mem EXCEPT ![t] = Merged(Default(File(t)), call[t])]
        BY <3>1 DEF ReadFails, Goes
      <4> QED
        BY <4>1 DEF Invariant, TypeOK, Places
    <3>2. CASE call[t].op # "update"
      <4>1. /\ pc' = [pc EXCEPT ![t] = "release"] /\ outcome' = [outcome EXCEPT ![t] = "raised"]
            /\ mem' = mem
        BY <3>2 DEF ReadFails, Goes, Ends
      <4> QED
        BY <4>1 DEF Invariant, TypeOK, Places
    <3> QED
      BY <3>1, <3>2
  <2>6. call' = call /\ \A u \in Threads : File(u)' = File(u)
    BY DEF ReadFails, File
  <2>7. faults' \subseteq AllFaults /\ faultCount' \in 0..FaultBound
    BY StoreAssumption, SMT DEF Invariant, TypeOK, ReadFails, Happens
  <2> QED
    BY <2>3, <2>4, <2>5, <2>6, <2>7, SMT DEF Invariant, TypeOK, ReadFails, diskVars, Bound
<1>2. LockInv'
  BY CallType, StoreAssumption, SMT
     DEF Invariant, TypeOK, ReadFails, Goes, Ends, LeaveInner, Happens, File, diskVars,
         faultVars, LockInv, CallInv, Inside
<1>3. CallInv'
  BY CallType, StoreAssumption, SMT
     DEF Invariant, TypeOK, ReadFails, Goes, Ends, LeaveInner, Happens, File, diskVars,
         faultVars, CallInv, LockInv, Inside, None
<1>4. FileInv'
  BY CallType, SMT
     DEF Invariant, TypeOK, ReadFails, Goes, Ends, LeaveInner, Happens, File, diskVars,
         faultVars, FileInv, CallInv
<1>5. TornInv'
  BY CallType, SMT
     DEF Invariant, TypeOK, ReadFails, Goes, Ends, LeaveInner, Happens, File, diskVars,
         faultVars, TornInv, FileInv
<1>6. NeverTorn'
  BY CallType, SMT
     DEF Invariant, TypeOK, ReadFails, Goes, Ends, LeaveInner, Happens, File, diskVars,
         faultVars, NeverTorn, TornInv, OwnInv, OneProcess
<1>7. OwnInv'
  <2>1. \A u \in Threads : pc'[u] = "replace" => pc[u] = "replace" /\ u # t
    BY SMT DEF Invariant, TypeOK, ReadFails, Ends, Goes
  <2>2. \A u \in Threads : u # t => mem'[u] = mem[u]
    BY SMT DEF Invariant, TypeOK, ReadFails
  <2>3. tmp' = tmp /\ call' = call /\ OneProcess' = OneProcess
    BY DEF ReadFails, diskVars, OneProcess
  <2> QED
    BY <2>1, <2>2, <2>3, SMT DEF Invariant, OwnInv, File
<1>8. FreshInv'
  BY CallType, MergedNothing, SMT
     DEF Invariant, TypeOK, ReadFails, Goes, Ends, LeaveInner, Happens, File, diskVars,
         faultVars, FreshInv, OneProcess, LockInv, Inside, Bound, FileInv, CallInv
<1> QED
  BY <1>1, <1>2, <1>3, <1>4, <1>5, <1>6, <1>7, <1>8 DEF Invariant

\* The backup touches neither of the two files.
LEMMA BackupKeeps ==
  ASSUME Invariant, NEW t \in Threads, Backup(t)
  PROVE  Invariant'
<1>1. TypeOK'
  <2>1. Append(backups, main["STATE.md"]) \in Seq(FilesOf("STATE.md"))
    BY SMT DEF Invariant, TypeOK, Files
  <2>2. backups' \in Seq(FilesOf("STATE.md"))
    <3>1. Kept(Append(backups, main["STATE.md"])) \in Seq(FilesOf("STATE.md"))
      BY <2>1, KeptType
    <3>2. backups' = backups \/ backups' = Kept(Append(backups, main["STATE.md"]))
      BY Zenon DEF Backup
    <3> QED
      BY <3>1, <3>2 DEF Invariant, TypeOK
  <2>3. faults' \subseteq AllFaults /\ faultCount' \in 0..FaultBound
    BY StoreAssumption, SMT DEF Invariant, TypeOK, Backup, Happens, faultVars
  <2>4. pc' \in [Threads -> Places] /\ \A u \in Threads : pc'[u] \in Bound => pc[u] \in Bound
    BY SMT DEF Invariant, TypeOK, Backup, Goes, Places, Bound
  <2> QED
    BY <2>2, <2>3, <2>4, SMT DEF Invariant, TypeOK, Backup, Bound, File
<1>2. LockInv'
  BY CallType, StoreAssumption, SMT
     DEF Invariant, TypeOK, Backup, Goes, Happens, File, diskVars, faultVars, LockInv, CallInv,
         Inside
<1>3. CallInv'
  BY CallType, StoreAssumption, SMT
     DEF Invariant, TypeOK, Backup, Goes, Happens, File, diskVars, faultVars, CallInv, LockInv,
         Inside, None
<1>4. FileInv'
  BY CallType, SMT
     DEF Invariant, TypeOK, Backup, Goes, Happens, File, diskVars, faultVars, FileInv, CallInv
<1>5. TornInv'
  BY CallType, SMT
     DEF Invariant, TypeOK, Backup, Goes, Happens, File, diskVars, faultVars, TornInv, FileInv
<1>6. NeverTorn'
  BY CallType, SMT
     DEF Invariant, TypeOK, Backup, Goes, Happens, File, diskVars, faultVars, NeverTorn,
         TornInv, OwnInv, OneProcess
<1>7. OwnInv'
  BY CallType, SMT
     DEF Invariant, TypeOK, Backup, Goes, Happens, File, diskVars, faultVars, OwnInv,
         OneProcess, LockInv, Inside
<1>8. FreshInv'
  BY CallType, MergedNothing, SMT
     DEF Invariant, TypeOK, Backup, Goes, Happens, File, diskVars, faultVars, FreshInv,
         OneProcess, LockInv, Inside, Bound, FileInv, CallInv
<1> QED
  BY <1>1, <1>2, <1>3, <1>4, <1>5, <1>6, <1>7, <1>8 DEF Invariant

\* The temporary file is truncated by the only writer of its process.
LEMMA OpenKeeps ==
  ASSUME Invariant, NEW t \in Threads, Open(t)
  PROVE  Invariant'
<1>1. TypeOK'
  BY CallType, DefaultType, MergedType, StoreAssumption, SMTT(30)
     DEF Invariant, TypeOK, Open, Goes, Torn, FileOf, File, diskVars, faultVars, Places,
         FilesOf, CallsOf, Files, LockInv, CallInv
<1>2. LockInv'
  BY CallType, StoreAssumption, SMT
     DEF Invariant, TypeOK, Open, Goes, Torn, FileOf, File, diskVars, faultVars, LockInv,
         CallInv, Inside
<1>3. CallInv'
  BY CallType, StoreAssumption, SMT
     DEF Invariant, TypeOK, Open, Goes, Torn, FileOf, File, diskVars, faultVars, CallInv,
         LockInv, Inside, None
<1>4. FileInv'
  BY CallType, SMT
     DEF Invariant, TypeOK, Open, Goes, Torn, FileOf, File, diskVars, faultVars, FileInv,
         CallInv
<1>5. TornInv'
  BY CallType, SMT
     DEF Invariant, TypeOK, Open, Goes, Torn, FileOf, File, diskVars, faultVars, TornInv,
         FileInv
<1>6. NeverTorn'
  BY CallType, SMT
     DEF Invariant, TypeOK, Open, Goes, Torn, FileOf, File, diskVars, faultVars, NeverTorn,
         TornInv, OwnInv, OneProcess
<1>7. OwnInv'
  <2>1. pc[t] = "open" /\ pc'[t] = "write" /\ \A u \in Threads : u # t => pc'[u] = pc[u]
    BY SMT DEF Invariant, TypeOK, Open, Goes
  <2>2. OneProcess' = OneProcess
    BY DEF Open, OneProcess
  <2>3. OneProcess => \A u \in Threads : pc'[u] # "replace"
    BY <2>1, OneWriter, SMT DEF Invariant, Inside
  <2> QED
    BY <2>2, <2>3 DEF OwnInv
<1>8. FreshInv'
  BY CallType, MergedNothing, SMT
     DEF Invariant, TypeOK, Open, Goes, Torn, FileOf, File, diskVars, faultVars, FreshInv,
         OneProcess, LockInv, Inside, Bound, FileInv, CallInv
<1> QED
  BY <1>1, <1>2, <1>3, <1>4, <1>5, <1>6, <1>7, <1>8 DEF Invariant

\* A written temporary file is whole and holds what the thread has built.
LEMMA WriteKeeps ==
  ASSUME Invariant, NEW t \in Threads, Write(t)
  PROVE  Invariant'
<1>1. TypeOK'
  <2>1. File(t) \in Files /\ pc[t] = "write"
    BY CallType, SMT DEF Invariant, Write, Goes
  <2>2. FileOf("whole", mem[t]) \in FilesOf(File(t))
    BY <2>1, SMT DEF Invariant, TypeOK, FileOf, FilesOf
  <2>3. \A f \in Files : tmp[f] \in FilesOf(f)
    BY DEF Invariant, TypeOK
  <2>4. DOMAIN tmp' = Files /\ \A f \in Files : tmp'[f] \in FilesOf(f)
    BY <2>1, <2>2, <2>3, SMT DEF Invariant, TypeOK, Write
  <2>5. handles' \in [Files -> SUBSET Threads]
    BY <2>1, SMT DEF Invariant, TypeOK, Write
  <2>6. pc' \in [Threads -> Places] /\ \A u \in Threads : pc'[u] \in Bound => pc[u] \in Bound
    BY <2>1, SMT DEF Invariant, TypeOK, Write, Goes, Places, Bound
  <2> QED
    BY <2>4, <2>5, <2>6, SMT DEF Invariant, TypeOK, Write, faultVars, Bound, File
<1>2. LockInv'
  BY CallType, StoreAssumption, SMT
     DEF Invariant, TypeOK, Write, Goes, FileOf, File, diskVars, faultVars, LockInv, CallInv,
         Inside
<1>3. CallInv'
  BY CallType, StoreAssumption, SMT
     DEF Invariant, TypeOK, Write, Goes, FileOf, File, diskVars, faultVars, CallInv, LockInv,
         Inside, None
<1>4. FileInv'
  BY CallType, SMT
     DEF Invariant, TypeOK, Write, Goes, FileOf, File, diskVars, faultVars, FileInv, CallInv
<1>5. TornInv'
  BY CallType, SMT
     DEF Invariant, TypeOK, Write, Goes, FileOf, File, diskVars, faultVars, TornInv, FileInv
<1>6. NeverTorn'
  BY CallType, SMT
     DEF Invariant, TypeOK, Write, Goes, FileOf, File, diskVars, faultVars, NeverTorn, TornInv,
         OwnInv, OneProcess
<1>7. OwnInv'
  BY CallType, SMT
     DEF Invariant, TypeOK, Write, Goes, FileOf, File, diskVars, faultVars, OwnInv, OneProcess,
         LockInv, Inside
<1>8. FreshInv'
  BY CallType, MergedNothing, SMT
     DEF Invariant, TypeOK, Write, Goes, FileOf, File, diskVars, faultVars, FreshInv,
         OneProcess, LockInv, Inside, Bound, FileInv, CallInv
<1> QED
  BY <1>1, <1>2, <1>3, <1>4, <1>5, <1>6, <1>7, <1>8 DEF Invariant

\* A writer that is cut off leaves at most a torn temporary file.
LEMMA WriteFailsKeeps ==
  ASSUME Invariant, NEW t \in Threads, WriteFails(t)
  PROVE  Invariant'
<1>1. TypeOK'
  BY CallType, DefaultType, MergedType, StoreAssumption, SMT
     DEF Invariant, TypeOK, WriteFails, Goes, Ends, Torn, FileOf, Happens, File, diskVars,
         faultVars, Places, FilesOf, CallsOf, Files, LockInv, CallInv
<1>2. LockInv'
  BY CallType, StoreAssumption, SMT
     DEF Invariant, TypeOK, WriteFails, Goes, Ends, Torn, FileOf, Happens, File, diskVars,
         faultVars, LockInv, CallInv, Inside
<1>3. CallInv'
  BY CallType, StoreAssumption, SMT
     DEF Invariant, TypeOK, WriteFails, Goes, Ends, Torn, FileOf, Happens, File, diskVars,
         faultVars, CallInv, LockInv, Inside, None
<1>4. FileInv'
  <2>1. /\ File(t) \in Files /\ main' = main /\ call' = call
        /\ pc[t] \in {"open", "write"} /\ pc' = [pc EXCEPT ![t] = "release"]
        /\ handles' = [handles EXCEPT ![File(t)] = @ \ {t}]
    BY CallType DEF Invariant, WriteFails, Ends, Goes
  <2>2. \A f \in Files : tmp'[f].kind # "whole" => tmp'[f].doc = Default(f)
    <3>1. CASE tmp' = tmp
      BY <3>1 DEF Invariant, FileInv
    <3>2. CASE tmp' = [tmp EXCEPT ![File(t)] = Torn(File(t))]
      <4>1. Torn(File(t)).doc = Default(File(t))
        BY DEF Torn, FileOf
      <4>2. DOMAIN tmp = Files
        BY DEF Invariant, TypeOK
      <4> QED
        BY <2>1, <3>2, <4>1, <4>2 DEF Invariant, FileInv
    <3> QED
      BY <3>1, <3>2 DEF WriteFails
  <2>3. \A f \in Files : \A u \in handles'[f] : u # t /\ u \in handles[f] /\ u \in Threads
    BY <2>1, SMT DEF Invariant, TypeOK, FileInv
  <2>4. \A f \in Files : \A u \in handles'[f] : pc'[u] = "write" /\ File(u)' = f
    BY <2>1, <2>3, SMT DEF Invariant, TypeOK, FileInv, File
  <2> QED
    BY <2>1, <2>2, <2>4 DEF Invariant, FileInv
<1>5. TornInv'
  <2>1. "disk" \in faults'
    BY DEF WriteFails, Happens
  <2> QED
    BY <2>1 DEF TornInv
<1>6. NeverTorn'
  BY CallType, SMT
     DEF Invariant, TypeOK, WriteFails, Goes, Ends, Torn, FileOf, Happens, File, diskVars,
         faultVars, NeverTorn, TornInv, OwnInv, OneProcess
<1>7. OwnInv'
  BY CallType, SMT
     DEF Invariant, TypeOK, WriteFails, Goes, Ends, Torn, FileOf, Happens, File, diskVars,
         faultVars, OwnInv, OneProcess, LockInv, Inside
<1>8. FreshInv'
  BY CallType, MergedNothing, SMT
     DEF Invariant, TypeOK, WriteFails, Goes, Ends, Torn, FileOf, Happens, File, diskVars,
         faultVars, FreshInv, OneProcess, LockInv, Inside, Bound, FileInv, CallInv
<1> QED
  BY <1>1, <1>2, <1>3, <1>4, <1>5, <1>6, <1>7, <1>8 DEF Invariant

\* What replaces a file is whole.
LEMMA ReplaceKeeps ==
  ASSUME Invariant, NEW t \in Threads, Replace(t)
  PROVE  Invariant'
<1>0. /\ pc[t] = "replace" /\ \A u \in Threads : u # t => /\ pc'[u] = pc[u] /\ call'[u] = call[u]
                                                      /\ outcome'[u] = outcome[u]
      /\ \/ /\ pc'[t] = "exists" /\ outcome'[t] = outcome[t]
            /\ call[t].op = "ensure" /\ call'[t].op = "ensure"
         \/ pc'[t] = "release" /\ outcome'[t] = "ok" /\ call'[t] = call[t]
  BY DoneFacts DEF Invariant, Replace
<1>9. /\ File(t) \in Files /\ main'[File(t)] = tmp[File(t)] /\ tmp'[File(t)] = Absent(File(t))
      /\ \A f \in Files : f # File(t) => main'[f] = main[f] /\ tmp'[f] = tmp[f]
      /\ DOMAIN main' = Files /\ DOMAIN tmp' = Files
  BY CallType, SMT DEF Invariant, TypeOK, Replace
<1>1. TypeOK'
  <2>1. \A u \in Threads : pc'[u] \in Bound => u # t
    BY <1>0, SMT DEF Bound
  <2>2. \A u \in Threads : pc'[u] \in Bound => pc[u] \in Bound /\ File(u)' = File(u)
    BY <1>0, <2>1, SMT DEF File
  <2>3. mem' = mem /\ \A u \in Threads : pc'[u] \in Bound => mem'[u] \in [FieldsOf(File(u)') -> Nat]
    BY <2>2, SMT DEF Invariant, TypeOK, Replace, Bound
  <2>4. Absent(File(t)) \in FilesOf(File(t)) /\ tmp[File(t)] \in FilesOf(File(t))
    BY <1>9, DefaultType, SMT DEF Invariant, TypeOK, Absent, FileOf, FilesOf
  <2>5. \A f \in Files : main[f] \in FilesOf(f) /\ tmp[f] \in FilesOf(f)
    BY DEF Invariant, TypeOK
  <2>6. \A f \in Files : main'[f] \in FilesOf(f) /\ tmp'[f] \in FilesOf(f)
    BY <1>9, <2>4, <2>5, Zenon
  <2>7. tries' \in [Threads -> Nat] /\ \A u \in Threads : tries'[u] < MaxTries
    BY StoreAssumption, SMT DEF Invariant, TypeOK, Replace
  <2> QED
    BY <1>9, <2>3, <2>6, <2>7, DoneFacts, SMT DEF Invariant, TypeOK, Replace, faultVars, Bound
<1>2. LockInv'
  BY <1>0, CallType, SMT DEF Invariant, Replace, LockInv, Inside
<1>3. CallInv'
  <2>1. pc'[t] \notin {"off", "idle", "again", "read", "backup"} /\ call[t].op # "none"
    BY <1>0, SMT DEF Invariant, CallInv
  <2> QED
    BY <1>0, <2>1, SMT DEF Invariant, CallInv
<1>4. FileInv'
  <2>1. File(t) \in Files /\ (tmp[File(t)].kind # "whole" => tmp[File(t)].doc = Default(File(t)))
    BY <1>9 DEF Invariant, FileInv
  <2>2. Absent(File(t)).doc = Default(File(t))
    BY DEF Absent, FileOf
  <2>3. \A f \in Files : /\ main'[f].kind # "whole" => main'[f].doc = Default(f)
                         /\ tmp'[f].kind # "whole" => tmp'[f].doc = Default(f)
    <3> SUFFICES ASSUME NEW f \in Files
                 PROVE  /\ main'[f].kind # "whole" => main'[f].doc = Default(f)
                        /\ tmp'[f].kind # "whole" => tmp'[f].doc = Default(f)
      OBVIOUS
    <3>1. CASE f = File(t)
      BY <1>9, <2>1, <2>2, <3>1
    <3>2. CASE f # File(t)
      BY <1>9, <3>2 DEF Invariant, FileInv
    <3> QED
      BY <3>1, <3>2
  <2>4. \A f \in Files : \A u \in handles'[f] : u # t /\ u \in Threads
    BY <1>0, SMT DEF Invariant, TypeOK, FileInv, Replace
  <2>5. \A f \in Files : \A u \in handles'[f] : pc'[u] = "write" /\ File(u)' = f
    BY <1>0, <2>4, SMT DEF Invariant, FileInv, Replace, File
  <2> QED
    BY <2>3, <2>5 DEF FileInv
<1>5. TornInv'
  BY <1>9, SMT DEF Invariant, Replace, faultVars, TornInv, Absent, FileOf
<1>6. NeverTorn'
  <2>1. OneProcess' = OneProcess /\ faults' = faults
    BY DEF Replace, OneProcess, faultVars
  <2>2. OneProcess => tmp[File(t)].kind = "whole"
    <3>1. OneProcess => tmp[File(t)] = FileOf("whole", mem[t])
      BY <1>0 DEF Invariant, OwnInv
    <3> QED
      BY <3>1 DEF FileOf
  <2>3. faults \cap {"disk", "kill"} = {} => tmp[File(t)].kind # "torn"
    BY <1>9, SMT DEF Invariant, TornInv, Replace, MayReplace
  <2>4. OneProcess \/ faults \cap {"disk", "kill"} = {} => \A f \in Files : main'[f].kind # "torn"
    BY <1>9, <2>2, <2>3, SMT DEF Invariant, NeverTorn
  <2> QED
    BY <2>1, <2>4 DEF NeverTorn
<1>7. OwnInv'
  <2>1. OneProcess' = OneProcess
    BY DEF Replace, OneProcess
  <2>2. OneProcess => \A u \in Threads : pc'[u] # "replace"
    BY <1>0, OneWriter, SMT DEF Invariant, Inside
  <2> QED
    BY <2>1, <2>2 DEF OwnInv
<1>8. FreshInv'
  <2>1. OneProcess' = OneProcess
    BY DEF Replace, OneProcess
  <2>2. OneProcess => \A u \in Threads : pc'[u] \notin Bound
    BY <1>0, OneWriter, SMT DEF Invariant, Inside, Bound
  <2> QED
    BY <2>1, <2>2 DEF FreshInv
<1> QED
  BY <1>1, <1>2, <1>3, <1>4, <1>5, <1>6, <1>7, <1>8 DEF Invariant

\* A replace that fails is tried fewer than MaxTries times.
LEMMA ReplaceFailsKeeps ==
  ASSUME Invariant, NEW t \in Threads, ReplaceFails(t)
  PROVE  Invariant'
<1>1. TypeOK'
  <2>1. faults' \subseteq AllFaults /\ faultCount' \in 0..FaultBound
    BY StoreAssumption, SMT DEF Invariant, TypeOK, ReplaceFails, Happens, faultVars
  <2>2. tries' \in [Threads -> Nat] /\ \A u \in Threads : tries'[u] < MaxTries
    <3>1. CASE tries[t] + 1 < MaxTries
      <4>1. tries' = [tries EXCEPT ![t] = tries[t] + 1] /\ tries \in [Threads -> Nat]
        BY <3>1 DEF Invariant, TypeOK, ReplaceFails
      <4>2. tries[t] + 1 \in Nat
        BY <4>1
      <4>3. \A u \in Threads : tries'[u] = IF u = t THEN tries[t] + 1 ELSE tries[u]
        BY <4>1
      <4>4. \A u \in Threads : tries[u] < MaxTries
        BY DEF Invariant, TypeOK
      <4>5. tries' \in [Threads -> Nat]
        BY <4>1, <4>2
      <4> QED
        BY <3>1, <4>3, <4>4, <4>5
    <3>2. CASE ~(tries[t] + 1 < MaxTries)
      BY <3>2 DEF Invariant, TypeOK, ReplaceFails
    <3> QED
      BY <3>1, <3>2
  <2>3. pc' \in [Threads -> Places] /\ outcome' \in [Threads -> {None, "ok", "raised"}]
        /\ \A u \in Threads : pc'[u] \in Bound => pc[u] \in Bound
    <3>1. CASE tries[t] + 1 < MaxTries
      BY <3>1 DEF Invariant, TypeOK, ReplaceFails
    <3>2. CASE ~(tries[t] + 1 < MaxTries)
      <4>1. /\ pc[t] = "replace" /\ pc' = [pc EXCEPT ![t] = "release"]
            /\ outcome' = [outcome EXCEPT ![t] = "raised"]
        BY <3>2 DEF ReplaceFails, Ends, Goes
      <4> QED
        BY <4>1, SMT DEF Invariant, TypeOK, Places, Bound
    <3> QED
      BY <3>1, <3>2
  <2> QED
    BY <2>1, <2>2, <2>3, SMT DEF Invariant, TypeOK, ReplaceFails, diskVars, Bound, File
<1>2. LockInv'
  <2>1. lock' = lock /\ home' = home /\ \/ pc' = pc
                                        \/ pc[t] = "replace" /\ pc' = [pc EXCEPT ![t] = "release"]
    BY Zenon DEF ReplaceFails, Ends, Goes
  <2>2. \A u \in Threads : /\ pc'[u] \in Inside <=> pc[u] \in Inside
                           /\ pc'[u] = "again" <=> pc[u] = "again"
    BY <2>1, SMT DEF Invariant, TypeOK, Inside
  <2> QED
    BY <2>1, <2>2 DEF Invariant, LockInv
<1>3. CallInv'
  BY CallType, StoreAssumption, SMT
     DEF Invariant, TypeOK, ReplaceFails, Goes, Ends, MayReplace, Happens, File, diskVars,
         faultVars, CallInv, LockInv, Inside, None
<1>4. FileInv'
  BY CallType, SMT
     DEF Invariant, TypeOK, ReplaceFails, Goes, Ends, MayReplace, Happens, File, diskVars,
         faultVars, FileInv, CallInv
<1>5. TornInv'
  BY CallType, SMT
     DEF Invariant, TypeOK, ReplaceFails, Goes, Ends, MayReplace, Happens, File, diskVars,
         faultVars, TornInv, FileInv
<1>6. NeverTorn'
  BY CallType, SMT
     DEF Invariant, TypeOK, ReplaceFails, Goes, Ends, MayReplace, Happens, File, diskVars,
         faultVars, NeverTorn, TornInv, OwnInv, OneProcess
<1>7. OwnInv'
  BY CallType, SMT
     DEF Invariant, TypeOK, ReplaceFails, Goes, Ends, MayReplace, Happens, File, diskVars,
         faultVars, OwnInv, OneProcess, LockInv, Inside
<1>8. FreshInv'
  BY CallType, MergedNothing, SMT
     DEF Invariant, TypeOK, ReplaceFails, Goes, Ends, MayReplace, Happens, File, diskVars,
         faultVars, FreshInv, OneProcess, LockInv, Inside, Bound, FileInv, CallInv
<1> QED
  BY <1>1, <1>2, <1>3, <1>4, <1>5, <1>6, <1>7, <1>8 DEF Invariant

\* A process that dies gives up its lock, and no file changes.
LEMMA KillKeeps ==
  ASSUME Invariant, NEW p \in Procs, Kill(p)
  PROVE  Invariant'
<1>1. /\ home' = home /\ main' = main /\ tmp' = tmp /\ backups' = backups /\ calls' = calls
      /\ pc' = [t \in Threads |-> IF home[t] = p THEN "off" ELSE pc[t]]
      /\ call' = [t \in Threads |-> IF home[t] = p THEN NoCall ELSE call[t]]
      /\ mem' = [t \in Threads |-> IF home[t] = p THEN Default("STATE.md") ELSE mem[t]]
      /\ tries' = [t \in Threads |-> IF home[t] = p THEN 0 ELSE tries[t]]
      /\ outcome' = [t \in Threads |-> IF home[t] = p THEN None ELSE outcome[t]]
      /\ lock' = [lock EXCEPT ![p] = [owner |-> None, depth |-> 0]]
      /\ handles' = [f \in Files |-> {t \in handles[f] : ~(home[t] = p)}]
      /\ Happens("kill")
  BY DEF Kill
<1>2. /\ \A t \in Threads : home[t] = p => /\ pc'[t] = "off" /\ call'[t] = NoCall /\ outcome'[t] = None
      /\ \A t \in Threads : home[t] # p => /\ pc'[t] = pc[t] /\ call'[t] = call[t] /\ mem'[t] = mem[t]
                                           /\ outcome'[t] = outcome[t]
  BY <1>1
<1>3. lock'[p].owner = None /\ lock'[p].depth = 0 /\ \A q \in Procs : q # p => lock'[q] = lock[q]
  BY <1>1, SMT DEF Invariant, TypeOK
<1>4. "kill" \in faults'
  BY <1>1 DEF Happens
<1>5. OneProcess' = OneProcess
  BY <1>1 DEF OneProcess
<1>6. \A t \in Threads : pc[t] # "off" /\ pc'[t] # "off" => home[t] # p
  BY <1>2
<1>7. TypeOK'
  <2>1. pc' \in [Threads -> Places]
    BY <1>1, SMT DEF Invariant, TypeOK, Places
  <2>2. NoCall \in CallsOf({"none", "update"}, {"STATE.md"}, StateFields)
    BY SMT DEF NoCall, Calling, CallsOf
  <2>3. call' \in [Threads -> CallsOf({"none", "update"}, {"STATE.md"}, StateFields)
                              \cup CallsOf({"append"}, {"SKILL.md"}, Lessons)
                              \cup CallsOf({"ensure"}, Files, {})]
    BY <1>1, <2>2 DEF Invariant, TypeOK
  <2>4. ASSUME NEW t \in Threads, pc'[t] \in {"backup", "open", "write", "replace"}
        PROVE  mem'[t] \in [FieldsOf(File(t)') -> Nat]
    <3>1. home[t] # p
      BY <1>2, <2>4
    <3>2. pc'[t] = pc[t] /\ mem'[t] = mem[t] /\ File(t)' = File(t)
      BY <1>2, <3>1 DEF File
    <3> QED
      BY <2>4, <3>2 DEF Invariant, TypeOK
  <2>5. tries' \in [Threads -> Nat] /\ \A t \in Threads : tries'[t] < MaxTries
    BY <1>1, StoreAssumption, SMT DEF Invariant, TypeOK
  <2>6. outcome' \in [Threads -> {None, "ok", "raised"}]
    BY <1>1 DEF Invariant, TypeOK
  <2>7. lock' \in [Procs -> [owner : Threads \cup {None}, depth : 0..2]]
    BY <1>1, SMT DEF Invariant, TypeOK
  <2>8. handles' \in [Files -> SUBSET Threads]
    BY <1>1 DEF Invariant, TypeOK
  <2>9. faults' \subseteq AllFaults /\ faultCount' \in 0..FaultBound
    BY <1>1, StoreAssumption, SMT DEF Invariant, TypeOK, Happens
  <2>10. DOMAIN mem' = Threads
    BY <1>1
  <2> QED
    BY <1>1, <2>1, <2>3, <2>4, <2>5, <2>6, <2>7, <2>8, <2>9, <2>10 DEF Invariant, TypeOK
<1>8. LockInv'
  <2>1. \A t \in Threads : home[t] \in Procs
    BY CallType DEF Invariant
  <2>2. \A t \in Threads : pc'[t] \in Inside => home[t] # p /\ pc[t] \in Inside
    BY <1>2, SMT DEF Inside
  <2>3. \A t \in Threads : pc'[t] \in Inside => lock'[home'[t]].owner = t
    BY <1>1, <1>3, <2>1, <2>2 DEF Invariant, LockInv
  <2>4. None \notin Threads
    BY StoreAssumption
  <2>5. \A q \in Procs : \A t \in Threads : lock'[q].owner = t => pc'[t] \in Inside /\ home'[t] = q
    BY <1>1, <1>2, <1>3, <2>4 DEF Invariant, LockInv
  <2>6. \A q \in Procs : lock'[q].owner = None => lock'[q].depth = 0
    BY <1>3 DEF Invariant, LockInv
  <2>7. \A t \in Threads : pc'[t] = "again" => lock'[home'[t]].depth = 1
    BY <1>1, <1>2, <1>3, <2>1 DEF Invariant, LockInv
  <2> QED
    BY <2>3, <2>5, <2>6, <2>7 DEF LockInv
<1>9. CallInv'
  <2>1. NoCall.op = "none" /\ None \notin {"ok", "raised"}
    BY SMT DEF NoCall, Calling, None
  <2> QED
    BY <1>2, <2>1, SMT DEF Invariant, CallInv
<1>10. FileInv'
  <2>1. \A f \in Files : \A t \in handles'[f] : t \in handles[f] /\ t \in Threads /\ home[t] # p
    BY <1>1, SMT DEF Invariant, TypeOK
  <2>2. \A f \in Files : \A t \in handles'[f] : pc'[t] = "write" /\ File(t)' = f
    BY <1>2, <2>1, SMT DEF Invariant, FileInv, File
  <2> QED
    BY <1>1, <2>2 DEF Invariant, FileInv
<1>11. TornInv'
  BY <1>4 DEF TornInv
<1>12. NeverTorn'
  <2>1. OneProcess => \A f \in Files : main[f].kind # "torn"
    BY DEF Invariant, NeverTorn
  <2> QED
    BY <1>1, <1>4, <1>5, <2>1 DEF NeverTorn
<1>13. OwnInv'
  <2>1. \A t \in Threads : pc'[t] = "replace" =>
          pc[t] = "replace" /\ mem'[t] = mem[t] /\ File(t)' = File(t)
    BY <1>2 DEF File
  <2> QED
    BY <1>1, <1>5, <2>1 DEF Invariant, OwnInv
<1>14. FreshInv'
  <2>1. \A t \in Threads : pc'[t] \in Bound =>
          pc[t] \in Bound /\ mem'[t] = mem[t] /\ call'[t] = call[t]
    BY <1>2, SMT DEF Bound
  <2>2. "unreadable" \notin faults' => "unreadable" \notin faults
    BY <1>1 DEF Happens
  <2> QED
    BY <1>1, <1>5, <2>1, <2>2 DEF Invariant, FreshInv, File
<1> QED
  BY <1>7, <1>8, <1>9, <1>10, <1>11, <1>12, <1>13, <1>14 DEF Invariant

-----------------------------------------------------------------------------
(* The invariant                                                           *)

\* Every behaviour starts in the invariant: all threads are off, all files absent.
LEMMA InitInvariant == Init => Invariant
<1> SUFFICES ASSUME Init PROVE Invariant
  OBVIOUS
<1>1. \A t \in Threads : pc[t] = "off" /\ call[t] = NoCall /\ outcome[t] = None
  BY DEF Init
<1>2. \A f \in Files : main[f] = Absent(f) /\ tmp[f] = Absent(f) /\ handles[f] = {}
  BY DEF Init
<1>3. \A f \in Files : Absent(f).kind = "absent" /\ Absent(f).doc = Default(f)
  BY DEF Absent, FileOf
<1>4. TypeOK
  <2>1. \A f \in Files : Absent(f) \in FilesOf(f)
    BY DefaultType, SMT DEF Absent, FileOf, FilesOf
  <2>2. DOMAIN main = Files /\ DOMAIN tmp = Files /\ \A f \in Files : main[f] \in FilesOf(f) /\ tmp[f] \in FilesOf(f)
    BY <1>2, <2>1 DEF Init
  <2>3. NoCall \in CallsOf({"none", "update"}, {"STATE.md"}, StateFields)
    BY SMT DEF NoCall, Calling, CallsOf
  <2>4. call \in [Threads -> CallsOf({"none", "update"}, {"STATE.md"}, StateFields)
                              \cup CallsOf({"append"}, {"SKILL.md"}, Lessons)
                              \cup CallsOf({"ensure"}, Files, {})]
    BY <2>3 DEF Init
  <2>5. tries \in [Threads -> Nat] /\ \A t \in Threads : tries[t] < MaxTries
    BY StoreAssumption, SMT DEF Init
  <2>6. backups \in Seq(FilesOf("STATE.md"))
    BY DEF Init
  <2>7. lock \in [Procs -> [owner : Threads \cup {None}, depth : 0..2]]
    BY SMT DEF Init
  <2>8. home \in Homes /\ pc \in [Threads -> Places] /\ DOMAIN mem = Threads
        /\ outcome \in [Threads -> {None, "ok", "raised"}] /\ handles \in [Files -> SUBSET Threads]
        /\ calls \in Nat /\ faults \subseteq AllFaults /\ faultCount \in 0..FaultBound
    BY StoreAssumption, SMT DEF Init, Places
  <2> QED
    BY <1>1, <2>2, <2>4, <2>5, <2>6, <2>7, <2>8, SMT DEF TypeOK
<1>5. LockInv
  <2>1. \A p \in Procs : lock[p].owner = None /\ lock[p].depth = 0
    BY DEF Init
  <2> QED
    BY <1>1, <2>1, StoreAssumption, SMT DEF LockInv, Inside
<1>6. CallInv
  <2>1. NoCall.op = "none" /\ None \notin {"ok", "raised"}
    BY SMT DEF NoCall, Calling, None
  <2> QED
    BY <1>1, <2>1, SMT DEF CallInv
<1>7. FileInv
  BY <1>2, <1>3 DEF FileInv
<1>8. TornInv /\ NeverTorn
  BY <1>2, <1>3, SMT DEF TornInv, NeverTorn
<1>9. OwnInv /\ FreshInv
  BY <1>1, SMT DEF OwnInv, FreshInv, Bound
<1> QED
  BY <1>4, <1>5, <1>6, <1>7, <1>8, <1>9 DEF Invariant

\* Every step keeps the invariant.
LEMMA NextKeeps == Invariant /\ [Next]_vars => Invariant'
<1> SUFFICES ASSUME Invariant, [Next]_vars PROVE Invariant'
  OBVIOUS
<1>1. CASE UNCHANGED vars
  BY <1>1, SMT
     DEF Invariant, TypeOK, LockInv, CallInv, FileInv, TornInv, NeverTorn, OwnInv, FreshInv,
     OneProcess, File, Merged, vars, threadVars, diskVars, faultVars
<1>2. ASSUME NEW p \in Procs, Kill(p) PROVE Invariant'
  BY <1>2, KillKeeps
<1>3. ASSUME NEW t \in Threads, Construct(t) \/ Call(t) \/ CallStep(t) PROVE Invariant'
  BY <1>3, ConstructKeeps, CallKeeps, EnterKeeps, ReleaseKeeps, ExistsKeeps, MissingKeeps,
     ReadKeeps, ReadKnownKeeps, ReadFailsKeeps, BackupKeeps, OpenKeeps, WriteKeeps,
     WriteFailsKeeps, ReplaceKeeps, ReplaceFailsKeeps DEF CallStep
<1> QED
  BY <1>1, <1>2, <1>3 DEF Next

\* The invariant holds in every reachable state.
LEMMA InvariantHolds == Spec => []Invariant
  BY InitInvariant, NextKeeps, PTL DEF Spec

\* Documents keep the fields of their file, whatever happens to the files and the
\* processes.
THEOREM StoreTypes == Spec => []TypeOK
<1>1. Invariant => TypeOK
  BY DEF Invariant
<1> QED
  BY <1>1, InvariantHolds, PTL

\* _atomic_write_text never leaves a torn file in the place of STATE.md or SKILL.md
\* within one process; with several processes only a writer that was cut off may.
THEOREM StoreNeverTorn == Spec => []NeverTorn
<1>1. Invariant => NeverTorn
  BY DEF Invariant
<1> QED
  BY <1>1, InvariantHolds, PTL

-----------------------------------------------------------------------------
(* The steps as steps of AtomicStore                                       *)

OthersStay(t) == \A u \in Threads : u # t => /\ pc'[u] = pc[u] /\ call'[u] = call[u]
                                             /\ outcome'[u] = outcome[u]

\* A step of one thread that does not change its phase is not seen in the calls.
LEMMA SeenStays ==
  ASSUME NEW t \in Threads, OthersStay(t),
         \/ Phase(t) = "idle" /\ Phase(t)' = "idle"
         \/ Phase(t)' = Phase(t) /\ call'[t] = call[t]
  PROVE  seenCall' = seenCall
<1>1. \A u \in Threads : u # t => Phase(u)' = Phase(u) /\ Request(u)' = Request(u)
  BY DEF OthersStay, Phase, Request
<1>2. Phase(t) # "idle" => Request(t)' = Request(t)
  BY DEF Request
<1> QED
  BY <1>1, <1>2 DEF seenCall

\* A step of one thread that takes its call to the end of its effect is a move of it.
LEMMA SeenMoves ==
  ASSUME NEW t \in Threads, OthersStay(t), call'[t] = call[t], Phase(t) = "called",
         NEW to \in {"applied", "failed"}, Phase(t)' = to
  PROVE  Store!Moves(t, "called", to)
<1>1. \A u \in Threads : u # t => Phase(u)' = Phase(u) /\ Request(u)' = Request(u)
  BY DEF OthersStay, Phase, Request
<1>2. Request(t)' = [Request(t) EXCEPT !.phase = to]
  BY SMT DEF Request
<1>3. seenCall[t] = Request(t) /\ seenCall'[t] = Request(t)'
  BY DEF seenCall
<1>4. \A u \in Threads : u # t => seenCall'[u] = seenCall[u]
  BY <1>1 DEF seenCall
<1>5. seenCall' = [seenCall EXCEPT ![t] = [seenCall[t] EXCEPT !.phase = to]]
  BY <1>2, <1>3, <1>4 DEF seenCall
<1>6. seenCall[t].phase = "called"
  BY <1>3 DEF Request
<1> QED
  BY <1>5, <1>6 DEF Store!Moves

\* While a thread is on its way to the end of its call, nobody sees its steps.
LEMMA QuietSteps ==
  ASSUME Invariant, NEW t \in Threads,
         \/ Construct(t) \/ Enter(t) \/ Exists(t) \/ Missing(t) \/ Read(t)
         \/ Backup(t) \/ Open(t) \/ Write(t)
  PROVE  UNCHANGED <<seenContent, seenCall>>
<1>1. main' = main
  BY DEF Construct, Enter, Exists, Missing, Read, Backup, Open, Write, diskVars
<1>2. seenContent' = seenContent
  BY <1>1 DEF seenContent
<1>3. CASE Construct(t)
  <2>1. OthersStay(t) /\ call[t].op = "none" /\ call'[t].op = "ensure"
    BY <1>3, SMT DEF Invariant, TypeOK, CallInv, Construct, Goes, Calling, OthersStay
  <2>2. Phase(t) = "idle" /\ Phase(t)' = "idle"
    BY <2>1 DEF Phase
  <2> QED
    BY <1>2, <2>1, <2>2, SeenStays
<1>4. CASE Exists(t)
  <2>1. OthersStay(t) /\ call[t].op = "ensure" /\ call'[t].op = "ensure"
    BY <1>4, DoneFacts, SMT DEF Invariant, CallInv, Exists, OthersStay
  <2>2. Phase(t) = "idle" /\ Phase(t)' = "idle"
    BY <2>1 DEF Phase
  <2> QED
    BY <1>2, <2>1, <2>2, SeenStays
<1>5. CASE Enter(t) \/ Missing(t) \/ Read(t) \/ Backup(t) \/ Open(t) \/ Write(t)
  <2>1. call' = call /\ outcome' = outcome
    BY <1>5 DEF Enter, Missing, Read, Backup, Open, Write
  <2>2. /\ pc[t] # "release" /\ pc'[t] # "release"
        /\ \A u \in Threads : u # t => pc'[u] = pc[u]
    BY <1>5, SMT DEF Invariant, TypeOK, Enter, Missing, Read, Backup, Open, Write, Goes
  <2>3. OthersStay(t) /\ Phase(t)' = Phase(t)
    BY <2>1, <2>2 DEF OthersStay, Phase
  <2> QED
    BY <1>2, <2>1, <2>3, SeenStays
<1> QED
  BY <1>3, <1>4, <1>5

\* A call that begins is invoked.
LEMMA CallInvokes ==
  ASSUME Invariant, NEW t \in Threads, Call(t)
  PROVE  Store!Invoke(t)
<1>1. OthersStay(t) /\ pc'[t] = "lock" /\ call[t].op = "none" /\ call'[t].op \in {"update", "append"}
  BY SMT DEF Invariant, TypeOK, CallInv, Call, Goes, Calling, OthersStay
<1>2. Phase(t) = "idle" /\ Phase(t)' = "called"
  BY <1>1 DEF Phase
<1>3. \A u \in Threads : u # t => Phase(u)' = Phase(u) /\ Request(u)' = Request(u)
  BY <1>1 DEF OthersStay, Phase, Request
<1>4. seenCall[t] = Idle /\ seenCall'[t].phase = "called"
  BY <1>2 DEF seenCall, Request
<1>5. seenCall' = [seenCall EXCEPT ![t] = seenCall'[t]]
  BY <1>3 DEF seenCall
<1>6. seenContent' = seenContent
  BY DEF Call, diskVars, seenContent
<1> QED
  BY <1>4, <1>5, <1>6 DEF Store!Invoke, Store!NoCall, Idle

\* A call whose lesson is known already is skipped.
LEMMA KnownSkips ==
  ASSUME Invariant, NEW t \in Threads, ReadKnown(t)
  PROVE  Store!Skip(t)
<1>1. /\ OthersStay(t) /\ call' = call /\ pc[t] = "read" /\ pc'[t] = "release" /\ outcome'[t] = "ok"
      /\ call[t].op = "append" /\ AllKnown(main[File(t)].doc, call[t]) /\ File(t) \in Files
  BY CallType, SMT DEF Invariant, TypeOK, ReadKnown, Ends, Goes, OthersStay
<1>2. Phase(t) = "called" /\ Phase(t)' = "applied"
  BY <1>1 DEF Phase
<1>3. Store!Moves(t, "called", "applied")
  BY <1>1, <1>2, SeenMoves
<1>4. seenCall[t] = Request(t) /\ seenContent[File(t)] = main[File(t)].doc
  BY <1>1, <1>2 DEF seenCall, seenContent
<1>5. Store!AllKnown(seenContent[seenCall[t].file], seenCall[t])
  BY <1>1, <1>4 DEF Store!AllKnown, AllKnown, Request, File
<1>6. seenContent' = seenContent
  BY DEF ReadKnown, diskVars, seenContent
<1> QED
  BY <1>1, <1>3, <1>4, <1>5, <1>6 DEF Store!Skip, Request

\* The replace puts the whole effect of the call in the place of the file.
LEMMA ReplaceApplies ==
  ASSUME Invariant, OneProcess, "unreadable" \notin faults, NEW t \in Threads, Replace(t)
  PROVE  Store!Apply(t) \/ UNCHANGED <<seenContent, seenCall>>
<1>1. /\ pc[t] = "replace" /\ OthersStay(t)
      /\ \/ call[t].op = "ensure" /\ call'[t].op = "ensure"
         \/ pc'[t] = "release" /\ outcome'[t] = "ok" /\ call'[t] = call[t]
  BY DoneFacts, SMT DEF Invariant, Replace, OthersStay
<1>2. /\ File(t) \in Files /\ main'[File(t)] = tmp[File(t)]
      /\ \A f \in Files : f # File(t) => main'[f] = main[f]
  BY CallType, SMT DEF Invariant, TypeOK, Replace
<1>3. main'[File(t)].doc = Merged(main[File(t)].doc, call[t])
  <2>1. tmp[File(t)] = FileOf("whole", mem[t])
    BY <1>1 DEF Invariant, OwnInv
  <2>2. mem[t] = Merged(main[File(t)].doc, call[t])
    BY <1>1 DEF Invariant, FreshInv, Bound
  <2> QED
    BY <1>2, <2>1, <2>2 DEF FileOf
<1>4. seenContent[File(t)] = main[File(t)].doc
  BY <1>2 DEF seenContent
<1>5. CASE call[t].op = "ensure"
  <2>1. call'[t].op = "ensure"
    BY <1>1, <1>5
  <2>2. Phase(t) = "idle" /\ Phase(t)' = "idle"
    BY <1>5, <2>1 DEF Phase
  <2>3. main[File(t)].doc \in [FieldsOf(File(t)) -> Nat] /\ call[t].fields = {}
    BY <1>2, <1>5, CallType, SMT DEF Invariant, TypeOK, FilesOf
  <2>4. main'[File(t)].doc = main[File(t)].doc
    BY <1>2, <1>3, <2>3, MergedNothing
  <2>5. seenContent' = seenContent
    BY <1>2, <2>4, Zenon DEF seenContent
  <2> QED
    BY <1>1, <2>2, <2>5, SeenStays
<1>6. CASE call[t].op # "ensure"
  <2>1. pc'[t] = "release" /\ outcome'[t] = "ok" /\ call'[t] = call[t] /\ call[t].op # "none"
    BY <1>1, <1>6, SMT DEF Invariant, CallInv
  <2>2. Phase(t) = "called" /\ Phase(t)' = "applied"
    BY <1>1, <1>6, <2>1 DEF Phase
  <2>3. Store!Moves(t, "called", "applied")
    BY <1>1, <2>1, <2>2, SeenMoves
  <2>4. seenCall[t] = Request(t)
    BY <2>2 DEF seenCall
  <2>5. seenCall[t].file = File(t) /\ seenCall[t].fields = call[t].fields /\ seenCall[t].stamp = call[t].stamp
    BY <2>4 DEF Request, File
  <2>6. main'[File(t)].doc = Store!Merged(seenContent[File(t)], seenCall[t])
    BY <1>3, <1>4, <2>5 DEF Store!Merged, Merged
  <2>7. seenContent' = [seenContent EXCEPT ![File(t)] = Store!Merged(seenContent[File(t)], seenCall[t])]
    BY <1>2, <2>6, Zenon DEF seenContent
  <2> QED
    BY <1>2, <2>3, <2>5, <2>7 DEF Store!Apply
<1> QED
  BY <1>5, <1>6

\* A step that cannot write or cannot replace fails the call, or is tried again.
LEMMA FailureFails ==
  ASSUME Invariant, NEW t \in Threads, WriteFails(t) \/ ReplaceFails(t)
  PROVE  Store!Fail(t) \/ UNCHANGED <<seenContent, seenCall>>
<1>1. /\ call' = call /\ main' = main /\ pc[t] \in {"open", "write", "replace"}
      /\ \/ pc' = pc /\ outcome' = outcome
         \/ pc' = [pc EXCEPT ![t] = "release"] /\ outcome' = [outcome EXCEPT ![t] = "raised"]
  BY Zenon DEF WriteFails, ReplaceFails, Ends, Goes, diskVars
<1>2. seenContent' = seenContent
  BY <1>1 DEF seenContent
<1>3. CASE pc' = pc /\ outcome' = outcome
  BY <1>1, <1>2, <1>3, SeenStays DEF OthersStay, Phase
<1>4. CASE pc' = [pc EXCEPT ![t] = "release"] /\ outcome' = [outcome EXCEPT ![t] = "raised"]
  <2>1. OthersStay(t) /\ pc'[t] = "release" /\ outcome'[t] = "raised"
    BY <1>1, <1>4 DEF Invariant, TypeOK, OthersStay
  <2>2. CASE call[t].op = "ensure"
    <3>1. Phase(t) = "idle" /\ Phase(t)' = "idle"
      BY <1>1, <2>2 DEF Phase
    <3> QED
      BY <1>2, <2>1, <3>1, SeenStays
  <2>3. CASE call[t].op # "ensure"
    <3>1. call[t].op # "none"
      BY <1>1, SMT DEF Invariant, CallInv
    <3>2. Phase(t) = "called" /\ Phase(t)' = "failed"
      BY <1>1, <2>1, <2>3, <3>1 DEF Phase
    <3> QED
      BY <1>1, <1>2, <2>1, <3>2, SeenMoves DEF Store!Fail
  <2> QED
    BY <2>2, <2>3
<1> QED
  BY <1>1, <1>3, <1>4

\* A call that is left is over.
LEMMA ReleaseEnds ==
  ASSUME Invariant, NEW t \in Threads, Release(t)
  PROVE  Store!End(t) \/ UNCHANGED <<seenContent, seenCall>>
<1>1. /\ OthersStay(t) /\ call'[t] = NoCall /\ pc[t] = "release" /\ outcome[t] \in {"ok", "raised"}
      /\ call[t].op # "none"
  BY SMT DEF Invariant, TypeOK, CallInv, Release, Goes, OthersStay
<1>2. seenContent' = seenContent
  BY DEF Release, diskVars, seenContent
<1>3. Phase(t)' = "idle"
  BY <1>1 DEF Phase, NoCall, Calling
<1>4. CASE call[t].op = "ensure"
  BY <1>1, <1>2, <1>3, <1>4, SeenStays DEF Phase
<1>5. CASE call[t].op # "ensure"
  <2>1. Phase(t) \in {"applied", "failed"}
    BY <1>1, <1>5 DEF Phase
  <2>2. seenCall[t].phase \in {"applied", "failed"} /\ seenCall'[t] = Idle
    BY <1>3, <2>1, SMT DEF seenCall, Request
  <2>3. \A u \in Threads : u # t => seenCall'[u] = seenCall[u]
    BY <1>1 DEF OthersStay, seenCall, Phase, Request
  <2>4. seenCall' = [seenCall EXCEPT ![t] = Idle]
    BY <2>2, <2>3 DEF seenCall
  <2> QED
    BY <1>2, <2>2, <2>4 DEF Store!End, Store!NoCall, Idle
<1> QED
  BY <1>4, <1>5

\* The calls of a process that dies are gone.
LEMMA KillCrashes ==
  ASSUME NEW p \in Procs, Kill(p)
  PROVE  Store!Crash
<1>1. main' = main /\ \A t \in Threads : home[t] # p => pc'[t] = pc[t] /\ call'[t] = call[t] /\ outcome'[t] = outcome[t]
  BY DEF Kill
<1>2. \A t \in Threads : home[t] = p => call'[t].op = "none"
  BY DEF Kill, NoCall, Calling
<1>3. \A t \in Threads : seenCall'[t] = IF t \in {u \in Threads : home[u] = p} THEN Idle ELSE seenCall[t]
  BY <1>1, <1>2 DEF seenCall, Phase, Request
<1>4. seenCall' = [t \in Threads |-> IF t \in {u \in Threads : home[u] = p} THEN Idle ELSE seenCall[t]]
  BY <1>3, Zenon DEF seenCall
<1>5. seenContent' = seenContent
  BY <1>1 DEF seenContent
<1> QED
  BY <1>4, <1>5 DEF Store!Crash, Store!NoCall, Idle

\* Within one process, and while no read fails, every step is a step of AtomicStore
\* or is not seen: an update takes effect as a whole or raises without effect.
THEOREM StoreAtomic == Spec => UpdatesAreAtomic
<1>1. ASSUME Invariant, [Next]_vars, OneProcess, "unreadable" \notin faults'
      PROVE  Store!Next \/ UNCHANGED <<seenContent, seenCall>>
  <2>1. CASE UNCHANGED vars
    BY <2>1 DEF vars, threadVars, diskVars, seenContent, seenCall, Phase, Request
  <2>2. ASSUME NEW p \in Procs, Kill(p) PROVE Store!Next
    BY <2>2, KillCrashes DEF Store!Next
  <2>3. ASSUME NEW t \in Threads, Construct(t) \/ Call(t) \/ CallStep(t)
        PROVE  Store!Next \/ UNCHANGED <<seenContent, seenCall>>
    <3>1. CASE \/ Construct(t) \/ Enter(t) \/ Exists(t) \/ Missing(t) \/ Read(t)
               \/ Backup(t) \/ Open(t) \/ Write(t)
      BY <1>1, <3>1, QuietSteps
    <3>2. CASE Call(t)
      BY <1>1, <3>2, CallInvokes DEF Store!Next
    <3>3. CASE ReadKnown(t)
      BY <1>1, <3>3, KnownSkips DEF Store!Next
    <3>4. CASE Replace(t)
      <4>1. "unreadable" \notin faults
        BY <1>1, <3>4 DEF Replace, faultVars
      <4> QED
        BY <1>1, <3>4, <4>1, ReplaceApplies DEF Store!Next
    <3>5. CASE WriteFails(t) \/ ReplaceFails(t)
      BY <1>1, <3>5, FailureFails DEF Store!Next
    <3>6. CASE Release(t)
      BY <1>1, <3>6, ReleaseEnds DEF Store!Next
    <3>7. CASE ReadFails(t)
      BY <1>1, <3>7 DEF ReadFails, Happens
    <3> QED
      BY <2>3, <3>1, <3>2, <3>3, <3>4, <3>5, <3>6, <3>7 DEF CallStep
  <2> QED
    BY <1>1, <2>1, <2>2, <2>3 DEF Next
<1>2. Invariant /\ [Next]_vars
        => [OneProcess /\ "unreadable" \notin faults' => Store!Next]_<<seenContent, seenCall>>
  BY <1>1
<1> QED
  BY <1>2, InvariantHolds, PTL DEF Spec, UpdatesAreAtomic

-----------------------------------------------------------------------------
(* What an update drops                                                    *)

Newest(doc) == backups # << >> /\ backups[Len(backups)].doc = doc

\* Within one process a document is built from the file as it is, or for an update
\* from the default; behind the backup of an update the file is the newest one, but
\* for a file that holds nothing.
Prepared(t) ==
    /\ pc[t] \in Bound =>
         \/ mem[t] = Merged(main[File(t)].doc, call[t])
         \/ call[t].op = "update" /\ mem[t] = Merged(Default("STATE.md"), call[t])
    /\ pc[t] \in {"open", "write", "replace"} /\ call[t].op = "update" /\ "copy" \notin faults =>
         main["STATE.md"].doc = Default("STATE.md") \/ Newest(main["STATE.md"].doc)

BackupInv == OneProcess => \A t \in Threads : Prepared(t)

\* The backup that was appended last is kept, and it is the last one.
LEMMA KeptLast ==
  ASSUME NEW S, NEW s \in Seq(S), NEW x \in S
  PROVE  LET k == Kept(Append(s, x)) IN k # << >> /\ k[Len(k)] = x
<1> DEFINE a == Append(s, x)
<1>1. a \in Seq(S) /\ Len(a) = Len(s) + 1 /\ Len(s) \in Nat /\ a[Len(a)] = x
  OBVIOUS
<1>2. CASE Len(a) > BackupKeep
  <2>1. BackupKeep \in Nat /\ BackupKeep >= 1
    BY StoreAssumption, SMT
  <2>2. Kept(a) = SubSeq(a, Len(a) - BackupKeep + 1, Len(a))
    BY <1>2 DEF Kept
  <2> HIDE DEF a
  <2>3. Len(a) - BackupKeep + 1 \in 1..Len(a)
    BY <1>1, <1>2, <2>1, SMT
  <2>4. Len(Kept(a)) = BackupKeep /\ Kept(a)[BackupKeep] = a[Len(a)]
    BY <1>1, <2>1, <2>2, <2>3, SMT
  <2>5. Kept(a) # << >>
    BY <2>1, <2>4, SMT
  <2> QED
    BY <1>1, <2>4, <2>5 DEF a
<1>3. CASE ~(Len(a) > BackupKeep)
  <2>1. Kept(a) = a
    BY <1>3 DEF Kept
  <2>2. a # << >>
    BY <1>1, SMT
  <2> QED
    BY <1>1, <2>1, <2>2
<1> QED
  BY <1>2, <1>3

\* A step outside the lock leaves what the others have prepared.
LEMMA OthersPrepared ==
  ASSUME Invariant, OneProcess, NEW t \in Threads, Construct(t) \/ Call(t) \/ CallStep(t),
         NEW u \in Threads, u # t, Prepared(u)
  PROVE  Prepared(u)'
<1>1. pc'[u] = pc[u] /\ call'[u] = call[u] /\ mem'[u] = mem[u]
  <2>1. CASE Exists(t) \/ Replace(t)
    BY <2>1, DoneFacts DEF Invariant, Exists, Replace
  <2>2. CASE ~(Exists(t) \/ Replace(t))
    BY <2>2, SMT DEF Invariant, TypeOK, CallStep, Construct, Call, Enter, Missing, Read, ReadKnown,
       ReadFails, Backup, Open, Write, WriteFails, ReplaceFails, Release, Goes, Ends
  <2> QED
    BY <2>1, <2>2
<1>2. CASE pc[t] \in Inside
  <2>1. pc[u] \notin Inside
    BY <1>2, OneWriter DEF Invariant
  <2> QED
    BY <1>1, <2>1 DEF Prepared, Bound, Inside
<1>3. CASE pc[t] \notin Inside
  <2>1. Construct(t) \/ Call(t) \/ Enter(t)
    BY <1>3, DoneFacts, SMT DEF Invariant, CallStep, Exists, Missing, Read, ReadKnown,
       ReadFails, Backup, Open, Write, WriteFails, Replace, ReplaceFails, Release, Goes, Ends, Inside
  <2>2. UNCHANGED <<main, backups, faults>>
    BY <2>1 DEF Construct, Call, Enter, diskVars, faultVars
  <2> QED
    BY <1>1, <2>2 DEF Prepared, Newest, File, Merged
<1> QED
  BY <1>2, <1>3

\* A thread prepares its document when it reads, and its backup when it rotates.
LEMMA OwnPrepared ==
  ASSUME Invariant, OneProcess, NEW t \in Threads, Construct(t) \/ Call(t) \/ CallStep(t), Prepared(t)
  PROVE  Prepared(t)'
<1>0. /\ TypeOK /\ File(t) \in Files
      /\ call[t].op \in {"none", "update"} => File(t) = "STATE.md"
      /\ call[t].op = "ensure" => call[t].fields = {}
  BY CallType DEF Invariant
<1>1. CASE Exists(t) \/ Replace(t)
  <2>1. pc'[t] \in {"exists", "release"}
    BY <1>0, <1>1, DoneFacts DEF Exists, Replace
  <2> QED
    BY <2>1 DEF Prepared, Bound
<1>2. CASE Construct(t) \/ Call(t) \/ Enter(t) \/ ReadKnown(t) \/ WriteFails(t) \/ Release(t)
  <2>1. pc'[t] \notin Bound
    BY <1>0, <1>2, SMT DEF TypeOK, Construct, Call, Enter, ReadKnown, WriteFails, Release, Goes, Ends, Bound
  <2> QED
    BY <2>1 DEF Prepared, Bound
<1>3. CASE Missing(t)
  <2>1. pc[t] = "exists" /\ call' = call /\ main' = main /\ mem'[t] = Default(File(t))
    BY <1>0, <1>3, SMT DEF TypeOK, Missing, Goes, diskVars
  <2>2. call[t].op = "ensure" /\ call[t].fields = {}
    BY <1>0, <2>1 DEF Invariant, CallInv
  <2>3. main[File(t)].doc = Default(File(t))
    BY <1>0, <1>3, SMT DEF Invariant, FileInv, Missing
  <2>4. Merged(Default(File(t)), call[t]) = Default(File(t))
    BY <1>0, <2>2, DefaultType, MergedNothing
  <2> QED
    BY <2>1, <2>2, <2>3, <2>4 DEF Prepared, File, Merged
<1>4. CASE Read(t)
  <2>1. /\ call' = call /\ main' = main /\ mem'[t] = Merged(main[File(t)].doc, call[t])
        /\ pc'[t] = (IF call[t].op = "update" THEN "backup" ELSE "open")
    BY <1>0, <1>4, SMT DEF TypeOK, Read, Goes, diskVars
  <2> QED
    BY <2>1 DEF Prepared, File, Merged
<1>5. CASE ReadFails(t)
  <2>1. call' = call /\ main' = main
    BY <1>5 DEF ReadFails, diskVars
  <2>2. CASE call[t].op = "update"
    <3>1. pc'[t] = "backup" /\ mem'[t] = Merged(Default("STATE.md"), call[t])
      BY <1>0, <1>5, <2>2, SMT DEF TypeOK, ReadFails, Goes
    <3> QED
      BY <2>1, <2>2, <3>1 DEF Prepared, Merged
  <2>3. CASE call[t].op # "update"
    <3>1. pc'[t] = "release"
      BY <1>0, <1>5, <2>3, SMT DEF TypeOK, ReadFails, Goes, Ends
    <3> QED
      BY <3>1 DEF Prepared, Bound
  <2> QED
    BY <2>2, <2>3
<1>6. CASE Backup(t)
  <2>1. pc[t] = "backup" /\ call' = call /\ main' = main /\ mem' = mem
    BY <1>6 DEF Backup, Goes
  <2>2. \/ mem'[t] = Merged(main'[File(t)'].doc, call'[t])
        \/ call'[t].op = "update" /\ mem'[t] = Merged(Default("STATE.md"), call'[t])
    BY <2>1 DEF Prepared, Bound, File
  <2>3. "copy" \notin faults' => main["STATE.md"].doc = Default("STATE.md") \/ Newest(main["STATE.md"].doc)'
    <3>1. CASE main["STATE.md"].kind = "absent"
      BY <3>1, SMT DEF Invariant, FileInv, Files
    <3>2. CASE main["STATE.md"].kind # "absent" /\ backups' = Kept(Append(backups, main["STATE.md"]))
      <4>1. backups \in Seq(FilesOf("STATE.md")) /\ main["STATE.md"] \in FilesOf("STATE.md")
        BY <1>0 DEF TypeOK, Files
      <4>2. backups' # << >> /\ backups'[Len(backups')] = main["STATE.md"]
        BY <3>2, <4>1, KeptLast
      <4> QED
        BY <2>1, <4>2 DEF Newest
    <3>3. CASE Happens("copy")
      BY <3>3 DEF Happens
    <3> QED
      BY <1>6, <3>1, <3>2, <3>3 DEF Backup
  <2> QED
    BY <2>1, <2>2, <2>3 DEF Prepared, Merged
<1>7. CASE Open(t) \/ Write(t) \/ ReplaceFails(t)
  <2>1. call' = call /\ main' = main /\ mem' = mem /\ backups' = backups /\ faults \subseteq faults'
    BY <1>7 DEF Open, Write, ReplaceFails, Happens, diskVars, faultVars
  <2>2. pc[t] \in {"open", "write", "replace"}
    BY <1>7 DEF Open, Write, ReplaceFails, Goes
  <2> QED
    BY <2>1, <2>2 DEF Prepared, Newest, Bound, File, Merged
<1> QED
  BY <1>1, <1>2, <1>3, <1>4, <1>5, <1>6, <1>7 DEF CallStep

\* Every step keeps what the threads of one process have prepared.
LEMMA BackupKeepsOn == Invariant /\ BackupInv /\ [Next]_vars => BackupInv'
<1> SUFFICES ASSUME Invariant, BackupInv, [Next]_vars, OneProcess'
             PROVE  \A t \in Threads : Prepared(t)'
  BY DEF BackupInv
<1>1. OneProcess
  BY DEF OneProcess, Next, CallStep, Kill, Construct, Call, Enter, Exists, Missing, Read, ReadKnown,
     ReadFails, Backup, Open, Write, WriteFails, Replace, ReplaceFails, Release, vars
<1>2. \A t \in Threads : Prepared(t)
  BY <1>1 DEF BackupInv
<1>3. CASE UNCHANGED vars
  BY <1>2, <1>3 DEF Prepared, Newest, File, Merged, vars, threadVars, diskVars, faultVars
<1>4. ASSUME NEW p \in Procs, Kill(p) PROVE \A t \in Threads : Prepared(t)'
  <2>1. \A t \in Threads : home[t] = p
    BY <1>1, <1>4 DEF OneProcess, Kill
  <2>2. \A t \in Threads : pc'[t] = "off"
    BY <1>4, <2>1 DEF Kill
  <2> QED
    BY <2>2 DEF Prepared, Bound
<1>5. ASSUME NEW t \in Threads, Construct(t) \/ Call(t) \/ CallStep(t)
      PROVE  \A u \in Threads : Prepared(u)'
  BY <1>1, <1>2, <1>5, OwnPrepared, OthersPrepared
<1> QED
  BY <1>3, <1>4, <1>5 DEF Next

\* In the beginning no thread has prepared anything.
LEMMA InitBackup == Init => BackupInv
  BY DEF Init, BackupInv, Prepared, Bound

\* A replace drops a value without setting it only where an update took STATE.md for
\* an empty one; the backup made before is still the newest.
LEMMA DropsWhatIsBackedUp ==
  ASSUME Invariant, BackupInv, OneProcess, "copy" \notin faults, NEW t \in Threads, Replace(t),
         NEW x \in StateFields
  PROVE  \/ main'["STATE.md"].doc[x] = main["STATE.md"].doc[x]
         \/ pc[t] = "replace" /\ pc'[t] # "replace" /\ x \in call[t].fields
         \/ Newest(main["STATE.md"].doc)
<1>1. /\ pc[t] = "replace" /\ pc'[t] # "replace" /\ File(t) \in Files
      /\ \A f \in Files : f # File(t) => main'[f] = main[f]
      /\ main'[File(t)] = tmp[File(t)]
  BY CallType, DoneFacts, SMT DEF Invariant, TypeOK, Replace
<1>2. CASE File(t) # "STATE.md"
  BY <1>1, <1>2 DEF Files
<1>3. CASE File(t) = "STATE.md" /\ x \notin call[t].fields
  <2>1. main'["STATE.md"].doc = mem[t]
    <3>1. tmp[File(t)] = FileOf("whole", mem[t])
      BY <1>1 DEF Invariant, OwnInv
    <3> QED
      BY <1>1, <1>3, <3>1 DEF FileOf
  <2>2. DOMAIN main["STATE.md"].doc = StateFields /\ Default("STATE.md") \in [StateFields -> Nat]
    BY DefaultType, SMT DEF Invariant, TypeOK, FilesOf, FieldsOf, Files
  <2>3. \A doc : x \in DOMAIN doc => Merged(doc, call[t])[x] = doc[x]
    BY <1>3 DEF Merged
  <2>4. /\ \/ mem[t] = Merged(main["STATE.md"].doc, call[t])
           \/ call[t].op = "update" /\ mem[t] = Merged(Default("STATE.md"), call[t])
        /\ call[t].op = "update" =>
             main["STATE.md"].doc = Default("STATE.md") \/ Newest(main["STATE.md"].doc)
    BY <1>1, <1>3 DEF BackupInv, Prepared, Bound
  <2>5. mem[t][x] \in {main["STATE.md"].doc[x], Default("STATE.md")[x]}
    BY <2>2, <2>3, <2>4
  <2> QED
    BY <2>1, <2>2, <2>3, <2>4
<1> QED
  BY <1>1, <1>2, <1>3

\* Within one process, and while backups can be written, an update that takes
\* STATE.md for an empty one leaves what it drops in the newest backup.
THEOREM StoreDroppedIsBackedUp == Spec => DroppedIsBackedUp
<1>1. ASSUME Invariant, BackupInv, [Next]_vars, OneProcess, "copy" \notin faults, NEW x \in StateFields
      PROVE  \/ main'["STATE.md"].doc[x] = main["STATE.md"].doc[x]
             \/ \E t \in Threads : pc[t] = "replace" /\ pc'[t] # "replace" /\ x \in call[t].fields
             \/ backups # << >> /\ backups[Len(backups)].doc[x] = main["STATE.md"].doc[x]
  <2>1. CASE main' = main
    BY <2>1
  <2>2. ASSUME NEW t \in Threads, Replace(t)
        PROVE  \/ main'["STATE.md"].doc[x] = main["STATE.md"].doc[x]
               \/ \E u \in Threads : pc[u] = "replace" /\ pc'[u] # "replace" /\ x \in call[u].fields
               \/ backups # << >> /\ backups[Len(backups)].doc[x] = main["STATE.md"].doc[x]
    BY <1>1, <2>2, DropsWhatIsBackedUp DEF Newest
  <2>3. main' = main \/ \E t \in Threads : Replace(t)
    BY <1>1 DEF Next, CallStep, Kill, Construct, Call, Enter, Exists, Missing, Read, ReadKnown,
       ReadFails, Backup, Open, Write, WriteFails, ReplaceFails, Release, diskVars, vars
  <2> QED
    BY <2>1, <2>2, <2>3
<1>2. Invariant /\ BackupInv /\ [Next]_vars =>
        [OneProcess /\ "copy" \notin faults =>
           \A x \in StateFields :
             \/ main'["STATE.md"].doc[x] = main["STATE.md"].doc[x]
             \/ \E t \in Threads : pc[t] = "replace" /\ pc'[t] # "replace" /\ x \in call[t].fields
             \/ backups # << >> /\ backups[Len(backups)].doc[x] = main["STATE.md"].doc[x]]_vars
  BY <1>1
<1>3. Spec => []BackupInv
  BY InitBackup, BackupKeepsOn, InvariantHolds, PTL DEF Spec
<1> QED
  BY <1>2, <1>3, InvariantHolds, PTL DEF Spec, DroppedIsBackedUp
=============================================================================
