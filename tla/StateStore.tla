----------------------------- MODULE StateStore -----------------------------
(***************************************************************************)
(* The two files of one parameter store, STATE.md and SKILL.md.  Threads   *)
(* of one process share a reentrant lock; processes share nothing but the  *)
(* files, because main.py optimize takes no process lock.  A write goes to *)
(* a temporary file, whose name all writers share, and replaces the file   *)
(* with it.  The files are those of Windows: a file that somebody holds    *)
(* open can be opened and truncated by others, but not renamed.            *)
(*                                                                         *)
(* A document is a function from its fields (top-level keys and parameters *)
(* of STATE.md, lessons of SKILL.md) to the number of the call that set it *)
(* last, 0 for the default.                                                *)
(***************************************************************************)
EXTENDS Naturals, Sequences, FiniteSets

CONSTANTS Threads, Procs,
          Homes,       \* the ways threads may belong to processes
          StateFields, Lessons,
          MaxTries,    \* attempts of os.replace
          BackupKeep,  \* BACKUP_KEEP
          MaxCalls,    \* bound on the calls
          Faults,      \* the faults that may happen
          FaultBound   \* how many of them, at most

AllFaults == {"unreadable", \* read_text raises OSError
              "copy",       \* the backup cannot be written
              "disk",       \* the temporary file cannot be opened or written
              "busy",       \* the replace fails: somebody reads the destination
              "kill"}       \* a process dies

Files == {"STATE.md", "SKILL.md"}
FieldsOf(f) == IF f = "STATE.md" THEN StateFields ELSE Lessons
Default(f) == [x \in FieldsOf(f) |-> 0]

None == "none"

ASSUME StoreAssumption ==
    /\ None \notin Threads /\ Homes \subseteq [Threads -> Procs]
    /\ MaxTries \in Nat \ {0} /\ BackupKeep \in Nat \ {0} /\ MaxCalls \in Nat
    /\ Faults \subseteq AllFaults /\ FaultBound \in Nat

VARIABLES
    home,     \* home[t]: the process of thread t; never changes
    \* one thread
    pc,       \* where it stands
    call,     \* the call it is in: [op, file, fields, stamp]
    mem,      \* the document it has built
    tries,    \* attempts of os.replace that failed
    outcome,  \* how the call is about to end
    \* one process
    lock,     \* [owner, depth] of the RLock of the store
    \* the disk
    main,     \* main[f]: the file, [kind, doc]; anything but a whole document reads as the default
    tmp,      \* tmp[f]: its temporary file
    handles,  \* handles[f]: the threads that have the temporary file open
    backups,  \* the backups of STATE.md, oldest first
    \* history
    calls, faults, faultCount

threadVars == <<pc, call, mem, tries, outcome>>
diskVars   == <<main, tmp, handles, backups>>
faultVars  == <<faults, faultCount>>
vars == <<home, threadVars, lock, diskVars, calls, faultVars>>

FileOf(kind, doc) == [kind |-> kind, doc |-> doc]
Absent(f) == FileOf("absent", Default(f))
Torn(f)   == FileOf("torn", Default(f))

Calling(op, file, fields, stamp) == [op |-> op, file |-> file, fields |-> fields, stamp |-> stamp]
NoCall == Calling("none", "STATE.md", {}, 0)

Merged(doc, c) == [x \in DOMAIN doc |-> IF x \in c.fields THEN c.stamp ELSE doc[x]]
AllKnown(doc, c) == \A x \in c.fields : doc[x] # 0

File(t) == call[t].file

Happens(f) ==
    /\ f \in Faults /\ faultCount < FaultBound
    /\ faults' = faults \cup {f} /\ faultCount' = faultCount + 1

Init ==
    /\ home \in Homes
    /\ pc = [t \in Threads |-> "off"]
    /\ call = [t \in Threads |-> NoCall]
    /\ mem = [t \in Threads |-> Default("STATE.md")]
    /\ tries = [t \in Threads |-> 0]
    /\ outcome = [t \in Threads |-> None]
    /\ lock = [p \in Procs |-> [owner |-> None, depth |-> 0]]
    /\ main = [f \in Files |-> Absent(f)] /\ tmp = [f \in Files |-> Absent(f)]
    /\ handles = [f \in Files |-> {}]
    /\ backups = << >>
    /\ calls = 0 /\ faults = {} /\ faultCount = 0

Goes(t, from, to) == pc[t] \in from /\ pc' = [pc EXCEPT ![t] = to]

-----------------------------------------------------------------------------
(* The calls and the lock                                                  *)

\* __init__, whose _ensure_files creates what does not exist.
Construct(t) ==
    /\ Goes(t, {"off"}, "lock")
    /\ call' = [call EXCEPT ![t] = Calling("ensure", "STATE.md", {}, 0)]
    /\ UNCHANGED <<home, mem, tries, outcome, lock, diskVars, calls, faultVars>>

Accepts(op, f, F) == \/ op = "update" /\ f = "STATE.md" /\ F \subseteq StateFields
                     \/ op = "append" /\ f = "SKILL.md" /\ F \subseteq Lessons /\ Cardinality(F) = 1

Call(t) ==
    /\ calls < MaxCalls /\ calls' = calls + 1
    /\ Goes(t, {"idle"}, "lock")
    /\ \E op \in {"update", "append"}, f \in Files, F \in SUBSET (StateFields \cup Lessons) :
         /\ F # {} /\ Accepts(op, f, F)
         /\ call' = [call EXCEPT ![t] = Calling(op, f, F, calls + 1)]
    /\ UNCHANGED <<home, mem, tries, outcome, lock, diskVars, faultVars>>

\* Mutants of MayEnter: threading.Lock in the place of RLock, and no lock.
MayEnterOnce(t) == lock[home[t]].owner = None
MayEnterAlways(t) == TRUE

MayEnter(t) == lock[home[t]].owner \in {None, t}

\* `with self._lock`; append_lesson takes it a second time in read_skills.
Enter(t) ==
    /\ MayEnter(t)
    /\ lock' = [lock EXCEPT ![home[t]] = [owner |-> t, depth |-> @.depth + 1]]
    /\ Goes(t, {"lock", "again"}, IF call[t].op = "ensure" THEN "exists"
                                  ELSE IF call[t].op = "append" /\ pc[t] = "lock" THEN "again"
                                  ELSE "read")
    /\ UNCHANGED <<home, call, mem, tries, outcome, diskVars, calls, faultVars>>

Ends(t, from, how) == Goes(t, from, "release") /\ outcome' = [outcome EXCEPT ![t] = how]

\* The `with` blocks are left, by return or by an exception.
Release(t) ==
    /\ Goes(t, {"release"}, IF call[t].op = "ensure" /\ outcome[t] = "raised" THEN "off" ELSE "idle")
    /\ lock' = [lock EXCEPT ![home[t]] = [owner |-> None, depth |-> 0]]
    /\ call' = [call EXCEPT ![t] = NoCall]
    /\ mem' = [mem EXCEPT ![t] = Default("STATE.md")]
    /\ tries' = [tries EXCEPT ![t] = 0] /\ outcome' = [outcome EXCEPT ![t] = None]
    /\ UNCHANGED <<home, diskVars, calls, faultVars>>

-----------------------------------------------------------------------------
(* Inside the lock                                                         *)

\* _ensure_files goes on to SKILL.md, every other call has ended well.
Done(t, from) ==
    IF call[t].op = "ensure" /\ File(t) = "STATE.md"
    THEN /\ Goes(t, from, "exists") /\ UNCHANGED outcome
         /\ call' = [call EXCEPT ![t].file = "SKILL.md"]
    ELSE Ends(t, from, "ok") /\ UNCHANGED call

Exists(t) ==
    /\ pc[t] = "exists" /\ main[File(t)].kind # "absent"
    /\ Done(t, {"exists"})
    /\ UNCHANGED <<home, mem, tries, lock, diskVars, calls, faultVars>>

Missing(t) ==
    /\ main[File(t)].kind = "absent"
    /\ Goes(t, {"exists"}, "open")
    /\ mem' = [mem EXCEPT ![t] = Default(File(t))]
    /\ UNCHANGED <<home, call, tries, outcome, lock, diskVars, calls, faultVars>>

\* The inner `with` of read_skills is left, append_lesson keeps the lock.
LeaveInner(t) == lock' = [lock EXCEPT ![home[t]].depth = 1]

\* _read_state_unlocked and the merge, or read_skills and the append.
Read(t) ==
    /\ ~(call[t].op = "append" /\ AllKnown(main[File(t)].doc, call[t]))
    /\ Goes(t, {"read"}, IF call[t].op = "update" THEN "backup" ELSE "open")
    /\ mem' = [mem EXCEPT ![t] = Merged(main[File(t)].doc, call[t])]
    /\ LeaveInner(t)
    /\ UNCHANGED <<home, call, tries, outcome, diskVars, calls, faultVars>>

ReadKnown(t) ==
    /\ call[t].op = "append" /\ AllKnown(main[File(t)].doc, call[t])
    /\ Ends(t, {"read"}, "ok")
    /\ LeaveInner(t)
    /\ UNCHANGED <<home, call, mem, tries, diskVars, calls, faultVars>>

\* A STATE.md that cannot be read is taken for the default, SKILL.md raises.
ReadFails(t) ==
    /\ Happens("unreadable")
    /\ IF call[t].op = "update"
       THEN /\ Goes(t, {"read"}, "backup")
            /\ mem' = [mem EXCEPT ![t] = Merged(Default(File(t)), call[t])]
            /\ UNCHANGED outcome
       ELSE Ends(t, {"read"}, "raised") /\ UNCHANGED mem
    /\ LeaveInner(t)
    /\ UNCHANGED <<home, call, tries, diskVars, calls>>

\* Mutant of Kept: sorted() without reverse, the newest backup is unlinked.
KeptOldest(s) == SubSeq(s, 1, IF Len(s) > BackupKeep THEN BackupKeep ELSE Len(s))

Kept(s) == IF Len(s) > BackupKeep THEN SubSeq(s, Len(s) - BackupKeep + 1, Len(s)) ELSE s

\* _rotate_backup_unlocked
Backup(t) ==
    /\ Goes(t, {"backup"}, "open")
    /\ IF main["STATE.md"].kind = "absent" THEN UNCHANGED <<backups, faultVars>>
       ELSE \/ backups' = Kept(Append(backups, main["STATE.md"])) /\ UNCHANGED faultVars
            \/ Happens("copy") /\ UNCHANGED backups
    /\ UNCHANGED <<home, call, mem, tries, outcome, lock, main, tmp, handles, calls>>

-----------------------------------------------------------------------------
(* _atomic_write_text                                                      *)

\* open(tmp, "w") truncates what is there, also under another writer.
Open(t) ==
    /\ Goes(t, {"open"}, "write")
    /\ tmp' = [tmp EXCEPT ![File(t)] = Torn(File(t))]
    /\ handles' = [handles EXCEPT ![File(t)] = @ \cup {t}]
    /\ UNCHANGED <<home, call, mem, tries, outcome, lock, main, backups, calls, faultVars>>

\* write, flush, fsync and close.  The document is written from the start of the
\* file: what a longer one leaves behind it lies after the YAML block.
Write(t) ==
    /\ Goes(t, {"write"}, "replace")
    /\ tmp' = [tmp EXCEPT ![File(t)] = FileOf("whole", mem[t])]
    /\ handles' = [handles EXCEPT ![File(t)] = @ \ {t}]
    /\ UNCHANGED <<home, call, mem, tries, outcome, lock, main, backups, calls, faultVars>>

\* Mutant of WriteFails: the error is swallowed and the replace goes on.
WriteFailsSilently(t) ==
    /\ Goes(t, {"write"}, "replace") /\ Happens("disk")
    /\ tmp' = [tmp EXCEPT ![File(t)] = Torn(File(t))]
    /\ handles' = [handles EXCEPT ![File(t)] = @ \ {t}]
    /\ UNCHANGED <<home, call, mem, tries, outcome, lock, main, backups, calls>>

\* The temporary file cannot be opened, or only a part of it is written.
WriteFails(t) ==
    /\ Ends(t, {"open", "write"}, "raised") /\ Happens("disk")
    /\ IF pc[t] = "open" THEN UNCHANGED tmp
       ELSE tmp' = [tmp EXCEPT ![File(t)] = Torn(File(t))]
    /\ handles' = [handles EXCEPT ![File(t)] = @ \ {t}]
    /\ UNCHANGED <<home, call, mem, tries, lock, main, backups, calls>>

MayReplace(f) == tmp[f].kind # "absent" /\ handles[f] = {}

Replace(t) ==
    /\ pc[t] = "replace" /\ MayReplace(File(t))
    /\ main' = [main EXCEPT ![File(t)] = tmp[File(t)]]
    /\ tmp' = [tmp EXCEPT ![File(t)] = Absent(File(t))]
    /\ tries' = [tries EXCEPT ![t] = 0]
    /\ Done(t, {"replace"})
    /\ UNCHANGED <<home, mem, lock, handles, backups, calls, faultVars>>

\* Somebody has one of the two files open, or another process has taken the
\* temporary file away: sleep and try again, at last raise.
ReplaceFails(t) ==
    /\ pc[t] = "replace"
    /\ IF MayReplace(File(t)) THEN Happens("busy") ELSE UNCHANGED faultVars
    /\ IF tries[t] + 1 < MaxTries
       THEN tries' = [tries EXCEPT ![t] = @ + 1] /\ UNCHANGED <<pc, outcome>>
       ELSE Ends(t, {"replace"}, "raised") /\ UNCHANGED tries
    /\ UNCHANGED <<home, call, mem, lock, diskVars, calls>>

-----------------------------------------------------------------------------
\* The process dies: its lock, its memory and its handles are gone, its files stay.
Kill(p) ==
    LET dead(t) == home[t] = p
    IN  /\ Happens("kill") /\ \E t \in Threads : dead(t) /\ pc[t] # "off"
        /\ pc' = [t \in Threads |-> IF dead(t) THEN "off" ELSE pc[t]]
        /\ call' = [t \in Threads |-> IF dead(t) THEN NoCall ELSE call[t]]
        /\ mem' = [t \in Threads |-> IF dead(t) THEN Default("STATE.md") ELSE mem[t]]
        /\ tries' = [t \in Threads |-> IF dead(t) THEN 0 ELSE tries[t]]
        /\ outcome' = [t \in Threads |-> IF dead(t) THEN None ELSE outcome[t]]
        /\ lock' = [lock EXCEPT ![p] = [owner |-> None, depth |-> 0]]
        /\ handles' = [f \in Files |-> {t \in handles[f] : ~dead(t)}]
        /\ UNCHANGED <<home, main, tmp, backups, calls>>

CallStep(t) == \/ Enter(t) \/ Exists(t) \/ Missing(t) \/ Read(t) \/ ReadKnown(t) \/ ReadFails(t)
               \/ Backup(t) \/ Open(t) \/ Write(t) \/ WriteFails(t)
               \/ Replace(t) \/ ReplaceFails(t) \/ Release(t)

Next == \/ \E t \in Threads : Construct(t) \/ Call(t) \/ CallStep(t)
        \/ \E p \in Procs : Kill(p)

Spec == Init /\ [][Next]_vars

\* A thread in a call goes on as soon as it can; nobody has to make a call.
FairSpec == Spec /\ \A t \in Threads : WF_vars(CallStep(t))

-----------------------------------------------------------------------------
(* Properties                                                              *)

Places == {"off", "idle", "lock", "again", "exists", "read", "backup", "open", "write",
           "replace", "release"}
FilesOf(f) == [kind : {"absent", "torn", "whole"}, doc : [FieldsOf(f) -> Nat]]
CallsOf(op, f, fields) == [op : op, file : f, fields : SUBSET fields, stamp : Nat]

\* Documents have the fields of their file, and so has what a thread is about to write.
TypeOK ==
    /\ home \in Homes
    /\ pc \in [Threads -> Places]
    /\ call \in [Threads -> CallsOf({"none", "update"}, {"STATE.md"}, StateFields)
                              \cup CallsOf({"append"}, {"SKILL.md"}, Lessons)
                              \cup CallsOf({"ensure"}, Files, {})]
    /\ DOMAIN mem = Threads
    /\ \A t \in Threads : pc[t] \in {"backup", "open", "write", "replace"}
                            => mem[t] \in [FieldsOf(File(t)) -> Nat]
    /\ tries \in [Threads -> Nat] /\ \A t \in Threads : tries[t] < MaxTries
    /\ outcome \in [Threads -> {None, "ok", "raised"}]
    /\ lock \in [Procs -> [owner : Threads \cup {None}, depth : 0..2]]
    /\ DOMAIN main = Files /\ \A f \in Files : main[f] \in FilesOf(f)
    /\ DOMAIN tmp = Files /\ \A f \in Files : tmp[f] \in FilesOf(f)
    /\ handles \in [Files -> SUBSET Threads]
    /\ backups \in Seq(FilesOf("STATE.md"))
    /\ calls \in Nat /\ faults \subseteq AllFaults /\ faultCount \in 0..FaultBound

OneProcess == \A t, u \in Threads : home[t] = home[u]

\* "_atomic_write_text": whoever looks at a file finds a whole document, whatever
\* write has failed and whenever a process has died; with several processes
\* only as long as no writer has been cut off.
NeverTorn ==
    OneProcess \/ faults \cap {"disk", "kill"} = {} =>
        \A f \in Files : main[f].kind # "torn"

\* A value that an update drops without setting it (because it took a file it could
\* not read for an empty one) is in the newest backup, unless copying failed.
DroppedIsBackedUp ==
    [][OneProcess /\ "copy" \notin faults =>
         \A x \in StateFields :
           \/ main'["STATE.md"].doc[x] = main["STATE.md"].doc[x]
           \/ \E t \in Threads : pc[t] = "replace" /\ pc'[t] # "replace" /\ x \in call[t].fields
           \/ backups # << >> /\ backups[Len(backups)].doc[x] = main["STATE.md"].doc[x]]_vars

\* Every call returns or raises, although append_lesson takes the lock twice and
\* the replace is tried again and again.
CallsEnd == \A t \in Threads : pc[t] \notin {"off", "idle"} ~> pc[t] \in {"off", "idle"}

-----------------------------------------------------------------------------
(* The store as its callers see it                                         *)

Phase(t) == IF call[t].op \in {"none", "ensure"} THEN "idle"
            ELSE IF pc[t] # "release" THEN "called"
            ELSE IF outcome[t] = "ok" THEN "applied" ELSE "failed"

Request(t) == [phase |-> Phase(t), op |-> call[t].op, file |-> call[t].file,
               fields |-> call[t].fields, stamp |-> call[t].stamp]
Idle == [phase |-> "idle", op |-> "none", file |-> "none", fields |-> {}, stamp |-> 0]

seenContent == [f \in Files |-> main[f].doc]
seenCall    == [t \in Threads |-> IF Phase(t) = "idle" THEN Idle ELSE Request(t)]

Store == INSTANCE AtomicStore WITH content <- seenContent, call <- seenCall

\* Within one process, and while no read fails, every step is a step of AtomicStore:
\* calls take effect as a whole, one after the other, or raise without effect,
\* whatever fails and whenever the process dies.
UpdatesAreAtomic ==
    [][OneProcess /\ "unreadable" \notin faults' => Store!Next]_<<seenContent, seenCall>>
=============================================================================
