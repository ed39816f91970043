----------------------------- MODULE AtomicStore -----------------------------
(***************************************************************************)
(* What StateStore promises its callers: a call of update_state or         *)
(* append_lesson takes effect at one instant between its begin and its end *)
(* and as a whole, or it raises and has no effect.  A process that dies    *)
(* takes its calls with it and no part of the documents.                   *)
(***************************************************************************)
EXTENDS Naturals

CONSTANTS Threads, Files

VARIABLES content, \* content[f]: the document of file f, a function on its fields
          call     \* call[t]: [phase, op, file, fields, stamp]; the fields get the stamp

NoCall == [phase |-> "idle", op |-> "none", file |-> "none", fields |-> {}, stamp |-> 0]

Merged(doc, c) == [x \in DOMAIN doc |-> IF x \in c.fields THEN c.stamp ELSE doc[x]]
AllKnown(doc, c) == \A x \in c.fields : doc[x] # 0

Init == call = [t \in Threads |-> NoCall]

\* call[t] goes on from one phase to another, nothing else of it changes.
Moves(t, from, to) ==
    /\ call[t].phase = from
    /\ call' = [call EXCEPT ![t] = [@ EXCEPT !.phase = to]]

Invoke(t) ==
    /\ call[t] = NoCall
    /\ call'[t].phase = "called" /\ call' = [call EXCEPT ![t] = call'[t]]
    /\ UNCHANGED content

Apply(t) ==
    /\ Moves(t, "called", "applied")
    /\ \E f \in Files : /\ f = call[t].file
                        /\ content' = [content EXCEPT ![f] = Merged(content[f], call[t])]

\* A lesson that is known already is not appended again.
Skip(t) ==
    /\ Moves(t, "called", "applied")
    /\ call[t].op = "append" /\ AllKnown(content[call[t].file], call[t])
    /\ UNCHANGED content

Fail(t) == Moves(t, "called", "failed") /\ UNCHANGED content

End(t) ==
    /\ call[t].phase \in {"applied", "failed"}
    /\ call' = [call EXCEPT ![t] = NoCall]
    /\ UNCHANGED content

Crash ==
    /\ \E T \in SUBSET Threads : call' = [t \in Threads |-> IF t \in T THEN NoCall ELSE call[t]]
    /\ UNCHANGED content

Next == Crash \/ \E t \in Threads : Invoke(t) \/ Apply(t) \/ Skip(t) \/ Fail(t) \/ End(t)

Spec == Init /\ [][Next]_<<content, call>>
=============================================================================
