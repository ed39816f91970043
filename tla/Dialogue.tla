------------------------------- MODULE Dialogue -------------------------------
(***************************************************************************)
(* What the two language models contribute to a run: the client that calls *)
(* them with retries and reads their JSON, the Maker that proposes         *)
(* overrides of knobs, the Checker that reviews the proposals, and the     *)
(* reading of overrides by canonicalize_candidate.  A dialogue is what the *)
(* service does in one run: for the Maker and for the Checker the failures *)
(* of the call and the reply that comes after them.                        *)
(***************************************************************************)
EXTENDS Integers, Sequences

CONSTANTS None,           \* Python's None, and an empty dict
          Knobs, Values,  \* one knob per path, or per pair of paths set together
          Allowed,        \* values of each in llm_parameter_specs, all of them floats
          Names,          \* names in a reply: knobs, and others, one path of a pair among them
          Odd,            \* a value that float() refuses
          MaxRetries,     \* max_retries
          Environments,   \* the two API keys of the environment
          Dialogues

Keys == {"missing", "placeholder", "short", "studio", "express"}
Failures == {"rate", "overloaded", "timeout", "server", \* what a later attempt may not meet
             "billing", "empty", "refused"}

\* The overrides of one item, and items as they stand in a reply.
Overrides == UNION {[N -> Values \cup {Odd}] : N \in SUBSET Names}
Items == [overrides : Overrides, decision : STRING]

\* A cut reply keeps some items and a part of the next one, whose last value may
\* have lost digits; of a lost one no JSON can be made.
Cuts(items) == [items : 0..(Len(items) - 1), names : SUBSET Names, last : Names, value : Values]
IsReply(r) == /\ r.text \in {"whole", "cut", "lost"} /\ r.items \in Seq(Items)
              /\ r.text = "cut" => /\ r.cut \in Cuts(r.items)
                                   /\ r.cut.names \subseteq DOMAIN r.items[r.cut.items + 1].overrides
IsCall(c) == c.failures \in Seq(Failures) /\ IsReply(c.reply)

ASSUME DialogueAssumption ==
    /\ Allowed \in [Knobs -> SUBSET Values] /\ Knobs \subseteq Names /\ Odd \notin Values
    /\ MaxRetries \in Nat \ {0}
    /\ Environments \subseteq [google : Keys, gemini : Keys]
    /\ \A d \in Dialogues : d.client \in BOOLEAN /\ IsCall(d.maker) /\ IsCall(d.checker)

\* Some knobs, each with an allowed value.
Candidates == {c \in UNION {[K -> Values] : K \in SUBSET Knobs \ {{}}} : \A k \in DOMAIN c : c[k] \in Allowed[k]}

-----------------------------------------------------------------------------
(* GoogleAIClient                                                          *)

LooksLikeApiKey(key) == key \in {"studio", "express"}

\* An express key first, then that of GOOGLE_API_KEY, then the other.
ResolveApiKey(env) ==
    CASE "express" \in {env.google, env.gemini} -> "express"
      [] LooksLikeApiKey(env.google) -> env.google
      [] LooksLikeApiKey(env.gemini) -> env.gemini
      [] OTHER -> "missing"

Available(env) == LooksLikeApiKey(ResolveApiKey(env))

Retryable(failure) == failure \in {"rate", "overloaded", "timeout", "server"}

\* generate_content: the reply is there if the package is, if what came before it is
\* worth an attempt more each time, and if there are attempts enough.
Answers(d, call) ==
    /\ d.client
    /\ Len(call.failures) < MaxRetries
    /\ \A i \in 1..Len(call.failures) : Retryable(call.failures[i])

\* _repair_truncated_json closes what is open: an item that was cut counts with the
\* overrides it has, and without a decision.
Repaired(items, cut) ==
    Append(SubSeq(items, 1, cut.items),
           [overrides |-> [n \in cut.names |-> IF n = cut.last THEN cut.value ELSE items[cut.items + 1].overrides[n]],
            decision |-> "reject"])

\* extract_json, and the list that the caller takes from the object.
ExtractJson(reply) ==
    CASE reply.text = "whole" -> reply.items
      [] reply.text = "cut" -> Repaired(reply.items, reply.cut)
      [] reply.text = "lost" -> <<>>

\* A call that fails and a reply without JSON leave the caller nothing to read.
Received(d, call) == IF Answers(d, call) THEN ExtractJson(call.reply) ELSE <<>>

-----------------------------------------------------------------------------
(* canonicalize_candidate, StrategyMaker and StrategyChecker               *)

Canonical(overrides) == IF overrides \in Candidates THEN overrides ELSE None

\* Overrides with a value that float() refuses raise out of the caller, unless an
\* offence of another kind is met before: which is first depends on their order.
OddNames(overrides) == {n \in DOMAIN overrides \cap Knobs : overrides[n] = Odd}
Offending(overrides) == {n \in DOMAIN overrides : n \notin Knobs \/ overrides[n] \notin Allowed[n]}
MayRaise(overrides) == OddNames(overrides) # {}
MustRaise(overrides) == MayRaise(overrides) /\ Offending(overrides) \subseteq Knobs
                          /\ \A n \in Offending(overrides) : overrides[n] = Odd

OverridesIn(items) == {items[i].overrides : i \in 1..Len(items)}

\* StrategyMaker.propose: the candidates of the reply, each once.
Proposed(d) == {Canonical(o) : o \in OverridesIn(Received(d, d.maker))} \ {None}

\* The Checker is not asked about no candidates.
Reviewed(d) == IF Proposed(d) = {} THEN <<>> ELSE Received(d, d.checker)

\* StrategyChecker.review: a review of something that was not proposed is passed over,
\* a proposal without a review is rejected, as all are when the call fails.
Approves(item) == item.decision \in {"approve", "pass", "accepted", "accept"}

Verdicts == {v \in [params : Candidates \cup {None}, approved : BOOLEAN] : v.approved => v.params \in Candidates}

Reviews(d) ==
    [i \in 1..Len(Reviewed(d)) |->
        LET item == Reviewed(d)[i] IN
        [params |-> Canonical(item.overrides),
         approved |-> Canonical(item.overrides) \in Proposed(d) /\ Approves(item)]]

OverridesRead(d) == OverridesIn(Received(d, d.maker)) \cup OverridesIn(Reviewed(d))
=============================================================================
