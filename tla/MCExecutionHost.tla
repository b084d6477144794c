-------------------------- MODULE MCExecutionHost --------------------------
(* A small instance of the host for TLC.                                   *)
EXTENDS ExecutionHost, FiniteSets, Naturals

CONSTANTS w1, w2, r1, r2, t1, e1, p1, p2

\* What reached the journal and not the kernel.
Beside == Cardinality(steered) + Cardinality(trace.archived) + Cardinality(trace.delegated)

EffectsIn(S) == \A w \in Works, e \in Effects : live.effect[w][e] \in S
PromptsIdle(P) == \A p \in P : prompt[p].step = "idle"

\* Only w1 and r1 are in use.
Alone ==
    /\ live.works \cup replay.works \subseteq {w1}
    /\ phase[r2] = "none" /\ {live.owner[r2], replay.owner[r2]} = {NoWork}
    /\ relay.work # w2 /\ \A p \in Prompts : prompt[p].work # w2

\* Bound: two prompts and the relay, on one Work and one Run ...
TwoPrompts ==
    /\ Alone /\ Beside = 0
    /\ EffectsIn({"absent", "attempted"}) \/ PromptsIdle({p2})

\* ... or one prompt, with one operation beside the kernel ...
OnePrompt ==
    /\ Alone /\ Beside <= 1
    /\ PromptsIdle({p2})
    /\ EffectsIn({"absent", "attempted"}) \/ PromptsIdle(Prompts)

\* ... or the relay, a second Work with its own Run, and two such operations.
TwoWorks ==
    /\ PromptsIdle({p2})
    /\ PromptsIdle({p1}) \/ (prompt[p1].step = "queued" /\ prompt[p1].work = w2 /\ Beside <= 1)
    /\ Beside <= 2
    /\ EffectsIn({"absent"})
    /\ live.parent[w1] = NoWork
    /\ {live.owner[r1], replay.owner[r1]} \subseteq {w1, NoWork}
    /\ {live.owner[r2], replay.owner[r2]} \subseteq {w2, NoWork}
    /\ relay.run = r2 => relay.step \in {"child_bind", "child_start"} \/ live.run[r2] # "none"
    /\ relay.work \in live.works \cup {NoWork}
    /\ \A r \in Runs : live.run[r] \in {"none", "ready", "running", "completed", "failed"}

HostBound == TwoPrompts \/ OnePrompt \/ TwoWorks
=============================================================================
