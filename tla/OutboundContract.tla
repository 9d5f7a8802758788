-------------------------- MODULE OutboundContract --------------------------
(***************************************************************************)
(* What the outbound path promises to the agent who queues a reply, without*)
(* jobs, workers, locks, retries or polls (docs/architecture.md:6): a      *)
(* queued reply is pending until it is either confirmed by an answer the   *)
(* provider really gave, which no other reply can then claim, or given up; *)
(* only a confirmed reply is reported on, and the reports never go back.   *)
(***************************************************************************)
CONSTANTS
  Replies,      \* what agents may queue
  Answers,      \* what a provider may answer with
  None

VARIABLES
  phase,        \* what the agent sees of a reply
  evidence,     \* the provider answer a confirmed reply stands for
  given         \* the answers the provider has given

Phases == {"absent", "pending", "sent", "delivered", "read", "failed"}

Init ==
  /\ phase    = [m \in Replies |-> "absent"]
  /\ evidence = [m \in Replies |-> None]
  /\ given    = {}

Submit(m) ==
  /\ phase[m] = "absent"
  /\ phase' = [phase EXCEPT ![m] = "pending"]
  /\ UNCHANGED <<evidence, given>>

Answer(r) ==
  /\ r \notin given
  /\ given' = given \cup {r}
  /\ UNCHANGED <<phase, evidence>>

Confirm(m, r) ==
  /\ phase[m] = "pending"
  /\ r \in given /\ \A n \in Replies : evidence[n] # r
  /\ phase'    = [phase EXCEPT ![m] = "sent"]
  /\ evidence' = [evidence EXCEPT ![m] = r]
  /\ UNCHANGED given

GiveUp(m) ==
  /\ phase[m] = "pending"
  /\ phase' = [phase EXCEPT ![m] = "failed"]
  /\ UNCHANGED <<evidence, given>>

Follows(old, new) ==
  \/ old = "sent" /\ new \in {"delivered", "read", "failed"}
  \/ old = "delivered" /\ new = "read"

Report(m, new) ==
  /\ Follows(phase[m], new)
  /\ phase' = [phase EXCEPT ![m] = new]
  /\ UNCHANGED <<evidence, given>>

Next ==
  \/ \E m \in Replies : Submit(m) \/ GiveUp(m)
  \/ \E r \in Answers : Answer(r)
  \/ \E m \in Replies, r \in Answers : Confirm(m, r)
  \/ \E m \in Replies, new \in Phases : Report(m, new)

vars == <<phase, evidence, given>>
Spec == Init /\ [][Next]_vars
=============================================================================
