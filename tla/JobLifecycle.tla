---------------------------- MODULE JobLifecycle ----------------------------
(***************************************************************************)
(* What the durable job service promises the tenant and the provider bill, *)
(* without slots, leases or stores.  A job is open until one outcome is    *)
(* settled, the outcome is final (an unreadable result may only be buried),*)
(* a chat job is billed by the provider at most once, it succeeds only     *)
(* after it was billed, and a billed job is never reported as a plain      *)
(* failure.  Many jobs may evolve in one step: claim_ai_job sweeps all of  *)
(* the abandoned rows before it leases one.                                *)
(***************************************************************************)

CONSTANTS Jobs      \* row identifiers (uuid4), never reused

VARIABLES phase,    \* phase[j]: what a reader of the row is told
          kind,     \* kind[j]: "chat" or "compress", fixed by submit
          billed    \* billed[j]: how many provider requests were accepted

vars == <<phase, kind, billed>>

Outcomes == {"succeeded", "failed", "cancelled", "dead"}
Phases   == {"absent", "open", "purged"} \cup Outcomes
Kinds    == {"chat", "compress"}

Init == /\ phase = [j \in Jobs |-> "absent"]
        /\ kind \in [Jobs -> Kinds]
        /\ billed = [j \in Jobs |-> 0]

Submitted(j) == /\ phase[j] = "absent"
                /\ phase'[j] = "open"
                /\ billed'[j] = billed[j]

\* The provider accepts the one request of a chat job.  A slot that lost its
\* lease between the outbound marker and the request may send it while the row
\* is already swept, so the job may be dead (or even purged), never cancelled.
Billed(j) == /\ kind[j] = "chat"
             /\ billed[j] = 0
             /\ phase[j] \in {"open", "dead", "purged"}
             /\ billed'[j] = 1
             /\ UNCHANGED <<phase[j], kind[j]>>

Settled(j) == /\ phase[j] = "open"
              /\ phase'[j] \in Outcomes
              /\ phase'[j] = "succeeded" /\ kind[j] = "chat" => billed[j] = 1
              /\ phase'[j] = "failed" => billed[j] = 0
              /\ UNCHANGED <<kind[j], billed[j]>>

Buried(j) == /\ phase[j] = "succeeded"
             /\ phase'[j] = "dead"
             /\ UNCHANGED <<kind[j], billed[j]>>

Purged(j) == /\ phase[j] \in Outcomes
             /\ phase'[j] = "purged"
             /\ UNCHANGED <<kind[j], billed[j]>>

Same(j) == UNCHANGED <<phase[j], kind[j], billed[j]>>

Evolves(j) == \/ Submitted(j) \/ Billed(j) \/ Settled(j)
              \/ Buried(j) \/ Purged(j) \/ Same(j)

Next == \A j \in Jobs : Evolves(j)

Spec == Init /\ [][Next]_vars
=============================================================================
