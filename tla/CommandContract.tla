--------------------------- MODULE CommandContract ---------------------------
(***************************************************************************)
(* What the command store promises to a provider adapter, without           *)
(* connections, messages or polling: a command is known by its idempotency  *)
(* key, the agent carries it out at most once, it is settled once, by what  *)
(* the agent did or because it cannot be sent, and a caller is told that it *)
(* succeeded or failed only when it did.                                    *)
(***************************************************************************)
CONSTANTS Keys

VARIABLES
  status,   \* status[k]: "absent", "pending", "succeeded" or "failed"
  outcome,  \* outcome[k]: what the agent did: "none", "ok" or "error"
  told      \* <<k, answer>> for each final answer that a caller was given

vars == <<status, outcome, told>>

Init ==
  /\ status = [k \in Keys |-> "absent"]
  /\ outcome = [k \in Keys |-> "none"]
  /\ told = {}

Request(k) ==
  /\ status[k] = "absent"
  /\ status' = [status EXCEPT ![k] = "pending"]
  /\ UNCHANGED <<outcome, told>>

(* A command that was settled without the agent is not carried out.          *)
CarryOut(k, o) ==
  /\ status[k] = "pending" /\ outcome[k] = "none"
  /\ outcome' = [outcome EXCEPT ![k] = o]
  /\ UNCHANGED <<status, told>>

Settle(k) ==
  /\ status[k] = "pending" /\ outcome[k] # "none"
  /\ status' = [status EXCEPT ![k] = IF outcome[k] = "ok" THEN "succeeded" ELSE "failed"]
  /\ UNCHANGED <<outcome, told>>

Reject(k) ==
  /\ status[k] = "pending" /\ outcome[k] = "none"
  /\ status' = [status EXCEPT ![k] = "failed"]
  /\ UNCHANGED <<outcome, told>>

Tell(k) ==
  /\ status[k] \in {"succeeded", "failed"}
  /\ told' = told \union {<<k, status[k]>>}
  /\ UNCHANGED <<status, outcome>>

Next ==
  \E k \in Keys :
    \/ Request(k) \/ Settle(k) \/ Reject(k) \/ Tell(k)
    \/ \E o \in {"ok", "error"} : CarryOut(k, o)

Spec == Init /\ [][Next]_vars
=============================================================================
