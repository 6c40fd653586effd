-------------------------- MODULE SessionLifecycle --------------------------
(***************************************************************************)
(* What the distillation queue promises about one raw session, whatever    *)
(* the worker, the store and the LLM do: the states a row passes through,  *)
(* who may move it, and how often it is attempted.  Rows are claimed by    *)
(* the worker in batches; only a claimed row is attempted or settled.  A   *)
(* row that overflows the backlog is archived, claimed or not, and a       *)
(* claimed row that was archived may still be settled.  Rows of an older   *)
(* table are imported as they are, with no attempt spent.                  *)
(***************************************************************************)
EXTENDS Integers

CONSTANTS
    Sessions,
    Imported,    \* those of an older table, copied between two runs of the worker
    MaxAttempts

VARIABLES
    state,     \* the state of each session's row, "absent" if there is none
    attempts,  \* how often the row was handed to the LLM
    claimed    \* the rows in the worker's hands

vars == <<state, attempts, claimed>>

Init ==
    /\ state = [s \in Sessions |-> "absent"]
    /\ attempts = [s \in Sessions |-> 0]
    /\ claimed = {}

\* A session too trivial to distil is only recorded.
RecordFiltered(s) ==
    /\ state[s] = "absent"
    /\ state' = [state EXCEPT ![s] = "filtered"]
    /\ UNCHANGED <<attempts, claimed>>

\* A session joins the queue; rows that waited too long leave it.
Submit(s) ==
    /\ state[s] = "absent"
    /\ \E out \in SUBSET ({t \in Sessions : state[t] = "pending"} \cup {s}) :
          state' = [t \in Sessions |-> IF t \in out THEN "archived"
                                       ELSE IF t = s THEN "pending" ELSE state[t]]
    /\ UNCHANGED <<attempts, claimed>>

\* Imported rows that are not there are copied, waiting or settled.
Import ==
    /\ claimed = {}
    /\ \E rows \in SUBSET {s \in Imported : state[s] = "absent"} :
          /\ \E found \in [rows -> {"pending", "distilled", "failed"}] :
                state' = [s \in Sessions |-> IF s \in rows THEN found[s] ELSE state[s]]
          /\ attempts' = [s \in Sessions |-> IF s \in rows THEN 0 ELSE attempts[s]]
    /\ UNCHANGED claimed

\* The worker takes waiting rows that have attempts left.
Claim ==
    /\ claimed = {}
    /\ claimed' \in SUBSET {s \in Sessions : state[s] = "pending"
                                             /\ attempts[s] < MaxAttempts}
    /\ UNCHANGED <<state, attempts>>

\* An attempt is spent.
Try(s) ==
    /\ s \in claimed
    /\ attempts[s] < MaxAttempts
    /\ attempts' = [attempts EXCEPT ![s] = @ + 1]
    /\ UNCHANGED <<state, claimed>>

\* The verdict on a claimed row.  Giving up takes all of the attempts, and
\* putting it back takes an attempt that is left.
Settle(s) ==
    /\ s \in claimed
    /\ state[s] # "absent"
    /\ \/ state' = [state EXCEPT ![s] = "distilled"]
       \/ attempts[s] >= MaxAttempts /\ state' = [state EXCEPT ![s] = "failed"]
       \/ attempts[s] < MaxAttempts /\ state' = [state EXCEPT ![s] = "pending"]
    /\ claimed' \in {claimed, claimed \ {s}}
    /\ UNCHANGED attempts

\* Claimed rows are let go: done with, or lost in a crash.
Release ==
    /\ claimed' \in SUBSET claimed
    /\ UNCHANGED <<state, attempts>>

\* Rows are deleted by retention or with their project.
Remove ==
    /\ \E gone \in SUBSET Sessions :
          /\ state' = [s \in Sessions |-> IF s \in gone THEN "absent" ELSE state[s]]
          /\ attempts' = [s \in Sessions |-> IF s \in gone THEN 0 ELSE attempts[s]]
    /\ UNCHANGED claimed

Next ==
    \/ \E s \in Sessions : RecordFiltered(s) \/ Submit(s) \/ Try(s) \/ Settle(s)
    \/ Import
    \/ Claim
    \/ Release
    \/ Remove

Spec == Init /\ [][Next]_vars
=============================================================================
