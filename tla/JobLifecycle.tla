---------------------------- MODULE JobLifecycle ----------------------------
(***************************************************************************)
(* What the job queue promises to the code that enqueues work and to the   *)
(* officer who watches it, without workers, sessions, clocks or crashes:   *)
(* a job is handed to one handler at most once, the jobs of one lane are   *)
(* started in the order they were enqueued, and a reported outcome is      *)
(* final.  JobQueue implements this specification.                         *)
(***************************************************************************)
EXTENDS Naturals

CONSTANT Job            \* the numbers the jobs table may hand out

VARIABLES
    status,             \* [Job -> Status], "none" until the row exists
    lane                \* [Job -> Lane \cup {"none"}], who may start it

vars == <<status, lane>>

Status == {"none", "queued", "running", "done", "failed"}
Lane == {"check", "ai"}
Outcome == {"done", "failed"}

Init ==
    /\ status = [j \in Job |-> "none"]
    /\ lane = [j \in Job |-> "none"]

\* A job enters the queue of its lane; identifiers are handed out in order.
Submit(j, l) ==
    /\ status[j] = "none"
    /\ \A i \in Job : i < j => status[i] # "none"
    /\ status' = [status EXCEPT ![j] = "queued"]
    /\ lane' = [lane EXCEPT ![j] = l]

\* A job starts only when no older job of its lane is still waiting.
Start(j) ==
    /\ status[j] = "queued"
    /\ \A i \in Job : i < j /\ lane[i] = lane[j] => status[i] # "queued"
    /\ status' = [status EXCEPT ![j] = "running"]
    /\ UNCHANGED lane

\* Started jobs get their outcome: one by its worker, several by a sweep.
Settle(S, out) ==
    /\ S # {}
    /\ \A j \in S : status[j] = "running"
    /\ status' = [j \in Job |-> IF j \in S THEN out ELSE status[j]]
    /\ UNCHANGED lane

Next ==
    \/ \E j \in Job, l \in Lane : Submit(j, l)
    \/ \E j \in Job : Start(j)
    \/ \E S \in SUBSET Job, out \in Outcome : Settle(S, out)

Spec == Init /\ [][Next]_vars

=============================================================================
