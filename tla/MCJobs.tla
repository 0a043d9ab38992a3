------------------------------- MODULE MCJobs --------------------------------
(***************************************************************************)
(* The work done in the background, one part beside the other: the job     *)
(* queue, with two workers of the check lane, so that claims race, and one *)
(* of the AI lane; and the threads that prepare a preview of a workbook,   *)
(* with two open pages, one file and room for one stored reading, so that  *)
(* stored readings push each other out.  A behaviour is about one topic;   *)
(* the other part stays where it begins.                                   *)
(***************************************************************************)
EXTENDS JobQueue, Preview

CONSTANT Topic

VARIABLE topic

mcVars == <<topic, vars, previewVars>>

MCInit == topic \in Topic /\ Init /\ PreviewInit

MCNext ==
    /\ UNCHANGED topic
    /\ \/ topic = "jobs" /\ Next /\ UNCHANGED previewVars
       \/ topic = "preview" /\ PreviewNext /\ UNCHANGED vars

\* Where it begins neither part can take a step its fairness asks for: no
\* job is queued, no page is open.
MCSpec ==
    MCInit /\ [][MCNext]_mcVars /\ Fairness /\ PreviewFairness

=============================================================================
