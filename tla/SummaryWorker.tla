---------------------------- MODULE SummaryWorker ----------------------------
(***************************************************************************)
(* The Celery task summarize_session_memory, running beside the requests   *)
(* of the session it summarises: it reads the list, stores a summary of    *)
(* all but its newest messages, and trims the list as a request does.  An  *)
(* exception puts the job back in the queue a limited number of times; a   *)
(* worker that dies leaves it unacknowledged (task_acks_late), so that the *)
(* broker delivers it again, or loses it.                                  *)
(*                                                                         *)
(* A summary is abstracted to the messages it was made of.                 *)
(***************************************************************************)
EXTENDS ExecutionProperties

CONSTANTS
    Jobs,           \* summarisation tasks in the broker's queue
    JobSession,     \* job -> the session it names
    MinToSummarise, \* shorter lists are left alone, 10 in the code
    KeepRecent,     \* newest messages that stay out of the summary, 5
    MaxRetries,     \* max_retries of the task
    JobsApart,      \* are a session's jobs run one at a time?
    JobFaults       \* which of the worker's parties may fail

ASSUME SummaryAssumption ==
    /\ JobSession \in [Jobs -> Sessions]
    /\ KeepRecent \in Nat
    /\ MinToSummarise \in Nat
    /\ KeepRecent < MinToSummarise
    /\ MaxRetries \in Nat
    /\ JobsApart \in BOOLEAN
    /\ JobFaults \subseteq {"store", "death"}

VARIABLES
    job,        \* job -> where it is
    retries,    \* job -> self.request.retries
    loaded,     \* job -> the local list "messages", while it is still needed
    seen,       \* job -> the LLEN reply trim_messages works with, likewise
    covers      \* session -> the messages the stored summary was made of

jobVars == <<job, retries, loaded, seen, covers>>
workerVars == <<vars, jobVars>>

Running  == {"load", "save", "trim_get", "trim_llen", "trim_ltrim"}
JobEnded == {"skipped", "summarized", "failed", "lost"}

\* Every variable stays in its type, a job is not retried more often than the task
\* says, and it sends LTRIM only with an LLEN above the limit, although the list
\* may have been cut between its two readings of the length.
WorkerTypeOK ==
    /\ job \in [Jobs -> {"queued"} \cup Running \cup JobEnded]
    /\ retries \in [Jobs -> 0..MaxRetries]
    /\ loaded \in [Jobs -> Seq(Message)]
    /\ seen \in [Jobs -> Nat]
    /\ covers \in [Sessions -> SUBSET Message]
    /\ \A j \in Jobs : job[j] = "trim_ltrim" => seen[j] > MaxMessages

WInit ==
    /\ Init
    /\ job = [j \in Jobs |-> "queued"]
    /\ retries = [j \in Jobs |-> 0]
    /\ loaded = [j \in Jobs |-> << >>]
    /\ seen = [j \in Jobs |-> 0]
    /\ covers = [s \in Sessions |-> {}]

JobGoto(j, l) == job' = [job EXCEPT ![j] = l]

\* Mutant: a retry goes on where the failed run stopped, with the list it had.
RetryWhereItStopped(j) ==
    IF retries[j] < MaxRetries
      THEN /\ JobGoto(j, "save")
           /\ retries' = [retries EXCEPT ![j] = @ + 1]
      ELSE JobGoto(j, "failed") /\ UNCHANGED retries

\* Mutant: the count of retries is not kept.
RetryUncounted(j) == JobGoto(j, "queued") /\ UNCHANGED retries

\* self.retry, until max_retries is reached.
Retry(j) ==
    IF retries[j] < MaxRetries
      THEN JobGoto(j, "queued") /\ retries' = [retries EXCEPT ![j] = @ + 1]
      ELSE JobGoto(j, "failed") /\ UNCHANGED retries

\* The reply to a command that has been applied: the job goes on at l, or the
\* reply is lost and the task raises.
JobReply(j, l) ==
    \/ JobGoto(j, l) /\ UNCHANGED retries
    \/ "store" \in JobFaults /\ Retry(j)

\* A worker takes the job; a run starts anew.
Deliver(j) ==
    /\ job[j] = "queued"
    /\ JobsApart =>
          \A k \in Jobs : JobSession[k] = JobSession[j] => job[k] \notin Running
    /\ JobGoto(j, "load")
    /\ UNCHANGED <<vars, retries, loaded, seen, covers>>

LoadForSummary(j) ==
    LET list == messages[JobSession[j]] IN
    /\ job[j] = "load"
    /\ loaded' = [loaded EXCEPT ![j] = list]
    /\ JobGoto(j, IF Len(list) < MinToSummarise THEN "skipped" ELSE "save")
    /\ UNCHANGED <<vars, retries, seen, covers>>

\* messages[:-5]
Older(list) == {list[i] : i \in 1..(Len(list) - KeepRecent)}

SaveSummary(j) ==
    LET s == JobSession[j] IN
    /\ job[j] = "save"
    /\ SetSummary(s)
    /\ covers' = [covers EXCEPT ![s] = Older(loaded[j])]
    /\ loaded' = [loaded EXCEPT ![j] = << >>]
    /\ JobReply(j, "trim_get")
    /\ UNCHANGED <<localVars, seen>>

\* trim_if_needed.
JobCheckTrim(j) ==
    /\ job[j] = "trim_get"
    /\ JobGoto(j, IF Len(messages[JobSession[j]]) > MaxMessages
                    THEN "trim_llen" ELSE "summarized")
    /\ UNCHANGED <<vars, retries, loaded, seen, covers>>

\* Mutant: what trim_if_needed found is not tested again.
JobReadLengthOnly(j) ==
    /\ job[j] = "trim_llen"
    /\ seen' = [seen EXCEPT ![j] = Len(messages[JobSession[j]])]
    /\ JobGoto(j, "trim_ltrim")
    /\ UNCHANGED <<vars, retries, loaded, covers>>

JobReadLength(j) ==
    LET n == Len(messages[JobSession[j]]) IN
    /\ job[j] = "trim_llen"
    /\ seen' = [seen EXCEPT ![j] = n]
    /\ JobGoto(j, IF n > MaxMessages THEN "trim_ltrim" ELSE "summarized")
    /\ UNCHANGED <<vars, retries, loaded, covers>>

\* Mutant: the oldest messages are kept.
JobTrimOldest(j) ==
    /\ job[j] = "trim_ltrim"
    /\ TrimKeepsOldest(JobSession[j], seen[j], MaxMessages)
    /\ seen' = [seen EXCEPT ![j] = 0]
    /\ JobReply(j, "summarized")
    /\ UNCHANGED <<localVars, loaded, covers>>

JobTrim(j) ==
    /\ job[j] = "trim_ltrim"
    /\ TrimMessages(JobSession[j], seen[j], MaxMessages)
    /\ seen' = [seen EXCEPT ![j] = 0]
    /\ JobReply(j, "summarized")
    /\ UNCHANGED <<localVars, loaded, covers>>

\* A command of the task did not reach Redis, or its reply was an error.
JobRaises(j) ==
    /\ "store" \in JobFaults
    /\ job[j] \in Running
    /\ Retry(j)
    /\ UNCHANGED <<vars, loaded, seen, covers>>

WorkerDies(j) ==
    /\ "death" \in JobFaults
    /\ job[j] \in Running
    /\ JobGoto(j, "queued") \/ JobGoto(j, "lost")
    /\ UNCHANGED <<vars, retries, loaded, seen, covers>>

Summarise(j) ==
    \/ Deliver(j) \/ LoadForSummary(j) \/ SaveSummary(j)
    \/ JobCheckTrim(j) \/ JobReadLength(j) \/ JobTrim(j) \/ JobRaises(j)

WNext ==
    \/ \E j \in Jobs : Summarise(j) \/ WorkerDies(j)
    \/ \E r \in Requests : Step(r) /\ UNCHANGED jobVars
    \/ /\ Pass
       /\ covers' = [s \in Sessions |-> IF summary'[s] THEN covers[s] ELSE {}]
       /\ UNCHANGED <<job, retries, loaded, seen>>
    \/ /\ \A j \in Jobs : job[j] \in JobEnded
       /\ AllEnded
       /\ UNCHANGED jobVars

\* The broker delivers what is queued and the worker's loop goes on.
WSpec ==
    /\ WInit
    /\ [][WNext]_workerVars
    /\ \A j \in Jobs : WF_workerVars(Summarise(j))

-----------------------------------------------------------------------------
\* Every job is over at some time, unless workers keep dying: runs that raise are
\* repeated max_retries times and then given up, and a job waits for no request.
JobsEnd ==
    <>[][\A j \in Jobs : ~WorkerDies(j)]_job => <>(\A j \in Jobs : job[j] \in JobEnded)

Stored(s) == {messages[s][i] : i \in 1..Len(messages[s])}

\* A summary is not replaced by an older one: what the stored summary was made of
\* and is still in the list is in the next one too, whichever runs raise, are
\* repeated or are delivered again in between, because every run of the task
\* reads the list anew.  For sessions whose jobs are not run at the same time.
SummaryMovesForward ==
    [][\A s \in Sessions :
          summary[s] /\ summary'[s] => covers[s] \cap Stored(s) \subseteq covers'[s]]_workerVars

\* "preserve long-term context": what has been put in the summary stays in the
\* summary or in the list for as long as the summary's key lives.
SummaryAccumulates ==
    [][\A s \in Sessions :
          summary[s] /\ summary'[s] => covers[s] \subseteq covers'[s] \cup Stored(s)']_workerVars

=============================================================================
