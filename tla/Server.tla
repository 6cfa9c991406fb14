------------------------------- MODULE Server -------------------------------
(***************************************************************************)
(* The process: how it starts, serves, works off the background jobs in    *)
(* its Redis queues, and shuts down when a signal asks it to.  A           *)
(* supervisor starts it again.                                             *)
(*                                                                         *)
(* The queues outlive the process.  What BullMQ does with a job (attempts, *)
(* backoff, locks that expire) is modelled from the options the code gives *)
(* it.                                                                     *)
(***************************************************************************)
EXTENDS Naturals, FiniteSets

CONSTANTS
  Calls,      \* requests that announce something
  Jobs,
  JobsOf,     \* the jobs each of them queues
  Retries,    \* of connectDatabase (5)
  Attempts,   \* of a job (3)
  MaxStarts   \* bound: starts of the process

ASSUME ServerConstants ==
  /\ JobsOf \in [Calls -> SUBSET Jobs]
  /\ \A c, d \in Calls : c # d => JobsOf[c] \cap JobsOf[d] = {}
  /\ Retries \in Nat \ {0} /\ Attempts \in Nat \ {0} /\ MaxStarts \in Nat

VARIABLES
  boot,      \* bootstrap: "down", "connecting" or "up"
  failed,    \* failed attempts to connect to the database
  stop,      \* shutdown: "none", or what it is waiting for
  closing,   \* has the HTTP server been asked to close?
  second,    \* has it been asked twice?
  early,     \* did the signal come before there was a server?
  request,   \* "none", "open" or "done"
  job,       \* [state, attempts, stalls, effects, repeats] of each job
  exit,      \* history: how the process last ended
  starts

processVars == <<boot, failed, stop, closing, second, early>>
serverVars == <<processVars, request, job, exit, starts>>

Open == {c \in Calls : request[c] = "open"}

InState(states) == {j \in Jobs : job[j].state \in states}

Active == InState({"active", "performed"})

Settled == {"absent", "completed", "failed", "lost"}

(* The workers started by bootstrap take jobs until stopWorkers; a signal  *)
(* that came early has called it before there were any.                    *)
Working == boot = "up" /\ (stop \in {"none", "http"} \/ early)

-----------------------------------------------------------------------------
Set(j, state) == job' = [job EXCEPT ![j].state = state]

(* process.exit: what was being queued is lost, and a job that was being   *)
(* worked on keeps its lock until that expires.                            *)
Exit(code) ==
  /\ boot' = "down"
  /\ exit' = [code |-> code, cut |-> Open # {} \/ Active # {}, early |-> early]
  /\ request' = [c \in Calls |-> IF request[c] = "open" THEN "done" ELSE request[c]]
  /\ job' = [j \in Jobs |->
       CASE job[j].state = "queueing" -> [job[j] EXCEPT !.state = "lost"]
         [] job[j].state = "active" -> [job[j] EXCEPT !.state = "locked"]
         [] job[j].state = "performed" -> [job[j] EXCEPT !.state = "locked", !.repeats = @ + 1]
         [] OTHER -> job[j]]
  /\ failed' = 0 /\ stop' = "none" /\ closing' = FALSE /\ second' = FALSE /\ early' = FALSE
  /\ UNCHANGED starts

-----------------------------------------------------------------------------
(* bootstrap.                                                              *)
Start ==
  /\ boot = "down"
  /\ starts < MaxStarts
  /\ starts' = starts + 1
  /\ boot' = "connecting"
  /\ UNCHANGED <<failed, stop, closing, second, early, request, job, exit>>

(* connectDatabase, startWorkers and listen: from here on there is a       *)
(* server.                                                                 *)
ConnectDatabase ==
  /\ boot = "connecting"
  /\ boot' = "up"
  /\ UNCHANGED <<failed, stop, closing, second, early, request, job, exit, starts>>

(* Faulty: one attempt too many.                                           *)
ConnectFails_OneMore ==
  /\ boot = "connecting"
  /\ IF failed = Retries
       THEN Exit(1)
       ELSE /\ failed' = failed + 1
            /\ UNCHANGED <<boot, stop, closing, second, early, request, job, exit, starts>>

(* The last failed attempt fails bootstrap.                                *)
ConnectFails ==
  /\ boot = "connecting"
  /\ IF failed + 1 = Retries
       THEN Exit(1)
       ELSE /\ failed' = failed + 1
            /\ UNCHANGED <<boot, stop, closing, second, early, request, job, exit, starts>>

(* uncaughtException, or the machine.                                      *)
Crash == boot # "down" /\ Exit(1)

-----------------------------------------------------------------------------
(* Requests: submit, updateStatus and the others that announce something.  *)
Arrive(c) ==
  /\ boot = "up" /\ ~ closing
  /\ request[c] = "none"
  /\ request' = [request EXCEPT ![c] = "open"]
  /\ UNCHANGED <<processVars, job, exit, starts>>

(* "void queueEmail(...)": the answer does not wait for the queue.         *)
AnswerRequest(c) ==
  /\ request[c] = "open"
  /\ request' = [request EXCEPT ![c] = "done"]
  /\ job' = [j \in Jobs |-> IF j \in JobsOf[c] THEN [job[j] EXCEPT !.state = "queueing"] ELSE job[j]]
  /\ UNCHANGED <<processVars, exit, starts>>

FailRequest(c) ==
  /\ request[c] = "open"
  /\ request' = [request EXCEPT ![c] = "done"]
  /\ UNCHANGED <<processVars, job, exit, starts>>

(* enqueue: "the failure is logged and swallowed".                         *)
Enqueue(j) ==
  /\ job[j].state = "queueing"
  /\ Set(j, "waiting") \/ Set(j, "lost")
  /\ UNCHANGED <<processVars, request, exit, starts>>

-----------------------------------------------------------------------------
(* The workers.                                                            *)
TakeJob(j) ==
  /\ Working
  /\ job[j].state = "waiting"
  /\ Set(j, "active")
  /\ UNCHANGED <<processVars, request, exit, starts>>

(* The processor has sent the email or stored the notification.            *)
Process(j) ==
  /\ job[j].state = "active"
  /\ job' = [job EXCEPT ![j].state = "performed", ![j].effects = @ + 1]
  /\ UNCHANGED <<processVars, request, exit, starts>>

(* Faulty: the options of the queue do not reach its jobs.                 *)
ProcessFails_Once(j) ==
  /\ job[j].state \in {"active", "performed"}
  /\ job' = [job EXCEPT ![j].state = "failed", ![j].attempts = @ + 1]
  /\ UNCHANGED <<processVars, request, exit, starts>>

(* Faulty: the attempts are not counted.                                   *)
ProcessFails_Uncounted(j) ==
  /\ job[j].state = "active"
  /\ Set(j, "delayed")
  /\ UNCHANGED <<processVars, request, exit, starts>>

(* The processor throws; what it was to do may still have been done.  The  *)
(* job is tried again later, unless it was the last attempt.               *)
ProcessFails(j) ==
  /\ job[j].state \in {"active", "performed"}
  /\ LET attempts == job[j].attempts + 1
     IN job' = [job EXCEPT ![j].attempts = attempts,
          ![j].repeats = IF job[j].state = "performed" THEN @ + 1 ELSE @,
          ![j].state = IF attempts = Attempts THEN "failed" ELSE "delayed"]
  /\ UNCHANGED <<processVars, request, exit, starts>>

Complete(j) ==
  /\ job[j].state = "performed"
  /\ Set(j, "completed")
  /\ UNCHANGED <<processVars, request, exit, starts>>

(* The backoff has passed.                                                 *)
RetryJob(j) ==
  /\ Working
  /\ job[j].state = "delayed"
  /\ Set(j, "waiting")
  /\ UNCHANGED <<processVars, request, exit, starts>>

(* Faulty: a job loses its lock while it is being worked on.               *)
RecoverStalled_Live(j) ==
  /\ Working
  /\ job[j].state \in {"locked", "active", "performed"}
  /\ job' = [job EXCEPT ![j].stalls = @ + 1,
                        ![j].state = IF job[j].stalls = 1 THEN "failed" ELSE "waiting"]
  /\ UNCHANGED <<processVars, request, exit, starts>>

(* A lock has expired: the job is taken again, once.                       *)
RecoverStalled(j) ==
  /\ Working
  /\ job[j].state = "locked"
  /\ job' = [job EXCEPT ![j].stalls = @ + 1,
                        ![j].state = IF job[j].stalls = 1 THEN "failed" ELSE "waiting"]
  /\ UNCHANGED <<processVars, request, exit, starts>>

-----------------------------------------------------------------------------
(* shutdown.  The HTTP server closes when no request is open.  Without a   *)
(* server there are no workers and no queues yet, either, and the database *)
(* is disconnected at once.                                                *)
Signal ==
  /\ boot # "down"
  /\ closing' = (closing \/ boot = "up")
  /\ second' = (second \/ closing)
  /\ early' = (early \/ boot = "connecting")
  /\ stop' = IF stop # "none" THEN stop ELSE IF boot = "up" THEN "http" ELSE "database"
  /\ UNCHANGED <<boot, failed, request, job, exit, starts>>

(* Faulty: open requests are not waited for.                               *)
CloseServer_AtOnce ==
  /\ stop = "http" /\ ~ second
  /\ stop' = "workers"
  /\ UNCHANGED <<boot, failed, closing, second, early, request, job, exit, starts>>

CloseServer ==
  /\ stop = "http" /\ ~ second
  /\ Open = {}
  /\ stop' = "workers"
  /\ UNCHANGED <<boot, failed, closing, second, early, request, job, exit, starts>>

(* A second close is an error when the first is done: "Error during        *)
(* shutdown".                                                              *)
CloseAgain == second /\ Open = {} /\ Exit(1)

(* Faulty: the workers are told to stop, and no more.                      *)
StopWorkers_NoWait ==
  /\ stop = "workers"
  /\ stop' = "queues"
  /\ UNCHANGED <<boot, failed, closing, second, early, request, job, exit, starts>>

(* A worker closes when its active jobs have ended.                        *)
StopWorkers ==
  /\ stop = "workers"
  /\ Active = {}
  /\ stop' = "queues"
  /\ UNCHANGED <<boot, failed, closing, second, early, request, job, exit, starts>>

CloseQueues ==
  /\ stop = "queues"
  /\ stop' = "database"
  /\ UNCHANGED <<boot, failed, closing, second, early, request, job, exit, starts>>

DisconnectDatabase ==
  /\ stop = "database"
  /\ stop' = "redis"
  /\ UNCHANGED <<boot, failed, closing, second, early, request, job, exit, starts>>

DisconnectRedis == stop = "redis" /\ Exit(0)

(* Any of these may fail.                                                  *)
ShutdownFails == stop \in {"workers", "queues", "database", "redis"} /\ Exit(1)

(* Faulty: the timer is cleared once the server is closed.                 *)
ForceExit_ServerOnly == stop \notin {"none", "http"} /\ Exit(1)

(* "A hard timeout guards against hanging connections".                    *)
ForceExit == stop # "none" /\ Exit(1)

-----------------------------------------------------------------------------
ServerInit ==
  /\ boot = "down" /\ failed = 0 /\ stop = "none"
  /\ closing = FALSE /\ second = FALSE /\ early = FALSE
  /\ request = [c \in Calls |-> "none"]
  /\ job = [j \in Jobs |-> [state |-> "absent", attempts |-> 0, stalls |-> 0, effects |-> 0, repeats |-> 0]]
  /\ exit = [code |-> 0, cut |-> FALSE, early |-> FALSE]
  /\ starts = 0

Bootstrap == ConnectDatabase \/ ConnectFails

Work(j) ==
  TakeJob(j) \/ Process(j) \/ ProcessFails(j) \/ Complete(j) \/ RetryJob(j) \/ RecoverStalled(j)

Shutdown ==
  \/ CloseServer \/ CloseAgain \/ StopWorkers \/ CloseQueues \/ DisconnectDatabase \/ DisconnectRedis
  \/ ShutdownFails

ServerNext ==
  \/ Start \/ Bootstrap \/ Crash \/ Signal \/ Shutdown \/ ForceExit
  \/ \E c \in Calls : Arrive(c) \/ AnswerRequest(c) \/ FailRequest(c)
  \/ \E j \in Jobs : Enqueue(j) \/ Work(j)

(* The supervisor, the connection attempts, the workers and the timer go   *)
(* on; a request may hang for ever, and nothing makes a signal come.       *)
Fairness ==
  /\ WF_serverVars(Start) /\ WF_serverVars(Bootstrap) /\ WF_serverVars(ForceExit)
  /\ \A j \in Jobs : WF_serverVars(Work(j)) /\ WF_serverVars(Enqueue(j))

ServerSpec == ServerInit /\ [][ServerNext]_serverVars /\ Fairness

-----------------------------------------------------------------------------
JobStates ==
  {"queueing", "waiting", "active", "performed", "delayed", "locked"} \cup Settled

(* The process, the requests and the jobs keep their types.                *)
ServerTypeOK ==
  /\ boot \in {"down", "connecting", "up"}
  /\ failed \in 0 .. Retries - 1
  /\ stop \in {"none", "http", "workers", "queues", "database", "redis"}
  /\ closing \in BOOLEAN /\ second \in BOOLEAN /\ early \in BOOLEAN
  /\ request \in [Calls -> {"none", "open", "done"}]
  /\ job \in [Jobs -> [state : JobStates, attempts : 0 .. Attempts, stalls : 0 .. 2,
                       effects : Nat, repeats : Nat]]
  /\ starts \in 0 .. MaxStarts

(* "Graceful shutdown": the process ends with 0 only if it has cut neither *)
(* a request nor a job off, unless the signal came before it listened, for *)
(* bootstrap goes on while it shuts down.                                  *)
CleanExit == exit.code = 0 /\ exit.cut => exit.early

(* No request and no job finds the database already disconnected, again    *)
(* unless the signal came early.                                           *)
DatabaseOutlives == stop = "redis" /\ ~ early => Open = {} /\ Active = {}

(* "Best-effort": a job that is in the queue is completed only when it has *)
(* been done, and given up only after all its attempts, or after two       *)
(* processes died on it.                                                   *)
NoJobDropped ==
  \A j \in Jobs :
    /\ job[j].state = "completed" => job[j].effects > 0
    /\ job[j].state = "failed" => job[j].attempts = Attempts \/ job[j].stalls = 2

(* A customer gets one email or notification more than once only if the    *)
(* process died, or the job failed, after it had been sent and before the  *)
(* queue knew.                                                             *)
RepeatsExplained ==
  \A j \in Jobs : job[j].effects <= job[j].repeats + 1

(* Once a signal has come the process ends, whatever hangs.                *)
ShutdownEnds == stop # "none" ~> boot = "down"

(* A job in the queue is completed or given up in the end, as long as the  *)
(* process is started again.                                               *)
JobsSettle ==
  \A j \in Jobs :
    job[j].state \notin Settled ~> job[j].state \in Settled \/ (boot = "down" /\ starts = MaxStarts)

(* "Graceful shutdown": nothing that was accepted is cut off or finds the  *)
(* database gone by a shutdown that goes through.                          *)
GracefulShutdown == CleanExit /\ DatabaseOutlives

(* Jobs are done, and no more often than a death or a failure explains.    *)
JobsAccounted == NoJobDropped /\ RepeatsExplained

=============================================================================
