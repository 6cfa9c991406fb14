---------------------------- MODULE ServerProofs ----------------------------
(***************************************************************************)
(* Theorems of the process and its queues, for any requests and jobs, any  *)
(* number of attempts and any number of starts.                            *)
(***************************************************************************)
EXTENDS Server, TLAPS

(* What is known of one job in every state.                                *)
JobOK(x) ==
  /\ x \in [state : JobStates, attempts : 0 .. Attempts, stalls : 0 .. 2, effects : Nat, repeats : Nat]
  /\ x.state \notin {"completed", "failed"} => x.attempts < Attempts /\ x.stalls < 2
  /\ x.state = "failed" => x.attempts = Attempts \/ x.stalls = 2
  /\ x.state \in {"performed", "completed"} => x.effects > 0 /\ x.effects <= x.repeats + 1
  /\ x.state \notin {"performed", "completed"} => x.effects <= x.repeats

JobsInv == job \in [Jobs -> [state : JobStates, attempts : 0 .. Attempts, stalls : 0 .. 2,
                             effects : Nat, repeats : Nat]]
           /\ \A j \in Jobs : JobOK(job[j])

(* A request that is open has not queued its jobs yet.                     *)
QueuedOnce ==
  \A c \in Calls : \A j \in JobsOf[c] : request[c] \in {"none", "open"} => job[j].state = "absent"

ProcessTypes ==
  /\ boot \in {"down", "connecting", "up"}
  /\ failed \in 0 .. Retries - 1
  /\ stop \in {"none", "http", "workers", "queues", "database", "redis"}
  /\ closing \in BOOLEAN /\ second \in BOOLEAN /\ early \in BOOLEAN
  /\ request \in [Calls -> {"none", "open", "done"}]
  /\ starts \in 0 .. MaxStarts

(* What has been waited for stays away: no request comes once the server   *)
(* is closing, no job is taken once the workers are.                       *)
Waited ==
  ~ early =>
    /\ stop # "none" => closing
    /\ stop \in {"workers", "queues", "database", "redis"} => Open = {}
    /\ stop \in {"queues", "database", "redis"} => Active = {}

ServerInv == ProcessTypes /\ JobsInv /\ QueuedOnce /\ Waited /\ CleanExit

-----------------------------------------------------------------------------
LEMMA InitServer == ServerInit => ServerInv
<1> SUFFICES ASSUME ServerInit PROVE ServerInv
  OBVIOUS
<1> USE ServerConstants
<1>1. ProcessTypes
  <2>1. failed \in 0 .. Retries - 1 /\ starts \in 0 .. MaxStarts
    BY DEF ServerInit
  <2>2. request \in [Calls -> {"none", "open", "done"}]
    BY DEF ServerInit
  <2> QED  BY <2>1, <2>2, Zenon DEF ServerInit, ProcessTypes
<1>2. JobsInv
  BY DEF ServerInit, JobsInv, JobOK, JobStates, Settled
<1>3. QueuedOnce
  BY DEF ServerInit, QueuedOnce
<1>4. Waited /\ CleanExit
  BY DEF ServerInit, Waited, CleanExit
<1> QED  BY <1>1, <1>2, <1>3, <1>4 DEF ServerInv

(* An exit, wherever the process is.                                       *)
LEMMA ExitKeeps ==
  ASSUME ServerInv, NEW code \in {0, 1}, Exit(code),
         code = 0 => stop = "redis"
  PROVE  ServerInv'
<1> USE ServerConstants
<1>1. ProcessTypes'
  <2>1. failed' \in 0 .. Retries - 1
    <3>1. failed' = 0
      BY Zenon DEF Exit
    <3> QED  BY <3>1
  <2>2. request' \in [Calls -> {"none", "open", "done"}]
    BY DEF ServerInv, ProcessTypes, Exit
  <2> QED  BY <2>1, <2>2, Zenon DEF ServerInv, ProcessTypes, Exit
<1>2. JobsInv'
  <2>1. ASSUME NEW j \in Jobs PROVE JobOK(job'[j])
    <3>1. JobOK(job[j])
      BY DEF ServerInv, JobsInv
    <3>2. CASE job[j].state = "queueing"
      BY <3>1, <3>2 DEF Exit, JobOK, JobStates, Settled
    <3>3. CASE job[j].state = "active"
      BY <3>1, <3>3 DEF Exit, JobOK, JobStates, Settled
    <3>4. CASE job[j].state = "performed"
      <4>1. job'[j] = [job[j] EXCEPT !.state = "locked", !.repeats = job[j].repeats + 1]
        BY <3>4 DEF Exit
      <4>2. job'[j] = [state |-> "locked", attempts |-> job[j].attempts, stalls |-> job[j].stalls,
                       effects |-> job[j].effects, repeats |-> job[j].repeats + 1]
        BY <3>1, <4>1 DEF JobOK
      <4> QED  BY <3>1, <3>4, <4>2 DEF JobOK, JobStates, Settled
    <3>5. CASE job[j].state \notin {"queueing", "active", "performed"}
      BY <3>1, <3>5 DEF Exit, JobOK
    <3> QED  BY <3>2, <3>3, <3>4, <3>5
  <2>2. job' = [j \in Jobs |-> job'[j]]
    BY DEF Exit
  <2> QED  BY <2>1, <2>2 DEF JobsInv, JobOK
<1>3. QueuedOnce'
  BY DEF ServerInv, QueuedOnce, ProcessTypes, JobsInv, Exit
<1>4. Waited'
  BY DEF Exit, Waited
<1>5. CleanExit'
  BY DEF ServerInv, Waited, CleanExit, Exit
<1> QED  BY <1>1, <1>2, <1>3, <1>4, <1>5 DEF ServerInv

(* A step that changes one job, which is in its queue already.             *)
LEMMA JobStepKeeps ==
  ASSUME ServerInv, NEW j \in Jobs, NEW x,
         job[j].state # "absent",
         JobOK(x),
         job' = [job EXCEPT ![j] = x],
         x.state \in {"active", "performed"} => Working \/ job[j].state \in {"active", "performed"},
         UNCHANGED <<processVars, request, exit, starts>>
  PROVE  ServerInv'
<1> USE ServerConstants
<1>1. ProcessTypes'
  BY DEF ServerInv, ProcessTypes, processVars
<1>2. JobsInv'
  BY DEF ServerInv, JobsInv, JobOK
<1>3. QueuedOnce'
  BY DEF ServerInv, QueuedOnce, JobsInv
<1>4. Waited'
  <2>1. Open' = Open
    BY DEF Open
  <2>2. ASSUME ~ early, stop \in {"queues", "database", "redis"} PROVE Active' = {}
    <3>1. ~ Working /\ Active = {}
      BY <2>2 DEF ServerInv, Waited, Working
    <3>2. x.state \notin {"active", "performed"}
      BY <3>1 DEF Active, InState
    <3> QED  BY <3>1, <3>2 DEF Active, InState, ServerInv, JobsInv
  <2> QED  BY <2>1, <2>2 DEF ServerInv, Waited, processVars
<1>5. CleanExit'
  BY DEF ServerInv, CleanExit
<1> QED  BY <1>1, <1>2, <1>3, <1>4, <1>5 DEF ServerInv

LEMMA WorkKeeps ==
  ASSUME ServerInv, NEW j \in Jobs, Work(j) \/ Enqueue(j)
  PROVE  ServerInv'
<1> USE ServerConstants
<1>0. JobOK(job[j]) /\ job \in [Jobs -> [state : JobStates, attempts : 0 .. Attempts, stalls : 0 .. 2,
                                         effects : Nat, repeats : Nat]]
  BY DEF ServerInv, JobsInv
<1>1. CASE Enqueue(j)
  <2>1. PICK s \in {"waiting", "lost"} : job' = [job EXCEPT ![j] = [job[j] EXCEPT !.state = s]]
    BY <1>0, <1>1 DEF Enqueue, Set
  <2>2. JobOK([job[j] EXCEPT !.state = s])
    BY <1>0, <1>1 DEF Enqueue, JobOK, JobStates, Settled
  <2> QED  BY <1>0, <1>1, <2>1, <2>2, JobStepKeeps DEF Enqueue
<1>2. CASE TakeJob(j)
  <2>1. JobOK([job[j] EXCEPT !.state = "active"])
    BY <1>0, <1>2 DEF TakeJob, JobOK, JobStates, Settled
  <2> QED  BY <1>0, <1>2, <2>1, JobStepKeeps DEF TakeJob, Set
<1>3. CASE Process(j)
  <2>1. JobOK([job[j] EXCEPT !.state = "performed", !.effects = @ + 1])
    BY <1>0, <1>3 DEF Process, JobOK, JobStates, Settled
  <2> QED  BY <1>0, <1>3, <2>1, JobStepKeeps DEF Process
<1>4. CASE ProcessFails(j)
  <2> DEFINE n == job[j].attempts + 1
             x == [job[j] EXCEPT !.attempts = n,
                     !.repeats = IF job[j].state = "performed" THEN @ + 1 ELSE @,
                     !.state = IF n = Attempts THEN "failed" ELSE "delayed"]
  <2>1. JobOK(x)
    <3>1. job[j].attempts < Attempts /\ job[j].stalls < 2 /\ n \in 0 .. Attempts
      BY <1>0, <1>4 DEF ProcessFails, JobOK
    <3>2. CASE n = Attempts
      BY <1>0, <1>4, <3>1, <3>2 DEF ProcessFails, JobOK, JobStates, Settled
    <3>3. CASE n # Attempts
      BY <1>0, <1>4, <3>1, <3>3 DEF ProcessFails, JobOK, JobStates, Settled
    <3> QED  BY <3>2, <3>3
  <2>2. job' = [job EXCEPT ![j] = x]
    BY <1>0, <1>4 DEF ProcessFails
  <2>3. x.state \notin {"active", "performed"} /\ job[j].state # "absent"
    BY <1>0, <1>4 DEF ProcessFails
  <2> HIDE DEF x
  <2> QED  BY <1>4, <2>1, <2>2, <2>3, JobStepKeeps DEF ProcessFails
<1>5. CASE Complete(j)
  <2>1. JobOK([job[j] EXCEPT !.state = "completed"])
    BY <1>0, <1>5 DEF Complete, JobOK, JobStates, Settled
  <2> QED  BY <1>0, <1>5, <2>1, JobStepKeeps DEF Complete, Set
<1>6. CASE RetryJob(j)
  <2>1. JobOK([job[j] EXCEPT !.state = "waiting"])
    BY <1>0, <1>6 DEF RetryJob, JobOK, JobStates, Settled
  <2> QED  BY <1>0, <1>6, <2>1, JobStepKeeps DEF RetryJob, Set
<1>7. CASE RecoverStalled(j)
  <2> DEFINE x == [job[j] EXCEPT !.stalls = @ + 1,
                     !.state = IF job[j].stalls = 1 THEN "failed" ELSE "waiting"]
  <2>1. JobOK(x)
    <3>1. CASE job[j].stalls = 1
      BY <1>0, <1>7, <3>1 DEF RecoverStalled, JobOK, JobStates, Settled
    <3>2. CASE job[j].stalls # 1
      BY <1>0, <1>7, <3>2 DEF RecoverStalled, JobOK, JobStates, Settled
    <3> QED  BY <3>1, <3>2
  <2>2. job' = [job EXCEPT ![j] = x]
    BY <1>0, <1>7 DEF RecoverStalled
  <2>3. x.state \notin {"active", "performed"} /\ job[j].state # "absent"
    BY <1>0, <1>7 DEF RecoverStalled
  <2> HIDE DEF x
  <2> QED  BY <1>7, <2>1, <2>2, <2>3, JobStepKeeps DEF RecoverStalled
<1> QED  BY <1>1, <1>2, <1>3, <1>4, <1>5, <1>6, <1>7 DEF Work

LEMMA RequestKeeps ==
  ASSUME ServerInv, NEW c \in Calls, Arrive(c) \/ AnswerRequest(c) \/ FailRequest(c)
  PROVE  ServerInv'
<1> USE ServerConstants
<1>1. ProcessTypes' /\ CleanExit'
  BY DEF ServerInv, ProcessTypes, CleanExit, Arrive, AnswerRequest, FailRequest, processVars
<1>2. JobsInv' /\ QueuedOnce' /\ Active' = Active
  <2>1. CASE AnswerRequest(c)
    <3>1. ASSUME NEW j \in JobsOf[c] PROVE job[j].state = "absent" /\ j \in Jobs
      BY <2>1 DEF AnswerRequest, ServerInv, QueuedOnce
    <3>2. ASSUME NEW j \in JobsOf[c] PROVE JobOK([job[j] EXCEPT !.state = "queueing"])
      BY <3>1, <3>2 DEF ServerInv, JobsInv, JobOK, JobStates, Settled
    <3>3. JobsInv'
      BY <2>1, <3>2 DEF AnswerRequest, ServerInv, JobsInv, JobOK
    <3>4. ASSUME NEW d \in Calls, NEW j \in JobsOf[d], request'[d] \in {"none", "open"}
          PROVE  job'[j].state = "absent"
      <4>1. d # c /\ request[d] \in {"none", "open"} /\ j \in Jobs
        BY <2>1, <3>4 DEF AnswerRequest, ServerInv, ProcessTypes
      <4>2. j \notin JobsOf[c]
        BY <4>1
      <4> QED  BY <2>1, <4>1, <4>2 DEF AnswerRequest, ServerInv, QueuedOnce
    <3>5. Active' = Active
      <4>1. \A j \in Jobs : job'[j].state \in {"active", "performed"}
                              <=> job[j].state \in {"active", "performed"}
        BY <2>1, <3>1 DEF AnswerRequest, ServerInv, JobsInv
      <4> QED  BY <4>1 DEF Active, InState
    <3> QED  BY <3>3, <3>4, <3>5 DEF QueuedOnce
  <2>2. CASE Arrive(c) \/ FailRequest(c)
    BY <2>2 DEF Arrive, FailRequest, ServerInv, JobsInv, JobOK, QueuedOnce, ProcessTypes, Active, InState
  <2> QED  BY <2>1, <2>2
<1>3. Waited'
  <2>1. UNCHANGED <<stop, closing, early>>
    BY DEF Arrive, AnswerRequest, FailRequest, processVars
  <2>2. ASSUME ~ early, stop \in {"workers", "queues", "database", "redis"} PROVE Open' = {}
    <3>1. Open = {} /\ closing
      BY <2>2 DEF ServerInv, Waited
    <3>2. ~ Arrive(c)
      BY <3>1 DEF Arrive
    <3> QED  BY <3>1, <3>2 DEF Open, AnswerRequest, FailRequest, ServerInv, ProcessTypes
  <2> QED  BY <1>2, <2>1, <2>2 DEF ServerInv, Waited
<1> QED  BY <1>1, <1>2, <1>3 DEF ServerInv

(* The other steps change no request and no job, unless they exit.         *)
LEMMA ProcessKeeps ==
  ASSUME ServerInv,
         Start \/ Bootstrap \/ Crash \/ Signal \/ Shutdown \/ ForceExit
  PROVE  ServerInv'
<1> USE ServerConstants
<1>1. CASE Exit(1)
  BY <1>1, ExitKeeps
<1>2. CASE DisconnectRedis
  BY <1>2, ExitKeeps DEF DisconnectRedis
<1>3. ASSUME UNCHANGED <<request, job, exit>>, ProcessTypes', Waited' PROVE ServerInv'
  BY <1>3 DEF ServerInv, JobsInv, JobOK, QueuedOnce, CleanExit
<1>4. ASSUME UNCHANGED <<request, job>> PROVE Open' = Open /\ Active' = Active
  BY <1>4 DEF Open, Active, InState
<1>5. CASE Start
  BY <1>3, <1>4, <1>5 DEF Start, ServerInv, ProcessTypes, Waited
<1>6. CASE ConnectDatabase
  BY <1>3, <1>4, <1>6 DEF ConnectDatabase, ServerInv, ProcessTypes, Waited
<1>7. CASE ConnectFails /\ ~ Exit(1)
  BY <1>3, <1>4, <1>7 DEF ConnectFails, ServerInv, ProcessTypes, Waited
<1>8. CASE Signal
  BY <1>3, <1>4, <1>8 DEF Signal, ServerInv, ProcessTypes, Waited
<1>9. CASE CloseServer
  BY <1>3, <1>4, <1>9 DEF CloseServer, ServerInv, ProcessTypes, Waited
<1>10. CASE StopWorkers
  BY <1>3, <1>4, <1>10 DEF StopWorkers, ServerInv, ProcessTypes, Waited
<1>11. CASE CloseQueues
  BY <1>3, <1>4, <1>11 DEF CloseQueues, ServerInv, ProcessTypes, Waited
<1>12. CASE DisconnectDatabase
  BY <1>3, <1>4, <1>12 DEF DisconnectDatabase, ServerInv, ProcessTypes, Waited
<1> QED
  BY <1>1, <1>2, <1>5, <1>6, <1>7, <1>8, <1>9, <1>10, <1>11, <1>12
     DEF Bootstrap, Crash, Shutdown, CloseAgain, ShutdownFails, ForceExit

LEMMA ServerNextInv == ServerInv /\ [ServerNext]_serverVars => ServerInv'
<1> SUFFICES ASSUME ServerInv, [ServerNext]_serverVars PROVE ServerInv'
  OBVIOUS
<1>1. CASE UNCHANGED serverVars
  BY <1>1 DEF serverVars, processVars, ServerInv, ProcessTypes, JobsInv, JobOK, QueuedOnce, Waited,
     CleanExit, Open, Active, InState
<1> QED  BY <1>1, ProcessKeeps, RequestKeeps, WorkKeeps DEF ServerNext

LEMMA AlwaysServerInv == ServerSpec => []ServerInv
  BY InitServer, ServerNextInv, PTL DEF ServerSpec

-----------------------------------------------------------------------------
(* The process, the requests and the jobs keep their types, whatever the   *)
(* number of connection attempts, job attempts and starts.                 *)
THEOREM ServerTypes == ServerSpec => []ServerTypeOK
<1>1. ServerInv => ServerTypeOK
  BY DEF ServerInv, ProcessTypes, JobsInv, ServerTypeOK
<1> QED  BY <1>1, AlwaysServerInv, PTL

(* However the signal, the requests and the jobs interleave, the process   *)
(* ends with 0 only if it has cut nothing off, unless the signal came      *)
(* before it listened.                                                     *)
THEOREM CleanExits == ServerSpec => []CleanExit
<1>1. ServerInv => CleanExit
  BY DEF ServerInv
<1> QED  BY <1>1, AlwaysServerInv, PTL

(* The database outlives every request and job of a process that was not   *)
(* signalled before it listened.                                           *)
THEOREM DatabaseLast == ServerSpec => []DatabaseOutlives
<1>1. ServerInv => DatabaseOutlives
  BY DEF ServerInv, Waited, DatabaseOutlives
<1> QED  BY <1>1, AlwaysServerInv, PTL

(* No crash, exit or failed attempt makes a queued job count as done when  *)
(* it is not, or be given up early.                                        *)
THEOREM JobsNotDropped == ServerSpec => []NoJobDropped
<1>1. ServerInv => NoJobDropped
  BY DEF ServerInv, JobsInv, JobOK, NoJobDropped
<1> QED  BY <1>1, AlwaysServerInv, PTL

(* Each repetition of an email or notification has its own death of a      *)
(* process or failure of the job between the effect and the queue's        *)
(* knowledge of it.                                                        *)
THEOREM Repeats == ServerSpec => []RepeatsExplained
<1>1. ServerInv => RepeatsExplained
  BY DEF ServerInv, JobsInv, JobOK, RepeatsExplained, JobStates, Settled
<1> QED  BY <1>1, AlwaysServerInv, PTL

(* Both halves of a graceful shutdown, for any requests, jobs and starts.  *)
THEOREM Graceful == ServerSpec => []GracefulShutdown
<1>1. CleanExit /\ DatabaseOutlives => GracefulShutdown
  BY DEF GracefulShutdown
<1> QED  BY <1>1, CleanExits, DatabaseLast, PTL

(* A job is done, and done again only after a death or a failure.          *)
THEOREM Accounted == ServerSpec => []JobsAccounted
<1>1. NoJobDropped /\ RepeatsExplained => JobsAccounted
  BY DEF JobsAccounted
<1> QED  BY <1>1, JobsNotDropped, Repeats, PTL

=============================================================================
