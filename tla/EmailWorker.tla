---------------------------- MODULE EmailWorker ----------------------------
(***************************************************************************)
(* The supervisor of the email worker (EmailWorker::start, stop, run,     *)
(* startCheckEmailTasks, stopCheckEmailTasks, startSendEmailTask,         *)
(* stopSendEmailTask, check_thread_exist and the destructor,              *)
(* src/unnamed/part_000 485-631 and 1602-1610).                           *)
(*                                                                         *)
(* Three kinds of thread share the flag started_, the map                 *)
(* m_check_threads_ (identity name -> std::thread) and the pointer         *)
(* m_send_thread_, with no mutex:                                          *)
(*   - "main", the thread that calls start() and, at shutdown, stop() and *)
(*     the destructor, which joins the worker thread;                      *)
(*   - "run", the worker thread running run(): every 60 s it starts the   *)
(*     check tasks and the send task, or stops them when the context has   *)
(*     no identity;                                                        *)
(*   - the check task of each identity and the send task, whose loops run *)
(*     while (started_) and end at the next loop boundary once it is      *)
(*     cleared.                                                            *)
(* What a check or send round does is modelled in EmailCheck and          *)
(* EmailSend; here only their loop boundary matters.  The identity set of *)
(* the context may be reloaded while the node runs (spec 5).              *)
(***************************************************************************)
EXTENDS Naturals, FiniteSets

CONSTANTS
    Ids,         \* identity names
    InitIds,     \* identity sets the context may start with
    IdSets,      \* identity sets a reload may install
    MaxReloads   \* reloads of the identity set the model explores

ASSUME /\ InitIds \subseteq SUBSET Ids
       /\ IdSets \subseteq SUBSET Ids
       /\ MaxReloads \in Nat

Actors == {"run", "main"}

(* A std::thread object: absent, running its loop, or ended and joinable. *)
ThreadState == {"none", "running", "exited"}

VARIABLES
    started_,   \* EmailWorker::started_
    ids,        \* the identities of the context
    reloads,    \* reloads so far
    chk,        \* chk[i]: the thread m_check_threads_ holds for identity i
    snd,        \* the thread m_send_thread_ points to ("none" = nullptr)
    pc,         \* where the worker thread and the main thread are
    it,         \* it[a]: m_check_threads_.begin() as stopCheckEmailTasks read it
    toStart,    \* identities startCheckEmailTasks has still to visit
    ub          \* a thread joined twice, or through an erased map entry

vars == <<started_, ids, reloads, chk, snd, pc, it, toStart, ub>>

(* The keys of m_check_threads_. *)
m_check_threads_ == {i \in Ids : chk[i] # "none"}

TypeOK ==
    /\ started_ \in BOOLEAN
    /\ ids \in SUBSET Ids
    /\ reloads \in 0..MaxReloads
    /\ chk \in [Ids -> ThreadState]
    /\ snd \in ThreadState
    /\ pc["run"] \in {"none", "test", "startCheck", "spawn", "sendCheck",
                      "sendSpawn", "stopSend", "joinSend", "stopCheck",
                      "joinCheck", "done"}
    /\ pc["main"] \in {"init", "running", "stopSend", "joinSend", "stopCheck",
                       "joinCheck", "joinRun", "done"}
    /\ it \in [Actors -> Ids \cup {"none"}]
    /\ toStart \in SUBSET Ids
    /\ ub \in BOOLEAN

(* The EmailWorker constructor (485-490): not started, no thread. *)
Init ==
    /\ started_ = FALSE
    /\ ids \in InitIds
    /\ reloads = 0
    /\ chk = [i \in Ids |-> "none"]
    /\ snd = "none"
    /\ pc = [a \in Actors |-> IF a = "run" THEN "none" ELSE "init"]
    /\ it = [a \in Actors |-> "none"]
    /\ toStart = {}
    /\ ub = FALSE

-----------------------------------------------------------------------------
(* The main thread *)

(* start() (506-522): startSendEmailTask and startCheckEmailTasks return  *)
(* at once, since started_ is still FALSE when they test it; then the     *)
(* flag is set and the worker thread created.                             *)
start ==
    /\ pc["main"] = "init"
    /\ started_' = TRUE
    /\ pc' = [pc EXCEPT !["main"] = "running", !["run"] = "test"]
    /\ UNCHANGED <<ids, reloads, chk, snd, it, toStart, ub>>

(* Mutant of stop: the flag is not cleared before the tasks are joined.  *)
stopKeepFlag ==
    /\ pc["main"] = "running"
    /\ started_
    /\ pc' = [pc EXCEPT !["main"] = "stopSend"]
    /\ UNCHANGED <<started_, ids, reloads, chk, snd, it, toStart, ub>>

(* stop() (524-535), called at shutdown and by the destructor: clear the *)
(* flag, then stopSendEmailTask and stopCheckEmailTasks.                  *)
stop ==
    /\ pc["main"] = "running"
    /\ started_
    /\ started_' = FALSE
    /\ pc' = [pc EXCEPT !["main"] = "stopSend"]
    /\ UNCHANGED <<ids, reloads, chk, snd, it, toStart, ub>>

(* The destructor (492-503) joins the worker thread after stop(). *)
JoinRun ==
    /\ pc["main"] = "joinRun"
    /\ pc["run"] = "done"
    /\ pc' = [pc EXCEPT !["main"] = "done"]
    /\ UNCHANGED <<started_, ids, reloads, chk, snd, it, toStart, ub>>

-----------------------------------------------------------------------------
(* stopSendEmailTask and stopCheckEmailTasks, run by the main thread from *)
(* stop() and by the worker thread when the context has no identity.      *)

(* Where actor a goes when stopCheckEmailTasks returns: the worker thread *)
(* sleeps and tests its loop again, the main thread joins the worker.     *)
AfterStop(a) == IF a = "run" THEN "test" ELSE "joinRun"

(* stopSendEmailTask (588-593): join only if the pointer is set and the  *)
(* flag already cleared.                                                  *)
stopSendEmailTask(a) ==
    /\ pc[a] = "stopSend"
    /\ pc' = [pc EXCEPT ![a] = IF snd # "none" /\ ~started_ THEN "joinSend"
                                                         ELSE "stopCheck"]
    /\ UNCHANGED <<started_, ids, reloads, chk, snd, it, toStart, ub>>

(* Lines 594-597: join(), delete and reset the pointer; the join        *)
(* returns once the send task has left its loop.  A second joiner finds  *)
(* the pointer reset.                                                     *)
JoinSend(a) ==
    /\ pc[a] = "joinSend"
    /\ snd # "running"
    /\ ub' = (ub \/ snd = "none")
    /\ snd' = "none"
    /\ pc' = [pc EXCEPT ![a] = "stopCheck"]
    /\ UNCHANGED <<started_, ids, reloads, chk, it, toStart>>

(* stopCheckEmailTasks (560-566), the loop test: while the map is not    *)
(* empty, take begin().                                                   *)
stopCheckEmailTasks(a) ==
    /\ pc[a] = "stopCheck"
    /\ IF m_check_threads_ = {}
       THEN /\ pc' = [pc EXCEPT ![a] = AfterStop(a)]
            /\ UNCHANGED it
       ELSE /\ it' = [it EXCEPT ![a] = CHOOSE i \in m_check_threads_ : TRUE]
            /\ pc' = [pc EXCEPT ![a] = "joinCheck"]
    /\ UNCHANGED <<started_, ids, reloads, chk, snd, toStart, ub>>

(* Lines 568-569: join() and erase; the join returns once the task has *)
(* left its loop; an entry another thread already erased is undefined.    *)
JoinCheck(a) ==
    /\ pc[a] = "joinCheck"
    /\ chk[it[a]] # "running"
    /\ ub' = (ub \/ chk[it[a]] = "none")
    /\ chk' = [chk EXCEPT ![it[a]] = "none"]
    /\ pc' = [pc EXCEPT ![a] = "stopCheck"]
    /\ UNCHANGED <<started_, ids, reloads, snd, it, toStart>>

-----------------------------------------------------------------------------
(* The worker thread, run() (605-631) *)

(* Lines 607-611 and 622-626: the loop test while (started_), then     *)
(* get_identities_count() chooses between starting and stopping tasks.  *)
RunTest ==
    /\ pc["run"] = "test"
    /\ pc' = [pc EXCEPT !["run"] = CASE ~started_  -> "done"
                                     [] ids # {}   -> "startCheck"
                                     [] OTHER      -> "stopSend"]
    /\ UNCHANGED <<started_, ids, reloads, chk, snd, it, toStart, ub>>

(* Mutant of startCheckEmailTasks: called only inside the branch that    *)
(* starts the send task, so only while m_send_thread_ is null.            *)
startCheckEmailTasksNested ==
    /\ pc["run"] = "startCheck"
    /\ IF started_ /\ ids # {} /\ snd = "none"
       THEN /\ toStart' = ids
            /\ pc' = [pc EXCEPT !["run"] = "spawn"]
       ELSE /\ pc' = [pc EXCEPT !["run"] = "sendCheck"]
            /\ UNCHANGED toStart
    /\ UNCHANGED <<started_, ids, reloads, chk, snd, it, ub>>

(* startCheckEmailTasks (537-542): return unless started with some       *)
(* identity; otherwise take the identity list.                            *)
startCheckEmailTasks ==
    /\ pc["run"] = "startCheck"
    /\ IF started_ /\ ids # {}
       THEN /\ toStart' = ids
            /\ pc' = [pc EXCEPT !["run"] = "spawn"]
       ELSE /\ pc' = [pc EXCEPT !["run"] = "sendCheck"]
            /\ UNCHANGED toStart
    /\ UNCHANGED <<started_, ids, reloads, chk, snd, it, ub>>

(* check_thread_exist (1602-1610) *)
check_thread_exist(i) == chk[i] # "none"

(* Lines 544-556, one identity of the loop: skip it if the map has a     *)
(* thread for it, else create its check task and store it in the map.    *)
Spawn(i) ==
    /\ pc["run"] = "spawn"
    /\ i \in toStart
    /\ toStart' = toStart \ {i}
    /\ chk' = IF check_thread_exist(i) THEN chk
              ELSE [chk EXCEPT ![i] = "running"]
    /\ pc' = IF toStart' = {} THEN [pc EXCEPT !["run"] = "sendCheck"] ELSE pc
    /\ UNCHANGED <<started_, ids, reloads, snd, it, ub>>

(* Lines 615-619 with startSendEmailTask's test (578-583): a null        *)
(* m_send_thread_ while started with some identity.                       *)
RunSendCheck ==
    /\ pc["run"] = "sendCheck"
    /\ pc' = [pc EXCEPT !["run"] = IF snd = "none" /\ started_ /\ ids # {}
                                   THEN "sendSpawn" ELSE "test"]
    /\ UNCHANGED <<started_, ids, reloads, chk, snd, it, toStart, ub>>

(* Line 584: the send task is created; then the 60 s sleep (629). *)
SendSpawn ==
    /\ pc["run"] = "sendSpawn"
    /\ snd' = "running"
    /\ pc' = [pc EXCEPT !["run"] = "test"]
    /\ UNCHANGED <<started_, ids, reloads, chk, it, toStart, ub>>

-----------------------------------------------------------------------------
(* The tasks and the environment *)

(* checkEmailTask (636-638): a check task leaves its loop at the next    *)
(* boundary once started_ is cleared.                                     *)
CheckExit(i) ==
    /\ chk[i] = "running"
    /\ ~started_
    /\ chk' = [chk EXCEPT ![i] = "exited"]
    /\ UNCHANGED <<started_, ids, reloads, snd, pc, it, toStart, ub>>

(* sendEmailTask (736-738): the same for the send task. *)
SendExit ==
    /\ snd = "running"
    /\ ~started_
    /\ snd' = "exited"
    /\ UNCHANGED <<started_, ids, reloads, chk, pc, it, toStart, ub>>

(* The context reloads its identities (spec 5, "local identity set ...  *)
(* reloaded on config change").                                           *)
Reload(S) ==
    /\ reloads < MaxReloads
    /\ S # ids
    /\ ids' = S
    /\ reloads' = reloads + 1
    /\ UNCHANGED <<started_, chk, snd, pc, it, toStart, ub>>

(* The destructor has returned: the process exits. *)
Exited ==
    /\ pc["main"] = "done"
    /\ UNCHANGED vars

Main ==
    \/ start \/ JoinRun
    \/ stopSendEmailTask("main") \/ JoinSend("main")
    \/ stopCheckEmailTasks("main") \/ JoinCheck("main")

RunThread ==
    \/ RunTest \/ startCheckEmailTasks \/ \E i \in Ids : Spawn(i)
    \/ RunSendCheck \/ SendSpawn
    \/ stopSendEmailTask("run") \/ JoinSend("run")
    \/ stopCheckEmailTasks("run") \/ JoinCheck("run")

Tasks == \/ \E i \in Ids : CheckExit(i)
         \/ SendExit

Next ==
    \/ Main \/ stop \/ RunThread \/ Tasks
    \/ \E S \in IdSets : Reload(S)
    \/ Exited

(* Every thread is scheduled and only sleeps for fixed intervals, so the *)
(* main thread (once started, and once stopping), the worker thread and   *)
(* each task are weakly fair.  When stop() is called, and the reloads,    *)
(* are up to the environment.                                             *)
Spec == Init /\ [][Next]_vars
        /\ WF_vars(Main) /\ WF_vars(RunThread)
        /\ \A i \in Ids : WF_vars(CheckExit(i))
        /\ WF_vars(SendExit)

-----------------------------------------------------------------------------
(* Properties *)

(* Every identity that stays configured while the worker is started gets *)
(* a check task (spec 4.7: the supervisor starts per-identity workers    *)
(* when the identity list changes): run() calls startCheckEmailTasks on   *)
(* every pass, and check_thread_exist only skips identities that have one.*)
IdentityChecked ==
    \A i \in Ids :
        (started_ /\ i \in ids) ~> (~started_ \/ i \notin ids \/ chk[i] = "running")

(* The check task of an identity removed from the context is eventually *)
(* stopped while the worker runs (spec 4.7: the supervisor starts and     *)
(* stops per-identity workers when the identity list changes).  In the   *)
(* code startCheckEmailTasks only adds tasks, checkEmailTask loops while   *)
(* started_ alone, and with no identity left run() blocks joining tasks   *)
(* that cannot end before stop().                                         *)
RemovedIdentityStopped ==
    \A i \in Ids :
        (started_ /\ i \notin ids /\ chk[i] = "running")
            ~> (~started_ \/ i \in ids \/ chk[i] # "running")

(* stop() and the destructor return: once stop() has cleared started_,  *)
(* every join it and the destructor make (send task, each check task,    *)
(* worker thread) returns, whatever the worker thread was doing.          *)
StopReturns ==
    pc["main"] \notin {"init", "running"} ~> pc["main"] = "done"

(* When the destructor returns, every thread the worker created has been *)
(* joined: a joinable std::thread left in m_check_threads_ makes the map's *)
(* destruction call std::terminate, and a send task left behind is never  *)
(* joined.                                                                *)
CleanShutdown ==
    pc["main"] = "done" => m_check_threads_ = {} /\ snd = "none"

=============================================================================
