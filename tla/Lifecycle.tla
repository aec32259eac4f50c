----------------------------- MODULE Lifecycle -----------------------------
(***************************************************************************)
(* A run of the program from its first client to its exit: cmd_run of      *)
(* core/tools/mm_core.cpp with launch (launcher.cpp), the start and stop   *)
(* of the hook thread (capture.cpp) and of the broadcaster thread          *)
(* (broadcaster.cpp), the window styles (window.cpp) and the foreground    *)
(* lock (focus.cpp).                                                       *)
(*                                                                         *)
(* Any Win32 call that the code checks may fail, and so may                *)
(* TerminateProcess and ResumeThread, which launch does not check; two     *)
(* history variables, `unended` and `unresumed`, record for which clients  *)
(* they did.  A call of the broadcaster into Windows may never return.  Of *)
(* the events it handles only the swap matters here: it moves the windows  *)
(* with Session::mu held.  A call that changes a window of another process *)
(* waits for that window; a client may hang for some time.                 *)
(***************************************************************************)
EXTENDS Naturals

CONSTANTS
  Launches,    (* the number of --launch options                           *)
  Adoptions,   (* the number of --adopt and --adopt-hwnd options           *)
  RingCap      (* the capacity of the ring                                 *)

ASSUME LifecycleAssumption ==
  Launches \in Nat /\ Adoptions \in Nat /\ Launches + Adoptions > 0 /\ RingCap \in Nat \ {0}

Launched == 0 .. Launches - 1
Clients == 0 .. Launches + Adoptions - 1

VARIABLES
  kill, borderless,      (* --kill-on-exit and --borderless                *)
  pc,        (* what the main thread does next                             *)
  cur,       (* the client it is launching or adopting                     *)
  code,      (* the exit code, once there is one                           *)
  wanted,    (* g_stop                                                     *)
  proc,      (* the processes of the clients                               *)
  hung,      (* the clients whose window does not answer                   *)
  jobs,      (* the clients in a job object of which we hold the handle    *)
  kept,      (* Session::instances                                         *)
  saved,     (* the instances whose SavedStyle is valid                    *)
  framed,    (* the clients whose window has its own style                 *)
  moved,     (* the clients whose window is where the layout puts it       *)
  unended, unresumed,    (* the clients for which TerminateProcess and     *)
             (* ResumeThread failed                                        *)
  lock,      (* the foreground lock time-out: the user's or zero           *)
  hpc, mailbox, quit,    (* the hook thread: its next step, whether it has *)
             (* a message queue, WM_QUIT in that queue                     *)
  bpc, stop, backlog, mu,   (* the broadcaster thread: its next step,      *)
             (* stop_, the number of events in the ring, whether it holds  *)
             (* Session::mu                                                *)
  joined     (* the result of Broadcaster::stop                            *)

options == <<kill, borderless>>
ignored == <<unended, unresumed>>
clientVars == <<proc, hung, jobs, kept, ignored>>
windowVars == <<saved, framed, moved>>
hookVars == <<hpc, mailbox, quit>>
broadcasterVars == <<bpc, stop, backlog, mu>>
vars == <<options, pc, cur, code, wanted, clientVars, windowVars, lock,
          hookVars, broadcasterVars, joined>>

Running == "running"   (* no exit code yet *)
ExitCodes == {"ok", "failed", "abandoned", "killed"}   (* 0, 1, 3, and the system's for Ctrl+C *)

TypeOK ==
  /\ kill \in BOOLEAN /\ borderless \in BOOLEAN
  /\ pc \in {"create", "job", "assign", "resume", "window", "layout", "guard", "hook", "ready",
             "start", "register", "watch", "tick", "unhook", "joinhook", "signal", "join", "restore",
             "leave", "exited"}
  /\ cur \in 0 .. Launches + Adoptions
  /\ code \in {Running} \union ExitCodes /\ (pc = "exited" <=> code # Running)
  /\ proc \in [Clients -> {"none", "suspended", "running", "dead"}]
  /\ hung \subseteq Clients /\ jobs \subseteq Launched /\ kept \subseteq Clients
  /\ unended \subseteq Launched /\ unresumed \subseteq Launched
  /\ saved \subseteq kept /\ framed \subseteq Clients /\ moved \subseteq kept
  /\ lock \in {"user", "zero"}
  /\ hpc \in {"none", "new", "install", "installed", "failed", "loop", "ended"}
  /\ bpc \in {"none", "check", "wait", "drain", "place", "stuck", "ended"}
  /\ backlog \in 0 .. RingCap
  /\ wanted \in BOOLEAN /\ mailbox \in BOOLEAN /\ quit \in BOOLEAN
  /\ stop \in BOOLEAN /\ mu \in BOOLEAN /\ joined \in BOOLEAN

Init ==
  /\ kill \in BOOLEAN /\ borderless \in BOOLEAN
  /\ pc = "create" /\ cur = 0 /\ code = Running /\ wanted = FALSE
  /\ proc = [i \in Clients |-> IF i \in Launched THEN "none" ELSE "running"]
  /\ hung = {} /\ jobs = {} /\ kept = {} /\ unended = {} /\ unresumed = {}
  /\ saved = {} /\ framed = Clients /\ moved = {}
  /\ lock = "user"
  /\ hpc = "none" /\ mailbox = FALSE /\ quit = FALSE
  /\ bpc = "none" /\ stop = FALSE /\ backlog = 0 /\ mu = FALSE
  /\ joined = TRUE

Alive(i) == proc[i] = "running"

(* SetWindowLongPtr, SetWindowPos and EndDeferWindowPos on windows of      *)
(* clients send them messages, and return when these are answered.         *)
Answers(clients) == \A i \in clients : Alive(i) => i \notin hung

(* Closing the last handle of a job with KILL_ON_JOB_CLOSE kills it.       *)
CloseJobs(closed) ==
  /\ jobs' = jobs \ closed
  /\ proc' = [i \in Clients |-> IF kill /\ i \in closed \intersect jobs THEN "dead" ELSE proc[i]]

(* The process ends: with it every handle is closed.  Its destructors run, *)
(* or they do not.                                                         *)
Leave(c, destructors) ==
  /\ pc' = "exited" /\ code' = c
  /\ CloseJobs(jobs)
  /\ lock' = IF destructors THEN "user" ELSE lock
  /\ UNCHANGED <<options, cur, wanted, hung, kept, ignored, windowVars, hookVars, broadcasterVars,
                 joined>>

-----------------------------------------------------------------------------
(* Launching and adopting the clients.                                     *)

startVars == <<options, code, wanted, hung, windowVars, lock, hookVars, broadcasterVars, joined>>

(* The client is done with, one way or the other.                          *)
NextClient ==
  /\ cur' = cur + 1
  /\ pc' = IF cur' \in Clients THEN "create" ELSE "layout"

GoOn(step) == pc' = step /\ UNCHANGED cur

(* TerminateProcess, whose result is not looked at.                        *)
Terminate(i) ==
  \/ proc' = [proc EXCEPT ![i] = "dead"] /\ UNCHANGED unended
  \/ unended' = unended \union {i} /\ UNCHANGED proc

(* CreateProcessW, suspended.                                              *)
Create ==
  /\ pc = "create" /\ cur \in Launched
  /\ \/ GoOn("job") /\ proc' = [proc EXCEPT ![cur] = "suspended"]
     \/ NextClient /\ UNCHANGED proc
  /\ UNCHANGED <<jobs, kept, ignored, startVars>>

CreateJob_GoesOn ==
  /\ pc = "job"
  /\ GoOn("assign") \/ GoOn("resume")
  /\ UNCHANGED <<proc, jobs, kept, ignored, startVars>>
CreateJob ==
  /\ pc = "job"
  /\ \/ GoOn("assign") /\ UNCHANGED <<proc, unended>>
     \/ NextClient /\ Terminate(cur)
  /\ UNCHANGED <<jobs, kept, unresumed, startVars>>

(* configure_job and AssignProcessToJobObject.                             *)
Assign_NotTerminated ==
  /\ pc = "assign"
  /\ \/ GoOn("resume") /\ jobs' = jobs \union {cur}
     \/ NextClient /\ UNCHANGED jobs
  /\ UNCHANGED <<proc, kept, ignored, startVars>>
Assign ==
  /\ pc = "assign"
  /\ \/ GoOn("resume") /\ jobs' = jobs \union {cur} /\ UNCHANGED <<proc, unended>>
     \/ NextClient /\ Terminate(cur) /\ UNCHANGED jobs
  /\ UNCHANGED <<kept, unresumed, startVars>>

(* A failure to set the policy is not fatal, and a failure of ResumeThread *)
(* is not noticed.  Somebody else may have ended the process by now.       *)
Resume ==
  /\ pc = "resume"
  /\ GoOn("window")
  /\ \/ /\ proc' = [proc EXCEPT ![cur] = IF @ = "suspended" THEN "running" ELSE @]
        /\ UNCHANGED unresumed
     \/ unresumed' = unresumed \union {cur} /\ UNCHANGED proc
  /\ UNCHANGED <<jobs, kept, unended, startVars>>

(* wait_for_main_window finds the window, which a suspended process does   *)
(* not make, or the process ends or the deadline passes first: then the    *)
(* instance is dropped, with its handles.                                  *)
AwaitWindow ==
  /\ pc = "window"
  /\ NextClient
  /\ \/ Alive(cur) /\ kept' = kept \union {cur} /\ UNCHANGED <<proc, jobs>>
     \/ CloseJobs({cur}) /\ UNCHANGED kept
  /\ UNCHANGED <<ignored, startVars>>

Adopt ==
  /\ pc = "create" /\ cur \notin Launched
  /\ NextClient
  /\ kept' \in {kept} \union (IF Alive(cur) THEN {kept \union {cur}} ELSE {})
  /\ UNCHANGED <<proc, jobs, ignored, startVars>>

(* No instance, or no monitor.                                             *)
GiveUp == pc = "layout" /\ Leave("failed", TRUE)

Here(step, next) == pc = step /\ pc' = next /\ UNCHANGED <<options, cur, code, wanted, clientVars>>

(* make_borderless, if asked for, and apply_layout, which may fail.        *)
Arrange ==
  /\ kept # {} /\ Answers(kept)
  /\ Here("layout", "guard")
  /\ saved' = IF borderless THEN {i \in kept : Alive(i)} ELSE {}
  /\ framed' = framed \ saved'
  /\ moved' \in {{}, {i \in kept : Alive(i)}}
  /\ UNCHANGED <<lock, hookVars, broadcasterVars, joined>>

-----------------------------------------------------------------------------
(* Starting the threads.                                                   *)

(* ForegroundLockGuard: what it could not set it does not restore.         *)
Guard ==
  /\ Here("guard", "hook")
  /\ lock' \in {"user", "zero"}
  /\ UNCHANGED <<windowVars, hookVars, broadcasterVars, joined>>

StartCapture ==
  /\ Here("hook", "ready")
  /\ hpc' = "new"
  /\ UNCHANGED <<mailbox, quit, windowVars, lock, broadcasterVars, joined>>

CaptureStarted ==
  /\ hpc \in {"installed", "loop"}
  /\ Here("ready", "start")
  /\ UNCHANGED <<windowVars, lock, hookVars, broadcasterVars, joined>>

(* The thread is joined and cmd_run returns.                               *)
CaptureFailed == pc = "ready" /\ hpc = "ended" /\ Leave("failed", TRUE)

StartBroadcaster ==
  /\ Here("start", "register")
  /\ bpc' = "check"
  /\ UNCHANGED <<stop, backlog, mu, windowVars, lock, hookVars, joined>>

(* SetConsoleCtrlHandler.                                                  *)
Register ==
  /\ Here("register", "watch")
  /\ UNCHANGED <<windowVars, lock, hookVars, broadcasterVars, joined>>

(* Every stats interval the watchdog takes Session::mu to look at the      *)
(* clients; only then does it look at g_stop again.                        *)
Tick == ~wanted /\ Here("watch", "tick")
        /\ UNCHANGED <<windowVars, lock, hookVars, broadcasterVars, joined>>

Watched ==
  /\ ~mu
  /\ Here("tick", "watch")
  /\ UNCHANGED <<windowVars, lock, hookVars, broadcasterVars, joined>>

-----------------------------------------------------------------------------
(* The end.                                                                *)

Handled == pc \in {"watch", "tick", "unhook", "joinhook", "signal", "join", "restore", "leave"}

(* Ctrl+C with the handler, which counts like the end of --duration-s, and *)
(* without it.                                                             *)
CtrlC ==
  /\ Handled /\ ~wanted
  /\ wanted' = TRUE
  /\ UNCHANGED <<options, pc, cur, code, clientVars, windowVars, lock, hookVars, broadcasterVars, joined>>

EarlyCtrlC == pc # "exited" /\ ~Handled /\ Leave("killed", FALSE)

StopRequested ==
  /\ wanted
  /\ Here("watch", "unhook")
  /\ UNCHANGED <<windowVars, lock, hookVars, broadcasterVars, joined>>

(* Capture::stop: a message to a thread without a queue is lost.           *)
PostQuit ==
  /\ Here("unhook", "joinhook")
  /\ quit' = mailbox
  /\ UNCHANGED <<hpc, mailbox, windowVars, lock, broadcasterVars, joined>>

JoinHook ==
  /\ hpc = "ended"
  /\ Here("joinhook", "signal")
  /\ UNCHANGED <<windowVars, lock, hookVars, broadcasterVars, joined>>

(* Broadcaster::stop: the thread is joined, or abandoned after 3 s.        *)
SignalStop ==
  /\ Here("signal", "join")
  /\ stop' = TRUE
  /\ UNCHANGED <<bpc, backlog, mu, windowVars, lock, hookVars, joined>>

Join_AlwaysJoined ==
  /\ Here("join", "restore")
  /\ joined' = TRUE
  /\ UNCHANGED <<windowVars, lock, hookVars, broadcasterVars>>
Join ==
  /\ Here("join", "restore")
  /\ joined' = (bpc = "ended")
  /\ UNCHANGED <<windowVars, lock, hookVars, broadcasterVars>>

(* restore_style of every instance that is still there.                    *)
Restore ==
  /\ Answers(saved)
  /\ Here("restore", "leave")
  /\ framed' = framed \union {i \in saved : Alive(i)}
  /\ moved' = moved \ {i \in saved : Alive(i)}
  /\ UNCHANGED <<saved, lock, hookVars, broadcasterVars, joined>>

Finish ==
  /\ pc = "leave"
  /\ IF joined THEN Leave("ok", TRUE) ELSE Leave("abandoned", FALSE)

Start ==
  \/ Create \/ CreateJob \/ Assign \/ Resume \/ AwaitWindow \/ Adopt
  \/ GiveUp \/ Arrange
  \/ Guard \/ StartCapture \/ CaptureStarted \/ CaptureFailed \/ StartBroadcaster \/ Register
Stop ==
  \/ Watched \/ StopRequested \/ PostQuit \/ JoinHook \/ SignalStop \/ Join \/ Restore \/ Finish

-----------------------------------------------------------------------------
(* The hook thread.                                                        *)

HookStep(from, to) ==
  /\ pc # "exited" /\ hpc = from /\ hpc' = to
  /\ UNCHANGED <<options, pc, cur, code, wanted, clientVars, windowVars, lock, joined, bpc, stop, mu>>

(* PeekMessage makes the message queue ...                                 *)
HookQueue_None ==
  /\ HookStep("new", "install")
  /\ UNCHANGED <<mailbox, quit, backlog>>
HookQueue ==
  /\ HookStep("new", "install")
  /\ mailbox' = TRUE
  /\ UNCHANGED <<quit, backlog>>

(* ... before the hooks are installed and `ready` is signalled.            *)
HookInstall ==
  /\ HookStep("install", "installed") \/ HookStep("install", "failed")
  /\ UNCHANGED <<mailbox, quit, backlog>>

HookLoop ==
  /\ HookStep("installed", "loop")
  /\ mailbox' = TRUE
  /\ UNCHANGED <<quit, backlog>>

(* An event is captured, dropped if the ring is full.                      *)
HookEvent_NoCheck ==
  /\ HookStep("loop", "loop")
  /\ backlog' = backlog + 1
  /\ UNCHANGED <<mailbox, quit>>
HookEvent ==
  /\ HookStep("loop", "loop")
  /\ backlog < RingCap /\ backlog' = backlog + 1
  /\ UNCHANGED <<mailbox, quit>>

HookEnds ==
  /\ HookStep("failed", "ended") \/ (quit /\ HookStep("loop", "ended"))
  /\ UNCHANGED <<mailbox, quit, backlog>>

Hook == HookQueue \/ HookInstall \/ HookLoop \/ HookEnds

-----------------------------------------------------------------------------
(* The broadcaster thread, which also goes on after it was abandoned.      *)

BroadcasterStep(from, to) ==
  /\ pc # "exited" /\ bpc = from /\ bpc' = to
  /\ UNCHANGED <<options, pc, cur, code, wanted, clientVars, saved, framed, lock, hookVars, stop, joined>>

(* stop_ is looked at between drains only.                                 *)
CheckStop ==
  /\ BroadcasterStep("check", IF stop THEN "ended" ELSE "wait")
  /\ UNCHANGED <<moved, backlog, mu>>

Wake ==
  /\ BroadcasterStep("wait", "drain")
  /\ UNCHANGED <<moved, backlog, mu>>

(* An event that moves no window is handled.                               *)
HandleEvent ==
  /\ backlog > 0 /\ backlog' = backlog - 1
  /\ BroadcasterStep("drain", "drain")
  /\ UNCHANGED <<moved, mu>>

(* The swap: apply_layout_and_policy takes Session::mu ...                 *)
HandleSwap ==
  /\ backlog > 0 /\ backlog' = backlog - 1
  /\ BroadcasterStep("drain", "place")
  /\ mu' = TRUE
  /\ UNCHANGED moved

(* ... and keeps it while it moves the windows.                            *)
Place_KeepsLock ==
  /\ Answers(kept)
  /\ BroadcasterStep("place", "drain")
  /\ moved' = moved \union {i \in kept : Alive(i)}
  /\ UNCHANGED <<backlog, mu>>
Place ==
  /\ Answers(kept)
  /\ BroadcasterStep("place", "drain")
  /\ moved' \in {moved, moved \union {i \in kept : Alive(i)}}
  /\ mu' = FALSE
  /\ UNCHANGED backlog

(* A call to bring a window to the foreground does not return.             *)
GetStuck ==
  /\ backlog > 0 /\ backlog' = backlog - 1
  /\ BroadcasterStep("drain", "stuck")
  /\ UNCHANGED <<moved, mu>>

Drained ==
  /\ backlog = 0
  /\ BroadcasterStep("drain", "check")
  /\ UNCHANGED <<moved, backlog, mu>>

Broadcaster ==
  CheckStop \/ Wake \/ HandleEvent \/ HandleSwap \/ Place \/ GetStuck \/ Drained

-----------------------------------------------------------------------------
(* The clients.                                                            *)

ClientDies(i) ==
  /\ proc[i] \in {"suspended", "running"} /\ pc # "exited"
  /\ proc' = [proc EXCEPT ![i] = "dead"]
  /\ UNCHANGED <<options, pc, cur, code, wanted, hung, jobs, kept, ignored, windowVars, lock,
                 hookVars, broadcasterVars, joined>>

(* A client stops reading its messages, and reads them again; one client   *)
(* at a time does.                                                         *)
ClientPauses(i) ==
  /\ Alive(i) /\ pc # "exited"
  /\ \/ Answers(Clients) /\ hung' = {i}
     \/ i \in hung /\ hung' = {}
  /\ UNCHANGED <<options, pc, cur, code, wanted, proc, jobs, kept, ignored, windowVars, lock,
                 hookVars, broadcasterVars, joined>>

Next ==
  \/ Start \/ Tick \/ Stop \/ CtrlC \/ EarlyCtrlC
  \/ Hook \/ HookEvent
  \/ Broadcaster
  \/ \E i \in Clients : ClientDies(i) \/ ClientPauses(i)

Spec == Init /\ [][Next]_vars

(* The main thread and the hook thread are scheduled, and their calls      *)
(* return; a message to a client that reads its messages again and again   *)
(* is answered, and a mutex that is free again and again is acquired.      *)
(* Every client that hangs reads its messages again, or is ended.  Of the  *)
(* broadcaster thread it is assumed only that it finishes what it does     *)
(* with Session::mu held.                                                  *)
FairSpec ==
  /\ Spec
  /\ SF_vars(Start \/ Stop) /\ WF_vars(Hook) /\ SF_vars(Place)
  /\ \A i \in Clients : WF_vars(ClientPauses(i) /\ hung' = {})

-----------------------------------------------------------------------------

(* A client that launch and the wait for its window are through with runs  *)
(* or is gone, whichever call failed, but for two failures that launch     *)
(* does not notice: a client that TerminateProcess has not ended stays     *)
(* suspended, and so does one that ResumeThread has not started, unless    *)
(* --kill-on-exit is given: then it is killed when it is dropped for want  *)
(* of a window, as its job is closed (launch, cmd_run).                    *)
NoSuspendedClient ==
  code # "killed" /\ pc \notin {"job", "assign", "resume", "window"} =>
    \A i \in Clients :
      proc[i] = "suspended" => i \in unended \/ (i \in unresumed /\ ~kill)

(* With --kill-on-exit no launched client outlives the program, including  *)
(* those that were dropped because their window did not appear, and on the *)
(* way out by _Exit.  The one exception never runs: a client that was in   *)
(* no job yet and that TerminateProcess did not end (configure_job).       *)
KilledWithUs ==
  kill /\ pc = "exited" /\ code # "killed" =>
    \A i \in Launched :
      proc[i] \in {"none", "dead"} \/ (proc[i] = "suspended" /\ i \in unended)

(* Whether the broadcaster was joined or abandoned, every window made      *)
(* borderless has its style back at the end.  After a clean exit the       *)
(* foreground lock is the user's again, and the windows are back in their  *)
(* places: no swap that was queued or executing at Ctrl+C moves a window   *)
(* after it was restored.                                                  *)
ExitRestores ==
  /\ code \in {"ok", "abandoned"} => \A i \in saved : Alive(i) => i \in framed
  /\ code = "ok" => lock = "user" /\ \A i \in saved : Alive(i) => i \notin moved

(* The main thread never waits for what nobody is going to do: a hook      *)
(* thread it waits for has been started, one that it joins has WM_QUIT in  *)
(* its queue and will read it, and a broadcaster that holds Session::mu is *)
(* moving windows and nothing else (Capture::start, Capture::stop,         *)
(* apply_layout_and_policy).                                               *)
WaitsAreAnswered ==
  /\ pc = "ready" => hpc # "none"
  /\ pc = "joinhook" => hpc = "ended" \/ (quit /\ hpc \in {"installed", "loop"})
  /\ mu => bpc = "place"

(* Ctrl+C ends the program, even if the broadcaster thread is stuck in a   *)
(* call to Windows for ever ("never hang on a stuck focus call at          *)
(* shutdown") or has a backlog, even right after the hook thread has       *)
(* started, and while a swap waits with Session::mu held for a client that *)
(* hangs.                                                                  *)
ShutdownEnds == wanted ~> (pc = "exited")

=============================================================================
