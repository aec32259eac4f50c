-------------------------- MODULE LifecycleProofs --------------------------
(***************************************************************************)
(* For every number of clients and every capacity of the ring: a client is *)
(* left suspended only by the two failures launch does not notice, no      *)
(* launched client outlives the program started with --kill-on-exit (or    *)
(* one that TerminateProcess did not end, and that never runs), an exit    *)
(* restores what was changed, and the main thread never waits for what     *)
(* nobody is going to do.                                                  *)
(*                                                                         *)
(* None of the four is inductive.  NoSuspendedClient needs to know which   *)
(* client may be suspended, and that one ResumeThread has not started is   *)
(* in a job that is closed, KilledWithUs that every launched client is in  *)
(* a job from the step on in which it starts to run, ExitRestores that a   *)
(* thread that was joined has ended, and WaitsAreAnswered that the hook    *)
(* thread makes its message queue before it reports.                       *)
(***************************************************************************)
EXTENDS Lifecycle, TLAPS

(* The steps of launching a client, and those in which it may be suspended.*)
Pending == {"job", "assign", "resume"}
Launching == {"create", "window"} \union Pending

(* The main thread launches or adopts an existing client.                  *)
CurrentClient ==
  /\ pc \in Launching => cur \in Clients
  /\ pc \in Pending \union {"window"} => cur \in Launched

(* Only the client being launched can be suspended, one that was not       *)
(* terminated, and one that was not started: that one, if its job kills    *)
(* it, only until its job is closed.                                       *)
OnlyCurrentSuspended ==
  code # "killed" =>
    \A i \in Clients : proc[i] = "suspended" =>
      \/ pc \in Pending /\ i = cur
      \/ i \in unended
      \/ i \in unresumed /\ (~kill \/ (pc = "window" /\ i = cur))

(* Every launched client that exists is in a job, once launch is through   *)
(* with it, unless it was to be terminated.                                *)
JobHeld ==
  /\ pc \in {"resume", "window"} => cur \in jobs
  /\ kill /\ code # "killed" =>
       \A i \in Launched :
         \/ proc[i] \in {"none", "dead"} \/ i \in jobs
         \/ proc[i] = "suspended" /\ (i \in unended \/ (pc \in {"job", "assign"} /\ i = cur))

(* All that is alive of what was made borderless has its style, and its    *)
(* place.                                                                  *)
Styled == \A i \in saved : Alive(i) => i \in framed
Restored == \A i \in saved : Alive(i) => i \notin moved

(* Windows are restored after the broadcaster has ended, if it was joined. *)
Joined ==
  /\ pc \in {"restore", "leave"} /\ joined => bpc = "ended"
  /\ pc = "leave" => Styled
  /\ pc = "leave" /\ joined => Restored

(* The hook thread has a message queue before it reports that it has       *)
(* started, and goes on until it is told to stop.                          *)
HookReady ==
  /\ hpc \notin {"none", "new"} => mailbox
  /\ pc \in {"start", "register", "watch", "tick", "unhook"} =>
       hpc \in {"installed", "loop", "ended"}

(* The broadcaster thread is started last.                                 *)
NotStarted ==
  pc \in Launching \union {"layout", "guard", "hook", "ready", "start"} => bpc = "none" /\ ~mu

IInv ==
  /\ TypeOK
  /\ CurrentClient /\ OnlyCurrentSuspended /\ JobHeld
  /\ Joined /\ KilledWithUs /\ ExitRestores
  /\ HookReady /\ NotStarted /\ WaitsAreAnswered

-----------------------------------------------------------------------------
(* What a step may do.                                                     *)

LEMMA ClientSets ==
  /\ Launches \in Nat /\ Adoptions \in Nat
  /\ Launched \subseteq Clients
  /\ \A i \in Clients : i \in Nat /\ i + 1 \in 0 .. Launches + Adoptions
  /\ \A i \in 0 .. Launches + Adoptions : i + 1 \in Clients => i \in Clients
BY LifecycleAssumption DEF Launched, Clients

LaunchStep == Create \/ CreateJob \/ Assign \/ Resume \/ AwaitWindow \/ Adopt

LeaveStep ==
  \E c \in ExitCodes, d \in BOOLEAN :
    Leave(c, d) /\ pc # "exited" /\ (c = "killed" \/ pc \notin Launching)

(* Nothing that concerns the clients changes, and the main thread is not   *)
(* launching them before or after the step.                                *)
OtherStep ==
  /\ UNCHANGED <<options, cur, code, clientVars>>
  /\ pc' = pc \/ (pc \notin Launching /\ pc' \notin Launching /\ pc' # "exited" /\ pc # "exited")

(* A client hangs or answers again.                                        *)
PauseStep ==
  /\ UNCHANGED <<options, pc, cur, code, proc, jobs, kept, ignored>>
  /\ UNCHANGED <<windowVars, lock, hookVars, broadcasterVars, joined, wanted>>
  /\ hung' \subseteq Clients

DeathStep == \E i \in Clients : ClientDies(i)

(* A step of the hook thread or the broadcaster thread, and a step of the  *)
(* main thread that is not about the clients, leave the clients alone.     *)
LEMMA Steps ==
  ASSUME TypeOK, Next
  PROVE  LaunchStep \/ LeaveStep \/ DeathStep \/ PauseStep \/ OtherStep
<1>1. CASE Start
  <2>1. CASE LaunchStep
    BY <2>1
  <2>2. CASE GiveUp \/ CaptureFailed
    BY <2>2 DEF GiveUp, CaptureFailed, LeaveStep, ExitCodes, Launching, Pending
  <2>3. CASE Arrange \/ Guard \/ StartCapture \/ CaptureStarted \/ StartBroadcaster \/ Register
    BY <2>3 DEF Arrange, Guard, StartCapture, CaptureStarted, StartBroadcaster, Register, Here,
                OtherStep, Launching, Pending, clientVars
  <2>. QED  BY <1>1, <2>1, <2>2, <2>3 DEF Start, LaunchStep
<1>2. CASE Tick \/ Watched \/ StopRequested \/ PostQuit \/ JoinHook \/ SignalStop \/ Join \/ Restore
  BY <1>2 DEF Tick, Watched, StopRequested, PostQuit, JoinHook, SignalStop, Join, Restore, Here,
              OtherStep, Launching, Pending, clientVars
<1>3. CASE Finish
  BY <1>3 DEF Finish, LeaveStep, ExitCodes, Launching, Pending
<1>4. CASE CtrlC
  BY <1>4 DEF CtrlC, OtherStep
<1>5. CASE EarlyCtrlC
  BY <1>5 DEF EarlyCtrlC, LeaveStep, ExitCodes
<1>6. CASE Hook \/ HookEvent
  BY <1>6 DEF Hook, HookQueue, HookInstall, HookLoop, HookEnds, HookEvent, HookStep, OtherStep
<1>7. CASE Broadcaster
  BY <1>7 DEF Broadcaster, CheckStop, Wake, HandleEvent, HandleSwap, Place, GetStuck, Drained,
              BroadcasterStep, OtherStep
<1>8. CASE \E i \in Clients : ClientDies(i)
  BY <1>8 DEF DeathStep
<1>9. CASE \E i \in Clients : ClientPauses(i)
  BY <1>9 DEF ClientPauses, PauseStep
<1>. QED  BY <1>1, <1>2, <1>3, <1>4, <1>5, <1>6, <1>7, <1>8, <1>9 DEF Next, Stop

(* The program does nothing after it has ended.                            *)
LEMMA NothingAfterExit ==
  ASSUME Next
  PROVE  pc # "exited"
BY DEF Next, Start, Stop, Create, CreateJob, Assign, Resume, AwaitWindow, Adopt, GiveUp, Arrange,
       Guard, StartCapture, CaptureStarted, CaptureFailed, StartBroadcaster, Register, Tick,
       Watched, StopRequested, PostQuit, JoinHook, SignalStop, Join, Restore, Finish, CtrlC, Handled,
       EarlyCtrlC, Hook, HookQueue, HookInstall, HookLoop, HookEnds, HookEvent, HookStep,
       Broadcaster, CheckStop, Wake, HandleEvent, HandleSwap, Place, GetStuck, Drained,
       BroadcasterStep, ClientDies, ClientPauses, Here

-----------------------------------------------------------------------------
(* Each part of the invariant.                                             *)

LEMMA CurrentClientStep ==
  ASSUME TypeOK, CurrentClient, Next
  PROVE  CurrentClient'
<1>1. CASE LaunchStep
  BY <1>1, ClientSets DEF LaunchStep, Create, CreateJob, Assign, Resume, AwaitWindow, Adopt,
       NextClient, GoOn, CurrentClient, Launching, Pending
<1>2. CASE LeaveStep \/ DeathStep \/ PauseStep \/ OtherStep
  BY <1>2 DEF LeaveStep, Leave, DeathStep, ClientDies, PauseStep, OtherStep, CurrentClient,
       Launching, Pending
<1>. QED  BY <1>1, <1>2, Steps

LEMMA SuspendedStep ==
  ASSUME TypeOK, CurrentClient, JobHeld, OnlyCurrentSuspended, Next
  PROVE  OnlyCurrentSuspended'
<1>. USE ClientSets DEF ignored, OnlyCurrentSuspended, TypeOK
<1>1. CASE LaunchStep
  <2>. USE DEF CurrentClient, Launching, Pending, NextClient, GoOn, startVars, options
  <2>1. CASE Create
    BY <2>1 DEF Create
  <2>2. CASE CreateJob
    BY <2>2 DEF CreateJob, Terminate
  <2>3. CASE Assign
    BY <2>3 DEF Assign, Terminate
  <2>4. CASE Resume
    BY <2>4 DEF Resume
  <2>5. CASE AwaitWindow
    BY <2>5 DEF AwaitWindow, CloseJobs, Alive, JobHeld
  <2>6. CASE Adopt
    BY <2>6 DEF Adopt
  <2>. QED  BY <1>1, <2>1, <2>2, <2>3, <2>4, <2>5, <2>6 DEF LaunchStep
<1>2. CASE LeaveStep
  BY <1>2 DEF LeaveStep, Leave, CloseJobs, options, Launching, Pending, Running
<1>3. CASE DeathStep
  BY <1>3 DEF DeathStep, ClientDies, options
<1>4. CASE PauseStep \/ OtherStep
  BY <1>4 DEF PauseStep, OtherStep, clientVars, options, Launching, Pending
<1>. QED  BY <1>1, <1>2, <1>3, <1>4, Steps

LEMMA JobHeldStep ==
  ASSUME TypeOK, CurrentClient, JobHeld, Next
  PROVE  JobHeld'
<1>. USE ClientSets DEF ignored, options, JobHeld, TypeOK
<1>1. CASE LaunchStep
  <2>. USE DEF CurrentClient, Launching, Pending, NextClient, GoOn, startVars
  <2>1. CASE Create
    BY <2>1 DEF Create
  <2>2. CASE CreateJob
    BY <2>2 DEF CreateJob, Terminate
  <2>3. CASE Assign
    BY <2>3 DEF Assign, Terminate
  <2>4. CASE Resume
    BY <2>4 DEF Resume
  <2>5. CASE AwaitWindow
    BY <2>5 DEF AwaitWindow, CloseJobs, Alive
  <2>6. CASE Adopt
    BY <2>6 DEF Adopt
  <2>. QED  BY <1>1, <2>1, <2>2, <2>3, <2>4, <2>5, <2>6 DEF LaunchStep
<1>2. CASE LeaveStep
  BY <1>2 DEF LeaveStep, Leave, CloseJobs, Launching, Pending, Running
<1>3. CASE DeathStep
  BY <1>3 DEF DeathStep, ClientDies
<1>4. CASE PauseStep \/ OtherStep
  BY <1>4 DEF PauseStep, OtherStep, clientVars, Launching, Pending
<1>. QED  BY <1>1, <1>2, <1>3, <1>4, Steps

LEMMA JoinedStep ==
  ASSUME TypeOK, Joined, Next
  PROVE  Joined'
<1>1. CASE LaunchStep
  BY <1>1 DEF LaunchStep, Create, CreateJob, Assign, Resume, AwaitWindow, Adopt, NextClient, GoOn,
       Joined
<1>2. CASE GiveUp \/ CaptureFailed \/ Finish \/ EarlyCtrlC
  BY <1>2 DEF GiveUp, CaptureFailed, Finish, EarlyCtrlC, Leave, Joined
<1>3. CASE Arrange \/ Guard \/ StartCapture \/ CaptureStarted \/ StartBroadcaster \/ Register
           \/ Tick \/ Watched \/ StopRequested \/ PostQuit \/ JoinHook \/ SignalStop
  BY <1>3 DEF Arrange, Guard, StartCapture, CaptureStarted, StartBroadcaster, Register, Tick,
       Watched, StopRequested, PostQuit, JoinHook, SignalStop, Here, Joined
<1>4. CASE Join
  BY <1>4 DEF Join, Here, broadcasterVars, Joined
<1>5. CASE Restore
  BY <1>5 DEF Restore, Here, broadcasterVars, clientVars, Joined, Styled, Restored, Alive
<1>6. CASE CtrlC \/ Hook \/ HookEvent \/ \E i \in Clients : ClientPauses(i)
  <2>1. UNCHANGED <<pc, joined, bpc, proc, windowVars>>
    BY <1>6 DEF CtrlC, Hook, HookQueue, HookInstall, HookLoop, HookEnds, HookEvent, HookStep,
         ClientPauses, clientVars, broadcasterVars
  <2>. QED  BY <2>1 DEF windowVars, Joined, Styled, Restored, Alive
<1>7. CASE Broadcaster
  <2>1. bpc # "ended" /\ UNCHANGED <<pc, joined, proc, saved, framed>>
    BY <1>7 DEF Broadcaster, CheckStop, Wake, HandleEvent, HandleSwap, Place, GetStuck, Drained,
         BroadcasterStep, clientVars
  <2>. QED  BY <2>1 DEF Joined, Styled, Alive
<1>8. CASE \E i \in Clients : ClientDies(i)
  BY <1>8 DEF ClientDies, windowVars, broadcasterVars, Joined, Styled, Restored, Alive, TypeOK
<1>. QED  BY <1>1, <1>2, <1>3, <1>4, <1>5, <1>6, <1>7, <1>8 DEF Next, Start, Stop, LaunchStep

(* The two properties of the state after the end.  Only a step that ends   *)
(* the program can make them false.                                        *)
LEMMA KilledStep ==
  ASSUME TypeOK, JobHeld, Next
  PROVE  KilledWithUs'
<1>1. pc # "exited"
  BY NothingAfterExit
<1>2. CASE LeaveStep
  BY <1>1, <1>2, ClientSets DEF LeaveStep, Leave, CloseJobs, ignored, options, JobHeld, Launching,
       Pending, KilledWithUs, Running, TypeOK
<1>3. CASE LaunchStep
  BY <1>1, <1>3 DEF LaunchStep, Create, CreateJob, Assign, Resume, AwaitWindow, Adopt, NextClient,
       GoOn, KilledWithUs
<1>4. CASE DeathStep \/ PauseStep \/ OtherStep
  BY <1>1, <1>4 DEF DeathStep, ClientDies, PauseStep, OtherStep, KilledWithUs
<1>. QED  BY <1>2, <1>3, <1>4, Steps

LEMMA ExitStep ==
  ASSUME TypeOK, Joined, Next
  PROVE  ExitRestores'
<1>1. pc # "exited" /\ code \notin {"ok", "abandoned"}
  BY NothingAfterExit DEF TypeOK, Running
<1>2. CASE Finish
  BY <1>1, <1>2 DEF Finish, Leave, CloseJobs, windowVars, Joined, Styled, Restored, ExitRestores,
       Alive, TypeOK
<1>3. CASE GiveUp \/ CaptureFailed \/ EarlyCtrlC
  BY <1>3 DEF GiveUp, CaptureFailed, EarlyCtrlC, Leave, ExitRestores
<1>4. code' = code \/ Finish \/ GiveUp \/ CaptureFailed \/ EarlyCtrlC
  BY DEF Next, Start, Stop, Create, CreateJob, Assign, Resume, AwaitWindow, Adopt, startVars,
       Arrange, Guard, StartCapture, CaptureStarted, StartBroadcaster, Register, Tick, Watched,
       StopRequested, PostQuit, JoinHook, SignalStop, Join, Restore, CtrlC, Here, Hook, HookQueue,
       HookInstall, HookLoop, HookEnds, HookEvent, HookStep, Broadcaster, CheckStop, Wake,
       HandleEvent, HandleSwap, Place, GetStuck, Drained, BroadcasterStep, ClientDies, ClientPauses
<1>. QED  BY <1>1, <1>2, <1>3, <1>4 DEF ExitRestores

(* Who is waited for.  The steps that concern neither thread, the steps of *)
(* starting and stopping them, and their own.                              *)
LEMMA WaitsStep ==
  ASSUME TypeOK, HookReady, NotStarted, WaitsAreAnswered, Next
  PROVE  HookReady' /\ NotStarted' /\ WaitsAreAnswered'
<1>1. CASE LaunchStep
  BY <1>1 DEF LaunchStep, Create, CreateJob, Assign, Resume, AwaitWindow, Adopt, NextClient, GoOn,
       startVars, hookVars, broadcasterVars, HookReady, NotStarted, WaitsAreAnswered, Launching,
       Pending
<1>2. CASE Arrange \/ Guard \/ StartCapture \/ CaptureStarted \/ StartBroadcaster \/ Register
  BY <1>2 DEF Arrange, Guard, StartCapture, CaptureStarted, StartBroadcaster, Register, Here,
       hookVars, broadcasterVars, HookReady, NotStarted, WaitsAreAnswered, Launching, Pending
<1>3. CASE Tick \/ Watched \/ StopRequested \/ PostQuit \/ JoinHook \/ SignalStop \/ Join \/ Restore
  BY <1>3 DEF Tick, Watched, StopRequested, PostQuit, JoinHook, SignalStop, Join, Restore, Here,
       hookVars, broadcasterVars, HookReady, NotStarted, WaitsAreAnswered, Launching, Pending
<1>4. CASE CtrlC \/ \E i \in Clients : ClientDies(i) \/ ClientPauses(i)
  BY <1>4 DEF CtrlC, ClientDies, ClientPauses, hookVars, broadcasterVars, HookReady, NotStarted,
       WaitsAreAnswered
<1>5. CASE Hook \/ HookEvent
  BY <1>5 DEF Hook, HookQueue, HookInstall, HookLoop, HookEnds, HookEvent, HookStep, HookReady,
       NotStarted, WaitsAreAnswered
<1>6. CASE Broadcaster
  BY <1>6 DEF Broadcaster, CheckStop, Wake, HandleEvent, HandleSwap, Place, GetStuck, Drained,
       BroadcasterStep, hookVars, HookReady, NotStarted, WaitsAreAnswered
<1>7. CASE GiveUp \/ CaptureFailed \/ Finish \/ EarlyCtrlC
  BY <1>7 DEF GiveUp, CaptureFailed, Finish, EarlyCtrlC, Leave, hookVars, broadcasterVars,
       HookReady, NotStarted, WaitsAreAnswered, Launching, Pending
<1>. QED  BY <1>1, <1>2, <1>3, <1>4, <1>5, <1>6, <1>7 DEF Next, Start, Stop, LaunchStep

(* The type invariant, one group of actions at a time.                     *)
LEMMA TypeStep ==
  ASSUME TypeOK, CurrentClient, Next
  PROVE  TypeOK'
<1>. USE ClientSets
<1>1. CASE LaunchStep
  <2>1. UNCHANGED startVars
    BY <1>1 DEF LaunchStep, Create, CreateJob, Assign, Resume, AwaitWindow, Adopt
  <2>2. pc' \in Launching \union {"layout"} /\ cur' \in 0 .. Launches + Adoptions
    BY <1>1 DEF LaunchStep, Create, CreateJob, Assign, Resume, AwaitWindow, Adopt, NextClient, GoOn,
         CurrentClient, Launching, Pending, TypeOK
  <2>3. proc' \in [Clients -> {"none", "suspended", "running", "dead"}]
    BY <1>1 DEF LaunchStep, Create, CreateJob, Assign, Resume, AwaitWindow, Adopt, Terminate,
         CloseJobs, TypeOK
  <2>4. jobs' \subseteq Launched /\ kept' \subseteq Clients /\ kept \subseteq kept'
    BY <1>1 DEF LaunchStep, Create, CreateJob, Assign, Resume, AwaitWindow, Adopt, CloseJobs,
         CurrentClient, Launching, Pending, TypeOK
  <2>5. unended' \subseteq Launched /\ unresumed' \subseteq Launched
    BY <1>1 DEF LaunchStep, Create, CreateJob, Assign, Resume, AwaitWindow, Adopt, Terminate,
         ignored, CurrentClient, Pending, TypeOK
  <2>6. code = Running /\ pc' # "exited"
    BY <1>1, <2>2 DEF LaunchStep, Create, CreateJob, Assign, Resume, AwaitWindow, Adopt, Launching,
         Pending, TypeOK
  <2>. QED  BY <2>1, <2>2, <2>3, <2>4, <2>5, <2>6 DEF startVars, options, windowVars, hookVars,
              broadcasterVars, Launching, Pending, TypeOK
<1>2. CASE GiveUp \/ CaptureFailed \/ Finish \/ EarlyCtrlC
  BY <1>2 DEF GiveUp, CaptureFailed, Finish, EarlyCtrlC, Leave, CloseJobs, options, ignored,
       windowVars, hookVars, broadcasterVars, Running, ExitCodes, TypeOK
<1>3. CASE Arrange
  <2>1. saved' \subseteq kept /\ framed' \subseteq Clients /\ moved' \subseteq kept
    BY <1>3 DEF Arrange, TypeOK
  <2>. QED  BY <1>3, <2>1 DEF Arrange, Here, options, ignored, clientVars, hookVars, broadcasterVars,
              Running, TypeOK
<1>4. CASE Guard \/ StartCapture \/ CaptureStarted \/ StartBroadcaster \/ Register
  BY <1>4 DEF Guard, StartCapture, CaptureStarted, StartBroadcaster, Register, Here, options,
       ignored, clientVars, windowVars, hookVars, broadcasterVars, Running, TypeOK
<1>5. CASE StopRequested \/ JoinHook \/ SignalStop
  <2>1. stop' \in BOOLEAN
    BY <1>5 DEF StopRequested, JoinHook, SignalStop, broadcasterVars, TypeOK
  <2>. QED  BY <1>5, <2>1 DEF StopRequested, JoinHook, SignalStop, Here, options, ignored, clientVars,
              windowVars, hookVars, broadcasterVars, Running, TypeOK
<1>6. CASE Tick \/ Watched
  BY <1>6 DEF Tick, Watched, Here, options, ignored, clientVars, windowVars, hookVars,
       broadcasterVars, Running, TypeOK
<1>7. CASE PostQuit \/ Join \/ Restore
  <2>1. CASE PostQuit
    BY <2>1 DEF PostQuit, Here, options, ignored, clientVars, windowVars, broadcasterVars,
         Running, TypeOK
  <2>2. CASE Join
    <3>1. joined' \in BOOLEAN
      BY <2>2 DEF Join
    <3>. QED  BY <2>2, <3>1 DEF Join, Here, options, ignored, clientVars, windowVars, hookVars,
                broadcasterVars, Running, TypeOK
  <2>3. CASE Restore
    BY <2>3 DEF Restore, Here, options, ignored, clientVars, hookVars, broadcasterVars, Running,
         TypeOK
  <2>. QED  BY <1>7, <2>1, <2>2, <2>3
<1>8. CASE CtrlC
  BY <1>8 DEF CtrlC, options, ignored, clientVars, windowVars, hookVars, broadcasterVars, TypeOK
<1>9. CASE Hook \/ HookEvent
  <2>1. backlog' \in 0 .. RingCap
    BY <1>9, LifecycleAssumption DEF Hook, HookQueue, HookInstall, HookLoop, HookEnds, HookEvent,
         TypeOK
  <2>2. mailbox' \in BOOLEAN /\ quit' = quit
    BY <1>9 DEF Hook, HookQueue, HookInstall, HookLoop, HookEnds, HookEvent, TypeOK
  <2>3. hpc' \in {"install", "installed", "failed", "loop", "ended"}
    BY <1>9 DEF Hook, HookQueue, HookInstall, HookLoop, HookEnds, HookEvent, HookStep
  <2>4. UNCHANGED <<options, pc, cur, code, wanted, clientVars, windowVars, lock, joined, bpc, stop, mu>>
    BY <1>9 DEF Hook, HookQueue, HookInstall, HookLoop, HookEnds, HookEvent, HookStep
  <2>. QED  BY <2>1, <2>2, <2>3, <2>4 DEF options, ignored, clientVars, windowVars, TypeOK
<1>10. CASE Broadcaster
  <2>. USE <1>10 DEF Broadcaster, CheckStop, Wake, HandleEvent, HandleSwap, Place, GetStuck, Drained
  <2>1. backlog' \in 0 .. RingCap
    BY LifecycleAssumption DEF TypeOK
  <2>2. mu' \in BOOLEAN
    BY DEF TypeOK
  <2>3. bpc' \in {"wait", "check", "drain", "place", "stuck", "ended"}
    BY DEF BroadcasterStep
  <2>4. UNCHANGED <<options, pc, cur, code, wanted, clientVars, saved, framed, lock, hookVars, stop, joined>>
    BY DEF BroadcasterStep
  <2>5. moved' \subseteq kept
    BY DEF TypeOK
  <2>. HIDE <1>10
  <2>. QED  BY <2>1, <2>2, <2>3, <2>4, <2>5 DEF options, ignored, clientVars, hookVars, TypeOK
<1>11. CASE \E i \in Clients : ClientDies(i) \/ ClientPauses(i)
  BY <1>11 DEF ClientDies, ClientPauses, options, ignored, windowVars, hookVars, broadcasterVars,
       TypeOK
<1>. QED  BY <1>1, <1>2, <1>3, <1>4, <1>5, <1>6, <1>7, <1>8, <1>9, <1>10, <1>11
           DEF Next, Start, Stop, LaunchStep

-----------------------------------------------------------------------------
(* The invariant of the run, and what follows from it.                     *)
LEMMA Inductive == Spec => []IInv
<1>1. Init => IInv
  <2>. SUFFICES ASSUME Init  PROVE IInv
    OBVIOUS
  <2>1. TypeOK
    <3>1. cur \in 0 .. Launches + Adoptions /\ backlog \in 0 .. RingCap
      BY LifecycleAssumption DEF Init
    <3>2. proc \in [Clients -> {"none", "suspended", "running", "dead"}]
      BY DEF Init
    <3>. QED  BY <3>1, <3>2 DEF Init, TypeOK, Running
  <2>2. CurrentClient
    BY LifecycleAssumption DEF Init, CurrentClient, Launching, Pending, Clients
  <2>3. OnlyCurrentSuspended /\ JobHeld
    BY ClientSets DEF Init, OnlyCurrentSuspended, JobHeld
  <2>4. Joined /\ KilledWithUs /\ ExitRestores
    BY DEF Init, Joined, KilledWithUs, ExitRestores, Running
  <2>5. HookReady /\ NotStarted /\ WaitsAreAnswered
    BY DEF Init, HookReady, NotStarted, WaitsAreAnswered
  <2>. QED  BY <2>1, <2>2, <2>3, <2>4, <2>5 DEF IInv
<1>2. IInv /\ [Next]_vars => IInv'
  <2>1. ASSUME IInv, Next  PROVE IInv'
    BY <2>1, TypeStep, CurrentClientStep, SuspendedStep, JobHeldStep, JoinedStep, KilledStep,
       ExitStep, WaitsStep DEF IInv
  <2>2. ASSUME IInv, UNCHANGED vars  PROVE IInv'
    BY <2>2 DEF IInv, vars, options, ignored, clientVars, windowVars, hookVars, broadcasterVars,
       TypeOK, CurrentClient, OnlyCurrentSuspended, JobHeld, Joined, Styled, Restored, KilledWithUs,
       ExitRestores, HookReady, NotStarted, WaitsAreAnswered, Alive
  <2>. QED  BY <2>1, <2>2
<1>. QED  BY <1>1, <1>2, PTL DEF Spec

(* Every variable has its type; the exit code is set exactly at the end.   *)
THEOREM TypeCorrect == Spec => []TypeOK
<1>1. IInv => TypeOK
  BY DEF IInv
<1>. QED  BY <1>1, Inductive, PTL

(* For any number of clients, and whichever calls fail: a client that      *)
(* launch and the wait for its window are through with is suspended only   *)
(* if TerminateProcess failed for it, or ResumeThread did and              *)
(* --kill-on-exit was not given.                                           *)
THEOREM NobodySuspended == Spec => []NoSuspendedClient
<1>1. IInv => NoSuspendedClient
  BY DEF IInv, OnlyCurrentSuspended, NoSuspendedClient, Pending
<1>. QED  BY <1>1, Inductive, PTL

(* With --kill-on-exit no launched client outlives the program, whatever   *)
(* way it ends, short of being killed itself: but for one that is still    *)
(* suspended since TerminateProcess failed for it.                         *)
THEOREM LaunchedClientsDie == Spec => []KilledWithUs
<1>1. IInv => KilledWithUs
  BY DEF IInv
<1>. QED  BY <1>1, Inductive, PTL

(* A clean exit leaves the foreground lock and the windows as the user had *)
(* them, however many events were in the ring at Ctrl+C, and one that      *)
(* abandons the broadcaster at least the styles of the windows.            *)
THEOREM CleanExit == Spec => []ExitRestores
<1>1. IInv => ExitRestores
  BY DEF IInv
<1>. QED  BY <1>1, Inductive, PTL

(* Whatever fails and in whatever order the threads run, for any number of *)
(* clients and any ring: the main thread waits for a hook thread that has  *)
(* been told and will hear it, and for a mutex only while windows are      *)
(* being moved.                                                            *)
THEOREM NobodyWaitsInVain == Spec => []WaitsAreAnswered
<1>1. IInv => WaitsAreAnswered
  BY DEF IInv
<1>. QED  BY <1>1, Inductive, PTL
=============================================================================
