------------------------------- MODULE Session -------------------------------
(***************************************************************************)
(* The session state that two threads of core/tools/mm_core.cpp share: the *)
(* main thread's watchdog (cmd_run) and the swap callback, which runs on   *)
(* the broadcaster thread.                                                 *)
(*                                                                         *)
(* Session::mu protects the assignment of slots and the exited flags,      *)
(* config_mu_ the configuration that is pending for the broadcaster        *)
(* (core/src/win/broadcaster.cpp).  A critical section is one action,      *)
(* except Assignment::set_master, whose writes the watchdog may observe    *)
(* one by one: it calls Session::master(), which takes no lock.  As that   *)
(* is a data race, the two writes may become visible in either order.      *)
(***************************************************************************)
EXTENDS Naturals, FiniteSets

CONSTANTS
  N,          (* the number of instances                                   *)
  MaxSwaps    (* bound on the number of swaps                              *)

ASSUME SessionAssumption == N \in Nat \ {0} /\ MaxSwaps \in Nat

Instances == 0 .. N - 1
NoMaster == N       (* size_t(-1), what master() returns if no slot is 0   *)
Free == "free"
Holders == {Free, "main", "broadcaster"}

VARIABLES
  slot,      (* Assignment::slot_of_                                       *)
  dead,      (* the instances whose process or window is gone              *)
  exited,    (* Instance::exited                                           *)
  applied,   (* the assignment by which the windows were placed last       *)
  mu,        (* who holds Session::mu                                      *)
  config_mu, (* who holds config_mu_                                       *)
  pending,   (* pending_targets_ and pending_master_                       *)
  version,   (* config_version_                                            *)
  config,    (* targets_ and master_ of the broadcaster thread             *)
  seen,      (* seen_version_                                              *)
  bpc, bseen, bnext, btargets, writes,   (* broadcaster thread: next step, *)
             (* v, next, the argument of set_targets, stores of set_master *)
             (* that are not visible yet                                   *)
  mpc, mdone, mscan, mtargets,   (* main thread: next step, which          *)
             (* arguments of set_targets it has evaluated, the loop index  *)
             (* of master() and then its result, the result of targets()   *)
  swaps      (* the number of swaps so far                                 *)

sharedVars == <<slot, exited, applied, mu>>
configVars == <<config_mu, pending, version>>
localVars == <<config, seen>>
broadcasterVars == <<bpc, bseen, bnext, btargets, writes>>
mainVars == <<mpc, mdone, mscan, mtargets>>
vars == <<dead, sharedVars, configVars, localVars, broadcasterVars, mainVars, swaps>>

Config == [targets : SUBSET Instances, master : Instances \union {NoMaster}]

(* Assignment::master().                                                   *)
Master == IF \E i \in Instances : slot[i] = 0
            THEN CHOOSE i \in Instances : slot[i] = 0
            ELSE NoMaster

TypeOK ==
  /\ slot \in [Instances -> Instances]
  /\ dead \subseteq Instances /\ exited \subseteq dead
  /\ applied \in [Instances -> Instances]
  /\ mu \in Holders /\ config_mu \in Holders
  /\ pending \in Config /\ config \in Config
  /\ version \in Nat /\ seen \in Nat /\ bseen \in Nat
  /\ bpc \in {"run", "copy", "swap", "pick", "write", "layout", "targets", "publish", "refresh"}
  /\ bnext \in Instances /\ btargets \subseteq Instances
  /\ writes \subseteq Instances \X Instances
  /\ mpc \in {"watch", "targets", "scan", "set"}
  /\ mdone \subseteq {"targets", "scan"}
  /\ mscan \in Instances \union {NoMaster} /\ mtargets \subseteq Instances
  /\ swaps \in 0 .. MaxSwaps

(* cmd_run has applied the layout, and published the first configuration,  *)
(* which the broadcaster has not read yet.                                 *)
Init ==
  /\ slot = [i \in Instances |-> i]
  /\ dead = {} /\ exited = {}
  /\ applied = slot
  /\ mu = Free /\ config_mu = Free
  /\ pending = [targets |-> Instances, master |-> 0]
  /\ version = 1
  /\ config = [targets |-> {}, master |-> 0]
  /\ seen = 0
  /\ bpc = "run" /\ bseen = 0 /\ bnext = 0 /\ btargets = {} /\ writes = {}
  /\ mpc = "watch" /\ mdone = {} /\ mscan = 0 /\ mtargets = {}
  /\ swaps = 0

Die(i) ==
  /\ i \notin dead
  /\ dead' = dead \union {i}
  /\ UNCHANGED <<sharedVars, configVars, localVars, broadcasterVars, mainVars, swaps>>

-----------------------------------------------------------------------------
(* Broadcaster::set_targets, in one critical section.                      *)

SetTargets_NoBump(targets, m) ==
  /\ config_mu = Free
  /\ pending' = [targets |-> targets, master |-> m]
  /\ UNCHANGED <<config_mu, version>>
SetTargets(targets, m) ==
  /\ config_mu = Free
  /\ pending' = [targets |-> targets, master |-> m]
  /\ version' = version + 1
  /\ UNCHANGED config_mu

-----------------------------------------------------------------------------
(* The main thread.                                                        *)

(* The watchdog marks the instances that died; only if there are any does  *)
(* it go on to tell the broadcaster.  C++ does not say which argument of   *)
(* set_targets it evaluates first.                                         *)
Watch ==
  /\ mpc = "watch" /\ mu = Free /\ exited # dead
  /\ exited' = dead
  /\ mpc' \in {"targets", "scan"}
  /\ UNCHANGED <<dead, slot, applied, mu, configVars, localVars, broadcasterVars, mdone, mscan, mtargets, swaps>>

(* One argument is known; the other one is next, or the call.              *)
Evaluated(argument) ==
  /\ mdone' = mdone \union {argument}
  /\ mpc' = IF mdone' = {"targets", "scan"} THEN "set"
            ELSE IF argument = "scan" THEN "targets" ELSE "scan"

(* Session::targets() takes the lock.                                      *)
WatchTargets ==
  /\ mpc = "targets" /\ mu = Free
  /\ mtargets' = Instances \ exited
  /\ Evaluated("targets")
  /\ UNCHANGED <<dead, sharedVars, configVars, localVars, broadcasterVars, mscan, swaps>>

(* Session::master() does not: one step of the loop of instance_at(0).     *)
WatchScan ==
  /\ mpc = "scan"
  /\ IF mscan < N /\ slot[mscan] # 0
       THEN mscan' = mscan + 1 /\ UNCHANGED <<mpc, mdone>>
       ELSE mscan' = mscan /\ Evaluated("scan")
  /\ UNCHANGED <<dead, sharedVars, configVars, localVars, broadcasterVars, mtargets, swaps>>

WatchSet ==
  /\ mpc = "set"
  /\ SetTargets(mtargets, mscan)
  /\ mpc' = "watch" /\ mdone' = {} /\ mscan' = 0 /\ mtargets' = {}
  /\ UNCHANGED <<dead, sharedVars, localVars, broadcasterVars, swaps>>

Main == Watch \/ WatchTargets \/ WatchScan \/ WatchSet

-----------------------------------------------------------------------------
(* The broadcaster thread.                                                 *)

(* refresh_config loads the version first ...                              *)
LoadVersion(from, to) ==
  /\ bpc = from
  /\ bpc' = IF version = seen THEN to ELSE "copy"
  /\ bseen' = version
  /\ UNCHANGED <<dead, sharedVars, configVars, localVars, bnext, btargets, writes, mainVars, swaps>>

(* ... and then, if it is new, copies the configuration under the lock.    *)
CopyConfig_OnlyTargets ==
  /\ bpc = "copy" /\ config_mu = Free
  /\ config' = [pending EXCEPT !.master = config.master]
  /\ seen' = bseen
  /\ bpc' = "run"
  /\ UNCHANGED <<dead, sharedVars, configVars, bseen, bnext, btargets, writes, mainVars, swaps>>
CopyConfig_UntilCurrent ==
  /\ bpc = "copy" /\ config_mu = Free
  /\ config' = pending
  /\ seen' = bseen
  /\ bpc' = IF version = bseen THEN "run" ELSE "refresh"
  /\ UNCHANGED <<dead, sharedVars, configVars, bseen, bnext, btargets, writes, mainVars, swaps>>
CopyConfig ==
  /\ bpc = "copy" /\ config_mu = Free
  /\ config' = pending
  /\ seen' = bseen
  /\ bpc' = "run"
  /\ UNCHANGED <<dead, sharedVars, configVars, bseen, bnext, btargets, writes, mainVars, swaps>>

(* The swap hotkey was pressed: the action SwapMaster begins.              *)
SwapPressed ==
  /\ bpc = "run" /\ swaps < MaxSwaps
  /\ swaps' = swaps + 1
  /\ bpc' = "swap"
  /\ UNCHANGED <<dead, sharedVars, configVars, localVars, bseen, bnext, btargets, writes, mainVars>>

(* on_swap_ is copied under config_mu_ and called after its release.       *)
SwapCallback_UnderLock ==
  /\ bpc = "swap" /\ config_mu = Free
  /\ config_mu' = "broadcaster"
  /\ bpc' = "pick"
  /\ UNCHANGED <<dead, sharedVars, pending, version, localVars, bseen, bnext, btargets, writes, mainVars, swaps>>
SwapCallback ==
  /\ bpc = "swap" /\ config_mu = Free
  /\ bpc' = "pick"
  /\ UNCHANGED <<dead, sharedVars, configVars, localVars, bseen, bnext, btargets, writes, mainVars, swaps>>

(* The first instance after the master that is not known to have exited;   *)
(* the master itself, if there is none.                                    *)
After(i) == (Master + i) % N
NextLive(next) ==
  \E i \in 1 .. N :
    /\ next = After(i)
    /\ next \notin exited \/ i = N
    /\ \A j \in 1 .. i - 1 : After(j) \in exited

(* set_master: the new and the old master exchange their slots.            *)
Exchange_OnlyNew(next) == {<<next, 0>>}
Exchange(next) == {<<Master, slot[next]>>, <<next, 0>>}

SwapPick ==
  /\ bpc = "pick" /\ mu = Free
  /\ \E next \in Instances :
       /\ NextLive(next)
       /\ bnext' = next
       /\ IF next = Master
            THEN writes' = {} /\ mu' = Free /\ bpc' = "layout"
            ELSE writes' = Exchange(next) /\ mu' = "broadcaster" /\ bpc' = "write"
  /\ UNCHANGED <<dead, slot, exited, applied, configVars, localVars, bseen, btargets, mainVars, swaps>>

SwapWrite ==
  /\ bpc = "write"
  /\ \E w \in writes :
       /\ slot' = [slot EXCEPT ![w[1]] = w[2]]
       /\ writes' = writes \ {w}
  /\ mu' = IF writes' = {} THEN Free ELSE mu
  /\ bpc' = IF writes' = {} THEN "layout" ELSE bpc
  /\ UNCHANGED <<dead, exited, applied, configVars, localVars, bseen, bnext, btargets, mainVars, swaps>>

(* apply_layout_and_policy places every window by its slot, in one batch   *)
(* that fails as a whole if a window goes away while it is put together:   *)
(* then there is a warning, and no window has moved.                       *)
SwapLayout_Skipped ==
  /\ bpc = "layout" /\ mu = Free
  /\ bpc' = "targets"
  /\ UNCHANGED <<dead, sharedVars, configVars, localVars, bseen, bnext, btargets, writes, mainVars, swaps>>
SwapLayout ==
  /\ bpc = "layout" /\ mu = Free
  /\ applied' = slot \/ (dead # {} /\ applied' = applied)
  /\ bpc' = "targets"
  /\ UNCHANGED <<dead, slot, exited, mu, configVars, localVars, bseen, bnext, btargets, writes, mainVars, swaps>>

SwapTargets ==
  /\ bpc = "targets" /\ mu = Free
  /\ btargets' = Instances \ exited
  /\ bpc' = "publish"
  /\ UNCHANGED <<dead, sharedVars, configVars, localVars, bseen, bnext, writes, mainVars, swaps>>

(* The callback ends (bring_to_foreground is in Broadcaster!Settle), and   *)
(* the action refreshes the configuration.                                 *)
SwapPublish ==
  /\ bpc = "publish"
  /\ SetTargets(btargets, bnext)
  /\ bpc' = "refresh" /\ btargets' = {} /\ bnext' = 0
  /\ UNCHANGED <<dead, sharedVars, localVars, bseen, writes, mainVars, swaps>>

Swap ==
  \/ SwapCallback \/ SwapPick \/ SwapWrite \/ SwapLayout \/ SwapTargets \/ SwapPublish
  \/ LoadVersion("refresh", "run")

Broadcaster == LoadVersion("run", "run") \/ CopyConfig \/ Swap

-----------------------------------------------------------------------------

Next ==
  \/ \E i \in Instances : Die(i)
  \/ Main
  \/ SwapPressed
  \/ Broadcaster

Spec == Init /\ [][Next]_vars

(* The broadcaster refreshes its configuration every 20 ms and carries out *)
(* a swap it has begun; the watchdog runs at every timeout of its wait.    *)
FairSpec == Spec /\ WF_vars(Broadcaster) /\ WF_vars(Main)

-----------------------------------------------------------------------------

(* While no swap is being written, the instances occupy the slots one to   *)
(* one: there is one master and no two windows are placed in one cell      *)
(* (Assignment::swap).                                                     *)
SlotsDistinct ==
  mu = Free => \A i, j \in Instances : slot[i] = slot[j] => i = j

(* Outside a swap the windows follow the assignment, unless a client has   *)
(* died; and even then each has a cell of its own, of this assignment or   *)
(* of an earlier one (apply_layout: one batch).                            *)
LayoutCurrent ==
  /\ bpc \in {"run", "copy"} /\ dead = {} => applied = slot
  /\ \A i, j \in Instances : applied[i] = applied[j] => i = j

(* When the broadcaster believes it has seen the newest version, it has    *)
(* the newest configuration: a set_targets between the load of the version *)
(* and the copy is not missed (refresh_config).                            *)
SeenIsCurrent == seen = version => config = pending

(* The steps that the broadcaster has left until it is back in its loop.   *)
StepsLeft ==
  CASE bpc = "run"     -> 0
    [] bpc = "copy"    -> 1
    [] bpc = "refresh" -> 2
    [] bpc = "publish" -> 3
    [] bpc = "targets" -> 4
    [] bpc = "layout"  -> 5
    [] bpc = "write"   -> 5 + Cardinality(writes)
    [] bpc = "pick"    -> 8
    [] OTHER           -> 9

(* Each step of the broadcaster brings a swap, or a refresh, nearer to its *)
(* end, and no other thread makes it longer: a placing that fails is not   *)
(* tried again, and a configuration published meanwhile does not send the  *)
(* broadcaster back (on_swap, refresh_config).                             *)
SwapsShorten ==
  [][IF Broadcaster THEN bpc # "run" => StepsLeft' < StepsLeft
                    ELSE bpc = "run" \/ UNCHANGED <<bpc, writes>>]_vars

(* A pending configuration is eventually in use.                           *)
ConfigArrives == (config # pending) ~> (config = pending)

(* Every swap comes to its end: the callback finds both locks free.        *)
SwapEnds == (bpc = "swap") ~> (bpc = "run")

(* routing.hpp, mm_core.cpp: pressing the hotkey rotates the master        *)
(* instance; when both threads are back in their loops, the broadcaster    *)
(* has been told the master of the assignment.                             *)
MasterPublished == bpc = "run" /\ mpc = "watch" => pending.master = Master

=============================================================================
