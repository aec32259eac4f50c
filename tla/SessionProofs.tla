--------------------------- MODULE SessionProofs ---------------------------
(***************************************************************************)
(* For every number of instances and of swaps: the assignment stays one to *)
(* one although the watchdog may see a swap half done, the windows follow  *)
(* it, and no configuration is missed by the broadcaster.                  *)
(*                                                                         *)
(* SlotsDistinct is about the moments when no swap is being written.  The  *)
(* invariant that is kept by every store of a swap is about the slots that *)
(* the instances will have when all its stores are visible.                *)
(***************************************************************************)
EXTENDS Session, FiniteSetTheorems, TLAPS

(* Slot s is the slot of instance i when all stores are visible.           *)
WillHold(i, s) ==
  \/ <<i, s>> \in writes
  \/ slot[i] = s /\ \A w \in writes : w[1] # i

(* A swap stores into an instance at most once, and only with the lock.    *)
Stores ==
  /\ \A v, w \in writes : v[1] = w[1] => v = w
  /\ writes # {} => mu = "broadcaster" /\ bpc = "write"
  /\ mu # "main"

(* The assignment to come is one to one, and it has a master.              *)
OneToOne ==
  /\ \A i, j, s \in Instances : WillHold(i, s) /\ WillHold(j, s) => i = j
  /\ \E i \in Instances : WillHold(i, 0)

(* The windows follow the assignment from one swap to the next.            *)
Placed ==
  /\ bpc \notin {"write", "layout"} /\ dead = {} => applied = slot
  /\ \A i, j \in Instances : applied[i] = applied[j] => i = j

(* A version is seen only after it was given out.                          *)
VersionsGrow == seen <= version /\ bseen <= version /\ SeenIsCurrent

IInv == TypeOK /\ Stores /\ OneToOne /\ Placed /\ VersionsGrow

-----------------------------------------------------------------------------
(* What is written.                                                        *)

(* The slots are those of the instances, when no swap is being written.    *)
LEMMA Settled ==
  ASSUME TypeOK, Stores, OneToOne, mu = Free
  PROVE  /\ writes = {} /\ SlotsDistinct
         /\ Master \in Instances /\ slot[Master] = 0
<1>1. writes = {}
  BY DEF Stores, Free
<1>2. \A i, s \in Instances : WillHold(i, s) <=> slot[i] = s
  BY <1>1 DEF WillHold
<1>3. SlotsDistinct
  BY <1>2 DEF OneToOne, SlotsDistinct, TypeOK
<1>4. \E i \in Instances : slot[i] = 0
  BY <1>1 DEF OneToOne, WillHold
<1>5. Master \in Instances /\ slot[Master] = 0
  BY <1>4 DEF Master
<1>. QED  BY <1>1, <1>3, <1>5

-----------------------------------------------------------------------------
(* Each part of the invariant.  Only a swap stores into the assignment.    *)

Quiet == UNCHANGED <<slot, writes, mu>> /\ (bpc = "write" => bpc' = bpc)

LEMMA OnlySwapsStore ==
  ASSUME [Next]_vars
  PROVE  Quiet \/ SwapPick \/ SwapWrite
BY DEF vars, sharedVars, broadcasterVars, Quiet, Next, Die, Main, Watch, WatchTargets, WatchScan,
       WatchSet, SetTargets, SwapPressed, Broadcaster, LoadVersion, CopyConfig, Swap, SwapCallback,
       SwapLayout, SwapTargets, SwapPublish

LEMMA StoresStep ==
  ASSUME TypeOK, Stores, [Next]_vars
  PROVE  Stores'
<1>1. CASE SwapPick
  BY <1>1 DEF SwapPick, Exchange, Stores, Free
<1>2. CASE SwapWrite
  BY <1>2 DEF SwapWrite, Stores, Free
<1>3. CASE Quiet
  BY <1>3 DEF Quiet, Stores
<1>. QED  BY <1>1, <1>2, <1>3, OnlySwapsStore

LEMMA OneToOneStep ==
  ASSUME TypeOK, Stores, OneToOne, [Next]_vars
  PROVE  OneToOne'
<1>1. CASE SwapPick
  <2>1. writes = {} /\ SlotsDistinct /\ Master \in Instances /\ slot[Master] = 0
    BY <1>1, Settled DEF SwapPick
  <2>2. PICK next \in Instances :
          writes' = IF next = Master THEN {} ELSE {<<Master, slot[next]>>, <<next, 0>>}
    BY <1>1 DEF SwapPick, Exchange
  <2>3. slot' = slot
    BY <1>1 DEF SwapPick
  <2>. DEFINE m == Master
  <2>. HIDE DEF m
  <2>4. CASE next = Master
    BY <2>1, <2>2, <2>3, <2>4 DEF OneToOne, WillHold
  <2>5. CASE next # Master
    <3>1. writes' = {<<m, slot[next]>>, <<next, 0>>} /\ m # next /\ m \in Instances
      BY <2>1, <2>2, <2>5 DEF m
    <3>2. \A i, s \in Instances : WillHold(i, s)' <=>
            IF i = m THEN s = slot[next] ELSE IF i = next THEN s = 0 ELSE s = slot[i]
      BY <2>3, <3>1 DEF WillHold
    <3>3. \A i, j \in Instances : slot[i] = slot[j] => i = j
      BY <1>1, <2>1 DEF SwapPick, SlotsDistinct
    <3>4. slot[m] = 0
      BY <2>1 DEF m
    <3>5. \A i, j, s \in Instances : WillHold(i, s)' /\ WillHold(j, s)' => i = j
      BY <3>1, <3>2, <3>3, <3>4
    <3>6. WillHold(next, 0)'
      BY <3>1 DEF WillHold
    <3>. QED  BY <3>5, <3>6 DEF OneToOne
  <2>. QED  BY <2>4, <2>5
<1>2. CASE SwapWrite
  <2>1. PICK w \in writes : slot' = [slot EXCEPT ![w[1]] = w[2]] /\ writes' = writes \ {w}
    BY <1>2 DEF SwapWrite
  <2>2. w[1] \in Instances /\ w[2] \in Instances /\ w = <<w[1], w[2]>>
    BY DEF TypeOK
  <2>3. \A i, s \in Instances : WillHold(i, s)' <=> WillHold(i, s)
    BY <2>1, <2>2 DEF WillHold, Stores, TypeOK
  <2>4. 0 \in Instances
    BY SessionAssumption DEF Instances
  <2>. QED  BY <2>3, <2>4 DEF OneToOne
<1>3. CASE Quiet
  BY <1>3 DEF Quiet, OneToOne, WillHold
<1>. QED  BY <1>1, <1>2, <1>3, OnlySwapsStore

LEMMA PlacedStep ==
  ASSUME TypeOK, Stores, OneToOne, Placed, [Next]_vars
  PROVE  Placed'
<1>1. CASE SwapLayout
  BY <1>1, Settled DEF SwapLayout, SlotsDistinct, Placed, TypeOK
<1>2. CASE SwapPick
  BY <1>2 DEF SwapPick, Placed
<1>3. CASE SwapWrite
  <2>1. applied' = applied /\ bpc' \in {"write", "layout"}
    BY <1>3 DEF SwapWrite
  <2>. QED  BY <2>1 DEF Placed
<1>4. CASE \E i \in Instances : Die(i)
  BY <1>4 DEF Die, sharedVars, broadcasterVars, Placed
<1>5. CASE Main \/ SwapPressed \/ UNCHANGED vars
  BY <1>5 DEF Main, Watch, WatchTargets, WatchScan, WatchSet, SwapPressed, vars, sharedVars,
       broadcasterVars, Placed
<1>6. CASE LoadVersion("run", "run") \/ LoadVersion("refresh", "run") \/ CopyConfig
           \/ SwapCallback \/ SwapTargets \/ SwapPublish
  BY <1>6 DEF LoadVersion, CopyConfig, SwapCallback, SwapTargets, SwapPublish, sharedVars, Placed
<1>. QED  BY <1>1, <1>2, <1>3, <1>4, <1>5, <1>6 DEF Next, Broadcaster, Swap

LEMMA VersionStep ==
  ASSUME TypeOK, VersionsGrow, [Next]_vars
  PROVE  VersionsGrow'
<1>. USE DEF VersionsGrow, SeenIsCurrent, TypeOK
<1>1. CASE CopyConfig
  BY <1>1 DEF CopyConfig, configVars
<1>2. CASE LoadVersion("run", "run") \/ LoadVersion("refresh", "run")
  BY <1>2 DEF LoadVersion, configVars, localVars
<1>3. CASE WatchSet \/ SwapPublish
  BY <1>3 DEF WatchSet, SwapPublish, SetTargets, localVars, broadcasterVars
<1>4. CASE UNCHANGED <<pending, version, config, seen, bseen>>
  BY <1>4
<1>5. CopyConfig \/ LoadVersion("run", "run") \/ LoadVersion("refresh", "run") \/ WatchSet
      \/ SwapPublish \/ UNCHANGED <<pending, version, config, seen, bseen>>
  BY DEF vars, configVars, localVars, broadcasterVars, Next, Die, Main, Watch, WatchTargets,
       WatchScan, SwapPressed, Broadcaster, Swap, SwapCallback, SwapPick, SwapWrite, SwapLayout,
       SwapTargets
<1>. QED  BY <1>1, <1>2, <1>3, <1>4, <1>5

(* The type invariant, one group of actions at a time.                     *)
LEMMA TypeStep ==
  ASSUME TypeOK, Stores, OneToOne, [Next]_vars
  PROVE  TypeOK'
<1>. USE SessionAssumption DEF TypeOK
<1>1. CASE Main
  <2>1. CASE Watch
    BY <2>1 DEF Watch, configVars, localVars, broadcasterVars
  <2>2. CASE WatchTargets
    BY <2>2 DEF WatchTargets, Evaluated, sharedVars, configVars, localVars, broadcasterVars
  <2>3. CASE WatchScan
    <3>1. mscan' \in Instances \union {NoMaster}
      <4>1. mscan' = mscan \/ (mscan < N /\ mscan' = mscan + 1)
        BY <2>3 DEF WatchScan
      <4>2. \A k \in Instances \union {NoMaster} :
              k < N => k + 1 \in Instances \union {NoMaster}
        BY DEF Instances, NoMaster
      <4>. QED  BY <4>1, <4>2
    <3>2. mpc' \in {"targets", "scan", "set"} /\ mdone' \subseteq {"targets", "scan"}
      BY <2>3 DEF WatchScan, Evaluated
    <3>. QED  BY <2>3, <3>1, <3>2 DEF WatchScan, sharedVars, configVars, localVars, broadcasterVars
  <2>4. CASE WatchSet
    <3>1. pending' \in Config
      BY <2>4 DEF WatchSet, SetTargets, Config
    <3>2. mscan' \in Instances /\ version' \in Nat
      BY <2>4 DEF WatchSet, SetTargets, Instances
    <3>. QED  BY <2>4, <3>1, <3>2 DEF WatchSet, SetTargets, sharedVars, localVars, broadcasterVars
  <2>. QED  BY <1>1, <2>1, <2>2, <2>3, <2>4 DEF Main
<1>2. CASE SwapPick
  <2>1. 0 \in Instances /\ Master \in Instances
    BY <1>2, Settled DEF SwapPick, Instances
  <2>2. \A next \in Instances : Exchange(next) \subseteq Instances \X Instances
    BY <2>1 DEF Exchange
  <2>3. /\ bnext' \in Instances /\ writes' \subseteq Instances \X Instances /\ mu' \in Holders
        /\ bpc' \in {"layout", "write"}
    BY <1>2, <2>2 DEF SwapPick, Holders
  <2>. QED  BY <1>2, <2>3 DEF SwapPick, configVars, localVars, mainVars
<1>3. CASE SwapWrite
  BY <1>3 DEF SwapWrite, Holders, Free, configVars, localVars, mainVars
<1>4. CASE SwapPublish
  <2>1. pending' \in Config
    BY <1>4 DEF SwapPublish, SetTargets, Config
  <2>2. bnext' \in Instances /\ version' \in Nat
    BY <1>4 DEF SwapPublish, SetTargets, Instances
  <2>. QED  BY <1>4, <2>1, <2>2 DEF SwapPublish, SetTargets, sharedVars, localVars, mainVars
<1>5. CASE LoadVersion("run", "run") \/ LoadVersion("refresh", "run") \/ CopyConfig
           \/ SwapCallback \/ SwapLayout \/ SwapTargets
  BY <1>5 DEF LoadVersion, CopyConfig, SwapCallback, SwapLayout, SwapTargets, sharedVars,
       configVars, localVars, mainVars
<1>6. CASE SwapPressed
  <2>1. swaps' \in 0 .. MaxSwaps
    BY <1>6 DEF SwapPressed
  <2>. QED  BY <1>6, <2>1 DEF SwapPressed, sharedVars, configVars, localVars, mainVars
<1>7. CASE \E i \in Instances : Die(i)
  BY <1>7 DEF Die, sharedVars, configVars, localVars, broadcasterVars, mainVars
<1>8. CASE UNCHANGED vars
  BY <1>8 DEF vars, sharedVars, configVars, localVars, broadcasterVars, mainVars
<1>. QED  BY <1>1, <1>2, <1>3, <1>4, <1>5, <1>6, <1>7, <1>8 DEF Next, Broadcaster, Swap

-----------------------------------------------------------------------------
(* The invariant of the session, and what follows from it.                 *)

LEMMA Inductive == Spec => []IInv
<1>1. Init => IInv
  <2>. SUFFICES ASSUME Init  PROVE IInv
    OBVIOUS
  <2>. USE SessionAssumption DEF Init, Instances
  <2>1. TypeOK
    BY DEF TypeOK, Config, Holders, NoMaster
  <2>2. Stores /\ Placed /\ VersionsGrow
    BY DEF Stores, Placed, VersionsGrow, SeenIsCurrent, Free
  <2>3. OneToOne
    BY DEF OneToOne, WillHold
  <2>. QED  BY <2>1, <2>2, <2>3 DEF IInv
<1>2. IInv /\ [Next]_vars => IInv'
  BY TypeStep, StoresStep, OneToOneStep, PlacedStep, VersionStep DEF IInv
<1>. QED  BY <1>1, <1>2, PTL DEF Spec

(* Every variable has its type; in particular every slot in the            *)
(* assignment and every master told to the broadcaster is one there is.    *)
THEOREM TypeCorrect == Spec => []TypeOK
<1>1. IInv => TypeOK
  BY DEF IInv
<1>. QED  BY <1>1, Inductive, PTL

(* Between swaps the instances occupy the slots one to one, whatever the   *)
(* order in which the two stores of a swap become visible, and after any   *)
(* number of swaps over instances that died.                               *)
THEOREM OneSlotEach == Spec => []SlotsDistinct
<1>1. IInv => SlotsDistinct
  BY Settled DEF IInv, SlotsDistinct
<1>. QED  BY <1>1, Inductive, PTL

(* Between swaps the windows are where the assignment puts them, and no    *)
(* two of them ever share a cell.                                          *)
THEOREM WindowsFollow == Spec => []LayoutCurrent
<1>1. IInv => LayoutCurrent
  BY DEF IInv, Placed, LayoutCurrent
<1>. QED  BY <1>1, Inductive, PTL

(* The broadcaster misses no configuration, whenever it is published       *)
(* between the load of the version and the copy.                           *)
THEOREM NothingMissed == Spec => []SeenIsCurrent
<1>1. IInv => SeenIsCurrent
  BY DEF IInv, VersionsGrow
<1>. QED  BY <1>1, Inductive, PTL

-----------------------------------------------------------------------------
(* What SwapEnds rests on: nobody waits for a mutex that is not about to   *)
(* be released, and a swap has ever fewer steps left.                      *)

(* config_mu_ is held during set_targets and the copies only, in           *)
(* particular not during the swap callback, and Session::mu between two    *)
(* steps only by a swap that has a store left to make.                     *)
NobodyBlocks ==
  /\ config_mu = Free
  /\ mu # Free => mu = "broadcaster" /\ bpc = "write" /\ writes # {}

Writing == bpc = "write" => mu = "broadcaster" /\ writes # {} /\ IsFiniteSet(writes)

LEMMA NobodyBlocksStep ==
  ASSUME NobodyBlocks, Stores, [Next]_vars
  PROVE  NobodyBlocks'
<1>1. config_mu' = config_mu
  BY DEF vars, configVars, Next, Die, Main, Watch, WatchTargets, WatchScan, WatchSet, SetTargets,
       SwapPressed, Broadcaster, LoadVersion, CopyConfig, Swap, SwapCallback, SwapPick, SwapWrite,
       SwapLayout, SwapTargets, SwapPublish
<1>2. CASE SwapPick
  BY <1>1, <1>2 DEF SwapPick, Exchange, NobodyBlocks
<1>3. CASE SwapWrite
  BY <1>1, <1>3 DEF SwapWrite, NobodyBlocks
<1>4. CASE Quiet
  BY <1>1, <1>4 DEF Quiet, NobodyBlocks
<1>. QED  BY <1>2, <1>3, <1>4, OnlySwapsStore

(* Whatever dies and however the threads interleave, a mutex that is held  *)
(* between two steps is held by a swap that needs no other one to go on:   *)
(* watchdog and swap callback cannot wait for each other.                  *)
THEOREM NoDeadlock == Spec => []NobodyBlocks
<1>1. Init => NobodyBlocks
  BY DEF Init, NobodyBlocks
<1>2. IInv /\ NobodyBlocks /\ [Next]_vars => NobodyBlocks'
  BY NobodyBlocksStep DEF IInv
<1>. QED  BY <1>1, <1>2, Inductive, PTL DEF Spec

LEMMA WritingStep ==
  ASSUME Writing, [Next]_vars
  PROVE  Writing'
<1>1. CASE SwapPick
  <2>1. writes' = {} \/ \E next \in Instances : writes' = {<<Master, slot[next]>>, <<next, 0>>}
    BY <1>1 DEF SwapPick, Exchange
  <2>2. \A x, y : IsFiniteSet({x, y})
    <3>. TAKE x, y
    <3>1. IsFiniteSet({} \union {x})
      BY FS_EmptySet, FS_AddElement
    <3>2. IsFiniteSet(({} \union {x}) \union {y}) /\ ({} \union {x}) \union {y} = {x, y}
      BY <3>1, FS_AddElement
    <3>. QED  BY <3>2
  <2>. QED  BY <1>1, <2>1, <2>2 DEF SwapPick, Exchange, Writing
<1>2. CASE SwapWrite
  <2>1. PICK w \in writes : writes' = writes \ {w}
    BY <1>2 DEF SwapWrite
  <2>2. IsFiniteSet(writes')
    BY <1>2, <2>1, FS_RemoveElement DEF SwapWrite, Writing
  <2>. QED  BY <1>2, <2>2 DEF SwapWrite, Writing
<1>3. CASE Quiet /\ bpc # "write" /\ ~SwapPick
  <2>1. CASE Broadcaster
    <3>1. ~SwapWrite
      BY <1>3 DEF SwapWrite
    <3>2. bpc' # "write"
      BY <1>3, <2>1, <3>1 DEF Broadcaster, LoadVersion, CopyConfig, Swap, SwapCallback,
           SwapLayout, SwapTargets, SwapPublish
    <3>. QED  BY <3>2 DEF Writing
  <2>2. CASE ~Broadcaster
    <3>1. bpc' \in {bpc, "swap"}
      BY <2>2 DEF vars, broadcasterVars, Next, Die, Main, Watch, WatchTargets, WatchScan,
           WatchSet, SwapPressed
    <3>. QED  BY <1>3, <3>1 DEF Writing
  <2>. QED  BY <2>1, <2>2
<1>4. CASE Quiet /\ bpc = "write"
  BY <1>4 DEF Quiet, Writing
<1>. QED  BY <1>1, <1>2, <1>3, <1>4, OnlySwapsStore

(* The stores of a swap are at most two.                                   *)
LEMMA AtMostTwoStores ==
  ASSUME NEW x, NEW y
  PROVE  Cardinality({x, y}) \in Nat /\ Cardinality({x, y}) <= 2
<1>1. IsFiniteSet({x}) /\ Cardinality({x}) = 1
  BY FS_Singleton
<1>2. IsFiniteSet({x} \union {y})
      /\ Cardinality({x} \union {y}) = IF y \in {x} THEN Cardinality({x}) ELSE Cardinality({x}) + 1
  BY <1>1, FS_AddElement
<1>3. {x} \union {y} = {x, y}
  OBVIOUS
<1>. QED  BY <1>1, <1>2, <1>3

LEMMA SwapStepsShorten ==
  ASSUME Writing, Broadcaster, bpc # "run"
  PROVE  StepsLeft' < StepsLeft
<1>1. CASE SwapPick
  <2>1. bpc = "pick" /\ \/ bpc' = "layout"
                        \/ /\ bpc' = "write"
                           /\ \E next \in Instances : writes' = {<<Master, slot[next]>>, <<next, 0>>}
    BY <1>1 DEF SwapPick, Exchange
  <2>2. StepsLeft = 8
    BY <2>1 DEF StepsLeft
  <2>3. CASE bpc' = "layout"
    BY <2>2, <2>3 DEF StepsLeft
  <2>4. CASE bpc' = "write" /\ \E next \in Instances : writes' = {<<Master, slot[next]>>, <<next, 0>>}
    <3>1. Cardinality(writes') \in Nat /\ Cardinality(writes') <= 2
      BY <2>4, AtMostTwoStores
    <3>2. StepsLeft' = 5 + Cardinality(writes')
      BY <2>4 DEF StepsLeft
    <3>. QED  BY <2>2, <3>1, <3>2
  <2>. QED  BY <2>1, <2>3, <2>4
<1>2. CASE SwapWrite
  <2>1. PICK w \in writes : writes' = writes \ {w}
    BY <1>2 DEF SwapWrite
  <2>2. bpc = "write" /\ IsFiniteSet(writes) /\ bpc' \in {"layout", "write"}
    BY <1>2 DEF SwapWrite, Writing
  <2>3. Cardinality(writes') = Cardinality(writes) - 1 /\ Cardinality(writes) \in Nat
    BY <2>1, <2>2, FS_RemoveElement, FS_CardinalityType
  <2>4. Cardinality(writes') \in Nat
    BY <2>1, <2>2, FS_RemoveElement, FS_CardinalityType
  <2>5. StepsLeft = 5 + Cardinality(writes)
    BY <2>2 DEF StepsLeft
  <2>6. StepsLeft' \in {5, 5 + Cardinality(writes')}
    BY <2>2 DEF StepsLeft
  <2>. QED  BY <2>3, <2>4, <2>5, <2>6
<1>3. CASE ~SwapPick /\ ~SwapWrite
  BY <1>3 DEF Broadcaster, LoadVersion, CopyConfig, Swap, SwapCallback, SwapLayout, SwapTargets,
       SwapPublish, StepsLeft
<1>. QED  BY <1>1, <1>2, <1>3

LEMMA NobodyElseSwaps ==
  ASSUME [Next]_vars, ~Broadcaster
  PROVE  bpc = "run" \/ UNCHANGED <<bpc, writes>>
BY DEF vars, broadcasterVars, Next, Die, Main, Watch, WatchTargets, WatchScan, WatchSet,
     SwapPressed

(* A swap never goes back to a step it has behind it, for every number of  *)
(* instances: with fair threads it comes to its end (cmd_run, on_swap).    *)
THEOREM SwapsNeverRepeat == Spec => SwapsShorten
<1>1. Init => Writing
  BY DEF Init, Writing
<1>2. Writing /\ [Next]_vars => Writing'
  BY WritingStep
<1>3. Writing /\ [Next]_vars =>
        [IF Broadcaster THEN bpc # "run" => StepsLeft' < StepsLeft
                        ELSE bpc = "run" \/ UNCHANGED <<bpc, writes>>]_vars
  BY SwapStepsShorten, NobodyElseSwaps
<1>. QED  BY <1>1, <1>2, <1>3, PTL DEF Spec, SwapsShorten
=============================================================================
