----------------------- MODULE StandbyControllerProofs -----------------------
(***************************************************************************)
(* For any number of goroutines and activations: the controller keeps its  *)
(* types and never has two live activations.                               *)
(***************************************************************************)
EXTENDS StandbyController, TLAPS

USE DEF Enabled, Disabled, env, mode, newapi, faults

LEMMA IdleType == Idle \in [at : PCs, op : Ops, spent : SpentSets]
  BY DEF Idle, PCs, Ops, SpentSets

LEMMA AllGoneType == AllGone \in [Lives -> [LoopKinds -> {"gone", "pass", "wait"}]]
<1>1. ASSUME NEW l \in Lives
      PROVE  [k \in LoopKinds |-> "gone"] \in [LoopKinds -> {"gone", "pass", "wait"}]
  OBVIOUS
<1>. QED
  BY <1>1 DEF AllGone

\* A step of a call keeps the calls well-typed.
LEMMA GotoType ==
  ASSUME NEW p \in Procs, NEW from \in PCs, NEW to \in PCs,
         TypeOK, Goto(p, from, to)
  PROVE  call' \in [Procs -> [at : PCs, op : Ops, spent : SpentSets]]
  BY IdleType DEF Goto, TypeOK

\* A flip keeps the flag and the requests in flight well-typed.
LEMMA FlipType ==
  ASSUME NEW down \in BOOLEAN, TypeOK, Flip(down)
  PROVE  primaryDown' \in BOOLEAN /\ notes' \in [{Enabled, Disabled} -> Nat]
  BY DEF Flip, TypeOK

\* The controller's variables keep their types: the invariant the safety
\* theorem below rests on (controller.go:38-53).
THEOREM TypeCorrect == Spec => []TypeOK
<1>1. Init => TypeOK
  <2>1. Init => world \in Worlds /\ auto \in BOOLEAN
    BY StandbyAssumption DEF Init
  <2>2. Init => notes \in [{Enabled, Disabled} -> Nat]
    BY DEF Init
  <2>4. Init => /\ ctx \in [Lives -> {"unused", "live", "cancelled"}]
                /\ loop \in [Lives -> [LoopKinds -> {"gone", "pass", "wait"}]]
    BY AllGoneType DEF Init
  <2>5. Init => activeCancel \in Lives \cup {NoLife} /\ channel \in {Enabled, Disabled}
    BY DEF Init
  <2>6. Init => primary \in PoolStates /\ standby \in PoolStates
    BY DEF Init, PoolStates
  <2>7. Init => active \in BOOLEAN
    BY DEF Init
  <2>8. Init => primaryDown \in BOOLEAN
    BY DEF Init
  <2>9. Init => restarts \in Nat /\ signal \in {"sound", "broken"}
    BY DEF Init
  <2>3. Init => call \in [Procs -> [at : PCs, op : Ops, spent : SpentSets]]
    BY IdleType DEF Init
  <2>. QED
    BY <2>1, <2>2, <2>3, <2>4, <2>5, <2>6, <2>7, <2>8, <2>9
       DEF TypeOK
<1>2. TypeOK /\ [Next]_vars => TypeOK'
  <2> SUFFICES ASSUME TypeOK, [Next]_vars PROVE TypeOK'
    OBVIOUS
  <2> USE StandbyAssumption
  <2>1. ASSUME NEW p \in Procs, Walk(p) PROVE TypeOK'
    <3>1. CASE AskPrimary(p)
      <4>1. PICK to \in PCs : Goto(p, "primary", to)
        BY <3>1 DEF AskPrimary, PCs
      <4>2. "primary" \in PCs
        BY DEF PCs
      <4>. QED
        BY <3>1, <4>1, <4>2, GotoType DEF AskPrimary, TypeOK
    <3>2. CASE MarkPrimaryAvailable(p)
      <4>1. PICK to \in PCs : Goto(p, "markUp", to)
        BY <3>2 DEF MarkPrimaryAvailable, PCs
      <4>2. "markUp" \in PCs
        BY DEF PCs
      <4>. QED
        BY <3>2, <4>1, <4>2, GotoType, FlipType DEF MarkPrimaryAvailable, TypeOK
    <3>3. CASE MarkPrimaryUnavailable(p)
      <4>1. PICK to \in PCs : Goto(p, "markDown", to)
        BY <3>3 DEF MarkPrimaryUnavailable, PCs
      <4>2. "markDown" \in PCs
        BY DEF PCs
      <4>. QED
        BY <3>3, <4>1, <4>2, GotoType, FlipType DEF MarkPrimaryUnavailable, TypeOK
    <3>4. CASE AskStandby(p)
      <4>1. PICK to \in PCs : Goto(p, "standby", to)
        BY <3>4 DEF AskStandby, PCs
      <4>2. "standby" \in PCs
        BY DEF PCs
      <4>. QED
        BY <3>4, <4>1, <4>2, GotoType DEF AskStandby, TypeOK
    <3>5. CASE ActivateCAS(p)
      <4>1. PICK to \in PCs : Goto(p, "actCAS", to)
        BY <3>5 DEF ActivateCAS, PCs
      <4>2. "actCAS" \in PCs
        BY DEF PCs
      <4>. QED
        BY <3>5, <4>1, <4>2, GotoType DEF ActivateCAS, TypeOK
    <3>6. CASE ActivateLocked(p)
      <4>1. "actLock" \in PCs /\ "idle" \in PCs
        BY DEF PCs
      <4>2. call' \in [Procs -> [at : PCs, op : Ops, spent : SpentSets]]
        BY <3>6, <4>1, GotoType DEF ActivateLocked
      <4>3. /\ activeCancel' \in Lives \cup {NoLife}
            /\ ctx' \in [Lives -> {"unused", "live", "cancelled"}]
            /\ loop' \in [Lives -> [LoopKinds -> {"gone", "pass", "wait"}]]
        <5>1. CASE activeCancel = NoLife
          <6>1. PICK l \in Lives :
                  /\ activeCancel' = l
                  /\ ctx' = [ctx EXCEPT ![l] = "live"]
                  /\ loop' = [loop EXCEPT ![l] = [k \in LoopKinds |->
                                                  IF k = "refresh" THEN "pass" ELSE "wait"]]
            BY <3>6, <5>1 DEF ActivateLocked, StartLoops
          <6>2. [k \in LoopKinds |-> IF k = "refresh" THEN "pass" ELSE "wait"]
                  \in [LoopKinds -> {"gone", "pass", "wait"}]
            OBVIOUS
          <6>3. loop' \in [Lives -> [LoopKinds -> {"gone", "pass", "wait"}]]
            BY <6>1, <6>2 DEF TypeOK
          <6>. QED
            BY <6>1, <6>3 DEF TypeOK
        <5>2. CASE activeCancel # NoLife
          BY <3>6, <5>2 DEF ActivateLocked, TypeOK
        <5>. QED
          BY <5>1, <5>2
      <4>. QED
        BY <3>6, <4>2, <4>3 DEF ActivateLocked, TypeOK
    <3>7. CASE DeactivateCAS(p)
      <4>1. PICK to \in PCs : Goto(p, "deactCAS", to)
        BY <3>7 DEF DeactivateCAS, PCs
      <4>2. "deactCAS" \in PCs
        BY DEF PCs
      <4>. QED
        BY <3>7, <4>1, <4>2, GotoType DEF DeactivateCAS, TypeOK
    <3>8. CASE DeactivateLocked(p)
      <4>1. "deactLock" \in PCs /\ "idle" \in PCs
        BY DEF PCs
      <4>2. call' \in [Procs -> [at : PCs, op : Ops, spent : SpentSets]]
        BY <3>8, <4>1, GotoType DEF DeactivateLocked
      <4>. QED
        BY <3>8, <4>2 DEF DeactivateLocked, TypeOK
    <3>. QED
      BY <2>1, <3>1, <3>2, <3>3, <3>4, <3>5, <3>6, <3>7, <3>8 DEF Walk
  <2>0. world.procs \subseteq Procs /\ world.ops \subseteq Ops /\ world.spent \subseteq SpentSets
        /\ world.primary \subseteq PoolStates /\ world.standby \subseteq PoolStates \cup {"empty"}
    BY DEF TypeOK
  <2>2. ASSUME NEW p \in world.procs, NEW o \in world.ops, NEW s \in world.spent, Call(p, o, s)
        PROVE  TypeOK'
    <3>1. [at |-> "primary", op |-> o, spent |-> s] \in [at : PCs, op : Ops, spent : SpentSets]
      BY <2>0 DEF PCs
    <3>. QED
      BY <2>0, <2>2, <3>1 DEF Call, TypeOK
  <2>3. ASSUME NEW l \in Lives, NEW k \in LoopKinds,
               Tick(l, k) \/ PassDone(l, k) \/ LoopExit(l, k)
        PROVE  TypeOK'
    BY <2>3 DEF Tick, PassDone, LoopExit, LoopStep, TypeOK
  <2>4. ASSUME NEW s \in {Enabled, Disabled}, Deliver(s) \/ Fail(s) \/ TestChannel(s)
        PROVE  TypeOK'
    BY <2>4 DEF Deliver, Fail, TestChannel, TypeOK
  <2>5. ASSUME NEW p \in world.procs, NEW v \in BOOLEAN, SaveAuto(p, v)
        PROVE  TypeOK'
    <3>1. call' \in [Procs -> [at : PCs, op : Ops, spent : SpentSets]]
      <4>1. [Idle EXCEPT !.at = "primary", !.op = "sync"]
              \in [at : PCs, op : Ops, spent : SpentSets]
        BY DEF Idle, PCs, Ops, SpentSets
      <4>. QED
        BY <2>0, <2>5, <4>1 DEF SaveAuto, TypeOK
    <3>. QED
      BY <2>5, <3>1 DEF SaveAuto, TypeOK
  <2>6. CASE PrimaryMove
    BY <2>0, <2>6 DEF PrimaryMove, TypeOK
  <2>7. CASE StandbyMove
    BY <2>0, <2>7 DEF StandbyMove, TypeOK
  <2>8. CASE Restart
    <3>1. active' \in BOOLEAN
      BY <2>8 DEF Restart
    <3>2. primaryDown' \in BOOLEAN
      BY <2>8 DEF Restart
    <3>. QED
      BY <2>8, <3>1, <3>2, IdleType, AllGoneType DEF Restart, TypeOK
  <2>9. CASE UNCHANGED vars
    BY <2>9 DEF vars, TypeOK
  <2>. QED
    BY <2>1, <2>2, <2>3, <2>4, <2>5, <2>6, <2>7, <2>8, <2>9 DEF Next
<1>. QED
  BY <1>1, <1>2, PTL DEF Spec

-----------------------------------------------------------------------------
\* activateIfNeeded and deactivateIfActive never leave two activations of the
\* standby pool alive, nor one whose cancel handle is lost
\* (controller.go:333-396), however many goroutines race through them.
THEOREM AtMostOneActivation == Spec => []SingleLifetime
<1>1. Init => SingleLifetime
  BY StandbyAssumption DEF Init, SingleLifetime
<1>2. TypeOK /\ SingleLifetime /\ [Next]_vars => SingleLifetime'
  <2> SUFFICES ASSUME TypeOK, SingleLifetime, [Next]_vars PROVE SingleLifetime'
    OBVIOUS
  <2>1. CASE UNCHANGED << activeCancel, ctx >>
    BY <2>1 DEF SingleLifetime
  <2>2. ASSUME NEW p \in Procs, ActivateLocked(p) PROVE SingleLifetime'
    <3>1. CASE activeCancel = NoLife
      <4>1. PICK l \in Lives : /\ Reusable(l)
                               /\ activeCancel' = l
                               /\ ctx' = [ctx EXCEPT ![l] = "live"]
        BY <2>2, <3>1 DEF ActivateLocked, StartLoops
      <4>2. \A m \in Lives : ctx[m] # "live"
        BY <3>1, StandbyAssumption DEF SingleLifetime
      <4>. QED
        BY <4>1, <4>2 DEF SingleLifetime, TypeOK
    <3>2. CASE activeCancel # NoLife
      BY <2>1, <2>2, <3>2 DEF ActivateLocked
    <3>. QED
      BY <3>1, <3>2
  <2>3. ASSUME NEW p \in Procs, DeactivateLocked(p) PROVE SingleLifetime'
    BY <2>3, StandbyAssumption DEF DeactivateLocked, SingleLifetime, TypeOK
  <2>4. ASSUME NEW p \in Procs, Walk(p) PROVE SingleLifetime'
    BY <2>1, <2>2, <2>3, <2>4 DEF Walk, AskPrimary, MarkPrimaryAvailable,
       MarkPrimaryUnavailable, AskStandby, ActivateCAS, DeactivateCAS
  <2>5. CASE Restart
    BY <2>5, StandbyAssumption DEF Restart, SingleLifetime
  <2>. QED
    BY <2>1, <2>4, <2>5 DEF Next, vars, Call, Tick, PassDone, LoopExit, LoopStep,
       Deliver, Fail, TestChannel, SaveAuto, PrimaryMove, StandbyMove
<1>. QED
  BY <1>1, <1>2, TypeCorrect, PTL DEF Spec

-----------------------------------------------------------------------------
\* How the mode and the handle stand when the only call is at place s.
Agreed(s, a, c) ==
  /\ s = "actLock" => a /\ c = NoLife
  /\ s = "deactLock" => ~a /\ c # NoLife
  /\ s \notin {"actLock", "deactLock"} => (a <=> c # NoLife)

\* Who runs a call is a goroutine of the world; with one such goroutine the mode
\* and the handle stand as its place says, or agree between two calls.
ModeInv ==
  /\ \A p \in Procs : call[p] # Idle => p \in world.procs
  /\ OneCaller =>
       /\ \A p \in Procs : call[p] # Idle => Agreed(call[p].at, active, activeCancel)
       /\ (\A p \in Procs : call[p] = Idle) => (active <=> activeCancel # NoLife)

\* The step of a call that goes from one place to another keeps ModeInv, if it
\* keeps the mode and the handle as the places say.
LEMMA WalkKeepsMode ==
  ASSUME TypeOK, ModeInv, NEW p \in Procs, NEW from \in PCs \ {"idle"}, NEW to \in PCs,
         Goto(p, from, to), world' = world,
         Agreed(from, active, activeCancel) => Agreed(to, active', activeCancel')
  PROVE  ModeInv'
<1>1. call[p] # Idle /\ p \in world.procs
  BY DEF Goto, Idle, ModeInv
<1>2. /\ \A q \in Procs : q # p => call'[q] = call[q]
      /\ call'[p] = IF to = "idle" THEN Idle ELSE [call[p] EXCEPT !.at = to]
  BY DEF Goto, TypeOK
<1>3. to # "idle" => call'[p].at = to
  BY <1>2 DEF TypeOK
<1>4. \A q \in Procs : call'[q] # Idle => q \in world.procs
  BY <1>1, <1>2 DEF ModeInv
<1>5. ASSUME OneCaller
      PROVE  /\ \A q \in Procs : call'[q] # Idle => Agreed(call'[q].at, active', activeCancel')
             /\ (\A q \in Procs : call'[q] = Idle) => (active' <=> activeCancel' # NoLife)
  <2>1. Agreed(to, active', activeCancel')
    BY <1>1, <1>5 DEF ModeInv, Goto
  <2>2. \A q \in Procs : q # p => call'[q] = Idle
    BY <1>1, <1>2, <1>4, <1>5 DEF OneCaller
  <2>3. call'[p] = Idle => to = "idle"
    BY <1>3 DEF Idle
  <2>4. call'[p] # Idle => call'[p].at = to
    BY <1>2, <1>3
  <2>. QED
    BY <2>1, <2>2, <2>3, <2>4 DEF Agreed
<1>. QED
  BY <1>4, <1>5 DEF ModeInv, OneCaller

\* A call that begins, outside the places that hold a change back, keeps ModeInv.
LEMMA CallKeepsMode ==
  ASSUME TypeOK, ModeInv, NEW p \in Procs, p \in world.procs, call[p] = Idle,
         call'[p] = Idle \/ call'[p].at = "primary",
         \A q \in Procs : q # p => call'[q] = call[q],
         UNCHANGED << world, active, activeCancel >>
  PROVE  ModeInv'
<1>1. \A q \in Procs : call'[q] # Idle => q \in world.procs
  BY DEF ModeInv
<1>2. ASSUME OneCaller
      PROVE  /\ \A q \in Procs : call'[q] # Idle => Agreed(call'[q].at, active, activeCancel)
             /\ active <=> activeCancel # NoLife
  <2>1. \A q \in Procs : call[q] = Idle
    BY <1>2 DEF ModeInv, OneCaller
  <2>2. \A q \in Procs : q # p => call'[q] = Idle
    BY <2>1
  <2>3. active <=> activeCancel # NoLife
    BY <1>2, <2>1 DEF ModeInv
  <2>. QED
    BY <2>2, <2>3 DEF Agreed
<1>. QED
  BY <1>1, <1>2 DEF ModeInv, OneCaller

LEMMA StepKeepsMode ==
  ASSUME TypeOK, ModeInv, [Next]_vars
  PROVE  ModeInv'
<1> USE StandbyAssumption
<1>1. CASE UNCHANGED << world, call, active, activeCancel >>
  BY <1>1 DEF ModeInv, OneCaller, Agreed
<1>2. ASSUME NEW p \in Procs, Walk(p) PROVE ModeInv'
  <2> USE DEF PCs
  <2>1. CASE AskPrimary(p)
    <3>1. PICK to \in {"markUp", "markDown"} : Goto(p, "primary", to)
      BY <2>1 DEF AskPrimary
    <3>. QED
      BY <2>1, <3>1, WalkKeepsMode DEF AskPrimary, Agreed
  <2>2. CASE MarkPrimaryAvailable(p)
    <3>1. PICK to \in {"idle", "deactCAS"} : Goto(p, "markUp", to)
      BY <2>2 DEF MarkPrimaryAvailable
    <3>. QED
      BY <2>2, <3>1, WalkKeepsMode DEF MarkPrimaryAvailable, Agreed
  <2>3. CASE MarkPrimaryUnavailable(p)
    <3>1. PICK to \in {"idle", "standby"} : Goto(p, "markDown", to)
      BY <2>3 DEF MarkPrimaryUnavailable
    <3>. QED
      BY <2>3, <3>1, WalkKeepsMode DEF MarkPrimaryUnavailable, Agreed
  <2>4. CASE AskStandby(p)
    <3>1. PICK to \in {"actCAS", "idle"} : Goto(p, "standby", to)
      BY <2>4 DEF AskStandby
    <3>. QED
      BY <2>4, <3>1, WalkKeepsMode DEF AskStandby, Agreed
  <2>5. CASE ActivateCAS(p)
    <3>1. PICK to \in {"idle", "actLock"} :
            Goto(p, "actCAS", to) /\ to = IF active THEN "idle" ELSE "actLock"
      BY <2>5 DEF ActivateCAS
    <3>2. Agreed("actCAS", active, activeCancel) => Agreed(to, active', activeCancel')
      BY <2>5, <3>1 DEF ActivateCAS, Agreed, TypeOK
    <3>. QED
      BY <2>5, <3>1, <3>2, WalkKeepsMode DEF ActivateCAS
  <2>6. CASE ActivateLocked(p)
    <3>1. Agreed("actLock", active, activeCancel) => Agreed("idle", active', activeCancel')
      BY <2>6 DEF ActivateLocked, StartLoops, Agreed
    <3>. QED
      BY <2>6, <3>1, WalkKeepsMode DEF ActivateLocked
  <2>7. CASE DeactivateCAS(p)
    <3>1. PICK to \in {"idle", "deactLock"} :
            Goto(p, "deactCAS", to) /\ to = IF active THEN "deactLock" ELSE "idle"
      BY <2>7 DEF DeactivateCAS
    <3>2. Agreed("deactCAS", active, activeCancel) => Agreed(to, active', activeCancel')
      BY <2>7, <3>1 DEF DeactivateCAS, Agreed, TypeOK
    <3>. QED
      BY <2>7, <3>1, <3>2, WalkKeepsMode DEF DeactivateCAS
  <2>8. CASE DeactivateLocked(p)
    <3>1. Agreed("deactLock", active, activeCancel) => Agreed("idle", active', activeCancel')
      BY <2>8 DEF DeactivateLocked, Agreed
    <3>. QED
      BY <2>8, <3>1, WalkKeepsMode DEF DeactivateLocked
  <2>. QED
    BY <1>2, <2>1, <2>2, <2>3, <2>4, <2>5, <2>6, <2>7, <2>8 DEF Walk
<1>3. world.procs \subseteq Procs
  BY DEF TypeOK
<1>4. ASSUME NEW p \in world.procs, NEW o \in world.ops, NEW s \in world.spent, Call(p, o, s)
      PROVE  ModeInv'
  <2>1. call'[p].at = "primary" /\ \A q \in Procs : q # p => call'[q] = call[q]
    BY <1>3, <1>4 DEF Call, TypeOK
  <2>. QED
    BY <1>3, <1>4, <2>1, CallKeepsMode DEF Call
<1>5. ASSUME NEW p \in world.procs, NEW v \in BOOLEAN, SaveAuto(p, v) PROVE ModeInv'
  <2>1. /\ call'[p] = Idle \/ call'[p].at = "primary"
        /\ \A q \in Procs : q # p => call'[q] = call[q]
    BY <1>3, <1>5 DEF SaveAuto, TypeOK, Idle
  <2>. QED
    BY <1>3, <1>5, <2>1, CallKeepsMode DEF SaveAuto
<1>6. CASE Restart
  <2>1. /\ \A p \in Procs : call'[p] = Idle
        /\ ~active' /\ activeCancel' = NoLife
    BY <1>6 DEF Restart
  <2>. QED
    BY <1>6, <2>1 DEF Restart, ModeInv
<1>. QED
  BY <1>1, <1>2, <1>4, <1>5, <1>6 DEF Next, vars, Tick, PassDone, LoopExit, LoopStep,
     Deliver, Fail, TestChannel, PrimaryMove, StandbyMove

\* The standby pool's loops run exactly while the standby mode is on, between
\* calls that do not overlap (controller.go:345-401), whatever they exclude and
\* whenever the process restarts.
THEOREM LoopsWithMode == Spec => []LoopsFollowMode
<1>1. Init => ModeInv
  BY DEF Init, ModeInv
<1>2. ModeInv => LoopsFollowMode
  <2> SUFFICES ASSUME ModeInv, OneCaller, Quiet PROVE active <=> activeCancel # NoLife
    BY DEF LoopsFollowMode
  <2>1. CASE \A p \in Procs : call[p] = Idle
    BY <2>1 DEF ModeInv
  <2>2. CASE \E p \in Procs : call[p] # Idle
    BY <2>2 DEF ModeInv, Agreed, Quiet
  <2>. QED
    BY <2>1, <2>2
<1>. QED
  BY <1>1, <1>2, StepKeepsMode, TypeCorrect, PTL DEF Spec

=============================================================================
