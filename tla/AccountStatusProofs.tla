------------------------- MODULE AccountStatusProofs -------------------------
(***************************************************************************)
(* For any number of goroutines and any cooldown length, with every setter *)
(* open to the others after its lock: the account keeps its types, the two *)
(* copies of its status differ only for reasons that the code names, and   *)
(* what the administrator asked for outlives the calls of the others.  Of  *)
(* those who watch over its quota (QuotaWatch): the answer stored last     *)
(* decides, and the health check passes over nobody for long.              *)
(***************************************************************************)
EXTENDS AccountStatus, QuotaWatch, Integers, TLAPS

LEMMA IdleType == Idle \in Calls
  BY DEF Idle, Calls, Places, AllCallers, Setters, Statuses, Stored, Blank

\* A goroutine about to save is well-typed.
LEMMA SavingType == ASSUME NEW p \in Procs, TypeOK PROVE Saving(p) \in Calls
  BY IdleType DEF Saving, TypeOK, Calls, Places

\* What a setter leaves behind is well-typed.
LEMMA LockedType ==
  ASSUME NEW p \in Procs, NEW s, NEW a \in Fields, NEW next \in Places,
         NEW to \in Statuses, NEW d \in Nat,
         TypeOK, Locked(p, s, a, next, to, d)
  PROVE  TypeOK'
<1>1. call' \in [Procs -> Calls]
  BY DEF Locked, TypeOK, Calls
<1>2. /\ asked' \in {"on", "off", "open"} /\ restarts' \in Nat
      /\ torn' \in BOOLEAN /\ undisturbed' \in BOOLEAN
  BY DEF Locked, TypeOK
<1>. QED
  BY <1>1, <1>2 DEF Locked, past, TypeOK

LEMMA SavingFacts ==
  ASSUME NEW p \in Procs, TypeOK
  PROVE  Saving(p).at = "save" /\ Saving(p).by = call[p].by /\ Saving(p).row = Blank
  BY DEF Saving, Idle

LEMMA WorldType == TypeOK => world.callers \subseteq AllCallers
  BY AccountAssumption DEF TypeOK

LEMMA LessType == \A n \in Nat : Less(n) \in Nat
  BY DEF Less

LEMMA MaySaveType == TypeOK => \A c \in AllCallers : MaySave(c) \subseteq BOOLEAN
  BY AccountAssumption DEF MaySave, Admins, AllCallers, TypeOK

LEMMA ReturnedType ==
  ASSUME NEW p \in Procs, TypeOK, Returned(p)
  PROVE  call' \in [Procs -> Calls]
  BY IdleType, SavingType DEF Returned, TypeOK

LEMMA RowType == TypeOK => \A a \in Fields : RowOf(a) \in Stored
  BY AccountAssumption DEF RowOf, Fields, Stored, Statuses, TypeOK

\* Every variable keeps its type (types.go:80-129).
THEOREM TypeCorrect == Spec => []TypeOK
<1>1. Init => TypeOK
  <2> SUFFICES ASSUME Init PROVE TypeOK
    OBVIOUS
  <2>1. acct \in Fields
    BY DEF Init, Fresh, Fields, Statuses
  <2>2. atom \in Atomics /\ row \in Stored
    BY DEF Init, Atomics, Stored, Statuses, Blank
  <2>3. call \in [Procs -> Calls]
    BY IdleType DEF Init
  <2>. QED
    BY <2>1, <2>2, <2>3 DEF Init, TypeOK
<1>2. TypeOK /\ [Next]_vars => TypeOK'
  <2> SUFFICES ASSUME TypeOK, [Next]_vars PROVE TypeOK'
    OBVIOUS
  <2> USE DEF Statuses
  <2>1. ASSUME NEW p \in Procs, NEW c \in world.callers, Start(p, c) PROVE TypeOK'
    <3>1. PICK s \in SettersOf(c) :
            call' = [call EXCEPT ![p] = [Idle EXCEPT !.at = IF Checks(c) THEN "check" ELSE "lock",
                                                     !.by = c, !.run = s]]
      BY <2>1 DEF Start
    <3>2. s \in Setters /\ c \in AllCallers
      BY WorldType DEF SettersOf, Setters, AllCallers
    <3>3. call' \in [Procs -> Calls]
      BY <3>1, <3>2, IdleType DEF TypeOK, Calls, Places
    <3>4. undisturbed' \in BOOLEAN
      BY <2>1 DEF Start, StaysUndisturbed, TypeOK
    <3>. QED
      BY <2>1, <3>3, <3>4 DEF Start, TypeOK
  <2>2. ASSUME NEW p \in Procs, Proceed(p) PROVE TypeOK'
    <3>0. acct \in Fields
      BY DEF TypeOK
    <3>1. CASE Check(p)
      <4>1. call' \in [Procs -> Calls]
        BY <3>1, IdleType DEF Check, TypeOK, Calls, Places
      <4>. QED
        BY <3>1, <4>1 DEF Check, past, TypeOK
    <3>2. CASE SetCooldown(p)
      <4>1. PICK d \in 1..MaxCool :
              Locked(p, "SetCooldown", [acct EXCEPT !.status = "cooldown", !.left = d],
                     "status", "cooldown", d)
        BY <3>2 DEF SetCooldown
      <4>2. d \in Nat
        BY AccountAssumption
      <4>3. [acct EXCEPT !.status = "cooldown", !.left = d] \in Fields
        BY <3>0, <4>2 DEF Fields
      <4>. QED
        BY <4>1, <4>2, <4>3, LockedType DEF Places
    <3>3. CASE SetQuotaCooldown(p)
      <4>1. PICK d \in 1..MaxCool :
              Locked(p, "SetQuotaCooldown",
                     [acct EXCEPT !.status = "cooldown", !.left = d, !.quota = TRUE],
                     "status", "cooldown", d)
        BY <3>3 DEF SetQuotaCooldown
      <4>2. d \in Nat
        BY AccountAssumption
      <4>3. [acct EXCEPT !.status = "cooldown", !.left = d, !.quota = TRUE] \in Fields
        BY <3>0, <4>2 DEF Fields
      <4>. QED
        BY <4>1, <4>2, <4>3, LockedType DEF Places
    <3>4. CASE ClearQuotaCooldown(p)
      <4>1. [acct EXCEPT !.status = "active", !.manual = FALSE, !.quota = FALSE] \in Fields
        BY <3>0 DEF Fields
      <4>. QED
        BY <3>4, <4>1, LockedType DEF ClearQuotaCooldown, Places
    <3>5. CASE ClearNothing(p)
      BY <3>5, IdleType DEF ClearNothing, past, TypeOK
    <3>6. CASE SetManualDisabled(p)
      <4>1. [status |-> "disabled", manual |-> TRUE, left |-> 0, quota |-> FALSE] \in Fields
        BY DEF Fields
      <4>. QED
        BY <3>6, <4>1, LockedType DEF SetManualDisabled, Places
    <3>7. CASE SetActive(p)
      <4>1. [acct EXCEPT !.status = "active", !.manual = FALSE, !.quota = FALSE] \in Fields
        BY <3>0 DEF Fields
      <4>. QED
        BY <3>7, <4>1, LockedType DEF SetActive, Places
    <3>8. CASE UpdateToken(p)
      <4>1. [acct EXCEPT !.status = "active", !.manual = FALSE] \in Fields
        BY <3>0 DEF Fields
      <4>. QED
        BY <3>8, <3>0, <4>1, LockedType DEF UpdateToken, Places
    <3>9. CASE SetRefreshDisabled(p)
      <4>1. (IF acct.status = "disabled" THEN acct
             ELSE [acct EXCEPT !.status = "active", !.left = 0]) \in Fields
        BY <3>0 DEF Fields
      <4>. QED
        BY <3>9, <4>1, LockedType DEF SetRefreshDisabled, Places
    <3>10. CASE TestStatus(p)
      <4>1. call' \in [Procs -> Calls]
        BY <3>10, SavingType DEF TestStatus, TypeOK, Calls, Places
      <4>. QED
        BY <3>10, <4>1 DEF TestStatus, past, TypeOK
    <3>11. CASE StoreStatus(p)
      <4>1. call' \in [Procs -> Calls]
        BY <3>11, ReturnedType DEF StoreStatus, TypeOK, Calls, Places
      <4>2. atom' \in Atomics
        BY <3>11 DEF StoreStatus, TypeOK, Calls, Atomics
      <4>. QED
        BY <3>11, <4>1, <4>2 DEF StoreStatus, past, TypeOK
    <3>12. CASE StoreCooldown(p)
      <4>1. call' \in [Procs -> Calls]
        BY <3>12, ReturnedType DEF StoreCooldown
      <4>2. atom' \in Atomics
        BY <3>12 DEF StoreCooldown, TypeOK, Calls, Atomics
      <4>. QED
        BY <3>12, <4>1, <4>2 DEF StoreCooldown, past, TypeOK
    <3>13. CASE Save(p)
      <4>1. RowOf(acct) \in Stored
        BY <3>0, RowType
      <4>2. call' \in [Procs -> Calls]
        BY <3>13, <4>1 DEF Save, TypeOK, Calls, Places
      <4>. QED
        BY <3>13, <4>2 DEF Save, past, TypeOK
    <3>15. CASE Write(p)
      <4>1. call' \in [Procs -> Calls]
        BY <3>15, IdleType DEF Write, past, TypeOK
      <4>2. row' \in Stored
        BY <3>15 DEF Write, TypeOK, Calls
      <4>3. asked' \in {"on", "off", "open"}
        BY <3>15 DEF Write, past, TypeOK
      <4>. QED
        BY <3>15, <4>1, <4>2, <4>3 DEF Write, past, TypeOK
    <3>14. CASE SaveFails(p)
      BY <3>14, IdleType DEF SaveFails, past, TypeOK
    <3>. QED
      BY <2>2, <3>1, <3>2, <3>3, <3>4, <3>5, <3>6, <3>7, <3>8, <3>9, <3>10,
         <3>11, <3>12, <3>13, <3>14, <3>15 DEF Proceed, Setter
  <2>3. CASE Tick
    <3>1. call' \in [Procs -> Calls]
      BY <2>3, LessType DEF Tick, TypeOK, Calls, Stored
    <3>2. acct' \in Fields /\ atom' \in Atomics /\ row' \in Stored
      BY <2>3, LessType DEF Tick, TypeOK, Fields, Atomics, Stored
    <3>. QED
      BY <2>3, <3>1, <3>2 DEF Tick, past, TypeOK
  <2>4. CASE Restart
    <3>1. call' \in [Procs -> Calls]
      BY <2>4, IdleType DEF Restart
    <3>2. acct' \in Fields /\ atom' \in Atomics
      BY <2>4 DEF Restart, TypeOK, Fields, Atomics, Stored
    <3>3. world' \in Worlds /\ row' \in Stored /\ asked' \in {"on", "off", "open"}
      BY <2>4 DEF Restart, TypeOK
    <3>4. torn' \in BOOLEAN /\ undisturbed' \in BOOLEAN
      BY <2>4 DEF Restart, TypeOK
    <3>5. restarts' \in Nat
      BY <2>4 DEF Restart, TypeOK
    <3>. QED
      BY <3>1, <3>2, <3>3, <3>4, <3>5 DEF TypeOK
  <2>5. CASE UNCHANGED vars
    BY <2>5 DEF vars, past, TypeOK
  <2>. QED
    BY <2>1, <2>2, <2>3, <2>4, <2>5 DEF Next
<1>. QED
  BY <1>1, <1>2, PTL DEF Spec

-----------------------------------------------------------------------------
\* A setter between its unlock and its last store: what it still has to store
\* is what it left in the fields.
Handed(p) ==
  /\ call[p].at \in {"status", "cool"} =>
       /\ acct.status = call[p].to
       /\ call[p].to = "cooldown" => acct.left = call[p].left /\ call[p].run # "UpdateToken"
  /\ call[p].at = "cool" => atom.status = call[p].to
  /\ call[p].at = "test" =>
       /\ call[p].to = "active"
       /\ acct.status = IF atom.status = "disabled" THEN "disabled" ELSE "active"

\* The two copies are equal when no setter runs.
Same ==
  Quiet => /\ atom.status = acct.status
           /\ acct.status = "cooldown" => atom.left = acct.left

Agreeing ==
  /\ \A p, q \in Procs : Storing(p) /\ Storing(q) => p = q
  /\ \A p \in Procs : Handed(p)
  /\ Same

AgreeInv == ~torn => Agreeing

LEMMA LockedAgrees ==
  ASSUME NEW p \in Procs, NEW s, NEW a, NEW next \in {"status", "test"}, NEW to, NEW d,
         TypeOK, ~torn', Locked(p, s, a, next, to, d),
         next = "status" => /\ a.status = to
                            /\ to = "cooldown" => a.left = d /\ s # "UpdateToken",
         next = "test" => /\ to = "active"
                          /\ a.status = IF atom.status = "disabled" THEN "disabled" ELSE "active"
  PROVE  Agreeing'
<1>1. \A q \in Procs : ~Storing(q)
  BY DEF Locked, Quiet
<1>2. call' = [call EXCEPT ![p] = [@ EXCEPT !.at = next, !.to = to, !.left = d]]
  BY DEF Locked
<1>3. /\ call'[p].at = next /\ call'[p].to = to /\ call'[p].left = d /\ call'[p].run = s
      /\ \A q \in Procs : q # p => call'[q] = call[q]
  BY <1>2 DEF Locked, TypeOK, Calls
<1>4. acct' = a /\ atom' = atom
  BY DEF Locked
<1>5. Storing(p)' /\ \A q \in Procs : q # p => ~Storing(q)'
  BY <1>1, <1>3 DEF Storing
<1>6. \A q \in Procs : Handed(q)'
  BY <1>3, <1>4, <1>5 DEF Handed, Storing
<1>7. Same'
  BY <1>5 DEF Same, Quiet
<1>. QED
  BY <1>5, <1>6, <1>7 DEF Agreeing

\* A step that touches neither copy of the status and moves one goroutine
\* between places outside its setter.
LEMMA OutsideAgrees ==
  ASSUME NEW p \in Procs, TypeOK, Agreeing, UNCHANGED << acct, atom >>,
         ~Storing(p), ~Storing(p)',
         \A q \in Procs \ {p} : call'[q] = call[q]
  PROVE  Agreeing'
<1>1. \A q \in Procs : Storing(q)' <=> Storing(q)
  BY DEF Storing
<1>2. \A q \in Procs : Handed(q)'
  BY DEF Handed, Storing, Agreeing
<1>3. Same'
  BY <1>1 DEF Same, Quiet, Agreeing
<1>. QED
  BY <1>1, <1>2, <1>3 DEF Agreeing

\* The last store of the one setter that is running makes the copies agree.
LEMMA ReturnedAgrees ==
  ASSUME NEW p \in Procs, TypeOK, Agreeing, Storing(p), Returned(p),
         acct' = acct, atom'.status = acct.status,
         acct.status = "cooldown" => atom'.left = acct.left
  PROVE  Agreeing'
<1>1. \A q \in Procs \ {p} : call'[q] = call[q] /\ ~Storing(q)
  BY DEF Returned, TypeOK, Agreeing
<1>2. ~Storing(p)'
  BY DEF Returned, Saving, TypeOK, Calls, Storing, Idle
<1>3. \A q \in Procs : ~Storing(q)'
  BY <1>1, <1>2 DEF Storing
<1>4. \A q \in Procs : Handed(q)'
  BY <1>3 DEF Handed, Storing
<1>. QED
  BY <1>3, <1>4 DEF Agreeing, Same, Quiet

LEMMA AgreeInductive ==
  ASSUME TypeOK, AgreeInv, [Next]_vars
  PROVE  AgreeInv'
<1>. SUFFICES ASSUME ~torn' PROVE Agreeing'
  BY DEF AgreeInv
<1>0. torn' = torn => Agreeing
  BY DEF AgreeInv
<1>1. ASSUME NEW p \in Procs, NEW c \in world.callers, Start(p, c) PROVE Agreeing'
  <2>1. ~Storing(p) /\ ~Storing(p)' /\ \A q \in Procs \ {p} : call'[q] = call[q]
    BY <1>1 DEF Start, Storing, Idle, TypeOK, Calls
  <2>2. Agreeing /\ UNCHANGED << acct, atom >>
    BY <1>0, <1>1 DEF Start
  <2>. QED
    BY <2>1, <2>2, OutsideAgrees
<1>2. ASSUME NEW p \in Procs, Proceed(p) PROVE Agreeing'
  <2>1. CASE Check(p) \/ ClearNothing(p) \/ Save(p) \/ Write(p) \/ SaveFails(p)
    <3>1. ~Storing(p) /\ ~Storing(p)' /\ \A q \in Procs \ {p} : call'[q] = call[q]
      <4>1. CASE Check(p)
        BY <4>1 DEF Check, Storing, Idle, TypeOK, Calls
      <4>2. CASE Save(p)
        BY <4>2 DEF Save, Storing, TypeOK, Calls
      <4>3. CASE ClearNothing(p) \/ Write(p) \/ SaveFails(p)
        BY <4>3 DEF ClearNothing, Write, SaveFails, Storing, Idle, TypeOK
      <4>. QED
        BY <2>1, <4>1, <4>2, <4>3
    <3>2. Agreeing /\ UNCHANGED << acct, atom >>
      BY <1>0, <2>1 DEF Check, ClearNothing, Save, Write, SaveFails, past
    <3>. QED
      BY <2>1, <3>1, <3>2, OutsideAgrees
  <2>2. CASE SetCooldown(p)
    <3>1. PICK d \in 1..MaxCool :
            Locked(p, "SetCooldown", [acct EXCEPT !.status = "cooldown", !.left = d],
                   "status", "cooldown", d)
      BY <2>2 DEF SetCooldown
    <3>. QED
      BY <3>1, LockedAgrees DEF TypeOK, Fields
  <2>3. CASE SetQuotaCooldown(p)
    <3>1. PICK d \in 1..MaxCool :
            Locked(p, "SetQuotaCooldown",
                   [acct EXCEPT !.status = "cooldown", !.left = d, !.quota = TRUE],
                   "status", "cooldown", d)
      BY <2>3 DEF SetQuotaCooldown
    <3>. QED
      BY <3>1, LockedAgrees DEF TypeOK, Fields
  <2>4. CASE ClearQuotaCooldown(p)
    BY <2>4, LockedAgrees DEF ClearQuotaCooldown, TypeOK, Fields
  <2>5. CASE SetManualDisabled(p)
    BY <2>5, LockedAgrees DEF SetManualDisabled
  <2>6. CASE SetActive(p)
    BY <2>6, LockedAgrees DEF SetActive, TypeOK, Fields
  <2>7. CASE UpdateToken(p)
    BY <2>7, LockedAgrees DEF UpdateToken, IsManuallyDisabled, TypeOK, Fields
  <2>8. CASE SetRefreshDisabled(p)
    <3>1. atom.status = acct.status
      BY <2>8 DEF SetRefreshDisabled, Locked, AgreeInv, Agreeing, Same
    <3>. QED
      BY <2>8, <3>1, LockedAgrees DEF SetRefreshDisabled, TypeOK, Fields
  <2>9. CASE TestStatus(p)
    <3>0. Agreeing
      BY <1>0, <2>9 DEF TestStatus, past
    <3>1. /\ Storing(p) /\ acct' = acct /\ atom' = atom /\ call[p].to = "active"
          /\ acct.status = IF atom.status = "disabled" THEN "disabled" ELSE "active"
      BY <2>9, <3>0 DEF TestStatus, Storing, Agreeing, Handed
    <3>2. \A q \in Procs \ {p} : call'[q] = call[q] /\ ~Storing(q)
      BY <2>9, <3>0, <3>1 DEF TestStatus, TypeOK, Agreeing
    <3>4. /\ call'[p].at = IF atom.status = "disabled" THEN "save" ELSE "status"
          /\ call'[p].to = "active"
      BY <2>9, <3>1 DEF TestStatus, Saving, Idle, TypeOK, Calls
    <3>5. \A q \in Procs \ {p} : ~Storing(q)'
      BY <3>2 DEF Storing
    <3>6. \A q \in Procs : Handed(q)'
      BY <3>1, <3>4, <3>5 DEF Handed, Storing
    <3>7. Same'
      BY <3>1, <3>4 DEF Same, Quiet, Storing
    <3>. QED
      BY <3>5, <3>6, <3>7 DEF Agreeing
  <2>10. CASE StoreStatus(p)
    <3>0. Agreeing
      BY <1>0, <2>10 DEF StoreStatus, past
    <3>1. /\ Storing(p) /\ acct' = acct /\ acct.status = call[p].to
          /\ call[p].to = "cooldown" => acct.left = call[p].left /\ call[p].run # "UpdateToken"
      BY <2>10, <3>0 DEF StoreStatus, Storing, Agreeing, Handed
    <3>2. atom'.status = call[p].to
      BY <2>10 DEF StoreStatus, TypeOK, Atomics
    <3>3. CASE call[p].run = "UpdateToken"
      BY <2>10, <3>0, <3>1, <3>2, <3>3, ReturnedAgrees DEF StoreStatus
    <3>4. CASE call[p].run # "UpdateToken"
      <4>1. call' = [call EXCEPT ![p].at = "cool"]
        BY <2>10, <3>4 DEF StoreStatus
      <4>2. /\ call'[p].at = "cool" /\ call'[p].to = call[p].to
            /\ call'[p].left = call[p].left /\ call'[p].run = call[p].run
        BY <4>1 DEF TypeOK, Calls
      <4>3. \A q \in Procs \ {p} : call'[q] = call[q] /\ ~Storing(q)
        BY <3>0, <3>1, <4>1 DEF TypeOK, Agreeing
      <4>4. \A q \in Procs \ {p} : ~Storing(q)'
        BY <4>3 DEF Storing
      <4>5. \A q \in Procs : Handed(q)'
        BY <3>1, <3>2, <4>2, <4>4 DEF Handed, Storing
      <4>6. Same'
        BY <4>2 DEF Same, Quiet, Storing
      <4>. QED
        BY <4>4, <4>5, <4>6 DEF Agreeing
    <3>. QED
      BY <3>3, <3>4
  <2>11. CASE StoreCooldown(p)
    <3>0. Agreeing
      BY <1>0, <2>11 DEF StoreCooldown, past
    <3>1. /\ Storing(p) /\ acct' = acct /\ acct.status = call[p].to /\ atom.status = call[p].to
          /\ call[p].to = "cooldown" => acct.left = call[p].left
      BY <2>11, <3>0 DEF StoreCooldown, Storing, Agreeing, Handed
    <3>2. atom'.status = call[p].to /\ atom'.left = call[p].left
      BY <2>11, <3>1 DEF StoreCooldown, TypeOK, Atomics
    <3>. QED
      BY <2>11, <3>0, <3>1, <3>2, ReturnedAgrees DEF StoreCooldown
  <2>. QED
    BY <1>2, <2>1, <2>2, <2>3, <2>4, <2>5, <2>6, <2>7, <2>8, <2>9, <2>10, <2>11
       DEF Proceed, Setter
<1>3. CASE Tick
  <2>0. Agreeing
    BY <1>0, <1>3 DEF Tick, past
  <2>1. \A q \in Procs : /\ call'[q].at = call[q].at /\ call'[q].to = call[q].to
                         /\ call'[q].run = call[q].run /\ call'[q].left = Less(call[q].left)
    BY <1>3 DEF Tick, TypeOK, Calls
  <2>2. /\ acct'.status = acct.status /\ acct'.left = Less(acct.left)
        /\ atom'.status = atom.status /\ atom'.left = Less(atom.left)
    BY <1>3 DEF Tick, TypeOK, Fields, Atomics
  <2>3. \A q \in Procs : (Storing(q)' <=> Storing(q)) /\ (Handed(q) => Handed(q)')
    BY <2>1, <2>2 DEF Storing, Handed
  <2>4. Same'
    BY <2>0, <2>2, <2>3 DEF Agreeing, Same, Quiet
  <2>. QED
    BY <2>0, <2>3, <2>4 DEF Agreeing
<1>4. CASE Restart
  <2>1. \A q \in Procs : ~Storing(q)'
    BY <1>4 DEF Restart, Storing, Idle
  <2>2. acct'.status = atom'.status /\ acct'.left = atom'.left
    BY <1>4 DEF Restart
  <2>. QED
    BY <2>1, <2>2 DEF Agreeing, Same, Handed, Storing
<1>5. CASE UNCHANGED vars
  BY <1>0, <1>5 DEF vars, past, Agreeing, Same, Quiet, Handed, Storing
<1>. QED
  BY <1>1, <1>2, <1>3, <1>4, <1>5 DEF Next

\* Whatever goroutines run on an account, the selectors and the guards agree on
\* its status as soon as a setter has run that no other setter entered
\* (types.go:447-461, 522-527).
THEOREM SettersAgree == Spec => []Agreement
<1>1. Init => AgreeInv
  BY DEF Init, AgreeInv, Agreeing, Same, Handed, Storing, Idle, Fresh
<1>2. TypeOK /\ AgreeInv /\ [Next]_vars => AgreeInv'
  BY AgreeInductive
<1>3. AgreeInv => Agreement
  BY DEF AgreeInv, Agreeing, Agreement, Same
<1>. QED
  BY <1>1, <1>2, <1>3, TypeCorrect, PTL DEF Spec

-----------------------------------------------------------------------------
\* What a goroutine's record says at each place.
Shaped(p) ==
  call[p].at \in {"check", "lock"} => call[p].run \in SettersOf(call[p].by)

Working(p) == call[p].at # "idle" /\ call[p].by \in Admins

\* Where a call may be while the administrator's disable stands: it has not
\* looked yet, it has nothing left to change, or it is a refresh.
Harmless(p) ==
  \/ call[p].at \in {"idle", "check", "test", "save"}
  \/ call[p].at = "lock" /\ call[p].run \in {"UpdateToken", "SetRefreshDisabled"}
  \/ call[p].at = "status" /\ call[p].run = "UpdateToken" /\ call[p].to = "disabled"
  \/ call[p].at = "write" /\ call[p].row.status = "disabled"

\* Where a call may be while his enable stands: nothing it holds says disabled.
Clean(p) ==
  /\ call[p].at = "lock" => call[p].run # "SetManualDisabled"
  /\ call[p].at \in {"test", "status"} => call[p].to # "disabled"
  /\ call[p].at = "write" => call[p].row.status # "disabled"

\* How far SetAccountEnabled(false) has come ...
Disabling(p) ==
  call[p].by = "disable" =>
    /\ call[p].at \notin {"check", "test"}
    /\ call[p].at = "status" => call[p].to = "disabled" /\ call[p].run = "SetManualDisabled"
    /\ call[p].at \in {"status", "cool", "save", "write"} => IsManuallyDisabled
    /\ call[p].at \in {"cool", "save", "write"} => atom.status = "disabled"
    /\ call[p].at = "write" => call[p].row.status = "disabled"

\* ... and SetAccountEnabled(true).
Enabling(p) ==
  call[p].by = "enable" =>
    /\ call[p].at \notin {"check", "test"}
    /\ call[p].at = "status" => call[p].to = "active" /\ call[p].run = "SetActive"
    /\ call[p].at \in {"status", "cool", "save", "write"} => acct.status = "active"
    /\ call[p].at \in {"cool", "save", "write"} => atom.status = "active"
    /\ call[p].at = "write" => call[p].row.status # "disabled"

Off == IsManuallyDisabled /\ atom.status = "disabled" /\ row.status = "disabled"
On  == acct.status # "disabled" /\ atom.status # "disabled" /\ row.status # "disabled"

Standing ==
  /\ asked = "off" => Off /\ \A p \in Procs : Harmless(p)
  /\ asked = "on" => On /\ \A p \in Procs : Clean(p)
  /\ \A p \in Procs : Working(p) =>
       /\ Disabling(p) /\ Enabling(p)
       /\ \A q \in Procs \ {p} : call[q].at = "idle"

\* Only the administrator disables, and what he disables says so.
Reasoned ==
  /\ acct.status = "disabled" => acct.manual
  /\ row.status = "disabled" => row.manual
  /\ \A p \in Procs : call[p].row.status = "disabled" => call[p].row.manual

HonourInv ==
  /\ Reasoned
  /\ \A p \in Procs : Shaped(p)
  /\ \A p, q \in Procs : Working(p) /\ Working(q) => p = q
  /\ \A p \in Procs : Working(p) => asked = "open"
  /\ undisturbed => Standing

\* A step of p that answers nobody.
LEMMA HonourStep ==
  ASSUME NEW p \in Procs, HonourInv, call[p].at # "idle",
         \A q \in Procs \ {p} : call'[q] = call[q],
         UNCHANGED << asked, undisturbed, row >>,
         Shaped(p)',
         call'[p].at # "idle" => call'[p].by = call[p].by,
         acct'.status = "disabled" => acct'.manual,
         call'[p].row.status = "disabled" => call'[p].row.manual,
         asked = "off" /\ Off /\ Harmless(p) =>
           IsManuallyDisabled' /\ atom'.status = "disabled" /\ Harmless(p)',
         asked = "on" /\ On /\ Clean(p) /\ ~Working(p) =>
           acct'.status # "disabled" /\ atom'.status # "disabled" /\ Clean(p)',
         Working(p)' /\ Disabling(p) => Disabling(p)',
         Working(p)' /\ Enabling(p) => Enabling(p)'
  PROVE  HonourInv'
<1>1. Reasoned'
  BY DEF HonourInv, Reasoned
<1>2. \A q \in Procs : Shaped(q)'
  BY DEF HonourInv, Shaped
<1>3. \A q \in Procs : Working(q)' => Working(q)
  BY DEF Working
<1>4. \A q \in Procs \ {p} : /\ Harmless(q)' <=> Harmless(q)
                             /\ Clean(q)' <=> Clean(q)
  BY DEF Harmless, Clean
<1>5. undisturbed' => Standing'
  <2> SUFFICES ASSUME undisturbed' PROVE Standing'
    OBVIOUS
  <2>1. Standing
    BY DEF HonourInv
  <2>2. asked' = "off" => Off' /\ \A q \in Procs : Harmless(q)'
    BY <1>4, <2>1 DEF Standing, Off
  <2>3. asked' = "on" => On' /\ \A q \in Procs : Clean(q)'
    BY <1>4, <2>1 DEF Standing, On, HonourInv
  <2>4. ASSUME NEW q \in Procs, Working(q)'
        PROVE  /\ Disabling(q)' /\ Enabling(q)'
               /\ \A r \in Procs \ {q} : call'[r].at = "idle"
    <3>1. Working(q)
      BY <1>3, <2>4
    <3>2. /\ Disabling(q) /\ Enabling(q)
          /\ \A r \in Procs \ {q} : call[r].at = "idle"
      BY <2>1, <3>1 DEF Standing
    <3>3. q = p
      BY <3>2
    <3>. QED
      BY <2>4, <3>2, <3>3
  <2>. QED
    BY <2>2, <2>3, <2>4 DEF Standing
<1>. QED
  BY <1>1, <1>2, <1>3, <1>5 DEF HonourInv

\* A setter's locked section.
LEMMA HonourLocked ==
  ASSUME NEW p \in Procs, TypeOK, HonourInv, NEW s, NEW a \in Fields,
         NEW next \in {"status", "test"}, NEW to \in Statuses, NEW d,
         Locked(p, s, a, next, to, d),
         a.status = "disabled" => a.manual,
         s \in {"UpdateToken", "SetRefreshDisabled"} /\ IsManuallyDisabled =>
           /\ a = acct
           /\ next = "status" => s = "UpdateToken" /\ to = "disabled",
         s # "SetManualDisabled" /\ acct.status # "disabled" =>
           a.status # "disabled" /\ to # "disabled",
         s = "SetManualDisabled" => next = "status" /\ a.status = "disabled" /\ to = "disabled",
         s = "SetActive" => next = "status" /\ a.status = "active" /\ to = "active"
  PROVE  HonourInv'
<1>1. /\ call'[p].at = next /\ call'[p].to = to /\ call'[p].by = call[p].by
      /\ call'[p].run = s /\ call[p].run = s /\ call[p].at = "lock"
      /\ call'[p].row = call[p].row
      /\ \A q \in Procs \ {p} : call'[q] = call[q]
  BY DEF Locked, TypeOK, Calls
<1>2. acct' = a /\ UNCHANGED << atom, row, asked, undisturbed >>
  BY DEF Locked
<1>3. s \in SettersOf(call[p].by)
  BY <1>1 DEF HonourInv, Shaped
<1>4. /\ call[p].by = "disable" => s = "SetManualDisabled"
      /\ call[p].by = "enable" => s = "SetActive"
  BY <1>3 DEF SettersOf
<1>5. asked = "off" /\ Off /\ Harmless(p) =>
        IsManuallyDisabled' /\ atom'.status = "disabled" /\ Harmless(p)'
  BY <1>1, <1>2 DEF Off, Harmless, IsManuallyDisabled
<1>6. asked = "on" /\ On /\ Clean(p) /\ ~Working(p) =>
        acct'.status # "disabled" /\ atom'.status # "disabled" /\ Clean(p)'
  BY <1>1, <1>2 DEF On, Clean
<1>7. Disabling(p)' /\ Enabling(p)'
  BY <1>1, <1>2, <1>4 DEF Disabling, Enabling, IsManuallyDisabled
<1>8. Shaped(p)' /\ call[p].at # "idle"
  BY <1>1 DEF Shaped
<1>9. call'[p].row.status = "disabled" => call'[p].row.manual
  BY <1>1 DEF HonourInv, Reasoned
<1>. QED
  BY <1>1, <1>2, <1>5, <1>6, <1>7, <1>8, <1>9, HonourStep

LEMMA HonourStarts ==
  ASSUME NEW p \in Procs, NEW c \in world.callers, TypeOK, HonourInv, Start(p, c)
  PROVE  HonourInv'
<1>0. c \in AllCallers
  BY WorldType
<1>1. PICK s \in SettersOf(c) :
        call' = [call EXCEPT ![p] = [Idle EXCEPT !.at = IF Checks(c) THEN "check" ELSE "lock",
                                                 !.by = c, !.run = s]]
  BY DEF Start
<1>2. /\ call'[p].at = IF Checks(c) THEN "check" ELSE "lock"
      /\ call'[p].by = c /\ call'[p].run = s /\ call'[p].row.status = "active"
      /\ \A q \in Procs \ {p} : call'[q] = call[q]
  BY <1>1 DEF TypeOK, Calls, Idle, Blank
<1>3. /\ UNCHANGED << acct, atom, row >> /\ call[p].at = "idle"
      /\ asked' = IF c \in Admins THEN "open" ELSE asked
      /\ undisturbed' = StaysUndisturbed(p, c)
      /\ c \in Admins => ~AdminAtWork
  BY DEF Start
<1>5. AdminAtWork <=> \E q \in Procs : Working(q)
  BY DEF AdminAtWork, Working
<1>6. \A q \in Procs \ {p} : Working(q)' <=> Working(q)
  BY <1>2 DEF Working
<1>7. ~Working(p) /\ (Working(p)' <=> c \in Admins)
  BY <1>2, <1>3 DEF Working, Idle
<1>8. Reasoned'
  BY <1>2, <1>3 DEF HonourInv, Reasoned
<1>9. \A q \in Procs : Shaped(q)'
  BY <1>2 DEF HonourInv, Shaped
<1>10. \A q, r \in Procs : Working(q)' /\ Working(r)' => q = r
  BY <1>3, <1>5, <1>6, <1>7 DEF HonourInv
<1>11. \A q \in Procs : Working(q)' => asked' = "open"
  BY <1>3, <1>6, <1>7 DEF HonourInv
<1>12. ASSUME undisturbed' PROVE Standing'
  <2>1. CASE c \in Admins
    <3>1. \A q \in Procs \ {p} : call'[q].at = "idle" /\ ~Working(q)'
      BY <1>2, <1>3, <1>12, <2>1 DEF StaysUndisturbed, Working
    <3>2. Disabling(p)' /\ Enabling(p)'
      BY <1>2, <2>1 DEF Disabling, Enabling, Checks, Admins
    <3>. QED
      BY <1>3, <2>1, <3>1, <3>2 DEF Standing
  <2>2. CASE c \notin Admins
    <3>1. Standing /\ ~AdminAtWork /\ ~(asked = "off" /\ c \in Blind)
      BY <1>3, <1>12, <2>2 DEF StaysUndisturbed, HonourInv
    <3>2. \A q \in Procs : ~Working(q)'
      BY <1>5, <1>6, <1>7, <2>2, <3>1
    <3>3. asked' = "off" => Off' /\ \A q \in Procs : Harmless(q)'
      <4> SUFFICES ASSUME asked' = "off" PROVE Off' /\ \A q \in Procs : Harmless(q)'
        OBVIOUS
      <4>1. asked = "off" /\ Off
        BY <1>3, <2>2, <3>1 DEF Standing
      <4>2. c \in {"quota", "restore", "refresh"}
        BY <1>0, <2>2, <3>1, <4>1 DEF Start, Pickable, AllCallers, Blind, Admins, Off
      <4>3. Harmless(p)'
        BY <1>2, <4>2 DEF Harmless, Checks, SettersOf
      <4>4. \A q \in Procs \ {p} : Harmless(q)'
        BY <1>2, <3>1, <4>1 DEF Harmless, Standing
      <4>. QED
        BY <1>3, <4>1, <4>3, <4>4 DEF Off, IsManuallyDisabled
    <3>4. asked' = "on" => On' /\ \A q \in Procs : Clean(q)'
      <4>1. Clean(p)'
        BY <1>0, <1>2, <2>2 DEF Clean, SettersOf, Admins, AllCallers
      <4>2. asked = "on" => \A q \in Procs \ {p} : Clean(q)'
        BY <1>2, <3>1 DEF Clean, Standing
      <4>. QED
        BY <1>3, <2>2, <3>1, <4>1, <4>2 DEF Standing, On
    <3>. QED
      BY <3>2, <3>3, <3>4 DEF Standing
  <2>. QED
    BY <2>1, <2>2
<1>. QED
  BY <1>8, <1>9, <1>10, <1>11, <1>12 DEF HonourInv

LEMMA HonourWrites ==
  ASSUME NEW p \in Procs, TypeOK, HonourInv, Write(p)
  PROVE  HonourInv'
<1>1. /\ call[p].at = "write" /\ call'[p] = Idle
      /\ \A q \in Procs \ {p} : call'[q] = call[q]
      /\ row' = call[p].row /\ UNCHANGED << acct, atom, undisturbed >>
      /\ asked' = CASE call[p].by = "disable" -> "off"
                    [] call[p].by = "enable"  -> "on"
                    [] OTHER                  -> asked
  BY DEF Write, past, TypeOK
<1>2. Reasoned'
  BY <1>1 DEF HonourInv, Reasoned, Idle, Blank
<1>3. \A q \in Procs : Shaped(q)'
  BY <1>1 DEF HonourInv, Shaped, Idle
<1>4. ~Working(p)' /\ Harmless(p)' /\ Clean(p)'
  BY <1>1 DEF Working, Harmless, Clean, Idle
<1>5. \A q \in Procs \ {p} : /\ Working(q)' <=> Working(q)
                             /\ Harmless(q)' <=> Harmless(q)
                             /\ Clean(q)' <=> Clean(q)
  BY <1>1 DEF Working, Harmless, Clean
<1>6. \A q \in Procs : Working(q)' => Working(q) /\ ~Working(p)
  BY <1>4, <1>5 DEF HonourInv
<1>7. asked' # asked => Working(p)
  BY <1>1 DEF Working, Admins
<1>8. \A q \in Procs : Working(q)' => asked' = "open"
  BY <1>6, <1>7 DEF HonourInv
<1>9. ASSUME undisturbed' PROVE Standing'
  <2>1. Standing
    BY <1>1, <1>9 DEF HonourInv
  <2>2. CASE Working(p)
    <3>1. /\ \A q \in Procs \ {p} : call'[q].at = "idle"
          /\ Disabling(p) /\ Enabling(p)
      BY <1>1, <2>1, <2>2 DEF Standing
    <3>2. \A q \in Procs : ~Working(q)' /\ Harmless(q)' /\ Clean(q)'
      BY <1>4, <3>1 DEF Working, Harmless, Clean
    <3>3. CASE call[p].by = "disable"
      BY <1>1, <3>1, <3>2, <3>3 DEF Standing, Disabling, Off, IsManuallyDisabled
    <3>4. CASE call[p].by = "enable"
      BY <1>1, <3>1, <3>2, <3>4 DEF Standing, Enabling, On
    <3>. QED
      BY <2>2, <3>3, <3>4 DEF Working, Admins
  <2>3. CASE ~Working(p)
    <3>1. asked' = asked
      BY <1>7, <2>3
    <3>2. asked = "off" => row'.status = "disabled"
      BY <1>1, <2>1 DEF Standing, Harmless
    <3>3. asked = "on" => row'.status # "disabled"
      BY <1>1, <2>1 DEF Standing, Clean
    <3>4. ASSUME NEW q \in Procs, Working(q)'
          PROVE  /\ Disabling(q)' /\ Enabling(q)'
                 /\ \A r \in Procs \ {q} : call'[r].at = "idle"
      <4>1. Working(q) /\ q # p
        BY <1>4, <1>6, <3>4
      <4>2. call[p].at = "idle"
        BY <2>1, <4>1 DEF Standing
      <4>. QED
        BY <1>1, <4>2
    <3>. QED
      BY <1>1, <1>4, <1>5, <2>1, <3>1, <3>2, <3>3, <3>4
         DEF Standing, Off, On, IsManuallyDisabled
  <2>. QED
    BY <2>2, <2>3
<1>. QED
  BY <1>2, <1>3, <1>6, <1>8, <1>9 DEF HonourInv

LEMMA HonourProceeds ==
  ASSUME NEW p \in Procs, TypeOK, HonourInv, Proceed(p)
  PROVE  HonourInv'
<1>1. acct \in Fields /\ (acct.status = "disabled" => acct.manual)
  BY DEF TypeOK, HonourInv, Reasoned
<1>2. call[p].row.status = "disabled" => call[p].row.manual
  BY DEF HonourInv, Reasoned
<1>3. Shaped(p)
  BY DEF HonourInv
<1>4. CASE Check(p)
  <2>1. /\ call[p].at = "check"
        /\ \A q \in Procs \ {p} : call'[q] = call[q]
        /\ UNCHANGED << acct, atom, row, asked, undisturbed >>
    BY <1>4 DEF Check, past, TypeOK
  <2>2. CASE call'[p] = Idle
    BY <2>1, <2>2, HonourStep, <1>1
       DEF Shaped, Working, Harmless, Clean, Off, On, Idle, Blank, IsManuallyDisabled
  <2>3. CASE call'[p] # Idle
    <3>1. /\ call'[p] = [call[p] EXCEPT !.at = "lock"]
          /\ ~IsManuallyDisabled
      BY <1>1, <1>4, <2>3 DEF Check, TypeOK, IsManuallyDisabled
    <3>2. /\ call'[p].at = "lock" /\ call'[p].by = call[p].by /\ call'[p].run = call[p].run
          /\ call'[p].row = call[p].row
      BY <3>1 DEF TypeOK, Calls
    <3>3. Shaped(p)' /\ (~Working(p) => Clean(p)')
      BY <1>3, <2>1, <3>2 DEF Shaped, Clean, Working, SettersOf, Admins, TypeOK, Calls, AllCallers
    <3>4. /\ ~Off
          /\ Disabling(p) => Disabling(p)'
          /\ Enabling(p) => Enabling(p)'
      BY <2>1, <3>1, <3>2 DEF Off, Disabling, Enabling
    <3>. QED
      BY <1>1, <1>2, <2>1, <3>2, <3>3, <3>4, HonourStep DEF On
  <2>. QED
    BY <2>2, <2>3
<1>5. CASE SetCooldown(p) \/ SetQuotaCooldown(p)
  <2>1. PICK s \in {"SetCooldown", "SetQuotaCooldown"}, d \in 1..MaxCool, b \in BOOLEAN :
          Locked(p, s, [acct EXCEPT !.status = "cooldown", !.left = d, !.quota = b],
                 "status", "cooldown", d)
    <3>1. CASE SetCooldown(p)
      <4>1. PICK d \in 1..MaxCool :
              Locked(p, "SetCooldown", [acct EXCEPT !.status = "cooldown", !.left = d],
                     "status", "cooldown", d)
        BY <3>1 DEF SetCooldown
      <4>2. [acct EXCEPT !.status = "cooldown", !.left = d]
              = [acct EXCEPT !.status = "cooldown", !.left = d, !.quota = acct.quota]
        BY <1>1 DEF Fields
      <4>3. acct.quota \in BOOLEAN
        BY <1>1 DEF Fields
      <4>. QED
        BY <4>1, <4>2, <4>3
    <3>2. CASE SetQuotaCooldown(p)
      BY <3>2 DEF SetQuotaCooldown
    <3>. QED
      BY <1>5, <3>1, <3>2
  <2>2. d \in Nat
    BY AccountAssumption
  <2>3. [acct EXCEPT !.status = "cooldown", !.left = d, !.quota = b] \in Fields
    BY <1>1, <2>2 DEF Fields, Statuses
  <2>4. [acct EXCEPT !.status = "cooldown", !.left = d, !.quota = b].status = "cooldown"
    BY <1>1 DEF Fields
  <2>. QED
    BY <2>1, <2>3, <2>4, HonourLocked DEF Statuses
<1>6. CASE ClearQuotaCooldown(p) \/ SetActive(p)
  <2>1. PICK s \in {"ClearQuotaCooldown", "SetActive"} :
          Locked(p, s, [acct EXCEPT !.status = "active", !.manual = FALSE, !.quota = FALSE],
                 "status", "active", 0)
    BY <1>6 DEF ClearQuotaCooldown, SetActive
  <2>2. /\ [acct EXCEPT !.status = "active", !.manual = FALSE, !.quota = FALSE] \in Fields
        /\ [acct EXCEPT !.status = "active", !.manual = FALSE, !.quota = FALSE].status = "active"
    BY <1>1 DEF Fields, Statuses
  <2>. QED
    BY <2>1, <2>2, HonourLocked DEF Statuses
<1>7. CASE SetManualDisabled(p)
  <2>1. [status |-> "disabled", manual |-> TRUE, left |-> 0, quota |-> FALSE] \in Fields
    BY DEF Fields, Statuses
  <2>. QED
    BY <1>7, <2>1, HonourLocked DEF SetManualDisabled, Statuses
<1>8. CASE UpdateToken(p)
  <2>1. CASE IsManuallyDisabled
    <3>1. Locked(p, "UpdateToken", acct, "status", "disabled", 0)
      BY <1>8, <2>1 DEF UpdateToken
    <3>. QED
      BY <1>1, <2>1, <3>1, HonourLocked DEF Statuses, IsManuallyDisabled
  <2>2. CASE ~IsManuallyDisabled
    <3>1. Locked(p, "UpdateToken", [acct EXCEPT !.status = "active", !.manual = FALSE],
                 "status", "active", 0)
      BY <1>8, <2>2 DEF UpdateToken
    <3>2. /\ [acct EXCEPT !.status = "active", !.manual = FALSE] \in Fields
          /\ [acct EXCEPT !.status = "active", !.manual = FALSE].status = "active"
      BY <1>1 DEF Fields, Statuses
    <3>. QED
      BY <2>2, <3>1, <3>2, HonourLocked DEF Statuses
  <2>. QED
    BY <2>1, <2>2
<1>9. CASE SetRefreshDisabled(p)
  <2>1. CASE acct.status = "disabled"
    <3>1. Locked(p, "SetRefreshDisabled", acct, "test", "active", 0)
      BY <1>9, <2>1 DEF SetRefreshDisabled
    <3>. QED
      BY <1>1, <2>1, <3>1, HonourLocked DEF Statuses
  <2>2. CASE acct.status # "disabled"
    <3>1. Locked(p, "SetRefreshDisabled", [acct EXCEPT !.status = "active", !.left = 0],
                 "test", "active", 0)
      BY <1>9, <2>2 DEF SetRefreshDisabled
    <3>2. /\ [acct EXCEPT !.status = "active", !.left = 0] \in Fields
          /\ [acct EXCEPT !.status = "active", !.left = 0].status = "active"
      BY <1>1 DEF Fields, Statuses
    <3>. QED
      BY <2>2, <3>1, <3>2, HonourLocked DEF Statuses, IsManuallyDisabled
  <2>. QED
    BY <2>1, <2>2
<1>10. CASE ClearNothing(p) \/ SaveFails(p)
  <2>1. /\ call'[p] = Idle /\ call[p].at # "idle"
        /\ \A q \in Procs \ {p} : call'[q] = call[q]
        /\ UNCHANGED << acct, atom, row, asked, undisturbed >>
    BY <1>10 DEF ClearNothing, SaveFails, past, TypeOK
  <2>. QED
    BY <2>1, HonourStep, <1>1
       DEF Shaped, Working, Harmless, Clean, Off, On, Idle, Blank, IsManuallyDisabled
<1>11. CASE TestStatus(p)
  <2>1. /\ call[p].at = "test"
        /\ \A q \in Procs \ {p} : call'[q] = call[q]
        /\ UNCHANGED << acct, atom, row, asked, undisturbed >>
    BY <1>11 DEF TestStatus, past, TypeOK
  <2>2. ~Working(p) \/ (~Disabling(p) \/ ~Enabling(p))
    BY <2>1 DEF Working, Disabling, Enabling, Admins
  <2>3. /\ call'[p].by = call[p].by
        /\ call'[p].at = IF atom.status = "disabled" THEN "save" ELSE "status"
        /\ call'[p].at = "status" => call'[p].to = call[p].to
        /\ call'[p].row.status = "disabled" => call'[p].row.manual
    BY <1>2, <1>11 DEF TestStatus, Saving, Idle, Blank, TypeOK, Calls
  <2>4. /\ Shaped(p)'
        /\ atom.status = "disabled" => Harmless(p)'
        /\ Clean(p) => Clean(p)'
    BY <2>1, <2>3 DEF Shaped, Harmless, Clean
  <2>5. /\ Working(p)' /\ Disabling(p) => Disabling(p)'
        /\ Working(p)' /\ Enabling(p) => Enabling(p)'
    BY <2>1, <2>3 DEF Working, Disabling, Enabling, Admins
  <2>. QED
    BY <1>1, <2>1, <2>3, <2>4, <2>5, HonourStep DEF Off, On, IsManuallyDisabled
<1>12. CASE StoreStatus(p)
  <2>1. /\ call[p].at = "status" /\ atom'.status = call[p].to
        /\ \A q \in Procs \ {p} : call'[q] = call[q]
        /\ UNCHANGED << acct, row, asked, undisturbed >>
    BY <1>12 DEF StoreStatus, Returned, past, TypeOK, Atomics
  <2>2. \/ call'[p] = Idle
        \/ call'[p] = Saving(p)
        \/ call'[p] = [call[p] EXCEPT !.at = "cool"] /\ call[p].run # "UpdateToken"
    BY <1>12 DEF StoreStatus, Returned, TypeOK
  <2>3. /\ call'[p].at \in {"idle", "save", "cool"}
        /\ call'[p].at # "idle" => call'[p].by = call[p].by
        /\ call'[p].at = "cool" => call[p].run # "UpdateToken"
        /\ call'[p].row.status = "disabled" => call'[p].row.manual
    <3>1. CASE call'[p] = Idle
      BY <3>1 DEF Idle, Blank
    <3>2. CASE call'[p] = Saving(p)
      BY <3>2, SavingFacts DEF Blank
    <3>3. CASE call'[p] = [call[p] EXCEPT !.at = "cool"] /\ call[p].run # "UpdateToken"
      BY <1>2, <3>3 DEF TypeOK, Calls
    <3>. QED
      BY <2>2, <3>1, <3>2, <3>3
  <2>4. /\ Shaped(p)'
        /\ Harmless(p) => Harmless(p)' /\ call[p].to = "disabled"
        /\ Clean(p) => Clean(p)' /\ call[p].to # "disabled"
    BY <2>1, <2>3 DEF Shaped, Harmless, Clean
  <2>5. /\ Working(p)' /\ Disabling(p) => Disabling(p)'
        /\ Working(p)' /\ Enabling(p) => Enabling(p)'
    BY <2>1, <2>3 DEF Working, Disabling, Enabling, IsManuallyDisabled
  <2>. QED
    BY <1>1, <2>1, <2>3, <2>4, <2>5, HonourStep DEF Off, On, IsManuallyDisabled
<1>13. CASE StoreCooldown(p)
  <2>1. /\ call[p].at = "cool" /\ atom'.status = atom.status
        /\ \A q \in Procs \ {p} : call'[q] = call[q]
        /\ UNCHANGED << acct, row, asked, undisturbed >>
    BY <1>13 DEF StoreCooldown, Returned, past, TypeOK, Atomics
  <2>2. call'[p] = Idle \/ call'[p] = Saving(p)
    BY <1>13 DEF StoreCooldown, Returned, TypeOK
  <2>3. /\ call'[p].at \in {"idle", "save"}
        /\ call'[p].at # "idle" => call'[p].by = call[p].by
        /\ call'[p].row.status = "disabled" => call'[p].row.manual
    BY <2>2, SavingFacts DEF Idle, Blank
  <2>4. Shaped(p)' /\ Harmless(p)' /\ Clean(p)'
    BY <2>1, <2>3 DEF Shaped, Harmless, Clean
  <2>5. /\ Working(p)' /\ Disabling(p) => Disabling(p)'
        /\ Working(p)' /\ Enabling(p) => Enabling(p)'
    BY <2>1, <2>3 DEF Working, Disabling, Enabling, IsManuallyDisabled
  <2>. QED
    BY <1>1, <2>1, <2>3, <2>4, <2>5, HonourStep DEF Off, On, IsManuallyDisabled
<1>14. CASE Save(p)
  <2>1. /\ call[p].at = "save" /\ call'[p].at = "write" /\ call'[p].by = call[p].by
        /\ call'[p].row = RowOf(acct)
        /\ \A q \in Procs \ {p} : call'[q] = call[q]
        /\ UNCHANGED << acct, atom, row, asked, undisturbed >>
    BY <1>14 DEF Save, past, TypeOK, Calls
  <2>2. /\ RowOf(acct).status = "disabled" => RowOf(acct).manual
        /\ RowOf(acct).status = "disabled" <=> acct.status = "disabled"
    BY <1>1 DEF RowOf, Fields, Statuses
  <2>3. /\ Shaped(p)'
        /\ IsManuallyDisabled => Harmless(p)'
        /\ acct.status # "disabled" => Clean(p)'
    BY <2>1, <2>2 DEF Shaped, Harmless, Clean, IsManuallyDisabled
  <2>4. /\ Working(p)' /\ Disabling(p) => Disabling(p)'
        /\ Working(p)' /\ Enabling(p) => Enabling(p)'
    BY <2>1, <2>2 DEF Working, Disabling, Enabling, IsManuallyDisabled
  <2>. QED
    BY <1>1, <2>1, <2>2, <2>3, <2>4, HonourStep DEF Off, On, IsManuallyDisabled
<1>. QED
  BY <1>4, <1>5, <1>6, <1>7, <1>8, <1>9, <1>10, <1>11, <1>12, <1>13, <1>14, HonourWrites
     DEF Proceed, Setter

LEMMA HonourInductive == TypeOK /\ HonourInv /\ [Next]_vars => HonourInv'
<1> SUFFICES ASSUME TypeOK, HonourInv, [Next]_vars PROVE HonourInv'
  OBVIOUS
<1>1. ASSUME NEW p \in Procs, NEW c \in world.callers, Start(p, c) PROVE HonourInv'
  BY <1>1, HonourStarts
<1>2. ASSUME NEW p \in Procs, Proceed(p) PROVE HonourInv'
  BY <1>2, HonourProceeds
<1>3. CASE Tick
  <2>1. \A p \in Procs : /\ call'[p].at = call[p].at /\ call'[p].by = call[p].by
                         /\ call'[p].run = call[p].run /\ call'[p].to = call[p].to
                         /\ call'[p].row.status = call[p].row.status
                         /\ call'[p].row.manual = call[p].row.manual
    BY <1>3 DEF Tick, TypeOK, Calls, Stored
  <2>2. /\ acct'.status = acct.status /\ acct'.manual = acct.manual
        /\ atom'.status = atom.status
        /\ row'.status = row.status /\ row'.manual = row.manual
        /\ UNCHANGED << asked, undisturbed >>
    BY <1>3 DEF Tick, past, TypeOK, Fields, Atomics, Stored
  <2>4. \A p \in Procs : /\ Shaped(p) => Shaped(p)'
                         /\ Working(p)' <=> Working(p)
                         /\ Harmless(p)' <=> Harmless(p)
                         /\ Clean(p)' <=> Clean(p)
                         /\ Disabling(p)' <=> Disabling(p)
                         /\ Enabling(p)' <=> Enabling(p)
    BY <2>1, <2>2
       DEF Shaped, Working, Harmless, Clean, Disabling, Enabling, IsManuallyDisabled
  <2>5. Reasoned'
    BY <2>1, <2>2 DEF HonourInv, Reasoned
  <2>6. Standing => Standing'
    BY <2>1, <2>2, <2>4 DEF Standing, Off, On, IsManuallyDisabled
  <2>. QED
    BY <2>2, <2>4, <2>5, <2>6 DEF HonourInv
<1>4. CASE Restart
  <2>1. \A p \in Procs : call'[p] = Idle
    BY <1>4 DEF Restart
  <2>2. /\ acct'.status = row.status /\ acct'.manual = row.manual /\ atom'.status = row.status
        /\ UNCHANGED << row, asked, undisturbed >>
    BY <1>4 DEF Restart
  <2>3. \A p \in Procs : Shaped(p)' /\ ~Working(p)' /\ Harmless(p)' /\ Clean(p)'
    BY <2>1 DEF Shaped, Working, Harmless, Clean, Idle
  <2>4. Reasoned'
    BY <2>1, <2>2 DEF HonourInv, Reasoned, Idle, Blank
  <2>5. Standing => Standing'
    BY <2>2, <2>3, <2>4 DEF Standing, Off, On, IsManuallyDisabled, Reasoned
  <2>. QED
    BY <2>2, <2>3, <2>4, <2>5 DEF HonourInv
<1>5. CASE UNCHANGED vars
  BY <1>5 DEF vars, past, HonourInv, Reasoned, Shaped, Working, Standing, Harmless, Clean,
              Disabling, Enabling, Off, On, IsManuallyDisabled
<1>. QED
  BY <1>1, <1>2, <1>3, <1>4, <1>5 DEF Next

LEMMA Honoured == Spec => []HonourInv
<1>1. Init => HonourInv
  <2> SUFFICES ASSUME Init PROVE HonourInv
    OBVIOUS
  <2>1. \A p \in Procs : call[p] = Idle
    BY DEF Init
  <2>2. \A p \in Procs : Shaped(p) /\ ~Working(p) /\ Clean(p)
    BY <2>1 DEF Shaped, Working, Clean, Idle
  <2>3. Reasoned
    BY <2>1 DEF Init, Reasoned, Fresh, Idle, Blank
  <2>4. Standing
    BY <2>2 DEF Init, Standing, On, Fresh, Blank
  <2>. QED
    BY <2>2, <2>3, <2>4 DEF HonourInv
<1>. QED
  BY <1>1, HonourInductive, TypeCorrect, PTL DEF Spec

\* A disable that nothing overlapped stays (manager.go:2710-2727): afterwards
\* any number of refreshes, quota checks, recoveries and late saves may
\* interleave their steps, and the process may restart, and the guards, the
\* selectors and the stored row still say disabled; only a health check or a
\* refresh policy, which look at nothing, may undo it.
THEOREM DisableKept == Spec => []DisableHonoured
<1>1. HonourInv => DisableHonoured
  BY DEF HonourInv, DisableHonoured, ManualDisableKept, Standing, Off
<1>. QED
  BY <1>1, Honoured, PTL

\* And an enable that nothing overlapped: no call that starts afterwards brings
\* the disabled status back, into memory, the atomics or the stored row.
THEOREM EnableKept == Spec => []EnableHonoured
<1>1. HonourInv => EnableHonoured
  BY DEF HonourInv, EnableHonoured, Standing, On
<1>. QED
  BY <1>1, Honoured, PTL

-----------------------------------------------------------------------------
(***************************************************************************)
(* Watching over the quota.  QuotaWatch keeps less of an account and more  *)
(* of those who decide about it; the two components share no variable.     *)
(***************************************************************************)
\* Where a goroutine is, and what it has in hand.
AllPlaces == {"idle", "asked", "restore", "active", "judge", "cool", "clear", "policy",
              "final", "legacy", "remove", "wait"}
Errands == [kind : Kinds, got : Answers, first : Limits \cup {"none"},
            at : AllPlaces, round : 0..Rounds + 1]
Records == [status : {"active", "cooldown", "disabled"}, manual : BOOLEAN, quota : BOOLEAN,
            over : BOOLEAN, fails : 0..MaxFails, pooled : BOOLEAN]

\* A recovery waits at most Rounds times, and a policy is asked for a status it is for.
Orderly(r) ==
  /\ r \in Errands
  /\ r.at = "wait" => r.round <= Rounds
  /\ r.at = "policy" => r.got.code \in Limits

Sane == WatchTypeOK /\ \A p \in Threads : Orderly(proc[p])

\* The rest of a division, for facts that the provers shall not see through.
Mod(a, n) == a % n

\* How many accounts the next batch visits before this one, if it is as long as the pool.
Ahead(r) == Mod(r.n + r.pos - Mod(r.cursor, r.n), r.n)

\* In the rounds that missed the account the batches came nearer to it.
Near(r) ==
  /\ r.pos < r.n
  /\ Batch >= r.n => r.missed = 0
  /\ Batch < r.n => r.missed * Batch + Ahead(r) < r.n

\* A goroutine that has still to look at the answer, and one that has looked at it and
\* has still to set what it says.
Looks(r) == r.at = "judge" \/ (r.kind = "recovery" /\ r.at \in {"restore", "active"})
Sets(p) == p \in Between \ overtaken

\* What was decided is what the stored answer says; somebody is about to look at it or to
\* set it, or the account is as it says.
Told == decided # "none" => info.code = "200" /\ (decided = "low" <=> Low(info))
Pending == \E p \in Threads : Looks(proc[p]) \/ Sets(p)
Fits ==
  decided # "none" /\ watched.pooled /\ watched.status # "disabled" => (Exhausted <=> decided = "low")
Heeds ==
  /\ overtaken \subseteq Between
  /\ \A p \in Threads : Sets(p) => (proc[p].at = "cool" <=> Low(info))
Judged == Told /\ (Pending \/ Fits) /\ Heeds

WatchInv == Sane /\ Near(round) /\ Judged

-----------------------------------------------------------------------------
\* A quotient and a rest determine each other.
LEMMA Unique ==
  ASSUME NEW a \in Int, NEW n \in Nat \ {0}, NEW r \in 0..n-1, \E q \in Int : a = q * n + r
  PROVE  Mod(a, n) = r
<1>1. PICK q \in Int : a = q * n + r
  OBVIOUS
<1>2. (q * n + r) % n = r
  OBVIOUS
<1>. QED
  BY <1>1, <1>2 DEF Mod

LEMMA Small ==
  ASSUME NEW n \in Nat \ {0}, NEW a \in 0..n-1
  PROVE  Mod(a, n) = a
BY DEF Mod

LEMMA Larger ==
  ASSUME NEW n \in Nat \ {0}, NEW a \in n..2*n-1
  PROVE  Mod(a, n) = a - n
BY DEF Mod

LEMMA ModType ==
  ASSUME NEW a \in Int, NEW n \in Nat \ {0}
  PROVE  Mod(a, n) \in 0..n-1
BY DEF Mod

LEMMA Divided ==
  ASSUME NEW a \in Int, NEW n \in Nat \ {0}
  PROVE  \E q \in Int : a = q * n + Mod(a, n)
<1>1. a = (a \div n) * n + (a % n) /\ (a \div n) \in Int
  OBVIOUS
<1>. QED
  BY <1>1 DEF Mod

\* The cycle of the cursor does not show in the place of a batch.
LEMMA Cyclic ==
  ASSUME NEW n \in 1..MaxPool, NEW a \in Nat
  PROVE  Mod(Mod(a, Cycle), n) = Mod(a, n)
<1>1. n \in Nat \ {0} /\ Cycle \in Nat \ {0} /\ n \in Int /\ Cycle \in Int /\ a \in Int
  BY WatchAssumption
<1>. DEFINE b == Mod(a, Cycle)
            y == Mod(b, n)
<1>2. PICK k \in Int : Cycle = k * n
  <2>1. PICK k \in Int : Cycle = k * n + Mod(Cycle, n)
    BY <1>1, Divided
  <2>2. Mod(Cycle, n) = 0
    BY WatchAssumption DEF Mod
  <2>. QED
    BY <1>1, <2>1, <2>2
<1>3. b \in Int /\ \E q \in Int : a = q * Cycle + b
  <2>1. b \in 0..Cycle-1
    BY <1>1, ModType
  <2>2. \E q \in Int : a = q * Cycle + b
    BY <1>1, Divided
  <2>3. b \in Int
    BY <1>1, <2>1
  <2>. QED
    BY <2>2, <2>3
<1>. HIDE DEF b
<1>4. y \in 0..n-1 /\ \E s \in Int : b = s * n + y
  BY <1>1, <1>3, ModType, Divided
<1>. HIDE DEF y
<1>5. PICK q \in Int, s \in Int : a = q * Cycle + b /\ b = s * n + y
  BY <1>3, <1>4
<1>6. a = (q * k + s) * n + y
  <2>1. q * Cycle = q * k * n
    BY <1>1, <1>2
  <2>2. (q * k + s) * n = q * k * n + s * n
    BY <1>1
  <2>. QED
    BY <1>1, <1>3, <1>4, <1>5, <2>1, <2>2
<1>7. Mod(a, n) = y
  <2>1. \E m \in Int : a = m * n + y
    <3>1. q * k + s \in Int
      OBVIOUS
    <3>. QED
      BY <1>6, <3>1
  <2>. QED
    BY <1>1, <1>4, <2>1, Unique
<1>. QED
  BY <1>7 DEF b, y

\* A batch that passes by brings the next one nearer.
LEMMA Nearer ==
  ASSUME NEW n \in Nat \ {0}, NEW pos \in 0..n-1, NEW c \in Nat, NEW b \in Nat, b < n,
         Mod(n + pos - Mod(c, n), n) >= b
  PROVE  Mod(n + pos - Mod(c + b, n), n) = Mod(n + pos - Mod(c, n), n) - b
<1>. DEFINE x == Mod(c, n)
            y == Mod(c + b, n)
            d == Mod(n + pos - x, n)
            e == Mod(n + pos - y, n)
<1>0. c \in Int /\ c + b \in Int
  OBVIOUS
<1>1. x \in 0..n-1 /\ \E q \in Int : c = q * n + x
  BY <1>0, ModType, Divided
<1>2. d >= b
  OBVIOUS
<1>3. \A r \in 0..n-1 : (\E q \in Int : c + b = q * n + r) => y = r
  BY <1>0, Unique
<1>. SUFFICES e = d - b
  OBVIOUS
<1>. HIDE DEF x, y
<1>4. PICK q \in Int : c = q * n + x
  BY <1>1
<1>5. CASE x <= pos
  <2>1. n + pos - x \in n..2*n-1
    BY <1>1, <1>5
  <2>2. d = pos - x
    BY <1>1, <2>1, Larger
  <2>3. x + b \in 0..n-1 /\ c + b = q * n + (x + b)
    BY <1>1, <1>2, <1>4, <1>5, <2>2
  <2>4. y = x + b
    BY <1>3, <2>3
  <2>5. n + pos - y \in n..2*n-1
    BY <1>1, <1>2, <1>5, <2>2, <2>4
  <2>6. e = n + pos - y - n
    BY <1>1, <2>4, <2>5, Larger
  <2>. QED
    BY <1>1, <2>2, <2>4, <2>6
<1>6. CASE x > pos
  <2>1. n + pos - x \in 0..n-1
    BY <1>1, <1>6
  <2>2. d = n + pos - x
    BY <2>1, Small
  <2>3. n + pos - x - b \in 0..n-1
    BY <1>1, <1>2, <1>6, <2>2
  <2>4. CASE x + b < n
    <3>1. c + b = q * n + (x + b) /\ x + b \in 0..n-1
      BY <1>1, <1>4, <2>4
    <3>2. y = x + b
      BY <1>3, <3>1
    <3>3. n + pos - y \in 0..n-1
      BY <1>1, <2>3, <3>2
    <3>4. e = n + pos - y
      BY <3>3, Small
    <3>. QED
      BY <1>1, <2>2, <3>2, <3>4
  <2>5. CASE x + b >= n
    <3>1. c + b = (q + 1) * n + (x + b - n) /\ x + b - n \in 0..n-1 /\ q + 1 \in Int
      BY <1>1, <1>4, <2>5
    <3>2. y = x + b - n
      BY <1>3, <3>1
    <3>3. n + pos - y \in n..2*n-1
      BY <1>1, <2>3, <3>2
    <3>4. e = n + pos - y - n
      BY <1>1, <3>2, <3>3, Larger
    <3>. QED
      BY <1>1, <2>2, <3>2, <3>4
  <2>. QED
    BY <1>1, <2>4, <2>5
<1>. QED
  BY <1>1, <1>5, <1>6

\* The place of an account in a pool is within it.
LEMMA AheadType ==
  ASSUME NEW r, r.n \in Nat \ {0}, r.pos \in 0..r.n-1, r.cursor \in Nat
  PROVE  Ahead(r) \in 0..r.n-1
<1>1. Mod(r.cursor, r.n) \in 0..r.n-1
  BY ModType
<1>2. r.n + r.pos - Mod(r.cursor, r.n) \in Int
  BY <1>1
<1>. QED
  BY <1>2, ModType DEF Ahead

LEMMA InBatchAhead == \A r : InBatch(r) <=> Batch >= r.n \/ Ahead(r) < Batch
  BY DEF InBatch, Ahead, Mod

-----------------------------------------------------------------------------
\* A goroutine without an errand.
LEMMA NothingIsAnswer ==
  /\ \A code \in Limits \cup {"5xx", "lost"} : Nothing(code) \in Answers
  /\ Resting \in Errands /\ Orderly(Resting)
<1>1. \A code \in Limits \cup {"5xx", "lost"} : Nothing(code) \in Answers
  BY DEF Answers
<1>2. Resting \in Errands
  BY <1>1, WatchAssumption DEF Resting, Errands, Kinds, AllPlaces
<1>. QED
  BY <1>1, <1>2 DEF Orderly, Resting

LEMMA AnswerCodes == \A a \in Answers : a.code \in Limits \cup {"200", "5xx", "lost"}
  BY DEF Answers, Valid, Nothing

\* A goroutine that asks keeps its errand.
LEMMA Asked ==
  ASSUME NEW q \in Errands, NEW r \in Asking(q)
  PROVE  Orderly(r) /\ r.at = "asked"
<1>1. PICK a \in Answers : r = [q EXCEPT !.at = "asked", !.got = a]
  BY DEF Asking, Answers
<1>. QED
  BY <1>1 DEF Orderly, Errands, AllPlaces

\* Where an answer leads to.
LEMMA Leads ==
  ASSUME NEW q \in Errands
  PROVE  /\ LeadsTo(q) \in {"idle", "judge", "restore", "active", "final", "legacy", "policy",
                           "remove", "wait"}
         /\ LeadsTo(q) = "wait" => q.round <= Rounds
         /\ LeadsTo(q) = "policy" => q.got.code \in Limits
         /\ q.got.code = "200" => \/ LeadsTo(q) \in {"idle", "judge"}
                                  \/ LeadsTo(q) = "restore" /\ q.kind = "recovery"
<1>1. /\ q.got.code = "200" <=> Verdict(q.got) = "valid"
      /\ Verdict(q.got) \in {"valid", "limited", "refused", "unclear"}
      /\ Verdict(q.got) \in {"limited", "refused"} => q.got.code \in Limits
      /\ Verdict(q.got) \in {"valid", "limited", "refused"} => Verdict(q.got) # "unclear"
  BY DEF Verdict, Limits, Refusals
<1>2. q.round \in Nat /\ Rounds \in Nat /\ q.first \in Limits \cup {"none"} /\ "200" \notin Limits
  BY WatchAssumption DEF Errands, Limits, Refusals
<1>3. Lastly(q) \in {"idle", "restore", "active"}
  BY DEF Lastly
<1>. HIDE DEF Verdict, Limits, Lastly
<1>4. CASE q.first # "none"
  BY <1>1, <1>2, <1>3, <1>4, SMT DEF LeadsTo
<1>5. CASE q.first = "none" /\ Verdict(q.got) = "valid"
  BY <1>1, <1>2, <1>5, SMT DEF LeadsTo
<1>6. CASE q.first = "none" /\ Verdict(q.got) = "unclear"
  BY <1>1, <1>2, <1>3, <1>6, SMT DEF LeadsTo
<1>7. CASE q.first = "none" /\ Verdict(q.got) \in {"limited", "refused"}
  BY <1>1, <1>7, SMT DEF LeadsTo
<1>. QED
  BY <1>1, <1>4, <1>5, <1>6, <1>7

\* What is done last.
LEMMA Last ==
  ASSUME NEW p \in Threads, Ends(p)
  PROVE  \E place \in {"idle", "restore", "active"} :
           Goes(p, place) /\ (place \in {"restore", "active"} => proc[p].kind # "recovery")
  BY DEF Ends, Lastly

\* One goroutine moves and the others stay where they are.
LEMMA Move ==
  ASSUME Sane, NEW p \in Threads, NEW r, Orderly(r), proc' = [proc EXCEPT ![p] = r]
  PROVE  /\ proc' \in [Threads -> Errands]
         /\ \A o \in Threads : Orderly(proc'[o])
         /\ proc'[p] = r /\ \A o \in Threads \ {p} : proc'[o] = proc[o]
  BY DEF Sane, WatchTypeOK, Orderly, Errands

\* The errand of a goroutine.
LEMMA Has ==
  ASSUME Sane, NEW p \in Threads
  PROVE  proc[p] \in Errands /\ Orderly(proc[p])
  BY DEF Sane, Orderly

\* A goroutine goes on to a place it may be at.
LEMMA Went ==
  ASSUME Sane, NEW p \in Threads, NEW place \in AllPlaces, Goes(p, place),
         place = "wait" => proc[p].round <= Rounds,
         place = "policy" => proc[p].got.code \in Limits
  PROVE  \E r : /\ Orderly(r) /\ r.at = place /\ proc' = [proc EXCEPT ![p] = r]
                /\ place # "idle" => r.kind = proc[p].kind
<1>. DEFINE r == IF place = "idle" THEN Resting
                 ELSE [proc[p] EXCEPT !.at = place,
                         !.got = IF place \in {"wait", "cool", "clear", "restore", "active"}
                                 THEN Nothing("lost") ELSE @]
<1>1. proc' = [proc EXCEPT ![p] = r]
  BY DEF Goes, Sane, WatchTypeOK
<1>2. Orderly(r) /\ r.at = place /\ (place # "idle" => r.kind = proc[p].kind)
  <2>1. CASE place = "idle"
    BY <2>1, NothingIsAnswer DEF Resting
  <2>2. CASE place # "idle"
    BY <2>2, Has, NothingIsAnswer DEF Orderly, Errands
  <2>. QED
    BY <2>1, <2>2
<1>. QED
  BY <1>1, <1>2

\* The setters keep the type of an account.
LEMMA SettersType ==
  /\ \A a \in Records : /\ Cooled(a) \in Records /\ Exhaust(a) \in Records
                        /\ Cleared(a) \in Records /\ Active(a) \in Records
                        /\ Renewed(a) \in Records /\ [a EXCEPT !.pooled = FALSE] \in Records
  /\ AsLoaded \in Records
<1>1. 0 \in 0..MaxFails
  BY WatchAssumption
<1>. QED
  BY <1>1 DEF Records, Cooled, Exhaust, Cleared, Active, Renewed, AsLoaded

\* The health check keeps the type of an account.
LEMMA HealthType ==
  \A a \in Records : HealthChecked(a) \subseteq Records
<1>. SUFFICES ASSUME NEW a \in Records, NEW b \in HealthChecked(a) PROVE b \in Records
  OBVIOUS
<1>1. 0 \in 0..MaxFails /\ MaxFails \in 0..MaxFails /\ a.fails \in 0..MaxFails
  BY WatchAssumption DEF Records
<1>2. a.fails + 1 < MaxFails => a.fails + 1 \in 0..MaxFails
  BY <1>1, WatchAssumption
<1>3. \/ b \in {[a EXCEPT !.fails = 0], a, Cooled(a), Exhaust(a),
              [a EXCEPT !.pooled = FALSE, !.fails = MaxFails]}
      \/ a.fails + 1 < MaxFails /\ b = [a EXCEPT !.fails = a.fails + 1]
  BY <1>1, WatchAssumption DEF HealthChecked
<1>4. [a EXCEPT !.fails = 0] \in Records /\ [a EXCEPT !.pooled = FALSE, !.fails = MaxFails] \in Records
  BY <1>1 DEF Records
<1>5. CASE a.fails + 1 < MaxFails /\ b = [a EXCEPT !.fails = a.fails + 1]
  BY <1>2, <1>5 DEF Records
<1>. QED
  BY <1>3, <1>4, <1>5, SettersType

\* One goroutine, at most, has moved, outside of ApplyQuotaThreshold.
Moved ==
  \/ proc' = proc
  \/ \E p \in Threads, r \in Errands :
       /\ Orderly(r) /\ r.at \notin {"cool", "clear"} /\ p \notin Between
       /\ proc' = [proc EXCEPT ![p] = r]

\* ... and has not looked.
MovedOn ==
  \/ proc' = proc
  \/ \E p \in Threads, r \in Errands :
       /\ Orderly(r) /\ r.at \notin {"cool", "clear"} /\ p \notin Between
       /\ proc' = [proc EXCEPT ![p] = r]
       /\ Looks(proc[p]) => Looks(r)

LEMMA Moves ==
  ASSUME NEW p \in Threads, NEW r, Orderly(r), r.at \notin {"cool", "clear"},
         p \notin Between, proc' = [proc EXCEPT ![p] = r]
  PROVE  Moved /\ ((Looks(proc[p]) => Looks(r)) => MovedOn)
  BY DEF Moved, MovedOn, Orderly

\* The other variables keep their types.
Rest ==
  /\ watch' = watch /\ watched' \in Records /\ info' \in Answers \cup {Nothing("none")}
  /\ round' \in [n : 1..MaxPool, pos : 0..MaxPool, cursor : Nat, missed : Nat,
                 at : {"idle", "visits", "passes"}]
  /\ calm' \in BOOLEAN /\ decided' \in {"none", "good", "low"} /\ overtaken' \subseteq Threads

\* What Sane says of each variable.
LEMMA Given ==
  ASSUME Sane
  PROVE  /\ watch \in Watches /\ watched \in Records /\ info \in Answers \cup {Nothing("none")}
         /\ proc \in [Threads -> Errands]
         /\ round \in [n : 1..MaxPool, pos : 0..MaxPool, cursor : Nat, missed : Nat,
                       at : {"idle", "visits", "passes"}]
         /\ calm \in BOOLEAN /\ decided \in {"none", "good", "low"} /\ overtaken \subseteq Threads
  BY DEF Sane, WatchTypeOK, Records, Errands, AllPlaces

LEMMA TypesAfter ==
  ASSUME Sane, Rest, NEW p \in Threads, NEW r, Orderly(r), proc' = [proc EXCEPT ![p] = r]
  PROVE  Sane'
<1>1. proc' \in [Threads -> Errands] /\ \A o \in Threads : Orderly(proc'[o])
  BY Move
<1>2. Sane' <=> WatchTypeOK' /\ \A o \in Threads : Orderly(proc'[o])
  BY DEF Sane
<1>3. WatchTypeOK'
  BY <1>1, Given DEF Rest, WatchTypeOK, Records, Errands, AllPlaces
<1>. QED
  BY <1>1, <1>2, <1>3

LEMMA SaneAfter ==
  ASSUME Sane, Moved, Rest
  PROVE  Sane'
<1>1. CASE proc' = proc
  <2>1. Sane' <=> WatchTypeOK' /\ \A o \in Threads : Orderly(proc'[o])
    BY DEF Sane
  <2>2. WatchTypeOK'
    BY <1>1, Given DEF Rest, WatchTypeOK, Records, Errands, AllPlaces
  <2>. QED
    BY <1>1, <2>1, <2>2, Has
<1>2. CASE proc' # proc
  BY <1>2, TypesAfter DEF Moved
<1>. QED
  BY <1>1, <1>2

\* The same goroutines are between the look and the setter.
LEMMA BetweenAfter ==
  ASSUME Sane, Moved
  PROVE  Between' = Between /\ \A p \in Between : proc'[p] = proc[p]
<1>1. CASE proc' = proc
  BY <1>1 DEF Between
<1>2. CASE proc' # proc
  <2>1. PICK p \in Threads, r \in Errands :
          /\ Orderly(r) /\ r.at \notin {"cool", "clear"} /\ p \notin Between
          /\ proc' = [proc EXCEPT ![p] = r]
    BY <1>2 DEF Moved
  <2>2. proc'[p] = r /\ \A o \in Threads \ {p} : proc'[o] = proc[o]
    BY <2>1, Move
  <2>. QED
    BY <2>1, <2>2 DEF Between
<1>. QED
  BY <1>1, <1>2

LEMMA HeedsAfter ==
  ASSUME Sane, Heeds, Moved, overtaken' = overtaken, info' = info
  PROVE  Heeds' /\ \A p : Sets(p) => Sets(p)'
<1>1. Between' = Between /\ \A p \in Between : proc'[p] = proc[p]
  BY BetweenAfter
<1>. QED
  BY <1>1 DEF Heeds, Sets, Low

\* Something else has set the status, or the answer says nothing of it.
LEMMA Unsaid ==
  ASSUME Sane, Judged, Moved, decided' = "none", overtaken' = overtaken, info' = info
  PROVE  Judged'
  BY HeedsAfter DEF Judged, Told, Fits

\* Nobody has looked, and the account and the answer are as they were.
LEMMA Unlooked ==
  ASSUME Sane, Judged, MovedOn, decided' = decided, info' = info, overtaken' = overtaken,
         watched'.pooled = watched.pooled, watched'.status = watched.status,
         watched'.quota = watched.quota
  PROVE  Judged'
<1>1. Told' /\ (Fits => Fits')
  BY DEF Judged, Told, Fits, Exhausted
<1>2. Moved
  BY DEF Moved, MovedOn
<1>3. Heeds' /\ \A p : Sets(p) => Sets(p)'
  BY <1>2, HeedsAfter DEF Judged
<1>4. \A o \in Threads : Looks(proc[o]) => Looks(proc'[o])
  <2>. SUFFICES ASSUME NEW o \in Threads, Looks(proc[o]) PROVE Looks(proc'[o])
    OBVIOUS
  <2>1. CASE proc' = proc
    BY <2>1
  <2>2. CASE proc' # proc
    <3>1. PICK p \in Threads, r \in Errands :
            /\ Orderly(r) /\ proc' = [proc EXCEPT ![p] = r]
            /\ Looks(proc[p]) => Looks(r)
      BY <2>2 DEF MovedOn
    <3>2. proc'[p] = r /\ \A q \in Threads \ {p} : proc'[q] = proc[q]
      BY <3>1, Move
    <3>. QED
      BY <3>1, <3>2
  <2>. QED
    BY <2>1, <2>2
<1>5. Pending => Pending'
  BY <1>3, <1>4 DEF Pending, Looks
<1>. QED
  BY <1>1, <1>3, <1>5 DEF Judged

-----------------------------------------------------------------------------
LEMMA BeginKeeps ==
  ASSUME Sane, Judged, NEW p \in watch.crew, NEW kind \in watch.kinds, Begin(p, kind)
  PROVE  Sane' /\ Judged'
<1>. DEFINE errand == [Resting EXCEPT !.kind = kind]
<1>1. p \in Threads /\ kind \in Kinds
  BY Given, WatchAssumption DEF Threads
<1>2. errand \in Errands /\ Orderly(errand) /\ errand.kind = kind
  BY <1>1, NothingIsAnswer DEF Errands, Orderly, Resting
<1>3. PICK r : /\ \/ r \in Asking(errand)
                  \/ Lastly(errand) # "idle" /\ r = [errand EXCEPT !.at = Lastly(errand)]
               /\ proc' = [proc EXCEPT ![p] = r]
  BY DEF Begin
<1>4. Orderly(r) /\ r.at \notin {"cool", "clear"}
  <2>1. CASE r \in Asking(errand)
    BY <1>2, <2>1, Asked
  <2>2. CASE Lastly(errand) # "idle" /\ r = [errand EXCEPT !.at = Lastly(errand)]
    <3>1. Lastly(errand) \in {"restore", "active"}
      BY <2>2 DEF Lastly
    <3>. HIDE DEF errand
    <3>. QED
      BY <1>2, <2>2, <3>1 DEF Orderly, Errands, AllPlaces
  <2>. QED
    BY <1>3, <2>1, <2>2
<1>. HIDE DEF errand
<1>5. Moved /\ MovedOn
  <2>1. ~Looks(proc[p]) /\ p \notin Between
    BY DEF Begin, Looks, Resting, Between
  <2>. QED
    BY <1>1, <1>3, <1>4, <2>1, Moves
<1>6. /\ UNCHANGED << watch, info, round, calm, overtaken >>
      /\ \/ decided' = "none" /\ watched' \in {Renewed(watched), Active(watched)}
         \/ UNCHANGED << watched, decided >>
  BY DEF Begin, Becomes
<1>7. Rest
  <2>1. watched' \in Records /\ decided' \in {"none", "good", "low"}
    BY <1>6, Given, SettersType
  <2>. QED
    BY <1>6, <2>1, Given DEF Rest
<1>8. CASE decided' = "none"
  BY <1>5, <1>6, <1>7, <1>8, SaneAfter, Unsaid
<1>9. CASE UNCHANGED << watched, decided >>
  BY <1>5, <1>6, <1>7, <1>9, SaneAfter, Unlooked
<1>. QED
  BY <1>6, <1>8, <1>9

LEMMA CachedKeeps ==
  ASSUME Sane, Judged, NEW p \in watch.crew, Cached(p)
  PROVE  Sane' /\ Judged'
<1>. DEFINE r == [Resting EXCEPT !.kind = "precheck", !.at = "judge"]
<1>1. p \in Threads
  BY Given, WatchAssumption DEF Threads
<1>2. Orderly(r) /\ r.at = "judge"
  BY NothingIsAnswer DEF Orderly, Errands, Resting, Kinds, AllPlaces
<1>3. p \notin Between
  BY DEF Cached, Between, Resting
<1>4. Moved /\ MovedOn
  BY <1>1, <1>2, <1>3, Moves DEF Cached, Looks
<1>5. Rest
  BY Given DEF Cached, Rest
<1>. QED
  BY <1>4, <1>5, SaneAfter, Unlooked DEF Cached

LEMMA RecheckKeeps ==
  ASSUME Sane, Judged, Recheck
  PROVE  Sane' /\ Judged'
<1>1. PICK r \in Asking(Resting) : proc' = [proc EXCEPT ![Loop] = r]
  BY DEF Recheck
<1>2. Orderly(r) /\ r.at = "asked"
  BY NothingIsAnswer, Asked
<1>3. Moved /\ MovedOn
  <2>1. ~Looks(proc[Loop]) /\ r.at \notin {"cool", "clear"} /\ Loop \in Threads /\ Loop \notin Between
    BY <1>2 DEF Recheck, Looks, Resting, Threads, Between
  <2>. QED
    BY <1>1, <1>2, <2>1, Moves
<1>4. Rest
  BY Given DEF Recheck, Rest
<1>. QED
  BY <1>3, <1>4, SaneAfter, Unlooked DEF Recheck

\* The answer is stored: what it says is decided and its goroutine is about to look.
LEMMA StoreKeeps ==
  ASSUME Sane, Judged, NEW p \in Threads, Store(p)
  PROVE  Sane' /\ Judged'
<1>. DEFINE q == proc[p]
            to == LeadsTo(q)
<1>1. q \in Errands /\ q.got \in Answers /\ q.at = "asked" /\ p \notin Between
  BY Has DEF Store, Errands, Between
<1>2. /\ info' = IF q.got.code = "lost" THEN info ELSE q.got
      /\ overtaken' = IF q.got.code = "lost" THEN overtaken ELSE Between
      /\ decided' = CASE q.got.code = "lost"                          -> decided
                      [] q.got.code = "200" /\ to # "idle" /\ Low(q.got)  -> "low"
                      [] q.got.code = "200" /\ to # "idle" /\ ~Low(q.got) -> "good"
                      [] OTHER                                            -> "none"
      /\ Goes(p, to)
      /\ UNCHANGED << watch, watched, round, calm >>
  BY DEF Store
<1>3. /\ to \in {"idle", "judge", "restore", "active", "final", "legacy", "policy", "remove",
                 "wait"}
      /\ to = "wait" => q.round <= Rounds
      /\ to = "policy" => q.got.code \in Limits
      /\ q.got.code = "200" => to \in {"idle", "judge"} \/ (to = "restore" /\ q.kind = "recovery")
  BY <1>1, Leads
<1>. HIDE DEF q, to
<1>4. PICK r : /\ Orderly(r) /\ r.at = to /\ proc' = [proc EXCEPT ![p] = r]
               /\ to # "idle" => r.kind = q.kind
  <2>1. to \in AllPlaces
    BY <1>3 DEF AllPlaces
  <2>. QED
    BY <1>2, <1>3, <2>1, Went DEF q
<1>5. Moved /\ MovedOn /\ proc'[p] = r
  BY <1>1, <1>3, <1>4, Move, Moves DEF Looks, q
<1>6. decided' \in {"none", "good", "low"} /\ overtaken' \subseteq Threads
  BY <1>2, Given DEF Between
<1>7. Rest
  BY <1>1, <1>2, <1>6, Given DEF Rest
<1>8. CASE q.got.code = "lost"
  <2>1. decided' = decided /\ info' = info /\ overtaken' = overtaken
    BY <1>2, <1>8
  <2>. QED
    BY <1>2, <1>5, <1>7, <2>1, SaneAfter, Unlooked
<1>9. CASE q.got.code # "lost"
  <2>1. Between' = Between
    BY <1>5, BetweenAfter
  <2>2. Heeds'
    BY <1>2, <1>9, <2>1 DEF Heeds, Sets
  <2>3. CASE q.got.code = "200" /\ to # "idle"
    <3>1. info' = q.got /\ (decided' = "low" <=> Low(q.got)) /\ Looks(r)
      BY <1>2, <1>3, <1>4, <2>3 DEF Looks
    <3>2. Told' /\ Pending'
      BY <1>5, <2>3, <3>1 DEF Told, Pending, Low, Looks
    <3>. QED
      BY <1>5, <1>7, <2>2, <3>2, SaneAfter DEF Judged
  <2>4. CASE ~(q.got.code = "200" /\ to # "idle")
    <3>1. decided' = "none"
      BY <1>2, <1>9, <2>4
    <3>. QED
      BY <1>5, <1>7, <2>2, <3>1, SaneAfter DEF Judged, Told, Fits
  <2>. QED
    BY <2>3, <2>4
<1>. QED
  BY <1>8, <1>9

\* The look of ApplyQuotaThreshold: nothing is left to set, or its goroutine is about to
\* set what the stored answer says.
LEMMA JudgeKeeps ==
  ASSUME Sane, Judged, NEW p \in Threads, Judge(p)
  PROVE  Sane' /\ Judged'
<1>. DEFINE to == Threshold(p)
<1>0. proc[p].at = "judge" /\ p \notin Between /\ UNCHANGED << watch, watched, info, round, calm, decided, overtaken >>
  BY DEF Judge, Between
<1>1. Rest
  BY <1>0, Given DEF Rest
<1>2. CASE to = "none"
  <2>1. PICK place \in {"idle", "restore", "active"} : Goes(p, place)
    BY <1>2, Last DEF Judge
  <2>2. PICK r : Orderly(r) /\ r.at = place /\ proc' = [proc EXCEPT ![p] = r]
    BY <2>1, Went DEF AllPlaces
  <2>3. Moved
    BY <1>0, <2>2, Moves
  <2>4. Told' /\ Heeds'
    BY <1>0, <2>3, HeedsAfter DEF Judged, Told
  <2>5. Fits'
    BY <1>0, <1>2 DEF Judged, Threshold, Told, Fits
  <2>. QED
    BY <1>1, <2>3, <2>4, <2>5, SaneAfter DEF Judged
<1>3. CASE to # "none"
  <2>1. /\ to \in {"cool", "clear"} /\ Goes(p, to) /\ info.code = "200"
        /\ to = "cool" <=> Low(info)
    BY <1>3 DEF Judge, Threshold
  <2>. HIDE DEF to
  <2>2. PICK r : Orderly(r) /\ r.at = to /\ proc' = [proc EXCEPT ![p] = r]
    <3>1. to \in AllPlaces /\ to \notin {"wait", "policy"}
      BY <2>1 DEF AllPlaces
    <3>. QED
      BY <2>1, <3>1, Went
  <2>3. proc'[p] = r /\ \A o \in Threads \ {p} : proc'[o] = proc[o]
    BY <2>2, Move
  <2>4. Sane'
    BY <1>1, <2>2, TypesAfter
  <2>5. Between' = Between \cup {p}
    BY <2>1, <2>2, <2>3 DEF Between
  <2>6. p \notin overtaken
    BY <1>0 DEF Judged, Heeds
  <2>7. Heeds'
    <3>1. overtaken' \subseteq Between'
      BY <1>0, <2>5 DEF Judged, Heeds
    <3>2. ASSUME NEW o \in Threads, Sets(o)' PROVE proc'[o].at = "cool" <=> Low(info)
      <4>1. CASE o = p
        BY <2>1, <2>2, <2>3, <4>1
      <4>2. CASE o # p
        BY <1>0, <2>3, <2>5, <3>2, <4>2 DEF Judged, Heeds, Sets
      <4>. QED
        BY <4>1, <4>2
    <3>. QED
      BY <1>0, <3>1, <3>2 DEF Heeds, Low
  <2>8. Pending'
    BY <1>0, <2>5, <2>6 DEF Pending, Sets
  <2>. QED
    BY <1>0, <2>4, <2>7, <2>8 DEF Judged, Told, Low
<1>. QED
  BY <1>2, <1>3

\* The setter of ApplyQuotaThreshold: what it sets is what the stored answer says, unless
\* it was overtaken.
LEMMA DecideKeeps ==
  ASSUME Sane, Judged, NEW p \in Threads, Decide(p)
  PROVE  Sane' /\ Judged'
<1>1. PICK place \in {"idle", "restore", "active"} : Goes(p, place)
  BY Last DEF Decide
<1>2. PICK r : Orderly(r) /\ r.at = place /\ proc' = [proc EXCEPT ![p] = r]
  BY <1>1, Went DEF AllPlaces
<1>3. proc'[p] = r /\ \A o \in Threads \ {p} : proc'[o] = proc[o]
  BY <1>2, Move
<1>4. /\ p \in Between /\ overtaken' = overtaken \ {p}
      /\ decided' = IF p \in overtaken THEN "none" ELSE decided
      /\ watched' = IF proc[p].at = "cool" THEN Exhaust(watched) ELSE Cleared(watched)
      /\ UNCHANGED << watch, info, round, calm >>
  BY DEF Decide
<1>5. Sane'
  <2>1. Rest
    BY <1>4, Given, SettersType DEF Rest
  <2>. QED
    BY <1>2, <2>1, TypesAfter
<1>6. Between' = Between \ {p}
  BY <1>2, <1>3 DEF Between
<1>7. Heeds'
  <2>1. overtaken' \subseteq Between'
    BY <1>4, <1>6 DEF Judged, Heeds
  <2>2. ASSUME NEW o \in Threads, Sets(o)' PROVE proc'[o].at = "cool" <=> Low(info)
    BY <1>3, <1>4, <1>6, <2>2 DEF Judged, Heeds, Sets
  <2>. QED
    BY <1>4, <2>1, <2>2 DEF Heeds, Low
<1>8. Told'
  BY <1>4 DEF Judged, Told, Low
<1>9. Fits'
  <2>1. CASE p \in overtaken
    BY <1>4, <2>1 DEF Fits
  <2>2. CASE p \notin overtaken
    <3>1. decided' = decided /\ (proc[p].at = "cool" <=> Low(info))
      BY <1>4, <2>2 DEF Judged, Heeds, Sets
    <3>2. CASE proc[p].at = "cool"
      <4>1. Exhausted'
        BY <1>4, <3>2, Given DEF Exhausted, Exhaust, Cooled, Records
      <4>. QED
        BY <3>1, <3>2, <4>1 DEF Judged, Told, Fits
    <3>3. CASE proc[p].at # "cool"
      <4>1. ~Exhausted'
        BY <1>4, <3>3, Given DEF Exhausted, Cleared, Records
      <4>. QED
        BY <3>1, <3>3, <4>1 DEF Judged, Told, Fits
    <3>. QED
      BY <3>2, <3>3
  <2>. QED
    BY <2>1, <2>2
<1>. QED
  BY <1>5, <1>7, <1>8, <1>9 DEF Judged

LEMMA RestoreKeeps ==
  ASSUME Sane, Judged, NEW p \in Threads, Restore(p)
  PROVE  Sane' /\ Judged'
<1>0. /\ p \notin Between /\ proc[p].at = "restore"
      /\ UNCHANGED << watch, watched, info, round, calm, decided, overtaken >>
  BY DEF Restore, Between
<1>1. PICK place \in {"active", "judge", "idle"} :
        Goes(p, place) /\ (proc[p].kind = "recovery" => place # "idle")
  BY DEF Restore
<1>2. PICK r : /\ Orderly(r) /\ r.at = place /\ proc' = [proc EXCEPT ![p] = r]
               /\ place # "idle" => r.kind = proc[p].kind
  BY <1>1, Went DEF AllPlaces
<1>3. Moved /\ MovedOn
  <2>1. Looks(proc[p]) => Looks(r)
    BY <1>0, <1>1, <1>2 DEF Looks
  <2>. QED
    BY <1>0, <1>2, <2>1, Moves
<1>4. Rest
  BY <1>0, Given DEF Rest
<1>. QED
  BY <1>0, <1>3, <1>4, SaneAfter, Unlooked

LEMMA ReactivateKeeps ==
  ASSUME Sane, Judged, NEW p \in Threads, Reactivate(p)
  PROVE  Sane' /\ Judged'
<1>0. /\ p \notin Between /\ proc[p].at = "active" /\ watched' = Active(watched)
      /\ UNCHANGED << watch, info, round, calm, overtaken >>
      /\ \/ Goes(p, "judge") /\ decided' = decided
         \/ Goes(p, "idle") /\ decided' = "none"
  BY DEF Reactivate, Between, Becomes
<1>1. PICK place \in {"judge", "idle"} : Goes(p, place) /\ (place = "idle" => decided' = "none")
  BY <1>0
<1>2. PICK r : Orderly(r) /\ r.at = place /\ proc' = [proc EXCEPT ![p] = r]
  BY <1>1, Went DEF AllPlaces
<1>3. Moved /\ proc'[p] = r
  BY <1>0, <1>2, Moves, Move
<1>4. Sane'
  <2>1. Rest
    BY <1>0, Given, SettersType DEF Rest
  <2>. QED
    BY <1>3, <2>1, SaneAfter
<1>5. CASE decided' = "none"
  BY <1>0, <1>3, <1>4, <1>5, Unsaid
<1>6. CASE decided' = decided /\ place = "judge"
  <2>1. Pending'
    BY <1>2, <1>3, <1>6 DEF Pending, Looks
  <2>2. Told' /\ Heeds'
    BY <1>0, <1>3, <1>6, HeedsAfter DEF Judged, Told
  <2>. QED
    BY <1>4, <2>1, <2>2 DEF Judged
<1>. QED
  BY <1>0, <1>1, <1>5, <1>6

LEMMA PolicyKeeps ==
  ASSUME Sane, Judged, NEW p \in Threads, Policy(p)
  PROVE  Sane' /\ Judged'
<1>1. /\ proc[p] \in Errands /\ proc[p].got.code \in Limits /\ ~Looks(proc[p])
      /\ p \notin Between
  BY Has DEF Policy, Orderly, Looks, Between
<1>2. /\ UNCHANGED << watch, info, round, calm, overtaken >>
      /\ \/ decided' = "none" /\ watched' = Renewed(watched)
         \/ UNCHANGED << watched, decided >>
  BY DEF Policy, Becomes
<1>3. Rest
  <2>1. watched' \in Records /\ decided' \in {"none", "good", "low"}
    BY <1>2, Given, SettersType
  <2>. QED
    BY <1>2, <2>1, Given DEF Rest
<1>4. PICK r : Orderly(r) /\ r.at \notin {"cool", "clear"} /\ proc' = [proc EXCEPT ![p] = r]
  <2>1. CASE Goes(p, "legacy") \/ Goes(p, "final")
    <3>1. PICK place \in {"legacy", "final"} : Goes(p, place)
      BY <2>1
    <3>. QED
      BY <3>1, Went DEF AllPlaces
  <2>2. CASE \E q \in Asking(proc[p]) :
               proc' = [proc EXCEPT ![p] = [q EXCEPT !.first = proc[p].got.code]]
    <3>1. PICK q \in Asking(proc[p]) :
            proc' = [proc EXCEPT ![p] = [q EXCEPT !.first = proc[p].got.code]]
      BY <2>2
    <3>2. Orderly(q) /\ q.at = "asked"
      BY <1>1, Asked
    <3>3. /\ Orderly([q EXCEPT !.first = proc[p].got.code])
          /\ [q EXCEPT !.first = proc[p].got.code].at = "asked"
      BY <1>1, <3>2 DEF Orderly, Errands
    <3>. QED
      BY <3>1, <3>3
  <2>3. CASE Ends(p)
    <3>1. PICK place \in {"idle", "restore", "active"} : Goes(p, place)
      BY <2>3, Last
    <3>. QED
      BY <3>1, Went DEF AllPlaces
  <2>. QED
    BY <2>1, <2>2, <2>3 DEF Policy
<1>5. Moved /\ MovedOn
  BY <1>1, <1>4, Moves
<1>. QED
  BY <1>2, <1>3, <1>5, SaneAfter, Unsaid, Unlooked

LEMMA OutcomeKeeps ==
  ASSUME Sane, Judged, NEW p \in Threads, Final(p) \/ Legacy(p) \/ Remove(p)
  PROVE  Sane' /\ Judged'
<1>1. /\ Goes(p, "idle") \/ Ends(p)
      /\ UNCHANGED << watch, info, round, calm, overtaken >> /\ decided' = "none"
      /\ p \notin Between
  BY DEF Final, Legacy, Remove, Becomes, Between
<1>2. watched' \in Records
  BY Given, SettersType DEF Final, Legacy, Remove, Becomes
<1>3. PICK place \in {"idle", "restore", "active"} : Goes(p, place)
  BY <1>1, Last
<1>4. PICK r : Orderly(r) /\ r.at = place /\ proc' = [proc EXCEPT ![p] = r]
  BY <1>3, Went DEF AllPlaces
<1>5. Moved
  BY <1>1, <1>4, Moves
<1>. QED
  BY <1>1, <1>2, <1>5, Given, SaneAfter, Unsaid DEF Rest

LEMMA NextRoundKeeps ==
  ASSUME Sane, Judged, NEW p \in Threads, NextRound(p)
  PROVE  Sane' /\ Judged'
<1>. DEFINE q == [proc[p] EXCEPT !.round = @ + 1]
<1>1. /\ proc[p] \in Errands /\ proc[p].at = "wait" /\ proc[p].round <= Rounds /\ ~Looks(proc[p])
      /\ p \notin Between
  BY Has DEF NextRound, Orderly, Looks, Between
<1>2. q \in Errands
  BY <1>1, WatchAssumption DEF Errands
<1>3. Goes(p, "idle") \/ \E r \in Asking(q) : proc' = [proc EXCEPT ![p] = r]
  BY DEF NextRound
<1>4. /\ UNCHANGED << watch, info, round, calm, overtaken >>
      /\ decided' = "none" \/ UNCHANGED << watched, decided >>
  BY DEF NextRound, Becomes
<1>5. watched' \in Records
  BY Given, SettersType DEF NextRound, Becomes
<1>. HIDE DEF q
<1>6. PICK r : Orderly(r) /\ r.at \notin {"cool", "clear"} /\ proc' = [proc EXCEPT ![p] = r]
  BY <1>2, <1>3, Went, Asked DEF AllPlaces
<1>7. Moved /\ MovedOn
  BY <1>1, <1>6, Moves
<1>8. Rest
  BY <1>4, <1>5, Given DEF Rest
<1>. QED
  BY <1>4, <1>7, <1>8, SaneAfter, Unsaid, Unlooked

\* The steps that are no goroutine's.
LEMMA PoolKeeps ==
  ASSUME Sane, Judged,
         \/ RecheckNothing \/ HealthRound \/ HealthAnswer \/ HealthOnce
         \/ PoolGrows \/ PoolShrinks
         \/ RequestFails \/ Disable \/ Enable \/ CooldownEnds \/ Calms \/ Loaded
         \/ UNCHANGED watchVars
  PROVE  Sane' /\ Judged'
<1>1. Moved /\ MovedOn /\ watch' = watch
  BY DEF Moved, MovedOn, RecheckNothing, watchVars, HealthRound, HealthAnswer, HealthOnce,
         PoolGrows, PoolShrinks, RequestFails, Disable, Enable, CooldownEnds, Calms, Loaded
<1>2. watched' \in Records
  <2>1. CASE HealthAnswer \/ HealthOnce
    BY <2>1, Given, HealthType DEF HealthAnswer, HealthOnce, Becomes
  <2>2. CASE RequestFails \/ Enable \/ Loaded
    BY <2>2, Given, SettersType DEF RequestFails, Enable, Loaded, Becomes
  <2>3. CASE Disable \/ CooldownEnds
    BY <2>3, Given DEF Disable, CooldownEnds, Becomes, Records
  <2>4. CASE \/ RecheckNothing \/ HealthRound \/ PoolGrows \/ PoolShrinks
             \/ Calms \/ UNCHANGED watchVars
    BY <2>4, Given DEF RecheckNothing, watchVars, HealthRound, PoolGrows, PoolShrinks, Calms
  <2>. QED
    BY <2>1, <2>2, <2>3, <2>4
<1>3. round' \in [n : 1..MaxPool, pos : 0..MaxPool, cursor : Nat, missed : Nat,
                  at : {"idle", "visits", "passes"}]
  <2>0. MaxPool \in Nat \ {0} /\ Batch \in Nat \ {0} /\ Cycle \in Nat \ {0}
    BY WatchAssumption
  <2>1. CASE HealthRound
    <3>1. Mod(round.cursor + Batch, Cycle) \in Nat
      <4>1. round.cursor + Batch \in Int
        BY <2>0, Given
      <4>2. Mod(round.cursor + Batch, Cycle) \in 0..Cycle-1
        BY <2>0, <4>1, ModType
      <4>. QED
        BY <2>0, <4>2
    <3>2. ((round.cursor + Batch) % Cycle) \in Nat
      BY <3>1 DEF Mod
    <3>3. round' = [round EXCEPT !.cursor = IF Batch >= round.n THEN @
                                            ELSE (round.cursor + Batch) % Cycle,
                                 !.at = IF InBatch(round) THEN "visits" ELSE "passes",
                                 !.missed = IF InBatch(round) THEN 0 ELSE @ + 1]
      BY <2>1 DEF HealthRound, Advance
    <3>4. 0 \in Nat /\ round.missed + 1 \in Nat
      BY Given
    <3>. HIDE DEF InBatch
    <3>. QED
      BY <3>2, <3>3, <3>4, Given
  <2>2. CASE PoolGrows
    <3>1. round.n + 1 \in 1..MaxPool
      BY <2>0, <2>2, Given DEF PoolGrows
    <3>. QED
      BY <2>2, <3>1, Given DEF PoolGrows
  <2>3. CASE PoolShrinks
    <3>1. PICK hole \in (0..round.n - 1) \ {round.pos} :
            round' = [round EXCEPT !.n = @ - 1, !.missed = 0,
                                   !.pos = IF @ = round.n - 1 THEN hole ELSE @]
      BY <2>3 DEF PoolShrinks
    <3>2. round.n \in 1..MaxPool /\ round.n > 1
      BY <2>3, Given DEF PoolShrinks
    <3>3. hole \in 0..MaxPool /\ round.n - 1 \in 1..MaxPool
      BY <2>0, <3>2
    <3>. QED
      BY <3>1, <3>2, <3>3, Given
  <2>4. CASE Loaded
    BY <2>0, <2>4 DEF Loaded, RoundStart
  <2>5. CASE HealthAnswer
    BY <2>5, Given DEF HealthAnswer
  <2>6. CASE \/ RecheckNothing \/ HealthOnce \/ RequestFails
             \/ Disable \/ Enable \/ CooldownEnds \/ Calms \/ UNCHANGED watchVars
    BY <2>6, Given
    DEF RecheckNothing, HealthOnce, RequestFails, Disable, Enable, CooldownEnds, Calms, watchVars
  <2>. QED
    BY <2>1, <2>2, <2>3, <2>4, <2>5, <2>6
<1>4. Rest
  BY <1>1, <1>2, <1>3, Given
  DEF Rest, RecheckNothing, watchVars, HealthRound, HealthAnswer, HealthOnce, PoolGrows,
      PoolShrinks, RequestFails, Disable, Enable, CooldownEnds, Calms, Loaded, Becomes
<1>5. \/ decided' = "none" /\ info' = info
      \/ Loaded
      \/ /\ decided' = decided /\ info' = info
         /\ watched'.pooled = watched.pooled /\ watched'.status = watched.status
         /\ watched'.quota = watched.quota
  <2>1. CASE \/ HealthAnswer \/ HealthOnce \/ RequestFails \/ Disable \/ Enable \/ Loaded
    BY <2>1 DEF HealthAnswer, HealthOnce, RequestFails, Disable, Enable, Becomes
  <2>2. CASE CooldownEnds
    BY <2>2, Given DEF CooldownEnds, Records
  <2>3. CASE \/ RecheckNothing \/ HealthRound \/ PoolGrows \/ PoolShrinks
             \/ Calms \/ UNCHANGED watchVars
    BY <2>3 DEF RecheckNothing, HealthRound, PoolGrows, PoolShrinks, Calms, watchVars
  <2>. QED
    BY <2>1, <2>2, <2>3
<1>6. overtaken' = overtaken
  BY DEF RecheckNothing, watchVars, HealthRound, HealthAnswer, HealthOnce, PoolGrows,
         PoolShrinks, RequestFails, Disable, Enable, CooldownEnds, Calms, Loaded
<1>7. CASE Loaded
  <2>1. proc' = proc /\ decided' = "none" /\ Between = {}
    BY <1>7 DEF Loaded, Between, Resting
  <2>2. Between' = {}
    BY <2>1 DEF Between
  <2>3. Heeds'
    BY <1>6, <2>1, <2>2 DEF Judged, Heeds, Sets
  <2>4. Told' /\ Fits'
    BY <2>1 DEF Told, Fits
  <2>. QED
    BY <1>1, <1>4, <2>3, <2>4, SaneAfter DEF Judged
<1>. QED
  BY <1>1, <1>4, <1>5, <1>6, <1>7, SaneAfter, Unsaid, Unlooked

\* Every step keeps the types and what was decided.
LEMMA SaneStep ==
  ASSUME Sane, Judged, [WatchNext]_watchVars
  PROVE  Sane' /\ Judged'
<1>1. CASE \E p \in watch.crew, kind \in watch.kinds : Begin(p, kind)
  BY <1>1, BeginKeeps
<1>2. CASE \E p \in watch.crew : Cached(p)
  BY <1>2, CachedKeeps
<1>3. CASE \E p \in Threads : GoesOn(p)
  BY <1>3, StoreKeeps, JudgeKeeps, DecideKeeps, RestoreKeeps,
     ReactivateKeeps, PolicyKeeps, OutcomeKeeps, NextRoundKeeps
  DEF GoesOn
<1>4. CASE Recheck
  BY <1>4, RecheckKeeps
<1>5. CASE \/ RecheckNothing \/ HealthRound \/ HealthAnswer \/ HealthOnce
           \/ PoolGrows \/ PoolShrinks
           \/ RequestFails \/ Disable \/ Enable \/ CooldownEnds \/ Calms \/ Loaded
           \/ UNCHANGED watchVars
  BY <1>5, PoolKeeps
<1>. QED
  BY <1>1, <1>2, <1>3, <1>4, <1>5 DEF WatchNext

-----------------------------------------------------------------------------
\* Every step keeps the account as near to its batch as the rounds it was missed in say.
LEMMA NearStep ==
  ASSUME Sane, Near(round), [WatchNext]_watchVars
  PROVE  Near(round')
<1>0. /\ round.n \in 1..MaxPool /\ round.pos \in 0..MaxPool
      /\ round.cursor \in Nat /\ round.missed \in Nat
      /\ round \in [n : 1..MaxPool, pos : 0..MaxPool, cursor : Nat, missed : Nat,
                    at : {"idle", "visits", "passes"}]
      /\ Batch \in Nat \ {0} /\ MaxPool \in Nat \ {0} /\ Cycle \in Nat \ {0}
      /\ round.n \in Nat \ {0} /\ round.pos \in 0..round.n-1
  BY Given, WatchAssumption DEF Near
<1>1. CASE HealthRound
  <2>1. /\ round'.n = round.n /\ round'.pos = round.pos
        /\ round'.cursor = IF Batch >= round.n THEN round.cursor ELSE Mod(round.cursor + Batch, Cycle)
        /\ round'.missed = IF InBatch(round) THEN 0 ELSE round.missed + 1
    BY <1>0, <1>1 DEF HealthRound, Advance, Mod
  <2>2. CASE Batch >= round.n
    BY <1>0, <2>1, <2>2 DEF Near, InBatch
  <2>3. CASE Batch < round.n
    <3>1. Ahead(round') = Mod(round.n + round.pos - Mod(round.cursor + Batch, round.n), round.n)
      <4>1. Mod(Mod(round.cursor + Batch, Cycle), round.n) = Mod(round.cursor + Batch, round.n)
        BY <1>0, Cyclic
      <4>. QED
        BY <1>0, <2>1, <2>3, <4>1 DEF Ahead
    <3>2. Ahead(round') \in 0..round.n-1 /\ Ahead(round) \in 0..round.n-1
      <4>1. Mod(round.cursor + Batch, Cycle) \in Nat
        BY <1>0, ModType
      <4>. QED
        BY <1>0, <2>1, <2>3, <4>1, AheadType
    <3>3. CASE InBatch(round)
      BY <1>0, <2>1, <2>3, <3>2, <3>3 DEF Near
    <3>4. CASE ~InBatch(round)
      <4>1. Ahead(round) >= Batch
        BY <1>0, <2>3, <3>2, <3>4, InBatchAhead
      <4>2. Ahead(round') = Ahead(round) - Batch
        BY <1>0, <2>3, <3>1, <4>1, Nearer DEF Ahead
      <4>3. round'.missed * Batch = round.missed * Batch + Batch
        BY <1>0, <2>1, <3>4
      <4>4. round.missed * Batch + Ahead(round) < round.n
        BY <2>3 DEF Near
      <4>. QED
        BY <1>0, <2>1, <2>3, <3>2, <4>2, <4>3, <4>4 DEF Near
    <3>. QED
      BY <3>3, <3>4
  <2>. QED
    BY <1>0, <2>2, <2>3
<1>2. ASSUME round'.missed = 0, round'.n \in Nat \ {0}, round'.pos \in 0..round'.n-1,
             round'.cursor \in Nat
      PROVE  Near(round')
  <2>2. Ahead(round') \in 0..round'.n-1
    BY <1>2, AheadType
  <2>. QED
    BY <1>0, <1>2, <2>2 DEF Near
<1>3. CASE PoolGrows
  BY <1>0, <1>2, <1>3 DEF PoolGrows
<1>4. CASE PoolShrinks
  <2>1. PICK hole \in (0..round.n - 1) \ {round.pos} :
          round' = [round EXCEPT !.n = @ - 1, !.missed = 0,
                                 !.pos = IF @ = round.n - 1 THEN hole ELSE @]
    BY <1>4 DEF PoolShrinks
  <2>2. round.n > 1
    BY <1>4 DEF PoolShrinks
  <2>3. round'.missed = 0 /\ round'.n = round.n - 1 /\ round'.cursor = round.cursor
    BY <1>0, <2>1
  <2>4. round'.pos \in 0..round'.n-1
    BY <1>0, <2>1, <2>2, <2>3
  <2>. QED
    BY <1>0, <1>2, <2>2, <2>3, <2>4
<1>5. CASE Loaded
  BY <1>2, <1>5 DEF Loaded, RoundStart
<1>6. CASE HealthAnswer
  <2>1. /\ round'.n = round.n /\ round'.pos = round.pos /\ round'.cursor = round.cursor
        /\ round'.missed = round.missed
    BY <1>0, <1>6 DEF HealthAnswer
  <2>. QED
    BY <2>1 DEF Near, Ahead
<1>7. CASE round' = round
  BY <1>7
<1>8. \/ HealthRound \/ PoolGrows \/ PoolShrinks \/ Loaded \/ HealthAnswer \/ round' = round
  BY DEF WatchNext, watchVars, Begin, Cached, GoesOn, Store, Judge, Decide, Restore, Reactivate,
         Policy, Final, Legacy, Remove, NextRound, Recheck, RecheckNothing, HealthOnce, RequestFails, Disable,
         Enable, CooldownEnds, Calms
<1>. QED
  BY <1>1, <1>3, <1>4, <1>5, <1>6, <1>7, <1>8

-----------------------------------------------------------------------------
LEMMA WatchStarts == WatchInit => WatchInv
<1>. SUFFICES ASSUME WatchInit PROVE WatchInv
  OBVIOUS
<1>1. MaxPool \in Nat \ {0} /\ Batch \in Nat \ {0}
  BY WatchAssumption
<1>2. proc \in [Threads -> Errands] /\ \A p \in Threads : proc[p] = Resting
  BY NothingIsAnswer DEF WatchInit
<1>3. WatchTypeOK
  <2>1. watched \in Records /\ info \in Answers \cup {Nothing("none")}
    BY SettersType DEF WatchInit
  <2>2. round \in [n : 1..MaxPool, pos : 0..MaxPool, cursor : Nat, missed : Nat,
                   at : {"idle", "visits", "passes"}]
    BY <1>1 DEF WatchInit, RoundStart
  <2>. QED
    BY <1>2, <2>1, <2>2 DEF WatchInit, WatchTypeOK, Records, Errands, AllPlaces
<1>4. Near(round)
  <2>1. round = RoundStart
    BY DEF WatchInit
  <2>2. Ahead(round) \in 0..round.n-1
    BY <2>1, AheadType DEF RoundStart
  <2>. QED
    BY <1>1, <2>1, <2>2 DEF Near, RoundStart
<1>5. Judged
  BY <1>2 DEF WatchInit, Judged, Told, Fits, Heeds, Sets, Between, Resting
<1>. QED
  BY <1>2, <1>3, <1>4, <1>5, NothingIsAnswer DEF WatchInv, Sane

\* The quota watch and the health check keep all this up, whatever their parameters.
THEOREM WatchHolds == WatchSpec => []WatchInv
<1>1. WatchInit => WatchInv
  BY WatchStarts
<1>2. WatchInv /\ [WatchNext]_watchVars => WatchInv'
  <2>. SUFFICES ASSUME WatchInv, [WatchNext]_watchVars PROVE WatchInv'
    OBVIOUS
  <2>1. Sane' /\ Judged'
    BY SaneStep DEF WatchInv
  <2>2. Near(round')
    BY NearStep DEF WatchInv
  <2>. QED
    BY <2>1, <2>2 DEF WatchInv, Near, Ahead, Mod
<1>. QED
  BY <1>1, <1>2, PTL DEF WatchSpec

\* Every variable of the watch keeps its type (types.go:42, quota.go:47, health.go:40).
THEOREM WatchTypes == WatchSpec => []WatchTypeOK
<1>1. WatchInv => WatchTypeOK
  BY DEF WatchInv, Sane
<1>. QED
  BY <1>1, WatchHolds, PTL

\* manager.go:1954: the account ends up as the answer that was stored last says, whoever
\* asked and in whatever order the answers came, unless another setter has come since or
\* a goroutine set what it had read before that answer was stored: for any goroutines,
\* windows, rounds and policies.
THEOREM AnswerIsHeeded == WatchSpec => []AnswerDecides
<1>1. WatchInv => AnswerDecides
  <2>. SUFFICES ASSUME WatchInv, \A p \in Threads : proc[p] = Resting,
                       watched.pooled, watched.status # "disabled"
                PROVE  (decided = "low" => Exhausted) /\ (decided = "good" => ~Exhausted)
    BY DEF AnswerDecides
  <2>1. ~Pending
    BY DEF Pending, Looks, Sets, Between, Resting
  <2>2. Fits
    BY <2>1 DEF WatchInv, Judged
  <2>. QED
    BY <2>2 DEF Fits
<1>. QED
  BY <1>1, WatchHolds, PTL

\* health.go:203: no account of a pool that does not change waits for a visit longer than
\* the pool has batches, for any batch and pool size.
THEOREM EveryoneIsVisited == WatchSpec => []Covered
<1>1. WatchInv => Covered
  <2>. SUFFICES ASSUME WatchInv PROVE Covered
    OBVIOUS
  <2>1. /\ round.n \in Nat \ {0} /\ round.missed \in Nat /\ Batch \in Nat \ {0} /\ Near(round)
        /\ round.pos \in 0..round.n-1 /\ round.cursor \in Nat
    <3>1. Sane /\ Near(round)
      BY DEF WatchInv
    <3>. QED
      BY <3>1, Given, WatchAssumption DEF Near
  <2>2. Ahead(round) \in 0..round.n-1
    BY <2>1, AheadType
  <2>3. round.missed * Batch \in Nat
    BY <2>1
  <2>. QED
    BY <2>1, <2>2, <2>3 DEF Near, Covered
<1>. QED
  BY <1>1, WatchHolds, PTL

=============================================================================
