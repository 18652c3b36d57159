--------------------------- MODULE AccountPoolProofs ---------------------------
(***************************************************************************)
(* Type correctness of AccountPool, that a pooled account is never marked  *)
(* deleted, that a single writer never leaves a half-written credential,   *)
(* and that a removed account leaves no file, for any number of            *)
(* goroutines, accounts, tokens and names.                                 *)
(***************************************************************************)
EXTENDS AccountPool, TLAPS, FiniteSetTheorems

\* A goroutine that works with an account or a token holds a real one.
HasAcct(r, ac) == r.at \in {"ask", "update", "enqueue"} => r.acct \in Accts /\ ac[r.acct].token > 0
HasToken(r)    == r.at \in {"ask", "update", "add", "open", "fill"} => r.tok > 0
Held == \A p \in Procs : HasAcct(proc[p], acct) /\ HasToken(proc[p])

\* Accounts that are listed or queued have a token.
Born ==
  /\ issued > 0
  /\ pool # None => acct[pool].token > 0
  /\ \A i \in 1..Len(queue) : acct[queue[i]].token > 0

Inv == TypeOK /\ Held /\ Born /\ PooledIsLive

LEMMA Tokened ==
  /\ Unborn \in Account
  /\ \A t \in Nat : [Unborn EXCEPT !.token = t] \in Account
BY DEF Account, Unborn

LEMMA LoadedType ==
  ASSUME NEW t \in Int
  PROVE  /\ Loaded(t) \in [Accts -> Account]
         /\ InPool(t) \in Accts \cup {None}
         /\ InPool(t) # None => Loaded(t)[InPool(t)].token > 0 /\ ~Loaded(t)[InPool(t)].deleted
<1>1. t > Torn => t \in Nat
  BY DEF Torn
<1>2. 1 \in Accts
  BY PoolAssumption DEF Accts
<1>3. Loaded(t) \in [Accts -> Account]
  BY <1>1, Tokened DEF Loaded
<1>4. t > Torn => Loaded(t)[1] = [Unborn EXCEPT !.token = t]
  BY <1>2 DEF Loaded
<1> QED
  BY <1>2, <1>3, <1>4 DEF InPool, None, Unborn, Torn

LEMMA IdleType == Idle \in Locals
BY DEF Idle, Locals, Kinds, Places, Names, None, Torn

LEMMA InitInv == Init => Inv
<1> SUFFICES ASSUME Init PROVE Inv
  OBVIOUS
<1>1. file \in [Names -> Int]
  BY DEF Init, Names, Absent
<1>2. /\ acct \in [Accts -> Account] /\ pool \in Accts \cup {None}
      /\ pool # None => acct[pool].token > 0 /\ ~acct[pool].deleted
  BY LoadedType DEF Init
<1>3. TypeOK
  BY <1>1, <1>2, IdleType DEF Init, TypeOK
<1>4. Held /\ Born /\ PooledIsLive
  BY <1>2 DEF Init, Held, HasAcct, HasToken, Born, PooledIsLive, Idle
<1> QED
  BY <1>3, <1>4 DEF Inv

\* No step takes an account's token away.
Kept == \A b \in Accts : acct[b].token > 0 => acct'[b].token > 0

\* The goroutine p goes on with the locals r, or is done.
LEMMA Turns ==
  ASSUME TypeOK, Held, Kept, NEW p \in Procs, NEW r \in Locals,
         HasAcct(r, acct'), HasToken(r), proc' = [proc EXCEPT ![p] = r]
  PROVE  proc' \in [Procs -> Locals] /\ Held'
<1>1. proc' \in [Procs -> Locals] /\ proc'[p] = r
  BY DEF TypeOK
<1>2. ASSUME NEW q \in Procs, q # p PROVE HasAcct(proc'[q], acct') /\ HasToken(proc'[q])
  <2>1. proc'[q] = proc[q] /\ HasAcct(proc[q], acct) /\ HasToken(proc[q])
    BY <1>2 DEF TypeOK, Held
  <2> QED
    BY <2>1 DEF HasAcct, Kept
<1> QED
  BY <1>1, <1>2 DEF Held

LEMMA Finishes ==
  ASSUME TypeOK, Held, Kept, NEW p \in Procs, Done(p)
  PROVE  proc' \in [Procs -> Locals] /\ Held'
<1>1. HasAcct(Idle, acct') /\ HasToken(Idle)
  BY DEF HasAcct, HasToken, Idle
<1> QED
  BY <1>1, IdleType, Turns DEF Done

\* ... or only goes to another place, for which it holds what it needs.
LEMMA Goes ==
  ASSUME TypeOK, Held, Kept, NEW p \in Procs, NEW s \in Places, Goto(p, s),
         s \in {"ask", "update", "enqueue"} => proc[p].at \in {"ask", "update", "enqueue"},
         s \in {"ask", "update", "add", "open", "fill"} =>
            proc[p].at \in {"ask", "update", "add", "open", "fill"}
  PROVE  proc' \in [Procs -> Locals] /\ Held'
<1> DEFINE r == [proc[p] EXCEPT !.at = s]
<1>1. r \in Locals /\ r.at = s /\ r.acct = proc[p].acct /\ r.tok = proc[p].tok
  BY DEF TypeOK, Locals
<1>2. HasAcct(proc[p], acct) /\ HasToken(proc[p])
  BY DEF Held
<1>3. HasAcct(r, acct') /\ HasToken(r)
  BY <1>1, <1>2 DEF HasAcct, HasToken, Kept
<1>4. proc' = [proc EXCEPT ![p] = r]
  BY DEF Goto
<1> HIDE DEF r
<1> QED
  BY <1>1, <1>3, <1>4, Turns

LEMMA NothingMoves ==
  ASSUME TypeOK, Held, Kept, UNCHANGED proc
  PROVE  proc' \in [Procs -> Locals] /\ Held'
<1>1. ASSUME NEW q \in Procs PROVE HasAcct(proc'[q], acct') /\ HasToken(proc'[q])
  BY DEF TypeOK, Held, HasAcct, Kept
<1> QED
  BY <1>1 DEF TypeOK, Held

LEMMA FileType ==
  ASSUME TypeOK, NEW n \in Names, NEW m \in Names
  PROVE  /\ Rename(n, m) => file' \in [Names -> Int] /\ fd' \in [Procs -> Names \cup {"gone"}]
         /\ Remove(n) => file' \in [Names -> Int] /\ fd' \in [Procs -> Names \cup {"gone"}]
<1>1. Absent \in Int
  BY DEF Absent
<1>2. Rename(n, m) => file' \in [Names -> Int]
  BY <1>1 DEF TypeOK, Rename
<1>3. Rename(n, m) => fd' \in [Procs -> Names \cup {"gone"}]
  BY DEF TypeOK, Rename
<1>4. Remove(n) => file' \in [Names -> Int]
  BY <1>1 DEF TypeOK, Remove
<1>5. Remove(n) => fd' \in [Procs -> Names \cup {"gone"}]
  BY DEF TypeOK, Remove
<1> QED
  BY <1>2, <1>3, <1>4, <1>5

LEMMA AcctType ==
  ASSUME TypeOK, NEW a
  PROVE  /\ [acct EXCEPT ![a].deleted = TRUE] \in [Accts -> Account]
         /\ \A t \in Nat : [acct EXCEPT ![a].token = t] \in [Accts -> Account]
<1>1. \A b \in Accts, t \in Nat : [acct[b] EXCEPT !.deleted = TRUE] \in Account
                                  /\ [acct[b] EXCEPT !.token = t] \in Account
  BY DEF TypeOK, Account
<1> QED
  BY <1>1 DEF TypeOK

\* Marking an account, or giving it another token, keeps what the invariant says.
LEMMA MarkKeeps ==
  ASSUME Inv, NEW a, acct' = [acct EXCEPT ![a].deleted = TRUE],
         UNCHANGED << queue, issued >>, pool' = None
  PROVE  acct' \in [Accts -> Account] /\ Kept /\ Born' /\ PooledIsLive'
<1>1. acct' \in [Accts -> Account]
  BY AcctType DEF Inv
<1>2. \A b \in Accts : acct'[b].token = acct[b].token
  BY DEF Inv, TypeOK, Account
<1>3. \A i \in 1..Len(queue) : queue[i] \in Accts
  BY DEF Inv, TypeOK
<1> QED
  BY <1>1, <1>2, <1>3 DEF Inv, Kept, Born, PooledIsLive

LEMMA RenewKeeps ==
  ASSUME Inv, NEW a, NEW t \in Nat, t > 0, acct' = [acct EXCEPT ![a].token = t],
         UNCHANGED << queue, pool >>, issued' \in Nat, issued' >= issued
  PROVE  acct' \in [Accts -> Account] /\ Kept /\ Born' /\ PooledIsLive'
<1>1. acct' \in [Accts -> Account]
  BY AcctType DEF Inv
<1>2. \A b \in Accts : (acct'[b].token = acct[b].token \/ acct'[b].token = t)
                       /\ acct'[b].deleted = acct[b].deleted
  BY DEF Inv, TypeOK, Account
<1>3. \A i \in 1..Len(queue) : queue[i] \in Accts
  BY DEF Inv, TypeOK
<1> QED
  BY <1>1, <1>2, <1>3 DEF Inv, TypeOK, Kept, Born, PooledIsLive

\* Steps that leave the accounts, the pool and the queue alone.
LEMMA RestStays ==
  ASSUME Inv, UNCHANGED << pool, acct, queue >>, issued' >= issued, issued' \in Nat
  PROVE  Kept /\ Born' /\ PooledIsLive'
BY DEF Inv, TypeOK, Born, PooledIsLive, Kept

LEMMA UnlistInv ==
  ASSUME Inv, NEW p \in Procs, Unlist(p) PROVE Inv'
<1>1. acct' \in [Accts -> Account] /\ Kept /\ Born' /\ PooledIsLive'
  BY MarkKeeps DEF Unlist
<1>2. proc' \in [Procs -> Locals] /\ Held'
  <2>1. CASE Done(p)
    BY <2>1, <1>1, Finishes DEF Inv
  <2>2. CASE \E s \in {"park", "erase"} : Goto(p, s)
    <3>1. PICK s \in {"park", "erase"} : Goto(p, s)
      BY <2>2
    <3>2. s \in Places /\ s \notin {"ask", "update", "enqueue", "add", "open", "fill"}
      BY DEF Places
    <3> QED
      BY <1>1, <3>1, <3>2, Goes DEF Inv
  <2> QED
    BY <2>1, <2>2 DEF Unlist
<1>3. TypeOK'
  BY <1>1, <1>2 DEF Inv, TypeOK, Unlist, None
<1> QED
  BY <1>1, <1>2, <1>3 DEF Inv

LEMMA EraseInv ==
  ASSUME Inv, NEW p \in Procs, Erase(p) PROVE Inv'
<1>1. Kept /\ Born' /\ PooledIsLive'
  BY RestStays DEF Erase, Inv, TypeOK
<1>2. proc' \in [Procs -> Locals] /\ Held'
  BY <1>1, Finishes DEF Inv, Erase
<1>3. TypeOK'
  BY <1>2, FileType DEF Inv, TypeOK, Erase, Names
<1> QED
  BY <1>1, <1>2, <1>3 DEF Inv

LEMMA ParkInv ==
  ASSUME Inv, NEW p \in Procs, Park(p) PROVE Inv'
<1>1. Kept /\ Born' /\ PooledIsLive'
  BY RestStays DEF Park, Inv, TypeOK
<1>2. proc' \in [Procs -> Locals] /\ Held'
  BY <1>1, Finishes DEF Inv, Park
<1>3. TypeOK'
  BY <1>2, FileType DEF Inv, TypeOK, Park, Names
<1> QED
  BY <1>1, <1>2, <1>3 DEF Inv

\* A refused account is to be unlisted.
LEMMA RefusedGoes ==
  ASSUME TypeOK, Held, Kept, NEW p \in Procs, Refused(p)
  PROVE  proc' \in [Procs -> Locals] /\ Held'
<1>1. CASE Goto(p, "unlist")
  BY <1>1, Goes DEF Places
<1>2. CASE proc' = [proc EXCEPT ![p].op = "disable", ![p].at = "unlist"]
  <2> DEFINE r == [proc[p] EXCEPT !.op = "disable", !.at = "unlist"]
  <2>1. r \in Locals /\ r.at = "unlist"
    BY DEF TypeOK, Locals, Places, Kinds, Ops
  <2>2. HasAcct(r, acct') /\ HasToken(r)
    BY <2>1 DEF HasAcct, HasToken
  <2>3. proc' = [proc EXCEPT ![p] = r]
    BY <1>2
  <2> HIDE DEF r
  <2> QED
    BY <2>1, <2>2, <2>3, Turns
<1> QED
  BY <1>1, <1>2 DEF Refused

LEMMA AnswerInv ==
  ASSUME Inv, NEW p \in Procs, Answer(p) PROVE Inv'
<1>1. Kept /\ Born' /\ PooledIsLive'
  BY RestStays DEF Answer, Inv, TypeOK
<1>2. proc' \in [Procs -> Locals] /\ Held'
  <2>1. CASE Goto(p, "update")
    BY <1>1, <2>1, Goes DEF Inv, Places, Answer
  <2> QED
    BY <1>1, <2>1, Finishes, RefusedGoes DEF Inv, Answer
<1>3. TypeOK'
  BY <1>2 DEF Inv, TypeOK, Answer
<1> QED
  BY <1>1, <1>2, <1>3 DEF Inv

LEMMA UpdateTokenInv ==
  ASSUME Inv, NEW p \in Procs, UpdateToken(p) PROVE Inv'
<1>1. proc[p].tok \in Nat /\ proc[p].tok > 0
  BY DEF Inv, TypeOK, Locals, Held, HasToken, UpdateToken
<1>2. acct' \in [Accts -> Account] /\ Kept /\ Born' /\ PooledIsLive'
  <2>1. issued' \in Nat /\ issued' >= issued
    BY DEF Inv, TypeOK, UpdateToken
  <2> QED
    BY <1>1, <2>1, RenewKeeps DEF UpdateToken
<1>3. proc' \in [Procs -> Locals] /\ Held'
  BY <1>2, Goes DEF Inv, UpdateToken, Places
<1>4. TypeOK'
  BY <1>2, <1>3 DEF Inv, TypeOK, UpdateToken
<1> QED
  BY <1>2, <1>3, <1>4 DEF Inv

LEMMA EnqueueSaveInv ==
  ASSUME Inv, NEW p \in Procs, EnqueueSave(p) PROVE Inv'
<1>1. proc[p].acct \in Accts /\ acct[proc[p].acct].token > 0
  BY DEF Inv, Held, HasAcct, EnqueueSave
<1>2. Kept /\ PooledIsLive'
  BY DEF Inv, TypeOK, EnqueueSave, PooledIsLive, Kept
<1>3. proc' \in [Procs -> Locals] /\ Held'
  BY <1>2, Finishes, RefusedGoes DEF Inv, EnqueueSave
<1>4. Born'
  BY <1>1 DEF Inv, TypeOK, EnqueueSave, Enqueued, Born
<1>5. TypeOK'
  BY <1>1, <1>3 DEF Inv, TypeOK, EnqueueSave, Enqueued
<1> QED
  BY <1>2, <1>3, <1>4, <1>5 DEF Inv

LEMMA DequeueInv ==
  ASSUME Inv, NEW p \in Procs, Dequeue(p) PROVE Inv'
<1> DEFINE a == Head(queue)
           r == [Idle EXCEPT !.op = "save", !.at = "open", !.acct = a, !.tok = acct[a].token]
<1>1. a \in Accts /\ acct[a].token > 0 /\ acct[a].token \in Int /\ Tail(queue) \in Seq(Accts)
  BY DEF Inv, TypeOK, Dequeue, Born, Account
<1>2. Kept /\ Born' /\ PooledIsLive'
  <2>1. \A i \in 1..Len(queue') : queue'[i] = queue[i + 1] /\ i + 1 \in 1..Len(queue)
    BY DEF Inv, TypeOK, Dequeue
  <2>2. Born'
    BY <2>1 DEF Inv, Dequeue, Born
  <2> QED
    BY <2>2 DEF Inv, Dequeue, PooledIsLive, Kept
<1>3. proc' \in [Procs -> Locals] /\ Held'
  <2>1. a \in Nat
    BY <1>1, PoolAssumption DEF Accts
  <2>2. r \in Locals /\ r.at = "open" /\ r.tok = acct[a].token
    BY <1>1, <2>1 DEF Locals, Idle, Kinds, Places, Names
  <2>3. HasAcct(r, acct') /\ HasToken(r)
    BY <1>1, <2>2 DEF HasAcct, HasToken
  <2>4. UNCHANGED proc \/ proc' = [proc EXCEPT ![p] = r]
    BY DEF Dequeue
  <2> HIDE DEF r
  <2> QED
    BY <1>2, <2>2, <2>3, <2>4, Turns, NothingMoves DEF Inv
<1>4. TypeOK'
  BY <1>1, <1>3 DEF Inv, TypeOK, Dequeue
<1> QED
  BY <1>2, <1>3, <1>4 DEF Inv

LEMMA WriteInv ==
  ASSUME Inv, NEW p \in Procs, Open(p) \/ Fill(p) \/ Publish(p) \/ Recheck(p) PROVE Inv'
<1>1. Kept /\ Born' /\ PooledIsLive'
  <2>1. UNCHANGED << pool, acct, queue, issued >>
    BY DEF Open, Fill, Publish, Recheck
  <2> QED
    BY <2>1, RestStays DEF Inv, TypeOK
<1>2. CASE Open(p)
  <2>1. proc' \in [Procs -> Locals] /\ Held'
    BY <1>1, <1>2, Goes DEF Inv, Open, Places
  <2>2. file' \in [Names -> Int] /\ fd' \in [Procs -> Names \cup {"gone"}]
    BY <1>2 DEF Inv, TypeOK, Open, Torn, Names
  <2>3. TypeOK'
    BY <1>2, <2>1, <2>2 DEF Inv, TypeOK, Open
  <2> QED
    BY <1>1, <2>1, <2>3 DEF Inv
<1>3. CASE Fill(p)
  <2>1. proc' \in [Procs -> Locals] /\ Held'
    BY <1>1, <1>3, Goes, Finishes DEF Inv, Fill, Places
  <2>2. proc[p].tok \in Int
    BY DEF Inv, TypeOK, Locals
  <2>3. file' \in [Names -> Int] /\ fd' \in [Procs -> Names \cup {"gone"}]
    BY <1>3, <2>2 DEF Inv, TypeOK, Fill
  <2>4. TypeOK'
    BY <1>3, <2>1, <2>3 DEF Inv, TypeOK, Fill
  <2> QED
    BY <1>1, <2>1, <2>4 DEF Inv
<1>4. CASE Publish(p)
  <2>1. proc' \in [Procs -> Locals] /\ Held'
    BY <1>1, <1>4, Goes, Finishes DEF Inv, Publish, Places
  <2>2. TypeOK'
    BY <1>4, <2>1, FileType DEF Inv, TypeOK, Publish, KeepFiles, Names
  <2> QED
    BY <1>1, <2>1, <2>2 DEF Inv
<1>5. CASE Recheck(p)
  <2>1. proc' \in [Procs -> Locals] /\ Held'
    BY <1>1, <1>5, Finishes DEF Inv, Recheck
  <2>2. TypeOK'
    BY <1>5, <2>1, FileType DEF Inv, TypeOK, Recheck, KeepFiles, Names
  <2> QED
    BY <1>1, <2>1, <2>2 DEF Inv
<1> QED
  BY <1>2, <1>3, <1>4, <1>5

\* A goroutine that was idle begins an operation.
LEMMA Begins ==
  ASSUME TypeOK, Held, Kept, NEW p \in Procs, NEW op \in Kinds, NEW s \in Places,
         NEW a \in Nat, NEW t \in Int, Begin(p, op, s, a, t),
         s \in {"ask", "update", "enqueue"} => a \in Accts /\ acct'[a].token > 0,
         s \in {"ask", "update", "add", "open", "fill"} => t > 0
  PROVE  proc' \in [Procs -> Locals] /\ Held'
<1> DEFINE r == [Idle EXCEPT !.op = op, !.at = s, !.acct = a, !.tok = t]
<1>1. r \in Locals /\ r.at = s /\ r.acct = a /\ r.tok = t
  BY DEF Locals, Idle, Names
<1>2. HasAcct(r, acct') /\ HasToken(r)
  BY <1>1 DEF HasAcct, HasToken
<1>3. proc' = [proc EXCEPT ![p] = r]
  BY DEF Begin
<1> HIDE DEF r
<1> QED
  BY <1>1, <1>2, <1>3, Turns

LEMMA PoolIsNat == TypeOK => pool \in Nat /\ issued + 1 \in Nat /\ None \in Nat /\ Torn \in Int
BY PoolAssumption DEF TypeOK, Accts, None, Torn

LEMMA DecideInv ==
  ASSUME Inv, NEW p \in Procs, NEW op \in Ops, Decide(p, op) PROVE Inv'
<1>1. Kept /\ Born' /\ PooledIsLive'
  BY RestStays DEF Decide, Inv, TypeOK
<1>2. proc' \in [Procs -> Locals] /\ Held'
  <2>1. "unlist" \in Places /\ op \in Kinds
    BY DEF Places, Kinds
  <2> QED
    BY <1>1, <2>1, Begins, PoolIsNat DEF Inv, Decide
<1>3. TypeOK'
  BY <1>2 DEF Inv, TypeOK, Decide
<1> QED
  BY <1>1, <1>2, <1>3 DEF Inv

LEMMA RefreshInv ==
  ASSUME Inv, NEW p \in Procs, Refresh(p) PROVE Inv'
<1>1. Kept /\ Born' /\ PooledIsLive'
  BY RestStays DEF Refresh, Inv, TypeOK
<1>2. proc' \in [Procs -> Locals] /\ Held'
  <2>1. "ask" \in Places /\ "refresh" \in Kinds
    BY DEF Places, Kinds, Ops
  <2>2. pool \in Accts /\ acct'[pool].token > 0 /\ issued + 1 > 0 /\ issued + 1 \in Int
    BY DEF Inv, TypeOK, Born, Refresh
  <2> QED
    BY <1>1, <2>1, <2>2, Begins, PoolIsNat DEF Inv, Refresh
<1>3. TypeOK'
  BY <1>2 DEF Inv, TypeOK, Refresh
<1> QED
  BY <1>1, <1>2, <1>3 DEF Inv

LEMMA ScanInv ==
  ASSUME Inv, NEW p \in Procs, Scan(p) PROVE Inv'
<1>1. Kept /\ Born' /\ PooledIsLive'
  BY RestStays DEF Scan, Inv, TypeOK
<1>2. proc' \in [Procs -> Locals] /\ Held'
  <2>1. "load" \in Places /\ "scan" \in Kinds
    BY DEF Places, Kinds, Ops
  <2> QED
    BY <1>1, <2>1, Begins, PoolIsNat DEF Inv, Scan
<1>3. TypeOK'
  BY <1>2 DEF Inv, TypeOK, Scan
<1> QED
  BY <1>1, <1>2, <1>3 DEF Inv

LEMMA RecoverInv ==
  ASSUME Inv, NEW p \in Procs, Recover(p) PROVE Inv'
<1>1. Kept /\ Born' /\ PooledIsLive'
  BY RestStays DEF Recover, Inv, TypeOK
<1>2. PICK n \in Suffixes :
        proc' = [proc EXCEPT ![p] = [Idle EXCEPT !.op = "recover", !.at = "restore", !.name = n]]
  BY DEF Recover
<1>3. proc' \in [Procs -> Locals] /\ Held'
  <2> DEFINE r == [Idle EXCEPT !.op = "recover", !.at = "restore", !.name = n]
  <2>1. n \in Names /\ "recover" \in Kinds /\ "restore" \in Places
    BY DEF Names, Kinds, Ops, Places
  <2>2. r \in Locals /\ r.at = "restore"
    BY <2>1, IdleType DEF Locals, Idle
  <2>3. HasAcct(r, acct') /\ HasToken(r)
    BY <2>2 DEF HasAcct, HasToken
  <2>4. proc' = [proc EXCEPT ![p] = r]
    BY <1>2
  <2> HIDE DEF r
  <2> QED
    BY <1>1, <2>2, <2>3, <2>4, Turns DEF Inv
<1>4. TypeOK'
  BY <1>3 DEF Inv, TypeOK, Recover
<1> QED
  BY <1>1, <1>3, <1>4 DEF Inv

LEMMA RestoreInv ==
  ASSUME Inv, NEW p \in Procs, Restore(p) \/ PutBack(p) PROVE Inv'
<1>1. Kept /\ Born' /\ PooledIsLive'
  BY RestStays DEF Restore, PutBack, Inv, TypeOK
<1>2. proc' \in [Procs -> Locals] /\ Held'
  BY <1>1, Goes, Finishes DEF Inv, Restore, PutBack, Places
<1>3. proc[p].name \in Names /\ "json" \in Names
  BY DEF Inv, TypeOK, Locals, Names
<1>4. TypeOK'
  BY <1>2, <1>3, FileType DEF Inv, TypeOK, Restore, PutBack, KeepFiles
<1> QED
  BY <1>1, <1>2, <1>4 DEF Inv

LEMMA LoadInv ==
  ASSUME Inv, NEW p \in Procs, Load(p) PROVE Inv'
<1>1. Kept /\ Born' /\ PooledIsLive'
  BY RestStays DEF Load, Inv, TypeOK
<1>2. proc' \in [Procs -> Locals] /\ Held'
  <2>1. CASE /\ file["json"] > Torn
             /\ proc' = [proc EXCEPT ![p].at = "add", ![p].tok = file["json"]]
    <3> DEFINE r == [proc[p] EXCEPT !.at = "add", !.tok = file["json"]]
    <3>1. file["json"] \in Int
      BY DEF Inv, TypeOK, Names
    <3>2. r \in Locals /\ r.at = "add" /\ r.tok > 0
      BY <2>1, <3>1 DEF Inv, TypeOK, Locals, Places, Torn
    <3>3. HasAcct(r, acct') /\ HasToken(r)
      BY <3>2 DEF HasAcct, HasToken
    <3>4. proc' = [proc EXCEPT ![p] = r]
      BY <2>1
    <3> HIDE DEF r
    <3> QED
      BY <1>1, <3>2, <3>3, <3>4, Turns DEF Inv
  <2> QED
    BY <1>1, <2>1, Finishes DEF Inv, Load
<1>3. TypeOK'
  BY <1>2, FileType DEF Inv, TypeOK, Load, KeepFiles, Names
<1> QED
  BY <1>1, <1>2, <1>3 DEF Inv

\* A new account is live, and no other account changes.
LEMMA Adds ==
  ASSUME Inv, NEW t \in Nat, t > 0, Add(t), UNCHANGED queue, issued' \in Nat, issued' >= issued
  PROVE  /\ acct' \in [Accts -> Account] /\ pool' \in Accts /\ acct'[pool'].token > 0
         /\ Kept /\ Born' /\ PooledIsLive'
<1>1. pool' \in Accts
  BY DEF Add, Free
<1>2. [token |-> t, deleted |-> FALSE] \in Account
  BY DEF Account
<1>3. acct' \in [Accts -> Account] /\ acct'[pool'] = [token |-> t, deleted |-> FALSE]
  BY <1>1, <1>2 DEF Inv, TypeOK, Add
<1>4. \A b \in Accts : b # pool' => acct'[b] = acct[b]
  BY DEF Inv, TypeOK, Add
<1>5. Kept
  BY <1>3, <1>4 DEF Kept
<1>6. \A i \in 1..Len(queue) : queue[i] \in Accts
  BY DEF Inv, TypeOK
<1> QED
  BY <1>1, <1>3, <1>5, <1>6 DEF Inv, TypeOK, Kept, Born, PooledIsLive

LEMMA AddLoadedInv ==
  ASSUME Inv, NEW p \in Procs, AddLoaded(p) PROVE Inv'
<1>1. proc[p].tok \in Nat /\ proc[p].tok > 0
  BY DEF Inv, TypeOK, Locals, Held, HasToken, AddLoaded
<1>2. issued' \in Nat /\ issued' >= issued
  BY DEF Inv, TypeOK, AddLoaded
<1>3. CASE pool = None
  <2>1. /\ acct' \in [Accts -> Account] /\ pool' \in Accts /\ acct'[pool'].token > 0
        /\ Kept /\ Born' /\ PooledIsLive'
    BY <1>1, <1>2, <1>3, Adds DEF AddLoaded
  <2>2. proc' \in [Procs -> Locals] /\ Held'
    <3>1. CASE Done(p)
      BY <2>1, <3>1, Finishes DEF Inv
    <3>2. CASE proc' = [proc EXCEPT ![p].at = "ask", ![p].acct = pool', ![p].tok = issued + 1]
      <4> DEFINE r == [proc[p] EXCEPT !.at = "ask", !.acct = pool', !.tok = issued + 1]
      <4>1. pool' \in Nat /\ issued + 1 \in Int /\ issued + 1 > 0
        BY <2>1, PoolAssumption DEF Accts, Inv, TypeOK
      <4>2. r \in Locals /\ r.at = "ask" /\ r.acct = pool' /\ r.tok = issued + 1
        BY <4>1 DEF Inv, TypeOK, Locals, Places
      <4>3. HasAcct(r, acct') /\ HasToken(r)
        BY <2>1, <4>1, <4>2 DEF HasAcct, HasToken
      <4>4. proc' = [proc EXCEPT ![p] = r]
        BY <3>2
      <4> HIDE DEF r
      <4> QED
        BY <2>1, <4>2, <4>3, <4>4, Turns DEF Inv
    <3> QED
      BY <1>3, <3>1, <3>2 DEF AddLoaded
  <2>3. TypeOK'
    BY <1>2, <2>1, <2>2 DEF Inv, TypeOK, AddLoaded
  <2> QED
    BY <2>1, <2>2, <2>3 DEF Inv
<1>4. CASE pool # None
  <2>1. Kept /\ Born' /\ PooledIsLive'
    BY <1>2, <1>4, RestStays DEF AddLoaded
  <2>2. proc' \in [Procs -> Locals] /\ Held'
    BY <1>4, <2>1, Goes, Finishes DEF Inv, AddLoaded, Places
  <2>3. TypeOK'
    BY <1>4, <2>2 DEF Inv, TypeOK, AddLoaded
  <2> QED
    BY <2>1, <2>2, <2>3 DEF Inv
<1> QED
  BY <1>3, <1>4

LEMMA UploadInv ==
  ASSUME Inv, NEW p \in Procs, Upload(p) PROVE Inv'
<1>1. issued' = issued + 1 /\ issued' \in Nat /\ issued' > 0 /\ issued' >= issued
  BY DEF Inv, TypeOK, Upload
<1>2. /\ acct' \in [Accts -> Account] /\ pool' \in Accts /\ acct'[pool'].token > 0
      /\ Kept /\ Born' /\ PooledIsLive'
  <2>1. CASE pool = None
    BY <1>1, <2>1, Adds DEF Upload
  <2>2. CASE pool # None
    <3>1. acct' \in [Accts -> Account] /\ Kept /\ Born' /\ PooledIsLive'
      BY <1>1, <2>2, RenewKeeps DEF Upload
    <3>2. pool' = pool /\ pool \in Accts /\ acct[pool].token > 0
      BY <2>2 DEF Upload, Inv, TypeOK, Born
    <3> QED
      BY <3>1, <3>2 DEF Kept
  <2> QED
    BY <2>1, <2>2
<1>3. proc' \in [Procs -> Locals] /\ Held'
  <2>1. pool' \in Nat /\ Torn \in Int
    BY <1>2, PoolAssumption DEF Accts, Torn
  <2>2. "enqueue" \in Places /\ "upload" \in Kinds
    BY DEF Places, Kinds, Ops
  <2>3. Begin(p, "upload", "enqueue", pool', Torn)
    BY DEF Upload
  <2> QED
    BY <1>2, <2>1, <2>2, <2>3, Begins DEF Inv
<1>4. TypeOK'
  BY <1>1, <1>2, <1>3 DEF Inv, TypeOK, Upload
<1> QED
  BY <1>2, <1>3, <1>4 DEF Inv

LEMMA DropInv ==
  ASSUME Inv, Drop PROVE Inv'
<1>1. Kept /\ Born' /\ PooledIsLive'
  BY RestStays DEF Drop, Inv, TypeOK
<1>2. proc' \in [Procs -> Locals] /\ Held'
  BY <1>1, NothingMoves DEF Inv, Drop
<1>3. TypeOK'
  BY <1>2 DEF Inv, TypeOK, Drop, Names
<1> QED
  BY <1>1, <1>2, <1>3 DEF Inv

LEMMA RestartInv ==
  ASSUME Inv, Restart PROVE Inv'
<1>1. file["json"] \in Int
  BY DEF Inv, TypeOK, Names
<1>2. /\ acct' \in [Accts -> Account] /\ pool' \in Accts \cup {None}
      /\ pool' # None => acct'[pool'].token > 0 /\ ~acct'[pool'].deleted
  BY <1>1, LoadedType DEF Restart
<1>3. TypeOK'
  BY <1>2, IdleType DEF Inv, TypeOK, Restart
<1>4. Held' /\ Born' /\ PooledIsLive'
  BY <1>2 DEF Inv, Restart, Held, HasAcct, HasToken, Born, PooledIsLive, Idle
<1> QED
  BY <1>3, <1>4 DEF Inv

LEMMA StutterInv ==
  ASSUME Inv, UNCHANGED vars PROVE Inv'
BY DEF Inv, vars, TypeOK, Held, HasAcct, HasToken, Born, PooledIsLive

LEMMA StepInv == Inv /\ [Next]_vars => Inv'
<1> SUFFICES ASSUME Inv, [Next]_vars PROVE Inv'
  OBVIOUS
<1>1. ASSUME NEW p \in Procs, Proceed(p) PROVE Inv'
  BY <1>1, UnlistInv, EraseInv, ParkInv, AnswerInv, UpdateTokenInv, EnqueueSaveInv, WriteInv,
     RestoreInv, LoadInv, AddLoadedInv DEF Proceed
<1> QED
  BY <1>1, DecideInv, RefreshInv, ScanInv, RecoverInv, UploadInv, DequeueInv, DropInv, RestartInv,
     StutterInv DEF Next, IdleTick

THEOREM InvHolds == Spec => []Inv
BY InitInv, StepInv, PTL DEF Spec

\* The pool, the accounts, the files and the goroutines keep their types.
THEOREM TypeCorrect == Spec => []TypeOK
<1>1. Inv => TypeOK
  BY DEF Inv
<1> QED
  BY InvHolds, <1>1, PTL

\* manager.go:1486: whatever stale pointers are removed, saved or refreshed, the
\* account in the pool is never marked deleted.
THEOREM PooledStaysLive == Spec => []PooledIsLive
<1>1. Inv => PooledIsLive
  BY DEF Inv
<1> QED
  BY InvHolds, <1>1, PTL

-----------------------------------------------------------------------------
(***************************************************************************)
(* A single writer.  A half-written file is called "tmp" and is the one a  *)
(* goroutine at "fill" has open; what is to be published is whole.         *)
(***************************************************************************)
Writing == {"open", "fill", "publish", "recheck"}

\* Who writes is saving; who restores knows a name of a disabled credential.
Duty(r) ==
  /\ r.at \in Writing => r.op = "save"
  /\ r.at \in {"restore", "back"} => r.op = "recover"
  /\ r.op = "recover" => r.name \in Suffixes
Duties == \A p \in Procs : Duty(proc[p])

Sole == \A p \in Procs, q \in Procs : proc[p].op = "save" /\ proc[q].op = "save" => p = q

Descriptors == \A p \in Procs : fd[p] = IF proc[p].at = "fill" THEN "tmp" ELSE "gone"

Ready == \A p \in Procs : proc[p].at = "publish" => file["tmp"] # Torn

WholeInv == Duties /\ (world.savers <= 1 => Sole /\ Descriptors /\ Ready /\ CredentialWhole)

LEMMA InitWhole == Init => WholeInv
<1> SUFFICES ASSUME Init PROVE WholeInv
  OBVIOUS
<1>1. Duties /\ Sole /\ Descriptors /\ Ready
  BY DEF Init, Duties, Duty, Writing, Sole, Descriptors, Ready, Idle
<1>2. CredentialWhole
  BY DEF Init, CredentialWhole, Torn, Absent, Names
<1> QED
  BY <1>1, <1>2 DEF WholeInv

\* p does not save after the step unless it did before: at a place where nothing is
\* written or published, or gone.
Aside(p) ==
  /\ \A q \in Procs \ {p} : proc'[q] = proc[q]
  /\ Duty(proc'[p])
  /\ proc[p].at \notin {"fill"}
  /\ proc'[p].op = "save" => proc[p].op = "save"
  /\ proc'[p].at \notin {"fill", "publish"}

LEMMA AsideStep ==
  ASSUME Inv, WholeInv, NEW p \in Procs, Aside(p), UNCHANGED << file, fd, world >>
  PROVE  WholeInv'
<1>1. Duties'
  BY DEF WholeInv, Duties, Aside
<1>2. ASSUME world.savers <= 1 PROVE Sole' /\ Descriptors' /\ Ready' /\ CredentialWhole'
  BY <1>2 DEF WholeInv, Sole, Descriptors, Ready, CredentialWhole, Aside
<1> QED
  BY <1>1, <1>2 DEF WholeInv

\* The same, when a file that is not the temporary one is renamed or removed.
LEMMA AsideFiles ==
  ASSUME Inv, WholeInv, NEW p \in Procs, Aside(p), UNCHANGED world,
         NEW n \in Names \ {"tmp"}, NEW m \in Names \ {"tmp"}, Rename(n, m) \/ Remove(n)
  PROVE  WholeInv'
<1>1. Duties'
  BY DEF WholeInv, Duties, Aside
<1>2. ASSUME world.savers <= 1 PROVE Sole' /\ Descriptors' /\ Ready' /\ CredentialWhole'
  <2>1. Sole /\ Descriptors /\ Ready /\ CredentialWhole
    BY <1>2 DEF WholeInv
  <2>2. \A q \in Procs : fd[q] \in {"gone", "tmp"}
    BY <2>1 DEF Descriptors
  <2>3. \A q \in Procs : fd'[q] = fd[q]
    <3>1. "gone" \notin Names
      BY PoolAssumption DEF Names
    <3> QED
      BY <2>2, <3>1 DEF Rename, Remove
  <2>4. "tmp" \in Names /\ file'["tmp"] = file["tmp"]
    BY DEF Names, Inv, TypeOK, Rename, Remove
  <2>5. CredentialWhole'
    BY <2>1 DEF CredentialWhole, Inv, TypeOK, Rename, Remove, Torn, Absent
  <2> QED
    BY <2>1, <2>3, <2>4, <2>5 DEF Sole, Descriptors, Ready, Aside
<1> QED
  BY <1>1, <1>2 DEF WholeInv

LEMMA SuffixNames == \A n \in Suffixes \cup {"json"} : n \in Names \ {"tmp"}
BY PoolAssumption DEF Names

LEMMA IdleDuty == Duty(Idle)
BY DEF Duty, Idle, Writing

\* How a goroutine steps aside.
LEMMA DoneAside ==
  ASSUME Inv, NEW p \in Procs, proc[p].at # "fill", Done(p) PROVE Aside(p)
BY IdleDuty DEF Inv, TypeOK, Done, Aside, Idle

LEMMA GotoAside ==
  ASSUME Inv, WholeInv, NEW p \in Procs, proc[p].at # "fill", NEW s, Goto(p, s),
         s \notin Writing, s \in {"restore", "back"} => proc[p].op = "recover"
  PROVE  Aside(p)
<1>1. Duty(proc[p]) /\ proc[p] \in Locals
  BY DEF WholeInv, Duties, Inv, TypeOK
<1>2. /\ proc'[p] = [proc[p] EXCEPT !.at = s]
      /\ \A q \in Procs \ {p} : proc'[q] = proc[q]
  BY DEF Inv, TypeOK, Goto
<1>3. Duty(proc'[p])
  BY <1>1, <1>2 DEF Duty, Locals
<1> QED
  BY <1>1, <1>2, <1>3 DEF Aside, Locals, Writing

LEMMA BeginAside ==
  ASSUME Inv, NEW p \in Procs, NEW op \in Ops, NEW s, NEW a, NEW t, Begin(p, op, s, a, t),
         s \notin Writing, s \notin {"restore", "back"}, op # "recover"
  PROVE  Aside(p)
<1>1. proc[p].at # "fill"
  BY DEF Begin, Idle
<1>2. op # "save"
  BY DEF Ops
<1> QED
  BY <1>1, <1>2 DEF Inv, TypeOK, Begin, Aside, Duty, Idle, Writing

LEMMA RefusedAside ==
  ASSUME Inv, WholeInv, NEW p \in Procs, proc[p].at # "fill", Refused(p)
  PROVE  Aside(p)
<1>1. CASE Goto(p, "unlist")
  BY <1>1, GotoAside DEF Writing
<1>2. CASE proc' = [proc EXCEPT ![p].op = "disable", ![p].at = "unlist"]
  BY <1>2 DEF Inv, TypeOK, Locals, Aside, Duty, Writing
<1> QED
  BY <1>1, <1>2 DEF Refused

LEMMA AsideSteps ==
  ASSUME Inv, WholeInv, NEW p \in Procs,
         \/ Unlist(p) \/ Answer(p) \/ UpdateToken(p) \/ EnqueueSave(p)
         \/ Refresh(p) \/ Scan(p) \/ Upload(p) \/ \E op \in Ops : Decide(p, op)
  PROVE  WholeInv'
<1>1. UNCHANGED << file, fd, world >>
  BY DEF Unlist, Answer, UpdateToken, EnqueueSave, Refresh, Scan, Upload, Decide
<1>2. Aside(p)
  <2>1. CASE Unlist(p)
    BY <2>1, DoneAside, GotoAside DEF Unlist, Writing
  <2>2. CASE Answer(p)
    BY <2>2, DoneAside, GotoAside, RefusedAside DEF Answer, Writing
  <2>3. CASE UpdateToken(p)
    BY <2>3, GotoAside DEF UpdateToken, Writing
  <2>4. CASE EnqueueSave(p)
    BY <2>4, DoneAside, RefusedAside DEF EnqueueSave
  <2>5. CASE Refresh(p)
    BY <2>5, BeginAside DEF Refresh, Writing, Ops
  <2>6. CASE Scan(p)
    BY <2>6, BeginAside DEF Scan, Writing, Ops
  <2>7. CASE Upload(p)
    BY <2>7, BeginAside DEF Upload, Writing, Ops
  <2>8. CASE \E op \in Ops : Decide(p, op)
    BY <2>8, BeginAside DEF Decide, Writing
  <2> QED
    BY <2>1, <2>2, <2>3, <2>4, <2>5, <2>6, <2>7, <2>8
<1> QED
  BY <1>1, <1>2, AsideStep

LEMMA RecoverWhole ==
  ASSUME Inv, WholeInv, NEW p \in Procs, Recover(p) PROVE WholeInv'
<1>1. PICK n \in Suffixes : /\ proc[p] = Idle
        /\ proc' = [proc EXCEPT ![p] = [Idle EXCEPT !.op = "recover", !.at = "restore", !.name = n]]
  BY DEF Recover
<1>2. Aside(p)
  BY <1>1 DEF Inv, TypeOK, Aside, Duty, Idle, Writing
<1> QED
  BY <1>2, AsideStep DEF Recover

LEMMA FilesWhole ==
  ASSUME Inv, WholeInv, NEW p \in Procs,
         \/ Erase(p) \/ Park(p) \/ Restore(p) \/ PutBack(p) \/ Recheck(p)
  PROVE  WholeInv'
<1>1. "json" \in Names \ {"tmp"} /\ \A n \in Suffixes : n \in Names \ {"tmp"}
  BY SuffixNames
<1>2. Duty(proc[p])
  BY DEF WholeInv, Duties
<1>3. CASE Erase(p)
  BY <1>1, <1>3, DoneAside, AsideFiles DEF Erase
<1>4. CASE Park(p)
  BY <1>1, <1>4, DoneAside, AsideFiles DEF Park
<1>5. CASE Restore(p)
  <2>1. proc[p].name \in Suffixes
    BY <1>2, <1>5 DEF Duty, Restore
  <2>2. Aside(p)
    BY <1>5, GotoAside DEF Restore, Writing
  <2> QED
    BY <1>1, <1>5, <2>1, <2>2, AsideFiles DEF Restore
<1>6. CASE PutBack(p)
  <2>1. proc[p].name \in Suffixes
    BY <1>2, <1>6 DEF Duty, PutBack
  <2>2. Aside(p)
    BY <1>6, DoneAside DEF PutBack
  <2> QED
    BY <1>1, <1>6, <2>1, <2>2, AsideFiles, AsideStep DEF PutBack, KeepFiles
<1>7. CASE Recheck(p)
  <2>1. Aside(p)
    BY <1>7, DoneAside DEF Recheck
  <2> QED
    BY <1>1, <1>7, <2>1, AsideFiles, AsideStep DEF Recheck, KeepFiles
<1> QED
  BY <1>3, <1>4, <1>5, <1>6, <1>7

LEMMA LoadWhole ==
  ASSUME Inv, WholeInv, NEW p \in Procs, Load(p) \/ AddLoaded(p) PROVE WholeInv'
<1>1. "json" \in Names \ {"tmp"}
  BY SuffixNames
<1>2. Duty(proc[p]) /\ proc[p] \in Locals
  BY DEF WholeInv, Duties, Inv, TypeOK
<1>3. CASE Load(p)
  <2>1. Aside(p)
    <3>1. CASE Done(p)
      BY <1>3, <3>1, DoneAside DEF Load
    <3>2. CASE proc' = [proc EXCEPT ![p].at = "add", ![p].tok = file["json"]]
      BY <1>2, <1>3, <3>2 DEF Load, Inv, TypeOK, Locals, Aside, Duty, Writing
    <3> QED
      BY <1>3, <3>1, <3>2 DEF Load
  <2> QED
    BY <1>1, <1>3, <2>1, AsideFiles, AsideStep DEF Load, KeepFiles
<1>4. CASE AddLoaded(p)
  <2>1. Aside(p)
    <3>1. CASE Done(p)
      BY <1>4, <3>1, DoneAside DEF AddLoaded
    <3>2. CASE Goto(p, "back") /\ proc[p].op = "recover"
      BY <1>4, <3>2, GotoAside DEF AddLoaded, Writing
    <3>3. CASE proc' = [proc EXCEPT ![p].at = "ask", ![p].acct = pool', ![p].tok = issued + 1]
      BY <1>2, <1>4, <3>3 DEF AddLoaded, Inv, TypeOK, Locals, Aside, Duty, Writing
    <3> QED
      BY <1>4, <3>1, <3>2, <3>3 DEF AddLoaded
  <2> QED
    BY <1>4, <2>1, AsideStep DEF AddLoaded
<1> QED
  BY <1>3, <1>4

LEMMA DequeueWhole ==
  ASSUME Inv, WholeInv, NEW p \in Procs, Dequeue(p) PROVE WholeInv'
<1> DEFINE a == Head(queue)
           r == [Idle EXCEPT !.op = "save", !.at = "open", !.acct = a, !.tok = acct[a].token]
<1>1. UNCHANGED << file, fd, world >>
  BY DEF Dequeue
<1>2. CASE UNCHANGED proc
  BY <1>1, <1>2 DEF WholeInv, Duties, Sole, Descriptors, Ready, CredentialWhole
<1>3. CASE proc' = [proc EXCEPT ![p] = r]
  <2>1. /\ r.op = "save" /\ r.at = "open"
        /\ proc'[p] = r /\ \A q \in Procs \ {p} : proc'[q] = proc[q]
    BY <1>3 DEF Inv, TypeOK, Idle
  <2>2. Duties'
    BY <2>1 DEF WholeInv, Duties, Duty, Writing
  <2>3. ASSUME world.savers <= 1 PROVE Sole' /\ Descriptors' /\ Ready' /\ CredentialWhole'
    <3>1. Sole /\ Descriptors /\ Ready /\ CredentialWhole
      BY <2>3 DEF WholeInv
    <3>2. Running("save") = {}
      <4>1. IsFiniteSet(Running("save"))
        BY PoolAssumption, FS_Subset DEF Running
      <4>2. Cardinality(Running("save")) \in Nat
        BY <4>1, FS_CardinalityType
      <4>3. world.savers \in Nat
        BY PoolAssumption DEF Inv, TypeOK
      <4>4. Cardinality(Running("save")) = 0
        BY <2>3, <4>2, <4>3 DEF Dequeue
      <4> QED
        BY <4>1, <4>4, FS_EmptySet
    <3>3. Sole'
      BY <2>1, <3>2 DEF Sole, Running
    <3>4. fd[p] = "gone"
      BY <3>1 DEF Dequeue, Descriptors, Idle
    <3>5. Descriptors' /\ Ready'
      BY <1>1, <2>1, <3>1, <3>4 DEF Descriptors, Ready
    <3>6. CredentialWhole'
      BY <1>1, <3>1 DEF CredentialWhole
    <3> QED
      BY <3>3, <3>5, <3>6
  <2> QED
    BY <1>1, <2>2, <2>3 DEF WholeInv
<1> QED
  BY <1>2, <1>3 DEF Dequeue

\* The steps of a save: the single writer's.
LEMMA SaveWhole ==
  ASSUME Inv, WholeInv, NEW p \in Procs, Open(p) \/ Fill(p) \/ Publish(p) PROVE WholeInv'
<1>1. proc[p].op = "save" /\ proc[p] \in Locals /\ UNCHANGED world
  BY DEF WholeInv, Duties, Duty, Writing, Open, Fill, Publish, Inv, TypeOK
<1>2. /\ \A q \in Procs \ {p} : proc'[q] = proc[q]
      /\ \/ proc'[p] = Idle
         \/ \E s \in Writing : proc'[p] = [proc[p] EXCEPT !.at = s]
  BY DEF Inv, TypeOK, Open, Fill, Publish, Goto, Done, Writing
<1>3. proc'[p].op \in {"save", "none"} /\ Duty(proc'[p])
  <2>1. CASE proc'[p] = Idle
    BY <2>1, IdleDuty DEF Idle
  <2>2. CASE \E s \in Writing : proc'[p] = [proc[p] EXCEPT !.at = s]
    BY <1>1, <2>2 DEF Duty, Writing, Locals
  <2> QED
    BY <1>2, <2>1, <2>2
<1>4. Duties'
  BY <1>2, <1>3 DEF WholeInv, Duties
<1>5. ASSUME world.savers <= 1 PROVE Sole' /\ Descriptors' /\ Ready' /\ CredentialWhole'
  <2>1. Sole /\ Descriptors /\ Ready /\ CredentialWhole
    BY <1>5 DEF WholeInv
  <2>2. Sole'
    BY <1>1, <1>2, <2>1 DEF Sole
  <2>3. \A q \in Procs \ {p} : fd[q] = "gone" /\ proc[q].at \notin Writing /\ proc'[q] = proc[q]
    BY <1>1, <1>2, <2>1 DEF Sole, Descriptors, WholeInv, Duties, Duty, Writing
  <2>4. "tmp" \in Names /\ "json" \in Names
    BY DEF Names
  <2>5. CASE Open(p)
    <3>1. fd'[p] = "tmp" /\ proc'[p].at = "fill" /\ \A q \in Procs \ {p} : fd'[q] = fd[q]
      BY <2>5 DEF Open, Goto, Inv, TypeOK, Locals
    <3>2. \A n \in Names \ {"tmp"} : file'[n] = file[n]
      BY <2>5 DEF Open, Inv, TypeOK
    <3>3. Descriptors' /\ Ready'
      BY <2>3, <3>1 DEF Descriptors, Ready, Writing
    <3> QED
      BY <2>1, <2>2, <3>2, <3>3 DEF CredentialWhole
  <2>6. CASE Fill(p)
    <3>1. fd'[p] = "gone" /\ \A q \in Procs \ {p} : fd'[q] = fd[q]
      BY <2>6 DEF Fill, Inv, TypeOK
    <3>2. fd[p] = "tmp" /\ proc[p].tok > 0
      BY <2>1, <2>6 DEF Descriptors, Inv, Held, HasToken, Fill
    <3>3. \A n \in Names \ {"tmp"} : file'[n] = file[n]
      BY <2>6, <3>2 DEF Fill, Inv, TypeOK
    <3>4. Descriptors'
      <4>1. proc'[p].at # "fill"
        BY <2>6 DEF Fill, Goto, Done, Idle, Inv, TypeOK, Locals
      <4> QED
        BY <2>3, <3>1, <4>1 DEF Descriptors, Writing
    <3>5. proc'[p].at = "publish" => file'["tmp"] # Torn
      BY <2>4, <2>6, <3>2 DEF Fill, Inv, TypeOK, Torn, Done, Idle
    <3>6. Ready'
      BY <2>3, <3>5 DEF Ready, Writing
    <3> QED
      BY <2>1, <2>2, <3>3, <3>4, <3>6 DEF CredentialWhole
  <2>7. CASE Publish(p)
    <3>1. proc'[p].at \notin {"publish", "fill"} /\ fd[p] = "gone"
      BY <2>1, <2>7 DEF Publish, Goto, Done, Idle, Descriptors, Inv, TypeOK, Locals
    <3>2. \A q \in Procs : fd'[q] = "gone"
      BY <2>3, <2>7, <3>1 DEF Publish, Rename, KeepFiles
    <3>3. CredentialWhole'
      BY <2>1, <2>4, <2>7 DEF Publish, Rename, KeepFiles, CredentialWhole, Ready, Inv, TypeOK, Torn, Absent
    <3> QED
      BY <2>2, <2>3, <3>1, <3>2, <3>3 DEF Descriptors, Ready, Writing
  <2> QED
    BY <2>5, <2>6, <2>7
<1> QED
  BY <1>1, <1>4, <1>5 DEF WholeInv

LEMMA StepWhole == Inv /\ WholeInv /\ [Next]_vars => WholeInv'
<1> SUFFICES ASSUME Inv, WholeInv, [Next]_vars PROVE WholeInv'
  OBVIOUS
<1>1. CASE Drop
  <2>1. "json" \in Names \ {"tmp"} /\ issued + 1 # Torn
    BY SuffixNames DEF Inv, TypeOK, Torn
  <2> QED
    BY <1>1, <2>1 DEF Drop, Inv, TypeOK, WholeInv, Duties, Sole, Descriptors, Ready, CredentialWhole
<1>2. CASE Restart
  <2>1. proc' = [q \in Procs |-> Idle] /\ fd' = [q \in Procs |-> "gone"] /\ UNCHANGED << file, world >>
    BY <1>2 DEF Restart
  <2>2. Duties' /\ Sole' /\ Descriptors' /\ Ready'
    BY <2>1, IdleDuty DEF Duties, Sole, Descriptors, Ready, Idle
  <2> QED
    BY <2>1, <2>2 DEF WholeInv, CredentialWhole
<1>3. CASE UNCHANGED vars
  BY <1>3 DEF vars, WholeInv, Duties, Sole, Descriptors, Ready, CredentialWhole
<1> QED
  BY <1>1, <1>2, <1>3, AsideSteps, RecoverWhole, FilesWhole, LoadWhole, DequeueWhole, SaveWhole
     DEF Next, Proceed, IdleTick

\* manager.go:3184: while one goroutine saves at a time, no credential in the
\* directory or put aside is ever half-written, whatever write fails and whenever
\* the process ends.
THEOREM SingleWriterKeepsWhole == Spec => []SingleWriterWhole
<1>1. WholeInv => SingleWriterWhole
  BY DEF WholeInv, SingleWriterWhole
<1> QED
  BY InvHolds, InitWhole, StepWhole, <1>1, PTL DEF Spec

-----------------------------------------------------------------------------
(***************************************************************************)
(* Removed for good.  Where nothing adds accounts at the path there is one *)
(* account, 1, until the process ends.  As long as it is listed nobody is  *)
(* about to take its file; once it is not, it is marked, and whoever       *)
(* unlisted it or published its file since is still to take the file away. *)
(***************************************************************************)
Removing == world.ops \subseteq Removers /\ (world.faults => world.savers <= 1)

Staff(r) ==
  /\ r.op \in Removers \cup {"save", "none"}
  /\ r.at \notin {"load", "add", "back", "restore"}
  /\ r = Idle \/ r.acct = 1

\* Whose next step takes the file of a marked account.
Sweeps(r) == r.at \in {"erase", "park", "recheck"}

\* A descriptor refers to a file that is there.
Refers ==
  /\ \A n \in Names : file[n] >= Absent
  /\ \A p \in Procs : fd[p] # "gone" => file[fd[p]] # Absent

Single ==
  /\ pool \in {None, 1}
  /\ \A p \in Procs : Staff(proc[p])
  /\ \A i \in 1..Len(queue) : queue[i] = 1

Listed == file["json"] # Absent /\ \A p \in Procs : proc[p].at \notin {"erase", "park"}

\* The process started and found no credential.
Blank == file["json"] = Absent /\ queue = << >> /\ \A p \in Procs : proc[p] = Idle

Swept == acct[1].deleted /\ (file["json"] # Absent => \E p \in Procs : Sweeps(proc[p]))

GoodInv ==
  /\ Refers
  /\ Single
  /\ pool = 1 => Listed
  /\ pool = None => Swept \/ Blank

LEMMA One == 1 \in Accts /\ None # 1 /\ Absent \in Int /\ "json" \in Names /\ "tmp" \in Names
             /\ "json" # "tmp" /\ "gone" \notin Names
BY PoolAssumption DEF Accts, None, Absent, Names

LEMMA FilesStay ==
  ASSUME Refers, UNCHANGED << file, fd >>
  PROVE  Refers'
BY DEF Refers

LEMMA FilesMove ==
  ASSUME TypeOK, Refers, NEW n \in Names, NEW m \in Names, n # m, Rename(n, m) \/ Remove(n)
  PROVE  Refers'
<1>1. \A q \in Procs : fd[q] \in Names \cup {"gone"} /\ (fd[q] # "gone" => file[fd[q]] # Absent)
  BY DEF TypeOK, Refers
<1>2. CASE Rename(n, m)
  <2>1. \A x \in Names : file'[x] = CASE x = n -> Absent [] x = m -> file[n] [] OTHER -> file[x]
    BY <1>2 DEF TypeOK, Rename
  <2>2. \A x \in Names : file'[x] >= Absent
    BY <2>1, One DEF Refers
  <2>3. ASSUME NEW q \in Procs, fd'[q] # "gone" PROVE file'[fd'[q]] # Absent
    <3>1. fd'[q] = CASE fd[q] = n -> m [] fd[q] = m -> "gone" [] OTHER -> fd[q]
      BY <1>2 DEF Rename
    <3>2. CASE fd[q] = n
      BY <1>1, <2>1, <3>1, <3>2, One
    <3>3. CASE fd[q] # n
      BY <1>1, <2>1, <2>3, <3>1, <3>3, One
    <3> QED
      BY <3>2, <3>3
  <2> QED
    BY <2>2, <2>3 DEF Refers
<1>3. CASE Remove(n)
  <2>1. \A x \in Names : file'[x] = IF x = n THEN Absent ELSE file[x]
    BY <1>3 DEF TypeOK, Remove
  <2>2. \A q \in Procs : fd'[q] = IF fd[q] = n THEN "gone" ELSE fd[q]
    BY <1>3 DEF Remove
  <2> QED
    BY <1>1, <2>1, <2>2, One DEF Refers
<1> QED
  BY <1>2, <1>3

\* A goroutine goes on, or begins, and neither is about to sweep nor has been.
LEMMA SideSteps ==
  ASSUME Inv, GoodInv, NEW p \in Procs, NEW r, Staff(r), proc' = [proc EXCEPT ![p] = r],
         UNCHANGED << file, fd, pool >>, acct'[1].deleted = acct[1].deleted,
         \A i \in 1..Len(queue') : queue'[i] = 1,
         ~Blank \/ pool = 1, ~Sweeps(proc[p]), ~Sweeps(r)
  PROVE  GoodInv'
<1>1. \A q \in Procs : proc'[q] = IF q = p THEN r ELSE proc[q]
  BY DEF Inv, TypeOK
<1>2. Refers' /\ Single'
  BY <1>1, FilesStay DEF GoodInv, Single
<1>3. pool' = 1 => Listed'
  BY <1>1 DEF GoodInv, Listed, Sweeps
<1>4. pool' = None => Swept'
  <2> SUFFICES ASSUME pool = None PROVE Swept'
    OBVIOUS
  <2>1. Swept
    BY One DEF GoodInv
  <2>2. \A q \in Procs : Sweeps(proc[q]) => Sweeps(proc'[q])
    BY <1>1
  <2> QED
    BY <2>1, <2>2 DEF Swept, Sweeps
<1> QED
  BY <1>2, <1>3, <1>4 DEF GoodInv

\* Who took the file of the marked account, or found that it is not marked.
LEMMA Sweeping ==
  ASSUME Inv, GoodInv, NEW p \in Procs, Done(p), UNCHANGED << pool, acct, queue >>,
         proc[p].at # "idle",
         \/ UNCHANGED << file, fd >> /\ ~acct[1].deleted
         \/ Refers' /\ file'["json"] = Absent /\ pool = None
  PROVE  GoodInv'
<1>1. \A q \in Procs : proc'[q] = IF q = p THEN Idle ELSE proc[q]
  BY DEF Inv, TypeOK, Done
<1>2. Staff(Idle) /\ ~Sweeps(Idle)
  BY DEF Staff, Sweeps, Idle
<1>3. Single'
  BY <1>1, <1>2 DEF GoodInv, Single
<1>4. ~Blank
  BY DEF Blank, Idle
<1>5. CASE UNCHANGED << file, fd >> /\ ~acct[1].deleted
  <2>1. pool = 1
    BY <1>4, <1>5 DEF GoodInv, Single, Swept
  <2>2. Listed'
    BY <1>1, <1>5, <2>1 DEF GoodInv, Listed, Idle
  <2> QED
    BY <1>3, <1>5, <2>1, <2>2, FilesStay, One DEF GoodInv
<1>6. CASE Refers' /\ file'["json"] = Absent /\ pool = None
  <2>1. Swept'
    BY <1>4, <1>6 DEF GoodInv, Swept
  <2> QED
    BY <1>3, <1>6, <2>1, One DEF GoodInv
<1> QED
  BY <1>5, <1>6

LEMMA IdleStaff == Staff(Idle) /\ ~Sweeps(Idle)
BY DEF Staff, Sweeps, Idle

\* The goroutine's record when only its place moves.
LEMMA PlaceStaff ==
  ASSUME Inv, GoodInv, NEW p \in Procs, proc[p].at # "idle", NEW s \in Places,
         s \notin {"load", "add", "back", "restore"}
  PROVE  Staff([proc[p] EXCEPT !.at = s]) /\ [proc[p] EXCEPT !.at = s].at = s
<1>1. Staff(proc[p]) /\ proc[p] \in Locals
  BY DEF GoodInv, Single, Inv, TypeOK
<1>2. proc[p].acct = 1
  BY <1>1 DEF Staff, Idle
<1> QED
  BY <1>1, <1>2 DEF Staff, Locals

LEMMA RefusedGood ==
  ASSUME Inv, GoodInv, Removing, NEW p \in Procs, Refused(p), proc[p].at \in {"ask", "enqueue"},
         UNCHANGED << file, fd, pool, acct >>, \A i \in 1..Len(queue') : queue'[i] = 1
  PROVE  GoodInv'
<1>1. ~Blank /\ ~Sweeps(proc[p])
  BY DEF Blank, Idle, Sweeps
<1>2. CASE Goto(p, "unlist")
  <2> DEFINE r == [proc[p] EXCEPT !.at = "unlist"]
  <2>1. Staff(r) /\ r.at = "unlist"
    BY PlaceStaff DEF Places
  <2>2. proc' = [proc EXCEPT ![p] = r]
    BY <1>2 DEF Goto
  <2> HIDE DEF r
  <2> QED
    BY <1>1, <2>1, <2>2, SideSteps DEF Sweeps
<1>3. CASE proc' = [proc EXCEPT ![p].op = "disable", ![p].at = "unlist"]
  <2> DEFINE a == [proc[p] EXCEPT !.at = "unlist"]
             r == [proc[p] EXCEPT !.op = "disable", !.at = "unlist"]
  <2>1. r.at = "unlist" /\ r.op = "disable" /\ r.acct = proc[p].acct
    BY DEF Inv, TypeOK, Locals
  <2>2. proc[p].acct = 1
    BY DEF GoodInv, Single, Staff, Idle
  <2>3. proc' = [proc EXCEPT ![p] = r]
    BY <1>3
  <2> HIDE DEF r
  <2>4. Staff(r) /\ ~Sweeps(r)
    BY <2>1, <2>2 DEF Staff, Sweeps, Removers
  <2> QED
    BY <1>1, <2>3, <2>4, SideSteps
<1> QED
  BY <1>2, <1>3 DEF Refused

LEMMA UnlistGood ==
  ASSUME Inv, GoodInv, NEW p \in Procs, Unlist(p)
  PROVE  GoodInv'
<1>1. proc[p].at = "unlist" /\ proc[p].acct = 1 /\ ~Blank
  BY DEF Unlist, GoodInv, Single, Staff, Idle, Blank
<1>2. acct'[1].deleted /\ pool' = None /\ UNCHANGED << file, fd, queue >>
  BY <1>1, One DEF Unlist, Inv, TypeOK, Account
<1>3. CASE pool = None
  <2>1. acct[1].deleted
    BY <1>1, <1>3, One DEF GoodInv, Swept
  <2>2. Done(p) /\ ~Sweeps(proc[p])
    BY <1>1, <1>3 DEF Unlist, Sweeps
  <2>3. \A i \in 1..Len(queue') : queue'[i] = 1
    BY <1>2 DEF GoodInv, Single
  <2> QED
    BY <1>1, <1>2, <1>3, <2>1, <2>2, <2>3, IdleStaff, SideSteps DEF Done
<1>4. CASE pool # None
  <2>1. PICK s \in {"park", "erase"} : Goto(p, s)
    BY <1>4 DEF Unlist
  <2> DEFINE r == [proc[p] EXCEPT !.at = s]
  <2>0. s \in Places /\ s \notin {"load", "add", "back", "restore"} /\ proc[p].at # "idle"
    BY <1>1 DEF Places
  <2>2. Staff(r) /\ r.at = s
    BY <2>0, PlaceStaff
  <2>3. \A q \in Procs : proc'[q] = IF q = p THEN r ELSE proc[q]
    BY <2>1 DEF Goto, Inv, TypeOK
  <2> HIDE DEF r
  <2>4. Sweeps(proc'[p])
    BY <2>2, <2>3 DEF Sweeps
  <2>5. Swept'
    BY <1>2, <2>4 DEF Swept, Sweeps
  <2>6. Single'
    BY <1>2, <2>2, <2>3 DEF GoodInv, Single
  <2> QED
    BY <1>2, <2>5, <2>6, FilesStay, One DEF GoodInv
<1> QED
  BY <1>3, <1>4

\* Whoever takes the file does so when the account is no longer listed.
LEMMA TakeGood ==
  ASSUME Inv, GoodInv, NEW p \in Procs, Erase(p) \/ Park(p) \/ Recheck(p)
  PROVE  GoodInv'
<1>1. "json" \in Names /\ "tmp" \in Names /\ \A n \in Suffixes : n \in Names /\ n # "json"
  BY PoolAssumption DEF Names
<1>2. TypeOK /\ Refers
  BY DEF Inv, GoodInv
<1>3. proc[p].at # "idle" /\ proc[p].acct = 1 /\ UNCHANGED << pool, acct, queue >>
  BY DEF Erase, Park, Recheck, GoodInv, Single, Staff, Idle
<1>4. Done(p)
  BY DEF Erase, Park, Recheck
<1>5. CASE (Erase(p) \/ Park(p))
  <2>1. pool = None
    BY <1>5 DEF Erase, Park, GoodInv, Single, Listed
  <2>2. \/ Remove("json")
        \/ \E n \in Suffixes : Rename("json", n)
    BY <1>5 DEF Erase, Park
  <2>3. Refers'
    BY <1>1, <1>2, <2>2, FilesMove, One
  <2>4. file'["json"] = Absent
    BY <1>1, <1>2, <2>2 DEF Remove, Rename, TypeOK
  <2> QED
    BY <1>3, <1>4, <2>1, <2>3, <2>4, Sweeping
<1>6. CASE Recheck(p) /\ acct[1].deleted
  <2>1. pool = None
    BY <1>6 DEF GoodInv, Single, Inv, PooledIsLive
  <2>2. Remove("json")
    BY <1>3, <1>6 DEF Recheck
  <2>3. Refers'
    BY <1>1, <1>2, <2>2, FilesMove, One
  <2>4. file'["json"] = Absent
    BY <1>1, <1>2, <2>2 DEF Remove, TypeOK
  <2> QED
    BY <1>3, <1>4, <2>1, <2>3, <2>4, Sweeping
<1>7. CASE Recheck(p) /\ ~acct[1].deleted
  <2>1. UNCHANGED << file, fd >>
    BY <1>3, <1>7 DEF Recheck, KeepFiles
  <2> QED
    BY <1>3, <1>4, <1>7, <2>1, Sweeping
<1> QED
  BY <1>5, <1>6, <1>7

LEMMA RefreshGood ==
  ASSUME Inv, GoodInv, Removing, NEW p \in Procs,
         Answer(p) \/ UpdateToken(p) \/ EnqueueSave(p)
  PROVE  GoodInv'
<1>1. proc[p].at \in {"ask", "update", "enqueue"} /\ proc[p].acct = 1 /\ ~Blank /\ ~Sweeps(proc[p])
  BY DEF Answer, UpdateToken, EnqueueSave, GoodInv, Single, Staff, Idle, Blank, Sweeps
<1>2. UNCHANGED << file, fd, pool >>
  BY DEF Answer, UpdateToken, EnqueueSave
<1>3. acct'[1].deleted = acct[1].deleted
  BY <1>1, One DEF Answer, UpdateToken, EnqueueSave, Inv, TypeOK, Account
<1>4. \A i \in 1..Len(queue') : queue'[i] = 1
  <2>1. queue \in Seq(Accts) /\ \A i \in 1..Len(queue) : queue[i] = 1
    BY DEF Inv, TypeOK, GoodInv, Single
  <2>2. queue' = queue \/ queue' = Append(queue, 1)
    BY <1>1 DEF Answer, UpdateToken, EnqueueSave, Enqueued
  <2> QED
    BY <2>1, <2>2, One
<1>5. ASSUME NEW s \in {"update", "enqueue"}, Goto(p, s) PROVE GoodInv'
  <2> DEFINE r == [proc[p] EXCEPT !.at = s]
  <2>0. s \in Places /\ s \notin {"load", "add", "back", "restore"} /\ proc[p].at # "idle"
    BY <1>1 DEF Places
  <2>1. Staff(r) /\ r.at = s
    BY <2>0, PlaceStaff
  <2>2. proc' = [proc EXCEPT ![p] = r]
    BY <1>5 DEF Goto
  <2> HIDE DEF r
  <2>3. ~Sweeps(r)
    BY <2>1 DEF Sweeps
  <2> QED
    BY <1>1, <1>2, <1>3, <1>4, <2>1, <2>2, <2>3, SideSteps
<1>6. CASE Done(p)
  BY <1>1, <1>2, <1>3, <1>4, <1>6, IdleStaff, SideSteps DEF Done
<1>7. CASE Refused(p) /\ (Answer(p) \/ EnqueueSave(p))
  <2>1. proc[p].at \in {"ask", "enqueue"} /\ UNCHANGED acct
    BY <1>7 DEF Answer, EnqueueSave
  <2> QED
    BY <1>2, <1>4, <1>7, <2>1, RefusedGood
<1> QED
  BY <1>5, <1>6, <1>7 DEF Answer, UpdateToken, EnqueueSave

\* Who begins has an account that is listed.
LEMMA BeginGood ==
  ASSUME Inv, GoodInv, Removing, NEW p \in Procs,
         Refresh(p) \/ \E op \in Ops : Decide(p, op)
  PROVE  GoodInv'
<1>1. PICK op \in Removers, s \in {"ask", "unlist"}, t \in {Torn, issued + 1} : Begin(p, op, s, pool, t)
  BY DEF Refresh, Decide, Removers
<1>2. pool = 1 /\ UNCHANGED << file, fd, pool, acct, queue >> /\ proc[p] = Idle
  BY <1>1 DEF Refresh, Decide, GoodInv, Single, Begin
<1> DEFINE r == [Idle EXCEPT !.op = op, !.at = s, !.acct = pool, !.tok = t]
<1>3. r.op = op /\ r.at = s /\ r.acct = 1
  BY <1>2 DEF Idle
<1>4. proc' = [proc EXCEPT ![p] = r]
  BY <1>1 DEF Begin
<1> HIDE DEF r
<1>5. Staff(r) /\ ~Sweeps(r) /\ ~Sweeps(proc[p])
  BY <1>2, <1>3, IdleStaff DEF Staff, Sweeps
<1>6. \A i \in 1..Len(queue') : queue'[i] = 1
  BY <1>2 DEF GoodInv, Single
<1> QED
  BY <1>2, <1>4, <1>5, <1>6, SideSteps

LEMMA DequeueGood ==
  ASSUME Inv, GoodInv, NEW p \in Procs, Dequeue(p)
  PROVE  GoodInv'
<1>1. queue # << >> /\ queue \in Seq(Accts) /\ \A i \in 1..Len(queue) : queue[i] = 1
  BY DEF Dequeue, Inv, TypeOK, GoodInv, Single
<1>2. Head(queue) = 1 /\ \A i \in 1..Len(Tail(queue)) : Tail(queue)[i] = 1
  BY <1>1
<1>3. queue' = Tail(queue) /\ proc[p] = Idle /\ UNCHANGED << file, fd, pool, acct >> /\ ~Blank
  BY <1>1 DEF Dequeue, Blank
<1> DEFINE r == [Idle EXCEPT !.op = "save", !.at = "open", !.acct = Head(queue), !.tok = acct[Head(queue)].token]
<1>4. CASE UNCHANGED proc
  <2>1. proc' = [proc EXCEPT ![p] = Idle]
    BY <1>3, <1>4 DEF Inv, TypeOK
  <2> QED
    BY <1>2, <1>3, <2>1, IdleStaff, SideSteps
<1>5. CASE proc' = [proc EXCEPT ![p] = r]
  <2>1. r.op = "save" /\ r.at = "open" /\ r.acct = 1
    BY <1>2 DEF Idle
  <2> HIDE DEF r
  <2>2. Staff(r) /\ ~Sweeps(r)
    BY <2>1 DEF Staff, Sweeps
  <2> QED
    BY <1>2, <1>3, <1>5, <2>2, IdleStaff, SideSteps
<1> QED
  BY <1>4, <1>5 DEF Dequeue

\* A save that is under way when the account goes looks again once its file is in
\* place; a descriptor that another worker's file still follows adds no file.
LEMMA SaveGood ==
  ASSUME Inv, GoodInv, NEW p \in Procs, Open(p) \/ Fill(p) \/ Publish(p)
  PROVE  GoodInv'
<1>1. /\ proc[p].at \in {"open", "fill", "publish"} /\ ~Sweeps(proc[p]) /\ ~Blank
      /\ UNCHANGED << pool, acct, queue >> /\ TypeOK /\ Refers
  BY DEF Open, Fill, Publish, Sweeps, Blank, Idle, Inv, GoodInv
<1>2. PICK r : Staff(r) /\ proc' = [proc EXCEPT ![p] = r] /\ r.at \in {"idle", "fill", "publish", "recheck"}
               /\ (r.at = "recheck" => Publish(p))
  <2>1. CASE Done(p)
    <3>1. Staff(Idle) /\ Idle.at = "idle" /\ proc' = [proc EXCEPT ![p] = Idle]
      BY <2>1, IdleStaff DEF Done, Idle
    <3> QED
      BY <3>1
  <2>2. ASSUME NEW s \in {"fill", "publish", "recheck"}, Goto(p, s), s = "recheck" => Publish(p)
        PROVE  \E r : Staff(r) /\ proc' = [proc EXCEPT ![p] = r] /\ r.at \in {"idle", "fill", "publish", "recheck"}
                      /\ (r.at = "recheck" => Publish(p))
    <3> DEFINE r == [proc[p] EXCEPT !.at = s]
    <3>0. s \in Places /\ s \notin {"load", "add", "back", "restore"} /\ proc[p].at # "idle"
      BY <1>1 DEF Places
    <3>1. Staff(r) /\ r.at = s
      BY <3>0, PlaceStaff
    <3>2. proc' = [proc EXCEPT ![p] = r]
      BY <2>2 DEF Goto
    <3> HIDE DEF r
    <3> QED
      BY <2>2, <3>1, <3>2
  <2> QED
    BY <2>1, <2>2 DEF Open, Fill, Publish
<1>3. \A q \in Procs : proc'[q] = IF q = p THEN r ELSE proc[q]
  BY <1>1, <1>2 DEF TypeOK
<1>4. Single'
  BY <1>1, <1>2, <1>3 DEF GoodInv, Single
<1>5. ASSUME NEW q \in Procs, Sweeps(proc[q]) PROVE q # p /\ Sweeps(proc'[q])
  BY <1>1, <1>3, <1>5
<1>6. ASSUME Refers',
             \/ file'["json"] = file["json"]
             \/ file["json"] # Absent /\ file'["json"] # Absent
             \/ Sweeps(r) /\ file'["json"] # Absent
      PROVE  GoodInv'
  <2>1. pool = 1 => Listed'
    BY <1>1, <1>2, <1>3, <1>6 DEF GoodInv, Listed
  <2>2. pool = None => Swept'
    <3> SUFFICES ASSUME pool = None PROVE Swept'
      OBVIOUS
    <3>1. Swept
      BY <1>1 DEF GoodInv
    <3>2. Sweeps(r) => \E q \in Procs : Sweeps(proc'[q])
      BY <1>3
    <3>3. (\E q \in Procs : Sweeps(proc[q])) => \E q \in Procs : Sweeps(proc'[q])
      BY <1>5
    <3> QED
      BY <1>1, <1>6, <3>1, <3>2, <3>3 DEF Swept, Sweeps
  <2> QED
    BY <1>1, <1>4, <1>6, <2>1, <2>2 DEF GoodInv
<1>7. CASE Open(p)
  <2>1. \A n \in Names : file'[n] = IF n = "tmp" THEN Torn ELSE file[n]
    BY <1>1, <1>7 DEF Open, TypeOK
  <2>2. \A q \in Procs : fd'[q] = IF q = p THEN "tmp" ELSE fd[q]
    BY <1>1, <1>7 DEF Open, TypeOK
  <2>3. \A q \in Procs : fd[q] \in Names \cup {"gone"} /\ (fd[q] # "gone" => file[fd[q]] # Absent)
    BY <1>1 DEF TypeOK, Refers
  <2>4. Refers'
    BY <1>1, <2>1, <2>2, <2>3, One DEF Refers, Torn, Absent
  <2> QED
    BY <1>6, <2>1, <2>4, One
<1>8. CASE Fill(p)
  <2>1. \A q \in Procs : fd'[q] = IF q = p THEN "gone" ELSE fd[q]
    BY <1>1, <1>8 DEF Fill, TypeOK
  <2>2. proc[p].tok > 0 /\ proc[p].tok \in Int
    BY <1>8 DEF Inv, TypeOK, Locals, Held, HasToken, Fill
  <2>3. \A n \in Names : file'[n] = file[n] \/ (fd[p] = n /\ file'[n] = proc[p].tok)
    BY <1>1, <1>8 DEF Fill, TypeOK
  <2>4. \A q \in Procs : fd[q] \in Names \cup {"gone"} /\ (fd[q] # "gone" => file[fd[q]] # Absent)
    BY <1>1 DEF TypeOK, Refers
  <2>5. \A n \in Names : file'[n] = file[n] \/ (file[n] # Absent /\ file'[n] # Absent)
    BY <2>2, <2>3, <2>4, One DEF Absent
  <2>6. Refers'
    BY <1>1, <2>1, <2>2, <2>3, <2>4, <2>5, One DEF Refers, Absent
  <2> QED
    BY <1>6, <2>5, <2>6, One
<1>9. CASE Publish(p)
  <2>1. CASE KeepFiles
    BY <1>1, <1>6, <2>1, FilesStay DEF KeepFiles
  <2>2. CASE file["tmp"] # Absent /\ Rename("tmp", "json") /\ Goto(p, "recheck")
    <3>1. Refers'
      BY <1>1, <2>2, FilesMove, One
    <3>2. file'["json"] # Absent
      BY <1>1, <2>2, One DEF Rename, TypeOK
    <3>3. Sweeps(r)
      <4>1. proc'[p].at = "recheck"
        BY <1>1, <2>2 DEF Goto, TypeOK, Locals
      <4> QED
        BY <1>3, <4>1 DEF Sweeps
    <3> QED
      BY <1>6, <3>1, <3>2, <3>3
  <2> QED
    BY <1>9, <2>1, <2>2 DEF Publish
<1> QED
  BY <1>7, <1>8, <1>9

\* A start finds a whole credential or none.
LEMMA RestartGood ==
  ASSUME Inv, WholeInv, GoodInv, Removing, Restart
  PROVE  GoodInv'
<1>1. CredentialWhole
  BY DEF Removing, Restart, WholeInv
<1>2. file["json"] = Absent \/ file["json"] > Torn
  BY <1>1, One DEF CredentialWhole, GoodInv, Refers, Inv, TypeOK, Torn, Absent
<1>3. /\ UNCHANGED file /\ fd' = [q \in Procs |-> "gone"]
      /\ queue' = << >> /\ proc' = [q \in Procs |-> Idle]
      /\ pool' = IF file["json"] > Torn THEN 1 ELSE None
  BY DEF Restart, InPool
<1>4. Refers' /\ Single'
  BY <1>3, IdleStaff DEF GoodInv, Refers, Single
<1>5. pool' = 1 => Listed'
  BY <1>3, One DEF Listed, Idle, Torn, Absent
<1>6. pool' = None => Blank'
  BY <1>2, <1>3, One DEF Blank
<1> QED
  BY <1>4, <1>5, <1>6 DEF GoodInv

LEMMA StutterGood ==
  ASSUME GoodInv, UNCHANGED vars PROVE GoodInv'
BY DEF vars, GoodInv, Refers, Single, Staff, Listed, Swept, Sweeps, Blank

LEMMA InitGood == Init => GoodInv
<1> SUFFICES ASSUME Init PROVE GoodInv
  OBVIOUS
<1>1. file = [n \in Names |-> IF n = "json" THEN 1 ELSE Absent] /\ pool = 1
  BY DEF Init, InPool, Torn
<1>2. Refers
  BY <1>1, One DEF Init, Refers, Absent
<1>3. Single
  BY <1>1, IdleStaff DEF Init, Single
<1>4. Listed
  BY <1>1, One DEF Init, Listed, Idle, Absent
<1> QED
  BY <1>1, <1>2, <1>3, <1>4, One DEF GoodInv

LEMMA StepGood == Inv /\ WholeInv /\ (Removing => GoodInv) /\ [Next]_vars => (Removing => GoodInv)'
<1> SUFFICES ASSUME Inv, WholeInv, Removing => GoodInv, [Next]_vars, Removing' PROVE GoodInv'
  OBVIOUS
<1>1. UNCHANGED world
  BY DEF Next, vars, Decide, Refresh, Scan, Recover, Upload, Dequeue, Proceed, Unlist, Erase, Park, Answer,
     UpdateToken, EnqueueSave, Open, Fill, Publish, Recheck, Restore, Load, AddLoaded, PutBack, Drop, Restart, IdleTick
<1>2. Removing /\ GoodInv
  BY <1>1 DEF Removing
<1>3. world.ops \cap {"scan", "recover", "upload", "drop"} = {}
  BY <1>2 DEF Removing, Removers
<1>4. ASSUME NEW p \in Procs, Scan(p) \/ Recover(p) \/ Upload(p) PROVE FALSE
  BY <1>3, <1>4 DEF Scan, Recover, Upload, Begin
<1>5. ~Drop
  BY <1>3 DEF Drop
<1>6. ASSUME NEW p \in Procs, Restore(p) \/ Load(p) \/ AddLoaded(p) \/ PutBack(p) PROVE FALSE
  BY <1>2, <1>6 DEF Restore, Load, AddLoaded, PutBack, GoodInv, Single, Staff
<1>7. ASSUME NEW p \in Procs, Proceed(p) PROVE GoodInv'
  BY <1>2, <1>6, <1>7, UnlistGood, TakeGood, RefreshGood, SaveGood DEF Proceed
<1> QED
  BY <1>2, <1>4, <1>5, <1>7, BeginGood, DequeueGood, RestartGood, StutterGood DEF Next, IdleTick

\* manager.go:1476: where nothing adds accounts at the path, an account that was
\* removed leaves no file behind and an account of the pool has its file, once
\* everybody is done, whatever saves were queued or under way, with any number of
\* save workers, or with one if writes fail and the process ends.
THEOREM RemovedStaysRemoved == Spec => []RemovedForGood
<1>1. Inv /\ (Removing => GoodInv) => RemovedForGood
  <2> SUFFICES ASSUME Inv, GoodInv, Quiet PROVE pool # None <=> file["json"] # Absent
    BY DEF Removing, RemovedForGood
  <2>1. \A p \in Procs : ~Sweeps(proc[p])
    BY IdleStaff DEF Quiet
  <2> QED
    BY <2>1, One DEF GoodInv, Single, Listed, Swept, Blank
<1>2. Init => (Removing => GoodInv)
  BY InitGood
<1> QED
  BY InvHolds, InitWhole, StepWhole, <1>2, StepGood, <1>1, PTL DEF Spec

=============================================================================
