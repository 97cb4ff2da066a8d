------------------------- MODULE CronHistoryProofs -------------------------
(***************************************************************************)
(* How late the loop may be: for any number of jobs and calls, any         *)
(* schedules and any longest sleep.                                        *)
(***************************************************************************)
EXTENDS CronHistory, CronServiceProofs

(* Whether a tick sees every due row and does not fail.                    *)
Undisturbed == DueLimit >= Cardinality(Jobs) /\ ~DbFails

(* Only what is neglected has waited.                                      *)
WaitExact == \A j \in Jobs : waited[j] # 0 => j \in Neglected

(* A job that has waited when a tick starts is among the rows it reads and *)
(* is taken by its dispatch, so that nothing has waited when the loop goes *)
(* to sleep; while it sleeps, what is left of the sleep and what a job has *)
(* waited make up the longest sleep at most.                               *)
WaitBound ==
    /\ loop = "tick" => \A j \in Jobs : waited[j] <= Heartbeat
    /\ loop = "dispatch" =>
          \A j \in Jobs : /\ waited[j] <= Heartbeat
                          /\ waited[j] # 0 => \E r \in seen : r.id = j
    /\ loop \in {"plan", "doze", "down"} => \A j \in Jobs : waited[j] = 0
    /\ loop = "sleep" =>
          /\ now <= deadline /\ deadline <= now + Heartbeat
          /\ \A j \in Jobs : waited[j] + deadline <= now + Heartbeat

HInv == IInv /\ HTypeOK /\ WaitExact /\ (Undisturbed => WaitBound)

-----------------------------------------------------------------------------
(* The clock is the only source of waiting.                                *)

(* Each step leaves the clock alone or is a tick of it.                    *)
LEMMA ClockStep == Next => now' = now \/ Advance
<1>1. ASSUME NEW f \in Fires, FireStep(f) PROVE now' = now
  BY <1>1 DEF FireStep, FireRejected, FireEnter, FireAdmitted, FireSkip, FireRecurring, FireOnce,
              RunOk, SettleWrite, RunError, ErrorWrite, FireAbort
<1>2. ASSUME NEW f \in Fires, CutStep(f) PROVE now' = now
  BY <1>2 DEF CutStep, CutReading, CutWaiting, CutRunning
<1>3. LoopStep => now' = now
  BY DEF LoopStep, TickRead, TickDispatch, PlanRead, GoToSleep, TickFail, LoopWake
<1>4. OwnerStep => now' = now
  BY DEF OwnerStep, Add, Remove, Edit, SetEnabled, Update, EditWrite, EditFail, EditCut, RunNow
<1>5. Stop \/ Crash \/ Start => now' = now
  BY DEF Stop, Crash, Start
<1> QED BY <1>1, <1>2, <1>3, <1>4, <1>5, CronAssumption DEF Next

(* Where the loop is, what it has read and when it wakes are changed by    *)
(* the loop itself and by the ends and starts of the process only.         *)
LEMMA LoopOwn ==
    Next => LoopStep \/ Stop \/ Crash \/ Start \/ UNCHANGED loopVars
<1>1. ASSUME NEW f \in Fires, FireStep(f) PROVE UNCHANGED loopVars
  BY <1>1 DEF FireStep, FireRejected, FireEnter, FireAdmitted, FireSkip, FireRecurring, FireOnce,
              RunOk, SettleWrite, RunError, ErrorWrite, FireAbort
<1>2. ASSUME NEW f \in Fires, CutStep(f) PROVE UNCHANGED loopVars
  BY <1>2 DEF CutStep, CutReading, CutWaiting, CutRunning
<1>3. OwnerStep => UNCHANGED loopVars
  BY DEF OwnerStep, Add, Remove, Edit, SetEnabled, Update, EditWrite, EditFail, EditCut, RunNow
<1>4. Advance => UNCHANGED loopVars
  BY DEF Advance
<1> QED BY <1>1, <1>2, <1>3, <1>4, CronAssumption DEF Next

(* What a step adds to the waiting of a job.                               *)
LEMMA WaitStep ==
    ASSUME IInv, HTypeOK, WaitExact, HNext, NEW j \in Jobs
    PROVE  /\ waited'[j] \in Nat
           /\ waited'[j] # 0 => j \in Neglected /\ j \in Neglected'
           /\ now' = now => waited'[j] \in {0, waited[j]}
           /\ now' = now + 1 => waited'[j] \in {0, waited[j] + 1}
           /\ now' \in {now, now + 1}
<1>1. now \in Nat /\ waited[j] \in Nat
  BY DEF HTypeOK, TypeOK
<1>2. now' \in {now, now + 1}
  BY ClockStep DEF HNext, Advance
<1>3. waited'[j] = IF j \notin Neglected \/ j \notin Neglected' THEN 0
                   ELSE waited[j] + (now' - now)
  BY DEF HNext
<1> QED BY <1>1, <1>2, <1>3

(* The history variables keep their types, and only the neglected wait.    *)
LEMMA HistoryStep ==
    ASSUME IInv, HTypeOK, WaitExact, HNext PROVE IInv' /\ HTypeOK' /\ WaitExact'
<1>1. IInv'
  BY FireInv, CutInv, LoopInv, OwnerInv, WorldInv, CronAssumption DEF Next, HNext
<1>2. TypeOK'
  BY <1>1 DEF IInv, Typing
<1>3. removed' \subseteq Jobs
  BY DEF HNext, HTypeOK
<1>4. \A j \in Jobs : waited'[j] \in Nat /\ (waited'[j] # 0 => j \in Neglected')
  BY WaitStep
<1>5. waited' = [j \in Jobs |-> waited'[j]]
  BY DEF HNext
<1>6. waited' \in [Jobs -> Nat]
  BY <1>4, <1>5
<1> QED BY <1>1, <1>2, <1>3, <1>4, <1>6 DEF HTypeOK, WaitExact

-----------------------------------------------------------------------------
(* The bound.                                                              *)

(* A tick that sees every due row sees each job that has waited.           *)
LEMMA TickReadBound ==
    ASSUME IsFiniteSet(Jobs), Undisturbed, HInv, HNext, TickRead PROVE WaitBound'
<1>1. PICK S \in SUBSET Due : /\ Cardinality(S) = Min({DueLimit, Cardinality(Due)})
                              /\ seen' = S
  BY DEF TickRead
<1>2. IsFiniteSet(Due) /\ Cardinality(Due) <= Cardinality(Jobs) /\ Cardinality(Jobs) \in Nat
  <2> DEFINE f == [r \in Due |-> r.id]
  <2>1. f \in Injection(Due, Jobs)
    <3>1. f \in [Due -> Jobs] /\ \A r, q \in Due : f[r] = f[q] => r = q
      BY DEF Due, HInv, IInv, Typing, TypeOK, RowsOK
    <3> HIDE DEF f
    <3> QED BY <3>1 DEF Injection, IsInjective
  <2> HIDE DEF f
  <2> QED BY <2>1, FS_Injection, FS_CardinalityType
<1>3. S = Due
  <2>1. Cardinality(Due) \in Nat /\ DueLimit \in Nat
    BY <1>2, FS_CardinalityType, CronAssumption
  <2>2. {DueLimit, Cardinality(Due)} \in SUBSET Nat /\ {DueLimit, Cardinality(Due)} # {}
    BY <2>1
  <2>3. /\ Min({DueLimit, Cardinality(Due)}) \in {DueLimit, Cardinality(Due)}
        /\ \A y \in {DueLimit, Cardinality(Due)} : Min({DueLimit, Cardinality(Due)}) <= y
    BY <2>2, MinNat
  <2>4. Cardinality(Due) <= DueLimit
    BY <1>2, <2>1 DEF Undisturbed
  <2>5. Cardinality(S) = Cardinality(Due)
    BY <1>1, <2>1, <2>3, <2>4
  <2> QED BY <1>2, <2>5, FS_Subset
<1>4. loop = "tick" /\ loop' = "dispatch" /\ now' = now
  BY DEF TickRead
<1>5. ASSUME NEW j \in Jobs
      PROVE  /\ waited'[j] <= Heartbeat
             /\ waited'[j] # 0 => \E r \in seen' : r.id = j
  <2>1. waited[j] \in Nat /\ waited[j] <= Heartbeat /\ Heartbeat \in Nat
    BY <1>4, CronAssumption DEF HInv, WaitBound, HTypeOK
  <2>2. waited'[j] \in {0, waited[j]} /\ (waited'[j] # 0 => j \in Neglected)
    BY <1>4, WaitStep DEF HInv
  <2>3. j \in Neglected => db[j] \in Due /\ db[j].id = j
    BY DEF Neglected, Due, HInv, IInv, Typing, RowsOK
  <2> QED BY <1>1, <1>3, <2>1, <2>2, <2>3
<1> QED BY <1>4, <1>5 DEF WaitBound

(* The dispatch takes each job that has waited.                            *)
LEMMA DispatchBound ==
    ASSUME Undisturbed, HInv, HNext, TickDispatch PROVE WaitBound'
<1>1. loop = "dispatch" /\ loop' = "plan" /\ now' = now
  BY DEF TickDispatch
<1>2. ASSUME NEW j \in Jobs, waited'[j] # 0 PROVE FALSE
  <2>1. j \in Neglected /\ j \in Neglected' /\ waited[j] # 0
    BY <1>1, <1>2, WaitStep DEF HInv
  <2>2. \A f \in Fires : /\ copy[f] = NoRow \/ copy[f].id # j
                         /\ copy'[f] = NoRow \/ copy'[f].id # j
    BY <1>1, <2>1 DEF Neglected
  <2>3. PICK r \in seen : r.id = j
    BY <1>1, <2>1 DEF HInv, WaitBound
  <2>4. j \notin running
    <3>1. \A f \in Fires : pc[f] \in Active => copy[f] # NoRow
      BY DEF HInv, IInv, Typing, CallOK, Active, Holding
    <3> QED BY <2>2, <3>1 DEF HInv, IInv, Bookkeeping, RunningExact
  <2> DEFINE fresh == {q \in seen : q.id \notin running}
  <2>5. r \in fresh
    BY <2>3, <2>4
  <2>6. PICK slot \in [fresh -> Idle \ OwnerFires] :
          /\ \A p, q \in fresh : slot[p] = slot[q] => p = q
          /\ copy' = [f \in Fires |->
                        IF \E q \in fresh : slot[q] = f
                          THEN CHOOSE q \in fresh : slot[q] = f
                          ELSE copy[f]]
    BY Zenon DEF TickDispatch
  <2>7. slot[r] \in Fires
    BY <2>5, <2>6 DEF Idle
  <2>8. (CHOOSE q \in fresh : slot[q] = slot[r]) = r
    BY <2>5, <2>6
  <2>9. copy'[slot[r]] = r
    BY <2>5, <2>6, <2>7, <2>8
  <2>10. r # NoRow
    BY CronAssumption DEF HInv, IInv, Typing, TypeOK
  <2> QED BY <2>2, <2>3, <2>7, <2>9, <2>10
<1> QED BY <1>1, <1>2 DEF WaitBound

(* The sleep is never longer than the heartbeat.                           *)
LEMMA SleepBound ==
    ASSUME Undisturbed, HInv, HNext, GoToSleep PROVE WaitBound'
<1> DEFINE dues == {r.next : r \in {q \in seen : q.id \notin running}}
           soonest == Min(dues \cup {now + Heartbeat})
<1>1. /\ loop = "doze" /\ loop' = "sleep" /\ now' = now
      /\ deadline' = IF soonest < now THEN now ELSE soonest
  BY DEF GoToSleep
<1>2. now \in Nat /\ Heartbeat \in Nat
  BY CronAssumption DEF HInv, HTypeOK, TypeOK
<1>3. soonest \in Nat /\ soonest <= now + Heartbeat
  <2>1. dues \subseteq Nat
    BY DEF HInv, HTypeOK, TypeOK, Row
  <2>2. dues \cup {now + Heartbeat} \in SUBSET Nat /\ dues \cup {now + Heartbeat} # {}
    BY <1>2, <2>1
  <2> HIDE DEF dues
  <2> QED BY <2>2, MinNat
<1> HIDE DEF soonest
<1>4. now <= deadline' /\ deadline' <= now + Heartbeat
  BY <1>1, <1>2, <1>3
<1>5. \A j \in Jobs : waited'[j] = 0
  BY <1>1, WaitStep DEF HInv, WaitBound
<1>6. deadline' \in Nat
  BY <1>1, <1>2, <1>3
<1>7. now' = now /\ loop' = "sleep"
  BY <1>1
<1>8. \A j \in Jobs : waited'[j] + deadline' <= now' + Heartbeat
  BY <1>2, <1>4, <1>5, <1>6, <1>7
<1> QED BY <1>4, <1>7, <1>8 DEF WaitBound

(* No step lets a job wait longer than the longest sleep.                  *)
LEMMA BoundStep ==
    ASSUME IsFiniteSet(Jobs), Undisturbed, HInv, HNext PROVE WaitBound'
<1>1. /\ now \in Nat /\ deadline \in Nat /\ Heartbeat \in Nat
      /\ \A j \in Jobs : waited[j] \in Nat
      /\ loop \in {"down", "tick", "dispatch", "plan", "doze", "sleep"}
  BY CronAssumption DEF HInv, HTypeOK, TypeOK
<1>2. WaitBound
  BY DEF HInv
<1>3. \A j \in Jobs : /\ waited'[j] \in Nat
                      /\ now' = now => waited'[j] \in {0, waited[j]}
                      /\ now' = now + 1 => waited'[j] \in {0, waited[j] + 1}
                      /\ loop = "down" \/ loop' = "down" => waited'[j] = 0
  BY WaitStep DEF HInv, Neglected
<1>4. CASE UNCHANGED <<loopVars, now>>
  BY <1>1, <1>2, <1>3, <1>4 DEF loopVars, WaitBound
<1>5. CASE Advance
  <2>1. /\ loop = "down" \/ (loop = "sleep" /\ now < deadline)
        /\ now' = now + 1 /\ UNCHANGED loopVars
    BY <1>5 DEF Advance
  <2> QED BY <1>1, <1>2, <1>3, <2>1 DEF loopVars, WaitBound
<1>6. CASE Stop \/ Crash
  <2>1. loop' = "down"
    BY <1>6 DEF Stop, Crash
  <2> QED BY <1>3, <2>1 DEF WaitBound
<1>7. CASE Start
  <2>1. loop = "down" /\ loop' = "tick"
    BY <1>7 DEF Start
  <2> QED BY <1>1, <1>3, <2>1 DEF WaitBound
<1>8. CASE PlanRead
  <2>1. loop = "plan" /\ loop' = "doze" /\ now' = now
    BY <1>8 DEF PlanRead
  <2> QED BY <1>1, <1>2, <1>3, <2>1 DEF WaitBound
<1>9. CASE LoopWake
  <2>1. loop = "sleep" /\ loop' = "tick" /\ now' = now
    BY <1>9 DEF LoopWake
  <2>2. \A j \in Jobs : waited[j] <= Heartbeat
    BY <1>1, <1>2, <2>1 DEF WaitBound
  <2> QED BY <1>1, <1>3, <2>1, <2>2 DEF WaitBound
<1>10. ~TickFail
  BY DEF TickFail, Undisturbed
<1>11. Advance \/ now' = now
  BY ClockStep DEF HNext
<1> QED BY <1>4, <1>5, <1>6, <1>7, <1>8, <1>9, <1>10, <1>11, LoopOwn, TickReadBound,
           DispatchBound, SleepBound DEF HNext, LoopStep

(* A step that changes nothing keeps the invariant.                        *)
LEMMA HStutter == HInv /\ UNCHANGED hvars => HInv'
<1> SUFFICES ASSUME HInv, UNCHANGED hvars PROVE HInv'
  OBVIOUS
<1>1. UNCHANGED vars /\ UNCHANGED <<removed, waited>>
  BY DEF hvars, history
<1>2. IInv'
  BY <1>1, StutterInv DEF HInv
<1>3. HTypeOK' /\ WaitExact'
  BY <1>1, <1>2 DEF HInv, HTypeOK, IInv, Typing, WaitExact, Neglected, vars, loopVars, fireVars
<1>4. WaitBound => WaitBound'
  BY <1>1 DEF WaitBound, vars, loopVars
<1> QED BY <1>2, <1>3, <1>4 DEF HInv

(* The invariant of the scheduler and its history.                         *)
THEOREM WaitingIsBounded == ASSUME IsFiniteSet(Jobs) PROVE HSpec => []HInv
<1>1. HInit => HInv
  <2> SUFFICES ASSUME HInit PROVE HInv
    OBVIOUS
  <2>1. IInv
    BY InitTyping, FreshShape DEF HInit, Init, IInv
  <2>2. HTypeOK /\ WaitExact /\ WaitBound
    BY <2>1, CronAssumption DEF HInit, Init, HTypeOK, IInv, Typing, WaitExact, WaitBound
  <2> QED BY <2>1, <2>2 DEF HInv
<1>2. HInv /\ HNext => HInv'
  BY HistoryStep, BoundStep DEF HInv
<1> QED BY <1>1, <1>2, HStutter, PTL DEF HSpec

(* The history variables keep their types.                                 *)
THEOREM HistoryTyped == ASSUME IsFiniteSet(Jobs) PROVE HSpec => []HTypeOK
<1>1. HInv => HTypeOK
  BY DEF HInv
<1> QED BY <1>1, WaitingIsBounded, PTL

(* For any jobs, calls and schedules: a due job that is in nobody's hands  *)
(* is taken within one longest sleep, although a wake() during a tick is   *)
(* lost and a run that ends does not wake the loop.                        *)
THEOREM TakenInTime == ASSUME IsFiniteSet(Jobs) PROVE HSpec => []TakenWithinOneSleep
<1>1. HInv => TakenWithinOneSleep
  <2> SUFFICES ASSUME HInv, Undisturbed, NEW j \in Jobs PROVE waited[j] <= Heartbeat
    BY DEF TakenWithinOneSleep, Undisturbed
  <2>1. /\ now \in Nat /\ deadline \in Nat /\ Heartbeat \in Nat /\ waited[j] \in Nat
        /\ loop \in {"down", "tick", "dispatch", "plan", "doze", "sleep"}
    BY CronAssumption DEF HInv, HTypeOK, TypeOK
  <2> QED BY <2>1 DEF HInv, WaitBound
<1> QED BY <1>1, WaitingIsBounded, PTL
=============================================================================
