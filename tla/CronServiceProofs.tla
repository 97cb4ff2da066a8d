------------------------- MODULE CronServiceProofs -------------------------
(***************************************************************************)
(* Proofs about CronService for all values of its constants.               *)
(*                                                                         *)
(* IInv is the inductive invariant.  Its typing half says that a call of   *)
(* fire() has a row exactly while it has not returned, and that a row is   *)
(* stored under its own id; its other half, Bookkeeping, ties _running,    *)
(* the semaphore and its queue to the calls.  Neither half is inductive    *)
(* alone: a release may raise sem above its limit unless the permits add   *)
(* up, and the bookkeeping needs the rows.  The last section shows that    *)
(* CronService implements RunSlots.                                        *)
(***************************************************************************)
EXTENDS CronService, FiniteSetTheorems, WellFoundedInduction, TLAPS

CallOK ==
    \A f \in Fires :
        /\ pc[f] = "idle" <=> copy[f] = NoRow
        /\ pc[f] = "idle" => ~forced[f]

RowsOK == \A j \in Jobs : db[j] # NoRow => db[j].id = j

Typing == TypeOK /\ CallOK /\ RowsOK

(* The queue of the semaphore holds each waiting call exactly once.        *)
QueueExact ==
    /\ \A f \in Fires : pc[f] = "queued" <=> \E i \in 1 .. Len(waiters) : waiters[i] = f
    /\ \A i, k \in 1 .. Len(waiters) : waiters[i] = waiters[k] => i = k

Bookkeeping == OneRunPerJob /\ RunningExact /\ QueueExact /\ PermitsExact

IInv == Typing /\ Bookkeeping

Hold == {f \in Fires : pc[f] \in Holding}

-----------------------------------------------------------------------------
(* Facts about the operators.                                              *)

(* A non-empty set of naturals has its least element: Min is defined.      *)
LEMMA MinNat ==
    ASSUME NEW S \in SUBSET Nat, S # {}
    PROVE  Min(S) \in S /\ \A y \in S : Min(S) <= y
<1>1. PICK x \in S : \A y \in S : ~ (<<y, x>> \in OpToRel(<, Nat))
  BY NatLessThanWellFounded, WFMin, Zenon
<1>2. \A y \in S : ~ (y < x)
  BY <1>1, Zenon DEF OpToRel
<1>3. \A y \in S : x <= y
  BY <1>2
<1>4. QED
  BY <1>3 DEF Min

(* The next multiple of b after a, as a cron expression computes it.       *)
LEMMA NextMultiple ==
    ASSUME NEW a \in Nat, NEW b \in Nat \ {0}
    PROVE  ((a \div b) + 1) * b \in Nat /\ ((a \div b) + 1) * b > a
<1> DEFINE k == a \div b
<1>1. k \in Nat
  OBVIOUS
<1>2. a = b * k + (a % b) /\ a % b \in 0 .. (b - 1)
  BY Z3
<1> HIDE DEF k
<1>3. (k + 1) * b = b * k + b /\ b * k \in Nat
  BY <1>1, Z3
<1>4. (k + 1) * b \in Nat /\ (k + 1) * b > a
  BY <1>1, <1>2, <1>3
<1>5. QED
  BY <1>4 DEF k

(* next_run_at returns an instant; for a recurring job, a later one, so    *)
(* that writing it back before the run makes the job undue.                *)
LEMMA NextRunAtNat ==
    ASSUME NEW s \in Schedule, NEW clock \in Nat
    PROVE  /\ NextRunAt(s, clock) \in Nat
           /\ Recurring(s) => NextRunAt(s, clock) > clock
<1>1. s.t \in Nat \ {0}
  BY DEF Schedule
<1> DEFINE multiple == ((clock \div s.t) + 1) * s.t
<1>2. multiple \in Nat /\ multiple > clock
  BY <1>1, NextMultiple
<1>3. NextRunAt(s, clock) =
        CASE s.kind = "at" /\ s.abs -> s.t
          [] s.kind = "cron"        -> multiple
          [] OTHER                  -> clock + s.t
  BY DEF NextRunAt
<1> HIDE DEF multiple
<1>4. QED
  BY <1>1, <1>2, <1>3 DEF Recurring

(* A rescheduled row is a row, under its own id.                           *)
LEMMA RescheduledRow ==
    ASSUME NEW row \in Row, NEW s \in Schedule, NEW clock \in Nat
    PROVE  Rescheduled(row, s, clock) \in Row /\ Rescheduled(row, s, clock).id = row.id
BY NextRunAtNat DEF Rescheduled, Row

(* _mark_error leaves a row a row, under its own id.                       *)
LEMMA FailedRow ==
    ASSUME NEW row \in Row, NEW clock \in Nat
    PROVE  Failed(row, clock) \in Row /\ Failed(row, clock).id = row.id
<1> DEFINE S == {RetryCap, RetryUnit * (row.fails + 1)}
<1>1. row.fails + 1 \in Nat
  BY DEF Row
<1>2. RetryCap \in Nat /\ RetryUnit \in Nat /\ MaxFailures \in Nat
  BY CronAssumption
<1>3. RetryUnit * (row.fails + 1) \in Nat
  BY <1>1, <1>2
<1>4. S \in SUBSET Nat /\ S # {}
  BY <1>2, <1>3
<1>5. Min(S) \in Nat
  BY <1>4, MinNat
<1> DEFINE d == Min(S)
<1>6. Failed(row, clock) =
        IF row.fails + 1 >= MaxFailures
          THEN [row EXCEPT !.fails = row.fails + 1, !.enabled = FALSE]
          ELSE [row EXCEPT !.fails = row.fails + 1, !.next = clock + d]
  BY DEF Failed
<1>7. d \in Nat
  BY <1>5
<1> HIDE DEF d
<1>8. [row EXCEPT !.fails = row.fails + 1, !.enabled = FALSE] \in Row
  BY <1>1 DEF Row
<1>9. clock + d \in Nat
  BY <1>7
<1>10. [row EXCEPT !.fails = row.fails + 1, !.next = clock + d] \in Row
  BY <1>1, <1>9 DEF Row
<1>11. /\ [row EXCEPT !.fails = row.fails + 1, !.enabled = FALSE].id = row.id
       /\ [row EXCEPT !.fails = row.fails + 1, !.next = clock + d].id = row.id
  BY DEF Row
<1>12. QED
  BY <1>6, <1>8, <1>10, <1>11, Zenon

-----------------------------------------------------------------------------
(* Bookkeeping, by what a step does to calls, permits and the queue.       *)

(* A call that holds a permit accounts for one.                            *)
LEMMA HolderHasPermit ==
    ASSUME Typing, Bookkeeping, NEW f \in Fires, pc[f] \in Holding
    PROVE  /\ sem + 1 \in 0 .. MaxConcurrentRuns
           /\ Cardinality(Hold \ {f}) = Cardinality(Hold) - 1
           /\ Cardinality(Hold) \in Nat
<1>1. IsFiniteSet(Fires) /\ MaxConcurrentRuns \in Nat
  BY CronAssumption
<1>2. IsFiniteSet(Hold)
  BY <1>1, FS_Subset DEF Hold
<1>3. f \in Hold
  BY DEF Hold
<1>4. Cardinality(Hold \ {f}) = Cardinality(Hold) - 1 /\ Cardinality(Hold) \in Nat
  BY <1>2, <1>3, FS_RemoveElement, FS_CardinalityType
<1>5. Cardinality(Hold \ {f}) \in Nat
  BY <1>2, FS_Subset, FS_CardinalityType
<1>6. sem + Cardinality(Hold) = MaxConcurrentRuns
  BY DEF Bookkeeping, PermitsExact, Hold
<1>7. QED
  BY <1>1, <1>4, <1>5, <1>6 DEF Typing, TypeOK

(* A step that moves no call between waiting, holding and neither.         *)
LEMMA SameShape ==
    ASSUME Bookkeeping, UNCHANGED <<running, sem, waiters>>,
           \A f \in Fires : /\ pc'[f] \in Holding <=> pc[f] \in Holding
                            /\ pc'[f] = "queued" <=> pc[f] = "queued"
                            /\ pc[f] \in Active => copy'[f].id = copy[f].id
    PROVE  Bookkeeping'
<1>1. \A f \in Fires : pc'[f] \in Active <=> pc[f] \in Active
  BY DEF Active
<1>2. OneRunPerJob'
  BY <1>1 DEF Bookkeeping, OneRunPerJob
<1>3. {f \in Fires : pc'[f] \in Active} = {f \in Fires : pc[f] \in Active}
  BY <1>1
<1>4. {copy'[f].id : f \in {g \in Fires : pc'[g] \in Active}}
        = {copy[f].id : f \in {g \in Fires : pc[g] \in Active}}
  BY <1>1
<1>5. RunningExact'
  BY <1>4 DEF Bookkeeping, RunningExact
<1>6. QueueExact'
  BY DEF Bookkeeping, QueueExact
<1>7. {f \in Fires : pc'[f] \in Holding} = {f \in Fires : pc[f] \in Holding}
  OBVIOUS
<1>8. PermitsExact'
  BY <1>7 DEF Bookkeeping, PermitsExact
<1>9. QED
  BY <1>2, <1>5, <1>6, <1>8 DEF Bookkeeping

(* A call that returns gives back its id and its permit.                   *)
LEMMA ReleaseShape ==
    ASSUME Typing, Bookkeeping, NEW f \in Fires, pc[f] \in Holding, Release(f)
    PROVE  Bookkeeping'
<1>1. /\ pc' = [pc EXCEPT ![f] = "idle"]
      /\ copy' = [copy EXCEPT ![f] = NoRow]
      /\ running' = running \ {copy[f].id}
      /\ sem' = sem + 1
      /\ waiters' = waiters
  BY DEF Release, Leave
<1>2. /\ pc \in [Fires -> {"idle", "called", "queued", "start", "run", "settle", "error"}]
      /\ copy \in [Fires -> Row \cup {NoRow}]
      /\ sem \in Nat
  BY CronAssumption DEF Typing, TypeOK
<1>3. pc'[f] = "idle" /\ \A g \in Fires : g # f => pc'[g] = pc[g] /\ copy'[g] = copy[g]
  BY <1>1, <1>2
<1>4. pc[f] \in Active /\ pc[f] # "queued"
  BY DEF Active, Holding
<1>5. "idle" \notin Active /\ "idle" \notin Holding
  BY DEF Active, Holding
<1>6. OneRunPerJob'
  BY <1>3, <1>5 DEF Bookkeeping, OneRunPerJob
<1>7. {copy'[g].id : g \in {h \in Fires : pc'[h] \in Active}}
        = {copy[g].id : g \in {h \in Fires : pc[h] \in Active}} \ {copy[f].id}
  BY <1>3, <1>4, <1>5 DEF Bookkeeping, OneRunPerJob
<1>8. RunningExact'
  BY <1>1, <1>7 DEF Bookkeeping, RunningExact
<1>9. QueueExact'
  BY <1>1, <1>3, <1>4 DEF Bookkeeping, QueueExact
<1>10. {g \in Fires : pc'[g] \in Holding} = Hold \ {f}
  BY <1>3, <1>5 DEF Hold
<1>11. PermitsExact'
  BY <1>1, <1>2, <1>10, HolderHasPermit DEF Bookkeeping, PermitsExact, Hold
<1>12. QED
  BY <1>6, <1>8, <1>9, <1>11 DEF Bookkeeping

(* A call that takes a permit, from the head of the queue or at once.      *)
LEMMA GrantShape ==
    ASSUME Typing, Bookkeeping, NEW f \in Fires, pc[f] \notin Holding,
           sem > 0, sem' = sem - 1, pc' = [pc EXCEPT ![f] = "start"]
    PROVE  PermitsExact'
<1>1. pc \in [Fires -> {"idle", "called", "queued", "start", "run", "settle", "error"}]
      /\ sem \in Nat /\ MaxConcurrentRuns \in Nat /\ IsFiniteSet(Fires)
  BY CronAssumption DEF Typing, TypeOK
<1>2. {g \in Fires : pc'[g] \in Holding} = Hold \cup {f}
  BY <1>1 DEF Hold, Holding
<1>3. f \notin Hold /\ IsFiniteSet(Hold)
  BY <1>1, FS_Subset DEF Hold
<1>4. Cardinality(Hold \cup {f}) = Cardinality(Hold) + 1 /\ Cardinality(Hold) \in Nat
  BY <1>3, FS_AddElement, FS_CardinalityType
<1>5. sem + Cardinality(Hold) = MaxConcurrentRuns
  BY DEF Bookkeeping, PermitsExact, Hold
<1>6. QED
  BY <1>1, <1>2, <1>4, <1>5 DEF PermitsExact

(* A call that enters _running takes a permit or joins the queue.          *)
LEMMA EnterShape ==
    ASSUME Typing, Bookkeeping, NEW f \in Fires, FireEnter(f)
    PROVE  Bookkeeping'
<1>1. /\ pc \in [Fires -> {"idle", "called", "queued", "start", "run", "settle", "error"}]
      /\ waiters \in Seq(Fires)
  BY DEF Typing, TypeOK
<1>2. /\ pc[f] = "called" /\ copy[f].id \notin running
      /\ running' = running \cup {copy[f].id} /\ copy' = copy
  BY DEF FireEnter
<1>3. pc[f] \notin Active /\ pc[f] \notin Holding
  BY <1>2 DEF Active, Holding
<1>4. /\ pc'[f] \in {"start", "queued"}
      /\ \A g \in Fires : g # f => pc'[g] = pc[g]
  BY <1>1 DEF FireEnter
<1>5. \A g \in Fires : pc'[g] \in Active <=> pc[g] \in Active \/ g = f
  BY <1>4 DEF Active, Holding
<1>6. OneRunPerJob'
  BY <1>2, <1>3, <1>5 DEF Bookkeeping, OneRunPerJob, RunningExact
<1>7. {copy'[g].id : g \in {h \in Fires : pc'[h] \in Active}}
        = {copy[g].id : g \in {h \in Fires : pc[h] \in Active}} \cup {copy[f].id}
  BY <1>2, <1>5
<1>8. RunningExact'
  BY <1>2, <1>7 DEF Bookkeeping, RunningExact
<1>9. QueueExact' /\ PermitsExact'
  <2>1. CASE sem > 0 /\ sem' = sem - 1 /\ pc' = [pc EXCEPT ![f] = "start"] /\ waiters' = waiters
    <3>1. QueueExact'
      BY <1>1, <1>2, <2>1 DEF Bookkeeping, QueueExact
    <3>2. PermitsExact'
      BY <1>3, <2>1, GrantShape
    <3>3. QED
      BY <3>1, <3>2
  <2>2. CASE waiters' = Append(waiters, f) /\ pc' = [pc EXCEPT ![f] = "queued"] /\ sem' = sem
    <3>1. {g \in Fires : pc'[g] \in Holding} = {g \in Fires : pc[g] \in Holding}
      BY <1>1, <1>2, <2>2 DEF Holding
    <3>2. PermitsExact'
      BY <2>2, <3>1 DEF Bookkeeping, PermitsExact
    <3>3. /\ Len(waiters') = Len(waiters) + 1 /\ Len(waiters) \in Nat
          /\ waiters'[Len(waiters) + 1] = f
          /\ \A i \in 1 .. Len(waiters) : waiters'[i] = waiters[i]
      BY <1>1, <2>2
    <3>4. \A i \in 1 .. Len(waiters) : waiters[i] # f
      BY <1>2 DEF Bookkeeping, QueueExact
    <3>5. \A i, k \in 1 .. Len(waiters') : waiters'[i] = waiters'[k] => i = k
      BY <3>3, <3>4 DEF Bookkeeping, QueueExact
    <3>6. \A g \in Fires : pc'[g] = "queued" <=> \E i \in 1 .. Len(waiters') : waiters'[i] = g
      <4>1. ASSUME NEW g \in Fires, g # f
            PROVE  pc'[g] = "queued" <=> \E i \in 1 .. Len(waiters') : waiters'[i] = g
        BY <1>4, <3>3, <4>1 DEF Bookkeeping, QueueExact
      <4>2. pc'[f] = "queued" /\ \E i \in 1 .. Len(waiters') : waiters'[i] = f
        BY <1>1, <2>2, <3>3
      <4>3. QED
        BY <4>1, <4>2
    <3>7. QED
      BY <3>2, <3>5, <3>6 DEF QueueExact
  <2>3. QED
    BY <2>1, <2>2 DEF FireEnter
<1>10. QED
  BY <1>6, <1>8, <1>9 DEF Bookkeeping

(* The head of the queue takes the permit it has waited for.               *)
LEMMA AdmitShape ==
    ASSUME Typing, Bookkeeping, NEW f \in Fires, FireAdmitted(f)
    PROVE  Bookkeeping'
<1>1. /\ pc \in [Fires -> {"idle", "called", "queued", "start", "run", "settle", "error"}]
      /\ waiters \in Seq(Fires)
  BY DEF Typing, TypeOK
<1>2. /\ pc[f] = "queued" /\ pc' = [pc EXCEPT ![f] = "start"]
      /\ running' = running /\ copy' = copy
      /\ waiters # <<>> /\ f = Head(waiters) /\ waiters' = Tail(waiters)
      /\ sem > 0 /\ sem' = sem - 1
  BY DEF FireAdmitted
<1>3. pc'[f] = "start" /\ \A g \in Fires : g # f => pc'[g] = pc[g]
  BY <1>1, <1>2
<1>4. \A g \in Fires : pc'[g] \in Active <=> pc[g] \in Active
  BY <1>2, <1>3 DEF Active, Holding
<1>5. OneRunPerJob'
  BY <1>2, <1>4 DEF Bookkeeping, OneRunPerJob
<1>6. {copy'[g].id : g \in {h \in Fires : pc'[h] \in Active}}
        = {copy[g].id : g \in {h \in Fires : pc[h] \in Active}}
  BY <1>2, <1>4
<1>7. RunningExact'
  BY <1>2, <1>6 DEF Bookkeeping, RunningExact
<1>8. /\ Len(waiters) \in Nat \ {0} /\ Len(waiters') = Len(waiters) - 1
      /\ waiters[1] = f
      /\ \A i \in 1 .. Len(waiters') : waiters'[i] = waiters[i + 1]
  BY <1>1, <1>2
<1>9. \A i, k \in 1 .. Len(waiters') : waiters'[i] = waiters'[k] => i = k
  <2>1. ASSUME NEW i \in 1 .. Len(waiters'), NEW k \in 1 .. Len(waiters'),
               waiters'[i] = waiters'[k]
        PROVE  i = k
    <3>1. i + 1 \in 1 .. Len(waiters) /\ k + 1 \in 1 .. Len(waiters)
      BY <1>8
    <3>2. waiters[i + 1] = waiters[k + 1]
      BY <1>8, <2>1
    <3>3. i + 1 = k + 1
      BY <3>1, <3>2 DEF Bookkeeping, QueueExact
    <3>4. QED
      BY <1>8, <3>3
  <2>2. QED
    BY <2>1
<1>10. ASSUME NEW g \in Fires
       PROVE  pc'[g] = "queued" <=> \E i \in 1 .. Len(waiters') : waiters'[i] = g
  <2>1. CASE g = f
    <3>1. ASSUME NEW i \in 1 .. Len(waiters'), waiters'[i] = f
          PROVE  FALSE
      <4>1. i + 1 \in 1 .. Len(waiters) /\ 1 \in 1 .. Len(waiters) /\ i \in Nat \ {0}
        BY <1>8
      <4>2. waiters[i + 1] = waiters[1]
        BY <1>8, <3>1
      <4>3. i + 1 = 1
        BY <4>1, <4>2 DEF Bookkeeping, QueueExact
      <4>4. QED
        BY <4>1, <4>3
    <3>2. QED
      BY <1>3, <2>1, <3>1
  <2>2. CASE g # f
    <3>1. pc'[g] = "queued" <=> \E i \in 1 .. Len(waiters) : waiters[i] = g
      BY <1>3, <2>2 DEF Bookkeeping, QueueExact
    <3>2. (\E i \in 1 .. Len(waiters) : waiters[i] = g)
            => \E i \in 1 .. Len(waiters') : waiters'[i] = g
      <4>1. ASSUME NEW i \in 1 .. Len(waiters), waiters[i] = g
            PROVE  \E n \in 1 .. Len(waiters') : waiters'[n] = g
        <5>1. i # 1
          BY <1>8, <2>2, <4>1
        <5>2. i - 1 \in 1 .. Len(waiters') /\ (i - 1) + 1 = i
          BY <1>8, <5>1
        <5>3. waiters'[i - 1] = g
          BY <1>8, <4>1, <5>2
        <5>4. QED
          BY <5>2, <5>3
      <4>2. QED
        BY <4>1
    <3>3. (\E i \in 1 .. Len(waiters') : waiters'[i] = g)
            => \E i \in 1 .. Len(waiters) : waiters[i] = g
      <4>1. \A i \in 1 .. Len(waiters') : i + 1 \in 1 .. Len(waiters)
        BY <1>8
      <4>2. QED
        BY <1>8, <4>1
    <3>4. QED
      BY <3>1, <3>2, <3>3
  <2>3. QED
    BY <2>1, <2>2
<1>11. QueueExact'
  BY <1>9, <1>10 DEF QueueExact
<1>12. pc[f] \notin Holding
  BY <1>2 DEF Holding
<1>13. PermitsExact'
  BY <1>2, <1>12, GrantShape
<1>14. QED
  BY <1>5, <1>7, <1>11, <1>13 DEF Bookkeeping

(* What is left of a sequence without its i-th element.                    *)
LEMMA WithoutOne ==
    ASSUME NEW S, NEW s \in Seq(S), NEW i \in 1 .. Len(s)
    PROVE  /\ Without(s, i) \in Seq(S)
           /\ Len(Without(s, i)) = Len(s) - 1 /\ Len(s) \in Nat \ {0}
           /\ \A k \in 1 .. (Len(s) - 1) :
                 Without(s, i)[k] = s[IF k < i THEN k ELSE k + 1]
<1>1. Len(s) \in Nat \ {0} /\ \A k \in 1 .. Len(s) : s[k] \in S
  OBVIOUS
<1> DEFINE n == Len(s) - 1
           t == [k \in 1 .. n |-> s[IF k < i THEN k ELSE k + 1]]
<1>2. n \in Nat
  BY <1>1
<1>3. \A k \in 1 .. n : s[IF k < i THEN k ELSE k + 1] \in S
  BY <1>1
<1>4. t \in Seq(S) /\ Len(t) = n
  BY <1>2, <1>3
<1>5. Without(s, i) = t
  BY DEF Without
<1>6. QED
  BY <1>1, <1>4, <1>5

(* A waiting call that is cut off gives back its id and its place.         *)
LEMMA WithdrawShape ==
    ASSUME Typing, Bookkeeping, NEW f \in Fires, CutWaiting(f)
    PROVE  Bookkeeping' /\ waiters' \in Seq(Fires)
<1>1. /\ pc \in [Fires -> {"idle", "called", "queued", "start", "run", "settle", "error"}]
      /\ copy \in [Fires -> Row \cup {NoRow}]
      /\ waiters \in Seq(Fires)
  BY DEF Typing, TypeOK
<1>2. /\ pc[f] = "queued" /\ pc' = [pc EXCEPT ![f] = "idle"]
      /\ copy' = [copy EXCEPT ![f] = NoRow]
      /\ running' = running \ {copy[f].id} /\ sem' = sem
  BY DEF CutWaiting, Leave
<1>3. PICK i \in 1 .. Len(waiters) : waiters[i] = f /\ waiters' = Without(waiters, i)
  BY DEF CutWaiting
<1>4. pc'[f] = "idle" /\ \A g \in Fires : g # f => pc'[g] = pc[g] /\ copy'[g] = copy[g]
  BY <1>1, <1>2
<1>5. "idle" \notin Active /\ "idle" \notin Holding /\ pc[f] \in Active /\ pc[f] \notin Holding
  BY <1>2 DEF Active, Holding
<1>6. OneRunPerJob'
  BY <1>4, <1>5 DEF Bookkeeping, OneRunPerJob
<1>7. {copy'[g].id : g \in {h \in Fires : pc'[h] \in Active}}
        = {copy[g].id : g \in {h \in Fires : pc[h] \in Active}} \ {copy[f].id}
  BY <1>4, <1>5 DEF Bookkeeping, OneRunPerJob
<1>8. RunningExact'
  BY <1>2, <1>7 DEF Bookkeeping, RunningExact
<1>9. {g \in Fires : pc'[g] \in Holding} = {g \in Fires : pc[g] \in Holding}
  BY <1>4, <1>5
<1>10. PermitsExact'
  BY <1>2, <1>9 DEF Bookkeeping, PermitsExact
<1> DEFINE place(k) == IF k < i THEN k ELSE k + 1
<1>11. /\ waiters' \in Seq(Fires)
       /\ Len(waiters') = Len(waiters) - 1 /\ Len(waiters) \in Nat \ {0}
       /\ \A k \in 1 .. Len(waiters') : waiters'[k] = waiters[place(k)]
  BY <1>1, <1>3, WithoutOne
<1>12. \A k \in 1 .. Len(waiters') : place(k) \in 1 .. Len(waiters) /\ place(k) # i
  BY <1>11
<1>13. \A k, m \in 1 .. Len(waiters') : waiters'[k] = waiters'[m] => k = m
  <2>1. ASSUME NEW k \in 1 .. Len(waiters'), NEW m \in 1 .. Len(waiters'),
               waiters'[k] = waiters'[m]
        PROVE  k = m
    <3>1. place(k) = place(m)
      BY <1>11, <1>12, <2>1 DEF Bookkeeping, QueueExact
    <3>2. QED
      BY <1>11, <3>1
  <2>2. QED
    BY <2>1
<1>14. ASSUME NEW g \in Fires
       PROVE  pc'[g] = "queued" <=> \E k \in 1 .. Len(waiters') : waiters'[k] = g
  <2>1. ASSUME NEW k \in 1 .. Len(waiters')
        PROVE  waiters'[k] # f /\ pc[waiters'[k]] = "queued"
    <3>1. waiters[place(k)] # waiters[i]
      BY <1>12 DEF Bookkeeping, QueueExact
    <3>2. waiters[place(k)] \in Fires /\ pc[waiters[place(k)]] = "queued"
      BY <1>1, <1>12 DEF Bookkeeping, QueueExact
    <3>3. waiters'[k] = waiters[place(k)]
      BY <1>11
    <3> HIDE DEF place
    <3>4. QED
      BY <1>3, <3>1, <3>2, <3>3
  <2>2. ASSUME g # f, pc[g] = "queued"
        PROVE  \E k \in 1 .. Len(waiters') : waiters'[k] = g
    <3>1. PICK m \in 1 .. Len(waiters) : waiters[m] = g
      BY <2>2 DEF Bookkeeping, QueueExact
    <3>2. m # i
      BY <1>3, <2>2, <3>1
    <3> DEFINE k == IF m < i THEN m ELSE m - 1
    <3>3. k \in 1 .. Len(waiters') /\ place(k) = m
      BY <1>11, <3>2
    <3>4. QED
      BY <1>11, <3>1, <3>3
  <2>3. QED
    BY <1>4, <2>1, <2>2
<1>15. QueueExact'
  BY <1>13, <1>14 DEF QueueExact
<1>16. QED
  BY <1>6, <1>8, <1>10, <1>11, <1>15 DEF Bookkeeping

(* No call at all: a process that has just begun.                          *)
LEMMA FreshShape ==
    /\ running = {} /\ sem = MaxConcurrentRuns /\ waiters = <<>>
    /\ pc = [f \in Fires |-> "idle"]
    => Bookkeeping
<1> SUFFICES ASSUME running = {}, sem = MaxConcurrentRuns, waiters = <<>>,
                    pc = [f \in Fires |-> "idle"]
             PROVE  Bookkeeping
  OBVIOUS
<1>1. \A f \in Fires : pc[f] \notin Active /\ pc[f] \notin Holding /\ pc[f] # "queued"
  BY DEF Active, Holding
<1>2. {f \in Fires : pc[f] \in Active} = {} /\ {f \in Fires : pc[f] \in Holding} = {}
  BY <1>1
<1>3. OneRunPerJob
  BY <1>1 DEF OneRunPerJob
<1>4. RunningExact
  BY <1>2 DEF RunningExact
<1>5. QueueExact
  BY <1>1 DEF QueueExact
<1>6. PermitsExact
  <2>1. Cardinality({f \in Fires : pc[f] \in Holding}) = 0
    BY <1>2, FS_EmptySet, Zenon
  <2>2. QED
    BY <2>1, CronAssumption DEF PermitsExact
<1>7. QED
  BY <1>3, <1>4, <1>5, <1>6 DEF Bookkeeping

-----------------------------------------------------------------------------
(* Typing.                                                                 *)

(* A new service on an empty table is typed.                               *)
LEMMA InitTyping == Init => Typing
<1>1. MaxConcurrentRuns \in Nat
  BY CronAssumption
<1>2. <<>> \in Seq(Fires)
  OBVIOUS
<1>3. Init => TypeOK
  <2> SUFFICES ASSUME Init PROVE TypeOK
    OBVIOUS
  <2>1. sem \in 0 .. MaxConcurrentRuns
    BY <1>1 DEF Init
  <2>2. waiters \in Seq(Fires)
    BY <1>2 DEF Init
  <2>3. pc \in [Fires -> {"idle", "called", "queued", "start", "run", "settle", "error"}]
    BY DEF Init
  <2>4. copy \in [Fires -> Row \cup {NoRow}]
    BY DEF Init
  <2>5. forced \in [Fires -> BOOLEAN] /\ startedAt \in [Fires -> Nat]
    BY DEF Init
  <2>6. db \in [Jobs -> Row \cup {NoRow}] /\ cmd \in [Callers -> Row \cup {NoRow}]
    BY DEF Init
  <2>7. QED
    BY <2>1, <2>2, <2>3, <2>4, <2>5, <2>6 DEF Init, TypeOK
<1>4. Init => CallOK /\ RowsOK
  BY DEF Init, CallOK, RowsOK
<1>5. QED
  BY <1>3, <1>4 DEF Typing

(* What a call knows of its own row.                                       *)
LEMMA CallFacts ==
    ASSUME Typing, NEW f \in Fires, pc[f] # "idle"
    PROVE  copy[f] \in Row /\ copy[f].id \in Jobs /\ copy[f].sched \in Schedule
BY DEF Typing, TypeOK, CallOK, Row

(* The state of the calls stays typed when one of them returns.            *)
LEMMA ReleaseTyping ==
    ASSUME Typing, Bookkeeping, NEW f \in Fires, pc[f] \in Holding, Release(f)
    PROVE  /\ CallOK'
           /\ running' \subseteq Jobs
           /\ sem' \in 0 .. MaxConcurrentRuns
           /\ waiters' \in Seq(Fires)
           /\ pc' \in [Fires -> {"idle", "called", "queued", "start", "run", "settle", "error"}]
           /\ copy' \in [Fires -> Row \cup {NoRow}]
           /\ forced' \in [Fires -> BOOLEAN]
           /\ startedAt' \in [Fires -> Nat]
<1>1. sem + 1 \in 0 .. MaxConcurrentRuns
  BY HolderHasPermit
<1>2. QED
  BY <1>1, CronAssumption DEF Typing, TypeOK, CallOK, Release, Leave

(* The table stays typed when a row is written under its id, or deleted.   *)
LEMMA PutTyping ==
    ASSUME Typing, NEW row \in Row, Put(row)
    PROVE  db' \in [Jobs -> Row \cup {NoRow}] /\ RowsOK'
BY DEF Put, Typing, TypeOK, RowsOK, Row

(* The same when the row of an id is deleted.                              *)
LEMMA DeleteTyping ==
    ASSUME Typing, NEW j \in Jobs, Delete(j)
    PROVE  db' \in [Jobs -> Row \cup {NoRow}] /\ RowsOK'
BY DEF Delete, Typing, TypeOK, RowsOK

(* Every step of a call of fire() keeps the invariant.                     *)
LEMMA FireInv ==
    ASSUME IInv, NEW f \in Fires, FireStep(f)
    PROVE  IInv'
<1> USE DEF IInv
<1>1. CASE FireRejected(f)
  <2>1. Typing'
    BY <1>1 DEF FireRejected, Typing, TypeOK, CallOK, RowsOK, loopVars
  <2>2. Bookkeeping'
    BY <1>1, SameShape DEF FireRejected, Holding, Active, Typing, TypeOK
  <2>3. QED
    BY <2>1, <2>2
<1>2. CASE FireEnter(f)
  <2>1. copy[f].id \in Jobs
    BY <1>2, CallFacts DEF FireEnter
  <2>2. MaxConcurrentRuns \in Nat
    BY CronAssumption
  <2>3. sem' \in 0 .. MaxConcurrentRuns /\ waiters' \in Seq(Fires)
    <3>1. waiters \in Seq(Fires) /\ sem \in 0 .. MaxConcurrentRuns
      BY DEF Typing, TypeOK
    <3>2. Append(waiters, f) \in Seq(Fires)
      BY <3>1
    <3>3. QED
      BY <1>2, <2>2, <3>1, <3>2 DEF FireEnter
  <2>4. /\ pc[f] = "called"
        /\ pc' = [pc EXCEPT ![f] = "start"] \/ pc' = [pc EXCEPT ![f] = "queued"]
        /\ running' = running \cup {copy[f].id}
        /\ UNCHANGED <<now, db, unused, loopVars, wake, copy, forced, startedAt, cmd>>
    BY <1>2 DEF FireEnter
  <2>5. CallOK' /\ RowsOK'
    BY <2>4 DEF Typing, TypeOK, CallOK, RowsOK
  <2>6. TypeOK'
    BY <2>1, <2>3, <2>4 DEF Typing, TypeOK, loopVars
  <2>7. QED
    BY <1>2, <2>5, <2>6, EnterShape DEF Typing
<1>3. CASE FireAdmitted(f)
  <2>1. Tail(waiters) \in Seq(Fires)
    BY <1>3 DEF FireAdmitted, Typing, TypeOK
  <2>2. sem' \in 0 .. MaxConcurrentRuns /\ waiters' \in Seq(Fires)
    BY <1>3, <2>1, CronAssumption DEF FireAdmitted, Typing, TypeOK
  <2>3. Typing'
    BY <1>3, <2>2 DEF FireAdmitted, Typing, TypeOK, CallOK, RowsOK, loopVars
  <2>4. QED
    BY <1>3, <2>3, AdmitShape
<1>4. CASE FireSkip(f)
  <2>1. pc[f] \in Holding /\ pc[f] # "idle"
    BY <1>4 DEF FireSkip, Holding
  <2>2. copy[f] \in Row /\ copy[f].id \in Jobs /\ copy[f].sched \in Schedule /\ now \in Nat
    BY <2>1, CallFacts DEF Typing, TypeOK
  <2>3. Rescheduled(copy[f], copy[f].sched, now) \in Row
    BY <2>2, RescheduledRow
  <2>4. db' \in [Jobs -> Row \cup {NoRow}] /\ RowsOK'
    BY <1>4, <2>2, <2>3, PutTyping, DeleteTyping DEF FireSkip
  <2>5. Release(f) /\ wake' = TRUE /\ UNCHANGED <<now, unused, loopVars, cmd>>
    BY <1>4 DEF FireSkip
  <2>6. Typing'
    BY <2>1, <2>4, <2>5, ReleaseTyping DEF Typing, TypeOK, loopVars
  <2>7. QED
    BY <2>1, <2>5, <2>6, ReleaseShape
<1>5. CASE FireRecurring(f)
  <2>1. pc[f] \in Holding /\ pc[f] # "idle" /\ pc[f] = "start"
    BY <1>5 DEF FireRecurring, Holding
  <2>2. copy[f] \in Row /\ copy[f].id \in Jobs /\ copy[f].sched \in Schedule /\ now \in Nat
    BY <2>1, CallFacts DEF Typing, TypeOK
  <2> DEFINE job == Rescheduled(copy[f], copy[f].sched, now)
  <2>3. job \in Row /\ job.id = copy[f].id
    BY <2>2, RescheduledRow
  <2>4. /\ Put(job) /\ wake' = TRUE
        /\ copy' = [copy EXCEPT ![f] = job]
        /\ startedAt' = [startedAt EXCEPT ![f] = now]
        /\ pc' = [pc EXCEPT ![f] = "run"]
        /\ UNCHANGED <<now, unused, loopVars, running, sem, waiters, forced, cmd>>
    BY <1>5 DEF FireRecurring
  <2> HIDE DEF job
  <2>5. db' \in [Jobs -> Row \cup {NoRow}] /\ RowsOK'
    BY <2>3, <2>4, PutTyping
  <2>6. CallOK'
    BY <2>1, <2>3, <2>4, CronAssumption DEF Typing, TypeOK, CallOK
  <2>7. TypeOK'
    BY <2>2, <2>3, <2>4, <2>5 DEF Typing, TypeOK, loopVars
  <2>8. Bookkeeping'
    BY <2>1, <2>3, <2>4, SameShape DEF Holding, Active, Typing, TypeOK
  <2>9. QED
    BY <2>5, <2>6, <2>7, <2>8 DEF Typing
<1>6. CASE FireOnce(f)
  <2>1. Typing'
    BY <1>6 DEF FireOnce, Typing, TypeOK, CallOK, RowsOK, loopVars
  <2>2. Bookkeeping'
    BY <1>6, SameShape DEF FireOnce, Holding, Active, Typing, TypeOK
  <2>3. QED
    BY <2>1, <2>2
<1>7. CASE RunOk(f)
  <2>1. pc[f] = "run" /\ pc[f] \in Holding /\ pc[f] # "idle"
    BY <1>7 DEF RunOk, Holding
  <2>2. copy[f] \in Row /\ copy[f].id \in Jobs
    BY <2>1, CallFacts
  <2>3. UNCHANGED <<now, db, unused, loopVars, wake, cmd>>
    BY <1>7 DEF RunOk
  <2>4. CASE Release(f)
    <3>1. Typing'
      BY <2>1, <2>3, <2>4, ReleaseTyping DEF Typing, TypeOK, RowsOK, loopVars
    <3>2. QED
      BY <2>1, <2>4, <3>1, ReleaseShape
  <2>5. CASE ~Release(f)
    <3> DEFINE row == [db[copy[f].id] EXCEPT !.fails = 0]
    <3>1. /\ db[copy[f].id] # NoRow
          /\ copy' = [copy EXCEPT ![f] = row]
          /\ pc' = [pc EXCEPT ![f] = "settle"]
          /\ UNCHANGED <<running, sem, waiters, forced, startedAt>>
      BY <1>7, <2>5 DEF RunOk
    <3>2. db[copy[f].id] \in Row /\ db[copy[f].id].id = copy[f].id
      BY <2>2, <3>1 DEF Typing, TypeOK, RowsOK
    <3>3. row \in Row /\ row.id = copy[f].id
      BY <3>2 DEF Row
    <3> HIDE DEF row
    <3>4. CallOK' /\ RowsOK'
      BY <2>1, <2>3, <3>1, <3>3, CronAssumption DEF Typing, TypeOK, CallOK, RowsOK
    <3>5. TypeOK'
      BY <2>3, <3>1, <3>3 DEF Typing, TypeOK, loopVars
    <3>6. Bookkeeping'
      BY <2>1, <3>1, <3>3, SameShape DEF Holding, Active, Typing, TypeOK
    <3>7. QED
      BY <3>4, <3>5, <3>6 DEF Typing
  <2>6. QED
    BY <2>4, <2>5
<1>8. CASE SettleWrite(f)
  <2>1. pc[f] \in Holding /\ pc[f] # "idle"
    BY <1>8 DEF SettleWrite, Holding
  <2>2. copy[f] \in Row /\ copy[f].id \in Jobs
    BY <2>1, CallFacts
  <2>3. db' \in [Jobs -> Row \cup {NoRow}] /\ RowsOK'
    BY <1>8, <2>2, PutTyping, DeleteTyping DEF SettleWrite
  <2>4. Release(f) /\ wake' \in BOOLEAN /\ UNCHANGED <<now, unused, loopVars, cmd>>
    BY <1>8 DEF SettleWrite, Typing, TypeOK
  <2>5. Typing'
    BY <2>1, <2>3, <2>4, ReleaseTyping DEF Typing, TypeOK, loopVars
  <2>6. QED
    BY <2>1, <2>4, <2>5, ReleaseShape
<1>9. CASE RunError(f)
  <2>1. pc[f] = "run" /\ pc[f] # "idle"
    BY <1>9 DEF RunError
  <2>2. copy[f] \in Row /\ copy[f].id \in Jobs /\ startedAt[f] \in Nat
    BY <2>1, CallFacts DEF Typing, TypeOK
  <2> DEFINE current == IF db[copy[f].id] = NoRow THEN copy[f] ELSE db[copy[f].id]
  <2>3. current \in Row /\ current.id = copy[f].id
    BY <2>2 DEF Typing, TypeOK, RowsOK
  <2> DEFINE row == Failed(current, startedAt[f])
  <2>4. /\ copy' = [copy EXCEPT ![f] = row]
        /\ pc' = [pc EXCEPT ![f] = "error"]
        /\ UNCHANGED <<now, db, unused, loopVars, wake, running, sem, waiters, forced, startedAt, cmd>>
    BY <1>9 DEF RunError
  <2> HIDE DEF current
  <2>5. row \in Row /\ row.id = copy[f].id
    BY <2>2, <2>3, FailedRow
  <2> HIDE DEF row
  <2>6. CallOK' /\ RowsOK'
    BY <2>1, <2>4, <2>5, CronAssumption DEF Typing, TypeOK, CallOK, RowsOK
  <2>7. TypeOK'
    BY <2>4, <2>5 DEF Typing, TypeOK, loopVars
  <2>8. Bookkeeping'
    BY <2>1, <2>4, <2>5, SameShape DEF Holding, Active, Typing, TypeOK
  <2>9. QED
    BY <2>6, <2>7, <2>8 DEF Typing
<1>10. CASE ErrorWrite(f)
  <2>1. pc[f] \in Holding /\ pc[f] # "idle"
    BY <1>10 DEF ErrorWrite, Holding
  <2>2. copy[f] \in Row
    BY <2>1, CallFacts
  <2>3. Put(copy[f]) /\ Release(f) /\ wake' = TRUE /\ UNCHANGED <<now, unused, loopVars, cmd>>
    BY <1>10 DEF ErrorWrite
  <2>4. db' \in [Jobs -> Row \cup {NoRow}] /\ RowsOK'
    BY <2>2, <2>3, PutTyping
  <2>5. Typing'
    BY <2>1, <2>3, <2>4, ReleaseTyping DEF Typing, TypeOK, loopVars
  <2>6. QED
    BY <2>1, <2>3, <2>5, ReleaseShape
<1>11. CASE FireAbort(f)
  <2>1. /\ pc[f] \in Holding /\ Release(f)
        /\ UNCHANGED <<now, db, unused, loopVars, wake, cmd>>
    BY <1>11 DEF FireAbort, Holding
  <2>2. Typing'
    BY <2>1, ReleaseTyping DEF Typing, TypeOK, RowsOK, loopVars
  <2>3. QED
    BY <2>1, <2>2, ReleaseShape
<1>12. QED
  BY <1>1, <1>2, <1>3, <1>4, <1>5, <1>6, <1>7, <1>8, <1>9, <1>10, <1>11 DEF FireStep

(* A call that is cut off keeps the invariant, wherever it waited.         *)
LEMMA CutInv ==
    ASSUME IInv, NEW f \in Fires, CutStep(f)
    PROVE  IInv'
<1> USE DEF IInv
<1>1. CASE CutReading(f)
  <2>1. Typing'
    BY <1>1 DEF CutReading, Typing, TypeOK, CallOK, RowsOK, loopVars
  <2>2. Bookkeeping'
    BY <1>1, SameShape DEF CutReading, Holding, Active, Typing, TypeOK
  <2>3. QED
    BY <2>1, <2>2
<1>2. CASE CutWaiting(f)
  <2>1. Leave(f) /\ UNCHANGED <<now, db, unused, loopVars, wake, sem, cmd>>
    BY <1>2 DEF CutWaiting
  <2>2. Bookkeeping' /\ waiters' \in Seq(Fires)
    BY <1>2, WithdrawShape
  <2>3. Typing'
    BY <2>1, <2>2 DEF Leave, Typing, TypeOK, CallOK, RowsOK, loopVars
  <2>4. QED
    BY <2>2, <2>3
<1>3. CASE CutRunning(f)
  <2>1. pc[f] \in Holding /\ pc[f] # "idle"
    BY <1>3 DEF CutRunning, Holding
  <2>2. copy[f] \in Row /\ copy[f].id \in Jobs /\ copy[f].sched \in Schedule /\ now \in Nat
    BY <2>1, CallFacts DEF Typing, TypeOK
  <2>3. Rescheduled(copy[f], copy[f].sched, now) \in Row
    BY <2>2, RescheduledRow
  <2>4. db' \in [Jobs -> Row \cup {NoRow}] /\ RowsOK'
    <3>1. CASE PendingWrite(f)
      BY <2>2, <2>3, <3>1, PutTyping, DeleteTyping DEF PendingWrite
    <3>2. CASE UNCHANGED db
      BY <3>2 DEF Typing, TypeOK, RowsOK
    <3>3. QED
      BY <1>3, <3>1, <3>2 DEF CutRunning
  <2>5. Release(f) /\ UNCHANGED <<now, unused, loopVars, wake, cmd>>
    BY <1>3 DEF CutRunning
  <2>6. Typing'
    BY <2>1, <2>4, <2>5, ReleaseTyping DEF Typing, TypeOK, loopVars
  <2>7. QED
    BY <2>1, <2>5, <2>6, ReleaseShape
<1>4. QED
  BY <1>1, <1>2, <1>3 DEF CutStep

(* The rows a SELECT returns are rows of the table, under their own ids.   *)
LEMMA SelectedRows ==
    ASSUME Typing, NEW r \in Due \cup Enabled
    PROVE  r \in Row /\ r.id \in Jobs /\ db[r.id] = r
BY DEF Due, Enabled, Typing, TypeOK, RowsOK, Row

(* Every step of the loop keeps the invariant.                             *)
LEMMA LoopInv ==
    ASSUME IInv, LoopStep
    PROVE  IInv'
<1> USE DEF IInv
<1>1. CASE TickRead
  <2>1. /\ seen' \subseteq Due /\ loop' = "dispatch"
        /\ UNCHANGED <<now, db, unused, deadline, wake, fireVars, cmd>>
    BY <1>1 DEF TickRead
  <2>2. seen' \subseteq Row
    BY <2>1, SelectedRows
  <2>3. Typing'
    BY <2>1, <2>2 DEF Typing, TypeOK, CallOK, RowsOK, fireVars
  <2>4. Bookkeeping'
    BY <2>1, SameShape DEF fireVars
  <2>5. QED
    BY <2>3, <2>4
<1>2. CASE TickDispatch
  <2> DEFINE fresh == {r \in seen : r.id \notin running}
  <2>1. PICK slot \in [fresh -> Idle \ OwnerFires] :
           /\ pc' = [f \in Fires |->
                       IF \E r \in fresh : slot[r] = f THEN "called" ELSE pc[f]]
           /\ copy' = [f \in Fires |->
                         IF \E r \in fresh : slot[r] = f
                           THEN CHOOSE r \in fresh : slot[r] = f
                           ELSE copy[f]]
    BY <1>2 DEF TickDispatch
  <2>2. /\ loop' = "plan" /\ seen' = {}
        /\ UNCHANGED <<now, db, unused, deadline, wake, running, sem, waiters, forced, startedAt, cmd>>
    BY <1>2 DEF TickDispatch
  <2>3. fresh \subseteq Row
    BY DEF Typing, TypeOK
  <2>4. \A r \in fresh : pc[slot[r]] = "idle" /\ slot[r] \in Fires
    BY <2>1 DEF Idle
  <2> HIDE DEF fresh
  <2>5. ASSUME NEW f \in Fires
        PROVE  \/ pc'[f] = "called" /\ copy'[f] \in Row /\ pc[f] = "idle"
               \/ pc'[f] = pc[f] /\ copy'[f] = copy[f]
    <3>1. CASE \E r \in fresh : slot[r] = f
      <4>1. pc'[f] = "called" /\ copy'[f] = CHOOSE r \in fresh : slot[r] = f
        BY <2>1, <3>1
      <4>2. QED
        BY <2>3, <2>4, <3>1, <4>1
    <3>2. CASE ~ \E r \in fresh : slot[r] = f
      BY <2>1, <3>2
    <3>3. QED
      BY <3>1, <3>2
  <2>6. /\ pc' \in [Fires -> {"idle", "called", "queued", "start", "run", "settle", "error"}]
        /\ copy' \in [Fires -> Row \cup {NoRow}]
    <3>1. DOMAIN pc' = Fires /\ DOMAIN copy' = Fires
          /\ pc' = [f \in Fires |-> pc'[f]] /\ copy' = [f \in Fires |-> copy'[f]]
      BY <2>1
    <3>2. QED
      BY <2>5, <3>1 DEF Typing, TypeOK
  <2>7. CallOK'
    BY <2>2, <2>5, CronAssumption DEF Typing, CallOK
  <2>8. TypeOK' /\ RowsOK'
    BY <2>2, <2>6 DEF Typing, TypeOK, RowsOK
  <2>9. Bookkeeping'
    BY <2>2, <2>5, SameShape DEF Holding, Active
  <2>10. QED
    BY <2>7, <2>8, <2>9 DEF Typing
<1>3. CASE PlanRead
  <2>1. /\ seen' = Enabled /\ loop' = "doze"
        /\ UNCHANGED <<now, db, unused, deadline, wake, fireVars, cmd>>
    BY <1>3 DEF PlanRead
  <2>2. seen' \subseteq Row
    BY <2>1, SelectedRows
  <2>3. Typing'
    BY <2>1, <2>2 DEF Typing, TypeOK, CallOK, RowsOK, fireVars
  <2>4. Bookkeeping'
    BY <2>1, SameShape DEF fireVars
  <2>5. QED
    BY <2>3, <2>4
<1>4. CASE GoToSleep
  <2> DEFINE dues == {r.next : r \in {q \in seen : q.id \notin running}}
             soonest == Min(dues \cup {now + Heartbeat})
  <2>1. now \in Nat /\ Heartbeat \in Nat /\ dues \in SUBSET Nat
    BY CronAssumption DEF Typing, TypeOK, Row
  <2>2. soonest \in Nat
    BY <2>1, MinNat
  <2>3. /\ deadline' = IF soonest < now THEN now ELSE soonest
        /\ wake' = FALSE /\ loop' = "sleep" /\ seen' = {}
        /\ UNCHANGED <<now, db, unused, fireVars, cmd>>
    BY <1>4 DEF GoToSleep
  <2> HIDE DEF soonest
  <2>4. deadline' \in Nat
    BY <2>1, <2>2, <2>3
  <2>5. Typing'
    BY <2>3, <2>4 DEF Typing, TypeOK, CallOK, RowsOK, fireVars
  <2>6. Bookkeeping'
    BY <2>3, SameShape DEF fireVars
  <2>7. QED
    BY <2>5, <2>6
<1>5. CASE TickFail
  <2>1. now + TickRetry \in Nat
    BY CronAssumption DEF Typing, TypeOK
  <2>2. Typing'
    BY <1>5, <2>1 DEF TickFail, Typing, TypeOK, CallOK, RowsOK, fireVars
  <2>3. Bookkeeping'
    BY <1>5, SameShape DEF TickFail, fireVars
  <2>4. QED
    BY <2>2, <2>3
<1>6. CASE LoopWake
  <2>1. Typing'
    BY <1>6 DEF LoopWake, Typing, TypeOK, CallOK, RowsOK, fireVars
  <2>2. Bookkeeping'
    BY <1>6, SameShape DEF LoopWake, fireVars
  <2>3. QED
    BY <2>1, <2>2
<1>7. QED
  BY <1>1, <1>2, <1>3, <1>4, <1>5, <1>6 DEF LoopStep

(* The row a command writes back is a row, under the id it was read from.  *)
LEMMA EditTyping ==
    ASSUME Typing, NEW c \in Callers, NEW j \in Jobs, NEW row \in Row, Edit(c, j, row)
    PROVE  Typing'
BY DEF Edit, Typing, TypeOK, CallOK, RowsOK, loopVars, fireVars

(* Every command of the owner keeps the invariant.                         *)
LEMMA OwnerInv ==
    ASSUME IInv, OwnerStep
    PROVE  IInv'
<1> USE DEF IInv
<1>1. ASSUME NEW j \in Jobs, NEW s \in Schedules, Add(j, s)
      PROVE  IInv'
  <2> DEFINE row == [id |-> j, sched |-> s, enabled |-> TRUE, next |-> NextRunAt(s, now), fails |-> 0]
  <2>1. s \in Schedule /\ now \in Nat
    BY CronAssumption DEF Typing, TypeOK
  <2>2. row \in Row
    BY <2>1, NextRunAtNat DEF Row
  <2>3. Put(row) /\ unused' = unused \ {j} /\ wake' = TRUE
        /\ UNCHANGED <<now, loopVars, fireVars, cmd>>
    BY <1>1 DEF Add
  <2> HIDE DEF row
  <2>4. Typing'
    BY <2>2, <2>3, PutTyping DEF Typing, TypeOK, CallOK, loopVars, fireVars
  <2>5. Bookkeeping'
    BY <2>3, SameShape DEF fireVars
  <2>6. QED
    BY <2>4, <2>5
<1>2. ASSUME NEW j \in Jobs, Remove(j)
      PROVE  IInv'
  <2>1. Delete(j) /\ wake' = TRUE /\ UNCHANGED <<now, unused, loopVars, fireVars, cmd>>
    BY <1>2 DEF Remove
  <2>2. Typing'
    BY <2>1, DeleteTyping DEF Typing, TypeOK, CallOK, loopVars, fireVars
  <2>3. Bookkeeping'
    BY <2>1, SameShape DEF fireVars
  <2>4. QED
    BY <2>2, <2>3
<1>3. ASSUME NEW c \in Callers, NEW j \in Jobs, NEW row \in Row, Edit(c, j, row)
      PROVE  IInv'
  <2>1. Bookkeeping'
    BY <1>3, SameShape DEF Edit, fireVars
  <2>2. QED
    BY <1>3, <2>1, EditTyping
<1>4. ASSUME NEW c \in Callers, NEW j \in Jobs, NEW on \in BOOLEAN, SetEnabled(c, j, on)
      PROVE  IInv'
  <2>1. db[j] \in Row
    BY <1>4 DEF SetEnabled, Edit, Typing, TypeOK
  <2>2. [db[j] EXCEPT !.enabled = on] \in Row
    BY <2>1 DEF Row
  <2>3. QED
    BY <1>3, <1>4, <2>2 DEF SetEnabled
<1>5. ASSUME NEW c \in Callers, NEW j \in Jobs, NEW s \in Schedules, Update(c, j, s)
      PROVE  IInv'
  <2>1. db[j] \in Row /\ s \in Schedule /\ now \in Nat
    BY <1>5, CronAssumption DEF Update, Edit, Typing, TypeOK
  <2>2. Rescheduled(db[j], s, now) \in Row
    BY <2>1, RescheduledRow
  <2>3. QED
    BY <1>3, <1>5, <2>2 DEF Update
<1>6. ASSUME NEW c \in Callers, EditWrite(c)
      PROVE  IInv'
  <2>1. /\ cmd[c] \in Row /\ Put(cmd[c])
        /\ cmd' = [cmd EXCEPT ![c] = NoRow] /\ wake' = TRUE
        /\ UNCHANGED <<now, unused, loopVars, fireVars>>
    BY <1>6 DEF EditWrite, Typing, TypeOK
  <2>2. Typing'
    BY <2>1, PutTyping DEF Typing, TypeOK, CallOK, loopVars, fireVars
  <2>3. Bookkeeping'
    BY <2>1, SameShape DEF fireVars
  <2>4. QED
    BY <2>2, <2>3
<1>7. ASSUME NEW c \in Callers, EditFail(c)
      PROVE  IInv'
  <2>1. Typing'
    BY <1>7 DEF EditFail, Typing, TypeOK, CallOK, RowsOK, loopVars, fireVars
  <2>2. Bookkeeping'
    BY <1>7, SameShape DEF EditFail, fireVars
  <2>3. QED
    BY <2>1, <2>2
<1>8. ASSUME NEW c \in Callers, EditCut(c)
      PROVE  IInv'
  <2>1. /\ cmd[c] \in Row /\ (Put(cmd[c]) \/ UNCHANGED db)
        /\ cmd' = [cmd EXCEPT ![c] = NoRow]
        /\ UNCHANGED <<now, unused, loopVars, wake, fireVars>>
    BY <1>8 DEF EditCut, Typing, TypeOK
  <2>2. db' \in [Jobs -> Row \cup {NoRow}] /\ RowsOK'
    BY <2>1, PutTyping DEF Typing, TypeOK, RowsOK
  <2>3. Typing'
    BY <2>1, <2>2 DEF Typing, TypeOK, CallOK, loopVars, fireVars
  <2>4. Bookkeeping'
    BY <2>1, SameShape DEF fireVars
  <2>5. QED
    BY <2>3, <2>4
<1>9. ASSUME NEW f \in OwnerFires, NEW j \in Jobs, RunNow(f, j)
      PROVE  IInv'
  <2>1. f \in Fires
    BY CronAssumption
  <2>2. db[j] \in Row
    BY <1>9 DEF RunNow, Typing, TypeOK
  <2>3. Typing'
    BY <1>9, <2>1, <2>2, CronAssumption DEF RunNow, Typing, TypeOK, CallOK, RowsOK, loopVars
  <2>4. Bookkeeping'
    BY <1>9, <2>1, SameShape DEF RunNow, Holding, Active, Typing, TypeOK
  <2>5. QED
    BY <2>3, <2>4
<1>10. QED
  BY <1>1, <1>2, <1>4, <1>5, <1>6, <1>7, <1>8, <1>9 DEF OwnerStep

(* The clock, shutdown, the end of the process and a new one.              *)
LEMMA WorldInv ==
    ASSUME IInv, Advance \/ Stop \/ Crash \/ Start
    PROVE  IInv'
<1> USE DEF IInv
<1>1. CASE Advance
  <2>1. Typing'
    BY <1>1 DEF Advance, Typing, TypeOK, CallOK, RowsOK, loopVars, fireVars
  <2>2. Bookkeeping'
    BY <1>1, SameShape DEF Advance, fireVars
  <2>3. QED
    BY <2>1, <2>2
<1>2. CASE Stop
  <2>1. Typing'
    BY <1>2 DEF Stop, Typing, TypeOK, CallOK, RowsOK, fireVars
  <2>2. Bookkeeping'
    BY <1>2, SameShape DEF Stop, fireVars
  <2>3. QED
    BY <2>1, <2>2
<1>3. CASE Crash
  <2>1. /\ running' = {} /\ sem' = MaxConcurrentRuns /\ waiters' = <<>>
        /\ pc' = [f \in Fires |-> "idle"]
    BY <1>3 DEF Crash
  <2>2. (/\ running = {} /\ sem = MaxConcurrentRuns /\ waiters = <<>>
         /\ pc = [f \in Fires |-> "idle"])'
        => Bookkeeping'
    BY FreshShape, PTL
  <2>3. Bookkeeping'
    BY <2>1, <2>2
  <2>4. CallOK' /\ RowsOK'
    BY <1>3 DEF Crash, Typing, CallOK, RowsOK
  <2>5. /\ sem' \in 0 .. MaxConcurrentRuns
        /\ waiters' \in Seq(Fires)
        /\ pc' \in [Fires -> {"idle", "called", "queued", "start", "run", "settle", "error"}]
    BY <2>1, CronAssumption
  <2>6. /\ copy' \in [Fires -> Row \cup {NoRow}]
        /\ forced' \in [Fires -> BOOLEAN] /\ startedAt' \in [Fires -> Nat]
        /\ cmd' \in [Callers -> Row \cup {NoRow}]
        /\ db' \in [Jobs -> Row \cup {NoRow}]
    BY <1>3 DEF Crash, Typing, TypeOK
  <2>7. TypeOK'
    BY <1>3, <2>1, <2>5, <2>6 DEF Crash, Typing, TypeOK
  <2>8. QED
    BY <2>3, <2>4, <2>7 DEF Typing
<1>4. CASE Start
  <2>1. Typing'
    BY <1>4 DEF Start, Typing, TypeOK, CallOK, RowsOK, fireVars
  <2>2. Bookkeeping'
    BY <1>4, SameShape DEF Start, fireVars
  <2>3. QED
    BY <2>1, <2>2
<1>5. QED
  BY <1>1, <1>2, <1>3, <1>4

(* A step that changes nothing keeps the invariant.                        *)
LEMMA StutterInv ==
    ASSUME IInv, UNCHANGED vars
    PROVE  IInv'
<1>1. Typing'
  BY DEF IInv, vars, loopVars, fireVars, Typing, TypeOK, CallOK, RowsOK
<1>2. Bookkeeping'
  BY SameShape DEF IInv, vars, fireVars
<1>3. QED
  BY <1>1, <1>2 DEF IInv

-----------------------------------------------------------------------------
(* The theorems.                                                           *)

(* The service's bookkeeping is right in every state it can reach: IInv is *)
(* an inductive invariant of the specification.                            *)
THEOREM Invariance == Spec => []IInv
<1>1. Init => IInv
  BY InitTyping, FreshShape DEF Init, IInv
<1>2. IInv /\ [Next]_vars => IInv'
  BY FireInv, CutInv, LoopInv, OwnerInv, WorldInv, StutterInv, CronAssumption DEF Next
<1>3. QED
  BY <1>1, <1>2, PTL DEF Spec

(* Every variable keeps its type; above all the free permits of the        *)
(* semaphore stay between 0 and MAX_CONCURRENT_RUNS.                       *)
THEOREM TypeCorrect == Spec => []TypeOK
<1>1. IInv => TypeOK
  BY DEF IInv, Typing
<1>2. QED
  BY <1>1, Invariance, PTL

(* No job is worked on by two calls of fire() at once, whoever made them.  *)
THEOREM Exclusion == Spec => []OneRunPerJob
<1>1. IInv => OneRunPerJob
  BY DEF IInv, Bookkeeping
<1>2. QED
  BY <1>1, Invariance, PTL

(* _running names exactly the jobs being worked on: no exit leaks an id.   *)
THEOREM NoLeakedId == Spec => []RunningExact
<1>1. IInv => RunningExact
  BY DEF IInv, Bookkeeping
<1>2. QED
  BY <1>1, Invariance, PTL

(* The permits of the semaphore add up, whichever way a call ends.         *)
THEOREM NoLeakedPermit == Spec => []PermitsExact
<1>1. IInv => PermitsExact
  BY DEF IInv, Bookkeeping
<1>2. QED
  BY <1>1, Invariance, PTL

-----------------------------------------------------------------------------
(* Deletion is final once nobody holds a copy of the row.                  *)

(* A call of fire() writes no row but its own, and keeps no copy but of it.*)
LEMMA FireEffect ==
    ASSUME IInv, NEW f \in Fires, FireStep(f) \/ CutStep(f)
    PROVE  /\ copy[f] \in Row
           /\ \A j \in Jobs : j # copy[f].id => db'[j] = db[j]
           /\ \A g \in Fires : \/ copy'[g] = NoRow
                               \/ copy[g] # NoRow /\ copy'[g].id = copy[g].id
           /\ UNCHANGED <<unused, loopVars, cmd>>
<1>1. pc[f] # "idle"
  BY DEF FireStep, FireRejected, FireEnter, FireAdmitted, FireSkip, FireRecurring, FireOnce,
         RunOk, SettleWrite, RunError, ErrorWrite, FireAbort,
         CutStep, CutReading, CutWaiting, CutRunning
<1>2. copy[f] \in Row /\ copy[f].id \in Jobs /\ copy[f].sched \in Schedule /\ copy[f] # NoRow
  BY <1>1, CallFacts, CronAssumption DEF IInv
<1>3. /\ now \in Nat /\ startedAt[f] \in Nat
      /\ copy \in [Fires -> Row \cup {NoRow}] /\ db \in [Jobs -> Row \cup {NoRow}] /\ RowsOK
  BY DEF IInv, Typing, TypeOK
<1>4. UNCHANGED <<unused, loopVars, cmd>>
  BY DEF FireStep, FireRejected, FireEnter, FireAdmitted, FireSkip, FireRecurring, FireOnce,
         RunOk, SettleWrite, RunError, ErrorWrite, FireAbort,
         CutStep, CutReading, CutWaiting, CutRunning
<1>5. CASE \/ FireRejected(f) \/ FireEnter(f) \/ FireAdmitted(f) \/ FireOnce(f)
           \/ FireAbort(f) \/ CutReading(f) \/ CutWaiting(f)
  <2>1. db' = db
    BY <1>5 DEF FireRejected, FireEnter, FireAdmitted, FireOnce, FireAbort, CutReading, CutWaiting
  <2>2. copy' = copy \/ copy' = [copy EXCEPT ![f] = NoRow]
    BY <1>5 DEF FireRejected, FireEnter, FireAdmitted, FireOnce, FireAbort, CutReading, CutWaiting,
              Release, Leave
  <2>3. QED
    BY <1>2, <1>3, <1>4, <2>1, <2>2
<1>6. CASE FireSkip(f) \/ SettleWrite(f) \/ ErrorWrite(f) \/ CutRunning(f)
  <2>1. Rescheduled(copy[f], copy[f].sched, now).id = copy[f].id
    BY <1>2, <1>3, RescheduledRow
  <2>2. \A j \in Jobs : j # copy[f].id => db'[j] = db[j]
    BY <1>2, <1>3, <1>6, <2>1 DEF FireSkip, SettleWrite, ErrorWrite, CutRunning, PendingWrite, Put, Delete
  <2>3. copy' = [copy EXCEPT ![f] = NoRow]
    BY <1>6 DEF FireSkip, SettleWrite, ErrorWrite, CutRunning, Release, Leave
  <2>4. QED
    BY <1>2, <1>3, <1>4, <2>2, <2>3
<1>7. CASE FireRecurring(f)
  <2> DEFINE job == Rescheduled(copy[f], copy[f].sched, now)
  <2>1. job.id = copy[f].id
    BY <1>2, <1>3, RescheduledRow
  <2>2. db' = [db EXCEPT ![job.id] = job] /\ copy' = [copy EXCEPT ![f] = job]
    BY <1>7 DEF FireRecurring, Put
  <2> HIDE DEF job
  <2>3. QED
    BY <1>2, <1>3, <1>4, <2>1, <2>2
<1>8. CASE RunOk(f)
  <2>1. db' = db
    BY <1>8 DEF RunOk
  <2>2. CASE copy' = [copy EXCEPT ![f] = NoRow]
    BY <1>2, <1>3, <1>4, <2>1, <2>2
  <2>3. CASE db[copy[f].id] # NoRow /\ copy' = [copy EXCEPT ![f] = [db[copy[f].id] EXCEPT !.fails = 0]]
    <3>1. db[copy[f].id] \in Row /\ db[copy[f].id].id = copy[f].id
      BY <1>2, <1>3, <2>3 DEF RowsOK
    <3>2. [db[copy[f].id] EXCEPT !.fails = 0].id = copy[f].id
      BY <3>1 DEF Row
    <3>3. QED
      BY <1>2, <1>3, <1>4, <2>1, <2>3, <3>2
  <2>4. QED
    BY <1>8, <2>2, <2>3 DEF RunOk, Release, Leave
<1>9. CASE RunError(f)
  <2> DEFINE current == IF db[copy[f].id] = NoRow THEN copy[f] ELSE db[copy[f].id]
             row == Failed(current, startedAt[f])
  <2>1. current \in Row /\ current.id = copy[f].id
    BY <1>2, <1>3 DEF RowsOK
  <2>2. db' = db /\ copy' = [copy EXCEPT ![f] = row]
    BY <1>9 DEF RunError
  <2> HIDE DEF current
  <2>3. row.id = copy[f].id
    BY <1>3, <2>1, FailedRow
  <2> HIDE DEF row
  <2>4. QED
    BY <1>2, <1>3, <1>4, <2>2, <2>3
<1>10. QED
  BY <1>5, <1>6, <1>7, <1>8, <1>9 DEF FireStep, CutStep

(* Nobody holds a copy of a job that is gone, and nobody makes one.        *)
LEMMA GoneKept ==
    ASSUME NEW j \in Jobs, Gone(j), unused' \subseteq unused, db'[j] = NoRow,
           \A f \in Fires : copy'[f] = NoRow \/ copy'[f].id # j,
           loop' = "dispatch" => \A r \in seen' : r.id # j,
           \A c \in Callers : cmd'[c] = NoRow \/ cmd'[c].id # j
    PROVE  Gone(j)'
BY DEF Gone, InFlight

(* A gone job is in no call, in no snapshot and in no command.             *)
LEMMA GoneFacts ==
    ASSUME NEW j \in Jobs, Gone(j)
    PROVE  /\ j \notin unused /\ db[j] = NoRow
           /\ \A f \in Fires : copy[f] = NoRow \/ copy[f].id # j
           /\ loop = "dispatch" => \A r \in seen : r.id # j
           /\ \A c \in Callers : cmd[c] = NoRow \/ cmd[c].id # j
BY DEF Gone, InFlight

(* No step of the service brings back a job that is gone.                  *)
LEMMA GoneStep ==
    ASSUME IInv, [Next]_vars, NEW j \in Jobs, Gone(j)
    PROVE  Gone(j)'
<1>1. /\ j \notin unused /\ db[j] = NoRow
      /\ \A f \in Fires : copy[f] = NoRow \/ copy[f].id # j
      /\ loop = "dispatch" => \A r \in seen : r.id # j
      /\ \A c \in Callers : cmd[c] = NoRow \/ cmd[c].id # j
  BY GoneFacts
<1>2. /\ db \in [Jobs -> Row \cup {NoRow}] /\ copy \in [Fires -> Row \cup {NoRow}]
      /\ cmd \in [Callers -> Row \cup {NoRow}] /\ RowsOK
      /\ now \in Nat
  BY DEF IInv, Typing, TypeOK
<1>3. ASSUME NEW f \in Fires, FireStep(f) \/ CutStep(f)
      PROVE  Gone(j)'
  <2>1. /\ copy[f] \in Row /\ copy[f] # NoRow
        /\ \A i \in Jobs : i # copy[f].id => db'[i] = db[i]
        /\ \A g \in Fires : \/ copy'[g] = NoRow
                            \/ copy[g] # NoRow /\ copy'[g].id = copy[g].id
        /\ unused' = unused /\ loop' = loop /\ seen' = seen /\ cmd' = cmd
    BY <1>3, FireEffect, CronAssumption DEF loopVars
  <2>2. db'[j] = NoRow
    BY <1>1, <2>1
  <2>3. \A g \in Fires : copy'[g] = NoRow \/ copy'[g].id # j
    BY <1>1, <2>1
  <2>4. QED
    BY <1>1, <2>1, <2>2, <2>3, GoneKept
<1>4. CASE LoopStep
  <2>1. db' = db /\ unused' = unused /\ cmd' = cmd
    BY <1>4 DEF LoopStep, TickRead, TickDispatch, PlanRead, GoToSleep, TickFail, LoopWake
  <2>2. loop' = "dispatch" => \A r \in seen' : r.id # j
    <3>1. CASE TickRead
      <4>1. seen' \subseteq Due
        BY <3>1 DEF TickRead
      <4>2. \A r \in Due : r.id \in Jobs /\ db[r.id] = r /\ r \in Row
        BY SelectedRows DEF IInv
      <4>3. QED
        BY <1>1, <4>1, <4>2, CronAssumption
    <3>2. CASE ~TickRead
      BY <1>4, <3>2 DEF LoopStep, TickDispatch, PlanRead, GoToSleep, TickFail, LoopWake
    <3>3. QED
      BY <3>1, <3>2
  <2>3. \A f \in Fires : copy'[f] = NoRow \/ copy'[f].id # j
    <3>1. CASE TickDispatch
      <4> DEFINE fresh == {r \in seen : r.id \notin running}
      <4>1. PICK slot \in [fresh -> Idle \ OwnerFires] :
               copy' = [f \in Fires |->
                          IF \E r \in fresh : slot[r] = f
                            THEN CHOOSE r \in fresh : slot[r] = f
                            ELSE copy[f]]
        BY <3>1 DEF TickDispatch
      <4>2. \A r \in fresh : r.id # j
        BY <1>1, <3>1 DEF TickDispatch
      <4> HIDE DEF fresh
      <4>3. QED
        BY <1>1, <4>1, <4>2
    <3>2. CASE ~TickDispatch
      <4>1. copy' = copy
        BY <1>4, <3>2 DEF LoopStep, TickRead, PlanRead, GoToSleep, TickFail, LoopWake, fireVars
      <4>2. QED
        BY <1>1, <4>1
    <3>3. QED
      BY <3>1, <3>2
  <2>4. QED
    BY <1>1, <2>1, <2>2, <2>3, GoneKept
<1>5. CASE OwnerStep
  <2>1. ASSUME NEW i \in Jobs, NEW s \in Schedules, Add(i, s)
        PROVE  Gone(j)'
    <3>1. i # j
      BY <1>1, <2>1 DEF Add
    <3>2. db'[j] = NoRow /\ unused' \subseteq unused
          /\ UNCHANGED <<loop, seen, copy, cmd>>
      BY <1>1, <1>2, <2>1, <3>1 DEF Add, Put, loopVars, fireVars
    <3>3. QED
      BY <1>1, <3>2, GoneKept
  <2>2. ASSUME NEW i \in Jobs, Remove(i)
        PROVE  Gone(j)'
    <3>1. db'[j] = NoRow /\ UNCHANGED <<unused, loop, seen, copy, cmd>>
      BY <1>1, <1>2, <2>2 DEF Remove, Delete, loopVars, fireVars
    <3>2. QED
      BY <1>1, <3>1, GoneKept
  <2>3. ASSUME NEW c \in Callers, NEW i \in Jobs, NEW row, Edit(c, i, row),
               row.id = db[i].id
        PROVE  Gone(j)'
    <3>1. db[i] # NoRow /\ db[i].id = i /\ i # j
      BY <1>1, <1>2, <2>3 DEF Edit, RowsOK
    <3>2. /\ cmd' = [cmd EXCEPT ![c] = row]
          /\ UNCHANGED <<db, unused, loop, seen, copy>>
      BY <2>3 DEF Edit, loopVars, fireVars
    <3>3. \A d \in Callers : cmd'[d] = NoRow \/ cmd'[d].id # j
      BY <1>1, <1>2, <2>3, <3>1, <3>2
    <3>4. QED
      BY <1>1, <3>2, <3>3, GoneKept
  <2>4. ASSUME NEW c \in Callers, NEW i \in Jobs, NEW on \in BOOLEAN, SetEnabled(c, i, on)
        PROVE  Gone(j)'
    <3>1. db[i] \in Row
      BY <1>2, <2>4 DEF SetEnabled, Edit
    <3>2. [db[i] EXCEPT !.enabled = on].id = db[i].id
      BY <3>1 DEF Row
    <3>3. QED
      BY <2>3, <2>4, <3>2 DEF SetEnabled
  <2>5. ASSUME NEW c \in Callers, NEW i \in Jobs, NEW s \in Schedules, Update(c, i, s)
        PROVE  Gone(j)'
    <3>1. db[i] \in Row /\ s \in Schedule
      BY <1>2, <2>5, CronAssumption DEF Update, Edit
    <3>2. Rescheduled(db[i], s, now).id = db[i].id
      BY <1>2, <3>1, RescheduledRow
    <3>3. QED
      BY <2>3, <2>5, <3>2 DEF Update
  <2>6. ASSUME NEW c \in Callers, EditWrite(c) \/ EditFail(c) \/ EditCut(c)
        PROVE  Gone(j)'
    <3>1. /\ cmd[c] # NoRow /\ cmd[c].id # j
          /\ db' = db \/ db' = [db EXCEPT ![cmd[c].id] = cmd[c]]
          /\ cmd' = [cmd EXCEPT ![c] = NoRow]
          /\ UNCHANGED <<unused, loop, seen, copy>>
      BY <1>1, <2>6 DEF EditWrite, EditFail, EditCut, Put, loopVars, fireVars
    <3>2. db'[j] = NoRow
      BY <1>1, <1>2, <3>1
    <3>3. QED
      BY <1>1, <1>2, <3>1, <3>2, GoneKept
  <2>7. ASSUME NEW f \in OwnerFires, NEW i \in Jobs, RunNow(f, i)
        PROVE  Gone(j)'
    <3>1. db[i] # NoRow /\ db[i].id = i /\ i # j /\ f \in Fires
      BY <1>1, <1>2, <2>7, CronAssumption DEF RunNow, RowsOK
    <3>2. /\ copy' = [copy EXCEPT ![f] = db[i]]
          /\ UNCHANGED <<db, unused, loop, seen, cmd>>
      BY <2>7 DEF RunNow, loopVars
    <3>3. \A g \in Fires : copy'[g] = NoRow \/ copy'[g].id # j
      BY <1>1, <1>2, <3>1, <3>2
    <3>4. QED
      BY <1>1, <3>2, <3>3, GoneKept
  <2>8. QED
    BY <1>5, <2>1, <2>2, <2>4, <2>5, <2>6, <2>7 DEF OwnerStep
<1>6. CASE Advance \/ Stop \/ Start
  <2>1. /\ UNCHANGED <<db, unused, copy, cmd>>
        /\ seen' = seen \/ seen' = {}
        /\ loop' = loop \/ loop' # "dispatch"
    BY <1>6 DEF Advance, Stop, Start, loopVars, fireVars
  <2>2. QED
    BY <1>1, <2>1, GoneKept
<1>7. CASE Crash
  <2>1. /\ db' = db \/ db' = [i \in Jobs |-> NoRow]
        /\ unused' = unused /\ loop' = "down"
        /\ copy' = [f \in Fires |-> NoRow]
        /\ cmd' = [c \in Callers |-> NoRow]
    BY <1>7 DEF Crash
  <2>2. QED
    BY <1>1, <2>1, GoneKept
<1>8. CASE UNCHANGED vars
  BY <1>1, <1>8, GoneKept DEF vars, loopVars, fireVars
<1>9. QED
  BY <1>3, <1>4, <1>5, <1>6, <1>7, <1>8, CronAssumption DEF Next

(* A job removed while nobody worked on it stays removed, whatever the     *)
(* loop, other calls, other commands and crashes do.                       *)
THEOREM DeletionIsFinal == Spec => GoneForGood
<1>1. IInv /\ [Next]_vars => \A j \in Jobs : Gone(j) => Gone(j)'
  BY GoneStep
<1>2. IInv /\ [Next]_vars => [\A j \in Jobs : Gone(j) => Gone(j)']_vars
  BY <1>1
<1>3. QED
  BY <1>2, Invariance, PTL DEF Spec, GoneForGood

-----------------------------------------------------------------------------
(***************************************************************************)
(* CronService implements RunSlots.  The                                   *)
(* mapping sends a call that holds a permit to its job in "active" and the *)
(* semaphore's queue of calls to the queue of their jobs.  A step of one   *)
(* call is one abstract step or none; every other step but the end of the  *)
(* process is a stutter.  The argument uses IInv: because no two calls     *)
(* share a job, jobs can be counted where the semaphore counts permits.    *)
(***************************************************************************)

(* There are as many active jobs as calls that hold a permit: the abstract *)
(* slots are free exactly when the semaphore is.                           *)
LEMMA ActiveCount ==
    ASSUME IInv
    PROVE  Slots!SlotFree <=> sem > 0
<1>1. IsFiniteSet(Hold)
  BY CronAssumption, FS_Subset DEF Hold
<1>2. ActiveJobs = {copy[f].id : f \in Hold}
  BY DEF ActiveJobs, Hold
<1>3. \A f, g \in Hold : copy[f].id = copy[g].id => f = g
  BY DEF IInv, Bookkeeping, OneRunPerJob, Hold, Active
<1> DEFINE job == [f \in Hold |-> copy[f].id]
<1>4. job \in Bijection(Hold, ActiveJobs)
  BY <1>2, <1>3 DEF Bijection, Injection, Surjection, IsInjective
<1>5. Cardinality(ActiveJobs) = Cardinality(Hold)
  BY <1>1, <1>4, FS_Bijection DEF ExistsBijection
<1>6. Cardinality(Hold) \in Nat
  BY <1>1, FS_CardinalityType
<1>7. sem + Cardinality(Hold) = MaxConcurrentRuns
  BY DEF IInv, Bookkeeping, PermitsExact, Hold
<1>8. sem \in Nat /\ MaxConcurrentRuns \in Nat
  BY CronAssumption DEF IInv, Typing, TypeOK
<1> DEFINE n == Cardinality(Hold)
<1>9. Slots!SlotFree <=> n < MaxConcurrentRuns
  BY <1>5 DEF Slots!SlotFree, Slots!Cardinality, Cardinality
<1>10. n \in Nat /\ sem + n = MaxConcurrentRuns
  BY <1>6, <1>7
<1> HIDE DEF n
<1>11. n < MaxConcurrentRuns <=> sem > 0
  BY <1>8, <1>10
<1>12. QED
  BY <1>9, <1>11

(* A job is active or queued abstractly exactly when its id is in _running.*)
LEMMA ClaimedExact ==
    ASSUME IInv
    PROVE  running = ActiveJobs \cup Slots!Waiting
<1>1. waiters \in Seq(Fires)
  BY DEF IInv, Typing, TypeOK
<1>2. DOMAIN QueuedJobs = 1 .. Len(waiters)
      /\ \A i \in 1 .. Len(waiters) : waiters[i] \in Fires /\ QueuedJobs[i] = copy[waiters[i]].id
  BY <1>1 DEF QueuedJobs
<1>3. Slots!Waiting = {copy[f].id : f \in {g \in Fires : pc[g] = "queued"}}
  <2>1. ASSUME NEW f \in Fires, pc[f] = "queued"
        PROVE  copy[f].id \in Slots!Waiting
    BY <1>2, <2>1 DEF IInv, Bookkeeping, QueueExact, Slots!Waiting
  <2>2. ASSUME NEW i \in 1 .. Len(waiters)
        PROVE  pc[waiters[i]] = "queued"
    BY <1>2 DEF IInv, Bookkeeping, QueueExact
  <2>3. QED
    BY <1>2, <2>1, <2>2 DEF Slots!Waiting
<1>4. running = {copy[f].id : f \in {g \in Fires : pc[g] \in Active}}
  BY DEF IInv, Bookkeeping, RunningExact
<1>5. QED
  BY <1>3, <1>4 DEF ActiveJobs, Active

(* A step that moves no call in or out of a permit or the queue.           *)
LEMMA SlotsStutter ==
    ASSUME IInv, UNCHANGED waiters,
           \A f \in Fires : /\ pc'[f] \in Holding <=> pc[f] \in Holding
                            /\ pc[f] \in Active => copy'[f].id = copy[f].id
    PROVE  UNCHANGED <<ActiveJobs, QueuedJobs>>
<1>1. ActiveJobs' = ActiveJobs
  BY DEF ActiveJobs, Active
<1>2. waiters \in Seq(Fires)
  BY DEF IInv, Typing, TypeOK
<1>3. \A i \in DOMAIN waiters : copy'[waiters[i]].id = copy[waiters[i]].id
  <2>1. ASSUME NEW i \in DOMAIN waiters
        PROVE  waiters[i] \in Fires /\ pc[waiters[i]] \in Active
    BY <1>2 DEF IInv, Bookkeeping, QueueExact, Active
  <2>2. QED
    BY <2>1
<1>4. QueuedJobs' = QueuedJobs
  BY <1>3 DEF QueuedJobs
<1>5. QED
  BY <1>1, <1>4

(* A call that returns is Finish of its job.                               *)
LEMMA ReleaseFinishes ==
    ASSUME IInv, NEW f \in Fires, pc[f] \in Holding, Release(f)
    PROVE  Slots!Finish(copy[f].id) /\ copy[f].id \in Jobs
<1>1. /\ pc' = [pc EXCEPT ![f] = "idle"]
      /\ copy' = [copy EXCEPT ![f] = NoRow]
      /\ waiters' = waiters
      /\ pc \in [Fires -> {"idle", "called", "queued", "start", "run", "settle", "error"}]
      /\ copy \in [Fires -> Row \cup {NoRow}]
      /\ waiters \in Seq(Fires)
  BY DEF Release, Leave, IInv, Typing, TypeOK
<1>2. pc'[f] = "idle" /\ \A g \in Fires : g # f => pc'[g] = pc[g] /\ copy'[g] = copy[g]
  BY <1>1
<1>3. "idle" \notin Holding /\ pc[f] \in Active /\ pc[f] # "queued" /\ pc[f] # "idle"
  BY DEF Holding, Active
<1>4. copy[f].id \in ActiveJobs
  BY DEF ActiveJobs
<1>5. ActiveJobs' = ActiveJobs \ {copy[f].id}
  BY <1>2, <1>3 DEF ActiveJobs, IInv, Bookkeeping, OneRunPerJob, Active
<1>6. \A i \in DOMAIN waiters : waiters[i] \in Fires /\ waiters[i] # f
  BY <1>1, <1>3 DEF IInv, Bookkeeping, QueueExact
<1>7. QueuedJobs' = QueuedJobs
  BY <1>1, <1>2, <1>6 DEF QueuedJobs
<1>8. copy[f].id \in Jobs
  BY <1>3, CallFacts DEF IInv
<1>9. QED
  BY <1>4, <1>5, <1>7, <1>8 DEF Slots!Finish

(* A call whose id enters _running is Claim of its job.                    *)
LEMMA EnterClaims ==
    ASSUME IInv, NEW f \in Fires, FireEnter(f)
    PROVE  Slots!Claim(copy[f].id) /\ copy[f].id \in Jobs
<1>1. /\ pc \in [Fires -> {"idle", "called", "queued", "start", "run", "settle", "error"}]
      /\ waiters \in Seq(Fires) /\ sem \in Nat
  BY CronAssumption DEF IInv, Typing, TypeOK
<1>2. pc[f] = "called" /\ copy[f].id \notin running /\ copy' = copy
  BY DEF FireEnter
<1>3. copy[f].id \in Jobs
  BY <1>2, CallFacts DEF IInv
<1>4. copy[f].id \notin ActiveJobs /\ copy[f].id \notin Slots!Waiting
  BY <1>2, ClaimedExact
<1>5. DOMAIN QueuedJobs = 1 .. Len(waiters) /\ (QueuedJobs = <<>> <=> waiters = <<>>)
  BY <1>1 DEF QueuedJobs
<1>6. CASE sem > 0 /\ waiters = <<>> /\ pc' = [pc EXCEPT ![f] = "start"] /\ waiters' = waiters
  <2>1. ActiveJobs' = ActiveJobs \cup {copy[f].id}
    BY <1>1, <1>2, <1>6 DEF ActiveJobs, Holding
  <2>2. QueuedJobs' = QueuedJobs
    BY <1>2, <1>6 DEF QueuedJobs
  <2>3. QED
    BY <1>3, <1>4, <1>5, <1>6, <2>1, <2>2, ActiveCount DEF Slots!Claim
<1>7. CASE (sem = 0 \/ waiters # <<>>) /\ waiters' = Append(waiters, f) /\ pc' = [pc EXCEPT ![f] = "queued"]
  <2>1. ActiveJobs' = ActiveJobs
    BY <1>1, <1>2, <1>7 DEF ActiveJobs, Holding
  <2>2. QueuedJobs' = Append(QueuedJobs, copy[f].id)
    <3>1. QueuedJobs \in Seq({copy[g].id : g \in Fires}) /\ Len(QueuedJobs) = Len(waiters)
      BY <1>1, <1>5 DEF QueuedJobs
    <3>2. QueuedJobs' = [i \in 1 .. (Len(waiters) + 1) |-> copy[Append(waiters, f)[i]].id]
      BY <1>1, <1>2, <1>7 DEF QueuedJobs
    <3>3. Append(QueuedJobs, copy[f].id)
            = [i \in 1 .. (Len(waiters) + 1) |->
                 IF i = Len(waiters) + 1 THEN copy[f].id ELSE QueuedJobs[i]]
      BY <3>1
    <3>4. \A i \in 1 .. (Len(waiters) + 1) :
             copy[Append(waiters, f)[i]].id
               = IF i = Len(waiters) + 1 THEN copy[f].id ELSE QueuedJobs[i]
      BY <1>1 DEF QueuedJobs
    <3>5. QED
      BY <3>2, <3>3, <3>4
  <2>3. ~Slots!SlotFree \/ QueuedJobs # <<>>
    BY <1>1, <1>5, <1>7, ActiveCount
  <2>4. QED
    BY <1>3, <1>4, <2>1, <2>2, <2>3 DEF Slots!Claim
<1>8. QED
  BY <1>6, <1>7 DEF FireEnter

(* The head of the semaphore's queue getting a permit is Admit.            *)
LEMMA AdmittedAdmits ==
    ASSUME IInv, NEW f \in Fires, FireAdmitted(f)
    PROVE  Slots!Admit
<1>1. /\ pc \in [Fires -> {"idle", "called", "queued", "start", "run", "settle", "error"}]
      /\ waiters \in Seq(Fires)
  BY DEF IInv, Typing, TypeOK
<1>2. /\ pc[f] = "queued" /\ pc' = [pc EXCEPT ![f] = "start"] /\ copy' = copy
      /\ waiters # <<>> /\ f = Head(waiters) /\ waiters' = Tail(waiters) /\ sem > 0
  BY DEF FireAdmitted
<1>3. ActiveJobs' = ActiveJobs \cup {copy[f].id}
  BY <1>1, <1>2 DEF ActiveJobs, Holding
<1>4. /\ QueuedJobs = [i \in 1 .. Len(waiters) |-> copy[waiters[i]].id]
      /\ Len(waiters) \in Nat \ {0}
  BY <1>1, <1>2 DEF QueuedJobs
<1>5. QueuedJobs \in Seq({copy[g].id : g \in Fires}) /\ Len(QueuedJobs) = Len(waiters)
  BY <1>1, <1>4
<1>6. Head(QueuedJobs) = copy[f].id /\ QueuedJobs # <<>>
  BY <1>1, <1>2, <1>4, <1>5
<1>7. QueuedJobs' = Tail(QueuedJobs)
  <2>1. QueuedJobs' = [i \in 1 .. (Len(waiters) - 1) |-> copy[Tail(waiters)[i]].id]
    BY <1>1, <1>2, <1>4 DEF QueuedJobs
  <2>2. Tail(QueuedJobs) = [i \in 1 .. (Len(waiters) - 1) |-> QueuedJobs[i + 1]]
    BY <1>4, <1>5
  <2>3. \A i \in 1 .. (Len(waiters) - 1) : copy[Tail(waiters)[i]].id = QueuedJobs[i + 1]
    BY <1>1, <1>2, <1>4
  <2>4. QED
    BY <2>1, <2>2, <2>3
<1>8. QED
  BY <1>2, <1>3, <1>6, <1>7, ActiveCount DEF Slots!Admit

(* A call cut off in the queue is Withdraw of its job's place.             *)
LEMMA WaitingWithdraws ==
    ASSUME IInv, NEW f \in Fires, CutWaiting(f)
    PROVE  \E i \in DOMAIN QueuedJobs : Slots!Withdraw(i)
<1>1. /\ pc \in [Fires -> {"idle", "called", "queued", "start", "run", "settle", "error"}]
      /\ copy \in [Fires -> Row \cup {NoRow}]
      /\ waiters \in Seq(Fires)
  BY DEF IInv, Typing, TypeOK
<1>2. /\ pc[f] = "queued" /\ pc' = [pc EXCEPT ![f] = "idle"]
      /\ copy' = [copy EXCEPT ![f] = NoRow]
  BY DEF CutWaiting, Leave
<1>3. PICK i \in 1 .. Len(waiters) : waiters[i] = f /\ waiters' = Without(waiters, i)
  BY DEF CutWaiting
<1>4. pc'[f] = "idle" /\ \A g \in Fires : g # f => pc'[g] = pc[g] /\ copy'[g] = copy[g]
  BY <1>1, <1>2
<1>5. ActiveJobs' = ActiveJobs
  BY <1>2, <1>4 DEF ActiveJobs, Holding
<1> DEFINE n == Len(waiters) - 1
           place(k) == IF k < i THEN k ELSE k + 1
<1>6. /\ waiters' \in Seq(Fires) /\ Len(waiters') = n /\ Len(waiters) \in Nat \ {0}
      /\ \A k \in 1 .. n : waiters'[k] = waiters[place(k)]
  BY <1>1, <1>3, WithoutOne
<1>7. \A k \in 1 .. n : place(k) \in 1 .. Len(waiters) /\ place(k) # i
  BY <1>6
<1>8. \A k \in 1 .. n : waiters[place(k)] \in Fires /\ waiters[place(k)] # f
  BY <1>1, <1>3, <1>7 DEF IInv, Bookkeeping, QueueExact
<1>9. /\ QueuedJobs = [k \in 1 .. Len(waiters) |-> copy[waiters[k]].id]
      /\ QueuedJobs' = [k \in 1 .. n |-> copy'[waiters'[k]].id]
  <2>1. DOMAIN waiters = 1 .. Len(waiters) /\ DOMAIN waiters' = 1 .. n
    BY <1>1, <1>6
  <2>2. QED
    BY <2>1 DEF QueuedJobs
<1>10. \A k \in 1 .. n : copy'[waiters'[k]].id = QueuedJobs[place(k)]
  BY <1>4, <1>6, <1>7, <1>8, <1>9
<1>11. Len(QueuedJobs) = Len(waiters)
  BY <1>1, <1>9
<1>12. QueuedJobs' = Slots!Without(QueuedJobs, i)
  BY <1>9, <1>10, <1>11 DEF Slots!Without
<1>13. i \in DOMAIN QueuedJobs
  BY <1>9
<1>14. QED
  BY <1>5, <1>12, <1>13 DEF Slots!Withdraw

(* Every step of the service is a step of RunSlots or a stutter.           *)
LEMMA StepRefines ==
    ASSUME IInv, [Next]_vars
    PROVE  [Slots!Next]_(Slots!slotVars)
<1>1. ASSUME NEW f \in Fires, FireStep(f)
      PROVE  [Slots!Next]_(Slots!slotVars)
  <2>1. CASE FireEnter(f)
    BY <2>1, EnterClaims DEF Slots!Next
  <2>2. CASE FireAdmitted(f)
    BY <2>2, AdmittedAdmits DEF Slots!Next
  <2>3. CASE Release(f) /\ pc[f] \in Holding
    BY <2>3, ReleaseFinishes DEF Slots!Next
  <2>4. CASE FireRejected(f) \/ FireOnce(f)
    <3>1. UNCHANGED <<ActiveJobs, QueuedJobs>>
      BY <2>4, SlotsStutter DEF FireRejected, FireOnce, Holding, Active, IInv, Typing, TypeOK
    <3>2. QED
      BY <3>1 DEF Slots!slotVars
  <2>5. CASE ~Release(f) /\ (FireRecurring(f) \/ RunOk(f) \/ RunError(f))
    <3>1. /\ pc[f] \in Holding /\ waiters' = waiters
          /\ \E p \in Holding : pc' = [pc EXCEPT ![f] = p]
          /\ \E r : copy' = [copy EXCEPT ![f] = r]
      BY <2>5 DEF FireRecurring, RunOk, RunError, Holding
    <3>2. /\ pc \in [Fires -> {"idle", "called", "queued", "start", "run", "settle", "error"}]
          /\ copy \in [Fires -> Row \cup {NoRow}]
      BY DEF IInv, Typing, TypeOK
    <3>3. copy'[f] # NoRow
      <4>1. pc'[f] # "idle"
        BY <3>1, <3>2 DEF Holding
      <4>2. CallOK'
        BY <1>1, FireInv DEF IInv, Typing
      <4>3. QED
        BY <4>1, <4>2 DEF CallOK
    <3>4. copy'[f].id = copy[f].id
      BY <1>1, <3>3, FireEffect
    <3>5. UNCHANGED <<ActiveJobs, QueuedJobs>>
      BY <3>1, <3>2, <3>4, SlotsStutter DEF Holding, Active
    <3>6. QED
      BY <3>5 DEF Slots!slotVars
  <2>6. CASE FireSkip(f) \/ SettleWrite(f) \/ ErrorWrite(f) \/ FireAbort(f)
    BY <2>3, <2>6 DEF FireSkip, SettleWrite, ErrorWrite, FireAbort, Holding
  <2>7. QED
    <3>1. RunOk(f) => pc[f] \in Holding
      BY DEF RunOk, Holding
    <3>2. FireRecurring(f) => pc[f] \in Holding
      BY DEF FireRecurring, Holding
    <3>3. RunError(f) => pc[f] \in Holding
      BY DEF RunError, Holding
    <3>4. QED
      BY <1>1, <2>1, <2>2, <2>3, <2>4, <2>5, <2>6, <3>1, <3>2, <3>3 DEF FireStep
<1>2. ASSUME NEW f \in Fires, CutStep(f)
      PROVE  [Slots!Next]_(Slots!slotVars)
  <2>1. CASE CutReading(f)
    <3>1. UNCHANGED <<ActiveJobs, QueuedJobs>>
      BY <2>1, SlotsStutter DEF CutReading, Holding, Active, IInv, Typing, TypeOK
    <3>2. QED
      BY <3>1 DEF Slots!slotVars
  <2>2. CASE CutWaiting(f)
    BY <2>2, WaitingWithdraws DEF Slots!Next
  <2>3. CASE CutRunning(f)
    BY <2>3, ReleaseFinishes DEF CutRunning, Holding, Slots!Next
  <2>4. QED
    BY <1>2, <2>1, <2>2, <2>3 DEF CutStep
<1>3. CASE Crash
  <2>1. /\ waiters' = <<>> /\ pc' = [f \in Fires |-> "idle"]
    BY <1>3 DEF Crash
  <2>2. ActiveJobs' = {}
    BY <2>1 DEF ActiveJobs, Holding
  <2>3. QueuedJobs' = <<>>
    BY <2>1 DEF QueuedJobs
  <2>4. QED
    BY <2>2, <2>3 DEF Slots!Next, Slots!Die
<1>4. CASE TickDispatch
  <2>1. ASSUME NEW f \in Fires
        PROVE  \/ pc'[f] = "called" /\ pc[f] = "idle"
               \/ pc'[f] = pc[f] /\ copy'[f] = copy[f]
    BY <1>4 DEF TickDispatch, Idle
  <2>2. UNCHANGED waiters
    BY <1>4 DEF TickDispatch
  <2>3. UNCHANGED <<ActiveJobs, QueuedJobs>>
    BY <2>1, <2>2, SlotsStutter DEF Holding, Active
  <2>4. QED
    BY <2>3 DEF Slots!slotVars
<1>5. CASE \E f \in OwnerFires, j \in Jobs : RunNow(f, j)
  <2>1. PICK f \in OwnerFires, j \in Jobs : RunNow(f, j)
    BY <1>5
  <2>2. f \in Fires /\ waiters' = waiters
    BY <2>1, CronAssumption DEF RunNow
  <2>3. UNCHANGED <<ActiveJobs, QueuedJobs>>
    BY <2>1, <2>2, SlotsStutter DEF RunNow, Holding, Active, IInv, Typing, TypeOK
  <2>4. QED
    BY <2>3 DEF Slots!slotVars
<1>6. CASE UNCHANGED <<pc, copy, waiters>>
  <2>1. UNCHANGED <<ActiveJobs, QueuedJobs>>
    BY <1>6 DEF ActiveJobs, QueuedJobs
  <2>2. QED
    BY <2>1 DEF Slots!slotVars
<1>7. LoopStep => TickDispatch \/ UNCHANGED <<pc, copy, waiters>>
  BY DEF LoopStep, TickRead, PlanRead, GoToSleep, TickFail, LoopWake, fireVars
<1>8. OwnerStep => (\E f \in OwnerFires, j \in Jobs : RunNow(f, j)) \/ UNCHANGED <<pc, copy, waiters>>
  BY DEF OwnerStep, Add, Remove, SetEnabled, Update, Edit, EditWrite, EditFail, EditCut, fireVars
<1>9. Advance \/ Stop \/ Start \/ UNCHANGED vars => UNCHANGED <<pc, copy, waiters>>
  BY DEF Advance, Stop, Start, vars, fireVars
<1>10. QED
  BY <1>1, <1>2, <1>3, <1>4, <1>5, <1>6, <1>7, <1>8, <1>9, CronAssumption DEF Next

(* The service keeps the promise of RunSlots: claims of a job exclude each *)
(* other, at most MAX_CONCURRENT_RUNS jobs run, the others are admitted    *)
(* first come first served.                                                *)
THEOREM Implementation == Spec => ImplementsRunSlots
<1>1. Init => Slots!Init
  <2> SUFFICES ASSUME Init PROVE Slots!Init
    OBVIOUS
  <2>1. ActiveJobs = {}
    BY DEF Init, ActiveJobs, Holding
  <2>2. QueuedJobs = <<>>
    BY DEF Init, QueuedJobs
  <2>3. QED
    BY <2>1, <2>2 DEF Slots!Init
<1>2. IInv /\ [Next]_vars => [Slots!Next]_(Slots!slotVars)
  BY StepRefines
<1>3. QED
  BY <1>1, <1>2, Invariance, PTL DEF Spec, ImplementsRunSlots, Slots!Spec
=============================================================================
