------------------------- MODULE CommitmentsProofs -------------------------
(***************************************************************************)
(* Commitments for any number of owners, commitments, tasks and commands,  *)
(* and any quota.                                                          *)
(***************************************************************************)
EXTENDS Commitments, FiniteSetTheorems, SequenceTheorems, WellFoundedInduction, TLAPS

Age == 0 .. Hour - 1

(* A row is stored under its own id, and an id that was not handed out     *)
(* has none.                                                               *)
Stored ==
    /\ \A i \in Ids : db[i] # NoRow => db[i].id = i
    /\ \A i \in unused : db[i] = NoRow

(* A task works on a row exactly while it is under way, and everything     *)
(* that somebody holds is of a commitment that has a row.                  *)
Grounded ==
    /\ \A t \in Tasks : pc[t] = "free" <=> item[t] = NoRow
    /\ \A t \in Tasks : item[t] # NoRow => db[item[t].id] # NoRow
    /\ \A c \in Callers : \A i \in todo[c] : db[i] # NoRow
    /\ \A c \in Callers : held[c] # NoRow => held[c].id \in todo[c]
    /\ \A r \in snap : db[r.id] # NoRow
    /\ \A r, q \in snap : r.id = q.id => r = q
    /\ heartbeat = "idle" => snap = {}

(* No owner has more hits than the quota.                                  *)
Within == \A o \in Owners : Len(hits[o]) <= MaxPerHour

IInv == CommitTypeOK /\ Stored /\ Grounded /\ Within

-----------------------------------------------------------------------------
(* Numbers, lists of ages and rows.                                        *)

(* The smaller of two numbers is one of them, and not above either.        *)
LEMMA SmallerOfTwo ==
    ASSUME NEW a \in Int, NEW b \in Int
    PROVE  Min({a, b}) \in {a, b} /\ Min({a, b}) <= a /\ Min({a, b}) <= b
<1>1. \E x \in {a, b} : \A y \in {a, b} : x <= y
  OBVIOUS
<1> QED BY <1>1 DEF Min

(* A set of naturals below a bound, not empty, has a largest member.       *)
LEMMA LargestExists ==
    ASSUME NEW n \in Nat, NEW S \in SUBSET (0 .. n), S # {}
    PROVE  Max(S) \in S /\ \A y \in S : Max(S) >= y
<1> DEFINE T == {d \in Nat : n - d \in S}
<1>1. PICK s \in S : TRUE
  OBVIOUS
<1>2. n - s \in T
  BY <1>1
<1>3. PICK d \in T : \A e \in T : ~ (<<e, d>> \in OpToRel(<, Nat))
  <2> HIDE DEF T
  <2>1. T \subseteq Nat
    BY DEF T
  <2> QED BY <1>2, <2>1, NatLessThanWellFounded, WFMin
<1>4. \A y \in S : n - d >= y
  <2> SUFFICES ASSUME NEW y \in S, ~ (n - d >= y) PROVE FALSE
    OBVIOUS
  <2>1. n - y \in T /\ n - y < d
    OBVIOUS
  <2>2. <<n - y, d>> \in OpToRel(<, Nat)
    BY <2>1 DEF OpToRel
  <2> QED BY <1>3, <2>1, <2>2
<1>5. \E x \in S : \A y \in S : x >= y
  BY <1>4
<1> QED BY <1>5 DEF Max

(* What is left of a list of hits is a list of hits, and no longer.        *)
LEMMA AgedTyped ==
    ASSUME NEW ages \in Seq(Age)
    PROVE  AgedHits(ages) \in Seq(Age) /\ Len(AgedHits(ages)) <= Len(ages)
<1> DEFINE gone == {k \in DOMAIN ages : ages[k] + 1 >= Hour}
           n == Max({0} \cup gone)
<1>1. Len(ages) \in Nat /\ DOMAIN ages = 1 .. Len(ages) /\ \A k \in DOMAIN ages : ages[k] \in Age
  OBVIOUS
<1>2. {0} \cup gone \in SUBSET (0 .. Len(ages))
  BY <1>1
<1>3. n \in 0 .. Len(ages) /\ \A k \in gone : k <= n
  <2> HIDE DEF gone
  <2>1. n \in {0} \cup gone /\ \A k \in {0} \cup gone : n >= k
    BY <1>1, <1>2, LargestExists
  <2>2. \A k \in gone : k \in Int /\ n \in Int
    BY <1>2, <2>1
  <2> QED BY <1>2, <2>1, <2>2
<1>4. AgedHits(ages) = [k \in 1 .. Len(ages) - n |-> ages[k + n] + 1]
  BY DEF AgedHits, AgedFrom
<1>5. ASSUME NEW k \in 1 .. Len(ages) - n PROVE ages[k + n] + 1 \in Age
  <2> HIDE DEF n
  <2>1. k + n \in DOMAIN ages /\ ~ (k + n <= n)
    BY <1>1, <1>3
  <2>2. k + n \notin gone /\ ages[k + n] \in Age
    BY <1>1, <1>3, <2>1
  <2> QED BY <2>1, <2>2, CommitmentAssumption DEF Age
<1>6. Len(ages) - n \in Nat
  BY <1>1, <1>3
<1> HIDE DEF n
<1> QED BY <1>1, <1>3, <1>4, <1>5, <1>6

(* The last starts are starts.                                             *)
LEMMA LastTyped ==
    ASSUME NEW ages \in Seq(Age)
    PROVE  /\ LastStarts(ages) \in Seq(Age)
           /\ Len(ages) <= MaxPerHour => LastStarts(ages) = ages
<1> DEFINE n == Min({Len(ages), MaxPerHour + 1})
<1>1. Len(ages) \in Int /\ MaxPerHour \in Int /\ MaxPerHour + 1 \in Int
  BY CommitmentAssumption
<1>2. n \in {Len(ages), MaxPerHour + 1} /\ n <= Len(ages) /\ n <= MaxPerHour + 1
  BY <1>1, SmallerOfTwo, Zenon
<1>3. LastStarts(ages) = SubSeq(ages, Len(ages) - n + 1, Len(ages))
  BY DEF LastStarts
<1> HIDE DEF n
<1>4. LastStarts(ages) \in Seq(Age)
  <2>1. \A i \in (Len(ages) - n + 1) .. Len(ages) : ages[i] \in Age
    BY <1>1, <1>2
  <2>2. Len(ages) - n + 1 \in Int /\ Len(ages) \in Int
    BY <1>1, <1>2
  <2> QED BY <1>3, <2>1, <2>2, SubSeqProperties
<1>5. ASSUME Len(ages) <= MaxPerHour PROVE LastStarts(ages) = ages
  <2>1. n = Len(ages) /\ Len(ages) - n + 1 = 1
    BY <1>1, <1>2, <1>5
  <2> QED BY <1>3, <2>1, SubSeqFull
<1> QED BY <1>4, <1>5

(* A row that has aged is the same commitment in the same state.           *)
LEMMA OlderTyped ==
    ASSUME NEW row \in Row \cup {NoRow}
    PROVE  /\ Older(row) \in Row \cup {NoRow}
           /\ Older(row) = NoRow <=> row = NoRow
           /\ row # NoRow => /\ Older(row).id = row.id
                             /\ Older(row).owner = row.owner
                             /\ Older(row).status = row.status
<1>1. CASE row = NoRow
  BY <1>1 DEF Older
<1>2. CASE row # NoRow
  <2>1. row \in Row /\ row.due \in Nat /\ row.since \in 0 .. Cooldown
    BY <1>2 DEF Row
  <2>2. Min({Cooldown, row.since + 1}) \in 0 .. Cooldown
    <3>1. Cooldown \in Nat /\ row.since + 1 \in Nat /\ Cooldown \in Int /\ row.since + 1 \in Int
      BY <2>1, CommitmentAssumption
    <3>2. /\ Min({Cooldown, row.since + 1}) \in {Cooldown, row.since + 1}
          /\ Min({Cooldown, row.since + 1}) <= Cooldown
      BY <3>1, SmallerOfTwo, Zenon
    <3> QED BY <3>1, <3>2
  <2>3. (IF row.due = 0 THEN 0 ELSE row.due - 1) \in Nat
    BY <2>1
  <2>4. Older(row) = [row EXCEPT !.due = IF row.due = 0 THEN 0 ELSE row.due - 1,
                                 !.since = Min({Cooldown, row.since + 1})]
    BY <1>2 DEF Older
  <2>5. Older(row) \in Row
    BY <2>1, <2>2, <2>3, <2>4 DEF Row
  <2> QED BY <1>2, <2>1, <2>4, <2>5, CommitmentAssumption DEF Row
<1> QED BY <1>1, <1>2

-----------------------------------------------------------------------------
(* A pass of the heartbeat over its snapshot.                              *)

(* Task t is given a row of the snapshot by this step.                     *)
Given(t) ==
    /\ pc[t] = "free" /\ pc'[t] = "turn"
    /\ item'[t] \in snap
    /\ item'[t].id \notin live /\ item'[t].status = "open"

(* The snapshot of a type-correct state is finite.                         *)
LEMMA SnapFinite == CommitTypeOK /\ Grounded => IsFiniteSet(snap)
<1> SUFFICES ASSUME CommitTypeOK, Grounded PROVE IsFiniteSet(snap)
  OBVIOUS
<1> DEFINE f == [r \in snap |-> r.id]
<1>1. f \in Injection(snap, Ids)
  <2>1. f \in [snap -> Ids]
    BY DEF CommitTypeOK, Row
  <2>2. \A r, q \in snap : f[r] = f[q] => r = q
    BY DEF Grounded
  <2> HIDE DEF f
  <2> QED BY <2>1, <2>2 DEF Injection, IsInjective
<1> HIDE DEF f
<1> QED BY <1>1, FS_Injection, CommitmentAssumption

(* A list of hits, followed by as many as are allowed, is within the quota.*)
LEMMA Noted ==
    ASSUME NEW ages \in Seq(Age), Len(ages) <= MaxPerHour, NEW n \in Nat,
           n <= MaxPerHour - Len(ages)
    PROVE  /\ ages \o [k \in 1 .. n |-> 0] \in Seq(Age)
           /\ Len(ages \o [k \in 1 .. n |-> 0]) <= MaxPerHour
<1> DEFINE new == [k \in 1 .. n |-> 0]
<1>1. 0 \in Age /\ MaxPerHour \in Nat
  BY CommitmentAssumption DEF Age
<1>2. new \in Seq(Age) /\ Len(new) = n
  BY <1>1
<1> HIDE DEF new
<1>3. ages \o new \in Seq(Age) /\ Len(ages \o new) = Len(ages) + Len(new)
  BY <1>2, ConcatProperties
<1>4. Len(ages \o new) <= MaxPerHour
  BY <1>1, <1>2, <1>3
<1> QED BY <1>3, <1>4 DEF new

(* What a pass of the heartbeat does to the tasks and to the hits.         *)
LEMMA StartShape ==
    ASSUME IInv, HeartbeatStart
    PROVE  /\ pc' \in [Tasks -> {"free", "turn", "mark", "marking", "close", "closing", "ended"}]
           /\ item' \in [Tasks -> Row \cup {NoRow}]
           /\ \A t \in Tasks : Given(t) \/ (pc'[t] = pc[t] /\ item'[t] = item[t])
           /\ \A t, u \in Tasks : Given(t) /\ Given(u) /\ item'[t] = item'[u] => t = u
           /\ live' = live \cup {item'[t].id : t \in {u \in Tasks : Given(u)}}
           /\ hits' \in [Owners -> Seq(Age)]
           /\ starts' \in [Owners -> Seq(Age)]
           /\ Within'
           /\ starts = hits => starts' = hits'
<1> DEFINE ready == {r \in snap : r.id \notin live /\ ShouldNotify(r)}
           of(S, o) == {r \in S : r.owner = o}
<1>0. PICK S \in SUBSET ready : \E slot \in [S -> Free] :
         /\ \A o \in Owners :
               Cardinality(of(S, o)) = Min({Cardinality(of(ready, o)), Allowance(o)})
         /\ \A r, q \in S : slot[r] = slot[q] => r = q
         /\ live' = live \cup {r.id : r \in S}
         /\ pc' = [t \in Tasks |-> IF \E r \in S : slot[r] = t THEN "turn" ELSE pc[t]]
         /\ item' = [t \in Tasks |-> IF \E r \in S : slot[r] = t
                                         THEN CHOOSE r \in S : slot[r] = t
                                         ELSE item[t]]
         /\ hits' = [o \in Owners |->
                       hits[o] \o [k \in 1 .. Cardinality(of(S, o)) |-> 0]]
         /\ starts' = [o \in Owners |-> LastStarts(
                         starts[o] \o [k \in 1 .. Cardinality(of(S, o)) |-> 0])]
  BY Zenon DEF HeartbeatStart
<1>1. PICK slot \in [S -> Free] :
         /\ \A o \in Owners :
               Cardinality(of(S, o)) = Min({Cardinality(of(ready, o)), Allowance(o)})
         /\ \A r, q \in S : slot[r] = slot[q] => r = q
         /\ live' = live \cup {r.id : r \in S}
         /\ pc' = [t \in Tasks |-> IF \E r \in S : slot[r] = t THEN "turn" ELSE pc[t]]
         /\ item' = [t \in Tasks |-> IF \E r \in S : slot[r] = t
                                         THEN CHOOSE r \in S : slot[r] = t
                                         ELSE item[t]]
         /\ hits' = [o \in Owners |->
                       hits[o] \o [k \in 1 .. Cardinality(of(S, o)) |-> 0]]
         /\ starts' = [o \in Owners |-> LastStarts(
                         starts[o] \o [k \in 1 .. Cardinality(of(S, o)) |-> 0])]
  BY <1>0, Zenon
<1>2. S \subseteq snap /\ \A r \in S : r \in Row /\ r.id \notin live /\ r.status = "open"
  BY DEF ShouldNotify, IInv, CommitTypeOK
<1>3. \A r \in S : slot[r] \in Tasks /\ pc[slot[r]] = "free"
  BY DEF Free
<1>4. ASSUME NEW r \in S
      PROVE  item'[slot[r]] = r /\ pc'[slot[r]] = "turn" /\ Given(slot[r])
  <2>1. \A q \in S : slot[q] = slot[r] => q = r
    BY <1>1
  <2>2. (CHOOSE q \in S : slot[q] = slot[r]) = r
    BY <2>1
  <2>3. item'[slot[r]] = r /\ pc'[slot[r]] = "turn"
    BY <1>1, <1>3, <2>2
  <2> QED BY <1>2, <1>3, <2>3 DEF Given
<1>5. ASSUME NEW t \in Tasks, ~ \E r \in S : slot[r] = t
      PROVE  item'[t] = item[t] /\ pc'[t] = pc[t] /\ ~ Given(t)
  <2>1. item'[t] = item[t] /\ pc'[t] = pc[t]
    BY <1>1, <1>5
  <2> QED BY <2>1 DEF Given
<1>6. /\ \A t \in Tasks : Given(t) \/ (pc'[t] = pc[t] /\ item'[t] = item[t])
      /\ \A t, u \in Tasks : Given(t) /\ Given(u) /\ item'[t] = item'[u] => t = u
  BY <1>4, <1>5
<1>7. live' = live \cup {item'[t].id : t \in {u \in Tasks : Given(u)}}
  <2>1. {r.id : r \in S} = {item'[t].id : t \in {u \in Tasks : Given(u)}}
    BY <1>3, <1>4, <1>5
  <2> QED BY <1>1, <2>1
<1>8. /\ pc' \in [Tasks -> {"free", "turn", "mark", "marking", "close", "closing", "ended"}]
      /\ item' \in [Tasks -> Row \cup {NoRow}]
  <2>1. \A t \in Tasks :
          /\ pc'[t] \in {"free", "turn", "mark", "marking", "close", "closing", "ended"}
          /\ item'[t] \in Row \cup {NoRow}
    BY <1>2, <1>4, <1>5 DEF IInv, CommitTypeOK
  <2>2. pc' = [t \in Tasks |-> pc'[t]] /\ item' = [t \in Tasks |-> item'[t]]
    BY <1>1
  <2> QED BY <2>1, <2>2
<1>9. ASSUME NEW o \in Owners
      PROVE  /\ Cardinality(of(S, o)) \in Nat
             /\ Cardinality(of(S, o)) <= MaxPerHour - Len(hits[o])
  <2>1. IsFiniteSet(of(S, o)) /\ IsFiniteSet(of(ready, o))
    <3>1. of(S, o) \in SUBSET snap /\ of(ready, o) \in SUBSET snap
      BY <1>2
    <3> QED BY <3>1, SnapFinite, FS_Subset, Zenon DEF IInv
  <2>2. Cardinality(of(S, o)) \in Nat /\ Cardinality(of(ready, o)) \in Int
    BY <2>1, FS_CardinalityType
  <2>3. Allowance(o) \in Int /\ Allowance(o) = MaxPerHour - Len(hits[o])
    BY CommitmentAssumption DEF Allowance, IInv, CommitTypeOK
  <2>4. Min({Cardinality(of(ready, o)), Allowance(o)}) <= Allowance(o)
    BY <2>2, <2>3, SmallerOfTwo, Zenon
  <2> QED BY <1>1, <2>2, <2>3, <2>4
<1> HIDE DEF of, ready
<1>10. ASSUME NEW o \in Owners
       PROVE  /\ hits'[o] \in Seq(Age) /\ Len(hits'[o]) <= MaxPerHour
              /\ starts'[o] \in Seq(Age)
              /\ starts[o] = hits[o] => starts'[o] = hits'[o]
  <2> DEFINE new == [k \in 1 .. Cardinality(of(S, o)) |-> 0]
  <2>1. hits[o] \in Seq(Age) /\ starts[o] \in Seq(Age) /\ Len(hits[o]) <= MaxPerHour
    BY DEF IInv, CommitTypeOK, Within, Age
  <2>2. hits'[o] = hits[o] \o new /\ starts'[o] = LastStarts(starts[o] \o new)
    BY <1>1
  <2>3. new \in Seq(Age)
    BY <1>9, CommitmentAssumption DEF Age
  <2>4. hits[o] \o new \in Seq(Age) /\ Len(hits[o] \o new) <= MaxPerHour
    BY <1>9, <2>1, Noted
  <2> HIDE DEF new
  <2>5. starts[o] \o new \in Seq(Age)
    BY <2>1, <2>3
  <2> QED BY <2>2, <2>4, <2>5, LastTyped
<1>11. /\ hits' \in [Owners -> Seq(Age)]
       /\ starts' \in [Owners -> Seq(Age)]
  BY <1>1, <1>10
<1>12. Within'
  BY <1>10 DEF Within
<1>13. starts = hits => starts' = hits'
  <2> SUFFICES ASSUME starts = hits PROVE starts' = hits'
    OBVIOUS
  <2> QED BY <1>10, <1>11
<1> QED BY <1>6, <1>7, <1>8, <1>11, <1>12, <1>13

-----------------------------------------------------------------------------
(* Each action keeps the types and the rows that others rely on.           *)

(* Putting a row stores it under its id and leaves the others alone.       *)
LEMMA PutShape ==
    ASSUME CommitTypeOK, Stored, NEW row \in Row, Put(row), row.id \notin unused',
           unused' \subseteq unused
    PROVE  /\ db' \in [Ids -> Row \cup {NoRow}]
           /\ Stored'
           /\ db'[row.id] = row
           /\ \A i \in Ids : i # row.id => db'[i] = db[i]
           /\ \A i \in Ids : db[i] # NoRow => db'[i] # NoRow
<1>1. row.id \in Ids /\ row # NoRow
  BY CommitmentAssumption DEF Row
<1>2. db' = [db EXCEPT ![row.id] = row]
  BY DEF Put
<1> QED BY <1>1, <1>2 DEF CommitTypeOK, Stored

(* The row a task works on has a row in the table that can be read.        *)
LEMMA ReadShape ==
    ASSUME IInv, NEW t \in Tasks, pc[t] # "free"
    PROVE  /\ item[t] \in Row /\ item[t] # NoRow /\ item[t].id \in Ids
           /\ db[item[t].id] \in Row /\ db[item[t].id].id = item[t].id
           /\ item[t].id \notin unused
BY CommitmentAssumption DEF IInv, CommitTypeOK, Stored, Grounded, Row

(* A turn only counts what was said.                                       *)
LEMMA TurnStep == ASSUME IInv, NEW t \in Tasks, Turn(t) PROVE IInv'
<1>1. item[t].id \in Ids
  BY ReadShape DEF Turn
<1>2. PICK heard \in {0, 1} : said' = [said EXCEPT ![item[t].id] = Min({2, @ + heard})]
  BY DEF Turn
<1>3. said' \in [Ids -> 0 .. 2]
  <2>1. said[item[t].id] \in 0 .. 2
    BY <1>1 DEF IInv, CommitTypeOK
  <2>2. 2 \in Int /\ said[item[t].id] + heard \in Int /\ said[item[t].id] + heard >= 0
    BY <2>1
  <2>3. /\ Min({2, said[item[t].id] + heard}) \in {2, said[item[t].id] + heard}
        /\ Min({2, said[item[t].id] + heard}) <= 2
    BY <2>2, SmallerOfTwo, Zenon
  <2>4. Min({2, said[item[t].id] + heard}) \in 0 .. 2
    BY <2>2, <2>3
  <2> QED BY <1>1, <1>2, <2>4 DEF IInv, CommitTypeOK
<1> QED BY <1>3 DEF Turn, GoTo, rows, beat, commands, IInv, CommitTypeOK, Stored, Grounded, Within

(* Reading a row for mark_notified takes a row that is there.              *)
LEMMA MarkReadStep == ASSUME IInv, NEW t \in Tasks, MarkRead(t) PROVE IInv'
<1>1. /\ item[t].id \in Ids
      /\ [db[item[t].id] EXCEPT !.since = 0] \in Row
      /\ [db[item[t].id] EXCEPT !.since = 0].id = item[t].id
  BY ReadShape, CommitmentAssumption DEF MarkRead, Row
<1> QED BY <1>1, CommitmentAssumption
        DEF MarkRead, GoTo, rows, beat, commands, history, IInv, CommitTypeOK, Stored,
            Grounded, Within

(* Reading a row to close it takes a row that is there.                    *)
LEMMA CloseReadStep == ASSUME IInv, NEW t \in Tasks, CloseRead(t) PROVE IInv'
<1>1. /\ item[t].id \in Ids
      /\ [db[item[t].id] EXCEPT !.status = "done"] \in Row
      /\ [db[item[t].id] EXCEPT !.status = "done"].id = item[t].id
  BY ReadShape DEF CloseRead, Row
<1> QED BY <1>1, CommitmentAssumption
        DEF CloseRead, GoTo, rows, beat, commands, history, IInv, CommitTypeOK, Stored,
            Grounded, Within

(* A task that reads takes another row of the same commitment.             *)
LEMMA TaskReadShape ==
    ASSUME IInv, NEW t \in Tasks, MarkRead(t) \/ CloseRead(t)
    PROVE  \E row \in Row : row.id = item[t].id /\ item' = [item EXCEPT ![t] = row]
<1>1. db[item[t].id] \in Row /\ db[item[t].id].id = item[t].id
  BY ReadShape DEF MarkRead, CloseRead
<1>2. CASE MarkRead(t)
  <2>1. /\ [db[item[t].id] EXCEPT !.since = 0] \in Row
        /\ [db[item[t].id] EXCEPT !.since = 0].id = item[t].id
    BY <1>1, CommitmentAssumption DEF Row
  <2> QED BY <1>2, <2>1 DEF MarkRead
<1>3. CASE CloseRead(t)
  <2>1. /\ [db[item[t].id] EXCEPT !.status = "done"] \in Row
        /\ [db[item[t].id] EXCEPT !.status = "done"].id = item[t].id
    BY <1>1 DEF Row
  <2> QED BY <1>3, <2>1 DEF CloseRead
<1> QED BY <1>2, <1>3

(* A task writes back the row it holds.                                    *)
LEMMA TaskWriteStep ==
    ASSUME IInv, NEW t \in Tasks, MarkWrite(t) \/ CloseWrite(t) PROVE IInv'
<1>1. item[t] \in Row /\ item[t].id \notin unused' /\ unused' = unused /\ Put(item[t])
  BY ReadShape DEF MarkWrite, CloseWrite
<1>2. /\ db' \in [Ids -> Row \cup {NoRow}] /\ Stored'
      /\ \A i \in Ids : db[i] # NoRow => db'[i] # NoRow
  BY <1>1, PutShape DEF IInv
<1>3. \E l \in {"close", "ended"} : pc' = [pc EXCEPT ![t] = l]
  BY DEF MarkWrite, CloseWrite, GoTo
<1>4. pc[t] # "free"
  BY DEF MarkWrite, CloseWrite
<1>5. UNCHANGED <<unused, beat, live, item, commands, history>>
  BY DEF MarkWrite, CloseWrite
<1>6. CommitTypeOK'
  BY <1>2, <1>3, <1>5 DEF beat, commands, history, IInv, CommitTypeOK
<1>7. Grounded'
  BY <1>2, <1>3, <1>4, <1>5 DEF beat, commands, IInv, CommitTypeOK, Grounded, Row
<1> QED BY <1>2, <1>5, <1>6, <1>7 DEF beat, IInv, Within

(* A follow-up that fails gives up an id and nothing else.                 *)
LEMMA FailStep == ASSUME IInv, NEW t \in Tasks, FollowUpFails(t) PROVE IInv'
<1>1. item[t].id \in Ids
  BY ReadShape DEF FollowUpFails
<1> QED BY <1>1 DEF FollowUpFails, Discard, GoTo, rows, beat, commands, IInv, CommitTypeOK, Stored,
                    Grounded, Within

(* The done callback empties the slot.                                     *)
LEMMA DoneStep == ASSUME IInv, NEW t \in Tasks, Done(t) PROVE IInv'
BY CommitmentAssumption
   DEF Done, Discard, GoTo, rows, beat, commands, history, IInv, CommitTypeOK, Stored, Grounded, Within

(* The SELECT returns one row for each commitment that is due.             *)
LEMMA HeartbeatReadStep == ASSUME IInv, HeartbeatRead PROVE IInv'
<1>1. Due \subseteq Row
  BY CommitmentAssumption DEF Due, IInv, CommitTypeOK
<1>2. /\ \A r \in Due : db[r.id] # NoRow
      /\ \A r, q \in Due : r.id = q.id => r = q
  BY DEF Due, IInv, Stored
<1> QED BY <1>1, <1>2 DEF HeartbeatRead, rows, tasks, commands, history, IInv, CommitTypeOK,
                          Stored, Grounded, Within

(* A pass hands out rows of the snapshot, within the quota.                *)
LEMMA HeartbeatStartStep == ASSUME IInv, HeartbeatStart PROVE IInv'
<1>1. /\ heartbeat' = "idle" /\ snap' = {}
      /\ UNCHANGED <<rows, commands, said, cancelled, failed>>
  BY DEF HeartbeatStart
<1>2. \A t \in Tasks : Given(t) => item'[t] \in Row /\ db[item'[t].id] # NoRow
  BY DEF Given, IInv, CommitTypeOK, Grounded
<1>3. live' \subseteq Ids
  BY <1>2, StartShape DEF IInv, CommitTypeOK, Row
<1>4. CommitTypeOK'
  BY <1>1, <1>3, StartShape DEF rows, commands, IInv, CommitTypeOK, Age
<1>5. Grounded'
  <2>1. \A t \in Tasks : pc'[t] = "free" <=> item'[t] = NoRow
    BY <1>2, StartShape, CommitmentAssumption DEF Given, IInv, Grounded
  <2>2. \A t \in Tasks : item'[t] # NoRow => db'[item'[t].id] # NoRow
    BY <1>1, <1>2, StartShape DEF rows, IInv, Grounded
  <2> QED BY <1>1, <2>1, <2>2 DEF rows, commands, IInv, Grounded
<1> QED BY <1>1, <1>4, <1>5, StartShape DEF rows, IInv, Stored

(* A new commitment takes an id that nobody has.                           *)
LEMMA AddStep ==
    ASSUME IInv, NEW i \in Ids, NEW o \in Owners, NEW d \in Delays, Add(i, o, d) PROVE IInv'
<1> DEFINE row == [id |-> i, owner |-> o, status |-> "open", due |-> d, since |-> Cooldown]
<1>1. row \in Row /\ row.id = i
  BY CommitmentAssumption DEF Row
<1>2. Put(row) /\ i \notin unused' /\ unused' \subseteq unused
  BY DEF Add
<1> HIDE DEF row
<1>3. /\ db' \in [Ids -> Row \cup {NoRow}] /\ Stored'
      /\ \A k \in Ids : db[k] # NoRow => db'[k] # NoRow
  BY <1>1, <1>2, PutShape DEF IInv
<1>4. UNCHANGED <<beat, tasks, commands, history>>
  BY DEF Add
<1> QED BY <1>2, <1>3, <1>4
        DEF beat, tasks, commands, history, IInv, CommitTypeOK, Grounded, Within, Row

(* A command lists commitments that have rows.                             *)
LEMMA CancelListStep ==
    ASSUME IInv, NEW c \in Callers, NEW o \in Owners, CancelList(c, o) PROVE IInv'
<1>1. PICK T \in SUBSET Open(o) : todo' = [todo EXCEPT ![c] = T]
  BY DEF CancelList
<1>2. T \subseteq Ids /\ \A i \in T : db[i] # NoRow
  BY DEF Open
<1> QED BY <1>1, <1>2 DEF CancelList, rows, beat, tasks, history, IInv, CommitTypeOK, Stored,
                          Grounded, Within

(* A command holds the row it is about to close.                           *)
LEMMA CancelReadStep == ASSUME IInv, NEW c \in Callers, CancelRead(c) PROVE IInv'
<1>1. PICK i \in todo[c] : held' = [held EXCEPT ![c] = [db[i] EXCEPT !.status = "cancelled"]]
  BY DEF CancelRead
<1>2. i \in Ids /\ db[i] \in Row /\ db[i].id = i
  BY DEF IInv, CommitTypeOK, Stored, Grounded
<1>3. /\ [db[i] EXCEPT !.status = "cancelled"] \in Row
      /\ [db[i] EXCEPT !.status = "cancelled"].id = i
  BY <1>2 DEF Row
<1> QED BY <1>1, <1>3 DEF CancelRead, rows, beat, tasks, history, IInv, CommitTypeOK, Stored,
                          Grounded, Within

(* A command writes back a row under an id that is in use.                 *)
LEMMA CancelWriteStep == ASSUME IInv, NEW c \in Callers, CancelWrite(c) PROVE IInv'
<1>1. held[c] \in Row /\ held[c].id \in todo[c] /\ held[c].id \in Ids
  BY DEF CancelWrite, IInv, CommitTypeOK, Grounded
<1>2. held[c].id \notin unused' /\ unused' = unused /\ Put(held[c])
  BY <1>1 DEF CancelWrite, IInv, Grounded, Stored
<1>3. /\ db' \in [Ids -> Row \cup {NoRow}] /\ Stored'
      /\ \A k \in Ids : db[k] # NoRow => db'[k] # NoRow
  BY <1>1, <1>2, PutShape DEF IInv
<1>4. /\ cancelled' = cancelled \cup {held[c].id}
      /\ todo' = [todo EXCEPT ![c] = @ \ {held[c].id}]
      /\ held' = [held EXCEPT ![c] = NoRow]
      /\ UNCHANGED <<unused, beat, tasks, said, starts, failed>>
  BY DEF CancelWrite
<1>5. CommitTypeOK'
  BY <1>1, <1>3, <1>4 DEF beat, tasks, IInv, CommitTypeOK
<1>6. Grounded'
  BY <1>1, <1>3, <1>4 DEF beat, tasks, IInv, CommitTypeOK, Grounded, Row
<1> QED BY <1>3, <1>4, <1>5, <1>6 DEF beat, IInv, Within

(* A command that fails drops what it holds.                               *)
LEMMA CancelFailsStep == ASSUME IInv, NEW c \in Callers, CancelFails(c) PROVE IInv'
BY DEF CancelFails, rows, beat, tasks, history, IInv, CommitTypeOK, Stored, Grounded, Within

(* The window of the code is the last hour.                                *)
LEMMA LastHourAged == ASSUME NEW ages PROVE LastHour(ages) = AgedHits(ages)
BY DEF LastHour, AgedHits

(* As time passes rows stay what they are, and hits only expire.           *)
LEMMA ElapseStep == ASSUME IInv, Elapse PROVE IInv'
<1>1. /\ db' = [i \in Ids |-> Older(db[i])]
      /\ hits' = [o \in Owners |-> AgedHits(hits[o])]
      /\ item' = [t \in Tasks |-> Older(item[t])]
      /\ held' = [c \in Callers |-> Older(held[c])]
      /\ starts' = [o \in Owners |-> LastHour(starts[o])]
      /\ heartbeat = "idle"
      /\ UNCHANGED <<unused, heartbeat, snap, live, pc, todo, said, cancelled, failed>>
  BY DEF Elapse
<1>2. /\ \A i \in Ids : db[i] \in Row \cup {NoRow}
      /\ \A t \in Tasks : item[t] \in Row \cup {NoRow}
      /\ \A c \in Callers : held[c] \in Row \cup {NoRow}
  BY DEF IInv, CommitTypeOK
<1>3. \A o \in Owners : hits[o] \in Seq(Age) /\ starts[o] \in Seq(Age)
  BY DEF IInv, CommitTypeOK, Age
<1>4. \A o \in Owners : /\ hits'[o] \in Seq(Age) /\ Len(hits'[o]) <= Len(hits[o])
                        /\ starts'[o] \in Seq(Age)
  BY <1>1, <1>3, AgedTyped, LastHourAged
<1>5. CommitTypeOK'
  <2>1. /\ db' \in [Ids -> Row \cup {NoRow}]
        /\ item' \in [Tasks -> Row \cup {NoRow}]
        /\ held' \in [Callers -> Row \cup {NoRow}]
    BY <1>1, <1>2, OlderTyped
  <2>2. hits' \in [Owners -> Seq(Age)] /\ starts' \in [Owners -> Seq(Age)]
    BY <1>1, <1>4
  <2> QED BY <1>1, <2>1, <2>2 DEF IInv, CommitTypeOK, Age
<1>6. Stored'
  BY <1>1, <1>2, OlderTyped DEF IInv, CommitTypeOK, Stored
<1>7. Grounded'
  <2>1. \A i \in Ids : db'[i] = NoRow <=> db[i] = NoRow
    BY <1>1, <1>2, OlderTyped
  <2>2. \A t \in Tasks : /\ item'[t] = NoRow <=> item[t] = NoRow
                         /\ item[t] # NoRow => item'[t].id = item[t].id /\ item[t].id \in Ids
    BY <1>1, <1>2, OlderTyped DEF Row
  <2>3. \A c \in Callers : /\ held'[c] = NoRow <=> held[c] = NoRow
                           /\ held[c] # NoRow => held'[c].id = held[c].id
    BY <1>1, <1>2, OlderTyped
  <2>4. \A c \in Callers : todo'[c] = todo[c] /\ todo[c] \subseteq Ids
    BY <1>1 DEF IInv, CommitTypeOK
  <2>5. snap' = {}
    BY <1>1 DEF IInv, Grounded
  <2>6. \A t \in Tasks : /\ pc'[t] = "free" <=> item'[t] = NoRow
                         /\ item'[t] # NoRow => db'[item'[t].id] # NoRow
    BY <1>1, <2>1, <2>2 DEF IInv, Grounded
  <2>7. \A c \in Callers : /\ \A i \in todo'[c] : db'[i] # NoRow
                           /\ held'[c] # NoRow => held'[c].id \in todo'[c]
    BY <2>1, <2>3, <2>4 DEF IInv, Grounded
  <2> QED BY <2>5, <2>6, <2>7 DEF Grounded
<1>8. Within'
  <2>1. \A o \in Owners : Len(hits[o]) \in Nat /\ Len(hits'[o]) \in Nat /\ Len(hits[o]) <= MaxPerHour
    BY <1>3, <1>4 DEF IInv, Within
  <2> QED BY <1>4, <2>1, CommitmentAssumption DEF Within
<1> QED BY <1>5, <1>6, <1>7, <1>8 DEF IInv

(* A new process holds nothing.                                            *)
LEMMA RestartStep == ASSUME IInv, Restart PROVE IInv'
<1>1. db' \in [Ids -> Row \cup {NoRow}] /\ Stored'
  BY DEF Restart, history, IInv, CommitTypeOK, Stored
<1>2. <<>> \in Seq(Age) /\ Len(<<>>) = 0
  OBVIOUS
<1>3. hits' \in [Owners -> Seq(Age)] /\ Within'
  BY <1>2, CommitmentAssumption DEF Restart, Within
<1>4. CommitTypeOK'
  BY <1>1, <1>3 DEF Restart, history, IInv, CommitTypeOK, Age
<1>5. Grounded'
  BY DEF Restart, Grounded
<1> QED BY <1>1, <1>3, <1>4, <1>5 DEF IInv

(* No step breaks the invariant.                                           *)
LEMMA Step == IInv /\ [Next]_vars => IInv'
<1> SUFFICES ASSUME IInv, [Next]_vars PROVE IInv'
  OBVIOUS
<1>1. ASSUME NEW t \in Tasks, TaskStep(t) PROVE IInv'
  BY <1>1, TurnStep, MarkReadStep, CloseReadStep, TaskWriteStep, FailStep, DoneStep DEF TaskStep
<1>2. ASSUME NEW c \in Callers, CancelStep(c) PROVE IInv'
  BY <1>2, CancelReadStep, CancelWriteStep, CancelFailsStep DEF CancelStep
<1>3. ASSUME OwnerStep PROVE IInv'
  BY <1>3, AddStep, CancelListStep DEF OwnerStep
<1>4. CASE UNCHANGED vars
  BY <1>4 DEF vars, rows, beat, tasks, commands, history, IInv, CommitTypeOK, Stored, Grounded,
              Within
<1> QED BY <1>1, <1>2, <1>3, <1>4, HeartbeatReadStep, HeartbeatStartStep, ElapseStep, RestartStep
        DEF Next, HeartbeatStep

(* What is stored and held fits together at all times.                     *)
THEOREM Bookkept == Spec => []IInv
<1>1. Init => IInv
  BY CommitmentAssumption
     DEF Init, IInv, CommitTypeOK, Stored, Grounded, Within
<1> QED BY <1>1, Step, PTL DEF Spec

(* The tables, the hits and the tasks keep their types.                    *)
THEOREM CommitTypeCorrect == Spec => []CommitTypeOK
<1>1. IInv => CommitTypeOK
  BY DEF IInv
<1> QED BY <1>1, Bookkept, PTL

-----------------------------------------------------------------------------
(* The quota.                                                              *)

(* While the process lives, every follow-up of the hour is in              *)
(* _proactive_hits.                                                        *)
Counted == MayCrash \/ starts = hits

(* A follow-up is noted in the step that starts it, and both lists age     *)
(* alike.                                                                  *)
LEMMA CountedStep == IInv /\ Counted /\ [Next]_vars => Counted'
<1> SUFFICES ASSUME IInv, Counted, [Next]_vars, ~MayCrash PROVE starts' = hits'
  BY DEF Counted
<1>1. starts = hits
  BY DEF Counted
<1>2. CASE HeartbeatStart
  BY <1>1, <1>2, StartShape
<1>3. CASE Elapse
  BY <1>1, <1>3, LastHourAged DEF Elapse
<1>4. CASE starts' = starts /\ hits' = hits
  BY <1>1, <1>4
<1>5. ASSUME NEW t \in Tasks, TaskStep(t) PROVE starts' = starts /\ hits' = hits
  BY <1>5 DEF TaskStep, Turn, MarkRead, MarkWrite, CloseRead, CloseWrite, FollowUpFails, Done,
              beat, history
<1>6. ASSUME NEW c \in Callers, CancelStep(c) PROVE starts' = starts /\ hits' = hits
  BY <1>6 DEF CancelStep, CancelRead, CancelWrite, CancelFails, beat, history
<1>7. CASE OwnerStep
  BY <1>4, <1>7 DEF OwnerStep, Add, CancelList, beat, history
<1>8. CASE HeartbeatRead
  BY <1>4, <1>8 DEF HeartbeatRead, history
<1>9. CASE UNCHANGED vars
  BY <1>4, <1>9 DEF vars, beat, history
<1>10. CASE Restart
  BY <1>10 DEF Restart
<1> QED BY <1>2, <1>3, <1>4, <1>5, <1>6, <1>7, <1>8, <1>9, <1>10 DEF Next, HeartbeatStep

(* In a process that lives on, no owner is approached more often in an     *)
(* hour than the quota says, whatever its value and however many           *)
(* commitments fall due at once.                                           *)
THEOREM QuotaHolds == ASSUME ~MayCrash PROVE Spec => []QuotaKept
<1>1. Init => Counted
  BY DEF Init, Counted
<1>2. IInv /\ Counted => QuotaKept
  BY DEF IInv, Within, Counted, QuotaKept
<1> QED BY <1>1, <1>2, Bookkept, CountedStep, PTL DEF Spec

-----------------------------------------------------------------------------
(* One task for a commitment.                                              *)

(* A step that changes nobody's commitment and neither of the two sets.    *)
LEMMA SameHands ==
    ASSUME OneFollowUp, LiveExact, UNCHANGED <<live, failed>>,
           \A t \in Tasks : item'[t] = NoRow <=> item[t] = NoRow,
           \A t \in Tasks : item[t] # NoRow => item'[t].id = item[t].id
    PROVE  OneFollowUp' /\ LiveExact'
<1>1. OneFollowUp'
  BY DEF OneFollowUp
<1>2. {item'[t].id : t \in {u \in Tasks : item'[u] # NoRow}}
        = {item[t].id : t \in {u \in Tasks : item[u] # NoRow}}
  OBVIOUS
<1>3. LiveExact'
  BY <1>2 DEF LiveExact
<1> QED BY <1>1, <1>3

(* The heartbeat starts one task for a commitment that no task has.        *)
LEMMA StartHands ==
    ASSUME IInv, OneFollowUp, LiveExact, HeartbeatStart PROVE OneFollowUp' /\ LiveExact'
<1>1. failed' = failed
  BY DEF HeartbeatStart
<1>2. /\ \A t \in Tasks : Given(t) \/ item'[t] = item[t]
      /\ \A t, u \in Tasks : Given(t) /\ Given(u) /\ item'[t] = item'[u] => t = u
      /\ live' = live \cup {item'[t].id : t \in {u \in Tasks : Given(u)}}
  BY StartShape
<1>3. \A t \in Tasks : Given(t) => /\ item'[t] \in snap /\ item'[t].id \notin live
                                   /\ item'[t] # NoRow /\ item[t] = NoRow
  BY CommitmentAssumption DEF Given, IInv, CommitTypeOK, Grounded
<1>4. \A t \in Tasks : item[t] # NoRow /\ item[t].id \notin failed => item[t].id \in live
  BY DEF LiveExact
<1>5. OneFollowUp'
  <2> SUFFICES ASSUME NEW t \in Tasks, NEW u \in Tasks, item'[t] # NoRow, item'[u] # NoRow,
                      item'[t].id = item'[u].id, item'[t].id \notin failed
               PROVE  t = u
    BY <1>1 DEF OneFollowUp
  <2>1. CASE Given(t) /\ Given(u)
    <3>1. item'[t] = item'[u]
      BY <1>3, <2>1 DEF IInv, Grounded
    <3> QED BY <1>2, <2>1, <3>1
  <2>2. CASE ~Given(t) /\ ~Given(u)
    BY <1>2, <2>2 DEF OneFollowUp
  <2>3. CASE Given(t) /\ ~Given(u)
    BY <1>2, <1>3, <1>4, <2>3
  <2>4. CASE ~Given(t) /\ Given(u)
    BY <1>2, <1>3, <1>4, <2>4
  <2> QED BY <2>1, <2>2, <2>3, <2>4
<1>6. LiveExact'
  <2> DEFINE taken == {item[t].id : t \in {u \in Tasks : item[u] # NoRow}}
             given == {item'[t].id : t \in {u \in Tasks : Given(u)}}
  <2>1. {item'[t].id : t \in {u \in Tasks : item'[u] # NoRow}} = taken \cup given
    BY <1>2, <1>3
  <2>2. taken \ failed \subseteq live /\ live \subseteq taken
    BY DEF LiveExact
  <2> QED BY <1>1, <1>2, <2>1, <2>2 DEF LiveExact
<1> QED BY <1>5, <1>6

(* The task that ends was the only one of its commitment.                  *)
LEMMA DoneHands ==
    ASSUME IInv, OneFollowUp, LiveExact, NEW t \in Tasks, Done(t)
    PROVE  OneFollowUp' /\ LiveExact'
<1>1. /\ live' = live \ {item[t].id} /\ failed' = failed
      /\ item' = [item EXCEPT ![t] = NoRow]
      /\ item[t] # NoRow
  BY DEF Done, Discard, history, IInv, Grounded
<1>2. item'[t] = NoRow /\ \A u \in Tasks : u # t => item'[u] = item[u]
  BY <1>1 DEF IInv, CommitTypeOK
<1>3. OneFollowUp'
  BY <1>1, <1>2 DEF OneFollowUp
<1>4. LiveExact'
  <2> SUFFICES /\ \A u \in Tasks : item'[u] # NoRow /\ item'[u].id \notin failed
                                     => item'[u].id \in live'
               /\ \A i \in live' : \E u \in Tasks : item'[u] # NoRow /\ item'[u].id = i
    BY <1>1 DEF LiveExact
  <2>1. /\ \A u \in Tasks : item[u] # NoRow /\ item[u].id \notin failed => item[u].id \in live
        /\ \A i \in live : \E u \in Tasks : item[u] # NoRow /\ item[u].id = i
    BY DEF LiveExact
  <2> QED BY <1>1, <1>2, <2>1 DEF OneFollowUp
<1> QED BY <1>3, <1>4

(* No step gives a commitment to two tasks, or an id to _heartbeat_running *)
(* that no task is at work for.                                            *)
LEMMA HandsStep ==
    IInv /\ OneFollowUp /\ LiveExact /\ [Next]_vars => OneFollowUp' /\ LiveExact'
<1> SUFFICES ASSUME IInv, OneFollowUp, LiveExact, [Next]_vars PROVE OneFollowUp' /\ LiveExact'
  OBVIOUS
<1>1. CASE UNCHANGED <<live, failed, item>>
  BY <1>1, SameHands
<1>2. ASSUME NEW t \in Tasks, TaskStep(t) PROVE OneFollowUp' /\ LiveExact'
  <2>1. CASE Turn(t) \/ MarkWrite(t) \/ CloseWrite(t)
    BY <1>1, <2>1 DEF Turn, MarkWrite, CloseWrite, history
  <2>2. CASE MarkRead(t) \/ CloseRead(t)
    <3>1. /\ item[t] # NoRow /\ db[item[t].id] \in Row /\ db[item[t].id].id = item[t].id
      BY <2>2, ReadShape DEF MarkRead, CloseRead
    <3>2. \E row \in Row : row.id = item[t].id /\ item' = [item EXCEPT ![t] = row]
      BY <2>2, TaskReadShape
    <3>3. UNCHANGED <<live, failed>>
      BY <2>2 DEF MarkRead, CloseRead, history
    <3>4. /\ \A u \in Tasks : item'[u] = NoRow <=> item[u] = NoRow
          /\ \A u \in Tasks : item[u] # NoRow => item'[u].id = item[u].id
      BY <3>1, <3>2, CommitmentAssumption DEF IInv, CommitTypeOK
    <3> QED BY <3>3, <3>4, SameHands
  <2>3. CASE FollowUpFails(t)
    BY <2>3 DEF FollowUpFails, Discard, OneFollowUp, LiveExact
  <2> QED BY <1>2, <2>1, <2>2, <2>3, DoneHands DEF TaskStep
<1>3. ASSUME NEW c \in Callers, CancelStep(c) PROVE OneFollowUp' /\ LiveExact'
  BY <1>1, <1>3 DEF CancelStep, CancelRead, CancelWrite, CancelFails, tasks, history
<1>4. CASE OwnerStep
  BY <1>1, <1>4 DEF OwnerStep, Add, CancelList, tasks, history
<1>5. CASE HeartbeatRead
  BY <1>1, <1>5 DEF HeartbeatRead, tasks, history
<1>6. CASE Elapse
  <2>1. /\ UNCHANGED <<live, failed>> /\ \A t \in Tasks : item'[t] = Older(item[t])
    BY <1>6 DEF Elapse
  <2>2. \A t \in Tasks : item[t] \in Row \cup {NoRow}
    BY DEF IInv, CommitTypeOK
  <2>3. /\ \A u \in Tasks : item'[u] = NoRow <=> item[u] = NoRow
        /\ \A u \in Tasks : item[u] # NoRow => item'[u].id = item[u].id
    BY <2>1, <2>2, OlderTyped
  <2> QED BY <2>1, <2>3, SameHands
<1>7. CASE Restart
  BY <1>7 DEF Restart, OneFollowUp, LiveExact
<1>8. CASE UNCHANGED vars
  BY <1>1, <1>8 DEF vars, tasks, history
<1> QED BY <1>2, <1>3, <1>4, <1>5, <1>6, <1>7, <1>8, StartHands DEF Next, HeartbeatStep

(* A commitment is in the hands of one task at a time, for any number of   *)
(* tasks, either database and any failures, but for what a failed          *)
(* follow-up gave up twice.                                                *)
THEOREM OneAtATime == Spec => []OneFollowUp
<1>1. Init => OneFollowUp /\ LiveExact
  BY DEF Init, OneFollowUp, LiveExact
<1> QED BY <1>1, Bookkept, HandsStep, PTL DEF Spec

(* _heartbeat_running is what the tasks under way say it is.               *)
THEOREM RunningIsExact == Spec => []LiveExact
<1>1. Init => OneFollowUp /\ LiveExact
  BY DEF Init, OneFollowUp, LiveExact
<1> QED BY <1>1, Bookkept, HandsStep, PTL DEF Spec

-----------------------------------------------------------------------------
(* Closed for good.                                                        *)

(* The row of a settled commitment is put by nobody.                       *)
LEMMA SettledRow ==
    ASSUME IInv, NEW i \in Ids, Settled(i), NEW row \in Row, Put(row), row.id # i
    PROVE  db'[i] = db[i]
<1>1. db' = [db EXCEPT ![row.id] = row]
  BY DEF Put
<1> QED BY <1>1 DEF IInv, CommitTypeOK, Row

(* Nobody takes hold of a settled commitment, and its row stays.           *)
LEMMA SettledStep ==
    ASSUME IInv, [Next]_vars, Postgres \/ ~MayCrash, NEW i \in Ids, Settled(i)
    PROVE  Settled(i)'
<1>1. /\ db[i] \in Row /\ db[i] # NoRow /\ db[i].status # "open" /\ db[i].id = i
      /\ \A r \in snap : r.id # i
      /\ \A t \in Tasks : item[t] # NoRow => item[t].id # i
      /\ \A c \in Callers : i \notin todo[c]
  BY DEF Settled, InHand, IInv, CommitTypeOK, Stored
<1> SUFFICES /\ db'[i] # NoRow /\ db'[i].status # "open"
             /\ \A r \in snap' : r.id # i
             /\ \A t \in Tasks : item'[t] # NoRow => item'[t].id # i
             /\ \A c \in Callers : i \notin todo'[c]
  BY DEF Settled, InHand
<1> DEFINE Goal == /\ db'[i] # NoRow /\ db'[i].status # "open"
                   /\ \A r \in snap' : r.id # i
                   /\ \A t \in Tasks : item'[t] # NoRow => item'[t].id # i
                   /\ \A c \in Callers : i \notin todo'[c]
<1>2. CASE UNCHANGED <<db, snap, item, todo>>
  BY <1>1, <1>2
<1>3. ASSUME NEW t \in Tasks, TaskStep(t) PROVE Goal
  <2>1. CASE Turn(t) \/ FollowUpFails(t)
    BY <1>2, <2>1 DEF Turn, FollowUpFails, rows, beat, commands
  <2>2. CASE MarkWrite(t) \/ CloseWrite(t)
    <3>1. item[t] \in Row /\ item[t].id # i /\ Put(item[t])
      BY <1>1, <2>2, ReadShape DEF MarkWrite, CloseWrite
    <3>2. db'[i] = db[i]
      BY <3>1, SettledRow
    <3>3. UNCHANGED <<snap, item, todo>>
      BY <2>2 DEF MarkWrite, CloseWrite, beat, commands
    <3> QED BY <1>1, <3>2, <3>3
  <2>3. CASE MarkRead(t) \/ CloseRead(t)
    <3>1. /\ item[t].id # i /\ item[t].id \in Ids
          /\ db[item[t].id] \in Row /\ db[item[t].id].id = item[t].id
      BY <1>1, <2>3, ReadShape DEF MarkRead, CloseRead
    <3>2. UNCHANGED <<db, snap, todo>>
      BY <2>3 DEF MarkRead, CloseRead, rows, beat, commands
    <3>3. /\ item'[t].id = item[t].id
          /\ \A u \in Tasks : u # t => item'[u] = item[u]
      BY <2>3, TaskReadShape DEF IInv, CommitTypeOK
    <3> QED BY <1>1, <3>1, <3>2, <3>3
  <2>4. CASE Done(t)
    BY <1>1, <2>4 DEF Done, rows, beat, commands, IInv, CommitTypeOK
  <2> QED BY <1>3, <2>1, <2>2, <2>3, <2>4 DEF TaskStep
<1>4. ASSUME NEW c \in Callers, CancelStep(c) PROVE Goal
  <2>1. CASE CancelRead(c)
    BY <1>2, <2>1 DEF CancelRead, rows, beat, tasks
  <2>2. CASE CancelWrite(c)
    <3>1. held[c] \in Row /\ held[c].id # i /\ Put(held[c])
      BY <1>1, <2>2 DEF CancelWrite, IInv, CommitTypeOK, Grounded
    <3>2. db'[i] = db[i]
      BY <3>1, SettledRow
    <3> QED BY <1>1, <2>2, <3>2 DEF CancelWrite, beat, tasks, IInv, CommitTypeOK
  <2>3. CASE CancelFails(c)
    BY <1>1, <2>3 DEF CancelFails, rows, beat, tasks, IInv, CommitTypeOK
  <2> QED BY <1>4, <2>1, <2>2, <2>3 DEF CancelStep
<1>5. ASSUME NEW k \in Ids, NEW o \in Owners, NEW d \in Delays, Add(k, o, d) PROVE Goal
  <2> DEFINE row == [id |-> k, owner |-> o, status |-> "open", due |-> d, since |-> Cooldown]
  <2>1. row \in Row /\ row.id = k
    BY CommitmentAssumption DEF Row
  <2>2. Put(row) /\ k # i
    BY <1>1, <1>5 DEF Add, IInv, Stored
  <2> HIDE DEF row
  <2>3. db'[i] = db[i]
    BY <2>1, <2>2, SettledRow
  <2> QED BY <1>1, <1>5, <2>3 DEF Add, beat, tasks, commands
<1>6. ASSUME NEW c \in Callers, NEW o \in Owners, CancelList(c, o) PROVE Goal
  <2>1. i \notin Open(o)
    BY <1>1 DEF Open
  <2> QED BY <1>1, <1>6, <2>1 DEF CancelList, rows, beat, tasks, IInv, CommitTypeOK
<1>7. CASE HeartbeatRead
  <2>1. \A r \in Due : r.id # i
    BY <1>1 DEF Due, IInv, Stored
  <2> QED BY <1>1, <1>7, <2>1 DEF HeartbeatRead, rows, tasks, commands
<1>8. CASE HeartbeatStart
  <2>1. UNCHANGED <<db, todo>> /\ snap' = {}
    BY <1>8 DEF HeartbeatStart, rows, commands
  <2>2. \A t \in Tasks : item'[t] \in snap \/ item'[t] = item[t]
    BY <1>8, StartShape DEF Given
  <2> QED BY <1>1, <2>1, <2>2
<1>9. CASE Elapse
  <2>1. /\ UNCHANGED <<snap, todo>> /\ db'[i] = Older(db[i])
        /\ \A t \in Tasks : item'[t] = Older(item[t])
    BY <1>9 DEF Elapse
  <2>2. \A t \in Tasks : item[t] \in Row \cup {NoRow}
    BY DEF IInv, CommitTypeOK
  <2> QED BY <1>1, <2>1, <2>2, OlderTyped
<1>10. CASE Restart
  BY <1>1, <1>10 DEF Restart
<1>11. CASE UNCHANGED vars
  BY <1>2, <1>11 DEF vars, rows, beat, tasks, commands
<1> QED BY <1>3, <1>4, <1>5, <1>6, <1>7, <1>8, <1>9, <1>10, <1>11
        DEF Next, HeartbeatStep, OwnerStep

(* With Postgres, or as long as the process lives: a commitment that is    *)
(* closed while nobody works on it is closed for good.                     *)
THEOREM ClosedIsFinal == ASSUME Postgres \/ ~MayCrash PROVE Spec => ClosedForGood
<1>1. IInv /\ [Next]_vars => [\A i \in Ids : Settled(i) => Settled(i)']_vars
  BY SettledStep
<1> QED BY <1>1, Bookkept, PTL DEF Spec, ClosedForGood

-----------------------------------------------------------------------------
(* The in-memory database, whose calls do not suspend and do not fail.     *)

(* At most one actor is between two of its database calls.                 *)
Alone == \A a, b \in HoldingLoop : a = b

(* What is said of an open commitment is being recorded.                   *)
SaidInv ==
    /\ \A i \in Ids : said[i] <= 1
    /\ \A i \in Ids : said[i] = 1 /\ db[i] # NoRow /\ db[i].status = "open"
                         => \E t \in Tasks : pc[t] \in Late /\ item[t].id = i
    /\ \A t \in Tasks : pc[t] = "turn" => said[item[t].id] = 0
    /\ \A r \in snap : db[r.id].status = "open"
    /\ \A i \in unused : said[i] = 0

(* What is about to be written back reopens nothing.                       *)
CancelInv ==
    /\ \A t \in Tasks : pc[t] = "marking" => item[t].status = db[item[t].id].status
    /\ \A t \in Tasks : pc[t] = "closing" => item[t].status = "done"
    /\ \A c \in Callers : held[c] # NoRow => held[c].status = "cancelled"
    /\ \A i \in unused : i \notin cancelled
    /\ CancelledStaysClosed

MemoryInv == IInv /\ OneFollowUp /\ failed = {} /\ Alone /\ SaidInv /\ CancelInv

(* Who may move when nobody else may.                                      *)
(* ... a task: nobody else is between two calls.                           *)
LEMMA OnlyTask ==
    ASSUME ~Postgres, NEW t \in Tasks, MayMove(t)
    PROVE  /\ \A u \in Tasks : pc[u] \in Late => u = t
           /\ heartbeat # "read"
           /\ \A c \in Callers : todo[c] = {}
BY CommitmentAssumption DEF MayMove, HoldingLoop, Late

(* ... a command: nobody else is between two calls.                        *)
LEMMA OnlyCaller ==
    ASSUME ~Postgres, NEW c \in Callers, MayMove(c)
    PROVE  /\ \A u \in Tasks : pc[u] \notin Late
           /\ heartbeat # "read"
           /\ \A d \in Callers : todo[d] # {} => d = c
BY CommitmentAssumption DEF MayMove, HoldingLoop, Late

(* ... the heartbeat: no task and no command is between two calls.         *)
LEMMA OnlyHeartbeat ==
    ASSUME ~Postgres, MayMove("heartbeat")
    PROVE  /\ \A u \in Tasks : pc[u] \notin Late
           /\ \A c \in Callers : todo[c] = {}
BY CommitmentAssumption DEF MayMove, HoldingLoop, Late

(* ... the owner or the clock: nobody is.                                  *)
LEMMA OnlyOthers ==
    ASSUME ~Postgres, NEW a \in {"owner", "clock"}, MayMove(a)
    PROVE  HoldingLoop = {}
BY CommitmentAssumption DEF MayMove, HoldingLoop

(* After a step of its own at most the actor that moved holds the loop.    *)
LEMMA AloneAfter ==
    ASSUME NEW a, HoldingLoop' \subseteq {a} PROVE Alone'
BY DEF Alone

(* A turn says what was not said, and goes on to record it.                *)
LEMMA TurnMemory ==
    ASSUME MemoryInv, ~Postgres, NEW t \in Tasks, Turn(t) PROVE Alone' /\ SaidInv' /\ CancelInv'
<1>1. /\ item[t] # NoRow /\ item[t].id \in Ids /\ item[t].id \notin unused
      /\ said[item[t].id] = 0 /\ pc[t] = "turn"
  BY ReadShape DEF Turn, MemoryInv, SaidInv
<1>2. /\ pc' = [pc EXCEPT ![t] = "mark"]
      /\ UNCHANGED <<rows, beat, live, item, commands, starts, cancelled, failed>>
  BY DEF Turn, GoTo
<1>3. /\ said'[item[t].id] \in {0, 1}
      /\ \A i \in Ids : i # item[t].id => said'[i] = said[i]
  <2>1. PICK heard \in {0, 1} : said' = [said EXCEPT ![item[t].id] = Min({2, @ + heard})]
    BY DEF Turn
  <2>2. 2 \in Int /\ heard \in Int /\ said[item[t].id] + heard = heard
    BY <1>1
  <2>3. Min({2, heard}) \in {2, heard} /\ Min({2, heard}) <= heard
    BY <2>2, SmallerOfTwo, Zenon
  <2>4. Min({2, heard}) = heard
    BY <2>2, <2>3
  <2> QED BY <1>1, <2>1, <2>2, <2>4 DEF MemoryInv, IInv, CommitTypeOK
<1>4. /\ \A u \in Tasks : pc[u] \in Late => u = t
      /\ heartbeat # "read" /\ \A c \in Callers : todo[c] = {}
  BY OnlyTask DEF Turn
<1>5. pc'[t] = "mark" /\ \A u \in Tasks : u # t => pc'[u] = pc[u]
  BY <1>2 DEF MemoryInv, IInv, CommitTypeOK
<1>6. Alone'
  <2>1. HoldingLoop' \subseteq {t}
    BY <1>2, <1>4, <1>5 DEF HoldingLoop, Late, beat, commands
  <2> QED BY <2>1, AloneAfter
<1>7. SaidInv'
  <2>1. \A u \in Tasks : pc'[u] = "turn" => item[u] # NoRow /\ item[u].id \in Ids /\ item[u].id # item[t].id
    <3> SUFFICES ASSUME NEW u \in Tasks, pc'[u] = "turn"
                 PROVE  item[u] # NoRow /\ item[u].id \in Ids /\ item[u].id # item[t].id
      OBVIOUS
    <3>1. u # t /\ pc[u] = "turn"
      BY <1>5
    <3>2. item[u] # NoRow /\ item[u].id \in Ids
      BY <3>1, ReadShape DEF MemoryInv
    <3> QED BY <1>1, <3>1, <3>2 DEF MemoryInv, OneFollowUp
  <2>2. \A i \in Ids : said'[i] <= 1
    BY <1>3 DEF MemoryInv, SaidInv
  <2>3. \A i \in Ids : said'[i] = 1 /\ db'[i] # NoRow /\ db'[i].status = "open"
                       => \E u \in Tasks : pc'[u] \in Late /\ item'[u].id = i
    <3> SUFFICES ASSUME NEW i \in Ids, said'[i] = 1, db'[i] # NoRow, db'[i].status = "open"
                 PROVE  \E u \in Tasks : pc'[u] \in Late /\ item'[u].id = i
      OBVIOUS
    <3>1. CASE i = item[t].id
      BY <1>2, <1>5, <3>1 DEF Late
    <3>2. CASE i # item[t].id
      <4>1. \E u \in Tasks : pc[u] \in Late /\ item[u].id = i
        BY <1>2, <1>3, <3>2 DEF rows, MemoryInv, SaidInv
      <4> QED BY <1>2, <1>4, <1>5, <4>1 DEF Late
    <3> QED BY <3>1, <3>2
  <2>4. \A u \in Tasks : pc'[u] = "turn" => said'[item'[u].id] = 0
    BY <1>2, <1>3, <1>5, <2>1 DEF MemoryInv, SaidInv
  <2>5. \A i \in unused' : said'[i] = 0
    BY <1>1, <1>2, <1>3 DEF rows, MemoryInv, SaidInv, IInv, CommitTypeOK
  <2> QED BY <1>2, <2>2, <2>3, <2>4, <2>5 DEF rows, beat, MemoryInv, SaidInv
<1>8. CancelInv'
  BY <1>2, <1>5 DEF rows, commands, MemoryInv, CancelInv, CancelledStaysClosed
<1> QED BY <1>6, <1>7, <1>8

(* What a task reads it is about to write back, and nobody comes between.  *)
LEMMA TaskReadMemory ==
    ASSUME MemoryInv, ~Postgres, NEW t \in Tasks, MarkRead(t) \/ CloseRead(t)
    PROVE  Alone' /\ SaidInv' /\ CancelInv'
<1>1. PICK row \in Row : row.id = item[t].id /\ item' = [item EXCEPT ![t] = row]
  BY TaskReadShape DEF MemoryInv
<1>2. /\ UNCHANGED <<rows, beat, live, commands, history>>
      /\ pc[t] \in Late /\ item[t] # NoRow
      /\ \E l \in {"marking", "closing"} : pc' = [pc EXCEPT ![t] = l]
  BY ReadShape DEF MarkRead, CloseRead, GoTo, Late, MemoryInv
<1>3. /\ \A u \in Tasks : pc[u] \in Late => u = t
      /\ heartbeat # "read" /\ \A c \in Callers : todo[c] = {}
  BY OnlyTask DEF MarkRead, CloseRead
<1>4. /\ pc'[t] \in {"marking", "closing"} /\ item'[t].id = item[t].id
      /\ \A u \in Tasks : u # t => pc'[u] = pc[u] /\ item'[u] = item[u]
  BY <1>1, <1>2 DEF MemoryInv, IInv, CommitTypeOK
<1>5. Alone'
  <2>1. HoldingLoop' \subseteq {t}
    BY <1>2, <1>3, <1>4 DEF HoldingLoop, Late, beat, commands
  <2> QED BY <2>1, AloneAfter
<1>6. SaidInv'
  BY <1>2, <1>4 DEF rows, beat, history, Late, MemoryInv, SaidInv
<1>7. CancelInv'
  <2>1. /\ pc'[t] = "marking" => item'[t].status = db[item[t].id].status
        /\ pc'[t] = "closing" => item'[t].status = "done"
    <3>1. db[item[t].id] \in Row
      BY <1>2, ReadShape DEF MemoryInv, Late
    <3>2. CASE MarkRead(t)
      <4>1. pc'[t] = "marking" /\ item'[t] = [db[item[t].id] EXCEPT !.since = 0]
        BY <3>2 DEF MarkRead, GoTo, MemoryInv, IInv, CommitTypeOK
      <4> QED BY <3>1, <4>1 DEF Row
    <3>3. CASE CloseRead(t)
      <4>1. pc'[t] = "closing" /\ item'[t] = [db[item[t].id] EXCEPT !.status = "done"]
        BY <3>3 DEF CloseRead, GoTo, MemoryInv, IInv, CommitTypeOK
      <4> QED BY <3>1, <4>1 DEF Row
    <3> QED BY <3>2, <3>3
  <2> QED BY <1>2, <1>4, <2>1
          DEF rows, commands, history, MemoryInv, CancelInv, CancelledStaysClosed
<1> QED BY <1>5, <1>6, <1>7

(* What a task writes back is no more open than the row was.               *)
LEMMA TaskWriteMemory ==
    ASSUME MemoryInv, ~Postgres, NEW t \in Tasks, MarkWrite(t) \/ CloseWrite(t)
    PROVE  Alone' /\ SaidInv' /\ CancelInv'
<1>1. /\ item[t] \in Row /\ item[t].id \in Ids /\ item[t].id \notin unused
      /\ db[item[t].id] # NoRow /\ item[t] # NoRow
  BY ReadShape, CommitmentAssumption DEF MarkWrite, CloseWrite, MemoryInv
<1>2. /\ UNCHANGED <<unused, beat, live, item, commands, history>>
      /\ pc[t] \in Late
      /\ \E l \in {"close", "ended"} : pc' = [pc EXCEPT ![t] = l]
      /\ db' = [db EXCEPT ![item[t].id] = item[t]]
  BY DEF MarkWrite, CloseWrite, GoTo, Put, Late
<1>3. /\ \A u \in Tasks : pc[u] \in Late => u = t
      /\ heartbeat # "read" /\ \A c \in Callers : todo[c] = {}
  BY OnlyTask DEF MarkWrite, CloseWrite
<1>4. /\ pc'[t] \in {"close", "ended"}
      /\ \A u \in Tasks : u # t => pc'[u] = pc[u]
      /\ db'[item[t].id] = item[t]
      /\ \A i \in Ids : i # item[t].id => db'[i] = db[i]
  BY <1>1, <1>2 DEF MemoryInv, IInv, CommitTypeOK
<1>5. /\ MarkWrite(t) => item[t].status = db[item[t].id].status /\ pc'[t] = "close"
      /\ CloseWrite(t) => item[t].status = "done"
  BY DEF MarkWrite, CloseWrite, GoTo, MemoryInv, CancelInv, IInv, CommitTypeOK
<1>6. Alone'
  <2>1. HoldingLoop' \subseteq {t}
    BY <1>2, <1>3, <1>4 DEF HoldingLoop, Late, beat, commands
  <2> QED BY <2>1, AloneAfter
<1>7. SaidInv'
  <2>1. snap' = {}
    <3>1. heartbeat = "idle" /\ snap' = snap
      BY <1>2, <1>3 DEF beat, MemoryInv, IInv, CommitTypeOK
    <3> QED BY <3>1 DEF MemoryInv, IInv, Grounded
  <2>2. \A i \in Ids : said'[i] = 1 /\ db'[i] # NoRow /\ db'[i].status = "open"
                       => \E u \in Tasks : pc'[u] \in Late /\ item'[u].id = i
    <3> SUFFICES ASSUME NEW i \in Ids, said'[i] = 1, db'[i] # NoRow, db'[i].status = "open"
                 PROVE  \E u \in Tasks : pc'[u] \in Late /\ item'[u].id = i
      OBVIOUS
    <3>1. CASE i = item[t].id
      <4>1. ~CloseWrite(t)
        BY <1>4, <1>5, <3>1
      <4> QED BY <1>2, <1>5, <3>1, <4>1 DEF Late
    <3>2. CASE i # item[t].id
      <4>1. db'[i] = db[i] /\ said'[i] = said[i]
        BY <1>2, <1>4, <3>2 DEF history
      <4>2. PICK u \in Tasks : pc[u] \in Late /\ item[u].id = i
        BY <4>1 DEF MemoryInv, SaidInv
      <4> QED BY <1>3, <3>2, <4>2
    <3> QED BY <3>1, <3>2
  <2>3. \A u \in Tasks : pc'[u] = "turn" => said'[item'[u].id] = 0
    BY <1>2, <1>4 DEF history, MemoryInv, SaidInv
  <2> QED BY <1>2, <2>1, <2>2, <2>3 DEF history, MemoryInv, SaidInv
<1>8. CancelInv'
  <2>1. CancelledStaysClosed'
    <3> SUFFICES ASSUME NEW i \in cancelled, db'[i] # NoRow PROVE db'[i].status # "open"
      BY <1>2 DEF history, CancelledStaysClosed
    <3>1. i \in Ids /\ (db[i] # NoRow => db[i].status # "open")
      BY DEF MemoryInv, IInv, CommitTypeOK, CancelInv, CancelledStaysClosed
    <3> QED BY <1>1, <1>4, <1>5, <3>1
  <2>2. \A u \in Tasks : pc'[u] \notin {"marking", "closing"}
    BY <1>3, <1>4 DEF Late
  <2> QED BY <1>2, <2>1, <2>2 DEF commands, history, MemoryInv, CancelInv
<1> QED BY <1>6, <1>7, <1>8

(* A task that is over was done with its commitment.                       *)
LEMMA DoneMemory ==
    ASSUME MemoryInv, ~Postgres, NEW t \in Tasks, Done(t) PROVE Alone' /\ SaidInv' /\ CancelInv'
<1>1. /\ UNCHANGED <<rows, beat, commands, history>>
      /\ pc[t] = "ended"
      /\ pc'[t] = "free" /\ \A u \in Tasks : u # t => pc'[u] = pc[u] /\ item'[u] = item[u]
  BY DEF Done, Discard, GoTo, MemoryInv, IInv, CommitTypeOK
<1>2. \A u \in Tasks : pc'[u] \in Late \cup {"turn"} => u # t
  BY <1>1 DEF Late
<1>3. HoldingLoop' \subseteq HoldingLoop
  BY <1>1, <1>2 DEF HoldingLoop, Late, beat, commands
<1>4. Alone'
  BY <1>3 DEF MemoryInv, Alone
<1>5. SaidInv'
  BY <1>1, <1>2 DEF rows, beat, history, Late, MemoryInv, SaidInv
<1>6. CancelInv'
  BY <1>1 DEF rows, commands, history, MemoryInv, CancelInv, CancelledStaysClosed
<1> QED BY <1>4, <1>5, <1>6

(* The SELECT returns open commitments, and nobody comes between.          *)
LEMMA HeartbeatReadMemory ==
    ASSUME MemoryInv, ~Postgres, HeartbeatRead PROVE Alone' /\ SaidInv' /\ CancelInv'
<1>1. UNCHANGED <<rows, hits, tasks, commands, history>> /\ heartbeat' = "read" /\ snap' = Due
  BY DEF HeartbeatRead
<1>2. (\A u \in Tasks : pc[u] \notin Late) /\ \A c \in Callers : todo[c] = {}
  BY OnlyHeartbeat DEF HeartbeatRead
<1>3. Alone'
  <2>1. HoldingLoop' \subseteq {"heartbeat"}
    BY <1>1, <1>2 DEF HoldingLoop, Late, tasks, commands
  <2> QED BY <2>1, AloneAfter
<1>4. \A r \in Due : db[r.id].status = "open"
  BY DEF Due, MemoryInv, IInv, Stored
<1>5. SaidInv'
  BY <1>1, <1>4 DEF rows, tasks, history, MemoryInv, SaidInv
<1>6. CancelInv'
  BY <1>1 DEF rows, tasks, commands, history, MemoryInv, CancelInv, CancelledStaysClosed
<1> QED BY <1>3, <1>5, <1>6

(* A commitment that is handed to a task was not said: it is still open.   *)
LEMMA HeartbeatStartMemory ==
    ASSUME MemoryInv, ~Postgres, HeartbeatStart PROVE Alone' /\ SaidInv' /\ CancelInv'
<1>1. /\ UNCHANGED <<rows, commands, said, cancelled, failed>>
      /\ heartbeat' = "idle" /\ snap' = {}
  BY DEF HeartbeatStart
<1>2. (\A u \in Tasks : pc[u] \notin Late) /\ \A c \in Callers : todo[c] = {}
  BY OnlyHeartbeat DEF HeartbeatStart
<1>3. \A t \in Tasks : \/ pc'[t] = "turn" /\ item'[t] \in snap
                       \/ pc'[t] = pc[t] /\ item'[t] = item[t]
  BY StartShape DEF Given, MemoryInv
<1>4. \A r \in snap : said[r.id] = 0
  <2> SUFFICES ASSUME NEW r \in snap PROVE said[r.id] = 0
    OBVIOUS
  <2>1. r.id \in Ids /\ db[r.id] # NoRow /\ db[r.id].status = "open"
    BY DEF MemoryInv, IInv, CommitTypeOK, Row, Grounded, SaidInv
  <2>2. said[r.id] \in 0 .. 2 /\ said[r.id] <= 1 /\ said[r.id] # 1
    BY <1>2, <2>1 DEF MemoryInv, IInv, CommitTypeOK, SaidInv
  <2> QED BY <2>2
<1>5. Alone'
  <2>1. HoldingLoop' = {}
    BY <1>1, <1>2, <1>3 DEF HoldingLoop, Late, commands
  <2> QED BY <2>1 DEF Alone
<1>6. SaidInv'
  BY <1>1, <1>2, <1>3, <1>4 DEF rows, Late, MemoryInv, SaidInv
<1>7. CancelInv'
  BY <1>1, <1>2, <1>3 DEF rows, commands, Late, MemoryInv, CancelInv, CancelledStaysClosed
<1> QED BY <1>5, <1>6, <1>7

(* A new commitment was neither said nor cancelled.                        *)
LEMMA AddMemory ==
    ASSUME MemoryInv, ~Postgres, NEW i \in Ids, NEW o \in Owners, NEW d \in Delays, Add(i, o, d)
    PROVE  Alone' /\ SaidInv' /\ CancelInv'
<1> DEFINE row == [id |-> i, owner |-> o, status |-> "open", due |-> d, since |-> Cooldown]
<1>1. /\ row.id = i /\ i \in unused /\ unused' = unused \ {i}
      /\ db' = [db EXCEPT ![i] = row]
      /\ UNCHANGED <<beat, tasks, commands, history>>
  BY DEF Add, Put
<1> HIDE DEF row
<1>2. HoldingLoop = {}
  BY OnlyOthers DEF Add
<1>3. \A u \in Tasks : pc[u] \notin Late
  BY <1>2 DEF HoldingLoop, Late
<1>4. snap = {}
  <2>1. heartbeat # "read"
    BY <1>2 DEF HoldingLoop
  <2> QED BY <2>1 DEF MemoryInv, IInv, CommitTypeOK, Grounded
<1>5. \A k \in Ids : k # i => db'[k] = db[k]
  BY <1>1 DEF MemoryInv, IInv, CommitTypeOK
<1>6. said[i] = 0 /\ i \notin cancelled
  BY <1>1 DEF MemoryInv, SaidInv, CancelInv
<1>7. Alone'
  BY <1>1, <1>2 DEF Alone, HoldingLoop, beat, tasks, commands
<1>8. SaidInv'
  BY <1>1, <1>4, <1>5, <1>6 DEF beat, tasks, history, MemoryInv, SaidInv
<1>9. CancelInv'
  BY <1>1, <1>3, <1>5, <1>6
     DEF tasks, commands, history, Late, MemoryInv, CancelInv, CancelledStaysClosed,
         IInv, CommitTypeOK
<1> QED BY <1>7, <1>8, <1>9

(* Listing changes no row.                                                 *)
LEMMA CancelListMemory ==
    ASSUME MemoryInv, ~Postgres, NEW c \in Callers, NEW o \in Owners, CancelList(c, o)
    PROVE  Alone' /\ SaidInv' /\ CancelInv'
<1>1. /\ UNCHANGED <<rows, beat, tasks, held, history>>
      /\ \A e \in Callers : e # c => todo'[e] = todo[e]
  BY DEF CancelList, MemoryInv, IInv, CommitTypeOK
<1>2. HoldingLoop = {}
  BY OnlyOthers DEF CancelList
<1>3. Alone'
  <2>1. HoldingLoop' \subseteq {c}
    BY <1>1, <1>2 DEF HoldingLoop, beat, tasks
  <2> QED BY <2>1, AloneAfter
<1>4. SaidInv' /\ CancelInv'
  BY <1>1 DEF rows, beat, tasks, history, MemoryInv, SaidInv, CancelInv, CancelledStaysClosed
<1> QED BY <1>3, <1>4

(* What a command holds is cancelled.                                      *)
LEMMA CancelReadMemory ==
    ASSUME MemoryInv, ~Postgres, NEW c \in Callers, CancelRead(c)
    PROVE  Alone' /\ SaidInv' /\ CancelInv'
<1>1. UNCHANGED <<rows, beat, tasks, todo, history>>
  BY DEF CancelRead
<1>2. \A e \in Callers : held'[e] # NoRow => held'[e].status = "cancelled"
  <2>1. PICK i \in todo[c] : held' = [held EXCEPT ![c] = [db[i] EXCEPT !.status = "cancelled"]]
    BY DEF CancelRead
  <2>2. db[i] \in Row
    BY DEF MemoryInv, IInv, CommitTypeOK, Grounded
  <2> QED BY <2>1, <2>2 DEF MemoryInv, IInv, CommitTypeOK, CancelInv, Row
<1>3. Alone'
  BY <1>1 DEF HoldingLoop, Alone, MemoryInv, beat, tasks
<1>4. SaidInv' /\ CancelInv'
  BY <1>1, <1>2 DEF rows, beat, tasks, history, MemoryInv, SaidInv, CancelInv, CancelledStaysClosed
<1> QED BY <1>3, <1>4

(* What a command writes closes a commitment.                              *)
LEMMA CancelWriteMemory ==
    ASSUME MemoryInv, ~Postgres, NEW c \in Callers, CancelWrite(c)
    PROVE  Alone' /\ SaidInv' /\ CancelInv'
<1>1. /\ held[c].id \in todo[c] /\ held[c].id \in Ids /\ held[c].id \notin unused
      /\ held[c].status = "cancelled"
  BY DEF CancelWrite, MemoryInv, IInv, CommitTypeOK, Grounded, Stored, CancelInv
<1>2. /\ db' = [db EXCEPT ![held[c].id] = held[c]]
      /\ cancelled' = cancelled \cup {held[c].id}
      /\ todo' = [todo EXCEPT ![c] = @ \ {held[c].id}]
      /\ held' = [held EXCEPT ![c] = NoRow]
      /\ UNCHANGED <<unused, beat, tasks, said, starts, failed>>
  BY DEF CancelWrite, Put
<1>3. /\ \A u \in Tasks : pc[u] \notin Late
      /\ heartbeat # "read" /\ \A e \in Callers : todo[e] # {} => e = c
  BY <1>1, OnlyCaller DEF CancelWrite
<1>4. /\ db'[held[c].id] = held[c]
      /\ \A i \in Ids : i # held[c].id => db'[i] = db[i]
      /\ \A e \in Callers : e # c => todo'[e] = todo[e] /\ held'[e] = held[e]
      /\ held'[c] = NoRow
  BY <1>1, <1>2 DEF MemoryInv, IInv, CommitTypeOK
<1>5. snap = {}
  BY <1>3 DEF MemoryInv, IInv, CommitTypeOK, Grounded
<1>6. Alone'
  <2>1. HoldingLoop' \subseteq {c}
    BY <1>2, <1>3, <1>4 DEF HoldingLoop, Late, beat, tasks
  <2> QED BY <2>1, AloneAfter
<1>7. SaidInv'
  BY <1>1, <1>2, <1>4, <1>5 DEF beat, tasks, MemoryInv, SaidInv
<1>8. CancelInv'
  <2>1. CancelledStaysClosed'
    BY <1>1, <1>2, <1>4 DEF MemoryInv, IInv, CommitTypeOK, CancelInv, CancelledStaysClosed
  <2>2. \A u \in Tasks : pc'[u] \notin {"marking", "closing"}
    BY <1>2, <1>3 DEF tasks, Late
  <2> QED BY <1>1, <1>2, <1>4, <2>1, <2>2 DEF MemoryInv, CancelInv
<1> QED BY <1>6, <1>7, <1>8

(* Time passes when nobody holds the loop, and leaves every status alone.  *)
LEMMA ElapseMemory ==
    ASSUME MemoryInv, ~Postgres, Elapse PROVE Alone' /\ SaidInv' /\ CancelInv'
<1>1. /\ UNCHANGED <<unused, heartbeat, snap, live, pc, todo, said, cancelled, failed>>
      /\ \A i \in Ids : db'[i] = Older(db[i])
      /\ \A t \in Tasks : item'[t] = Older(item[t])
      /\ \A c \in Callers : held'[c] = Older(held[c])
      /\ heartbeat = "idle"
  BY DEF Elapse
<1>2. /\ \A i \in Ids : db[i] \in Row \cup {NoRow}
      /\ \A t \in Tasks : item[t] \in Row \cup {NoRow}
      /\ \A c \in Callers : held[c] \in Row \cup {NoRow}
  BY DEF MemoryInv, IInv, CommitTypeOK
<1>3. HoldingLoop = {}
  BY OnlyOthers DEF Elapse
<1>4. \A u \in Tasks : pc[u] \notin Late
  BY <1>3 DEF HoldingLoop, Late
<1>5. /\ \A i \in Ids : /\ db'[i] = NoRow <=> db[i] = NoRow
                        /\ db[i] # NoRow => db'[i].status = db[i].status
      /\ \A t \in Tasks : item[t] # NoRow => item'[t].id = item[t].id
      /\ \A c \in Callers : /\ held'[c] = NoRow <=> held[c] = NoRow
                            /\ held[c] # NoRow => held'[c].status = held[c].status
  BY <1>1, <1>2, OlderTyped
<1>6. Alone'
  BY <1>1, <1>3 DEF HoldingLoop, Alone
<1>7. SaidInv'
  <2>1. snap' = {}
    BY <1>1 DEF MemoryInv, IInv, Grounded
  <2>2. \A t \in Tasks : pc[t] = "turn" => item'[t].id = item[t].id
    BY <1>5 DEF MemoryInv, IInv, Grounded
  <2> QED BY <1>1, <1>4, <1>5, <2>1, <2>2 DEF MemoryInv, SaidInv
<1>8. CancelInv'
  BY <1>1, <1>4, <1>5 DEF Late, MemoryInv, CancelInv, CancelledStaysClosed, IInv, CommitTypeOK
<1> QED BY <1>6, <1>7, <1>8

(* A new process has no rows.                                              *)
LEMMA RestartMemory ==
    ASSUME MemoryInv, ~Postgres, Restart PROVE Alone' /\ SaidInv' /\ CancelInv'
<1>1. /\ UNCHANGED <<unused, history>>
      /\ \A i \in Ids : db'[i] = NoRow
      /\ snap' = {} /\ heartbeat' = "idle"
      /\ \A t \in Tasks : pc'[t] = "free"
      /\ \A c \in Callers : todo'[c] = {} /\ held'[c] = NoRow
  BY DEF Restart
<1>2. Alone'
  BY <1>1 DEF Alone, HoldingLoop, Late
<1>3. SaidInv'
  BY <1>1 DEF history, MemoryInv, SaidInv
<1>4. CancelInv'
  BY <1>1 DEF history, MemoryInv, CancelInv, CancelledStaysClosed, IInv, CommitTypeOK
<1> QED BY <1>2, <1>3, <1>4

(* No step of a process with the in-memory database breaks MemoryInv.      *)
LEMMA MemoryStep ==
    ASSUME ~Postgres, ~DbFails
    PROVE  MemoryInv /\ LiveExact /\ [Next]_vars => MemoryInv'
<1> SUFFICES ASSUME MemoryInv, LiveExact, [Next]_vars PROVE MemoryInv'
  OBVIOUS
<1>1. IInv' /\ OneFollowUp'
  BY Step, HandsStep DEF MemoryInv
<1>2. failed' = {}
  <2>1. \A t \in Tasks : TaskStep(t) => failed' = failed
    BY DEF TaskStep, Turn, MarkRead, MarkWrite, CloseRead, CloseWrite, FollowUpFails, Done, history
  <2>2. \A c \in Callers : CancelStep(c) => failed' = failed
    BY DEF CancelStep, CancelRead, CancelWrite, CancelFails, history
  <2>3. HeartbeatStep \/ OwnerStep \/ Elapse \/ Restart \/ UNCHANGED vars => failed' = failed
    BY DEF HeartbeatStep, HeartbeatRead, HeartbeatStart, OwnerStep, Add, CancelList, Elapse,
           Restart, vars, history
  <2> QED BY <2>1, <2>2, <2>3 DEF Next, MemoryInv
<1>3. Alone' /\ SaidInv' /\ CancelInv'
  <2>1. ASSUME NEW t \in Tasks, TaskStep(t) PROVE Alone' /\ SaidInv' /\ CancelInv'
    <3>1. ~FollowUpFails(t)
      BY DEF FollowUpFails
    <3> QED BY <2>1, <3>1, TurnMemory, TaskReadMemory, TaskWriteMemory, DoneMemory DEF TaskStep
  <2>2. ASSUME NEW c \in Callers, CancelStep(c) PROVE Alone' /\ SaidInv' /\ CancelInv'
    <3>1. ~CancelFails(c)
      BY DEF CancelFails
    <3> QED BY <2>2, <3>1, CancelReadMemory, CancelWriteMemory DEF CancelStep
  <2>3. CASE OwnerStep
    BY <2>3, AddMemory, CancelListMemory DEF OwnerStep
  <2>4. CASE UNCHANGED vars
    BY <2>4 DEF vars, rows, beat, tasks, commands, history, MemoryInv, Alone, HoldingLoop,
                SaidInv, CancelInv, CancelledStaysClosed
  <2> QED BY <2>1, <2>2, <2>3, <2>4, HeartbeatReadMemory, HeartbeatStartMemory, ElapseMemory,
             RestartMemory DEF Next, HeartbeatStep
<1> QED BY <1>1, <1>2, <1>3 DEF MemoryInv

(* At first nothing is said and nobody holds anything.                     *)
LEMMA MemoryInit == Init => MemoryInv /\ LiveExact
<1> SUFFICES ASSUME Init PROVE MemoryInv /\ LiveExact
  OBVIOUS
<1>1. IInv
  BY CommitmentAssumption DEF Init, IInv, CommitTypeOK, Stored, Grounded, Within
<1>2. OneFollowUp /\ LiveExact /\ failed = {} /\ Alone
  BY DEF Init, OneFollowUp, LiveExact, Alone, HoldingLoop, Late
<1>3. SaidInv /\ CancelInv
  BY DEF Init, SaidInv, CancelInv, CancelledStaysClosed, Late
<1> QED BY <1>1, <1>2, <1>3 DEF MemoryInv

(* With the in-memory database, for any number of tasks and commands and   *)
(* through restarts: no commitment is said to its owner twice.             *)
THEOREM NeverSaidTwice == ASSUME ~Postgres, ~DbFails PROVE Spec => []SaidOnce
<1>1. MemoryInv => SaidOnce
  BY DEF MemoryInv, SaidInv, SaidOnce
<1>2. MemoryInv /\ LiveExact /\ [Next]_vars => MemoryInv' /\ LiveExact'
  BY MemoryStep, HandsStep DEF MemoryInv
<1> QED BY <1>1, <1>2, MemoryInit, PTL DEF Spec

(* With the in-memory database a commitment whose cancellation was written *)
(* is not open again, which Postgres does not guarantee.                   *)
THEOREM CancelledIsClosed == ASSUME ~Postgres, ~DbFails PROVE Spec => []CancelledStaysClosed
<1>1. MemoryInv => CancelledStaysClosed
  BY DEF MemoryInv, CancelInv
<1>2. MemoryInv /\ LiveExact /\ [Next]_vars => MemoryInv' /\ LiveExact'
  BY MemoryStep, HandsStep DEF MemoryInv
<1> QED BY <1>1, <1>2, MemoryInit, PTL DEF Spec

-----------------------------------------------------------------------------
(* With the in-memory database the commitments lead the life that          *)
(* CommitmentLife describes.                                               *)

(* The ids in the tasks' hands are of commitments that have a row, and     *)
(* each is in the hands of one task.                                       *)
LEMMA InOneHand ==
    ASSUME MemoryInv
    PROVE  /\ \A t \in Tasks : pc[t] # "free" =>
                 /\ item[t] \in Row /\ item[t] # NoRow
                 /\ item[t].id \in Ids /\ db[item[t].id] # NoRow /\ item[t].id \notin unused
           /\ \A t, u \in Tasks : pc[t] # "free" /\ pc[u] # "free" /\ item[t].id = item[u].id
                 => t = u
<1>1. ASSUME NEW t \in Tasks, pc[t] # "free"
      PROVE  /\ item[t] \in Row /\ item[t] # NoRow
             /\ item[t].id \in Ids /\ db[item[t].id] # NoRow /\ item[t].id \notin unused
  <2>1. item[t] \in Row /\ item[t] # NoRow
    BY <1>1, CommitmentAssumption DEF MemoryInv, IInv, CommitTypeOK, Grounded
  <2>2. item[t].id \in Ids
    BY <2>1 DEF Row
  <2> QED BY <2>1, <2>2 DEF MemoryInv, IInv, Grounded, Stored
<1>2. \A t, u \in Tasks : pc[t] # "free" /\ pc[u] # "free" /\ item[t].id = item[u].id => t = u
  BY <1>1 DEF MemoryInv, OneFollowUp
<1> QED BY <1>1, <1>2

(* A step that moves no task between the stages of its commitment, and     *)
(* opens and closes no commitment that is in no task's hands, stutters.    *)
LEMMA LifeStutters ==
    ASSUME unused' = unused, Speaking' = Speaking, Told' = Told,
           \A i \in Ids \ (Speaking \cup Told) :
              /\ db'[i] = NoRow <=> db[i] = NoRow
              /\ db[i] # NoRow => db'[i].status = db[i].status
    PROVE  UNCHANGED Life!lifeVars
<1>1. ASSUME NEW S PROVE Untouched(S)' = Untouched(S)
  BY DEF Untouched
<1> QED BY <1>1 DEF Life!lifeVars

(* The turn of a task tells its commitment.                                *)
LEMMA TurnLife ==
    ASSUME MemoryInv, ~Postgres, NEW t \in Tasks, Turn(t) PROVE Life!Tell(item[t].id)
<1> DEFINE i == item[t].id
<1>1. /\ pc[t] = "turn" /\ item' = item /\ db' = db /\ unused' = unused
      /\ pc'[t] = "mark" /\ \A u \in Tasks : u # t => pc'[u] = pc[u]
  BY DEF Turn, GoTo, rows, MemoryInv, IInv, CommitTypeOK
<1>2. \A u \in Tasks : u # t /\ pc[u] # "free" => item[u].id # i
  BY <1>1, InOneHand
<1>3. i \in Speaking
  BY <1>1 DEF Speaking
<1>4. Speaking' = Speaking \ {i}
  BY <1>1, <1>2 DEF Speaking
<1>5. Told' = Told \cup {i}
  BY <1>1 DEF Told, Late
<1>6. Speaking' \cup Told' = Speaking \cup Told
  BY <1>3, <1>4, <1>5
<1>7. ASSUME NEW S PROVE Untouched(S)' = Untouched(S)
  BY <1>1, <1>6 DEF Untouched
<1> QED BY <1>1, <1>3, <1>4, <1>5, <1>7 DEF Life!Tell

(* Marking the row and reading it again change no stage.                   *)
LEMMA MarkLife ==
    ASSUME MemoryInv, ~Postgres, NEW t \in Tasks, MarkRead(t) \/ MarkWrite(t) \/ CloseRead(t)
    PROVE  UNCHANGED Life!lifeVars
<1>1. /\ pc[t] \in Late /\ pc'[t] \in Late /\ unused' = unused
      /\ \A u \in Tasks : u # t => pc'[u] = pc[u] /\ item'[u] = item[u]
  BY DEF MarkRead, MarkWrite, CloseRead, GoTo, Late, rows, MemoryInv, IInv, CommitTypeOK
<1>2. item'[t].id = item[t].id
  <2>1. CASE MarkWrite(t)
    BY <2>1 DEF MarkWrite
  <2>2. CASE MarkRead(t) \/ CloseRead(t)
    <3>1. PICK row \in Row : row.id = item[t].id /\ item' = [item EXCEPT ![t] = row]
      BY <2>2, TaskReadShape DEF MemoryInv
    <3> QED BY <3>1 DEF MemoryInv, IInv, CommitTypeOK
  <2> QED BY <2>1, <2>2
<1>3. Speaking' = Speaking /\ Told' = Told
  BY <1>1, <1>2 DEF Speaking, Told, Late
<1>4. item[t].id \in Told
  BY <1>1 DEF Told
<1>5. \A i \in Ids : i # item[t].id => db'[i] = db[i]
  BY DEF MarkRead, MarkWrite, CloseRead, Put, rows, MemoryInv, IInv, CommitTypeOK
<1> QED BY <1>1, <1>3, <1>4, <1>5, LifeStutters

(* The last write of a task settles its commitment.                        *)
LEMMA CloseLife ==
    ASSUME MemoryInv, ~Postgres, NEW t \in Tasks, CloseWrite(t) PROVE Life!Settle(item[t].id)
<1> DEFINE i == item[t].id
<1>1. /\ pc[t] = "closing" /\ item' = item /\ unused' = unused
      /\ db' = [db EXCEPT ![i] = item[t]]
      /\ pc'[t] = "ended" /\ \A u \in Tasks : u # t => pc'[u] = pc[u]
  BY DEF CloseWrite, Put, GoTo, MemoryInv, IInv, CommitTypeOK
<1>2. \A u \in Tasks : u # t /\ pc[u] # "free" => item[u].id # i
  BY <1>1, InOneHand
<1>3. item[t] # NoRow /\ i \in Ids /\ item[t].status = "done"
  BY <1>1, InOneHand DEF MemoryInv, CancelInv
<1>4. db'[i] = item[t] /\ \A k \in Ids : k # i => db'[k] = db[k]
  BY <1>1, <1>3 DEF MemoryInv, IInv, CommitTypeOK
<1>5. i \in Told /\ i \notin Speaking
  BY <1>1, <1>2 DEF Told, Speaking, Late
<1>6. Speaking' = Speaking
  BY <1>1 DEF Speaking
<1>7. Told' = Told \ {i}
  BY <1>1, <1>2 DEF Told, Late
<1>8. Untouched({"open"})' = Untouched({"open"})
  BY <1>3, <1>4, <1>5, <1>6, <1>7 DEF Untouched
<1>9. Untouched({"done", "cancelled"})' = Untouched({"done", "cancelled"}) \cup {i}
  BY <1>3, <1>4, <1>5, <1>6, <1>7 DEF Untouched
<1> QED BY <1>1, <1>5, <1>6, <1>7, <1>8, <1>9 DEF Life!Settle

(* A task that has ended leaves its commitment where it is.                *)
LEMMA DoneLife ==
    ASSUME MemoryInv, NEW t \in Tasks, Done(t) PROVE UNCHANGED Life!lifeVars
<1>1. /\ pc[t] = "ended" /\ pc'[t] = "free" /\ db' = db /\ unused' = unused
      /\ \A u \in Tasks : u # t => pc'[u] = pc[u] /\ item'[u] = item[u]
  BY DEF Done, Discard, GoTo, rows, MemoryInv, IInv, CommitTypeOK
<1>2. Speaking' = Speaking /\ Told' = Told
  BY <1>1 DEF Speaking, Told, Late
<1> QED BY <1>1, <1>2, LifeStutters

(* The heartbeat takes up what is open and in nobody's hands: with the     *)
(* in-memory database its snapshot is not stale when it judges it.         *)
LEMMA StartLife ==
    ASSUME MemoryInv, LiveExact, ~Postgres, HeartbeatStart
    PROVE  \E S \in SUBSET Untouched({"open"}) : Life!TakeUp(S)
<1> DEFINE S == {item'[t].id : t \in {u \in Tasks : Given(u)}}
<1>1. db' = db /\ unused' = unused
  BY DEF HeartbeatStart, rows
<1>2. \A t \in Tasks : Given(t) \/ (pc'[t] = pc[t] /\ item'[t] = item[t])
  BY StartShape DEF MemoryInv
<1>3. \A i \in Speaking \cup Told : i \in live
  BY InOneHand DEF Speaking, Told, Late, LiveExact, MemoryInv
<1>4. ASSUME NEW t \in Tasks, Given(t)
      PROVE  item'[t].id \in Untouched({"open"})
  <2>1. item'[t] \in snap /\ item'[t].id \notin live
    BY <1>4 DEF Given
  <2>2. /\ item'[t].id \in Ids /\ db[item'[t].id] # NoRow
        /\ db[item'[t].id].status = "open"
    BY <2>1 DEF MemoryInv, IInv, CommitTypeOK, Row, Grounded, SaidInv
  <2> QED BY <1>3, <2>1, <2>2 DEF Untouched
<1>5. S \subseteq Untouched({"open"})
  BY <1>4
<1>6. Speaking' = Speaking \cup S
  BY <1>2 DEF Speaking, Given
<1>7. Told' = Told
  BY <1>2 DEF Told, Late, Given
<1> HIDE DEF S
<1>8. Untouched({"open"})' = Untouched({"open"}) \ S
  BY <1>1, <1>6, <1>7 DEF Untouched
<1>9. Untouched({"done", "cancelled"})' = Untouched({"done", "cancelled"})
  BY <1>1, <1>5, <1>6, <1>7 DEF Untouched
<1> QED BY <1>1, <1>5, <1>6, <1>7, <1>8, <1>9 DEF Life!TakeUp

(* A commitment that is added is open and in nobody's hands.               *)
LEMMA AddLife ==
    ASSUME MemoryInv, NEW i \in Ids, NEW o \in Owners, NEW d \in Delays, Add(i, o, d)
    PROVE  Life!Note(i)
<1> DEFINE row == [id |-> i, owner |-> o, status |-> "open", due |-> d, since |-> Cooldown]
<1>1. /\ i \in unused /\ unused' = unused \ {i} /\ db' = [db EXCEPT ![i] = row]
      /\ item' = item /\ pc' = pc
  BY DEF Add, Put, tasks
<1>2. row # NoRow /\ row.status = "open"
  <2>1. row \in Row
    BY CommitmentAssumption DEF Row
  <2> QED BY <2>1, CommitmentAssumption
<1> HIDE DEF row
<1>3. db'[i] = row /\ \A k \in Ids : k # i => db'[k] = db[k]
  BY <1>1 DEF MemoryInv, IInv, CommitTypeOK
<1>4. Speaking' = Speaking /\ Told' = Told
  BY <1>1 DEF Speaking, Told
<1>5. i \notin Speaking \cup Told
  BY <1>1, InOneHand DEF Speaking, Told, Late
<1>6. db[i] = NoRow
  BY <1>1 DEF MemoryInv, IInv, Stored
<1>7. Untouched({"open"})' = Untouched({"open"}) \cup {i}
  BY <1>2, <1>3, <1>4, <1>5 DEF Untouched
<1>8. Untouched({"done", "cancelled"})' = Untouched({"done", "cancelled"})
  BY <1>2, <1>3, <1>4, <1>6 DEF Untouched
<1> QED BY <1>1, <1>4, <1>7, <1>8 DEF Life!Note

(* A cancellation closes what nobody has taken up, and nothing else.       *)
LEMMA CancelLife ==
    ASSUME MemoryInv, NEW c \in Callers, CancelWrite(c)
    PROVE  (\E i \in Ids : Life!Cancel(i)) \/ UNCHANGED Life!lifeVars
<1> DEFINE i == held[c].id
<1>1. /\ db' = [db EXCEPT ![i] = held[c]] /\ unused' = unused
      /\ item' = item /\ pc' = pc
      /\ i \in Ids /\ db[i] # NoRow /\ held[c] # NoRow /\ held[c].status = "cancelled"
  BY DEF CancelWrite, Put, tasks, MemoryInv, IInv, CommitTypeOK, Grounded, CancelInv
<1>2. db'[i] = held[c] /\ \A k \in Ids : k # i => db'[k] = db[k]
  BY <1>1 DEF MemoryInv, IInv, CommitTypeOK
<1>3. Speaking' = Speaking /\ Told' = Told
  BY <1>1 DEF Speaking, Told
<1> HIDE DEF i
<1>4. CASE i \in Untouched({"open"})
  <2>1. Untouched({"open"})' = Untouched({"open"}) \ {i}
    BY <1>1, <1>2, <1>3 DEF Untouched
  <2>2. Untouched({"done", "cancelled"})' = Untouched({"done", "cancelled"}) \cup {i}
    BY <1>1, <1>2, <1>3, <1>4 DEF Untouched
  <2>3. Life!Cancel(i)
    BY <1>1, <1>3, <1>4, <2>1, <2>2 DEF Life!Cancel
  <2> QED BY <1>1, <2>3
<1>5. CASE i \notin Untouched({"open"})
  <2>1. i \in Speaking \cup Told \/ db[i].status \in {"done", "cancelled"}
    BY <1>1, <1>5 DEF Untouched, MemoryInv, IInv, CommitTypeOK, Row
  <2>2. Untouched({"open"})' = Untouched({"open"})
    BY <1>1, <1>2, <1>3, <1>5 DEF Untouched
  <2>3. Untouched({"done", "cancelled"})' = Untouched({"done", "cancelled"})
    BY <1>1, <1>2, <1>3, <2>1 DEF Untouched
  <2> QED BY <1>1, <1>3, <2>2, <2>3 DEF Life!lifeVars
<1> QED BY <1>4, <1>5

(* Time changes no stage.                                                  *)
LEMMA ElapseLife == ASSUME MemoryInv, Elapse PROVE UNCHANGED Life!lifeVars
<1>1. /\ pc' = pc /\ unused' = unused
      /\ \A i \in Ids : db'[i] = Older(db[i])
      /\ \A t \in Tasks : item'[t] = Older(item[t])
  BY DEF Elapse
<1>2. \A t \in Tasks : pc[t] # "free" => item'[t].id = item[t].id
  BY <1>1, InOneHand, OlderTyped
<1>3. Speaking' = Speaking /\ Told' = Told
  BY <1>1, <1>2 DEF Speaking, Told, Late
<1>4. \A i \in Ids : /\ db'[i] = NoRow <=> db[i] = NoRow
                     /\ db[i] # NoRow => db'[i].status = db[i].status
  BY <1>1, OlderTyped DEF MemoryInv, IInv, CommitTypeOK
<1> QED BY <1>1, <1>3, <1>4, LifeStutters

(* The process takes the rows with it.                                     *)
LEMMA RestartLife == ASSUME ~Postgres, Restart PROVE Life!Die
<1>1. /\ unused' = unused /\ \A i \in Ids : db'[i] = NoRow
      /\ \A t \in Tasks : pc'[t] = "free"
  BY DEF Restart
<1>2. Speaking' = {} /\ Told' = {}
  BY <1>1 DEF Speaking, Told, Late
<1>3. Untouched({"open"})' = {} /\ Untouched({"done", "cancelled"})' = {}
  BY <1>1 DEF Untouched
<1> QED BY <1>1, <1>2, <1>3 DEF Life!Die

(* Every step is a step in the life of commitments or changes no stage.    *)
LEMMA LifeStep ==
    ASSUME ~Postgres, ~DbFails, MemoryInv, LiveExact, [Next]_vars
    PROVE  [Life!Next]_(Life!lifeVars)
<1>1. ASSUME NEW t \in Tasks, TaskStep(t) PROVE [Life!Next]_(Life!lifeVars)
  <2>1. ~FollowUpFails(t)
    BY DEF FollowUpFails
  <2>2. CASE Turn(t)
    <3>1. item[t].id \in Ids
      BY <2>2, InOneHand DEF Turn
    <3> QED BY <2>2, <3>1, TurnLife DEF Life!Next
  <2>3. CASE CloseWrite(t)
    <3>1. item[t].id \in Ids
      BY <2>3, InOneHand DEF CloseWrite
    <3> QED BY <2>3, <3>1, CloseLife DEF Life!Next
  <2> QED BY <1>1, <2>1, <2>2, <2>3, MarkLife, DoneLife DEF TaskStep
<1>2. ASSUME NEW c \in Callers, CancelStep(c) PROVE [Life!Next]_(Life!lifeVars)
  <2>1. ~CancelFails(c)
    BY DEF CancelFails
  <2>2. CASE CancelRead(c)
    <3>1. UNCHANGED <<rows, tasks>>
      BY <2>2 DEF CancelRead
    <3>2. Speaking' = Speaking /\ Told' = Told /\ unused' = unused /\ db' = db
      BY <3>1 DEF rows, tasks, Speaking, Told
    <3> QED BY <3>2, LifeStutters
  <2> QED BY <1>2, <2>1, <2>2, CancelLife DEF CancelStep, Life!Next
<1>3. ASSUME NEW i \in Ids, NEW o \in Owners, NEW d \in Delays, Add(i, o, d)
      PROVE  [Life!Next]_(Life!lifeVars)
  BY <1>3, AddLife DEF Life!Next
<1>4. CASE HeartbeatStart
  BY <1>4, StartLife DEF Life!Next
<1>5. CASE UNCHANGED <<rows, tasks>>
  <2>1. Speaking' = Speaking /\ Told' = Told /\ unused' = unused /\ db' = db
    BY <1>5 DEF rows, tasks, Speaking, Told
  <2> QED BY <2>1, LifeStutters
<1>6. HeartbeatRead \/ UNCHANGED vars => UNCHANGED <<rows, tasks>>
  BY DEF HeartbeatRead, vars
<1>7. \A c \in Callers, o \in Owners : CancelList(c, o) => UNCHANGED <<rows, tasks>>
  BY DEF CancelList
<1> QED BY <1>1, <1>2, <1>3, <1>4, <1>5, <1>6, <1>7, ElapseLife, RestartLife
        DEF Next, HeartbeatStep, OwnerStep, Life!Next

(* With the in-memory database, for any number of tasks, commands and      *)
(* restarts, the heartbeat and the follow-ups implement CommitmentLife:    *)
(* only what is open is taken up, once, and it is said before it is closed.*)
THEOREM LifeImplemented == ASSUME ~Postgres, ~DbFails PROVE Spec => ImplementsCommitmentLife
<1>1. Init => Life!Init
  <2> SUFFICES ASSUME Init PROVE Life!Init
    OBVIOUS
  <2>1. Speaking = {} /\ Told = {}
    BY DEF Init, Speaking, Told, Late
  <2>2. Untouched({"open"}) = {} /\ Untouched({"done", "cancelled"}) = {}
    BY DEF Init, Untouched
  <2> QED BY <2>1, <2>2 DEF Init, Life!Init
<1>2. MemoryInv /\ LiveExact /\ [Next]_vars => [Life!Next]_(Life!lifeVars)
  BY LifeStep
<1>3. MemoryInv /\ LiveExact /\ [Next]_vars => MemoryInv' /\ LiveExact'
  BY MemoryStep, HandsStep DEF MemoryInv
<1> QED BY <1>1, <1>2, <1>3, MemoryInit, PTL DEF Spec, ImplementsCommitmentLife, Life!Spec
=============================================================================
