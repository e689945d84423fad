------------------------ MODULE SchedulerTasksProofs ------------------------
(***************************************************************************)
(* Proofs about SchedulerTasks, for any tasks, mains, attempts and faults: *)
(* a handler is called once per lease, work that is marked is never        *)
(* recorded as failed, and every task goes through TaskLifecycle.          *)
(***************************************************************************)
EXTENDS SchedulerTasks, TLAPS

\* The row is still under the lease a claim or a sighting names.
Current(x) == rows[x.task].status = "running" /\ rows[x.task].epoch = x.epoch

\* What a row says of itself.
GoodRow(t, r) ==
  /\ r \in Rows
  /\ r.status \in {"pending", "running"} => r.attempts < MaxAttempts
  /\ r.status = "pending" => ~r.started /\ ~r.marked
  /\ r.status = "running" /\ r.marked => r.started /\ <<t, r.epoch>> \in done
  /\ r.status = "failed" => ~r.marked

RowsOK == rows = [t \in Tasks |-> rows[t]] /\ \A t \in Tasks : GoodRow(t, rows[t])

\* A lease under which a handler was called is over, or marked as started.
BegunOK ==
  \A t \in Tasks : \A n \in Nat :
    <<t, n>> \in begun =>
      /\ n <= rows[t].epoch
      /\ rows[t].status = "running" /\ rows[t].epoch = n => rows[t].started

\* A claim a main remembers is of a lease that was granted to it.
ClaimOK(h, c) ==
  /\ 1 <= c.epoch /\ c.epoch <= rows[c.task].epoch
  /\ Current(c) => rows[c.task].attempts = c.attempts /\ rows[c.task].owner = h

Unstarted(c) == Current(c) => ~rows[c.task].started

\* Claims that have not come to a fire.
Waiting(h) == ticks[h] \cup armed[h] \cup releases[h]

ClaimsOK ==
  \A h \in Hosts :
    /\ \A c \in Waiting(h) : ClaimOK(h, c) /\ Unstarted(c)
    /\ \A f \in fires[h] : ClaimOK(h, f.claim)

\* A claim is in one place at a time.
PlacesOK ==
  \A h \in Hosts :
    /\ held[h] \subseteq armed[h]
    /\ ticks[h] \cap armed[h] = {} /\ ticks[h] \cap releases[h] = {} /\ armed[h] \cap releases[h] = {}
    /\ \A f \in fires[h] : f.claim \notin Waiting(h)

SightingOK(s) ==
  /\ s.epoch <= rows[s.task].epoch
  /\ Current(s) => rows[s.task].attempts = s.attempts

SweepOK == \A h \in Hosts : \A s \in sweep[h] : SightingOK(s)

Key(f) == <<f.claim.task, f.claim.epoch>>

\* What a fire has done is on record.
FireOK(f) ==
  /\ f.pc = "begin" => f.mark = "none"
  /\ f.pc # "begin" => Key(f) \in begun
  /\ f.mark # "none" => Key(f) \in done
  /\ f.pc = "returned" => f.mark # "none"
  /\ f.pc # "begin" /\ Current(f.claim) /\ rows[f.claim.task].marked => f.mark # "none"

FiresOK == \A h \in Hosts : \A f \in fires[h] : FireOK(f)

\* One fire at most has passed beginDispatch under one lease.
OneFire ==
  \A h, k \in Hosts : \A f \in fires[h], g \in fires[k] :
    f.pc # "begin" /\ g.pc # "begin" /\ Key(f) = Key(g) => h = k /\ f = g

MemoryTypes ==
  /\ ticks \in [Hosts -> SUBSET Claims] /\ armed \in [Hosts -> SUBSET Claims]
  /\ held \in [Hosts -> SUBSET Claims] /\ releases \in [Hosts -> SUBSET Claims]
  /\ fires \in [Hosts -> SUBSET Fires] /\ sweep \in [Hosts -> SUBSET Sightings]

OthersTypes ==
  /\ phase \in [Hosts -> {"up", "draining", "stopped", "down"}]
  /\ begun \subseteq Tasks \X Nat /\ done \subseteq Tasks \X Nat
  /\ outages \in 0..MaxOutages

IInv == /\ MemoryTypes /\ OthersTypes /\ RowsOK /\ BegunOK /\ ClaimsOK /\ PlacesOK /\ SweepOK /\ FiresOK /\ OneFire

LEMMA TypesHold == IInv => TypeOK
BY DEF IInv, TypeOK, MemoryTypes, OthersTypes, RowsOK, GoodRow

LEMMA InitInv == Init => IInv
<1> SUFFICES ASSUME Init PROVE IInv
  OBVIOUS
<1>1. RowsOK
  <2>1. InitialRow \in Rows
    BY TasksAssumption DEF InitialRow, Rows, Statuses, Leases
  <2>2. QED BY <2>1, TasksAssumption DEF Init, RowsOK, GoodRow, InitialRow
<1>2. MemoryTypes /\ OthersTypes
  BY TasksAssumption DEF Init, MemoryTypes, OthersTypes
<1>3. BegunOK /\ ClaimsOK /\ PlacesOK /\ SweepOK /\ FiresOK /\ OneFire
  BY DEF Init, BegunOK, ClaimsOK, PlacesOK, SweepOK, FiresOK, OneFire, Waiting
<1>4. QED BY <1>1, <1>2, <1>3 DEF IInv

-----------------------------------------------------------------------------
\* A change of a row that leaves what claims know of it.
Kept(r, q) ==
  /\ r.epoch <= q.epoch
  /\ q.status = "running" /\ q.epoch = r.epoch =>
       /\ r.status = "running" /\ q.attempts = r.attempts /\ q.owner = r.owner
       /\ q.started = r.started /\ q.marked = r.marked

KeepsRows == \A t \in Tasks : Kept(rows[t], rows'[t])

LEMMA RowTypes ==
  ASSUME NEW t, NEW r, GoodRow(t, r)
  PROVE  /\ r \in Rows /\ r.status \in Statuses /\ r.attempts \in 0..MaxAttempts
         /\ r.epoch \in Nat /\ r.started \in BOOLEAN /\ r.marked \in BOOLEAN
BY DEF GoodRow, Rows

\* Rows that give the task back, end it, or mark time.
LEMMA GivenBack ==
  ASSUME NEW t, NEW r, GoodRow(t, r), r.status = "running"
  PROVE  GoodRow(t, BackToPending(r)) /\ Kept(r, BackToPending(r))
<1>1. r \in Rows /\ r.attempts < MaxAttempts
  BY DEF GoodRow
<1>2. BackToPending(r) \in Rows
  BY <1>1 DEF BackToPending, Rows, Statuses, Leases
<1>3. /\ BackToPending(r).status = "pending" /\ BackToPending(r).attempts = r.attempts
      /\ BackToPending(r).epoch = r.epoch
      /\ ~BackToPending(r).started /\ ~BackToPending(r).marked
  BY <1>1 DEF BackToPending, Rows
<1>4. r.epoch \in Nat
  BY <1>1 DEF Rows
<1>5. QED BY <1>1, <1>2, <1>3, <1>4 DEF GoodRow, Kept

LEMMA Succeeded ==
  ASSUME NEW t, NEW r, GoodRow(t, r)
  PROVE  GoodRow(t, SucceededRow(r)) /\ Kept(r, SucceededRow(r))
BY DEF GoodRow, Kept, SucceededRow, Rows, Statuses

LEMMA FailedOnce ==
  ASSUME NEW t, NEW r, GoodRow(t, r), r.status = "running", ~r.marked
  PROVE  GoodRow(t, FailedRow(r)) /\ Kept(r, FailedRow(r))
<1>1. r.attempts + 1 \in 0..MaxAttempts
  BY TasksAssumption DEF GoodRow, Rows
<1>2. r \in Rows /\ r.epoch \in Nat
  BY DEF GoodRow, Rows
<1>3. FailedRow(r) \in Rows
  BY <1>1, <1>2 DEF FailedRow, Rows, Statuses
<1>4. FailedRow(r).status = "failed" /\ ~FailedRow(r).marked /\ FailedRow(r).epoch = r.epoch
  BY <1>2 DEF FailedRow, Rows
<1>5. QED BY <1>2, <1>3, <1>4 DEF GoodRow, Kept

LEMMA Rescheduled ==
  ASSUME NEW t, NEW r, GoodRow(t, r), r.status = "running", ~LastAttempt(r.attempts)
  PROVE  LET again == RescheduledRow(r)
             other == [RescheduledRow(r) EXCEPT !.epoch = r.epoch + 1]
         IN  GoodRow(t, again) /\ Kept(r, again) /\ GoodRow(t, other) /\ Kept(r, other)
<1>1. r.attempts + 1 \in 0..MaxAttempts /\ r.attempts + 1 < MaxAttempts /\ r.epoch \in Nat
  BY TasksAssumption DEF GoodRow, Rows, LastAttempt
<1>2. r \in Rows
  BY DEF GoodRow
<1>3. BackToPending(r) \in Rows
  BY GivenBack DEF GoodRow
<1> DEFINE again == RescheduledRow(r)
<1>4. again \in Rows
  BY <1>1, <1>3 DEF RescheduledRow, Rows
<1>5. again.status = "pending" /\ again.attempts = r.attempts + 1 /\ again.epoch = r.epoch
      /\ ~again.started /\ ~again.marked
  BY <1>2, <1>3 DEF RescheduledRow, BackToPending, Rows
<1> DEFINE other == [again EXCEPT !.epoch = r.epoch + 1]
<1>6. other \in Rows
  BY <1>1, <1>4 DEF Rows
<1>7. other.status = "pending" /\ other.attempts = r.attempts + 1 /\ other.epoch = r.epoch + 1
      /\ ~other.started /\ ~other.marked
  BY <1>4, <1>5 DEF Rows
<1> HIDE DEF again
<1>8. GoodRow(t, again) /\ Kept(r, again)
  BY <1>1, <1>4, <1>5 DEF GoodRow, Kept
<1> HIDE DEF other
<1>9. GoodRow(t, other) /\ Kept(r, other)
  BY <1>1, <1>6, <1>7 DEF GoodRow, Kept
<1>10. QED BY <1>8, <1>9 DEF again, other

LEMMA BegunFollows ==
  ASSUME RowsOK, RowsOK', BegunOK, KeepsRows, begun' = begun
  PROVE  BegunOK'
<1> SUFFICES ASSUME NEW u \in Tasks, NEW n \in Nat, <<u, n>> \in begun
             PROVE  /\ n <= rows'[u].epoch
                    /\ rows'[u].status = "running" /\ rows'[u].epoch = n => rows'[u].started
  BY DEF BegunOK
<1>1. Kept(rows[u], rows'[u])
  BY DEF KeepsRows
<1>2. rows[u].epoch \in Nat /\ rows'[u].epoch \in Nat
  BY DEF RowsOK, GoodRow, Rows
<1>3. /\ n <= rows[u].epoch
      /\ rows[u].status = "running" /\ rows[u].epoch = n => rows[u].started
  BY DEF BegunOK
<1>4. QED BY <1>1, <1>2, <1>3 DEF Kept

\* One row changes.
LEMMA RowChanges ==
  ASSUME RowsOK, BegunOK, done \subseteq done', begun' = begun,
         NEW t \in Tasks, NEW q, SetRow(t, q), GoodRow(t, q), Kept(rows[t], q)
  PROVE  RowsOK' /\ BegunOK' /\ KeepsRows
<1>1. rows' = [u \in Tasks |-> IF u = t THEN q ELSE rows[u]]
  BY DEF SetRow, RowsOK
<1>2. \A u \in Tasks : rows[u] \in Rows /\ rows[u].epoch \in Nat
  BY DEF RowsOK, GoodRow, Rows
<1>3. KeepsRows
  BY <1>1, <1>2 DEF KeepsRows, Kept
<1>4. \A u \in Tasks : GoodRow(u, rows[u])'
  <2> SUFFICES ASSUME NEW u \in Tasks PROVE GoodRow(u, rows[u])'
    OBVIOUS
  <2>1. \A r : GoodRow(u, r) => GoodRow(u, r)'
    BY DEF GoodRow
  <2>2. GoodRow(u, rows'[u])
    BY <1>1 DEF RowsOK
  <2>3. QED BY <2>2 DEF GoodRow
<1>5. RowsOK'
  BY <1>1, <1>4 DEF RowsOK
<1>6. BegunOK'
  BY <1>3, <1>5, BegunFollows
<1>7. QED BY <1>3, <1>5, <1>6

LEMMA RowsStay ==
  ASSUME RowsOK, BegunOK, UNCHANGED <<rows, begun>>, done \subseteq done'
  PROVE  RowsOK' /\ BegunOK' /\ KeepsRows
<1>1. RowsOK'
  BY DEF RowsOK, GoodRow
<1>2. BegunOK'
  BY DEF BegunOK
<1>3. KeepsRows
  <2>1. \A t \in Tasks : rows[t].epoch \in Nat
    BY DEF RowsOK, GoodRow, Rows
  <2>2. QED BY <2>1 DEF KeepsRows, Kept
<1>4. QED BY <1>1, <1>2, <1>3

\* A guarded update changes the row as it would under the claim, or not at all.
LEMMA GuardedUpdateChanges ==
  ASSUME RowsOK, BegunOK, UNCHANGED history, NEW h, NEW c, c.task \in Tasks, NEW q,
         GuardedUpdate(h, c, q), Owns(h, c) => GoodRow(c.task, q) /\ Kept(rows[c.task], q)
  PROVE  RowsOK' /\ BegunOK' /\ KeepsRows
<1>1. begun' = begun /\ done' = done
  BY DEF history
<1>2. CASE Owns(h, c)
  <2>1. SetRow(c.task, q)
    BY <1>2 DEF GuardedUpdate
  <2>2. QED BY <1>1, <1>2, <2>1, RowChanges
<1>3. CASE ~Owns(h, c)
  BY <1>1, <1>3, RowsStay DEF GuardedUpdate
<1>4. QED BY <1>2, <1>3

-----------------------------------------------------------------------------
\* What a main remembers stays true of rows that change like that.
LEMMA CurrentCarried ==
  ASSUME RowsOK, RowsOK', KeepsRows, NEW x, x.task \in Tasks, x.epoch \in Nat,
         x.epoch <= rows[x.task].epoch
  PROVE  /\ x.epoch <= rows'[x.task].epoch
         /\ Current(x)' => /\ Current(x) /\ Kept(rows[x.task], rows'[x.task])
                           /\ rows'[x.task].attempts = rows[x.task].attempts
                           /\ rows'[x.task].owner = rows[x.task].owner
                           /\ rows'[x.task].started = rows[x.task].started
                           /\ rows'[x.task].marked = rows[x.task].marked
<1>1. Kept(rows[x.task], rows'[x.task])
  BY DEF KeepsRows
<1>2. rows[x.task].epoch \in Nat /\ rows'[x.task].epoch \in Nat
  BY DEF RowsOK, GoodRow, Rows
<1>3. QED BY <1>1, <1>2 DEF Current, Kept

LEMMA ClaimCarried ==
  ASSUME RowsOK, RowsOK', KeepsRows, NEW h, NEW c \in Claims, ClaimOK(h, c)
  PROVE  ClaimOK(h, c)' /\ (Unstarted(c) => Unstarted(c)')
<1>1. c.task \in Tasks /\ c.epoch \in Nat
  BY DEF Claims
<1>2. QED BY <1>1, CurrentCarried DEF ClaimOK, Unstarted

LEMMA SightingCarried ==
  ASSUME RowsOK, RowsOK', KeepsRows, NEW s \in Sightings, SightingOK(s)
  PROVE  SightingOK(s)'
<1>1. s.task \in Tasks /\ s.epoch \in Nat
  BY DEF Sightings
<1>2. QED BY <1>1, CurrentCarried DEF SightingOK

LEMMA FireCarried ==
  ASSUME RowsOK, RowsOK', KeepsRows, begun \subseteq begun', done \subseteq done',
         NEW h, NEW f \in Fires, ClaimOK(h, f.claim), FireOK(f)
  PROVE  FireOK(f)'
<1>1. f.claim \in Claims /\ f.claim.task \in Tasks /\ f.claim.epoch \in Nat
  BY DEF Fires, Claims
<1>2. Current(f.claim)' => Current(f.claim) /\ rows'[f.claim.task].marked = rows[f.claim.task].marked
  BY <1>1, CurrentCarried DEF ClaimOK
<1>3. QED BY <1>2 DEF FireOK, Key

\* An action that makes no claims, sightings or progress of a fire.
LEMMA MemoryFollows ==
  ASSUME IInv, RowsOK', BegunOK', KeepsRows, UNCHANGED history,
         MemoryTypes', OthersTypes', PlacesOK',
         \A h \in Hosts : Waiting(h)' \subseteq Waiting(h),
         \A h \in Hosts : \A f \in fires'[h] :
           f \in fires[h] \/ \E c \in Waiting(h) : f = NewFire(c),
         \A h \in Hosts : sweep'[h] \subseteq sweep[h]
  PROVE  IInv'
<1>0. MemoryTypes /\ RowsOK /\ ClaimsOK /\ SweepOK /\ FiresOK /\ OneFire
  BY DEF IInv
<1>1. \A h \in Hosts : Waiting(h) \subseteq Claims /\ fires[h] \subseteq Fires /\ sweep[h] \subseteq Sightings
  BY <1>0 DEF MemoryTypes, Waiting
<1>2. ClaimsOK'
  <2> SUFFICES ASSUME NEW h \in Hosts
               PROVE  /\ \A c \in Waiting(h)' : ClaimOK(h, c)' /\ Unstarted(c)'
                      /\ \A f \in fires'[h] : ClaimOK(h, f.claim)'
    BY DEF ClaimsOK
  <2>1. \A c \in Waiting(h) : c \in Claims /\ ClaimOK(h, c) /\ Unstarted(c)
    BY <1>0, <1>1 DEF ClaimsOK
  <2>2. \A c \in Waiting(h) : ClaimOK(h, c)' /\ Unstarted(c)'
    BY <1>0, <2>1, ClaimCarried
  <2>3. \A f \in fires[h] : f.claim \in Claims /\ ClaimOK(h, f.claim)
    BY <1>0, <1>1 DEF ClaimsOK, Fires
  <2>4. \A f \in fires[h] : ClaimOK(h, f.claim)'
    BY <1>0, <2>3, ClaimCarried
  <2>5. QED BY <2>2, <2>4 DEF NewFire
<1>3. SweepOK'
  <2>1. \A h \in Hosts : \A s \in sweep[h] : SightingOK(s)'
    BY <1>0, <1>1, SightingCarried DEF SweepOK
  <2>2. QED BY <2>1 DEF SweepOK
<1>4. FiresOK'
  <2> SUFFICES ASSUME NEW h \in Hosts, NEW f \in fires'[h] PROVE FireOK(f)'
    BY DEF FiresOK
  <2>1. CASE f \in fires[h]
    <3>1. f \in Fires /\ ClaimOK(h, f.claim) /\ FireOK(f)
      BY <1>0, <1>1, <2>1 DEF ClaimsOK, FiresOK
    <3>2. QED BY <1>0, <3>1, FireCarried DEF history
  <2>2. CASE \E c \in Waiting(h) : f = NewFire(c)
    BY <2>2 DEF NewFire, FireOK
  <2>3. QED BY <2>1, <2>2
<1>5. OneFire'
  <2>1. \A h \in Hosts : \A f \in fires'[h] : f.pc # "begin" => f \in fires[h]
    BY DEF NewFire
  <2>2. QED BY <1>0, <2>1 DEF OneFire, Key
<1>6. QED BY <1>2, <1>3, <1>4, <1>5 DEF IInv

LEMMA OutagesBounded == OthersTypes /\ (Outage \/ UNCHANGED outages) => outages' \in 0..MaxOutages
BY TasksAssumption DEF Outage, OthersTypes

-----------------------------------------------------------------------------
\* Time, removal and missed deadlines change rows alone.
LEMMA RowsOnlyInv ==
  ASSUME IInv, RowsOK', BegunOK', KeepsRows, UNCHANGED <<phase, memory, history, outages>>
  PROVE  IInv'
<1>1. MemoryTypes' /\ OthersTypes' /\ PlacesOK'
  BY DEF IInv, memory, history, MemoryTypes, OthersTypes, PlacesOK, Waiting
<1>2. \A h \in Hosts : Waiting(h)' = Waiting(h) /\ fires'[h] = fires[h] /\ sweep'[h] = sweep[h]
  BY DEF memory, Waiting
<1>3. UNCHANGED history
  OBVIOUS
<1>4. QED BY <1>1, <1>2, <1>3, MemoryFollows

LEMMA TimePassesInv ==
  ASSUME IInv, NEW t \in Tasks, TimePasses(t)
  PROVE  IInv'
<1>1. RowsOK /\ BegunOK /\ done \subseteq done' /\ begun' = begun
  BY DEF IInv, TimePasses, history
<1>2. PICK q : SetRow(t, q) /\ GoodRow(t, q) /\ Kept(rows[t], q)
  <2>1. GoodRow(t, rows[t]) /\ rows[t] \in Rows /\ rows[t].epoch \in Nat
    BY <1>1 DEF RowsOK, GoodRow, Rows
  <2>2. CASE LeaseExpires(t)
    <3> DEFINE q == [rows[t] EXCEPT !.lease = "expired"]
    <3>1. q \in Rows /\ q.epoch = rows[t].epoch /\ q.status = rows[t].status
          /\ q.attempts = rows[t].attempts /\ q.owner = rows[t].owner
          /\ q.started = rows[t].started /\ q.marked = rows[t].marked
      BY <2>1 DEF Rows, Leases
    <3>2. SetRow(t, q)
      BY <2>2 DEF LeaseExpires
    <3> HIDE DEF q
    <3>3. QED BY <2>1, <3>1, <3>2 DEF GoodRow, Kept
  <2>3. CASE ComesDue(t)
    <3> DEFINE q == [rows[t] EXCEPT !.due = TRUE]
    <3>1. q \in Rows /\ q.epoch = rows[t].epoch /\ q.status = rows[t].status
          /\ q.attempts = rows[t].attempts /\ q.owner = rows[t].owner
          /\ q.started = rows[t].started /\ q.marked = rows[t].marked
      BY <2>1 DEF Rows
    <3>2. SetRow(t, q)
      BY <2>3 DEF ComesDue
    <3> HIDE DEF q
    <3>3. QED BY <2>1, <3>1, <3>2 DEF GoodRow, Kept
  <2>4. CASE DeadlinePasses(t)
    <3> DEFINE q == [rows[t] EXCEPT !.late = TRUE]
    <3>1. q \in Rows /\ q.epoch = rows[t].epoch /\ q.status = rows[t].status
          /\ q.attempts = rows[t].attempts /\ q.owner = rows[t].owner
          /\ q.started = rows[t].started /\ q.marked = rows[t].marked
      BY <2>1 DEF Rows
    <3>2. SetRow(t, q)
      BY <2>4 DEF DeadlinePasses
    <3> HIDE DEF q
    <3>3. QED BY <2>1, <3>1, <3>2 DEF GoodRow, Kept
  <2>5. QED BY <2>2, <2>3, <2>4 DEF TimePasses
<1>3. RowsOK' /\ BegunOK' /\ KeepsRows
  BY <1>1, <1>2, RowChanges
<1>4. QED BY <1>3, RowsOnlyInv DEF TimePasses

LEMMA RemoveRowInv ==
  ASSUME IInv, NEW t \in Tasks, RemoveRow(t)
  PROVE  IInv'
<1>1. RowsOK /\ BegunOK /\ done \subseteq done' /\ begun' = begun
  BY DEF IInv, RemoveRow, history
<1> DEFINE q == [rows[t] EXCEPT !.status = "gone"]
<1>2. GoodRow(t, rows[t]) /\ rows[t] \in Rows
  BY <1>1 DEF RowsOK, GoodRow
<1>3. q \in Rows /\ q.status = "gone" /\ q.epoch = rows[t].epoch /\ q.epoch \in Nat
  BY <1>2 DEF Rows, Statuses
<1>4. SetRow(t, q)
  BY DEF RemoveRow
<1> HIDE DEF q
<1>5. GoodRow(t, q) /\ Kept(rows[t], q)
  BY <1>2, <1>3 DEF GoodRow, Kept
<1>6. RowsOK' /\ BegunOK' /\ KeepsRows
  BY <1>1, <1>4, <1>5, RowChanges
<1>7. QED BY <1>6, RowsOnlyInv DEF RemoveRow

LEMMA RetireMissedPendingInv ==
  ASSUME IInv, NEW h \in Hosts, RetireMissedPending(h)
  PROVE  IInv'
<1>1. RowsOK /\ BegunOK /\ done' = done /\ begun' = begun
  BY DEF IInv, RetireMissedPending, history
<1>2. PICK batch \in SUBSET {t \in Tasks : rows[t].status = "pending"} :
        rows' = [t \in Tasks |->
                  IF t \in batch THEN [rows[t] EXCEPT !.status = "missed"] ELSE rows[t]]
  BY DEF RetireMissedPending
<1>3. \A t \in Tasks : GoodRow(t, rows'[t]) /\ Kept(rows[t], rows'[t])
  <2> SUFFICES ASSUME NEW t \in Tasks PROVE GoodRow(t, rows'[t]) /\ Kept(rows[t], rows'[t])
    OBVIOUS
  <2>1. GoodRow(t, rows[t]) /\ rows[t] \in Rows /\ rows[t].epoch \in Nat
    BY <1>1 DEF RowsOK, GoodRow, Rows
  <2>2. CASE t \in batch
    <3>1. rows'[t] = [rows[t] EXCEPT !.status = "missed"]
      BY <1>2, <2>2
    <3>2. rows'[t] \in Rows /\ rows'[t].status = "missed" /\ rows'[t].epoch = rows[t].epoch
      BY <2>1, <3>1 DEF Rows, Statuses
    <3>3. QED BY <2>1, <3>2 DEF GoodRow, Kept
  <2>3. CASE t \notin batch
    BY <1>2, <2>1, <2>3 DEF Kept
  <2>4. QED BY <2>2, <2>3
<1>4. RowsOK' /\ KeepsRows
  BY <1>1, <1>2, <1>3 DEF RowsOK, KeepsRows, GoodRow
<1>5. BegunOK'
  BY <1>1, <1>4, BegunFollows
<1>6. QED BY <1>4, <1>5, RowsOnlyInv DEF RetireMissedPending

-----------------------------------------------------------------------------
\* Claims: granted, scheduled or handed back, released, fired.
LEMMA ClaimDueTasksInv ==
  ASSUME IInv, NEW h \in Hosts, ClaimDueTasks(h)
  PROVE  IInv'
<1>0. /\ RowsOK /\ BegunOK /\ MemoryTypes /\ OthersTypes /\ ClaimsOK /\ PlacesOK /\ SweepOK
      /\ FiresOK /\ OneFire
  BY DEF IInv
<1>1. PICK batch \in SUBSET {t \in Tasks : rows[t].status = "pending"} :
        /\ rows' = [t \in Tasks |-> IF t \in batch THEN ClaimedRow(h, rows[t]) ELSE rows[t]]
        /\ ticks' = [ticks EXCEPT ![h] = @ \cup
             {[task |-> t, epoch |-> rows'[t].epoch, attempts |-> rows[t].attempts] : t \in batch}]
  BY DEF ClaimDueTasks, Claimable
<1>2. UNCHANGED <<phase, armed, held, releases, fires, sweep, begun, done>>
  BY DEF ClaimDueTasks, history
<1>3. \A t \in Tasks : GoodRow(t, rows[t]) /\ rows[t] \in Rows /\ rows[t].epoch \in Nat
                       /\ rows[t].attempts \in 0..MaxAttempts
  BY <1>0 DEF RowsOK, GoodRow, Rows
<1>4. \A t \in batch : /\ rows'[t] \in Rows /\ rows'[t].status = "running" /\ rows'[t].owner = h
                       /\ rows'[t].epoch = rows[t].epoch + 1 /\ rows'[t].attempts = rows[t].attempts
                       /\ rows'[t].started = rows[t].started /\ rows'[t].marked = rows[t].marked
                       /\ ~rows[t].started /\ ~rows[t].marked /\ rows[t].attempts < MaxAttempts
  <2> SUFFICES ASSUME NEW t \in batch
               PROVE /\ rows'[t] \in Rows /\ rows'[t].status = "running" /\ rows'[t].owner = h
                     /\ rows'[t].epoch = rows[t].epoch + 1 /\ rows'[t].attempts = rows[t].attempts
                     /\ rows'[t].started = rows[t].started /\ rows'[t].marked = rows[t].marked
                     /\ ~rows[t].started /\ ~rows[t].marked /\ rows[t].attempts < MaxAttempts
    OBVIOUS
  <2>1. t \in Tasks /\ rows[t].status = "pending"
    OBVIOUS
  <2>2. rows'[t] = [rows[t] EXCEPT !.status = "running", !.owner = h, !.lease = "live",
                                   !.epoch = rows[t].epoch + 1]
    BY <1>1, <2>1 DEF ClaimedRow
  <2>3. rows[t] \in Rows /\ rows[t].epoch + 1 \in Nat
    BY <1>3, <2>1
  <2>4. rows'[t] \in Rows
    BY <2>2, <2>3 DEF Rows, Statuses, Leases
  <2>5. /\ rows'[t].status = "running" /\ rows'[t].owner = h
        /\ rows'[t].epoch = rows[t].epoch + 1 /\ rows'[t].attempts = rows[t].attempts
        /\ rows'[t].started = rows[t].started /\ rows'[t].marked = rows[t].marked
    BY <2>2, <2>3 DEF Rows
  <2>6. QED BY <1>3, <2>1, <2>4, <2>5 DEF GoodRow
<1>5. \A t \in Tasks \ batch : rows'[t] = rows[t]
  BY <1>1
<1>6. \A t \in Tasks : GoodRow(t, rows'[t]) /\ Kept(rows[t], rows'[t])
  <2> SUFFICES ASSUME NEW t \in Tasks PROVE GoodRow(t, rows'[t]) /\ Kept(rows[t], rows'[t])
    OBVIOUS
  <2>1. CASE t \in batch
    <3>1. rows[t].epoch \in Nat /\ rows'[t].epoch = rows[t].epoch + 1
      BY <1>3, <1>4, <2>1
    <3>2. Kept(rows[t], rows'[t])
      BY <3>1 DEF Kept
    <3>3. GoodRow(t, rows'[t])
      BY <1>4, <2>1 DEF GoodRow
    <3>4. QED BY <3>2, <3>3
  <2>2. CASE t \notin batch
    BY <1>3, <1>5, <2>2 DEF Kept
  <2>3. QED BY <2>1, <2>2
<1>7. RowsOK' /\ KeepsRows
  BY <1>1, <1>2, <1>6 DEF RowsOK, KeepsRows, GoodRow
<1>8. BegunOK'
  BY <1>0, <1>2, <1>7, BegunFollows
<1> DEFINE New == {[task |-> t, epoch |-> rows'[t].epoch, attempts |-> rows[t].attempts] : t \in batch}
<1>9. \A c \in New : /\ c \in Claims /\ c.task \in batch /\ c.epoch = rows[c.task].epoch + 1
                     /\ ClaimOK(h, c)' /\ Unstarted(c)'
  <2> SUFFICES ASSUME NEW t \in batch, NEW c,
                      c = [task |-> t, epoch |-> rows'[t].epoch, attempts |-> rows[t].attempts]
               PROVE  /\ c \in Claims /\ c.task \in batch /\ c.epoch = rows[c.task].epoch + 1
                      /\ ClaimOK(h, c)' /\ Unstarted(c)'
    OBVIOUS
  <2>1. c.task = t /\ c.epoch = rows'[t].epoch /\ c.attempts = rows[t].attempts /\ t \in Tasks
    OBVIOUS
  <2>2. rows[t].epoch \in Nat /\ rows'[t].epoch \in Nat /\ rows[t].attempts \in 0..MaxAttempts
    BY <1>3, <1>4, <2>1
  <2>3. c \in Claims
    BY <2>1, <2>2 DEF Claims
  <2>4. QED BY <1>4, <2>1, <2>2, <2>3 DEF ClaimOK, Unstarted, Current
<1>10. ticks' = [ticks EXCEPT ![h] = @ \cup New]
  BY <1>1
<1> HIDE DEF New
<1>11. MemoryTypes'
  BY <1>0, <1>2, <1>9, <1>10 DEF MemoryTypes
<1>12. OthersTypes'
  BY <1>0, <1>2, OutagesBounded DEF OthersTypes, ClaimDueTasks
<1>13. \A k \in Hosts : Waiting(k) \subseteq Claims /\ fires[k] \subseteq Fires /\ sweep[k] \subseteq Sightings
  BY <1>0 DEF MemoryTypes, Waiting
<1>14. \A k \in Hosts : Waiting(k)' = Waiting(k) \cup (IF k = h THEN New ELSE {})
  BY <1>0, <1>2, <1>10 DEF Waiting, MemoryTypes
<1>15. ClaimsOK'
  <2> SUFFICES ASSUME NEW k \in Hosts
               PROVE  /\ \A c \in Waiting(k)' : ClaimOK(k, c)' /\ Unstarted(c)'
                      /\ \A f \in fires'[k] : ClaimOK(k, f.claim)'
    BY DEF ClaimsOK
  <2>1. \A c \in Waiting(k) : c \in Claims /\ ClaimOK(k, c) /\ Unstarted(c)
    BY <1>0, <1>13 DEF ClaimsOK
  <2>2. \A c \in Waiting(k) : ClaimOK(k, c)' /\ Unstarted(c)'
    BY <1>0, <1>7, <2>1, ClaimCarried
  <2>3. \A f \in fires[k] : f.claim \in Claims /\ ClaimOK(k, f.claim)
    BY <1>0, <1>13 DEF ClaimsOK, Fires
  <2>4. \A f \in fires[k] : ClaimOK(k, f.claim)'
    BY <1>0, <1>7, <2>3, ClaimCarried
  <2>5. QED BY <1>2, <1>9, <1>14, <2>2, <2>4
<1>16. PlacesOK'
  <2>1. \A c \in New : c \notin Waiting(h) /\ \A f \in fires[h] : f.claim # c
    <3> SUFFICES ASSUME NEW c \in New, NEW d \in Claims, ClaimOK(h, d) PROVE c # d
      BY <1>0, <1>13 DEF ClaimsOK, Fires
    <3>1. SUFFICES ASSUME c = d PROVE FALSE
      OBVIOUS
    <3>2. c.epoch <= rows[c.task].epoch /\ rows[c.task].epoch \in Nat
      BY <1>3, <1>9, <3>1 DEF ClaimOK
    <3>3. QED BY <1>9, <3>2
  <2>2. \A k \in Hosts : ticks'[k] = IF k = h THEN ticks[k] \cup New ELSE ticks[k]
    BY <1>0, <1>10 DEF MemoryTypes
  <2> SUFFICES ASSUME NEW k \in Hosts
               PROVE  /\ held[k] \subseteq armed[k]
                      /\ ticks'[k] \cap armed[k] = {} /\ ticks'[k] \cap releases[k] = {}
                      /\ armed[k] \cap releases[k] = {}
                      /\ \A f \in fires[k] : f.claim \notin ticks'[k] \cup armed[k] \cup releases[k]
    BY <1>2 DEF PlacesOK, Waiting
  <2>3. /\ held[k] \subseteq armed[k]
        /\ ticks[k] \cap armed[k] = {} /\ ticks[k] \cap releases[k] = {}
        /\ armed[k] \cap releases[k] = {}
        /\ \A f \in fires[k] : f.claim \notin ticks[k] \cup armed[k] \cup releases[k]
    BY <1>0 DEF PlacesOK, Waiting
  <2>4. CASE k = h
    BY <2>1, <2>2, <2>3, <2>4 DEF Waiting
  <2>5. CASE k # h
    BY <2>2, <2>3, <2>5
  <2>6. QED BY <2>4, <2>5
<1>17. SweepOK'
  <2>1. \A k \in Hosts : \A x \in sweep[k] : SightingOK(x)'
    BY <1>0, <1>7, <1>13, SightingCarried DEF SweepOK
  <2>2. QED BY <1>2, <2>1 DEF SweepOK
<1>18. FiresOK'
  <2>1. \A k \in Hosts : \A f \in fires[k] : f \in Fires /\ ClaimOK(k, f.claim) /\ FireOK(f)
    BY <1>0, <1>13 DEF ClaimsOK, FiresOK
  <2>2. \A k \in Hosts : \A f \in fires[k] : FireOK(f)'
    BY <1>0, <1>2, <1>7, <2>1, FireCarried
  <2>3. QED BY <1>2, <2>2 DEF FiresOK
<1>19. OneFire'
  BY <1>0, <1>2 DEF OneFire, Key
<1>20. QED BY <1>7, <1>8, <1>11, <1>12, <1>15, <1>16, <1>17, <1>18, <1>19 DEF IInv

LEMMA ResolveClaimInv ==
  ASSUME IInv, NEW h \in Hosts, ResolveClaim(h)
  PROVE  IInv'
<1>0. RowsOK /\ BegunOK /\ MemoryTypes /\ OthersTypes /\ PlacesOK
  BY DEF IInv
<1>1. PICK batch \in SUBSET ticks[h], aborted \in BOOLEAN :
        ScheduleOrHandBack(h, batch, aborted) /\ ticks' = [ticks EXCEPT ![h] = @ \ batch]
  BY DEF ResolveClaim
<1>2. UNCHANGED <<rows, phase, fires, sweep, begun, done>>
  BY DEF ResolveClaim, history
<1>3. RowsOK' /\ BegunOK' /\ KeepsRows
  BY <1>0, <1>2, RowsStay
<1>4. OthersTypes'
  BY <1>0, <1>2, OutagesBounded DEF ResolveClaim, OthersTypes
<1>5. batch \subseteq Claims /\ Hold(held[h], batch) \subseteq held[h] \cup batch
  BY <1>0 DEF MemoryTypes, Hold
<1>6. /\ MemoryTypes' /\ PlacesOK'
      /\ \A k \in Hosts : Waiting(k)' \subseteq Waiting(k)
  <2>1. CASE /\ releases' = [releases EXCEPT ![h] = @ \cup batch]
             /\ UNCHANGED <<held, armed>>
    BY <1>0, <1>1, <1>2, <1>5, <2>1 DEF MemoryTypes, PlacesOK, Waiting
  <2>2. CASE /\ held' = [held EXCEPT ![h] = Hold(@, batch)]
             /\ armed' = [armed EXCEPT ![h] = @ \cup batch]
             /\ UNCHANGED releases
    BY <1>0, <1>1, <1>2, <1>5, <2>2 DEF MemoryTypes, PlacesOK, Waiting
  <2>3. QED BY <1>1, <2>1, <2>2 DEF ScheduleOrHandBack
<1>7. QED BY <1>2, <1>3, <1>4, <1>6, MemoryFollows DEF history

LEMMA ReleaseClaimInv ==
  ASSUME IInv, NEW h \in Hosts, ReleaseClaim(h)
  PROVE  IInv'
<1>0. RowsOK /\ BegunOK /\ MemoryTypes /\ OthersTypes /\ PlacesOK
  BY DEF IInv
<1>1. PICK c \in releases[h] :
        /\ GuardedUpdate(h, c, BackToPending(rows[c.task])) \/ UNCHANGED rows
        /\ releases' = [releases EXCEPT ![h] = @ \ {c}]
  BY DEF ReleaseClaim, Drop
<1>2. UNCHANGED <<phase, ticks, armed, held, fires, sweep, begun, done>>
  BY DEF ReleaseClaim, history
<1>3. RowsOK' /\ BegunOK' /\ KeepsRows
  <2>1. c.task \in Tasks /\ GoodRow(c.task, rows[c.task])
    BY <1>0 DEF MemoryTypes, Claims, RowsOK
  <2>2. Owns(h, c) => /\ GoodRow(c.task, BackToPending(rows[c.task]))
                      /\ Kept(rows[c.task], BackToPending(rows[c.task]))
    BY <2>1, GivenBack DEF Owns
  <2>3. CASE GuardedUpdate(h, c, BackToPending(rows[c.task]))
    BY <1>0, <1>2, <2>1, <2>2, <2>3, GuardedUpdateChanges DEF history
  <2>4. CASE UNCHANGED rows
    BY <1>0, <1>2, <2>4, RowsStay
  <2>5. QED BY <1>1, <2>3, <2>4
<1>4. OthersTypes'
  BY <1>0, <1>2, OutagesBounded DEF ReleaseClaim, OthersTypes
<1>5. /\ MemoryTypes' /\ PlacesOK'
      /\ \A k \in Hosts : Waiting(k)' \subseteq Waiting(k)
  BY <1>0, <1>1, <1>2 DEF MemoryTypes, PlacesOK, Waiting
<1>6. QED BY <1>2, <1>3, <1>4, <1>5, MemoryFollows DEF history

LEMMA TimerFiresInv ==
  ASSUME IInv, NEW h \in Hosts, TimerFires(h)
  PROVE  IInv'
<1>0. RowsOK /\ BegunOK /\ MemoryTypes /\ OthersTypes /\ PlacesOK
  BY DEF IInv
<1>1. PICK c \in armed[h] :
        /\ armed' = [armed EXCEPT ![h] = @ \ {c}]
        /\ held' = [held EXCEPT ![h] = {d \in @ : d.task # c.task}]
        /\ fires' = [fires EXCEPT ![h] = @ \cup {NewFire(c)}]
  BY DEF TimerFires, Drop, Put
<1>2. UNCHANGED <<rows, phase, ticks, releases, sweep, begun, done, outages>>
  BY DEF TimerFires, history
<1>3. RowsOK' /\ BegunOK' /\ KeepsRows
  BY <1>0, <1>2, RowsStay
<1>4. OthersTypes'
  BY <1>0, <1>2 DEF OthersTypes
<1>5. NewFire(c) \in Fires /\ NewFire(c).claim = c
  BY <1>0 DEF MemoryTypes, NewFire, Fires, FirePcs, Marks
<1>6. MemoryTypes'
  BY <1>0, <1>1, <1>2, <1>5 DEF MemoryTypes
<1>7. PlacesOK' /\ \A k \in Hosts : Waiting(k)' \subseteq Waiting(k)
  BY <1>0, <1>1, <1>2, <1>5 DEF MemoryTypes, PlacesOK, Waiting
<1>8. \A k \in Hosts : \A f \in fires'[k] :
        f \in fires[k] \/ \E d \in Waiting(k) : f = NewFire(d)
  BY <1>0, <1>1 DEF MemoryTypes, Waiting
<1>9. QED BY <1>2, <1>3, <1>4, <1>6, <1>7, <1>8, MemoryFollows DEF history

-----------------------------------------------------------------------------
\* Stops and crashes forget, or hand back what the map holds.
LEMMA StopsInv ==
  ASSUME IInv, NEW h \in Hosts,
         StopLoops(h) \/ StopExecutor(h) \/ ProcessEnds(h) \/ ProcessStarts(h) \/ AbandonSweep(h)
  PROVE  IInv'
<1>0. RowsOK /\ BegunOK /\ MemoryTypes /\ OthersTypes /\ PlacesOK
  BY DEF IInv
<1>1. UNCHANGED <<rows, begun, done>>
  BY DEF StopLoops, StopExecutor, ProcessEnds, ProcessStarts, AbandonSweep, history
<1>2. RowsOK' /\ BegunOK' /\ KeepsRows
  BY <1>0, <1>1, RowsStay
<1>3. OthersTypes'
  <2>1. outages' \in 0..MaxOutages
    BY <1>0, OutagesBounded DEF StopLoops, StopExecutor, ProcessEnds, ProcessStarts, AbandonSweep
  <2>2. QED BY <1>0, <1>1, <2>1
            DEF OthersTypes, StopLoops, StopExecutor, ProcessEnds, ProcessStarts, AbandonSweep
<1>4. /\ MemoryTypes' /\ PlacesOK'
      /\ \A k \in Hosts : /\ Waiting(k)' \subseteq Waiting(k)
                          /\ fires'[k] \subseteq fires[k] /\ sweep'[k] \subseteq sweep[k]
  <2>1. CASE StopLoops(h) \/ ProcessStarts(h)
    BY <1>0, <2>1 DEF StopLoops, ProcessStarts, memory, MemoryTypes, PlacesOK, Waiting
  <2>2. CASE StopExecutor(h)
    BY <1>0, <2>2 DEF StopExecutor, ReleaseHeld, MemoryTypes, PlacesOK, Waiting
  <2>3. CASE ProcessEnds(h)
    BY <1>0, <2>3 DEF ProcessEnds, MemoryTypes, PlacesOK, Waiting
  <2>4. CASE AbandonSweep(h)
    BY <1>0, <2>4 DEF AbandonSweep, MemoryTypes, PlacesOK, Waiting
  <2>5. QED BY <2>1, <2>2, <2>3, <2>4
<1>5. QED BY <1>1, <1>2, <1>3, <1>4, MemoryFollows DEF history

-----------------------------------------------------------------------------
\* The reaper.
LEMMA FindExpiredLeasesInv ==
  ASSUME IInv, NEW h \in Hosts, FindExpiredLeases(h)
  PROVE  IInv'
<1>0. /\ RowsOK /\ BegunOK /\ MemoryTypes /\ OthersTypes /\ ClaimsOK /\ PlacesOK /\ SweepOK
      /\ FiresOK /\ OneFire
  BY DEF IInv
<1>1. PICK batch \in SUBSET Tasks :
        sweep' = [sweep EXCEPT ![h] =
          {[task |-> t, epoch |-> rows[t].epoch, attempts |-> rows[t].attempts,
            marked |-> rows[t].marked] : t \in batch}]
  BY DEF FindExpiredLeases
<1>2. UNCHANGED <<rows, phase, ticks, armed, held, releases, fires, begun, done, outages>>
  BY DEF FindExpiredLeases, history
<1>3. \A t \in Tasks : /\ rows[t].epoch \in Nat /\ rows[t].attempts \in 0..MaxAttempts
                       /\ rows[t].marked \in BOOLEAN
  BY <1>0 DEF RowsOK, GoodRow, Rows
<1> DEFINE Seen == {[task |-> t, epoch |-> rows[t].epoch, attempts |-> rows[t].attempts,
                     marked |-> rows[t].marked] : t \in batch}
<1>4. Seen \subseteq Sightings
  BY <1>3 DEF Sightings
<1>5. \A x \in Seen : SightingOK(x)
  BY <1>3 DEF SightingOK, Current
<1>6. sweep' = [sweep EXCEPT ![h] = Seen]
  BY <1>1
<1> HIDE DEF Seen
<1>7. MemoryTypes' /\ OthersTypes' /\ PlacesOK'
  BY <1>0, <1>2, <1>4, <1>6 DEF MemoryTypes, OthersTypes, PlacesOK, Waiting
<1>8. RowsOK' /\ BegunOK'
  BY <1>0, <1>2, RowsStay
<1>9. SweepOK'
  BY <1>0, <1>2, <1>5, <1>6 DEF SweepOK, SightingOK, Current, MemoryTypes
<1>10. ClaimsOK'
  BY <1>0, <1>2 DEF ClaimsOK, ClaimOK, Unstarted, Current, Waiting
<1>11. FiresOK' /\ OneFire'
  BY <1>0, <1>2 DEF FiresOK, FireOK, OneFire, Key, Current
<1>12. QED BY <1>7, <1>8, <1>9, <1>10, <1>11 DEF IInv

\* What the reaper writes agrees with the row it finds.
LEMMA RecoveredRow ==
  ASSUME IInv, NEW h \in Hosts, NEW x \in sweep[h], ReaperGuard(x)
  PROVE  /\ x.task \in Tasks /\ Current(x) /\ rows[x.task].attempts = x.attempts
         /\ GoodRow(x.task, rows[x.task])
         /\ GoodRow(x.task, Recovered(x, rows[x.task]))
         /\ Kept(rows[x.task], Recovered(x, rows[x.task]))
<1>1. x.task \in Tasks /\ SightingOK(x)
  BY DEF IInv, MemoryTypes, SweepOK, Sightings
<1>2. Current(x) /\ rows[x.task].marked = x.marked
  BY DEF ReaperGuard, Expired, Current
<1>3. rows[x.task].attempts = x.attempts /\ rows[x.task].status = "running"
  BY <1>1, <1>2 DEF SightingOK, Current
<1>4. GoodRow(x.task, rows[x.task])
  BY <1>1 DEF IInv, RowsOK
<1>5. CASE x.marked
  BY <1>1, <1>2, <1>3, <1>4, <1>5, Succeeded DEF Recovered
<1>6. CASE ~x.marked /\ LastAttempt(x.attempts)
  BY <1>1, <1>2, <1>3, <1>4, <1>6, FailedOnce DEF Recovered
<1>7. CASE ~x.marked /\ ~LastAttempt(x.attempts)
  BY <1>1, <1>2, <1>3, <1>4, <1>7, Rescheduled DEF Recovered
<1>8. QED BY <1>1, <1>2, <1>3, <1>4, <1>5, <1>6, <1>7

LEMMA RecoverRowInv ==
  ASSUME IInv, NEW h \in Hosts, RecoverRow(h)
  PROVE  IInv'
<1>0. RowsOK /\ BegunOK /\ MemoryTypes /\ OthersTypes /\ PlacesOK
  BY DEF IInv
<1>1. PICK x \in sweep[h] :
        /\ \/ ReaperGuard(x) /\ SetRow(x.task, Recovered(x, rows[x.task]))
           \/ UNCHANGED rows
        /\ sweep' = [sweep EXCEPT ![h] = IF phase[h] = "up" THEN @ \ {x} ELSE {}]
  BY DEF RecoverRow
<1>2. UNCHANGED <<phase, ticks, armed, held, releases, fires, begun, done>>
  BY DEF RecoverRow, history
<1>3. RowsOK' /\ BegunOK' /\ KeepsRows
  <2>1. CASE ReaperGuard(x) /\ SetRow(x.task, Recovered(x, rows[x.task]))
    BY <1>0, <1>2, <2>1, RecoveredRow, RowChanges
  <2>2. CASE UNCHANGED rows
    BY <1>0, <1>2, <2>2, RowsStay
  <2>3. QED BY <1>1, <2>1, <2>2
<1>4. OthersTypes'
  BY <1>0, <1>2, OutagesBounded DEF RecoverRow, OthersTypes
<1>5. MemoryTypes' /\ \A k \in Hosts : sweep'[k] \subseteq sweep[k]
  BY <1>0, <1>1, <1>2 DEF MemoryTypes
<1>6. PlacesOK' /\ \A k \in Hosts : Waiting(k)' = Waiting(k) /\ fires'[k] = fires[k]
  BY <1>0, <1>2 DEF PlacesOK, Waiting
<1>7. QED BY <1>2, <1>3, <1>4, <1>5, <1>6, MemoryFollows DEF history

-----------------------------------------------------------------------------
\* Fires.
LEMMA FireFacts ==
  ASSUME IInv, NEW h \in Hosts, NEW f \in fires[h]
  PROVE  /\ f \in Fires /\ f.claim \in Claims /\ f.claim.task \in Tasks /\ f.claim.epoch \in Nat
         /\ f.pc \in FirePcs /\ f.mark \in Marks
         /\ ClaimOK(h, f.claim) /\ FireOK(f) /\ f.claim \notin Waiting(h)
         /\ GoodRow(f.claim.task, rows[f.claim.task]) /\ rows[f.claim.task] \in Rows
         /\ rows[f.claim.task].epoch \in Nat
<1>1. f \in Fires
  BY DEF IInv, MemoryTypes
<1>2. f.claim \in Claims /\ f.claim.task \in Tasks /\ f.claim.epoch \in Nat
      /\ f.pc \in FirePcs /\ f.mark \in Marks
  BY <1>1 DEF Fires, Claims
<1>3. ClaimOK(h, f.claim) /\ FireOK(f) /\ f.claim \notin Waiting(h)
  BY DEF IInv, ClaimsOK, FiresOK, PlacesOK
<1>4. GoodRow(f.claim.task, rows[f.claim.task]) /\ rows[f.claim.task] \in Rows
      /\ rows[f.claim.task].epoch \in Nat
  BY <1>2 DEF IInv, RowsOK, GoodRow, Rows
<1>5. QED BY <1>1, <1>2, <1>3, <1>4

LEMMA FireEndsInv ==
  ASSUME IInv, NEW h \in Hosts, NEW f \in fires[h], FireEnds(h, f),
         RowsOK', BegunOK', KeepsRows, OthersTypes',
         UNCHANGED <<ticks, armed, held, releases, sweep, begun, done>>
  PROVE  IInv'
<1>0. MemoryTypes /\ PlacesOK
  BY DEF IInv
<1>1. fires' = [fires EXCEPT ![h] = @ \ {f}]
  BY DEF FireEnds, Drop
<1>2. MemoryTypes' /\ PlacesOK'
  BY <1>0, <1>1 DEF MemoryTypes, PlacesOK, Waiting
<1>3. \A k \in Hosts : Waiting(k)' = Waiting(k) /\ fires'[k] \subseteq fires[k] /\ sweep'[k] = sweep[k]
  BY <1>0, <1>1 DEF MemoryTypes, Waiting
<1>4. QED BY <1>2, <1>3, MemoryFollows DEF history

\* An outcome agrees with the row that this fire still owns.
LEMMA OutcomeRow ==
  ASSUME IInv, NEW h \in Hosts, NEW f \in fires[h], f.pc \in {"returned", "threw"}, Owns(h, f.claim)
  PROVE  LET t == f.claim.task IN
         /\ rows[t].attempts = f.claim.attempts /\ rows[t].status = "running"
         /\ (f.pc = "threw" /\ f.mark = "none" => ~rows[t].marked)
         /\ GoodRow(t, Outcome(f, rows[t])) /\ Kept(rows[t], Outcome(f, rows[t]))
<1> DEFINE t == f.claim.task
<1>1. Current(f.claim) /\ rows[t].status = "running"
  BY DEF Owns, Current
<1>2. rows[t].attempts = f.claim.attempts /\ GoodRow(t, rows[t]) /\ FireOK(f)
  BY <1>1, FireFacts DEF ClaimOK
<1>3. f.mark = "none" => f.pc = "threw" /\ ~rows[t].marked
  BY <1>1, <1>2 DEF FireOK
<1>4. CASE f.pc = "returned" \/ (LastAttempt(f.claim.attempts) /\ f.mark # "none")
  BY <1>1, <1>2, <1>3, <1>4, Succeeded DEF Outcome
<1>5. CASE f.pc # "returned" /\ LastAttempt(f.claim.attempts) /\ f.mark = "none"
  BY <1>1, <1>2, <1>3, <1>5, FailedOnce DEF Outcome
<1>6. CASE f.pc # "returned" /\ ~LastAttempt(f.claim.attempts)
  BY <1>1, <1>2, <1>3, <1>6, Rescheduled DEF Outcome
<1>7. QED BY <1>1, <1>2, <1>3, <1>4, <1>5, <1>6

LEMMA RecordOutcomeInv ==
  ASSUME IInv, NEW h \in Hosts, NEW f \in fires[h], RecordOutcome(h, f)
  PROVE  IInv'
<1>0. RowsOK /\ BegunOK /\ OthersTypes
  BY DEF IInv
<1>1. UNCHANGED <<phase, ticks, armed, held, releases, sweep, begun, done>>
  BY DEF RecordOutcome, history
<1>2. RowsOK' /\ BegunOK' /\ KeepsRows
  <2>1. CASE GuardedUpdate(h, f.claim, Outcome(f, rows[f.claim.task]))
    <3>1. Owns(h, f.claim) => /\ GoodRow(f.claim.task, Outcome(f, rows[f.claim.task]))
                              /\ Kept(rows[f.claim.task], Outcome(f, rows[f.claim.task]))
      BY OutcomeRow DEF RecordOutcome
    <3>2. f.claim.task \in Tasks
      BY FireFacts
    <3>3. QED BY <1>0, <1>1, <2>1, <3>1, <3>2, GuardedUpdateChanges DEF history
  <2>2. CASE UNCHANGED rows
    BY <1>0, <1>1, <2>2, RowsStay
  <2>3. QED BY <2>1, <2>2 DEF RecordOutcome
<1>3. OthersTypes'
  BY <1>0, <1>1, OutagesBounded DEF RecordOutcome, OthersTypes
<1>4. QED BY <1>1, <1>2, <1>3, FireEndsInv DEF RecordOutcome

LEMMA Moves ==
  ASSUME MemoryTypes, NEW h \in Hosts, NEW f \in fires[h], NEW g \in Fires, Move(h, f, g)
  PROVE  /\ fires' \in [Hosts -> SUBSET Fires]
         /\ \A k \in Hosts : \A e \in fires'[k] : (k = h /\ e = g) \/ (e \in fires[k] /\ (k = h => e # f))
BY DEF MemoryTypes, Move

\* A fire goes on, and the others stay unique.
LEMMA OneFireMoves ==
  ASSUME IInv, NEW h \in Hosts, NEW f \in fires[h], NEW g \in Fires, Move(h, f, g),
         g.claim = f.claim, g.pc # "begin",
         f.pc # "begin" \/ Key(f) \notin begun
  PROVE  /\ OneFire'
         /\ \A k \in Hosts : \A e \in fires'[k] :
              e.pc # "begin" /\ Key(e) = Key(f) => k = h /\ e = g
<1>1. \A k \in Hosts : \A e \in fires'[k] :
        (k = h /\ e = g) \/ (e \in fires[k] /\ (k = h => e # f))
  BY Moves DEF IInv
<1>2. \A k \in Hosts : \A e \in fires[k] :
        e.pc # "begin" /\ Key(e) = Key(f) => k = h /\ e = f
  BY DEF IInv, OneFire, FiresOK, FireOK
<1>3. \A k \in Hosts : \A e \in fires'[k] :
        e.pc # "begin" /\ Key(e) = Key(f) => k = h /\ e = g
  BY <1>1, <1>2
<1>4. Key(g) = Key(f)
  BY DEF Key
<1>5. OneFire'
  <2> SUFFICES ASSUME NEW k \in Hosts, NEW j \in Hosts, NEW d \in fires'[k], NEW e \in fires'[j],
                      d.pc # "begin", e.pc # "begin", Key(d) = Key(e)
               PROVE  k = j /\ d = e
    BY DEF OneFire, Key
  <2>1. CASE Key(d) = Key(f)
    BY <1>3, <2>1
  <2>2. CASE Key(d) # Key(f)
    <3>1. d \in fires[k] /\ e \in fires[j]
      BY <1>1, <1>4, <2>2
    <3>2. QED BY <3>1 DEF IInv, OneFire
  <2>3. QED BY <2>1, <2>2
<1>6. QED BY <1>3, <1>5

\* The handler works, reports, returns or throws.
LEMMA HandlerInv ==
  ASSUME IInv, NEW h \in Hosts, NEW f \in fires[h],
         ReportDispatched(h, f) \/ HandlerReturns(h, f) \/ HandlerThrows(h, f)
  PROVE  IInv'
<1>0. /\ RowsOK /\ BegunOK /\ MemoryTypes /\ OthersTypes /\ ClaimsOK /\ PlacesOK /\ SweepOK
      /\ FiresOK /\ OneFire
  BY DEF IInv
<1>1. f \in Fires /\ f.claim \in Claims /\ Key(f) \in Tasks \X Nat /\ FireOK(f) /\ f.mark \in Marks
  BY FireFacts DEF Key
<1>2. PICK g \in Fires :
        /\ Move(h, f, g) /\ g.claim = f.claim /\ g.pc # "begin" /\ f.pc # "begin"
        /\ g.mark # "none" => Key(f) \in done'
        /\ f.mark # "none" => g.mark # "none"
        /\ g.pc = "returned" => g.mark # "none"
        /\ done \subseteq done' /\ done' \subseteq Tasks \X Nat
  <2>1. CASE ReportDispatched(h, f)
    <3> DEFINE g == [f EXCEPT !.mark = "issued"]
    <3>1. g \in Fires /\ g.claim = f.claim /\ g.pc = "run" /\ g.mark = "issued" /\ f.pc = "run"
      BY <1>1, <2>1 DEF ReportDispatched, FireAt, Fires, Marks
    <3>2. done' = done \cup {Key(f)} /\ Move(h, f, g)
      BY <2>1 DEF ReportDispatched, Key
    <3>3. QED BY <1>0, <1>1, <3>1, <3>2 DEF OthersTypes
  <2>2. CASE HandlerReturns(h, f)
    <3> DEFINE g == [f EXCEPT !.pc = "returned", !.mark = IF @ = "none" THEN "issued" ELSE @]
    <3>1. g \in Fires /\ g.claim = f.claim /\ g.pc = "returned" /\ g.mark # "none" /\ f.pc = "run"
      BY <1>1, <2>2 DEF HandlerReturns, FireAt, Fires, Marks, FirePcs
    <3>2. done' = done \cup {Key(f)} /\ Move(h, f, g)
      BY <2>2 DEF HandlerReturns, Key
    <3>3. QED BY <1>0, <1>1, <3>1, <3>2 DEF OthersTypes
  <2>3. CASE HandlerThrows(h, f)
    <3> DEFINE g == [f EXCEPT !.pc = "threw"]
    <3>1. g \in Fires /\ g.claim = f.claim /\ g.pc = "threw" /\ g.mark = f.mark /\ f.pc = "run"
      BY <1>1, <2>3 DEF HandlerThrows, FireAt, Fires, FirePcs
    <3>2. done' = done /\ Move(h, f, g)
      BY <2>3 DEF HandlerThrows, history
    <3>3. QED BY <1>0, <1>1, <3>1, <3>2 DEF OthersTypes, FireOK
  <2>4. QED BY <2>1, <2>2, <2>3
<1>3. UNCHANGED <<rows, phase, ticks, armed, held, releases, sweep, begun, outages>>
  BY DEF ReportDispatched, HandlerReturns, HandlerThrows, history
<1>4. RowsOK' /\ BegunOK'
  BY <1>0, <1>2, <1>3, RowsStay
<1>5. \A k \in Hosts : \A e \in fires'[k] : (k = h /\ e = g) \/ e \in fires[k]
  BY <1>0, <1>2, Moves
<1>6. MemoryTypes' /\ OthersTypes'
  BY <1>0, <1>2, <1>3, Moves DEF MemoryTypes, OthersTypes
<1>7. \A k \in Hosts : Waiting(k)' = Waiting(k)
  BY <1>3 DEF Waiting
<1>8. ClaimsOK'
  <2>1. \A k \in Hosts : \A e \in fires'[k] : \E d \in fires[k] : e.claim = d.claim
    BY <1>2, <1>5
  <2>2. QED BY <1>0, <1>3, <1>7, <2>1 DEF ClaimsOK, ClaimOK, Unstarted, Current
<1>9. PlacesOK'
  <2>1. \A k \in Hosts : \A e \in fires'[k] : e.claim \notin Waiting(k)
    BY <1>0, <1>2, <1>5 DEF PlacesOK
  <2>2. QED BY <1>0, <1>3, <1>7, <2>1 DEF PlacesOK
<1>10. SweepOK'
  BY <1>0, <1>3 DEF SweepOK, SightingOK, Current
<1>11. FiresOK'
  <2> SUFFICES ASSUME NEW k \in Hosts, NEW e \in fires'[k] PROVE FireOK(e)'
    BY DEF FiresOK
  <2>1. CASE e \in fires[k]
    BY <1>0, <1>2, <1>3, <2>1 DEF FiresOK, FireOK, Key, Current
  <2>2. CASE k = h /\ e = g
    <3>1. Key(g) = Key(f)
      BY <1>2 DEF Key
    <3>2. QED BY <1>1, <1>2, <1>3, <2>2, <3>1 DEF FireOK, Key, Current
  <2>3. QED BY <1>5, <2>1, <2>2
<1>12. OneFire'
  BY <1>2, OneFireMoves
<1>13. QED BY <1>4, <1>6, <1>8, <1>9, <1>10, <1>11, <1>12 DEF IInv

\* A row that changes under the lease that holds it: a fire begins, or is marked.
Touched(t, q) ==
  /\ q.status = "running" /\ q.epoch = rows[t].epoch
  /\ q.attempts = rows[t].attempts /\ q.owner = rows[t].owner
  /\ rows[t].started => q.started

LEMMA TouchedFollows ==
  ASSUME IInv, NEW t \in Tasks, rows[t].status = "running", NEW q, GoodRow(t, q), Touched(t, q),
         SetRow(t, q), done' = done
  PROVE  /\ RowsOK'
         /\ rows' = [u \in Tasks |-> IF u = t THEN q ELSE rows[u]]
         /\ \A h : \A c : c.task \in Tasks /\ ClaimOK(h, c) => ClaimOK(h, c)'
         /\ \A x : x.task \in Tasks => Current(x)' = Current(x)
         /\ SweepOK /\ UNCHANGED sweep => SweepOK'
<1>1. rows' = [u \in Tasks |-> IF u = t THEN q ELSE rows[u]]
  BY DEF SetRow, IInv, RowsOK
<1>2. RowsOK'
  <2>1. \A u \in Tasks : GoodRow(u, rows[u])'
    BY <1>1 DEF IInv, RowsOK, GoodRow
  <2>2. QED BY <1>1, <2>1 DEF RowsOK
<1>3. \A x : x.task \in Tasks =>
        /\ Current(x)' = Current(x) /\ rows'[x.task].epoch = rows[x.task].epoch
        /\ rows'[x.task].attempts = rows[x.task].attempts /\ rows'[x.task].owner = rows[x.task].owner
  BY <1>1 DEF Touched, Current
<1>4. \A h : \A c : c.task \in Tasks /\ ClaimOK(h, c) => ClaimOK(h, c)'
  BY <1>3 DEF ClaimOK
<1>5. SweepOK /\ UNCHANGED sweep => SweepOK'
  <2>1. \A h \in Hosts : \A x \in sweep[h] : x.task \in Tasks
    BY DEF IInv, MemoryTypes, Sightings
  <2>2. QED BY <1>3, <2>1 DEF SweepOK, SightingOK
<1>6. QED BY <1>1, <1>2, <1>3, <1>4, <1>5

\* The marker is written under the lease of the fire that did the work.
LEMMA MarkedRow ==
  ASSUME IInv, NEW h \in Hosts, NEW f \in fires[h], f.mark = "issued", Owns(h, f.claim)
  PROVE  LET t == f.claim.task
             q == [rows[t] EXCEPT !.marked = TRUE]
         IN  /\ rows[t].status = "running" /\ rows[t].started /\ <<t, rows[t].epoch>> \in done
             /\ GoodRow(t, q) /\ Touched(t, q) /\ q.started = rows[t].started
<1> DEFINE t == f.claim.task
           q == [rows[t] EXCEPT !.marked = TRUE]
<1>1. rows[t].status = "running" /\ rows[t].epoch = f.claim.epoch
  BY DEF Owns
<1>2. /\ t \in Tasks /\ f.claim.epoch \in Nat /\ FireOK(f) /\ GoodRow(t, rows[t]) /\ rows[t] \in Rows
  BY FireFacts
<1>3. Key(f) \in begun /\ Key(f) \in done /\ Key(f) = <<t, rows[t].epoch>>
  BY <1>1, <1>2 DEF FireOK, Key
<1>4. rows[t].started
  BY <1>1, <1>2, <1>3 DEF IInv, BegunOK
<1>5. /\ q \in Rows /\ q.status = rows[t].status /\ q.epoch = rows[t].epoch
      /\ q.attempts = rows[t].attempts /\ q.owner = rows[t].owner
      /\ q.started = rows[t].started /\ q.marked
  BY <1>2 DEF Rows
<1> HIDE DEF q
<1>6. GoodRow(t, q) /\ Touched(t, q)
  BY <1>1, <1>2, <1>3, <1>4, <1>5 DEF GoodRow, Touched
<1>7. QED BY <1>1, <1>3, <1>4, <1>5, <1>6 DEF q

LEMMA MarkDispatchedInv ==
  ASSUME IInv, NEW h \in Hosts, NEW f \in fires[h], MarkDispatched(h, f)
  PROVE  IInv'
<1>0. /\ RowsOK /\ BegunOK /\ MemoryTypes /\ OthersTypes /\ ClaimsOK /\ PlacesOK /\ SweepOK
      /\ FiresOK /\ OneFire
  BY DEF IInv
<1> DEFINE t == f.claim.task
           g == [f EXCEPT !.mark = "settled"]
<1>1. /\ f \in Fires /\ f.claim \in Claims /\ t \in Tasks /\ FireOK(f) /\ f.mark = "issued"
      /\ UNCHANGED <<phase, ticks, armed, held, releases, sweep, begun, done>> /\ Move(h, f, g)
  BY FireFacts DEF MarkDispatched, history
<1>2. g \in Fires /\ g.claim = f.claim /\ g.pc = f.pc /\ g.mark = "settled" /\ f.pc # "begin"
  BY <1>1 DEF Fires, Marks, FireOK
<1> HIDE DEF g
<1>3. /\ RowsOK' /\ BegunOK' /\ SweepOK'
      /\ \A u \in Tasks : rows'[u].started = rows[u].started
      /\ \A k \in Hosts : \A c \in Claims : ClaimOK(k, c) => ClaimOK(k, c)'
      /\ \A c \in Claims : Current(c)' = Current(c)
      /\ \A c \in Claims : Current(c) /\ <<c.task, c.epoch>> # Key(f) =>
           rows'[c.task].marked = rows[c.task].marked
  <2>1. CASE Owns(h, f.claim) /\ SetRow(t, [rows[t] EXCEPT !.marked = TRUE])
    <3> DEFINE q == [rows[t] EXCEPT !.marked = TRUE]
    <3>1. rows[t].status = "running" /\ GoodRow(t, q) /\ Touched(t, q) /\ q.started = rows[t].started
      BY <1>1, <2>1, MarkedRow
    <3> HIDE DEF q
    <3>2. /\ RowsOK' /\ SweepOK'
          /\ rows' = [u \in Tasks |-> IF u = t THEN q ELSE rows[u]]
          /\ \A k : \A c : c.task \in Tasks /\ ClaimOK(k, c) => ClaimOK(k, c)'
          /\ \A x : x.task \in Tasks => Current(x)' = Current(x)
      BY <1>0, <1>1, <2>1, <3>1, TouchedFollows DEF q
    <3>3. \A u \in Tasks : rows'[u].started = rows[u].started
      BY <3>1, <3>2
    <3>4. BegunOK'
      <4>1. \A u \in Tasks : rows'[u].status = rows[u].status /\ rows'[u].epoch = rows[u].epoch
        BY <3>1, <3>2 DEF Touched
      <4>2. QED BY <1>0, <1>1, <3>3, <4>1 DEF BegunOK
    <3>5. \A c \in Claims : Current(c) /\ <<c.task, c.epoch>> # Key(f) =>
            rows'[c.task].marked = rows[c.task].marked
      <4>1. rows[t].epoch = f.claim.epoch
        BY <2>1 DEF Owns
      <4>2. QED BY <3>2, <4>1 DEF Current, Key, Claims
    <3>6. \A c \in Claims : c.task \in Tasks
      BY DEF Claims
    <3>7. QED BY <3>2, <3>3, <3>4, <3>5, <3>6
  <2>2. CASE UNCHANGED rows
    <3>1. RowsOK' /\ BegunOK'
      BY <1>0, <1>1, <2>2, RowsStay
    <3>2. QED BY <1>0, <1>1, <2>2, <3>1 DEF SweepOK, SightingOK, ClaimOK, Current, Claims
  <2>3. QED BY <1>1, <2>1, <2>2 DEF MarkDispatched, GuardedUpdate
<1>4. /\ \A k \in Hosts : \A e \in fires'[k] : (k = h /\ e = g) \/ (e \in fires[k] /\ (k = h => e # f))
      /\ fires' \in [Hosts -> SUBSET Fires]
  BY <1>0, <1>1, <1>2, Moves
<1>5. MemoryTypes' /\ OthersTypes'
  <2>1. outages' \in 0..MaxOutages
    BY <1>0, OutagesBounded DEF MarkDispatched
  <2>2. QED BY <1>0, <1>1, <1>4, <2>1 DEF MemoryTypes, OthersTypes
<1>6. \A k \in Hosts : Waiting(k)' = Waiting(k) /\ Waiting(k) \subseteq Claims
  BY <1>0, <1>1 DEF Waiting, MemoryTypes
<1>7. ClaimsOK'
  <2>1. \A k \in Hosts : \A e \in fires'[k] : \E d \in fires[k] : e.claim = d.claim /\ d.claim \in Claims
    BY <1>0, <1>1, <1>2, <1>4 DEF MemoryTypes, Fires
  <2>2. \A k \in Hosts : \A c \in Waiting(k) : Unstarted(c)'
    BY <1>0, <1>3, <1>6 DEF ClaimsOK, Unstarted, Claims
  <2>3. QED BY <1>0, <1>3, <1>6, <2>1, <2>2 DEF ClaimsOK
<1>8. PlacesOK'
  <2>1. \A k \in Hosts : \A e \in fires'[k] : e.claim \notin Waiting(k)
    BY <1>0, <1>2, <1>4 DEF PlacesOK
  <2>2. QED BY <1>0, <1>1, <1>6, <2>1 DEF PlacesOK
<1>9. /\ OneFire'
      /\ \A k \in Hosts : \A e \in fires'[k] :
           e.pc # "begin" /\ Key(e) = Key(f) => k = h /\ e = g
  BY <1>1, <1>2, OneFireMoves
<1>10. FiresOK'
  <2> SUFFICES ASSUME NEW k \in Hosts, NEW e \in fires'[k] PROVE FireOK(e)'
    BY DEF FiresOK
  <2>1. CASE k = h /\ e = g
    <3>1. Key(g) = Key(f)
      BY <1>2 DEF Key
    <3>2. QED BY <1>1, <1>2, <2>1, <3>1 DEF FireOK, Key
  <2>2. CASE e \in fires[k] /\ ~(k = h /\ e = g)
    <3>1. e.claim \in Claims /\ FireOK(e) /\ (e.pc # "begin" => Key(e) # Key(f))
      BY <1>0, <1>9, <2>2, FireFacts
    <3>2. QED BY <1>1, <1>3, <3>1 DEF FireOK, Key
  <2>3. QED BY <1>4, <2>1, <2>2
<1>11. QED BY <1>3, <1>5, <1>7, <1>8, <1>9, <1>10 DEF IInv

\* What beginDispatch writes: the row is started under the lease of this fire, which no
\* handler was called under and no other claim of the main stands for.
LEMMA StartedRowFacts ==
  ASSUME IInv, NEW h \in Hosts, NEW f \in fires[h], Owns(h, f.claim), ~rows[f.claim.task].started
  PROVE  LET t == f.claim.task
             q == StartedRow(rows[t])
         IN  /\ rows[t].status = "running" /\ rows[t].epoch = f.claim.epoch
             /\ GoodRow(t, q) /\ Touched(t, q) /\ q.started /\ ~q.marked
             /\ Key(f) \notin begun
             /\ \A k \in Hosts : \A c \in Waiting(k) : c.task = t => ~Current(c)
<1> DEFINE t == f.claim.task
           q == StartedRow(rows[t])
<1>1. rows[t].status = "running" /\ rows[t].epoch = f.claim.epoch /\ rows[t].owner = h
  BY DEF Owns
<1>2. /\ t \in Tasks /\ f.claim \in Claims /\ f.claim.epoch \in Nat /\ FireOK(f)
      /\ GoodRow(t, rows[t]) /\ rows[t] \in Rows /\ ClaimOK(h, f.claim) /\ f.claim \notin Waiting(h)
  BY FireFacts
<1>3. /\ q \in Rows /\ q.status = rows[t].status /\ q.epoch = rows[t].epoch
      /\ q.attempts = rows[t].attempts /\ q.owner = rows[t].owner
      /\ q.started /\ q.marked = rows[t].marked
  BY <1>2 DEF StartedRow, Rows, Leases
<1> HIDE DEF q
<1>4. ~rows[t].marked
  BY <1>1, <1>2 DEF GoodRow
<1>5. GoodRow(t, q) /\ Touched(t, q)
  BY <1>1, <1>2, <1>3, <1>4 DEF GoodRow, Touched
<1>6. Key(f) \notin begun
  BY <1>1, <1>2 DEF IInv, BegunOK, Key
<1>7. \A k \in Hosts : \A c \in Waiting(k) : c.task = t => ~Current(c)
  <2> SUFFICES ASSUME NEW k \in Hosts, NEW c \in Waiting(k), c.task = t, Current(c) PROVE FALSE
    OBVIOUS
  <2>1. c \in Claims /\ ClaimOK(k, c)
    BY DEF IInv, MemoryTypes, ClaimsOK, Waiting
  <2>2. k = h /\ c.epoch = f.claim.epoch /\ c.attempts = f.claim.attempts
    BY <1>1, <1>2, <2>1 DEF ClaimOK, Current
  <2>3. c = f.claim
    BY <1>2, <2>1, <2>2 DEF Claims
  <2>4. QED BY <1>2, <2>2, <2>3
<1>8. QED BY <1>1, <1>3, <1>4, <1>5, <1>6, <1>7 DEF q

\* What is on record of a lease stays true of a row that only gets started.
LEMMA BegunStays ==
  ASSUME NEW r, NEW q, NEW n \in Nat, q.status = r.status, q.epoch = r.epoch,
         r.started => q.started, n <= r.epoch, r.status = "running" /\ r.epoch = n => r.started
  PROVE  n <= q.epoch /\ (q.status = "running" /\ q.epoch = n => q.started)
OBVIOUS

\* beginDispatch, whether its answer comes or not.
LEMMA StartedInv ==
  ASSUME IInv, NEW h \in Hosts, NEW f \in fires[h], f.pc = "begin",
         Owns(h, f.claim), ~rows[f.claim.task].started,
         SetRow(f.claim.task, StartedRow(rows[f.claim.task])),
         OthersTypes', UNCHANGED <<ticks, armed, held, releases, sweep, done>>,
         \/ FireEnds(h, f) /\ UNCHANGED begun
         \/ Move(h, f, [f EXCEPT !.pc = "run"]) /\ begun' = begun \cup {Key(f)}
  PROVE  IInv'
<1>0. /\ RowsOK /\ BegunOK /\ MemoryTypes /\ ClaimsOK /\ PlacesOK /\ SweepOK /\ FiresOK /\ OneFire
  BY DEF IInv
<1> DEFINE t == f.claim.task
           q == StartedRow(rows[t])
           g == [f EXCEPT !.pc = "run"]
<1>1. f \in Fires /\ f.claim \in Claims /\ t \in Tasks /\ FireOK(f) /\ f.mark = "none"
  BY FireFacts DEF FireOK
<1>2. g \in Fires /\ g.claim = f.claim /\ g.pc = "run" /\ g.mark = "none"
  BY <1>1 DEF Fires, FirePcs
<1> HIDE DEF g
<1>3. /\ rows[t].status = "running" /\ rows[t].epoch = f.claim.epoch
      /\ GoodRow(t, q) /\ Touched(t, q) /\ q.started /\ ~q.marked /\ Key(f) \notin begun
      /\ \A k \in Hosts : \A c \in Waiting(k) : c.task = t => ~Current(c)
  BY StartedRowFacts
<1> HIDE DEF q
<1>4. /\ RowsOK' /\ SweepOK'
      /\ rows' = [u \in Tasks |-> IF u = t THEN q ELSE rows[u]]
      /\ \A k : \A c : c.task \in Tasks /\ ClaimOK(k, c) => ClaimOK(k, c)'
      /\ \A x : x.task \in Tasks => Current(x)' = Current(x)
  BY <1>0, <1>1, <1>3, TouchedFollows DEF q
<1>5. begun \subseteq begun' /\ begun' \subseteq begun \cup {Key(f)}
  OBVIOUS
<1>6. BegunOK'
  <2>1. \A u \in Tasks : /\ rows'[u].status = rows[u].status /\ rows'[u].epoch = rows[u].epoch
                         /\ rows[u].started => rows'[u].started
    BY <1>3, <1>4 DEF Touched
  <2>2. rows[t].epoch \in Nat /\ rows'[t].started
    BY <1>1, <1>3, <1>4, FireFacts
  <2> SUFFICES ASSUME NEW u \in Tasks, NEW n \in Nat, <<u, n>> \in begun'
               PROVE  /\ n <= rows'[u].epoch
                      /\ rows'[u].status = "running" /\ rows'[u].epoch = n => rows'[u].started
    BY DEF BegunOK
  <2>3. CASE <<u, n>> \in begun
    <3>1. /\ n <= rows[u].epoch
          /\ rows[u].status = "running" /\ rows[u].epoch = n => rows[u].started
      BY <1>0, <2>3 DEF BegunOK
    <3>2. /\ rows'[u].status = rows[u].status /\ rows'[u].epoch = rows[u].epoch
          /\ rows[u].started => rows'[u].started
      BY <2>1
    <3>3. QED BY <3>1, <3>2, BegunStays
  <2>4. CASE <<u, n>> = Key(f)
    <3>1. u = t /\ n = rows[t].epoch
      BY <1>3, <2>4 DEF Key
    <3>2. rows'[u].epoch = rows[u].epoch
      BY <2>1
    <3>3. n = rows'[u].epoch /\ rows'[u].started
      BY <2>2, <3>1, <3>2
    <3>4. n <= rows'[u].epoch
      BY <3>3
    <3>5. QED BY <3>3, <3>4
  <2>5. QED BY <1>5, <2>3, <2>4
<1>7. /\ \A k \in Hosts : \A e \in fires'[k] :
           \/ e \in fires[k]
           \/ k = h /\ e = g /\ Key(f) \in begun'
      /\ fires' \in [Hosts -> SUBSET Fires]
  <2>1. CASE FireEnds(h, f)
    BY <1>0, <2>1 DEF FireEnds, Drop, MemoryTypes
  <2>2. CASE Move(h, f, g) /\ begun' = begun \cup {Key(f)}
    BY <1>0, <1>2, <2>2, Moves
  <2>3. QED BY <2>1, <2>2 DEF g
<1>8. MemoryTypes'
  BY <1>0, <1>7 DEF MemoryTypes
<1>9. \A k \in Hosts : Waiting(k)' = Waiting(k) /\ Waiting(k) \subseteq Claims
  BY <1>0 DEF Waiting, MemoryTypes
<1>10. ClaimsOK'
  <2>1. \A k \in Hosts : \A e \in fires'[k] : \E d \in fires[k] : e.claim = d.claim /\ d.claim \in Claims
    BY <1>0, <1>1, <1>2, <1>7 DEF MemoryTypes, Fires
  <2>2. \A c \in Claims : c.task \in Tasks
    BY DEF Claims
  <2>3. \A k \in Hosts : \A c \in Waiting(k) : Unstarted(c)'
    BY <1>0, <1>3, <1>4, <1>9, <2>2 DEF ClaimsOK, Unstarted
  <2>4. QED BY <1>0, <1>4, <1>9, <2>1, <2>2, <2>3 DEF ClaimsOK
<1>11. PlacesOK'
  <2>1. \A k \in Hosts : \A e \in fires'[k] : e.claim \notin Waiting(k)
    BY <1>0, <1>2, <1>7 DEF PlacesOK
  <2>2. QED BY <1>0, <1>9, <2>1 DEF PlacesOK
<1>12. OneFire'
  <2>1. CASE FireEnds(h, f)
    <3>1. \A k \in Hosts : fires'[k] \subseteq fires[k]
      BY <1>0, <2>1 DEF FireEnds, Drop, MemoryTypes
    <3>2. QED BY <1>0, <3>1 DEF OneFire, Key
  <2>2. CASE Move(h, f, g)
    BY <1>2, <1>3, <2>2, OneFireMoves
  <2>3. QED BY <2>1, <2>2 DEF g
<1>13. FiresOK'
  <2> SUFFICES ASSUME NEW k \in Hosts, NEW e \in fires'[k] PROVE FireOK(e)'
    BY DEF FiresOK
  <2>1. CASE k = h /\ e = g /\ Key(f) \in begun'
    <3>1. Key(g) = Key(f) /\ ~rows'[t].marked
      BY <1>1, <1>2, <1>3, <1>4 DEF Key
    <3>2. QED BY <1>2, <2>1, <3>1 DEF FireOK, Key
  <2>2. CASE e \in fires[k]
    <3>1. e.claim \in Claims /\ e.claim.task \in Tasks /\ FireOK(e)
      BY <2>2, FireFacts
    <3>2. Current(e.claim)' => Current(e.claim)
      BY <1>4, <3>1
    <3>3. rows'[e.claim.task].marked => rows[e.claim.task].marked
      BY <1>3, <1>4, <3>1
    <3>4. QED BY <1>5, <3>1, <3>2, <3>3 DEF FireOK, Key
  <2>3. QED BY <1>7, <2>1, <2>2
<1>14. QED BY <1>4, <1>6, <1>8, <1>10, <1>11, <1>12, <1>13 DEF IInv

LEMMA BeginDispatchInv ==
  ASSUME IInv, NEW h \in Hosts, NEW f \in fires[h], BeginDispatch(h, f)
  PROVE  IInv'
<1>0. RowsOK /\ BegunOK /\ OthersTypes
  BY DEF IInv
<1>1. UNCHANGED <<phase, ticks, armed, held, releases, sweep, done>> /\ f.pc = "begin"
  BY DEF BeginDispatch, FireAt
<1>2. OthersTypes'
  <2>1. Key(f) \in Tasks \X Nat
    BY FireFacts DEF Key
  <2>2. outages' \in 0..MaxOutages
    BY <1>0, OutagesBounded DEF BeginDispatch
  <2>3. begun' \subseteq begun \cup {Key(f)}
    BY DEF BeginDispatch, Key
  <2>4. QED BY <1>0, <1>1, <2>1, <2>2, <2>3 DEF OthersTypes
<1>3. CASE UNCHANGED rows /\ FireEnds(h, f) /\ UNCHANGED begun
  <2>1. RowsOK' /\ BegunOK' /\ KeepsRows
    BY <1>0, <1>1, <1>3, RowsStay
  <2>2. QED BY <1>1, <1>2, <1>3, <2>1, FireEndsInv
<1>4. CASE /\ Owns(h, f.claim) /\ ~rows[f.claim.task].started
           /\ SetRow(f.claim.task, StartedRow(rows[f.claim.task]))
           /\ \/ FireEnds(h, f) /\ UNCHANGED begun
              \/ Move(h, f, [f EXCEPT !.pc = "run"]) /\ begun' = begun \cup {Key(f)}
  BY <1>1, <1>2, <1>4, StartedInv
<1>5. QED BY <1>3, <1>4 DEF BeginDispatch, Key

-----------------------------------------------------------------------------
\* The inductive invariant.
LEMMA NextInv == IInv /\ [Next]_vars => IInv'
<1> SUFFICES ASSUME IInv, [Next]_vars PROVE IInv'
  OBVIOUS
<1>1. CASE UNCHANGED vars
  <2>1. IInv /\ UNCHANGED <<phase, memory, history, outages>> /\ UNCHANGED rows
    BY <1>1 DEF vars
  <2>2. RowsOK' /\ BegunOK' /\ KeepsRows
    BY <2>1, RowsStay DEF IInv, history
  <2>3. QED BY <2>1, <2>2, RowsOnlyInv
<1>2. ASSUME NEW h \in Hosts,
             \/ ClaimDueTasks(h) \/ ResolveClaim(h) \/ ReleaseClaim(h) \/ TimerFires(h)
             \/ RetireMissedPending(h) \/ FindExpiredLeases(h) \/ RecoverRow(h)
      PROVE  IInv'
  BY <1>2, ClaimDueTasksInv, ResolveClaimInv, ReleaseClaimInv, TimerFiresInv,
     RetireMissedPendingInv, FindExpiredLeasesInv, RecoverRowInv
<1>3. ASSUME NEW h \in Hosts,
             AbandonSweep(h) \/ StopLoops(h) \/ StopExecutor(h) \/ ProcessEnds(h) \/ ProcessStarts(h)
      PROVE  IInv'
  BY <1>3, StopsInv
<1>4. ASSUME NEW h \in Hosts, Fire(h) PROVE IInv'
  BY <1>4, BeginDispatchInv, HandlerInv, MarkDispatchedInv, RecordOutcomeInv DEF Fire
<1>5. ASSUME NEW t \in Tasks, TimePasses(t) \/ RemoveRow(t) PROVE IInv'
  BY <1>5, TimePassesInv, RemoveRowInv
<1>6. QED BY <1>1, <1>2, <1>3, <1>4, <1>5 DEF Next

THEOREM InvHolds == Spec => []IInv
BY InitInv, NextInv, PTL DEF Spec

\* Rows, claims, fires and sightings keep their types, and no task is attempted more
\* often than it may be.
THEOREM TypeCorrect == Spec => []TypeOK
BY InvHolds, TypesHold, PTL

\* A task whose effect is marked is never recorded as failed, by whatever main.
THEOREM MarkedNeverFails == Spec => []DispatchedNeverFailed
<1>1. IInv => DispatchedNeverFailed
  BY DEF IInv, RowsOK, GoodRow, DispatchedNeverFailed
<1>2. QED BY <1>1, InvHolds, PTL
-----------------------------------------------------------------------------
(***************************************************************************)
(* What one step may do to a row of the scheduler's table, by whatever     *)
(* main and in whatever interleaving; and from it, that a handler is       *)
(* called once per lease, that a running lease is left alone, and that     *)
(* SchedulerTasks implements TaskLifecycle.                                *)
(***************************************************************************)

\* What becomes of row r of task t while a main holds it.
RunningStep(t, r, q) ==
  \/ q = StartedRow(r)
  \/ ~r.marked /\ q = BackToPending(r)
  \/ <<t, r.epoch>> \in done /\ q \in {[r EXCEPT !.marked = TRUE], SucceededRow(r)}
  \/ ~r.marked /\ LastAttempt(r.attempts) /\ q = FailedRow(r)
  \/ /\ ~LastAttempt(r.attempts)
     /\ q \in {RescheduledRow(r), [RescheduledRow(r) EXCEPT !.epoch = r.epoch + 1]}

RowStep(t, r, q) ==
  \/ q = r
  \/ r.status = "running" /\ RunningStep(t, r, q)
  \/ \E h \in Hosts : r.status = "pending" /\ q = ClaimedRow(h, r)
  \/ r.status = "pending" /\ r.attempts = 0 /\ q = [r EXCEPT !.status = "missed"]
  \/ q = [r EXCEPT !.status = "gone"]
  \/ q \in {[r EXCEPT !.lease = "expired"], [r EXCEPT !.due = TRUE], [r EXCEPT !.late = TRUE]}

RowsStep == /\ rows' = [t \in Tasks |-> rows'[t]]
            /\ \A t \in Tasks : RowStep(t, rows[t], rows'[t])

LEMMA NoRowSteps == ASSUME IInv, UNCHANGED rows PROVE RowsStep
BY DEF IInv, RowsOK, RowsStep, RowStep

LEMMA OneRowSteps ==
  ASSUME IInv, NEW t \in Tasks, NEW q, SetRow(t, q), RowStep(t, rows[t], q)
  PROVE  RowsStep
<1>1. rows' = [u \in Tasks |-> IF u = t THEN q ELSE rows[u]]
  BY DEF IInv, RowsOK, SetRow
<1>2. \A u \in Tasks : RowStep(u, rows[u], rows'[u])
  <2> TAKE u \in Tasks
  <2>1. CASE u = t
    BY <1>1, <2>1
  <2>2. CASE u # t
    BY <1>1, <2>2 DEF RowStep
  <2>3. QED BY <2>1, <2>2
<1>3. QED BY <1>1, <1>2 DEF RowsStep

\* A guarded update steps the row its claim still owns, or none.
LEMMA GuardedSteps ==
  ASSUME IInv, NEW h, NEW c, c.task \in Tasks, NEW q, GuardedUpdate(h, c, q),
         Owns(h, c) => RunningStep(c.task, rows[c.task], q)
  PROVE  RowsStep
<1>1. CASE Owns(h, c)
  <2>1. SetRow(c.task, q) /\ RowStep(c.task, rows[c.task], q)
    BY <1>1 DEF GuardedUpdate, Owns, RowStep
  <2>2. QED BY <2>1, OneRowSteps
<1>2. CASE ~Owns(h, c)
  BY <1>2, NoRowSteps DEF GuardedUpdate
<1>3. QED BY <1>1, <1>2

-----------------------------------------------------------------------------
\* One lemma per operation that writes to the table.
LEMMA ClaimDueTasksSteps == ASSUME IInv, NEW h \in Hosts, ClaimDueTasks(h) PROVE RowsStep
<1>1. PICK batch \in SUBSET {t \in Tasks : Claimable(t)} :
        rows' = [t \in Tasks |-> IF t \in batch THEN ClaimedRow(h, rows[t]) ELSE rows[t]]
  BY DEF ClaimDueTasks
<1>2. QED BY <1>1 DEF RowsStep, RowStep, Claimable

LEMMA RetireMissedPendingSteps == ASSUME IInv, NEW h \in Hosts, RetireMissedPending(h) PROVE RowsStep
<1>1. PICK batch \in SUBSET {t \in Tasks : /\ rows[t].status = "pending" /\ rows[t].late
                                           /\ rows[t].attempts = 0} :
        rows' = [t \in Tasks |->
                  IF t \in batch THEN [rows[t] EXCEPT !.status = "missed"] ELSE rows[t]]
  BY DEF RetireMissedPending
<1>2. QED BY <1>1 DEF RowsStep, RowStep

LEMMA ReleaseClaimSteps == ASSUME IInv, NEW h \in Hosts, ReleaseClaim(h) PROVE RowsStep
<1>1. PICK c \in releases[h] :
        GuardedUpdate(h, c, BackToPending(rows[c.task])) \/ UNCHANGED rows
  BY DEF ReleaseClaim
<1>2. c \in Claims /\ c.task \in Tasks
  BY DEF IInv, MemoryTypes, Claims
<1>3. Owns(h, c) => ~rows[c.task].marked
  <2>1. Unstarted(c) /\ GoodRow(c.task, rows[c.task])
    BY <1>2 DEF IInv, ClaimsOK, Waiting, RowsOK
  <2>2. QED BY <2>1 DEF Owns, Current, Unstarted, GoodRow
<1>4. CASE GuardedUpdate(h, c, BackToPending(rows[c.task]))
  BY <1>2, <1>3, <1>4, GuardedSteps DEF RunningStep
<1>5. QED BY <1>1, <1>4, NoRowSteps

LEMMA BeginDispatchSteps ==
  ASSUME IInv, NEW h \in Hosts, NEW f \in fires[h], BeginDispatch(h, f) PROVE RowsStep
<1>1. CASE Owns(h, f.claim) /\ SetRow(f.claim.task, StartedRow(rows[f.claim.task]))
  BY <1>1, FireFacts, OneRowSteps DEF Owns, RowStep, RunningStep
<1>2. QED BY <1>1, NoRowSteps DEF BeginDispatch

LEMMA MarkDispatchedSteps ==
  ASSUME IInv, NEW h \in Hosts, NEW f \in fires[h], MarkDispatched(h, f) PROVE RowsStep
<1> DEFINE q == [rows[f.claim.task] EXCEPT !.marked = TRUE]
<1>1. f.mark = "issued" /\ (GuardedUpdate(h, f.claim, q) \/ UNCHANGED rows)
  BY DEF MarkDispatched
<1>2. Owns(h, f.claim) => RunningStep(f.claim.task, rows[f.claim.task], q)
  BY <1>1, MarkedRow DEF RunningStep
<1>3. f.claim.task \in Tasks
  BY FireFacts
<1> HIDE DEF q
<1>4. QED BY <1>1, <1>2, <1>3, GuardedSteps, NoRowSteps

LEMMA RecordOutcomeSteps ==
  ASSUME IInv, NEW h \in Hosts, NEW f \in fires[h], RecordOutcome(h, f) PROVE RowsStep
<1> DEFINE t == f.claim.task
<1>1. /\ f.pc \in {"returned", "threw"}
      /\ GuardedUpdate(h, f.claim, Outcome(f, rows[t])) \/ UNCHANGED rows
  BY DEF RecordOutcome
<1>2. f.claim \in Claims /\ t \in Tasks /\ f.claim.epoch \in Nat /\ FireOK(f)
  BY FireFacts
<1>3. Owns(h, f.claim) => RunningStep(t, rows[t], Outcome(f, rows[t]))
  <2> SUFFICES ASSUME Owns(h, f.claim) PROVE RunningStep(t, rows[t], Outcome(f, rows[t]))
    OBVIOUS
  <2>1. /\ rows[t].attempts = f.claim.attempts
        /\ f.pc = "threw" /\ f.mark = "none" => ~rows[t].marked
    BY <1>1, OutcomeRow
  <2>2. Key(f) = <<t, rows[t].epoch>>
    BY DEF Owns, Key
  <2>3. CASE f.pc = "returned" \/ (LastAttempt(f.claim.attempts) /\ f.mark # "none")
    <3>1. Key(f) \in done
      BY <1>2, <2>3 DEF FireOK
    <3>2. QED BY <2>2, <2>3, <3>1 DEF Outcome, RunningStep
  <2>4. CASE f.pc # "returned" /\ LastAttempt(f.claim.attempts) /\ f.mark = "none"
    BY <1>1, <2>1, <2>4 DEF Outcome, RunningStep
  <2>5. CASE f.pc # "returned" /\ ~LastAttempt(f.claim.attempts)
    BY <2>1, <2>5 DEF Outcome, RunningStep
  <2>6. QED BY <2>3, <2>4, <2>5
<1>4. QED BY <1>1, <1>2, <1>3, GuardedSteps, NoRowSteps

LEMMA RecoverRowSteps == ASSUME IInv, NEW h \in Hosts, RecoverRow(h) PROVE RowsStep
<1>1. PICK x \in sweep[h] :
        \/ ReaperGuard(x) /\ SetRow(x.task, Recovered(x, rows[x.task]))
        \/ UNCHANGED rows
  BY DEF RecoverRow
<1>2. CASE ReaperGuard(x) /\ SetRow(x.task, Recovered(x, rows[x.task]))
  <2> DEFINE r == rows[x.task]
  <2>1. /\ x.task \in Tasks /\ r.status = "running" /\ r.attempts = x.attempts
        /\ r.marked = x.marked /\ GoodRow(x.task, r)
    BY <1>2, RecoveredRow DEF Current, ReaperGuard
  <2>2. r.marked => <<x.task, r.epoch>> \in done
    BY <2>1 DEF GoodRow
  <2>3. RunningStep(x.task, r, Recovered(x, r))
    BY <2>1, <2>2 DEF Recovered, RunningStep
  <2>4. QED BY <1>2, <2>1, <2>3, OneRowSteps DEF RowStep
<1>3. QED BY <1>1, <1>2, NoRowSteps

LEMMA TimePassesSteps == ASSUME IInv, NEW t \in Tasks, TimePasses(t) PROVE RowsStep
<1>1. PICK q : /\ SetRow(t, q)
               /\ q \in {[rows[t] EXCEPT !.lease = "expired"], [rows[t] EXCEPT !.due = TRUE],
                         [rows[t] EXCEPT !.late = TRUE]}
  BY DEF TimePasses, LeaseExpires, ComesDue, DeadlinePasses
<1>2. QED BY <1>1, OneRowSteps DEF RowStep

LEMMA RemoveRowSteps == ASSUME IInv, NEW t \in Tasks, RemoveRow(t) PROVE RowsStep
BY OneRowSteps DEF RemoveRow, RowStep

\* No step does anything else to a row.
LEMMA RowsStepAlways == ASSUME IInv, [Next]_vars PROVE RowsStep
<1>1. CASE UNCHANGED vars
  BY <1>1, NoRowSteps DEF vars
<1>2. ASSUME NEW h \in Hosts,
             ClaimDueTasks(h) \/ ReleaseClaim(h) \/ RetireMissedPending(h) \/ RecoverRow(h)
      PROVE  RowsStep
  BY <1>2, ClaimDueTasksSteps, ReleaseClaimSteps, RetireMissedPendingSteps, RecoverRowSteps
<1>3. ASSUME NEW h \in Hosts,
             \/ ResolveClaim(h) \/ TimerFires(h) \/ FindExpiredLeases(h) \/ AbandonSweep(h)
             \/ StopLoops(h) \/ StopExecutor(h) \/ ProcessEnds(h) \/ ProcessStarts(h)
      PROVE  RowsStep
  BY <1>3, NoRowSteps DEF ResolveClaim, TimerFires, FindExpiredLeases, AbandonSweep, StopLoops,
     StopExecutor, ProcessEnds, ProcessStarts
<1>4. ASSUME NEW h \in Hosts, Fire(h) PROVE RowsStep
  <2>1. PICK f \in fires[h] :
          \/ BeginDispatch(h, f) \/ MarkDispatched(h, f) \/ RecordOutcome(h, f)
          \/ ReportDispatched(h, f) \/ HandlerReturns(h, f) \/ HandlerThrows(h, f)
    BY <1>4 DEF Fire
  <2>2. CASE ReportDispatched(h, f) \/ HandlerReturns(h, f) \/ HandlerThrows(h, f)
    BY <2>2, NoRowSteps DEF ReportDispatched, HandlerReturns, HandlerThrows
  <2>3. QED BY <2>1, <2>2, BeginDispatchSteps, MarkDispatchedSteps, RecordOutcomeSteps
<1>5. ASSUME NEW t \in Tasks, TimePasses(t) \/ RemoveRow(t) PROVE RowsStep
  BY <1>5, TimePassesSteps, RemoveRowSteps
<1>6. QED BY <1>1, <1>2, <1>3, <1>4, <1>5 DEF Next

-----------------------------------------------------------------------------
\* Only a row a main holds gets started.
LEMMA StartingIsRunning ==
  ASSUME NEW t, NEW r, NEW q, r \in Rows, RowStep(t, r, q), ~r.started, q.started
  PROVE  r.status = "running"
BY DEF RowStep, Rows, ClaimedRow

\* The right to call a handler is taken at most once per lease, across mains that come
\* back with the same host id, claims handed back and late timers.
THEOREM HandlerOncePerLease == Spec => OncePerLease
<1>1. IInv /\ [Next]_vars =>
        [\A t \in Tasks : ~rows[t].started /\ rows'[t].started => <<t, rows[t].epoch>> \notin begun]_vars
  <2> SUFFICES ASSUME IInv, [Next]_vars, NEW t \in Tasks, ~rows[t].started, rows'[t].started
               PROVE  <<t, rows[t].epoch>> \notin begun
    OBVIOUS
  <2>1. rows[t] \in Rows /\ rows[t].epoch \in Nat
    BY DEF IInv, RowsOK, GoodRow, Rows
  <2>2. RowStep(t, rows[t], rows'[t])
    BY RowsStepAlways DEF RowsStep
  <2>3. rows[t].status = "running"
    BY <2>1, <2>2, StartingIsRunning
  <2>4. QED BY <2>1, <2>3 DEF IInv, BegunOK
<1>2. QED BY <1>1, InvHolds, PTL DEF Spec, OncePerLease

\* Of the steps that touch a sweep, only a reaper's writes to the table, and only where
\* the lease had run out.
LEMMA ReaperSparesLiveLeases ==
  ASSUME IInv, NEW h \in Hosts, RecoverRow(h), NEW t \in Tasks, rows[t].lease = "live"
  PROVE  rows'[t] = rows[t]
<1>1. PICK x \in sweep[h] :
        \/ ReaperGuard(x) /\ SetRow(x.task, Recovered(x, rows[x.task]))
        \/ UNCHANGED rows
  BY DEF RecoverRow
<1>2. CASE ReaperGuard(x) /\ SetRow(x.task, Recovered(x, rows[x.task]))
  <2>1. x.task # t
    BY <1>2 DEF ReaperGuard, Expired
  <2>2. QED BY <1>2, <2>1 DEF SetRow, IInv, RowsOK
<1>3. QED BY <1>1, <1>2

LEMMA SweepsSpareLiveLeases ==
  ASSUME IInv, [Next]_vars, NEW t \in Tasks, rows[t].lease = "live"
  PROVE  UNCHANGED sweep \/ rows'[t] = rows[t]
<1>1. CASE UNCHANGED vars
  BY <1>1 DEF vars
<1>2. ASSUME NEW h \in Hosts,
             \/ ClaimDueTasks(h) \/ ResolveClaim(h) \/ ReleaseClaim(h) \/ TimerFires(h)
             \/ RetireMissedPending(h) \/ StopLoops(h) \/ StopExecutor(h) \/ ProcessStarts(h)
      PROVE  UNCHANGED sweep
  BY <1>2 DEF ClaimDueTasks, ResolveClaim, ReleaseClaim, TimerFires, RetireMissedPending, StopLoops,
     StopExecutor, ProcessStarts, memory
<1>3. ASSUME NEW h \in Hosts, FindExpiredLeases(h) \/ AbandonSweep(h) \/ ProcessEnds(h)
      PROVE  UNCHANGED rows
  BY <1>3 DEF FindExpiredLeases, AbandonSweep, ProcessEnds
<1>4. ASSUME NEW h \in Hosts, RecoverRow(h) PROVE rows'[t] = rows[t]
  BY <1>4, ReaperSparesLiveLeases
<1>5. ASSUME NEW h \in Hosts, Fire(h) PROVE UNCHANGED sweep
  BY <1>5 DEF Fire, BeginDispatch, ReportDispatched, MarkDispatched, HandlerReturns, HandlerThrows,
     RecordOutcome
<1>6. ASSUME NEW u \in Tasks, TimePasses(u) \/ RemoveRow(u) PROVE UNCHANGED sweep
  BY <1>6 DEF TimePasses, RemoveRow, memory
<1>7. QED BY <1>1, <1>2, <1>3, <1>4, <1>5, <1>6 DEF Next

\* No reaper takes a task from a lease that is running, whatever it read before the
\* lease was refreshed.
THEOREM ReaperRespectsLeases == Spec => LiveLeaseIsLeftAlone
<1>1. IInv /\ [Next]_vars =>
        [\A t \in Tasks :
           rows[t].status = "running" /\ rows[t].lease = "live" /\ rows'[t].status \in Ended \cup {"pending"}
           => UNCHANGED sweep]_vars
  BY SweepsSpareLiveLeases DEF Ended
<1>2. QED BY <1>1, InvHolds, PTL DEF Spec, LiveLeaseIsLeftAlone

-----------------------------------------------------------------------------
\* The refinement: what TaskLifecycle sees of a row.
View(r) == [status |-> r.status, attempts |-> r.attempts, lease |-> r.epoch, marked |-> r.marked]

\* A step of a row, as TaskLifecycle tells it.
LifeStep(t, v, w) ==
  \/ w = v
  \/ v.status = "pending" /\ w = [v EXCEPT !.status = "running", !.lease = v.lease + 1]
  \/ v.status = "running" /\ <<t, v.lease>> \in done /\ w = [v EXCEPT !.marked = TRUE]
  \/ v.status = "running" /\ <<t, v.lease>> \in done /\ w = [v EXCEPT !.status = "succeeded"]
  \/ /\ v.status = "running" /\ ~v.marked /\ v.attempts + 1 = MaxAttempts
     /\ w = [v EXCEPT !.status = "failed", !.attempts = MaxAttempts]
  \/ /\ v.status = "running" /\ v.attempts + 1 < MaxAttempts
     /\ \E n \in {v.lease, v.lease + 1} :
          w = [status |-> "pending", attempts |-> v.attempts + 1, lease |-> n, marked |-> FALSE]
  \/ v.status = "running" /\ ~v.marked /\ w = [v EXCEPT !.status = "pending"]
  \/ v.status = "pending" /\ v.attempts = 0 /\ w = [v EXCEPT !.status = "missed"]
  \/ w = [v EXCEPT !.status = "gone"]

Views == [status : Statuses, attempts : 0..MaxAttempts, lease : Nat, marked : BOOLEAN]

LEMMA ViewTypes ==
  ASSUME NEW r \in Rows
  PROVE  /\ View(r) \in Views
         /\ View(r).status = r.status /\ View(r).lease = r.epoch
         /\ View(r).marked = r.marked /\ View(r).attempts = r.attempts
BY DEF View, Views, Rows

\* The steps that change two fields, or the marker, field by field.
LEMMA ViewClaimed ==
  ASSUME NEW v \in Views, NEW w \in Views, w.status = "running", w.lease = v.lease + 1,
         w.attempts = v.attempts, w.marked = v.marked
  PROVE  w = [v EXCEPT !.status = "running", !.lease = v.lease + 1]
BY DEF Views

LEMMA ViewMarked ==
  ASSUME NEW v \in Views, NEW w \in Views, w.status = v.status, w.lease = v.lease,
         w.attempts = v.attempts, w.marked = TRUE
  PROVE  w = [v EXCEPT !.marked = TRUE]
BY DEF Views

LEMMA ViewFailed ==
  ASSUME NEW v \in Views, NEW w \in Views, w.status = "failed", w.lease = v.lease,
         w.attempts = MaxAttempts, w.marked = v.marked
  PROVE  w = [v EXCEPT !.status = "failed", !.attempts = MaxAttempts]
BY DEF Views

LEMMA RunningStepIsLifeStep ==
  ASSUME NEW t, NEW r, NEW q, GoodRow(t, r), r.status = "running", RunningStep(t, r, q)
  PROVE  LifeStep(t, View(r), View(q))
<1>1. /\ r \in Rows /\ r.attempts \in Nat /\ r.attempts < MaxAttempts /\ MaxAttempts \in Nat
      /\ r.epoch \in Nat /\ r.marked \in BOOLEAN
  BY TasksAssumption DEF GoodRow, Rows
<1>2. /\ View(r).status = "running" /\ View(r).lease = r.epoch /\ View(r).marked = r.marked
      /\ View(r).attempts = r.attempts
  BY <1>1, ViewTypes
<1>3. CASE q = StartedRow(r)
  <2>1. View(q) = View(r)
    BY <1>1, <1>3 DEF StartedRow, Rows, View
  <2>2. QED BY <2>1 DEF LifeStep
<1>4. CASE ~r.marked /\ q = BackToPending(r)
  <2>1. q.status = "pending" /\ q.attempts = r.attempts /\ q.epoch = r.epoch /\ q.marked = r.marked
    BY <1>1, <1>4 DEF BackToPending, Rows
  <2>2. View(q) = [View(r) EXCEPT !.status = "pending"]
    BY <2>1 DEF View
  <2>3. QED BY <1>2, <1>4, <2>2 DEF LifeStep
<1>5. CASE <<t, r.epoch>> \in done /\ q \in {[r EXCEPT !.marked = TRUE], SucceededRow(r)}
  <2>1. /\ q.attempts = r.attempts /\ q.epoch = r.epoch
        /\ \/ q.status = r.status /\ q.marked = TRUE
           \/ q.status = "succeeded" /\ q.marked = r.marked
    BY <1>1, <1>5 DEF SucceededRow, Rows
  <2>2. CASE q.status = r.status /\ q.marked = TRUE
    <3>1. View(q) = [View(r) EXCEPT !.marked = TRUE]
      <4>1. q \in Rows
        BY <1>1, <1>5 DEF SucceededRow, Rows, Statuses
      <4>2. /\ View(r) \in Views /\ View(q) \in Views /\ View(q).marked = TRUE
            /\ View(q).status = View(r).status /\ View(q).lease = View(r).lease
            /\ View(q).attempts = View(r).attempts
        BY <1>1, <1>2, <2>1, <2>2, <4>1, ViewTypes
      <4>3. QED BY <4>2, ViewMarked
    <3>2. QED BY <1>2, <1>5, <3>1 DEF LifeStep
  <2>3. CASE q.status = "succeeded" /\ q.marked = r.marked
    <3>1. View(q) = [View(r) EXCEPT !.status = "succeeded"]
      BY <2>1, <2>3 DEF View
    <3>2. QED BY <1>2, <1>5, <3>1 DEF LifeStep
  <2>4. QED BY <2>1, <2>2, <2>3
<1>6. CASE ~r.marked /\ LastAttempt(r.attempts) /\ q = FailedRow(r)
  <2>1. r.attempts + 1 = MaxAttempts
    BY <1>1, <1>6 DEF LastAttempt
  <2>2. /\ q.status = "failed" /\ q.attempts = MaxAttempts /\ q.epoch = r.epoch /\ q.marked = r.marked
    BY <1>1, <1>6, <2>1 DEF FailedRow, Rows
  <2>3. View(q) = [View(r) EXCEPT !.status = "failed", !.attempts = MaxAttempts]
    <3>1. MaxAttempts \in 0..MaxAttempts
      BY <1>1
    <3>2. q \in Rows
      BY <1>1, <1>6, <2>1, <3>1 DEF FailedRow, Rows, Statuses
    <3>3. /\ View(r) \in Views /\ View(q) \in Views /\ View(q).marked = View(r).marked
          /\ View(q).status = "failed" /\ View(q).lease = View(r).lease
          /\ View(q).attempts = MaxAttempts
      BY <1>1, <1>2, <2>2, <3>2, ViewTypes
    <3>4. QED BY <3>3, ViewFailed
  <2>4. QED BY <1>2, <1>6, <2>1, <2>3 DEF LifeStep
<1>7. CASE ~LastAttempt(r.attempts) /\ q = RescheduledRow(r)
  <2>1. r.attempts + 1 < MaxAttempts
    BY <1>1, <1>7 DEF LastAttempt
  <2>2. View(q) = [status |-> "pending", attempts |-> r.attempts + 1, lease |-> r.epoch, marked |-> FALSE]
    BY <1>1, <1>7 DEF RescheduledRow, BackToPending, Rows, View
  <2>3. QED BY <2>1, <2>2 DEF View, LifeStep
<1>8. CASE ~LastAttempt(r.attempts) /\ q = [RescheduledRow(r) EXCEPT !.epoch = r.epoch + 1]
  <2>1. r.attempts + 1 < MaxAttempts
    BY <1>1, <1>8 DEF LastAttempt
  <2>2. View(q) = [status |-> "pending", attempts |-> r.attempts + 1, lease |-> r.epoch + 1, marked |-> FALSE]
    BY <1>1, <1>8 DEF RescheduledRow, BackToPending, Rows, View
  <2>3. QED BY <2>1, <2>2 DEF View, LifeStep
<1>9. QED BY <1>3, <1>4, <1>5, <1>6, <1>7, <1>8 DEF RunningStep

LEMMA RowStepIsLifeStep ==
  ASSUME NEW t, NEW r, NEW q, GoodRow(t, r), RowStep(t, r, q)
  PROVE  LifeStep(t, View(r), View(q))
<1>1. r \in Rows
  BY DEF GoodRow
<1>2. CASE q = r
  BY <1>2 DEF LifeStep
<1>3. CASE r.status = "running" /\ RunningStep(t, r, q)
  BY <1>3, RunningStepIsLifeStep
<1>4. ASSUME NEW h \in Hosts, r.status = "pending", q = ClaimedRow(h, r)
      PROVE  LifeStep(t, View(r), View(q))
  <2>1. r.epoch \in Nat /\ r.epoch + 1 \in Nat
    BY <1>1 DEF Rows
  <2>2. q.status = "running" /\ q.attempts = r.attempts /\ q.epoch = r.epoch + 1 /\ q.marked = r.marked
    BY <1>1, <1>4 DEF ClaimedRow, Rows
  <2>3. q \in Rows
    BY <1>1, <1>4, <2>1 DEF ClaimedRow, Rows, Statuses, Leases
  <2>4. /\ View(r) \in Views /\ View(q) \in Views /\ View(q).marked = View(r).marked
        /\ View(q).status = "running" /\ View(q).lease = View(r).lease + 1
        /\ View(q).attempts = View(r).attempts /\ View(r).status = "pending"
    BY <1>1, <1>4, <2>2, <2>3, ViewTypes
  <2>5. View(q) = [View(r) EXCEPT !.status = "running", !.lease = View(r).lease + 1]
    BY <2>4, ViewClaimed
  <2>6. QED BY <2>4, <2>5 DEF LifeStep
<1>5. CASE r.status = "pending" /\ r.attempts = 0 /\ q = [r EXCEPT !.status = "missed"]
  BY <1>1, <1>5 DEF Rows, View, LifeStep
<1>6. CASE q = [r EXCEPT !.status = "gone"]
  BY <1>1, <1>6 DEF Rows, View, LifeStep
<1>7. CASE q \in {[r EXCEPT !.lease = "expired"], [r EXCEPT !.due = TRUE], [r EXCEPT !.late = TRUE]}
  BY <1>1, <1>7 DEF Rows, View, LifeStep
<1>8. QED BY <1>2, <1>3, <1>4, <1>5, <1>6, <1>7 DEF RowStep

\* Work is done in a step of its own, under a lease that was granted.
WorkStep == /\ \E t \in Tasks : \E n \in 1..rows[t].epoch : done' = done \cup {<<t, n>>}
            /\ UNCHANGED rows

LEMMA WorkSteps ==
  ASSUME IInv, NEW h \in Hosts, NEW f \in fires[h], ReportDispatched(h, f) \/ HandlerReturns(h, f)
  PROVE  WorkStep
<1>1. /\ f.claim.task \in Tasks /\ ClaimOK(h, f.claim) /\ f.claim.epoch \in Nat
      /\ rows[f.claim.task].epoch \in Nat
  BY FireFacts
<1>2. f.claim.epoch \in 1..rows[f.claim.task].epoch
  BY <1>1 DEF ClaimOK
<1>3. QED BY <1>1, <1>2 DEF WorkStep, ReportDispatched, HandlerReturns

LEMMA DoneStays == ASSUME IInv, [Next]_vars PROVE WorkStep \/ UNCHANGED done
<1>1. CASE UNCHANGED vars
  BY <1>1 DEF vars, history
<1>2. ASSUME NEW h \in Hosts,
             \/ ClaimDueTasks(h) \/ ResolveClaim(h) \/ ReleaseClaim(h) \/ TimerFires(h)
             \/ RetireMissedPending(h) \/ FindExpiredLeases(h) \/ RecoverRow(h) \/ AbandonSweep(h)
      PROVE  UNCHANGED done
  BY <1>2 DEF ClaimDueTasks, ResolveClaim, ReleaseClaim, TimerFires, RetireMissedPending,
     FindExpiredLeases, RecoverRow, AbandonSweep, history
<1>3. ASSUME NEW h \in Hosts,
             StopLoops(h) \/ StopExecutor(h) \/ ProcessEnds(h) \/ ProcessStarts(h)
      PROVE  UNCHANGED done
  BY <1>3 DEF StopLoops, StopExecutor, ProcessEnds, ProcessStarts, history
<1>4. ASSUME NEW h \in Hosts, Fire(h) PROVE WorkStep \/ UNCHANGED done
  BY <1>4, WorkSteps DEF Fire, BeginDispatch, MarkDispatched, HandlerThrows, RecordOutcome, history
<1>5. ASSUME NEW t \in Tasks, TimePasses(t) \/ RemoveRow(t) PROVE UNCHANGED done
  BY <1>5 DEF TimePasses, RemoveRow, history
<1>6. QED BY <1>1, <1>2, <1>3, <1>4, <1>5 DEF Next

\* Whatever the mains do, each task goes through the life the README's diagram gives it.
THEOREM SchedulerImplementsLifecycle == Spec => ImplementsLifecycle
<1> DEFINE life == [t \in Tasks |-> [status |-> rows[t].status, attempts |-> rows[t].attempts,
                                     lease |-> rows[t].epoch, marked |-> rows[t].marked]]
<1>1. Init => Lifecycle!Init
  BY DEF Init, InitialRow, Lifecycle!Init
<1>2. IInv /\ [Next]_vars => [Lifecycle!Step \/ Lifecycle!Work]_<<life, done>>
  <2> SUFFICES ASSUME IInv, [Next]_vars
               PROVE  Lifecycle!Step \/ Lifecycle!Work \/ UNCHANGED <<life, done>>
    OBVIOUS
  <2>1. CASE UNCHANGED done
    <3>1. \A t \in Tasks : LifeStep(t, View(rows[t]), View(rows'[t]))
      BY RowsStepAlways, RowStepIsLifeStep DEF RowsStep, IInv, RowsOK
    <3>2. \A t \in Tasks : life[t] = View(rows[t]) /\ life'[t] = View(rows'[t])
      BY DEF View
    <3> HIDE DEF life
    <3>3. ASSUME NEW t \in Tasks
          PROVE  Lifecycle!TaskStep(t) \/ Lifecycle!Becomes(t, life[t])
      <4>1. LifeStep(t, life[t], life'[t])
        BY <3>1, <3>2
      <4>2. QED BY <4>1 DEF LifeStep, life, Lifecycle!TaskStep, Lifecycle!Becomes, Lifecycle!Claim, Lifecycle!Mark,
           Lifecycle!Succeed, Lifecycle!Fail, Lifecycle!Retry, Lifecycle!GiveBack, Lifecycle!Miss,
           Lifecycle!Remove
    <3>4. DOMAIN life' = Tasks
      BY DEF life
    <3>5. QED BY <2>1, <3>3, <3>4 DEF life, Lifecycle!Step
  <2>2. CASE WorkStep
    <3>1. PICK t \in Tasks : \E n \in 1..rows[t].epoch : done' = done \cup {<<t, n>>}
      BY <2>2 DEF WorkStep
    <3>2. life' = life /\ life[t].lease = rows[t].epoch
      BY <2>2 DEF WorkStep
    <3>3. QED BY <3>1, <3>2 DEF Lifecycle!Work
  <2>3. QED BY <2>1, <2>2, DoneStays
<1>3. QED BY <1>1, <1>2, InvHolds, PTL DEF Spec, ImplementsLifecycle, Lifecycle!Spec
=============================================================================
