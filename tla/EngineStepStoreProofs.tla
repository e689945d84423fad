----------------------- MODULE EngineStepStoreProofs -----------------------
(***************************************************************************)
(* Proofs about EngineStepStore, for any keys, plans and sessions: its     *)
(* transactions implement the atomic operations of EngineStepTable, and a  *)
(* sweep leaves nothing queued.                                            *)
(***************************************************************************)
EXTENDS EngineStepStore, Integers, TLAPS

Pcs == {"idle", "lockCreate", "checkFailed", "insert", "lockClaim", "matchClaim", "claimRow",
        "lockFail", "failRow", "sweep", "commit", "commitSweep"}

Txs == [pc : Pcs, lock : {"none", "share", "exclusive"}, todo : Seq(Keys),
        targets : SUBSET Keys, writes : [Keys -> Statuses]]

Types ==
  /\ rows \in [Keys -> Statuses] /\ tx \in [Sessions -> Txs] /\ swept \in BOOLEAN

Elements(q) == {q[i] : i \in DOMAIN q}

\* What a written row will be replaces a row of this status.
Before(status) ==
  IF status = "queued" THEN "none" ELSE IF status = "failed" THEN "running" ELSE "queued"

\* A session writes over rows that stay as it found them: only one session writes a row.
WritesOK ==
  /\ \A s \in Sessions, k \in Keys :
       tx[s].writes[k] # "none" => rows[k] = Before(tx[s].writes[k])
  /\ \A s, u \in Sessions, k \in Keys :
       tx[s].writes[k] # "none" /\ tx[u].writes[k] # "none" => s = u

\* An exclusive lock is the only lock, and the plans and claims that have passed their
\* check hold a shared one.
LocksOK ==
  \A s, u \in Sessions : tx[s].lock = "exclusive" /\ tx[u].lock # "none" => s = u

Unwritten(t) == \A k \in Keys : t.writes[k] = "none"

\* A planner has written, or found, the rows of its plan that it need not insert any more.
Planning(t, plan) ==
  \A k \in Keys :
    /\ t.writes[k] \in {"none", "queued"}
    /\ t.writes[k] = "queued" => k \in Elements(plan)
    /\ k \in Elements(t.todo) => k \in Elements(plan)
    /\ k \in Elements(plan) => k \in Elements(t.todo) \/ t.writes[k] = "queued" \/ rows[k] # "none"

PlanOK(t) == t.lock = "share" /\ ~AnyFailed /\ \E plan \in Plans : Planning(t, plan)

\* A session that has written one row.
Wrote(t, status) ==
  \E k \in Keys : t.writes[k] = status /\ \A j \in Keys \ {k} : t.writes[j] = "none"

\* A sweep has cancelled what it no longer targets, and nothing is queued beside.
Sweeping(t) ==
  /\ t.lock = "none" /\ AnyFailed
  /\ \A k \in Keys :
       /\ t.writes[k] \in {"none", "cancelled"}
       /\ rows[k] = "queued" => k \in t.targets \/ t.writes[k] = "cancelled"

TxOK(t) ==
  /\ t.pc \in {"idle", "lockCreate", "checkFailed", "lockClaim", "matchClaim", "claimRow", "lockFail", "failRow"}
       => Unwritten(t)
  /\ t.pc \in {"idle", "lockCreate", "lockClaim", "lockFail"} => t.lock = "none"
  /\ t.pc \in {"lockCreate", "checkFailed"} => t.todo \in Plans
  /\ t.pc \in {"checkFailed", "matchClaim"} => t.lock = "share"
  /\ t.pc = "insert" => PlanOK(t) /\ t.todo # <<>>
  /\ t.pc = "claimRow" => t.lock = "share" /\ ~AnyFailed
  /\ t.pc = "failRow" => t.lock = "exclusive"
  /\ t.pc = "commit" =>
       \/ PlanOK(t) /\ t.todo = <<>>
       \/ t.lock = "share" /\ ~AnyFailed /\ Wrote(t, "running")
       \/ t.lock = "exclusive" /\ Wrote(t, "failed")
  /\ t.pc = "sweep" => Sweeping(t)
  /\ t.pc = "commitSweep" => Sweeping(t) /\ t.targets = {}

SweptOK == swept => AnyFailed /\ \A k \in Keys : rows[k] # "queued"

IInv == Types /\ WritesOK /\ LocksOK /\ (\A s \in Sessions : TxOK(tx[s])) /\ SweptOK

LEMMA InitInv == Init => IInv
<1> SUFFICES ASSUME Init
             PROVE  IInv
  OBVIOUS
<1> USE DEF Init
<1>1. NoTx \in Txs /\ Unwritten(NoTx) /\ NoTx.pc = "idle" /\ NoTx.lock = "none"
  BY DEF NoTx, NoWrites, Txs, Pcs, Statuses, Unwritten
<1>2. Types
  BY <1>1 DEF Types, Statuses
<1>3. WritesOK /\ LocksOK
  BY <1>1 DEF WritesOK, LocksOK, Unwritten
<1>4. TxOK(NoTx)
  BY <1>1 DEF TxOK
<1>5. QED BY <1>2, <1>3, <1>4 DEF IInv, SweptOK

-----------------------------------------------------------------------------
\* How the transaction of a session changes: the shapes of the statements.
Others(s) == \A u \in Sessions \ {s} : tx'[u] = tx[u]

LEMMA GotoTx ==
  ASSUME Types, NEW s \in Sessions, NEW pc \in Pcs, Goto(s, pc)
  PROVE  /\ tx' \in [Sessions -> Txs] /\ Others(s) /\ tx'[s].pc = pc
         /\ tx'[s].lock = tx[s].lock /\ tx'[s].todo = tx[s].todo
         /\ tx'[s].targets = tx[s].targets /\ tx'[s].writes = tx[s].writes
BY DEF Types, Txs, Goto, Others

LEMMA DoneTx ==
  ASSUME Types, NEW s \in Sessions, Done(s)
  PROVE  tx' \in [Sessions -> Txs] /\ Others(s) /\ tx'[s] = NoTx
<1>1. NoTx \in Txs
  BY DEF NoTx, NoWrites, Txs, Pcs, Statuses
<1>2. QED BY <1>1 DEF Types, Done, Others

LEMMA BeginTx ==
  ASSUME Types, NEW s \in Sessions, NEW pc \in Pcs, NEW todo \in Seq(Keys), NEW targets \in SUBSET Keys,
         Begin(s, pc, todo, targets)
  PROVE  /\ tx' \in [Sessions -> Txs] /\ Others(s) /\ tx'[s].pc = pc
         /\ tx'[s].lock = "none" /\ tx'[s].todo = todo
         /\ tx'[s].targets = targets /\ Unwritten(tx'[s])
<1> DEFINE t == [NoTx EXCEPT !.pc = pc, !.todo = todo, !.targets = targets]
<1>1. /\ t \in Txs /\ t.pc = pc /\ t.lock = "none" /\ t.todo = todo /\ t.targets = targets
      /\ Unwritten(t)
  BY DEF NoTx, NoWrites, Txs, Statuses, Unwritten
<1>2. tx' = [tx EXCEPT ![s] = t]
  BY DEF Begin
<1> HIDE DEF t
<1>3. QED BY <1>1, <1>2 DEF Types, Others

LEMMA WriteTx ==
  ASSUME Types, NEW s \in Sessions, NEW pc \in Pcs, NEW k \in Keys, NEW status \in Statuses,
         Write(s, pc, k, status)
  PROVE  /\ tx' \in [Sessions -> Txs] /\ Others(s) /\ tx'[s].pc = pc
         /\ tx'[s].lock = tx[s].lock /\ tx'[s].todo = tx[s].todo
         /\ tx'[s].targets = tx[s].targets
         /\ tx'[s].writes = [tx[s].writes EXCEPT ![k] = status]
BY DEF Types, Txs, Write, Others

LEMMA LockTx ==
  ASSUME Types, NEW s \in Sessions, NEW pc \in Pcs, NEW lock \in {"share", "exclusive"},
         tx' = [tx EXCEPT ![s].pc = pc, ![s].lock = lock]
  PROVE  /\ tx' \in [Sessions -> Txs] /\ Others(s) /\ tx'[s].pc = pc
         /\ tx'[s].lock = lock /\ tx'[s].todo = tx[s].todo
         /\ tx'[s].targets = tx[s].targets /\ tx'[s].writes = tx[s].writes
BY DEF Types, Txs, Others

LEMMA InsertTx ==
  ASSUME Types, NEW s \in Sessions, InsertRow(s), tx[s].todo # <<>>
  PROVE  LET k == Head(tx[s].todo) IN
         /\ k \in Keys /\ ~WrittenByOther(s, k)
         /\ tx' \in [Sessions -> Txs] /\ Others(s)
         /\ tx'[s].pc = IF Tail(tx[s].todo) = <<>> THEN "commit" ELSE "insert"
         /\ tx'[s].lock = tx[s].lock /\ tx'[s].todo = Tail(tx[s].todo)
         /\ tx'[s].targets = tx[s].targets
         /\ tx'[s].writes = [tx[s].writes EXCEPT ![k] = IF rows[k] = "none" THEN "queued" ELSE tx[s].writes[k]]
<1> DEFINE k == Head(tx[s].todo)
           left == Tail(tx[s].todo)
           pc == IF left = <<>> THEN "commit" ELSE "insert"
           written == IF rows[k] = "none" THEN "queued" ELSE tx[s].writes[k]
<1>1. tx[s] \in Txs /\ tx[s].todo \in Seq(Keys) /\ tx[s].writes \in [Keys -> Statuses]
  BY DEF Types, Txs
<1>2. k \in Keys /\ left \in Seq(Keys) /\ pc \in Pcs
  BY <1>1 DEF Pcs
<1>3. written \in Statuses
  BY <1>1, <1>2 DEF Statuses
<1>4. /\ ~WrittenByOther(s, k)
      /\ tx' = [tx EXCEPT ![s].pc = pc, ![s].todo = left, ![s].writes[k] = written]
  BY DEF InsertRow
<1> HIDE DEF k, left, pc, written
<1>5. /\ tx' \in [Sessions -> Txs] /\ Others(s) /\ tx'[s].pc = pc
      /\ tx'[s].lock = tx[s].lock /\ tx'[s].todo = left
      /\ tx'[s].targets = tx[s].targets
      /\ tx'[s].writes = [tx[s].writes EXCEPT ![k] = written]
  BY <1>2, <1>3, <1>4 DEF Types, Txs, Others
<1>6. QED BY <1>2, <1>4, <1>5 DEF k, left, pc, written

LEMMA SweepTx ==
  ASSUME Types, NEW s \in Sessions, SweepRow(s)
  PROVE  \E k \in tx[s].targets :
         /\ k \in Keys /\ ~WrittenByOther(s, k)
         /\ tx' \in [Sessions -> Txs] /\ Others(s)
         /\ tx'[s].pc = IF tx[s].targets = {k} THEN "commitSweep" ELSE "sweep"
         /\ tx'[s].lock = tx[s].lock /\ tx'[s].targets = tx[s].targets \ {k}
         /\ tx'[s].writes = [tx[s].writes EXCEPT ![k] = IF rows[k] = "queued" THEN "cancelled" ELSE tx[s].writes[k]]
<1>1. tx[s] \in Txs /\ tx[s].targets \subseteq Keys /\ tx[s].writes \in [Keys -> Statuses]
  BY DEF Types, Txs
<1>2. PICK k \in tx[s].targets :
        /\ ~WrittenByOther(s, k)
        /\ tx' = [tx EXCEPT ![s].pc = IF tx[s].targets = {k} THEN "commitSweep" ELSE "sweep",
                            ![s].targets = @ \ {k},
                            ![s].writes[k] = IF rows[k] = "queued" THEN "cancelled" ELSE @]
  BY DEF SweepRow
<1> DEFINE pc == IF tx[s].targets = {k} THEN "commitSweep" ELSE "sweep"
           written == IF rows[k] = "queued" THEN "cancelled" ELSE tx[s].writes[k]
           left == tx[s].targets \ {k}
<1>3. k \in Keys /\ pc \in Pcs /\ written \in Statuses /\ left \in SUBSET Keys
  BY <1>1 DEF Pcs, Statuses
<1>4. tx' = [tx EXCEPT ![s].pc = pc, ![s].targets = left, ![s].writes[k] = written]
  BY <1>2
<1> HIDE DEF pc, written, left
<1>5. /\ tx' \in [Sessions -> Txs] /\ Others(s) /\ tx'[s].pc = pc
      /\ tx'[s].lock = tx[s].lock /\ tx'[s].targets = left
      /\ tx'[s].writes = [tx[s].writes EXCEPT ![k] = written]
  <2>1. \A u \in Sessions : tx[u] \in Txs /\ tx'[u] \in Txs
    BY <1>1, <1>3, <1>4 DEF Types, Txs
  <2>2. tx' \in [Sessions -> Txs]
    BY <1>4, <2>1 DEF Types
  <2>3. QED BY <1>1, <1>4, <2>2 DEF Types, Txs, Others
<1>6. QED BY <1>2, <1>3, <1>5 DEF pc, written, left

-----------------------------------------------------------------------------
\* A statement: one transaction changes, and the table does not.
LEMMA OneTxChanges ==
  ASSUME IInv, NEW s \in Sessions, tx' \in [Sessions -> Txs], Others(s), UNCHANGED <<rows, swept>>,
         TxOK(tx[s])',
         \A u \in Sessions \ {s} : tx'[s].lock = "exclusive" => tx[u].lock = "none",
         \A u \in Sessions \ {s} : tx'[s].lock # "none" => tx[u].lock # "exclusive",
         \A k \in Keys : tx'[s].writes[k] # "none" =>
           rows[k] = Before(tx'[s].writes[k]) /\ ~WrittenByOther(s, k)
  PROVE  IInv'
<1>1. Types'
  BY DEF IInv, Types
<1>2. WritesOK'
  <2>1. ASSUME NEW u \in Sessions, NEW k \in Keys, tx'[u].writes[k] # "none"
        PROVE  rows'[k] = Before(tx'[u].writes[k])
    BY <2>1 DEF IInv, WritesOK, Others
  <2>2. ASSUME NEW u \in Sessions, NEW v \in Sessions, NEW k \in Keys,
               tx'[u].writes[k] # "none", tx'[v].writes[k] # "none"
        PROVE  u = v
    BY <2>2 DEF IInv, WritesOK, Others, WrittenByOther
  <2>3. QED BY <2>1, <2>2 DEF WritesOK
<1>3. LocksOK'
  BY DEF IInv, LocksOK, Others
<1>4. ASSUME NEW u \in Sessions
      PROVE  TxOK(tx[u])'
  <2>1. CASE u = s
    BY <2>1
  <2>2. CASE u # s
    <3>1. tx'[u] = tx[u] /\ TxOK(tx[u])
      BY <2>2 DEF IInv, Others
    <3>2. QED BY <3>1 DEF TxOK, PlanOK, Planning, Sweeping, AnyFailed, Wrote, Unwritten
  <2>3. QED BY <2>1, <2>2
<1>5. SweptOK'
  BY DEF IInv, SweptOK, AnyFailed
<1>6. QED BY <1>1, <1>2, <1>3, <1>4, <1>5 DEF IInv

\* Neither its lock nor its writes change.
LEMMA OnlyPcChanges ==
  ASSUME IInv, NEW s \in Sessions, tx' \in [Sessions -> Txs], Others(s), UNCHANGED <<rows, swept>>,
         TxOK(tx[s])', tx'[s].lock = tx[s].lock, tx'[s].writes = tx[s].writes
  PROVE  IInv'
<1>1. \A u \in Sessions \ {s} : tx'[s].lock = "exclusive" => tx[u].lock = "none"
  BY DEF IInv, LocksOK
<1>2. \A u \in Sessions \ {s} : tx'[s].lock # "none" => tx[u].lock # "exclusive"
  BY DEF IInv, LocksOK
<1>3. \A k \in Keys : tx'[s].writes[k] # "none" =>
        rows[k] = Before(tx'[s].writes[k]) /\ ~WrittenByOther(s, k)
  BY DEF IInv, WritesOK, WrittenByOther
<1>4. QED BY <1>1, <1>2, <1>3, OneTxChanges

\* It holds and has written nothing.
LEMMA FreshTx ==
  ASSUME IInv, NEW s \in Sessions, tx' \in [Sessions -> Txs], Others(s), UNCHANGED <<rows, swept>>,
         TxOK(tx[s])', tx'[s].lock = "none", Unwritten(tx'[s])
  PROVE  IInv'
BY OneTxChanges DEF Unwritten

LEMMA NoTxOK ==
  ASSUME NEW s \in Sessions, tx'[s] = NoTx
  PROVE  TxOK(tx[s])' /\ tx'[s].lock = "none" /\ Unwritten(tx'[s])
<1>1. NoTx.pc = "idle" /\ NoTx.lock = "none" /\ Unwritten(NoTx)
  BY DEF NoTx, NoWrites, Unwritten
<1>2. QED BY <1>1 DEF TxOK, Unwritten

LEMMA DoneKeeps ==
  ASSUME IInv, NEW s \in Sessions, Done(s), UNCHANGED <<rows, swept>>
  PROVE  IInv'
BY DoneTx, NoTxOK, FreshTx DEF IInv

LEMMA BeginKeeps ==
  ASSUME IInv, NEW s \in Sessions, NEW pc \in {"lockCreate", "lockClaim", "lockFail"},
         NEW todo \in Seq(Keys), NEW targets \in SUBSET Keys,
         Begin(s, pc, todo, targets), pc = "lockCreate" => todo \in Plans, UNCHANGED <<rows, swept>>
  PROVE  IInv'
<1>1. /\ tx' \in [Sessions -> Txs] /\ Others(s) /\ tx'[s].pc = pc
      /\ tx'[s].lock = "none" /\ tx'[s].todo = todo /\ Unwritten(tx'[s])
  BY BeginTx DEF IInv, Pcs
<1>2. TxOK(tx[s])'
  BY <1>1 DEF TxOK, Unwritten
<1>3. QED BY <1>1, <1>2, FreshTx

LEMMA LockSharedKeeps ==
  ASSUME IInv, NEW s \in Sessions, UNCHANGED <<rows, swept>>,
         LockShared(s, "lockCreate", "checkFailed") \/ LockShared(s, "lockClaim", "matchClaim")
  PROVE  IInv'
<1>1. PICK to \in {"checkFailed", "matchClaim"} :
        /\ tx' = [tx EXCEPT ![s].pc = to, ![s].lock = "share"]
        /\ tx[s].pc = IF to = "checkFailed" THEN "lockCreate" ELSE "lockClaim"
        /\ \A u \in Sessions \ {s} : tx[u].lock # "exclusive"
  BY DEF LockShared, At
<1>2. /\ tx' \in [Sessions -> Txs] /\ Others(s) /\ tx'[s].pc = to
      /\ tx'[s].lock = "share" /\ tx'[s].todo = tx[s].todo /\ tx'[s].writes = tx[s].writes
  BY <1>1, LockTx DEF IInv, Pcs
<1>3. Unwritten(tx[s]) /\ (to = "checkFailed" => tx[s].todo \in Plans)
  BY <1>1 DEF IInv, TxOK
<1>4. TxOK(tx[s])'
  BY <1>2, <1>3 DEF TxOK, Unwritten
<1>5. \A k \in Keys : tx'[s].writes[k] = "none"
  BY <1>2, <1>3 DEF Unwritten
<1>6. QED BY <1>1, <1>2, <1>4, <1>5, OneTxChanges

-----------------------------------------------------------------------------
\* createSteps.
LEMMA CheckFailedKeeps ==
  ASSUME IInv, NEW s \in Sessions, CheckFailed(s), UNCHANGED <<rows, swept>>
  PROVE  IInv'
<1>1. CASE AnyFailed
  BY <1>1, DoneKeeps DEF CheckFailed
<1>2. CASE ~AnyFailed
  <2>1. Goto(s, "insert") /\ tx[s].pc = "checkFailed"
    BY <1>2 DEF CheckFailed, At
  <2>2. /\ tx' \in [Sessions -> Txs] /\ Others(s) /\ tx'[s].pc = "insert"
        /\ tx'[s].lock = tx[s].lock /\ tx'[s].todo = tx[s].todo /\ tx'[s].writes = tx[s].writes
    BY <2>1, GotoTx DEF IInv, Pcs
  <2>3. Unwritten(tx[s]) /\ tx[s].lock = "share" /\ tx[s].todo \in Plans /\ tx[s].todo # <<>>
    BY <2>1, PlansAssumption DEF IInv, TxOK
  <2>4. Planning(tx[s], tx[s].todo)'
    BY <2>2, <2>3 DEF Planning, Unwritten
  <2>5. PlanOK(tx[s])'
    BY <1>2, <2>2, <2>3, <2>4 DEF PlanOK, AnyFailed
  <2>6. TxOK(tx[s])'
    BY <2>2, <2>3, <2>5 DEF TxOK
  <2>7. QED BY <2>2, <2>6, OnlyPcChanges
<1>3. QED BY <1>1, <1>2

\* One row less to insert.
LEMMA HeadAndTail ==
  ASSUME NEW q \in Seq(Keys), q # <<>>
  PROVE  Head(q) \in Elements(q) /\ Elements(q) = {Head(q)} \cup Elements(Tail(q))
<1>1. Head(q) = q[1] /\ 1 \in DOMAIN q /\ DOMAIN Tail(q) = 1..Len(q) - 1 /\ DOMAIN q = 1..Len(q)
      /\ Len(q) \in Nat
  OBVIOUS
<1>2. \A i \in 1..Len(q) - 1 : Tail(q)[i] = q[i + 1] /\ i + 1 \in 1..Len(q)
  OBVIOUS
<1>3. \A i \in 1..Len(q) : i # 1 => i - 1 \in 1..Len(q) - 1 /\ (i - 1) + 1 = i
  BY <1>1
<1>4. ASSUME NEW i \in DOMAIN q, i # 1
      PROVE  q[i] \in Elements(Tail(q))
  <2>1. i - 1 \in DOMAIN Tail(q) /\ i - 1 \in 1..Len(q) - 1 /\ (i - 1) + 1 = i
    BY <1>1, <1>3, <1>4
  <2>2. Tail(q)[i - 1] = q[i]
    BY <1>2, <2>1
  <2>3. QED BY <2>1, <2>2 DEF Elements
<1>5. Elements(Tail(q)) \subseteq Elements(q)
  BY <1>1, <1>2 DEF Elements
<1>6. QED BY <1>1, <1>4, <1>5 DEF Elements

LEMMA InsertKeeps ==
  ASSUME IInv, NEW s \in Sessions, InsertRow(s), UNCHANGED <<rows, swept>>
  PROVE  IInv'
<1> DEFINE k == Head(tx[s].todo)
<1>1. /\ tx[s].pc = "insert" /\ PlanOK(tx[s]) /\ tx[s].todo # <<>> /\ tx[s].todo \in Seq(Keys)
      /\ tx[s].writes \in [Keys -> Statuses]
  BY DEF IInv, TxOK, InsertRow, At, Types, Txs
<1>2. /\ k \in Keys /\ ~WrittenByOther(s, k)
      /\ tx' \in [Sessions -> Txs] /\ Others(s)
      /\ tx'[s].pc = IF Tail(tx[s].todo) = <<>> THEN "commit" ELSE "insert"
      /\ tx'[s].lock = tx[s].lock /\ tx'[s].todo = Tail(tx[s].todo)
      /\ tx'[s].writes = [tx[s].writes EXCEPT ![k] = IF rows[k] = "none" THEN "queued" ELSE tx[s].writes[k]]
  BY <1>1, InsertTx DEF IInv
<1>3. k \in Elements(tx[s].todo) /\ Elements(tx[s].todo) = {k} \cup Elements(tx'[s].todo)
  BY <1>1, <1>2, HeadAndTail
<1> HIDE DEF k
<1>4. PICK plan \in Plans : Planning(tx[s], plan)
  BY <1>1 DEF PlanOK
<1>5. \A j \in Keys :
        tx'[s].writes[j] = IF j = k /\ rows[k] = "none" THEN "queued" ELSE tx[s].writes[j]
  BY <1>1, <1>2
<1>6. Planning(tx[s], plan)'
  BY <1>3, <1>4, <1>5 DEF Planning
<1>7. PlanOK(tx[s])'
  BY <1>1, <1>2, <1>6 DEF PlanOK, AnyFailed
<1>8. TxOK(tx[s])'
  BY <1>2, <1>7 DEF TxOK
<1>9. \A j \in Keys : tx'[s].writes[j] # "none" =>
        rows[j] = Before(tx'[s].writes[j]) /\ ~WrittenByOther(s, j)
  BY <1>2, <1>5 DEF IInv, WritesOK, WrittenByOther, Before
<1>10. \A u \in Sessions \ {s} : tx'[s].lock = "exclusive" => tx[u].lock = "none"
  BY <1>2 DEF IInv, LocksOK
<1>11. \A u \in Sessions \ {s} : tx'[s].lock # "none" => tx[u].lock # "exclusive"
  BY <1>2 DEF IInv, LocksOK
<1>12. QED BY <1>2, <1>8, <1>9, <1>10, <1>11, OneTxChanges

-----------------------------------------------------------------------------
\* claimStep and failStep.
\* A session that has written nothing writes one row and is ready to commit.
LEMMA WriteKeeps ==
  ASSUME IInv, NEW s \in Sessions, Unwritten(tx[s]), NEW k \in Keys, ~WrittenByOther(s, k),
         NEW status \in {"running", "failed"}, rows[k] = Before(status),
         Write(s, "commit", k, status), UNCHANGED <<rows, swept>>,
         \/ status = "running" /\ tx[s].lock = "share" /\ ~AnyFailed
         \/ status = "failed" /\ tx[s].lock = "exclusive"
  PROVE  IInv'
<1>1. /\ tx' \in [Sessions -> Txs] /\ Others(s) /\ tx'[s].pc = "commit"
      /\ tx'[s].lock = tx[s].lock /\ tx'[s].writes = [tx[s].writes EXCEPT ![k] = status]
  <2>1. Types /\ "commit" \in Pcs /\ status \in Statuses
    BY DEF IInv, Pcs, Statuses
  <2>2. QED BY <2>1, WriteTx
<1>2. tx[s].writes \in [Keys -> Statuses]
  BY DEF IInv, Types, Txs
<1>3. tx'[s].writes[k] = status /\ \A j \in Keys \ {k} : tx'[s].writes[j] = "none"
  BY <1>1, <1>2 DEF Unwritten
<1>4. Wrote(tx[s], status)'
  BY <1>3 DEF Wrote
<1>5. TxOK(tx[s])'
  BY <1>1, <1>4 DEF TxOK, AnyFailed
<1>6. \A j \in Keys : tx'[s].writes[j] # "none" =>
        rows[j] = Before(tx'[s].writes[j]) /\ ~WrittenByOther(s, j)
  BY <1>3
<1>7. \A u \in Sessions \ {s} : tx'[s].lock = "exclusive" => tx[u].lock = "none"
  BY <1>1 DEF IInv, LocksOK
<1>8. \A u \in Sessions \ {s} : tx'[s].lock # "none" => tx[u].lock # "exclusive"
  BY <1>1 DEF IInv, LocksOK
<1>9. QED BY <1>1, <1>5, <1>6, <1>7, <1>8, OneTxChanges

LEMMA MatchClaimKeeps ==
  ASSUME IInv, NEW s \in Sessions, MatchClaim(s), UNCHANGED <<rows, swept>>
  PROVE  IInv'
<1>1. CASE Done(s)
  BY <1>1, DoneKeeps
<1>2. CASE ~AnyFailed /\ Goto(s, "claimRow")
  <2>1. Unwritten(tx[s]) /\ tx[s].lock = "share"
    BY DEF MatchClaim, At, IInv, TxOK
  <2>2. /\ tx' \in [Sessions -> Txs] /\ Others(s) /\ tx'[s].pc = "claimRow"
        /\ tx'[s].lock = tx[s].lock /\ tx'[s].writes = tx[s].writes
    BY <1>2, GotoTx DEF IInv, Pcs
  <2>3. TxOK(tx[s])'
    BY <1>2, <2>1, <2>2 DEF TxOK, Unwritten, AnyFailed
  <2>4. QED BY <2>2, <2>3, OnlyPcChanges
<1>3. QED BY <1>1, <1>2 DEF MatchClaim

LEMMA TargetsAreKeys ==
  ASSUME IInv, NEW s \in Sessions
  PROVE  tx[s].targets \subseteq Keys
BY DEF IInv, Types, Txs

LEMMA ClaimRowKeeps ==
  ASSUME IInv, NEW s \in Sessions, ClaimRow(s), UNCHANGED <<rows, swept>>
  PROVE  IInv'
<1>1. PICK k \in tx[s].targets :
        /\ ~WrittenByOther(s, k)
        /\ IF rows[k] = "queued" THEN Write(s, "commit", k, "running") ELSE Done(s)
  BY DEF ClaimRow
<1>2. k \in Keys
  BY TargetsAreKeys
<1>3. Unwritten(tx[s]) /\ tx[s].lock = "share" /\ ~AnyFailed
  BY DEF ClaimRow, At, IInv, TxOK
<1>4. CASE rows[k] = "queued"
  <2>1. rows[k] = Before("running")
    BY <1>4 DEF Before
  <2>2. QED BY <1>1, <1>2, <1>3, <1>4, <2>1, WriteKeeps
<1>5. CASE rows[k] # "queued"
  BY <1>1, <1>5, DoneKeeps
<1>6. QED BY <1>4, <1>5

LEMMA LockFailKeeps ==
  ASSUME IInv, NEW s \in Sessions, LockFail(s), UNCHANGED <<rows, swept>>
  PROVE  IInv'
<1>1. /\ tx' = [tx EXCEPT ![s].pc = "failRow", ![s].lock = "exclusive"]
      /\ tx[s].pc = "lockFail" /\ \A u \in Sessions \ {s} : tx[u].lock = "none"
  BY DEF LockFail, LockExclusive, At
<1>2. /\ tx' \in [Sessions -> Txs] /\ Others(s) /\ tx'[s].pc = "failRow"
      /\ tx'[s].lock = "exclusive" /\ tx'[s].writes = tx[s].writes
  BY <1>1, LockTx DEF IInv, Pcs
<1>3. Unwritten(tx[s])
  BY <1>1 DEF IInv, TxOK
<1>4. TxOK(tx[s])'
  BY <1>2, <1>3 DEF TxOK, Unwritten
<1>5. \A k \in Keys : tx'[s].writes[k] = "none"
  BY <1>2, <1>3 DEF Unwritten
<1>6. QED BY <1>1, <1>2, <1>4, <1>5, OneTxChanges

LEMMA FailRowKeeps ==
  ASSUME IInv, NEW s \in Sessions, FailRow(s), UNCHANGED <<rows, swept>>
  PROVE  IInv'
<1>1. PICK k \in tx[s].targets :
        /\ ~WrittenByOther(s, k)
        /\ IF rows[k] = "running" THEN Write(s, "commit", k, "failed") ELSE Done(s)
  BY DEF FailRow
<1>2. k \in Keys
  BY TargetsAreKeys
<1>3. Unwritten(tx[s]) /\ tx[s].lock = "exclusive"
  BY DEF FailRow, At, IInv, TxOK
<1>4. CASE rows[k] = "running"
  <2>1. rows[k] = Before("failed")
    BY <1>4 DEF Before
  <2>2. QED BY <1>1, <1>2, <1>3, <1>4, <2>1, WriteKeeps
<1>5. CASE rows[k] # "running"
  BY <1>1, <1>5, DoneKeeps
<1>6. QED BY <1>4, <1>5

-----------------------------------------------------------------------------
\* cancelQueuedSteps.
LEMMA BeginSweepKeeps ==
  ASSUME IInv, NEW s \in Sessions, BeginSweep(s), UNCHANGED <<rows, swept>>
  PROVE  IInv'
<1> DEFINE queued == {k \in Keys : rows[k] = "queued"}
           pc == IF queued = {} THEN "commitSweep" ELSE "sweep"
<1>1. AnyFailed /\ Begin(s, pc, <<>>, queued)
  BY DEF BeginSweep
<1>2. pc \in Pcs /\ <<>> \in Seq(Keys) /\ queued \in SUBSET Keys
  BY DEF Pcs
<1>3. \A k \in Keys : rows[k] = "queued" => k \in queued
  OBVIOUS
<1>4. pc \in {"sweep", "commitSweep"} /\ (pc = "commitSweep" => queued = {})
  OBVIOUS
<1> HIDE DEF queued, pc
<1>5. /\ tx' \in [Sessions -> Txs] /\ Others(s) /\ tx'[s].pc = pc
      /\ tx'[s].lock = "none" /\ tx'[s].targets = queued /\ Unwritten(tx'[s])
  BY <1>1, <1>2, BeginTx DEF IInv
<1>6. Sweeping(tx[s])'
  BY <1>1, <1>3, <1>5 DEF Sweeping, Unwritten, AnyFailed
<1>7. TxOK(tx[s])'
  BY <1>4, <1>5, <1>6 DEF TxOK
<1>8. QED BY <1>5, <1>7, FreshTx

LEMMA SweepRowKeeps ==
  ASSUME IInv, NEW s \in Sessions, SweepRow(s), UNCHANGED <<rows, swept>>
  PROVE  IInv'
<1>1. PICK k \in tx[s].targets :
        /\ k \in Keys /\ ~WrittenByOther(s, k)
        /\ tx' \in [Sessions -> Txs] /\ Others(s)
        /\ tx'[s].pc = IF tx[s].targets = {k} THEN "commitSweep" ELSE "sweep"
        /\ tx'[s].lock = tx[s].lock /\ tx'[s].targets = tx[s].targets \ {k}
        /\ tx'[s].writes = [tx[s].writes EXCEPT ![k] = IF rows[k] = "queued" THEN "cancelled" ELSE tx[s].writes[k]]
  BY SweepTx DEF IInv
<1>2. Sweeping(tx[s]) /\ tx[s].writes \in [Keys -> Statuses]
  BY DEF SweepRow, At, IInv, TxOK, Types, Txs
<1>3. \A j \in Keys :
        tx'[s].writes[j] = IF j = k /\ rows[k] = "queued" THEN "cancelled" ELSE tx[s].writes[j]
  BY <1>1, <1>2
<1>4. Sweeping(tx[s])'
  BY <1>1, <1>2, <1>3 DEF Sweeping, AnyFailed
<1>5. tx'[s].pc = "commitSweep" => tx'[s].targets = {}
  BY <1>1
<1>6. TxOK(tx[s])'
  BY <1>1, <1>4, <1>5 DEF TxOK
<1>7. \A j \in Keys : tx'[s].writes[j] # "none" =>
        rows[j] = Before(tx'[s].writes[j]) /\ ~WrittenByOther(s, j)
  BY <1>1, <1>3 DEF IInv, WritesOK, WrittenByOther, Before
<1>8. tx'[s].lock = "none"
  BY <1>1, <1>2 DEF Sweeping
<1>9. QED BY <1>1, <1>6, <1>7, <1>8, OneTxChanges

-----------------------------------------------------------------------------
\* Every statement.
LEMMA StatementKeeps ==
  ASSUME IInv, NEW s \in Sessions, Statement(s), UNCHANGED <<rows, swept>>
  PROVE  IInv'
<1>1. CASE BeginCreate(s)
  <2>1. PICK plan \in Plans : Begin(s, "lockCreate", plan, {})
    BY <1>1 DEF BeginCreate
  <2>2. plan \in Seq(Keys)
    BY PlansAssumption
  <2>3. QED BY <2>1, <2>2, BeginKeeps
<1>2. CASE BeginClaim(s)
  <2>1. PICK k \in Keys : Begin(s, "lockClaim", <<>>, {k})
    BY <1>2 DEF BeginClaim
  <2>2. <<>> \in Seq(Keys)
    OBVIOUS
  <2>3. QED BY <2>1, <2>2, BeginKeeps
<1>3. CASE BeginFail(s)
  <2>1. PICK k \in Keys : Begin(s, "lockFail", <<>>, {k})
    BY <1>3 DEF BeginFail
  <2>2. <<>> \in Seq(Keys)
    OBVIOUS
  <2>3. QED BY <2>1, <2>2, BeginKeeps
<1>4. CASE LockCreate(s) \/ LockClaim(s)
  BY <1>4, LockSharedKeeps DEF LockCreate, LockClaim
<1>5. CASE CheckFailed(s) \/ InsertRow(s)
  BY <1>5, CheckFailedKeeps, InsertKeeps
<1>6. CASE MatchClaim(s) \/ ClaimRow(s)
  BY <1>6, MatchClaimKeeps, ClaimRowKeeps
<1>7. CASE LockFail(s) \/ FailRow(s)
  BY <1>7, LockFailKeeps, FailRowKeeps
<1>8. CASE BeginSweep(s) \/ SweepRow(s)
  BY <1>8, BeginSweepKeeps, SweepRowKeeps
<1>9. QED BY <1>1, <1>2, <1>3, <1>4, <1>5, <1>6, <1>7, <1>8 DEF Statement

-----------------------------------------------------------------------------
\* What an operation of EngineStepTable may do to the rows: none goes away, a failure
\* stays, and behind one nothing is queued.
LEMMA TableStep ==
  ASSUME rows \in [Keys -> Statuses], Table!Next
  PROVE  /\ rows' \in [Keys -> Statuses]
         /\ \A k \in Keys : rows[k] # "none" => rows'[k] # "none"
         /\ AnyFailed => AnyFailed'
         /\ AnyFailed => \A k \in Keys : rows'[k] = "queued" => rows[k] = "queued"
<1>1. CASE Table!CreateSteps
  <2>1. PICK plan \in Plans :
          rows' = [k \in Keys |-> IF k \in Table!KeysOf(plan) /\ rows[k] = "none" THEN "queued" ELSE rows[k]]
    BY <1>1 DEF Table!CreateSteps
  <2>2. ~AnyFailed
    BY <1>1 DEF Table!CreateSteps, Table!AnyFailed, AnyFailed
  <2>3. QED BY <2>1, <2>2 DEF Statuses
<1>2. CASE Table!ClaimStep
  <2>1. ~AnyFailed
    BY <1>2 DEF Table!ClaimStep, Table!AnyFailed, AnyFailed
  <2>2. PICK k \in Keys : rows[k] = "queued" /\ rows' = [rows EXCEPT ![k] = "running"]
    BY <1>2 DEF Table!ClaimStep
  <2>3. QED BY <2>1, <2>2 DEF Statuses
<1>3. CASE Table!SettleStep
  <2>1. PICK k \in Keys, status \in {"completed", "failed"} :
          rows[k] = "running" /\ rows' = [rows EXCEPT ![k] = status]
    BY <1>3 DEF Table!SettleStep
  <2>2. \A j \in Keys : rows'[j] = IF j = k THEN status ELSE rows[j]
    BY <2>1
  <2>3. QED BY <2>1, <2>2 DEF Statuses, AnyFailed
<1>4. CASE Table!CancelQueuedSteps
  <2>1. rows' = [k \in Keys |-> IF rows[k] = "queued" THEN "cancelled" ELSE rows[k]]
    BY <1>4 DEF Table!CancelQueuedSteps
  <2>2. QED BY <2>1 DEF Statuses, AnyFailed
<1>5. QED BY <1>1, <1>2, <1>3, <1>4 DEF Table!Next

\* What commits is one operation of the table: a plan, whole.
LEMMA PlanLands ==
  ASSUME IInv, NEW s \in Sessions, PlanOK(tx[s]), tx[s].todo = <<>>, CommitWrites(s)
  PROVE  Table!CreateSteps
<1>1. PICK plan \in Plans : Planning(tx[s], plan)
  BY DEF PlanOK
<1>2. Elements(<<>>) = {} /\ Elements(plan) = Table!KeysOf(plan)
  BY DEF Elements, Table!KeysOf
<1>3. ASSUME NEW k \in Keys
      PROVE  (IF tx[s].writes[k] = "none" THEN rows[k] ELSE tx[s].writes[k])
               = IF k \in Table!KeysOf(plan) /\ rows[k] = "none" THEN "queued" ELSE rows[k]
  <2>1. CASE tx[s].writes[k] = "none"
    BY <1>1, <1>2, <2>1 DEF Planning
  <2>2. CASE tx[s].writes[k] = "queued"
    <3>1. rows[k] = "none"
      BY <2>2 DEF IInv, WritesOK, Before
    <3>2. QED BY <1>1, <1>2, <2>2, <3>1 DEF Planning
  <2>3. QED BY <1>1, <2>1, <2>2 DEF Planning
<1>4. rows' = [k \in Keys |-> IF k \in Table!KeysOf(plan) /\ rows[k] = "none" THEN "queued" ELSE rows[k]]
  BY <1>3 DEF CommitWrites
<1>5. QED BY <1>4 DEF Table!CreateSteps, PlanOK, AnyFailed, Table!AnyFailed

\* Or one row.
LEMMA OneRowLands ==
  ASSUME IInv, NEW s \in Sessions, NEW status \in {"running", "failed"}, Wrote(tx[s], status),
         CommitWrites(s)
  PROVE  \E k \in Keys : rows[k] = Before(status) /\ rows' = [rows EXCEPT ![k] = status]
<1>1. PICK k \in Keys : tx[s].writes[k] = status /\ \A j \in Keys \ {k} : tx[s].writes[j] = "none"
  BY DEF Wrote
<1>2. rows[k] = Before(status)
  BY <1>1 DEF IInv, WritesOK
<1>3. rows \in [Keys -> Statuses]
  BY DEF IInv, Types
<1>4. rows' = [j \in Keys |-> IF j = k THEN status ELSE rows[j]]
  BY <1>1 DEF CommitWrites
<1>5. rows' = [rows EXCEPT ![k] = status]
  BY <1>3, <1>4
<1>6. QED BY <1>2, <1>5

LEMMA CommitLands ==
  ASSUME IInv, NEW s \in Sessions, Commit(s)
  PROVE  /\ Table!CreateSteps \/ Table!ClaimStep \/ Table!SettleStep
         /\ ~AnyFailed /\ tx[s].lock # "exclusive" => ~AnyFailed'
<1>1. CommitWrites(s) /\ tx[s].pc = "commit" /\ rows \in [Keys -> Statuses]
  BY DEF Commit, At, IInv, Types
<1>2. CASE PlanOK(tx[s]) /\ tx[s].todo = <<>>
  <2>1. Table!CreateSteps
    BY <1>1, <1>2, PlanLands
  <2>2. \A k \in Keys : rows'[k] = "failed" => rows[k] = "failed"
    BY <2>1 DEF Table!CreateSteps
  <2>3. QED BY <2>1, <2>2 DEF AnyFailed
<1>3. CASE tx[s].lock = "share" /\ ~AnyFailed /\ Wrote(tx[s], "running")
  <2>1. PICK k \in Keys : rows[k] = Before("running") /\ rows' = [rows EXCEPT ![k] = "running"]
    BY <1>1, <1>3, OneRowLands
  <2>2. rows[k] = "queued"
    BY <2>1 DEF Before
  <2>3. Table!ClaimStep
    BY <1>3, <2>1, <2>2 DEF Table!ClaimStep, AnyFailed, Table!AnyFailed
  <2>4. ~AnyFailed'
    BY <1>1, <1>3, <2>1 DEF AnyFailed
  <2>5. QED BY <2>3, <2>4
<1>4. CASE tx[s].lock = "exclusive" /\ Wrote(tx[s], "failed")
  <2>1. PICK k \in Keys : rows[k] = Before("failed") /\ rows' = [rows EXCEPT ![k] = "failed"]
    BY <1>1, <1>4, OneRowLands
  <2>2. rows[k] = "running"
    BY <2>1 DEF Before
  <2>3. QED BY <1>4, <2>1, <2>2 DEF Table!SettleStep
<1>5. QED BY <1>1, <1>2, <1>3, <1>4 DEF IInv, TxOK

LEMMA SweepLands ==
  ASSUME IInv, NEW s \in Sessions, CommitSweep(s)
  PROVE  AnyFailed /\ Table!CancelQueuedSteps
<1>1. CommitWrites(s) /\ Sweeping(tx[s]) /\ tx[s].targets = {}
  BY DEF CommitSweep, At, IInv, TxOK
<1>2. ASSUME NEW k \in Keys
      PROVE  (IF tx[s].writes[k] = "none" THEN rows[k] ELSE tx[s].writes[k])
               = IF rows[k] = "queued" THEN "cancelled" ELSE rows[k]
  <2>1. CASE tx[s].writes[k] = "none"
    BY <1>1, <2>1 DEF Sweeping
  <2>2. CASE tx[s].writes[k] = "cancelled"
    BY <2>2 DEF IInv, WritesOK, Before
  <2>3. QED BY <1>1, <2>1, <2>2 DEF Sweeping
<1>3. rows' = [k \in Keys |-> IF rows[k] = "queued" THEN "cancelled" ELSE rows[k]]
  BY <1>1, <1>2 DEF CommitWrites
<1>4. QED BY <1>1, <1>3 DEF Table!CancelQueuedSteps, Sweeping, AnyFailed, Table!AnyFailed

LEMMA CompletionLands ==
  ASSUME IInv, NEW s \in Sessions, CompleteStep(s)
  PROVE  /\ Table!SettleStep /\ (~AnyFailed => ~AnyFailed')
         /\ \A u \in Sessions, k \in Keys : tx[u].writes[k] # "none" => rows'[k] = rows[k]
<1>1. PICK k \in Keys :
        rows[k] = "running" /\ ~WrittenByOther(s, k) /\ rows' = [rows EXCEPT ![k] = "completed"]
  BY DEF CompleteStep
<1>2. rows \in [Keys -> Statuses] /\ Unwritten(tx[s])
  BY DEF CompleteStep, At, IInv, Types, TxOK
<1>3. \A j \in Keys : rows'[j] = IF j = k THEN "completed" ELSE rows[j]
  BY <1>1, <1>2
<1>4. Table!SettleStep
  BY <1>1 DEF Table!SettleStep
<1>5. ~AnyFailed => ~AnyFailed'
  BY <1>3 DEF AnyFailed
<1>6. \A u \in Sessions : tx[u].writes[k] = "none"
  BY <1>1, <1>2 DEF WrittenByOther, Unwritten
<1>7. \A u \in Sessions, j \in Keys : tx[u].writes[j] # "none" => rows'[j] = rows[j]
  BY <1>3, <1>6
<1>8. QED BY <1>4, <1>5, <1>7

\* The rows change under the transactions of the other sessions.
LEMMA RowsChange ==
  ASSUME IInv, NEW s \in Sessions, tx' \in [Sessions -> Txs], Others(s), Table!Next,
         \A u \in Sessions \ {s}, k \in Keys : tx[u].writes[k] # "none" => rows'[k] = rows[k],
         \A u \in Sessions \ {s} : tx[u].lock = "share" /\ ~AnyFailed => ~AnyFailed',
         TxOK(tx[s])', tx'[s].lock = "none", Unwritten(tx'[s]),
         SweptOK', swept' \in BOOLEAN
  PROVE  IInv'
<1>1. /\ rows' \in [Keys -> Statuses]
      /\ \A k \in Keys : rows[k] # "none" => rows'[k] # "none"
      /\ AnyFailed => AnyFailed'
      /\ AnyFailed => \A k \in Keys : rows'[k] = "queued" => rows[k] = "queued"
  BY TableStep DEF IInv, Types
<1>2. Types'
  BY <1>1 DEF Types
<1>3. WritesOK'
  <2>1. ASSUME NEW u \in Sessions, NEW k \in Keys, tx'[u].writes[k] # "none"
        PROVE  rows'[k] = Before(tx'[u].writes[k])
    BY <2>1 DEF IInv, WritesOK, Others, Unwritten
  <2>2. ASSUME NEW u \in Sessions, NEW v \in Sessions, NEW k \in Keys,
               tx'[u].writes[k] # "none", tx'[v].writes[k] # "none"
        PROVE  u = v
    BY <2>2 DEF IInv, WritesOK, Others, Unwritten
  <2>3. QED BY <2>1, <2>2 DEF WritesOK
<1>4. LocksOK'
  BY DEF IInv, LocksOK, Others
<1>5. ASSUME NEW u \in Sessions \ {s}
      PROVE  TxOK(tx[u])'
  <2>1. tx'[u] = tx[u] /\ TxOK(tx[u]) /\ (tx[u].lock = "share" /\ ~AnyFailed => ~AnyFailed')
    BY DEF IInv, Others
  <2>2. PlanOK(tx[u]) => PlanOK(tx[u])'
    BY <1>1, <2>1 DEF PlanOK, Planning
  <2>3. Sweeping(tx[u]) => Sweeping(tx[u])'
    BY <1>1, <2>1 DEF Sweeping
  <2>4. \A status : Wrote(tx[u], status) <=> Wrote(tx[u], status)'
    BY <2>1 DEF Wrote
  <2>5. Unwritten(tx[u]) <=> Unwritten(tx[u])'
    BY <2>1 DEF Unwritten
  <2>6. QED BY <2>1, <2>2, <2>3, <2>4, <2>5 DEF TxOK
<1>6. QED BY <1>2, <1>3, <1>4, <1>5 DEF IInv

\* A sweep that has committed stays right.
LEMMA SweptStays ==
  ASSUME IInv, Table!Next, swept' = swept
  PROVE  SweptOK' /\ swept' \in BOOLEAN
BY TableStep DEF IInv, Types, SweptOK

LEMMA CommitKeeps ==
  ASSUME IInv, NEW s \in Sessions, Commit(s)
  PROVE  IInv'
<1>1. tx' \in [Sessions -> Txs] /\ Others(s) /\ tx'[s] = NoTx
  BY DoneTx DEF IInv, Commit, CommitWrites
<1>2. Table!Next
  BY CommitLands DEF Table!Next
<1>3. \A u \in Sessions \ {s}, k \in Keys : tx[u].writes[k] # "none" => rows'[k] = rows[k]
  BY DEF Commit, CommitWrites, IInv, WritesOK
<1>4. \A u \in Sessions \ {s} : tx[u].lock = "share" /\ ~AnyFailed => ~AnyFailed'
  <2>1. \A u \in Sessions \ {s} : tx[u].lock = "share" => tx[s].lock # "exclusive"
    BY DEF IInv, LocksOK
  <2>2. QED BY <2>1, CommitLands
<1>5. SweptOK' /\ swept' \in BOOLEAN
  BY <1>2, SweptStays DEF Commit
<1>6. TxOK(tx[s])' /\ tx'[s].lock = "none" /\ Unwritten(tx'[s])
  BY <1>1, NoTxOK
<1>7. QED BY <1>1, <1>2, <1>3, <1>4, <1>5, <1>6, RowsChange

LEMMA CommitSweepKeeps ==
  ASSUME IInv, NEW s \in Sessions, CommitSweep(s)
  PROVE  IInv'
<1>1. tx' \in [Sessions -> Txs] /\ Others(s) /\ tx'[s] = NoTx
  BY DoneTx DEF IInv, CommitSweep, CommitWrites
<1>2. AnyFailed /\ Table!CancelQueuedSteps /\ Table!Next
  BY SweepLands DEF Table!Next
<1>3. \A u \in Sessions \ {s}, k \in Keys : tx[u].writes[k] # "none" => rows'[k] = rows[k]
  BY DEF CommitSweep, CommitWrites, IInv, WritesOK
<1>4. SweptOK' /\ swept' \in BOOLEAN
  <2>1. AnyFailed'
    BY <1>2, TableStep DEF IInv, Types
  <2>2. \A k \in Keys : rows'[k] # "queued"
    BY <1>2 DEF Table!CancelQueuedSteps
  <2>3. QED BY <2>1, <2>2 DEF SweptOK, CommitSweep
<1>5. TxOK(tx[s])' /\ tx'[s].lock = "none" /\ Unwritten(tx'[s])
  BY <1>1, NoTxOK
<1>6. QED BY <1>1, <1>2, <1>3, <1>4, <1>5, RowsChange

LEMMA CompleteKeeps ==
  ASSUME IInv, NEW s \in Sessions, CompleteStep(s)
  PROVE  IInv'
<1>1. tx' = tx /\ swept' = swept /\ tx[s].pc = "idle"
  BY DEF CompleteStep, At
<1>2. Table!Next
  BY CompletionLands DEF Table!Next
<1>3. tx' \in [Sessions -> Txs] /\ Others(s)
  BY <1>1 DEF IInv, Types, Others
<1>4. Unwritten(tx[s]) /\ tx[s].lock = "none"
  BY <1>1 DEF IInv, TxOK
<1>5. Unwritten(tx'[s]) /\ tx'[s].lock = "none"
  BY <1>1, <1>4 DEF Unwritten
<1>6. TxOK(tx[s])'
  BY <1>1, <1>4 DEF TxOK, Unwritten
<1>7. SweptOK' /\ swept' \in BOOLEAN
  BY <1>1, <1>2, SweptStays
<1>8. QED BY <1>2, <1>3, <1>5, <1>6, <1>7, CompletionLands, RowsChange

LEMMA NextInv ==
  ASSUME IInv, [Next]_vars
  PROVE  IInv'
<1>1. ASSUME NEW s \in Sessions, Statement(s), UNCHANGED <<rows, swept>>
      PROVE  IInv'
  BY <1>1, StatementKeeps
<1>2. ASSUME NEW s \in Sessions, CompleteStep(s) \/ Commit(s) \/ CommitSweep(s)
      PROVE  IInv'
  BY <1>2, CompleteKeeps, CommitKeeps, CommitSweepKeeps
<1>3. ASSUME NEW s \in Sessions, Abort(s)
      PROVE  IInv'
  BY <1>3, DoneKeeps DEF Abort
<1>4. CASE UNCHANGED vars
  BY <1>4 DEF vars, IInv, Types, WritesOK, LocksOK, SweptOK, TxOK, PlanOK, Planning, Sweeping,
     AnyFailed, Wrote, Unwritten
<1>5. QED BY <1>1, <1>2, <1>3, <1>4 DEF Next

-----------------------------------------------------------------------------
\* The invariant, in every reachable state.
THEOREM InvHolds == Spec => []IInv
BY InitInv, NextInv, PTL DEF Spec

\* cancelQueuedSteps: once a sweep behind a failure has committed, no row is queued, for
\* no planner or claim that had passed its check before the failure can still commit.
THEOREM NothingQueuedBehindSweep == Spec => []SweepLeavesNothing
<1>1. IInv => SweepLeavesNothing
  BY DEF IInv, SweptOK, SweepLeavesNothing
<1>2. QED BY <1>1, InvHolds, PTL

\* createSteps, claimStep, failStep, completeStep and cancelQueuedSteps, statement by
\* statement over row locks and statement snapshots, implement operations that happen at
\* once: whatever they overlap with, and whichever transaction is aborted.
THEOREM StoreImplementsTable == Spec => ImplementsStepTable
<1>1. Init => Table!Init
  BY DEF Init, Table!Init
<1>2. IInv /\ [Next]_vars => [Table!Next]_rows
  <2> SUFFICES ASSUME IInv, [Next]_vars
               PROVE  Table!Next \/ rows' = rows
    OBVIOUS
  <2>1. CASE \E s \in Sessions : Commit(s)
    BY <2>1, CommitLands DEF Table!Next
  <2>2. CASE \E s \in Sessions : CommitSweep(s)
    BY <2>2, SweepLands DEF Table!Next
  <2>3. CASE \E s \in Sessions : CompleteStep(s)
    BY <2>3, CompletionLands DEF Table!Next
  <2>4. CASE UNCHANGED rows
    BY <2>4
  <2>5. QED BY <2>1, <2>2, <2>3, <2>4 DEF Next, Abort, vars
<1>3. QED BY <1>1, <1>2, InvHolds, PTL DEF Spec, ImplementsStepTable, Table!Spec
=============================================================================
