--------------------------- MODULE LeaderElection ---------------------------
(***************************************************************************)
(* Several mains elect a leader over one Redis key with a time to live     *)
(* (packages/cli/src/scaling/multi-main-setup.ee.ts and                    *)
(* leader-election-client.ts).                                             *)
(*                                                                         *)
(* A command to Redis is sent, executed and answered in steps of its own.  *)
(* It may fail for its caller, timed out or cut off, and be executed all   *)
(* the same, or later, in the order of its connection.  A main that starts *)
(* again has a new connection.  A tick is one check interval: without      *)
(* faults each main completes one check per tick.                          *)
(***************************************************************************)
EXTENDS Naturals, FiniteSets

CONSTANTS
  Hosts,      \* the mains, each with its host id
  Ttl,        \* the key's time to live, in whole check intervals
  MaxFaults   \* bound: failed commands, late checks and commands, crashes and shutdowns in all

Nobody == "nobody"

ASSUME ElectionAssumption ==
  Ttl \in Nat \ {0} /\ MaxFaults \in Nat /\ Nobody \notin Hosts

VARIABLES
  key,      \* the host id stored under the leader key
  ttl,      \* the ticks the key has left
  leader,   \* each main's isLeader
  pc,       \* each main: "off", "idle", or the command it waits for
  reply,    \* the answer to that command, once executed
  late,     \* a command on its way that the main does not wait for any more, or only
            \* in the check that its shutdown has found under way
  orphans,  \* the mains that have started again since they sent that command
  due,      \* whether the check interval has fired and the check not begun
  asked,    \* ticks a lease granted by the command under way would have left, at least
  sure,     \* ticks the last lease confirmed to this main has left, at least
  robbed,   \* history: whether a main has cleared the key of another
  faults    \* faults so far

redis == <<key, ttl>>
lease == <<asked, sure>>
vars == <<redis, leader, pc, reply, late, orphans, due, lease, robbed, faults>>

Claims == {"init", "claim", "reclaim"}
Commands == Claims \cup {"renew", "look", "clear"}
LateCommands == Commands \cup {"checking", "reclaiming"}

Init ==
  /\ key = Nobody /\ ttl = 0
  /\ leader = [h \in Hosts |-> FALSE]
  /\ pc = [h \in Hosts |-> "off"]
  /\ reply = [h \in Hosts |-> "none"]
  /\ late = [h \in Hosts |-> "none"]
  /\ orphans = {} /\ due = [h \in Hosts |-> FALSE]
  /\ asked = [h \in Hosts |-> 0] /\ sure = [h \in Hosts |-> 0]
  /\ robbed = FALSE /\ faults = 0

Fault == faults < MaxFaults /\ faults' = faults + 1
Set(f, h, x) == [f EXCEPT ![h] = x]

-----------------------------------------------------------------------------
(***************************************************************************)
(* LeaderElectionClient: what Redis does with a command of h.              *)
(***************************************************************************)
\* Mutated: SET without NX.
SetLeader(h) == key' = h /\ ttl' = Ttl

SetLeaderIfNotExists(h) == IF key = Nobody THEN key' = h /\ ttl' = Ttl ELSE UNCHANGED redis

TryRenewLeaderTtl(h) == IF key = h THEN ttl' = Ttl /\ UNCHANGED key ELSE UNCHANGED redis

ClearLeader == key' = Nobody /\ ttl' = 0

Effect(h, command) ==
  /\ CASE command \in Claims \cup {"reclaiming"} -> SetLeaderIfNotExists(h)
       [] command \in {"renew", "checking"} -> TryRenewLeaderTtl(h)
       [] command = "clear" -> ClearLeader
       [] OTHER -> UNCHANGED redis
  /\ robbed' = (robbed \/ (command = "clear" /\ key # Nobody /\ ~(key = h /\ pc[h] \in {"clear", "off"})))

\* What it answers.
Answer(h, command) ==
  CASE command \in Claims -> IF key = Nobody THEN "yes" ELSE "no"
    [] command = "clear" -> "yes"
    [] OTHER -> CASE key = h -> "mine" [] key = Nobody -> "missing" [] OTHER -> "other"

\* Commands of one connection are executed in order.
Execute(h) ==
  /\ pc[h] \in Commands /\ reply[h] = "none"
  /\ late[h] \in {"none", "reclaiming"} \/ h \in orphans
  /\ Effect(h, pc[h])
  /\ reply' = Set(reply, h, Answer(h, pc[h]))
  /\ UNCHANGED <<leader, pc, late, orphans, due, lease, faults>>

\* The check that a shutdown has found under way goes on while the main waits for its
\* last command, and claims a key that is missing, behind that command.
Following(h) ==
  IF late[h] = "checking" /\ key = Nobody /\ pc[h] = "clear" THEN "reclaiming" ELSE "none"

\* A late command is executed after all, or never.
ResolveLate(h) ==
  /\ late[h] # "none" /\ (late[h] = "reclaiming" /\ pc[h] = "clear" => reply[h] # "none")
  /\ \/ Effect(h, late[h]) /\ late' = Set(late, h, Following(h))
     \/ UNCHANGED <<redis, robbed>> /\ late' = Set(late, h, "none")
  /\ orphans' = orphans \ {h}
  /\ UNCHANGED <<leader, pc, reply, due, lease, faults>>

\* What the main does not wait for any more may be executed later: one command at most,
\* of two the second is lost.  A read is over with its answer.
Leave(h, command) ==
  /\ reply' = Set(reply, h, "none")
  /\ late' = IF late[h] = "none" THEN Set(late, h, command) ELSE late

Forget(h) == Leave(h, IF pc[h] \in Commands \ {"look"} /\ reply[h] = "none" THEN pc[h] ELSE "none")

-----------------------------------------------------------------------------
(***************************************************************************)
(* MultiMainSetup.                                                         *)
(***************************************************************************)
\* A call whose answer may begin or extend a lease.
Send(h, command) ==
  /\ pc' = Set(pc, h, command)
  /\ asked' = Set(asked, h, IF command \in Claims \cup {"renew"} THEN Ttl ELSE 0)

Rest(h) == pc' = Set(pc, h, "idle") /\ asked' = Set(asked, h, 0)

Confirmed(h) == sure' = Set(sure, h, asked[h])
TakeOver(h) == leader' = Set(leader, h, TRUE)
StepDown(h) == leader' = Set(leader, h, FALSE)

\* init
Start(h) ==
  /\ pc[h] = "off"
  /\ Send(h, "init")
  /\ orphans' = IF late[h] = "none" THEN orphans ELSE orphans \cup {h}
  /\ UNCHANGED <<redis, leader, reply, late, due, sure, robbed, faults>>

\* checkLeader
Check(h) ==
  /\ pc[h] = "idle" /\ due[h]
  /\ due' = Set(due, h, FALSE)
  /\ Send(h, IF leader[h] THEN "renew" ELSE "look")
  /\ UNCHANGED <<redis, leader, reply, late, orphans, sure, robbed, faults>>

\* Mutated: a leader that learns of another one stays leader.
OnRenewedOrNot(h, answer) ==
  \/ answer = "mine" /\ Rest(h) /\ Confirmed(h) /\ UNCHANGED leader
  \/ answer = "other" /\ Rest(h) /\ UNCHANGED <<leader, sure>>
  \/ answer = "missing" /\ Send(h, "reclaim") /\ UNCHANGED <<leader, sure>>
  \/ answer = "failed" /\ Rest(h) /\ UNCHANGED <<leader, sure>>

\* Mutated: a leader that cannot renew steps down.
OnRenewedOrFailed(h, answer) ==
  \/ answer = "mine" /\ Rest(h) /\ Confirmed(h) /\ UNCHANGED leader
  \/ answer \in {"other", "failed"} /\ Rest(h) /\ StepDown(h) /\ UNCHANGED sure
  \/ answer = "missing" /\ Send(h, "reclaim") /\ UNCHANGED <<leader, sure>>

\* checkAreWeStillLeader: a renewal that fails changes nothing.
OnRenewed(h, answer) ==
  \/ answer = "mine" /\ Rest(h) /\ Confirmed(h) /\ UNCHANGED leader
  \/ answer = "other" /\ Rest(h) /\ StepDown(h) /\ UNCHANGED sure
  \/ answer = "missing" /\ Send(h, "reclaim") /\ UNCHANGED <<leader, sure>>
  \/ answer = "failed" /\ Rest(h) /\ UNCHANGED <<leader, sure>>

\* Its second half: the key is gone.
OnReclaimed(h, answer) ==
  /\ Rest(h)
  /\ IF answer = "yes" THEN Confirmed(h) /\ UNCHANGED leader ELSE StepDown(h) /\ UNCHANGED sure

\* checkCanBecomeLeader: the key may name this main although it does not lead.
OnLooked(h, answer) ==
  \/ answer = "mine" /\ Rest(h) /\ TakeOver(h) /\ UNCHANGED sure
  \/ answer = "missing" /\ Send(h, "claim") /\ UNCHANGED <<leader, sure>>
  \/ answer \in {"other", "failed"} /\ Rest(h) /\ UNCHANGED <<leader, sure>>

\* Its second half, and init.
OnClaimed(h, answer) ==
  /\ Rest(h)
  /\ IF answer = "yes" THEN TakeOver(h) /\ Confirmed(h) ELSE UNCHANGED <<leader, sure>>

\* The process is gone.
Off(h) ==
  /\ pc' = Set(pc, h, "off") /\ leader' = Set(leader, h, FALSE)
  /\ asked' = Set(asked, h, 0) /\ sure' = Set(sure, h, 0)

Handle(h, answer) ==
  CASE pc[h] = "renew" -> OnRenewed(h, answer)
    [] pc[h] = "reclaim" -> OnReclaimed(h, answer)
    [] pc[h] = "look" -> OnLooked(h, answer)
    [] pc[h] = "clear" -> Off(h)
    [] OTHER -> OnClaimed(h, answer)

Respond(h) ==
  /\ reply[h] # "none"
  /\ Handle(h, reply[h]) /\ reply' = Set(reply, h, "none")
  /\ UNCHANGED <<redis, late, orphans, due, robbed, faults>>

Fail(h) ==
  /\ pc[h] \in Commands /\ Fault
  /\ Handle(h, "failed") /\ Forget(h)
  /\ UNCHANGED <<redis, orphans, due, robbed>>

\* What is still to come of the check under way.
GoesOn(h) ==
  CASE pc[h] = "renew" /\ reply[h] = "none" -> "checking"
    [] pc[h] = "renew" /\ reply[h] = "missing" -> "reclaiming"
    [] pc[h] = "reclaim" /\ reply[h] = "none" -> "reclaim"
    [] OTHER -> "none"

\* shutdown: no check begins any more.  A leader clears the key, whoever holds it, and
\* the check under way goes on meanwhile; any other main is cut off from Redis at once.
Shutdown(h) ==
  /\ pc[h] \notin {"off", "clear"} /\ Fault
  /\ due' = Set(due, h, FALSE)
  /\ \/ /\ leader[h] /\ Leave(h, GoesOn(h))
        /\ Send(h, "clear") /\ sure' = Set(sure, h, 0) /\ UNCHANGED leader
     \/ ~leader[h] /\ Forget(h) /\ Off(h)
  /\ UNCHANGED <<redis, orphans, robbed>>

Crash(h) ==
  /\ pc[h] # "off" /\ Fault
  /\ Forget(h) /\ Off(h) /\ due' = Set(due, h, FALSE)
  /\ UNCHANGED <<redis, orphans, robbed>>

-----------------------------------------------------------------------------
Less(n) == IF n = 0 THEN 0 ELSE n - 1

\* An interval passes and the next check falls due, skipped by a main that is still at
\* the last one.  A check that takes longer is a fault, and so is a command that outlives
\* the start of the next process of its main by an interval.
Tick ==
  /\ \/ /\ \A h \in Hosts : pc[h] = "off" \/ (pc[h] = "idle" /\ ~due[h])
        /\ orphans = {} /\ UNCHANGED faults
     \/ Fault
  /\ ttl' = Less(ttl) /\ key' = IF ttl' = 0 THEN Nobody ELSE key
  /\ asked' = [h \in Hosts |-> Less(asked[h])]
  /\ sure' = [h \in Hosts |-> Less(sure[h])]
  /\ due' = [h \in Hosts |-> pc[h] = "idle"]
  /\ UNCHANGED <<leader, pc, reply, late, orphans, robbed>>

Next ==
  \/ \E h \in Hosts : \/ Start(h) \/ Check(h) \/ Execute(h) \/ Respond(h) \/ ResolveLate(h)
                      \/ Fail(h) \/ Shutdown(h) \/ Crash(h)
  \/ Tick

\* Time passes, Redis answers and the mains' loops go on; nobody has to start a main.
Fairness ==
  /\ WF_vars(Tick)
  /\ \A h \in Hosts :
       WF_vars(Check(h)) /\ WF_vars(Execute(h)) /\ WF_vars(Respond(h)) /\ WF_vars(ResolveLate(h))

Spec == Init /\ [][Next]_vars /\ Fairness

-----------------------------------------------------------------------------
\* Type correctness.
TypeOK ==
  /\ key \in Hosts \cup {Nobody} /\ ttl \in 0..Ttl /\ (key = Nobody <=> ttl = 0)
  /\ leader \in [Hosts -> BOOLEAN] /\ due \in [Hosts -> BOOLEAN]
  /\ pc \in [Hosts -> Commands \cup {"off", "idle"}]
  /\ reply \in [Hosts -> {"none", "yes", "no", "mine", "missing", "other"}]
  /\ late \in [Hosts -> LateCommands \cup {"none"}] /\ orphans \subseteq Hosts
  /\ asked \in [Hosts -> 0..Ttl] /\ sure \in [Hosts -> 0..Ttl]
  /\ robbed \in BOOLEAN /\ faults \in 0..MaxFaults

\* A main whose lease was confirmed less than the key's time to live ago holds the key,
\* whatever failed, came late or crashed; so two mains may take themselves for the
\* leader, but only one has a lease it can know of.  (A main that shuts down clears the
\* key whoever has it by then, the next leader or itself restarted: the TODO in
\* shutdown().)
LeaseHoldsKey == ~robbed => \A h \in Hosts : sure[h] > 0 => key = h

\* A main with such a lease is not deposed, by a renewal that fails or otherwise.
LeaseIsKept ==
  [][\A h \in Hosts :
       ~robbed /\ leader[h] /\ sure[h] > 0 /\ ~leader'[h] => pc'[h] = "off"]_vars

\* "eventually the system will recover once Redis is available again": when the faults
\* end and some main is up, exactly one main leads and holds the key for good.
Recovers ==
  \/ <>[](\A h \in Hosts : pc[h] = "off")
  \/ <>[](\E h \in Hosts : key = h /\ \A g \in Hosts : leader[g] = (g = h))
=============================================================================
