------------------------ MODULE LeaderElectionProofs ------------------------
(***************************************************************************)
(* Proofs about LeaderElection, for any number of mains, any time to live  *)
(* and any number of faults: a main whose lease was confirmed less than    *)
(* the time to live ago holds the key, and is not deposed.                 *)
(***************************************************************************)
EXTENDS LeaderElection, TLAPS

\* An answer that is on its way back grants a lease.
Granting(h) ==
  \/ pc[h] \in Claims /\ reply[h] = "yes"
  \/ pc[h] = "renew" /\ reply[h] = "mine"

\* Only a main that waits for a command has an answer coming.
AnswersOK == \A h \in Hosts : reply[h] # "none" => pc[h] \in Commands

\* A lease, confirmed or granted, lasts no longer than the key that stands for it.
LeasesOK ==
  \A h \in Hosts : /\ sure[h] > 0 => key = h /\ sure[h] <= ttl
                   /\ asked[h] > 0 /\ Granting(h) => key = h /\ asked[h] <= ttl

\* A main that is down, clears the key, has learnt that it lost it, or tries to get it
\* back has no lease.
NoLease ==
  \A h \in Hosts :
    \/ pc[h] \in {"off", "clear", "reclaim"}
    \/ pc[h] = "renew" /\ reply[h] \in {"other", "missing"}
    => sure[h] = 0

\* What survives as long as no main has cleared the key of another.
IInv == TypeOK /\ AnswersOK /\ (~robbed => LeasesOK /\ NoLease)

\* The election starts without leases.
LEMMA InitInv == Init => IInv
<1> SUFFICES ASSUME Init PROVE IInv
  OBVIOUS
<1>1. TypeOK
  <2>1. ttl \in 0..Ttl /\ faults \in 0..MaxFaults /\ 0 \in 0..Ttl
    BY ElectionAssumption DEF Init
  <2>2. asked \in [Hosts -> 0..Ttl] /\ sure \in [Hosts -> 0..Ttl]
    BY <2>1 DEF Init
  <2>3. QED BY <2>1, <2>2 DEF Init, TypeOK, Commands
<1>2. AnswersOK
  BY DEF Init, AnswersOK
<1>3. LeasesOK
  BY DEF Init, LeasesOK
<1>4. NoLease
  BY DEF Init, NoLease
<1>5. QED BY <1>1, <1>2, <1>3, <1>4 DEF IInv

\* A command that Redis executes leaves every lease its key, unless it clears the key of
\* another main, or a late one that of its own main started again.
LEMMA EffectKeepsLeases ==
  ASSUME TypeOK, NEW h \in Hosts, NEW command \in LateCommands, Effect(h, command),
         ~robbed', LeasesOK, NoLease
  PROVE  \A g \in Hosts : /\ sure[g] > 0 => key' = g /\ sure[g] <= ttl'
                          /\ asked[g] > 0 /\ Granting(g) => key' = g /\ asked[g] <= ttl'
<1> SUFFICES ASSUME NEW g \in Hosts
             PROVE  /\ sure[g] > 0 => key' = g /\ sure[g] <= ttl'
                    /\ asked[g] > 0 /\ Granting(g) => key' = g /\ asked[g] <= ttl'
  OBVIOUS
<1>1. /\ ttl \in 0..Ttl /\ asked[g] \in 0..Ttl /\ sure[g] \in 0..Ttl /\ Ttl \in Nat \ {0}
      /\ key \in Hosts \cup {Nobody} /\ (key = Nobody <=> ttl = 0) /\ g # Nobody
      /\ robbed \in BOOLEAN
  BY ElectionAssumption DEF TypeOK
<1>2. /\ sure[g] > 0 => key = g /\ sure[g] <= ttl
      /\ asked[g] > 0 /\ Granting(g) => key = g /\ asked[g] <= ttl
  BY DEF LeasesOK
<1>3. CASE command \in Claims \cup {"reclaiming"}
  <2>1. key = Nobody \/ (key' = key /\ ttl' = ttl)
    BY <1>3 DEF Effect, SetLeaderIfNotExists, redis, Claims
  <2>2. CASE key = Nobody
    BY <1>1, <1>2, <2>2
  <2>3. CASE key' = key /\ ttl' = ttl
    BY <1>2, <2>3
  <2>4. QED BY <2>1, <2>2, <2>3
<1>4. CASE command \in {"renew", "checking"}
  <2>1. key' = key /\ (ttl' = ttl \/ ttl' = Ttl)
    BY <1>4 DEF Effect, TryRenewLeaderTtl, redis, Claims
  <2>2. QED BY <1>1, <1>2, <2>1
<1>5. CASE command = "clear"
  <2>1. key = Nobody \/ (key = h /\ pc[h] \in {"clear", "off"})
    BY <1>1, <1>5 DEF Effect
  <2>2. key = g => sure[g] = 0 /\ ~Granting(g)
    BY <1>1, <2>1 DEF NoLease, Granting, Claims
  <2>3. QED BY <1>1, <1>2, <2>2
<1>6. CASE command = "look"
  BY <1>2, <1>6 DEF Effect, redis, Claims
<1>7. QED BY <1>3, <1>4, <1>5, <1>6 DEF Commands, LateCommands

\* A command keeps the types of the key.
LEMMA EffectTyped ==
  ASSUME TypeOK, NEW h \in Hosts, NEW command \in LateCommands, Effect(h, command)
  PROVE  /\ key' \in Hosts \cup {Nobody} /\ ttl' \in 0..Ttl /\ (key' = Nobody <=> ttl' = 0)
         /\ robbed' \in BOOLEAN /\ (~robbed' => ~robbed)
<1>1. CASE command \in Claims \cup {"reclaiming"}
  BY <1>1, ElectionAssumption
     DEF Effect, SetLeaderIfNotExists, TypeOK, redis, Claims, Commands
<1>2. CASE command \in {"renew", "checking"}
  BY <1>2, ElectionAssumption
     DEF Effect, TryRenewLeaderTtl, TypeOK, redis, Claims, Commands
<1>3. CASE command = "clear"
  BY <1>3, ElectionAssumption
     DEF Effect, ClearLeader, TypeOK, redis, Claims, Commands
<1>4. CASE command = "look"
  BY <1>4, ElectionAssumption
     DEF Effect, TypeOK, redis, Claims, Commands
<1>5. QED BY <1>1, <1>2, <1>3, <1>4 DEF Commands, LateCommands

\* Redis executes a command: an answer that grants a lease stands for the key it has just
\* set or extended.
LEMMA ExecuteInv ==
  ASSUME IInv, NEW h \in Hosts, Execute(h)
  PROVE  IInv'
<1>1. pc[h] \in Commands /\ pc[h] \in LateCommands /\ reply[h] = "none"
      /\ Effect(h, pc[h]) /\ reply' = [reply EXCEPT ![h] = Answer(h, pc[h])]
      /\ UNCHANGED <<leader, pc, late, orphans, due, asked, sure, faults>>
  BY DEF Execute, Set, lease, LateCommands
<1>2. TypeOK
  BY DEF IInv
<1>3. Answer(h, pc[h]) \in {"yes", "no", "mine", "missing", "other"}
  BY DEF Answer
<1>4. TypeOK'
  <2>1. reply' \in [Hosts -> {"none", "yes", "no", "mine", "missing", "other"}]
    BY <1>1, <1>2, <1>3 DEF TypeOK
  <2>2. QED BY <1>1, <1>2, <2>1, EffectTyped DEF TypeOK
<1>5. AnswersOK'
  BY <1>1, <1>2 DEF IInv, AnswersOK, TypeOK
<1>6. ASSUME ~robbed' PROVE LeasesOK' /\ NoLease'
  <2>1. ~robbed /\ LeasesOK /\ NoLease
    BY <1>1, <1>2, <1>6, EffectTyped DEF IInv
  <2>3. \A g \in Hosts : /\ sure[g] > 0 => key' = g /\ sure[g] <= ttl'
                         /\ asked[g] > 0 /\ Granting(g) => key' = g /\ asked[g] <= ttl'
    BY <1>1, <1>2, <1>6, <2>1, EffectKeepsLeases
  <2>4. asked[h] \in 0..Ttl /\ sure[h] \in 0..Ttl /\ Ttl \in Nat /\ h # Nobody
    BY <1>2, ElectionAssumption DEF TypeOK
  <2>5. Granting(h)' => key' = h /\ ttl' = Ttl
    <3>1. CASE pc[h] \in Claims
      BY <1>1, <1>2, <3>1, <2>4
         DEF Granting, Answer, Effect, SetLeaderIfNotExists, Claims, TypeOK, redis
    <3>2. CASE pc[h] = "renew"
      BY <1>1, <1>2, <3>2, <2>4
         DEF Granting, Answer, Effect, TryRenewLeaderTtl, Claims, TypeOK, redis
    <3>3. CASE pc[h] \notin Claims \cup {"renew"}
      BY <1>1, <3>3 DEF Granting
    <3>4. QED BY <3>1, <3>2, <3>3
  <2>6. \A g \in Hosts \ {h} : Granting(g)' <=> Granting(g)
    BY <1>1, <1>2 DEF Granting, TypeOK
  <2>7. LeasesOK'
    <3> SUFFICES ASSUME NEW g \in Hosts
                 PROVE  /\ sure[g] > 0 => key' = g /\ sure[g] <= ttl'
                        /\ asked[g] > 0 /\ Granting(g)' => key' = g /\ asked[g] <= ttl'
      BY <1>1 DEF LeasesOK
    <3>1. CASE g = h
      BY <3>1, <2>3, <2>4, <2>5
    <3>2. CASE g # h
      BY <3>2, <2>3, <2>6
    <3>3. QED BY <3>1, <3>2
  <2>8. pc[h] = "renew" /\ Answer(h, "renew") \in {"other", "missing"} => sure[h] = 0
    BY <2>1, <2>4 DEF Answer, Claims, LeasesOK
  <2>9. NoLease'
    <3> SUFFICES ASSUME NEW g \in Hosts,
                        \/ pc[g] \in {"off", "clear", "reclaim"}
                        \/ pc[g] = "renew" /\ reply'[g] \in {"other", "missing"}
                 PROVE  sure[g] = 0
      BY <1>1 DEF NoLease
    <3>1. CASE g = h
      BY <1>1, <1>2, <2>1, <2>8, <3>1 DEF NoLease, TypeOK
    <3>2. CASE g # h
      BY <1>1, <1>2, <2>1, <3>2 DEF NoLease, TypeOK
    <3>3. QED BY <3>1, <3>2
  <2>10. QED BY <2>7, <2>9
<1>7. QED BY <1>4, <1>5, <1>6 DEF IInv

\* A late command changes no answer.
LEMMA ResolveLateInv ==
  ASSUME IInv, NEW h \in Hosts, ResolveLate(h)
  PROVE  IInv'
<1>1. /\ late[h] # "none"
      /\ late' = [late EXCEPT ![h] = "none"] \/ late' = [late EXCEPT ![h] = "reclaiming"]
      /\ (Effect(h, late[h]) \/ UNCHANGED <<key, ttl, robbed>>)
      /\ orphans' = orphans \ {h}
      /\ UNCHANGED <<leader, pc, reply, due, asked, sure, faults>>
  BY DEF ResolveLate, Following, Set, lease, redis
<1>2. TypeOK
  BY DEF IInv
<1>3. late[h] \in LateCommands
  BY <1>1, <1>2 DEF TypeOK
<1>4. /\ key' \in Hosts \cup {Nobody} /\ ttl' \in 0..Ttl /\ (key' = Nobody <=> ttl' = 0)
      /\ robbed' \in BOOLEAN /\ (~robbed' => ~robbed)
  BY <1>1, <1>2, <1>3, EffectTyped DEF TypeOK
<1>5. TypeOK'
  <2>1. late' \in [Hosts -> LateCommands \cup {"none"}] /\ orphans' \subseteq Hosts
    BY <1>1, <1>2 DEF TypeOK, LateCommands
  <2>2. QED BY <1>1, <1>2, <1>4, <2>1 DEF TypeOK
<1>6. AnswersOK'
  BY <1>1 DEF IInv, AnswersOK
<1>7. ASSUME ~robbed' PROVE LeasesOK' /\ NoLease'
  <2>1. LeasesOK /\ NoLease
    BY <1>4, <1>7 DEF IInv
  <2>2. \A g \in Hosts : /\ sure[g] > 0 => key' = g /\ sure[g] <= ttl'
                         /\ asked[g] > 0 /\ Granting(g) => key' = g /\ asked[g] <= ttl'
    <3>1. CASE Effect(h, late[h])
      BY <1>2, <1>3, <1>7, <2>1, <3>1, EffectKeepsLeases
    <3>2. CASE UNCHANGED <<key, ttl, robbed>>
      BY <2>1, <3>2 DEF LeasesOK
    <3>3. QED BY <1>1, <3>1, <3>2
  <2>3. \A g \in Hosts : Granting(g)' <=> Granting(g)
    BY <1>1 DEF Granting
  <2>4. LeasesOK'
    BY <1>1, <2>2, <2>3 DEF LeasesOK
  <2>5. NoLease'
    BY <1>1, <2>1 DEF NoLease
  <2>6. QED BY <2>4, <2>5
<1>8. QED BY <1>5, <1>6, <1>7 DEF IInv

\* A step of one main that leaves Redis alone: what has to be shown of that main.
LEMMA LocalStep ==
  ASSUME IInv, TypeOK', NEW h \in Hosts, UNCHANGED <<key, ttl, robbed>>,
         \A g \in Hosts \ {h} : /\ pc'[g] = pc[g] /\ reply'[g] = reply[g]
                                /\ asked'[g] = asked[g] /\ sure'[g] = sure[g],
         reply'[h] # "none" => pc'[h] \in Commands,
         ~robbed => /\ sure'[h] > 0 => key = h /\ sure'[h] <= ttl
                    /\ ~Granting(h)'
                    /\ (\/ pc'[h] \in {"off", "clear", "reclaim"}
                        \/ pc'[h] = "renew" /\ reply'[h] \in {"other", "missing"}
                        => sure'[h] = 0)
  PROVE  IInv'
<1>1. AnswersOK'
  BY DEF IInv, AnswersOK
<1>2. ASSUME ~robbed PROVE LeasesOK'
  BY <1>2 DEF IInv, LeasesOK, Granting
<1>3. ASSUME ~robbed PROVE NoLease'
  BY <1>3 DEF IInv, NoLease
<1>4. QED BY <1>1, <1>2, <1>3 DEF IInv

\* A main that waits for no command has no answer coming.
LEMMA IdleIsSilent ==
  ASSUME IInv, NEW h \in Hosts, pc[h] \notin Commands
  PROVE  reply[h] = "none"
BY DEF IInv, AnswersOK

LEMMA StartInv ==
  ASSUME IInv, NEW h \in Hosts, Start(h)
  PROVE  IInv'
<1>1. /\ pc[h] = "off" /\ pc' = [pc EXCEPT ![h] = "init"] /\ asked' = [asked EXCEPT ![h] = Ttl]
      /\ orphans' \in {orphans, orphans \cup {h}}
      /\ UNCHANGED <<key, ttl, leader, reply, late, due, sure, robbed, faults>>
  BY DEF Start, Send, Set, redis, Claims
<1>2. TypeOK
  BY DEF IInv
<1>3. TypeOK'
  BY <1>1, <1>2, ElectionAssumption DEF TypeOK, Commands, Claims
<1>4. reply[h] = "none"
  BY <1>1, IdleIsSilent DEF Commands, Claims
<1>5. QED
  BY <1>1, <1>2, <1>3, <1>4, LocalStep
     DEF IInv, AnswersOK, LeasesOK, NoLease, TypeOK, Granting, Commands, Claims

LEMMA CheckInv ==
  ASSUME IInv, NEW h \in Hosts, Check(h)
  PROVE  IInv'
<1>1. PICK command \in {"renew", "look"} :
        /\ pc[h] = "idle" /\ pc' = [pc EXCEPT ![h] = command]
        /\ asked' = [asked EXCEPT ![h] = IF command \in Claims \cup {"renew"} THEN Ttl ELSE 0]
        /\ due' = [due EXCEPT ![h] = FALSE]
        /\ UNCHANGED <<key, ttl, leader, reply, late, orphans, sure, robbed, faults>>
  BY DEF Check, Send, Set, redis
<1>2. TypeOK
  BY DEF IInv
<1>3. TypeOK'
  BY <1>1, <1>2, ElectionAssumption DEF TypeOK, Commands, Claims
<1>4. reply[h] = "none"
  BY <1>1, IdleIsSilent DEF Commands, Claims
<1>5. QED
  BY <1>1, <1>2, <1>3, <1>4, LocalStep
     DEF IInv, AnswersOK, LeasesOK, NoLease, TypeOK, Granting, Commands, Claims

\* What a main does with an answer, or without one: it keeps its lease, drops it, or takes
\* the lease the answer grants; and it waits for no clearing.
LEMMA HandleOutcome ==
  ASSUME IInv, NEW h \in Hosts, pc[h] \in Commands,
         NEW answer \in {"yes", "no", "mine", "missing", "other", "failed"},
         Handle(h, answer)
  PROVE  /\ \E place \in {"idle", "off", "claim", "reclaim"} :
              /\ pc' = [pc EXCEPT ![h] = place]
              /\ place = "reclaim" => pc[h] = "renew" /\ answer = "missing"
              /\ place = "off" => pc[h] = "clear"
         /\ \E n \in 0..Ttl : asked' = [asked EXCEPT ![h] = n]
         /\ leader' \in [Hosts -> BOOLEAN]
         /\ \/ UNCHANGED sure
            \/ sure' = [sure EXCEPT ![h] = 0]
            \/ /\ sure' = [sure EXCEPT ![h] = asked[h]] /\ pc'[h] = "idle"
               /\ (pc[h] \in Claims /\ answer = "yes") \/ (pc[h] = "renew" /\ answer = "mine")
<1>1. TypeOK /\ 0 \in 0..Ttl /\ Ttl \in 0..Ttl
  BY ElectionAssumption DEF IInv
<1>2. pc \in [Hosts -> Commands \cup {"off", "idle"}]
  BY <1>1 DEF TypeOK
<1>3. CASE pc[h] = "renew"
  <2>1. OnRenewed(h, answer)
    BY <1>3 DEF Handle
  <2>2. CASE answer = "missing" /\ Send(h, "reclaim") /\ UNCHANGED <<leader, sure>>
    BY <1>1, <1>3, <2>2 DEF Send, Set, TypeOK, Claims
  <2>3. CASE answer = "mine" /\ Rest(h) /\ Confirmed(h) /\ UNCHANGED leader
    <3>1. /\ pc' = [pc EXCEPT ![h] = "idle"] /\ asked' = [asked EXCEPT ![h] = 0]
          /\ sure' = [sure EXCEPT ![h] = asked[h]] /\ leader' = leader
      BY <2>3 DEF Rest, Confirmed, Set
    <3>2. pc'[h] = "idle" /\ leader' \in [Hosts -> BOOLEAN]
      BY <1>1, <1>2, <3>1 DEF TypeOK
    <3>3. QED BY <1>1, <1>3, <2>3, <3>1, <3>2
  <2>4. CASE answer \in {"other", "failed"} /\ Rest(h) /\ (StepDown(h) \/ UNCHANGED leader)
             /\ UNCHANGED sure
    BY <1>1, <2>4 DEF Rest, StepDown, Set, TypeOK
  <2>5. QED BY <2>1, <2>2, <2>3, <2>4 DEF OnRenewed
<1>4. CASE pc[h] = "reclaim"
  <2>1. OnReclaimed(h, answer) /\ pc[h] \in Claims
    BY <1>4 DEF Handle, Claims
  <2>2. pc' = [pc EXCEPT ![h] = "idle"] /\ asked' = [asked EXCEPT ![h] = 0] /\ pc'[h] = "idle"
    BY <1>2, <2>1 DEF OnReclaimed, Rest, Set
  <2>3. leader' \in [Hosts -> BOOLEAN]
    BY <1>1, <2>1 DEF OnReclaimed, StepDown, Set, TypeOK
  <2>4. UNCHANGED sure \/ (sure' = [sure EXCEPT ![h] = asked[h]] /\ answer = "yes")
    BY <2>1 DEF OnReclaimed, Confirmed, Set
  <2>5. QED
    <3>1. \E n \in 0..Ttl : asked' = [asked EXCEPT ![h] = n]
      BY <1>1, <2>2
    <3>2. \E place \in {"idle", "off", "claim", "reclaim"} :
            /\ pc' = [pc EXCEPT ![h] = place]
            /\ place = "reclaim" => pc[h] = "renew" /\ answer = "missing"
            /\ place = "off" => pc[h] = "clear"
      BY <2>2
    <3>3. QED BY <2>1, <2>2, <2>3, <2>4, <3>1, <3>2
<1>5. CASE pc[h] = "look"
  <2>1. OnLooked(h, answer)
    BY <1>5 DEF Handle
  <2>2. CASE answer = "missing" /\ Send(h, "claim") /\ UNCHANGED <<leader, sure>>
    BY <1>1, <2>2 DEF Send, Set, TypeOK, Claims
  <2>3. CASE Rest(h) /\ (TakeOver(h) \/ UNCHANGED leader) /\ UNCHANGED sure
    BY <1>1, <2>3 DEF Rest, TakeOver, Set, TypeOK
  <2>4. QED BY <2>1, <2>2, <2>3 DEF OnLooked
<1>6. CASE pc[h] = "clear"
  BY <1>1, <1>2, <1>6 DEF Handle, Off, Set, TypeOK, Claims, Commands
<1>7. CASE pc[h] \in {"init", "claim"}
  <2>1. OnClaimed(h, answer) /\ pc[h] \in Claims
    BY <1>7 DEF Handle, Claims
  <2>2. pc' = [pc EXCEPT ![h] = "idle"] /\ asked' = [asked EXCEPT ![h] = 0] /\ pc'[h] = "idle"
    BY <1>2, <2>1 DEF OnClaimed, Rest, Set
  <2>3. leader' \in [Hosts -> BOOLEAN]
    BY <1>1, <2>1 DEF OnClaimed, TakeOver, Set, TypeOK
  <2>4. UNCHANGED sure \/ (sure' = [sure EXCEPT ![h] = asked[h]] /\ answer = "yes")
    BY <2>1 DEF OnClaimed, Confirmed, Set
  <2>5. QED
    <3>1. \E n \in 0..Ttl : asked' = [asked EXCEPT ![h] = n]
      BY <1>1, <2>2
    <3>2. \E place \in {"idle", "off", "claim", "reclaim"} :
            /\ pc' = [pc EXCEPT ![h] = place]
            /\ place = "reclaim" => pc[h] = "renew" /\ answer = "missing"
            /\ place = "off" => pc[h] = "clear"
      BY <2>2
    <3>3. QED BY <2>1, <2>2, <2>3, <2>4, <3>1, <3>2
<1>8. QED BY <1>3, <1>4, <1>5, <1>6, <1>7 DEF Commands, Claims

LEMMA RespondInv ==
  ASSUME IInv, NEW h \in Hosts, Respond(h)
  PROVE  IInv'
<1>1. /\ reply[h] # "none" /\ Handle(h, reply[h]) /\ reply' = [reply EXCEPT ![h] = "none"]
      /\ UNCHANGED <<key, ttl, late, orphans, due, robbed, faults>>
  BY DEF Respond, Set, redis
<1>2. TypeOK /\ AnswersOK
  BY DEF IInv
<1>3. pc[h] \in Commands /\ reply[h] \in {"yes", "no", "mine", "missing", "other"}
  BY <1>1, <1>2 DEF AnswersOK, TypeOK
<1>4. PICK place \in {"idle", "off", "claim", "reclaim"} :
        /\ pc' = [pc EXCEPT ![h] = place]
        /\ place = "reclaim" => pc[h] = "renew" /\ reply[h] = "missing"
        /\ place = "off" => pc[h] = "clear"
  BY <1>1, <1>3, HandleOutcome
<1>5. PICK n \in 0..Ttl : asked' = [asked EXCEPT ![h] = n]
  BY <1>1, <1>3, HandleOutcome
<1>6. /\ leader' \in [Hosts -> BOOLEAN]
      /\ \/ UNCHANGED sure
         \/ sure' = [sure EXCEPT ![h] = 0]
         \/ /\ sure' = [sure EXCEPT ![h] = asked[h]] /\ pc'[h] = "idle"
            /\ (pc[h] \in Claims /\ reply[h] = "yes") \/ (pc[h] = "renew" /\ reply[h] = "mine")
  BY <1>1, <1>3, HandleOutcome
<1>7. sure' \in [Hosts -> 0..Ttl] /\ \A g \in Hosts \ {h} : sure'[g] = sure[g]
  BY <1>2, <1>6, ElectionAssumption DEF TypeOK
<1>8. TypeOK'
  BY <1>1, <1>2, <1>4, <1>5, <1>6, <1>7, ElectionAssumption DEF TypeOK, Commands, Claims
<1>9. pc'[h] = place /\ reply'[h] = "none"
  BY <1>1, <1>2, <1>3, <1>4 DEF TypeOK
<1>10. ASSUME ~robbed PROVE /\ sure'[h] > 0 => key = h /\ sure'[h] <= ttl
                            /\ pc'[h] \in {"off", "reclaim"} => sure'[h] = 0
  <2>1. LeasesOK /\ NoLease
    BY <1>10 DEF IInv
  <2>2. CASE UNCHANGED sure
    BY <1>4, <1>9, <2>1, <2>2 DEF LeasesOK, NoLease
  <2>3. CASE sure' = [sure EXCEPT ![h] = 0]
    BY <1>2, <2>3 DEF TypeOK
  <2>4. CASE /\ sure' = [sure EXCEPT ![h] = asked[h]] /\ pc'[h] = "idle"
             /\ (pc[h] \in Claims /\ reply[h] = "yes") \/ (pc[h] = "renew" /\ reply[h] = "mine")
    BY <1>2, <2>1, <2>4 DEF LeasesOK, Granting, TypeOK
  <2>5. QED BY <1>6, <2>2, <2>3, <2>4
<1>11. \A g \in Hosts \ {h} : /\ pc'[g] = pc[g] /\ reply'[g] = reply[g]
                              /\ asked'[g] = asked[g]
  BY <1>1, <1>2, <1>4, <1>5 DEF TypeOK
<1>12. ~Granting(h)' /\ pc'[h] # "clear"
  BY <1>9 DEF Granting
<1>13. QED
  BY <1>1, <1>7, <1>8, <1>9, <1>10, <1>11, <1>12, LocalStep

\* What becomes of the command under way when its caller stops waiting.
LEMMA Left ==
  ASSUME IInv, NEW h \in Hosts, Forget(h) \/ Leave(h, GoesOn(h))
  PROVE  /\ reply' = [reply EXCEPT ![h] = "none"]
         /\ late' \in [Hosts -> LateCommands \cup {"none"}]
BY DEF Forget, Leave, GoesOn, IInv, TypeOK, Set, LateCommands, Commands, Claims

LEMMA FailInv ==
  ASSUME IInv, NEW h \in Hosts, Fail(h)
  PROVE  IInv'
<1>1. /\ pc[h] \in Commands /\ Fault /\ Handle(h, "failed") /\ Forget(h)
      /\ UNCHANGED <<key, ttl, orphans, due, robbed>>
  BY DEF Fail, redis
<1>2. TypeOK
  BY DEF IInv
<1>3. PICK place \in {"idle", "off", "claim"} :
        pc' = [pc EXCEPT ![h] = place] /\ (place = "off" => pc[h] = "clear")
  BY <1>1, HandleOutcome
<1>4. PICK n \in 0..Ttl : asked' = [asked EXCEPT ![h] = n]
  BY <1>1, HandleOutcome
<1>5. leader' \in [Hosts -> BOOLEAN] /\ (UNCHANGED sure \/ sure' = [sure EXCEPT ![h] = 0])
  BY <1>1, HandleOutcome
<1>6. /\ sure' \in [Hosts -> 0..Ttl] /\ (sure'[h] = sure[h] \/ sure'[h] = 0)
      /\ \A g \in Hosts \ {h} : sure'[g] = sure[g]
  BY <1>2, <1>5, ElectionAssumption DEF TypeOK
<1>7. TypeOK'
  <2>1. faults' \in 0..MaxFaults
    BY <1>1, <1>2, ElectionAssumption DEF TypeOK, Fault
  <2>2. pc' \in [Hosts -> Commands \cup {"off", "idle"}] /\ asked' \in [Hosts -> 0..Ttl]
    BY <1>2, <1>3, <1>4 DEF TypeOK, Commands, Claims
  <2>3. /\ reply' \in [Hosts -> {"none", "yes", "no", "mine", "missing", "other"}]
        /\ late' \in [Hosts -> LateCommands \cup {"none"}]
    BY <1>1, <1>2, Left DEF TypeOK
  <2>4. QED BY <1>1, <1>2, <1>5, <1>6, <2>1, <2>2, <2>3 DEF TypeOK
<1>8. pc'[h] = place /\ reply'[h] = "none"
  BY <1>1, <1>2, <1>3, Left DEF TypeOK
<1>9. \A g \in Hosts \ {h} : /\ pc'[g] = pc[g] /\ reply'[g] = reply[g]
                             /\ asked'[g] = asked[g]
  BY <1>1, <1>2, <1>3, <1>4, Left DEF TypeOK
<1>10. ASSUME ~robbed PROVE /\ sure'[h] > 0 => key = h /\ sure'[h] <= ttl
                            /\ pc'[h] = "off" => sure'[h] = 0
  BY <1>3, <1>6, <1>8, <1>10 DEF IInv, LeasesOK, NoLease
<1>11. ~Granting(h)' /\ pc'[h] \notin {"clear", "reclaim"}
  BY <1>8 DEF Granting
<1>12. QED
  BY <1>1, <1>6, <1>7, <1>8, <1>9, <1>10, <1>11, LocalStep

\* A main that shuts down or crashes has no lease any more.
LEMMA GoneInv ==
  ASSUME IInv, NEW h \in Hosts, Shutdown(h) \/ Crash(h)
  PROVE  IInv'
<1>1. /\ Fault /\ due' = [due EXCEPT ![h] = FALSE] /\ UNCHANGED <<key, ttl, orphans, robbed>>
      /\ Forget(h) \/ Leave(h, GoesOn(h))
  BY DEF Shutdown, Crash, Set, redis
<1>2. TypeOK /\ 0 \in 0..Ttl
  BY ElectionAssumption DEF IInv
<1>3. /\ \E place \in {"off", "clear"} : pc' = [pc EXCEPT ![h] = place]
      /\ asked' = [asked EXCEPT ![h] = 0] /\ sure' = [sure EXCEPT ![h] = 0]
      /\ leader' = leader \/ leader' = [leader EXCEPT ![h] = FALSE]
  BY DEF Shutdown, Crash, Off, Send, Set, Claims
<1>4. TypeOK'
  <2>1. faults' \in 0..MaxFaults
    BY <1>1, <1>2, ElectionAssumption DEF TypeOK, Fault
  <2>2. /\ pc' \in [Hosts -> Commands \cup {"off", "idle"}]
        /\ asked' \in [Hosts -> 0..Ttl] /\ sure' \in [Hosts -> 0..Ttl]
        /\ leader' \in [Hosts -> BOOLEAN] /\ due' \in [Hosts -> BOOLEAN]
    BY <1>1, <1>2, <1>3 DEF TypeOK, Commands, Claims
  <2>3. /\ reply' \in [Hosts -> {"none", "yes", "no", "mine", "missing", "other"}]
        /\ late' \in [Hosts -> LateCommands \cup {"none"}]
    BY <1>1, <1>2, Left DEF TypeOK
  <2>4. QED BY <1>1, <1>2, <2>1, <2>2, <2>3 DEF TypeOK
<1>5. reply'[h] = "none" /\ sure'[h] = 0 /\ pc'[h] \in {"off", "clear"}
  BY <1>1, <1>2, <1>3, Left DEF TypeOK
<1>6. \A g \in Hosts \ {h} : /\ pc'[g] = pc[g] /\ reply'[g] = reply[g]
                             /\ asked'[g] = asked[g] /\ sure'[g] = sure[g]
  BY <1>1, <1>2, <1>3, Left DEF TypeOK
<1>7. ~Granting(h)'
  BY <1>5 DEF Granting
<1>8. QED BY <1>1, <1>4, <1>5, <1>6, <1>7, LocalStep

\* Time takes the same from every lease and from the key.
LEMMA TickInv ==
  ASSUME IInv, Tick
  PROVE  IInv'
<1>1. /\ ttl' = Less(ttl) /\ key' = (IF ttl' = 0 THEN Nobody ELSE key)
      /\ asked' = [h \in Hosts |-> Less(asked[h])] /\ sure' = [h \in Hosts |-> Less(sure[h])]
      /\ due' = [h \in Hosts |-> pc[h] = "idle"]
      /\ UNCHANGED <<leader, pc, reply, late, orphans, robbed>> /\ (UNCHANGED faults \/ Fault)
  BY DEF Tick
<1>2. TypeOK
  BY DEF IInv
<1>3. \A n \in 0..Ttl : Less(n) \in 0..Ttl /\ Less(n) <= n /\ (Less(n) > 0 => n > 0 /\ Less(n) = n - 1)
  BY ElectionAssumption DEF Less
<1>4. /\ ttl \in 0..Ttl /\ \A h \in Hosts : asked[h] \in 0..Ttl /\ sure[h] \in 0..Ttl
      /\ key \in Hosts \cup {Nobody} /\ (key = Nobody <=> ttl = 0)
  BY <1>2 DEF TypeOK
<1>5. TypeOK'
  <2>1. faults' \in 0..MaxFaults
    BY <1>1, <1>2, ElectionAssumption DEF TypeOK, Fault
  <2>2. ttl' \in 0..Ttl /\ key' \in Hosts \cup {Nobody}
    BY <1>1, <1>3, <1>4
  <2>3. key' = Nobody <=> ttl' = 0
    BY <1>1, <1>3, <1>4
  <2>4. asked' \in [Hosts -> 0..Ttl] /\ sure' \in [Hosts -> 0..Ttl] /\ due' \in [Hosts -> BOOLEAN]
    BY <1>1, <1>3, <1>4
  <2>5. QED BY <1>1, <1>2, <2>1, <2>2, <2>3, <2>4 DEF TypeOK
<1>6. AnswersOK'
  BY <1>1 DEF IInv, AnswersOK
<1>7. ASSUME ~robbed' PROVE LeasesOK' /\ NoLease'
  <2>1. LeasesOK /\ NoLease
    BY <1>1, <1>7 DEF IInv
  <2>2. ASSUME NEW n \in 0..Ttl, Less(n) > 0, n > 0 => n <= ttl
        PROVE  key' = key /\ Less(n) <= ttl'
    BY <1>1, <1>3, <1>4, <2>2, ElectionAssumption DEF Less
  <2>3. LeasesOK'
    <3> SUFFICES ASSUME NEW h \in Hosts
                 PROVE  /\ Less(sure[h]) > 0 => key' = h /\ Less(sure[h]) <= ttl'
                        /\ Less(asked[h]) > 0 /\ Granting(h) => key' = h /\ Less(asked[h]) <= ttl'
      BY <1>1 DEF LeasesOK, Granting
    <3>1. ASSUME Less(sure[h]) > 0 PROVE key' = h /\ Less(sure[h]) <= ttl'
      <4>1. sure[h] > 0 /\ key = h /\ sure[h] <= ttl
        BY <1>3, <1>4, <2>1, <3>1 DEF LeasesOK
      <4>2. QED BY <1>4, <2>2, <3>1, <4>1
    <3>2. ASSUME Less(asked[h]) > 0, Granting(h) PROVE key' = h /\ Less(asked[h]) <= ttl'
      <4>1. asked[h] > 0 /\ key = h /\ asked[h] <= ttl
        BY <1>3, <1>4, <2>1, <3>2 DEF LeasesOK
      <4>2. QED BY <1>4, <2>2, <3>2, <4>1
    <3>3. QED BY <3>1, <3>2
  <2>4. NoLease'
    BY <1>1, <1>4, <2>1 DEF NoLease, Less
  <2>5. QED BY <2>3, <2>4
<1>8. QED BY <1>5, <1>6, <1>7 DEF IInv

LEMMA NextInv == IInv /\ [Next]_vars => IInv'
<1> SUFFICES ASSUME IInv, [Next]_vars PROVE IInv'
  OBVIOUS
<1>1. ASSUME NEW h \in Hosts,
             \/ Start(h) \/ Check(h) \/ Execute(h) \/ Respond(h) \/ ResolveLate(h)
             \/ Fail(h) \/ Shutdown(h) \/ Crash(h)
      PROVE  IInv'
  BY <1>1, StartInv, CheckInv, ExecuteInv, RespondInv, ResolveLateInv, FailInv, GoneInv
<1>2. CASE Tick
  BY <1>2, TickInv
<1>3. CASE UNCHANGED vars
  BY <1>3 DEF vars, redis, lease, IInv, TypeOK, AnswersOK, LeasesOK, NoLease, Granting
<1>4. QED BY <1>1, <1>2, <1>3 DEF Next

\* The types are kept, and the invariant that the leases rest on.
THEOREM InvHolds == Spec => []IInv
BY InitInv, NextInv, PTL DEF Spec

\* A main whose lease was confirmed less than the time to live ago holds the key
\* (setLeaderIfNotExists, tryRenewLeaderTtl), unless a main has cleared the key of
\* another.
THEOREM LeaseHoldsTheKey == Spec => []LeaseHoldsKey
<1>1. IInv => LeaseHoldsKey
  BY DEF IInv, LeasesOK, LeaseHoldsKey
<1>2. QED BY <1>1, InvHolds, PTL

\* A main that handles an answer, or a failure, and steps down had no lease or is gone.
LEMMA HandleDeposes ==
  ASSUME IInv, ~robbed, NEW h \in Hosts, pc[h] \in Commands, leader[h],
         NEW answer, answer = reply[h] \/ answer = "failed", Handle(h, answer)
  PROVE  /\ \A g \in Hosts \ {h} : leader'[g] = leader[g]
         /\ leader'[h] \/ sure[h] = 0 \/ pc'[h] = "off"
<1>1. TypeOK /\ NoLease
  BY DEF IInv
<1>2. pc \in [Hosts -> Commands \cup {"off", "idle"}] /\ leader \in [Hosts -> BOOLEAN]
  BY <1>1 DEF TypeOK
<1>3. CASE pc[h] = "renew"
  <2>1. OnRenewed(h, answer)
    BY <1>3 DEF Handle
  <2>2. CASE UNCHANGED leader
    BY <2>2
  <2>3. CASE answer = "other" /\ StepDown(h)
    BY <1>1, <1>2, <1>3, <2>3 DEF StepDown, Set, NoLease
  <2>4. QED BY <2>1, <2>2, <2>3 DEF OnRenewed
<1>4. CASE pc[h] = "reclaim"
  BY <1>1, <1>2, <1>4 DEF Handle, OnReclaimed, StepDown, Set, NoLease
<1>5. CASE pc[h] = "look"
  BY <1>2, <1>5 DEF Handle, OnLooked, TakeOver, Set
<1>6. CASE pc[h] = "clear"
  BY <1>2, <1>6 DEF Handle, Off, Set
<1>7. CASE pc[h] \in {"init", "claim"}
  BY <1>2, <1>7 DEF Handle, OnClaimed, TakeOver, Set
<1>8. QED BY <1>3, <1>4, <1>5, <1>6, <1>7 DEF Commands, Claims

\* What a step of one main does to the leaders: others stay, and so does it, unless it has
\* no lease or is gone.
LEMMA StepDeposes ==
  ASSUME IInv, ~robbed, NEW h \in Hosts,
         \/ Start(h) \/ Check(h) \/ Execute(h) \/ Respond(h) \/ ResolveLate(h)
         \/ Fail(h) \/ Shutdown(h) \/ Crash(h),
         NEW g \in Hosts, leader[g], sure[g] > 0, ~leader'[g]
  PROVE  pc'[g] = "off"
<1>1. leader \in [Hosts -> BOOLEAN] /\ AnswersOK /\ pc \in [Hosts -> Commands \cup {"off", "idle"}]
  BY DEF IInv, TypeOK
<1>2. CASE Start(h) \/ Check(h) \/ Execute(h) \/ ResolveLate(h)
  BY <1>2 DEF Start, Check, Execute, ResolveLate
<1>3. CASE Respond(h) \/ Fail(h)
  <2>1. pc[h] \in Commands /\ (Handle(h, reply[h]) \/ Handle(h, "failed"))
    BY <1>1, <1>3 DEF Respond, Fail, AnswersOK
  <2>2. CASE leader[h]
    <3>1. /\ \A f \in Hosts \ {h} : leader'[f] = leader[f]
          /\ leader'[h] \/ sure[h] = 0 \/ pc'[h] = "off"
      BY <2>1, <2>2, HandleDeposes
    <3>2. QED BY <3>1
  <2>3. CASE ~leader[h]
    BY <1>1, <2>1, <2>3
       DEF Handle, OnRenewed, OnReclaimed, OnLooked, OnClaimed, Off, TakeOver, StepDown, Set
  <2>4. QED BY <2>2, <2>3
<1>4. CASE Shutdown(h) \/ Crash(h)
  BY <1>1, <1>4 DEF Shutdown, Crash, Off, Set
<1>5. QED BY <1>2, <1>3, <1>4

\* Such a main steps down only with its process (checkAreWeStillLeader).
THEOREM LeaseKept == Spec => LeaseIsKept
<1>1. IInv /\ [Next]_vars =>
        [\A h \in Hosts : ~robbed /\ leader[h] /\ sure[h] > 0 /\ ~leader'[h] => pc'[h] = "off"]_vars
  <2> SUFFICES ASSUME IInv, Next, NEW g \in Hosts,
                      ~robbed, leader[g], sure[g] > 0, ~leader'[g]
               PROVE  pc'[g] = "off"
    OBVIOUS
  <2>1. CASE Tick
    BY <2>1 DEF Tick
  <2>2. QED BY <2>1, StepDeposes DEF Next
<1>2. QED BY <1>1, InvHolds, PTL DEF Spec, LeaseIsKept
=============================================================================
