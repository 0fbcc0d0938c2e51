---------------------------- MODULE ConsulProofs ----------------------------
(***************************************************************************)
(* The theorems about Consul: its types, that a session is renewed in      *)
(* time, and that Consul makes one node at a time a leader.                *)
(***************************************************************************)
EXTENDS Consul, TLAPS

\* Where a session and a lock belong in the loop of a node.  A node that has
\* met all its errors gets its session in time.
LoopInv(n) ==
    /\ loop[n].at # "renewing" => ~Waiting(n) /\ ~loop[n].skipped /\ holder # n
    /\ loop[n].at = "session" => ~loop[n].created
    /\ ~loop[n].created => left[n] = Ended
    /\ loop[n].at = "creating" => loop[n].timer <= TTL
    /\ loop[n].at = "creating" /\ loop[n].errors = MaxErrors => InTime(n)

\* A session that is renewed at every beat lasts longer than the longest way
\* to the next answer of Consul.
LeaseInv(n) ==
    /\ loop[n].at = "creating" /\ loop[n].created /\ loop[n].timer > 0 => left[n] >= loop[n].timer
    /\ loop[n].at = "renewing" /\ ~loop[n].skipped =>
           IF loop[n].renew = "sent" THEN left[n] > MaxRtt - loop[n].age
           ELSE /\ left[n] > MaxRtt /\ left[n] > MaxRtt + loop[n].timer
                /\ Waiting(n) => left[n] > 2 * MaxRtt - loop[n].age
    /\ ~loop[n].skipped => "error" \notin {loop[n].renew, loop[n].acquire}

\* Node n meets no further error, and the answer of Consul to its next
\* ConsulAcquire reaches it in less than k ticks.
AnsweredWithin(n, k) ==
    /\ loop[n].errors = MaxErrors
    /\ loop[n].at = "session" => k > loop[n].timer + 2 * MaxRtt + RenewTime
    /\ loop[n].at = "creating" => k > 2 * MaxRtt + RenewTime - (TTL - loop[n].timer)
    /\ loop[n].at = "renewing" =>
           IF Waiting(n) THEN loop[n].acquire # "none" /\ k > MaxRtt - loop[n].age
           ELSE k > MaxRtt /\ k > MaxRtt + loop[n].timer

\* The word of Consul that node n leads is on its way.
Told(n) == loop[n].acquire = "true" /\ ~loop[n].skipped

\* The node leads on the word of Consul, or the word is on its way.
Leads(n) == (n \in heard /\ isLeader[n]) \/ Told(n)

\* How long nobody can take the lock that no session of a node holds.
FreeAfter == IF holder = GivenUp THEN left[GivenUp] + TTL ELSE lockDelay

\* No other node can get the lock before node n is told that it has lost it.
Backed(n) ==
    \/ holder = n
    \/ /\ holder \in {GivenUp, NoOne}
       /\ holder = GivenUp => left[GivenUp] >= 0
       /\ AnsweredWithin(n, FreeAfter)

HeardInv == \A n \in heard : constate[n] = "Enabled" /\ ~loop[n].skipped

LeadInv ==
    /\ \A n \in Node : Leads(n) => Backed(n)
    /\ \A n \in Node : Told(n) => holder = n
    /\ \A m, n \in Node : Leads(m) /\ Leads(n) => m = n

TypeInv == TypeOK /\ \A n \in Node : LoopInv(n)

IInv ==
    /\ TypeInv
    /\ \A n \in Node : LeaseInv(n)
    /\ HeardInv
    /\ LeadInv

-----------------------------------------------------------------------------
(* Types, and what every node keeps. *)

LEMMA ConstantTypes ==
  /\ TTL \in Nat /\ TTL > 0 /\ RenewTime \in Nat /\ RenewTime > 0
  /\ ErrorPause \in Nat /\ ErrorPause > 0 /\ StatusPause \in Nat
  /\ MaxRtt \in Nat /\ MaxErrors \in Nat /\ MaxRtt < TTL
  /\ GivenUp \notin Node /\ NoOne \notin Node /\ GivenUp # NoOne
<1>1. {TTL, RenewTime, ErrorPause} \subseteq Nat \ {0} /\ {StatusPause, MaxRtt, MaxErrors} \subseteq Nat /\ MaxRtt < TTL
  BY ConsulAssumption
<1>2. GivenUp \notin Node /\ NoOne \notin Node /\ GivenUp # NoOne
  BY ConsulAssumption DEF GivenUp, NoOne
<1> QED
  BY <1>1, <1>2

\* A node of which Consul and its loop know nothing new.
LEMMA LoopKept ==
  ASSUME NEW m \in Node, LoopInv(m), loop'[m] = loop[m], left'[m] = left[m],
         holder' = holder \/ holder' # m
  PROVE  LoopInv(m)'
BY Zenon DEF LoopInv, Waiting, InTime

-----------------------------------------------------------------------------
(* The effect of every action on the loop of its node. *)

\* After the step the loop of node n, and no other, has these fields.
Becomes(n, at, timer, created, renew, acquire, age, errors, skipped) ==
    /\ loop'[n] \in LoopState /\ loop' = [loop EXCEPT ![n] = loop'[n]]
    /\ loop'[n].at = at /\ loop'[n].timer = timer /\ loop'[n].created = created
    /\ loop'[n].renew = renew /\ loop'[n].acquire = acquire /\ loop'[n].age = age
    /\ loop'[n].errors = errors /\ loop'[n].skipped = skipped

\* The loop of node n is replaced.
LEMMA LoopUpdated ==
  ASSUME TypeOK, NEW n \in Node, NEW k, loop' = [loop EXCEPT ![n] = k]
  PROVE  loop'[n] = k /\ loop' = [loop EXCEPT ![n] = loop'[n]]
BY Zenon DEF TypeOK

LEMMA CreateSessionEffect ==
  ASSUME TypeOK, NEW n \in Node, CreateSession(n)
  PROVE  Becomes(n, loop[n].at, loop[n].timer, TRUE, loop[n].renew, loop[n].acquire,
                 loop[n].age, loop[n].errors, loop[n].skipped)
BY Zenon DEF TypeOK, CreateSession, Becomes, LoopState

LEMMA AnswerRenewEffect ==
  ASSUME TypeOK, NEW n \in Node, AnswerRenew(n)
  PROVE  Becomes(n, loop[n].at, loop[n].timer, loop[n].created,
                 IF left[n] = Ended THEN "error" ELSE "ok", loop[n].acquire,
                 loop[n].age, loop[n].errors, loop[n].skipped)
BY Zenon DEF TypeOK, AnswerRenew, Becomes, LoopState

LEMMA AnswerAcquireEffect ==
  ASSUME TypeOK, NEW n \in Node, AnswerAcquire(n)
  PROVE  Becomes(n, loop[n].at, loop[n].timer, loop[n].created, loop[n].renew,
                 IF left[n] = Ended THEN "error" ELSE IF MayAcquire(n) THEN "true" ELSE "false",
                 loop[n].age, loop[n].errors, loop[n].skipped)
BY Zenon DEF TypeOK, AnswerAcquire, Becomes, LoopState

LEMMA LoopSessionEffect ==
  ASSUME TypeOK, NEW n \in Node, LoopSession(n)
  PROVE  \/ /\ constate[n] = "Disabled"
            /\ Becomes(n, "session", ErrorPause, loop[n].created, loop[n].renew, loop[n].acquire,
                       loop[n].age, loop[n].errors, loop[n].skipped)
         \/ /\ constate[n] # "Disabled"
            /\ Becomes(n, "creating", TTL, loop[n].created, loop[n].renew, loop[n].acquire,
                       loop[n].age, loop[n].errors, loop[n].skipped)
<1>1. loop[n] \in LoopState /\ loop[n].at = "session" /\ TTL \in Int /\ ErrorPause \in Int
  BY ConstantTypes DEF LoopSession, TypeOK
<1>2. CASE constate[n] = "Disabled"
  <2> DEFINE k == [loop[n] EXCEPT !.timer = ErrorPause]
  <2>1. loop'[n] = k /\ loop' = [loop EXCEPT ![n] = loop'[n]]
    <3>1. loop' = [loop EXCEPT ![n] = k]
      BY Zenon, <1>2 DEF LoopSession
    <3> HIDE DEF k
    <3> QED
      BY Zenon, <3>1, LoopUpdated
  <2> QED
    BY Zenon, <1>1, <1>2, <2>1 DEF Becomes, LoopState
<1>3. CASE constate[n] # "Disabled"
  <2> DEFINE k == [loop[n] EXCEPT !.at = "creating", !.timer = TTL]
  <2>1. loop'[n] = k /\ loop' = [loop EXCEPT ![n] = loop'[n]]
    <3>1. loop' = [loop EXCEPT ![n] = k]
      BY Zenon, <1>3 DEF LoopSession
    <3> HIDE DEF k
    <3> QED
      BY Zenon, <3>1, LoopUpdated
  <2>2. /\ k \in LoopState
        /\ k.at = "creating" /\ k.timer = TTL /\ k.created = loop[n].created /\ k.renew = loop[n].renew
        /\ k.acquire = loop[n].acquire /\ k.age = loop[n].age /\ k.errors = loop[n].errors
        /\ k.skipped = loop[n].skipped
    BY Zenon, <1>1 DEF LoopState
  <2> HIDE DEF k
  <2> QED
    BY Zenon, <1>1, <1>3, <2>1, <2>2 DEF Becomes
<1> QED
  BY Zenon, <1>2, <1>3

LEMMA SessionCreatedEffect ==
  ASSUME TypeOK, NEW n \in Node, SessionCreated(n)
  PROVE  Becomes(n, "renewing", RenewTime, loop[n].created, loop[n].renew, loop[n].acquire,
                 loop[n].age, loop[n].errors, loop[n].skipped)
<1> DEFINE k == [loop[n] EXCEPT !.at = "renewing", !.timer = RenewTime]
<1>1. loop[n] \in LoopState /\ RenewTime \in Int
  BY ConstantTypes DEF TypeOK
<1>2. loop'[n] = k /\ loop' = [loop EXCEPT ![n] = loop'[n]]
  <2>1. loop' = [loop EXCEPT ![n] = k]
    BY Zenon DEF SessionCreated
  <2> HIDE DEF k
  <2> QED
    BY Zenon, <2>1, LoopUpdated
<1>3. /\ k \in LoopState
      /\ k.at = "renewing" /\ k.timer = RenewTime /\ k.created = loop[n].created /\ k.renew = loop[n].renew
      /\ k.acquire = loop[n].acquire /\ k.age = loop[n].age /\ k.errors = loop[n].errors
      /\ k.skipped = loop[n].skipped
  BY Zenon, <1>1 DEF LoopState
<1> HIDE DEF k
<1> QED
  BY Zenon, <1>2, <1>3 DEF Becomes

LEMMA BeatEffect ==
  ASSUME TypeOK, NEW n \in Node, Beat(n)
  PROVE  \/ /\ constate[n] = "Disabled"
            /\ Becomes(n, "renewing", loop[n].timer + RenewTime, loop[n].created, loop[n].renew,
                       loop[n].acquire, loop[n].age, loop[n].errors, TRUE)
         \/ /\ constate[n] # "Disabled"
            /\ Becomes(n, "renewing", loop[n].timer + RenewTime, loop[n].created, "sent", "sent",
                       0, loop[n].errors, loop[n].skipped)
<1> DEFINE t == loop[n].timer + RenewTime
<1>1. loop[n] \in LoopState /\ loop[n].at = "renewing" /\ t \in Int /\ 0 \in 0 .. MaxRtt
  BY ConstantTypes DEF Beat, BeatDue, TypeOK, LoopState
<1>2. CASE constate[n] = "Disabled"
  <2> DEFINE k == [loop[n] EXCEPT !.timer = t, !.skipped = TRUE]
  <2>1. loop'[n] = k /\ loop' = [loop EXCEPT ![n] = loop'[n]]
    <3>1. loop' = [loop EXCEPT ![n] = k]
      BY Zenon, <1>2 DEF Beat
    <3> HIDE DEF k
    <3> QED
      BY Zenon, <3>1, LoopUpdated
  <2>2. /\ k \in LoopState
        /\ k.at = loop[n].at /\ k.timer = t /\ k.created = loop[n].created /\ k.renew = loop[n].renew
        /\ k.acquire = loop[n].acquire /\ k.age = loop[n].age /\ k.errors = loop[n].errors
        /\ k.skipped = TRUE
    BY Zenon, <1>1 DEF LoopState
  <2> HIDE DEF k
  <2> QED
    BY Zenon, <1>1, <1>2, <2>1, <2>2 DEF Becomes
<1>3. CASE constate[n] # "Disabled"
  <2> DEFINE k == [loop[n] EXCEPT !.timer = t, !.age = 0, !.renew = "sent", !.acquire = "sent"]
  <2>1. loop'[n] = k /\ loop' = [loop EXCEPT ![n] = loop'[n]]
    <3>1. loop' = [loop EXCEPT ![n] = k]
      BY Zenon, <1>3 DEF Beat
    <3> HIDE DEF k
    <3> QED
      BY Zenon, <3>1, LoopUpdated
  <2>2. /\ k \in LoopState
        /\ k.at = loop[n].at /\ k.timer = t /\ k.created = loop[n].created /\ k.renew = "sent"
        /\ k.acquire = "sent" /\ k.age = 0 /\ k.errors = loop[n].errors /\ k.skipped = loop[n].skipped
    BY Zenon, <1>1 DEF LoopState
  <2> HIDE DEF k
  <2> QED
    BY Zenon, <1>1, <1>3, <2>1, <2>2 DEF Becomes
<1> QED
  BY Zenon, <1>2, <1>3

LEMMA RenewedEffect ==
  ASSUME TypeOK, NEW n \in Node, Renewed(n)
  PROVE  Becomes(n, loop[n].at, loop[n].timer, loop[n].created, "none", loop[n].acquire,
                 loop[n].age, loop[n].errors, loop[n].skipped)
BY Zenon DEF TypeOK, Renewed, Becomes, LoopState

LEMMA AcquiredEffect ==
  ASSUME TypeOK, NEW n \in Node, Acquired(n)
  PROVE  Becomes(n, loop[n].at, loop[n].timer, loop[n].created, loop[n].renew, "none",
                 loop[n].age, 0, loop[n].skipped)
<1> DEFINE k == [loop[n] EXCEPT !.acquire = "none", !.errors = 0]
<1>1. loop[n] \in LoopState /\ 0 \in 0 .. MaxErrors
  BY ConstantTypes DEF TypeOK
<1>2. loop'[n] = k /\ loop' = [loop EXCEPT ![n] = loop'[n]]
  <2>1. loop' = [loop EXCEPT ![n] = k]
    BY Zenon DEF Acquired
  <2> HIDE DEF k
  <2> QED
    BY Zenon, <2>1, LoopUpdated
<1>3. /\ k \in LoopState
      /\ k.at = loop[n].at /\ k.timer = loop[n].timer /\ k.created = loop[n].created
      /\ k.renew = loop[n].renew /\ k.acquire = "none" /\ k.age = loop[n].age /\ k.errors = 0
      /\ k.skipped = loop[n].skipped
  BY Zenon, <1>1 DEF LoopState
<1> HIDE DEF k
<1> QED
  BY Zenon, <1>2, <1>3 DEF Becomes

LEMMA RestartEffect ==
  ASSUME TypeOK, NEW n \in Node, NEW pause \in Nat, NEW errors \in 0 .. MaxErrors,
         Restart(n, pause, errors)
  PROVE  Becomes(n, "session", pause, FALSE, "none", "none", 0, errors, FALSE)
BY ConstantTypes DEF TypeOK, Restart, Start, Becomes, LoopState

-----------------------------------------------------------------------------
(* Types, and what every node keeps. *)

\* A step of one node.
LEMMA NodeTypes ==
  ASSUME TypeInv, NEW n \in Node, loop'[n] \in LoopState,
         loop' = [loop EXCEPT ![n] = loop'[n]],
         IF loop'[n].at = "renewing" THEN loop'[n].timer <= RenewTime
         ELSE loop'[n].timer \in 0 .. TTL + ErrorPause,
         left' \in [Session -> {Ended} \cup 0 .. TTL],
         \A m \in Node \ {n} : left'[m] = left[m],
         holder' \in {holder, n, GivenUp},
         UNCHANGED <<lockDelay, constate>>, isLeader' \in [Node -> BOOLEAN], heard' \subseteq Node,
         LoopInv(n)'
  PROVE  TypeInv'
<1>1. \A m \in Node \ {n} : loop'[m] = loop[m]
  BY Zenon DEF TypeInv, TypeOK
<1>2. TypeOK'
  BY Zenon, <1>1 DEF TypeInv, TypeOK, Session
<1>3. ASSUME NEW m \in Node \ {n} PROVE LoopInv(m)'
  BY Zenon, <1>1, LoopKept, ConstantTypes DEF TypeInv
<1> QED
  BY Zenon, <1>2, <1>3 DEF TypeInv

LEMMA RestartTypes ==
  ASSUME TypeInv, NEW n \in Node, NEW pause \in 0 .. TTL + ErrorPause, NEW errors \in 0 .. MaxErrors,
         Restart(n, pause, errors)
  PROVE  TypeInv'
<1>1. Becomes(n, "session", pause, FALSE, "none", "none", 0, errors, FALSE)
  <2>1. TypeOK /\ pause \in Nat
    BY ConstantTypes DEF TypeInv
  <2> QED
    BY Zenon, <2>1, RestartEffect
<1>2. left \in [Session -> {Ended} \cup 0 .. TTL]
  BY Zenon DEF TypeInv, TypeOK
<1>3. /\ left' \in [Session -> {Ended} \cup 0 .. TTL] /\ left'[n] = Ended
      /\ \A m \in Node \ {n} : left'[m] = left[m]
  BY Zenon, <1>2, ConstantTypes DEF Restart, Session
<1>4. holder' \in {holder, GivenUp} /\ holder' # n
  BY Zenon, ConstantTypes DEF Restart
<1>5. LoopInv(n)'
  BY Zenon, <1>1, <1>3, <1>4 DEF LoopInv, Waiting, Becomes
<1>6. UNCHANGED <<lockDelay, constate, isLeader, heard>>
  BY Zenon DEF Restart, stateVars
<1> QED
  BY Zenon, <1>1, <1>3, <1>4, <1>5, <1>6, NodeTypes DEF TypeInv, TypeOK, Becomes

\* The loops of all nodes after a tick.
LEMMA TickEffect ==
  ASSUME TypeOK, Tick, NEW n \in Node
  PROVE  /\ loop'[n] \in LoopState
         /\ loop'[n].at = loop[n].at /\ loop'[n].timer = loop[n].timer - 1
         /\ loop'[n].created = loop[n].created /\ loop'[n].renew = loop[n].renew
         /\ loop'[n].acquire = loop[n].acquire
         /\ loop'[n].age = (IF Waiting(n) THEN loop[n].age + 1 ELSE 0)
         /\ loop'[n].errors = loop[n].errors /\ loop'[n].skipped = loop[n].skipped
<1> DEFINE age == IF Waiting(n) THEN loop[n].age + 1 ELSE 0
           k   == [loop[n] EXCEPT !.timer = loop[n].timer - 1, !.age = age]
<1>1. loop[n] \in LoopState
  BY Zenon DEF TypeOK
<1>2. loop[n].timer - 1 \in Int /\ age \in 0 .. MaxRtt
  <2>1. Waiting(n) => loop[n].age # MaxRtt
    BY Zenon DEF Tick, Urgent
  <2>2. loop[n].timer \in Int /\ loop[n].age \in 0 .. MaxRtt
    BY Zenon, <1>1 DEF LoopState
  <2> QED
    BY <2>1, <2>2, ConstantTypes
<1>3. loop'[n] = k
  BY Zenon DEF Tick
<1> HIDE DEF age
<1>4. k \in LoopState /\ k.age = age
  BY Zenon, <1>1, <1>2 DEF LoopState
<1>5. /\ k.at = loop[n].at /\ k.timer = loop[n].timer - 1 /\ k.created = loop[n].created
      /\ k.renew = loop[n].renew /\ k.acquire = loop[n].acquire
      /\ k.errors = loop[n].errors /\ k.skipped = loop[n].skipped
  BY Zenon, <1>1, <1>2 DEF LoopState
<1> HIDE DEF k
<1> QED
  BY Zenon, <1>3, <1>4, <1>5 DEF age

\* The rest of a tick.
LEMMA TickRest ==
  ASSUME Tick
  PROVE  /\ left' = [s \in Session |-> IF left[s] = Ended THEN Ended ELSE left[s] - 1]
         /\ lockDelay' = (IF lockDelay = 0 THEN 0 ELSE lockDelay - 1)
         /\ UNCHANGED <<holder, constate, isLeader, heard>>
BY Zenon DEF Tick, stateVars

LEMMA TickTypes ==
  ASSUME TypeInv, Tick
  PROVE  TypeInv'
<1>1. ASSUME NEW n \in Node
      PROVE  /\ loop'[n] \in LoopState
             /\ IF loop'[n].at = "renewing" THEN loop'[n].timer <= RenewTime
                ELSE loop'[n].timer \in 0 .. TTL + ErrorPause
             /\ LoopInv(n)'
  <2>1. loop[n] \in LoopState /\ LoopInv(n)
    BY Zenon DEF TypeInv, TypeOK
  <2>2. /\ loop[n].at \in {"session", "creating"} => loop[n].timer # 0
        /\ loop[n].at = "creating" /\ loop[n].errors = MaxErrors => TTL - loop[n].timer < MaxRtt
    <3>1. loop[n].timer \in Int
      BY Zenon, <2>1 DEF LoopState
    <3>2. ~(loop[n].at = "creating" /\ loop[n].errors = MaxErrors /\ TTL - loop[n].timer >= MaxRtt)
      BY Zenon DEF Tick, Urgent
    <3>3. ~(loop[n].at \in {"session", "creating"} /\ loop[n].timer = 0)
      BY Zenon DEF Tick, Urgent
    <3> QED
      BY <3>1, <3>2, <3>3, ConstantTypes
  <2>3. /\ loop'[n] \in LoopState
        /\ loop'[n].at = loop[n].at /\ loop'[n].timer = loop[n].timer - 1
        /\ loop'[n].created = loop[n].created /\ loop'[n].renew = loop[n].renew
        /\ loop'[n].acquire = loop[n].acquire
        /\ loop'[n].errors = loop[n].errors /\ loop'[n].skipped = loop[n].skipped
    BY Zenon, TickEffect DEF TypeInv
  <2>4. left[n] = Ended => left'[n] = Ended
    BY Zenon DEF Tick, Session
  <2>5. holder' = holder
    BY Zenon DEF Tick
  <2>6. /\ loop[n].at = "renewing" => loop[n].timer <= RenewTime
        /\ loop[n].at # "renewing" => loop[n].timer \in 0 .. TTL + ErrorPause
    BY Zenon DEF TypeInv, TypeOK
  <2>7. LoopInv(n)'
    BY <2>1, <2>2, <2>3, <2>4, <2>5, ConstantTypes DEF LoopInv, Waiting, InTime, LoopState
  <2> QED
    BY <2>1, <2>2, <2>3, <2>6, <2>7, ConstantTypes DEF LoopState
<1>2. loop' \in [Node -> LoopState]
  <2>1. loop' = [n \in Node |-> loop'[n]]
    BY Zenon DEF Tick
  <2> QED
    BY Zenon, <1>1, <2>1
<1>3. left' \in [Session -> {Ended} \cup 0 .. TTL]
  <2>1. \A s \in Session : left[s] \in {Ended} \cup 0 .. TTL /\ left[s] # 0
    BY Zenon DEF TypeInv, TypeOK, Tick, Urgent
  <2>2. left' = [s \in Session |-> IF left[s] = Ended THEN Ended ELSE left[s] - 1]
    BY Zenon DEF Tick
  <2> QED
    BY <2>1, <2>2, ConstantTypes
<1>4. lockDelay' \in 0 .. TTL
  <2>1. lockDelay \in 0 .. TTL /\ lockDelay' = IF lockDelay = 0 THEN 0 ELSE lockDelay - 1
    BY Zenon DEF TypeInv, TypeOK, Tick
  <2> QED
    BY <2>1, ConstantTypes
<1>5. UNCHANGED <<holder, constate, isLeader, heard>>
  BY Zenon DEF Tick, stateVars
<1>6. TypeOK'
  <2>1. /\ constate \in [Node -> ConsensusState] /\ isLeader \in [Node -> BOOLEAN]
        /\ holder \in Session \cup {NoOne} /\ heard \subseteq Node
    BY Zenon DEF TypeInv, TypeOK
  <2> QED
    BY Zenon, <1>1, <1>2, <1>3, <1>4, <1>5, <2>1 DEF TypeOK
<1> QED
  BY <1>1, <1>6 DEF TypeInv

LEMMA ServerTypes ==
  ASSUME TypeInv, Server
  PROVE  TypeInv'
<1>0. TypeOK /\ \A n \in Node : LoopInv(n) /\ loop[n] \in LoopState
  BY Zenon DEF TypeInv, TypeOK
<1>1. ASSUME NEW n \in Node, CreateSession(n) PROVE TypeInv'
  <2>1. Becomes(n, "creating", loop[n].timer, TRUE, loop[n].renew, loop[n].acquire,
                loop[n].age, loop[n].errors, loop[n].skipped)
    BY Zenon, <1>0, <1>1, CreateSessionEffect DEF CreateSession
  <2>2. left' \in [Session -> {Ended} \cup 0 .. TTL] /\ \A m \in Node \ {n} : left'[m] = left[m]
    BY <1>0, <1>1, ConstantTypes DEF CreateSession, TypeOK, Session
  <2>3. UNCHANGED <<holder, lockDelay, constate, isLeader, heard>> /\ InTime(n)
    BY Zenon, <1>1 DEF CreateSession, stateVars
  <2>4. LoopInv(n)'
    BY Zenon, <1>0, <2>1, <2>3, <1>1 DEF LoopInv, Becomes, Waiting, InTime, CreateSession
  <2>5. loop'[n].timer \in 0 .. TTL + ErrorPause /\ loop'[n].at # "renewing"
    BY Zenon, <1>0, <1>1, <2>1 DEF Becomes, TypeOK, CreateSession
  <2> QED
    BY Zenon, <1>0, <2>1, <2>2, <2>3, <2>4, <2>5, NodeTypes DEF TypeOK, Becomes
<1>2. ASSUME NEW n \in Node, AnswerRenew(n) PROVE TypeInv'
  <2>0. loop[n].at = "renewing" /\ loop[n].timer <= RenewTime
    BY Zenon, <1>0, <1>2 DEF AnswerRenew, LoopInv, Waiting, TypeOK
  <2>1. Becomes(n, "renewing", loop[n].timer, loop[n].created,
                IF left[n] = Ended THEN "error" ELSE "ok", loop[n].acquire,
                loop[n].age, loop[n].errors, loop[n].skipped)
    BY Zenon, <1>0, <1>2, <2>0, AnswerRenewEffect
  <2>2. /\ left' \in [Session -> {Ended} \cup 0 .. TTL]
        /\ \A m \in Node \ {n} : left'[m] = left[m]
        /\ left[n] = Ended => left'[n] = Ended
    BY <1>0, <1>2, ConstantTypes DEF AnswerRenew, TypeOK, Session
  <2>3. UNCHANGED <<holder, lockDelay, constate, isLeader, heard>>
    BY <1>2 DEF AnswerRenew, stateVars
  <2>4. LoopInv(n)'
    BY Zenon, <1>0, <2>0, <2>1, <2>2, <2>3 DEF LoopInv, Becomes
  <2> QED
    BY Zenon, <1>0, <2>0, <2>1, <2>2, <2>3, <2>4, NodeTypes DEF TypeOK, Becomes
<1>3. ASSUME NEW n \in Node, AnswerAcquire(n) PROVE TypeInv'
  <2>0. loop[n].at = "renewing" /\ loop[n].timer <= RenewTime
    BY Zenon, <1>0, <1>3 DEF AnswerAcquire, LoopInv, Waiting, TypeOK
  <2>1. Becomes(n, "renewing", loop[n].timer, loop[n].created, loop[n].renew,
                IF left[n] = Ended THEN "error" ELSE IF MayAcquire(n) THEN "true" ELSE "false",
                loop[n].age, loop[n].errors, loop[n].skipped)
    BY Zenon, <1>0, <1>3, <2>0, AnswerAcquireEffect
  <2>2. UNCHANGED <<left, lockDelay, constate, isLeader, heard>> /\ holder' \in {holder, n}
    BY Zenon, <1>3 DEF AnswerAcquire, stateVars
  <2>3. LoopInv(n)'
    BY Zenon, <1>0, <2>0, <2>1, <2>2 DEF LoopInv, Becomes
  <2> QED
    BY Zenon, <1>0, <2>0, <2>1, <2>2, <2>3, NodeTypes DEF TypeOK, Becomes
<1>4. ASSUME NEW s \in Session, Expire(s) PROVE TypeInv'
  <2>1. /\ left' \in [Session -> {Ended} \cup 0 .. TTL]
        /\ \A m \in Node : left[m] = Ended => left'[m] = Ended
    BY Zenon, <1>0, <1>4, ConstantTypes DEF Expire, TypeOK, Session, Ended
  <2>2. UNCHANGED <<loop, constate, isLeader, heard>>
    BY <1>4 DEF Expire, stateVars
  <2>3. holder' \in {holder, NoOne} /\ lockDelay' \in {lockDelay, TTL}
    BY <1>4 DEF Expire, LockDelay
  <2>4. TypeOK'
    BY <1>0, <2>1, <2>2, <2>3, ConstantTypes DEF TypeOK
  <2>5. ASSUME NEW m \in Node PROVE LoopInv(m)'
    BY Zenon, <1>0, <2>1, <2>2, <2>3, ConstantTypes DEF LoopInv, Waiting, InTime
  <2> QED
    BY <2>4, <2>5 DEF TypeInv
<1> QED
  BY <1>1, <1>2, <1>3, <1>4 DEF Server

\* The steps that give the session up.
LEMMA Restarts ==
  ASSUME TypeInv, NEW n \in Node,
         SessionError(n) \/ SessionRefused(n) \/ SessionTimeout(n) \/ Refused(n) \/ Broken(n)
  PROVE  \E pause \in 0 .. TTL + ErrorPause, errors \in 0 .. MaxErrors : Restart(n, pause, errors)
<1>0. /\ LoopInv(n) /\ loop[n].errors \in 0 .. MaxErrors
      /\ loop[n].at = "creating" => loop[n].timer \in 0 .. TTL
      /\ {0, ErrorPause} \subseteq 0 .. TTL + ErrorPause
  BY ConstantTypes DEF TypeInv, TypeOK, LoopState, LoopInv
<1>1. CASE SessionError(n) \/ Broken(n)
  <2>1. loop[n].errors + 1 \in 0 .. MaxErrors /\ Restart(n, ErrorPause, loop[n].errors + 1)
    BY <1>0, <1>1, ConstantTypes DEF SessionError, Broken
  <2> QED
    BY Zenon, <1>0, <2>1
<1>2. CASE SessionRefused(n)
  <2> DEFINE pause == IF loop[n].timer > StatusPause THEN StatusPause + ErrorPause ELSE loop[n].timer
  <2>1. loop[n].errors + 1 \in 0 .. MaxErrors /\ Restart(n, pause, loop[n].errors + 1) /\ pause \in 0 .. TTL + ErrorPause
    BY <1>0, <1>2, ConstantTypes DEF SessionRefused
  <2> HIDE DEF pause
  <2> QED
    BY Zenon, <2>1
<1>3. CASE SessionTimeout(n)
  <2>1. loop[n].errors + 1 \in 0 .. MaxErrors /\ Restart(n, 0, loop[n].errors + 1)
    BY <1>0, <1>3, ConstantTypes DEF SessionTimeout, LoopInv, InTime
  <2> QED
    BY Zenon, <1>0, <2>1
<1>4. CASE Refused(n)
  BY Zenon, <1>0, <1>4, ConstantTypes DEF Refused
<1> QED
  BY <1>1, <1>2, <1>3, <1>4

LEMMA NodeStepTypes ==
  ASSUME TypeInv, NEW n \in Node, Step(n)
  PROVE  TypeInv'
<1>0. TypeOK /\ LoopInv(n) /\ loop[n] \in LoopState /\ loop[n].errors \in 0 .. MaxErrors
  <2>1. TypeOK /\ LoopInv(n) /\ loop[n] \in LoopState
    BY Zenon DEF TypeInv, TypeOK
  <2> QED
    BY Zenon, <2>1 DEF LoopState
<1>1. CASE LoopSession(n)
  <2>1. loop[n].at = "session" /\ UNCHANGED <<left, holder, lockDelay, constate, isLeader, heard>>
    BY Zenon, <1>1 DEF LoopSession, consulVars, stateVars
  <2>2. CASE Becomes(n, "session", ErrorPause, loop[n].created, loop[n].renew, loop[n].acquire,
                     loop[n].age, loop[n].errors, loop[n].skipped)
    <3>1. LoopInv(n)'
      BY Zenon, <1>0, <2>1, <2>2 DEF LoopInv, Becomes, Waiting
    <3> QED
      BY <1>0, <2>1, <2>2, <3>1, NodeTypes, ConstantTypes DEF TypeOK, Becomes
  <2>3. CASE Becomes(n, "creating", TTL, loop[n].created, loop[n].renew, loop[n].acquire,
                     loop[n].age, loop[n].errors, loop[n].skipped)
    <3>1. LoopInv(n)'
      BY <1>0, <2>1, <2>3, ConstantTypes DEF LoopInv, Becomes, Waiting, InTime
    <3> QED
      BY <1>0, <2>1, <2>3, <3>1, NodeTypes, ConstantTypes DEF TypeOK, Becomes
  <2> QED
    BY Zenon, <1>0, <1>1, <2>2, <2>3, LoopSessionEffect
<1>2. CASE SessionCreated(n)
  <2>1. Becomes(n, "renewing", RenewTime, loop[n].created, loop[n].renew, loop[n].acquire,
                loop[n].age, loop[n].errors, loop[n].skipped)
    BY Zenon, <1>0, <1>2, SessionCreatedEffect
  <2>2. loop[n].created /\ UNCHANGED <<left, holder, lockDelay, constate, isLeader, heard>>
    BY Zenon, <1>2 DEF SessionCreated, consulVars, stateVars
  <2>3. LoopInv(n)'
    BY Zenon, <1>0, <2>1, <2>2 DEF LoopInv, Becomes
  <2> QED
    BY <1>0, <2>1, <2>2, <2>3, NodeTypes, ConstantTypes DEF TypeOK, Becomes
<1>3. CASE SessionError(n) \/ SessionRefused(n) \/ SessionTimeout(n) \/ Refused(n) \/ Broken(n)
  BY Zenon, <1>3, Restarts, RestartTypes
<1>4. CASE Beat(n)
  <2>1. /\ loop[n].at = "renewing" /\ ~Waiting(n) /\ loop[n].timer <= 0 /\ loop[n].timer \in Int
        /\ UNCHANGED <<left, holder, lockDelay, constate, isLeader, heard>>
    BY Zenon, <1>0, <1>4 DEF Beat, BeatDue, consulVars, stateVars, LoopState
  <2>2. /\ loop'[n] \in LoopState /\ loop' = [loop EXCEPT ![n] = loop'[n]]
        /\ loop'[n].at = "renewing" /\ loop'[n].timer = loop[n].timer + RenewTime
        /\ loop'[n].created = loop[n].created
    BY Zenon, <1>0, <1>4, BeatEffect DEF Becomes
  <2>3. LoopInv(n)'
    BY Zenon, <1>0, <2>1, <2>2 DEF LoopInv
  <2>4. loop'[n].timer <= RenewTime
    BY <2>1, <2>2, ConstantTypes
  <2> QED
    BY Zenon, <1>0, <2>1, <2>2, <2>3, <2>4, NodeTypes DEF TypeOK
<1>5. CASE Renewed(n)
  <2>0. loop[n].at = "renewing" /\ loop[n].timer <= RenewTime
    BY Zenon, <1>0, <1>5 DEF Renewed, LoopInv, Waiting, TypeOK
  <2>1. Becomes(n, "renewing", loop[n].timer, loop[n].created, "none", loop[n].acquire,
                loop[n].age, loop[n].errors, loop[n].skipped)
    BY Zenon, <1>0, <1>5, <2>0, RenewedEffect
  <2>2. UNCHANGED <<left, holder, lockDelay, constate, isLeader, heard>>
    BY <1>5 DEF Renewed, consulVars, stateVars
  <2>3. LoopInv(n)'
    BY Zenon, <1>0, <2>0, <2>1, <2>2 DEF LoopInv, Becomes
  <2> QED
    BY Zenon, <1>0, <2>0, <2>1, <2>2, <2>3, NodeTypes DEF TypeOK, Becomes
<1>6. CASE Acquired(n)
  <2>0. loop[n].at = "renewing" /\ loop[n].timer <= RenewTime
    BY Zenon, <1>0, <1>6 DEF Acquired, LoopInv, Waiting, TypeOK
  <2>1. Becomes(n, "renewing", loop[n].timer, loop[n].created, loop[n].renew, "none",
                loop[n].age, 0, loop[n].skipped)
    BY Zenon, <1>0, <1>6, <2>0, AcquiredEffect
  <2>2. UNCHANGED <<left, holder, lockDelay, constate>>
    BY Zenon, <1>6 DEF Acquired, consulVars
  <2>3. isLeader' \in [Node -> BOOLEAN] /\ heard' \subseteq Node
    BY Zenon, <1>0, <1>6 DEF Acquired, TypeOK
  <2>4. LoopInv(n)'
    BY Zenon, <1>0, <2>0, <2>1, <2>2 DEF LoopInv, Becomes
  <2> QED
    BY Zenon, <1>0, <2>0, <2>1, <2>2, <2>3, <2>4, NodeTypes DEF TypeOK, Becomes
<1> QED
  BY <1>1, <1>2, <1>3, <1>4, <1>5, <1>6 DEF Step

LEMMA CommandTypes ==
  ASSUME TypeInv, NEW c \in Command, Manage(c)
  PROVE  TypeInv'
<1>1. c[1] \in Node /\ NewState(c[2]) \in ConsensusState /\ \A b \in BOOLEAN : NewLeader(c[3], b) \in BOOLEAN
  BY Zenon, ConsulAssumption DEF NewState, NewLeader, ConsensusAction, LeaderAction, ConsensusState
<1>2. UNCHANGED <<loop, left, holder, lockDelay>>
  BY Zenon DEF Manage, consulVars
<1>3. constate' \in [Node -> ConsensusState] /\ isLeader' \in [Node -> BOOLEAN] /\ heard' \subseteq Node
  BY Zenon, <1>1 DEF Manage, TypeInv, TypeOK
<1>4. TypeOK'
  BY Zenon, <1>2, <1>3 DEF TypeInv, TypeOK
<1>5. \A n \in Node : LoopInv(n)'
  BY Zenon, <1>2 DEF TypeInv, LoopInv, Waiting, InTime
<1> QED
  BY <1>4, <1>5 DEF TypeInv

LEMMA InitTypes == Init => TypeInv
<1> SUFFICES ASSUME Init PROVE TypeInv
  OBVIOUS
<1>1. Start(0, 0) \in LoopState /\ TTL + ErrorPause \in Nat
  BY ConstantTypes DEF Start, LoopState
<1>2. TypeOK
  <2>1. \A n \in Node : loop[n].at = "session" /\ loop[n].timer = 0
    BY Zenon DEF Init, Start
  <2>2. constate \in [Node -> ConsensusState] /\ loop \in [Node -> LoopState]
    BY Zenon, <1>1, ConsulAssumption DEF Init
  <2>3. left \in [Session -> {Ended} \cup 0 .. TTL] /\ isLeader \in [Node -> BOOLEAN]
    BY DEF Init
  <2>4. lockDelay \in 0 .. TTL /\ 0 \in 0 .. TTL + ErrorPause /\ holder = NoOne /\ heard = {}
    BY <1>1, ConstantTypes DEF Init
  <2> QED
    BY Zenon, <2>1, <2>2, <2>3, <2>4 DEF TypeOK
<1>3. ASSUME NEW n \in Node PROVE LoopInv(n)
  BY Zenon, ConstantTypes DEF Init, LoopInv, Start, Waiting, Session
<1> QED
  BY <1>2, <1>3 DEF TypeInv

LEMMA StepTypes ==
  ASSUME TypeInv, [Next]_vars
  PROVE  TypeInv'
<1>1. CASE UNCHANGED vars
  BY Zenon, <1>1 DEF TypeInv, TypeOK, LoopInv, Waiting, InTime, vars
<1> QED
  BY <1>1, NodeStepTypes, CommandTypes, ServerTypes, TickTypes DEF Next

\* Every loop is in a state consul.rs can be in, its timers keep their bounds,
\* and Consul knows a session of a node only while the node waits for it or
\* works with it.
THEOREM TypesInductive == Spec => []TypeInv
<1>1. Init => TypeInv
  BY InitTypes
<1>2. TypeInv /\ [Next]_vars => TypeInv'
  BY StepTypes
<1> QED
  BY <1>1, <1>2, PTL DEF Spec

\* The type invariant of Consul: sessions, timers, requests under way and the
\* LockDelay keep their bounds, for every number of nodes.
THEOREM TypeCorrect == Spec => []TypeOK
<1>1. TypeInv => TypeOK
  BY DEF TypeInv
<1> QED
  BY <1>1, TypesInductive, PTL

-----------------------------------------------------------------------------
(* The session of a node. *)

\* An answer to session/renew arrives before the session ends: two answers may
\* be late, and between them the node waits for the next beat.
RenewsInTime == 2 * MaxRtt + RenewTime < TTL

LEMMA LeaseKept ==
  ASSUME NEW m \in Node, LeaseInv(m), loop'[m] = loop[m], left'[m] = left[m]
  PROVE  LeaseInv(m)'
BY Zenon DEF LeaseInv, Waiting

LEMMA LeaseKeptByOthers ==
  ASSUME TypeInv, NEW n \in Node, \A m \in Node : LeaseInv(m), LeaseInv(n)',
         loop' = [loop EXCEPT ![n] = loop'[n]], \A m \in Node \ {n} : left'[m] = left[m]
  PROVE  \A m \in Node : LeaseInv(m)'
<1>1. \A m \in Node \ {n} : loop'[m] = loop[m]
  BY Zenon DEF TypeInv, TypeOK
<1> QED
  BY Zenon, <1>1, LeaseKept

\* What the proofs below need to know of node n.
LEMMA LoopFields ==
  ASSUME TypeInv, NEW n \in Node
  PROVE  /\ loop[n].at \in {"session", "creating", "renewing"} /\ loop[n].timer \in Int
         /\ loop[n].created \in BOOLEAN /\ loop[n].skipped \in BOOLEAN
         /\ loop[n].age \in 0 .. MaxRtt /\ loop[n].errors \in 0 .. MaxErrors
         /\ left[n] \in Int /\ left[n] >= -1 /\ left[n] <= TTL
         /\ loop[n].at = "renewing" => loop[n].timer <= RenewTime
         /\ loop[n].at # "renewing" => loop[n].timer >= 0
<1>1. loop[n] \in LoopState /\ left[n] \in {Ended} \cup 0 .. TTL
  BY Zenon DEF TypeInv, TypeOK, Session
<1>2. /\ loop[n].at = "renewing" => loop[n].timer <= RenewTime
      /\ loop[n].at # "renewing" => loop[n].timer \in 0 .. TTL + ErrorPause
  BY Zenon DEF TypeInv, TypeOK
<1> QED
  BY <1>1, <1>2, ConstantTypes DEF LoopState, Ended

LEMMA TickLease ==
  ASSUME TypeInv, Tick, NEW n \in Node, LeaseInv(n)
  PROVE  LeaseInv(n)'
<1>1. /\ loop'[n].at = loop[n].at /\ loop'[n].timer = loop[n].timer - 1
      /\ loop'[n].created = loop[n].created /\ loop'[n].renew = loop[n].renew
      /\ loop'[n].acquire = loop[n].acquire
      /\ loop'[n].age = (IF Waiting(n) THEN loop[n].age + 1 ELSE 0)
      /\ loop'[n].skipped = loop[n].skipped
  <2>1. TypeOK
    BY DEF TypeInv
  <2> QED
    BY Zenon, <2>1, TickEffect
<1>2. left[n] >= 0 => left'[n] = left[n] - 1
  BY LoopFields, TickRest DEF Session, Ended
<1>3. Waiting(n)' <=> Waiting(n)
  BY Zenon, <1>1 DEF Waiting
<1>4. /\ Waiting(n) => loop[n].age < MaxRtt
      /\ loop[n].at = "renewing" /\ ~Waiting(n) => loop[n].timer > 0
  <2>1. /\ Waiting(n) => loop[n].age # MaxRtt
        /\ loop[n].at = "renewing" /\ ~Waiting(n) => ~(loop[n].timer <= 0)
    BY Zenon DEF Tick, Urgent, BeatDue
  <2> QED
    BY <2>1, LoopFields, ConstantTypes
<1>5. /\ loop[n].at = "creating" /\ loop[n].created /\ loop[n].timer > 1 => left'[n] >= loop[n].timer - 1
      /\ loop[n].at = "renewing" /\ ~loop[n].skipped =>
           IF loop[n].renew = "sent" THEN left'[n] > MaxRtt - (loop[n].age + 1)
           ELSE /\ left'[n] > MaxRtt /\ left'[n] > MaxRtt + (loop[n].timer - 1)
                /\ Waiting(n) => left'[n] > 2 * MaxRtt - (loop[n].age + 1)
  <2>1. loop[n].renew = "sent" => Waiting(n)
    BY DEF Waiting
  <2> QED
    BY <1>2, <1>4, <2>1, LoopFields, ConstantTypes DEF LeaseInv
<1>6. loop[n].renew = "sent" => Waiting(n)
  BY Zenon DEF Waiting
<1>7. loop'[n].at = "creating" /\ loop'[n].created /\ loop'[n].timer > 0 => left'[n] >= loop'[n].timer
  BY <1>1, <1>5, LoopFields
<1>8. loop'[n].at = "renewing" /\ ~loop'[n].skipped =>
         IF loop'[n].renew = "sent" THEN left'[n] > MaxRtt - loop'[n].age
         ELSE /\ left'[n] > MaxRtt /\ left'[n] > MaxRtt + loop'[n].timer
              /\ Waiting(n)' => left'[n] > 2 * MaxRtt - loop'[n].age
  BY Zenon, <1>1, <1>3, <1>5, <1>6, LoopFields
<1>9. ~loop'[n].skipped => "error" \notin {loop'[n].renew, loop'[n].acquire}
  BY Zenon, <1>1 DEF LeaseInv
<1> QED
  BY Zenon, <1>7, <1>8, <1>9 DEF LeaseInv

LEMMA ServerLease ==
  ASSUME RenewsInTime, TypeInv, \A n \in Node : LeaseInv(n), Server
  PROVE  \A n \in Node : LeaseInv(n)'
<1>0. TypeOK
  BY DEF TypeInv
<1>1. ASSUME NEW n \in Node, CreateSession(n) PROVE \A m \in Node : LeaseInv(m)'
  <2>1. Becomes(n, "creating", loop[n].timer, TRUE, loop[n].renew, loop[n].acquire,
                loop[n].age, loop[n].errors, loop[n].skipped)
    BY Zenon, <1>0, <1>1, CreateSessionEffect DEF CreateSession
  <2>2. left'[n] = TTL /\ \A m \in Node \ {n} : left'[m] = left[m]
    BY Zenon, <1>0, <1>1 DEF CreateSession, TypeOK, Session
  <2>3. loop[n].timer <= TTL
    BY Zenon, <1>1 DEF TypeInv, LoopInv, CreateSession
  <2>4. LeaseInv(n)'
    BY Zenon, <2>1, <2>2, <2>3, LoopFields, ConstantTypes DEF LeaseInv, Becomes
  <2> QED
    BY Zenon, <2>1, <2>2, <2>4, LeaseKeptByOthers DEF Becomes
<1>2. ASSUME NEW n \in Node, AnswerRenew(n) PROVE \A m \in Node : LeaseInv(m)'
  <2>0. loop[n].at = "renewing" /\ loop[n].renew = "sent" /\ loop[n].timer <= RenewTime
    BY Zenon, <1>2 DEF AnswerRenew, LoopInv, Waiting, TypeInv, TypeOK
  <2>1. Becomes(n, "renewing", loop[n].timer, loop[n].created,
                IF left[n] = Ended THEN "error" ELSE "ok", loop[n].acquire,
                loop[n].age, loop[n].errors, loop[n].skipped)
    BY Zenon, <1>0, <1>2, <2>0, AnswerRenewEffect
  <2>2. (left[n] # Ended => left'[n] = TTL) /\ \A m \in Node \ {n} : left'[m] = left[m]
    BY Zenon, <1>0, <1>2 DEF AnswerRenew, TypeOK, Session
  <2>3. ~loop[n].skipped => left[n] # Ended
    BY <2>0, LoopFields, ConstantTypes DEF LeaseInv, Ended
  <2>4. LeaseInv(n)'
    <3>1. TTL > MaxRtt /\ TTL > MaxRtt + loop[n].timer /\ TTL > 2 * MaxRtt - loop[n].age
      BY <2>0, LoopFields, ConstantTypes DEF RenewsInTime
    <3> QED
      BY Zenon, <2>1, <2>2, <2>3, <3>1 DEF LeaseInv, Becomes
  <2> QED
    BY Zenon, <2>1, <2>2, <2>4, LeaseKeptByOthers DEF Becomes
<1>3. ASSUME NEW n \in Node, AnswerAcquire(n) PROVE \A m \in Node : LeaseInv(m)'
  <2>1. /\ loop'[n].at = loop[n].at /\ loop'[n].timer = loop[n].timer /\ loop'[n].created = loop[n].created
        /\ loop'[n].renew = loop[n].renew /\ loop'[n].age = loop[n].age /\ loop'[n].skipped = loop[n].skipped
        /\ loop' = [loop EXCEPT ![n] = loop'[n]]
        /\ left[n] # Ended => loop'[n].acquire \in {"true", "false"}
    BY Zenon, <1>0, <1>3, AnswerAcquireEffect DEF Becomes
  <2>2. left' = left /\ Waiting(n) /\ loop[n].at = "renewing"
    BY Zenon, <1>3 DEF AnswerAcquire, Waiting, TypeInv, LoopInv
  <2>3. ~loop[n].skipped => left[n] # Ended
    BY <2>2, LoopFields, ConstantTypes DEF LeaseInv, Ended
  <2>4. LeaseInv(n)'
    BY Zenon, <2>1, <2>2, <2>3 DEF LeaseInv
  <2> QED
    BY Zenon, <2>1, <2>2, <2>4, LeaseKeptByOthers
<1>4. ASSUME NEW s \in Session, Expire(s), NEW m \in Node PROVE LeaseInv(m)'
  <2>1. loop' = loop /\ left[s] = 0 /\ (m # s => left'[m] = left[m])
    BY Zenon, <1>0, <1>4 DEF Expire, TypeOK, Session
  <2>2. CASE m # s
    BY <2>1, <2>2, LeaseKept
  <2>3. CASE m = s
    <3>1. ~(loop[m].at = "creating" /\ loop[m].created /\ loop[m].timer > 0)
      BY <2>1, <2>3, LoopFields DEF LeaseInv
    <3>2. ~(loop[m].at = "renewing" /\ ~loop[m].skipped)
      BY <2>1, <2>3, LoopFields, ConstantTypes DEF LeaseInv
    <3> QED
      BY Zenon, <2>1, <3>1, <3>2 DEF LeaseInv
  <2> QED
    BY <2>2, <2>3
<1> QED
  BY <1>1, <1>2, <1>3, <1>4 DEF Server

LEMMA NodeLease ==
  ASSUME RenewsInTime, TypeInv, NEW n \in Node, \A m \in Node : LeaseInv(m), Step(n)
  PROVE  \A m \in Node : LeaseInv(m)'
<1>0. TypeOK /\ LoopInv(n) /\ LeaseInv(n)
  BY DEF TypeInv
<1>1. CASE LoopSession(n)
  <2>1. UNCHANGED left /\ ~loop[n].created
    BY Zenon, <1>0, <1>1 DEF LoopSession, consulVars, LoopInv
  <2>2. /\ loop'[n].at # "renewing" /\ loop'[n].created = loop[n].created
        /\ loop'[n].renew = loop[n].renew /\ loop'[n].acquire = loop[n].acquire
        /\ loop'[n].skipped = loop[n].skipped
        /\ loop' = [loop EXCEPT ![n] = loop'[n]]
    BY Zenon, <1>0, <1>1, LoopSessionEffect DEF Becomes
  <2>3. LeaseInv(n)'
    BY Zenon, <1>0, <2>1, <2>2 DEF LeaseInv
  <2> QED
    BY Zenon, <2>1, <2>2, <2>3, LeaseKeptByOthers
<1>2. CASE SessionCreated(n)
  <2>1. Becomes(n, "renewing", RenewTime, loop[n].created, loop[n].renew, loop[n].acquire,
                loop[n].age, loop[n].errors, loop[n].skipped)
    BY Zenon, <1>0, <1>2, SessionCreatedEffect
  <2>2. UNCHANGED left /\ loop[n].at = "creating" /\ loop[n].created /\ loop[n].timer > 0 /\ InTime(n)
    BY Zenon, <1>2 DEF SessionCreated, consulVars
  <2>3. loop[n].renew = "none" /\ loop[n].acquire = "none"
    BY Zenon, <1>0, <2>2 DEF LoopInv, Waiting
  <2>4. left[n] > MaxRtt + RenewTime
    BY <1>0, <2>2, LoopFields, ConstantTypes DEF LeaseInv, InTime, RenewsInTime
  <2>5. left[n] > MaxRtt
    BY <2>4, LoopFields, ConstantTypes
  <2>6. LeaseInv(n)'
    BY Zenon, <2>1, <2>2, <2>3, <2>4, <2>5 DEF LeaseInv, Becomes, Waiting
  <2> QED
    BY Zenon, <2>1, <2>2, <2>6, LeaseKeptByOthers DEF Becomes
<1>3. ASSUME NEW pause \in 0 .. TTL + ErrorPause, NEW errors \in 0 .. MaxErrors, Restart(n, pause, errors)
      PROVE  \A m \in Node : LeaseInv(m)'
  <2>1. Becomes(n, "session", pause, FALSE, "none", "none", 0, errors, FALSE)
    <3>1. pause \in Nat
      BY ConstantTypes
    <3> QED
      BY Zenon, <1>0, <1>3, <3>1, RestartEffect
  <2>2. \A m \in Node \ {n} : left'[m] = left[m]
    BY Zenon, <1>0, <1>3, ConstantTypes DEF Restart, TypeOK, Session
  <2>3. LeaseInv(n)'
    BY Zenon, <2>1 DEF LeaseInv, Becomes
  <2> QED
    BY Zenon, <2>1, <2>2, <2>3, LeaseKeptByOthers DEF Becomes
<1>4. CASE Beat(n)
  <2>1. /\ loop[n].at = "renewing" /\ loop[n].renew = "none" /\ UNCHANGED left
    BY Zenon, <1>4 DEF Beat, BeatDue, Waiting, consulVars
  <2>2. /\ loop' = [loop EXCEPT ![n] = loop'[n]] /\ loop'[n].at = "renewing"
        /\ \/ loop'[n].skipped
           \/ /\ loop'[n].renew = "sent" /\ loop'[n].acquire = "sent" /\ loop'[n].age = 0
              /\ loop'[n].skipped = loop[n].skipped
    BY Zenon, <1>0, <1>4, BeatEffect DEF Becomes
  <2>3. ~loop[n].skipped => left[n] > MaxRtt - 0
    BY <1>0, <2>1, ConstantTypes DEF LeaseInv
  <2>4. LeaseInv(n)'
    BY Zenon, <2>1, <2>2, <2>3 DEF LeaseInv
  <2> QED
    BY Zenon, <2>1, <2>2, <2>4, LeaseKeptByOthers
<1>5. CASE Renewed(n)
  <2>1. Becomes(n, loop[n].at, loop[n].timer, loop[n].created, "none", loop[n].acquire,
                loop[n].age, loop[n].errors, loop[n].skipped)
    BY Zenon, <1>0, <1>5, RenewedEffect
  <2>2. UNCHANGED left /\ loop[n].renew = "ok" /\ Waiting(n)
    BY Zenon, <1>5 DEF Renewed, consulVars, Waiting
  <2>3. LeaseInv(n)'
    BY Zenon, <1>0, <2>1, <2>2 DEF LeaseInv, Becomes
  <2> QED
    BY Zenon, <2>1, <2>2, <2>3, LeaseKeptByOthers DEF Becomes
<1>6. CASE Acquired(n)
  <2>1. Becomes(n, loop[n].at, loop[n].timer, loop[n].created, loop[n].renew, "none",
                loop[n].age, 0, loop[n].skipped)
    BY Zenon, <1>0, <1>6, AcquiredEffect
  <2>2. UNCHANGED left /\ Waiting(n)
    BY Zenon, <1>6 DEF Acquired, consulVars, Waiting
  <2>3. LeaseInv(n)'
    BY Zenon, <1>0, <2>1, <2>2 DEF LeaseInv, Becomes
  <2> QED
    BY Zenon, <2>1, <2>2, <2>3, LeaseKeptByOthers DEF Becomes
<1>7. CASE SessionError(n) \/ SessionRefused(n) \/ SessionTimeout(n) \/ Refused(n) \/ Broken(n)
  BY Zenon, <1>3, <1>7, Restarts
<1> QED
  BY Zenon, <1>1, <1>2, <1>4, <1>5, <1>6, <1>7 DEF Step

LEMMA LeaseStep ==
  ASSUME RenewsInTime, TypeInv, \A n \in Node : LeaseInv(n), [Next]_vars
  PROVE  \A n \in Node : LeaseInv(n)'
<1>1. CASE UNCHANGED vars
  BY <1>1, LeaseKept DEF vars
<1>2. ASSUME NEW c \in Command, Manage(c) PROVE \A n \in Node : LeaseInv(n)'
  BY Zenon, <1>2, LeaseKept DEF Manage, consulVars
<1> QED
  BY <1>1, <1>2, NodeLease, ServerLease, TickLease DEF Next

\* Every session a node works with is renewed in time.
THEOREM LeaseInductive == ASSUME RenewsInTime PROVE Spec => [](\A n \in Node : LeaseInv(n))
<1> DEFINE Lease == \A n \in Node : LeaseInv(n)
<1>1. Init => Lease
  BY DEF Init, Start, LeaseInv
<1>2. TypeInv /\ Lease /\ [Next]_vars => Lease'
  BY LeaseStep
<1> HIDE DEF Lease
<1>3. Spec => []Lease
  BY <1>1, <1>2, TypesInductive, PTL DEF Spec
<1> QED
  BY <1>3 DEF Lease

\* The session a node works with never ends under it, in the Paused state as
\* in the Enabled state, for every TTL that leaves room for two late answers
\* and the beat between them.
THEOREM LockIsKept == ASSUME RenewsInTime PROVE Spec => []LockKept
<1>1. TypeInv /\ (\A n \in Node : LeaseInv(n)) => LockKept
  BY LoopFields, ConstantTypes DEF LockKept, LeaseInv
<1> QED
  BY <1>1, TypesInductive, LeaseInductive, PTL

-----------------------------------------------------------------------------
(* Leaders. *)

\* A node meets at most one error between two answers, and after it the TTL
\* leaves room for the pause, a new session and the beat, answered late.
RetriesInTime == MaxErrors <= 1 /\ ErrorPause + 2 * MaxRtt + RenewTime <= TTL

LEMMA RetriesRenew == RetriesInTime => RenewsInTime
BY ConstantTypes DEF RetriesInTime, RenewsInTime

\* An answer takes time.
LEMMA AnswerTakesTime ==
  ASSUME TypeInv, NEW n \in Node, NEW k \in Int, AnsweredWithin(n, k)
  PROVE  k > 0
<1>1. loop[n].at = "creating" => TTL - loop[n].timer <= MaxRtt
  BY Zenon DEF TypeInv, LoopInv, InTime, AnsweredWithin
<1>2. CASE loop[n].at = "renewing"
  BY <1>2, LoopFields, ConstantTypes DEF AnsweredWithin
<1>3. CASE loop[n].at # "renewing"
  BY <1>1, <1>3, LoopFields, ConstantTypes DEF AnsweredWithin
<1> QED
  BY <1>2, <1>3

\* What has to be over before the next tick.
LEMMA TickGuard ==
  ASSUME TypeInv, Tick, NEW n \in Node
  PROVE  /\ Waiting(n) => loop[n].age < MaxRtt
         /\ loop[n].at = "renewing" /\ ~Waiting(n) => loop[n].timer > 0
<1>1. /\ Waiting(n) => loop[n].age # MaxRtt
      /\ loop[n].at = "renewing" /\ ~Waiting(n) => ~(loop[n].timer <= 0)
  BY Zenon DEF Tick, Urgent, BeatDue
<1> QED
  BY <1>1, LoopFields, ConstantTypes

LEMMA TickAnswered ==
  ASSUME TypeInv, Tick, NEW n \in Node, NEW k \in Int, AnsweredWithin(n, k)
  PROVE  AnsweredWithin(n, k - 1)'
<1>1. /\ loop'[n].at = loop[n].at /\ loop'[n].timer = loop[n].timer - 1
      /\ loop'[n].renew = loop[n].renew /\ loop'[n].acquire = loop[n].acquire
      /\ loop'[n].age = (IF Waiting(n) THEN loop[n].age + 1 ELSE 0)
      /\ loop'[n].errors = loop[n].errors
  <2>1. TypeOK
    BY DEF TypeInv
  <2> QED
    BY Zenon, <2>1, TickEffect
<1>2. Waiting(n)' <=> Waiting(n)
  BY Zenon, <1>1 DEF Waiting
<1>3. loop[n].at = "session" => k - 1 > (loop[n].timer - 1) + 2 * MaxRtt + RenewTime
  BY LoopFields, ConstantTypes DEF AnsweredWithin
<1>4. loop[n].at = "creating" => k - 1 > 2 * MaxRtt + RenewTime - (TTL - (loop[n].timer - 1))
  BY LoopFields, ConstantTypes DEF AnsweredWithin
<1>5. loop[n].at = "renewing" /\ Waiting(n) =>
          loop[n].acquire # "none" /\ k - 1 > MaxRtt - (loop[n].age + 1)
  BY LoopFields, ConstantTypes DEF AnsweredWithin
<1>6. loop[n].at = "renewing" /\ ~Waiting(n) => k - 1 > MaxRtt /\ k - 1 > MaxRtt + (loop[n].timer - 1)
  BY LoopFields, ConstantTypes, TickGuard DEF AnsweredWithin
<1> QED
  BY Zenon, <1>1, <1>2, <1>3, <1>4, <1>5, <1>6 DEF AnsweredWithin

\* A step of node n itself, or of Consul for it, brings the answer nearer.
LEMMA NodeAnswered ==
  ASSUME TypeInv, NEW n \in Node, NEW k \in Int, AnsweredWithin(n, k),
         constate[n] # "Disabled",
         \/ LoopSession(n) \/ SessionCreated(n) \/ Beat(n) \/ Renewed(n)
         \/ CreateSession(n) \/ AnswerRenew(n) \/ AnswerAcquire(n)
  PROVE  AnsweredWithin(n, k)'
<1>0. TypeOK /\ LoopInv(n) /\ loop[n].errors = MaxErrors
  BY Zenon DEF TypeInv, AnsweredWithin
<1>1. CASE LoopSession(n)
  <2>1. loop[n].at = "session" /\ loop[n].timer = 0
    BY Zenon, <1>1 DEF LoopSession
  <2>2. loop'[n].at = "creating" /\ loop'[n].timer = TTL /\ loop'[n].errors = loop[n].errors
    BY Zenon, <1>0, <1>1, LoopSessionEffect DEF Becomes
  <2>3. k > 2 * MaxRtt + RenewTime - (TTL - TTL)
    BY <2>1, ConstantTypes DEF AnsweredWithin
  <2> QED
    BY Zenon, <1>0, <2>2, <2>3 DEF AnsweredWithin
<1>2. CASE SessionCreated(n)
  <2>1. loop[n].at = "creating" /\ TTL - loop[n].timer <= MaxRtt
    BY Zenon, <1>2 DEF SessionCreated, InTime
  <2>2. /\ loop'[n].at = "renewing" /\ loop'[n].timer = RenewTime /\ loop'[n].errors = loop[n].errors
        /\ loop'[n].renew = "none" /\ loop'[n].acquire = "none"
    BY Zenon, <1>0, <1>2, <2>1, SessionCreatedEffect DEF Becomes, LoopInv, Waiting
  <2>3. k > MaxRtt /\ k > MaxRtt + RenewTime
    BY <2>1, LoopFields, ConstantTypes DEF AnsweredWithin
  <2> QED
    BY Zenon, <1>0, <2>2, <2>3 DEF AnsweredWithin, Waiting
<1>3. CASE Beat(n)
  <2>1. loop[n].at = "renewing" /\ ~Waiting(n)
    BY Zenon, <1>3 DEF Beat, BeatDue
  <2>2. /\ loop'[n].at = "renewing" /\ loop'[n].acquire = "sent" /\ loop'[n].age = 0
        /\ loop'[n].errors = loop[n].errors
    BY Zenon, <1>0, <1>3, BeatEffect DEF Becomes
  <2>3. k > MaxRtt - 0
    BY <2>1, ConstantTypes DEF AnsweredWithin
  <2> QED
    BY Zenon, <1>0, <2>2, <2>3 DEF AnsweredWithin, Waiting
<1>4. CASE CreateSession(n)
  <2>1. loop[n].at = "creating"
    BY Zenon, <1>4 DEF CreateSession
  <2>2. loop'[n].at = "creating" /\ loop'[n].timer = loop[n].timer /\ loop'[n].errors = loop[n].errors
    BY Zenon, <1>0, <1>4, <2>1, CreateSessionEffect DEF Becomes
  <2> QED
    BY Zenon, <1>0, <2>1, <2>2 DEF AnsweredWithin
<1>5. CASE Renewed(n) \/ AnswerRenew(n) \/ AnswerAcquire(n)
  <2>1. Waiting(n) /\ loop[n].at = "renewing"
    BY Zenon, <1>0, <1>5 DEF Renewed, AnswerRenew, AnswerAcquire, Waiting, LoopInv
  <2>2. /\ loop'[n].at = loop[n].at /\ loop'[n].age = loop[n].age /\ loop'[n].errors = loop[n].errors
        /\ loop[n].acquire # "none" => loop'[n].acquire # "none"
    BY Zenon, <1>0, <1>5, RenewedEffect, AnswerRenewEffect, AnswerAcquireEffect DEF Becomes
  <2> QED
    BY Zenon, <1>0, <2>1, <2>2 DEF AnsweredWithin, Waiting
<1> QED
  BY <1>1, <1>2, <1>3, <1>4, <1>5

\* A leader never failed to renew.  One that does not hold the lock heard from
\* Consul that it leads, and no word is on its way.
LEMMA LeaderKnows ==
  ASSUME IInv, NEW n \in Node, Leads(n)
  PROVE  /\ ~loop[n].skipped
         /\ holder # n => /\ n \in heard /\ isLeader[n] /\ constate[n] = "Enabled" /\ ~Told(n)
                         /\ holder \in {GivenUp, NoOne} /\ AnsweredWithin(n, FreeAfter)
                         /\ (holder = GivenUp => left[GivenUp] >= 0)
<1>1. HeardInv /\ Backed(n) /\ (Told(n) => holder = n)
  BY Zenon DEF IInv, LeadInv
<1> QED
  BY Zenon, <1>1 DEF HeardInv, Backed, Leads, Told

LEMMA FreeAfterType == TypeInv => FreeAfter \in Int /\ left[GivenUp] \in Int /\ lockDelay \in Nat
<1> SUFFICES ASSUME TypeInv PROVE FreeAfter \in Int /\ left[GivenUp] \in Int /\ lockDelay \in Nat
  OBVIOUS
<1>1. left[GivenUp] \in {Ended} \cup 0 .. TTL /\ lockDelay \in 0 .. TTL
  BY Zenon DEF TypeInv, TypeOK, Session
<1> QED
  BY <1>1, ConstantTypes DEF FreeAfter, Ended

\* A node that Consul and its loop leave alone.
LEMMA BackedKept ==
  ASSUME NEW m \in Node, Backed(m), loop'[m] = loop[m], UNCHANGED <<holder, lockDelay>>,
         left'[GivenUp] = left[GivenUp]
  PROVE  Backed(m)'
BY Zenon DEF Backed, AnsweredWithin, FreeAfter, Waiting

LEMMA StillBacked ==
  ASSUME IInv, NEW n \in Node, Leads(n), UNCHANGED <<holder, lockDelay>>, left'[GivenUp] = left[GivenUp],
         \/ LoopSession(n) \/ SessionCreated(n) \/ Beat(n) \/ Renewed(n)
         \/ CreateSession(n) \/ AnswerRenew(n) \/ AnswerAcquire(n)
  PROVE  Backed(n)'
<1>1. CASE holder = n
  BY Zenon, <1>1 DEF Backed
<1>2. CASE holder # n
  <2>1. PICK k \in Int : k = FreeAfter
    BY Zenon, FreeAfterType DEF IInv
  <2>2. /\ constate[n] = "Enabled" /\ AnsweredWithin(n, FreeAfter) /\ TypeInv
        /\ holder \in {GivenUp, NoOne} /\ (holder = GivenUp => left[GivenUp] >= 0)
    <3>1. TypeInv
      BY Zenon DEF IInv
    <3> QED
      BY Zenon, <1>2, <3>1, LeaderKnows
  <2>3. AnsweredWithin(n, k)'
    BY Zenon, <2>1, <2>2, NodeAnswered
  <2>4. FreeAfter' = k
    BY Zenon, <2>1 DEF FreeAfter
  <2> QED
    BY Zenon, <2>2, <2>3, <2>4 DEF Backed, AnsweredWithin
<1> QED
  BY Zenon, <1>1, <1>2

\* A step of node n that leaves the lock alone.
LEMMA NodeLeads ==
  ASSUME IInv, NEW n \in Node, loop' = [loop EXCEPT ![n] = loop'[n]],
         UNCHANGED <<holder, lockDelay>>, left'[GivenUp] = left[GivenUp],
         heard' \subseteq heard \cup {n},
         \A m \in Node \ {n} : isLeader'[m] = isLeader[m] /\ constate'[m] = constate[m],
         n \in heard' => constate'[n] = "Enabled" /\ ~loop'[n].skipped,
         Leads(n)' => Leads(n) /\ Backed(n)',
         Told(n)' => holder = n
  PROVE  HeardInv' /\ LeadInv'
<1>1. \A m \in Node \ {n} : loop'[m] = loop[m]
  BY Zenon DEF IInv, TypeInv, TypeOK
<1>2. heard \subseteq Node /\ HeardInv /\ LeadInv
  BY Zenon DEF IInv, TypeInv, TypeOK
<1>3. HeardInv'
  BY Zenon, <1>1, <1>2 DEF HeardInv
<1>4. ASSUME NEW m \in Node, m # n
      PROVE  (Told(m)' => Told(m)) /\ (Leads(m)' => Leads(m) /\ Backed(m)')
  <2>1. loop'[m] = loop[m] /\ isLeader'[m] = isLeader[m] /\ (m \in heard' => m \in heard)
    BY Zenon, <1>1, <1>4
  <2>2. (Told(m)' => Told(m)) /\ (Leads(m)' => Leads(m))
    BY Zenon, <2>1 DEF Leads, Told
  <2> QED
    BY Zenon, <1>2, <2>1, <2>2, BackedKept DEF LeadInv
<1>5. LeadInv'
  BY Zenon, <1>2, <1>4 DEF LeadInv
<1> QED
  BY Zenon, <1>3, <1>5

\* Steps that change neither what the node waits for nor what it was told.
LEMMA QuietLeads ==
  ASSUME IInv, NEW n \in Node,
         LoopSession(n) \/ SessionCreated(n) \/ CreateSession(n) \/ AnswerRenew(n) \/ Renewed(n)
  PROVE  HeardInv' /\ LeadInv'
<1>0. TypeOK
  BY Zenon DEF IInv, TypeInv
<1>1. /\ loop' = [loop EXCEPT ![n] = loop'[n]]
      /\ loop'[n].acquire = loop[n].acquire /\ loop'[n].skipped = loop[n].skipped
  BY Zenon, <1>0, LoopSessionEffect, SessionCreatedEffect, CreateSessionEffect, AnswerRenewEffect, RenewedEffect
     DEF Becomes
<1>2. UNCHANGED <<holder, lockDelay, constate, isLeader, heard>>
  BY Zenon DEF LoopSession, SessionCreated, CreateSession, AnswerRenew, Renewed, consulVars, stateVars
<1>3. left'[GivenUp] = left[GivenUp]
  <2>1. left \in [Session -> {Ended} \cup 0 .. TTL] /\ GivenUp \in Session /\ n # GivenUp
    BY Zenon, <1>0, ConstantTypes DEF TypeOK, Session
  <2>2. CASE CreateSession(n) \/ AnswerRenew(n)
    BY Zenon, <2>1, <2>2 DEF CreateSession, AnswerRenew
  <2>3. CASE LoopSession(n) \/ SessionCreated(n) \/ Renewed(n)
    BY Zenon, <2>3 DEF LoopSession, SessionCreated, Renewed, consulVars
  <2> QED
    BY Zenon, <2>2, <2>3
<1>4. (Told(n)' <=> Told(n)) /\ (Leads(n)' <=> Leads(n))
  BY Zenon, <1>1, <1>2 DEF Leads, Told
<1>5. Leads(n) => Backed(n)'
  BY Zenon, <1>2, <1>3, StillBacked
<1>6. n \in heard => constate[n] = "Enabled" /\ ~loop[n].skipped
  BY Zenon DEF IInv, HeardInv
<1>7. Told(n) => holder = n
  BY Zenon DEF IInv, LeadInv
<1> QED
  BY Zenon, <1>1, <1>2, <1>3, <1>4, <1>5, <1>6, <1>7, NodeLeads

LEMMA BeatLeads ==
  ASSUME IInv, NEW n \in Node, Beat(n)
  PROVE  HeardInv' /\ LeadInv'
<1>0. TypeOK
  BY Zenon DEF IInv, TypeInv
<1>1. /\ loop' = [loop EXCEPT ![n] = loop'[n]]
      /\ \/ constate[n] = "Disabled" /\ loop'[n].skipped
         \/ loop'[n].acquire = "sent" /\ loop'[n].skipped = loop[n].skipped
  BY Zenon, <1>0, BeatEffect DEF Becomes
<1>2. UNCHANGED <<left, holder, lockDelay, constate, isLeader, heard>>
  BY Zenon DEF Beat, consulVars, stateVars
<1>3. n \in heard => constate[n] = "Enabled" /\ ~loop[n].skipped
  BY Zenon DEF IInv, HeardInv
<1>4. ~Told(n)' /\ (Leads(n)' => Leads(n)) /\ (n \in heard => ~loop'[n].skipped)
  BY Zenon, <1>1, <1>2, <1>3 DEF Leads, Told
<1>5. Leads(n) => Backed(n)'
  BY Zenon, <1>2, StillBacked
<1> QED
  BY Zenon, <1>1, <1>2, <1>3, <1>4, <1>5, NodeLeads

LEMMA AcquiredLeads ==
  ASSUME IInv, NEW n \in Node, Acquired(n)
  PROVE  HeardInv' /\ LeadInv'
<1>0. TypeOK
  BY Zenon DEF IInv, TypeInv
<1>1. /\ loop' = [loop EXCEPT ![n] = loop'[n]]
      /\ loop'[n].acquire = "none" /\ loop'[n].skipped = loop[n].skipped
  BY Zenon, <1>0, AcquiredEffect DEF Becomes
<1>2. UNCHANGED <<left, holder, lockDelay, constate>> /\ loop[n].acquire \in {"true", "false"}
  BY Zenon DEF Acquired, consulVars
<1>3. \/ /\ constate[n] = "Enabled" /\ isLeader' = [isLeader EXCEPT ![n] = loop[n].acquire = "true"]
         /\ heard' = IF loop[n].skipped THEN heard ELSE heard \cup {n}
      \/ constate[n] # "Enabled" /\ UNCHANGED <<isLeader, heard>>
  BY Zenon DEF Acquired
<1>4. n \in heard => constate[n] = "Enabled" /\ ~loop[n].skipped
  BY Zenon DEF IInv, HeardInv
<1>5. n \in heard' => constate[n] = "Enabled" /\ ~loop[n].skipped
  BY Zenon, <1>3, <1>4
<1>6. isLeader \in [Node -> BOOLEAN] /\ heard' \subseteq heard \cup {n}
  BY Zenon, <1>0, <1>3 DEF TypeOK
<1>7. \A m \in Node \ {n} : isLeader'[m] = isLeader[m]
  BY Zenon, <1>3, <1>6
<1>8. ~Told(n)'
  BY Zenon, <1>1 DEF Told
<1>9. ASSUME Leads(n)' PROVE Leads(n) /\ Backed(n)'
  <2>1. n \in heard' /\ isLeader'[n]
    BY <1>8, <1>9 DEF Leads
  <2>2. constate[n] = "Enabled" /\ ~loop[n].skipped
    BY Zenon, <1>5, <2>1
  <2>3. isLeader'[n] = (loop[n].acquire = "true")
    BY Zenon, <1>3, <1>6, <2>2
  <2>4. Told(n)
    BY Zenon, <2>1, <2>2, <2>3 DEF Told
  <2>5. holder = n
    BY Zenon, <2>4 DEF IInv, LeadInv
  <2> QED
    BY Zenon, <1>2, <2>4, <2>5 DEF Leads, Backed
<1> QED
  BY Zenon, <1>1, <1>2, <1>5, <1>6, <1>7, <1>8, <1>9, NodeLeads

LEMMA CommandLeads ==
  ASSUME IInv, NEW c \in Command, Manage(c)
  PROVE  HeardInv' /\ LeadInv'
<1> DEFINE n == c[1]
<1>0. n \in Node /\ TypeOK
  BY Zenon, ConsulAssumption DEF IInv, TypeInv
<1>1. UNCHANGED <<loop, left, holder, lockDelay>> /\ heard' = heard \ {n}
  BY Zenon DEF Manage, consulVars
<1>2. \A m \in Node \ {n} : isLeader'[m] = isLeader[m] /\ constate'[m] = constate[m]
  BY Zenon, <1>0 DEF Manage, TypeOK
<1> HIDE DEF n
<1>3. loop' = [loop EXCEPT ![n] = loop'[n]]
  BY Zenon, <1>0, <1>1 DEF TypeOK
<1>4. Told(n)' <=> Told(n)
  BY Zenon, <1>1 DEF Told
<1>5. Told(n) => holder = n
  BY Zenon, <1>0 DEF IInv, LeadInv
<1>6. Leads(n)' => Leads(n) /\ Backed(n)'
  BY Zenon, <1>1, <1>4, <1>5 DEF Leads, Backed
<1> QED
  BY Zenon, <1>0, <1>1, <1>2, <1>3, <1>4, <1>5, <1>6, NodeLeads

\* A node gives its session up.  A leader that held the lock broke for the
\* first time, and the session it leaves behind and its LockDelay outlast the
\* way to the next answer; a leader that did not hold it cannot break again.
LEMMA RestartLeads ==
  ASSUME RetriesInTime, IInv, NEW n \in Node,
         SessionError(n) \/ SessionRefused(n) \/ SessionTimeout(n) \/ Refused(n) \/ Broken(n)
  PROVE  HeardInv' /\ LeadInv'
<1>0. TypeOK /\ TypeInv /\ HeardInv /\ LeadInv /\ heard \subseteq Node
  BY Zenon DEF IInv, TypeInv, TypeOK
<1>1. PICK pause \in 0 .. TTL + ErrorPause, errors \in 0 .. MaxErrors : Restart(n, pause, errors)
  BY Zenon, <1>0, Restarts
<1>2. Becomes(n, "session", pause, FALSE, "none", "none", 0, errors, FALSE)
  <2>1. pause \in Nat
    BY ConstantTypes
  <2> QED
    BY Zenon, <1>0, <1>1, <2>1, RestartEffect
<1>3. /\ holder' = IF holder = n THEN GivenUp ELSE holder
      /\ UNCHANGED <<lockDelay, constate, isLeader, heard>>
  BY Zenon, <1>1 DEF Restart, stateVars
<1>4. left'[GivenUp] = IF holder = n THEN left[n] ELSE left[GivenUp]
  BY Zenon, <1>0, <1>1, ConstantTypes DEF Restart, TypeOK, Session
<1>5. loop' = [loop EXCEPT ![n] = loop'[n]] /\ ~loop'[n].skipped /\ ~Told(n)'
  BY Zenon, <1>2 DEF Becomes, Told
<1>6. Leads(n)' => Leads(n)
  BY Zenon, <1>3, <1>5 DEF Leads
<1>7. n \in heard => constate[n] = "Enabled"
  BY Zenon, <1>0 DEF HeardInv
<1>8. ASSUME Leads(n), holder # n PROVE FALSE
  <2>1. /\ ~loop[n].skipped /\ loop[n].errors = MaxErrors
    BY Zenon, <1>8, LeaderKnows DEF AnsweredWithin
  <2>2. ~Refused(n)
    BY Zenon, <2>1 DEF IInv, LeaseInv, Refused
  <2>3. ~SessionTimeout(n)
    BY <1>0, <2>1, ConstantTypes DEF TypeInv, LoopInv, InTime, SessionTimeout
  <2>4. ~(SessionError(n) \/ SessionRefused(n) \/ Broken(n))
    BY <2>1, ConstantTypes DEF SessionError, SessionRefused, Broken
  <2> QED
    BY Zenon, <2>2, <2>3, <2>4
<1>9. CASE holder # n
  <2>1. ~Leads(n)'
    BY Zenon, <1>6, <1>8, <1>9
  <2>2. UNCHANGED <<holder, lockDelay>> /\ left'[GivenUp] = left[GivenUp]
    BY Zenon, <1>3, <1>4, <1>9
  <2> QED
    BY Zenon, <1>3, <1>5, <1>7, <2>1, <2>2, NodeLeads
<1>10. CASE holder = n
  <2>1. HeardInv'
    <3>1. \A m \in Node : ~loop[m].skipped => ~loop'[m].skipped
      BY Zenon, <1>0, <1>5 DEF TypeOK
    <3> QED
      BY Zenon, <1>0, <1>3, <3>1 DEF HeardInv
  <2>2. ASSUME NEW m \in Node, Leads(m)' PROVE m = n /\ Leads(n)
    <3>1. CASE m = n
      BY Zenon, <1>6, <2>2, <3>1
    <3>2. CASE m # n
      <4>1. loop'[m] = loop[m]
        BY Zenon, <1>0, <1>5, <3>2 DEF TypeOK
      <4>2. Leads(m)
        BY Zenon, <1>3, <2>2, <4>1 DEF Leads, Told
      <4>3. holder \in {GivenUp, NoOne}
        BY Zenon, <1>10, <3>2, <4>2, LeaderKnows
      <4> QED
        BY Zenon, <1>10, <4>3, ConstantTypes
    <3> QED
      BY Zenon, <3>1, <3>2
  <2>3. ASSUME Leads(n) PROVE Backed(n)'
    <3>1. loop[n].at = "renewing" /\ ~loop[n].skipped
      BY Zenon, <1>0, <1>10, <2>3, LeaderKnows DEF TypeInv, LoopInv
    <3>2. left[n] > 0
      BY <1>0, <3>1, LoopFields, ConstantTypes DEF IInv, LeaseInv
    <3>3. Broken(n)
      BY Zenon, <3>1 DEF SessionError, SessionRefused, SessionTimeout, Refused, IInv, LeaseInv
    <3>4. Becomes(n, "session", ErrorPause, FALSE, "none", "none", 0, loop[n].errors + 1, FALSE)
      <4>1. Restart(n, ErrorPause, loop[n].errors + 1) /\ loop[n].errors + 1 \in 0 .. MaxErrors
        BY <1>0, <3>3, LoopFields, ConstantTypes DEF Broken
      <4> QED
        BY Zenon, <1>0, <4>1, RestartEffect, ConstantTypes
    <3>5. loop[n].errors + 1 = MaxErrors
      BY <1>0, <3>3, LoopFields, ConstantTypes DEF Broken, RetriesInTime
    <3>6. left[n] + TTL > ErrorPause + 2 * MaxRtt + RenewTime
      BY <1>0, <3>2, LoopFields, ConstantTypes DEF RetriesInTime
    <3>7. holder' = GivenUp /\ left'[GivenUp] = left[n] /\ FreeAfter' = left[n] + TTL
      BY Zenon, <1>3, <1>4, <1>10 DEF FreeAfter
    <3>8. AnsweredWithin(n, FreeAfter)'
      BY Zenon, <3>4, <3>5, <3>6, <3>7 DEF AnsweredWithin, Becomes
    <3>9. left'[GivenUp] >= 0
      BY <1>0, <3>2, <3>7, LoopFields
    <3> QED
      BY Zenon, <3>7, <3>8, <3>9 DEF Backed
  <2>4. \A m \in Node : ~Told(m)'
    BY Zenon, <1>5, <2>2 DEF Leads
  <2>5. LeadInv'
    BY Zenon, <2>2, <2>3, <2>4 DEF LeadInv
  <2> QED
    BY Zenon, <2>1, <2>5
<1> QED
  BY Zenon, <1>9, <1>10

\* Consul gives the lock to nobody while a leader that has lost it waits.
LEMMA AcquireLeads ==
  ASSUME IInv, NEW n \in Node, AnswerAcquire(n)
  PROVE  HeardInv' /\ LeadInv'
<1>0. TypeOK /\ TypeInv /\ HeardInv /\ LeadInv
  BY Zenon DEF IInv, TypeInv
<1>1. /\ loop' = [loop EXCEPT ![n] = loop'[n]] /\ loop'[n].skipped = loop[n].skipped
      /\ loop'[n].acquire = "true" => MayAcquire(n) /\ left[n] # Ended
  BY Zenon, <1>0, AnswerAcquireEffect DEF Becomes
<1>2. UNCHANGED <<left, lockDelay, constate, isLeader, heard>> /\ loop[n].acquire = "sent"
  BY Zenon DEF AnswerAcquire, stateVars
<1>3. holder' = IF left[n] # Ended /\ MayAcquire(n) THEN n ELSE holder
  BY Zenon DEF AnswerAcquire
<1>4. ASSUME NEW m \in Node, Leads(m), MayAcquire(n) PROVE m = n /\ holder = n
  <2>1. CASE holder = m
    BY Zenon, <2>1, <1>4, ConstantTypes DEF MayAcquire
  <2>2. CASE holder # m
    <3>1. PICK k \in Int : k = FreeAfter
      BY <1>0, FreeAfterType
    <3>2. holder \in {GivenUp, NoOne} /\ AnsweredWithin(m, FreeAfter)
      BY Zenon, <1>4, <2>2, LeaderKnows
    <3>3. k > 0
      BY <1>0, <3>1, <3>2, AnswerTakesTime
    <3>4. holder = NoOne /\ lockDelay = 0
      BY Zenon, <1>4, <3>2, ConstantTypes DEF MayAcquire
    <3> QED
      BY <3>1, <3>3, <3>4, ConstantTypes DEF FreeAfter
  <2> QED
    BY <2>1, <2>2
<1>5. n \in heard => constate[n] = "Enabled" /\ ~loop[n].skipped
  BY Zenon, <1>0 DEF HeardInv
<1>6. CASE ~(left[n] # Ended /\ MayAcquire(n))
  <2>1. UNCHANGED holder /\ ~Told(n)'
    BY Zenon, <1>1, <1>3, <1>6 DEF Told
  <2>2. Leads(n)' => Leads(n)
    BY Zenon, <1>2, <2>1 DEF Leads
  <2>3. Leads(n) => Backed(n)'
    BY Zenon, <1>2, <2>1, StillBacked
  <2> QED
    BY Zenon, <1>1, <1>2, <1>5, <2>1, <2>2, <2>3, NodeLeads
<1>7. CASE left[n] # Ended /\ MayAcquire(n)
  <2>1. holder' = n
    BY <1>3, <1>7
  <2>2. \A m \in Node \ {n} : loop'[m] = loop[m]
    BY Zenon, <1>0, <1>1 DEF TypeOK
  <2>3. HeardInv'
    BY Zenon, <1>0, <1>1, <1>2, <2>2 DEF HeardInv, TypeOK
  <2>4. ASSUME NEW m \in Node, Leads(m)' PROVE m = n
    <3>1. SUFFICES ASSUME m # n PROVE FALSE
      BY Zenon
    <3>2. Leads(m)
      BY Zenon, <1>2, <2>2, <2>4, <3>1 DEF Leads, Told
    <3> QED
      BY <1>4, <1>7, <3>1, <3>2
  <2>5. LeadInv'
    BY Zenon, <2>1, <2>4 DEF LeadInv, Leads, Backed
  <2> QED
    BY <2>3, <2>5
<1> QED
  BY Zenon, <1>6, <1>7

\* A session that ends is not one a leader works with.
LEMMA ExpireLeads ==
  ASSUME IInv, NEW s \in Session, Expire(s)
  PROVE  HeardInv' /\ LeadInv'
<1>0. TypeOK /\ TypeInv /\ HeardInv /\ LeadInv
  BY Zenon DEF IInv, TypeInv
<1>1. UNCHANGED <<loop, constate, isLeader, heard>> /\ left[s] = 0
  BY Zenon DEF Expire, stateVars
<1>2. HeardInv' /\ \A m \in Node : (Leads(m)' <=> Leads(m)) /\ (Told(m)' <=> Told(m))
  BY Zenon, <1>0, <1>1 DEF HeardInv, Leads, Told
<1>3. ASSUME NEW m \in Node, Leads(m), holder = m PROVE m # s
  <2>1. loop[m].at = "renewing" /\ ~loop[m].skipped
    BY Zenon, <1>0, <1>3, LeaderKnows DEF TypeInv, LoopInv
  <2>2. left[m] > 0
    BY <1>0, <2>1, LoopFields, ConstantTypes DEF IInv, LeaseInv
  <2> QED
    BY <1>1, <2>2
<1>4. ASSUME NEW m \in Node, Leads(m) PROVE Backed(m)' /\ (holder = m => holder' = m)
  <2>1. CASE holder = m
    <3>1. holder' = m
      BY Zenon, <1>3, <1>4, <2>1 DEF Expire
    <3> QED
      BY Zenon, <3>1 DEF Backed
  <2>2. CASE holder # m /\ holder # s
    <3>1. UNCHANGED <<holder, lockDelay>>
      BY Zenon, <2>2 DEF Expire
    <3>2. holder = GivenUp => left'[GivenUp] = left[GivenUp]
      BY Zenon, <1>0, <2>2 DEF Expire, TypeOK, Session
    <3>3. AnsweredWithin(m, FreeAfter)' <=> AnsweredWithin(m, FreeAfter)
      BY Zenon, <1>1, <3>1, <3>2 DEF AnsweredWithin, FreeAfter, Waiting
    <3> QED
      BY Zenon, <1>4, <2>2, <3>1, <3>2, <3>3, LeaderKnows DEF Backed
  <2>3. CASE holder # m /\ holder = s
    <3>1. s = GivenUp /\ AnsweredWithin(m, FreeAfter)
      BY Zenon, <1>4, <2>3, LeaderKnows, ConstantTypes DEF Session
    <3>2. holder' = NoOne /\ lockDelay' = TTL
      BY Zenon, <2>3 DEF Expire, LockDelay
    <3>3. FreeAfter = TTL /\ FreeAfter' = TTL
      BY <1>1, <2>3, <3>1, <3>2, ConstantTypes DEF FreeAfter
    <3>4. AnsweredWithin(m, FreeAfter)'
      BY Zenon, <1>1, <3>1, <3>3 DEF AnsweredWithin, Waiting
    <3> QED
      BY Zenon, <2>3, <3>2, <3>4, ConstantTypes DEF Backed
  <2> QED
    BY Zenon, <2>1, <2>2, <2>3
<1>5. LeadInv'
  BY Zenon, <1>0, <1>2, <1>4 DEF LeadInv, Leads
<1> QED
  BY <1>2, <1>5

LEMMA TickLeads ==
  ASSUME IInv, Tick
  PROVE  HeardInv' /\ LeadInv'
<1>0. TypeOK /\ TypeInv /\ HeardInv /\ LeadInv /\ heard \subseteq Node
  BY Zenon DEF IInv, TypeInv, TypeOK
<1>1. /\ left' = [s \in Session |-> IF left[s] = Ended THEN Ended ELSE left[s] - 1]
      /\ lockDelay' = (IF lockDelay = 0 THEN 0 ELSE lockDelay - 1)
      /\ UNCHANGED <<holder, constate, isLeader, heard>>
  BY Zenon, TickRest
<1>2. \A m \in Node : loop'[m].acquire = loop[m].acquire /\ loop'[m].skipped = loop[m].skipped
  BY Zenon, <1>0, TickEffect
<1>3. HeardInv' /\ \A m \in Node : (Leads(m)' <=> Leads(m)) /\ (Told(m)' <=> Told(m))
  BY Zenon, <1>0, <1>1, <1>2 DEF HeardInv, Leads, Told
<1>4. left[GivenUp] # 0
  BY Zenon DEF Tick, Urgent, Session
<1>5. ASSUME NEW m \in Node, Leads(m) PROVE Backed(m)'
  <2>1. CASE holder = m
    BY Zenon, <1>1, <2>1 DEF Backed
  <2>2. CASE holder # m
    <3>1. PICK k \in Int : k = FreeAfter
      BY <1>0, FreeAfterType
    <3>2. /\ holder \in {GivenUp, NoOne} /\ AnsweredWithin(m, FreeAfter)
          /\ holder = GivenUp => left[GivenUp] >= 0
      BY Zenon, <1>5, <2>2, LeaderKnows
    <3>3. k > 0
      BY <1>0, <3>1, <3>2, AnswerTakesTime
    <3>4. AnsweredWithin(m, k - 1)'
      BY Zenon, <1>0, <3>1, <3>2, TickAnswered
    <3>5. FreeAfter' = k - 1 /\ (holder = GivenUp => left'[GivenUp] >= 0)
      <4>1. CASE holder = GivenUp
        <5>1. left'[GivenUp] = left[GivenUp] - 1 /\ left[GivenUp] >= 1
          BY <1>0, <1>1, <1>4, <3>2, <4>1, FreeAfterType DEF Session, Ended
        <5> QED
          BY <1>0, <1>1, <3>1, <4>1, <5>1, FreeAfterType, ConstantTypes DEF FreeAfter
      <4>2. CASE holder # GivenUp
        BY <1>0, <1>1, <3>1, <3>3, <4>2, FreeAfterType DEF FreeAfter
      <4> QED
        BY Zenon, <4>1, <4>2
    <3> QED
      BY Zenon, <1>1, <3>2, <3>4, <3>5 DEF Backed, AnsweredWithin
  <2> QED
    BY <2>1, <2>2
<1>6. LeadInv'
  BY Zenon, <1>0, <1>1, <1>3, <1>5 DEF LeadInv
<1> QED
  BY <1>3, <1>6

LEMMA LeadStep ==
  ASSUME RetriesInTime, IInv, [Next]_vars
  PROVE  IInv'
<1>1. TypeInv' /\ \A n \in Node : LeaseInv(n)'
  <2>1. TypeInv /\ \A n \in Node : LeaseInv(n)
    BY Zenon DEF IInv
  <2> QED
    BY Zenon, <2>1, StepTypes, LeaseStep, RetriesRenew
<1>2. ASSUME UNCHANGED vars PROVE HeardInv' /\ LeadInv'
  <2>1. UNCHANGED <<constate, isLeader, loop, left, holder, lockDelay, heard>>
    BY Zenon, <1>2 DEF vars
  <2>2. HeardInv' /\ \A n \in Node : (Told(n)' <=> Told(n)) /\ (Leads(n)' <=> Leads(n))
    BY Zenon, <2>1 DEF IInv, HeardInv, Told, Leads
  <2>3. \A n \in Node : Backed(n) => Backed(n)'
    BY Zenon, <2>1, BackedKept
  <2>4. LeadInv
    BY Zenon DEF IInv
  <2>5. /\ \A n \in Node : Leads(n)' => Backed(n)'
        /\ \A n \in Node : Told(n)' => holder' = n
    BY Zenon, <2>1, <2>2, <2>3, <2>4 DEF LeadInv
  <2>6. \A m, n \in Node : Leads(m)' /\ Leads(n)' => m = n
    BY Zenon, <2>2, <2>4 DEF LeadInv
  <2> QED
    BY Zenon, <2>2, <2>5, <2>6 DEF LeadInv
<1>3. ASSUME NEW n \in Node, Step(n) PROVE HeardInv' /\ LeadInv'
  <2>1. CASE LoopSession(n) \/ SessionCreated(n) \/ Renewed(n)
    BY Zenon, <2>1, QuietLeads
  <2>2. CASE SessionError(n) \/ SessionRefused(n) \/ SessionTimeout(n) \/ Refused(n) \/ Broken(n)
    BY Zenon, <2>2, RestartLeads
  <2> QED
    BY Zenon, <1>3, <2>1, <2>2, BeatLeads, AcquiredLeads DEF Step
<1>4. ASSUME Server PROVE HeardInv' /\ LeadInv'
  <2>1. ASSUME NEW n \in Node, CreateSession(n) \/ AnswerRenew(n) PROVE HeardInv' /\ LeadInv'
    BY Zenon, <2>1, QuietLeads
  <2> QED
    BY Zenon, <1>4, <2>1, AcquireLeads, ExpireLeads DEF Server
<1>5. HeardInv' /\ LeadInv'
  BY Zenon, <1>2, <1>3, <1>4, CommandLeads, TickLeads DEF Next, IInv
<1> QED
  BY Zenon, <1>1, <1>5 DEF IInv

\* While a leader whose requests failed has not heard from Consul again, the
\* session it left behind, or the LockDelay of that session, keeps the lock
\* from the others.
THEOREM LeadInductive == ASSUME RetriesInTime PROVE Spec => []IInv
<1>1. Init => IInv
  <2> SUFFICES ASSUME Init PROVE IInv
    OBVIOUS
  <2>1. \A n \in Node : LeaseInv(n) /\ ~Told(n)
    BY Zenon DEF Init, Start, LeaseInv, Told
  <2>2. HeardInv /\ LeadInv
    BY Zenon, <2>1 DEF Init, HeardInv, LeadInv, Leads
  <2> QED
    BY <2>1, <2>2, InitTypes DEF IInv
<1>2. IInv /\ [Next]_vars => IInv'
  BY LeadStep
<1> QED
  BY <1>1, <1>2, PTL DEF Spec

\* Two nodes are never leaders at the same time on the word of Consul, for
\* every number of nodes, whatever the operators do, when a node meets at most
\* one error between two answers and the TTL is as long as the error_pause,
\* two late answers and the renew_time together.
THEOREM OneLeader == ASSUME RetriesInTime PROVE Spec => []SingleLeader
<1>1. IInv => SingleLeader
  BY Zenon DEF IInv, TypeInv, TypeOK, LeadInv, Leads, SingleLeader
<1> QED
  BY <1>1, LeadInductive, PTL
=============================================================================
