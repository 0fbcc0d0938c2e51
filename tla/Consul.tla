------------------------------- MODULE Consul -------------------------------
(***************************************************************************)
(* Leadership by a lock in Consul (consul.rs).  Every node keeps a session *)
(* in Consul alive and asks again and again for the lock of one key on its *)
(* behalf; the answer is the leader state of the node.                     *)
(*                                                                         *)
(* Time is counted in ticks.  What a node can do without waiting it does   *)
(* before the next tick.  Consul itself is external: a session ends when   *)
(* nobody renews it for TTL, and a lock whose session ended cannot be      *)
(* taken for the LockDelay the session was created with.  A request whose  *)
(* sender has given up got there before, or never gets there.              *)
(*                                                                         *)
(* The futures of consul.rs and the management server run on the main      *)
(* thread, so the handlers of both are atomic to each other.               *)
(***************************************************************************)
EXTENDS Integers, Consensus

CONSTANTS
    Node,
    StartAs,        \* consul.start-as
    StartAsLeader,  \* nodes with start-as-leader
    Command,        \* <<node, ConsensusAction, LeaderAction>> operators send
    TTL,            \* session_ttl
    RenewTime,      \* renew_time
    ErrorPause,     \* error_pause
    StatusPause,    \* the sleep after a bad status of session/create
    MaxRtt,         \* an answer or an error arrives after at most MaxRtt ticks
    MaxErrors       \* errors in a row a node meets

ASSUME ConsulAssumption ==
    /\ StartAs \in ConsensusState
    /\ StartAsLeader \subseteq Node
    /\ Command \subseteq Node \X ConsensusAction \X LeaderAction
    /\ {TTL, RenewTime, ErrorPause} \subseteq Nat \ {0}
    /\ {StatusPause, MaxRtt, MaxErrors} \subseteq Nat
    /\ MaxRtt < TTL
    /\ {"given up", "no one"} \cap Node = {}

VARIABLES
    constate,   \* CONSENSUS_STATE of every node
    isLeader,   \* IS_LEADER of every node
    loop,       \* where the renew_loop of every node is
    left,       \* Consul: the time left of every session, or Ended
    holder,     \* Consul: the session that holds the lock, or NoOne
    lockDelay,  \* Consul: ticks until the lock can be taken again
    heard       \* history: nodes whose leader state is an answer of Consul to
                \*   a session they never failed to renew, with no command since

vars == <<constate, isLeader, loop, left, holder, lockDelay, heard>>

consulVars == <<left, holder, lockDelay>>
stateVars == <<constate, isLeader, heard>>

\* The session of a node is named after it.  Of the sessions nodes have given
\* up only one that holds the lock matters, and there is at most one.
GivenUp == "given up"

Session == Node \cup {GivenUp}

NoOne == "no one"

Ended == -1

\* The renew_loop: at "session" the node waits for its timer and then asks for
\* a session, at "creating" it waits for the answer, at "renewing" it waits for
\* the next beat of the interval or, when `renew` or `acquire` is under way,
\* for their answers.  `skipped` is history: a beat went by with the consensus
\* disabled since the session was created.
LoopState ==
    [at : {"session", "creating", "renewing"}, timer : Int, created : BOOLEAN,
     renew : {"none", "sent", "ok", "error"},
     acquire : {"none", "sent", "true", "false", "error"},
     age : 0 .. MaxRtt, errors : 0 .. MaxErrors, skipped : BOOLEAN]

\* The loop starts after `pause`.
Start(pause, errors) ==
    [at |-> "session", timer |-> pause, created |-> FALSE, renew |-> "none",
     acquire |-> "none", age |-> 0, errors |-> errors, skipped |-> FALSE]

Init ==
    /\ constate = [n \in Node |-> StartAs]
    /\ isLeader = [n \in Node |-> n \in StartAsLeader]
    /\ loop = [n \in Node |-> Start(0, 0)]
    /\ left = [s \in Session |-> Ended]
    /\ holder = NoOne
    /\ lockDelay = 0
    /\ heard = {}

-----------------------------------------------------------------------------
(* Consul. *)

\* The answer to session/create can still arrive within MaxRtt.
InTime(n) == TTL - loop[n].timer <= MaxRtt

\* session/create.  The answer is on its way to the node.
CreateSession(n) ==
    /\ loop[n].at = "creating" /\ ~loop[n].created /\ InTime(n)
    /\ loop' = [loop EXCEPT ![n].created = TRUE]
    /\ left' = [left EXCEPT ![n] = TTL]
    /\ UNCHANGED <<holder, lockDelay, stateVars>>

\* session/renew.
AnswerRenew(n) ==
    /\ loop[n].renew = "sent"
    /\ loop' = [loop EXCEPT ![n].renew = IF left[n] = Ended THEN "error" ELSE "ok"]
    /\ left' = [left EXCEPT ![n] = IF @ = Ended THEN Ended ELSE TTL]
    /\ UNCHANGED <<holder, lockDelay, stateVars>>

MayAcquire(n) == holder = n \/ (holder = NoOne /\ lockDelay = 0)

\* kv/<key>?acquire=<sid>.  What Consul says of a session it does not know is
\* not a boolean.
AnswerAcquire(n) ==
    /\ loop[n].acquire = "sent"
    /\ loop' = [loop EXCEPT ![n].acquire = IF left[n] = Ended THEN "error"
                                           ELSE IF MayAcquire(n) THEN "true" ELSE "false"]
    /\ holder' = IF left[n] # Ended /\ MayAcquire(n) THEN n ELSE holder
    /\ UNCHANGED <<left, lockDelay, stateVars>>

\* Mutant of LockDelay: sessions are created without one.
LockDelay_None == 0

\* session/create asks for a LockDelay as long as the TTL.
LockDelay == TTL

\* A session ends, and the lock with it.
Expire(s) ==
    /\ left[s] = 0
    /\ left' = [left EXCEPT ![s] = Ended]
    /\ IF holder = s
         THEN holder' = NoOne /\ lockDelay' = LockDelay
         ELSE UNCHANGED <<holder, lockDelay>>
    /\ UNCHANGED <<loop, stateVars>>

-----------------------------------------------------------------------------
(* The node. *)

\* The node forgets its session; the whole loop starts again after `pause`.
Restart(n, pause, errors) ==
    /\ loop' = [loop EXCEPT ![n] = Start(pause, errors)]
    /\ holder' = IF holder = n THEN GivenUp ELSE holder
    /\ left' = [left EXCEPT ![n] = Ended, ![GivenUp] = IF holder = n THEN left[n] ELSE @]
    /\ UNCHANGED <<lockDelay, stateVars>>

\* loop_session: only in the Enabled and Paused states a session is asked for.
LoopSession(n) ==
    /\ loop[n].at = "session" /\ loop[n].timer = 0
    /\ loop' = [loop EXCEPT ![n] =
                  IF constate[n] = "Disabled" THEN [@ EXCEPT !.timer = ErrorPause]
                  ELSE [@ EXCEPT !.at = "creating", !.timer = TTL]]
    /\ UNCHANGED <<consulVars, stateVars>>

\* Mutant of SessionCreated: the first beat comes when the TTL is over.
SessionCreated_LateBeat(n) ==
    /\ loop[n].at = "creating" /\ loop[n].created
    /\ loop[n].timer > 0 /\ InTime(n)
    /\ loop' = [loop EXCEPT ![n] = [@ EXCEPT !.at = "renewing", !.timer = TTL]]
    /\ UNCHANGED <<consulVars, stateVars>>

\* The session is there: the interval starts.
SessionCreated(n) ==
    /\ loop[n].at = "creating" /\ loop[n].created
    /\ loop[n].timer > 0 /\ InTime(n)
    /\ loop' = [loop EXCEPT ![n] = [@ EXCEPT !.at = "renewing", !.timer = RenewTime]]
    /\ UNCHANGED <<consulVars, stateVars>>

\* The connection breaks, before or after Consul created the session.
SessionError(n) ==
    /\ loop[n].at = "creating" /\ loop[n].timer > 0
    /\ loop[n].errors < MaxErrors
    /\ Restart(n, ErrorPause, loop[n].errors + 1)

\* Consul answers with a bad status.  The sleep of StatusPause is part of the
\* future that is raced against the timeout.
SessionRefused(n) ==
    /\ loop[n].at = "creating" /\ ~loop[n].created /\ loop[n].timer > 0
    /\ loop[n].errors < MaxErrors
    /\ Restart(n, IF loop[n].timer > StatusPause THEN StatusPause + ErrorPause ELSE loop[n].timer,
               loop[n].errors + 1)

\* The timeout wins the race: the node asks again at once.
SessionTimeout(n) ==
    /\ loop[n].at = "creating" /\ loop[n].timer = 0
    /\ Restart(n, 0, loop[n].errors + 1)

\* The node waits for ConsulRenew or ConsulAcquire.
Waiting(n) == loop[n].renew # "none" \/ loop[n].acquire # "none"

BeatDue(n) == loop[n].at = "renewing" /\ loop[n].timer <= 0 /\ ~Waiting(n)

\* Mutant of Beat: a paused node does not renew.
Beat_OnlyEnabled(n) ==
    /\ BeatDue(n)
    /\ loop' = [loop EXCEPT ![n] =
                  IF constate[n] # "Enabled" THEN [@ EXCEPT !.timer = @ + RenewTime]
                  ELSE [@ EXCEPT !.timer = @ + RenewTime, !.age = 0, !.renew = "sent", !.acquire = "sent"]]
    /\ UNCHANGED <<consulVars, stateVars>>

\* Mutant of Beat: only a leader asks for the lock.
Beat_LeaderAcquires(n) ==
    /\ BeatDue(n)
    /\ loop' = [loop EXCEPT ![n] =
                  IF constate[n] = "Disabled" THEN [@ EXCEPT !.timer = @ + RenewTime, !.skipped = TRUE]
                  ELSE [@ EXCEPT !.timer = @ + RenewTime, !.age = 0, !.renew = "sent",
                                 !.acquire = IF isLeader[n] THEN "sent" ELSE "none"]]
    /\ UNCHANGED <<consulVars, stateVars>>

\* A beat of the interval: ConsulRenew and ConsulAcquire, both at the same
\* time, unless the consensus is disabled.  The interval keeps its schedule.
Beat(n) ==
    /\ BeatDue(n)
    /\ loop' = [loop EXCEPT ![n] =
                  IF constate[n] = "Disabled"
                    THEN [@ EXCEPT !.timer = loop[n].timer + RenewTime, !.skipped = TRUE]
                    ELSE [@ EXCEPT !.timer = loop[n].timer + RenewTime, !.age = 0,
                                   !.renew = "sent", !.acquire = "sent"]]
    /\ UNCHANGED <<consulVars, stateVars>>

Renewed(n) ==
    /\ loop[n].renew = "ok"
    /\ loop' = [loop EXCEPT ![n].renew = "none"]
    /\ UNCHANGED <<consulVars, stateVars>>

\* The answer is a boolean: switch_leader.
Acquired(n) ==
    /\ loop[n].acquire \in {"true", "false"}
    /\ loop' = [loop EXCEPT ![n] = [@ EXCEPT !.acquire = "none", !.errors = 0]]
    /\ IF constate[n] = "Enabled"
         THEN /\ isLeader' = [isLeader EXCEPT ![n] = loop[n].acquire = "true"]
              /\ heard' = IF loop[n].skipped THEN heard ELSE heard \cup {n}
         ELSE UNCHANGED <<isLeader, heard>>
    /\ UNCHANGED <<consulVars, constate>>

\* One of the two is refused: the other one is dropped, and the leader state
\* stays what it is.
Refused(n) ==
    /\ "error" \in {loop[n].renew, loop[n].acquire}
    /\ Restart(n, ErrorPause, loop[n].errors)

\* A connection breaks before the request or the answer came through.
Broken(n) ==
    /\ Waiting(n) /\ loop[n].errors < MaxErrors
    /\ Restart(n, ErrorPause, loop[n].errors + 1)

\* POST /consensus.
Manage(c) ==
    LET n == c[1]
    IN  /\ constate' = [constate EXCEPT ![n] = NewState(c[2])]
        /\ isLeader' = [isLeader EXCEPT ![n] = NewLeader(c[3], @)]
        /\ heard' = heard \ {n}
        /\ UNCHANGED <<loop, consulVars>>

-----------------------------------------------------------------------------
(* Time. *)

\* What happens before the next tick: steps of a node that need no answer,
\* answers and errors that are due, sessions whose time is over.
Urgent ==
    \/ \E n \in Node :
        \/ loop[n].at \in {"session", "creating"} /\ loop[n].timer = 0
        \/ loop[n].at = "creating" /\ loop[n].errors = MaxErrors /\ TTL - loop[n].timer >= MaxRtt
        \/ BeatDue(n)
        \/ Waiting(n) /\ loop[n].age = MaxRtt
    \/ \E s \in Session : left[s] = 0

Tick ==
    /\ ~Urgent
    /\ loop' = [n \in Node |-> [loop[n] EXCEPT !.timer = @ - 1,
                                                !.age = IF Waiting(n) THEN @ + 1 ELSE 0]]
    /\ left' = [s \in Session |-> IF left[s] = Ended THEN Ended ELSE left[s] - 1]
    /\ lockDelay' = IF lockDelay = 0 THEN 0 ELSE lockDelay - 1
    /\ UNCHANGED <<holder, stateVars>>

Server ==
    \/ \E n \in Node : CreateSession(n) \/ AnswerRenew(n) \/ AnswerAcquire(n)
    \/ \E s \in Session : Expire(s)

Step(n) ==
    \/ LoopSession(n) \/ SessionCreated(n) \/ SessionError(n) \/ SessionRefused(n)
    \/ SessionTimeout(n) \/ Beat(n) \/ Renewed(n) \/ Acquired(n) \/ Refused(n) \/ Broken(n)

Next ==
    \/ \E n \in Node : Step(n)
    \/ \E c \in Command : Manage(c)
    \/ Server
    \/ Tick

Spec == Init /\ [][Next]_vars

\* The nodes and Consul run and time passes.  Nothing is assumed of operators.
FairSpec == Spec /\ WF_vars(Server \/ Tick \/ \E n \in Node : Step(n))

-----------------------------------------------------------------------------
(* Properties. *)

\* The state of every node's loop, and what Consul knows.  The next beat of a
\* session is never further away than renew_time, also after late answers, and
\* a node never waits longer than the timeout of session/create and the pause
\* after an error.
TypeOK ==
    /\ constate \in [Node -> ConsensusState]
    /\ isLeader \in [Node -> BOOLEAN]
    /\ loop \in [Node -> LoopState]
    /\ \A n \in Node : IF loop[n].at = "renewing" THEN loop[n].timer <= RenewTime
                      ELSE loop[n].timer \in 0 .. TTL + ErrorPause
    /\ left \in [Session -> {Ended} \cup 0 .. TTL]
    /\ holder \in Session \cup {NoOne}
    /\ lockDelay \in 0 .. TTL
    /\ heard \subseteq Node

\* Two nodes are never leaders at the same time on the word of Consul.  A
\* leader whose requests fail is not told that it has lost the lock and goes
\* on as the leader until an answer to a new session arrives; the TTL of the
\* old session and its LockDelay together are long enough for that, as long
\* as errors in a row and late answers stay within MaxErrors and MaxRtt.
SingleLeader == \A m, n \in heard : isLeader[m] /\ isLeader[n] => m = n

\* "For Consul it means the lock(it it is taken) is still updated."
\* (doc/consensus.md, of the Paused state): as long as a node is not disabled
\* the session it works with never ends under it, however late the answers.
LockKept ==
    \A n \in Node : loop[n].at = "renewing" /\ ~loop[n].skipped => left[n] > 0

\* Once all nodes are enabled and errors stop there is a leader again and
\* again, whatever sessions given up earlier held the lock.
Elected ==
    /\ <>[](\A n \in Node : constate[n] = "Enabled")
    /\ <>[][\A n \in Node : loop'[n].errors <= loop[n].errors]_vars
    => []<>(\E n \in Node : isLeader[n])
=============================================================================
