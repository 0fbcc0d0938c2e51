-------------------------- MODULE LeadershipProofs --------------------------
(***************************************************************************)
(* Proofs about Leadership, for every set of commands, with and without    *)
(* failing names, for a node started as leader or not.                     *)
(***************************************************************************)
EXTENDS Leadership, TLAPS

\* An untouched node has no command under way, its consensus is enabled once
\* the Raft thread has started, and what Raft said last is the leader state or
\* the argument of the running switch_leader.
RaftInv ==
    untouched =>
        /\ mgmt \notin {"setState", "setLeader"}
        /\ raft # "delayed" => constate = "Enabled"
        /\ raft \in {"check", "store"} => acquired = told
        /\ raft \notin {"check", "store"} => isLeader = told

\* A forced leader state is in place, and no call of switch_leader can change
\* it: none has passed its check, and the consensus is not enabled.
ForcedInv ==
    forced # NotForced =>
        /\ isLeader = (forced = "leader")
        /\ raft # "store"
        /\ constate # "Enabled"

\* How far the server is with the request the client waits for.
QueryInv ==
    /\ mgmt \in {"setState", "setLeader"} => request \in Command
    /\ mgmt = "refuse" => request = Bad
    /\ mgmt = "setLeader" /\ ~overtaken => constate = NewState(request[1])
    /\ mgmt = "status" /\ request \in Command /\ ~overtaken =>
           /\ constate = NewState(request[1])
           /\ isLeader = NewLeader(request[2], isLeader)
    /\ PrintedIsApplied

IInv == TypeOK /\ RaftInv /\ ForcedInv /\ QueryInv

-----------------------------------------------------------------------------
(* The commands. *)

LEMMA Commands ==
    /\ Status \notin Command /\ Bad \notin Command /\ Status # Bad
    /\ \A q \in Command : q[1] \in ConsensusAction /\ q[2] \in LeaderAction
BY LeadershipAssumption DEF Status, Bad, ConsensusAction, LeaderAction

LEMMA NewStateType == \A a \in ConsensusAction : NewState(a) \in ConsensusState
BY DEF NewState, ConsensusAction, ConsensusState

LEMMA NewLeaderType ==
    \A a \in LeaderAction, l \in BOOLEAN :
        /\ NewLeader(a, l) \in BOOLEAN
        /\ NewLeader(a, NewLeader(a, l)) = NewLeader(a, l)
BY Zenon DEF NewLeader, LeaderAction

-----------------------------------------------------------------------------
LEMMA InitInv == Init => IInv
<1> SUFFICES ASSUME Init PROVE IInv
  OBVIOUS
<1>1. TypeOK
  BY Zenon, LeadershipAssumption DEF Init, TypeOK, ConsensusState, NotForced
<1>2. RaftInv
  BY DEF Init, RaftInv
<1>3. ForcedInv
  BY DEF Init, ForcedInv
<1>4. QueryInv
  BY DEF Init, QueryInv, PrintedIsApplied
<1> QED
  BY <1>1, <1>2, <1>3, <1>4 DEF IInv

LEMMA TypeStep == IInv /\ [Next]_vars => TypeOK'
<1> SUFFICES ASSUME IInv, [Next]_vars PROVE TypeOK'
  OBVIOUS
<1> USE DEF IInv, TypeOK, raftVars, mgmtVars, clientVars, history
<1>1. CASE StartDelayed
  BY Zenon, <1>1 DEF StartDelayed, ConsensusState, NotForced
<1>2. CASE StartInternalRaft
  BY <1>2 DEF StartInternalRaft
<1>3. CASE ResolveFails
  BY <1>3 DEF ResolveFails
<1>4. ASSUME NEW new \in {"Follower", "Candidate", "Leader"}, StateChanged(new) PROVE TypeOK'
  <2>1. {acquired', told'} \subseteq BOOLEAN
    BY Zenon, <1>4 DEF StateChanged
  <2>2. /\ role' = new /\ raft' \in {raft, "check"}
        /\ UNCHANGED <<constate, lock, isLeader, mgmtVars, clientVars, forced, untouched, overtaken>>
    BY Zenon, <1>4 DEF StateChanged
  <2>3. {isLeader, acquired, told, untouched, overtaken}' \subseteq BOOLEAN
    BY Zenon, <2>1, <2>2
  <2>4. /\ role' \in {"Follower", "Candidate", "Leader"}
        /\ raft' \in {"delayed", "resolving", "running", "check", "store", "dead"}
    BY Zenon, <1>4, <2>2
  <2>5. /\ (constate \in ConsensusState)'
        /\ (lock \in {"free", "raft", "mgmt", "poisoned"})'
        /\ (mgmt \in {"idle", "setState", "setLeader", "status", "refuse", "dead"})'
        /\ ({request, query} \subseteq Command \cup {Status, Bad})'
        /\ (answer \in (ConsensusState \X BOOLEAN) \cup {Refusal})'
        /\ (client \in {"idle", "sent", "waiting", "answered"})'
        /\ (forced \in {"leader", "follower", NotForced})'
    BY <2>2 DEF ConsensusState, NotForced
  <2>6. /\ lock' = lock /\ client' = client /\ mgmt' = mgmt /\ request' = request /\ query' = query
        /\ raft = "running" /\ raft' \in {"running", "check"}
    BY Zenon, <1>4 DEF StateChanged
  <2>7. /\ (lock = "raft" <=> raft = "resolving")' /\ (lock = "poisoned" <=> raft = "dead")'
        /\ (client = "waiting" => mgmt # "idle" /\ request = query)'
        /\ (client = "answered" => mgmt = "idle")'
    BY Zenon, <2>6
  <2> QED
    BY Zenon, <2>3, <2>4, <2>5, <2>7
<1>5. CASE SwitchCheck
  BY <1>5 DEF SwitchCheck
<1>6. CASE SwitchStore
  BY <1>6 DEF SwitchStore
<1>7. ASSUME NEW q \in Command \cup {Status, Bad}, Query(q) PROVE TypeOK'
  BY <1>7 DEF Query
<1>8. CASE PrintAnswer
  BY <1>8 DEF PrintAnswer
<1>9. CASE QueryFails
  BY <1>9 DEF QueryFails
<1>10. CASE Call
  BY Zenon, <1>10 DEF Call
<1>11. CASE SetState
  BY Zenon, <1>11, Commands, NewStateType DEF SetState, QueryInv, NotForced
<1>12. CASE SetLeader
  BY <1>12, Commands, NewLeaderType DEF SetLeader, QueryInv, NotForced
<1>13. CASE Answer
  BY Zenon, <1>13 DEF Answer, Respond
<1>14. CASE Refuse
  BY <1>14 DEF Refuse, Respond
<1>15. CASE LockPanics
  BY <1>15 DEF LockPanics
<1>16. CASE UNCHANGED vars
  BY <1>16 DEF vars
<1> QED
  BY Zenon, <1>1, <1>2, <1>3, <1>4, <1>5, <1>6, <1>7, <1>8, <1>9, <1>10, <1>11, <1>12, <1>13,
     <1>14, <1>15, <1>16 DEF Next, Raft, Management

\* Only a node that got no command is spoken of: the Raft thread changes its state.
LEMMA RaftStep == IInv /\ [Next]_vars => RaftInv'
<1> SUFFICES ASSUME IInv, [Next]_vars PROVE RaftInv'
  OBVIOUS
<1> USE DEF IInv, TypeOK, RaftInv, raftVars, mgmtVars, clientVars, history
<1>1. CASE StartDelayed
  BY Zenon, <1>1 DEF StartDelayed
<1>2. CASE StartInternalRaft
  BY Zenon, <1>2 DEF StartInternalRaft
<1>3. CASE ResolveFails
  BY Zenon, <1>3 DEF ResolveFails
<1>4. ASSUME NEW new \in {"Follower", "Candidate", "Leader"}, StateChanged(new) PROVE RaftInv'
  BY Zenon, <1>4 DEF StateChanged
<1>5. CASE SwitchCheck
  BY Zenon, <1>5 DEF SwitchCheck
<1>6. CASE SwitchStore
  BY Zenon, <1>6 DEF SwitchStore
<1>7. ASSUME NEW q \in Command \cup {Status, Bad}, Query(q) PROVE RaftInv'
  BY Zenon, <1>7 DEF Query
<1>8. CASE PrintAnswer
  BY Zenon, <1>8 DEF PrintAnswer
<1>9. CASE QueryFails
  BY Zenon, <1>9 DEF QueryFails
<1>10. CASE Call
  BY Zenon, <1>10 DEF Call
<1>11. CASE SetState
  BY Zenon, <1>11 DEF SetState
<1>12. CASE SetLeader
  BY Zenon, <1>12 DEF SetLeader
<1>13. CASE Answer
  BY Zenon, <1>13 DEF Answer, Respond
<1>14. CASE Refuse
  BY Zenon, <1>14 DEF Refuse, Respond
<1>15. CASE LockPanics
  BY Zenon, <1>15 DEF LockPanics
<1>16. CASE UNCHANGED vars
  BY Zenon, <1>16 DEF vars
<1> QED
  BY Zenon, <1>1, <1>2, <1>3, <1>4, <1>5, <1>6, <1>7, <1>8, <1>9, <1>10, <1>11, <1>12, <1>13,
     <1>14, <1>15, <1>16 DEF Next, Raft, Management

\* What can change a forced leader state is a command, or the start of Raft.
LEMMA ForcedStep == IInv /\ [Next]_vars => ForcedInv'
<1> SUFFICES ASSUME IInv, [Next]_vars PROVE ForcedInv'
  OBVIOUS
<1> USE DEF IInv, TypeOK, ForcedInv, raftVars, mgmtVars, clientVars, history
<1>1. CASE StartDelayed
  BY Zenon, <1>1 DEF StartDelayed
<1>2. CASE StartInternalRaft
  BY Zenon, <1>2 DEF StartInternalRaft
<1>3. CASE ResolveFails
  BY Zenon, <1>3 DEF ResolveFails
<1>4. ASSUME NEW new \in {"Follower", "Candidate", "Leader"}, StateChanged(new) PROVE ForcedInv'
  BY Zenon, <1>4 DEF StateChanged
<1>5. CASE SwitchCheck
  BY Zenon, <1>5 DEF SwitchCheck
<1>6. CASE SwitchStore
  BY Zenon, <1>6 DEF SwitchStore
<1>7. ASSUME NEW q \in Command \cup {Status, Bad}, Query(q) PROVE ForcedInv'
  BY Zenon, <1>7 DEF Query
<1>8. CASE PrintAnswer
  BY Zenon, <1>8 DEF PrintAnswer
<1>9. CASE QueryFails
  BY Zenon, <1>9 DEF QueryFails
<1>10. CASE Call
  BY Zenon, <1>10 DEF Call
<1>11. CASE SetState
  BY Zenon, <1>11 DEF SetState
<1>12. CASE SetLeader
  BY Zenon, <1>12, Commands, NewLeaderType DEF SetLeader, QueryInv
<1>13. CASE Answer
  BY Zenon, <1>13 DEF Answer, Respond
<1>14. CASE Refuse
  BY Zenon, <1>14 DEF Refuse, Respond
<1>15. CASE LockPanics
  BY Zenon, <1>15 DEF LockPanics
<1>16. CASE UNCHANGED vars
  BY Zenon, <1>16 DEF vars
<1> QED
  BY Zenon, <1>1, <1>2, <1>3, <1>4, <1>5, <1>6, <1>7, <1>8, <1>9, <1>10, <1>11, <1>12, <1>13,
     <1>14, <1>15, <1>16 DEF Next, Raft, Management

\* The server goes through the request step by step.
LEMMA QueryStep == IInv /\ [Next]_vars => QueryInv'
<1> SUFFICES ASSUME IInv, [Next]_vars PROVE QueryInv'
  OBVIOUS
<1> USE DEF IInv, TypeOK, QueryInv, PrintedIsApplied, raftVars, mgmtVars, clientVars, history
<1>1. CASE StartDelayed
  BY Zenon, <1>1 DEF StartDelayed
<1>2. CASE StartInternalRaft
  BY Zenon, <1>2 DEF StartInternalRaft
<1>3. CASE ResolveFails
  BY Zenon, <1>3 DEF ResolveFails
<1>4. ASSUME NEW new \in {"Follower", "Candidate", "Leader"}, StateChanged(new) PROVE QueryInv'
  BY Zenon, <1>4 DEF StateChanged
<1>5. CASE SwitchCheck
  BY Zenon, <1>5 DEF SwitchCheck
<1>6. CASE SwitchStore
  BY Zenon, <1>6 DEF SwitchStore
<1>7. ASSUME NEW q \in Command \cup {Status, Bad}, Query(q) PROVE QueryInv'
  BY Zenon, <1>7 DEF Query
<1>8. CASE PrintAnswer
  BY Zenon, <1>8 DEF PrintAnswer
<1>9. CASE QueryFails
  BY Zenon, <1>9 DEF QueryFails
<1>10. CASE Call
  BY Zenon, <1>10, Commands DEF Call
<1>11. CASE SetState
  BY Zenon, <1>11, Commands DEF SetState
<1>12. CASE SetLeader
  BY Zenon, <1>12, Commands, NewLeaderType DEF SetLeader
<1>13. CASE Answer
  BY Zenon, <1>13, Commands DEF Answer, Respond
<1>14. CASE Refuse
  BY Zenon, <1>14, Commands DEF Refuse, Respond
<1>15. CASE LockPanics
  BY Zenon, <1>15 DEF LockPanics
<1>16. CASE UNCHANGED vars
  BY Zenon, <1>16 DEF vars
<1> QED
  BY Zenon, <1>1, <1>2, <1>3, <1>4, <1>5, <1>6, <1>7, <1>8, <1>9, <1>10, <1>11, <1>12, <1>13,
     <1>14, <1>15, <1>16 DEF Next, Raft, Management

-----------------------------------------------------------------------------
(* Theorems. *)

\* The inductive invariant of both threads and the client.
THEOREM Inductive == Spec => []IInv
<1>1. IInv /\ [Next]_vars => IInv'
  BY TypeStep, RaftStep, ForcedStep, QueryStep DEF IInv
<1> QED
  BY <1>1, InitInv, PTL DEF Spec

\* The type invariant of Leadership.
THEOREM TypeCorrect == Spec => []TypeOK
<1>1. IInv => TypeOK
  BY DEF IInv
<1> QED
  BY <1>1, Inductive, PTL

\* A node that never got a command is what Raft last said (LeaderNotifier,
\* switch_leader), whatever else is under way.
THEOREM FollowsRaft == Spec => []FollowsRaftUntouched
<1>1. IInv => FollowsRaftUntouched
  BY DEF IInv, RaftInv, FollowsRaftUntouched, Settled
<1> QED
  BY <1>1, Inductive, PTL

\* What an operator set together with a pause stays (MgmtServer::call).
THEOREM OperatorWins == Spec => []ForcedStays
<1>1. IInv => ForcedStays
  BY DEF IInv, ForcedInv, ForcedStays
<1> QED
  BY <1>1, Inductive, PTL

\* The state the client prints is the one it asked for (MgmtServer::call,
\* MgmtClient).
THEOREM PrintedState == Spec => []PrintedIsApplied
<1>1. IInv => PrintedIsApplied
  BY DEF IInv, QueryInv
<1> QED
  BY <1>1, Inductive, PTL
=============================================================================
