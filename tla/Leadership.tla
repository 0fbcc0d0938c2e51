----------------------------- MODULE Leadership -----------------------------
(***************************************************************************)
(* Who decides whether a node with the internal (Raft) consensus is the    *)
(* leader: the shared CONSENSUS_STATE and IS_LEADER (main.rs), the Raft    *)
(* thread that is started after a delay and calls switch_leader from its   *)
(* notifier (main.rs, raft.rs, util.rs), the management server on the main *)
(* thread, and `bioyino query`, the client of it (management.rs).  Without *)
(* a consensus the Raft thread never starts.                               *)
(*                                                                         *)
(* Raft itself (raft_tokio) is external: it changes the role of the node   *)
(* at any time.                                                            *)
(***************************************************************************)
EXTENDS Naturals, Consensus

CONSTANTS
    StartAsLeader,  \* values of start_as_leader
    Command,        \* pairs <<ConsensusAction, LeaderAction>> operators send
    MayFailResolve  \* names of Raft nodes may fail to resolve

ASSUME LeadershipAssumption ==
    /\ StartAsLeader \subseteq BOOLEAN
    /\ Command \subseteq ConsensusAction \X LeaderAction
    /\ MayFailResolve \in BOOLEAN

VARIABLES
    constate,   \* CONSENSUS_STATE
    lock,       \* who holds its mutex
    isLeader,   \* IS_LEADER
    role,       \* what Raft says this node is
    raft,       \* where the Raft thread is
    acquired,   \* argument of the running switch_leader
    mgmt,       \* where the management server is with its request
    request,    \* the request
    answer,     \* what it answered last: consensus and leader state, or Refusal
    client,     \* where the client is with its query
    query,      \* the query
    forced,     \* history: the leader state a command set while nothing of
                \*   Raft was under way, as long as the consensus is not enabled
    told,       \* history: what the node was started as, or what Raft said last
                \*   about its leadership
    untouched,  \* history: no command was carried out so far
    overtaken   \* history: the Raft thread changed a state since the request came

raftVars == <<role, raft, acquired>>
mgmtVars == <<mgmt, request, answer>>
clientVars == <<client, query>>
history == <<forced, told, untouched, overtaken>>

vars == <<constate, lock, isLeader, raftVars, mgmtVars, clientVars, history>>

\* GET /status, and whatever the server answers without a look at any state:
\* GET / (a text), and what it refuses, another path, another method or a body
\* that is not a consensus command.  Bad also stands for no query.
Status == <<"status", "status">>
Bad == <<"bad", "bad">>

Refusal == <<"refused", FALSE>>

\* forced when there is nothing to expect.
NotForced == "none"

Init ==
    /\ constate = "Disabled"
    /\ lock = "free"
    /\ isLeader \in StartAsLeader
    /\ role = "Follower"
    /\ raft = "delayed"
    /\ acquired = FALSE
    /\ mgmt = "idle" /\ request = Bad /\ answer = Refusal
    /\ client = "idle" /\ query = Bad
    /\ forced = NotForced
    /\ told = isLeader
    /\ untouched = TRUE
    /\ overtaken = FALSE

-----------------------------------------------------------------------------
(* The Raft thread. *)

\* The start delay is over.  The thread takes the lock and keeps it while
\* start_internal_raft resolves the names of all nodes.
StartDelayed ==
    /\ raft = "delayed" /\ lock = "free"
    /\ lock' = "raft"
    /\ constate' = "Enabled"
    /\ forced' = NotForced
    /\ overtaken' = TRUE
    /\ raft' = "resolving"
    /\ UNCHANGED <<isLeader, role, acquired, mgmtVars, clientVars, told, untouched>>

\* Mutant of StartInternalRaft: the guard lives as long as the thread.
StartInternalRaft_KeepsLock ==
    /\ raft = "resolving"
    /\ raft' = "running"
    /\ UNCHANGED <<constate, lock, isLeader, role, acquired, mgmtVars, clientVars, history>>

StartInternalRaft ==
    /\ raft = "resolving"
    /\ lock' = "free"
    /\ raft' = "running"
    /\ UNCHANGED <<constate, isLeader, role, acquired, mgmtVars, clientVars, history>>

\* try_resolve panics: the thread is gone and the mutex is poisoned.
ResolveFails ==
    /\ raft = "resolving" /\ MayFailResolve
    /\ lock' = "poisoned"
    /\ raft' = "dead"
    /\ UNCHANGED <<constate, isLeader, role, acquired, mgmtVars, clientVars, history>>

\* Mutant of StateChanged: a node that is voted out is not told.
StateChanged_OnlyLeader(new) ==
    /\ raft = "running"
    /\ new # role
    /\ role' = new
    /\ IF new = "Leader"
         THEN raft' = "check" /\ acquired' = TRUE
         ELSE UNCHANGED <<raft, acquired>>
    /\ told' = IF "Leader" \in {new, role} THEN new = "Leader" ELSE told
    /\ UNCHANGED <<constate, lock, isLeader, mgmtVars, clientVars, forced, untouched, overtaken>>

\* Raft changes the role; LeaderNotifier::state_changed calls switch_leader
\* when the node becomes or ceases to be the leader.
StateChanged(new) ==
    /\ raft = "running"
    /\ new # role
    /\ role' = new
    /\ IF new = "Leader" \/ role = "Leader"
         THEN raft' = "check" /\ acquired' = (new = "Leader")
         ELSE UNCHANGED <<raft, acquired>>
    /\ told' = IF "Leader" \in {new, role} THEN new = "Leader" ELSE told
    /\ UNCHANGED <<constate, lock, isLeader, mgmtVars, clientVars, forced, untouched, overtaken>>

\* Mutant of SwitchCheck: the consensus state is not asked for.
SwitchCheck_Always ==
    /\ raft = "check" /\ lock = "free"
    /\ raft' = "store"
    /\ UNCHANGED <<constate, lock, isLeader, role, acquired, mgmtVars, clientVars, history>>

\* switch_leader: should_set, computed under the lock.
SwitchCheck ==
    /\ raft = "check" /\ lock = "free"
    /\ raft' = IF constate = "Enabled" THEN "store" ELSE "running"
    /\ UNCHANGED <<constate, lock, isLeader, role, acquired, mgmtVars, clientVars, history>>

\* switch_leader: the store, after the lock has been released.  The load
\* before it is only for the log.
SwitchStore ==
    /\ raft = "store"
    /\ isLeader' = acquired
    /\ overtaken' = TRUE
    /\ raft' = "running"
    /\ UNCHANGED <<constate, lock, role, acquired, mgmtVars, clientVars, forced, told, untouched>>

Raft ==
    \/ StartDelayed \/ StartInternalRaft \/ ResolveFails
    \/ \E new \in {"Follower", "Candidate", "Leader"} : StateChanged(new)
    \/ SwitchCheck \/ SwitchStore

-----------------------------------------------------------------------------
(* The management client. *)

\* `bioyino query status`, `bioyino query consensus`, or another HTTP client.
Query(q) ==
    /\ client = "idle"
    /\ client' = "sent" /\ query' = q
    /\ UNCHANGED <<constate, lock, isLeader, raftVars, mgmtVars, history>>

\* The answer is printed, or its bad status logged.
PrintAnswer ==
    /\ client = "answered"
    /\ client' = "idle" /\ query' = Bad
    /\ UNCHANGED <<constate, lock, isLeader, raftVars, mgmtVars, history>>

\* MgmtError::Http: the connection breaks, or the server is gone.  A request
\* the server has seen is carried out all the same.
QueryFails ==
    /\ client # "idle"
    /\ client' = "idle" /\ query' = Bad
    /\ UNCHANGED <<constate, lock, isLeader, raftVars, mgmtVars, history>>

-----------------------------------------------------------------------------
(* The management server. *)

\* MgmtServer::call: GET /status, POST /consensus with a command, anything else.
Call ==
    /\ client = "sent" /\ mgmt = "idle"
    /\ client' = "waiting"
    /\ request' = query
    /\ mgmt' = IF query = Status THEN "status" ELSE IF query = Bad THEN "refuse" ELSE "setState"
    /\ untouched' = (untouched /\ query \notin Command)
    /\ overtaken' = FALSE
    /\ UNCHANGED <<constate, lock, isLeader, raftVars, answer, query, forced, told>>

\* Mutant of SetState: the lock is kept until the answer is built.
SetState_KeepsLock ==
    /\ mgmt = "setState" /\ lock = "free"
    /\ constate' = NewState(request[1])
    /\ lock' = "mgmt"
    /\ forced' = NotForced
    /\ mgmt' = "setLeader"
    /\ UNCHANGED <<isLeader, raftVars, request, answer, clientVars, told, untouched, overtaken>>

\* Mutant of SetState: the status is taken before the leader state is changed.
SetState_AnswersFirst ==
    /\ mgmt = "setState" /\ lock = "free"
    /\ constate' = NewState(request[1])
    /\ forced' = NotForced
    /\ mgmt' = "status"
    /\ UNCHANGED <<lock, isLeader, raftVars, request, answer, clientVars, told, untouched, overtaken>>

\* The scope of the lock ends before the leader state is changed.
SetState ==
    /\ mgmt = "setState" /\ lock = "free"
    /\ constate' = NewState(request[1])
    /\ forced' = NotForced
    /\ mgmt' = "setLeader"
    /\ UNCHANGED <<lock, isLeader, raftVars, request, answer, clientVars, told, untouched, overtaken>>

SetLeader ==
    /\ mgmt = "setLeader"
    /\ isLeader' = NewLeader(request[2], isLeader)
    /\ forced' = IF constate = "Enabled" \/ raft = "store" THEN NotForced
                 ELSE IF isLeader' THEN "leader" ELSE "follower"
    /\ mgmt' = "status"
    /\ UNCHANGED <<constate, lock, raftVars, request, answer, clientVars, told, untouched, overtaken>>

\* The answer goes to the client, if it still waits for it.
Respond(a) ==
    /\ answer' = a
    /\ mgmt' = "idle" /\ request' = Bad
    /\ client' = IF client = "waiting" THEN "answered" ELSE client
    /\ UNCHANGED <<constate, lock, isLeader, raftVars, query, history>>

\* ServerStatus::new reads both states while it holds the lock.
Answer == mgmt = "status" /\ lock = "free" /\ Respond(<<constate, isLeader>>)

\* NOT_FOUND, BAD_REQUEST, METHOD_NOT_ALLOWED, or the text of GET /.
Refuse == mgmt = "refuse" /\ Respond(Refusal)

\* lock().unwrap() of a poisoned mutex panics on the main thread, which runs
\* everything but the counting, network and carbon threads: the process ends.
LockPanics ==
    /\ mgmt \in {"setState", "status"} /\ lock = "poisoned"
    /\ mgmt' = "dead"
    /\ UNCHANGED <<constate, lock, isLeader, raftVars, request, answer, clientVars, history>>

Management == Call \/ SetState \/ SetLeader \/ Answer \/ Refuse \/ LockPanics

Next ==
    \/ Raft
    \/ \E q \in Command \cup {Status, Bad} : Query(q)
    \/ PrintAnswer \/ QueryFails
    \/ Management

Spec == Init /\ [][Next]_vars

\* Both threads and the client run, and a client notices that the server is
\* gone.  Nothing is assumed of Raft or of operators.
FairSpec ==
    /\ Spec
    /\ WF_vars(Management)
    /\ WF_vars(StartInternalRaft \/ ResolveFails)
    /\ WF_vars(SwitchCheck) /\ WF_vars(SwitchStore)
    /\ WF_vars(PrintAnswer) /\ WF_vars(mgmt = "dead" /\ QueryFails)

-----------------------------------------------------------------------------
(* Properties. *)

\* The shared state, and where both threads and the client are.  Between its
\* steps the Raft thread holds the lock only while it starts, and leaves it
\* poisoned only if it died doing so.  The client waits for the request the
\* server is at, and for no other.
TypeOK ==
    /\ constate \in ConsensusState
    /\ lock \in {"free", "raft", "mgmt", "poisoned"}
    /\ {isLeader, acquired, told, untouched, overtaken} \subseteq BOOLEAN
    /\ role \in {"Follower", "Candidate", "Leader"}
    /\ raft \in {"delayed", "resolving", "running", "check", "store", "dead"}
    /\ mgmt \in {"idle", "setState", "setLeader", "status", "refuse", "dead"}
    /\ {request, query} \subseteq Command \cup {Status, Bad}
    /\ answer \in (ConsensusState \X BOOLEAN) \cup {Refusal}
    /\ client \in {"idle", "sent", "waiting", "answered"}
    /\ forced \in {"leader", "follower", NotForced}
    /\ lock = "raft" <=> raft = "resolving"
    /\ lock = "poisoned" <=> raft = "dead"
    /\ client = "waiting" => mgmt # "idle" /\ request = query
    /\ client = "answered" => mgmt = "idle"

\* The Raft thread has no call of switch_leader under way.
Settled == raft \in {"delayed", "running"}

\* A node that never got a command is what Raft last said about its
\* leadership, whenever no notification is under way.  Raft says nothing to a
\* node that never led: one that was started as leader stays leader until it
\* has led a term and lost it, whoever else Raft elects.
FollowsRaftUntouched == untouched /\ Settled => isLeader = told

\* A leader state set by a command together with a pause or a disabled
\* consensus stays until the consensus is enabled again, unless a
\* notification had passed its check before the command.
ForcedStays == forced # NotForced => isLeader = (forced = "leader")

\* "New server state": the state the client prints after a command is the one
\* it asked for, unless the Raft thread came in between.
PrintedIsApplied ==
    client = "answered" /\ query \in Command /\ ~overtaken =>
        answer = <<NewState(query[1]), NewLeader(query[2], answer[2])>>

\* Every query ends, with an answer or an error: the lock is held only by the
\* Raft thread while it starts, and a server that finds it poisoned is gone.
QueryEnds == client # "idle" ~> client = "idle"

\* "Both `Paused` and `Diabled` states' goal is to stop any influence to
\* leadership status regardless of consensus leadership state."
\* (doc/consensus.md): while the consensus is not enabled the leader state is
\* changed by commands only.
PausedMeansNoInfluence ==
    [][constate # "Enabled" /\ isLeader' # isLeader => mgmt = "setLeader"]_vars
=============================================================================
