---------------------------- MODULE BackoffRetry ----------------------------
(***************************************************************************)
(* BackoffRetry (util.rs): a future that runs an action again, after a     *)
(* delay, as long as it fails and retries are left.  Every element of      *)
(* Client is one such future; what its action does belongs to the module   *)
(* that uses this one.  Delays are in milliseconds.                        *)
(***************************************************************************)
EXTENDS Naturals

CONSTANTS
    Client,     \* the retrying futures
    Delay, Mul, DelayMax, Retries   \* BackoffRetryBuilder

ASSUME RetryAssumption == {Delay, Mul, DelayMax, Retries} \subseteq Nat

VARIABLES
    inner,      \* "idle" before spawn, Either::A "action" or Either::B "delay",
                \*   "done" and "failed" when the future is ready
    retries,    \* options.retries
    delay,      \* the length of the last delay, 0 before the first one
    tries       \* how often the action was started

retryVars == <<inner, retries, delay, tries>>

RetryInit ==
    /\ inner = [c \in Client |-> "idle"]
    /\ retries = [c \in Client |-> Retries]
    /\ delay = [c \in Client |-> 0]
    /\ tries = [c \in Client |-> 0]

\* BackoffRetryBuilder::spawn, for all clients of S.
Spawn(S) ==
    /\ \A c \in S : inner[c] = "idle"
    /\ inner' = [c \in Client |-> IF c \in S THEN "action" ELSE inner[c]]
    /\ tries' = [c \in Client |-> IF c \in S THEN 1 ELSE tries[c]]
    /\ UNCHANGED <<retries, delay>>

\* The action is ready.
Succeed(c) ==
    /\ inner[c] = "action"
    /\ inner' = [inner EXCEPT ![c] = "done"]
    /\ UNCHANGED <<retries, delay, tries>>

\* Mutant of NextDelay: there is no maximum.
NextDelay_NoMax == Delay * Mul

\* The delay after a failure: `options` keeps the initial delay.
NextDelay == IF Delay * Mul <= DelayMax THEN Delay * Mul ELSE DelayMax

\* Mutant of Fail: the last retry is not used.
Fail_Early(c) ==
    /\ inner[c] = "action"
    /\ IF retries[c] <= 1
         THEN /\ inner' = [inner EXCEPT ![c] = "failed"]
              /\ UNCHANGED <<retries, delay>>
         ELSE /\ inner' = [inner EXCEPT ![c] = "delay"]
              /\ retries' = [retries EXCEPT ![c] = @ - 1]
              /\ delay' = [delay EXCEPT ![c] = NextDelay]
    /\ UNCHANGED tries

\* The action failed.
Fail(c) ==
    /\ inner[c] = "action"
    /\ IF retries[c] = 0
         THEN /\ inner' = [inner EXCEPT ![c] = "failed"]
              /\ UNCHANGED <<retries, delay>>
         ELSE /\ inner' = [inner EXCEPT ![c] = "delay"]
              /\ retries' = [retries EXCEPT ![c] = @ - 1]
              /\ delay' = [delay EXCEPT ![c] = NextDelay]
    /\ UNCHANGED tries

\* Mutant of Elapse: the action is not started again.
Elapse_Stuck(c) == inner[c] = "delay" /\ UNCHANGED retryVars

\* The timer of the delay fires: a clone of the action is started.
Elapse(c) ==
    /\ inner[c] = "delay"
    /\ inner' = [inner EXCEPT ![c] = "action"]
    /\ tries' = [tries EXCEPT ![c] = @ + 1]
    /\ UNCHANGED <<retries, delay>>

\* A future in its last action is ready and dropped at once; its place is
\* free for another one.
Drop(c) ==
    /\ inner[c] = "action"
    /\ inner' = [inner EXCEPT ![c] = "idle"]
    /\ retries' = [retries EXCEPT ![c] = Retries]
    /\ delay' = [delay EXCEPT ![c] = 0]
    /\ tries' = [tries EXCEPT ![c] = 0]

Ready(c) == inner[c] \in {"done", "failed"}

RetryTypeOK ==
    /\ inner \in [Client -> {"idle", "action", "delay", "done", "failed"}]
    /\ retries \in [Client -> 0 .. Retries]
    /\ delay \in [Client -> 0 .. DelayMax]
    /\ tries \in [Client -> 0 .. Retries + 1]

\* Every try but the first used up one retry, and the future gives up only
\* when all are used: an action is tried at most Retries + 1 times ("note,
\* that 0 means 1 try", config.rs).
TriesInv ==
    \A c \in Client :
        /\ inner[c] \in {"action", "done"} => tries[c] + retries[c] = Retries + 1
        /\ inner[c] = "delay" => tries[c] + retries[c] = Retries
        /\ inner[c] = "failed" => tries[c] = Retries + 1
=============================================================================
