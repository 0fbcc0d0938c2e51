---------------------------- MODULE CarbonProofs ----------------------------
(***************************************************************************)
(* The theorems about Carbon: its types, the tries of a client, that the   *)
(* chunks partition the batch, and what of a chunk the backend gets.       *)
(***************************************************************************)
EXTENDS Carbon, Integers, TLAPS

-----------------------------------------------------------------------------
(* The arithmetic of slice::chunks. *)

\* Chunks that are not empty are at most as many as the metrics, and cover
\* them all.
LEMMA ChunkCounts ==
  ASSUME batch \in Nat, ChunkSize > 0
  PROVE  /\ ChunkSize \in Nat /\ ChunkCount \in Nat
         /\ batch <= ChunkCount * ChunkSize
         /\ (ChunkCount - 1) * ChunkSize < batch
         /\ ChunkCount <= batch
<1>1. ChunkSize \in Nat
  BY CarbonAssumption DEF ChunkSize
<1>2. ChunkCount \in Nat
  BY <1>1 DEF ChunkCount
<1>3. ChunkCount * ChunkSize <= batch + ChunkSize - 1
  BY <1>1 DEF ChunkCount
<1>4. batch + ChunkSize - 1 < ChunkCount * ChunkSize + ChunkSize
  BY <1>1 DEF ChunkCount
<1>5. batch <= ChunkCount * ChunkSize /\ (ChunkCount - 1) * ChunkSize < batch
  BY <1>1, <1>2, <1>3, <1>4
<1>6. ChunkCount - 1 <= (ChunkCount - 1) * ChunkSize \/ ChunkCount = 0
  BY <1>1, <1>2
<1> QED
  BY <1>1, <1>2, <1>5, <1>6

\* A chunk is an interval of the batch.
LEMMA ChunkShape ==
  ASSUME batch \in Nat, ChunkSize > 0, NEW c \in 1 .. ChunkCount
  PROVE  /\ First(c) \in 1 .. batch
         /\ ChunkLen(c) \in 1 .. batch
         /\ First(c) + ChunkLen(c) - 1 <= batch
         /\ First(c) + ChunkLen(c) - 1 <= c * ChunkSize
<1>1. /\ ChunkSize \in Nat /\ ChunkCount \in Nat /\ c \in Nat
      /\ (ChunkCount - 1) * ChunkSize < batch
  BY ChunkCounts
<1>2. (c - 1) * ChunkSize <= (ChunkCount - 1) * ChunkSize
  BY <1>1
<1>3. /\ First(c) \in Nat /\ 1 <= First(c) /\ First(c) <= batch
      /\ c * ChunkSize = First(c) + ChunkSize - 1
  BY <1>1, <1>2 DEF First
<1> QED
  BY <1>1, <1>3 DEF ChunkLen

\* Every metric is in a chunk.
LEMMA ChunkOf ==
  ASSUME batch \in Nat, ChunkSize > 0, NEW m \in 1 .. batch
  PROVE  \E c \in 1 .. ChunkCount : m \in Chunk(c)
<1> DEFINE c == (m - 1) \div ChunkSize + 1
<1>1. ChunkSize \in Nat /\ ChunkCount \in Nat /\ batch <= ChunkCount * ChunkSize
  BY ChunkCounts
<1>2. c \in Nat /\ (c - 1) * ChunkSize <= m - 1 /\ m - 1 < (c - 1) * ChunkSize + ChunkSize
  BY <1>1
<1> HIDE DEF c
<1>3. c >= 1
  BY <1>1, <1>2
<1>4. c <= ChunkCount
  <2>1. SUFFICES ASSUME ChunkCount <= c - 1 PROVE FALSE
    BY <1>1, <1>2
  <2>2. ChunkCount * ChunkSize <= (c - 1) * ChunkSize
    BY <1>1, <1>2, <1>3, <2>1
  <2> QED
    BY <1>1, <1>2, <2>2
<1>5. c * ChunkSize = (c - 1) * ChunkSize + ChunkSize
  BY <1>1, <1>2
<1>6. m \in Chunk(c)
  BY <1>1, <1>2, <1>5 DEF Chunk, First, ChunkLen
<1> QED
  BY <1>1, <1>2, <1>3, <1>4, <1>6

\* No metric is in two.
LEMMA ChunksDisjoint ==
  ASSUME batch \in Nat, ChunkSize > 0, NEW c \in 1 .. ChunkCount, NEW d \in 1 .. ChunkCount,
         NEW m \in Chunk(c), m \in Chunk(d)
  PROVE  c = d
<1>1. ChunkSize \in Nat /\ ChunkCount \in Nat /\ c \in Nat /\ d \in Nat
  BY ChunkCounts
<1>2. /\ First(c) \in Nat /\ ChunkLen(c) \in Nat /\ First(d) \in Nat /\ ChunkLen(d) \in Nat
      /\ First(c) + ChunkLen(c) - 1 <= c * ChunkSize
      /\ First(d) + ChunkLen(d) - 1 <= d * ChunkSize
  BY <1>1, ChunkShape
<1>3. /\ (c - 1) * ChunkSize < m /\ m <= c * ChunkSize
      /\ (d - 1) * ChunkSize < m /\ m <= d * ChunkSize
      /\ m \in Int
  BY <1>1, <1>2 DEF Chunk, First
<1>4. ASSUME NEW a \in Nat, NEW b \in Nat, (b - 1) * ChunkSize < a * ChunkSize PROVE b <= a
  <2>1. SUFFICES ASSUME a <= b - 1 PROVE FALSE
    OBVIOUS
  <2>2. a * ChunkSize <= (b - 1) * ChunkSize
    BY <1>1, <1>4, <2>1
  <2> QED
    BY <1>1, <1>4, <2>2
<1>5. (c - 1) * ChunkSize < d * ChunkSize /\ (d - 1) * ChunkSize < c * ChunkSize
  BY <1>1, <1>3
<1>6. c <= d /\ d <= c
  BY <1>1, <1>4, <1>5
<1> QED
  BY <1>1, <1>6

-----------------------------------------------------------------------------
(* The inductive invariant. *)

\* Before the split nothing has happened; after it exactly the first
\* ChunkCount clients work.
PhaseInv ==
    /\ phase # "sending" => \A c \in Client : inner[c] = "idle" /\ retries[c] = Retries
    /\ phase = "collected" => \A m \in 1 .. batch : got[m] = 0
    /\ phase = "sending" =>
           /\ ChunkSize > 0
           /\ \A c \in Client : inner[c] # "idle" <=> c \in 1 .. ChunkCount

\* A client without a connection has written nothing, one that waits or has
\* given up has none, and one that is done has written its chunk.
ConnInv(c) ==
    /\ inner[c] \in {"idle", "delay", "failed"} => conn[c] = "none"
    /\ conn[c] = "none" => written[c] = 0 /\ read[c] = 0
    /\ conn[c] = "broken" => inner[c] = "done"
    /\ inner[c] # "idle" => written[c] <= ChunkLen(c)
    /\ inner[c] = "done" => conn[c] # "none" /\ written[c] = ChunkLen(c)

\* The backend got a metric once per try of its chunk at most, and in this
\* try the first read[c] metrics of it.
GotInv(c) ==
    inner[c] # "idle" =>
        \A m \in Chunk(c) :
            IF m < First(c) + read[c] THEN got[m] \in 1 .. tries[c]
            ELSE got[m] <= IF inner[c] \in {"action", "done"} THEN tries[c] - 1 ELSE tries[c]

IInv ==
    /\ TypeOK /\ TriesInv /\ PhaseInv
    /\ \A c \in Client : ConnInv(c) /\ GotInv(c)

-----------------------------------------------------------------------------
(* What all steps of a client have in common. *)

LEMMA SameChunks ==
  ASSUME batch' = batch
  PROVE  /\ ChunkSize' = ChunkSize /\ ChunkCount' = ChunkCount
         /\ \A c : First(c)' = First(c) /\ ChunkLen(c)' = ChunkLen(c) /\ Chunk(c)' = Chunk(c)
BY Zenon DEF ChunkSize, ChunkCount, First, ChunkLen, Chunk

LEMMA BatchType ==
  ASSUME TypeOK
  PROVE  batch \in Nat /\ 1 .. batch \subseteq Client
BY CarbonAssumption DEF TypeOK

\* A client that is not idle has a chunk.
LEMMA Working ==
  ASSUME IInv, NEW c \in Client, inner[c] # "idle"
  PROVE  /\ batch \in Nat /\ ChunkSize > 0 /\ c \in 1 .. ChunkCount /\ phase = "sending"
         /\ First(c) \in 1 .. batch /\ ChunkLen(c) \in 1 .. batch
         /\ First(c) + ChunkLen(c) - 1 <= batch
<1>1. batch \in Nat
  BY BatchType DEF IInv
<1>2. ChunkSize > 0 /\ c \in 1 .. ChunkCount /\ phase = "sending"
  BY Zenon DEF IInv, PhaseInv
<1> QED
  BY <1>1, <1>2, ChunkShape

\* A client no part of which changes.
LEMMA ClientKept ==
  ASSUME NEW d \in Client, ConnInv(d), GotInv(d), batch' = batch,
         inner'[d] = inner[d], tries'[d] = tries[d], conn'[d] = conn[d],
         written'[d] = written[d], read'[d] = read[d],
         inner[d] # "idle" => \A m \in Chunk(d) : got'[m] = got[m]
  PROVE  ConnInv(d)' /\ GotInv(d)'
<1>1. First(d)' = First(d) /\ ChunkLen(d)' = ChunkLen(d) /\ Chunk(d)' = Chunk(d)
  BY Zenon, SameChunks
<1>2. ConnInv(d)'
  BY Zenon, <1>1 DEF ConnInv
<1>3. GotInv(d)'
  BY Zenon, <1>1 DEF GotInv
<1> QED
  BY <1>2, <1>3

\* A step of client c, which is not idle before it or after it.
LEMMA ClientStep ==
  ASSUME IInv, NEW c \in Client, inner[c] # "idle", inner'[c] # "idle",
         UNCHANGED <<batch, phase>>,
         RetryTypeOK', TriesInv', conn' \in [Client -> {"none", "open", "broken"}],
         written' \in [Client -> 0 .. batch], read' \in [Client -> 0 .. batch],
         got' \in [1 .. batch -> 0 .. Retries + 1],
         \A d \in Client \ {c} :
             /\ inner'[d] = inner[d] /\ tries'[d] = tries[d] /\ conn'[d] = conn[d]
             /\ written'[d] = written[d] /\ read'[d] = read[d]
             /\ inner[d] # "idle" => \A m \in Chunk(d) : got'[m] = got[m],
         read'[c] <= written'[c], ConnInv(c)', GotInv(c)'
  PROVE  IInv'
<1>1. TypeOK'
  BY Zenon DEF IInv, TypeOK
<1>2. PhaseInv'
  <2>1. phase = "sending" /\ phase' = phase /\ ChunkSize > 0
    BY Zenon, Working
  <2>2. ChunkSize' = ChunkSize /\ ChunkCount' = ChunkCount
    BY Zenon, SameChunks
  <2>3. \A d \in Client : inner'[d] # "idle" <=> inner[d] # "idle"
    BY Zenon
  <2>4. \A d \in Client : inner[d] # "idle" <=> d \in 1 .. ChunkCount
    BY Zenon, <2>1 DEF IInv, PhaseInv
  <2> QED
    BY Zenon, <2>1, <2>2, <2>3, <2>4 DEF PhaseInv
<1>3. ASSUME NEW d \in Client PROVE ConnInv(d)' /\ GotInv(d)'
  <2>1. CASE d # c
    BY Zenon, <2>1, ClientKept DEF IInv
  <2> QED
    BY Zenon, <2>1
<1> QED
  BY Zenon, <1>1, <1>2, <1>3 DEF IInv

\* The retrying future keeps its types and counts its tries.
LEMMA FailRetry ==
  ASSUME RetryTypeOK, TriesInv, NEW c \in Client, Fail(c)
  PROVE  /\ RetryTypeOK' /\ TriesInv'
         /\ inner[c] = "action" /\ inner'[c] \in {"delay", "failed"} /\ tries' = tries
         /\ \A d \in Client \ {c} : inner'[d] = inner[d]
<1>1. NextDelay \in 0 .. DelayMax
  BY RetryAssumption DEF NextDelay
<1> USE RetryAssumption
<1>2. CASE retries[c] = 0
  BY <1>2 DEF Fail, RetryTypeOK, TriesInv
<1>3. CASE retries[c] # 0
  BY <1>1, <1>3 DEF Fail, RetryTypeOK, TriesInv
<1> QED
  BY Zenon, <1>2, <1>3

LEMMA ElapseRetry ==
  ASSUME RetryTypeOK, TriesInv, NEW c \in Client, Elapse(c)
  PROVE  /\ RetryTypeOK' /\ TriesInv'
         /\ inner[c] = "delay" /\ inner'[c] = "action" /\ tries'[c] = tries[c] + 1
         /\ \A d \in Client \ {c} : inner'[d] = inner[d] /\ tries'[d] = tries[d]
BY RetryAssumption DEF Elapse, RetryTypeOK, TriesInv

LEMMA SucceedRetry ==
  ASSUME RetryTypeOK, TriesInv, NEW c \in Client, Succeed(c)
  PROVE  /\ RetryTypeOK' /\ TriesInv'
         /\ inner[c] = "action" /\ inner'[c] = "done" /\ tries' = tries
         /\ \A d \in Client \ {c} : inner'[d] = inner[d]
BY Zenon, RetryAssumption DEF Succeed, RetryTypeOK, TriesInv

LEMMA SameRetry ==
  ASSUME RetryTypeOK, TriesInv, UNCHANGED retryVars
  PROVE  RetryTypeOK' /\ TriesInv' /\ inner' = inner /\ tries' = tries
BY Zenon DEF retryVars, RetryTypeOK, TriesInv

-----------------------------------------------------------------------------
(* The actions. *)

LEMMA InitInv == Init => IInv
<1> SUFFICES ASSUME Init PROVE IInv
  OBVIOUS
<1> USE RetryAssumption, CarbonAssumption DEF Init, RetryInit
<1>1. batch \in Nat
  BY Zenon
<1>2. RetryTypeOK /\ TriesInv
  BY DEF RetryTypeOK, TriesInv
<1>3. TypeOK
  BY <1>1, <1>2 DEF TypeOK
<1>4. PhaseInv
  BY Zenon, <1>1 DEF PhaseInv
<1>5. ASSUME NEW c \in Client PROVE ConnInv(c) /\ GotInv(c)
  BY Zenon DEF ConnInv, GotInv
<1> QED
  BY <1>2, <1>3, <1>4, <1>5 DEF IInv

LEMMA SplitStep ==
  ASSUME IInv, Split
  PROVE  IInv'
<1>1. batch \in Nat /\ 1 .. batch \subseteq Client
  BY BatchType DEF IInv
<1>2. ChunkSize > 0 /\ ChunkCount \in Nat /\ ChunkCount <= batch
  BY <1>1, ChunkCounts DEF Split
<1>3. \A c \in Client : inner[c] = "idle" /\ conn[c] = "none" /\ written[c] = 0 /\ read[c] = 0
  BY Zenon DEF IInv, PhaseInv, ConnInv, Split
<1>4. \A m \in 1 .. batch : got[m] = 0
  BY Zenon DEF IInv, PhaseInv, Split
<1>5. /\ phase' = "sending" /\ UNCHANGED <<batch, conn, written, read, got, retries, delay>>
      /\ inner' = [c \in Client |-> IF c \in 1 .. ChunkCount THEN "action" ELSE "idle"]
      /\ tries' = [c \in Client |-> IF c \in 1 .. ChunkCount THEN 1 ELSE tries[c]]
  BY Zenon, <1>3 DEF Split, Spawn, netVars
<1>6. RetryTypeOK'
  BY <1>5, RetryAssumption DEF IInv, TypeOK, RetryTypeOK
<1>7. \A c \in Client : retries[c] = Retries
  BY Zenon DEF IInv, PhaseInv, Split
<1>8. TriesInv'
  BY <1>5, <1>7, RetryAssumption DEF TriesInv
<1>9. TypeOK'
  BY Zenon, <1>5, <1>6 DEF IInv, TypeOK
<1>10. ChunkSize' = ChunkSize /\ ChunkCount' = ChunkCount
  BY Zenon, <1>5, SameChunks
<1>11. PhaseInv'
  BY Zenon, <1>2, <1>5, <1>10 DEF PhaseInv
<1>12. ASSUME NEW c \in Client PROVE ConnInv(c)' /\ GotInv(c)'
  <2>1. CASE inner'[c] = "idle"
    BY Zenon, <1>3, <1>5, <2>1 DEF ConnInv, GotInv
  <2>2. CASE inner'[c] # "idle"
    <3>1. c \in 1 .. ChunkCount /\ inner'[c] = "action" /\ tries'[c] = 1
      BY <1>5, <2>2
    <3>2. First(c) \in 1 .. batch /\ ChunkLen(c) \in 1 .. batch /\ First(c) + ChunkLen(c) - 1 <= batch
      BY <1>1, <1>2, <3>1, ChunkShape
    <3>3. First(c)' = First(c) /\ ChunkLen(c)' = ChunkLen(c) /\ Chunk(c)' = Chunk(c)
      BY Zenon, <1>5, SameChunks
    <3>4. ConnInv(c)'
      BY <1>3, <1>5, <3>1, <3>2, <3>3 DEF ConnInv
    <3>5. Chunk(c) \subseteq 1 .. batch /\ \A m \in Chunk(c) : m >= First(c)
      BY <1>1, <3>2 DEF Chunk
    <3>6. GotInv(c)'
      BY <1>3, <1>4, <1>5, <3>1, <3>2, <3>3, <3>5 DEF GotInv
    <3> QED
      BY <3>4, <3>6
  <2> QED
    BY <2>1, <2>2
<1> QED
  BY <1>8, <1>9, <1>11, <1>12 DEF IInv

LEMMA SplitPanicsStep ==
  ASSUME IInv, SplitPanics
  PROVE  IInv'
<1>1. /\ phase' = "panicked" /\ phase = "collected"
      /\ UNCHANGED <<retryVars, batch, conn, written, read, got>>
  BY DEF SplitPanics, netVars
<1>2. RetryTypeOK' /\ TriesInv' /\ inner' = inner /\ tries' = tries /\ retries' = retries
  BY Zenon, <1>1, SameRetry DEF IInv, TypeOK, retryVars
<1>3. TypeOK'
  BY Zenon, <1>1, <1>2 DEF IInv, TypeOK
<1>4. PhaseInv'
  BY Zenon, <1>1, <1>2 DEF IInv, PhaseInv
<1>5. ASSUME NEW c \in Client PROVE ConnInv(c)' /\ GotInv(c)'
  BY Zenon, <1>1, <1>2, ClientKept DEF IInv
<1> QED
  BY <1>2, <1>3, <1>4, <1>5 DEF IInv

LEMMA ConnectStep ==
  ASSUME IInv, NEW c \in Client, Connect(c)
  PROVE  IInv'
<1>1. /\ inner[c] = "action" /\ conn[c] = "none" /\ conn' = [conn EXCEPT ![c] = "open"]
      /\ UNCHANGED <<retryVars, batch, phase, written, read, got>>
  BY DEF Connect
<1>2. TypeOK /\ TriesInv /\ ConnInv(c) /\ GotInv(c)
  BY DEF IInv
<1>3. RetryTypeOK' /\ TriesInv' /\ inner' = inner /\ tries' = tries
  BY Zenon, <1>1, <1>2, SameRetry DEF TypeOK
<1>4. First(c)' = First(c) /\ ChunkLen(c)' = ChunkLen(c) /\ Chunk(c)' = Chunk(c)
  BY Zenon, <1>1, SameChunks
<1>5. conn'[c] = "open" /\ \A d \in Client \ {c} : conn'[d] = conn[d]
  BY Zenon, <1>1, <1>2 DEF TypeOK
<1>6. ConnInv(c)' /\ GotInv(c)'
  BY Zenon, <1>1, <1>2, <1>3, <1>4, <1>5 DEF ConnInv, GotInv
<1>7. /\ conn' \in [Client -> {"none", "open", "broken"}]
      /\ written' \in [Client -> 0 .. batch] /\ read' \in [Client -> 0 .. batch]
      /\ got' \in [1 .. batch -> 0 .. Retries + 1] /\ read'[c] <= written'[c]
  BY Zenon, <1>1, <1>2 DEF TypeOK
<1> QED
  BY Zenon, <1>1, <1>3, <1>5, <1>6, <1>7, ClientStep

LEMMA ConnectFailsStep ==
  ASSUME IInv, NEW c \in Client, ConnectFails(c)
  PROVE  IInv'
<1>1. Fail(c) /\ conn[c] = "none" /\ UNCHANGED <<batch, phase, conn, written, read, got>>
  BY DEF ConnectFails, netVars
<1>2. TypeOK /\ TriesInv /\ ConnInv(c) /\ GotInv(c)
  BY DEF IInv
<1>3. First(c)' = First(c) /\ ChunkLen(c)' = ChunkLen(c) /\ Chunk(c)' = Chunk(c)
  BY <1>1, SameChunks
<1>4. /\ RetryTypeOK' /\ TriesInv'
      /\ inner[c] = "action" /\ inner'[c] \in {"delay", "failed"} /\ tries' = tries
      /\ \A d \in Client \ {c} : inner'[d] = inner[d]
  BY Zenon, <1>1, <1>2, FailRetry DEF TypeOK
<1>5. tries[c] \in Nat /\ \A m \in Chunk(c) : m < First(c) + read[c] \/ got[m] <= tries[c] - 1
  BY <1>2, <1>4 DEF TypeOK, RetryTypeOK, GotInv
<1>6. ConnInv(c)'
  BY Zenon, <1>1, <1>2, <1>3, <1>4 DEF ConnInv
<1>7. Chunk(c) \subseteq 1 .. batch
  BY <1>4, Working DEF Chunk
<1>8. GotInv(c)'
  BY <1>1, <1>2, <1>3, <1>4, <1>5, <1>7 DEF GotInv, TypeOK
<1>9. /\ conn' \in [Client -> {"none", "open", "broken"}]
      /\ written' \in [Client -> 0 .. batch] /\ read' \in [Client -> 0 .. batch]
      /\ got' \in [1 .. batch -> 0 .. Retries + 1] /\ read'[c] <= written'[c]
  BY Zenon, <1>1, <1>2 DEF TypeOK
<1> QED
  BY Zenon, <1>1, <1>4, <1>6, <1>8, <1>9, ClientStep

LEMMA WriteStep ==
  ASSUME IInv, NEW c \in Client, Write(c)
  PROVE  IInv'
<1>1. /\ inner[c] = "action" /\ conn[c] = "open" /\ written[c] < ChunkLen(c)
      /\ written' = [written EXCEPT ![c] = @ + 1]
      /\ UNCHANGED <<retryVars, batch, phase, conn, read, got>>
  BY Zenon DEF Write
<1>2. TypeOK /\ TriesInv /\ ConnInv(c) /\ GotInv(c)
  BY DEF IInv
<1>3. First(c)' = First(c) /\ ChunkLen(c)' = ChunkLen(c) /\ Chunk(c)' = Chunk(c)
  BY Zenon, <1>1, SameChunks
<1>4. RetryTypeOK' /\ TriesInv' /\ inner' = inner /\ tries' = tries
  BY Zenon, <1>1, <1>2, SameRetry DEF TypeOK
<1>5. written[c] \in Nat /\ batch \in Nat /\ ChunkLen(c) \in 1 .. batch
  BY <1>1, <1>2, Working DEF TypeOK
<1>6. /\ written'[c] = written[c] + 1
      /\ \A d \in Client \ {c} : written'[d] = written[d]
  BY Zenon, <1>1, <1>2 DEF TypeOK
<1>7. ConnInv(c)'
  BY <1>1, <1>2, <1>3, <1>4, <1>5, <1>6 DEF ConnInv
<1>8. GotInv(c)'
  BY Zenon, <1>1, <1>2, <1>3, <1>4 DEF GotInv
<1>9. /\ conn' \in [Client -> {"none", "open", "broken"}]
      /\ written' \in [Client -> 0 .. batch] /\ read' \in [Client -> 0 .. batch]
      /\ got' \in [1 .. batch -> 0 .. Retries + 1] /\ read'[c] <= written'[c]
  BY <1>1, <1>2, <1>5, <1>6 DEF TypeOK
<1> QED
  BY Zenon, <1>1, <1>4, <1>6, <1>7, <1>8, <1>9, ClientStep

LEMMA FinishStep ==
  ASSUME IInv, NEW c \in Client, Finish(c)
  PROVE  IInv'
<1>1. /\ conn[c] = "open" /\ written[c] = ChunkLen(c) /\ Succeed(c)
      /\ UNCHANGED <<batch, phase, conn, written, read, got>>
  BY Zenon DEF Finish, netVars
<1>2. TypeOK /\ TriesInv /\ ConnInv(c) /\ GotInv(c)
  BY DEF IInv
<1>3. First(c)' = First(c) /\ ChunkLen(c)' = ChunkLen(c) /\ Chunk(c)' = Chunk(c)
  BY Zenon, <1>1, SameChunks
<1>4. /\ RetryTypeOK' /\ TriesInv'
      /\ inner[c] = "action" /\ inner'[c] = "done" /\ tries' = tries
      /\ \A d \in Client \ {c} : inner'[d] = inner[d]
  BY Zenon, <1>1, <1>2, SucceedRetry DEF TypeOK
<1>5. ConnInv(c)'
  BY Zenon, <1>1, <1>2, <1>3, <1>4 DEF ConnInv
<1>6. GotInv(c)'
  BY Zenon, <1>1, <1>2, <1>3, <1>4 DEF GotInv
<1>7. /\ conn' \in [Client -> {"none", "open", "broken"}]
      /\ written' \in [Client -> 0 .. batch] /\ read' \in [Client -> 0 .. batch]
      /\ got' \in [1 .. batch -> 0 .. Retries + 1] /\ read'[c] <= written'[c]
  BY Zenon, <1>1, <1>2 DEF TypeOK
<1> QED
  BY Zenon, <1>1, <1>4, <1>5, <1>6, <1>7, ClientStep

LEMMA DeliverStep ==
  ASSUME IInv, NEW c \in Client, Deliver(c)
  PROVE  IInv'
<1> DEFINE k == First(c) + read[c]
<1>1. /\ conn[c] = "open" /\ read[c] < written[c]
      /\ read' = [read EXCEPT ![c] = @ + 1] /\ got' = [got EXCEPT ![k] = @ + 1]
      /\ UNCHANGED <<retryVars, batch, phase, conn, written>>
  BY Zenon DEF Deliver
<1>2. TypeOK /\ TriesInv /\ ConnInv(c) /\ GotInv(c)
  BY DEF IInv
<1>3. First(c)' = First(c) /\ ChunkLen(c)' = ChunkLen(c) /\ Chunk(c)' = Chunk(c)
  BY Zenon, <1>1, SameChunks
<1>4. inner[c] \in {"action", "done"} /\ RetryTypeOK' /\ TriesInv' /\ inner' = inner /\ tries' = tries
  BY Zenon, <1>1, <1>2, SameRetry DEF TypeOK, RetryTypeOK, ConnInv
<1>5. /\ batch \in Nat /\ ChunkSize > 0 /\ c \in 1 .. ChunkCount /\ phase = "sending"
      /\ First(c) \in 1 .. batch /\ ChunkLen(c) \in 1 .. batch
      /\ First(c) + ChunkLen(c) - 1 <= batch
  BY Zenon, <1>4, Working
<1>6. /\ read[c] \in Nat /\ written[c] \in Nat /\ written[c] <= batch /\ written[c] <= ChunkLen(c)
      /\ tries[c] \in Nat /\ tries[c] <= Retries + 1
  BY <1>2, <1>4, <1>5, RetryAssumption DEF TypeOK, RetryTypeOK, ConnInv
<1>7. k \in Chunk(c) /\ Chunk(c) \subseteq 1 .. batch
  BY <1>1, <1>5, <1>6 DEF Chunk
<1>8. got[k] \in Nat /\ got[k] <= tries[c] - 1
  <2>1. ~(k < First(c) + read[c])
    BY <1>5, <1>6
  <2> HIDE DEF k
  <2>2. got[k] \in 0 .. Retries + 1
    BY Zenon, <1>2, <1>7 DEF TypeOK
  <2>3. inner[c] \in {"action", "done"} /\ inner[c] # "idle"
    BY <1>4
  <2>4. got[k] <= tries[c] - 1
    BY Zenon, <1>2, <1>7, <2>1, <2>3 DEF GotInv
  <2> QED
    BY <2>2, <2>4, RetryAssumption
<1>9. /\ read'[c] = read[c] + 1 /\ \A d \in Client \ {c} : read'[d] = read[d]
      /\ got'[k] = got[k] + 1 /\ \A m \in (1 .. batch) \ {k} : got'[m] = got[m]
  <2> HIDE DEF k
  <2> QED
    BY Zenon, <1>1, <1>2, <1>7 DEF TypeOK
<1>10. /\ conn' \in [Client -> {"none", "open", "broken"}]
       /\ written' \in [Client -> 0 .. batch] /\ read' \in [Client -> 0 .. batch]
       /\ got' \in [1 .. batch -> 0 .. Retries + 1] /\ read'[c] <= written'[c]
  <2>1. read' \in [Client -> 0 .. batch] /\ read'[c] <= written'[c] /\ written' = written
    <3>1. read \in [Client -> 0 .. batch]
      BY Zenon, <1>2 DEF TypeOK
    <3>2. read'[c] <= written'[c] /\ written' = written
      BY <1>1, <1>6, <1>9
    <3>3. read[c] < written[c] /\ read' = [read EXCEPT ![c] = read[c] + 1]
      BY Zenon, <1>1
    <3>4. read[c] + 1 \in 0 .. batch
      BY <1>5, <1>6, <3>3
    <3> QED
      BY <3>1, <3>2, <3>3, <3>4
  <2>2. got' \in [1 .. batch -> 0 .. Retries + 1]
    <3> HIDE DEF k
    <3> QED
      BY <1>1, <1>2, <1>6, <1>7, <1>8, <1>9, RetryAssumption DEF TypeOK
  <2> QED
    BY Zenon, <1>1, <1>2, <2>1, <2>2 DEF TypeOK
<1>11. ConnInv(c)'
  BY Zenon, <1>1, <1>2, <1>3, <1>4, <1>9 DEF ConnInv
<1>12. GotInv(c)'
  <2> SUFFICES ASSUME NEW m \in Chunk(c)
               PROVE  IF m < First(c) + read[c] + 1 THEN got'[m] \in 1 .. tries[c] ELSE got'[m] <= tries[c] - 1
    BY <1>3, <1>4, <1>5, <1>6, <1>9 DEF GotInv
  <2>1. m \in 1 .. batch /\ m \in Nat
    BY <1>5, <1>7
  <2>2. CASE m = k
    BY <1>5, <1>6, <1>8, <1>9, <2>2
  <2>3. CASE m # k
    <3>1. got'[m] = got[m]
      BY Zenon, <1>9, <2>1, <2>3
    <3>2. m < First(c) + read[c] + 1 <=> m < First(c) + read[c]
      BY <1>5, <1>6, <2>1, <2>3
    <3> QED
      BY Zenon, <1>2, <1>4, <3>1, <3>2 DEF GotInv
  <2> QED
    BY Zenon, <2>2, <2>3
<1>13. ASSUME NEW d \in Client \ {c}, inner[d] # "idle", NEW m \in Chunk(d) PROVE got'[m] = got[m]
  <2>1. /\ d \in 1 .. ChunkCount /\ First(d) \in 1 .. batch /\ ChunkLen(d) \in 1 .. batch
        /\ First(d) + ChunkLen(d) - 1 <= batch
    BY Zenon, <1>13, Working
  <2>2. m \in 1 .. batch
    BY <1>5, <2>1 DEF Chunk
  <2>3. m # k
    <3> HIDE DEF k
    <3> QED
      BY Zenon, <1>5, <1>7, <1>13, <2>1, ChunksDisjoint
  <2> QED
    BY Zenon, <1>9, <2>2, <2>3
<1> QED
  BY Zenon, <1>1, <1>4, <1>9, <1>10, <1>11, <1>12, <1>13, ClientStep

LEMMA BreakStep ==
  ASSUME IInv, NEW c \in Client, Break(c)
  PROVE  IInv'
<1>1. /\ conn[c] = "open" /\ Fail(c) /\ conn' = [conn EXCEPT ![c] = "none"]
      /\ written' = [written EXCEPT ![c] = 0] /\ read' = [read EXCEPT ![c] = 0]
      /\ UNCHANGED <<batch, phase, got>>
  BY Zenon DEF Break
<1>2. TypeOK /\ TriesInv /\ ConnInv(c) /\ GotInv(c)
  BY DEF IInv
<1>3. First(c)' = First(c) /\ ChunkLen(c)' = ChunkLen(c) /\ Chunk(c)' = Chunk(c)
  BY Zenon, <1>1, SameChunks
<1>4. /\ RetryTypeOK' /\ TriesInv'
      /\ inner[c] = "action" /\ inner'[c] \in {"delay", "failed"} /\ tries' = tries
      /\ \A d \in Client \ {c} : inner'[d] = inner[d]
  BY Zenon, <1>1, <1>2, FailRetry DEF TypeOK
<1>5. /\ conn'[c] = "none" /\ written'[c] = 0 /\ read'[c] = 0
      /\ \A d \in Client \ {c} : conn'[d] = conn[d] /\ written'[d] = written[d] /\ read'[d] = read[d]
  BY Zenon, <1>1, <1>2 DEF TypeOK
<1>6. /\ batch \in Nat /\ First(c) \in Nat /\ ChunkLen(c) \in Nat
      /\ Chunk(c) \subseteq 1 .. batch /\ \A m \in Chunk(c) : m >= First(c)
  BY <1>4, Working DEF Chunk
<1>7. ConnInv(c)'
  BY <1>3, <1>4, <1>5, <1>6 DEF ConnInv
<1>8. \A m \in Chunk(c) : got[m] <= tries[c]
  BY <1>2, <1>4, <1>6 DEF GotInv, TypeOK, RetryTypeOK
<1>9. GotInv(c)'
  BY <1>1, <1>3, <1>4, <1>5, <1>6, <1>8 DEF GotInv
<1>10. /\ conn' \in [Client -> {"none", "open", "broken"}]
       /\ written' \in [Client -> 0 .. batch] /\ read' \in [Client -> 0 .. batch]
       /\ got' \in [1 .. batch -> 0 .. Retries + 1] /\ read'[c] <= written'[c]
  BY <1>1, <1>2, <1>5, <1>6 DEF TypeOK
<1> QED
  BY <1>1, <1>4, <1>5, <1>7, <1>9, <1>10, ClientStep

LEMMA BreakLateStep ==
  ASSUME IInv, NEW c \in Client, BreakLate(c)
  PROVE  IInv'
<1>1. /\ conn[c] = "open" /\ inner[c] = "done" /\ conn' = [conn EXCEPT ![c] = "broken"]
      /\ UNCHANGED <<retryVars, batch, phase, written, read, got>>
  BY Zenon DEF BreakLate
<1>2. TypeOK /\ TriesInv /\ ConnInv(c) /\ GotInv(c)
  BY DEF IInv
<1>3. First(c)' = First(c) /\ ChunkLen(c)' = ChunkLen(c) /\ Chunk(c)' = Chunk(c)
  BY Zenon, <1>1, SameChunks
<1>4. RetryTypeOK' /\ TriesInv' /\ inner' = inner /\ tries' = tries
  BY Zenon, <1>1, <1>2, SameRetry DEF TypeOK
<1>5. conn'[c] = "broken" /\ \A d \in Client \ {c} : conn'[d] = conn[d]
  BY Zenon, <1>1, <1>2 DEF TypeOK
<1>6. ConnInv(c)' /\ GotInv(c)'
  BY Zenon, <1>1, <1>2, <1>3, <1>4, <1>5 DEF ConnInv, GotInv
<1>7. /\ conn' \in [Client -> {"none", "open", "broken"}]
      /\ written' \in [Client -> 0 .. batch] /\ read' \in [Client -> 0 .. batch]
      /\ got' \in [1 .. batch -> 0 .. Retries + 1] /\ read'[c] <= written'[c]
  BY Zenon, <1>1, <1>2 DEF TypeOK
<1> QED
  BY Zenon, <1>1, <1>4, <1>5, <1>6, <1>7, ClientStep

LEMMA RetryNowStep ==
  ASSUME IInv, NEW c \in Client, RetryNow(c)
  PROVE  IInv'
<1>1. Elapse(c) /\ UNCHANGED <<batch, phase, conn, written, read, got>>
  BY DEF RetryNow, netVars
<1>2. TypeOK /\ TriesInv /\ ConnInv(c) /\ GotInv(c)
  BY DEF IInv
<1>3. First(c)' = First(c) /\ ChunkLen(c)' = ChunkLen(c) /\ Chunk(c)' = Chunk(c)
  BY <1>1, SameChunks
<1>4. /\ RetryTypeOK' /\ TriesInv'
      /\ inner[c] = "delay" /\ inner'[c] = "action" /\ tries'[c] = tries[c] + 1
      /\ \A d \in Client \ {c} : inner'[d] = inner[d] /\ tries'[d] = tries[d]
  BY Zenon, <1>1, <1>2, ElapseRetry DEF TypeOK
<1>5. conn[c] = "none" /\ written[c] = 0 /\ read[c] = 0
  BY Zenon, <1>2, <1>4 DEF ConnInv
<1>6. /\ batch \in Nat /\ First(c) \in Nat /\ ChunkLen(c) \in Nat /\ tries[c] \in Nat
      /\ \A m \in Chunk(c) : m >= First(c)
  BY <1>2, <1>4, Working DEF Chunk, TypeOK, RetryTypeOK
<1>7. ConnInv(c)'
  BY <1>1, <1>3, <1>4, <1>5, <1>6 DEF ConnInv
<1>8. GotInv(c)'
  BY <1>1, <1>2, <1>3, <1>4, <1>5, <1>6 DEF GotInv
<1>9. /\ conn' \in [Client -> {"none", "open", "broken"}]
      /\ written' \in [Client -> 0 .. batch] /\ read' \in [Client -> 0 .. batch]
      /\ got' \in [1 .. batch -> 0 .. Retries + 1] /\ read'[c] <= written'[c]
  BY Zenon, <1>1, <1>2 DEF TypeOK
<1> QED
  BY Zenon, <1>1, <1>4, <1>7, <1>8, <1>9, ClientStep

LEMMA NextInv == IInv /\ [Next]_vars => IInv'
<1> SUFFICES ASSUME IInv, [Next]_vars PROVE IInv'
  OBVIOUS
<1>1. ASSUME NEW c \in Client, Try(c) \/ Deliver(c) \/ Break(c) \/ BreakLate(c) \/ RetryNow(c)
      PROVE  IInv'
  BY <1>1, ConnectStep, ConnectFailsStep, WriteStep, FinishStep, DeliverStep, BreakStep, BreakLateStep,
     RetryNowStep DEF Try
<1>2. CASE UNCHANGED vars
  <2>1. UNCHANGED <<retryVars, batch, phase, conn, written, read, got>>
    BY <1>2 DEF vars, netVars
  <2>2. RetryTypeOK' /\ TriesInv' /\ inner' = inner /\ tries' = tries /\ retries' = retries
    BY Zenon, <2>1, SameRetry DEF IInv, TypeOK, retryVars
  <2>3. TypeOK'
    BY Zenon, <2>1, <2>2 DEF IInv, TypeOK
  <2>4. PhaseInv'
    <3>1. ChunkSize' = ChunkSize /\ ChunkCount' = ChunkCount
      BY <2>1, SameChunks
    <3> QED
      BY Zenon, <2>1, <2>2, <3>1 DEF IInv, PhaseInv
  <2>5. ASSUME NEW c \in Client PROVE ConnInv(c)' /\ GotInv(c)'
    BY Zenon, <2>1, <2>2, ClientKept DEF IInv
  <2> QED
    BY <2>2, <2>3, <2>4, <2>5 DEF IInv
<1> QED
  BY <1>1, <1>2, SplitStep, SplitPanicsStep DEF Next

-----------------------------------------------------------------------------
(* The theorems. *)

\* The invariant holds in every reachable state.
THEOREM Inductive == Spec => []IInv
BY InitInv, NextInv, PTL DEF Spec

\* Delays, tries, positions and counters stay within their bounds, whatever
\* the number of chunks, metrics and retries: the backend gets no metric
\* more often than a chunk may be tried (carbon.rs, util.rs).
THEOREM TypeCorrect == Spec => []TypeOK
<1>1. IInv => TypeOK
  BY DEF IInv
<1> QED
  BY <1>1, Inductive, PTL

\* A carbon client gives up after exactly Retries + 1 tries (BackoffRetry).
THEOREM TriesCounted == Spec => []TriesInv
<1>1. IInv => TriesInv
  BY DEF IInv
<1> QED
  BY <1>1, Inductive, PTL

\* The chunks main.rs hands to the carbon clients hold every metric exactly
\* once, for every size of the batch and every configured number of chunks.
THEOREM EveryMetricOneChunk == Spec => []ChunksPartition
<1>1. ASSUME IInv PROVE ChunksPartition
  <2> SUFFICES ASSUME phase = "sending", NEW m \in 1 .. batch
               PROVE  \E c \in Client : {d \in Client : inner[d] # "idle" /\ m \in Chunk(d)} = {c}
    BY DEF ChunksPartition
  <2>1. batch \in Nat /\ 1 .. batch \subseteq Client
    BY <1>1, BatchType DEF IInv
  <2>2. ChunkSize > 0 /\ \A d \in Client : inner[d] # "idle" <=> d \in 1 .. ChunkCount
    BY Zenon, <1>1 DEF IInv, PhaseInv
  <2>3. PICK c \in 1 .. ChunkCount : m \in Chunk(c)
    BY <2>1, <2>2, ChunkOf
  <2>4. c \in Client
    BY <2>1, <2>2, <2>3, ChunkCounts
  <2>5. \A d \in 1 .. ChunkCount : m \in Chunk(d) => d = c
    BY <2>1, <2>2, <2>3, ChunksDisjoint
  <2> QED
    BY Zenon, <2>2, <2>3, <2>4, <2>5
<1> QED
  BY <1>1, Inductive, PTL

\* The backend gets a metric at most once per try of its chunk, and all of a
\* chunk whose client is done, unless the connection broke afterwards.
THEOREM ChunkArrives == Spec => []WholeChunkSent
<1>1. ASSUME IInv PROVE WholeChunkSent
  <2> SUFFICES ASSUME NEW c \in Client, inner[c] # "idle", NEW m \in Chunk(c)
               PROVE  /\ got[m] <= tries[c]
                      /\ inner[c] = "done" /\ conn[c] = "open" /\ read[c] = written[c] => got[m] >= 1
    BY Zenon DEF WholeChunkSent
  <2>1. TypeOK /\ ConnInv(c) /\ GotInv(c)
    BY <1>1 DEF IInv
  <2>2. /\ batch \in Nat /\ First(c) \in 1 .. batch /\ ChunkLen(c) \in 1 .. batch
        /\ First(c) + ChunkLen(c) - 1 <= batch
    BY Zenon, <1>1, Working
  <2>3. m \in 1 .. batch /\ m < First(c) + ChunkLen(c)
    BY <2>2 DEF Chunk
  <2>4. got[m] \in Nat /\ tries[c] \in Nat
    BY <2>1, <2>3 DEF TypeOK, RetryTypeOK
  <2>5. got[m] <= tries[c]
    BY <2>1, <2>4 DEF GotInv
  <2>6. ASSUME inner[c] = "done", read[c] = written[c] PROVE got[m] >= 1
    BY <2>1, <2>3, <2>6 DEF GotInv, ConnInv
  <2> QED
    BY Zenon, <2>5, <2>6
<1> QED
  BY <1>1, Inductive, PTL
=============================================================================
