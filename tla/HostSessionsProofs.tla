-------------------------- MODULE HostSessionsProofs -------------------------
(***************************************************************************)
(* For any number of chunks: the gate loses, doubles and reorders nothing, *)
(* and its steps are steps of OutputStream.                                *)
(* For any connections, sessions and limits: a running terminal is known   *)
(* to somebody, the rows the store drops are the oldest, a connection that *)
(* joins misses nothing between the history and the live stream but what   *)
(* was broadcast and not yet a line of the history, and every buffer, map  *)
(* and table keeps its type and its limit.                                 *)
(***************************************************************************)
EXTENDS HostSessions, DataInduction, FiniteSetTheorems, TLAPS

-----------------------------------------------------------------------------
(* The output gate.                                                        *)

\* The handler decides once and the fields of the gate follow its progress.
LEMMA FlagsFollow == Flags /\ [Next]_vars => Flags'
<1> SUFFICES ASSUME Flags, [Next]_vars PROVE Flags'
  OBVIOUS
<1>1. CASE Callback
  BY <1>1, Zenon DEF Callback, Flags
<1>2. CASE Forward
  BY <1>2, Zenon DEF Forward, gate, Flags
<1>3. CASE Announce
  BY <1>3, Zenon DEF Announce, gate, Flags
<1>4. CASE Drop
  BY <1>4, Zenon DEF Drop, Flags
<1>5. CASE Activate
  BY <1>5, Zenon DEF Activate, Flags
<1>6. CASE ForwardBatch
  BY <1>6, Zenon DEF ForwardBatch, gate, Flags
<1>7. CASE EndBatch
  BY <1>7, Zenon DEF EndBatch, Flags
<1>8. CASE UNCHANGED vars
  BY <1>8, Zenon DEF vars, gate, Flags
<1> QED
  BY <1>1, <1>2, <1>3, <1>4, <1>5, <1>6, <1>7, <1>8 DEF Next, Capture, Create

LEMMA ChunksStay == Chunks /\ [Next]_vars => Chunks'
<1> SUFFICES ASSUME Chunks, [Next]_vars PROVE Chunks'
  OBVIOUS
<1> USE ChunksAssumption DEF Chunks
<1>1. CASE Callback
  <2>1. read' = read + 1 /\ read' \in 1..MaxChunks
    BY <1>1 DEF Callback
  <2>2. buffered' = buffered \/ buffered' = Append(buffered, read + 1)
    BY <1>1, Zenon DEF Callback
  <2>3. holding' = holding \/ holding' = read + 1
    BY <1>1, Zenon DEF Callback
  <2>4. batch' = batch /\ sent' = sent
    BY <1>1, Zenon DEF Callback
  <2>5. buffered' \in Seq(1..MaxChunks)
    <3>1. read + 1 \in 1..MaxChunks
      BY <2>1
    <3>2. Append(buffered, read + 1) \in Seq(1..MaxChunks)
      BY <3>1
    <3> QED
      BY <2>2, <3>2
  <2>6. holding' \in 0..MaxChunks
    BY <2>1, <2>3
  <2> QED
    BY <2>1, <2>4, <2>5, <2>6
<1>2. CASE Forward
  <2>1. holding \in 1..MaxChunks
    BY <1>2 DEF Forward
  <2> QED
    BY <1>2, <2>1 DEF Forward, gate
<1>3. CASE Announce
  BY <1>3 DEF Announce, gate
<1>4. CASE Drop
  BY <1>4 DEF Drop
<1>5. CASE Activate
  BY <1>5 DEF Activate, TakeBatch
<1>6. CASE ForwardBatch
  <2>1. Head(batch) \in 1..MaxChunks /\ Tail(batch) \in Seq(1..MaxChunks)
    BY <1>6 DEF ForwardBatch
  <2> QED
    BY <1>6, <2>1 DEF ForwardBatch, gate
<1>7. CASE EndBatch
  BY <1>7 DEF EndBatch, TakeBatch
<1>8. CASE UNCHANGED vars
  BY <1>8 DEF vars, gate
<1> QED
  BY <1>1, <1>2, <1>3, <1>4, <1>5, <1>6, <1>7, <1>8 DEF Next, Capture, Create

\* Types, and the flags of the gate, whatever the number of chunks.
THEOREM TypeInvariant == Spec => []TypeOK
<1>1. Init => Flags
  BY Zenon DEF Init, Flags
<1>2. Init => Chunks
  BY ChunksAssumption DEF Init, Chunks
<1>3. TypeOK /\ [Next]_vars => TypeOK'
  BY FlagsFollow, ChunksStay DEF TypeOK
<1> QED
  BY <1>1, <1>2, <1>3, PTL DEF Spec, TypeOK

-----------------------------------------------------------------------------
(* The order of the chunks.                                                *)

\* Only a draining handler holds a batch; an open gate has nothing buffered;
\* captureOutput forwards a chunk itself only through an open gate; nothing
\* is sent before the session is announced.
Quiet ==
  /\ creating # "draining" => batch = <<>>
  /\ creating = "active" => buffered = <<>>
  /\ holding # 0 => creating = "active"
  /\ creating \in {"persist", "announced", "failed"} => sent = <<>>

Order == TypeOK /\ Quiet /\ NothingLostOrReordered

\* Callback sees through the flags where the handler is.
LEMMA WhatCallbackSees ==
  Flags => /\ dropped <=> creating = "failed"
           /\ Through <=> creating = "active"
BY Zenon DEF Flags, Through

\* Appending the next number to a numbered sequence keeps it numbered.
LEMMA NumberedAppend ==
  ASSUME NEW values, NEW chunks \in Seq(values), NEW from \in Nat, NEW n,
         Numbered(chunks, from), n = from + Len(chunks) + 1
  PROVE  Numbered(Append(chunks, n), from)
BY DEF Numbered

\* The head of a numbered sequence, and what is left of it.
LEMMA NumberedHead ==
  ASSUME NEW values, NEW chunks \in Seq(values), NEW from \in Nat,
         Numbered(chunks, from), chunks # <<>>
  PROVE  /\ Head(chunks) = from + 1
         /\ Numbered(Tail(chunks), from + 1)
         /\ Len(Tail(chunks)) = Len(chunks) - 1
BY DEF Numbered

LEMMA QuietStays == TypeOK /\ Quiet /\ [Next]_vars => Quiet'
<1> SUFFICES ASSUME TypeOK, Quiet, [Next]_vars PROVE Quiet'
  OBVIOUS
<1>0. /\ dropped <=> creating = "failed"
      /\ Through <=> creating = "active"
  BY WhatCallbackSees DEF TypeOK
<1>1. CASE Callback
  BY <1>0, <1>1, Zenon DEF Callback, Quiet
<1>2. CASE Forward
  BY <1>2, Zenon DEF Forward, gate, Quiet
<1>3. CASE Announce
  BY <1>3, Zenon DEF Announce, gate, Quiet
<1>4. CASE Drop
  BY <1>4, Zenon DEF Drop, Quiet
<1>5. CASE Activate
  BY <1>5, Zenon DEF Activate, Quiet
<1>6. CASE ForwardBatch
  BY <1>6, Zenon DEF ForwardBatch, gate, Quiet
<1>7. CASE EndBatch
  BY <1>7, Zenon DEF EndBatch, Quiet
<1>8. CASE UNCHANGED vars
  BY <1>8, Zenon DEF vars, gate, Quiet
<1> QED
  BY <1>1, <1>2, <1>3, <1>4, <1>5, <1>6, <1>7, <1>8 DEF Next, Capture, Create

\* The order is kept by every step; in a failed session there is none to keep.
LEMMA OrderIsKept ==
  ASSUME Order, [Next]_vars PROVE NothingLostOrReordered'
<1>0. /\ dropped <=> creating = "failed"
      /\ Through <=> creating = "active"
  BY WhatCallbackSees DEF Order, TypeOK
<1>1. Chunks /\ Quiet /\ NothingLostOrReordered
  BY DEF Order, TypeOK
<1> DEFINE s == Len(sent) b == Len(batch) f == Len(buffered)
<1>2. /\ read \in Nat /\ holding \in Nat
      /\ s \in Nat /\ b \in Nat /\ f \in Nat
      /\ sent \in Seq(Nat) /\ batch \in Seq(Nat) /\ buffered \in Seq(Nat)
  BY <1>1, ChunksAssumption DEF Chunks
<1>3. creating # "failed" =>
        /\ Numbered(sent, 0) /\ Numbered(batch, s) /\ Numbered(buffered, s + b)
        /\ holding # 0 => holding = s + b + f + 1
        /\ read = s + b + f + (IF holding = 0 THEN 0 ELSE 1)
  BY <1>1 DEF NothingLostOrReordered
<1>4. CASE Callback
  <2>1. CASE creating = "failed"
    BY <1>4, <2>1 DEF Callback, NothingLostOrReordered
  <2>2. CASE creating # "failed" /\ creating # "active"
    <3>1. /\ buffered' = Append(buffered, read + 1) /\ holding' = holding
          /\ sent' = sent /\ batch' = batch
      BY <1>0, <1>4, <2>2, Zenon DEF Callback
    <3>2. read' = read + 1 /\ holding = 0
      BY <1>4 DEF Callback
    <3>3. read + 1 = (s + b) + f + 1
      BY <1>2, <1>3, <2>2, <3>2
    <3>4. Numbered(buffered', s + b)
      BY <1>2, <1>3, <2>2, <3>1, <3>3, NumberedAppend
    <3>5. Len(buffered') = f + 1
      BY <1>2, <3>1
    <3> QED
      BY <1>2, <1>3, <2>2, <3>1, <3>2, <3>3, <3>4, <3>5
      DEF NothingLostOrReordered
  <2>3. CASE creating = "active"
    <3>1. /\ holding' = read + 1 /\ buffered' = buffered
          /\ sent' = sent /\ batch' = batch
      BY <1>0, <1>4, <2>3, Zenon DEF Callback
    <3>2. read' = read + 1 /\ holding = 0
      BY <1>4 DEF Callback
    <3>3. read = s + b + f
      BY <1>2, <1>3, <2>3, <3>2
    <3>4. Numbered(sent, 0) /\ Numbered(batch, s) /\ Numbered(buffered, s + b)
      BY <1>3, <2>3
    <3>5. /\ Numbered(sent', 0) /\ Numbered(batch', s)
          /\ Numbered(buffered', s + b)
      BY <3>1, <3>4, Zenon DEF Numbered
    <3> HIDE DEF s, b, f
    <3>6. /\ holding' = s + b + f + 1
          /\ read' = s + b + f + (IF holding' = 0 THEN 0 ELSE 1)
      BY <1>2, <3>1, <3>2, <3>3
    <3>7. Len(sent') = s /\ Len(batch') = b /\ Len(buffered') = f
      BY <3>1 DEF s, b, f
    <3> QED
      BY <3>5, <3>6, <3>7 DEF NothingLostOrReordered
  <2> QED
    BY <2>1, <2>2, <2>3
<1>5. CASE Forward
  <2>1. /\ creating = "active" /\ batch = <<>> /\ buffered = <<>>
        /\ holding = s + 1
    <3>1. creating = "active" /\ batch = <<>> /\ buffered = <<>>
      BY <1>1, <1>5, Zenon DEF Forward, Quiet
    <3> QED
      BY <1>2, <1>3, <1>5, <3>1 DEF Forward
  <2>2. /\ sent' = Append(sent, holding) /\ holding' = 0
        /\ UNCHANGED <<read, batch, buffered>>
    BY <1>5 DEF Forward, gate
  <2>3. Numbered(sent', 0) /\ Len(sent') = s + 1
    BY <1>2, <1>3, <2>1, <2>2, NumberedAppend
  <2> QED
    BY <1>2, <1>3, <2>1, <2>2, <2>3 DEF NothingLostOrReordered, Numbered
<1>6. CASE Announce
  BY <1>3, <1>6 DEF Announce, gate, NothingLostOrReordered, Numbered
<1>7. CASE Drop
  BY <1>7 DEF Drop, NothingLostOrReordered
<1>8. CASE Activate
  <2>1. batch = <<>> /\ creating # "failed"
    BY <1>1, <1>8 DEF Activate, Quiet
  <2>2. /\ batch' = buffered /\ buffered' = <<>>
        /\ UNCHANGED <<read, holding, sent>>
    BY <1>8 DEF Activate, TakeBatch
  <2> QED
    BY <1>2, <1>3, <2>1, <2>2 DEF NothingLostOrReordered, Numbered
<1>9. CASE ForwardBatch
  <2>1. /\ creating # "failed" /\ batch # <<>>
        /\ sent' = Append(sent, Head(batch)) /\ batch' = Tail(batch)
        /\ UNCHANGED <<read, holding, buffered>>
    BY <1>9 DEF ForwardBatch, gate
  <2>2. /\ Head(batch) = s + 1 /\ Numbered(batch', s + 1)
        /\ Len(batch') = b - 1
    BY <1>2, <1>3, <2>1, NumberedHead
  <2>3. Numbered(sent', 0) /\ Len(sent') = s + 1
    BY <1>2, <1>3, <2>1, <2>2, NumberedAppend
  <2>4. (s + 1) + (b - 1) = s + b
    BY <1>2
  <2> QED
    BY <1>2, <1>3, <2>1, <2>2, <2>3, <2>4 DEF NothingLostOrReordered
<1>10. CASE EndBatch
  <2>1. /\ batch = <<>> /\ creating # "failed"
        /\ UNCHANGED <<read, holding, sent>>
    BY <1>10 DEF EndBatch
  <2>2. \/ batch' = batch /\ buffered' = buffered
        \/ batch' = buffered /\ buffered' = <<>>
    BY <1>10 DEF EndBatch, TakeBatch
  <2>3. CASE batch' = batch /\ buffered' = buffered
    BY <1>2, <1>3, <2>1, <2>3 DEF NothingLostOrReordered, Numbered
  <2>4. CASE batch' = buffered /\ buffered' = <<>>
    BY <1>2, <1>3, <2>1, <2>4 DEF NothingLostOrReordered, Numbered
  <2> QED
    BY <2>2, <2>3, <2>4
<1>11. CASE UNCHANGED vars
  BY <1>3, <1>11 DEF vars, gate, NothingLostOrReordered, Numbered
<1> QED
  BY <1>4, <1>5, <1>6, <1>7, <1>8, <1>9, <1>10, <1>11
  DEF Next, Capture, Create

LEMMA OrderInvariant == Spec => []Order
<1>1. Init => Order
  <2>1. Init => Flags
    BY Zenon DEF Init, Flags
  <2>2. Init => Chunks /\ Quiet /\ NothingLostOrReordered
    BY ChunksAssumption
    DEF Init, Chunks, Quiet, NothingLostOrReordered, Numbered
  <2> QED
    BY <2>1, <2>2 DEF Order, TypeOK
<1>2. Order /\ [Next]_vars => Order'
  BY FlagsFollow, ChunksStay, QuietStays, OrderIsKept DEF Order, TypeOK
<1> QED
  BY <1>1, <1>2, PTL DEF Spec

\* What was read is what was sent, then what Activate still forwards, then
\* what is buffered, then what captureOutput holds: for any number of chunks.
THEOREM NoChunkIsLost == Spec => []NothingLostOrReordered
BY OrderInvariant, PTL DEF Order

-----------------------------------------------------------------------------
(* The gate's steps are steps of the promise.                              *)

LEMMA StepsArePromised ==
  ASSUME Order, [Next]_vars PROVE [Promise!Next]_(Promise!vars)
<1>0. /\ dropped <=> creating = "failed"
      /\ Through <=> creating = "active"
  BY WhatCallbackSees DEF Order, TypeOK
<1>1. Chunks /\ Flags /\ Quiet /\ NothingLostOrReordered
  BY DEF Order, TypeOK
<1> DEFINE s == Len(sent) b == Len(batch) f == Len(buffered)
<1>2. /\ read \in Nat /\ holding \in Nat
      /\ s \in Nat /\ b \in Nat /\ f \in Nat
      /\ sent \in Seq(Nat) /\ batch \in Seq(Nat) /\ buffered \in Seq(Nat)
  BY <1>1, ChunksAssumption DEF Chunks
<1>3. creating # "failed" =>
        /\ Numbered(sent, 0) /\ Numbered(batch, s) /\ Numbered(buffered, s + b)
        /\ holding # 0 => holding = s + b + f + 1
        /\ read = s + b + f + (IF holding = 0 THEN 0 ELSE 1)
  BY <1>1 DEF NothingLostOrReordered
<1> USE DEF Promise!Next, Promise!vars
<1>4. CASE Callback
  <2>1. read' = read + 1 /\ UNCHANGED <<creating, sent>>
    BY <1>4, Zenon DEF Callback
  <2> QED
    BY <2>1 DEF Promise!Read, SessionState
<1>5. CASE Forward
  <2>1. creating = "active" /\ batch = <<>> /\ buffered = <<>> /\ holding # 0
    BY <1>1, <1>5, Zenon DEF Forward, Quiet
  <2>2. holding = s + 1 /\ s < read
    BY <1>2, <1>3, <2>1
  <2>3. sent' = Append(sent, holding) /\ UNCHANGED <<creating, read>>
    BY <1>5 DEF Forward
  <2> QED
    BY <2>1, <2>2, <2>3 DEF Promise!Send, SessionState
<1>6. CASE Announce
  BY <1>6 DEF Announce, Promise!Decide, SessionState
<1>7. CASE Drop
  BY <1>7 DEF Drop, Promise!Decide, SessionState
<1>8. CASE Activate
  <2>1. /\ creating = "announced" /\ creating' = "draining"
        /\ UNCHANGED <<read, sent>>
    BY <1>8 DEF Activate
  <2> QED
    BY <2>1 DEF SessionState
<1>9. CASE ForwardBatch
  <2>1. /\ creating = "draining" /\ batch # <<>>
        /\ sent' = Append(sent, Head(batch))
        /\ UNCHANGED <<creating, read>>
    BY <1>9 DEF ForwardBatch
  <2>2. Head(batch) = s + 1
    BY <1>2, <1>3, <2>1, NumberedHead
  <2>3. b > 0
    BY <1>2, <2>1
  <2>4. s < read
    BY <1>2, <1>3, <2>1, <2>3
  <2> QED
    BY <2>1, <2>2, <2>4 DEF Promise!Send, SessionState
<1>10. CASE EndBatch
  <2>1. /\ creating = "draining" /\ creating' \in {"draining", "active"}
        /\ UNCHANGED <<read, sent>>
    BY <1>10, Zenon DEF EndBatch
  <2> QED
    BY <2>1 DEF SessionState
<1>11. CASE UNCHANGED vars
  BY <1>11 DEF vars, SessionState
<1> QED
  BY <1>4, <1>5, <1>6, <1>7, <1>8, <1>9, <1>10, <1>11
  DEF Next, Capture, Create

\* The safety half of ImplementsOutputStream: the gate with its two goroutines
\* behaves, towards the clients, as the stream that OutputStream promises.
THEOREM GateImplementsStream == Spec => Promise!Spec
<1>1. Init => Promise!Init
  BY DEF Init, Promise!Init, SessionState
<1>2. Order /\ [Next]_vars => [Promise!Next]_(Promise!vars)
  BY StepsArePromised
<1> QED
  BY <1>1, <1>2, OrderInvariant, PTL DEF Spec, Promise!Spec

-----------------------------------------------------------------------------
(* Sessions.                                                               *)

SessionsTyped ==
  /\ sSessions \subseteq Ids /\ sEarly \subseteq Ids
  /\ sProc \in [Ids -> {"none", "ready", "running", "ending", "exited"}]
  /\ sOpener \in [S!Own -> {"idle", "start", "save", "register", "open",
                            "failed"}]
  /\ sCloser \in [Ids -> {"none", "closing", "waiting", "closed"}]
  /\ sStarted \in [S!Own -> Instants \cup {0}]

\* A session that has been created and not opened yet is still in the
\* manager's map, or about to be stopped, or was let go before it ran.
Known(id) == id \in sSessions \cup sEarly \/ sCloser[id] = "closing"

TrackInv ==
  \A id \in Ids :
    /\ sOpener[id] = "start" => sProc[id] = "ready"
    /\ sOpener[id] \in {"start", "save"} /\ sProc[id] \in {"ready", "running"}
         => Known(id)
    /\ sProc[id] = "running" => Known(id) \/ sOpener[id] = "register"

LEMMA TrackInvGivesTracked == TrackInv => RunningIsTracked
BY DEF TrackInv, Known, RunningIsTracked, S!RunningIsTracked

LEMMA SessionsInit == S!Init => SessionsTyped /\ TrackInv
<1> SUFFICES ASSUME S!Init PROVE SessionsTyped /\ TrackInv
  OBVIOUS
<1>1. \A id \in Ids : id \in S!Own /\ id # Host
  BY RowsAssumption DEF S!Own
<1>2. sStarted \in [S!Own -> Instants \cup {0}]
  <2>1. PICK b \in S!Beginnings :
          sStarted = [id \in S!Own |-> IF id = Host THEN b.now ELSE 0]
    BY DEF S!Init
  <2>2. b.now \in Instants
    BY DEF S!Beginnings
  <2> QED
    BY <2>1, <2>2
<1>3. sOpener = [id \in S!Own |-> IF id = Host THEN "save" ELSE "idle"]
  BY DEF S!Init
<1>4. /\ sSessions = {} /\ sEarly = {}
      /\ sProc = [id \in Ids |-> "none"] /\ sCloser = [id \in Ids |-> "none"]
  BY DEF S!Init
<1> QED
  BY <1>1, <1>2, <1>3, <1>4 DEF SessionsTyped, TrackInv, Known

LEMMA SessionsTrack ==
  SessionsTyped /\ TrackInv /\ [S!Next]_sVars => SessionsTyped' /\ TrackInv'
<1> SUFFICES ASSUME SessionsTyped, TrackInv, [S!Next]_sVars
             PROVE  SessionsTyped' /\ TrackInv'
  OBVIOUS
<1>0. \A id \in Ids : id \in S!Own /\ id # Host
  BY RowsAssumption DEF S!Own
<1>1. ASSUME NEW id \in Ids, S!Open(id) PROVE SessionsTyped' /\ TrackInv'
  <2>1. CASE S!Create(id)
    BY <1>0, <2>1 DEF S!Create, S!Arrives, SessionsTyped, TrackInv, Known
  <2>2. CASE S!Start(id)
    BY <1>0, <2>2 DEF S!Start, SessionsTyped, TrackInv, Known
  <2>3. CASE S!Save(id)
    BY <1>0, <2>3 DEF S!Save, SessionsTyped, TrackInv, Known
  <2> QED
    BY <1>1, <2>1, <2>2, <2>3 DEF S!Open
<1>2. ASSUME NEW id \in Ids, S!OpenTmux(id) PROVE SessionsTyped' /\ TrackInv'
  BY <1>0, <1>2
  DEF S!OpenTmux, S!Attach, S!Arrives, S!Register, S!Stopped, SessionsTyped,
      TrackInv, Known
<1>3. ASSUME NEW id \in Ids, S!Shut(id) PROVE SessionsTyped' /\ TrackInv'
  BY <1>3 DEF S!Shut, S!Close, S!KillSession, SessionsTyped, TrackInv, Known
<1>4. ASSUME NEW id \in Ids, S!Exit(id) PROVE SessionsTyped' /\ TrackInv'
  BY <1>4 DEF S!Exit, SessionsTyped, TrackInv, Known
<1>5. ASSUME NEW id \in Ids, S!Run(id) PROVE SessionsTyped' /\ TrackInv'
  BY <1>5
  DEF S!Run, S!Stop, S!Done, S!waitForExit, S!IsRunning, S!Stopped,
      SessionsTyped, TrackInv, Known
<1>6. CASE S!CloseAll
  BY <1>6 DEF S!CloseAll, SessionsTyped, TrackInv, Known
<1>7. CASE S!SaveHost
  BY <1>0, <1>7 DEF S!SaveHost, SessionsTyped, TrackInv, Known
<1>8. CASE S!CompleteHost \/ S!EditHistory \/ UNCHANGED sVars
  BY <1>8
  DEF S!CompleteHost, S!EditHistory, sVars, SessionsTyped, TrackInv, Known
<1> QED
  BY <1>1, <1>2, <1>3, <1>4, <1>5, <1>6, <1>7, <1>8 DEF S!Next

LEMMA SessionsParts ==
  /\ HostInit => S!Init
  /\ [HostNext]_hostVars => [S!Next]_sVars
BY DEF HostInit, HostNext, GateStep, HubStep, SessionsStep, DiscoveryStep,
       hostVars, sVars

\* A terminal process that runs is known to the manager, to the call that
\* opens it or to the call that closes it, or it was closed before it began.
THEOREM RunningTerminalsAreTracked == HostSpec => []RunningIsTracked
<1>1. HostSpec => [](SessionsTyped /\ TrackInv)
  BY SessionsParts, SessionsInit, SessionsTrack, PTL DEF HostSpec
<1> QED
  BY <1>1, TrackInvGivesTracked, PTL

-----------------------------------------------------------------------------
(* The rows of the sessions.                                               *)

\* Rows have times of their own; a session of this host has a row only once it
\* is saved, with the time it was started, which no other session has.
RowsInv ==
  /\ IsFiniteSet(sRows) /\ Cardinality(sRows) <= MaxRows
  /\ sRows \subseteq S!Row
  /\ \A a, b \in sRows : a.start = b.start => a = b
  /\ \A r \in sRows, id \in S!Own : /\ r.id = id => sOpener[id] = "open"
                                    /\ r.start = sStarted[id] => r.id = id
  /\ \A a, b \in S!Own : sStarted[a] = sStarted[b] => a = b \/ sStarted[a] = 0
  /\ \A id \in S!Own : sOpener[id] = "save" => sStarted[id] # 0

LEMMA CardinalityOfSessions == \A T : S!Cardinality(T) = Cardinality(T)
BY Zenon DEF S!Cardinality, Cardinality

\* The times and the places of rows.
LEMMA RowsHavePlaces ==
  ASSUME NEW r \in S!Row, NEW q \in S!Row
  PROVE  /\ S!Place(r) \in Nat
         /\ S!Place(r) = S!Place(q) => r.start = q.start
         /\ ~r.system /\ ~q.system /\ S!Place(r) < S!Place(q)
              => Second[r.start] <= Second[q.start]
<1>1. /\ r.start \in Instants /\ r.system \in BOOLEAN
      /\ q.start \in Instants /\ q.system \in BOOLEAN
  BY DEF S!Row
<1>2. S!Place(r) \in Nat
  <2>1. TextOrder[r.system] \in [Instants -> Nat]
    BY <1>1, TextAssumption, Zenon
  <2> QED
    BY <1>1, <2>1 DEF S!Place
<1>3. S!Place(r) = S!Place(q) => r.start = q.start
  BY <1>1, TextAssumption, Zenon DEF S!Place
<1>4. ASSUME ~r.system, ~q.system, S!Place(r) < S!Place(q)
      PROVE  Second[r.start] <= Second[q.start]
  <2>1. r.system = FALSE /\ q.system = FALSE
    BY <1>1, <1>4, Zenon
  <2>2. /\ S!Place(r) = TextOrder[FALSE][r.start]
        /\ S!Place(q) = TextOrder[FALSE][q.start]
    BY <2>1, Zenon DEF S!Place
  <2>3. Second[q.start] < Second[r.start] => S!Place(q) < S!Place(r)
    <3>1. Second[q.start] < Second[r.start]
            => TextOrder[FALSE][q.start] < TextOrder[FALSE][r.start]
      BY <1>1, TextAssumption, Zenon
    <3> QED
      BY <2>2, <3>1, Zenon
  <2>4. Second[r.start] \in Nat /\ Second[q.start] \in Nat
    BY <1>1, TextAssumption
  <2>5. S!Place(r) \in Nat /\ S!Place(q) \in Nat
    <3>1. TextOrder[FALSE] \in [Instants -> Nat]
      BY TextAssumption, Zenon
    <3> QED
      BY <1>1, <2>2, <3>1
  <2> QED
    BY <1>4, <2>3, <2>4, <2>5
<1> QED
  BY <1>2, <1>3, <1>4

\* What retention keeps: no more than its limit, and, when it drops a row, no
\* fewer, each with its text above the one dropped.
LEMMA RetainedAreAbove ==
  ASSUME NEW rs, IsFiniteSet(rs), rs \subseteq S!Row,
         \A a, b \in rs : a.start = b.start => a = b
  PROVE  /\ S!Retained(rs) \subseteq rs /\ IsFiniteSet(S!Retained(rs))
         /\ Cardinality(S!Retained(rs)) <= MaxRows
         /\ \A gone \in rs \ S!Retained(rs) :
              /\ Cardinality(S!Retained(rs)) = MaxRows
              /\ \A kept \in S!Retained(rs) : S!Place(gone) < S!Place(kept)
<1> DEFINE Above(r) == {q \in rs : S!Newer(q, r)}
           K == S!Retained(rs)
<1>1. K = {r \in rs : Cardinality(Above(r)) < MaxRows}
  <2>1. K = {r \in rs : S!Cardinality(Above(r)) < MaxRows}
    BY Zenon DEF S!Retained
  <2> HIDE DEF Above, K
  <2> QED
    BY <2>1, CardinalityOfSessions
<1>2. \A r : /\ Above(r) \subseteq rs /\ IsFiniteSet(Above(r))
             /\ Cardinality(Above(r)) \in Nat
  <2>1. \A r : Above(r) \in SUBSET rs
    OBVIOUS
  <2> HIDE DEF Above
  <2> QED
    BY <2>1, FS_Subset, FS_CardinalityType
<1>3. \A q, r \in rs : /\ q \in Above(r) <=> S!Place(q) > S!Place(r)
                       /\ S!Place(r) \in Nat
                       /\ S!Place(q) = S!Place(r) => q = r
  <2>1. \A q, r \in rs : q \in S!Row /\ r \in S!Row
    OBVIOUS
  <2> QED
    BY <2>1, RowsHavePlaces DEF S!Newer
<1> HIDE DEF K, Above
<1>4. K \subseteq rs /\ IsFiniteSet(K) /\ Cardinality(K) \in Nat
  <2>1. K \in SUBSET rs
    BY <1>1
  <2> QED
    BY <2>1, FS_Subset, FS_CardinalityType
\* All rows above a row are fewer than those above a row below it.
<1>5. ASSUME NEW r \in rs, NEW q \in Above(r)
      PROVE  /\ q \in rs /\ Above(q) \subseteq Above(r)
             /\ Cardinality(Above(q)) < Cardinality(Above(r))
  <2>1. q \in rs
    BY <1>2
  <2>2. Above(q) \subseteq Above(r) \ {q}
    <3> SUFFICES ASSUME NEW x \in Above(q) PROVE x \in Above(r) \ {q}
      OBVIOUS
    <3>1. x \in rs
      BY <1>2
    <3> QED
      BY <1>3, <2>1, <3>1
  <2>3. Cardinality(Above(r) \ {q}) = Cardinality(Above(r)) - 1
    BY <1>2, FS_RemoveElement
  <2>4. IsFiniteSet(Above(r) \ {q})
    BY <1>2, FS_RemoveElement
  <2>5. Cardinality(Above(q)) <= Cardinality(Above(r) \ {q})
    BY <2>2, <2>4, FS_Subset
  <2> QED
    BY <1>2, <2>1, <2>2, <2>3, <2>5
<1>6. Cardinality(K) <= MaxRows
  <2>1. CASE K = {}
    BY <2>1, FS_EmptySet, RowsAssumption
  <2>2. CASE K # {}
    <3> DEFINE A == {S!Place(r) : r \in K}
    <3>1. A \in SUBSET Nat /\ A # {}
      BY <1>3, <1>4, <2>2
    <3>2. PICK m \in A : \A n \in A : m <= n
      <4> HIDE DEF A
      <4> QED
        BY <3>1, LeastExists
    <3>3. PICK least \in K : S!Place(least) = m
      BY <3>2
    <3>4. K \ {least} \subseteq Above(least)
      <4> SUFFICES ASSUME NEW r \in K, r # least PROVE r \in Above(least)
        OBVIOUS
      <4>1. S!Place(least) <= S!Place(r)
        BY <3>2, <3>3
      <4> QED
        BY <1>3, <1>4, <4>1
    <3>5. Cardinality(Above(least)) < MaxRows
      BY <1>1
    <3>6. Cardinality(K \ {least}) <= Cardinality(Above(least))
      BY <1>2, <3>4, FS_Subset
    <3>7. Cardinality(K \ {least}) = Cardinality(K) - 1
      BY <1>4, FS_RemoveElement
    <3> QED
      BY <1>2, <1>4, <3>5, <3>6, <3>7, RowsAssumption
  <2> QED
    BY <2>1, <2>2
<1>7. ASSUME NEW gone \in rs \ K PROVE Cardinality(K) >= MaxRows
  <2> DEFINE A == {Cardinality(Above(r)) : r \in rs \ K}
  <2>1. A \in SUBSET Nat /\ A # {}
    BY <1>2
  <2>2. PICK m \in A : \A n \in A : m <= n
    <3> HIDE DEF A
    <3> QED
      BY <2>1, LeastExists
  <2>3. PICK highest \in rs \ K : Cardinality(Above(highest)) = m
    BY <2>2
  <2>4. Above(highest) \subseteq K
    <3> SUFFICES ASSUME NEW q \in Above(highest), q \notin K PROVE FALSE
      OBVIOUS
    <3>1. q \in rs \ K /\ Cardinality(Above(q)) < Cardinality(Above(highest))
      BY <1>5
    <3>2. Cardinality(Above(q)) \in A
      BY <3>1
    <3>3. m <= Cardinality(Above(q))
      BY <2>2, <3>2
    <3> QED
      BY <1>2, <2>3, <3>1, <3>3
  <2>5. Cardinality(Above(highest)) <= Cardinality(K)
    BY <1>4, <2>4, FS_Subset
  <2>6. ~(Cardinality(Above(highest)) < MaxRows)
    BY <1>1, <2>3
  <2> QED
    BY <1>2, <1>4, <2>5, <2>6, RowsAssumption
<1>8. ASSUME NEW gone \in rs \ K, NEW kept \in K
      PROVE  S!Place(gone) < S!Place(kept)
  <2>1. Cardinality(Above(kept)) < MaxRows /\ kept \in rs
    BY <1>1
  <2>2. ~(Cardinality(Above(gone)) < MaxRows)
    BY <1>1
  <2>3. ~(S!Place(gone) > S!Place(kept))
    <3> SUFFICES ASSUME S!Place(gone) > S!Place(kept) PROVE FALSE
      OBVIOUS
    <3>1. gone \in Above(kept)
      BY <1>3, <2>1
    <3>2. Cardinality(Above(gone)) < Cardinality(Above(kept))
      BY <1>5, <2>1, <3>1
    <3> QED
      BY <1>2, <2>1, <2>2, <3>2, RowsAssumption
  <2>4. gone # kept
    OBVIOUS
  <2> QED
    BY <1>3, <2>1, <2>3, <2>4
<1>9. \A gone \in rs \ K : Cardinality(K) = MaxRows
  BY <1>4, <1>6, <1>7, RowsAssumption
<1> QED
  BY <1>4, <1>6, <1>8, <1>9 DEF K

LEMMA RowsInit == S!Init => RowsInv
<1> SUFFICES ASSUME S!Init PROVE RowsInv
  OBVIOUS
<1>1. PICK b \in S!Beginnings :
        /\ sRows = b.rows
        /\ sStarted = [id \in S!Own |-> IF id = Host THEN b.now ELSE 0]
  BY DEF S!Init
<1>2. PICK at \in [Earlier -> Instants], system \in [Earlier -> BOOLEAN],
           t \in Instants :
        /\ \A x, y \in Earlier : at[x] = at[y] => x = y
        /\ b = [rows |-> {S!RowOf(id, at[id], system[id]) : id \in Earlier},
                now |-> t]
  BY DEF S!Beginnings
<1>3. /\ sRows = {S!RowOf(id, at[id], system[id]) : id \in Earlier}
      /\ sStarted = [id \in S!Own |-> IF id = Host THEN t ELSE 0]
      /\ \A r \in sRows : r.start < t
  BY <1>1, <1>2 DEF S!Beginnings
<1>4. \A r \in sRows : \E id \in Earlier :
        r.id = id /\ r.start = at[id] /\ r \in S!Row
        /\ r = S!RowOf(id, at[id], system[id])
  BY <1>3 DEF S!RowOf, S!Row, S!All
<1>5. IsFiniteSet(sRows) /\ Cardinality(sRows) <= MaxRows
  <2> DEFINE f == [id \in Earlier |-> S!RowOf(id, at[id], system[id])]
  <2>1. f \in Surjection(Earlier, sRows)
    <3>1. /\ f \in [Earlier -> sRows]
          /\ \A r \in sRows : \E id \in Earlier : f[id] = r
      BY <1>3
    <3> QED
      BY <3>1 DEF Surjection
  <2>2. IsFiniteSet(sRows) /\ Cardinality(sRows) <= Cardinality(Earlier)
    <3> HIDE DEF f
    <3> QED
      BY <2>1, RowsAssumption, FS_Surjection
  <2>3. Cardinality(sRows) \in Nat /\ Cardinality(Earlier) \in Nat
    BY <2>2, RowsAssumption, FS_CardinalityType
  <2> QED
    BY <2>2, <2>3, LimitsAssumption, RowsAssumption
<1>6. \A x, y \in sRows : x.start = y.start => x = y
  BY <1>2, <1>4
<1>7. \A r \in sRows, id \in S!Own : r.id # id /\ r.start # sStarted[id]
  <2> SUFFICES ASSUME NEW r \in sRows, NEW id \in S!Own
               PROVE  r.id # id /\ r.start # sStarted[id]
    OBVIOUS
  <2>1. r.id \in Earlier /\ r.start \in Instants
    BY <1>4
  <2>2. r.start # 0 /\ r.start \in Nat /\ t \in Nat /\ r.start < t
    BY <1>3, <2>1, TextAssumption
  <2> QED
    BY <1>3, <2>1, <2>2, RowsAssumption DEF S!Own
<1>8. \A x, y \in S!Own : sStarted[x] = sStarted[y] => x = y \/ sStarted[x] = 0
  BY <1>3
<1>9. \A id \in S!Own : sOpener[id] = "save" => sStarted[id] # 0
  <2>1. t # 0
    BY TextAssumption
  <2> QED
    BY <1>3, <2>1 DEF S!Init
<1> QED
  BY <1>4, <1>5, <1>6, <1>7, <1>8, <1>9 DEF RowsInv

\* What MostRecentAreKept says of a step.
DropsOldest ==
  \A id \in S!Own : sOpener[id] = "save" /\ sOpener'[id] = "open" =>
    \A gone \in S!Dropped(id) :
      /\ S!Cardinality(sRows') = MaxRows
      /\ \A kept \in sRows' : ~gone.system /\ ~kept.system =>
           Second[gone.start] <= Second[kept.start]

\* A save of a session that was not saved before.
LEMMA SaveTracks ==
  ASSUME SessionsTyped, RowsInv, NEW id \in S!Own, sOpener[id] = "save",
         S!SaveSession(id), UNCHANGED sStarted,
         sOpener' = [sOpener EXCEPT ![id] = "open"]
  PROVE  RowsInv' /\ DropsOldest
<1> DEFINE new == S!RowOf(id, sStarted[id], id = Host)
           rs == sRows \cup {new}
<1>1. \A r \in sRows : r.id # id /\ r.start # sStarted[id]
  BY DEF RowsInv
<1>2. sRows' = S!Retained(rs)
  <2>1. {r \in sRows : r.id # id} = sRows
    BY <1>1
  <2> QED
    BY <2>1 DEF S!SaveSession
<1>3. new \in S!Row /\ new.start = sStarted[id] /\ new.id = id
  BY DEF S!RowOf, S!Row, S!All, S!Own, SessionsTyped, RowsInv
<1>4. /\ IsFiniteSet(rs) /\ rs \subseteq S!Row
      /\ \A a, b \in rs : a.start = b.start => a = b
  <2> HIDE DEF new
  <2>1. IsFiniteSet(rs)
    BY FS_AddElement DEF RowsInv
  <2> QED
    BY <1>1, <1>3, <2>1 DEF RowsInv
<1>5. \A gone \in S!Dropped(id) : gone \in rs \ S!Retained(rs)
  BY <1>2 DEF S!Dropped
<1> HIDE DEF new
<1>6. /\ S!Retained(rs) \subseteq rs /\ IsFiniteSet(S!Retained(rs))
      /\ Cardinality(S!Retained(rs)) <= MaxRows
      /\ \A gone \in rs \ S!Retained(rs) :
           /\ Cardinality(S!Retained(rs)) = MaxRows
           /\ \A kept \in S!Retained(rs) : S!Place(gone) < S!Place(kept)
  <2> HIDE DEF rs
  <2> QED
    BY <1>4, RetainedAreAbove
<1>7. RowsInv'
  <2>1. \A r \in sRows' : r \in sRows \/ r = new
    BY <1>2, <1>6
  <2>2. \A i \in S!Own : sOpener'[i] = IF i = id THEN "open" ELSE sOpener[i]
    BY DEF SessionsTyped
  <2>3. \A r \in sRows', i \in S!Own : /\ r.id = i => sOpener'[i] = "open"
                                       /\ r.start = sStarted[i] => r.id = i
    BY <1>3, <2>1, <2>2 DEF RowsInv
  <2>4. /\ IsFiniteSet(sRows') /\ Cardinality(sRows') <= MaxRows
        /\ sRows' \subseteq S!Row
        /\ \A a, b \in sRows' : a.start = b.start => a = b
    BY <1>2, <1>4, <1>6
  <2>5. \A i \in S!Own : sOpener'[i] = "save" => sStarted[i] # 0
    BY <2>2 DEF RowsInv
  <2> QED
    BY <2>3, <2>4, <2>5 DEF RowsInv
<1>8. ASSUME NEW i \in S!Own, sOpener[i] = "save", sOpener'[i] = "open"
      PROVE  i = id
  BY <1>8 DEF SessionsTyped
<1>9. ASSUME NEW gone \in S!Dropped(id)
      PROVE  /\ S!Cardinality(sRows') = MaxRows
             /\ \A kept \in sRows' : ~gone.system /\ ~kept.system =>
                  Second[gone.start] <= Second[kept.start]
  <2>1. gone \in S!Row /\ gone \in rs \ S!Retained(rs)
    BY <1>4, <1>5
  <2>2. Cardinality(sRows') = MaxRows
    BY <1>2, <1>6, <2>1
  <2>3. ASSUME NEW kept \in sRows', ~gone.system, ~kept.system
        PROVE  Second[gone.start] <= Second[kept.start]
    <3>1. kept \in S!Row /\ S!Place(gone) < S!Place(kept)
      BY <1>2, <1>4, <1>6, <2>1
    <3> QED
      BY <2>1, <2>3, <3>1, RowsHavePlaces
  <2> QED
    BY <2>2, <2>3, CardinalityOfSessions
<1> QED
  BY <1>7, <1>8, <1>9 DEF DropsOldest

\* A step that saves and starts nothing.
LEMMA NothingSaved ==
  ASSUME SessionsTyped, RowsInv, UNCHANGED sStarted, sRows' \subseteq sRows,
         \A id \in S!Own :
           /\ sOpener[id] = "open" => sOpener'[id] = "open"
           /\ sOpener'[id] = "save" => sOpener[id] = "save"
           /\ sOpener[id] = "save" => sOpener'[id] # "open"
  PROVE  RowsInv' /\ DropsOldest
<1>1. IsFiniteSet(sRows') /\ Cardinality(sRows') <= MaxRows
  <2>1. sRows' \in SUBSET sRows /\ IsFiniteSet(sRows)
        /\ Cardinality(sRows) <= MaxRows
    BY DEF RowsInv
  <2>2. /\ IsFiniteSet(sRows') /\ Cardinality(sRows') <= Cardinality(sRows)
        /\ Cardinality(sRows') \in Nat /\ Cardinality(sRows) \in Nat
    BY <2>1, FS_Subset, FS_CardinalityType
  <2> QED
    BY <2>1, <2>2, RowsAssumption
<1> QED
  BY <1>1 DEF RowsInv, DropsOldest

LEMMA RowsTrack ==
  SessionsTyped /\ RowsInv /\ [S!Next]_sVars => RowsInv' /\ DropsOldest
<1> SUFFICES ASSUME SessionsTyped, RowsInv, [S!Next]_sVars
             PROVE  RowsInv' /\ DropsOldest
  OBVIOUS
<1>1. \A id \in Ids : id \in S!Own
  BY DEF S!Own
<1>2. ASSUME NEW id \in Ids, S!Create(id) PROVE RowsInv' /\ DropsOldest
  BY <1>1, <1>2, NothingSaved DEF S!Create, S!Arrives, SessionsTyped
<1>3. ASSUME NEW id \in Ids, S!Start(id) PROVE RowsInv' /\ DropsOldest
  <2>1. CASE sOpener' = [sOpener EXCEPT ![id] = "failed"] /\ UNCHANGED sStarted
    BY <1>1, <1>3, <2>1, NothingSaved DEF S!Start, SessionsTyped
  <2>2. CASE /\ sOpener' = [sOpener EXCEPT ![id] = "save"]
             /\ \E t \in Instants :
                  S!Now(t) /\ sStarted' = [sStarted EXCEPT ![id] = t]
    <3>1. PICK t \in Instants :
            S!Now(t) /\ sStarted' = [sStarted EXCEPT ![id] = t]
      BY <2>2
    <3>2. t \in Nat \ {0}
      BY TextAssumption
    <3>3. /\ \A i \in S!Own : sStarted[i] \in Nat /\ sStarted[i] < t
          /\ \A r \in sRows : r.start \in Nat /\ r.start < t
      <4>1. \A i \in S!Own : sStarted[i] \in Nat
        <5>1. Instants \subseteq Nat
          BY TextAssumption, Zenon
        <5>2. sStarted \in [S!Own -> Instants \cup {0}]
          BY DEF SessionsTyped
        <5>3. Instants \cup {0} \subseteq Nat
          BY <5>1
        <5> QED
          BY <5>2, <5>3, Zenon
      <4>2. \A r \in sRows : r.start \in Nat
        <5>1. \A r \in sRows : r.start \in Instants
          BY DEF RowsInv, S!Row
        <5> QED
          BY <5>1, TextAssumption
      <4> QED
        BY <3>1, <4>1, <4>2 DEF S!Now
    <3>4. \A i \in S!Own :
            /\ sStarted'[i] = IF i = id THEN t ELSE sStarted[i]
            /\ sOpener'[i] = IF i = id THEN "save" ELSE sOpener[i]
      BY <2>2, <3>1 DEF SessionsTyped
    <3>5. UNCHANGED sRows /\ sOpener[id] = "start"
      BY <1>3 DEF S!Start
    <3>6. \A r \in sRows', i \in S!Own :
            /\ r.id = i => sOpener'[i] = "open"
            /\ r.start = sStarted'[i] => r.id = i
      BY <1>1, <3>3, <3>4, <3>5 DEF RowsInv
    <3>7. \A a, b \in S!Own :
            sStarted'[a] = sStarted'[b] => a = b \/ sStarted'[a] = 0
      BY <3>2, <3>3, <3>4 DEF RowsInv
    <3>8. \A i \in S!Own : sOpener'[i] = "save" => sStarted'[i] # 0
      BY <3>2, <3>4 DEF RowsInv
    <3>9. RowsInv'
      BY <3>5, <3>6, <3>7, <3>8 DEF RowsInv
    <3> QED
      BY <3>4, <3>9 DEF DropsOldest
  <2> QED
    BY <1>3, <2>1, <2>2 DEF S!Start
<1>4. ASSUME NEW id \in Ids, S!Save(id) PROVE RowsInv' /\ DropsOldest
  <2>1. CASE S!SaveSession(id) /\ sOpener' = [sOpener EXCEPT ![id] = "open"]
    BY <1>1, <1>4, <2>1, SaveTracks DEF S!Save
  <2>2. CASE sOpener' = [sOpener EXCEPT ![id] = "failed"] /\ UNCHANGED sRows
    BY <1>1, <1>4, <2>2, NothingSaved DEF S!Save, SessionsTyped
  <2> QED
    BY <1>4, <2>1, <2>2 DEF S!Save
<1>5. CASE S!SaveHost
  <2>1. Host \in S!Own
    BY DEF S!Own
  <2>2. CASE S!SaveSession(Host) /\ sOpener' = [sOpener EXCEPT ![Host] = "open"]
    BY <1>5, <2>1, <2>2, SaveTracks DEF S!SaveHost
  <2>3. CASE sOpener' = [sOpener EXCEPT ![Host] = "failed"] /\ UNCHANGED sRows
    BY <1>5, <2>1, <2>3, NothingSaved DEF S!SaveHost, SessionsTyped
  <2> QED
    BY <1>5, <2>2, <2>3 DEF S!SaveHost
<1>6. CASE S!CompleteHost
  <2> DEFINE Completed(r) ==
               IF r.id = Host THEN [r EXCEPT !.status = "complete"] ELSE r
             f == [r \in sRows |-> Completed(r)]
  <2>1. sRows' = {Completed(r) : r \in sRows}
        /\ UNCHANGED <<sStarted, sOpener>>
    BY <1>6, Zenon DEF S!CompleteHost
  <2>2. \A r \in sRows : /\ Completed(r) \in S!Row /\ Completed(r).id = r.id
                         /\ Completed(r).start = r.start
    BY DEF RowsInv, S!Row
  <2> HIDE DEF Completed
  <2>3. f \in Surjection(sRows, sRows')
    <3>1. /\ f \in [sRows -> sRows']
          /\ \A t \in sRows' : \E r \in sRows : f[r] = t
      BY <2>1
    <3> QED
      BY <3>1 DEF Surjection
  <2>4. IsFiniteSet(sRows') /\ Cardinality(sRows') <= Cardinality(sRows)
    <3> HIDE DEF f
    <3> QED
      BY <2>3, FS_Surjection DEF RowsInv
  <2>5. Cardinality(sRows') <= MaxRows
    <3>1. Cardinality(sRows) \in Nat /\ Cardinality(sRows') \in Nat
      BY <2>4, FS_CardinalityType DEF RowsInv
    <3> QED
      BY <2>4, <3>1, RowsAssumption DEF RowsInv
  <2>6. \A x \in sRows' : \E r \in sRows :
          x = Completed(r) /\ x \in S!Row /\ x.id = r.id /\ x.start = r.start
    BY <2>1, <2>2
  <2>7. \A a, b \in sRows' : a.start = b.start => a = b
    BY <2>6 DEF RowsInv
  <2>8. RowsInv'
    BY <2>1, <2>4, <2>5, <2>6, <2>7 DEF RowsInv
  <2> QED
    BY <2>1, <2>8 DEF DropsOldest
<1>7. CASE S!EditHistory
  <2>1. sRows' \subseteq sRows /\ UNCHANGED <<sStarted, sOpener>>
    BY <1>7
    DEF S!EditHistory, S!DeleteSession, S!ClearArchivedSessions,
        S!ClearAllSessions
  <2> QED
    BY <2>1, NothingSaved
<1>8. CASE S!CloseAll \/ UNCHANGED sVars
  <2>1. UNCHANGED <<sRows, sStarted, sOpener>>
    BY <1>8 DEF S!CloseAll, sVars
  <2> QED
    BY <2>1, NothingSaved
<1>9. ASSUME NEW id \in Ids, S!OpenTmux(id) PROVE RowsInv' /\ DropsOldest
  <2>1. UNCHANGED <<sRows, sStarted>>
        /\ \E o \in {"register", "failed", "open"} :
             /\ sOpener[id] \in {"idle", "register"}
             /\ sOpener' = [sOpener EXCEPT ![id] = o]
    BY <1>9 DEF S!OpenTmux, S!Attach, S!Arrives, S!Register
  <2> QED
    BY <1>1, <2>1, NothingSaved DEF SessionsTyped
<1>10. ASSUME NEW id \in Ids, S!Shut(id) \/ S!Exit(id) \/ S!Run(id)
       PROVE  RowsInv' /\ DropsOldest
  <2>1. UNCHANGED <<sRows, sStarted, sOpener>>
    BY <1>10
    DEF S!Shut, S!Close, S!KillSession, S!Exit, S!Run, S!Stop, S!Done,
        S!waitForExit
  <2> QED
    BY <2>1, NothingSaved
<1> QED
  BY <1>2, <1>3, <1>4, <1>5, <1>6, <1>7, <1>8, <1>9, <1>10 DEF S!Next, S!Open

\* Whatever the zone of the host: a save drops a row only when the table is
\* full, and keeps no client's row of an earlier second than a client's row it
\* drops.
THEOREM NewestRowsAreKept == HostSpec => MostRecentAreKept
<1>1. HostSpec => [](SessionsTyped /\ TrackInv)
  BY SessionsParts, SessionsInit, SessionsTrack, PTL DEF HostSpec
<1>2. SessionsTyped /\ RowsInv /\ [S!Next]_sVars => RowsInv' /\ DropsOldest
  BY RowsTrack
<1>3. HostSpec => []RowsInv
  BY <1>1, <1>2, SessionsParts, RowsInit, PTL DEF HostSpec
<1>4. MostRecentAreKept <=> [][DropsOldest]_sVars
  BY PTL DEF MostRecentAreKept, S!MostRecentAreKept, DropsOldest, S!vars, sVars
<1> QED
  BY <1>1, <1>2, <1>3, <1>4, SessionsParts, PTL DEF HostSpec

-----------------------------------------------------------------------------
(* The hub.                                                                *)

\* The messages of the hub, whatever the output.
Spans == [from : Nat, to : Nat]

LEMMA AheadAppend ==
  ASSUME NEW s \in Seq(Spans), NEW x \in Spans
  PROVE  /\ Append(s, x) \in Seq(Spans)
         /\ H!Ahead(Append(s, x)) = H!Ahead(s) \cup H!Text(x)
<1> DEFINE t == Append(s, x)
<1>1. /\ t \in Seq(Spans) /\ Len(t) = Len(s) + 1 /\ t[Len(s) + 1] = x
      /\ \A i \in 1..Len(s) : t[i] = s[i]
  OBVIOUS
<1>2. Len(s) \in Nat
  OBVIOUS
<1> HIDE DEF t
<1>3. ASSUME NEW n \in H!Ahead(t) PROVE n \in H!Ahead(s) \cup H!Text(x)
  <2>1. PICK i \in 1..Len(t) : n \in H!Text(t[i])
    BY <1>3 DEF H!Ahead
  <2>2. i \in 1..Len(s) \/ i = Len(s) + 1
    BY <1>1, <1>2
  <2> QED
    BY <1>1, <2>1, <2>2 DEF H!Ahead
<1>4. ASSUME NEW n \in H!Ahead(s) \cup H!Text(x) PROVE n \in H!Ahead(t)
  <2>1. CASE n \in H!Text(x)
    <3>1. Len(s) + 1 \in 1..Len(t)
      BY <1>1, <1>2
    <3> QED
      BY <1>1, <2>1, <3>1 DEF H!Ahead
  <2>2. CASE n \in H!Ahead(s)
    <3>1. PICK i \in 1..Len(s) : n \in H!Text(s[i])
      BY <2>2 DEF H!Ahead
    <3>2. i \in 1..Len(t) /\ t[i] = s[i]
      BY <1>1, <1>2
    <3> QED
      BY <3>1, <3>2 DEF H!Ahead
  <2> QED
    BY <1>4, <2>1, <2>2
<1> QED
  BY <1>1, <1>3, <1>4 DEF t

LEMMA AheadTail ==
  ASSUME NEW s \in Seq(Spans), s # <<>>
  PROVE  /\ Head(s) \in Spans /\ Tail(s) \in Seq(Spans)
         /\ H!Ahead(s) = H!Text(Head(s)) \cup H!Ahead(Tail(s))
<1>1. Len(Tail(s)) = Len(s) - 1 /\ Len(s) \in Nat \ {0}
  OBVIOUS
<1>2. \A i \in 1..Len(Tail(s)) : Tail(s)[i] = s[i + 1]
  OBVIOUS
<1>3. Head(s) = s[1]
  OBVIOUS
<1>4. ASSUME NEW x \in H!Ahead(s)
      PROVE  x \in H!Text(Head(s)) \cup H!Ahead(Tail(s))
  <2>1. PICK i \in 1..Len(s) : x \in H!Text(s[i])
    BY <1>4 DEF H!Ahead
  <2>2. CASE i # 1
    <3>1. i - 1 \in 1..Len(Tail(s)) /\ Tail(s)[i - 1] = s[i]
      BY <1>1, <1>2, <2>2
    <3> QED
      BY <2>1, <3>1 DEF H!Ahead
  <2> QED
    BY <1>3, <2>1, <2>2
<1>5. ASSUME NEW x \in H!Text(Head(s)) \cup H!Ahead(Tail(s))
      PROVE  x \in H!Ahead(s)
  <2>1. CASE x \in H!Text(Head(s))
    <3>1. 1 \in 1..Len(s)
      BY <1>1
    <3> QED
      BY <1>3, <2>1, <3>1 DEF H!Ahead
  <2>2. CASE x \in H!Ahead(Tail(s))
    <3>1. PICK i \in 1..Len(Tail(s)) : x \in H!Text(Tail(s)[i])
      BY <2>2 DEF H!Ahead
    <3>2. i + 1 \in 1..Len(s) /\ Tail(s)[i] = s[i + 1]
      BY <1>1, <1>2
    <3> QED
      BY <3>1, <3>2 DEF H!Ahead
  <2> QED
    BY <1>5, <2>1, <2>2
<1>6. Head(s) \in Spans /\ Tail(s) \in Seq(Spans)
  OBVIOUS
<1> QED
  BY <1>4, <1>5, <1>6

\* The lines of a ring buffer follow one another up to piece r, and leave
\* nothing out.
Lines(ring, r) ==
  /\ ring \in Seq(Spans)
  /\ \A i \in 1..Len(ring) : 1 <= ring[i].from /\ ring[i].from <= ring[i].to
  /\ \A i \in 1..(Len(ring) - 1) : ring[i + 1].from = ring[i].to + 1
  /\ ring # <<>> =>
       \A n \in ring[1].from..r : \E i \in 1..Len(ring) : n \in H!Text(ring[i])
  /\ ring # <<>> => ring[Len(ring)].to = r

LEMMA LinesAppend ==
  ASSUME NEW ring, NEW r \in Nat, Lines(ring, r), NEW n \in Nat, r < n
  PROVE  Lines(Append(ring, H!Span(r + 1, n)), n)
<1> DEFINE x == H!Span(r + 1, n)
           t == Append(ring, x)
<1>1. x \in Spans /\ x.from = r + 1 /\ x.to = n /\ H!Text(x) = (r + 1)..n
  BY DEF H!Span, H!Text, Spans
<1> HIDE DEF x
<1>2. ring \in Seq(Spans) /\ Len(ring) \in Nat
  BY DEF Lines
<1>3. /\ t \in Seq(Spans) /\ Len(t) = Len(ring) + 1 /\ t[Len(ring) + 1] = x
      /\ \A i \in 1..Len(ring) : t[i] = ring[i] /\ ring[i] \in Spans
  BY <1>1, <1>2
<1> HIDE DEF t
<1>4. \A i \in 1..Len(t) : i \in 1..Len(ring) \/ i = Len(ring) + 1
  BY <1>2, <1>3
<1>5. \A i \in 1..Len(t) : 1 <= t[i].from /\ t[i].from <= t[i].to
  BY <1>1, <1>3, <1>4 DEF Lines
<1>6. \A i \in 1..(Len(t) - 1) : t[i + 1].from = t[i].to + 1
  <2> SUFFICES ASSUME NEW i \in 1..Len(ring)
               PROVE  t[i + 1].from = t[i].to + 1
    BY <1>2, <1>3
  <2>1. CASE i = Len(ring)
    <3>1. ring # <<>>
      BY <1>2, <2>1
    <3>2. t[i].to = r
      BY <1>3, <2>1, <3>1 DEF Lines
    <3> QED
      BY <1>1, <1>3, <2>1, <3>2
  <2>2. CASE i # Len(ring)
    <3>1. i \in 1..(Len(ring) - 1) /\ i + 1 \in 1..Len(ring)
      BY <1>2, <2>2
    <3> QED
      BY <1>3, <3>1 DEF Lines
  <2> QED
    BY <2>1, <2>2
<1>7. ASSUME NEW m \in t[1].from..n
      PROVE  \E i \in 1..Len(t) : m \in H!Text(t[i])
  <2>1. CASE m \in (r + 1)..n
    <3>1. Len(ring) + 1 \in 1..Len(t)
      BY <1>2, <1>3
    <3> QED
      BY <1>1, <1>3, <2>1, <3>1
  <2>2. CASE m \notin (r + 1)..n
    <3>1. ring # <<>>
      BY <1>1, <1>2, <1>3, <2>2
    <3>2. 1 \in 1..Len(ring)
      BY <1>2, <3>1
    <3>3. t[1] = ring[1] /\ ring[1].from \in Nat
      BY <1>3, <3>2 DEF Spans
    <3>4. m \in ring[1].from..r
      BY <2>2, <3>3
    <3>5. PICK i \in 1..Len(ring) : m \in H!Text(ring[i])
      BY <3>1, <3>4 DEF Lines
    <3>6. i \in 1..Len(t) /\ t[i] = ring[i]
      BY <1>2, <1>3
    <3> QED
      BY <3>5, <3>6
  <2> QED
    BY <2>1, <2>2
<1>8. t[Len(t)].to = n
  BY <1>1, <1>3
<1>9. Lines(t, n)
  BY <1>3, <1>5, <1>6, <1>7, <1>8 DEF Lines
<1> QED
  BY <1>9 DEF t, x

LEMMA LinesTail ==
  ASSUME NEW ring, NEW r \in Nat, Lines(ring, r), ring # <<>>
  PROVE  Lines(Tail(ring), r)
<1> DEFINE t == Tail(ring)
<1>1. ring \in Seq(Spans) /\ Len(ring) \in Nat \ {0}
  BY DEF Lines
<1>2. /\ t \in Seq(Spans) /\ Len(t) = Len(ring) - 1
      /\ \A i \in 1..Len(t) : t[i] = ring[i + 1]
  BY <1>1
<1> HIDE DEF t
<1>3. \A i \in 1..Len(t) : i + 1 \in 1..Len(ring)
  BY <1>1, <1>2
<1>4. \A i \in 1..Len(t) : 1 <= t[i].from /\ t[i].from <= t[i].to
  BY <1>2, <1>3 DEF Lines
<1>5. ASSUME NEW i \in 1..(Len(t) - 1) PROVE t[i + 1].from = t[i].to + 1
  <2>1. /\ i \in 1..Len(t) /\ i + 1 \in 1..Len(t)
        /\ i + 1 \in 1..(Len(ring) - 1)
    BY <1>1, <1>2
  <2>2. t[i] = ring[i + 1] /\ t[i + 1] = ring[(i + 1) + 1]
    BY <1>2, <2>1
  <2> QED
    BY <2>1, <2>2 DEF Lines
<1>6. ASSUME t # <<>>, NEW n \in t[1].from..r
      PROVE  \E i \in 1..Len(t) : n \in H!Text(t[i])
  <2>1. 1 \in 1..Len(t) /\ 1 \in 1..(Len(ring) - 1) /\ 1 \in 1..Len(ring)
    BY <1>1, <1>2, <1>6
  <2>2. t[1] = ring[2]
    BY <1>2, <2>1
  <2>3. ring[1] \in Spans /\ ring[2] \in Spans
    BY <1>1, <1>3, <2>1
  <2>4. ring[2].from = ring[1].to + 1
    BY <2>1 DEF Lines
  <2>5. /\ ring[1].from \in Nat /\ ring[1].to \in Nat /\ ring[2].from \in Nat
    BY <2>3 DEF Spans
  <2>6. n \notin H!Text(ring[1])
    BY <1>6, <2>2, <2>4, <2>5 DEF H!Text
  <2>7. PICK i \in 1..Len(ring) : n \in H!Text(ring[i])
    <3>1. ring[1].from <= ring[1].to
      BY <2>1 DEF Lines
    <3>2. n \in ring[1].from..r
      BY <1>6, <2>2, <2>4, <2>5, <3>1
    <3> QED
      BY <1>1, <3>2 DEF Lines
  <2>8. i # 1
    BY <2>6, <2>7
  <2>9. i - 1 \in 1..Len(t) /\ t[i - 1] = ring[(i - 1) + 1]
    BY <1>1, <1>2, <2>8
  <2>10. (i - 1) + 1 = i
    OBVIOUS
  <2> QED
    BY <2>7, <2>9, <2>10
<1>7. ASSUME t # <<>> PROVE t[Len(t)].to = r
  <2>1. Len(t) \in 1..Len(t) /\ Len(t) + 1 = Len(ring)
    BY <1>1, <1>2, <1>7
  <2> QED
    BY <1>1, <1>2, <2>1 DEF Lines
<1>8. Lines(t, r)
  BY <1>2, <1>4, <1>5, <1>6, <1>7 DEF Lines
<1> QED
  BY <1>8 DEF t

HubTyped ==
  /\ hEmitted \in Nat /\ hRecorded \in 0..hEmitted
  /\ hEnds \subseteq (hRecorded + 1)..hEmitted
  /\ hSince \in [Conns -> [from : Nat \ {0}, recorded : Nat, emitted : Nat]]
  /\ hBroadcast \in Seq(Spans)
  /\ hSend \in [Conns -> Seq(Spans)] /\ hReplay \in [Conns -> Seq(Spans)]
  /\ hClients \subseteq Conns
  /\ hPhase \in [Conns -> {"out", "upgraded", "registered", "greeted",
                           "replaying", "reading", "gone"}]
  /\ hDone \in [Conns -> BOOLEAN]
  /\ hSettled \in [Conns -> SUBSET Nat]

\* What a connection has, or will have unless its buffer is full.
Reaches(c, n) ==
  \/ n \in hSettled[c] \cup H!Ahead(hSend[c])
  \/ n \in H!Ahead(hReplay[c]) \cup H!Ahead(hBroadcast)

Joined(c) == hPhase[c] \in {"registered", "greeted", "replaying", "reading"}
Follows(c) == hPhase[c] \in {"replaying", "reading"} /\ ~hDone[c]

\* The ring buffer has no gap, a connection that joined is served until it
\* shuts down, and one that read the history misses nothing but what was
\* then between the ring buffer and the broadcast.
HubInv ==
  /\ Lines(hRing, hRecorded)
  /\ \A c \in Conns :
       /\ Joined(c) /\ ~hDone[c] => c \in hClients
       /\ Follows(c) =>
            \A n \in hSince[c].from..hEmitted :
              Reaches(c, n) \/ n \in H!Between(c)

LEMMA HubInvGivesReplay == HubInv => ReplayMeetsLiveStream
BY DEF HubInv, Follows, Reaches, ReplayMeetsLiveStream,
       H!ReplayMeetsLiveStream

LEMMA HubInit == H!Init => HubTyped /\ HubInv
<1> SUFFICES ASSUME H!Init PROVE HubTyped /\ HubInv
  OBVIOUS
<1>1. HubTyped
  BY DEF H!Init, HubTyped
<1>2. Lines(<<>>, 0)
  BY DEF Lines
<1> QED
  BY <1>1, <1>2 DEF H!Init, HubInv, Joined, Follows

\* A step after which every connection that follows did so before, and has
\* what it had.
LEMMA FollowersKeep ==
  ASSUME HubTyped, HubInv, HubTyped', Lines(hRing', hRecorded'),
         UNCHANGED <<hEmitted, hSince>>,
         \A c \in Conns :
           /\ Joined(c)' /\ ~hDone'[c] => c \in hClients'
           /\ Follows(c)' =>
                /\ Follows(c)
                /\ \A n \in Nat : Reaches(c, n) => Reaches(c, n)'
  PROVE  HubInv'
<1>1. ASSUME NEW c \in Conns, Follows(c)',
             NEW n \in hSince[c].from..hEmitted
      PROVE  Reaches(c, n)' \/ n \in H!Between(c)'
  <2>1. n \in Nat
    <3>1. hSince[c].from \in Nat \ {0} /\ hEmitted \in Nat
      BY DEF HubTyped
    <3> QED
      BY <3>1
  <2>2. Reaches(c, n) \/ n \in H!Between(c)
    BY <1>1 DEF HubInv
  <2>3. H!Between(c)' = H!Between(c)
    BY DEF H!Between
  <2> QED
    BY <1>1, <2>1, <2>2, <2>3
<1> QED
  BY <1>1 DEF HubInv

LEMMA HubTrack ==
  HubTyped /\ HubInv /\ [H!Next]_hVars => HubTyped' /\ HubInv'
<1> SUFFICES ASSUME HubTyped, HubInv, [H!Next]_hVars
             PROVE  HubTyped' /\ HubInv'
  OBVIOUS
<1>0. Lines(hRing, hRecorded)
  BY DEF HubInv
<1>1. CASE H!Start \/ UNCHANGED hVars
  <2>1. UNCHANGED <<hClients, hBroadcast, hPhase, hSend, hDone, hEmitted, hEnds,
                    hRecorded, hRing, hSince, hReplay, hSettled>>
    BY <1>1 DEF H!Start, H!client, H!capture, hVars
  <2>2. HubTyped'
    BY <2>1 DEF HubTyped
  <2> QED
    BY <1>0, <2>1, <2>2, FollowersKeep DEF HubInv, Joined, Follows, Reaches
<1>2. CASE H!Stop
  <2>1. HubTyped'
    BY <1>2 DEF H!Stop, H!capture, HubTyped
  <2>2. UNCHANGED <<hBroadcast, hPhase, hSend, hEmitted, hRecorded, hRing,
                    hSince, hReplay, hSettled>>
    BY <1>2 DEF H!Stop, H!capture
  <2>3. \A c \in Conns : ~hDone'[c] => ~hDone[c] /\ c \notin hClients
    BY <1>2 DEF H!Stop, HubTyped
  <2> QED
    BY <1>0, <2>1, <2>2, <2>3, FollowersKeep
    DEF HubInv, Joined, Follows, Reaches
<1>3. CASE H!Emit
  <2> DEFINE piece == (hEmitted + 1)..hEmitted'
             chunk == H!Span(hEmitted + 1, hEmitted')
  <2>0. /\ hEmitted' \in Nat /\ hEmitted < hEmitted'
        /\ hEmitted \in Nat /\ hRecorded \in 0..hEmitted
        /\ hEnds' \subseteq piece
        /\ UNCHANGED <<hRecorded, hRing, hSince, hClients, hPhase, hDone,
                       hSend, hReplay>>
    BY <1>3, LimitsAssumption DEF H!Emit, H!client, HubTyped
  <2>1. /\ chunk \in Spans /\ H!Text(chunk) = piece
        /\ hBroadcast \in Seq(Spans) /\ hSettled \in [Conns -> SUBSET Nat]
    BY <2>0 DEF H!Span, H!Text, Spans, HubTyped
  <2>2. \/ hBroadcast' = Append(hBroadcast, chunk) /\ UNCHANGED hSettled
        \/ /\ UNCHANGED hBroadcast
           /\ hSettled' = [c \in Conns |-> hSettled[c] \cup piece]
    BY <1>3 DEF H!Emit
  <2>3. /\ hBroadcast' \in Seq(Spans) /\ hSettled' \in [Conns -> SUBSET Nat]
        /\ H!Ahead(hBroadcast) \subseteq H!Ahead(hBroadcast')
        /\ \A c \in Conns : /\ hSettled[c] \subseteq hSettled'[c]
                            /\ piece \subseteq
                                 H!Ahead(hBroadcast') \cup hSettled'[c]
    <3>1. CASE hBroadcast' = Append(hBroadcast, chunk) /\ UNCHANGED hSettled
      <4> HIDE DEF chunk
      <4>1. /\ hBroadcast' \in Seq(Spans)
            /\ H!Ahead(hBroadcast') = H!Ahead(hBroadcast) \cup piece
        BY <2>1, <3>1, AheadAppend
      <4> QED
        BY <2>1, <3>1, <4>1
    <3>2. CASE /\ UNCHANGED hBroadcast
               /\ hSettled' = [c \in Conns |-> hSettled[c] \cup piece]
      <4>1. piece \subseteq Nat
        BY <2>0
      <4> HIDE DEF piece
      <4> QED
        BY <2>1, <3>2, <4>1
    <3> QED
      BY <2>2, <3>1, <3>2
  <2>4. HubTyped'
    BY <2>0, <2>3 DEF HubTyped
  <2>5. \A c \in Conns : \A n : Reaches(c, n) => Reaches(c, n)'
    BY <2>0, <2>3 DEF Reaches
  <2>6. ASSUME NEW c \in Conns, Follows(c), NEW n \in hSince[c].from..hEmitted'
        PROVE  Reaches(c, n)' \/ n \in H!Between(c)
    <3>1. hSince[c].from \in Nat
      BY DEF HubTyped
    <3>2. n \in hSince[c].from..hEmitted \/ n \in piece
      BY <2>0, <3>1
    <3>3. CASE n \in piece
      BY <2>3, <3>3 DEF Reaches
    <3>4. CASE n \in hSince[c].from..hEmitted
      BY <2>5, <2>6, <3>4 DEF HubInv
    <3> QED
      BY <3>2, <3>3, <3>4
  <2>7. \A c \in Conns : H!Between(c)' = H!Between(c)
    BY <2>0 DEF H!Between
  <2> QED
    BY <1>0, <2>0, <2>4, <2>6, <2>7 DEF HubInv, Joined, Follows
<1>4. CASE H!Record \/ H!Flush
  <2>1. /\ hEmitted' = hEmitted /\ hRecorded' \in hRecorded..hEmitted
        /\ hEnds' \subseteq (hRecorded' + 1)..hEmitted
        /\ hRecorded' = hRecorded => hRing' = hRing
        /\ hRecorded' > hRecorded => H!Write(H!Span(hRecorded + 1, hRecorded'))
    <3>1. CASE H!Record
      <4>1. PICK n \in hEnds : /\ \A m \in hEnds : n <= m
                               /\ H!Write(H!Span(hRecorded + 1, n))
                               /\ hRecorded' = n /\ hEnds' = hEnds \ {n}
        BY <3>1 DEF H!Record
      <4>2. n \in (hRecorded + 1)..hEmitted /\ hEmitted' = hEmitted
            /\ hEmitted \in Nat /\ hRecorded \in 0..hEmitted
        BY <3>1 DEF H!Record, HubTyped
      <4>3. \A m \in hEnds : m \in (hRecorded + 1)..hEmitted
        BY DEF HubTyped
      <4>4. hEnds' \subseteq (n + 1)..hEmitted
        BY <4>1, <4>2, <4>3
      <4> QED
        BY <4>1, <4>2, <4>4
    <3>2. CASE H!Flush
      BY <3>2 DEF H!Flush, HubTyped
    <3> QED
      BY <1>4, <3>1, <3>2
  <2>2. UNCHANGED <<hSince, hClients, hPhase, hDone, hSend, hReplay,
                    hBroadcast, hSettled>>
    BY <1>4 DEF H!Record, H!Flush, H!server, H!client
  <2>4. /\ hRecorded \in Nat /\ hRecorded' \in Nat
        /\ hEmitted' \in Nat /\ hRecorded' \in 0..hEmitted'
    BY <2>1 DEF HubTyped
  <2>6. hEnds' \subseteq (hRecorded' + 1)..hEmitted'
    BY <2>1
  <2>3. HubTyped'
    BY <2>2, <2>4, <2>6 DEF HubTyped
  <2>5. Lines(hRing', hRecorded')
    <3>1. CASE hRecorded' = hRecorded
      BY <1>0, <2>1, <3>1
    <3>2. CASE hRecorded' # hRecorded
      <4> DEFINE line == H!Span(hRecorded + 1, hRecorded')
      <4>1. hRecorded < hRecorded' /\ H!Write(line)
        BY <2>1, <2>4, <3>2
      <4>2. CASE hRing' = Append(hRing, line)
        BY <1>0, <2>4, <4>1, <4>2, LinesAppend
      <4>3. CASE hRing' = Append(Tail(hRing), line) /\ hRing # <<>>
        BY <1>0, <2>4, <4>1, <4>3, LinesAppend, LinesTail
      <4>4. Len(<<>>) = 0
        OBVIOUS
      <4> HIDE DEF line
      <4> QED
        BY <4>1, <4>2, <4>3, <4>4, HistoryAssumption DEF H!Write
    <3> QED
      BY <3>1, <3>2
  <2> QED
    BY <2>1, <2>2, <2>3, <2>5, FollowersKeep
    DEF HubInv, Joined, Follows, Reaches
<1>5. CASE H!runBroadcaster
  <2> DEFINE message == Head(hBroadcast)
  <2>0. /\ message \in Spans /\ hBroadcast' \in Seq(Spans)
        /\ H!Ahead(hBroadcast) = H!Text(message) \cup H!Ahead(hBroadcast')
    BY <1>5, AheadTail DEF H!runBroadcaster, HubTyped
  <2>1. UNCHANGED <<hEmitted, hRecorded, hEnds, hRing, hSince, hPhase, hDone,
                    hClients, hReplay>>
    BY <1>5 DEF H!runBroadcaster, H!capture
  <2>2. ASSUME NEW c \in Conns
        PROVE  /\ \/ hSend'[c] = hSend[c]
                  \/ hSend'[c] = Append(hSend[c], message)
               /\ \/ hSettled'[c] = hSettled[c]
                  \/ hSettled'[c] = hSettled[c] \cup H!Text(message)
               /\ c \in hClients /\ ~hDone[c] =>
                    \/ hSend'[c] = Append(hSend[c], message)
                    \/ hSettled'[c] = hSettled[c] \cup H!Text(message)
    BY <1>5 DEF H!runBroadcaster, H!Listening
  <2>3. ASSUME NEW c \in Conns
        PROVE  /\ hSend'[c] \in Seq(Spans)
               /\ \/ hSend'[c] = hSend[c]
                  \/ H!Ahead(hSend'[c]) = H!Ahead(hSend[c]) \cup H!Text(message)
               /\ hSend'[c] = Append(hSend[c], message) =>
                    H!Ahead(hSend'[c]) = H!Ahead(hSend[c]) \cup H!Text(message)
    <3> HIDE DEF message
    <3>1. hSend[c] \in Seq(Spans)
      BY DEF HubTyped
    <3> QED
      BY <2>0, <2>2, <3>1, AheadAppend
  <2>4. H!Text(message) \subseteq Nat
    <3> HIDE DEF message
    <3> QED
      BY <2>0 DEF H!Text, Spans
  <2>5. hSend' = [c \in Conns |-> hSend'[c]]
        /\ hSettled' = [c \in Conns |-> hSettled'[c]]
    BY <1>5 DEF H!runBroadcaster
  <2> HIDE DEF message
  <2>6. hSettled' \in [Conns -> SUBSET Nat]
    BY <2>2, <2>4, <2>5 DEF HubTyped
  <2>7. hSend' \in [Conns -> Seq(Spans)]
    BY <2>3, <2>5
  <2>8. HubTyped'
    BY <2>0, <2>1, <2>6, <2>7 DEF HubTyped
  <2>9. ASSUME NEW c \in Conns, Follows(c), NEW n, Reaches(c, n)
        PROVE  Reaches(c, n)'
    <3>1. c \in hClients /\ ~hDone[c]
      BY <2>9 DEF HubInv, Follows, Joined
    <3>2. /\ hReplay' = hReplay /\ hSettled[c] \subseteq hSettled'[c]
          /\ H!Ahead(hSend[c]) \subseteq H!Ahead(hSend'[c])
          /\ H!Text(message) \subseteq H!Ahead(hSend'[c]) \cup hSettled'[c]
      BY <2>1, <2>2, <2>3, <3>1
    <3> QED
      BY <2>0, <2>9, <3>2 DEF Reaches
  <2> QED
    BY <1>0, <2>1, <2>8, <2>9, FollowersKeep DEF HubInv, Joined, Follows
<1>6. ASSUME NEW c \in Conns, H!CloseDeviceConnections(c) \/ H!Upgrade(c)
                               \/ H!Register(c) \/ H!StartReading(c)
                               \/ H!EndReader(c) \/ H!EndWriter(c)
                               \/ H!HangUp(c)
      PROVE  HubTyped' /\ HubInv'
  <2>1. UNCHANGED <<hEmitted, hRecorded, hEnds, hRing, hSince, hSettled, hSend,
                    hReplay, hBroadcast>>
    BY <1>6
    DEF H!CloseDeviceConnections, H!Upgrade, H!Register, H!StartReading,
        H!EndReader, H!EndWriter, H!HangUp, H!server, H!capture
  <2>2. /\ hClients' \subseteq Conns
        /\ hPhase' \in [Conns -> {"out", "upgraded", "registered", "greeted",
                                  "replaying", "reading", "gone"}]
        /\ hDone' \in [Conns -> BOOLEAN]
    BY <1>6
    DEF H!CloseDeviceConnections, H!Upgrade, H!Register, H!StartReading,
        H!EndReader, H!EndWriter, H!HangUp, H!server, HubTyped
  <2>3. \A d \in Conns : /\ Joined(d)' /\ ~hDone'[d] => d \in hClients'
                         /\ Follows(d)' => Follows(d)
    BY <1>6
    DEF H!CloseDeviceConnections, H!Upgrade, H!Register, H!StartReading,
        H!EndReader, H!EndWriter, H!HangUp, H!server, HubTyped, HubInv,
        Joined, Follows
  <2>4. HubTyped'
    BY <2>1, <2>2 DEF HubTyped
  <2> QED
    BY <1>0, <2>1, <2>3, <2>4, FollowersKeep DEF Reaches
<1>7. ASSUME NEW c \in Conns, H!Greet(c) \/ H!Respond(c)
      PROVE  HubTyped' /\ HubInv'
  <2>1. H!Control \in Spans
    BY DEF H!Control, H!Span, Spans
  <2>2. /\ UNCHANGED <<hEmitted, hRecorded, hEnds, hRing, hSince, hSettled,
                       hReplay, hBroadcast, hDone, hClients>>
        /\ hSend' = [hSend EXCEPT ![c] = Append(@, H!Control)]
        /\ hPhase' \in [Conns -> {"out", "upgraded", "registered", "greeted",
                                  "replaying", "reading", "gone"}]
    BY <1>7 DEF H!Greet, H!Respond, H!server, H!capture, HubTyped
  <2>3. \A d \in Conns : Joined(d)' = Joined(d) /\ Follows(d)' = Follows(d)
    BY <1>7 DEF H!Greet, H!Respond, HubTyped, Joined, Follows
  <2>4. /\ Append(hSend[c], H!Control) \in Seq(Spans)
        /\ H!Ahead(hSend[c]) \subseteq H!Ahead(Append(hSend[c], H!Control))
    BY <2>1, AheadAppend DEF HubTyped
  <2>5. \A d \in Conns : H!Ahead(hSend[d]) \subseteq H!Ahead(hSend'[d])
    BY <2>2, <2>4 DEF HubTyped
  <2>6. HubTyped'
    BY <2>2, <2>4 DEF HubTyped
  <2> QED
    BY <1>0, <2>2, <2>3, <2>5, <2>6, FollowersKeep DEF HubInv, Reaches
<1>8. ASSUME NEW c \in Conns, H!ReadHistory(c) PROVE HubTyped' /\ HubInv'
  <2> DEFINE from == H!HistoryStart
  <2>1. /\ hEmitted \in Nat /\ hRecorded \in Nat
        /\ hRing \in Seq(Spans)
    BY <1>0 DEF HubTyped, Lines
  <2>2. /\ from \in Nat \ {0}
        /\ \A n \in from..hRecorded : n \in H!Ahead(hRing)
    <3>1. CASE hRing = <<>>
      BY <2>1, <3>1 DEF H!HistoryStart
    <3>2. CASE hRing # <<>>
      <4>1. 1 \in 1..Len(hRing) /\ Head(hRing) = hRing[1] /\ hRing[1] \in Spans
        BY <2>1, <3>2
      <4>2. from = hRing[1].from /\ from \in Nat /\ from >= 1
        BY <1>0, <3>2, <4>1 DEF H!HistoryStart, Lines, Spans
      <4> HIDE DEF from
      <4> QED
        BY <1>0, <3>2, <4>2 DEF Lines, H!Ahead
    <3> QED
      BY <3>1, <3>2
  <2>3. /\ hSince' = [hSince EXCEPT ![c] = [from |-> from,
                                          recorded |-> hRecorded,
                                          emitted |-> hEmitted]]
        /\ hReplay' = [hReplay EXCEPT ![c] = hRing]
        /\ hPhase' = [hPhase EXCEPT ![c] = "replaying"]
        /\ hPhase[c] = "greeted"
        /\ UNCHANGED <<hEmitted, hRecorded, hEnds, hRing, hBroadcast, hClients,
                       hSend, hDone, hSettled>>
    BY <1>8 DEF H!ReadHistory, H!server, H!capture
  <2> HIDE DEF from
  <2>4. HubTyped'
    BY <2>1, <2>2, <2>3 DEF HubTyped
  <2>5. /\ hSince'[c].from = from /\ hReplay'[c] = hRing
        /\ H!Between(c)' = (hRecorded + 1)..hEmitted
    BY <2>3 DEF HubTyped, H!Between
  <2>6. \A n \in from..hEmitted : Reaches(c, n)' \/ n \in H!Between(c)'
    <3> TAKE n \in from..hEmitted
    <3>1. n \in from..hRecorded \/ n \in (hRecorded + 1)..hEmitted
      BY <2>1, <2>2
    <3> QED
      BY <2>2, <2>5, <3>1 DEF Reaches
  <2>7. ASSUME NEW d \in Conns \ {c}
        PROVE  /\ hSince'[d] = hSince[d] /\ hReplay'[d] = hReplay[d]
               /\ Follows(d)' = Follows(d)
    BY <2>3 DEF HubTyped, Follows
  <2>8. ASSUME NEW d \in Conns, Follows(d)',
               NEW n \in hSince'[d].from..hEmitted'
        PROVE  Reaches(d, n)' \/ n \in H!Between(d)'
    <3>1. CASE d = c
      BY <2>3, <2>5, <2>6, <2>8, <3>1
    <3>2. CASE d # c
      <4>1. H!Between(d)' = H!Between(d) /\ Reaches(d, n)' = Reaches(d, n)
        BY <2>3, <2>7, <3>2 DEF H!Between, Reaches
      <4> QED
        BY <2>3, <2>7, <2>8, <3>2, <4>1 DEF HubInv
    <3> QED
      BY <3>1, <3>2
  <2>9. \A d \in Conns : Joined(d)' = Joined(d)
    BY <2>3 DEF HubTyped, Joined
  <2> QED
    BY <1>0, <2>3, <2>4, <2>8, <2>9 DEF HubInv
<1>9. ASSUME NEW c \in Conns, H!Replay(c) PROVE HubTyped' /\ HubInv'
  <2> DEFINE line == Head(hReplay[c])
  <2>0. /\ hReplay[c] \in Seq(Spans) /\ hReplay[c] # <<>>
        /\ hSend[c] \in Seq(Spans) /\ hSettled[c] \subseteq Nat
    BY <1>9 DEF H!Replay, HubTyped
  <2>1. /\ line \in Spans /\ Tail(hReplay[c]) \in Seq(Spans)
        /\ H!Ahead(hReplay[c]) = H!Text(line) \cup H!Ahead(Tail(hReplay[c]))
    BY <2>0, AheadTail
  <2>2. /\ hReplay' = [hReplay EXCEPT ![c] = Tail(@)]
        /\ \/ /\ hSend' = [hSend EXCEPT ![c] = Append(@, line)]
              /\ UNCHANGED hSettled
           \/ /\ hSettled' = [hSettled EXCEPT ![c] = @ \cup H!Text(line)]
              /\ UNCHANGED hSend
        /\ UNCHANGED <<hEmitted, hRecorded, hEnds, hRing, hSince, hBroadcast,
                       hClients, hPhase, hDone>>
    BY <1>9 DEF H!Replay, H!server, H!capture
  <2> HIDE DEF line
  <2>3. /\ Append(hSend[c], line) \in Seq(Spans)
        /\ H!Ahead(Append(hSend[c], line)) = H!Ahead(hSend[c]) \cup H!Text(line)
        /\ H!Text(line) \subseteq Nat
    BY <2>0, <2>1, AheadAppend DEF H!Text, Spans
  <2>4. /\ hReplay' \in [Conns -> Seq(Spans)] /\ hSend' \in [Conns -> Seq(Spans)]
        /\ hSettled' \in [Conns -> SUBSET Nat]
    BY <2>0, <2>1, <2>2, <2>3 DEF HubTyped
  <2>5. HubTyped'
    BY <2>2, <2>4 DEF HubTyped
  <2>6. /\ H!Ahead(hReplay[c]) = H!Text(line) \cup H!Ahead(hReplay'[c])
        /\ hSettled[c] \subseteq hSettled'[c]
        /\ H!Ahead(hSend[c]) \subseteq H!Ahead(hSend'[c])
        /\ H!Text(line) \subseteq H!Ahead(hSend'[c]) \cup hSettled'[c]
    BY <2>1, <2>2, <2>3 DEF HubTyped
  <2>7. \A d \in Conns \ {c} : /\ hReplay'[d] = hReplay[d]
                               /\ hSend'[d] = hSend[d]
                               /\ hSettled'[d] = hSettled[d]
    BY <2>2 DEF HubTyped
  <2>8. \A d \in Conns : \A n : Reaches(d, n) => Reaches(d, n)'
    BY <2>2, <2>6, <2>7 DEF Reaches
  <2> QED
    BY <1>0, <2>2, <2>5, <2>8, FollowersKeep DEF HubInv, Joined, Follows
<1>10. ASSUME NEW c \in Conns, H!WriteNext(c) PROVE HubTyped' /\ HubInv'
  <2> DEFINE message == Head(hSend[c])
  <2>0. hSend[c] \in Seq(Spans) /\ hSend[c] # <<>> /\ hSettled[c] \subseteq Nat
    BY <1>10 DEF H!WriteNext, HubTyped
  <2>1. /\ message \in Spans /\ Tail(hSend[c]) \in Seq(Spans)
        /\ H!Ahead(hSend[c]) = H!Text(message) \cup H!Ahead(Tail(hSend[c]))
    BY <2>0, AheadTail
  <2>2. /\ hSend' = [hSend EXCEPT ![c] = Tail(@)]
        /\ hSettled' = [hSettled EXCEPT ![c] = @ \cup H!Text(message)]
        /\ UNCHANGED <<hEmitted, hRecorded, hEnds, hRing, hSince, hBroadcast,
                       hClients, hPhase, hDone, hReplay>>
    BY <1>10 DEF H!WriteNext, H!server, H!capture
  <2> HIDE DEF message
  <2>3. H!Text(message) \subseteq Nat
    BY <2>1 DEF H!Text, Spans
  <2>4. HubTyped'
    BY <2>0, <2>1, <2>2, <2>3 DEF HubTyped
  <2>5. \A d \in Conns : \A n : Reaches(d, n) => Reaches(d, n)'
    <3>1. /\ hSettled'[c] = hSettled[c] \cup H!Text(message)
          /\ hSend'[c] = Tail(hSend[c])
          /\ \A d \in Conns \ {c} : /\ hSend'[d] = hSend[d]
                                    /\ hSettled'[d] = hSettled[d]
      BY <2>2 DEF HubTyped
    <3> QED
      BY <2>1, <2>2, <3>1 DEF Reaches
  <2> QED
    BY <1>0, <2>2, <2>4, <2>5, FollowersKeep DEF HubInv, Joined, Follows
<1> QED
  BY <1>1, <1>2, <1>3, <1>4, <1>5, <1>6, <1>7, <1>8, <1>9, <1>10
  DEF H!Next, H!Serve

LEMMA HubParts ==
  /\ HostInit => H!Init
  /\ [HostNext]_hostVars => [H!Next]_hVars
BY DEF HostInit, HostNext, GateStep, HubStep, SessionsStep, DiscoveryStep,
       hostVars, hVars

\* A connection that joins while the terminal prints misses nothing between
\* the history it is sent and the live stream but what a full buffer or a
\* timeout took and what was broadcast and not yet a line of the history when
\* the history was read.
THEOREM NoLineFallsBetween == HostSpec => []ReplayMeetsLiveStream
<1>1. HostSpec => [](HubTyped /\ HubInv)
  BY HubParts, HubInit, HubTrack, PTL DEF HostSpec
<1> QED
  BY <1>1, HubInvGivesReplay, PTL

-----------------------------------------------------------------------------
(* The types of all parts.                                                 *)

\* Every buffer holds lines, and no more than fit.
HubTypes == HubTyped /\ H!TypeOK

LEMMA LineAppend ==
  ASSUME NEW T, NEW s \in Seq(T), NEW x \in T, NEW n \in Nat, Len(s) < n
  PROVE  Append(s, x) \in Seq(T) /\ Len(Append(s, x)) <= n
OBVIOUS

LEMMA LineTail ==
  ASSUME NEW T, NEW s \in Seq(T), s # <<>>
  PROVE  /\ Head(s) \in T /\ Tail(s) \in Seq(T)
         /\ \A n \in Nat : Len(s) <= n => Len(Tail(s)) <= n
OBVIOUS

\* What captureOutput prints makes messages.
LEMMA SpanIsMessage ==
  ASSUME NEW m \in 1..(MaxOutput + 1), NEW n \in 0..MaxOutput
  PROVE  H!Span(m, n) \in H!Messages
BY LimitsAssumption DEF H!Span, H!Messages

LEMMA TextIsOutput ==
  ASSUME NEW x \in H!Messages PROVE H!Text(x) \subseteq H!Output
BY LimitsAssumption DEF H!Messages, H!Text, H!Output

LEMMA HubTypesInit == H!Init => H!TypeOK
<1>1. <<>> \in Seq(H!Messages) /\ Len(<<>>) = 0
  OBVIOUS
<1> SUFFICES ASSUME H!Init PROVE H!TypeOK
  OBVIOUS
<1>2. \A c \in Conns : hSend[c] = <<>> /\ hReplay[c] = <<>>
  BY DEF H!Init
<1>3. /\ hEmitted = 0 /\ hRecorded = 0 /\ hEnds = {} /\ hBroadcast = <<>>
      /\ hClients = {} /\ hRing = <<>> /\ hServing = "new" /\ ~hStopped
      /\ hCapturing
      /\ \A c \in Conns : hSince[c] = [from |-> 1, recorded |-> 0,
                                       emitted |-> 0]
  BY DEF H!Init
<1>4. /\ 0 \in 0..MaxOutput /\ 0 \in 0..0 /\ 0 <= CastCap /\ 0 <= SendCap
      /\ 0 <= HistoryCap /\ 1 \in 1..(MaxOutput + 1)
  BY LimitsAssumption, HistoryAssumption
<1>5. /\ hPhase \in [Conns -> {"out", "upgraded", "registered", "greeted",
                               "replaying", "reading", "gone"}]
      /\ hDone \in [Conns -> BOOLEAN] /\ hOpen \in [Conns -> BOOLEAN]
      /\ hWriter \in [Conns -> {"none", "runs", "ended"}]
      /\ hSettled \in [Conns -> SUBSET H!Output]
      /\ hStopped \in BOOLEAN /\ hCapturing \in BOOLEAN
  BY DEF H!Init
<1>6. \A c \in Conns : /\ hSince[c].from \in 1..(MaxOutput + 1)
                       /\ hSince[c].recorded \in 0..MaxOutput
                       /\ hSince[c].emitted \in 0..MaxOutput
  BY <1>3, <1>4
<1>7. hEnds \subseteq (hRecorded + 1)..hEmitted
  BY <1>3
<1>8. /\ hRecorded \in 0..hEmitted /\ hEmitted \in 0..MaxOutput
      /\ hServing \in {"new", "up", "failed"} /\ hClients \subseteq Conns
      /\ Len(hBroadcast) <= CastCap /\ hBroadcast \in Seq(H!Messages)
      /\ Len(hRing) <= HistoryCap /\ hRing \in Seq(H!Messages)
  BY <1>1, <1>3, <1>4
<1>9. \A c \in Conns : /\ hSend[c] \in Seq(H!Messages)
                       /\ Len(hSend[c]) <= SendCap
                       /\ hReplay[c] \in Seq(H!Messages)
  BY <1>1, <1>2, <1>4
<1> QED
  BY <1>5, <1>6, <1>7, <1>8, <1>9 DEF H!TypeOK

LEMMA HubTypesKept ==
  HubTypes /\ HubInv /\ HubTyped' /\ [H!Next]_hVars => H!TypeOK'
<1> SUFFICES ASSUME HubTypes, HubInv, HubTyped', [H!Next]_hVars
             PROVE  H!TypeOK'
  OBVIOUS
<1>0. /\ SendCap \in Nat /\ CastCap \in Nat /\ MaxOutput \in Nat
      /\ HistoryCap \in Nat \ {0} /\ HubTyped /\ H!TypeOK
  BY LimitsAssumption, HistoryAssumption DEF HubTypes
<1>1. CASE H!Start \/ H!Stop \/ UNCHANGED hVars
  BY <1>0, <1>1
  DEF H!Start, H!Stop, H!client, H!capture, hVars, HubTyped, H!TypeOK
<1>2. CASE H!Emit
  <2>1. PICK last \in (hEmitted + 1)..MaxOutput :
          /\ hEmitted' = last
          /\ \/ hEnds' = (hEmitted + 1)..last
             \/ hEnds' = (hEmitted + 1)..(last - 1)
          /\ \/ /\ Len(hBroadcast) < CastCap
                /\ hBroadcast' = Append(hBroadcast, H!Span(hEmitted + 1, last))
                /\ UNCHANGED hSettled
             \/ /\ hSettled' = [c \in Conns |->
                                  hSettled[c] \cup (hEmitted + 1)..last]
                /\ UNCHANGED hBroadcast
    BY <1>2 DEF H!Emit
  <2>2. UNCHANGED <<hServing, hStopped, hClients, hPhase, hSend, hDone,
                    hWriter, hOpen, hCapturing, hRecorded, hRing, hSince,
                    hReplay>>
    BY <1>2 DEF H!Emit, H!client
  <2>3. /\ hEmitted \in Nat /\ hRecorded \in 0..hEmitted /\ last \in 1..MaxOutput
        /\ hEmitted < last
    BY <1>0, <2>1 DEF HubTyped
  <2>4. hBroadcast' \in Seq(H!Messages) /\ Len(hBroadcast') <= CastCap
    <3>1. CASE /\ Len(hBroadcast) < CastCap
               /\ hBroadcast' = Append(hBroadcast, H!Span(hEmitted + 1, last))
      <4>1. H!Span(hEmitted + 1, last) \in H!Messages
        BY <1>0, <2>3, SpanIsMessage
      <4> QED
        BY <1>0, <3>1, <4>1, LineAppend DEF H!TypeOK
    <3> QED
      BY <1>0, <2>1, <3>1 DEF H!TypeOK
  <2>5. hSettled' \in [Conns -> SUBSET H!Output]
    <3>1. (hEmitted + 1)..last \subseteq H!Output
      BY <1>0, <2>3 DEF H!Output
    <3>2. hSettled \in [Conns -> SUBSET H!Output]
      BY <1>0 DEF H!TypeOK
    <3> QED
      BY <2>1, <3>1, <3>2
  <2>6. /\ hEmitted' \in 0..MaxOutput /\ hRecorded' \in 0..hEmitted'
    BY <1>0, <2>1, <2>2, <2>3
  <2>7. hEnds' \subseteq (hRecorded' + 1)..hEmitted'
    BY DEF HubTyped
  <2> QED
    BY <1>0, <2>2, <2>4, <2>5, <2>6, <2>7 DEF H!TypeOK
<1>3. CASE H!Record \/ H!Flush
  <2>1. UNCHANGED <<hServing, hStopped, hClients, hBroadcast, hPhase, hSend,
                    hDone, hWriter, hOpen, hEmitted, hSince, hReplay,
                    hSettled>>
    BY <1>3 DEF H!Record, H!Flush, H!server, H!client
  <2>2. hCapturing' \in BOOLEAN
    BY <1>0, <1>3 DEF H!Record, H!Flush, H!TypeOK
  <2>3. /\ hRecorded' \in 0..hEmitted /\ hEnds' \subseteq (hRecorded' + 1)..hEmitted
    BY <2>1 DEF HubTyped
  <2>4. \/ hRing' = hRing
        \/ \E n \in (hRecorded + 1)..hEmitted :
             H!Write(H!Span(hRecorded + 1, n))
    <3>1. CASE H!Record
      BY <1>0, <3>1 DEF H!Record, HubTyped
    <3>2. CASE H!Flush
      BY <1>0, <3>2 DEF H!Flush, HubTyped
    <3> QED
      BY <1>3, <3>1, <3>2
  <2>5. hRing' \in Seq(H!Messages) /\ Len(hRing') <= HistoryCap
    <3>0. hRing \in Seq(H!Messages) /\ Len(hRing) <= HistoryCap
      BY <1>0 DEF H!TypeOK
    <3>1. ASSUME NEW n \in (hRecorded + 1)..hEmitted,
                 H!Write(H!Span(hRecorded + 1, n))
          PROVE  hRing' \in Seq(H!Messages) /\ Len(hRing') <= HistoryCap
      <4> DEFINE line == H!Span(hRecorded + 1, n)
      <4>1. line \in H!Messages
        <5>1. /\ hEmitted \in 0..MaxOutput /\ hRecorded \in 0..hEmitted
          BY <1>0 DEF HubTyped, H!TypeOK
        <5>2. hRecorded + 1 \in 1..(MaxOutput + 1) /\ n \in 0..MaxOutput
          BY <1>0, <5>1
        <5> QED
          BY <5>2, SpanIsMessage
      <4>2. H!Write(line)
        BY <3>1
      <4> HIDE DEF line
      <4>3. CASE Len(hRing) < HistoryCap
        BY <1>0, <3>0, <4>1, <4>2, <4>3, LineAppend DEF H!Write
      <4>4. CASE ~(Len(hRing) < HistoryCap)
        <5>1. hRing # <<>> /\ Len(hRing) = HistoryCap
          BY <1>0, <3>0, <4>4
        <5>2. Tail(hRing) \in Seq(H!Messages) /\ Len(Tail(hRing)) < HistoryCap
          BY <1>0, <3>0, <5>1
        <5>3. hRing' = Append(Tail(hRing), line)
          BY <4>2, <4>4 DEF H!Write
        <5> QED
          BY <1>0, <4>1, <5>2, <5>3, LineAppend
      <4> QED
        BY <4>3, <4>4
    <3> QED
      BY <2>4, <3>0, <3>1
  <2> QED
    BY <1>0, <2>1, <2>2, <2>3, <2>5 DEF H!TypeOK
<1>4. CASE H!runBroadcaster
  <2>1. /\ Head(hBroadcast) \in H!Messages /\ hBroadcast' \in Seq(H!Messages)
        /\ Len(hBroadcast') <= CastCap
    BY <1>0, <1>4, LineTail DEF H!runBroadcaster, H!TypeOK
  <2>2. ASSUME NEW c \in Conns
        PROVE  /\ hSend'[c] \in Seq(H!Messages) /\ Len(hSend'[c]) <= SendCap
               /\ hSettled'[c] \in SUBSET H!Output
    <3>1. /\ \/ hSend'[c] = hSend[c]
             \/ /\ Len(hSend[c]) < SendCap
                /\ hSend'[c] = Append(hSend[c], Head(hBroadcast))
          /\ \/ hSettled'[c] = hSettled[c]
             \/ hSettled'[c] = hSettled[c] \cup H!Text(Head(hBroadcast))
      BY <1>4 DEF H!runBroadcaster
    <3>2. /\ hSend[c] \in Seq(H!Messages) /\ Len(hSend[c]) <= SendCap
          /\ hSettled[c] \in SUBSET H!Output
      BY <1>0 DEF H!TypeOK
    <3>3. H!Text(Head(hBroadcast)) \subseteq H!Output
      BY <2>1, TextIsOutput
    <3> QED
      BY <1>0, <2>1, <3>1, <3>2, <3>3, LineAppend
  <2>3. hSettled' = [c \in Conns |-> hSettled'[c]]
    BY <1>4 DEF H!runBroadcaster
  <2>4. UNCHANGED <<hServing, hStopped, hClients, hPhase, hDone, hWriter,
                    hOpen, hCapturing, hEmitted, hEnds, hRecorded, hRing,
                    hSince, hReplay>>
    BY <1>4 DEF H!runBroadcaster, H!capture
  <2>5. hSettled' \in [Conns -> SUBSET H!Output]
    BY <2>2, <2>3
  <2> QED
    BY <1>0, <2>1, <2>2, <2>4, <2>5 DEF H!TypeOK
<1>5. ASSUME NEW c \in Conns, H!CloseDeviceConnections(c) \/ H!Upgrade(c)
                               \/ H!Register(c) \/ H!StartReading(c)
                               \/ H!EndReader(c) \/ H!EndWriter(c)
                               \/ H!HangUp(c)
      PROVE  H!TypeOK'
  BY <1>0, <1>5
  DEF H!CloseDeviceConnections, H!Upgrade, H!Register, H!StartReading,
      H!EndReader, H!EndWriter, H!HangUp, H!server, H!capture, H!TypeOK
<1>6. ASSUME NEW c \in Conns, H!Greet(c) \/ H!Respond(c)
      PROVE  H!TypeOK'
  <2>1. /\ hSend' = [hSend EXCEPT ![c] = Append(@, H!Control)]
        /\ Len(hSend[c]) < SendCap
    BY <1>6 DEF H!Greet, H!Respond
  <2>2. /\ Append(hSend[c], H!Control) \in Seq(H!Messages)
        /\ Len(Append(hSend[c], H!Control)) <= SendCap
    <3>1. 1 \in 1..(MaxOutput + 1) /\ 0 \in 0..MaxOutput
      BY <1>0
    <3>2. hSend[c] \in Seq(H!Messages) /\ H!Control \in H!Messages
      BY <1>0, <3>1, SpanIsMessage DEF H!TypeOK, H!Control
    <3> QED
      BY <1>0, <2>1, <3>2, LineAppend
  <2>3. \A d \in Conns : hSend'[d] \in Seq(H!Messages)
                         /\ Len(hSend'[d]) <= SendCap
    BY <1>0, <2>1, <2>2 DEF H!TypeOK, HubTyped
  <2> QED
    BY <1>0, <1>6, <2>3
    DEF H!Greet, H!Respond, H!server, H!capture, H!TypeOK
<1>7. ASSUME NEW c \in Conns, H!ReadHistory(c) PROVE H!TypeOK'
  <2> DEFINE start == H!HistoryStart
  <2>1. start \in 1..(MaxOutput + 1)
    <3>1. CASE hRing = <<>>
      BY <1>0, <3>1 DEF H!HistoryStart, HubTyped, H!TypeOK
    <3>2. CASE hRing # <<>>
      <4>1. Head(hRing) \in H!Messages
        BY <1>0, <3>2, LineTail DEF H!TypeOK
      <4> QED
        BY <3>2, <4>1 DEF H!HistoryStart, H!Messages
    <3> QED
      BY <3>1, <3>2
  <2>2. /\ hSince' = [hSince EXCEPT ![c] = [from |-> start,
                                          recorded |-> hRecorded,
                                          emitted |-> hEmitted]]
        /\ hReplay' = [hReplay EXCEPT ![c] = hRing]
        /\ hPhase' = [hPhase EXCEPT ![c] = "replaying"]
        /\ UNCHANGED <<hServing, hStopped, hClients, hBroadcast, hSend, hDone,
                       hWriter, hOpen, hCapturing, hEmitted, hEnds, hRecorded,
                       hRing, hSettled>>
    BY <1>7 DEF H!ReadHistory, H!server, H!capture
  <2> HIDE DEF start
  <2>3. hRecorded \in 0..MaxOutput /\ hEmitted \in 0..MaxOutput
    BY <1>0 DEF H!TypeOK
  <2>4. \A d \in Conns : hReplay'[d] \in Seq(H!Messages)
    BY <1>0, <2>2 DEF H!TypeOK, HubTyped
  <2>5. \A d \in Conns : /\ hSince'[d].from \in 1..(MaxOutput + 1)
                         /\ hSince'[d].recorded \in 0..MaxOutput
                         /\ hSince'[d].emitted \in 0..MaxOutput
    BY <1>0, <2>1, <2>2, <2>3 DEF H!TypeOK, HubTyped
  <2> QED
    BY <1>0, <2>2, <2>4, <2>5 DEF H!TypeOK
<1>8. ASSUME NEW c \in Conns, H!Replay(c) PROVE H!TypeOK'
  <2> DEFINE line == Head(hReplay[c])
  <2>1. line \in H!Messages /\ Tail(hReplay[c]) \in Seq(H!Messages)
    BY <1>0, <1>8, LineTail DEF H!Replay, H!TypeOK
  <2>2. /\ hReplay' = [hReplay EXCEPT ![c] = Tail(@)]
        /\ \/ /\ Len(hSend[c]) < SendCap
              /\ hSend' = [hSend EXCEPT ![c] = Append(@, line)]
              /\ UNCHANGED hSettled
           \/ /\ hSettled' = [hSettled EXCEPT ![c] = @ \cup H!Text(line)]
              /\ UNCHANGED hSend
    BY <1>8 DEF H!Replay
  <2>3. UNCHANGED <<hServing, hStopped, hClients, hBroadcast, hPhase, hDone,
                    hWriter, hOpen, hCapturing, hEmitted, hEnds, hRecorded,
                    hRing, hSince>>
    BY <1>8 DEF H!Replay, H!server, H!capture
  <2> HIDE DEF line
  <2>4. \A d \in Conns : hReplay'[d] \in Seq(H!Messages)
    BY <1>0, <2>1, <2>2 DEF H!TypeOK, HubTyped
  <2>5. \A d \in Conns : hSend'[d] \in Seq(H!Messages)
                         /\ Len(hSend'[d]) <= SendCap
    <3>1. CASE /\ Len(hSend[c]) < SendCap
               /\ hSend' = [hSend EXCEPT ![c] = Append(@, line)]
      <4>1. /\ Append(hSend[c], line) \in Seq(H!Messages)
            /\ Len(Append(hSend[c], line)) <= SendCap
        BY <1>0, <2>1, <3>1, LineAppend DEF H!TypeOK
      <4> QED
        BY <1>0, <3>1, <4>1 DEF H!TypeOK, HubTyped
    <3> QED
      BY <1>0, <2>2, <3>1 DEF H!TypeOK
  <2>6. hSettled' \in [Conns -> SUBSET H!Output]
    BY <1>0, <2>1, <2>2, TextIsOutput DEF H!TypeOK
  <2> QED
    BY <1>0, <2>3, <2>4, <2>5, <2>6 DEF H!TypeOK
<1>9. ASSUME NEW c \in Conns, H!WriteNext(c) PROVE H!TypeOK'
  <2>1. /\ Head(hSend[c]) \in H!Messages /\ Tail(hSend[c]) \in Seq(H!Messages)
        /\ Len(Tail(hSend[c])) <= SendCap
    BY <1>0, <1>9, LineTail DEF H!WriteNext, H!TypeOK
  <2>2. \A d \in Conns : hSend'[d] \in Seq(H!Messages)
                         /\ Len(hSend'[d]) <= SendCap
    BY <1>0, <1>9, <2>1 DEF H!WriteNext, H!TypeOK, HubTyped
  <2>3. hSettled' \in [Conns -> SUBSET H!Output]
    BY <1>0, <1>9, <2>1, TextIsOutput DEF H!WriteNext, H!TypeOK
  <2>4. UNCHANGED <<hServing, hStopped, hClients, hBroadcast, hPhase, hDone,
                    hWriter, hOpen, hCapturing, hEmitted, hEnds, hRecorded,
                    hRing, hSince, hReplay>>
    BY <1>9 DEF H!WriteNext, H!server, H!capture
  <2> QED
    BY <1>0, <2>2, <2>3, <2>4 DEF H!TypeOK
<1> QED
  BY <1>1, <1>2, <1>3, <1>4, <1>5, <1>6, <1>7, <1>8, <1>9
  DEF H!Next, H!Serve

-----------------------------------------------------------------------------
SessionsInv ==
  /\ Cardinality(sSessions) <= MaxSessions
  /\ sTmuxUp \in BOOLEAN /\ sShutdown \in BOOLEAN

LEMMA IdsAreFinite ==
  ASSUME NEW T \in SUBSET Ids PROVE IsFiniteSet(T) /\ Cardinality(T) \in Nat
BY LimitsAssumption, FS_Subset, FS_CardinalityType

\* The manager takes a session only below its limit.
Room == Cardinality(sSessions) <= MaxSessions

LEMMA FewerHaveRoom ==
  ASSUME SessionsInv, SessionsTyped, sSessions' \subseteq sSessions
  PROVE  Room'
<1>1. sSessions \in SUBSET Ids /\ sSessions' \in SUBSET sSessions
  BY DEF SessionsTyped
<1>2. IsFiniteSet(sSessions) /\ Cardinality(sSessions) \in Nat
  BY <1>1, IdsAreFinite
<1>3. Cardinality(sSessions') <= Cardinality(sSessions)
      /\ Cardinality(sSessions') \in Nat
  BY <1>1, <1>2, FS_Subset, FS_CardinalityType
<1> QED
  BY <1>2, <1>3, LimitsAssumption DEF SessionsInv, Room

LEMMA OneMoreHasRoom ==
  ASSUME SessionsTyped, NEW id \in Ids, ~S!Full,
         sSessions' = sSessions \cup {id}
  PROVE  Room'
<1>1. sSessions \in SUBSET Ids
  BY DEF SessionsTyped
<1>2. IsFiniteSet(sSessions) /\ Cardinality(sSessions) \in Nat
  BY <1>1, IdsAreFinite
<1>3. ~(Cardinality(sSessions) >= MaxSessions)
  BY CardinalityOfSessions DEF S!Full
<1>4. Cardinality(sSessions') <= Cardinality(sSessions) + 1
      /\ Cardinality(sSessions') \in Nat
  BY <1>2, FS_AddElement
<1> QED
  BY <1>2, <1>3, <1>4, LimitsAssumption DEF Room

LEMMA SessionsInvInit == S!Init => SessionsInv
<1> SUFFICES ASSUME S!Init PROVE SessionsInv
  OBVIOUS
<1>1. sSessions = {} /\ sTmuxUp \in BOOLEAN /\ sShutdown \in BOOLEAN
  BY DEF S!Init
<1>2. Cardinality({}) = 0 /\ 0 <= MaxSessions
  BY FS_EmptySet, LimitsAssumption
<1> QED
  BY <1>1, <1>2 DEF SessionsInv

LEMMA SessionsInvKept ==
  SessionsTyped /\ SessionsInv /\ [S!Next]_sVars => SessionsInv'
<1> SUFFICES ASSUME SessionsTyped, SessionsInv, [S!Next]_sVars
             PROVE  SessionsInv'
  OBVIOUS
<1>1. Room' /\ sTmuxUp' \in BOOLEAN /\ sShutdown' \in BOOLEAN => SessionsInv'
  BY DEF SessionsInv, Room
<1>2. sTmuxUp \in BOOLEAN /\ sShutdown \in BOOLEAN
  BY DEF SessionsInv
<1>3. ASSUME NEW id \in Ids, S!Open(id) \/ S!OpenTmux(id) PROVE SessionsInv'
  <2>1. UNCHANGED <<sTmuxUp, sShutdown>>
    BY <1>3
    DEF S!Open, S!Create, S!Start, S!Save, S!OpenTmux, S!Attach, S!Register
  <2>2. \/ sSessions' \subseteq sSessions
        \/ ~S!Full /\ sSessions' = sSessions \cup {id}
    BY <1>3
    DEF S!Open, S!Create, S!Start, S!Save, S!OpenTmux, S!Attach, S!Register
  <2> QED
    BY <1>1, <1>2, <2>1, <2>2, FewerHaveRoom, OneMoreHasRoom
<1>4. ASSUME NEW id \in Ids, S!Shut(id) \/ S!Exit(id) \/ S!Run(id)
      PROVE  SessionsInv'
  <2>1. /\ sSessions' \subseteq sSessions /\ sTmuxUp' \in BOOLEAN
        /\ UNCHANGED sShutdown
    BY <1>2, <1>4
    DEF S!Shut, S!Close, S!KillSession, S!Exit, S!Run, S!Stop, S!Done,
        S!waitForExit
  <2> QED
    BY <1>1, <1>2, <2>1, FewerHaveRoom
<1>5. CASE S!SaveHost \/ S!CompleteHost \/ S!EditHistory \/ S!CloseAll
           \/ UNCHANGED sVars
  <2>1. /\ sSessions' \subseteq sSessions /\ UNCHANGED sTmuxUp
        /\ sShutdown' \in BOOLEAN
    BY <1>2, <1>5
    DEF S!SaveHost, S!CompleteHost, S!EditHistory, S!CloseAll, sVars
  <2> QED
    BY <1>1, <1>2, <2>1, FewerHaveRoom
<1> QED
  BY <1>3, <1>4, <1>5 DEF S!Next

LEMMA SessionsInvGivesTypes ==
  SessionsTyped /\ RowsInv /\ SessionsInv => S!TypeOK
<1>1. /\ S!Cardinality(sRows) = Cardinality(sRows)
      /\ S!Cardinality(sSessions) = Cardinality(sSessions)
  BY CardinalityOfSessions
<1> QED
  BY <1>1, Zenon DEF S!TypeOK, SessionsTyped, RowsInv, SessionsInv

LEMMA DiscoveryTypes ==
  /\ D!Init => D!TypeOK
  /\ D!TypeOK /\ [D!Next]_dVars => D!TypeOK'
<1>0. /\ Window \in Nat /\ Timeout \in Nat /\ MaxTime \in Nat
      /\ Window < MaxTime
  BY LimitsAssumption
<1>1. D!Init => D!TypeOK
  <2> SUFFICES ASSUME D!Init PROVE D!TypeOK
    OBVIOUS
  <2>1. 0 \in D!Time /\ 0 \in 0..(MaxTime + Timeout) /\ Window + 1 \in D!Time
    BY <1>0 DEF D!Time
  <2>2. PICK old \in SUBSET Others :
          dFile = [f \in D!Files |-> [begun |-> 0, mtime |-> 0,
                                     whole |-> f \in old, made |-> f \in old]]
    BY DEF D!Init
  <2>3. dFile \in [D!Files -> [begun : D!Time, mtime : D!Time,
                              whole : BOOLEAN, made : BOOLEAN]]
    BY <2>1, <2>2
  <2> QED
    BY <2>1, <2>3 DEF D!Init, D!TypeOK, D!Outcomes
<1>2. D!TypeOK /\ [D!Next]_dVars => D!TypeOK'
  <2> SUFFICES ASSUME D!TypeOK, [D!Next]_dVars PROVE D!TypeOK'
    OBVIOUS
  <2>1. dNow + Timeout \in 0..(MaxTime + Timeout) /\ dNow \in D!Time
    BY <1>0 DEF D!TypeOK, D!Time
  <2>2. ASSUME NEW pre \in BOOLEAN
        PROVE  D!Watching(1, pre) \in [pre : BOOLEAN, outcome : D!Outcomes,
                                     deadline : 0..(MaxTime + Timeout)]
    BY <2>1 DEF D!Watching, D!Outcomes
  <2>3. ASSUME NEW s \in Agents, D!Launch(s) \/ D!SeedPrompt(s)
        PROVE  D!TypeOK'
    <3>1. \A pre : D!Watching(s, pre) = D!Watching(1, pre)
      BY DEF D!Watching
    <3> QED
      BY <2>1, <2>2, <2>3, <3>1 DEF D!Launch, D!SeedPrompt, D!TypeOK
  <2>4. ASSUME NEW s \in Agents, D!Scan(s) PROVE D!TypeOK'
    <3>1. PICK o \in D!Outcomes : dWatch' = [dWatch EXCEPT ![s].outcome = o]
      <4>1. D!Chosen(s) \subseteq D!Files
        BY DEF D!TypeOK, D!Chosen, D!Eligible, D!Candidates, D!Nearest,
               D!Foremost
      <4> QED
        BY <2>4, <4>1 DEF D!Scan, D!Bind, D!Downgrade, D!Outcomes
    <3> QED
      BY <2>4, <3>1 DEF D!Scan, D!TypeOK
  <2>5. ASSUME NEW f \in D!Files, D!Begin(f) \/ D!Write(f) PROVE D!TypeOK'
    <3> DEFINE Kept == [begun : D!Time, mtime : D!Time, whole : BOOLEAN,
                        made : BOOLEAN]
    <3>1. dFile \in [D!Files -> Kept]
      BY DEF D!TypeOK
    <3>2. PICK r \in Kept : dFile' = [dFile EXCEPT ![f] = r]
      <4>1. CASE D!Begin(f)
        BY <2>1, <4>1 DEF D!Begin
      <4>2. CASE D!Write(f)
        <5> DEFINE r == [dFile[f] EXCEPT !.mtime = dNow, !.whole = TRUE]
        <5>1. dFile' = [dFile EXCEPT ![f].mtime = dNow, ![f].whole = TRUE]
          BY <4>2 DEF D!Write
        <5>2. dFile' = [dFile EXCEPT ![f] = r]
          BY <3>1, <5>1
        <5>3. r \in Kept
          BY <2>1, <3>1
        <5> QED
          BY <5>2, <5>3
      <4> QED
        BY <2>5, <4>1, <4>2
    <3>3. dFile' \in [D!Files -> Kept]
      BY <3>1, <3>2
    <3> QED
      BY <2>5, <3>3 DEF D!Begin, D!Write, D!TypeOK
  <2>6. CASE D!Tick
    BY <1>0, <2>6 DEF D!Tick, D!TypeOK, D!Time
  <2>7. CASE UNCHANGED dVars
    BY <2>7 DEF dVars, D!TypeOK
  <2> QED
    BY <2>3, <2>4, <2>5, <2>6, <2>7 DEF D!Next
<1> QED
  BY <1>1, <1>2

LEMMA GateAndDiscoveryParts ==
  /\ HostInit => Init /\ D!Init
  /\ [HostNext]_hostVars => [Next]_vars /\ [D!Next]_dVars
BY DEF HostInit, HostNext, GateStep, HubStep, SessionsStep, DiscoveryStep,
       hostVars, dVars

\* Every variable of every part keeps its type; among others no buffer of the
\* hub holds more than fits, the manager holds at most its limit of sessions
\* and the store at most its limit of rows.
THEOREM TypesOfSessions == HostSpec => []PartTypesOK
<1>1. HostSpec => []TypeOK
  BY GateAndDiscoveryParts, TypeInvariant, PTL DEF HostSpec, Spec
<1>2. HostSpec => []D!TypeOK
  BY GateAndDiscoveryParts, DiscoveryTypes, PTL DEF HostSpec
<1>3. HostSpec => []H!TypeOK
  <2>1. HostSpec => [](HubTyped /\ HubInv)
    BY HubParts, HubInit, HubTrack, PTL DEF HostSpec
  <2>2. HubTyped /\ HubInv /\ H!TypeOK /\ HubTyped' /\ [H!Next]_hVars
          => H!TypeOK'
    BY HubTypesKept DEF HubTypes
  <2> QED
    BY <2>1, <2>2, HubParts, HubTypesInit, PTL DEF HostSpec
<1>4. HostSpec => []S!TypeOK
  <2>1. HostSpec => [](SessionsTyped /\ TrackInv)
    BY SessionsParts, SessionsInit, SessionsTrack, PTL DEF HostSpec
  <2>2. SessionsTyped /\ RowsInv /\ [S!Next]_sVars => RowsInv' /\ DropsOldest
    BY RowsTrack
  <2>3. HostSpec => []RowsInv
    BY <2>1, <2>2, SessionsParts, RowsInit, PTL DEF HostSpec
  <2>5. HostSpec => []SessionsInv
    BY <2>1, SessionsParts, SessionsInvInit, SessionsInvKept, PTL DEF HostSpec
  <2> QED
    BY <2>1, <2>3, <2>5, SessionsInvGivesTypes, PTL
<1>5. TypeOK /\ D!TypeOK /\ H!TypeOK /\ S!TypeOK => PartTypesOK
  BY DEF PartTypesOK
<1> QED
  BY <1>1, <1>2, <1>3, <1>4, <1>5, PTL
=============================================================================
