--------------------------- MODULE PipelinesProofs ---------------------------
(***************************************************************************)
(* For any connections and devices, and however many pipelines, watchers   *)
(* and readers: the state keeps its types, prompts overlap only when a     *)
(* record was removed by another end, and a reader that Stop could know of *)
(* is quiet once Stop has returned.                                        *)
(***************************************************************************)
EXTENDS Pipelines, TLAPS

\* The other threads are no connections, and no connection is None.
ThreadsAreApart ==
  None \notin Conns /\ "output" \notin Conns /\ "closer" \notin Conns

-----------------------------------------------------------------------------
(* The invariant: types and references.                                    *)

PipeType == [stopped : BOOLEAN, prompted : BOOLEAN, ended : BOOLEAN,
             watcher : Nat, reader : Nat]
WatcherType == [pipe : Nat, pre : BOOLEAN, halt : BOOLEAN, reader : Nat,
                at : {"new", "polls", "bound", "set", "done"}]
ReaderType == [pipe : Nat, gen : BOOLEAN, halt : BOOLEAN,
               at : {"new", "polls", "merges", "done"}]
ThreadType == [at : Steps, pipe : Nat, watcher : Nat, reader : Nat,
               undo : BOOLEAN, request : Requests \cup {None}]

Typed ==
  /\ flagged \in BOOLEAN /\ open \in BOOLEAN /\ structured \in BOOLEAN
  /\ prompt \in Prompts
  /\ pipes \in Seq(PipeType) /\ watchers \in Seq(WatcherType)
  /\ readers \in Seq(ReaderType) /\ thread \in [Threads -> ThreadType]
  /\ cleared \subseteq Conns /\ overlapped \in BOOLEAN

\* What the parts refer to exists; 0 refers to none.
Some(s) == DOMAIN s \cup {0}

EntryRefers == entry \in Some(pipes) /\ late \subseteq DOMAIN readers
PipesRefer == \A p \in DOMAIN pipes : /\ pipes[p].watcher \in Some(watchers)
                                      /\ pipes[p].reader \in Some(readers)
WatchersRefer ==
  \A w \in DOMAIN watchers : /\ watchers[w].pipe \in DOMAIN pipes
                             /\ watchers[w].reader \in Some(readers)
ReadersRefer == \A r \in DOMAIN readers : readers[r].pipe \in DOMAIN pipes
ThreadsRefer ==
  \A t \in Threads : /\ thread[t].pipe \in Some(pipes)
                     /\ thread[t].watcher \in Some(watchers)
                     /\ thread[t].reader \in Some(readers)

InRange == /\ EntryRefers /\ PipesRefer /\ WatchersRefer
           /\ ReadersRefer /\ ThreadsRefer

Halting == {"halt reader", "await reader", "halt watcher", "await watcher"}
Holding == {"insert", "seed", "await old", "watch", "start", "stop"} \cup
           Halting

\* A thread between these steps has its pipeline, one that is to start a
\* watcher has that, and one that halts a pipeline has stopped it.
HoldersHold ==
  \A t \in Threads : /\ thread[t].at \in Holding => thread[t].pipe # 0
                     /\ thread[t].at = "start" => thread[t].watcher # 0
HaltersStopped ==
  \A t \in Threads : thread[t].at \in Halting => Pipe(t).stopped
EndedAreStopped == \A p \in DOMAIN pipes : pipes[p].ended => pipes[p].stopped

\* A bound watcher has a reader of its own pipeline.
BoundHaveReaders ==
  \A w \in DOMAIN watchers :
    watchers[w].at \in {"bound", "set"} =>
      /\ watchers[w].reader # 0
      /\ readers[watchers[w].reader].pipe = watchers[w].pipe

Placed == HoldersHold /\ HaltersStopped /\ EndedAreStopped /\ BoundHaveReaders

\* A prompt in flight has the record, or its record was removed.
Recorded == \A c \in Conns : InFlight(c) => prompt.owner = c \/ c \in cleared

Base == Typed /\ InRange /\ Placed /\ Recorded

-----------------------------------------------------------------------------
(* The invariant: while prompts come one at a time.                        *)

OneHandler == \A c, d \in Conns : InFlight(c) /\ InFlight(d) => c = d

\* A pipeline knows its watcher, or a prompt waits for the end of it and the
\* pipeline knows none: it has one at a time.
Awaits(c, w) == /\ At(c, "await old") /\ thread[c].watcher = w
                /\ thread[c].pipe = watchers[w].pipe
WatcherIsKnown ==
  \A w \in DOMAIN watchers :
    watchers[w].at # "done" =>
      pipes[watchers[w].pipe].watcher = w \/ \E c \in Conns : Awaits(c, w)
AwaitedIsForgotten ==
  \A c \in Conns : At(c, "await old") => Pipe(c).watcher = 0

\* A watcher that does not run yet is about to be started.
NewAreStarted ==
  \A w \in DOMAIN watchers :
    watchers[w].at = "new" =>
      \E c \in Conns : At(c, "start") /\ thread[c].watcher = w
StartedAreNew ==
  \A c \in Conns : At(c, "start") => watchers[thread[c].watcher].at = "new"

\* A pipeline has no reader before its watcher sets it, and it knows the
\* reader that runs.
ReaderIsSet ==
  \A w \in DOMAIN watchers :
    LET p == watchers[w].pipe IN
    /\ watchers[w].at \in {"new", "polls", "bound"} => pipes[p].reader = 0
    /\ watchers[w].at = "set" => pipes[p].reader = watchers[w].reader
ReaderIsKnown ==
  \A r \in DOMAIN readers :
    readers[r].at \in {"polls", "merges"} =>
      pipes[readers[r].pipe].reader = r

\* Stop waits for a reader that merges since before the generation moved.
Allowed(r) == readers[r].gen /\ ~flagged
Merges(r) == /\ readers[r].at = "merges" /\ ~Allowed(r)
             /\ pipes[readers[r].pipe].stopped
Waits(t, r) ==
  /\ thread[t].at \notin {"halt watcher", "await watcher"}
  /\ thread[t].at \in {"halt reader", "await reader"} =>
       thread[t].reader = r
StopWaits ==
  \A r \in DOMAIN readers :
    Merges(r) =>
      /\ ~pipes[readers[r].pipe].ended
      /\ \A t \in Threads : thread[t].pipe = readers[r].pipe => Waits(t, r)
LateAreAllowed == \A r \in late : Allowed(r)

Alone ==
  /\ OneHandler /\ WatcherIsKnown /\ AwaitedIsForgotten
  /\ NewAreStarted /\ StartedAreNew /\ ReaderIsSet /\ ReaderIsKnown
  /\ StopWaits /\ LateAreAllowed

PipelinesInv == Base /\ (overlapped \/ Alone)

-----------------------------------------------------------------------------
(* Sequences and references.                                               *)

\* A sequence of which one element changes, or which gets one more.
LEMMA OneChanges ==
  ASSUME NEW S, NEW s \in Seq(S), NEW i \in DOMAIN s, NEW x \in S
  PROVE  LET n == [s EXCEPT ![i] = x] IN
         /\ n \in Seq(S) /\ DOMAIN n = DOMAIN s
         /\ n[i] = x /\ \A j \in DOMAIN s : j # i => n[j] = s[j]
OBVIOUS

LEMMA OneMore ==
  ASSUME NEW S, NEW s \in Seq(S), NEW x \in S
  PROVE  LET n == Append(s, x) IN
         /\ n \in Seq(S) /\ DOMAIN n = DOMAIN s \cup {Len(s) + 1}
         /\ Len(s) + 1 \notin DOMAIN s /\ Len(s) + 1 # 0
         /\ n[Len(s) + 1] = x /\ \A j \in DOMAIN s : n[j] = s[j]
OBVIOUS

LEMMA Typing ==
  ASSUME Base
  PROVE  /\ 0 \notin DOMAIN pipes /\ 0 \notin DOMAIN watchers
         /\ 0 \notin DOMAIN readers
         /\ \A p \in DOMAIN pipes : pipes[p] \in PipeType
         /\ \A w \in DOMAIN watchers : watchers[w] \in WatcherType
         /\ \A r \in DOMAIN readers : readers[r] \in ReaderType
         /\ \A t \in Threads : thread[t] \in ThreadType
BY DEF Base, Typed

\* A thread that holds a pipeline.
LEMMA Holds ==
  ASSUME Base, NEW t \in Threads, thread[t].at \in Holding
  PROVE  /\ thread[t] \in ThreadType /\ thread[t].pipe \in DOMAIN pipes
         /\ Pipe(t) \in PipeType
<1>1. thread[t].pipe # 0 /\ thread[t].pipe \in Some(pipes)
  BY DEF Base, InRange, ThreadsRefer, Placed, HoldersHold
<1>2. thread[t].pipe \in DOMAIN pipes
  BY <1>1 DEF Some
<1> QED
  BY <1>1, <1>2, Typing DEF Pipe

\* While prompts come one at a time a pipeline has one watcher at a time.
LEMMA OneWatcher ==
  ASSUME Base, Alone, NEW v \in DOMAIN watchers, NEW w \in DOMAIN watchers,
         watchers[v].at # "done", watchers[w].at # "done",
         watchers[v].pipe = watchers[w].pipe
  PROVE  v = w
<1>1. v # 0 /\ w # 0
  BY Typing
<1>2. ASSUME NEW c \in Conns, Awaits(c, v)
      PROVE  v = w
  <2>1. pipes[watchers[w].pipe].watcher # w
    BY <1>1, <1>2 DEF Alone, AwaitedIsForgotten, Awaits, Pipe
  <2>2. PICK d \in Conns : Awaits(d, w)
    BY <2>1 DEF Alone, WatcherIsKnown
  <2>3. c = d
    BY <1>2, <2>2 DEF Alone, OneHandler, InFlight, Awaits, At
  <2> QED
    BY <1>2, <2>2, <2>3 DEF Awaits
<1>3. ASSUME NEW c \in Conns, Awaits(c, w)
      PROVE  v = w
  <2>1. pipes[watchers[v].pipe].watcher # v
    BY <1>1, <1>3 DEF Alone, AwaitedIsForgotten, Awaits, Pipe
  <2>2. PICK d \in Conns : Awaits(d, v)
    BY <2>1 DEF Alone, WatcherIsKnown
  <2> QED
    BY <1>2, <2>2
<1> QED
  BY <1>2, <1>3 DEF Alone, WatcherIsKnown

-----------------------------------------------------------------------------
(* Steps of a thread that leave the pipelines, watchers and readers alone. *)

Moves(t) == /\ thread' \in [Threads -> ThreadType]
            /\ \A u \in Threads : u # t => thread'[u] = thread[u]

\* What the thread holds afterwards, and what it does not do.
Arrives(t) ==
  /\ thread'[t].pipe \in Some(pipes)
  /\ thread'[t].watcher \in Some(watchers)
  /\ thread'[t].reader \in Some(readers)
  /\ thread'[t].at \in Holding => thread'[t].pipe # 0
  /\ thread[t].at # "start" /\ thread'[t].at \notin {"start", "await old"}
  /\ thread[t].at = "await old" =>
       thread[t].watcher = 0 \/ watchers[thread[t].watcher].at = "done"

SessionTyped ==
  /\ flagged' = flagged /\ late' = late
  /\ open' \in BOOLEAN /\ structured' \in BOOLEAN
  /\ prompt' \in Prompts /\ cleared' \subseteq Conns
  /\ overlapped' \in BOOLEAN /\ entry' \in Some(pipes)

LEMMA MoveKeeps ==
  ASSUME PipelinesInv, NEW t \in Threads, Moves(t), Arrives(t),
         thread'[t].at \notin Halting, SessionTyped, UNCHANGED objects,
         Recorded', ~overlapped' => ~overlapped /\ OneHandler'
  PROVE  PipelinesInv'
<1>1. /\ Base /\ pipes' = pipes /\ watchers' = watchers
      /\ readers' = readers
  BY DEF PipelinesInv, objects
<1>2. Typed'
  BY <1>1 DEF Base, Typed, SessionTyped, Moves
<1>3. InRange'
  <2>1. EntryRefers'
    BY <1>1 DEF Base, InRange, EntryRefers, SessionTyped, Some
  <2>2. ThreadsRefer'
    BY <1>1 DEF Base, InRange, ThreadsRefer, Moves, Arrives, Some
  <2> QED
    BY <1>1, <2>1, <2>2 DEF Base, InRange, PipesRefer, WatchersRefer,
                            ReadersRefer, Some
<1>4. Placed'
  <2>1. HoldersHold'
    BY <1>1 DEF Base, Placed, HoldersHold, Moves, Arrives
  <2>2. HaltersStopped'
    BY <1>1 DEF Base, Placed, HaltersStopped, Moves, Pipe
  <2> QED
    BY <1>1, <2>1, <2>2 DEF Base, Placed, EndedAreStopped, BoundHaveReaders
<1>5. ASSUME Alone, OneHandler' PROVE Alone'
  <2>1. WatcherIsKnown'
    <3>1. ASSUME NEW w \in DOMAIN watchers, watchers[w].at # "done",
                 NEW c \in Conns, Awaits(c, w)
          PROVE  Awaits(c, w)'
      <4>1. c # t
        BY <3>1, Typing, <1>1 DEF Awaits, Arrives, At
      <4> QED
        BY <1>1, <3>1, <4>1 DEF Awaits, Moves, At, Threads
    <3> QED
      BY <1>1, <1>5, <3>1 DEF Alone, WatcherIsKnown
  <2>2. AwaitedIsForgotten'
    BY <1>1, <1>5 DEF Alone, AwaitedIsForgotten, Moves, Arrives, At, Pipe,
                      Threads
  <2>3. NewAreStarted'
    <3>1. ASSUME NEW w \in DOMAIN watchers, watchers[w].at = "new"
          PROVE  \E c \in Conns : At(c, "start")' /\ thread'[c].watcher = w
      <4>1. PICK c \in Conns : At(c, "start") /\ thread[c].watcher = w
        BY <1>5, <3>1 DEF Alone, NewAreStarted
      <4>2. c \in Threads /\ c # t
        BY <4>1 DEF Arrives, At, Threads
      <4> QED
        BY <4>1, <4>2 DEF Moves, At
    <3> QED
      BY <1>1, <3>1 DEF NewAreStarted
  <2>4. StartedAreNew'
    BY <1>1, <1>5 DEF Alone, StartedAreNew, Moves, Arrives, At, Threads
  <2>5. ReaderIsSet' /\ ReaderIsKnown'
    BY <1>1, <1>5 DEF Alone, ReaderIsSet, ReaderIsKnown
  <2>6. StopWaits'
    <3>1. \A r : Merges(r)' = Merges(r)
      BY <1>1 DEF Merges, Allowed, SessionTyped
    <3>2. \A r : Waits(t, r)'
      BY DEF Waits, Halting
    <3>3. \A r : \A u \in Threads : u # t => Waits(u, r)' = Waits(u, r)
      BY DEF Waits, Moves
    <3> QED
      BY <1>1, <1>5, <3>1, <3>2, <3>3 DEF Alone, StopWaits, Moves
  <2>7. LateAreAllowed'
    BY <1>1, <1>5 DEF Alone, LateAreAllowed, Allowed, SessionTyped
  <2> QED
    BY <1>5, <2>1, <2>2, <2>3, <2>4, <2>5, <2>6, <2>7 DEF Alone
<1>6. overlapped' \/ Alone'
  BY <1>5 DEF PipelinesInv, SessionTyped
<1> QED
  BY <1>2, <1>3, <1>4, <1>6 DEF PipelinesInv, Base

\* The handlers in flight stay the same.
LEMMA SameHandlers ==
  ASSUME PipelinesInv, NEW t \in Threads, Moves(t),
         UNCHANGED <<prompt, cleared, overlapped>>, t \in Conns => InFlight(t)
  PROVE  Recorded' /\ (~overlapped' => ~overlapped /\ OneHandler')
<1>1. \A c \in Conns : InFlight(c)' => InFlight(c)
  BY DEF Moves, InFlight, Threads
<1> QED
  BY <1>1 DEF PipelinesInv, Base, Recorded, Alone, OneHandler

LEMMA RestIs ==
  /\ Rest \in ThreadType /\ Rest.at = "idle" /\ Rest.pipe = 0
  /\ Rest.watcher = 0 /\ Rest.reader = 0
BY DEF Rest, ThreadType, Steps

LEMMA ReturnIs ==
  ASSUME Base, NEW t \in Threads, Return(t)
  PROVE  /\ Moves(t) /\ thread'[t].pipe = 0 /\ thread'[t].watcher = 0
         /\ thread'[t].reader = 0 /\ thread'[t].at \in {"idle", "over", "get"}
<1> DEFINE at == IF t = "output" THEN "idle"
                 ELSE IF t = "closer" THEN "over" ELSE "get"
           y == [Rest EXCEPT !.at = at, !.request = thread[t].request]
<1>1. at \in {"idle", "over", "get"} /\ at \in Steps
  BY DEF Steps
<1>2. thread' = [thread EXCEPT ![t] = y]
  BY DEF Return
<1> HIDE DEF at
<1>3. /\ y \in ThreadType /\ y.at = at /\ y.pipe = 0 /\ y.watcher = 0
      /\ y.reader = 0
  <2>1. thread[t].request \in Requests \cup {None}
    BY Typing DEF ThreadType
  <2> QED
    BY <1>1, <2>1, RestIs DEF ThreadType
<1> HIDE DEF y
<1> QED
  BY <1>1, <1>2, <1>3 DEF Base, Typed, Moves

\* A record has an owner.
LEMMA PromptIs ==
  /\ NoPrompt \in Prompts /\ NoPrompt.owner = None
  /\ \A r \in Prompts : r # NoPrompt => r.owner \in Conns
  /\ \A r \in Prompts : r.owner \in Conns \cup {None}
BY DEF NoPrompt, Prompts

\* The end of a handler; the prompt whose record it removes is accounted for.
LEMMA EndIs ==
  ASSUME ThreadsAreApart, PipelinesInv, NEW c \in Conns, End(c),
         UNCHANGED overlapped
  PROVE  /\ Moves(c) /\ thread'[c] = Rest
         /\ prompt' \in Prompts /\ cleared' \subseteq Conns
         /\ Recorded' /\ (~overlapped' => ~overlapped /\ OneHandler')
<1>1. c \in Threads /\ Base
  BY DEF PipelinesInv, Threads
<1>2. Moves(c) /\ thread'[c] = Rest
  BY <1>1, RestIs DEF Base, Typed, Moves, End
<1>3. ~InFlight(c)' /\ \A d \in Conns : InFlight(d)' => InFlight(d) /\ d # c
  BY <1>2, RestIs DEF Moves, InFlight, Threads
<1>4. Recorded'
  BY <1>1, <1>3, PromptIs DEF Base, Typed, Recorded, End, ThreadsAreApart
<1>5. prompt' \in Prompts /\ cleared' \subseteq Conns
  BY <1>1, PromptIs DEF Base, Typed, End
<1> QED
  BY <1>2, <1>3, <1>4, <1>5 DEF PipelinesInv, Alone, OneHandler

\* Steps that go on, with the prompts as they are.
LEMMA GoOnKeeps ==
  ASSUME PipelinesInv, NEW t \in Threads, Moves(t), Arrives(t),
         thread'[t].at \notin Halting, t \in Conns => InFlight(t),
         UNCHANGED <<flagged, open, objects, prompt, ghosts>>,
         structured' \in BOOLEAN, entry' \in Some(pipes)
  PROVE  PipelinesInv'
<1>1. SessionTyped
  BY DEF SessionTyped, PipelinesInv, Base, Typed, ghosts
<1>2. Recorded' /\ (~overlapped' => ~overlapped /\ OneHandler')
  BY SameHandlers DEF ghosts
<1> QED
  BY <1>1, <1>2, MoveKeeps

LEMMA EntryIs ==
  ASSUME PipelinesInv
  PROVE  /\ entry \in Some(pipes) /\ 0 \in Some(pipes)
         /\ structured \in BOOLEAN
         /\ 0 \in Some(watchers) /\ 0 \in Some(readers)
         /\ \A t \in Threads : /\ thread[t] \in ThreadType
                               /\ thread[t].pipe \in Some(pipes)
                               /\ thread[t].watcher \in Some(watchers)
                               /\ thread[t].reader \in Some(readers)
BY Typing DEF PipelinesInv, Base, Typed, InRange, EntryRefers, ThreadsRefer,
              Some

LEMMA ObserveKeeps ==
  ASSUME ThreadsAreApart, PipelinesInv, Observe
  PROVE  PipelinesInv'
<1>1. /\ "output" \in Threads /\ "output" \notin Conns
      /\ thread' = [thread EXCEPT !["output"].at = "ensure"]
      /\ thread["output"].at = "idle"
  BY DEF ThreadsAreApart, Threads, Observe, GoTo, At
<1>2. /\ Moves("output") /\ thread'["output"].at = "ensure"
      /\ thread'["output"].pipe = thread["output"].pipe
      /\ thread'["output"].watcher = thread["output"].watcher
      /\ thread'["output"].reader = thread["output"].reader
  BY <1>1, ZenonT(30) DEF PipelinesInv, Base, Typed, Moves, ThreadType, Steps
<1>3. Arrives("output") /\ thread'["output"].at \notin Halting
  BY <1>1, <1>2, EntryIs DEF Arrives, Holding, Halting
<1> QED
  BY <1>1, <1>2, <1>3, EntryIs, GoOnKeeps DEF Observe, session, ghosts

LEMMA EnsuredKeeps ==
  ASSUME PipelinesInv, NEW t \in {"output"} \cup Conns, At(t, "ensure"),
         Return(t), UNCHANGED <<session, entry, prompt, objects, ghosts>>
  PROVE  PipelinesInv'
<1>1. t \in Threads /\ thread[t].at = "ensure" /\ Base
  BY DEF Threads, At, PipelinesInv
<1>2. Moves(t) /\ Arrives(t) /\ thread'[t].at \notin Halting
  BY <1>1, ReturnIs, EntryIs DEF Arrives, Halting, Holding
<1>3. t \in Conns => InFlight(t)
  BY <1>1 DEF InFlight
<1> QED
  BY <1>1, <1>2, <1>3, EntryIs, GoOnKeeps DEF session, ghosts

LEMMA InsertKeeps ==
  ASSUME PipelinesInv, NEW t \in {"output"} \cup Conns, Insert(t)
  PROVE  PipelinesInv'
<1>1. t \in Threads /\ thread[t].at = "insert" /\ Base
  BY DEF Threads, At, PipelinesInv, Insert
<1>2. thread[t].pipe \in DOMAIN pipes
  BY <1>1, Holds DEF Holding
<1>3. CASE entry # 0
  <2>1. thread' = [thread EXCEPT ![t].at = "stop"] /\ entry' = entry
    BY <1>3 DEF Insert, GoTo
  <2>2. /\ Moves(t) /\ thread'[t].at = "stop"
        /\ thread'[t].pipe = thread[t].pipe
        /\ thread'[t].watcher = thread[t].watcher
        /\ thread'[t].reader = thread[t].reader
    BY <1>1, <2>1 DEF Base, Typed, Moves, ThreadType, Steps
  <2>3. Moves(t) /\ Arrives(t) /\ thread'[t].at \notin Halting
    BY <1>1, <1>2, <2>2, EntryIs, Typing DEF Arrives, Halting, Holding
  <2> QED
    BY <1>1, <2>1, <2>3, EntryIs, GoOnKeeps
       DEF Insert, InFlight, session, ghosts
<1>4. CASE entry = 0
  <2>1. Return(t) /\ entry' = thread[t].pipe
    BY <1>4 DEF Insert
  <2>2. Moves(t) /\ Arrives(t) /\ thread'[t].at \notin Halting
    BY <1>1, <2>1, ReturnIs, EntryIs DEF Arrives, Halting, Holding
  <2> QED
    BY <1>1, <2>1, <2>2, EntryIs, GoOnKeeps
       DEF Insert, InFlight, session, ghosts
<1> QED
  BY <1>3, <1>4

LEMMA EntryIsNat == PipelinesInv => entry \in Nat
BY EntryIs DEF Some, PipelinesInv, Base, Typed

\* The end of a session or of a connection removes the record of a prompt.
LEMMA CloseKeeps ==
  ASSUME ThreadsAreApart, PipelinesInv, Close
  PROVE  PipelinesInv'
<1>1. /\ "closer" \in Threads /\ "closer" \notin Conns
      /\ thread' = [thread EXCEPT !["closer"].at = "take"]
      /\ thread["closer"].at = "idle"
  BY DEF ThreadsAreApart, Threads, Close, GoTo, At
<1>2. /\ Moves("closer") /\ thread'["closer"].at = "take"
      /\ thread'["closer"].pipe = thread["closer"].pipe
      /\ thread'["closer"].watcher = thread["closer"].watcher
      /\ thread'["closer"].reader = thread["closer"].reader
  BY <1>1, ZenonT(30) DEF PipelinesInv, Base, Typed, Moves, ThreadType, Steps
<1>3. Arrives("closer") /\ thread'["closer"].at \notin Halting
  BY <1>1, <1>2, EntryIs DEF Arrives, Holding, Halting
<1>4. SessionTyped
  BY EntryIs, PromptIs DEF Close, PipelinesInv, Base, Typed, SessionTyped
<1>5. \A c \in Conns : InFlight(c)' = InFlight(c)
  BY <1>1, <1>2 DEF Moves, InFlight, Threads
<1>6. Recorded'
  BY <1>5 DEF PipelinesInv, Base, Recorded, Close, ThreadsAreApart
<1>7. ~overlapped' => ~overlapped /\ OneHandler'
  BY <1>5 DEF PipelinesInv, Alone, OneHandler, Close
<1> QED
  BY <1>1, <1>2, <1>3, <1>4, <1>6, <1>7, MoveKeeps DEF Close

LEMMA TakeKeeps ==
  ASSUME ThreadsAreApart, PipelinesInv, Take
  PROVE  PipelinesInv'
<1> DEFINE at == IF entry = 0 THEN "over" ELSE "stop"
<1>1. /\ "closer" \in Threads /\ "closer" \notin Conns
      /\ thread' = [thread EXCEPT !["closer"].at = at,
                                  !["closer"].pipe = entry]
      /\ thread["closer"].at = "take" /\ entry' = 0
      /\ entry \in Nat /\ at \in Steps
  <2>1. entry \in Nat
    BY EntryIsNat
  <2> QED
    BY <2>1 DEF ThreadsAreApart, Threads, Take, At, Steps
<1>2. /\ Moves("closer") /\ thread'["closer"].at = at
      /\ thread'["closer"].pipe = entry
      /\ thread'["closer"].watcher = thread["closer"].watcher
      /\ thread'["closer"].reader = thread["closer"].reader
  BY <1>1, ZenonT(30) DEF PipelinesInv, Base, Typed, Moves, ThreadType
<1>3. /\ at \in {"over", "stop"} /\ (at = "stop" => entry # 0)
      /\ entry \in Some(pipes)
  BY EntryIs
<1> HIDE DEF at
<1>4. Arrives("closer") /\ thread'["closer"].at \notin Halting
  BY <1>1, <1>2, <1>3, EntryIs DEF Arrives, Holding, Halting
<1> QED
  BY <1>1, <1>2, <1>4, EntryIs, GoOnKeeps DEF Take, session, ghosts

LEMMA DisconnectKeeps ==
  ASSUME PipelinesInv, NEW c \in Conns, Disconnect(c)
  PROVE  PipelinesInv'
<1>1. c \in Threads /\ thread[c].at = "idle" /\ thread' = thread
  BY DEF Threads, At, Disconnect
<1>2. Moves(c)
  BY <1>1 DEF PipelinesInv, Base, Typed, Moves
<1>3. Arrives(c) /\ thread'[c].at \notin Halting
  BY <1>1, EntryIs DEF Arrives, Holding, Halting
<1>4. SessionTyped
  BY EntryIs, PromptIs
     DEF Disconnect, PipelinesInv, Base, Typed, SessionTyped, session
<1>5. \A d \in Conns : InFlight(d)' = InFlight(d)
  BY <1>1 DEF InFlight
<1>6. Recorded'
  BY <1>5 DEF PipelinesInv, Base, Recorded, Disconnect
<1>7. ~overlapped' => ~overlapped /\ OneHandler'
  BY <1>5 DEF PipelinesInv, Alone, OneHandler, Disconnect
<1> QED
  BY <1>1, <1>2, <1>3, <1>4, <1>6, <1>7, MoveKeeps DEF Disconnect

LEMMA BeginKeeps ==
  ASSUME ThreadsAreApart, PipelinesInv, NEW c \in Conns,
         NEW id \in Requests, BeginSessionPrompt(c, id)
  PROVE  PipelinesInv'
<1>1. /\ c \in Threads /\ thread[c].at = "idle" /\ prompt = NoPrompt
      /\ thread' = [thread EXCEPT ![c].at = "ensure", ![c].request = id]
      /\ prompt' = [owner |-> c, request |-> id] /\ prompt.owner = None
      /\ overlapped' = (overlapped \/ Others(c) # {}) /\ cleared' = cleared
  BY DEF Threads, At, BeginSessionPrompt, NoPrompt
<1>2. /\ Moves(c) /\ thread'[c].at = "ensure"
      /\ thread'[c].pipe = thread[c].pipe
      /\ thread'[c].watcher = thread[c].watcher
      /\ thread'[c].reader = thread[c].reader
  <2> DEFINE y == [thread[c] EXCEPT !.at = "ensure", !.request = id]
  <2>1. /\ thread[c] \in ThreadType /\ thread \in [Threads -> ThreadType]
        /\ thread' = [thread EXCEPT ![c] = y]
    BY <1>1, Typing DEF PipelinesInv, Base, Typed
  <2>2. /\ y \in ThreadType /\ y.at = "ensure" /\ y.pipe = thread[c].pipe
        /\ y.watcher = thread[c].watcher /\ y.reader = thread[c].reader
    BY <2>1 DEF ThreadType, Steps
  <2> QED
    BY <1>1, <2>1, <2>2 DEF Moves
<1>3. Arrives(c) /\ thread'[c].at \notin Halting
  BY <1>1, <1>2, EntryIs DEF Arrives, Holding, Halting
<1>4. SessionTyped
  BY <1>1, EntryIs DEF BeginSessionPrompt, PipelinesInv, Base, Typed,
                       SessionTyped, session, Prompts
<1>5. \A d \in Conns : d # c => InFlight(d)' = InFlight(d)
  BY <1>2 DEF Moves, InFlight, Threads
<1>6. Recorded'
  BY <1>1, <1>5 DEF PipelinesInv, Base, Recorded, ThreadsAreApart
<1>7. ~overlapped' => ~overlapped /\ OneHandler'
  BY <1>1, <1>5 DEF PipelinesInv, Base, Typed, OneHandler, Others
<1> QED
  BY <1>1, <1>2, <1>3, <1>4, <1>6, <1>7, MoveKeeps DEF BeginSessionPrompt

\* The end of a handler, and its last step.
LEMMA EndKeeps ==
  ASSUME ThreadsAreApart, PipelinesInv, NEW c \in Conns, End(c),
         thread[c].at \notin {"start", "await old"},
         UNCHANGED <<session, entry, objects, overlapped, late>>
  PROVE  PipelinesInv'
<1>1. c \in Threads
  BY DEF Threads
<1>2. /\ Moves(c) /\ thread'[c] = Rest
      /\ prompt' \in Prompts /\ cleared' \subseteq Conns
      /\ Recorded' /\ (~overlapped' => ~overlapped /\ OneHandler')
  BY EndIs
<1>3. Arrives(c) /\ thread'[c].at \notin Halting
  BY <1>2, RestIs, EntryIs DEF Arrives, Holding, Halting
<1>4. SessionTyped
  BY <1>2, EntryIs DEF PipelinesInv, Base, Typed, SessionTyped, session
<1> QED
  BY <1>1, <1>2, <1>3, <1>4, MoveKeeps

LEMMA GetPipelineKeeps ==
  ASSUME ThreadsAreApart, PipelinesInv, NEW c \in Conns, GetPipeline(c)
  PROVE  PipelinesInv'
<1>1. c \in Threads /\ thread[c].at = "get"
  BY DEF Threads, At, GetPipeline
<1>2. CASE entry = 0
  BY <1>1, <1>2, EndKeeps DEF GetPipeline
<1>3. CASE entry # 0
  <2>1. /\ thread' = [thread EXCEPT ![c].at = "seed", ![c].pipe = entry]
        /\ entry \in Nat
    BY <1>3, EntryIsNat DEF GetPipeline
  <2>2. /\ Moves(c) /\ thread'[c].at = "seed" /\ thread'[c].pipe = entry
        /\ thread'[c].watcher = thread[c].watcher
        /\ thread'[c].reader = thread[c].reader
    BY <1>1, <2>1, ZenonT(30)
    DEF PipelinesInv, Base, Typed, Moves, ThreadType, Steps
  <2>3. Arrives(c) /\ thread'[c].at \notin Halting
    BY <1>1, <1>3, <2>2, EntryIs DEF Arrives, Holding, Halting
  <2> QED
    BY <1>1, <1>3, <2>2, <2>3, EntryIs, GoOnKeeps
       DEF GetPipeline, InFlight, session, ghosts
<1> QED
  BY <1>2, <1>3

LEMMA AwaitOldKeeps ==
  ASSUME PipelinesInv, NEW c \in Conns, AwaitOld(c)
  PROVE  PipelinesInv'
<1>1. /\ c \in Threads /\ thread[c].at = "await old" /\ Base
      /\ thread' = [thread EXCEPT ![c].at = "watch", ![c].watcher = 0]
  BY DEF Threads, At, AwaitOld, PipelinesInv
<1>2. /\ Moves(c) /\ thread'[c].at = "watch" /\ thread'[c].watcher = 0
      /\ thread'[c].pipe = thread[c].pipe
      /\ thread'[c].reader = thread[c].reader
  BY <1>1, ZenonT(30) DEF Base, Typed, Moves, ThreadType, Steps
<1>3. thread[c].pipe \in DOMAIN pipes
  BY <1>1, Holds DEF Holding
<1>4. Arrives(c) /\ thread'[c].at \notin Halting
  BY <1>1, <1>2, <1>3, EntryIs, Typing DEF AwaitOld, Arrives, Halting
<1> QED
  BY <1>1, <1>2, <1>4, EntryIs, GoOnKeeps
     DEF AwaitOld, InFlight, session, ghosts

\* No watcher is needed, or none can be made.
LEMMA NoWatchKeeps ==
  ASSUME PipelinesInv, NEW c \in Conns, At(c, "watch"), GoTo(c, "bubble"),
         Downgraded \/ UNCHANGED <<structured, entry>>,
         UNCHANGED <<flagged, open, prompt, objects, ghosts>>
  PROVE  PipelinesInv'
<1>1. /\ c \in Threads /\ thread[c].at = "watch"
      /\ thread' = [thread EXCEPT ![c].at = "bubble"]
  BY DEF Threads, At, GoTo
<1>2. /\ Moves(c) /\ thread'[c].at = "bubble"
      /\ thread'[c].pipe = thread[c].pipe
      /\ thread'[c].watcher = thread[c].watcher
      /\ thread'[c].reader = thread[c].reader
  BY <1>1 DEF PipelinesInv, Base, Typed, Moves, ThreadType, Steps
<1>3. Arrives(c) /\ thread'[c].at \notin Halting
  BY <1>1, <1>2, EntryIs DEF Arrives, Holding, Halting
<1>4. structured' \in BOOLEAN /\ entry' \in Some(pipes)
  BY EntryIs DEF Downgraded
<1> QED
  BY <1>1, <1>2, <1>3, <1>4, GoOnKeeps DEF InFlight

LEMMA BubbleKeeps ==
  ASSUME ThreadsAreApart, PipelinesInv, NEW c \in Conns, Bubble(c)
  PROVE  PipelinesInv'
<1>1. c \in Threads /\ thread[c].at = "bubble"
  BY DEF Threads, At, Bubble
<1>2. CASE thread[c].undo
  BY <1>1, <1>2, EndKeeps DEF Bubble
<1>3. CASE ~thread[c].undo
  <2>1. thread' = [thread EXCEPT ![c].at = "write", ![c].pipe = 0]
    BY <1>3 DEF Bubble
  <2>2. /\ Moves(c) /\ thread'[c].at = "write" /\ thread'[c].pipe = 0
        /\ thread'[c].watcher = thread[c].watcher
        /\ thread'[c].reader = thread[c].reader
    BY <1>1, <2>1, ZenonT(30)
    DEF PipelinesInv, Base, Typed, Moves, ThreadType, Steps
  <2>3. Arrives(c) /\ thread'[c].at \notin Halting
    BY <1>1, <2>2, EntryIs DEF Arrives, Holding, Halting
  <2> QED
    BY <1>1, <1>3, <2>2, <2>3, EntryIs, GoOnKeeps
       DEF Bubble, InFlight, session, ghosts
<1> QED
  BY <1>2, <1>3

LEMMA WriteKeeps ==
  ASSUME ThreadsAreApart, PipelinesInv, NEW c \in Conns, Write(c)
  PROVE  PipelinesInv'
<1>1. /\ c \in Threads /\ thread[c].at = "write"
      /\ UNCHANGED <<session, entry, objects, overlapped, late>>
  BY DEF Threads, At, Write
<1>2. CASE /\ thread' = [thread EXCEPT ![c].at = "enter"]
           /\ UNCHANGED <<prompt, cleared>>
  <2>1. /\ Moves(c) /\ thread'[c].at = "enter"
        /\ thread'[c].pipe = thread[c].pipe
        /\ thread'[c].watcher = thread[c].watcher
        /\ thread'[c].reader = thread[c].reader
    BY <1>1, <1>2 DEF PipelinesInv, Base, Typed, Moves, ThreadType, Steps
  <2>2. Arrives(c) /\ thread'[c].at \notin Halting
    BY <1>1, <2>1, EntryIs DEF Arrives, Holding, Halting
  <2> QED
    BY <1>1, <1>2, <2>1, <2>2, EntryIs, GoOnKeeps
       DEF InFlight, session, ghosts
<1>3. CASE /\ entry # 0
           /\ thread' = [thread EXCEPT ![c].at = "bubble", ![c].pipe = entry,
                                       ![c].undo = TRUE]
           /\ UNCHANGED <<prompt, cleared>>
  <2>1. entry \in Nat
    BY EntryIsNat
  <2>2. /\ Moves(c) /\ thread'[c].at = "bubble" /\ thread'[c].pipe = entry
        /\ thread'[c].watcher = thread[c].watcher
        /\ thread'[c].reader = thread[c].reader
    BY <1>1, <1>3, <2>1, ZenonT(30)
       DEF PipelinesInv, Base, Typed, Moves, ThreadType, Steps
  <2>3. Arrives(c) /\ thread'[c].at \notin Halting
    BY <1>1, <2>2, EntryIs DEF Arrives, Holding, Halting
  <2> QED
    BY <1>1, <1>3, <2>2, <2>3, EntryIs, GoOnKeeps
       DEF InFlight, session, ghosts
<1>4. CASE End(c)
  BY <1>1, <1>4, EndKeeps
<1> QED
  BY <1>2, <1>3, <1>4 DEF Write, GoTo

LEMMA EnterKeeps ==
  ASSUME ThreadsAreApart, PipelinesInv, NEW c \in Conns, Enter(c)
  PROVE  PipelinesInv'
BY EndKeeps DEF Enter, At

-----------------------------------------------------------------------------
(* Stop of a pipeline.                                                     *)

\* Stop moves the generation on and halts, and nothing else.
Alike ==
  /\ pipes' \in Seq(PipeType) /\ DOMAIN pipes' = DOMAIN pipes
  /\ \A p \in DOMAIN pipes :
       /\ pipes'[p].watcher = pipes[p].watcher
       /\ pipes'[p].reader = pipes[p].reader
       /\ pipes[p].stopped => pipes'[p].stopped
       /\ pipes'[p].ended => pipes'[p].stopped
  /\ watchers' \in Seq(WatcherType) /\ DOMAIN watchers' = DOMAIN watchers
  /\ \A w \in DOMAIN watchers :
       /\ watchers'[w].pipe = watchers[w].pipe
       /\ watchers'[w].reader = watchers[w].reader
       /\ watchers'[w].at = watchers[w].at
  /\ readers' \in Seq(ReaderType) /\ DOMAIN readers' = DOMAIN readers
  /\ \A r \in DOMAIN readers :
       /\ readers'[r].pipe = readers[r].pipe
       /\ readers'[r].gen = readers[r].gen /\ readers'[r].at = readers[r].at

LEMMA StopStepKeeps ==
  ASSUME PipelinesInv, NEW t \in Threads, Moves(t), Alike,
         UNCHANGED <<session, entry, prompt, ghosts>>,
         thread[t].at \in Halting \cup {"stop"},
         thread'[t].at \in Halting \cup {"idle", "over", "get"},
         thread'[t].pipe \in Some(pipes),
         thread'[t].watcher \in Some(watchers),
         thread'[t].reader \in Some(readers),
         thread'[t].at \in Halting =>
           thread'[t].pipe # 0 /\ pipes'[thread'[t].pipe].stopped,
         Alone => StopWaits'
  PROVE  PipelinesInv'
<1>1. Base
  BY DEF PipelinesInv
<1>2. /\ flagged' = flagged /\ open' = open /\ structured' = structured
      /\ entry' = entry /\ prompt' = prompt /\ cleared' = cleared
      /\ overlapped' = overlapped /\ late' = late
  BY DEF session, ghosts
<1>3. Typed'
  BY <1>1, <1>2 DEF Base, Typed, Moves, Alike
<1>4. InRange'
  <2>1. EntryRefers'
    BY <1>1, <1>2 DEF Base, InRange, EntryRefers, Alike, Some
  <2>2. PipesRefer'
    BY <1>1 DEF Base, InRange, PipesRefer, Alike, Some
  <2>3. WatchersRefer'
    BY <1>1 DEF Base, InRange, WatchersRefer, Alike, Some
  <2>4. ReadersRefer'
    BY <1>1 DEF Base, InRange, ReadersRefer, Alike
  <2>5. ThreadsRefer'
    BY <1>1 DEF Base, InRange, ThreadsRefer, Moves, Alike, Some
  <2> QED
    BY <2>1, <2>2, <2>3, <2>4, <2>5 DEF InRange
<1>5. Placed'
  <2>1. HoldersHold'
    <3>1. /\ thread'[t].at # "start"
          /\ thread'[t].at \in Holding => thread'[t].pipe # 0
      BY DEF Halting, Holding
    <3> QED
      BY <1>1, <3>1 DEF Base, Placed, HoldersHold, Moves
  <2>2. HaltersStopped'
    <3>1. ASSUME NEW u \in Threads, u # t, thread'[u].at \in Halting
          PROVE  Pipe(u)'.stopped
      <4>1. thread'[u] = thread[u]
        BY <3>1 DEF Moves
      <4>2. thread[u].pipe \in DOMAIN pipes /\ Pipe(u).stopped
        BY <1>1, <3>1, <4>1, Holds
           DEF Base, Placed, HaltersStopped, Holding
      <4> QED
        BY <4>1, <4>2 DEF Alike, Pipe
    <3> QED
      BY <3>1 DEF HaltersStopped, Pipe
  <2>3. EndedAreStopped'
    BY DEF EndedAreStopped, Alike
  <2>4. BoundHaveReaders'
    BY <1>1, Typing DEF Base, Placed, BoundHaveReaders, InRange,
                        WatchersRefer, Alike, Some
  <2> QED
    BY <2>1, <2>2, <2>3, <2>4 DEF Placed
<1>6. \A c \in Conns : InFlight(c)' => InFlight(c)
  BY DEF Moves, InFlight, Threads, Halting
<1>7. Recorded'
  BY <1>1, <1>2, <1>6 DEF Base, Recorded
<1>8. ASSUME Alone PROVE Alone'
  <2>1. OneHandler'
    BY <1>6, <1>8 DEF Alone, OneHandler
  <2>2. \A c \in Conns : At(c, "await old") \/ At(c, "await old")' =>
          c \in Threads /\ c # t /\ thread'[c] = thread[c]
    BY DEF At, Threads, Moves, Halting
  <2>3. \A c \in Conns : At(c, "start") \/ At(c, "start")' =>
          c \in Threads /\ c # t /\ thread'[c] = thread[c]
    BY DEF At, Threads, Moves, Halting
  <2>4. WatcherIsKnown'
    <3>1. ASSUME NEW w \in DOMAIN watchers, NEW c \in Conns, Awaits(c, w)
          PROVE  Awaits(c, w)'
      BY <2>2, <3>1 DEF Awaits, Alike, At
    <3> QED
      BY <1>1, <1>8, <3>1 DEF Base, InRange, WatchersRefer, Alone,
                              WatcherIsKnown, Alike
  <2>5. AwaitedIsForgotten'
    <3>1. ASSUME NEW c \in Conns, At(c, "await old")'
          PROVE  Pipe(c)'.watcher = 0
      <4>1. c \in Threads /\ thread'[c] = thread[c] /\ At(c, "await old")
        BY <2>2, <3>1 DEF At
      <4>2. thread[c].pipe \in DOMAIN pipes
        BY <1>1, <4>1, Holds DEF Holding, At
      <4> QED
        BY <1>8, <4>1, <4>2 DEF Alone, AwaitedIsForgotten, Pipe, Alike
    <3> QED
      BY <3>1 DEF AwaitedIsForgotten
  <2>6. NewAreStarted'
    <3>1. ASSUME NEW w \in DOMAIN watchers, watchers[w].at = "new"
          PROVE  \E c \in Conns : At(c, "start")' /\ thread'[c].watcher = w
      <4>1. PICK c \in Conns : At(c, "start") /\ thread[c].watcher = w
        BY <1>8, <3>1 DEF Alone, NewAreStarted
      <4> QED
        BY <2>3, <4>1 DEF At
    <3> QED
      BY <3>1 DEF NewAreStarted, Alike
  <2>7. StartedAreNew'
    <3>1. ASSUME NEW c \in Conns, At(c, "start")'
          PROVE  watchers'[thread'[c].watcher].at = "new"
      <4>1. c \in Threads /\ thread'[c] = thread[c] /\ At(c, "start")
        BY <2>3, <3>1 DEF At
      <4>2. thread[c].watcher \in DOMAIN watchers
        BY <1>1, <4>1 DEF Base, InRange, ThreadsRefer, Placed, HoldersHold,
                          At, Some
      <4> QED
        BY <1>8, <4>1, <4>2 DEF Alone, StartedAreNew, Alike
    <3> QED
      BY <3>1 DEF StartedAreNew
  <2>8. ReaderIsSet'
    BY <1>1, <1>8 DEF Base, InRange, WatchersRefer, Alone, ReaderIsSet, Alike
  <2>9. ReaderIsKnown'
    BY <1>1, <1>8 DEF Base, InRange, ReadersRefer, Alone, ReaderIsKnown,
                      Alike
  <2>10. LateAreAllowed'
    BY <1>1, <1>2, <1>8 DEF Base, InRange, EntryRefers, Alone,
                            LateAreAllowed, Allowed, Alike
  <2> QED
    BY <1>8, <2>1, <2>4, <2>5, <2>6, <2>7, <2>8, <2>9, <2>10 DEF Alone
<1> QED
  BY <1>2, <1>3, <1>4, <1>5, <1>7, <1>8 DEF PipelinesInv, Base

\* Where the pipelines, watchers and readers stay as they are.
LEMMA SameIsAlike ==
  ASSUME Base, UNCHANGED objects
  PROVE  Alike
<1>1. pipes' = pipes /\ watchers' = watchers /\ readers' = readers
  BY DEF objects
<1> QED
  BY <1>1 DEF Base, Typed, Placed, EndedAreStopped, Alike

\* A thread that halts a pipeline, at one of these steps.
LEMMA Halts ==
  ASSUME PipelinesInv, NEW t \in Threads,
         thread[t].at \in Halting \cup {"stop"}
  PROVE  /\ Base /\ thread[t] \in ThreadType
         /\ thread[t].pipe \in DOMAIN pipes /\ thread[t].pipe # 0
         /\ pipes[thread[t].pipe] \in PipeType
         /\ thread[t].pipe \in Some(pipes)
         /\ thread[t].watcher \in Some(watchers)
         /\ thread[t].reader \in Some(readers)
         /\ thread[t].at \in Halting => pipes[thread[t].pipe].stopped
<1>1. Base /\ thread[t].at \in Holding
  BY DEF PipelinesInv, Holding, Halting
<1> QED
  BY <1>1, Holds, EntryIs, Typing
     DEF Base, Placed, HaltersStopped, Pipe

\* Which pipeline a reader merges into although that was stopped.
LEMMA StopWaitsFor ==
  ASSUME Alone, NEW r \in DOMAIN readers, Merges(r)
  PROVE  /\ readers[r].at = "merges" /\ ~Allowed(r)
         /\ pipes[readers[r].pipe].reader = r
         /\ ~pipes[readers[r].pipe].ended
         /\ \A t \in Threads :
              thread[t].pipe = readers[r].pipe => Waits(t, r)
BY DEF Alone, StopWaits, Merges, ReaderIsKnown

LEMMA StopKeeps ==
  ASSUME PipelinesInv, NEW t \in Threads, Stop(t)
  PROVE  PipelinesInv'
<1> DEFINE p == thread[t].pipe
           x == [pipes[p] EXCEPT !.stopped = TRUE]
           y == [thread[t] EXCEPT !.at = "halt reader",
                                  !.reader = pipes[p].reader,
                                  !.watcher = pipes[p].watcher]
<1>1. /\ Base /\ thread[t] \in ThreadType /\ thread[t].at = "stop"
      /\ p \in DOMAIN pipes /\ p # 0 /\ p \in Some(pipes)
      /\ pipes[p] \in PipeType
  BY Halts DEF Stop, At
<1>2. /\ x \in PipeType /\ x.stopped /\ x.ended = pipes[p].ended
      /\ x.watcher = pipes[p].watcher /\ x.reader = pipes[p].reader
  BY <1>1 DEF PipeType
<1>3. /\ y \in ThreadType /\ y.at = "halt reader" /\ y.pipe = p
      /\ y.watcher = pipes[p].watcher /\ y.reader = pipes[p].reader
  BY <1>1 DEF PipeType, ThreadType, Steps
<1>4. thread' = [thread EXCEPT ![t] = y] /\ pipes' = [pipes EXCEPT ![p] = x]
  BY <1>1 DEF Stop, Pipe
<1>5. UNCHANGED <<session, entry, prompt, watchers, readers, ghosts>>
  BY DEF Stop
<1> HIDE DEF x, y
<1>6. /\ pipes' \in Seq(PipeType) /\ DOMAIN pipes' = DOMAIN pipes
      /\ pipes'[p] = x
      /\ \A q \in DOMAIN pipes : q # p => pipes'[q] = pipes[q]
  BY <1>1, <1>2, <1>4, OneChanges DEF Base, Typed
<1>7. Moves(t) /\ thread'[t] = y
  BY <1>3, <1>4 DEF PipelinesInv, Base, Typed, Moves
<1>8. Alike
  BY <1>1, <1>2, <1>5, <1>6
     DEF Base, Typed, Placed, EndedAreStopped, Alike
<1>9. /\ pipes[p].watcher \in Some(watchers)
      /\ pipes[p].reader \in Some(readers)
  BY <1>1 DEF Base, InRange, PipesRefer
<1>10. ASSUME Alone PROVE StopWaits'
  <2>1. ASSUME NEW r \in DOMAIN readers, Merges(r)'
        PROVE  /\ ~pipes'[readers[r].pipe].ended
               /\ \A u \in Threads :
                    thread'[u].pipe = readers[r].pipe => Waits(u, r)'
    <3>1. /\ readers[r].at = "merges" /\ ~Allowed(r)
          /\ pipes'[readers[r].pipe].stopped
          /\ readers[r].pipe \in DOMAIN pipes
      BY <1>1, <1>5, <2>1
         DEF Base, InRange, ReadersRefer, Merges, Allowed, session
    <3>2. pipes[readers[r].pipe].reader = r
      BY <1>10, <3>1 DEF Alone, ReaderIsKnown
    <3>3. CASE Merges(r)
      <4>1. /\ ~pipes[readers[r].pipe].ended
            /\ \A u \in Threads :
                 thread[u].pipe = readers[r].pipe => Waits(u, r)
        BY <1>10, <3>3, StopWaitsFor
      <4>2. ~pipes'[readers[r].pipe].ended
        BY <1>2, <1>6, <3>1, <4>1
      <4>3. \A u \in Threads :
              thread'[u].pipe = readers[r].pipe => Waits(u, r)'
        BY <1>3, <1>7, <3>2, <4>1 DEF Moves, Waits
      <4> QED
        BY <4>2, <4>3
    <3>4. CASE ~Merges(r)
      <4>1. readers[r].pipe = p /\ ~pipes[p].stopped
        BY <1>6, <3>1, <3>4 DEF Merges
      <4>2. ~pipes'[p].ended
        BY <1>1, <1>2, <1>6, <4>1 DEF Base, Placed, EndedAreStopped
      <4>3. ASSUME NEW u \in Threads, u # t, thread[u].pipe = p
            PROVE  thread[u].at \notin Halting
        BY <1>1, <4>1, <4>3, Halts
      <4>4. \A u \in Threads : thread'[u].pipe = p => Waits(u, r)'
        BY <1>3, <1>7, <3>2, <4>1, <4>3 DEF Moves, Waits, Halting
      <4> QED
        BY <4>1, <4>2, <4>4
    <3> QED
      BY <3>3, <3>4
  <2> QED
    BY <1>5, <2>1 DEF StopWaits
<1> QED
  BY <1>1, <1>2, <1>3, <1>5, <1>6, <1>7, <1>8, <1>9, <1>10, StopStepKeeps
     DEF Halting

\* Where only a thread moves on and signals, the readers keep what they do.
LEMMA SameMerges ==
  ASSUME PipelinesInv, Alike, UNCHANGED <<session, pipes>>,
         NEW r \in DOMAIN readers
  PROVE  Merges(r)' = Merges(r)
<1>1. readers[r].pipe \in DOMAIN pipes /\ flagged' = flagged
  BY DEF PipelinesInv, Base, InRange, ReadersRefer, session
<1> QED
  BY <1>1 DEF Alike, Merges, Allowed

LEMMA SignalWaits ==
  ASSUME PipelinesInv, Alone, NEW t \in Threads, Moves(t), Alike,
         UNCHANGED <<session, pipes>>, thread'[t].pipe = thread[t].pipe,
         \A r \in DOMAIN readers :
           Merges(r) /\ Waits(t, r) => Waits(t, r)'
  PROVE  StopWaits'
<1>1. ASSUME NEW r \in DOMAIN readers, Merges(r)
      PROVE  /\ ~pipes[readers[r].pipe].ended
             /\ \A u \in Threads :
                  thread'[u].pipe = readers[r].pipe => Waits(u, r)'
  <2>1. /\ ~pipes[readers[r].pipe].ended
        /\ \A u \in Threads :
             thread[u].pipe = readers[r].pipe => Waits(u, r)
    BY <1>1, StopWaitsFor
  <2> QED
    BY <1>1, <2>1 DEF Moves, Waits
<1>2. DOMAIN readers' = DOMAIN readers
  BY DEF Alike
<1>3. \A r \in DOMAIN readers : readers'[r].pipe = readers[r].pipe
  BY DEF Alike
<1> QED
  BY <1>1, <1>2, <1>3, SameMerges DEF StopWaits

LEMMA HaltReaderKeeps ==
  ASSUME PipelinesInv, NEW t \in Threads, HaltReader(t)
  PROVE  PipelinesInv'
<1> DEFINE r == thread[t].reader
<1>1. /\ Base /\ thread[t] \in ThreadType /\ thread[t].at = "halt reader"
      /\ thread[t].pipe # 0 /\ thread[t].pipe \in Some(pipes)
      /\ thread[t].watcher \in Some(watchers) /\ r \in Some(readers)
      /\ pipes[thread[t].pipe].stopped
  BY Halts DEF HaltReader, At, Halting
<1>2. UNCHANGED <<session, entry, prompt, pipes, watchers, ghosts>>
  BY DEF HaltReader
<1>3. CASE r = 0 \/ (r # 0 /\ readers[r].at = "new")
  <2>1. /\ thread' = [thread EXCEPT ![t].at = "halt watcher",
                                    ![t].reader = 0]
        /\ readers' = readers
    BY <1>3 DEF HaltReader
  <2>2. /\ Moves(t) /\ thread'[t].at = "halt watcher"
        /\ thread'[t].reader = 0 /\ thread'[t].pipe = thread[t].pipe
        /\ thread'[t].watcher = thread[t].watcher
    BY <1>1, <2>1 DEF Base, Typed, Moves, ThreadType, Steps
  <2>3. Alike
    BY <1>1, <1>2, <2>1, SameIsAlike DEF objects
  <2>4. ASSUME NEW q \in DOMAIN readers PROVE ~(Merges(q) /\ Waits(t, q))
    BY <1>1, <1>3, <2>4, Typing DEF Merges, Waits
  <2>5. Alone => StopWaits'
    BY <1>2, <2>2, <2>3, <2>4, SignalWaits
  <2> QED
    BY <1>1, <1>2, <2>2, <2>3, <2>5, EntryIs, StopStepKeeps DEF Halting
<1>4. CASE ~(r = 0 \/ (r # 0 /\ readers[r].at = "new"))
  <2>1. /\ thread' = [thread EXCEPT ![t].at = "await reader"]
        /\ readers' = [readers EXCEPT ![r].halt = TRUE]
    BY <1>4 DEF HaltReader, GoTo
  <2>2. /\ Moves(t) /\ thread'[t].at = "await reader"
        /\ thread'[t].reader = r /\ thread'[t].pipe = thread[t].pipe
        /\ thread'[t].watcher = thread[t].watcher
    BY <1>1, <2>1 DEF Base, Typed, Moves, ThreadType, Steps
  <2> DEFINE x == [readers[r] EXCEPT !.halt = TRUE]
  <2>3. r \in DOMAIN readers /\ readers[r] \in ReaderType
    BY <1>1, <1>4, Typing DEF Some
  <2>4. /\ x \in ReaderType /\ x.pipe = readers[r].pipe
        /\ x.gen = readers[r].gen /\ x.at = readers[r].at
    BY <2>3 DEF ReaderType
  <2>5. readers' = [readers EXCEPT ![r] = x]
    BY <2>1
  <2> HIDE DEF x
  <2>6. /\ readers' \in Seq(ReaderType) /\ DOMAIN readers' = DOMAIN readers
        /\ readers'[r] = x
        /\ \A q \in DOMAIN readers : q # r => readers'[q] = readers[q]
    BY <1>1, <2>3, <2>4, <2>5, OneChanges DEF Base, Typed
  <2>7. Alike
    BY <1>1, <1>2, <2>4, <2>6
       DEF Base, Typed, Placed, EndedAreStopped, Alike
  <2>8. \A q \in DOMAIN readers : Waits(t, q) => Waits(t, q)'
    BY <1>1, <2>2 DEF Waits
  <2>9. Alone => StopWaits'
    BY <1>2, <2>2, <2>7, <2>8, SignalWaits
  <2>10. thread'[t].reader \in Some(readers)
    BY <1>1, <2>2
  <2> QED
    BY <1>1, <1>2, <2>2, <2>7, <2>9, <2>10, StopStepKeeps DEF Halting
<1> QED
  BY <1>3, <1>4

LEMMA AwaitReaderKeeps ==
  ASSUME PipelinesInv, NEW t \in Threads, AwaitReader(t)
  PROVE  PipelinesInv'
<1>1. /\ Base /\ thread[t] \in ThreadType /\ thread[t].at = "await reader"
      /\ thread[t].pipe # 0 /\ thread[t].pipe \in Some(pipes)
      /\ thread[t].watcher \in Some(watchers)
      /\ pipes[thread[t].pipe].stopped
  BY Halts DEF AwaitReader, At, Halting
<1>2. /\ thread' = [thread EXCEPT ![t].at = "halt watcher", ![t].reader = 0]
      /\ UNCHANGED <<session, entry, prompt, objects, ghosts>>
      /\ readers[thread[t].reader].at = "done"
  BY DEF AwaitReader
<1>3. /\ Moves(t) /\ thread'[t].at = "halt watcher"
      /\ thread'[t].reader = 0 /\ thread'[t].pipe = thread[t].pipe
      /\ thread'[t].watcher = thread[t].watcher
  BY <1>1, <1>2 DEF Base, Typed, Moves, ThreadType, Steps
<1>4. Alike /\ pipes' = pipes
  BY <1>1, <1>2, SameIsAlike DEF objects
<1>5. ASSUME NEW q \in DOMAIN readers PROVE ~(Merges(q) /\ Waits(t, q))
  BY <1>1, <1>2, <1>5 DEF Merges, Waits
<1>6. Alone => StopWaits'
  BY <1>2, <1>3, <1>4, <1>5, SignalWaits
<1> QED
  BY <1>1, <1>2, <1>3, <1>4, <1>6, EntryIs, StopStepKeeps DEF Halting

LEMMA HaltWatcherKeeps ==
  ASSUME PipelinesInv, NEW t \in Threads, HaltWatcher(t)
  PROVE  PipelinesInv'
<1> DEFINE w == thread[t].watcher
<1>1. /\ Base /\ thread[t] \in ThreadType /\ thread[t].at = "halt watcher"
      /\ thread[t].pipe # 0 /\ thread[t].pipe \in Some(pipes)
      /\ w \in Some(watchers) /\ thread[t].reader \in Some(readers)
      /\ pipes[thread[t].pipe].stopped
  BY Halts DEF HaltWatcher, At, Halting
<1>2. UNCHANGED <<session, entry, prompt, pipes, readers, ghosts>>
  BY DEF HaltWatcher
<1>3. \A q \in DOMAIN readers : ~Waits(t, q)
  BY <1>1 DEF Waits
<1>4. CASE w = 0 \/ (w # 0 /\ watchers[w].at = "new")
  <2>1. /\ thread' = [thread EXCEPT ![t].watcher = 0,
                                    ![t].at = "await watcher"]
        /\ watchers' = watchers
    BY <1>4 DEF HaltWatcher
  <2>2. /\ Moves(t) /\ thread'[t].at = "await watcher"
        /\ thread'[t].watcher = 0 /\ thread'[t].pipe = thread[t].pipe
        /\ thread'[t].reader = thread[t].reader
    BY <1>1, <2>1 DEF Base, Typed, Moves, ThreadType, Steps
  <2>3. Alike
    BY <1>1, <1>2, <2>1, SameIsAlike DEF objects
  <2>4. Alone => StopWaits'
    BY <1>2, <1>3, <2>2, <2>3, SignalWaits
  <2> QED
    BY <1>1, <1>2, <2>2, <2>3, <2>4, EntryIs, StopStepKeeps DEF Halting
<1>5. CASE ~(w = 0 \/ (w # 0 /\ watchers[w].at = "new"))
  <2>1. /\ thread' = [thread EXCEPT ![t].at = "await watcher"]
        /\ watchers' = [watchers EXCEPT ![w].halt = TRUE]
    BY <1>5 DEF HaltWatcher, GoTo
  <2>2. /\ Moves(t) /\ thread'[t].at = "await watcher"
        /\ thread'[t].watcher = w /\ thread'[t].pipe = thread[t].pipe
        /\ thread'[t].reader = thread[t].reader
    BY <1>1, <2>1 DEF Base, Typed, Moves, ThreadType, Steps
  <2> DEFINE x == [watchers[w] EXCEPT !.halt = TRUE]
  <2>3. w \in DOMAIN watchers /\ watchers[w] \in WatcherType
    BY <1>1, <1>5, Typing DEF Some
  <2>4. /\ x \in WatcherType /\ x.pipe = watchers[w].pipe
        /\ x.reader = watchers[w].reader /\ x.at = watchers[w].at
    BY <2>3 DEF WatcherType
  <2>5. watchers' = [watchers EXCEPT ![w] = x]
    BY <2>1
  <2> HIDE DEF x
  <2>6. /\ watchers' \in Seq(WatcherType)
        /\ DOMAIN watchers' = DOMAIN watchers /\ watchers'[w] = x
        /\ \A v \in DOMAIN watchers : v # w => watchers'[v] = watchers[v]
    BY <1>1, <2>3, <2>4, <2>5, OneChanges DEF Base, Typed
  <2>7. Alike
    BY <1>1, <1>2, <2>4, <2>6
       DEF Base, Typed, Placed, EndedAreStopped, Alike
  <2>8. Alone => StopWaits'
    BY <1>2, <1>3, <2>2, <2>7, SignalWaits
  <2> QED
    BY <1>1, <1>2, <2>2, <2>7, <2>8, StopStepKeeps DEF Halting
<1> QED
  BY <1>4, <1>5

LEMMA AwaitWatcherKeeps ==
  ASSUME PipelinesInv, NEW t \in Threads, AwaitWatcher(t)
  PROVE  PipelinesInv'
<1> DEFINE p == thread[t].pipe
           x == [pipes[p] EXCEPT !.ended = TRUE]
<1>1. /\ Base /\ thread[t].at = "await watcher"
      /\ p \in DOMAIN pipes /\ p # 0 /\ p \in Some(pipes)
      /\ pipes[p] \in PipeType /\ pipes[p].stopped
  BY Halts DEF AwaitWatcher, At, Halting
<1>2. /\ x \in PipeType /\ x.stopped /\ x.ended
      /\ x.watcher = pipes[p].watcher /\ x.reader = pipes[p].reader
  BY <1>1 DEF PipeType
<1>3. /\ pipes' = [pipes EXCEPT ![p] = x] /\ Return(t)
      /\ UNCHANGED <<session, entry, prompt, watchers, readers, ghosts>>
  BY <1>1 DEF AwaitWatcher
<1> HIDE DEF x
<1>4. /\ pipes' \in Seq(PipeType) /\ DOMAIN pipes' = DOMAIN pipes
      /\ pipes'[p] = x
      /\ \A q \in DOMAIN pipes : q # p => pipes'[q] = pipes[q]
  BY <1>1, <1>2, <1>3, OneChanges DEF Base, Typed
<1>5. /\ Moves(t) /\ thread'[t].pipe = 0 /\ thread'[t].watcher = 0
      /\ thread'[t].reader = 0 /\ thread'[t].at \in {"idle", "over", "get"}
  BY <1>1, <1>3, ReturnIs
<1>6. Alike
  BY <1>1, <1>2, <1>3, <1>4
     DEF Base, Typed, Placed, EndedAreStopped, Alike
<1>7. ASSUME Alone PROVE StopWaits'
  <2>1. ASSUME NEW r \in DOMAIN readers, Merges(r)'
        PROVE  /\ ~pipes'[readers[r].pipe].ended
               /\ \A u \in Threads :
                    thread'[u].pipe = readers[r].pipe => Waits(u, r)'
    <3>1. readers[r].pipe \in DOMAIN pipes /\ readers[r].pipe # 0
      BY <1>1, Typing DEF Base, InRange, ReadersRefer
    <3>2. Merges(r)
      BY <1>1, <1>3, <1>4, <2>1, <3>1 DEF Merges, Allowed, session
    <3>3. /\ ~pipes[readers[r].pipe].ended
          /\ \A u \in Threads :
               thread[u].pipe = readers[r].pipe => Waits(u, r)
      BY <1>7, <3>2, StopWaitsFor
    <3>4. readers[r].pipe # p
      BY <1>1, <3>3 DEF Waits
    <3> QED
      BY <1>4, <1>5, <3>1, <3>3, <3>4 DEF Moves, Waits
  <2> QED
    BY <1>3, <2>1 DEF StopWaits
<1> QED
  BY <1>1, <1>3, <1>5, <1>6, <1>7, EntryIs, StopStepKeeps DEF Halting

-----------------------------------------------------------------------------
(* The goroutines of a pipeline.                                           *)

LEMMA GoroutineKeeps ==
  ASSUME PipelinesInv,
         UNCHANGED <<flagged, open, prompt, thread, cleared, overlapped>>,
         structured' \in BOOLEAN, entry' \in Some(pipes),
         pipes' \in Seq(PipeType), DOMAIN pipes' = DOMAIN pipes,
         watchers' \in Seq(WatcherType), DOMAIN watchers' = DOMAIN watchers,
         readers' \in Seq(ReaderType),
         DOMAIN readers \subseteq DOMAIN readers',
         late' \subseteq DOMAIN readers',
         \A p \in DOMAIN pipes : pipes'[p].stopped = pipes[p].stopped,
         \A p \in DOMAIN pipes : pipes'[p].ended = pipes[p].ended,
         PipesRefer', WatchersRefer', ReadersRefer', BoundHaveReaders',
         Alone => /\ WatcherIsKnown' /\ AwaitedIsForgotten' /\ NewAreStarted'
                  /\ StartedAreNew' /\ ReaderIsSet' /\ ReaderIsKnown'
                  /\ StopWaits' /\ LateAreAllowed'
  PROVE  PipelinesInv'
<1>1. Base
  BY DEF PipelinesInv
<1>2. Typed'
  BY <1>1 DEF Base, Typed
<1>3. EntryRefers' /\ ThreadsRefer'
  BY <1>1 DEF Base, InRange, EntryRefers, ThreadsRefer, Some
<1>4. HoldersHold'
  BY <1>1 DEF Base, Placed, HoldersHold
<1>5. HaltersStopped'
  <2>1. ASSUME NEW t \in Threads, thread[t].at \in Halting
        PROVE  Pipe(t)'.stopped
    BY <2>1, Halts DEF Pipe
  <2> QED
    BY <2>1 DEF HaltersStopped
<1>6. EndedAreStopped'
  BY <1>1 DEF Base, Placed, EndedAreStopped
<1>7. Recorded'
  BY <1>1 DEF Base, Recorded, InFlight
<1>8. Alone => Alone'
  BY DEF Alone, OneHandler, InFlight
<1> QED
  BY <1>2, <1>3, <1>4, <1>5, <1>6, <1>7, <1>8
     DEF PipelinesInv, Base, InRange, Placed

\* A reader that goes on, its pipeline and its generation as they were.
ReaderMoves(r) ==
  /\ readers' \in Seq(ReaderType) /\ DOMAIN readers' = DOMAIN readers
  /\ readers'[r].pipe = readers[r].pipe /\ readers'[r].gen = readers[r].gen
  /\ \A q \in DOMAIN readers : q # r => readers'[q] = readers[q]

LEMMA ReaderGoesOn ==
  ASSUME PipelinesInv, NEW r \in DOMAIN readers,
         NEW at \in {"polls", "merges", "done"},
         readers' = [readers EXCEPT ![r].at = at]
  PROVE  ReaderMoves(r) /\ readers'[r].at = at
<1> DEFINE x == [readers[r] EXCEPT !.at = at]
<1>1. Base /\ readers[r] \in ReaderType
  BY Typing DEF PipelinesInv
<1>2. /\ x \in ReaderType /\ x.pipe = readers[r].pipe
      /\ x.gen = readers[r].gen /\ x.at = at
  BY <1>1 DEF ReaderType
<1>3. readers' = [readers EXCEPT ![r] = x]
  OBVIOUS
<1> HIDE DEF x
<1> DEFINE n == [readers EXCEPT ![r] = x]
<1>n. /\ n \in Seq(ReaderType) /\ DOMAIN n = DOMAIN readers /\ n[r] = x
      /\ \A q \in DOMAIN readers : q # r => n[q] = readers[q]
  <2>1. readers \in Seq(ReaderType)
    BY <1>1 DEF Base, Typed
  <2> QED
    BY <1>2, <2>1, OneChanges
<1> HIDE DEF n
<1>4. /\ readers' \in Seq(ReaderType) /\ DOMAIN readers' = DOMAIN readers
      /\ readers'[r] = x
      /\ \A q \in DOMAIN readers : q # r => readers'[q] = readers[q]
  BY <1>n, <1>3, Zenon DEF n
<1> QED
  BY <1>2, <1>4, Zenon DEF ReaderMoves

LEMMA ReaderStepKeeps ==
  ASSUME PipelinesInv, NEW r \in DOMAIN readers, ReaderMoves(r),
         readers[r].at \in {"polls", "merges"},
         UNCHANGED <<session, entry, prompt, pipes, watchers, thread,
                     cleared, overlapped>>,
         late' \subseteq DOMAIN readers,
         Merges(r)' => Merges(r), Alone => LateAreAllowed'
  PROVE  PipelinesInv'
<1>1. Base
  BY DEF PipelinesInv
<1>2. /\ flagged' = flagged /\ open' = open /\ structured' = structured
  BY DEF session
<1>3. PipesRefer' /\ WatchersRefer'
  BY <1>1 DEF Base, InRange, PipesRefer, WatchersRefer, Some, ReaderMoves
<1>4. ReadersRefer'
  BY <1>1 DEF Base, InRange, ReadersRefer, ReaderMoves
<1>5. BoundHaveReaders'
  BY <1>1 DEF Base, Placed, BoundHaveReaders, InRange, WatchersRefer,
              ReaderMoves, Some
<1>6. ASSUME Alone
      PROVE  /\ WatcherIsKnown' /\ AwaitedIsForgotten' /\ NewAreStarted'
             /\ StartedAreNew' /\ ReaderIsSet' /\ ReaderIsKnown'
             /\ StopWaits'
  <2>1. WatcherIsKnown' /\ AwaitedIsForgotten' /\ NewAreStarted'
        /\ StartedAreNew' /\ ReaderIsSet'
    <3>1. WatcherIsKnown'
      BY <1>6, ZenonT(30) DEF Alone, WatcherIsKnown, Awaits, At
    <3>2. AwaitedIsForgotten'
      BY <1>6, Zenon DEF Alone, AwaitedIsForgotten, At, Pipe
    <3>3. NewAreStarted' /\ StartedAreNew'
      BY <1>6, Zenon DEF Alone, NewAreStarted, StartedAreNew, At
    <3>4. ReaderIsSet'
      BY <1>6, Zenon DEF Alone, ReaderIsSet
    <3> QED
      BY <3>1, <3>2, <3>3, <3>4
  <2>2. ReaderIsKnown'
    BY <1>1, <1>6 DEF Base, Alone, ReaderIsKnown, ReaderMoves
  <2>3. \A q \in DOMAIN readers : Merges(q)' => Merges(q)
    BY <1>2 DEF Merges, Allowed, ReaderMoves
  <2>4. StopWaits'
    <3>1. ASSUME NEW q \in DOMAIN readers, Merges(q)'
          PROVE  /\ ~pipes[readers'[q].pipe].ended
                 /\ \A t \in Threads :
                      thread[t].pipe = readers'[q].pipe => Waits(t, q)
      <4>1. readers'[q].pipe = readers[q].pipe
        BY DEF ReaderMoves
      <4> QED
        BY <1>6, <2>3, <3>1, <4>1, StopWaitsFor
    <3>2. \A t, q : Waits(t, q)' = Waits(t, q)
      BY DEF Waits
    <3> QED
      BY <3>1, <3>2 DEF StopWaits, ReaderMoves
  <2> QED
    BY <2>1, <2>2, <2>4
<1> QED
  BY <1>1, <1>2, <1>3, <1>4, <1>5, <1>6, EntryIs, GoroutineKeeps
     DEF Base, Typed, ReaderMoves

LEMMA DeliverKeeps ==
  ASSUME PipelinesInv, NEW r \in DOMAIN readers, Deliver(r)
  PROVE  PipelinesInv'
<1>1. /\ readers[r].at = "polls" /\ Passes(r)
      /\ readers' = [readers EXCEPT ![r].at = "merges"]
      /\ UNCHANGED <<session, entry, prompt, pipes, watchers, thread, ghosts>>
  BY DEF Deliver
<1>2. ReaderMoves(r) /\ readers'[r].at = "merges"
  BY <1>1, ReaderGoesOn
<1>3. ~Merges(r)'
  BY <1>1, <1>2 DEF Merges, Passes, Allowed, ReaderMoves, session
<1>4. late \subseteq DOMAIN readers /\ late' = late
  BY <1>1 DEF PipelinesInv, Base, InRange, EntryRefers, ghosts
<1>5. Alone => LateAreAllowed'
  BY <1>1, <1>2, <1>4
     DEF Alone, LateAreAllowed, Allowed, ReaderMoves, session
<1> QED
  BY <1>1, <1>2, <1>3, <1>4, <1>5, ReaderStepKeeps DEF ghosts

LEMMA MergeProviderKeeps ==
  ASSUME PipelinesInv, NEW r \in DOMAIN readers, MergeProvider(r)
  PROVE  PipelinesInv'
<1>1. /\ readers[r].at = "merges"
      /\ readers' = [readers EXCEPT ![r].at = "polls"]
      /\ late' = IF pipes[readers[r].pipe].ended THEN late \cup {r} ELSE late
      /\ UNCHANGED <<session, entry, prompt, pipes, watchers, thread,
                     cleared, overlapped>>
  BY DEF MergeProvider
<1>2. ReaderMoves(r) /\ readers'[r].at = "polls"
  BY <1>1, ReaderGoesOn
<1>3. ~Merges(r)'
  BY <1>2 DEF Merges
<1>4. late \subseteq DOMAIN readers /\ readers[r].pipe \in DOMAIN pipes
      /\ EndedAreStopped
  BY DEF PipelinesInv, Base, InRange, EntryRefers, ReadersRefer, Placed
<1>5. ASSUME Alone PROVE LateAreAllowed'
  <2>1. pipes[readers[r].pipe].ended => Allowed(r)
    <3>1. SUFFICES ASSUME pipes[readers[r].pipe].ended, ~Allowed(r)
                   PROVE  FALSE
      OBVIOUS
    <3>2. Merges(r)
      BY <1>1, <1>4, <3>1 DEF EndedAreStopped, Merges
    <3> QED
      BY <1>5, <3>1, <3>2, StopWaitsFor
  <2>2. \A q \in late' : Allowed(q)
    BY <1>1, <1>5, <2>1 DEF Alone, LateAreAllowed
  <2>3. \A q \in DOMAIN readers : Allowed(q)' = Allowed(q)
    BY <1>1, <1>2 DEF Allowed, ReaderMoves, session
  <2> QED
    BY <1>1, <1>4, <2>2, <2>3 DEF LateAreAllowed
<1>6. late' \subseteq DOMAIN readers
  BY <1>1, <1>4
<1> QED
  BY <1>1, <1>2, <1>3, <1>5, <1>6, ReaderStepKeeps

LEMMA EndReaderKeeps ==
  ASSUME PipelinesInv, NEW r \in DOMAIN readers, EndReader(r)
  PROVE  PipelinesInv'
<1>1. /\ readers[r].at = "polls"
      /\ readers' = [readers EXCEPT ![r].at = "done"]
      /\ UNCHANGED <<session, entry, prompt, pipes, watchers, thread, ghosts>>
  BY DEF EndReader
<1>2. ReaderMoves(r) /\ readers'[r].at = "done"
  BY <1>1, ReaderGoesOn
<1>3. ~Merges(r)'
  BY <1>2 DEF Merges
<1>4. late \subseteq DOMAIN readers /\ late' = late
  BY <1>1 DEF PipelinesInv, Base, InRange, EntryRefers, ghosts
<1>5. Alone => LateAreAllowed'
  BY <1>1, <1>2, <1>4
     DEF Alone, LateAreAllowed, Allowed, ReaderMoves, session
<1> QED
  BY <1>1, <1>2, <1>3, <1>4, <1>5, ReaderStepKeeps DEF ghosts

\* A watcher that goes on, its pipeline as it was.
WatcherMoves(w) ==
  /\ watchers' \in Seq(WatcherType) /\ DOMAIN watchers' = DOMAIN watchers
  /\ watchers'[w].pipe = watchers[w].pipe
  /\ \A v \in DOMAIN watchers : v # w => watchers'[v] = watchers[v]

LEMMA WatcherIs ==
  ASSUME NEW p \in Nat, NEW pre \in BOOLEAN
  PROVE  LET x == Watcher(p, pre) IN
         /\ x \in WatcherType /\ x.pipe = p /\ x.pre = pre /\ x.reader = 0
         /\ x.at = "new"
BY DEF Watcher, WatcherType

LEMMA QuitIs ==
  ASSUME PipelinesInv, NEW w \in DOMAIN watchers, Quit(w)
  PROVE  /\ WatcherMoves(w) /\ watchers'[w].at = "done"
         /\ watchers'[w].reader = 0
<1> DEFINE b == Watcher(watchers[w].pipe, watchers[w].pre)
           x == [b EXCEPT !.at = "done"]
<1>1. /\ watchers \in Seq(WatcherType)
      /\ watchers[w].pipe \in Nat /\ watchers[w].pre \in BOOLEAN
  <2>1. Base /\ watchers[w] \in WatcherType
    BY Typing DEF PipelinesInv
  <2> QED
    BY <2>1 DEF Base, Typed, WatcherType
<1>2. /\ b \in WatcherType /\ b.pipe = watchers[w].pipe /\ b.reader = 0
  BY <1>1, WatcherIs
<1>3. watchers' = [watchers EXCEPT ![w] = x]
  BY DEF Quit
<1> HIDE DEF b
<1>4. /\ x \in WatcherType /\ x.pipe = watchers[w].pipe /\ x.reader = 0
      /\ x.at = "done"
  BY <1>2 DEF WatcherType
<1> HIDE DEF x
<1>5. /\ watchers' \in Seq(WatcherType) /\ DOMAIN watchers' = DOMAIN watchers
      /\ watchers'[w] = x
      /\ \A v \in DOMAIN watchers : v # w => watchers'[v] = watchers[v]
  BY <1>1, <1>3, <1>4, OneChanges
<1> QED
  BY <1>4, <1>5, Zenon DEF WatcherMoves

\* What a step of a watcher does to the parts of others.
WatcherGoesOn(w) ==
  /\ WatcherMoves(w) /\ watchers[w].at \notin {"new", "done"}
  /\ watchers'[w].at # "new"
  /\ UNCHANGED <<flagged, open, prompt, thread, ghosts>>
  /\ structured' \in BOOLEAN /\ entry' \in Some(pipes)
  /\ pipes' \in Seq(PipeType) /\ DOMAIN pipes' = DOMAIN pipes
  /\ \A p \in DOMAIN pipes :
       /\ pipes'[p].stopped = pipes[p].stopped
       /\ pipes'[p].ended = pipes[p].ended
       /\ pipes'[p].watcher \in {0, pipes[p].watcher}
  /\ readers' \in Seq(ReaderType) /\ DOMAIN readers \subseteq DOMAIN readers'
  /\ \A r \in DOMAIN readers : /\ readers'[r].pipe = readers[r].pipe
                               /\ readers'[r].gen = readers[r].gen
  /\ \A r \in DOMAIN readers' :
       readers'[r].at = "merges" =>
         r \in DOMAIN readers /\ readers[r].at = "merges"

LEMMA WatcherStepKeeps ==
  ASSUME PipelinesInv, NEW w \in DOMAIN watchers, WatcherGoesOn(w),
         PipesRefer', WatchersRefer', ReadersRefer', BoundHaveReaders',
         Alone => WatcherIsKnown' /\ ReaderIsSet' /\ ReaderIsKnown'
  PROVE  PipelinesInv'
<1> USE DEF WatcherGoesOn
<1>1. Base /\ late' = late /\ late \subseteq DOMAIN readers
  BY DEF PipelinesInv, Base, InRange, EntryRefers, ghosts
<1>2. ASSUME Alone
      PROVE  /\ AwaitedIsForgotten' /\ NewAreStarted' /\ StartedAreNew'
             /\ StopWaits' /\ LateAreAllowed'
  <2>1. AwaitedIsForgotten'
    <3>1. ASSUME NEW c \in Conns, thread[c].at = "await old"
          PROVE  pipes'[thread[c].pipe].watcher = 0
      <4>1. pipes[thread[c].pipe].watcher = 0
        BY <1>2, <3>1 DEF Alone, AwaitedIsForgotten, At, Pipe
      <4>2. thread[c].pipe \in DOMAIN pipes
        BY <1>1, <3>1, Holds DEF Holding, Threads
      <4> QED
        BY <4>1, <4>2
    <3> QED
      BY <3>1 DEF AwaitedIsForgotten, At, Pipe
  <2>2. NewAreStarted'
    BY <1>2 DEF Alone, NewAreStarted, WatcherMoves, At
  <2>3. StartedAreNew'
    <3>1. ASSUME NEW c \in Conns, thread[c].at = "start"
          PROVE  watchers'[thread[c].watcher].at = "new"
      <4>1. watchers[thread[c].watcher].at = "new"
        BY <1>2, <3>1 DEF Alone, StartedAreNew, At
      <4>2. thread[c].watcher \in DOMAIN watchers
        BY <1>1, <3>1 DEF Base, Placed, HoldersHold, InRange, ThreadsRefer,
                          Some, Threads
      <4> QED
        BY <4>1, <4>2 DEF WatcherMoves
    <3> QED
      BY <3>1 DEF StartedAreNew, At
  <2>4. StopWaits'
    <3>1. ASSUME NEW r \in DOMAIN readers', Merges(r)'
          PROVE  /\ ~pipes'[readers'[r].pipe].ended
                 /\ \A t \in Threads :
                      thread[t].pipe = readers'[r].pipe => Waits(t, r)
      <4>1. /\ r \in DOMAIN readers /\ readers[r].at = "merges"
            /\ readers'[r].pipe = readers[r].pipe
            /\ readers[r].pipe \in DOMAIN pipes
        BY <1>1, <3>1 DEF Merges, Base, InRange, ReadersRefer
      <4>2. Merges(r)
        BY <3>1, <4>1 DEF Merges, Allowed
      <4> QED
        BY <1>2, <4>1, <4>2, StopWaitsFor
    <3>2. \A t, r : Waits(t, r)' = Waits(t, r)
      BY DEF Waits
    <3> QED
      BY <3>1, <3>2 DEF StopWaits
  <2>5. LateAreAllowed'
    BY <1>1, <1>2 DEF Alone, LateAreAllowed, Allowed
  <2> QED
    BY <2>1, <2>2, <2>3, <2>4, <2>5
<1>3. late' \subseteq DOMAIN readers'
  BY <1>1
<1>4. UNCHANGED <<flagged, open, prompt, thread, cleared, overlapped>>
  BY DEF ghosts
<1> QED
  BY <1>1, <1>2, <1>3, <1>4, GoroutineKeeps DEF WatcherMoves

\* Its pipeline keeps knowing it.
LEMMA StillKnown ==
  ASSUME PipelinesInv, Alone, NEW w \in DOMAIN watchers, WatcherMoves(w),
         thread' = thread, watchers[w].at # "done",
         \A p \in DOMAIN pipes : pipes'[p].watcher = pipes[p].watcher
  PROVE  WatcherIsKnown'
<1>1. WatchersRefer
  BY DEF PipelinesInv, Base, InRange
<1>2. ASSUME NEW v \in DOMAIN watchers, watchers'[v].at # "done"
      PROVE  \/ pipes'[watchers'[v].pipe].watcher = v
             \/ \E c \in Conns : Awaits(c, v)'
  <2>1. watchers[v].at # "done" /\ watchers'[v].pipe = watchers[v].pipe
    BY <1>2 DEF WatcherMoves
  <2>2. pipes[watchers[v].pipe].watcher = v \/ \E c \in Conns : Awaits(c, v)
    BY <2>1 DEF Alone, WatcherIsKnown
  <2>3. \A c : Awaits(c, v) => Awaits(c, v)'
    BY <2>1 DEF Awaits, At
  <2> QED
    BY <1>1, <2>1, <2>2, <2>3 DEF WatchersRefer
<1> QED
  BY <1>2 DEF WatcherIsKnown, WatcherMoves

LEMMA EndWatcherKeeps ==
  ASSUME PipelinesInv, NEW w \in DOMAIN watchers, watchers[w].at = "polls",
         Quit(w), structured' \in BOOLEAN, entry' \in Some(pipes),
         UNCHANGED <<flagged, open, prompt, pipes, readers, thread, ghosts>>
  PROVE  PipelinesInv'
<1>1. /\ Base /\ WatcherMoves(w) /\ watchers'[w].at = "done"
      /\ watchers'[w].reader = 0
  BY QuitIs DEF PipelinesInv
<1>2. WatcherGoesOn(w)
  BY <1>1 DEF WatcherGoesOn, Base, Typed
<1>3. PipesRefer' /\ WatchersRefer' /\ ReadersRefer'
  BY <1>1 DEF Base, InRange, PipesRefer, WatchersRefer, ReadersRefer,
              WatcherMoves, Some
<1>4. BoundHaveReaders'
  BY <1>1 DEF Base, Placed, BoundHaveReaders, WatcherMoves
<1>5. ASSUME Alone PROVE WatcherIsKnown' /\ ReaderIsSet' /\ ReaderIsKnown'
  <2>1. WatcherIsKnown'
    BY <1>1, <1>5, StillKnown
  <2>2. ReaderIsSet'
    BY <1>1, <1>5 DEF Alone, ReaderIsSet, WatcherMoves
  <2>3. ReaderIsKnown'
    BY <1>5 DEF Alone, ReaderIsKnown
  <2> QED
    BY <2>1, <2>2, <2>3
<1> QED
  BY <1>2, <1>3, <1>4, <1>5, WatcherStepKeeps

LEMMA FailKeeps ==
  ASSUME PipelinesInv, NEW w \in DOMAIN watchers, Fail(w)
  PROVE  PipelinesInv'
<1> DEFINE p == watchers[w].pipe
           x == [pipes[p] EXCEPT !.watcher = 0]
<1>1. /\ watchers[w].at = "polls" /\ Quit(w) /\ Base
      /\ UNCHANGED <<flagged, open, prompt, readers, thread, ghosts>>
  BY DEF Fail, PipelinesInv
<1>2. CASE ~watchers[w].pre
  <2>1. structured' \in BOOLEAN /\ entry' \in Some(pipes) /\ pipes' = pipes
    BY <1>2, EntryIs DEF Fail, Downgraded
  <2> QED
    BY <1>1, <2>1, EndWatcherKeeps
<1>3. CASE watchers[w].pre
  <2>1. p \in DOMAIN pipes /\ pipes[p] \in PipeType
    BY <1>1, Typing DEF Base, InRange, WatchersRefer
  <2>2. /\ x \in PipeType /\ x.watcher = 0 /\ x.reader = pipes[p].reader
        /\ x.stopped = pipes[p].stopped /\ x.ended = pipes[p].ended
    BY <2>1 DEF PipeType
  <2>3. /\ pipes' = [pipes EXCEPT ![p] = x]
        /\ UNCHANGED <<structured, entry>>
    BY <1>3 DEF Fail
  <2> HIDE DEF x
  <2>4. /\ pipes' \in Seq(PipeType) /\ DOMAIN pipes' = DOMAIN pipes
        /\ pipes'[p] = x
        /\ \A q \in DOMAIN pipes : q # p => pipes'[q] = pipes[q]
    BY <1>1, <2>1, <2>2, <2>3, OneChanges DEF Base, Typed
  <2>5. /\ WatcherMoves(w) /\ watchers'[w].at = "done"
        /\ watchers'[w].reader = 0
    BY <1>1, QuitIs
  <2>6. WatcherGoesOn(w)
    BY <1>1, <2>2, <2>3, <2>4, <2>5, EntryIs DEF WatcherGoesOn, Base, Typed
  <2>7. PipesRefer'
    BY <1>1, <2>2, <2>4, <2>5
       DEF Base, InRange, PipesRefer, WatcherMoves, Some
  <2>8. WatchersRefer' /\ ReadersRefer'
    BY <1>1, <2>4, <2>5
       DEF Base, InRange, WatchersRefer, ReadersRefer, WatcherMoves, Some
  <2>9. BoundHaveReaders'
    BY <1>1, <2>5 DEF Base, Placed, BoundHaveReaders, WatcherMoves
  <2>10. ASSUME Alone PROVE WatcherIsKnown' /\ ReaderIsSet' /\ ReaderIsKnown'
    <3>1. ASSUME NEW v \in DOMAIN watchers, watchers'[v].at # "done"
          PROVE  \/ pipes'[watchers'[v].pipe].watcher = v
                 \/ \E c \in Conns : Awaits(c, v)'
      <4>1. /\ v # w /\ watchers'[v] = watchers[v]
            /\ watchers[v].pipe \in DOMAIN pipes
        BY <1>1, <2>5, <3>1 DEF WatcherMoves, Base, InRange, WatchersRefer
      <4>2. watchers[v].pipe # p
        BY <1>1, <2>10, <3>1, <4>1, OneWatcher
      <4>3. \A c : Awaits(c, v) => Awaits(c, v)'
        BY <1>1, <4>1 DEF Awaits, At
      <4> QED
        BY <2>4, <2>10, <3>1, <4>1, <4>2, <4>3 DEF Alone, WatcherIsKnown
    <3>2. WatcherIsKnown'
      BY <2>5, <3>1 DEF WatcherIsKnown, WatcherMoves
    <3>3. \A q \in DOMAIN pipes : pipes'[q].reader = pipes[q].reader
      BY <2>2, <2>4
    <3>4. ReaderIsSet'
      BY <1>1, <2>5, <2>10, <3>3
         DEF Alone, ReaderIsSet, WatcherMoves, Base, InRange, WatchersRefer
    <3>5. ReaderIsKnown'
      BY <1>1, <2>10, <3>3
         DEF Alone, ReaderIsKnown, Base, InRange, ReadersRefer
    <3> QED
      BY <3>2, <3>4, <3>5
  <2> QED
    BY <2>6, <2>7, <2>8, <2>9, <2>10, WatcherStepKeeps
<1> QED
  BY <1>2, <1>3

LEMMA BindKeeps ==
  ASSUME PipelinesInv, NEW w \in DOMAIN watchers, Bind(w)
  PROVE  PipelinesInv'
<1> DEFINE p == watchers[w].pipe
           n == Len(readers) + 1
           x == [pipe |-> p, gen |-> pipes[p].stopped, halt |-> FALSE,
                 at |-> "new"]
           y == [watchers[w] EXCEPT !.at = "bound", !.reader = n]
<1>1. /\ Base /\ watchers[w].at = "polls" /\ p \in DOMAIN pipes
      /\ pipes[p] \in PipeType /\ watchers[w] \in WatcherType
      /\ readers \in Seq(ReaderType) /\ watchers \in Seq(WatcherType)
      /\ UNCHANGED <<session, entry, prompt, pipes, thread, ghosts>>
  BY Typing DEF Bind, PipelinesInv, Base, Typed, InRange, WatchersRefer
<1>2. x \in ReaderType /\ x.pipe = p /\ x.at = "new"
  <2>1. p \in Nat
    BY <1>1 DEF WatcherType
  <2> QED
    BY <1>1, <2>1 DEF ReaderType, PipeType
<1>3. n \in Nat
  BY <1>1
<1>4. /\ readers' = Append(readers, x)
      /\ watchers' = [watchers EXCEPT ![w] = y]
  BY DEF Bind
<1> HIDE DEF x
<1>5. /\ readers' \in Seq(ReaderType) /\ n \notin DOMAIN readers /\ n # 0
      /\ DOMAIN readers' = DOMAIN readers \cup {n} /\ readers'[n] = x
      /\ \A r \in DOMAIN readers : readers'[r] = readers[r]
  BY <1>1, <1>2, <1>4, OneMore
<1> HIDE DEF n
<1>6. y \in WatcherType /\ y.at = "bound" /\ y.reader = n /\ y.pipe = p
  BY <1>1, <1>3 DEF WatcherType
<1> HIDE DEF y
<1>7. /\ watchers' \in Seq(WatcherType)
      /\ DOMAIN watchers' = DOMAIN watchers /\ watchers'[w] = y
      /\ \A v \in DOMAIN watchers : v # w => watchers'[v] = watchers[v]
  BY <1>1, <1>4, <1>6, OneChanges
<1>8. WatcherMoves(w)
  BY <1>6, <1>7 DEF WatcherMoves
<1>9. WatcherGoesOn(w)
  BY <1>1, <1>2, <1>5, <1>6, <1>7, <1>8, EntryIs
     DEF WatcherGoesOn, Base, Typed, session
<1>10. PipesRefer'
  BY <1>1, <1>5, <1>7 DEF Base, InRange, PipesRefer, Some
<1>11. WatchersRefer'
  BY <1>1, <1>5, <1>6, <1>7 DEF Base, InRange, WatchersRefer, Some
<1>12. ReadersRefer'
  BY <1>1, <1>2, <1>5 DEF Base, InRange, ReadersRefer
<1>13. BoundHaveReaders'
  BY <1>1, <1>2, <1>5, <1>6, <1>7
     DEF Base, Placed, BoundHaveReaders, InRange, WatchersRefer, Some
<1>14. ASSUME Alone PROVE WatcherIsKnown' /\ ReaderIsSet' /\ ReaderIsKnown'
  <2>1. WatcherIsKnown'
    BY <1>1, <1>8, <1>14, StillKnown
  <2>2. ReaderIsSet'
    BY <1>1, <1>6, <1>7, <1>14 DEF Alone, ReaderIsSet
  <2>3. ReaderIsKnown'
    BY <1>1, <1>2, <1>5, <1>14 DEF Alone, ReaderIsKnown
  <2> QED
    BY <2>1, <2>2, <2>3
<1> QED
  BY <1>9, <1>10, <1>11, <1>12, <1>13, <1>14, WatcherStepKeeps

LEMMA SetReaderKeeps ==
  ASSUME PipelinesInv, NEW w \in DOMAIN watchers, SetReader(w)
  PROVE  PipelinesInv'
<1> DEFINE p == watchers[w].pipe
           r == watchers[w].reader
           x == [pipes[p] EXCEPT !.reader = r]
           y == [watchers[w] EXCEPT !.at = "set"]
<1>1. /\ Base /\ watchers[w].at = "bound" /\ p \in DOMAIN pipes
      /\ pipes[p] \in PipeType /\ watchers[w] \in WatcherType
      /\ pipes \in Seq(PipeType) /\ watchers \in Seq(WatcherType)
      /\ UNCHANGED <<session, entry, prompt, readers, thread, ghosts>>
  BY Typing DEF SetReader, PipelinesInv, Base, Typed, InRange, WatchersRefer
<1>2. r \in Some(readers) /\ r # 0 /\ readers[r].pipe = p /\ r \in Nat
  BY <1>1 DEF Base, InRange, WatchersRefer, Placed, BoundHaveReaders,
              WatcherType
<1>3. /\ x \in PipeType /\ x.reader = r /\ x.watcher = pipes[p].watcher
      /\ x.stopped = pipes[p].stopped /\ x.ended = pipes[p].ended
  BY <1>1, <1>2 DEF PipeType
<1>4. y \in WatcherType /\ y.at = "set" /\ y.reader = r /\ y.pipe = p
  BY <1>1 DEF WatcherType
<1>5. /\ pipes' = [pipes EXCEPT ![p] = x]
      /\ watchers' = [watchers EXCEPT ![w] = y]
  BY DEF SetReader
<1> HIDE DEF x, y
<1>6. /\ pipes' \in Seq(PipeType) /\ DOMAIN pipes' = DOMAIN pipes
      /\ pipes'[p] = x
      /\ \A q \in DOMAIN pipes : q # p => pipes'[q] = pipes[q]
  BY <1>1, <1>3, <1>5, OneChanges
<1>7. /\ watchers' \in Seq(WatcherType)
      /\ DOMAIN watchers' = DOMAIN watchers /\ watchers'[w] = y
      /\ \A v \in DOMAIN watchers : v # w => watchers'[v] = watchers[v]
  BY <1>1, <1>4, <1>5, OneChanges
<1>8. WatcherMoves(w)
  BY <1>4, <1>7 DEF WatcherMoves
<1>9. WatcherGoesOn(w)
  BY <1>1, <1>3, <1>4, <1>6, <1>7, <1>8, EntryIs
     DEF WatcherGoesOn, Base, Typed, session
<1>10. PipesRefer'
  BY <1>1, <1>2, <1>3, <1>6, <1>7 DEF Base, InRange, PipesRefer, Some
<1>11. WatchersRefer' /\ ReadersRefer'
  BY <1>1, <1>4, <1>6, <1>7
     DEF Base, InRange, WatchersRefer, ReadersRefer, Some
<1>12. BoundHaveReaders'
  BY <1>1, <1>2, <1>4, <1>7 DEF Base, Placed, BoundHaveReaders
<1>13. ASSUME Alone PROVE WatcherIsKnown' /\ ReaderIsSet' /\ ReaderIsKnown'
  <2>1. \A q \in DOMAIN pipes : pipes'[q].watcher = pipes[q].watcher
    BY <1>3, <1>6
  <2>2. WatcherIsKnown'
    BY <1>1, <1>8, <1>13, <2>1, StillKnown
  <2>3. pipes[p].reader = 0
    BY <1>1, <1>13 DEF Alone, ReaderIsSet
  <2>4. ASSUME NEW v \in DOMAIN watchers, v # w, watchers[v].at # "done"
        PROVE  watchers[v].pipe # p
    BY <1>1, <1>13, <2>4, OneWatcher
  <2>5. ASSUME NEW v \in DOMAIN watchers
        PROVE  LET q == watchers'[v].pipe IN
               /\ watchers'[v].at \in {"new", "polls", "bound"} =>
                    pipes'[q].reader = 0
               /\ watchers'[v].at = "set" =>
                    pipes'[q].reader = watchers'[v].reader
    <3>1. CASE v = w
      BY <1>3, <1>4, <1>6, <1>7, <3>1
    <3>2. CASE v # w
      <4>1. watchers'[v] = watchers[v] /\ watchers[v].pipe \in DOMAIN pipes
        BY <1>1, <1>7, <3>2 DEF Base, InRange, WatchersRefer
      <4>2. CASE watchers[v].at = "done"
        BY <4>1, <4>2
      <4>3. CASE watchers[v].at # "done"
        <5>1. pipes'[watchers[v].pipe] = pipes[watchers[v].pipe]
          BY <1>6, <2>4, <3>2, <4>1, <4>3
        <5> QED
          BY <1>13, <4>1, <5>1 DEF Alone, ReaderIsSet
      <4> QED
        BY <4>2, <4>3
    <3> QED
      BY <3>1, <3>2
  <2>6. ReaderIsSet'
    BY <1>7, <2>5 DEF ReaderIsSet
  <2>7. ReaderIsKnown'
    <3>1. ASSUME NEW q \in DOMAIN readers,
                 readers[q].at \in {"polls", "merges"}
          PROVE  pipes'[readers[q].pipe].reader = q
      <4>1. pipes[readers[q].pipe].reader = q /\ q # 0
            /\ readers[q].pipe \in DOMAIN pipes
        BY <1>1, <1>13, <3>1, Typing
           DEF Alone, ReaderIsKnown, Base, InRange, ReadersRefer
      <4> QED
        BY <1>6, <2>3, <4>1
    <3> QED
      BY <1>1, <3>1 DEF ReaderIsKnown
  <2> QED
    BY <2>2, <2>6, <2>7
<1> QED
  BY <1>9, <1>10, <1>11, <1>12, <1>13, WatcherStepKeeps

LEMMA StartReaderKeeps ==
  ASSUME PipelinesInv, NEW w \in DOMAIN watchers, StartReader(w)
  PROVE  PipelinesInv'
<1> DEFINE p == watchers[w].pipe
           r == watchers[w].reader
           x == [readers[r] EXCEPT !.at = "polls"]
<1>1. /\ Base /\ watchers[w].at = "set" /\ p \in DOMAIN pipes
      /\ readers \in Seq(ReaderType)
      /\ UNCHANGED <<session, entry, prompt, pipes, thread, ghosts>>
      /\ WatcherMoves(w) /\ watchers'[w].at = "done"
      /\ watchers'[w].reader = 0
  BY QuitIs DEF StartReader, PipelinesInv, Base, Typed, InRange,
                WatchersRefer
<1>2. r \in DOMAIN readers /\ readers[r].pipe = p /\ readers[r] \in ReaderType
  BY <1>1, Typing DEF Base, InRange, WatchersRefer, Placed, BoundHaveReaders,
                      Some
<1>3. /\ x \in ReaderType /\ x.pipe = p /\ x.gen = readers[r].gen
      /\ x.at = "polls"
  BY <1>2 DEF ReaderType
<1>4. readers' = [readers EXCEPT ![r] = x]
  BY DEF StartReader
<1> HIDE DEF x
<1>5. /\ readers' \in Seq(ReaderType) /\ DOMAIN readers' = DOMAIN readers
      /\ readers'[r] = x
      /\ \A q \in DOMAIN readers : q # r => readers'[q] = readers[q]
  BY <1>1, <1>2, <1>3, <1>4, OneChanges
<1>6. WatcherGoesOn(w)
  BY <1>1, <1>2, <1>3, <1>5, EntryIs
     DEF WatcherGoesOn, Base, Typed, session
<1>7. PipesRefer' /\ WatchersRefer'
  BY <1>1, <1>5
     DEF Base, InRange, PipesRefer, WatchersRefer, WatcherMoves, Some
<1>8. ReadersRefer'
  BY <1>1, <1>3, <1>5 DEF Base, InRange, ReadersRefer
<1>9. BoundHaveReaders'
  BY <1>1, <1>2, <1>3, <1>5
     DEF Base, Placed, BoundHaveReaders, InRange, WatchersRefer,
         WatcherMoves, Some
<1>10. ASSUME Alone PROVE WatcherIsKnown' /\ ReaderIsSet' /\ ReaderIsKnown'
  <2>1. WatcherIsKnown'
    BY <1>1, <1>10, StillKnown
  <2>2. ReaderIsSet'
    BY <1>1, <1>10 DEF Alone, ReaderIsSet, WatcherMoves
  <2>3. pipes[p].reader = r
    BY <1>1, <1>10 DEF Alone, ReaderIsSet
  <2>4. ReaderIsKnown'
    BY <1>1, <1>3, <1>5, <1>10, <2>3 DEF Alone, ReaderIsKnown
  <2> QED
    BY <2>1, <2>2, <2>4
<1> QED
  BY <1>6, <1>7, <1>8, <1>9, <1>10, WatcherStepKeeps

-----------------------------------------------------------------------------
(* Steps of a handler that make, halt or start a watcher.                  *)

\* Pipelines and watchers may be added; of those there are, only what a
\* pipeline knows of its watcher changes, and a new watcher may start.
Adds ==
  /\ pipes' \in Seq(PipeType) /\ DOMAIN pipes \subseteq DOMAIN pipes'
  /\ \A p \in DOMAIN pipes : /\ pipes'[p].stopped = pipes[p].stopped
                             /\ pipes'[p].ended = pipes[p].ended
                             /\ pipes'[p].reader = pipes[p].reader
  /\ \A p \in DOMAIN pipes' \ DOMAIN pipes :
       ~pipes'[p].ended /\ pipes'[p].reader = 0
  /\ watchers' \in Seq(WatcherType)
  /\ DOMAIN watchers \subseteq DOMAIN watchers'
  /\ \A w \in DOMAIN watchers :
       /\ watchers'[w].pipe = watchers[w].pipe
       /\ watchers'[w].reader = watchers[w].reader
       /\ \/ watchers'[w].at = watchers[w].at
          \/ /\ Alone => watchers[w].at = "new"
             /\ watchers'[w].at = "polls"
  /\ \A w \in DOMAIN watchers' \ DOMAIN watchers :
       /\ watchers'[w].at \in {"new", "polls"}
       /\ pipes'[watchers'[w].pipe].reader = 0
  /\ readers' = readers

LEMMA AddingKeeps ==
  ASSUME PipelinesInv, NEW t \in Threads, Moves(t), Adds,
         t \in Conns => InFlight(t),
         UNCHANGED <<flagged, open, prompt, ghosts>>,
         structured' \in BOOLEAN, entry' \in Some(pipes),
         thread[t].at \notin Halting, thread'[t].at \notin Halting,
         thread'[t].pipe \in Some(pipes)',
         thread'[t].watcher \in Some(watchers)',
         thread'[t].reader \in Some(readers),
         thread'[t].at \in Holding => thread'[t].pipe # 0,
         thread'[t].at = "start" => thread'[t].watcher # 0,
         PipesRefer', WatchersRefer',
         Alone => /\ WatcherIsKnown' /\ AwaitedIsForgotten'
                  /\ NewAreStarted' /\ StartedAreNew'
  PROVE  PipelinesInv'
<1>1. Base /\ late' = late
  BY DEF PipelinesInv, ghosts
<1>2. Typed'
  BY <1>1 DEF Base, Typed, Moves, Adds, ghosts
<1>3. EntryRefers' /\ ReadersRefer'
  BY <1>1 DEF Base, InRange, EntryRefers, ReadersRefer, Adds, Some
<1>4. ThreadsRefer'
  BY <1>1 DEF Base, InRange, ThreadsRefer, Moves, Adds, Some
<1>5. HoldersHold'
  BY <1>1 DEF Base, Placed, HoldersHold, Moves
<1>6. HaltersStopped'
  <2>1. ASSUME NEW u \in Threads, thread'[u].at \in Halting
        PROVE  Pipe(u)'.stopped
    <3>1. u # t /\ thread'[u] = thread[u]
      BY <2>1 DEF Moves
    <3>2. thread[u].pipe \in DOMAIN pipes /\ pipes[thread[u].pipe].stopped
      BY <2>1, <3>1, Halts
    <3> QED
      BY <3>1, <3>2 DEF Adds, Pipe
  <2> QED
    BY <2>1 DEF HaltersStopped
<1>7. EndedAreStopped'
  BY <1>1 DEF Base, Placed, EndedAreStopped, Adds
<1>8. BoundHaveReaders'
  BY <1>1 DEF Base, Placed, BoundHaveReaders, Adds
<1>9. Recorded' /\ (~overlapped' => ~overlapped /\ OneHandler')
  BY SameHandlers DEF ghosts
<1>10. ASSUME Alone
       PROVE  ReaderIsSet' /\ ReaderIsKnown' /\ StopWaits' /\ LateAreAllowed'
  <2>1. ReaderIsSet'
    <3>1. ASSUME NEW w \in DOMAIN watchers
          PROVE  LET p == watchers'[w].pipe IN
                 /\ watchers'[w].at \in {"new", "polls", "bound"} =>
                      pipes'[p].reader = 0
                 /\ watchers'[w].at = "set" =>
                      pipes'[p].reader = watchers'[w].reader
      <4>1. watchers[w].pipe \in DOMAIN pipes
        BY <1>1 DEF Base, InRange, WatchersRefer
      <4> QED
        BY <1>10, <4>1 DEF Alone, ReaderIsSet, Adds
    <3> QED
      BY <3>1 DEF ReaderIsSet, Adds
  <2>2. \A r \in DOMAIN readers :
          /\ readers[r].pipe \in DOMAIN pipes
          /\ pipes'[readers[r].pipe].reader = pipes[readers[r].pipe].reader
          /\ pipes'[readers[r].pipe].ended = pipes[readers[r].pipe].ended
          /\ pipes'[readers[r].pipe].stopped
               = pipes[readers[r].pipe].stopped
    BY <1>1 DEF Base, InRange, ReadersRefer, Adds
  <2>3. ReaderIsKnown'
    BY <1>10, <2>2 DEF Alone, ReaderIsKnown, Adds
  <2>4. StopWaits'
    <3>1. ASSUME NEW r \in DOMAIN readers, Merges(r)'
          PROVE  /\ ~pipes'[readers[r].pipe].ended
                 /\ \A u \in Threads :
                      thread'[u].pipe = readers[r].pipe => Waits(u, r)'
      <4>1. Merges(r)
        BY <2>2, <3>1 DEF Merges, Allowed, Adds
      <4>2. /\ ~pipes[readers[r].pipe].ended
            /\ \A u \in Threads :
                 thread[u].pipe = readers[r].pipe => Waits(u, r)
        BY <1>10, <4>1, StopWaitsFor
      <4>3. Waits(t, r)'
        BY DEF Waits, Halting
      <4> QED
        BY <2>2, <4>2, <4>3 DEF Moves, Waits
    <3> QED
      BY <3>1 DEF StopWaits, Adds
  <2>5. LateAreAllowed'
    BY <1>1, <1>10 DEF Alone, LateAreAllowed, Allowed, Adds
  <2> QED
    BY <2>1, <2>3, <2>4, <2>5
<1>11. overlapped' \/ Alone'
  BY <1>9, <1>10 DEF PipelinesInv, Alone
<1> QED
  BY <1>2, <1>3, <1>4, <1>5, <1>6, <1>7, <1>8, <1>9, <1>11
     DEF PipelinesInv, Base, InRange, Placed

\* Nobody but the handler in flight waits for, or is about to start, a
\* watcher.
LEMMA NobodyElse ==
  ASSUME Alone, NEW c \in Conns, InFlight(c), NEW d \in Conns, d # c
  PROVE  thread[d].at = "idle" /\ ~At(d, "start") /\ ~At(d, "await old")
BY DEF Alone, OneHandler, InFlight, At

\* What ensurePipeline does when it makes a pipeline.
Makes(t, made) ==
  /\ IF made THEN UNCHANGED <<entry, structured>> ELSE Downgraded
  /\ watchers' = IF ~made THEN watchers ELSE
       Append(watchers, [Watcher(Len(pipes) + 1, TRUE)
                           EXCEPT !.at = "polls"])
  /\ pipes' = Append(pipes,
       [stopped |-> FALSE, prompted |-> FALSE, ended |-> FALSE,
        watcher |-> IF made THEN Len(watchers) + 1 ELSE 0, reader |-> 0])
  /\ thread' = [thread EXCEPT ![t].at = "insert",
                              ![t].pipe = Len(pipes) + 1]

LEMMA MakeKeeps ==
  ASSUME PipelinesInv, NEW t \in {"output"} \cup Conns, At(t, "ensure"),
         NEW made \in BOOLEAN, Makes(t, made),
         UNCHANGED <<readers, flagged, open, prompt, ghosts>>
  PROVE  PipelinesInv'
<1> DEFINE p == Len(pipes) + 1
           w == Len(watchers) + 1
           k == IF made THEN w ELSE 0
           x == [stopped |-> FALSE, prompted |-> FALSE, ended |-> FALSE,
                 watcher |-> k, reader |-> 0]
           b == Watcher(p, TRUE)
           y == [b EXCEPT !.at = "polls"]
<1>1. /\ Base /\ t \in Threads /\ thread[t].at = "ensure"
      /\ thread[t] \in ThreadType /\ pipes \in Seq(PipeType)
      /\ watchers \in Seq(WatcherType)
      /\ thread \in [Threads -> ThreadType]
  BY Typing DEF Threads, At, PipelinesInv, Base, Typed
<1>2. p \in Nat /\ w \in Nat
  BY <1>1
<1>3. /\ thread' = [thread EXCEPT ![t].at = "insert", ![t].pipe = p]
      /\ pipes' = Append(pipes, x)
      /\ ~made => watchers' = watchers
      /\ made => watchers' = Append(watchers, y)
  BY DEF Makes
<1>4. /\ x \in PipeType /\ ~x.ended /\ x.reader = 0 /\ x.watcher = k
  BY <1>2 DEF PipeType
<1>5. b \in WatcherType /\ b.pipe = p /\ b.reader = 0
  BY <1>2, WatcherIs
<1> HIDE DEF b
<1>6. /\ y \in WatcherType /\ y.at = "polls" /\ y.pipe = p /\ y.reader = 0
  BY <1>5 DEF WatcherType
<1> HIDE DEF x, y
<1>7. /\ pipes' \in Seq(PipeType) /\ p \notin DOMAIN pipes /\ p # 0
      /\ DOMAIN pipes' = DOMAIN pipes \cup {p} /\ pipes'[p] = x
      /\ \A q \in DOMAIN pipes : pipes'[q] = pipes[q]
  BY <1>1, <1>3, <1>4, OneMore
<1>8. ASSUME made
      PROVE  /\ watchers' \in Seq(WatcherType)
             /\ w \notin DOMAIN watchers /\ w # 0
             /\ DOMAIN watchers' = DOMAIN watchers \cup {w}
             /\ watchers'[w] = y
             /\ \A v \in DOMAIN watchers : watchers'[v] = watchers[v]
  <2>1. watchers' = Append(watchers, y)
    BY <1>3, <1>8
  <2> QED
    BY <1>1, <1>6, <2>1, OneMore
<1>9. /\ Moves(t) /\ thread'[t].at = "insert" /\ thread'[t].pipe = p
      /\ thread'[t].watcher = thread[t].watcher
      /\ thread'[t].reader = thread[t].reader
  BY <1>1, <1>2, <1>3 DEF Moves, ThreadType, Steps
<1>10. ~made => watchers' = watchers
  BY <1>3
<1>11. k = IF made THEN w ELSE 0
  OBVIOUS
<1> HIDE DEF p, w, k
<1>12. Adds
  BY <1>1, <1>4, <1>6, <1>7, <1>8, <1>10 DEF Adds
<1>13. structured' \in BOOLEAN /\ entry' \in Some(pipes)
  BY EntryIs DEF Makes, Downgraded
<1>14. PipesRefer'
  BY <1>1, <1>4, <1>7, <1>8, <1>10, <1>11
     DEF Base, InRange, PipesRefer, Some
<1>15. WatchersRefer'
  BY <1>1, <1>6, <1>7, <1>8, <1>10 DEF Base, InRange, WatchersRefer, Some
<1>16. ASSUME Alone
       PROVE  /\ WatcherIsKnown' /\ AwaitedIsForgotten' /\ NewAreStarted'
              /\ StartedAreNew'
  <2>1. \A c \in Conns : At(c, "start") \/ At(c, "await old")
                           \/ At(c, "start")' \/ At(c, "await old")' =>
          c \in Threads /\ c # t /\ thread'[c] = thread[c]
    BY <1>1, <1>9 DEF Moves, At, Threads
  <2>2. WatcherIsKnown'
    <3>1. ASSUME NEW v \in DOMAIN watchers, watchers[v].at # "done"
          PROVE  \/ pipes'[watchers[v].pipe].watcher = v
                 \/ \E c \in Conns : Awaits(c, v)'
      <4>1. watchers[v].pipe \in DOMAIN pipes /\ watchers'[v] = watchers[v]
        BY <1>1, <1>8, <1>10 DEF Base, InRange, WatchersRefer
      <4>2. \A c \in Conns : Awaits(c, v) => Awaits(c, v)'
        BY <2>1, <4>1 DEF Awaits, At
      <4> QED
        BY <1>7, <1>16, <3>1, <4>1, <4>2 DEF Alone, WatcherIsKnown
    <3> QED
      BY <1>4, <1>6, <1>7, <1>8, <1>10, <1>11, <3>1 DEF WatcherIsKnown
  <2>3. AwaitedIsForgotten'
    <3>1. ASSUME NEW c \in Conns, At(c, "await old")'
          PROVE  Pipe(c)'.watcher = 0
      <4>1. c \in Threads /\ thread'[c] = thread[c] /\ At(c, "await old")
        BY <2>1, <3>1 DEF At
      <4>2. thread[c].pipe \in DOMAIN pipes
        BY <1>1, <4>1, Holds DEF Holding, At
      <4> QED
        BY <1>7, <1>16, <4>1, <4>2 DEF Alone, AwaitedIsForgotten, Pipe
    <3> QED
      BY <3>1 DEF AwaitedIsForgotten
  <2>4. NewAreStarted'
    <3>1. ASSUME NEW v \in DOMAIN watchers, watchers[v].at = "new"
          PROVE  \E c \in Conns : At(c, "start")' /\ thread'[c].watcher = v
      <4>1. PICK c \in Conns : At(c, "start") /\ thread[c].watcher = v
        BY <1>16, <3>1 DEF Alone, NewAreStarted
      <4> QED
        BY <2>1, <4>1 DEF At
    <3> QED
      BY <1>6, <1>8, <1>10, <3>1 DEF NewAreStarted
  <2>5. StartedAreNew'
    <3>1. ASSUME NEW c \in Conns, At(c, "start")'
          PROVE  watchers'[thread'[c].watcher].at = "new"
      <4>1. c \in Threads /\ thread'[c] = thread[c] /\ At(c, "start")
        BY <2>1, <3>1 DEF At
      <4>2. thread[c].watcher \in DOMAIN watchers
        BY <1>1, <4>1 DEF Base, InRange, ThreadsRefer, Placed, HoldersHold,
                          At, Some
      <4> QED
        BY <1>8, <1>10, <1>16, <4>1, <4>2 DEF Alone, StartedAreNew
    <3> QED
      BY <3>1 DEF StartedAreNew
  <2> QED
    BY <2>2, <2>3, <2>4, <2>5
<1>17. /\ thread'[t].pipe \in Some(pipes)'
       /\ thread'[t].watcher \in Some(watchers)'
       /\ thread'[t].reader \in Some(readers)
       /\ thread'[t].pipe # 0
  BY <1>1, <1>7, <1>8, <1>9, <1>10, EntryIs DEF Some
<1>18. t \in Conns => InFlight(t)
  BY <1>1 DEF InFlight
<1> QED
  BY <1>1, <1>9, <1>12, <1>13, <1>14, <1>15, <1>16, <1>17, <1>18,
     AddingKeeps DEF Halting

LEMMA EnsureKeeps ==
  ASSUME PipelinesInv, NEW t \in {"output"} \cup Conns, Ensure(t)
  PROVE  PipelinesInv'
<1>1. CASE /\ entry # 0 /\ Return(t)
           /\ UNCHANGED <<session, entry, objects>>
  BY <1>1, EnsuredKeeps DEF Ensure
<1>2. CASE ~(/\ entry # 0 /\ Return(t)
             /\ UNCHANGED <<session, entry, objects>>)
  BY <1>2, MakeKeeps DEF Ensure, Makes
<1> QED
  BY <1>1, <1>2

LEMMA SeedKeeps ==
  ASSUME PipelinesInv, NEW c \in Conns, Seed(c)
  PROVE  PipelinesInv'
<1> DEFINE p == thread[c].pipe
           restart == /\ pipes[p].reader = 0
                      /\ ~pipes[p].prompted \/ pipes[p].watcher = 0
           k == pipes[p].watcher
           old == IF restart /\ k # 0 /\ watchers[k].at # "new" THEN k ELSE 0
           at == IF restart THEN "await old" ELSE "bubble"
           x == [pipes[p] EXCEPT !.prompted = TRUE,
                                 !.watcher = IF restart THEN 0 ELSE @]
           y == [watchers[old] EXCEPT !.halt = TRUE]
<1>1. /\ Base /\ c \in Threads /\ thread[c].at = "seed"
      /\ thread \in [Threads -> ThreadType] /\ thread[c] \in ThreadType
      /\ p \in DOMAIN pipes /\ pipes[p] \in PipeType /\ p # 0
      /\ pipes \in Seq(PipeType) /\ watchers \in Seq(WatcherType)
  <2>1. Base /\ c \in Threads /\ thread[c].at = "seed"
    BY DEF Seed, At, Threads, PipelinesInv
  <2> QED
    BY <2>1, Holds, Typing DEF Base, Typed, Holding, Pipe
<1>2. UNCHANGED <<session, entry, prompt, readers, ghosts>>
  BY DEF Seed
<1>3. k \in Some(watchers) /\ k \in Nat
  BY <1>1 DEF Base, InRange, PipesRefer, PipeType
<1>4. /\ pipes' = [pipes EXCEPT ![p] = x]
      /\ old = 0 => watchers' = watchers
      /\ old # 0 => watchers' = [watchers EXCEPT ![old] = y]
      /\ thread' = [thread EXCEPT ![c].watcher = old, ![c].at = at]
  BY DEF Seed, Pipe
<1>5. restart \in BOOLEAN
  BY <1>1 DEF PipeType
<1>6. /\ x \in PipeType /\ x.reader = pipes[p].reader
      /\ x.stopped = pipes[p].stopped /\ x.ended = pipes[p].ended
      /\ x.watcher = IF restart THEN 0 ELSE k
  <2> HIDE DEF restart
  <2> QED
    BY <1>1, <1>3, <1>5 DEF PipeType
<1>7. /\ at = IF restart THEN "await old" ELSE "bubble"
      /\ old = IF restart /\ k # 0 /\ watchers[k].at # "new" THEN k ELSE 0
      /\ k = pipes[p].watcher
  OBVIOUS
<1> HIDE DEF x, at, restart, old, k
<1>8. /\ old \in Nat /\ old \in Some(watchers)
      /\ old # 0 => old = k
      /\ at \in {"await old", "bubble"} /\ at \in Steps
  BY <1>3, <1>7, EntryIs DEF Steps
<1>9. /\ pipes' \in Seq(PipeType) /\ DOMAIN pipes' = DOMAIN pipes
      /\ pipes'[p] = x
      /\ \A q \in DOMAIN pipes : q # p => pipes'[q] = pipes[q]
  BY <1>1, <1>4, <1>6, OneChanges
<1>10. /\ watchers' \in Seq(WatcherType)
       /\ DOMAIN watchers' = DOMAIN watchers
       /\ \A v \in DOMAIN watchers :
            /\ watchers'[v].pipe = watchers[v].pipe
            /\ watchers'[v].reader = watchers[v].reader
            /\ watchers'[v].at = watchers[v].at
  <2>1. CASE old = 0
    BY <1>1, <1>4, <2>1
  <2>2. CASE old # 0
    <3>1. old \in DOMAIN watchers /\ watchers[old] \in WatcherType
      BY <1>1, <1>8, <2>2, Typing DEF Some
    <3>2. /\ y \in WatcherType /\ y.pipe = watchers[old].pipe
          /\ y.reader = watchers[old].reader /\ y.at = watchers[old].at
      BY <3>1 DEF WatcherType
    <3>3. watchers' = [watchers EXCEPT ![old] = y]
      BY <1>4, <2>2
    <3> HIDE DEF y
    <3>4. /\ watchers' \in Seq(WatcherType)
          /\ DOMAIN watchers' = DOMAIN watchers /\ watchers'[old] = y
          /\ \A v \in DOMAIN watchers : v # old => watchers'[v] = watchers[v]
      BY <1>1, <3>1, <3>2, <3>3, OneChanges
    <3> QED
      BY <3>2, <3>4
  <2> QED
    BY <2>1, <2>2
<1>11. /\ Moves(c) /\ thread'[c].at = at /\ thread'[c].pipe = p
       /\ thread'[c].watcher = old /\ thread'[c].reader = thread[c].reader
  BY <1>1, <1>4, <1>8 DEF Moves, ThreadType
<1> HIDE DEF p
<1>12. Adds
  BY <1>1, <1>2, <1>6, <1>9, <1>10 DEF Adds
<1>13. PipesRefer' /\ WatchersRefer'
  <2>1. PipesRefer'
    BY <1>1, <1>2, <1>3, <1>6, <1>9, <1>10, EntryIs
       DEF Base, InRange, PipesRefer, Some
  <2>2. WatchersRefer'
    BY <1>1, <1>2, <1>9, <1>10 DEF Base, InRange, WatchersRefer, Some
  <2> QED
    BY <2>1, <2>2
<1>14. ASSUME Alone
       PROVE  /\ WatcherIsKnown' /\ AwaitedIsForgotten' /\ NewAreStarted'
              /\ StartedAreNew'
  <2>1. InFlight(c)
    BY <1>1 DEF InFlight
  <2>2. \A d \in Conns : d # c => /\ ~At(d, "start") /\ ~At(d, "await old")
                                  /\ thread'[d] = thread[d]
    BY <1>11, <1>14, <2>1, NobodyElse DEF Moves, Threads
  <2>3. ~At(c, "start") /\ ~At(c, "await old") /\ ~At(c, "start")'
    BY <1>1, <1>8, <1>11 DEF At
  <2>4. \A v \in DOMAIN watchers : watchers[v].at # "new"
    BY <1>14, <2>2, <2>3 DEF Alone, NewAreStarted
  <2>5. ASSUME NEW v \in DOMAIN watchers, watchers[v].at # "done"
        PROVE  \/ pipes'[watchers[v].pipe].watcher = v
               \/ \E d \in Conns : Awaits(d, v)'
    <3>1. pipes[watchers[v].pipe].watcher = v /\ v # 0
          /\ watchers[v].pipe \in DOMAIN pipes
      BY <1>1, <1>14, <2>2, <2>3, <2>5, Typing
         DEF Alone, WatcherIsKnown, Awaits, Base, InRange, WatchersRefer
    <3>2. CASE watchers[v].pipe = p /\ restart
      <4>1. k = v /\ old = v /\ thread'[c].at = "await old"
        BY <1>7, <1>11, <2>4, <3>1, <3>2
      <4>2. Awaits(c, v)'
        BY <1>10, <1>11, <3>2, <4>1 DEF Awaits, At
      <4> QED
        BY <4>2
    <3>3. CASE ~(watchers[v].pipe = p /\ restart)
      BY <1>6, <1>7, <1>9, <3>1, <3>3
    <3> QED
      BY <3>2, <3>3
  <2>6. WatcherIsKnown'
    BY <1>10, <2>5 DEF WatcherIsKnown
  <2>7. AwaitedIsForgotten'
    <3>1. at = "await old" => pipes'[p].watcher = 0
      BY <1>6, <1>7, <1>9
    <3> QED
      BY <1>11, <2>2, <3>1 DEF AwaitedIsForgotten, At, Pipe
  <2>8. NewAreStarted'
    BY <1>10, <2>4 DEF NewAreStarted
  <2>9. StartedAreNew'
    BY <2>2, <2>3 DEF StartedAreNew, At
  <2> QED
    BY <2>6, <2>7, <2>8, <2>9
<1>15. /\ thread'[c].pipe \in Some(pipes)'
       /\ thread'[c].watcher \in Some(watchers)'
       /\ thread'[c].reader \in Some(readers)
  BY <1>1, <1>8, <1>9, <1>10, <1>11, EntryIs DEF Some
<1>16. structured' \in BOOLEAN /\ entry' \in Some(pipes)
       /\ flagged' = flagged /\ open' = open
  BY <1>2, EntryIs DEF session
<1>17. InFlight(c)
  BY <1>1 DEF InFlight
<1> QED
  BY <1>1, <1>2, <1>8, <1>11, <1>12, <1>13, <1>14, <1>15, <1>16, <1>17,
     AddingKeeps DEF Halting

LEMMA StartWatcherKeeps ==
  ASSUME PipelinesInv, NEW c \in Conns, StartWatcher(c)
  PROVE  PipelinesInv'
<1> DEFINE w == thread[c].watcher
           y == [watchers[w] EXCEPT !.at = "polls"]
<1>1. /\ Base /\ c \in Threads /\ thread[c].at = "start"
      /\ thread[c] \in ThreadType /\ thread \in [Threads -> ThreadType]
      /\ watchers \in Seq(WatcherType) /\ pipes \in Seq(PipeType)
  BY Typing DEF StartWatcher, At, Threads, PipelinesInv, Base, Typed
<1>2. w \in DOMAIN watchers /\ watchers[w] \in WatcherType /\ w # 0
  BY <1>1, Typing DEF Base, InRange, ThreadsRefer, Placed, HoldersHold, Some
<1>3. /\ watchers' = [watchers EXCEPT ![w] = y]
      /\ thread' = [thread EXCEPT ![c].at = "bubble", ![c].watcher = 0]
      /\ UNCHANGED <<session, entry, prompt, pipes, readers, ghosts>>
  BY DEF StartWatcher
<1>4. /\ y \in WatcherType /\ y.pipe = watchers[w].pipe
      /\ y.reader = watchers[w].reader /\ y.at = "polls"
  BY <1>2 DEF WatcherType
<1> HIDE DEF y
<1>5. /\ watchers' \in Seq(WatcherType) /\ DOMAIN watchers' = DOMAIN watchers
      /\ watchers'[w] = y
      /\ \A v \in DOMAIN watchers : v # w => watchers'[v] = watchers[v]
  BY <1>1, <1>2, <1>3, <1>4, OneChanges
<1>6. /\ Moves(c) /\ thread'[c].at = "bubble"
      /\ thread'[c].pipe = thread[c].pipe /\ thread'[c].watcher = 0
      /\ thread'[c].reader = thread[c].reader
  BY <1>1, <1>3 DEF Moves, ThreadType, Steps
<1> HIDE DEF w
<1>7. Adds
  <2>1. Alone => watchers[w].at = "new"
    BY <1>1 DEF Alone, StartedAreNew, At, StartWatcher, w
  <2> QED
    BY <1>1, <1>2, <1>3, <1>4, <1>5, <2>1 DEF Adds, objects
<1>8. PipesRefer' /\ WatchersRefer'
  BY <1>1, <1>3, <1>4, <1>5
     DEF Base, InRange, PipesRefer, WatchersRefer, Some
<1>9. ASSUME Alone
      PROVE  /\ WatcherIsKnown' /\ AwaitedIsForgotten' /\ NewAreStarted'
             /\ StartedAreNew'
  <2>1. InFlight(c) /\ ~At(c, "start")' /\ ~At(c, "await old")
        /\ ~At(c, "await old")'
    BY <1>1, <1>6 DEF InFlight, At
  <2>2. \A d \in Conns : d # c => /\ ~At(d, "start") /\ ~At(d, "await old")
                                  /\ thread'[d] = thread[d]
    BY <1>6, <1>9, <2>1, NobodyElse DEF Moves, Threads
  <2>3. WatcherIsKnown'
    <3>1. \A v, d : d \in Conns => ~Awaits(d, v)
      BY <2>1, <2>2 DEF Awaits
    <3>2. watchers[w].at = "new"
      BY <1>1, <1>9 DEF Alone, StartedAreNew, At, w
    <3> QED
      BY <1>3, <1>4, <1>5, <1>9, <3>1, <3>2 DEF Alone, WatcherIsKnown
  <2>4. AwaitedIsForgotten'
    BY <2>1, <2>2 DEF AwaitedIsForgotten, At
  <2>5. NewAreStarted'
    <3>1. \A v \in DOMAIN watchers : watchers[v].at = "new" => v = w
      BY <1>9, <2>2 DEF Alone, NewAreStarted, w
    <3> QED
      BY <1>4, <1>5, <3>1 DEF NewAreStarted
  <2>6. StartedAreNew'
    BY <2>1, <2>2 DEF StartedAreNew, At
  <2> QED
    BY <2>3, <2>4, <2>5, <2>6
<1>10. /\ thread'[c].pipe \in Some(pipes)'
       /\ thread'[c].watcher \in Some(watchers)'
       /\ thread'[c].reader \in Some(readers)
  BY <1>1, <1>3, <1>5, <1>6 DEF Base, InRange, ThreadsRefer, Some
<1>11. structured' \in BOOLEAN /\ entry' \in Some(pipes)
       /\ UNCHANGED <<flagged, open, prompt, ghosts>>
  BY <1>3, EntryIs DEF session
<1>12. InFlight(c)
  BY <1>1 DEF InFlight
<1> QED
  BY <1>1, <1>6, <1>7, <1>8, <1>9, <1>10, <1>11, <1>12, AddingKeeps
     DEF Halting, Holding

\* A pipeline without a watcher and a reader gets a new watcher.
Watches(c) ==
  /\ Pipe(c).watcher = 0 /\ Pipe(c).reader = 0
  /\ watchers' = Append(watchers, Watcher(thread[c].pipe, FALSE))
  /\ pipes' = [pipes EXCEPT ![thread[c].pipe].watcher = Len(watchers) + 1]
  /\ thread' = [thread EXCEPT ![c].at = "start",
                              ![c].watcher = Len(watchers) + 1]

LEMMA WatchesKeeps ==
  ASSUME PipelinesInv, NEW c \in Conns, At(c, "watch"), Watches(c),
         UNCHANGED <<session, entry, prompt, readers, ghosts>>
  PROVE  PipelinesInv'
<1> DEFINE p == thread[c].pipe
           w == Len(watchers) + 1
           x == [pipes[p] EXCEPT !.watcher = w]
           y == Watcher(p, FALSE)
<1>1. /\ Base /\ c \in Threads /\ thread[c].at = "watch"
      /\ thread[c] \in ThreadType /\ thread \in [Threads -> ThreadType]
      /\ watchers \in Seq(WatcherType) /\ pipes \in Seq(PipeType)
  BY Typing DEF At, Threads, PipelinesInv, Base, Typed
<1>2. /\ p \in DOMAIN pipes /\ pipes[p] \in PipeType /\ p # 0 /\ p \in Nat
      /\ pipes[p].watcher = 0 /\ pipes[p].reader = 0 /\ w \in Nat
  <2>1. p \in DOMAIN pipes /\ pipes[p] \in PipeType
    BY <1>1, Holds DEF Holding, Pipe
  <2> QED
    BY <1>1, <2>1, Typing DEF Pipe, Watches, ThreadType
<1>3. /\ pipes' = [pipes EXCEPT ![p] = x]
      /\ watchers' = Append(watchers, y)
      /\ thread' = [thread EXCEPT ![c].at = "start", ![c].watcher = w]
  BY DEF Watches
<1>4. /\ x \in PipeType /\ x.watcher = w /\ x.reader = 0
      /\ x.stopped = pipes[p].stopped /\ x.ended = pipes[p].ended
  BY <1>2 DEF PipeType
<1>5. y \in WatcherType /\ y.pipe = p /\ y.reader = 0 /\ y.at = "new"
  BY <1>2, WatcherIs
<1> HIDE DEF x, y
<1>6. /\ pipes' \in Seq(PipeType) /\ DOMAIN pipes' = DOMAIN pipes
      /\ pipes'[p] = x
      /\ \A q \in DOMAIN pipes : q # p => pipes'[q] = pipes[q]
  BY <1>1, <1>2, <1>3, <1>4, OneChanges
<1>7. /\ watchers' \in Seq(WatcherType)
      /\ w \notin DOMAIN watchers /\ w # 0
      /\ DOMAIN watchers' = DOMAIN watchers \cup {w} /\ watchers'[w] = y
      /\ \A v \in DOMAIN watchers : watchers'[v] = watchers[v]
  BY <1>1, <1>3, <1>5, OneMore
<1>8. /\ Moves(c) /\ thread'[c].at = "start" /\ thread'[c].pipe = p
      /\ thread'[c].watcher = w /\ thread'[c].reader = thread[c].reader
  BY <1>1, <1>2, <1>3 DEF Moves, ThreadType, Steps
<1> HIDE DEF p, w
<1>9. Adds
  BY <1>2, <1>4, <1>5, <1>6, <1>7 DEF Adds
<1>10. PipesRefer'
  BY <1>1, <1>4, <1>6, <1>7, EntryIs DEF Base, InRange, PipesRefer, Some
<1>11. WatchersRefer'
  BY <1>1, <1>2, <1>5, <1>6, <1>7 DEF Base, InRange, WatchersRefer, Some
<1>12. ASSUME Alone
       PROVE  /\ WatcherIsKnown' /\ AwaitedIsForgotten' /\ NewAreStarted'
              /\ StartedAreNew'
  <2>1. /\ InFlight(c) /\ ~At(c, "start") /\ ~At(c, "await old")
        /\ At(c, "start")' /\ ~At(c, "await old")'
    BY <1>1, <1>8 DEF InFlight, At
  <2>2. \A d \in Conns : d # c => /\ ~At(d, "start") /\ ~At(d, "await old")
                                  /\ thread'[d] = thread[d]
    BY <1>8, <1>12, <2>1, NobodyElse DEF Moves, Threads
  <2>3. WatcherIsKnown'
    <3>1. \A v, d : d \in Conns => ~Awaits(d, v)
      BY <2>1, <2>2 DEF Awaits
    <3>2. ASSUME NEW v \in DOMAIN watchers, watchers[v].at # "done"
          PROVE  pipes'[watchers[v].pipe].watcher = v
      <4>1. /\ pipes[watchers[v].pipe].watcher = v /\ v # 0
            /\ watchers[v].pipe \in DOMAIN pipes
        BY <1>1, <1>12, <3>1, <3>2, Typing
           DEF Alone, WatcherIsKnown, Base, InRange, WatchersRefer
      <4> QED
        BY <1>2, <1>6, <4>1
    <3> QED
      BY <1>4, <1>5, <1>6, <1>7, <3>2 DEF WatcherIsKnown
  <2>4. AwaitedIsForgotten'
    BY <2>1, <2>2 DEF AwaitedIsForgotten, At
  <2>5. NewAreStarted'
    <3>1. \A v \in DOMAIN watchers : watchers[v].at # "new"
      BY <1>12, <2>1, <2>2 DEF Alone, NewAreStarted
    <3> QED
      BY <1>7, <1>8, <2>1, <3>1 DEF NewAreStarted
  <2>6. StartedAreNew'
    BY <1>5, <1>7, <1>8, <2>2 DEF StartedAreNew, At
  <2> QED
    BY <2>3, <2>4, <2>5, <2>6
<1>13. /\ thread'[c].pipe \in Some(pipes)'
       /\ thread'[c].watcher \in Some(watchers)'
       /\ thread'[c].reader \in Some(readers)
  BY <1>1, <1>2, <1>6, <1>7, <1>8, EntryIs DEF Some
<1>14. /\ structured' \in BOOLEAN /\ entry' \in Some(pipes)
       /\ UNCHANGED <<flagged, open, prompt, ghosts>>
  BY EntryIs DEF session
<1>15. InFlight(c)
  BY <1>1 DEF InFlight
<1> QED
  BY <1>1, <1>2, <1>7, <1>8, <1>9, <1>10, <1>11, <1>12, <1>13, <1>14, <1>15,
     AddingKeeps DEF Halting, Holding

LEMMA WatchKeeps ==
  ASSUME PipelinesInv, NEW c \in Conns, Watch(c)
  PROVE  PipelinesInv'
<1>1. CASE Watches(c) /\ UNCHANGED <<structured, entry>>
  BY <1>1, WatchesKeeps DEF Watch, session
<1>2. CASE GoTo(c, "bubble") /\ UNCHANGED <<pipes, watchers>>
  BY <1>2, NoWatchKeeps DEF Watch, objects
<1> QED
  BY <1>1, <1>2 DEF Watch, Watches

-----------------------------------------------------------------------------
(* Every step.                                                             *)

LEMMA StartIs ==
  ASSUME Init
  PROVE  PipelinesInv
<1>1. /\ pipes = <<>> /\ watchers = <<>> /\ readers = <<>> /\ late = {}
      /\ \A t \in Threads : thread[t] = Rest
  BY DEF Init
<1>2. DOMAIN pipes = {} /\ DOMAIN watchers = {} /\ DOMAIN readers = {}
  BY <1>1
<1>3. Typed
  <2>1. thread \in [Threads -> ThreadType]
    BY RestIs DEF Init
  <2>2. /\ pipes \in Seq(PipeType) /\ watchers \in Seq(WatcherType)
        /\ readers \in Seq(ReaderType)
    BY <1>1
  <2> QED
    BY <2>1, <2>2, PromptIs DEF Init, Typed
<1>4. InRange
  BY <1>1, <1>2, RestIs
     DEF Init, InRange, EntryRefers, PipesRefer, WatchersRefer, ReadersRefer,
         ThreadsRefer, Some
<1>5. Placed
  BY <1>1, <1>2, RestIs
     DEF Placed, HoldersHold, HaltersStopped, EndedAreStopped,
         BoundHaveReaders, Holding, Halting
<1>6. \A c \in Conns : thread[c].at = "idle"
  BY <1>1, RestIs DEF Threads
<1>7. Recorded
  BY <1>6 DEF Recorded, InFlight
<1>8. Alone
  BY <1>1, <1>2, <1>6
     DEF Alone, OneHandler, WatcherIsKnown, AwaitedIsForgotten,
         NewAreStarted, StartedAreNew, ReaderIsSet, ReaderIsKnown,
         StopWaits, LateAreAllowed, InFlight, At
<1> QED
  BY <1>3, <1>4, <1>5, <1>7, <1>8 DEF PipelinesInv, Base

LEMMA HandlerStepKeeps ==
  ASSUME ThreadsAreApart, PipelinesInv, NEW c \in Conns, HandlerStep(c)
  PROVE  PipelinesInv'
BY GetPipelineKeeps, SeedKeeps, AwaitOldKeeps, WatchKeeps, StartWatcherKeeps,
   BubbleKeeps, WriteKeeps, EnterKeeps DEF HandlerStep

LEMMA NextKeeps ==
  ASSUME ThreadsAreApart, PipelinesInv, Next
  PROVE  PipelinesInv'
<1>1. CASE \E t \in {"output"} \cup Conns : Ensure(t) \/ Insert(t)
  BY <1>1, EnsureKeeps, InsertKeeps
<1>2. CASE \E t \in Threads : StopStep(t)
  BY <1>2, StopKeeps, HaltReaderKeeps, AwaitReaderKeeps, HaltWatcherKeeps,
     AwaitWatcherKeeps DEF StopStep
<1>3. CASE \E c \in Conns :
             \/ \E id \in Requests : BeginSessionPrompt(c, id)
             \/ HandlerStep(c) \/ Disconnect(c)
  BY <1>3, BeginKeeps, HandlerStepKeeps, DisconnectKeeps
<1>4. CASE Observe \/ Close \/ Take
  BY <1>4, ObserveKeeps, CloseKeeps, TakeKeeps
<1>5. CASE \E w \in DOMAIN watchers : WatcherStep(w)
  <2>1. PICK w \in DOMAIN watchers : WatcherStep(w)
    BY <1>5
  <2>2. CASE EndWatcher(w)
    BY <2>2, EntryIs, EndWatcherKeeps DEF EndWatcher, session
  <2> QED
    BY <2>1, <2>2, BindKeeps, SetReaderKeeps, StartReaderKeeps, FailKeeps
       DEF WatcherStep
<1>6. CASE \E r \in DOMAIN readers :
             Deliver(r) \/ MergeProvider(r) \/ EndReader(r)
  BY <1>6, DeliverKeeps, MergeProviderKeeps, EndReaderKeeps
<1> QED
  BY <1>1, <1>2, <1>3, <1>4, <1>5, <1>6 DEF Next

LEMMA StutterKeeps ==
  ASSUME PipelinesInv, UNCHANGED vars
  PROVE  PipelinesInv'
<1>1. Typed' /\ InRange' /\ Recorded'
  BY DEF vars, session, objects, ghosts, PipelinesInv, Base, Typed, InRange,
         EntryRefers, PipesRefer, WatchersRefer, ReadersRefer, ThreadsRefer,
         Recorded, InFlight
<1>2. Placed'
  BY DEF vars, session, objects, ghosts, PipelinesInv, Base, Placed,
         HoldersHold, HaltersStopped, EndedAreStopped, BoundHaveReaders, Pipe
<1>3. Alone' = Alone /\ overlapped' = overlapped
  BY DEF vars, session, objects, ghosts, Alone, OneHandler, WatcherIsKnown,
         Awaits, AwaitedIsForgotten, NewAreStarted, StartedAreNew,
         ReaderIsSet, ReaderIsKnown, StopWaits, Merges, Waits,
         LateAreAllowed, Allowed, InFlight, At, Pipe
<1> QED
  BY <1>1, <1>2, <1>3 DEF PipelinesInv, Base

-----------------------------------------------------------------------------
(* What it implies.                                                        *)

LEMMA SomeAre ==
  ASSUME NEW S, NEW s \in Seq(S)
  PROVE  Some(s) = 0..Len(s)
BY DEF Some

LEMMA TypesFollow == PipelinesInv => TypeOK
<1> SUFFICES ASSUME PipelinesInv PROVE TypeOK
  OBVIOUS
<1>1. Base
  BY DEF PipelinesInv
<1>2. /\ Some(pipes) = 0..Len(pipes) /\ Some(watchers) = 0..Len(watchers)
      /\ Some(readers) = 0..Len(readers)
  BY <1>1, SomeAre DEF Base, Typed
<1>3. \A p \in DOMAIN pipes :
        pipes[p] \in [stopped : BOOLEAN, prompted : BOOLEAN, ended : BOOLEAN,
                      watcher : 0..Len(watchers), reader : 0..Len(readers)]
  BY <1>1, <1>2, Typing DEF Base, InRange, PipesRefer, PipeType
<1>4. \A w \in DOMAIN watchers :
        watchers[w] \in [pipe : DOMAIN pipes, pre : BOOLEAN, halt : BOOLEAN,
                         reader : 0..Len(readers),
                         at : {"new", "polls", "bound", "set", "done"}]
  BY <1>1, <1>2, Typing DEF Base, InRange, WatchersRefer, WatcherType
<1>5. \A r \in DOMAIN readers :
        readers[r] \in [pipe : DOMAIN pipes, gen : BOOLEAN, halt : BOOLEAN,
                        at : {"new", "polls", "merges", "done"}]
  BY <1>1, Typing DEF Base, InRange, ReadersRefer, ReaderType
<1>6. thread \in [Threads -> [at : Steps, pipe : 0..Len(pipes),
                              watcher : 0..Len(watchers),
                              reader : 0..Len(readers), undo : BOOLEAN,
                              request : Requests \cup {None}]]
  BY <1>1, <1>2, Typing DEF Base, Typed, InRange, ThreadsRefer, ThreadType
<1> QED
  BY <1>1, <1>2, <1>3, <1>4, <1>5, <1>6
     DEF TypeOK, Base, Typed, InRange, EntryRefers

LEMMA OnePromptFollows == PipelinesInv => OnePromptAtATime
BY DEF PipelinesInv, Base, Typed, Recorded, OnePromptAtATime

LEMMA QuietFollows == PipelinesInv => StoppedReadersAreQuiet
BY DEF PipelinesInv, Alone, LateAreAllowed, Allowed, StoppedReadersAreQuiet

\* For the specification of the pipelines on their own.
THEOREM PipelinesInvariant ==
  ASSUME ThreadsAreApart
  PROVE  Spec => []PipelinesInv
<1>1. Init => PipelinesInv
  BY StartIs
<1>2. PipelinesInv /\ [Next]_vars => PipelinesInv'
  BY NextKeeps, StutterKeeps
<1> QED
  BY <1>1, <1>2, PTL DEF Spec
=============================================================================
