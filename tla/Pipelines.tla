------------------------------ MODULE Pipelines ------------------------------
(***************************************************************************)
(* The life of the pipelines that follow one session's agent: the runtime  *)
(* that creates, finds and stops them (structured_chat_runtime.go), the    *)
(* goroutines of a pipeline (claude_pipeline.go, codex_pipeline.go,        *)
(* gemini_pipeline.go: a watcher that discovers a file, a reader that      *)
(* follows it), and the chat prompts that seed them (handleChatPrompt of   *)
(* handlers_sessions.go) from several connections.  Which file a watcher   *)
(* finds is Discovery's subject, what a reader makes of it Transcript's.   *)
(***************************************************************************)
EXTENDS Integers, Sequences, FiniteSets

CONSTANTS
  Conns,         \* connections; one handler of each runs at a time
  Device,        \* Device[c]: the device of a connection
  Requests,      \* request ids; a device may send one again anywhere
  None,          \* no connection, and no request
  MaxPipes, MaxWatchers, MaxReaders   \* bounds of the run: what is created

VARIABLES
  flagged,       \* the provider is Gemini: its pipeline has a flag "stopped"
  open,          \* the session is in the session manager
  structured,    \* its stored capabilities have the structured timeline
  entry,         \* structuredChatRuntime.pipelines for it; 0 is no entry
  prompt,        \* Server.sessionPromptState for it: owner and request
  pipes,         \* claudePipeline, codexPipeline, geminiPipeline
  watchers,      \* the watchers ever created
  readers,       \* the JSONL tail readers or Gemini tailers ever created
  thread,        \* the handlers, the PTY's output and the closing request
  cleared,       \* prompts whose record was removed by another's end
  overlapped,    \* two prompts were in flight at once
  late           \* readers that merged after their pipeline's Stop returned

session == <<flagged, open, structured>>
objects == <<pipes, watchers, readers>>
ghosts == <<cleared, overlapped, late>>
vars == <<session, entry, prompt, objects, thread, ghosts>>

Threads == Conns \cup {"output", "closer"}

Steps == {"idle", "ensure", "insert", "get", "seed", "await old",
          "watch", "start", "bubble", "write", "roll back", "enter",
          "take", "stop", "halt reader", "await reader", "halt watcher",
          "await watcher", "over"}

NoPrompt == [owner |-> None, request |-> None]
Prompts == {NoPrompt} \cup [owner : Conns, request : Requests]

TypeOK ==
  /\ flagged \in BOOLEAN /\ open \in BOOLEAN /\ structured \in BOOLEAN
  /\ entry \in 0..Len(pipes) /\ prompt \in Prompts
  /\ \A p \in DOMAIN pipes :
       pipes[p] \in [stopped : BOOLEAN, prompted : BOOLEAN, ended : BOOLEAN,
                     watcher : 0..Len(watchers), reader : 0..Len(readers)]
  /\ \A w \in DOMAIN watchers :
       watchers[w] \in [pipe : DOMAIN pipes, pre : BOOLEAN, halt : BOOLEAN,
                        reader : 0..Len(readers),
                        at : {"new", "polls", "bound", "set", "done"}]
  /\ \A r \in DOMAIN readers :
       readers[r] \in [pipe : DOMAIN pipes, gen : BOOLEAN, halt : BOOLEAN,
                       at : {"new", "polls", "merges", "done"}]
  /\ thread \in [Threads -> [at : Steps, pipe : 0..Len(pipes),
                             watcher : 0..Len(watchers),
                             reader : 0..Len(readers), undo : BOOLEAN,
                             request : Requests \cup {None}]]
  /\ cleared \subseteq Conns /\ overlapped \in BOOLEAN
  /\ late \subseteq DOMAIN readers

Rest == [at |-> "idle", pipe |-> 0, watcher |-> 0, reader |-> 0,
         undo |-> FALSE, request |-> None]

Init ==
  /\ flagged \in BOOLEAN
  /\ open = TRUE /\ structured = TRUE /\ entry = 0 /\ prompt = NoPrompt
  /\ pipes = <<>> /\ watchers = <<>> /\ readers = <<>>
  /\ thread = [t \in Threads |-> Rest]
  /\ cleared = {} /\ overlapped = FALSE /\ late = {}

-----------------------------------------------------------------------------
(* Helpers.                                                                *)

At(t, step) == thread[t].at = step
Pipe(t) == pipes[thread[t].pipe]
GoTo(t, step) == thread' = [thread EXCEPT ![t].at = step]

\* The record of a new watcher of pipe p.
Watcher(p, pre) ==
  [pipe |-> p, pre |-> pre, halt |-> FALSE, reader |-> 0, at |-> "new"]

\* handleProviderDowngrade: it stores the capabilities of a terminal session
\* and forgets the pipeline, whichever it is, without stopping it.
Downgraded == structured' = FALSE /\ entry' = IF structured THEN 0 ELSE entry

InFlight(c) == thread[c].at # "idle"
Others(c) == {d \in Conns \ {c} : InFlight(d)}

-----------------------------------------------------------------------------
(* The runtime: ensurePipeline, StopSession.                               *)

\* ObservePTYOutput.
Observe ==
  /\ At("output", "idle") /\ open /\ structured
  /\ GoTo("output", "ensure")
  /\ UNCHANGED <<session, entry, prompt, objects, ghosts>>

\* What follows ensurePipeline, and Stop.
Return(t) ==
  thread' = [thread EXCEPT ![t] =
               [Rest EXCEPT !.at = IF t = "output" THEN "idle"
                                   ELSE IF t = "closer" THEN "over"
                                   ELSE "get",
                             !.request = thread[t].request]]

\* The first look at the map, and the creation of the pipeline, which nobody
\* else knows: its pre-prompt watcher runs, unless it cannot be made.
Ensure(t) ==
  /\ At(t, "ensure")
  /\ \/ /\ entry # 0 /\ Return(t)
        /\ UNCHANGED <<session, entry, objects>>
     \/ /\ entry = 0 /\ Len(pipes) < MaxPipes /\ Len(watchers) < MaxWatchers
        /\ \E made \in BOOLEAN :
             /\ IF made THEN UNCHANGED <<entry, structured>> ELSE Downgraded
             /\ watchers' = IF ~made THEN watchers ELSE
                  Append(watchers, [Watcher(Len(pipes) + 1, TRUE)
                                      EXCEPT !.at = "polls"])
             /\ pipes' = Append(pipes,
                  [stopped |-> FALSE, prompted |-> FALSE, ended |-> FALSE,
                   watcher |-> IF made THEN Len(watchers) + 1 ELSE 0,
                   reader |-> 0])
        /\ thread' = [thread EXCEPT ![t].at = "insert",
                                    ![t].pipe = Len(pipes) + 1]
        /\ UNCHANGED <<readers, flagged, open>>
  /\ UNCHANGED <<prompt, ghosts>>

\* The second look: who comes second stops the pipeline it has made.
Insert(t) ==
  /\ At(t, "insert")
  /\ IF entry # 0 THEN GoTo(t, "stop") /\ UNCHANGED entry
     ELSE Return(t) /\ entry' = thread[t].pipe
  /\ UNCHANGED <<session, prompt, objects, ghosts>>

\* session.close: the session leaves the manager; then its prompt record and
\* its pipeline.
Close ==
  /\ At("closer", "idle") /\ open
  /\ open' = FALSE /\ prompt' = NoPrompt
  /\ cleared' = cleared \cup ({prompt.owner} \ {None})
  /\ GoTo("closer", "take")
  /\ UNCHANGED <<flagged, structured, entry, objects, overlapped, late>>

Take ==
  /\ At("closer", "take")
  /\ thread' = [thread EXCEPT !["closer"].at =
                                IF entry = 0 THEN "over" ELSE "stop",
                              !["closer"].pipe = entry]
  /\ entry' = 0
  /\ UNCHANGED <<session, prompt, objects, ghosts>>

-----------------------------------------------------------------------------
(* Stop of a pipeline, by the closing request or by a late creator.        *)

\* The generation moves on (Gemini: the flag is set), and what to halt is
\* read, in one critical section.
Stop(t) ==
  /\ At(t, "stop")
  /\ pipes' = [pipes EXCEPT ![thread[t].pipe].stopped = TRUE]
  /\ thread' = [thread EXCEPT ![t].at = "halt reader",
                              ![t].reader = Pipe(t).reader,
                              ![t].watcher = Pipe(t).watcher]
  /\ UNCHANGED <<session, entry, prompt, watchers, readers, ghosts>>

\* Stop of a reader: a no-op when it has not been started.
HaltReader(t) ==
  LET r == thread[t].reader IN
  /\ At(t, "halt reader")
  /\ IF r = 0 \/ (r # 0 /\ readers[r].at = "new")
     THEN /\ thread' = [thread EXCEPT ![t].at = "halt watcher",
                                      ![t].reader = 0]
          /\ UNCHANGED readers
     ELSE /\ readers' = [readers EXCEPT ![r].halt = TRUE]
          /\ GoTo(t, "await reader")
  /\ UNCHANGED <<session, entry, prompt, pipes, watchers, ghosts>>

\* Wrong on purpose: Stop of the reader only signals.
AwaitReaderBriefly(t) ==
  /\ At(t, "await reader")
  /\ thread' = [thread EXCEPT ![t].at = "halt watcher", ![t].reader = 0]
  /\ UNCHANGED <<session, entry, prompt, objects, ghosts>>

\* It waits for the goroutine of the reader.
AwaitReader(t) ==
  /\ At(t, "await reader") /\ readers[thread[t].reader].at = "done"
  /\ thread' = [thread EXCEPT ![t].at = "halt watcher", ![t].reader = 0]
  /\ UNCHANGED <<session, entry, prompt, objects, ghosts>>

\* Stop of a watcher, likewise.
HaltWatcher(t) ==
  LET w == thread[t].watcher IN
  /\ At(t, "halt watcher")
  /\ IF w = 0 \/ (w # 0 /\ watchers[w].at = "new")
     THEN UNCHANGED watchers /\ thread' = [thread EXCEPT ![t].watcher = 0,
                                             ![t].at = "await watcher"]
     ELSE watchers' = [watchers EXCEPT ![w].halt = TRUE]
          /\ GoTo(t, "await watcher")
  /\ UNCHANGED <<session, entry, prompt, pipes, readers, ghosts>>

AwaitWatcher(t) ==
  /\ At(t, "await watcher")
  /\ thread[t].watcher # 0 => watchers[thread[t].watcher].at = "done"
  /\ pipes' = [pipes EXCEPT ![thread[t].pipe].ended = TRUE]
  /\ Return(t)
  /\ UNCHANGED <<session, entry, prompt, watchers, readers, ghosts>>

-----------------------------------------------------------------------------
(* chat.prompt.  "prompt already in flight" refuses without an effect.     *)

\* Without a session that has a structured timeline (resolveChatPromptWriter)
\* the handler ends at once.  A retry may come over another connection, or
\* over one whose cache of results (idempotencyCheckOrBegin) has lost the id.
BeginSessionPrompt(c, id) ==
  /\ At(c, "idle") /\ prompt = NoPrompt /\ open /\ structured
  /\ prompt' = [owner |-> c, request |-> id]
  /\ thread' = [thread EXCEPT ![c].at = "ensure", ![c].request = id]
  /\ overlapped' = (overlapped \/ Others(c) # {})
  /\ UNCHANGED <<session, entry, objects, cleared, late>>

\* Wrong on purpose: it removes whatever record there is.
EndAnyPrompt(c) ==
  /\ thread' = [thread EXCEPT ![c] = Rest]
  /\ prompt' = NoPrompt
  /\ cleared' = cleared \ {c}

\* The end of the handler: the deferred endSessionPrompt removes the record
\* of its request, be it the one it made or one of a retry.
End(c) ==
  LET own == prompt # NoPrompt /\ prompt.request = thread[c].request IN
  /\ thread' = [thread EXCEPT ![c] = Rest]
  /\ prompt' = IF own THEN NoPrompt ELSE prompt
  /\ cleared' = (cleared \cup IF own THEN {prompt.owner} ELSE {}) \ {c}

GetPipeline(c) ==
  /\ At(c, "get")
  /\ IF entry = 0 THEN End(c)
     ELSE /\ thread' = [thread EXCEPT ![c].at = "seed", ![c].pipe = entry]
          /\ UNCHANGED <<prompt, cleared>>
  /\ UNCHANGED <<session, entry, objects, overlapped, late>>

\* The first critical section of SeedPrompt: an unbound pipeline gets a new
\* watcher at its first prompt, or when it has none; the old one is halted.
Seed(c) ==
  LET p == Pipe(c)
      restart == p.reader = 0 /\ (~p.prompted \/ p.watcher = 0)
      old == IF restart /\ p.watcher # 0 /\ watchers[p.watcher].at # "new"
             THEN p.watcher ELSE 0 IN
  /\ At(c, "seed")
  /\ pipes' = [pipes EXCEPT ![thread[c].pipe].prompted = TRUE,
                 ![thread[c].pipe].watcher = IF restart THEN 0 ELSE @]
  /\ watchers' = IF old = 0 THEN watchers
                 ELSE [watchers EXCEPT ![old].halt = TRUE]
  /\ thread' = [thread EXCEPT ![c].watcher = old,
                  ![c].at = IF restart THEN "await old" ELSE "bubble"]
  /\ UNCHANGED <<session, entry, prompt, readers, ghosts>>

AwaitOld(c) ==
  /\ At(c, "await old")
  /\ thread[c].watcher # 0 => watchers[thread[c].watcher].at = "done"
  /\ thread' = [thread EXCEPT ![c].at = "watch", ![c].watcher = 0]
  /\ UNCHANGED <<session, entry, prompt, objects, ghosts>>

\* startWatcher: if a watcher can be made, it is dropped when the pipeline has
\* a watcher or a reader by now, or was stopped.
Watch(c) ==
  /\ At(c, "watch")
  /\ \/ Downgraded /\ GoTo(c, "bubble") /\ UNCHANGED <<pipes, watchers>>
     \/ /\ Pipe(c).watcher # 0 \/ Pipe(c).reader # 0 \/ Pipe(c).stopped
        /\ GoTo(c, "bubble")
        /\ UNCHANGED <<structured, entry, pipes, watchers>>
     \/ /\ Pipe(c).watcher = 0 /\ Pipe(c).reader = 0 /\ ~Pipe(c).stopped
        /\ Len(watchers) < MaxWatchers
        /\ watchers' = Append(watchers, Watcher(thread[c].pipe, FALSE))
        /\ pipes' = [pipes EXCEPT ![thread[c].pipe].watcher =
                       Len(watchers) + 1]
        /\ thread' = [thread EXCEPT ![c].at = "start",
                                    ![c].watcher = Len(watchers) + 1]
        /\ UNCHANGED <<structured, entry>>
  /\ UNCHANGED <<flagged, open, prompt, readers, ghosts>>

\* Start of the watcher, outside the critical section.
StartWatcher(c) ==
  /\ At(c, "start")
  /\ watchers' = [watchers EXCEPT ![thread[c].watcher].at = "polls"]
  /\ thread' = [thread EXCEPT ![c].at = "bubble", ![c].watcher = 0]
  /\ UNCHANGED <<session, entry, prompt, pipes, readers, ghosts>>

\* The seed or its rollback, and the merge of the items.
Bubble(c) ==
  /\ At(c, "bubble")
  /\ IF thread[c].undo THEN End(c)
     ELSE /\ thread' = [thread EXCEPT ![c].at = "write", ![c].pipe = 0]
          /\ UNCHANGED <<prompt, cleared>>
  /\ UNCHANGED <<session, entry, objects, overlapped, late>>

\* The text goes to the terminal; if that fails, the seed is rolled back in
\* the pipeline the runtime has now, if any.
Write(c) ==
  /\ At(c, "write")
  /\ \/ open /\ GoTo(c, "enter") /\ UNCHANGED <<prompt, cleared>>
     \/ /\ entry # 0
        /\ thread' = [thread EXCEPT ![c].at = "bubble", ![c].pipe = entry,
                                    ![c].undo = TRUE]
        /\ UNCHANGED <<prompt, cleared>>
     \/ entry = 0 /\ End(c)
  /\ UNCHANGED <<session, entry, objects, overlapped, late>>

\* After a pause the Enter key; whether it arrives or not the prompt is done.
Enter(c) ==
  /\ At(c, "enter") /\ End(c)
  /\ UNCHANGED <<session, entry, objects, overlapped, late>>

\* The end of a connection, whose handler is not running: readPump clears the
\* prompts of the connection and of its device.  A new one takes its place.
Disconnect(c) ==
  /\ At(c, "idle")
  /\ prompt # NoPrompt /\ Device[prompt.owner] = Device[c]
  /\ prompt' = NoPrompt /\ cleared' = cleared \cup {prompt.owner}
  /\ UNCHANGED <<session, entry, objects, thread, overlapped, late>>

-----------------------------------------------------------------------------
(* The goroutines of a pipeline.                                           *)

\* The goroutine of a watcher ends.
Quit(w) ==
  watchers' = [watchers EXCEPT ![w] =
                 [Watcher(@.pipe, @.pre) EXCEPT !.at = "done"]]

\* tryDiscover finds a file, and onBound reads the generation.
Bind(w) ==
  LET p == watchers[w].pipe IN
  /\ watchers[w].at = "polls" /\ Len(readers) < MaxReaders
  /\ readers' = Append(readers, [pipe |-> p, gen |-> pipes[p].stopped,
                                 halt |-> FALSE, at |-> "new"])
  /\ watchers' = [watchers EXCEPT ![w].at = "bound",
                                  ![w].reader = Len(readers) + 1]
  /\ UNCHANGED <<session, entry, prompt, pipes, thread, ghosts>>

SetReader(w) ==
  /\ watchers[w].at = "bound"
  /\ pipes' = [pipes EXCEPT ![watchers[w].pipe].reader = watchers[w].reader]
  /\ watchers' = [watchers EXCEPT ![w].at = "set"]
  /\ UNCHANGED <<session, entry, prompt, readers, thread, ghosts>>

StartReader(w) ==
  /\ watchers[w].at = "set"
  /\ readers' = [readers EXCEPT ![watchers[w].reader].at = "polls"]
  /\ Quit(w)
  /\ UNCHANGED <<session, entry, prompt, pipes, thread, ghosts>>

\* OnDowngrade: a pre-prompt watcher is forgotten, whichever the pipeline has
\* now; a later one downgrades the session.
Fail(w) ==
  /\ watchers[w].at = "polls"
  /\ Quit(w)
  /\ IF watchers[w].pre
     THEN /\ pipes' = [pipes EXCEPT ![watchers[w].pipe].watcher = 0]
          /\ UNCHANGED <<structured, entry>>
     ELSE Downgraded /\ UNCHANGED pipes
  /\ UNCHANGED <<flagged, open, prompt, readers, thread, ghosts>>

EndWatcher(w) ==
  /\ watchers[w].at = "polls" /\ watchers[w].halt
  /\ Quit(w)
  /\ UNCHANGED <<session, entry, prompt, pipes, readers, thread, ghosts>>

\* The check that suppresses late callbacks: Claude and Codex compare the
\* generation, Gemini has a flag.
Passes(r) == pipes[readers[r].pipe].stopped
               = (readers[r].gen /\ ~flagged)

\* A callback of the reader checks and takes the items, then merges.
Deliver(r) ==
  /\ readers[r].at = "polls" /\ Passes(r)
  /\ readers' = [readers EXCEPT ![r].at = "merges"]
  /\ UNCHANGED <<session, entry, prompt, pipes, watchers, thread, ghosts>>

MergeProvider(r) ==
  /\ readers[r].at = "merges"
  /\ readers' = [readers EXCEPT ![r].at = "polls"]
  /\ late' = IF pipes[readers[r].pipe].ended THEN late \cup {r} ELSE late
  /\ UNCHANGED <<session, entry, prompt, pipes, watchers, thread, cleared,
                 overlapped>>

EndReader(r) ==
  /\ readers[r].at = "polls" /\ readers[r].halt
  /\ readers' = [readers EXCEPT ![r].at = "done"]
  /\ UNCHANGED <<session, entry, prompt, pipes, watchers, thread, ghosts>>

-----------------------------------------------------------------------------

HandlerStep(c) ==
  \/ GetPipeline(c) \/ Seed(c) \/ AwaitOld(c) \/ Watch(c)
  \/ StartWatcher(c) \/ Bubble(c) \/ Write(c) \/ Enter(c)

StopStep(t) ==
  \/ Stop(t) \/ HaltReader(t) \/ AwaitReader(t) \/ HaltWatcher(t)
  \/ AwaitWatcher(t)

WatcherStep(w) ==
  Bind(w) \/ SetReader(w) \/ StartReader(w) \/ Fail(w) \/ EndWatcher(w)

Next ==
  \/ \E t \in {"output"} \cup Conns : Ensure(t) \/ Insert(t)
  \/ \E t \in Threads : StopStep(t)
  \/ \E c \in Conns : \/ \E id \in Requests : BeginSessionPrompt(c, id)
                      \/ HandlerStep(c) \/ Disconnect(c)
  \/ Observe \/ Close \/ Take
  \/ \E w \in DOMAIN watchers : WatcherStep(w)
  \/ \E r \in DOMAIN readers : Deliver(r) \/ MergeProvider(r) \/ EndReader(r)

Spec == Init /\ [][Next]_vars

-----------------------------------------------------------------------------
(* Properties.                                                             *)

\* While prompts come one at a time, a reader that was bound before Stop
\* merges nothing once Stop has returned: the generation stops the readers
\* Stop did not know of, and it waits for the others.  (One bound by a watcher
\* that Stop overtook has the new generation, and does merge, although "Stop
\* halts the tail reader and session watcher, incrementing the generation to
\* suppress any late callbacks", codex_pipeline.go:283-284; Gemini's flag
\* stops that one, too.)
StoppedReadersAreQuiet ==
  overlapped \/ \A r \in late : readers[r].gen /\ ~flagged

\* Two prompts are in flight at once only if the record of one of them was
\* removed by an end that is not its own: of another connection of its device,
\* of the session, or of an earlier handler of the very same request, which a
\* device has sent again over another connection.
OnePromptAtATime ==
  \A c, d \in Conns :
    c # d /\ InFlight(c) /\ InFlight(d) => cleared \cap {c, d} # {}
=============================================================================
