------------------------------ MODULE Transcript ------------------------------
(***************************************************************************)
(* How an agent's file becomes the provider's part of the chat timeline:   *)
(* the readers that follow the file (jsonl_tail_reader.go,                 *)
(* gemini_file_tailer.go), the parsers that keep its items                 *)
(* (jsonl_event_parser.go for Claude, codex_event_parser.go,               *)
(* gemini_event_parser.go), the callbacks of the pipelines, and the        *)
(* prompts that put a bubble into the timeline before the agent has        *)
(* written it (SeedPrompt, RollbackPrompt).  One pipeline with one reader. *)
(***************************************************************************)
EXTENDS Integers, Sequences, SequencesExt, FiniteSets

CONSTANTS
  Providers,                          \* the providers the run is about
  MaxEvents, MaxPrompts, MaxResets,   \* bounds of the run: of each kind,
  MaxWork                             \* and of all together

VARIABLES
  provider,
  file,      \* the agent's file; half is a line that is not complete yet
  events,    \* all events ever begun: kind, the text or the call it is about
  resets,    \* times the file was replaced or rewritten
  hidden,    \* a rewritten file has outgrown what the reader had read of it
  reader,    \* JSONLTailReader or GeminiFileTailer and its goroutine
  parser,    \* jsonlEventParser, codexEventParser, geminiEventParser
  state,     \* jsonlPipelineState
  prompt,    \* the handler of a chat prompt
  prompts,   \* prompts so far
  undone,    \* a prompt was rolled back since the items were last reset
  raced,     \* items were taken while others were on their way to a merge
  shown      \* the provider's part of the stored timeline

agent == <<file, events, resets, hidden>>
ghosts == <<undone, raced>>
vars == <<provider, agent, reader, parser, state, prompt, prompts, ghosts,
          shown>>

Events == 1..MaxEvents
Nothing == 0
Kinds == {"message", "call", "result", "task"}

\* An item shows an event, or a prompt not echoed yet (of = Nothing); its id
\* is the event's, or minus the prompt's number; a call has its result.
Item == [id : (-MaxPrompts)..MaxEvents, of : 0..MaxEvents,
         result : 0..MaxEvents]

NoSeed == [prompt |-> 0, from |-> 0, after |-> 0]
NewParser == [items |-> <<>>, tools |-> <<>>, seed |-> NoSeed,
              started |-> FALSE]

TypeOK ==
  /\ provider \in Providers /\ resets \in 0..MaxResets /\ hidden \in BOOLEAN
  /\ events \in Seq([kind : Kinds, echo : BOOLEAN, call : 0..MaxEvents])
  /\ file.lines \in Seq(Events) /\ file.half \in 0..MaxEvents
  /\ reader.todo \in Seq(Events) /\ reader.merge \in Seq(Item)
  /\ parser.items \in Seq(Item) /\ prompt.merge \in Seq(Item)
  /\ \A c \in DOMAIN parser.tools : parser.tools[c] \in Nat \ {0}
  /\ state \in {"initial", "reset", "live"}
  /\ prompts \in 0..MaxPrompts /\ shown \in Seq(Item)

Init ==
  /\ provider \in Providers
  /\ file = [inode |-> 1, session |-> 1, lines |-> <<>>, half |-> Nothing]
  /\ events = <<>> /\ resets = 0 /\ hidden = FALSE
  /\ reader = [at |-> "start", offset |-> 0, inode |-> 0, session |-> 0,
               buf |-> Nothing, todo |-> <<>>, batch |-> TRUE,
               merge |-> <<>>]
  /\ parser = NewParser /\ state = "initial"
  /\ prompt = [at |-> "idle", merge |-> <<>>] /\ prompts = 0
  /\ undone = FALSE /\ raced = FALSE /\ shown = <<>>

-----------------------------------------------------------------------------
(* The agent.                                                              *)

Size(f) == 2 * Len(f.lines) + IF f.half = Nothing THEN 0 ELSE 1

\* The JSONL reader knows a rewritten file only by a size below its offset.
Hides(f) ==
  /\ provider # "gemini" /\ reader.inode = f.inode
  /\ reader.session # f.session /\ Size(f) >= reader.offset
  /\ reader.offset > 0

Begun == Len(events) + prompts + resets

\* The agent begins a line: a message (the user's, equal to a prompt or not,
\* or its own), a tool call, the result of one, or the start of a task.
BeginLine ==
  /\ file.half = Nothing /\ Len(events) < MaxEvents /\ Begun < MaxWork
  /\ \E k \in Kinds, echo \in BOOLEAN, call \in 0..Len(events) :
       /\ echo => k = "message"
       /\ IF k = "result" THEN call # 0 /\ events[call].kind = "call"
          ELSE call = 0
       /\ k = "task" => provider = "codex"
       /\ events' = Append(events, [kind |-> k, echo |-> echo, call |-> call])
  /\ file' = [file EXCEPT !.half = Len(events) + 1]
  /\ hidden' = (hidden \/ Hides(file'))
  /\ UNCHANGED <<provider, resets, reader, parser, state, prompt, prompts,
                 ghosts, shown>>

EndLine ==
  /\ file.half # Nothing
  /\ file' = [file EXCEPT !.lines = Append(@, file.half), !.half = Nothing]
  /\ hidden' = (hidden \/ Hides(file'))
  /\ UNCHANGED <<provider, events, resets, reader, parser, state, prompt,
                 prompts, ghosts, shown>>

\* A new conversation, in a new file of the same name or in the old one.
Restart ==
  /\ resets < MaxResets /\ Begun < MaxWork /\ resets' = resets + 1
  /\ \E inode \in {file.inode, file.inode + 1} :
       file' = [inode |-> inode, session |-> file.session + 1,
                lines |-> <<>>, half |-> Nothing]
  /\ UNCHANGED <<provider, events, hidden, reader, parser, state, prompt,
                 prompts, ghosts, shown>>

-----------------------------------------------------------------------------
(* The parsers.                                                            *)

\* Wrong on purpose: the echo takes the bubble's place at the end.
AddOrMove(items, item) ==
  Append(SelectSeq(items, LAMBDA i : i.id # item.id), item)

AddOrReplace(items, item) ==
  IF \E i \in DOMAIN items : items[i].id = item.id
  THEN LET i == CHOOSE i \in DOMAIN items :
                  /\ items[i].id = item.id
                  /\ \A j \in 1..(i - 1) : items[j].id # item.id
       IN [items EXCEPT ![i] = item]
  ELSE Append(items, item)

\* consumeSeedOrFreshID: the echo of the seeded prompt takes its id.  Codex
\* shows no other message before the first task.
Message(p, n) ==
  IF p.seed # NoSeed /\ events[n].echo
  THEN [p EXCEPT !.seed = NoSeed,
          !.items = AddOrReplace(@, [id |-> -p.seed.prompt, of |-> n,
                                     result |-> 0])]
  ELSE IF provider = "codex" /\ ~p.started THEN p
  ELSE [p EXCEPT !.items = AddOrReplace(@, [id |-> n, of |-> n,
                                            result |-> 0])]

\* processToolResult: by the index remembered with the call.
ToolResult(p, n) ==
  LET call == events[n].call IN
  IF call \in DOMAIN p.tools /\ p.tools[call] <= Len(p.items)
  THEN [p EXCEPT !.items[p.tools[call]].result = n]
  ELSE [p EXCEPT !.items = Append(@, [id |-> call, of |-> n, result |-> n])]

\* ParseEvent of the Claude and Codex parsers.
ParseEvent(p, n) ==
  LET k == events[n].kind
      added == Append(p.items, [id |-> n, of |-> n, result |-> 0]) IN
  CASE k = "message" -> Message(p, n)
    [] k = "call" -> [p EXCEPT !.items = added,
                        !.tools = [c \in DOMAIN @ \cup {n} |->
                          IF c = n THEN Len(added) ELSE p.tools[c]]]
    [] k = "result" -> ToolResult(p, n)
    [] k = "task" -> [p EXCEPT !.items = added, !.started = TRUE]

\* The first user message that may be the seed's echo: Gemini compares the
\* text, and the time with a tolerance.
Echo(seed, lines) ==
  LET M == {n \in ToSet(lines) : /\ seed # NoSeed /\ events[n].echo
                                 /\ n >= seed.from} IN
  IF M = {} THEN Nothing ELSE CHOOSE n \in M : \A k \in M : n <= k

\* The lines of a Gemini file that are items of their own: the result of a
\* call is part of the call.
OwnLines(lines) ==
  LET own[n \in 0..Len(lines)] ==
        IF n = 0 THEN <<>>
        ELSE IF events[lines[n]].kind = "result" THEN own[n - 1]
        ELSE Append(own[n - 1], lines[n])
  IN own[Len(lines)]

\* The items of a Gemini file.
Messages(seed, lines) ==
  LET own == OwnLines(lines)
      echo == Echo(seed, lines)
      Result(n) == {k \in ToSet(lines) : events[k].call = n}
      Show(n) == [id |-> IF n = echo THEN -seed.prompt ELSE n, of |-> n,
                  result |-> IF Result(n) = {} THEN 0
                             ELSE CHOOSE k \in Result(n) :
                                    \A j \in Result(n) : j <= k] IN
  [i \in DOMAIN own |-> Show(own[i])]

\* Wrong on purpose: a rebuild forgets the prompt that is not echoed yet.
RebuildFromFile(p, lines) == [p EXCEPT !.items = Messages(p.seed, lines)]

\* RebuildTimeline: a seed the file does not echo yet is put back, at its
\* time.
RebuildTimeline(p, lines) ==
  LET items == Messages(p.seed, lines)
      later == {i \in DOMAIN items : items[i].of > p.seed.after}
      bubble == [id |-> -p.seed.prompt, of |-> Nothing, result |-> 0] IN
  IF p.seed = NoSeed \/ Echo(p.seed, lines) # Nothing
  THEN [p EXCEPT !.items = items]
  ELSE [p EXCEPT !.items =
          IF later = {} THEN Append(items, bubble)
          ELSE InsertAt(items, CHOOSE i \in later : \A j \in later : i <= j,
                        bubble)]

-----------------------------------------------------------------------------
(* JSONLTailReader: what is new in the file, a line at a time.              *)

\* OnReset, handleReset.
Reset == /\ parser' = NewParser /\ state' = "reset" /\ undone' = FALSE

\* readFromBeginning.
ReadFromBeginning ==
  /\ provider # "gemini" /\ reader.at = "start"
  /\ reader' = [reader EXCEPT !.at = "lines", !.offset = Size(file),
                  !.inode = file.inode, !.session = file.session,
                  !.buf = file.half, !.todo = file.lines, !.batch = TRUE]
  /\ UNCHANGED <<provider, agent, parser, state, prompt, prompts, ghosts,
                 shown>>

\* poll: a new inode or a size below the offset starts all over.
PollReset ==
  /\ provider # "gemini" /\ reader.at = "idle"
  /\ \/ reader.inode # file.inode
     \/ Size(file) < reader.offset
  /\ Reset
  /\ reader' = [reader EXCEPT !.at = "start"]
  /\ UNCHANGED <<provider, agent, prompt, prompts, raced, shown>>

\* Wrong on purpose: the beginning of an incomplete line is not kept.
NewLinesUnkept ==
  LET rest == SubSeq(file.lines, (reader.offset \div 2) + 1,
                     Len(file.lines)) IN
  IF reader.offset % 2 = 1 /\ rest # <<>> THEN Tail(rest) ELSE rest

\* The lines after the offset; one begun before it is whole only with what
\* was kept of it, and skipped as malformed otherwise.
NewLines ==
  LET rest == SubSeq(file.lines, (reader.offset \div 2) + 1,
                     Len(file.lines)) IN
  IF reader.offset % 2 = 1 /\ rest # <<>> /\ reader.buf # Head(rest)
  THEN Tail(rest) ELSE rest

Poll ==
  /\ provider # "gemini" /\ reader.at = "idle"
  /\ reader.inode = file.inode /\ Size(file) > reader.offset
  /\ reader' = [reader EXCEPT !.offset = Size(file), !.buf = file.half,
                  !.session = IF reader.offset = 0 THEN file.session ELSE @,
                  !.todo = NewLines,
                  !.at = IF NewLines = <<>> THEN "idle" ELSE "lines"]
  /\ UNCHANGED <<provider, agent, parser, state, prompt, prompts, ghosts,
                 shown>>

\* OnLine: parsed, and merged unless the file is still being replayed.
DeliverLine ==
  /\ reader.at = "lines" /\ reader.todo # <<>>
  /\ parser' = ParseEvent(parser, Head(reader.todo))
  /\ reader' = [reader EXCEPT !.todo = Tail(@),
                  !.at = IF state = "live" THEN "merge" ELSE "lines",
                  !.merge = IF state = "live" THEN parser'.items ELSE <<>>]
  /\ raced' = IF state = "live" THEN prompt.at \in {"seeded", "removed"}
              ELSE raced
  /\ UNCHANGED <<provider, agent, state, prompt, prompts, undone, shown>>

\* OnReadComplete: the replayed items are merged as a batch.
ReadComplete ==
  /\ reader.at = "lines" /\ reader.todo = <<>>
  /\ state' = "live"
  /\ reader' = [reader EXCEPT !.at = "merge", !.batch = FALSE,
                  !.merge = parser.items]
  /\ raced' = (prompt.at \in {"seeded", "removed"})
  /\ UNCHANGED <<provider, agent, parser, prompt, prompts, undone, shown>>

\* MergeProviderTimeline (see StructuredTimeline), outside the lock.
MergeReader ==
  /\ reader.at = "merge"
  /\ shown' = reader.merge
  /\ reader' = [reader EXCEPT !.merge = <<>>,
                  !.at = IF reader.todo = <<>> THEN "idle" ELSE "lines"]
  /\ UNCHANGED <<provider, agent, parser, state, prompt, prompts, ghosts>>

-----------------------------------------------------------------------------
(* GeminiFileTailer: the whole file, whenever it changed.                   *)

Changed == \/ reader.inode # file.inode \/ reader.session # file.session
           \/ reader.offset # Size(file)

\* A file that is being written is no valid JSON: it is tried again; only a
\* new inode is noticed all the same, and clears what was known.
PollPartial ==
  /\ provider = "gemini" /\ reader.at \in {"start", "idle"}
  /\ file.half # Nothing
  /\ IF reader.inode \notin {0, file.inode}
     THEN /\ Reset
          /\ reader' = [reader EXCEPT !.inode = 0, !.session = 0,
                          !.offset = 0]
     ELSE /\ reader' = [reader EXCEPT !.at = "idle"]
          /\ UNCHANGED <<parser, state, undone>>
  /\ UNCHANGED <<provider, agent, prompt, prompts, raced, shown>>

\* readAndDeliver, handleMessages: another file, a smaller one or one of
\* another session resets the items before they are rebuilt.
PollWhole ==
  /\ provider = "gemini" /\ reader.at \in {"start", "idle"}
  /\ file.half = Nothing /\ (reader.at = "start" \/ Changed)
  /\ LET over == \/ reader.inode \notin {0, file.inode}
                 \/ Size(file) < reader.offset
                 \/ reader.session \notin {0, file.session}
         p == IF over THEN NewParser ELSE parser IN
     /\ parser' = RebuildTimeline(p, file.lines)
     /\ undone' = (undone /\ ~over)
  /\ state' = "live"
  /\ reader' = [reader EXCEPT !.at = "merge", !.merge = parser'.items,
                  !.inode = file.inode, !.session = file.session,
                  !.offset = Size(file)]
  /\ raced' = (prompt.at \in {"seeded", "removed"})
  /\ UNCHANGED <<provider, agent, prompt, prompts, shown>>

-----------------------------------------------------------------------------
(* The handler of a chat prompt.                                           *)

\* SeedPromptWithItem: the bubble is at the end; a seed not echoed yet is
\* given up.  Gemini's tolerance lets earlier messages echo it.
SeedPrompt ==
  /\ prompt.at = "idle" /\ prompts < MaxPrompts /\ Begun < MaxWork
  /\ prompts' = prompts + 1
  /\ \E from \in 1..(Len(events) + 1) :
       /\ provider # "gemini" => from = Len(events) + 1
       /\ parser' = [parser EXCEPT
            !.seed = [prompt |-> prompts', from |-> from,
                      after |-> Len(events)],
            !.items = Append(@, [id |-> -prompts', of |-> Nothing,
                                 result |-> 0])]
  /\ prompt' = [at |-> "seeded", merge |-> parser'.items]
  /\ raced' = (reader.at = "merge")
  /\ UNCHANGED <<provider, agent, reader, state, undone, shown>>

MergePrompt ==
  /\ prompt.at \in {"seeded", "removed"}
  /\ shown' = prompt.merge
  /\ prompt' = [at |-> IF prompt.at = "seeded" THEN "write" ELSE "idle",
                merge |-> <<>>]
  /\ UNCHANGED <<provider, agent, reader, parser, state, prompts, ghosts>>

Written ==
  /\ prompt.at = "write"
  /\ prompt' = [prompt EXCEPT !.at = "idle"]
  /\ UNCHANGED <<provider, agent, reader, parser, state, prompts, ghosts,
                 shown>>

\* RollbackSeedItem: whichever seed is pending, and the bubble or the item
\* that took its place; the indices of the calls are left as they are.
RollbackPrompt ==
  /\ prompt.at = "write"
  /\ LET M == {i \in DOMAIN parser.items : parser.items[i].id = -prompts} IN
     parser' = [parser EXCEPT !.seed = NoSeed,
                  !.items = IF M = {} THEN @
                            ELSE RemoveAt(@, CHOOSE i \in M : TRUE)]
  /\ prompt' = [at |-> "removed", merge |-> parser'.items]
  /\ undone' = TRUE
  /\ raced' = (reader.at = "merge")
  /\ UNCHANGED <<provider, agent, reader, state, prompts, shown>>

Next ==
  \/ BeginLine \/ EndLine \/ Restart
  \/ ReadFromBeginning \/ PollReset \/ Poll \/ DeliverLine \/ ReadComplete
  \/ MergeReader \/ PollPartial \/ PollWhole
  \/ SeedPrompt \/ MergePrompt \/ Written \/ RollbackPrompt

Spec == Init /\ [][Next]_vars

-----------------------------------------------------------------------------
(* Properties.                                                             *)

\* Nothing is on its way to the stored timeline, and the last two merges did
\* not overlap (of two that do the later to arrive wins, which need not be
\* the later to be taken).
AtRest == /\ state = "live" /\ reader.at = "idle" /\ ~raced
          /\ prompt.at \notin {"seeded", "removed"}

CaughtUp == AtRest /\ ~Changed /\ ~hidden

Count(i) == Cardinality({k \in DOMAIN shown : shown[k].of = i})

\* When the reader has caught up, the timeline shows every complete line of
\* the file exactly once, and nothing of an earlier file, whatever was
\* rotated, truncated, half written or echoed on the way.  A result is shown
\* with its call; a message of Codex is only shown no more than once, since it
\* is left out before the first task; a rollback may take away a line that was
\* taken for the echo.
EveryLineOnce ==
  CaughtUp =>
    /\ \A i \in DOMAIN shown :
         shown[i].of \in ToSet(file.lines) \cup {Nothing}
    /\ \A n \in ToSet(file.lines) :
         LET k == events[n].kind IN
         /\ Count(n) <= 1
         /\ \/ k = "result" \/ undone \/ Count(n) = 1
            \/ provider = "codex" /\ k = "message"

\* A result is shown with the call it belongs to, however many bubbles and
\* echoes have come between the two, unless a prompt was rolled back: that
\* moves the items, but not the remembered indices.
ResultsLand ==
  undone \/ \A i \in DOMAIN parser.items :
              LET item == parser.items[i] IN
              item.result = 0 \/ events[item.result].call = item.id

\* A prompt the agent has not echoed yet has exactly one bubble in the
\* timeline, also after that was rebuilt from a file without it.
SeedIsVisible ==
  AtRest /\ parser.seed # NoSeed =>
    Cardinality({i \in DOMAIN shown :
                   shown[i].id = -parser.seed.prompt}) = 1
=============================================================================
