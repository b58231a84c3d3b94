---------------------------- MODULE StructuredChat ----------------------------
(***************************************************************************)
(* The parts of the structured chat, put together.  They share no          *)
(* variable: the initial state chooses one and only that one runs, so that *)
(* one run checks them all and their states add up instead of multiplying. *)
(*  - timeline: the store of the chat and the copy of a client;            *)
(*  - handlers: pipelines of a session and the prompts of Conns;           *)
(*  - restarts: the same, with other connections and bounds;               *)
(*  - transcript: the file of an agent, its reader and its parser.         *)
(***************************************************************************)
EXTENDS StructuredTimeline

CONSTANTS
  Conns, Requests, MaxPipes,                \* of the handlers' Pipelines
  RestartConns, RestartRequests, RestartPipes,   \* of the restarts'
  Device, MaxWatchers, MaxReaders,        \* of both
  Agents, MaxEvents, MaxPrompts, MaxResets, MaxWork   \* of Transcript

\* The handlers of connections are no other thread of a session, and no
\* connection is None.
ASSUME ConnectionsAssumption ==
  /\ None \notin Conns \cup RestartConns
  /\ {"output", "closer"} \cap (Conns \cup RestartConns) = {}

\* The bounds of Transcript are numbers.
ASSUME LimitsAssumption ==
  /\ MaxEvents \in Nat /\ MaxPrompts \in Nat /\ MaxResets \in Nat
  /\ MaxWork \in Nat

VARIABLES
  part,   \* the part that runs
  hFlagged, hOpen, hStructured, hEntry, hPrompt, hPipes, hWatchers, hReaders,
  hThread, hCleared, hOverlapped, hLate,
  rFlagged, rOpen, rStructured, rEntry, rPrompt, rPipes, rWatchers, rReaders,
  rThread, rCleared, rOverlapped, rLate,
  tProvider, tFile, tEvents, tResets, tHidden, tReader, tParser, tState,
  tPrompt, tPrompts, tUndone, tRaced, tShown

H == INSTANCE Pipelines WITH
  flagged <- hFlagged, open <- hOpen, structured <- hStructured,
  entry <- hEntry, prompt <- hPrompt, pipes <- hPipes,
  watchers <- hWatchers, readers <- hReaders, thread <- hThread,
  cleared <- hCleared, overlapped <- hOverlapped, late <- hLate

R == INSTANCE Pipelines WITH
  Conns <- RestartConns, Requests <- RestartRequests, MaxPipes <- RestartPipes,
  flagged <- rFlagged, open <- rOpen, structured <- rStructured,
  entry <- rEntry, prompt <- rPrompt, pipes <- rPipes,
  watchers <- rWatchers, readers <- rReaders, thread <- rThread,
  cleared <- rCleared, overlapped <- rOverlapped, late <- rLate

T == INSTANCE Transcript WITH
  Providers <- Agents,
  provider <- tProvider, file <- tFile, events <- tEvents,
  resets <- tResets, hidden <- tHidden, reader <- tReader,
  parser <- tParser, state <- tState, prompt <- tPrompt,
  prompts <- tPrompts, undone <- tUndone, raced <- tRaced, shown <- tShown

hVars == <<hFlagged, hOpen, hStructured, hEntry, hPrompt, hPipes, hWatchers,
           hReaders, hThread, hCleared, hOverlapped, hLate>>
rVars == <<rFlagged, rOpen, rStructured, rEntry, rPrompt, rPipes, rWatchers,
           rReaders, rThread, rCleared, rOverlapped, rLate>>
tVars == <<tProvider, tFile, tEvents, tResets, tHidden, tReader, tParser,
           tState, tPrompt, tPrompts, tUndone, tRaced, tShown>>
chatVars == <<part, vars, hVars, rVars, tVars>>

-----------------------------------------------------------------------------
Parts == {"timeline", "handlers", "restarts", "transcript"}

\* What the parts that do not run could begin with is not told apart.
ChatInit ==
  /\ part \in Parts
  /\ Init /\ H!Init /\ R!Init /\ T!Init
  /\ hFlagged => part = "handlers"
  /\ rFlagged => part = "restarts"
  /\ tProvider # "claude" => part = "transcript"

TimelineStep ==
  part = "timeline" /\ Next /\ UNCHANGED <<part, hVars, rVars, tVars>>
HandlersStep ==
  part = "handlers" /\ H!Next /\ UNCHANGED <<part, vars, rVars, tVars>>
RestartsStep ==
  part = "restarts" /\ R!Next /\ UNCHANGED <<part, vars, hVars, tVars>>
TranscriptStep ==
  part = "transcript" /\ T!Next /\ UNCHANGED <<part, vars, hVars, rVars>>

ChatNext ==
  TimelineStep \/ HandlersStep \/ RestartsStep \/ TranscriptStep

ChatSpec == ChatInit /\ [][ChatNext]_chatVars

-----------------------------------------------------------------------------
(* Properties: those of the parts, by the part's name.                     *)

\* Every variable of the part that runs keeps its type.
PartTypesOK ==
  /\ part = "timeline" => TypeOK
  /\ part = "handlers" => H!TypeOK
  /\ part = "restarts" => R!TypeOK
  /\ part = "transcript" => T!TypeOK

\* A reader that was bound before its pipeline was stopped writes nothing to
\* the timeline afterwards (Pipelines).
StoppedReadersAreQuiet ==
  H!StoppedReadersAreQuiet /\ R!StoppedReadersAreQuiet

\* Two prompts of a session are in flight at once only if the record of one
\* was removed by the end of something else (Pipelines).
OnePromptAtATime == H!OnePromptAtATime /\ R!OnePromptAtATime

\* Every complete line of the agent's file is in the chat once when the
\* reader has caught up, through rotations and half lines (Transcript).
EveryLineOnce == part = "transcript" => T!EveryLineOnce

\* The result of a tool call is shown with that call, whatever bubbles have
\* come in between (Transcript).
ResultsLand == part = "transcript" => T!ResultsLand

\* A prompt keeps one bubble in the chat until the agent's file has it, also
\* when the file was read again from its beginning (Transcript).
SeedIsVisible == part = "transcript" => T!SeedIsVisible
=============================================================================
