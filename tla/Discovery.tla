------------------------------ MODULE Discovery ------------------------------
(***************************************************************************)
(* How a terminal session finds the file in which the agent it runs keeps  *)
(* the conversation: the watchers of the three providers                   *)
(* (jsonl_session_watcher.go for Claude, codex_session_watcher.go,         *)
(* gemini_session_watcher.go), the deadlines startWatcher of their         *)
(* pipelines gives them, and the restart of a discovery that SeedPrompt    *)
(* makes.  All sessions run the same provider in the same directory.  The  *)
(* agents, who create and write the files, are not this program's code.    *)
(***************************************************************************)
EXTENDS Integers, FiniteSets

CONSTANTS
  Sessions,      \* sessions; each agent keeps one file, named as its session
  Others,        \* files of agents that run outside the host
  Window,        \* MtimeWindow
  Timeout,       \* DiscoveryTimeout
  Fresh,         \* FreshPreferenceWindow
  MaxTime        \* bound of the run: the clock

VARIABLES
  provider, now,
  launch,        \* LaunchTime: when the session's output was first seen
  prompted,      \* claudePipeline.prompted
  watch,         \* the session's watcher: its deadline, its outcome
  file           \* the files: first event or startTime, mtime, completeness

vars == <<provider, now, launch, prompted, watch, file>>

Files == Sessions \cup Others
Time == 0..MaxTime
NotYet == MaxTime + 1

\* "swallowed": the pre-prompt watcher timed out, its pipeline forgot it.
Outcomes == {"none", "polls", "swallowed", "downgraded"} \cup Files

TypeOK ==
  /\ provider \in {"claude", "codex", "gemini"} /\ now \in Time
  /\ launch \in [Sessions -> Time \cup {NotYet}]
  /\ prompted \in [Sessions -> BOOLEAN]
  /\ watch \in [Sessions -> [pre : BOOLEAN, outcome : Outcomes,
                             deadline : 0..(MaxTime + Timeout)]]
  /\ file \in [Files -> [begun : Time, mtime : Time, whole : BOOLEAN,
                         made : BOOLEAN]]

Init ==
  /\ provider \in {"claude", "codex", "gemini"} /\ now = Window + 1
  /\ launch = [s \in Sessions |-> NotYet]
  /\ prompted = [s \in Sessions |-> FALSE]
  /\ watch = [s \in Sessions |-> [pre |-> TRUE, outcome |-> "none",
                                  deadline |-> 0]]
  /\ \E old \in SUBSET Others :
       file = [f \in Files |-> [begun |-> 0, mtime |-> 0, whole |-> f \in old,
                                made |-> f \in old]]

-----------------------------------------------------------------------------
(* What a scan of the directory finds.                                     *)

Touched(s, f) == file[f].made /\ file[f].mtime >= launch[s] - Window

\* readFirstEventTimestamp, readSessionMeta: a file whose first line is not
\* complete is no candidate yet.  A Gemini file is one JSON value.
Since(s, f) == file[f].begun >= launch[s]

SinceTolerantly(s, f) == file[f].begun >= launch[s] - Window

Candidates(s) ==
  {f \in Files : /\ Touched(s, f) /\ file[f].whole
                 /\ provider \in {"claude", "codex"} => Since(s, f)}

Apart(a, b) == IF a >= b THEN a - b ELSE b - a

\* The candidates codexTieBreak puts first.
Nearest(s, C) ==
  {f \in C : \A g \in C : Apart(file[f].begun, launch[s])
                            <= Apart(file[g].begun, launch[s])}

\* The order of resolveCandidate: the least time from the launch to the last
\* update, negative ones last, then the newer session.
Before(s, f, g) ==
  LET a == file[f].mtime - launch[s]
      b == file[g].mtime - launch[s] IN
  \/ a >= 0 /\ (b < 0 \/ a < b)
  \/ a < 0 /\ b < 0 /\ a > b
  \/ a = b /\ file[f].begun > file[g].begun

Foremost(s, C) == {f \in C : \A g \in C : ~Before(s, g, f)}

\* The candidates the watcher chooses among: Gemini takes a session begun
\* around the launch first, and an older one, resumed, only after a while.
Eligible(s) ==
  LET C == Candidates(s)
      fresh == {f \in C : SinceTolerantly(s, f)} IN
  IF provider # "gemini" THEN C
  ELSE IF fresh # {} THEN fresh
  ELSE IF now < launch[s] + Fresh /\ now <= watch[s].deadline THEN {}
  ELSE C

Chosen(s) ==
  LET C == Eligible(s) IN
  CASE provider = "claude" -> C
    [] provider = "codex" -> Nearest(s, C)
    [] provider = "gemini" -> Foremost(s, C)

-----------------------------------------------------------------------------
(* The watcher.                                                            *)

\* startWatcher: the deadline is the default one, or a while from now if the
\* launch is in the past.
Watching(s, pre) ==
  [pre |-> pre, outcome |-> "polls", deadline |-> now + Timeout]

\* ensurePipeline, at the first output of the session.
Launch(s) ==
  /\ launch[s] = NotYet
  /\ launch' = [launch EXCEPT ![s] = now]
  /\ watch' = [watch EXCEPT ![s] = Watching(s, TRUE)]
  /\ UNCHANGED <<provider, now, prompted, file>>

Bind(s) ==
  /\ Cardinality(Chosen(s)) = 1
  /\ \E f \in Chosen(s) : watch' = [watch EXCEPT ![s].outcome = f]

\* OnDowngrade: before the first prompt a pipeline only forgets its watcher.
Downgrade(s) ==
  /\ \/ Cardinality(Chosen(s)) > 1
     \/ Chosen(s) = {} /\ now > watch[s].deadline
  /\ watch' = [watch EXCEPT ![s].outcome =
                 IF watch[s].pre THEN "swallowed" ELSE "downgraded"]

\* Wrong on purpose: an incomplete file keeps the discovery going.
ScanHopefully(s) ==
  /\ watch[s].outcome = "polls"
  /\ \/ Bind(s)
     \/ Downgrade(s) /\ \A f \in Files : file[f].made => file[f].whole
  /\ UNCHANGED <<provider, now, launch, prompted, file>>

\* tryDiscover.
Scan(s) ==
  /\ watch[s].outcome = "polls"
  /\ Bind(s) \/ Downgrade(s)
  /\ UNCHANGED <<provider, now, launch, prompted, file>>

\* SeedPrompt: the first prompt replaces the watcher of a session that is not
\* bound; a later one does if the watcher was forgotten.
SeedPrompt(s) ==
  /\ watch[s].outcome \notin {"none", "downgraded"}
  /\ ~prompted[s] \/ watch[s].outcome = "swallowed"
  /\ prompted' = [prompted EXCEPT ![s] = TRUE]
  /\ watch' = IF watch[s].outcome \in Files THEN watch
              ELSE [watch EXCEPT ![s] = Watching(s, FALSE)]
  /\ UNCHANGED <<provider, now, launch, file>>

-----------------------------------------------------------------------------
(* The agents and the clock.                                               *)

\* An agent creates its file some time after it was started: Claude at its
\* first prompt, which may also be typed in the terminal.
Begin(f) ==
  /\ ~file[f].made /\ (f \in Sessions => launch[f] # NotYet)
  /\ \E whole \in BOOLEAN :
       file' = [file EXCEPT ![f] = [begun |-> now, mtime |-> now,
                                    whole |-> whole, made |-> TRUE]]
  /\ UNCHANGED <<provider, now, launch, prompted, watch>>

\* An agent appends to its file, or saves it again.
Write(f) ==
  /\ file[f].made
  /\ file' = [file EXCEPT ![f].mtime = now, ![f].whole = TRUE]
  /\ file' # file
  /\ UNCHANGED <<provider, now, launch, prompted, watch>>

Tick ==
  /\ now < MaxTime /\ now' = now + 1
  /\ UNCHANGED <<provider, launch, prompted, watch, file>>

Next ==
  \/ \E s \in Sessions : Launch(s) \/ Scan(s) \/ SeedPrompt(s)
  \/ \E f \in Files : Begin(f) \/ Write(f)
  \/ Tick

Spec == Init /\ [][Next]_vars

\* The ticker of a watcher and the clock do not stop.
FairSpec ==
  /\ Spec /\ WF_vars(Tick)
  /\ \A s \in Sessions : WF_vars(Scan(s))

-----------------------------------------------------------------------------
(* Properties.                                                             *)

\* Every discovery comes to an end, bound or not, unless the run is over
\* before its deadline has passed (tryDiscover returns true at the deadline
\* whatever it has seen; a Gemini watcher must not wait for a fresh file
\* beyond it).
EveryDiscoveryEnds ==
  \A s \in Sessions :
    (watch[s].outcome = "polls")
      ~> (watch[s].outcome # "polls" \/ watch[s].deadline >= MaxTime)

\* A session is bound to the file of its own agent: "binds the correct JSONL
\* file for a Claude PTY session" (jsonl_session_watcher.go:38).  Two
\* sessions of one directory break it: the file of the session prompted
\* first qualifies for the other one, too.
CorrectFile ==
  \A s \in Sessions : watch[s].outcome \in Files => watch[s].outcome = s
=============================================================================
