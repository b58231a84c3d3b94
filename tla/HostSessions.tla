----------------------------- MODULE HostSessions -----------------------------
(***************************************************************************)
(* The sessions of the host, put together, under fairness.  The parts      *)
(* share no variable: the initial state chooses one and only that one      *)
(* runs, so that one run checks them all and their states add up.          *)
(*  - gate: the output of a session that is being created;                 *)
(*  - hub: connections that join while a terminal prints;                  *)
(*  - sessions: PTY sessions and tmux sessions;                            *)
(*  - discovery: the sessions' search for the files of their agents.       *)
(***************************************************************************)
EXTENDS SessionOutputGate, FiniteSets

CONSTANTS
  Conns, SendCap, CastCap, HistoryCap, MaxOutput,       \* of Hub
  Ids, TmuxIds, Host, Earlier,                          \* of Sessions
  MaxSessions, MaxRows, Instants, Second, TextOrder, Openings,
  Agents, Others, Window, Timeout, Fresh, MaxTime       \* of Discovery

\* The ring buffer keeps at least a line.
ASSUME HistoryAssumption == HistoryCap \in Nat \ {0}

\* Times are after 0.  No two instants have one text, and UTC texts of
\* different seconds are ordered like the seconds.
ASSUME TextAssumption ==
  /\ Instants \subseteq Nat \ {0} /\ Second \in [Instants -> Nat]
  /\ TextOrder \in [BOOLEAN -> [Instants -> Nat]]
  /\ \A t, u \in Instants :
       /\ Second[t] < Second[u] => TextOrder[FALSE][t] < TextOrder[FALSE][u]
       /\ \A a, b \in BOOLEAN : TextOrder[a][t] = TextOrder[b][u] => t = u

\* The store retains some rows, and every session has an id of its own.
ASSUME RowsAssumption ==
  /\ MaxRows \in Nat \ {0} /\ IsFiniteSet(Earlier)
  /\ Host \notin Ids \cup Earlier /\ Ids \cap Earlier = {}

\* Capacities, limits and times; what earlier runs left fits the store.
ASSUME LimitsAssumption ==
  /\ SendCap \in Nat /\ CastCap \in Nat /\ MaxOutput \in Nat
  /\ IsFiniteSet(Ids) /\ MaxSessions \in Nat
  /\ Cardinality(Earlier) <= MaxRows
  /\ Window \in Nat /\ Timeout \in Nat /\ MaxTime \in Nat
  /\ Window < MaxTime

VARIABLES
  part,   \* the part that runs
  hServing, hStopped, hClients, hBroadcast, hPhase, hSend, hDone, hWriter,
  hOpen, hCapturing, hEmitted, hEnds, hRecorded, hRing, hSince, hReplay,
  hSettled,
  sSessions, sProc, sOpener, sCloser, sTmuxUp, sShutdown, sRows, sStarted,
  sEarly,
  dProvider, dNow, dLaunch, dPrompted, dWatch, dFile

H == INSTANCE Hub WITH
  serving <- hServing, stopped <- hStopped, clients <- hClients,
  broadcast <- hBroadcast, phase <- hPhase, send <- hSend, done <- hDone,
  writer <- hWriter, open <- hOpen, capturing <- hCapturing,
  emitted <- hEmitted, ends <- hEnds, recorded <- hRecorded, ring <- hRing,
  since <- hSince, replay <- hReplay, settled <- hSettled

S == INSTANCE Sessions WITH
  sessions <- sSessions, proc <- sProc, opener <- sOpener,
  closer <- sCloser, tmuxUp <- sTmuxUp, shutdown <- sShutdown,
  rows <- sRows, started <- sStarted, early <- sEarly

D == INSTANCE Discovery WITH
  Sessions <- Agents,
  provider <- dProvider, now <- dNow, launch <- dLaunch,
  prompted <- dPrompted, watch <- dWatch, file <- dFile

hVars == <<hServing, hStopped, hClients, hBroadcast, hPhase, hSend, hDone,
           hWriter, hOpen, hCapturing, hEmitted, hEnds, hRecorded, hRing, hSince,
           hReplay, hSettled>>
sVars == <<sSessions, sProc, sOpener, sCloser, sTmuxUp, sShutdown, sRows,
           sStarted, sEarly>>
dVars == <<dProvider, dNow, dLaunch, dPrompted, dWatch, dFile>>
hostVars == <<part, vars, hVars, sVars, dVars>>

-----------------------------------------------------------------------------
Parts == {"gate", "hub", "sessions", "discovery"}

\* One of the ways a host can begin.
First == CHOOSE b \in S!Beginnings : TRUE

\* What the parts that do not run could begin with is not told apart.
HostInit ==
  /\ part \in Parts
  /\ Init /\ H!Init /\ S!Init /\ D!Init
  /\ sRows # First.rows \/ sStarted[Host] # First.now => part = "sessions"
  /\ dProvider # "claude" \/ (\E f \in Others : dFile[f].made)
       => part = "discovery"

GateStep == part = "gate" /\ Next /\ UNCHANGED <<part, hVars, sVars, dVars>>
HubStep == part = "hub" /\ H!Next /\ UNCHANGED <<part, vars, sVars, dVars>>
SessionsStep ==
  part = "sessions" /\ S!Next /\ UNCHANGED <<part, vars, hVars, dVars>>
DiscoveryStep ==
  part = "discovery" /\ D!Next /\ UNCHANGED <<part, vars, hVars, sVars>>

HostNext == GateStep \/ HubStep \/ SessionsStep \/ DiscoveryStep

\* The fairness of the parts (FairSpec of each module), of the one that runs.
Runs(p, A) == part = p /\ A

HostSpec ==
  /\ HostInit /\ [][HostNext]_hostVars
  /\ WF_vars(Runs("gate", Forward)) /\ WF_vars(Runs("gate", Create))
  /\ WF_hVars(Runs("hub", H!Record)) /\ WF_hVars(Runs("hub", H!runBroadcaster))
  /\ \A c \in Conns : /\ WF_hVars(Runs("hub", H!Serve(c)))
                     /\ WF_hVars(Runs("hub", H!WriteNext(c)))
                     /\ WF_hVars(Runs("hub", H!EndWriter(c)))
  /\ \A id \in Ids : WF_sVars(Runs("sessions", S!Run(id)))
  /\ WF_dVars(Runs("discovery", D!Tick))
  /\ \A s \in Agents : WF_dVars(Runs("discovery", D!Scan(s)))

-----------------------------------------------------------------------------
(* Properties: those of the parts, by the part's name.                     *)

\* Every variable of the part that runs keeps its type; among others the
\* manager holds at most its limit of sessions and the store of rows, and
\* no buffer of the hub holds more than fits.
PartTypesOK ==
  /\ part = "gate" => TypeOK
  /\ part = "hub" => H!TypeOK
  /\ part = "sessions" => S!TypeOK
  /\ part = "discovery" => D!TypeOK

\* A connection that joins while the terminal prints misses nothing between
\* the history it is sent and the live stream but what was broadcast and not
\* yet a line of the history (Hub).
ReplayMeetsLiveStream == H!ReplayMeetsLiveStream

\* A connection that is closed leaves the server's set of clients (Hub).
ClosedClientIsForgotten == H!ClosedClientIsForgotten

\* No terminal process runs that neither the manager nor a call under way
\* knows of (Sessions).
RunningIsTracked == S!RunningIsTracked

\* Every call that closes a session returns (Sessions).
EveryCloseReturns == S!EveryCloseReturns

\* The rows of clients that saving a session drops are the oldest (Sessions).
MostRecentAreKept == S!MostRecentAreKept

\* The search for the agent's file comes to an end at its deadline, with or
\* without a file (Discovery).
EveryDiscoveryEnds == D!EveryDiscoveryEnds
=============================================================================
