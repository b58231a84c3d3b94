----------------------------- MODULE HostServices -----------------------------
(***************************************************************************)
(* Services of the host, put together.  The parts share no variable: the   *)
(* initial state chooses one and only that one runs, so that one run       *)
(* checks them all and their states add up.                                *)
(*  - keepawake: the leases and the policy calls;                          *)
(*  - inhibitor: the process that keeps the host awake;                    *)
(*  - devices: devices that are paired and revoked, and their connections; *)
(*  - repository: connections that change the repository;                  *)
(*  - files: connections that change files the poller watches.             *)
(***************************************************************************)
EXTENDS KeepAwake

CONSTANTS
  Peers,         \* the connections of the other parts
  MaxGens,                                              \* of Inhibitor
  Expiry, Window, MaxAttempts, Candidates, MaxCodes,    \* of Devices
  MaxSeconds,
  RepoRequests, Branches, CacheSize, PageSize,          \* of RepoCommands
  AllowForce, MaxRequests, MaxCommits, MaxEdits,
  FileCount, MaxChanges                                 \* of Files

VARIABLES
  part,   \* the part that runs
  iStatus, iHandle, iMonitor, iClosed, iProcs, iCall, iClosing, iWatchers,
  dNow, dCode, dAttempts, dTries, dStored, dConn, dCli, dHandler, dSwept,
  dDirect,
  rParent, rTip, rHead, rAt, rTree, rRemote, rTracking, rGate, rJob, rCache,
  rReplies, rPage, rSent, rEdits,
  fDisk, fChanges, fJob, fPhase, fSnapshot, fScan, fLooked, fErrPaths,
  fEvents, fView, fMissed

I == INSTANCE Inhibitor WITH
  status <- iStatus, handle <- iHandle, monitor <- iMonitor,
  closed <- iClosed, procs <- iProcs, call <- iCall, closing <- iClosing,
  watchers <- iWatchers

D == INSTANCE Devices WITH
  Conns <- Peers, MaxTime <- MaxSeconds,
  now <- dNow, code <- dCode, attempts <- dAttempts, tries <- dTries,
  stored <- dStored, conn <- dConn, cli <- dCli, handler <- dHandler,
  swept <- dSwept, direct <- dDirect

R == INSTANCE RepoCommands WITH
  Conns <- Peers, Requests <- RepoRequests,
  parent <- rParent, tip <- rTip, head <- rHead, at <- rAt, tree <- rTree,
  remote <- rRemote, tracking <- rTracking, gate <- rGate, job <- rJob,
  cache <- rCache, replies <- rReplies, page <- rPage, sent <- rSent,
  edits <- rEdits

F == INSTANCE Files WITH
  Conns <- Peers, Files <- FileCount,
  disk <- fDisk, changes <- fChanges, job <- fJob, phase <- fPhase,
  snapshot <- fSnapshot, scan <- fScan, looked <- fLooked,
  errPaths <- fErrPaths, events <- fEvents, view <- fView,
  missed <- fMissed

\* A connection is not "no one", and it remembers at least one result; a page
\* of the history has at least one entry.
ASSUME RepositoryAssumption ==
  /\ R!NoOne \notin Peers /\ {"main", "pr"} \subseteq Branches
  /\ CacheSize \in Nat \ {0} /\ PageSize \in Nat \ {0}
  /\ MaxCommits \in Nat \ {0, 1}

\* Times, limits and counts.
ASSUME CountsAssumption ==
  /\ Expiry \in Nat /\ Window \in Nat /\ MaxAttempts \in Nat
  /\ Candidates \in Nat /\ MaxCodes \in Nat /\ MaxSeconds \in Nat
  /\ FileCount \in Nat /\ MaxChanges \in Nat \ {0}

iVars == <<iStatus, iHandle, iMonitor, iClosed, iProcs, iCall, iClosing,
           iWatchers>>
dVars == <<dNow, dCode, dAttempts, dTries, dStored, dConn, dCli, dHandler,
           dSwept, dDirect>>
rVars == <<rParent, rTip, rHead, rAt, rTree, rRemote, rTracking, rGate, rJob,
           rCache, rReplies, rPage, rSent, rEdits>>
fVars == <<fDisk, fChanges, fJob, fPhase, fSnapshot, fScan, fLooked,
           fErrPaths, fEvents, fView, fMissed>>
hostVars == <<part, vars, iVars, dVars, rVars, fVars>>

-----------------------------------------------------------------------------
Parts == {"keepawake", "inhibitor", "devices", "repository", "files"}

\* What the parts that do not run could begin with is not told apart.
HostInit ==
  /\ part \in Parts
  /\ Init /\ I!Init /\ D!Init /\ R!Init /\ F!Init
  /\ config \/ failed => part = "keepawake"
  /\ rParent # <<>> => part = "repository"
  /\ (\E p \in 1..FileCount : fDisk[p] # 0) => part = "files"

KeepAwakeStep ==
  /\ part = "keepawake" /\ Next
  /\ UNCHANGED <<part, iVars, dVars, rVars, fVars>>
InhibitorStep ==
  /\ part = "inhibitor" /\ I!Next
  /\ UNCHANGED <<part, vars, dVars, rVars, fVars>>
DevicesStep ==
  /\ part = "devices" /\ D!Next
  /\ UNCHANGED <<part, vars, iVars, rVars, fVars>>
RepositoryStep ==
  /\ part = "repository" /\ R!Next
  /\ UNCHANGED <<part, vars, iVars, dVars, fVars>>
FilesStep ==
  /\ part = "files" /\ F!Next
  /\ UNCHANGED <<part, vars, iVars, dVars, rVars>>

HostNext ==
  KeepAwakeStep \/ InhibitorStep \/ DevicesStep \/ RepositoryStep \/ FilesStep

HostSpec == HostInit /\ [][HostNext]_hostVars

-----------------------------------------------------------------------------
(* Properties: those of the parts, by the part's name.                     *)

\* Every variable of the part that runs keeps its type; among others a cache
\* of results holds at most its limit and no key twice, and every live lease
\* has an id that was handed out.
PartTypesOK ==
  /\ part = "keepawake" => TypeOK
  /\ part = "inhibitor" => I!TypeOK
  /\ part = "devices" => D!TypeOK
  /\ part = "repository" => R!TypeOK
  /\ part = "files" => F!TypeOK

\* A process that keeps the host awake is the one the manager holds, or is
\* being started or asked to exit (Inhibitor).
NoStrayInhibitor == I!NoStrayInhibitor

\* No minute holds more attempts to pair than are allowed (Devices).
AttemptsAreLimited == part = "devices" => D!AttemptsAreLimited

\* A device the host has revoked has no open connection, except one that
\* was being registered meanwhile (Devices).
OpenAreKnown == D!OpenAreKnown

\* A request repeated on its connection gets the answer of the first one and
\* does nothing again, unless it was evicted (RepoCommands).
RepeatsAreRemembered == part = "repository" => R!RepeatsAreRemembered

\* What a mutation was checked against under the gate still holds when it
\* runs, unless it was changed around the gate (RepoCommands).
ChecksStillHold == part = "repository" => R!ChecksStillHold

\* The pages of history a client puts together leave nothing out and repeat
\* nothing (RepoCommands).
PagesAreTheHistory == part = "repository" => R!PagesAreTheHistory

\* A file the poller has seen and has nothing to tell of is known as it is to
\* a client that acts on every event (Files).
SeenIsKnown == part = "files" => F!SeenIsKnown
=============================================================================
