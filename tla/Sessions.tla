------------------------------- MODULE Sessions -------------------------------
(***************************************************************************)
(* Terminal sessions: pty.SessionManager and pty.Session (pty/manager.go,  *)
(* pty/session.go), the requests that open and close sessions over the     *)
(* WebSocket and over HTTP (handlers_sessions.go, session_api.go,          *)
(* handlers_tmux.go, tmux_api.go, tmux/manager.go), the rows the store     *)
(* keeps of them (storage/sessions.go) and the shutdown of cmd/host.go.    *)
(* Every call opens a session of its own; any session the manager knows    *)
(* may be closed by anybody, whether or not its opener is finished.        *)
(***************************************************************************)
EXTENDS Integers, FiniteSets

CONSTANTS
  Ids,          \* sessions: each is the one session its opening call makes
  TmuxIds,      \* those of them that attach to a tmux session
  Host,         \* the session of the host itself
  Earlier,      \* sessions of earlier runs whose rows are in the store
  MaxSessions,  \* the limit of the manager
  MaxRows,      \* the rows the store retains
  Instants,     \* what time.Now may return, in nanoseconds
  Second,       \* the second of the clock an instant is in
  TextOrder,    \* where the text of an instant is in the order of texts:
                \* of its local time (TRUE) and of its UTC time (FALSE)
  Openings      \* bound of the run: the sets of sessions that are opened

VARIABLES
  sessions,     \* the manager's map
  proc,         \* the process of a session and its waitForExit
  opener,       \* where the call that opens the session is
  closer,       \* where the call that closes it is
  tmuxUp,       \* the tmux session to attach to exists
  shutdown,     \* CloseAll was called
  rows,         \* the rows of the table sessions
  started,      \* startedAt: what time.Now returned to an opener, or 0
  early         \* sessions a close found before they were started

vars == <<sessions, proc, opener, closer, tmuxUp, shutdown, rows, started,
          early>>

Own == Ids \cup {Host}
All == Own \cup Earlier
Row == [id : All, start : Instants, system : BOOLEAN,
        status : {"running", "complete"}]

TypeOK ==
  /\ sessions \subseteq Ids /\ Cardinality(sessions) <= MaxSessions
  /\ proc \in [Ids -> {"none", "ready", "running", "ending", "exited"}]
  /\ opener \in [Own -> {"idle", "start", "save", "register", "open",
                         "failed"}]
  /\ closer \in [Ids -> {"none", "closing", "waiting", "closed"}]
  /\ tmuxUp \in BOOLEAN /\ shutdown \in BOOLEAN
  /\ rows \subseteq Row /\ Cardinality(rows) <= MaxRows
  /\ started \in [Own -> Instants \cup {0}] /\ early \subseteq Ids

\* The row of a session started at t, by a client or as a host's own.
RowOf(id, t, system) ==
  [id |-> id, start |-> t, system |-> system, status |-> "running"]

\* What a host finds in the store, and when it starts.
Beginnings ==
  {b \in {[rows |-> {RowOf(id, at[id], system[id]) : id \in Earlier},
           now |-> t] : at \in {f \in [Earlier -> Instants] :
                                 \A a, b \in Earlier : f[a] = f[b] => a = b},
                        system \in [Earlier -> BOOLEAN], t \in Instants} :
     \A r \in b.rows : r.start < b.now}

Init ==
  /\ sessions = {} /\ early = {} /\ shutdown = FALSE /\ tmuxUp = TRUE
  /\ proc = [id \in Ids |-> "none"]
  /\ opener = [id \in Own |-> IF id = Host THEN "save" ELSE "idle"]
  /\ closer = [id \in Ids |-> "none"]
  /\ \E b \in Beginnings :
       /\ rows = b.rows
       /\ started = [id \in Own |-> IF id = Host THEN b.now ELSE 0]

-----------------------------------------------------------------------------
(* The store.                                                              *)

\* Rows are ordered by the text of started_at: RFC 3339 with the fraction cut
\* after its last digit that is not 0, the host's own in local time.
Place(r) == TextOrder[r.system][r.start]

\* Wrong on purpose: the rows are sorted the other way round.
NewerDescending(a, b) == Place(a) < Place(b)
Newer(a, b) == Place(a) > Place(b)

Retained(rs) == {r \in rs : Cardinality({q \in rs : Newer(q, r)}) < MaxRows}

\* startedAt was read from the clock before the store's lock was taken, so
\* rows are not saved in the order of their times.
SaveSession(id) ==
  rows' = Retained({r \in rows : r.id # id}
                     \cup {RowOf(id, started[id], id = Host)})

\* The host stores its own session when it starts, before it listens; a
\* session that cannot be stored is only logged.
SaveHost ==
  /\ opener[Host] = "save"
  /\ \/ /\ SaveSession(Host)
        /\ opener' = [opener EXCEPT ![Host] = "open"]
     \/ /\ opener' = [opener EXCEPT ![Host] = "failed"]
        /\ UNCHANGED rows
  /\ UNCHANGED <<sessions, proc, closer, tmuxUp, shutdown, started, early>>

Listens == opener[Host] # "save"

\* session.delete, session.clear_history and session.clear_all.
DeleteSession == \E id \in All : rows' = {r \in rows : r.id # id}
ClearArchivedSessions ==
  rows' = {r \in rows : r.status = "running" \/ r.system}
ClearAllSessions == rows' = {r \in rows : r.system}

EditHistory ==
  /\ Listens
  /\ DeleteSession \/ ClearArchivedSessions \/ ClearAllSessions
  /\ rows' # rows
  /\ UNCHANGED <<sessions, proc, opener, closer, tmuxUp, shutdown, started,
                 early>>

-----------------------------------------------------------------------------
(* Opening a session.                                                      *)

\* Wrong on purpose: one session more than the limit.
FullBeyond == Cardinality(sessions) > MaxSessions
Full == Cardinality(sessions) >= MaxSessions

Arrives(id) ==
  /\ opener[id] = "idle" /\ Listens
  /\ \E opened \in Openings :
       {id} \cup {i \in Ids : opener[i] # "idle"} \subseteq opened

\* SessionManager.Create.
Create(id) ==
  /\ id \notin TmuxIds /\ Arrives(id)
  /\ \/ /\ Full
        /\ opener' = [opener EXCEPT ![id] = "failed"]
        /\ UNCHANGED <<sessions, proc>>
     \/ /\ ~Full
        /\ sessions' = sessions \cup {id}
        /\ proc' = [proc EXCEPT ![id] = "ready"]
        /\ opener' = [opener EXCEPT ![id] = "start"]
  /\ UNCHANGED <<closer, tmuxUp, shutdown, rows, started, early>>

\* What time.Now returns: it was never returned before.
Now(t) ==
  /\ t \in Instants
  /\ \A id \in Own : started[id] < t
  /\ \A r \in rows : r.start < t

\* Session.Start, and the removal of a session that does not start.
Start(id) ==
  /\ opener[id] = "start"
  /\ \/ /\ proc' = [proc EXCEPT ![id] = "running"]
        /\ opener' = [opener EXCEPT ![id] = "save"]
        /\ \E t \in Instants : Now(t) /\ started' = [started EXCEPT ![id] = t]
        /\ UNCHANGED sessions
     \/ /\ opener' = [opener EXCEPT ![id] = "failed"]
        /\ sessions' = sessions \ {id}
        /\ UNCHANGED <<proc, started>>
  /\ UNCHANGED <<closer, tmuxUp, shutdown, rows, early>>

\* persistSessionRecord; a session that cannot be stored is closed.
Save(id) ==
  /\ opener[id] = "save"
  /\ \/ /\ SaveSession(id)
        /\ opener' = [opener EXCEPT ![id] = "open"]
        /\ UNCHANGED <<sessions, closer>>
     \/ /\ opener' = [opener EXCEPT ![id] = "failed"]
        /\ sessions' = sessions \ {id}
        /\ closer' = IF id \in sessions
                     THEN [closer EXCEPT ![id] = "closing"] ELSE closer
        /\ UNCHANGED rows
  /\ UNCHANGED <<proc, tmuxUp, shutdown, started, early>>

\* AttachToTmux starts the session, and only then is it registered.
Attach(id) ==
  /\ id \in TmuxIds /\ Arrives(id)
  /\ \/ /\ tmuxUp
        /\ proc' = [proc EXCEPT ![id] = "running"]
        /\ opener' = [opener EXCEPT ![id] = "register"]
     \/ /\ opener' = [opener EXCEPT ![id] = "failed"]
        /\ UNCHANGED proc
  /\ UNCHANGED <<sessions, closer, tmuxUp, shutdown, rows, started, early>>

\* Wrong on purpose: the process is not killed.
StillRunning(id) == proc

\* Session.Stop: closes the terminal and kills the process.
Stopped(id) ==
  [proc EXCEPT ![id] = IF @ = "running" THEN "ending" ELSE @]

\* Wrong on purpose: an attached session the manager refuses keeps running.
RegisterAndForget(id) ==
  /\ opener[id] = "register"
  /\ opener' = [opener EXCEPT ![id] = IF Full THEN "failed" ELSE "open"]
  /\ sessions' = IF Full THEN sessions ELSE sessions \cup {id}
  /\ UNCHANGED <<proc, closer, tmuxUp, shutdown, rows, started, early>>

Register(id) ==
  /\ opener[id] = "register"
  /\ \/ /\ ~Full
        /\ sessions' = sessions \cup {id}
        /\ opener' = [opener EXCEPT ![id] = "open"]
        /\ UNCHANGED proc
     \/ /\ Full
        /\ proc' = Stopped(id)
        /\ opener' = [opener EXCEPT ![id] = "failed"]
        /\ UNCHANGED sessions
  /\ UNCHANGED <<closer, tmuxUp, shutdown, rows, started, early>>

-----------------------------------------------------------------------------
(* The process.                                                            *)

\* The command ends by itself, or because its tmux session was killed.
Exit(id) ==
  /\ proc[id] = "running"
  /\ proc' = [proc EXCEPT ![id] = "ending"]
  /\ UNCHANGED <<sessions, opener, closer, tmuxUp, shutdown, rows, started,
                 early>>

\* waitForExit: the output is drained, running is false, done is closed.
waitForExit(id) ==
  /\ proc[id] = "ending"
  /\ proc' = [proc EXCEPT ![id] = "exited"]
  /\ UNCHANGED <<sessions, opener, closer, tmuxUp, shutdown, rows, started,
                 early>>

IsRunning(id) == proc[id] \in {"running", "ending"}

-----------------------------------------------------------------------------
(* Closing a session.                                                      *)

\* SessionManager.Close takes the session out of the map ...
Close(id) ==
  /\ id \in sessions
  /\ sessions' = sessions \ {id}
  /\ closer' = [closer EXCEPT ![id] = "closing"]
  /\ UNCHANGED <<proc, opener, tmuxUp, shutdown, rows, started, early>>

\* tmux.detach with the kill flag: the tmux session goes before the terminal
\* is closed, unless somebody else closes that first.
KillSession(id) ==
  /\ id \in sessions \cap TmuxIds /\ tmuxUp
  /\ tmuxUp' = FALSE
  /\ UNCHANGED <<sessions, proc, opener, closer, shutdown, rows, started,
                 early>>

\* ... and CloseAll takes all of them.
CloseAll ==
  /\ ~shutdown
  /\ shutdown' = TRUE
  /\ sessions' = {}
  /\ closer' = [id \in Ids |-> IF id \in sessions THEN "closing"
                               ELSE closer[id]]
  /\ UNCHANGED <<proc, opener, tmuxUp, rows, started, early>>

\* A session that runs is stopped and waited for, any other let go.
Stop(id) ==
  /\ closer[id] = "closing"
  /\ \/ /\ IsRunning(id)
        /\ proc' = Stopped(id)
        /\ closer' = [closer EXCEPT ![id] = "waiting"]
        /\ UNCHANGED early
     \/ /\ ~IsRunning(id)
        /\ closer' = [closer EXCEPT ![id] = "closed"]
        /\ early' = IF proc[id] = "ready" THEN early \cup {id} ELSE early
        /\ UNCHANGED proc
  /\ UNCHANGED <<sessions, opener, tmuxUp, shutdown, rows, started>>

Done(id) ==
  /\ closer[id] = "waiting" /\ proc[id] = "exited"
  /\ closer' = [closer EXCEPT ![id] = "closed"]
  /\ UNCHANGED <<sessions, proc, opener, tmuxUp, shutdown, rows, started, early>>

\* The host is told to stop: its own session is complete.
CompleteHost ==
  /\ \E r \in rows : r.id = Host /\ r.status = "running"
  /\ rows' = {IF r.id = Host THEN [r EXCEPT !.status = "complete"] ELSE r :
                r \in rows}
  /\ UNCHANGED <<sessions, proc, opener, closer, tmuxUp, shutdown, started,
                 early>>

-----------------------------------------------------------------------------
\* session.create and POST /api/session/new.
Open(id) == Create(id) \/ Start(id) \/ Save(id)

\* tmux.attach and POST /api/tmux/attach.
OpenTmux(id) == Attach(id) \/ Register(id)

\* session.close, POST /api/session/{id}/kill, tmux.detach and its HTTP twin.
Shut(id) == Close(id) \/ KillSession(id)

Run(id) == Stop(id) \/ Done(id) \/ waitForExit(id)

Next ==
  \/ SaveHost \/ CompleteHost \/ EditHistory \/ CloseAll
  \/ \E id \in Ids :
       Open(id) \/ OpenTmux(id) \/ Shut(id) \/ Exit(id) \/ Run(id)

Spec == Init /\ [][Next]_vars

\* A call that closes a session runs, and a killed process ends.
FairSpec == Spec /\ \A id \in Ids : WF_vars(Run(id))

-----------------------------------------------------------------------------
(* Properties.                                                             *)

\* A running process has somebody who knows it: the manager, the call that
\* opens it or the call that closes it, except a session that was closed
\* between its Create and its Start.
RunningIsTracked ==
  \A id \in Ids :
    proc[id] = "running" =>
      \/ id \in sessions
      \/ opener[id] \in {"save", "register"}
      \/ closer[id] = "closing"
      \/ id \in early

\* Every close returns: Stop makes waitForExit close the done channel.
EveryCloseReturns ==
  \A id \in Ids : closer[id] = "closing" ~> closer[id] = "closed"

\* What saving the row of id dropped.
Dropped(id) == (rows \cup {RowOf(id, started[id], id = Host)}) \ rows'

\* "Keeps only the most recent maxSessions sessions": a save drops a row only
\* when the table is full, and of the rows of clients it keeps none that began
\* in an earlier second than one it drops.  Inside a second the order of the
\* texts is not that of time (0.5 sorts after 0.51, and both before 0), and
\* the rows of hosts are in local time.
MostRecentAreKept ==
  [][\A id \in Own : opener[id] = "save" /\ opener'[id] = "open" =>
       \A gone \in Dropped(id) :
         /\ Cardinality(rows') = MaxRows
         /\ \A kept \in rows' : ~gone.system /\ ~kept.system =>
              Second[gone.start] <= Second[kept.start]]_vars
=============================================================================
