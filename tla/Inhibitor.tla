------------------------------ MODULE Inhibitor ------------------------------
(***************************************************************************)
(* The manager of the process that keeps the host awake                    *)
(* (keepawake/manager.go) and its adapter for macOS                        *)
(* (inhibitor_darwin.go).  The server calls SetDesiredEnabled under its    *)
(* keep-awake lock (KeepAwake), so one call is under way at a time; the    *)
(* shutdown of the host calls Close at any time, and a goroutine watches   *)
(* every process that was acquired.  The manager gives its lock up while a *)
(* process is started or asked to exit.                                    *)
(***************************************************************************)
EXTENDS Integers, Sequences

CONSTANT MaxGens   \* bound of the run: generations after which nobody enables

VARIABLES
  status,    \* Status: state and desired
  handle,    \* the process the manager holds, or 0
  monitor,   \* the generation of that handle
  closed,    \* Close was called
  procs,     \* every process started: running, and asked to exit (term)
  call,      \* SetDesiredEnabled
  closing,   \* Close
  watchers   \* the watchHandle goroutines: a process and its generation

vars == <<status, handle, monitor, closed, procs, call, closing, watchers>>

Idle == [at |-> "idle", proc |-> 0]

TypeOK ==
  /\ status \in [state : {"OFF", "PENDING", "ON", "DEGRADED"},
                 desired : BOOLEAN]
  /\ procs \in Seq([running : BOOLEAN, term : BOOLEAN])
  /\ handle \in 0..Len(procs) /\ monitor \in Nat /\ closed \in BOOLEAN
  /\ call \in [at : {"idle", "acquire", "adopt", "surrender", "release"},
               proc : 0..Len(procs)]
  /\ closing \in [at : {"idle", "release", "done"}, proc : 0..Len(procs)]
  /\ watchers \subseteq [proc : DOMAIN procs, gen : 0..monitor]

Init ==
  /\ status = [state |-> "OFF", desired |-> FALSE]
  /\ handle = 0 /\ monitor = 0 /\ closed = FALSE /\ procs = <<>>
  /\ call = Idle /\ closing = Idle /\ watchers = {}

-----------------------------------------------------------------------------
(* SetDesiredEnabled(true).                                                *)

Gone(p) == ~procs[p].running

\* A handle that still runs needs nothing; one that has exited without its
\* watcher having noticed is dropped and another acquired.
Enable ==
  /\ call.at = "idle" /\ ~closed /\ monitor < MaxGens
  /\ IF status.desired /\ status.state = "ON" /\ handle # 0
     THEN Gone(handle) /\ handle' = 0 /\ monitor' = monitor + 1
     ELSE UNCHANGED <<handle, monitor>>
  /\ status' = [state |-> "PENDING", desired |-> TRUE]
  /\ call' = [Idle EXCEPT !.at = "acquire"]
  /\ UNCHANGED <<closed, procs, closing, watchers>>

AcquireFails ==
  /\ call.at = "acquire"
  /\ status' = [status EXCEPT !.state = "DEGRADED"]
  /\ call' = Idle
  /\ UNCHANGED <<handle, monitor, closed, procs, closing, watchers>>

Acquire ==
  /\ call.at = "acquire"
  /\ procs' = Append(procs, [running |-> TRUE, term |-> FALSE])
  /\ call' = [at |-> "adopt", proc |-> Len(procs')]
  /\ UNCHANGED <<status, handle, monitor, closed, closing, watchers>>

\* Back under the lock; if the manager was closed meanwhile the process is
\* given up again.
Adopt ==
  /\ call.at = "adopt" /\ status.desired /\ ~closed
  /\ handle' = call.proc /\ monitor' = monitor + 1
  /\ status' = [status EXCEPT !.state = "ON"]
  /\ watchers' = watchers \cup {[proc |-> call.proc, gen |-> monitor']}
  /\ call' = Idle
  /\ UNCHANGED <<closed, procs, closing>>

Surrender ==
  /\ call.at = "adopt" /\ (~status.desired \/ closed)
  /\ procs' = [procs EXCEPT ![call.proc].term = TRUE]
  /\ call' = [call EXCEPT !.at = "surrender"]
  /\ UNCHANGED <<status, handle, monitor, closed, closing, watchers>>

Surrendered ==
  /\ call.at = "surrender" /\ Gone(call.proc)
  /\ status' = [status EXCEPT !.state = "OFF"]
  /\ call' = Idle
  /\ UNCHANGED <<handle, monitor, closed, procs, closing, watchers>>

-----------------------------------------------------------------------------
(* SetDesiredEnabled(false) and Close.                                     *)

\* What both do under the lock.
LetGo ==
  /\ status' = [state |-> "OFF", desired |-> FALSE]
  /\ handle' = 0 /\ monitor' = monitor + 1
  /\ procs' = IF handle = 0 THEN procs
              ELSE [procs EXCEPT ![handle].term = TRUE]

Disable ==
  /\ call.at = "idle" /\ ~closed /\ status.desired
  /\ LetGo
  /\ call' = IF handle = 0 THEN Idle ELSE [at |-> "release", proc |-> handle]
  /\ UNCHANGED <<closed, closing, watchers>>

Released ==
  /\ call.at = "release" /\ Gone(call.proc)
  /\ call' = Idle
  /\ UNCHANGED <<status, handle, monitor, closed, procs, closing, watchers>>

Close ==
  /\ ~closed /\ closed' = TRUE
  /\ LetGo
  /\ closing' = IF handle = 0 THEN [Idle EXCEPT !.at = "done"]
                ELSE [at |-> "release", proc |-> handle]
  /\ UNCHANGED <<call, watchers>>

CloseReleased ==
  /\ closing.at = "release" /\ Gone(closing.proc)
  /\ closing' = [closing EXCEPT !.at = "done"]
  /\ UNCHANGED <<status, handle, monitor, closed, procs, call, watchers>>

\* Close has a deadline; a process that has not exited by then is killed.
CloseTimesOut ==
  /\ closing.at = "release" /\ ~Gone(closing.proc)
  /\ procs' = [procs EXCEPT ![closing.proc].running = FALSE]
  /\ closing' = [closing EXCEPT !.at = "done"]
  /\ UNCHANGED <<status, handle, monitor, closed, call, watchers>>

-----------------------------------------------------------------------------
(* The processes and their watchers.                                       *)

Exit(p) ==
  /\ procs[p].running
  /\ procs' = [procs EXCEPT ![p].running = FALSE]
  /\ UNCHANGED <<status, handle, monitor, closed, call, closing, watchers>>

Lost == handle' = 0 /\ status' = [status EXCEPT !.state = "DEGRADED"]

\* Wrong on purpose: a watcher does not ask which process the manager holds.
WatchAnyHandle(w) ==
  /\ Gone(w.proc) /\ watchers' = watchers \ {w}
  /\ IF status.desired /\ ~closed THEN Lost ELSE UNCHANGED <<handle, status>>
  /\ UNCHANGED <<monitor, closed, procs, call, closing>>

WatchHandle(w) ==
  /\ Gone(w.proc) /\ watchers' = watchers \ {w}
  /\ IF /\ handle = w.proc /\ monitor = w.gen
        /\ status.desired /\ ~closed
     THEN Lost ELSE UNCHANGED <<handle, status>>
  /\ UNCHANGED <<monitor, closed, procs, call, closing>>

Next ==
  \/ Enable \/ AcquireFails \/ Acquire \/ Adopt \/ Surrender \/ Surrendered
  \/ Disable \/ Released
  \/ Close \/ CloseReleased \/ CloseTimesOut
  \/ \E p \in DOMAIN procs : Exit(p)
  \/ \E w \in watchers : WatchHandle(w)

Spec == Init /\ [][Next]_vars

-----------------------------------------------------------------------------
(* Properties.                                                             *)

\* No process keeps the host awake behind the manager's back: one that runs
\* and was not asked to exit is the one the manager holds, or has just been
\* started by the call under way.  Old watchers, exits that nobody asked for
\* and a shutdown while a process is being started do not change that.
NoStrayInhibitor ==
  \A p \in DOMAIN procs :
    procs[p].running /\ ~procs[p].term =>
      \/ p = handle /\ status.state = "ON" /\ status.desired
      \/ call = [at |-> "adopt", proc |-> p]
=============================================================================
