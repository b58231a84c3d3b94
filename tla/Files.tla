-------------------------------- MODULE Files --------------------------------
(***************************************************************************)
(* The file explorer: what clients do to the work tree (handlers_file.go,  *)
(* file_ops.go), what others do to it, and the poller that tells clients   *)
(* of changes by comparing scans of the tree (file_watch_poller.go).  The  *)
(* handlers of two connections share no lock.  A file is the number of its *)
(* last change, which stands for its version token as well as for the size *)
(* and time the poller compares; a rewrite that keeps both goes unseen by  *)
(* the poller and is not modelled.  Requests that are refused change       *)
(* nothing and are left out; repeated ones are RepoCommands' subject.      *)
(***************************************************************************)
EXTENDS Integers, Sequences, FiniteSets

CONSTANTS
  Conns,       \* connections that change files
  Files,       \* number of paths; a path is a number, in the order of a walk
  MaxChanges   \* bound of the run: changes of the tree

VARIABLES
  disk,      \* the file at a path, 0 if there is none
  changes,   \* changes so far
  job,       \* the handler of a connection
  phase,     \* the poller's goroutine
  snapshot,  \* FileWatchPoller.snapshot, 0 where there is no entry
  scan,      \* what the walk under way has found
  looked,    \* the paths it has come by
  errPaths,  \* those of them it could not look at
  events,    \* what OnEvents has still to broadcast
  view,      \* what a client has listed and read; Unlisted before it lists
  missed     \* files whose last change no event will tell

poller == <<phase, snapshot, scan, looked, errPaths, events>>
vars == <<disk, changes, job, poller, view, missed>>

Paths == 1..Files
Absent == 0
Unlisted == -1
Idle == [at |-> "idle", path |-> 0, file |-> 0]

TypeOK ==
  /\ disk \in [Paths -> 0..changes] /\ changes \in 0..MaxChanges
  /\ job \in [Conns ->
               [at : {"idle", "rename", "fill", "created", "modified",
                      "deleted"},
                path : 0..Files, file : 0..MaxChanges]]
  /\ phase \in {"new", "baseline", "wait", "scan", "send", "stopped"}
  /\ snapshot \in [Paths -> 0..MaxChanges] /\ scan \in [Paths -> 0..MaxChanges]
  /\ looked \in 0..Files /\ errPaths \subseteq 1..looked
  /\ events \in Seq(Paths \X {"created", "modified", "deleted"})
  /\ view \in [Paths -> -1..MaxChanges] /\ missed \subseteq Paths

Init ==
  /\ disk \in [Paths -> {Absent, 1}] /\ changes = 1
  /\ job = [c \in Conns |-> Idle]
  /\ phase = "new" /\ events = <<>>
  /\ snapshot = [p \in Paths |-> Absent] /\ scan = snapshot
  /\ looked = 0 /\ errPaths = {}
  /\ view = [p \in Paths |-> Unlisted] /\ missed = {}

-----------------------------------------------------------------------------
(* The client: it lists the tree, and reads what it is told has changed.   *)

Listed == view[1] # Unlisted

List ==
  /\ ~Listed
  /\ view' = disk
  /\ UNCHANGED <<disk, changes, job, poller, missed>>

Read(p) == disk[p]

\* BroadcastFileWatch, and the read that answers it, which may find nothing.
\* A deletion that is told after the path was made again hides it.
Told(p, change) ==
  /\ view' = IF ~Listed THEN view
             ELSE [view EXCEPT ![p] = IF change = "deleted" THEN Absent
                                      ELSE Read(p)]
  /\ missed' = IF Listed /\ change = "deleted" /\ disk[p] # Absent
               THEN missed \cup {p} ELSE missed \ {p}

-----------------------------------------------------------------------------
(* The tree.                                                               *)

Change(p) ==
  /\ changes < MaxChanges /\ changes' = changes + 1
  /\ disk' = [disk EXCEPT ![p] = changes']

Remove(p) ==
  /\ changes < MaxChanges /\ changes' = changes + 1
  /\ disk' = [disk EXCEPT ![p] = Absent]

\* The terminal, an editor or a git command.
Edit(p) ==
  /\ Change(p) \/ (disk[p] # Absent /\ Remove(p))
  /\ UNCHANGED <<job, poller, view, missed>>

-----------------------------------------------------------------------------
(* The handlers.                                                           *)

GoTo(c, at, p, file) ==
  job' = [job EXCEPT ![c] = [at |-> at, path |-> p, file |-> file]]

\* The version the client has based its text on is the current one: the new
\* text goes to a temporary file, which the poller skips.
Write(c, p, base) ==
  /\ disk[p] # Absent /\ disk[p] = base
  /\ GoTo(c, "rename", p, base)
  /\ UNCHANGED <<disk, changes, poller, view, missed>>

\* Nobody looks again whether it still is when that takes the file's place.
atomicWriteFile(c) ==
  /\ job[c].at = "rename"
  /\ \/ Change(job[c].path) /\ GoTo(c, "modified", job[c].path, changes')
     \/ GoTo(c, "idle", 0, 0) /\ UNCHANGED <<disk, changes>>
  /\ UNCHANGED <<poller, view, missed>>

\* O_EXCL: the path was free; the file is there, empty, before its text is.
Create(c, p) ==
  /\ disk[p] = Absent
  /\ Change(p) /\ GoTo(c, "fill", p, changes')
  /\ UNCHANGED <<poller, view, missed>>

\* The text goes to the file that was created, unless it is gone or another
\* has taken its place; a failure removes whatever is at the path.
Fill(c) ==
  LET p == job[c].path IN
  /\ job[c].at = "fill"
  /\ \/ /\ disk[p] # Absent /\ Change(p)
        /\ GoTo(c, "created", p, changes')
     \/ /\ disk[p] # job[c].file /\ GoTo(c, "created", p, job[c].file)
        /\ UNCHANGED <<disk, changes>>
     \/ disk[p] # Absent /\ Remove(p) /\ GoTo(c, "idle", 0, 0)
     \/ /\ disk[p] = Absent /\ GoTo(c, "idle", 0, 0)
        /\ UNCHANGED <<disk, changes>>
  /\ UNCHANGED <<poller, view, missed>>

\* Deletion asks for no version.
Delete(c, p) ==
  /\ disk[p] # Absent
  /\ Remove(p) /\ GoTo(c, "deleted", p, 0)
  /\ UNCHANGED <<poller, view, missed>>

handleFileWrite(c) ==
  job[c] = Idle /\ \E p \in Paths, base \in 1..changes : Write(c, p, base)
handleFileCreate(c) == job[c] = Idle /\ \E p \in Paths : Create(c, p)
handleFileDelete(c) == job[c] = Idle /\ \E p \in Paths : Delete(c, p)

\* The result is sent and remembered, then the other clients are told.
Announce(c) ==
  /\ job[c].at \in {"created", "modified", "deleted"}
  /\ Told(job[c].path, job[c].at)
  /\ GoTo(c, "idle", 0, 0)
  /\ UNCHANGED <<disk, changes, poller>>

-----------------------------------------------------------------------------
(* The poller.                                                             *)

BeginScan(from, to) ==
  /\ phase = from /\ phase' = to
  /\ UNCHANGED <<disk, changes, job, snapshot, scan, looked, errPaths, events,
                 view, missed>>

Start == BeginScan("new", "baseline")
Tick == BeginScan("wait", "scan")

\* The walk comes by a path, or cannot look at it or into its directory.
Look ==
  LET p == looked + 1 IN
  /\ phase \in {"baseline", "scan"} /\ looked < Files
  /\ looked' = p
  /\ \/ scan' = [scan EXCEPT ![p] = disk[p]] /\ UNCHANGED errPaths
     \/ errPaths' = errPaths \cup {p} /\ UNCHANGED scan
  /\ UNCHANGED <<disk, changes, job, phase, snapshot, events, view, missed>>

\* What a scan has found is kept as the snapshot.
EndScan(to) ==
  /\ phase' = to /\ snapshot' = scan
  /\ scan' = [p \in Paths |-> Absent] /\ looked' = 0 /\ errPaths' = {}

\* The first scan announces nothing, not even what a client does not know.
Baseline ==
  /\ phase = "baseline" /\ looked = Files
  /\ EndScan("wait")
  /\ missed' = {p \in Paths : Listed /\ view[p] # scan[p]}
  /\ UNCHANGED <<disk, changes, job, events, view>>

Deleted == {p \in Paths : snapshot[p] # Absent /\ scan[p] = Absent}

\* Wrong on purpose: only the size is compared, which every other change has.
ModifiedInSize ==
  {p \in Paths : /\ snapshot[p] # Absent /\ scan[p] # Absent
                 /\ snapshot[p] % 2 # scan[p] % 2}
Modified ==
  {p \in Paths : /\ snapshot[p] # Absent /\ scan[p] # Absent
                 /\ snapshot[p] # scan[p]}
Created == {p \in Paths : snapshot[p] = Absent /\ scan[p] # Absent}

\* The events of one kind, in the order of the paths.
Sorted(S, change) ==
  LET from[p \in 1..(Files + 1)] ==
        IF p > Files THEN <<>>
        ELSE (IF p \in S THEN <<<<p, change>>>> ELSE <<>>) \o from[p + 1]
  IN from[1]

\* diffSnapshots.  An entry that could not be looked at is not told deleted,
\* but the new snapshot does not have it: it is created in a later one.
Diff ==
  /\ phase = "scan" /\ looked = Files
  /\ events' = Sorted(Deleted \ errPaths, "deleted")
               \o Sorted(Created, "created") \o Sorted(Modified, "modified")
  /\ EndScan("send")
  /\ UNCHANGED <<disk, changes, job, view, missed>>

\* OnEvents.
Send ==
  /\ phase = "send"
  /\ \/ events = <<>> /\ phase' = "wait" /\ UNCHANGED <<view, missed, events>>
     \/ /\ events # <<>>
        /\ Told(Head(events)[1], Head(events)[2])
        /\ events' = Tail(events) /\ UNCHANGED phase
  /\ UNCHANGED <<disk, changes, job, snapshot, scan, looked, errPaths>>

\* Stop waits for a scan under way.
Stop ==
  /\ phase = "wait" /\ phase' = "stopped"
  /\ UNCHANGED <<disk, changes, job, snapshot, scan, looked, errPaths, events,
                 view, missed>>

Next ==
  \/ List \/ \E p \in Paths : Edit(p)
  \/ \E c \in Conns :
       \/ handleFileWrite(c) \/ handleFileCreate(c) \/ handleFileDelete(c)
       \/ atomicWriteFile(c) \/ Fill(c) \/ Announce(c)
  \/ Start \/ Tick \/ Look \/ Baseline \/ Diff \/ Send \/ Stop

Spec == Init /\ [][Next]_vars

-----------------------------------------------------------------------------
(* Properties.                                                             *)

\* A file the poller has seen as it is, and has nothing to tell of, is known
\* so to a client that acts on every event: the events of the handlers and of
\* the poller in any order, files that change during a scan or a read, and
\* scans that fail do not part the two, except where a change is never told
\* (missed).  A path without a file may be known wrongly: what comes and goes
\* between two scans, or goes while it cannot be looked at, is not told.
SeenIsKnown ==
  \A p \in Paths :
    /\ phase = "wait" /\ Listed
    /\ disk[p] # Absent /\ snapshot[p] = disk[p]
    => view[p] = disk[p] \/ p \in missed
=============================================================================
