----------------------------- MODULE ReviewCards ----------------------------
(***************************************************************************)
(* Review cards: the pending change of a file, from the poll that finds it *)
(* to the decision that stages or reverts it and the undo that brings it   *)
(* back.  Three kinds of goroutine share the git repository, the SQLite    *)
(* tables and the streamer's seenFileHashes:                               *)
(*  - the diff poller (diff/poller.go), which calls the card streamer      *)
(*    (stream/card_streamer.go, ProcessChunksRaw) when the diff changed;   *)
(*  - a client's reconnect, which prunes stale cards from a snapshot of    *)
(*    its own (ValidateAndCleanStaleCards);                                *)
(*  - the clients' requests: review.decision (actions/decision_file.go),   *)
(*    review.undo (actions/undo.go), repo.commit (handlers_repo.go).       *)
(* The store's mutex makes each table operation one step and is held for   *)
(* the whole decision transaction, git command included; git itself and    *)
(* seenFileHashes are not under it.                                        *)
(*                                                                         *)
(* Abstraction: the content of a file is one of Versions, a diff is the    *)
(* pair of the staged and the working content, and a patch applies exactly *)
(* when the content it expects is there (the change is one hunk).  Tracked *)
(* text files only: deletions, renames, binary and new files take the same *)
(* transaction with other git commands and are not modelled.               *)
(***************************************************************************)
EXTENDS Integers, FiniteSets

CONSTANTS
  Files,         \* the tracked files (a card's id is its file's)
  Versions,      \* the contents a file can have
  Requests,      \* concurrent client requests: a decision or an undo each
  Base,          \* the content of every file at the start
  MaxEdits,      \* bound of the run: edits of the working tree
  MaxCalls,      \* bound of the run: decisions and undos that begin
  MaxFaults,     \* bound of the run: table and git failures and restarts
  None

ASSUME BaseAssumption == Base \in Versions /\ None \notin Versions
ASSUME BoundAssumption ==
  /\ MaxEdits \in Nat /\ MaxCalls \in Nat
  /\ MaxFaults \in Nat

VARIABLES
  idx,        \* the staged content of each file (git index)
  work,       \* its content in the working tree
  card,       \* review_cards: the pending diff of each file, or None
  decided,    \* decided_cards: the archived decision of each file, or None
  seen,       \* cardStreamer.seenFileHashes
  lastHash,   \* poller.lastHash: the diff of the whole repository it hashes
  scan,       \* the poller's and the reconnecting client's progress
  act,        \* the progress of each request
  marking,    \* the accepted cards a repo.commit listed, None outside of it
  edits, calls, failures,   \* the bounded counters
  boots,      \* restarts of the host, bounded as well
  recorded,   \* history: the staged content per the decisions on record
  torn,       \* history: files on which an accepted change was left half
              \* done: see IndexFollowsRecords
  undone      \* history: files an undo changed

git == <<idx, work, edits>>
tables == <<card, decided, failures>>
history == <<recorded, torn, undone>>
requests == <<act, calls>>
vars ==
  <<git, tables, seen, lastHash, scan, requests, marking, boots, history>>

Patches == [from : Versions, to : Versions]
NoDiff == [f \in Files |-> None]

\* git diff: the unstaged change of a file, and of the repository.
Diff(f) == IF work[f] = idx[f] THEN None ELSE [from |-> idx[f], to |-> work[f]]
Diffs == [f \in Files |-> Diff(f)]

Scanners == {"poll", "visit"}
ScanStages == {"idle", "list", "prune", "forget", "save", "remember"}
ActStages == {"idle", "read", "applied", "failed", "committed", "archived",
              "undoing", "reverted", "restored"}

Idle == [stage |-> "idle", snap |-> NoDiff, todo |-> {}, file |-> None]
Free == [stage |-> "idle", file |-> None, patch |-> None, how |-> None]

TypeOK ==
  /\ idx \in [Files -> Versions] /\ work \in [Files -> Versions]
  /\ card \in [Files -> Patches \union {None}]
  /\ decided \in [Files -> [patch : Patches,
                            status : {"accept", "reject", "committed"}]
                             \union {None}]
  /\ seen \in [Files -> Patches \union {None}]
  /\ lastHash \in [Files -> Patches \union {None}]
  /\ \A s \in Scanners :
       /\ scan[s].stage \in ScanStages
       /\ scan[s].snap \in [Files -> Patches \union {None}]
       /\ scan[s].todo \subseteq Files
       /\ scan[s].file \in Files \union {None}
  /\ \A p \in Requests :
       /\ act[p].stage \in ActStages
       /\ act[p].stage # "idle" => act[p].file \in Files
                                   /\ act[p].patch \in Patches
  /\ Cardinality({p \in Requests : act[p].stage = "applied"}) <= 1
  /\ marking = None \/ marking \subseteq Files
  /\ edits \in 0..MaxEdits /\ calls \in 0..MaxCalls
  /\ failures \in 0..MaxFaults /\ boots \in 0..MaxFaults
  /\ recorded \in [Files -> Versions]
  /\ torn \subseteq Files /\ undone \subseteq Files

\* A clean repository, empty tables, NewCardStreamer and NewPoller.
Init ==
  /\ idx = [f \in Files |-> Base] /\ work = idx
  /\ card = NoDiff /\ decided = NoDiff /\ seen = NoDiff /\ lastHash = NoDiff
  /\ scan = [s \in Scanners |-> Idle]
  /\ act = [p \in Requests |-> Free]
  /\ marking = None
  /\ edits = 0 /\ calls = 0 /\ failures = 0 /\ boots = 0
  /\ recorded = idx /\ torn = {} /\ undone = {}

-----------------------------------------------------------------------------
(* The environment and the tables.                                         *)

\* The agent (or the user) writes a file.
Edit(f, v) ==
  /\ edits < MaxEdits
  /\ edits' = edits + 1
  /\ v # work[f]
  /\ work' = [work EXCEPT ![f] = v]
  /\ UNCHANGED <<idx, tables, seen, lastHash, scan, requests, marking, boots,
                 history>>

\* The store's mutex is free: no decision transaction is open.
StoreFree == \A p \in Requests : act[p].stage # "applied"

MayFail == failures + boots < MaxFaults

\* A table operation that succeeds, or fails and changes nothing.
Works == StoreFree /\ UNCHANGED failures
Fails == StoreFree /\ MayFail /\ failures' = failures + 1

-----------------------------------------------------------------------------
(* The poller and the reconnecting client.                                 *)

\* poll: the hash is remembered before the callback runs, and an unchanged
\* diff stops here (an empty one too in a new process: its hash is "").
Poll ==
  /\ scan["poll"].stage = "idle"
  /\ Diffs # lastHash
  /\ lastHash' = Diffs
  /\ scan' = [scan EXCEPT !["poll"] = [Idle EXCEPT !.stage = "list",
                                                  !.snap = Diffs]]
  /\ UNCHANGED <<git, tables, seen, requests, marking, boots, history>>

\* ValidateAndCleanStaleCards: SnapshotRaw leaves the hash alone.
Visit ==
  /\ scan["visit"].stage = "idle"
  /\ scan' = [scan EXCEPT !["visit"] = [Idle EXCEPT !.stage = "list",
                                                    !.snap = Diffs]]
  /\ UNCHANGED <<git, tables, seen, lastHash, requests, marking, boots,
                 history>>

\* After removeStaleFileCards the poller goes on to the cards of the files in
\* its diff; a reconnect is done.
AfterPrune(s, snap) ==
  LET rest == {f \in Files : snap[f] # None}
  IN  IF s = "poll" /\ rest # {}
      THEN [Idle EXCEPT !.stage = "save", !.snap = snap, !.todo = rest]
      ELSE Idle

Pruning(s, snap, rows) ==
  IF rows # {}
  THEN [Idle EXCEPT !.stage = "prune", !.snap = snap, !.todo = rows]
  ELSE AfterPrune(s, snap)

\* removeStaleFileCards: the pending cards whose file is not in the diff, or
\* none when ListPending fails.
ListPending(s) ==
  /\ scan[s].stage = "list"
  /\ LET stale == {f \in Files : card[f] # None /\ scan[s].snap[f] = None}
     IN  \/ /\ Works
            /\ scan' = [scan EXCEPT ![s] = Pruning(s, scan[s].snap, stale)]
         \/ /\ Fails
            /\ scan' = [scan EXCEPT ![s] = AfterPrune(s, scan[s].snap)]
  /\ UNCHANGED <<git, card, decided, seen, lastHash, requests, marking, boots,
                 history>>

\* DeleteCard of one of them; one that cannot be deleted is left.
PruneRow(s, f) ==
  /\ scan[s].stage = "prune" /\ f \in scan[s].todo
  /\ \/ /\ Works
        /\ card' = [card EXCEPT ![f] = None]
        /\ scan' = [scan EXCEPT ![s].stage = "forget", ![s].file = f]
     \/ /\ Fails
        /\ scan' = [scan EXCEPT ![s] =
                      Pruning(s, scan[s].snap, scan[s].todo \ {f})]
        /\ UNCHANGED card
  /\ UNCHANGED <<git, decided, seen, lastHash, requests, marking, boots,
                 history>>

\* ... and its seen hash goes with it, under the streamer's own lock.
PruneSeen(s) ==
  /\ scan[s].stage = "forget"
  /\ seen' = [seen EXCEPT ![scan[s].file] = None]
  /\ scan' = [scan EXCEPT ![s] = Pruning(s, scan[s].snap,
                                         scan[s].todo \ {scan[s].file})]
  /\ UNCHANGED <<git, tables, lastHash, requests, marking, boots, history>>

\* The rest of the poller's files once f is dealt with.
SaveRest(f) == AfterPrune("poll", [scan["poll"].snap EXCEPT ![f] = None])

\* Wrong on purpose: a save that does not replace the row of an older diff.
SaveIgnoringOld(f) ==
  LET snap == scan["poll"].snap[f]
  IN  /\ scan["poll"].stage = "save" /\ f \in scan["poll"].todo
      /\ seen[f] # snap
      /\ Works
      /\ card' = [card EXCEPT ![f] = IF @ = None THEN snap ELSE @]
      /\ scan' = [scan EXCEPT !["poll"].stage = "remember",
                              !["poll"].file = f]
      /\ UNCHANGED <<git, decided, seen, lastHash, requests, marking, boots,
                     history>>

\* One file of ProcessChunksRaw: skipped when its content was seen, saved as
\* a pending card otherwise; a failed save leaves it unseen.  Only this
\* goroutine adds seen hashes, so the check and the save are one step.
Save(f) ==
  LET snap == scan["poll"].snap[f]
  IN  /\ scan["poll"].stage = "save" /\ f \in scan["poll"].todo
      /\ \/ /\ seen[f] = snap
            /\ scan' = [scan EXCEPT !["poll"] = SaveRest(f)]
            /\ UNCHANGED tables
         \/ /\ seen[f] # snap
            /\ Works
            /\ card' = [card EXCEPT ![f] = snap]
            /\ scan' = [scan EXCEPT !["poll"].stage = "remember",
                                    !["poll"].file = f]
            /\ UNCHANGED decided
         \/ /\ seen[f] # snap
            /\ Fails
            /\ scan' = [scan EXCEPT !["poll"] = SaveRest(f)]
            /\ UNCHANGED <<card, decided>>
      /\ UNCHANGED <<git, seen, lastHash, requests, marking, boots, history>>

\* The saved content is seen, and broadcast.
Remember ==
  /\ scan["poll"].stage = "remember"
  /\ LET f == scan["poll"].file
     IN  /\ seen' = [seen EXCEPT ![f] = scan["poll"].snap[f]]
         /\ scan' = [scan EXCEPT !["poll"] = SaveRest(f)]
  /\ UNCHANGED <<git, tables, lastHash, requests, marking, boots, history>>

-----------------------------------------------------------------------------
(* review.decision: ProcessDecision.                                       *)

At(p, stage) == act[p].stage = stage
Begins(p, call) ==
  /\ At(p, "idle")
  /\ calls < MaxCalls /\ calls' = calls + 1
  /\ act' = [act EXCEPT ![p] = call]
Becomes(p, stage) ==
  act' = [act EXCEPT ![p].stage = stage] /\ UNCHANGED calls
Ends(p) == act' = [act EXCEPT ![p] = Free] /\ UNCHANGED calls

\* GetCard: the request works on the copy it reads here.
Read(p, f, how) ==
  /\ StoreFree
  /\ card[f] # None
  /\ Begins(p, [stage |-> "read", file |-> f, patch |-> card[f], how |-> how])
  /\ UNCHANGED <<git, tables, seen, lastHash, scan, marking, boots, history>>

\* git apply, as each operation calls it: where, and in which direction.
\* "accept" stages, "reject" reverts the working tree; an undo does the
\* opposite, and the undo of a committed card reverts the working tree.
Staging(p) == act[p].how = "accept"
Forward(p) == IF At(p, "undoing") THEN act[p].how = "reject"
                                  ELSE act[p].how = "accept"
Content(p) == IF Staging(p) THEN idx[act[p].file] ELSE work[act[p].file]
Before(p) == IF Forward(p) THEN act[p].patch.from ELSE act[p].patch.to
After(p) == IF Forward(p) THEN act[p].patch.to ELSE act[p].patch.from

Put(p, v) ==
  /\ IF Staging(p)
     THEN idx' = [idx EXCEPT ![act[p].file] = v] /\ UNCHANGED work
     ELSE work' = [work EXCEPT ![act[p].file] = v] /\ UNCHANGED idx
  /\ UNCHANGED edits

\* The check before the transaction, or the apply in it, finds a conflict, or
\* git fails for a reason of its own (a held index.lock).
Refuse(p) ==
  /\ At(p, "read")
  /\ \/ Content(p) # Before(p) /\ UNCHANGED failures
     \/ MayFail /\ failures' = failures + 1
  /\ Ends(p)
  /\ UNCHANGED <<git, card, decided, seen, lastHash, scan, marking, boots,
                 history>>

\* An accepted change is in the index, and its request has neither recorded
\* nor dropped it.
Open(p) == Staging(p) /\ (At(p, "applied") \/ At(p, "failed"))

\* Wrong on purpose: the patch is applied before the mutex is taken.
ApplyUnlocked(p) ==
  /\ At(p, "read")
  /\ Content(p) = Before(p)
  /\ Put(p, After(p))
  /\ Becomes(p, "applied")
  /\ UNCHANGED <<tables, seen, lastHash, scan, marking, boots, history>>

\* runDecisionTransaction opens the transaction and applies the patch.
Apply(p) ==
  LET f == act[p].file
      over == Staging(p) /\ \E q \in Requests : act[q].file = f /\ Open(q)
  IN  /\ At(p, "read")
      /\ StoreFree
      /\ Content(p) = Before(p)
      /\ Put(p, After(p))
      /\ Becomes(p, "applied")
      /\ torn' = IF over THEN torn \union {f} ELSE torn
      /\ UNCHANGED <<tables, seen, lastHash, scan, marking, boots, recorded,
                     undone>>

\* The card is still pending: its row is decided and deleted, and committed.
Commit(p) ==
  LET f == act[p].file
  IN  /\ At(p, "applied")
      /\ card[f] # None
      /\ card' = [card EXCEPT ![f] = None]
      /\ recorded' = IF Staging(p) THEN [recorded EXCEPT ![f] = After(p)]
                                   ELSE recorded
      /\ Becomes(p, "committed")
      /\ UNCHANGED <<git, decided, failures, seen, lastHash, scan, marking,
                     boots, torn, undone>>

\* tryRollback: git takes the patch back if the result is still there; a
\* rollback that fails is logged, and tried once more after the transaction.
CanRollBack(p) == Content(p) = After(p)

RolledBack(p) == CanRollBack(p) /\ Put(p, Before(p)) /\ Ends(p)
NotRolledBack(p) == Becomes(p, "failed") /\ UNCHANGED git

\* Wrong on purpose: a rollback that failed counts as done.
AbortTryingOnce(p) ==
  /\ At(p, "applied")
  /\ MayFail /\ failures' = failures + 1
  /\ Ends(p) /\ UNCHANGED git
  /\ UNCHANGED <<card, decided, seen, lastHash, scan, marking, boots, history>>

\* Verification, the record or the delete fails (the row is gone, the content
\* changed under the check, or git or a table fails): roll back inside the
\* transaction.  What made the decision fail can make the rollback fail too.
Abort(p) ==
  /\ At(p, "applied")
  /\ \/ card[act[p].file] = None /\ RolledBack(p) /\ UNCHANGED failures
     \/ ~CanRollBack(p) /\ NotRolledBack(p) /\ UNCHANGED failures
     \/ /\ MayFail /\ failures' = failures + 1
        /\ RolledBack(p) \/ NotRolledBack(p)
  /\ UNCHANGED <<card, decided, seen, lastHash, scan, marking, boots, history>>

\* The database's commit itself fails: the mutex is released with the patch
\* still applied.
LoseCommit(p) ==
  /\ At(p, "applied")
  /\ card[act[p].file] # None
  /\ MayFail /\ failures' = failures + 1
  /\ Becomes(p, "failed")
  /\ UNCHANGED <<git, card, decided, seen, lastHash, scan, marking, boots,
                 history>>

\* The rollback after the transaction ("transaction failure"); when it fails
\* as well the patch stays.
RollBackLate(p) ==
  /\ At(p, "failed")
  /\ \/ RolledBack(p) /\ UNCHANGED <<failures, torn>>
     \/ /\ \/ ~CanRollBack(p) /\ UNCHANGED failures
           \/ MayFail /\ failures' = failures + 1
        /\ torn' = IF Staging(p) THEN torn \union {act[p].file} ELSE torn
        /\ Ends(p) /\ UNCHANGED git
  /\ UNCHANGED <<card, decided, seen, lastHash, scan, marking, boots, recorded,
                 undone>>

\* archiveDecidedCard, after the commit; a failure is only logged.
Archive(p) ==
  /\ At(p, "committed")
  /\ \/ /\ Works
        /\ decided' = [decided EXCEPT ![act[p].file] =
                         [patch |-> act[p].patch, status |-> act[p].how]]
     \/ Fails /\ UNCHANGED decided
  /\ Becomes(p, "archived")
  /\ UNCHANGED <<git, card, seen, lastHash, scan, marking, boots, history>>

\* notifyCardRemoved: ClearFileHash, and the answer to the clients.
Notify(p) ==
  /\ At(p, "archived")
  /\ seen' = [seen EXCEPT ![act[p].file] = None]
  /\ Ends(p)
  /\ UNCHANGED <<git, tables, lastHash, scan, marking, boots, recorded, torn,
                 undone>>

-----------------------------------------------------------------------------
(* review.undo: ProcessUndo, no transaction; and repo.commit's marking.    *)

ReadDecided(p, f) ==
  /\ StoreFree
  /\ decided[f] # None
  /\ Begins(p, [stage |-> "undoing", file |-> f, patch |-> decided[f].patch,
                how |-> decided[f].status])
  /\ UNCHANGED <<git, tables, seen, lastHash, scan, marking, boots, history>>

\* The patch conflicts, or a committed card is not confirmed.
RefuseUndo(p) ==
  /\ At(p, "undoing")
  /\ Content(p) # Before(p) \/ act[p].how = "committed"
  /\ Ends(p)
  /\ UNCHANGED <<git, tables, seen, lastHash, scan, marking, boots, history>>

ApplyUndo(p) ==
  /\ At(p, "undoing")
  /\ Content(p) = Before(p)
  /\ Put(p, After(p))
  /\ undone' = undone \union {act[p].file}
  /\ Becomes(p, "reverted")
  /\ UNCHANGED <<tables, seen, lastHash, scan, marking, boots, recorded, torn>>

\* SaveCard of the original diff; a failure is only logged.
RestoreCard(p) ==
  /\ At(p, "reverted")
  /\ \/ Works /\ card' = [card EXCEPT ![act[p].file] = act[p].patch]
     \/ Fails /\ UNCHANGED card
  /\ Becomes(p, "restored")
  /\ UNCHANGED <<git, decided, seen, lastHash, scan, marking, boots, history>>

\* DeleteDecidedCard; a failure is only logged.
ForgetDecided(p) ==
  /\ At(p, "restored")
  /\ \/ Works /\ decided' = [decided EXCEPT ![act[p].file] = None]
     \/ Fails /\ UNCHANGED decided
  /\ Ends(p)
  /\ UNCHANGED <<git, card, seen, lastHash, scan, marking, boots, history>>

\* handleRepoCommit after git commit: list the accepted cards ...
Accepted(f) == decided[f] # None /\ decided[f].status = "accept"

ListAccepted ==
  /\ marking = None
  /\ StoreFree
  /\ \E f \in Files : Accepted(f)
  /\ marking' = {f \in Files : Accepted(f)}
  /\ UNCHANGED <<git, tables, seen, lastHash, scan, requests, boots, history>>

\* ... and mark those still accepted as committed.
MarkCommitted ==
  /\ marking # None
  /\ marking' = None
  /\ \/ /\ Works
        /\ decided' = [f \in Files |->
                         IF f \in marking /\ Accepted(f)
                         THEN [decided[f] EXCEPT !.status = "committed"]
                         ELSE decided[f]]
     \/ Fails /\ UNCHANGED decided
  /\ UNCHANGED <<git, card, seen, lastHash, scan, requests, boots, history>>

-----------------------------------------------------------------------------
\* The host dies at any point and starts again: an open transaction is lost,
\* CardStreamer.Start takes the seen hashes from the pending cards.
Restart ==
  /\ MayFail
  /\ boots' = boots + 1
  /\ seen' = card
  /\ lastHash' = NoDiff
  /\ scan' = [s \in Scanners |-> Idle]
  /\ act' = [p \in Requests |-> Free] /\ UNCHANGED calls
  /\ marking' = None
  /\ torn' = torn \union {act[p].file : p \in {q \in Requests : Open(q)}}
  /\ UNCHANGED <<git, tables, recorded, undone>>

Request(p) ==
  \/ \E f \in Files : (\E how \in {"accept", "reject"} : Read(p, f, how))
                      \/ ReadDecided(p, f)
  \/ Refuse(p) \/ Apply(p) \/ Commit(p) \/ Abort(p) \/ LoseCommit(p)
  \/ RollBackLate(p) \/ Archive(p) \/ Notify(p)
  \/ RefuseUndo(p) \/ ApplyUndo(p) \/ RestoreCard(p) \/ ForgetDecided(p)

Scan(s) ==
  ListPending(s) \/ (\E f \in Files : PruneRow(s, f)) \/ PruneSeen(s)

Next ==
  \/ \E f \in Files, v \in Versions : Edit(f, v)
  \/ Poll \/ Visit
  \/ \E s \in Scanners : Scan(s)
  \/ (\E f \in Files : Save(f)) \/ Remember
  \/ \E p \in Requests : Request(p)
  \/ ListAccepted \/ MarkCommitted
  \/ Restart

Spec == Init /\ [][Next]_vars

-----------------------------------------------------------------------------
(* Properties.                                                             *)

\* Nothing is running and the poller has no change left to notice.
Settled ==
  /\ \A s \in Scanners : scan[s].stage = "idle"
  /\ \A p \in Requests : act[p].stage = "idle"
  /\ lastHash = Diffs

\* A card on show is the change on disk: once the poller has settled, the
\* pending card of a changed file holds its current diff, whatever polls,
\* reconnects, decisions and crashes went before.  (An undo puts an old diff
\* back over a newer card, and a failed save keeps the old one: both break
\* it, and are left out here.)
NoStaleCard ==
  Settled /\ failures = 0 =>
    \A f \in Files \ undone :
      card[f] # None /\ Diff(f) # None => card[f] = Diff(f)

\* What is staged is what was decided: the index of a file holds exactly the
\* changes whose acceptance is on record, but for the request that has staged
\* its own and has yet to record it or to take it back: with concurrent
\* decisions on one card, rows that scans delete or put back under them,
\* tables, commits of the database and git commands that fail.  The files in
\* `torn` are what the code's error paths cannot keep: the host died between
\* git and SQLite, git failed the rollback a second time or would not take
\* the patch back, or another change of the file was accepted between a failed
\* transaction and its late rollback.  An undo (`undone`) takes no lock and
\* can unstage what a decision has just staged.
IndexFollowsRecords ==
  \A f \in Files \ (torn \union undone) :
    \/ idx[f] = recorded[f]
    \/ \E p \in Requests : act[p].file = f /\ Open(p)

\* "This ensures reconnecting clients see all cards they haven't acted on":
\* once the poller has settled, every changed file has its pending card.  It
\* fails: a reconnect prunes by its own, older snapshot a card the poller has
\* just saved, and the remembered hash keeps the poller from saving it again.
EveryChangeHasItsCard ==
  Settled /\ failures = 0 =>
    \A f \in Files \ undone : Diff(f) # None => card[f] # None
=============================================================================
