-------------------------- MODULE StructuredTimeline ------------------------
(***************************************************************************)
(* The structured chat timeline of one session: the snapshot in SQLite,    *)
(* the revision counter of structuredChatController, and the writers that  *)
(* share them (host/internal/server/structured_chat_controller.go):        *)
(*  - the approval hooks (approval.go, projectApprovalLifecycle), which    *)
(*    load the timeline, change one item and hand the whole list to        *)
(*    ApplyAuthoritativeTimeline;                                          *)
(*  - the goroutines of the provider pipelines, which replace the provider *)
(*    partition with MergeProviderTimeline and send its messages, or, for  *)
(*    a file read from its beginning, drop them and send the snapshot;     *)
(*  - the session switch, which sends the stored snapshot to a client that *)
(*    opens the session.                                                   *)
(* timelineMu makes one Apply, Merge or NextRevision a single step.  The   *)
(* hooks' load and LoadSnapshotMessage run outside it, and a writer sends  *)
(* what its write returned after it let go of the lock: until then its     *)
(* messages are in `sending`, and those of two writers may overtake.       *)
(* The order of the items is abstracted: a timeline is a set of items.     *)
(***************************************************************************)
EXTENDS Integers

CONSTANTS
  Approvals,       \* approval requests: items "approval:<id>"
  Mergers,         \* the goroutines of the pipelines: reader, prompt handler
  ProviderViews,   \* the item sets a provider file can parse to
  MaxRevision,     \* bound of the run: no write starts beyond this revision
  MaxBoots,        \* bound of the run: host processes
  None

ASSUME BoundAssumption == MaxRevision \in Nat /\ MaxBoots \in Nat \ {0}
ASSUME PartitionAssumption ==
  \A view \in ProviderViews : view \intersect Approvals = {}

VARIABLES
  store,     \* structured_chat_sessions + structured_chat_items (SQLite)
  cached,    \* controller.revisions[session]; None when not in the map
  hook,      \* each approval's lifecycle hook: its stage and what it loaded
  written,   \* the last status each approval's hook applied without error
  batch,     \* how far each merger is with a file read from its beginning,
             \* and the snapshot it loaded for the clients
  reading,   \* the revision a session switch read and not yet remembered
  sending,   \* messages whose writers have yet to broadcast them
  issued,    \* the highest revision numbered since the process began
  boot,      \* number of the host process (serverBootID)
  replica,   \* the copy of a client that stays: the revision it has seen last
             \* and the items
  held,      \* the last content the copy was given: the snapshot, and the
             \* latest of the changes that followed (history)
  missed     \* the latest change that was sent and that the copy lacks, 0 if
             \* it has them all (history)

copyVars == <<replica, held, missed>>
vars == <<store, cached, hook, written, batch, reading, sending, issued, boot,
          copyVars>>

Item(id, status) == [id |-> id, status |-> status]
Ids(items) == {i.id : i \in items}
Providers == UNION ProviderViews
ProviderItems(view) == {Item(p, "completed") : p \in view}

Items == {Item(p, "completed") : p \in Providers}
           \union {Item(a, s) : a \in Approvals, s \in {"pending", "resolved"}}

\* One row per (session, item id).
Timeline == [rev : Nat,
             items : {items \in SUBSET Items :
                        \A i, j \in items : i.id = j.id => i = j}]

Empty == [rev |-> 0, items |-> {}]

\* Who sends: a merger, or a hook by the approval and the status it projects.
Writers == Mergers \union (Approvals \X {"pending", "resolved"})

\* A change (chat.remove, chat.upsert), a chat.snapshot, a chat.reset, or the
\* empty snapshot of a pipeline that has just been made.
Messages == [by : Writers, kind : {"change", "snapshot", "reset", "opened"},
             rev : Nat, remove : SUBSET (Providers \union Approvals),
             upsert : SUBSET Items]

TypeOK ==
  /\ store \in Timeline
  /\ cached \in Nat \union {None}
  /\ hook \in [Approvals -> [stage : {"new", "loaded", "pending", "reloaded",
                                      "done"},
                             seen : SUBSET Items]]
  /\ written \in [Approvals -> {"none", "pending", "resolved"}]
  /\ batch \in [Mergers -> [stage : {"live", "begun", "merged", "loaded"},
                            snapshot : Timeline]]
  /\ reading \in Nat \union {None}
  /\ sending \subseteq Messages
  /\ issued \in Nat
  /\ boot \in 1..MaxBoots
  /\ replica \in [rev : Nat, items : SUBSET Items]
  /\ held \in [snapshot : Nat, change : Nat]
  /\ missed \in Nat

Live == [stage |-> "live", snapshot |-> Empty]

Init ==
  /\ store = Empty
  /\ cached = None
  /\ hook = [a \in Approvals |-> [stage |-> "new", seen |-> {}]]
  /\ written = [a \in Approvals |-> "none"]
  /\ batch = [m \in Mergers |-> Live]
  /\ reading = None
  /\ sending = {}
  /\ issued = 0
  /\ boot = 1
  /\ replica = Empty
  /\ held = [snapshot |-> 0, change |-> 0]
  /\ missed = 0

-----------------------------------------------------------------------------
(* The controller.                                                         *)

Later(m, n) == IF m > n THEN m ELSE n

\* Wrong on purpose: a write starts from the cached revision alone.
CachedRevision == IF cached # None THEN cached ELSE 0

\* The revision a write starts from: the stored one, or a reserved later one.
CurrentRevision ==
  IF cached # None THEN Later(cached, store.rev) ELSE store.rev

Message(w, kind, rev, remove, upsert) ==
  [by |-> w, kind |-> kind, rev |-> rev, remove |-> remove, upsert |-> upsert]

\* diffAuthoritativeTimeline: what replacing `old` by `new` must tell clients.
Removed(old, new) == Ids(old) \ Ids(new)
Upserted(old, new) == new \ old

\* What the remove and the upsert of a write are numbered, each with a
\* revision of its own; the last of them is the stored snapshot's.
RemoveRevision(old, new, rev) ==
  rev + (IF Removed(old, new) = {} THEN 0 ELSE 1)
FinalRevision(old, new, rev) ==
  RemoveRevision(old, new, rev) + (IF Upserted(old, new) = {} THEN 0 ELSE 1)

\* Wrong on purpose: the upsert is sent under the remove's revision.
DiffMessagesShared(w, old, new, rev) ==
  {m \in {Message(w, "change", rev + 1, Removed(old, new), {}),
          Message(w, "change", rev + 1, {}, Upserted(old, new))} :
     m.remove \union m.upsert # {}}

DiffMessages(w, old, new, rev) ==
  {m \in {Message(w, "change", RemoveRevision(old, new, rev),
                  Removed(old, new), {}),
          Message(w, "change", FinalRevision(old, new, rev),
                  {}, Upserted(old, new))} :
     m.remove \union m.upsert # {}}

\* The load-diff-persist cycle both writers end in, under timelineMu.
Replace(items) ==
  /\ CurrentRevision < MaxRevision
  /\ LET final == FinalRevision(store.items, items, CurrentRevision)
     IN  /\ cached' = final
         /\ store' = IF items = store.items THEN store
                     ELSE [rev |-> final, items |-> items]
         /\ issued' = IF items = store.items THEN issued
                      ELSE Later(issued, final)

\* ... and the messages it returns, for w to broadcast.
Announce(w, items) ==
  sending' = sending \union
               DiffMessages(w, store.items, items, CurrentRevision)

\* A writer goes on when it has broadcast what it had to send.
HasSent(w) == \A m \in sending : m.by # w

HostItems(items) == {i \in items : i.id \in Approvals}
Merged(view) == ProviderItems(view) \union HostItems(store.items)

\* MergeProviderTimeline for a line of a file that is followed, or for a
\* prompt: the provider partition is replaced, the host partition is taken
\* from the stored timeline, and the changes are sent.
MergeProvider(m, view) ==
  /\ batch[m].stage = "live"
  /\ HasSent(m)
  /\ Replace(Merged(view))
  /\ Announce(m, Merged(view))
  /\ UNCHANGED <<hook, written, batch, reading, boot, copyVars>>

\* NextRevision trusts the cached revision.
NextRevision == (IF cached # None THEN cached ELSE store.rev) + 1

\* A pipeline is made and sends an empty snapshot, or its file has been
\* rewritten and it sends a chat.reset: both under a revision of NextRevision.
BeginBatch(m, kind) ==
  /\ batch[m].stage \in {"live", "begun"}
  /\ HasSent(m)
  /\ CurrentRevision < MaxRevision
  /\ cached' = NextRevision
  /\ issued' = Later(issued, NextRevision)
  /\ sending' = sending \union {Message(m, kind, NextRevision, {}, {})}
  /\ batch' = [batch EXCEPT ![m].stage = "begun"]
  /\ UNCHANGED <<store, hook, written, reading, boot, copyVars>>

\* When the file is read to its end what it parses to is merged.  The changes
\* are not sent: a snapshot will replace them.
MergeBatch(m, view) ==
  /\ batch[m].stage = "begun"
  /\ HasSent(m)
  /\ Replace(Merged(view))
  /\ batch' = [batch EXCEPT ![m].stage = "merged"]
  /\ UNCHANGED <<hook, written, reading, sending, boot, copyVars>>

\* LoadSnapshotMessage reads the store, outside timelineMu; without a stored
\* snapshot there is nothing to send ...
LoadBatch(m) ==
  /\ batch[m].stage = "merged"
  /\ batch' = [batch EXCEPT ![m] =
                 IF store.rev = 0 THEN Live
                 ELSE [stage |-> "loaded", snapshot |-> store]]
  /\ UNCHANGED <<store, cached, hook, written, reading, sending, issued, boot,
                 copyVars>>

\* ... and remembers the revision it read; the merger will broadcast it.
SendBatch(m) ==
  LET snapshot == batch[m].snapshot IN
  /\ batch[m].stage = "loaded"
  /\ cached' = snapshot.rev
  /\ sending' = sending \union
                  {Message(m, "snapshot", snapshot.rev, {}, snapshot.items)}
  /\ batch' = [batch EXCEPT ![m] = Live]
  /\ UNCHANGED <<store, hook, written, reading, issued, boot, copyVars>>

\* A session switch calls LoadSnapshotMessage too.  What it sends goes to the
\* client that opens the session; only the cached revision matters here.
ReadSnapshot ==
  /\ reading = None
  /\ store.rev > 0
  /\ reading' = store.rev
  /\ UNCHANGED <<store, cached, hook, written, batch, sending, issued, boot,
                 copyVars>>

RememberSnapshot ==
  /\ reading # None
  /\ cached' = reading
  /\ reading' = None
  /\ UNCHANGED <<store, hook, written, batch, sending, issued, boot, copyVars>>

-----------------------------------------------------------------------------
(* projectApprovalLifecycle: load, upsert one item, apply, broadcast.      *)

LoadTimeline(a, from, to) ==
  /\ hook[a].stage = from
  /\ hook' = [hook EXCEPT ![a] = [stage |-> to, seen |-> store.items]]
  /\ UNCHANGED <<store, cached, written, batch, reading, sending, issued, boot,
                 copyVars>>

\* Wrong on purpose: an upsert that appends without looking for the item's id.
UpsertAppending(items, item) == items \union {item}

\* upsertTimelineItemByID on the loaded copy.
Upsert(items, item) == {i \in items : i.id # item.id} \union {item}

LoadForPending(a) == LoadTimeline(a, "new", "loaded")

\* ApplyAuthoritativeTimeline with a's item put into what its hook loaded.
Apply(a, status) ==
  LET items == Upsert(hook[a].seen, Item(a, status)) IN
  /\ Replace(items)
  /\ Announce(<<a, status>>, items)
  /\ written' = [written EXCEPT ![a] = status]

ApplyPending(a) ==
  /\ hook[a].stage = "loaded"
  /\ Apply(a, "pending")
  /\ hook' = [hook EXCEPT ![a] = [stage |-> "pending", seen |-> {}]]
  /\ UNCHANGED <<batch, reading, boot, copyVars>>

LoadForDecision(a) == LoadTimeline(a, "pending", "reloaded")

\* The decided item takes its expires_at from the loaded one; if it was not
\* there the item is invalid and the store refuses the whole snapshot.
ApplyDecision(a) ==
  /\ hook[a].stage = "reloaded"
  /\ hook' = [hook EXCEPT ![a] = [stage |-> "done", seen |-> {}]]
  /\ IF a \in Ids(hook[a].seen) THEN Apply(a, "resolved")
     ELSE UNCHANGED <<store, cached, written, sending, issued>>
  /\ UNCHANGED <<batch, reading, boot, copyVars>>

-----------------------------------------------------------------------------
(* The client's side.  A writer broadcasts its messages in the order of    *)
(* their revisions, after it let go of timelineMu.                         *)

\* m is the next message of its writer, and gets to the client.
Broadcast(m) ==
  /\ \A other \in sending : other.by = m.by => m.rev <= other.rev
  /\ sending' = sending \ {m}
  /\ UNCHANGED <<store, cached, hook, written, batch, reading, issued, boot>>

\* The gate "revision > last seen" the revisions are numbered for.
Accepts(m) == m.rev > replica.rev

\* What a chat.remove and a chat.upsert do to the items a client has.
Patch(items, m) ==
  {i \in items : i.id \notin m.remove \union Ids(m.upsert)} \union m.upsert

\* A change the gate drops is missed, unless it is in the copy's snapshot, or
\* is the very one the copy has last.
TakeChange(m) ==
  /\ m.kind = "change"
  /\ Broadcast(m)
  /\ IF Accepts(m)
     THEN /\ replica' = [rev |-> m.rev, items |-> Patch(replica.items, m)]
          /\ held' = [held EXCEPT !.change = Later(@, m.rev)]
          /\ UNCHANGED missed
     ELSE /\ missed' = IF m.rev <= held.snapshot \/ m.rev = held.change
                       THEN missed ELSE Later(missed, m.rev)
          /\ UNCHANGED <<replica, held>>

\* A chat.reset passes the gate too and empties the copy, as the empty
\* snapshot does.
TakeReset(m) ==
  /\ m.kind \in {"reset", "opened"}
  /\ Broadcast(m)
  /\ replica' = IF m.kind = "opened" \/ Accepts(m)
                THEN [rev |-> m.rev, items |-> {}] ELSE replica
  /\ UNCHANGED <<held, missed>>

\* A snapshot replaces the copy.  One that was overtaken by a later change
\* takes that back.
TakeSnapshot(m) ==
  /\ m.kind = "snapshot"
  /\ Broadcast(m)
  /\ replica' = [rev |-> m.rev, items |-> m.upsert]
  /\ held' = [snapshot |-> m.rev, change |-> m.rev]
  /\ LET latest == Later(missed, held.change)
     IN  missed' = IF latest > m.rev THEN latest ELSE 0

-----------------------------------------------------------------------------
\* The host stops and starts again: the counter, the hooks that run and the
\* messages on their way are gone, and clients start from a snapshot.
Restart ==
  /\ boot < MaxBoots
  /\ boot' = boot + 1
  /\ cached' = None
  /\ hook' = [a \in Approvals |->
                [stage |-> IF hook[a].stage = "new" THEN "new" ELSE "done",
                 seen |-> {}]]
  /\ batch' = [m \in Mergers |-> Live]
  /\ reading' = None
  /\ sending' = {}
  /\ issued' = 0
  /\ replica' = store
  /\ held' = [snapshot |-> store.rev, change |-> store.rev]
  /\ missed' = 0
  /\ UNCHANGED <<store, written>>

Next ==
  \/ \E m \in Mergers, view \in ProviderViews :
       MergeProvider(m, view) \/ MergeBatch(m, view)
  \/ \E m \in Mergers :
       \/ \E kind \in {"reset", "opened"} : BeginBatch(m, kind)
       \/ LoadBatch(m) \/ SendBatch(m)
  \/ ReadSnapshot
  \/ RememberSnapshot
  \/ \E a \in Approvals : \/ LoadForPending(a) \/ ApplyPending(a)
                          \/ LoadForDecision(a) \/ ApplyDecision(a)
  \/ \E m \in sending : TakeChange(m) \/ TakeReset(m) \/ TakeSnapshot(m)
  \/ Restart

Spec == Init /\ [][Next]_vars

-----------------------------------------------------------------------------
(* Properties.                                                             *)

\* No message is on its way, and no file is being read from its beginning.
Quiet == sending = {} /\ \A m \in Mergers : batch[m].stage = "live"

\* A client that takes what it is sent and drops what its gate has passed
\* holds the stored timeline when nothing is on its way any more, whatever mix
\* of writers, resets and snapshots it came from.  It may only lack a change
\* that another writer's message or a reset overtook between the write and
\* the broadcast, or that an older snapshot took back, and only until the next
\* snapshot that has it.
ReplicaFollowsStore == Quiet /\ missed = 0 => replica.items = store.items

\* The stored revision never goes back and every change of the timeline moves
\* it on, across restarts too.
RevisionCoversChange ==
  [][/\ store'.rev >= store.rev
     /\ store'.items # store.items => store'.rev > store.rev]_vars

\* "... so that concurrent callers (e.g. approval upserts, ...) never produce
\* lost updates": a status an approval hook applied stays in the timeline.  It
\* fails: the hooks load outside timelineMu, and the later of two overlapping
\* hooks writes back a list that lacks the other's item.
NoLostApproval ==
  \A a \in Approvals :
    written[a] # "none" => Item(a, written[a]) \in store.items

\* "Respect revisions reserved by NextRevision ... Without this, Apply would
\* reuse a revision that NextRevision already allocated": the next write is
\* numbered above everything this process has numbered.  It fails: a reset
\* takes its revision from the counter alone, and LoadSnapshotMessage sets the
\* counter back to the stored revision.
NoRevisionReused == issued <= CurrentRevision
=============================================================================
