---------------------------- MODULE RepoCommands ----------------------------
(***************************************************************************)
(* The repository requests of a client: handlers_repo.go, the git commands *)
(* they run (git.go) and the results each connection remembers             *)
(* (idempotencyCache, server_types.go).  A connection's readPump handles   *)
(* one message at a time.  Git and gh are external: what they refuse and   *)
(* what they change is modelled, and they may fail for reasons of their    *)
(* own.  The program in the terminal, file requests and decisions change   *)
(* the work tree without taking the gate.                                  *)
(***************************************************************************)
EXTENDS Integers, Sequences, FiniteSets

CONSTANTS
  Conns,        \* connections; a device that reconnects has a new one
  Requests,     \* mutations a client may send: [op, id, arg, flag]
  Branches,     \* names git accepts, "main" and "pr" among them
  CacheSize,    \* maxIdempotencyEntries
  PageSize,     \* entries of a history page
  AllowForce,   \* the host allows force-with-lease
  MaxRequests,  \* bound: messages sent
  MaxCommits,   \* bound: commits
  MaxEdits      \* bound: changes made around the gate

VARIABLES
  parent,       \* first parent of every commit, 0 of a root
  tip,          \* commit of every local branch, 0 if it does not exist
  head,         \* the branch checked out, or Detached
  at,           \* the commit checked out when HEAD is detached
  tree,         \* what there is to commit or in the way of a checkout
  remote,       \* the branches at the remote
  tracking,     \* what this repository last saw of them
  gate,         \* holder of repoMutationMu
  job,          \* what the reader of a connection is doing
  cache,        \* mutationCache: the completed mutations, oldest first
  replies,      \* history: the answers a connection gave
  page,         \* the pages of history a client has put together, and
                \* whether they were cut off
  sent, edits   \* messages sent, changes made around the gate

repo == <<parent, tip, head, at, tree, remote, tracking>>
vars == <<repo, gate, job, cache, replies, page, sent, edits>>

NoOne == "no one"
Detached == "HEAD"
Commits == 0..MaxCommits
Trees == [staged : BOOLEAN, unstaged : BOOLEAN, conflict : BOOLEAN]
Clean == [staged |-> FALSE, unstaged |-> FALSE, conflict |-> FALSE]
Idle == [step |-> "idle"]
NoPages == [start |-> 0, got |-> <<>>, cursor |-> 0, cut |-> FALSE]

TypeOK ==
  /\ \A n \in DOMAIN parent : parent[n] \in 0..(n - 1)
  /\ Len(parent) <= MaxCommits
  /\ tip \in [Branches -> Commits] /\ head \in Branches \cup {Detached}
  /\ at \in Commits /\ tree \in Trees
  /\ remote \in [Branches -> Commits] /\ tracking \in [Branches -> Commits]
  /\ gate \in Conns \cup {NoOne}
  /\ \A c \in Conns : job[c].step \in {"idle", "gate", "work", "act"}
  /\ \A c \in Conns : Len(cache[c]) <= CacheSize
  /\ \A i, j \in 1..CacheSize : \A c \in Conns :
       {i, j} \subseteq DOMAIN cache[c] /\ cache[c][i].key = cache[c][j].key
         => i = j

-----------------------------------------------------------------------------
(* The repository.                                                         *)

HeadCommit == IF head = Detached THEN at ELSE tip[head]

\* The first-parent chain from commit n, newest first.
Chain(n) ==
  LET from[k \in 0..Len(parent)] ==
        IF k = 0 THEN <<>> ELSE <<k>> \o from[parent[k]]
  IN from[n]

Within(old, new) == old = 0 \/ \E i \in DOMAIN Chain(new) : Chain(new)[i] = old

\* What applyReadiness reports.
Readiness ==
  IF ~tree.staged \/ tree.conflict THEN "blocked"
  ELSE IF tree.unstaged \/ head = Detached THEN "risky" ELSE "ready"

Dirty == tree # Clean

\* What a handler decides on before it acts.
Seen == <<head, HeadCommit, tree>>

Init ==
  /\ parent \in {<<>>, <<0>>, <<0, 1>>}
  /\ tip = [b \in Branches |-> IF b = "main" THEN Len(parent) ELSE 0]
  /\ head = "main" /\ at = 0 /\ tree = Clean
  /\ remote = tip /\ tracking = remote
  /\ gate = NoOne /\ job = [c \in Conns |-> Idle]
  /\ cache = [c \in Conns |-> <<>>] /\ replies = [c \in Conns |-> <<>>]
  /\ page = NoPages
  /\ sent = 0 /\ edits = 0

-----------------------------------------------------------------------------
(* The results a connection remembers.                                     *)

KeyOf(r) == <<r.op, r.id>>
\* All fields of a commit or a push count; branch requests have no flag.
Fingerprint(r) ==
  IF r.op \in {"commit", "push"} THEN <<r.arg, r.flag>> ELSE <<r.arg>>
EntriesOf(c, r) == {i \in DOMAIN cache[c] : cache[c][i].key = KeyOf(r)}

\* A result is a code and, of a commit, what was committed.
Reply(c, r, result, ran) ==
  replies' = [replies EXCEPT ![c] =
                Append(@, [req |-> r, result |-> result, ran |-> ran])]

\* Wrong on purpose: failures are not remembered.
StoreSuccess(c, entry) ==
  cache' = IF entry.result[1] # "ok" THEN cache
           ELSE [cache EXCEPT ![c] =
                   Append(IF Len(@) < CacheSize THEN @ ELSE Tail(@), entry)]
Store(c, entry) ==
  cache' = [cache EXCEPT ![c] =
              Append(IF Len(@) < CacheSize THEN @ ELSE Tail(@), entry)]

\* A request: replayed, refused, or begun.  A mutation in flight is never
\* met: its connection's reader is busy with it.
Receive(c, r) ==
  /\ job[c] = Idle /\ sent < MaxRequests /\ sent' = sent + 1
  /\ IF EntriesOf(c, r) = {}
       THEN /\ job' = [job EXCEPT ![c] = [step |-> "gate", req |-> r]]
            /\ UNCHANGED replies
       ELSE LET e == cache[c][CHOOSE i \in EntriesOf(c, r) : TRUE]
            IN /\ Reply(c, r, IF e.fp = Fingerprint(r) THEN e.result
                              ELSE <<"mismatch", 0>>, FALSE)
               /\ UNCHANGED job
  /\ UNCHANGED <<repo, gate, cache, page, edits>>

\* finish and the deferred Unlock.
Finish(c, code, commit) ==
  LET r == job[c].req
  IN /\ Store(c, [key |-> KeyOf(r), fp |-> Fingerprint(r),
                  result |-> <<code, commit>>])
     /\ Reply(c, r, <<code, commit>>, TRUE)
     /\ job' = [job EXCEPT ![c] = Idle]
     /\ gate' = IF gate = c THEN NoOne ELSE gate
     /\ UNCHANGED <<page, sent, edits>>

Fail(c, code) == Finish(c, code, 0) /\ UNCHANGED repo

\* Fields are checked before the gate is tried; a busy gate is an answer.
Invalid(r) == r.op \in {"branch_create", "branch_switch", "pr_create"}
              /\ r.arg = ""

\* Wrong on purpose: goes on when the gate is taken.
EnterAnyway(c) ==
  /\ job[c].step = "gate"
  /\ IF Invalid(job[c].req) THEN Fail(c, "invalid")
     ELSE /\ gate' = c /\ job' = [job EXCEPT ![c].step = "work"]
          /\ UNCHANGED <<repo, cache, replies, page, sent, edits>>
Enter(c) ==
  /\ job[c].step = "gate"
  /\ IF Invalid(job[c].req) THEN Fail(c, "invalid")
     ELSE IF gate # NoOne THEN Fail(c, "busy")
     ELSE /\ gate' = c /\ job' = [job EXCEPT ![c].step = "work"]
          /\ UNCHANGED <<repo, cache, replies, page, sent, edits>>

\* A check has passed: the handler goes on to act on what it saw.
Proceed(c) ==
  /\ job' = [job EXCEPT ![c] = [step |-> "act", req |-> @.req,
                                saw |-> Seen, around |-> edits]]
  /\ UNCHANGED <<repo, gate, cache, replies, page, sent, edits>>

Working(c, op, step) == job[c].step = step /\ job[c].req.op = op
GitFails(c) == Fail(c, "git error")
GhFails(c) == Fail(c, "gh error")

\* The commit n becomes what is checked out.
MoveHead(n) ==
  IF head = Detached THEN at' = n /\ UNCHANGED tip
  ELSE tip' = [tip EXCEPT ![head] = n] /\ UNCHANGED at

-----------------------------------------------------------------------------
(* The handlers, from the gate on.                                         *)

HandleCommit(c) ==
  /\ Working(c, "commit", "work")
  /\ \/ GitFails(c)
     \/ Readiness = "blocked" /\ Fail(c, "blocked")
     \/ Readiness = "risky" /\ ~job[c].req.flag /\ Fail(c, "override required")
     \/ Readiness = "risky" /\ job[c].req.flag /\ Proceed(c)
     \/ Readiness = "ready" /\ Proceed(c)

\* Commit looks again for staged changes; git commits what is staged now.
Commit(c) ==
  /\ Working(c, "commit", "act")
  /\ \/ GitFails(c)
     \/ job[c].req.arg = "" /\ Fail(c, "empty message")
     \/ ~tree.staged /\ Fail(c, "nothing staged")
     \/ /\ job[c].req.arg # "" /\ tree.staged /\ ~tree.conflict
        /\ Len(parent) < MaxCommits
        /\ parent' = Append(parent, HeadCommit)
        /\ MoveHead(Len(parent) + 1)
        /\ tree' = [tree EXCEPT !.staged = FALSE]
        /\ UNCHANGED <<head, remote, tracking>>
        /\ Finish(c, "ok", Len(parent) + 1)

\* The branch named, or the upstream of the one checked out.
PushTarget(r) == IF r.arg # "" THEN r.arg ELSE head
HasUpstream == IF head = Detached THEN FALSE ELSE tracking[head] # 0

Push(c, r) ==
  LET b == PushTarget(r)
  IN \/ r.arg = "" /\ ~HasUpstream /\ Fail(c, "no upstream")
     \/ /\ r.arg # "" \/ HasUpstream
        /\ b \in Branches /\ tip[b] # 0
        /\ IF \/ Within(remote[b], tip[b])
              \/ r.flag /\ AllowForce /\ tracking[b] = remote[b]
             THEN /\ remote' = [remote EXCEPT ![b] = tip[b]]
                  /\ tracking' = [tracking EXCEPT ![b] = tip[b]]
                  /\ UNCHANGED <<parent, tip, head, at, tree>>
                  /\ Finish(c, "ok", 0)
             ELSE Fail(c, "non fast forward")
HandlePush(c) ==
  Working(c, "push", "work") /\ (GitFails(c) \/ Push(c, job[c].req))

Fetch(c) ==
  /\ tracking' = remote
  /\ UNCHANGED <<parent, tip, head, at, tree, remote>>
  /\ Finish(c, "ok", 0)
HandleFetch(c) == Working(c, "fetch", "work") /\ (GitFails(c) \/ Fetch(c))

\* git pull --ff-only fetches first, and keeps what it fetched if it fails.
PullFFOnly(c) ==
  /\ head # Detached /\ tracking' = remote
  /\ IF Within(tip[head], remote[head]) /\ remote[head] # 0
       THEN /\ tip' = [tip EXCEPT ![head] = remote[head]]
            /\ Finish(c, "ok", 0)
       ELSE Finish(c, "not fast forward", 0) /\ UNCHANGED tip
  /\ UNCHANGED <<parent, head, at, tree, remote>>
HandlePull(c) == Working(c, "pull", "work") /\ (GitFails(c) \/ PullFFOnly(c))

CreateBranch(c, b) ==
  IF b \notin Branches THEN Fail(c, "invalid name")
  ELSE IF HeadCommit = 0 THEN Fail(c, "empty repository")
  ELSE IF tip[b] # 0 THEN Fail(c, "exists")
  ELSE /\ tip' = [tip EXCEPT ![b] = HeadCommit]
       /\ UNCHANGED <<parent, head, at, tree, remote, tracking>>
       /\ Finish(c, "ok", 0)
HandleBranchCreate(c) ==
  /\ Working(c, "branch_create", "work")
  /\ GitFails(c) \/ CreateBranch(c, job[c].req.arg)

HandleBranchSwitch(c) ==
  /\ Working(c, "branch_switch", "work")
  /\ LET b == job[c].req.arg
     IN \/ GitFails(c)
        \/ HeadCommit = 0 /\ Fail(c, IF head = b THEN "ok" ELSE "empty")
        \/ /\ HeadCommit # 0
           /\ IF b \notin Branches \/ tip[b] = 0 THEN Fail(c, "not found")
              ELSE IF head = b THEN Fail(c, "ok")
              ELSE IF Dirty THEN Fail(c, "dirty")
              ELSE Proceed(c)

\* git checkout refuses a work tree in the way, or carries it along.
SwitchBranch(c) ==
  /\ Working(c, "branch_switch", "act")
  /\ \/ GitFails(c)
     \/ Dirty /\ Fail(c, "dirty")
     \/ /\ ~tree.conflict /\ tip[job[c].req.arg] # 0
        /\ head' = job[c].req.arg
        /\ UNCHANGED <<parent, tip, at, tree, remote, tracking>>
        /\ Finish(c, "ok", 0)

\* gh makes the pull request at the hosting service: nothing changes here.
PrCreate(c) == Fail(c, "ok")
HandlePrCreate(c) ==
  Working(c, "pr_create", "work") /\ (GhFails(c) \/ PrCreate(c))

\* gh fetches the head of the pull request into a branch and checks it out.
PrCheckout(c) ==
  /\ Working(c, "pr_checkout", "act")
  /\ \/ GhFails(c)
     \/ /\ remote["pr"] # 0 /\ head' = "pr"
        /\ tip' = [tip EXCEPT !["pr"] = remote["pr"]]
        /\ tracking' = [tracking EXCEPT !["pr"] = remote["pr"]]
        /\ UNCHANGED <<parent, at, tree, remote>>
        /\ Finish(c, "ok", 0)
HandlePrCheckout(c) ==
  /\ Working(c, "pr_checkout", "work")
  /\ GitFails(c) \/ (IF Dirty THEN Fail(c, "dirty") ELSE Proceed(c))

-----------------------------------------------------------------------------
(* The history: one client asks for page after page.                       *)

\* Wrong on purpose: the page starts at the cursor itself.
PageFromCursor(n) == Chain(IF page.cursor = 0 THEN n ELSE page.cursor)
PageFrom(n) == Chain(IF page.cursor = 0 THEN n ELSE parent[page.cursor])

\* A cursor that is unknown, or that left the branch, is refused.
ValidCursor == page.cursor = 0 \/ Within(page.cursor, HeadCommit)

\* An answer without entries and without a cursor: for the client the end.
EmptyPage == page' = IF page.cursor = 0 THEN NoPages
                     ELSE [page EXCEPT !.cursor = 0, !.cut = TRUE]

\* One entry more than the page is read to know whether there is another.
ReadPage ==
  LET all == PageFrom(HeadCommit)
      some == SubSeq(all, 1, PageSize)
      got == IF page.cursor = 0 THEN <<>> ELSE page.got
  IN page' = [start |-> IF page.cursor = 0 THEN HeadCommit ELSE page.start,
              got |-> (IF Len(all) > PageSize THEN got \o some
                       ELSE got \o all),
              cursor |-> IF Len(all) > PageSize THEN some[PageSize] ELSE 0,
              cut |-> FALSE]

\* Without a commit at HEAD the page is empty, whatever the cursor.  So it is
\* when git fails to tell the parent of the cursor, which is then taken for
\* the root; any other command that fails is an error for the client.
GetHistory ==
  /\ \/ HeadCommit = 0 /\ EmptyPage
     \/ /\ HeadCommit # 0 /\ ValidCursor
        /\ ReadPage \/ (page.cursor # 0 /\ EmptyPage)
  /\ UNCHANGED <<repo, gate, job, cache, replies, sent, edits>>

-----------------------------------------------------------------------------
(* What goes on around the gate.                                           *)

\* The terminal, a file request or a decision changes the work tree.
Edit ==
  /\ edits < MaxEdits /\ edits' = edits + 1
  /\ tree' \in Trees \ {tree}
  /\ UNCHANGED <<parent, tip, head, at, remote, tracking, gate, job, cache,
                 replies, page, sent>>

\* The terminal checks a commit out.
Detach ==
  /\ edits < MaxEdits /\ edits' = edits + 1
  /\ HeadCommit # 0 /\ head # Detached /\ ~tree.conflict
  /\ head' = Detached /\ at' = HeadCommit
  /\ UNCHANGED <<parent, tip, tree, remote, tracking, gate, job, cache,
                 replies, page, sent>>

\* The terminal begins a branch without history (git checkout --orphan).
Orphan(b) ==
  /\ edits < MaxEdits /\ edits' = edits + 1
  /\ HeadCommit # 0 /\ tip[b] = 0 /\ ~tree.conflict
  /\ head' = b /\ tree' = [tree EXCEPT !.staged = TRUE]
  /\ UNCHANGED <<parent, tip, at, remote, tracking, gate, job, cache, replies,
                 page, sent>>

\* Somebody else pushes a commit.
Elsewhere(b) ==
  /\ edits < MaxEdits /\ edits' = edits + 1 /\ Len(parent) < MaxCommits
  /\ parent' = Append(parent, remote[b])
  /\ remote' = [remote EXCEPT ![b] = Len(parent) + 1]
  /\ UNCHANGED <<tip, head, at, tree, tracking, gate, job, cache, replies,
                 page, sent>>

Handle(c) ==
  \/ Enter(c)
  \/ HandleCommit(c) \/ Commit(c) \/ HandlePush(c)
  \/ HandleFetch(c) \/ HandlePull(c)
  \/ HandleBranchCreate(c) \/ HandleBranchSwitch(c) \/ SwitchBranch(c)
  \/ HandlePrCreate(c) \/ HandlePrCheckout(c) \/ PrCheckout(c)

Next ==
  \/ \E c \in Conns : Handle(c)
  \/ \E c \in Conns, r \in Requests : Receive(c, r)
  \/ GetHistory \/ Edit \/ Detach
  \/ \E b \in Branches : Orphan(b) \/ Elsewhere(b)

Spec == Init /\ [][Next]_vars

-----------------------------------------------------------------------------
(* Properties.                                                             *)

\* A request sent again on its connection is not executed again, and is
\* answered as it was the first time, unless CacheSize other mutations have
\* been completed in between.
RepeatsAreRemembered ==
  \A c \in Conns : \A j \in DOMAIN replies[c] : \A i \in 1..(j - 1) :
    LET a == replies[c][i]  b == replies[c][j]
    IN /\ a.ran /\ KeyOf(a.req) = KeyOf(b.req)
       /\ Cardinality({k \in (i + 1)..(j - 1) : replies[c][k].ran})
            < CacheSize
       => /\ ~b.ran
          /\ b.result = IF Fingerprint(a.req) = Fingerprint(b.req)
                       THEN a.result ELSE <<"mismatch", 0>>

\* What a commit or a checkout was allowed on still holds when it acts: no
\* other client's command has moved the branch or changed the work tree
\* since.  Only changes made around the gate can.
ChecksStillHold ==
  \A c \in Conns :
    job[c].step = "act" /\ job[c].around = edits => Seen = job[c].saw

\* The pages of the history put one after the other are the history from the
\* commit they started at, without gap or repetition, whatever is committed
\* or checked out between the pages.  They stop short of its beginning only
\* if HEAD had no commit, or git failed to tell a parent, when the last page
\* was asked for.
PagesAreTheHistory ==
  LET all == Chain(page.start)
  IN /\ page.got = SubSeq(all, 1, Len(page.got))
     /\ page.cursor = 0 /\ ~page.cut => page.got = all
     /\ page.cursor # 0 => Len(page.got) < Len(all)
=============================================================================
