--------------------------- MODULE ApprovalQueue ---------------------------
(***************************************************************************)
(* The broker between CLI tools that ask for permission to run a command   *)
(* (POST /approve) and the mobile clients that answer                      *)
(* (host/internal/server/approval.go and handlers_approval.go).            *)
(*                                                                         *)
(* Two kinds of goroutine share the queue:                                 *)
(*  - a caller is one HTTP request: it runs ApprovalQueue.Queue, blocks in *)
(*    its select and returns one outcome.  /approve never sets a RequestID,*)
(*    so Queue draws a fresh UUID: the caller stands for its request id.   *)
(*  - a device is one WebSocket connection: its read pump runs             *)
(*    DecideWithDevice for one message at a time.                          *)
(* A step is the code between two points where another goroutine can act:  *)
(* q.mu is held only around the maps, never across the audit write, the    *)
(* lifecycle hooks or the channel send.                                    *)
(*                                                                         *)
(* The audit store may refuse a row: recordAudit logs that and its callers *)
(* go on.  unsaved keeps what was refused, and a run bounds how often.     *)
(***************************************************************************)
EXTENDS Naturals, FiniteSets

CONSTANTS
  Callers,     \* the /approve requests, each with its own fresh request id
  Devices,     \* the connected mobile clients
  Commands,    \* the command strings the CLI tools ask about
  TTL,         \* ApprovalQueue.defaultTTL
  Replies,     \* what a client may send: a verdict and the time until which
               \* it allows the command (temporary_allow_until), or None
  MaxTime,     \* bound of the run: no request that would outlive it arrives
  MaxUnsaved,  \* bound of the run: audit rows the store refuses
  None         \* "not set"

ASSUME TimeAssumption == /\ TTL \in Nat \ {0}
                         /\ MaxTime \in Nat
                         /\ MaxUnsaved \in Nat
ASSUME RepliesAssumption ==
  Replies \subseteq {"approve", "deny"} \X (Nat \union {None})
ASSUME NoneAssumption == /\ None \notin Nat
                         /\ None \notin Callers
                         /\ None \notin Devices
                         /\ None \notin Commands
                         /\ None \notin {"approve", "deny", "timeout",
                                         "cancelled"}

VARIABLES
  now,        \* time.Now(), in ticks
  pc,         \* where each caller is in Queue
  cmd,        \* the command each caller asked about
  match,      \* the copy of the rule that grants a caller's command, and
              \* when checkTemporaryAllow took it
  deadline,   \* PendingApproval.ExpiresAt
  pending,    \* keys of q.pending
  rules,      \* q.allowRules
  reply,      \* content of each PendingApproval.ResponseCh (buffered, size 1)
  outcome,    \* what Queue returned to each caller
  prompted,   \* requests broadcast to the clients as approval.request
  deciding,   \* the DecideWithDevice call each device is in, if any
  audit,      \* rows of the approval audit table
  unsaved,    \* rows it should have and refused (history)
  chat        \* status of the item "approval:<id>" of the chat timeline

callerVars == <<pc, cmd, match, deadline, outcome>>
auditVars == <<audit, unsaved>>
vars == <<now, callerVars, pending, rules, reply, prompted, deciding,
          auditVars, chat>>

Verdicts == {"approve", "deny"}

\* Wrong on purpose: the audit row keeps the client's own word.
AuditedVerbatim(verdict) == verdict

\* The past participle DecideWithDevice stores in the audit table.
Audited(verdict) == IF verdict = "approve" THEN "approved" ELSE "denied"

Rule == [command : Commands, expires : Nat, device : Devices]

Match == [rule : Rule, at : Nat]

ASSUME NoneIsNoMatch == None \notin Match

AuditEntry == [req : Callers, command : Commands,
               decision : {"approved", "denied"},
               source : {"mobile", "rule", "timeout"},
               device : Devices \union {None}, until : Nat \union {None}]

Idle == [stage |-> "idle", req |-> None, verdict |-> None, until |-> None]

Deciding == [stage : {"record", "project", "allow", "answer"},
             req : Callers, verdict : Verdicts, until : Nat \union {None}]

TypeOK ==
  /\ now \in Nat
  /\ pc \in [Callers -> {"idle", "matched", "register", "announce",
                         "project", "waiting", "expired", "done"}]
  /\ match \in [Callers -> Match \union {None}]
  /\ \A r \in Callers : pc[r] = "matched" => match[r] \in Match
  /\ cmd \in [Callers -> Commands \union {None}]
  /\ \A r \in Callers : pc[r] # "idle" => cmd[r] \in Commands
  /\ deadline \in [Callers -> Nat]
  /\ pending \subseteq Callers
  /\ rules \subseteq Rule
  /\ reply \in [Callers -> Verdicts \union {None}]
  /\ outcome \in [Callers -> {None, "approve", "deny", "timeout", "cancelled"}]
  /\ prompted \subseteq Callers
  /\ deciding \in [Devices -> Deciding \union {Idle}]
  /\ audit \subseteq AuditEntry
  /\ unsaved \subseteq AuditEntry
  /\ chat \in [Callers -> {"absent", "pending", "resolved"}]

Init ==
  /\ now = 0
  /\ pc = [r \in Callers |-> "idle"]
  /\ cmd = [r \in Callers |-> None]
  /\ match = [r \in Callers |-> None]
  /\ deadline = [r \in Callers |-> 0]
  /\ pending = {}
  /\ rules = {}
  /\ reply = [r \in Callers |-> None]
  /\ outcome = [r \in Callers |-> None]
  /\ prompted = {}
  /\ deciding = [d \in Devices |-> Idle]
  /\ audit = {}
  /\ unsaved = {}
  /\ chat = [r \in Callers |-> "absent"]

-----------------------------------------------------------------------------
\* recordAudit: the row is stored, or the failure is logged and forgotten.
RecordAudit(row) ==
  \/ /\ audit' = audit \union {row}
     /\ UNCHANGED unsaved
  \/ /\ Cardinality(unsaved) < MaxUnsaved
     /\ unsaved' = unsaved \union {row}
     /\ UNCHANGED audit

(* The caller: ApprovalQueue.Queue, called by ApproveHandler.ServeHTTP.    *)

\* The rules checkTemporaryAllow keeps: a rule that expires now is dropped.
LiveRules == {rule \in rules : rule.expires > now}

MatchingRules(c) == {rule \in LiveRules : rule.command = c}

\* A live rule grants the command: the expired rules are dropped and the
\* caller goes on, without the lock, with a copy of the one it matched.
MatchRule(r, c) ==
  /\ pc[r] = "idle"
  /\ now + TTL <= MaxTime
  /\ rules' = LiveRules
  /\ \E rule \in MatchingRules(c) :
       match' = [match EXCEPT ![r] = [rule |-> rule, at |-> now]]
  /\ pc' = [pc EXCEPT ![r] = "matched"]
  /\ cmd' = [cmd EXCEPT ![r] = c]
  /\ UNCHANGED <<now, deadline, outcome, pending, reply, prompted, deciding,
                 auditVars, chat>>

\* ... the grant is audited and Queue returns without asking anybody.
AutoApprove(r) ==
  /\ pc[r] = "matched"
  /\ LET rule == match[r].rule IN
       RecordAudit([req |-> r, command |-> cmd[r], decision |-> "approved",
                    source |-> "rule", device |-> rule.device,
                    until |-> rule.expires])
  /\ pc' = [pc EXCEPT ![r] = "done"]
  /\ outcome' = [outcome EXCEPT ![r] = "approve"]
  /\ UNCHANGED <<now, cmd, match, deadline, pending, rules, reply, prompted,
                 deciding, chat>>

\* No rule matches: the expiry is fixed before the request is registered.
Submit(r, c) ==
  /\ pc[r] = "idle"
  /\ now + TTL <= MaxTime
  /\ MatchingRules(c) = {}
  /\ rules' = LiveRules
  /\ pc' = [pc EXCEPT ![r] = "register"]
  /\ cmd' = [cmd EXCEPT ![r] = c]
  /\ deadline' = [deadline EXCEPT ![r] = now + TTL]
  /\ UNCHANGED <<now, match, outcome, pending, reply, prompted, deciding,
                 auditVars, chat>>

Register(r) ==
  /\ pc[r] = "register"
  /\ pending' = pending \union {r}
  /\ pc' = [pc EXCEPT ![r] = "announce"]
  /\ UNCHANGED <<now, cmd, match, deadline, outcome, rules, reply, prompted,
                 deciding, auditVars, chat>>

Announce(r) ==
  /\ pc[r] = "announce"
  /\ prompted' = prompted \union {r}
  /\ pc' = [pc EXCEPT ![r] = "project"]
  /\ UNCHANGED <<now, cmd, match, deadline, outcome, pending, rules, reply,
                 deciding, auditVars, chat>>

\* onPending = projectApprovalRequest: it always writes status pending.
ProjectPending(r) ==
  /\ pc[r] = "project"
  /\ chat' = [chat EXCEPT ![r] = "pending"]
  /\ pc' = [pc EXCEPT ![r] = "waiting"]
  /\ UNCHANGED <<now, cmd, match, deadline, outcome, pending, rules, reply,
                 prompted,
                 deciding, auditVars>>

\* case response := <-responseCh
Receive(r) ==
  /\ pc[r] = "waiting"
  /\ reply[r] # None
  /\ pending' = pending \ {r}
  /\ reply' = [reply EXCEPT ![r] = None]
  /\ outcome' = [outcome EXCEPT ![r] = reply[r]]
  /\ pc' = [pc EXCEPT ![r] = "done"]
  /\ UNCHANGED <<now, cmd, match, deadline, rules, prompted, deciding,
                 auditVars, chat>>

\* onResolved = projectApprovalDecision.  The stored item takes its expires_at
\* from the pending one; without it the store rejects the item and the
\* timeline stays as it is.
Resolved(r) == IF chat[r] = "absent" THEN chat
               ELSE [chat EXCEPT ![r] = "resolved"]

\* Wrong on purpose: q.pending is asked the wrong way round, and only a
\* claimed request expires.
ExpireInverted(r) ==
  /\ pc[r] = "waiting"
  /\ now >= deadline[r]
  /\ r \notin pending
  /\ pc' = [pc EXCEPT ![r] = "expired"]
  /\ UNCHANGED <<now, cmd, match, deadline, outcome, pending, rules, reply,
                 prompted,
                 deciding, auditVars, chat>>

\* case <-time.After(timeout): the select may take it with a reply ready too.
Expire(r) ==
  /\ pc[r] = "waiting"
  /\ now >= deadline[r]
  /\ pending' = pending \ {r}
  /\ RecordAudit([req |-> r, command |-> cmd[r], decision |-> "denied",
                   source |-> "timeout", device |-> None, until |-> None])
  /\ pc' = [pc EXCEPT ![r] = "expired"]
  /\ UNCHANGED <<now, cmd, match, deadline, outcome, rules, reply, prompted,
                 deciding, chat>>

\* ... and then onResolved(req, "deny") before it returns ApprovalTimeout.
ReturnTimeout(r) ==
  /\ pc[r] = "expired"
  /\ chat' = Resolved(r)
  /\ outcome' = [outcome EXCEPT ![r] = "timeout"]
  /\ pc' = [pc EXCEPT ![r] = "done"]
  /\ UNCHANGED <<now, cmd, match, deadline, pending, rules, reply, prompted,
                 deciding, auditVars>>

\* case <-ctx.Done(): the HTTP client went away.  Neither audit nor hook.
Abandon(r) ==
  /\ pc[r] = "waiting"
  /\ pending' = pending \ {r}
  /\ outcome' = [outcome EXCEPT ![r] = "cancelled"]
  /\ pc' = [pc EXCEPT ![r] = "done"]
  /\ UNCHANGED <<now, cmd, match, deadline, rules, reply, prompted, deciding,
                 auditVars, chat>>

-----------------------------------------------------------------------------
(* The device: handleApprovalDecision calls DecideWithDevice.              *)

\* Wrong on purpose: a claim that leaves the request open to the other devices.
ClaimLeavingPending(d, r, verdict, until) ==
  /\ deciding[d] = Idle
  /\ r \in prompted
  /\ r \in pending
  /\ deciding' = [deciding EXCEPT ![d] =
                    [stage |-> "record", req |-> r,
                     verdict |-> verdict, until |-> until]]
  /\ UNCHANGED <<now, callerVars, pending, rules, reply, prompted, auditVars,
                 chat>>

\* Look the request up and take it out of pending, under q.mu.  For an id
\* that is not there the device is told approval.not_found ("already expired
\* or decided") and nothing changes.
Claim(d, r, verdict, until) ==
  /\ deciding[d] = Idle
  /\ r \in prompted
  /\ r \in pending
  /\ pending' = pending \ {r}
  /\ deciding' = [deciding EXCEPT ![d] =
                    [stage |-> "record", req |-> r,
                     verdict |-> verdict, until |-> until]]
  /\ UNCHANGED <<now, callerVars, rules, reply, prompted, auditVars, chat>>

\* The decision each device is carrying out moves to its next stage.
Stage(d, from, to) ==
  /\ deciding[d].stage = from
  /\ deciding' = [deciding EXCEPT ![d].stage = to]

\* Wrong on purpose: only approvals are written to the audit table.
RecordApprovalOnly(d) ==
  /\ Stage(d, "record", "project")
  /\ LET p == deciding[d] IN
       IF p.verdict = "deny" THEN UNCHANGED auditVars
       ELSE RecordAudit([req |-> p.req, command |-> cmd[p.req],
                         decision |-> "approved", source |-> "mobile",
                         device |-> d, until |-> p.until])
  /\ UNCHANGED <<now, callerVars, pending, rules, reply, prompted, chat>>

RecordDecision(d) ==
  /\ Stage(d, "record", "project")
  /\ LET p == deciding[d] IN
       RecordAudit([req |-> p.req, command |-> cmd[p.req],
                    decision |-> Audited(p.verdict), source |-> "mobile",
                    device |-> d, until |-> p.until])
  /\ UNCHANGED <<now, callerVars, pending, rules, reply, prompted, chat>>

\* onResolved(req, decision)
ProjectDecision(d) ==
  /\ Stage(d, "project", "allow")
  /\ chat' = Resolved(deciding[d].req)
  /\ UNCHANGED <<now, callerVars, pending, rules, reply, prompted, auditVars>>

\* AddTemporaryAllow replaces the rule of the same command, if there is one.
AddTemporaryAllow(command, until, d) ==
  {rule \in rules : rule.command # command}
    \union {[command |-> command, expires |-> until, device |-> d]}

\* Wrong on purpose: the rule is added whatever the verdict is.
GrantRuleRegardless(d) ==
  /\ Stage(d, "allow", "answer")
  /\ LET p == deciding[d] IN
       rules' = IF p.until # None
                THEN AddTemporaryAllow(cmd[p.req], p.until, d)
                ELSE rules
  /\ UNCHANGED <<now, callerVars, pending, reply, prompted, auditVars, chat>>

\* "If approved with temporary allow, add the rule": only then.
GrantRule(d) ==
  /\ Stage(d, "allow", "answer")
  /\ LET p == deciding[d] IN
       rules' = IF p.verdict = "approve" /\ p.until # None
                THEN AddTemporaryAllow(cmd[p.req], p.until, d)
                ELSE rules
  /\ UNCHANGED <<now, callerVars, pending, reply, prompted, auditVars,
                 chat>>

\* Wrong on purpose: the send is skipped when the request is not pending.
AnswerIfPending(d) ==
  /\ deciding[d].stage = "answer"
  /\ reply' = IF deciding[d].req \in pending
              THEN [reply EXCEPT ![deciding[d].req] = deciding[d].verdict]
              ELSE reply
  /\ deciding' = [deciding EXCEPT ![d] = Idle]
  /\ UNCHANGED <<now, callerVars, pending, rules, prompted, auditVars, chat>>

\* The buffered send; nobody else ever sends to this channel.
Answer(d) ==
  /\ deciding[d].stage = "answer"
  /\ reply' = [reply EXCEPT ![deciding[d].req] = deciding[d].verdict]
  /\ deciding' = [deciding EXCEPT ![d] = Idle]
  /\ UNCHANGED <<now, callerVars, pending, rules, prompted, auditVars,
                 chat>>

Tick ==
  /\ now < MaxTime
  /\ now' = now + 1
  /\ UNCHANGED <<callerVars, pending, rules, reply, prompted, deciding,
                 auditVars, chat>>

-----------------------------------------------------------------------------
\* The steps a caller's goroutine takes once its request is accepted.
Proceed(r) ==
  \/ AutoApprove(r)
  \/ Register(r) \/ Announce(r) \/ ProjectPending(r)
  \/ Receive(r) \/ Expire(r) \/ ReturnTimeout(r)

CallerStep(r) == Proceed(r) \/ Abandon(r)

\* The steps a device takes once it has claimed a request.
DeviceStep(d) ==
  \/ RecordDecision(d) \/ ProjectDecision(d) \/ GrantRule(d) \/ Answer(d)

Next ==
  \/ \E r \in Callers, c \in Commands : MatchRule(r, c) \/ Submit(r, c)
  \/ \E r \in Callers : CallerStep(r)
  \/ \E d \in Devices, r \in Callers, m \in Replies :
       Claim(d, r, m[1], m[2])
  \/ \E d \in Devices : DeviceStep(d)
  \/ Tick

\* Goroutines run and the clock advances; nothing makes a tool ask, a user
\* answer or a tool hang up, so those steps have no fairness.
Fairness ==
  /\ \A r \in Callers : WF_vars(Proceed(r))
  /\ \A d \in Devices : WF_vars(DeviceStep(d))
  /\ WF_vars(Tick)

Spec == Init /\ [][Next]_vars
FairSpec == Spec /\ Fairness

-----------------------------------------------------------------------------
(* Properties.                                                             *)

\* The rows the code has asked the store to keep.
Decided == audit \union unsaved

MobileEntries(r) == {e \in Decided : e.req = r /\ e.source = "mobile"}

\* A device approved the rule's command for that long.
Granted(rule) ==
  \E e \in Decided : /\ e.source = "mobile" /\ e.decision = "approved"
                     /\ e.command = rule.command
                     /\ e.until = rule.expires /\ e.device = rule.device

\* "The first client to respond wins (subsequent responses are ignored)":
\* however the devices race, at most one of them ever holds or has settled
\* a request, and a settled request is never open to another claim.
OneMobileVerdict ==
  \A r \in Callers :
    /\ \A e1, e2 \in MobileEntries(r) : e1 = e2
    /\ \A d1, d2 \in Devices :
         deciding[d1].req = r /\ deciding[d2].req = r => d1 = d2
    /\ r \in pending => /\ MobileEntries(r) = {}
                        /\ \A d \in Devices : deciding[d].req # r

ToldWhatWasDecided(r) ==
  /\ outcome[r] = "approve" =>
       \E e \in Decided :
         /\ e.req = r /\ e.command = cmd[r] /\ e.decision = "approved"
         /\ IF match[r] = None THEN e.source = "mobile"
            ELSE e.source = "rule" /\ e.until = match[r].rule.expires
  /\ outcome[r] = "deny" =>
       \E e \in MobileEntries(r) :
         e.command = cmd[r] /\ e.decision = "denied"
  /\ outcome[r] \in {"approve", "deny", "cancelled"} =>
       \A e \in Decided : e.req = r => e.source # "timeout"

\* A tool is told what was decided on its own request, and the store was
\* asked to keep that: an approval is a device's or that of the rule that was
\* matched, a denial a device's, and only a tool that is told of a timeout has
\* the row of one.  A row the store refused is missing from the table, "an
\* error is logged but not returned", and the verdict is told all the same.
VerdictIsAudited == \A r \in Callers : ToldWhatWasDecided(r)

\* A prompted or blocked caller can still be answered: its request is open to
\* the devices, or one of them is carrying its answer, or the answer is there.
\* So DecideWithDevice says "not found" only of a settled request, however
\* quickly a client reacts to the prompt.
NoStrandedCaller ==
  \A r \in Callers :
    /\ \/ r \in prompted
       \/ pc[r] \in {"announce", "project", "waiting"}
    /\ pc[r] \notin {"expired", "done"}
    => \/ r \in pending
       \/ reply[r] # None
       \/ \E d \in Devices : deciding[d].req = r

\* A device allows a command until some time and no longer: each rule, and
\* each copy a caller goes on with, is of an approval of that very command
\* with that expiry; the copy was taken before it expired; and a command has
\* one rule, so that a later approval, also a shorter one, replaces the
\* earlier.
RulesWereGranted ==
  /\ \A rule \in rules : Granted(rule)
  /\ \A rule, other \in rules : rule.command = other.command => rule = other
  /\ \A r \in Callers : match[r] # None =>
       /\ Granted(match[r].rule)
       /\ match[r].rule.command = cmd[r]
       /\ match[r].at < match[r].rule.expires

\* Every accepted request returns an outcome, even if no client ever answers:
\* a caller asks once, so this is to say that again and again none waits.
EveryCallReturns ==
  []<>(\A r \in Callers : pc[r] \in {"idle", "done"})

\* What the comment on Decide promises: an accepted decision is what the
\* waiting Queue call returns, and a request that expired is an error.  It
\* fails: between Claim and Answer the caller's timer may fire, and then the
\* device was told its approval was accepted, the audit table holds both an
\* approval and a timeout and a temporary rule may stand, while the tool was
\* told that nobody answered.
DecisionReachesCaller ==
  \A r \in Callers : \A e \in MobileEntries(r) :
    outcome[r] = "timeout" => e.decision = "denied"
=============================================================================
