------------------------ MODULE ApprovalQueueProofs ------------------------
(***************************************************************************)
(* Proofs about ApprovalQueue for any number of callers, devices and       *)
(* commands and any time limits.  Typing comes first; the safety           *)
(* properties follow from the inductive invariant IndInv, which ties the   *)
(* four places a request can be in (open in pending, carried by a device,  *)
(* answered in its channel, settled) to what the audit store was asked to  *)
(* keep, whether it took the row or not.                                   *)
(***************************************************************************)
EXTENDS ApprovalQueue, TLAPS

\* Requests the clients or the queue know have been submitted, and so have a
\* command.
Submitted ==
  /\ \A r \in prompted \union pending : pc[r] # "idle"
  /\ \A d \in Devices : deciding[d] # Idle => deciding[d].req \in prompted

Typed == TypeOK /\ Submitted

-----------------------------------------------------------------------------
LEMMA InitTyped == Init => Typed
BY NoneAssumption DEF Init, Typed, TypeOK, Submitted, Idle

\* Whether the store takes the row or not, it was asked to keep it.
LEMMA RecordAuditDecides ==
  ASSUME NEW row, RecordAudit(row)
  PROVE  Decided' = Decided \union {row}
BY DEF RecordAudit, Decided

LEMMA RecordAuditTyped ==
  ASSUME TypeOK, NEW row \in AuditEntry, RecordAudit(row)
  PROVE  audit' \subseteq AuditEntry /\ unsaved' \subseteq AuditEntry
BY DEF RecordAudit, TypeOK

LEMMA MatchRuleTyped ==
  ASSUME Typed, NEW r \in Callers, NEW c \in Commands, MatchRule(r, c)
  PROVE  Typed'
<1>1. PICK rule \in MatchingRules(c) :
         match' = [match EXCEPT ![r] = [rule |-> rule, at |-> now]]
  BY DEF MatchRule
<1>2. [rule |-> rule, at |-> now] \in Match
  BY DEF MatchingRules, LiveRules, Match, Typed, TypeOK
<1>3. rules' \subseteq Rule
  BY DEF MatchRule, LiveRules, Typed, TypeOK
<1>4. /\ match' \in [Callers -> Match \union {None}]
      /\ \A s \in Callers : pc'[s] = "matched" => match'[s] \in Match
  BY <1>1, <1>2 DEF MatchRule, Typed, TypeOK
<1>5. TypeOK'
  BY <1>3, <1>4, TimeAssumption DEF MatchRule, auditVars, Typed, TypeOK
<1>6. Submitted'
  BY DEF MatchRule, Typed, TypeOK, Submitted
<1> QED BY <1>5, <1>6 DEF Typed

LEMMA AutoApproveTyped ==
  ASSUME Typed, NEW r \in Callers, AutoApprove(r)
  PROVE  Typed'
<1> DEFINE rule == match[r].rule
<1>1. match[r] \in Match /\ cmd[r] \in Commands
  BY DEF AutoApprove, Typed, TypeOK
<1>2. [req |-> r, command |-> cmd[r], decision |-> "approved",
       source |-> "rule", device |-> rule.device,
       until |-> rule.expires] \in AuditEntry
  BY <1>1 DEF AuditEntry, Match, Rule
<1>3. audit' \subseteq AuditEntry /\ unsaved' \subseteq AuditEntry
  BY <1>2, RecordAuditTyped DEF AutoApprove, Typed
<1>4. TypeOK'
  BY <1>3 DEF AutoApprove, Typed, TypeOK
<1>5. Submitted'
  BY DEF AutoApprove, Typed, TypeOK, Submitted
<1> QED BY <1>4, <1>5 DEF Typed

LEMMA SubmitTyped ==
  ASSUME Typed, NEW r \in Callers, NEW c \in Commands, Submit(r, c)
  PROVE  Typed'
<1>1. TypeOK'
  BY TimeAssumption DEF Submit, LiveRules, auditVars, Typed, TypeOK
<1>2. Submitted'
  BY DEF Submit, Typed, TypeOK, Submitted
<1> QED BY <1>1, <1>2 DEF Typed

LEMMA CallerStepTyped ==
  ASSUME Typed, NEW r \in Callers, CallerStep(r)
  PROVE  Typed'
<1> USE DEF Typed, TypeOK, Submitted, auditVars
<1>0. CASE AutoApprove(r) BY <1>0, AutoApproveTyped
<1>1. CASE Register(r) BY <1>1 DEF Register
<1>2. CASE Announce(r) BY <1>2 DEF Announce
<1>3. CASE ProjectPending(r) BY <1>3 DEF ProjectPending
<1>4. CASE Receive(r) BY <1>4, NoneAssumption DEF Receive, Verdicts
<1>5. CASE Expire(r)
  <2>1. [req |-> r, command |-> cmd[r], decision |-> "denied",
         source |-> "timeout", device |-> None, until |-> None] \in AuditEntry
    BY <1>5 DEF Expire, AuditEntry
  <2>2. audit' \subseteq AuditEntry /\ unsaved' \subseteq AuditEntry
    BY <2>1, <1>5, RecordAuditTyped DEF Expire
  <2> QED BY <2>2, <1>5 DEF Expire
<1>6. CASE ReturnTimeout(r) BY <1>6 DEF ReturnTimeout, Resolved
<1>7. CASE Abandon(r) BY <1>7 DEF Abandon
<1> QED BY <1>0, <1>1, <1>2, <1>3, <1>4, <1>5, <1>6, <1>7
        DEF CallerStep, Proceed

LEMMA ClaimTyped ==
  ASSUME Typed, NEW d \in Devices, NEW r \in Callers,
         NEW verdict \in Verdicts, NEW until \in Nat \union {None},
         Claim(d, r, verdict, until)
  PROVE  Typed'
<1>1. [stage |-> "record", req |-> r, verdict |-> verdict, until |-> until]
        \in Deciding
  BY DEF Deciding
<1>2. TypeOK'
  BY <1>1 DEF Claim, callerVars, auditVars, Typed, TypeOK
<1>3. Submitted'
  BY <1>1 DEF Claim, callerVars, Typed, TypeOK, Submitted
<1> QED BY <1>2, <1>3 DEF Typed

\* A device that takes a step is carrying a decision on a request it was
\* prompted for.
LEMMA CarryingDevice ==
  ASSUME Typed, NEW d \in Devices, deciding[d].stage # "idle"
  PROVE  /\ deciding[d] \in Deciding
         /\ deciding[d] # Idle
         /\ deciding[d].req \in Callers
         /\ deciding[d].req \in prompted
         /\ cmd[deciding[d].req] \in Commands
BY DEF Typed, TypeOK, Submitted, Deciding, Idle

LEMMA DeviceStepTyped ==
  ASSUME Typed, NEW d \in Devices, DeviceStep(d)
  PROVE  Typed'
<1>1. deciding[d].stage # "idle"
  BY DEF DeviceStep, RecordDecision, ProjectDecision, GrantRule, Answer, Stage
<1>2. /\ deciding[d] \in Deciding
      /\ deciding[d] # Idle
      /\ deciding[d].req \in Callers
      /\ deciding[d].req \in prompted
      /\ cmd[deciding[d].req] \in Commands
  BY <1>1, CarryingDevice
<1>3. ASSUME NEW to \in {"project", "allow", "answer"},
             deciding' = [deciding EXCEPT ![d].stage = to]
      PROVE  /\ deciding' \in [Devices -> Deciding \union {Idle}]
             /\ \A e \in Devices :
                  deciding'[e] # Idle => deciding'[e].req \in prompted
  BY <1>2, <1>3 DEF Deciding, Typed, TypeOK, Submitted
<1>4. CASE RecordDecision(d)
  <2>1. [req |-> deciding[d].req, command |-> cmd[deciding[d].req],
         decision |-> Audited(deciding[d].verdict), source |-> "mobile",
         device |-> d, until |-> deciding[d].until] \in AuditEntry
    BY <1>2 DEF AuditEntry, Deciding, Audited
  <2>2. audit' \subseteq AuditEntry /\ unsaved' \subseteq AuditEntry
    BY <2>1, <1>4, RecordAuditTyped DEF RecordDecision, Typed
  <2> QED
    BY <2>2, <1>3, <1>4 DEF RecordDecision, Stage, callerVars, Typed, TypeOK,
       Submitted
<1>5. CASE ProjectDecision(d)
  BY <1>2, <1>3, <1>5 DEF ProjectDecision, Resolved, Stage, callerVars, Typed,
     TypeOK, Submitted, Deciding, Verdicts, auditVars
<1>6. CASE GrantRule(d)
  <2>1. rules' \subseteq Rule
    BY <1>2, <1>6 DEF GrantRule, AddTemporaryAllow, Rule, Deciding, Typed,
       TypeOK
  <2> QED
    BY <2>1, <1>3, <1>6 DEF GrantRule, Stage, callerVars, auditVars, Typed,
       TypeOK, Submitted
<1>7. CASE Answer(d)
  BY <1>2, <1>7 DEF Answer, callerVars, auditVars, Typed, TypeOK, Submitted,
     Deciding
<1> QED BY <1>4, <1>5, <1>6, <1>7 DEF DeviceStep

LEMMA StutterTyped == Typed /\ (Tick \/ UNCHANGED vars) => Typed'
BY DEF Tick, vars, callerVars, auditVars, Typed, TypeOK, Submitted

\* No device decides a request that was not submitted and announced.
LEMMA TypedInvariant == Spec => []Typed
<1>1. Typed /\ [Next]_vars => Typed'
  <2>1. ASSUME Typed, NEW d \in Devices, NEW r \in Callers, NEW m \in Replies,
               Claim(d, r, m[1], m[2])
        PROVE  Typed'
    BY <2>1, ClaimTyped, RepliesAssumption DEF Verdicts
  <2> QED BY <2>1, MatchRuleTyped, SubmitTyped, CallerStepTyped,
             DeviceStepTyped, StutterTyped DEF Next
<1> QED BY InitTyped, <1>1, PTL DEF Spec

\* Every variable keeps its type in every behaviour.
THEOREM TypeInvariant == Spec => []TypeOK
BY TypedInvariant, PTL DEF Typed

-----------------------------------------------------------------------------
(* The inductive invariant of the safety properties. *)

\* A request not yet registered is unknown to everybody else.
Unregistered(r) ==
  /\ r \notin pending
  /\ r \notin prompted
  /\ reply[r] = None
  /\ MobileEntries(r) = {}

\* What a device carries is out of pending and unanswered; once recorded, its
\* audit row shows the verdict, its command, its expiry and the device.
Carried(d) ==
  LET p == deciding[d] IN
  /\ p.req \notin pending
  /\ reply[p.req] = None
  /\ p.stage = "record" => MobileEntries(p.req) = {}
  /\ p.stage # "record" =>
       \E e \in MobileEntries(p.req) :
          /\ e.command = cmd[p.req] /\ e.decision = Audited(p.verdict)
          /\ e.until = p.until /\ e.device = d

\* An answer in the channel has its audit row.
Answered(r) ==
  /\ r \notin pending
  /\ r \in prompted
  /\ \E e \in MobileEntries(r) :
       e.command = cmd[r] /\ e.decision = Audited(reply[r])

UnknownBeforeRegister ==
  \A r \in Callers :
    pc[r] \in {"idle", "matched", "register"} => Unregistered(r)
UnpromptedBeforeAnnounce ==
  \A r \in Callers : pc[r] = "announce" => r \notin prompted
PendingIsLive ==
  \A r \in pending : pc[r] \in {"announce", "project", "waiting"}
DevicesCarry == \A d \in Devices : deciding[d] # Idle => Carried(d)
AnswersAreAudited == \A r \in Callers : reply[r] # None => Answered(r)
OutcomeIsLast == \A r \in Callers : pc[r] # "done" => outcome[r] = None

\* A caller that goes on with a rule asks no device.
MatchedDoNotAsk ==
  \A r \in Callers : match[r] # None => pc[r] \in {"matched", "done"}

\* The row of a timeout is written by a caller that returns one.
TimeoutsReturn ==
  \A e \in Decided : e.source = "timeout" =>
    pc[e.req] = "expired" \/ outcome[e.req] = "timeout"

Places ==
  /\ UnknownBeforeRegister
  /\ UnpromptedBeforeAnnounce
  /\ PendingIsLive
  /\ DevicesCarry
  /\ AnswersAreAudited
  /\ OutcomeIsLast
  /\ MatchedDoNotAsk
  /\ TimeoutsReturn

IndInv ==
  /\ Typed
  /\ Places
  /\ OneMobileVerdict
  /\ VerdictIsAudited
  /\ NoStrandedCaller
  /\ RulesWereGranted

LEMMA InitInd == Init => IndInv
<1> SUFFICES ASSUME Init PROVE IndInv
  OBVIOUS
<1>1. \A r \in Callers : MobileEntries(r) = {}
  BY DEF Init, MobileEntries, Decided
<1>2. Places
  BY <1>1 DEF Init, MatchedDoNotAsk, TimeoutsReturn, Decided, Places, Unregistered, UnknownBeforeRegister,
     UnpromptedBeforeAnnounce, PendingIsLive, DevicesCarry, AnswersAreAudited,
     OutcomeIsLast
<1>3. OneMobileVerdict
  BY <1>1, NoneAssumption DEF Init, OneMobileVerdict, Idle
<1>4. VerdictIsAudited
  BY NoneAssumption DEF Init, VerdictIsAudited, ToldWhatWasDecided, Decided
<1>5. NoStrandedCaller
  BY DEF Init, NoStrandedCaller
<1>6. RulesWereGranted
  BY DEF Init, RulesWereGranted
<1> QED BY InitTyped, <1>2, <1>3, <1>4, <1>5, <1>6 DEF IndInv

\* A step that asks the store for nothing.
LEMMA QuietAudit ==
  ASSUME UNCHANGED auditVars
  PROVE  /\ Decided' = Decided
         /\ \A r \in Callers : MobileEntries(r)' = MobileEntries(r)
BY DEF auditVars, Decided, MobileEntries

\* Rows written for a rule or a timeout are no mobile verdicts.
LEMMA ForeignAudit ==
  ASSUME NEW e, e.source # "mobile", Decided' = Decided \union {e}
  PROVE  \A r \in Callers : MobileEntries(r)' = MobileEntries(r)
BY DEF MobileEntries

\* A rule granted once stays so: no row is ever taken back.
LEMMA GrantsStay ==
  ASSUME Decided \subseteq Decided', NEW rule, Granted(rule)
  PROVE  Granted(rule)'
BY DEF Granted

\* What a device carries stays so while nobody touches that request.
LEMMA CarriedFrame ==
  ASSUME NEW d \in Devices, Carried(d), NEW q, q = deciding[d].req,
         deciding'[d] = deciding[d], cmd'[q] = cmd[q],
         MobileEntries(q)' = MobileEntries(q), q \notin pending',
         reply'[q] = None
  PROVE  Carried(d)'
BY DEF Carried, MobileEntries

\* An answer keeps its audit row while the request is not touched.
LEMMA AnsweredFrame ==
  ASSUME NEW r \in Callers, Answered(r), cmd'[r] = cmd[r],
         MobileEntries(r)' = MobileEntries(r), r \notin pending',
         r \in prompted', reply'[r] = reply[r]
  PROVE  Answered(r)'
BY DEF Answered, MobileEntries

\* The steps of a caller: they write no mobile row, claim nothing and answer
\* nobody.
LEMMA CallerFrame ==
  ASSUME Typed, Places, NEW r \in Callers,
         \A s \in Callers : MobileEntries(s)' = MobileEntries(s),
         deciding' = deciding,
         \A s \in Callers : s # r => cmd'[s] = cmd[s],
         cmd'[r] = cmd[r] \/ Unregistered(r),
         pending' \subseteq pending \/
           (pending' = pending \union {r} /\ Unregistered(r)),
         prompted \subseteq prompted',
         \A s \in Callers : reply'[s] \in {reply[s], None}
  PROVE  DevicesCarry' /\ AnswersAreAudited'
<1> USE NoneAssumption DEF Typed, TypeOK, Places
<1>1. ASSUME NEW d \in Devices, deciding'[d] # Idle PROVE Carried(d)'
  <2> DEFINE q == deciding[d].req
  <2>1. Carried(d) /\ q \in Callers /\ q \in prompted
    BY <1>1 DEF DevicesCarry, Deciding, Submitted
  <2>2. q \notin pending' /\ reply'[q] = None /\ cmd'[q] = cmd[q]
    BY <2>1 DEF Carried, Unregistered
  <2> QED BY <2>1, <2>2, CarriedFrame
<1>2. ASSUME NEW s \in Callers, reply'[s] # None PROVE Answered(s)'
  <2>1. Answered(s) /\ reply'[s] = reply[s]
    BY <1>2 DEF AnswersAreAudited
  <2>2. s \notin pending' /\ s \in prompted' /\ cmd'[s] = cmd[s]
    BY <2>1 DEF Answered, Unregistered
  <2> QED BY <2>1, <2>2, AnsweredFrame
<1> QED BY <1>1, <1>2 DEF DevicesCarry, AnswersAreAudited

\* What one caller was told stands while only others return.
LEMMA VerdictStands ==
  ASSUME NEW r \in Callers, ToldWhatWasDecided(r), Decided \subseteq Decided',
         outcome'[r] = outcome[r],
         outcome[r] # None => cmd'[r] = cmd[r] /\ match'[r] = match[r],
         \A e \in Decided' :
           e \in Decided \/ e.req # r \/ e.source # "timeout"
  PROVE  ToldWhatWasDecided(r)'
<1> USE NoneAssumption DEF ToldWhatWasDecided
<1>1. MobileEntries(r) \subseteq MobileEntries(r)'
  BY DEF MobileEntries
<1>2. CASE outcome[r] = None
  BY <1>2
<1>3. CASE outcome[r] # None
  <2>1. outcome'[r] = outcome[r] /\ cmd'[r] = cmd[r] /\ match'[r] = match[r]
    BY <1>3
  <2>2. outcome[r] = "approve" =>
          \E e \in Decided' :
            /\ e.req = r /\ e.command = cmd[r] /\ e.decision = "approved"
            /\ IF match[r] = None THEN e.source = "mobile"
               ELSE e.source = "rule" /\ e.until = match[r].rule.expires
    OBVIOUS
  <2>3. outcome[r] = "deny" =>
          \E e \in MobileEntries(r)' :
            e.command = cmd[r] /\ e.decision = "denied"
    BY <1>1
  <2>4. outcome[r] \in {"approve", "deny", "cancelled"} =>
          \A e \in Decided' : e.req = r => e.source # "timeout"
    OBVIOUS
  <2> QED BY <2>1, <2>2, <2>3, <2>4
<1> QED BY <1>2, <1>3

\* Verdicts stand while no caller returns and no timeout is recorded.
LEMMA VerdictsStand ==
  ASSUME VerdictIsAudited, Decided \subseteq Decided', outcome' = outcome,
         \A s \in Callers : outcome[s] # None =>
                             cmd'[s] = cmd[s] /\ match'[s] = match[s],
         \A e \in Decided' : e \in Decided \/ e.source # "timeout"
  PROVE  VerdictIsAudited'
<1> SUFFICES ASSUME NEW r \in Callers
             PROVE  ToldWhatWasDecided(r)'
  BY DEF VerdictIsAudited
<1>1. ToldWhatWasDecided(r)
  BY DEF VerdictIsAudited
<1> QED BY <1>1, VerdictStands

\* Rules and their copies stand while no rule is added and none is matched.
LEMMA GrantsStand ==
  ASSUME RulesWereGranted, Decided \subseteq Decided', rules' \subseteq rules,
         match' = match,
         \A s \in Callers : match[s] # None => cmd'[s] = cmd[s]
  PROVE  RulesWereGranted'
<1>1. \A any : Granted(any) => Granted(any)'
  BY GrantsStay
<1> QED BY <1>1 DEF RulesWereGranted

LEMMA MatchRuleInd ==
  ASSUME IndInv, Typed', NEW r \in Callers, NEW c \in Commands,
         MatchRule(r, c)
  PROVE  IndInv'
<1> USE NoneAssumption DEF IndInv, Typed, TypeOK, Places
<1>1. PICK rule \in MatchingRules(c) :
         match' = [match EXCEPT ![r] = [rule |-> rule, at |-> now]]
  BY DEF MatchRule
<1>2. /\ Decided' = Decided
      /\ \A s \in Callers : MobileEntries(s)' = MobileEntries(s)
  BY QuietAudit DEF MatchRule
<1>3. Unregistered(r) /\ outcome[r] = None
  BY DEF MatchRule, UnknownBeforeRegister, OutcomeIsLast
<1>4. DevicesCarry' /\ AnswersAreAudited'
  <2> HIDE DEF Places
  <2> QED BY <1>2, <1>3, CallerFrame DEF MatchRule
<1>5. UnknownBeforeRegister'
  BY <1>2 DEF MatchRule, UnknownBeforeRegister, Unregistered
<1>6. UnpromptedBeforeAnnounce' /\ PendingIsLive' /\ OutcomeIsLast'
  BY <1>3 DEF MatchRule, UnpromptedBeforeAnnounce, PendingIsLive,
     OutcomeIsLast, Unregistered
<1>7. MatchedDoNotAsk' /\ TimeoutsReturn'
  <2>1. pc' = [pc EXCEPT ![r] = "matched"] /\ outcome' = outcome
        /\ pc[r] = "idle"
    BY DEF MatchRule
  <2>2. MatchedDoNotAsk'
    BY <1>1, <2>1 DEF MatchedDoNotAsk
  <2>3. \A e \in Decided : e.req \in Callers
    BY DEF Decided, AuditEntry
  <2>4. TimeoutsReturn'
    BY <1>2, <2>1, <2>3 DEF TimeoutsReturn
  <2> QED BY <2>2, <2>4
<1>8. OneMobileVerdict'
  BY <1>2 DEF MatchRule, OneMobileVerdict
<1>9. VerdictIsAudited'
  <2>1. /\ outcome' = outcome
        /\ \A s \in Callers : s # r => cmd'[s] = cmd[s] /\ match'[s] = match[s]
    BY <1>1 DEF MatchRule
  <2> QED BY <1>2, <1>3, <2>1, VerdictsStand
<1>10. NoStrandedCaller'
  BY <1>3 DEF MatchRule, NoStrandedCaller, Unregistered
<1>11. RulesWereGranted'
  <2>1. rule \in rules /\ rule.command = c /\ now < rule.expires
    BY DEF MatchingRules, LiveRules
  <2>2. rules' \subseteq rules
    BY DEF MatchRule, LiveRules
  <2>3. \A s \in Callers : match'[s] # None =>
          /\ Granted(match'[s].rule)
          /\ match'[s].rule.command = cmd'[s]
          /\ match'[s].at < match'[s].rule.expires
    <3> SUFFICES ASSUME NEW s \in Callers, match'[s] # None
                 PROVE  /\ Granted(match'[s].rule)
                        /\ match'[s].rule.command = cmd'[s]
                        /\ match'[s].at < match'[s].rule.expires
      OBVIOUS
    <3>1. CASE s = r
      <4>1. match'[s] = [rule |-> rule, at |-> now] /\ cmd'[s] = c
        BY <1>1, <3>1 DEF MatchRule
      <4> QED BY <2>1, <4>1 DEF RulesWereGranted
    <3>2. CASE s # r
      <4>1. match'[s] = match[s] /\ cmd'[s] = cmd[s]
        BY <1>1, <3>2 DEF MatchRule
      <4> QED BY <4>1 DEF RulesWereGranted
    <3> QED BY <3>1, <3>2
  <2>4. \A any : Granted(any) => Granted(any)'
    BY <1>2, GrantsStay
  <2> QED BY <2>2, <2>3, <2>4 DEF RulesWereGranted
<1> QED BY <1>4, <1>5, <1>6, <1>7, <1>8, <1>9, <1>10, <1>11

\* The row of an auto-approval is of the rule the caller goes on with.
LEMMA AutoApproveInd ==
  ASSUME IndInv, Typed', NEW r \in Callers, AutoApprove(r)
  PROVE  IndInv'
<1> USE NoneAssumption DEF IndInv, Typed, TypeOK, Places
<1> DEFINE row == [req |-> r, command |-> cmd[r], decision |-> "approved",
                   source |-> "rule", device |-> match[r].rule.device,
                   until |-> match[r].rule.expires]
<1>1. Decided' = Decided \union {row}
  BY RecordAuditDecides DEF AutoApprove
<1>2. \A s \in Callers : MobileEntries(s)' = MobileEntries(s)
  BY <1>1, ForeignAudit
<1>3. /\ pc[r] = "matched" /\ match[r] \in Match /\ match[r] # None
      /\ outcome[r] = None
  <2>1. pc[r] = "matched" /\ match[r] \in Match
    BY DEF AutoApprove
  <2>2. match[r] # None
    BY <2>1, NoneIsNoMatch
  <2> QED BY <2>1, <2>2 DEF OutcomeIsLast
<1>4. /\ pc' = [pc EXCEPT ![r] = "done"]
      /\ outcome' = [outcome EXCEPT ![r] = "approve"]
      /\ UNCHANGED <<now, cmd, match, deadline, pending, rules, reply, prompted,
                     deciding, chat>>
  BY DEF AutoApprove
<1>5. Unregistered(r)
  BY <1>3 DEF UnknownBeforeRegister
<1>6. DevicesCarry' /\ AnswersAreAudited'
  <2> HIDE DEF Places
  <2> QED BY <1>2, <1>4, CallerFrame
<1>7. UnknownBeforeRegister'
  BY <1>2, <1>4 DEF UnknownBeforeRegister, Unregistered
<1>8. UnpromptedBeforeAnnounce' /\ PendingIsLive' /\ OutcomeIsLast'
      /\ MatchedDoNotAsk'
  BY <1>4, <1>5 DEF UnpromptedBeforeAnnounce, PendingIsLive, OutcomeIsLast,
     Unregistered, MatchedDoNotAsk
<1>9. \A e \in Decided : e.req \in Callers
  BY DEF Decided, AuditEntry
<1>10. TimeoutsReturn'
  <2>1. \A e \in Decided : e.source = "timeout" => e.req # r
    BY <1>3 DEF TimeoutsReturn
  <2> QED BY <1>1, <1>4, <1>9, <2>1 DEF TimeoutsReturn
<1>11. OneMobileVerdict'
  BY <1>2, <1>4 DEF OneMobileVerdict
<1>12. VerdictIsAudited'
  <2>1. row \in Decided' /\ row.req = r /\ row.command = cmd[r]
        /\ row.decision = "approved" /\ row.source = "rule"
        /\ row.until = match[r].rule.expires
    BY <1>1
  <2>2. \A e \in Decided : e.req = r => e.source # "timeout"
    BY <1>3 DEF TimeoutsReturn
  <2>3. \A e \in Decided' : e.req = r => e.source # "timeout"
    BY <1>1, <2>1, <2>2
  <2>4. ToldWhatWasDecided(r)'
    BY <1>3, <1>4, <2>1, <2>3 DEF ToldWhatWasDecided
  <2>5. \A s \in Callers : s # r => ToldWhatWasDecided(s)'
    <3> SUFFICES ASSUME NEW s \in Callers, s # r
                 PROVE  ToldWhatWasDecided(s)'
      OBVIOUS
    <3>1. ToldWhatWasDecided(s)
      BY DEF VerdictIsAudited
    <3> QED BY <1>1, <1>4, <2>1, <3>1, VerdictStands
  <2> QED BY <2>4, <2>5 DEF VerdictIsAudited
<1>13. NoStrandedCaller'
  BY <1>4 DEF NoStrandedCaller
<1>14. RulesWereGranted'
  <2>1. \A any : Granted(any) => Granted(any)'
    BY <1>1, GrantsStay
  <2> QED BY <1>4, <2>1 DEF RulesWereGranted
<1> QED BY <1>6, <1>7, <1>8, <1>10, <1>11, <1>12, <1>13, <1>14

LEMMA SubmitInd ==
  ASSUME IndInv, Typed', NEW r \in Callers, NEW c \in Commands, Submit(r, c)
  PROVE  IndInv'
<1> USE NoneAssumption DEF IndInv, Typed, TypeOK, Places
<1>1. /\ Decided' = Decided
      /\ \A s \in Callers : MobileEntries(s)' = MobileEntries(s)
  BY QuietAudit DEF Submit
<1>2. Unregistered(r)
  BY DEF Submit, UnknownBeforeRegister
<1>3. DevicesCarry' /\ AnswersAreAudited'
  <2> HIDE DEF Places
  <2> QED BY <1>1, <1>2, CallerFrame DEF Submit
<1>4. UnknownBeforeRegister'
  BY <1>1, <1>2 DEF Submit, UnknownBeforeRegister, Unregistered
<1>5. UnpromptedBeforeAnnounce' /\ PendingIsLive' /\ OutcomeIsLast'
  BY <1>2 DEF Submit, UnpromptedBeforeAnnounce, PendingIsLive, OutcomeIsLast,
     Unregistered
<1>6. OneMobileVerdict'
  BY <1>1 DEF Submit, OneMobileVerdict
<1>7. /\ outcome[r] = None /\ outcome' = outcome
      /\ match[r] = None /\ match' = match
      /\ cmd' = [cmd EXCEPT ![r] = c]
      /\ pc[r] = "idle" /\ pc' = [pc EXCEPT ![r] = "register"]
  BY DEF Submit, OutcomeIsLast, MatchedDoNotAsk
<1>8. VerdictIsAudited'
  BY <1>1, <1>7, VerdictsStand
<1>9. NoStrandedCaller'
  BY <1>2 DEF Submit, NoStrandedCaller, Unregistered
<1>10. RulesWereGranted'
  BY <1>1, <1>7, GrantsStand DEF Submit, LiveRules
<1>11. MatchedDoNotAsk'
  BY <1>7 DEF MatchedDoNotAsk
<1>12. TimeoutsReturn'
  <2>1. \A e \in Decided : e.req \in Callers
    BY DEF Decided, AuditEntry
  <2> QED BY <1>1, <1>7, <2>1 DEF TimeoutsReturn
<1> QED BY <1>3, <1>4, <1>5, <1>6, <1>8, <1>9, <1>10, <1>11, <1>12

\* The steps of a caller that asks the devices.
AskStep(r) ==
  \/ Register(r) \/ Announce(r) \/ ProjectPending(r)
  \/ Receive(r) \/ Expire(r) \/ ReturnTimeout(r) \/ Abandon(r)

LEMMA AskStepInd ==
  ASSUME IndInv, Typed', NEW r \in Callers, AskStep(r)
  PROVE  IndInv'
<1> USE NoneAssumption DEF IndInv, Typed, TypeOK
<1>1. \A s \in Callers : MobileEntries(s)' = MobileEntries(s)
  <2>1. CASE Expire(r)
    <3> DEFINE row == [req |-> r, command |-> cmd[r], decision |-> "denied",
                       source |-> "timeout", device |-> None,
                       until |-> None]
    <3>1. Decided' = Decided \union {row} /\ row.source # "mobile"
      BY <2>1, RecordAuditDecides DEF Expire
    <3> QED BY <3>1, ForeignAudit
  <2>2. CASE UNCHANGED auditVars
    BY <2>2, QuietAudit
  <2> QED
    BY <2>1, <2>2 DEF AskStep, Register, Announce, ProjectPending, Receive,
       ReturnTimeout, Abandon
<1>2. /\ Decided \subseteq Decided' /\ match' = match
      /\ rules' = rules /\ deciding' = deciding /\ cmd' = cmd
  <2>1. Decided \subseteq Decided'
    BY RecordAuditDecides DEF AskStep, Register, Announce, ProjectPending,
       Receive, Expire, ReturnTimeout, Abandon, auditVars, Decided
  <2> QED BY <2>1 DEF AskStep, Register, Announce, ProjectPending, Receive,
             Expire, ReturnTimeout, Abandon
<1>3. RulesWereGranted'
  BY <1>2, GrantsStand
<1>0. \A e \in Decided : e.req \in Callers
  BY DEF Decided, AuditEntry
<1>12. ASSUME ToldWhatWasDecided(r)',
              pc[r] # "matched", pc[r] # "idle",
              \A t \in Callers : t # r => pc'[t] = pc[t] /\ outcome'[t] = outcome[t],
              \A e \in Decided' : e \in Decided \/ e.req = r,
              \A e \in Decided' : e.req = r /\ e.source = "timeout" =>
                pc'[r] = "expired" \/ outcome'[r] = "timeout"
       PROVE  VerdictIsAudited' /\ MatchedDoNotAsk' /\ TimeoutsReturn'
  <2>1. VerdictIsAudited'
    <3> SUFFICES ASSUME NEW s \in Callers, s # r
                 PROVE  ToldWhatWasDecided(s)'
      BY <1>12 DEF VerdictIsAudited
    <3>1. ToldWhatWasDecided(s)
      BY DEF VerdictIsAudited
    <3> QED BY <1>2, <1>12, <3>1, VerdictStands
  <2>2. match[r] = None \/ pc[r] = "done"
    BY <1>12 DEF Places, MatchedDoNotAsk
  <2>3. pc[r] # "done"
    BY DEF AskStep, Register, Announce, ProjectPending, Receive, Expire,
       ReturnTimeout, Abandon
  <2>4. MatchedDoNotAsk'
    BY <1>2, <1>12, <2>2, <2>3 DEF Places, MatchedDoNotAsk
  <2>5. TimeoutsReturn'
    <3> SUFFICES ASSUME NEW e \in Decided', e.source = "timeout"
                 PROVE  pc'[e.req] = "expired" \/ outcome'[e.req] = "timeout"
      BY DEF TimeoutsReturn
    <3>1. CASE e.req = r
      BY <1>12, <3>1
    <3>2. CASE e.req # r
      <4>1. e \in Decided /\ e.req \in Callers
        BY <1>0, <1>12, <3>2
      <4> QED BY <1>12, <3>2, <4>1 DEF Places, TimeoutsReturn
    <3> QED BY <3>1, <3>2
  <2> QED BY <2>1, <2>4, <2>5
\* A step that records nothing and returns nothing.
<1>13. ASSUME UNCHANGED auditVars, outcome' = outcome,
              pc[r] \in {"register", "announce", "project"},
              \A t \in Callers : t # r => pc'[t] = pc[t]
       PROVE  VerdictIsAudited' /\ MatchedDoNotAsk' /\ TimeoutsReturn'
  <2>1. Decided' = Decided
    BY <1>13, QuietAudit
  <2>2. outcome[r] = None
    BY <1>13 DEF Places, OutcomeIsLast
  <2>3. ToldWhatWasDecided(r)'
    BY <1>13, <2>2 DEF ToldWhatWasDecided
  <2>4. \A e \in Decided : e.req = r => e.source # "timeout"
    BY <1>13, <2>2 DEF Places, TimeoutsReturn
  <2> QED BY <1>12, <1>13, <2>1, <2>3, <2>4
<1>4. CASE Register(r)
  <2>1. Unregistered(r)
    BY <1>4 DEF Register, Places, UnknownBeforeRegister
  <2>2. \A d \in Devices : deciding[d].req # r
    BY <2>1 DEF Unregistered, Submitted, Idle
  <2>3. DevicesCarry' /\ AnswersAreAudited'
    BY <1>1, <1>2, <1>4, <2>1, CallerFrame DEF Register
  <2>4. UnknownBeforeRegister'
    BY <1>1, <1>4 DEF Register, Places, UnknownBeforeRegister, Unregistered
  <2>5. UnpromptedBeforeAnnounce' /\ PendingIsLive' /\ OutcomeIsLast'
    BY <1>4, <2>1 DEF Register, Places, UnpromptedBeforeAnnounce,
       PendingIsLive, OutcomeIsLast, Unregistered
  <2>6. OneMobileVerdict'
    BY <1>1, <1>4, <2>1, <2>2 DEF Register, OneMobileVerdict, Unregistered
  <2>7. NoStrandedCaller'
    BY <1>4 DEF Register, NoStrandedCaller
  <2>9. VerdictIsAudited' /\ MatchedDoNotAsk' /\ TimeoutsReturn'
    BY <1>13, <1>4 DEF Register
  <2> QED BY <1>3, <2>3, <2>4, <2>5, <2>6, <2>7, <2>9 DEF Places
<1>5. ASSUME pending' \subseteq pending,
             prompted \subseteq prompted',
             \A s \in Callers : reply'[s] \in {reply[s], None}
      PROVE  /\ DevicesCarry' /\ AnswersAreAudited'
             /\ OneMobileVerdict'
  <2>1. DevicesCarry' /\ AnswersAreAudited'
    BY <1>1, <1>2, <1>5, CallerFrame
  <2>2. OneMobileVerdict'
    BY <1>1, <1>2, <1>5 DEF OneMobileVerdict
  <2> QED BY <2>1, <2>2
<1>6. CASE Announce(r)
  <2>1. UnknownBeforeRegister'
    BY <1>1, <1>6 DEF Announce, Places, UnknownBeforeRegister, Unregistered
  <2>2. UnpromptedBeforeAnnounce' /\ PendingIsLive' /\ OutcomeIsLast'
    BY <1>6 DEF Announce, Places, UnpromptedBeforeAnnounce, PendingIsLive,
       OutcomeIsLast
  <2>3. NoStrandedCaller'
    BY <1>6 DEF Announce, NoStrandedCaller
  <2>9. VerdictIsAudited' /\ MatchedDoNotAsk' /\ TimeoutsReturn'
    BY <1>13, <1>6 DEF Announce
  <2> QED BY <1>3, <1>5, <1>6, <2>1, <2>2, <2>3, <2>9 DEF Announce, Places
<1>7. CASE ProjectPending(r)
  <2>1. UnknownBeforeRegister'
    BY <1>1, <1>7 DEF ProjectPending, Places, UnknownBeforeRegister,
       Unregistered
  <2>2. UnpromptedBeforeAnnounce' /\ PendingIsLive' /\ OutcomeIsLast'
    BY <1>7 DEF ProjectPending, Places, UnpromptedBeforeAnnounce,
       PendingIsLive, OutcomeIsLast
  <2>3. NoStrandedCaller'
    BY <1>7 DEF ProjectPending, NoStrandedCaller
  <2>9. VerdictIsAudited' /\ MatchedDoNotAsk' /\ TimeoutsReturn'
    BY <1>13, <1>7 DEF ProjectPending
  <2> QED BY <1>3, <1>5, <1>7, <2>1, <2>2, <2>3, <2>9 DEF ProjectPending, Places
<1>8. CASE Receive(r)
  <2>1. UnknownBeforeRegister'
    BY <1>1, <1>8 DEF Receive, Places, UnknownBeforeRegister, Unregistered
  <2>2. UnpromptedBeforeAnnounce' /\ PendingIsLive' /\ OutcomeIsLast'
    BY <1>8 DEF Receive, Places, UnpromptedBeforeAnnounce, PendingIsLive,
       OutcomeIsLast
  <2>3. PICK e \in MobileEntries(r) :
           e.command = cmd[r] /\ e.decision = Audited(reply[r])
    BY <1>8 DEF Receive, Places, AnswersAreAudited, Answered
  <2>4. VerdictIsAudited' /\ MatchedDoNotAsk' /\ TimeoutsReturn'
    <3>1. /\ pc[r] = "waiting" /\ pc' = [pc EXCEPT ![r] = "done"]
          /\ outcome' = [outcome EXCEPT ![r] = reply[r]]
          /\ reply[r] \in Verdicts
      BY <1>8 DEF Receive
    <3>2. Decided' = Decided
      BY <1>8, QuietAudit DEF Receive
    <3>3. outcome[r] = None /\ match[r] = None
      BY <3>1 DEF Places, OutcomeIsLast, MatchedDoNotAsk
    <3>4. \A any \in Decided : any.req = r => any.source # "timeout"
      BY <3>1, <3>3 DEF Places, TimeoutsReturn
    <3>5. e \in Decided /\ e.req = r /\ e.source = "mobile"
      BY <2>3 DEF MobileEntries
    <3>6. e \in MobileEntries(r)'
      BY <1>1, <2>3
    <3>7. ToldWhatWasDecided(r)'
      BY <1>2, <2>3, <3>1, <3>2, <3>3, <3>4, <3>5, <3>6
         DEF ToldWhatWasDecided, Audited, Verdicts
    <3> QED BY <1>12, <3>1, <3>2, <3>4, <3>7
  <2>5. NoStrandedCaller'
    BY <1>8 DEF Receive, NoStrandedCaller
  <2>6. \A s \in Callers : reply'[s] \in {reply[s], None}
    BY <1>8 DEF Receive
  <2> QED BY <1>3, <1>5, <1>8, <2>1, <2>2, <2>4, <2>5, <2>6
          DEF Receive, Places
<1>9. CASE Expire(r)
  <2>1. UnknownBeforeRegister'
    BY <1>1, <1>9 DEF Expire, Places, UnknownBeforeRegister, Unregistered
  <2>2. UnpromptedBeforeAnnounce' /\ PendingIsLive' /\ OutcomeIsLast'
    BY <1>9 DEF Expire, Places, UnpromptedBeforeAnnounce, PendingIsLive,
       OutcomeIsLast
  <2>3. VerdictIsAudited' /\ MatchedDoNotAsk' /\ TimeoutsReturn'
    <3> DEFINE row == [req |-> r, command |-> cmd[r], decision |-> "denied",
                       source |-> "timeout", device |-> None,
                       until |-> None]
    <3>1. /\ pc[r] = "waiting" /\ pc' = [pc EXCEPT ![r] = "expired"]
          /\ outcome' = outcome /\ Decided' = Decided \union {row}
      BY <1>9, RecordAuditDecides DEF Expire
    <3>2. outcome[r] = None
      BY <3>1 DEF Places, OutcomeIsLast
    <3>3. ToldWhatWasDecided(r)'
      BY <3>1, <3>2 DEF ToldWhatWasDecided
    <3>4. row.req = r
      OBVIOUS
    <3> HIDE DEF row
    <3> QED BY <1>12, <3>1, <3>3, <3>4
  <2>4. NoStrandedCaller'
    BY <1>9 DEF Expire, NoStrandedCaller
  <2> QED BY <1>3, <1>5, <1>9, <2>1, <2>2, <2>3, <2>4 DEF Expire, Places
<1>10. CASE ReturnTimeout(r)
  <2>1. UnknownBeforeRegister'
    BY <1>1, <1>10 DEF ReturnTimeout, Places, UnknownBeforeRegister,
       Unregistered
  <2>2. UnpromptedBeforeAnnounce' /\ PendingIsLive' /\ OutcomeIsLast'
    BY <1>10 DEF ReturnTimeout, Places, UnpromptedBeforeAnnounce,
       PendingIsLive, OutcomeIsLast
  <2>3. NoStrandedCaller'
    BY <1>10 DEF ReturnTimeout, NoStrandedCaller
  <2>4. VerdictIsAudited' /\ MatchedDoNotAsk' /\ TimeoutsReturn'
    <3>1. /\ pc[r] = "expired" /\ pc' = [pc EXCEPT ![r] = "done"]
          /\ outcome' = [outcome EXCEPT ![r] = "timeout"]
      BY <1>10 DEF ReturnTimeout
    <3>2. Decided' = Decided
      BY <1>10, QuietAudit DEF ReturnTimeout
    <3>3. ToldWhatWasDecided(r)'
      BY <3>1 DEF ToldWhatWasDecided
    <3> QED BY <1>12, <3>1, <3>2, <3>3
  <2> QED BY <1>3, <1>5, <1>10, <2>1, <2>2, <2>3, <2>4 DEF ReturnTimeout, Places
<1>11. CASE Abandon(r)
  <2>1. UnknownBeforeRegister'
    BY <1>1, <1>11 DEF Abandon, Places, UnknownBeforeRegister, Unregistered
  <2>2. UnpromptedBeforeAnnounce' /\ PendingIsLive' /\ OutcomeIsLast'
    BY <1>11 DEF Abandon, Places, UnpromptedBeforeAnnounce, PendingIsLive,
       OutcomeIsLast
  <2>3. NoStrandedCaller'
    BY <1>11 DEF Abandon, NoStrandedCaller
  <2>4. VerdictIsAudited' /\ MatchedDoNotAsk' /\ TimeoutsReturn'
    <3>1. /\ pc[r] = "waiting" /\ pc' = [pc EXCEPT ![r] = "done"]
          /\ outcome' = [outcome EXCEPT ![r] = "cancelled"]
      BY <1>11 DEF Abandon
    <3>2. Decided' = Decided
      BY <1>11, QuietAudit DEF Abandon
    <3>3. outcome[r] = None
      BY <3>1 DEF Places, OutcomeIsLast
    <3>4. \A any \in Decided : any.req = r => any.source # "timeout"
      BY <3>1, <3>3 DEF Places, TimeoutsReturn
    <3>5. ToldWhatWasDecided(r)'
      BY <3>1, <3>2, <3>4 DEF ToldWhatWasDecided
    <3> QED BY <1>12, <3>1, <3>2, <3>4, <3>5
  <2> QED BY <1>3, <1>5, <1>11, <2>1, <2>2, <2>3, <2>4 DEF Abandon, Places
<1> QED BY <1>4, <1>6, <1>7, <1>8, <1>9, <1>10, <1>11 DEF AskStep

LEMMA CallerStepInd ==
  ASSUME IndInv, Typed', NEW r \in Callers, CallerStep(r)
  PROVE  IndInv'
BY AutoApproveInd, AskStepInd DEF CallerStep, Proceed, AskStep

LEMMA ClaimInd ==
  ASSUME IndInv, Typed', NEW d \in Devices, NEW r \in Callers,
         NEW verdict \in Verdicts, NEW until \in Nat \union {None},
         Claim(d, r, verdict, until)
  PROVE  IndInv'
<1> USE NoneAssumption DEF IndInv, Typed, TypeOK, Verdicts
<1>1. /\ Decided' = Decided
      /\ \A s \in Callers : MobileEntries(s)' = MobileEntries(s)
  BY QuietAudit DEF Claim
<1>2. /\ MobileEntries(r) = {}
      /\ reply[r] = None
      /\ \A e \in Devices : deciding[e].req # r
  BY DEF Claim, OneMobileVerdict, Places, AnswersAreAudited, Answered
<1>3. /\ deciding'[d] = [stage |-> "record", req |-> r,
                         verdict |-> verdict, until |-> until]
      /\ \A e \in Devices : e # d => deciding'[e] = deciding[e]
      /\ cmd' = cmd /\ reply' = reply /\ pc' = pc /\ outcome' = outcome
      /\ pending' = pending \ {r}
  BY DEF Claim, callerVars
<1>4. DevicesCarry'
  <2> SUFFICES ASSUME NEW e \in Devices, deciding'[e] # Idle
               PROVE  Carried(e)'
    BY DEF DevicesCarry
  <2>1. CASE e = d
    <3>1. MobileEntries(r)' = {}
      BY <1>1, <1>2
    <3> QED BY <1>2, <1>3, <2>1, <3>1 DEF Carried
  <2>2. CASE e # d
    <3>1. Carried(e) /\ deciding[e].req \in Callers
      BY <1>3, <2>2 DEF Places, DevicesCarry, Deciding
    <3>2. deciding[e].req \notin pending' /\ reply'[deciding[e].req] = None
      BY <1>3, <3>1 DEF Carried
    <3> QED BY <1>1, <1>3, <2>2, <3>1, <3>2, CarriedFrame
  <2> QED BY <2>1, <2>2
<1>5. AnswersAreAudited'
  <2> SUFFICES ASSUME NEW s \in Callers, reply'[s] # None
               PROVE  Answered(s)'
    BY DEF AnswersAreAudited
  <2>1. Answered(s)
    BY <1>3 DEF Places, AnswersAreAudited
  <2>2. s \notin pending' /\ s \in prompted'
    BY <2>1 DEF Answered, Claim
  <2> QED BY <1>1, <1>3, <2>1, <2>2, AnsweredFrame
<1>6. UnknownBeforeRegister'
  BY <1>1, <1>3 DEF Claim, Places, UnknownBeforeRegister, Unregistered
<1>7. UnpromptedBeforeAnnounce' /\ PendingIsLive' /\ OutcomeIsLast'
  BY <1>3 DEF Claim, Places, UnpromptedBeforeAnnounce, PendingIsLive,
     OutcomeIsLast
<1>8. OneMobileVerdict'
  BY <1>1, <1>2, <1>3 DEF OneMobileVerdict
<1>9. VerdictIsAudited' /\ MatchedDoNotAsk' /\ TimeoutsReturn'
  <2>1. match' = match
    BY DEF Claim, callerVars
  <2> QED BY <1>1, <1>3, <2>1, VerdictsStand
          DEF Places, MatchedDoNotAsk, TimeoutsReturn
<1>10. NoStrandedCaller'
  <2>1. deciding'[d].req = r
    BY <1>3
  <2>2. \A e \in Devices : deciding[e].req \in Callers =>
                             deciding'[e].req = deciding[e].req
    BY <1>3 DEF Claim, Idle
  <2> QED BY <1>3, <2>1, <2>2 DEF Claim, NoStrandedCaller
<1>11. RulesWereGranted'
  BY <1>1, <1>3, GrantsStand DEF Claim, callerVars
<1> QED BY <1>4, <1>5, <1>6, <1>7, <1>8, <1>9, <1>10, <1>11 DEF Places

\* A device moves on with the decision it carries: only that request is
\* touched, and the device still carries it or has answered it.
LEMMA DeviceStepInd ==
  ASSUME IndInv, Typed', NEW d \in Devices, DeviceStep(d)
  PROVE  IndInv'
<1> USE NoneAssumption DEF IndInv, Typed, TypeOK, Verdicts
<1>1. deciding[d].stage # "idle"
  BY DEF DeviceStep, RecordDecision, ProjectDecision, GrantRule, Answer, Stage
<1>0. PICK q \in Callers : q = deciding[d].req
  BY <1>1, CarryingDevice
<1>2. /\ deciding[d] \in Deciding /\ deciding[d] # Idle
      /\ deciding[d].req = q
      /\ q \in Callers /\ q \in prompted /\ cmd[q] \in Commands
  BY <1>0, <1>1, CarryingDevice
<1> USE <1>0
<1>3. Carried(d)
  BY <1>2 DEF Places, DevicesCarry
<1>4. \A e \in Devices : e # d => deciding[e].req # q
  BY <1>2 DEF OneMobileVerdict
<1>5. /\ pc' = pc /\ cmd' = cmd /\ outcome' = outcome
      /\ pending' = pending /\ prompted' = prompted
      /\ \A e \in Devices : e # d => deciding'[e] = deciding[e]
      /\ \A s \in Callers : s # q => reply'[s] = reply[s]
  BY DEF DeviceStep, RecordDecision, ProjectDecision, GrantRule, Answer,
     Stage, callerVars
<1>6. /\ Decided \subseteq Decided' /\ match' = match
      /\ \A e \in Decided' : e \in Decided \/ e.source # "timeout"
  <2>1. CASE RecordDecision(d)
    <3> DEFINE new == [req |-> q, command |-> cmd[q],
                       decision |-> Audited(deciding[d].verdict),
                       source |-> "mobile", device |-> d,
                       until |-> deciding[d].until]
    <3>1. Decided' = Decided \union {new} /\ new.source # "timeout"
      BY <2>1, RecordAuditDecides DEF RecordDecision
    <3> QED BY <2>1, <3>1 DEF RecordDecision, callerVars
  <2>2. CASE UNCHANGED auditVars /\ match' = match
    BY <2>2, QuietAudit
  <2> QED BY <2>1, <2>2 DEF DeviceStep, ProjectDecision, GrantRule, Answer,
             callerVars
<1>7. \A s \in Callers : s # q => MobileEntries(s)' = MobileEntries(s)
  <2>1. CASE RecordDecision(d)
    BY <2>1, RecordAuditDecides DEF RecordDecision, MobileEntries
  <2>2. CASE UNCHANGED auditVars
    BY <2>2, QuietAudit
  <2> QED BY <2>1, <2>2 DEF DeviceStep, ProjectDecision, GrantRule, Answer
<1>8. q \notin pending /\ reply[q] = None
  BY <1>3 DEF Carried
<1>9. pc[q] \in {"project", "waiting", "expired", "done"}
  BY <1>2 DEF Places, UnknownBeforeRegister, UnpromptedBeforeAnnounce,
     Unregistered
<1>10. \A e \in Devices : e # d /\ deciding'[e] # Idle => Carried(e)'
  <2> SUFFICES ASSUME NEW e \in Devices, e # d, deciding'[e] # Idle
               PROVE  Carried(e)'
    OBVIOUS
  <2>1. Carried(e) /\ deciding[e].req \in Callers /\ deciding[e].req # q
    BY <1>4, <1>5 DEF Places, DevicesCarry, Deciding
  <2>2. /\ deciding[e].req \notin pending'
        /\ reply'[deciding[e].req] = None
    BY <1>5, <2>1 DEF Carried
  <2> QED BY <1>5, <1>7, <2>1, <2>2, CarriedFrame
<1>11. \A s \in Callers : s # q /\ reply'[s] # None => Answered(s)'
  <2> SUFFICES ASSUME NEW s \in Callers, s # q, reply'[s] # None
               PROVE  Answered(s)'
    OBVIOUS
  <2>1. Answered(s)
    BY <1>5 DEF Places, AnswersAreAudited
  <2>2. s \notin pending' /\ s \in prompted'
    BY <1>5, <2>1 DEF Answered
  <2> QED BY <1>5, <1>7, <2>1, <2>2, AnsweredFrame
<1>12. UnknownBeforeRegister'
  BY <1>5, <1>7, <1>9 DEF Places, UnknownBeforeRegister, Unregistered
<1>13. UnpromptedBeforeAnnounce' /\ PendingIsLive' /\ OutcomeIsLast'
  BY <1>5 DEF Places, UnpromptedBeforeAnnounce, PendingIsLive, OutcomeIsLast
<1>14. VerdictIsAudited' /\ MatchedDoNotAsk' /\ TimeoutsReturn'
  BY <1>5, <1>6, VerdictsStand DEF Places, MatchedDoNotAsk, TimeoutsReturn
<1>15. ASSUME NEW to \in {"project", "allow", "answer"},
              deciding' = [deciding EXCEPT ![d].stage = to],
              reply' = reply, Carried(d)', RulesWereGranted',
              \A e1, e2 \in MobileEntries(q)' : e1 = e2
       PROVE  IndInv'
  <2>1. deciding'[d].req = q
    BY <1>2, <1>15 DEF Deciding
  <2>2. DevicesCarry' /\ AnswersAreAudited'
    BY <1>8, <1>10, <1>11, <1>15 DEF DevicesCarry, AnswersAreAudited
  <2>3. \A e \in Devices : deciding'[e].req = deciding[e].req
    BY <1>5, <2>1
  <2>4. OneMobileVerdict'
    BY <1>5, <1>7, <1>8, <1>15, <2>3 DEF OneMobileVerdict
  <2>5. NoStrandedCaller'
    BY <1>5, <1>15, <2>3 DEF NoStrandedCaller
  <2> QED BY <1>12, <1>13, <1>14, <1>15, <2>2, <2>4, <2>5 DEF Places
<1>16. CASE RecordDecision(d)
  <2> DEFINE new == [req |-> q, command |-> cmd[q],
                     decision |-> Audited(deciding[d].verdict),
                     source |-> "mobile", device |-> d,
                     until |-> deciding[d].until]
  <2>1. Decided' = Decided \union {new} /\ deciding[d].stage = "record"
    BY <1>16, RecordAuditDecides DEF RecordDecision, Stage
  <2>2. MobileEntries(q) = {}
    BY <1>3, <2>1 DEF Carried
  <2>3. MobileEntries(q)' = {new}
    BY <2>1, <2>2 DEF MobileEntries
  <2>4. deciding' = [deciding EXCEPT ![d].stage = "project"]
    BY <1>16 DEF RecordDecision, Stage
  <2>5. deciding'[d] = [deciding[d] EXCEPT !.stage = "project"]
    BY <2>4
  <2>6. /\ deciding'[d].req = q /\ deciding'[d].stage = "project"
        /\ deciding'[d].verdict = deciding[d].verdict
        /\ deciding'[d].until = deciding[d].until
    BY <1>2, <2>5 DEF Deciding
  <2>7. new \in MobileEntries(q)'
    BY <2>3
  <2>8. reply' = reply
    BY <1>16 DEF RecordDecision
  <2>9. Carried(d)'
    BY <1>5, <1>8, <2>6, <2>7, <2>8 DEF Carried
  <2>10. RulesWereGranted'
    BY <1>5, <1>6, <1>16, GrantsStand DEF RecordDecision
  <2> QED BY <1>15, <2>3, <2>4, <2>8, <2>9, <2>10
<1>17. ASSUME NEW to \in {"allow", "answer"}, deciding[d].stage # "record",
              deciding' = [deciding EXCEPT ![d].stage = to],
              reply' = reply, UNCHANGED auditVars
       PROVE  /\ Carried(d)'
              /\ \A e1, e2 \in MobileEntries(q)' : e1 = e2
  <2>1. /\ deciding'[d].req = q /\ deciding'[d].stage # "record"
        /\ deciding'[d].verdict = deciding[d].verdict
        /\ deciding'[d].until = deciding[d].until
    BY <1>2, <1>17 DEF Deciding
  <2>2. MobileEntries(q)' = MobileEntries(q)
    BY <1>17, QuietAudit, <1>2
  <2>3. Carried(d)'
    BY <1>3, <1>5, <1>17, <2>1, <2>2 DEF Carried, MobileEntries
  <2> QED BY <1>2, <2>2, <2>3 DEF OneMobileVerdict
<1>18. CASE ProjectDecision(d)
  <2>1. RulesWereGranted'
    BY <1>5, <1>6, <1>18, GrantsStand DEF ProjectDecision
  <2> QED BY <1>15, <1>17, <1>18, <2>1 DEF ProjectDecision, Stage
<1>19. CASE GrantRule(d)
  <2>1. PICK e \in MobileEntries(q) :
           /\ e.command = cmd[q]
           /\ e.decision = Audited(deciding[d].verdict)
           /\ e.until = deciding[d].until /\ e.device = d
    BY <1>3, <1>19 DEF Carried, GrantRule, Stage
  <2>2. e \in Decided /\ e.source = "mobile"
    BY <2>1 DEF MobileEntries
  <2>3. deciding[d].verdict = "approve" => e.decision = "approved"
    BY <2>1 DEF Audited
  <2>4. RulesWereGranted'
    <3>1. CASE rules' = rules
      BY <1>5, <1>6, <3>1, GrantsStand
    <3>2. CASE /\ rules' = AddTemporaryAllow(cmd[q], deciding[d].until, d)
               /\ deciding[d].verdict = "approve"
      <4>1. PICK new : new = [command |-> cmd[q],
                              expires |-> deciding[d].until, device |-> d]
        OBVIOUS
      <4>2. rules' = {rule \in rules : rule.command # cmd[q]} \union {new}
        BY <3>2, <4>1 DEF AddTemporaryAllow
      <4>3. /\ new.command = cmd[q] /\ new.expires = deciding[d].until
            /\ new.device = d
        BY <4>1
      <4> HIDE <4>1
      <4>4. Granted(new)'
        BY <1>6, <2>1, <2>2, <2>3, <3>2, <4>3 DEF Granted
      <4>5. \A any : Granted(any) => Granted(any)'
        BY <1>6, GrantsStay
      <4>6. \A rule \in rules' : Granted(rule)'
        BY <4>2, <4>4, <4>5 DEF RulesWereGranted
      <4>7. \A rule, other \in rules' :
              rule.command = other.command => rule = other
        BY <4>2, <4>3 DEF RulesWereGranted
      <4> QED BY <1>5, <1>6, <4>5, <4>6, <4>7 DEF RulesWereGranted
    <3> QED BY <1>19, <3>1, <3>2 DEF GrantRule
  <2> QED BY <1>15, <1>17, <1>19, <2>4 DEF GrantRule, Stage
<1>20. CASE Answer(d)
  <2>1. deciding'[d] = Idle /\ reply'[q] = deciding[d].verdict
    BY <1>2, <1>20 DEF Answer
  <2>2. UNCHANGED auditVars /\ rules' = rules
    BY <1>20 DEF Answer
  <2>3. MobileEntries(q)' = MobileEntries(q)
    BY <1>2, <2>2, QuietAudit
  <2>4. \E e \in MobileEntries(q) :
          /\ e.command = cmd[q] /\ e.decision = Audited(deciding[d].verdict)
    BY <1>3, <1>20 DEF Carried, Answer
  <2>5. Answered(q)'
    BY <1>2, <1>5, <1>8, <2>1, <2>3, <2>4 DEF Answered, Audited
  <2>6. DevicesCarry' /\ AnswersAreAudited'
    BY <1>10, <1>11, <2>1, <2>5 DEF DevicesCarry, AnswersAreAudited
  <2>7. \A e \in Devices : deciding'[e].req # q
    BY <1>2, <1>4, <1>5, <2>1 DEF Idle
  <2>8. OneMobileVerdict'
    BY <1>2, <1>5, <1>7, <2>1, <2>3, <2>7, SMTT(30) DEF OneMobileVerdict, Idle
  <2>9. NoStrandedCaller'
    <3> SUFFICES ASSUME NEW s \in Callers,
                        s \in prompted \/
                          pc[s] \in {"announce", "project", "waiting"},
                        pc[s] \notin {"expired", "done"}
                 PROVE  \/ s \in pending'
                        \/ reply'[s] # None
                        \/ \E e \in Devices : deciding'[e].req = s
      BY <1>5 DEF NoStrandedCaller
    <3>1. CASE s = q
      BY <1>2, <2>1, <3>1 DEF Deciding
    <3>2. CASE s # q
      BY <1>5, <3>2 DEF NoStrandedCaller
    <3> QED BY <3>1, <3>2
  <2>10. RulesWereGranted'
    BY <1>5, <1>6, <2>2, GrantsStand
  <2> QED BY <1>12, <1>13, <1>14, <2>6, <2>8, <2>9, <2>10 DEF Places
<1> QED BY <1>16, <1>18, <1>19, <1>20 DEF DeviceStep

LEMMA StutterInd ==
  ASSUME IndInv, Typed', Tick \/ UNCHANGED vars
  PROVE  IndInv'
<1>1. UNCHANGED <<callerVars, pending, rules, reply, prompted, deciding,
                  auditVars, chat>>
  BY DEF Tick, vars
<1> QED
  BY <1>1 DEF callerVars, IndInv, Places, UnknownBeforeRegister,
     UnpromptedBeforeAnnounce, PendingIsLive, DevicesCarry, AnswersAreAudited,
     OutcomeIsLast, Unregistered, Carried, Answered, OneMobileVerdict,
     VerdictIsAudited, ToldWhatWasDecided, NoStrandedCaller,
     RulesWereGranted, Granted, MatchedDoNotAsk, TimeoutsReturn, Decided,
     auditVars, MobileEntries

LEMMA Inductive == Spec => []IndInv
<1>1. IndInv /\ Typed' /\ [Next]_vars => IndInv'
  <2>1. ASSUME IndInv, Typed', NEW d \in Devices, NEW r \in Callers,
               NEW m \in Replies, Claim(d, r, m[1], m[2])
        PROVE  IndInv'
    BY <2>1, ClaimInd, RepliesAssumption DEF Verdicts
  <2> QED BY <2>1, MatchRuleInd, SubmitInd, CallerStepInd, DeviceStepInd,
             StutterInd DEF Next
<1> QED BY InitInd, <1>1, TypedInvariant, PTL DEF Spec

\* At most one device's verdict is recorded for a request, and while one
\* device carries a request no other device does: the first response wins.
THEOREM FirstResponseWins == Spec => []OneMobileVerdict
BY Inductive, PTL DEF IndInv

\* No tool is told "approve" or "deny" without an audit row that says so.
THEOREM VerdictsAreAudited == Spec => []VerdictIsAudited
BY Inductive, PTL DEF IndInv

\* A blocked caller is always open, carried or answered.
THEOREM CallersAreNotStranded == Spec => []NoStrandedCaller
BY Inductive, PTL DEF IndInv

\* Every temporary rule goes back to a recorded approval of its command.
THEOREM RulesAreGranted == Spec => []RulesWereGranted
BY Inductive, PTL DEF IndInv
=============================================================================
