-------------------------- MODULE ReviewCardsProofs --------------------------
(***************************************************************************)
(* For any files, contents and requests: what is staged is what was        *)
(* decided, and a card on show is the change on disk.                      *)
(***************************************************************************)
EXTENDS ReviewCards, FiniteSetTheorems, TLAPS

-----------------------------------------------------------------------------
(* Types.                                                                  *)

DiffTable == [Files -> Patches \union {None}]

\* The calls and the scans that can be under way.
Decision == {"accept", "reject"}
Deciding == {"read", "applied", "failed", "committed", "archived"}

Calls ==
  {c \in [stage : ActStages, file : Files \union {None},
          patch : Patches \union {None},
          how : Decision \union {"committed", None}] :
     /\ c.stage # "idle" => /\ c.file \in Files /\ c.patch \in Patches
                            /\ c.how \in Decision \union {"committed"}
     /\ c.stage \in Deciding => c.how \in Decision}

Passages ==
  {c \in [stage : ScanStages, snap : DiffTable, todo : SUBSET Files,
          file : Files \union {None}] :
     c.stage \in {"forget", "remember"} => c.file \in Files}

Records == [patch : Patches, status : Decision \union {"committed"}]

TablesTyped ==
  /\ idx \in [Files -> Versions] /\ work \in [Files -> Versions]
  /\ card \in DiffTable /\ seen \in DiffTable /\ lastHash \in DiffTable
  /\ decided \in [Files -> Records \union {None}]
  /\ marking = None \/ marking \subseteq Files
  /\ recorded \in [Files -> Versions]
  /\ torn \subseteq Files /\ undone \subseteq Files

CountsTyped ==
  /\ edits \in 0..MaxEdits /\ calls \in 0..MaxCalls
  /\ failures \in 0..MaxFaults /\ boots \in 0..MaxFaults

CallsTyped == act \in [Requests -> Calls]
ScansTyped == scan \in [Scanners -> Passages]

\* Only one request at a time is in its transaction.
OneApplied ==
  \A p, q \in Requests : At(p, "applied") /\ At(q, "applied") => p = q

TypeInv ==
  TablesTyped /\ CountsTyped /\ CallsTyped /\ ScansTyped /\ OneApplied

LEMMA TypeInvGivesTypeOK == TypeInv => TypeOK
<1> SUFFICES ASSUME TypeInv PROVE TypeOK
  OBVIOUS
<1> DEFINE applied == {p \in Requests : act[p].stage = "applied"}
<1>1. Cardinality(applied) <= 1
  <2>1. CASE applied = {}
    BY <2>1, FS_EmptySet
  <2>2. ASSUME NEW p \in applied PROVE Cardinality(applied) <= 1
    <3>1. applied = {p}
      BY DEF TypeInv, OneApplied, At
    <3> HIDE DEF applied
    <3>2. Cardinality(applied) = 1
      BY <3>1, FS_Singleton, Zenon
    <3> QED
      BY <3>2
  <2> QED
    BY <2>1, <2>2
<1>2. \A p \in Requests :
        /\ act[p].stage \in ActStages
        /\ act[p].stage # "idle" => act[p].file \in Files
                                    /\ act[p].patch \in Patches
  BY DEF TypeInv, CallsTyped, Calls
<1>3. \A s \in Scanners :
        /\ scan[s].stage \in ScanStages
        /\ scan[s].snap \in DiffTable
        /\ scan[s].todo \subseteq Files
        /\ scan[s].file \in Files \union {None}
  BY DEF TypeInv, ScansTyped, Passages
<1>4. TablesTyped /\ CountsTyped
  BY DEF TypeInv
<1> HIDE DEF applied
<1> QED
  BY <1>1, <1>2, <1>3, <1>4
  DEF TypeOK, TablesTyped, CountsTyped, DiffTable, Records, Decision, applied

LEMMA DiffsTyped ==
  ASSUME TablesTyped PROVE Diffs \in DiffTable
BY DEF TablesTyped, Diffs, Diff, DiffTable, Patches

LEMMA NoDiffTyped == NoDiff \in DiffTable
BY DEF NoDiff, DiffTable

LEMMA IdleTyped ==
  /\ Idle \in Passages
  /\ \A snap \in DiffTable, todo \in SUBSET Files,
        stage \in {"idle", "list", "prune", "save"} :
       [Idle EXCEPT !.stage = stage, !.snap = snap, !.todo = todo] \in Passages
BY NoDiffTyped DEF Idle, Passages, ScanStages

LEMMA AfterPruneTyped ==
  ASSUME NEW s, NEW snap \in DiffTable
  PROVE  /\ AfterPrune(s, snap) \in Passages
         /\ \A rows \in SUBSET Files : Pruning(s, snap, rows) \in Passages
<1>1. {f \in Files : snap[f] # None} \in SUBSET Files
  OBVIOUS
<1>2. \A todo \in SUBSET Files, stage \in {"prune", "save"} :
        [Idle EXCEPT !.stage = stage, !.snap = snap, !.todo = todo]
          \in Passages
  BY IdleTyped
<1>3. AfterPrune(s, snap) \in Passages
  BY <1>1, <1>2, IdleTyped DEF AfterPrune
<1>4. \A rows \in SUBSET Files :
        rows # {} => Pruning(s, snap, rows) \in Passages
  BY <1>2 DEF Pruning
<1>5. \A rows : rows = {} => Pruning(s, snap, rows) = AfterPrune(s, snap)
  BY Zenon DEF Pruning
<1> QED
  BY <1>3, <1>4, <1>5, Zenon

LEMMA SaveRestTyped ==
  ASSUME ScansTyped, NEW f \in Files PROVE SaveRest(f) \in Passages
<1>1. scan["poll"].snap \in DiffTable
  BY DEF ScansTyped, Passages, Scanners
<1>2. [scan["poll"].snap EXCEPT ![f] = None] \in DiffTable
  BY <1>1 DEF DiffTable
<1> QED
  BY <1>2, AfterPruneTyped, Zenon DEF SaveRest

\* A scan that goes to another stage, or on.
LEMMA ScanMoves ==
  ASSUME ScansTyped, NEW s \in Scanners, NEW c \in Passages,
         scan' = [scan EXCEPT ![s] = c]
  PROVE  ScansTyped'
BY DEF ScansTyped

LEMMA ScanStops ==
  ASSUME ScansTyped, NEW s \in Scanners, NEW stage \in {"forget", "remember"},
         NEW f \in Files,
         scan' = [scan EXCEPT ![s].stage = stage, ![s].file = f]
  PROVE  ScansTyped'
<1>1. [scan[s] EXCEPT !.stage = stage, !.file = f] \in Passages
  BY DEF ScansTyped, Passages, ScanStages
<1>2. scan' = [scan EXCEPT ![s] = [scan[s] EXCEPT !.stage = stage, !.file = f]]
  BY DEF ScansTyped
<1> QED
  BY <1>1, <1>2, ScanMoves

LEMMA ScansStay ==
  ASSUME TypeInv, [Next]_vars PROVE ScansTyped'
<1>0. ScansTyped /\ TablesTyped /\ "poll" \in Scanners /\ Idle \in Passages
  BY IdleTyped DEF TypeInv, Scanners
<1>1. CASE UNCHANGED scan
  BY <1>0, <1>1 DEF ScansTyped
<1>2. ASSUME NEW s \in Scanners,
             scan' = [scan EXCEPT ![s] = [Idle EXCEPT !.stage = "list",
                                                      !.snap = Diffs]]
      PROVE  ScansTyped'
  <2>1. [Idle EXCEPT !.stage = "list", !.snap = Diffs] \in Passages
    BY <1>0, DiffsTyped DEF Idle, Passages, ScanStages
  <2> QED
    BY <1>0, <1>2, <2>1, ScanMoves
<1>3. ASSUME NEW s \in Scanners, ListPending(s) PROVE ScansTyped'
  <2>1. scan[s].snap \in DiffTable
    BY <1>0 DEF ScansTyped, Passages
  <2>2. \/ scan' = [scan EXCEPT ![s] = AfterPrune(s, scan[s].snap)]
        \/ \E rows \in SUBSET Files :
             scan' = [scan EXCEPT ![s] = Pruning(s, scan[s].snap, rows)]
    BY <1>3 DEF ListPending
  <2> QED
    BY <1>0, <2>1, <2>2, AfterPruneTyped, ScanMoves
<1>4. ASSUME NEW s \in Scanners, NEW f \in Files, PruneRow(s, f)
      PROVE  ScansTyped'
  <2>1. /\ scan[s].snap \in DiffTable
        /\ scan[s].todo \ {f} \in SUBSET Files
    BY <1>0 DEF ScansTyped, Passages
  <2>2. CASE scan' = [scan EXCEPT ![s].stage = "forget", ![s].file = f]
    BY <1>0, <2>2, ScanStops
  <2>3. CASE scan' = [scan EXCEPT ![s] = Pruning(s, scan[s].snap,
                                                 scan[s].todo \ {f})]
    BY <1>0, <2>1, <2>3, AfterPruneTyped, ScanMoves
  <2> QED
    BY <1>4, <2>2, <2>3 DEF PruneRow
<1>5. ASSUME NEW s \in Scanners, PruneSeen(s) PROVE ScansTyped'
  <2>1. /\ scan[s].snap \in DiffTable
        /\ scan[s].todo \ {scan[s].file} \in SUBSET Files
    BY <1>0 DEF ScansTyped, Passages
  <2> QED
    BY <1>0, <1>5, <2>1, AfterPruneTyped, ScanMoves DEF PruneSeen
<1>6. ASSUME NEW f \in Files, Save(f) PROVE ScansTyped'
  <2>1. CASE scan' = [scan EXCEPT !["poll"] = SaveRest(f)]
    BY <1>0, <2>1, SaveRestTyped, ScanMoves
  <2>2. CASE scan' = [scan EXCEPT !["poll"].stage = "remember",
                                  !["poll"].file = f]
    BY <1>0, <2>2, ScanStops
  <2> QED
    BY <1>6, <2>1, <2>2 DEF Save
<1>7. CASE Remember
  <2>1. scan["poll"].file \in Files
    BY <1>0, <1>7 DEF Remember, ScansTyped, Passages
  <2>2. scan' = [scan EXCEPT !["poll"] = SaveRest(scan["poll"].file)]
    BY <1>7 DEF Remember
  <2> QED
    BY <1>0, <2>1, <2>2, SaveRestTyped, ScanMoves
<1>8. CASE Restart
  BY <1>0, <1>8 DEF Restart, ScansTyped
<1>9. ASSUME NEW p \in Requests, Request(p) PROVE UNCHANGED scan
  BY <1>9 DEF Request, Read, ReadDecided, Refuse, Apply, Commit, Abort,
    LoseCommit, RollBackLate, Archive, Notify, RefuseUndo, ApplyUndo,
    RestoreCard, ForgetDecided
<1>10. ASSUME NEW f \in Files, NEW v \in Versions, Edit(f, v)
       PROVE  UNCHANGED scan
  BY <1>10 DEF Edit
<1>11. CASE Poll \/ Visit
  BY <1>0, <1>2, <1>11 DEF Poll, Visit, Scanners
<1>12. ListAccepted \/ MarkCommitted \/ UNCHANGED vars => UNCHANGED scan
  BY DEF ListAccepted, MarkCommitted, vars
<1> QED
  BY <1>1, <1>3, <1>4, <1>5, <1>6, <1>7, <1>8, <1>9, <1>10, <1>11, <1>12
  DEF Next, Scan

\* What a request does to its own call: it enters its transaction only when
\* no other one is open.
CallBecomes(p, c) ==
  act' = [act EXCEPT ![p] = c] /\ (c.stage = "applied" => StoreFree)

LEMMA BecomesMoves ==
  ASSUME TypeInv, NEW p \in Requests, ~At(p, "idle"),
         NEW stage \in ActStages \ {"idle"}, Becomes(p, stage),
         stage \in Deciding => act[p].stage \in Deciding,
         stage = "applied" => StoreFree
  PROVE  \E c \in Calls : CallBecomes(p, c)
<1> DEFINE c == [act[p] EXCEPT !.stage = stage]
<1>0. CallsTyped
  BY DEF TypeInv
<1>1. c \in Calls /\ c.stage = stage
  BY <1>0 DEF At, Calls, CallsTyped
<1>2. act' = [act EXCEPT ![p] = c]
  BY <1>0 DEF Becomes, CallsTyped
<1> HIDE DEF c
<1> QED
  BY <1>1, <1>2 DEF CallBecomes

LEMMA EndsMoves ==
  ASSUME NEW p \in Requests, Ends(p)
  PROVE  \E c \in Calls : CallBecomes(p, c)
<1>1. Free \in Calls /\ Free.stage # "applied"
  BY DEF Free, Calls, ActStages, Deciding
<1> QED
  BY <1>1 DEF Ends, CallBecomes

LEMMA RequestMoves ==
  ASSUME TypeInv, NEW p \in Requests, Request(p)
  PROVE  \E c \in Calls : CallBecomes(p, c)
<1> DEFINE Moved == \E c \in Calls : CallBecomes(p, c)
<1>0. TablesTyped /\ CallsTyped
  BY DEF TypeInv
<1>1. ASSUME NEW f \in Files, NEW how \in Decision, Read(p, f, how)
      PROVE  Moved
  <2> DEFINE c == [stage |-> "read", file |-> f, patch |-> card[f],
                   how |-> how]
  <2>1. c \in Calls /\ c.stage # "applied"
    BY <1>0, <1>1 DEF Read, Calls, ActStages, Decision, Deciding, TablesTyped,
                      DiffTable
  <2>2. act' = [act EXCEPT ![p] = c]
    BY <1>1 DEF Read, Begins
  <2> QED
    BY <2>1, <2>2 DEF CallBecomes
<1>2. ASSUME NEW f \in Files, ReadDecided(p, f) PROVE Moved
  <2> DEFINE c == [stage |-> "undoing", file |-> f,
                   patch |-> decided[f].patch, how |-> decided[f].status]
  <2>1. decided[f] \in Records
    BY <1>0, <1>2 DEF ReadDecided, TablesTyped
  <2>2. c \in Calls /\ c.stage # "applied"
    BY <2>1 DEF Records, Calls, ActStages, Decision, Deciding
  <2>3. act' = [act EXCEPT ![p] = c]
    BY <1>2 DEF ReadDecided, Begins
  <2> QED
    BY <2>2, <2>3 DEF CallBecomes
<1>3. CASE Ends(p)
  BY <1>3, EndsMoves
<1>4. CASE At(p, "read") /\ Becomes(p, "applied") /\ StoreFree
  BY <1>4, BecomesMoves DEF At, ActStages, Deciding
<1>5. CASE At(p, "applied") /\ (Becomes(p, "committed")
                                \/ Becomes(p, "failed"))
  BY <1>5, BecomesMoves DEF At, ActStages, Deciding
<1>6. CASE At(p, "committed") /\ Becomes(p, "archived")
  BY <1>6, BecomesMoves DEF At, ActStages, Deciding
<1>7. CASE \/ At(p, "undoing") /\ Becomes(p, "reverted")
           \/ At(p, "reverted") /\ Becomes(p, "restored")
  BY <1>7, BecomesMoves DEF At, ActStages, Deciding
<1>8. CASE Apply(p) \/ Commit(p) \/ Abort(p) \/ LoseCommit(p)
  BY <1>3, <1>4, <1>5, <1>8, Zenon
  DEF Apply, Commit, Abort, RolledBack, NotRolledBack, LoseCommit
<1>9. CASE Refuse(p) \/ RollBackLate(p) \/ Archive(p) \/ Notify(p)
  BY <1>3, <1>6, <1>9, Zenon
  DEF Refuse, RollBackLate, RolledBack, Archive, Notify
<1>10. CASE RefuseUndo(p) \/ ApplyUndo(p) \/ RestoreCard(p)
            \/ ForgetDecided(p)
  BY <1>3, <1>7, <1>10, Zenon
  DEF RefuseUndo, ApplyUndo, RestoreCard, ForgetDecided
<1>11. CASE \E f \in Files :
               \/ \E how \in {"accept", "reject"} : Read(p, f, how)
               \/ ReadDecided(p, f)
  <2>1. PICK f \in Files : (\E how \in Decision : Read(p, f, how))
                          \/ ReadDecided(p, f)
    BY <1>11, Zenon DEF Decision
  <2> QED
    BY <1>1, <1>2, <2>1, Zenon
<1> QED
  BY <1>8, <1>9, <1>10, <1>11, Zenon DEF Request

\* The other steps leave the calls alone, or drop them all.
LEMMA OthersLeaveCalls ==
  ASSUME [Next]_vars
  PROVE  \/ \E p \in Requests : Request(p)
         \/ UNCHANGED act
         \/ act' = [p \in Requests |-> Free]
<1>1. ASSUME NEW s \in Scanners, Scan(s) PROVE UNCHANGED requests
  BY <1>1, Zenon DEF Scan, ListPending, PruneRow, PruneSeen
<1>2. ASSUME NEW f \in Files, Save(f) PROVE UNCHANGED requests
  BY <1>2, Zenon DEF Save
<1>3. ASSUME NEW f \in Files, NEW v \in Versions, Edit(f, v)
      PROVE  UNCHANGED requests
  BY <1>3, Zenon DEF Edit
<1>4. CASE Poll \/ Visit \/ Remember \/ ListAccepted \/ MarkCommitted
  BY <1>4, Zenon DEF Poll, Visit, Remember, ListAccepted, MarkCommitted,
                     requests
<1>5. CASE UNCHANGED vars
  BY <1>5, Zenon DEF vars, requests
<1>6. CASE Restart
  BY <1>6, Zenon DEF Restart
<1>7. UNCHANGED requests => UNCHANGED act
  BY DEF requests
<1> QED
  BY <1>1, <1>2, <1>3, <1>4, <1>5, <1>6, <1>7, Zenon DEF Next

LEMMA CallsStay ==
  ASSUME TypeInv, [Next]_vars PROVE CallsTyped' /\ OneApplied'
<1>0. CallsTyped /\ OneApplied
  BY DEF TypeInv
<1>1. ASSUME NEW p \in Requests, Request(p) PROVE CallsTyped' /\ OneApplied'
  <2>1. PICK c \in Calls : CallBecomes(p, c)
    BY <1>1, RequestMoves
  <2>2. CallsTyped'
    BY <1>0, <2>1 DEF CallBecomes, CallsTyped
  <2>3. /\ act'[p] = c
        /\ \A q \in Requests \ {p} : act'[q] = act[q]
    BY <1>0, <2>1 DEF CallBecomes, CallsTyped
  <2>4. c.stage = "applied" => \A q \in Requests : ~At(q, "applied")
    BY <2>1 DEF CallBecomes, StoreFree, At
  <2>5. OneApplied'
    BY <1>0, <2>3, <2>4 DEF OneApplied, At
  <2> QED
    BY <2>2, <2>5
<1>2. CASE UNCHANGED act
  BY <1>0, <1>2 DEF CallsTyped, OneApplied, At
<1>3. CASE act' = [p \in Requests |-> Free]
  BY <1>3 DEF CallsTyped, OneApplied, At, Free, Calls, ActStages, Deciding
<1> QED
  BY <1>1, <1>2, <1>3, OthersLeaveCalls

\* What a step does to the tables, in the terms that keep them typed.
LEMMA PutTyped ==
  ASSUME TypeInv, NEW p \in Requests, ~At(p, "idle"), NEW v \in Versions,
         Put(p, v)
  PROVE  /\ idx' \in [Files -> Versions] /\ work' \in [Files -> Versions]
         /\ edits' = edits
<1>1. act[p].file \in Files
  BY DEF TypeInv, CallsTyped, Calls, At
<1> QED
  BY <1>1 DEF TypeInv, TablesTyped, Put

LEMMA SidesTyped ==
  ASSUME TypeInv, NEW p \in Requests, ~At(p, "idle")
  PROVE  /\ act[p].file \in Files /\ act[p].patch \in Patches
         /\ After(p) \in Versions /\ Before(p) \in Versions
<1>1. act[p].file \in Files /\ act[p].patch \in Patches
  BY DEF TypeInv, CallsTyped, Calls, At
<1> QED
  BY <1>1 DEF After, Before, Patches

LEMMA ScansKeepTables ==
  ASSUME TypeInv, NEW s \in Scanners, Scan(s)
  PROVE  TablesTyped' /\ CountsTyped'
<1>0. TablesTyped /\ CountsTyped /\ ScansTyped
  BY DEF TypeInv
<1>1. CASE ListPending(s)
  BY <1>0, <1>1, BoundAssumption
  DEF ListPending, TablesTyped, CountsTyped, Works, Fails, MayFail, git,
        history, requests
<1>2. ASSUME NEW f \in Files, PruneRow(s, f)
      PROVE  TablesTyped' /\ CountsTyped'
  <2>1. card' \in DiffTable
    BY <1>0, <1>2 DEF PruneRow, TablesTyped, DiffTable
  <2> QED
    BY <1>0, <1>2, <2>1, BoundAssumption
    DEF PruneRow, TablesTyped, CountsTyped, Works, Fails, MayFail, git,
        history, requests
<1>3. CASE PruneSeen(s)
  <2>1. seen' \in DiffTable
    BY <1>0, <1>3 DEF PruneSeen, TablesTyped, DiffTable
  <2> QED
    BY <1>0, <1>3, <2>1
    DEF PruneSeen, TablesTyped, CountsTyped, git, tables, history,
        requests
<1> QED
  BY <1>1, <1>2, <1>3 DEF Scan

LEMMA PollKeepsTables ==
  ASSUME TypeInv, Poll \/ Visit \/ (\E f \in Files : Save(f)) \/ Remember
  PROVE  TablesTyped' /\ CountsTyped'
<1>0. TablesTyped /\ CountsTyped /\ ScansTyped
  BY DEF TypeInv
<1>1. scan["poll"].snap \in DiffTable
  BY <1>0 DEF ScansTyped, Passages, Scanners
<1>2. CASE Poll \/ Visit
  BY <1>0, <1>2, DiffsTyped
  DEF Poll, Visit, TablesTyped, CountsTyped, git, tables, history,
        requests
<1>3. ASSUME NEW f \in Files, Save(f) PROVE TablesTyped' /\ CountsTyped'
  <2>1. card' \in DiffTable
    BY <1>0, <1>1, <1>3 DEF Save, TablesTyped, DiffTable, tables
  <2> QED
    BY <1>0, <1>3, <2>1, BoundAssumption
    DEF Save, TablesTyped, CountsTyped, Works, Fails, MayFail, git, tables,
        history, requests
<1>4. CASE Remember
  <2>1. seen' \in DiffTable
    BY <1>0, <1>1, <1>4 DEF Remember, TablesTyped, DiffTable
  <2> QED
    BY <1>0, <1>4, <2>1
    DEF Remember, TablesTyped, CountsTyped, git, tables, history,
        requests
<1> QED
  BY <1>2, <1>3, <1>4

LEMMA DecisionsKeepTables ==
  ASSUME TypeInv, NEW p \in Requests,
         \/ Refuse(p) \/ Apply(p) \/ Commit(p) \/ Abort(p) \/ LoseCommit(p)
         \/ RollBackLate(p) \/ Archive(p) \/ Notify(p)
  PROVE  TablesTyped' /\ CountsTyped'
<1>0. TablesTyped /\ CountsTyped
  BY DEF TypeInv
<1>1. ~At(p, "idle")
  BY DEF Refuse, Apply, Commit, Abort, LoseCommit, RollBackLate, Archive,
         Notify, At
<1>2. /\ act[p].file \in Files /\ act[p].patch \in Patches
      /\ After(p) \in Versions /\ Before(p) \in Versions
  BY <1>1, SidesTyped
<1>3. \A v \in Versions : Put(p, v) =>
        /\ idx' \in [Files -> Versions] /\ work' \in [Files -> Versions]
        /\ edits' = edits
  BY <1>1, PutTyped
<1>4. CASE Refuse(p)
  BY <1>0, <1>4, BoundAssumption
  DEF Refuse, Ends, TablesTyped, CountsTyped, MayFail, git, history
<1>5. CASE Apply(p)
  BY <1>0, <1>2, <1>3, <1>5
  DEF Apply, Becomes, TablesTyped, CountsTyped, tables
<1>6. CASE Commit(p)
  <2>1. card' \in DiffTable /\ recorded' \in [Files -> Versions]
    BY <1>0, <1>2, <1>6 DEF Commit, TablesTyped, DiffTable
  <2> QED
    BY <1>0, <1>6, <2>1 DEF Commit, Becomes, TablesTyped, CountsTyped, git
<1>7. CASE Abort(p)
  <2>1. /\ idx' \in [Files -> Versions] /\ work' \in [Files -> Versions]
        /\ edits' = edits /\ calls' = calls
    BY <1>0, <1>2, <1>3, <1>7
    DEF Abort, RolledBack, NotRolledBack, Ends, Becomes, TablesTyped, git
  <2> QED
    BY <1>0, <1>7, <2>1, BoundAssumption
    DEF Abort, TablesTyped, CountsTyped, MayFail, history
<1>8. CASE LoseCommit(p)
  BY <1>0, <1>2, <1>8, BoundAssumption
  DEF LoseCommit, Becomes, TablesTyped, CountsTyped, MayFail, git, history
<1>9. CASE RollBackLate(p)
  <2>1. /\ idx' \in [Files -> Versions] /\ work' \in [Files -> Versions]
        /\ edits' = edits /\ calls' = calls
    BY <1>0, <1>2, <1>3, <1>9
    DEF RollBackLate, RolledBack, Ends, TablesTyped, git
  <2>2. torn' \subseteq Files /\ failures' \in 0..MaxFaults
    BY <1>0, <1>2, <1>9, BoundAssumption
    DEF RollBackLate, TablesTyped, CountsTyped, MayFail
  <2> QED
    BY <1>0, <1>9, <2>1, <2>2
    DEF RollBackLate, TablesTyped, CountsTyped
<1>10. CASE Archive(p)
  <2>1. act[p].how \in Decision
    BY <1>10 DEF Archive, At, TypeInv, CallsTyped, Calls, Deciding
  <2>2. [patch |-> act[p].patch, status |-> act[p].how] \in Records
    BY <1>2, <2>1 DEF Records
  <2>3. decided' \in [Files -> Records \union {None}]
    BY <1>0, <1>10, <2>2 DEF Archive, TablesTyped
  <2> QED
    BY <1>0, <1>10, <2>3, BoundAssumption
    DEF Archive, Becomes, TablesTyped, CountsTyped, Works, Fails, MayFail, git,
        history
<1>11. CASE Notify(p)
  <2>1. seen' \in DiffTable
    BY <1>0, <1>11 DEF Notify, TablesTyped, DiffTable
  <2> QED
    BY <1>0, <1>11, <2>1
    DEF Notify, Ends, TablesTyped, CountsTyped, git, tables
<1> QED
  BY <1>4, <1>5, <1>6, <1>7, <1>8, <1>9, <1>10, <1>11

LEMMA UndosKeepTables ==
  ASSUME TypeInv, NEW p \in Requests,
         \/ RefuseUndo(p) \/ ApplyUndo(p) \/ RestoreCard(p)
         \/ ForgetDecided(p)
  PROVE  TablesTyped' /\ CountsTyped'
<1>0. TablesTyped /\ CountsTyped
  BY DEF TypeInv
<1>1. ~At(p, "idle")
  BY DEF RefuseUndo, ApplyUndo, RestoreCard, ForgetDecided, At
<1>2. /\ act[p].file \in Files /\ act[p].patch \in Patches
      /\ After(p) \in Versions /\ Before(p) \in Versions
  BY <1>1, SidesTyped
<1>3. \A v \in Versions : Put(p, v) =>
        /\ idx' \in [Files -> Versions] /\ work' \in [Files -> Versions]
        /\ edits' = edits
  BY <1>1, PutTyped
<1>4. CASE RefuseUndo(p)
  BY <1>0, <1>4
  DEF RefuseUndo, Ends, TablesTyped, CountsTyped, git, tables, history
<1>5. CASE ApplyUndo(p)
  BY <1>0, <1>2, <1>3, <1>5
  DEF ApplyUndo, Becomes, TablesTyped, CountsTyped, tables
<1>6. CASE RestoreCard(p)
  <2>1. card' \in DiffTable
    BY <1>0, <1>2, <1>6 DEF RestoreCard, TablesTyped, DiffTable
  <2> QED
    BY <1>0, <1>6, <2>1, BoundAssumption
    DEF RestoreCard, Becomes, TablesTyped, CountsTyped, Works, Fails, MayFail,
        git, history
<1>7. CASE ForgetDecided(p)
  <2>1. decided' \in [Files -> Records \union {None}]
    BY <1>0, <1>7 DEF ForgetDecided, TablesTyped
  <2> QED
    BY <1>0, <1>7, <2>1, BoundAssumption
    DEF ForgetDecided, Ends, TablesTyped, CountsTyped, Works, Fails, MayFail,
        git, history
<1> QED
  BY <1>4, <1>5, <1>6, <1>7

LEMMA RestKeepsTables ==
  ASSUME TypeInv,
         \/ \E f \in Files, v \in Versions : Edit(f, v)
         \/ ListAccepted \/ MarkCommitted \/ Restart \/ UNCHANGED vars
         \/ \E p \in Requests, f \in Files :
              (\E how \in Decision : Read(p, f, how)) \/ ReadDecided(p, f)
  PROVE  TablesTyped' /\ CountsTyped'
<1>0. TablesTyped /\ CountsTyped
  BY DEF TypeInv
<1>1. ASSUME NEW f \in Files, NEW v \in Versions, Edit(f, v)
      PROVE  TablesTyped' /\ CountsTyped'
  <2>1. work' \in [Files -> Versions]
    BY <1>0, <1>1 DEF Edit, TablesTyped
  <2> QED
    BY <1>0, <1>1, <2>1, BoundAssumption
    DEF Edit, TablesTyped, CountsTyped, tables, requests, history
<1>2. CASE ListAccepted
  BY <1>0, <1>2
  DEF ListAccepted, TablesTyped, CountsTyped, git, tables, requests, history
<1>3. CASE MarkCommitted
  <2>1. \A f \in Files : Accepted(f) =>
          [decided[f] EXCEPT !.status = "committed"] \in Records
    BY <1>0 DEF Accepted, TablesTyped, Records
  <2>2. decided' \in [Files -> Records \union {None}]
    BY <1>0, <1>3, <2>1 DEF MarkCommitted, TablesTyped
  <2> QED
    BY <1>0, <1>3, <2>2, BoundAssumption
    DEF MarkCommitted, TablesTyped, CountsTyped, Works, Fails, MayFail, git,
        requests, history
<1>4. CASE Restart
  <2>1. {act[p].file : p \in {q \in Requests : Open(q)}} \subseteq Files
    BY DEF TypeInv, CallsTyped, Calls, Open, At
  <2> QED
    BY <1>0, <1>4, <2>1, NoDiffTyped, BoundAssumption
    DEF Restart, TablesTyped, CountsTyped, MayFail, git, tables
<1>5. CASE UNCHANGED vars
  BY <1>0, <1>5
  DEF vars, TablesTyped, CountsTyped, git, tables, requests, history
<1>6. ASSUME NEW p \in Requests, NEW f \in Files,
             (\E how \in Decision : Read(p, f, how)) \/ ReadDecided(p, f)
      PROVE  TablesTyped' /\ CountsTyped'
  <2>1. /\ calls' \in 0..MaxCalls
        /\ UNCHANGED <<git, tables, seen, lastHash, scan, marking, boots,
                       history>>
    BY <1>0, <1>6, BoundAssumption DEF Read, ReadDecided, Begins, CountsTyped
  <2> QED
    BY <1>0, <2>1 DEF TablesTyped, CountsTyped, git, tables, history
<1> QED
  BY <1>1, <1>2, <1>3, <1>4, <1>5, <1>6

LEMMA InitTypes == Init => TypeInv
<1> SUFFICES ASSUME Init PROVE TypeInv
  OBVIOUS
<1>1. TablesTyped
  BY BaseAssumption, NoDiffTyped DEF Init, TablesTyped, NoDiff
<1>2. CountsTyped
  BY BoundAssumption DEF Init, CountsTyped
<1>3. CallsTyped /\ OneApplied
  BY DEF Init, CallsTyped, OneApplied, At, Free, Calls, ActStages, Deciding
<1>4. ScansTyped
  BY IdleTyped DEF Init, ScansTyped
<1> QED
  BY <1>1, <1>2, <1>3, <1>4 DEF TypeInv

LEMMA StepTypes == TypeInv /\ [Next]_vars => TypeInv'
<1> SUFFICES ASSUME TypeInv, [Next]_vars PROVE TypeInv'
  OBVIOUS
<1>1. TablesTyped' /\ CountsTyped'
  BY ScansKeepTables, PollKeepsTables, DecisionsKeepTables, UndosKeepTables,
     RestKeepsTables
  DEF Next, Request, Decision
<1> QED
  BY <1>1, CallsStay, ScansStay DEF TypeInv

\* The state keeps its types, and one transaction is open at a time.
THEOREM TypeInvariant == Spec => []TypeOK
<1>1. Spec => []TypeInv
  BY InitTypes, StepTypes, PTL DEF Spec
<1> QED
  BY <1>1, TypeInvGivesTypeOK, PTL
-----------------------------------------------------------------------------
(* What is staged is what was decided.  An accepted patch is on record or  *)
(* its request still has it open, in the transaction or between it and the *)
(* late rollback.  Only one request at a time has a file open: while it    *)
(* does, the index holds the patch and the record what the patch expects,  *)
(* which is what makes both the commit and the rollback right.             *)

Clean == Files \ (torn \union undone)
Opens(p, f) == act[p].file = f /\ Open(p)

Midway(p, f) == idx[f] = act[p].patch.to /\ recorded[f] = act[p].patch.from

IndexInv ==
  \A f \in Clean :
    /\ \A p \in Requests : Opens(p, f) => Midway(p, f)
    /\ \A p, q \in Requests : Opens(p, f) /\ Opens(q, f) => p = q
    /\ idx[f] = recorded[f] \/ \E p \in Requests : Opens(p, f)

\* The request that moves, and those that wait.
LEMMA OneCallMoves ==
  ASSUME TypeInv, NEW p \in Requests, NEW c, act' = [act EXCEPT ![p] = c]
  PROVE  act'[p] = c /\ \A q \in Requests \ {p} : act'[q] = act[q]
BY DEF TypeInv, CallsTyped

LEMMA BecomesGives ==
  ASSUME TypeInv, NEW p \in Requests, NEW stage, Becomes(p, stage)
  PROVE  /\ act'[p] = [act[p] EXCEPT !.stage = stage]
         /\ act'[p].stage = stage /\ act'[p].file = act[p].file
         /\ act'[p].patch = act[p].patch /\ act'[p].how = act[p].how
         /\ \A q \in Requests \ {p} : act'[q] = act[q]
BY DEF TypeInv, CallsTyped, Calls, Becomes

LEMMA EndsGives ==
  ASSUME TypeInv, NEW p \in Requests, Ends(p)
  PROVE  /\ act'[p] = Free
         /\ \A q \in Requests \ {p} : act'[q] = act[q]
BY OneCallMoves DEF Ends

\* What a request has open does not change when its call does not.
LEMMA CallDecides ==
  ASSUME NEW q, act'[q] = act[q]
  PROVE  \A f : (Opens(q, f)' <=> Opens(q, f))
BY DEF Opens, Open, Staging, At

\* Steps outside of the transaction do not touch the index or the record.
LEMMA QuietRequest ==
  ASSUME TypeInv, IndexInv, NEW p \in Requests,
         UNCHANGED <<idx, recorded, torn, undone>>,
         act[p].stage \notin {"applied", "failed"},
         act'[p].stage \notin {"applied", "failed"},
         \A q \in Requests \ {p} : act'[q] = act[q]
  PROVE  IndexInv'
<1>1. \A f : ~Opens(p, f) /\ ~Opens(p, f)'
  BY DEF Opens, Open, At
<1>2. \A q \in Requests \ {p} : \A f : (Opens(q, f)' <=> Opens(q, f))
                                     /\ act'[q] = act[q]
  BY CallDecides
<1> QED
  BY <1>1, <1>2 DEF IndexInv, Clean, Midway

\* The file of a patch that is staged is open to its request only, or torn.
LEMMA ApplyKeepsIndex ==
  ASSUME TypeInv, IndexInv, NEW p \in Requests, Apply(p) PROVE IndexInv'
<1> DEFINE f == act[p].file
<1>1. /\ act'[p].stage = "applied" /\ act'[p].file = act[p].file
      /\ act'[p].patch = act[p].patch /\ act'[p].how = act[p].how
      /\ \A q \in Requests \ {p} : act'[q] = act[q]
  BY BecomesGives, Zenon DEF Apply
<1>2. /\ act[p].stage = "read"
      /\ UNCHANGED <<recorded, undone>> /\ torn \subseteq torn'
  BY DEF Apply, At
<1>3. idx \in [Files -> Versions] /\ f \in Files
  BY <1>2, SidesTyped DEF TypeInv, TablesTyped, At
<1>4. \A q \in Requests \ {p} : \A g : Opens(q, g)' <=> Opens(q, g)
  BY <1>1, CallDecides
<1>5. \A g : ~Opens(p, g)
  BY <1>2 DEF Opens, Open, At
<1>6. CASE Staging(p)
  <2>1. /\ idx[f] = act[p].patch.from
        /\ idx' = [idx EXCEPT ![f] = act[p].patch.to]
    BY <1>2, <1>6
    DEF Apply, Content, Before, After, Forward, Staging, Put, At
  <2>2. \A g : Opens(p, g)' => g = f
    BY <1>1 DEF Opens
  <2>3. Opens(p, f)'
    BY <1>1, <1>6 DEF Opens, Open, Staging, At
  <2>4. \A g \in Clean' : g \in Clean /\ (g # f => idx'[g] = idx[g])
    BY <1>2, <1>3, <2>1 DEF Clean
  <2>5. f \in Clean' => \A q \in Requests : ~Opens(q, f)
    BY <1>6 DEF Apply, Clean, Opens
  <2>6. ASSUME f \in Clean' PROVE Midway(p, f)'
    <3>1. recorded[f] = idx[f]
      BY <2>4, <2>5, <2>6 DEF IndexInv
    <3> QED
      BY <1>1, <1>2, <1>3, <2>1, <3>1 DEF Midway
  <2>7. \A q \in Requests \ {p}, g \in Clean' :
          Opens(q, g)' => g # f /\ Midway(q, g)'
    BY <1>1, <1>2, <1>4, <2>4, <2>5 DEF IndexInv, Midway
  <2>8. ASSUME NEW g \in Clean', g # f
        PROVE  /\ \A q \in Requests : Opens(q, g)' => Midway(q, g)'
               /\ \A q, r \in Requests : Opens(q, g)' /\ Opens(r, g)' => q = r
               /\ idx'[g] = recorded'[g] \/ \E q \in Requests : Opens(q, g)'
    <3>1. \A q \in Requests : Opens(q, g)' <=> Opens(q, g)
      BY <1>4, <1>5, <2>2, <2>8
    <3> QED
      BY <1>2, <2>2, <2>4, <2>7, <2>8, <3>1 DEF IndexInv
  <2>9. ASSUME NEW g \in Clean', g = f
        PROVE  /\ \A q \in Requests : Opens(q, g)' => Midway(q, g)'
               /\ \A q, r \in Requests : Opens(q, g)' /\ Opens(r, g)' => q = r
               /\ \E q \in Requests : Opens(q, g)'
    <3>1. \A q \in Requests : Opens(q, g)' => q = p
      BY <1>4, <2>5, <2>9
    <3>2. Opens(p, g)' /\ Midway(p, g)'
      BY <1>1, <2>3, <2>6, <2>9 DEF Opens, Midway
    <3> QED
      BY <3>1, <3>2
  <2> QED
    BY <2>8, <2>9 DEF IndexInv
<1>7. CASE ~Staging(p)
  <2>1. UNCHANGED <<idx, torn>>
    BY <1>7 DEF Apply, Put
  <2>2. \A g : ~Opens(p, g)'
    BY <1>1, <1>7 DEF Opens, Open, Staging
  <2> QED
    BY <1>1, <1>2, <1>4, <1>5, <2>1, <2>2 DEF IndexInv, Clean, Midway
<1> QED
  BY <1>6, <1>7

\* A request that closes its file leaves the index on record.
LEMMA ClosingKeepsIndex ==
  ASSUME TypeInv, IndexInv, NEW p \in Requests,
         NEW f, f = act[p].file, f \in Files,
         UNCHANGED undone, torn \subseteq torn',
         \A q \in Requests \ {p} : act'[q] = act[q],
         act'[p].stage \notin {"applied", "failed"},
         \A g \in Files \ {f} : /\ idx'[g] = idx[g]
                                /\ recorded'[g] = recorded[g],
         f \in Clean' =>
           \/ Opens(p, f) /\ idx'[f] = recorded'[f]
           \/ ~Opens(p, f) /\ idx'[f] = idx[f] /\ recorded'[f] = recorded[f]
  PROVE  IndexInv'
<1>1. \A g : ~Opens(p, g)'
  BY DEF Opens, Open, At
<1>2. \A q \in Requests \ {p} : \A g : (Opens(q, g)' <=> Opens(q, g))
                                     /\ act'[q] = act[q]
  BY CallDecides
<1>3. \A g \in Clean' : g \in Clean /\ g \in Files
  BY DEF Clean
<1>4. \A g \in Files \ {f} : ~Opens(p, g)
  BY DEF Opens
<1>5. \A g \in Clean' \ {f} :
        /\ \A q \in Requests : Opens(q, g)' => Midway(q, g)'
        /\ \A q, r \in Requests : Opens(q, g)' /\ Opens(r, g)' => q = r
        /\ idx'[g] = recorded'[g] \/ \E q \in Requests : Opens(q, g)'
  BY <1>1, <1>2, <1>3, <1>4 DEF IndexInv, Midway
<1>6. ASSUME f \in Clean'
      PROVE  /\ \A q \in Requests : Opens(q, f)' => Midway(q, f)'
             /\ \A q, r \in Requests : Opens(q, f)' /\ Opens(r, f)' => q = r
             /\ idx'[f] = recorded'[f] \/ \E q \in Requests : Opens(q, f)'
  <2>1. CASE Opens(p, f) /\ idx'[f] = recorded'[f]
    <3>1. \A q \in Requests : ~Opens(q, f)'
      BY <1>1, <1>2, <1>3, <1>6, <2>1 DEF IndexInv
    <3> QED
      BY <2>1, <3>1
  <2>2. CASE ~Opens(p, f) /\ idx'[f] = idx[f] /\ recorded'[f] = recorded[f]
    BY <1>1, <1>2, <1>3, <1>6, <2>2 DEF IndexInv, Midway
  <2> QED
    BY <1>6, <2>1, <2>2
<1> QED
  BY <1>5, <1>6 DEF IndexInv

LEMMA CommitKeepsIndex ==
  ASSUME TypeInv, IndexInv, NEW p \in Requests, Commit(p) PROVE IndexInv'
<1> DEFINE f == act[p].file
<1>1. /\ act'[p].stage = "committed"
      /\ \A q \in Requests \ {p} : act'[q] = act[q]
  BY BecomesGives, Zenon DEF Commit
<1>2. act[p].stage = "applied" /\ UNCHANGED <<idx, torn, undone>>
  BY DEF Commit, At, git
<1>3. recorded \in [Files -> Versions] /\ f \in Files
  BY <1>2, SidesTyped DEF TypeInv, TablesTyped, At
<1>4. CASE Staging(p)
  <2>1. recorded' = [recorded EXCEPT ![f] = act[p].patch.to]
    BY <1>2, <1>4 DEF Commit, After, Forward, Staging, At
  <2>2. Opens(p, f)
    BY <1>2, <1>4 DEF Opens, Open, At
  <2>3. f \in Clean' => idx'[f] = recorded'[f]
    BY <1>2, <1>3, <2>1, <2>2 DEF IndexInv, Midway, Clean
  <2>4. \A g \in Files \ {f} : idx'[g] = idx[g] /\ recorded'[g] = recorded[g]
    BY <1>2, <1>3, <2>1
  <2> QED
    BY <1>1, <1>2, <1>3, <2>2, <2>3, <2>4, ClosingKeepsIndex
<1>5. CASE ~Staging(p)
  <2>1. UNCHANGED recorded /\ ~Opens(p, f)
    BY <1>5 DEF Commit, Opens, Open
  <2> QED
    BY <1>1, <1>2, <1>3, <2>1, ClosingKeepsIndex
<1> QED
  BY <1>4, <1>5

\* A rollback puts back what the record says.
LEMMA RolledBackKeepsIndex ==
  ASSUME TypeInv, IndexInv, NEW p \in Requests,
         act[p].stage \in {"applied", "failed"}, RolledBack(p),
         UNCHANGED <<recorded, torn, undone>>
  PROVE  IndexInv'
<1> DEFINE f == act[p].file
<1>0. act'[p] = Free /\ \A q \in Requests \ {p} : act'[q] = act[q]
  BY EndsGives, Zenon DEF RolledBack
<1>1. /\ act'[p].stage = "idle"
      /\ \A q \in Requests \ {p} : act'[q] = act[q]
  BY <1>0 DEF Free
<1>2. idx \in [Files -> Versions] /\ f \in Files
  BY SidesTyped DEF TypeInv, TablesTyped, At
<1>3. CASE Staging(p)
  <2>1. idx' = [idx EXCEPT ![f] = act[p].patch.from]
    BY <1>3 DEF RolledBack, Put, Before, Forward, Staging, At
  <2>2. Opens(p, f)
    BY <1>3 DEF Opens, Open, At
  <2>3. f \in Clean' => idx'[f] = recorded'[f]
    BY <1>2, <2>1, <2>2 DEF IndexInv, Midway, Clean
  <2>4. \A g \in Files \ {f} : idx'[g] = idx[g]
    BY <1>2, <2>1
  <2> QED
    BY <1>1, <1>2, <2>2, <2>3, <2>4, ClosingKeepsIndex
<1>4. CASE ~Staging(p)
  <2>1. UNCHANGED idx /\ ~Opens(p, f)
    BY <1>4 DEF RolledBack, Put, Opens, Open
  <2> QED
    BY <1>1, <1>2, <2>1, ClosingKeepsIndex
<1> QED
  BY <1>3, <1>4

\* A failed transaction whose patch is still there keeps its file open.
LEMMA FailedKeepsIndex ==
  ASSUME TypeInv, IndexInv, NEW p \in Requests, At(p, "applied"),
         Becomes(p, "failed"), UNCHANGED <<idx, recorded, torn, undone>>
  PROVE  IndexInv'
<1>1. /\ act'[p].stage = "failed" /\ act'[p].file = act[p].file
      /\ act'[p].patch = act[p].patch /\ act'[p].how = act[p].how
      /\ \A q \in Requests \ {p} : act'[q] = act[q]
  BY BecomesGives, Zenon
<1>2. \A f : Opens(p, f)' <=> Opens(p, f)
  BY <1>1 DEF Opens, Open, Staging, At
<1>3. \A q \in Requests \ {p} : \A f : Opens(q, f)' <=> Opens(q, f)
  BY <1>1, CallDecides
<1> QED
  BY <1>1, <1>2, <1>3 DEF IndexInv, Clean, Midway

LEMMA AbortKeepsIndex ==
  ASSUME TypeInv, IndexInv, NEW p \in Requests, Abort(p) PROVE IndexInv'
<1>1. At(p, "applied") /\ UNCHANGED <<recorded, torn, undone>>
  BY DEF Abort, history
<1>2. CASE RolledBack(p)
  BY <1>1, <1>2, RolledBackKeepsIndex DEF At
<1>3. CASE NotRolledBack(p)
  BY <1>1, <1>3, FailedKeepsIndex DEF NotRolledBack, git
<1> QED
  BY <1>2, <1>3 DEF Abort

LEMMA LoseCommitKeepsIndex ==
  ASSUME TypeInv, IndexInv, NEW p \in Requests, LoseCommit(p) PROVE IndexInv'
BY FailedKeepsIndex DEF LoseCommit, git, history

LEMMA RollBackKeepsIndex ==
  ASSUME TypeInv, IndexInv, NEW p \in Requests, RollBackLate(p)
  PROVE  IndexInv'
<1> DEFINE f == act[p].file
<1>1. act[p].stage = "failed" /\ UNCHANGED <<recorded, undone>>
  BY DEF RollBackLate, At
<1>2. CASE RolledBack(p) /\ UNCHANGED torn
  BY <1>1, <1>2, RolledBackKeepsIndex
<1>3. CASE /\ torn' = IF Staging(p) THEN torn \union {f} ELSE torn
           /\ Ends(p) /\ UNCHANGED git
  <2>0. act'[p] = Free /\ \A q \in Requests \ {p} : act'[q] = act[q]
    BY <1>3, EndsGives, Zenon
  <2>1. /\ act'[p].stage = "idle"
        /\ \A q \in Requests \ {p} : act'[q] = act[q]
    BY <2>0 DEF Free
  <2>2. UNCHANGED idx /\ torn \subseteq torn' /\ f \in Files
    BY <1>1, <1>3, SidesTyped DEF git, At
  <2>3. f \in Clean' => ~Opens(p, f)
    BY <1>3 DEF Clean, Opens, Open
  <2> QED
    BY <1>1, <2>1, <2>2, <2>3, ClosingKeepsIndex
<1> QED
  BY <1>2, <1>3 DEF RollBackLate

LEMMA UndoKeepsIndex ==
  ASSUME TypeInv, IndexInv, NEW p \in Requests, ApplyUndo(p) PROVE IndexInv'
<1> DEFINE f == act[p].file
<1>1. /\ act'[p].stage = "reverted"
      /\ \A q \in Requests \ {p} : act'[q] = act[q]
  BY BecomesGives, Zenon DEF ApplyUndo
<1>2. /\ act[p].stage = "undoing" /\ UNCHANGED <<recorded, torn>>
      /\ undone' = undone \union {f}
  BY DEF ApplyUndo, At
<1>3. idx \in [Files -> Versions] /\ f \in Files
  BY <1>2, SidesTyped DEF TypeInv, TablesTyped, At
<1>4. \A g \in Files \ {f} : idx'[g] = idx[g]
  BY <1>3 DEF ApplyUndo, Put
<1>5. \A g : ~Opens(p, g) /\ ~Opens(p, g)'
  BY <1>1, <1>2 DEF Opens, Open, At
<1>6. \A q \in Requests \ {p} : \A g : Opens(q, g)' <=> Opens(q, g)
  BY <1>1, CallDecides
<1>7. \A g \in Clean' : g \in Clean /\ idx'[g] = idx[g]
  BY <1>2, <1>4 DEF Clean
<1> QED
  BY <1>1, <1>2, <1>5, <1>6, <1>7 DEF IndexInv, Midway

LEMMA OthersKeepIndex ==
  ASSUME TypeInv, IndexInv, NEW p \in Requests,
         \/ \E f \in Files : (\E how \in Decision : Read(p, f, how))
                            \/ ReadDecided(p, f)
         \/ Refuse(p) \/ Archive(p) \/ Notify(p)
         \/ RefuseUndo(p) \/ RestoreCard(p) \/ ForgetDecided(p)
  PROVE  IndexInv'
<1>1. /\ UNCHANGED <<idx, recorded, torn, undone>>
      /\ act[p].stage \notin {"applied", "failed"}
  BY DEF Read, ReadDecided, Begins, Refuse, Archive, Notify, RefuseUndo,
         RestoreCard, ForgetDecided, At, git, history
<1>2. ASSUME NEW c, act' = [act EXCEPT ![p] = c],
             c.stage \notin {"applied", "failed"}
      PROVE  IndexInv'
  BY <1>1, <1>2, OneCallMoves, QuietRequest
<1>3. CASE \E f \in Files : (\E how \in Decision : Read(p, f, how))
                           \/ ReadDecided(p, f)
  BY <1>2, <1>3 DEF Read, ReadDecided, Begins
<1>4. CASE Ends(p)
  BY <1>2, <1>4 DEF Ends, Free
<1>5. ASSUME NEW stage \in {"archived", "restored"}, Becomes(p, stage)
      PROVE  IndexInv'
  <2>1. /\ act'[p].stage = stage
        /\ \A q \in Requests \ {p} : act'[q] = act[q]
    BY <1>5, BecomesGives
  <2>2. act'[p].stage \notin {"applied", "failed"}
    BY <2>1
  <2> QED
    BY <1>1, <2>1, <2>2, QuietRequest
<1> QED
  BY <1>3, <1>4, <1>5
  DEF Refuse, Archive, Notify, RefuseUndo, RestoreCard, ForgetDecided

LEMMA RestartKeepsIndex ==
  ASSUME TypeInv, IndexInv, Restart PROVE IndexInv'
<1>1. /\ UNCHANGED <<idx, recorded, undone>>
      /\ act' = [p \in Requests |-> Free]
      /\ torn' = torn \union {act[p].file : p \in {q \in Requests : Open(q)}}
  BY DEF Restart, git
<1>2. \A f \in Clean' : idx[f] = recorded[f]
  BY <1>1 DEF IndexInv, Clean, Opens
<1>3. \A p \in Requests, f \in Files : ~Opens(p, f)'
  BY <1>1 DEF Opens, Open, At, Free
<1> QED
  BY <1>1, <1>2, <1>3 DEF IndexInv, Clean

\* The scans, the edits and repo.commit stay away from the index.
LEMMA RestKeepsIndex ==
  ASSUME TypeInv, IndexInv,
         \/ \E f \in Files, v \in Versions : Edit(f, v)
         \/ Poll \/ Visit \/ (\E s \in Scanners : Scan(s))
         \/ (\E f \in Files : Save(f)) \/ Remember
         \/ ListAccepted \/ MarkCommitted \/ UNCHANGED vars
  PROVE  IndexInv'
<1>1. UNCHANGED <<idx, act, recorded, torn, undone>>
  BY DEF Edit, Poll, Visit, Scan, ListPending, PruneRow, PruneSeen, Save,
         Remember, ListAccepted, MarkCommitted, vars, git, requests, history
<1> QED
  BY <1>1 DEF IndexInv, Clean, Opens, Open, Staging, Midway, At

LEMMA IndexInvGivesRecords == IndexInv => IndexFollowsRecords
BY DEF IndexInv, IndexFollowsRecords, Clean, Opens

\* The index of a file holds exactly the changes whose acceptance is on
\* record, but for the one a request has yet to record or to take back,
\* whatever decisions, scans, failures of tables and of git and rollbacks went
\* before; the files an undo changed and those of `torn` are left out.
THEOREM StagedIsDecided == Spec => []IndexFollowsRecords
<1>1. Init => IndexInv
  BY BaseAssumption
  DEF Init, IndexInv, Clean, Opens, Open, Staging, At, Free
<1>2. IndexInv /\ TypeInv /\ [Next]_vars => IndexInv'
  <2> SUFFICES ASSUME IndexInv, TypeInv, [Next]_vars PROVE IndexInv'
    OBVIOUS
  <2>1. ASSUME NEW p \in Requests, Request(p) PROVE IndexInv'
    BY <2>1, ApplyKeepsIndex, CommitKeepsIndex, AbortKeepsIndex,
       LoseCommitKeepsIndex, RollBackKeepsIndex, UndoKeepsIndex,
       OthersKeepIndex
    DEF Request, Decision
  <2> QED
    BY <2>1, RestartKeepsIndex, RestKeepsIndex DEF Next
<1>3. Spec => []TypeInv
  BY InitTypes, StepTypes, PTL DEF Spec
<1>4. Spec => []IndexInv
  BY <1>1, <1>2, <1>3, PTL DEF Spec
<1> QED
  BY <1>4, IndexInvGivesRecords, PTL
-----------------------------------------------------------------------------
(* A card on show is the change on disk.  The poller works on the diff it  *)
(* hashed; as long as nothing failed, a card is the diff the poller hashed *)
(* last unless the poller still has to save it, and a seen hash stands for *)
(* the very diff of the card.                                              *)

Polling(stages) == scan["poll"].stage \in stages
Saving(f) == Polling({"remember"}) /\ scan["poll"].file = f

\* What is left of the poller's round is part of what it hashed.
PollInv ==
  /\ Polling({"list", "prune", "forget"}) => scan["poll"].snap = lastHash
  /\ Polling({"save", "remember"}) =>
       \A f \in Files : scan["poll"].snap[f] \in {None, lastHash[f]}
  /\ Polling({"save"}) =>
       scan["poll"].todo = {f \in Files : scan["poll"].snap[f] # None}
  /\ \A f \in Files : Saving(f) => scan["poll"].snap[f] = lastHash[f]

\* The poller is past f, with the diff of f it hashed last.
Passed(f) ==
  /\ lastHash[f] # None
  /\ \/ Polling({"idle"})
     \/ Polling({"save", "remember"}) /\ scan["poll"].snap[f] = None

CurrentCard(f) ==
  card[f] # None =>
    /\ seen[f] # None => card[f] = seen[f] \/ Saving(f)
    /\ Saving(f) \/ Passed(f) => card[f] = lastHash[f]

CardInv ==
  /\ \A p \in Requests :
       act[p].stage \in {"reverted", "restored"} => act[p].file \in undone
  /\ failures = 0 => \A f \in Files \ undone : CurrentCard(f)

PollStays == UNCHANGED <<lastHash, scan["poll"]>>

\* The cards of a step that leaves the poller alone: gone, or as they were.
CardsStay ==
  /\ PollStays
  /\ failures' = 0 => failures = 0
  /\ \A f \in Files \ undone' :
       /\ f \notin undone
       /\ failures' = 0 => /\ card'[f] \in {None, card[f]}
                           /\ seen'[f] \in {None, seen[f]}

LEMMA CardsStayCurrent ==
  ASSUME CardsStay, failures = 0 => \A f \in Files \ undone : CurrentCard(f)
  PROVE  failures' = 0 => \A f \in Files \ undone' : CurrentCard(f)'
<1>1. \A f \in Files : Saving(f)' = Saving(f) /\ Passed(f)' = Passed(f)
  BY DEF CardsStay, PollStays, Saving, Passed, Polling
<1> QED
  BY <1>1 DEF CardsStay, PollStays, CurrentCard

LEMMA PollStaysRight ==
  ASSUME PollInv, PollStays PROVE PollInv'
BY DEF PollInv, PollStays, Polling, Saving

\* AfterPrune and Pruning leave the poller idle, or with the same diff.
LEMMA AfterPruneKinds ==
  ASSUME NEW snap \in DiffTable
  PROVE  LET c == AfterPrune("poll", snap) IN
         \/ /\ c.stage = "idle"
            /\ \A f \in Files : snap[f] = None
         \/ /\ c.stage = "save" /\ c.snap = snap
            /\ c.todo = {f \in Files : snap[f] # None}
BY DEF AfterPrune, Idle

LEMMA PruningKinds ==
  ASSUME NEW snap \in DiffTable, NEW rows
  PROVE  LET c == Pruning("poll", snap, rows) IN
         \/ c = AfterPrune("poll", snap)
         \/ c.stage = "prune" /\ c.snap = snap
BY DEF Pruning, Idle

\* The poller goes on from the diff it hashed, before it saves any.
LEMMA PruneMovesPoll ==
  ASSUME PollInv, UNCHANGED <<lastHash>>, lastHash \in DiffTable,
         NEW c,
         c = AfterPrune("poll", lastHash)
           \/ \E rows : c = Pruning("poll", lastHash, rows),
         scan'["poll"] = c
  PROVE  PollInv' /\ \A f \in Files : ~Saving(f)' /\ ~Passed(f)'
<1>1. \/ c.stage = "idle" /\ \A f \in Files : lastHash[f] = None
      \/ /\ c.stage = "save" /\ c.snap = lastHash
         /\ c.todo = {f \in Files : lastHash[f] # None}
      \/ c.stage = "prune" /\ c.snap = lastHash
  BY AfterPruneKinds, PruningKinds
<1> QED
  BY <1>1 DEF PollInv, Saving, Passed, Polling

LEMMA InitCards == Init => PollInv /\ CardInv
<1> SUFFICES ASSUME Init PROVE PollInv /\ CardInv
  OBVIOUS
<1>1. /\ scan["poll"].stage = "idle"
      /\ \A f \in Files : card[f] = None
      /\ \A p \in Requests : act[p].stage = "idle"
  BY DEF Init, Scanners, Idle, NoDiff, Free
<1> QED
  BY <1>1 DEF PollInv, CardInv, CurrentCard, Saving, Polling

LEMMA PollKeepsCards ==
  ASSUME TypeInv, PollInv, CardInv, Poll PROVE PollInv' /\ CardInv'
<1>1. /\ lastHash' = Diffs
      /\ scan'["poll"].stage = "list" /\ scan'["poll"].snap = Diffs
      /\ UNCHANGED <<card, failures, seen, act, undone>>
      /\ scan["poll"].stage = "idle"
  BY DEF Poll, TypeInv, ScansTyped, Scanners, Idle, tables, requests, history
<1> QED
  BY <1>1 DEF PollInv, CardInv, CurrentCard, Saving, Passed, Polling

LEMMA ScanKeepsCards ==
  ASSUME TypeInv, PollInv, CardInv, NEW s \in Scanners, Scan(s)
  PROVE  PollInv' /\ CardInv'
<1>0. /\ scan \in [Scanners -> Passages] /\ lastHash \in DiffTable
      /\ card \in DiffTable /\ seen \in DiffTable
      /\ failures \in Nat /\ "poll" \in Scanners
  BY DEF TypeInv, ScansTyped, TablesTyped, CountsTyped, Scanners
<1>1. UNCHANGED <<lastHash, act, undone>>
  BY DEF Scan, ListPending, PruneRow, PruneSeen, requests, history
<1>2. /\ failures' = 0 => failures = 0
      /\ \A f \in Files : /\ card'[f] \in {None, card[f]}
                         /\ seen'[f] \in {None, seen[f]}
  <2>1. CASE ListPending(s)
    BY <1>0, <2>1 DEF ListPending, Works, Fails
  <2>2. ASSUME NEW f \in Files, PruneRow(s, f)
        PROVE  /\ failures' = 0 => failures = 0
               /\ \A g \in Files : /\ card'[g] \in {None, card[g]}
                                  /\ seen'[g] \in {None, seen[g]}
    BY <1>0, <2>2 DEF PruneRow, Works, Fails, DiffTable
  <2>3. CASE PruneSeen(s)
    BY <1>0, <2>3 DEF PruneSeen, tables, DiffTable
  <2> QED
    BY <2>1, <2>2, <2>3 DEF Scan
<1>3. CASE s = "visit"
  <2>1. scan'["poll"] = scan["poll"]
    BY <1>0, <1>3 DEF Scan, ListPending, PruneRow, PruneSeen
  <2>2. CardsStay
    BY <1>1, <1>2, <2>1 DEF CardsStay, PollStays
  <2> QED
    BY <1>1, <2>2, CardsStayCurrent, PollStaysRight DEF CardInv, CardsStay
<1>4. CASE s = "poll"
  <2>1. Polling({"list", "prune", "forget"}) /\ scan["poll"].snap = lastHash
    BY <1>4 DEF Scan, ListPending, PruneRow, PruneSeen, PollInv, Polling
  <2>2. \A f \in Files : ~Saving(f)
    BY <2>1 DEF Saving, Polling
  <2>3. \/ \E c : /\ scan'["poll"] = c
                  /\ \/ c = AfterPrune("poll", lastHash)
                     \/ \E rows : c = Pruning("poll", lastHash, rows)
        \/ /\ scan'["poll"].stage = "forget"
           /\ scan'["poll"].snap = lastHash
    <3>1. \A c : scan' = [scan EXCEPT !["poll"] = c] => scan'["poll"] = c
      BY <1>0
    <3>2. CASE ListPending(s)
      BY <1>4, <2>1, <3>1, <3>2, Zenon DEF ListPending
    <3>3. CASE PruneSeen(s)
      BY <1>4, <2>1, <3>1, <3>3, Zenon DEF PruneSeen
    <3>4. ASSUME NEW f \in Files,
                 scan' = [scan EXCEPT !["poll"].stage = "forget",
                                      !["poll"].file = f]
          PROVE  /\ scan'["poll"].stage = "forget"
                 /\ scan'["poll"].snap = lastHash
      BY <1>0, <2>1, <3>4 DEF Passages
    <3>5. ASSUME NEW f \in Files, PruneRow(s, f),
                 ~(scan' = [scan EXCEPT !["poll"].stage = "forget",
                                        !["poll"].file = f])
          PROVE  \E rows : scan'["poll"] = Pruning("poll", lastHash, rows)
      BY <1>4, <2>1, <3>1, <3>5, Zenon DEF PruneRow
    <3> QED
      BY <3>2, <3>3, <3>4, <3>5, Zenon DEF Scan
  <2>4. PollInv' /\ \A f \in Files : ~Saving(f)' /\ ~Passed(f)'
    <3>1. CASE scan'["poll"].stage = "forget"
      BY <1>1, <2>3, <3>1, AfterPruneKinds, PruningKinds, <1>0
      DEF PollInv, Saving, Passed, Polling
    <3>2. CASE scan'["poll"].stage # "forget"
      BY <1>0, <1>1, <2>3, <3>2, PruneMovesPoll
    <3> QED
      BY <3>1, <3>2
  <2> QED
    BY <1>1, <1>2, <2>2, <2>4 DEF CardInv, CurrentCard
<1> QED
  BY <1>3, <1>4 DEF Scanners

\* The poller is done with f, whose card it knows to be current.
LEMMA SaveRestKeepsCards ==
  ASSUME TypeInv, PollInv, CardInv, NEW f \in Files,
         Polling({"save", "remember"}),
         scan'["poll"] = SaveRest(f),
         UNCHANGED <<lastHash, card, failures, act, undone>>,
         \A g \in Files : Saving(g) => g = f,
         \A g \in Files \ {f} : seen'[g] = seen[g],
         failures = 0 /\ f \notin undone /\ card[f] # None =>
           card[f] = lastHash[f] /\ (seen'[f] # None => card[f] = seen'[f])
  PROVE  PollInv' /\ CardInv'
<1> DEFINE snap == [scan["poll"].snap EXCEPT ![f] = None]
<1>0. scan["poll"].snap \in DiffTable
  BY DEF TypeInv, ScansTyped, Passages, Scanners
<1>1. snap \in DiffTable /\ snap[f] = None
      /\ \A g \in Files \ {f} : snap[g] = scan["poll"].snap[g]
  BY <1>0 DEF DiffTable
<1>2. \/ scan'["poll"].stage = "idle" /\ \A g \in Files : snap[g] = None
      \/ /\ scan'["poll"].stage = "save" /\ scan'["poll"].snap = snap
         /\ scan'["poll"].todo = {g \in Files : snap[g] # None}
  BY <1>1, AfterPruneKinds DEF SaveRest
<1>3. \A g \in Files : scan["poll"].snap[g] \in {None, lastHash[g]}
  BY DEF PollInv
<1> HIDE DEF snap
<1>4. PollInv'
  BY <1>1, <1>2, <1>3 DEF PollInv, Saving, Polling
<1>5. \A g \in Files \ {f} : Passed(g)' => Passed(g)
  BY <1>1, <1>2 DEF Passed, Polling
<1>6. \A g \in Files : ~Saving(g)'
  BY <1>2 DEF Saving, Polling
<1>7. CardInv'
  BY <1>5, <1>6 DEF CardInv, CurrentCard
<1> QED
  BY <1>4, <1>7

LEMMA SaveKeepsCards ==
  ASSUME TypeInv, PollInv, CardInv, NEW f \in Files, Save(f)
  PROVE  PollInv' /\ CardInv'
<1> DEFINE snap == scan["poll"].snap
<1>0. /\ scan \in [Scanners -> Passages] /\ card \in DiffTable
      /\ failures \in Nat /\ "poll" \in Scanners
  BY DEF TypeInv, ScansTyped, TablesTyped, CountsTyped, Scanners
<1>1. /\ Polling({"save"}) /\ f \in scan["poll"].todo
      /\ UNCHANGED <<seen, lastHash, act, undone>>
      /\ \A g \in Files : ~Saving(g)
  BY DEF Save, Polling, Saving, requests, history
<1>2. snap[f] = lastHash[f] /\ snap[f] # None
  BY <1>1 DEF PollInv, Polling
<1>3. CASE seen[f] = snap[f] /\ scan' = [scan EXCEPT !["poll"] = SaveRest(f)]
           /\ UNCHANGED tables
  <2>1. scan'["poll"] = SaveRest(f) /\ UNCHANGED <<card, failures>>
    BY <1>0, <1>3 DEF tables
  <2>2. failures = 0 /\ f \notin undone /\ card[f] # None =>
          card[f] = lastHash[f] /\ (seen'[f] # None => card[f] = seen'[f])
    BY <1>1, <1>2, <1>3 DEF CardInv, CurrentCard
  <2> QED
    BY <1>1, <2>1, <2>2, SaveRestKeepsCards DEF Polling
<1>4. CASE Works /\ card' = [card EXCEPT ![f] = snap[f]]
           /\ scan' = [scan EXCEPT !["poll"].stage = "remember",
                                   !["poll"].file = f]
  <2>1. /\ scan'["poll"].stage = "remember" /\ scan'["poll"].file = f
        /\ scan'["poll"].snap = snap
        /\ card'[f] = lastHash[f]
        /\ \A g \in Files \ {f} : card'[g] = card[g]
        /\ failures' = failures
    BY <1>0, <1>2, <1>4 DEF Works, DiffTable, Passages
  <2>2. PollInv'
    BY <1>1, <1>2, <2>1 DEF PollInv, Saving, Polling
  <2>3. \A g \in Files \ {f} : ~Saving(g)' /\ (Passed(g)' => Passed(g))
    BY <1>1, <2>1 DEF Saving, Passed, Polling
  <2>4. Saving(f)'
    BY <2>1 DEF Saving, Polling
  <2>5. CardInv'
    BY <1>1, <2>1, <2>3, <2>4 DEF CardInv, CurrentCard
  <2> QED
    BY <2>2, <2>5
<1>5. CASE Fails /\ scan' = [scan EXCEPT !["poll"] = SaveRest(f)]
  <2>1. scan'["poll"] = SaveRest(f) /\ failures' # 0
    BY <1>0, <1>5 DEF Fails
  <2>2. CardInv'
    BY <1>1, <2>1 DEF CardInv
  <2>3. PollInv'
    <3> DEFINE rest == [snap EXCEPT ![f] = None]
    <3>1. snap \in DiffTable
      BY <1>0 DEF Passages
    <3>2. rest \in DiffTable
      BY <3>1 DEF DiffTable
    <3>3. \A g \in Files : rest[g] \in {None, lastHash[g]}
      BY <1>1, <3>1 DEF PollInv, Polling, DiffTable
    <3>4. scan'["poll"] = AfterPrune("poll", rest)
      BY <2>1 DEF SaveRest
    <3> HIDE DEF rest
    <3>5. \/ scan'["poll"].stage = "idle"
          \/ /\ scan'["poll"].stage = "save" /\ scan'["poll"].snap = rest
             /\ scan'["poll"].todo = {g \in Files : rest[g] # None}
      BY <3>2, <3>4, AfterPruneKinds
    <3> QED
      BY <1>1, <3>3, <3>5 DEF PollInv, Saving, Polling
  <2> QED
    BY <2>2, <2>3
<1> QED
  BY <1>3, <1>4, <1>5 DEF Save

LEMMA RememberKeepsCards ==
  ASSUME TypeInv, PollInv, CardInv, Remember PROVE PollInv' /\ CardInv'
<1> DEFINE f == scan["poll"].file
<1>0. /\ scan \in [Scanners -> Passages] /\ seen \in DiffTable
      /\ "poll" \in Scanners
  BY DEF TypeInv, ScansTyped, TablesTyped, Scanners
<1>1. /\ Polling({"remember"})
      /\ UNCHANGED <<lastHash, card, failures, act, undone>>
      /\ seen' = [seen EXCEPT ![f] = scan["poll"].snap[f]]
      /\ scan' = [scan EXCEPT !["poll"] = SaveRest(f)]
  BY DEF Remember, Polling, tables, requests, history
<1>2. f \in Files /\ Saving(f) /\ \A g \in Files : Saving(g) => g = f
  BY <1>0, <1>1 DEF Saving, Polling, Passages
<1>3. scan["poll"].snap[f] = lastHash[f]
  BY <1>2 DEF PollInv
<1>4. /\ scan'["poll"] = SaveRest(f) /\ seen'[f] = lastHash[f]
      /\ \A g \in Files \ {f} : seen'[g] = seen[g]
  BY <1>0, <1>1, <1>2, <1>3 DEF DiffTable
<1>5. failures = 0 /\ f \notin undone /\ card[f] # None =>
        card[f] = lastHash[f]
  BY <1>2 DEF CardInv, CurrentCard
<1> QED
  BY <1>1, <1>2, <1>4, <1>5, SaveRestKeepsCards DEF Polling

LEMMA RequestKeepsCards ==
  ASSUME TypeInv, PollInv, CardInv, NEW p \in Requests, Request(p)
  PROVE  PollInv' /\ CardInv'
<1>0. /\ card \in DiffTable /\ seen \in DiffTable /\ failures \in Nat
      /\ undone \subseteq Files
  BY DEF TypeInv, TablesTyped, CountsTyped
<1>1. PollStays
  BY DEF PollStays, Request, Read, ReadDecided, Refuse, Apply, Commit, Abort,
         LoseCommit, RollBackLate, Archive, Notify, RefuseUndo, ApplyUndo,
         RestoreCard, ForgetDecided
<1>2. /\ undone' = undone \/ ApplyUndo(p)
      /\ failures' = failures \/ failures' = failures + 1
  BY DEF Request, Read, ReadDecided, Refuse, Apply, Commit, Abort, LoseCommit,
         RollBackLate, Archive, Notify, RefuseUndo, ApplyUndo, RestoreCard,
         ForgetDecided, Works, Fails, tables, history
<1>3. undone \subseteq undone'
  BY <1>2 DEF ApplyUndo
<1>4. \A f \in Files \ undone' : /\ card'[f] \in {None, card[f]}
                               /\ seen'[f] \in {None, seen[f]}
  <2>1. CASE Commit(p)
    BY <1>0, <2>1 DEF Commit, DiffTable
  <2>2. CASE Notify(p)
    BY <1>0, <2>2 DEF Notify, DiffTable, tables
  <2>3. CASE RestoreCard(p)
    <3>1. act[p].file \in undone
      BY <2>3 DEF CardInv, RestoreCard, At
    <3> QED
      BY <1>0, <1>3, <2>3, <3>1 DEF RestoreCard, DiffTable
  <2>4. CASE UNCHANGED <<card, seen>>
    BY <2>4
  <2> QED
    BY <2>1, <2>2, <2>3, <2>4
    DEF Request, Read, ReadDecided, Refuse, Apply, Abort, LoseCommit,
        RollBackLate, Archive, RefuseUndo, ApplyUndo, ForgetDecided, tables
<1>5. CardsStay
  BY <1>0, <1>1, <1>2, <1>3, <1>4 DEF CardsStay
<1>6. \A q \in Requests :
        act'[q].stage \in {"reverted", "restored"} => act'[q].file \in undone'
  <2>1. PICK c \in Calls : CallBecomes(p, c)
    BY RequestMoves
  <2>2. act'[p] = c /\ \A q \in Requests \ {p} : act'[q] = act[q]
    BY <2>1, OneCallMoves DEF CallBecomes
  <2>3. c.stage \in {"reverted", "restored"} => c.file \in undone'
    <3>1. CASE ApplyUndo(p)
      BY <2>2, <3>1, BecomesGives DEF ApplyUndo
    <3>2. CASE RestoreCard(p)
      BY <1>3, <2>2, <3>2, BecomesGives DEF RestoreCard, CardInv, At
    <3>3. ASSUME NEW stage \in {"applied", "failed", "committed", "archived"},
                 Becomes(p, stage)
          PROVE  c.stage \notin {"reverted", "restored"}
      BY <2>2, <3>3, BecomesGives
    <3>4. CASE Ends(p)
      BY <2>2, <3>4, EndsGives DEF Free
    <3>5. ASSUME NEW d, Begins(p, d), d.stage \in {"read", "undoing"}
          PROVE  c.stage \notin {"reverted", "restored"}
      BY <2>2, <3>5, OneCallMoves DEF Begins
    <3>6. CASE \E f \in Files : (\E how \in Decision : Read(p, f, how))
                             \/ ReadDecided(p, f)
      BY <3>5, <3>6 DEF Read, ReadDecided
    <3>7. CASE \/ Refuse(p) \/ Apply(p) \/ Commit(p) \/ Abort(p)
               \/ LoseCommit(p) \/ RollBackLate(p) \/ Archive(p)
               \/ Notify(p) \/ RefuseUndo(p) \/ ForgetDecided(p)
      BY <3>3, <3>4, <3>7
      DEF Refuse, Apply, Commit, Abort, RolledBack, NotRolledBack, LoseCommit,
          RollBackLate, Archive, Notify, RefuseUndo, ForgetDecided
    <3> QED
      BY <3>1, <3>2, <3>6, <3>7 DEF Request, Decision
  <2> QED
    BY <1>3, <2>2, <2>3 DEF CardInv
<1> QED
  BY <1>1, <1>5, <1>6, CardsStayCurrent, PollStaysRight DEF CardInv

LEMMA RestKeepsCards ==
  ASSUME TypeInv, PollInv, CardInv,
         \/ \E f \in Files, v \in Versions : Edit(f, v)
         \/ Visit \/ ListAccepted \/ MarkCommitted \/ UNCHANGED vars
  PROVE  PollInv' /\ CardInv'
<1>0. scan \in [Scanners -> Passages] /\ failures \in Nat
      /\ "poll" \in Scanners
  BY DEF TypeInv, ScansTyped, CountsTyped, Scanners
<1>1. /\ PollStays /\ UNCHANGED <<card, seen, act, undone>>
      /\ failures' = failures \/ failures' = failures + 1
  BY <1>0
  DEF Edit, Visit, ListAccepted, MarkCommitted, Works, Fails, vars, tables,
      requests, history, PollStays
<1>2. CardsStay
  BY <1>0, <1>1 DEF CardsStay
<1> QED
  BY <1>1, <1>2, CardsStayCurrent, PollStaysRight DEF CardInv

LEMMA RestartKeepsCards ==
  ASSUME TypeInv, PollInv, CardInv, Restart PROVE PollInv' /\ CardInv'
<1>1. /\ seen' = card /\ lastHash' = NoDiff
      /\ scan'["poll"] = Idle
      /\ act' = [p \in Requests |-> Free]
      /\ UNCHANGED <<card, failures, undone>>
  BY DEF Restart, Scanners, tables
<1> QED
  BY <1>1
  DEF PollInv, CardInv, CurrentCard, Saving, Passed, Polling, NoDiff, Idle,
      Free

LEMMA CardInvGivesNoStaleCard == CardInv => NoStaleCard
<1> SUFFICES ASSUME CardInv, Settled, failures = 0, NEW f \in Files \ undone,
                    card[f] # None, Diff(f) # None
             PROVE  card[f] = Diff(f)
  BY DEF NoStaleCard
<1>1. scan["poll"].stage = "idle" /\ lastHash[f] = Diff(f)
  BY DEF Settled, Scanners, Diffs
<1> QED
  BY <1>1 DEF CardInv, CurrentCard, Passed, Polling

\* Once the poller has settled, the pending card of a changed file holds its
\* current diff, whatever polls, reconnects, decisions and restarts went
\* before, while no table failed and but for the files of an undo.
THEOREM CardsAreCurrent == Spec => []NoStaleCard
<1> DEFINE Inv == PollInv /\ CardInv
<1>1. Init => Inv
  BY InitCards
<1>2. Inv /\ TypeInv /\ [Next]_vars => Inv'
  BY PollKeepsCards, ScanKeepsCards, SaveKeepsCards, RememberKeepsCards,
     RequestKeepsCards, RestKeepsCards, RestartKeepsCards
  DEF Next
<1>3. Inv => NoStaleCard
  BY CardInvGivesNoStaleCard
<1>4. Spec => []TypeInv
  BY InitTypes, StepTypes, PTL DEF Spec
<1> QED
  BY <1>1, <1>2, <1>3, <1>4, PTL DEF Spec
=============================================================================
