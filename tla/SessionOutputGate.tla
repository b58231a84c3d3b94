------------------------- MODULE SessionOutputGate --------------------------
(***************************************************************************)
(* sessionOutputGate (server/session_output_gate.go): the output of a PTY  *)
(* session whose creation is not finished is buffered, and forwarded or    *)
(* dropped when it is.  Two goroutines: captureOutput (pty/session.go)     *)
(* reads chunks and calls Callback for each; the handler of session.create *)
(* (handlers_sessions.go) or POST /api/session/new (session_api.go) calls  *)
(* Drop or Activate once.  g.mu is held around the fields and never across *)
(* a forward.                                                              *)
(***************************************************************************)
EXTENDS Naturals, Sequences

CONSTANT MaxChunks   \* bound of the run: chunks the terminal produces

ASSUME ChunksAssumption == MaxChunks \in Nat

VARIABLES
  creating,   \* the handler: "persist", "announced", "draining", "active"
              \* or "failed"
  read,       \* chunks read so far; a chunk is its number
  holding,    \* the chunk captureOutput is forwarding itself; 0 if none
  active, draining, dropped, buffered,   \* the fields of the gate
  batch,      \* Activate's local `buffered`: what it still has to forward
  sent        \* what went through g.forward

gate == <<active, draining, dropped, buffered>>
vars == <<creating, read, holding, gate, batch, sent>>

\* The fields of the gate follow the handler that sets them.
Flags ==
  /\ creating \in {"persist", "announced", "draining", "active", "failed"}
  /\ active = (creating = "active")
  /\ draining = (creating = "draining")
  /\ dropped = (creating = "failed")

Chunks ==
  /\ read \in 0..MaxChunks
  /\ holding \in 0..MaxChunks
  /\ buffered \in Seq(1..MaxChunks)
  /\ batch \in Seq(1..MaxChunks)
  /\ sent \in Seq(1..MaxChunks)

TypeOK == Flags /\ Chunks

Init ==
  /\ creating = "persist" /\ read = 0 /\ holding = 0
  /\ active = FALSE /\ draining = FALSE /\ dropped = FALSE
  /\ buffered = <<>> /\ batch = <<>> /\ sent = <<>>

-----------------------------------------------------------------------------
(* captureOutput and Callback.                                             *)

\* Wrong on purpose: the draining flag is not looked at.
ThroughOnceAnnounced == ~dropped /\ (draining \/ active)

\* Callback forwards a chunk itself only through an open gate.
Through == ~dropped /\ ~draining /\ active

Callback ==
  /\ holding = 0
  /\ read < MaxChunks
  /\ read' = read + 1
  /\ \/ /\ dropped
        /\ UNCHANGED <<buffered, holding>>
     \/ /\ ~dropped /\ ~Through
        /\ buffered' = Append(buffered, read + 1)
        /\ UNCHANGED holding
     \/ /\ Through
        /\ holding' = read + 1
        /\ UNCHANGED buffered
  /\ UNCHANGED <<creating, active, draining, dropped, batch, sent>>

Forward ==
  /\ holding # 0
  /\ sent' = Append(sent, holding)
  /\ holding' = 0
  /\ UNCHANGED <<creating, read, gate, batch>>

-----------------------------------------------------------------------------
(* The handler that creates the session.                                   *)

\* The session record is stored and session.created broadcast.
Announce ==
  /\ creating = "persist"
  /\ creating' = "announced"
  /\ UNCHANGED <<read, holding, gate, batch, sent>>

\* The session record cannot be stored.
Drop ==
  /\ creating = "persist"
  /\ creating' = "failed"
  /\ dropped' = TRUE
  /\ buffered' = <<>>
  /\ UNCHANGED <<read, holding, active, draining, batch, sent>>

\* The loop of Activate takes what is buffered ...
TakeBatch ==
  /\ batch' = buffered
  /\ buffered' = <<>>

Activate ==
  /\ creating = "announced"
  /\ creating' = "draining"
  /\ draining' = TRUE
  /\ TakeBatch
  /\ UNCHANGED <<read, holding, active, dropped, sent>>

\* ... forwards it chunk by chunk ...
ForwardBatch ==
  /\ creating = "draining"
  /\ batch # <<>>
  /\ sent' = Append(sent, Head(batch))
  /\ batch' = Tail(batch)
  /\ UNCHANGED <<creating, read, holding, gate>>

\* Wrong on purpose: the gate opens without a second look at the buffer.
EndBatchAtOnce ==
  /\ creating = "draining"
  /\ batch = <<>>
  /\ creating' = "active" /\ draining' = FALSE /\ active' = TRUE
  /\ UNCHANGED <<batch, buffered, read, holding, dropped, sent>>

\* ... and opens the gate only if nothing came in meanwhile.
EndBatch ==
  /\ creating = "draining"
  /\ batch = <<>>
  /\ \/ /\ buffered = <<>>
        /\ creating' = "active" /\ draining' = FALSE /\ active' = TRUE
        /\ UNCHANGED <<batch, buffered>>
     \/ /\ buffered # <<>>
        /\ TakeBatch
        /\ UNCHANGED <<creating, draining, active>>
  /\ UNCHANGED <<read, holding, dropped, sent>>

-----------------------------------------------------------------------------
Capture == Callback \/ Forward
Create == Announce \/ Drop \/ Activate \/ ForwardBatch \/ EndBatch

Next == Capture \/ Create

Spec == Init /\ [][Next]_vars

\* Both goroutines run; the terminal need not produce anything more.
FairSpec == Spec /\ WF_vars(Forward) /\ WF_vars(Create)

-----------------------------------------------------------------------------
(* Properties.                                                             *)

\* Where every chunk is: those sent, then the batch, then the buffer, then
\* the one in captureOutput's hands make up all that was read, in order, for
\* as long as the session has not failed.
Numbered(chunks, from) == \A i \in 1..Len(chunks) : chunks[i] = from + i

NothingLostOrReordered ==
  creating # "failed" =>
    LET s == Len(sent) b == Len(batch) f == Len(buffered)
    IN  /\ Numbered(sent, 0)
        /\ Numbered(batch, s)
        /\ Numbered(buffered, s + b)
        /\ holding # 0 => holding = s + b + f + 1
        /\ read = s + b + f + (IF holding = 0 THEN 0 ELSE 1)

\* The session as its clients see it.
SessionState ==
  CASE creating = "persist" -> "creating"
    [] creating = "failed" -> "failed"
    [] OTHER -> "announced"

\* The gate implements the promise of OutputStream.
Promise == INSTANCE OutputStream WITH state <- SessionState

ImplementsOutputStream == Promise!FairSpec
=============================================================================
