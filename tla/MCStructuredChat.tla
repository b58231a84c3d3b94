--------------------------- MODULE MCStructuredChat ---------------------------
(* The parts of the structured chat for TLC: an approval, a reader and a    *)
(* prompt that merge, a provider file that is rewritten, one restart of the *)
(* host; the pipeline of a session, two connections of a device and two     *)
(* requests; one connection, whose pipeline is stopped and made again; a    *)
(* file of three events.                                                    *)
EXTENDS StructuredChat, TLC

CONSTANTS a1, reader, prompter, p1, p2, c1, c2

MCMergers == {reader, prompter}
MCProviderViews == {{p1}, {p2}}
MCConns == {c1, c2}
MCRestartConns == {c1}
OneDevice == c1 :> "d" @@ c2 :> "d"
=============================================================================
