------------------------------ MODULE MCSessions ------------------------------
(* The sessions of the host for TLC: a connection, two PTY sessions or one  *)
(* and a tmux session with room for one, the row of an earlier session, a   *)
(* file that belongs to another agent.                                      *)
(* The instants are 0, 0.5 and 0.51 of a second and 0 of the next, and      *)
(* local time is a second ahead of UTC.  01.51Z < 01.5Z < 01Z < 02+ < 02.5+ *)
(* < 02.51+ < 02Z < 03+ is the order of their texts.                        *)
EXTENDS HostSessions

CONSTANTS c1, s1, s2, t1, host, old, other

MCConns == {c1}
MCIds == {s1, s2, t1}
MCTmuxIds == {t1}
MCOpenings == {{s1, s2}, {s1, t1}}
MCEarlier == {old}
MCInstants == 1..4
MCSecond == <<1, 1, 1, 2>>
MCTextOrder == [local \in BOOLEAN |-> IF local THEN <<4, 5, 6, 8>>
                                               ELSE <<3, 2, 1, 7>>]
MCAgents == {s1}
MCOthers == {other}
=============================================================================
