-------------------------- MODULE MCTemporalEpisode --------------------------
(***************************************************************************)
(* Five sessions of at most six facts, each in every order in which no     *)
(* fact is overtaken by more than Displacement others, with the first fact *)
(* delivered again at the end: a download that is executed twice, an       *)
(* exfiltration that competes with a second file, a breakout, a            *)
(* destruction, and a credential used for persistence and lateral moves.   *)
(***************************************************************************)
EXTENDS TemporalEpisode

CONSTANTS f1, f2, p1, t1, t2

CONSTANT Displacement

Sig(o, t, f, x, p) ==
    [op |-> o, time |-> t, file |-> f, scope |-> p1, target |-> x, privileged |-> p]

\* In the order of time; each session uses some of them.
MCSignal == <<
    Sig("download", 1, f1, None, FALSE), Sig("file_read", 1, f1, None, TRUE),
    Sig("target_discovery", 1, None, t1, FALSE), Sig("sandbox_probe", 1, None, None, FALSE),

    Sig("file_write", 2, f1, None, FALSE), Sig("chmod", 2, f1, None, FALSE),
    Sig("encode", 2, f1, None, FALSE), Sig("privilege_change", 2, None, None, FALSE),
    Sig("persistence_write", 2, f1, t1, FALSE), Sig("remote_connect", 2, f1, t2, FALSE),

    Sig("chmod", 3, f1, None, FALSE), Sig("file_read", 3, f2, None, TRUE),
    Sig("destroy", 3, None, t2, FALSE), Sig("remote_copy", 3, f1, t2, FALSE),

    Sig("execute", 4, f1, None, FALSE), Sig("egress", 4, None, None, TRUE),
    Sig("destroy", 4, None, t2, FALSE), Sig("persistence_activate", 4, f1, t1, FALSE),

    Sig("execute", 5, f1, None, FALSE), Sig("egress", 6, None, None, TRUE)>>

MCWithin == {<<t1, t1>>, <<t2, t2>>, <<t1, t2>>}

\* The orders of a session, its first fact again at the end.
Orders(session) ==
    {[i \in DOMAIN session |-> session[q[i]]] \o <<session[1]>> :
        q \in {p \in [DOMAIN session -> DOMAIN session] :
                 /\ \A i, j \in DOMAIN p : i # j => p[i] # p[j]
                 /\ \A i \in DOMAIN p : p[i] \in (i - Displacement)..(i + Displacement)}}

MCInputs ==
    UNION {Orders(session) : session \in
              {<<1, 5, 6, 11, 15, 19>>, <<2, 7, 12, 16, 20>>,
               <<3, 4, 8, 17>>, <<3, 13, 17>>, <<2, 9, 10, 14, 18>>}}
=============================================================================
