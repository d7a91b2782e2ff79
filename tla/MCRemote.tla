------------------------------ MODULE MCRemote ------------------------------
(* Two sessions, of two operators, both at once or one after the other, or *)
(* one session whose network breaks.                                       *)
EXTENDS RemoteSession, TLC

CONSTANTS s1, s2

World(d1, n1, d2, n2, n, max, asks, dies) ==
    [does |-> s1 :> d1 @@ s2 :> d2, offers |-> s1 :> n1 @@ s2 :> n2, prompts |-> n, room |-> max,
     consent |-> asks, faults |-> dies]

MCWorlds == { World("screen", 1, "screen", 1, 1, 2, FALSE, TRUE),
              World("screen", 1, "shell", 1, 1, 1, TRUE, FALSE),
              World("screen", 2, "screen", 0, 1, 1, TRUE, FALSE),
              World("screen", 1, "screen", 0, 2, 1, TRUE, TRUE),
              World("shell", 2, "screen", 0, 1, 1, FALSE, FALSE) }
=============================================================================
