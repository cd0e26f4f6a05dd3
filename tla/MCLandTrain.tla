---------------------------- MODULE MCLandTrain ----------------------------
(***************************************************************************)
(* Every run of N branches whose blockers come first, in which any of the  *)
(* branches fails alone, any two break each other until the later one is   *)
(* fixed, and two may clash; on a target that passes, or that fails already.     *)
(***************************************************************************)
EXTENDS LandTrain

MCPairs == {p \in Entries \X Entries : p[1] < p[2]}
MCBlocking == {b \in [Entries -> SUBSET Entries] : \A e \in Entries : \A d \in b[e] : d < e}
MCAlone == {[by |-> {<<e, 1>>}, fixed |-> {<<e, 2>>}] : e \in Entries}
MCTogether == {[by |-> {<<p[1], 1>>, <<p[2], 1>>}, fixed |-> {<<p[2], 2>>}] : p \in MCPairs}
MCBad == [by |-> {<<0, 1>>}, fixed |-> {}]
MCClashes == {{}} \cup {{{<<p[1], 1>>, <<p[2], 1>>}} : p \in MCPairs}

MCWorks ==
    {[blockedBy |-> b, base |-> {}, breaks |-> k, clashes |-> c] :
        b \in MCBlocking, k \in SUBSET (MCAlone \cup MCTogether), c \in MCClashes}
    \cup {[blockedBy |-> b, base |-> {<<0, 1>>}, breaks |-> {MCBad}, clashes |-> c] :
        b \in MCBlocking, c \in MCClashes}
=============================================================================
