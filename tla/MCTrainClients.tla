-------------------------- MODULE MCTrainClients --------------------------
(***************************************************************************)
(* Two clients of one train: p lands "a" and "d", which is blocked by "a", *)
(* and q lands "b".  The first commit of "a" fails the checks alone and is *)
(* fixed by its repair, "a" and "b" break each other, "b" clashes with an  *)
(* outside push, and another outside push breaks the target until a third. *)
(***************************************************************************)
EXTENDS TrainClients

MCOwner == [b \in Branches |-> IF b = "b" THEN "q" ELSE "p"]
MCBlockedBy == [b \in Branches |-> IF b = "d" THEN {"a"} ELSE {}]
MCWorktrees == [c \in Clients |-> IF c = "q" THEN SelectSeq(<<"b">>, LAMBDA x : x \in Branches)
                                            ELSE SelectSeq(<<"a", "d">>, LAMBDA x : x \in Branches)]

MCOutside1 == {<<"out", 1>>}

MCBreakages == {[by |-> {<<"a", 1>>}, fixed |-> {<<"a", 2>>}],
                [by |-> {<<"d", 1>>, <<"b", 1>>}, fixed |-> {<<"b", 2>>, <<"d", 2>>}],
                [by |-> {<<"out", 1>>}, fixed |-> {<<"out", 2>>}]} 
MCClashes == {k \in {{<<"b", 1>>, <<"out", 1>>}} : k \subseteq Pieces}
MCBreak == {[by |-> k.by, fixed |-> k.fixed \cap Pieces] : k \in {x \in MCBreakages : x.by \subseteq Pieces}}
=============================================================================
