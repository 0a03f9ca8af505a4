----------------------------- MODULE MCHeadroom -----------------------------
(***************************************************************************)
(* Two workflows whose prompts share blocks, a cache of three blocks and a *)
(* preparation budget that runs out.                                       *)
(***************************************************************************)
EXTENDS Headroom, TLC

CONSTANTS w1, w2, a, b

MCArrival == w1 :> 0 @@ w2 :> 1
MCTurnsOf == w1 :> 2 @@ w2 :> 2

Prefix(at, prefix) == [at |-> at, cancel |-> FALSE, prefix |-> prefix]
Cancel(at) == [at |-> at, cancel |-> TRUE, prefix |-> <<>>]

MCFirstTurns ==
    [prompt : {<<a>>}, generated : {<<b>>}, wait : {0}, decode : {1},
     intent : {<<>>}, updates : {<<>>}]

(* Right, wrong and over-long announcements, revisions, cancellations. *)
MCLaterTurns ==
    {t \in [prompt : {<<b, b>>, <<a, b>>}, generated : {<<>>, <<a>>}, wait : {1, 5},
            decode : {1}, intent : {<<a, b>>, <<b, b, a>>},
            updates : {<<>>, <<Cancel(1)>>,
                       <<Prefix(0, <<b, b, a>>), Prefix(3, <<a, b, a>>)>>,
                       <<Prefix(0, <<a, a>>), Cancel(2)>>}] :
        \A u \in DOMAIN t.updates : t.updates[u].at =< t.wait}
=============================================================================
