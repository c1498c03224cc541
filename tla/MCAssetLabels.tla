---------------------------- MODULE MCAssetLabels ----------------------------
(* The requests of a small instance: bodies cannot be written in a .cfg.   *)
EXTENDS AssetLabels, TLC

CONSTANTS a1, a2, l1, l2, l3, b1, b2, bx, c1, c2

Request(kind, at, c, columns, lists) ==
    [kind |-> kind, at |-> at, coll |-> c, columns |-> columns, lists |-> lists]
List(part, items) == [part |-> part, items |-> items]
Update(c, columns, lists) == Request("updateAsset", a1, c, columns, lists)

MCOps ==
    {Request("createAsset", a2, c1, TRUE, <<List("stigs", <<b1>>), List("labels", <<l1, l2>>)>>),
     Request("createAsset", a2, c2, TRUE, <<List("stigs", <<bx>>), List("labels", <<>>)>>),
     Update(NULL, FALSE, <<List("stigs", <<b1>>), List("labels", <<l3, l1>>)>>),
     Update(NULL, TRUE, <<List("stigs", <<b1, b2>>), List("labels", <<>>)>>),
     Update(NULL, TRUE, <<List("stigs", <<b2>>), List("labels", <<l1>>)>>),
     Update(c2, TRUE, <<>>),
     Update(c2, TRUE, <<List("labels", <<l2>>)>>),
     Update(c1, TRUE, <<List("labels", <<l1>>)>>),
     Request("deleteAsset", a1, NULL, FALSE, <<>>),
     Request("createLabels", NULL, c1, FALSE, <<List("labels", <<l3>>)>>),
     Request("deleteLabel", l1, c1, FALSE, <<>>),
     Request("setAssets", l1, c1, FALSE, <<List("assets", <<a1, a2>>)>>),
     Request("setAssets", l1, c1, FALSE, <<List("assets", <<a1>>)>>),
     Request("setAssets", l2, c2, FALSE, <<List("assets", <<a1, a1>>)>>)}

State(assets, S) ==
    [asset |-> assets @@ [a \in Assets |-> NULL],
     label |-> (l1 :> c1) @@ (l2 :> c2) @@ (l3 :> NULL),
     links |-> {Link(NULL, k[1], k[2], 0) : k \in S}]
In(c) == [coll |-> c, enabled |-> TRUE]
MCAtFirst ==
    {State(a1 :> In(c1), {}),
     State(a1 :> In(c1), {<<l1, a1>>, <<b1, a1>>}),
     State((a1 :> In(c2)) @@ (a2 :> In(c1)), {<<l2, a1>>, <<l1, a2>>})}
=============================================================================
