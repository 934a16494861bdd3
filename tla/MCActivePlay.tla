---------------------------- MODULE MCActivePlay ----------------------------
(***************************************************************************)
(* A target, a cannon and two polygons; frames have room for one object of *)
(* each kind, and datagrams for one acknowledgement.                       *)
(***************************************************************************)
EXTENDS ActivePlay

OneTarget == <<"t1">>
OneCannon == <<"c1">>
TwoPolygons == <<"p1", "p2">>
Traffic(changing, moving, watched, keys, talks) ==
    [changing |-> changing, moving |-> moving, watched |-> watched,
     keys |-> keys, talks |-> talks]
AllTraffics == {
    Traffic({"t1"}, {"t1"}, "t1", 0, 0),
    Traffic({"c1"}, {"c1"}, "c1", 0, 0),
    Traffic({"p1"}, {}, "p2", 0, 0),
    Traffic({}, {}, "c1", 2, 0),
    Traffic({}, {}, "c1", 0, 2),
    Traffic({}, {}, "c1", 1, 1)
}
=============================================================================
