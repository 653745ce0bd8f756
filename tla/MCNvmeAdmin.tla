---------------------------- MODULE MCNvmeAdmin -----------------------------
(* Small devices and hosts for NvmeAdmin. *)
EXTENDS NvmeAdmin

(* One that talks much, one that resets, one that does both a little. *)
Q(sq, cq) == [sq |-> sq, cq |-> cq]
Plain == {Cmd("id_list", 0), Cmd("id_ns", 1), Cmd("abort", 0), Cmd("unknown", 0)}
Drivers ==
    {[aqas |-> {Q(3, 3)}, wants |-> {3}, cmds |-> Plain, boots |-> 1, others |-> 1],
     [aqas |-> {Q(2, 3), Q(3, 2)}, wants |-> {3}, cmds |-> {}, boots |-> 2, others |-> 0],
     [aqas |-> {Q(3, 3)}, wants |-> {1}, cmds |-> {Cmd("id_list", 1)}, boots |-> 2, others |-> 1]}

(* Each of them on a device with two namespaces, and other devices that    *)
(* only show their layout.                                                 *)
Device(memmap, slm, caps, pcent) ==
    [memmap |-> memmap, slm |-> slm, caps |-> caps, pcent |-> pcent]
Idle == CHOOSE h \in Drivers : h.boots = 1
SmallSetups ==
    {[par |-> Device(9, 3, <<2, 0>>, 107), hp |-> h] : h \in Drivers}
    \cup {[par |-> Device(12, slm, caps, pcent), hp |-> [Idle EXCEPT !.boots = 0]] :
             slm \in {1, 5, 10}, caps \in {<<0>>, <<3, 0>>, <<3, 4>>, <<20, 0>>}, pcent \in {100, 107}}
=============================================================================
