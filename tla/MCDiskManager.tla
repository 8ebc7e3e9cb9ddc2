---------------------------- MODULE MCDiskManager ----------------------------
(***************************************************************************)
(* Instances of DiskManager for TLC: client programs over a four-block     *)
(* disk, chosen in the cfg files.                                          *)
(***************************************************************************)
EXTENDS DiskManager, DiskTests, TLC

CONSTANTS c1, c2, c3, b1, b2, b3, b4

\* Three clients, one of them with a second call after one that is out of the disk.
MCThree == c1 :> <<Read(3, b1)>> @@ c2 :> <<Read(4, b2), Write(1, b2)>> @@ c3 :> <<Write(2, b3)>>

\* Three clients whose calls are all valid.
MCValid == c1 :> <<Read(3, b1), Write(0, b1)>> @@ c2 :> <<Read(2, b2), Read(1, b2)>>
           @@ c3 :> <<Write(2, b3)>>

\* pingpong-disco2.c with two movers, each swapping two blocks.
MCSwap == LET movers == disco2(4, 2, <<b1, b3>>, <<b2, b4>>) IN c1 :> movers[0] @@ c2 :> movers[1]

\* One client: blocks copied and refused calls, then pingpong-disco1.c.
MCAlone == c1 :> <<Read(2, b1), Write(3, b1), Read(4, b1), Write(0, NULL), Read(1, b2),
                   Write(2, b2), Read(3, b2), Write(-1, b2), Read(0, b1)>> \o disco1(4, b3)

MCDisk0 == [b \in Blocks |-> b]
MCMemory0 == [p \in Buffers |-> 9]

=============================================================================
