------------------------------ MODULE DiskTests ------------------------------
(***************************************************************************)
(* The disk calls of src/pingpong-disco1.c and src/pingpong-disco2.c, in   *)
(* the form DiskManager's clients take them.  What the programs print and  *)
(* the random bytes disco1 fills its buffer with are left out.             *)
(***************************************************************************)
EXTENDS Integers, Sequences

Read(b, p) == [op |-> "read", block |-> b, buffer |-> p]
Write(b, p) == [op |-> "write", block |-> b, buffer |-> p]

\* pingpong-disco1.c: main reads every block and then writes every block, with one buffer.
disco1(numblocks, buffer) ==
  [i \in 1 .. numblocks |-> Read(i - 1, buffer)] \o [i \in 1 .. numblocks |-> Write(i - 1, buffer)]

\* pingpong-disco2.c: mover myNumber swaps its blocks of the lower half, upwards, with those
\* as far from the end of the disk, downwards.
moverBody(myNumber, numblocks, numtasks, buffer1, buffer2) ==
  LET blocksPerTask == (numblocks \div numtasks) \div 2
      Swap(i) ==
        LET block_orig == myNumber * blocksPerTask + i
            block_dest == numblocks - 1 - block_orig
        IN  <<Read(block_orig, buffer1), Read(block_dest, buffer2),
              Write(block_dest, buffer1), Write(block_orig, buffer2)>>
  IN  [k \in 1 .. 4 * blocksPerTask |-> Swap((k - 1) \div 4)[((k - 1) % 4) + 1]]

\* Its main creates the movers and joins them; each has buffers of its own.
disco2(numblocks, numtasks, buffers1, buffers2) ==
  [myNumber \in 0 .. numtasks - 1 |->
     moverBody(myNumber, numblocks, numtasks, buffers1[myNumber + 1], buffers2[myNumber + 1])]

=============================================================================
