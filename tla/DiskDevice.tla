------------------------------ MODULE DiskDevice ------------------------------
(***************************************************************************)
(* The simulated disk of src/disk.c.  disk_cmd only schedules a transfer;  *)
(* the transfer itself happens later, in the handler of the timer's SIGIO, *)
(* which copies between the file and the buffer that the command named,    *)
(* whatever has become of that buffer since.  The timer may fire at any    *)
(* moment; TimerFires shows that the delay it is given lets it fire.       *)
(***************************************************************************)
EXTENDS Integers

CONSTANTS NumBlocks,  \* size of the disk in blocks
          Buffers,    \* the buffers user code passes
          NULL,       \* the null pointer
          Data        \* what a block or a buffer can hold

ASSUME DeviceAssumption ==
  /\ NumBlocks \in Nat \ {0}
  /\ NULL \notin Buffers

DISK_DELAY_MIN == 30
DISK_DELAY_MAX == 300
Spread == DISK_DELAY_MAX - DISK_DELAY_MIN

\* disk_settimer multiplies ints: a disk has less than eight million blocks.
ASSUME DelayAssumption == NumBlocks * Spread <= 2147483647

VARIABLES status,     \* "idle", "read" or "write"
          devBuffer,  \* buffer of the scheduled transfer
          nextBlock,  \* block of the scheduled transfer
          prevBlock,  \* block of the last transfer: where the arm is
          content,    \* content[b]: the disk file
          memory      \* memory[p]: the user's buffers

deviceVars == <<status, devBuffer, nextBlock, prevBlock, content, memory>>

Blocks == 0 .. NumBlocks - 1

DeviceTypeOK ==
  /\ status \in {"idle", "read", "write"}
  /\ devBuffer \in Buffers \cup {NULL}
  /\ nextBlock \in Blocks
  /\ prevBlock \in Blocks
  /\ content \in [Blocks -> Data]
  /\ memory \in [Buffers -> Data]
  /\ status # "idle" => devBuffer \in Buffers

\* disk_init, with the file and the buffers holding what they are given.
DeviceInit(disk0, memory0) ==
  /\ status = "idle"
  /\ devBuffer = NULL
  /\ nextBlock = 0
  /\ prevBlock = 0
  /\ content = disk0
  /\ memory = memory0

\* The three tests before a read or a write is scheduled.
Accepts(block, buffer) ==
  /\ status = "idle"
  /\ buffer # NULL
  /\ block \in Blocks

\* disk_cmd(DISK_CMD_READ or DISK_CMD_WRITE, block, buffer) that returns 0.
DiskCmd(op, block, buffer) ==
  /\ Accepts(block, buffer)
  /\ status' = op
  /\ devBuffer' = buffer
  /\ nextBlock' = block
  /\ UNCHANGED <<prevBlock, content, memory>>

\* A bug to catch: the way of the arm with its sign.
Mut_TravelSigned == nextBlock - prevBlock

\* How far the arm goes for the scheduled transfer.
Travel == IF nextBlock < prevBlock THEN prevBlock - nextBlock ELSE nextBlock - prevBlock

\* random () % (disk.delay_max - disk.delay_min) / 10
RandomTerm == {r \div 10 : r \in 0 .. Spread - 1}

\* The delay that disk_settimer computes, in milliseconds.
time_ms(random) == (Travel * Spread) \div NumBlocks + DISK_DELAY_MIN + random

\* A bug to catch: the transfer is at the block where the arm was.
Mut_DiskSigHandleAtPrev ==
  /\ status # "idle"
  /\ content' = IF status = "write"
                THEN [content EXCEPT ![prevBlock] = memory[devBuffer]] ELSE content
  /\ memory' = IF status = "read"
               THEN [memory EXCEPT ![devBuffer] = content[prevBlock]] ELSE memory
  /\ prevBlock' = nextBlock
  /\ status' = "idle"
  /\ UNCHANGED <<devBuffer, nextBlock>>

\* disk_sighandle: the transfer happens now.
DiskSigHandle ==
  /\ status # "idle"
  /\ content' = IF status = "write"
                THEN [content EXCEPT ![nextBlock] = memory[devBuffer]] ELSE content
  /\ memory' = IF status = "read"
               THEN [memory EXCEPT ![devBuffer] = content[nextBlock]] ELSE memory
  /\ prevBlock' = nextBlock
  /\ status' = "idle"
  /\ UNCHANGED <<devBuffer, nextBlock>>

\* disk_settimer, for a transfer under way and any random term: the arithmetic stays within an
\* int; the delay is never 0, which would disarm the timer and leave the caller asleep; the whole
\* of it, which is what tv_nsec gets, is below a second, so that timer_settime does not refuse
\* it.  It exceeds DISK_DELAY_MAX by no more than the random term.
TimerFires ==
  status # "idle" => \A random \in RandomTerm :
    /\ Travel * Spread <= 2147483647
    /\ DISK_DELAY_MIN <= time_ms(random)
    /\ time_ms(random) < DISK_DELAY_MAX + random
    /\ time_ms(random) * 1000000 <= 999999999

=============================================================================
