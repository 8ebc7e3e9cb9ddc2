----------------------------- MODULE BlockDevice -----------------------------
(***************************************************************************)
(* What disk_block_read and disk_block_write promise a caller: the call    *)
(* transfers its block at one instant between its invocation and its       *)
(* return, and a call that names no block or no buffer transfers nothing.  *)
(***************************************************************************)
EXTENDS Integers, Sequences

CONSTANTS Clients, Program, Blocks, NULL, Disk0, Memory0

VARIABLES disk,    \* the blocks
          memory,  \* the callers' buffers
          phase,   \* phase[c]: "out" of a call, "called" or "transferred"
          call     \* call[c]: index of the current or next call

vars == <<disk, memory, phase, call>>

Init ==
  /\ disk = Disk0
  /\ memory = Memory0
  /\ phase = [c \in Clients |-> "out"]
  /\ call = [c \in Clients |-> 1]

Possible(p) == p.block \in Blocks /\ p.buffer # NULL

\* disk and memory after the transfer of a call with parameters p.
Move(p) ==
  \/ /\ p.op = "read"
     /\ memory' = [memory EXCEPT ![p.buffer] = disk[p.block]]
     /\ UNCHANGED disk
  \/ /\ p.op = "write"
     /\ disk' = [disk EXCEPT ![p.block] = memory[p.buffer]]
     /\ UNCHANGED memory

Invoke(c) ==
  /\ phase[c] = "out"
  /\ call[c] \in DOMAIN Program[c]
  /\ phase' = [phase EXCEPT ![c] = "called"]
  /\ UNCHANGED <<disk, memory, call>>

Transfer(c) ==
  /\ phase[c] = "called"
  /\ Possible(Program[c][call[c]])
  /\ Move(Program[c][call[c]])
  /\ phase' = [phase EXCEPT ![c] = "transferred"]
  /\ UNCHANGED call

Return(c) ==
  /\ phase[c] # "out"
  /\ phase[c] = "transferred" \/ ~Possible(Program[c][call[c]])
  /\ phase' = [phase EXCEPT ![c] = "out"]
  /\ call' = [call EXCEPT ![c] = @ + 1]
  /\ UNCHANGED <<disk, memory>>

Next == \E c \in Clients : Invoke(c) \/ Transfer(c) \/ Return(c)

Spec == Init /\ [][Next]_vars

=============================================================================
