---------------------------- MODULE BlockDevice ----------------------------
(***************************************************************************)
(* What an SD card promises to the machine in the FPGA: a memory of        *)
(* sectors, one command at a time, a read returns what the last write to   *)
(* that sector stored, a write that is acknowledged has been stored.       *)
(***************************************************************************)
EXTENDS Integers

CONSTANTS
    CardSize,      \* number of sectors
    Data,          \* contents of a sector
    InitCard       \* contents of the card at power-up

VARIABLES
    mem,           \* contents of the sectors
    op             \* the command in progress

Stored == 0 .. CardSize - 1
Addresses == 0 .. CardSize          \* one past the end may be asked for

Idle == [kind |-> "idle"]

BDInit ==
    /\ mem = InitCard
    /\ op = Idle

StartRead(l) ==
    /\ op = Idle
    /\ op' = [kind |-> "read", lba |-> l]
    /\ UNCHANGED mem

(* A sector past the end of the card reads as anything. *)
AnswerRead ==
    /\ op.kind = "read"
    /\ \E d \in IF op.lba \in Stored THEN {mem[op.lba]} ELSE Data :
         op' = [kind |-> "data", lba |-> op.lba, data |-> d]
    /\ UNCHANGED mem

StartWrite(l, d) ==
    /\ op = Idle
    /\ op' = [kind |-> "write", lba |-> l, data |-> d]
    /\ UNCHANGED mem

AnswerWrite ==
    /\ op.kind = "write"
    /\ mem' = IF op.lba \in Stored
              THEN [mem EXCEPT ![op.lba] = op.data] ELSE mem
    /\ op' = [kind |-> "written"]

Finish ==
    /\ op.kind \in {"data", "written"}
    /\ op' = Idle
    /\ UNCHANGED mem

BDNext ==
    \/ \E l \in Addresses : StartRead(l) \/ \E d \in Data : StartWrite(l, d)
    \/ AnswerRead
    \/ AnswerWrite
    \/ Finish

BDVars == <<mem, op>>

BDSpec == BDInit /\ [][BDNext]_BDVars /\ WF_BDVars(AnswerRead \/ AnswerWrite)
=============================================================================
