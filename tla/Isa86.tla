------------------------------- MODULE Isa86 -------------------------------
(***************************************************************************)
(* What the simulator promises: the instructions of an 8086 over one byte  *)
(* wide memory cells.  There is one program counter, one rule for effective *)
(* addresses and one rule for operands, results and flags, where the code  *)
(* has a branch for each operation and each form of its operands.          *)
(*                                                                         *)
(* Beyond the end of memory the machine gives up, and of an instruction it *)
(* does not know it promises nothing, then or later.                       *)
(***************************************************************************)
EXTENDS Integers, Sequences

CONSTANTS
  ByteMod, WordMod, Decode, Images,
  Known  \* the first bytes of the instructions there are

VARIABLES status, memory, registers, zf, sf, pc

vars == <<status, memory, registers, zf, sf, pc>>

Addresses == 0 .. WordMod - 1

Init ==
  /\ status = "started"
  /\ memory = [a \in Addresses |-> 0]
  /\ registers = [r \in 0 .. 8 |-> 0]
  /\ zf = 0 /\ sf = 0 /\ pc = 0

Start(image) ==
  /\ status = "started"
  /\ Len(image) <= WordMod
  /\ status' = "running"
  /\ memory' = [a \in Addresses |-> IF a < Len(image) THEN image[a + 1] ELSE 0]
  /\ UNCHANGED <<registers, zf, sf, pc>>

Current == Decode[memory[pc]]

\* The sum of the base, the second register and the displacement.
EffectiveAddress(o) == registers[o.Index] + registers[o.Term] + o.Displacement

Value(o) ==
  CASE o.Type = "Register" -> registers[o.Index]
    [] o.Type = "Memory" -> memory[EffectiveAddress(o)]
    [] OTHER -> o.Index

Reachable(o) == o.Type = "Memory" => EffectiveAddress(o) \in Addresses

Result(op, x, y) ==
  CASE op = "mov" -> y % WordMod
    [] op = "add" -> (x + y) % WordMod
    [] OTHER -> (x - y) % WordMod

Write(o, value) ==
  /\ registers' = IF o.Type = "Register"
                  THEN [registers EXCEPT ![o.Index] = value] ELSE registers
  /\ memory' = IF o.Type = "Memory"
               THEN [memory EXCEPT ![EffectiveAddress(o)] = value % ByteMod] ELSE memory

Fetched == status = "running" /\ pc \in Addresses /\ memory[pc] # 0

Executing == Fetched /\ memory[pc] \in Known

Operate(op) ==
  LET i == Current
      result == Result(op, Value(i.First), Value(i.Second))
  IN
  /\ Executing
  /\ i.Op = op
  /\ Reachable(i.First) /\ Reachable(i.Second)
  /\ IF op = "cmp" THEN UNCHANGED <<registers, memory>> ELSE Write(i.First, result)
  /\ IF op = "mov" THEN UNCHANGED <<zf, sf>>
     ELSE /\ zf' = IF result = 0 THEN 1 ELSE 0
          /\ sf' = IF result >= WordMod \div 2 THEN 1 ELSE 0
  /\ pc' = pc + i.Size
  /\ UNCHANGED status

Branch ==
  LET i == Current
      fallThrough == pc + i.Size
  IN
  /\ Executing
  /\ i.Op = "jne"
  /\ pc' = IF zf = 0 THEN (fallThrough + i.First.Index) % WordMod ELSE fallThrough
  /\ UNCHANGED <<status, memory, registers, zf, sf>>

Ignore ==
  /\ Executing
  /\ Current.Op = "other"
  /\ pc' = pc + Current.Size
  /\ UNCHANGED <<status, memory, registers, zf, sf>>

Stop ==
  /\ \/ status = "started"
     \/ status = "running" /\ pc \in Addresses /\ memory[pc] = 0
  /\ status' = "halted"
  /\ UNCHANGED <<memory, registers, zf, sf, pc>>

\* A program that does not fit, an instruction past the end of memory or an
\* operand outside of it.
GiveUp ==
  /\ \/ status = "started" /\ \E image \in Images : Len(image) > WordMod
     \/ status = "running" /\ pc \notin Addresses
     \/ Executing /\ ~(Reachable(Current.First) /\ Reachable(Current.Second))
  /\ status' = "undefined"
  /\ UNCHANGED <<memory, registers, zf, sf, pc>>

\* An instruction the machine does not know, and all that comes after it.
Wander ==
  /\ \/ Fetched /\ memory[pc] \notin Known
     \/ status = "undefined"
  /\ status' = "undefined"

Next ==
  \/ \E op \in {"mov", "add", "sub", "cmp"} : Operate(op)
  \/ Branch \/ Ignore \/ Stop \/ GiveUp \/ Wander
  \/ \E image \in Images : Start(image)

Spec == Init /\ [][Next]_vars
=============================================================================
