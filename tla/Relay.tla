-------------------------------- MODULE Relay --------------------------------
(***************************************************************************)
(* The relay itself: the machine code that build_relay                     *)
(* (plugin/src/hook.cpp) emits, byte for byte, and a processor that        *)
(* decodes and runs it.  In SiteHook a relay is two calls and a return;    *)
(* here is why it may be taken for that: which registers hold what at      *)
(* either call and after the return, and how the stack stands.             *)
(*                                                                         *)
(* What a register or a stack slot holds is told by where it came from.    *)
(* The functions called keep to the calling convention: they may leave     *)
(* anything in the volatile registers and in the stack below them.         *)
(***************************************************************************)
EXTENDS Integers, SequencesExt

CONSTANTS
  helper, inject,  \* the addresses that the relay calls, as eight bytes
  Leavings         \* sets of volatile registers that a call may leave changed

Rax == 0
Rcx == 1
Rdx == 2
Rbx == 3
Rbp == 5
Rsi == 6
Rdi == 7
Xmm(k) == 16 + k
Flags == 32
Register == (0 .. 32) \ {4}          \* all but rsp
Volatile == {Rcx, Rdx, Rsi, Rdi} \cup 8 .. 11 \cup 16 .. 32   \* and rax, always

ASSUME RelayAssumption ==
  /\ helper # inject /\ {helper, inject} \subseteq [1 .. 8 -> 0 .. 255]
  /\ Leavings \subseteq SUBSET Volatile

-----------------------------------------------------------------------------
(* Emitter. *)

imm32(n) == [k \in 1 .. 4 |-> (n \div 256 ^ (k - 1)) % 256]

pushfq == <<156>>
popfq == <<157>>
ret == <<195>>
call_rax == <<255, 208>>

push_reg(r) == (IF r >= 8 THEN <<65>> ELSE <<>>) \o <<80 + (r % 8)>>
pop_reg(r)  == (IF r >= 8 THEN <<65>> ELSE <<>>) \o <<88 + (r % 8)>>
sub_rsp(n)  == <<72, 129, 236>> \o imm32(n)
add_rsp(n)  == <<72, 129, 196>> \o imm32(n)
mov_reg_imm64(r, bytes) == <<IF r >= 8 THEN 73 ELSE 72, 184 + (r % 8)>> \o bytes

(* [rsp + disp]: no base but rsp, 32 bits of displacement *)
rsp_disp(r, disp) == <<132 + 8 * (r % 8), 36>> \o imm32(disp)

load_reg_rsp(r, disp)  == <<IF r >= 8 THEN 76 ELSE 72, 139>> \o rsp_disp(r, disp)
store_rsp_reg(r, disp) == <<IF r >= 8 THEN 76 ELSE 72, 137>> \o rsp_disp(r, disp)
store_rsp_xmm(k, disp) == (IF k >= 8 THEN <<68>> ELSE <<>>) \o <<15, 17>> \o rsp_disp(k, disp)
load_rsp_xmm(k, disp)  == (IF k >= 8 THEN <<68>> ELSE <<>>) \o <<15, 16>> \o rsp_disp(k, disp)

-----------------------------------------------------------------------------
(* build_relay *)

kFrame == 544                                     \* 0x220

XmmPacked(k) == 8 * k                             \* a mutant: eight bytes each
XmmBase(k) == 16 * k

SavedBelowFlags(r) == kFrame + 120 - 8 * r        \* a mutant: rsp has a place in the block
kSaved(r) ==
  kFrame + CASE r = 15 -> 0 [] r = 14 -> 8 [] r = 12 -> 24 [] r = Rbx -> 88 [] r = Rax -> 112

SaveOrder == <<Rax, Rcx, Rdx, Rbx, Rbp, Rsi, Rdi, 8, 9, 10, 11, 12, 13, 14, 15>>

RestoreInSaveOrder == SaveOrder                   \* a mutant
RestoreOrder == <<15, 14, 13, 12, 11, 10, 9, 8, Rdi, Rsi, Rbp, Rbx, Rdx, Rcx, Rax>>

Each(Emit(_), s) == FlattenSeq([k \in DOMAIN s |-> Emit(s[k])])
Xmms == [k \in 1 .. 16 |-> k - 1]

(* After the prologue rsp is 8 (mod 16), and a call needs 0. *)
Call(address) == mov_reg_imm64(Rax, address) \o sub_rsp(8) \o call_rax \o add_rsp(8)

Prologue ==
  pushfq \o Each(push_reg, SaveOrder) \o sub_rsp(kFrame)
    \o Each(LAMBDA k : store_rsp_xmm(k, XmmBase(k)), Xmms)

Arguments ==
  load_reg_rsp(Rdi, kSaved(Rbx)) \o load_reg_rsp(Rsi, kSaved(12))
    \o load_reg_rsp(Rdx, kSaved(14)) \o load_reg_rsp(Rcx, kSaved(15))

Epilogue ==
  Each(LAMBDA k : load_rsp_xmm(k, XmmBase(k)), Xmms) \o add_rsp(kFrame)
    \o Each(pop_reg, RestoreOrder) \o popfq \o ret

Code ==
  Prologue \o Call(helper) \o store_rsp_reg(Rax, kSaved(Rax))
    \o Arguments \o Call(inject) \o Epilogue

-----------------------------------------------------------------------------
(* The processor. *)

VARIABLES
  rip,     \* the byte of Code it is at; 0 once the relay has returned
  rsp,
  reg,     \* what the registers hold
  stack    \* what the slots from rsp upwards hold

vars == <<rip, rsp, reg, stack>>

Top == 1032          \* rsp when the relay is entered: 8 (mod 16), as after any call
Back == <<"site", "return address">>
Site(r) == <<"site", r>>
Unknown == <<"unknown", 0>>
Address(bytes) == <<"address", bytes>>

Init ==
  /\ rip = 1 /\ rsp = Top
  /\ reg = [r \in Register |-> Site(r)]
  /\ stack = [a \in {Top, Top + 8} |-> IF a = Top THEN Back ELSE Site("frame")]

(* Prefix, opcode and operands of the instruction at rip. *)
Prefixed == Code[rip] \in 64 .. 79
Extra(bit) == IF Prefixed /\ (Code[rip] \div bit) % 2 = 1 THEN 8 ELSE 0
At == IF Prefixed THEN rip + 1 ELSE rip
Op == Code[At]
Int32(at) == Code[at] + 256 * Code[at + 1] + 65536 * Code[at + 2]
Operand(at) == ((Code[at] \div 8) % 8) + Extra(4)     \* the register of a ModRM byte
Bytes(at) == SubSeq(Code, at, at + 7)

Load(a) == IF a \in DOMAIN stack THEN stack[a] ELSE Unknown
From(a) == [b \in {b \in DOMAIN stack : b >= a} |-> stack[b]]
Store(a, value) == [b \in DOMAIN stack \cup {a} |-> IF b = a THEN value ELSE stack[b]]

(* An xmm register takes two slots. *)
LoadWide(a) ==
  IF {a, a + 8} \subseteq DOMAIN stack /\ stack[a][1] = "low" /\ stack[a + 8] = <<"high", stack[a][2]>>
    THEN stack[a][2] ELSE Unknown
StoreWide(a, value) ==
  [b \in DOMAIN stack \cup {a, a + 8} |->
     IF b = a THEN <<"low", value>> ELSE IF b = a + 8 THEN <<"high", value>> ELSE stack[b]]

GoOn(at) == rip' = at
SetReg(r, value) == reg' = [reg EXCEPT ![r] = value]

PushOf(value) == rsp' = rsp - 8 /\ stack' = Store(rsp - 8, value) /\ UNCHANGED reg
PopInto(r) == rsp' = rsp + 8 /\ stack' = From(rsp + 8) /\ SetReg(r, Load(rsp))

Push   == Op \in 80 .. 87 /\ PushOf(reg[Op - 80 + Extra(1)]) /\ GoOn(At + 1)
Pop    == Op \in 88 .. 95 /\ PopInto(Op - 88 + Extra(1)) /\ GoOn(At + 1)
PushFq == Op = 156 /\ PushOf(reg[Flags]) /\ GoOn(At + 1)
PopFq  == Op = 157 /\ PopInto(Flags) /\ GoOn(At + 1)

(* Arithmetic leaves its mark in the flags. *)
MoveRsp ==
  /\ Op = 129 /\ Code[At + 1] \in {196, 236}
  /\ rsp' = IF Code[At + 1] = 236 THEN rsp - Int32(At + 2) ELSE rsp + Int32(At + 2)
  /\ stack' = From(rsp')
  /\ SetReg(Flags, <<"relay", 0>>) /\ GoOn(At + 6)

MovImm ==
  /\ Op \in 184 .. 191
  /\ SetReg(Op - 184 + Extra(1), Address(Bytes(At + 1)))
  /\ GoOn(At + 9) /\ UNCHANGED <<rsp, stack>>

LoadReg ==
  /\ Op = 139
  /\ SetReg(Operand(At + 1), Load(rsp + Int32(At + 3)))
  /\ GoOn(At + 7) /\ UNCHANGED <<rsp, stack>>

StoreReg ==
  /\ Op = 137
  /\ stack' = Store(rsp + Int32(At + 3), reg[Operand(At + 1)])
  /\ GoOn(At + 7) /\ UNCHANGED <<rsp, reg>>

LoadXmm ==
  /\ Op = 15 /\ Code[At + 1] = 16
  /\ SetReg(Xmm(Operand(At + 2)), LoadWide(rsp + Int32(At + 4)))
  /\ GoOn(At + 8) /\ UNCHANGED <<rsp, stack>>

StoreXmm ==
  /\ Op = 15 /\ Code[At + 1] = 17
  /\ stack' = StoreWide(rsp + Int32(At + 4), reg[Xmm(Operand(At + 2))])
  /\ GoOn(At + 8) /\ UNCHANGED <<rsp, reg>>

Calling == Op = 255 /\ Code[At + 1] = 208

(* The function that rax points to runs and returns: rax is its own, then. *)
CallRax(who) ==
  /\ Calling /\ reg[Rax] = Address(IF who = "helper" THEN helper ELSE inject)
  /\ \E changed \in Leavings :
       reg' = [r \in Register |-> IF r \in changed \cup {Rax} THEN <<who, r>> ELSE reg[r]]
  /\ stack' = From(rsp)
  /\ GoOn(At + 2) /\ UNCHANGED rsp

Ret ==
  /\ Op = 195 /\ Load(rsp) = Back
  /\ rsp' = rsp + 8 /\ stack' = From(rsp + 8) /\ rip' = 0 /\ UNCHANGED reg

Instruction ==
  \/ Push \/ Pop \/ PushFq \/ PopFq \/ MoveRsp \/ MovImm
  \/ LoadReg \/ StoreReg \/ LoadXmm \/ StoreXmm
  \/ CallRax("helper") \/ CallRax("inject") \/ Ret

Next == (rip # 0 /\ Instruction) \/ (rip = 0 /\ UNCHANGED vars)

Spec == Init /\ [][Next]_vars

-----------------------------------------------------------------------------
(* The stack is kept from rsp upwards, and nothing is ever read from a slot that was  *)
(* not written, was written in another width, or has been given up since.             *)
TypeOK ==
  /\ rip \in 0 .. Len(Code) /\ rsp \in 8 .. Top + 8 /\ rsp % 8 = 0
  /\ \A a \in DOMAIN stack : a >= rsp
  /\ \A r \in Register : reg[r] # Unknown

(* Both calls are made as hook.h:9-12 says: the original one with every register but  *)
(* rax as the site had it, "so the login result is built exactly as before", then the *)
(* plugin's with the registers of relay_register_contract (hook.cpp:207-208) -- each  *)
(* on a stack aligned the way the calling convention wants it.                        *)
CallsAsDocumented ==
  rip # 0 /\ Calling =>
    /\ rsp % 16 = 0
    /\ reg[Rax] = Address(helper) =>
         \A r \in Register \ {Rax, Flags} : reg[r] = Site(r)
    /\ reg[Rax] = Address(inject) =>
         <<reg[Rdi], reg[Rsi], reg[Rdx], reg[Rcx]>> = <<Site(Rbx), Site(12), Site(14), Site(15)>>

(* The relay "restores every register (including the original call's return value in  *)
(* rax) and returns to the instruction after the patched call" (hook.h:13-14), and    *)
(* BDS's own part of the stack is never written.                                      *)
Transparent ==
  /\ stack[Top + 8] = Site("frame")
  /\ rip = 0 => /\ rsp = Top + 8
                /\ reg[Rax] = <<"helper", Rax>>
                /\ \A r \in Register \ {Rax} : reg[r] = Site(r)

=============================================================================
