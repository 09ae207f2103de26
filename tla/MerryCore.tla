------------------------------ MODULE MerryCore ------------------------------
(***************************************************************************)
(* One core: merry_runCore's loop (merry_core.c) and the instructions it   *)
(* executes, on the core's registers, flags, stack and return address      *)
(* stack (merry_stack.c).                                                  *)
(*                                                                         *)
(* A step is one instruction, or one turn of the loop's head with the      *)
(* fetch.  The core's state is private to its thread; what reaches it from *)
(* outside is stop_running, which the OS sets at any moment, the registers *)
(* Ma and Mb while a request is handled, and the values that memory and    *)
(* the input stream give, which are any value here (DataMemory is about    *)
(* memory itself).  The program is any: every turn executes any            *)
(* instruction with any operands.                                          *)
(*                                                                         *)
(* A stack index outside the page is undefined behaviour: the process may  *)
(* die or go on with whatever is there.  "astray" is where the model stops *)
(* following it; one entry around the page it also follows the core that   *)
(* goes on.                                                                *)
(***************************************************************************)
EXTENDS CoreWords, Sequences

CONSTANTS REGR_COUNT,    \* number of registers
          Mc,            \* index of register Mc
          QS,            \* _MERRY_MEMORY_QS_PER_PAGE_: entries of the stack's page
          CallRoom,      \* the 4 of merry_execute_call's check
          RasLen, RasLimit, RasGrow,   \* _MERRY_RAS_*
          InstLen,       \* bound: length of the instruction memory
          Instructions   \* what the program is made of

Regs == 0..(REGR_COUNT - 1)
Ma == 0
Mb == 1

\* The pc, with InstLen for every address past the instructions.
PCs == 0..InstLen
Pc(x) == IF x \in PCs THEN x ELSE InstLen

\* The sp of an empty stack, (mqword_t)(-1): as an unsigned number it is above
\* every index, as an index it is the entry before the page.
Empty == -1

AllFlags == FlagNames \cup {"greater"}

Ops == {"add", "sub", "mul", "div", "mod"}

AllInstructions ==
    {"NOP", "HALT", "INTR", "ARITH_IMM", "ARITH_REG", "ARITH_MEM", "IARITH_IMM",
     "FLOAT_REG", "FLOAT_MEM", "MOVE_IMM", "MOVE_IMM_64", "MOVE_REG", "MOVESX",
     "LOGIC_IMM", "LOGIC_REG", "NOT", "SHIFT", "CMP_IMM", "CMP_REG", "CMP_MEM",
     "INC", "LEA", "LOAD", "STORE", "EXCG", "MOV", "CFLAGS", "RESET", "CLEAR",
     "JMP", "JCC", "LOOP", "CMPXCHG", "IN", "OUT", "SIN", "SOUT",
     "CALL", "CALL_EXCP", "SET_EXCP", "RET", "SVA", "SVC", "SVA_MEM", "SVC_MEM",
     "PUSH", "POP", "PUSHA", "POPA"}

ASSUME CoreAssumption ==
    /\ REGR_COUNT \in Nat \ {0, 1} /\ Mc \in Regs
    /\ QS \in 1..(Words - 1) /\ CallRoom \in Nat
    /\ RasLen \in Nat \ {0} /\ RasGrow \in Nat \ {0}
    /\ RasLimit \in Nat /\ RasLen <= RasLimit
    /\ InstLen \in Nat \ {0}
    /\ Instructions \subseteq AllInstructions

VARIABLES
    place,                        \* where the thread is in merry_runCore
    stop_running, panicked,       \* panicked: it called merry_requestHdlr_panic
    pc, exception_address,
    registers, flag,              \* flag.greater is the core's own, not the host's
    sp, bp, stack_mem,
    ras,
    compared                      \* history: the last comparison, if it stands

control == <<stop_running, panicked>>
alu == <<registers, flag, compared>>
stack == <<sp, bp, stack_mem>>
vars == <<place, control, pc, exception_address, alu, stack, ras>>

\* merry_core_init.  exception_address and the flags are not initialised.
Init ==
    /\ place = "top" /\ stop_running = FALSE /\ panicked = FALSE
    /\ pc = 0 /\ exception_address \in PCs
    /\ registers = [r \in Regs |-> 0]
    /\ flag = [f \in AllFlags |-> "any"]
    /\ sp = Empty /\ bp = 0
    /\ stack_mem = [i \in 0..(QS - 1) |-> 0]
    /\ ras = [array |-> [i \in 0..(RasLen - 1) |-> 0], size |-> RasLen, sp |-> 0]
    /\ compared = <<>>

-----------------------------------------------------------------------------
(* The loop *)

LoopTop ==
    /\ place = "top"
    /\ IF ~stop_running /\ pc < InstLen
       THEN place' = "exec" /\ pc' = pc + 1 /\ UNCHANGED panicked
       ELSE place' = "ended" /\ panicked' = (panicked \/ ~stop_running) /\ UNCHANGED pc
    /\ UNCHANGED <<stop_running, exception_address, alu, stack, ras>>

\* merry_os_prepare_for_exit or merry_os_execute_request_halt, on the OS thread.
OSStops ==
    /\ place \in {"top", "exec"} /\ ~stop_running
    /\ stop_running' = TRUE
    /\ UNCHANGED <<place, panicked, pc, exception_address, alu, stack, ras>>

Executes(i) == place = "exec" /\ i \in Instructions

\* The instruction ends as it should, with the core's own failure, or astray.
Goes == place' = "top" /\ UNCHANGED control
Fails == place' = "top" /\ stop_running' = TRUE /\ panicked' = TRUE
GoesAstray ==
    /\ place' = "astray"
    /\ UNCHANGED <<control, pc, exception_address, alu, stack, ras>>

FailsHarmlessly == Fails /\ UNCHANGED <<alu, stack>>

SetReg(r, v) == registers' = [registers EXCEPT ![r] = v]

Steady == UNCHANGED <<pc, exception_address, stack, ras>>

-----------------------------------------------------------------------------
(* Registers and flags *)

\* _update_flags_ after C code has run: the flags of whatever the compiler put
\* last.  "any" is settled where a flag is read.
FlagsLost ==
    /\ flag' = [f \in AllFlags |-> IF f = "greater" THEN flag[f] ELSE "any"]
    /\ compared' = <<>>

Same == UNCHANGED <<flag, compared>>

\* Mutant: the divisor is checked after the register is cleared for the result.
MutCompute(r, op, y) ==
    \/ op \in {"div", "mod"} /\ y = 0 /\ Fails /\ SetReg(r, 0) /\ Same
    \/ ~(op \in {"div", "mod"} /\ y = 0) /\ Goes /\ FlagsLost
       /\ SetReg(r, Combine(op, registers[r], y))

\* registers[r] = registers[r] op y, or a division by zero.
Compute(r, op, y) ==
    \/ op \in {"div", "mod"} /\ y = 0 /\ FailsHarmlessly
    \/ ~(op \in {"div", "mod"} /\ y = 0) /\ Goes /\ FlagsLost
       /\ SetReg(r, Combine(op, registers[r], y))

ArithImm ==
    /\ Executes("ARITH_IMM") /\ Steady
    /\ \E op \in Ops, r \in Regs, imm \in Imms : Compute(r, op, imm)

\* iadd_reg to imod_reg too.
ArithReg ==
    /\ Executes("ARITH_REG") /\ Steady
    /\ \E op \in Ops, r, s \in Regs : Compute(r, op, registers[s])

\* The address, of which only 4 bits are used, may be refused.
ArithMem ==
    /\ Executes("ARITH_MEM") /\ Steady
    /\ \/ FailsHarmlessly
       \/ \E op \in Ops, r \in Regs, v \in Values : Compute(r, op, v)

\* idiv_imm and imod_imm check the extended immediate, which is never 0.
IArithImm ==
    /\ Executes("IARITH_IMM") /\ Steady
    /\ \E op \in Ops, r \in Regs, imm \in Imms :
          Goes /\ FlagsLost /\ SetReg(r, CombineSignedImm(op, registers[r], imm))

\* merry_cmp_floats64 and merry_cmp_floats32.
CompareFloats(x, y) ==
    /\ flag' = [flag EXCEPT !.zero = FlagOf(x = y), !.greater = FlagOf(x > y)]
    /\ compared' = <<>>

\* The registers hold integers that are converted to floats and back; what a
\* result out of range becomes is the host's affair.  The comparison is of the
\* result with the second operand.
FloatReg ==
    /\ Executes("FLOAT_REG") /\ Steady /\ Goes
    /\ \E r, s \in Regs, v \in Values :
          SetReg(r, v) /\ CompareFloats(v, IF r = s THEN v ELSE registers[s])

\* fdiv*_mem fails for a divisor of 0 and multiplies by any other.
FloatMem ==
    /\ Executes("FLOAT_MEM") /\ Steady
    /\ \/ FailsHarmlessly
       \/ \E r \in Regs, v, temp \in Values :
             Goes /\ SetReg(r, v) /\ CompareFloats(v, temp)

\* merry_core_get_immediate: the pc is already past the instruction, and is
\* moved once more before the read.  A refused read is the value 0.
GetImmediate(v) ==
    /\ pc' = Pc(pc + 1)
    /\ IF pc' < InstLen THEN v \in Values /\ Goes ELSE v = 0 /\ Fails
    /\ UNCHANGED <<exception_address, stack, ras>>

MoveImm ==
    /\ Executes("MOVE_IMM") /\ Steady /\ Goes /\ Same
    /\ \E r \in Regs, imm \in Imms : SetReg(r, imm)

MoveImm64 ==
    /\ Executes("MOVE_IMM_64") /\ Same
    /\ \E r \in Regs, v \in Values : GetImmediate(v) /\ SetReg(r, v)

\* MOVE_REG and its narrow forms, of which the 32-bit one keeps 24 bits.
MoveReg ==
    /\ Executes("MOVE_REG") /\ Steady /\ Goes /\ Same
    /\ \E r, s \in Regs, m \in {Words, SxWords, NarrowWords} :
          SetReg(r, registers[s] % m)

MoveSignExtended ==
    /\ Executes("MOVESX") /\ Steady /\ Goes /\ Same
    /\ \E r \in Regs, w \in {"8", "32"}, x \in Imms \cup {registers[s] : s \in Regs} :
          SetReg(r, MoveSx(w, x))

\* The 8-, 16- and 32-bit exchanges all keep the bits from the 8th up.
Exchange ==
    /\ Executes("EXCG") /\ Steady /\ Goes /\ Same
    /\ \E r, s \in Regs :
          \/ registers' = [registers EXCEPT ![r] = registers[s], ![s] = registers[r]]
          \/ LET first == [registers EXCEPT
                              ![r] = AndLow(@, registers[s], NarrowWords)]
             IN  registers' = [first EXCEPT ![s] = AndLow(@, registers[r], NarrowWords)]

MoveLow ==
    /\ Executes("MOV") /\ Steady /\ Goes /\ Same
    /\ \E r, s \in Regs, m \in {SxWords, NarrowWords} :
          SetReg(r, AndLow(registers[r], registers[s], m))

LogicImm ==
    /\ Executes("LOGIC_IMM") /\ Same
    /\ \E op \in {"and", "or", "xor"}, r \in Regs, v \in Values :
          GetImmediate(v) /\ SetReg(r, Logic(op, registers[r], v))

LogicReg ==
    /\ Executes("LOGIC_REG") /\ Steady /\ Goes /\ Same
    /\ \E op \in {"and", "or", "xor"}, r, s \in Regs :
          SetReg(r, Logic(op, registers[r], registers[s]))

Not ==
    /\ Executes("NOT") /\ Steady /\ Goes /\ Same
    /\ \E r \in Regs : SetReg(r, LogicNot(registers[r]))

IncDec ==
    /\ Executes("INC") /\ Steady /\ Goes /\ Same
    /\ \E r \in Regs, d \in {1, -1} : SetReg(r, Word(registers[r] + d))

Lea ==
    /\ Executes("LEA") /\ Steady /\ Goes /\ Same
    /\ \E r, base, index, scale \in Regs :
          SetReg(r, Word(registers[base] + registers[index] * registers[scale]))

Reset ==
    /\ Executes("RESET") /\ Steady /\ Goes /\ Same
    /\ registers' = [r \in Regs |-> 0]

\* An integer comparison sets greater, and never clears it.
Compare(x, y) ==
    /\ flag' = [f \in AllFlags |->
                  IF f # "greater" THEN CompareFlags(x, y)[f]
                  ELSE IF x > y THEN "set" ELSE flag[f]]
    /\ compared' = <<Order(x, y), Order(SignedValue(x), SignedValue(y))>>
    /\ UNCHANGED registers

CmpImm ==
    /\ Executes("CMP_IMM")
    /\ \E r \in Regs, v \in Values : GetImmediate(v) /\ Compare(registers[r], v)

CmpReg ==
    /\ Executes("CMP_REG") /\ Steady /\ Goes
    /\ \E r, s \in Regs : Compare(registers[r], registers[s])

CmpMem ==
    /\ Executes("CMP_MEM") /\ Steady
    /\ \/ FailsHarmlessly
       \/ Goes /\ \E r \in Regs, v \in Values : Compare(registers[r], v)

ClearFlags ==
    /\ Executes("CFLAGS") /\ Steady /\ Goes
    /\ flag' = [f \in AllFlags |-> "clear"]
    /\ compared' = <<>> /\ UNCHANGED registers

\* CLC, CLZ, CLN, CLO.
ClearFlag ==
    /\ Executes("CLEAR") /\ Steady /\ Goes
    /\ \E f \in FlagNames : flag' = [flag EXCEPT ![f] = "clear"]
    /\ compared' = <<>> /\ UNCHANGED registers

-----------------------------------------------------------------------------
(* Memory, input and output, requests *)

ChangesNothing(i) == Executes(i) /\ Steady /\ Goes /\ UNCHANGED alu

\* NOP, and the opcodes no case of the switch names.
Nop == ChangesNothing("NOP")

\* LSHIFT and RSHIFT: the count is masked with 0x40, so it is 0 or 64, and the
\* host's shift of a 64-bit word takes 64 for 0.
Shift == ChangesNothing("SHIFT")

Output == ChangesNothing("OUT")

\* The LOADs of every width, plain, atomic or by register.
Load ==
    /\ Executes("LOAD") /\ Steady /\ Same
    /\ \/ Fails /\ UNCHANGED registers
       \/ Goes /\ \E r \in Regs, v \in Values : SetReg(r, v)

\* The STOREs of every width, and SOUT.
StoreOf(i) == Executes(i) /\ Steady /\ UNCHANGED alu /\ (Fails \/ Goes)
Store == StoreOf("STORE")
PrintString == StoreOf("SOUT")

\* SIN: malloc may fail, or the memory refuse the bytes.
ReadString == StoreOf("SIN")

\* The register is overwritten by memory's value when the two differ.
CompareExchange ==
    /\ Executes("CMPXCHG") /\ Steady
    /\ \/ FailsHarmlessly
       \/ Goes /\ FlagsLost /\ \E r \in Regs, v \in Values : SetReg(r, v)

\* CIN, the INs and their unsigned and float forms.
Input ==
    /\ Executes("IN") /\ Steady /\ Goes /\ Same
    /\ \E r \in Regs, v \in Values : SetReg(r, v)

\* OP_HALT: the request is posted, and whatever becomes of it the core stops.
Halt ==
    /\ Executes("HALT") /\ Steady /\ UNCHANGED <<alu, panicked>>
    /\ place' = "top" /\ stop_running' = TRUE

\* OP_INTR: the OS answers in Ma and Mb, or the request is refused.
Interrupt ==
    /\ Executes("INTR") /\ Steady /\ Same /\ place' = "top" /\ UNCHANGED panicked
    /\ \/ /\ UNCHANGED stop_running
          /\ \E a, b \in Values : registers' = [registers EXCEPT ![Ma] = a, ![Mb] = b]
       \/ stop_running' = TRUE /\ UNCHANGED registers

-----------------------------------------------------------------------------
(* Jumps *)

Jump ==
    /\ Executes("JMP") /\ Goes /\ UNCHANGED <<exception_address, alu, stack, ras>>
    /\ \/ \E target \in PCs : pc' = target                  \* JMP_ADDR
       \/ \E off \in -InstLen..InstLen : pc' = Pc(pc + off)    \* JMP_OFF

\* What a flag may be when it is read.
Is(f, v) == flag[f] \in {v, "any"}

Branch(taken) == pc' \in (IF taken THEN PCs ELSE {pc})

\* The conditional jumps: JZ to JN on a flag; JG, JNS, JNG and JS on greater;
\* JGE and JSE on greater or a zero flag that is clear.
JumpIf ==
    /\ Executes("JCC") /\ Goes /\ UNCHANGED <<exception_address, alu, stack, ras>>
    /\ \E v, w \in {"set", "clear"} :
          \/ \E f \in AllFlags : Is(f, v) /\ Branch(v = w)
          \/ \E z \in {"set", "clear"} :
                Is("greater", v) /\ Is("zero", z) /\ Branch(v = w \/ z = "clear")

Loop ==
    /\ Executes("LOOP") /\ Goes /\ Same /\ UNCHANGED <<exception_address, stack, ras>>
    /\ IF registers[Mc] = 0
       THEN UNCHANGED <<pc, registers>>
       ELSE pc' \in PCs /\ SetReg(Mc, registers[Mc] - 1)

SetException ==
    /\ Executes("SET_EXCP") /\ Goes /\ UNCHANGED <<pc, alu, stack, ras>>
    /\ exception_address' \in PCs

-----------------------------------------------------------------------------
(* The return address stack: merry_stack.c *)

RasFull == ras.sp >= ras.size

\* Mutant: the old size is compared with the limit.
MutRasGrows == ras.size <= RasLimit

\* merry_stack_resize, unless realloc fails.
RasGrows == ras.size + RasGrow <= RasLimit

\* Mutant: a push overwrites the top.
MutRasPush(x) ==
    LET size == IF RasFull THEN ras.size + RasGrow ELSE ras.size
        top  == IF ras.sp = 0 THEN 0 ELSE ras.sp - 1
    IN  [array |-> [i \in 0..(size - 1) |->
                      IF i = top THEN x
                      ELSE IF i < ras.size THEN ras.array[i] ELSE 0],
         size |-> size, sp |-> ras.sp + 1]

\* merry_stack_push where it succeeds.
RasPush(x) ==
    LET size == IF RasFull THEN ras.size + RasGrow ELSE ras.size
    IN  [array |-> [i \in 0..(size - 1) |->
                      IF i = ras.sp THEN x
                      ELSE IF i < ras.size THEN ras.array[i] ELSE 0],
         size |-> size, sp |-> ras.sp + 1]

-----------------------------------------------------------------------------
(* The stack *)

InPage(i) == i \in 0..(QS - 1)

\* What may be read at index i, and the stack once v is written there, of the
\* core that goes on.
At(i) == IF InPage(i) THEN {stack_mem[i]} ELSE Values
Written(i, v) == IF InPage(i) THEN [stack_mem EXCEPT ![i] = v] ELSE stack_mem

\* _is_stack_full_, _is_stack_empty_
StackFull == sp = QS
StackEmpty == sp = Empty

\* Mutant: room for one entry too few is asked for.
MutCheckStackLim(n) == StackEmpty \/ QS - sp >= n

\* _check_stack_lim_ and _stack_has_atleast_
CheckStackLim(n) == StackEmpty \/ QS - sp > n
StackHasAtLeast(n) == StackEmpty \/ sp >= n - 1

\* Mutant: BP is stored and SP moved before the room is looked for.
MutExecuteCall ==
    /\ stack_mem' = Written(sp, bp) /\ sp' = sp + 1 /\ bp' = sp + 1
    /\ IF StackFull \/ ~CheckStackLim(CallRoom) THEN Fails ELSE Goes

\* merry_execute_call, with the pc already at the procedure and the return
\* address pushed.  BP is stored over the entry at SP, not after it.
ExecuteCall ==
    IF StackFull \/ ~CheckStackLim(CallRoom)
    THEN Fails /\ UNCHANGED stack
    ELSE Goes /\ stack_mem' = Written(sp, bp) /\ sp' = sp + 1 /\ bp' = sp + 1

\* OP_CALL and OP_CALL_EXCP.
CallTo(targets) ==
    /\ \/ RasFull /\ Fails /\ UNCHANGED <<pc, stack, ras>>
       \/ /\ RasFull => RasGrows
          /\ ras' = RasPush(pc)
          /\ pc' \in targets
          /\ ExecuteCall
       \/ ~InPage(sp) /\ ~StackFull /\ (RasFull => RasGrows) /\ GoesAstray
    /\ UNCHANGED <<exception_address, alu>>

Call == Executes("CALL") /\ CallTo(PCs)

CallException == Executes("CALL_EXCP") /\ CallTo({Pc(exception_address - 1)})

\* OP_RET and merry_execute_ret.  BP comes from the entry BP is the index of,
\* which is the one after the entry the call stored it in.
Ret ==
    /\ Executes("RET")
    /\ \/ ras.sp = 0 /\ Fails /\ UNCHANGED <<pc, stack, ras>>
       \/ /\ ras.sp > 0
          /\ ras' = [ras EXCEPT !.sp = @ - 1]
          /\ pc' = ras.array[ras.sp - 1]
          /\ IF StackEmpty
             THEN Fails /\ UNCHANGED stack
             ELSE Goes /\ bp' \in At(bp) /\ UNCHANGED <<sp, stack_mem>>
       \/ ras.sp > 0 /\ ~StackEmpty /\ ~InPage(bp) /\ GoesAstray
    /\ UNCHANGED <<exception_address, alu>>

\* SVA and SVC: a variable of the stack, by its distance from BP, which the
\* _MEM forms read from memory, where the read may be refused.
Variable(i) ==
    \/ i \in {"SVA_MEM", "SVC_MEM"} /\ FailsHarmlessly
    \/ \E off \in Imms :
          \/ bp < off /\ FailsHarmlessly
          \/ bp >= off /\ Goes /\ UNCHANGED <<sp, bp, flag, compared>>
             /\ IF i \in {"SVA", "SVA_MEM"}
                THEN \E r \in Regs, v \in At(bp - off) : SetReg(r, v) /\ UNCHANGED stack_mem
                ELSE \E r \in Regs : /\ stack_mem' = Written(bp - off, registers[r])
                                     /\ UNCHANGED registers
          \/ bp >= off /\ ~InPage(bp - off) /\ GoesAstray

StackVariable ==
    /\ \E i \in {"SVA", "SVC", "SVA_MEM", "SVC_MEM"} : Executes(i) /\ Variable(i)
    /\ UNCHANGED <<pc, exception_address, ras>>

\* PUSH_IMM and PUSH_REG
Push ==
    /\ Executes("PUSH")
    /\ \/ StackFull /\ FailsHarmlessly
       \/ /\ ~StackFull /\ Goes
          /\ \E v \in Imms \cup {registers[r] : r \in Regs} : stack_mem' = Written(sp + 1, v)
          /\ sp' = sp + 1
          /\ UNCHANGED <<alu, bp>>
       \/ ~StackFull /\ ~InPage(sp + 1) /\ GoesAstray
    /\ UNCHANGED <<pc, exception_address, ras>>

Pop ==
    /\ Executes("POP")
    /\ \/ StackEmpty /\ FailsHarmlessly
       \/ /\ ~StackEmpty /\ Goes /\ Same
          /\ \E r \in Regs, v \in At(sp) : SetReg(r, v)
          /\ sp' = sp - 1
          /\ UNCHANGED <<bp, stack_mem>>
       \/ ~StackEmpty /\ ~InPage(sp) /\ GoesAstray
    /\ UNCHANGED <<pc, exception_address, ras>>

\* All the registers, from the first, above SP.
PushAll ==
    /\ Executes("PUSHA")
    /\ IF ~CheckStackLim(REGR_COUNT)
       THEN FailsHarmlessly
       ELSE IF InPage(sp + REGR_COUNT)
       THEN /\ Goes
            /\ stack_mem' = [i \in 0..(QS - 1) |->
                  IF i \in (sp + 1)..(sp + REGR_COUNT) THEN registers[i - sp - 1]
                  ELSE stack_mem[i]]
            /\ sp' = sp + REGR_COUNT
            /\ UNCHANGED <<alu, bp>>
       ELSE GoesAstray
    /\ UNCHANGED <<pc, exception_address, ras>>

\* All the registers but the first: the loop ends before index 0.  The core
\* that reads below the page is not followed.
PopAll ==
    /\ Executes("POPA")
    /\ \/ ~StackHasAtLeast(REGR_COUNT) /\ FailsHarmlessly
       \/ /\ ~StackEmpty /\ StackHasAtLeast(REGR_COUNT) /\ Goes /\ Same
          /\ \E popped \in [Regs -> Values] :
                /\ \A r \in Regs : popped[r] \in IF r = 0 THEN {registers[0]}
                                                 ELSE At(sp - (REGR_COUNT - 1 - r))
                /\ registers' = popped
          /\ sp' = sp - (REGR_COUNT - 1)
          /\ UNCHANGED <<bp, stack_mem>>
       \/ StackHasAtLeast(REGR_COUNT) /\ ~InPage(sp) /\ GoesAstray
    /\ UNCHANGED <<pc, exception_address, ras>>

-----------------------------------------------------------------------------

Arithmetic == ArithImm \/ ArithReg \/ ArithMem \/ IArithImm \/ FloatReg \/ FloatMem

Moves ==
    \/ MoveImm \/ MoveImm64 \/ MoveReg \/ MoveSignExtended \/ Exchange \/ MoveLow
    \/ LogicImm \/ LogicReg \/ Not \/ IncDec \/ Lea \/ Reset

Comparisons == CmpImm \/ CmpReg \/ CmpMem \/ ClearFlags \/ ClearFlag

Outside ==
    \/ Nop \/ Shift \/ Output \/ Load \/ Store \/ PrintString \/ ReadString
    \/ CompareExchange \/ Input \/ Halt \/ Interrupt

Jumps == Jump \/ JumpIf \/ Loop \/ SetException \/ Call \/ CallException \/ Ret

StackInstructions == StackVariable \/ Push \/ Pop \/ PushAll \/ PopAll

Next ==
    \/ LoopTop \/ OSStops
    \/ Arithmetic \/ Moves \/ Comparisons \/ Outside \/ Jumps \/ StackInstructions

Spec == Init /\ [][Next]_vars

-----------------------------------------------------------------------------
(* Properties *)

\* Registers, flags, stack and return addresses keep their types, SP stays
\* between the empty stack and one past the page, and the return address stack
\* within its array, and the array within its limit.
TypeOK ==
    /\ place \in {"top", "exec", "ended", "astray"}
    /\ stop_running \in BOOLEAN /\ panicked \in BOOLEAN
    /\ pc \in PCs /\ exception_address \in PCs
    /\ registers \in [Regs -> Values]
    /\ flag \in [AllFlags -> {"set", "clear", "any"}]
    /\ compared \in {<<>>} \cup ({"less", "equal", "greater"} \X {"less", "equal", "greater"})
    /\ sp \in Empty..QS /\ bp \in Values
    /\ stack_mem \in [0..(QS - 1) -> Values]
    /\ ras.size \in RasLen..RasLimit /\ ras.sp \in 0..ras.size
    /\ ras.array \in [0..(ras.size - 1) -> PCs]

\* After an integer comparison, and until something else writes the flags, a
\* jump on a flag tells what was compared: zero that the two were equal, carry
\* that the first is the smaller unsigned number, negative without overflow or
\* overflow without negative that it is the smaller signed one; and greater is
\* set where the first is the greater unsigned number.
ComparisonStands ==
    compared # <<>> =>
        /\ (flag.zero = "set") = (compared[1] = "equal")
        /\ (flag.carry = "set") = (compared[1] = "less")
        /\ (flag.negative # flag.overflow) = (compared[2] = "less")
        /\ compared[1] = "greater" => flag.greater = "set"

\* An instruction that fails leaves the stack as it was, and the registers and
\* flags too: the memory forms, the divisions, PUSHA and POPA check everything
\* before they change anything.  Only the missing 64-bit immediate of an
\* instruction at the end of the program is used, as 0, before the core stops.
FailuresHarmless ==
    [][place = "exec" /\ ~panicked /\ panicked' =>
          /\ UNCHANGED stack
          /\ \/ UNCHANGED <<registers, flag>>
             \/ /\ pc' = InstLen
                /\ \/ UNCHANGED registers
                   \/ \E r \in Regs : registers' = [registers EXCEPT ![r] = 0]]_vars

\* The return address stack is a stack: RET goes back to the instruction after
\* the last CALL or CALL_EXCP that has not returned, whatever the instructions
\* in between did to the stack in memory, and calls nest RasLimit deep at most.
Calls == INSTANCE CallStack
            WITH Limit <- RasLimit,
                 calls <- [i \in 1..ras.sp |-> ras.array[i - 1]]

ReturnsMatchCalls == Calls!Spec

\* No instruction takes the core out of its stack's page as long as SP is on
\* an entry below the last and BP on any entry: what leaves the page starts at
\* an empty stack (CALL, POPA), at the last entry (PUSH) or past it, or at a BP
\* that is no entry's index (RET, SVA, SVC).
StraysAtEdges ==
    [][place # "astray" /\ place' = "astray" =>
          ~InPage(sp) \/ sp = QS - 1 \/ ~InPage(bp)]_vars

=============================================================================
