--------------------------- MODULE MerryCore_proofs ---------------------------
(***************************************************************************)
(* For every size of the instruction memory, the stack, the return address *)
(* stack and the register file, and every width of words: a core's returns *)
(* match its calls, it leaves its stack's page only from the edges, a      *)
(* comparison's flags tell what was compared until something else sets     *)
(* them, and an instruction that fails leaves the core's data as it was.   *)
(*                                                                         *)
(* A word is a number whose bits AND, OR and XOR combine.  That every set  *)
(* of bits is that of one word is an induction over the width, done here   *)
(* with the least width for which it would be false.                       *)
(***************************************************************************)
EXTENDS MerryCore, SequenceTheorems, FiniteSetTheorems, TLAPS

\* The return address stack within its array, the array within its limit.
RasOK ==
    /\ DOMAIN ras = {"array", "size", "sp"}
    /\ ras.size \in Nat /\ ras.sp \in Nat
    /\ ras.sp <= ras.size /\ ras.size <= RasLimit
    /\ ras.array \in [0..(ras.size - 1) -> PCs]

\* Return addresses are program counters, and so is what becomes one.
IInv == pc \in PCs /\ exception_address \in PCs /\ RasOK

\* A step that neither calls nor returns.
Quiet == pc' \in PCs /\ exception_address' \in PCs /\ ras' = ras

\* The open calls, oldest first: the mapping of ReturnsMatchCalls.
calls == [i \in 1..ras.sp |-> ras.array[i - 1]]

\* A new core has no open calls.
LEMMA InitIInv == Init => IInv /\ Calls!Init
  <1> SUFFICES ASSUME Init PROVE IInv /\ Calls!Init
    OBVIOUS
  <1>1. IInv
    BY CoreAssumption DEF Init, IInv, RasOK, PCs
  <1>2. [i \in 1..ras.sp |-> ras.array[i - 1]] = <<>>
    BY DEF Init
  <1> QED BY <1>1, <1>2 DEF IInv, Calls!Init

\* The bound on the pc keeps it in its range.
LEMMA PcInPCs == ASSUME NEW x PROVE Pc(x) \in PCs
  BY CoreAssumption DEF Pc, PCs

\* The loop's head, and the OS's order to stop, leave the calls alone; so does
\* every group of instructions but the calls and RET, one lemma for each.
LEMMA LoopIsQuiet == IInv /\ (LoopTop \/ OSStops) => Quiet
  BY CoreAssumption DEF IInv, LoopTop, OSStops, Quiet, PCs

\* Fetching a 64-bit immediate moves the pc only.
LEMMA ImmediateIsQuiet == ASSUME IInv, NEW v, GetImmediate(v) PROVE Quiet
  BY PcInPCs DEF IInv, GetImmediate, Quiet

\* Arithmetic, on integers and floats.
LEMMA ArithmeticIsQuiet == IInv /\ Arithmetic => Quiet
  BY DEF IInv, Quiet, Arithmetic, ArithImm, ArithReg, ArithMem, IArithImm, FloatReg, FloatMem,
         Steady

\* Moves and logic, with their immediates.
LEMMA MovesAreQuiet == IInv /\ Moves => Quiet
  <1> SUFFICES ASSUME IInv, Moves PROVE Quiet
    OBVIOUS
  <1>1. CASE MoveImm64 \/ LogicImm
    BY <1>1, ImmediateIsQuiet DEF MoveImm64, LogicImm
  <1>2. CASE Steady
    BY <1>2 DEF IInv, Quiet, Steady
  <1> QED BY <1>1, <1>2 DEF Moves, MoveImm, MoveReg, MoveSignExtended, Exchange, MoveLow,
                           LogicReg, Not, IncDec, Lea, Reset

\* Comparisons and the clearing of flags.
LEMMA ComparisonsAreQuiet == IInv /\ Comparisons => Quiet
  <1> SUFFICES ASSUME IInv, Comparisons PROVE Quiet
    OBVIOUS
  <1>1. CASE CmpImm
    BY <1>1, ImmediateIsQuiet DEF CmpImm
  <1>2. CASE Steady
    BY <1>2 DEF IInv, Quiet, Steady
  <1> QED BY <1>1, <1>2 DEF Comparisons, CmpReg, CmpMem, ClearFlags, ClearFlag

\* Memory, input and output, and requests.
LEMMA OutsideIsQuiet == IInv /\ Outside => Quiet
  BY DEF IInv, Quiet, Outside, Nop, Shift, Output, ChangesNothing, Load, Store, PrintString,
         ReadString, StoreOf, CompareExchange, Input, Halt, Interrupt, Steady

\* The stack in memory is not where return addresses are.
LEMMA StackIsQuiet == IInv /\ StackInstructions => Quiet
  BY DEF IInv, Quiet, StackInstructions, StackVariable, Push, Pop, PushAll, PopAll

\* Jumps, taken or not, end on a pc in range.
LEMMA JumpsAreQuiet == IInv /\ (Jump \/ JumpIf \/ Loop \/ SetException) => Quiet
  <1> SUFFICES ASSUME IInv, Jump \/ JumpIf \/ Loop \/ SetException PROVE Quiet
    OBVIOUS
  <1>1. CASE Jump
    BY <1>1, PcInPCs DEF IInv, Quiet, Jump
  <1>2. CASE JumpIf
    <2>1. ASSUME NEW taken, Branch(taken) PROVE pc' \in PCs
      BY <2>1 DEF Branch, IInv
    <2> QED BY <1>2, <2>1 DEF IInv, Quiet, JumpIf
  <1>3. CASE Loop
    BY <1>3 DEF IInv, Quiet, Loop
  <1>4. CASE SetException
    BY <1>4 DEF IInv, Quiet, SetException
  <1> QED BY <1>1, <1>2, <1>3, <1>4

\* A quiet step keeps the invariant and goes on, in the abstract stack.
LEMMA QuietGoesOn == IInv /\ Quiet => IInv' /\ Calls!GoOn
  <1> SUFFICES ASSUME IInv, Quiet PROVE IInv' /\ Calls!GoOn
    OBVIOUS
  <1>1. IInv'
    BY DEF IInv, Quiet, RasOK
  <1>2. calls' = calls
    BY DEF Quiet, calls
  <1> QED BY <1>1, <1>2 DEF Calls!GoOn, calls, Quiet

\* The mapped calls are a sequence of program counters.
LEMMA CallsIsSeq == IInv => calls \in Seq(PCs) /\ Len(calls) = ras.sp
  <1> SUFFICES ASSUME IInv PROVE calls \in Seq(PCs) /\ Len(calls) = ras.sp
    OBVIOUS
  <1>1. ASSUME NEW i \in 1..ras.sp PROVE ras.array[i - 1] \in PCs
    BY DEF IInv, RasOK
  <1>2. calls \in [1..ras.sp -> PCs] /\ ras.sp \in Nat
    BY <1>1 DEF IInv, RasOK, calls
  <1> HIDE DEF calls
  <1> QED BY <1>2

\* A sequence written as a function that ends in x is an Append.
LEMMA AppendIs ==
    ASSUME NEW s \in Seq(PCs), NEW x \in PCs,
           NEW t, t = [i \in 1..(Len(s) + 1) |-> IF i = Len(s) + 1 THEN x ELSE s[i]]
    PROVE  t = Append(s, x)
  <1>1. t \in Seq(PCs) /\ Len(t) = Len(s) + 1
    <2>1. Len(s) + 1 \in Nat /\ \A i \in 1..Len(s) : s[i] \in PCs
      BY ElementOfSeq
    <2>2. t \in [1..(Len(s) + 1) -> PCs]
      BY <2>1
    <2> QED BY <2>1, <2>2
  <1>2. \A i \in 1..Len(t) : t[i] = Append(s, x)[i]
    BY <1>1, AppendProperties
  <1>3. Append(s, x) \in Seq(PCs) /\ Len(Append(s, x)) = Len(s) + 1
    BY AppendProperties
  <1> DEFINE a == Append(s, x)
  <1>4. a \in Seq(PCs) /\ Len(t) = Len(a) /\ \A i \in 1..Len(t) : t[i] = a[i]
    BY <1>1, <1>2, <1>3
  <1> HIDE DEF a
  <1>5. t = a
    BY <1>1, <1>4, SeqEqual
  <1> QED BY <1>5 DEF a

\* merry_stack_push, with or without growing the array, appends the return address.
LEMMA PushIsAppend ==
    ASSUME IInv, RasFull => RasGrows, ras' = RasPush(pc)
    PROVE  RasOK' /\ ras.sp < RasLimit /\ calls' = Append(calls, pc)
  <1> DEFINE size == IF RasFull THEN ras.size + RasGrow ELSE ras.size
  <1>1. size \in Nat /\ ras.sp < size /\ size <= RasLimit /\ ras.size <= size
    BY CoreAssumption DEF IInv, RasOK, RasFull, RasGrows
  <1>2. /\ ras'.size = size /\ ras'.sp = ras.sp + 1
        /\ DOMAIN ras' = {"array", "size", "sp"}
        /\ ras'.array = [i \in 0..(size - 1) |->
                           IF i = ras.sp THEN pc
                           ELSE IF i < ras.size THEN ras.array[i] ELSE 0]
    BY DEF RasPush
  <1> HIDE DEF size
  <1>3. RasOK'
    <2> DEFINE kept(i) == IF i = ras.sp THEN pc ELSE IF i < ras.size THEN ras.array[i] ELSE 0
    <2>1. ASSUME NEW i \in 0..(size - 1) PROVE kept(i) \in PCs
      <3>1. 0 \in PCs /\ pc \in PCs
        BY CoreAssumption DEF IInv, PCs
      <3>2. i < ras.size => ras.array[i] \in PCs
        BY <1>1 DEF IInv, RasOK
      <3> QED BY <3>1, <3>2
    <2> QED BY <1>1, <1>2, <2>1, CoreAssumption DEF IInv, RasOK
  <1>4. calls' = Append(calls, pc)
    <2>1. calls \in Seq(PCs) /\ Len(calls) = ras.sp
      BY CallsIsSeq
    <2>2. calls' = [i \in 1..(ras.sp + 1) |-> IF i = ras.sp + 1 THEN pc ELSE calls[i]]
      BY <1>1, <1>2 DEF IInv, RasOK, calls
    <2> HIDE DEF calls
    <2>3. pc \in PCs
      BY DEF IInv
    <2>4. Append(calls, pc) = [i \in 1..(Len(calls) + 1) |-> IF i = Len(calls) + 1 THEN pc ELSE calls[i]]
      BY <2>1, <2>3, AppendIs
    <2> QED BY <2>1, <2>2, <2>4
  <1>5. ras.sp < RasLimit
    BY <1>1, CoreAssumption DEF IInv, RasOK
  <1> QED BY <1>3, <1>4, <1>5

\* CALL and CALL_EXCP push the return address, whether or not the stack in memory
\* then has room, unless the return address stack is full and does not grow.
LEMMA CallsCall ==
    ASSUME IInv, NEW targets \in SUBSET PCs, CallTo(targets)
    PROVE  IInv' /\ (Calls!Call \/ Calls!GoOn)
  <1>1. CASE RasFull /\ Fails /\ UNCHANGED <<pc, stack, ras>>
    BY <1>1, QuietGoesOn DEF CallTo, IInv, Quiet
  <1>2. CASE /\ RasFull => RasGrows
             /\ ras' = RasPush(pc)
             /\ pc' \in targets
    <2>1. RasOK' /\ ras.sp < RasLimit /\ calls' = Append(calls, pc)
      BY <1>2, PushIsAppend
    <2>2. Len(calls) = ras.sp
      BY DEF IInv, RasOK, calls
    <2> QED BY <1>2, <2>1, <2>2 DEF IInv, CallTo, Calls!Call, calls
  <1>3. CASE GoesAstray
    BY <1>3, QuietGoesOn DEF GoesAstray, IInv, Quiet
  <1> QED BY <1>1, <1>2, <1>3 DEF CallTo

\* RET is a return, or fails because no call is open.
LEMMA RetReturns == IInv /\ Ret => IInv' /\ (Calls!Return \/ Calls!GoOn)
  <1> SUFFICES ASSUME IInv, Ret PROVE IInv' /\ (Calls!Return \/ Calls!GoOn)
    OBVIOUS
  <1>1. CASE ras.sp = 0 /\ UNCHANGED <<pc, stack, ras>>
    BY <1>1, QuietGoesOn DEF Ret, IInv, Quiet
  <1>2. CASE /\ ras.sp > 0
             /\ ras' = [ras EXCEPT !.sp = @ - 1]
             /\ pc' = ras.array[ras.sp - 1]
    <2>1. ras'.sp = ras.sp - 1 /\ ras'.array = ras.array /\ RasOK' /\ pc' \in PCs
      BY <1>2 DEF IInv, RasOK
    <2>2. calls \in Seq(PCs) /\ Len(calls) = ras.sp /\ calls # <<>>
      <3>1. calls \in Seq(PCs) /\ Len(calls) = ras.sp
        BY CallsIsSeq
      <3>2. Len(calls) # 0
        BY <1>2, <3>1
      <3> HIDE DEF calls
      <3> QED BY <3>1, <3>2
    <2>3. calls[Len(calls)] = pc'
      BY <1>2, <2>2 DEF IInv, RasOK, calls
    <2>4. calls' = SubSeq(calls, 1, Len(calls) - 1)
      <3>1. calls' = [i \in 1..(ras.sp - 1) |-> calls[i]]
        BY <1>2, <2>1 DEF IInv, RasOK, calls
      <3> QED BY <2>2, <3>1 DEF IInv, RasOK
    <2> QED BY <1>2, <2>1, <2>2, <2>3, <2>4 DEF IInv, Ret, Calls!Return, calls
  <1>3. CASE GoesAstray
    BY <1>3, QuietGoesOn DEF GoesAstray, IInv, Quiet
  <1> QED BY <1>1, <1>2, <1>3 DEF Ret

\* Every step is a call, a return or neither, and keeps the invariant.
LEMMA NextRefines ==
    IInv /\ [Next]_vars => IInv' /\ [Calls!Call \/ Calls!Return \/ Calls!GoOn]_<<pc, calls>>
  <1> SUFFICES ASSUME IInv, [Next]_vars
               PROVE  IInv' /\ (\/ Calls!Call \/ Calls!Return \/ Calls!GoOn
                                \/ UNCHANGED <<pc, calls>>)
    OBVIOUS
  <1>1. CASE Quiet
    BY <1>1, QuietGoesOn
  <1>2. CASE Call
    BY <1>2, CallsCall DEF Call
  <1>3. CASE CallException
    BY <1>3, CallsCall, PcInPCs DEF CallException
  <1>4. CASE Ret
    BY <1>4, RetReturns
  <1>5. CASE UNCHANGED vars
    BY <1>5, QuietGoesOn DEF vars, IInv, Quiet
  <1> QED BY <1>1, <1>2, <1>3, <1>4, <1>5, LoopIsQuiet, ArithmeticIsQuiet, MovesAreQuiet,
             ComparisonsAreQuiet, OutsideIsQuiet, StackIsQuiet, JumpsAreQuiet
          DEF Next, Jumps

\* RET goes back to where the last CALL that has not returned was made, and
\* calls are never deeper than the limit, for every size of everything.
THEOREM ReturnsAlwaysMatchCalls == Spec => ReturnsMatchCalls
  <1>1. Calls!Spec <=> Calls!Init /\ [][Calls!Call \/ Calls!Return \/ Calls!GoOn]_<<pc, calls>>
    BY DEF Calls!Spec, calls
  <1> QED BY <1>1, InitIInv, NextRefines, PTL DEF Spec, ReturnsMatchCalls

\* The loop, and the instructions that do not use the stack, end at the loop's
\* head or leave the thread where it was.
LEMMA OthersStay ==
    LoopTop \/ OSStops \/ Arithmetic \/ Moves \/ Comparisons \/ Outside
      \/ Jump \/ JumpIf \/ Loop \/ SetException => place' # "astray"
  <1>1. ASSUME Arithmetic PROVE place' # "astray"
    BY <1>1 DEF Arithmetic, ArithImm, ArithReg, ArithMem, IArithImm, FloatReg, FloatMem,
                Compute, FailsHarmlessly, Goes, Fails
  <1>2. ASSUME Moves PROVE place' # "astray"
    BY <1>2 DEF Moves, MoveImm, MoveImm64, MoveReg, MoveSignExtended, Exchange, MoveLow,
                LogicImm, LogicReg, Not, IncDec, Lea, Reset, GetImmediate, Goes, Fails
  <1>3. ASSUME Comparisons PROVE place' # "astray"
    BY <1>3 DEF Comparisons, CmpImm, CmpReg, CmpMem, ClearFlags, ClearFlag, GetImmediate,
                FailsHarmlessly, Goes, Fails
  <1>4. ASSUME Outside PROVE place' # "astray"
    BY <1>4 DEF Outside, Nop, Shift, Output, ChangesNothing, Load, Store, PrintString,
                ReadString, StoreOf, CompareExchange, Input, Halt, Interrupt,
                FailsHarmlessly, Goes, Fails
  <1>5. ASSUME Jump \/ JumpIf \/ Loop \/ SetException PROVE place' # "astray"
    BY <1>5 DEF Jump, JumpIf, Loop, SetException, Goes
  <1> QED BY <1>1, <1>2, <1>3, <1>4, <1>5 DEF LoopTop, OSStops

\* Calls and RET leave the page only from SP or BP outside it.
LEMMA CallsStrayAtEdges ==
    (Call \/ CallException \/ Ret) /\ place' = "astray" => ~InPage(sp) \/ ~InPage(bp)
  BY DEF Call, CallException, CallTo, ExecuteCall, Ret, Goes, Fails

\* A variable of the stack is at or below BP; PUSH stores one above SP, PUSHA
\* stores only where it found room, and POP and POPA read at SP.
LEMMA StackStraysAtEdges ==
    StackInstructions /\ place' = "astray" => ~InPage(sp) \/ sp = QS - 1 \/ ~InPage(bp)
  <1> SUFFICES ASSUME StackInstructions, place' = "astray", InPage(sp), InPage(bp)
               PROVE  sp = QS - 1
    OBVIOUS
  <1>1. QS \in Nat /\ sp \in 0..(QS - 1) /\ bp \in 0..(QS - 1)
    BY CoreAssumption, WordsAssumption DEF InPage
  <1>2. CASE StackVariable
    <2>1. PICK i \in {"SVA", "SVC", "SVA_MEM", "SVC_MEM"} : Variable(i)
      BY <1>2 DEF StackVariable
    <2>2. PICK off \in Imms : bp >= off /\ ~InPage(bp - off)
      BY <2>1 DEF Variable, FailsHarmlessly, Goes, Fails
    <2> QED BY <1>1, <2>2 DEF InPage, Imms
  <1>3. CASE Push
    <2>1. ~InPage(sp + 1)
      BY <1>3 DEF Push, FailsHarmlessly, Goes, Fails
    <2> QED BY <1>1, <2>1 DEF InPage
  <1>4. CASE Pop
    BY <1>4 DEF Pop, FailsHarmlessly, Goes, Fails
  <1>5. CASE PushAll
    <2>1. CheckStackLim(REGR_COUNT) /\ ~InPage(sp + REGR_COUNT)
      BY <1>5 DEF PushAll, FailsHarmlessly, Goes, Fails
    <2> QED BY <1>1, <2>1, CoreAssumption DEF CheckStackLim, StackEmpty, Empty, InPage
  <1>6. CASE PopAll
    BY <1>6 DEF PopAll, FailsHarmlessly, Goes, Fails
  <1> QED BY <1>2, <1>3, <1>4, <1>5, <1>6 DEF StackInstructions

\* The checks of the stack leave exactly its edges open: from an SP below the
\* last entry and a BP on any entry, no instruction leaves the page.
THEOREM StraysOnlyAtEdges == Spec => StraysAtEdges
  <1>1. ASSUME Next, place' = "astray"
        PROVE  ~InPage(sp) \/ sp = QS - 1 \/ ~InPage(bp)
    BY <1>1, OthersStay, CallsStrayAtEdges, StackStraysAtEdges DEF Next, Jumps
  <1>2. [Next]_vars =>
          [place # "astray" /\ place' = "astray" =>
             ~InPage(sp) \/ sp = QS - 1 \/ ~InPage(bp)]_vars
    BY <1>1
  <1> QED BY <1>2, PTL DEF Spec, StraysAtEdges

\* After a comparison the zero flag says that the two are equal, carry that the
\* first is smaller, and negative without overflow or overflow without negative
\* that it is smaller as a signed number: for words of any width.
THEOREM CompareFlagsTell ==
    ASSUME NEW H \in Nat \ {0}, Words = 2 * H, NEW x \in Values, NEW y \in Values
    PROVE  LET f == CompareFlags(x, y)
           IN  /\ (f.zero = "set") = (Order(x, y) = "equal")
               /\ (f.carry = "set") = (Order(x, y) = "less")
               /\ (f.negative # f.overflow) = (Order(SignedValue(x), SignedValue(y)) = "less")
  <1>1. Words \in Nat \ {0} /\ Words \div 2 = H
    OBVIOUS
  <1>2. Word(x - y) = IF x < y THEN x - y + Words ELSE x - y
    BY <1>1 DEF Word, Values
  <1> QED BY <1>1, <1>2 DEF CompareFlags, FlagOf, Negative, SignedValue, Order, Values

-----------------------------------------------------------------------------
(* Words and their bits *)

\* A number that has more values has twice as many for each bit more.
LEMMA PowerStep ==
    ASSUME NEW n \in Nat
    PROVE  2^n \in Nat /\ 2^(n + 1) = 2 * 2^n
  <1> DEFINE A == SUBSET (1..n)
             with(X) == X \cup {n + 1}
             f == [X \in A |-> with(X)]
             B == {with(X) : X \in A}
  <1>1. /\ IsFiniteSet(1..n) /\ Cardinality(1..n) = n
        /\ IsFiniteSet(1..(n + 1)) /\ Cardinality(1..(n + 1)) = n + 1
    <2>1. n \in Int /\ n + 1 \in Int /\ 1 \in Int /\ ~(1 > n + 1) /\ (1 > n => n = 0)
      OBVIOUS
    <2>2. IsFiniteSet(1..n) /\ Cardinality(1..n) = IF 1 > n THEN 0 ELSE n - 1 + 1
      BY <2>1, FS_Interval
    <2>3. IsFiniteSet(1..(n + 1)) /\ Cardinality(1..(n + 1)) = IF 1 > n + 1 THEN 0 ELSE n + 1 - 1 + 1
      BY <2>1, FS_Interval
    <2> QED BY <2>1, <2>2, <2>3
  <1>2. /\ IsFiniteSet(A) /\ Cardinality(A) = 2^n
        /\ IsFiniteSet(SUBSET (1..(n + 1))) /\ Cardinality(SUBSET (1..(n + 1))) = 2^(n + 1)
    BY <1>1, FS_SUBSET
  <1>3. f \in Bijection(A, B)
    <2>1. \A X \in A : n + 1 \notin X
      OBVIOUS
    <2>2. f \in [A -> B] /\ \A X \in A : f[X] = with(X)
      OBVIOUS
    <2>3. ASSUME NEW X \in A, NEW Y \in A, f[X] = f[Y] PROVE X = Y
      <3>1. with(X) = with(Y)
        BY <2>2, <2>3
      <3> QED BY <2>1, <3>1
    <2>4. \A t \in B : \E X \in A : f[X] = t
      BY <2>2
    <2> HIDE DEF f, A, B
    <2> QED BY <2>2, <2>3, <2>4 DEF Bijection, Injection, IsInjective, Surjection
  <1>4. IsFiniteSet(B) /\ Cardinality(B) = Cardinality(A)
    <2>1. ExistsBijection(A, B)
      BY <1>3 DEF ExistsBijection
    <2> HIDE DEF A, B
    <2> QED BY <1>2, <2>1, FS_Bijection
  <1>5. A \cup B = SUBSET (1..(n + 1))
    <2>1. ASSUME NEW Y \in SUBSET (1..(n + 1)), Y \notin A PROVE Y \in B
      <3>1. Y \ {n + 1} \in A
        OBVIOUS
      <3>2. n + 1 \in Y
        BY <2>1
      <3>3. Y = with(Y \ {n + 1})
        BY <3>2
      <3> QED BY <3>1, <3>3
    <2>2. \A X \in A : X \in SUBSET (1..(n + 1)) /\ with(X) \in SUBSET (1..(n + 1))
      OBVIOUS
    <2>3. \A Y \in SUBSET (1..(n + 1)) : Y \in A \/ Y \in B
      <3> HIDE DEF A, B
      <3> QED BY <2>1
    <2>4. \A Y \in A : Y \in SUBSET (1..(n + 1))
      OBVIOUS
    <2>5. ASSUME NEW Y \in B PROVE Y \in SUBSET (1..(n + 1))
      <3>1. PICK X \in A : Y = with(X)
        OBVIOUS
      <3> HIDE DEF A, B, with
      <3> QED BY <2>2, <3>1
    <2> DEFINE All == SUBSET (1..(n + 1))
    <2> HIDE DEF A, B, All
    <2>6. A \subseteq All /\ B \subseteq All /\ \A Y \in All : Y \in A \/ Y \in B
      BY <2>3, <2>4, <2>5 DEF All
    <2>7. A \cup B = All
      BY <2>6
    <2> QED BY <2>7 DEF All
  <1>6. A \cap B = {}
    <2>1. n + 1 \notin 1..n
      OBVIOUS
    <2> QED BY <2>1
  <1>7. Cardinality(A \cup B) = Cardinality(A) + Cardinality(B) - Cardinality(A \cap B)
    <2> HIDE DEF A, B
    <2> QED BY <1>2, <1>4, FS_Union
  <1>8. Cardinality(A) \in Nat /\ Cardinality(A \cap B) = 0
    <2>1. Cardinality({}) = 0
      BY FS_EmptySet
    <2> HIDE DEF A, B
    <2> QED BY <1>2, <1>6, <2>1, FS_CardinalityType
  <1> HIDE DEF A, B
  <1>9. PICK half \in Nat : half = Cardinality(A)
    BY <1>8
  <1>10. 2^n = half /\ 2^(n + 1) = half + half - 0
    BY <1>2, <1>4, <1>5, <1>7, <1>8, <1>9
  <1>11. half + half - 0 = 2 * half
    OBVIOUS
  <1>12. 2^(n + 1) = 2 * half
    BY <1>10, <1>11
  <1> QED BY <1>9, <1>10, <1>12

\* The numbers, each with those that are greater.
Less == {ss \in Nat \X Nat : ss[1] < ss[2]}

\* Every set of numbers has a least one: the library's induction, in a form that
\* needs no formula as a parameter.
LEMMA LeastNumber ==
    ASSUME NEW T \in SUBSET Nat, T # {}
    PROVE  \E n \in T : n - 1 \notin T
  <1>1. IsWellFoundedOn(Less, Nat)
    BY NatLessThanWellFounded DEF OpToRel, Less
  <1>2. PICK n \in T : \A m \in T : ~(<<m, n>> \in Less)
    BY <1>1, WFMin
  <1>3. ASSUME n - 1 \in T PROVE FALSE
    <2>1. n - 1 \in Nat /\ n \in Nat /\ n - 1 < n
      BY <1>3
    <2>2. <<n - 1, n>> \in Less
      BY <2>1 DEF Less
    <2> QED BY <1>2, <1>3, <2>2
  <1> QED BY <1>2, <1>3

\* 2^n grows with n and is never 0.
LEMMA PowerPositive == \A n \in Nat : 2^n \in Nat \ {0}
  <1> DEFINE T == {n \in Nat : 2^n = 0}
  <1>1. ASSUME T # {} PROVE FALSE
    <2>1. PICK n \in T : n - 1 \notin T
      BY <1>1, LeastNumber
    <2>2. n # 0
      <3>1. n = 0 => 2^n = 1
        OBVIOUS
      <3>2. 2^n = 0
        BY <2>1
      <3> QED BY <3>1, <3>2
    <2>3. n - 1 \in Nat /\ 2^(n - 1) # 0
      BY <2>1, <2>2
    <2>4. 2^((n - 1) + 1) = 2 * 2^(n - 1) /\ 2^(n - 1) \in Nat
      BY <2>3, PowerStep
    <2>5. (n - 1) + 1 = n /\ 2^n = 0
      BY <2>1
    <2> QED BY <2>3, <2>4, <2>5
  <1> QED BY <1>1, PowerStep

\* Halves of numbers: what a shift by one bit does to the bits.
LEMMA DivIs ==
    ASSUME NEW a \in Nat, NEW d \in Nat \ {0}
    PROVE  a \div d \in Nat /\ a % d \in 0..(d - 1) /\ a = (a \div d) * d + (a % d)
  OBVIOUS

\* Quotient and rest are what they are.
LEMMA DivOnce ==
    ASSUME NEW d \in Nat \ {0}, NEW q \in Nat, NEW r \in 0..(d - 1),
           NEW p \in Nat, NEW o \in 0..(d - 1), q * d + r = p * d + o
    PROVE  q = p /\ r = o
  <1>1. ASSUME NEW x \in Nat, NEW y \in Nat, x < y PROVE x * d + d <= y * d
    <2>1. PICK z \in Nat : y = x + 1 + z
      BY <1>1
    <2>2. y * d = x * d + d + z * d /\ z * d \in Nat /\ x * d \in Nat
      BY <2>1
    <2> QED BY <2>2
  <1>2. PICK s \in Nat, t \in Nat : s = q * d /\ t = p * d
    OBVIOUS
  <1>3. s + r = t + o
    BY <1>2
  <1>4. CASE q < p
    <2>1. s + d <= t
      BY <1>1, <1>2, <1>4
    <2> QED BY <1>3, <2>1
  <1>5. CASE p < q
    <2>1. t + d <= s
      BY <1>1, <1>2, <1>5
    <2> QED BY <1>3, <2>1
  <1>6. CASE p = q
    BY <1>2, <1>3, <1>6
  <1> QED BY <1>4, <1>5, <1>6

\* A number shifted by one bit more is its half shifted.
LEMMA HalfShifts ==
    ASSUME NEW a \in Nat, NEW d \in Nat \ {0}
    PROVE  a \div (2 * d) = (a \div 2) \div d
  <1>1. PICK h \in Nat, b \in {0, 1} : h = a \div 2 /\ a = 2 * h + b
    OBVIOUS
  <1>2. PICK q \in Nat, r \in 0..(d - 1) : q = h \div d /\ h = q * d + r
    BY DivIs
  <1>3. PICK e \in Nat \ {0} : e = 2 * d
    OBVIOUS
  <1>4. PICK p \in Nat, o \in 0..(e - 1) : p = a \div e /\ a = p * e + o
    BY DivIs
  <1>5. a = q * e + (2 * r + b) /\ 2 * r + b \in 0..(e - 1)
    <2>1. PICK m \in Nat : m = q * d
      OBVIOUS
    <2>2. q * e = 2 * m
      BY <1>3, <2>1
    <2>3. h = m + r
      BY <1>2, <2>1
    <2> QED BY <1>1, <1>3, <2>2, <2>3
  <1>6. q = p
    BY <1>4, <1>5, DivOnce
  <1> QED BY <1>1, <1>2, <1>3, <1>4, <1>6

Bit(x, i) == (x \div 2^i) % 2

\* The first bit, and the others as the bits of the half.
LEMMA BitsAre ==
    ASSUME NEW x \in Nat
    PROVE  /\ Bit(x, 0) = x % 2
           /\ \A i \in Nat : Bit(x, i + 1) = Bit(x \div 2, i)
  <1>1. ASSUME NEW i \in Nat PROVE Bit(x, i + 1) = Bit(x \div 2, i)
    <2>1. PICK d \in Nat \ {0} : d = 2^i
      BY PowerPositive
    <2>2. 2^(i + 1) = 2 * d
      BY <2>1, PowerStep
    <2>3. x \div (2 * d) = (x \div 2) \div d
      BY HalfShifts
    <2> QED BY <2>1, <2>2, <2>3 DEF Bit
  <1>2. x \div 1 = x
    OBVIOUS
  <1>3. Bit(x, 0) = x % 2
    BY <1>2 DEF Bit
  <1> QED BY <1>1, <1>3

\* x and y agree in their first n bits.
SameBits(n, x, y) == \A i \in Nat : i < n => Bit(x, i) = Bit(y, i)

\* Numbers with the same bits are the same.
LEMMA BitsTell ==
    \A n \in Nat : \A x, y \in 0..(2^n - 1) : SameBits(n, x, y) => x = y
  <1> DEFINE P(n) == \A x, y \in 0..(2^n - 1) : SameBits(n, x, y) => x = y
             T == {n \in Nat : ~P(n)}
  <1>1. ASSUME T # {} PROVE FALSE
    <2>1. PICK n \in Nat : ~P(n) /\ n - 1 \notin T
      BY <1>1, LeastNumber
    <2>2. n # 0
      <3>1. n = 0 => 2^n = 1
        OBVIOUS
      <3>2. n = 0 => 0..(2^n - 1) = {0}
        BY <3>1
      <3> QED BY <2>1, <3>2
    <2>3. PICK m \in Nat : n = m + 1 /\ P(m)
      BY <2>1, <2>2
    <2>4. PICK half \in Nat : half = 2^m /\ 2^n = 2 * half
      BY <2>3, PowerStep
    <2>5. PICK x \in 0..(2^n - 1), y \in 0..(2^n - 1) : SameBits(n, x, y) /\ x # y
      BY <2>1
    <2>6. PICK xh \in 0..(half - 1), yh \in 0..(half - 1) :
             /\ xh = x \div 2 /\ yh = y \div 2
             /\ x = 2 * xh + (x % 2) /\ y = 2 * yh + (y % 2)
      BY <2>4, <2>5
    <2>7. x \in Nat /\ y \in Nat
      BY <2>4, <2>5
    <2>8. SameBits(m, xh, yh)
      <3> SUFFICES ASSUME NEW i \in Nat, i < m PROVE Bit(xh, i) = Bit(yh, i)
        BY DEF SameBits
      <3>1. Bit(x, i + 1) = Bit(y, i + 1)
        BY <2>3, <2>5 DEF SameBits
      <3> QED BY <2>6, <2>7, <3>1, BitsAre
    <2>9. xh = yh
      BY <2>3, <2>4, <2>6, <2>8
    <2>10. x % 2 = y % 2
      <3>1. Bit(x, 0) = Bit(y, 0)
        BY <2>3, <2>5 DEF SameBits
      <3> QED BY <2>7, <3>1, BitsAre
    <2> QED BY <2>5, <2>6, <2>9, <2>10
  <1> QED BY <1>1

\* S has the bits, of the first n, that are set in x.
HasBits(n, x, S) == \A i \in Nat : i < n => (Bit(x, i) = 1 <=> i \in S)

\* Every set of bits is that of a number.
LEMMA BitsMake ==
    \A n \in Nat : \A S \in SUBSET Nat : \E x \in 0..(2^n - 1) : HasBits(n, x, S)
  <1> DEFINE P(n) == \A S \in SUBSET Nat : \E x \in 0..(2^n - 1) : HasBits(n, x, S)
             T == {n \in Nat : ~P(n)}
  <1>1. ASSUME T # {} PROVE FALSE
    <2>1. PICK n \in Nat : ~P(n) /\ n - 1 \notin T
      BY <1>1, LeastNumber
    <2>2. n # 0
      <3>1. n = 0 => 2^n = 1
        OBVIOUS
      <3>2. n = 0 => 0 \in 0..(2^n - 1)
        BY <3>1
      <3>3. n = 0 => \A S \in SUBSET Nat : HasBits(n, 0, S)
        BY DEF HasBits
      <3> QED BY <2>1, <3>2, <3>3
    <2>3. PICK m \in Nat : n = m + 1 /\ P(m)
      BY <2>1, <2>2
    <2>4. PICK half \in Nat : half = 2^m /\ 2^n = 2 * half
      BY <2>3, PowerStep
    <2>5. PICK S \in SUBSET Nat : \A x \in 0..(2^n - 1) : ~HasBits(n, x, S)
      BY <2>1
    <2>6. PICK xh \in 0..(half - 1) : HasBits(m, xh, {i \in Nat : i + 1 \in S})
      <3>1. {i \in Nat : i + 1 \in S} \in SUBSET Nat
        OBVIOUS
      <3> QED BY <2>3, <2>4, <3>1
    <2>7. PICK b \in {0, 1} : b = 1 <=> 0 \in S
      OBVIOUS
    <2>8. PICK x \in Nat : x = 2 * xh + b
      BY <2>4, <2>6
    <2>9. x \in 0..(2^n - 1) /\ x \div 2 = xh /\ x % 2 = b
      BY <2>4, <2>6, <2>8
    <2>10. HasBits(n, x, S)
      <3> SUFFICES ASSUME NEW i \in Nat, i < n PROVE Bit(x, i) = 1 <=> i \in S
        BY DEF HasBits
      <3>1. CASE i = 0
        BY <2>7, <2>9, <3>1, BitsAre
      <3>2. CASE i # 0
        <4>1. PICK j \in Nat : i = j + 1 /\ j < m
          BY <2>3, <3>2
        <4>2. Bit(x, i) = Bit(xh, j)
          BY <2>9, <4>1, BitsAre
        <4>3. Bit(xh, j) = 1 <=> j + 1 \in S
          BY <2>6, <4>1 DEF HasBits
        <4> QED BY <4>1, <4>2, <4>3
      <3> QED BY <3>1, <3>2
    <2> QED BY <2>5, <2>9, <2>10
  <1> QED BY <1>1

\* A word is its bits, and every set of bits is that of a word.
THEOREM WordsAreBits ==
    /\ \A S \in SUBSET (0..(Bits - 1)) : OfBits(S) \in Values /\ BitsOf(OfBits(S)) = S
    /\ \A x \in Values : OfBits(BitsOf(x)) = x
  <1>1. Bits \in Nat /\ Values = 0..(2^Bits - 1)
    BY WordsAssumption DEF Values
  <1>2. ASSUME NEW x PROVE BitsOf(x) = {i \in 0..(Bits - 1) : Bit(x, i) = 1}
    BY DEF BitsOf, Bit
  <1>3. ASSUME NEW S \in SUBSET (0..(Bits - 1)) PROVE \E x \in Values : BitsOf(x) = S
    <2>1. S \in SUBSET Nat
      BY <1>1
    <2>2. PICK x \in Values : HasBits(Bits, x, S)
      BY <1>1, <2>1, BitsMake
    <2>3. \A i \in 0..(Bits - 1) : Bit(x, i) = 1 <=> i \in S
      BY <1>1, <2>2 DEF HasBits
    <2> QED BY <1>2, <2>3
  <1>4. ASSUME NEW x \in Values, NEW y \in Values, BitsOf(x) = BitsOf(y) PROVE x = y
    <2>1. x \in Nat /\ y \in Nat
      BY <1>1, PowerPositive
    <2>2. ASSUME NEW i \in Nat, i < Bits PROVE Bit(x, i) = Bit(y, i)
      <3>1. Bit(x, i) \in {0, 1} /\ Bit(y, i) \in {0, 1}
        <4>1. PICK d \in Nat \ {0} : d = 2^i
          BY PowerPositive
        <4>2. x \div d \in Nat /\ y \div d \in Nat
          BY <2>1, DivIs
        <4> QED BY <4>1, <4>2 DEF Bit
      <3>2. i \in 0..(Bits - 1)
        BY <1>1, <2>2
      <3>3. Bit(x, i) = 1 <=> Bit(y, i) = 1
        BY <1>2, <1>4, <3>2
      <3> QED BY <3>1, <3>3
    <2> QED BY <1>1, <2>2, BitsTell DEF SameBits
  <1>5. ASSUME NEW S \in SUBSET (0..(Bits - 1)) PROVE OfBits(S) \in Values /\ BitsOf(OfBits(S)) = S
    BY <1>3 DEF OfBits
  <1>6. ASSUME NEW x \in Values PROVE OfBits(BitsOf(x)) = x
    <2>1. BitsOf(x) \in SUBSET (0..(Bits - 1))
      BY DEF BitsOf
    <2> QED BY <1>4, <1>5, <2>1
  <1> QED BY <1>5, <1>6

\* Powers of two grow.
LEMMA PowersGrow == \A n \in Nat : \A b \in Nat : b <= n => 2^b <= 2^n
  <1> DEFINE P(n) == \A b \in Nat : b <= n => 2^b <= 2^n
             T == {n \in Nat : ~P(n)}
  <1>1. ASSUME T # {} PROVE FALSE
    <2>1. PICK n \in Nat : ~P(n) /\ n - 1 \notin T
      BY <1>1, LeastNumber
    <2>2. PICK b \in Nat : b <= n /\ ~(2^b <= 2^n)
      BY <2>1
    <2>3. PICK x \in Nat, y \in Nat : x = 2^b /\ y = 2^n
      BY PowerPositive
    <2>4. b # n
      BY <2>2, <2>3
    <2>5. PICK m \in Nat : n = m + 1 /\ P(m) /\ b <= m
      BY <2>1, <2>2, <2>4
    <2>6. PICK z \in Nat : z = 2^m /\ 2^n = 2 * z
      BY <2>5, PowerStep
    <2> QED BY <2>2, <2>3, <2>5, <2>6
  <1> QED BY <1>1

\* The widths of words, immediates and masks.
LEMMA Widths ==
    /\ Bits \in Nat /\ Words \in Nat \ {0}
    /\ ImmWords \in 1..Words /\ SxWords \in 1..(Words - 1) /\ NarrowWords \in 1..SxWords
    /\ \E H \in Nat \ {0} : Words = 2 * H
  <1>1. ASSUME NEW b \in 1..Bits PROVE 2^b \in 1..Words
    <2>1. b \in Nat /\ Bits \in Nat /\ b <= Bits
      BY WordsAssumption
    <2>2. 2^b \in Nat \ {0} /\ 2^Bits \in Nat \ {0} /\ 2^b <= 2^Bits
      BY <2>1, PowerPositive, PowersGrow
    <2> QED BY <2>2, WordsAssumption
  <1>2. ImmWords \in 1..Words /\ SxWords \in 1..Words /\ NarrowWords \in 1..Words
    BY <1>1, WordsAssumption
  <1>3. Words \in Nat \ {0}
    BY WordsAssumption, PowerPositive
  <1>4. PICK m \in Nat : Bits = m + 1
    <2>1. Bits \in Nat \ {0}
      BY WordsAssumption
    <2>2. Bits - 1 \in Nat /\ Bits = (Bits - 1) + 1
      BY <2>1
    <2> QED BY <2>2
  <1>5. PICK H \in Nat \ {0} : H = 2^m
    BY PowerPositive
  <1>6. Words = 2 * H
    BY <1>4, <1>5, PowerStep, WordsAssumption
  <1> QED BY <1>2, <1>3, <1>6, WordsAssumption

\* What the operators on words compute are words, of any two words.
LEMMA LogicTypes == \A op \in {"and", "or", "xor"} : \A x, y : Logic(op, x, y) \in Values
  <1> SUFFICES ASSUME NEW op \in {"and", "or", "xor"}, NEW x, NEW y
               PROVE  Logic(op, x, y) \in Values
    OBVIOUS
  <1>1. BitsOf(x) \in SUBSET (0..(Bits - 1)) /\ BitsOf(y) \in SUBSET (0..(Bits - 1))
    BY DEF BitsOf
  <1>2. /\ BitsOf(x) \cap BitsOf(y) \in SUBSET (0..(Bits - 1))
        /\ BitsOf(x) \cup BitsOf(y) \in SUBSET (0..(Bits - 1))
        /\ (BitsOf(x) \cup BitsOf(y)) \ (BitsOf(x) \cap BitsOf(y)) \in SUBSET (0..(Bits - 1))
    BY <1>1
  <1>3. CASE op = "and"
    BY <1>2, <1>3, WordsAreBits DEF Logic
  <1>4. CASE op = "or"
    BY <1>2, <1>4, WordsAreBits DEF Logic
  <1>5. CASE op = "xor"
    BY <1>2, <1>5, WordsAreBits DEF Logic
  <1> QED BY <1>3, <1>4, <1>5

\* So are sums, differences, products, quotients and rests.
LEMMA WordTypes == \A x \in Int : Word(x) \in Values
  BY Widths DEF Word, Values

\* A division by anything but 0 gives a word.
LEMMA CombineTypes ==
    ASSUME NEW op \in Ops, NEW x \in Values, NEW y \in Values, op \in {"div", "mod"} => y # 0
    PROVE  Combine(op, x, y) \in Values
  <1>1. x \in Nat /\ y \in Nat /\ x < Words /\ y < Words /\ Words \in Nat
    BY Widths DEF Values
  <1>2. CASE op \in {"add", "sub", "mul"}
    <2>1. x + y \in Int /\ x - y \in Int /\ x * y \in Int
      BY <1>1
    <2> QED BY <1>2, <2>1, WordTypes DEF Combine
  <1>3. CASE op = "div"
    <2>1. x \div y \in Nat /\ x \div y <= x
      <3>1. y \in Nat \ {0}
        BY <1>1, <1>3
      <3>2. PICK q \in Nat, r \in Nat : q = x \div y /\ x = q * y + r
        <4>1. x \div y \in Nat /\ x % y \in Nat /\ x = (x \div y) * y + (x % y)
          BY <1>1, <3>1, DivIs
        <4> QED BY <4>1
      <3>3. q <= q * y
        BY <3>1
      <3>4. PICK p \in Nat : p = q * y
        BY <3>1
      <3> QED BY <1>1, <3>2, <3>3, <3>4
    <2> QED BY <1>1, <1>3, <2>1 DEF Combine, Values
  <1>4. CASE op = "mod"
    <2>1. x % y \in 0..(y - 1)
      BY <1>1, <1>4
    <2> QED BY <1>1, <1>4, <2>1 DEF Combine, Values
  <1> QED BY <1>2, <1>3, <1>4 DEF Ops

\* The sign extensions give words, and never 0.
LEMMA ExtendTypes ==
    \A x \in Int : SignExtend32(x) \in Values \ {0}
                   /\ \A w \in {"8", "32"} : MoveSx(w, x) \in Values
  <1> SUFFICES ASSUME NEW x \in Int
               PROVE  /\ SignExtend32(x) \in Values \ {0}
                      /\ \A w \in {"8", "32"} : MoveSx(w, x) \in Values
    OBVIOUS
  <1>1. x % SxWords \in 0..(SxWords - 1) /\ x % NarrowWords \in 0..(NarrowWords - 1)
    BY Widths
  <1> QED BY <1>1, Widths DEF SignExtend32, MoveSx, Values

\* The and of the narrow moves; and what a signed operation with an immediate gives.
LEMMA NarrowTypes ==
    /\ \A x, y, m : AndLow(x, y, m) \in Values
    /\ \A op \in Ops, x \in Values, imm \in Imms : CombineSignedImm(op, x, imm) \in Values
  <1>1. \A x, y, m : AndLow(x, y, m) \in Values
    BY LogicTypes DEF AndLow
  <1>2. ASSUME NEW op \in Ops, NEW x \in Values, NEW imm \in Imms
        PROVE  CombineSignedImm(op, x, imm) \in Values
    <2>1. imm \in Values /\ imm \in Int
      BY Widths DEF Imms, Values
    <2>2. CASE op \in {"div", "mod"}
      BY <2>1, <2>2, ExtendTypes, CombineTypes DEF CombineSignedImm
    <2>3. CASE op \notin {"div", "mod"}
      <3>1. Combine(op, x, imm) \in Values
        BY <2>1, <2>3, CombineTypes
      <3>2. Combine(op, x, imm) \in Int
        BY <3>1, Widths DEF Values
      <3> QED BY <2>3, <3>2, ExtendTypes DEF CombineSignedImm
    <2> QED BY <2>2, <2>3
  <1> QED BY <1>1, <1>2

-----------------------------------------------------------------------------
(* Types *)

Settings == {"set", "clear", "any"}
Orders == {"less", "equal", "greater"}

PlaceOK ==
    /\ place \in {"top", "exec", "ended", "astray"}
    /\ stop_running \in BOOLEAN /\ panicked \in BOOLEAN

RegistersOK == registers \in [Regs -> Values]

FlagsOK == flag \in [AllFlags -> Settings] /\ compared \in {<<>>} \cup (Orders \X Orders)

StackOK ==
    /\ sp \in Empty..QS /\ bp \in Values
    /\ stack_mem \in [0..(QS - 1) -> Values]

\* The array of return addresses is not shorter than it was at first.
RasLow == RasLen <= ras.size

\* Everything but the return addresses, whose part is IInv's.
CoreOK == PlaceOK /\ RegistersOK /\ FlagsOK /\ StackOK

\* An instruction ends in one of three places.
LEMMA EndTypes ==
    /\ PlaceOK /\ (Goes \/ Fails) => PlaceOK'
    /\ PlaceOK /\ GoesAstray => PlaceOK'
    /\ PlaceOK /\ place' = "top" /\ stop_running' \in BOOLEAN /\ UNCHANGED panicked => PlaceOK'
  BY DEF PlaceOK, Goes, Fails, GoesAstray, control

\* A word in a register keeps the registers words.
LEMMA SetTypes ==
    ASSUME RegistersOK, NEW r \in Regs, NEW v \in Values, SetReg(r, v)
    PROVE  RegistersOK'
  BY DEF RegistersOK, SetReg

\* Registers hold words.
LEMMA RegTypes ==
    ASSUME RegistersOK, NEW r \in Regs
    PROVE  registers[r] \in Values /\ registers[r] \in Int
  BY Widths DEF RegistersOK, Values

\* Immediates are words.
LEMMA ImmTypes == \A imm \in Imms : imm \in Values /\ imm \in Int
  BY Widths DEF Imms, Values

\* The flags after something else than an integer comparison.
LEMMA FlagTypes ==
    /\ FlagsOK /\ Same => FlagsOK'
    /\ FlagsOK /\ FlagsLost => FlagsOK'
    /\ FlagsOK /\ (\E x, y : CompareFloats(x, y)) => FlagsOK'
  BY DEF FlagsOK, Same, FlagsLost, CompareFloats, FlagOf, Settings, AllFlags, FlagNames

\* The flags after an integer comparison.
LEMMA CompareTypes == ASSUME FlagsOK, NEW x, NEW y, Compare(x, y) PROVE FlagsOK'
  <1>1. \A f \in FlagNames : CompareFlags(x, y)[f] \in Settings
    BY DEF CompareFlags, FlagOf, FlagNames, Settings
  <1>2. \A f \in AllFlags :
           (IF f # "greater" THEN CompareFlags(x, y)[f] ELSE IF x > y THEN "set" ELSE flag[f])
             \in Settings
    BY <1>1 DEF AllFlags, FlagsOK, Settings
  <1>3. flag' \in [AllFlags -> Settings]
    BY <1>2 DEF Compare
  <1>4. Order(x, y) \in Orders /\ Order(SignedValue(x), SignedValue(y)) \in Orders
    BY DEF Order, Orders
  <1> QED BY <1>3, <1>4 DEF FlagsOK, Compare

\* Compute clears nothing on a failure.
LEMMA ComputeTypes ==
    ASSUME CoreOK, NEW op \in Ops, NEW r \in Regs, NEW y \in Values, Compute(r, op, y)
    PROVE  PlaceOK' /\ RegistersOK' /\ FlagsOK'
  <1>1. CASE FailsHarmlessly
    BY <1>1, EndTypes DEF CoreOK, FailsHarmlessly, alu, RegistersOK, FlagsOK
  <1>2. CASE /\ ~(op \in {"div", "mod"} /\ y = 0) /\ Goes /\ FlagsLost
             /\ SetReg(r, Combine(op, registers[r], y))
    <2>1. Combine(op, registers[r], y) \in Values
      BY <1>2, RegTypes, CombineTypes DEF CoreOK
    <2> QED BY <1>2, <2>1, SetTypes, FlagTypes, EndTypes DEF CoreOK
  <1> QED BY <1>1, <1>2 DEF Compute

\* What leaves the stack alone leaves its types alone.
LEMMA StackStays == StackOK /\ UNCHANGED stack => StackOK'
  BY DEF StackOK, stack

\* Arithmetic, on integers and floats.
LEMMA ArithmeticTypes == CoreOK /\ Arithmetic => CoreOK'
  <1> SUFFICES ASSUME CoreOK, Arithmetic PROVE PlaceOK' /\ RegistersOK' /\ FlagsOK'
    BY StackStays DEF CoreOK, Arithmetic, ArithImm, ArithReg, ArithMem, IArithImm, FloatReg,
                      FloatMem, Steady
  <1> USE DEF CoreOK
  <1>1. CASE FailsHarmlessly
    BY <1>1, EndTypes DEF FailsHarmlessly, alu, RegistersOK, FlagsOK
  <1>2. CASE ArithImm
    BY <1>2, ImmTypes, ComputeTypes DEF ArithImm
  <1>3. CASE ArithReg
    BY <1>3, RegTypes, ComputeTypes DEF ArithReg
  <1>4. CASE \E op \in Ops, r \in Regs, v \in Values : Compute(r, op, v)
    BY <1>4, ComputeTypes
  <1>5. CASE IArithImm
    <2>1. PICK op \in Ops, r \in Regs, imm \in Imms :
             Goes /\ FlagsLost /\ SetReg(r, CombineSignedImm(op, registers[r], imm))
      BY <1>5 DEF IArithImm
    <2>2. CombineSignedImm(op, registers[r], imm) \in Values
      BY RegTypes, NarrowTypes
    <2> QED BY <2>1, <2>2, SetTypes, FlagTypes, EndTypes
  <1>6. CASE FloatReg
    BY <1>6, SetTypes, FlagTypes, EndTypes DEF FloatReg
  <1>7. CASE \E r \in Regs, v, temp \in Values : Goes /\ SetReg(r, v) /\ CompareFloats(v, temp)
    BY <1>7, SetTypes, FlagTypes, EndTypes
  <1> QED BY <1>1, <1>2, <1>3, <1>4, <1>5, <1>6, <1>7 DEF Arithmetic, ArithMem, FloatMem

\* A 64-bit immediate is a word, and 0 if it is not there.
LEMMA ImmediateTypes ==
    ASSUME PlaceOK, NEW v, GetImmediate(v)
    PROVE  v \in Values /\ PlaceOK' /\ UNCHANGED stack
  <1>1. 0 \in Values
    BY Widths DEF Values
  <1> QED BY <1>1, EndTypes DEF GetImmediate

\* Moves and logic give words.
LEMMA MovesTypes == CoreOK /\ Moves => CoreOK'
  <1> SUFFICES ASSUME CoreOK, Moves PROVE CoreOK'
    OBVIOUS
  <1> USE DEF CoreOK
  <1>1. ASSUME NEW r \in Regs, NEW v \in Values, SetReg(r, v), Same, PlaceOK', UNCHANGED stack
        PROVE  CoreOK'
    BY <1>1, SetTypes, FlagTypes, StackStays
  <1>2. ASSUME Steady, Goes PROVE PlaceOK' /\ UNCHANGED stack
    BY <1>2, EndTypes DEF Steady
  <1>3. CASE MoveImm
    <2>1. PICK r \in Regs, imm \in Imms : SetReg(r, imm)
      BY <1>3 DEF MoveImm
    <2> QED BY <1>1, <1>2, <1>3, <2>1, ImmTypes DEF MoveImm
  <1>4. CASE MoveImm64
    <2>1. PICK r \in Regs, v \in Values : GetImmediate(v) /\ SetReg(r, v)
      BY <1>4 DEF MoveImm64
    <2> QED BY <1>1, <1>4, <2>1, ImmediateTypes DEF MoveImm64
  <1>5. CASE MoveReg
    <2>1. PICK r \in Regs, s \in Regs, m \in {Words, SxWords, NarrowWords} :
             SetReg(r, registers[s] % m)
      BY <1>5 DEF MoveReg
    <2>2. registers[s] % m \in Values
      <3>1. m \in 1..Words
        BY Widths
      <3>2. registers[s] % m \in 0..(m - 1)
        BY <3>1, RegTypes, Widths
      <3> QED BY <3>1, <3>2, Widths DEF Values
    <2> QED BY <1>1, <1>2, <1>5, <2>1, <2>2 DEF MoveReg
  <1>6. CASE MoveSignExtended
    <2>1. PICK r \in Regs, w \in {"8", "32"}, x \in Imms \cup {registers[s] : s \in Regs} :
             SetReg(r, MoveSx(w, x))
      BY <1>6 DEF MoveSignExtended
    <2>2. MoveSx(w, x) \in Values
      BY ImmTypes, RegTypes, ExtendTypes
    <2> QED BY <1>1, <1>2, <1>6, <2>1, <2>2 DEF MoveSignExtended
  <1>7. CASE Exchange
    <2>1. RegistersOK'
      <3>1. PICK r \in Regs, s \in Regs :
              \/ registers' = [registers EXCEPT ![r] = registers[s], ![s] = registers[r]]
              \/ LET first == [registers EXCEPT
                                  ![r] = AndLow(registers[r], registers[s], NarrowWords)]
                 IN  registers' = [first EXCEPT
                                     ![s] = AndLow(first[s], registers[r], NarrowWords)]
        BY <1>7 DEF Exchange
      <3>2. registers[r] \in Values /\ registers[s] \in Values
        BY RegTypes
      <3>3. \A x, y : AndLow(x, y, NarrowWords) \in Values
        BY NarrowTypes
      <3> QED BY <3>1, <3>2, <3>3 DEF RegistersOK
    <2> QED BY <1>2, <1>7, <2>1, FlagTypes, StackStays DEF Exchange
  <1>8. CASE MoveLow
    <2>1. PICK r \in Regs, s \in Regs, m \in {SxWords, NarrowWords} :
             SetReg(r, AndLow(registers[r], registers[s], m))
      BY <1>8 DEF MoveLow
    <2>2. AndLow(registers[r], registers[s], m) \in Values
      BY NarrowTypes
    <2> QED BY <1>1, <1>2, <1>8, <2>1, <2>2 DEF MoveLow
  <1>9. CASE LogicImm
    <2>1. PICK op \in {"and", "or", "xor"}, r \in Regs, v \in Values :
             GetImmediate(v) /\ SetReg(r, Logic(op, registers[r], v))
      BY <1>9 DEF LogicImm
    <2>2. Logic(op, registers[r], v) \in Values
      BY LogicTypes
    <2> QED BY <1>1, <1>9, <2>1, <2>2, ImmediateTypes DEF LogicImm
  <1>10. CASE LogicReg
    <2>1. PICK op \in {"and", "or", "xor"}, r \in Regs, s \in Regs :
             SetReg(r, Logic(op, registers[r], registers[s]))
      BY <1>10 DEF LogicReg
    <2>2. Logic(op, registers[r], registers[s]) \in Values
      BY LogicTypes
    <2> QED BY <1>1, <1>2, <1>10, <2>1, <2>2 DEF LogicReg
  <1>11. CASE Not
    <2>1. PICK r \in Regs : SetReg(r, LogicNot(registers[r]))
      BY <1>11 DEF Not
    <2>2. LogicNot(registers[r]) \in Values
      BY RegTypes, Widths DEF LogicNot, Values
    <2> QED BY <1>1, <1>2, <1>11, <2>1, <2>2 DEF Not
  <1>12. CASE IncDec
    <2>1. PICK r \in Regs, d \in {1, -1} : SetReg(r, Word(registers[r] + d))
      BY <1>12 DEF IncDec
    <2>2. Word(registers[r] + d) \in Values
      <3>1. registers[r] + d \in Int
        BY RegTypes
      <3> QED BY <3>1, WordTypes
    <2> QED BY <1>1, <1>2, <1>12, <2>1, <2>2 DEF IncDec
  <1>13. CASE Lea
    <2>1. PICK r \in Regs, base \in Regs, index \in Regs, scale \in Regs :
             SetReg(r, Word(registers[base] + registers[index] * registers[scale]))
      BY <1>13 DEF Lea
    <2>2. Word(registers[base] + registers[index] * registers[scale]) \in Values
      <3>1. registers[base] + registers[index] * registers[scale] \in Int
        BY RegTypes
      <3> QED BY <3>1, WordTypes
    <2> QED BY <1>1, <1>2, <1>13, <2>1, <2>2 DEF Lea
  <1>14. CASE Reset
    <2>1. RegistersOK'
      BY <1>14, Widths DEF Reset, RegistersOK, Values
    <2> QED BY <1>2, <1>14, <2>1, FlagTypes, StackStays DEF Reset
  <1> QED BY <1>3, <1>4, <1>5, <1>6, <1>7, <1>8, <1>9, <1>10, <1>11, <1>12, <1>13, <1>14 DEF Moves

\* Comparisons, and the clearing of flags.
LEMMA ComparisonsTypes == CoreOK /\ Comparisons => CoreOK'
  <1> SUFFICES ASSUME CoreOK, Comparisons PROVE CoreOK'
    OBVIOUS
  <1> USE DEF CoreOK
  <1>1. ASSUME NEW x, NEW y, Compare(x, y) PROVE RegistersOK' /\ FlagsOK'
    BY <1>1, CompareTypes DEF Compare, RegistersOK
  <1>2. ASSUME Steady, Goes \/ Fails PROVE PlaceOK' /\ StackOK'
    BY <1>2, EndTypes, StackStays DEF Steady
  <1>3. CASE CmpImm
    BY <1>1, <1>3, ImmediateTypes, StackStays DEF CmpImm
  <1>4. CASE CmpReg
    BY <1>1, <1>2, <1>4 DEF CmpReg
  <1>5. CASE CmpMem
    <2>1. CASE FailsHarmlessly
      BY <1>2, <1>5, <2>1 DEF CmpMem, FailsHarmlessly, alu, RegistersOK, FlagsOK
    <2>2. CASE Goes /\ \E r \in Regs, v \in Values : Compare(registers[r], v)
      BY <1>1, <1>2, <1>5, <2>2 DEF CmpMem
    <2> QED BY <1>5, <2>1, <2>2 DEF CmpMem
  <1>6. CASE ClearFlags
    <2>1. FlagsOK' /\ RegistersOK'
      BY <1>6 DEF ClearFlags, FlagsOK, RegistersOK, Settings
    <2> QED BY <1>2, <1>6, <2>1 DEF ClearFlags
  <1>7. CASE ClearFlag
    <2>1. FlagsOK' /\ RegistersOK'
      BY <1>7 DEF ClearFlag, FlagsOK, RegistersOK, Settings, AllFlags
    <2> QED BY <1>2, <1>7, <2>1 DEF ClearFlag
  <1> QED BY <1>3, <1>4, <1>5, <1>6, <1>7 DEF Comparisons

\* Memory, input and output, and requests.
LEMMA OutsideTypes == CoreOK /\ Outside => CoreOK'
  <1> SUFFICES ASSUME CoreOK, Outside PROVE CoreOK'
    OBVIOUS
  <1> USE DEF CoreOK
  <1>1. UNCHANGED stack
    BY DEF Outside, Nop, Shift, Output, ChangesNothing, Load, Store, PrintString, ReadString,
           StoreOf, CompareExchange, Input, Halt, Interrupt, Steady
  <1>2. PlaceOK'
    BY EndTypes
       DEF Outside, Nop, Shift, Output, ChangesNothing, Load, Store, PrintString, ReadString,
           StoreOf, CompareExchange, Input, Halt, Interrupt, FailsHarmlessly, PlaceOK, Goes, Fails, control
  <1> SUFFICES RegistersOK' /\ FlagsOK'
    BY <1>1, <1>2, StackStays
  <1>3. ASSUME UNCHANGED alu PROVE RegistersOK' /\ FlagsOK'
    BY <1>3 DEF alu, RegistersOK, FlagsOK
  <1>4. CASE Nop \/ Shift \/ Output \/ Store \/ PrintString \/ ReadString \/ Halt
    BY <1>3, <1>4 DEF Nop, Shift, Output, ChangesNothing, Store, PrintString, ReadString,
                      StoreOf, Halt
  <1>5. CASE Load
    <2>1. RegistersOK'
      BY <1>5, SetTypes DEF Load, RegistersOK
    <2> QED BY <1>5, <2>1, FlagTypes DEF Load
  <1>6. CASE CompareExchange
    <2>1. CASE FailsHarmlessly
      BY <1>3, <2>1 DEF FailsHarmlessly
    <2>2. CASE Goes /\ FlagsLost /\ \E r \in Regs, v \in Values : SetReg(r, v)
      BY <2>2, SetTypes, FlagTypes
    <2> QED BY <1>6, <2>1, <2>2 DEF CompareExchange
  <1>7. CASE Input
    BY <1>7, SetTypes, FlagTypes DEF Input
  <1>8. CASE Interrupt
    <2>1. RegistersOK'
      BY <1>8 DEF Interrupt, RegistersOK
    <2> QED BY <1>8, <2>1, FlagTypes DEF Interrupt
  <1> QED BY <1>4, <1>5, <1>6, <1>7, <1>8 DEF Outside

\* The sizes of the stack's page, as words.
LEMMA StackSizes ==
    /\ QS \in Nat \ {0} /\ QS \in Values /\ Empty = -1
    /\ REGR_COUNT \in Nat /\ REGR_COUNT >= 2 /\ Mc \in Regs /\ 0 \in Regs
  BY CoreAssumption, Widths DEF Values, Empty, Regs

\* What is read from the stack's page is a word, and writing one keeps it so.
LEMMA PageTypes ==
    ASSUME StackOK
    PROVE  /\ \A i : At(i) \subseteq Values
           /\ \A i, v : v \in Values => Written(i, v) \in [0..(QS - 1) -> Values]
  BY DEF StackOK, At, Written, InPage

\* Jumps take LOOP's counter down only from above 0.
LEMMA JumpsTypes == CoreOK /\ (Jump \/ JumpIf \/ Loop \/ SetException) => CoreOK'
  <1> SUFFICES ASSUME CoreOK, Jump \/ JumpIf \/ Loop \/ SetException PROVE CoreOK'
    OBVIOUS
  <1> USE DEF CoreOK
  <1>1. PlaceOK' /\ StackOK'
    BY EndTypes, StackStays DEF Jump, JumpIf, Loop, SetException
  <1>2. CASE Jump \/ JumpIf \/ SetException
    BY <1>1, <1>2 DEF Jump, JumpIf, SetException, alu, RegistersOK, FlagsOK
  <1>3. CASE Loop
    <2>1. CASE registers[Mc] = 0
      BY <1>1, <1>3, <2>1, FlagTypes DEF Loop, RegistersOK
    <2>2. CASE registers[Mc] # 0
      <3>1. registers[Mc] - 1 \in Values
        BY <2>2, RegTypes, StackSizes, Widths DEF Values
      <3> QED BY <1>1, <1>3, <2>2, <3>1, StackSizes, SetTypes, FlagTypes DEF Loop
    <2> QED BY <2>1, <2>2
  <1> QED BY <1>2, <1>3

\* Calls move SP up and BP with it, unless there is no room.
LEMMA CallsTypes == CoreOK /\ (Call \/ CallException \/ Ret) => CoreOK'
  <1> SUFFICES ASSUME CoreOK, Call \/ CallException \/ Ret PROVE CoreOK'
    OBVIOUS
  <1> USE DEF CoreOK
  <1>1. RegistersOK' /\ FlagsOK'
    BY DEF Call, CallException, CallTo, Ret, alu, RegistersOK, FlagsOK
  <1>2. CASE UNCHANGED stack /\ (Goes \/ Fails \/ GoesAstray)
    BY <1>1, <1>2, EndTypes, StackStays
  <1>3. CASE GoesAstray
    BY <1>2, <1>3 DEF GoesAstray
  <1>4. ASSUME ExecuteCall PROVE CoreOK'
    <2>1. CASE StackFull \/ ~CheckStackLim(CallRoom)
      BY <1>2, <1>4, <2>1 DEF ExecuteCall
    <2>2. CASE ~(StackFull \/ ~CheckStackLim(CallRoom))
      <3>1. /\ Goes /\ stack_mem' = Written(sp, bp) /\ sp' = sp + 1 /\ bp' = sp + 1
            /\ sp # QS
        BY <1>4, <2>2 DEF ExecuteCall, StackFull
      <3>2. sp + 1 \in Empty..QS /\ sp + 1 \in Values
        BY <3>1, StackSizes, Widths DEF StackOK, Values
      <3> QED BY <1>1, <3>1, <3>2, PageTypes, EndTypes DEF StackOK
    <2> QED BY <2>1, <2>2
  <1>5. CASE Call \/ CallException
    BY <1>2, <1>3, <1>4, <1>5 DEF Call, CallException, CallTo
  <1>6. CASE Ret
    <2>1. CASE Goes /\ bp' \in At(bp) /\ UNCHANGED <<sp, stack_mem>>
      BY <1>1, <2>1, PageTypes, EndTypes DEF StackOK
    <2> QED BY <1>2, <1>3, <1>6, <2>1 DEF Ret
  <1> QED BY <1>5, <1>6

\* SP stays between the empty stack and the end of the page.
LEMMA StackTypes == CoreOK /\ StackInstructions => CoreOK'
  <1> SUFFICES ASSUME CoreOK, StackInstructions PROVE CoreOK'
    OBVIOUS
  <1> USE DEF CoreOK
  <1>1. CASE FailsHarmlessly
    BY <1>1, EndTypes, StackStays DEF FailsHarmlessly, alu, RegistersOK, FlagsOK
  <1>2. CASE GoesAstray
    BY <1>2, EndTypes, StackStays DEF GoesAstray, alu, RegistersOK, FlagsOK
  <1>3. ASSUME Goes, RegistersOK', FlagsOK', bp' = bp, sp' \in Empty..QS,
               stack_mem' \in [0..(QS - 1) -> Values]
        PROVE  CoreOK'
    BY <1>3, EndTypes DEF StackOK
  <1>4. CASE StackVariable
    <2>1. PICK i \in {"SVA", "SVC", "SVA_MEM", "SVC_MEM"} : Variable(i)
      BY <1>4 DEF StackVariable
    <2>2. ASSUME NEW off \in Imms, bp >= off, Goes, UNCHANGED <<sp, bp, flag, compared>>,
                 IF i \in {"SVA", "SVA_MEM"}
                 THEN \E r \in Regs, v \in At(bp - off) : SetReg(r, v) /\ UNCHANGED stack_mem
                 ELSE \E r \in Regs : /\ stack_mem' = Written(bp - off, registers[r])
                                      /\ UNCHANGED registers
          PROVE  CoreOK'
      <3>1. FlagsOK' /\ sp' \in Empty..QS
        BY <2>2 DEF FlagsOK, StackOK
      <3>2. CASE i \in {"SVA", "SVA_MEM"}
        <4>1. PICK r \in Regs, v \in At(bp - off) : SetReg(r, v) /\ UNCHANGED stack_mem
          BY <2>2, <3>2
        <4>2. v \in Values
          BY PageTypes
        <4>3. RegistersOK'
          BY <4>1, <4>2, SetTypes
        <4> QED BY <1>3, <2>2, <3>1, <4>1, <4>3 DEF StackOK
      <3>3. CASE i \notin {"SVA", "SVA_MEM"}
        <4>1. PICK r \in Regs :
                 stack_mem' = Written(bp - off, registers[r]) /\ UNCHANGED registers
          BY <2>2, <3>3
        <4>2. registers[r] \in Values
          BY RegTypes
        <4>3. RegistersOK' /\ stack_mem' \in [0..(QS - 1) -> Values]
          BY <4>1, <4>2, PageTypes DEF RegistersOK
        <4> QED BY <1>3, <2>2, <3>1, <4>3
      <3> QED BY <3>2, <3>3
    <2> QED BY <1>1, <1>2, <2>1, <2>2 DEF Variable
  <1>5. CASE Push
    <2>1. CASE /\ ~StackFull /\ Goes
               /\ \E v \in Imms \cup {registers[r] : r \in Regs} : stack_mem' = Written(sp + 1, v)
               /\ sp' = sp + 1
               /\ UNCHANGED <<alu, bp>>
      <3>1. PICK v \in Values : stack_mem' = Written(sp + 1, v)
        BY <2>1, ImmTypes, RegTypes
      <3>2. sp' \in Empty..QS
        BY <2>1, StackSizes DEF StackFull, StackOK
      <3>3. RegistersOK' /\ FlagsOK' /\ bp' = bp
        BY <2>1 DEF alu, RegistersOK, FlagsOK
      <3> QED BY <1>3, <2>1, <3>1, <3>2, <3>3, PageTypes
    <2> QED BY <1>1, <1>2, <1>5, <2>1 DEF Push
  <1>6. CASE Pop
    <2>1. CASE /\ ~StackEmpty /\ Goes /\ Same
               /\ \E r \in Regs, v \in At(sp) : SetReg(r, v)
               /\ sp' = sp - 1
               /\ UNCHANGED <<bp, stack_mem>>
      <3>1. RegistersOK'
        BY <2>1, PageTypes, SetTypes
      <3>2. sp' \in Empty..QS
        BY <2>1, StackSizes DEF StackEmpty, StackOK
      <3> QED BY <1>3, <2>1, <3>1, <3>2, FlagTypes DEF StackOK
    <2> QED BY <1>1, <1>2, <1>6, <2>1 DEF Pop
  <1>7. CASE PushAll
    <2>1. CASE /\ InPage(sp + REGR_COUNT) /\ Goes
               /\ stack_mem' = [i \in 0..(QS - 1) |->
                     IF i \in (sp + 1)..(sp + REGR_COUNT) THEN registers[i - sp - 1]
                     ELSE stack_mem[i]]
               /\ sp' = sp + REGR_COUNT
               /\ UNCHANGED <<alu, bp>>
      <3>1. sp' \in Empty..QS
        BY <2>1, StackSizes DEF InPage
      <3>2. ASSUME NEW i \in 0..(QS - 1)
            PROVE  (IF i \in (sp + 1)..(sp + REGR_COUNT) THEN registers[i - sp - 1]
                    ELSE stack_mem[i]) \in Values
        <4>1. i \in (sp + 1)..(sp + REGR_COUNT) => i - sp - 1 \in Regs
          BY StackSizes DEF StackOK, Regs
        <4> QED BY <4>1, RegTypes DEF StackOK
      <3>3. stack_mem' \in [0..(QS - 1) -> Values]
        BY <2>1, <3>2
      <3>4. RegistersOK' /\ FlagsOK' /\ bp' = bp
        BY <2>1 DEF alu, RegistersOK, FlagsOK
      <3> QED BY <1>3, <2>1, <3>1, <3>3, <3>4
    <2> QED BY <1>1, <1>2, <1>7, <2>1 DEF PushAll
  <1>8. CASE PopAll
    <2>1. CASE /\ ~StackEmpty /\ StackHasAtLeast(REGR_COUNT) /\ Goes /\ Same
               /\ \E popped \in [Regs -> Values] : registers' = popped
               /\ sp' = sp - (REGR_COUNT - 1)
               /\ UNCHANGED <<bp, stack_mem>>
      <3>1. sp' \in Empty..QS
        BY <2>1, StackSizes DEF StackEmpty, StackHasAtLeast, StackOK
      <3> QED BY <1>3, <2>1, <3>1, FlagTypes DEF RegistersOK, StackOK
    <2> QED BY <1>1, <1>2, <1>8, <2>1 DEF PopAll
  <1> QED BY <1>4, <1>5, <1>6, <1>7, <1>8 DEF StackInstructions

\* The loop, and the order to stop.
LEMMA LoopTypes == CoreOK /\ (LoopTop \/ OSStops) => CoreOK'
  BY DEF CoreOK, LoopTop, OSStops, PlaceOK, RegistersOK, FlagsOK, StackOK, alu, stack

\* A new core's registers and stack are 0, its flags not set.
LEMMA InitCoreOK == Init => CoreOK /\ RasLow
  <1> SUFFICES ASSUME Init PROVE CoreOK /\ RasLow
    OBVIOUS
  <1>1. 0 \in Values
    BY Widths DEF Values
  <1>2. StackOK
    BY <1>1, StackSizes DEF Init, StackOK
  <1>3. PlaceOK /\ RegistersOK /\ FlagsOK
    BY <1>1 DEF Init, PlaceOK, RegistersOK, FlagsOK, Settings
  <1>4. RasLow
    BY CoreAssumption DEF Init, RasLow
  <1> QED BY <1>2, <1>3, <1>4 DEF CoreOK

\* Every step keeps the types.
LEMMA NextCoreOK == CoreOK /\ [Next]_vars => CoreOK'
  <1> SUFFICES ASSUME CoreOK, [Next]_vars PROVE CoreOK'
    OBVIOUS
  <1>1. CASE UNCHANGED vars
    BY <1>1 DEF vars, control, alu, stack, CoreOK, PlaceOK, RegistersOK, FlagsOK, StackOK
  <1> QED BY <1>1, LoopTypes, ArithmeticTypes, MovesTypes, ComparisonsTypes, OutsideTypes,
             JumpsTypes, CallsTypes, StackTypes
          DEF Next, Jumps

\* The array of return addresses never shrinks.
LEMMA RasGrowsOnly ==
    IInv /\ RasLow /\ [Next]_vars => RasLow'
  <1> SUFFICES ASSUME IInv, RasLow, [Next]_vars PROVE RasLow'
    OBVIOUS
  <1> USE DEF RasLow
  <1>1. RasLen \in Nat /\ RasGrow \in Nat /\ ras.size \in Nat
    BY CoreAssumption DEF IInv, RasOK
  <1>2. CASE ras' = ras
    BY <1>2
  <1>3. CASE \E x : ras' = RasPush(x)
    BY <1>1, <1>3 DEF RasPush
  <1>4. CASE ras' = [ras EXCEPT !.sp = @ - 1]
    BY <1>4 DEF IInv, RasOK
  <1>5. CASE Quiet \/ UNCHANGED vars
    BY <1>2, <1>5 DEF Quiet, vars
  <1>6. CASE Call \/ CallException
    BY <1>2, <1>3, <1>6 DEF Call, CallException, CallTo, GoesAstray
  <1>7. CASE Ret
    BY <1>2, <1>4, <1>7 DEF Ret, GoesAstray
  <1> QED BY <1>5, <1>6, <1>7, LoopIsQuiet, ArithmeticIsQuiet, MovesAreQuiet,
             ComparisonsAreQuiet, OutsideIsQuiet, StackIsQuiet, JumpsAreQuiet
          DEF Next, Jumps

\* The types of the core, and the bounds of its stacks, for every width of words,
\* size of the stack's page and program.
THEOREM CoreTypes == Spec => []TypeOK
  <1>1. CoreOK /\ IInv /\ RasLow => TypeOK
    BY CoreAssumption
       DEF CoreOK, PlaceOK, RegistersOK, FlagsOK, StackOK, Settings, Orders, IInv, RasOK, RasLow, TypeOK
  <1> QED BY <1>1, InitCoreOK, NextCoreOK, RasGrowsOnly, InitIInv, NextRefines, PTL DEF Spec

-----------------------------------------------------------------------------
(* Comparisons and failures *)

\* An integer comparison is the last one, and its flags tell.
LEMMA CompareStands ==
    ASSUME NEW x \in Values, NEW y \in Values, Compare(x, y)
    PROVE  ComparisonStands'
  <1>1. PICK H \in Nat \ {0} : Words = 2 * H
    BY Widths
  <1>2. LET f == CompareFlags(x, y)
        IN  /\ (f.zero = "set") = (Order(x, y) = "equal")
            /\ (f.carry = "set") = (Order(x, y) = "less")
            /\ (f.negative # f.overflow) = (Order(SignedValue(x), SignedValue(y)) = "less")
    BY <1>1, CompareFlagsTell
  <1>3. /\ flag'.zero = CompareFlags(x, y).zero /\ flag'.carry = CompareFlags(x, y).carry
        /\ flag'.negative = CompareFlags(x, y).negative
        /\ flag'.overflow = CompareFlags(x, y).overflow
        /\ x > y => flag'.greater = "set"
    BY DEF Compare, AllFlags, FlagNames
  <1>4. compared'[1] = Order(x, y) /\ compared'[2] = Order(SignedValue(x), SignedValue(y))
    BY DEF Compare
  <1>5. Order(x, y) = "greater" => x > y
    BY Widths DEF Order, Values
  <1> QED BY <1>2, <1>3, <1>4, <1>5 DEF ComparisonStands

\* What does not compare integers keeps flags and comparison, or forgets it.
Forgets == compared' = <<>> \/ UNCHANGED <<flag, compared>>

\* Forgetting a comparison, and keeping its flags, leaves it standing.
LEMMA ForgetsStands == ComparisonStands /\ Forgets => ComparisonStands'
  BY DEF ComparisonStands, Forgets

\* Arithmetic forgets, or failed before it changed anything.
LEMMA ArithmeticForgets == Arithmetic => Forgets
  <1>1. FailsHarmlessly => Forgets
    BY DEF FailsHarmlessly, alu, Forgets
  <1>2. ASSUME NEW op, NEW r, NEW y, Compute(r, op, y) PROVE Forgets
    BY <1>1, <1>2 DEF Compute, FlagsLost, Forgets
  <1>3. (\E x, y : CompareFloats(x, y)) \/ FlagsLost => Forgets
    BY DEF CompareFloats, FlagsLost, Forgets
  <1> QED BY <1>1, <1>2, <1>3 DEF Arithmetic, ArithImm, ArithReg, ArithMem, IArithImm, FloatReg,
                                  FloatMem

\* Every step but an integer comparison.
LEMMA OthersForget ==
    LoopTop \/ OSStops \/ Moves \/ Outside \/ Jumps \/ StackInstructions
      \/ ClearFlags \/ ClearFlag => Forgets
  <1>1. Moves => Forgets
    BY DEF Moves, MoveImm, MoveImm64, MoveReg, MoveSignExtended, Exchange, MoveLow, LogicImm,
           LogicReg, Not, IncDec, Lea, Reset, Same, Forgets
  <1>2. Outside => Forgets
    BY DEF Outside, Nop, Shift, Output, ChangesNothing, Load, Store, PrintString, ReadString,
           StoreOf, CompareExchange, Input, Halt, Interrupt, FailsHarmlessly, FlagsLost, Same,
           alu, Forgets
  <1>3. Jumps => Forgets
    BY DEF Jumps, Jump, JumpIf, Loop, SetException, Call, CallException, CallTo, Ret, Same,
           alu, Forgets
  <1>4. StackInstructions => Forgets
    BY DEF StackInstructions, StackVariable, Variable, Push, Pop, PushAll, PopAll,
           FailsHarmlessly, GoesAstray, Same, alu, Forgets
  <1>5. LoopTop \/ OSStops \/ ClearFlags \/ ClearFlag => Forgets
    BY DEF LoopTop, OSStops, ClearFlags, ClearFlag, alu, Forgets
  <1> QED BY <1>1, <1>2, <1>3, <1>4, <1>5

\* A comparison of integers is one of words.
LEMMA ComparisonsStand == CoreOK /\ ComparisonStands /\ Comparisons => ComparisonStands'
  <1> SUFFICES ASSUME CoreOK, ComparisonStands, Comparisons PROVE ComparisonStands'
    OBVIOUS
  <1>1. ASSUME NEW r \in Regs, NEW v \in Values, Compare(registers[r], v)
        PROVE  ComparisonStands'
    BY <1>1, RegTypes, CompareStands DEF CoreOK
  <1>2. CASE CmpImm
    BY <1>1, <1>2 DEF CmpImm
  <1>3. CASE CmpReg
    BY <1>1, <1>3, RegTypes DEF CmpReg, CoreOK
  <1>4. CASE CmpMem
    <2>1. CASE FailsHarmlessly
      BY <2>1, ForgetsStands DEF FailsHarmlessly, alu, Forgets
    <2> QED BY <1>1, <1>4, <2>1 DEF CmpMem
  <1> QED BY <1>2, <1>3, <1>4, OthersForget, ForgetsStands DEF Comparisons

\* Until something else writes the flags, they tell what was compared last, for
\* every width of words.
THEOREM FlagsStand == Spec => []ComparisonStands
  <1>1. Init => ComparisonStands
    BY DEF Init, ComparisonStands
  <1>2. CoreOK /\ ComparisonStands /\ [Next]_vars => ComparisonStands'
    <2> SUFFICES ASSUME CoreOK, ComparisonStands, [Next]_vars PROVE ComparisonStands'
      OBVIOUS
    <2>1. CASE UNCHANGED vars
      BY <2>1, ForgetsStands DEF vars, alu, Forgets
    <2> QED BY <2>1, ArithmeticForgets, OthersForget, ForgetsStands, ComparisonsStand DEF Next
  <1> QED BY <1>1, <1>2, InitCoreOK, NextCoreOK, PTL DEF Spec

\* What a failure may leave changed: nothing, or what an instruction made of the
\* value 0 that it got for its missing immediate.
Harmless ==
    /\ UNCHANGED stack
    /\ \/ UNCHANGED <<registers, flag>>
       \/ /\ pc' = InstLen
          /\ \/ UNCHANGED registers
             \/ \E r \in Regs : registers' = [registers EXCEPT ![r] = 0]

\* An instruction that does not panic is no failure, and one that fails before it
\* has changed anything is harmless.
LEMMA FailsOrGoes ==
    /\ Goes \/ GoesAstray => ~(~panicked /\ panicked')
    /\ UNCHANGED <<alu, stack>> => Harmless
  BY DEF Goes, GoesAstray, control, Harmless, alu

\* A missing immediate is 0, and there is none only at the end of the program.
LEMMA MissingIsZero ==
    ASSUME IInv, NEW v, GetImmediate(v), ~panicked, panicked'
    PROVE  v = 0 /\ pc' = InstLen /\ UNCHANGED stack
  <1>1. pc' \in PCs /\ ~(pc' < InstLen) /\ v = 0 /\ UNCHANGED stack
    BY PcInPCs DEF GetImmediate, Goes, control
  <1> QED BY <1>1, CoreAssumption DEF PCs

\* And-ing with 0 gives 0; or-ing, plainly or exclusively, changes nothing.
LEMMA LogicZero ==
    ASSUME NEW x \in Values
    PROVE  Logic("and", x, 0) = 0 /\ Logic("or", x, 0) = x /\ Logic("xor", x, 0) = x
  <1>1. BitsOf(0) = {}
    <2>1. ASSUME NEW i \in 0..(Bits - 1) PROVE (0 \div 2^i) % 2 # 1
      <3>1. i \in Nat
        BY Widths
      <3>2. PICK d \in Nat \ {0} : d = 2^i
        BY <3>1, PowerPositive
      <3>3. 0 \div d = 0
        BY DivOnce, DivIs
      <3> QED BY <3>2, <3>3
    <2> QED BY <2>1 DEF BitsOf
  <1>2. 0 \in Values
    BY Widths DEF Values
  <1>3. OfBits({}) = 0 /\ OfBits(BitsOf(x)) = x
    BY <1>1, <1>2, WordsAreBits
  <1>4. /\ BitsOf(x) \cap {} = {} /\ BitsOf(x) \cup {} = BitsOf(x)
        /\ BitsOf(x) \ {} = BitsOf(x)
    OBVIOUS
  <1> QED BY <1>1, <1>3, <1>4 DEF Logic

\* Moves and logic fail only for want of their immediate.
LEMMA MovesHarmless ==
    CoreOK /\ IInv /\ Moves /\ ~panicked /\ panicked' => Harmless
  <1> SUFFICES ASSUME CoreOK, IInv, Moves, ~panicked, panicked' PROVE Harmless
    OBVIOUS
  <1>1. CASE MoveImm64
    BY <1>1, MissingIsZero DEF MoveImm64, SetReg, Harmless
  <1>2. CASE LogicImm
    <2>1. PICK op \in {"and", "or", "xor"}, r \in Regs, v \in Values :
             GetImmediate(v) /\ SetReg(r, Logic(op, registers[r], v))
      BY <1>2 DEF LogicImm
    <2>2. v = 0 /\ pc' = InstLen /\ UNCHANGED stack
      BY <2>1, MissingIsZero
    <2>3. Logic(op, registers[r], 0) \in {0, registers[r]}
      BY RegTypes, LogicZero DEF CoreOK
    <2>4. registers' = [registers EXCEPT ![r] = 0] \/ UNCHANGED registers
      BY <2>1, <2>2, <2>3 DEF SetReg, CoreOK, RegistersOK
    <2> QED BY <2>2, <2>4 DEF Harmless
  <1> QED BY <1>1, <1>2, FailsOrGoes
          DEF Moves, MoveImm, MoveReg, MoveSignExtended, Exchange, MoveLow, LogicReg, Not,
              IncDec, Lea, Reset

\* Arithmetic fails for a divisor of 0 or a refused read, before it changes anything.
LEMMA ArithmeticHarmless == Arithmetic /\ ~panicked /\ panicked' => Harmless
  <1> SUFFICES ASSUME Arithmetic, ~panicked, panicked' PROVE Harmless
    OBVIOUS
  <1>1. FailsHarmlessly => Harmless
    BY FailsOrGoes DEF FailsHarmlessly
  <1>2. ASSUME NEW op, NEW r, NEW y, Compute(r, op, y) PROVE Harmless
    BY <1>1, <1>2, FailsOrGoes DEF Compute
  <1> QED BY <1>1, <1>2, FailsOrGoes
          DEF Arithmetic, ArithImm, ArithReg, ArithMem, IArithImm, FloatReg, FloatMem

\* So do comparisons and the instructions of memory, input and output.
LEMMA OutsideHarmless ==
    IInv /\ (Comparisons \/ Outside) /\ ~panicked /\ panicked' => Harmless
  <1> SUFFICES ASSUME IInv, Comparisons \/ Outside, ~panicked, panicked' PROVE Harmless
    OBVIOUS
  <1>1. CASE CmpImm
    BY <1>1, MissingIsZero DEF CmpImm, Compare, Harmless
  <1>2. CASE Comparisons /\ ~CmpImm
    BY <1>2, FailsOrGoes DEF Comparisons, CmpReg, CmpMem, ClearFlags, ClearFlag, FailsHarmlessly
  <1>3. CASE Outside
    <2>1. Goes \/ UNCHANGED panicked \/ UNCHANGED <<alu, stack>>
      BY <1>3 DEF Outside, Nop, Shift, Output, ChangesNothing, Load, Store, PrintString,
                  ReadString, StoreOf, CompareExchange, Input, Halt, Interrupt,
                  FailsHarmlessly, Steady, Same, alu
    <2> QED BY <2>1, FailsOrGoes
  <1> QED BY <1>1, <1>2, <1>3

\* Calls fail with the stack as it was; the stack's instructions look before they write.
LEMMA StackHarmless ==
    (Jumps \/ StackInstructions) /\ ~panicked /\ panicked' => Harmless
  <1> SUFFICES ASSUME Jumps \/ StackInstructions, ~panicked, panicked' PROVE Harmless
    OBVIOUS
  <1>1. CASE Jumps
    <2>1. Goes \/ GoesAstray \/ UNCHANGED <<alu, stack>>
      BY <1>1 DEF Jumps, Jump, JumpIf, Loop, SetException, Call, CallException, CallTo,
                  ExecuteCall, Ret
    <2> QED BY <2>1, FailsOrGoes
  <1>2. CASE StackInstructions
    <2>1. Goes \/ GoesAstray \/ FailsHarmlessly
      BY <1>2 DEF StackInstructions, StackVariable, Variable, Push, Pop, PushAll, PopAll
    <2> QED BY <2>1, FailsOrGoes DEF FailsHarmlessly
  <1> QED BY <1>1, <1>2

\* An instruction that fails has changed nothing, but for the missing immediate
\* at the end of the program.
THEOREM FailuresLeaveAlone == Spec => FailuresHarmless
  <1>1. CoreOK /\ IInv /\ [Next]_vars =>
          [place = "exec" /\ ~panicked /\ panicked' => Harmless]_vars
    <2> SUFFICES ASSUME CoreOK, IInv, Next, place = "exec", ~panicked, panicked' PROVE Harmless
      OBVIOUS
    <2>1. ~LoopTop /\ ~OSStops
      BY DEF LoopTop, OSStops
    <2> QED BY <2>1, ArithmeticHarmless, MovesHarmless, OutsideHarmless, StackHarmless DEF Next
  <1> QED BY <1>1, InitCoreOK, NextCoreOK, InitIInv, NextRefines, PTL
          DEF Spec, FailuresHarmless, Harmless
=============================================================================
