----------------------------- MODULE TrapProofs ------------------------------
(***************************************************************************)
(* Proofs about Trap for every set of interrupts and faults, every length  *)
(* of the user program and every bound on nested traps.                    *)
(*                                                                         *)
(* What the properties say of the state between two traps follows from     *)
(* what trap.S left on the stack on the way in.  The invariant therefore   *)
(* relates the ghost context of each trap in progress to sp, sscratch, the *)
(* saved frame, sepc and the previous-mode bits of sstatus, at each point  *)
(* of the handler.                                                         *)
(***************************************************************************)
EXTENDS Trap, SequenceTheorems, TLAPS

MainLabels == {"kmain", "loaded"} \cup EnterUser \cup UserAccess

\* The kernel's own thread is, or was interrupted, at label l with stack
\* pointer s.
MainAt(l, s) ==
    /\ l \in MainLabels
    /\ s = IF l = "eu_sret" THEN UserSp ELSE KernelSp
    /\ l \in {"eu_read", "eu_write", "eu_swap"} => sscratch = UserSp
    /\ l = "eu_sret" => sscratch = KernelSp
    /\ l \in UserAccess => uaccess.caller = "loaded"
    /\ l = "eu_write" => "SPP" \notin status

NoTrap ==
    \/ mode = "U" /\ sp = UserSp /\ sscratch = KernelSp
    \/ /\ mode = "S" /\ MainAt(pc.at, sp)
       /\ pc.at \in {"eu_swap", "eu_sret"} => "SPP" \notin sstatus

InCall == UserAccess \cup {"sys_write_ret"}
Body == {"handle_exception", "trap_exit"} \cup InCall

\* The flags say where context c came from.
Previous(c) ==
    /\ "SPP" \in sstatus <=> c.mode = "S"
    /\ "SPIE" \in sstatus <=> c.sie

\* Where the first frame is: traps from user mode use the kernel stack.
FrameOf(c) == [stack |-> IF c.mode = "U" THEN "kernel" ELSE c.sp.stack, off |-> 1]

\* What the frame of context c holds before and after the handler.
SavedRegs(c, f) ==
    \A r \in Regs \ {"t0"} :
        f.regs[r] = IF pc.at = "trap_exit" THEN Resumed(c, r) ELSE c.regs[r]

OneTrap(c) ==
    /\ pc.at \in {"trap_entry", "unwind", "halt"} \cup Body
    /\ pc.at = "trap_entry" =>
          /\ sp = c.sp /\ regs = c.regs /\ sepc = c.pc /\ scause = c.cause
          /\ c.mode = "U" => sscratch = KernelSp
          /\ Previous(c)
    /\ pc.at # "trap_entry" =>
          /\ sp = FrameOf(c)
          /\ c.mode = "U" => sscratch = UserSp
    /\ pc.at \in Body =>
          /\ mem[sp].sp = sp /\ SavedRegs(c, mem[sp])
          /\ regs["tp"] = c.regs["tp"]
          /\ Previous(c)
          /\ sepc = IF pc.at = "trap_exit" /\ c.cause = "EnvCallFromU" THEN next_pc(c.pc) ELSE c.pc
    /\ pc.at = "handle_exception" => scause = c.cause
    /\ pc.at = "unwind" => c.mode = "U" /\ c.cause \notin Irqs \cup {"EnvCallFromU"}
    /\ pc.at \in InCall =>
          /\ c.mode = "U" /\ c.cause = "EnvCallFromU"
          /\ c.regs["a7"] = "Write" /\ c.regs["a0"] = "stdout"
    /\ pc.at \in UserAccess => uaccess.caller = "sys_write_ret"
    /\ pc.at \in UserAccess \ {"ua_read"} => uaccess.sstatus \ {"SUM"} \subseteq sstatus

\* Trap k was taken in the handler of trap k - 1.
NestedAt(k) ==
    /\ trapped[k].cause = "LoadPageFault"
    /\ trapped[k].mode = "S"
    /\ IF trapped[k - 1].cause = "EnvCallFromU"
       THEN trapped[k].pc.at = "ua_body"
       ELSE trapped[k - 1].cause \notin Irqs /\ trapped[k].pc.at = "unwind"

\* Traps inside a trap are faults, whose frames pile up on the kernel stack: no
\* handler of a fault returns.
NestedTraps ==
    /\ trapped[1].mode = "U"
    /\ \A k \in 2..Len(trapped) : NestedAt(k)
    /\ sscratch = UserSp /\ sp.stack = "kernel"
    /\ sp.off = IF pc.at = "trap_entry" THEN Len(trapped) - 1 ELSE Len(trapped)
    /\ pc.at \in {"trap_entry", "handle_exception", "unwind", "halt"}
    /\ pc.at # "halt" => scause = "LoadPageFault"
    /\ pc.at = "trap_entry" => "SPP" \in sstatus

First(c) ==
    /\ c.mode = "U" => c.sp = UserSp
    /\ c.mode = "S" => c.cause \in Irqs /\ MainAt(c.pc.at, c.sp)

TrapInv ==
    /\ Len(trapped) = 0 => NoTrap
    /\ Len(trapped) > 0 => mode = "S" /\ "SIE" \notin sstatus /\ First(trapped[1])
    /\ Len(trapped) = 1 => OneTrap(trapped[1])
    /\ Len(trapped) > 1 => NestedTraps

IInv == TypeOK /\ TrapInv

-----------------------------------------------------------------------------
(* Types.                                                                  *)

LEMMA AppendFacts ==
    ASSUME NEW S, NEW s \in Seq(S), NEW e \in S
    PROVE  /\ Append(s, e) \in Seq(S)
           /\ Len(s) \in Nat /\ Len(Append(s, e)) = Len(s) + 1
           /\ \A i \in 1..Len(s) : Append(s, e)[i] = s[i]
           /\ Append(s, e)[Len(s) + 1] = e
BY AppendProperties

LEMMA FrontFacts ==
    ASSUME NEW S, NEW s \in Seq(S), Len(s) # 0
    PROVE  Front(s) \in Seq(S) /\ Len(Front(s)) = Len(s) - 1
<1>1. Len(s) \in Nat /\ \A i \in 1..(Len(s) - 1) : s[i] \in S
    OBVIOUS
<1>2. Len(s) - 1 \in Int /\ 1 \in Int
    BY <1>1
<1>3. /\ SubSeq(s, 1, Len(s) - 1) \in Seq(S)
      /\ Len(SubSeq(s, 1, Len(s) - 1)) = IF 1 <= Len(s) - 1 THEN (Len(s) - 1) - 1 + 1 ELSE 0
    BY <1>1, <1>2, SubSeqProperties
<1> DEFINE n == Len(s)
           f == SubSeq(s, 1, n - 1)
<1>4. n \in Nat /\ n # 0 /\ f \in Seq(S) /\ Len(f) = (IF 1 <= n - 1 THEN (n - 1) - 1 + 1 ELSE 0)
    BY <1>1, <1>3
<1>5. Front(s) = f
    BY DEF Front
<1> HIDE DEF n, f
<1>6. f \in Seq(S) /\ Len(f) = n - 1
    BY <1>4
<1> QED
    BY <1>5, <1>6 DEF n

LEMMA NextPcType == ASSUME NEW p \in Pcs PROVE next_pc(p) \in Pcs
<1>1. (p.i + 1) % CodeLen \in 0..(CodeLen - 1)
    BY CodeLenAssumption DEF Pcs
<1> QED
    BY <1>1 DEF next_pc, Pcs

LEMMA AtType == ASSUME NEW l \in Labels PROVE At(l) \in Pcs
BY CodeLenAssumption DEF At, Pcs

LEMMA InitInv == Init => IInv
<1> SUFFICES ASSUME Init PROVE IInv
    OBVIOUS
<1>1. TypeOK
    <2>1. At("kmain") \in Pcs
        BY AtType DEF Labels
    <2>2. /\ KernelSp \in StackPointers /\ NoSp \in StackPointers
          /\ regs \in [Regs -> Words]
        BY MaxTrapsAssumption DEF Init, KernelSp, NoSp, StackPointers, Words
    <2>3. mem \in [StackPointers -> Frames]
        BY <2>2 DEF Init, Frames
    <2>4. trapped \in Seq(Contexts) /\ Len(trapped) <= MaxTraps
        BY MaxTrapsAssumption DEF Init
    <2> QED
        BY <2>1, <2>2, <2>3, <2>4 DEF Init, TypeOK, Causes, Flags
<1>2. TrapInv
    BY DEF Init, TrapInv, NoTrap, MainAt, MainLabels, At, KernelSp, EnterUser, UserAccess
<1> QED
    BY <1>1, <1>2 DEF IInv

-----------------------------------------------------------------------------
(* Taking a trap.                                                          *)

\* A trap taken while none is in progress, from kernel code only by an
\* interrupt.
LEMMA FirstTrap ==
    ASSUME IInv, Len(trapped) = 0, NEW c \in Causes, NEW r \in [Regs -> Words],
           hart_trap(c, r), mode = "S" => c \in Irqs
    PROVE  IInv'
<1> DEFINE ctx == [pc |-> pc, mode |-> mode, sp |-> sp, regs |-> r,
                   sie |-> "SIE" \in sstatus, cause |-> c]
<1>1. ctx \in Contexts
    BY DEF IInv, TypeOK, Contexts
<1>2. trapped' = Append(trapped, ctx)
    BY DEF hart_trap
<1> HIDE DEF ctx
<1>3. trapped' \in Seq(Contexts) /\ Len(trapped') = 1 /\ trapped'[1] = ctx
    BY <1>1, <1>2, AppendFacts DEF IInv, TypeOK
<1>a. /\ trapped'[1].pc = pc /\ trapped'[1].mode = mode /\ trapped'[1].sp = sp
      /\ trapped'[1].regs = r /\ trapped'[1].cause = c
    BY <1>3 DEF ctx
<1>b. trapped'[1].sie <=> "SIE" \in sstatus
    <2>1. trapped'[1] = ctx
        BY <1>3
    <2>2. ctx.sie = ("SIE" \in sstatus)
        BY DEF ctx
    <2> QED
        BY <2>1, <2>2, Zenon
<1>4. TypeOK'
    <2>1. At("trap_entry") \in Pcs
        BY AtType DEF Labels, Handler
    <2> QED
        BY <1>3, <2>1, MaxTrapsAssumption
           DEF hart_trap, IInv, TypeOK, flags_after_trap, Flags, locals
<1>5. mode' = "S" /\ "SIE" \notin sstatus' /\ pc'.at = "trap_entry"
    BY DEF hart_trap, flags_after_trap, At
<1>6. First(trapped[1])'
    BY <1>a DEF hart_trap, IInv, TrapInv, NoTrap, First, MainAt, locals
<1>7. OneTrap(trapped[1])'
    <2>1. "SPP" \in sstatus' <=> mode = "S"
        BY DEF hart_trap, flags_after_trap
    <2>2. "SPIE" \in sstatus' <=> "SIE" \in sstatus
        BY DEF hart_trap, flags_after_trap
    <2>3. Previous(trapped[1])'
        BY <1>a, <1>b, <2>1, <2>2 DEF Previous
    <2>4. /\ UNCHANGED <<sp, sscratch>>
          /\ regs' = r /\ sepc' = pc /\ scause' = c
          /\ mode = "U" => sscratch = KernelSp
        BY DEF hart_trap, IInv, TrapInv, NoTrap
    <2> QED
        BY <1>5, <1>a, <2>3, <2>4 DEF OneTrap, Body, InCall, UserAccess
<1> QED
    BY <1>3, <1>4, <1>5, <1>6, <1>7 DEF IInv, TrapInv

LEMMA InterruptStep == IInv /\ interrupt => IInv'
<1> SUFFICES ASSUME IInv, interrupt PROVE IInv'
    OBVIOUS
<1>1. Len(trapped) = 0
    BY DEF interrupt, IInv, TypeOK, TrapInv
<1>2. PICK c \in Irqs : hart_trap(c, regs)
    BY DEF interrupt
<1> QED
    BY <1>1, <1>2, FirstTrap DEF IInv, TypeOK, Causes

LEMMA UserStep == IInv /\ User => IInv'
<1> SUFFICES ASSUME IInv, User PROVE IInv'
    OBVIOUS
<1>1. mode = "U" /\ Len(trapped) = 0
    BY DEF User, user_run, ecall, user_fault, fetch_fault, InUser, IInv, TypeOK, TrapInv
<1>2. CASE user_run
    <2>1. pc' \in Pcs
        BY <1>2, NextPcType DEF user_run, IInv, TypeOK
    <2>2. regs' \in [Regs -> Words]
        BY Zenon, <1>2 DEF user_run, FramePointers, Words
    <2>3. TypeOK'
        BY <1>2, <2>1, <2>2 DEF user_run, IInv, TypeOK, csrs, locals
    <2> QED
        BY <1>1, <1>2, <2>3 DEF user_run, IInv, TrapInv, NoTrap, csrs, locals
<1>3. CASE ecall
    <2>1. PICK n \in Sysnos, fd \in Fds :
              hart_trap("EnvCallFromU", [regs EXCEPT !["a7"] = n, !["a0"] = fd])
        BY <1>3 DEF ecall
    <2>2. [regs EXCEPT !["a7"] = n, !["a0"] = fd] \in [Regs -> Words]
        BY Zenon DEF IInv, TypeOK, Words
    <2> QED
        BY Zenon, <1>1, <2>1, <2>2, FirstTrap DEF Causes
<1>4. CASE user_fault
    <2>1. PICK c \in Faults : hart_trap(c, regs)
        BY <1>4 DEF user_fault
    <2> QED
        BY <1>1, <2>1, FirstTrap DEF IInv, TypeOK, Causes
<1>5. CASE fetch_fault
    BY Zenon, <1>1, <1>5, FirstTrap DEF fetch_fault, IInv, TypeOK, Causes
<1> QED
    BY <1>2, <1>3, <1>4, <1>5 DEF User

LEMMA LenCases == ASSUME IInv PROVE Len(trapped) = 0 \/ Len(trapped) = 1 \/ Len(trapped) > 1
<1> DEFINE k == Len(trapped)
<1>1. k \in Nat
    BY DEF IInv, TypeOK
<1> HIDE DEF k
<1>2. k = 0 \/ k = 1 \/ k > 1
    BY <1>1
<1> QED
    BY <1>2 DEF k

LEMMA NestingInv == ASSUME IInv, NEW k \in 2..Len(trapped) PROVE NestedAt(k)
<1>1. Len(trapped) \in Nat
    BY DEF IInv, TypeOK
<1>2. Len(trapped) > 1
    BY <1>1
<1>3. NestedTraps
    BY <1>2 DEF IInv, TrapInv
<1> QED
    BY Zenon, <1>3 DEF NestedTraps

LEMMA StillNested ==
    ASSUME TypeOK', Len(trapped') > 1, mode' = "S", "SIE" \notin sstatus',
           First(trapped[1])', NestedTraps'
    PROVE  IInv'
<1> DEFINE n == Len(trapped')
<1>1. n \in Nat /\ n > 1
    BY DEF TypeOK
<1> HIDE DEF n
<1>2. n # 0 /\ n # 1
    BY <1>1
<1> QED
    BY <1>2 DEF n, IInv, TrapInv

\* A fault inside the handler of the latest trap, on the kernel stack.
LEMMA NestedTrap ==
    ASSUME IInv, NEW n, n = Len(trapped), n > 0, n < MaxTraps,
           mode = "S", sp.stack = "kernel", sp.off = n, sscratch = UserSp,
           trapped[1].mode = "U",
           IF trapped[n].cause = "EnvCallFromU" THEN pc.at = "ua_body"
           ELSE trapped[n].cause \notin Irqs /\ pc.at = "unwind",
           NEW r \in [Regs -> Words], hart_trap("LoadPageFault", r)
    PROVE  IInv'
<1> DEFINE ctx == [pc |-> pc, mode |-> mode, sp |-> sp, regs |-> r,
                   sie |-> "SIE" \in sstatus, cause |-> "LoadPageFault"]
<1>1. ctx \in Contexts
    BY DEF IInv, TypeOK, Contexts, Causes
<1>2. trapped' = Append(trapped, ctx)
    BY DEF hart_trap
<1>3. ctx.mode = "S" /\ ctx.cause = "LoadPageFault" /\ ctx.pc = pc
    OBVIOUS
<1> HIDE DEF ctx
<1>4. trapped \in Seq(Contexts) /\ n \in Nat
    BY DEF IInv, TypeOK
<1>5. /\ trapped' \in Seq(Contexts) /\ Len(trapped') = n + 1
      /\ \A i \in 1..n : trapped'[i] = trapped[i]
      /\ trapped'[n + 1] = ctx
    BY <1>1, <1>2, <1>4, AppendFacts
<1>6. 1 \in 1..n /\ n \in 1..n /\ n + 1 <= MaxTraps /\ n + 1 > 1 /\ n + 1 \in Nat
    BY <1>4, MaxTrapsAssumption
<1>7. TypeOK'
    <2>1. At("trap_entry") \in Pcs
        BY AtType DEF Labels, Handler
    <2>2. trapped' \in Seq(Contexts) /\ Len(trapped') <= MaxTraps
        BY <1>5, <1>6
    <2>3. /\ pc' = At("trap_entry") /\ mode' = "S" /\ regs' = r /\ sepc' = pc
          /\ scause' = "LoadPageFault" /\ sstatus' = flags_after_trap
          /\ UNCHANGED <<sp, sscratch, mem, uaccess, status>>
        BY DEF hart_trap, locals
    <2>4. flags_after_trap \subseteq Flags
        BY DEF flags_after_trap, Flags, IInv, TypeOK
    <2> QED
        BY <2>1, <2>2, <2>3, <2>4 DEF IInv, TypeOK, Causes
<1>8. /\ mode' = "S" /\ "SIE" \notin sstatus' /\ "SPP" \in sstatus'
      /\ pc'.at = "trap_entry" /\ scause' = "LoadPageFault"
      /\ UNCHANGED <<sp, sscratch>>
    BY DEF hart_trap, flags_after_trap, At
<1>9. trapped'[1] = trapped[1] /\ trapped'[n] = trapped[n]
    BY <1>5, <1>6
<1>10. First(trapped[1])'
    <2>1. First(trapped[1])
        BY DEF IInv, TrapInv
    <2> QED
        BY <1>9, <2>1 DEF First
<1>11. ASSUME NEW k \in 2..(n + 1) PROVE NestedAt(k)'
    <2>1. CASE k = n + 1
        <3>1. k - 1 = n
            BY <1>4, <2>1
        <3>2. trapped'[k] = ctx /\ trapped'[k - 1] = trapped[n]
            BY <1>5, <1>9, <2>1, <3>1
        <3> QED
            BY <1>3, <3>2 DEF NestedAt
    <2>2. CASE k # n + 1
        <3>1. k \in 2..n /\ k \in 1..n /\ k - 1 \in 1..n
            BY <1>4, <2>2
        <3>2. NestedAt(k)
            BY <3>1, NestingInv
        <3>3. trapped'[k] = trapped[k] /\ trapped'[k - 1] = trapped[k - 1]
            BY <1>5, <3>1
        <3> QED
            BY <3>2, <3>3 DEF NestedAt
    <2> QED
        BY <2>1, <2>2
<1>12. NestedTraps'
    <2>1. sp'.off = Len(trapped') - 1
        BY <1>4, <1>5, <1>8
    <2>2. \A k \in 2..Len(trapped') : NestedAt(k)'
        BY <1>5, <1>11
    <2> QED
        BY <1>8, <1>9, <2>1, <2>2 DEF NestedTraps
<1> QED
    BY <1>5, <1>6, <1>7, <1>8, <1>10, <1>12, StillNested

\* A function of the kernel has a frame of its own.
LEMMA InKernelType == ASSUME IInv PROVE InKernel \in [Regs -> Words]
BY Zenon DEF InKernel, IInv, TypeOK, Words

\* sys_write faults on the user's buffer.
LEMMA UserAccessFault == IInv /\ ua_fault => IInv'
<1> SUFFICES ASSUME IInv, ua_fault PROVE IInv'
    OBVIOUS
<1>1. /\ mode = "S" /\ pc.at = "ua_body" /\ uaccess.caller = "sys_write_ret"
      /\ hart_trap("LoadPageFault", InKernel)
    BY DEF ua_fault, kernel_at
<1>2. Len(trapped) = 1
    <2>1. Len(trapped) # 0
        BY <1>1 DEF IInv, TrapInv, NoTrap, MainAt, UserAccess
    <2>2. ~(Len(trapped) > 1)
        BY <1>1 DEF IInv, TrapInv, NestedTraps
    <2> QED
        BY <2>1, <2>2, LenCases
<1>3. OneTrap(trapped[1])
    BY <1>2 DEF IInv, TrapInv
<1>4. trapped[1].mode = "U" /\ trapped[1].cause = "EnvCallFromU"
    BY <1>1, <1>3 DEF OneTrap, InCall, UserAccess
<1>5. sp.stack = "kernel" /\ sp.off = 1 /\ sscratch = UserSp
    BY <1>1, <1>3, <1>4 DEF OneTrap, FrameOf
<1>6. 1 > 0 /\ 1 < MaxTraps
    BY MaxTrapsAssumption
<1> QED
    BY <1>1, <1>2, <1>4, <1>5, <1>6, InKernelType, NestedTrap

\* The walk of a fault's handler faults on the frame pointers it follows.
LEMMA UnwindFault == IInv /\ unwind_fault => IInv'
<1> SUFFICES ASSUME IInv, unwind_fault PROVE IInv'
    OBVIOUS
<1> DEFINE n == Len(trapped)
<1>1. /\ mode = "S" /\ pc.at = "unwind" /\ n < MaxTraps
      /\ hart_trap("LoadPageFault", InKernel)
    BY DEF unwind_fault, kernel_at
<1>2. n # 0
    BY <1>1 DEF IInv, TrapInv, NoTrap, MainAt, MainLabels, EnterUser, UserAccess
<1>3. ASSUME sp.stack = "kernel", sp.off = n, sscratch = UserSp, trapped[1].mode = "U",
             trapped[n].cause \notin Irqs \cup {"EnvCallFromU"}, n > 0
      PROVE  IInv'
    <2> HIDE DEF n
    <2>1. n = Len(trapped)
        BY DEF n
    <2> QED
        BY <1>1, <1>3, <2>1, InKernelType, NestedTrap
<1>4. CASE n = 1
    <2>1. OneTrap(trapped[1])
        BY <1>4 DEF IInv, TrapInv
    <2>2. trapped[1].mode = "U" /\ trapped[1].cause \notin Irqs \cup {"EnvCallFromU"}
        BY <1>1, <2>1 DEF OneTrap
    <2>3. sp.stack = "kernel" /\ sp.off = 1 /\ sscratch = UserSp
        BY <1>1, <2>1, <2>2 DEF OneTrap, FrameOf
    <2> QED
        BY <1>3, <1>4, <2>2, <2>3
<1>5. CASE n > 1
    <2>1. NestedTraps
        BY <1>5 DEF IInv, TrapInv
    <2>2. sp.stack = "kernel" /\ sp.off = n /\ sscratch = UserSp /\ trapped[1].mode = "U"
        BY <1>1, <2>1 DEF NestedTraps
    <2>3. n \in Nat
        BY DEF IInv, TypeOK
    <2>4. n \in 2..n /\ n > 0
        BY <1>5, <2>3
    <2>5. NestedAt(n)
        BY Zenon, <2>1, <2>4 DEF NestedTraps
    <2>6. trapped[n].cause \notin Irqs \cup {"EnvCallFromU"}
        BY <2>5, CausesAssumption DEF NestedAt
    <2> QED
        BY <1>3, <2>2, <2>4, <2>6
<1> QED
    BY <1>2, <1>4, <1>5, LenCases

-----------------------------------------------------------------------------
(* The handler.                                                            *)

\* What the invariant says while a first trap is handled.
LEMMA InHandler ==
    ASSUME IInv, Len(trapped) = 1
    PROVE  /\ trapped[1] \in Contexts
           /\ mode = "S" /\ "SIE" \notin sstatus
           /\ First(trapped[1]) /\ OneTrap(trapped[1])
           /\ FrameOf(trapped[1]) \in StackPointers
<1>1. trapped[1] \in Contexts
    <2>1. trapped \in Seq(Contexts) /\ 1 \in 1..Len(trapped)
        BY DEF IInv, TypeOK
    <2> QED
        BY <2>1, ElementOfSeq
<1>2. mode = "S" /\ "SIE" \notin sstatus /\ First(trapped[1]) /\ OneTrap(trapped[1])
    BY DEF IInv, TrapInv
<1>3. trapped[1].sp.stack \in {"kernel", "user", "none"}
    BY <1>1 DEF Contexts, StackPointers
<1>4. FrameOf(trapped[1]) \in StackPointers
    BY <1>3, MaxTrapsAssumption DEF FrameOf, StackPointers
<1> QED
    BY <1>1, <1>2, <1>4

\* Code of a handler runs only while a trap is in progress, and only the start
\* of it for a nested one.
LEMMA HandlerTraps ==
    ASSUME IInv, mode = "S", pc.at \in Handler
    PROVE  /\ Len(trapped) = 1 \/ Len(trapped) > 1
           /\ pc.at \in {"sys_write_ret", "trap_exit"} => Len(trapped) = 1
<1>1. Len(trapped) # 0
    BY DEF IInv, TrapInv, NoTrap, MainAt, MainLabels, EnterUser, UserAccess, Handler
<1>2. Len(trapped) > 1 => pc.at \notin {"sys_write_ret", "trap_exit"}
    BY DEF IInv, TrapInv, NestedTraps
<1> QED
    BY <1>1, <1>2, LenCases

LEMMA TrapEntryStep == IInv /\ trap_entry => IInv'
<1> SUFFICES ASSUME IInv, trap_entry PROVE IInv'
    OBVIOUS
<1> DEFINE top == IF from_user THEN sscratch ELSE sp
           frame == [top EXCEPT !.off = @ + 1]
<1>1. /\ mode = "S" /\ pc.at = "trap_entry" /\ pc' = At("handle_exception")
      /\ sp' = frame /\ sscratch' = (IF from_user THEN sp ELSE sscratch)
      /\ regs' = [regs EXCEPT !["t0"] = spp_word]
      /\ mem' = [mem EXCEPT ![frame] = [regs |-> regs', sp |-> frame]]
      /\ UNCHANGED <<mode, sepc, scause, sstatus, uaccess, status, trapped>>
    BY DEF trap_entry, kernel_at, locals
<1>2. Len(trapped) = 1 \/ Len(trapped) > 1
    BY <1>1, HandlerTraps DEF Handler
<1>3. pc' \in Pcs /\ pc'.at = "handle_exception"
    BY <1>1, AtType DEF At, Labels, Handler
<1>4. regs' \in [Regs -> Words] /\ \A r \in Regs \ {"t0"} : regs'[r] = regs[r]
    BY Zenon, <1>1 DEF IInv, TypeOK, spp_word, Words
<1>5. ASSUME frame \in StackPointers PROVE TypeOK' /\ mem'[frame] = [regs |-> regs', sp |-> frame]
    BY <1>1, <1>3, <1>4, <1>5 DEF IInv, TypeOK, Frames
<1>6. CASE Len(trapped) = 1
    <2> DEFINE c == trapped[1]
    <2>1. /\ c.mode \in {"U", "S"} /\ First(c) /\ "SIE" \notin sstatus /\ OneTrap(c)
          /\ FrameOf(c) \in StackPointers
        BY <1>6, InHandler DEF Contexts
    <2>2. /\ sp = c.sp /\ regs = c.regs /\ sepc = c.pc /\ scause = c.cause /\ Previous(c)
          /\ c.mode = "U" => sscratch = KernelSp /\ c.sp = UserSp
          /\ c.mode = "S" => c.sp \in {UserSp, KernelSp}
        BY <1>1, <2>1 DEF OneTrap, First, MainAt
    <2>3. from_user <=> c.mode = "U"
        BY <2>1, <2>2 DEF Previous, from_user
    <2>4. frame = FrameOf(c)
        BY <2>1, <2>2, <2>3 DEF FrameOf, KernelSp, UserSp
    <2>5. First(c)'
        BY <1>1, <2>1, <2>3 DEF First, MainAt
    <2>6. Previous(c)'
        BY <1>1, <2>2 DEF Previous
    <2>7. SavedRegs(c, mem[sp])'
        BY <1>1, <1>3, <1>4, <1>5, <2>1, <2>2, <2>4 DEF SavedRegs
    <2>8. /\ (sp = FrameOf(c))' /\ (c.mode = "U" => sscratch = UserSp)'
          /\ (mem[sp].sp = sp)' /\ (regs["tp"] = c.regs["tp"])'
          /\ (sepc = c.pc)' /\ (scause = c.cause)'
        BY <1>1, <1>4, <1>5, <2>1, <2>2, <2>3, <2>4 DEF FrameOf, Regs
    <2>9. OneTrap(c)'
        BY <1>3, <2>6, <2>7, <2>8 DEF OneTrap, Body, InCall, UserAccess
    <2> QED
        BY <1>1, <1>5, <1>6, <2>1, <2>4, <2>5, <2>9, InHandler DEF IInv, TrapInv
<1>7. CASE Len(trapped) > 1
    <2> DEFINE n == Len(trapped)
    <2>1. NestedTraps /\ First(trapped[1]) /\ "SIE" \notin sstatus /\ sp \in StackPointers
        BY <1>7 DEF IInv, TypeOK, TrapInv
    <2>2. ~from_user
        BY <1>1, <2>1 DEF NestedTraps, from_user
    <2>3. frame = [sp EXCEPT !.off = @ + 1]
        BY <2>2
    <2>4. n \in Nat /\ n <= MaxTraps /\ sp.off = n - 1 /\ sp.stack = "kernel"
        BY <1>1, <2>1 DEF NestedTraps, IInv, TypeOK
    <2>5. frame.off = n /\ frame.stack = "kernel"
        BY <2>1, <2>3, <2>4 DEF StackPointers
    <2>6. frame \in StackPointers
        BY <2>1, <2>3, <2>4, MaxTrapsAssumption DEF StackPointers
    <2>7. First(trapped[1])'
        BY <1>1, <2>1 DEF First, NestedTraps
    <2>8. \A k \in 2..n : NestedAt(k)'
        BY <1>1, <2>1 DEF NestedTraps, NestedAt
    <2>9. NestedTraps'
        BY <1>1, <1>3, <2>1, <2>2, <2>5, <2>8 DEF NestedTraps
    <2> QED
        BY <1>1, <1>5, <1>7, <2>1, <2>6, <2>7, <2>9, StillNested
<1> QED
    BY <1>2, <1>6, <1>7

LEMMA StillInHandler ==
    ASSUME TypeOK', Len(trapped') = 1, mode' = "S", "SIE" \notin sstatus',
           First(trapped[1])', OneTrap(trapped[1])'
    PROVE  IInv'
BY DEF IInv, TrapInv

LEMMA HaltStep ==
    ASSUME IInv, mode = "S", pc.at \in {"handle_exception", "unwind"}, halt
    PROVE  IInv'
<1>1. /\ pc' \in Pcs /\ pc'.at = "halt" /\ sstatus' = sstatus \ {"SIE"}
      /\ UNCHANGED <<mode, regs, sp, sscratch, sepc, scause, mem, uaccess, status, trapped>>
    BY AtType DEF halt, At, Labels, locals
<1>2. TypeOK'
    BY <1>1 DEF IInv, TypeOK
<1>3. Len(trapped) = 1 \/ Len(trapped) > 1
    BY HandlerTraps DEF Handler
<1>4. First(trapped[1])'
    BY <1>1, <1>3 DEF IInv, TrapInv, First, MainAt
<1>5. CASE Len(trapped) = 1
    <2>1. OneTrap(trapped[1])
        BY <1>5, InHandler
    <2>2. OneTrap(trapped[1])'
        BY <1>1, <2>1 DEF OneTrap, Body, InCall, UserAccess, FrameOf
    <2> QED
        BY <1>1, <1>2, <1>4, <1>5, <2>2 DEF IInv, TrapInv
<1>6. CASE Len(trapped) > 1
    <2>1. NestedTraps
        BY <1>6 DEF IInv, TrapInv
    <2>2. \A k \in 2..Len(trapped) : NestedAt(k)'
        BY <1>1, <2>1 DEF NestedTraps, NestedAt
    <2>3. NestedTraps'
        BY <1>1, <2>1, <2>2 DEF NestedTraps
    <2>4. mode' = "S" /\ "SIE" \notin sstatus'
        BY <1>1
    <2> QED
        BY <1>1, <1>2, <1>4, <1>6, <2>3, <2>4, StillNested
<1> QED
    BY <1>3, <1>5, <1>6

\* A fault is reported.
LEMMA FaultStep == IInv /\ handle_fault => IInv'
<1> SUFFICES ASSUME IInv, handle_fault PROVE IInv'
    OBVIOUS
<1>1. /\ mode = "S" /\ pc.at = "handle_exception"
      /\ scause \notin Irqs \cup {"EnvCallFromU"}
      /\ pc' \in Pcs /\ pc'.at = "unwind"
      /\ UNCHANGED <<mode, regs, sp, sscratch, sepc, scause, sstatus, mem, uaccess, status,
                     trapped>>
    BY AtType DEF handle_fault, kernel_at, At, Labels, Handler, csrs, locals
<1>2. TypeOK'
    BY <1>1 DEF IInv, TypeOK
<1>3. Len(trapped) = 1 \/ Len(trapped) > 1
    BY <1>1, HandlerTraps DEF Handler
<1>4. mode' = "S" /\ "SIE" \notin sstatus'
    BY <1>1, <1>3 DEF IInv, TrapInv
<1>5. First(trapped[1])'
    BY <1>1, <1>3 DEF IInv, TrapInv, First, MainAt
<1>6. CASE Len(trapped) = 1
    <2> DEFINE c == trapped[1]
    <2>1. OneTrap(c) /\ First(c) /\ c \in Contexts
        BY <1>6, InHandler
    <2>2. c.cause = scause /\ sp = FrameOf(c) /\ (c.mode = "U" => sscratch = UserSp)
        BY <1>1, <2>1 DEF OneTrap
    <2>3. c.mode = "U"
        BY <1>1, <2>1, <2>2 DEF First, Contexts
    <2>4. OneTrap(c)'
        BY <1>1, <2>2, <2>3 DEF OneTrap, Body, InCall, UserAccess, FrameOf
    <2> QED
        BY <1>1, <1>2, <1>4, <1>5, <1>6, <2>4, StillInHandler
<1>7. CASE Len(trapped) > 1
    <2>1. NestedTraps
        BY <1>7 DEF IInv, TrapInv
    <2>2. \A k \in 2..Len(trapped) : NestedAt(k)'
        BY <1>1, <2>1 DEF NestedTraps, NestedAt
    <2>3. NestedTraps'
        BY <1>1, <2>1, <2>2 DEF NestedTraps
    <2> QED
        BY <1>1, <1>2, <1>4, <1>5, <1>7, <2>3, StillNested
<1> QED
    BY <1>3, <1>6, <1>7

LEMMA UnwindStep == IInv /\ unwind_stack_frame => IInv'
BY HaltStep, UnwindFault DEF unwind_stack_frame, unwind_end, kernel_at

\* The end of every handler that returns: the frame holds what trap_exit gives
\* back.
LEMMA ReturnStep ==
    ASSUME IInv, Len(trapped) = 1, pc.at \in Body, UNCHANGED <<uaccess, status>>,
           NEW epc \in Pcs, return_to(epc),
           mem' \in [StackPointers -> Frames],
           mem'[sp].sp = mem[sp].sp,
           \A r \in Regs \ {"t0"} : mem'[sp].regs[r] = Resumed(trapped[1], r),
           epc = IF trapped[1].cause = "EnvCallFromU" THEN next_pc(trapped[1].pc)
                 ELSE trapped[1].pc
    PROVE  IInv'
<1> DEFINE c == trapped[1]
<1>1. /\ pc' \in Pcs /\ pc'.at = "trap_exit" /\ sepc' = epc
      /\ UNCHANGED <<mode, sp, sscratch, scause, sstatus, trapped>>
    BY AtType DEF return_to, At, Labels, Handler
<1>2. regs' \in [Regs -> Words] /\ regs'["tp"] = regs["tp"]
    BY DEF return_to, clobbered, IInv, TypeOK, Words, Regs, CallerSaved
<1>3. TypeOK'
    BY Zenon, <1>1, <1>2 DEF IInv, TypeOK
<1>4. First(c) /\ OneTrap(c) /\ mode = "S" /\ "SIE" \notin sstatus
    BY InHandler
<1>5. First(c)'
    BY <1>1, <1>4 DEF First, MainAt
<1>6. /\ sp = FrameOf(c) /\ (c.mode = "U" => sscratch = UserSp)
      /\ mem[sp].sp = sp /\ regs["tp"] = c.regs["tp"] /\ Previous(c)
    BY <1>4 DEF OneTrap, Body, InCall, UserAccess
<1>7. SavedRegs(c, mem[sp])'
    BY <1>1 DEF SavedRegs, Resumed, Result
<1>8. Previous(c)'
    BY <1>1, <1>6 DEF Previous
<1>9. OneTrap(c)'
    BY <1>1, <1>2, <1>6, <1>7, <1>8 DEF OneTrap, Body, InCall, UserAccess, FrameOf, next_pc
<1>10. mode' = "S" /\ "SIE" \notin sstatus' /\ Len(trapped') = 1
    BY <1>1, <1>4
<1> QED
    BY <1>3, <1>5, <1>9, <1>10, StillInHandler

LEMMA SyscallReturn ==
    ASSUME IInv, Len(trapped) = 1, pc.at \in {"handle_exception", "sys_write_ret"},
           UNCHANGED <<uaccess, status>>,
           NEW ret \in Results, syscall_return(ret),
           trapped[1].cause = "EnvCallFromU", ret = Result(trapped[1].regs)
    PROVE  IInv'
<1> DEFINE c == trapped[1]
<1>1. OneTrap(c) /\ sp \in StackPointers /\ mem \in [StackPointers -> Frames]
    BY InHandler DEF IInv, TypeOK
<1>2. sepc = c.pc /\ SavedRegs(c, mem[sp])
    BY <1>1 DEF OneTrap, Body, InCall
<1>3. next_pc(sepc) \in Pcs
    BY NextPcType DEF IInv, TypeOK
<1>4. mem' = [mem EXCEPT ![sp].regs["a0"] = ret] /\ return_to(next_pc(sepc))
    BY DEF syscall_return
<1>5. mem' \in [StackPointers -> Frames]
    BY <1>1, <1>4, Zenon DEF Frames, Words
<1>6. /\ mem'[sp].sp = mem[sp].sp
      /\ mem'[sp].regs = [mem[sp].regs EXCEPT !["a0"] = ret]
      /\ mem[sp].regs \in [Regs -> Words]
    BY <1>1, <1>4 DEF Frames
<1>7. \A r \in Regs \ {"t0"} : mem[sp].regs[r] = c.regs[r]
    BY <1>2 DEF SavedRegs
<1>8. \A r \in Regs \ {"t0"} : mem'[sp].regs[r] = Resumed(c, r)
    BY <1>6, <1>7 DEF Resumed
<1> QED
    BY <1>2, <1>3, <1>4, <1>5, <1>6, <1>8, ReturnStep DEF Body, InCall

LEMMA HandleExceptionStep == IInv /\ (handle_exception \/ sys_write_ret) => IInv'
<1> SUFFICES ASSUME IInv, handle_exception \/ sys_write_ret PROVE IInv'
    OBVIOUS
<1> DEFINE c == trapped[1]
<1>1. mode = "S" /\ pc.at \in {"handle_exception", "sys_write_ret"}
    BY DEF handle_exception, handle_irq, handle_fault, sys_unknown, sys_exit,
           sys_write_einval, sys_write, sys_write_ret, InSyscall, kernel_at
<1>2. CASE handle_fault \/ sys_exit
    BY <1>1, <1>2, FaultStep, HaltStep DEF sys_exit, InSyscall, kernel_at
<1>3. ASSUME ~handle_fault PROVE Len(trapped) = 1
    <2>1. Len(trapped) > 1 => pc.at = "handle_exception" /\ scause = "LoadPageFault"
        BY <1>1 DEF IInv, TrapInv, NestedTraps
    <2>2. pc.at = "handle_exception" => scause \in Irqs \cup {"EnvCallFromU"}
        BY <1>1, <1>3 DEF handle_exception, handle_irq, sys_unknown, sys_exit,
           sys_write_einval, sys_write, sys_write_ret, InSyscall, kernel_at
    <2> QED
        BY <1>1, <2>1, <2>2, HandlerTraps, CausesAssumption DEF Handler
<1>4. ASSUME Len(trapped) = 1
      PROVE  /\ OneTrap(c) /\ First(c) /\ SavedRegs(c, mem[sp]) /\ sepc = c.pc
             /\ pc.at = "handle_exception" => scause = c.cause
             /\ \A r \in Regs \ {"t0"} : mem[sp].regs[r] = c.regs[r]
    <2>1. OneTrap(c) /\ First(c)
        BY <1>4, InHandler
    <2> QED
        BY <1>1, <2>1 DEF OneTrap, Body, InCall, SavedRegs
<1>5. CASE handle_irq
    <2>1. /\ pc.at = "handle_exception" /\ scause \in Irqs /\ return_to(sepc)
          /\ UNCHANGED <<mem, uaccess, status>>
        BY <1>5 DEF handle_irq, kernel_at, locals
    <2>2. Len(trapped) = 1 /\ ~handle_fault
        BY <2>1, <1>3 DEF handle_fault
    <2>3. c.cause # "EnvCallFromU" /\ sepc = c.pc
        BY <1>4, <2>1, <2>2, CausesAssumption
    <2>4. \A r \in Regs \ {"t0"} : mem'[sp].regs[r] = Resumed(c, r)
        BY <1>4, <2>1, <2>2, <2>3 DEF Resumed
    <2>5. sepc \in Pcs /\ mem \in [StackPointers -> Frames]
        BY DEF IInv, TypeOK
    <2> QED
        BY <2>1, <2>2, <2>3, <2>4, <2>5, ReturnStep DEF Body
<1>6. ASSUME InSyscall
      PROVE  /\ Len(trapped) = 1 /\ c.cause = "EnvCallFromU" /\ pc.at = "handle_exception"
             /\ sysno = c.regs["a7"] /\ arg0 = c.regs["a0"]
    <2>1. pc.at = "handle_exception" /\ scause = "EnvCallFromU"
        BY <1>6 DEF InSyscall, kernel_at
    <2>2. Len(trapped) = 1
        BY <2>1, <1>3 DEF handle_fault
    <2> QED
        BY <1>4, <2>1, <2>2 DEF sysno, arg0, Regs
<1>7. CASE sys_unknown
    BY <1>6, <1>7, SyscallReturn DEF sys_unknown, Result, Results, locals
<1>8. CASE sys_write_einval
    BY <1>6, <1>8, SyscallReturn DEF sys_write_einval, Result, Results, locals
<1>9. CASE sys_write_ret
    <2>1. pc.at = "sys_write_ret" /\ syscall_return("len") /\ UNCHANGED <<uaccess, status>>
        BY <1>9 DEF sys_write_ret, kernel_at, locals
    <2>2. Len(trapped) = 1
        BY <1>1, <2>1, HandlerTraps DEF Handler
    <2>3. c.cause = "EnvCallFromU" /\ "len" = Result(c.regs)
        BY <1>4, <2>1, <2>2 DEF OneTrap, InCall, Result
    <2> QED
        BY <2>1, <2>2, <2>3, SyscallReturn DEF Results
<1>10. CASE sys_write
    <2>1. /\ InSyscall /\ sysno = "Write" /\ arg0 = "stdout" /\ pc' = At("ua_read")
          /\ uaccess' = [uaccess EXCEPT !.caller = "sys_write_ret"]
          /\ UNCHANGED <<mode, regs, sp, sscratch, sepc, scause, sstatus, mem, status, trapped>>
        BY <1>10 DEF sys_write, csrs
    <2>2. /\ Len(trapped) = 1 /\ c.cause = "EnvCallFromU" /\ pc.at = "handle_exception"
          /\ c.regs["a7"] = "Write" /\ c.regs["a0"] = "stdout"
        BY <1>6, <2>1
    <2>3. OneTrap(c) /\ First(c) /\ c \in Contexts /\ "SIE" \notin sstatus
        BY <2>2, InHandler
    <2>4. c.mode = "U"
        BY <2>2, <2>3, CausesAssumption DEF First, Contexts
    <2>5. pc' \in Pcs /\ pc'.at = "ua_read"
        BY <2>1, AtType DEF At, Labels, UserAccess
    <2>6. uaccess' \in [caller : {"loaded", "sys_write_ret"}, sstatus : SUBSET Flags]
          /\ uaccess'.caller = "sys_write_ret"
        BY <2>1 DEF IInv, TypeOK
    <2>7. TypeOK'
        BY <2>1, <2>5, <2>6 DEF IInv, TypeOK
    <2>8. First(c)'
        BY <2>1, <2>3, <2>4 DEF First
    <2>9. OneTrap(c)'
        BY <2>1, <2>2, <2>3, <2>4, <2>5, <2>6
           DEF OneTrap, Body, InCall, UserAccess, FrameOf, Previous, SavedRegs
    <2>10. mode' = "S" /\ "SIE" \notin sstatus' /\ Len(trapped') = 1
        BY <1>1, <2>1, <2>2, <2>3
    <2> QED
        BY <2>7, <2>8, <2>9, <2>10, StillInHandler
<1> QED
    BY <1>2, <1>5, <1>7, <1>8, <1>9, <1>10 DEF handle_exception

-----------------------------------------------------------------------------
(* Returning from a trap.                                                  *)

Resumption(c) ==
    /\ pc' = IF c.cause = "EnvCallFromU" THEN next_pc(c.pc) ELSE c.pc
    /\ mode' = c.mode
    /\ sp' = c.sp
    /\ c.sie <=> "SIE" \in sstatus'
    /\ \A r \in Regs \ {"t0"} : regs'[r] = Resumed(c, r)

LEMMA TrapExitStep ==
    ASSUME IInv, trap_exit
    PROVE  IInv' /\ Len(trapped) = 1 /\ Resumption(trapped[1])
<1> DEFINE c == trapped[1]
           top == [mem[sp].sp EXCEPT !.off = @ - 1]
<1>1. /\ mode = "S" /\ pc.at = "trap_exit" /\ pc' = sepc
      /\ regs' = [mem[sp].regs EXCEPT !["tp"] = regs["tp"], !["t0"] = spp_word]
      /\ sp' = (IF from_user THEN sscratch ELSE top)
      /\ sscratch' = (IF from_user THEN top ELSE sscratch)
      /\ mode' = (IF "SPP" \in sstatus THEN "S" ELSE "U")
      /\ sstatus' = (sstatus \ {"SPP", "SIE"}) \cup {"SPIE"}
                        \cup (IF "SPIE" \in sstatus THEN {"SIE"} ELSE {})
      /\ trapped' = Front(trapped)
      /\ UNCHANGED <<sepc, scause, mem, uaccess, status>>
    BY DEF trap_exit, sret, kernel_at, locals
<1>2. Len(trapped) = 1
    BY <1>1, HandlerTraps DEF Handler
<1>3. /\ c \in Contexts /\ "SIE" \notin sstatus /\ First(c) /\ OneTrap(c)
      /\ FrameOf(c) \in StackPointers
    BY <1>2, InHandler
<1>4. /\ sp = FrameOf(c) /\ (c.mode = "U" => sscratch = UserSp)
      /\ mem[sp].sp = sp /\ regs["tp"] = c.regs["tp"] /\ Previous(c)
      /\ \A r \in Regs \ {"t0"} : mem[sp].regs[r] = Resumed(c, r)
      /\ sepc = IF c.cause = "EnvCallFromU" THEN next_pc(c.pc) ELSE c.pc
    BY <1>1, <1>3 DEF OneTrap, Body, SavedRegs
<1>5. c.mode \in {"U", "S"}
    BY <1>3 DEF Contexts
<1>6. from_user <=> c.mode = "U"
    BY <1>4, <1>5 DEF Previous, from_user
<1>7. mode' = c.mode
    BY <1>1, <1>4, <1>5 DEF Previous
<1>8. c.mode = "U" => top = KernelSp /\ c.sp = UserSp
    BY <1>3, <1>4 DEF FrameOf, First, KernelSp
<1>9. c.mode = "S" => /\ top = c.sp /\ c.sp \in {UserSp, KernelSp}
                      /\ c.cause \in Irqs /\ MainAt(c.pc.at, c.sp)
    BY <1>3, <1>4 DEF FrameOf, First, MainAt, KernelSp, UserSp
<1>10. sp' = c.sp /\ (c.mode = "U" => sscratch' = KernelSp) /\ (c.mode = "S" => sscratch' = sscratch)
    BY <1>1, <1>4, <1>5, <1>6, <1>8, <1>9
<1>11. c.sie <=> "SIE" \in sstatus'
    <2>1. "SIE" \in sstatus' <=> "SPIE" \in sstatus
        BY <1>1
    <2>2. "SPIE" \in sstatus <=> c.sie
        BY <1>4 DEF Previous
    <2> QED
        BY <2>1, <2>2
<1>12. mem[sp].regs \in [Regs -> Words] /\ regs["tp"] \in Words /\ spp_word \in Words
    BY DEF IInv, TypeOK, Frames, Regs, Words, spp_word
<1>13. regs' \in [Regs -> Words] /\ \A r \in Regs \ {"t0"} : regs'[r] = Resumed(c, r)
    <2>1. Resumed(c, "tp") = c.regs["tp"]
        BY DEF Resumed
    <2>2. regs' \in [Regs -> Words]
        BY Zenon, <1>1, <1>12
    <2>3. \A r \in Regs \ {"t0", "tp"} : regs'[r] = mem[sp].regs[r]
        BY <1>1, <1>12
    <2>4. regs'["tp"] = regs["tp"]
        BY <1>1, <1>12 DEF Regs
    <2> QED
        BY <1>4, <2>1, <2>2, <2>3, <2>4
<1>14. Resumption(c)
    BY <1>1, <1>4, <1>7, <1>10, <1>11, <1>13 DEF Resumption
<1>15. trapped' \in Seq(Contexts) /\ Len(trapped') = 0
    <2>1. trapped \in Seq(Contexts) /\ Len(trapped) # 0
        BY <1>2 DEF IInv, TypeOK
    <2>2. Front(trapped) \in Seq(Contexts) /\ Len(Front(trapped)) = Len(trapped) - 1
        BY <2>1, FrontFacts
    <2> QED
        BY <1>1, <1>2, <2>2
<1>16. TypeOK'
    <2>1. sp' \in StackPointers /\ mode' \in {"U", "S"}
        BY <1>3, <1>5, <1>7, <1>10 DEF Contexts
    <2>2. sscratch' \in StackPointers
        BY <1>5, <1>10, MaxTrapsAssumption DEF IInv, TypeOK, KernelSp, StackPointers
    <2>3. sstatus' \subseteq Flags
        BY <1>1 DEF IInv, TypeOK, Flags
    <2> QED
        BY <1>1, <1>13, <1>15, <2>1, <2>2, <2>3, MaxTrapsAssumption DEF IInv, TypeOK
<1>17. NoTrap'
    <2>1. CASE c.mode = "U"
        BY <1>7, <1>8, <1>10, <2>1 DEF NoTrap
    <2>2. CASE c.mode = "S"
        <3>1. pc' = c.pc
            BY <1>1, <1>4, <1>9, <2>2, CausesAssumption
        <3>2. MainAt(pc.at, sp)'
            BY <1>1, <1>9, <1>10, <2>2, <3>1 DEF MainAt
        <3> QED
            BY <1>1, <1>7, <2>2, <3>2 DEF NoTrap
    <2> QED
        BY <1>5, <2>1, <2>2
<1> QED
    BY <1>2, <1>14, <1>15, <1>16, <1>17 DEF IInv, TrapInv

-----------------------------------------------------------------------------
(* with_user_access, in the loader and in sys_write, and enter_user.       *)

LEMMA UserAccessStep == IInv /\ with_user_access => IInv'
<1> SUFFICES ASSUME IInv, with_user_access PROVE IInv'
    OBVIOUS
<1>1. mode = "S" /\ pc.at \in UserAccess
    BY DEF with_user_access, ua_read, ua_set, ua_body, ua_restore, kernel_at, UserAccess
<1>2. /\ UNCHANGED <<mode, regs, sp, sscratch, sepc, scause, mem, status, trapped>>
      /\ uaccess'.caller = uaccess.caller
      /\ uaccess' \in [caller : {"loaded", "sys_write_ret"}, sstatus : SUBSET Flags]
    BY DEF with_user_access, ua_read, ua_set, ua_body, ua_restore, csrs, locals, IInv, TypeOK
<1>3. /\ pc' \in Pcs
      /\ pc.at = "ua_read" => pc'.at = "ua_set" /\ uaccess'.sstatus = sstatus /\ sstatus' = sstatus
      /\ pc.at = "ua_set" => /\ pc'.at = "ua_body" /\ uaccess' = uaccess
                             /\ sstatus' = sstatus \cup uaccess.sstatus \cup {"SUM"}
      /\ pc.at = "ua_body" => pc'.at = "ua_restore" /\ UNCHANGED <<uaccess, sstatus>>
      /\ pc.at = "ua_restore" => /\ pc'.at = uaccess.caller /\ uaccess' = uaccess
                                 /\ sstatus' = sstatus \cup uaccess.sstatus
    <2>1. CASE ua_read
        BY <2>1, AtType
           DEF ua_read, kernel_at, At, csrs, Labels, UserAccess, IInv, TypeOK
    <2>2. CASE ua_set
        BY <2>2, AtType DEF ua_set, kernel_at, At, set_sstatus, locals, Labels, UserAccess
    <2>3. CASE ua_body
        BY <2>3, AtType DEF ua_body, kernel_at, At, csrs, locals, Labels, UserAccess
    <2>4. CASE ua_restore
        BY <2>4, AtType
           DEF ua_restore, kernel_at, At, set_sstatus, locals, Labels, Handler, IInv, TypeOK
    <2> QED
        BY <2>1, <2>2, <2>3, <2>4 DEF with_user_access
<1>4. TypeOK'
    <2>1. sstatus' \subseteq Flags
        BY Zenon, <1>1, <1>3 DEF UserAccess, IInv, TypeOK, Flags
    <2> QED
        BY <1>2, <1>3, <2>1 DEF IInv, TypeOK
<1>5. CASE Len(trapped) = 0
    <2>1. MainAt(pc.at, sp)
        BY <1>1, <1>5 DEF IInv, TrapInv, NoTrap
    <2>2. uaccess.caller = "loaded" /\ sp = KernelSp
        BY <1>1, <2>1 DEF MainAt, UserAccess
    <2>3. pc'.at \in (UserAccess \cup {"loaded"})
        BY <1>1, <1>3, <2>2 DEF UserAccess
    <2>4. MainAt(pc.at, sp)'
        BY <1>2, <2>2, <2>3 DEF MainAt, MainLabels, UserAccess
    <2> QED
        BY <1>1, <1>2, <1>4, <1>5, <2>3, <2>4 DEF IInv, TrapInv, NoTrap, UserAccess
<1>6. CASE Len(trapped) = 1
    <2> DEFINE c == trapped[1]
    <2>1. OneTrap(c) /\ First(c) /\ "SIE" \notin sstatus
        BY <1>6, InHandler
    <2>2. /\ c.mode = "U" /\ uaccess.caller = "sys_write_ret"
          /\ pc.at # "ua_read" => uaccess.sstatus \ {"SUM"} \subseteq sstatus
        BY <1>1, <2>1 DEF OneTrap, InCall
    <2>3. /\ pc'.at \in InCall \ {"ua_read"}
          /\ \A f \in {"SIE", "SPIE", "SPP"} : f \in sstatus' <=> f \in sstatus
          /\ uaccess'.sstatus \ {"SUM"} \subseteq sstatus'
        BY <1>1, <1>3, <2>2 DEF UserAccess, InCall
    <2>4. First(c)'
        BY <1>2, <2>1, <2>2 DEF First
    <2>5. Previous(c)'
        BY <1>1, <1>2, <2>1, <2>3 DEF OneTrap, Body, InCall, Previous
    <2>6. SavedRegs(c, mem[sp])'
        <3>1. SavedRegs(c, mem[sp]) /\ pc.at # "trap_exit" /\ pc'.at # "trap_exit"
            BY <1>1, <2>1, <2>3 DEF OneTrap, Body, InCall, UserAccess
        <3> QED
            BY <1>2, <3>1 DEF SavedRegs
    <2>7. OneTrap(c)'
        BY <1>1, <1>2, <2>1, <2>2, <2>3, <2>5, <2>6, Zenon
           DEF OneTrap, Body, InCall, UserAccess, FrameOf
    <2>8. mode' = "S" /\ "SIE" \notin sstatus' /\ Len(trapped') = 1
        BY <1>1, <1>2, <1>6, <2>1, <2>3
    <2> QED
        BY <1>4, <2>4, <2>7, <2>8, StillInHandler
<1>7. CASE Len(trapped) > 1
    BY <1>1, <1>7 DEF IInv, TrapInv, NestedTraps, UserAccess
<1> QED
    BY <1>5, <1>6, <1>7, LenCases

LEMMA MainStep == IInv /\ (load \/ enter_user \/ start_user) => IInv'
<1> SUFFICES ASSUME IInv, load \/ enter_user \/ start_user PROVE IInv'
    OBVIOUS
<1>1. mode = "S" /\ pc.at \in {"kmain", "loaded"} \cup EnterUser
    BY DEF load, enter_user, start_user, eu_sepc, eu_sscratch, eu_read, eu_write, eu_swap,
           eu_sret, kernel_at, EnterUser
<1>2. Len(trapped) = 0
    <2>1. Len(trapped) # 1
        BY <1>1 DEF IInv, TrapInv, OneTrap, Body, InCall, UserAccess, EnterUser
    <2>2. ~(Len(trapped) > 1)
        BY <1>1 DEF IInv, TrapInv, NestedTraps, EnterUser
    <2> QED
        BY <2>1, <2>2, LenCases
<1>3. /\ MainAt(pc.at, sp)
      /\ pc.at \in {"eu_swap", "eu_sret"} => "SPP" \notin sstatus
    BY <1>1, <1>2 DEF IInv, TrapInv, NoTrap
<1>4. UNCHANGED <<regs, scause, mem, trapped>>
    BY DEF load, enter_user, start_user, eu_sepc, eu_sscratch, eu_read, eu_write, eu_swap,
           eu_sret, sret, csrs, locals
<1>5. ASSUME TypeOK', NoTrap' PROVE IInv'
    BY <1>2, <1>4, <1>5 DEF IInv, TrapInv
<1>6. \A l \in Labels : At(l) \in Pcs /\ At(l).at = l
    BY Zenon, AtType DEF At
<1>7. UserSp \in StackPointers
    BY MaxTrapsAssumption DEF UserSp, StackPointers
<1> USE DEF kernel_at, Labels, EnterUser, MainLabels, UserAccess
<1>8. CASE load
    <2>1. TypeOK' /\ uaccess'.caller = "loaded"
        BY <1>6, <1>8 DEF load, IInv, TypeOK, csrs
    <2>2. NoTrap'
        BY <1>3, <1>6, <1>8, <2>1 DEF load, NoTrap, MainAt, csrs
    <2> QED
        BY <1>5, <2>1, <2>2
<1>9. CASE enter_user
    <2>1. TypeOK'
        BY <1>6, <1>9 DEF enter_user, IInv, TypeOK, csrs, locals
    <2>2. NoTrap'
        BY <1>3, <1>6, <1>9 DEF enter_user, NoTrap, MainAt, csrs, locals
    <2> QED
        BY <1>5, <2>1, <2>2
<1>10. CASE eu_sepc
    <2>1. TypeOK'
        BY <1>6, <1>10 DEF eu_sepc, IInv, TypeOK, locals
    <2>2. NoTrap'
        BY <1>3, <1>6, <1>10 DEF eu_sepc, NoTrap, MainAt, locals
    <2> QED
        BY <1>5, <2>1, <2>2
<1>11. CASE eu_sscratch
    <2>1. TypeOK'
        BY <1>6, <1>7, <1>11 DEF eu_sscratch, IInv, TypeOK, locals
    <2>2. NoTrap'
        BY <1>3, <1>6, <1>11 DEF eu_sscratch, NoTrap, MainAt, locals
    <2> QED
        BY <1>5, <2>1, <2>2
<1>12. CASE eu_read
    <2>1. TypeOK'
        BY <1>6, <1>12 DEF eu_read, IInv, TypeOK, csrs, Flags
    <2>2. NoTrap'
        BY <1>3, <1>6, <1>12 DEF eu_read, NoTrap, MainAt, csrs
    <2> QED
        BY <1>5, <2>1, <2>2
<1>13. CASE eu_write
    <2>1. TypeOK'
        BY <1>6, <1>13 DEF eu_write, IInv, TypeOK, locals
    <2>2. NoTrap'
        BY <1>3, <1>6, <1>13 DEF eu_write, NoTrap, MainAt, locals
    <2> QED
        BY <1>5, <2>1, <2>2
<1>14. CASE eu_swap
    <2>1. TypeOK'
        BY <1>6, <1>14 DEF eu_swap, IInv, TypeOK, locals
    <2>2. NoTrap'
        BY <1>3, <1>6, <1>14 DEF eu_swap, NoTrap, MainAt, locals
    <2> QED
        BY <1>5, <2>1, <2>2
<1>15. CASE eu_sret
    <2>1. sstatus' \subseteq Flags
        BY <1>15 DEF eu_sret, sret, IInv, TypeOK, Flags
    <2>2. TypeOK'
        BY <1>15, <2>1 DEF eu_sret, sret, IInv, TypeOK, locals
    <2>3. NoTrap'
        BY <1>3, <1>15 DEF eu_sret, sret, NoTrap, MainAt
    <2> QED
        BY <1>5, <2>2, <2>3
<1> QED
    BY <1>8, <1>9, <1>10, <1>11, <1>12, <1>13, <1>14, <1>15 DEF start_user

-----------------------------------------------------------------------------
LEMMA StepInv == IInv /\ [Next]_vars => IInv'
<1> SUFFICES ASSUME IInv, [Next]_vars PROVE IInv'
    OBVIOUS
<1>1. CASE UNCHANGED vars
    <2>1. UNCHANGED <<pc, mode, regs, sp, sscratch, sepc, scause, sstatus, mem, uaccess,
                      status, trapped>>
        BY <1>1 DEF vars, csrs, locals
    <2>2. TypeOK'
        BY <2>1 DEF IInv, TypeOK
    <2>3. NoTrap => NoTrap'
        BY <2>1 DEF NoTrap, MainAt
    <2>4. First(trapped[1]) => First(trapped[1])'
        BY <2>1 DEF First, MainAt
    <2>5. Previous(trapped[1]) => Previous(trapped[1])'
        BY <2>1 DEF Previous
    <2>6. SavedRegs(trapped[1], mem[sp]) => SavedRegs(trapped[1], mem[sp])'
        BY <2>1 DEF SavedRegs
    <2>8. OneTrap(trapped[1]) => OneTrap(trapped[1])'
        BY Zenon, <2>1, <2>5, <2>6 DEF OneTrap, FrameOf
    <2>7. NestedTraps => NestedTraps'
        BY <2>1 DEF NestedTraps, NestedAt
    <2> QED
        BY <2>1, <2>2, <2>3, <2>4, <2>7, <2>8 DEF IInv, TrapInv
<1>2. CASE trap
    BY <1>2, TrapEntryStep, HandleExceptionStep, UnwindStep, TrapExitStep DEF trap
<1>3. CASE Kernel
    BY <1>2, <1>3, UserAccessStep, MainStep DEF Kernel
<1> QED
    BY <1>1, <1>3, InterruptStep, UserStep, UserAccessFault DEF Next

\* Every variable of the trap code keeps its type, whatever interrupts and faults
\* there are: no step pushes a frame beyond the bound or pops one too many.
THEOREM TypeCorrect == Spec => []TypeOK
BY InitInv, StepInv, PTL DEF Spec, IInv

\* The stacks are swapped consistently by trap.S and enter_user: user code runs
\* on its own stack with the kernel's in sscratch, a handler the other way round.
THEOREM StacksSwapped == Spec => []StackDiscipline
<1>1. IInv => StackDiscipline
    <2> SUFFICES ASSUME IInv PROVE StackDiscipline
        OBVIOUS
    <2>1. CASE Len(trapped) = 0
        <3>1. trapped = <<>> /\ NoTrap
            BY <2>1, EmptySeq DEF IInv, TypeOK, TrapInv
        <3> QED
            BY <3>1 DEF StackDiscipline, NoTrap
    <2>2. CASE Len(trapped) = 1
        <3>1. OneTrap(trapped[1]) /\ First(trapped[1]) /\ mode = "S"
            BY <2>2, InHandler
        <3>2. DOMAIN trapped = {1}
            BY <2>2 DEF IInv, TypeOK
        <3> QED
            BY <2>2, <3>1, <3>2 DEF StackDiscipline, OneTrap, First, FrameOf, kernel_at
    <2>3. CASE Len(trapped) > 1
        <3>1. NestedTraps /\ First(trapped[1]) /\ mode = "S"
            BY <2>3 DEF IInv, TrapInv
        <3>2. DOMAIN trapped = 1..Len(trapped) /\ Len(trapped) \in Nat
            BY DEF IInv, TypeOK
        <3>3. ASSUME NEW k \in DOMAIN trapped, trapped[k].mode = "U" PROVE k = 1
            <4>1. k \in 2..Len(trapped) => trapped[k].mode = "S"
                BY Zenon, <3>1 DEF NestedTraps, NestedAt
            <4>2. k \in 2..Len(trapped) \/ k = 1
                BY <3>2
            <4> QED
                BY <3>3, <4>1, <4>2
        <3>4. trapped[1].mode = "U" => sp.stack = "kernel" /\ sscratch = trapped[1].sp
            BY <3>1 DEF NestedTraps, First
        <3> QED
            BY Zenon, <3>1, <3>3, <3>4 DEF StackDiscipline
    <2> QED
        BY <2>1, <2>2, <2>3, LenCases
<1> QED
    BY <1>1, InitInv, StepInv, PTL DEF Spec

\* A handler is never interrupted. It faults only where sys_write reads the
\* user's buffer or the report of a fault follows the frame pointers, and so
\* for every trap of a pile of any height.
THEOREM NoNesting == Spec => []HandlerNotInterrupted
<1>1. IInv => HandlerNotInterrupted
    BY Zenon, NestingInv DEF HandlerNotInterrupted, NestedAt
<1> QED
    BY <1>1, InitInv, StepInv, PTL DEF Spec

\* A trap that returns gives the interrupted code its place, mode, stack,
\* interrupt enable and all registers but t0 back, with the result of a system
\* call in a0.
THEOREM TrapsTransparent == Spec => ContextResumed
<1> DEFINE A == Len(trapped') < Len(trapped) =>
           LET c == Last(trapped) IN
           /\ pc' = IF c.cause = "EnvCallFromU" THEN next_pc(c.pc) ELSE c.pc
           /\ mode' = c.mode
           /\ sp' = c.sp
           /\ c.sie <=> "SIE" \in sstatus'
           /\ \A r \in Regs \ {"t0"} : regs'[r] = Resumed(c, r)
<1>1. IInv /\ [Next]_vars => [A]_vars
    <2> SUFFICES ASSUME IInv, Next PROVE A
        OBVIOUS
    <2>1. CASE trap_exit
        BY Zenon, <2>1, TrapExitStep DEF Last, Resumption
    <2>2. CASE trapped' = trapped
        BY <2>2 DEF IInv, TypeOK
    <2>3. ASSUME NEW c, NEW r, hart_trap(c, r) PROVE A
        <3>1. Len(trapped') = Len(trapped) + 1 /\ Len(trapped) \in Nat
            BY <2>3 DEF hart_trap, IInv, TypeOK
        <3> QED
            BY <3>1
    <2>4. CASE interrupt \/ ua_fault \/ unwind_fault \/ (User /\ ~user_run)
        BY Zenon, <2>3, <2>4 DEF interrupt, ua_fault, unwind_fault, User, ecall, user_fault, fetch_fault
    <2>5. CASE user_run \/ (Kernel /\ ~trap_exit /\ ~unwind_fault)
        BY Zenon, <2>2, <2>5 DEF user_run, Kernel, trap, trap_entry, handle_exception, handle_irq,
           handle_fault, unwind_stack_frame, unwind_end, halt, return_to, syscall_return, sys_unknown, sys_exit,
           sys_write_einval, sys_write, sys_write_ret, with_user_access, ua_read, ua_set,
           ua_body, ua_restore, load, enter_user, start_user, eu_sepc, eu_sscratch, eu_read,
           eu_write, eu_swap, eu_sret
    <2> QED
        BY <2>1, <2>4, <2>5 DEF Next, User
<1> QED
    BY <1>1, InitInv, StepInv, PTL DEF Spec, ContextResumed
=============================================================================
