-------------------------------- MODULE Trap --------------------------------
(***************************************************************************)
(* Traps, system calls and the switch to user mode on the one running      *)
(* hart: trap.S, handle_exception, the system calls, with_user_access and  *)
(* enter_user. Interrupts arrive wherever the hart takes them, so between  *)
(* any two steps of kernel code that runs with SIE set.                    *)
(*                                                                         *)
(* trap.S itself runs with SIE clear and touches only the stack, so each   *)
(* half of it is one step; within a step, the order of the instructions is *)
(* kept. A stack pointer is a stack and the number of trap frames on it.   *)
(***************************************************************************)
EXTENDS Naturals, Sequences, SequencesExt

CONSTANTS
    Irqs,       \* the interrupt causes that may arrive
    Faults,     \* the exceptions user code may raise, ecall aside
    CodeLen,    \* instructions of the user program, which runs in a circle
    MaxTraps    \* bound: trap frames on a stack

ASSUME CodeLenAssumption == CodeLen \in Nat \ {0}

ASSUME MaxTrapsAssumption == MaxTraps \in Nat /\ MaxTraps >= 2

\* Interrupts and other exceptions have causes of their own.
ASSUME CausesAssumption ==
    /\ Irqs \intersect Faults = {}
    /\ (Irqs \cup Faults) \intersect {"EnvCallFromU", "InstrPageFault", "LoadPageFault"} = {}

VARIABLES
    pc,         \* next instruction: [at, i]; i only counts in user code
    mode,       \* privilege mode, "U" or "S"
    regs,       \* the general registers but sp
    sp,         \* the stack pointer
    sscratch, sepc, scause, sstatus,
    mem,        \* trap frames in memory, by their address
    uaccess,    \* with_user_access: its caller and its local `sstatus`
    status,     \* Sstatus::update: its local `v`
    trapped     \* ghost: the contexts interrupted and not resumed, oldest first

csrs == <<sscratch, sepc, scause, sstatus>>
locals == <<uaccess, status>>
vars == <<pc, mode, regs, sp, csrs, mem, locals, trapped>>

Flags == {"SIE", "SPIE", "SPP", "SUM"}

\* t0 is used by trap.S itself; a0 and a7 also stand for the other registers a
\* call may change, s0 for those it keeps; tp is saved but not restored.
Regs == {"t0", "a0", "a7", "s0", "tp"}
CallerSaved == {"t0", "a0", "a7"}

Sysnos == {"Write", "Exit", "Other"}
Fds == {"stdout", "fd"}
Results == {"len", "EINVAL", "ENOSYS"}

\* Where the frame pointers lead that user code may leave in s0: to a frame
\* that is not the kernel's or to an address no frame can have, to memory that
\* is not mapped, or back to where they came from through frames that look like
\* the kernel's.
FramePointers == {"user", "unmapped", "cycle"}

Words == {"kernel", "junk", "0", "SPP"} \cup FramePointers \cup Sysnos \cup Fds \cup Results

Causes == Irqs \cup Faults \cup {"EnvCallFromU", "InstrPageFault", "LoadPageFault"}

EnterUser == {"eu_sepc", "eu_sscratch", "eu_read", "eu_write", "eu_swap", "eu_sret"}
UserAccess == {"ua_read", "ua_set", "ua_body", "ua_restore"}
Handler == {"trap_entry", "handle_exception", "unwind", "sys_write_ret", "trap_exit"}
Labels == {"user", "kmain", "loaded", "halt"} \cup EnterUser \cup UserAccess \cup Handler

At(l) == [at |-> l, i |-> 0]
StackPointers == [stack : {"kernel", "user", "none"}, off : 0..MaxTraps]
KernelSp == [stack |-> "kernel", off |-> 0]
UserSp == [stack |-> "user", off |-> 0]
NoSp == [stack |-> "none", off |-> 0]

kernel_at(l) == mode = "S" /\ pc.at = l

\* The instruction after p.
next_pc(p) == [p EXCEPT !.i = (@ + 1) % CodeLen]

-----------------------------------------------------------------------------
(* The hart.                                                               *)

flags_after_trap ==
    (sstatus \ {"SIE", "SPIE", "SPP"})
        \cup (IF "SIE" \in sstatus THEN {"SPIE"} ELSE {})
        \cup (IF mode = "S" THEN {"SPP"} ELSE {})

\* The hart takes a trap with general registers r.
hart_trap(c, r) ==
    /\ trapped' = Append(trapped, [pc |-> pc, mode |-> mode, sp |-> sp, regs |-> r,
                                   sie |-> "SIE" \in sstatus, cause |-> c])
    /\ pc' = At("trap_entry")
    /\ mode' = "S"
    /\ regs' = r
    /\ sepc' = pc
    /\ scause' = c
    /\ sstatus' = flags_after_trap
    /\ UNCHANGED <<sp, sscratch, mem, locals>>

sret ==
    /\ pc' = sepc
    /\ mode' = IF "SPP" \in sstatus THEN "S" ELSE "U"
    /\ sstatus' = (sstatus \ {"SPP", "SIE"}) \cup {"SPIE"}
                      \cup (IF "SPIE" \in sstatus THEN {"SIE"} ELSE {})
    /\ UNCHANGED <<sepc, scause>>

interrupt ==
    /\ mode = "U" \/ "SIE" \in sstatus
    /\ \E c \in Irqs : hart_trap(c, regs)

-----------------------------------------------------------------------------
(* User code. Kernel pages are not executable in user mode.                *)

InUser == mode = "U" /\ pc.at = "user"

user_run ==
    /\ InUser
    /\ \E fp \in FramePointers :
           regs' = [r \in Regs |-> IF r = "s0" THEN fp ELSE "user"]
    /\ pc' = next_pc(pc)
    /\ UNCHANGED <<mode, sp, csrs, mem, locals, trapped>>

ecall ==
    /\ InUser
    /\ \E n \in Sysnos, fd \in Fds :
           hart_trap("EnvCallFromU", [regs EXCEPT !["a7"] = n, !["a0"] = fd])

user_fault ==
    /\ InUser
    /\ \E c \in Faults : hart_trap(c, regs)

fetch_fault ==
    /\ mode = "U"
    /\ pc.at # "user"
    /\ hart_trap("InstrPageFault", regs)

-----------------------------------------------------------------------------
(* trap.S.                                                                 *)

from_user == "SPP" \notin sstatus

spp_word == IF from_user THEN "0" ELSE "SPP"

\* t0 holds the SPP bit by the time it is saved; the saved sp is the address of
\* the frame. A store to the user stack needs SUM, which is set from the first
\* copy of the loader on.
trap_entry ==
    /\ kernel_at("trap_entry")
    /\ LET top == IF from_user THEN sscratch ELSE sp
           frame == [top EXCEPT !.off = @ + 1]
       IN  /\ sp' = frame
           /\ sscratch' = IF from_user THEN sp ELSE sscratch
           /\ regs' = [regs EXCEPT !["t0"] = spp_word]
           /\ mem' = [mem EXCEPT ![frame] = [regs |-> regs', sp |-> frame]]
    /\ pc' = At("handle_exception")
    /\ UNCHANGED <<mode, sepc, scause, sstatus, locals, trapped>>

\* Mutant: the kernel stack is not put back into sscratch.
trap_exit_keep ==
    /\ kernel_at("trap_exit")
    /\ regs' = [mem[sp].regs EXCEPT !["tp"] = regs["tp"], !["t0"] = spp_word]
    /\ sp' = IF from_user THEN sscratch ELSE [mem[sp].sp EXCEPT !.off = @ - 1]
    /\ sret
    /\ trapped' = Front(trapped)
    /\ UNCHANGED <<sscratch, mem, locals>>

\* Everything but tp is loaded from the frame; then t0 is used for the SPP bit.
trap_exit ==
    /\ kernel_at("trap_exit")
    /\ regs' = [mem[sp].regs EXCEPT !["tp"] = regs["tp"], !["t0"] = spp_word]
    /\ LET top == [mem[sp].sp EXCEPT !.off = @ - 1]
       IN  /\ sp' = IF from_user THEN sscratch ELSE top
           /\ sscratch' = IF from_user THEN top ELSE sscratch
    /\ sret
    /\ trapped' = Front(trapped)
    /\ UNCHANGED <<mem, locals>>

-----------------------------------------------------------------------------
(* handle_exception and the system calls. The handler returns the address  *)
(* to resume at, which trap.S writes to sepc.                              *)

\* The registers within a function of the kernel.
InKernel == [regs EXCEPT !["s0"] = "kernel"]

clobbered == [r \in Regs |-> IF r \in CallerSaved THEN "junk" ELSE regs[r]]

return_to(epc) ==
    /\ sepc' = epc
    /\ regs' = clobbered
    /\ pc' = At("trap_exit")
    /\ UNCHANGED <<mode, sp, sscratch, scause, sstatus, trapped>>

\* Interrupts are disabled for good; the hart then waits forever.
halt ==
    /\ pc' = At("halt")
    /\ sstatus' = sstatus \ {"SIE"}
    /\ UNCHANGED <<mode, regs, sp, sscratch, sepc, scause, mem, locals, trapped>>

\* Mutant: the handler enables interrupts before it returns.
handle_irq_enable ==
    /\ kernel_at("handle_exception")
    /\ scause \in Irqs
    /\ sstatus' = sstatus \cup {"SIE"}
    /\ regs' = clobbered
    /\ pc' = At("trap_exit")
    /\ UNCHANGED <<mode, sp, sscratch, sepc, scause, mem, locals, trapped>>

handle_irq ==
    /\ kernel_at("handle_exception")
    /\ scause \in Irqs
    /\ return_to(sepc)
    /\ UNCHANGED <<mem, locals>>

\* Mutant: the faulting instruction is tried again.
handle_fault_retry ==
    /\ kernel_at("handle_exception")
    /\ scause \notin Irqs \cup {"EnvCallFromU"}
    /\ return_to(sepc)
    /\ UNCHANGED <<mem, locals>>

\* The fault is reported, ending with the call trace.
handle_fault ==
    /\ kernel_at("handle_exception")
    /\ scause \notin Irqs \cup {"EnvCallFromU"}
    /\ pc' = At("unwind")
    /\ UNCHANGED <<mode, regs, sp, csrs, mem, locals, trapped>>

\* unwind_stack_frame. Every handler's frame leads to the code it interrupted,
\* so the walk passes the kernel's own frames and reaches what the outermost
\* trap found in s0. Kernel code has "kernel" there: frames that end in kmain's.
fp == mem[[sp EXCEPT !.off = 1]].regs["s0"]
readable == fp = "kernel" \/ (fp # "unmapped" /\ "SUM" \in sstatus)

\* The trace ends at a return address outside the kernel's text, or panics on
\* the address; either way the hart halts.
unwind_end ==
    /\ kernel_at("unwind")
    /\ readable
    /\ fp # "cycle"
    /\ halt

\* The load of the frame faults. No trace ends and none faults on a cycle.
unwind_fault ==
    /\ kernel_at("unwind")
    /\ ~readable
    /\ Len(trapped) < MaxTraps
    /\ hart_trap("LoadPageFault", InKernel)

\* Mutant: the program resumes at the ecall itself.
syscall_return_again(ret) ==
    /\ mem' = [mem EXCEPT ![sp].regs["a0"] = ret]
    /\ return_to(sepc)

\* The frame is the handler's `tf`. ret is what a0 gets.
syscall_return(ret) ==
    /\ mem' = [mem EXCEPT ![sp].regs["a0"] = ret]
    /\ return_to(next_pc(sepc))

InSyscall == kernel_at("handle_exception") /\ scause = "EnvCallFromU"
sysno == mem[sp].regs["a7"]
arg0 == mem[sp].regs["a0"]

sys_unknown ==
    /\ InSyscall
    /\ sysno \notin {"Write", "Exit"}
    /\ syscall_return("ENOSYS")
    /\ UNCHANGED locals

sys_exit ==
    /\ InSyscall
    /\ sysno = "Exit"
    /\ halt

sys_write_einval ==
    /\ InSyscall
    /\ sysno = "Write"
    /\ arg0 # "stdout"
    /\ syscall_return("EINVAL")
    /\ UNCHANGED locals

sys_write ==
    /\ InSyscall
    /\ sysno = "Write"
    /\ arg0 = "stdout"
    /\ pc' = At("ua_read")
    /\ uaccess' = [uaccess EXCEPT !.caller = "sys_write_ret"]
    /\ UNCHANGED <<mode, regs, sp, csrs, mem, status, trapped>>

\* The handler's `epc` is still in sepc: no trap inside the call returns.
sys_write_ret ==
    /\ kernel_at("sys_write_ret")
    /\ syscall_return("len")
    /\ UNCHANGED locals

handle_exception ==
    handle_irq \/ handle_fault \/ sys_unknown \/ sys_exit \/ sys_write_einval \/ sys_write

-----------------------------------------------------------------------------
(* with_user_access. Sstatus::set only ever sets bits.                     *)

set_sstatus(bits) == sstatus' = sstatus \cup bits

ua_read ==
    /\ kernel_at("ua_read")
    /\ uaccess' = [uaccess EXCEPT !.sstatus = sstatus]
    /\ pc' = At("ua_set")
    /\ UNCHANGED <<mode, regs, sp, csrs, mem, status, trapped>>

ua_set ==
    /\ kernel_at("ua_set")
    /\ set_sstatus(uaccess.sstatus \cup {"SUM"})
    /\ pc' = At("ua_body")
    /\ UNCHANGED <<mode, regs, sp, sscratch, sepc, scause, mem, locals, trapped>>

ua_body ==
    /\ kernel_at("ua_body")
    /\ pc' = At("ua_restore")
    /\ UNCHANGED <<mode, regs, sp, csrs, mem, locals, trapped>>

\* The buffer of a write is not mapped. The loader's pages always are.
ua_fault ==
    /\ kernel_at("ua_body")
    /\ uaccess.caller = "sys_write_ret"
    /\ hart_trap("LoadPageFault", InKernel)

ua_restore ==
    /\ kernel_at("ua_restore")
    /\ set_sstatus(uaccess.sstatus)
    /\ pc' = At(uaccess.caller)
    /\ UNCHANGED <<mode, regs, sp, sscratch, sepc, scause, mem, locals, trapped>>

-----------------------------------------------------------------------------
(* The kernel's own thread: exec loads the image, which accesses user      *)
(* memory at least once, and enters user mode. It never comes back, so     *)
(* traps from user mode reuse its stack.                                   *)

load ==
    /\ kernel_at("kmain") \/ kernel_at("loaded")
    /\ pc' = At("ua_read")
    /\ uaccess' = [uaccess EXCEPT !.caller = "loaded"]
    /\ UNCHANGED <<mode, regs, sp, csrs, mem, status, trapped>>

enter_user ==
    /\ kernel_at("loaded")
    /\ pc' = At("eu_sepc")
    /\ UNCHANGED <<mode, regs, sp, csrs, mem, locals, trapped>>

eu_sepc ==
    /\ kernel_at("eu_sepc")
    /\ sepc' = At("user")
    /\ pc' = At("eu_sscratch")
    /\ UNCHANGED <<mode, regs, sp, sscratch, scause, sstatus, mem, locals, trapped>>

eu_sscratch ==
    /\ kernel_at("eu_sscratch")
    /\ sscratch' = UserSp
    /\ pc' = At("eu_read")
    /\ UNCHANGED <<mode, regs, sp, sepc, scause, sstatus, mem, locals, trapped>>

eu_read ==
    /\ kernel_at("eu_read")
    /\ status' = (sstatus \ {"SPP"}) \cup {"SPIE"}
    /\ pc' = At("eu_write")
    /\ UNCHANGED <<mode, regs, sp, csrs, mem, uaccess, trapped>>

eu_write ==
    /\ kernel_at("eu_write")
    /\ sstatus' = status
    /\ pc' = At("eu_swap")
    /\ UNCHANGED <<mode, regs, sp, sscratch, sepc, scause, mem, locals, trapped>>

eu_swap ==
    /\ kernel_at("eu_swap")
    /\ sp' = sscratch
    /\ sscratch' = sp
    /\ pc' = At("eu_sret")
    /\ UNCHANGED <<mode, regs, sepc, scause, sstatus, mem, locals, trapped>>

eu_sret ==
    /\ kernel_at("eu_sret")
    /\ sret
    /\ UNCHANGED <<regs, sp, sscratch, mem, locals, trapped>>

-----------------------------------------------------------------------------
Init ==
    /\ pc = At("kmain")
    /\ mode = "S"
    /\ regs = [r \in Regs |-> "kernel"]
    /\ sp = KernelSp
    /\ sscratch = NoSp
    /\ sepc = At("kmain")
    /\ scause = "InstrPageFault"
    /\ sstatus \in {f \in SUBSET Flags : "SIE" \in f /\ "SUM" \notin f}
    /\ mem = [a \in StackPointers |-> [regs |-> regs, sp |-> a]]
    /\ uaccess = [caller |-> "loaded", sstatus |-> {}]
    /\ status = {}
    /\ trapped = <<>>

unwind_stack_frame == unwind_end \/ unwind_fault

trap == trap_entry \/ handle_exception \/ unwind_stack_frame \/ sys_write_ret \/ trap_exit

with_user_access == ua_read \/ ua_set \/ ua_body \/ ua_restore

start_user == eu_sepc \/ eu_sscratch \/ eu_read \/ eu_write \/ eu_swap \/ eu_sret

\* What the hart does by itself when it runs kernel code.
Kernel ==
    \/ trap
    \/ with_user_access
    \/ load
    \/ enter_user
    \/ start_user

User == user_run \/ ecall \/ user_fault \/ fetch_fault

\* Nothing follows a halt.
Next == interrupt \/ User \/ ua_fault \/ Kernel

Spec == Init /\ [][Next]_vars

\* The hart does not stop in the middle of a trap handler.
FairSpec == Spec /\ WF_vars(trap \/ with_user_access)

-----------------------------------------------------------------------------
Frames == [regs : [Regs -> Words], sp : StackPointers]
Pcs == [at : Labels, i : 0..(CodeLen - 1)]
Contexts == [pc : Pcs, mode : {"U", "S"}, sp : StackPointers, regs : [Regs -> Words],
             sie : BOOLEAN, cause : Causes]

\* Every variable has its type.
TypeOK ==
    /\ pc \in Pcs /\ sepc \in Pcs
    /\ mode \in {"U", "S"}
    /\ regs \in [Regs -> Words]
    /\ sp \in StackPointers /\ sscratch \in StackPointers
    /\ scause \in Causes
    /\ sstatus \subseteq Flags /\ status \subseteq Flags
    /\ mem \in [StackPointers -> Frames]
    /\ uaccess \in [caller : {"loaded", "sys_write_ret"}, sstatus : SUBSET Flags]
    /\ trapped \in Seq(Contexts) /\ Len(trapped) <= MaxTraps

\* User code runs with its own stack, and then sscratch holds the kernel stack
\* with nothing on it. Once trap_entry has run for a trap from user mode, the
\* hart is on the kernel stack and sscratch holds the user's stack pointer.
StackDiscipline ==
    /\ mode = "U" => sp = UserSp /\ sscratch = KernelSp /\ trapped = <<>>
    /\ \A k \in DOMAIN trapped :
           trapped[k].mode = "U" =>
               /\ k = 1
               /\ \/ kernel_at("trap_entry") /\ Len(trapped) = 1
                  \/ sp.stack = "kernel" /\ sscratch = trapped[1].sp

\* No interrupt is taken while a trap is being handled, and the handler faults
\* in two places only: a system call where sys_write reads the user's buffer,
\* and the report of a fault where it follows the frame pointers.
HandlerNotInterrupted ==
    \A k \in 2..Len(trapped) :
        /\ trapped[k].cause = "LoadPageFault"
        /\ trapped[k].mode = "S"
        /\ IF trapped[k - 1].cause = "EnvCallFromU"
           THEN trapped[k].pc.at = "ua_body"
           ELSE trapped[k - 1].cause \notin Irqs /\ trapped[k].pc.at = "unwind"

\* What a system call leaves in a0.
Result(r) == IF r["a7"] # "Write" THEN "ENOSYS"
             ELSE IF r["a0"] = "stdout" THEN "len" ELSE "EINVAL"

\* The value of register r after context c was resumed.
Resumed(c, r) == IF c.cause = "EnvCallFromU" /\ r = "a0" THEN Result(c.regs) ELSE c.regs[r]

\* A trap that returns resumes the latest interrupted context, in its mode, on
\* its stack, with its interrupt enable and its registers but t0: after an
\* interrupt at the same instruction, after a system call at the next one and
\* with the result in a0.
ContextResumed ==
    [][Len(trapped') < Len(trapped) =>
           LET c == Last(trapped) IN
           /\ pc' = IF c.cause = "EnvCallFromU" THEN next_pc(c.pc) ELSE c.pc
           /\ mode' = c.mode
           /\ sp' = c.sp
           /\ c.sie <=> "SIE" \in sstatus'
           /\ \A r \in Regs \ {"t0"} : regs'[r] = Resumed(c, r)]_vars

\* A fault is reported and the frame pointers of the user code it came from
\* lead to no end: each trace faults again, or goes on.
TraceLost ==
    /\ trapped # <<>>
    /\ trapped[1].regs["s0"] \in {"unmapped", "cycle"}
    /\ Last(trapped).cause \notin Irqs \cup {"EnvCallFromU"}

\* Every trap ends: the interrupted code is resumed or the hart is halted. The
\* one way around is a fault whose call trace never ends.
TrapsEnd == trapped # <<>> ~> trapped = <<>> \/ pc.at = "halt" \/ TraceLost

-----------------------------------------------------------------------------
(* What comments of the code say and the code does not do.                 *)

\* trap.S:8-9: a trap restores the registers it saved, t0 included.
RegistersRestored ==
    [][Len(trapped') < Len(trapped) =>
           \A r \in Regs : regs'[r] = Resumed(Last(trapped), r)]_vars

\* proc/mod.rs:92-93: enter_user starts the process at its entry point, also if
\* an interrupt arrives on the way.
StartsAtEntry == [][kernel_at("eu_sret") /\ mode' = "U" => pc' = At("user")]_vars

\* uaccess.rs:18-19: with_user_access disables user access again, restoring the
\* state it found.
UserAccessRestored ==
    [][kernel_at("ua_restore") /\ pc'.at = uaccess.caller =>
           ("SUM" \in sstatus' <=> "SUM" \in uaccess.sstatus)]_vars

=============================================================================
