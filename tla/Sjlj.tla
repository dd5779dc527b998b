-------------------------------- MODULE Sjlj -------------------------------
(***************************************************************************)
(* What setjmp and longjmp promise to the compiled PostgreSQL: a longjmp   *)
(* takes every frame above the one that called setjmp off the stack in one *)
(* step, and that frame goes on with its own stack pointer.  A longjmp to  *)
(* a frame that is gone leaves the exported function, and the host is told *)
(* so.                                                                     *)
(***************************************************************************)
EXTENDS Integers, Sequences

CONSTANTS
    Exports,   \* the functions the host calls
    MaxDepth   \* a bound on the number of frames

VARIABLES
    calls,    \* the functions each function may call
    owners,   \* the functions that call setjmp
    jumpers,  \* the functions that call longjmp
    alloc,    \* the functions that keep data on the shadow stack
    stack,    \* the frames, each with its function and the stack pointer it found
    sp,       \* how much of the shadow stack is in use
    told      \* what the host's last call came to

sjljVars == <<calls, owners, jumpers, alloc, stack, sp, told>>

Top == stack[Len(stack)]
Used(fr) == IF fr.fn \in alloc THEN fr.sp + 1 ELSE fr.sp
Push(f) ==
    /\ stack' = Append(stack, [fn |-> f, sp |-> sp])
    /\ sp' = IF f \in alloc THEN sp + 1 ELSE sp
Emptied(what) == stack' = <<>> /\ sp' = 0 /\ told' = what
Program == <<calls, owners, jumpers, alloc>>

Init == stack = <<>> /\ sp = 0 /\ told = "nothing"

HostCall(f) ==
    /\ stack = <<>>
    /\ Push(f)
    /\ told' = "nothing"

Call(f) ==
    /\ stack # <<>> /\ Len(stack) < MaxDepth
    /\ f \in calls[Top.fn]
    /\ Push(f)
    /\ UNCHANGED told

Return ==
    /\ stack # <<>>
    /\ IF Len(stack) = 1 THEN Emptied("returned")
       ELSE /\ stack' = SubSeq(stack, 1, Len(stack) - 1)
            /\ sp' = Top.sp
            /\ UNCHANGED told

\* To the frame i, a live one.
LongJmp(i) ==
    /\ stack # <<>> /\ Top.fn \in jumpers
    /\ i \in 1 .. Len(stack) - 1 /\ stack[i].fn \in owners
    /\ stack' = SubSeq(stack, 1, i)
    /\ sp' = Used(stack[i])
    /\ UNCHANGED told

LongJmpOut ==
    /\ stack # <<>> /\ Top.fn \in jumpers
    /\ Emptied("longjmp")

Exit == stack # <<>> /\ Emptied("exit")

Next ==
    /\ \/ \E f \in Exports : HostCall(f)
       \/ stack # <<>> /\ \E f \in calls[Top.fn] : Call(f)
       \/ Return
       \/ \E i \in 1 .. MaxDepth : LongJmp(i)
       \/ LongJmpOut
       \/ Exit
    /\ UNCHANGED Program

Spec == Init /\ [][Next]_sjljVars
============================================================================
