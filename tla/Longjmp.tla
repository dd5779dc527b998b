------------------------------- MODULE Longjmp -----------------------------
(***************************************************************************)
(* longjmp on the two kinds of backend.                                    *)
(*                                                                         *)
(*   engine  wasmtime and wazero: the import _emscripten_throw_longjmp     *)
(*           traps, invoke_* catches the trap, restores the stack pointer  *)
(*           and lets the caller look at __THREW__.                        *)
(*   aot     the transpiled module: the import only returns, invoke_* only *)
(*           calls, and the guards that wasmpass put after calls make every*)
(*           frame return while __THREW__ is set.                          *)
(*                                                                         *)
(* Both do what module Sjlj promises.  The compiled code around invoke_    *)
(* and the function setThrew come from Emscripten.  A longjmp is named by  *)
(* the position of the frame it is for, or Dead if that frame is gone.     *)
(***************************************************************************)
EXTENDS MayLongjmp, Sequences

CONSTANTS
    Backends,  \* {"engine", "aot"} or a part of it
    Exports,   \* the functions that the host calls with CallExportRaw
    MaxDepth,  \* a bound on the number of frames of the program
    MaxSp      \* a bound on the shadow stack

ASSUME LongjmpAssumption ==
    /\ Backends \subseteq {"engine", "aot"}
    /\ Exports \subseteq Funcs \ {Jumper}
    /\ MaxDepth \in Nat \ {0} /\ MaxSp \in Nat

VARIABLES
    backend,
    stack,   \* the frames
    back,    \* the call that the top frame waited for has come back
    sp,      \* __stack_pointer, as the words in use
    threw,   \* __THREW__
    told,    \* how the last call of an export ended
    jump     \* the longjmp in progress; no code reads it

runVars == <<backend, stack, back, sp, threw, told, jump>>
vars == <<passVars, runVars>>

NoJump == 0
Dead == MaxDepth + 1
Running == [kind |-> "running", to |-> Jumper]
Sites == {Running} \union [kind : {"call", "indirect", "invoke", "seed"}, to : Funcs]

\* A frame: the call it waits for, the stack pointer it found, and the one that
\* makeInvoke saved. Jumper only calls the import.
Frames ==
    {fr \in [fn : Funcs, at : Sites, sp : 0 .. MaxSp, saved : 0 .. MaxSp] :
        fr.fn = Jumper => fr.at.kind \in {"running", "seed"}}

TypeOK ==
    /\ PassTypeOK
    /\ backend \in Backends
    /\ stack \in Seq(Frames) /\ Len(stack) <= MaxDepth + 1
    /\ back \in BOOLEAN
    /\ sp \in 0 .. MaxSp
    /\ threw \in NoJump .. Dead
    /\ told \in {"nothing", "returned", "longjmp", "exit"}
    /\ jump \in NoJump .. Dead

Init ==
    /\ PassInit
    /\ backend \in Backends
    /\ stack = <<>> /\ back = FALSE /\ sp = 0
    /\ threw = NoJump /\ told = "nothing" /\ jump = NoJump

Pass == PassNext /\ UNCHANGED runVars

----------------------------------------------------------------------------

Depth == Len(stack)
Top == stack[Depth]
IsRunning == stack # <<>> /\ Top.at = Running
InTop(fr) == [stack EXCEPT ![Depth] = fr]
writesSP(f) == f \in prog.alloc
Used(fr) == IF writesSP(fr.fn) THEN fr.sp + 1 ELSE fr.sp

\* The prologue of f moves the stack pointer, if f has something to keep there.
Push(frames, f) ==
    /\ (IF writesSP(f) THEN sp + 1 ELSE sp) <= MaxSp
    /\ stack' = Append(frames, [fn |-> f, at |-> Running, sp |-> sp, saved |-> 0])
    /\ sp' = IF writesSP(f) THEN sp + 1 ELSE sp
    /\ back' = FALSE

setThrew(env) == threw' = IF threw = NoJump THEN env ELSE threw

\* CallExportRaw as it would be if __THREW__ were left alone.
LeaveWithoutClearing ==
    /\ told' = IF threw = NoJump THEN "returned" ELSE "longjmp"
    /\ UNCHANGED threw

\* What CallExportRaw makes of an export that has returned. On aot it is a longjmp
\* if __THREW__ is set, and the flag is cleared.
Leave ==
    IF backend = "aot"
    THEN /\ told' = IF threw = NoJump THEN "returned" ELSE "longjmp"
         /\ threw' = NoJump
    ELSE told' = "returned" /\ UNCHANGED threw

\* The top frame is done, and leaves the stack pointer at s.
Pop(s) ==
    /\ stack' = SubSeq(stack, 1, Depth - 1)
    /\ sp' = s
    /\ IF Depth = 1
       THEN back' = FALSE /\ Leave /\ jump' = NoJump
       ELSE back' = TRUE /\ UNCHANGED <<told, threw, jump>>

CallExportRaw(f) ==
    /\ PassDone /\ stack = <<>>
    /\ Push(<<>>, f)
    /\ told' = "nothing"
    /\ UNCHANGED <<backend, threw, jump>>

----------------------------------------------------------------------------
(* What a function does.                                                   *)

Calling(kind, f, saved) ==
    /\ IsRunning /\ Depth < MaxDepth
    /\ Push(InTop([Top EXCEPT !.at = [kind |-> kind, to |-> f], !.saved = saved]), f)
    /\ UNCHANGED <<backend, told, jump>>

Call(f) == f # Jumper /\ f \in prog.calls[Top.fn] /\ Calling("call", f, 0) /\ UNCHANGED threw

CallIndirect(f) ==
    /\ Top.fn \in prog.indirect /\ f \in Table
    /\ Calling("indirect", f, 0)
    /\ UNCHANGED threw

\* A call through invoke_, which saves the stack pointer on an engine. The caller has
\* cleared __THREW__ before.
Invoke(f) ==
    /\ Top.fn \in prog.owners /\ f \in Table
    /\ Calling("invoke", f, IF backend = "engine" THEN sp ELSE 0)
    /\ threw' = NoJump

Return == IsRunning /\ Top.fn # Jumper /\ Pop(Top.sp) /\ UNCHANGED backend

\* longjmp, for the frame at env: emscripten_longjmp calls setThrew. Its frame may
\* come on top of the deepest one.
LongJmp(env) ==
    /\ IsRunning /\ Top.fn \notin prog.owners /\ Jumper \in prog.calls[Top.fn]
    /\ env # Dead => env \in 1 .. Depth - 1 /\ stack[env].fn \in prog.owners
    /\ Push(InTop([Top EXCEPT !.at = [kind |-> "call", to |-> Jumper]]), Jumper)
    /\ setThrew(env) /\ jump' = env
    /\ UNCHANGED <<backend, told>>

\* exit() ends every frame, by a trap or a panic, and restores nothing.
Exit ==
    /\ IsRunning /\ Top.fn # Jumper
    /\ stack' = <<>> /\ back' = FALSE
    /\ told' = "exit"
    /\ UNCHANGED <<backend, sp, threw, jump>>

----------------------------------------------------------------------------
(* What unwinds.                                                           *)

Throwing == IsRunning /\ Top.fn = Jumper
Invoking == {i \in 1 .. Depth : stack[i].at.kind = "invoke"}

\* makeInvoke catches the trap.
Catch(i) ==
    /\ stack' = SubSeq(stack, 1, i) /\ back' = TRUE
    /\ sp' = stack[i].saved
    /\ setThrew(1)
    /\ UNCHANGED <<told, jump>>

\* _emscripten_throw_longjmp on an engine: the innermost invoke_ has it, or the host.
Trap ==
    /\ Throwing /\ backend = "engine"
    /\ \/ \E i \in Invoking : (\A j \in Invoking : j <= i) /\ Catch(i)
       \/ /\ Invoking = {}
          /\ stack' = <<>> /\ back' = FALSE /\ told' = "longjmp" /\ jump' = NoJump
          /\ UNCHANGED <<sp, threw>>
    /\ UNCHANGED backend

\* _emscripten_throw_longjmp of the transpiled module.
NoTrap ==
    /\ Throwing /\ backend = "aot"
    /\ stack' = InTop([Top EXCEPT !.at = [kind |-> "seed", to |-> Jumper]])
    /\ back' = TRUE
    /\ UNCHANGED <<backend, sp, threw, told, jump>>

WaitsFor(kinds) == back /\ Top.at.kind \in kinds

\* A guard that does not restore the stack pointer.
GuardKeepingSP ==
    /\ WaitsFor({"call", "indirect", "seed"}) /\ backend = "aot"
    /\ Guarded(Top.at) /\ threw # NoJump
    /\ Pop(sp)
    /\ UNCHANGED backend

\* The guard returns, with the stack pointer that the function found.
Guard ==
    /\ WaitsFor({"call", "indirect", "seed"}) /\ backend = "aot"
    /\ Guarded(Top.at) /\ threw # NoJump
    /\ Pop(IF writesSP(Top.fn) THEN Top.sp ELSE sp)
    /\ UNCHANGED backend

Resume == stack' = InTop([Top EXCEPT !.at = Running]) /\ back' = FALSE

Continue ==
    /\ WaitsFor({"call", "indirect", "seed"})
    /\ backend = "aot" /\ Guarded(Top.at) => threw = NoJump
    /\ Resume
    /\ UNCHANGED <<backend, sp, threw, told, jump>>

\* The code after invoke_: it takes and clears __THREW__; a longjmp for another frame
\* it passes on.
AfterInvoke ==
    /\ WaitsFor({"invoke"})
    /\ IF threw \in {NoJump, Depth}
       THEN /\ Resume
            /\ threw' = NoJump
            /\ jump' = IF threw = Depth THEN NoJump ELSE jump
            /\ UNCHANGED sp
       ELSE /\ Push(InTop([Top EXCEPT !.at = [kind |-> "call", to |-> Jumper]]), Jumper)
            /\ UNCHANGED <<threw, jump>>
    /\ UNCHANGED <<backend, told>>

Unwind == Trap \/ NoTrap \/ Guard \/ Continue \/ AfterInvoke

Next ==
    \/ Pass
    \/ /\ \/ \E f \in Exports : CallExportRaw(f)
          \/ stack # <<>> /\ \E f \in Funcs : Call(f) \/ CallIndirect(f) \/ Invoke(f)
          \/ Return
          \/ \E env \in 1 .. Dead : LongJmp(env)
          \/ Exit
          \/ Unwind
       /\ UNCHANGED passVars

\* The program runs on: nothing waits between a call and its caller.
Spec == Init /\ [][Next]_vars /\ WF_vars(Unwind /\ UNCHANGED passVars)

----------------------------------------------------------------------------

\* docs/wasm2go-migration.md: "each intermediate frame early-returns while __THREW__ is
\* set". No frame without a guard gets a call back while it is set, except the owner
\* at its invoke_, and the flag is never left over from an earlier longjmp.
NoFrameMissed ==
    backend = "aot" =>
        /\ back /\ threw # NoJump => Guarded(Top.at) \/ Top.at.kind = "invoke"
        /\ threw = jump

\* A longjmp in progress, and the frames it has left.
InFlight == jump # NoJump /\ (back \/ Throwing)
Left == IF jump = Dead THEN <<>> ELSE SubSeq(stack, 1, jump)
Live == IF InFlight THEN Left ELSE stack
SpIn(frames) == IF frames = <<>> THEN 0 ELSE Used(frames[Len(frames)]) - frames[1].sp

CallsOf(f) ==
    (prog.calls[f] \ {Jumper}) \union (IF f \in prog.indirect \union prog.owners THEN Table ELSE {})

\* Stack pointers count from where the export found them: a trap and exit() leave it where
\* it was, so the next call may start lower.
View(frames) ==
    [i \in DOMAIN frames |-> [fn |-> frames[i].fn, sp |-> frames[i].sp - frames[1].sp]]
AllCalls == [f \in Funcs |-> CallsOf(f)]
Jumpers == {f \in Funcs : Jumper \in prog.calls[f]}
SpSeen == IF InFlight THEN SpIn(Left) ELSE IF stack = <<>> THEN 0 ELSE sp - stack[1].sp
ToldSeen == IF InFlight /\ jump = Dead THEN "longjmp" ELSE told

Abstract == INSTANCE Sjlj WITH
    calls <- AllCalls, owners <- prog.owners, jumpers <- Jumpers, alloc <- prog.alloc,
    stack <- View(Live), sp <- SpSeen, told <- ToldSeen

\* aot_port.go: the rest runs "against it unchanged", "the same way" as on the engines.
\* Whatever frames lie between, a longjmp arrives where C says it does, with the
\* stack pointer of that frame, and nothing runs on the way.
ImplementsSjlj == Abstract!Spec

\* A longjmp ends, in the frame it is for or at the host.
JumpLands == jump # NoJump ~> jump = NoJump
============================================================================
