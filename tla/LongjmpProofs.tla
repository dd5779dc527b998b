--------------------------- MODULE LongjmpProofs ---------------------------
(***************************************************************************)
(* Theorems about MayLongjmp and Longjmp, for every set of programs, both  *)
(* kinds of backend and any depth of the stack.                            *)
(***************************************************************************)
EXTENDS Longjmp, SequenceTheorems, TLAPS

----------------------------------------------------------------------------
(* The worklist.                                                           *)

\* Before the scan nothing is found. After it, everything found whose callers were looked
\* up has them in the set, and all of it must be in any set that covers.
PassInv ==
    /\ prog \in Graphs /\ Compiled(prog)
    /\ scanned \in BOOLEAN
    /\ work \subseteq set /\ set \subseteq Funcs
    /\ ~scanned => set = {} /\ work = {}
    /\ scanned => /\ Jumper \in set /\ prog.indirect \subseteq set
                  /\ \A f \in set \ work : Callers(f) \subseteq set
    /\ \A C \in SUBSET Funcs : Covers(C) => set \subseteq C

\* The worklist starts with nothing and every round keeps PassInv (mayLongjmpSet).
LEMMA PassInitInv == PassInit => PassInv
BY ProgramAssumption DEF PassInit, PassInv

LEMMA PassStepInv == PassInv /\ PassNext => PassInv'
<1> SUFFICES ASSUME PassInv, PassNext PROVE PassInv'
    OBVIOUS
<1>1. CASE Scan
    BY <1>1, ProgramAssumption DEF PassInv, Scan, Covers, Callers, Graphs
<1>2. ASSUME NEW f \in Funcs, Propagate(f) PROVE PassInv'
    <2>1. prog' = prog /\ scanned' = scanned /\ f \in work
        BY <1>2 DEF Propagate
    <2>2. scanned
        BY <2>1 DEF PassInv
    <2>3. set' = set \union Callers(f) /\ work' = (work \ {f}) \union (Callers(f) \ set)
        BY <1>2 DEF Propagate
    <2>4. Callers(f) \subseteq Funcs
        BY DEF Callers
    <2>5. \A g \in Funcs : Callers(g)' = Callers(g)
        BY <2>1 DEF Callers
    <2>6. work' \subseteq set' /\ set' \subseteq Funcs
        BY <2>3, <2>4 DEF PassInv
    <2>7. \A g \in set' \ work' : Callers(g)' \subseteq set'
        BY <2>1, <2>2, <2>3, <2>4, <2>5 DEF PassInv
    <2>8. ASSUME NEW C \in SUBSET Funcs, Covers(C)' PROVE set' \subseteq C
        <3>1. Covers(C)
            BY <2>1, <2>5, <2>8 DEF Covers, PassInv
        <3>2. f \in C /\ set \subseteq C
            BY <3>1, <2>1 DEF PassInv
        <3>3. Callers(f) \subseteq C
            BY <3>1, <3>2 DEF Covers
        <3> QED
            BY <2>3, <3>2, <3>3
    <2> QED
        BY <2>1, <2>2, <2>3, <2>6, <2>7, <2>8 DEF PassInv
<1> QED
    BY <1>1, <1>2 DEF PassNext

LEMMA PassSame == PassInv /\ UNCHANGED passVars => PassInv'
BY DEF PassInv, passVars, Covers, Callers

\* What the worklist ends with covers, and is the least set that does.
LEMMA PassDoneCovers == PassInv /\ PassDone => Covers(set)
BY DEF PassInv, PassDone, Covers

----------------------------------------------------------------------------
(* Types.                                                                  *)

\* Only a frame of Jumper is deeper than MaxDepth, and what is back is back somewhere.
DepthInv ==
    /\ stack # <<>> /\ Top.fn # Jumper => Depth <= MaxDepth
    /\ back => stack # <<>>

TypeInv == TypeOK /\ DepthInv

LEMMA TypeInit == Init => TypeInv
<1> SUFFICES ASSUME Init PROVE TypeInv
    OBVIOUS
<1>1. PassTypeOK
    BY ProgramAssumption DEF Init, PassInit, PassTypeOK
<1>2. stack = <<>> /\ stack \in Seq(Frames) /\ Len(stack) = 0
    BY DEF Init
<1>3. back \in BOOLEAN /\ backend \in Backends
    BY DEF Init
<1>4. sp \in 0 .. MaxSp /\ threw \in NoJump .. Dead /\ jump \in NoJump .. Dead
    BY LongjmpAssumption DEF Init, NoJump, Dead
<1>5. told \in {"nothing", "returned", "longjmp", "exit"}
    BY DEF Init
<1>6. Len(stack) <= MaxDepth + 1
    BY <1>2, LongjmpAssumption
<1>7. TypeOK
    BY <1>1, <1>2, <1>3, <1>4, <1>5, <1>6 DEF TypeOK
<1>8. ~back
    BY DEF Init
<1> QED
    BY <1>2, <1>7, <1>8 DEF TypeInv, DepthInv

\* A call adds a frame of the callee.
LEMMA PushTyped ==
    ASSUME TypeOK, NEW frames \in Seq(Frames), Len(frames) <= MaxDepth, NEW f \in Funcs, Push(frames, f)
    PROVE  /\ stack' \in Seq(Frames) /\ Len(stack') = Len(frames) + 1
           /\ stack'[Len(stack')].fn = f
           /\ sp' \in 0 .. MaxSp
           /\ back' \in BOOLEAN /\ ~back'
<1>1. [fn |-> f, at |-> Running, sp |-> sp, saved |-> 0] \in Frames
    BY LongjmpAssumption, ProgramAssumption DEF Frames, Sites, Running, TypeOK
<1>2. sp' \in 0 .. MaxSp
    BY LongjmpAssumption DEF Push, TypeOK
<1>3. back' \in BOOLEAN /\ ~back'
    BY DEF Push
<1>4. stack' = Append(frames, [fn |-> f, at |-> Running, sp |-> sp, saved |-> 0])
    BY DEF Push
<1>5. /\ stack' \in Seq(Frames) /\ Len(stack') = Len(frames) + 1
      /\ stack'[Len(frames) + 1].fn = f
    BY <1>1, <1>4
<1> QED
    BY <1>2, <1>3, <1>5

\* The first n elements of a sequence.
LEMMA Prefix ==
    ASSUME NEW S, NEW s \in Seq(S), NEW n \in 0 .. Len(s)
    PROVE  /\ SubSeq(s, 1, n) \in Seq(S) /\ Len(SubSeq(s, 1, n)) = n
           /\ \A i \in 1 .. n : SubSeq(s, 1, n)[i] = s[i]
<1>1. n \in Int /\ 1 \in Int /\ \A i \in 1 .. n : s[i] \in S
    OBVIOUS
<1>2. SubSeq(s, 1, n) \in Seq(S) /\ Len(SubSeq(s, 1, n)) = IF 1 <= n THEN n - 1 + 1 ELSE 0
    BY <1>1, SubSeqProperties
<1>3. (IF 1 <= n THEN n - 1 + 1 ELSE 0) = n
    OBVIOUS
<1>4. \A i \in 1 .. n : SubSeq(s, 1, n)[i] = s[1 + i - 1]
    BY <1>1, <1>2, SubSeqProperties
<1>5. \A i \in 1 .. n : 1 + i - 1 = i
    OBVIOUS
<1> QED
    BY <1>2, <1>3, <1>4, <1>5

\* A frame is left, for its caller or the host.
LEMMA PopTyped ==
    ASSUME TypeOK, stack # <<>>, NEW s \in 0 .. MaxSp, Pop(s)
    PROVE  /\ stack' \in Seq(Frames) /\ Len(stack') = Len(stack) - 1 /\ Len(stack') <= MaxDepth
           /\ \A i \in 1 .. Len(stack') : stack'[i] = stack[i]
           /\ sp' \in 0 .. MaxSp /\ back' \in BOOLEAN /\ (back' => Depth # 1)
           /\ told' \in {"nothing", "returned", "longjmp", "exit"}
           /\ threw' \in NoJump .. Dead /\ jump' \in NoJump .. Dead
<1>1. stack \in Seq(Frames) /\ Len(stack) \in Nat \ {0} /\ Len(stack) <= MaxDepth + 1
    BY DEF TypeOK
<1>2. stack' = SubSeq(stack, 1, Len(stack) - 1) /\ Len(stack) - 1 \in 0 .. Len(stack)
    BY <1>1 DEF Pop, Depth
<1>3. stack' \in Seq(Frames)
    BY <1>1, <1>2, Prefix
<1>4. Len(stack') = Len(stack) - 1
    BY <1>1, <1>2, Prefix
<1>5. \A i \in 1 .. Len(stack') : stack'[i] = stack[i]
    BY <1>1, <1>2, <1>4, Prefix
<1>6. Len(stack') <= MaxDepth
    BY <1>1, <1>4, LongjmpAssumption
<1>7. sp' \in 0 .. MaxSp
    BY DEF Pop
<1>8. back' \in BOOLEAN /\ (back' => Depth # 1)
    BY DEF Pop
<1>9. told' \in {"nothing", "returned", "longjmp", "exit"}
    BY DEF Pop, Leave, TypeOK
<1>10. threw' \in NoJump .. Dead /\ jump' \in NoJump .. Dead
    BY LongjmpAssumption DEF Pop, Leave, TypeOK, NoJump, Dead
<1> QED
    BY <1>3, <1>4, <1>5, <1>6, <1>7, <1>8, <1>9, <1>10

\* Only the top frame changes when its control point does.
LEMMA InTopTyped ==
    ASSUME TypeOK, stack # <<>>, NEW fr \in Frames
    PROVE  /\ InTop(fr) \in Seq(Frames) /\ Len(InTop(fr)) = Depth /\ Depth \in Nat \ {0}
           /\ InTop(fr)[Depth] = fr
           /\ \A i \in 1 .. Depth - 1 : InTop(fr)[i] = stack[i]
BY DEF TypeOK, InTop, Depth

\* The frame that waits at a call.
LEMMA WaitingTyped ==
    ASSUME TypeOK, stack # <<>>, NEW at \in Sites, NEW s \in 0 .. MaxSp,
           Top.fn = Jumper => at.kind \in {"running", "seed"}
    PROVE  /\ Top \in Frames
           /\ [Top EXCEPT !.at = at] \in Frames /\ [Top EXCEPT !.at = at].at = at
           /\ [Top EXCEPT !.at = at].fn = Top.fn
           /\ [Top EXCEPT !.at = at, !.saved = s] \in Frames
           /\ [Top EXCEPT !.at = at, !.saved = s].at = at
           /\ [Top EXCEPT !.at = at, !.saved = s].fn = Top.fn
<1>1. Top \in Frames
    BY DEF TypeOK, Top, Depth
<1> QED
    BY <1>1 DEF Frames

\* Every step of the run keeps the types (CallExportRaw, calls, traps, guards).
LEMMA TypeStep == TypeInv /\ PassInv /\ [Next]_vars => TypeInv'
<1> SUFFICES ASSUME TypeInv, PassInv, [Next]_vars PROVE TypeInv'
    OBVIOUS
<1> DEFINE Tolds == {"nothing", "returned", "longjmp", "exit"}
           Kept == prog' = prog /\ scanned' = scanned /\ set' = set /\ work' = work
           Rest == backend' \in Backends /\ told' \in Tolds /\ threw' \in NoJump .. Dead /\ jump' \in NoJump .. Dead
           Shape == /\ stack' \in Seq(Frames) /\ Len(stack') <= MaxDepth + 1
                    /\ Len(stack') > MaxDepth => stack'[Len(stack')].fn = Jumper
                    /\ sp' \in 0 .. MaxSp
           Back == back' \in BOOLEAN /\ (back' => stack' # <<>>)
<1>1. TypeOK /\ PassTypeOK /\ MaxDepth \in Nat \ {0} /\ Dead \in Nat
    BY LongjmpAssumption DEF TypeInv, TypeOK, Dead
<1>2. backend \in Backends /\ told \in Tolds /\ threw \in NoJump .. Dead /\ jump \in NoJump .. Dead
    BY DEF TypeInv, TypeOK
<1>3. PassTypeOK'
    <2>1. CASE PassNext
        BY <2>1, PassStepInv DEF PassInv, PassTypeOK
    <2>2. CASE UNCHANGED passVars
        BY <1>1, <2>2 DEF PassTypeOK, passVars, Compiled, Graphs
    <2> QED
        BY <2>1, <2>2 DEF Next, Pass, vars
<1>4. ASSUME Rest, Shape, Back PROVE TypeInv'
    <2>1. TypeOK'
        BY <1>3, <1>4 DEF TypeOK
    <2>2. stack' # <<>> /\ Top'.fn # Jumper => Depth' <= MaxDepth
        BY <1>1, <1>4 DEF Top, Depth
    <2> QED
        BY <1>4, <2>1, <2>2 DEF TypeInv, DepthInv
<1>5. ASSUME UNCHANGED runVars PROVE TypeInv'
    BY <1>3, <1>5 DEF TypeInv, TypeOK, DepthInv, runVars, Top, Depth
<1>6. ASSUME IsRunning PROVE stack # <<>> /\ Top.at = Running
    BY <1>6 DEF IsRunning
<1>7. ASSUME stack # <<>>, Top.fn # Jumper PROVE Depth \in Nat \ {0} /\ Depth <= MaxDepth
    BY <1>1, <1>7 DEF TypeInv, DepthInv, TypeOK, Depth
<1>8. ASSUME back, stack # <<>> PROVE Depth \in Nat \ {0} /\ Depth <= MaxDepth + 1
    BY <1>1, <1>8 DEF TypeOK, Depth
<1>9. ASSUME NEW kind \in {"call", "indirect", "invoke", "seed"}, NEW f \in Funcs
      PROVE [kind |-> kind, to |-> f] \in Sites
    BY DEF Sites
<1>10. CASE Pass
    BY <1>5, <1>10 DEF Pass
<1>11. ASSUME NEW frames \in Seq(Frames), NEW f \in Funcs, Push(frames, f), Rest,
              Len(frames) <= MaxDepth, Len(frames) = MaxDepth => f = Jumper
       PROVE TypeInv'
    <2>1. /\ stack' \in Seq(Frames) /\ Len(stack') = Len(frames) + 1
          /\ stack'[Len(stack')].fn = f
          /\ sp' \in 0 .. MaxSp
        BY <1>1, <1>11, PushTyped
    <2>2. Back
        BY <1>1, <1>11, PushTyped
    <2>3. Shape
        BY <1>1, <1>11, <2>1
    <2> QED
        BY <1>4, <1>11, <2>2, <2>3
<1>12. ASSUME NEW f \in Exports, CallExportRaw(f) PROVE TypeInv'
    <2>1. <<>> \in Seq(Frames) /\ Len(<<>>) = 0 /\ f \in Funcs
        BY LongjmpAssumption
    <2>2. Push(<<>>, f) /\ Len(<<>>) <= MaxDepth /\ Len(<<>>) # MaxDepth
        BY <1>1, <1>12, <2>1 DEF CallExportRaw
    <2>3. Rest
        BY <1>2, <1>12 DEF CallExportRaw
    <2> QED
        BY <1>11, <2>1, <2>2, <2>3
<1>13. ASSUME NEW kind \in {"call", "indirect", "invoke"}, NEW f \in Funcs, NEW s \in 0 .. MaxSp,
              Top.fn # Jumper, Calling(kind, f, s), threw' \in NoJump .. Dead
       PROVE TypeInv'
    <2> DEFINE fr == [Top EXCEPT !.at = [kind |-> kind, to |-> f], !.saved = s]
               frames == InTop(fr)
    <2>1. stack # <<>> /\ Depth < MaxDepth
        BY <1>13 DEF Calling, IsRunning
    <2>2. [kind |-> kind, to |-> f] \in Sites
        BY <1>9
    <2>3. fr \in Frames
        BY <1>1, <1>13, <2>1, <2>2, WaitingTyped
    <2>4. Push(frames, f)
        BY <1>13 DEF Calling
    <2>5. Rest
        BY <1>2, <1>13 DEF Calling
    <2> HIDE DEF fr
    <2>6. frames \in Seq(Frames) /\ Len(frames) = Depth /\ Depth \in Nat
        BY <1>1, <2>1, <2>3, InTopTyped
    <2> HIDE DEF frames
    <2>7. Len(frames) <= MaxDepth /\ Len(frames) # MaxDepth
        BY <1>1, <2>1, <2>6
    <2> QED
        BY <1>11, <2>4, <2>5, <2>6, <2>7
<1>14. 0 \in 0 .. MaxSp /\ sp \in 0 .. MaxSp /\ NoJump \in NoJump .. Dead
    BY <1>1, LongjmpAssumption DEF TypeOK, NoJump
<1>15. ASSUME NEW f \in Funcs, Call(f) \/ CallIndirect(f) \/ Invoke(f) PROVE TypeInv'
    <2>1. Top.fn # Jumper
        BY <1>15 DEF Call, CallIndirect, Invoke, PassInv, Compiled
    <2> QED
        BY <1>2, <1>13, <1>14, <1>15, <2>1 DEF Call, CallIndirect, Invoke
<1>16. ASSUME stack # <<>>, NEW s \in 0 .. MaxSp, Pop(s), backend' = backend PROVE TypeInv'
    <2>1. Shape
        BY <1>1, <1>16, PopTyped
    <2>2. Rest
        BY <1>1, <1>2, <1>16, PopTyped
    <2>3. Len(stack') = Depth - 1 /\ Depth \in Nat
        BY <1>1, <1>16, PopTyped DEF Depth, TypeOK
    <2>4. Depth # 1 => stack' # <<>>
        BY <1>1, <2>1, <2>3
    <2>5. Back
        BY <1>1, <1>16, <2>4, PopTyped
    <2> QED
        BY <1>4, <2>1, <2>2, <2>5
<1>17. ASSUME stack # <<>> PROVE Top \in Frames /\ Top.sp \in 0 .. MaxSp
    <2>1. Top \in Frames
        BY <1>1, <1>17 DEF TypeOK, Top, Depth
    <2> QED
        BY <2>1 DEF Frames
<1>18. CASE Return
    BY <1>6, <1>16, <1>17, <1>18 DEF Return
<1>19. ASSUME stack # <<>>, Top.fn # Jumper, Rest,
              Push(InTop([Top EXCEPT !.at = [kind |-> "call", to |-> Jumper]]), Jumper)
       PROVE TypeInv'
    <2> DEFINE frames == InTop([Top EXCEPT !.at = [kind |-> "call", to |-> Jumper]])
    <2>1. Jumper \in Funcs
        BY ProgramAssumption
    <2>2. frames \in Seq(Frames) /\ Len(frames) = Depth
        BY <1>1, <1>9, <1>14, <1>19, <2>1, InTopTyped, WaitingTyped
    <2>3. Depth <= MaxDepth
        BY <1>7, <1>19
    <2> HIDE DEF frames
    <2> QED
        BY <1>11, <1>19, <2>1, <2>2, <2>3 DEF frames
<1>20. ASSUME NEW env \in 1 .. Dead, LongJmp(env) PROVE TypeInv'
    <2>1. stack # <<>> /\ Jumper \in prog.calls[Top.fn]
        BY <1>6, <1>20 DEF LongJmp
    <2>2. Top.fn # Jumper
        BY <2>1 DEF PassInv, Compiled
    <2>3. Rest
        BY <1>1, <1>2, <1>20 DEF LongJmp, setThrew, NoJump
    <2> QED
        BY <1>19, <1>20, <2>1, <2>2, <2>3 DEF LongJmp
<1>21. ASSUME stack' = <<>>, sp' = sp, back' = FALSE, Rest PROVE TypeInv'
    <2>1. stack' \in Seq(Frames) /\ Len(stack') = 0
        BY <1>21
    <2>2. Shape
        BY <1>1, <1>14, <1>21, <2>1
    <2>3. Back
        BY <1>21
    <2> QED
        BY <1>4, <1>21, <2>2, <2>3
<1>22. CASE Exit
    <2>1. Rest
        BY <1>2, <1>22 DEF Exit
    <2> QED
        BY <1>21, <1>22, <2>1 DEF Exit
<1>23. CASE Trap
    <2>1. ASSUME NEW i \in Invoking, Catch(i), backend' = backend PROVE TypeInv'
        <3>1. i \in 1 .. Depth /\ stack[i].at.kind = "invoke" /\ Depth \in Nat /\ Depth <= MaxDepth + 1
            BY <1>1 DEF Invoking, TypeOK, Depth
        <3>2. stack' \in Seq(Frames) /\ Len(stack') = i
            BY <1>1, <2>1, <3>1, Prefix DEF Catch, TypeOK, Depth
        <3>3. stack[i] \in Frames
            BY <1>1, <3>1 DEF TypeOK, Depth
        <3>4. sp' \in 0 .. MaxSp
            BY <2>1, <3>3 DEF Catch, Frames
        <3>5. i # Depth
            <4>1. Top.at = Running /\ Top.at.kind = "running"
                BY <1>23 DEF Trap, Throwing, IsRunning, Running
            <4> QED
                BY <3>1, <4>1 DEF Top
        <3>6. Shape
            BY <1>1, <3>1, <3>2, <3>4, <3>5
        <3>7. 1 \in NoJump .. Dead
            BY <1>1, LongjmpAssumption DEF NoJump, Dead
        <3>8. Rest
            BY <1>2, <2>1, <3>7 DEF Catch, setThrew
        <3>9. stack' # <<>>
            BY <3>1, <3>2
        <3>10. Back
            BY <2>1, <3>9 DEF Catch
        <3> QED
            BY <1>4, <3>6, <3>8, <3>10
    <2>2. ASSUME stack' = <<>>, back' = FALSE, told' = "longjmp", jump' = NoJump, UNCHANGED <<backend, sp, threw>>
          PROVE TypeInv'
        <3>1. Rest
            BY <1>2, <1>14, <2>2
        <3> QED
            BY <1>21, <2>2, <3>1
    <2> QED
        BY <1>23, <2>1, <2>2 DEF Trap
<1>24. ASSUME NEW fr \in Frames, stack # <<>>, stack' = InTop(fr), fr.fn = Top.fn,
              sp' = sp, back' \in BOOLEAN, Rest
       PROVE TypeInv'
    <2>1. stack' \in Seq(Frames) /\ Len(stack') = Depth /\ stack'[Depth] = fr
        BY <1>1, <1>24, InTopTyped
    <2>2. Depth <= MaxDepth + 1 /\ Depth \in Nat
        BY <1>1 DEF TypeOK, Depth
    <2>3. Depth > MaxDepth => Top.fn = Jumper
        BY <1>1, <1>7, <1>24, <2>2
    <2>4. stack' # <<>>
        BY <1>1, <1>24, <2>1, <2>2, InTopTyped
    <2>5. /\ stack' \in Seq(Frames) /\ Len(stack') <= MaxDepth + 1
          /\ Len(stack') > MaxDepth => stack'[Len(stack')].fn = Jumper
        BY <1>24, <2>1, <2>2, <2>3
    <2>6. sp' \in 0 .. MaxSp
        BY <1>14, <1>24
    <2>7. Back
        BY <1>24, <2>4
    <2> QED
        BY <1>4, <1>24, <2>5, <2>6, <2>7
<1>25. CASE NoTrap
    <2>1. stack # <<>> /\ Jumper \in Funcs
        BY <1>6, <1>25, ProgramAssumption DEF NoTrap, Throwing
    <2>2. [Top EXCEPT !.at = [kind |-> "seed", to |-> Jumper]] \in Frames
          /\ [Top EXCEPT !.at = [kind |-> "seed", to |-> Jumper]].fn = Top.fn
        BY <1>1, <1>9, <1>14, <2>1, WaitingTyped
    <2>3. Rest
        BY <1>2, <1>25 DEF NoTrap
    <2>4. stack' = InTop([Top EXCEPT !.at = [kind |-> "seed", to |-> Jumper]]) /\ sp' = sp /\ back' \in BOOLEAN
        BY <1>25 DEF NoTrap
    <2> QED
        BY <1>24, <2>1, <2>2, <2>3, <2>4
<1>26. CASE Guard
    <2>1. stack # <<>>
        BY <1>26 DEF Guard, WaitsFor, TypeInv, DepthInv
    <2> DEFINE s == IF writesSP(Top.fn) THEN Top.sp ELSE sp
    <2>2. s \in 0 .. MaxSp
        BY <1>14, <1>17, <2>1
    <2>3. Pop(s) /\ backend' = backend
        BY <1>26 DEF Guard
    <2> HIDE DEF s
    <2> QED
        BY <1>16, <2>1, <2>2, <2>3
<1>27. ASSUME back, Resume, sp' = sp, Rest PROVE TypeInv'
    <2>1. stack # <<>>
        BY <1>27 DEF TypeInv, DepthInv
    <2>2. Running \in Sites /\ Running.kind = "running"
        BY DEF Running, Sites
    <2>3. [Top EXCEPT !.at = Running] \in Frames /\ [Top EXCEPT !.at = Running].fn = Top.fn
        BY <1>1, <1>14, <2>1, <2>2, WaitingTyped
    <2>4. stack' = InTop([Top EXCEPT !.at = Running]) /\ back' \in BOOLEAN
        BY <1>27 DEF Resume
    <2> QED
        BY <1>24, <1>27, <2>1, <2>3, <2>4
<1>28. CASE Continue
    <2>1. Rest
        BY <1>2, <1>28 DEF Continue
    <2> QED
        BY <1>27, <1>28, <2>1 DEF Continue, WaitsFor
<1>29. CASE AfterInvoke
    <2>1. stack # <<>> /\ back /\ Top.at.kind = "invoke"
        BY <1>29 DEF AfterInvoke, WaitsFor, TypeInv, DepthInv
    <2>2. Top.fn # Jumper
        BY <1>17, <2>1 DEF Frames
    <2>3. Rest
        BY <1>2, <1>14, <1>29 DEF AfterInvoke
    <2>4. CASE threw \in {NoJump, Depth}
        BY <1>27, <1>29, <2>1, <2>3, <2>4 DEF AfterInvoke
    <2>5. CASE threw \notin {NoJump, Depth}
        BY <1>19, <1>29, <2>1, <2>2, <2>3, <2>5 DEF AfterInvoke
    <2> QED
        BY <2>4, <2>5
<1>30. CASE UNCHANGED vars
    BY <1>5, <1>30 DEF vars, runVars
<1> QED
    BY <1>10, <1>12, <1>15, <1>18, <1>20, <1>22, <1>23, <1>25, <1>26, <1>28, <1>29, <1>30 DEF Next, Unwind

LEMMA TypesAlways == Spec => [](TypeInv /\ PassInv)
<1>1. Init => TypeInv /\ PassInv
    BY TypeInit, PassInitInv DEF Init
<1>2. TypeInv /\ PassInv /\ [Next]_vars => TypeInv' /\ PassInv'
    <2> SUFFICES ASSUME TypeInv, PassInv, [Next]_vars PROVE TypeInv' /\ PassInv'
        OBVIOUS
    <2>1. PassNext \/ UNCHANGED passVars
        BY DEF Next, Pass, vars
    <2> QED
        BY <2>1, TypeStep, PassStepInv, PassSame
<1> QED
    BY <1>1, <1>2, PTL DEF Spec

\* The values of the run stay what the code can hold (the run's type invariant).
THEOREM LongjmpTypeCorrect == Spec => []TypeOK
<1>1. TypeInv => TypeOK
    BY DEF TypeInv
<1> QED
    BY <1>1, TypesAlways, PTL

\* mayLongjmpSet ends with exactly the functions a longjmp may pass: nothing is left out,
\* and no call is guarded for nothing.
THEOREM GuardSetIsLeast == Spec => []SetIsLeastCover
<1>1. PassInv => SetIsLeastCover
    BY PassDoneCovers DEF SetIsLeastCover, PassInv
<1> QED
    BY <1>1, TypesAlways, PTL

----------------------------------------------------------------------------
(* The transpiled module returns through every frame.                      *)

\* A frame waits at a call that its function has in g.
SiteOK(g, fr) ==
    /\ fr.at.kind = "call" => fr.at.to \in g.calls[fr.fn]
    /\ fr.at.kind = "indirect" => fr.fn \in g.indirect
    /\ fr.at.kind = "invoke" => fr.fn \in g.owners
    /\ fr.at.kind = "seed" => fr.fn = Jumper

Calls == {"call", "indirect", "invoke"}

\* Each frame waits for the one above it.
Chain(g, s) ==
    /\ \A i \in 1 .. Len(s) : SiteOK(g, s[i])
    /\ \A i \in 1 .. Len(s) - 1 : s[i].at.kind \in Calls /\ s[i].at.to = s[i + 1].fn

\* __THREW__ is set only while the longjmp unwinds, and it unwinds through functions that
\* the worklist has found.
UnwindInv ==
    /\ threw = jump
    /\ stack = <<>> => threw = NoJump
    /\ threw # NoJump => back \/ Throwing
    /\ stack # <<>> => PassDone
    /\ Chain(prog, stack)
    /\ back => Top.at.kind # "running"
    /\ back /\ threw # NoJump /\ Top.at.kind = "call" => Top.at.to \in set

StackInv == backend = "aot" => UnwindInv

\* The top frame goes on to another control point.
LEMMA ChainTop ==
    ASSUME NEW g, NEW s \in Seq(Frames), s # <<>>, Chain(g, s),
           NEW fr \in Frames, fr.fn = s[Len(s)].fn, SiteOK(g, fr),
           NEW t, Len(t) = Len(s), t[Len(s)] = fr, \A i \in 1 .. Len(s) - 1 : t[i] = s[i]
    PROVE  Chain(g, t)
<1>1. Len(s) \in Nat \ {0}
    OBVIOUS
<1>2. \A i \in 1 .. Len(s) : i # Len(s) => i \in 1 .. Len(s) - 1
    BY <1>1
<1>3. \A i \in 1 .. Len(s) : t[i].fn = s[i].fn
    BY <1>1, <1>2
<1>4. \A i \in 1 .. Len(t) : SiteOK(g, t[i])
    <2> TAKE i \in 1 .. Len(t)
    <2>1. CASE i = Len(s)
        BY <1>1, <2>1
    <2>2. CASE i # Len(s)
        BY <1>1, <1>2, <2>2 DEF Chain
    <2> QED
        BY <2>1, <2>2
<1>5. \A i \in 1 .. Len(t) - 1 : t[i].at.kind \in Calls /\ t[i].at.to = t[i + 1].fn
    <2> TAKE i \in 1 .. Len(t) - 1
    <2>1. t[i] = s[i] /\ i + 1 \in 1 .. Len(s) /\ i \in 1 .. Len(s) - 1
        BY <1>1, <1>2
    <2>2. t[i + 1].fn = s[i + 1].fn
        BY <1>3, <2>1
    <2> QED
        BY <2>1, <2>2 DEF Chain
<1> QED
    BY <1>4, <1>5 DEF Chain

\* A frame comes on top of the one that calls it.
LEMMA ChainPush ==
    ASSUME NEW g, NEW s \in Seq(Frames), Chain(g, s), NEW fr \in Frames, SiteOK(g, fr),
           s # <<>> => s[Len(s)].at.kind \in Calls /\ s[Len(s)].at.to = fr.fn
    PROVE  Chain(g, Append(s, fr))
<1> DEFINE t == Append(s, fr)
<1>1. Len(s) \in Nat /\ Len(t) = Len(s) + 1 /\ t[Len(s) + 1] = fr
    OBVIOUS
<1>2. \A i \in 1 .. Len(s) : t[i] = s[i]
    OBVIOUS
<1>3. Len(s) # 0 => s # <<>>
    OBVIOUS
<1> HIDE DEF t
<1>4. \A i \in 1 .. Len(t) : SiteOK(g, t[i])
    <2> TAKE i \in 1 .. Len(t)
    <2>1. CASE i = Len(s) + 1
        BY <1>1, <2>1
    <2>2. CASE i # Len(s) + 1
        BY <1>1, <1>2, <2>2 DEF Chain
    <2> QED
        BY <2>1, <2>2
<1>5. \A i \in 1 .. Len(t) - 1 : t[i].at.kind \in Calls /\ t[i].at.to = t[i + 1].fn
    <2> TAKE i \in 1 .. Len(t) - 1
    <2>1. t[i] = s[i] /\ i \in 1 .. Len(s)
        BY <1>1, <1>2
    <2>2. CASE i = Len(s)
        BY <1>1, <1>3, <2>1, <2>2
    <2>3. CASE i # Len(s)
        <3>1. i \in 1 .. Len(s) - 1 /\ t[i + 1] = s[i + 1]
            BY <1>1, <1>2, <2>1, <2>3
        <3> QED
            BY <2>1, <3>1 DEF Chain
    <2> QED
        BY <2>2, <2>3
<1>6. Chain(g, t)
    BY <1>4, <1>5 DEF Chain
<1> QED
    BY <1>6 DEF t

\* Taking frames off the top leaves a chain.
LEMMA ChainPop ==
    ASSUME NEW g, NEW s \in Seq(Frames), Chain(g, s), NEW n \in 0 .. Len(s)
    PROVE  Chain(g, SubSeq(s, 1, n))
<1> DEFINE t == SubSeq(s, 1, n)
<1>1. Len(t) = n /\ \A i \in 1 .. n : t[i] = s[i]
    BY Prefix
<1> HIDE DEF t
<1>2. Len(s) \in Nat
    OBVIOUS
<1>3. \A i \in 1 .. Len(t) : SiteOK(g, t[i])
    <2> TAKE i \in 1 .. Len(t)
    <2>1. i \in 1 .. Len(s) /\ t[i] = s[i]
        BY <1>1, <1>2
    <2> QED
        BY <2>1 DEF Chain
<1>4. \A i \in 1 .. Len(t) - 1 : t[i].at.kind \in Calls /\ t[i].at.to = t[i + 1].fn
    <2> TAKE i \in 1 .. Len(t) - 1
    <2>1. i \in 1 .. Len(s) - 1 /\ i \in 1 .. n /\ i + 1 \in 1 .. n
        BY <1>1, <1>2
    <2>2. t[i] = s[i] /\ t[i + 1] = s[i + 1]
        BY <1>1, <2>1
    <2>3. s[i].at.kind \in Calls /\ s[i].at.to = s[i + 1].fn
        BY <2>1 DEF Chain
    <2> QED
        BY <2>2, <2>3
<1>5. Chain(g, t)
    BY <1>3, <1>4 DEF Chain
<1> QED
    BY <1>5 DEF t

\* Every step of the run keeps UnwindInv (the guards, the import that only returns,
\* CallExportRaw clearing __THREW__).
LEMMA UnwindStep == TypeInv /\ PassInv /\ StackInv /\ [Next]_vars => StackInv'
<1> SUFFICES ASSUME TypeInv, PassInv, StackInv, [Next]_vars, backend' = "aot" PROVE UnwindInv'
    BY DEF StackInv
<1> USE DEF NoJump
<1>1. backend = "aot"
    BY DEF Next, Pass, Unwind, runVars, vars, CallExportRaw, Call, CallIndirect, Invoke, Calling,
           Return, LongJmp, Exit, Trap, NoTrap, Guard, Continue, AfterInvoke
<1>2. UnwindInv
    BY <1>1 DEF StackInv
<1>3. /\ TypeOK /\ stack \in Seq(Frames) /\ Depth \in Nat /\ Depth = Len(stack)
      /\ back => stack # <<>>
    BY DEF TypeInv, TypeOK, DepthInv, Depth
<1>4. ASSUME stack # <<>> PROVE Depth \in 1 .. Depth /\ Top \in Frames /\ SiteOK(prog, Top) /\ PassDone
    <2>1. Depth \in 1 .. Len(stack)
        BY <1>3, <1>4
    <2> QED
        BY <1>2, <1>3, <1>4, <2>1 DEF UnwindInv, Chain, Top
<1>5. ASSUME IsRunning, Top.fn # Jumper
      PROVE  stack # <<>> /\ PassDone /\ ~back /\ threw = NoJump /\ jump = NoJump
    <2>1. stack # <<>> /\ Top.at.kind = "running"
        BY <1>5 DEF IsRunning, Running
    <2>2. ~back /\ ~Throwing
        BY <1>2, <1>5, <2>1 DEF UnwindInv, Throwing
    <2> QED
        BY <1>2, <2>1, <2>2 DEF UnwindInv
<1>6. ASSUME UNCHANGED passVars, PassDone, NEW frames \in Seq(Frames), Len(frames) <= MaxDepth,
             Chain(prog, frames), NEW f \in Funcs, Push(frames, f),
             frames # <<>> => frames[Len(frames)].at.kind \in Calls /\ frames[Len(frames)].at.to = f,
             threw' = jump', threw' # NoJump => f = Jumper
      PROVE  UnwindInv'
    <2> DEFINE fr == [fn |-> f, at |-> Running, sp |-> sp, saved |-> 0]
    <2>1. fr \in Frames
        BY <1>3, LongjmpAssumption, ProgramAssumption DEF Frames, Sites, Running, TypeOK
    <2>2. SiteOK(prog, fr) /\ fr.fn = f /\ fr.at = Running
        BY DEF SiteOK, Running
    <2>3. stack' = Append(frames, fr)
        BY <1>6 DEF Push
    <2>4. ~back'
        BY <1>6 DEF Push
    <2> HIDE DEF fr
    <2>5. Chain(prog, stack')
        BY <1>6, <2>1, <2>2, <2>3, ChainPush
    <2>6. stack' # <<>> /\ stack'[Len(stack')] = fr
        BY <2>1, <2>3
    <2>7. PassDone' /\ prog' = prog
        BY <1>6 DEF passVars, PassDone
    <2>8. threw' # NoJump => Throwing'
        BY <1>6, <2>2, <2>6 DEF Throwing, IsRunning, Top, Depth
    <2>9. Chain(prog', stack')
        BY <2>5, <2>7
    <2> QED
        BY <1>6, <2>4, <2>6, <2>7, <2>8, <2>9 DEF UnwindInv
<1>7. ASSUME stack # <<>>, UNCHANGED passVars, NEW s, Pop(s), threw # NoJump => Top.fn \in set
      PROVE  UnwindInv'
    <2>1. Depth - 1 \in 0 .. Len(stack) /\ Depth \in 1 .. Len(stack)
        BY <1>3, <1>4, <1>7
    <2>2. stack' = SubSeq(stack, 1, Depth - 1)
        BY <1>7 DEF Pop
    <2>3. /\ stack' \in Seq(Frames) /\ Len(stack') = Depth - 1
          /\ \A i \in 1 .. Depth - 1 : stack'[i] = stack[i]
        BY <1>3, <2>1, <2>2, Prefix
    <2>4. Chain(prog, stack')
        BY <1>2, <1>3, <2>1, <2>2, ChainPop DEF UnwindInv
    <2>5. PassDone' /\ prog' = prog /\ set' = set
        BY <1>4, <1>7 DEF passVars, PassDone
    <2>6. Chain(prog', stack')
        BY <2>4, <2>5
    <2>7. CASE Depth = 1
        <3>1. stack' = <<>>
            BY <2>3, <2>7
        <3>2. ~back' /\ threw' = NoJump /\ jump' = NoJump
            BY <1>1, <1>7, <2>7 DEF Pop, Leave
        <3> QED
            BY <2>6, <3>1, <3>2 DEF UnwindInv
    <2>8. CASE Depth # 1
        <3>1. Depth - 1 \in 1 .. Len(stack) - 1 /\ Depth - 1 + 1 = Depth
            BY <1>3, <2>1, <2>8
        <3>2. stack[Depth - 1].at.kind \in Calls /\ stack[Depth - 1].at.to = Top.fn
            BY <1>2, <3>1 DEF UnwindInv, Chain, Top
        <3>3. stack' # <<>> /\ Top' = stack[Depth - 1]
            BY <2>3, <3>1 DEF Top, Depth
        <3>4. back' /\ threw' = threw /\ jump' = jump
            BY <1>7, <2>8 DEF Pop
        <3>5. Top'.at.kind # "running"
            BY <3>2, <3>3 DEF Calls
        <3>6. threw' # NoJump => Top'.at.to \in set'
            BY <1>7, <2>5, <3>2, <3>3, <3>4
        <3>7. threw' = jump'
            BY <1>2, <3>4 DEF UnwindInv
        <3> QED
            BY <2>5, <2>6, <3>3, <3>4, <3>5, <3>6, <3>7 DEF UnwindInv
    <2> QED
        BY <2>7, <2>8
<1>8. ASSUME stack # <<>>, UNCHANGED passVars, NEW fr \in Frames, stack' = InTop(fr), fr.fn = Top.fn,
             SiteOK(prog, fr), threw' = jump', threw' # NoJump => back',
             back' => fr.at.kind \in {"seed", "indirect", "invoke"}
      PROVE  UnwindInv'
    <2>1. /\ Len(stack') = Len(stack) /\ stack'[Len(stack)] = fr
          /\ \A i \in 1 .. Len(stack) - 1 : stack'[i] = stack[i]
        BY <1>3, <1>8, InTopTyped
    <2>2. Chain(prog, stack')
        <3>1. Chain(prog, stack) /\ fr.fn = stack[Len(stack)].fn
            BY <1>2, <1>3, <1>8 DEF UnwindInv, Top
        <3> QED
            BY <1>3, <1>8, <2>1, <3>1, ChainTop
    <2>3. Len(stack') = Depth /\ stack'[Depth] = fr /\ stack' # <<>>
        BY <1>3, <1>8, <2>1
    <2>4. Top' = fr
        BY <2>3 DEF Top, Depth
    <2>5. PassDone' /\ prog' = prog
        BY <1>4, <1>8 DEF passVars, PassDone
    <2>6. Chain(prog', stack')
        BY <2>2, <2>5
    <2>7. back' => Top'.at.kind # "running" /\ Top'.at.kind # "call"
        BY <1>8, <2>4
    <2> QED
        BY <1>8, <2>3, <2>5, <2>6, <2>7 DEF UnwindInv
<1>9. CASE Pass
    <2>1. UNCHANGED runVars /\ PassNext
        BY <1>9 DEF Pass
    <2>2. ~PassDone
        BY <2>1 DEF PassNext, PassDone, Scan, Propagate
    <2>3. stack = <<>> /\ threw = NoJump /\ jump = NoJump /\ ~back
        BY <1>2, <1>3, <1>4, <2>2 DEF UnwindInv
    <2>4. stack' = <<>> /\ threw' = NoJump /\ jump' = NoJump /\ ~back'
        BY <2>1, <2>3 DEF runVars
    <2>5. Chain(prog', stack')
        BY <2>4 DEF Chain
    <2> QED
        BY <2>4, <2>5 DEF UnwindInv
<1>10. ASSUME NEW f \in Exports, CallExportRaw(f), UNCHANGED passVars PROVE UnwindInv'
    <2>1. <<>> \in Seq(Frames) /\ Len(<<>>) <= MaxDepth /\ f \in Funcs
        BY LongjmpAssumption
    <2>2. Chain(prog, <<>>)
        BY DEF Chain
    <2>3. threw' = jump' /\ threw' = NoJump /\ PassDone /\ Push(<<>>, f)
        BY <1>2, <1>10 DEF CallExportRaw, UnwindInv
    <2> QED
        BY <1>6, <1>10, <2>1, <2>2, <2>3
<1>11. ASSUME NEW fr \in Frames, stack # <<>>, fr.fn = Top.fn, SiteOK(prog, fr), fr.at.kind \in Calls
       PROVE  /\ InTop(fr) \in Seq(Frames) /\ Len(InTop(fr)) = Depth
              /\ Chain(prog, InTop(fr)) /\ InTop(fr)[Len(InTop(fr))] = fr
    <2>1. Chain(prog, stack) /\ fr.fn = stack[Len(stack)].fn
        BY <1>2, <1>3, <1>11 DEF UnwindInv, Top
    <2>2. /\ Len(InTop(fr)) = Len(stack) /\ InTop(fr)[Len(stack)] = fr
          /\ \A i \in 1 .. Len(stack) - 1 : InTop(fr)[i] = stack[i]
        BY <1>3, <1>11, InTopTyped
    <2>3. Chain(prog, InTop(fr))
        BY <1>3, <1>11, <2>1, <2>2, ChainTop
    <2>4. InTop(fr) \in Seq(Frames) /\ Len(InTop(fr)) = Depth /\ InTop(fr)[Depth] = fr
        BY <1>3, <1>11, InTopTyped
    <2> QED
        BY <2>3, <2>4
<1>12. ASSUME NEW kind \in Calls, NEW f \in Funcs, NEW s \in 0 .. MaxSp, Calling(kind, f, s),
              UNCHANGED passVars, Top.fn # Jumper, threw' = NoJump,
              SiteOK(prog, [fn |-> Top.fn, at |-> [kind |-> kind, to |-> f]])
       PROVE  UnwindInv'
    <2> DEFINE at == [kind |-> kind, to |-> f]
               fr == [Top EXCEPT !.at = at, !.saved = s]
    <2>1. IsRunning /\ Depth < MaxDepth /\ Push(InTop(fr), f) /\ jump' = jump
        BY <1>12 DEF Calling
    <2>2. stack # <<>> /\ PassDone /\ jump = NoJump
        BY <1>5, <1>12, <2>1
    <2>3. at \in Sites
        BY DEF Sites, Calls
    <2>4. fr \in Frames /\ fr.fn = Top.fn /\ fr.at = at
        BY <1>3, <1>12, <2>2, <2>3, WaitingTyped
    <2>5. SiteOK(prog, fr) /\ fr.at.kind \in Calls /\ fr.at.to = f
        BY <1>12, <2>4 DEF SiteOK
    <2> HIDE DEF fr, at
    <2>6. /\ InTop(fr) \in Seq(Frames) /\ Len(InTop(fr)) = Depth
          /\ Chain(prog, InTop(fr)) /\ InTop(fr)[Len(InTop(fr))] = fr
        BY <1>11, <2>2, <2>4, <2>5
    <2>7. Len(InTop(fr)) <= MaxDepth
        BY <1>3, <2>1, <2>6, LongjmpAssumption
    <2>8. threw' = jump' /\ threw' = NoJump
        BY <1>12, <2>1, <2>2
    <2>9. Push(InTop(fr), f)
        BY <2>1
    <2> QED
        BY <1>6, <1>12, <2>2, <2>5, <2>6, <2>7, <2>8, <2>9
<1>13. 0 \in 0 .. MaxSp /\ sp \in 0 .. MaxSp /\ Jumper \in Funcs
    BY <1>3, LongjmpAssumption, ProgramAssumption DEF TypeOK
<1>14. ASSUME NEW f \in Funcs, Call(f) \/ CallIndirect(f) \/ Invoke(f), UNCHANGED passVars PROVE UnwindInv'
    <2>1. Top.fn # Jumper /\ IsRunning
        BY <1>14 DEF Call, CallIndirect, Invoke, Calling, PassInv, Compiled
    <2>2. threw = NoJump
        BY <1>5, <2>1
    <2>3. CASE Call(f)
        BY <1>12, <1>13, <1>14, <2>1, <2>2, <2>3 DEF Call, SiteOK, Calls
    <2>4. CASE CallIndirect(f)
        BY <1>12, <1>13, <1>14, <2>1, <2>2, <2>4 DEF CallIndirect, SiteOK, Calls
    <2>5. CASE Invoke(f)
        BY <1>12, <1>13, <1>14, <2>1, <2>2, <2>5 DEF Invoke, SiteOK, Calls
    <2> QED
        BY <1>14, <2>3, <2>4, <2>5
<1>15. ASSUME Return, UNCHANGED passVars PROVE UnwindInv'
    <2>1. IsRunning /\ Top.fn # Jumper /\ Pop(Top.sp)
        BY <1>15 DEF Return
    <2> QED
        BY <1>5, <1>7, <1>15, <2>1
<1>16. ASSUME stack # <<>>, Top.fn # Jumper, Jumper \in prog.calls[Top.fn], UNCHANGED passVars, threw' = jump',
              Push(InTop([Top EXCEPT !.at = [kind |-> "call", to |-> Jumper]]), Jumper)
       PROVE  UnwindInv'
    <2> DEFINE at == [kind |-> "call", to |-> Jumper]
               fr == [Top EXCEPT !.at = at]
    <2>1. at \in Sites
        BY <1>13 DEF Sites
    <2>2. fr \in Frames /\ fr.fn = Top.fn /\ fr.at = at
        BY <1>3, <1>13, <1>16, <2>1, WaitingTyped
    <2>3. SiteOK(prog, fr) /\ fr.at.kind \in Calls /\ fr.at.to = Jumper
        BY <1>16, <2>2 DEF SiteOK, Calls
    <2>4. Push(InTop(fr), Jumper) /\ PassDone /\ Depth <= MaxDepth
        BY <1>4, <1>16 DEF TypeInv, DepthInv
    <2> HIDE DEF fr, at
    <2>5. /\ InTop(fr) \in Seq(Frames) /\ Len(InTop(fr)) = Depth
          /\ Chain(prog, InTop(fr)) /\ InTop(fr)[Len(InTop(fr))] = fr
        BY <1>11, <1>16, <2>2, <2>3
    <2> QED
        BY <1>6, <1>13, <1>16, <2>3, <2>4, <2>5
<1>17. ASSUME NEW env \in 1 .. Dead, LongJmp(env), UNCHANGED passVars PROVE UnwindInv'
    <2>1. IsRunning /\ Jumper \in prog.calls[Top.fn] /\ Top.fn # Jumper
        BY <1>17 DEF LongJmp, PassInv, Compiled
    <2>2. stack # <<>> /\ threw = NoJump
        BY <1>5, <2>1
    <2>3. threw' = jump'
        BY <1>17, <2>2 DEF LongJmp, setThrew
    <2> QED
        BY <1>16, <1>17, <2>1, <2>2, <2>3 DEF LongJmp
<1>18. ASSUME Exit, UNCHANGED passVars PROVE UnwindInv'
    <2>1. threw = NoJump /\ jump = NoJump
        BY <1>5, <1>18 DEF Exit
    <2>2. stack' = <<>> /\ ~back' /\ threw' = NoJump /\ jump' = NoJump
        BY <1>18, <2>1 DEF Exit
    <2>3. Chain(prog', stack')
        BY <2>2 DEF Chain
    <2> QED
        BY <2>2, <2>3 DEF UnwindInv
<1>19. ASSUME NoTrap, UNCHANGED passVars PROVE UnwindInv'
    <2> DEFINE at == [kind |-> "seed", to |-> Jumper]
               fr == [Top EXCEPT !.at = at]
    <2>1. stack # <<>> /\ Top.fn = Jumper /\ stack' = InTop(fr) /\ back' /\ threw' = threw /\ jump' = jump
        BY <1>19 DEF NoTrap, Throwing, IsRunning
    <2>2. at \in Sites
        BY <1>13 DEF Sites
    <2>3. fr \in Frames /\ fr.fn = Top.fn /\ fr.at = at
        BY <1>3, <1>13, <2>1, <2>2, WaitingTyped
    <2>4. SiteOK(prog, fr) /\ fr.at.kind = "seed"
        BY <2>1, <2>3 DEF SiteOK
    <2>5. threw' = jump'
        BY <1>2, <2>1 DEF UnwindInv
    <2> HIDE DEF fr, at
    <2> QED
        BY <1>8, <1>19, <2>1, <2>3, <2>4, <2>5
<1>20. ASSUME back PROVE /\ stack # <<>> /\ SiteOK(prog, Top) /\ PassDone /\ Top \in Frames
                         /\ threw # NoJump /\ Top.at.kind = "call" => Top.at.to \in set
    BY <1>2, <1>3, <1>4, <1>20 DEF UnwindInv
<1>21. ASSUME Guard, UNCHANGED passVars PROVE UnwindInv'
    <2>1. back /\ Guarded(Top.at)
        BY <1>21 DEF Guard, WaitsFor
    <2>2. Covers(set)
        BY <1>20, <2>1, PassDoneCovers
    <2>3. Top.fn \in Funcs
        BY <1>20, <2>1 DEF Frames
    <2>4. Top.fn \in set
        BY <1>20, <2>1, <2>2, <2>3 DEF Guarded, SiteOK, Covers, Callers
    <2>5. PICK s : Pop(s)
        BY <1>21 DEF Guard
    <2> QED
        BY <1>7, <1>20, <1>21, <2>1, <2>4, <2>5
<1>22. ASSUME back, Resume, UNCHANGED passVars, threw' = NoJump, jump' = NoJump PROVE UnwindInv'
    <2> DEFINE fr == [Top EXCEPT !.at = Running]
    <2>1. stack # <<>> /\ stack' = InTop(fr) /\ ~back'
        BY <1>20, <1>22 DEF Resume
    <2>2. Running \in Sites /\ Running.kind = "running"
        BY DEF Running, Sites
    <2>3. fr \in Frames /\ fr.fn = Top.fn /\ fr.at = Running
        BY <1>3, <1>13, <2>1, <2>2, WaitingTyped
    <2>4. SiteOK(prog, fr)
        BY <2>2, <2>3 DEF SiteOK
    <2> HIDE DEF fr
    <2> QED
        BY <1>8, <1>22, <2>1, <2>3, <2>4
<1>23. ASSUME Continue, UNCHANGED passVars PROVE UnwindInv'
    <2>1. back /\ Top.at.kind \in {"call", "indirect", "seed"} /\ Resume /\ threw' = threw /\ jump' = jump
        BY <1>23 DEF Continue, WaitsFor
    <2>2. Guarded(Top.at) => threw = NoJump
        BY <1>1, <1>23 DEF Continue
    <2>3. threw = NoJump
        BY <1>20, <2>1, <2>2 DEF Guarded
    <2>4. jump = NoJump
        BY <1>2, <2>3 DEF UnwindInv
    <2> QED
        BY <1>22, <1>23, <2>1, <2>3, <2>4
<1>24. ASSUME AfterInvoke, UNCHANGED passVars PROVE UnwindInv'
    <2>1. back /\ Top.at.kind = "invoke"
        BY <1>24 DEF AfterInvoke, WaitsFor
    <2>2. stack # <<>> /\ Top.fn \in prog.owners /\ threw = jump
        BY <1>2, <1>20, <2>1 DEF SiteOK, UnwindInv
    <2>3. Top.fn # Jumper /\ Jumper \in prog.calls[Top.fn]
        BY <2>2 DEF PassInv, Compiled
    <2>4. CASE threw \in {NoJump, Depth}
        <3>1. Resume /\ threw' = NoJump /\ jump' = NoJump
            BY <1>24, <2>2, <2>4 DEF AfterInvoke
        <3> QED
            BY <1>22, <1>24, <2>1, <3>1
    <2>5. CASE threw \notin {NoJump, Depth}
        <3>1. Push(InTop([Top EXCEPT !.at = [kind |-> "call", to |-> Jumper]]), Jumper) /\ threw' = jump'
            BY <1>24, <2>2, <2>5 DEF AfterInvoke
        <3> QED
            BY <1>16, <1>24, <2>2, <2>3, <3>1
    <2> QED
        BY <2>4, <2>5
<1>25. CASE UNCHANGED vars
    <2>1. UNCHANGED <<passVars, runVars>>
        BY <1>25 DEF vars
    <2> QED
        BY <1>2, <2>1 DEF UnwindInv, passVars, runVars, PassDone, Throwing, IsRunning, Top, Depth
<1>26. ~Trap
    BY <1>1 DEF Trap
<1> QED
    BY <1>9, <1>10, <1>14, <1>15, <1>17, <1>18, <1>19, <1>21, <1>23, <1>24, <1>25, <1>26 DEF Next, Unwind

\* No frame of the transpiled module gets a call back without noticing the longjmp that
\* goes through it, and __THREW__ is never left over.
THEOREM NoFrameIsMissed == Spec => []NoFrameMissed
<1>1. Init => StackInv
    <2>1. Init => Chain(prog, stack)
        BY DEF Init, Chain
    <2> QED
        BY <2>1 DEF Init, StackInv, UnwindInv, NoJump
<1>2. TypeInv /\ PassInv /\ StackInv => NoFrameMissed
    <2> SUFFICES ASSUME TypeInv, StackInv, backend = "aot" PROVE NoFrameMissed
        BY DEF NoFrameMissed
    <2>1. UnwindInv
        BY DEF StackInv
    <2>2. ASSUME back, threw # NoJump PROVE Guarded(Top.at) \/ Top.at.kind = "invoke"
        <3>1. Top.at.kind \in {"running", "call", "indirect", "invoke", "seed"}
            BY <2>2 DEF TypeInv, TypeOK, DepthInv, Frames, Sites, Running, Top, Depth
        <3> QED
            BY <2>1, <2>2, <3>1 DEF UnwindInv, Guarded
    <2> QED
        BY <2>1, <2>2 DEF NoFrameMissed, UnwindInv
<1> QED
    BY <1>1, <1>2, TypesAlways, UnwindStep, PTL DEF Spec

----------------------------------------------------------------------------
(* Frames and the shadow stack, on both kinds of backend.                  *)

\* Each frame found the stack pointer where the one below left it, and the one that
\* makeInvoke keeps on an engine is that of its caller.
Stacked(s) ==
    /\ \A i \in 1 .. Len(s) - 1 : s[i + 1].sp = Used(s[i])
    /\ backend = "engine" =>
          \A i \in 1 .. Len(s) : s[i].at.kind = "invoke" => s[i].saved = Used(s[i])

FrameInv ==
    /\ Chain(prog, stack) /\ Stacked(stack)
    /\ stack # <<>> => sp = Used(Top)
    /\ back => Top.at.kind # "running"

\* Used depends on the function and on the stack pointer it found.
LEMMA UsedTyped ==
    ASSUME NEW fr \in Frames
    PROVE  Used(fr) \in Nat /\ \A f2 \in Frames : f2.fn = fr.fn /\ f2.sp = fr.sp => Used(f2) = Used(fr)
<1>1. fr.sp \in Nat
    BY LongjmpAssumption DEF Frames
<1> QED
    BY <1>1 DEF Used, writesSP

\* The top frame goes on to another control point.
LEMMA StackedTop ==
    ASSUME NEW s \in Seq(Frames), s # <<>>, Stacked(s),
           NEW fr \in Frames, fr.fn = s[Len(s)].fn, fr.sp = s[Len(s)].sp,
           backend = "engine" /\ fr.at.kind = "invoke" => fr.saved = Used(fr),
           NEW t, Len(t) = Len(s), t[Len(s)] = fr, \A i \in 1 .. Len(s) - 1 : t[i] = s[i]
    PROVE  Stacked(t)
<1>1. Len(s) \in Nat \ {0}
    OBVIOUS
<1>2. ASSUME NEW i \in 1 .. Len(t) - 1 PROVE t[i + 1].sp = Used(t[i])
    <2>1. i \in 1 .. Len(s) - 1 /\ t[i] = s[i] /\ s[i + 1].sp = Used(s[i])
        BY <1>2 DEF Stacked
    <2>2. CASE i + 1 = Len(s)
        BY <2>1, <2>2
    <2>3. CASE i + 1 # Len(s)
        <3>1. i + 1 \in 1 .. Len(s) - 1
            BY <1>1, <2>1, <2>3
        <3> QED
            BY <2>1, <3>1
    <2> QED
        BY <2>2, <2>3
<1>3. ASSUME NEW i \in 1 .. Len(t), backend = "engine", t[i].at.kind = "invoke" PROVE t[i].saved = Used(t[i])
    <2>1. CASE i = Len(s)
        BY <1>3, <2>1
    <2>2. CASE i # Len(s)
        <3>1. i \in 1 .. Len(s) - 1 /\ i \in 1 .. Len(s)
            BY <1>1, <2>2
        <3>2. t[i] = s[i]
            BY <3>1
        <3> QED
            BY <1>3, <3>1, <3>2 DEF Stacked
    <2> QED
        BY <2>1, <2>2
<1> QED
    BY <1>2, <1>3 DEF Stacked

\* A frame comes on top.
LEMMA StackedPush ==
    ASSUME NEW s \in Seq(Frames), Stacked(s), NEW fr \in Frames, fr.at.kind # "invoke",
           s # <<>> => fr.sp = Used(s[Len(s)])
    PROVE  Stacked(Append(s, fr))
<1> DEFINE t == Append(s, fr)
<1>1. Len(s) \in Nat /\ Len(t) = Len(s) + 1 /\ t[Len(s) + 1] = fr /\ (Len(s) # 0 => s # <<>>)
    OBVIOUS
<1>2. \A i \in 1 .. Len(s) : t[i] = s[i]
    OBVIOUS
<1> HIDE DEF t
<1>3. ASSUME NEW i \in 1 .. Len(t) - 1 PROVE t[i + 1].sp = Used(t[i])
    <2>1. i \in 1 .. Len(s) /\ t[i] = s[i]
        BY <1>1, <1>2, <1>3
    <2>2. CASE i = Len(s)
        BY <1>1, <2>1, <2>2
    <2>3. CASE i # Len(s)
        <3>1. i \in 1 .. Len(s) - 1 /\ i + 1 \in 1 .. Len(s)
            BY <1>1, <2>1, <2>3
        <3>2. t[i + 1] = s[i + 1]
            BY <1>2, <3>1
        <3> QED
            BY <2>1, <3>1, <3>2 DEF Stacked
    <2> QED
        BY <2>2, <2>3
<1>4. ASSUME NEW i \in 1 .. Len(t), backend = "engine", t[i].at.kind = "invoke" PROVE t[i].saved = Used(t[i])
    <2>1. i # Len(s) + 1
        BY <1>1, <1>4
    <2>2. i \in 1 .. Len(s) /\ t[i] = s[i]
        BY <1>1, <1>2, <2>1
    <2> QED
        BY <1>4, <2>2 DEF Stacked
<1>5. Stacked(t)
    BY <1>3, <1>4 DEF Stacked
<1> QED
    BY <1>5 DEF t

\* Frames are taken off the top.
LEMMA StackedPop ==
    ASSUME NEW s \in Seq(Frames), Stacked(s), NEW n \in 0 .. Len(s)
    PROVE  Stacked(SubSeq(s, 1, n))
<1> DEFINE t == SubSeq(s, 1, n)
<1>1. Len(t) = n /\ (\A i \in 1 .. n : t[i] = s[i]) /\ Len(s) \in Nat
    BY Prefix
<1> HIDE DEF t
<1>2. ASSUME NEW i \in 1 .. Len(t) - 1 PROVE t[i + 1].sp = Used(t[i])
    <2>1. i \in 1 .. Len(s) - 1 /\ i \in 1 .. n /\ i + 1 \in 1 .. n
        BY <1>1, <1>2
    <2>2. t[i] = s[i] /\ t[i + 1] = s[i + 1]
        BY <1>1, <2>1
    <2> QED
        BY <2>1, <2>2 DEF Stacked
<1>3. ASSUME NEW i \in 1 .. Len(t), backend = "engine", t[i].at.kind = "invoke" PROVE t[i].saved = Used(t[i])
    <2>1. i \in 1 .. Len(s) /\ t[i] = s[i]
        BY <1>1, <1>3
    <2> QED
        BY <1>3, <2>1 DEF Stacked
<1>4. Stacked(t)
    BY <1>2, <1>3 DEF Stacked
<1> QED
    BY <1>4 DEF t

\* What the top frame looks like at another control point.
LEMMA TopMoved ==
    ASSUME TypeOK, stack # <<>>, NEW at \in Sites, Top.fn = Jumper => at.kind \in {"running", "seed"}
    PROVE  LET fr == [Top EXCEPT !.at = at] IN
           fr \in Frames /\ fr.fn = Top.fn /\ fr.at = at /\ fr.sp = Top.sp /\ Used(fr) = Used(Top)
<1>1. Top \in Frames
    BY DEF TypeOK, Top, Depth
<1> QED
    BY <1>1 DEF Frames, Used

LEMMA TopMovedSaving ==
    ASSUME TypeOK, stack # <<>>, NEW at \in Sites, Top.fn = Jumper => at.kind \in {"running", "seed"},
           NEW s \in 0 .. MaxSp
    PROVE  LET fr == [Top EXCEPT !.at = at, !.saved = s] IN
           /\ fr \in Frames /\ fr.fn = Top.fn /\ fr.at = at /\ fr.sp = Top.sp /\ Used(fr) = Used(Top)
           /\ fr.saved = s
<1>1. Top \in Frames
    BY DEF TypeOK, Top, Depth
<1> QED
    BY <1>1 DEF Frames, Used

\* The frame that a call puts on top of its caller.
Callee(f) == [fn |-> f, at |-> Running, sp |-> sp, saved |-> 0]

LEMMA CallPushes ==
    ASSUME TypeOK, stack # <<>>, NEW fr \in Frames, NEW f \in Funcs, Push(InTop(fr), f)
    PROVE  /\ InTop(fr) \in Seq(Frames) /\ Len(InTop(fr)) = Depth /\ InTop(fr)[Depth] = fr
           /\ Callee(f) \in Frames /\ stack' = Append(InTop(fr), Callee(f))
           /\ stack' \in Seq(Frames) /\ Len(stack') = Depth + 1 /\ Depth \in Nat \ {0}
           /\ \A i \in 1 .. Depth - 1 : stack'[i] = stack[i]
           /\ stack'[Depth] = fr /\ stack'[Depth + 1] = Callee(f)
           /\ ~back' /\ sp' = Used(Callee(f))
<1>1. /\ InTop(fr) \in Seq(Frames) /\ Len(InTop(fr)) = Depth /\ Depth \in Nat \ {0}
      /\ InTop(fr)[Depth] = fr
      /\ \A i \in 1 .. Depth - 1 : InTop(fr)[i] = stack[i]
    BY InTopTyped
<1>2. Callee(f) \in Frames
    BY LongjmpAssumption, ProgramAssumption DEF Callee, Frames, Sites, Running, TypeOK
<1>3. stack' = Append(InTop(fr), Callee(f)) /\ ~back'
    BY DEF Push, Callee
<1>4. sp' = Used(Callee(f))
    BY DEF Push, Callee, Used
<1> DEFINE s == InTop(fr)
<1>5. s \in Seq(Frames) /\ Len(s) = Depth /\ s[Depth] = fr /\ \A i \in 1 .. Depth - 1 : s[i] = stack[i]
    BY <1>1
<1>6. stack' = Append(s, Callee(f))
    BY <1>3
<1> HIDE DEF s
<1>7. /\ stack' \in Seq(Frames) /\ Len(stack') = Depth + 1 /\ stack'[Depth + 1] = Callee(f)
      /\ \A i \in 1 .. Depth : stack'[i] = s[i]
    BY <1>1, <1>2, <1>5, <1>6
<1>8. stack'[Depth] = fr /\ \A i \in 1 .. Depth - 1 : stack'[i] = stack[i]
    BY <1>1, <1>5, <1>7
<1> QED
    BY <1>1, <1>2, <1>3, <1>4, <1>7, <1>8

\* Every step keeps FrameInv: calls, returns, traps and guards leave the stack pointer to
\* whoever runs next as that frame had it.
LEMMA FrameStep == TypeInv /\ PassInv /\ FrameInv /\ [Next]_vars => FrameInv'
<1> SUFFICES ASSUME TypeInv, PassInv, FrameInv, [Next]_vars PROVE FrameInv'
    OBVIOUS
<1>1. /\ TypeOK /\ stack \in Seq(Frames) /\ Depth \in Nat /\ Depth = Len(stack)
      /\ back => stack # <<>>
    BY DEF TypeInv, TypeOK, DepthInv, Depth
<1>2. /\ Chain(prog, stack) /\ Stacked(stack)
      /\ stack # <<>> => sp = Used(Top)
    BY DEF FrameInv
<1>3. prog' = prog /\ backend' = backend
    BY DEF Next, Pass, PassNext, Scan, Propagate, Unwind, runVars, passVars, vars, CallExportRaw, Call,
           CallIndirect, Invoke, Calling, Return, LongJmp, Exit, Trap, NoTrap, Guard, Continue, AfterInvoke
<1>4. ASSUME NEW t, stack' = t, Chain(prog, t), Stacked(t), stack' # <<>> => sp' = Used(stack'[Len(stack')]),
             back' => Top'.at.kind # "running"
      PROVE  FrameInv'
    <2>1. Chain(prog', stack')
        BY <1>3, <1>4
    <2>2. Stacked(stack)'
        BY <1>3, <1>4 DEF Stacked, Used, writesSP
    <2>3. stack' # <<>> => sp' = Used(Top)'
        BY <1>3, <1>4 DEF Top, Depth, Used, writesSP
    <2> QED
        BY <1>4, <2>1, <2>2, <2>3 DEF FrameInv
<1>5. ASSUME stack # <<>> PROVE Depth \in 1 .. Depth /\ Top \in Frames /\ SiteOK(prog, Top) /\ Top = stack[Len(stack)]
    <2>1. Depth \in 1 .. Len(stack) /\ Top = stack[Len(stack)]
        BY <1>1, <1>5 DEF Top
    <2> QED
        BY <1>1, <1>2, <1>5, <2>1 DEF Chain, Top
<1>6. ASSUME stack # <<>>, NEW fr \in Frames, fr.fn = Top.fn, fr.sp = Top.sp, SiteOK(prog, fr),
             backend = "engine" /\ fr.at.kind = "invoke" => fr.saved = Used(fr)
      PROVE  Chain(prog, InTop(fr)) /\ Stacked(InTop(fr))
    <2>1. /\ Len(InTop(fr)) = Len(stack) /\ InTop(fr)[Len(stack)] = fr
          /\ \A i \in 1 .. Len(stack) - 1 : InTop(fr)[i] = stack[i]
        BY <1>1, <1>6, InTopTyped
    <2>2. Chain(prog, InTop(fr))
        BY <1>1, <1>2, <1>5, <1>6, <2>1, ChainTop
    <2>3. Stacked(InTop(fr))
        BY <1>1, <1>2, <1>5, <1>6, <2>1, StackedTop
    <2> QED
        BY <2>2, <2>3
\* A call.
<1>7. ASSUME stack # <<>>, NEW fr \in Frames, fr.fn = Top.fn, fr.sp = Top.sp, SiteOK(prog, fr),
             backend = "engine" /\ fr.at.kind = "invoke" => fr.saved = Used(fr),
             NEW f \in Funcs, Push(InTop(fr), f), fr.at.kind \in Calls, fr.at.to = f
      PROVE  FrameInv'
    <2> DEFINE s == InTop(fr)
    <2>1. /\ s \in Seq(Frames) /\ Len(s) = Depth /\ s[Len(s)] = fr
          /\ Callee(f) \in Frames /\ stack' = Append(s, Callee(f))
          /\ Len(stack') = Depth + 1 /\ stack'[Depth + 1] = Callee(f)
          /\ ~back' /\ sp' = Used(Callee(f))
        BY <1>1, <1>7, CallPushes
    <2>2. Chain(prog, s) /\ Stacked(s)
        BY <1>6, <1>7
    <2> HIDE DEF s
    <2>3. SiteOK(prog, Callee(f)) /\ Callee(f).fn = f /\ Callee(f).at.kind # "invoke" /\ Callee(f).sp = sp
        BY DEF SiteOK, Callee, Running
    <2>4. Chain(prog, Append(s, Callee(f)))
        BY <1>7, <2>1, <2>2, <2>3, ChainPush
    <2>5. sp = Used(fr)
        BY <1>2, <1>5, <1>7, UsedTyped
    <2>6. Stacked(Append(s, Callee(f)))
        BY <2>1, <2>2, <2>3, <2>5, StackedPush
    <2>7. stack' # <<>> => sp' = Used(stack'[Len(stack')])
        BY <2>1
    <2> QED
        BY <1>4, <2>1, <2>4, <2>6, <2>7
\* A return, a trap.
<1>8. ASSUME NEW n \in 0 .. Depth, stack' = SubSeq(stack, 1, n), n # 0 => sp' = Used(stack[n]),
             n # 0 => stack[n].at.kind # "running"
      PROVE  FrameInv'
    <2>1. Chain(prog, stack') /\ Stacked(stack')
        BY <1>1, <1>2, <1>8, ChainPop, StackedPop
    <2>2. Len(stack') = n /\ stack' \in Seq(Frames) /\ \A i \in 1 .. n : stack'[i] = stack[i]
        BY <1>1, <1>8, Prefix
    <2>3. stack' # <<>> => n # 0 /\ stack'[Len(stack')] = stack[n]
        BY <1>8, <2>2
    <2>4. back' /\ stack' # <<>> => Top'.at.kind # "running"
        BY <1>8, <2>3 DEF Top, Depth
    <2>5. TypeInv'
        BY TypeStep
    <2>6. back' => stack' # <<>>
        BY <2>5 DEF TypeInv, DepthInv
    <2> QED
        BY <1>4, <1>8, <2>1, <2>3, <2>4, <2>6
\* Another control point.
<1>9. ASSUME stack # <<>>, NEW at \in Sites, stack' = InTop([Top EXCEPT !.at = at]),
             at.kind \in {"running", "seed"}, at.kind = "seed" => Top.fn = Jumper,
             sp' = sp, back' => at.kind # "running"
      PROVE  FrameInv'
    <2> DEFINE fr == [Top EXCEPT !.at = at]
    <2>1. 0 \in 0 .. MaxSp
        BY LongjmpAssumption
    <2>2. fr \in Frames /\ fr.fn = Top.fn /\ fr.at = at /\ fr.sp = Top.sp /\ Used(fr) = Used(Top)
        BY <1>1, <1>9, <2>1, TopMoved
    <2>3. SiteOK(prog, fr) /\ fr.at.kind # "invoke" /\ stack' = InTop(fr)
        BY <1>9, <2>2 DEF SiteOK
    <2> HIDE DEF fr
    <2>4. Chain(prog, stack') /\ Stacked(stack')
        BY <1>6, <1>9, <2>2, <2>3
    <2>5. Len(stack') = Depth /\ stack'[Depth] = fr
        BY <1>1, <1>9, <2>2, <2>3, InTopTyped
    <2>6. sp' = Used(stack'[Len(stack')])
        BY <1>2, <1>9, <2>2, <2>5
    <2>7. back' => Top'.at.kind # "running"
        BY <1>9, <2>2, <2>5 DEF Top, Depth
    <2> QED
        BY <1>4, <2>4, <2>6, <2>7
<1>10. ASSUME UNCHANGED runVars PROVE FrameInv'
    <2>1. stack' = stack /\ sp' = sp /\ back' = back
        BY <1>10 DEF runVars
    <2>2. back' => Top'.at.kind # "running"
        BY <2>1 DEF FrameInv, Top, Depth
    <2>3. stack' # <<>> => sp' = Used(stack'[Len(stack')])
        BY <1>2, <2>1 DEF Top, Depth
    <2> QED
        BY <1>2, <1>4, <2>1, <2>2, <2>3
<1>11. ASSUME NEW f \in Exports, CallExportRaw(f) PROVE FrameInv'
    <2>1. f \in Funcs /\ stack' = Append(<<>>, Callee(f)) /\ sp' = Used(Callee(f)) /\ ~back'
        BY <1>11, LongjmpAssumption DEF CallExportRaw, Push, Callee, Used
    <2>2. Callee(f) \in Frames
        BY <1>1, <2>1, LongjmpAssumption, ProgramAssumption DEF Callee, Frames, Sites, Running, TypeOK
    <2>3. <<>> \in Seq(Frames) /\ Chain(prog, <<>>) /\ Stacked(<<>>)
        BY DEF Chain, Stacked
    <2>4. SiteOK(prog, Callee(f)) /\ Callee(f).at.kind # "invoke"
        BY DEF SiteOK, Callee, Running
    <2>5. Chain(prog, stack')
        BY <2>1, <2>2, <2>3, <2>4, ChainPush
    <2>6. Stacked(stack')
        BY <2>1, <2>2, <2>3, <2>4, StackedPush
    <2>7. sp' = Used(stack'[Len(stack')])
        BY <2>1
    <2> QED
        BY <1>4, <2>1, <2>5, <2>6, <2>7
<1>12. ASSUME NEW kind \in Calls, NEW f \in Funcs, NEW s \in 0 .. MaxSp, Calling(kind, f, s),
              Top.fn # Jumper, SiteOK(prog, [fn |-> Top.fn, at |-> [kind |-> kind, to |-> f]]),
              backend = "engine" /\ kind = "invoke" => s = sp
       PROVE  FrameInv'
    <2> DEFINE at == [kind |-> kind, to |-> f]
               fr == [Top EXCEPT !.at = at, !.saved = s]
    <2>1. stack # <<>> /\ Push(InTop(fr), f)
        BY <1>12 DEF Calling, IsRunning
    <2>2. at \in Sites /\ at.kind = kind /\ at.to = f
        BY DEF Sites, Calls
    <2>3. /\ fr \in Frames /\ fr.fn = Top.fn /\ fr.at = at /\ fr.sp = Top.sp /\ Used(fr) = Used(Top)
          /\ fr.saved = s
        BY <1>1, <1>12, <2>1, <2>2, TopMovedSaving
    <2>4. SiteOK(prog, fr)
        BY <1>12, <2>2, <2>3 DEF SiteOK
    <2> HIDE DEF fr, at
    <2>5. backend = "engine" /\ fr.at.kind = "invoke" => fr.saved = Used(fr)
        BY <1>2, <1>12, <2>1, <2>2, <2>3
    <2> QED
        BY <1>7, <1>12, <2>1, <2>2, <2>3, <2>4, <2>5
<1>13. 0 \in 0 .. MaxSp /\ sp \in 0 .. MaxSp /\ Jumper \in Funcs
    BY <1>1, LongjmpAssumption, ProgramAssumption DEF TypeOK
<1>14. ASSUME NEW f \in Funcs, Call(f) \/ CallIndirect(f) \/ Invoke(f) PROVE FrameInv'
    <2>1. Top.fn # Jumper
        BY <1>14 DEF Call, CallIndirect, Invoke, PassInv, Compiled
    <2>2. CASE Call(f)
        BY <1>12, <1>13, <2>1, <2>2 DEF Call, SiteOK, Calls
    <2>3. CASE CallIndirect(f)
        BY <1>12, <1>13, <2>1, <2>3 DEF CallIndirect, SiteOK, Calls
    <2>4. CASE Invoke(f)
        <3>1. SiteOK(prog, [fn |-> Top.fn, at |-> [kind |-> "invoke", to |-> f]]) /\ "invoke" \in Calls
            BY <2>4 DEF Invoke, SiteOK, Calls
        <3>2. CASE backend = "engine"
            BY <1>12, <1>13, <2>1, <2>4, <3>1, <3>2 DEF Invoke
        <3>3. CASE backend # "engine"
            BY <1>12, <1>13, <2>1, <2>4, <3>1, <3>3 DEF Invoke
        <3> QED
            BY <3>2, <3>3
    <2> QED
        BY <1>14, <2>2, <2>3, <2>4
<1>15. ASSUME stack # <<>>, Top.fn # Jumper, Jumper \in prog.calls[Top.fn],
              Push(InTop([Top EXCEPT !.at = [kind |-> "call", to |-> Jumper]]), Jumper)
       PROVE  FrameInv'
    <2> DEFINE at == [kind |-> "call", to |-> Jumper]
               fr == [Top EXCEPT !.at = at]
    <2>1. at \in Sites /\ at.kind = "call" /\ at.to = Jumper
        BY <1>13 DEF Sites
    <2>2. /\ fr \in Frames /\ fr.fn = Top.fn /\ fr.at = at /\ fr.sp = Top.sp /\ Used(fr) = Used(Top)
        BY <1>1, <1>13, <1>15, <2>1, TopMoved
    <2>3. SiteOK(prog, fr) /\ fr.at.kind \in Calls /\ fr.at.kind # "invoke"
        BY <1>15, <2>1, <2>2 DEF SiteOK, Calls
    <2>4. Push(InTop(fr), Jumper)
        BY <1>15
    <2> HIDE DEF fr, at
    <2> QED
        BY <1>7, <1>13, <1>15, <2>1, <2>2, <2>3, <2>4
<1>16. ASSUME stack # <<>>, Pop(Top.sp) PROVE FrameInv'
    <2>1. stack' = SubSeq(stack, 1, Depth - 1) /\ sp' = Top.sp /\ Depth - 1 \in 0 .. Depth
        BY <1>1, <1>5, <1>16 DEF Pop
    <2>2. ASSUME Depth - 1 # 0 PROVE sp' = Used(stack[Depth - 1]) /\ stack[Depth - 1].at.kind # "running"
        <3>1. Depth - 1 \in 1 .. Len(stack) - 1 /\ Depth - 1 + 1 = Depth
            BY <1>1, <2>1, <2>2
        <3>2. stack[Depth].sp = Used(stack[Depth - 1]) /\ stack[Depth - 1].at.kind \in Calls
            BY <1>2, <3>1 DEF Stacked, Chain
        <3> QED
            BY <2>1, <3>2 DEF Top, Calls
    <2> QED
        BY <1>8, <2>1, <2>2
<1>17. CASE Return
    BY <1>16, <1>17 DEF Return, IsRunning
<1>18. ASSUME NEW env \in 1 .. Dead, LongJmp(env) PROVE FrameInv'
    BY <1>15, <1>18 DEF LongJmp, PassInv, Compiled, IsRunning
<1>19. ASSUME stack' = <<>> PROVE FrameInv'
    <2>1. 0 \in 0 .. Depth /\ SubSeq(stack, 1, 0) = <<>>
        BY <1>1
    <2> QED
        BY <1>8, <1>19, <2>1
<1>20. CASE Trap
    <2>1. ASSUME NEW i \in Invoking, Catch(i), backend = "engine" PROVE FrameInv'
        <3>1. i \in 1 .. Len(stack) /\ i \in 0 .. Depth /\ stack[i].at.kind = "invoke"
            BY <1>1 DEF Invoking
        <3>2. stack' = SubSeq(stack, 1, i) /\ sp' = Used(stack[i])
            BY <1>2, <2>1, <3>1 DEF Catch, Stacked
        <3> QED
            BY <1>8, <3>1, <3>2
    <2> QED
        BY <1>19, <1>20, <2>1 DEF Trap
<1>21. CASE NoTrap
    <2>1. [kind |-> "seed", to |-> Jumper] \in Sites
        BY <1>13 DEF Sites
    <2> QED
        BY <1>9, <1>21, <2>1 DEF NoTrap, Throwing, IsRunning
<1>22. CASE Guard
    <2>1. stack # <<>>
        BY <1>1, <1>22 DEF Guard, WaitsFor
    <2>2. sp = Used(Top) /\ Pop(IF writesSP(Top.fn) THEN Top.sp ELSE sp)
        BY <1>2, <1>22, <2>1 DEF Guard
    <2>3. (IF writesSP(Top.fn) THEN Top.sp ELSE sp) = Top.sp
        BY <2>2 DEF Used
    <2> QED
        BY <1>16, <2>1, <2>2, <2>3
<1>23. ASSUME back, Resume, sp' = sp PROVE FrameInv'
    <2>1. Running \in Sites /\ Running.kind = "running"
        BY DEF Running, Sites
    <2> QED
        BY <1>1, <1>9, <1>23, <2>1 DEF Resume
<1>24. CASE AfterInvoke
    <2>1. back /\ stack # <<>> /\ Top.at.kind = "invoke"
        BY <1>1, <1>24 DEF AfterInvoke, WaitsFor
    <2>2. Top.fn \in prog.owners
        BY <1>5, <2>1 DEF SiteOK
    <2>3. Top.fn # Jumper /\ Jumper \in prog.calls[Top.fn]
        BY <2>2 DEF PassInv, Compiled
    <2> QED
        BY <1>15, <1>23, <1>24, <2>1, <2>3 DEF AfterInvoke
<1>25. CASE Continue
    BY <1>23, <1>25 DEF Continue, WaitsFor
<1>26. CASE Exit
    BY <1>19, <1>26 DEF Exit
<1>27. CASE Pass \/ UNCHANGED vars
    BY <1>10, <1>27 DEF Pass, vars
<1> QED
    BY <1>11, <1>14, <1>17, <1>18, <1>20, <1>21, <1>22, <1>24, <1>25, <1>26, <1>27 DEF Next, Unwind

----------------------------------------------------------------------------
(* Where a longjmp is, on both kinds of backend.                           *)

\* A longjmp in progress is on its way from Jumper to a frame that waits at an invoke_.
\* An engine has it caught at one, and __THREW__ is right wherever code looks at it.
FlowInv ==
    /\ stack # <<>> /\ Top.fn = Jumper => jump # NoJump
    /\ jump # NoJump => back \/ Throwing
    /\ jump \notin {NoJump, Dead} => jump \in Invoking
    /\ backend = "engine" => /\ back /\ jump # NoJump => Top.at.kind = "invoke"
                             /\ Invoking # {} => threw = jump

LongjmpInv == TypeInv /\ PassInv /\ FrameInv /\ StackInv /\ FlowInv

\* Nobody waits at an invoke_ above the frames that a step leaves alone.
LEMMA InvokingBelow ==
    ASSUME stack \in Seq(Frames), stack' \in Seq(Frames), NEW n \in 0 .. Len(stack), n <= Len(stack'),
           \A i \in 1 .. n : stack'[i] = stack[i],
           \A i \in (n + 1) .. Len(stack') : stack'[i].at.kind # "invoke"
    PROVE  Invoking' = {i \in Invoking : i <= n}
<1>1. Len(stack) \in Nat /\ Len(stack') \in Nat
    OBVIOUS
<1>2. ASSUME NEW i \in Invoking' PROVE i \in Invoking /\ i <= n
    <2>1. i \in 1 .. Len(stack') /\ stack'[i].at.kind = "invoke"
        BY <1>2 DEF Invoking, Depth
    <2>2. i \in 1 .. n
        BY <1>1, <2>1
    <2>3. i \in 1 .. Len(stack) /\ stack[i].at.kind = "invoke"
        BY <1>1, <2>1, <2>2
    <2> QED
        BY <2>2, <2>3 DEF Invoking, Depth
<1>3. ASSUME NEW i \in Invoking, i <= n PROVE i \in Invoking'
    <2>1. i \in 1 .. Len(stack) /\ stack[i].at.kind = "invoke"
        BY <1>3 DEF Invoking, Depth
    <2>2. i \in 1 .. n /\ i \in 1 .. Len(stack')
        BY <1>1, <1>3, <2>1
    <2>3. stack'[i].at.kind = "invoke"
        BY <2>1, <2>2
    <2> QED
        BY <2>2, <2>3 DEF Invoking, Depth
<1> QED
    BY <1>2, <1>3

\* Only the top frame can be Jumper's, and a function that calls setjmp waits at an
\* invoke_ for any other.
LEMMA BelowTop ==
    ASSUME TypeInv, PassInv, FrameInv, NEW i \in 1 .. Depth - 1
    PROVE  /\ stack[i].fn # Jumper
           /\ stack[i].fn \in prog.owners /\ stack[i + 1].fn # Jumper => stack[i].at.kind = "invoke"
<1>1. stack \in Seq(Frames) /\ Depth = Len(stack) /\ Depth \in Nat
    BY DEF TypeInv, TypeOK, Depth
<1>2. i \in 1 .. Len(stack) - 1 /\ i \in 1 .. Len(stack) /\ stack[i] \in Frames
    BY <1>1
<1>3. stack[i].at.kind \in Calls /\ stack[i].at.to = stack[i + 1].fn /\ SiteOK(prog, stack[i])
    BY <1>2 DEF FrameInv, Chain
<1>4. stack[i].fn # Jumper
    BY <1>2, <1>3 DEF Frames, Calls
<1>5. stack[i].fn \in prog.owners /\ stack[i + 1].fn # Jumper => stack[i].at.kind = "invoke"
    BY <1>3 DEF SiteOK, Calls, PassInv, Compiled
<1> QED
    BY <1>4, <1>5

\* Nothing is in flight while a function runs, or after the export has returned.
LEMMA AtRest ==
    ASSUME TypeInv, FrameInv, FlowInv
    PROVE  /\ stack = <<>> => ~back /\ jump = NoJump
           /\ IsRunning /\ Top.fn # Jumper => ~back /\ jump = NoJump
           /\ IsRunning => ~back
BY DEF TypeInv, DepthInv, FrameInv, FlowInv, IsRunning, Throwing, Running

\* Two cases of what a step keeps: no longjmp is in progress after it, or one is.
LEMMA FlowStep == LongjmpInv /\ [Next]_vars => FlowInv'
<1> SUFFICES ASSUME LongjmpInv, [Next]_vars PROVE FlowInv'
    OBVIOUS
<1>1. /\ TypeInv /\ PassInv /\ FrameInv /\ StackInv /\ FlowInv
      /\ TypeOK /\ stack \in Seq(Frames) /\ Depth \in Nat /\ Depth = Len(stack)
      /\ back => stack # <<>>
      /\ backend \in {"engine", "aot"}
    BY LongjmpAssumption DEF LongjmpInv, TypeInv, TypeOK, DepthInv, Depth
<1>2. /\ prog' = prog /\ backend' = backend
      /\ stack' \in Seq(Frames) /\ Len(stack') \in Nat
    <2>1. TypeInv'
        BY <1>1, TypeStep
    <2>2. stack' \in Seq(Frames) /\ Len(stack') \in Nat
        BY <2>1 DEF TypeInv, TypeOK
    <2>3. prog' = prog /\ backend' = backend
        BY DEF Next, Pass, PassNext, Scan, Propagate, Unwind, runVars, passVars, vars, CallExportRaw, Call,
           CallIndirect, Invoke, Calling, Return, LongJmp, Exit, Trap, NoTrap, Guard, Continue, AfterInvoke
    <2> QED
        BY <2>2, <2>3
<1>3. ASSUME jump' = NoJump, stack' # <<>> => Top'.fn # Jumper,
             backend = "engine" /\ Invoking' # {} => threw' = NoJump
      PROVE  FlowInv'
    BY <1>2, <1>3 DEF FlowInv
<1>4. ASSUME NEW n \in 0 .. Depth, n <= Len(stack'), \A i \in 1 .. n : stack'[i] = stack[i],
             \A i \in (n + 1) .. Len(stack') : stack'[i].at.kind # "invoke"
      PROVE  Invoking' = {i \in Invoking : i <= n}
    BY <1>1, <1>2, <1>4, InvokingBelow
<1>5. ASSUME stack' = <<>>, jump' = NoJump PROVE FlowInv'
    <2>1. Invoking' = {}
        BY <1>5 DEF Invoking, Depth
    <2> QED
        BY <1>3, <1>5, <2>1
<1>6. ASSUME stack # <<>> PROVE Depth \in 1 .. Depth /\ Top \in Frames /\ Depth - 1 \in 0 .. Depth
    BY <1>1, <1>6 DEF Top
<1>7. 0 \in 0 .. MaxSp /\ sp \in 0 .. MaxSp /\ Jumper \in Funcs
    BY <1>1, LongjmpAssumption, ProgramAssumption DEF TypeOK
\* The top frame waits for f, not at an invoke_.
<1>8. ASSUME stack # <<>>, NEW fr \in Frames, fr.at.kind # "invoke", NEW f \in Funcs, Push(InTop(fr), f)
      PROVE  /\ Invoking' = {i \in Invoking : i <= Depth - 1}
             /\ stack' # <<>> /\ Top' = Callee(f) /\ ~back' /\ IsRunning'
    <2>1. /\ Len(stack') = Depth + 1 /\ \A i \in 1 .. Depth - 1 : stack'[i] = stack[i]
          /\ stack'[Depth] = fr /\ stack'[Depth + 1] = Callee(f) /\ ~back'
        BY <1>1, <1>8, CallPushes
    <2>2. Callee(f).at = Running /\ Running.kind = "running"
        BY DEF Callee, Running
    <2>3. \A i \in (Depth - 1 + 1) .. Len(stack') : stack'[i].at.kind # "invoke"
        BY <1>1, <1>8, <2>1, <2>2
    <2>4. Depth - 1 \in 0 .. Depth /\ Depth - 1 <= Len(stack')
        BY <1>1, <1>6, <1>8, <2>1
    <2>5. Invoking' = {i \in Invoking : i <= Depth - 1}
        BY <1>4, <2>1, <2>3, <2>4
    <2>6. stack' # <<>> /\ Top' = Callee(f)
        BY <1>1, <1>8, <2>1 DEF Top, Depth
    <2> QED
        BY <2>1, <2>2, <2>5, <2>6 DEF IsRunning
<1>9. ASSUME NEW at \in Sites, Top.fn = Jumper => at.kind \in {"running", "seed"}, stack # <<>>
      PROVE  [Top EXCEPT !.at = at] \in Frames /\ [Top EXCEPT !.at = at].at = at
             /\ [Top EXCEPT !.at = at].fn = Top.fn
    BY <1>1, <1>9, TopMoved
\* Another control point, no invoke_.
<1>10. ASSUME stack # <<>>, NEW at \in Sites, at.kind \in {"running", "seed"},
              stack' = InTop([Top EXCEPT !.at = at])
       PROVE  /\ Invoking' = {i \in Invoking : i <= Depth - 1}
              /\ stack' # <<>> /\ Top'.fn = Top.fn
    <2> DEFINE fr == [Top EXCEPT !.at = at]
    <2>1. fr \in Frames /\ fr.at = at /\ fr.fn = Top.fn /\ stack' = InTop(fr)
        BY <1>9, <1>10
    <2> HIDE DEF fr
    <2>2. Len(stack') = Depth /\ stack'[Depth] = fr /\ \A i \in 1 .. Depth - 1 : stack'[i] = stack[i]
        <3>1. TypeOK /\ stack # <<>> /\ fr \in Frames
            BY <1>1, <1>10, <2>1
        <3>2. /\ Len(InTop(fr)) = Depth /\ InTop(fr)[Depth] = fr
              /\ \A i \in 1 .. Depth - 1 : InTop(fr)[i] = stack[i]
            BY <3>1, InTopTyped
        <3> QED
            BY <2>1, <3>2
    <2>3. \A i \in (Depth - 1 + 1) .. Len(stack') : stack'[i].at.kind # "invoke"
        BY <1>1, <1>10, <2>1, <2>2
    <2>4. Depth - 1 \in 0 .. Depth /\ Depth - 1 <= Len(stack')
        BY <1>1, <1>6, <1>10, <2>2
    <2>5. Invoking' = {i \in Invoking : i <= Depth - 1}
        BY <1>4, <2>2, <2>3, <2>4
    <2>6. stack' # <<>> /\ Top' = fr
        BY <1>1, <1>6, <1>10, <2>2 DEF Top, Depth
    <2> QED
        BY <2>1, <2>5, <2>6
\* The top frame is left for its caller.
<1>11. ASSUME stack # <<>>, NEW s, Pop(s), Depth # 1
       PROVE  /\ Invoking' = {i \in Invoking : i <= Depth - 1}
              /\ stack' # <<>> /\ Top' = stack[Depth - 1] /\ back' /\ UNCHANGED <<threw, jump>>
              /\ Top'.fn # Jumper
    <2>1. stack' = SubSeq(stack, 1, Depth - 1) /\ Depth - 1 \in 0 .. Len(stack) /\ Depth - 1 \in 1 .. Depth - 1
        BY <1>1, <1>6, <1>11 DEF Pop
    <2>2. Len(stack') = Depth - 1 /\ \A i \in 1 .. Depth - 1 : stack'[i] = stack[i]
        BY <1>1, <2>1, Prefix
    <2>3. \A i \in (Depth - 1 + 1) .. Len(stack') : stack'[i].at.kind # "invoke"
        BY <1>1, <2>2
    <2>4. Invoking' = {i \in Invoking : i <= Depth - 1}
        BY <1>1, <1>4, <2>1, <2>2, <2>3
    <2>5. stack' # <<>> /\ Top' = stack[Depth - 1]
        <3>1. Top' = stack'[Len(stack')]
            BY DEF Top, Depth
        <3>2. stack'[Len(stack')] = stack[Depth - 1]
            BY <2>1, <2>2
        <3>3. Len(stack') # 0
            BY <2>1, <2>2
        <3> QED
            BY <3>1, <3>2, <3>3
    <2>6. stack[Depth - 1].fn # Jumper
        BY <1>1, <2>1, BelowTop
    <2>7. back' /\ UNCHANGED <<threw, jump>>
        BY <1>11 DEF Pop
    <2> QED
        BY <2>4, <2>5, <2>6, <2>7
<1>12. ASSUME NEW f \in Exports, CallExportRaw(f) PROVE FlowInv'
    <2>1. stack = <<>> /\ stack' = Append(<<>>, Callee(f)) /\ jump' = jump /\ f # Jumper
        BY <1>12, LongjmpAssumption DEF CallExportRaw, Push, Callee
    <2>2. jump' = NoJump
        BY <1>1, <2>1, AtRest
    <2>3. Len(stack') = 1 /\ stack'[1] = Callee(f)
        BY <2>1
    <2>4. Top'.fn # Jumper
        BY <2>1, <2>3 DEF Top, Depth, Callee
    <2>5. Invoking' = {}
        BY <2>3 DEF Invoking, Depth, Callee, Running
    <2> QED
        BY <1>3, <2>2, <2>4, <2>5
\* A call by a function that runs.
<1>13. ASSUME NEW f \in Funcs, Call(f) \/ CallIndirect(f) PROVE FlowInv'
    <2>1. /\ IsRunning /\ Top.fn # Jumper /\ f # Jumper /\ threw' = threw /\ jump' = jump
          /\ \E kind \in {"call", "indirect"} : Push(InTop([Top EXCEPT !.at = [kind |-> kind, to |-> f], !.saved = 0]), f)
        BY <1>1, <1>13, ProgramAssumption DEF Call, CallIndirect, Calling, PassInv, Compiled
    <2>2. stack # <<>> /\ jump = NoJump
        BY <1>1, <2>1, AtRest DEF IsRunning
    <2>3. PICK kind \in {"call", "indirect"} : Push(InTop([Top EXCEPT !.at = [kind |-> kind, to |-> f], !.saved = 0]), f)
        BY <2>1
    <2> DEFINE at == [kind |-> kind, to |-> f]
               fr == [Top EXCEPT !.at = at, !.saved = 0]
    <2>4. at \in Sites /\ at.kind # "invoke"
        BY DEF Sites
    <2>5. fr \in Frames /\ fr.at = at /\ Push(InTop(fr), f)
        BY <1>1, <1>7, <2>1, <2>2, <2>3, <2>4, TopMovedSaving
    <2> HIDE DEF fr, at
    <2>6. Invoking' \subseteq Invoking /\ Top' = Callee(f)
        BY <1>8, <2>2, <2>4, <2>5
    <2>7. Top'.fn # Jumper
        BY <2>1, <2>6 DEF Callee
    <2>8. backend = "engine" /\ Invoking' # {} => threw' = NoJump
        BY <1>1, <2>1, <2>2, <2>6 DEF FlowInv
    <2> QED
        BY <1>3, <2>1, <2>2, <2>7, <2>8
<1>14. ASSUME NEW f \in Funcs, Invoke(f) PROVE FlowInv'
    <2>1. /\ IsRunning /\ Top.fn # Jumper /\ f # Jumper /\ threw' = NoJump /\ jump' = jump
          /\ \E s \in 0 .. MaxSp : Push(InTop([Top EXCEPT !.at = [kind |-> "invoke", to |-> f], !.saved = s]), f)
        BY <1>1, <1>7, <1>14, ProgramAssumption DEF Invoke, Calling, PassInv, Compiled
    <2>2. stack # <<>> /\ jump = NoJump
        BY <1>1, <2>1, AtRest DEF IsRunning
    <2>3. PICK s \in 0 .. MaxSp : Push(InTop([Top EXCEPT !.at = [kind |-> "invoke", to |-> f], !.saved = s]), f)
        BY <2>1
    <2> DEFINE at == [kind |-> "invoke", to |-> f]
               fr == [Top EXCEPT !.at = at, !.saved = s]
    <2>4. at \in Sites
        BY DEF Sites
    <2>5. fr \in Frames /\ Push(InTop(fr), f)
        BY <1>1, <2>1, <2>2, <2>3, <2>4, TopMovedSaving
    <2> HIDE DEF fr, at
    <2>6. Len(stack') = Depth + 1 /\ stack'[Depth + 1] = Callee(f)
        BY <1>1, <2>2, <2>5, CallPushes
    <2>7. Top'.fn # Jumper
        BY <1>1, <2>1, <2>6 DEF Top, Depth, Callee
    <2> QED
        BY <1>3, <2>1, <2>2, <2>7
<1>15. CASE Return
    <2>1. stack # <<>> /\ jump = NoJump /\ Pop(Top.sp)
        BY <1>1, <1>15, AtRest DEF Return, IsRunning
    <2>2. CASE Depth = 1
        <3>1. stack' = <<>> /\ jump' = NoJump
            BY <1>1, <2>1, <2>2 DEF Pop
        <3> QED
            BY <1>5, <3>1
    <2>3. CASE Depth # 1
        <3>1. Invoking' \subseteq Invoking /\ UNCHANGED <<threw, jump>> /\ Top'.fn # Jumper
            BY <1>11, <2>1, <2>3
        <3>2. backend = "engine" /\ Invoking' # {} => threw' = NoJump
            BY <1>1, <2>1, <3>1 DEF FlowInv
        <3> QED
            BY <1>3, <2>1, <3>1, <3>2
    <2> QED
        BY <2>2, <2>3
\* Jumper comes on top, with a longjmp for a frame that waits at an invoke_.
<1>16. ASSUME stack # <<>>, Top.fn # Jumper, jump' # NoJump,
              jump' # Dead => jump' \in Invoking /\ jump' <= Depth - 1,
              backend = "engine" /\ Invoking # {} => threw' = jump',
              Push(InTop([Top EXCEPT !.at = [kind |-> "call", to |-> Jumper]]), Jumper)
       PROVE  FlowInv'
    <2> DEFINE at == [kind |-> "call", to |-> Jumper]
               fr == [Top EXCEPT !.at = at]
    <2>1. at \in Sites /\ at.kind # "invoke"
        BY <1>7 DEF Sites
    <2>2. fr \in Frames /\ fr.at = at /\ Push(InTop(fr), Jumper)
        BY <1>9, <1>16, <2>1
    <2> HIDE DEF fr, at
    <2>3. /\ Invoking' = {i \in Invoking : i <= Depth - 1}
          /\ Top' = Callee(Jumper) /\ ~back' /\ IsRunning'
        BY <1>7, <1>8, <1>16, <2>1, <2>2
    <2>4. Throwing'
        BY <2>3 DEF Throwing, Callee
    <2>5. jump' \notin {NoJump, Dead} => jump' \in Invoking'
        BY <1>16, <2>3
    <2>6. backend' = "engine" /\ Invoking' # {} => threw' = jump'
        BY <1>2, <1>16, <2>3
    <2> QED
        BY <1>16, <2>3, <2>4, <2>5, <2>6 DEF FlowInv, Dead
<1>17. ASSUME NEW env \in 1 .. Dead, LongJmp(env) PROVE FlowInv'
    <2>1. /\ stack # <<>> /\ Top.fn # Jumper /\ jump' = env /\ setThrew(env) /\ env # NoJump
          /\ Push(InTop([Top EXCEPT !.at = [kind |-> "call", to |-> Jumper]]), Jumper)
        BY <1>1, <1>17 DEF LongJmp, PassInv, Compiled, IsRunning, NoJump
    <2>2. jump = NoJump
        BY <1>1, <1>17, <2>1, AtRest DEF LongJmp
    <2>3. backend = "engine" /\ Invoking # {} => threw' = env
        BY <1>1, <2>1, <2>2 DEF FlowInv, setThrew
    <2>4. ASSUME env # Dead PROVE env \in Invoking /\ env <= Depth - 1
        <3>1. env \in 1 .. Depth - 1 /\ stack[env].fn \in prog.owners
            BY <1>17, <2>4 DEF LongJmp
        <3>2. stack[env + 1].fn # Jumper
            <4>1. CASE env = Depth - 1
                BY <1>1, <2>1, <4>1 DEF Top
            <4>2. CASE env # Depth - 1
                <5>1. env + 1 \in 1 .. Depth - 1
                    BY <1>1, <3>1, <4>2
                <5> QED
                    BY <1>1, <5>1, BelowTop
            <4> QED
                BY <4>1, <4>2
        <3>3. stack[env].at.kind = "invoke"
            BY <1>1, <3>1, <3>2, BelowTop
        <3> QED
            BY <1>1, <3>1, <3>3 DEF Invoking
    <2> QED
        BY <1>16, <2>1, <2>3, <2>4
<1>18. CASE Exit
    <2>1. stack' = <<>> /\ jump' = jump /\ jump = NoJump
        BY <1>1, <1>18, AtRest DEF Exit
    <2> QED
        BY <1>5, <2>1
<1>19. CASE Trap
    <2>1. stack # <<>> /\ jump # NoJump /\ backend = "engine"
        BY <1>1, <1>19 DEF Trap, Throwing, IsRunning, FlowInv
    <2>2. ASSUME NEW i \in Invoking, \A j \in Invoking : j <= i, Catch(i) PROVE FlowInv'
        <3>1. i \in 1 .. Len(stack) /\ i \in 0 .. Depth /\ stack[i].at.kind = "invoke"
            BY <1>1 DEF Invoking
        <3>2. stack' = SubSeq(stack, 1, i) /\ back' /\ jump' = jump /\ setThrew(1)
            BY <2>2 DEF Catch
        <3>3. Len(stack') = i /\ \A j \in 1 .. i : stack'[j] = stack[j]
            BY <1>1, <3>1, <3>2, Prefix
        <3>4. \A j \in (i + 1) .. Len(stack') : stack'[j].at.kind # "invoke"
            BY <3>1, <3>3
        <3>5. Invoking' = {j \in Invoking : j <= i}
            BY <1>4, <3>1, <3>3, <3>4
        <3>6. Top' = stack[i] /\ stack' # <<>>
            BY <3>1, <3>3 DEF Top, Depth
        <3>7. threw = jump
            BY <1>1, <2>1, <2>2 DEF FlowInv
        <3>8. threw' = jump'
            BY <2>1, <3>2, <3>7 DEF setThrew
        <3>9. jump' \notin {NoJump, Dead} => jump' \in Invoking'
            <4>1. jump \notin {NoJump, Dead} => jump \in Invoking
                BY <1>1 DEF FlowInv
            <4> QED
                BY <2>2, <3>2, <3>5, <4>1 DEF Dead
        <3> QED
            BY <2>1, <3>1, <3>2, <3>6, <3>8, <3>9 DEF FlowInv, Dead
    <2> QED
        BY <1>5, <1>19, <2>2 DEF Trap
<1>20. CASE NoTrap
    <2>1. /\ stack # <<>> /\ Top.fn = Jumper /\ back' /\ jump' = jump /\ backend = "aot" /\ IsRunning
          /\ stack' = InTop([Top EXCEPT !.at = [kind |-> "seed", to |-> Jumper]])
        BY <1>20 DEF NoTrap, Throwing, IsRunning
    <2>2. jump # NoJump /\ (jump \notin {NoJump, Dead} => jump \in Invoking)
        BY <1>1, <2>1 DEF FlowInv
    <2>3. [kind |-> "seed", to |-> Jumper] \in Sites
        BY <1>7 DEF Sites
    <2>4. Invoking' = {i \in Invoking : i <= Depth - 1}
        BY <1>10, <2>1, <2>3
    <2>5. \A i \in Invoking : i <= Depth - 1
        <3>1. Top.at.kind = "running"
            BY <2>1 DEF IsRunning, Running
        <3> QED
            BY <1>1, <3>1 DEF Invoking, Top
    <2>6. jump' \notin {NoJump, Dead} => jump' \in Invoking'
        BY <2>1, <2>2, <2>4, <2>5 DEF Dead
    <2> QED
        BY <1>2, <2>1, <2>2, <2>6 DEF FlowInv
<1>21. CASE Guard
    <2>1. back /\ Top.at.kind # "invoke" /\ backend = "aot" /\ threw # NoJump
        BY <1>21 DEF Guard, WaitsFor
    <2>2. stack # <<>> /\ threw = jump
        BY <1>1, <2>1 DEF StackInv, UnwindInv
    <2>3. PICK s : Pop(s)
        BY <1>21 DEF Guard
    <2>4. CASE Depth = 1
        <3>1. stack' = <<>> /\ jump' = NoJump
            BY <1>1, <2>3, <2>4 DEF Pop
        <3> QED
            BY <1>5, <3>1
    <2>5. CASE Depth # 1
        <3>1. Invoking' = {i \in Invoking : i <= Depth - 1} /\ back' /\ jump' = jump
            BY <1>11, <2>2, <2>3, <2>5
        <3>2. \A i \in Invoking : i <= Depth - 1
            BY <1>1, <2>1 DEF Invoking, Top
        <3>3. jump \notin {NoJump, Dead} => jump \in Invoking
            BY <1>1 DEF FlowInv
        <3>4. jump' \notin {NoJump, Dead} => jump' \in Invoking'
            BY <3>1, <3>2, <3>3 DEF Dead
        <3> QED
            BY <1>2, <2>1, <2>2, <3>1, <3>4 DEF FlowInv
    <2> QED
        BY <2>4, <2>5
\* The top frame runs on, with nothing in flight.
<1>22. ASSUME back, Resume, jump' = NoJump, Top.fn # Jumper,
              backend = "engine" /\ Invoking # {} => threw' = NoJump
       PROVE  FlowInv'
    <2>1. Running \in Sites /\ Running.kind = "running" /\ stack # <<>>
        BY <1>1, <1>22 DEF Running, Sites
    <2>2. Invoking' \subseteq Invoking /\ Top'.fn = Top.fn
        BY <1>10, <1>22, <2>1 DEF Resume
    <2>3. backend = "engine" /\ Invoking' # {} => threw' = NoJump
        BY <1>22, <2>2
    <2> QED
        BY <1>3, <1>22, <2>2, <2>3
<1>23. CASE Continue
    <2>1. back /\ Top.at.kind \in {"call", "indirect", "seed"} /\ Resume /\ threw' = threw /\ jump' = jump
        BY <1>23 DEF Continue, WaitsFor
    <2>2. jump = NoJump
        <3>1. CASE backend = "engine"
            BY <1>1, <2>1, <3>1 DEF FlowInv
        <3>2. CASE backend = "aot"
            <4>1. UnwindInv /\ (Guarded(Top.at) => threw = NoJump)
                BY <1>1, <1>23, <3>2 DEF Continue, StackInv
            <4> QED
                BY <2>1, <4>1 DEF UnwindInv, Guarded
        <3> QED
            BY <1>1, <3>1, <3>2
    <2>3. Top.fn # Jumper
        BY <1>1, <2>1, <2>2 DEF FlowInv
    <2>4. backend = "engine" /\ Invoking # {} => threw' = NoJump
        BY <1>1, <2>1, <2>2 DEF FlowInv
    <2> QED
        BY <1>22, <2>1, <2>2, <2>3, <2>4
<1>24. CASE AfterInvoke
    <2>1. back /\ Top.at.kind = "invoke" /\ stack # <<>>
        BY <1>1, <1>24 DEF AfterInvoke, WaitsFor
    <2>2. Depth \in Invoking /\ Top.fn # Jumper
        BY <1>1, <1>6, <2>1 DEF Invoking, Top, Frames
    <2>3. threw = jump
        <3>1. CASE backend = "engine"
            BY <1>1, <2>2, <3>1 DEF FlowInv
        <3>2. CASE backend = "aot"
            BY <1>1, <3>2 DEF StackInv, UnwindInv
        <3> QED
            BY <1>1, <3>1, <3>2
    <2>4. CASE threw \in {NoJump, Depth}
        <3>1. Resume /\ threw' = NoJump /\ jump' = NoJump
            BY <1>24, <2>3, <2>4 DEF AfterInvoke
        <3> QED
            BY <1>22, <2>1, <2>2, <3>1
    <2>5. CASE threw \notin {NoJump, Depth}
        <3>1. /\ Push(InTop([Top EXCEPT !.at = [kind |-> "call", to |-> Jumper]]), Jumper)
              /\ threw' = threw /\ jump' = jump
            BY <1>24, <2>5 DEF AfterInvoke
        <3>2. jump # NoJump /\ jump # Depth /\ (jump \notin {NoJump, Dead} => jump \in Invoking)
            BY <1>1, <2>3, <2>5 DEF FlowInv
        <3>3. \A i \in Invoking : i # Depth => i <= Depth - 1
            BY <1>1 DEF Invoking
        <3>4. jump' # Dead => jump' \in Invoking /\ jump' <= Depth - 1
            BY <3>1, <3>2, <3>3
        <3> QED
            BY <1>16, <2>1, <2>2, <2>3, <3>1, <3>2, <3>4
    <2> QED
        BY <2>4, <2>5
<1>25. ASSUME UNCHANGED runVars PROVE FlowInv'
    BY <1>1, <1>25 DEF FlowInv, runVars, Top, Depth, Throwing, IsRunning, Invoking
<1>26. CASE Pass \/ UNCHANGED vars
    BY <1>25, <1>26 DEF Pass, vars
<1> QED
    BY <1>12, <1>13, <1>14, <1>15, <1>17, <1>18, <1>19, <1>20, <1>21, <1>23, <1>24, <1>26 DEF Next, Unwind

----------------------------------------------------------------------------
(* What module Sjlj sees.                                                  *)

AbstractFrames == [fn : Funcs, sp : Int]

\* How much of the shadow stack the frames in v use.
SpOf(v) == IF v = <<>> THEN 0 ELSE Abstract!Used(v[Len(v)])

LEMMA ViewOf ==
    ASSUME NEW s \in Seq(Frames)
    PROVE  /\ View(s) \in Seq(AbstractFrames) /\ Len(View(s)) = Len(s)
           /\ \A i \in 1 .. Len(s) : View(s)[i] = [fn |-> s[i].fn, sp |-> s[i].sp - s[1].sp]
           /\ SpIn(s) = SpOf(View(s))
           /\ (s = <<>>) <=> (View(s) = <<>>)
<1>1. Len(s) \in Nat /\ DOMAIN s = 1 .. Len(s)
    OBVIOUS
<1>2. ASSUME NEW i \in 1 .. Len(s) PROVE s[i].fn \in Funcs /\ s[i].sp \in Int /\ s[1].sp \in Int
    <2>1. s[i] \in Frames /\ s[1] \in Frames
        BY <1>1, <1>2
    <2> QED
        BY <2>1, LongjmpAssumption DEF Frames
<1>3. View(s) = [i \in 1 .. Len(s) |-> [fn |-> s[i].fn, sp |-> s[i].sp - s[1].sp]]
    BY <1>1 DEF View
<1>4. View(s) \in [1 .. Len(s) -> AbstractFrames]
    BY <1>2, <1>3 DEF AbstractFrames
<1>5. View(s) \in Seq(AbstractFrames) /\ Len(View(s)) = Len(s)
    BY <1>1, <1>4
<1>6. \A i \in 1 .. Len(s) : View(s)[i] = [fn |-> s[i].fn, sp |-> s[i].sp - s[1].sp]
    BY <1>3
<1>7. (s = <<>>) <=> (View(s) = <<>>)
    BY <1>5
<1>8. SpIn(s) = SpOf(View(s))
    <2>1. CASE s = <<>>
        BY <1>7, <2>1 DEF SpIn, SpOf
    <2>2. CASE s # <<>>
        <3>1. Len(s) \in 1 .. Len(s) /\ View(s) # <<>>
            BY <1>1, <1>7, <2>2
        <3>2. View(s)[Len(View(s))] = [fn |-> s[Len(s)].fn, sp |-> s[Len(s)].sp - s[1].sp]
            BY <1>5, <1>6, <3>1
        <3>3. SpOf(View(s)) = IF s[Len(s)].fn \in prog.alloc
                              THEN s[Len(s)].sp - s[1].sp + 1 ELSE s[Len(s)].sp - s[1].sp
            BY <3>1, <3>2 DEF SpOf, Abstract!Used
        <3>4. SpIn(s) = (IF s[Len(s)].fn \in prog.alloc THEN s[Len(s)].sp + 1 ELSE s[Len(s)].sp) - s[1].sp
            BY <2>2 DEF SpIn, Used, writesSP
        <3>5. s[Len(s)].sp \in Int /\ s[1].sp \in Int
            BY <1>2, <3>1
        <3> QED
            BY <3>3, <3>4, <3>5
    <2> QED
        BY <2>1, <2>2
<1> QED
    BY <1>5, <1>6, <1>7, <1>8

\* The first n frames of s and t are of the same functions and found the same.
Same(s, t, n) == \A i \in 1 .. n : t[i].fn = s[i].fn /\ t[i].sp = s[i].sp

LEMMA ViewPrefix ==
    ASSUME NEW s \in Seq(Frames), NEW t \in Seq(Frames), NEW n \in 0 .. Len(s), Len(t) = n, Same(s, t, n)
    PROVE  View(t) = SubSeq(View(s), 1, n)
<1> DEFINE p == SubSeq(View(s), 1, n)
<1>1. /\ View(s) \in Seq(AbstractFrames) /\ Len(View(s)) = Len(s)
      /\ \A i \in 1 .. Len(s) : View(s)[i] = [fn |-> s[i].fn, sp |-> s[i].sp - s[1].sp]
    BY ViewOf
<1>2. /\ View(t) \in Seq(AbstractFrames) /\ Len(View(t)) = n
      /\ \A i \in 1 .. n : View(t)[i] = [fn |-> t[i].fn, sp |-> t[i].sp - t[1].sp]
    BY ViewOf
<1>3. p \in Seq(AbstractFrames) /\ Len(p) = n /\ \A i \in 1 .. n : p[i] = View(s)[i]
    BY <1>1, Prefix
<1> HIDE DEF p
<1>4. ASSUME NEW i \in 1 .. n PROVE View(t)[i] = p[i]
    <2>1. i \in 1 .. Len(s) /\ 1 \in 1 .. n
        BY <1>4
    <2>2. t[i].fn = s[i].fn /\ t[i].sp = s[i].sp /\ t[1].sp = s[1].sp
        BY <2>1, <1>4 DEF Same
    <2>3. p[i] = [fn |-> s[i].fn, sp |-> s[i].sp - s[1].sp]
        BY <1>1, <1>3, <1>4, <2>1
    <2>4. View(t)[i] = [fn |-> t[i].fn, sp |-> t[i].sp - t[1].sp]
        BY <1>2, <1>4
    <2> QED
        BY <2>2, <2>3, <2>4
<1>5. View(t) = p
    BY <1>2, <1>3, <1>4, SeqEqual
<1> QED
    BY <1>5 DEF p

LEMMA ViewSame ==
    ASSUME NEW s \in Seq(Frames), NEW t \in Seq(Frames), Len(t) = Len(s), Same(s, t, Len(s))
    PROVE  View(t) = View(s)
<1>1. View(t) = SubSeq(View(s), 1, Len(s)) /\ View(s) \in Seq(AbstractFrames) /\ Len(View(s)) = Len(s)
    BY ViewPrefix, ViewOf
<1>2. Len(s) \in Nat
    OBVIOUS
<1> QED
    BY <1>1, <1>2

LEMMA ViewPush ==
    ASSUME NEW s \in Seq(Frames), NEW t \in Seq(Frames), Len(t) = Len(s) + 1, Same(s, t, Len(s)),
           s # <<>> => t[Len(t)].sp = Used(s[Len(s)])
    PROVE  View(t) = Append(View(s), [fn |-> t[Len(t)].fn, sp |-> SpIn(s)])
<1> DEFINE new == [fn |-> t[Len(t)].fn, sp |-> SpIn(s)]
           p == Append(View(s), new)
<1>1. /\ View(s) \in Seq(AbstractFrames) /\ Len(View(s)) = Len(s)
      /\ \A i \in 1 .. Len(s) : View(s)[i] = [fn |-> s[i].fn, sp |-> s[i].sp - s[1].sp]
    BY ViewOf
<1>2. /\ View(t) \in Seq(AbstractFrames) /\ Len(View(t)) = Len(t)
      /\ \A i \in 1 .. Len(t) : View(t)[i] = [fn |-> t[i].fn, sp |-> t[i].sp - t[1].sp]
    BY ViewOf
<1>3. Len(s) \in Nat /\ Len(t) \in 1 .. Len(t)
    OBVIOUS
<1>4. View(t)[Len(t)] = new
    <2>1. View(t)[Len(t)] = [fn |-> t[Len(t)].fn, sp |-> t[Len(t)].sp - t[1].sp]
        BY <1>2, <1>3
    <2>2. t[Len(t)].sp - t[1].sp = SpIn(s)
        <3>1. CASE s = <<>>
            <4>1. t[Len(t)] \in Frames /\ Len(t) = 1
                BY <1>3, <3>1
            <4>2. t[Len(t)].sp \in Int
                BY <4>1, LongjmpAssumption DEF Frames
            <4> QED
                BY <3>1, <4>1, <4>2 DEF SpIn
        <3>2. CASE s # <<>>
            <4>1. 1 \in 1 .. Len(s)
                BY <1>3, <3>2
            <4>2. t[1].sp = s[1].sp
                BY <4>1 DEF Same
            <4> QED
                BY <3>2, <4>2 DEF SpIn
        <3> QED
            BY <3>1, <3>2
    <2> QED
        BY <2>1, <2>2
<1>5. new \in AbstractFrames
    BY <1>2, <1>3, <1>4
<1> HIDE DEF new
<1>6. p \in Seq(AbstractFrames) /\ Len(p) = Len(t) /\ p[Len(t)] = new /\ \A i \in 1 .. Len(s) : p[i] = View(s)[i]
    BY <1>1, <1>3, <1>5
<1> HIDE DEF p
<1>7. ASSUME NEW i \in 1 .. Len(t) PROVE View(t)[i] = p[i]
    <2>1. CASE i = Len(t)
        BY <1>4, <1>6, <2>1
    <2>2. CASE i # Len(t)
        <3>1. i \in 1 .. Len(s) /\ 1 \in 1 .. Len(s)
            BY <1>3, <1>7, <2>2
        <3>2. t[i].fn = s[i].fn /\ t[i].sp = s[i].sp /\ t[1].sp = s[1].sp
            BY <3>1 DEF Same
        <3>3. p[i] = [fn |-> s[i].fn, sp |-> s[i].sp - s[1].sp]
            BY <1>1, <1>6, <3>1
        <3>4. View(t)[i] = [fn |-> t[i].fn, sp |-> t[i].sp - t[1].sp]
            BY <1>2, <1>7
        <3> QED
            BY <3>2, <3>3, <3>4
    <2> QED
        BY <2>1, <2>2
<1>8. View(t) = p
    BY <1>2, <1>6, <1>7, SeqEqual
<1> QED
    BY <1>8 DEF p, new

\* What is left of the stack while a longjmp is under way. SpSeen and ToldSeen follow.
SeenInv ==
    /\ Live \in Seq(Frames)
    /\ jump = NoJump => Live = stack
    /\ jump = Dead => Live = <<>>
    /\ jump \notin {NoJump, Dead} => /\ jump \in 1 .. Depth /\ stack[jump].at.kind = "invoke"
                                     /\ Len(Live) = jump /\ Same(stack, Live, jump)
    /\ SpSeen = SpOf(View(Live))
    /\ ToldSeen = IF jump = Dead THEN "longjmp" ELSE told
    /\ NoJump # Dead

LEMMA Seen == LongjmpInv => SeenInv
<1> SUFFICES ASSUME LongjmpInv PROVE SeenInv
    OBVIOUS
<1>1. TypeOK /\ FrameInv /\ FlowInv /\ stack \in Seq(Frames) /\ Depth = Len(stack) /\ Depth \in Nat
    BY DEF LongjmpInv, TypeInv, TypeOK, Depth
<1>2. NoJump # Dead
    BY LongjmpAssumption DEF NoJump, Dead
<1>3. InFlight <=> jump # NoJump
    BY <1>1 DEF InFlight, FlowInv
<1>4. CASE jump = NoJump
    <2>1. Live = stack /\ SpSeen = IF stack = <<>> THEN 0 ELSE sp - stack[1].sp
        BY <1>3, <1>4 DEF Live, SpSeen
    <2>2. SpSeen = SpIn(stack)
        BY <1>1, <2>1 DEF SpIn, FrameInv, Top
    <2>3. SpSeen = SpOf(View(Live))
        BY <1>1, <2>1, <2>2, ViewOf
    <2>4. ToldSeen = told
        BY <1>2, <1>4 DEF ToldSeen
    <2> QED
        BY <1>1, <1>2, <1>4, <2>1, <2>3, <2>4 DEF SeenInv
<1>5. CASE jump = Dead
    <2>1. Live = <<>> /\ SpSeen = SpIn(<<>>) /\ ToldSeen = "longjmp"
        BY <1>2, <1>3, <1>5 DEF Live, Left, SpSeen, ToldSeen
    <2>2. <<>> \in Seq(Frames)
        OBVIOUS
    <2>3. SpSeen = SpOf(View(Live))
        BY <2>1, <2>2, ViewOf
    <2> QED
        BY <1>2, <1>5, <2>1, <2>2, <2>3 DEF SeenInv
<1>6. CASE jump \notin {NoJump, Dead}
    <2>1. jump \in 1 .. Depth /\ stack[jump].at.kind = "invoke"
        BY <1>1, <1>6 DEF FlowInv, Invoking
    <2>2. Live = SubSeq(stack, 1, jump) /\ SpSeen = SpIn(Live) /\ ToldSeen = told
        BY <1>3, <1>6 DEF Live, Left, SpSeen, ToldSeen
    <2>3. jump \in 0 .. Len(stack)
        BY <1>1, <2>1
    <2>4. Live \in Seq(Frames) /\ Len(Live) = jump /\ \A i \in 1 .. jump : Live[i] = stack[i]
        BY <1>1, <2>2, <2>3, Prefix
    <2>5. SpSeen = SpOf(View(Live))
        BY <2>2, <2>4, ViewOf
    <2>6. Same(stack, Live, jump)
        BY <2>4 DEF Same
    <2> QED
        BY <1>2, <1>6, <2>1, <2>2, <2>4, <2>5, <2>6 DEF SeenInv
<1> QED
    BY <1>4, <1>5, <1>6

\* Every step of the run is a step of module Sjlj or none: a longjmp happens when it is
\* called, and nothing that unwinds the frames can be seen.
LEMMA SjljStep ==
    ASSUME LongjmpInv, LongjmpInv', SeenInv, SeenInv', [Next]_vars
    PROVE  Abstract!Next \/ UNCHANGED Abstract!sjljVars
<1> DEFINE V == View(Live)
<1>1. /\ TypeInv /\ PassInv /\ FrameInv /\ StackInv /\ FlowInv
      /\ TypeOK /\ stack \in Seq(Frames) /\ Depth \in Nat /\ Depth = Len(stack)
      /\ back => stack # <<>>
      /\ backend \in {"engine", "aot"} /\ MaxDepth \in Nat
    BY LongjmpAssumption DEF LongjmpInv, TypeInv, TypeOK, DepthInv, Depth
<1>2. stack' \in Seq(Frames) /\ Len(stack') \in Nat
    BY DEF LongjmpInv, TypeInv, TypeOK
<1>3. prog' = prog /\ backend' = backend
    BY DEF Next, Pass, PassNext, Scan, Propagate, Unwind, runVars, passVars, vars, CallExportRaw, Call,
       CallIndirect, Invoke, Calling, Return, LongJmp, Exit, Trap, NoTrap, Guard, Continue, AfterInvoke
<1>4. UNCHANGED Abstract!Program
    BY <1>3 DEF Abstract!Program, AllCalls, CallsOf, Jumpers
<1>5. Live \in Seq(Frames) /\ Live' \in Seq(Frames) /\ SpSeen = SpOf(V) /\ SpSeen' = SpOf(V)' /\ NoJump # Dead
    BY DEF SeenInv
<1>6. \A v : SpOf(v)' = SpOf(v)
    BY <1>3 DEF SpOf, Abstract!Used
<1>7. V \in Seq(AbstractFrames) /\ Len(V) = Len(Live) /\ ((Live = <<>>) <=> (V = <<>>))
    BY <1>5, ViewOf
<1> HIDE DEF V
\* Nothing is seen.
<1>8. ASSUME V' = V, ToldSeen' = ToldSeen PROVE UNCHANGED Abstract!sjljVars
    <2>1. SpOf(V)' = SpOf(V)
        BY <1>3, <1>8 DEF SpOf, Abstract!Used
    <2>2. SpSeen' = SpSeen
        BY <1>5, <2>1
    <2> QED
        BY <1>4, <1>8, <2>2 DEF Abstract!sjljVars, Abstract!Program, V
<1>9. ASSUME Len(Live') = Len(Live), Same(Live, Live', Len(Live)), ToldSeen' = ToldSeen
      PROVE  UNCHANGED Abstract!sjljVars
    <2>1. V' = V
        BY <1>5, <1>9, ViewSame DEF V
    <2> QED
        BY <1>8, <1>9, <2>1
\* The longjmp is still under way to the same frame, or out.
<1>10. ASSUME jump # NoJump, jump' = jump, told' = told,
              jump # Dead => jump <= Len(stack') /\ Same(stack, stack', jump)
       PROVE  UNCHANGED Abstract!sjljVars
    <2>1. Dead' = Dead /\ ToldSeen' = ToldSeen
        BY <1>10 DEF SeenInv, Dead
    <2>2. CASE jump = Dead
        BY <1>8, <1>10, <2>1, <2>2 DEF SeenInv, V
    <2>3. CASE jump # Dead
        <3>1. Len(Live) = jump /\ Same(stack, Live, jump)
            BY <1>10, <2>3 DEF SeenInv
        <3>2. Len(Live') = jump /\ Same(stack', Live', jump)
            BY <1>10, <2>1, <2>3 DEF SeenInv, NoJump
        <3>3. Same(Live, Live', jump)
            BY <1>10, <2>3, <3>1, <3>2 DEF Same
        <3> QED
            BY <1>9, <2>1, <3>1, <3>2, <3>3
    <2> QED
        BY <2>2, <2>3
\* No longjmp before or after.
<1>11. ASSUME jump = NoJump PROVE Live = stack /\ ToldSeen = told
    BY <1>11 DEF SeenInv
<1>12. ASSUME jump' = NoJump PROVE Live' = stack' /\ ToldSeen' = told'
    BY <1>12 DEF SeenInv, NoJump, Dead
<1>13. ASSUME jump' = Dead PROVE Live' = <<>> /\ ToldSeen' = "longjmp"
    BY <1>13 DEF SeenInv, Dead
\* The export is left.
<1>14. ASSUME NEW what, Live' = <<>>, ToldSeen' = what PROVE Abstract!Emptied(what)
    <2>1. V' = <<>> /\ SpSeen' = 0
        BY <1>5, <1>14 DEF V, View, SpOf
    <2> QED
        BY <1>14, <2>1 DEF Abstract!Emptied, V
\* A frame of f comes on top.
<1>15. ASSUME NEW f \in Funcs, jump = NoJump, jump' = NoJump, Len(stack') = Depth + 1, Same(stack, stack', Depth),
              stack'[Depth + 1].fn = f, stack # <<>> => stack'[Depth + 1].sp = Used(Top)
       PROVE  Abstract!Push(f)
    <2>1. Live = stack /\ Live' = stack'
        BY <1>11, <1>12, <1>15
    <2>2. stack'[Len(stack')].fn = f /\ (stack # <<>> => stack'[Len(stack')].sp = Used(stack[Len(stack)]))
        BY <1>1, <1>15 DEF Top
    <2>3. View(stack') = Append(View(stack), [fn |-> f, sp |-> SpIn(stack)])
        BY <1>1, <1>2, <1>15, <2>2, ViewPush
    <2>4. V' = Append(V, [fn |-> f, sp |-> SpSeen])
        BY <1>1, <1>5, <2>1, <2>3, ViewOf DEF V
    <2>5. V' # <<>> /\ V'[Len(V')] = [fn |-> f, sp |-> SpSeen]
        BY <1>7, <2>4
    <2>6. SpOf(V)' = IF f \in prog.alloc THEN SpSeen + 1 ELSE SpSeen
        BY <1>3, <2>5 DEF SpOf, Abstract!Used
    <2> QED
        BY <1>5, <2>4, <2>6 DEF Abstract!Push, V
<1>16. ASSUME stack # <<>> PROVE Depth \in 1 .. Depth /\ Top \in Frames /\ Depth - 1 \in 0 .. Depth
    BY <1>1, <1>16 DEF Top
\* What the running function is to module Sjlj.
<1>17. ASSUME stack # <<>>, jump = NoJump
       PROVE  V # <<>> /\ Len(V) = Depth /\ Abstract!Top.fn = Top.fn /\ Top.fn \in Funcs
    <2>1. Live = stack
        BY <1>11, <1>17
    <2>2. V # <<>> /\ Len(V) = Depth /\ V[Depth] = [fn |-> stack[Depth].fn, sp |-> stack[Depth].sp - stack[1].sp]
        BY <1>1, <1>16, <1>17, <2>1, ViewOf DEF V
    <2>3. Abstract!Top = V[Depth] /\ Top = stack[Depth]
        BY <2>2 DEF Abstract!Top, V, Top
    <2> QED
        BY <1>16, <1>17, <2>2, <2>3 DEF Frames
\* What the calls do to the frames below.
<1>18. ASSUME stack # <<>>, NEW fr \in Frames, fr.fn = Top.fn, fr.sp = Top.sp, NEW f \in Funcs, Push(InTop(fr), f)
       PROVE  /\ Len(stack') = Depth + 1 /\ Same(stack, stack', Depth)
              /\ stack'[Depth + 1].fn = f /\ stack'[Depth + 1].sp = Used(Top)
    <2>1. /\ Len(stack') = Depth + 1 /\ \A i \in 1 .. Depth - 1 : stack'[i] = stack[i]
          /\ stack'[Depth] = fr /\ stack'[Depth + 1] = Callee(f)
        BY <1>1, <1>18, CallPushes
    <2>2. Same(stack, stack', Depth)
        BY <1>1, <1>18, <2>1 DEF Same, Top
    <2>3. sp = Used(Top)
        BY <1>1, <1>18 DEF FrameInv
    <2> QED
        BY <2>1, <2>2, <2>3 DEF Callee
<1>19. ASSUME stack # <<>>, NEW fr \in Frames, fr.fn = Top.fn, fr.sp = Top.sp, stack' = InTop(fr)
       PROVE  Len(stack') = Depth /\ Same(stack, stack', Depth)
    <2>1. Len(stack') = Depth /\ stack'[Depth] = fr /\ \A i \in 1 .. Depth - 1 : stack'[i] = stack[i]
        BY <1>1, <1>19, InTopTyped
    <2> QED
        BY <1>1, <1>19, <2>1 DEF Same, Top
<1>20. 0 \in 0 .. MaxSp /\ sp \in 0 .. MaxSp /\ Jumper \in Funcs
    BY <1>1, LongjmpAssumption, ProgramAssumption DEF TypeOK
\* The host calls, functions call.
<1>21. ASSUME NEW f \in Exports, CallExportRaw(f) PROVE Abstract!Next
    <2>1. /\ f \in Funcs /\ stack = <<>> /\ jump = NoJump /\ jump' = NoJump
          /\ stack' = Append(<<>>, Callee(f)) /\ told' = "nothing"
        BY <1>1, <1>21, AtRest, LongjmpAssumption DEF CallExportRaw, Push, Callee
    <2>2. Len(stack') = Depth + 1 /\ Same(stack, stack', Depth) /\ stack'[Depth + 1].fn = f
        BY <1>1, <2>1 DEF Same, Callee
    <2>3. Abstract!Push(f)
        BY <1>15, <2>1, <2>2
    <2>4. V = <<>> /\ ToldSeen' = "nothing"
        BY <1>7, <1>11, <1>12, <2>1
    <2>5. Abstract!HostCall(f)
        BY <2>3, <2>4 DEF Abstract!HostCall, V
    <2> QED
        BY <1>4, <2>5 DEF Abstract!Next
<1>22. ASSUME NEW kind \in Calls, NEW f \in Funcs, NEW s \in 0 .. MaxSp, Calling(kind, f, s),
              Top.fn # Jumper, f \in CallsOf(Top.fn)
       PROVE  Abstract!Next
    <2> DEFINE at == [kind |-> kind, to |-> f]
               fr == [Top EXCEPT !.at = at, !.saved = s]
    <2>1. stack # <<>> /\ Push(InTop(fr), f) /\ Depth < MaxDepth /\ jump' = jump /\ told' = told /\ IsRunning
        BY <1>22 DEF Calling, IsRunning
    <2>2. jump = NoJump
        BY <1>1, <1>22, <2>1, AtRest
    <2>3. at \in Sites
        BY DEF Sites, Calls
    <2>4. fr \in Frames /\ fr.fn = Top.fn /\ fr.sp = Top.sp
        <3>1. TypeOK /\ stack # <<>> /\ Top.fn # Jumper
            BY <1>1, <1>22, <2>1
        <3> HIDE DEF at
        <3> QED
            BY <2>3, <3>1, TopMovedSaving
    <2> HIDE DEF fr, at
    <2>5. /\ Len(stack') = Depth + 1 /\ Same(stack, stack', Depth)
          /\ stack'[Depth + 1].fn = f /\ stack'[Depth + 1].sp = Used(Top)
        BY <1>18, <2>1, <2>4
    <2>6. Abstract!Push(f)
        BY <1>15, <2>1, <2>2, <2>5
    <2>7. V # <<>> /\ Len(V) < MaxDepth /\ f \in AllCalls[Abstract!Top.fn]
        BY <1>17, <1>22, <2>1, <2>2 DEF AllCalls
    <2>8. ToldSeen' = ToldSeen
        BY <1>11, <1>12, <2>1, <2>2
    <2>9. Abstract!Call(f)
        BY <2>6, <2>7, <2>8 DEF Abstract!Call, V
    <2>10. View(Live) # <<>> /\ f \in AllCalls[Abstract!Top.fn]
        BY <2>7 DEF V
    <2> QED
        BY <1>4, <2>9, <2>10 DEF Abstract!Next
<1>23. ASSUME NEW f \in Funcs, stack # <<>>, Call(f) \/ CallIndirect(f) \/ Invoke(f) PROVE Abstract!Next
    <2>1. Top.fn # Jumper /\ f # Jumper
        BY <1>1, <1>23, ProgramAssumption DEF Call, CallIndirect, Invoke, PassInv, Compiled
    <2>2. f \in CallsOf(Top.fn)
        BY <1>23, <2>1 DEF Call, CallIndirect, Invoke, CallsOf
    <2>3. \E kind \in Calls, s \in 0 .. MaxSp : Calling(kind, f, s)
        <3>1. CASE Call(f)
            BY <1>20, <3>1 DEF Call, Calls
        <3>2. CASE CallIndirect(f)
            BY <1>20, <3>2 DEF CallIndirect, Calls
        <3>3. CASE Invoke(f)
            BY <1>20, <3>3 DEF Invoke, Calls
        <3> QED
            BY <1>23, <3>1, <3>2, <3>3
    <2> QED
        BY <1>22, <2>1, <2>2, <2>3
\* A function returns.
<1>24. CASE Return
    <2>1. stack # <<>> /\ jump = NoJump /\ Pop(Top.sp) /\ Len(V) = Depth /\ V # <<>>
        BY <1>1, <1>17, <1>24, AtRest DEF Return, IsRunning
    <2>2. CASE Depth = 1
        <3>1. stack' = <<>> /\ jump' = NoJump /\ Leave
            BY <1>1, <2>1, <2>2 DEF Pop
        <3>2. told' = "returned"
            BY <1>1, <2>1, <3>1 DEF Leave, StackInv, UnwindInv
        <3>3. Abstract!Emptied("returned")
            BY <1>12, <1>14, <3>1, <3>2
        <3>4. Abstract!Return
            BY <2>1, <2>2, <3>3 DEF Abstract!Return, V
        <3> QED
            BY <1>4, <3>4 DEF Abstract!Next
    <2>3. CASE Depth # 1
        <3>1. /\ stack' = SubSeq(stack, 1, Depth - 1) /\ jump' = NoJump /\ told' = told
              /\ Depth - 1 \in 0 .. Len(stack) /\ Depth - 1 \in 1 .. Len(stack) - 1 /\ Depth - 1 + 1 = Depth
            BY <1>1, <1>16, <2>1, <2>3 DEF Pop
        <3>2. Len(stack') = Depth - 1 /\ \A i \in 1 .. Depth - 1 : stack'[i] = stack[i]
            BY <1>1, <3>1, Prefix
        <3>3. Same(stack, stack', Depth - 1)
            BY <3>2 DEF Same
        <3>4. View(stack') = SubSeq(View(stack), 1, Depth - 1)
            BY <1>1, <1>2, <3>1, <3>2, <3>3, ViewPrefix
        <3>5. V' = SubSeq(V, 1, Len(V) - 1) /\ ToldSeen' = ToldSeen
            BY <1>11, <1>12, <2>1, <3>1, <3>4 DEF V
        <3>6. SpSeen' = SpIn(stack)' /\ stack' # <<>>
            <4>1. Live' = stack'
                BY <1>12, <3>1
            <4>2. SpIn(stack') = SpOf(View(stack'))
                BY <1>2, ViewOf
            <4>3. SpSeen' = SpOf(View(stack'))
                BY <1>5, <1>6, <4>1 DEF V
            <4>4. SpIn(stack') = SpIn(stack)'
                BY <1>3 DEF SpIn, Used, writesSP
            <4> QED
                BY <1>2, <3>1, <3>2, <4>2, <4>3, <4>4
        <3>7. SpIn(stack)' = stack[Depth].sp - stack[1].sp
            <4>1. stack[Depth].sp = Used(stack[Depth - 1])
                BY <1>1, <3>1 DEF FrameInv, Stacked
            <4>2. stack'[Len(stack')] = stack[Depth - 1] /\ stack'[1] = stack[1]
                BY <3>1, <3>2
            <4>3. SpIn(stack)' = SpIn(stack')
                BY <1>3 DEF SpIn, Used, writesSP
            <4>4. SpIn(stack') = Used(stack[Depth - 1]) - stack[1].sp
                BY <3>6, <4>2 DEF SpIn
            <4> QED
                BY <4>1, <4>3, <4>4
        <3>8. Abstract!Top.sp = stack[Depth].sp - stack[1].sp
            <4>1. View(stack)[Depth] = [fn |-> stack[Depth].fn, sp |-> stack[Depth].sp - stack[1].sp]
                BY <1>1, <1>16, <2>1, ViewOf
            <4> QED
                BY <1>11, <2>1, <4>1 DEF Abstract!Top, V
        <3>9. Abstract!Return
            BY <2>1, <2>3, <3>5, <3>6, <3>7, <3>8 DEF Abstract!Return, V
        <3> QED
            BY <1>4, <3>9 DEF Abstract!Next
    <2> QED
        BY <2>2, <2>3
\* A longjmp: all that follows is not seen.
<1>25. ASSUME NEW env \in 1 .. Dead, LongJmp(env) PROVE Abstract!Next
    <2> DEFINE at == [kind |-> "call", to |-> Jumper]
               fr == [Top EXCEPT !.at = at]
    <2>1. /\ stack # <<>> /\ Top.fn # Jumper /\ Jumper \in prog.calls[Top.fn] /\ jump' = env
          /\ told' = told /\ Push(InTop(fr), Jumper)
        BY <1>1, <1>25 DEF LongJmp, PassInv, Compiled, IsRunning
    <2>2. jump = NoJump
        BY <1>1, <1>25, <2>1, AtRest DEF LongJmp
    <2>3. V # <<>> /\ Len(V) = Depth /\ Abstract!Top.fn \in Jumpers
        BY <1>17, <2>1, <2>2 DEF Jumpers
    <2>4. CASE env = Dead
        <3>1. Abstract!Emptied("longjmp")
            BY <1>13, <1>14, <2>1, <2>4
        <3>2. Abstract!LongJmpOut
            BY <2>3, <3>1 DEF Abstract!LongJmpOut, V
        <3> QED
            BY <1>4, <3>2 DEF Abstract!Next
    <2>5. CASE env # Dead
        <3>1. env \in 1 .. Depth - 1 /\ stack[env].fn \in prog.owners /\ env # NoJump /\ env \in 1 .. Len(stack)
            BY <1>1, <1>25, <2>5 DEF LongJmp, NoJump
        <3>2. at \in Sites
            BY <1>20 DEF Sites
        <3>3. fr \in Frames /\ fr.fn = Top.fn /\ fr.sp = Top.sp
            BY <1>1, <2>1, <3>2, TopMoved
        <3> HIDE DEF fr, at
        <3>4. Same(stack, stack', Depth)
            BY <1>18, <1>20, <2>1, <3>3
        <3>5. Len(Live') = env /\ Same(stack', Live', env) /\ ToldSeen' = told'
            BY <2>1, <2>5, <3>1 DEF SeenInv, NoJump, Dead
        <3>6. Same(stack, Live', env)
            BY <1>1, <3>1, <3>4, <3>5 DEF Same
        <3>7. env \in 0 .. Len(stack)
            BY <3>1
        <3>8. View(Live') = SubSeq(View(stack), 1, env)
            BY <1>1, <1>5, <3>5, <3>6, <3>7, ViewPrefix
        <3>9. V' = SubSeq(V, 1, env) /\ ToldSeen' = ToldSeen
            BY <1>11, <2>1, <2>2, <3>5, <3>8 DEF V
        <3>10. V'[Len(V')] = V[env] /\ V' # <<>>
            <4>1. env \in 0 .. Len(V)
                BY <1>1, <2>3, <3>7
            <4>2. Len(V') = env /\ \A i \in 1 .. env : V'[i] = V[i]
                BY <1>7, <3>9, <4>1, Prefix
            <4> QED
                BY <3>1, <4>2
        <3>11. SpSeen' = Abstract!Used(V[env])
            BY <1>3, <1>5, <3>10 DEF SpOf, Abstract!Used
        <3>12. V[env].fn = stack[env].fn
            <4>1. View(stack)[env] = [fn |-> stack[env].fn, sp |-> stack[env].sp - stack[1].sp]
                BY <1>1, <3>1, ViewOf
            <4>2. V = View(stack)
                BY <1>11, <2>2 DEF V
            <4> QED
                BY <4>1, <4>2
        <3>13. env \in 1 .. Len(V) - 1 /\ V[env].fn \in prog.owners
            BY <2>3, <3>1, <3>12
        <3>14. Abstract!LongJmp(env)
            BY <2>3, <3>9, <3>11, <3>13 DEF Abstract!LongJmp, V
        <3>15. env \in 1 .. MaxDepth
            BY <1>1, <1>25, <2>5 DEF Dead
        <3> QED
            BY <1>4, <3>14, <3>15 DEF Abstract!Next
    <2> QED
        BY <2>4, <2>5
<1>26. CASE Exit
    <2>1. stack # <<>> /\ jump = NoJump /\ jump' = NoJump /\ stack' = <<>> /\ told' = "exit"
        BY <1>1, <1>26, AtRest DEF Exit, IsRunning
    <2>2. Abstract!Emptied("exit")
        BY <1>12, <1>14, <2>1
    <2>3. V # <<>>
        BY <1>17, <2>1
    <2>4. Abstract!Exit
        BY <2>2, <2>3 DEF Abstract!Exit, V
    <2> QED
        BY <1>4, <2>4 DEF Abstract!Next
\* What unwinds.
<1>27. CASE Trap
    <2>1. stack # <<>> /\ jump # NoJump /\ backend = "engine"
        BY <1>1, <1>27 DEF Trap, Throwing, IsRunning, FlowInv
    <2>2. ASSUME NEW i \in Invoking, \A j \in Invoking : j <= i, Catch(i) PROVE UNCHANGED Abstract!sjljVars
        <3>1. i \in 0 .. Len(stack) /\ stack' = SubSeq(stack, 1, i) /\ jump' = jump /\ told' = told
            BY <1>1, <2>2 DEF Invoking, Catch
        <3>2. Len(stack') = i /\ \A j \in 1 .. i : stack'[j] = stack[j]
            BY <1>1, <3>1, Prefix
        <3>3. ASSUME jump # Dead PROVE jump <= Len(stack') /\ Same(stack, stack', jump)
            <4>1. jump \in Invoking /\ jump \in 1 .. Depth
                BY <1>1, <2>1, <3>3 DEF FlowInv, Invoking
            <4>2. jump <= i
                BY <2>2, <4>1
            <4> QED
                BY <3>1, <3>2, <4>1, <4>2 DEF Same
        <3> QED
            BY <1>10, <2>1, <3>1, <3>3
    <2>3. ASSUME Invoking = {}, stack' = <<>>, told' = "longjmp", jump' = NoJump PROVE UNCHANGED Abstract!sjljVars
        <3>1. jump = Dead
            BY <1>1, <2>1, <2>3 DEF FlowInv
        <3>2. Live = <<>> /\ ToldSeen = "longjmp"
            BY <3>1 DEF SeenInv
        <3>3. V' = V /\ ToldSeen' = ToldSeen
            BY <1>12, <2>3, <3>2 DEF V, View
        <3> QED
            BY <1>8, <3>3
    <2> QED
        BY <1>27, <2>2, <2>3 DEF Trap
\* At another control point the frames are the same.
<1>28. ASSUME stack # <<>>, NEW at \in Sites, at.kind \in {"running", "seed"}, stack' = InTop([Top EXCEPT !.at = at])
       PROVE  Len(stack') = Depth /\ Same(stack, stack', Depth)
    <2> DEFINE fr == [Top EXCEPT !.at = at]
    <2>1. fr \in Frames /\ fr.fn = Top.fn /\ fr.sp = Top.sp /\ stack' = InTop(fr)
        BY <1>1, <1>28, TopMoved
    <2> HIDE DEF fr
    <2> QED
        BY <1>19, <1>28, <2>1
<1>29. ASSUME jump \notin {NoJump, Dead} PROVE jump \in 1 .. Depth
    BY <1>1, <1>29 DEF FlowInv, Invoking
<1>30. CASE NoTrap
    <2>1. /\ stack # <<>> /\ jump # NoJump /\ jump' = jump /\ told' = told
          /\ stack' = InTop([Top EXCEPT !.at = [kind |-> "seed", to |-> Jumper]])
        BY <1>1, <1>30 DEF NoTrap, Throwing, IsRunning, FlowInv
    <2>2. [kind |-> "seed", to |-> Jumper] \in Sites
        BY <1>20 DEF Sites
    <2>3. Len(stack') = Depth /\ Same(stack, stack', Depth)
        BY <1>28, <2>1, <2>2
    <2>4. jump # Dead => jump <= Len(stack') /\ Same(stack, stack', jump)
        BY <1>1, <1>29, <2>1, <2>3 DEF Same
    <2> QED
        BY <1>10, <2>1, <2>4
<1>31. CASE Guard
    <2>1. back /\ Top.at.kind # "invoke" /\ backend = "aot" /\ threw # NoJump /\ stack # <<>>
        BY <1>1, <1>31 DEF Guard, WaitsFor
    <2>2. threw = jump /\ jump # NoJump
        BY <1>1, <2>1 DEF StackInv, UnwindInv
    <2>3. jump # Dead => jump \in 1 .. Depth /\ jump # Depth
        BY <1>1, <2>1, <2>2 DEF FlowInv, Invoking, Top
    <2>4. PICK s : Pop(s)
        BY <1>31 DEF Guard
    <2>5. CASE Depth = 1
        <3>1. stack' = <<>> /\ jump' = NoJump /\ told' = "longjmp"
            BY <1>1, <2>1, <2>4, <2>5 DEF Pop, Leave
        <3>2. jump = Dead
            BY <2>3, <2>5
        <3>3. Live = <<>> /\ ToldSeen = "longjmp"
            BY <3>2 DEF SeenInv
        <3>4. V' = V /\ ToldSeen' = ToldSeen
            BY <1>12, <3>1, <3>3 DEF V, View
        <3> QED
            BY <1>8, <3>4
    <2>6. CASE Depth # 1
        <3>1. stack' = SubSeq(stack, 1, Depth - 1) /\ jump' = jump /\ told' = told /\ Depth - 1 \in 0 .. Len(stack)
            BY <1>1, <1>16, <2>1, <2>4, <2>6 DEF Pop
        <3>2. Len(stack') = Depth - 1 /\ \A i \in 1 .. Depth - 1 : stack'[i] = stack[i]
            BY <1>1, <3>1, Prefix
        <3>3. jump # Dead => jump <= Len(stack') /\ Same(stack, stack', jump)
            BY <1>1, <2>3, <3>2 DEF Same
        <3> QED
            BY <1>10, <2>2, <3>1, <3>3
    <2> QED
        BY <2>5, <2>6
<1>32. ASSUME back, Resume PROVE Len(stack') = Depth /\ Same(stack, stack', Depth)
    <2>1. Running \in Sites /\ Running.kind = "running" /\ stack # <<>>
        BY <1>1, <1>32 DEF Running, Sites
    <2> QED
        BY <1>28, <1>32, <2>1 DEF Resume
<1>33. CASE Continue
    <2>1. back /\ Top.at.kind \in {"call", "indirect", "seed"} /\ Resume /\ jump' = jump /\ told' = told
        BY <1>33 DEF Continue, WaitsFor
    <2>2. jump = NoJump
        <3>1. CASE backend = "engine"
            BY <1>1, <2>1, <3>1 DEF FlowInv
        <3>2. CASE backend = "aot"
            <4>1. UnwindInv /\ (Guarded(Top.at) => threw = NoJump)
                BY <1>1, <1>33, <3>2 DEF Continue, StackInv
            <4> QED
                BY <2>1, <4>1 DEF UnwindInv, Guarded
        <3> QED
            BY <1>1, <3>1, <3>2
    <2>3. Len(stack') = Depth /\ Same(stack, stack', Depth)
        BY <1>32, <2>1
    <2> QED
        BY <1>1, <1>9, <1>11, <1>12, <2>1, <2>2, <2>3
<1>34. CASE AfterInvoke
    <2>1. back /\ Top.at.kind = "invoke" /\ stack # <<>> /\ told' = told
        BY <1>1, <1>34 DEF AfterInvoke, WaitsFor
    <2>2. Depth \in Invoking /\ Top.fn # Jumper
        BY <1>1, <1>16, <2>1 DEF Invoking, Top, Frames
    <2>3. threw = jump
        <3>1. CASE backend = "engine"
            BY <1>1, <2>2, <3>1 DEF FlowInv
        <3>2. CASE backend = "aot"
            BY <1>1, <3>2 DEF StackInv, UnwindInv
        <3> QED
            BY <1>1, <3>1, <3>2
    <2>4. CASE threw \in {NoJump, Depth}
        <3>1. Resume /\ jump' = NoJump
            BY <1>34, <2>3, <2>4 DEF AfterInvoke
        <3>2. Len(stack') = Depth /\ Same(stack, stack', Depth)
            BY <1>32, <2>1, <3>1
        <3>3. CASE jump = NoJump
            BY <1>1, <1>9, <1>11, <1>12, <2>1, <3>1, <3>2, <3>3
        <3>4. CASE jump = Depth /\ jump # NoJump
            <4>1. Depth <= MaxDepth
                BY <1>1, <2>1, <2>2 DEF TypeInv, DepthInv
            <4>2. jump # Dead
                BY <1>1, <3>4, <4>1 DEF Dead
            <4>3. Len(Live) = Depth /\ Same(stack, Live, Depth) /\ ToldSeen = told
                BY <3>4, <4>2 DEF SeenInv
            <4>4. Same(Live, Live', Depth)
                BY <1>12, <3>1, <3>2, <4>3 DEF Same
            <4> QED
                BY <1>9, <1>12, <2>1, <3>1, <3>2, <4>3, <4>4
        <3> QED
            BY <2>3, <2>4, <3>3, <3>4
    <2>5. CASE threw \notin {NoJump, Depth}
        <3> DEFINE at == [kind |-> "call", to |-> Jumper]
                   fr == [Top EXCEPT !.at = at]
        <3>1. Push(InTop(fr), Jumper) /\ jump' = jump /\ jump # NoJump
            BY <1>34, <2>3, <2>5 DEF AfterInvoke
        <3>2. at \in Sites
            BY <1>20 DEF Sites
        <3>3. fr \in Frames /\ fr.fn = Top.fn /\ fr.sp = Top.sp
            BY <1>1, <2>1, <2>2, <3>2, TopMoved
        <3> HIDE DEF fr, at
        <3>4. Len(stack') = Depth + 1 /\ Same(stack, stack', Depth)
            BY <1>18, <1>20, <2>1, <3>1, <3>3
        <3>5. jump # Dead => jump <= Len(stack') /\ Same(stack, stack', jump)
            BY <1>1, <1>29, <3>1, <3>4 DEF Same
        <3> QED
            BY <1>10, <2>1, <3>1, <3>5
    <2> QED
        BY <2>4, <2>5
<1>35. CASE Pass \/ UNCHANGED vars
    <2>1. stack' = stack /\ jump' = jump /\ told' = told
        BY <1>35 DEF Pass, vars, runVars
    <2>2. \A n \in Nat : Same(stack, stack', n)
        BY <2>1 DEF Same
    <2>3. CASE jump = NoJump
        BY <1>1, <1>9, <1>11, <1>12, <2>1, <2>2, <2>3
    <2>4. CASE jump # NoJump
        <3>1. jump # Dead => jump <= Len(stack') /\ Same(stack, stack', jump)
            BY <1>1, <1>29, <2>1, <2>2, <2>4
        <3> QED
            BY <1>10, <2>1, <2>4, <3>1
    <2> QED
        BY <2>3, <2>4
<1> QED
    BY <1>21, <1>23, <1>24, <1>25, <1>26, <1>27, <1>30, <1>31, <1>33, <1>34, <1>35 DEF Next, Unwind

\* longjmp does what C says on all backends: whatever traps or guards unwind, the frame
\* that called setjmp goes on with its own stack pointer and nothing runs on the way.
THEOREM LongjmpImplementsSjlj == Spec => ImplementsSjlj
<1>1. Init => LongjmpInv
    <2>1. Init => TypeInv /\ PassInv
        BY TypeInit, PassInitInv DEF Init
    <2>2. Init => Chain(prog, stack) /\ Stacked(stack)
        BY DEF Init, Chain, Stacked
    <2>3. Init => FrameInv
        BY <2>2 DEF Init, FrameInv
    <2>4. Init => StackInv
        BY <2>2 DEF Init, StackInv, UnwindInv, NoJump
    <2>5. Init => FlowInv
        BY DEF Init, FlowInv, NoJump, Invoking, Depth
    <2> QED
        BY <2>1, <2>3, <2>4, <2>5 DEF LongjmpInv
<1>2. LongjmpInv /\ [Next]_vars => LongjmpInv'
    <2> SUFFICES ASSUME LongjmpInv, [Next]_vars PROVE LongjmpInv'
        OBVIOUS
    <2>1. TypeInv /\ PassInv /\ FrameInv /\ StackInv
        BY DEF LongjmpInv
    <2>2. PassNext \/ UNCHANGED passVars
        BY DEF Next, Pass, vars
    <2>3. PassInv'
        BY <2>1, <2>2, PassStepInv, PassSame
    <2> QED
        BY <2>1, <2>3, TypeStep, FrameStep, UnwindStep, FlowStep DEF LongjmpInv
<1>3. Init => Abstract!Init
    <2> SUFFICES ASSUME Init PROVE Abstract!Init
        OBVIOUS
    <2>1. stack = <<>> /\ ~InFlight /\ told = "nothing"
        BY DEF Init, InFlight
    <2> QED
        BY <2>1 DEF Abstract!Init, Live, View, SpSeen, ToldSeen
<1>4. LongjmpInv /\ LongjmpInv' /\ SeenInv /\ SeenInv' /\ [Next]_vars => [Abstract!Next]_(Abstract!sjljVars)
    BY SjljStep
<1>5. Spec => []LongjmpInv
    BY <1>1, <1>2, PTL DEF Spec
<1>6. Spec => [](LongjmpInv /\ SeenInv)
    BY <1>5, Seen, PTL
<1> QED
    BY <1>3, <1>4, <1>6, PTL DEF Spec, ImplementsSjlj, Abstract!Spec
============================================================================
