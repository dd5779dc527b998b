--------------------------- MODULE InitdbProofs ---------------------------
(***************************************************************************)
(* initdb and the commands it starts.  The bridge, for any number of calls *)
(* and any text: one result, one pending command and one capture are       *)
(* enough while initdb has one pipe at a time, and no command ever runs    *)
(* twice.  The commands, whatever they are: postgres is started with what  *)
(* a shell would have given it, and with the data directory.               *)
(***************************************************************************)
EXTENDS InitdbBridge, Commands, SequenceTheorems, WellFoundedInduction, TLAPS

\* A command has not run before its pipe is opened nor while it is pending.
OnceInv ==
    /\ \A c \in Calls : runs[c] \in {0, 1}
    /\ \A c \in Calls : stage[c] = "new" => runs[c] = 0 /\ wrote[c] = <<>>
    /\ pendingPgArgs # None =>
          Open(pendingPgArgs) /\ mode[pendingPgArgs] = "w" /\ runs[pendingPgArgs] = 0

\* With one pipe at a time the pending command is that of the pipe open for
\* writing, and the last result is that of the pipe open for reading.
OnePipeInv ==
    ~nested =>
        /\ \A c, d \in Calls : Open(c) /\ Open(d) => c = d
        /\ \A c \in Calls : Open(c) => mode[c] \in {"r", "w"}
        /\ \A c \in Calls : Open(c) /\ mode[c] = "w" => pendingPgArgs = c
        /\ \A c \in Calls : Open(c) /\ mode[c] = "r" => runs[c] = 1 /\ code[c] = lastPgResult

\* What is captured and what is still buffered is what was written to the pipe.
CaptureInv ==
    ~nested /\ ~mixed => \A c \in Calls : Open(c) /\ mode[c] = "w" =>
        capturedStdout.on /\ capturedStdout.text \o stdout = wrote[c]

BridgeInv == TypeOK /\ OnceInv /\ OnePipeInv /\ CaptureInv /\ PcloseTellsOwn /\ ReadsItsPipe

LEMMA TypeInit == Init => TypeOK
<1> SUFFICES ASSUME Init PROVE TypeOK
  OBVIOUS
<1>1. lastPgResult \in Codes /\ pendingPgArgs \in Calls \union {None}
  BY BridgeAssumption DEF Init
<1>2. <<>> \in Seq(Text)
  OBVIOUS
<1>3. capturedStdout \in [on : BOOLEAN, text : Seq(Text)] /\ popenFile \in Seq(Text) /\ stdout \in Seq(Text)
  BY <1>2 DEF Init, Nothing
<1>4. /\ stage \in [Calls -> {"new", "open", "closed", "failed"}]
      /\ mode \in [Calls -> {"none", "r", "w", "system"}]
      /\ nested \in BOOLEAN /\ mixed \in BOOLEAN
  BY DEF Init
<1>5. wrote \in [Calls -> Seq(Text)] /\ input \in [Calls -> Seq(Text)]
  BY <1>2 DEF Init
<1>6. runs \in [Calls -> Nat] /\ code \in [Calls -> Codes] /\ told \in [Calls -> Codes \union {-1}]
  BY BridgeAssumption DEF Init
<1> QED BY <1>1, <1>3, <1>4, <1>5, <1>6 DEF TypeOK

\* What runCmd leaves is well typed.
LEMMA RunCmdType ==
  ASSUME TypeOK, NEW c \in Calls, NEW stdin \in Seq(Text), NEW result, runCmd(c, stdin, result)
  PROVE  /\ input' \in [Calls -> Seq(Text)]
         /\ runs' \in [Calls -> Nat]
         /\ code' \in [Calls -> Codes]
BY DEF runCmd, TypeOK

\* The capture takes what is written to fd 1 and nothing else changes it.
LEMMA CapturedIs ==
  ASSUME TypeOK, NEW text \in Seq(Text)
  PROVE  /\ Captured(text) \in [on : BOOLEAN, text : Seq(Text)]
         /\ Captured(text).on = capturedStdout.on
         /\ capturedStdout.on => Captured(text).text = capturedStdout.text \o text
<1> DEFINE x == capturedStdout.text \o text
<1>1. capturedStdout \in [on : BOOLEAN, text : Seq(Text)]
  BY DEF TypeOK
<1>2. x \in Seq(Text)
  BY <1>1
<1> HIDE DEF x
<1>3. [capturedStdout EXCEPT !.text = x] \in [on : BOOLEAN, text : Seq(Text)]
  BY <1>1, <1>2
<1>4. /\ [capturedStdout EXCEPT !.text = x].on = capturedStdout.on
      /\ [capturedStdout EXCEPT !.text = x].text = x
  BY <1>1
<1>5. Captured(text) = IF capturedStdout.on THEN [capturedStdout EXCEPT !.text = x] ELSE capturedStdout
  BY DEF Captured, x
<1>6. CASE capturedStdout.on
  BY <1>3, <1>4, <1>5, <1>6 DEF x
<1>7. CASE ~capturedStdout.on
  BY <1>1, <1>5, <1>7
<1> QED BY <1>6, <1>7

LEMMA TypeNext == TypeOK /\ [Next]_vars => TypeOK'
<1> SUFFICES ASSUME TypeOK, [Next]_vars PROVE TypeOK'
  OBVIOUS
<1>1. CASE UNCHANGED vars
  BY <1>1 DEF vars, bridge, calls, TypeOK
<1>2. CASE Chatter
  <2>1. stdout' \in Seq(Text)
    BY <1>2 DEF Chatter, Buffers, TypeOK, Text
  <2>2. mixed' \in BOOLEAN
    BY <1>2 DEF Chatter, TypeOK
  <2> QED BY <1>2, <2>1, <2>2 DEF Chatter, bridge, calls, TypeOK
<1>3. CASE Flush
  <2>1. capturedStdout' \in [on : BOOLEAN, text : Seq(Text)] /\ stdout' \in Seq(Text)
    BY <1>3, CapturedIs DEF Flush, TypeOK
  <2> QED BY <1>3, <2>1 DEF Flush, calls, TypeOK
<1>4. ASSUME NEW c \in Calls, OnSystem(c)
      PROVE  TypeOK'
  <2>1. /\ stage' \in [Calls -> {"new", "open", "closed", "failed"}]
        /\ mode' \in [Calls -> {"none", "r", "w", "system"}]
    BY <1>4 DEF OnSystem, Is, TypeOK
  <2>2. /\ input' \in [Calls -> Seq(Text)]
        /\ runs' \in [Calls -> Nat]
        /\ code' \in [Calls -> Codes]
        /\ told' \in [Calls -> Codes \union {-1}]
    <3>1. CASE \E result \in Codes : runCmd(c, <<>>, result) /\ told' = [told EXCEPT ![c] = result]
      <4>1. <<>> \in Seq(Text)
        OBVIOUS
      <4>2. told' \in [Calls -> Codes \union {-1}]
        BY <3>1 DEF TypeOK
      <4> QED BY <3>1, <4>1, <4>2, RunCmdType
    <3>2. CASE (\E answer \in {-1, 0} : told' = [told EXCEPT ![c] = answer]) /\ UNCHANGED <<input, runs, code>>
      BY <3>2, BridgeAssumption DEF TypeOK
    <3> QED BY <1>4, <3>1, <3>2 DEF OnSystem
  <2> QED BY <1>4, <2>1, <2>2 DEF OnSystem, bridge, TypeOK
<1>5. ASSUME NEW c \in Calls, PopenOther(c)
      PROVE  TypeOK'
  BY <1>5 DEF PopenOther, Is, bridge, TypeOK
<1>6. ASSUME NEW c \in Calls, PopenRead(c)
      PROVE  TypeOK'
  <2>1. /\ stage' \in [Calls -> {"new", "open", "closed", "failed"}]
        /\ mode' \in [Calls -> {"none", "r", "w", "system"}]
    BY <1>6 DEF PopenRead, Is, TypeOK
  <2>2. <<>> \in Seq(Text)
    OBVIOUS
  <2>3. PICK result \in Codes : runCmd(c, <<>>, result) /\ lastPgResult' = result
    BY <1>6 DEF PopenRead
  <2>4. popenFile' \in Seq(Text)
    BY <1>6 DEF PopenRead, Text
  <2>5. nested' \in BOOLEAN
    BY <1>6 DEF PopenRead, Nests, TypeOK
  <2> QED BY <1>6, <2>1, <2>2, <2>3, <2>4, <2>5, RunCmdType DEF PopenRead, TypeOK
<1>7. ASSUME NEW c \in Calls, PopenWrite(c)
      PROVE  TypeOK'
  <2>1. /\ stage' \in [Calls -> {"new", "open", "closed", "failed"}]
        /\ mode' \in [Calls -> {"none", "r", "w", "system"}]
    BY <1>7 DEF PopenWrite, Is, TypeOK
  <2>2. nested' \in BOOLEAN /\ mixed' \in BOOLEAN
    BY <1>7 DEF PopenWrite, Nests, TypeOK
  <2>3. capturedStdout' \in [on : BOOLEAN, text : Seq(Text)] /\ pendingPgArgs' \in Calls \union {None}
    BY <1>7 DEF PopenWrite
  <2> QED BY <1>7, <2>1, <2>2, <2>3 DEF PopenWrite, TypeOK
<1>8. ASSUME NEW c \in Calls, PclosePending(c)
      PROVE  TypeOK'
  <2>1. Flushed(c) \in [on : BOOLEAN, text : Seq(Text)]
    BY CapturedIs DEF Flushed, TypeOK
  <2>2. popenFile' \in Seq(Text)
    BY <1>8, <2>1 DEF PclosePending, TypeOK
  <2>3. stdout' \in Seq(Text)
    BY <1>8 DEF PclosePending, TypeOK
  <2>4. PICK result \in Codes : /\ runCmd(pendingPgArgs, popenFile', result)
                                /\ lastPgResult' = result
                                /\ told' = [told EXCEPT ![c] = result]
    BY <1>8 DEF PclosePending
  <2>5. pendingPgArgs \in Calls
    BY <1>8 DEF PclosePending, TypeOK
  <2>6. /\ input' \in [Calls -> Seq(Text)]
        /\ runs' \in [Calls -> Nat]
        /\ code' \in [Calls -> Codes]
    BY <2>2, <2>4, <2>5, RunCmdType
  <2>7. told' \in [Calls -> Codes \union {-1}] /\ lastPgResult' \in Codes
    BY <2>4 DEF TypeOK
  <2>8. stage' \in [Calls -> {"new", "open", "closed", "failed"}]
    BY <1>8 DEF PclosePending, TypeOK
  <2>9. capturedStdout' \in [on : BOOLEAN, text : Seq(Text)] /\ pendingPgArgs' \in Calls \union {None}
    BY <1>8 DEF PclosePending, Nothing
  <2> QED BY <1>8, <2>2, <2>3, <2>6, <2>7, <2>8, <2>9 DEF PclosePending, TypeOK
<1>9. ASSUME NEW c \in Calls, PcloseLast(c)
      PROVE  TypeOK'
  BY <1>9 DEF PcloseLast, bridge, TypeOK
<1>10. ASSUME NEW c \in Calls, Puts(c)
      PROVE  TypeOK'
  <2>1. stdout' \in Seq(Text) /\ wrote' \in [Calls -> Seq(Text)]
    BY <1>10 DEF Puts, Buffers, TypeOK, Text
  <2> QED BY <1>10, <2>1 DEF Puts, bridge, TypeOK
<1> QED BY <1>1, <1>2, <1>3, <1>4, <1>5, <1>6, <1>7, <1>8, <1>9, <1>10 DEF Next
----------------------------------------------------------------------------

LEMMA NoneIsNoCall == \A c \in Calls : c # None
BY BridgeAssumption DEF None

LEMMA OnceNext == TypeOK /\ OnceInv /\ [Next]_vars => OnceInv'
<1> SUFFICES ASSUME TypeOK, OnceInv, [Next]_vars PROVE OnceInv'
  OBVIOUS
<1>1. CASE UNCHANGED vars
  BY <1>1 DEF vars, bridge, calls, OnceInv, Open
<1>2. CASE Chatter
  BY <1>2 DEF Chatter, bridge, calls, OnceInv, Open
<1>3. CASE Flush
  BY <1>3 DEF Flush, calls, OnceInv, Open
<1>4. ASSUME NEW c \in Calls, OnSystem(c)
      PROVE  OnceInv'
  <2>1. stage[c] = "new" /\ stage' = [stage EXCEPT ![c] = "closed"] /\ mode' = [mode EXCEPT ![c] = "system"]
    BY <1>4 DEF OnSystem, Is
  <2>2. runs' = [runs EXCEPT ![c] = @ + 1] \/ runs' = runs
    BY <1>4 DEF OnSystem, runCmd
  <2>3. UNCHANGED <<pendingPgArgs, wrote>>
    BY <1>4 DEF OnSystem, bridge
  <2>4. runs[c] = 0
    BY <2>1 DEF OnceInv
  <2>5. \A d \in Calls : runs'[d] \in {0, 1}
    BY <2>2, <2>4 DEF OnceInv, TypeOK
  <2>6. \A d \in Calls : d # c => stage'[d] = stage[d] /\ mode'[d] = mode[d] /\ runs'[d] = runs[d]
    BY <2>1, <2>2 DEF TypeOK
  <2>7. stage'[c] = "closed"
    BY <2>1 DEF TypeOK
  <2>8. pendingPgArgs # None => pendingPgArgs \in Calls /\ pendingPgArgs # c
    BY <2>1 DEF OnceInv, Open, TypeOK
  <2> QED BY <2>3, <2>5, <2>6, <2>7, <2>8 DEF OnceInv, Open
<1>5. ASSUME NEW c \in Calls, PopenOther(c)
      PROVE  OnceInv'
  BY <1>5 DEF PopenOther, Is, bridge, OnceInv, Open, TypeOK
<1>6. ASSUME NEW c \in Calls, PopenRead(c)
      PROVE  OnceInv'
  <2>1. PICK s \in {"open", "failed"} : stage' = [stage EXCEPT ![c] = s] /\ mode' = [mode EXCEPT ![c] = "r"]
    BY <1>6 DEF PopenRead, Is
  <2>2. /\ stage[c] = "new" /\ runs[c] = 0
        /\ runs' = [runs EXCEPT ![c] = @ + 1]
        /\ UNCHANGED <<pendingPgArgs, wrote>>
    BY <1>6 DEF PopenRead, runCmd, OnceInv
  <2> QED BY <2>1, <2>2 DEF OnceInv, Open, TypeOK
<1>7. ASSUME NEW c \in Calls, PopenWrite(c)
      PROVE  OnceInv'
  BY <1>7 DEF PopenWrite, Is, OnceInv, Open, TypeOK
<1>8. ASSUME NEW c \in Calls, PclosePending(c)
      PROVE  OnceInv'
  <2>1. pendingPgArgs \in Calls /\ runs[pendingPgArgs] = 0 /\ stage[pendingPgArgs] = "open"
    BY <1>8 DEF PclosePending, OnceInv, Open, TypeOK
  <2>2. runs' = [runs EXCEPT ![pendingPgArgs] = @ + 1] /\ pendingPgArgs' = None
    BY <1>8 DEF PclosePending, runCmd
  <2>3. stage' = [stage EXCEPT ![c] = "closed"] /\ UNCHANGED wrote
    BY <1>8 DEF PclosePending
  <2> QED BY <2>1, <2>2, <2>3 DEF OnceInv, TypeOK
<1>9. ASSUME NEW c \in Calls, PcloseLast(c)
      PROVE  OnceInv'
  BY <1>9 DEF PcloseLast, bridge, OnceInv, Open, TypeOK
<1>10. ASSUME NEW c \in Calls, Puts(c)
      PROVE  OnceInv'
  BY <1>10 DEF Puts, bridge, OnceInv, Open, TypeOK
<1> QED BY <1>1, <1>2, <1>3, <1>4, <1>5, <1>6, <1>7, <1>8, <1>9, <1>10 DEF Next

\* While no pipes nest, a pipe is opened when none is open, and none is open once
\* one is closed.
LEMMA OpensAlone ==
  ASSUME NEW c \in Calls, PopenRead(c) \/ PopenWrite(c), TypeOK, ~nested'
  PROVE  ~nested /\ \A d \in Calls : d # c => ~Open(d) /\ ~Open(d)'
<1>1. ~nested /\ \A d \in Calls : ~Open(d)
  BY DEF PopenRead, PopenWrite, Nests
<1>2. \E s \in {"open", "failed"} : stage' = [stage EXCEPT ![c] = s]
  BY DEF PopenRead, PopenWrite, Is
<1> QED BY <1>1, <1>2 DEF Open, TypeOK

LEMMA ClosesLast ==
  ASSUME NEW c \in Calls, PclosePending(c) \/ PcloseLast(c), TypeOK, OnePipeInv, ~nested'
  PROVE  /\ ~nested /\ Open(c)
         /\ \A d \in Calls : ~Open(d)'
         /\ \A d \in Calls : d # c => stage'[d] = stage[d]
<1>1. ~nested /\ Open(c) /\ stage' = [stage EXCEPT ![c] = "closed"]
  BY DEF PclosePending, PcloseLast
<1>2. \A d \in Calls : Open(d) => d = c
  BY <1>1 DEF OnePipeInv
<1> QED BY <1>1, <1>2 DEF Open, TypeOK

\* ... and the command that runs then is that of the pipe that is closed.
LEMMA ClosesOwn ==
  ASSUME NEW c \in Calls, PclosePending(c), TypeOK, OnceInv, OnePipeInv, ~nested'
  PROVE  pendingPgArgs = c /\ mode[c] = "w" /\ runs[c] = 0
<1>1. pendingPgArgs \in Calls /\ Open(pendingPgArgs) /\ mode[pendingPgArgs] = "w" /\ runs[pendingPgArgs] = 0
  BY DEF PclosePending, OnceInv, TypeOK
<1>2. ~nested /\ Open(c)
  BY ClosesLast
<1>3. pendingPgArgs = c
  BY <1>1, <1>2 DEF OnePipeInv
<1> QED BY <1>1, <1>3

LEMMA OnePipeNext == TypeOK /\ OnceInv /\ OnePipeInv /\ [Next]_vars => OnePipeInv'
<1> SUFFICES ASSUME TypeOK, OnceInv, OnePipeInv, [Next]_vars, ~nested' PROVE OnePipeInv'
  BY DEF OnePipeInv
<1>1. CASE UNCHANGED vars
  BY <1>1 DEF vars, bridge, calls, OnePipeInv, Open
<1>2. CASE Chatter
  BY <1>2 DEF Chatter, bridge, calls, OnePipeInv, Open
<1>3. CASE Flush
  BY <1>3 DEF Flush, calls, OnePipeInv, Open
<1>4. ASSUME NEW c \in Calls, OnSystem(c)
      PROVE  OnePipeInv'
  <2>1. stage' = [stage EXCEPT ![c] = "closed"] /\ mode' = [mode EXCEPT ![c] = "system"]
    BY <1>4 DEF OnSystem, Is
  <2>2. \A d \in Calls : d # c => runs'[d] = runs[d] /\ code'[d] = code[d]
    BY <1>4 DEF OnSystem, runCmd, TypeOK
  <2>3. UNCHANGED <<lastPgResult, pendingPgArgs, nested>>
    BY <1>4 DEF OnSystem, bridge
  <2> QED BY <2>1, <2>2, <2>3 DEF OnePipeInv, Open, TypeOK
<1>5. ASSUME NEW c \in Calls, PopenOther(c)
      PROVE  OnePipeInv'
  BY <1>5 DEF PopenOther, Is, bridge, OnePipeInv, Open, TypeOK
<1>6. ASSUME NEW c \in Calls, PopenRead(c)
      PROVE  OnePipeInv'
  <2>1. \A d \in Calls : Open(d)' => d = c
    BY <1>6, OpensAlone
  <2>2. mode'[c] = "r"
    BY <1>6 DEF PopenRead, Is, TypeOK
  <2>3. PICK result \in Codes : runCmd(c, <<>>, result) /\ lastPgResult' = result
    BY <1>6 DEF PopenRead
  <2>4. runs[c] = 0
    BY <1>6 DEF PopenRead, OnceInv
  <2>5. runs'[c] = 1 /\ code'[c] = lastPgResult'
    BY <2>3, <2>4 DEF runCmd, TypeOK
  <2> QED BY <2>1, <2>2, <2>5 DEF OnePipeInv
<1>7. ASSUME NEW c \in Calls, PopenWrite(c)
      PROVE  OnePipeInv'
  <2>1. \A d \in Calls : Open(d)' => d = c
    BY <1>7, OpensAlone
  <2>2. mode'[c] = "w" /\ pendingPgArgs' = c
    BY <1>7 DEF PopenWrite, Is, TypeOK
  <2> QED BY <2>1, <2>2 DEF OnePipeInv
<1>8. ASSUME NEW c \in Calls, PclosePending(c) \/ PcloseLast(c)
      PROVE  OnePipeInv'
  BY <1>8, ClosesLast DEF OnePipeInv
<1>9. ASSUME NEW c \in Calls, Puts(c)
      PROVE  OnePipeInv'
  BY <1>9 DEF Puts, bridge, OnePipeInv, Open
<1> QED BY <1>1, <1>2, <1>3, <1>4, <1>5, <1>6, <1>7, <1>8, <1>9 DEF Next

LEMMA CaptureNext == TypeOK /\ OnceInv /\ OnePipeInv /\ CaptureInv /\ [Next]_vars => CaptureInv'
<1> SUFFICES ASSUME TypeOK, OnceInv, OnePipeInv, CaptureInv, [Next]_vars, ~nested', ~mixed'
             PROVE  CaptureInv'
  BY DEF CaptureInv
<1> DEFINE text == capturedStdout.text
<1>0. text \in Seq(Text) /\ stdout \in Seq(Text)
  BY DEF TypeOK
<1>1. CASE UNCHANGED vars
  BY <1>1 DEF vars, bridge, calls, CaptureInv, Open
<1>2. CASE Chatter
  BY <1>2 DEF Chatter, bridge, calls, CaptureInv, Open
<1>3. CASE Flush
  <2>1. capturedStdout'.on = capturedStdout.on /\ stdout' = <<>>
    BY <1>0, <1>3, CapturedIs DEF Flush
  <2>2. capturedStdout.on => capturedStdout'.text = text \o stdout
    BY <1>0, <1>3, CapturedIs DEF Flush
  <2>3. text \o stdout \in Seq(Text)
    BY <1>0
  <2>4. capturedStdout.on => capturedStdout'.text \o stdout' = text \o stdout
    BY <2>1, <2>2, <2>3, ConcatEmptySeq
  <2> QED BY <1>3, <2>1, <2>4 DEF Flush, calls, CaptureInv, Open
<1>4. ASSUME NEW c \in Calls, OnSystem(c) \/ PopenOther(c)
      PROVE  CaptureInv'
  <2>1. \E s \in {"closed", "failed"} : \E m : stage' = [stage EXCEPT ![c] = s] /\ mode' = [mode EXCEPT ![c] = m]
    BY <1>4 DEF OnSystem, PopenOther, Is
  <2>2. UNCHANGED <<capturedStdout, stdout, wrote, nested, mixed>>
    BY <1>4 DEF OnSystem, PopenOther, bridge
  <2> QED BY <2>1, <2>2 DEF CaptureInv, Open, TypeOK
<1>5. ASSUME NEW c \in Calls, PopenRead(c)
      PROVE  CaptureInv'
  <2>1. mode'[c] = "r"
    BY <1>5 DEF PopenRead, Is, TypeOK
  <2> QED BY <1>5, <2>1, OpensAlone DEF CaptureInv
<1>6. ASSUME NEW c \in Calls, PopenWrite(c)
      PROVE  CaptureInv'
  <2>1. stdout = <<>> /\ stdout' = <<>>
    BY <1>6 DEF PopenWrite
  <2>2. capturedStdout'.on /\ capturedStdout'.text = <<>>
    BY <1>6 DEF PopenWrite
  <2>3. wrote'[c] = <<>>
    BY <1>6 DEF PopenWrite, OnceInv
  <2>4. capturedStdout'.text \o stdout' = wrote'[c]
    BY <2>1, <2>2, <2>3
  <2> QED BY <1>6, <2>2, <2>4, OpensAlone DEF CaptureInv
<1>7. ASSUME NEW c \in Calls, PclosePending(c) \/ PcloseLast(c)
      PROVE  CaptureInv'
  BY <1>7, ClosesLast DEF CaptureInv
<1>8. ASSUME NEW c \in Calls, Puts(c)
      PROVE  CaptureInv'
  <2>1. /\ Open(c) /\ mode[c] = "w" /\ ~nested /\ ~mixed
        /\ UNCHANGED <<capturedStdout, stage, mode>>
        /\ stdout' = Append(stdout, c)
        /\ wrote' = [wrote EXCEPT ![c] = Append(@, c)]
    BY <1>8 DEF Puts, Buffers, bridge
  <2>2. capturedStdout.on /\ text \o stdout = wrote[c]
    BY <2>1 DEF CaptureInv
  <2>3. c \in Text
    BY DEF Text
  <2>4. text \o Append(stdout, c) = Append(text \o stdout, c)
    <3>1. <<c>> \in Seq(Text) /\ text \o stdout \in Seq(Text)
      BY <1>0, <2>3
    <3>2. Append(stdout, c) = stdout \o <<c>> /\ Append(text \o stdout, c) = (text \o stdout) \o <<c>>
      <4>1. \A s \in Seq(Text) : Append(s, c) = s \o <<c>>
        BY <2>3, AppendIsConcat
      <4> QED BY <1>0, <3>1, <4>1
    <3>3. (text \o stdout) \o <<c>> = text \o (stdout \o <<c>>)
      <4> HIDE DEF text
      <4>1. \A u \in Seq(Text) : (text \o stdout) \o u = text \o (stdout \o u)
        BY <1>0, ConcatAssociative
      <4> QED BY <3>1, <4>1
    <3> QED BY <3>2, <3>3
  <2>5. wrote'[c] = Append(wrote[c], c)
    BY <2>1 DEF TypeOK
  <2>6. capturedStdout'.on /\ capturedStdout'.text \o stdout' = wrote'[c]
    BY <2>1, <2>2, <2>4, <2>5
  <2>7. \A d \in Calls : Open(d)' => d = c
    BY <2>1 DEF OnePipeInv, Open
  <2> QED BY <2>6, <2>7 DEF CaptureInv
<1> QED BY <1>1, <1>2, <1>3, <1>4, <1>5, <1>6, <1>7, <1>8 DEF Next
LEMMA TellsNext ==
  TypeOK /\ OnceInv /\ OnePipeInv /\ PcloseTellsOwn /\ [Next]_vars => PcloseTellsOwn'
<1> SUFFICES ASSUME TypeOK, OnceInv, OnePipeInv, PcloseTellsOwn, [Next]_vars, ~nested'
             PROVE  PcloseTellsOwn'
  BY DEF PcloseTellsOwn
<1>1. CASE UNCHANGED vars
  BY <1>1 DEF vars, bridge, calls, PcloseTellsOwn
<1>2. CASE Chatter \/ Flush
  BY <1>2 DEF Chatter, Flush, bridge, calls, PcloseTellsOwn
<1>3. ASSUME NEW c \in Calls, OnSystem(c)
      PROVE  PcloseTellsOwn'
  <2>1. /\ stage' = [stage EXCEPT ![c] = "closed"]
        /\ mode' = [mode EXCEPT ![c] = "system"]
        /\ UNCHANGED nested
    BY <1>3 DEF OnSystem, Is
  <2>2. \A d \in Calls : d # c => runs'[d] = runs[d] /\ code'[d] = code[d] /\ told'[d] = told[d]
    BY <1>3 DEF OnSystem, runCmd, TypeOK
  <2> QED BY <2>1, <2>2 DEF PcloseTellsOwn, TypeOK
<1>4. ASSUME NEW c \in Calls, PopenOther(c)
      PROVE  PcloseTellsOwn'
  BY <1>4 DEF PopenOther, Is, PcloseTellsOwn, TypeOK
<1>5. ASSUME NEW c \in Calls, PopenRead(c)
      PROVE  PcloseTellsOwn'
  <2>1. PICK s \in {"open", "failed"} : stage' = [stage EXCEPT ![c] = s] /\ mode' = [mode EXCEPT ![c] = "r"]
    BY <1>5 DEF PopenRead, Is
  <2>2. \A d \in Calls : d # c => runs'[d] = runs[d] /\ code'[d] = code[d] /\ told'[d] = told[d]
    BY <1>5 DEF PopenRead, runCmd, TypeOK
  <2>3. ~nested
    BY <1>5, OpensAlone
  <2> QED BY <2>1, <2>2, <2>3 DEF PcloseTellsOwn, TypeOK
<1>6. ASSUME NEW c \in Calls, PopenWrite(c)
      PROVE  PcloseTellsOwn'
  <2>1. ~nested
    BY <1>6, OpensAlone
  <2> QED BY <1>6, <2>1 DEF PopenWrite, Is, PcloseTellsOwn, TypeOK
<1>7. ASSUME NEW c \in Calls, PclosePending(c)
      PROVE  PcloseTellsOwn'
  <2>1. pendingPgArgs = c /\ runs[c] = 0 /\ ~nested
    BY <1>7, ClosesOwn, ClosesLast
  <2>2. PICK result \in Codes : /\ runCmd(c, popenFile', result)
                                /\ told' = [told EXCEPT ![c] = result]
    BY <1>7, <2>1 DEF PclosePending
  <2>3. runs'[c] = 1 /\ told'[c] = code'[c]
    BY <2>1, <2>2 DEF runCmd, TypeOK
  <2>4. \A d \in Calls : d # c => runs'[d] = runs[d] /\ code'[d] = code[d] /\ told'[d] = told[d]
    BY <2>2 DEF runCmd, TypeOK
  <2>5. \A d \in Calls : d # c => stage'[d] = stage[d] /\ mode'[d] = mode[d]
    BY <1>7, ClosesLast DEF PclosePending
  <2> QED BY <2>1, <2>3, <2>4, <2>5 DEF PcloseTellsOwn
<1>8. ASSUME NEW c \in Calls, PcloseLast(c)
      PROVE  PcloseTellsOwn'
  <2>1. /\ ~nested /\ Open(c) /\ c # None
        /\ \A d \in Calls : d # c => stage'[d] = stage[d]
    BY <1>8, ClosesLast, NoneIsNoCall
  <2>2. mode[c] \in {"r", "w"} /\ (mode[c] = "w" => pendingPgArgs = c)
    BY <2>1 DEF OnePipeInv
  <2>3. mode[c] = "r"
    BY <1>8, <2>1, <2>2 DEF PcloseLast
  <2>4. runs[c] = 1 /\ code[c] = lastPgResult
    BY <2>1, <2>3 DEF OnePipeInv
  <2>5. told'[c] = lastPgResult /\ \A d \in Calls : d # c => told'[d] = told[d]
    BY <1>8 DEF PcloseLast, TypeOK
  <2>6. UNCHANGED <<runs, code, mode>>
    BY <1>8 DEF PcloseLast
  <2> QED BY <2>1, <2>4, <2>5, <2>6 DEF PcloseTellsOwn
<1>9. ASSUME NEW c \in Calls, Puts(c)
      PROVE  PcloseTellsOwn'
  BY <1>9 DEF Puts, bridge, PcloseTellsOwn
<1> QED BY <1>1, <1>2, <1>3, <1>4, <1>5, <1>6, <1>7, <1>8, <1>9 DEF Next

LEMMA ReadsNext ==
  TypeOK /\ OnceInv /\ OnePipeInv /\ CaptureInv /\ ReadsItsPipe /\ [Next]_vars => ReadsItsPipe'
<1> SUFFICES ASSUME TypeOK, OnceInv, OnePipeInv, CaptureInv, ReadsItsPipe, [Next]_vars, ~nested'
             PROVE  ReadsItsPipe'
  BY DEF ReadsItsPipe
<1>1. CASE UNCHANGED vars
  BY <1>1 DEF vars, bridge, calls, ReadsItsPipe, Open
<1>2. CASE Chatter
  BY <1>2 DEF Chatter, bridge, calls, ReadsItsPipe, Open
<1>3. CASE Flush
  BY <1>3 DEF Flush, calls, ReadsItsPipe, Open
<1>4. ASSUME NEW c \in Calls, OnSystem(c)
      PROVE  ReadsItsPipe'
  <2>1. stage' = [stage EXCEPT ![c] = "closed"] /\ mode' = [mode EXCEPT ![c] = "system"]
    BY <1>4 DEF OnSystem, Is
  <2>2. \A d \in Calls : d # c => input'[d] = input[d]
    BY <1>4 DEF OnSystem, runCmd, TypeOK
  <2>3. UNCHANGED <<popenFile, wrote, nested, mixed>>
    BY <1>4 DEF OnSystem, bridge
  <2> QED BY <2>1, <2>2, <2>3 DEF ReadsItsPipe, Open, TypeOK
<1>5. ASSUME NEW c \in Calls, PopenOther(c)
      PROVE  ReadsItsPipe'
  BY <1>5 DEF PopenOther, Is, bridge, ReadsItsPipe, Open, TypeOK
<1>6. ASSUME NEW c \in Calls, PopenRead(c)
      PROVE  ReadsItsPipe'
  <2>1. PICK s \in {"open", "failed"} : stage' = [stage EXCEPT ![c] = s] /\ mode' = [mode EXCEPT ![c] = "r"]
    BY <1>6 DEF PopenRead, Is
  <2>2. \A d \in Calls : d # c => input'[d] = input[d] /\ stage'[d] = stage[d] /\ mode'[d] = mode[d]
    BY <1>6, <2>1 DEF PopenRead, runCmd, TypeOK
  <2>3. ~nested /\ \A d \in Calls : d # c => ~Open(d)'
    BY <1>6, OpensAlone
  <2>4. popenFile' = <<c>> /\ UNCHANGED <<wrote, mixed>>
    BY <1>6 DEF PopenRead
  <2>5. mode'[c] = "r"
    BY <2>1 DEF TypeOK
  <2> QED BY <2>2, <2>3, <2>4, <2>5 DEF ReadsItsPipe
<1>7. ASSUME NEW c \in Calls, PopenWrite(c)
      PROVE  ReadsItsPipe'
  <2>1. stage' = [stage EXCEPT ![c] = "open"] /\ mode' = [mode EXCEPT ![c] = "w"]
    BY <1>7 DEF PopenWrite, Is
  <2>2. ~nested /\ \A d \in Calls : d # c => ~Open(d)'
    BY <1>7, OpensAlone
  <2>3. UNCHANGED <<input, wrote>> /\ (~mixed' => ~mixed)
    BY <1>7 DEF PopenWrite
  <2>4. mode'[c] = "w" /\ stage'[c] = "open"
    BY <2>1 DEF TypeOK
  <2>5. \A d \in Calls : d # c => stage'[d] = stage[d] /\ mode'[d] = mode[d]
    BY <2>1 DEF TypeOK
  <2> QED BY <2>2, <2>3, <2>4, <2>5 DEF ReadsItsPipe
<1>8. ASSUME NEW c \in Calls, PclosePending(c)
      PROVE  ReadsItsPipe'
  <2>1. pendingPgArgs = c /\ mode[c] = "w" /\ ~nested /\ Open(c)
    BY <1>8, ClosesOwn, ClosesLast
  <2>2. /\ \A d \in Calls : ~Open(d)'
        /\ \A d \in Calls : d # c => stage'[d] = stage[d]
    BY <1>8, ClosesLast
  <2>3. UNCHANGED <<mode, wrote, mixed>>
    BY <1>8 DEF PclosePending
  <2>4. PICK result \in Codes : runCmd(c, popenFile', result)
    BY <1>8, <2>1 DEF PclosePending
  <2>5. input'[c] = popenFile' /\ \A d \in Calls : d # c => input'[d] = input[d]
    BY <2>4 DEF runCmd, TypeOK
  <2>6. ~mixed => popenFile' = wrote[c]
    <3>1. SUFFICES ASSUME ~mixed PROVE popenFile' = wrote[c]
      OBVIOUS
    <3>2. capturedStdout.on /\ capturedStdout.text \o stdout = wrote[c]
      BY <2>1, <3>1 DEF CaptureInv
    <3>3. stdout \in Seq(Text)
      BY DEF TypeOK
    <3>4. Captured(stdout).text = wrote[c]
      BY <3>2, <3>3, CapturedIs
    <3>5. popenFile' = Captured(stdout).text
      BY <1>8, <2>1, <3>2 DEF PclosePending, Flushed
    <3> QED BY <3>4, <3>5
  <2> QED BY <2>1, <2>2, <2>3, <2>5, <2>6 DEF ReadsItsPipe
<1>9. ASSUME NEW c \in Calls, PcloseLast(c)
      PROVE  ReadsItsPipe'
  <2>1. /\ ~nested /\ Open(c) /\ c # None
        /\ \A d \in Calls : ~Open(d)'
        /\ \A d \in Calls : d # c => stage'[d] = stage[d]
    BY <1>9, ClosesLast, NoneIsNoCall
  <2>2. mode[c] # "w"
    BY <1>9, <2>1 DEF OnePipeInv, PcloseLast
  <2>3. UNCHANGED <<mode, input, wrote, mixed>>
    BY <1>9 DEF PcloseLast
  <2> QED BY <2>1, <2>2, <2>3 DEF ReadsItsPipe
<1>10. ASSUME NEW c \in Calls, Puts(c)
      PROVE  ReadsItsPipe'
  <2>1. UNCHANGED <<popenFile, stage, mode, input, nested, mixed>> /\ stage[c] = "open"
    BY <1>10 DEF Puts, bridge, Open
  <2>2. \A d \in Calls : d # c => wrote'[d] = wrote[d]
    BY <1>10 DEF Puts, TypeOK
  <2> QED BY <2>1, <2>2 DEF ReadsItsPipe, Open
<1> QED BY <1>1, <1>2, <1>3, <1>4, <1>5, <1>6, <1>7, <1>8, <1>9, <1>10 DEF Next

----------------------------------------------------------------------------

LEMMA BridgeInit == Init => BridgeInv
<1> SUFFICES ASSUME Init PROVE BridgeInv
  OBVIOUS
<1>1. TypeOK
  BY TypeInit
<1>2. \A c \in Calls : stage[c] = "new" /\ runs[c] = 0 /\ wrote[c] = <<>>
  BY DEF Init
<1>3. pendingPgArgs = None
  BY DEF Init
<1>4. \A c \in Calls : ~Open(c) /\ stage[c] # "closed"
  BY <1>2 DEF Open
<1>5. OnceInv
  BY <1>2, <1>3 DEF OnceInv
<1> QED BY <1>1, <1>4, <1>5 DEF BridgeInv, OnePipeInv, CaptureInv, PcloseTellsOwn, ReadsItsPipe

LEMMA BridgeNext == BridgeInv /\ [Next]_vars => BridgeInv'
BY TypeNext, OnceNext, OnePipeNext, CaptureNext, TellsNext, ReadsNext DEF BridgeInv

\* The invariant that the theorems below rest on.
THEOREM BridgeInvariant == Spec => []BridgeInv
BY BridgeInit, BridgeNext, PTL DEF Spec

\* OnPclose gives initdb the exit code of the command of the pipe it closes, as
\* long as initdb has one pipe at a time, for any number of calls (cluster.go:121).
THEOREM PcloseTellsTheOwnCode == Spec => []PcloseTellsOwn
<1>1. BridgeInv => PcloseTellsOwn
  BY DEF BridgeInv
<1> QED BY <1>1, BridgeInvariant, PTL

\* A command fed by a pipe reads what initdb wrote to it, whatever was buffered
\* and flushed when, and a pipe open for reading has the output of its command.
THEOREM CommandsReadTheirPipe == Spec => []ReadsItsPipe
<1>1. BridgeInv => ReadsItsPipe
  BY DEF BridgeInv
<1> QED BY <1>1, BridgeInvariant, PTL

\* No command runs twice, however initdb nests its pipes.
THEOREM CommandsRunOnce == Spec => []RunsAtMostOnce
<1>1. BridgeInv => RunsAtMostOnce
  <2> SUFFICES ASSUME BridgeInv, NEW c \in Calls PROVE runs[c] <= 1
    BY DEF RunsAtMostOnce
  <2>1. runs[c] = 0 \/ runs[c] = 1
    BY DEF BridgeInv, OnceInv
  <2>2. 0 <= 1 /\ 1 <= 1
    OBVIOUS
  <2> QED BY <2>1, <2>2
<1> QED BY <1>1, BridgeInvariant, PTL

----------------------------------------------------------------------------
(* The commands.  Their loops are recursive functions over 0..n: each is   *)
(* first given the equation of one more turn.                              *)

\* What holds of zero and of the next number holds up to N.
LEMMA UpTo ==
  ASSUME NEW S, NEW N \in Nat, 0 \in S, \A n \in 0 .. N - 1 : n \in S => n + 1 \in S
  PROVE  \A n \in 0 .. N : n \in S
<1> DEFINE Out == {n \in 0 .. N : n \notin S}
<1> SUFFICES ASSUME Out # {} PROVE FALSE
  OBVIOUS
<1>1. Out \subseteq Nat
  OBVIOUS
<1>2. PICK n \in Out : \A k \in Out : <<k, n>> \notin OpToRel(<, Nat)
  <2> HIDE DEF Out
  <2> QED BY <1>1, WFMin, NatLessThanWellFounded
<1>3. n # 0 /\ n - 1 \in 0 .. N - 1
  OBVIOUS
<1>4. n - 1 \in Out
  BY <1>3
<1>5. <<n - 1, n>> \in OpToRel(<, Nat)
  BY <1>3 DEF OpToRel
<1> QED BY <1>2, <1>4, <1>5

\* Fields are kept one by one.
LEMMA KeptEquation ==
  ASSUME NEW C, NEW fields \in Seq(C)
  PROVE  /\ Kept(fields)[0] = <<>>
         /\ \A k \in 1 .. Len(fields) : Kept(fields)[k] = Keep(Kept(fields)[k - 1], fields[k])
<1> DEFINE Folds(f, N) == f = [k \in 0 .. N |-> IF k = 0 THEN <<>> ELSE Keep(f[k - 1], fields[k])]
           S == {N \in Nat : \E f : Folds(f, N)}
<1>1. 0 \in S
  <2>1. Folds([k \in 0 .. 0 |-> <<>>], 0)
    OBVIOUS
  <2> QED BY <2>1
<1>2. ASSUME NEW N \in Nat, NEW f, Folds(f, N) PROVE \E g : Folds(g, N + 1)
  <2> DEFINE g == [k \in 0 .. N + 1 |-> IF k = N + 1 THEN Keep(f[N], fields[N + 1]) ELSE f[k]]
  <2>1. ASSUME NEW k \in 0 .. N + 1
        PROVE  g[k] = IF k = 0 THEN <<>> ELSE Keep(g[k - 1], fields[k])
    <3>1. CASE k = N + 1
      <4>1. k - 1 = N /\ g[k - 1] = f[N]
        BY <3>1
      <4> QED BY <3>1, <4>1
    <3>2. CASE k \in 1 .. N
      <4>1. k \in 0 .. N /\ k - 1 \in 0 .. N /\ k # 0 /\ k # N + 1 /\ k - 1 # N + 1
        BY <3>2
      <4>2. g[k] = f[k] /\ g[k - 1] = f[k - 1]
        BY <4>1
      <4>3. f[k] = Keep(f[k - 1], fields[k])
        BY <1>2, <4>1
      <4> QED BY <4>1, <4>2, <4>3
    <3>3. CASE k = 0
      BY <1>2, <3>3
    <3> QED BY <3>1, <3>2, <3>3
  <2>2. g = [k \in 0 .. N + 1 |-> g[k]]
    OBVIOUS
  <2>3. Folds(g, N + 1)
    <3> HIDE DEF g
    <3> QED BY <2>1, <2>2
  <2> QED BY <2>3
<1> HIDE DEF Folds
<1> DEFINE N == Len(fields)
<1>3. N \in Nat
  OBVIOUS
<1>4. \A k \in 0 .. N - 1 : k \in S => k + 1 \in S
  BY <1>2
<1>5. N \in S
  <2> HIDE DEF S, N
  <2>1. \A k \in 0 .. N : k \in S
    BY <1>1, <1>3, <1>4, UpTo
  <2> QED BY <1>3, <2>1
<1>6. Folds(Kept(fields), N)
  BY <1>5 DEF Folds, Kept
<1> DEFINE F == Kept(fields)
<1> HIDE DEF N, F
<1>7. \A k \in 0 .. N : F[k] = IF k = 0 THEN <<>> ELSE Keep(F[k - 1], fields[k])
  BY <1>6 DEF Folds, F
<1>8. F[0] = <<>> /\ \A k \in 1 .. N : F[k] = Keep(F[k - 1], fields[k])
  <2>1. 0 \in 0 .. N /\ \A k \in 1 .. N : k \in 0 .. N /\ k # 0
    BY <1>3
  <2> QED BY <1>7, <2>1
<1> QED BY <1>8 DEF F, N

\* Arguments are read one by one.
LEMMA GettingEquation ==
  ASSUME NEW C, NEW args \in Seq(C)
  PROVE  /\ Getting(args)[0] = NothingYet
         /\ \A k \in 1 .. Len(args) : Getting(args)[k] = GetArg(Getting(args)[k - 1], args[k])
<1> DEFINE Folds(f, N) == f = [k \in 0 .. N |-> IF k = 0 THEN NothingYet ELSE GetArg(f[k - 1], args[k])]
           S == {N \in Nat : \E f : Folds(f, N)}
<1>1. 0 \in S
  <2>1. Folds([k \in 0 .. 0 |-> NothingYet], 0)
    OBVIOUS
  <2> QED BY <2>1
<1>2. ASSUME NEW N \in Nat, NEW f, Folds(f, N) PROVE \E g : Folds(g, N + 1)
  <2> DEFINE g == [k \in 0 .. N + 1 |-> IF k = N + 1 THEN GetArg(f[N], args[N + 1]) ELSE f[k]]
  <2>1. ASSUME NEW k \in 0 .. N + 1
        PROVE  g[k] = IF k = 0 THEN NothingYet ELSE GetArg(g[k - 1], args[k])
    <3>1. CASE k = N + 1
      <4>1. k - 1 = N /\ g[k - 1] = f[N]
        BY <3>1
      <4> QED BY <3>1, <4>1
    <3>2. CASE k \in 1 .. N
      <4>1. k \in 0 .. N /\ k - 1 \in 0 .. N /\ k # 0 /\ k # N + 1 /\ k - 1 # N + 1
        BY <3>2
      <4>2. g[k] = f[k] /\ g[k - 1] = f[k - 1]
        BY <4>1
      <4>3. f[k] = GetArg(f[k - 1], args[k])
        BY <1>2, <4>1
      <4> QED BY <4>1, <4>2, <4>3
    <3>3. CASE k = 0
      BY <1>2, <3>3
    <3> QED BY <3>1, <3>2, <3>3
  <2>2. g = [k \in 0 .. N + 1 |-> g[k]]
    OBVIOUS
  <2>3. Folds(g, N + 1)
    <3> HIDE DEF g
    <3> QED BY <2>1, <2>2
  <2> QED BY <2>3
<1> HIDE DEF Folds
<1> DEFINE N == Len(args)
<1>3. N \in Nat
  OBVIOUS
<1>4. \A k \in 0 .. N - 1 : k \in S => k + 1 \in S
  BY <1>2
<1>5. N \in S
  <2> HIDE DEF S, N
  <2>1. \A k \in 0 .. N : k \in S
    BY <1>1, <1>3, <1>4, UpTo
  <2> QED BY <1>3, <2>1
<1>6. Folds(Getting(args), N)
  BY <1>5 DEF Folds, Getting
<1> DEFINE F == Getting(args)
<1> HIDE DEF N, F
<1>7. \A k \in 0 .. N : F[k] = IF k = 0 THEN NothingYet ELSE GetArg(F[k - 1], args[k])
  BY <1>6 DEF Folds, F
<1>8. F[0] = NothingYet /\ \A k \in 1 .. N : F[k] = GetArg(F[k - 1], args[k])
  <2>1. 0 \in 0 .. N /\ \A k \in 1 .. N : k \in 0 .. N /\ k # 0
    BY <1>3
  <2> QED BY <1>7, <2>1
<1> QED BY <1>8 DEF F, N

\* FirstIn is what it says, for there is always one.
LEMMA FirstIsFirst ==
  ASSUME NEW E, NEW s \in Seq(E), NEW x
  PROVE  /\ FirstIn(s, x) \in 1 .. Len(s) + 1
         /\ FirstIn(s, x) <= Len(s) => s[FirstIn(s, x)] \in x
         /\ \A j \in 1 .. FirstIn(s, x) - 1 : s[j] \notin x
<1> DEFINE L == Len(s)
           First(f) == (f <= L => s[f] \in x) /\ \A j \in 1 .. f - 1 : s[j] \notin x
           S == {m \in 0 .. L : (\E f \in 1 .. m : First(f)) \/ \A j \in 1 .. m : s[j] \notin x}
<1>0. L \in Nat
  OBVIOUS
<1>1. 0 \in S
  BY <1>0
<1>2. ASSUME NEW m \in 0 .. L - 1, m \in S PROVE m + 1 \in S
  <2>0. m \in Nat /\ m + 1 \in 0 .. L /\ m + 1 \in 1 .. m + 1 /\ (m + 1) - 1 = m
    BY <1>0
  <2>1. CASE \E f \in 1 .. m : First(f)
    <3>1. \A f \in 1 .. m : f \in 1 .. m + 1
      BY <2>0
    <3> QED BY <2>0, <2>1, <3>1
  <2>2. CASE \A j \in 1 .. m : s[j] \notin x
    <3>1. CASE s[m + 1] \in x
      <4>1. First(m + 1)
        BY <2>0, <2>2, <3>1
      <4> QED BY <2>0, <4>1
    <3>2. CASE s[m + 1] \notin x
      <4>1. \A j \in 1 .. m + 1 : j \in 1 .. m \/ j = m + 1
        BY <2>0
      <4> QED BY <2>0, <2>2, <3>2, <4>1
    <3> QED BY <3>1, <3>2
  <2> QED BY <1>2, <2>1, <2>2
<1>3. L \in S
  <2> HIDE DEF S, L
  <2>1. \A m \in 0 .. L : m \in S
    BY <1>0, <1>1, <1>2, UpTo
  <2> QED BY <1>0, <2>1
<1>4. \E f \in 1 .. L + 1 : First(f)
  <2>1. CASE \E f \in 1 .. L : First(f)
    <3>1. \A f \in 1 .. L : f \in 1 .. L + 1
      BY <1>0
    <3> QED BY <2>1, <3>1
  <2>2. CASE \A j \in 1 .. L : s[j] \notin x
    <3>1. L + 1 \in 1 .. L + 1 /\ (L + 1) - 1 = L /\ ~(L + 1 <= L)
      BY <1>0
    <3> QED BY <2>2, <3>1
  <2> QED BY <1>3, <2>1, <2>2
<1>5. \E f \in 1 .. Len(s) + 1 : (f <= Len(s) => s[f] \in x) /\ \A j \in 1 .. f - 1 : s[j] \notin x
  BY <1>4
<1> QED BY <1>5 DEF FirstIn

\* A field, the text it has if it is to be kept, and the first m texts.
Fields(T) == [text : T, quoted : BOOLEAN]
HasText(T, f) == f.text \in T /\ f.text # ""
TextsOf(fields, m) == [j \in 1 .. m |-> fields[j].text]

\* One more text.
LEMMA NextText ==
  ASSUME NEW T, NEW E, NEW fields \in Seq(E), NEW m \in 0 .. Len(fields) - 1, \A j \in 1 .. m + 1 : HasText(T, fields[j])
  PROVE  Keep(TextsOf(fields, m), fields[m + 1]) = TextsOf(fields, m + 1)
<1> DEFINE t == TextsOf(fields, m)
           v == fields[m + 1].text
           a == Append(t, v)
<1>0. Len(fields) \in Nat
  OBVIOUS
<1>1. m \in Nat /\ m + 1 \in 1 .. m + 1 /\ \A j \in 1 .. m : j \in 1 .. m + 1
  BY <1>0
<1>2. v \in T /\ v # ""
  BY <1>1 DEF HasText
<1>3. \A j \in 1 .. m : fields[j].text \in T
  BY <1>1 DEF HasText
<1>4. t \in Seq(T) /\ Len(t) = m /\ \A j \in 1 .. m : t[j] = fields[j].text
  BY <1>1, <1>3 DEF TextsOf
<1>5. Keep(t, fields[m + 1]) = a
  BY <1>2 DEF Keep
<1>6. a \in Seq(T) /\ Len(a) = m + 1 /\ a[m + 1] = v /\ \A j \in 1 .. m : a[j] = t[j]
  <2> HIDE DEF t, v
  <2>1. t \in Seq(T) /\ v \in T
    BY <1>2, <1>4
  <2>2. a \in Seq(T) /\ Len(a) = Len(t) + 1 /\ a[Len(t) + 1] = v /\ \A j \in 1 .. Len(t) : a[j] = t[j]
    BY <2>1
  <2> QED BY <1>4, <2>2
<1> HIDE DEF a
<1>7. a = [j \in 1 .. m + 1 |-> a[j]]
  BY <1>6, SeqDef
<1>8. \A j \in 1 .. m + 1 : a[j] = fields[j].text
  <2>1. \A j \in 1 .. m + 1 : j \in 1 .. m \/ j = m + 1
    BY <1>1
  <2> QED BY <1>4, <1>6, <2>1
<1>9. a = TextsOf(fields, m + 1)
  BY <1>7, <1>8 DEF TextsOf
<1> QED BY <1>5, <1>9

\* Nothing is lost of fields that have texts.
LEMMA KeepsAll ==
  ASSUME NEW T, NEW E, NEW fields \in Seq(E), \A j \in 1 .. Len(fields) : HasText(T, fields[j])
  PROVE  Kept(fields)[Len(fields)] = TextsOf(fields, Len(fields))
<1> DEFINE L == Len(fields)
           K == Kept(fields)
           S == {m \in 0 .. L : K[m] = TextsOf(fields, m)}
<1>0. L \in Nat
  OBVIOUS
<1>1. K[0] = <<>> /\ \A m \in 1 .. L : K[m] = Keep(K[m - 1], fields[m])
  BY KeptEquation
<1> HIDE DEF K
<1>2. 0 \in S
  <2>1. TextsOf(fields, 0) = <<>>
    BY DEF TextsOf
  <2> QED BY <1>0, <1>1, <2>1
<1>3. ASSUME NEW m \in 0 .. L - 1, m \in S PROVE m + 1 \in S
  <2>0. m \in Nat /\ m + 1 \in 1 .. L /\ (m + 1) - 1 = m /\ m + 1 \in 0 .. L
    BY <1>0
  <2>1. \A j \in 1 .. m + 1 : HasText(T, fields[j])
    <3>1. \A j \in 1 .. m + 1 : j \in 1 .. L
      BY <1>0
    <3> QED BY <3>1
  <2>2. Keep(TextsOf(fields, m), fields[m + 1]) = TextsOf(fields, m + 1)
    BY <2>1, NextText
  <2> QED BY <1>1, <1>3, <2>0, <2>2
<1>4. L \in S
  <2> HIDE DEF S, L
  <2>1. \A m \in 0 .. L : m \in S
    BY <1>0, <1>2, <1>3, UpTo
  <2> QED BY <1>0, <2>1
<1> QED BY <1>4 DEF K

\* What is parsed of an accepted command is what a shell makes of it.
LEMMA ParsesAsShell ==
  ASSUME NEW cmd, NEW T, cmd.program \in Seq(T), cmd.quoted \in BOOLEAN,
         cmd.fields \in Seq(Fields(T)), WellFormed(cmd)
  PROVE  /\ ParseSystemCommand(cmd).program = cmd.program
         /\ ParseSystemCommand(cmd).args = ShellArgs(cmd)
         /\ ShellArgs(cmd) \in Seq(T)
<1> DEFINE fields == cmd.fields
           Stops == {f \in ToSet(fields) : ~f.quoted /\ f.text \in Operators}
           n == FirstIn(fields, Stops) - 1
           upto == SubSeq(fields, 1, n)
<1>0. fields \in Seq(Fields(T)) /\ Len(fields) \in Nat
  OBVIOUS
<1>1. Rest(cmd) = fields
  <2>1. CASE cmd.quoted
    BY <2>1 DEF Rest
  <2>2. CASE ~cmd.quoted
    <3>1. Len(cmd.program) = 1
      BY <2>2 DEF WellFormed
    <3>2. [k \in 1 .. (Len(cmd.program) - 1) |-> [text |-> cmd.program[k + 1], quoted |-> FALSE]] = <<>>
      BY <3>1
    <3>3. <<>> \o fields = fields
      BY <1>0
    <3> QED BY <2>2, <3>2, <3>3 DEF Rest
  <2> QED BY <2>1, <2>2
<1>2. n \in 0 .. Len(fields)
  <2>1. FirstIn(fields, Stops) \in 1 .. Len(fields) + 1
    <3> HIDE DEF Stops
    <3> QED BY <1>0, FirstIsFirst
  <2> QED BY <1>0, <2>1
<1>3. ShellArgs(cmd) = TextsOf(fields, n)
  <2>1. {f \in ToSet(fields) : ~IsPlain(f)} = Stops
    BY OperatorsAssumption DEF WellFormed, IsPlain
  <2> QED BY <2>1 DEF ShellArgs, TextsOf
<1> HIDE DEF n, Stops
<1>4. /\ upto \in Seq(Fields(T)) /\ Len(upto) = n
      /\ \A k \in 1 .. n : upto[k] = fields[k]
  <2>1. \A k \in 1 .. n : k \in 1 .. Len(fields)
    BY <1>0, <1>2
  <2> QED BY <1>0, <1>2, <2>1
<1>5. \A k \in 1 .. n : HasText(T, fields[k])
  <2>1. \A k \in 1 .. n : ShellArgs(cmd)[k] = fields[k].text /\ k \in DOMAIN ShellArgs(cmd)
    BY <1>3 DEF TextsOf
  <2>2. \A k \in 1 .. n : fields[k].text # ""
    BY <2>1 DEF WellFormed
  <2>3. \A k \in 1 .. n : fields[k] \in Fields(T)
    BY <1>0, <1>2
  <2>4. \A k \in 1 .. n : fields[k].text \in T
    BY <2>3 DEF Fields
  <2> QED BY <2>2, <2>4 DEF HasText
<1>6. Kept(upto)[n] = ShellArgs(cmd)
  <2> HIDE DEF upto
  <2>1. \A k \in 1 .. Len(upto) : HasText(T, upto[k])
    BY <1>4, <1>5
  <2>2. Kept(upto)[Len(upto)] = TextsOf(upto, Len(upto))
    BY <1>4, <2>1, KeepsAll
  <2>3. TextsOf(upto, n) = TextsOf(fields, n)
    BY <1>4 DEF TextsOf
  <2> QED BY <1>3, <1>4, <2>2, <2>3
<1>7. ParseSystemCommand(cmd).args = ShellArgs(cmd)
  BY <1>1, <1>6 DEF ParseSystemCommand, Stops, n
<1>8. ParseSystemCommand(cmd).program = cmd.program
  <2>1. ~cmd.quoted => SubSeq(cmd.program, 1, 1) = cmd.program
    <3>1. ~cmd.quoted => Len(cmd.program) = 1
      BY DEF WellFormed
    <3> QED BY <3>1, SubSeqFull
  <2> QED BY <2>1 DEF ParseSystemCommand
<1>9. ShellArgs(cmd) \in Seq(T)
  <2>1. n \in Nat
    BY <1>0, <1>2
  <2>2. \A k \in 1 .. n : fields[k].text \in T
    BY <1>5 DEF HasText
  <2> QED BY <1>3, <2>1, <2>2 DEF TextsOf
<1> QED BY <1>7, <1>8, <1>9

----------------------------------------------------------------------------
(* What postgres has read of its arguments.                                *)

\* What postgres knows after some arguments, which arguments it accepts (an option with a
\* value has one that is no option), and which have been there so far.
Gotten(T) == [dir : T \union {""}, settings : Seq(T), flags : SUBSET T, database : T \union {""},
              ignored : Seq(T), value : {"", "-c", "-D"}]
Accepted(args) ==
    /\ \A j \in 1 .. Len(args) : args[j] # ""
    /\ \A j \in 1 .. Len(args) : args[j] \in Valued => j < Len(args) /\ args[j + 1] \notin Options
Seen(args, k, a) == \E j \in 1 .. k : args[j] = a

\* While nothing is ignored, what was read is what is there: options are flags, -D has
\* given the directory or waits for it, and the database is the last argument.
Agrees(u, args, k) ==
    /\ u.database # "" => k > 0 /\ args[k] = u.database /\ args[k] \notin Options
    /\ \A o \in Options \ Valued : o \in u.flags <=> Seen(args, k, o)
    /\ u.dir # "" \/ u.value = "-D" <=> Seen(args, k, "-D")
GotInv(u, args, k) ==
    /\ u.value # "" => k > 0 /\ args[k] = u.value
    /\ u.database # "" => u.value = ""
    /\ u.database = "" => u.ignored = <<>>
    /\ u.ignored = <<>> => Agrees(u, args, k)

\* One more argument has been seen.
LEMMA SeesOneMore ==
  ASSUME NEW args, NEW k \in Nat, NEW a
  PROVE  Seen(args, k + 1, a) <=> Seen(args, k, a) \/ args[k + 1] = a
<1>1. \A j \in 1 .. k + 1 : j \in 1 .. k \/ j = k + 1
  OBVIOUS
<1>2. k + 1 \in 1 .. k + 1 /\ \A j \in 1 .. k : j \in 1 .. k + 1
  OBVIOUS
<1> QED BY <1>1, <1>2 DEF Seen

\* What one argument changes.
GetArgCases(v, u, a) ==
    /\ u.value = "-D" => v = [u EXCEPT !.dir = a, !.value = ""]
    /\ u.value = "-c" => v = [u EXCEPT !.settings = Append(@, a), !.value = ""]
    /\ u.value = "" /\ u.database # "" => v = [u EXCEPT !.ignored = Append(@, a)]
    /\ u.value = "" /\ u.database = "" /\ a \in Valued => v = [u EXCEPT !.value = a]
    /\ u.value = "" /\ u.database = "" /\ a \in Options \ Valued => v = [u EXCEPT !.flags = @ \union {a}]
    /\ u.value = "" /\ u.database = "" /\ a \notin Options => v = [u EXCEPT !.database = a]
LEMMA GetArgIs ==
  ASSUME NEW T, NEW u \in Gotten(T), NEW a \in T
  PROVE  GetArg(u, a) \in Gotten(T) /\ GetArgCases(GetArg(u, a), u, a)
<1>0. Valued = {"-c", "-D"} /\ Valued \subseteq Options
  BY OptionsAssumption DEF Valued
<1> DEFINE v == GetArg(u, a)
<1>1. u.value = "-D" => v = [u EXCEPT !.dir = a, !.value = ""]
  BY DEF GetArg
<1>2. u.value = "-c" => v = [u EXCEPT !.settings = Append(@, a), !.value = ""]
  BY DEF GetArg
<1>3. u.value = "" /\ u.database # "" => v = [u EXCEPT !.ignored = Append(@, a)]
  BY DEF GetArg
<1>4. u.value = "" /\ u.database = "" /\ a \in Valued => v = [u EXCEPT !.value = a]
  BY DEF GetArg
<1>5. u.value = "" /\ u.database = "" /\ a \in Options \ Valued => v = [u EXCEPT !.flags = @ \union {a}]
  BY DEF GetArg
<1>6. u.value = "" /\ u.database = "" /\ a \notin Options => v = [u EXCEPT !.database = a]
  BY <1>0 DEF GetArg
<1> HIDE DEF v
<1>7. v \in Gotten(T)
  <2>1. u.value \in {"", "-c", "-D"}
    BY DEF Gotten
  <2>2. [u EXCEPT !.dir = a, !.value = ""] \in Gotten(T)
    BY DEF Gotten
  <2>3. ASSUME NEW t \in Seq(T)
        PROVE  [u EXCEPT !.settings = t, !.value = ""] \in Gotten(T) /\ [u EXCEPT !.ignored = t] \in Gotten(T)
    BY DEF Gotten
  <2>4. u.settings \in Seq(T) /\ u.ignored \in Seq(T)
    BY DEF Gotten
  <2>5. Append(u.settings, a) \in Seq(T) /\ Append(u.ignored, a) \in Seq(T)
    BY <2>4
  <2>6. a \in Valued => [u EXCEPT !.value = a] \in Gotten(T)
    BY <1>0 DEF Gotten
  <2>7. [u EXCEPT !.flags = @ \union {a}] \in Gotten(T)
    BY DEF Gotten
  <2>8. [u EXCEPT !.database = a] \in Gotten(T)
    BY DEF Gotten
  <2>9. CASE u.value = "-D"
    BY <1>1, <2>2, <2>9
  <2>10. CASE u.value = "-c"
    BY <1>2, <2>3, <2>5, <2>10
  <2>11. CASE u.value = "" /\ u.database # ""
    BY <1>3, <2>3, <2>5, <2>11
  <2>12. CASE u.value = "" /\ u.database = ""
    BY <1>4, <1>5, <1>6, <2>6, <2>7, <2>8, <2>12
  <2> QED BY <2>1, <2>9, <2>10, <2>11, <2>12
<1> QED BY <1>1, <1>2, <1>3, <1>4, <1>5, <1>6, <1>7 DEF GetArgCases, v

\* It keeps the invariant.
LEMMA GetArgKeeps ==
  ASSUME NEW T, NEW args \in Seq(T), Accepted(args), NEW k \in 0 .. Len(args) - 1,
         NEW u \in Gotten(T), GotInv(u, args, k)
  PROVE  GotInv(GetArg(u, args[k + 1]), args, k + 1)
<1> DEFINE a == args[k + 1]
           v == GetArg(u, a)
<1>0. Valued = {"-c", "-D"} /\ Valued \subseteq Options
  BY OptionsAssumption DEF Valued
<1>1. Len(args) \in Nat /\ k \in Nat /\ k + 1 \in 1 .. Len(args) /\ k + 1 > 0 /\ (k > 0 => k \in 1 .. Len(args))
  OBVIOUS
<1>2. a \in T /\ a # "" /\ GetArgCases(v, u, a)
  <2>1. a \in T
    BY <1>1
  <2>2. a # ""
    BY <1>1 DEF Accepted
  <2> QED BY <2>1, <2>2, GetArgIs
<1>3. u.value # "" => a \notin Options
  <2> SUFFICES ASSUME u.value # "" PROVE a \notin Options
    OBVIOUS
  <2>0. k > 0
    BY DEF GotInv
  <2>1. args[k] = u.value
    BY DEF GotInv
  <2>2. u.value \in Valued
    BY <1>0 DEF Gotten
  <2>3. k \in 1 .. Len(args)
    BY <1>1, <2>0
  <2> QED BY <2>1, <2>2, <2>3 DEF Accepted
<1>4. \A o : Seen(args, k + 1, o) <=> Seen(args, k, o) \/ a = o
  BY <1>1, SeesOneMore
<1>5. u.value \in {"", "-c", "-D"} /\ u.ignored \in Seq(T) /\ u.settings \in Seq(T)
  BY DEF Gotten
<1> HIDE DEF a, v
<1>6. CASE u.value = "-D"
  <2>1. v = [u EXCEPT !.dir = a, !.value = ""]
    BY <1>2, <1>6 DEF GetArgCases
  <2>2. v.dir = a /\ v.value = "" /\ v.database = u.database /\ v.ignored = u.ignored /\ v.flags = u.flags
    BY <2>1 DEF Gotten
  <2>3. v.database = ""
    BY <1>6, <2>2 DEF GotInv
  <2>4. u.ignored = <<>> => Agrees(v, args, k + 1)
    BY <1>0, <1>2, <1>3, <1>4, <1>6, <2>2, <2>3 DEF GotInv, Agrees
  <2> QED BY <1>6, <2>2, <2>3, <2>4 DEF GotInv, v, a
<1>7. CASE u.value = "-c"
  <2>1. v = [u EXCEPT !.settings = Append(@, a), !.value = ""]
    BY <1>2, <1>7 DEF GetArgCases
  <2>2. v.dir = u.dir /\ v.value = "" /\ v.database = u.database /\ v.ignored = u.ignored /\ v.flags = u.flags
    BY <2>1 DEF Gotten
  <2>3. v.database = ""
    BY <1>7, <2>2 DEF GotInv
  <2>4. u.ignored = <<>> => Agrees(v, args, k + 1)
    BY <1>0, <1>2, <1>3, <1>4, <1>7, <2>2, <2>3 DEF GotInv, Agrees
  <2> QED BY <1>7, <2>2, <2>3, <2>4 DEF GotInv, v, a
<1>8. CASE u.value = "" /\ u.database # ""
  <2>1. v = [u EXCEPT !.ignored = Append(@, a)]
    BY <1>2, <1>8 DEF GetArgCases
  <2>2. v.value = "" /\ v.database = u.database /\ v.ignored = Append(u.ignored, a)
    BY <1>8, <2>1 DEF Gotten
  <2>3. Append(u.ignored, a) # <<>>
    <3> DEFINE t == u.ignored
    <3>1. t \in Seq(T) /\ a \in T
      BY <1>2, <1>5
    <3> HIDE DEF t
    <3>2. Append(t, a) # <<>>
      BY <3>1
    <3> QED BY <3>2 DEF t
  <2> QED BY <1>8, <2>2, <2>3 DEF GotInv, v, a
<1>9. CASE u.value = "" /\ u.database = "" /\ a \in Valued
  <2>1. v = [u EXCEPT !.value = a]
    BY <1>2, <1>9 DEF GetArgCases
  <2>2. v.dir = u.dir /\ v.value = a /\ v.database = u.database /\ v.ignored = u.ignored /\ v.flags = u.flags
    BY <2>1 DEF Gotten
  <2>3. u.ignored = <<>> => Agrees(v, args, k + 1)
    BY <1>0, <1>4, <1>9, <2>2 DEF GotInv, Agrees
  <2>4. v.value = args[k + 1]
    BY <2>2 DEF a
  <2> QED BY <1>1, <1>9, <2>2, <2>3, <2>4 DEF GotInv, v, a
<1>10. CASE u.value = "" /\ u.database = "" /\ a \in Options \ Valued
  <2>1. v = [u EXCEPT !.flags = @ \union {a}]
    BY <1>2, <1>10 DEF GetArgCases
  <2>2. v.dir = u.dir /\ v.value = "" /\ v.database = u.database /\ v.ignored = u.ignored /\ v.flags = u.flags \union {a}
    BY <1>10, <2>1 DEF Gotten
  <2>3. u.ignored = <<>> => Agrees(v, args, k + 1)
    BY <1>0, <1>4, <1>10, <2>2 DEF GotInv, Agrees
  <2> QED BY <1>10, <2>2, <2>3 DEF GotInv, v, a
<1>11. CASE u.value = "" /\ u.database = "" /\ a \notin Options
  <2>1. v = [u EXCEPT !.database = a]
    BY <1>2, <1>11 DEF GetArgCases
  <2>2. v.dir = u.dir /\ v.value = "" /\ v.database = a /\ v.ignored = u.ignored /\ v.flags = u.flags
    BY <1>11, <2>1 DEF Gotten
  <2>3. args[k + 1] = a
    BY DEF a
  <2>4. u.ignored = <<>> => Agrees(v, args, k + 1)
    BY <1>0, <1>1, <1>4, <1>11, <2>2, <2>3 DEF GotInv, Agrees
  <2> QED BY <1>2, <1>11, <2>2, <2>4 DEF GotInv, v, a
<1> QED BY <1>0, <1>5, <1>6, <1>7, <1>8, <1>9, <1>10, <1>11

\* What is read is of its type and agrees with what is there, after every argument.
LEMMA GetsInvariant ==
  ASSUME NEW T, NEW args \in Seq(T), Accepted(args), NEW k \in 0 .. Len(args)
  PROVE  Getting(args)[k] \in Gotten(T) /\ GotInv(Getting(args)[k], args, k)
<1> DEFINE L == Len(args)
           G == Getting(args)
           S == {m \in 0 .. L : G[m] \in Gotten(T) /\ GotInv(G[m], args, m)}
<1>0. L \in Nat
  OBVIOUS
<1>1. G[0] = NothingYet /\ \A m \in 1 .. L : G[m] = GetArg(G[m - 1], args[m])
  BY GettingEquation
<1> HIDE DEF G
<1>2. 0 \in S
  <2>1. NothingYet \in Gotten(T)
    BY DEF NothingYet, Gotten
  <2>2. GotInv(NothingYet, args, 0)
    BY DEF NothingYet, GotInv, Agrees, Seen
  <2> QED BY <1>0, <1>1, <2>1, <2>2
<1>3. ASSUME NEW m \in 0 .. L - 1, m \in S PROVE m + 1 \in S
  <2>1. m + 1 \in 1 .. L /\ (m + 1) - 1 = m /\ m + 1 \in 0 .. L
    BY <1>0
  <2>2. args[m + 1] \in T
    BY <2>1
  <2>3. G[m + 1] = GetArg(G[m], args[m + 1]) /\ G[m] \in Gotten(T) /\ GotInv(G[m], args, m)
    BY <1>1, <1>3, <2>1
  <2>4. GetArg(G[m], args[m + 1]) \in Gotten(T)
    BY <2>2, <2>3, GetArgIs
  <2>5. GotInv(GetArg(G[m], args[m + 1]), args, m + 1)
    BY <2>3, GetArgKeeps
  <2> QED BY <2>1, <2>3, <2>4, <2>5
<1>4. \A m \in 0 .. L : m \in S
  <2> HIDE DEF S, L
  <2> QED BY <1>0, <1>2, <1>3, UpTo
<1> QED BY <1>4 DEF G

\* Arguments that begin alike are read alike.
LEMMA GetsTheSame ==
  ASSUME NEW T, NEW args \in Seq(T), NEW U, NEW more \in Seq(U), NEW n \in Nat, n <= Len(args), n <= Len(more),
         \A j \in 1 .. n : more[j] = args[j]
  PROVE  Getting(more)[n] = Getting(args)[n]
<1> DEFINE G == Getting(args)
           H == Getting(more)
           S == {m \in 0 .. n : H[m] = G[m]}
<1>1. G[0] = NothingYet /\ \A m \in 1 .. Len(args) : G[m] = GetArg(G[m - 1], args[m])
  BY GettingEquation
<1>2. H[0] = NothingYet /\ \A m \in 1 .. Len(more) : H[m] = GetArg(H[m - 1], more[m])
  BY GettingEquation
<1> HIDE DEF G, H
<1>3. 0 \in S
  BY <1>1, <1>2
<1>4. ASSUME NEW m \in 0 .. n - 1, m \in S PROVE m + 1 \in S
  <2>1. m + 1 \in 1 .. n /\ m + 1 \in 1 .. Len(args) /\ m + 1 \in 1 .. Len(more) /\ (m + 1) - 1 = m /\ m + 1 \in 0 .. n
    OBVIOUS
  <2>2. G[m + 1] = GetArg(G[m], args[m + 1]) /\ H[m + 1] = GetArg(H[m], more[m + 1])
    BY <1>1, <1>2, <2>1
  <2> QED BY <1>4, <2>1, <2>2
<1>5. \A m \in 0 .. n : m \in S
  <2> HIDE DEF S
  <2> QED BY <1>3, <1>4, UpTo
<1> QED BY <1>5 DEF G, H

----------------------------------------------------------------------------
(* Where the data directory is put.                                        *)

\* Arguments that are passed on as they are, and where the directory is put into others.
Decides(args) == \E a \in ToSet(args) : a \in {"-D", "-V", "--version"}
AtEnd(args, d) == args \o <<"-D", d>>
BeforeLast(args, d) == SubSeq(args, 1, Len(args) - 1) \o <<"-D", d>> \o SubSeq(args, Len(args), Len(args))

\* An argument is among those that were seen.
LEMMA SeenIsThere ==
  ASSUME NEW T, NEW args \in Seq(T), NEW a
  PROVE  Seen(args, Len(args), a) <=> a \in ToSet(args)
  BY DEF Seen, ToSet

\* Without --single, or with nothing but options behind it, -D goes to the end.
LEMMA PutsAtEnd ==
  ASSUME NEW T, NEW args \in Seq(T), NEW d, ~Decides(args), ~Seen(args, Len(args), "--single")
  PROVE  insertDataDir(args, d) = AtEnd(args, d)
<1> DEFINE L == Len(args)
           single == FirstIn(args, {"--single"})
           names == {j \in (single + 1) .. L : args[j] \notin Options}
<1>0. L \in Nat
  OBVIOUS
<1>1. single \in 1 .. L + 1 /\ (single <= L => args[single] \in {"--single"})
  BY FirstIsFirst
<1> HIDE DEF single
<1>2. ~(single <= L)
  BY <1>0, <1>1 DEF Seen
<1>3. (single + 1) .. L = {}
  BY <1>0, <1>1, <1>2
<1>4. names = {}
  BY <1>3
<1> QED BY <1>4 DEF insertDataDir, AtEnd, Decides, single

\* With --single and a database at the end, -D goes in front of the database.
LEMMA PutsBeforeDatabase ==
  ASSUME NEW T, NEW args \in Seq(T), NEW d, ~Decides(args), Seen(args, Len(args), "--single"),
         Len(args) > 0, args[Len(args)] \notin Options
  PROVE  insertDataDir(args, d) = BeforeLast(args, d)
<1> DEFINE L == Len(args)
           single == FirstIn(args, {"--single"})
           names == {j \in (single + 1) .. L : args[j] \notin Options}
           last == CHOOSE j \in names : \A k \in names : k <= j
<1>0. L \in Nat /\ L \in 1 .. L
  OBVIOUS
<1>1. single \in 1 .. L + 1 /\ \A j \in 1 .. single - 1 : args[j] \notin {"--single"}
  BY FirstIsFirst
<1> HIDE DEF single
<1>2. PICK j \in 1 .. L : args[j] = "--single"
  BY DEF Seen
<1>3. j # L
  BY <1>2, OptionsAssumption
<1>4. ~(j \in 1 .. single - 1)
  BY <1>1, <1>2
<1>5. single + 1 \in 1 .. L /\ L \in (single + 1) .. L
  BY <1>0, <1>1, <1>3, <1>4
<1>6. L \in names
  BY <1>5
<1>7. \A k \in names : k \in Int /\ k <= L
  BY <1>0, <1>1
<1>8. names # {}
  BY <1>6
<1> HIDE DEF names
<1>9. last = L
  BY <1>0, <1>6, <1>7
<1>10. ~Decides(args)
  OBVIOUS
<1> HIDE DEF last
<1>11. insertDataDir(args, d) = SubSeq(args, 1, last - 1) \o <<"-D", d>> \o SubSeq(args, last, L)
  BY <1>8, <1>10 DEF insertDataDir, Decides, single, names, last
<1> QED BY <1>9, <1>11 DEF BeforeLast

\* Two more arguments and then others.
HasPair(m, U, s, x, y, t) ==
    /\ m \in Seq(U) /\ Len(m) = Len(s) + 2 + Len(t)
    /\ \A j \in 1 .. Len(s) : m[j] = s[j]
    /\ m[Len(s) + 1] = x /\ m[Len(s) + 2] = y
    /\ \A j \in 1 .. Len(t) : m[Len(s) + 2 + j] = t[j]
LEMMA PairIs ==
  ASSUME NEW U, NEW s \in Seq(U), NEW x \in U, NEW y \in U, NEW t \in Seq(U)
  PROVE  HasPair(s \o <<x, y>> \o t, U, s, x, y, t)
<1> DEFINE pair == <<x, y>>
           head == s \o pair
<1>1. pair \in Seq(U) /\ Len(pair) = 2 /\ pair[1] = x /\ pair[2] = y
  OBVIOUS
<1>2. pair \in Seq(U) /\ Len(pair) = 2 /\ Len(s) \in Nat
  BY <1>1
<1>3. pair[1] = x /\ pair[2] = y
  BY <1>1
<1> HIDE DEF pair
<1>4. /\ head \in Seq(U) /\ Len(head) = Len(s) + 2
      /\ \A j \in 1 .. Len(s) + 2 : head[j] = IF j <= Len(s) THEN s[j] ELSE pair[j - Len(s)]
  <2>1. /\ head \in Seq(U) /\ Len(head) = Len(s) + Len(pair)
        /\ \A j \in 1 .. Len(s) + Len(pair) : head[j] = IF j <= Len(s) THEN s[j] ELSE pair[j - Len(s)]
    BY <1>2, ConcatProperties
  <2> HIDE DEF head
  <2> QED BY <1>2, <2>1
<1> HIDE DEF head
<1>5. \A j \in 1 .. Len(s) : head[j] = s[j]
  BY <1>2, <1>4
<1>6. head[Len(s) + 1] = x /\ head[Len(s) + 2] = y
  <2>1. Len(s) + 1 \in 1 .. Len(s) + 2 /\ ~(Len(s) + 1 <= Len(s)) /\ (Len(s) + 1) - Len(s) = 1
    BY <1>2
  <2>2. Len(s) + 2 \in 1 .. Len(s) + 2 /\ ~(Len(s) + 2 <= Len(s)) /\ (Len(s) + 2) - Len(s) = 2
    BY <1>2
  <2> QED BY <1>3, <1>4, <2>1, <2>2
<1>7. head \o t \in Seq(U) /\ Len(head \o t) = Len(s) + 2 + Len(t)
  BY <1>4
<1>8. \A j \in 1 .. Len(s) : (head \o t)[j] = s[j]
  BY <1>4, <1>5
<1>9. (head \o t)[Len(s) + 1] = x /\ (head \o t)[Len(s) + 2] = y
  BY <1>4, <1>6
<1>10. \A j \in 1 .. Len(t) : (head \o t)[Len(s) + 2 + j] = t[j]
  BY <1>4
<1> QED BY <1>7, <1>8, <1>9, <1>10 DEF HasPair, head, pair

\* No option waits for its value, and there is no database yet.
Ready(u) == u.value = "" /\ u.database = ""
HasDatabase(u) == u.database # "" /\ u.ignored = <<>>

\* What the two arguments do, wherever they are read.
LEMMA GetsDirectory ==
  ASSUME NEW T, NEW u \in Gotten(T), Ready(u), NEW d
  PROVE  GetArg(GetArg(u, "-D"), d) = [u EXCEPT !.dir = d]
<1>1. GetArg(u, "-D") = [u EXCEPT !.value = "-D"]
  BY DEF GetArg, Valued, Ready
<1> DEFINE v == [u EXCEPT !.value = "-D"]
<1>2. v.value = "-D"
  BY DEF Gotten
<1>3. GetArg(v, d) = [v EXCEPT !.dir = d, !.value = ""]
  BY <1>2 DEF GetArg
<1>4. [v EXCEPT !.dir = d, !.value = ""] = [u EXCEPT !.dir = d]
  BY DEF Gotten, Ready
<1> QED BY <1>1, <1>3, <1>4

\* At the end: all is read as without it, then the directory.
LEMMA GetsAtEnd ==
  ASSUME NEW T, NEW args \in Seq(T), NEW u \in Gotten(T), u = Getopt(args), Ready(u), NEW d
  PROVE  Getopt(AtEnd(args, d)) = [u EXCEPT !.dir = d]
<1> DEFINE L == Len(args)
           U == T \union {"-D", d}
           more == AtEnd(args, d)
           H == Getting(more)
<1>0. L \in Nat /\ args \in Seq(U) /\ "-D" \in U /\ d \in U /\ <<>> \in Seq(U) /\ Len(<<>>) = 0
  OBVIOUS
<1>1. more = args \o <<"-D", d>> \o <<>>
  BY DEF AtEnd
<1> DEFINE t == <<>>
<1>2. t \in Seq(U) /\ Len(t) = 0
  OBVIOUS
<1> HIDE DEF U
<1>3. HasPair(more, U, args, "-D", d, t)
  BY <1>0, <1>1, <1>2, PairIs
<1> HIDE DEF more, t
<1>4. more \in Seq(U) /\ Len(more) = L + 2 /\ \A j \in 1 .. L : more[j] = args[j]
  BY <1>0, <1>2, <1>3 DEF HasPair
<1>5. more[L + 1] = "-D" /\ more[L + 2] = d
  BY <1>3 DEF HasPair
<1>6. H[L] = Getting(args)[L]
  BY <1>0, <1>4, GetsTheSame
<1>7. \A m \in 1 .. L + 2 : H[m] = GetArg(H[m - 1], more[m])
  BY <1>4, GettingEquation
<1> HIDE DEF H
<1>8. L + 1 \in 1 .. L + 2 /\ L + 2 \in 1 .. L + 2 /\ (L + 1) - 1 = L /\ (L + 2) - 1 = L + 1
  BY <1>0
<1>9. H[L + 1] = GetArg(H[L], "-D") /\ H[L + 2] = GetArg(H[L + 1], d)
  BY <1>5, <1>7, <1>8
<1>10. H[L] = u
  BY <1>6 DEF Getopt
<1>11. GetArg(GetArg(u, "-D"), d) = [u EXCEPT !.dir = d]
  BY GetsDirectory
<1>12. Getopt(more) = H[L + 2]
  BY <1>4 DEF Getopt, H
<1> QED BY <1>9, <1>10, <1>11, <1>12 DEF more

\* The argument that is the database found nothing waiting and no other.
LEMMA LastIsDatabase ==
  ASSUME NEW T, NEW w \in Gotten(T), NEW args, NEW k, GotInv(w, args, k), NEW a \in T, a \notin Options,
         HasDatabase(GetArg(w, a))
  PROVE  Ready(w) /\ GetArg(w, a) = [w EXCEPT !.database = a]
<1> DEFINE u == GetArg(w, a)
<1>1. GetArgCases(u, w, a) /\ u.database # "" /\ u.ignored = <<>>
  BY GetArgIs DEF HasDatabase
<1>2. w.value \in {"", "-c", "-D"} /\ (w.database # "" => w.value = "")
  BY DEF Gotten, GotInv
<1> HIDE DEF u
<1>3. w.value # "-D"
  <2>1. w.value = "-D" => u.database = w.database
    BY <1>1 DEF GetArgCases, Gotten
  <2> QED BY <1>1, <1>2, <2>1
<1>4. w.value # "-c"
  <2>1. w.value = "-c" => u.database = w.database
    BY <1>1 DEF GetArgCases, Gotten
  <2> QED BY <1>1, <1>2, <2>1
<1>5. w.value = ""
  BY <1>2, <1>3, <1>4
<1>6. w.database = ""
  <2>1. w.database # "" => u.ignored = Append(w.ignored, a)
    BY <1>1, <1>5 DEF GetArgCases, Gotten
  <2> DEFINE t == w.ignored
  <2>2. t \in Seq(T)
    BY DEF Gotten
  <2> HIDE DEF t
  <2>3. Append(t, a) # <<>>
    <3>1. Len(t) \in Nat /\ Len(Append(t, a)) = Len(t) + 1
      BY <2>2
    <3> QED BY <3>1
  <2> QED BY <1>1, <2>1, <2>3 DEF t
<1>7. u = [w EXCEPT !.database = a]
  BY <1>1, <1>5, <1>6 DEF GetArgCases
<1> QED BY <1>5, <1>6, <1>7 DEF Ready, u

\* With the directory in front of it, too.
InDirectory(v, u, d) == v = [u EXCEPT !.dir = d]
WithDatabase(v, u, a) == v = [u EXCEPT !.database = a]
LEMMA GetsDatabase ==
  ASSUME NEW T, NEW w \in Gotten(T), Ready(w), NEW a, a \notin Options, NEW d,
         NEW x, InDirectory(x, w, d), NEW u, WithDatabase(u, w, a)
  PROVE  InDirectory(GetArg(x, a), u, d)
<1>1. x.value = "" /\ x.database = ""
  BY DEF Gotten, Ready, InDirectory
<1>2. a \notin Valued
  BY OptionsAssumption DEF Valued
<1>3. GetArg(x, a) = [x EXCEPT !.database = a]
  BY <1>1, <1>2 DEF GetArg
<1>4. [x EXCEPT !.database = a] = [u EXCEPT !.dir = d]
  BY DEF Gotten, InDirectory, WithDatabase
<1> QED BY <1>3, <1>4 DEF InDirectory

\* In front of the database: all before it as without it, the directory, the database.
LEMMA GetsBeforeDatabase ==
  ASSUME NEW T, NEW args \in Seq(T), Accepted(args), Len(args) > 0,
         NEW u \in Gotten(T), u = Getopt(args), HasDatabase(u), NEW d
  PROVE  Getopt(BeforeLast(args, d)) = [u EXCEPT !.dir = d]
<1> DEFINE L == Len(args)
           M == L - 1
           U == T \union {"-D", d}
           a == args[L]
           more == BeforeLast(args, d)
           H == Getting(more)
           w == Getting(args)[M]
<1>0. L \in Nat /\ M \in 0 .. L /\ L \in 1 .. L /\ a \in T
  OBVIOUS
<1> DEFINE s == SubSeq(args, 1, M)
           t == SubSeq(args, L, L)
<1>1. s \in Seq(U) /\ Len(s) = M /\ \A j \in 1 .. M : s[j] = args[j]
  <2>0. \A j \in 1 .. M : args[j] \in T
    BY <1>0
  <2>1. s \in Seq(T) /\ Len(s) = M /\ \A j \in 1 .. M : s[j] = args[j]
    <3>1. 1 \in Int /\ M \in Int /\ M \in Nat
      BY <1>0
    <3>2. s \in Seq(T) /\ (Len(s) = IF 1 <= M THEN M - 1 + 1 ELSE 0) /\ \A j \in 1 .. M - 1 + 1 : s[j] = args[1 + j - 1]
      <4> HIDE DEF M
      <4> QED BY <2>0, <3>1, SubSeqProperties
    <3> HIDE DEF s, M
    <3>3. \A j \in 1 .. M : 1 + j - 1 = j /\ j \in 1 .. M - 1 + 1
      BY <3>1
    <3>4. Len(s) = M
      BY <3>1, <3>2
    <3> QED BY <3>2, <3>3, <3>4
  <2> QED BY <2>1
<1>2. t \in Seq(U) /\ Len(t) = 1 /\ t[1] = a
  <2>1. t \in Seq(T) /\ Len(t) = 1 /\ t[1] = a
    BY <1>0
  <2> QED BY <2>1
<1>3. "-D" \in U /\ d \in U /\ more = s \o <<"-D", d>> \o t
  BY DEF BeforeLast
<1> HIDE DEF s, t, U, more
<1>4. HasPair(more, U, s, "-D", d, t)
  BY <1>1, <1>2, <1>3, PairIs
<1>5. more \in Seq(U) /\ Len(more) = M + 3 /\ \A j \in 1 .. M : more[j] = args[j]
  BY <1>0, <1>1, <1>2, <1>4 DEF HasPair
<1>6. more[M + 1] = "-D" /\ more[M + 2] = d /\ more[M + 3] = a
  <2>1. more[M + 1] = "-D" /\ more[M + 2] = d
    BY <1>1, <1>4 DEF HasPair
  <2>2. more[Len(s) + 2 + 1] = t[1]
    <3>1. 1 \in 1 .. Len(t)
      BY <1>2
    <3> QED BY <1>4, <3>1 DEF HasPair
  <2>3. Len(s) + 2 + 1 = M + 3
    BY <1>0, <1>1
  <2> QED BY <1>2, <2>1, <2>2, <2>3
<1>7. u = GetArg(w, a)
  BY <1>0, GettingEquation DEF Getopt
<1>8. w \in Gotten(T) /\ GotInv(w, args, M)
  BY <1>0, GetsInvariant
<1>9. H[M] = w
  <2>1. M \in Nat /\ M <= Len(args) /\ M <= Len(more)
    BY <1>0, <1>5
  <2> QED BY <1>5, <2>1, GetsTheSame
<1> HIDE DEF w, a
<1>10. Ready(w) /\ u = [w EXCEPT !.database = a] /\ a \notin Options
  <2>1. GotInv(u, args, L)
    BY <1>0, GetsInvariant DEF Getopt
  <2>2. a \notin Options
    BY <2>1 DEF GotInv, Agrees, HasDatabase, a
  <2>3. HasDatabase(GetArg(w, a))
    BY <1>7
  <2>4. a \in T
    BY <1>0 DEF a
  <2> QED BY <1>7, <1>8, <2>2, <2>3, <2>4, LastIsDatabase
<1>11. \A m \in 1 .. M + 3 : H[m] = GetArg(H[m - 1], more[m])
  <2> QED BY <1>0, <1>5, GettingEquation
<1> HIDE DEF H
<1>12. /\ M + 1 \in 1 .. M + 3 /\ M + 2 \in 1 .. M + 3 /\ M + 3 \in 1 .. M + 3
      /\ (M + 1) - 1 = M /\ (M + 2) - 1 = M + 1 /\ (M + 3) - 1 = M + 2
  BY <1>0
<1>13. H[M + 1] = GetArg(H[M], "-D") /\ H[M + 2] = GetArg(H[M + 1], d) /\ H[M + 3] = GetArg(H[M + 2], a)
  BY <1>6, <1>11, <1>12
<1>14. H[M + 2] = [w EXCEPT !.dir = d]
  BY <1>8, <1>9, <1>10, <1>13, GetsDirectory
<1>15. GetArg([w EXCEPT !.dir = d], a) = [u EXCEPT !.dir = d]
  <2>1. w \in Gotten(T)
    BY <1>8
  <2>2. Ready(w)
    BY <1>10
  <2>3. a \notin Options
    BY <1>10
  <2> DEFINE x == [w EXCEPT !.dir = d]
  <2>4. InDirectory(x, w, d) /\ WithDatabase(u, w, a)
    BY <1>10 DEF InDirectory, WithDatabase
  <2> HIDE DEF x
  <2>5. InDirectory(GetArg(x, a), u, d)
    BY <2>1, <2>2, <2>3, <2>4, GetsDatabase
  <2> QED BY <2>5 DEF x, InDirectory
<1>16. Getopt(more) = H[M + 3]
  BY <1>5 DEF Getopt, H
<1> QED BY <1>13, <1>14, <1>15, <1>16 DEF more

\* postgres is started with what the command says, whatever the command, the options and
\* the data directory (ParseSystemCommand, insertDataDir).
THEOREM EveryCommandIsUnderstood ==
  ASSUME NEW T, NEW cmd, cmd.program \in Seq(T), cmd.quoted \in BOOLEAN, cmd.fields \in Seq(Fields(T)), WellFormed(cmd)
  PROVE  PostgresGets(cmd)
<1> DEFINE args == ShellArgs(cmd)
           L == Len(args)
           u == Getopt(args)
           line == CommandLine(cmd, DataDir)
<1>1. args \in Seq(T) /\ line.program = cmd.program /\ line.args = insertDataDir(args, DataDir)
  BY ParsesAsShell DEF CommandLine
<1>2. Accepted(args)
  <2>1. DOMAIN args = 1 .. Len(args) /\ Len(args) \in Nat
    BY <1>1
  <2>2. \A j \in 1 .. Len(args) : args[j] # ""
    BY <2>1 DEF WellFormed
  <2>3. \A j \in 1 .. Len(args) : args[j] \in Valued => j + 1 \in 1 .. Len(args) /\ args[j + 1] \notin Options
    BY <2>1 DEF WellFormed
  <2>4. \A j \in 1 .. Len(args) : j + 1 \in 1 .. Len(args) => j < Len(args)
    BY <2>1
  <2> QED BY <2>2, <2>3, <2>4 DEF Accepted
<1> HIDE DEF args, line
<1>3. L \in Nat /\ L \in 0 .. L
  BY <1>1
<1>4. u \in Gotten(T) /\ GotInv(u, args, L)
  BY <1>1, <1>2, <1>3, GetsInvariant DEF Getopt
<1> HIDE DEF u
<1>5. u.value = ""
  <2>1. u.value # "" => L > 0 /\ args[L] = u.value /\ u.value \in Valued
    BY <1>4 DEF GotInv, Gotten, Valued
  <2>2. L > 0 => L \in 1 .. L /\ ~(L < L)
    BY <1>3
  <2> QED BY <1>2, <2>1, <2>2 DEF Accepted
<1>6. ASSUME Sensible(u)
      PROVE  Getopt(line.args) = IF Told(u) THEN u ELSE [u EXCEPT !.dir = DataDir]
  <2>1. Agrees(u, args, L) /\ u.ignored = <<>>
    BY <1>4, <1>6 DEF GotInv, Sensible
  <2>2. /\ "-V" \in u.flags <=> Seen(args, L, "-V")
        /\ "--version" \in u.flags <=> Seen(args, L, "--version")
        /\ "--single" \in u.flags <=> Seen(args, L, "--single")
        /\ u.dir # "" <=> Seen(args, L, "-D")
    BY <1>5, <2>1, OptionsAssumption DEF Agrees, Valued
  <2>3. Told(u) <=> Decides(args)
    <3>1. \A a : Seen(args, L, a) <=> a \in ToSet(args)
      BY <1>1, SeenIsThere
    <3>2. Told(u) <=> Seen(args, L, "-D") \/ Seen(args, L, "-V") \/ Seen(args, L, "--version")
      BY <2>2 DEF Told
    <3> QED BY <3>1, <3>2 DEF Decides
  <2>4. CASE Decides(args)
    <3>1. insertDataDir(args, DataDir) = args
      BY <2>4 DEF insertDataDir, Decides
    <3> QED BY <1>1, <2>3, <2>4, <3>1 DEF u
  <2>5. CASE ~Decides(args) /\ u.database = ""
    <3>1. ~Seen(args, L, "--single") /\ Ready(u)
      BY <1>5, <1>6, <2>2, <2>5 DEF Sensible, Ready
    <3>2. insertDataDir(args, DataDir) = AtEnd(args, DataDir)
      BY <1>1, <2>5, <3>1, PutsAtEnd
    <3>3. Getopt(AtEnd(args, DataDir)) = [u EXCEPT !.dir = DataDir]
      BY <1>1, <1>4, <3>1, GetsAtEnd DEF u
    <3> QED BY <1>1, <2>3, <2>5, <3>2, <3>3
  <2>6. CASE ~Decides(args) /\ u.database # ""
    <3>1. Seen(args, L, "--single") /\ HasDatabase(u)
      BY <1>6, <2>1, <2>2, <2>6 DEF Sensible, HasDatabase
    <3>2. L > 0 /\ args[L] \notin Options
      BY <2>1, <2>6 DEF Agrees
    <3>3. insertDataDir(args, DataDir) = BeforeLast(args, DataDir)
      BY <1>1, <2>6, <3>1, <3>2, PutsBeforeDatabase
    <3>4. Getopt(BeforeLast(args, DataDir)) = [u EXCEPT !.dir = DataDir]
      BY <1>1, <1>2, <1>4, <3>1, <3>2, GetsBeforeDatabase DEF u
    <3> QED BY <1>1, <2>3, <2>6, <3>3, <3>4
  <2> QED BY <2>4, <2>5, <2>6
<1> QED BY <1>1, <1>6 DEF PostgresGets, args, line, u

\* A sample of the algorithms' run is one of these: texts, with or without quotes.
CommandOK(T) ==
    sample.kind = "command" =>
        sample.program \in Seq(T) /\ sample.quoted \in BOOLEAN /\ sample.fields \in Seq(Fields(T))

\* What the run checks of its samples holds of every sample (ParseSystemCommand,
\* insertDataDir).
THEOREM CommandsAreUnderstood ==
  ASSUME NEW T
  PROVE  []CommandOK(T) => []CommandIsUnderstood
<1>1. CommandOK(T) => CommandIsUnderstood
  <2> SUFFICES ASSUME CommandOK(T), sample.kind = "command", WellFormed(sample) PROVE PostgresGets(sample)
    BY DEF CommandIsUnderstood
  <2>1. sample.program \in Seq(T) /\ sample.quoted \in BOOLEAN /\ sample.fields \in Seq(Fields(T))
    BY DEF CommandOK
  <2> QED BY <2>1, EveryCommandIsUnderstood
<1> QED BY <1>1, PTL
=============================================================================
