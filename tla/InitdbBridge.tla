---------------------------- MODULE InitdbBridge ----------------------------
(***************************************************************************)
(* runInitdb of cluster.go: initdb runs in one wasm instance and its       *)
(* system, popen and pclose call back into Go, which runs each postgres    *)
(* subcommand in an instance of its own over the shared VFS.               *)
(*                                                                         *)
(* There is one of everything: one result, one pending command, one buffer *)
(* that captures fd 1 while a pipe is written and one file, .popen_output, *)
(* for both directions; a pipe open for writing is initdb's own stdout.    *)
(* pclose does not look at the stream it closes.                           *)
(*                                                                         *)
(* initdb itself is not in the repository: here it calls in any order.     *)
(***************************************************************************)
EXTENDS Naturals, Integers, Sequences

CONSTANTS
    Calls,      \* the calls of popen and system that initdb makes
    Progress,   \* what initdb prints for its user
    Codes,      \* what runCmd answers: 0, 1 and -1
    MaxText     \* bound on the text written to a pipe, buffered or captured

ASSUME BridgeAssumption ==
    /\ Progress \notin Calls
    /\ 0 \in Codes /\ Codes \subseteq {-1, 0, 1}
    /\ MaxText \in Nat

VARIABLES
    lastPgResult, pendingPgArgs, capturedStdout, \* the variables of runInitdb
    popenFile,  \* the content of /tmp/.popen_output
    stdout,     \* what initdb's stdout FILE holds and has not written to fd 1
    stage,      \* of each call: new, open, closed, or failed
    mode,       \* r, w or system
    wrote,      \* what initdb wrote to its pipe, and
    input,      \* what its command read from stdin
    runs,       \* how often its command ran, and
    code,       \* how that ended
    told,       \* what pclose or system returned to initdb
    nested,     \* a pipe was opened while another was open (history)
    mixed       \* initdb printed into one (history)

bridge == <<lastPgResult, pendingPgArgs, capturedStdout, popenFile>>
calls == <<stage, mode, wrote, input, runs, code, told>>
vars == <<bridge, stdout, calls, nested, mixed>>

None == Progress        \* no pending command
Text == Calls \union {Progress}

TypeOK ==
    /\ lastPgResult \in Codes
    /\ pendingPgArgs \in Calls \union {None}
    /\ capturedStdout \in [on : BOOLEAN, text : Seq(Text)]
    /\ popenFile \in Seq(Text)
    /\ stdout \in Seq(Text)
    /\ stage \in [Calls -> {"new", "open", "closed", "failed"}]
    /\ mode \in [Calls -> {"none", "r", "w", "system"}]
    /\ wrote \in [Calls -> Seq(Text)]
    /\ input \in [Calls -> Seq(Text)]
    /\ runs \in [Calls -> Nat]
    /\ code \in [Calls -> Codes]
    /\ told \in [Calls -> Codes \union {-1}]
    /\ nested \in BOOLEAN /\ mixed \in BOOLEAN

Nothing == [on |-> FALSE, text |-> <<>>]

Init ==
    /\ lastPgResult = 0
    /\ pendingPgArgs = None
    /\ capturedStdout = Nothing
    /\ popenFile = <<>>
    /\ stdout = <<>>
    /\ stage = [c \in Calls |-> "new"]
    /\ mode = [c \in Calls |-> "none"]
    /\ wrote = [c \in Calls |-> <<>>]
    /\ input = [c \in Calls |-> <<>>]
    /\ runs = [c \in Calls |-> 0]
    /\ code = [c \in Calls |-> 0]
    /\ told = [c \in Calls |-> 0]
    /\ nested = FALSE
    /\ mixed = FALSE

----------------------------------------------------------------------------

\* runCmd: main returns its code, exit(0) is 0, every other exit is 1, and a
\* trap or an instance that cannot be made is -1.
runCmd(c, stdin, result) ==
    /\ result \in Codes
    /\ input' = [input EXCEPT ![c] = stdin]
    /\ runs' = [runs EXCEPT ![c] = @ + 1]
    /\ code' = [code EXCEPT ![c] = result]

\* fd_write of fd 1: captured while a pipe is written, discarded otherwise.
Captured(text) ==
    IF capturedStdout.on THEN [capturedStdout EXCEPT !.text = @ \o text] ELSE capturedStdout

Is(c, s, m) == /\ stage' = [stage EXCEPT ![c] = s]
               /\ mode' = [mode EXCEPT ![c] = m]
Open(c) == stage[c] = "open"

\* system runs a postgres command at once, answers 0 for postgres --check and
\* -1 for every other program.
OnSystem(c) ==
    /\ stage[c] = "new"
    /\ Is(c, "closed", "system")
    /\ \/ /\ \E result \in Codes :
                runCmd(c, <<>>, result) /\ told' = [told EXCEPT ![c] = result]
       \/ /\ \E answer \in {-1, 0} : told' = [told EXCEPT ![c] = answer]
          /\ UNCHANGED <<input, runs, code>>
    /\ UNCHANGED <<bridge, stdout, wrote, nested, mixed>>

\* popen of a program that is not postgres is NULL.
PopenOther(c) ==
    /\ stage[c] = "new"
    /\ \E m \in {"r", "w"} : Is(c, "failed", m)
    /\ UNCHANGED <<bridge, stdout, wrote, input, runs, code, told, nested, mixed>>

Nests == nested' = (nested \/ \E d \in Calls : Open(d))

PopenReadUnrecorded(c) ==
    /\ stage[c] = "new"
    /\ \E s \in {"open", "failed"} : Is(c, s, "r")
    /\ \E result \in Codes : runCmd(c, <<>>, result)
    /\ popenFile' = <<c>>
    /\ Nests
    /\ UNCHANGED <<lastPgResult, pendingPgArgs, capturedStdout, stdout, wrote, told, mixed>>
\* popen for reading runs the command now and opens the file with its output.
\* initdb's fopen can fail.
PopenRead(c) ==
    /\ stage[c] = "new"
    /\ \E s \in {"open", "failed"} : Is(c, s, "r")
    /\ \E result \in Codes : runCmd(c, <<>>, result) /\ lastPgResult' = result
    /\ popenFile' = <<c>>
    /\ Nests
    /\ UNCHANGED <<pendingPgArgs, capturedStdout, stdout, wrote, told, mixed>>

\* popen for writing keeps the command for pclose and hands out stdout.
PopenWrite(c) ==
    /\ stage[c] = "new"
    /\ Is(c, "open", "w")
    /\ pendingPgArgs' = c
    /\ capturedStdout' = [on |-> TRUE, text |-> <<>>]
    /\ Nests
    /\ mixed' = (mixed \/ stdout # <<>>)
    /\ UNCHANGED <<lastPgResult, popenFile, stdout, wrote, input, runs, code, told>>

----------------------------------------------------------------------------

\* What the capture has after fflush of the stream that is closed: fflush of one
\* that is open for reading does not flush stdout.
FlushedTooLate(c) == capturedStdout
Flushed(c) == IF mode[c] = "w" THEN Captured(stdout) ELSE capturedStdout

PcloseKeepingPending(c) ==
    /\ Open(c) /\ pendingPgArgs # None
    /\ stage' = [stage EXCEPT ![c] = "closed"]
    /\ popenFile' = Flushed(c).text
    /\ \E result \in Codes : /\ runCmd(pendingPgArgs, popenFile', result)
                             /\ lastPgResult' = result
                             /\ told' = [told EXCEPT ![c] = result]
    /\ stdout' = <<>>
    /\ UNCHANGED <<pendingPgArgs, capturedStdout, mode, wrote, nested, mixed>>
\* pclose while a command is pending flushes the stream, ends the capture, and
\* runs the command on what was captured.
PclosePending(c) ==
    /\ Open(c) /\ pendingPgArgs # None
    /\ stage' = [stage EXCEPT ![c] = "closed"]
    /\ stdout' = IF mode[c] = "w" THEN <<>> ELSE stdout
    /\ popenFile' = IF capturedStdout.on THEN Flushed(c).text ELSE popenFile
    /\ pendingPgArgs' = None
    /\ capturedStdout' = Nothing
    /\ \E result \in Codes : /\ runCmd(pendingPgArgs, popenFile', result)
                             /\ lastPgResult' = result
                             /\ told' = [told EXCEPT ![c] = result]
    /\ UNCHANGED <<mode, wrote, nested, mixed>>

\* Otherwise it gives the last result.
PcloseLast(c) ==
    /\ Open(c) /\ pendingPgArgs = None
    /\ told' = [told EXCEPT ![c] = lastPgResult]
    /\ stage' = [stage EXCEPT ![c] = "closed"]
    /\ UNCHANGED <<bridge, stdout, mode, wrote, input, runs, code, nested, mixed>>

----------------------------------------------------------------------------
(* initdb and its stdio.                                                   *)

Buffers(t) ==
    /\ Len(stdout) + Len(capturedStdout.text) < MaxText
    /\ stdout' = Append(stdout, t)

Chatter ==
    /\ Buffers(Progress)
    /\ mixed' = (mixed \/ \E c \in Calls : Open(c) /\ mode[c] = "w")
    /\ UNCHANGED <<bridge, calls, nested>>

Puts(c) ==
    /\ Open(c) /\ mode[c] = "w"
    /\ Len(wrote[c]) < MaxText
    /\ Buffers(c)
    /\ wrote' = [wrote EXCEPT ![c] = Append(@, c)]
    /\ UNCHANGED <<bridge, stage, mode, input, runs, code, told, nested, mixed>>

\* A full buffer, or fflush(stdout).
Flush ==
    /\ stdout # <<>>
    /\ capturedStdout' = Captured(stdout)
    /\ stdout' = <<>>
    /\ UNCHANGED <<lastPgResult, pendingPgArgs, popenFile, calls, nested, mixed>>

Next ==
    \/ Chatter \/ Flush
    \/ \E c \in Calls :
          \/ OnSystem(c) \/ PopenOther(c) \/ PopenRead(c) \/ PopenWrite(c)
          \/ PclosePending(c) \/ PcloseLast(c) \/ Puts(c)

Spec == Init /\ [][Next]_vars

----------------------------------------------------------------------------
(* Properties.  initdb has one pipe at a time, flushes before it opens one *)
(* and prints nothing while it writes one; `nested` and `mixed` mark the   *)
(* behaviours in which it did not.                                         *)

\* pclose tells initdb how the command of that very pipe ended, although the
\* callbacks keep one result for all of them: one pipe at a time is enough.
PcloseTellsOwn ==
    ~nested => \A c \in Calls :
        stage[c] = "closed" /\ mode[c] # "system" => runs[c] = 1 /\ told[c] = code[c]

\* A command fed through a pipe reads what initdb wrote to that pipe, all of
\* it, in order, and nothing of what initdb printed before; and while a pipe is
\* open for reading, the one file that it reads is the output of its own command.
ReadsItsPipe ==
    ~nested => \A c \in Calls :
        /\ ~mixed /\ stage[c] = "closed" /\ mode[c] = "w" => input[c] = wrote[c]
        /\ Open(c) /\ mode[c] = "r" => popenFile = <<c>>

\* However the pipes nest, no command runs twice.
RunsAtMostOnce == \A c \in Calls : runs[c] <= 1
============================================================================
