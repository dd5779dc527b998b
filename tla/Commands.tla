------------------------------ MODULE Commands ------------------------------
(***************************************************************************)
(* emscripten/systemcb.go and cluster.go: the shell commands with which    *)
(* initdb starts postgres.  A command is its program and the fields that   *)
(* follow, cut at blanks.  A field is a text with or without quotes around *)
(* it; a text is a list of pieces, so that a program in quotes may have    *)
(* blanks in it.                                                           *)
(***************************************************************************)
EXTENDS Samples, Sequences, SequencesExt, Integers

CONSTANTS
    Operators,      \* the fields the code takes for redirections and ends of a command
    ShellOperators, \* the ones a shell does, the code's and others such as >file
    Options,        \* the arguments that start with a dash
    DataDir         \* the data directory

ASSUME OperatorsAssumption == Operators \subseteq ShellOperators

ASSUME OptionsAssumption == {"-D", "-c", "-V", "--version", "--single"} \subseteq Options

\* The index of the first element of s in the set x, or one behind the last.
FirstIn(s, x) == CHOOSE i \in 1..(Len(s) + 1) :
                    /\ i <= Len(s) => s[i] \in x
                    /\ \A j \in 1..(i - 1) : s[j] \notin x

\* A program in quotes is all of it; without quotes its first piece, and its other
\* pieces are fields.
Rest(cmd) ==
    IF cmd.quoted THEN cmd.fields
    ELSE [i \in 1..(Len(cmd.program) - 1) |-> [text |-> cmd.program[i + 1], quoted |-> FALSE]] \o cmd.fields
\* The texts of the fields, without the empty ones.
Keep(args, f) == IF f.text = "" THEN args ELSE Append(args, f.text)
Kept(fields) == LET k[i \in 0..Len(fields)] == IF i = 0 THEN <<>> ELSE Keep(k[i - 1], fields[i]) IN k
ParseSystemCommand(cmd) ==
    LET rest == Rest(cmd)
        Stops == {f \in ToSet(rest) : ~f.quoted /\ f.text \in Operators}
        n == FirstIn(rest, Stops) - 1
    IN  [program |-> IF cmd.quoted THEN cmd.program ELSE SubSeq(cmd.program, 1, 1),
         args |-> Kept(SubSeq(rest, 1, n))[n]]

insertDataDirAtEnd(args, dataDir) ==
    IF \E a \in ToSet(args) : a \in {"-D", "-V", "--version"} THEN args ELSE args \o <<"-D", dataDir>>
\* -D and the directory: in front of the database name of --single, else at the end.
insertDataDir(args, dataDir) ==
    LET single == FirstIn(args, {"--single"})
        names == {j \in (single + 1)..Len(args) : args[j] \notin Options}
    IN  IF \E a \in ToSet(args) : a \in {"-D", "-V", "--version"} THEN args
        ELSE IF names = {} THEN args \o <<"-D", dataDir>>
        ELSE LET j == CHOOSE j \in names : \A k \in names : k <= j
             IN  SubSeq(args, 1, j - 1) \o <<"-D", dataDir>> \o SubSeq(args, j, Len(args))

\* The arguments postgres is started with (OnSystem, OnPopen and OnPclose).
CommandLine(cmd, dataDir) ==
    LET parsed == ParseSystemCommand(cmd) IN [program |-> parsed.program, args |-> insertDataDir(parsed.args, dataDir)]

----------------------------------------------------------------------------
(* What they are compared with: what a shell makes of a command, and what postgres *)
(* makes of its arguments.                                                         *)

\* A shell passes on what is in front of the redirections.
IsPlain(f) == f.quoted \/ f.text \notin ShellOperators
ShellArgs(cmd) ==
    LET Stops == {f \in ToSet(cmd.fields) : ~IsPlain(f)}
    IN  [i \in 1..(FirstIn(cmd.fields, Stops) - 1) |-> cmd.fields[i].text]

\* getopt: options, some with a value, and the first argument that is none is the
\* database; what follows it is not looked at.
Valued == {"-c", "-D"}
GetArg(u, a) ==
    IF u.value = "-D" THEN [u EXCEPT !.dir = a, !.value = ""]
    ELSE IF u.value = "-c" THEN [u EXCEPT !.settings = Append(@, a), !.value = ""]
    ELSE IF u.database # "" THEN [u EXCEPT !.ignored = Append(@, a)]
    ELSE IF a \in Valued THEN [u EXCEPT !.value = a]
    ELSE IF a \in Options THEN [u EXCEPT !.flags = @ \union {a}]
    ELSE [u EXCEPT !.database = a]
NothingYet == [dir |-> "", settings |-> <<>>, flags |-> {}, database |-> "", ignored |-> <<>>, value |-> ""]
Getting(args) == LET u[k \in 0..Len(args)] == IF k = 0 THEN NothingYet ELSE GetArg(u[k - 1], args[k]) IN u
Getopt(args) == Getting(args)[Len(args)]

\* Commands a shell and postgres accept: a program without quotes has no blanks, no
\* argument is empty, and an option with a value has one that is not an option.
\* Redirections are written in the forms the code tests for.
WellFormed(cmd) ==
    LET args == ShellArgs(cmd) IN
    /\ cmd.quoted \/ Len(cmd.program) = 1
    /\ \A f \in ToSet(cmd.fields) : IsPlain(f) \/ f.text \in Operators
    /\ \A i \in DOMAIN args : args[i] # ""
    /\ \A i \in DOMAIN args : args[i] \in Valued => i + 1 \in DOMAIN args /\ args[i + 1] \notin Options
\* Commands that ask for what postgres gives: with --single, for a database; nothing behind it.
Sensible(asked) == asked.ignored = <<>> /\ ("--single" \in asked.flags <=> asked.database # "")

\* postgres gets what initdb asked the shell for, in the data directory; a request for
\* the version is passed on as it is.
Told(asked) == asked.dir # "" \/ "-V" \in asked.flags \/ "--version" \in asked.flags
PostgresGets(cmd) ==
    LET asked == Getopt(ShellArgs(cmd))
        line == CommandLine(cmd, DataDir)
    IN  Sensible(asked) =>
            /\ line.program = cmd.program
            /\ Getopt(line.args) = IF Told(asked) THEN asked ELSE [asked EXCEPT !.dir = DataDir]

\* postgres is started with what initdb's command says, in the data directory
\* (ParseSystemCommand, insertDataDir).
CommandIsUnderstood == sample.kind = "command" => (WellFormed(sample) => PostgresGets(sample))
=============================================================================
