--------------------------- MODULE AtomicSession ---------------------------
(***************************************************************************)
(* What wireConn.exec promises: a request is answered as if the backend    *)
(* had taken all its messages in one step, in order, each message's effect *)
(* and reply complete, one ReadyForQuery at the end when one is owed.  It  *)
(* fails only when the backend is gone or exits at one of its messages,    *)
(* with the effect of exactly the messages before that one, and of an      *)
(* ERROR that the backend was raising for it.                              *)
(***************************************************************************)
EXTENDS PgBackend, Naturals

CONSTANTS
    Requests,   \* the requests that may be staged
    MayDie      \* whether a FATAL error can end the backend

VARIABLES phase, req, session, alive, reply

atomicVars == <<phase, req, session, alive, reply>>

\* One message: its effect on the session and what it appends to the reply.
Take(acc, m) ==
    LET s == acc.session IN
    IF Raises(s, m)
    THEN [session |-> LongJmp(Thrown(s, m), m), reply |-> Append(acc.reply, "E")]
    ELSE [session |-> Processed(s, m),
          reply |-> IF Ignored(s, m) \/ Executes(s, m) = NoStmt
                    THEN acc.reply ELSE Append(acc.reply, "C")]

\* The session and the reply after each number of messages of a request.  A fold as
\* a recursive function, whose equation the proofs establish.
After(s, msgs) ==
    LET after[n \in 0..Len(msgs)] ==
            IF n = 0 THEN [session |-> s, reply |-> <<>>] ELSE Take(after[n - 1], msgs[n])
    IN  after

Init ==
    /\ phase = "idle" /\ req = <<>> /\ reply = <<>>
    /\ session = FreshSession /\ alive = TRUE

Submit ==
    /\ phase = "idle"
    /\ req' \in Requests
    /\ phase' = "busy"
    /\ reply' = <<>>
    /\ UNCHANGED <<session, alive>>

Survives(n) == \A k \in 1..n : req[k].typ # "X"

Answer ==
    /\ phase = "busy" /\ alive
    /\ Survives(Len(req))
    /\ LET t == After(session, req)[Len(req)] IN
        /\ session' = [t.session EXCEPT !.rfq = FALSE]
        /\ reply' = IF t.session.rfq
                    THEN Append(t.reply, ReadyForQuery(t.session.tx)) ELSE t.reply
    /\ phase' = "answered"
    /\ UNCHANGED <<req, alive>>

\* The backend exits at message n + 1: Terminate, or a FATAL error, which may
\* come while it recovers from the ERROR that message raised.
ExitAt(s, m) ==
    \/ session' = s /\ (m.typ = "X" \/ (MayDie /\ ~Ignored(s, m)))
    \/ session' = Thrown(s, m) /\ MayDie /\ Raises(s, m)

Exit ==
    /\ phase = "busy" /\ alive
    /\ \E n \in 0..(Len(req) - 1) :
          /\ Survives(n)
          /\ ExitAt(After(session, req)[n].session, req[n + 1])
    /\ alive' = FALSE
    /\ phase' = "failed"
    /\ reply' = <<>>
    /\ UNCHANGED req

\* The backend has exited before: nothing of the request is taken.
Refuse ==
    /\ phase = "busy" /\ ~alive
    /\ phase' = "failed"
    /\ reply' = <<>>
    /\ UNCHANGED <<req, session, alive>>

Forget ==
    /\ phase \in {"answered", "failed"}
    /\ phase' = "idle"
    /\ reply' = <<>>
    /\ UNCHANGED <<req, session, alive>>

Next == Submit \/ Answer \/ Exit \/ Refuse \/ Forget

Spec == Init /\ [][Next]_atomicVars
============================================================================
