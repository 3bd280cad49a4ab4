---------------------------- MODULE EventLogger ----------------------------
(***************************************************************************)
(* The log (EventLogger.cpp), a singleton all threads write to.  main sets *)
(* the level before it starts the other threads; each of them then calls   *)
(* LogEvent, Error and Debug.  A step is what a thread does between two    *)
(* points where another may run: the test of s_pInstance, its assignment,  *)
(* the acquisition of m_lock and the body under it.                        *)
(*                                                                         *)
(* A message is a sequence of characters; the time at the head of a line,  *)
(* the marks of errors and debug data and errno are left out.              *)
(***************************************************************************)
EXTENDS Naturals, Sequences

CONSTANTS
  Main, Workers,    \* threads
  Texts,            \* messages
  None,             \* no instance, no owner
  MaxCalls,         \* bound: calls of all threads
  MaxInstances      \* bound: loggers created, enough to notice two

Threads == Workers \cup {Main}
Gap == <<>>

\* Assumed of the constants.
LoggerAssumption == Main \notin Workers /\ None \notin Threads /\ None \notin Nat

VARIABLES
  s_pInstance,      \* a logger, or None
  loggers,          \* [lenLast, lastMessage, m_lock, debug] of each created
  at,               \* where each thread is
  call,             \* what it was called with, and the logger it found
  calls,            \* how many calls there were
  file              \* the lines of the log file, Gap for one that was lost

vars == <<s_pInstance, loggers, at, call, calls, file>>

NewLogger == [lenLast |-> 0, lastMessage |-> <<>>, m_lock |-> None, debug |-> FALSE]
NoCall == [kind |-> "none", text |-> <<>>, logger |-> None]

\* main is about to call GetInstance()->SetLogLevel(eLogLevel::Debug).
Init ==
  /\ s_pInstance = None
  /\ loggers = <<>>
  /\ at = [t \in Threads |-> IF t = Main THEN "get" ELSE "not started"]
  /\ call = [t \in Threads |-> IF t = Main THEN [NoCall EXCEPT !.kind = "level"]
                               ELSE NoCall]
  /\ calls = 0
  /\ file = <<>>

-----------------------------------------------------------------------------
(* GetInstance: a test, and a construction that another thread may overtake *)

Found(t) ==
  /\ at[t] = "get" /\ s_pInstance # None
  /\ call' = [call EXCEPT ![t].logger = s_pInstance]
  /\ at' = [at EXCEPT ![t] = "got"]
  /\ UNCHANGED <<s_pInstance, loggers, calls, file>>

Missing(t) ==
  /\ at[t] = "get" /\ s_pInstance = None
  /\ at' = [at EXCEPT ![t] = "create"]
  /\ UNCHANGED <<s_pInstance, loggers, call, calls, file>>

Create(t) ==
  /\ at[t] = "create" /\ Len(loggers) < MaxInstances
  /\ loggers' = Append(loggers, NewLogger)
  /\ s_pInstance' = Len(loggers')
  /\ call' = [call EXCEPT ![t].logger = s_pInstance']
  /\ at' = [at EXCEPT ![t] = "got"]
  /\ UNCHANGED <<calls, file>>

-----------------------------------------------------------------------------
\* Seeded error: the threads are started before the level is set.
StartThreads_bug_early ==
  /\ at[Main] = "get"
  /\ at' = [t \in Threads |-> IF t = Main THEN at[t] ELSE "idle"]
  /\ UNCHANGED <<s_pInstance, loggers, call, calls, file>>

\* main goes on to start the threads once its first call has returned.
StartThreads ==
  /\ at[Main] = "idle"
  /\ \E t \in Workers : at[t] = "not started"
  /\ at' = [t \in Threads |-> "idle"]
  /\ UNCHANGED <<s_pInstance, loggers, call, calls, file>>

\* The gateway's main sets Debug.
SetLogLevel(t, debug) ==
  /\ at[t] = "got" /\ call[t].kind = "level"
  /\ loggers' = [loggers EXCEPT ![call[t].logger].debug = debug]
  /\ at' = [at EXCEPT ![t] = "idle"]
  /\ call' = [call EXCEPT ![t] = NoCall]
  /\ UNCHANGED <<s_pInstance, calls, file>>

\* LogEvent, Error and Debug begin; Debug asks the level first.
Call(t, kind, text) ==
  /\ at[t] = "idle" /\ calls < MaxCalls
  /\ calls' = calls + 1
  /\ call' = [call EXCEPT ![t] = [kind |-> kind, text |-> text, logger |-> None]]
  /\ at' = [at EXCEPT ![t] = "get"]
  /\ UNCHANGED <<s_pInstance, loggers, file>>

\* Debug writes only at the debug level.
Quiet(t) ==
  /\ at[t] = "got" /\ call[t].kind = "debug" /\ ~loggers[call[t].logger].debug
  /\ at' = [at EXCEPT ![t] = "idle"]
  /\ call' = [call EXCEPT ![t] = NoCall]
  /\ UNCHANGED <<s_pInstance, loggers, calls, file>>

Writes(t) ==
  \/ call[t].kind \in {"event", "error"}
  \/ call[t].kind = "debug" /\ loggers[call[t].logger].debug

WriteLock(t) ==
  /\ at[t] = "got" /\ Writes(t)
  /\ loggers[call[t].logger].m_lock = None
  /\ loggers' = [loggers EXCEPT ![call[t].logger].m_lock = t]
  /\ at' = [at EXCEPT ![t] = "compare"]
  /\ UNCHANGED <<s_pInstance, call, calls, file>>

\* l_length != m_lenLast && memcmp(p_eventMsg, m_lastMessage, l_length) != 0:
\* memcmp finds a difference unless the message is a beginning of the last.
Differs(logger, text) ==
  /\ Len(text) # logger.lenLast
  /\ ~ /\ Len(text) <= Len(logger.lastMessage)
       /\ text = SubSeq(logger.lastMessage, 1, Len(text))

\* Under the lock the message is compared and remembered ...
Compare(t) ==
  LET k == call[t].logger
      differs == Differs(loggers[k], call[t].text)
  IN /\ at[t] = "compare"
     /\ loggers' = IF differs
                   THEN [loggers EXCEPT ![k].lastMessage = call[t].text,
                                        ![k].lenLast = Len(call[t].text)]
                   ELSE loggers
     /\ at' = [at EXCEPT ![t] = IF differs THEN "append" ELSE "unlock"]
     /\ UNCHANGED <<s_pInstance, call, calls, file>>

\* ... and the file is opened, which may fail, appended to and closed.
Write(t, opened) ==
  /\ at[t] = "append"
  /\ file' = Append(file, IF opened THEN call[t].text ELSE Gap)
  /\ at' = [at EXCEPT ![t] = "unlock"]
  /\ UNCHANGED <<s_pInstance, loggers, call, calls>>

\* LogEvent then asks the instance once more whether to print.
Unlock(t) ==
  /\ at[t] = "unlock"
  /\ loggers' = [loggers EXCEPT ![call[t].logger].m_lock = None]
  /\ at' = [at EXCEPT ![t] = IF call[t].kind = "event" THEN "get" ELSE "idle"]
  /\ call' = [call EXCEPT ![t] = IF call[t].kind = "event"
                                 THEN [@ EXCEPT !.kind = "level asked"] ELSE NoCall]
  /\ UNCHANGED <<s_pInstance, calls, file>>

Printed(t) ==
  /\ at[t] = "got" /\ call[t].kind = "level asked"
  /\ at' = [at EXCEPT ![t] = "idle"]
  /\ call' = [call EXCEPT ![t] = NoCall]
  /\ UNCHANGED <<s_pInstance, loggers, calls, file>>

Next ==
  \/ \E t \in Threads :
       \/ Found(t) \/ Missing(t) \/ Create(t)
       \/ \E debug \in BOOLEAN : SetLogLevel(t, debug)
       \/ Quiet(t) \/ WriteLock(t) \/ Compare(t)
       \/ \E opened \in BOOLEAN : Write(t, opened)
       \/ Unlock(t) \/ Printed(t)
  \/ StartThreads
  \/ \E t \in Threads, kind \in {"event", "error", "debug"}, text \in Texts :
       Call(t, kind, text)

Spec == Init /\ [][Next]_vars

-----------------------------------------------------------------------------
\* Whatever the threads log together, no line of the file repeats the line
\* before it, unless a file could not be opened in between, and there is one
\* logger only: "avoid writing the same message twice".
NoLineTwice ==
  /\ \A k \in 2 .. Len(file) : file[k] # file[k - 1] \/ file[k] = Gap
  /\ Len(loggers) <= 1
=============================================================================
