---------------------------- MODULE InvoiceSync ----------------------------
(***************************************************************************)
(* The mirror of the invoices: a cold start over windows of dates, fanned out *)
(* as messages of one queue, and runs over the last days, which the scheduler  *)
(* and every order sync ask for.  One consumer takes the messages one by one.  *)
(* The headers come from a list, the lines from a request per invoice, which    *)
(* may fail without harm: a later run over the same days asks again.            *)
(*                                                                         *)
(* The history is one invoice per window, and some invoices are issued later;   *)
(* their age is the number of days since.  Cold starts keep no lines.           *)
(***************************************************************************)
EXTENDS Integers, FiniteSets

CONSTANTS
    Windows,        \* the windows of the history
    Issued,         \* the invoices issued later
    Lookback,       \* the days a run over the last days covers
    MaxFailures     \* bound: the faults

VARIABLES
    age,            \* of the later invoices, in days; NotYet before the issue
    headers, lines, \* the invoices stored, and those with their lines
    logs,           \* the sync log of each cold start
    stored,         \* the windows of which everything was stored
    queue,          \* the messages, and how often each is there
    work,           \* the message at work
    asked,          \* today's run was asked for
    up,             \* the process is up (and the boot is over)
    repeats,        \* windows that were counted again
    failures
ivars == <<age, headers, lines, logs, stored, queue, work, asked, up, repeats, failures>>

NotYet == -1
Old == Lookback + 1
Unknown == -1           \* no total in the log's metadata
NoLog == [status |-> "none", total |-> Unknown, processed |-> 0]
Invoices == Windows \cup Issued

\* There is a cold start at a boot, and a boot after a fault only.
LogIds == 1..MaxFailures + 1

\* A message: a cold start, one of its windows, or the last days.
Message(kind, window, log) == [kind |-> kind, window |-> window, log |-> log]
Cold(l) == Message("cold", 0, l)
RecentMessage == Message("recent", 0, 0)
Messages == {RecentMessage} \cup {Cold(l) : l \in LogIds}
            \cup {Message("window", w, l) : w \in Windows, l \in LogIds}
Free == [at |-> "free", msg |-> RecentMessage, todo |-> {}]

Init ==
    /\ age = [i \in Issued |-> NotYet]
    /\ headers = {} /\ lines = {}
    /\ logs = [l \in LogIds |-> NoLog] /\ stored = {}
    /\ queue = [m \in Messages |-> 0]
    /\ work = Free
    /\ asked = FALSE /\ up = FALSE /\ repeats = [l \in LogIds |-> 0]
    /\ failures = MaxFailures

Fail == failures > 0 /\ failures' = failures - 1
Put(q, m) == [q EXCEPT ![m] = @ + 1]
\* Mutant of Covered: a run covers today only.
CoveredToday(m) ==
    CASE m.kind = "window" -> {m.window}
      [] m.kind = "recent" -> {i \in Issued : age[i] \in {0}}
      [] OTHER -> {}

\* What a message makes the consumer list.
Covered(m) ==
    CASE m.kind = "window" -> {m.window}
      [] m.kind = "recent" -> {i \in Issued : age[i] \in 0..Lookback}
      [] OTHER -> {}

---------------------------------------------------------------------------
(* Days, boots, and what asks for runs                                      *)

Issue(i) ==
    /\ age[i] = NotYet
    /\ age' = [age EXCEPT ![i] = 0]
    /\ UNCHANGED <<headers, lines, logs, stored, queue, work, asked, up, repeats, failures>>

\* The cron of the invoices, and an order sync: the same message.
AskForRecent ==
    /\ up /\ ~asked
    /\ asked' = TRUE
    /\ queue' = Put(queue, RecentMessage)
    /\ UNCHANGED <<age, headers, lines, logs, stored, work, up, repeats, failures>>

\* A day ends when its run was asked for and the queue is done.
DayEnds ==
    /\ asked /\ work = Free /\ \A m \in Messages : queue[m] = 0
    /\ \E i \in Issued : age[i] \in 0..Lookback
    /\ asked' = FALSE
    /\ age' = [i \in Issued |-> IF age[i] \in 0..Lookback THEN age[i] + 1 ELSE age[i]]
    /\ UNCHANGED <<headers, lines, logs, stored, queue, work, up, repeats, failures>>

NextLog == CHOOSE l \in LogIds : logs[l] = NoLog /\ \A k \in 1..l - 1 : logs[k] # NoLog

\* The boot asks for the cold start if there is no invoice at all.
Boot ==
    /\ ~up /\ up' = TRUE
    /\ IF headers = {}
       THEN /\ logs' = [logs EXCEPT ![NextLog].status = "running"]
            /\ queue' = Put(queue, Cold(NextLog))
       ELSE UNCHANGED <<logs, queue>>
    /\ UNCHANGED <<age, headers, lines, stored, work, asked, repeats, failures>>

\* The broker refuses the message: "will retry on next startup".
BootFails ==
    /\ ~up /\ up' = TRUE
    /\ headers = {} /\ Fail
    /\ logs' = [logs EXCEPT ![NextLog].status = "failed"]
    /\ UNCHANGED <<age, headers, lines, stored, queue, work, asked, repeats>>

---------------------------------------------------------------------------
(* The consumer                                                            *)

Take(m) ==
    /\ up /\ work = Free /\ queue[m] > 0
    /\ queue' = [queue EXCEPT ![m] = @ - 1]
    /\ work' = [at |-> IF m.kind = "cold" THEN "total" ELSE "list", msg |-> m, todo |-> {}]
    /\ UNCHANGED <<age, headers, lines, logs, stored, asked, up, repeats, failures>>

\* The cold start records the number of windows, and publishes one after the other.
SetTotal ==
    /\ work.at = "total"
    /\ logs' = [logs EXCEPT ![work.msg.log].total = Cardinality(Windows)]
    /\ work' = [work EXCEPT !.at = "fanout", !.todo = Windows]
    /\ UNCHANGED <<age, headers, lines, stored, queue, asked, up, repeats, failures>>

FanOut ==
    /\ work.at = "fanout"
    /\ IF work.todo = {}
       THEN work' = Free /\ UNCHANGED queue
       ELSE LET w == CHOOSE w \in work.todo : \A v \in work.todo : w <= v IN
            /\ queue' = Put(queue, Message("window", w, work.msg.log))
            /\ work' = [work EXCEPT !.todo = @ \ {w}]
    /\ UNCHANGED <<age, headers, lines, logs, stored, asked, up, repeats, failures>>

\* A page of the list is stored with its headers.
StorePage ==
    /\ work.at = "list"
    /\ headers' = headers \cup Covered(work.msg)
    /\ stored' = stored \cup (Covered(work.msg) \cap Windows)
    /\ work' = [work EXCEPT !.at = IF work.msg.kind = "window" THEN "count" ELSE "lines",
                            !.todo = Covered(work.msg)]
    /\ UNCHANGED <<age, lines, logs, queue, asked, up, repeats, failures>>

\* The list fails: the message goes to the dead letters.
ListFails ==
    /\ work.at = "list" /\ Fail
    /\ work' = Free
    /\ UNCHANGED <<age, headers, lines, logs, stored, queue, asked, up, repeats>>

\* The lines of an invoice are replaced as a whole; a request that fails is passed over.
FetchLines(i) ==
    /\ work.at = "lines" /\ i \in work.todo
    /\ lines' = lines \cup {i}
    /\ work' = [work EXCEPT !.todo = @ \ {i}]
    /\ UNCHANGED <<age, headers, logs, stored, queue, asked, up, repeats, failures>>
LinesFail(i) ==
    /\ work.at = "lines" /\ i \in work.todo /\ Fail
    /\ work' = [work EXCEPT !.todo = @ \ {i}]
    /\ UNCHANGED <<age, headers, lines, logs, stored, queue, asked, up, repeats>>

\* A run over the last days has a log of its own, closed here, or none.
Ack ==
    /\ work.at = "lines" /\ work.todo = {}
    /\ work' = Free
    /\ UNCHANGED <<age, headers, lines, logs, stored, queue, asked, up, repeats, failures>>

\* Mutant of CountWindow: the counter grows with every invoice stored, too.
CountInvoices ==
    /\ work.at = "count"
    /\ logs' = [logs EXCEPT ![work.msg.log].processed = @ + 1 + Cardinality(work.todo)]
    /\ work' = [work EXCEPT !.at = "finalize"]
    /\ UNCHANGED <<age, headers, lines, stored, queue, asked, up, repeats, failures>>

CountWindow ==
    /\ work.at = "count"
    /\ logs' = [logs EXCEPT ![work.msg.log].processed = @ + 1]
    /\ work' = [work EXCEPT !.at = "finalize"]
    /\ UNCHANGED <<age, headers, lines, stored, queue, asked, up, repeats, failures>>

TryFinalize ==
    /\ work.at = "finalize"
    /\ LET l == work.msg.log
           row == logs[l]
       IN  logs' = IF row.status = "running" /\ row.total # Unknown /\ row.processed >= row.total
                   THEN [logs EXCEPT ![l].status = "completed"] ELSE logs
    /\ work' = Free
    /\ UNCHANGED <<age, headers, lines, stored, queue, asked, up, repeats, failures>>

\* The process ends; a message that was not acknowledged comes again, and what it
\* had published or counted stays.
Crash ==
    /\ up /\ Fail
    /\ up' = FALSE /\ work' = Free
    /\ queue' = IF work = Free THEN queue ELSE Put(queue, work.msg)
    /\ repeats' = IF work.at \notin {"fanout", "finalize"} THEN repeats
                  ELSE [repeats EXCEPT ![work.msg.log] =
                          @ + IF work.at = "finalize" THEN 1 ELSE Cardinality(Windows \ work.todo)]
    /\ UNCHANGED <<age, headers, lines, logs, stored, asked>>

\* The watchdog closes a log that has been running for too long.
Watchdog(l) ==
    /\ up /\ logs[l].status = "running" /\ Fail
    /\ logs' = [logs EXCEPT ![l].status = "failed"]
    /\ UNCHANGED <<age, headers, lines, stored, queue, work, asked, up, repeats>>

Consume == \/ \E m \in Messages : Take(m)
           \/ SetTotal \/ FanOut \/ StorePage \/ Ack \/ CountWindow \/ TryFinalize
           \/ \E i \in Issued : FetchLines(i)
Next ==
    \/ \E i \in Issued : Issue(i) \/ LinesFail(i)
    \/ AskForRecent \/ DayEnds \/ Boot \/ BootFails \/ Consume \/ ListFails \/ Crash
    \/ \E l \in LogIds : Watchdog(l)

Spec == Init /\ [][Next]_ivars

\* The scheduler runs, the consumer goes on, a process that ended is started again.
Fairness == WF_ivars(AskForRecent) /\ WF_ivars(DayEnds) /\ WF_ivars(Boot) /\ WF_ivars(Consume)
FairSpec == Spec /\ Fairness

---------------------------------------------------------------------------\* The rows of invoices and of their items.
Headers == SUBSET Invoices
Lines == SUBSET Invoices

TypeOK ==
    /\ age \in [Issued -> NotYet..Old]
    /\ headers \in Headers /\ lines \in Lines /\ lines \subseteq headers /\ stored \subseteq Windows
    /\ \A l \in LogIds : /\ logs[l].status \in {"none", "running", "completed", "failed"}
                         /\ logs[l].total \in {Unknown, Cardinality(Windows)}
    /\ queue \in [Messages -> Nat] /\ asked \in BOOLEAN /\ up \in BOOLEAN
    /\ work.at \in {"free", "total", "fanout", "list", "lines", "count", "finalize"}
    /\ \A l \in LogIds : repeats[l] \in Nat

\* "So try_finalize closes the log once every window has been processed": it closes
\* too early only by the windows that a crash made the consumer count again.
CompletedIsStored ==
    \A l \in LogIds :
        logs[l].status = "completed" => Cardinality(Windows \ stored) <= repeats[l]

\* A failed request for lines or list is made good by the next day's run: every
\* invoice issued is mirrored with its lines, as long as faults are fewer than the
\* runs that cover it.
WithLines == \A i \in Issued : age[i] # NotYet => i \in lines
LinesArrive == <>[]WithLines
=============================================================================
