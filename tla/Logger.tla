------------------------------- MODULE Logger -------------------------------
(***************************************************************************)
(* The log all servers and connections write to.  An entry is enqueued     *)
(* part by part, its length is added to CurrentQueueLength, and Flush      *)
(* gathers the queue in one Buffer and hands it to the console: at once,   *)
(* on the thread that logs, or from a timer if the logger was made with a  *)
(* period.  Only the timer's handlers are kept apart by a lock.  The flags *)
(* that let an entry through are set by each server as it starts.          *)
(*                                                                         *)
(* Parts count one each for their length.                                  *)
(***************************************************************************)
EXTENDS Integers, Sequences, FiniteSets

CONSTANTS Threads,    \* threads that log
          Main,       \* the one that starts the servers
          PartCounts, \* how many parts an entry may have
          MaxEntries, \* bound: entries that are logged
          MaxServers  \* bound: servers that are started

ASSUME MainLogs == Main \in Threads
ASSUME TimerIsNoWriter == "timer" \notin Threads
ASSUME EntriesHaveParts == PartCounts \subseteq Nat \ {0}
ASSUME BoundsAreNatural == MaxEntries \in Nat /\ MaxServers \in Nat

VARIABLES
    doTimer, \* DoTimer: the logger was made with a period
    due,     \* the timer will call its handler
    flags,   \* ChannelFlags, as the set of its bits
    servers, \* servers that have set the flags
    setting, \* where the main thread is in the setting of them
    queue,   \* Queue
    length,  \* CurrentQueueLength
    buffer,  \* Buffer: its text, and the null characters in front of it
    at,      \* where each thread is in its call
    entry,   \* the entry of each thread
    next,    \* the part it enqueues next
    seen,    \* the length it has read and will add to
    text,    \* what it is about to hand to the console
    console, \* what the console was handed
    parts,   \* history: how many parts each entry has
    enqueued, \* history: the parts in the order they were enqueued
    shown,   \* history: the parts on the console, without the null characters
    dropped, \* history: the levels of the entries that the flags kept back
    overlapped, \* history: two calls were in progress at once
    met      \* history: two threads were in Queue, or two in Buffer, at once

timer == << doTimer, due >>
startup == << flags, servers, setting >>
local == << entry, next, seen, text >>
history == << parts, enqueued, shown, dropped >>
races == << overlapped, met >>
logVars == << timer, startup, queue, length, buffer, at, local, console, history, races >>

Callers == Threads \cup {"timer"}
Entries == 1 .. Len(parts)
Empty == [nulls |-> 0, text |-> << >>]

Others(places, c) == \E d \in Callers \ {c} : at[d] \in places

\* What a call has changed, and what it has yet to change, is not in order.
Calling == {"enqueue", "count", "add", "check", "clear", "drain", "reset", "copy", "write"}
InQueue == {"enqueue", "drain"}
InBuffer == {"drain", "reset", "copy"}

\* A thread goes on from here.  Once two threads have met in Queue or in Buffer,
\* the runtime promises nothing, and what they do is followed no further.
IsAt(c, place) == at[c] = place /\ ~ met

\* The handler's own look at the length disturbs nobody.
Busy(c) == at[c] \in Calling /\ ~ (c = "timer" /\ at[c] = "check")
OthersBusy(c) == \E d \in Callers \ {c} : Busy(d)

-----------------------------------------------------------------------------
LogInit ==
    /\ doTimer \in BOOLEAN
    /\ due = TRUE
    /\ flags = {} /\ servers = 0 /\ setting = "no"
    /\ queue = << >> /\ length = 0 /\ buffer = Empty
    /\ at = [c \in Callers |-> "idle"]
    /\ entry = [t \in Threads |-> 0] /\ next = [t \in Threads |-> 1]
    /\ seen = [t \in Threads |-> 0]
    /\ text = [c \in Callers |-> Empty]
    /\ console = << >>
    /\ parts = << >> /\ enqueued = << >> /\ shown = << >> /\ dropped = << >>
    /\ overlapped = FALSE /\ met = FALSE

-----------------------------------------------------------------------------
(* The flags *)

Levels == {"Info", "Warn", "Error"}

\* LogChannelFlags counts up: Error is three, the bits of Info and Warn.
Bits(level) ==
    CASE level = "Info" -> {1} [] level = "Warn" -> {2} [] level = "Error" -> {1, 2}

Passes(level) == flags \cap Bits(level) # {}

\* StartAsync clears the flags all servers share,
ClearFlags ==
    /\ setting = "no" /\ servers < MaxServers
    /\ at[Main] = "idle"
    /\ flags' = {}
    /\ setting' = "Info"
    /\ UNCHANGED << timer, servers, queue, length, buffer, at, local, console, history, races >>

\* sets those its configuration asks for,
SetOption(level, following) ==
    /\ setting = level
    /\ flags' \in {flags, flags \cup Bits(level)}
    /\ setting' = following
    /\ UNCHANGED << timer, servers, queue, length, buffer, at, local, console, history, races >>

\* Faulty variant: whether errors are logged is an option too.
SetError_Asked ==
    /\ setting = "Error"
    /\ flags' \in {flags, flags \cup Bits("Error")}
    /\ setting' = "no"
    /\ servers' = servers + 1
    /\ UNCHANGED << timer, queue, length, buffer, at, local, console, history, races >>

\* and that of the errors in any case.
SetError ==
    /\ setting = "Error"
    /\ flags' = flags \cup Bits("Error")
    /\ setting' = "no"
    /\ servers' = servers + 1
    /\ UNCHANGED << timer, queue, length, buffer, at, local, console, history, races >>

-----------------------------------------------------------------------------
(* Logging an entry *)

\* Connections are there once a server is, and one thread does one thing at a time.
MayLog(t) ==
    /\ IsAt(t, "idle")
    /\ Len(parts) + Len(dropped) < MaxEntries
    /\ IF t = Main THEN setting = "no" ELSE servers > 0

\* An entry of a level that is off is nobody's.
Drop(t) ==
    /\ MayLog(t)
    /\ \E level \in Levels : ~ Passes(level) /\ dropped' = Append(dropped, level)
    /\ UNCHANGED << timer, startup, queue, length, buffer, at, local, console, parts,
                    enqueued, shown, races >>

Log(t) ==
    /\ MayLog(t)
    /\ \E level \in Levels : Passes(level)
    /\ \E n \in PartCounts : parts' = Append(parts, n)
    /\ entry' = [entry EXCEPT ![t] = Len(parts) + 1]
    /\ next' = [next EXCEPT ![t] = 1]
    /\ at' = [at EXCEPT ![t] = "enqueue"]
    /\ overlapped' = (overlapped \/ OthersBusy(t))
    /\ UNCHANGED << timer, startup, queue, length, buffer, seen, text, console, enqueued,
                    shown, dropped, met >>

\* One part is enqueued.
Enqueue(t) ==
    /\ IsAt(t, "enqueue")
    /\ queue' = Append(queue, << entry[t], next[t] >>)
    /\ enqueued' = Append(enqueued, << entry[t], next[t] >>)
    /\ next' = [next EXCEPT ![t] = @ + 1]
    /\ at' = [at EXCEPT ![t] = IF next[t] = parts[entry[t]] THEN "count" ELSE "enqueue"]
    /\ met' = (met \/ Others(InQueue, t))
    /\ UNCHANGED << timer, startup, length, buffer, entry, seen, text, console, parts,
                    shown, dropped, overlapped >>

\* The length is read,
Count(t) ==
    /\ IsAt(t, "count")
    /\ seen' = [seen EXCEPT ![t] = length]
    /\ at' = [at EXCEPT ![t] = "add"]
    /\ UNCHANGED << timer, startup, queue, length, buffer, entry, next, text, console,
                    history, races >>

\* Faulty variant: the end of the line is not counted.
LengthOf_NoNewLine(e) == parts[e] - 1

LengthOf(e) == parts[e]

\* and written; without a timer the entry is flushed immediately.
Add(t) ==
    /\ IsAt(t, "add")
    /\ length' = seen[t] + LengthOf(entry[t])
    /\ at' = [at EXCEPT ![t] = IF doTimer THEN "idle" ELSE "check"]
    /\ UNCHANGED << timer, startup, queue, buffer, local, console, history, races >>

-----------------------------------------------------------------------------
(* Flush *)

\* Faulty variant: a period of zero is one of its own.
DueAgain_Never == FALSE

\* The timer is due at once, and with a period again and again; the period that is
\* set later changes nothing where there was none.
DueAgain == doTimer

\* The handlers run one at a time, and each flushes.
TimerHandler ==
    /\ due /\ IsAt("timer", "idle")
    /\ due' = DueAgain
    /\ at' = [at EXCEPT !["timer"] = "check"]
    /\ UNCHANGED << doTimer, startup, queue, length, buffer, local, console, history, races >>

Check(c) ==
    /\ IsAt(c, "check")
    /\ at' = [at EXCEPT ![c] = IF length < 1 THEN "idle" ELSE "clear"]
    /\ overlapped' = (overlapped \/ (length > 0 /\ OthersBusy(c)))
    /\ UNCHANGED << timer, startup, queue, length, buffer, local, console, history, met >>

\* Faulty variant: the text of the last flush stays.
Cleared_Not(n) == [nulls |-> n, text |-> buffer.text]

\* The buffer is made empty, and then as long as the queue's text: a length that
\* is set fills with null characters.
Cleared(n) == [nulls |-> n, text |-> << >>]

Clear(c) ==
    /\ IsAt(c, "clear")
    /\ buffer' = Cleared(length)
    /\ at' = [at EXCEPT ![c] = "drain"]
    /\ met' = (met \/ Others(InBuffer, c))
    /\ UNCHANGED << timer, startup, queue, length, local, console, history, overlapped >>

\* A part is taken from the queue and appended, until there is none.
Drain(c) ==
    /\ IsAt(c, "drain")
    /\ IF queue = << >>
         THEN at' = [at EXCEPT ![c] = "reset"] /\ UNCHANGED << queue, buffer >>
         ELSE /\ queue' = Tail(queue)
              /\ buffer' = [buffer EXCEPT !.text = Append(@, Head(queue))]
              /\ UNCHANGED at
    /\ met' = (met \/ Others(InQueue, c))
    /\ UNCHANGED << timer, startup, length, local, console, history, overlapped >>

\* Faulty variant: what was gathered is taken off.
LengthAfterFlush_Less == length - Len(buffer.text)

LengthAfterFlush == 0

Reset(c) ==
    /\ IsAt(c, "reset")
    /\ length' = LengthAfterFlush
    /\ at' = [at EXCEPT ![c] = "copy"]
    /\ UNCHANGED << timer, startup, queue, buffer, local, console, history, races >>

\* Buffer.ToString
Copy(c) ==
    /\ IsAt(c, "copy")
    /\ text' = [text EXCEPT ![c] = buffer]
    /\ at' = [at EXCEPT ![c] = "write"]
    /\ UNCHANGED << timer, startup, queue, length, buffer, entry, next, seen, console,
                    history, races >>

\* WriteCallback: the console takes one text after the other.
Write(c) ==
    /\ IsAt(c, "write")
    /\ console' = Append(console, text[c])
    /\ shown' = shown \o text[c].text
    /\ text' = [text EXCEPT ![c] = Empty]
    /\ at' = [at EXCEPT ![c] = "idle"]
    /\ UNCHANGED << timer, startup, queue, length, buffer, entry, next, seen, parts, enqueued,
                    dropped, races >>

-----------------------------------------------------------------------------
Flush(c) == Check(c) \/ Clear(c) \/ Drain(c) \/ Reset(c) \/ Copy(c) \/ Write(c)

EnqueueEntry(t) == Enqueue(t) \/ Count(t) \/ Add(t)

LogNext ==
    \/ ClearFlags
    \/ SetOption("Info", "Warn") \/ SetOption("Warn", "Error") \/ SetError
    \/ \E t \in Threads : Drop(t) \/ Log(t) \/ EnqueueEntry(t)
    \/ TimerHandler
    \/ \E c \in Callers : Flush(c)

\* Threads run, and a timer that is due fires.
LogFairness ==
    /\ \A t \in Threads : WF_logVars(EnqueueEntry(t))
    /\ \A c \in Callers : WF_logVars(Flush(c))
    /\ WF_logVars(TimerHandler)

LogSpec == LogInit /\ [][LogNext]_logVars /\ LogFairness

-----------------------------------------------------------------------------
(* Properties *)

Parts == {<< e, i >> : e \in 1 .. MaxEntries, i \in UNION {1 .. n : n \in PartCounts}}
Texts == [nulls : Nat, text : Seq(Parts)]

LogTypeOK ==
    /\ {doTimer, due, overlapped, met} \subseteq BOOLEAN
    /\ flags \subseteq {1, 2, 4} /\ servers \in 0 .. MaxServers
    /\ setting \in Levels \cup {"no"}
    /\ {queue, enqueued, shown} \subseteq Seq(Parts)
    /\ length \in Nat
    /\ buffer \in Texts
    /\ at \in [Callers -> Calling \cup {"idle"}]
    /\ entry \in [Threads -> 0 .. MaxEntries]
    /\ next \in [Threads -> Nat \ {0}]
    /\ seen \in [Threads -> Nat]
    /\ text \in [Callers -> Texts] /\ console \in Seq(Texts)
    /\ parts \in Seq(PartCounts) /\ dropped \in Seq(Levels)
    /\ Len(parts) + Len(dropped) <= MaxEntries

\* What a flush in progress has gathered; before and after, Buffer is nobody's.
Gathered == IF \E c \in Callers : at[c] \in InBuffer THEN buffer.text ELSE << >>

\* Where a part is: in the queue, in the buffer, in a text about to be shown, or on
\* the console, and at which place in it.
In(part, s) == {i \in 1 .. Len(s) : s[i] = part}

InTexts(part) == UNION {{<< "text", i, c >> : i \in In(part, text[c].text)} : c \in Callers}

Places(part) ==
    {<< "queue", i >> : i \in In(part, queue)}
    \cup {<< "buffer", i >> : i \in In(part, Gathered)}
    \cup InTexts(part)
    \cup {<< "console", i >> : i \in In(part, shown)}

\* As long as no two threads meet in the queue or in the buffer, every part that
\* was enqueued is in one place, once.  Calls may otherwise interleave in any way.
\* (Logger.Flush)
EachPartOnce ==
    ~ met => \A i \in 1 .. Len(enqueued) :
                \E p \in Places(enqueued[i]) : Places(enqueued[i]) = {p}

\* As long as calls do not overlap, the console shows the entries whole and in
\* order, and whatever it is not shown is in the queue and counted; without a
\* timer nothing is.  In front of each text are as many null characters as the
\* text is long.  (Logger.Flush, CurrentQueueLength)
ShownInOrder ==
    ~ overlapped /\ (\A c \in Callers : ~ Busy(c)) =>
        /\ shown \o queue = enqueued
        /\ length = Len(queue)
        /\ ~ doTimer => queue = << >>
        /\ \A i \in 1 .. Len(console) : console[i].nulls = Len(console[i].text)

\* Once a server is up no error is dropped, whichever servers run and whatever their
\* configurations ask for, but for the moment in which the start of another one has
\* cleared the flags they share.  (Server.StartAsync, Logger.ScopedError)
ErrorsAreKept ==
    [][dropped' # dropped /\ dropped'[Len(dropped')] = "Error" =>
          servers = 0 \/ setting # "no"]_logVars

IsShown(e) == e \in Entries /\ \A i \in 1 .. parts[e] : Cardinality(In(<< e, i >>, shown)) = 1

\* An entry that is let through is on the console in the end, on its thread or by
\* the timer, unless calls overlap.  (Logger.CheckFlushState, TimerHandler)
EntriesAreShown ==
    \A e \in 1 .. MaxEntries :
        e \in Entries ~> overlapped \/ IsShown(e)
=============================================================================
