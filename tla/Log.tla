--------------------------------- MODULE Log ---------------------------------
(***************************************************************************)
(* util/Log.cpp with the subject of util/Observer.h: threads call AddEntry,*)
(* which notifies the listeners and then writes a line to the file, while  *)
(* others register and remove listeners.                                   *)
(*                                                                         *)
(* mMutex is held by a thread exactly while it is in Notify, which calls   *)
(* one listener per step; the other critical sections are one step each.   *)
(* The path and the masks are set before, of the file only the size counts,*)
(* and the history is left out: nothing can enable it (Log.cpp:24).        *)
(***************************************************************************)
EXTENDS Naturals, Sequences

CONSTANTS
  Loggers,        \* threads that call AddEntry
  Observers,
  Quiet,          \* the observers whose mask has Error only
  SizeLimit,      \* of the file, in bytes
  LineSizes,      \* the sizes a line can have, its end included
  MaxEntries,     \* bound: calls of AddEntry
  MaxListeners    \* bound: length of the list

ASSUME LogAssumption == /\ Quiet \subseteq Observers
                        /\ {SizeLimit, MaxEntries, MaxListeners} \subseteq Nat
                        /\ LineSizes \subseteq Nat \ {0} /\ LineSizes # {}

VARIABLES
  mList,          \* Subject::mList, an observer may be in it twice
  mEnableFileOutput,
  step,           \* thread -> "out", "notify", "notified", "save"
  event,          \* thread -> the event of its entry
  it,             \* thread -> the iterator of Notify
  number,         \* how many entries were begun
  entry,          \* thread -> the entry it is adding, with the thread's name
  fileSize,       \* bytes of the log file
  heard,          \* ghost: observer -> the entries Update was called with
  expected        \* ghost: <<observer, entry>>, listed when the entry came

logVars == <<mList, mEnableFileOutput, step, event, it, number, entry,
             fileSize, heard, expected>>
threadVars == <<step, event, it, number, entry>>

Listening == {mList[i] : i \in 1..Len(mList)}
Hears(o, e) == e = "Error" \/ o \notin Quiet
LogUnlocked == \A t \in Loggers : step[t] # "notify"

LogInit ==
  /\ mList = <<>> /\ mEnableFileOutput = TRUE
  /\ step = [t \in Loggers |-> "out"] /\ event = [t \in Loggers |-> "Error"]
  /\ it = [t \in Loggers |-> 1] /\ number = 0 /\ entry = [t \in Loggers |-> <<t, 0>>]
  /\ fileSize = 0 /\ heard = [o \in Observers |-> <<>>] /\ expected = {}

RegisterListener(o) ==
  /\ LogUnlocked /\ Len(mList) < MaxListeners
  /\ mList' = Append(mList, o)
  /\ UNCHANGED <<mEnableFileOutput, threadVars, fileSize, heard, expected>>

\* std::list::remove takes every occurrence away and keeps the order of the
\* others: pos are their positions.
Remove(o) ==
  \E n \in 0..Len(mList) : \E pos \in [1..n -> 1..Len(mList)] :
    /\ \A i, j \in 1..n : i < j => pos[i] < pos[j]
    /\ {pos[i] : i \in 1..n} = {i \in 1..Len(mList) : mList[i] # o}
    /\ mList' = [i \in 1..n |-> mList[pos[i]]]

\* Mutant of RemoveListener: the mutex is not taken.
RemoveUnlocked(o) ==
  /\ Remove(o)
  /\ UNCHANGED <<mEnableFileOutput, threadVars, fileSize, heard, expected>>

RemoveListener(o) ==
  /\ LogUnlocked /\ Remove(o)
  /\ UNCHANGED <<mEnableFileOutput, threadVars, fileSize, heard, expected>>

ClearLog ==
  /\ LogUnlocked /\ mList' = <<>>
  /\ UNCHANGED <<mEnableFileOutput, threadVars, fileSize, heard, expected>>

EnableLog(enable) ==
  /\ mEnableFileOutput' = enable
  /\ UNCHANGED <<mList, threadVars, fileSize, heard, expected>>

-----------------------------------------------------------------------------
(* AddEntry.                                                                *)

AddEntry(t, e) ==
  /\ step[t] = "out" /\ LogUnlocked /\ number < MaxEntries
  /\ step' = [step EXCEPT ![t] = "notify"] /\ event' = [event EXCEPT ![t] = e]
  /\ number' = number + 1 /\ entry' = [entry EXCEPT ![t] = <<t, number'>>]
  /\ expected' = expected \cup {<<o, entry'[t]>> : o \in {p \in Listening : Hears(p, e)}}
  /\ UNCHANGED <<mList, mEnableFileOutput, it, fileSize, heard>>

\* One turn of the loop of Notify.
NotifyListener(t) ==
  /\ step[t] = "notify" /\ it[t] <= Len(mList)
  /\ it' = [it EXCEPT ![t] = @ + 1]
  /\ heard' = IF Hears(mList[it[t]], event[t])
              THEN [heard EXCEPT ![mList[it[t]]] = Append(@, entry[t])] ELSE heard
  /\ UNCHANGED <<mList, mEnableFileOutput, step, event, number, entry, fileSize, expected>>

NotifyEnds(t) ==
  /\ step[t] = "notify" /\ it[t] > Len(mList)
  /\ step' = [step EXCEPT ![t] = "notified"] /\ it' = [it EXCEPT ![t] = 1]
  /\ event' = [event EXCEPT ![t] = "Error"]
  /\ UNCHANGED <<mList, mEnableFileOutput, number, entry, fileSize, heard, expected>>

\* if (mEnableFileOutput), without the mutex.
TestOutput(t) ==
  /\ step[t] = "notified"
  /\ step' = [step EXCEPT ![t] = IF mEnableFileOutput THEN "save" ELSE "out"]
  /\ UNCHANGED <<mList, mEnableFileOutput, event, it, number, entry, fileSize, heard, expected>>

\* The size is tested and the whole line, of n bytes, appended in one critical
\* section; open may fail.
Save(t, n, opens) ==
  /\ step[t] = "save" /\ LogUnlocked
  /\ step' = [step EXCEPT ![t] = "out"]
  /\ fileSize' = IF fileSize < SizeLimit /\ opens THEN fileSize + n ELSE fileSize
  /\ UNCHANGED <<mList, mEnableFileOutput, event, it, number, entry, heard, expected>>

LogNext ==
  \/ \E o \in Observers : RegisterListener(o) \/ RemoveListener(o)
  \/ ClearLog \/ \E enable \in BOOLEAN : EnableLog(enable)
  \/ \E t \in Loggers : \/ \E e \in {"Error", "Info"} : AddEntry(t, e)
                        \/ NotifyListener(t) \/ NotifyEnds(t) \/ TestOutput(t)
                        \/ \E n \in LineSizes, opens \in BOOLEAN : Save(t, n, opens)

LogSpec == LogInit /\ [][LogNext]_logVars

-----------------------------------------------------------------------------

HeardBy(o) == {heard[o][i] : i \in 1..Len(heard[o])}

\* An entry has reached exactly the listeners that were registered when it came
\* and whose mask has its event; one that was removed, and may be destroyed, is
\* not called any more.
ReachesListeners ==
  \A o \in Observers :
    /\ \A e \in HeardBy(o) : <<o, e>> \in expected
    /\ \A pair \in expected : pair[1] = o =>
         \/ pair[2] \in HeardBy(o)
         \/ \E t \in Loggers : step[t] = "notify" /\ entry[t] = pair[2]

\* Two listeners hear the entries they both hear in the same order.
ListenersAgree ==
  \A o, p \in Observers : \A i, j \in 1..Len(heard[o]), k, l \in 1..Len(heard[p]) :
    heard[o][i] = heard[p][k] /\ heard[o][j] = heard[p][l] /\ i < j /\ l <= k
      => heard[o][i] = heard[o][j]

\* "Filesize limit to 50MB per log" (Log.h:39) is meant up to one line: whichever
\* threads write, only one line can begin below the limit and end beyond it, as
\* nobody writes between another one's test of the size and its line.
FileIsLimited == \E n \in LineSizes : fileSize < SizeLimit + n

\* What listeners and the file get, with entries and changes of the list from
\* several threads (Log.cpp:57-160, Observer.h:46-55).
LogDelivered == ReachesListeners /\ ListenersAgree /\ FileIsLimited
=============================================================================
