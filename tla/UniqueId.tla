------------------------------- MODULE UniqueId -------------------------------
(***************************************************************************)
(* The allocator of util/UniqueId.cpp: identifiers are unsigned integers   *)
(* of W bits (32 in the code), the used ones are in a list.                *)
(***************************************************************************)
EXTENDS Integers, Sequences

CONSTANTS
  Max,       \* the largest unsigned integer, 2^W - 1
  MaxUsed    \* bound: identifiers in use at the same time

ASSUME IdAssumption == Max \in Nat \ {0} /\ MaxUsed \in Nat

UInt == 0..Max

cInvalidId == 0

VARIABLES
  mMin, mMax,   \* as the constructor corrected them
  mUsedIds,     \* the list
  given,        \* ghost: used identifiers that TakeId returned
  added         \* ghost: used identifiers that AddId registered

vars == <<mMin, mMax, mUsedIds, given, added>>

CorrectedMin(min) == IF min = 0 THEN 1 ELSE min

\* mMin + 1U wraps around.
CorrectedMax(min, max) ==
  IF max <= CorrectedMin(min) THEN (CorrectedMin(min) + 1) % (Max + 1) ELSE max

\* The constructor, called with any two integers.
Init == /\ \E min, max \in UInt : /\ mMin = CorrectedMin(min)
                                  /\ mMax = CorrectedMax(min, max)
        /\ mUsedIds = <<>>
        /\ given = {} /\ added = {}

IsTaken(id) == \E i \in 1..Len(mUsedIds) : mUsedIds[i] = id

\* Mutant of Scanned: one turn too many.
ScannedPastEnd == IF mMax = Max THEN UInt ELSE mMin..(mMax + 1)

\* What  for (i = mMin; i <= mMax; i++)  can visit: nothing stops it when mMax
\* is the largest integer, because i wraps around to 0 and goes on.
Scanned == IF mMax = Max THEN UInt ELSE mMin..mMax

\* How many turns the loop needs to get to id.
Turns(id) == (id - mMin) % (Max + 1)

\* id is the first one the loop of TakeId and FindId finds unused.
FirstFree(id) ==
  /\ id \in Scanned /\ ~IsTaken(id)
  /\ \A other \in Scanned : ~IsTaken(other) => Turns(id) <= Turns(other)

\* TakeId returns cInvalidId and changes nothing when nothing is free.
TakeId ==
  /\ Len(mUsedIds) < MaxUsed
  /\ \E id \in UInt : /\ FirstFree(id)
                      /\ mUsedIds' = Append(mUsedIds, id)
                      /\ given' = given \cup {id}
  /\ UNCHANGED <<mMin, mMax, added>>

AddId(id) ==
  /\ Len(mUsedIds) < MaxUsed
  /\ ~IsTaken(id)
  /\ mUsedIds' = Append(mUsedIds, id)
  /\ added' = added \cup {id}
  /\ UNCHANGED <<mMin, mMax, given>>

\* std::list::erase of the i-th element.
Erase(s, i) == [j \in 1..(Len(s) - 1) |-> IF j < i THEN s[j] ELSE s[j + 1]]

\* std::find gives the first occurrence.
ReleaseId(id) ==
  /\ \E i \in 1..Len(mUsedIds) :
       /\ mUsedIds[i] = id
       /\ \A j \in 1..(i - 1) : mUsedIds[j] # id
       /\ mUsedIds' = Erase(mUsedIds, i)
  /\ given' = given \ {id} /\ added' = added \ {id}
  /\ UNCHANGED <<mMin, mMax>>

Clear == /\ mUsedIds' = <<>>
         /\ given' = {} /\ added' = {}
         /\ UNCHANGED <<mMin, mMax>>

Next == \/ TakeId
        \/ \E id \in UInt : AddId(id) \/ ReleaseId(id)
        \/ Clear

Spec == Init /\ [][Next]_vars

-----------------------------------------------------------------------------

\* Every variable has its type.
TypeOK == /\ mMin \in UInt \ {0} /\ mMax \in UInt
          /\ mUsedIds \in Seq(UInt)
          /\ given \subseteq UInt /\ added \subseteq UInt

\* The list never holds an identifier twice, whatever mix of TakeId, AddId and
\* ReleaseId built it: one ReleaseId is enough to free an identifier, and
\* nobody is given an identifier that somebody else holds.
NoDuplicates ==
  \A i, j \in 1..Len(mUsedIds) : mUsedIds[i] = mUsedIds[j] => i = j

\* The list is exactly what its users hold, and nobody holds an identifier
\* both from TakeId and from AddId.
UsedIsHeld == /\ \A id \in UInt : IsTaken(id) <=> id \in given \cup added
              /\ given \cap added = {}

\* TakeId stays in the range of the constructor, as long as the range does not
\* end at the largest integer.
GivenInRange == mMax # Max => given \subseteq mMin..mMax

\* The allocator (UniqueId.cpp:42-99): the types with the corrected minimum,
\* no identifier twice, the list is what is held, and TakeId stays in range.
IdsCorrect == TypeOK /\ NoDuplicates /\ UsedIsHeld /\ GivenInRange
=============================================================================
