----------------------------- MODULE PaperReads -----------------------------
(***************************************************************************)
(* What a reader of the data files may expect of PaperRepository.get: some *)
(* content that the file has had since the call began, or an empty object, *)
(* which is content 0, if it was missing.  PaperRepository shows that      *)
(* data_store.py keeps to it.                                              *)
(***************************************************************************)
EXTENDS PaperFiles

CONSTANTS
    Readers,        \* the threads that call get
    NoFile          \* a thread is in no call

ASSUME ReadAssumption == NoFile \notin Files

Unread == -1        \* the call has not returned

VARIABLES
    asked,      \* asked[t]: the file thread t has called get for
    floor,      \* floor[t]: the version the file had then
    value       \* value[t]: what get returned, or Unread

callVars == <<asked, floor, value>>

CallsInit ==
    /\ asked = [t \in Readers |-> NoFile]
    /\ floor = [t \in Readers |-> 0]
    /\ value = [t \in Readers |-> Unread]

Call(t, f) ==
    /\ asked[t] = NoFile
    /\ asked' = [asked EXCEPT ![t] = f]
    /\ floor' = [floor EXCEPT ![t] = disk[f]]
    /\ UNCHANGED <<fileVars, value>>

Return(t) ==
    /\ asked[t] # NoFile
    /\ value[t] = Unread
    /\ \E v \in floor[t]..disk[asked[t]] : value' = [value EXCEPT ![t] = v]
    /\ UNCHANGED <<fileVars, asked, floor>>

\* The caller has the value and may call again.
Collect(t) ==
    /\ asked[t] # NoFile
    /\ value[t] # Unread
    /\ value' = [value EXCEPT ![t] = Unread]
    /\ asked' = [asked EXCEPT ![t] = NoFile]
    /\ floor' = [floor EXCEPT ![t] = 0]
    /\ UNCHANGED fileVars

ReaderNext(t) == Return(t) \/ Collect(t) \/ \E f \in Files : Call(t, f)

ReadsNext == (Save /\ UNCHANGED callVars) \/ \E t \in Readers : ReaderNext(t)

ReadsSpec == FilesInit /\ CallsInit /\ [][ReadsNext]_<<fileVars, callVars>>
=============================================================================
