---------------------------- MODULE StoredAudio ----------------------------
(* app/services/ai/recording_store.py, stored_audio.py and the rows of       *)
(* tts_recording_service.py and stt_transcription_service.py: audio kept     *)
(* under the digest of its bytes, so that one file serves every row, of      *)
(* either table, whose audio is the same. Savers put a file in its place and *)
(* then write a row; deleters remove a row and then ask both tables whether  *)
(* the file is still named. Files are not transactional.                     *)
EXTENDS Integers, FiniteSetsExt, SequencesExt

CONSTANTS
    Savers,         \* deliveries to keep; each writes one row at most
    Deleters,       \* requests that delete a row
    Key,            \* each saver: the digest of its audio
    Table,          \* each saver: the table its row goes to
    Tables,         \* the tables release_key counts, in its order
    MaxFailures     \* bound: full disks, failed commits and deaths

KeyAssumption == DOMAIN Key = Savers
TableAssumption ==
    /\ Tables \in Seq(ToSet(Tables)) /\ Tables # <<>>
    /\ Table \in [Savers -> ToSet(Tables)]
BoundAssumption == MaxFailures \in Nat

VARIABLES
    files,      \* the content addresses that hold a file
    rows,       \* the savers whose row is committed
    temp,       \* the savers whose temporary file is in incoming/
    spc,        \* each saver: its next step
    dpc,        \* each deleter: its next step
    gone,       \* each deleter: the saver whose row it deleted
    counted,    \* each deleter: tables counted, and the rows found there
    relied,     \* history, each deleter: the rows that named its file at its commit
    broken      \* failures so far

saving   == <<rows, temp, spc>>
deleting == <<dpc, gone, counted, relied>>
vars     == <<files, saving, deleting, broken>>

Naming(k) == {s \in rows : Key[s] = k}

\* Only a writer at work, or one that was killed, has a temporary file.
TypeOK ==
    /\ files \subseteq {Key[s] : s \in Savers} /\ rows \subseteq Savers
    /\ spc \in [Savers -> {"idle", "write", "look", "replace", "save", "done", "dead"}]
    /\ dpc \in [Deleters -> {"idle", "delete", "count", "unlink", "done"}]
    /\ gone \in [Deleters -> Savers]
    /\ counted \in [Deleters -> [tables : 0..Len(Tables), found : SUBSET Savers]]
    /\ relied \in [Deleters -> SUBSET Savers]
    /\ broken \in 0..MaxFailures
    /\ temp \subseteq {s \in Savers : spc[s] \in {"write", "look", "replace", "dead"}}

Init ==
    /\ files = {} /\ rows = {} /\ temp = {}
    /\ spc = [s \in Savers |-> "idle"]
    /\ dpc = [d \in Deleters |-> "idle"]
    /\ gone = [d \in Deleters |-> CHOOSE s \in Savers : TRUE]
    /\ counted = [d \in Deleters |-> [tables |-> 0, found |-> {}]]
    /\ relied = [d \in Deleters |-> {}]
    /\ broken = 0

Fail == broken < MaxFailures /\ broken' = broken + 1
Goto(s, step) == spc' = [spc EXCEPT ![s] = step]

-----------------------------------------------------------------------------
(* Savers: begin, write, commit, save.                                      *)

Begin(s) ==
    /\ spc[s] = "idle"
    /\ temp' = temp \cup {s}
    /\ Goto(s, "write")
    /\ UNCHANGED <<files, rows, deleting, broken>>

\* The client heard nothing, or the disk broke: abort, or a commit of nothing.
Discard(s) ==
    /\ spc[s] = "write"
    /\ temp' = temp \ {s}
    /\ Goto(s, "done")
    /\ UNCHANGED <<files, rows, deleting, broken>>

Commit(s) ==
    /\ spc[s] = "write"
    /\ Goto(s, "look")
    /\ UNCHANGED <<files, rows, temp, deleting, broken>>

\* _finish: the same bytes are there already, and this copy is dropped.
Looks(s) ==
    /\ spc[s] = "look"
    /\ IF Key[s] \in files THEN temp' = temp \ {s} /\ Goto(s, "save")
                           ELSE Goto(s, "replace") /\ UNCHANGED temp
    /\ UNCHANGED <<files, rows, deleting, broken>>

Replaces(s) ==
    /\ spc[s] = "replace"
    /\ temp' = temp \ {s}
    /\ \/ files' = files \cup {Key[s]} /\ Goto(s, "save") /\ UNCHANGED broken
       \/ Fail /\ Goto(s, "done") /\ UNCHANGED files
    /\ UNCHANGED <<rows, deleting>>

\* A row that cannot be written is logged, and its file left where it is.
Saves(s) ==
    /\ spc[s] = "save"
    /\ Goto(s, "done")
    /\ \/ rows' = rows \cup {s} /\ UNCHANGED broken
       \/ Fail /\ UNCHANGED rows
    /\ UNCHANGED <<files, temp, deleting>>

Killed(s) ==
    /\ spc[s] \notin {"idle", "done", "dead"} /\ Fail
    /\ Goto(s, "dead")
    /\ UNCHANGED <<files, rows, temp, deleting>>

-----------------------------------------------------------------------------
(* Deleters: the row, and release_key.                                      *)

\* require_own.
Finds(d, s) ==
    /\ dpc[d] = "idle" /\ s \in rows
    /\ gone' = [gone EXCEPT ![d] = s]
    /\ dpc' = [dpc EXCEPT ![d] = "delete"]
    /\ UNCHANGED <<files, saving, counted, relied, broken>>

\* The delete and its commit. Of two deletions of one row the second deletes
\* nothing, is warned of it in the log, and goes on.
Deletes(d) ==
    /\ dpc[d] = "delete"
    /\ rows' = rows \ {gone[d]}
    /\ relied' = [relied EXCEPT ![d] = Naming(Key[gone[d]]) \ {gone[d]}]
    /\ dpc' = [dpc EXCEPT ![d] = "count"]
    /\ UNCHANGED <<files, temp, spc, gone, counted, broken>>

\* Mutant: only the first table is asked.
AsksFirstTable(d) ==
    /\ dpc[d] = "count"
    /\ counted' = [counted EXCEPT ![d] = [tables |-> Len(Tables),
                      found |-> {s \in Naming(Key[gone[d]]) : Table[s] = Tables[1]}]]
    /\ dpc' = [dpc EXCEPT ![d] = IF counted'[d].found = {} THEN "unlink" ELSE "done"]
    /\ UNCHANGED <<files, saving, gone, relied, broken>>

\* reference_count: one statement for each table, each with a snapshot of its own.
Asks(d) ==
    /\ dpc[d] = "count"
    /\ LET t == counted[d].tables + 1
       IN  counted' = [counted EXCEPT ![d] = [tables |-> t,
              found |-> @.found \cup {s \in Naming(Key[gone[d]]) : Table[s] = Tables[t]}]]
    /\ dpc' = [dpc EXCEPT ![d] =
                  IF counted'[d].tables < Len(Tables) THEN "count"
                  ELSE IF counted'[d].found = {} THEN "unlink" ELSE "done"]
    /\ UNCHANGED <<files, saving, gone, relied, broken>>

Unlinks(d) ==
    /\ dpc[d] = "unlink"
    /\ \/ files' = files \ {Key[gone[d]]} /\ UNCHANGED broken
       \/ Fail /\ UNCHANGED files
    /\ dpc' = [dpc EXCEPT ![d] = "done"]
    /\ UNCHANGED <<saving, gone, counted, relied>>

DeleterKilled(d) ==
    /\ dpc[d] \in {"delete", "count", "unlink"} /\ Fail
    /\ dpc' = [dpc EXCEPT ![d] = "done"]
    /\ UNCHANGED <<files, saving, gone, counted, relied>>

-----------------------------------------------------------------------------
Next ==
    \/ \E s \in Savers : \/ Begin(s) \/ Discard(s) \/ Commit(s) \/ Looks(s) \/ Replaces(s)
                         \/ Saves(s) \/ Killed(s) \/ \E d \in Deleters : Finds(d, s)
    \/ \E d \in Deleters : Deletes(d) \/ Asks(d) \/ Unlinks(d) \/ DeleterKilled(d)

Spec == Init /\ [][Next]_vars

-----------------------------------------------------------------------------
(* Properties.                                                              *)

\* "Counting only one table would then unlink a file the other still serves"
\* (stored_audio.py): when a deletion unlinks its file, every row that named the
\* file when the deletion committed is gone too, whichever table it was in.
SharedFileKept ==
    [][\A d \in Deleters :
          dpc[d] = "unlink" /\ files' # files => relied[d] \cap rows = {}]_vars

\* "The worst case is a file with no rows, which is disk rather than a lie"
\* (stored_audio.py:66): a row names a file that is there.
RowsHaveFiles == \A s \in rows : Key[s] \in files
=============================================================================
