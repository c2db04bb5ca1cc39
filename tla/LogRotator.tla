----------------------------- MODULE LogRotator -----------------------------
(***************************************************************************)
(* The rotated log file (internal/logfile/logfile.go), written by several  *)
(* goroutines under one lock.  An entry is a number, and a file the        *)
(* sequence of the entries in it; all are of one size.  Calls on the file  *)
(* system fail, as they do under Windows while a reader has the file open; *)
(* what fails is not looked at.                                            *)
(***************************************************************************)
EXTENDS Integers, Sequences

CONSTANTS
  MaxSize,      \* entries that fit into a file
  MaxBackups,   \* backups kept, none: the file is started over
  MaxEntries    \* bound: entries written

ASSUME LogAssumption == MaxSize \in Nat \ {0} /\ MaxBackups \in Nat /\ MaxEntries \in Nat

VARIABLES
  name,       \* name[i] is the file name.i, name[0] the file itself; <<>> is also no file
  sink,       \* the file is open
  written,    \* how many entries callers have written
  failing     \* history: a call has failed, or an entry was written to a closed log

logVars == <<name, sink, written, failing>>

Files == 0..MaxBackups

LogTypeOK ==
  /\ name \in [Files -> Seq(1..MaxEntries)]
  /\ sink \in BOOLEAN /\ written \in 0..MaxEntries /\ failing \in BOOLEAN

LogInit ==
  /\ name = [i \in Files |-> <<>>]
  /\ sink = TRUE /\ written = 0 /\ failing = FALSE

-----------------------------------------------------------------------------
(* rotate. *)

RenamedUp(fails) ==  \* mutant: the newest backup is moved first, over the next
  [i \in Files |-> CASE i = 1 -> name[0] [] i = MaxBackups /\ i > 1 -> name[1] [] OTHER -> <<>>]

\* Each backup moves up by one, the highest first, and the file becomes the first of them.
\* A rename that fails leaves its file where it is, for the next one to replace.
Renamed(fails) ==
  LET moves(i) == i \notin fails /\ i < MaxBackups IN
  [i \in Files |->   \* what is at i when the renames are done
     IF i > 0 /\ moves(i - 1) /\ name[i - 1] # <<>> THEN name[i - 1]
     ELSE IF moves(i) \/ (i = MaxBackups /\ MaxBackups \notin fails) THEN <<>> ELSE name[i]]

\* Without backups the file is truncated.
Rotated(fails) == IF MaxBackups = 0 THEN [i \in Files |-> <<>>] ELSE Renamed(fails)

\* An entry that does not fit is written to a new file.  If that cannot be opened, this
\* entry and those after it are swallowed.
WriteEntry ==
  /\ written < MaxEntries /\ written' = written + 1
  /\ LET full == sink /\ Len(name[0]) + 1 > MaxSize /\ name[0] # <<>> IN
     \E fails \in SUBSET Files, opens \in BOOLEAN :
       LET kept == IF full THEN Rotated(fails) ELSE name IN
       /\ full \/ (fails = {} /\ opens)
       /\ failing' = (failing \/ ~sink \/ fails # {} \/ ~opens)
       /\ sink' = (sink /\ opens)
       /\ name' = IF sink' THEN [kept EXCEPT ![0] = Append(@, written')]
                  ELSE IF full /\ MaxBackups = 0 THEN name ELSE kept

\* At the end of the process; what is written then is lost.
CloseLog == sink' = FALSE /\ UNCHANGED <<name, written, failing>>

\* NewRotator appends to the file.
Reopen ==
  /\ sink' = TRUE
  /\ UNCHANGED <<name, written, failing>>

LogNext == WriteEntry \/ CloseLog \/ Reopen

LogSpec == LogInit /\ [][LogNext]_logVars

-----------------------------------------------------------------------------
(* Safety. *)

\* What is in a file, and in all of them.
EntriesIn(i) == {name[i][k] : k \in DOMAIN name[i]}
Kept == UNION {EntriesIn(i) : i \in Files}

\* Whatever fails, the backups and the file read one after the other in the order in which
\* the entries were written; and while nothing fails they are the last entries written,
\* none missing, as many as the backups hold (rotate).
LogKeepsOrder ==
  /\ \A i \in Files : \A k, l \in DOMAIN name[i] : k < l => name[i][k] < name[i][l]
  /\ \A i, j \in Files : i < j => \A e \in EntriesIn(j), f \in EntriesIn(i) : e < f
  /\ ~failing => \E first \in 1..(written + 1) :
       /\ Kept = first..written
       /\ first = 1 \/ written - first + 1 >= MaxBackups * MaxSize

=============================================================================
