------------------------------ MODULE RollingLog ------------------------------
(***************************************************************************)
(* The rolling log file of src/logger/logw.go, as InitLogger configures it *)
(* (one logBean, defaultlog, and one fileBean): goroutines call            *)
(* Debug/Info, whose log() runs fileCheck (an unlocked isMustRename, then  *)
(* under logBean.mu a second isMustRename and rename), then write (under   *)
(* the fileBean's read lock) and then addsize (an atomic add outside any   *)
(* lock).  rename holds the fileBean's write lock, so it excludes every     *)
(* write and is one step; addsize may fall before or after it.            *)
(*                                                                         *)
(* A line is <<writer, k>>; every formatted line has the same length, one  *)
(* unit.  Log files are named by an integer: the backup suffix .1, .2, ... *)
(* when rolling by size, the date when rolling daily.  The directory is     *)
(* empty when the logger starts.                                           *)
(***************************************************************************)
EXTENDS Integers, Sequences, SequencesExt, FiniteSets, TLC

CONSTANTS
    Writers,        \* goroutines that log
    MaxLines,       \* bound: log calls per goroutine
    RollType,       \* "size" (Rolling = "size") or "daily" (the default)
    LogLevel,       \* logBean.logLevel: 1 (_DEBUG) or 2 (_INFO)
    MaxFileSize,    \* maxFileSize, in lines
    MaxFileCount,   \* maxFileCount: backups kept (size), days kept (daily)
    MaxDay          \* bound: days the clock advances

Levels == {1, 2}    \* Debug and Info calls: _DEBUG and _INFO

VARIABLES
    logfile,        \* the lines in dir/filename
    bk,         \* the other log files that exist: name -> lines
    fsize,      \* fb.filesize
    date,       \* fb._date
    today,      \* the day time.Now() gives
    hist,       \* history: every line written, in order
    mu,         \* logBean.mu: {} or the goroutine holding it
    wpc,        \* each goroutine's place in log()
    lvl,        \* the level of each goroutine's current call
    nl,         \* log calls each goroutine has finished
    cleans,     \* clean goroutines started and not yet run
    rolled      \* history: the contents of each file rename rolled, in order

vars == <<logfile, bk, fsize, date, today, hist, mu, wpc, lvl, nl, cleans, rolled>>

\* newFileBean on an empty directory: an empty file, dated today.
Init ==
    /\ logfile = <<>> /\ bk = <<>> /\ fsize = 0 /\ date = 0 /\ today = 0
    /\ hist = <<>> /\ mu = {}
    /\ wpc = [w \in Writers |-> "idle"] /\ lvl = [w \in Writers |-> 1]
    /\ nl = [w \in Writers |-> 0] /\ cleans = 0 /\ rolled = <<>>

\* A mutation: rolling when the size exceeds the limit rather than reaches it.
IsOverSizeStrict == fsize > MaxFileSize

IsOverSize == fsize >= MaxFileSize

isMustRename == IF RollType = "daily" THEN today > date ELSE IsOverSize

\* os.Rename(from, to) when from exists (to is replaced); else nothing.
RenameFile(b, from, to) ==
    IF from \in DOMAIN b
    THEN (to :> b[from]) @@ [x \in DOMAIN b \ {from} |-> b[x]]
    ELSE b

\* os.Remove(name) when it exists.
RemoveFile(b, name) == [x \in DOMAIN b \ {name} |-> b[x]]

\* A mutation: the backups shifted from .1 upwards.
RECURSIVE ShiftUp(_, _)
ShiftUp(b, k) ==
    IF k > MaxFileCount - 1 THEN b ELSE ShiftUp(RenameFile(b, k, k + 1), k + 1)

\* for lastNo := maxFileCount - 1; lastNo >= 1; lastNo-- { .lastNo -> .lastNo+1 }
RECURSIVE Shift(_, _)
Shift(b, k) == IF k < 1 THEN b ELSE Shift(RenameFile(b, k, k + 1), k - 1)

\* rename's files: daily, the file becomes filename.<_date> (an existing
\* one removed); by size, .maxFileCount is removed, the others move up one
\* and the file becomes .1.
RollFiles ==
    IF RollType = "daily"
    THEN (date :> logfile) @@ RemoveFile(bk, date)
    ELSE (1 :> logfile) @@ Shift(RemoveFile(bk, MaxFileCount), MaxFileCount - 1)

\* fileBean.rename, under its write lock: roll the files, reopen an empty
\* file, filesize from its stat, _date today, and daily start clean.
rename ==
    /\ bk' = RollFiles
    /\ logfile' = <<>> /\ fsize' = 0 /\ date' = today
    /\ cleans' = IF RollType = "daily" THEN cleans + 1 ELSE cleans
    /\ rolled' = Append(rolled, logfile)
-----------------------------------------------------------------------------
\* Debug or Info: Sprintf, fbf.get(id), the level switch.
Start(w) ==
    /\ wpc[w] = "idle" /\ nl[w] < MaxLines
    /\ \E l \in Levels : lvl' = [lvl EXCEPT ![w] = l]
    /\ wpc' = [wpc EXCEPT ![w] = "check"]
    /\ UNCHANGED <<logfile, bk, fsize, date, today, hist, mu, nl, cleans, rolled>>

\* fileCheck: the first isMustRename, without the lock.
Check(w) ==
    /\ wpc[w] = "check"
    /\ wpc' = [wpc EXCEPT ![w] = IF isMustRename THEN "lock" ELSE "write"]
    /\ UNCHANGED <<logfile, bk, fsize, date, today, hist, mu, lvl, nl, cleans, rolled>>

\* this.mu.Lock()
Lock(w) ==
    /\ wpc[w] = "lock" /\ mu = {}
    /\ mu' = {w}
    /\ wpc' = [wpc EXCEPT ![w] = "recheck"]
    /\ UNCHANGED <<logfile, bk, fsize, date, today, hist, lvl, nl, cleans, rolled>>

\* The second isMustRename and rename; then the deferred Unlock.
Recheck(w) ==
    /\ wpc[w] = "recheck"
    /\ IF isMustRename THEN rename ELSE UNCHANGED <<logfile, bk, fsize, date, cleans, rolled>>
    /\ mu' = {}
    /\ wpc' = [wpc EXCEPT ![w] = "write"]
    /\ UNCHANGED <<today, hist, lvl, nl>>

\* if this.logLevel <= _level: lg.write (one line through lg.Output,
\* under the read lock); else log() returns.
Write(w) ==
    /\ wpc[w] = "write"
    /\ IF LogLevel <= lvl[w]
       THEN /\ logfile' = Append(logfile, <<w, nl[w] + 1>>)
            /\ hist' = Append(hist, <<w, nl[w] + 1>>)
            /\ wpc' = [wpc EXCEPT ![w] = "add"]
            /\ UNCHANGED nl
       ELSE /\ wpc' = [wpc EXCEPT ![w] = "idle"]
            /\ nl' = [nl EXCEPT ![w] = @ + 1]
            /\ UNCHANGED <<logfile, hist>>
    /\ UNCHANGED <<bk, fsize, date, today, mu, lvl, cleans, rolled>>

\* lg.addsize(writeLen): atomic.AddInt64 to whatever file fb holds now.
addsize(w) ==
    /\ wpc[w] = "add"
    /\ fsize' = fsize + 1
    /\ wpc' = [wpc EXCEPT ![w] = "idle"]
    /\ nl' = [nl EXCEPT ![w] = @ + 1]
    /\ UNCHANGED <<logfile, bk, date, today, hist, mu, lvl, cleans, rolled>>

\* The day changes.
Tick ==
    /\ RollType = "daily" /\ today < MaxDay
    /\ today' = today + 1
    /\ UNCHANGED <<logfile, bk, fsize, date, hist, mu, wpc, lvl, nl, cleans, rolled>>

\* clean: remove each dated file older than today - maxFileCount days.
clean ==
    /\ cleans > 0
    /\ bk' = [x \in {d \in DOMAIN bk : d >= today - MaxFileCount} |-> bk[x]]
    /\ cleans' = cleans - 1
    /\ UNCHANGED <<logfile, fsize, date, today, hist, mu, wpc, lvl, nl, rolled>>

Next ==
    \/ \E w \in Writers :
         Start(w) \/ Check(w) \/ Lock(w) \/ Recheck(w) \/ Write(w) \/ addsize(w)
    \/ Tick \/ clean

Spec == Init /\ [][Next]_vars
-----------------------------------------------------------------------------
TypeOK ==
    /\ logfile \in Seq(Writers \X Nat) /\ hist \in Seq(Writers \X Nat)
    /\ \A x \in DOMAIN bk : x \in Nat /\ bk[x] \in Seq(Writers \X Nat)
    /\ fsize \in Nat /\ date \in 0..MaxDay /\ today \in 0..MaxDay
    /\ mu \subseteq Writers /\ Cardinality(mu) <= 1
    /\ wpc \in [Writers -> {"idle", "check", "lock", "recheck", "write", "add"}]
    /\ lvl \in [Writers -> Levels] /\ nl \in [Writers -> 0..MaxLines]
    /\ cleans \in Nat /\ rolled \in Seq(Seq(Writers \X Nat))

\* The log files from oldest to newest: the highest suffix first when
\* rolling by size, the earliest date first when rolling daily.
Kept ==
    LET older(a, b) == IF RollType = "daily" THEN a < b ELSE a > b
    IN  FlattenSeq([i \in 1..Cardinality(DOMAIN bk) |->
                      bk[SetToSortSeq(DOMAIN bk, older)[i]]]) \o logfile

\* The last maxFileCount files rename rolled, oldest first.
LastRolled ==
    LET from == IF Len(rolled) > MaxFileCount THEN Len(rolled) - MaxFileCount + 1
                ELSE 1
    IN  FlattenSeq(SubSeq(rolled, from, Len(rolled)))

(***************************************************************************)
(* Rolling loses nothing in the middle: the log files, oldest first, hold  *)
(* a suffix of the lines written, in the order they were written, whatever *)
(* the writers do between fileCheck, write and addsize; and rolling by     *)
(* size, rename's removal of .maxFileCount and shifting of the others keep *)
(* exactly the last maxFileCount rolled files.                             *)
(***************************************************************************)
RotationKeepsOrder ==
    /\ IsSuffix(Kept, hist)
    /\ RollType = "size" => Kept = LastRolled \o logfile

(***************************************************************************)
(* A file rolled by size outgrows maxFileSize by at most one line for each *)
(* goroutine: a line is written only after fileCheck saw the counter below *)
(* the limit, though other goroutines' lines may still wait for addsize.   *)
(***************************************************************************)
BoundedOverflow ==
    RollType = "size" => Len(logfile) <= MaxFileSize - 1 + Cardinality(Writers)
=============================================================================
