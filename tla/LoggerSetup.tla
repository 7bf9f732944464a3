----------------------------- MODULE LoggerSetup ------------------------------
(***************************************************************************)
(* The configuration of src/logger: InitLogger (log.go) sets the one       *)
(* logBean, defaultlog, through setConsole, setLevel and setRollingFile or *)
(* setRollingDaily (logw.go), which register the file's fileBean in the    *)
(* package's fileBeanFactory fbf; and the routing of a Debug/Info/Warn/    *)
(* Error call by log(): the fileBean of logBean.id, else the console.      *)
(*                                                                         *)
(* A file (dir + name, whose md5 is the fileBean id) is a model value;    *)
(* the rolling itself is RollingLog's.  setLevelFile, SetLevelFile and the *)
(* logger type have no caller in the repository and are left out, so the  *)
(* per-level ids d, i, w, e, f stay empty.                                 *)
(***************************************************************************)
EXTENDS Integers, FiniteSets, Functions, TLC

CONSTANTS
    Files,          \* log files dir/file_name a Conf can name
    None            \* logBean.id before a file is configured (the "" key)

mb == 2^20          \* the unit InitLogger passes to setRollingFile
MaxInt32 == 2147483647     \* 1<<31 - 1

\* The Conf values InitLogger distinguishes.
Paths == Files \cup {None}                  \* None: Path == ""
ConfLevels == {"info", "debug", "other"}
Rollings == {"size", "daily"}
Sizes == {0, 1}                             \* Size, <= 0 or not
Histories == {0, 2}                         \* MaxHistory, <= 0 or not

Calls == 1..4       \* Debug, Info, Warn, Error: _DEBUG .. _ERROR

VARIABLES
    logLevel,       \* defaultlog.logLevel
    consoleApp,     \* defaultlog.consoleAppender
    rolltype,       \* defaultlog.rolltype
    maxFileSize,    \* defaultlog.maxFileSize
    maxFileCount,   \* defaultlog.maxFileCount
    id,             \* defaultlog.id
    fbs,            \* fbf.fbs: file -> the fileBean's limits
    last            \* the last log call: <<level, where it was written>>, or <<>>

vars == <<logLevel, consoleApp, rolltype, maxFileSize, maxFileCount, id, fbs, last>>

Bean(s, c) == [maxFileSize |-> s, maxFileCount |-> c]

\* getdefaultLogger: a zero logBean (level _ALL, _DAILY) with the console on.
Init ==
    /\ logLevel = 0 /\ consoleApp = TRUE /\ rolltype = "daily"
    /\ maxFileSize = 0 /\ maxFileCount = 0 /\ id = None
    /\ fbs = [f \in {} |-> Bean(0, 0)] /\ last = <<>>

\* fileBeanFactory.add: a newFileBean unless the id is registered.
Add(f, s, c) == fbs' = IF f \in DOMAIN fbs THEN fbs ELSE (f :> Bean(s, c)) @@ fbs

\* setRollingFile: an unset maxNumber keeps 1<<31-1 files; the size is in
\* units; the id is md5(dir, name).
SetRollingFile(f, n, s, u) ==
    LET c == IF n > 0 THEN n ELSE MaxInt32
    IN  /\ maxFileCount' = c /\ maxFileSize' = s * u /\ rolltype' = "size"
        /\ id' = f /\ Add(f, s * u, c)

SetRollingDaily(f, n) ==
    /\ rolltype' = "daily" /\ id' = f /\ Add(f, 0, n)
    /\ UNCHANGED <<maxFileSize, maxFileCount>>

\* InitLogger(cfg), the whole call.
InitLogger ==
    \E p \in Paths, lv \in ConfLevels, rl \in Rollings, sz \in Sizes, h \in Histories :
        /\ IF p = None
           THEN /\ consoleApp' = TRUE /\ logLevel' = 1
                /\ UNCHANGED <<rolltype, maxFileSize, maxFileCount, id, fbs>>
           ELSE /\ consoleApp' = FALSE
                /\ logLevel' = IF lv = "info" THEN 2 ELSE 1
                /\ IF rl = "size"
                   THEN SetRollingFile(p, h, IF sz <= 0 THEN 500 ELSE sz, mb)
                   ELSE SetRollingDaily(p, h)
        /\ UNCHANGED last

\* fbf.get: the registered fileBean, or nil.
Get(f) == IF f \in DOMAIN fbs THEN f ELSE None

\* log(level): the fileBean of id, else the console when it is on; either
\* only when logLevel <= level.
Log ==
    \E l \in Calls :
        LET lg == Get(id)
        IN  /\ last' = <<l, IF logLevel > l THEN "none"
                            ELSE IF lg # None THEN lg
                            ELSE IF consoleApp THEN "console" ELSE "none">>
            /\ UNCHANGED <<logLevel, consoleApp, rolltype, maxFileSize, maxFileCount, id, fbs>>

Next == InitLogger \/ Log

Spec == Init /\ [][Next]_vars
-----------------------------------------------------------------------------
TypeOK ==
    /\ logLevel \in 0..2 /\ consoleApp \in BOOLEAN /\ rolltype \in Rollings
    /\ maxFileSize \in Nat /\ maxFileCount \in Nat /\ id \in Paths
    /\ fbs \in [DOMAIN fbs -> [maxFileSize : Nat, maxFileCount : Nat]]
    /\ DOMAIN fbs \subseteq Files
    /\ last \in {<<>>} \cup (Calls \X (Files \cup {"console", "none"}))

====
