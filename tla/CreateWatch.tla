------------------------------ MODULE CreateWatch -----------------------------
(***************************************************************************)
(* The whole File Storage Adapter: the command loops of FileCommands and,  *)
(* beside them, the external-creation watch of create_watch.py, which      *)
(* announces the files others create.  It tells them from the adapter's    *)
(* own by the marks of recent_writes.py.                                   *)
(***************************************************************************)
EXTENDS FileCommands

CONSTANTS
    StableReads  \* _SETTLE_STABLE_READS

ASSUME WatchAssumption == StableReads \in Nat \ {0}

VARIABLES
    watch,    \* the task of run_forever(): "run" or "done"
    changes,  \* creations awatch() yielded that are still to be looked at
    settle,   \* the file in _handle_new_file(), or NoSettle
    announced \* the FileCreateCompleted of the watch: path and creator

watchVars == <<watch, changes, settle, announced>>
vars == <<commandVars, watchVars>>

NoSettle == [path |-> Root, at |-> "idle"]
Watching == phase = "up" /\ watch = "run" /\ settle = NoSettle

\* Others go on writing the file they created.
OutsideWrites(p) ==
    /\ file[p] # Absent /\ file[p].born = Outside
    /\ \E s \in Sizes \ {file[p].size} :
          file' = [file EXCEPT ![p].by = Outside, ![p].size = s]
    /\ UNCHANGED <<sentVars, durableVars, said, did, outside, loopVars, sharedVars, procVars,
                   watchVars>>

\* awatch() yields what the watcher has collected, unless it was told to stop.
WatchYields ==
    /\ Watching /\ changes = {} /\ ~stopping
    /\ changes' = added
    /\ added' = {}
    /\ UNCHANGED <<sentVars, durableVars, said, diskVars, loopVars, marked, procVars, watch,
                   settle, announced>>

\* One added path: skipped if it is no file any more, or was marked.
WatchLooks(p) ==
    /\ Watching /\ p \in changes
    /\ changes' = changes \ {p}
    /\ settle' = IF Exists(p) /\ p \notin marked
                 THEN [path |-> p, at |-> "poll", born |-> file[p].born, last |-> -1,
                       matches |-> 0, seen |-> <<>>]
                 ELSE NoSettle
    /\ UNCHANGED <<commandVars, watch, announced>>

\* The last StableReads + 1 sizes that were read.
Readings(s) ==
    LET r == Append(settle.seen, s) IN
    IF Len(r) > StableReads + 1 THEN Tail(r) ELSE r

\* Mutant of Reading: a size that changed does not start the count again.
ReadingKeepsCount(s) ==
    [settle EXCEPT !.matches = IF s = settle.last THEN @ + 1 ELSE @,
                   !.last = s, !.seen = Readings(s)]

\* Mutant of Reading: the size of an empty file counts as never read.
ReadingNoSize(s) ==
    [settle EXCEPT !.matches = IF s = settle.last /\ s # 0 THEN @ + 1 ELSE 0,
                   !.last = s, !.seen = Readings(s)]

\* One turn of wait_until_settled() that reads size s.
Reading(s) ==
    [settle EXCEPT !.matches = IF s = settle.last THEN @ + 1 ELSE 0,
                   !.last = s, !.seen = Readings(s)]

\* Mutant of WatchPolls: one reading more than stable_reads is waited for.
WatchPollsOnceMore ==
    /\ phase = "up" /\ settle.at = "poll"
    /\ settle' = IF file[settle.path] = Absent THEN NoSettle
                 ELSE LET r == Reading(file[settle.path].size) IN
                      IF r.matches > StableReads THEN [r EXCEPT !.at = "publish"] ELSE r
    /\ UNCHANGED <<commandVars, watch, changes, announced>>

WatchPolls ==
    /\ phase = "up" /\ settle.at = "poll"
    /\ settle' = IF file[settle.path] = Absent THEN NoSettle
                 ELSE LET r == Reading(file[settle.path].size) IN
                      IF r.matches = StableReads THEN [r EXCEPT !.at = "publish"] ELSE r
    /\ UNCHANGED <<commandVars, watch, changes, announced>>

Announcement == [path |-> settle.path, born |-> settle.born]

WatchPublishes ==
    /\ phase = "up" /\ settle.at = "publish"
    /\ announced' = announced \cup {Announcement}
    /\ settle' = NoSettle
    /\ UNCHANGED <<commandVars, watch, changes>>

\* Mutant of WatchEnds: the watch runs without a stop_event.
WatchNeverEnds ==
    /\ Watching /\ changes = {} /\ stopping
    /\ UNCHANGED vars

\* awatch() looks at its stop_event between two batches of changes.
WatchEnds ==
    /\ Watching /\ changes = {} /\ stopping
    /\ watch' = "done"
    /\ UNCHANGED <<commandVars, changes, settle, announced>>

\* ttl_seconds have passed since p was marked.
MarkExpires(p) ==
    /\ p \in marked
    /\ marked' = marked \ {p}
    /\ UNCHANGED <<sentVars, durableVars, said, diskVars, loopVars, added, procVars, watchVars>>

-------------------------------------------------------------------------------
(* The entrypoint gathers the watch with the command loops.                *)

WatchStarts ==
    /\ StartProcess
    /\ watch' = "run"
    /\ UNCHANGED <<changes, settle, announced>>

AllExit ==
    /\ Exit /\ watch = "done"
    /\ UNCHANGED watchVars

\* Whatever the watch was publishing has landed or is lost.
AllCrash ==
    /\ Crash
    /\ announced' \in {announced} \cup
          (IF settle.at = "publish" THEN {announced \cup {Announcement}} ELSE {})
    /\ watch' = "done" /\ changes' = {} /\ settle' = NoSettle

-------------------------------------------------------------------------------
Init ==
    /\ CommandInit
    /\ watch = "done" /\ changes = {} /\ settle = NoSettle /\ announced = {}

WatchStep ==
    WatchYields \/ (\E p \in Paths : WatchLooks(p)) \/ WatchPolls \/ WatchPublishes \/ WatchEnds

Next ==
    \/ CommandStep /\ UNCHANGED watchVars
    \/ WatchStep
    \/ \E p \in Paths : OutsideWrites(p) \/ MarkExpires(p)
    \/ WatchStarts
    \/ AllExit
    \/ AllCrash

Spec == Init /\ [][Next]_vars

\* The loops go on as long as one of them has something to do, the watch with
\* what it has, and a process that has ended is started again.
Fairness ==
    /\ WF_vars(LoopStep /\ UNCHANGED watchVars)
    /\ WF_vars(WatchStep)
    /\ WF_vars(AllExit \/ WatchStarts)

FairSpec == Spec /\ Fairness

-------------------------------------------------------------------------------
(* Properties.                                                             *)

\* The values every variable keeps to.
TypeOK ==
    /\ CommandTypeOK
    /\ watch \in {"run", "done"}
    /\ changes \subseteq Paths
    /\ settle \in {NoSettle} \cup
          [path : Paths, at : {"poll", "publish"}, born : Writers, last : {-1} \cup Sizes,
           matches : 0 .. StableReads, seen : Seq(Sizes)]
    /\ announced \subseteq [path : Paths, born : Writers]

\* The watch announces a size that StableReads + 1 polls in a row have read:
\* a writer has to pause that long for its half-written file to be announced.
SettledMeansSteady ==
    settle.at = "publish" =>
        settle.seen = [i \in 1 .. StableReads + 1 |-> settle.last]

\* Others write on and on in their files.
NeverQuiet == []<><<\E p \in Paths : OutsideWrites(p)>>_vars

\* A file created from outside while the watch runs is announced as such, even
\* when the watch was busy, unless it is removed, a write command marks its
\* path, or the adapter stops - or some file's size never stops changing, which
\* can hold up the watch for good.
OutsideIsAnnounced ==
    NeverQuiet \/ \A p \in Paths :
        (p \in added /\ file[p] # Absent /\ file[p].born = Outside) ~>
            \/ [path |-> p, born |-> Outside] \in announced
            \/ file[p] = Absent \/ p \in marked
            \/ phase = "down" \/ stopping

\* SIGTERM ends the process, whatever the loops and the watch wait for, as long
\* as no file goes on changing.
StopCompletes == NeverQuiet \/ (stopping /\ phase = "up" ~> phase = "down")

\* recent_writes.py: without the marks "every command-triggered creation would
\* ALSO trip the external-creation watch and publish a second, spurious
\* FileCreateCompleted with no correlationId" - with them, none does.
OwnWriteNotAnnounced == \A a \in announced : a.born = Outside

===============================================================================
