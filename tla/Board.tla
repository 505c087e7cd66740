---------------------------------- MODULE Board ----------------------------------
(***************************************************************************)
(* ProjectBoard (board.py) and its callers: the commands of main.py and    *)
(* the Streamlit script of app.py.  Each session reads the whole file into *)
(* memory, may scrape and summarise for long, and writes the whole file    *)
(* back.  Sessions of several processes share the file.                    *)
(***************************************************************************)
EXTENDS Integers, FiniteSets

CONSTANTS
    Sessions,  \* processes that use one board file
    MaxTasks,  \* bound: tasks that are ever added
    MaxFaults  \* bound: writes that fail or die

ASSUME BoardAssumption == MaxTasks \in Nat /\ MaxFaults \in Nat

VARIABLES
    file,     \* the tasks in the file, or Unreadable
    session,  \* what each session holds
    added,    \* tasks added so far; the n-th one has the title n
    last,     \* the tasks that were written completely the last time
    faults

boardVars == <<file, session, added, last, faults>>

Statuses == {"todo", "done"}
Unreadable == {[id |-> 0]}

\* based is the file as the session has loaded or saved it last, removed holds
\* the titles it has removed since.
Away == [phase |-> "away", tasks |-> {}, based |-> {}, removed |-> {}]

BoardInit ==
    /\ file = {}
    /\ session = [s \in Sessions |-> Away]
    /\ added = 0
    /\ last = {}
    /\ faults = 0

\* _load: a file that cannot be parsed is an empty board.
Open(s) ==
    /\ session[s].phase = "away"
    /\ session' = [session EXCEPT ![s] =
           [phase |-> "open", based |-> file, removed |-> {},
            tasks |-> IF file = Unreadable THEN {} ELSE file]]
    /\ UNCHANGED <<file, added, last, faults>>

\* Mutant: the number of the tasks is taken for the greatest id.
NextIdByCount(tasks) == Cardinality(tasks) + 1

NextId(tasks) == CHOOSE n \in 1 .. MaxTasks + 1 :
    /\ \A t \in tasks : t.id < n
    /\ n = 1 \/ \E t \in tasks : t.id = n - 1

\* Every change of the list is followed by _save; the write begins by
\* truncating the file.
Change(s, tasks, removed) ==
    /\ session[s].phase = "open"
    /\ session' = [session EXCEPT ![s].phase = "saving", ![s].tasks = tasks, ![s].removed = removed]
    /\ file' = Unreadable
    /\ UNCHANGED <<last, faults>>

\* add_task
AddTask(s, status) ==
    /\ added < MaxTasks
    /\ added' = added + 1
    /\ Change(s, session[s].tasks \cup
                     {[id |-> NextId(session[s].tasks), title |-> added + 1, status |-> status]},
              session[s].removed)

\* update_task: an unknown id changes and saves nothing.
UpdateTask(s, task, status) ==
    /\ task \in session[s].tasks
    /\ Change(s, (session[s].tasks \ {task}) \cup {[task EXCEPT !.status = status]},
              session[s].removed)
    /\ UNCHANGED added

\* Mutant: the comparison of the filter is inverted.
RemoveOthers(s, task) ==
    /\ task \in session[s].tasks
    /\ Change(s, {task}, session[s].removed \cup {task.title})
    /\ UNCHANGED added

\* remove_task
RemoveTask(s, task) ==
    /\ task \in session[s].tasks
    /\ Change(s, session[s].tasks \ {task}, session[s].removed \cup {task.title})
    /\ UNCHANGED added

\* The write goes to the truncated file.  What another session has written there
\* since then may be longer, and its rest stays behind.
Save(s) ==
    /\ session[s].phase = "saving"
    /\ file' = session[s].tasks \/ (file # Unreadable /\ file' = Unreadable)
    /\ last' = session[s].tasks
    /\ session' = [session EXCEPT ![s].phase = "open", ![s].based = session[s].tasks,
                                  ![s].removed = {}]
    /\ UNCHANGED <<added, faults>>

\* _save swallows the exception of a full disk: the session goes on.
SaveFails(s) ==
    /\ session[s].phase = "saving"
    /\ faults < MaxFaults
    /\ faults' = faults + 1
    /\ session' = [session EXCEPT ![s].phase = "open"]
    /\ UNCHANGED <<file, added, last>>

\* The command ends, Streamlit runs the script again, or the process dies.
Leave(s) ==
    /\ \/ session[s].phase = "open" /\ UNCHANGED faults
       \/ session[s].phase = "saving" /\ faults < MaxFaults /\ faults' = faults + 1
    /\ session' = [session EXCEPT ![s] = Away]
    /\ UNCHANGED <<file, added, last>>

BoardNext ==
    \E s \in Sessions :
        \/ Open(s) \/ Save(s) \/ SaveFails(s) \/ Leave(s)
        \/ \E status \in Statuses : AddTask(s, status)
        \/ \E task \in session[s].tasks :
              RemoveTask(s, task) \/ \E status \in Statuses : UpdateTask(s, task, status)

BoardSpec == BoardInit /\ [][BoardNext]_boardVars

-----------------------------------------------------------------------------

UniqueIds(tasks) == \A t, u \in tasks : t.id = u.id => t = u

\* The id of a task is unique, in the file and in what a session shows, whatever
\* sessions overwrite or remove.
BoardIdsUnique ==
    /\ UniqueIds(file)
    /\ \A s \in Sessions : UniqueIds(session[s].tasks)

TitlesOf(tasks) == {t.title : t \in tasks}

\* A save drops a task that was stored only when its session has removed the task
\* or did not begin with the last complete list: another session has saved in
\* between, or a cut write had left the file unreadable.
BoardLossNeedsOldCopy ==
    [][last' # last =>
         \E s \in Sessions :
            /\ last' = session[s].tasks
            /\ \/ TitlesOf(last) \subseteq TitlesOf(last') \cup session[s].removed
               \/ session[s].based # last]_boardVars

=============================================================================
