------------------------------- MODULE Workspace -------------------------------
(***************************************************************************)
(* The tasks of a project and the entries of the activity log that give    *)
(* their assignees credit on the leaderboard.  A handler checks that its   *)
(* caller is a member, changes the tasks, and for some calls writes the    *)
(* log: the project may be deleted between any two of these.               *)
(*                                                                         *)
(* PostgreSQL's foreign keys refuse a task or an entry of a project that   *)
(* is gone, and cascade.  The JSON store refuses nothing, and its deletion *)
(* leaves the log.                                                         *)
(***************************************************************************)
EXTENDS Integers

CONSTANTS
  Tasks,     \* tasks that may be created
  Callers,   \* calls of the handlers, by members
  NoTask,    \* no task
  Backends   \* where the server may keep its data: "pg", "json"

ASSUME WorkspaceAssumption ==
  /\ NoTask \notin Tasks
  /\ Backends \subseteq {"pg", "json"}

VARIABLES
  backend,   \* where the data is, decided at start
  alive,     \* the project exists
  tasks,     \* its tasks
  finished,  \* those with status "completed" and a completed_at
  stageOf,   \* their stage
  credits,   \* activity_logs: "task_completed" entries that a task gave
  doing,     \* what a call does next
  task,      \* the task it gives credit for
  created,   \* history: tasks that were ever created
  late       \* history: tasks created after the deletion

callerVars    == <<doing, task>>
workVars      == <<created, late>>
workspaceVars == <<backend, alive, tasks, finished, stageOf, credits, callerVars, workVars>>

Stages == {"backlog", "completed", "custom"}

WorkspaceTypeOK ==
  /\ backend \in {"pg", "json"} /\ alive \in BOOLEAN
  /\ tasks \subseteq created /\ created \subseteq Tasks /\ late \subseteq created
  /\ finished \subseteq Tasks
  /\ stageOf \in [Tasks -> Stages]
  /\ \A t \in Tasks : /\ stageOf[t] = "completed" => t \in finished
                      /\ stageOf[t] = "backlog" => t \notin finished
  /\ doing \in [Callers -> {"new", "checked", "log", "over"}]
  /\ task \in [Callers -> Tasks \cup {NoTask}]
  /\ credits \in [Tasks -> Nat]

WorkspaceInit ==
  /\ backend \in Backends
  /\ alive = TRUE
  /\ tasks = {} /\ finished = {} /\ stageOf = [t \in Tasks |-> "backlog"]
  /\ credits = [t \in Tasks |-> 0]
  /\ doing = [c \in Callers |-> "new"] /\ task = [c \in Callers |-> NoTask]
  /\ created = {} /\ late = {}

Then(c, s) == doing' = [doing EXCEPT ![c] = s]
Return(c) == Then(c, "over") /\ task' = [task EXCEPT ![c] = NoTask]

\* Mutants: the bugs that the properties would catch.
MutReferable == TRUE  \* no foreign key on tasks
MutStatusOf(t, s) == finished  \* an update leaves the status as it was

-----------------------------------------------------------------------------
(* Handlers *)

\* A row may refer to the project.
Referable == alive \/ backend = "json"

\* IsProjectMember; nobody is a member of a project that is gone.
Check(c) ==
  /\ doing[c] = "new"
  /\ IF alive THEN Then(c, "checked") ELSE Then(c, "over")
  /\ UNCHANGED <<backend, alive, tasks, finished, stageOf, credits, task, workVars>>

CreateTask(c, t) ==
  /\ doing[c] = "checked"
  /\ t \notin created
  /\ Referable
  /\ tasks' = tasks \cup {t}
  /\ created' = created \cup {t}
  /\ late' = IF alive THEN late ELSE late \cup {t}
  /\ Return(c)
  /\ UNCHANGED <<backend, alive, finished, stageOf, credits>>

\* CompleteTask, once more if it is called once more.
CompleteTask(c, t) ==
  /\ doing[c] = "checked"
  /\ t \in tasks
  /\ finished' = finished \cup {t}
  /\ stageOf' = [stageOf EXCEPT ![t] = "completed"]
  /\ Then(c, "log") /\ task' = [task EXCEPT ![c] = t]
  /\ UNCHANGED <<backend, alive, tasks, credits, created, late>>

\* A stage that the code does not know leaves the status.
StatusOf(t, s) == CASE s = "completed" -> finished \cup {t}
                    [] s = "backlog"   -> finished \ {t}
                    [] OTHER           -> finished

\* UpdateTask; also of the stage "completed" it logs nothing.
UpdateTask(c, t, s) ==
  /\ doing[c] = "checked"
  /\ t \in tasks
  /\ stageOf' = [stageOf EXCEPT ![t] = s]
  /\ finished' = StatusOf(t, s)
  /\ Return(c)
  /\ UNCHANGED <<backend, alive, tasks, credits, workVars>>

\* DeleteTask, which finds nothing wrong with a task that is not there; its log
\* entry gives no credit.
DeleteTask(c, t) ==
  /\ doing[c] = "checked"
  /\ tasks' = tasks \ {t}
  /\ Return(c)
  /\ UNCHANGED <<backend, alive, finished, stageOf, credits, workVars>>

\* The task is not there, a foreign key refuses, or the store fails.
CallFails(c) ==
  /\ doing[c] = "checked"
  /\ Return(c)
  /\ UNCHANGED <<backend, alive, tasks, finished, stageOf, credits, workVars>>

\* LogActivity, after CompleteTask ...
LogActivity(c) ==
  /\ doing[c] = "log"
  /\ Referable
  /\ credits' = [credits EXCEPT ![task[c]] = @ + 1]
  /\ Return(c)
  /\ UNCHANGED <<backend, alive, tasks, finished, stageOf, workVars>>

\* ... whose error is ignored.
LogFails(c) ==
  /\ doing[c] = "log"
  /\ Return(c)
  /\ UNCHANGED <<backend, alive, tasks, finished, stageOf, credits, workVars>>

-----------------------------------------------------------------------------

DeleteProject ==
  /\ alive
  /\ alive' = FALSE
  /\ tasks' = {}
  /\ credits' = IF backend = "pg" THEN [t \in Tasks |-> 0] ELSE credits
  /\ UNCHANGED <<backend, finished, stageOf, callerVars, workVars>>

\* ActivityLogSweep: those of a task's entries that are old enough go.
ActivityLogSweep(t) ==
  /\ credits[t] > 0
  /\ \E n \in 0 .. credits[t] - 1 : credits' = [credits EXCEPT ![t] = n]
  /\ UNCHANGED <<backend, alive, tasks, finished, stageOf, callerVars, workVars>>

Handler(c) ==
  \/ Check(c) \/ CallFails(c) \/ LogActivity(c) \/ LogFails(c)
  \/ \E t \in Tasks : CreateTask(c, t) \/ CompleteTask(c, t) \/ DeleteTask(c, t)
  \/ \E t \in Tasks, s \in Stages : UpdateTask(c, t, s)

WorkspaceNext ==
  \/ \E c \in Callers : Handler(c)
  \/ DeleteProject
  \/ \E t \in Tasks : ActivityLogSweep(t)

WorkspaceSpec == WorkspaceInit /\ [][WorkspaceNext]_workspaceVars

-----------------------------------------------------------------------------
(* Properties *)

\* A project that is gone has no tasks, and in PostgreSQL gives nobody credit
\* any more: an entry that CompleteTask logs after the deletion is refused.  The
\* JSON store, which does not look for the project again, has tasks of calls
\* that had found their caller a member before the deletion and no others
\* (db.go:984-1000, project.go:649-652); nothing removes those.
StrayTaskIsARace ==
  ~alive => /\ tasks \subseteq late
            /\ backend = "pg" => tasks = {} /\ \A t \in Tasks : credits[t] = 0
=============================================================================
