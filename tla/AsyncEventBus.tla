----------------------------- MODULE AsyncEventBus -----------------------------
(***************************************************************************)
(* AsyncEventBus derives from InProcessEventBus and overrides both Publish *)
(* methods: each starts a task whose body calls Publish again.  The call   *)
(* in the task is the overridden method, so it starts another task.        *)
(***************************************************************************)
EXTENDS EventBus

CONSTANT Workers  \* threads of the pool that runs the tasks

ASSUME WorkersAssumption == Workers \cap Threads = {} /\ Workers # {}

\* Task.Factory.StartNew, from a thread of the application.
PublishAsync(t, size) ==
  /\ Len(calls) < Len(Sizes)
  /\ size \in Sizes[Len(calls) + 1]
  /\ calls' = Append(calls, [NewCall(t, size) EXCEPT !.place = "queued"])
  /\ UNCHANGED <<top, heard, missing, sessions, running>>

\* A worker of the pool takes a task.
RunTask(w, c) ==
  /\ \A d \in DOMAIN calls : calls[d].by # w
  /\ calls[c].place = "queued"
  /\ calls' = [calls EXCEPT ![c].place = "task", ![c].by = w]
  /\ UNCHANGED <<top, heard, missing, sessions, running>>

\* The body of the task: Publish(events) is AsyncEventBus.Publish.
PublishInTask(w, c) ==
  /\ calls[c].by = w
  /\ calls[c].place = "task"
  /\ calls' = [calls EXCEPT ![c].place = "queued", ![c].by = 0]
  /\ UNCHANGED <<top, heard, missing, sessions, running>>

AsyncNext ==
  \/ \E t \in Threads, size \in UNION Elements(Sizes) : PublishAsync(t, size)
  \/ \E w \in Workers, c \in DOMAIN calls : RunTask(w, c) \/ PublishInTask(w, c)

\* Every task gets a worker, and every worker runs its task.
AsyncFairness ==
  /\ \A c \in DOMAIN Sizes : SF_vars(c \in DOMAIN calls /\ \E w \in Workers : RunTask(w, c))
  /\ \A w \in Workers : WF_vars(\E c \in DOMAIN calls : PublishInTask(w, c))

AsyncSpec == Init /\ [][AsyncNext]_vars /\ AsyncFairness
=============================================================================
