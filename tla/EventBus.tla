------------------------------- MODULE EventBus -------------------------------
(***************************************************************************)
(* InProcessEventBus.Publish, one handler at a time: the loop over the     *)
(* events of a call, the bus modules told of the start and the end of each *)
(* event, the dispatch to every handler in turn, handlers that publish     *)
(* again before they return, and exceptions, which no layer between a      *)
(* handler and the caller of Publish catches.  The module of the bus is    *)
(* NHibernateEventBusModule, which keeps the session of a thread in a      *)
(* [ThreadStatic] field and hands it to the handlers.                      *)
(***************************************************************************)
EXTENDS Integers, Sequences, FiniteSets

CONSTANTS
  Threads,      \* threads that call Publish
  Handlers,     \* number of handlers the container resolves for an event
  Sizes,        \* bound: Sizes[n], how many events the n-th call of Publish may have
  MaxHeld       \* bound: sessions a handler asks for

ASSUME EventBusAssumption ==
  /\ 0 \notin Threads
  /\ Handlers \in Nat
  /\ Sizes \in Seq(SUBSET Nat)
  /\ MaxHeld \in Nat

VARIABLES
  calls,     \* the calls of Publish, [by, parent, size, k, place, h, held]: by thread `by'
             \* from a handler of call `parent' (or 0), at event k of size, in front of
             \* or inside its h-th handler, which holds the sessions `held'
  top,       \* the call each thread is executing, innermost first, or 0
  heard,     \* <<c, k, h>>: the h-th handler was given the k-th event of call c
  missing,   \* <<c, k>>: the handlers of that event could not be resolved
  opened,    \* sessions opened so far, numbered from 1
  open,      \* the sessions not disposed
  session,   \* NHibernateEventBusModule._currentsession of each thread, or 0
  running    \* InProcessEventBus.IsRunning

sessions == <<opened, open, session>>
vars     == <<calls, top, heard, missing, sessions, running>>

-----------------------------------------------------------------------------
Elements(s) == {s[i] : i \in DOMAIN s}

call(t) == calls[top[t]]

At(t, place) == top[t] # 0 /\ call(t).place = place

\* The innermost call of thread t moves on.
Move(t, place, h) ==
  calls' = [calls EXCEPT ![top[t]].place = place, ![top[t]].h = h]

\* The innermost call of thread t ends; its thread is back in the handler, or the
\* application, that made it.
End(t, outcome) ==
  /\ calls' = [calls EXCEPT ![top[t]].place = outcome, ![top[t]].held = {}]
  /\ top' = [top EXCEPT ![t] = call(t).parent]

-----------------------------------------------------------------------------
(* The session of a thread.                                                *)

\* Fault: the field is static for all threads.
SetSessionOfAll(t, s) == session' = [u \in Threads |-> s]

\* [ThreadStatic] _currentsession
SetSession(t, s) == session' = [session EXCEPT ![t] = s]

\* Fault: the session a thread has is used again.
CreateFirstSession(t) ==
  IF session[t] # 0 THEN UNCHANGED sessions
  ELSE /\ opened' = opened + 1
       /\ open' = open \cup {opened'}
       /\ SetSession(t, opened')

\* CreateSession replaces the session without disposing the one it replaces.
CreateSession(t) ==
  /\ opened' = opened + 1
  /\ open' = open \cup {opened + 1}
  /\ SetSession(t, opened + 1)

\* Fault: the disposed session stays in the field.
DisposeSessionOnly(t) ==
  /\ open' = open \ {session[t]}
  /\ UNCHANGED <<opened, session>>

\* OnEventBusCompletedMessagePublishing: nothing to do for a thread without a session.
DisposeSession(t) ==
  /\ open' = open \ {session[t]}
  /\ SetSession(t, 0)
  /\ UNCHANGED opened

-----------------------------------------------------------------------------
(* Publish.                                                                *)

NewCall(t, size) == [by |-> t, parent |-> top[t], size |-> size, k |-> 1,
                     place |-> IF size = 0 THEN "returned" ELSE "start",
                     h |-> 1, held |-> {}]

\* The application, or a handler, calls Publish with some events, or with an aggregate,
\* whose changes are copied first. A call with no events returns at once.
Publish(t, size) ==
  /\ top[t] # 0 => call(t).place = "handler"
  /\ Len(calls) < Len(Sizes)
  /\ size \in Sizes[Len(calls) + 1]
  /\ calls' = Append(calls, NewCall(t, size))
  /\ top' = IF size = 0 THEN top ELSE [top EXCEPT ![t] = Len(calls) + 1]
  /\ UNCHANGED <<heard, missing, sessions, running>>

\* OnStartPublish
StartModules(t) ==
  /\ At(t, "start")
  /\ CreateSession(t)
  /\ Move(t, "dispatch", 1)
  /\ UNCHANGED <<top, heard, missing, running>>

\* A module throws, before or after NHibernateEventBusModule is told.
StartModuleThrows(t) ==
  /\ At(t, "start")
  /\ CreateSession(t) \/ UNCHANGED sessions
  /\ End(t, "threw")
  /\ UNCHANGED <<heard, missing, running>>

\* ResolveAll throws: Dispatch swallows MissingExternalEventHandlerForEventException.
ResolveFails(t) ==
  /\ At(t, "dispatch")
  /\ call(t).h = 1
  /\ missing' = missing \cup {<<top[t], call(t).k>>}
  /\ Move(t, "dispatch", Handlers + 1)
  /\ UNCHANGED <<top, heard, sessions, running>>

\* The next handler is called.
EnterHandler(t) ==
  /\ At(t, "dispatch")
  /\ call(t).h <= Handlers
  /\ heard' = heard \cup {<<top[t], call(t).k, call(t).h>>}
  /\ Move(t, "handler", call(t).h)
  /\ UNCHANGED <<top, missing, sessions, running>>

\* A handler calls GetCurrentSession, which opens a session of its own every time.
GetCurrentSession(t) ==
  /\ At(t, "handler")
  /\ Cardinality(call(t).held) < MaxHeld
  /\ CreateSession(t)
  /\ calls' = [calls EXCEPT ![top[t]].held = @ \cup {session'[t]}]
  /\ UNCHANGED <<top, heard, missing, running>>

\* Fault: the loop over the handlers does not advance.
LeaveHandlerInPlace(t) ==
  /\ At(t, "handler")
  /\ calls' = [calls EXCEPT ![top[t]].place = "dispatch", ![top[t]].held = {}]
  /\ UNCHANGED <<top, heard, missing, sessions, running>>

LeaveHandler(t) ==
  /\ At(t, "handler")
  /\ calls' = [calls EXCEPT ![top[t]].place = "dispatch",
                            ![top[t]].h = @ + 1,
                            ![top[t]].held = {}]
  /\ UNCHANGED <<top, heard, missing, sessions, running>>

\* Fault: the bus goes on with the next event of the call.
HandlerThrowsAndIsCaught(t) ==
  /\ At(t, "handler")
  /\ IF call(t).k < call(t).size
       THEN /\ calls' = [calls EXCEPT ![top[t]].place = "start", ![top[t]].k = @ + 1,
                                      ![top[t]].held = {}]
            /\ UNCHANGED top
       ELSE End(t, "threw")
  /\ UNCHANGED <<heard, missing, sessions, running>>

\* The handler throws, an exception of its own or one of a call it made: the handlers and
\* the events after it are skipped, the modules are not told, Publish throws.
HandlerThrows(t) ==
  /\ At(t, "handler")
  /\ End(t, "threw")
  /\ UNCHANGED <<heard, missing, sessions, running>>

Dispatched(t) == At(t, "dispatch") /\ call(t).h > Handlers

\* Fault: Publish returns after its first event.
CompleteFirstEvent(t) ==
  /\ Dispatched(t)
  /\ DisposeSession(t)
  /\ End(t, "returned")
  /\ UNCHANGED <<heard, missing, running>>

\* OnCompletePublish, and the next event of the call or its return.
CompleteModules(t) ==
  /\ Dispatched(t)
  /\ DisposeSession(t)
  /\ IF call(t).k < call(t).size
       THEN /\ calls' = [calls EXCEPT ![top[t]].place = "start", ![top[t]].k = @ + 1]
            /\ UNCHANGED top
       ELSE End(t, "returned")
  /\ UNCHANGED <<heard, missing, running>>

\* A module throws, before or after NHibernateEventBusModule is told.
CompleteModuleThrows(t) ==
  /\ Dispatched(t)
  /\ DisposeSession(t) \/ UNCHANGED sessions
  /\ End(t, "threw")
  /\ UNCHANGED <<heard, missing, running>>

\* Start and Stop (and Dispose, which stops) write a flag that Publish does not read.
Start == running' = TRUE /\ UNCHANGED <<calls, top, heard, missing, sessions>>
Stop  == running' = FALSE /\ UNCHANGED <<calls, top, heard, missing, sessions>>

-----------------------------------------------------------------------------
Init ==
  /\ calls = <<>>
  /\ top = [t \in Threads |-> 0]
  /\ heard = {}
  /\ missing = {}
  /\ opened = 0
  /\ open = {}
  /\ session = [t \in Threads |-> 0]
  /\ running = FALSE

\* What a thread inside Publish does when nothing goes wrong.
Progress(t) == StartModules(t) \/ EnterHandler(t) \/ LeaveHandler(t) \/ CompleteModules(t)

Throw(t) == StartModuleThrows(t) \/ HandlerThrows(t) \/ CompleteModuleThrows(t)

Next ==
  \/ \E t \in Threads :
       \/ \E size \in UNION Elements(Sizes) : Publish(t, size)
       \/ Progress(t)
       \/ Throw(t)
       \/ ResolveFails(t)
       \/ GetCurrentSession(t)
  \/ Start
  \/ Stop

Spec == Init /\ [][Next]_vars

\* A thread inside Publish is scheduled, and the handler it is in returns or throws.
Fairness == \A t \in Threads : WF_vars(Progress(t))

FairSpec == Spec /\ Fairness

-----------------------------------------------------------------------------
(* Properties.                                                             *)

CallPlaces == {"start", "dispatch", "handler", "returned", "threw"}

Call == [by : Threads, parent : Nat, size : Nat, k : Nat \ {0}, place : CallPlaces,
         h : Nat \ {0}, held : SUBSET Nat]

\* Every variable has its type, and the running calls of a thread are a chain of
\* earlier and earlier calls, each but the innermost inside one of its handlers.
TypeOK ==
  /\ calls \in Seq(Call)
  /\ top \in [Threads -> {0} \cup DOMAIN calls]
  /\ heard \in SUBSET ((DOMAIN calls) \X (Nat \ {0}) \X (1..Handlers))
  /\ missing \in SUBSET ((DOMAIN calls) \X (Nat \ {0}))
  /\ opened \in Nat
  /\ open \in SUBSET (1..opened)
  /\ session \in [Threads -> {0} \cup open]
  /\ running \in BOOLEAN
  /\ \A c \in DOMAIN calls :
       calls[c].parent # 0 =>
         /\ calls[c].parent < c
         /\ calls[c].place \notin {"returned", "threw"} => calls[calls[c].parent].place = "handler"

Resolved(c, k) == <<c, k>> \notin missing

\* The events of one call reach the handlers in order, and never one past a failure: once
\* any handler was given event k + 1, every handler was given event k (unless the handlers
\* of k could not be resolved, which the dispatcher takes for an event nobody handles).
BatchInOrder ==
  \A x \in heard :
    \A k \in 1..(x[2] - 1) :
      Resolved(x[1], k) => \A h \in 1..Handlers : <<x[1], k, h>> \in heard

\* A session that GetCurrentSession gave a handler stays open while that handler runs,
\* whatever other threads publish and whatever the handler publishes itself, calls that
\* throw included: the completion of a nested event disposes another session.
HeldSessionOpen ==
  \A c \in DOMAIN calls : calls[c].held \subseteq open

\* Two handlers that run at once, on two threads or one inside the other, hold no session
\* in common.
SessionsNotShared ==
  \A c, d \in DOMAIN calls : c # d => calls[c].held \cap calls[d].held = {}

Handled(c) ==
  \A k \in 1..calls[c].size :
    Resolved(c, k) => \A h \in 1..Handlers : <<c, k, h>> \in heard

\* When Publish returns, every handler was given every event of the call, those of nested
\* calls as well as those of the outermost one.
ReturnedIsHandled ==
  \A c \in DOMAIN calls : calls[c].place = "returned" => Handled(c)

\* What is published is handled in the end: every call of Publish comes to a state where
\* its events were given to every handler, or it throws (IEventBus.Publish).
EventuallyHandled ==
  \A c \in DOMAIN Sizes :
    (c \in DOMAIN calls) ~> (c \in DOMAIN calls /\ (Handled(c) \/ calls[c].place = "threw"))
=============================================================================
