---------------------------- MODULE EventBusProofs ----------------------------
(***************************************************************************)
(* Proofs about EventBus for any threads, number of handlers and bounds:   *)
(* the chain of running calls, the order in which a batch reaches the      *)
(* handlers, and the sessions handlers hold.                               *)
(***************************************************************************)
EXTENDS EventBus, TLAPS

-----------------------------------------------------------------------------
(* The inductive invariant.                                                *)

Running(c) == calls[c].place \notin {"returned", "threw"}

\* Types that no relation between variables is needed for.
Typed ==
  /\ calls \in Seq(Call)
  /\ top \in [Threads -> Nat]
  /\ heard \in SUBSET (Nat \X (Nat \ {0}) \X (1..Handlers))
  /\ missing \in SUBSET (Nat \X (Nat \ {0}))
  /\ opened \in Nat
  /\ open \in SUBSET Nat
  /\ session \in [Threads -> Nat]
  /\ running \in BOOLEAN

\* The running calls of a thread form a chain, and top is its innermost end.
Chain ==
  /\ \A t \in Threads : top[t] # 0 =>
       top[t] \in DOMAIN calls /\ calls[top[t]].by = t /\ Running(top[t])
  /\ \A c \in DOMAIN calls : calls[c].parent # 0 => calls[c].parent < c
  /\ \A c \in DOMAIN calls : (Running(c) /\ calls[c].parent # 0) =>
       /\ calls[calls[c].parent].place = "handler"
       /\ calls[calls[c].parent].by = calls[c].by
  /\ \A c \in DOMAIN calls : Running(c) => calls[c].parent # top[calls[c].by]
  /\ \A c, d \in DOMAIN calls :
       (Running(c) /\ Running(d) /\ calls[c].by = calls[d].by
         /\ calls[c].parent = calls[d].parent) => c = d

\* Handler h was given event k of call c, or that event has no handlers to be found.
Given(c, k, h) == <<c, k, h>> \in heard \/ <<c, k>> \in missing

\* How far call c has come is how far its events were given.
GivenSoFar(c) ==
  /\ \A k, h \in Nat : (1 <= k /\ k < calls[c].k /\ 1 <= h /\ h <= Handlers) => Given(c, k, h)
  /\ \A h \in Nat :
       (calls[c].place = "dispatch" /\ 1 <= h /\ h <= Handlers /\ h < calls[c].h)
         => Given(c, calls[c].k, h)
  /\ \A h \in Nat :
       (calls[c].place = "handler" /\ 1 <= h /\ h <= Handlers /\ h <= calls[c].h)
         => Given(c, calls[c].k, h)
  /\ \A k, h \in Nat :
       (calls[c].place = "returned" /\ 1 <= k /\ k <= calls[c].size /\ 1 <= h /\ h <= Handlers)
         => Given(c, k, h)

Order ==
  /\ \A c \in DOMAIN calls : GivenSoFar(c)
  /\ \A x \in heard : x[1] \in DOMAIN calls /\ x[2] <= calls[x[1]].k
  /\ \A x \in missing : x[1] \in DOMAIN calls

\* The session of a thread is in the hands of no handler but the one the thread is in,
\* or the one that has just called Publish.
Held ==
  /\ \A s \in open : 1 <= s /\ s <= opened
  /\ \A t \in Threads : session[t] # 0 => session[t] \in open
  /\ \A t, u \in Threads : (session[t] # 0 /\ session[t] = session[u]) => t = u
  /\ \A c \in DOMAIN calls : calls[c].held \subseteq open
  /\ \A c \in DOMAIN calls : calls[c].held # {} => calls[c].place = "handler"
  /\ \A c, d \in DOMAIN calls : c # d => calls[c].held \cap calls[d].held = {}
  /\ \A c \in DOMAIN calls, t \in Threads : session[t] \in calls[c].held =>
       /\ calls[c].by = t
       /\ \/ c = top[t]
          \/ top[t] # 0 /\ calls[top[t]].parent = c /\ calls[top[t]].place = "start"

Inv == Typed /\ Chain /\ Order /\ Held

-----------------------------------------------------------------------------
(* What a step inside Publish does to the calls.                           *)

\* Call c, and no other, changes: to event k, handler h, the given place and sessions.
Changed(c, place, k, h, held) ==
  /\ calls' \in Seq(Call)
  /\ DOMAIN calls' = DOMAIN calls
  /\ \A d \in DOMAIN calls : d # c => calls'[d] = calls[d]
  /\ calls'[c].by = calls[c].by
  /\ calls'[c].parent = calls[c].parent
  /\ calls'[c].size = calls[c].size
  /\ calls'[c].place = place
  /\ calls'[c].k = k
  /\ calls'[c].h = h
  /\ calls'[c].held = held

LEMMA CallFields ==
  ASSUME calls \in Seq(Call), NEW c \in DOMAIN calls
  PROVE  /\ c \in Nat /\ calls[c] \in Call
         /\ calls[c].by \in Threads /\ calls[c].parent \in Nat /\ calls[c].size \in Nat
         /\ calls[c].k \in Nat \ {0} /\ calls[c].h \in Nat \ {0}
         /\ calls[c].place \in CallPlaces /\ calls[c].held \in SUBSET Nat
<1>1. calls[c] \in Call
  OBVIOUS
<1>2. c \in Nat
  OBVIOUS
<1> QED BY <1>1, <1>2 DEF Call

LEMMA ChangesOne ==
  ASSUME calls \in Seq(Call), NEW c \in DOMAIN calls, NEW r \in Call,
         calls' = [calls EXCEPT ![c] = r],
         r.by = calls[c].by, r.parent = calls[c].parent, r.size = calls[c].size
  PROVE  Changed(c, r.place, r.k, r.h, r.held)
<1>1. /\ calls' \in Seq(Call) /\ DOMAIN calls' = DOMAIN calls
      /\ \A d \in DOMAIN calls : d # c => calls'[d] = calls[d]
      /\ calls'[c] = r
  OBVIOUS
<1> QED
  BY <1>1 DEF Changed

LEMMA MoveChanges ==
  ASSUME calls \in Seq(Call), NEW c \in DOMAIN calls, NEW place \in CallPlaces, NEW h \in Nat \ {0},
         calls' = [calls EXCEPT ![c].place = place, ![c].h = h]
  PROVE  Changed(c, place, calls[c].k, h, calls[c].held)
<1>1. calls[c] \in Call
  OBVIOUS
<1>2. PICK r : r = [calls[c] EXCEPT !.place = place, !.h = h]
  OBVIOUS
<1>3. calls[c].k + 1 \in Nat \ {0} /\ calls[c].h + 1 \in Nat \ {0} /\ calls[c].held \in SUBSET Nat
  BY <1>1 DEF Call
<1>4. r \in Call
  BY <1>1, <1>2, <1>3 DEF Call
<1>5. /\ r.by = calls[c].by /\ r.parent = calls[c].parent /\ r.size = calls[c].size
      /\ r.place = place /\ r.k = calls[c].k /\ r.h = h /\ r.held = calls[c].held
  BY <1>1, <1>2 DEF Call
<1>6. calls' = [calls EXCEPT ![c] = r]
  BY <1>2
<1>7. Changed(c, r.place, r.k, r.h, r.held)
  BY <1>4, <1>5, <1>6, ChangesOne
<1> QED
  BY <1>5, <1>7 DEF Changed

LEMMA EndChanges ==
  ASSUME calls \in Seq(Call), NEW c \in DOMAIN calls, NEW place \in CallPlaces,
         calls' = [calls EXCEPT ![c].place = place, ![c].held = {}]
  PROVE  Changed(c, place, calls[c].k, calls[c].h, {})
<1>1. calls[c] \in Call
  OBVIOUS
<1>2. PICK r : r = [calls[c] EXCEPT !.place = place, !.held = {}]
  OBVIOUS
<1>3. calls[c].k + 1 \in Nat \ {0} /\ calls[c].h + 1 \in Nat \ {0} /\ calls[c].held \in SUBSET Nat
  BY <1>1 DEF Call
<1>4. r \in Call
  BY <1>1, <1>2, <1>3 DEF Call
<1>5. /\ r.by = calls[c].by /\ r.parent = calls[c].parent /\ r.size = calls[c].size
      /\ r.place = place /\ r.k = calls[c].k /\ r.h = calls[c].h /\ r.held = {}
  BY <1>1, <1>2 DEF Call
<1>6. calls' = [calls EXCEPT ![c] = r]
  BY <1>2
<1>7. Changed(c, r.place, r.k, r.h, r.held)
  BY <1>4, <1>5, <1>6, ChangesOne
<1> QED
  BY <1>5, <1>7 DEF Changed

LEMMA LeaveChanges ==
  ASSUME calls \in Seq(Call), NEW c \in DOMAIN calls, NEW place \in CallPlaces,
         calls' = [calls EXCEPT ![c].place = place, ![c].h = @ + 1, ![c].held = {}]
  PROVE  Changed(c, place, calls[c].k, calls[c].h + 1, {})
<1>1. calls[c] \in Call
  OBVIOUS
<1>2. PICK r : r = [calls[c] EXCEPT !.place = place, !.h = @ + 1, !.held = {}]
  OBVIOUS
<1>3. calls[c].k + 1 \in Nat \ {0} /\ calls[c].h + 1 \in Nat \ {0} /\ calls[c].held \in SUBSET Nat
  BY <1>1 DEF Call
<1>4. r \in Call
  BY <1>1, <1>2, <1>3 DEF Call
<1>5. /\ r.by = calls[c].by /\ r.parent = calls[c].parent /\ r.size = calls[c].size
      /\ r.place = place /\ r.k = calls[c].k /\ r.h = calls[c].h + 1 /\ r.held = {}
  BY <1>1, <1>2 DEF Call
<1>6. calls' = [calls EXCEPT ![c] = r]
  BY <1>2
<1>7. Changed(c, r.place, r.k, r.h, r.held)
  BY <1>4, <1>5, <1>6, ChangesOne
<1> QED
  BY <1>5, <1>7 DEF Changed

LEMMA HeldChanges ==
  ASSUME calls \in Seq(Call), NEW c \in DOMAIN calls, NEW s \in Nat,
         calls' = [calls EXCEPT ![c].held = @ \cup {s}]
  PROVE  Changed(c, calls[c].place, calls[c].k, calls[c].h, calls[c].held \cup {s})
<1>1. calls[c] \in Call
  OBVIOUS
<1>2. PICK r : r = [calls[c] EXCEPT !.held = @ \cup {s}]
  OBVIOUS
<1>3. calls[c].k + 1 \in Nat \ {0} /\ calls[c].h + 1 \in Nat \ {0} /\ calls[c].held \in SUBSET Nat
  BY <1>1 DEF Call
<1>4. r \in Call
  BY <1>1, <1>2, <1>3 DEF Call
<1>5. /\ r.by = calls[c].by /\ r.parent = calls[c].parent /\ r.size = calls[c].size
      /\ r.place = calls[c].place /\ r.k = calls[c].k /\ r.h = calls[c].h /\ r.held = calls[c].held \cup {s}
  BY <1>1, <1>2 DEF Call
<1>6. calls' = [calls EXCEPT ![c] = r]
  BY <1>2
<1>7. Changed(c, r.place, r.k, r.h, r.held)
  BY <1>4, <1>5, <1>6, ChangesOne
<1> QED
  BY <1>5, <1>7 DEF Changed

LEMMA NextChanges ==
  ASSUME calls \in Seq(Call), NEW c \in DOMAIN calls, NEW place \in CallPlaces,
         calls' = [calls EXCEPT ![c].place = place, ![c].k = @ + 1]
  PROVE  Changed(c, place, calls[c].k + 1, calls[c].h, calls[c].held)
<1>1. calls[c] \in Call
  OBVIOUS
<1>2. PICK r : r = [calls[c] EXCEPT !.place = place, !.k = @ + 1]
  OBVIOUS
<1>3. calls[c].k + 1 \in Nat \ {0} /\ calls[c].h + 1 \in Nat \ {0} /\ calls[c].held \in SUBSET Nat
  BY <1>1 DEF Call
<1>4. r \in Call
  BY <1>1, <1>2, <1>3 DEF Call
<1>5. /\ r.by = calls[c].by /\ r.parent = calls[c].parent /\ r.size = calls[c].size
      /\ r.place = place /\ r.k = calls[c].k + 1 /\ r.h = calls[c].h /\ r.held = calls[c].held
  BY <1>1, <1>2 DEF Call
<1>6. calls' = [calls EXCEPT ![c] = r]
  BY <1>2
<1>7. Changed(c, r.place, r.k, r.h, r.held)
  BY <1>4, <1>5, <1>6, ChangesOne
<1> QED
  BY <1>5, <1>7 DEF Changed

\* Where thread t stands before and after the step.
Stays(t) == top' = top
Pops(t)  == top' = [top EXCEPT ![t] = calls[top[t]].parent]

\* The chain, when the innermost call of a thread moves on or ends.
LEMMA ChainStep ==
  ASSUME Typed, Chain, NEW t \in Threads, NEW c \in DOMAIN calls, c = top[t],
         NEW place \in CallPlaces, NEW k, NEW h, NEW held,
         Changed(c, place, k, h, held),
         \/ Stays(t) /\ place \notin {"returned", "threw"}
         \/ Pops(t) /\ place \in {"returned", "threw"}
  PROVE  Chain'
<1>1. c \in DOMAIN calls /\ c # 0 /\ calls[c].by = t /\ Running(c)
  BY DEF Chain, Typed
<1>2. \A d \in DOMAIN calls : calls[d].by \in Threads /\ calls[d].parent \in Nat /\ d \in Nat
  BY CallFields DEF Typed
<1>3. /\ DOMAIN calls' = DOMAIN calls
      /\ \A d \in DOMAIN calls : calls'[d].by = calls[d].by /\ calls'[d].parent = calls[d].parent
      /\ \A d \in DOMAIN calls : d # c => calls'[d].place = calls[d].place
      /\ calls'[c].place = place
  BY <1>1 DEF Changed
<1>4. \A d \in DOMAIN calls : Running(d) => calls[d].parent # c
  BY <1>1, <1>2 DEF Chain
<1>5. \A d \in DOMAIN calls : (Running(d)' /\ d # c) => Running(d)
  BY <1>3 DEF Running
<1>6. \A d \in DOMAIN calls : Running(d)' => Running(d)
  BY <1>1, <1>5
<1>7. \A u \in Threads : u # t => top'[u] = top[u]
  BY DEF Stays, Pops, Typed
<1>8. ASSUME NEW u \in Threads, top'[u] # 0
      PROVE  /\ top'[u] \in DOMAIN calls' /\ calls'[top'[u]].by = u
             /\ calls'[top'[u]].place \notin {"returned", "threw"}
  <2>1. CASE u # t
    <3>1. top'[u] = top[u] /\ top[u] \in DOMAIN calls /\ calls[top[u]].by = u /\ Running(top[u])
      BY <1>7, <1>8, <2>1 DEF Chain
    <3>2. top[u] # c
      BY <3>1, <1>1, <2>1
    <3> QED BY <3>1, <3>2, <1>3 DEF Running
  <2>2. CASE u = t /\ Stays(t) /\ place \notin {"returned", "threw"}
    BY <2>2, <1>1, <1>3 DEF Stays, Running
  <2>3. CASE u = t /\ Pops(t)
    <3>1. top'[u] = calls[c].parent
      BY <2>3 DEF Pops, Typed
    <3>2. /\ calls[c].parent < c /\ calls[c].parent \in Nat
          /\ calls[calls[c].parent].place = "handler" /\ calls[calls[c].parent].by = t
      BY <3>1, <1>1, <1>2, <1>8 DEF Chain
    <3>3. calls[c].parent \in DOMAIN calls /\ calls[c].parent # c
      BY <3>1, <3>2, <1>1, <1>8 DEF Typed
    <3> QED BY <3>1, <3>2, <3>3, <1>3, <2>3 DEF Running
  <2> QED BY <2>1, <2>2, <2>3
<1>9. \A d \in DOMAIN calls' : calls'[d].parent # 0 => calls'[d].parent < d
  BY <1>3 DEF Chain
<1>10. ASSUME NEW d \in DOMAIN calls', Running(d)', calls'[d].parent # 0
       PROVE  calls'[calls'[d].parent].place = "handler" /\ calls'[calls'[d].parent].by = calls'[d].by
  <2>1. Running(d) /\ calls'[d].parent = calls[d].parent /\ calls[d].parent # c /\ d \in DOMAIN calls
    BY <1>10, <1>3, <1>4, <1>6
  <2>2. /\ calls[calls[d].parent].place = "handler" /\ calls[calls[d].parent].by = calls[d].by
        /\ calls[d].parent < d
    BY <2>1, <1>10 DEF Chain
  <2>3. calls[d].parent \in DOMAIN calls
    BY <2>1, <2>2, <1>2, <1>10 DEF Typed
  <2> QED BY <2>1, <2>2, <2>3, <1>3
<1>11. ASSUME NEW d \in DOMAIN calls', Running(d)'
       PROVE  calls'[d].parent # top'[calls'[d].by]
  <2>1. d \in DOMAIN calls /\ Running(d) /\ calls'[d].parent = calls[d].parent /\ calls'[d].by = calls[d].by
        /\ calls[d].by \in Threads
    BY <1>11, <1>2, <1>3, <1>6
  <2>2. calls[d].parent # top[calls[d].by]
    BY <2>1 DEF Chain
  <2>3. CASE calls[d].by # t \/ Stays(t)
    BY <2>1, <2>2, <2>3, <1>7 DEF Stays
  <2>4. CASE calls[d].by = t /\ Pops(t) /\ place \in {"returned", "threw"}
    <3>1. d # c
      BY <2>4, <1>3, <1>11 DEF Running
    <3>2. top'[t] = calls[c].parent
      BY <2>4 DEF Pops, Typed
    <3>3. calls[d].parent # calls[c].parent
      BY <2>1, <2>4, <3>1, <1>1 DEF Chain
    <3> QED BY <2>1, <2>4, <3>2, <3>3
  <2> QED BY <2>3, <2>4
<1>12. \A d, e \in DOMAIN calls' :
         (Running(d)' /\ Running(e)' /\ calls'[d].by = calls'[e].by
           /\ calls'[d].parent = calls'[e].parent) => d = e
  BY <1>3, <1>6 DEF Chain
<1> QED
  BY <1>8, <1>9, <1>10, <1>11, <1>12 DEF Chain, Running

\* What Publish appends.
LEMMA PublishAppends ==
  ASSUME Typed, NEW t \in Threads, NEW size \in Nat,
         calls' = Append(calls, NewCall(t, size))
  PROVE  /\ calls' \in Seq(Call)
         /\ Len(calls) + 1 \notin DOMAIN calls
         /\ DOMAIN calls' = DOMAIN calls \cup {Len(calls) + 1}
         /\ \A c \in DOMAIN calls : calls'[c] = calls[c] /\ c \in Nat /\ c < Len(calls) + 1
         /\ calls'[Len(calls) + 1] = NewCall(t, size)
         /\ Len(calls) + 1 \in Nat \ {0}
<1>1. NewCall(t, size) \in Call
  BY DEF NewCall, Call, CallPlaces, Typed
<1>2. calls \in Seq(Call)
  BY DEF Typed
<1> HIDE DEF NewCall
<1> QED
  BY <1>1, <1>2

LEMMA ChainPublish ==
  ASSUME Typed, Chain, NEW t \in Threads, NEW size \in Nat, Publish(t, size)
  PROVE  Chain'
<1> DEFINE n == Len(calls) + 1
<1>1. /\ calls' \in Seq(Call) /\ n \notin DOMAIN calls /\ n \in Nat \ {0}
      /\ DOMAIN calls' = DOMAIN calls \cup {n}
      /\ \A c \in DOMAIN calls : calls'[c] = calls[c] /\ c \in Nat /\ c < n
      /\ calls'[n] = NewCall(t, size)
  BY PublishAppends DEF Publish
<1>2. /\ calls'[n].by = t /\ calls'[n].parent = top[t]
      /\ calls'[n].place = IF size = 0 THEN "returned" ELSE "start"
  BY <1>1 DEF NewCall
<1>3. /\ top \in [Threads -> Nat] /\ (top[t] # 0 => calls[top[t]].place = "handler")
      /\ top' = IF size = 0 THEN top ELSE [top EXCEPT ![t] = n]
  BY DEF Publish, Typed, call
<1>4. \A c \in DOMAIN calls : calls[c].by \in Threads /\ calls[c].parent \in Nat
  BY CallFields DEF Typed
<1> HIDE DEF n
<1>5. \A u \in Threads : (top[u] # 0 => top[u] \in DOMAIN calls /\ calls[top[u]].by = u /\ Running(top[u]))
  BY DEF Chain
<1>6. ASSUME NEW u \in Threads, top'[u] # 0
      PROVE  /\ top'[u] \in DOMAIN calls' /\ calls'[top'[u]].by = u
             /\ calls'[top'[u]].place \notin {"returned", "threw"}
  <2>1. CASE u = t /\ size # 0
    BY <2>1, <1>1, <1>2, <1>3
  <2>2. CASE u # t \/ size = 0
    <3>1. top'[u] = top[u]
      BY <2>2, <1>3
    <3> QED BY <3>1, <1>1, <1>5, <1>6 DEF Running
  <2> QED BY <2>1, <2>2
<1>7. \A c \in DOMAIN calls' : calls'[c].parent # 0 => calls'[c].parent < c
  BY <1>1, <1>2, <1>3, <1>5 DEF Chain
<1>8. ASSUME NEW c \in DOMAIN calls', Running(c)', calls'[c].parent # 0
      PROVE  calls'[calls'[c].parent].place = "handler" /\ calls'[calls'[c].parent].by = calls'[c].by
  <2>1. CASE c = n
    BY <2>1, <1>1, <1>2, <1>3, <1>5, <1>8
  <2>2. CASE c # n
    <3>1. c \in DOMAIN calls /\ calls'[c] = calls[c] /\ Running(c)
      BY <2>2, <1>1, <1>8 DEF Running
    <3>2. /\ calls[calls[c].parent].place = "handler" /\ calls[calls[c].parent].by = calls[c].by
          /\ calls[c].parent < c /\ calls[c].parent \in Nat \ {0}
      BY <3>1, <1>4, <1>8 DEF Chain
    <3>3. calls[c].parent \in DOMAIN calls
      BY <3>1, <3>2 DEF Typed
    <3> QED BY <3>1, <3>2, <3>3, <1>1
  <2> QED BY <2>1, <2>2
<1>9. ASSUME NEW c \in DOMAIN calls', Running(c)'
      PROVE  calls'[c].parent # top'[calls'[c].by]
  <2>1. CASE c = n
    <3>1. size # 0
      BY <2>1, <1>2, <1>9 DEF Running
    <3>2. top'[t] = n /\ top[t] # n
      BY <3>1, <1>1, <1>3, <1>5
    <3> QED BY <2>1, <3>2, <1>2
  <2>2. CASE c # n
    <3>1. c \in DOMAIN calls /\ calls'[c] = calls[c] /\ Running(c)
      BY <2>2, <1>1, <1>9 DEF Running
    <3>2. calls[c].parent # top[calls[c].by] /\ calls[c].parent # n
      <4>1. calls[c].parent # 0 => calls[c].parent < c
        BY <3>1 DEF Chain
      <4>2. c < n /\ c \in Nat
        BY <3>1, <1>1
      <4>3. calls[c].parent # n
        BY <4>1, <4>2, <1>1, <3>1, <1>4
      <4> QED BY <3>1, <4>3 DEF Chain
    <3> QED BY <3>1, <3>2, <1>3, <1>4
  <2> QED BY <2>1, <2>2
<1>10. ASSUME NEW c \in DOMAIN calls', NEW d \in DOMAIN calls', Running(c)', Running(d)',
              calls'[c].by = calls'[d].by, calls'[c].parent = calls'[d].parent
       PROVE  c = d
  <2>1. CASE c # n /\ d # n
    BY <2>1, <1>1, <1>10 DEF Chain, Running
  <2>2. CASE c = n /\ d # n
    BY <2>2, <1>1, <1>2, <1>10 DEF Chain, Running
  <2>3. CASE c # n /\ d = n
    BY <2>3, <1>1, <1>2, <1>10 DEF Chain, Running
  <2> QED BY <2>1, <2>2, <2>3
<1> QED
  BY <1>6, <1>7, <1>8, <1>9, <1>10 DEF Chain, Running

-----------------------------------------------------------------------------
(* The order of a batch.                                                   *)

\* What was given stays given, so a call nobody moved is as far as it was.
LEMMA OthersGiven ==
  ASSUME NEW c, GivenSoFar(c), calls'[c] = calls[c],
         heard \subseteq heard', missing \subseteq missing'
  PROVE  GivenSoFar(c)'
<1>1. \A k, h : Given(c, k, h) => Given(c, k, h)'
  BY DEF Given
<1> QED
  BY <1>1 DEF GivenSoFar

\* The innermost call of a thread moves: whatever its new place claims was given.
LEMMA OrderStep ==
  ASSUME Typed, Order, NEW c \in DOMAIN calls,
         NEW place \in CallPlaces, NEW k \in Nat \ {0}, NEW h, NEW held,
         Changed(c, place, k, h, held), calls[c].k <= k,
         GivenSoFar(c)',
         heard \subseteq heard', missing \subseteq missing',
         \A x \in heard' \ heard : x[1] = c /\ x[2] <= k,
         \A x \in missing' \ missing : x[1] = c
  PROVE  Order'
<1>1. /\ DOMAIN calls' = DOMAIN calls /\ calls'[c].k = k
      /\ \A d \in DOMAIN calls : d # c => calls'[d] = calls[d]
  BY DEF Changed
<1>2. \A d \in DOMAIN calls' : GivenSoFar(d)'
  BY <1>1, OthersGiven DEF Order
<1>3. ASSUME NEW x \in heard'
      PROVE  x[1] \in DOMAIN calls' /\ x[2] <= calls'[x[1]].k
  <2>1. CASE x \notin heard
    BY <2>1, <1>1
  <2>2. CASE x \in heard
    <3>1. x[1] \in DOMAIN calls /\ x[2] <= calls[x[1]].k /\ x[2] \in Nat
      BY <2>2 DEF Order, Typed
    <3>2. calls[x[1]].k \in Nat /\ calls[c].k \in Nat
      BY <3>1, CallFields DEF Typed
    <3> QED BY <3>1, <3>2, <1>1
  <2> QED BY <2>1, <2>2
<1>4. \A x \in missing' : x[1] \in DOMAIN calls'
  BY <1>1 DEF Order
<1> QED
  BY <1>2, <1>3, <1>4 DEF Order

LEMMA OrderPublish ==
  ASSUME Typed, Order, NEW t \in Threads, NEW size \in Nat, Publish(t, size)
  PROVE  Order'
<1>1. PICK n \in Nat \ {0} :
      /\ n \notin DOMAIN calls
      /\ DOMAIN calls' = DOMAIN calls \cup {n}
      /\ \A c \in DOMAIN calls : calls'[c] = calls[c]
      /\ calls'[n] = NewCall(t, size)
      /\ heard' = heard /\ missing' = missing
  BY PublishAppends DEF Publish
<1>2. \A c \in DOMAIN calls : GivenSoFar(c)'
  BY <1>1, OthersGiven DEF Order
<1>3. /\ calls'[n].k = 1 /\ calls'[n].h = 1 /\ calls'[n].size = size
      /\ calls'[n].place = IF size = 0 THEN "returned" ELSE "start"
  BY <1>1 DEF NewCall
<1>4. GivenSoFar(n)'
  BY <1>3 DEF GivenSoFar
<1>5. \A c \in DOMAIN calls' : GivenSoFar(c)'
  BY <1>1, <1>2, <1>4
<1>6. \A x \in heard' : x[1] \in DOMAIN calls' /\ x[2] <= calls'[x[1]].k
  BY <1>1 DEF Order
<1>7. \A x \in missing' : x[1] \in DOMAIN calls'
  BY <1>1 DEF Order
<1> QED
  BY <1>5, <1>6, <1>7 DEF Order

-----------------------------------------------------------------------------
(* The sessions.                                                           *)

\* The session in the field of thread t is not in the hands of a handler when the thread
\* is neither inside that handler nor at the start of a call made from it.
LEMMA FieldNotHeld ==
  ASSUME Typed, Chain, Held, NEW t \in Threads, NEW c \in DOMAIN calls, c = top[t],
         calls[c].place = "dispatch"
  PROVE  \A d \in DOMAIN calls : session[t] \notin calls[d].held
<1> SUFFICES ASSUME NEW d \in DOMAIN calls, session[t] \in calls[d].held
             PROVE  FALSE
  OBVIOUS
<1>1. calls[d].held # {} /\ d # c
  BY DEF Held
<1>2. calls[c].place = "start"
  BY <1>1 DEF Held
<1> QED
  BY <1>2

\* A step of thread t that leaves the sessions alone. When it leaves the start of a call,
\* it is because that call ended.
LEMMA HeldStep ==
  ASSUME Typed, Chain, Held, NEW t \in Threads, NEW c \in DOMAIN calls, c = top[t],
         NEW place \in CallPlaces, NEW k, NEW h,
         Changed(c, place, k, h, {}),
         UNCHANGED sessions,
         Stays(t) \/ Pops(t),
         calls[c].place = "start" => Pops(t)
  PROVE  Held'
<1>1. /\ DOMAIN calls' = DOMAIN calls /\ calls'[c].held = {}
      /\ \A d \in DOMAIN calls : d # c => calls'[d] = calls[d]
      /\ opened' = opened /\ open' = open /\ session' = session
  BY DEF Changed, sessions
<1>2. calls[c].by = t /\ c # 0
  BY DEF Chain, Typed
<1>3. ASSUME NEW d \in DOMAIN calls, NEW u \in Threads, session[u] \in calls'[d].held
      PROVE  /\ calls'[d].by = u
             /\ \/ d = top'[u]
                \/ top'[u] # 0 /\ calls'[top'[u]].parent = d /\ calls'[top'[u]].place = "start"
  <2>1. d # c /\ calls'[d] = calls[d]
    BY <1>1, <1>3
  <2>2. /\ calls[d].by = u
        /\ \/ d = top[u]
           \/ top[u] # 0 /\ calls[top[u]].parent = d /\ calls[top[u]].place = "start"
    BY <2>1, <1>3 DEF Held
  <2>3. CASE u = t
    <3>1. calls[c].parent = d /\ calls[c].place = "start"
      BY <2>1, <2>2, <2>3
    <3>2. top'[t] = d
      BY <3>1 DEF Pops, Typed
    <3> QED BY <2>1, <2>2, <2>3, <3>2
  <2>4. CASE u # t
    <3>1. top'[u] = top[u] /\ (top[u] # 0 => top[u] \in DOMAIN calls /\ calls[top[u]].by = u)
      BY <2>4 DEF Stays, Pops, Typed, Chain
    <3>2. top[u] # c
      BY <2>4, <3>1, <1>2
    <3> QED BY <2>1, <2>2, <3>1, <3>2, <1>1
  <2> QED BY <2>3, <2>4
<1>4. \A d \in DOMAIN calls : calls'[d].held = {} \/ (calls'[d] = calls[d] /\ d # c)
  BY <1>1
<1>5. \A d \in DOMAIN calls' : calls'[d].held \subseteq open'
  BY <1>1, <1>4 DEF Held
<1>6. \A d \in DOMAIN calls' : calls'[d].held # {} => calls'[d].place = "handler"
  BY <1>1, <1>4 DEF Held
<1>7. \A d, e \in DOMAIN calls' : d # e => calls'[d].held \cap calls'[e].held = {}
  BY <1>1, <1>4 DEF Held
<1>8. /\ \A s \in open' : 1 <= s /\ s <= opened'
      /\ \A u \in Threads : session'[u] # 0 => session'[u] \in open'
      /\ \A u, v \in Threads : (session'[u] # 0 /\ session'[u] = session'[v]) => u = v
  BY <1>1 DEF Held
<1>9. \A d \in DOMAIN calls', u \in Threads : session'[u] \in calls'[d].held =>
        /\ calls'[d].by = u
        /\ \/ d = top'[u]
           \/ top'[u] # 0 /\ calls'[top'[u]].parent = d /\ calls'[top'[u]].place = "start"
  BY <1>1, <1>3
<1> QED
  BY <1>5, <1>6, <1>7, <1>8, <1>9 DEF Held

\* A step of thread t that opens a session, for nobody or for the handler it is in.
LEMMA HeldCreate ==
  ASSUME Typed, Chain, Held, NEW t \in Threads, NEW c \in DOMAIN calls, c = top[t],
         NEW place \in CallPlaces, NEW k, NEW h, NEW held,
         Changed(c, place, k, h, held),
         CreateSession(t),
         \/ held = {} /\ (Stays(t) \/ Pops(t))
         \/ held = calls[c].held \cup {session'[t]} /\ place = "handler" /\ Stays(t)
  PROVE  Held'
<1>1. /\ DOMAIN calls' = DOMAIN calls /\ calls'[c].held = held /\ calls'[c].place = place
      /\ calls'[c].by = calls[c].by
      /\ \A d \in DOMAIN calls : d # c => calls'[d] = calls[d]
  BY DEF Changed
<1>2. calls[c].by = t /\ c # 0
  BY DEF Chain, Typed
<1>3. /\ opened' = opened + 1 /\ opened \in Nat /\ open' = open \cup {opened + 1}
      /\ session \in [Threads -> Nat]
      /\ session'[t] = opened + 1
      /\ \A u \in Threads : u # t => session'[u] = session[u]
  BY DEF CreateSession, SetSession, Typed
<1>4. opened + 1 \notin open
  BY <1>3 DEF Held
<1>5. \A d \in DOMAIN calls : opened + 1 \notin calls[d].held /\ calls[d].held \subseteq open
  BY <1>4 DEF Held
<1>6. calls'[c].held \subseteq calls[c].held \cup {opened + 1}
  BY <1>1, <1>3
<1>7. \A d \in DOMAIN calls : d # c => calls'[d].held = calls[d].held /\ opened + 1 \notin calls'[d].held
  BY <1>1, <1>5
<1>8. \A u \in Threads : u # t => session'[u] # opened + 1
  BY <1>3, <1>4 DEF Held
<1>9. ASSUME NEW d \in DOMAIN calls, NEW u \in Threads, session'[u] \in calls'[d].held
      PROVE  /\ calls'[d].by = u
             /\ \/ d = top'[u]
                \/ top'[u] # 0 /\ calls'[top'[u]].parent = d /\ calls'[top'[u]].place = "start"
  <2>1. CASE u = t
    <3>1. d = c
      BY <1>3, <1>7, <1>9, <2>1
    <3>2. calls'[c].held # {}
      BY <3>1, <1>9
    <3>3. Stays(t)
      BY <3>2, <1>1
    <3> QED BY <3>1, <3>3, <2>1, <1>1, <1>2 DEF Stays
  <2>2. CASE u # t
    <3>1. session[u] \in calls[d].held
      BY <2>2, <1>3, <1>6, <1>7, <1>8, <1>9
    <3>2. /\ calls[d].by = u
          /\ \/ d = top[u]
             \/ top[u] # 0 /\ calls[top[u]].parent = d /\ calls[top[u]].place = "start"
      BY <3>1 DEF Held
    <3>3. d # c /\ calls'[d] = calls[d]
      BY <3>2, <2>2, <1>1, <1>2
    <3>4. top'[u] = top[u] /\ (top[u] # 0 => top[u] \in DOMAIN calls /\ calls[top[u]].by = u)
      BY <2>2 DEF Stays, Pops, Typed, Chain
    <3>5. top[u] # c
      BY <2>2, <3>4, <1>2
    <3> QED BY <3>2, <3>3, <3>4, <3>5, <1>1
  <2> QED BY <2>1, <2>2
<1>10. /\ \A s \in open' : 1 <= s /\ s <= opened'
       /\ \A u \in Threads : session'[u] # 0 => session'[u] \in open'
       /\ \A u, v \in Threads : (session'[u] # 0 /\ session'[u] = session'[v]) => u = v
  <2>1. \A s \in open : s \in Nat /\ 1 <= s /\ s <= opened
    BY DEF Held, Typed
  <2>2. \A s \in open' : 1 <= s /\ s <= opened'
    BY <2>1, <1>3
  <2> QED BY <2>2, <1>3, <1>8 DEF Held
<1>11. \A d \in DOMAIN calls' : calls'[d].held \subseteq open'
  BY <1>1, <1>3, <1>5, <1>6, <1>7
<1>12. \A d \in DOMAIN calls' : calls'[d].held # {} => calls'[d].place = "handler"
  BY <1>1, <1>7 DEF Held
<1>13. \A d, e \in DOMAIN calls' : d # e => calls'[d].held \cap calls'[e].held = {}
  <2>1. \A d, e \in DOMAIN calls : d # e => calls[d].held \cap calls[e].held = {}
    BY DEF Held
  <2> QED BY <2>1, <1>1, <1>6, <1>7
<1>14. \A d \in DOMAIN calls', u \in Threads : session'[u] \in calls'[d].held =>
        /\ calls'[d].by = u
        /\ \/ d = top'[u]
           \/ top'[u] # 0 /\ calls'[top'[u]].parent = d /\ calls'[top'[u]].place = "start"
  BY <1>1, <1>9
<1> QED
  BY <1>10, <1>11, <1>12, <1>13, <1>14 DEF Held

\* The end of an event disposes a session no handler holds.
LEMMA HeldDispose ==
  ASSUME Typed, Chain, Held, NEW t \in Threads, NEW c \in DOMAIN calls, c = top[t],
         calls[c].place = "dispatch",
         NEW place \in CallPlaces, NEW k, NEW h,
         Changed(c, place, k, h, {}),
         DisposeSession(t),
         Stays(t) \/ Pops(t)
  PROVE  Held'
<1>1. /\ DOMAIN calls' = DOMAIN calls /\ calls'[c].held = {}
      /\ \A d \in DOMAIN calls : d # c => calls'[d] = calls[d]
  BY DEF Changed
<1>2. calls[c].by = t /\ c # 0
  BY DEF Chain, Typed
<1>3. /\ opened' = opened /\ open' = open \ {session[t]}
      /\ session \in [Threads -> Nat] /\ session'[t] = 0
      /\ \A u \in Threads : u # t => session'[u] = session[u]
  BY DEF DisposeSession, SetSession, Typed
<1>4. \A d \in DOMAIN calls : session[t] \notin calls[d].held
  BY FieldNotHeld
<1>5. \A d \in DOMAIN calls : calls[d].held \subseteq open
  BY DEF Held
<1>6. 0 \notin open
  BY DEF Held
<1>7. \A d \in DOMAIN calls : calls'[d].held = {} \/ (calls'[d] = calls[d] /\ d # c)
  BY <1>1
<1>8. ASSUME NEW d \in DOMAIN calls, NEW u \in Threads, session'[u] \in calls'[d].held
      PROVE  /\ calls'[d].by = u
             /\ \/ d = top'[u]
                \/ top'[u] # 0 /\ calls'[top'[u]].parent = d /\ calls'[top'[u]].place = "start"
  <2>1. d # c /\ calls'[d] = calls[d] /\ u # t
    BY <1>3, <1>5, <1>6, <1>7, <1>8
  <2>2. /\ calls[d].by = u
        /\ \/ d = top[u]
           \/ top[u] # 0 /\ calls[top[u]].parent = d /\ calls[top[u]].place = "start"
    BY <2>1, <1>3, <1>8 DEF Held
  <2>3. top'[u] = top[u] /\ (top[u] # 0 => top[u] \in DOMAIN calls /\ calls[top[u]].by = u)
    BY <2>1 DEF Stays, Pops, Typed, Chain
  <2>4. top[u] # c
    BY <2>1, <2>3, <1>2
  <2> QED BY <2>1, <2>2, <2>3, <2>4, <1>1
<1>9. /\ \A s \in open' : 1 <= s /\ s <= opened'
      /\ \A u, v \in Threads : (session'[u] # 0 /\ session'[u] = session'[v]) => u = v
  BY <1>3 DEF Held
<1>10. ASSUME NEW u \in Threads, session'[u] # 0
       PROVE  session'[u] \in open'
  <2>1. u # t /\ session'[u] = session[u]
    BY <1>3, <1>10
  <2>2. session[u] \in open /\ session[u] # session[t]
    BY <2>1, <1>10 DEF Held
  <2> QED BY <2>1, <2>2, <1>3
<1>11. \A d \in DOMAIN calls' : calls'[d].held \subseteq open'
  <2>1. \A d \in DOMAIN calls : calls[d].held \subseteq open \ {session[t]}
    BY <1>4, <1>5
  <2> QED BY <2>1, <1>1, <1>3, <1>7
<1>12. \A d \in DOMAIN calls' : calls'[d].held # {} => calls'[d].place = "handler"
  BY <1>1, <1>7 DEF Held
<1>13. \A d, e \in DOMAIN calls' : d # e => calls'[d].held \cap calls'[e].held = {}
  BY <1>1, <1>7 DEF Held
<1>14. \A d \in DOMAIN calls', u \in Threads : session'[u] \in calls'[d].held =>
        /\ calls'[d].by = u
        /\ \/ d = top'[u]
           \/ top'[u] # 0 /\ calls'[top'[u]].parent = d /\ calls'[top'[u]].place = "start"
  BY <1>1, <1>8
<1> QED
  BY <1>9, <1>10, <1>11, <1>12, <1>13, <1>14 DEF Held

LEMMA HeldPublish ==
  ASSUME Typed, Chain, Held, NEW t \in Threads, NEW size \in Nat, Publish(t, size)
  PROVE  Held'
<1>1. PICK n \in Nat \ {0} :
      /\ n = Len(calls) + 1
      /\ n \notin DOMAIN calls
      /\ DOMAIN calls' = DOMAIN calls \cup {n}
      /\ \A c \in DOMAIN calls : calls'[c] = calls[c]
      /\ calls'[n] = NewCall(t, size)
  BY PublishAppends DEF Publish
<1>2. /\ calls'[n].by = t /\ calls'[n].parent = top[t] /\ calls'[n].held = {}
      /\ size # 0 => calls'[n].place = "start"
  BY <1>1 DEF NewCall
<1>3. /\ top \in [Threads -> Nat] /\ (top[t] # 0 => calls[top[t]].place = "handler")
      /\ top' = IF size = 0 THEN top ELSE [top EXCEPT ![t] = n]
      /\ opened' = opened /\ open' = open /\ session' = session
  BY <1>1 DEF Publish, Typed, call, sessions
<1>4. \A u \in Threads : top[u] # 0 => top[u] \in DOMAIN calls
  BY DEF Chain
<1>5. ASSUME NEW d \in DOMAIN calls', NEW u \in Threads, session'[u] \in calls'[d].held
      PROVE  /\ calls'[d].by = u
             /\ \/ d = top'[u]
                \/ top'[u] # 0 /\ calls'[top'[u]].parent = d /\ calls'[top'[u]].place = "start"
  <2>1. d \in DOMAIN calls /\ calls'[d] = calls[d] /\ session[u] \in calls[d].held
    BY <1>1, <1>2, <1>3, <1>5
  <2>2. /\ calls[d].by = u
        /\ \/ d = top[u]
           \/ top[u] # 0 /\ calls[top[u]].parent = d /\ calls[top[u]].place = "start"
    BY <2>1 DEF Held
  <2>3. CASE u # t \/ size = 0
    <3>1. top'[u] = top[u]
      BY <2>3, <1>3
    <3> QED BY <3>1, <2>1, <2>2, <1>1, <1>4
  <2>4. CASE u = t /\ size # 0
    <3>1. d = top[t]
      BY <2>2, <2>4, <1>3
    <3> QED BY <3>1, <2>1, <2>2, <2>4, <1>2, <1>3
  <2> QED BY <2>3, <2>4
<1>6. \A d \in DOMAIN calls' : calls'[d].held = {} \/ (d \in DOMAIN calls /\ calls'[d] = calls[d])
  BY <1>1, <1>2
<1>7. \A d \in DOMAIN calls' : calls'[d].held \subseteq open'
  BY <1>3, <1>6 DEF Held
<1>8. \A d \in DOMAIN calls' : calls'[d].held # {} => calls'[d].place = "handler"
  BY <1>6 DEF Held
<1>9. \A d, e \in DOMAIN calls' : d # e => calls'[d].held \cap calls'[e].held = {}
  BY <1>6 DEF Held
<1> QED
  BY <1>3, <1>5, <1>7, <1>8, <1>9 DEF Held

-----------------------------------------------------------------------------
(* One lemma per action: what it does to the call it moves, and then the   *)
(* parts of the invariant by the lemmas above.                             *)

\* The innermost call of a thread inside Publish.
LEMMA Innermost ==
  ASSUME Typed, Chain, NEW t \in Threads, top[t] # 0
  PROVE  \E c \in DOMAIN calls :
           /\ c = top[t] /\ call(t) = calls[c] /\ calls[c].by = t /\ Running(c)
           /\ calls[c] \in Call
           /\ calls[c].k \in Nat \ {0} /\ calls[c].h \in Nat \ {0} /\ calls[c].size \in Nat
           /\ calls[c].parent \in Nat /\ calls[c].held \in SUBSET Nat
<1>1. top[t] \in DOMAIN calls /\ calls[top[t]].by = t /\ Running(top[t])
  BY DEF Chain
<1> QED
  BY <1>1, CallFields DEF Typed, call

LEMMA TypedStep ==
  ASSUME Typed, NEW t \in Threads, NEW c \in DOMAIN calls, c = top[t],
         NEW place, NEW k, NEW h, NEW held, Changed(c, place, k, h, held),
         Stays(t) \/ Pops(t)
  PROVE  calls' \in Seq(Call) /\ top' \in [Threads -> Nat]
<1>1. calls[c].parent \in Nat
  BY CallFields DEF Typed
<1> QED
  BY <1>1 DEF Changed, Stays, Pops, Typed

LEMMA TypedSessions ==
  ASSUME Typed, NEW t \in Threads,
         CreateSession(t) \/ DisposeSession(t) \/ UNCHANGED sessions
  PROVE  opened' \in Nat /\ open' \in SUBSET Nat /\ session' \in [Threads -> Nat]
<1>1. CASE CreateSession(t)
  BY <1>1 DEF CreateSession, SetSession, Typed
<1>2. CASE DisposeSession(t)
  BY <1>2 DEF DisposeSession, SetSession, Typed
<1>3. CASE UNCHANGED sessions
  BY <1>3 DEF sessions, Typed
<1> QED BY <1>1, <1>2, <1>3

LEMMA StepStartModules ==
  ASSUME Inv, NEW t \in Threads, StartModules(t)
  PROVE  Inv'
<1>1. /\ Typed /\ Chain /\ Order /\ Held /\ calls \in Seq(Call)
  BY DEF Inv, Typed
<1>2. PICK c \in DOMAIN calls :
        /\ c = top[t] /\ call(t) = calls[c] /\ calls[c].by = t /\ Running(c)
        /\ calls[c] \in Call
        /\ calls[c].k \in Nat \ {0} /\ calls[c].h \in Nat \ {0} /\ calls[c].size \in Nat
        /\ calls[c].parent \in Nat /\ calls[c].held \in SUBSET Nat
  BY <1>1, Innermost DEF StartModules, At
<1>3. /\ calls[c].held = {} /\ calls[c].place = "start" /\ CreateSession(t) /\ Stays(t)
      /\ heard' = heard /\ missing' = missing /\ running' = running
  BY <1>1, <1>2 DEF StartModules, At, Held, Stays
<1>4. Changed(c, "dispatch", calls[c].k, 1, {})
  <2>1. calls' = [calls EXCEPT ![c].place = "dispatch", ![c].h = 1]
    BY <1>2 DEF StartModules, Move
  <2>2. Changed(c, "dispatch", calls[c].k, 1, calls[c].held)
    <3>1. "dispatch" \in CallPlaces /\ 1 \in Nat \ {0}
      BY DEF CallPlaces
    <3> QED BY <1>1, <2>1, <3>1, MoveChanges
  <2> QED BY <1>3, <2>2
<1>5. Typed'
  BY <1>1, <1>2, <1>3, <1>4, TypedStep, TypedSessions DEF Typed
<1>6. Chain'
  BY <1>1, <1>2, <1>3, <1>4, ChainStep DEF CallPlaces
<1>7. GivenSoFar(c)'
  BY <1>1, <1>2, <1>3, <1>4 DEF Order, GivenSoFar, Given, Changed
<1>8. Order'
  BY <1>1, <1>2, <1>3, <1>4, <1>7, OrderStep DEF CallPlaces
<1>9. Held'
  BY <1>1, <1>2, <1>3, <1>4, HeldCreate DEF CallPlaces
<1> QED
  BY <1>5, <1>6, <1>8, <1>9 DEF Inv

LEMMA StepStartModuleThrows ==
  ASSUME Inv, NEW t \in Threads, StartModuleThrows(t)
  PROVE  Inv'
<1>1. /\ Typed /\ Chain /\ Order /\ Held /\ calls \in Seq(Call)
  BY DEF Inv, Typed
<1>2. PICK c \in DOMAIN calls :
        /\ c = top[t] /\ call(t) = calls[c] /\ calls[c].by = t /\ Running(c)
        /\ calls[c] \in Call
        /\ calls[c].k \in Nat \ {0} /\ calls[c].h \in Nat \ {0} /\ calls[c].size \in Nat
        /\ calls[c].parent \in Nat /\ calls[c].held \in SUBSET Nat
  BY <1>1, Innermost DEF StartModuleThrows, At
<1>3. /\ calls[c].held = {} /\ calls[c].place = "start" /\ Pops(t)
      /\ CreateSession(t) \/ UNCHANGED sessions
      /\ heard' = heard /\ missing' = missing /\ running' = running
  BY <1>1, <1>2 DEF StartModuleThrows, At, End, Held, Pops
<1>4. Changed(c, "threw", calls[c].k, calls[c].h, {})
  <2>1. calls' = [calls EXCEPT ![c].place = "threw", ![c].held = {}]
    BY <1>2 DEF StartModuleThrows, End
  <2>2. Changed(c, "threw", calls[c].k, calls[c].h, {})
    <3>1. "threw" \in CallPlaces
      BY EventBusAssumption DEF CallPlaces
    <3> QED BY <1>1, <1>2, <2>1, <3>1, EndChanges
  <2> QED BY <1>3, <2>2
<1>5. Typed'
  BY <1>1, <1>2, <1>3, <1>4, TypedStep, TypedSessions DEF Typed
<1>6. Chain'
  BY <1>1, <1>2, <1>3, <1>4, ChainStep DEF CallPlaces
<1>7. GivenSoFar(c)'
  BY <1>1, <1>2, <1>3, <1>4 DEF Order, GivenSoFar, Given, Changed
<1>8. Order'
  BY <1>1, <1>2, <1>3, <1>4, <1>7, OrderStep DEF CallPlaces
<1>9. Held'
  <2>1. CASE CreateSession(t)
    BY <1>1, <1>2, <1>3, <1>4, <2>1, HeldCreate DEF CallPlaces
  <2>2. CASE UNCHANGED sessions
    BY <1>1, <1>2, <1>3, <1>4, <2>2, HeldStep DEF CallPlaces
  <2> QED BY <1>3, <2>1, <2>2
<1> QED
  BY <1>5, <1>6, <1>8, <1>9 DEF Inv

LEMMA StepResolveFails ==
  ASSUME Inv, NEW t \in Threads, ResolveFails(t)
  PROVE  Inv'
<1>1. /\ Typed /\ Chain /\ Order /\ Held /\ calls \in Seq(Call)
  BY DEF Inv, Typed
<1>2. PICK c \in DOMAIN calls :
        /\ c = top[t] /\ call(t) = calls[c] /\ calls[c].by = t /\ Running(c)
        /\ calls[c] \in Call
        /\ calls[c].k \in Nat \ {0} /\ calls[c].h \in Nat \ {0} /\ calls[c].size \in Nat
        /\ calls[c].parent \in Nat /\ calls[c].held \in SUBSET Nat
  BY <1>1, Innermost DEF ResolveFails, At
<1>3. /\ calls[c].held = {} /\ calls[c].place = "dispatch" /\ Stays(t) /\ UNCHANGED sessions
      /\ heard' = heard /\ missing' = missing \cup {<<c, calls[c].k>>} /\ running' = running
  BY <1>1, <1>2 DEF ResolveFails, At, Held, Stays
<1>4. Changed(c, "dispatch", calls[c].k, Handlers + 1, {})
  <2>1. calls' = [calls EXCEPT ![c].place = "dispatch", ![c].h = Handlers + 1]
    BY <1>2 DEF ResolveFails, Move
  <2>2. Changed(c, "dispatch", calls[c].k, Handlers + 1, calls[c].held)
    <3>1. "dispatch" \in CallPlaces /\ Handlers + 1 \in Nat \ {0}
      BY EventBusAssumption DEF CallPlaces
    <3> QED BY <1>1, <1>2, <2>1, <3>1, MoveChanges
  <2> QED BY <1>3, <2>2
<1>5. Typed'
  <2>1. c \in Nat
    BY <1>1
  <2>2. missing' \in SUBSET (Nat \X (Nat \ {0}))
    BY <1>1, <1>2, <1>3, <2>1 DEF Typed
  <2>3. calls' \in Seq(Call) /\ top' \in [Threads -> Nat]
    BY <1>1, <1>2, <1>3, <1>4, TypedStep
  <2> QED BY <1>1, <1>2, <1>3, <2>2, <2>3, TypedSessions DEF Typed
<1>6. Chain'
  BY <1>1, <1>2, <1>3, <1>4, ChainStep DEF CallPlaces
<1>7. GivenSoFar(c)'
  BY <1>1, <1>2, <1>3, <1>4 DEF Order, GivenSoFar, Given, Changed
<1>8. Order'
  BY <1>1, <1>2, <1>3, <1>4, <1>7, OrderStep DEF CallPlaces
<1>9. Held'
  BY <1>1, <1>2, <1>3, <1>4, HeldStep DEF CallPlaces
<1> QED
  BY <1>5, <1>6, <1>8, <1>9 DEF Inv

LEMMA StepEnterHandler ==
  ASSUME Inv, NEW t \in Threads, EnterHandler(t)
  PROVE  Inv'
<1>1. /\ Typed /\ Chain /\ Order /\ Held /\ calls \in Seq(Call)
  BY DEF Inv, Typed
<1>2. PICK c \in DOMAIN calls :
        /\ c = top[t] /\ call(t) = calls[c] /\ calls[c].by = t /\ Running(c)
        /\ calls[c] \in Call
        /\ calls[c].k \in Nat \ {0} /\ calls[c].h \in Nat \ {0} /\ calls[c].size \in Nat
        /\ calls[c].parent \in Nat /\ calls[c].held \in SUBSET Nat
  BY <1>1, Innermost DEF EnterHandler, At
<1>3. /\ calls[c].held = {} /\ calls[c].place = "dispatch" /\ Stays(t) /\ UNCHANGED sessions
      /\ heard' = heard \cup {<<c, calls[c].k, calls[c].h>>} /\ calls[c].h <= Handlers
      /\ missing' = missing /\ running' = running
  BY <1>1, <1>2 DEF EnterHandler, At, Held, Stays
<1>4. Changed(c, "handler", calls[c].k, calls[c].h, {})
  <2>1. calls' = [calls EXCEPT ![c].place = "handler", ![c].h = calls[c].h]
    BY <1>2 DEF EnterHandler, Move
  <2>2. Changed(c, "handler", calls[c].k, calls[c].h, calls[c].held)
    <3>1. "handler" \in CallPlaces
      BY EventBusAssumption DEF CallPlaces
    <3> QED BY <1>1, <1>2, <2>1, <3>1, MoveChanges
  <2> QED BY <1>3, <2>2
<1>5. Typed'
  <2>1. c \in Nat
    BY <1>1
  <2>2. heard' \in SUBSET (Nat \X (Nat \ {0}) \X (1..Handlers))
    BY <1>1, <1>2, <1>3, <2>1, EventBusAssumption DEF Typed
  <2>3. calls' \in Seq(Call) /\ top' \in [Threads -> Nat]
    BY <1>1, <1>2, <1>3, <1>4, TypedStep
  <2> QED BY <1>1, <1>2, <1>3, <2>2, <2>3, TypedSessions DEF Typed
<1>6. Chain'
  BY <1>1, <1>2, <1>3, <1>4, ChainStep DEF CallPlaces
<1>7. GivenSoFar(c)'
  <2>1. \A k, h : Given(c, k, h) => Given(c, k, h)'
    BY <1>3 DEF Given
  <2>2. PICK at, i \in Nat : at = calls[c].k /\ i = calls[c].h
    BY <1>2
  <2>3. Given(c, at, i)'
    BY <1>3, <2>2 DEF Given
  <2>4. /\ calls'[c].k = at /\ calls'[c].h = i /\ calls'[c].place = "handler"
    BY <1>4, <2>2 DEF Changed
  <2>5. GivenSoFar(c) /\ calls[c].place = "dispatch"
    BY <1>1, <1>3 DEF Order
  <2>6. \A h \in Nat : (1 <= h /\ h <= Handlers /\ h < i) => Given(c, at, h)'
    BY <2>1, <2>2, <2>5 DEF GivenSoFar
  <2>7. \A h \in Nat : (1 <= h /\ h <= Handlers /\ h <= i) => Given(c, at, h)'
    BY <2>3, <2>6
  <2>8. \A k, h \in Nat : (1 <= k /\ k < at /\ 1 <= h /\ h <= Handlers) => Given(c, k, h)'
    BY <2>1, <2>2, <2>5 DEF GivenSoFar
  <2> QED BY <2>4, <2>7, <2>8 DEF GivenSoFar
<1>8. Order'
  BY <1>1, <1>2, <1>3, <1>4, <1>7, OrderStep DEF CallPlaces
<1>9. Held'
  BY <1>1, <1>2, <1>3, <1>4, HeldStep DEF CallPlaces
<1> QED
  BY <1>5, <1>6, <1>8, <1>9 DEF Inv

LEMMA StepGetCurrentSession ==
  ASSUME Inv, NEW t \in Threads, GetCurrentSession(t)
  PROVE  Inv'
<1>1. /\ Typed /\ Chain /\ Order /\ Held /\ calls \in Seq(Call)
  BY DEF Inv, Typed
<1>2. PICK c \in DOMAIN calls :
        /\ c = top[t] /\ call(t) = calls[c] /\ calls[c].by = t /\ Running(c)
        /\ calls[c] \in Call
        /\ calls[c].k \in Nat \ {0} /\ calls[c].h \in Nat \ {0} /\ calls[c].size \in Nat
        /\ calls[c].parent \in Nat /\ calls[c].held \in SUBSET Nat
  BY <1>1, Innermost DEF GetCurrentSession, At
<1>3. /\ calls[c].place = "handler" /\ Stays(t) /\ CreateSession(t) /\ session'[t] \in Nat
      /\ heard' = heard /\ missing' = missing /\ running' = running
  BY <1>1, <1>2 DEF GetCurrentSession, At, Stays, CreateSession, SetSession, Typed
<1>4. Changed(c, "handler", calls[c].k, calls[c].h, calls[c].held \cup {session'[t]})
  <2>1. calls' = [calls EXCEPT ![c].held = @ \cup {session'[t]}]
    BY <1>2 DEF GetCurrentSession
  <2>2. PICK s \in Nat : s = session'[t]
    BY <1>3
  <2>3. Changed(c, calls[c].place, calls[c].k, calls[c].h, calls[c].held \cup {s})
    BY <1>1, <2>1, <2>2, HeldChanges
  <2> QED BY <1>3, <2>2, <2>3
<1>5. Typed'
  BY <1>1, <1>2, <1>3, <1>4, TypedStep, TypedSessions DEF Typed
<1>6. Chain'
  BY <1>1, <1>2, <1>3, <1>4, ChainStep DEF CallPlaces
<1>7. GivenSoFar(c)'
  BY <1>1, <1>2, <1>3, <1>4 DEF Order, GivenSoFar, Given, Changed
<1>8. Order'
  BY <1>1, <1>2, <1>3, <1>4, <1>7, OrderStep DEF CallPlaces
<1>9. Held'
  BY <1>1, <1>2, <1>3, <1>4, HeldCreate DEF CallPlaces
<1> QED
  BY <1>5, <1>6, <1>8, <1>9 DEF Inv

LEMMA StepLeaveHandler ==
  ASSUME Inv, NEW t \in Threads, LeaveHandler(t)
  PROVE  Inv'
<1>1. /\ Typed /\ Chain /\ Order /\ Held /\ calls \in Seq(Call)
  BY DEF Inv, Typed
<1>2. PICK c \in DOMAIN calls :
        /\ c = top[t] /\ call(t) = calls[c] /\ calls[c].by = t /\ Running(c)
        /\ calls[c] \in Call
        /\ calls[c].k \in Nat \ {0} /\ calls[c].h \in Nat \ {0} /\ calls[c].size \in Nat
        /\ calls[c].parent \in Nat /\ calls[c].held \in SUBSET Nat
  BY <1>1, Innermost DEF LeaveHandler, At
<1>3. /\ calls[c].place = "handler" /\ Stays(t) /\ UNCHANGED sessions
      /\ heard' = heard /\ missing' = missing /\ running' = running
  BY <1>1, <1>2 DEF LeaveHandler, At, Stays
<1>4. Changed(c, "dispatch", calls[c].k, calls[c].h + 1, {})
  <2>1. calls' = [calls EXCEPT ![c].place = "dispatch", ![c].h = @ + 1, ![c].held = {}]
    BY <1>2 DEF LeaveHandler
  <2>2. Changed(c, "dispatch", calls[c].k, calls[c].h + 1, {})
    <3>1. "dispatch" \in CallPlaces
      BY EventBusAssumption DEF CallPlaces
    <3> QED BY <1>1, <1>2, <2>1, <3>1, LeaveChanges
  <2> QED BY <1>3, <2>2
<1>5. Typed'
  BY <1>1, <1>2, <1>3, <1>4, TypedStep, TypedSessions DEF Typed
<1>6. Chain'
  BY <1>1, <1>2, <1>3, <1>4, ChainStep DEF CallPlaces
<1>7. GivenSoFar(c)'
  BY <1>1, <1>2, <1>3, <1>4 DEF Order, GivenSoFar, Given, Changed
<1>8. Order'
  BY <1>1, <1>2, <1>3, <1>4, <1>7, OrderStep DEF CallPlaces
<1>9. Held'
  BY <1>1, <1>2, <1>3, <1>4, HeldStep DEF CallPlaces
<1> QED
  BY <1>5, <1>6, <1>8, <1>9 DEF Inv

LEMMA StepHandlerThrows ==
  ASSUME Inv, NEW t \in Threads, HandlerThrows(t)
  PROVE  Inv'
<1>1. /\ Typed /\ Chain /\ Order /\ Held /\ calls \in Seq(Call)
  BY DEF Inv, Typed
<1>2. PICK c \in DOMAIN calls :
        /\ c = top[t] /\ call(t) = calls[c] /\ calls[c].by = t /\ Running(c)
        /\ calls[c] \in Call
        /\ calls[c].k \in Nat \ {0} /\ calls[c].h \in Nat \ {0} /\ calls[c].size \in Nat
        /\ calls[c].parent \in Nat /\ calls[c].held \in SUBSET Nat
  BY <1>1, Innermost DEF HandlerThrows, At
<1>3. /\ calls[c].place = "handler" /\ Pops(t) /\ UNCHANGED sessions
      /\ heard' = heard /\ missing' = missing /\ running' = running
  BY <1>1, <1>2 DEF HandlerThrows, At, End, Pops
<1>4. Changed(c, "threw", calls[c].k, calls[c].h, {})
  <2>1. calls' = [calls EXCEPT ![c].place = "threw", ![c].held = {}]
    BY <1>2 DEF HandlerThrows, End
  <2>2. Changed(c, "threw", calls[c].k, calls[c].h, {})
    <3>1. "threw" \in CallPlaces
      BY EventBusAssumption DEF CallPlaces
    <3> QED BY <1>1, <1>2, <2>1, <3>1, EndChanges
  <2> QED BY <1>3, <2>2
<1>5. Typed'
  BY <1>1, <1>2, <1>3, <1>4, TypedStep, TypedSessions DEF Typed
<1>6. Chain'
  BY <1>1, <1>2, <1>3, <1>4, ChainStep DEF CallPlaces
<1>7. GivenSoFar(c)'
  BY <1>1, <1>2, <1>3, <1>4 DEF Order, GivenSoFar, Given, Changed
<1>8. Order'
  BY <1>1, <1>2, <1>3, <1>4, <1>7, OrderStep DEF CallPlaces
<1>9. Held'
  BY <1>1, <1>2, <1>3, <1>4, HeldStep DEF CallPlaces
<1> QED
  BY <1>5, <1>6, <1>8, <1>9 DEF Inv

LEMMA StepCompleteModuleThrows ==
  ASSUME Inv, NEW t \in Threads, CompleteModuleThrows(t)
  PROVE  Inv'
<1>1. /\ Typed /\ Chain /\ Order /\ Held /\ calls \in Seq(Call)
  BY DEF Inv, Typed
<1>2. PICK c \in DOMAIN calls :
        /\ c = top[t] /\ call(t) = calls[c] /\ calls[c].by = t /\ Running(c)
        /\ calls[c] \in Call
        /\ calls[c].k \in Nat \ {0} /\ calls[c].h \in Nat \ {0} /\ calls[c].size \in Nat
        /\ calls[c].parent \in Nat /\ calls[c].held \in SUBSET Nat
  BY <1>1, Innermost DEF CompleteModuleThrows, Dispatched, At
<1>3. /\ calls[c].held = {} /\ calls[c].place = "dispatch" /\ Pops(t)
      /\ DisposeSession(t) \/ UNCHANGED sessions
      /\ heard' = heard /\ missing' = missing /\ running' = running
  BY <1>1, <1>2 DEF CompleteModuleThrows, Dispatched, At, End, Held, Pops
<1>4. Changed(c, "threw", calls[c].k, calls[c].h, {})
  <2>1. calls' = [calls EXCEPT ![c].place = "threw", ![c].held = {}]
    BY <1>2 DEF CompleteModuleThrows, End
  <2>2. Changed(c, "threw", calls[c].k, calls[c].h, {})
    <3>1. "threw" \in CallPlaces
      BY EventBusAssumption DEF CallPlaces
    <3> QED BY <1>1, <1>2, <2>1, <3>1, EndChanges
  <2> QED BY <1>3, <2>2
<1>5. Typed'
  BY <1>1, <1>2, <1>3, <1>4, TypedStep, TypedSessions DEF Typed
<1>6. Chain'
  BY <1>1, <1>2, <1>3, <1>4, ChainStep DEF CallPlaces
<1>7. GivenSoFar(c)'
  BY <1>1, <1>2, <1>3, <1>4 DEF Order, GivenSoFar, Given, Changed
<1>8. Order'
  BY <1>1, <1>2, <1>3, <1>4, <1>7, OrderStep DEF CallPlaces
<1>9. Held'
  <2>1. CASE DisposeSession(t)
    BY <1>1, <1>2, <1>3, <1>4, <2>1, HeldDispose DEF CallPlaces
  <2>2. CASE UNCHANGED sessions
    BY <1>1, <1>2, <1>3, <1>4, <2>2, HeldStep DEF CallPlaces
  <2> QED BY <1>3, <2>1, <2>2
<1> QED
  BY <1>5, <1>6, <1>8, <1>9 DEF Inv

LEMMA StepNextEvent ==
  ASSUME Inv, NEW t \in Threads, CompleteModules(t), call(t).k < call(t).size
  PROVE  Inv'
<1>1. /\ Typed /\ Chain /\ Order /\ Held /\ calls \in Seq(Call)
  BY DEF Inv, Typed
<1>2. PICK c \in DOMAIN calls :
        /\ c = top[t] /\ call(t) = calls[c] /\ calls[c].by = t /\ Running(c)
        /\ calls[c] \in Call
        /\ calls[c].k \in Nat \ {0} /\ calls[c].h \in Nat \ {0} /\ calls[c].size \in Nat
        /\ calls[c].parent \in Nat /\ calls[c].held \in SUBSET Nat
  BY <1>1, Innermost DEF CompleteModules, Dispatched, At
<1>3. /\ calls[c].held = {} /\ calls[c].place = "dispatch" /\ calls[c].h > Handlers
      /\ DisposeSession(t) /\ Stays(t) /\ calls[c].k < calls[c].size
      /\ heard' = heard /\ missing' = missing /\ running' = running
  BY <1>1, <1>2 DEF CompleteModules, Dispatched, At, Held, Stays
<1>4. Changed(c, "start", calls[c].k + 1, calls[c].h, {})
  <2>1. calls' = [calls EXCEPT ![c].place = "start", ![c].k = @ + 1]
    BY <1>2, <1>3 DEF CompleteModules
  <2>2. Changed(c, "start", calls[c].k + 1, calls[c].h, calls[c].held)
    <3>1. "start" \in CallPlaces
      BY EventBusAssumption DEF CallPlaces
    <3> QED BY <1>1, <1>2, <2>1, <3>1, NextChanges
  <2> QED BY <1>3, <2>2
<1>5. Typed'
  BY <1>1, <1>2, <1>3, <1>4, TypedStep, TypedSessions DEF Typed
<1>6. Chain'
  BY <1>1, <1>2, <1>3, <1>4, ChainStep DEF CallPlaces
<1>7. GivenSoFar(c)'
  <2>1. \A h \in Nat : (1 <= h /\ h <= Handlers) => Given(c, calls[c].k, h)
    BY <1>1, <1>2, <1>3, EventBusAssumption DEF Order, GivenSoFar
  <2>2. \A k, h \in Nat : (1 <= k /\ k <= calls[c].k /\ 1 <= h /\ h <= Handlers) => Given(c, k, h)
    BY <1>1, <1>2, <2>1 DEF Order, GivenSoFar
  <2>3. \A k, h : Given(c, k, h) => Given(c, k, h)'
    BY <1>3 DEF Given
  <2>4. \A k, h \in Nat : (1 <= k /\ k <= calls[c].k /\ 1 <= h /\ h <= Handlers) => Given(c, k, h)'
    BY <2>2, <2>3
  <2> QED BY <1>2, <1>3, <1>4, <2>4 DEF GivenSoFar, Changed
<1>8. Order'
  BY <1>1, <1>2, <1>3, <1>4, <1>7, OrderStep DEF CallPlaces
<1>9. Held'
  BY <1>1, <1>2, <1>3, <1>4, HeldDispose DEF CallPlaces
<1> QED
  BY <1>5, <1>6, <1>8, <1>9 DEF Inv

LEMMA StepReturn ==
  ASSUME Inv, NEW t \in Threads, CompleteModules(t), ~(call(t).k < call(t).size)
  PROVE  Inv'
<1>1. /\ Typed /\ Chain /\ Order /\ Held /\ calls \in Seq(Call)
  BY DEF Inv, Typed
<1>2. PICK c \in DOMAIN calls :
        /\ c = top[t] /\ call(t) = calls[c] /\ calls[c].by = t /\ Running(c)
        /\ calls[c] \in Call
        /\ calls[c].k \in Nat \ {0} /\ calls[c].h \in Nat \ {0} /\ calls[c].size \in Nat
        /\ calls[c].parent \in Nat /\ calls[c].held \in SUBSET Nat
  BY <1>1, Innermost DEF CompleteModules, Dispatched, At
<1>3. /\ calls[c].held = {} /\ calls[c].place = "dispatch" /\ calls[c].h > Handlers
      /\ DisposeSession(t) /\ Pops(t) /\ ~(calls[c].k < calls[c].size)
      /\ heard' = heard /\ missing' = missing /\ running' = running
  BY <1>1, <1>2 DEF CompleteModules, Dispatched, At, End, Held, Pops
<1>4. Changed(c, "returned", calls[c].k, calls[c].h, {})
  <2>1. calls' = [calls EXCEPT ![c].place = "returned", ![c].held = {}]
    BY <1>2, <1>3 DEF CompleteModules, End
  <2>2. Changed(c, "returned", calls[c].k, calls[c].h, {})
    <3>1. "returned" \in CallPlaces
      BY EventBusAssumption DEF CallPlaces
    <3> QED BY <1>1, <1>2, <2>1, <3>1, EndChanges
  <2> QED BY <1>3, <2>2
<1>5. Typed'
  BY <1>1, <1>2, <1>3, <1>4, TypedStep, TypedSessions DEF Typed
<1>6. Chain'
  BY <1>1, <1>2, <1>3, <1>4, ChainStep DEF CallPlaces
<1>7. GivenSoFar(c)'
  <2>1. \A h \in Nat : (1 <= h /\ h <= Handlers) => Given(c, calls[c].k, h)
    BY <1>1, <1>2, <1>3, EventBusAssumption DEF Order, GivenSoFar
  <2>2. \A k, h \in Nat : (1 <= k /\ k <= calls[c].k /\ 1 <= h /\ h <= Handlers) => Given(c, k, h)
    BY <1>1, <1>2, <2>1 DEF Order, GivenSoFar
  <2>3. \A k, h : Given(c, k, h) => Given(c, k, h)'
    BY <1>3 DEF Given
  <2>4. \A k, h \in Nat : (1 <= k /\ k <= calls[c].k /\ 1 <= h /\ h <= Handlers) => Given(c, k, h)'
    BY <2>2, <2>3
  <2>5. PICK at, n \in Nat : at = calls[c].k /\ n = calls[c].size /\ n <= at
    BY <1>2, <1>3
  <2>6. calls'[c].k = at /\ calls'[c].size = n /\ calls'[c].place = "returned"
    BY <1>4, <2>5 DEF Changed
  <2>7. \A k, h \in Nat : (1 <= k /\ k <= at /\ 1 <= h /\ h <= Handlers) => Given(c, k, h)'
    BY <2>4, <2>5
  <2> QED BY <2>5, <2>6, <2>7 DEF GivenSoFar
<1>8. Order'
  BY <1>1, <1>2, <1>3, <1>4, <1>7, OrderStep DEF CallPlaces
<1>9. Held'
  BY <1>1, <1>2, <1>3, <1>4, HeldDispose DEF CallPlaces
<1> QED
  BY <1>5, <1>6, <1>8, <1>9 DEF Inv

LEMMA StepPublish ==
  ASSUME Inv, NEW t \in Threads, NEW size \in Nat, Publish(t, size)
  PROVE  Inv'
<1>1. Typed /\ Chain /\ Order /\ Held
  BY DEF Inv
<1>2. calls' \in Seq(Call)
  BY <1>1, PublishAppends DEF Publish
<1>3. top' \in [Threads -> Nat]
  BY <1>1 DEF Publish, Typed
<1>4. Typed'
  BY <1>1, <1>2, <1>3 DEF Publish, sessions, Typed
<1> QED
  BY <1>1, <1>4, ChainPublish, OrderPublish, HeldPublish DEF Inv

\* The flag of Start and Stop is no part of it, and a stuttering step changes nothing.
LEMMA StepFlag ==
  ASSUME Inv, running' \in BOOLEAN, UNCHANGED <<calls, top, heard, missing, sessions>>
  PROVE  Inv'
<1>1. Typed'
  BY DEF Inv, Typed, sessions
<1>2. Chain'
  BY DEF Inv, Chain, Running
<1>3. Order'
  BY DEF Inv, Order, GivenSoFar, Given
<1>4. Held'
  BY DEF Inv, Held, sessions
<1> QED
  BY <1>1, <1>2, <1>3, <1>4 DEF Inv

LEMMA InvInit ==
  ASSUME Init
  PROVE  Inv
<1>1. calls \in Seq(Call) /\ DOMAIN calls = {}
  BY DEF Init
<1>2. Typed
  BY <1>1 DEF Init, Typed
<1> QED
  BY <1>1, <1>2 DEF Init, Inv, Chain, Order, Held

LEMMA InvNext ==
  ASSUME Inv, [Next]_vars
  PROVE  Inv'
<1>1. CASE Next
  <2>1. ASSUME NEW t \in Threads, NEW size \in UNION Elements(Sizes), Publish(t, size)
        PROVE  Inv'
    <3>1. size \in Nat
      BY EventBusAssumption DEF Elements
    <3> QED BY <2>1, <3>1, StepPublish
  <2>2. ASSUME NEW t \in Threads, Progress(t)
        PROVE  Inv'
    BY <2>2, StepStartModules, StepEnterHandler, StepLeaveHandler, StepNextEvent, StepReturn
       DEF Progress
  <2>3. ASSUME NEW t \in Threads, Throw(t)
        PROVE  Inv'
    BY <2>3, StepStartModuleThrows, StepHandlerThrows, StepCompleteModuleThrows DEF Throw
  <2>4. ASSUME NEW t \in Threads, ResolveFails(t) \/ GetCurrentSession(t)
        PROVE  Inv'
    BY <2>4, StepResolveFails, StepGetCurrentSession
  <2>5. CASE Start \/ Stop
    BY <2>5, StepFlag DEF Start, Stop
  <2> QED BY <1>1, <2>1, <2>2, <2>3, <2>4, <2>5 DEF Next
<1>2. CASE UNCHANGED vars
  BY <1>2, StepFlag DEF vars, Inv, Typed
<1> QED
  BY <1>1, <1>2

LEMMA InvAlways == Spec => []Inv
<1>1. Init => Inv
  BY InvInit
<1>2. Inv /\ [Next]_vars => Inv'
  BY InvNext
<1> QED
  BY <1>1, <1>2, PTL DEF Spec

-----------------------------------------------------------------------------
(* The theorems.                                                           *)

\* For any threads, handlers and nesting: every variable has its type, and the running
\* calls of a thread are inside one another's handlers.
THEOREM TypeCorrect == Spec => []TypeOK
<1>1. Inv => TypeOK
  <2> SUFFICES ASSUME Inv PROVE TypeOK
    OBVIOUS
  <2>1. Typed /\ Chain /\ Order /\ Held
    BY DEF Inv
  <2>2. calls \in Seq(Call) /\ running \in BOOLEAN /\ opened \in Nat
    BY <2>1 DEF Typed
  <2>3. top \in [Threads -> {0} \cup DOMAIN calls]
    BY <2>1 DEF Typed, Chain
  <2>4. heard \in SUBSET ((DOMAIN calls) \X (Nat \ {0}) \X (1..Handlers))
    BY <2>1 DEF Typed, Order
  <2>5. missing \in SUBSET ((DOMAIN calls) \X (Nat \ {0}))
    BY <2>1 DEF Typed, Order
  <2>6. open \in SUBSET (1..opened)
    BY <2>1 DEF Typed, Held
  <2>7. session \in [Threads -> {0} \cup open]
    BY <2>1 DEF Typed, Held
  <2>8. ASSUME NEW c \in DOMAIN calls, calls[c].parent # 0
        PROVE  /\ calls[c].parent < c
               /\ calls[c].place \notin {"returned", "threw"} => calls[calls[c].parent].place = "handler"
    BY <2>1, <2>8 DEF Chain, Running
  <2> QED
    BY <2>2, <2>3, <2>4, <2>5, <2>6, <2>7, <2>8 DEF TypeOK
<1> QED
  BY <1>1, InvAlways, PTL

\* For any number of handlers and any batch: no handler hears an event before every
\* handler has heard the ones before it in its call, through nested calls and exceptions.
THEOREM BatchesInOrder == Spec => []BatchInOrder
<1>1. Inv => BatchInOrder
  <2> SUFFICES ASSUME Inv, NEW x \in heard, NEW k \in 1..(x[2] - 1), Resolved(x[1], k),
                      NEW h \in 1..Handlers
               PROVE  <<x[1], k, h>> \in heard
    BY DEF BatchInOrder
  <2>1. /\ x[1] \in DOMAIN calls /\ x[2] <= calls[x[1]].k /\ x[2] \in Nat
        /\ GivenSoFar(x[1])
    BY DEF Inv, Typed, Order
  <2>2. calls[x[1]].k \in Nat
    BY <2>1, CallFields DEF Inv, Typed
  <2>3. k \in Nat /\ 1 <= k /\ k < calls[x[1]].k /\ h \in Nat /\ 1 <= h /\ h <= Handlers
    BY <2>1, <2>2, EventBusAssumption
  <2>4. Given(x[1], k, h)
    BY <2>1, <2>3 DEF GivenSoFar
  <2> QED BY <2>4 DEF Given, Resolved
<1> QED
  BY <1>1, InvAlways, PTL

\* A Publish that returns has given every event of its call to every handler.
THEOREM ReturnedHandled == Spec => []ReturnedIsHandled
<1>1. Inv => ReturnedIsHandled
  <2> SUFFICES ASSUME Inv, NEW c \in DOMAIN calls, calls[c].place = "returned",
                      NEW k \in 1..calls[c].size, Resolved(c, k), NEW h \in 1..Handlers
               PROVE  <<c, k, h>> \in heard
    BY DEF ReturnedIsHandled, Handled
  <2>1. GivenSoFar(c) /\ calls[c].size \in Nat
    BY CallFields DEF Inv, Order, Typed
  <2>2. k \in Nat /\ 1 <= k /\ k <= calls[c].size /\ h \in Nat /\ 1 <= h /\ h <= Handlers
    BY <2>1, EventBusAssumption
  <2>3. Given(c, k, h)
    BY <2>1, <2>2 DEF GivenSoFar
  <2> QED BY <2>3 DEF Given, Resolved
<1> QED
  BY <1>1, InvAlways, PTL

\* The session a handler was given stays open until it returns or throws.
THEOREM SessionsStayOpen == Spec => []HeldSessionOpen
<1>1. Inv => HeldSessionOpen
  BY DEF Inv, Held, HeldSessionOpen
<1> QED
  BY <1>1, InvAlways, PTL

\* No other handler, on this thread or another, has that session.
THEOREM SessionsAreOwn == Spec => []SessionsNotShared
<1>1. Inv => SessionsNotShared
  BY DEF Inv, Held, SessionsNotShared
<1> QED
  BY <1>1, InvAlways, PTL
=============================================================================
