--------------------------- MODULE MCProcessManager ---------------------------
(* Instances of ProcessManager for TLC.                                     *)
EXTENDS ProcessManager, TLC

CONSTANTS t1, t2, a, b

\* The events of a process arrive on one thread.
ByThread == t1 :> {a} @@ t2 :> {b}
OneThread == t1 :> {a}
\* Nothing, or an event and a command.
NoneOrBoth == {<<0, 0>>, <<1, 1>>}
Nothing == {<<0, 0>>}

\* Threads and keys can only be exchanged together.
Exchange == {t1 :> t2 @@ t2 :> t1 @@ a :> b @@ b :> a}
=============================================================================
