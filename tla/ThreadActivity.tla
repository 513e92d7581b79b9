---------------------------- MODULE ThreadActivity ----------------------------
(***************************************************************************)
(* What a thread of the analysed program can be doing, as a user of the    *)
(* pthread functions sees it.                                              *)
(***************************************************************************)
Unborn     == [kind |-> "unborn"]
Running    == [kind |-> "running"]
Ended      == [kind |-> "ended"]
Locking(m) == [kind |-> "locking", mutex |-> m]
Waiting(c, m) == [kind |-> "waiting", cond |-> c, mutex |-> m]
AtBarrier(b)  == [kind |-> "barrier", barrier |-> b]
Joining(u)    == [kind |-> "joining", thread |-> u]
=============================================================================
