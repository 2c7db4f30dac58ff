---------------------------- MODULE UploadStream ----------------------------
(***************************************************************************)
(* What the SplitHTTP upload side promises its caller (spec sections 4.4   *)
(* and 4.5), without pipe, producer or semaphore: the bytes the caller     *)
(* writes are cut, front to back, into POST bodies numbered 0, 1, ...; at  *)
(* most MaxConcurrentUploads POSTs are unanswered at a time; each POST is  *)
(* delivered or lost, never retried; after Close every written byte is     *)
(* posted and every POST answered.  A lost POST leaves a gap that the      *)
(* stream does not repair.                                                 *)
(***************************************************************************)
EXTENDS Naturals, Sequences, FiniteSets, SequencesExt

CONSTANTS
    MaxConcurrentUploads,
    Data                   \* what one Write may carry

VARIABLES
    written,   \* the caller's writes, in order
    posts,     \* posts[n + 1] is the POST with seq n: its body and status
    open       \* the caller has not closed the connection

vars == <<written, posts, open>>

Posted == FlattenSeq([i \in 1 .. Len(posts) |-> posts[i].body])

Unanswered == {i \in 1 .. Len(posts) : posts[i].st = "inflight"}

Init == /\ written = <<>>
        /\ posts = <<>>
        /\ open = TRUE

Write == /\ open
         /\ \E d \in Data : written' = Append(written, d)
         /\ UNCHANGED <<posts, open>>

Close == /\ open
         /\ open' = FALSE
         /\ UNCHANGED <<written, posts>>

\* The next non-empty stretch of unposted bytes goes out as the next seq.
Post == /\ Len(Posted) < Len(written)
        /\ Cardinality(Unanswered) < MaxConcurrentUploads
        /\ \E k \in (Len(Posted) + 1) .. Len(written) :
              posts' = Append(posts, [body |-> SubSeq(written, Len(Posted) + 1, k),
                                      st   |-> "inflight"])
        /\ UNCHANGED <<written, open>>

Answer == /\ \E i \in Unanswered, outcome \in {"delivered", "lost"} :
                posts' = [posts EXCEPT ![i].st = outcome]
          /\ UNCHANGED <<written, open>>

Next == Write \/ Close \/ Post \/ Answer

\* Posting and answering are not up to the caller, who owes nothing.
Spec == Init /\ [][Next]_vars /\ WF_vars(Post) /\ WF_vars(Answer)

=============================================================================
