-------------------------------- MODULE Replica --------------------------------
(***************************************************************************)
(* What a copy of a channel promises, abstractly: the posts of the host    *)
(* only go forward, and so does the copy, which never knows anything that  *)
(* the host did not publish.  "$global: should be identical between ships" *)
(* (sur/channels.hoon): the copy may be late, but not different.           *)
(***************************************************************************)
EXTENDS Naturals

CONSTANTS Id        \* the ids of posts

VARIABLES posts,    \* the posts of the host
          copy      \* those of the subscriber

vars == <<posts, copy>>

Absent == [st |-> "absent", rev |-> 0, reacts |-> 0]

(* A post is published, revised, and deleted for good; its text and its        *)
(* reactions are revised independently of each other.                         *)
Leq(a, b) ==
    \/ a = b
    \/ a.st = "absent"
    \/ b.st = "dead" /\ a.st # "absent"
    \/ a.st = "live" /\ b.st = "live" /\ a.rev <= b.rev /\ a.reacts <= b.reacts

Forward(ps, qs) == \A i \in Id : Leq(ps[i], qs[i])

Empty == [i \in Id |-> Absent]

Init == posts = Empty /\ copy = Empty

Publish == Forward(posts, posts') /\ UNCHANGED copy
Learn   == Forward(copy, copy') /\ Forward(copy', posts) /\ UNCHANGED posts
Forget  == copy' = Empty /\ UNCHANGED posts

Next == Publish \/ Learn \/ Forget

Spec == Init /\ [][Next]_vars

=============================================================================
