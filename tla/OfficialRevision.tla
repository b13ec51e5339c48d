----------------------------- MODULE OfficialRevision -----------------------------
(***************************************************************************)
(* What releasing revisions promises for one item: on each day at most one *)
(* revision is official.  A revision becomes official on days that nobody  *)
(* has, or takes over from one revision that then leaves altogether; it    *)
(* never takes a day from two, nor comes back by itself.                   *)
(***************************************************************************)
CONSTANTS Days, Revs, NoDoc

VARIABLE official       \* the official revision of each day

TypeOK == official \in [Days -> Revs \cup {NoDoc}]
Init == official = [d \in Days |-> NoDoc]

Publish(r, S, old) ==
    /\ S # {} /\ \A d \in S : official[d] \in {NoDoc, old}
    /\ \A d \in Days : official[d] # r
    /\ official' = [d \in Days |-> IF d \in S THEN r
                                   ELSE IF official[d] = old THEN NoDoc ELSE official[d]]

Withdraw(r) ==
    official' = [d \in Days |-> IF official[d] = r THEN NoDoc ELSE official[d]]

Next == \E r \in Revs : \/ Withdraw(r)
                        \/ \E S \in SUBSET Days, old \in Revs \cup {NoDoc} : Publish(r, S, old)

Spec == Init /\ [][Next]_official
=============================================================================
