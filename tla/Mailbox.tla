------------------------------- MODULE Mailbox -------------------------------
(***************************************************************************)
(* What an inbox promises about a large bundle, whatever files it keeps on *)
(* disk for it: a pick gives one reader an exclusive hold; for HoldTTL     *)
(* ticks the hold ends in no other way than by the hand-over of the whole  *)
(* bundle; the bundle is consumed by a hold of its own only when all of it *)
(* was handed over.  InboxClaims implements this specification.            *)
(***************************************************************************)
EXTENDS Naturals

CONSTANTS
    Paths,     \* where bundles lie
    Names,     \* files a bundle can have
    Holders,   \* identities of holds
    Nobody,    \* no holder
    HoldTTL    \* how long a hold is guaranteed

VARIABLES
    box,       \* path -> the bundle there, or Empty
    held,      \* path -> the hold on the path, or Free
    sent       \* number of bundles sent so far

vars == <<box, held, sent>>

Empty == [id |-> 0, files |-> {}]
Free == [by |-> Nobody, id |-> 0, got |-> {}, age |-> 0]

Init == /\ box = [p \in Paths |-> Empty]
        /\ held = [p \in Paths |-> Free]
        /\ sent = 0

-----------------------------------------------------------------------------
(* What can happen to one path *)

Stays(p) == box'[p] = box[p] /\ held'[p] = held[p]

\* A bundle arrives, in place of another one or not.
Arrives(p) == \E fs \in SUBSET Names :
    /\ box'[p] = [id |-> sent + 1, files |-> fs]
    /\ held'[p] = held[p]
    /\ sent' = sent + 1

\* A reader takes the hold.
Taken(p) == \E j \in Holders :
    /\ box[p] # Empty
    /\ held[p] = Free
    /\ held'[p] = [by |-> j, id |-> box[p].id, got |-> {}, age |-> 0]
    /\ box'[p] = box[p]

\* G: what the holder has, with at most one more file of the held bundle.
Receives(p, G) == /\ held[p] # Free
                  /\ held[p].got \subseteq G
                  /\ \E n \in Names : G \subseteq held[p].got \cup {n}

\* May a hold with the files G handed over take away what is at p?  Its own
\* bundle only when G is all of it.  A bundle that has come in its place is
\* not protected: the implementation does not tell the two apart.
MayConsume(p, G) == box[p].id = held[p].id => box[p].files \subseteq G

\* One more file has reached the holder.
HandedOver(p) == \E G \in SUBSET Names :
    /\ Receives(p, G)
    /\ held'[p] = [held[p] EXCEPT !.got = G]
    /\ box'[p] = box[p]

\* The last file has reached the holder; the bundle is consumed, the hold over.
Settled(p) == \E G \in SUBSET Names :
    /\ Receives(p, G) /\ MayConsume(p, G)
    /\ held'[p] = Free
    /\ box'[p] = Empty

\* The bundle expires, is deleted, or is read in one request.
Goes(p) == box'[p] = Empty /\ held'[p] = held[p]

\* A hold ends unsettled, or late: only when its time is over.
Lapses(p) == /\ held[p] # Free
             /\ held[p].age >= HoldTTL
             /\ held'[p] = Free
             /\ \/ box'[p] = box[p]
                \/ box'[p] = Empty /\ MayConsume(p, held[p].got)

Ages(p) == /\ held'[p] = IF held[p] # Free /\ held[p].age < HoldTTL
                         THEN [held[p] EXCEPT !.age = @ + 1] ELSE held[p]
           /\ box'[p] = box[p]

\* The server fails, or dies, between consuming the bundle and ending the hold.
CutShort(p) == \E G \in SUBSET Names :
    /\ Receives(p, G) /\ MayConsume(p, G)
    /\ held'[p] = [held[p] EXCEPT !.got = G]
    /\ box'[p] = Empty

\* All of it.
PathStep(p) == \/ Stays(p) \/ Arrives(p) \/ Taken(p) \/ HandedOver(p) \/ Settled(p)
               \/ Goes(p) \/ Lapses(p) \/ Ages(p) \/ CutShort(p)

-----------------------------------------------------------------------------
(* All paths.  Requests are about one of them, housekeeping and time about   *)
(* all at once.                                                              *)

Request(p) == /\ \/ Arrives(p)
                 \/ /\ UNCHANGED sent
                    /\ Taken(p) \/ HandedOver(p) \/ Settled(p) \/ CutShort(p)
              /\ \A q \in Paths \ {p} : Stays(q)

Housekeeping == UNCHANGED sent /\ \A p \in Paths : Stays(p) \/ Goes(p) \/ Lapses(p)

Tick == UNCHANGED sent /\ \A p \in Paths : Ages(p)

Next == /\ (\E p \in Paths : Request(p)) \/ Housekeeping \/ Tick
        /\ box' = [p \in Paths |-> box'[p]]
        /\ held' = [p \in Paths |-> held'[p]]

Spec == Init /\ [][Next]_vars
=============================================================================
