----------------------------- MODULE CleanupLease -----------------------------
(***************************************************************************)
(* The TTL cleanup loop in several server processes that share one storage *)
(* root, and the lease that keeps all but one of them out of a pass.  The  *)
(* lease is a flock on locks/ttl-cleanup, owned by an open file and given  *)
(* up by the kernel when the owning process ends; ttl_seconds is ignored.  *)
(*                                                                         *)
(* Inside one process a pass does not suspend until it awaits the          *)
(* cancelled renewal task (which therefore never gets to renew anything),  *)
(* but the system calls of different processes interleave freely: reading  *)
(* a bundle's meta.json and deleting the bundle are two actions.           *)
(***************************************************************************)
EXTENDS Naturals

CONSTANTS
    Procs,       \* server processes
    Paths,       \* bundle paths
    None,        \* no process
    MaxBundles,  \* bound on the number of bundles ever written
    MaxFaults    \* bound on failing system calls, crashes and shutdowns

ASSUME NoneAssumption == None \notin Procs
ASSUME BoundAssumption == MaxBundles \in Nat /\ MaxFaults \in Nat

VARIABLES
    bundle,   \* path -> id of the committed bundle there, 0 for none
    count,    \* number of bundles written so far
    old,      \* ids of the bundles older than default_ttl
    pc,       \* process -> where its cleanup loop is
    holder,   \* process with an open file that holds the flock, or None
    lease,    \* process -> is the key in its _leases dictionary?
    due,      \* process -> ids that were old when its pass read the clock
    todo,     \* process -> paths its pass has not looked at yet
    target,   \* process -> <<path, id>> it is about to delete
    asked,    \* processes asked to shut down
    hung,     \* processes whose shutdown waits for a loop that never ends
    leaked,   \* processes with a lock file left open by a failed release
    faults,   \* faults so far
    handled,  \* history: ids removed by a request handler
    wrong     \* history: <<meant, removed>> of deletions that hit another bundle

vars == <<bundle, count, old, pc, holder, lease, due, todo, target, asked,
          hung, leaked, faults, handled, wrong>>

files == <<bundle, count, old, handled, wrong>>
pass  == <<due, todo, target>>
stop  == <<asked, hung, leaked>>

Points == {"sleep", "look", "delete", "await", "ended", "off"}
Ids == 1..MaxBundles

Init == /\ bundle = [x \in Paths |-> 0]
        /\ count = 0
        /\ old = {}
        /\ pc = [p \in Procs |-> "sleep"]
        /\ holder = None
        /\ lease = [p \in Procs |-> FALSE]
        /\ due = [p \in Procs |-> {}]
        /\ todo = [p \in Procs |-> {}]
        /\ target = [p \in Procs |-> <<>>]
        /\ asked = {}
        /\ hung = {}
        /\ leaked = {}
        /\ faults = 0
        /\ handled = {}
        /\ wrong = {}

Goto(p, l) == pc' = [pc EXCEPT ![p] = l]
Fault == faults < MaxFaults /\ faults' = faults + 1

-----------------------------------------------------------------------------
(* Request handlers of any process, and time *)

Write(x) == /\ bundle[x] = 0 /\ count < MaxBundles
            /\ count' = count + 1
            /\ bundle' = [bundle EXCEPT ![x] = count + 1]
            /\ UNCHANGED <<old, pc, holder, lease, pass, stop, faults, handled, wrong>>

\* A pick, a delete, or the first half of a put or broadcast.
Drop(x) == /\ bundle[x] # 0
           /\ bundle' = [bundle EXCEPT ![x] = 0]
           /\ handled' = handled \cup {bundle[x]}
           /\ UNCHANGED <<count, old, pc, holder, lease, pass, stop, faults, wrong>>

Expire(x) == /\ bundle[x] # 0 /\ bundle[x] \notin old
             /\ old' = old \cup {bundle[x]}
             /\ UNCHANGED <<bundle, count, pc, holder, lease, pass, stop, faults, handled, wrong>>

-----------------------------------------------------------------------------
(* acquire_lease *)

Begin(p) == /\ Goto(p, "look")
            /\ due' = [due EXCEPT ![p] = old]
            /\ todo' = [todo EXCEPT ![p] = {x \in Paths : bundle[x] # 0}]
            /\ UNCHANGED target

\* Faulty variant of Acquire: flock is not asked, the dictionary is enough.
AcquireByDict(p) == /\ pc[p] = "sleep" /\ ~lease[p]
                    /\ holder' = p
                    /\ lease' = [lease EXCEPT ![p] = TRUE]
                    /\ Begin(p)
                    /\ UNCHANGED <<files, stop, faults>>

\* The lock is free: the pass begins and reads the clock.
Acquire(p) == /\ pc[p] = "sleep" /\ ~lease[p]
              /\ holder = None
              /\ holder' = p
              /\ lease' = [lease EXCEPT ![p] = TRUE]
              /\ Begin(p)
              /\ UNCHANGED <<files, stop, faults>>

\* Being refused (BlockingIOError) and a failing os.open both mean "held by
\* another pod": the loop sleeps again and nothing has changed.  A failing
\* mkdir, or a flock that fails otherwise, is raised outside the loop's try
\* block and ends the loop.
AcquireRaises(p) == /\ pc[p] = "sleep" /\ Fault
                    /\ Goto(p, "ended")
                    /\ UNCHANGED <<files, holder, lease, pass, stop>>

-----------------------------------------------------------------------------
(* One pass *)

\* Faulty variant of Look: a bundle gone since the listing is not skipped.
LookMissing(p, x) ==
    /\ pc[p] = "look" /\ x \in todo[p]
    /\ todo' = [todo EXCEPT ![p] = @ \ {x}]
    /\ IF bundle[x] \in due[p] \cup {0}
       THEN Goto(p, "delete") /\ target' = [target EXCEPT ![p] = <<x, bundle[x]>>]
       ELSE UNCHANGED <<pc, target>>
    /\ UNCHANGED <<files, holder, lease, due, stop, faults>>

\* Read the meta.json of one listed bundle and judge its age against `now`.
Look(p, x) == /\ pc[p] = "look" /\ x \in todo[p]
              /\ todo' = [todo EXCEPT ![p] = @ \ {x}]
              /\ IF bundle[x] \in due[p]
                 THEN Goto(p, "delete") /\ target' = [target EXCEPT ![p] = <<x, bundle[x]>>]
                 ELSE UNCHANGED <<pc, target>>
              /\ UNCHANGED <<files, holder, lease, due, stop, faults>>

\* delete_bundle by path: whatever is there by now goes.
Delete(p) == LET x == target[p][1] IN
             /\ pc[p] = "delete"
             /\ bundle' = [bundle EXCEPT ![x] = 0]
             /\ wrong' = IF bundle[x] \in {0, target[p][2]} THEN wrong
                         ELSE wrong \cup {<<target[p][2], bundle[x]>>}
             /\ Goto(p, "look")
             /\ UNCHANGED <<count, old, holder, lease, pass, stop, faults, handled>>

\* delete_bundle raises: logged, the pass goes on.
DeleteFails(p) == /\ pc[p] = "delete" /\ Fault
                  /\ Goto(p, "look")
                  /\ UNCHANGED <<files, holder, lease, pass, stop>>

\* The listed bundles are done: the renewal task is cancelled and awaited.
Finish(p) == /\ pc[p] = "look" /\ todo[p] = {}
             /\ Goto(p, "await")
             /\ UNCHANGED <<files, holder, lease, pass, stop, faults>>

\* Any other exception: the rest of the pass is given up.
GiveUp(p) == /\ pc[p] = "look" /\ Fault
             /\ Goto(p, "await")
             /\ UNCHANGED <<files, holder, lease, pass, stop>>

-----------------------------------------------------------------------------
(* release_lease *)

\* Faulty variant of Release: the file is never unlocked nor closed.
ReleaseForgets(p) == /\ pc[p] = "await"
                     /\ lease' = [lease EXCEPT ![p] = FALSE]
                     /\ Goto(p, "sleep")
                     /\ UNCHANGED <<files, holder, pass, stop, faults>>

Release(p) == /\ pc[p] = "await"
              /\ holder' = None
              /\ lease' = [lease EXCEPT ![p] = FALSE]
              /\ Goto(p, "sleep")
              /\ UNCHANGED <<files, pass, stop, faults>>

\* flock(LOCK_UN) raises OSError: os.close is skipped, the dictionary entry goes
\* all the same, and the open file keeps the lock until the process ends.
ReleaseFails(p) == /\ pc[p] = "await" /\ Fault
                   /\ lease' = [lease EXCEPT ![p] = FALSE]
                   /\ leaked' = leaked \cup {p}
                   /\ Goto(p, "sleep")
                   /\ UNCHANGED <<files, holder, pass, asked, hung>>

-----------------------------------------------------------------------------
(* End and start of processes *)

\* The kernel closes the files of a process that ends.
Ends(p) == /\ Goto(p, "off")
           /\ holder' = IF holder = p THEN None ELSE holder
           /\ lease' = [lease EXCEPT ![p] = FALSE]
           /\ asked' = asked \ {p}
           /\ hung' = hung \ {p}
           /\ leaked' = leaked \ {p}
           /\ UNCHANGED <<files, pass>>

Crash(p) == pc[p] # "off" /\ Fault /\ Ends(p)

Restart(p) == /\ pc[p] = "off"
              /\ Goto(p, "sleep")
              /\ UNCHANGED <<files, holder, lease, pass, stop, faults>>

AskToStop(p) == /\ pc[p] # "off" /\ p \notin asked /\ Fault
                /\ asked' = asked \cup {p}
                /\ UNCHANGED <<files, pc, holder, lease, pass, hung, leaked>>

\* Faulty variant of Cancel: only a loop that has ended already is waited for.
CancelEnded(p) == /\ p \in asked \ hung
                  /\ pc[p] = "ended"
                  /\ Ends(p)
                  /\ UNCHANGED faults

\* The lifespan's shutdown cancels the cleanup task.  A sleeping loop ends, and
\* so does one that has ended already.
Cancel(p) == /\ p \in asked \ hung
             /\ pc[p] \in {"sleep", "ended"}
             /\ Ends(p)
             /\ UNCHANGED faults

\* Cancelled while it awaits the renewal task, the loop takes the CancelledError
\* for the renewal's own, swallows it and goes on for ever.
CancelLost(p) == /\ p \in asked \ hung
                 /\ pc[p] = "await"
                 /\ hung' = hung \cup {p}
                 /\ UNCHANGED <<files, pc, holder, lease, pass, asked, leaked, faults>>

\* What the scheduler and the clock keep doing while a process is up.
Step(p) == \/ Acquire(p)
           \/ \E x \in Paths : Look(p, x)
           \/ Delete(p)
           \/ Finish(p)
           \/ Release(p)

Next == \/ \E x \in Paths : Write(x) \/ Drop(x) \/ Expire(x)
        \/ \E p \in Procs : \/ Step(p)
                            \/ AcquireRaises(p) \/ DeleteFails(p) \/ GiveUp(p) \/ ReleaseFails(p)
                            \/ Crash(p) \/ Restart(p)
                            \/ AskToStop(p) \/ Cancel(p) \/ CancelLost(p)

Spec == Init /\ [][Next]_vars

\* A process that is up keeps running its loop.  The shutdown coroutine runs
\* while the loop sleeps or awaits, again and again: strong fairness.
FairSpec == /\ Spec
            /\ \A p \in Procs : WF_vars(Step(p)) /\ SF_vars(Cancel(p) \/ CancelLost(p))

-----------------------------------------------------------------------------
(* Properties *)

InPass(p) == pc[p] \in {"look", "delete", "await"}

\* The loops and the lock have the shape the code gives them; what a pass is
\* about to delete is a bundle it has seen.
TypeOK == /\ bundle \in [Paths -> {0} \cup Ids]
          /\ count \in 0..MaxBundles
          /\ old \subseteq Ids
          /\ pc \in [Procs -> Points]
          /\ holder \in Procs \cup {None}
          /\ lease \in [Procs -> BOOLEAN]
          /\ due \in [Procs -> SUBSET Ids]
          /\ todo \in [Procs -> SUBSET Paths]
          /\ target \in [Procs -> (Paths \X Ids) \cup {<<>>}]
          /\ \A p \in Procs : pc[p] = "delete" => target[p] # <<>>
          /\ asked \subseteq Procs /\ hung \subseteq Procs /\ leaked \subseteq Procs
          /\ faults \in 0..MaxFaults
          /\ handled \subseteq Ids
          /\ wrong \subseteq Ids \X Ids

\* "only one pod in a multi-pod deployment runs the cleanup sweep at a time":
\* through failed releases, crashes, restarts and shutdowns (_ttl_cleanup_loop).
OneSweeper == \A p, q \in Procs : InPass(p) /\ InPass(q) => p = q

\* What the lease is for: passes of two processes never make one of them delete
\* a bundle that has come in place of the expired one it had judged; only a
\* request handler that removed the judged bundle in between can.
SparesFresh == \A w \in wrong : w[1] \in handled

\* Cleanup is over for good: no loop is left, or a failed release in a process
\* that is still up keeps the lock from everybody.
Jammed == \/ \A p \in Procs : pc[p] \in {"ended", "off"}
          \/ leaked # {}

\* An expired bundle is removed in the end, whoever holds the lease, dies with
\* it, or hangs in its shutdown (_ttl_cleanup_loop, acquire_lease).
ExpiredGoes == \A x \in Paths, b \in Ids :
                   (bundle[x] = b /\ b \in old) ~> (bundle[x] # b \/ Jammed)

\* A process asked to stop ends, unless the cancellation fell on the await of the
\* renewal task (lifespan, `except asyncio.CancelledError: pass`).
ShutdownEnds == \A p \in Procs : p \in asked ~> (p \notin asked \/ p \in hung)
=============================================================================
