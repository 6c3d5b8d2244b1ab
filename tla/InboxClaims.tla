----------------------------- MODULE InboxClaims -----------------------------
(***************************************************************************)
(* One recipient's inbox: the bundles in it, the download claims that a    *)
(* reference-mode pick takes on them, the download streams that settle the *)
(* claims, and the two background loops that clean up.                     *)
(*                                                                         *)
(* The server is one process with one event loop.  None of the filesystem  *)
(* backends awaits anything, so each handler runs without interruption     *)
(* between the points where it really suspends; the only such point on     *)
(* these paths is the `yield` of the download body.  A handler is          *)
(* therefore one action, and a download is two: OpenDownload (the request  *)
(* handler, up to the first byte) and FinishDownload (the accounting after *)
(* the last one).  A crash of the process can still fall between two       *)
(* system calls of a handler: CrashNext adds those outcomes.               *)
(***************************************************************************)
EXTENDS Naturals, FiniteSets

CONSTANTS
    Paths,       \* bundle paths of the inbox, none nested in another
    Names,       \* file names a manifest can list
    Jtis,        \* pool of token identifiers (see Fresh)
    Streams,     \* slots for downloads in progress
    None,        \* "no such file / no such value"
    ClaimTTL,    \* download_claim_ttl, in ticks
    DefaultTTL,  \* default_ttl, in ticks; 0 disables bundle expiry
    MaxBundles   \* bound on the number of bundles ever delivered

ASSUME NoneAssumption == None \notin Paths \cup Jtis
ASSUME TTLAssumption  == ClaimTTL \in Nat \ {0} /\ DefaultTTL \in Nat
ASSUME BoundAssumption == MaxBundles \in Nat

VARIABLES
    bundle,   \* path -> the committed bundle there (its meta.json), or NoBundle
    count,    \* number of bundles delivered so far; ids grow with created_at
    lock,     \* path -> jti written in the path's lock file, or None
    claim,    \* jti -> the claim sidecar {jti}.json, or NoClaim
    token,    \* jti -> the download token in a client's hands, or NoToken
    stream,   \* slot -> the download in progress, or NoStream
    lost      \* history: completions that removed a bundle with a file that was
              \* not streamed from it under the claim, as <<claimed id, removed id>>

vars == <<bundle, count, lock, claim, token, stream, lost>>

-----------------------------------------------------------------------------
(* Records.  `age` counts ticks and saturates where it stops mattering.     *)

\* One tick past default_ttl a bundle is expired for good; without a TTL its age
\* never matters.
AgeCap == IF DefaultTTL > 0 THEN DefaultTTL + 1 ELSE 0

\* `kept` is history: the reaper settled a claim on the bundle and could not
\* delete it.
Bundle == [id: Nat \ {0}, files: SUBSET Names, ref: BOOLEAN,
           age: 0..AgeCap, kept: BOOLEAN]
NoBundle == [id |-> 0, files |-> {}, ref |-> FALSE, age |-> 0, kept |-> FALSE]

\* `own` is history: the names streamed to the end under the claim, each with
\* the id of the bundle it was streamed from.
Claim == [path: Paths, bid: Nat \ {0}, age: 0..ClaimTTL,
          fetched: SUBSET Names, own: SUBSET ((Nat \ {0}) \X Names)]
NoClaim == [path |-> None, bid |-> 0, age |-> 0, fetched |-> {}, own |-> {}]

Token == [path: Paths, files: SUBSET Names, life: 0..ClaimTTL]
NoToken == [path |-> None, files |-> {}, life |-> 0]

\* `manifest` and `path` are what download_file hands to the body generator;
\* `src` identifies the bundle the open file handle belongs to.
Stream == [jti: Jtis, path: Paths, name: Names, manifest: SUBSET Names, src: Nat \ {0}]
NoStream == [jti |-> None, path |-> None, name |-> None, manifest |-> {}, src |-> 0]

Present(p) == bundle[p] # NoBundle
HasSidecar(j) == claim[j] # NoClaim
OwnOf(c, id) == {n \in Names : <<id, n>> \in c.own}
ClaimsOn(p) == {j \in Jtis : claim[j].path = p}

\* Faulty variant of Expired: a bundle is due only at one instant.
ExpiredExactly(b) == DefaultTTL > 0 /\ b.age = DefaultTTL

\* _is_expired_by_meta: strictly older than default_ttl, never when it is 0.
Expired(b) == DefaultTTL > 0 /\ b.age > DefaultTTL

\* sweep_claims and iter_active_by_bundle_path use the same test, age >= ttl.
Active(j) == HasSidecar(j) /\ claim[j].age < ClaimTTL

\* The filter of both listings: a path under an active claim is left out.
Claimed(p) == \E j \in ClaimsOn(p) : Active(j)

\* list_inbox: committed, not hidden by an active claim, not expired.
Listed(p) == /\ Present(p)
             /\ ~Claimed(p)
             /\ ~ Expired(bundle[p])

\* A uuid4 never repeats; an identifier of which no trace is left anywhere
\* stands for a new one.
Fresh(j) == /\ token[j] = NoToken
            /\ claim[j] = NoClaim
            /\ \A p \in Paths : lock[p] # j
            /\ \A s \in Streams : stream[s].jti # j

\* The newest unexpired bundle: the one `pick latest` resolves to.
Latest(p) == /\ Present(p) /\ ~Expired(bundle[p])
             /\ \A q \in Paths : Present(q) /\ ~Expired(bundle[q])
                                   => bundle[q].id <= bundle[p].id

Init == /\ bundle = [p \in Paths |-> NoBundle]
        /\ count = 0
        /\ lock = [p \in Paths |-> None]
        /\ claim = [j \in Jtis |-> NoClaim]
        /\ token = [j \in Jtis |-> NoToken]
        /\ stream = [s \in Streams |-> NoStream]
        /\ lost = {}

-----------------------------------------------------------------------------
(* Senders *)

NewBundle(fs, r) == [id |-> count + 1, files |-> fs, ref |-> r,
                     age |-> 0, kept |-> FALSE]

Put(p, fs, r) == /\ count < MaxBundles
                 /\ count' = count + 1
                 /\ bundle' = [bundle EXCEPT ![p] = NewBundle(fs, r)]
                 /\ UNCHANGED <<lock, claim, token, stream, lost>>

\* The commit of an upload or of an inline send: the path must be free.
Deliver(p, fs, r) == ~Present(p) /\ Put(p, fs, r)

\* Broadcast removes whatever stands at the target path and writes its own
\* bundle there; it never looks at claims.
Broadcast(p, fs, r) == Present(p) /\ Put(p, fs, r)

-----------------------------------------------------------------------------
(* Recipients: get, pick, delete *)

RemoveBundle(p) == /\ bundle' = [bundle EXCEPT ![p] = NoBundle]
                   /\ UNCHANGED <<count, lock, claim, token, stream, lost>>

\* get and pick of an expired bundle delete it and answer 404.
ReadExpired(p) == Present(p) /\ Expired(bundle[p]) /\ RemoveBundle(p)

\* iat is truncated to whole seconds, the claim's created_at is not: the token
\* may run out up to one tick before the claim does.
NewToken(p, life) == [path |-> p, files |-> bundle[p].files, life |-> life]
\* Faulty variant of TokenLives: the expiry is rounded up, not down.
TokenLivesRoundedUp == {ClaimTTL, ClaimTTL + 1}
TokenLives == {ClaimTTL - 1, ClaimTTL}

\* get of a large bundle: a download token without a claim.
GetReference(p, j) ==
    /\ Present(p) /\ ~Expired(bundle[p]) /\ bundle[p].ref
    /\ Fresh(j)
    /\ \E life \in TokenLives : token' = [token EXCEPT ![j] = NewToken(p, life)]
    /\ UNCHANGED <<bundle, count, lock, claim, stream, lost>>

NewClaim(p) == [path |-> p, bid |-> bundle[p].id, age |-> 0,
                fetched |-> {}, own |-> {}]

\* Faulty variant of PickReference: the lock file is opened without O_EXCL.
PickReferenceNoExcl(p, j) ==
    /\ Present(p) /\ ~Expired(bundle[p]) /\ bundle[p].ref
    /\ Fresh(j)
    /\ lock' = [lock EXCEPT ![p] = j]
    /\ claim' = [claim EXCEPT ![j] = NewClaim(p)]
    /\ \E life \in TokenLives : token' = [token EXCEPT ![j] = NewToken(p, life)]
    /\ UNCHANGED <<bundle, count, stream, lost>>

\* pick of a large bundle: issue() creates the lock file with O_EXCL and then
\* the sidecar; the token is returned afterwards.
PickReference(p, j) ==
    /\ Present(p) /\ ~Expired(bundle[p]) /\ bundle[p].ref
    /\ Fresh(j)
    /\ lock[p] = None
    /\ lock' = [lock EXCEPT ![p] = j]
    /\ claim' = [claim EXCEPT ![j] = NewClaim(p)]
    /\ \E life \in TokenLives : token' = [token EXCEPT ![j] = NewToken(p, life)]
    /\ UNCHANGED <<bundle, count, stream, lost>>

\* pick of a small bundle: contents are collected, then the bundle is deleted.
PickInline(p) ==
    Present(p) /\ ~Expired(bundle[p]) /\ ~bundle[p].ref /\ RemoveBundle(p)

Pick(p) == PickInline(p) \/ \E j \in Jtis : PickReference(p, j)

PickLatest == \E p \in Paths : Latest(p) /\ Pick(p)

\* DELETE /inbox/...: no claim check.
Delete(p) == Present(p) /\ RemoveBundle(p)

-----------------------------------------------------------------------------
(* Downloads *)

\* Faulty variant of OpenDownload: a missing meta.json is not noticed.
OpenDownloadNoMeta(s, j, n) ==
    LET p == token[j].path IN
    /\ stream[s] = NoStream
    /\ token[j].life > 0
    /\ n \in token[j].files
    /\ stream' = [stream EXCEPT ![s] =
                    [jti |-> j, path |-> p, name |-> n,
                     manifest |-> bundle[p].files, src |-> bundle[p].id]]
    /\ UNCHANGED <<bundle, count, lock, claim, token, lost>>

\* Token, path, name and identity are checked, the CURRENT meta.json is read,
\* the file is opened.  The token's bundle_id is not compared with the meta's.
OpenDownload(s, j, n) ==
    LET p == token[j].path IN
    /\ stream[s] = NoStream
    /\ token[j].life > 0
    /\ n \in token[j].files
    /\ Present(p)
    /\ n \in bundle[p].files
    /\ stream' = [stream EXCEPT ![s] =
                    [jti |-> j, path |-> p, name |-> n,
                     manifest |-> bundle[p].files, src |-> bundle[p].id]]
    /\ UNCHANGED <<bundle, count, lock, claim, token, lost>>

\* The client went away: the generator is closed before the accounting.
AbortDownload(s) == /\ stream[s] # NoStream
                    /\ stream' = [stream EXCEPT ![s] = NoStream]
                    /\ UNCHANGED <<bundle, count, lock, claim, token, lost>>

\* The claim as mark_fetched leaves it (own: history).
Marked(s) == LET st == stream[s]
             IN [claim[st.jti] EXCEPT !.fetched = @ \cup {st.name},
                                      !.own = @ \cup {<<st.src, st.name>>}]

\* Faulty variant of Completes: one fetched file is taken for all of them.
CompletesOnAny(s) == stream[s].manifest \cap Marked(s).fetched # {}

Completes(s) == stream[s].manifest \subseteq Marked(s).fetched

\* What a completion under claim record c that removes the bundle at p loses:
\* nothing, when every file of that very bundle was streamed under the claim.
Loss(c, p) == IF Present(p) /\ ~(bundle[p].files \subseteq OwnOf(c, bundle[p].id))
              THEN {<<c.bid, bundle[p].id>>}
              ELSE {}

FinishUnclaimed(s) ==
    /\ stream[s] # NoStream
    /\ ~HasSidecar(stream[s].jti)
    /\ stream' = [stream EXCEPT ![s] = NoStream]
    /\ UNCHANGED <<bundle, count, lock, claim, token, lost>>

FinishPartial(s) ==
    /\ stream[s] # NoStream
    /\ HasSidecar(stream[s].jti)
    /\ ~Completes(s)
    /\ claim' = [claim EXCEPT ![stream[s].jti] = Marked(s)]
    /\ stream' = [stream EXCEPT ![s] = NoStream]
    /\ UNCHANGED <<bundle, count, lock, token, lost>>

\* Completion: delete the bundle at the path, then the lock of the claim
\* record's path, then the sidecar.
FinishComplete(s) ==
    LET st == stream[s]
        j  == st.jti
    IN /\ st # NoStream
       /\ HasSidecar(j)
       /\ Completes(s)
       /\ bundle' = [bundle EXCEPT ![st.path] = NoBundle]
       /\ lost' = lost \cup Loss(Marked(s), st.path)
       /\ lock' = [lock EXCEPT ![claim[j].path] = None]
       /\ claim' = [claim EXCEPT ![j] = NoClaim]
       /\ stream' = [stream EXCEPT ![s] = NoStream]
       /\ UNCHANGED <<count, token>>

\* Completion, but delete_bundle raises: only FileNotFoundError is caught, so the
\* lock and the sidecar, marked, stay for the reaper.  The error may come before
\* or after meta.json was removed.
FinishFails(s) ==
    LET st == stream[s]
    IN /\ st # NoStream
       /\ HasSidecar(st.jti)
       /\ Completes(s)
       /\ \/ UNCHANGED <<bundle, lost>>
          \/ /\ bundle' = [bundle EXCEPT ![st.path] = NoBundle]
             /\ lost' = lost \cup Loss(Marked(s), st.path)
       /\ claim' = [claim EXCEPT ![st.jti] = Marked(s)]
       /\ stream' = [stream EXCEPT ![s] = NoStream]
       /\ UNCHANGED <<count, lock, token>>

FinishDownload(s) == \/ FinishUnclaimed(s) \/ FinishPartial(s)
                     \/ FinishComplete(s) \/ FinishFails(s)

-----------------------------------------------------------------------------
(* Background loops and time *)

\* Faulty variant of Overdue: a claim whose bundle is gone is skipped.
OverduePresent == {j \in Jtis : /\ HasSidecar(j)
                                /\ claim[j].age >= ClaimTTL
                                /\ Present(claim[j].path)}

\* Faulty variant of Overdue: a claim is reaped one tick early.
OverdueEarly == {j \in Jtis : HasSidecar(j) /\ claim[j].age + 1 >= ClaimTTL}

Overdue == {j \in Jtis : HasSidecar(j) /\ claim[j].age >= ClaimTTL}

\* Faulty variants of SweepCompletes: any fetched file completes the claim, or
\* the reaper only ever releases.
SweepCompletesOnAny(j) == Present(claim[j].path) /\ claim[j].fetched # {}
SweepCompletesNever(j) == FALSE

\* The reaper's completion test reads the meta.json that is there NOW.
SweepCompletes(j) == LET p == claim[j].path IN
                     Present(p) /\ bundle[p].files \subseteq claim[j].fetched

\* A sweep that got as far as deleting the bundles of the complete claims in B,
\* the lock files of those in L and the sidecars of those in S.  For the claims
\* in F delete_bundle raised with meta.json still there: the error is logged,
\* lock and sidecar go all the same.
SweepEffect(B, L, S, F) ==
    LET C == {j \in B \ F : SweepCompletes(j)}
        K == {j \in F \cap S : SweepCompletes(j)}
    IN
    /\ bundle' = [p \in Paths |->
                    IF \E j \in C : claim[j].path = p THEN NoBundle
                    ELSE IF \E j \in K : claim[j].path = p
                         THEN [bundle[p] EXCEPT !.kept = TRUE]
                         ELSE bundle[p]]
    /\ lost' = lost \cup UNION {Loss(claim[j], claim[j].path) : j \in C}
    /\ lock' = [p \in Paths |->
                    IF \E j \in L : claim[j].path = p THEN None ELSE lock[p]]
    /\ claim' = [j \in Jtis |-> IF j \in S THEN NoClaim ELSE claim[j]]
    /\ UNCHANGED <<count, token>>

\* sweep_claims, one pass: every overdue claim.
Sweep == /\ Overdue # {}
         /\ \E F \in SUBSET Overdue : SweepEffect(Overdue, Overdue, Overdue, F)
         /\ UNCHANGED stream

\* _ttl_cleanup_loop, one pass: every expired bundle, claimed or not.
TTLCleanup ==
    /\ \E p \in Paths : Present(p) /\ Expired(bundle[p])
    /\ bundle' = [p \in Paths |->
                    IF Present(p) /\ Expired(bundle[p]) THEN NoBundle ELSE bundle[p]]
    /\ UNCHANGED <<count, lock, claim, token, stream, lost>>

Older(age, cap) == IF age < cap THEN age + 1 ELSE cap

\* One tick of the wall clock for everything that has an age.
Tick ==
    /\ bundle' = [p \in Paths |-> IF Present(p)
                    THEN [bundle[p] EXCEPT !.age = Older(@, AgeCap)]
                    ELSE NoBundle]
    /\ claim' = [j \in Jtis |-> IF HasSidecar(j)
                    THEN [claim[j] EXCEPT !.age = Older(@, ClaimTTL)]
                    ELSE NoClaim]
    /\ token' = [j \in Jtis |-> IF token[j].life > 1
                    THEN [token[j] EXCEPT !.life = @ - 1]
                    ELSE NoToken]
    /\ UNCHANGED <<count, lock, stream, lost>>

Next == \/ \E p \in Paths, fs \in (SUBSET Names) \ {{}}, r \in BOOLEAN :
              Deliver(p, fs, r) \/ Broadcast(p, fs, r)
        \/ \E p \in Paths : ReadExpired(p) \/ Pick(p) \/ Delete(p)
        \/ \E p \in Paths, j \in Jtis : GetReference(p, j)
        \/ PickLatest
        \/ \E s \in Streams, j \in Jtis, n \in Names : OpenDownload(s, j, n)
        \/ \E s \in Streams : AbortDownload(s) \/ FinishDownload(s)
        \/ Sweep
        \/ TTLCleanup
        \/ Tick

Spec == Init /\ [][Next]_vars

\* Time passes, and the two loops keep running for as long as the process does.
LoopFairness == WF_vars(Tick) /\ WF_vars(Sweep) /\ WF_vars(TTLCleanup)
FairSpec == Spec /\ LoopFairness

-----------------------------------------------------------------------------
(* Crash of the process.  What is on disk stays; the downloads in progress  *)
(* are gone.                                                               *)

DropStreams == stream' = [s \in Streams |-> NoStream]

CrashIdle == /\ \E s \in Streams : stream[s] # NoStream
             /\ DropStreams
             /\ UNCHANGED <<bundle, count, lock, claim, token, lost>>

\* In issue(), after the lock file was created.  A sidecar cut short is
\* skipped by iter_all and its token never left the server: it is the same
\* as none.
CrashInIssue(p, j) ==
    /\ Present(p) /\ ~Expired(bundle[p]) /\ bundle[p].ref
    /\ Fresh(j)
    /\ lock[p] = None
    /\ lock' = [lock EXCEPT ![p] = j]
    /\ DropStreams
    /\ UNCHANGED <<bundle, count, claim, token, lost>>

\* In the accounting of a download: after mark_fetched; after the bundle was
\* deleted; after the lock file was removed but before the sidecar was.
CrashInAccounting(s) ==
    LET st == stream[s]
        j  == st.jti
    IN /\ st # NoStream
       /\ HasSidecar(j)
       /\ claim' = [claim EXCEPT ![j] = Marked(s)]
       /\ DropStreams
       /\ \/ UNCHANGED <<bundle, lock, lost>>
          \/ /\ Completes(s)
             /\ bundle' = [bundle EXCEPT ![st.path] = NoBundle]
             /\ lost' = lost \cup Loss(Marked(s), st.path)
             /\ \/ lock' = [lock EXCEPT ![claim[j].path] = None]
                \/ UNCHANGED lock
       /\ UNCHANGED <<count, token>>

\* In a sweep: the claims in D are done, j is between two of its steps (with j
\* in F and its lock still there: before the first of them).
CrashInSweep ==
    \E D \in SUBSET Overdue : \E j \in Overdue \ D :
        /\ \E L \in {D, D \cup {j}}, F \in SUBSET (D \cup {j}) :
              SweepEffect(D \cup {j}, L, D, F)
        /\ DropStreams

Crash == \/ CrashIdle
         \/ \E p \in Paths, j \in Jtis : CrashInIssue(p, j)
         \/ \E s \in Streams : CrashInAccounting(s)
         \/ CrashInSweep

CrashNext == Next \/ Crash
CrashSpec == Init /\ [][CrashNext]_vars
FairCrashSpec == CrashSpec /\ LoopFairness

-----------------------------------------------------------------------------
(* Properties *)

\* Every file on disk and every value in memory has the shape the code gives it.
TypeOK == /\ bundle \in [Paths -> Bundle \cup {NoBundle}]
          /\ count \in Nat
          /\ lock \in [Paths -> Jtis \cup {None}]
          /\ claim \in [Jtis -> Claim \cup {NoClaim}]
          /\ token \in [Jtis -> Token \cup {NoToken}]
          /\ stream \in [Streams -> Stream \cup {NoStream}]
          /\ lost \in SUBSET (Nat \X Nat)

\* "Only one pick wins": a sidecar exists exactly for the jti in its path's lock
\* file, so a path never has two claims, and no lock is left without a claim
\* that will expire (FilesystemClaimStorage.issue and delete, sweep_claims).
ClaimsExclusive ==
    /\ \A j \in Jtis : HasSidecar(j) => lock[claim[j].path] = j
    /\ \A p \in Paths : lock[p] # None => claim[lock[p]].path = p

\* A download token never outlives the time in which the reaper leaves its
\* claim alone: no download starts under a claim that may already have been
\* released to the next picker (exp = int(now) + ttl against age >= ttl).
TokenWithinClaim ==
    \A j \in Jtis : HasSidecar(j) /\ token[j] # NoToken
                       => token[j].life + claim[j].age <= ClaimTTL

\* A completed claim never removes the bundle it was issued for before every
\* file of that bundle was streamed to the end under that very claim, whether
\* the last download or the reaper completes it.
ClaimedBundleNotLost == \A l \in lost : l[1] # l[2]

\* Stronger: no completion ever removes a bundle, the claimed one or one that
\* has come in its place, with a file that was not streamed from it.
NothingLost == lost = {}

\* A path refused to pickers does not stay refused: its lock goes away.
LockReleased == \A p \in Paths : lock[p] # None ~> lock[p] = None

\* Through crashes: a lock file whose own sidecar exists is removed in the end.
\* Only a crash inside issue(), before the sidecar, leaves a lock for good.
HeldLockReleased == \A p \in Paths, j \in Jtis :
                        (lock[p] = j /\ HasSidecar(j)) ~> lock[p] # j

\* Every bundle leaves the inbox in the end, claimed or not (default_ttl > 0).
BundleLeaves == \A p \in Paths, b \in 1..MaxBundles :
                    bundle[p].id = b ~> bundle[p].id # b

\* A bundle whose files were all fetched is deleted even when the process died,
\* or the delete failed, between recording the last fetch and deleting it.  Only
\* a delete that fails in the reaper itself, which settles the claim all the
\* same, leaves it in the inbox.
FetchedConsumed ==
    \A p \in Paths, b \in 1..MaxBundles :
        (bundle[p].id = b /\ \E j \in ClaimsOn(p) : bundle[p].files \subseteq claim[j].fetched)
            ~> bundle[p].id # b \/ bundle[p].kept

\* What the listing hides is held: an unexpired bundle missing from list_inbox is
\* under a lock, so that it is not hidden from everybody by a claim that nobody
\* can complete (iter_active_by_bundle_path against the lock files).
HiddenIsHeld == \A p \in Paths :
    Present(p) /\ ~Expired(bundle[p]) /\ ~Listed(p) => lock[p] # None

\* The refinement mapping: the lock file and the sidecar it names are the hold.
MBox == [p \in Paths |-> [id |-> bundle[p].id, files |-> bundle[p].files]]
MHeld == [p \in Paths |->
            IF lock[p] = None \/ ~HasSidecar(lock[p])
            THEN [by |-> None, id |-> 0, got |-> {}, age |-> 0]
            ELSE LET c == claim[lock[p]]
                 IN [by |-> lock[p], id |-> c.bid, got |-> OwnOf(c, c.bid), age |-> c.age]]

M == INSTANCE Mailbox WITH box <- MBox, held <- MHeld, sent <- count,
                           Holders <- Jtis, Nobody <- None, HoldTTL <- ClaimTTL

\* The inbox keeps the promise of Mailbox: a hold is exclusive, lasts its full
\* time unless the whole bundle was handed over, and consumes its bundle only
\* then (pick, the download accounting and sweep_claims together).
ImplementsMailbox == M!Spec

\* No claim on p has lost its lock file.
NoOrphanClaim(p) == ClaimsOn(p) \subseteq {lock[p]}

\* Through crashes, path by path: where no claim has lost its lock file, whatever
\* is done to the path, a crash included, is something that Mailbox allows; and
\* only a crash (between the two unlinks of a settlement) orphans a claim.
PathPromise == [][\A p \in Paths : NoOrphanClaim(p) =>
                     M!PathStep(p) /\ (Next => NoOrphanClaim(p)')]_vars
=============================================================================
