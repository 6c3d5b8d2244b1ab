------------------------------- MODULE Delivery -------------------------------
(***************************************************************************)
(* How bundles get into inboxes: the two-phase send (send_init, then       *)
(* send_inline or a streamed upload with the token it minted) and the      *)
(* broadcast, with keys revoked and re-issued, the server restarted under  *)
(* other limits, and inboxes emptied in between.  One bundle path per      *)
(* inbox; nesting of paths and the files inside a directory are in         *)
(* BundleDirs, the stream in UploadBridge, signatures in JwtRotation.      *)
(***************************************************************************)
EXTENDS Integers, FiniteSets, Functions, ManifestNames

CONSTANTS
    Agents,          \* key labels
    Bare,            \* recipients named without a colon: no key stands behind them
    Operator,        \* sender without a label (operator or dev identity)
    Sids,            \* upload sessions
    Manifests,       \* functions from file names to declared sizes
    Configs,         \* limits the server can be started with
    NoCap,           \* a limit that is not set
    DefaultFileMax,  \* DEFAULT_PER_FILE_MAX
    UploadTTL,       \* upload_token_ttl, in ticks
    MaxTargets       \* broadcast_max_targets

Inboxes == Agents \cup Bare
Config == [count: Nat \cup {NoCap}, file: Nat \cup {NoCap},
           total: Nat \cup {NoCap}, inline: Nat \cup {NoCap}]

ASSUME NamesAssumption == Agents \cap Bare = {} /\ Operator \notin Agents
ASSUME ManifestAssumption ==
    \A m \in Manifests : /\ DOMAIN m \subseteq Seq(Nat) /\ IsFiniteSet(DOMAIN m)
                         /\ m \in [DOMAIN m -> Int]
ASSUME ConfigAssumption == Configs \subseteq Config /\ NoCap \notin Int
ASSUME BoundAssumption == /\ UploadTTL \in Nat \ {0}
                          /\ {DefaultFileMax, MaxTargets} \subseteq Nat

VARIABLES
    active,   \* labels with an active key
    gone,     \* label -> ticks since its key was revoked
    config,   \* limits in force
    session,  \* sid -> what its token says, or NoSession
    uploads,  \* sids with a streamed upload in progress
    inbox,    \* inbox -> what is at the bundle path
    report,   \* the answer of a broadcast, at the moment it is given
    late      \* history: longest time a label was revoked when a token that
              \* names it was accepted

vars == <<active, gone, config, session, uploads, inbox, report, late>>

\* What a client can really send: sizes of files.
Contents == {m \in Manifests : \A n \in DOMAIN m : m[n] >= 0}

Session == [from: Agents \cup {Operator}, to: Inboxes, mode: {"inline", "batch"},
            man: Manifests, life: 0..UploadTTL, cap: Configs]
NoSession == [from |-> Operator, to |-> NoCap, mode |-> "none", man |-> <<>>,
              life |-> 0, cap |-> NoCap]

\* `cap` is history: the limits it was admitted under.
Bundle == [kind: {"bundle"}, files: Contents, cap: Configs]
Free == [kind |-> "free", files |-> <<>>, cap |-> NoCap]
InFlight == [kind |-> "writing", files |-> <<>>, cap |-> NoCap]
NewBundle(c, cap) == [kind |-> "bundle", files |-> c, cap |-> cap]

Report == [files: Contents, seen: SUBSET Agents, delivered: SUBSET Agents,
           denied: SUBSET Agents, failed: SUBSET Agents,
           result: {"success", "partial", "noop", "error"}]
NoReport == [files |-> <<>>, seen |-> {}, delivered |-> {}, denied |-> {},
             failed |-> {}, result |-> "none"]

-----------------------------------------------------------------------------
(* Limits *)

Over(x, cap) == cap # NoCap /\ x > cap
Total(m) == SumFunction(m)

\* check_manifest_against_limits, over the DECLARED sizes.
CapExceeded(m, cap) == \/ Over(Cardinality(DOMAIN m), cap.count)
                       \/ \E n \in DOMAIN m : Over(m[n], cap.file)
                       \/ Over(Total(m), cap.total)

Mode(m, cap) == IF Over(Total(m), cap.inline) THEN "batch" ELSE "inline"

\* Faulty variant of Ceiling: the fallback applies to every limit.
CeilingLow == IF config.file = NoCap \/ config.file > DefaultFileMax
              THEN DefaultFileMax ELSE config.file

\* effective_per_file_max of the streamed upload.
Ceiling == IF config.file = NoCap THEN DefaultFileMax ELSE config.file

\* What the bundle writer can write and commit.
Storable(c) == DOMAIN c # {} /\ ~Collide(DOMAIN c)

\* Faulty variant of Matches: sizes are not compared.
MatchesNames(m, c) == DOMAIN c = DOMAIN m

\* Every declared file, no other, each with its declared size.
Matches(m, c) == c = m

-----------------------------------------------------------------------------
(* Keys and time *)

NoAnswer == report' = NoReport

Init == /\ active = Agents
        /\ gone = [a \in Agents |-> 0]
        /\ config \in Configs
        /\ session = [s \in Sids |-> NoSession]
        /\ uploads = {}
        /\ inbox = [a \in Inboxes |-> Free]
        /\ report = NoReport
        /\ late = 0

Revoke(a) == /\ a \in active
             /\ active' = active \ {a}
             /\ UNCHANGED <<gone, config, session, uploads, inbox, late>> /\ NoAnswer

CreateKey(a) == /\ a \notin active
                /\ active' = active \cup {a}
                /\ gone' = [gone EXCEPT ![a] = 0]
                /\ UNCHANGED <<config, session, uploads, inbox, late>> /\ NoAnswer

\* Faulty variant of Aged: the claims go with the token, upload or not.
AgedForgets(s) == IF session[s].life > 1 THEN [session[s] EXCEPT !.life = @ - 1]
                  ELSE NoSession

\* A token that has run out is of no use; its claims live on in an upload.
Aged(s) == IF session[s].life > 1 \/ (s \in uploads /\ session[s].life = 1)
           THEN [session[s] EXCEPT !.life = @ - 1]
           ELSE IF s \in uploads THEN session[s] ELSE NoSession

Tick == /\ session' = [s \in Sids |-> Aged(s)]
        /\ gone' = [a \in Agents |-> IF a \notin active /\ gone[a] < UploadTTL
                                     THEN gone[a] + 1 ELSE gone[a]]
        /\ UNCHANGED <<active, config, uploads, inbox, late>> /\ NoAnswer

-----------------------------------------------------------------------------
(* Two-phase send *)

\* Callers that get_current_identity knows; names that a send can be addressed to:
\* labels with an active key, and what has no colon.
Senders == active \cup {Operator}
Recipients == active \cup Bare

\* Faulty variant of SendInit: any label is taken for a recipient.
SendInitAnyone(s, from, to, m, allowInline) ==
    /\ session[s] = NoSession
    /\ from \in Senders
    /\ ValidNames(DOMAIN m)
    /\ ~CapExceeded(m, config)
    /\ session' = [session EXCEPT ![s] =
         [from |-> from, to |-> to, man |-> m, life |-> UploadTTL, cap |-> config,
          mode |-> IF allowInline THEN Mode(m, config) ELSE "batch"]]
    /\ UNCHANGED <<active, gone, config, uploads, inbox, late>> /\ NoAnswer

\* prepare_send_init: manifest, recipient, limits; then the token.
SendInit(s, from, to, m, allowInline) ==
    /\ session[s] = NoSession
    /\ from \in Senders
    /\ ValidNames(DOMAIN m)
    /\ to \in Recipients
    /\ ~CapExceeded(m, config)
    /\ session' = [session EXCEPT ![s] =
         [from |-> from, to |-> to, man |-> m, life |-> UploadTTL, cap |-> config,
          mode |-> IF allowInline THEN Mode(m, config) ELSE "batch"]]
    /\ UNCHANGED <<active, gone, config, uploads, inbox, late>> /\ NoAnswer

\* How long the labels of an accepted token have been revoked (history).
Lateness(s) == LET labels == {session[s].from, session[s].to} \cap Agents IN
               {late} \cup {gone[a] : a \in labels}
NoteUse(s) == late' = CHOOSE n \in Lateness(s) : \A k \in Lateness(s) : k <= n

Accepts(s, mode) == /\ session[s].life > 0
                    /\ session[s].mode = mode
                    /\ inbox[session[s].to] = Free

\* send_inline: all checks, then open, write and commit without interruption.
SendInline(s, c) ==
    /\ Accepts(s, "inline")
    /\ Matches(session[s].man, c) /\ Storable(c)
    /\ inbox' = [inbox EXCEPT ![session[s].to] = NewBundle(c, session[s].cap)]
    /\ NoteUse(s)
    /\ UNCHANGED <<active, gone, config, session, uploads>> /\ NoAnswer

\* upload_bundle up to the first await: the token is never looked at again.  A
\* second upload with the same token, once the first one's directory was taken
\* away, is one of another session with the same claims.
BeginUpload(s) ==
    /\ s \notin uploads
    /\ Accepts(s, "batch")
    /\ uploads' = uploads \cup {s}
    /\ inbox' = [inbox EXCEPT ![session[s].to] = InFlight]
    /\ NoteUse(s)
    /\ UNCHANGED <<active, gone, config, session>> /\ NoAnswer

Forget(s) == session' = IF session[s].life = 0 THEN [session EXCEPT ![s] = NoSession] ELSE session

CommitUpload(s, c) ==
    /\ s \in uploads
    /\ Matches(session[s].man, c) /\ Storable(c)
    /\ \A n \in DOMAIN c : c[n] <= Ceiling
    /\ inbox' = [inbox EXCEPT ![session[s].to] = NewBundle(c, session[s].cap)]
    /\ uploads' = uploads \ {s}
    /\ Forget(s)
    /\ UNCHANGED <<active, gone, config, late>> /\ NoAnswer

\* Whatever else happens to the upload: abort() removes the directory.
AbortUpload(s) ==
    /\ s \in uploads
    /\ inbox' = [inbox EXCEPT ![session[s].to] = Free]
    /\ uploads' = uploads \ {s}
    /\ Forget(s)
    /\ UNCHANGED <<active, gone, config, late>> /\ NoAnswer

-----------------------------------------------------------------------------
(* Broadcast *)

\* Faulty variant of Result: it is a success as soon as somebody was reached.
ResultAny(seen, delivered, blind) ==
    CASE blind -> "error"
      [] ~blind /\ seen = {} -> "noop"
      [] seen # {} /\ delivered # {} -> "success"
      [] OTHER -> "error"

\* The result-tag matrix.
Result(seen, delivered, blind) ==
    CASE blind -> "error"
      [] ~blind /\ seen = {} -> "noop"
      [] seen # {} /\ delivered = seen -> "success"
      [] seen # {} /\ delivered # {} /\ delivered # seen -> "partial"
      [] OTHER -> "error"

\* `blind`: visible_agents raised.  Of the labels seen the policy lets `may` be
\* written to; for those in `bad` the write fails, always if the content cannot
\* be stored; they still have their old bundle only if it was its removal, the
\* first step, that failed (`kept`).  The MCP tool refuses what is too large for
\* inline mode as well: its broadcasts are among these.
Broadcast(from, c) ==
    LET candidates == active \ {from} IN
    /\ from \in Senders
    /\ ~CapExceeded(c, config)
    /\ Cardinality(candidates) <= MaxTargets
    /\ \E blind \in BOOLEAN, seen \in SUBSET candidates :
       \E may \in SUBSET seen : \E bad \in SUBSET may : \E kept \in SUBSET bad :
         LET delivered == may \ bad IN
            /\ blind => seen = {}
            /\ ~Storable(c) => bad = may
            /\ inbox' = [a \in Inboxes |->
                           CASE a \in delivered -> NewBundle(c, config)
                             [] a \in bad \ kept -> Free
                             [] OTHER -> inbox[a]]
            /\ report' = [files |-> c, seen |-> seen, delivered |-> delivered,
                          denied |-> seen \ may, failed |-> bad,
                          result |-> Result(seen, delivered, blind)]
    /\ UNCHANGED <<active, gone, config, session, uploads, late>>

-----------------------------------------------------------------------------
(* The rest of the server *)

\* pick, delete, expiry
Take(a) == /\ inbox[a].kind = "bundle"
           /\ inbox' = [inbox EXCEPT ![a] = Free]
           /\ UNCHANGED <<active, gone, config, session, uploads, late>> /\ NoAnswer

\* The reaper: the directory of a dead upload, or of a slow one.
Reap(a) == /\ inbox[a] = InFlight
           /\ inbox' = [inbox EXCEPT ![a] = Free]
           /\ UNCHANGED <<active, gone, config, session, uploads, late>> /\ NoAnswer

\* The process ends and starts again, perhaps with other limits.  Tokens in
\* clients' hands stay good, uploads in progress are gone.
Restart(cfg) ==
    /\ config' = cfg
    /\ uploads' = {}
    /\ session' = [s \in Sids |-> IF session[s].life = 0 THEN NoSession ELSE session[s]]
    /\ UNCHANGED <<active, gone, inbox, late>> /\ NoAnswer

Next == \/ \E a \in Agents : Revoke(a) \/ CreateKey(a)
        \/ Tick
        \/ \E s \in Sids, from \in Agents \cup {Operator}, to \in Inboxes,
              m \in Manifests, inl \in BOOLEAN : SendInit(s, from, to, m, inl)
        \/ \E s \in Sids : BeginUpload(s) \/ AbortUpload(s)
        \/ \E s \in Sids, c \in Contents : SendInline(s, c) \/ CommitUpload(s, c)
        \/ \E from \in Agents \cup {Operator}, c \in Contents : Broadcast(from, c)
        \/ \E a \in Inboxes : Take(a) \/ Reap(a)
        \/ \E cfg \in Configs : Restart(cfg)

Spec == Init /\ [][Next]_vars

-----------------------------------------------------------------------------
(* Properties *)

\* Sessions, inboxes and answers have the shape the code gives them; an upload
\* in progress has its claims.
TypeOK == /\ active \subseteq Agents
          /\ gone \in [Agents -> 0..UploadTTL]
          /\ config \in Configs
          /\ session \in [Sids -> Session \cup {NoSession}]
          /\ uploads \subseteq {s \in Sids : session[s] # NoSession}
          /\ inbox \in [Inboxes -> Bundle \cup {Free, InFlight}]
          /\ report \in Report \cup {NoReport}
          /\ late \in Nat

\* No bundle exceeds the limits of the server that admitted it, whichever route
\* wrote it and whenever: the limits are checked on what the sender declares
\* (even negative sizes), the bytes only against the declaration.
WithinCaps ==
    \A a \in Inboxes : inbox[a].kind = "bundle" =>
        LET c == inbox[a].files
            cap == inbox[a].cap
        IN /\ cap.count # NoCap => Cardinality(DOMAIN c) <= cap.count
           /\ cap.file # NoCap => \A n \in DOMAIN c : c[n] \in 0..cap.file
           /\ cap.total # NoCap => Total(c) <= cap.total

\* No token that names a revoked label, as sender or as recipient, is accepted
\* once upload_token_ttl has passed since the revocation, although neither
\* send_inline nor upload_bundle asks the key store.  An upload that was let in
\* before may still be committed at any later time: upload_bundle looks at the
\* token only at its start.
RevokedStops == late < UploadTTL

\* Sends that pass phase 1 although no content can complete them: an empty
\* manifest, a negative size, a file above the fallback ceiling of the upload
\* when no per-file limit is set, a file and another one inside it with a name
\* between them in the order of the check.
Hopeless(s) == LET m == session[s].man IN
    \/ DOMAIN m = {}
    \/ \E n \in DOMAIN m : m[n] < 0
    \/ session[s].mode = "batch" /\ config.file = NoCap /\ \E n \in DOMAIN m : m[n] > DefaultFileMax
    \/ Collide(DOMAIN m) /\ Intervenes(DOMAIN m)

\* Phase 1 and phase 2 agree: while the limits stay as they are, what
\* prepare_send_init accepted the second phase can complete.
AcceptedDeliverable ==
    \A s \in Sids : session[s].life > 0 /\ session[s].cap = config /\ ~Hopeless(s) =>
        LET m == session[s].man IN
        /\ m \in Contents /\ Storable(m)
        /\ session[s].mode = "batch" => \A n \in DOMAIN m : m[n] <= Ceiling

\* The answer of a broadcast is the truth: the delivered have the new
\* bundle, every label seen is accounted for once, whoever is neither delivered nor
\* failed keeps what was there, and the result tag says which of it happened.
BroadcastTruthful ==
    [][report' # NoReport =>
         LET r == report' IN
         /\ \A a \in r.delivered : inbox'[a].kind = "bundle" /\ inbox'[a].files = r.files
         /\ \A a \in r.failed : inbox'[a] \in {Free, inbox[a]}
         /\ \A a \in Inboxes \ (r.delivered \cup r.failed) : inbox'[a] = inbox[a]
         /\ r.seen = r.delivered \cup r.denied \cup r.failed
         /\ r.delivered \cap r.failed = {} /\ r.denied \cap (r.delivered \cup r.failed) = {}
         /\ r.result = "success" <=> r.delivered # {} /\ r.denied \cup r.failed = {}
         /\ r.result = "partial" <=> r.delivered # {} /\ r.denied \cup r.failed # {}]_vars
=============================================================================
